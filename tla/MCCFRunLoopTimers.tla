------------------------- MODULE MCCFRunLoopTimers -------------------------
EXTENDS CFRunLoopTimers, TLC

CONSTANTS m1, m2, A, B, C

MCInterval  == A :> 1 @@ B :> 0 @@ C :> 2
MCTolerance == A :> 0 @@ B :> 1 @@ C :> 0
MCPlaced    == A :> {m1, m2} @@ B :> {m1} @@ C :> {m1}
MCCalls     == {<<"add", A>>, <<"remove", A>>, <<"set", B>>, <<"set", C>>, <<"remove", C>>,
                <<"invalidate", C>>}

=============================================================================
