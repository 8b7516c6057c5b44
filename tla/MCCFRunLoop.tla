---------------------------- MODULE MCCFRunLoop ----------------------------
EXTENDS CFRunLoop, TLC

CONSTANTS m1, m2, s1, p1, b1, b2

\* Wait for at most a while; look once and return after the first source.
MCRuns == {<<FALSE, "later">>, <<TRUE, "now">>}

\* m1 is a common mode, with the main queue; b2 runs in both modes.
MCWhere == s1 :> {m1} @@ p1 :> {m2} @@ b1 :> {m1} @@ b2 :> {m1, m2}

=============================================================================
