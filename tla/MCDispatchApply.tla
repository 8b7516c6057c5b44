-------------------------- MODULE MCDispatchApply --------------------------
EXTENDS DispatchApply, TLC

CONSTANTS c1, c2

MCIterations == c1 :> 3 @@ c2 :> 1
MCItems == Works \cup (Clients \X (1 .. Cpus - 1))

=============================================================================
