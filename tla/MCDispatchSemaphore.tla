------------------------ MODULE MCDispatchSemaphore ------------------------
(* Model-checking instance of DispatchSemaphore: interchangeable threads.  *)
EXTENDS DispatchSemaphore, TLC

ThreadSymmetry == Permutations(Threads)
=============================================================================
