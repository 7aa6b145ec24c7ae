------------------------ MODULE MC_ExecutionRuntime ------------------------
(* TLC instance of the execution runtime.                                  *)
EXTENDS ExecutionProperties, TLC

Symmetry == Permutations(Jobs) \cup Permutations(Schedulers)
=============================================================================
