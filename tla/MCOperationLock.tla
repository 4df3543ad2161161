-------------------------- MODULE MCOperationLock --------------------------
(* Processes are interchangeable: the instance with four of them, in which *)
(* nothing is asked to happen eventually, takes them as a symmetry set.    *)
EXTENDS OperationLock, TLC

Symmetry == Permutations(Process)
=============================================================================
