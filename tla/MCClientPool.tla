---------------------------- MODULE MCClientPool ----------------------------
(* Instances of ClientPool for model checking.                             *)
EXTENDS ClientPool, TLC

\* Callers are interchangeable (not for liveness).
CallerSymmetry == Permutations(Callers)
=============================================================================
