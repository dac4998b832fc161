------------------------------- MODULE MCWorkers ------------------------------
(* Workers for TLC: processes and ids are interchangeable.                 *)
EXTENDS Workers, TLC

Symmetry == Permutations(Procs) \cup Permutations(Ids)
=============================================================================
