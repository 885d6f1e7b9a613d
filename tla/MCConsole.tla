------------------------------ MODULE MCConsole ------------------------------
(* An instance of Console, in which processes are interchangeable. *)
EXTENDS Console, TLC

CONSTANTS p1, p2
Interchangeable == Permutations(Procs)
=============================================================================
