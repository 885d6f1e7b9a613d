----------------------------- MODULE MCBlockIO -------------------------------
(* An instance of BlockIO: processes and blocks are interchangeable. *)
EXTENDS BlockIO, TLC

CONSTANTS p1, p2, p3, n1, n2, n3, n4

Interchangeable == Permutations(Procs) \cup Permutations(Blocks)
=============================================================================
