-------------------------------- MODULE MCRag --------------------------------
(* Instances of Rag: the most expensive process of all leads into a cycle,    *)
(* or is in one; the most expensive of a cycle is the first or the last of it. *)
EXTENDS Rag

MCEnergies == {<<3, 1, 2>>}
=============================================================================
