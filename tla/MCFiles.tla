------------------------------- MODULE MCFiles -------------------------------
(* Instances of Files. *)
EXTENDS Files

MCPaths == {<<"a">>, <<"a", "b">>, <<"..">>}
MCNewPaths == {<<"b">>}

(* A disk with a directory a, and a file b in it. *)
Tree ==
  [type |-> <<"dir", "dir", "file", "none">>, nlink |-> <<2, 1, 1, 0>>,
   ents |-> <<[NoEnts EXCEPT ![".."] = 1, !["a"] = 2], [NoEnts EXCEPT ![".."] = 1, !["b"] = 3],
              NoEnts, NoEnts>>]

(* A disk with a file that was open and had no name when the machine stopped; *)
(* ireclaim() makes it the one of mkfs.                                       *)
Orphan == [Mkfs EXCEPT !.type[2] = "file"]

MCImages == {Tree, Orphan}
=============================================================================
