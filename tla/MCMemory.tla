------------------------------ MODULE MCMemory -------------------------------
(* An instance of Memory: a program of one segment, one with a header that is *)
(* not loaded and a data segment whose last page is only partly in the file,  *)
(* and one whose second header claims more in the file than in memory.        *)
EXTENDS Memory

Seg(vaddr, memsz, filesz, perm) ==
  [load |-> TRUE, vaddr |-> vaddr, memsz |-> memsz, filesz |-> filesz, perm |-> perm]
Note == [Seg(0, 0, 0, "-") EXCEPT !.load = FALSE]
MCGrow == {3, -1, -8}
MCFreePages == 16..24
MCPrograms == {<<Seg(0, 1, 1, "x")>>, <<Seg(0, 2, 2, "x"), Note, Seg(2, 3, 1, "w")>>,
               <<Seg(0, 1, 1, "x"), Seg(2, 1, 3, "w")>>}
=============================================================================
