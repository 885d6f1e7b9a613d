----------------------------- MODULE MCFileData ------------------------------
(* An instance of FileData: a file of three data and a file of one, both     *)
(* open, and shared by the processes.                                         *)
EXTENDS FileData

MCInode == <<1, 2>>
MCImage == <<<<1, 3>>, <<1, 3>>, <<2, 3>>, <<1, 3>>>>
=============================================================================
