----------------------------- MODULE MCNandroid -----------------------------
(* Nandroid with two partitions: a file system with an image and a dump as *)
(* subpartitions, then another file system.                                *)
EXTENDS Nandroid

MCList == << <<"files", "dd", "flash_utils">>, <<"files">> >>
=============================================================================
