------------------------------ MODULE MCMemmgt ------------------------------
(* An instance of Loader, and of Memmgt in it, for TLC: pages of 4 bytes,  *)
(* requests of one, two and three pages and one that is no multiple of the *)
(* page size.                                                              *)
EXTENDS Loader

MCLengths == {4, 8, 9, 12}
MCImages  == {4, 9}
=============================================================================
