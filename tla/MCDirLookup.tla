---------------------------- MODULE MCDirLookup ----------------------------
(***************************************************************************)
(* Every flash of five bytes with two values, directories of none and two  *)
(* entries in it, also across its end; names longer than the buffer of two.*)
(***************************************************************************)
EXTENDS DirLookup

AllFlashes == [0 .. Size - 1 -> Bytes]
=============================================================================
