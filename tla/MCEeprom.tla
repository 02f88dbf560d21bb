------------------------------ MODULE MCEeprom ------------------------------
(***************************************************************************)
(* Three slots (a first, a last and one between them), two loader pages,   *)
(* two load infos and two loaders.                                         *)
(***************************************************************************)
EXTENDS Eeprom, TLC

CONSTANTS i1, i2, c1, c2

MCInfos == {i1, i2}
MCCodes == {c1, c2}
Symmetry == Permutations(MCInfos) \cup Permutations(MCCodes)
=============================================================================
