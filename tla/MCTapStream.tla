---------------------------- MODULE MCTapStream ----------------------------
(***************************************************************************)
(* A ring of 4 slots and a tape of two blocks of 2 leader, 1 data and 4    *)
(* trailing pulses, so that the trail just fits the ring and every round   *)
(* leads the indices around it several times.  A register of two bits, with*)
(* both modes two edges away.                                              *)
(***************************************************************************)
EXTENDS TapStream
=============================================================================
