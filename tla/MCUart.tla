------------------------------- MODULE MCUart -------------------------------
(***************************************************************************)
(* Buffers of 4 bytes; six bytes each way lead the indices around the    *)
(* ring once and on, with every fill level on the way.                     *)
(***************************************************************************)
EXTENDS Uart
=============================================================================
