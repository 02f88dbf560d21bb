----------------------------- MODULE MCByteLink ----------------------------
(***************************************************************************)
(* Every list of two transfers of real bytes: ends of both levels, and the*)
(* alternating pattern.                                                    *)
(***************************************************************************)
EXTENDS ByteLink
=============================================================================
