----------------------------- MODULE MCTapecart -----------------------------
(***************************************************************************)
(* A flash of 16 bytes: pages of 2, sectors of 4, "64 KB" banks of 8.      *)
(***************************************************************************)
EXTENDS Tapecart

CONSTANTS d1, d2, ff, xx

MCData == {d1, d2}

\* A block from the middle of a page over the boundary of a page and a sector, and the
\* last page of the flash, in the second bank.
MCBlocks == {<<3, 3>>, <<14, 2>>}

\* Two load infos such that a mixture of their fields is neither.
MCInfos == {[ofs |-> 0, len |-> 4], [ofs |-> 3, len |-> 3]}
=============================================================================
