---------------------------- MODULE MCFlashTool ----------------------------
(***************************************************************************)
(* Cartridges of erase blocks of two and three pages, one without erase,   *)
(* whose size is no multiple of the buffer, and the late prototype, whose  *)
(* blocks fill a word; files that end inside, at the end of and just behind*)
(* pages and blocks.                                                       *)
(***************************************************************************)
EXTENDS FlashTool

Cart(total, page, erase) == [total |-> total, page |-> page, erase |-> erase]

AllCarts == {Cart(32, 4, 2), Cart(24, 4, 3), Cart(20, 4, 0), Cart(32, 4, 4)}
PlainCart == {Cart(32, 4, 2)}

\* Blocks of a whole word: 512 bytes by 128 pages on the late prototype.
LateProto == {Cart(32, 4, 4)}
=============================================================================
