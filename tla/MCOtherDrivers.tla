--------------------------- MODULE MCOtherDrivers ---------------------------
(***************************************************************************)
(* Two sectors of two pages of two bytes; blocks that begin with a page    *)
(* and end inside one, that begin inside one and cross into the other      *)
(* sector, and without bytes.  Five bits are the upper ones of the I2C     *)
(* address 0xa0.                                                           *)
(***************************************************************************)
EXTENDS OtherDrivers

MCBlocks == {<<0, 3>>, <<3, 2>>, <<5, 0>>}
MCData == {0, 19}
MCContents == {[a \in 0 .. 7 |-> IF a % 2 = 0 THEN x ELSE 19] : x \in {0, 19}}
=============================================================================
