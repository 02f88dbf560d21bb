------------------------------ MODULE SpiFlash ------------------------------
(***************************************************************************)
(* The W25Q serial flash of the tapecart and the driver that talks to it   *)
(* (src-firmware/extmem_w25q.c).                                           *)
(*                                                                         *)
(* The chip itself is external: it is modelled from the commands the       *)
(* driver sends.  It is a record                                           *)
(*    mem    what the flash array holds, address by address                *)
(*    sel    the chip-select line is low (a command is being shifted in)   *)
(*    op     the command the chip took since chip select fell              *)
(*    ptr    where the next byte of a read or a page program goes          *)
(*    latch  the page buffer, addressed like the array: Erased where no    *)
(*           byte was latched, so that programming it changes nothing      *)
(*    wel    the write-enable latch                                        *)
(*    busy   an internal program or erase cycle is running                 *)
(* A driver function is an operator from the record before the call to the *)
(* record after it: the SPI is clocked by the caller, and nothing else     *)
(* touches the chip during a call.                                         *)
(***************************************************************************)
EXTENDS Integers

CONSTANTS
  Data,       \* the byte values a host stores
  Erased,     \* the byte 0xff, which is what an erased cell holds
  Other,      \* any byte value the model does not tell apart
  Size,       \* bytes in the array            (CONFIG_EXTMEM_SIZE)
  PageSize,   \* bytes in the page buffer      (CONFIG_EXTMEM_PAGE_SIZE)
  EraseSize   \* bytes erased by one command   (CONFIG_EXTMEM_ERASE_SIZE)

ASSUME FlashAssumption ==
  /\ Size \in Nat \ {0} /\ PageSize \in Nat \ {0} /\ EraseSize \in Nat \ {0}
  /\ Size % PageSize = 0 /\ Size % EraseSize = 0
  /\ Erased \notin Data /\ Other \notin Data /\ Other # Erased

Addr == 0 .. Size - 1
Byte == Data \cup {Erased, Other}
Blank == [a \in Addr |-> Erased]

Ops == {"none", "read", "program", "ignored"}

Flash == [mem : [Addr -> Byte], sel : BOOLEAN, op : Ops, ptr : Addr,
          latch : [Addr -> Byte], wel : BOOLEAN, busy : BOOLEAN]

\* Programming can only clear bits: an erased cell takes the new byte, 0xff
\* changes nothing, and two different bytes leave their conjunction.
Prog(old, new) ==
  IF new = Erased \/ new = old THEN old
  ELSE IF old = Erased THEN new ELSE Other

ProgramAll(mem, latch) == [a \in Addr |-> Prog(mem[a], latch[a])]

Sector(a) == {b \in Addr : b - (b % EraseSize) = a - (a % EraseSize)}
EraseSector(mem, a) == [b \in Addr |-> IF b \in Sector(a) THEN Erased ELSE mem[b]]

-----------------------------------------------------------------------------
\* The chip.

\* The page buffer wraps at the end of the page, the read pointer at the end
\* of the array.
NextInPage(p)  == IF (p + 1) % PageSize = 0 THEN p + 1 - PageSize ELSE p + 1
NextInArray(p) == IF p + 1 = Size THEN 0 ELSE p + 1

\* One byte shifted in while a page program is open.
Latch(c, b) == [c EXCEPT !.latch[c.ptr] = b, !.ptr = NextInPage(c.ptr)]

\* A command byte (and address) shifted in after chip select was driven low.
\* If the line was low already there is no falling edge, and the bytes are
\* more data for a page program that is still open.
Swallow1(c) == IF c.op = "program" THEN Latch(c, Other) ELSE c
Swallow4(c) == Swallow1(Swallow1(Swallow1(Swallow1(c))))

Open(c, op, a) ==
  IF c.sel THEN Swallow4(c)
  ELSE [c EXCEPT !.sel = TRUE, !.ptr = a, !.latch = Blank,
                 !.op = IF c.busy \/ (op = "program" /\ ~c.wel)
                        THEN "ignored" ELSE op]

\* Chip select rises: a page program that was open is carried out.
Deselect(c) ==
  IF c.op = "program"
  THEN [c EXCEPT !.mem = ProgramAll(c.mem, c.latch), !.sel = FALSE, !.op = "none",
                 !.ptr = 0, !.latch = Blank, !.wel = FALSE, !.busy = TRUE]
  ELSE [c EXCEPT !.sel = FALSE, !.op = "none", !.ptr = 0]

\* The internal cycle ends.
CycleDone(c) == [c EXCEPT !.busy = FALSE]

-----------------------------------------------------------------------------
\* The driver.

send_writeenable(c) ==
  IF c.sel THEN Deselect(Swallow1(c))
  ELSE [c EXCEPT !.wel = c.wel \/ ~c.busy]

extmem_read_start(c, a) == Open(c, "read", a)

\* The byte read, and the chip afterwards: the 0xff clocked out to read a byte
\* is itself a byte of data when a page program is open.
extmem_read_value(c) == IF c.op = "read" THEN c.mem[c.ptr] ELSE Other
extmem_read_byte(c) ==
  CASE c.op = "read"    -> [c EXCEPT !.ptr = NextInArray(c.ptr)]
    [] c.op = "program" -> Latch(c, Erased)
    [] OTHER            -> c

extmem_read_stop(c) == Deselect(c)

\* Mutant: a page program starts at the page, not at the address.
extmem_write_start_AtPage(c, a) == Open(send_writeenable(c), "program", a - (a % PageSize))

extmem_write_start(c, a) == Open(send_writeenable(c), "program", a)
extmem_write_byte(c, b)  == IF c.op = "program" THEN Latch(c, b) ELSE c
extmem_write_stop(c)     == Deselect(c)

\* The status register; called by the firmware with the chip deselected only.
extmem_write_isbusy(c) == c.busy

extmem_erase(c, a) ==
  LET w == send_writeenable(c)
  IN  IF w.busy \/ ~w.wel THEN w
      ELSE [w EXCEPT !.mem = EraseSector(w.mem, a), !.wel = FALSE, !.busy = TRUE]
=============================================================================
