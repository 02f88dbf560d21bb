------------------------------ MODULE DataFlash -----------------------------
(***************************************************************************)
(* The AT45 dataflash of the late prototype and its driver                 *)
(* (src-firmware/extmem_at45.c).                                           *)
(*                                                                         *)
(* The chip is external, modelled from what the driver sends it: a record  *)
(*    mem    the array, address by address                                 *)
(*    buf    buffer 1, which holds a page and keeps it between commands    *)
(*    sel    the chip-select line is low                                   *)
(*    op     the command taken since it fell                               *)
(*    ptr    the next byte of a read, or of a write to the buffer          *)
(*    busy   an internal cycle is running: all but status reads is ignored *)
(* and, the driver's own static variable,                                  *)
(*    current_write_addr                                                   *)
(* A driver function is an operator from the record before the call to the *)
(* record after it.                                                        *)
(***************************************************************************)
EXTENDS Integers

CONSTANTS
  Size, PageSize,   \* bytes in the array and in a page  (CONFIG_EXTMEM_...)
  SectorSize,       \* bytes in a sector                 (CONFIG_EXTMEM_ERASE_SIZE)
  Erased,           \* the byte 0xff
  Junk              \* a byte the model does not tell

Addr == 0 .. Size - 1
PageOf(a) == {b \in Addr : b \div PageSize = a \div PageSize}

\* Sector 0 comes in two parts: 0a is small (a page here), 0b is the rest.
SectorOf(a) ==
  {b \in Addr : b \div SectorSize = a \div SectorSize
                /\ (a < SectorSize => (b < PageSize <=> a < PageSize))}

InitChip(mem) ==
  [mem |-> mem, buf |-> [i \in 0 .. PageSize - 1 |-> Junk], sel |-> FALSE, op |-> "none",
   ptr |-> 0, busy |-> FALSE, current_write_addr |-> 0]

\* A byte shifted into the buffer, which wraps.
Latch(c, b) == [c EXCEPT !.buf[c.ptr] = b, !.ptr = (c.ptr + 1) % PageSize]
Swallow1(c) == IF c.op = "buffer" THEN Latch(c, Junk) ELSE c
Swallow4(c) == Swallow1(Swallow1(Swallow1(Swallow1(c))))

\* A command and its address.  With the select line low already there is no falling
\* edge, and the bytes are data for a buffer write that was left open.
Open(c, op, a) ==
  IF c.sel THEN Swallow4(c)
  ELSE [c EXCEPT !.sel = TRUE, !.ptr = a, !.op = IF c.busy THEN "ignored" ELSE op]

Deselect(c) == [c EXCEPT !.sel = FALSE, !.op = "none", !.ptr = 0]

CycleDone(c) == [c EXCEPT !.busy = FALSE]

-----------------------------------------------------------------------------
\* The select line goes high; a chip without 512-byte pages never gets past this.
extmem_init(c) == Deselect(c)

extmem_read_start(c, a) == Open(c, "read", a)
extmem_read_value(c) == IF c.op = "read" THEN c.mem[c.ptr] ELSE Junk
extmem_read_byte(c) ==
  CASE c.op = "read"   -> [c EXCEPT !.ptr = (c.ptr + 1) % Size]
    [] c.op = "buffer" -> Latch(c, Erased)
    [] OTHER           -> c
extmem_read_stop(c) == Deselect(c)

\* Mutant: the page that was written last is written again.
extmem_write_start_OldPage(c, a) == Open(c, "buffer", 0)

\* The data goes to the start of the buffer, wherever in its page the address is.
extmem_write_start(c, a) == [Open(c, "buffer", 0) EXCEPT !.current_write_addr = a]
extmem_write_byte(c, b) == IF c.op = "buffer" THEN Latch(c, b) ELSE c

\* The buffer goes to the page, which is erased first.
ProgramPage(c) ==
  [c EXCEPT !.busy = TRUE,
            !.mem = [b \in Addr |-> IF b \in PageOf(c.current_write_addr)
                                    THEN c.buf[b % PageSize] ELSE c.mem[b]]]
extmem_write_stop(c) == IF c.busy THEN Deselect(c) ELSE ProgramPage(Deselect(c))

\* Called with the chip deselected only.
extmem_write_isbusy(c) == c.busy

\* One erase command, and the wait for its end.
EraseSector(c, a) ==
  CycleDone(Deselect(
    IF c.sel \/ c.busy THEN Swallow4(c)
    ELSE [c EXCEPT !.mem = [b \in Addr |-> IF b \in SectorOf(a) THEN Erased ELSE c.mem[b]]]))

\* Mutant: sector 0b is forgotten.
extmem_erase_NoB(c, a) == EraseSector(c, a - (a % PageSize))

\* 0x8000 is an address in sector 0b.
extmem_erase(c, a) ==
  LET page == a - (a % PageSize) IN
  IF page = 0 THEN EraseSector(EraseSector(c, page), SectorSize \div 2)
  ELSE EraseSector(c, page)
=============================================================================
