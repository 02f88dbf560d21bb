------------------------------ MODULE I2cMemory -----------------------------
(***************************************************************************)
(* The I2C EEPROM of the early prototype, the driver                       *)
(* (src-firmware/extmem_i2c.c) and the software bus master                 *)
(* (src-firmware/softi2c.c), one line change at a time.                    *)
(*                                                                         *)
(* The chip is external: a record                                          *)
(*    mem    the array, address by address                                 *)
(*    latch  the bytes of a page write, NoByte where there is none         *)
(*    phase  what it does with the clock: idle (waits for a start), dev,   *)
(*           high, low, data (takes a byte and acknowledges it), send      *)
(*    bit    clock pulses since the byte began; pulse Bits + 1 is the ack  *)
(*    reg    the bits taken                                                *)
(*    ptr    its address counter                                           *)
(*    pull   it holds SDA low                                              *)
(*    busy   an internal write cycle: no device address is acknowledged    *)
(* with the master's ends of the two wires                                 *)
(*    scl, sda                                                             *)
(* A function is an operator from the record before to the record after.   *)
(***************************************************************************)
EXTENDS Integers

CONSTANTS
  Bits,             \* bits of a byte                                   (8)
  EEPROM_ADDR,      \* its upper bits are the chip's address         (0xa0)
  Size, PageSize,   \* bytes in the array and in a page  (CONFIG_EXTMEM_...)
  NoByte

Addr == 0 .. Size - 1
NothingLatched == [a \in Addr |-> NoByte]
NextInPage(p) == IF (p + 1) % PageSize = 0 THEN p + 1 - PageSize ELSE p + 1

InitChip(mem) ==
  [mem |-> mem, latch |-> NothingLatched, phase |-> "idle", bit |-> 0, reg |-> 0, ptr |-> 0,
   pull |-> FALSE, busy |-> FALSE, scl |-> TRUE, sda |-> TRUE]

\* The powers of two, and bit i of a byte, the most significant one first.
Weight[n \in 0 .. Bits] == IF n = 0 THEN 1 ELSE 2 * Weight[n - 1]
BitOf(v, i) == (v \div Weight[Bits - 1 - i]) % 2 = 1
Line(c) == c.sda /\ ~c.pull

CycleDone(c) == [c EXCEPT !.busy = FALSE]

-----------------------------------------------------------------------------
\* The chip.

Idle(c) == [c EXCEPT !.phase = "idle", !.bit = 0, !.reg = 0, !.pull = FALSE,
                     !.latch = NothingLatched]

Begin(c) == [Idle(c) EXCEPT !.phase = "dev"]

\* A stop right behind an acknowledged byte starts the write cycle.
End(c) ==
  LET d == Idle(c) IN
  IF c.phase = "data" /\ c.bit = 1 /\ c.latch # NothingLatched
  THEN [d EXCEPT !.busy = TRUE,
                 !.mem = [a \in Addr |-> IF c.latch[a] = NoByte THEN c.mem[a] ELSE c.latch[a]]]
  ELSE d

Takes(c) == c.phase \in {"dev", "high", "low", "data"}

\* The clock rises: the chip takes a bit, or looks for the acknowledge.
Rise(c) ==
  CASE c.phase = "idle" -> c
    [] c.phase = "send" /\ c.bit = Bits /\ Line(c) -> Idle(c)
    [] Takes(c) /\ c.bit < Bits ->
         [c EXCEPT !.bit = c.bit + 1, !.reg = 2 * c.reg + (IF Line(c) THEN 1 ELSE 0)]
    [] OTHER -> [c EXCEPT !.bit = c.bit + 1]

\* A byte has come in: it is used and acknowledged.
Taken(c) ==
  CASE c.phase = "dev" -> IF c.reg - (c.reg % 2) = EEPROM_ADDR /\ ~c.busy
                          THEN [c EXCEPT !.pull = TRUE] ELSE Idle(c)
    [] c.phase = "high" -> [c EXCEPT !.pull = TRUE, !.ptr = (Weight[Bits] * c.reg) % Size]
    [] c.phase = "low"  -> [c EXCEPT !.pull = TRUE, !.ptr = (c.ptr + c.reg) % Size]
    [] c.phase = "data" -> [c EXCEPT !.pull = TRUE, !.latch[c.ptr] = c.reg,
                                     !.ptr = NextInPage(c.ptr)]

Send(c, p) ==
  [c EXCEPT !.phase = "send", !.bit = 0, !.reg = 0, !.ptr = p, !.pull = ~BitOf(c.mem[p], 0)]

\* Behind the acknowledge of a byte taken.
Continue(c) ==
  IF c.phase = "dev" /\ c.reg % 2 = 1 THEN Send(c, c.ptr)
  ELSE [c EXCEPT !.bit = 0, !.reg = 0, !.pull = FALSE,
                 !.phase = CASE c.phase = "dev" -> "high" [] c.phase = "high" -> "low"
                             [] OTHER -> "data"]

\* The clock falls: the chip changes its output.
Fall(c) ==
  CASE c.phase = "idle" -> c
    [] Takes(c) /\ c.bit = Bits     -> Taken(c)
    [] Takes(c) /\ c.bit = Bits + 1 -> Continue(c)
    [] c.phase = "send" /\ c.bit < Bits     -> [c EXCEPT !.pull = ~BitOf(c.mem[c.ptr], c.bit)]
    [] c.phase = "send" /\ c.bit = Bits     -> [c EXCEPT !.pull = FALSE]
    [] c.phase = "send" /\ c.bit = Bits + 1 -> Send(c, (c.ptr + 1) % Size)
    [] OTHER -> c

-----------------------------------------------------------------------------
\* softi2c.c: the master's ends of the wires.

set_scl(c, x) ==
  CASE x /\ ~c.scl -> [Rise(c) EXCEPT !.scl = TRUE]
    [] ~x /\ c.scl -> [Fall(c) EXCEPT !.scl = FALSE]
    [] OTHER -> c

\* With the clock high, a change of the line is a start or a stop condition.
set_sda(c, x) ==
  LET d == [c EXCEPT !.sda = x] IN
  CASE c.scl /\ Line(c) /\ ~Line(d) -> Begin(d)
    [] c.scl /\ ~Line(c) /\ Line(d) -> End(d)
    [] OTHER -> d

i2c_start(c) == set_scl(set_sda(set_scl(set_sda(c, TRUE), TRUE), FALSE), FALSE)

i2c_stop(c) == set_sda(set_scl(set_sda(c, FALSE), TRUE), TRUE)

\* One bit, from the falling clock to the rising one; and a byte up to the clock pulse in
\* which the acknowledge is read.
SendBit(c, x) == set_scl(set_sda(set_scl(c, FALSE), x), TRUE)
Sent(c, value) ==
  LET sent[n \in 0 .. Bits] == IF n = 0 THEN c ELSE SendBit(sent[n - 1], BitOf(value, n - 1))
  IN  sent
SendBits(c, value) == SendBit(Sent(c, value)[Bits], TRUE)

i2c_send_byte(c, value) == set_scl(SendBits(c, value), FALSE)
i2c_sent_nack(c, value) == Line(SendBits(c, value))

\* The chip behind the eight bits, and the value they gave.
RecvBit(r) ==
  LET up == set_scl(r.chip, TRUE)
  IN  [chip |-> set_scl(up, FALSE), value |-> 2 * r.value + (IF Line(up) THEN 1 ELSE 0)]
Received(c) ==
  LET received[n \in 0 .. Bits] ==
        IF n = 0 THEN [chip |-> set_sda(c, TRUE), value |-> 0] ELSE RecvBit(received[n - 1])
  IN  received
RecvBits(c) == Received(c)[Bits]

i2c_recv_value(c) == RecvBits(c).value
i2c_recv_byte(c, sendack) ==
  set_sda(set_scl(set_scl(set_sda(RecvBits(c).chip, ~sendack), TRUE), FALSE), TRUE)

Pulse(c) == set_scl(set_scl(c, FALSE), TRUE)
Pulsed(c) ==
  LET pulsed[n \in 0 .. Bits + 1] == IF n = 0 THEN c ELSE Pulse(pulsed[n - 1])
  IN  pulsed

\* Nine pulses with SDA high, and a stop condition.
i2c_init(c) == i2c_stop(Pulsed(set_scl(set_sda(c, TRUE), TRUE))[Bits + 1])

-----------------------------------------------------------------------------
\* extmem_i2c.c

Select(c, a) ==
  i2c_send_byte(i2c_send_byte(i2c_send_byte(i2c_start(c), EEPROM_ADDR),
                              a \div Weight[Bits]),
                a % Weight[Bits])

extmem_init(c) == i2c_init(c)

extmem_read_start(c, a) ==
  i2c_send_byte(i2c_start(i2c_stop(Select(c, a))), EEPROM_ADDR + 1)

extmem_read_value(c) == i2c_recv_value(c)

\* Mutant: the last byte is acknowledged like the others.
extmem_read_byte_Acks(c, last_byte) == i2c_recv_byte(c, TRUE)

extmem_read_byte(c, last_byte) == i2c_recv_byte(c, ~last_byte)
extmem_read_stop(c) == i2c_stop(c)

extmem_write_start(c, a) == Select(c, a)
extmem_write_byte(c, b)  == i2c_send_byte(c, b)
extmem_write_stop(c)     == i2c_stop(c)

\* The poll moves the bus, so it gives an answer and a chip.
Polled(c) == i2c_stop(i2c_send_byte(i2c_start(c), EEPROM_ADDR))
\* Mutant: the meaning of the acknowledge is turned around.
extmem_write_isbusy_Inverted(c) == ~i2c_sent_nack(i2c_start(c), EEPROM_ADDR)

extmem_write_isbusy(c) == i2c_sent_nack(i2c_start(c), EEPROM_ADDR)

\* CONFIG_EXTMEM_ERASE_SIZE is 0: an address is sent and no byte.
extmem_erase(c, a) == i2c_stop(Select(c, a - (a % PageSize)))
=============================================================================
