------------------------------ MODULE ByteLink -----------------------------
(***************************************************************************)
(* The protocols on the sense and write lines.                             *)
(*   1 bit: c64_get_byte and c64_send_byte (src-firmware/cmdmode.c) against*)
(* tapecart_sendbyte, tapecart_getbyte (src-c64/tapecartif.c) and          *)
(* tapecart_sendblock (src-c64/blockwrite.s);                              *)
(*   2 bits: sendbyte_common (src-firmware/samd09/bitbanging.c) against    *)
(* getbyte of the loader (src-c64/loader.asm) and getbyte_fast.s.          *)
(* In command mode both sides follow the same list of transfers; the loader*)
(* counts for itself.  The C64 may be reset at any step.                   *)
(*                                                                         *)
(* Every step is one access to the lines.  The device polls in about a     *)
(* microsecond, the C64 needs several between two accesses: it moves only  *)
(* when the device has seen its last move.  The 10 us the device lets pass *)
(* before it drives sense are the exception.  The four pairs of bits of the*)
(* 2-bit protocol are timed on both sides; FastTiming shows that they fall *)
(* into step, which the guards of Pair and Sample presume.                 *)
(***************************************************************************)
EXTENDS Integers, Sequences

CONSTANTS
  Bits,         \* bits of a byte                                           (8)
  Bytes,        \* bytes that are transferred
  Transfers,    \* how many in command mode
  LoadLens      \* how many bytes a program has behind its load address

ASSUME LinkAssumption ==
  /\ Bits = 8 /\ Bytes \subseteq 0 .. 2 ^ Bits - 1 /\ Transfers \in Nat \ {0}
  /\ LoadLens \subseteq Nat \ {0}   \* without a byte the loader waits for ever

VARIABLES
  ops, data,    \* the list: directions and bytes
  motor, write, \* the levels the C64 gives to these lines
  wout,         \* it drives write: its port is an output there
  dw,           \* what the device does on write: "in", "low" or "high"
  out,          \* what the C64 does on sense: "in", "low" or "high"
  busy,         \* the device drives sense low; it never drives it high
  d, dn, v,     \* device: location, transfer, byte
  c, cn, b,     \* C64: the same
  bit, k,       \* bits done by the device and by the C64
  got           \* the bytes received

line == <<motor, write, wout, dw, out, busy>>
device == <<d, dn, v, bit>>
c64 == <<c, cn, b, k>>
vars == <<ops, data, line, device, c64, got>>

None == -1
List == DOMAIN ops

\* The levels of sense and write, which have pull-ups.
Sense == ~busy /\ out # "low"
Write == IF wout THEN write ELSE dw # "low"

\* The loader takes a low sense line for ready, command mode a high one.
Ready(level) == level = (ops[1] # "load")

Num(level) == IF level THEN 1 ELSE 0
Top(x) == x \div 2 ^ (Bits - 1) = 1
ShiftIn(x, level) == (2 * x + Num(level)) % 2 ^ Bits
ShiftLeft(x) == (2 * x) % 2 ^ Bits

-----------------------------------------------------------------------------
\* The device.

Dev(from, to) ==
  d = from /\ d' = to /\ UNCHANGED <<ops, data, motor, write, wout, out, c64>>

Abort(from) == motor /\ Dev(from, "gone") /\ UNCHANGED <<busy, dw, dn, v, bit, got>>

\* The command calls for the next byte, sooner or later.
Call ==
  /\ dn \in List /\ ops[dn] \notin {"fast", "load"}
  /\ Dev("idle", IF ops[dn] = "toC64" THEN "sendStart" ELSE "getHigh")
  /\ busy' = FALSE /\ bit' = 0 /\ v' = IF ops[dn] = "toC64" THEN data[dn] ELSE 0
  /\ UNCHANGED <<dw, dn, got>>

\* c64_get_byte: both lines are read at once.
GetBit ==
  /\ write /\ ~motor /\ Dev("getHigh", "getLow")
  /\ v' = ShiftIn(v, Sense) /\ bit' = bit + 1
  /\ UNCHANGED <<busy, dw, dn, got>>

GetClock ==
  /\ ~write \/ motor
  /\ Dev("getLow", IF bit = Bits THEN "getSenseHigh" ELSE "getHigh")
  /\ UNCHANGED <<busy, dw, dn, v, bit, got>>

GetSenseHigh ==
  /\ Sense /\ Dev("getSenseHigh", "getSenseLow")
  /\ UNCHANGED <<busy, dw, dn, v, bit, got>>

GetSenseLow ==
  /\ ~Sense /\ Dev("getSenseLow", "delay")
  /\ UNCHANGED <<busy, dw, dn, v, bit, got>>

\* The end of the 10 us.
GetDone ==
  /\ Dev("delay", "idle")
  /\ busy' = TRUE /\ dn' = dn + 1 /\ got' = [got EXCEPT ![dn] = v]
  /\ UNCHANGED <<dw, v, bit>>

\* The wait for sense high has an abort as well, but is over when the motor turns
\* on: a reset lets go of sense first.
GetAbort == Abort("getHigh") \/ (Sense /\ Abort("getSenseLow"))

\* c64_send_byte
SendStart ==
  /\ write /\ ~motor /\ Dev("sendStart", "sendTop")
  /\ UNCHANGED <<busy, dw, dn, v, bit, got>>

SendTop ==
  /\ ~motor /\ Dev("sendTop", "sendHigh")
  /\ UNCHANGED <<busy, dw, dn, v, bit, got>>

SendBit ==
  /\ ~write \/ motor
  /\ Dev("sendHigh", "sendLow")
  /\ busy' = ~Top(v) /\ v' = ShiftLeft(v) /\ bit' = bit + 1
  /\ UNCHANGED <<dw, dn, got>>

SendClock ==
  /\ write \/ motor
  /\ Dev("sendLow", IF bit = Bits THEN "sendEnd" ELSE "sendTop")
  /\ UNCHANGED <<busy, dw, dn, v, bit, got>>

\* An abort that was not noticed at the top of a bit is noticed in the next byte.
SendDone ==
  /\ ~write \/ motor
  /\ Dev("sendEnd", "idle")
  /\ busy' = TRUE /\ dn' = dn + 1
  /\ UNCHANGED <<dw, v, bit, got>>

SendAbort ==
  \/ Abort("sendStart")
  \/ motor /\ Dev("sendTop", "gone") /\ busy' = TRUE
     /\ UNCHANGED <<dw, dn, v, bit, got>>

\* sendbyte_common, as tx_byte and read_flash_fast call it.
FastCall ==
  /\ dn \in List /\ ops[dn] \in {"fast", "load"} /\ ~motor
  /\ Dev("idle", "fastStart")
  /\ busy' = ~Ready(TRUE) /\ bit' = 0 /\ v' = data[dn]
  /\ UNCHANGED <<dw, dn, got>>

FastSeen ==
  /\ Write /\ Dev("fastStart", "fastBits")
  /\ UNCHANGED <<busy, dw, dn, v, bit, got>>

BitOf(x, j) == (x \div 2 ^ j) % 2 = 1

\* Mutant: the pairs go out from the top.
PairAt_Sorted == <<7, 5, 3, 1>>

\* The bits go out in pairs, on sense and write: 5+4, 7+6, 1+0, 3+2.
PairAt == <<5, 7, 1, 3>>

Pair ==
  /\ bit < 4 /\ ((c = "fastRead" /\ k = bit) \/ c = "reset")
  /\ Dev("fastBits", "fastBits")
  /\ bit' = bit + 1
  /\ LET j == PairAt[bit + 1]
     IN  busy' = ~BitOf(v, j) /\ dw' = IF BitOf(v, j - 1) THEN "high" ELSE "low"
  /\ UNCHANGED <<dn, v, got>>

\* The device lets go of write, and its pull-up takes it up.
FastRelease ==
  /\ bit = 4 /\ (k = 4 \/ c = "reset")
  /\ Dev("fastBits", "fastWait") /\ dw' = "in"
  /\ UNCHANGED <<busy, dn, v, bit, got>>

\* Mutant: the device does not wait for write to go low.
FastDone_NoWait ==
  /\ Dev("fastWait", "idle")
  /\ busy' = Ready(TRUE) /\ dn' = dn + 1
  /\ UNCHANGED <<dw, v, bit, got>>

FastDone ==
  /\ ~Write \/ motor
  /\ Dev("fastWait", "idle")
  /\ busy' = Ready(TRUE) /\ dn' = dn + 1
  /\ UNCHANGED <<dw, v, bit, got>>

\* The byte that waits is given up; the caller sees the motor at the next one.
FastAbort ==
  \/ /\ ~Write /\ motor /\ Dev("fastStart", "idle")
     /\ busy' = Ready(TRUE) /\ dn' = dn + 1
     /\ UNCHANGED <<dw, v, bit, got>>
  \/ dn \in List /\ ops[dn] \in {"fast", "load"} /\ Abort("idle")

DeviceStep ==
  \/ Call \/ GetBit \/ GetClock \/ GetSenseHigh \/ GetSenseLow \/ GetDone \/ GetAbort
  \/ SendStart \/ SendTop \/ SendBit \/ SendClock \/ SendDone \/ SendAbort
  \/ FastCall \/ FastSeen \/ Pair \/ FastRelease \/ FastDone \/ FastAbort

\* The device waits for the C64, or takes its time.
Settled ==
  \/ d \in {"idle", "gone", "delay", "fastBits"}
  \/ d \in {"getHigh", "sendStart", "sendLow"} /\ ~write
  \/ d \in {"getLow", "sendHigh", "sendEnd"} /\ write
  \/ d = "fastStart" /\ ~Write
  \/ d = "fastWait" /\ Write
  \/ d = "getSenseHigh" /\ ~Sense
  \/ d = "getSenseLow" /\ Sense

-----------------------------------------------------------------------------
\* The C64.

Host(from, to) ==
  /\ Settled /\ c = from /\ c' = to
  /\ UNCHANGED <<ops, data, motor, dw, busy, device>>

SetSense(level) == out' = IF level THEN "high" ELSE "low"

\* In command mode the C64 knows the list.  The loader reads the end address and the
\* load address, and then until the address behind the last byte read is the end.
More ==
  IF ops[1] = "load" THEN cn <= 3 \/ (got[2] + cn - 3) % 2 ^ Bits # got[1]
                     ELSE cn \in List

\* tapecart_sendbyte, tapecart_sendblock: wait until sense is high and make it an
\* output, which takes the level that was written to it last.
WaitToSend ==
  /\ More /\ ops[cn] \in {"toDevice", "block"} /\ Sense /\ Host("idle", "bit")
  /\ out' \in {"low", "high"}
  /\ b' = data[cn] /\ k' = 0
  /\ UNCHANGED <<wout, write, cn, got>>

\* tapecart_sendblock sets write low together with the next bit.
PutBit ==
  /\ Host("bit", "clock")
  /\ SetSense(Top(b)) /\ b' = ShiftLeft(b)
  /\ write' = FALSE
  /\ UNCHANGED <<wout, cn, k, got>>

PutClock ==
  /\ Host("clock", IF ops[cn] = "block" /\ k + 1 < Bits THEN "bit" ELSE "unclock")
  /\ write' = TRUE /\ k' = k + 1
  /\ UNCHANGED <<wout, out, cn, b, got>>

PutUnclock ==
  /\ Host("unclock", IF k = Bits THEN "mark" ELSE "bit")
  /\ write' = FALSE
  /\ UNCHANGED <<wout, out, cn, b, k, got>>

PutMark ==
  /\ Host("mark", "edge") /\ SetSense(TRUE)
  /\ UNCHANGED <<wout, write, cn, b, k, got>>

PutEdge ==
  /\ Host("edge", "release") /\ SetSense(FALSE)
  /\ UNCHANGED <<wout, write, cn, b, k, got>>

Release ==
  /\ Host("release", "tinydelay") /\ out' = "in"
  /\ UNCHANGED <<wout, write, cn, b, k, got>>

\* Mutant: no delay behind a byte.
TinyDelay_Not ==
  /\ Host("tinydelay", "idle") /\ cn' = cn + 1
  /\ UNCHANGED <<wout, out, write, b, k, got>>

\* The delay behind a byte outlasts the device's.
TinyDelay ==
  /\ d # "delay" /\ Host("tinydelay", "idle") /\ cn' = cn + 1
  /\ UNCHANGED <<wout, out, write, b, k, got>>

\* tapecart_getbyte
WaitToGet ==
  /\ More /\ ops[cn] = "toC64" /\ Sense /\ Host("idle", "down")
  /\ write' = TRUE /\ b' = 0 /\ k' = 0
  /\ UNCHANGED <<wout, out, cn, got>>

ClockLow ==
  /\ Host("down", "up") /\ write' = FALSE
  /\ UNCHANGED <<wout, out, cn, b, k, got>>

ClockHigh ==
  /\ Host("up", "read") /\ write' = TRUE
  /\ UNCHANGED <<wout, out, cn, b, k, got>>

ReadBit ==
  /\ Host("read", IF k + 1 = Bits THEN "end" ELSE "down")
  /\ b' = ShiftIn(b, Sense) /\ k' = k + 1
  /\ UNCHANGED <<wout, out, write, cn, got>>

GotByte ==
  /\ Host("end", "idle")
  /\ write' = FALSE /\ got' = [got EXCEPT ![cn] = b] /\ cn' = cn + 1
  /\ UNCHANGED <<wout, out, b, k>>

\* getbyte of the loader, tapecart_getbyte_fast.
FastStart ==
  /\ More /\ (ops[1] = "load" \/ ops[cn] = "fast")
  /\ Ready(Sense) /\ Host("idle", "fastIn")
  /\ write' = TRUE
  /\ UNCHANGED <<wout, out, cn, b, k, got>>

\* Mutant: write stays an output.
FastInput_Not ==
  /\ Host("fastIn", "fastRead") /\ b' = 0 /\ k' = 0
  /\ UNCHANGED <<wout, write, out, cn, got>>

FastInput ==
  /\ Host("fastIn", "fastRead") /\ wout' = FALSE /\ b' = 0 /\ k' = 0
  /\ UNCHANGED <<write, out, cn, got>>

\* The first pair goes below the second, which the loader adds by an exclusive or,
\* and the third below the fourth.
Sample ==
  /\ d = "fastBits" /\ bit = k + 1 /\ Host("fastRead", "fastRead")
  /\ b' = b + (2 * Num(Sense) + Num(Write)) * <<16, 64, 1, 4>>[k + 1] /\ k' = k + 1
  /\ UNCHANGED <<wout, write, out, cn, got>>

FastOutput ==
  /\ k = 4 /\ d # "fastBits" /\ Host("fastRead", "fastEnd") /\ wout' = TRUE
  /\ UNCHANGED <<write, out, cn, b, k, got>>

FastEnd ==
  /\ Host("fastEnd", "idle")
  /\ write' = FALSE /\ got' = [got EXCEPT ![cn] = b] /\ cn' = cn + 1
  /\ UNCHANGED <<wout, out, b, k>>

C64Step ==
  \/ WaitToSend \/ PutBit \/ PutClock \/ PutUnclock \/ PutMark \/ PutEdge \/ Release
  \/ TinyDelay \/ WaitToGet \/ ClockLow \/ ClockHigh \/ ReadBit \/ GotByte
  \/ FastStart \/ FastInput \/ Sample \/ FastOutput \/ FastEnd

\* A reset lets go of the lines; the motor line follows about a millisecond later.
Reset ==
  /\ c # "reset" /\ c' = "reset" /\ out' = "in" /\ write' \in BOOLEAN /\ wout' = TRUE
  /\ UNCHANGED <<ops, data, motor, dw, busy, device, cn, b, k, got>>

MotorOn ==
  /\ c = "reset" /\ ~motor /\ motor' = TRUE
  /\ UNCHANGED <<ops, data, write, wout, dw, out, busy, device, c64, got>>

Over ==
  /\ (dn \notin List /\ d = "idle") \/ d = "gone"
  /\ (~More /\ c = "idle") \/ motor

Finished == Over /\ UNCHANGED vars

-----------------------------------------------------------------------------
Kinds == {"toDevice", "block", "toC64", "fast"}

\* loader_handler: end and load address, then the program; sense is inactive.
Load(n, start, byte) ==
  /\ ops = [j \in 1 .. n + 2 |-> "load"]
  /\ data = [j \in 1 .. n + 2 |-> CASE j = 1 -> (start + n) % 2 ^ Bits
                                    [] j = 2 -> start [] OTHER -> byte]

Init ==
  /\ \/ ops \in [1 .. Transfers -> Kinds] /\ data \in [1 .. Transfers -> Bytes]
     \/ \E n \in LoadLens, start \in Bytes, byte \in Bytes : Load(n, start, byte)
  /\ motor = FALSE /\ write = FALSE /\ wout = TRUE /\ dw = "in"
  /\ out = "in" /\ busy = Ready(TRUE)
  /\ d = "idle" /\ dn = 1 /\ v = 0 /\ bit = 0
  /\ c = "idle" /\ cn = 1 /\ b = 0 /\ k = 0
  /\ got = [j \in List |-> None]

Next == DeviceStep \/ C64Step \/ Reset \/ MotorOn \/ Finished

Spec == Init /\ [][Next]_vars

\* Both processors run, and a reset does turn the motor on.
FairSpec == Spec /\ WF_vars(DeviceStep) /\ WF_vars(C64Step) /\ WF_vars(MotorOn)

-----------------------------------------------------------------------------
(***************************************************************************)
(* Types of the variables.                                                 *)
(***************************************************************************)
TypeOK ==
  /\ ops \in [List -> Kinds \cup {"load"}] /\ data \in [List -> 0 .. 2 ^ Bits - 1]
  /\ wout \in BOOLEAN /\ dw \in {"in", "low", "high"}
  /\ motor \in BOOLEAN /\ write \in BOOLEAN /\ busy \in BOOLEAN
  /\ out \in {"in", "low", "high"}
  /\ d \in {"idle", "getHigh", "getLow", "getSenseHigh", "getSenseLow", "delay",
            "sendStart", "sendTop", "sendHigh", "sendLow", "sendEnd",
            "fastStart", "fastBits", "fastWait", "gone"}
  /\ c \in {"idle", "bit", "clock", "unclock", "mark", "edge", "release", "tinydelay",
            "down", "up", "read", "end", "fastIn", "fastRead", "fastEnd", "reset"}
  /\ dn \in 1 .. Len(ops) + 1 /\ cn \in 1 .. Len(ops) + 1
  /\ v \in 0 .. 2 ^ Bits - 1 /\ b \in 0 .. 2 ^ Bits - 1
  /\ bit \in 0 .. Bits /\ k \in 0 .. Bits
  /\ got \in [List -> 0 .. 2 ^ Bits - 1 \cup {None}]

(***************************************************************************)
(* The two sides never drive a line against each other: the C64 does not   *)
(* drive sense high while the device drives it low, and write, which both  *)
(* drive in the 2-bit protocol, belongs to one of them at a time.          *)
(***************************************************************************)
NoContention == ~(out = "high" /\ busy) /\ (c # "reset" => ~wout \/ dw = "in")

(***************************************************************************)
(* A byte that is received is the one that was sent, also when the sender  *)
(* or the receiver is cut short by a reset.                                *)
(***************************************************************************)
BytesArrive == \A j \in List : got[j] \in {data[j], None}

(***************************************************************************)
(* Neither side moves on to a transfer the other has not finished its part *)
(* in: a sense line that is high still, or again, is not taken for ready.  *)
(***************************************************************************)
InStep ==
  c \in {"bit", "clock", "unclock", "down", "up", "read", "fastIn", "fastRead"} => cn = dn

(***************************************************************************)
(* All bytes arrive and the C64 knows it, or it is reset and the device    *)
(* leaves: whatever one side waits for, the other or the motor brings it.  *)
(***************************************************************************)
LinkEnds ==
  <>(\/ ~More /\ \A j \in List : got[j] = data[j]
     \/ c = "reset" /\ (d = "gone" \/ dn \notin List))
=============================================================================
