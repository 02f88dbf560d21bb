----------------------------- MODULE LinkProofs ----------------------------
(***************************************************************************)
(* Proofs about the protocols on the sense and write lines: no line has two*)
(* drivers, every byte received is the one sent, and neither side is ahead *)
(* of the other (ByteLink); the C64 reads the pairs of the 2-bit protocol  *)
(* while the device has them on the lines (FastTiming).                    *)
(***************************************************************************)
EXTENDS ByteLink, FastTiming, TLAPS

-----------------------------------------------------------------------------
(***************************************************************************)
(* The bits of a byte.                                                     *)
(***************************************************************************)
Power == <<1, 2, 4, 8, 16, 32, 64, 128, 256>>

\* What is left of byte x when n bits of it have gone out, what has been taken in of
\* it by then, and the level the bit after them gives to sense.
Rest(x, n)  == (x * Power[n + 1]) % 256
Taken(x, n) == x \div Power[9 - n]
Level(x, n) == IF Top(Rest(x, n)) THEN "high" ELSE "low"

\* What the C64 has of byte x after n pairs.
Pairs(x, n) ==
  <<0, 16 * ((x \div 16) % 4), 16 * (x \div 16), 16 * (x \div 16) + (x % 4), x>>[n + 1]

LEMMA ByteOp ==
  ASSUME NEW x \in 0 .. 255
  PROVE  /\ Top(x) <=> x \div 128 = 1
         /\ ShiftLeft(x) = (2 * x) % 256
         /\ ShiftIn(x, TRUE) = (2 * x + 1) % 256 /\ ShiftIn(x, FALSE) = (2 * x) % 256
<1>1. 2 ^ Bits = 256 /\ 2 ^ (Bits - 1) = 128
  BY LinkAssumption
<1>2. QED  BY <1>1 DEF Top, ShiftLeft, ShiftIn, Num

LEMMA ShiftStep ==
  ASSUME NEW x \in 0 .. 255, NEW n \in 0 .. 7, NEW level \in BOOLEAN, level <=> Top(Rest(x, n))
  PROVE  /\ ShiftLeft(Rest(x, n)) = Rest(x, n + 1)
         /\ ShiftIn(Taken(x, n), level) = Taken(x, n + 1)
         /\ Rest(x, n) \in 0 .. 255 /\ Taken(x, n) \in 0 .. 255
<1> DEFINE r == Rest(x, n)  r1 == Rest(x, n + 1)  t == Taken(x, n)  t1 == Taken(x, n + 1)
<1>1. /\ r \in 0 .. 255 /\ t \in 0 .. 255
      /\ (2 * r) % 256 = r1
      /\ r \div 128 = 1 => (2 * t + 1) % 256 = t1
      /\ r \div 128 # 1 => (2 * t) % 256 = t1
  <2>1. CASE n = 0
    <3>1. r = (x * 1) % 256 /\ r1 = (x * 2) % 256
      BY <2>1 DEF Rest, Power
    <3>2. t = x \div 256 /\ t1 = x \div 128
      BY <2>1 DEF Taken, Power
    <3>3. QED  BY <3>1, <3>2
  <2>2. CASE n = 1
    <3>1. r = (x * 2) % 256 /\ r1 = (x * 4) % 256
      BY <2>2 DEF Rest, Power
    <3>2. t = x \div 128 /\ t1 = x \div 64
      BY <2>2 DEF Taken, Power
    <3>3. QED  BY <3>1, <3>2
  <2>3. CASE n = 2
    <3>1. r = (x * 4) % 256 /\ r1 = (x * 8) % 256
      BY <2>3 DEF Rest, Power
    <3>2. t = x \div 64 /\ t1 = x \div 32
      BY <2>3 DEF Taken, Power
    <3>3. QED  BY <3>1, <3>2
  <2>4. CASE n = 3
    <3>1. r = (x * 8) % 256 /\ r1 = (x * 16) % 256
      BY <2>4 DEF Rest, Power
    <3>2. t = x \div 32 /\ t1 = x \div 16
      BY <2>4 DEF Taken, Power
    <3>3. QED  BY <3>1, <3>2
  <2>5. CASE n = 4
    <3>1. r = (x * 16) % 256 /\ r1 = (x * 32) % 256
      BY <2>5 DEF Rest, Power
    <3>2. t = x \div 16 /\ t1 = x \div 8
      BY <2>5 DEF Taken, Power
    <3>3. QED  BY <3>1, <3>2
  <2>6. CASE n = 5
    <3>1. r = (x * 32) % 256 /\ r1 = (x * 64) % 256
      BY <2>6 DEF Rest, Power
    <3>2. t = x \div 8 /\ t1 = x \div 4
      BY <2>6 DEF Taken, Power
    <3>3. QED  BY <3>1, <3>2
  <2>7. CASE n = 6
    <3>1. r = (x * 64) % 256 /\ r1 = (x * 128) % 256
      BY <2>7 DEF Rest, Power
    <3>2. t = x \div 4 /\ t1 = x \div 2
      BY <2>7 DEF Taken, Power
    <3>3. QED  BY <3>1, <3>2
  <2>8. CASE n = 7
    <3>1. r = (x * 128) % 256 /\ r1 = (x * 256) % 256
      BY <2>8 DEF Rest, Power
    <3>2. t = x \div 2 /\ t1 = x \div 1
      BY <2>8 DEF Taken, Power
    <3>3. QED  BY <3>1, <3>2
  <2>9. QED  BY <2>1, <2>2, <2>3, <2>4, <2>5, <2>6, <2>7, <2>8
<1>4. level <=> Top(r)  OBVIOUS
<1> HIDE DEF r, r1, t, t1
<1>2. ShiftLeft(r) = r1  BY <1>1, ByteOp
<1>3. ShiftIn(t, level) = t1
  <2>1. CASE r \div 128 = 1
    <3>1. level = TRUE  BY <2>1, <1>1, <1>4, ByteOp
    <3>2. QED  BY <3>1, <1>1, <2>1, ByteOp
  <2>2. CASE r \div 128 # 1
    <3>1. level = FALSE  BY <2>2, <1>1, <1>4, ByteOp
    <3>2. QED  BY <3>1, <1>1, <2>2, ByteOp
  <2>3. QED  BY <2>1, <2>2
<1>5. QED  BY <1>1, <1>2, <1>3 DEF r, r1, t, t1

-----------------------------------------------------------------------------
(***************************************************************************)
(* The inductive invariant.  The lists of both sides: the loader's number  *)
(* of bytes is in its first two.                                           *)
(***************************************************************************)
IsLoad == ops[1] = "load"

ListsOK ==
  /\ ops \in Seq(Kinds \cup {"load"}) /\ ops # <<>>
  /\ data \in [List -> 0 .. 255] /\ got \in [List -> 0 .. 255 \cup {None}]
  /\ \A j \in List : ops[j] = "load" <=> IsLoad
  /\ IsLoad => Len(ops) > 2 /\ data[1] = (data[2] + Len(ops) - 2) % 256
  /\ cn \in 1 .. Len(ops) + 1 /\ dn \in 1 .. Len(ops) + 1
  /\ d \notin {"idle", "gone"} => dn \in List

\* The device is between two transfers, or waits for the C64 in transfer n.
Called(n) ==
  /\ dn = n
  /\ \/ d = "idle" /\ busy = Ready(TRUE)
     \/ /\ dn \in List /\ bit = 0
        /\ \/ d = "getHigh" /\ ops[dn] \in {"toDevice", "block"} /\ ~busy /\ v = 0
           \/ d = "sendStart" /\ ops[dn] = "toC64" /\ ~busy /\ v = data[dn]
           \/ d = "fastStart" /\ ops[dn] \in {"fast", "load"} /\ busy = ~Ready(TRUE)
              /\ v = data[dn]

\* The C64 is between two transfers.
AtRest ==
  /\ c = "idle" /\ ~write /\ out = "in" /\ wout /\ dw = "in"
  /\ \/ Called(cn)
     \/ /\ dn \in List /\ cn = dn + 1
        /\ \/ d = "sendEnd" /\ ops[dn] = "toC64"
           \/ d = "fastWait" /\ ops[dn] \in {"fast", "load"}

\* The device has seen the bit that the C64 has put on sense last, or is about to.
Clocked ==
  /\ write /\ k > 0
  /\ \/ d = "getLow" /\ bit = k
     \/ d = "getHigh" /\ bit = k - 1 /\ out = Level(data[dn], k - 1)

\* The C64 sends the bits of a byte, and marks its end.
Sending ==
  /\ dn \in List /\ cn = dn /\ ops[dn] \in {"toDevice", "block"}
  /\ ~busy /\ wout /\ dw = "in" /\ out \in {"low", "high"}
  /\ bit \in 0 .. 8 /\ k \in 0 .. 8 /\ v = Taken(data[dn], bit)
  /\ \/ /\ c = "bit" /\ k < 8 /\ b = Rest(data[dn], k)
        /\ Clocked \/ (~write /\ bit = k /\ d \in {"getHigh", "getLow"})
     \/ /\ c = "clock" /\ k < 8 /\ b = Rest(data[dn], k + 1) /\ out = Level(data[dn], k)
        /\ ~write /\ bit = k /\ d \in {"getHigh", "getLow"}
     \/ c = "unclock" /\ b = Rest(data[dn], k) /\ Clocked
     \/ /\ c = "mark" /\ bit = 8 /\ ~write
        /\ d \in {"getLow", "getSenseHigh"} \/ (d = "getSenseLow" /\ out = "high")
     \/ /\ c = "edge" /\ bit = 8 /\ ~write /\ out = "high"
        /\ d \in {"getSenseHigh", "getSenseLow"}

\* The C64 leaves a byte it has sent, of which the device may be in the delay still.
Leaving ==
  /\ (c = "release" /\ out = "low") \/ (c = "tinydelay" /\ out = "in")
  /\ cn \in List /\ ~write /\ wout /\ dw = "in"
  /\ \/ Called(cn + 1) /\ got[cn] = data[cn]
     \/ /\ cn = dn /\ ~busy /\ v = data[dn] /\ ops[dn] \in {"toDevice", "block"}
        /\ d = "delay" \/ (d = "getSenseLow" /\ c = "release")

\* The C64 clocks in a byte.
Receiving ==
  /\ dn \in List /\ cn = dn /\ ops[dn] = "toC64"
  /\ wout /\ dw = "in" /\ out = "in"
  /\ bit \in 0 .. 8 /\ k \in 0 .. 8 /\ v = Rest(data[dn], bit) /\ b = Taken(data[dn], k)
  /\ \/ /\ c = "down" /\ k < 8 /\ write /\ bit = k
        /\ d = "sendHigh" \/ (k = 0 /\ d \in {"sendStart", "sendTop"})
     \/ c = "up" /\ k < 8 /\ ~write /\ d = "sendHigh" /\ bit = k
     \/ /\ c = "up" /\ k < 8 /\ ~write /\ d = "sendLow" /\ bit = k + 1
        /\ (busy <=> ~Top(Rest(data[dn], k)))
     \/ /\ c = "read" /\ k < 8 /\ write /\ bit = k + 1 /\ (busy <=> ~Top(Rest(data[dn], k)))
        /\ \/ d = "sendLow"
           \/ d \in {"sendTop", "sendHigh"} /\ bit < 8
           \/ d = "sendEnd" /\ bit = 8
     \/ c = "end" /\ k = 8 /\ write /\ d = "sendEnd"

\* The C64 takes a byte in pairs.
Pairing ==
  /\ dn \in List /\ cn = dn /\ ops[dn] \in {"fast", "load"}
  /\ write /\ out = "in" /\ v = data[dn]
  /\ \/ /\ c = "fastIn" /\ wout /\ dw = "in"
        /\ bit = 0 /\ d \in {"fastStart", "fastBits"}
     \/ /\ c = "fastRead" /\ ~wout /\ k \in 0 .. 4 /\ b = Pairs(data[dn], k)
        /\ \/ d = "fastBits" /\ bit = k /\ (k = 0 => dw = "in")
           \/ /\ d = "fastBits" /\ k < 4 /\ bit = k + 1 
              /\ (busy <=> ~BitOf(v, PairAt[bit]))
              /\ dw = IF BitOf(v, PairAt[bit] - 1) THEN "high" ELSE "low"
           \/ d = "fastWait" /\ k = 4 /\ dw = "in"
     \/ c = "fastEnd" /\ wout /\ dw = "in" /\ b = data[dn] /\ d = "fastWait"

\* A reset has let go of the lines: nothing is taken for a byte any more.
Cut ==
  /\ c = "reset" /\ out = "in" /\ wout
  /\ d \in {"getHigh", "getLow", "getSenseHigh", "getSenseLow"} => ~busy
  /\ d = "delay" => v = data[dn]

\* All that either side has left behind has arrived.
Received == c # "reset" => \A j \in List : j < cn => got[j] = data[j]

LinkInv ==
  /\ ListsOK /\ BytesArrive /\ Received
  /\ \/ Cut
     \/ /\ ~motor
        /\ AtRest \/ Sending \/ Leaving \/ Receiving \/ Pairing

-----------------------------------------------------------------------------
LEMMA RestStep ==
  ASSUME NEW x \in 0 .. 255, NEW n \in 0 .. 7
  PROVE  ShiftLeft(Rest(x, n)) = Rest(x, n + 1)
<1>1. PICK level \in BOOLEAN : level <=> Top(Rest(x, n))
  OBVIOUS
<1>2. QED  BY <1>1, ShiftStep

LEMMA ShiftEnds ==
  ASSUME NEW x \in 0 .. 255
  PROVE  Rest(x, 0) = x /\ Taken(x, 0) = 0 /\ Taken(x, 8) = x
BY DEF Rest, Taken, Power

LEMMA FastEnds ==
  ASSUME NEW x \in 0 .. 255
  PROVE  Pairs(x, 0) = 0 /\ Pairs(x, 4) = x
BY DEF Pairs

LEMMA FastStep ==
  ASSUME NEW x \in 0 .. 255, NEW n \in 0 .. 3, NEW one \in BOOLEAN, NEW two \in BOOLEAN,
         one <=> BitOf(x, PairAt[n + 1]), two <=> BitOf(x, PairAt[n + 1] - 1)
  PROVE  Pairs(x, n) + (2 * Num(one) + Num(two)) * <<16, 64, 1, 4>>[n + 1] = Pairs(x, n + 1)
<1>1. /\ 2 ^ 0 = 1 /\ 2 ^ 1 = 2 /\ 2 ^ 2 = 4 /\ 2 ^ 3 = 8
      /\ 2 ^ 4 = 16 /\ 2 ^ 5 = 32 /\ 2 ^ 6 = 64 /\ 2 ^ 7 = 128
  OBVIOUS
<1>2. CASE n = 0
  <2>1. PairAt[n + 1] = 5 /\ PairAt[n + 1] - 1 = 4
    BY <1>2 DEF PairAt
  <2>2. (one <=> (x \div 32) % 2 = 1) /\ (two <=> (x \div 16) % 2 = 1)
    BY <2>1, <1>1 DEF BitOf
  <2>3. QED  BY <1>2, <2>2 DEF Pairs, Num
<1>3. CASE n = 1
  <2>1. PairAt[n + 1] = 7 /\ PairAt[n + 1] - 1 = 6
    BY <1>3 DEF PairAt
  <2>2. (one <=> (x \div 128) % 2 = 1) /\ (two <=> (x \div 64) % 2 = 1)
    BY <2>1, <1>1 DEF BitOf
  <2>3. QED  BY <1>3, <2>2 DEF Pairs, Num
<1>4. CASE n = 2
  <2>1. PairAt[n + 1] = 1 /\ PairAt[n + 1] - 1 = 0
    BY <1>4 DEF PairAt
  <2>2. (one <=> (x \div 2) % 2 = 1) /\ (two <=> (x \div 1) % 2 = 1)
    BY <2>1, <1>1 DEF BitOf
  <2>3. QED  BY <1>4, <2>2 DEF Pairs, Num
<1>5. CASE n = 3
  <2>1. PairAt[n + 1] = 3 /\ PairAt[n + 1] - 1 = 2
    BY <1>5 DEF PairAt
  <2>2. (one <=> (x \div 8) % 2 = 1) /\ (two <=> (x \div 4) % 2 = 1)
    BY <2>1, <1>1 DEF BitOf
  <2>3. QED  BY <1>5, <2>2 DEF Pairs, Num
<1>6. QED  BY <1>2, <1>3, <1>4, <1>5

LEMMA ListsKept ==
  ASSUME LinkInv, UNCHANGED <<ops, data, got, cn>>, c' = c \/ c # "reset",
         dn' \in 1 .. Len(ops) + 1, d' \notin {"idle", "gone"} => dn' \in List
  PROVE  ListsOK' /\ BytesArrive' /\ Received'
BY DEF LinkInv, ListsOK, BytesArrive, Received, IsLoad, List

\* What both sides have received stays what was sent.
LEMMA DeviceLists == LinkInv /\ DeviceStep => ListsOK' /\ BytesArrive' /\ Received'
<1> SUFFICES ASSUME LinkInv, DeviceStep  PROVE ListsOK' /\ BytesArrive' /\ Received'
  OBVIOUS
<1>1. CASE GetDone
  <2>1. dn \in List /\ v = data[dn] /\ data[dn] \in 0 .. 255
    BY <1>1 DEF GetDone, Dev, LinkInv, ListsOK, Cut, AtRest, Called, Sending, Clocked,
       Leaving, Receiving, Pairing
  <2>2. dn + 1 \in 1 .. Len(ops) + 1
    BY <2>1 DEF LinkInv, ListsOK, List
  <2>3. QED
    BY <1>1, <2>1, <2>2 DEF GetDone, Dev, c64, LinkInv, ListsOK, BytesArrive, Received,
       IsLoad, List
<1>2. CASE ~GetDone
  <2>1. UNCHANGED <<ops, data, got, cn, c>>
    BY <1>2 DEF DeviceStep, Call, GetBit, GetClock, GetSenseHigh, GetSenseLow, GetAbort,
       SendStart, SendTop, SendBit, SendClock, SendDone, SendAbort, FastCall, FastSeen,
       Pair, FastRelease, FastDone, FastAbort, Dev, Abort, c64
  <2>2. dn' \in {dn, dn + 1} /\ (d' \notin {"idle", "gone"} => dn' \in List)
    BY <1>2 DEF DeviceStep, Call, GetBit, GetClock, GetSenseHigh, GetSenseLow, GetAbort,
       SendStart, SendTop, SendBit, SendClock, SendDone, SendAbort, FastCall, FastSeen,
       Pair, FastRelease, FastDone, FastAbort, Dev, Abort, LinkInv, ListsOK
  <2>3. dn' \in 1 .. Len(ops) + 1
    <3>1. dn' = dn \/ (dn \in List /\ dn' = dn + 1)
      BY <1>2 DEF DeviceStep, Call, GetBit, GetClock, GetSenseHigh, GetSenseLow,
         GetAbort, SendStart, SendTop, SendBit, SendClock, SendDone, SendAbort,
         FastCall, FastSeen, Pair, FastRelease, FastDone, FastAbort, Dev, Abort,
         LinkInv, ListsOK
    <3>2. List = 1 .. Len(ops) /\ Len(ops) \in Nat
      BY DEF LinkInv, ListsOK, List
    <3>3. QED  BY <3>1, <3>2 DEF LinkInv, ListsOK
  <2>4. QED  BY <2>1, <2>2, <2>3, ListsKept
<1>3. QED  BY <1>1, <1>2

\* After a reset the device never sees the low sense line behind a byte.
LEMMA DeviceCut == Cut /\ DeviceStep => Cut'
<1> SUFFICES ASSUME Cut, DeviceStep  PROVE Cut'
  OBVIOUS
<1>1. ~GetSenseLow
  BY DEF GetSenseLow, Cut, Sense, Dev
<1>2. UNCHANGED <<c, out, wout>>
  BY DEF DeviceStep, Call, GetBit, GetClock, GetSenseHigh, GetSenseLow, GetDone,
     GetAbort, SendStart, SendTop, SendBit, SendClock, SendDone, SendAbort, FastCall,
     FastSeen, Pair, FastRelease, FastDone, FastAbort, Dev, Abort, c64
<1>3. d' # "delay"
  BY <1>1 DEF DeviceStep, Call, GetBit, GetClock, GetSenseHigh, GetDone, GetAbort,
     SendStart, SendTop, SendBit, SendClock, SendDone, SendAbort, FastCall, FastSeen,
     Pair, FastRelease, FastDone, FastAbort, Dev, Abort
<1>4. d' \in {"getHigh", "getLow", "getSenseHigh", "getSenseLow"} => ~busy'
  BY <1>1 DEF Cut, DeviceStep, Call, GetBit, GetClock, GetSenseHigh, GetDone, GetAbort,
     SendStart, SendTop, SendBit, SendClock, SendDone, SendAbort, FastCall, FastSeen,
     Pair, FastRelease, FastDone, FastAbort, Dev, Abort
<1>5. QED  BY <1>2, <1>3, <1>4 DEF Cut

LEMMA DeviceAtRest ==
  ASSUME LinkInv, ~motor, AtRest, DeviceStep
  PROVE  AtRest'
<1>1. Call \/ FastCall \/ SendDone \/ FastDone
  BY DEF AtRest, Called, Write, DeviceStep, GetBit, GetClock, GetSenseHigh, GetSenseLow,
     GetDone, GetAbort, SendStart, SendTop, SendBit, SendClock, SendAbort, FastSeen,
     Pair, FastRelease, FastAbort, Dev, Abort
<1>2. /\ \A j \in List : ops[j] \in {"toDevice", "block", "toC64", "fast", "load"}
      /\ ops[1] \in {"toDevice", "block", "toC64", "fast", "load"}
      /\ \A j \in List : ops[j] = "load" <=> IsLoad
      /\ dn \in Nat \ {0}
  BY DEF LinkInv, ListsOK, Kinds, List
<1>3. CASE Call
  BY <1>2, <1>3 DEF Call, Dev, c64, AtRest, Called, List, Ready, IsLoad
<1>4. CASE FastCall
  BY <1>2, <1>4 DEF FastCall, Dev, c64, AtRest, Called, List, Ready, IsLoad
<1>5. CASE SendDone
  BY <1>2, <1>5 DEF SendDone, Dev, c64, AtRest, Called, List, Ready, IsLoad
<1>6. CASE FastDone
  BY <1>2, <1>6 DEF FastDone, Dev, c64, AtRest, Called, List, Ready, IsLoad
<1>7. QED  BY <1>1, <1>3, <1>4, <1>5, <1>6

LEMMA DeviceSending ==
  ASSUME LinkInv, ~motor, Sending, DeviceStep
  PROVE  Sending'
<1>1. GetBit \/ GetClock \/ GetSenseHigh
  BY DEF Sending, Clocked, DeviceStep, Call, GetSenseLow, Sense, GetDone, GetAbort,
     SendStart, SendTop, SendBit, SendClock, SendDone, SendAbort, FastCall, FastSeen,
     Pair, FastRelease, FastDone, FastAbort, Dev, Abort
<1>2. data[dn] \in 0 .. 255 /\ dn \in List
  BY DEF LinkInv, ListsOK, Sending
<1>3. CASE GetBit
  <2>1. /\ Clocked /\ d = "getHigh" /\ bit \in 0 .. 7
        /\ (Sense <=> Top(Rest(data[dn], bit))) /\ Sense \in BOOLEAN
    BY <1>3 DEF GetBit, Dev, Sending, Clocked, Level, Sense
  <2>2. v' = Taken(data[dn], bit + 1)
    BY <1>2, <1>3, <2>1, ShiftStep DEF GetBit, Sending
  <2>3. QED
    BY <1>2, <1>3, <2>1, <2>2 DEF GetBit, Dev, c64, Sending, Clocked, List
<1>4. CASE GetClock
  BY <1>2, <1>4, LinkAssumption DEF GetClock, Dev, c64, Sending, Clocked, List
<1>5. CASE GetSenseHigh
  BY <1>2, <1>5 DEF GetSenseHigh, Sense, Dev, c64, Sending, Clocked, List
<1>6. QED  BY <1>1, <1>3, <1>4, <1>5

LEMMA DeviceLeaving ==
  ASSUME LinkInv, ~motor, Leaving, DeviceStep
  PROVE  Leaving'
<1>1. Call \/ FastCall \/ GetSenseLow \/ GetDone
  BY DEF Leaving, Called, Write, DeviceStep, GetBit, GetClock, GetSenseHigh, GetAbort,
     SendStart, SendTop, SendBit, SendClock, SendDone, SendAbort, FastSeen, Pair,
     FastRelease, FastDone, FastAbort, Dev, Abort
<1>2. /\ \A j \in List : ops[j] \in {"toDevice", "block", "toC64", "fast", "load"}
      /\ \A j \in List : ops[j] = "load" <=> IsLoad
      /\ dn \in Nat \ {0} /\ cn \in Nat \ {0}
  BY DEF LinkInv, ListsOK, Kinds, List
<1>3. CASE Call
  BY <1>2, <1>3 DEF Call, Dev, c64, Leaving, Called, List, Ready, IsLoad
<1>4. CASE FastCall
  BY <1>2, <1>4 DEF FastCall, Dev, c64, Leaving, Called, List, Ready, IsLoad
<1>5. CASE GetSenseLow
  BY <1>2, <1>5 DEF GetSenseLow, Dev, c64, Leaving, Called, List, Ready, IsLoad
<1>6. CASE GetDone
  <2>1. cn = dn /\ d = "delay" /\ v = data[dn] /\ ~IsLoad
    BY <1>2, <1>6 DEF GetDone, Dev, Leaving, Called
  <2>2. got'[cn] = data[cn]
    BY <1>2, <1>6, <2>1 DEF GetDone, Leaving, LinkInv, ListsOK
  <2>3. QED
    BY <1>2, <1>6, <2>1, <2>2 DEF GetDone, Dev, c64, Leaving, Called, List, Ready,
       IsLoad
<1>7. QED  BY <1>1, <1>3, <1>4, <1>5, <1>6

LEMMA DeviceReceiving ==
  ASSUME LinkInv, ~motor, Receiving, DeviceStep
  PROVE  Receiving'
<1>1. SendStart \/ SendTop \/ SendBit \/ SendClock
  BY DEF Receiving, DeviceStep, Call, GetBit, GetClock, GetSenseHigh, GetSenseLow,
     GetDone, GetAbort, SendDone, SendAbort, FastCall, FastSeen, Pair, FastRelease,
     FastDone, FastAbort, Dev, Abort
<1>2. data[dn] \in 0 .. 255 /\ dn \in List
  BY DEF LinkInv, ListsOK, Receiving
<1>3. CASE SendStart
  BY <1>2, <1>3 DEF SendStart, Dev, c64, Receiving, List
<1>4. CASE SendTop
  BY <1>2, <1>4 DEF SendTop, Dev, c64, Receiving, List
<1>5. CASE SendBit
  <2>1. c = "up" /\ bit = k /\ k \in 0 .. 7
    BY <1>5 DEF SendBit, Dev, Receiving
  <2>2. v' = Rest(data[dn], k + 1)
    BY <1>2, <1>5, <2>1, RestStep DEF SendBit, Receiving
  <2>3. busy' <=> ~Top(Rest(data[dn], k))
    <3>1. v = Rest(data[dn], k) /\ busy' = ~Top(v)
      BY <1>5, <2>1 DEF SendBit, Receiving
    <3>2. QED  BY <3>1
  <2>4. QED
    BY <1>2, <1>5, <2>1, <2>2, <2>3 DEF SendBit, Dev, c64, Receiving, List
<1>6. CASE SendClock
  BY <1>2, <1>6, LinkAssumption DEF SendClock, Dev, c64, Receiving, List
<1>7. QED  BY <1>1, <1>3, <1>4, <1>5, <1>6

LEMMA DevicePairing ==
  ASSUME LinkInv, ~motor, Pairing, DeviceStep
  PROVE  Pairing'
<1>1. FastSeen \/ Pair \/ FastRelease
  BY DEF Pairing, Write, DeviceStep, Call, GetBit, GetClock, GetSenseHigh, GetSenseLow,
     GetDone, GetAbort, SendStart, SendTop, SendBit, SendClock, SendDone, SendAbort,
     FastCall, FastDone, FastAbort, Dev, Abort
<1>2. data[dn] \in 0 .. 255 /\ dn \in List
  BY DEF LinkInv, ListsOK, Pairing
<1>3. CASE FastSeen
  BY <1>2, <1>3 DEF FastSeen, Dev, c64, Pairing, List
<1>4. CASE Pair
  BY <1>2, <1>4 DEF Pair, Dev, c64, Pairing, List
<1>5. CASE FastRelease
  BY <1>2, <1>5 DEF FastRelease, Dev, c64, Pairing, List
<1>6. QED  BY <1>1, <1>3, <1>4, <1>5

LEMMA DeviceInv == LinkInv /\ DeviceStep => LinkInv'
<1> SUFFICES ASSUME LinkInv, DeviceStep  PROVE LinkInv'
  OBVIOUS
<1>1. ListsOK' /\ BytesArrive' /\ Received'  BY DeviceLists
<1>2. CASE Cut  BY <1>1, <1>2, DeviceCut DEF LinkInv
<1>3. CASE ~motor /\ (AtRest \/ Sending \/ Leaving \/ Receiving \/ Pairing)
  <2>1. ~motor'
    BY <1>3 DEF DeviceStep, Call, GetBit, GetClock, GetSenseHigh, GetSenseLow, GetDone,
       GetAbort, SendStart, SendTop, SendBit, SendClock, SendDone, SendAbort, FastCall,
       FastSeen, Pair, FastRelease, FastDone, FastAbort, Dev, Abort
  <2>2. AtRest' \/ Sending' \/ Leaving' \/ Receiving' \/ Pairing'
    BY <1>3, DeviceAtRest, DeviceSending, DeviceLeaving, DeviceReceiving, DevicePairing
  <2>3. QED  BY <1>1, <2>1, <2>2 DEF LinkInv
<1>4. QED  BY <1>2, <1>3 DEF LinkInv

-----------------------------------------------------------------------------
(***************************************************************************)
(* The steps of the C64.  The loader wants the bytes the device has for it *)
(* and no more.                                                            *)
(***************************************************************************)
LEMMA MoreInList ==
  ASSUME ListsOK, Received, c # "reset", More
  PROVE  cn \in List
<1>1. CASE ~IsLoad
  BY <1>1 DEF More, IsLoad
<1>2. CASE IsLoad
  <2>1. List = 1 .. Len(ops) /\ Len(ops) \in Nat /\ Len(ops) > 2
    BY <1>2 DEF ListsOK, List
  <2>2. SUFFICES ASSUME cn > Len(ops)  PROVE FALSE
    BY <2>1 DEF ListsOK
  <2>3. got[1] = data[1] /\ got[2] = data[2]
    BY <2>1, <2>2 DEF Received, ListsOK
  <2>4. cn = Len(ops) + 1
    BY <2>1, <2>2 DEF ListsOK
  <2>5. 2 \in List /\ data \in [List -> 0 .. 255]
    BY <2>1 DEF ListsOK
  <2>6. data[2] \in 0 .. 255
    BY <2>5
  <2>7. data[1] = (data[2] + Len(ops) - 2) % 256
    BY <1>2 DEF ListsOK
  <2>8. got[2] + cn - 3 = data[2] + Len(ops) - 2
    BY <2>1, <2>3, <2>4, <2>6
  <2>9. cn > 3
    BY <2>1, <2>4
  <2>10. (got[2] + cn - 3) % 2 ^ Bits # got[1]
    BY <1>2, <2>1, <2>4, <2>9 DEF More, IsLoad
  <2>11. 2 ^ Bits = 256
    BY LinkAssumption
  <2>12. QED
    BY <2>3, <2>7, <2>8, <2>10, <2>11
<1>3. QED  BY <1>1, <1>2

\* A step of the C64 waits for the device, and leaves it and its lines alone.
LEMMA HostFrame ==
  ASSUME C64Step
  PROVE  /\ c # "reset" /\ c' # "reset" /\ Settled
         /\ UNCHANGED <<ops, data, motor, dw, busy, d, dn, v, bit, List>>
<1>1. c # "reset" /\ c' # "reset" /\ Settled
  BY DEF C64Step, WaitToSend, PutBit, PutClock, PutUnclock, PutMark, PutEdge, Release,
     TinyDelay, WaitToGet, ClockLow, ClockHigh, ReadBit, GotByte, FastStart, FastInput,
     Sample, FastOutput, FastEnd, Host
<1>2. UNCHANGED <<ops, data, motor, dw, busy, d, dn, v, bit>>
  BY DEF C64Step, WaitToSend, PutBit, PutClock, PutUnclock, PutMark, PutEdge, Release,
     TinyDelay, WaitToGet, ClockLow, ClockHigh, ReadBit, GotByte, FastStart, FastInput,
     Sample, FastOutput, FastEnd, Host, device
<1>3. QED  BY <1>1, <1>2 DEF List

\* What the C64 has left behind has arrived.
LEMMA HostLists ==
  ASSUME ListsOK, BytesArrive, Received, C64Step,
         \/ UNCHANGED <<cn, got>>
         \/ /\ cn \in List /\ cn' = cn + 1 /\ got[cn] = data[cn] /\ got' = got
         \/ /\ cn \in List /\ cn' = cn + 1 /\ got' = [got EXCEPT ![cn] = data[cn]]
  PROVE  ListsOK' /\ BytesArrive' /\ Received'
<1>1. /\ UNCHANGED <<ops, data, d, dn, List>> /\ c # "reset"
      /\ List = 1 .. Len(ops) /\ Len(ops) \in Nat
      /\ cn \in 1 .. Len(ops) + 1
  BY HostFrame DEF ListsOK, List
<1>2. got \in [List -> 0 .. 255 \cup {None}] /\ \A j \in List : data[j] \in 0 .. 255
  BY DEF ListsOK
<1>3. CASE UNCHANGED <<cn, got>>
  BY <1>1, <1>3 DEF ListsOK, BytesArrive, Received, IsLoad
<1>4. CASE cn \in List /\ cn' = cn + 1 /\ got[cn] = data[cn] /\ got' = got
  <2>1. cn' \in 1 .. Len(ops) + 1
    BY <1>1, <1>4
  <2>2. ListsOK'
    BY <1>1, <1>4, <2>1 DEF ListsOK, IsLoad
  <2>3. BytesArrive' /\ Received'
    BY <1>1, <1>4 DEF BytesArrive, Received
  <2>4. QED  BY <2>2, <2>3
<1>5. CASE cn \in List /\ cn' = cn + 1 /\ got' = [got EXCEPT ![cn] = data[cn]]
  <2>1. got' \in [List -> 0 .. 255 \cup {None}]
    BY <1>2, <1>5
  <2>2. \A j \in List : got'[j] = IF j = cn THEN data[j] ELSE got[j]
    BY <1>2, <1>5
  <2>3. cn' \in 1 .. Len(ops) + 1
    BY <1>1, <1>5
  <2>4. ListsOK'
    BY <1>1, <2>1, <2>3 DEF ListsOK, IsLoad
  <2>5. BytesArrive'
    BY <1>1, <2>2 DEF BytesArrive
  <2>6. Received'
    BY <1>1, <1>5, <2>2 DEF Received
  <2>7. QED  BY <2>4, <2>5, <2>6
<1>6. QED  BY <1>3, <1>4, <1>5

LEMMA HostAtRest ==
  ASSUME LinkInv, ~motor, AtRest, C64Step
  PROVE  /\ Sending' \/ Receiving' \/ Pairing'
         /\ UNCHANGED <<cn, got>>
<1>1. WaitToSend \/ WaitToGet \/ FastStart
  BY DEF AtRest, C64Step, PutBit, PutClock, PutUnclock, PutMark, PutEdge, Release,
     TinyDelay, ClockLow, ClockHigh, ReadBit, GotByte, FastInput, Sample, FastOutput,
     FastEnd, Host
<1>2. ListsOK /\ Received /\ c # "reset" /\ d \notin {"sendEnd", "fastWait"} /\ Called(cn)
  BY HostFrame DEF LinkInv, AtRest, Settled, Write
<1>3. /\ \A j \in List : data[j] \in 0 .. 255
      /\ \A j \in List : ops[j] = "load" <=> IsLoad
      /\ UNCHANGED <<ops, data, motor, dw, busy, d, dn, v, bit, List>>
  BY <1>2, HostFrame DEF ListsOK
<1>4. CASE WaitToSend
  <2>1. cn \in List /\ Sense
    BY <1>2, <1>4, MoreInList DEF WaitToSend
  <2>2. d = "getHigh" /\ dn \in List /\ cn = dn
    BY <1>2, <1>3, <1>4, <2>1 DEF WaitToSend, Called, Sense, Ready, IsLoad
  <2>3. Sending'
    BY <1>2, <1>3, <1>4, <2>2, ShiftEnds DEF WaitToSend, Host, Called, AtRest, Sending,
       Clocked
  <2>4. QED  BY <1>4, <2>3 DEF WaitToSend
<1>5. CASE WaitToGet
  <2>1. cn \in List /\ Sense
    BY <1>2, <1>5, MoreInList DEF WaitToGet
  <2>2. d = "sendStart" /\ dn \in List /\ cn = dn
    BY <1>2, <1>3, <1>5, <2>1 DEF WaitToGet, Called, Sense, Ready, IsLoad
  <2>3. Receiving'
    BY <1>2, <1>3, <1>5, <2>2, ShiftEnds DEF WaitToGet, Host, Called, AtRest, Receiving
  <2>4. QED  BY <1>5, <2>3 DEF WaitToGet
<1>6. CASE FastStart
  <2>1. d # "idle"
    BY <1>2, <1>6 DEF FastStart, AtRest, Called, Sense, Ready
  <2>2. d = "fastStart" /\ dn \in List /\ cn = dn
    BY <1>2, <1>3, <1>6, <2>1 DEF FastStart, Called, IsLoad
  <2>3. Pairing'
    BY <1>2, <1>3, <1>6, <2>2 DEF FastStart, Host, Called, AtRest, Pairing
  <2>4. QED  BY <1>6, <2>3 DEF FastStart
<1>7. QED  BY <1>1, <1>4, <1>5, <1>6

LEMMA HostSending ==
  ASSUME LinkInv, ~motor, Sending, C64Step
  PROVE  /\ Sending' \/ Leaving'
         /\ UNCHANGED <<cn, got>>
<1>1. PutBit \/ PutClock \/ PutUnclock \/ PutMark \/ PutEdge
  BY DEF Sending, C64Step, WaitToSend, Release, TinyDelay, WaitToGet, ClockLow,
     ClockHigh, ReadBit, GotByte, FastStart, FastInput, Sample, FastOutput, FastEnd,
     Host
<1>2. data[dn] \in 0 .. 255 /\ dn \in List
  BY DEF LinkInv, ListsOK, Sending
<1>3. Settled /\ UNCHANGED <<ops, data, motor, dw, busy, d, dn, v, bit, List>>
  BY HostFrame
<1>4. CASE PutBit
  <2>1. /\ b' = Rest(data[dn], k + 1)
        /\ (SetSense(Top(b)) => out' = Level(data[dn], k)) /\ k \in 0 .. 7
    BY <1>2, <1>4, RestStep DEF PutBit, Host, Sending, SetSense, Level
  <2>2. QED
    BY <1>2, <1>3, <1>4, <2>1 DEF PutBit, Host, Sending, Clocked, Settled, Level
<1>5. CASE PutClock
  BY <1>2, <1>3, <1>5, LinkAssumption DEF PutClock, Host, Sending, Clocked, Settled
<1>6. CASE PutUnclock
  BY <1>2, <1>3, <1>6, LinkAssumption DEF PutUnclock, Host, Sending, Clocked, Settled
<1>7. CASE PutMark
  BY <1>2, <1>3, <1>7 DEF PutMark, Host, Sending, Clocked, Settled, SetSense
<1>8. CASE PutEdge
  BY <1>2, <1>3, <1>8, ShiftEnds DEF PutEdge, Host, Sending, Clocked, Leaving, Settled,
     Sense, SetSense
<1>9. QED  BY <1>1, <1>4, <1>5, <1>6, <1>7, <1>8

LEMMA HostLeaving ==
  ASSUME LinkInv, ~motor, Leaving, C64Step
  PROVE  \/ Leaving' /\ UNCHANGED <<cn, got>>
         \/ AtRest' /\ cn' = cn + 1 /\ got[cn] = data[cn] /\ got' = got
<1>1. Release \/ TinyDelay
  BY DEF Leaving, C64Step, WaitToSend, PutBit, PutClock, PutUnclock, PutMark, PutEdge,
     WaitToGet, ClockLow, ClockHigh, ReadBit, GotByte, FastStart, FastInput, Sample,
     FastOutput, FastEnd, Host
<1>2. Settled /\ UNCHANGED <<ops, data, motor, dw, busy, d, dn, v, bit, List>> /\ cn \in Nat
  BY HostFrame DEF LinkInv, ListsOK
<1>3. CASE Release
  BY <1>2, <1>3 DEF Release, Host, Leaving, Called, Settled, Sense, Ready
<1>4. CASE TinyDelay
  BY <1>2, <1>4 DEF TinyDelay, Host, Leaving, AtRest, Called, Ready
<1>5. QED  BY <1>1, <1>3, <1>4

LEMMA HostReceiving ==
  ASSUME LinkInv, ~motor, Receiving, C64Step
  PROVE  \/ Receiving' /\ UNCHANGED <<cn, got>>
         \/ AtRest' /\ cn' = cn + 1 /\ got' = [got EXCEPT ![cn] = data[cn]]
<1>1. ClockLow \/ ClockHigh \/ ReadBit \/ GotByte
  BY DEF Receiving, C64Step, WaitToSend, PutBit, PutClock, PutUnclock, PutMark, PutEdge,
     Release, TinyDelay, WaitToGet, FastStart, FastInput, Sample, FastOutput, FastEnd,
     Host
<1>2. data[dn] \in 0 .. 255 /\ dn \in List /\ cn = dn
  BY DEF LinkInv, ListsOK, Receiving
<1>3. Settled /\ UNCHANGED <<ops, data, motor, dw, busy, d, dn, v, bit, List>>
  BY HostFrame
<1>4. CASE ClockLow
  BY <1>2, <1>3, <1>4 DEF ClockLow, Host, Receiving, Settled
<1>5. CASE ClockHigh
  BY <1>2, <1>3, <1>5 DEF ClockHigh, Host, Receiving, Settled
<1>6. CASE ReadBit
  <2>1. /\ k \in 0 .. 7 /\ (Sense <=> Top(Rest(data[dn], k))) /\ Sense \in BOOLEAN
        /\ b = Taken(data[dn], k)
    BY <1>6 DEF ReadBit, Host, Receiving, Sense
  <2>2. b' = Taken(data[dn], k + 1)
    BY <1>2, <1>6, <2>1, ShiftStep DEF ReadBit
  <2>3. QED
    BY <1>2, <1>3, <1>6, <2>1, <2>2, LinkAssumption DEF ReadBit, Host, Receiving,
       Settled
<1>7. CASE GotByte
  <2>1. b = data[cn]
    BY <1>2, <1>7, ShiftEnds DEF GotByte, Host, Receiving
  <2>2. QED
    BY <1>2, <1>3, <1>7, <2>1 DEF GotByte, Host, Receiving, AtRest
<1>8. QED  BY <1>1, <1>4, <1>5, <1>6, <1>7

LEMMA HostPairing ==
  ASSUME LinkInv, ~motor, Pairing, C64Step
  PROVE  \/ Pairing' /\ UNCHANGED <<cn, got>>
         \/ AtRest' /\ cn' = cn + 1 /\ got' = [got EXCEPT ![cn] = data[cn]]
<1>1. FastInput \/ Sample \/ FastOutput \/ FastEnd
  BY DEF Pairing, C64Step, WaitToSend, PutBit, PutClock, PutUnclock, PutMark, PutEdge,
     Release, TinyDelay, WaitToGet, ClockLow, ClockHigh, ReadBit, GotByte, FastStart,
     Host
<1>2. data[dn] \in 0 .. 255 /\ dn \in List /\ cn = dn
  BY DEF LinkInv, ListsOK, Pairing
<1>3. Settled /\ UNCHANGED <<ops, data, motor, dw, busy, d, dn, v, bit, List>>
  BY HostFrame
<1>4. CASE FastInput
  BY <1>2, <1>3, <1>4, FastEnds DEF FastInput, Host, Pairing, Settled, Write
<1>5. CASE Sample
  <2>1. /\ k \in 0 .. 3 /\ (Sense <=> BitOf(data[dn], PairAt[k + 1])) /\ Sense \in BOOLEAN
        /\ (Write <=> BitOf(data[dn], PairAt[k + 1] - 1)) /\ Write \in BOOLEAN
        /\ b = Pairs(data[dn], k) 
    BY <1>5 DEF Sample, Host, Pairing, Sense, Write
  <2>2. b' = Pairs(data[dn], k + 1)
    BY <1>2, <1>5, <2>1, FastStep DEF Sample
  <2>3. QED
    BY <1>2, <1>3, <1>5, <2>1, <2>2 DEF Sample, Host, Pairing, Settled
<1>6. CASE FastOutput
  BY <1>2, <1>3, <1>6, FastEnds DEF FastOutput, Host, Pairing, Settled
<1>7. CASE FastEnd
  BY <1>2, <1>3, <1>7 DEF FastEnd, Host, Pairing, AtRest
<1>8. QED  BY <1>1, <1>4, <1>5, <1>6, <1>7

LEMMA HostInv == LinkInv /\ C64Step => LinkInv'
<1> SUFFICES ASSUME LinkInv, C64Step  PROVE LinkInv'
  OBVIOUS
<1>1. /\ ~motor /\ ~motor' /\ ListsOK /\ BytesArrive /\ Received
      /\ AtRest \/ Sending \/ Leaving \/ Receiving \/ Pairing
  BY HostFrame DEF LinkInv, Cut
<1>2. CASE AtRest
  BY <1>1, <1>2, HostAtRest, HostLists DEF LinkInv
<1>3. CASE Sending
  BY <1>1, <1>3, HostSending, HostLists DEF LinkInv
<1>4. CASE Leaving
  <2>1. cn \in List  BY <1>4 DEF Leaving
  <2>2. QED  BY <1>1, <1>4, <2>1, HostLeaving, HostLists DEF LinkInv
<1>5. CASE Receiving
  <2>1. cn \in List  BY <1>5 DEF Receiving
  <2>2. QED  BY <1>1, <1>5, <2>1, HostReceiving, HostLists DEF LinkInv
<1>6. CASE Pairing
  <2>1. cn \in List  BY <1>6 DEF Pairing
  <2>2. QED  BY <1>1, <1>6, <2>1, HostPairing, HostLists DEF LinkInv
<1>7. QED  BY <1>1, <1>2, <1>3, <1>4, <1>5, <1>6

-----------------------------------------------------------------------------
LEMMA ResetInv == LinkInv /\ (Reset \/ MotorOn \/ UNCHANGED vars) => LinkInv'
<1> SUFFICES ASSUME LinkInv, Reset \/ MotorOn \/ UNCHANGED vars  PROVE LinkInv'
  OBVIOUS
<1>1. ListsOK' /\ BytesArrive' /\ Received'
  BY ListsKept DEF Reset, MotorOn, vars, device, c64, line, LinkInv, ListsOK
<1>2. CASE Reset
  <2>1. Cut'
    BY <1>2 DEF Reset, device, LinkInv, Cut, AtRest, Called, Sending, Clocked, Leaving,
       Receiving, Pairing
  <2>2. QED  BY <1>1, <2>1 DEF LinkInv
<1>3. CASE MotorOn
  <2>1. Cut'
    BY <1>3 DEF MotorOn, device, c64, LinkInv, Cut, AtRest, Sending, Leaving, Receiving,
       Pairing
  <2>2. QED  BY <1>1, <2>1 DEF LinkInv
<1>4. CASE UNCHANGED vars
  BY <1>4, <1>1 DEF vars, line, device, c64, List, LinkInv, Cut, AtRest, Called,
     Sending, Clocked, Leaving, Receiving, Pairing, Ready
<1>5. QED  BY <1>2, <1>3, <1>4

LEMMA InitLinkInv == Init => LinkInv
<1> SUFFICES ASSUME Init  PROVE LinkInv
  OBVIOUS
<1>1. Bytes \subseteq 0 .. 255 /\ 2 ^ Bits = 256
  BY LinkAssumption
<1>2. ListsOK
  <2>1. /\ d = "idle" /\ cn = 1 /\ dn = 1 /\ got = [j \in List |-> None]
        /\ \/ ops \in [1 .. Transfers -> Kinds] /\ data \in [1 .. Transfers -> Bytes]
           \/ \E n \in LoadLens, start \in Bytes, byte \in Bytes : Load(n, start, byte)
    BY DEF Init
  <2>2. CASE ops \in [1 .. Transfers -> Kinds] /\ data \in [1 .. Transfers -> Bytes]
    <3>1. Transfers \in Nat \ {0} /\ List = 1 .. Transfers
      BY <2>2, LinkAssumption DEF List
    <3>2. ops \in Seq(Kinds \cup {"load"}) /\ Len(ops) = Transfers
      BY <2>2, <3>1
    <3>3. \A j \in List : ops[j] # "load"
      <4>1. ASSUME NEW j \in List  PROVE ops[j] \in Kinds
        BY <2>2, <3>1
      <4>2. QED  BY <4>1 DEF Kinds
    <3>4. data \in [List -> 0 .. 255]
      <4>1. data \in [List -> Bytes]
        BY <2>2, <3>1
      <4>2. \A x \in Bytes : x \in 0 .. 255
        BY <1>1
      <4>3. QED  BY <4>1, <4>2
    <3>5. QED
      BY <2>1, <3>1, <3>2, <3>3, <3>4 DEF ListsOK, IsLoad
  <2>3. ASSUME NEW n \in LoadLens, NEW start \in Bytes, NEW byte \in Bytes, Load(n, start, byte)
        PROVE  ListsOK
    <3>1. n \in Nat \ {0} /\ start \in 0 .. 255 /\ byte \in 0 .. 255
      BY <1>1, LinkAssumption
    <3>2. PICK e \in 0 .. 255 : e = (start + n) % 256
      BY <3>1
    <3>3. /\ ops = [j \in 1 .. n + 2 |-> "load"]
          /\ data = [j \in 1 .. n + 2 |-> CASE j = 1 -> e [] j = 2 -> start [] OTHER -> byte]
      BY <1>1, <2>3, <3>2 DEF Load
    <3>4. List = 1 .. n + 2 /\ ops \in Seq(Kinds \cup {"load"}) /\ Len(ops) = n + 2
      <4>1. ops \in [1 .. n + 2 -> Kinds \cup {"load"}] /\ n + 2 \in Nat
        BY <3>1, <3>3
      <4>2. QED  BY <4>1 DEF List
    <3>5. data \in [List -> 0 .. 255] /\ data[1] = e /\ data[2] = start
      BY <3>1, <3>2, <3>3, <3>4
    <3>6. \A j \in List : ops[j] = "load"
      BY <3>3, <3>4
    <3>7. data[1] = (data[2] + Len(ops) - 2) % 256
      BY <3>1, <3>2, <3>4, <3>5
    <3>8. QED
      BY <2>1, <3>1, <3>4, <3>5, <3>6, <3>7 DEF ListsOK, IsLoad
  <2>4. QED  BY <2>1, <2>2, <2>3
<1>3. BytesArrive /\ Received
  <2>1. List = 1 .. Len(ops) /\ Len(ops) \in Nat
    BY <1>2 DEF ListsOK, List
  <2>2. QED  BY <2>1 DEF Init, BytesArrive, Received
<1>4. AtRest /\ ~motor
  BY DEF Init, AtRest, Called, Ready
<1>5. QED  BY <1>2, <1>3, <1>4 DEF LinkInv

-----------------------------------------------------------------------------
LEMMA LinkInvariant == Spec => []LinkInv
<1>1. LinkInv /\ [Next]_vars => LinkInv'
  BY DeviceInv, HostInv, ResetInv DEF Next, Finished
<1>2. QED  BY <1>1, InitLinkInv, PTL DEF Spec

(***************************************************************************)
(* No line is driven from both sides at once.                              *)
(***************************************************************************)
THEOREM LinesHaveOneDriver == Spec => []NoContention
<1>1. LinkInv => NoContention
  BY DEF LinkInv, NoContention, Cut, AtRest, Sending, Leaving, Receiving, Pairing
<1>2. QED  BY <1>1, LinkInvariant, PTL

(***************************************************************************)
(* Every byte received is the byte sent, whatever the bytes and the order  *)
(* of the transfers, and wherever a reset cuts them short.                 *)
(***************************************************************************)
THEOREM ReceivedBytesAreSent == Spec => []BytesArrive
BY LinkInvariant, PTL DEF LinkInv

(***************************************************************************)
(* A side that is in a transfer is in the one the other side is in.        *)
(***************************************************************************)
THEOREM SidesStayInStep == Spec => []InStep
<1>1. LinkInv => InStep
  BY DEF LinkInv, InStep, Cut, AtRest, Sending, Leaving, Receiving, Pairing
<1>2. QED  BY <1>1, LinkInvariant, PTL

(***************************************************************************)
(* The loader, which counts addresses and not bytes, asks the device for no*)
(* byte behind the last one, nor does a side in command mode.              *)
(***************************************************************************)
THEOREM NothingAskedBeyondTheList == Spec => [](c = "idle" /\ More => cn \in List)
<1>1. LinkInv => (c = "idle" /\ More => cn \in List)
  BY MoreInList DEF LinkInv
<1>2. QED  BY <1>1, LinkInvariant, PTL

-----------------------------------------------------------------------------
(***************************************************************************)
(* Whatever the system's clock and for any delay of 0.6 to 4.6 us, the C64 *)
(* reads every pair while it is on the lines, and write changes hands twice*)
(* without both sides driving it.                                          *)
(***************************************************************************)
THEOREM PairsInStep ==
  ASSUME NEW cycle \in Cycles, NEW delay \in Delays
  PROVE  /\ C64At(cycle, InputAt) < DeviceAt(delay, 1)
         /\ \A j \in 1 .. 4 : /\ DeviceAt(delay, j) < C64At(cycle, ReadAt[j])
                              /\ C64At(cycle, ReadAt[j]) < DeviceAt(delay, j + 1)
         /\ DeviceAt(delay, 5) < C64At(cycle, OutputAt)
<1>1. cycle \in 977 .. 1015 /\ delay \in 600 .. 4600
  BY DEF Cycles, Delays
<1>2. C64At(cycle, InputAt) < DeviceAt(delay, 1)
  BY <1>1 DEF C64At, InputAt, DeviceAt, SetAt, HeadStart
<1>3. ASSUME NEW j \in 1 .. 4
      PROVE  /\ DeviceAt(delay, j) < C64At(cycle, ReadAt[j])
             /\ C64At(cycle, ReadAt[j]) < DeviceAt(delay, j + 1)
  <2>1. CASE j = 1  BY <1>1, <2>1 DEF C64At, ReadAt, DeviceAt, SetAt, HeadStart
  <2>2. CASE j = 2  BY <1>1, <2>2 DEF C64At, ReadAt, DeviceAt, SetAt, HeadStart
  <2>3. CASE j = 3  BY <1>1, <2>3 DEF C64At, ReadAt, DeviceAt, SetAt, HeadStart
  <2>4. CASE j = 4  BY <1>1, <2>4 DEF C64At, ReadAt, DeviceAt, SetAt, HeadStart
  <2>5. QED  BY <2>1, <2>2, <2>3, <2>4
<1>4. DeviceAt(delay, 5) < C64At(cycle, OutputAt)
  BY <1>1 DEF C64At, OutputAt, DeviceAt, SetAt, HeadStart
<1>5. QED  BY <1>2, <1>3, <1>4
=============================================================================
