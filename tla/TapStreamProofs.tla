-------------------------- MODULE TapStreamProofs --------------------------
(***************************************************************************)
(* Proofs about streaming mode and the switch to another mode, for a ring, *)
(* a tape and a register of any size and any two numbers: main() stays     *)
(* ahead of the interrupt and plays every round whole, a motor that runs   *)
(* has the timer running, and tapecart_cmdmode does not mistake streaming  *)
(* mode for an answer.  For numbers that cannot be taken apart and put     *)
(* together wrongly (NumbersApart) only whole ones switch the mode.        *)
(***************************************************************************)
EXTENDS ModeSwitch, ModArithmetic

LEMMA Sizes ==
  /\ Slots \in Nat /\ Slots > 1 /\ SregSize \in Nat \ {0} /\ Pace \in Nat /\ Pace >= 3
  /\ BlockLen \in Nat \ {0} /\ RoundLen \in Nat \ {0}
BY TapStreamAssumption DEF BlockLen, RoundLen

LEMMA MaskInRing ==
  ASSUME NEW n \in Index
  PROVE  Mask(n + 1) \in Index
<1>1. n + 1 \in Nat /\ Slots \in Nat \ {0}
  BY Sizes DEF Index
<1>2. (n + 1) % Slots \in 0 .. Slots - 1
  BY <1>1, DivMod
<1>. QED
  BY <1>2 DEF Mask, Index

LEMMA ShiftInRegister ==
  ASSUME shift_reg \in 0 .. SregSize - 1, NEW w \in BOOLEAN
  PROVE  Shift(w) \in 0 .. SregSize - 1
<1> DEFINE n == 2 * shift_reg + (IF w THEN 1 ELSE 0)
<1>1. n \in Nat /\ SregSize \in Nat \ {0}
  BY Sizes
<1>. HIDE DEF n
<1>2. n % SregSize \in 0 .. SregSize - 1
  BY <1>1, DivMod
<1>. QED
  BY <1>2 DEF Shift, n

TInv == TypeOK /\ MotorRunsTimer

LEMMA InitTInv == Init => TInv
<1>. SUFFICES ASSUME Init PROVE TInv
  OBVIOUS
<1>1. 0 \in Index /\ Unset \in Pulse
  BY Sizes DEF Index, Pulse, Unset
<1>2. MotorRunsTimer
  BY DEF Init, MotorRunsTimer, Streaming
<1>3. tap_buffer \in [Index -> Pulse]
  BY <1>1 DEF Init
<1>4. /\ readidx \in Index /\ writeidx \in Index /\ quiet \in 0 .. Pace
      /\ shift_reg \in 0 .. SregSize - 1 /\ pos \in 1 .. RoundLen /\ heard \in 0 .. RoundLen
  BY <1>1, Sizes DEF Init
<1>. QED
  BY <1>2, <1>3, <1>4 DEF Init, TInv, TypeOK, PC

\* main() steps.
LEMMA MoveType ==
  ASSUME TypeOK, NEW to \in PC, Move(to)
  PROVE  pc' \in PC /\ quiet' \in 0 .. Pace
BY Sizes DEF TypeOK, Move

LEMMA StepMain ==
  ASSUME TInv, MainStep \/ LoaderReturns \/ CommandReturns
  PROVE  TInv'
<1>. USE DEF TInv
<1>1. CASE PutStore
  <2>1. /\ pc = "store" /\ writeidx' = Mask(writeidx + 1)
        /\ tap_buffer' = [tap_buffer EXCEPT ![writeidx'] = pos]
        /\ pos' = IF pos = RoundLen THEN pos ELSE pos + 1
        /\ UNCHANGED <<readidx, timer, mode, shift_reg, motor, write, sense, heard>>
        /\ Move(IF pos = RoundLen THEN "drain" ELSE "put")
    BY <1>1 DEF PutStore, lines, port
  <2>2. (IF pos = RoundLen THEN "drain" ELSE "put") \in PC
    BY DEF PC, Streaming
  <2>3. pc' \in PC /\ quiet' \in 0 .. Pace
    BY <2>1, <2>2, MoveType
  <2>4. pos \in Pulse /\ pos' \in 1 .. RoundLen
    BY <2>1, Sizes DEF TypeOK, Pulse, Unset
  <2>5. writeidx' \in Index
    BY <2>1, MaskInRing DEF TypeOK
  <2>6. MotorRunsTimer'
    BY <2>1 DEF MotorRunsTimer, Streaming, Move
  <2>. QED
    BY <2>1, <2>3, <2>4, <2>5, <2>6 DEF TypeOK
<1>2. CASE Fill
  <2>1. /\ pc = "fill" /\ tap_buffer' = [i \in Index |-> Short] /\ sense' = TRUE
        /\ UNCHANGED <<readidx, writeidx, timer, mode, shift_reg, motor, write, pos, heard>>
        /\ pc' = "rewind" /\ Move("rewind")
    BY <1>2 DEF Fill, lines, port, Move
  <2>2. Short \in Pulse /\ quiet' \in 0 .. Pace
    BY <2>1, Sizes DEF Short, Pulse, Unset, Move, TypeOK
  <2>3. MotorRunsTimer'
    BY <2>1 DEF MotorRunsTimer, Streaming
  <2>. QED
    BY <2>1, <2>2, <2>3 DEF TypeOK, PC
<1>3. CASE \/ PowerUp \/ Top \/ ClearShiftReg \/ PutWait \/ Drain
           \/ Rewind \/ Switch \/ LoaderEnter
           \/ CommandEnter \/ CommandWrite \/ CommandOn \/ CommandPulses \/ CommandOff
           \/ Resume \/ CheckMotor \/ TurnOn \/ LoaderReturns \/ CommandReturns
  <2>. USE DEF PowerUp, Top, ClearShiftReg, PutWait, Drain, Rewind, Switch, LoaderEnter,
               CommandEnter, CommandWrite, CommandOn, CommandPulses, CommandOff, Resume,
               CheckMotor, TurnOn, LoaderReturns, CommandReturns, ring, port, lines
  <2>1. /\ UNCHANGED <<tap_buffer, readidx, writeidx, motor, write>>
        /\ timer' \in BOOLEAN /\ sense' \in BOOLEAN
    BY <1>3 DEF TypeOK
  <2>2. mode' \in {"STREAM", "LOADER", "COMMAND"} /\ shift_reg' \in 0 .. SregSize - 1
    BY <1>3, Sizes DEF TypeOK
  <2>3. pos' \in 1 .. RoundLen /\ heard' \in 0 .. RoundLen
    BY <1>3, Sizes DEF TypeOK
  <2>4. pc' \in PC
    BY <1>3 DEF TypeOK, Move, PC, Streaming
  <2>5. quiet' \in 0 .. Pace
    BY <1>3, Sizes DEF TypeOK, Move
  <2>6. MotorRunsTimer'
    BY <1>3 DEF MotorRunsTimer, Streaming, Move, TypeOK
  <2>. QED
    BY <2>1, <2>2, <2>3, <2>4, <2>5, <2>6 DEF TypeOK
<1>. QED
  BY <1>1, <1>2, <1>3 DEF MainStep

\* The interrupts.
LEMMA StepPulse ==
  ASSUME TInv, PulseInterrupt
  PROVE  TInv'
<1>1. /\ readidx' = Mask(readidx + 1) /\ quiet' = 0
      /\ heard' = IF tap_buffer[readidx] > 0 THEN tap_buffer[readidx] ELSE heard
      /\ UNCHANGED <<tap_buffer, writeidx, timer, mode, shift_reg, motor, write, sense,
         pc, pos>>
  BY DEF PulseInterrupt, port
<1>2. readidx' \in Index
  BY <1>1, MaskInRing DEF TInv, TypeOK
<1>3. heard' \in 0 .. RoundLen
  <2>1. tap_buffer[readidx] \in Unset .. RoundLen
    BY DEF TInv, TypeOK, Pulse
  <2>. QED
    BY <1>1, <2>1, Sizes DEF TInv, TypeOK, Unset
<1>4. MotorRunsTimer'
  BY <1>1 DEF TInv, MotorRunsTimer
<1>. QED
  BY <1>1, <1>2, <1>3, <1>4, Sizes DEF TInv, TypeOK

LEMMA StepLines ==
  ASSUME TInv, NEW m \in BOOLEAN, NEW w \in BOOLEAN, SetLines(m, w)
  PROVE  TInv'
<1>1. /\ motor' = m /\ write' = w
      /\ IF m # motor THEN MotorEdge(m, w) ELSE UNCHANGED <<timer, shift_reg, mode>>
      /\ UNCHANGED <<tap_buffer, readidx, writeidx, sense, pc, pos, quiet, heard>>
  BY DEF SetLines, ring
<1>2. Shift(w) \in 0 .. SregSize - 1
  BY ShiftInRegister DEF TInv, TypeOK
<1>3. /\ timer' \in BOOLEAN /\ shift_reg' \in 0 .. SregSize - 1
      /\ mode' \in {"STREAM", "LOADER", "COMMAND"}
  BY <1>1, <1>2 DEF MotorEdge, TInv, TypeOK
<1>4. MotorRunsTimer'
  BY <1>1 DEF TInv, MotorRunsTimer, MotorEdge, TypeOK
<1>. QED
  BY <1>1, <1>3, <1>4 DEF TInv, TypeOK

LEMMA AlwaysTInv == Spec => []TInv
<1>1. TInv /\ [Next]_vars => TInv'
  <2>. SUFFICES ASSUME TInv, [Next]_vars PROVE TInv'
    OBVIOUS
  <2>1. CASE UNCHANGED vars
    BY <2>1 DEF vars, ring, port, TInv, TypeOK, MotorRunsTimer
  <2>. QED
    BY <2>1, StepMain, StepPulse, StepLines DEF Next
<1>. QED
  BY <1>1, InitTInv, PTL DEF Spec

(***************************************************************************)
(* The variables keep their types: readidx and writeidx stay in tap_buffer.*)
(***************************************************************************)
THEOREM StreamTypeCorrect == Spec => []TypeOK
BY AlwaysTInv, PTL DEF TInv

(***************************************************************************)
(* While the tape is streamed with the motor on, the timer runs, whatever  *)
(* order the motor interrupt, main() and c64command_handler switch it in.  *)
(***************************************************************************)
THEOREM MotorAlwaysHeard == Spec => []MotorRunsTimer
BY AlwaysTInv, PTL DEF TInv

-----------------------------------------------------------------------------
\* The ring.  A slot is named by how many slots it lies behind the one written
\* last, w, and the distance from r to w is that of the slot read next.

Back(w, j) == IF j <= w THEN w - j ELSE w + Slots - j
Distance(r, w) == IF r <= w THEN w - r ELSE w + Slots - r

LEMMA NextSlot ==
  ASSUME NEW i \in Index
  PROVE  Mask(i + 1) = IF i + 1 = Slots THEN 0 ELSE i + 1
<1>1. i \in Nat /\ i + 1 <= Slots /\ Slots \in Nat /\ Slots > 1
  BY Sizes DEF Index
<1>2. CASE i + 1 = Slots
  <2>1. Slots % Slots = 0
    BY <1>1, SMT
  <2>. QED
    BY <1>2, <2>1 DEF Mask
<1>3. CASE i + 1 # Slots
  <2>1. i + 1 \in 0 .. Slots - 1
    BY <1>1, <1>3
  <2>2. (i + 1) % Slots = i + 1
    BY <1>1, <2>1, SMT
  <2>. QED
    BY <1>3, <2>2 DEF Mask
<1>. QED
  BY <1>2, <1>3

LEMMA DistanceBack ==
  ASSUME NEW r \in Index, NEW w \in Index
  PROVE  Distance(r, w) \in 0 .. Slots - 1 /\ Back(w, Distance(r, w)) = r
BY Sizes DEF Index, Distance, Back

LEMMA BackInRing ==
  ASSUME NEW w \in Index, NEW j \in 0 .. Slots - 1
  PROVE  Back(w, j) \in Index
BY Sizes DEF Index, Back

LEMMA DistanceRead ==
  ASSUME NEW r \in Index, NEW w \in Index
  PROVE  Distance(Mask(r + 1), w) =
           IF Distance(r, w) = 0 THEN Slots - 1 ELSE Distance(r, w) - 1
<1>1. Mask(r + 1) = IF r + 1 = Slots THEN 0 ELSE r + 1
  BY NextSlot
<1>. QED
  BY <1>1, Sizes DEF Index, Distance

LEMMA DistanceWritten ==
  ASSUME NEW r \in Index, NEW w \in Index
  PROVE  Distance(r, Mask(w + 1)) =
           IF Distance(r, w) = Slots - 1 THEN 0 ELSE Distance(r, w) + 1
<1>1. Mask(w + 1) = IF w + 1 = Slots THEN 0 ELSE w + 1
  BY NextSlot
<1>. QED
  BY <1>1, Sizes DEF Index, Distance

LEMMA BackWritten ==
  ASSUME NEW w \in Index, NEW j \in 1 .. Slots - 1
  PROVE  /\ Back(Mask(w + 1), j) = Back(w, j - 1)
         /\ Back(w, j - 1) # Mask(w + 1)
<1>1. Mask(w + 1) = IF w + 1 = Slots THEN 0 ELSE w + 1
  BY NextSlot
<1>. QED
  BY <1>1, Sizes DEF Index, Back

LEMMA BackNone ==
  ASSUME NEW w \in Index
  PROVE  Back(w, 0) = w
BY Sizes DEF Index, Back

LEMMA RingFullIs ==
  ASSUME NEW r \in Index, NEW w \in Index
  PROVE  Mask(w + 1) = r <=> Distance(r, w) = Slots - 1
<1>1. Mask(w + 1) = IF w + 1 = Slots THEN 0 ELSE w + 1
  BY NextSlot
<1>. QED
  BY <1>1, Sizes DEF Index, Distance

-----------------------------------------------------------------------------
\* What is in the ring when n pulses of the round are put, the last of them in
\* slot w, and h of them are heard: the others, and old pulses before the first.
Stored(buf, w, n, h) ==
  /\ h <= n /\ n - h <= Slots
  /\ \A j \in 0 .. Slots - 1 : j < n - h => buf[Back(w, j)] = n - j
  /\ h = 0 => \A j \in 0 .. Slots - 1 : j >= n => buf[Back(w, j)] \in {Short, Unset}

\* At c after q steps without an interrupt the next interrupt may be due, although
\* a pulse less is waiting than Pace steps put.
Due(c, q) ==
  \/ c = "put"   /\ q >= 2
  \/ c = "store" /\ q >= 3
  \/ c = "drain" /\ q >= 1
  \/ c = "fill"  /\ q >= 2

\* Where the read index is, d slots behind: at the first pulse that is not heard
\* or, as long as none is, anywhere before it.
InStep(d, n, h, c, q) ==
  /\ d >= n - h - 1
  /\ h > 0 => d = n - h - 1
  /\ c = "store" /\ d = Slots - 1 => n = 0 /\ q = 0
  /\ d = n - h - 1 /\ Due(c, q) => n - h >= 2

RingInv ==
  /\ pc \notin Streaming => \A i \in Index : tap_buffer[i] \in {Short, Unset}
  /\ pc = "clear" => pos = 1 /\ heard = 0
  /\ pc \in {"drain", "fill"} => pos = RoundLen
  /\ pc \in Streaming /\ mode = "STREAM" =>
       /\ Stored(tap_buffer, writeidx, Put, heard)
       /\ InStep(Distance(readidx, writeidx), Put, heard, pc, quiet)

SInv == TInv /\ RingInv

LEMMA StoredNothing ==
  ASSUME NEW buf, NEW w \in Index, \A i \in Index : buf[i] \in {Short, Unset}
  PROVE  Stored(buf, w, 0, 0)
<1>1. \A j \in 0 .. Slots - 1 : buf[Back(w, j)] \in {Short, Unset}
  BY BackInRing
<1>. QED
  BY <1>1, Sizes DEF Stored

LEMMA StoredPut ==
  ASSUME NEW buf \in [Index -> Pulse], NEW w \in Index, NEW n \in Nat, NEW h \in Nat,
         Stored(buf, w, n, h), n + 1 - h <= Slots, n + 1 \in Pulse
  PROVE  Stored([buf EXCEPT ![Mask(w + 1)] = n + 1], Mask(w + 1), n + 1, h)
<1> DEFINE v == Mask(w + 1)
<1> DEFINE new == [buf EXCEPT ![v] = n + 1]
<1>1. v \in Index
  BY MaskInRing
<1>2. /\ Back(v, 0) = v /\ new[v] = n + 1
  BY <1>1, BackNone
<1>3. \A j \in 1 .. Slots - 1 :
        /\ j - 1 \in 0 .. Slots - 1
        /\ Back(v, j) = Back(w, j - 1) /\ new[Back(v, j)] = buf[Back(w, j - 1)]
  <2>. SUFFICES ASSUME NEW j \in 1 .. Slots - 1
                PROVE  /\ j - 1 \in 0 .. Slots - 1
                       /\ Back(v, j) = Back(w, j - 1)
                          /\ new[Back(v, j)] = buf[Back(w, j - 1)]
    OBVIOUS
  <2>1. Back(v, j) = Back(w, j - 1) /\ Back(w, j - 1) # v
    BY BackWritten
  <2>2. j - 1 \in 0 .. Slots - 1
    BY Sizes
  <2>3. Back(w, j - 1) \in Index
    BY <2>2, BackInRing
  <2>. QED
    BY <2>1, <2>2, <2>3
<1>. HIDE DEF v, new
<1>4. ASSUME NEW j \in 0 .. Slots - 1, j < n + 1 - h
      PROVE  new[Back(v, j)] = n + 1 - j
  <2>1. CASE j = 0
    BY <1>2, <2>1
  <2>2. CASE j # 0
    <3>1. j \in 1 .. Slots - 1 /\ j - 1 < n - h /\ n - (j - 1) = n + 1 - j
      BY <1>4, <2>2, Sizes
    <3>. QED
      BY <1>3, <3>1 DEF Stored
  <2>. QED
    BY <2>1, <2>2
<1>5. ASSUME h = 0, NEW j \in 0 .. Slots - 1, j >= n + 1
      PROVE  new[Back(v, j)] \in {Short, Unset}
  <2>1. j \in 1 .. Slots - 1 /\ j - 1 >= n
    BY <1>5, Sizes
  <2>. QED
    BY <1>3, <1>5, <2>1 DEF Stored
<1>6. h <= n + 1
  BY DEF Stored
<1>. QED
  BY <1>4, <1>5, <1>6 DEF Stored, new, v

\* What the interrupt finds in the slot it reads.
LEMMA NextPulse ==
  ASSUME NEW buf \in [Index -> Pulse], NEW r \in Index, NEW w \in Index,
         NEW n \in Nat, NEW h \in Nat, NEW c, NEW q \in Nat,
         Stored(buf, w, n, h), InStep(Distance(r, w), n, h, c, q)
  PROVE  \/ Distance(r, w) = n - h - 1 /\ buf[r] = h + 1
         \/ Distance(r, w) >= n - h /\ h = 0 /\ buf[r] \in {Short, Unset}
<1>1. PICK d \in 0 .. Slots - 1 : d = Distance(r, w)
  BY DistanceBack
<1>2. Back(w, d) = r
  BY <1>1, DistanceBack
<1>3. CASE d = n - h - 1
  <2>1. d < n - h /\ n - d = h + 1
    BY <1>3
  <2>. QED
    BY <1>1, <1>2, <1>3, <2>1 DEF Stored
<1>4. CASE d # n - h - 1
  <2>1. d >= n - h - 1 /\ h = 0
    BY <1>1, <1>4 DEF InStep
  <2>2. d >= n - h /\ d >= n
    BY <1>4, <2>1
  <2>. QED
    BY <1>1, <1>2, <2>1, <2>2 DEF Stored
<1>. QED
  BY <1>3, <1>4

LEMMA StoredHeard ==
  ASSUME NEW buf \in [Index -> Pulse], NEW w \in Index, NEW n \in Nat, NEW h \in Nat,
         Stored(buf, w, n, h), h + 1 <= n
  PROVE  Stored(buf, w, n, h + 1)
<1>1. \A j \in 0 .. Slots - 1 : j < n - (h + 1) => j < n - h
  OBVIOUS
<1>. QED
  BY <1>1, Sizes DEF Stored

-----------------------------------------------------------------------------
LEMMA RingSizes ==
  /\ RoundLen \in Nat /\ RoundLen >= 2
  /\ Short = 0 /\ Unset = -1 /\ Pulse = Unset .. RoundLen
BY TapStreamAssumption DEF BlockLen, RoundLen, Short, Unset, Pulse

LEMMA PutType ==
  ASSUME TypeOK
  PROVE  /\ Put \in 0 .. RoundLen /\ heard \in Nat /\ quiet \in Nat
         /\ tap_buffer \in [Index -> Pulse] /\ readidx \in Index /\ writeidx \in Index
BY RingSizes DEF TypeOK, Put

LEMMA InitRing == Init => RingInv
BY DEF Init, RingInv, Streaming

\* The main loop beside a round.
Outside ==
  \/ PowerUp \/ Top \/ Rewind \/ Switch \/ LoaderEnter
  \/ CommandEnter \/ CommandWrite \/ CommandOn \/ CommandPulses \/ CommandOff
  \/ Resume \/ CheckMotor \/ TurnOn \/ LoaderReturns \/ CommandReturns

LEMMA RingOutside ==
  ASSUME SInv, Outside
  PROVE  RingInv'
<1>. USE DEF PowerUp, Top, Rewind, Switch, LoaderEnter, CommandEnter, CommandWrite,
  CommandOn,
             CommandPulses, CommandOff, Resume, CheckMotor, TurnOn, LoaderReturns,
             CommandReturns, Move
<1>1. pc \notin Streaming /\ pc' \notin Streaming
  BY DEF Outside, Streaming, SInv, TInv, TypeOK
<1>2. UNCHANGED tap_buffer
  BY DEF Outside, ring
<1>3. pc' = "clear" => pos' = 1 /\ heard' = 0
  BY DEF Outside, SInv, TInv, TypeOK
<1>. QED
  BY <1>1, <1>2, <1>3 DEF SInv, RingInv, Streaming

LEMMA RingClear ==
  ASSUME SInv, ClearShiftReg
  PROVE  RingInv'
<1>1. /\ pc = "clear" /\ pc' = "put" /\ pos = 1 /\ heard = 0
      /\ UNCHANGED <<tap_buffer, readidx, writeidx, pos, heard>>
      /\ \A i \in Index : tap_buffer[i] \in {Short, Unset}
  BY DEF ClearShiftReg, Move, ring, SInv, RingInv, Streaming
<1>2. tap_buffer \in [Index -> Pulse] /\ readidx \in Index /\ writeidx \in Index
  BY DEF SInv, TInv, TypeOK
<1>3. Put' = 0
  BY <1>1 DEF Put
<1>4. Stored(tap_buffer, writeidx, 0, 0)
  BY <1>1, <1>2, StoredNothing
<1>5. quiet' \in Nat /\ (quiet' = 0 \/ quiet' >= 1)
  BY Sizes DEF ClearShiftReg, Move, SInv, TInv, TypeOK
<1>6. PICK d \in 0 .. Slots - 1 : d = Distance(readidx, writeidx)
  BY <1>2, DistanceBack
<1>7. InStep(d, 0, 0, "put", quiet')
  BY <1>6, Sizes DEF InStep
<1>. QED
  BY <1>1, <1>3, <1>4, <1>6, <1>7 DEF RingInv, Streaming

\* Steps that leave the ring and the round alone.
LEMMA RingWaits ==
  ASSUME SInv, PutWait \/ Drain
  PROVE  RingInv'
<1>1. /\ UNCHANGED <<tap_buffer, readidx, writeidx, mode, pos, heard>>
      /\ \/ pc = "put" /\ pc' = "store" /\ (mode = "STREAM" => ~RingFull)
         \/ pc = "drain" /\ pc' = "fill"
      /\ quiet' = IF quiet < Pace THEN quiet + 1 ELSE Pace
  BY DEF PutWait, Drain, Move, ring
<1>2. Put' = Put
  BY <1>1 DEF Put
<1>3. ASSUME mode = "STREAM"
      PROVE  /\ Stored(tap_buffer, writeidx, Put, heard)
             /\ InStep(Distance(readidx, writeidx), Put, heard, pc', quiet')
  <2>1. /\ Stored(tap_buffer, writeidx, Put, heard)
        /\ InStep(Distance(readidx, writeidx), Put, heard, pc, quiet)
    BY <1>1, <1>3 DEF SInv, RingInv, Streaming
  <2>2. PICK d \in 0 .. Slots - 1 : d = Distance(readidx, writeidx)
    BY DistanceBack, PutType DEF SInv, TInv
  <2>3. pc' = "store" => d # Slots - 1
    BY <1>1, <1>3, <2>2, RingFullIs, PutType DEF RingFull, SInv, TInv
  <2>4. Due(pc', quiet') => Due(pc, quiet)
    <3>1. quiet \in Nat /\ Pace \in Nat /\ Pace >= 3
      BY Sizes, PutType DEF SInv, TInv
    <3>. QED
      BY <1>1, <3>1 DEF Due
  <2>. QED
    BY <2>1, <2>2, <2>3, <2>4 DEF InStep
<1>. QED
  BY <1>1, <1>2, <1>3 DEF RingInv, Streaming, SInv

LEMMA RingStore ==
  ASSUME SInv, PutStore
  PROVE  RingInv'
<1>1. /\ pc = "store" /\ pc' = IF pos = RoundLen THEN "drain" ELSE "put"
      /\ writeidx' = Mask(writeidx + 1)
      /\ tap_buffer' = [tap_buffer EXCEPT ![writeidx'] = pos]
      /\ pos' = IF pos = RoundLen THEN pos ELSE pos + 1
      /\ quiet' = IF quiet < Pace THEN quiet + 1 ELSE Pace
      /\ UNCHANGED <<readidx, mode, heard>>
  BY DEF PutStore, Move
<1>2. pos \in 1 .. RoundLen /\ quiet \in Nat /\ heard \in Nat /\ RoundLen >= 2
        /\ RoundLen \in Nat
  BY RingSizes, PutType DEF SInv, TInv, TypeOK
<1>3. PICK n \in Nat : n = Put /\ n + 1 = pos /\ n + 1 \in Pulse
  BY <1>1, <1>2, RingSizes DEF Put
<1>4. Put' = n + 1
  <2>1. CASE pos = RoundLen
    BY <1>1, <1>3, <2>1 DEF Put
  <2>2. CASE pos # RoundLen
    <3>1. pc' = "put" /\ pos' = n + 2
      BY <1>1, <1>2, <1>3, <2>2
    <3>. QED
      BY <3>1 DEF Put
  <2>. QED
    BY <2>1, <2>2
<1>5. ASSUME mode = "STREAM"
      PROVE  /\ Stored([tap_buffer EXCEPT ![Mask(writeidx + 1)] = n + 1],
                Mask(writeidx + 1),
                       n + 1, heard)
             /\ InStep(Distance(readidx, Mask(writeidx + 1)), n + 1, heard, pc', quiet')
  <2>1. /\ Stored(tap_buffer, writeidx, n, heard)
        /\ InStep(Distance(readidx, writeidx), n, heard, "store", quiet)
    BY <1>1, <1>3, <1>5 DEF SInv, RingInv, Streaming
  <2>2. PICK d \in 0 .. Slots - 1 : d = Distance(readidx, writeidx)
    BY DistanceBack, PutType DEF SInv, TInv
  <2>3. PICK e \in 0 .. Slots - 1 : e = Distance(readidx, Mask(writeidx + 1))
    BY DistanceBack, MaskInRing, PutType DEF SInv, TInv
  <2>4. e = IF d = Slots - 1 THEN 0 ELSE d + 1
    BY <2>2, <2>3, DistanceWritten, PutType DEF SInv, TInv
  <2>5. /\ d >= n - heard - 1 /\ (heard > 0 => d = n - heard - 1)
        /\ d = Slots - 1 => n = 0 /\ quiet = 0
        /\ heard <= n
    BY <2>1, <2>2 DEF InStep, Stored
  <2>6. n + 1 - heard <= Slots
    BY <1>2, <2>5, Sizes
  <2>7. Stored([tap_buffer EXCEPT ![Mask(writeidx + 1)] = n + 1], Mask(writeidx + 1),
               n + 1, heard)
    BY <1>2, <1>3, <2>1, <2>6, StoredPut, PutType DEF SInv, TInv
  <2>8. InStep(e, n + 1, heard, pc', quiet')
    <3>1. CASE d = Slots - 1
      <4>1. n = 0 /\ heard = 0 /\ e = 0 /\ quiet = 0
        BY <1>2, <2>4, <2>5, <3>1
      <4>2. pc' = "put"
        BY <1>1, <1>2, <1>3, <4>1
      <4>3. ~Due(pc', quiet')
        <5>1. quiet' = 1
          BY <1>1, <4>1, Sizes
        <5>. QED
          BY <4>2, <5>1 DEF Due
      <4>. QED
        BY <4>1, <4>2, <4>3 DEF InStep
    <3>2. CASE d # Slots - 1
      <4>1. /\ e = d + 1 /\ e >= n + 1 - heard - 1 /\ (heard > 0 => e = n + 1 - heard - 1)
            /\ e = n + 1 - heard - 1 => n + 1 - heard >= 2
        BY <1>2, <2>4, <2>5, <3>2
      <4>2. pc' # "store"
        BY <1>1
      <4>. QED
        BY <1>2, <4>1, <4>2 DEF InStep
    <3>. QED
      BY <3>1, <3>2
  <2>. QED
    BY <2>3, <2>7, <2>8
<1>6. pc' = "drain" => pos' = RoundLen
  BY <1>1
<1>. QED
  BY <1>1, <1>3, <1>4, <1>5, <1>6 DEF RingInv, Streaming

LEMMA RingFill ==
  ASSUME SInv, Fill
  PROVE  RingInv'
BY DEF Fill, Move, RingInv, Streaming

\* The interrupt that finds the ring in step keeps it so.
LEMMA RingReads ==
  ASSUME SInv, PulseInterrupt, mode = "STREAM", pc \in Streaming
  PROVE  /\ Stored(tap_buffer, writeidx, Put, heard')
         /\ InStep(Distance(Mask(readidx + 1), writeidx), Put, heard', pc, 0)
         /\ \/ tap_buffer[readidx] = heard + 1
            \/ tap_buffer[readidx] \in {Short, Unset} /\ heard = 0
<1>1. /\ heard' = IF tap_buffer[readidx] > 0 THEN tap_buffer[readidx] ELSE heard
      /\ quiet = Pace \/ Waiting
  BY DEF PulseInterrupt
<1>2. /\ Stored(tap_buffer, writeidx, Put, heard)
      /\ InStep(Distance(readidx, writeidx), Put, heard, pc, quiet)
  BY DEF SInv, RingInv
<1>3. PICK n \in Nat : n = Put
  BY PutType DEF SInv, TInv
<1>4. PICK d \in 0 .. Slots - 1 : d = Distance(readidx, writeidx)
  BY DistanceBack, PutType DEF SInv, TInv
<1>5. PICK e \in 0 .. Slots - 1 : e = Distance(Mask(readidx + 1), writeidx)
  BY DistanceBack, MaskInRing, PutType DEF SInv, TInv
<1>6. e = IF d = 0 THEN Slots - 1 ELSE d - 1
  BY <1>4, <1>5, DistanceRead, PutType DEF SInv, TInv
<1>7. /\ heard \in Nat /\ heard <= n /\ d >= n - heard - 1
         /\ (heard > 0 => d = n - heard - 1)
      /\ d = n - heard - 1 /\ Due(pc, quiet) => n - heard >= 2
  BY <1>2, <1>3, <1>4, PutType DEF InStep, Stored, SInv, TInv
<1>8. \/ d = n - heard - 1 /\ tap_buffer[readidx] = heard + 1
      \/ d >= n - heard /\ heard = 0 /\ tap_buffer[readidx] \in {Short, Unset}
  BY <1>2, <1>3, <1>4, NextPulse, PutType DEF SInv, TInv
<1>9. ~Due(pc, 0)
  BY DEF Due
<1>10. CASE d = n - heard - 1 /\ tap_buffer[readidx] = heard + 1
  <2>1. heard' = heard + 1
    BY <1>1, <1>7, <1>10
  <2>2. d # 0
    <3>1. CASE quiet = Pace
      <4>1. Due(pc, quiet)
        BY <3>1, Sizes DEF Due, Streaming
      <4>. QED
        BY <1>7, <1>10, <4>1
    <3>2. CASE Waiting
      <4>1. RingFull \/ writeidx # readidx
        BY <3>2 DEF Waiting, Streaming
      <4>2. RingFull => d = Slots - 1
        BY <1>4, RingFullIs, PutType DEF RingFull, SInv, TInv
      <4>3. writeidx # readidx => d # 0
        <5>1. Back(writeidx, d) = readidx /\ Back(writeidx, 0) = writeidx
          BY <1>4, DistanceBack, BackNone, PutType DEF SInv, TInv
        <5>. QED
          BY <5>1
      <4>. QED
        BY <4>1, <4>2, <4>3, Sizes
    <3>. QED
      BY <1>1, <3>1, <3>2
  <2>3. heard + 1 <= n /\ e = d - 1 /\ e # Slots - 1 /\ e = n - (heard + 1) - 1
    BY <1>6, <1>7, <1>10, <2>2, Sizes
  <2>4. Stored(tap_buffer, writeidx, n, heard + 1)
    BY <1>2, <1>3, <1>7, <2>3, StoredHeard, PutType DEF SInv, TInv
  <2>5. InStep(e, n, heard + 1, pc, 0)
    BY <1>7, <1>9, <2>3 DEF InStep
  <2>. QED
    BY <1>3, <1>5, <1>10, <2>1, <2>4, <2>5
<1>11. CASE d >= n - heard /\ heard = 0 /\ tap_buffer[readidx] \in {Short, Unset}
  <2>1. heard' = heard
    BY <1>1, <1>11, RingSizes
  <2>2. e >= n - 0 - 1 /\ (e = Slots - 1 => n = 0)
    BY <1>6, <1>11, Sizes
  <2>3. InStep(e, n, 0, pc, 0)
    BY <1>9, <2>2 DEF InStep
  <2>. QED
    BY <1>2, <1>3, <1>5, <1>11, <2>1, <2>3
<1>. QED
  BY <1>8, <1>10, <1>11

LEMMA RingPulse ==
  ASSUME SInv, PulseInterrupt
  PROVE  RingInv'
<1>1. /\ readidx' = Mask(readidx + 1) /\ quiet' = 0
      /\ heard' = IF tap_buffer[readidx] > 0 THEN tap_buffer[readidx] ELSE heard
      /\ UNCHANGED <<tap_buffer, writeidx, mode, pc, pos>>
  BY DEF PulseInterrupt
<1>2. Put' = Put
  BY <1>1 DEF Put
<1>3. pc \notin Streaming => heard' = heard
  <2>. SUFFICES ASSUME pc \notin Streaming PROVE heard' = heard
    OBVIOUS
  <2>1. tap_buffer[readidx] \in {Short, Unset}
    BY PutType DEF SInv, TInv, RingInv
  <2>. QED
    BY <1>1, <2>1, RingSizes
<1>4. pc \in Streaming /\ mode = "STREAM" =>
        /\ Stored(tap_buffer, writeidx, Put, heard')
        /\ InStep(Distance(Mask(readidx + 1), writeidx), Put, heard', pc, 0)
  BY RingReads
<1>. QED
  BY <1>1, <1>2, <1>3, <1>4 DEF SInv, RingInv, Streaming

LEMMA RingLines ==
  ASSUME SInv, NEW m \in BOOLEAN, NEW w \in BOOLEAN, SetLines(m, w)
  PROVE  RingInv'
<1>1. /\ UNCHANGED <<tap_buffer, readidx, writeidx, pc, pos, quiet, heard>>
      /\ mode' = "STREAM" => mode = "STREAM"
  BY DEF SetLines, MotorEdge, ring
<1>2. Put' = Put
  BY <1>1 DEF Put
<1>. QED
  BY <1>1, <1>2 DEF SInv, RingInv, Streaming

LEMMA AlwaysSInv == Spec => []SInv
<1>1. SInv /\ [Next]_vars => SInv'
  <2>. SUFFICES ASSUME SInv, [Next]_vars PROVE SInv'
    OBVIOUS
  <2>1. CASE UNCHANGED vars
    <3>1. UNCHANGED <<tap_buffer, readidx, writeidx, mode, pc, pos, quiet, heard>>
      BY <2>1 DEF vars, ring
    <3>2. Put' = Put
      BY <3>1 DEF Put
    <3>3. RingInv'
      BY <3>1, <3>2 DEF SInv, RingInv, Streaming
    <3>. QED
      BY <2>1, <3>3 DEF vars, ring, port, SInv, TInv, TypeOK, MotorRunsTimer
  <2>2. CASE MainStep \/ LoaderReturns \/ CommandReturns
    <3>1. TInv'
      BY <2>2, StepMain DEF SInv
    <3>2. RingInv'
      BY <2>2, RingOutside, RingClear, RingWaits, RingStore, RingFill DEF MainStep,
         Outside
    <3>. QED
      BY <3>1, <3>2 DEF SInv
  <2>3. CASE PulseInterrupt
    BY <2>3, StepPulse, RingPulse DEF SInv
  <2>4. ASSUME NEW m \in BOOLEAN, NEW w \in BOOLEAN, SetLines(m, w)
        PROVE  SInv'
    BY <2>4, StepLines, RingLines DEF SInv
  <2>. QED
    BY <2>1, <2>2, <2>3, <2>4 DEF Next
<1>2. Init => SInv
  BY InitTInv, InitRing DEF SInv
<1>. QED
  BY <1>1, <1>2, PTL DEF Spec

(***************************************************************************)
(* The timer interrupt plays the pulses of a round in their order, each    *)
(* once and none left out, although it never asks whether a pulse is       *)
(* there: main() keeps ahead of it as long as two pulses are put between   *)
(* two interrupts.                                                         *)
(***************************************************************************)
THEOREM PulsesPlayInOrder == Spec => PulsesInOrder
<1>1. SInv /\ [Next]_vars =>
        [(readidx' # readidx /\ mode = "STREAM" /\ pc \in Streaming) =>
           \/ tap_buffer[readidx] = heard + 1
           \/ tap_buffer[readidx] \in {Short, Unset} /\ heard = 0]_vars
  <2>. SUFFICES ASSUME SInv, Next, readidx' # readidx, mode = "STREAM", pc \in Streaming
                PROVE  \/ tap_buffer[readidx] = heard + 1
                       \/ tap_buffer[readidx] \in {Short, Unset} /\ heard = 0
    OBVIOUS
  <2>1. CASE PulseInterrupt
    BY <2>1, RingReads
  <2>2. CASE MainStep \/ LoaderReturns \/ CommandReturns
    BY <2>2 DEF MainStep, PowerUp, Top, ClearShiftReg, PutWait, PutStore, Drain, Fill,
       Rewind, Switch, LoaderEnter, CommandEnter, CommandWrite, CommandOn,
       CommandPulses, CommandOff, Resume, CheckMotor, TurnOn, LoaderReturns,
       CommandReturns, ring
  <2>3. CASE \E m, w \in BOOLEAN : SetLines(m, w)
    BY <2>3 DEF SetLines, ring
  <2>. QED
    BY <2>1, <2>2, <2>3 DEF Next
<1>. QED
  BY <1>1, AlwaysSInv, PTL DEF Spec, PulsesInOrder

(***************************************************************************)
(* A round that the motor does not cut short is played to its last pulse   *)
(* but one before the buffer is overwritten.                               *)
(***************************************************************************)
THEOREM RoundsPlayWhole == Spec => StreamPlayedWhole
<1>1. SInv /\ [Next]_vars =>
        [(pc = "drain" /\ pc' = "fill" /\ mode = "STREAM" /\ motor) =>
           heard >= RoundLen - 1]_vars
  <2>. SUFFICES ASSUME SInv, Next, pc = "drain", pc' = "fill", mode = "STREAM", motor
                PROVE  heard >= RoundLen - 1
    OBVIOUS
  <2>1. Drain
    BY DEF Next, MainStep, PowerUp, Top, ClearShiftReg, PutWait, PutStore, Drain, Fill,
       Rewind, Switch, LoaderEnter, CommandEnter, CommandWrite, CommandOn,
       CommandPulses, CommandOff, Resume, CheckMotor, TurnOn, LoaderReturns,
       CommandReturns, SetLines, PulseInterrupt, vars
  <2>2. writeidx = readidx
    BY <2>1 DEF Drain
  <2>3. Put = RoundLen
    BY DEF Put
  <2>4. /\ Stored(tap_buffer, writeidx, RoundLen, heard)
        /\ InStep(Distance(readidx, writeidx), RoundLen, heard, pc, quiet)
    BY <2>3 DEF SInv, RingInv, Streaming
  <2>5. Distance(readidx, writeidx) = 0
    BY <2>2, PutType, Sizes DEF Distance, Index, SInv, TInv
  <2>6. 0 >= RoundLen - heard - 1
    BY <2>4, <2>5 DEF InStep
  <2>. QED
    BY <2>6, RingSizes, PutType DEF SInv, TInv
<1>. QED
  BY <1>1, AlwaysSInv, PTL DEF Spec, StreamPlayedWhole
-----------------------------------------------------------------------------
\* The weights of a number's bits.
LEMMA HalfWeight ==
  ASSUME NEW w \in Nat, NEW p \in Nat \ {0}, p * w = SregSize, w > 1
  PROVE  /\ w \div 2 \in Nat \ {0} /\ w = 2 * (w \div 2)
         /\ (2 * p) * (w \div 2) = SregSize
<1>1. SregSize \in Nat \ {0}
  BY TapStreamAssumption
<1>2. SregSize = w * p /\ w <= SregSize
  BY <1>1
<1>3. SregSize % w = 0
  BY <1>1, <1>2, Multiple
<1>4. w % 2 = 0
  BY <1>1, <1>2, <1>3, ModeSwitchAssumption
<1>5. PICK v \in Nat : w = 2 * v
  BY <1>4, Multiple
<1>6. w \div 2 = v
  BY <1>5
<1>7. (2 * p) * v = p * (2 * v)
  BY <1>5
<1>. QED
  BY <1>5, <1>6, <1>7

LEMMA QuotientUnique ==
  ASSUME NEW q \in Nat, NEW r \in Nat, NEW d \in Nat \ {0}, r < d
  PROVE  (d * q + r) \div d = q
OBVIOUS

\* One more bit of a number's beginning.
LEMMA PrefixStep ==
  ASSUME NEW n \in Nat, NEW v \in Nat \ {0}
  PROVE  /\ n \div v \in Nat /\ n \div (2 * v) \in Nat /\ (n \div v) % 2 \in {0, 1}
         /\ n \div v = 2 * (n \div (2 * v)) + ((n \div v) % 2)
<1>1. PICK q \in Nat, r \in Nat : q = n \div v /\ n = v * q + r /\ r < v
  BY DivMod
<1>2. PICK k \in Nat, b \in {0, 1} : q = 2 * k + b /\ b = q % 2
  BY DivMod
<1>3. v * b + r \in Nat /\ v * b + r < 2 * v
  BY <1>1, <1>2
<1>4. n = (2 * v) * k + (v * b + r)
  <2>1. v * q = v * (2 * k) + v * b
    BY <1>2
  <2>2. v * (2 * k) = (2 * v) * k
    OBVIOUS
  <2>. QED
    BY <1>1, <2>1, <2>2
<1>5. PICK m \in Nat, d \in Nat \ {0} : m = v * b + r /\ d = 2 * v
  BY <1>3
<1>6. n \div d = k
  BY <1>3, <1>4, <1>5, QuotientUnique
<1>. QED
  BY <1>1, <1>2, <1>5, <1>6

\* A bit shifted into the register, seen in the bits shifted in before.
LEMMA RegisterStep ==
  ASSUME NEW r \in Nat, NEW b \in {0, 1}, NEW p \in Nat \ {0}, NEW v \in Nat \ {0},
         (2 * p) * v = SregSize
  PROVE  ((2 * r + b) % SregSize) % (2 * p) = 2 * (r % p) + b
<1> DEFINE k == r \div p
           h == r % p
           e == p * k
           d == 2 * p
           x == 2 * r + b
           y == 2 * h + b
           j == x \div SregSize
           m == x % SregSize
<1>1. SregSize \in Nat \ {0} /\ x \in Nat /\ d \in Nat \ {0}
  BY TapStreamAssumption
<1>2. h \in 0 .. p - 1 /\ k \in Nat /\ r = e + h
  BY DivMod
<1>3. m \in Nat /\ j \in Nat /\ x = SregSize * j + m
  <2>. HIDE DEF x
  <2>. QED
    BY <1>1, DivMod
<1>4. e \in Nat /\ d * k = 2 * e
  <2>. HIDE DEF k
  <2>. QED
    BY <1>2
<1>5. SregSize * j = d * (v * j) /\ v * j \in Nat
  <2>. HIDE DEF j
  <2>. QED
    BY <1>3
<1>. HIDE DEF k, h, j, m
<1>6. y \in Nat /\ y < d /\ x = d * k + y
  <2>. HIDE DEF e
  <2>. QED
    BY <1>2, <1>4
<1> DEFINE i == v * j
<1>7. i \in Nat /\ m + d * i = d * k + y
  BY <1>3, <1>5, <1>6
<1>. HIDE DEF e, d, x, y, i
<1>8. i <= k
  <2>. SUFFICES ASSUME k + 1 <= i PROVE FALSE
    BY <1>2, <1>7
  <2>1. d * k + d <= d * i
    <3>1. d * k < d * i
      BY <1>1, <1>2, <1>7
    <3>. QED
      BY <1>1, <1>2, <1>7, <3>1, MultipleGap
  <2>2. d * k \in Nat /\ d * i \in Nat
    BY <1>1, <1>2, <1>7
  <2>. QED
    BY <1>1, <1>3, <1>6, <1>7, <2>1, <2>2
<1>9. k - i \in Nat /\ m = d * (k - i) + y
  <2>1. d * k = d * (k - i) + d * i
    BY <1>1, <1>2, <1>7
  <2>2. k - i \in Nat /\ d * (k - i) \in Nat /\ d * i \in Nat
    BY <1>1, <1>2, <1>7, <1>8
  <2>. QED
    BY <1>3, <1>6, <1>7, <2>1, <2>2
<1>10. m % d = y
  BY <1>1, <1>6, <1>9, ModUnique
<1>. QED
  BY <1>10 DEF m, d, x, y, h

LEMMA WholeNumber ==
  ASSUME NEW n \in Nat \ {0}, NEW w \in Nat \ {0}, n <= n \div w
  PROVE  w = 1
<1>1. PICK q \in Nat, r \in Nat : q = n \div w /\ n = w * q + r
  BY DivMod
<1>. SUFFICES ASSUME w >= 2 PROVE FALSE
  OBVIOUS
<1>2. w * q >= 2 * q
  OBVIOUS
<1>. QED
  BY <1>1, <1>2

-----------------------------------------------------------------------------
\* The handshake.

LEMMA StepInStream ==
  ASSUME TypeOK, [SwitchNext]_allvars
  PROVE  [Next]_vars
<1>1. ASSUME NEW m \in BOOLEAN, NEW w \in BOOLEAN, SetLines(m, w)
      PROVE  Next
  <2>1. \E mm, ww \in BOOLEAN : SetLines(mm, ww)
    BY <1>1, Zenon
  <2>. QED
    BY <2>1 DEF Next
<1>2. motor \in BOOLEAN /\ write \in BOOLEAN /\ (~motor) \in BOOLEAN /\ NextBit \in BOOLEAN
  BY DEF TypeOK, NextBit
<1>3. CASE DeviceStep \/ PulseSeen \/ ModeReturns \/ LoadEnds
  BY <1>3 DEF DeviceStep, PulseSeen, ModeReturns, LoadEnds, Next
<1>4. CASE C64Step \/ Kernal \/ CmdModeStart \/ CmdModeTimeout \/ StreamMode
        \/ LoaderStart \/ Reset
  BY <1>1, <1>2, <1>4 DEF C64Step, Kernal, CmdModeStart, CmdModeTimeout, StreamMode,
     LoaderStart, Reset, CmdModeSenseLow, CmdModeMotorOff, SendBit, SendBitDone,
     CmdModeAsk, CmdModeSenseHigh, CmdModeCount, CmdModeDone, LoaderDone, Booted,
     Program
<1>. QED
  BY <1>3, <1>4 DEF SwitchNext, allvars

LEMMA SwitchAlwaysTInv == SwitchSpec => []TInv
<1>1. TInv /\ [Next]_vars => TInv'
  <2>. SUFFICES ASSUME TInv, [Next]_vars PROVE TInv'
    OBVIOUS
  <2>1. CASE UNCHANGED vars
    BY <2>1 DEF vars, ring, port, TInv, TypeOK, MotorRunsTimer
  <2>. QED
    BY <2>1, StepMain, StepPulse, StepLines DEF Next
<1>2. SwitchInit => TInv
  BY InitTInv DEF SwitchInit
<1>3. TInv /\ [SwitchNext]_allvars => TInv'
  BY <1>1, StepInStream DEF TInv
<1>. QED
  BY <1>2, <1>3, PTL DEF SwitchSpec

(***************************************************************************)
(* The device streams as it does with any lines while the C64 switches its *)
(* mode: what is proved of TapStream holds of ModeSwitch.                  *)
(***************************************************************************)
THEOREM SwitchStreams == SwitchSpec => Spec
<1>1. TInv /\ [SwitchNext]_allvars => [Next]_vars
  BY StepInStream DEF TInv
<1>2. SwitchInit => Init
  BY DEF SwitchInit
<1>. QED
  BY <1>1, <1>2, SwitchAlwaysTInv, PTL DEF SwitchSpec, Spec

-----------------------------------------------------------------------------
\* The inductive invariant of the handshake.

SenseHigh == {"rewind", "switch", "loaderEnter", "loader", "cmdEnter", "cmdWrite", "cmdOn",
              "cmdPulses", "cmdOff", "command", "resume"}
Turn == {"resume", "check", "turnOn", "top", "clear"}
InCommand == {"cmdEnter", "cmdWrite", "cmdOn", "cmdPulses", "cmdOff", "command"}
Asked == {"waitHigh", "count"}

\* tapecart_cmdmode, from the low level of sense to its answer.
Calling == c64 \in {"settle", "motorOn", "motorOff", "last", "waitHigh", "count"}
           /\ code = MagicCommand

SwitchType ==
  /\ c64 \in {"boot", "idle", "waitLow", "settle", "motorOn", "motorOff", "last",
     "waitHigh",
              "count", "ok", "loading"}
  /\ code \in {MagicLoader, MagicCommand}
  /\ weight \in Nat \ {0} /\ \E p \in Nat \ {0} : p * weight = SregSize
  /\ flag \in BOOLEAN /\ edged \in BOOLEAN /\ restarted \in BOOLEAN
  /\ counted \in Nat

\* What the C64 has set its lines to, and what sense tells of the device.
Levels ==
  /\ sense <=> pc \in SenseHigh
  /\ pc = "boot" => c64 = "boot"
  /\ edged => pc \in Hasty
  /\ c64 \in {"waitLow", "settle"} => motor /\ weight = SregSize
  /\ c64 = "motorOn" => ~motor /\ weight > 1
  /\ c64 = "motorOff" => motor
  /\ c64 = "last" => ~motor /\ weight = 1
  /\ c64 \in Asked => ~motor /\ write /\ weight = 1
  /\ c64 \in Asked \cup {"settle"} => code = MagicCommand

\* The register ends with the bits sent, unless main() cleared it meanwhile; then it
\* holds no more than they make up.
Register ==
  Calling =>
    /\ ~restarted => \E p \in Nat \ {0} : /\ p * weight = SregSize
                                          /\ shift_reg % p = code \div weight
    /\ restarted /\ pc # "clear" => shift_reg <= code \div weight

\* How far the device is with the request.
Requested ==
  Calling =>
    /\ ~restarted /\ pc = "clear" => edged /\ c64 = "settle"
    /\ ~restarted /\ weight = 1 => mode = "COMMAND"
    /\ restarted /\ mode = "COMMAND" => weight = 1
    /\ restarted /\ pc \in InCommand => mode = "COMMAND"
    /\ mode = "STREAM" =>
         \/ pc \in {"clear", "put", "store", "drain"}
         \/ ~restarted /\ pc \in {"check", "turnOn", "top", "fill", "rewind"}

\* The C64 moves once at most while the device is in a hurry.
Hurry ==
  Calling =>
    /\ pc \in Turn => edged \/ motor
    /\ c64 \in Asked => pc \notin Turn
    /\ pc = "cmdOn" /\ motor => edged
    /\ pc = "cmdOn" /\ ~motor => write

\* Who may have turned the timer on while the motor is off.
TimerOn ==
  Calling /\ ~motor /\ timer =>
    \/ pc = "cmdPulses" /\ write
    \/ pc = "top"
    \/ restarted /\ mode = "STREAM" /\ pc \in {"clear", "put", "store", "drain"}

Counting ==
  c64 = "count" => /\ pc \in SenseHigh
                   /\ flag \/ counted > 0 => pc = "cmdPulses"

Answered ==
  c64 = "ok" => ~motor /\ mode = "COMMAND" /\ pc \in {"cmdPulses", "cmdOff", "command"}

SwitchInv ==
  /\ SwitchType /\ Levels /\ Register /\ Requested /\ Hurry /\ TimerOn /\ Counting
     /\ Answered

LEMMA InitSwitch == SwitchInit => SwitchInv
<1>. SUFFICES ASSUME SwitchInit PROVE SwitchInv
  OBVIOUS
<1>1. /\ c64 = "boot" /\ code = MagicCommand /\ weight = SregSize /\ flag = FALSE
         /\ counted = 0
      /\ edged = FALSE /\ restarted = FALSE /\ pc = "boot" /\ sense = FALSE
  BY DEF SwitchInit, Init
<1>2. SwitchType
  <2>1. \E p \in Nat \ {0} : p * SregSize = SregSize
    <3>1. 1 * SregSize = SregSize
      BY Sizes
    <3>. QED
      BY <3>1
  <2>. QED
    BY <1>1, <2>1, Sizes DEF SwitchType
<1>3. Levels
  BY <1>1 DEF Levels, SenseHigh, Asked
<1>. QED
  BY <1>1, <1>2, <1>3 DEF SwitchInv, Register, Requested, Hurry, TimerOn, Counting,
     Answered, Calling

-----------------------------------------------------------------------------
\* The device moves.

LEMMA SwitchGoes ==
  ASSUME Switch, TypeOK
  PROVE  /\ pc = "switch"
         /\ \/ mode = "LOADER" /\ pc' = "loaderEnter"
            \/ mode = "COMMAND" /\ pc' = "cmdEnter"
            \/ mode = "STREAM" /\ pc' = "resume"
         /\ UNCHANGED <<timer, mode, shift_reg, motor, write, sense>>
<1>1. /\ pc = "switch" /\ UNCHANGED <<timer, mode, shift_reg, motor, write, sense>>
      /\ pc' = CASE mode = "LOADER"  -> "loaderEnter"
            [] mode = "COMMAND" -> "cmdEnter"
            [] mode = "STREAM"  -> "resume"
  BY DEF Switch, Move, lines, port
<1>2. mode \in {"STREAM", "LOADER", "COMMAND"}
  BY DEF TypeOK
<1>. QED
  BY <1>1, <1>2

\* A step of main(), but for the ring.
LEMMA MainMoves ==
  ASSUME TypeOK, MainStep
  PROVE  /\ UNCHANGED <<motor, write>>
         /\ \/ /\ pc = "switch"
               /\ \/ mode = "LOADER" /\ pc' = "loaderEnter"
                  \/ mode = "COMMAND" /\ pc' = "cmdEnter"
                  \/ mode = "STREAM" /\ pc' = "resume"
               /\ UNCHANGED <<timer, mode, shift_reg, sense>>
            \/ pc = "boot" /\ pc' = "top" /\ UNCHANGED <<mode, shift_reg, sense>>
            \/ /\ pc = "top" /\ pc' = "clear" /\ mode' = "STREAM"
               /\ UNCHANGED <<timer, shift_reg, sense>>
            \/ /\ pc = "clear" /\ pc' = "put" /\ shift_reg' = 0
               /\ UNCHANGED <<timer, mode, sense>>
            \/ /\ \/ pc = "put" /\ pc' = "store"
                  \/ pc = "store" /\ pc' \in {"put", "drain"}
                  \/ pc = "drain" /\ pc' = "fill"
                  \/ pc = "rewind" /\ pc' = "switch"
                  \/ pc = "cmdWrite" /\ motor /\ pc' = "resume"
                  \/ pc = "cmdWrite" /\ ~motor /\ write /\ pc' = "cmdOn"
                  \/ pc = "cmdPulses" /\ motor /\ pc' = "resume"
                  \/ pc = "cmdPulses" /\ ~motor /\ ~write /\ pc' = "cmdOff"
                  \/ pc = "check" /\ motor /\ pc' = "turnOn"
                  \/ pc = "check" /\ ~motor /\ pc' = "top"
               /\ UNCHANGED <<timer, mode, shift_reg, sense>>
            \/ pc = "fill" /\ pc' = "rewind" /\ sense' = TRUE
               /\ UNCHANGED <<timer, mode, shift_reg>>
            \/ /\ pc = "loaderEnter" /\ pc' = "loader" /\ timer' = FALSE
               /\ UNCHANGED <<mode, shift_reg, sense>>
            \/ /\ pc = "cmdEnter" /\ pc' = "cmdWrite" /\ timer' = FALSE /\ sense' = TRUE
               /\ UNCHANGED <<mode, shift_reg>>
            \/ /\ pc = "cmdOn" /\ pc' = "cmdPulses" /\ timer' = TRUE
               /\ UNCHANGED <<mode, shift_reg, sense>>
            \/ /\ pc = "cmdOff" /\ pc' = "command" /\ timer' = FALSE
               /\ UNCHANGED <<mode, shift_reg, sense>>
            \/ /\ pc = "resume" /\ pc' = "check" /\ sense' = FALSE
               /\ UNCHANGED <<timer, mode, shift_reg>>
            \/ /\ pc = "turnOn" /\ pc' = "top" /\ timer' = TRUE
               /\ UNCHANGED <<mode, shift_reg, sense>>
<1>1. CASE Switch
  BY <1>1, SwitchGoes
<1>2. CASE PowerUp \/ Top \/ ClearShiftReg \/ PutWait \/ PutStore \/ Drain \/ Fill \/ Rewind
           \/ LoaderEnter \/ Resume \/ CheckMotor \/ TurnOn
  BY <1>2 DEF PowerUp, Top, ClearShiftReg, PutWait, PutStore, Drain, Fill, Rewind,
     LoaderEnter, Resume, CheckMotor, TurnOn, Move, lines, port
<1>3. CASE CommandEnter \/ CommandWrite \/ CommandOn \/ CommandPulses \/ CommandOff
  BY <1>3 DEF CommandEnter, CommandWrite, CommandOn, CommandPulses, CommandOff, Move,
     lines, port
<1>. QED
  BY <1>1, <1>2, <1>3 DEF MainStep

LEMMA DeviceKeeps ==
  ASSUME TypeOK, SwitchInv, DeviceStep
  PROVE  SwitchInv'
<1>1. /\ UNCHANGED <<c64, code, weight, flag, counted, motor, write>>
      /\ MainStep
      /\ pc = "rewind" /\ mode = "STREAM" => ~InHandshake
      /\ pc = "drain" /\ mode = "STREAM" /\ restarted => ~InHandshake /\ c64 \notin Asked
      /\ edged' = (edged /\ pc' \in Hasty)
      /\ restarted' = (restarted \/ pc = "top")
  BY MainMoves DEF DeviceStep, Asked
<1>2. Calling' <=> Calling
  BY <1>1 DEF Calling
<1>3. SwitchType'
  BY <1>1 DEF SwitchInv, SwitchType
<1>4. Levels'
  <2>1. sense' <=> pc' \in SenseHigh
    <3>1. sense <=> pc \in SenseHigh
      BY DEF SwitchInv, Levels
    <3>. QED
      BY <1>1, <3>1, MainMoves DEF TypeOK, SenseHigh
  <2>2. pc' # "boot"
    BY <1>1, MainMoves
  <2>. QED
    BY <1>1, <2>1, <2>2 DEF SwitchInv, Levels
<1>5. Requested'
  BY <1>1, <1>2, MainMoves DEF SwitchInv, SwitchType, Levels, Requested, Calling,
     InHandshake, Asked, InCommand, Hasty
<1>6. Hurry'
  BY <1>1, <1>2, MainMoves DEF SwitchInv, SwitchType, Levels, Requested, Hurry, Calling,
     InHandshake, Asked, Turn, Hasty
<1>7. TimerOn'
  BY <1>1, <1>2, MainMoves DEF SwitchInv, SwitchType, Levels, Requested, Hurry, TimerOn,
     Calling, InHandshake, Asked
<1>8. Counting'
  <2>. SUFFICES ASSUME c64 = "count"
                PROVE  pc' \in SenseHigh /\ (flag \/ counted > 0 => pc' = "cmdPulses")
    BY <1>1 DEF Counting
  <2>1. /\ pc \in SenseHigh /\ pc \notin Turn /\ ~motor /\ write
        /\ flag \/ counted > 0 => pc = "cmdPulses"
        /\ Calling /\ weight = 1
    BY DEF SwitchInv, Levels, Hurry, Counting, Calling, Asked
  <2>2. mode # "STREAM"
    BY <2>1 DEF SwitchInv, Requested, SwitchType, SenseHigh
  <2>. QED
    BY <1>1, <2>1, <2>2, MainMoves DEF SenseHigh, Turn
<1>9. Answered'
  BY <1>1, MainMoves DEF SwitchInv, Answered
<1>10. Register'
  <2>. SUFFICES ASSUME Calling
                PROVE  Register'
    BY <1>2 DEF Register
  <2>1. code \in Nat /\ weight \in Nat \ {0} /\ code < SregSize /\ SregSize \in Nat
    BY TapStreamAssumption DEF SwitchInv, SwitchType
  <2>2. CASE pc = "clear"
    <3>1. shift_reg' = 0 /\ pc' = "put" /\ restarted' = restarted
      BY <1>1, <2>2, MainMoves DEF SwitchInv, SwitchType
    <3>2. CASE restarted
      <4>1. 0 <= code \div weight
        BY <2>1, DivMod
      <4>. QED
        BY <1>1, <3>1, <3>2, <4>1 DEF Register
    <3>3. CASE ~restarted
      <4>1. weight = SregSize
        BY <2>2, <3>3 DEF SwitchInv, Levels, Requested
      <4>2. 1 * weight = SregSize /\ 0 % 1 = 0 /\ code \div SregSize = 0
        <5>1. SregSize * 0 + code = code
          BY <2>1
        <5>2. (SregSize * 0 + code) \div SregSize = 0
          BY <2>1, QuotientUnique
        <5>. QED
          BY <2>1, <4>1, <5>1, <5>2
      <4>. QED
        BY <1>1, <3>1, <3>3, <4>1, <4>2 DEF Register
    <3>. QED
      BY <3>2, <3>3
  <2>3. CASE pc = "top"
    <3>1. restarted' /\ pc' = "clear"
      BY <1>1, <2>3, MainMoves DEF SwitchInv, SwitchType
    <3>. QED
      BY <3>1 DEF Register
  <2>4. CASE pc \notin {"clear", "top"}
    <3>1. shift_reg' = shift_reg /\ restarted' = restarted
      BY <1>1, <2>4, MainMoves DEF SwitchInv, SwitchType
    <3>. QED
      BY <1>1, <1>2, <2>4, <3>1 DEF SwitchInv, Register
  <2>. QED
    BY <2>2, <2>3, <2>4
<1>. QED
  BY <1>3, <1>4, <1>5, <1>6, <1>7, <1>8, <1>9, <1>10 DEF SwitchInv

LEMMA PulseKeeps ==
  ASSUME TypeOK, SwitchInv, PulseSeen
  PROVE  SwitchInv'
<1>1. /\ UNCHANGED <<c64, code, weight, counted, edged, restarted, timer, mode, shift_reg>>
      /\ UNCHANGED <<motor, write, sense, pc>>
      /\ timer /\ flag' = TRUE
  BY DEF PulseSeen, PulseInterrupt, port
<1>2. Calling' <=> Calling
  BY <1>1 DEF Calling
<1>3. SwitchType'
  BY <1>1 DEF SwitchInv, SwitchType
<1>4. Levels' /\ Requested' /\ Hurry' /\ TimerOn' /\ Answered'
  BY <1>1, <1>2 DEF SwitchInv, Levels, Requested, Hurry, TimerOn, Answered
<1>5. Register'
  BY <1>1, <1>2 DEF SwitchInv, Register
<1>6. Counting'
  <2>. SUFFICES ASSUME c64 = "count" PROVE pc \in SenseHigh /\ pc = "cmdPulses"
    BY <1>1 DEF Counting
  <2>1. Calling /\ ~motor /\ pc \in SenseHigh
    BY DEF SwitchInv, Levels, Counting, Calling, Asked
  <2>. QED
    BY <1>1, <2>1 DEF SwitchInv, TimerOn, SenseHigh
<1>. QED
  BY <1>3, <1>4, <1>5, <1>6 DEF SwitchInv

LEMMA ReturnKeeps ==
  ASSUME TypeOK, SwitchInv, ModeReturns \/ LoadEnds
  PROVE  SwitchInv'
<1>1. /\ UNCHANGED <<code, weight, flag, counted, edged, restarted>>
      /\ UNCHANGED <<timer, mode, shift_reg, motor, write>>
      /\ pc \in {"loader", "command"} /\ pc' = "resume"
      /\ sense' = (pc = "command" \/ sense)
  BY DEF ModeReturns, LoadEnds, LoaderReturns, CommandReturns, Move, lines, port,
     c64vars, TypeOK
<1>2. \/ motor /\ c64' = c64
      \/ c64 = "loading" /\ c64' = "idle"
  BY DEF ModeReturns, LoadEnds, c64vars
<1>3. ~(pc \in {"loader", "command"} /\ c64' \in Asked /\ c64' = c64 /\ motor)
  BY DEF SwitchInv, Levels
<1>4. SwitchType'
  BY <1>1, <1>2 DEF SwitchInv, SwitchType
<1>5. Levels'
  BY <1>1, <1>2 DEF SwitchInv, Levels, SenseHigh, Hasty, Asked
<1>6. Requested' /\ Hurry' /\ TimerOn' /\ Counting' /\ Answered'
  BY <1>1, <1>2, <1>3 DEF SwitchInv, Levels, Requested, Hurry, TimerOn, Counting,
     Answered, Calling, Asked, InCommand, Turn
<1>7. Register'
  BY <1>1, <1>2 DEF SwitchInv, Register, Calling
<1>. QED
  BY <1>4, <1>5, <1>6, <1>7 DEF SwitchInv

-----------------------------------------------------------------------------
\* The C64 moves.

LEMMA LinesSet ==
  ASSUME TypeOK, NEW m \in BOOLEAN, NEW w \in BOOLEAN, SetLines(m, w)
  PROVE  /\ motor' = m /\ write' = w /\ UNCHANGED <<sense, pc>>
         /\ motor = m => UNCHANGED <<timer, shift_reg, mode>>
         /\ ~m /\ motor => timer' = FALSE /\ UNCHANGED <<shift_reg, mode>>
         /\ m /\ ~motor =>
              /\ timer' = TRUE /\ shift_reg' = Shift(w)
              /\ shift_reg' = MagicCommand => mode' = "COMMAND"
              /\ \/ mode' = mode
                 \/ mode' = "LOADER"
                 \/ mode' = "COMMAND" /\ shift_reg' = MagicCommand
<1>1. /\ motor' = m /\ write' = w /\ UNCHANGED <<sense, pc>>
      /\ IF m # motor THEN MotorEdge(m, w) ELSE UNCHANGED <<timer, shift_reg, mode>>
  BY DEF SetLines
<1>2. ASSUME m, ~motor
      PROVE  /\ timer' = TRUE /\ shift_reg' = Shift(w)
             /\ shift_reg' = MagicCommand => mode' = "COMMAND"
             /\ \/ mode' = mode
                \/ mode' = "LOADER"
                \/ mode' = "COMMAND" /\ shift_reg' = MagicCommand
  <2>1. /\ timer' = TRUE /\ shift_reg' = Shift(w)
        /\ mode' = CASE shift_reg' = MagicLoader  -> "LOADER"
                     [] shift_reg' = MagicCommand -> "COMMAND"
                     [] OTHER -> mode
    BY <1>1, <1>2 DEF MotorEdge
  <2>2. MagicLoader # MagicCommand
    BY TapStreamAssumption
  <2>. QED
    BY <2>1, <2>2
<1>3. ~m /\ motor => timer' = FALSE /\ UNCHANGED <<shift_reg, mode>>
  BY <1>1 DEF MotorEdge
<1>. QED
  BY <1>1, <1>2, <1>3 DEF TypeOK

LEMMA TickOnce ==
  ASSUME Tick
  PROVE  edged' \in BOOLEAN /\ (edged' <=> pc \in Hasty) /\ ~(edged /\ pc \in Hasty)
<1>1. edged' = (pc \in Hasty) /\ ~(edged /\ pc \in Hasty)
  BY DEF Tick
<1>2. edged' \in BOOLEAN
  BY <1>1, SMT
<1>3. CASE pc \in Hasty
  <2>1. edged' = TRUE
    BY <1>1, <1>3, Zenon
  <2>. QED
    BY <1>1, <1>2, <1>3, <2>1
<1>4. CASE pc \notin Hasty
  <2>1. ~edged'
    BY <1>1, <1>4, Zenon
  <2>. QED
    BY <1>1, <1>2, <1>4, <2>1, Zenon
<1>. QED
  BY <1>3, <1>4

\* Where tapecart_cmdmode does not run.
LEMMA ElsewhereKeeps ==
  ASSUME TypeOK, SwitchInv,
         Kernal \/ CmdModeStart \/ StreamMode \/ CmdModeTimeout \/ LoaderStart
           \/ LoaderDone \/ Reset
         \/ Booted
  PROVE  SwitchInv'
<1>1. \/ c64' \in {"idle", "waitLow", "boot", "loading"}
      \/ c64' = "motorOn" /\ code' = MagicLoader
  BY DEF Kernal, CmdModeStart, StreamMode, CmdModeTimeout, LoaderStart, LoaderDone,
     Reset, Booted, Program
<1>2. ~Calling'
  BY <1>1, TapStreamAssumption DEF Calling
<1>3. UNCHANGED <<sense, pc>>
  BY DEF Kernal, CmdModeStart, StreamMode, CmdModeTimeout, LoaderStart, LoaderDone,
     Reset, Booted, Program, SetLines, vars
<1>4. SwitchType'
  <2>1. /\ code' \in {code, MagicLoader} /\ weight' \in {weight, SregSize}
        /\ UNCHANGED <<flag, counted>> /\ restarted' \in {restarted, FALSE}
        /\ Tick \/ UNCHANGED edged
    BY DEF Kernal, CmdModeStart, StreamMode, CmdModeTimeout, LoaderStart, LoaderDone,
       Reset, Booted, Program
  <2>3. edged' \in BOOLEAN
    BY <2>1, TickOnce DEF SwitchInv, SwitchType
  <2>2. \E p \in Nat \ {0} : p * SregSize = SregSize
    <3>1. 1 * SregSize = SregSize
      BY Sizes
    <3>. QED
      BY <3>1
  <2>. QED
    BY <1>1, <2>1, <2>2, <2>3, Sizes DEF SwitchInv, SwitchType
<1>5. Levels'
  <2>1. edged' => pc \in Hasty
    BY DEF Kernal, CmdModeStart, StreamMode, CmdModeTimeout, LoaderStart, LoaderDone,
       Reset, Booted, Program, Tick, SwitchInv, Levels
  <2>2. pc = "boot" => c64' = "boot"
    BY DEF Kernal, CmdModeStart, StreamMode, CmdModeTimeout, LoaderStart, LoaderDone,
       Reset, Booted, Program, SwitchInv, Levels, Streaming
  <2>3. c64' = "waitLow" => motor' /\ weight' = SregSize
    BY DEF Kernal, CmdModeStart, StreamMode, CmdModeTimeout, LoaderStart, LoaderDone,
       Reset, Booted, Program, SetLines
  <2>4. c64' = "motorOn" => ~motor' /\ weight' = SregSize /\ SregSize > 1
    <3>1. c64' = "motorOn" => LoaderStart
      BY DEF Kernal, CmdModeStart, StreamMode, CmdModeTimeout, LoaderDone, Reset,
         Booted, Program
    <3>2. SregSize > 1
      BY TapStreamAssumption
    <3>. QED
      BY <3>1, <3>2 DEF LoaderStart, vars, port
  <2>. QED
    BY <1>1, <1>3, <2>1, <2>2, <2>3, <2>4 DEF SwitchInv, Levels, Asked
<1>6. Register' /\ Requested' /\ Hurry' /\ TimerOn'
  BY <1>2 DEF Register, Requested, Hurry, TimerOn
<1>7. Counting' /\ Answered'
  BY <1>1 DEF Counting, Answered
<1>. QED
  BY <1>4, <1>5, <1>6, <1>7 DEF SwitchInv

LEMMA SenseLowKeeps ==
  ASSUME TypeOK, SwitchInv, CmdModeSenseLow
  PROVE  SwitchInv'
<1>1. /\ c64 = "waitLow" /\ ~sense /\ c64' = "settle" /\ code' = MagicCommand
      /\ edged' \in BOOLEAN /\ (edged' <=> pc \in Hasty) /\ restarted' = FALSE
      /\ UNCHANGED <<weight, flag, counted, timer, mode, shift_reg, motor, write, sense,
         pc>>
  BY TickOnce DEF CmdModeSenseLow, vars, port
<1>2. motor /\ weight = SregSize /\ pc \notin SenseHigh /\ pc # "boot"
  BY <1>1 DEF SwitchInv, Levels
<1>3. SwitchType'
  BY <1>1 DEF SwitchInv, SwitchType
<1>4. Levels'
  BY <1>1, <1>2 DEF SwitchInv, Levels, Asked
<1>5. Register'
  <2>1. MagicCommand \in Nat /\ MagicCommand < SregSize /\ SregSize \in Nat \ {0}
          /\ shift_reg \in Nat
    BY TapStreamAssumption DEF TypeOK
  <2>2. MagicCommand \div SregSize = 0
    <3>1. SregSize * 0 + MagicCommand = MagicCommand
      BY <2>1
    <3>2. (SregSize * 0 + MagicCommand) \div SregSize = 0
      BY <2>1, QuotientUnique
    <3>. QED
      BY <3>1, <3>2
  <2>3. shift_reg % 1 = 0 /\ 1 * SregSize = SregSize
    BY <2>1
  <2>. QED
    BY <1>1, <1>2, <2>2, <2>3 DEF Register
<1>6. Requested'
  <2>1. weight' # 1
    BY <1>1, <1>2, TapStreamAssumption
  <2>2. pc \in {"put", "store", "drain", "fill", "top", "clear", "check", "turnOn"}
    BY <1>2 DEF TypeOK, PC, Streaming, SenseHigh
  <2>. QED
    BY <1>1, <2>1, <2>2 DEF Requested, Hasty, InCommand
<1>7. Hurry' /\ TimerOn' /\ Counting' /\ Answered'
  BY <1>1, <1>2 DEF Hurry, TimerOn, Counting, Answered, Calling, Asked, SenseHigh
<1>. QED
  BY <1>3, <1>4, <1>5, <1>6, <1>7 DEF SwitchInv

\* What a move of the program leaves alone.
LEMMA ProgramSets ==
  ASSUME TypeOK, NEW from, NEW to, NEW m \in BOOLEAN, NEW w \in BOOLEAN, Program(from,
         to, m, w)
  PROVE  /\ c64 = from /\ c64' = to /\ motor' = m /\ write' = w
         /\ UNCHANGED <<code, flag, counted, restarted, sense, pc>>
         /\ edged' \in BOOLEAN /\ (edged' <=> pc \in Hasty) /\ ~(edged /\ pc \in Hasty)
  BY TickOnce, LinesSet DEF Program

LEMMA MotorOffKeeps ==
  ASSUME TypeOK, SwitchInv, CmdModeMotorOff
  PROVE  SwitchInv'
<1>1. /\ c64 = "settle" /\ c64' = "motorOn" /\ motor' = FALSE /\ write' = write
      /\ UNCHANGED <<code, flag, counted, restarted, sense, pc, weight>>
      /\ edged' \in BOOLEAN /\ (edged' <=> pc \in Hasty) /\ ~(edged /\ pc \in Hasty)
  BY ProgramSets DEF CmdModeMotorOff, TypeOK
<1>2. motor /\ weight = SregSize /\ SregSize > 1 /\ code = MagicCommand /\ Calling
  BY <1>1, TapStreamAssumption DEF SwitchInv, Levels, Calling
<1>3. timer' = FALSE /\ UNCHANGED <<shift_reg, mode>>
  <2>1. SetLines(FALSE, write) /\ write \in BOOLEAN
    BY DEF CmdModeMotorOff, Program, TypeOK
  <2>. QED
    BY <1>2, <2>1, LinesSet
<1>4. pc # "clear" \/ restarted
  BY <1>1, <1>2 DEF SwitchInv, Requested, Hasty
<1>5. SwitchType' /\ Levels'
  BY <1>1, <1>2 DEF SwitchInv, SwitchType, Levels, Asked
<1>6. Register' /\ Requested'
  BY <1>1, <1>2, <1>3, <1>4 DEF SwitchInv, Register, Requested
<1>7. Hurry' /\ TimerOn' /\ Counting' /\ Answered'
  BY <1>1, <1>2, <1>3 DEF SwitchInv, Hurry, TimerOn, Counting, Answered, Turn, Hasty,
     Asked
<1>. QED
  BY <1>5, <1>6, <1>7 DEF SwitchInv

\* Shift(NextBit), the bit as a number.
LEMMA BitShifted ==
  ASSUME TypeOK, SwitchType, weight > 1,
         NEW v \in Nat \ {0}, v = weight \div 2
  PROVE  \E b \in {0, 1} : b = (code \div v) % 2
         /\ Shift(NextBit) = (2 * shift_reg + b) % SregSize
<1>1. code \in Nat
  BY TapStreamAssumption DEF SwitchType
<1>2. PICK b \in {0, 1} : b = (code \div v) % 2
  BY <1>1, PrefixStep
<1>3. NextBit <=> b = 1
  BY <1>2 DEF NextBit
<1>4. (IF NextBit THEN 1 ELSE 0) = b
  BY <1>2, <1>3
<1>. QED
  BY <1>2, <1>4 DEF Shift

LEMMA SendBitKeeps ==
  ASSUME TypeOK, SwitchInv, SendBit
  PROVE  SwitchInv'
<1>1. /\ c64 = "motorOn" /\ c64' = "motorOff" /\ motor' = TRUE
      /\ UNCHANGED <<code, flag, counted, restarted, sense, pc>>
      /\ edged' \in BOOLEAN /\ (edged' <=> pc \in Hasty) /\ ~(edged /\ pc \in Hasty)
      /\ weight' = weight \div 2
  BY ProgramSets DEF SendBit, NextBit
<1>2. ~motor /\ weight > 1 /\ weight \in Nat /\ SwitchType
  BY <1>1 DEF SwitchInv, Levels, SwitchType
<1>3. /\ shift_reg' = Shift(NextBit)
      /\ shift_reg' = MagicCommand => mode' = "COMMAND"
      /\ \/ mode' = mode
         \/ mode' = "LOADER"
         \/ mode' = "COMMAND" /\ shift_reg' = MagicCommand
  <2>1. SetLines(TRUE, NextBit) /\ NextBit \in BOOLEAN
    BY DEF SendBit, Program, NextBit
  <2>. QED
    BY <1>2, <2>1, LinesSet
<1>4. PICK p \in Nat \ {0} : /\ p * weight = SregSize
                             /\ Calling /\ ~restarted => shift_reg % p = code \div weight
  BY DEF SwitchInv, SwitchType, Register
<1>5. PICK v \in Nat \ {0} : v = weight \div 2
  BY <1>2, <1>4, HalfWeight
<1>6. weight' = v /\ weight = 2 * v /\ (2 * p) * v = SregSize
  BY <1>1, <1>2, <1>4, <1>5, HalfWeight
<1>7. PICK b \in {0, 1} : b = (code \div v) % 2
        /\ shift_reg' = (2 * shift_reg + b) % SregSize
  BY <1>2, <1>3, <1>5, BitShifted
<1>8. shift_reg \in Nat /\ code \in Nat \ {0} /\ SregSize \in Nat \ {0}
  BY <1>2, TapStreamAssumption DEF TypeOK, SwitchType
<1>9. PICK c \in Nat : c = code \div v /\ c = 2 * (code \div weight) + b
        /\ code \div weight \in Nat
  BY <1>6, <1>7, <1>8, PrefixStep
<1>10. SwitchType'
  <2>1. 2 * p \in Nat \ {0}
    BY <1>4
  <2>2. \E k \in Nat \ {0} : k * weight' = SregSize
    BY <1>6, <2>1
  <2>. QED
    BY <1>1, <1>2, <1>6, <2>2 DEF SwitchType
<1>11. Levels'
  BY <1>1 DEF SwitchInv, Levels, Asked
<1>12. ASSUME Calling PROVE pc # "clear"
  BY <1>1, <1>2, <1>12 DEF SwitchInv, Hurry, Turn, Hasty
<1>13. ASSUME Calling, ~restarted
       PROVE  shift_reg' % (2 * p) = c
  <2>1. ((2 * shift_reg + b) % SregSize) % (2 * p) = 2 * (shift_reg % p) + b
    BY <1>4, <1>6, <1>7, <1>8, RegisterStep
  <2>. QED
    BY <1>4, <1>7, <1>9, <1>13, <2>1
<1>14. ASSUME Calling, restarted
       PROVE  shift_reg' <= c
  <2>1. shift_reg <= code \div weight
    BY <1>12, <1>14 DEF SwitchInv, Register
  <2>2. 2 * shift_reg + b \in Nat
    BY <1>7, <1>8
  <2>3. shift_reg' <= 2 * shift_reg + b
    <3>1. PICK x \in Nat : x = 2 * shift_reg + b
      BY <2>2
    <3>2. PICK q \in Nat, r \in Nat : r = x % SregSize /\ x = SregSize * q + r
      <4>1. /\ x % SregSize \in Nat /\ x \div SregSize \in Nat
            /\ x = SregSize * (x \div SregSize) + (x % SregSize)
        BY <1>8, DivMod
      <4>. QED
        BY <4>1
    <3>3. SregSize * q \in Nat
      BY <1>8
    <3>. QED
      BY <1>7, <3>1, <3>2, <3>3
  <2>. QED
    BY <1>7, <1>8, <1>9, <2>1, <2>3
<1>15. Register'
  <2>. SUFFICES ASSUME Calling PROVE Register'
    BY <1>1 DEF Register, Calling
  <2>1. ~restarted => 2 * p \in Nat \ {0} /\ (2 * p) * weight' = SregSize
                      /\ shift_reg' % (2 * p) = code' \div weight'
    BY <1>1, <1>4, <1>6, <1>9, <1>13
  <2>2. ~restarted => \E k \in Nat \ {0} : /\ k * weight' = SregSize
                                           /\ shift_reg' % k = code' \div weight'
    BY <2>1
  <2>3. restarted => shift_reg' <= code' \div weight'
    BY <1>1, <1>6, <1>9, <1>14
  <2>. QED
    BY <1>1, <2>2, <2>3 DEF Register
<1>16. Requested'
  <2>. SUFFICES ASSUME Calling PROVE Requested'
    BY <1>1 DEF Requested, Calling
  <2>1. ASSUME ~restarted, weight' = 1 PROVE mode' = "COMMAND"
    <3>1. 2 * p = SregSize /\ c = code
      BY <1>4, <1>6, <1>8, <1>9, <2>1
    <3>2. shift_reg' \in 0 .. SregSize - 1
      BY <1>7, <1>8
    <3>3. shift_reg' = code
      <4>1. PICK z \in Nat : z = shift_reg' /\ z < SregSize
        BY <1>8, <3>2
      <4>2. SregSize * 0 + z = z /\ (SregSize * 0 + z) % SregSize = z
        <5>1. SregSize * 0 = 0
          BY <1>8
        <5>2. (SregSize * 0 + z) % SregSize = z
          BY <1>8, <4>1, ModUnique
        <5>. QED
          BY <4>1, <5>1, <5>2
      <4>3. shift_reg' % SregSize = code
        BY <1>13, <2>1, <3>1
      <4>. QED
        BY <4>1, <4>2, <4>3
    <3>. QED
      BY <1>3, <3>3 DEF Calling
  <2>2. ASSUME restarted, mode' = "COMMAND" PROVE weight' = 1
    <3>1. mode # "COMMAND"
      BY <1>2, <2>2 DEF SwitchInv, Requested
    <3>2. shift_reg' = code
      BY <1>3, <2>2, <3>1 DEF Calling
    <3>3. code <= code \div v
      BY <1>9, <1>14, <2>2, <3>2
    <3>. QED
      BY <1>6, <1>8, <3>3, WholeNumber
  <2>3. restarted => pc \notin InCommand
    BY <1>2 DEF SwitchInv, Requested
  <2>. QED
    BY <1>1, <1>3, <1>12, <2>1, <2>2, <2>3 DEF SwitchInv, Requested
<1>17. Hurry' /\ TimerOn' /\ Counting' /\ Answered'
  BY <1>1 DEF Hurry, TimerOn, Counting, Answered, Asked, Hasty
<1>. QED
  BY <1>10, <1>11, <1>15, <1>16, <1>17 DEF SwitchInv

LEMMA SendBitDoneKeeps ==
  ASSUME TypeOK, SwitchInv, SendBitDone
  PROVE  SwitchInv'
<1>1. /\ c64 = "motorOff" /\ motor' = FALSE /\ write' = write
      /\ c64' = IF weight = 1 THEN "last" ELSE "motorOn"
      /\ UNCHANGED <<code, flag, counted, restarted, sense, pc, weight>>
      /\ edged' \in BOOLEAN /\ (edged' <=> pc \in Hasty) /\ ~(edged /\ pc \in Hasty)
  <2>1. PICK to : to = IF weight = 1 THEN "last" ELSE "motorOn"
    OBVIOUS
  <2>2. Program("motorOff", to, FALSE, write) /\ write \in BOOLEAN /\ UNCHANGED weight
    BY <2>1 DEF SendBitDone, TypeOK
  <2>3. /\ c64 = "motorOff" /\ c64' = to /\ motor' = FALSE /\ write' = write
        /\ UNCHANGED <<code, flag, counted, restarted, sense, pc>>
        /\ edged' \in BOOLEAN /\ (edged' <=> pc \in Hasty) /\ ~(edged /\ pc \in Hasty)
    BY <2>2, ProgramSets
  <2>4. UNCHANGED weight
    BY <2>2
  <2>. QED
    BY <2>1, <2>3, <2>4
<1>2. motor /\ weight \in Nat \ {0} /\ SwitchType
  BY <1>1 DEF SwitchInv, Levels, SwitchType
<1>3. timer' = FALSE /\ UNCHANGED <<shift_reg, mode>>
  <2>1. SetLines(FALSE, write) /\ write \in BOOLEAN
    BY DEF SendBitDone, Program, TypeOK
  <2>. QED
    BY <1>2, <2>1, LinesSet
<1>4. Calling' <=> Calling
  BY <1>1 DEF Calling
<1>5. SwitchType'
  BY <1>1, <1>2 DEF SwitchType
<1>6. Levels'
  BY <1>1, <1>2 DEF SwitchInv, Levels, Asked
<1>7. Register' /\ Requested'
  BY <1>1, <1>3, <1>4 DEF SwitchInv, Register, Requested
<1>8. Hurry'
  BY <1>1, <1>2, <1>4 DEF SwitchInv, Hurry, Turn, Hasty, Asked
<1>9. TimerOn' /\ Counting' /\ Answered'
  BY <1>1, <1>3 DEF TimerOn, Counting, Answered
<1>. QED
  BY <1>5, <1>6, <1>7, <1>8, <1>9 DEF SwitchInv

LEMMA AskKeeps ==
  ASSUME TypeOK, SwitchInv, CmdModeAsk
  PROVE  SwitchInv'
<1>1. /\ c64 = "last" /\ c64' = "waitHigh" /\ motor' = FALSE /\ write' = TRUE
      /\ code = MagicCommand
      /\ UNCHANGED <<code, flag, counted, restarted, sense, pc, weight>>
      /\ edged' \in BOOLEAN /\ (edged' <=> pc \in Hasty) /\ ~(edged /\ pc \in Hasty)
  BY ProgramSets DEF CmdModeAsk
<1>2. ~motor /\ weight = 1 /\ Calling /\ Calling' /\ SwitchType /\ motor \in BOOLEAN
  BY <1>1 DEF SwitchInv, Levels, Calling, TypeOK
<1>3. UNCHANGED <<timer, shift_reg, mode>>
  <2>1. SetLines(FALSE, TRUE)
    BY DEF CmdModeAsk, Program
  <2>. QED
    BY <1>2, <2>1, LinesSet
<1>4. pc \notin Turn
  BY <1>1, <1>2 DEF SwitchInv, Hurry, Turn, Hasty
<1>5. SwitchType' /\ Levels'
  BY <1>1, <1>2 DEF SwitchInv, SwitchType, Levels, Asked
<1>6. Register' /\ Requested'
  BY <1>1, <1>2, <1>3, <1>4 DEF SwitchInv, Register, Requested, Turn
<1>7. Hurry'
  BY <1>1, <1>4 DEF Hurry
<1>8. TimerOn'
  BY <1>1, <1>2, <1>3 DEF SwitchInv, TimerOn
<1>9. Counting' /\ Answered'
  BY <1>1 DEF Counting, Answered
<1>. QED
  BY <1>5, <1>6, <1>7, <1>8, <1>9 DEF SwitchInv

\* The level of sense and the pulses, while the lines stay.
LEMMA AnswerKeeps ==
  ASSUME TypeOK, SwitchInv, CmdModeSenseHigh \/ CmdModeCount
  PROVE  SwitchInv'
<1>1. /\ c64' = "count" /\ c64 \in Asked
      /\ UNCHANGED vars /\ UNCHANGED <<code, weight, edged, restarted>>
      /\ pc \in SenseHigh
      /\ \/ flag' = FALSE /\ counted' = 0
         \/ pc = "cmdPulses" /\ flag' = FALSE /\ counted' = counted + 1
  BY DEF CmdModeSenseHigh, CmdModeCount, SwitchInv, Levels, Counting, Asked
<1>2. UNCHANGED <<timer, mode, shift_reg, motor, write, sense, pc>>
  BY <1>1 DEF vars, port
<1>3. Calling /\ Calling'
  BY <1>1 DEF SwitchInv, Levels, Calling, Asked
<1>4. SwitchType'
  <2>1. SwitchType /\ counted \in Nat
    BY DEF SwitchInv, SwitchType
  <2>2. counted' \in Nat /\ flag' = FALSE
    BY <1>1, <2>1
  <2>3. c64' = "count" /\ UNCHANGED <<code, weight, edged, restarted>>
    BY <1>1
  <2>. QED
    BY <2>1, <2>2, <2>3 DEF SwitchType
<1>5. Levels'
  BY <1>1, <1>2 DEF SwitchInv, Levels, Asked
<1>6. Register' /\ TimerOn'
  BY <1>1, <1>2, <1>3 DEF SwitchInv, Register, TimerOn
<1>7. Requested' /\ Hurry'
  BY <1>1, <1>2, <1>3 DEF SwitchInv, Requested, Hurry, Asked
<1>8. Counting' /\ Answered'
  BY <1>1, <1>2 DEF Counting, Answered
<1>. QED
  BY <1>4, <1>5, <1>6, <1>7, <1>8 DEF SwitchInv

LEMMA DoneKeeps ==
  ASSUME TypeOK, SwitchInv, CmdModeDone
  PROVE  SwitchInv'
<1>1. /\ c64 = "count" /\ c64' = "ok" /\ motor' = FALSE /\ counted = Pulses
      /\ UNCHANGED <<code, flag, counted, restarted, sense, pc, weight>>
      /\ edged' \in BOOLEAN /\ (edged' <=> pc \in Hasty)
  BY ProgramSets DEF CmdModeDone
<1>2. ~motor /\ weight = 1 /\ Calling /\ pc = "cmdPulses" /\ SwitchType /\ motor \in BOOLEAN
  BY <1>1, ModeSwitchAssumption DEF SwitchInv, Levels, Counting, Calling, Asked, TypeOK
<1>3. mode = "COMMAND"
  BY <1>2 DEF SwitchInv, Requested, InCommand, SwitchType
<1>4. UNCHANGED mode
  <2>1. SetLines(FALSE, FALSE)
    BY DEF CmdModeDone, Program
  <2>. QED
    BY <1>2, <2>1, LinesSet
<1>5. SwitchType' /\ Levels'
  BY <1>1, <1>2 DEF SwitchInv, SwitchType, Levels, Asked
<1>6. ~Calling'
  BY <1>1 DEF Calling
<1>7. Register' /\ Requested' /\ Hurry' /\ TimerOn'
  BY <1>6 DEF Register, Requested, Hurry, TimerOn
<1>8. Counting' /\ Answered'
  BY <1>1, <1>2, <1>3, <1>4 DEF Counting, Answered
<1>. QED
  BY <1>5, <1>7, <1>8 DEF SwitchInv

LEMMA SwitchStep ==
  ASSUME TypeOK, SwitchInv, [SwitchNext]_allvars
  PROVE  SwitchInv'
<1>1. CASE UNCHANGED allvars
  <2>1. UNCHANGED <<c64, code, weight, flag, counted, edged, restarted, timer, mode,
          shift_reg,
                    motor, write, sense, pc>>
    BY <1>1 DEF allvars, c64vars, vars, port
  <2>. QED
    BY <2>1 DEF SwitchInv, SwitchType, Levels, Register, Requested, Hurry, TimerOn,
       Counting, Answered, Calling
<1>2. CASE DeviceStep \/ PulseSeen \/ ModeReturns \/ LoadEnds
  BY <1>2, DeviceKeeps, PulseKeeps, ReturnKeeps
<1>3. CASE Kernal \/ CmdModeStart \/ StreamMode \/ CmdModeTimeout \/ LoaderStart
        \/ LoaderDone
           \/ Reset \/ Booted
  BY <1>3, ElsewhereKeeps
<1>4. CASE CmdModeSenseLow \/ CmdModeMotorOff \/ SendBit \/ SendBitDone \/ CmdModeAsk
           \/ CmdModeSenseHigh \/ CmdModeCount \/ CmdModeDone
  BY <1>4, SenseLowKeeps, MotorOffKeeps, SendBitKeeps, SendBitDoneKeeps, AskKeeps,
     AnswerKeeps, DoneKeeps
<1>. QED
  BY <1>1, <1>2, <1>3, <1>4 DEF SwitchNext, C64Step

LEMMA SwitchAlwaysInv == SwitchSpec => []SwitchInv
<1>1. TInv /\ SwitchInv /\ [SwitchNext]_allvars => SwitchInv'
  BY SwitchStep DEF TInv
<1>. QED
  BY <1>1, InitSwitch, SwitchAlwaysTInv, PTL DEF SwitchSpec

(***************************************************************************)
(* tapecart_cmdmode returns true only when the device is in command mode,  *)
(* whatever the two numbers, the size of the register, the number of       *)
(* pulses and the number of resets and motor edges of the KERNAL: main()   *)
(* clears the register when it streams again, so that a number begun       *)
(* before makes no other number, and only CommandOn gives pulses while     *)
(* sense is high and the motor off.                                        *)
(***************************************************************************)
THEOREM TrueAnswers == SwitchSpec => []TrueMeansCommand
<1>1. SwitchInv => TrueMeansCommand
  BY DEF SwitchInv, Answered, TrueMeansCommand
<1>. QED
  BY <1>1, SwitchAlwaysInv, PTL

-----------------------------------------------------------------------------
\* What the register holds when a number is sent over what was left in it.

LEMMA WeightType ==
  ASSUME NEW w \in Weights
  PROVE  /\ w \in Nat \ {0} /\ w <= SregSize
         /\ SregSize \div w \in Nat \ {0} /\ (SregSize \div w) * w = SregSize
<1>1. w \in Nat \ {0} /\ w <= SregSize /\ SregSize % w = 0 /\ SregSize \in Nat \ {0}
  BY TapStreamAssumption DEF Weights
<1>2. PICK p \in Nat : SregSize = w * p
  BY <1>1, Multiple
<1>3. SregSize \div w = p
  <2>1. (w * p + 0) \div w = p /\ w * p + 0 = w * p
    BY <1>1, QuotientUnique
  <2>. QED
    BY <1>2, <2>1
<1>4. p # 0 /\ p * w = SregSize
  BY <1>1, <1>2
<1>. QED
  BY <1>1, <1>2, <1>3, <1>4

LEMMA WeightIs ==
  ASSUME NEW w \in Nat \ {0}, NEW p \in Nat \ {0}, p * w = SregSize
  PROVE  w \in Weights /\ SregSize \div w = p
<1>1. SregSize \in Nat \ {0}
  BY TapStreamAssumption
<1>2. SregSize = w * p /\ w <= SregSize
  BY <1>1
<1>3. SregSize % w = 0
  BY <1>1, <1>2, Multiple
<1>4. w \in Weights
  BY <1>1, <1>2, <1>3 DEF Weights
<1>5. SregSize \div w = p
  <2>1. (w * p + 0) \div w = p /\ w * p + 0 = w * p
    BY QuotientUnique
  <2>. QED
    BY <1>2, <2>1
<1>. QED
  BY <1>4, <1>5

LEMMA WeightEnds ==
  /\ 1 \in Weights /\ SregSize \div 1 = SregSize
  /\ SregSize \in Weights /\ SregSize \div SregSize = 1
<1>1. SregSize \in Nat \ {0} /\ 1 * SregSize = SregSize /\ SregSize * 1 = SregSize
  BY TapStreamAssumption
<1>. QED
  BY <1>1, WeightIs

LEMMA WeightHalved ==
  ASSUME NEW w \in Weights, w > 1
  PROVE  /\ w \div 2 \in Weights /\ w = 2 * (w \div 2)
         /\ SregSize \div (w \div 2) = 2 * (SregSize \div w)
<1>1. PICK p \in Nat \ {0} : p = SregSize \div w /\ p * w = SregSize
  BY WeightType
<1>2. w \in Nat
  BY WeightType
<1>3. PICK v \in Nat \ {0} : v = w \div 2 /\ w = 2 * v /\ (2 * p) * v = SregSize
  BY <1>1, <1>2, HalfWeight
<1>4. PICK d \in Nat \ {0} : d = 2 * p
  BY <1>1
<1>5. v \in Weights /\ SregSize \div v = d
  BY <1>3, <1>4, WeightIs
<1>. QED
  BY <1>1, <1>3, <1>4, <1>5

LEMMA WeightDoubled ==
  ASSUME NEW p \in Weights, p < SregSize
  PROVE  2 * p \in Weights
<1>1. PICK w \in Nat \ {0} : w = SregSize \div p /\ w * p = SregSize /\ p \in Nat \ {0}
  BY WeightType
<1>2. w > 1 /\ p * w = SregSize
  BY <1>1
<1>3. PICK v \in Nat \ {0} : (2 * p) * v = SregSize
  BY <1>1, <1>2, HalfWeight
<1>4. PICK d \in Nat \ {0} : d = 2 * p
  BY <1>1
<1>5. v * d = SregSize
  BY <1>3, <1>4
<1>. QED
  BY <1>4, <1>5, WeightIs

\* The first bits of a number, and one more of them.
LEMMA FirstBits ==
  ASSUME NEW c \in Nat, c < SregSize, NEW w \in Weights
  PROVE  c \div w \in Nat /\ c \div w < SregSize \div w
<1>1. PICK p \in Nat \ {0} : p = SregSize \div w /\ p * w = SregSize /\ w \in Nat \ {0}
  BY WeightType
<1>2. PICK q \in Nat, r \in Nat : q = c \div w /\ r = c % w /\ r < w /\ c = w * q + r
  BY <1>1, Remainder, Zenon
<1>3. q < p
  <2>. SUFFICES ASSUME q >= p PROVE FALSE
    BY <1>1, <1>2
  <2>1. w * q >= w * p
    BY <1>1, <1>2
  <2>2. w * p = SregSize /\ w * q \in Nat
    BY <1>1, <1>2
  <2>. QED
    BY <1>1, <1>2, <2>1, <2>2
<1>. QED
  BY <1>1, <1>2, <1>3

LEMMA OneMoreBit ==
  ASSUME NEW c \in Nat, NEW w \in Weights, w > 1
  PROVE  \E b \in {0, 1} : /\ b = (c \div (w \div 2)) % 2
                           /\ c \div (w \div 2) = 2 * (c \div w) + b
                           /\ c \div w \in Nat
<1>1. PICK v \in Nat \ {0} : v = w \div 2 /\ w = 2 * v
  BY WeightHalved, WeightType
<1>2. /\ c \div v \in Nat /\ c \div (2 * v) \in Nat /\ (c \div v) % 2 \in {0, 1}
      /\ c \div v = 2 * (c \div (2 * v)) + ((c \div v) % 2)
  BY PrefixStep
<1>. QED
  BY <1>1, <1>2

LEMMA Below ==
  ASSUME NEW r \in Nat, NEW w \in Nat \ {0}, r < w, NEW p \in Nat \ {0},
         NEW x \in Nat, x < p
  PROVE  r * p + x \in Nat /\ r * p + x < p * w
<1>1. PICK d \in Nat \ {0} : w = r + d
  BY w - r \in Nat \ {0}, w = r + (w - r)
<1>2. p * w = r * p + d * p /\ r * p \in Nat /\ d * p >= p /\ d * p \in Nat
  BY <1>1
<1>. QED
  BY <1>2

LEMMA OntoType ==
  ASSUME NEW g \in Nat, NEW c \in Nat, c < SregSize, NEW w \in Weights
  PROVE  (g % w) * (SregSize \div w) + c \div w \in 0 .. SregSize - 1
<1>1. PICK p \in Nat \ {0} : p = SregSize \div w /\ p * w = SregSize /\ w \in Nat \ {0}
  BY WeightType
<1>2. PICK x \in Nat : x = c \div w /\ x < p
  BY <1>1, FirstBits
<1>3. PICK r \in Nat : r = g % w /\ r < w
  BY <1>1, Remainder
<1>4. r * p + x \in Nat /\ r * p + x < SregSize
  BY <1>1, <1>2, <1>3, Below
<1>. QED
  BY <1>1, <1>2, <1>3, <1>4, TapStreamAssumption

\* A bit shifted in behind the others.
LEMMA OntoStep ==
  ASSUME NEW g \in Nat, NEW c \in Nat, c < SregSize, NEW w \in Weights, w > 1,
         NEW b \in {0, 1}, b = (c \div (w \div 2)) % 2
  PROVE  (2 * ((g % w) * (SregSize \div w) + c \div w) + b) % SregSize
           = (g % (w \div 2)) * (SregSize \div (w \div 2)) + c \div (w \div 2)
<1>1. PICK p \in Nat \ {0} : p = SregSize \div w /\ p * w = SregSize /\ w \in Nat \ {0}
  BY WeightType
<1>2. PICK v \in Weights : v = w \div 2 /\ w = 2 * v
  BY WeightHalved
<1>3. v \in Nat \ {0}
  BY WeightType
<1>4. PICK d \in Nat \ {0} : d = SregSize \div v /\ d = 2 * p /\ d * v = SregSize
  <2>1. SregSize \div v = 2 * (SregSize \div w)
    BY <1>2, WeightHalved
  <2>2. SregSize \div v \in Nat \ {0} /\ (SregSize \div v) * v = SregSize
    BY WeightType
  <2>. QED
    BY <1>1, <2>1, <2>2
<1>5. PICK x \in Nat : x = c \div w
  BY FirstBits
<1>6. PICK y \in Nat : y = c \div v /\ y = 2 * x + b /\ y < d
  <2>1. c \div v < d /\ c \div v \in Nat
    BY <1>4, FirstBits
  <2>2. c \div v = 2 * x + b
    BY <1>2, <1>5, OneMoreBit
  <2>. QED
    BY <2>1, <2>2
<1>7. PICK q \in Nat, r \in Nat : q = g \div w /\ r = g % w /\ r < w /\ g = w * q + r
  BY <1>1, Remainder, Zenon
<1>8. PICK k \in Nat, s \in Nat : k = r \div v /\ s = r % v /\ s < v /\ r = v * k + s
  BY <1>3, <1>7, Remainder, Zenon
<1>9. g % v = s
  <2>1. PICK m \in Nat : m = 2 * q + k
    OBVIOUS
  <2>2. v * m = (2 * v) * q + v * k
    BY <1>3, <2>1
  <2>3. g = v * m + s
    <3>1. w * q = (2 * v) * q /\ v * k \in Nat /\ (2 * v) * q \in Nat
      BY <1>2, <1>3
    <3>. QED
      BY <1>7, <1>8, <2>2, <3>1
  <2>4. (v * m + s) % v = s
    BY <1>3, <1>8, ModUnique
  <2>. QED
    BY <2>3, <2>4
<1>10. s * d + y \in Nat /\ s * d + y < SregSize
  BY <1>3, <1>4, <1>6, <1>8, Below
<1>11. 2 * (r * p + x) + b = SregSize * k + (s * d + y)
  <2>1. r * d = (v * k) * d + s * d
    BY <1>3, <1>4, <1>8
  <2>2. (v * k) * d = (d * v) * k
    BY <1>3, <1>4
  <2>3. r * d = 2 * (r * p)
    BY <1>4
  <2>4. r * p \in Nat /\ s * d \in Nat /\ SregSize * k \in Nat
    BY <1>1, <1>4, TapStreamAssumption
  <2>5. 2 * (r * p) = SregSize * k + s * d
    BY <1>4, <2>1, <2>2, <2>3
  <2>. QED
    BY <1>6, <2>4, <2>5
<1>12. PICK z \in Nat : z = s * d + y /\ z < SregSize
  BY <1>10
<1>13. (SregSize * k + z) % SregSize = z
  BY <1>12, ModUnique, TapStreamAssumption
<1>14. (2 * (r * p + x) + b) % SregSize = s * d + y
  BY <1>11, <1>12, <1>13
<1>. QED
  BY <1>1, <1>2, <1>4, <1>5, <1>6, <1>7, <1>9, <1>14

LEMMA CutStep ==
  ASSUME NEW c \in Nat, NEW w \in Weights, w > 1,
         NEW p \in Weights, p < SregSize \div w,
         NEW b \in {0, 1}, b = (c \div (w \div 2)) % 2
  PROVE  /\ 2 * p \in Weights /\ 2 * p < SregSize \div (w \div 2)
         /\ (2 * ((c \div w) % p) + b) % SregSize = (c \div (w \div 2)) % (2 * p)
<1>1. p \in Nat \ {0} /\ SregSize \in Nat \ {0} /\ SregSize \div w \in Nat
  BY WeightType, TapStreamAssumption
<1>2. SregSize \div (w \div 2) = 2 * (SregSize \div w) /\ SregSize \div (w \div 2) <= SregSize
  <2>1. SregSize \div (w \div 2) = 2 * (SregSize \div w)
    BY WeightHalved
  <2>2. PICK v \in Nat \ {0}, d \in Nat \ {0} :
          v = w \div 2 /\ d = SregSize \div v /\ d * v = SregSize
    BY WeightHalved, WeightType
  <2>3. d <= SregSize
    BY <1>1, <2>2
  <2>. QED
    BY <2>1, <2>2, <2>3
<1>3. 2 * p < SregSize \div (w \div 2) /\ 2 * p < SregSize
  BY <1>1, <1>2
<1>4. 2 * p \in Weights
  BY <1>1, <1>3, WeightDoubled
<1>5. PICK x \in Nat, y \in Nat : x = c \div w /\ y = c \div (w \div 2) /\ y = 2 * x + b
  BY OneMoreBit
<1>6. PICK q \in Nat, h \in Nat : q = x \div p /\ h = x % p /\ h < p /\ x = p * q + h
  BY <1>1, <1>5, Remainder, Zenon
<1>7. PICK d \in Nat \ {0}, z \in Nat : d = 2 * p /\ z = 2 * h + b /\ z < d
  <2>1. 2 * p \in Nat \ {0} /\ 2 * h + b \in Nat /\ 2 * h + b < 2 * p
    BY <1>1, <1>6
  <2>. QED
    BY <2>1
<1>8. y = d * q + z
  <2>1. d * q = 2 * (p * q) /\ p * q \in Nat
    BY <1>1, <1>7
  <2>. QED
    BY <1>5, <1>6, <1>7, <2>1
<1>9. y % d = z
  <2>1. z < d
    BY <1>7
  <2>2. (d * q + z) % d = z
    BY <2>1, ModUnique
  <2>. QED
    BY <1>8, <2>2
<1>10. z % SregSize = z
  <2>1. (SregSize * 0 + z) % SregSize = z /\ SregSize * 0 + z = z
    BY <1>1, <1>3, <1>7, ModUnique
  <2>. QED
    BY <2>1
<1>. QED
  BY <1>3, <1>4, <1>5, <1>6, <1>7, <1>9, <1>10

Registers == 0 .. SregSize - 1

LEMMA OntoNothing ==
  ASSUME NEW g \in Registers, NEW c \in Registers
  PROVE  (g % SregSize) * (SregSize \div SregSize) + c \div SregSize = g
<1>1. SregSize \in Nat \ {0} /\ SregSize \div SregSize = 1
  BY WeightEnds, TapStreamAssumption
<1>2. g \in Nat /\ g < SregSize /\ c \in Nat /\ c < SregSize
  BY <1>1 DEF Registers
<1>3. g % SregSize = g
  <2>1. (SregSize * 0 + g) % SregSize = g /\ SregSize * 0 + g = g
    BY <1>1, <1>2, ModUnique
  <2>. QED
    BY <2>1
<1>4. c \div SregSize = 0
  <2>1. (SregSize * 0 + c) \div SregSize = 0 /\ SregSize * 0 + c = c
    BY <1>1, <1>2, QuotientUnique
  <2>. QED
    BY <2>1
<1>. QED
  BY <1>1, <1>2, <1>3, <1>4

LEMMA SentType ==
  ASSUME NEW G \in SUBSET Registers, NEW c \in Registers, NEW w \in Weights
  PROVE  Sent(G, c, w) \subseteq Registers
<1>1. c \in Nat /\ c < SregSize /\ SregSize \in Nat
  BY TapStreamAssumption DEF Registers
<1>2. Onto(G, c, w) \subseteq Registers
  <2>. SUFFICES ASSUME NEW g \in G
                PROVE  (g % w) * (SregSize \div w) + c \div w \in Registers
    BY DEF Onto
  <2>1. g \in Nat
    BY DEF Registers
  <2>. QED
    BY <1>1, <2>1, OntoType DEF Registers
<1>3. Cut(c, w) \subseteq Registers
  <2>. SUFFICES ASSUME NEW p \in Weights
                PROVE  (c \div w) % p \in Registers
    BY DEF Cut
  <2>1. p \in Nat \ {0} /\ p <= SregSize /\ c \div w \in Nat
    BY <1>1, WeightType, FirstBits
  <2>2. PICK r \in Nat : r = (c \div w) % p /\ r < p
    BY <2>1, Remainder
  <2>. QED
    BY <1>1, <2>1, <2>2 DEF Registers
<1>. QED
  BY <1>2, <1>3 DEF Sent

\* A bit of the number shifted in.
LEMMA SentStep ==
  ASSUME NEW G \in SUBSET Registers, NEW c \in Registers, NEW w \in Weights, w > 1,
         NEW b \in {0, 1}, b = (c \div (w \div 2)) % 2, NEW r
  PROVE  /\ r \in Onto(G, c, w) => (2 * r + b) % SregSize \in Onto(G, c, w \div 2)
         /\ r \in Sent(G, c, w) => (2 * r + b) % SregSize \in Sent(G, c, w \div 2)
<1>1. c \in Nat /\ c < SregSize /\ SregSize \in Nat
  BY TapStreamAssumption DEF Registers
<1>2. ASSUME r \in Onto(G, c, w)
      PROVE  (2 * r + b) % SregSize \in Onto(G, c, w \div 2)
  <2>1. PICK g \in G : r = (g % w) * (SregSize \div w) + c \div w
    BY <1>2 DEF Onto
  <2>2. g \in Nat
    BY DEF Registers
  <2>3. (2 * r + b) % SregSize
          = (g % (w \div 2)) * (SregSize \div (w \div 2)) + c \div (w \div 2)
    BY <1>1, <2>1, <2>2, OntoStep
  <2>. QED
    BY <2>3 DEF Onto
<1>3. ASSUME r \in Cut(c, w)
      PROVE  (2 * r + b) % SregSize \in Cut(c, w \div 2)
  <2>1. PICK p \in Weights : p < SregSize \div w /\ r = (c \div w) % p
    BY <1>3 DEF Cut
  <2>2. /\ 2 * p \in Weights /\ 2 * p < SregSize \div (w \div 2)
        /\ (2 * r + b) % SregSize = (c \div (w \div 2)) % (2 * p)
    BY <1>1, <2>1, CutStep
  <2>. QED
    BY <2>2 DEF Cut
<1>. QED
  BY <1>2, <1>3 DEF Sent

LEMMA ZerosType ==
  ASSUME NEW G \in SUBSET Registers
  PROVE  Zeros(G) \in SUBSET Registers /\ G \subseteq Zeros(G)
<1>1. 0 \in Registers
  BY TapStreamAssumption DEF Registers
<1>2. Zeros(G) \subseteq Registers
  BY <1>1, SentType DEF Zeros, Sent
<1>3. ASSUME NEW g \in G PROVE g \in Zeros(G)
  <2>1. (g % SregSize) * (SregSize \div SregSize) + 0 \div SregSize = g
    BY <1>1, OntoNothing
  <2>2. g \in Onto(G, 0, SregSize)
    BY <2>1 DEF Onto
  <2>. QED
    BY <2>2, WeightEnds DEF Zeros
<1>. QED
  BY <1>2, <1>3

LEMMA ZerosStep ==
  ASSUME NEW G \in SUBSET Registers, NEW r \in Zeros(G)
  PROVE  (2 * r + 0) % SregSize \in Zeros(G)
<1>1. 0 \in Registers /\ SregSize \in Nat \ {0}
  BY TapStreamAssumption DEF Registers
<1>2. PICK w \in Weights : r \in Onto(G, 0, w)
  BY DEF Zeros
<1>3. w \in Nat \ {0}
  BY WeightType
<1>4. CASE w > 1
  <2>1. PICK v \in Weights : v = w \div 2
    BY <1>4, WeightHalved
  <2>2. v \in Nat \ {0}
    BY WeightType
  <2>3. 0 \div v = 0
    <3>1. (v * 0 + 0) \div v = 0 /\ v * 0 + 0 = 0
      BY <2>2, QuotientUnique
    <3>. QED
      BY <3>1
  <2>4. 0 = (0 \div (w \div 2)) % 2
    <3>1. 0 % 2 = 0
      OBVIOUS
    <3>. QED
      BY <2>1, <2>3, <3>1, Zenon
  <2>5. (2 * r + 0) % SregSize \in Onto(G, 0, w \div 2)
    BY <1>1, <1>2, <1>4, <2>4, SentStep
  <2>. QED
    BY <2>1, <2>5 DEF Zeros
<1>5. CASE w = 1
  <2>1. PICK g \in G : r = (g % 1) * (SregSize \div 1) + 0 \div 1
    BY <1>2, <1>5 DEF Onto
  <2>2. r = 0
    BY <1>1, <2>1, WeightEnds DEF Registers
  <2>3. (2 * r + 0) % SregSize = r
    <3>1. (SregSize * 0 + 0) % SregSize = 0 /\ SregSize * 0 + 0 = 0
      BY <1>1, ModUnique
    <3>. QED
      BY <2>2, <3>1
  <2>. QED
    BY <2>3
<1>. QED
  BY <1>3, <1>4, <1>5

LEMMA Numbers ==
  /\ MagicLoader \in Registers /\ MagicCommand \in Registers /\ 0 \in Registers
  /\ SregSize \in Nat \ {0, 1} /\ MagicLoader # MagicCommand
BY TapStreamAssumption DEF Registers

\* Behind its last bit a number is the register.
LEMMA OntoWhole ==
  ASSUME NEW G \in SUBSET Registers, NEW c \in Registers, NEW r \in Onto(G, c, 1)
  PROVE  r = c
<1>1. PICK g \in G : r = (g % 1) * (SregSize \div 1) + c \div 1
  BY DEF Onto
<1>2. g % 1 = 0 /\ c \div 1 = c
  BY DEF Registers
<1>. QED
  BY <1>1, <1>2, Numbers, WeightEnds DEF Registers

LEMMA KeptType ==
  /\ Kept \in SUBSET Registers
  /\ \A G \in SUBSET Registers : Sent(G, MagicCommand, 1) \subseteq Kept
  /\ 0 \in Kept /\ \A w \in Weights : 0 \in Sent(Kept, MagicCommand, w)
<1>1. Sent({0}, MagicCommand, 1) \in SUBSET Registers
  BY Numbers, WeightEnds, SentType
<1>2. Kept \in SUBSET Registers /\ Sent({0}, MagicCommand, 1) \subseteq Kept
  BY <1>1, ZerosType DEF Kept
<1>3. MagicCommand \in Onto({0}, MagicCommand, 1)
  <2>1. PICK r : r = (0 % 1) * (SregSize \div 1) + MagicCommand \div 1
    OBVIOUS
  <2>2. r \in Onto({0}, MagicCommand, 1)
    BY <2>1 DEF Onto
  <2>. QED
    BY <2>2, Numbers, OntoWhole
<1>4. ASSUME NEW G \in SUBSET Registers
      PROVE  Sent(G, MagicCommand, 1) \subseteq Kept
  BY <1>2, <1>3, Numbers, OntoWhole DEF Sent
<1>5. ASSUME NEW w \in Weights, w # SregSize, NEW c \in Registers
      PROVE  0 \in Cut(c, w)
  <2>1. PICK p \in Nat \ {0} : p = SregSize \div w /\ p * w = SregSize /\ w \in Nat \ {0}
    BY WeightType
  <2>2. p # 1
    BY <1>5, <2>1
  <2>3. 1 < SregSize \div w
    BY <2>1, <2>2
  <2>4. (c \div w) % 1 = 0
    <3>1. c \div w \in Nat
      BY FirstBits, Numbers DEF Registers
    <3>. QED
      BY <3>1
  <2>. QED
    BY <2>3, <2>4, WeightEnds DEF Cut
<1>6. 0 \in Kept
  BY <1>2, <1>5, Numbers, WeightEnds DEF Sent
<1>7. 0 \in Onto(Kept, MagicCommand, SregSize)
  BY <1>6, Numbers, OntoNothing DEF Onto
<1>. QED
  BY <1>2, <1>4, <1>5, <1>6, <1>7, Numbers DEF Sent

LEMMA LeftType ==
  /\ Kept \subseteq Left /\ Left \in SUBSET Registers
  /\ \A w \in Weights : \A t \in Sent(Kept, MagicCommand, w) :
       t \in Left /\ \A b \in {0, 1} : (2 * t + b) % SregSize \in Left
  /\ \A r \in Kept : (2 * r + 0) % SregSize \in Kept
  /\ \A r \in Left : (2 * r + 0) % SregSize \in Left
<1> DEFINE Ones == {(2 * t + 1) % SregSize : t \in Torn}
<1>1. Torn \in SUBSET Registers
  BY KeptType, Numbers, SentType DEF Torn
<1>2. Ones \in SUBSET Registers
  <2>. SUFFICES ASSUME NEW t \in Torn PROVE (2 * t + 1) % SregSize \in Registers
    OBVIOUS
  <2>1. PICK n \in Nat : n = 2 * t + 1
    BY <1>1 DEF Registers
  <2>2. PICK r \in Nat : r = n % SregSize /\ r < SregSize
    BY Numbers, Remainder
  <2>. QED
    BY <2>1, <2>2, Numbers DEF Registers
<1>3. Left = Zeros(Torn \cup Ones)
  BY DEF Left
<1>. HIDE DEF Ones
<1>4. Left \in SUBSET Registers /\ Torn \subseteq Left /\ Ones \subseteq Left
  BY <1>1, <1>2, <1>3, ZerosType
<1>5. \A r \in Left : (2 * r + 0) % SregSize \in Left
  BY <1>1, <1>2, <1>3, ZerosStep
<1>6. \A r \in Kept : (2 * r + 0) % SregSize \in Kept
  <2>1. Sent({0}, MagicCommand, 1) \in SUBSET Registers
    BY Numbers, WeightEnds, SentType
  <2>. QED
    BY <2>1, ZerosStep DEF Kept
<1>7. Kept \subseteq Torn
  <2>1. ASSUME NEW g \in Kept PROVE g \in Sent(Kept, MagicCommand, SregSize)
    BY KeptType, Numbers, OntoNothing DEF Sent, Onto
  <2>. QED
    BY <2>1, Numbers, WeightEnds DEF Torn
<1>8. ASSUME NEW w \in Weights, NEW t \in Sent(Kept, MagicCommand, w)
      PROVE  t \in Torn
  <2>1. CASE w = 1
    BY <1>7, <1>8, <2>1, KeptType
  <2>2. CASE w # 1
    BY <1>8, <2>2 DEF Torn
  <2>. QED
    BY <2>1, <2>2
<1>9. ASSUME NEW t \in Torn, NEW b \in {0, 1}
      PROVE  (2 * t + b) % SregSize \in Left
  <2>1. CASE b = 0
    BY <1>4, <1>5, <2>1
  <2>2. CASE b = 1
    BY <1>4, <2>2 DEF Ones
  <2>. QED
    BY <2>1, <2>2
<1>. QED
  BY <1>4, <1>5, <1>6, <1>7, <1>8, <1>9

LEMMA SentMore ==
  ASSUME NEW G, NEW H, G \subseteq H, NEW c, NEW w
  PROVE  Onto(G, c, w) \subseteq Onto(H, c, w) /\ Sent(G, c, w) \subseteq Sent(H, c, w)
BY DEF Onto, Sent

-----------------------------------------------------------------------------
\* What is in the register, wherever the C64 stands.

Base == IF resets = 0 THEN Kept ELSE Left

Clocking == c64 \in {"motorOn", "motorOff", "last"}

\* Where a number may be sent to the end, and the way from there to the fast loader.
Listening == Streaming \cup {"rewind"}
ToLoader == Listening \cup {"switch", "loaderEnter", "loader"}

\* Between two numbers.  A loader cut short by a reset does not count: the C64 needs
\* the rest of the round to boot, and the next one begins with an empty register.
Resting ==
  /\ resets \in {0, 1}
  /\ c64 \in {"idle", "waitLow"} /\ pc \notin Turn => shift_reg \in Base
  /\ c64 = "boot" /\ pc \in Streaming /\ mode = "STREAM" /\ heard < RoundLen - Trail =>
       shift_reg \in Base

\* In and behind a call of tapecart_cmdmode.
CommandBits ==
  /\ (Calling \/ c64 = "ok") /\ pc \notin Turn =>
       shift_reg \in Sent(Base, MagicCommand, weight)
  /\ c64 = "ok" => ~write /\ weight = 1

\* In and behind the handshake of the loader.
LoaderBits ==
  code = MagicLoader /\ Clocking =>
    /\ pc \in ToLoader /\ (pc = "loader" => ~motor)
    /\ weight > 1 => /\ mode = "STREAM" /\ pc \in Listening
                     /\ pc \in Streaming => heard >= RoundLen - Trail
    /\ weight = 1 => mode = "LOADER"
    /\ shift_reg \in Onto(Base, MagicLoader, weight)

Loading == c64 = "loading" => mode = "LOADER" /\ ~motor /\ pc \in ToLoader

BitsInv == Resting /\ CommandBits /\ LoaderBits /\ Loading

LEMMA BaseType ==
  ASSUME resets \in {0, 1}
  PROVE  /\ Base \in SUBSET Registers /\ Kept \subseteq Base /\ Base \subseteq Left
         /\ \A r \in Base : (2 * r + 0) % SregSize \in Base
         /\ Sent(Base, MagicCommand, 1) \subseteq Base
<1>1. Base \in SUBSET Registers /\ Kept \subseteq Base /\ Base \subseteq Left
  BY KeptType, LeftType DEF Base
<1>2. \A r \in Base : (2 * r + 0) % SregSize \in Base
  BY LeftType DEF Base
<1>. QED
  BY <1>1, <1>2, KeptType

LEMMA InitBits == SwitchInit => BitsInv
<1>. SUFFICES ASSUME SwitchInit PROVE BitsInv
  OBVIOUS
<1>1. c64 = "boot" /\ resets = 0 /\ pc = "boot"
  BY DEF SwitchInit, Init
<1>. QED
  BY <1>1 DEF BitsInv, Resting, CommandBits, LoaderBits, Loading, Calling, Clocking,
     Streaming

\* What main() does to it.
LEMMA MainBits ==
  ASSUME TypeOK, DeviceStep
  PROVE  /\ UNCHANGED <<c64, code, weight, motor, write>>
         /\ pc = "clear" => pc' = "put" /\ shift_reg' = 0 /\ resets' = 0 /\ mode' = mode
         /\ pc # "clear" => shift_reg' = shift_reg /\ resets' = resets
         /\ pc # "clear" /\ pc' \notin Turn => pc \notin Turn
         /\ pc # "top" => mode' = mode
         /\ pc # "clear" /\ pc' \in Streaming => pc \in Streaming /\ heard' = heard
<1>1. MainStep /\ UNCHANGED <<c64, code, weight>>
      /\ IF pc = "clear" THEN resets' = 0 /\ taped' = 0 ELSE UNCHANGED <<resets, taped>>
  BY DEF DeviceStep
<1>2. pc # "clear" => resets' = resets
  BY <1>1
<1>3. pc # "top" => heard' = heard
  BY <1>1 DEF MainStep, PowerUp, Top, ClearShiftReg, PutWait, PutStore, Drain, Fill,
     Rewind, Switch, LoaderEnter, CommandEnter, CommandWrite, CommandOn, CommandPulses,
     CommandOff, Resume, CheckMotor, TurnOn
<1>. QED
  BY <1>1, <1>2, <1>3, MainMoves DEF Turn, Streaming

LEMMA DeviceBits ==
  ASSUME TypeOK, SwitchInv, BitsInv, DeviceStep
  PROVE  BitsInv'
<1>1. /\ UNCHANGED <<c64, code, weight, motor, write>>
      /\ pc = "clear" => pc' = "put" /\ shift_reg' = 0 /\ resets' = 0 /\ mode' = mode
      /\ pc # "clear" => shift_reg' = shift_reg /\ resets' = resets
      /\ pc # "clear" /\ pc' \notin Turn => pc \notin Turn
      /\ pc # "top" => mode' = mode
      /\ pc # "clear" /\ pc' \in Streaming => pc \in Streaming /\ heard' = heard
  BY MainBits
<1>2. Streaming \cap Turn = {} /\ ToLoader \cap Turn = {}
  BY DEF Streaming, Turn, ToLoader, Listening
<1>3. weight \in Weights
  BY WeightIs DEF SwitchInv, SwitchType
<1>4. Calling' <=> Calling
  BY <1>1 DEF Calling
<1>5. pc # "clear" => Base' = Base
  BY <1>1 DEF Base
<1>6. pc = "clear" => shift_reg' \in Base' /\ shift_reg' \in Sent(Base, MagicCommand, weight)'
  <2>. SUFFICES ASSUME pc = "clear"
                PROVE  shift_reg' \in Base' /\ shift_reg' \in Sent(Base', MagicCommand, weight')
    OBVIOUS
  <2>1. Base' = Kept /\ weight' = weight /\ shift_reg' = 0
    BY <1>1 DEF Base
  <2>. QED
    BY <1>3, <2>1, KeptType
<1>7. Resting'
  BY <1>1, <1>2, <1>5, <1>6 DEF BitsInv, Resting, Turn
<1>8. CommandBits'
  <2>1. pc' \notin Turn /\ pc # "clear" =>
          UNCHANGED <<shift_reg, weight>> /\ Base' = Base /\ pc \notin Turn
    BY <1>1, <1>5
  <2>. QED
    BY <1>1, <1>4, <1>6, <2>1 DEF BitsInv, CommandBits
<1>9. LoaderBits'
  <2>. SUFFICES ASSUME code = MagicLoader, Clocking
                PROVE  LoaderBits'
    BY <1>1 DEF LoaderBits, Clocking
  <2>1. /\ pc \in ToLoader /\ (pc = "loader" => ~motor) /\ pc # "clear" /\ pc # "top"
        /\ weight > 1 => /\ mode = "STREAM" /\ pc \in Listening
                         /\ pc \in Streaming => heard >= RoundLen - Trail
        /\ weight = 1 => mode = "LOADER"
        /\ shift_reg \in Onto(Base, MagicLoader, weight)
    BY <1>2 DEF BitsInv, LoaderBits, Turn
  <2>2. weight > 1 \/ weight = 1
    BY DEF SwitchInv, SwitchType
  <2>3. /\ MainStep
        /\ pc = "rewind" /\ mode = "STREAM" => ~InHandshake
        /\ pc = "loaderEnter" => c64 # "motorOff"
    BY DEF DeviceStep
  <2>4. pc = "loaderEnter" => ~motor
    BY <2>3 DEF SwitchInv, Levels, Clocking
  <2>5. InHandshake
    BY DEF InHandshake, Clocking
  <2>6. /\ pc' \in ToLoader /\ (pc' = "loader" => ~motor)
        /\ weight > 1 => pc' \in Listening
    BY <2>1, <2>2, <2>3, <2>4, <2>5, MainMoves DEF ToLoader, Listening, Streaming
  <2>7. shift_reg' \in Onto(Base', MagicLoader, weight')
    BY <1>1, <1>5, <2>1
  <2>8. pc' \in Streaming => pc \in Streaming /\ heard' = heard
    BY <1>1, <2>1
  <2>. QED
    BY <1>1, <2>1, <2>6, <2>7, <2>8 DEF LoaderBits
<1>10. Loading'
  <2>. SUFFICES ASSUME c64 = "loading" PROVE Loading'
    BY <1>1 DEF Loading
  <2>1. mode = "LOADER" /\ ~motor /\ pc \in ToLoader
    BY DEF BitsInv, Loading
  <2>2. pc' \in ToLoader
    BY <2>1, MainMoves DEF ToLoader, Listening, Streaming, DeviceStep
  <2>. QED
    BY <1>1, <1>2, <2>1, <2>2 DEF Loading, Turn
<1>. QED
  BY <1>7, <1>8, <1>9, <1>10 DEF BitsInv

LEMMA PulseBits ==
  ASSUME SInv, BitsInv, PulseSeen
  PROVE  BitsInv'
<1>1. /\ UNCHANGED <<c64, code, weight, resets, mode, shift_reg, motor, write, pc>>
      /\ PulseInterrupt
  BY DEF PulseSeen, PulseInterrupt, port
<1>2. pc \in Streaming /\ mode = "STREAM" => heard' >= heard
  <2>. SUFFICES ASSUME pc \in Streaming, mode = "STREAM" PROVE heard' >= heard
    OBVIOUS
  <2>1. \/ tap_buffer[readidx] = heard + 1
        \/ tap_buffer[readidx] \in {Short, Unset} /\ heard = 0
    BY <1>1, RingReads
  <2>2. heard' = IF tap_buffer[readidx] > 0 THEN tap_buffer[readidx] ELSE heard
    BY <1>1 DEF PulseInterrupt
  <2>3. heard \in Nat
    BY PutType DEF SInv, TInv
  <2>. QED
    BY <2>1, <2>2, <2>3, RingSizes
<1>3. heard \in Nat /\ heard' \in Nat /\ RoundLen - Trail \in Int
  <2>1. heard \in Nat
    BY PutType DEF SInv, TInv
  <2>2. TypeOK'
    BY <1>1, StepPulse DEF SInv, TInv
  <2>3. heard' \in 0 .. RoundLen
    BY <2>2 DEF TypeOK
  <2>. QED
    BY <2>1, <2>3, Sizes, TapStreamAssumption
<1>4. Base' = Base /\ (Calling' <=> Calling) /\ (Clocking' <=> Clocking)
  BY <1>1 DEF Base, Calling, Clocking
<1>5. Resting'
  BY <1>1, <1>2, <1>3, <1>4 DEF BitsInv, Resting
<1>6. CommandBits'
  BY <1>1, <1>4 DEF BitsInv, CommandBits
<1>7. LoaderBits' /\ Loading'
  BY <1>1, <1>2, <1>3, <1>4 DEF BitsInv, LoaderBits, Loading
<1>. QED
  BY <1>5, <1>6, <1>7 DEF BitsInv

LEMMA ReturnBits ==
  ASSUME TypeOK, SwitchInv, BitsInv, ModeReturns \/ LoadEnds
  PROVE  BitsInv'
<1>1. /\ UNCHANGED <<code, weight, resets, mode, shift_reg, motor, write>>
      /\ pc \in {"loader", "command"} /\ pc' = "resume"
  BY DEF ModeReturns, LoadEnds, LoaderReturns, CommandReturns, Move, lines, port, c64vars
<1>2. \/ motor /\ c64' = c64
      \/ c64 = "loading" /\ c64' = "idle"
  BY DEF ModeReturns, LoadEnds, c64vars
<1>3. pc' \in Turn /\ pc' \notin Streaming
  BY <1>1 DEF Turn, Streaming
<1>4. Resting'
  BY <1>1, <1>3 DEF BitsInv, Resting
<1>5. CommandBits'
  BY <1>1, <1>2, <1>3 DEF BitsInv, CommandBits
<1>6. LoaderBits'
  <2>. SUFFICES ASSUME LoaderBits, code = MagicLoader, Clocking, motor PROVE FALSE
    BY <1>1, <1>2 DEF BitsInv, LoaderBits, Clocking
  <2>. QED
    BY <1>1 DEF LoaderBits, ToLoader, Listening, Streaming
<1>7. Loading'
  BY <1>1, <1>2 DEF BitsInv, Loading
<1>. QED
  BY <1>4, <1>5, <1>6, <1>7 DEF BitsInv

\* The motor line turned on, and not.
LEMMA EdgeSets ==
  ASSUME TypeOK, NEW m \in BOOLEAN, NEW w \in BOOLEAN, SetLines(m, w)
  PROVE  /\ motor' = m /\ write' = w /\ UNCHANGED <<pc, heard>>
         /\ (m => motor) => UNCHANGED <<shift_reg, mode>>
         /\ m /\ ~motor =>
              \E b \in {0, 1} :
                /\ b = IF w THEN 1 ELSE 0
                /\ shift_reg' = (2 * shift_reg + b) % SregSize
                /\ mode' = CASE shift_reg' = MagicLoader  -> "LOADER"
                             [] shift_reg' = MagicCommand -> "COMMAND"
                             [] OTHER -> mode
         /\ mode' = "STREAM" => mode = "STREAM"
<1>1. /\ motor' = m /\ write' = w /\ UNCHANGED <<pc, heard>>
      /\ IF m # motor THEN MotorEdge(m, w) ELSE UNCHANGED <<timer, shift_reg, mode>>
  BY DEF SetLines
<1>2. (m => motor) => UNCHANGED <<shift_reg, mode>>
  BY <1>1 DEF MotorEdge, TypeOK
<1>3. ASSUME m, ~motor
      PROVE  \E b \in {0, 1} :
                /\ b = IF w THEN 1 ELSE 0
                /\ shift_reg' = (2 * shift_reg + b) % SregSize
                /\ mode' = CASE shift_reg' = MagicLoader  -> "LOADER"
                             [] shift_reg' = MagicCommand -> "COMMAND"
                             [] OTHER -> mode
  BY <1>1, <1>3 DEF MotorEdge, Shift
<1>4. mode' = "STREAM" => mode = "STREAM"
  <2>1. CASE m => motor
    BY <1>2, <2>1
  <2>2. CASE m /\ ~motor
    BY <1>3, <2>2, Numbers
  <2>. QED
    BY <2>1, <2>2
<1>. QED
  BY <1>1, <1>2, <1>3, <1>4

\* The C64 outside a handshake.
LEMMA IdleBits ==
  ASSUME TypeOK, SwitchInv, BitsInv, Kernal \/ CmdModeStart \/ StreamMode
  PROVE  BitsInv'
<1>1. /\ c64 \in {"idle", "ok"} /\ c64' \in {"idle", "waitLow"} /\ UNCHANGED <<code, resets>>
      /\ \E m \in BOOLEAN : SetLines(m, FALSE)
  <2>1. (~motor) \in BOOLEAN /\ TRUE \in BOOLEAN
    OBVIOUS
  <2>2. StreamMode => SetLines(TRUE, FALSE)
    <3>1. c64 = "ok" => write = FALSE
      BY DEF BitsInv, CommandBits, TypeOK
    <3>. QED
      BY <3>1 DEF StreamMode, Program
  <2>3. \E m \in BOOLEAN : SetLines(m, FALSE)
    BY <2>1, <2>2 DEF Kernal, CmdModeStart, Program
  <2>. QED
    BY <2>3 DEF Kernal, CmdModeStart, StreamMode, Program
<1>2. PICK m \in BOOLEAN : SetLines(m, FALSE)
  BY <1>1
<1>3. UNCHANGED <<pc, heard>>
  BY <1>2, EdgeSets
<1>4. resets \in {0, 1} /\ Base' = Base
  BY <1>1 DEF Base, BitsInv, Resting
<1>5. pc \notin Turn => shift_reg \in Base
  <2>1. c64 = "ok" /\ pc \notin Turn => shift_reg \in Sent(Base, MagicCommand, 1)
    BY DEF BitsInv, CommandBits
  <2>. QED
    BY <1>1, <1>4, <2>1, BaseType DEF BitsInv, Resting
<1>6. shift_reg' = shift_reg \/ shift_reg' = (2 * shift_reg + 0) % SregSize
  BY <1>2, EdgeSets
<1>7. pc' \notin Turn => shift_reg' \in Base'
  BY <1>3, <1>4, <1>5, <1>6, BaseType
<1>. QED
  BY <1>1, <1>4, <1>7 DEF BitsInv, Resting, CommandBits, LoaderBits, Loading, Calling, Clocking

\* What the C64 waits for, and when it no longer does.
LEMMA WaitBits ==
  ASSUME TypeOK, SwitchInv, BitsInv, CmdModeTimeout \/ CmdModeSenseHigh \/ CmdModeCount \/ Booted
  PROVE  BitsInv'
<1>1. UNCHANGED <<code, weight, resets, mode, shift_reg, motor, write, pc, heard>>
  BY DEF CmdModeTimeout, CmdModeSenseHigh, CmdModeCount, Booted, vars, port
<1>2. \/ c64 \in {"waitLow"} \cup Asked /\ c64' = "idle"
      \/ c64 \in Asked /\ c64' = "count"
      \/ /\ c64 = "boot" /\ c64' = "idle"
         /\ pc \in Streaming /\ mode = "STREAM" /\ heard < RoundLen - Trail
  BY DEF CmdModeTimeout, CmdModeSenseHigh, CmdModeCount, Booted, Asked
<1>3. resets \in {0, 1} /\ Base' = Base
  BY <1>1 DEF Base, BitsInv, Resting
<1>4. c64 \in Asked /\ pc \notin Turn =>
        shift_reg \in Sent(Base, MagicCommand, weight) /\ weight = 1
  BY DEF SwitchInv, Levels, BitsInv, CommandBits, Calling, Asked
<1>5. c64' = "idle" /\ pc \notin Turn => shift_reg \in Base
  BY <1>2, <1>3, <1>4, BaseType DEF BitsInv, Resting, Asked
<1>6. Resting'
  BY <1>1, <1>2, <1>3, <1>5 DEF Resting
<1>7. CommandBits'
  BY <1>1, <1>2, <1>3, <1>4 DEF CommandBits, Calling
<1>. QED
  BY <1>2, <1>6, <1>7 DEF BitsInv, LoaderBits, Loading, Clocking

\* A number begins.
LEMMA BeginBits ==
  ASSUME TypeOK, SwitchInv, BitsInv, CmdModeSenseLow \/ LoaderStart
  PROVE  BitsInv'
<1>1. /\ UNCHANGED <<resets, mode, shift_reg, motor, write, pc, heard>>
      /\ c64 \in {"waitLow", "idle"} /\ weight' = SregSize
      /\ \/ c64' = "settle" /\ code' = MagicCommand
         \/ /\ c64' = "motorOn" /\ code' = MagicLoader /\ pc \in Listening /\ mode = "STREAM"
            /\ heard >= RoundLen - Trail
  BY DEF CmdModeSenseLow, LoaderStart, vars, port, SwitchInv, Levels, Listening
<1>2. resets \in {0, 1} /\ Base' = Base /\ Base \in SUBSET Registers
  BY <1>1, BaseType DEF Base, BitsInv, Resting
<1>3. pc \notin Turn => shift_reg \in Base
  BY <1>1 DEF BitsInv, Resting
<1>4. ASSUME NEW c \in Registers, pc \notin Turn
      PROVE  shift_reg \in Onto(Base, c, SregSize)
  BY <1>2, <1>3, <1>4, OntoNothing DEF Onto
<1>5. Listening \cap Turn = {} /\ Listening \subseteq ToLoader /\ "loader" \notin Listening
  BY DEF Listening, Streaming, Turn, ToLoader
<1>6. SregSize # 1 /\ MagicLoader # MagicCommand
  BY Numbers
<1>7. Resting'
  BY <1>1, <1>2 DEF Resting
<1>8. CommandBits'
  BY <1>1, <1>2, <1>4, <1>6, Numbers DEF CommandBits, Calling, Sent
<1>9. LoaderBits' /\ Loading'
  BY <1>1, <1>2, <1>4, <1>5, <1>6, Numbers DEF LoaderBits, Loading, Clocking
<1>. QED
  BY <1>7, <1>8, <1>9 DEF BitsInv

\* The motor line turned off, and the lines set behind the last bit.
LEMMA OffBits ==
  ASSUME TypeOK, SwitchInv, BitsInv,
         CmdModeMotorOff \/ SendBitDone \/ CmdModeAsk \/ CmdModeDone \/ LoaderDone
  PROVE  BitsInv'
<1>1. /\ \E w \in BOOLEAN : SetLines(FALSE, w)
      /\ UNCHANGED <<code, resets, weight>>
  BY DEF CmdModeMotorOff, SendBitDone, CmdModeAsk, CmdModeDone, LoaderDone, Program, TypeOK
<1>2. motor' = FALSE /\ UNCHANGED <<pc, heard, shift_reg, mode>>
  BY <1>1, EdgeSets
<1>3. \/ c64 = "settle" /\ c64' = "motorOn"
      \/ c64 = "motorOff" /\ c64' \in {"motorOn", "last"}
      \/ c64 = "last" /\ code = MagicCommand /\ c64' = "waitHigh"
      \/ c64 = "count" /\ c64' = "ok" /\ write' = FALSE
      \/ c64 = "last" /\ code = MagicLoader /\ c64' = "loading"
  BY DEF CmdModeMotorOff, SendBitDone, CmdModeAsk, CmdModeDone, LoaderDone, Program, SetLines
<1>4. /\ c64 \in Asked \cup {"settle"} => code = MagicCommand
      /\ c64 \in Asked \cup {"last"} => weight = 1
  BY DEF SwitchInv, Levels, Asked
<1>5. Base' = Base
  BY <1>1 DEF Base
<1>6. Resting'
  BY <1>1, <1>3 DEF BitsInv, Resting
<1>7. CommandBits'
  BY <1>1, <1>2, <1>3, <1>4, <1>5 DEF BitsInv, CommandBits, Calling, Asked
<1>8. LoaderBits' /\ Loading'
  BY <1>1, <1>2, <1>3, <1>4, <1>5, Numbers DEF BitsInv, LoaderBits, Loading, Clocking, Asked
<1>. QED
  BY <1>6, <1>7, <1>8 DEF BitsInv

\* A reset: what it finds in the register, and the bit it may add.
LEMMA ResetBits ==
  ASSUME MaxResets <= 1, TypeOK, SwitchInv, BitsInv, Reset
  PROVE  BitsInv'
<1>1. /\ resets' = resets + 1 /\ resets < MaxResets
      /\ c64' = "boot" /\ \E w \in BOOLEAN : SetLines(TRUE, w)
  BY DEF Reset
<1>2. resets = 0 /\ resets' = 1
  BY <1>1, ModeSwitchAssumption DEF BitsInv, Resting
<1>3. /\ UNCHANGED <<pc, heard>> /\ (mode' = "STREAM" => mode = "STREAM")
      /\ \/ shift_reg' = shift_reg
         \/ \E b \in {0, 1} : shift_reg' = (2 * shift_reg + b) % SregSize
  BY <1>1, EdgeSets
<1>4. Base = Kept /\ Base' = Left
  BY <1>2 DEF Base
<1>5. weight \in Weights
  BY WeightIs DEF SwitchInv, SwitchType
<1>6. ASSUME pc \in Streaming, mode = "STREAM", heard < RoundLen - Trail
      PROVE  \E w \in Weights : shift_reg \in Sent(Kept, MagicCommand, w)
  <2>1. pc \notin Turn
    BY <1>6 DEF Streaming, Turn
  <2>2. CASE c64 \in {"idle", "waitLow", "boot"}
    <3>1. shift_reg \in Kept
      BY <1>4, <1>6, <2>1, <2>2 DEF BitsInv, Resting
    <3>2. shift_reg \in Onto(Kept, MagicCommand, SregSize)
      BY <3>1, KeptType, Numbers, OntoNothing DEF Onto
    <3>. QED
      BY <3>2, WeightEnds DEF Sent
  <2>3. CASE Calling \/ c64 = "ok"
    BY <1>4, <1>5, <2>1, <2>3 DEF BitsInv, CommandBits
  <2>4. CASE code = MagicLoader /\ Clocking
    <3>1. weight > 1 \/ weight = 1
      BY <1>5, WeightType
    <3>2. ~(heard >= RoundLen - Trail)
      BY <1>6, PutType, Sizes, TapStreamAssumption
    <3>. QED
      BY <1>6, <2>4, <3>1, <3>2 DEF BitsInv, LoaderBits
  <2>5. CASE c64 = "loading"
    BY <1>6, <2>5 DEF BitsInv, Loading
  <2>6. \/ c64 \in {"idle", "waitLow", "boot", "ok", "loading"}
        \/ Calling
        \/ code = MagicLoader /\ Clocking
    BY DEF SwitchInv, SwitchType, Levels, Asked, Calling, Clocking
  <2>. QED
    BY <2>2, <2>3, <2>4, <2>5, <2>6
<1>7. pc \in Streaming /\ mode = "STREAM" /\ heard < RoundLen - Trail => shift_reg' \in Left
  BY <1>3, <1>6, LeftType
<1>. QED
  BY <1>1, <1>2, <1>3, <1>4, <1>7 DEF BitsInv, Resting, CommandBits, LoaderBits, Loading,
     Calling, Clocking

\* A bit of the number: the register and the mode behind it.
LEMMA SendsBit ==
  ASSUME NumbersApart, TypeOK, SwitchInv, BitsInv, SendBit
  PROVE  /\ c64 = "motorOn" /\ c64' = "motorOff" /\ UNCHANGED <<code, resets, pc, heard>>
         /\ weight' = weight \div 2 /\ weight = 2 * weight' /\ weight' \in Weights
         /\ weight > 1 /\ pc \notin Turn /\ Base' = Base
         /\ code = MagicLoader => shift_reg' \in Onto(Base, MagicLoader, weight')
         /\ code = MagicCommand => shift_reg' \in Sent(Base, MagicCommand, weight')
         /\ weight' # 1 => mode' = mode
         /\ weight' = 1 /\ code = MagicLoader => mode' = "LOADER"
         /\ weight' = 1 /\ code = MagicCommand => mode' \in {mode, "COMMAND"}
<1>1. /\ c64 = "motorOn" /\ c64' = "motorOff" /\ UNCHANGED <<code, resets>>
      /\ weight' = weight \div 2 /\ SetLines(TRUE, NextBit) /\ NextBit \in BOOLEAN
      /\ ~(edged /\ pc \in Hasty)
  BY DEF SendBit, Program, NextBit, Tick
<1>2. /\ ~motor /\ weight > 1 /\ weight \in Weights /\ SwitchType
      /\ code \in Registers /\ code \in {MagicLoader, MagicCommand}
  BY <1>1, WeightIs, Numbers DEF SwitchInv, SwitchType, Levels
<1>3. PICK v \in Weights : v = weight \div 2 /\ weight = 2 * v
  BY <1>2, WeightHalved
<1>4. v \in Nat \ {0} /\ v # SregSize
  <2>1. v \in Nat \ {0} /\ weight <= SregSize
    BY <1>2, WeightType
  <2>. QED
    BY <1>3, <2>1, Numbers
<1>5. PICK b \in {0, 1} : b = (code \div v) % 2
        /\ Shift(NextBit) = (2 * shift_reg + b) % SregSize
  BY <1>2, <1>3, <1>4, BitShifted
<1>6. /\ UNCHANGED <<pc, heard>> /\ shift_reg' = (2 * shift_reg + b) % SregSize
      /\ mode' = CASE shift_reg' = MagicLoader  -> "LOADER"
                   [] shift_reg' = MagicCommand -> "COMMAND"
                   [] OTHER -> mode
  <2>1. PICK a \in {0, 1} :
          /\ a = IF NextBit THEN 1 ELSE 0
          /\ shift_reg' = (2 * shift_reg + a) % SregSize
          /\ mode' = CASE shift_reg' = MagicLoader  -> "LOADER"
                       [] shift_reg' = MagicCommand -> "COMMAND"
                       [] OTHER -> mode
    BY <1>1, <1>2, EdgeSets
  <2>2. UNCHANGED <<pc, heard>>
    BY <1>1, EdgeSets
  <2>3. Shift(NextBit) = (2 * shift_reg + a) % SregSize
    BY <2>1 DEF Shift
  <2>. QED
    BY <1>5, <2>1, <2>2, <2>3
<1>7. resets \in {0, 1} /\ Base' = Base /\ Base \in SUBSET Registers /\ Base \subseteq Left
  BY <1>1, BaseType DEF Base, BitsInv, Resting
<1>8. pc \notin Turn
  <2>1. CASE code = MagicCommand
    BY <1>1, <1>2, <2>1 DEF SwitchInv, Hurry, Calling, Turn, Hasty
  <2>2. CASE code = MagicLoader
    BY <1>1, <1>2, <2>2 DEF BitsInv, LoaderBits, Clocking, Listening, Streaming, Turn
  <2>. QED
    BY <1>2, <2>1, <2>2
<1>9. code = MagicLoader => shift_reg' \in Onto(Base, MagicLoader, v)
  <2>. SUFFICES ASSUME code = MagicLoader PROVE shift_reg' \in Onto(Base, MagicLoader, v)
    OBVIOUS
  <2>1. shift_reg \in Onto(Base, MagicLoader, weight)
    BY <1>1 DEF BitsInv, LoaderBits, Clocking
  <2>. QED
    BY <1>2, <1>3, <1>5, <1>6, <1>7, <2>1, SentStep
<1>10. code = MagicCommand => shift_reg' \in Sent(Base, MagicCommand, v)
  <2>. SUFFICES ASSUME code = MagicCommand PROVE shift_reg' \in Sent(Base, MagicCommand, v)
    OBVIOUS
  <2>1. shift_reg \in Sent(Base, MagicCommand, weight)
    BY <1>1, <1>8 DEF BitsInv, CommandBits, Calling
  <2>. QED
    BY <1>2, <1>3, <1>5, <1>6, <1>7, <2>1, SentStep
<1>11. ASSUME v # 1 PROVE shift_reg' \notin {MagicLoader, MagicCommand}
  <2>1. shift_reg' \in Sent(Base, code, v)
    BY <1>2, <1>9, <1>10 DEF Sent
  <2>2. shift_reg' \in Sent(Left, code, v)
    BY <1>7, <2>1, SentMore
  <2>. QED
    BY <1>2, <1>4, <1>11, <2>2 DEF NumbersApart
<1>12. ASSUME v = 1, code = MagicLoader PROVE mode' = "LOADER"
  <2>1. shift_reg' = MagicLoader
    BY <1>7, <1>9, <1>12, Numbers, OntoWhole
  <2>. QED
    BY <1>6, <2>1, Numbers
<1>13. ASSUME v = 1, code = MagicCommand PROVE mode' \in {mode, "COMMAND"}
  <2>1. shift_reg' \in Onto(Base, MagicCommand, 1) => shift_reg' = MagicCommand
    BY <1>7, Numbers, OntoWhole
  <2>2. shift_reg' # MagicLoader
    BY <1>10, <1>13, <2>1, Numbers DEF Sent, NumbersApart
  <2>. QED
    BY <1>6, <2>2
<1>14. weight' = v
  BY <1>1, <1>3
<1>15. v # 1 => mode' = mode
  BY <1>6, <1>11
<1>. QED
  BY <1>1, <1>2, <1>3, <1>6, <1>7, <1>8, <1>9, <1>10, <1>12, <1>13, <1>14, <1>15

LEMMA BitBits ==
  ASSUME NumbersApart, TypeOK, SwitchInv, BitsInv, SendBit
  PROVE  BitsInv'
<1>1. /\ c64 = "motorOn" /\ c64' = "motorOff" /\ UNCHANGED <<code, resets, pc, heard>>
      /\ weight > 1 /\ Base' = Base
      /\ code = MagicLoader => shift_reg' \in Onto(Base, MagicLoader, weight')
      /\ code = MagicCommand => shift_reg' \in Sent(Base, MagicCommand, weight')
      /\ weight' # 1 => mode' = mode
      /\ weight' = 1 /\ code = MagicLoader => mode' = "LOADER"
  BY SendsBit
<1>2. Resting'
  BY <1>1 DEF BitsInv, Resting
<1>3. CommandBits'
  BY <1>1 DEF CommandBits, Calling
<1>4. Listening \subseteq ToLoader /\ "loader" \notin Listening
  BY DEF Listening, Streaming, ToLoader
<1>5. LoaderBits'
  <2>. SUFFICES ASSUME code = MagicLoader PROVE LoaderBits'
    BY <1>1 DEF LoaderBits
  <2>1. /\ pc \in Listening /\ mode = "STREAM"
        /\ pc \in Streaming => heard >= RoundLen - Trail
    BY <1>1 DEF BitsInv, LoaderBits, Clocking
  <2>2. weight' > 1 => weight' # 1
    OBVIOUS
  <2>3. shift_reg' \in Onto(Base', MagicLoader, weight')
    BY <1>1
  <2>. QED
    BY <1>1, <1>4, <2>1, <2>2, <2>3 DEF LoaderBits
<1>6. Loading'
  BY <1>1 DEF Loading
<1>. QED
  BY <1>2, <1>3, <1>5, <1>6 DEF BitsInv

LEMMA BitsStep ==
  ASSUME NumbersApart, MaxResets <= 1, SInv, SwitchInv, BitsInv, [SwitchNext]_allvars
  PROVE  BitsInv'
<1>1. TypeOK
  BY DEF SInv, TInv
<1>2. CASE UNCHANGED allvars
  <2>1. UNCHANGED <<c64, code, weight, resets, mode, shift_reg, motor, write, pc, heard>>
    BY <1>2 DEF allvars, c64vars, vars, port
  <2>. QED
    BY <2>1 DEF BitsInv, Resting, CommandBits, LoaderBits, Loading, Calling, Clocking, Base
<1>3. CASE DeviceStep \/ PulseSeen \/ ModeReturns \/ LoadEnds
  BY <1>1, <1>3, DeviceBits, PulseBits, ReturnBits
<1>4. CASE Kernal \/ CmdModeStart \/ StreamMode \/ CmdModeTimeout \/ CmdModeSenseHigh
           \/ CmdModeCount \/ Booted \/ CmdModeSenseLow \/ LoaderStart \/ Reset
  BY <1>1, <1>4, IdleBits, WaitBits, BeginBits, ResetBits
<1>5. CASE CmdModeMotorOff \/ SendBit \/ SendBitDone \/ CmdModeAsk \/ CmdModeDone \/ LoaderDone
  BY <1>1, <1>5, OffBits, BitBits
<1>. QED
  BY <1>2, <1>3, <1>4, <1>5 DEF SwitchNext, C64Step

LEMMA BitsAlways ==
  ASSUME NumbersApart, MaxResets <= 1
  PROVE  SwitchSpec => [](SInv /\ SwitchInv /\ BitsInv)
<1>1. SInv /\ SwitchInv /\ BitsInv /\ [SwitchNext]_allvars => BitsInv'
  BY BitsStep
<1>. QED
  BY <1>1, InitBits, SwitchStreams, AlwaysSInv, SwitchAlwaysInv, PTL DEF SwitchSpec

(***************************************************************************)
(* When the loader has sent its number, the device is on its way to the    *)
(* fast loader, for every size of the register and any two numbers that    *)
(* NumbersApart holds of, any number of motor edges of the KERNAL and any  *)
(* number of rounds, with one reset of the C64 in each: MOTOR_HANDLER has  *)
(* the number whole, whatever its register held before.                    *)
(***************************************************************************)
THEOREM LoaderIsAlwaysHeard ==
  ASSUME NumbersApart, MaxResets <= 1
  PROVE  SwitchSpec => []LoaderIsHeard
<1>1. BitsInv => LoaderIsHeard
  BY DEF BitsInv, Loading, LoaderIsHeard
<1>. QED
  BY <1>1, BitsAlways, PTL

(***************************************************************************)
(* Under the same assumptions no bit but the last one of a number changes  *)
(* the mode in a handshake, and that one to the mode of the number: the    *)
(* register, in which nothing marks the beginning of a number, holds one   *)
(* of the values NumbersApart is about.                                    *)
(***************************************************************************)
THEOREM WholeCodesOnly ==
  ASSUME NumbersApart, MaxResets <= 1
  PROVE  SwitchSpec => OnlyWholeCodes
<1>1. SInv /\ SwitchInv /\ BitsInv /\ [SwitchNext]_allvars =>
        [(InHandshake /\ c64' # "boot" /\ mode' \notin {mode, "STREAM"}) =>
           /\ weight = 2 /\ weight' = 1
           /\ mode' = IF code = MagicLoader THEN "LOADER" ELSE "COMMAND"]_allvars
  <2>. SUFFICES ASSUME SInv, SwitchInv, BitsInv, SwitchNext,
                       InHandshake, c64' # "boot", mode' \notin {mode, "STREAM"}
                PROVE  /\ weight = 2 /\ weight' = 1
                       /\ mode' = IF code = MagicLoader THEN "LOADER" ELSE "COMMAND"
    OBVIOUS
  <2>1. TypeOK
    BY DEF SInv, TInv
  <2>2. SendBit
    <3>1. ~DeviceStep
      BY <2>1, MainMoves DEF DeviceStep
    <3>2. ~(PulseSeen \/ ModeReturns \/ LoadEnds \/ CmdModeSenseLow \/ LoaderStart)
      BY DEF PulseSeen, PulseInterrupt, ModeReturns, LoadEnds, LoaderReturns,
         CommandReturns, CmdModeSenseLow, LoaderStart, InHandshake, vars
    <3>3. ~(CmdModeMotorOff \/ SendBitDone \/ CmdModeAsk \/ CmdModeDone \/ LoaderDone)
      <4>. SUFFICES ASSUME NEW w \in BOOLEAN, SetLines(FALSE, w) PROVE FALSE
        BY <2>1 DEF CmdModeMotorOff, SendBitDone, CmdModeAsk, CmdModeDone, LoaderDone,
           Program, TypeOK
      <4>. QED
        BY <2>1, EdgeSets
    <3>4. ~(Kernal \/ CmdModeStart \/ StreamMode \/ CmdModeTimeout \/ CmdModeSenseHigh
              \/ CmdModeCount \/ Booted \/ Reset)
      BY DEF Kernal, CmdModeStart, StreamMode, CmdModeTimeout, CmdModeSenseHigh,
         CmdModeCount, Booted, Reset, Program, InHandshake
    <3>. QED
      BY <3>1, <3>2, <3>3, <3>4 DEF SwitchNext, C64Step
  <2>3. /\ weight = 2 * weight'
        /\ weight' # 1 => mode' = mode
        /\ weight' = 1 /\ code = MagicLoader => mode' = "LOADER"
        /\ weight' = 1 /\ code = MagicCommand => mode' \in {mode, "COMMAND"}
    BY <2>1, <2>2, SendsBit
  <2>4. code \in {MagicLoader, MagicCommand}
    BY DEF SwitchInv, SwitchType
  <2>. QED
    BY <2>3, <2>4, Numbers
<1>. QED
  BY <1>1, BitsAlways, PTL DEF SwitchSpec, OnlyWholeCodes
=============================================================================
