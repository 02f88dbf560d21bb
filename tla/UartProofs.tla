----------------------------- MODULE UartProofs -----------------------------
(***************************************************************************)
(* Proofs about the serial port: for buffers of any size and any number of *)
(* bytes, both ring buffers are the queues of ByteQueue, and a host that   *)
(* waits for its turn never leaves the interrupt storming.                 *)
(***************************************************************************)
EXTENDS Uart, ModArithmetic, SequenceTheorems

-----------------------------------------------------------------------------
\* Ring buffers.

\* The number of bytes in a ring.
Fill(f, w) == IF f <= w THEN w - f ELSE w - f + BufSize

LEMMA MaskIs ==
  ASSUME NEW n \in 0 .. 2 * BufSize - 1
  PROVE  /\ Mask(n) = IF n < BufSize THEN n ELSE n - BufSize
         /\ Mask(n) \in Index
<1>1. BufSize \in Nat \ {0} /\ n \in Nat
  BY UartAssumption
<1>2. CASE n < BufSize
  <2>1. (BufSize * 0 + n) % BufSize = n
    BY <1>1, <1>2, ModUnique
  <2>2. BufSize * 0 + n = n
    BY <1>1
  <2>. QED
    BY <1>1, <1>2, <2>1, <2>2 DEF Mask, Index
<1>3. CASE n >= BufSize
  <2>1. n - BufSize \in Nat /\ n - BufSize < BufSize
    BY <1>1, <1>3
  <2>2. (BufSize * 1 + (n - BufSize)) % BufSize = n - BufSize
    BY <1>1, <2>1, ModUnique
  <2>3. BufSize * 1 + (n - BufSize) = n
    BY <1>1
  <2>. QED
    BY <1>1, <1>3, <2>1, <2>2, <2>3 DEF Mask, Index
<1>. QED
  BY <1>1, <1>2, <1>3

\* The next index.
LEMMA NextIndex ==
  ASSUME NEW f \in Index
  PROVE  /\ f \in Nat /\ f < BufSize
         /\ Mask(f) = f
         /\ Mask(f + 1) = IF f + 1 = BufSize THEN 0 ELSE f + 1
         /\ Mask(f + 1) \in Index /\ Mask(f + 1) # f
<1>1. BufSize \in Nat \ {0, 1} /\ f \in Nat /\ f < BufSize
  BY UartAssumption DEF Index
<1>2. f \in 0 .. 2 * BufSize - 1 /\ f + 1 \in 0 .. 2 * BufSize - 1
  BY <1>1
<1>. QED
  BY <1>1, <1>2, MaskIs

\* The slot of the k-th byte.
Slot(f, k) == Mask(f + k - 1)

LEMMA SlotIs ==
  ASSUME NEW f \in Index, NEW k \in 1 .. BufSize
  PROVE  /\ Slot(f, k) = IF f + k - 1 < BufSize THEN f + k - 1 ELSE f + k - 1 - BufSize
         /\ Slot(f, k) \in Index
<1> DEFINE e == f + k - 1
<1>1. e \in 0 .. 2 * BufSize - 1
  BY UartAssumption DEF Index
<1>. HIDE DEF e
<1>2. Mask(e) = (IF e < BufSize THEN e ELSE e - BufSize) /\ Mask(e) \in Index
  BY <1>1, MaskIs
<1>3. Slot(f, k) = Mask(e)
  BY DEF Slot, e
<1>4. e = f + k - 1
  BY DEF e
<1>5. f \in Nat /\ k \in Nat /\ BufSize \in Nat
  BY UartAssumption DEF Index
<1>. QED
  BY <1>2, <1>3, <1>4, <1>5

LEMMA FillType ==
  ASSUME NEW f \in Index, NEW w \in Index
  PROVE  Fill(f, w) \in 0 .. BufSize - 1 /\ BufSize \in Nat
BY UartAssumption DEF Fill, Index

RingAt(buf, f, w, S) ==
  /\ Ring(buf, f, w) \in Seq(S)
  /\ Len(Ring(buf, f, w)) = Fill(f, w)
  /\ \A k \in 1 .. Fill(f, w) : Ring(buf, f, w)[k] = buf[Slot(f, k)]

LEMMA RingIs ==
  ASSUME NEW S, NEW buf \in [Index -> S], NEW f \in Index, NEW w \in Index
  PROVE  RingAt(buf, f, w, S)
<1> DEFINE e == w - f + BufSize
           r == [k \in 1 .. Fill(f, w) |-> buf[Slot(f, k)]]
<1>1. e \in 0 .. 2 * BufSize - 1
  BY UartAssumption DEF Index
<1>2. Fill(f, w) = IF e < BufSize THEN e ELSE e - BufSize
  BY UartAssumption DEF Fill, Index
<1>. HIDE DEF e
<1>3. Mask(e) = IF e < BufSize THEN e ELSE e - BufSize
  BY <1>1, MaskIs
<1>4. Mask(e) = Fill(f, w)
  BY <1>2, <1>3
<1>5. Ring(buf, f, w) = r
  BY <1>4 DEF Ring, Slot, e
<1>6. Fill(f, w) \in 0 .. BufSize - 1 /\ BufSize \in Nat
  BY FillType
<1>7. \A k \in 1 .. Fill(f, w) : Slot(f, k) \in Index
  <2>. TAKE k \in 1 .. Fill(f, w)
  <2>1. k \in 1 .. BufSize
    BY <1>6
  <2>. QED
    BY <2>1, SlotIs
<1>8. \A k \in 1 .. Fill(f, w) : buf[Slot(f, k)] \in S
  BY <1>7
<1>9. r \in Seq(S) /\ Len(r) = Fill(f, w)
  BY <1>6, <1>8
<1>10. \A k \in 1 .. Fill(f, w) : r[k] = buf[Slot(f, k)]
  OBVIOUS
<1>. HIDE DEF r
<1>. QED
  BY <1>5, <1>9, <1>10 DEF RingAt

\* The slot behind the last byte is not part of the ring.
LEMMA FreeSlot ==
  ASSUME NEW f \in Index, NEW w \in Index
  PROVE  \A k \in 1 .. Fill(f, w) : Slot(f, k) \in Index /\ Slot(f, k) # w
<1>. TAKE k \in 1 .. Fill(f, w)
<1>1. BufSize \in Nat \ {0, 1} /\ f \in 0 .. BufSize - 1 /\ w \in 0 .. BufSize - 1
  BY UartAssumption DEF Index
<1>2. k \in 1 .. BufSize
  BY <1>1 DEF Fill
<1>3. /\ Slot(f, k) = IF f + k - 1 < BufSize THEN f + k - 1 ELSE f + k - 1 - BufSize
      /\ Slot(f, k) \in Index
  BY <1>2, SlotIs
<1>4. k <= IF f <= w THEN w - f ELSE w - f + BufSize
  BY DEF Fill
<1>. QED
  BY <1>1, <1>2, <1>3, <1>4

LEMMA RingStore ==
  ASSUME NEW S, NEW old \in [Index -> S], NEW new \in [Index -> S],
         NEW f \in Index, NEW w \in Index,
         \A k \in Index : k # w => new[k] = old[k]
  PROVE  Ring(new, f, w) = Ring(old, f, w)
<1> DEFINE r == Ring(old, f, w)
           s == Ring(new, f, w)
<1>1. \A k \in 1 .. Fill(f, w) : new[Slot(f, k)] = old[Slot(f, k)]
  BY FreeSlot
<1>2. RingAt(old, f, w, S) /\ RingAt(new, f, w, S)
  BY RingIs
<1>3. /\ r \in Seq(S) /\ s \in Seq(S) /\ Len(r) = Fill(f, w) /\ Len(s) = Len(r)
      /\ \A k \in 1 .. Len(s) : s[k] = r[k]
  BY <1>1, <1>2 DEF RingAt
<1>. HIDE DEF r, s
<1>4. s = r
  BY <1>3, SeqEqual
<1>. QED
  BY <1>4 DEF r, s

\* A byte is put.
LEMMA RingPut ==
  ASSUME NEW S, NEW buf \in [Index -> S], NEW f \in Index, NEW w \in Index,
         Mask(w + 1) # f
  PROVE  /\ Fill(f, w) < BufSize - 1
         /\ Ring(buf, f, Mask(w + 1)) = Append(Ring(buf, f, w), buf[w])
<1>0. PICK v \in Index : v = Mask(w + 1)
  BY NextIndex
<1> DEFINE n == Fill(f, w)
           r == Ring(buf, f, w)
           s == Ring(buf, f, v)
<1>1. /\ BufSize \in Nat \ {0, 1} /\ f \in 0 .. BufSize - 1 /\ w \in 0 .. BufSize - 1
      /\ v = IF w + 1 = BufSize THEN 0 ELSE w + 1
      /\ v # f
  BY <1>0, UartAssumption, NextIndex DEF Index
<1>2. Fill(f, v) = n + 1 /\ n \in 0 .. BufSize - 2 /\ n + 1 \in 1 .. BufSize
  BY <1>1 DEF Fill
<1>3. Slot(f, n + 1) = w
  <2>1. n = IF f <= w THEN w - f ELSE w - f + BufSize
    BY DEF Fill
  <2> DEFINE m == n + 1
  <2>2. m \in 1 .. BufSize /\ f \in Index
    BY <1>2
  <2>3. w = IF f + m - 1 < BufSize THEN f + m - 1 ELSE f + m - 1 - BufSize
    BY <1>1, <2>1
  <2>. HIDE DEF m
  <2>4. Slot(f, m) = w
    BY <2>2, <2>3, SlotIs
  <2>. QED
    BY <2>4 DEF m
<1>4. /\ r \in Seq(S) /\ Len(r) = n
      /\ \A k \in 1 .. n : r[k] = buf[Slot(f, k)]
  <2>1. RingAt(buf, f, w, S)
    BY RingIs
  <2>. QED
    BY <2>1 DEF RingAt
<1>5. /\ s \in Seq(S) /\ Len(s) = Fill(f, v)
      /\ \A k \in 1 .. Fill(f, v) : s[k] = buf[Slot(f, k)]
  <2>1. RingAt(buf, f, v, S)
    BY RingIs
  <2>. QED
    BY <2>1 DEF RingAt
<1>. HIDE DEF n, r, s
<1>7. ASSUME NEW k \in 1 .. n + 1
      PROVE  s[k] = Append(r, buf[w])[k]
  <2>1. s[k] = buf[Slot(f, k)]
    BY <1>2, <1>5
  <2>2. CASE k \in 1 .. n
    BY <1>2, <1>4, <2>1, <2>2
  <2>3. CASE k = n + 1
    BY <1>2, <1>3, <1>4, <2>1, <2>3
  <2>4. k \in 1 .. n \/ k = n + 1
    BY <1>1, <1>2
  <2>. QED
    BY <2>2, <2>3, <2>4
<1>8. /\ Append(r, buf[w]) \in Seq(S) /\ Len(Append(r, buf[w])) = n + 1
      /\ s \in Seq(S) /\ Len(s) = n + 1
  BY <1>2, <1>4, <1>5
<1>9. s = Append(r, buf[w])
  BY <1>7, <1>8, SeqEqual
<1>. QED
  BY <1>0, <1>1, <1>2, <1>9 DEF n, r, s

\* The oldest byte is taken.
LEMMA RingGet ==
  ASSUME NEW S, NEW buf \in [Index -> S], NEW f \in Index, NEW w \in Index, f # w
  PROVE  /\ Ring(buf, f, w) # << >>
         /\ Head(Ring(buf, f, w)) = buf[f]
         /\ Tail(Ring(buf, f, w)) = Ring(buf, Mask(f + 1), w)
<1>0. PICK g \in Index : g = Mask(f + 1)
  BY NextIndex
<1> DEFINE n == Fill(f, w)
           r == Ring(buf, f, w)
           s == Ring(buf, g, w)
<1>1. /\ BufSize \in Nat \ {0, 1} /\ f \in 0 .. BufSize - 1 /\ w \in 0 .. BufSize - 1
      /\ g = IF f + 1 = BufSize THEN 0 ELSE f + 1
  BY <1>0, UartAssumption, NextIndex DEF Index
<1>2. Fill(g, w) = n - 1 /\ n \in 1 .. BufSize - 1
  BY <1>1 DEF Fill
<1>3. /\ r \in Seq(S) /\ Len(r) = n
      /\ \A k \in 1 .. n : r[k] = buf[Slot(f, k)]
  <2>1. RingAt(buf, f, w, S)
    BY RingIs
  <2>. QED
    BY <2>1 DEF RingAt
<1>4. /\ s \in Seq(S) /\ Len(s) = Fill(g, w)
      /\ \A k \in 1 .. Fill(g, w) : s[k] = buf[Slot(g, k)]
  <2>1. RingAt(buf, g, w, S)
    BY RingIs
  <2>. QED
    BY <2>1 DEF RingAt
<1>5. /\ Len(s) = n - 1
      /\ \A k \in 1 .. n - 1 : s[k] = buf[Slot(g, k)]
  BY <1>2, <1>4
<1>6. ASSUME NEW k \in 1 .. n - 1
      PROVE  Slot(g, k) = Slot(f, k + 1)
  <2> DEFINE m == k + 1
  <2>1. k \in 1 .. BufSize /\ m \in 1 .. BufSize
    BY <1>1, <1>2
  <2>2. (IF g + k - 1 < BufSize THEN g + k - 1 ELSE g + k - 1 - BufSize)
          = (IF f + m - 1 < BufSize THEN f + m - 1 ELSE f + m - 1 - BufSize)
    BY <1>1, <1>2
  <2>. HIDE DEF m
  <2>3. Slot(g, k) = Slot(f, m)
    BY <1>1, <2>1, <2>2, SlotIs
  <2>. QED
    BY <2>3 DEF m
<1>7. Slot(f, 1) = f
  <2> DEFINE m == 1
  <2>1. m \in 1 .. BufSize /\ f = IF f + m - 1 < BufSize THEN f + m - 1 ELSE f + m - 1 - BufSize
    BY <1>1
  <2>. HIDE DEF m
  <2>2. Slot(f, m) = f
    BY <2>1, SlotIs
  <2>. QED
    BY <2>2 DEF m
<1>. HIDE DEF n, r, s
<1>8. r # << >>
  BY <1>2, <1>3, EmptySeq
<1>9. /\ Tail(r) \in Seq(S) /\ Len(Tail(r)) = n - 1
      /\ \A k \in 1 .. n - 1 : Tail(r)[k] = r[k + 1]
  BY <1>2, <1>3, <1>8, HeadTailProperties
<1>10. \A k \in 1 .. n - 1 : s[k] = Tail(r)[k]
  <2>. TAKE k \in 1 .. n - 1
  <2>1. k + 1 \in 1 .. n
    BY <1>2
  <2>2. s[k] = buf[Slot(g, k)] /\ r[k + 1] = buf[Slot(f, k + 1)]
    BY <1>3, <1>5, <2>1
  <2>. QED
    BY <1>6, <1>9, <2>2
<1>11. Tail(r) = s
  BY <1>4, <1>5, <1>9, <1>10, SeqEqual
<1>12. Head(r) = buf[f]
  <2>1. Head(r) = r[1] /\ 1 \in 1 .. n
    BY <1>2, <1>3, <1>8
  <2>. QED
    BY <1>3, <1>7, <2>1
<1>. QED
  BY <1>0, <1>8, <1>11, <1>12 DEF r, s

LEMMA RingEmpty ==
  ASSUME NEW S, NEW buf \in [Index -> S], NEW f \in Index
  PROVE  Ring(buf, f, f) = << >>
<1>1. Fill(f, f) = 0
  BY UartAssumption DEF Fill, Index
<1>2. Ring(buf, f, f) \in Seq(S) /\ Len(Ring(buf, f, f)) = 0
  BY <1>1, RingIs DEF RingAt
<1>. QED
  BY <1>2, EmptySeq

-----------------------------------------------------------------------------
\* The inductive invariant.

RxRing == Ring(rxbuf, Mask(rx_read_idx), rx_write_idx)
TxRing == Ring(txbuf, tx_read_idx, tx_write_idx)
TxBytes == (IF data = None THEN <<>> ELSE <<data>>) \o TxRing

Reading == {"load", "mask"}

\* Between its two stores to rx_read_idx uart_getc has the byte's index in tmp, and
\* the one byte that may arrive finds room and leaves its slot alone.
RxInv ==
  /\ RxRing \in Seq(1 .. MaxRx) /\ lost <= rxCount
  /\ pc \notin Reading => rx_read_idx \in Index
  /\ pc \in Reading => rx_read_idx = tmp + 1 /\ (late = 0 => rx_write_idx # tmp)
  /\ pc = "load" => rxbuf[tmp] \in 1 .. MaxRx
  /\ pc = "mask" => ch \in 1 .. MaxRx

\* While uart_putc changes the buffer the interrupt is off, yet a receive interrupt
\* may move tx_read_idx; it cannot take the room that was waited for.
TxInv ==
  /\ TxRing \in Seq(1 .. MaxTx)
  /\ pc \in {"wait", "store", "advance"} =>
       ch \in 1 .. MaxTx /\ tmp = Mask(tx_write_idx + 1)
  /\ pc \in {"store", "advance"} => tmp # tx_read_idx
  /\ pc = "advance" => txbuf[tx_write_idx] = ch
  /\ pc \in {"store", "advance", "enable"} => ~dre
  /\ polite /\ pc = "enable" => tx_read_idx # tx_write_idx

UInv == TypeOK /\ RxInv /\ TxInv /\ NoInterruptStorm

RxTypes ==
  /\ rxbuf \in [Index -> 0 .. MaxRx]
  /\ rx_read_idx \in 0 .. BufSize /\ rx_write_idx \in Index
  /\ late \in 0 .. 1 /\ polite \in BOOLEAN
  /\ rxCount \in 0 .. MaxRx /\ lost \in 0 .. MaxRx /\ got \in Seq(1 .. MaxRx)

TxTypes ==
  /\ txbuf \in [Index -> 0 .. MaxTx]
  /\ tx_read_idx \in Index /\ tx_write_idx \in Index
  /\ data \in 0 .. MaxTx /\ dre \in BOOLEAN
  /\ txCount \in 0 .. MaxTx /\ sent \in Seq(1 .. MaxTx)

MainTypes ==
  /\ pc \in {"idle", "load", "mask", "wait", "store", "advance", "enable"}
  /\ ch \in 0 .. MaxRx \cup 0 .. MaxTx /\ tmp \in Index

LEMMA Types == TypeOK <=> RxTypes /\ TxTypes /\ MainTypes
BY DEF TypeOK, RxTypes, TxTypes, MainTypes

RxHalf == RxTypes /\ RxInv
TxHalf == TxTypes /\ TxInv /\ NoInterruptStorm

LEMMA Halves == UInv <=> RxHalf /\ TxHalf /\ MainTypes
BY Types DEF UInv, RxHalf, TxHalf

-----------------------------------------------------------------------------
\* A half that a step does not touch.

LEMMA RxFrame ==
  ASSUME UInv, UNCHANGED rxVars,
         \/ UNCHANGED <<pc, ch, tmp>>
         \/ pc \notin Reading /\ pc' \notin Reading
  PROVE  RxHalf' /\ UNCHANGED <<RxRing, Taken, lost>>
<1>1. UNCHANGED <<rxbuf, rx_read_idx, rx_write_idx, late, polite, rxCount, got, lost>>
  BY DEF rxVars
<1>2. RxTypes' /\ UNCHANGED <<RxRing, lost>>
  BY <1>1, Halves DEF RxHalf, RxTypes, RxRing, Ring, Mask
<1>3. CASE UNCHANGED <<pc, ch, tmp>>
  BY <1>1, <1>2, <1>3, Halves DEF RxHalf, RxInv, Taken
<1>4. CASE pc \notin Reading /\ pc' \notin Reading
  BY <1>1, <1>2, <1>4, Halves DEF RxHalf, RxInv, Taken, Reading
<1>. QED
  BY <1>3, <1>4

LEMMA TxFrame ==
  ASSUME UInv, UNCHANGED <<txVars, polite>>,
         \/ UNCHANGED <<pc, ch, tmp>>
         \/ pc' \in Reading \cup {"idle"}
  PROVE  TxHalf' /\ UNCHANGED <<TxBytes, sent>>
<1>1. UNCHANGED <<txbuf, tx_read_idx, tx_write_idx, data, dre, txCount, sent, polite>>
  BY DEF txVars
<1>2. TxTypes' /\ NoInterruptStorm' /\ UNCHANGED <<TxRing, TxBytes, sent>>
  BY <1>1, Halves DEF TxHalf, TxTypes, TxRing, TxBytes, Ring, NoInterruptStorm
<1>3. CASE UNCHANGED <<pc, ch, tmp>>
  BY <1>1, <1>2, <1>3, Halves DEF TxHalf, TxInv
<1>4. CASE pc' \in Reading \cup {"idle"}
  BY <1>1, <1>2, <1>4, Halves DEF TxHalf, TxInv, Reading
<1>. QED
  BY <1>3, <1>4

-----------------------------------------------------------------------------
\* The transmit half.

LEMMA NextInjective ==
  ASSUME NEW f \in Index, NEW g \in Index, Mask(f + 1) = Mask(g + 1)
  PROVE  f = g
BY NextIndex, UartAssumption

LEMMA Cons ==
  ASSUME NEW S, NEW s \in Seq(S)
  PROVE  /\ <<>> \o s = s
         /\ s # <<>> => <<Head(s)>> \o Tail(s) = s
         /\ \A e \in S : /\ <<e>> \o s # <<>> /\ Head(<<e>> \o s) = e /\ Tail(<<e>> \o s) = s
                         /\ <<e>> \o s \in Seq(S) /\ Len(<<e>> \o s) = 1 + Len(s)
OBVIOUS

\* The handler takes a byte from the ring to the data register, or does nothing.
LEMMA Handled ==
  ASSUME UInv, HandlerTx, polite => dre \/ tx_read_idx = tx_write_idx,
         UNCHANGED <<txbuf, tx_write_idx, txCount, sent, pc, ch, tmp, polite>>
  PROVE  TxHalf' /\ UNCHANGED <<TxBytes, sent>>
<1>1. CASE ~(data = None /\ tx_read_idx # tx_write_idx)
  <2>1. UNCHANGED txVars
    BY <1>1 DEF HandlerTx, txVars
  <2>. QED
    BY <2>1, TxFrame
<1>2. CASE data = None /\ tx_read_idx # tx_write_idx
  <2>1. /\ data' = txbuf[tx_read_idx] /\ tx_read_idx' = Mask(tx_read_idx + 1)
        /\ dre' = (dre /\ tx_read_idx' # tx_write_idx)
    BY <1>2 DEF HandlerTx
  <2>2. TxTypes /\ TxInv /\ NoInterruptStorm
    BY Halves DEF TxHalf
  <2>3. /\ TxRing # <<>> /\ Head(TxRing) = txbuf[tx_read_idx]
        /\ Tail(TxRing) = Ring(txbuf, Mask(tx_read_idx + 1), tx_write_idx)
    BY <1>2, <2>2, RingGet DEF TxTypes, TxRing
  <2>4. TxRing' = Tail(TxRing)
    BY <2>1, <2>3 DEF TxRing, Ring
  <2>5. /\ TxRing \in Seq(1 .. MaxTx) /\ Tail(TxRing) \in Seq(1 .. MaxTx)
        /\ Head(TxRing) \in 1 .. MaxTx
    BY <2>2, <2>3, HeadTailProperties DEF TxInv
  <2>6. TxBytes' = TxBytes
    <3>1. TxBytes = TxRing
      BY <1>2, <2>5, Cons DEF TxBytes
    <3>2. data' # None
      BY <2>1, <2>3, <2>5 DEF None
    <3>3. TxBytes' = <<Head(TxRing)>> \o Tail(TxRing)
      BY <2>1, <2>3, <2>4, <3>2 DEF TxBytes
    <3>. QED
      BY <2>3, <2>5, <3>1, <3>3, Cons
  <2>7. TxTypes'
    BY <2>1, <2>2, NextIndex DEF TxTypes
  <2>8. NoInterruptStorm'
    BY <2>1 DEF NoInterruptStorm
  <2>9. TxInv'
    <3>1. pc \in {"store", "advance"} => tmp # tx_read_idx'
      BY <1>2, <2>1, <2>2, NextInjective DEF TxInv, TxTypes
    <3>2. polite => pc # "enable"
      BY <1>2, <2>2 DEF TxInv
    <3>. QED
      BY <2>1, <2>2, <2>4, <2>5, <3>1, <3>2 DEF TxInv
  <2>. QED
    BY <2>6, <2>7, <2>8, <2>9 DEF TxHalf
<1>. QED
  BY <1>1, <1>2

TxAbs == [TxQueue!Next]_TxQueue!queueVars

LEMMA TxStutter ==
  ASSUME UNCHANGED <<TxBytes, sent>>
  PROVE  TxAbs
BY DEF TxAbs, TxQueue!queueVars, TxBytes, TxRing

LEMMA StepShiftOut ==
  ASSUME UInv, ShiftOut
  PROVE  TxHalf' /\ TxAbs
<1>1. /\ data # None /\ data' = None /\ sent' = Append(sent, data)
      /\ UNCHANGED <<txbuf, tx_read_idx, tx_write_idx, dre, txCount, pc, ch, tmp, polite>>
  BY DEF ShiftOut, rxVars
<1>2. TxTypes /\ TxInv /\ NoInterruptStorm /\ data \in 1 .. MaxTx
  BY <1>1, Halves DEF TxHalf, TxTypes, None
<1>3. TxRing' = TxRing /\ TxRing \in Seq(1 .. MaxTx)
  BY <1>1, <1>2 DEF TxRing, Ring, TxInv
<1>4. /\ TxBytes = <<data>> \o TxRing /\ TxBytes' = TxRing
  BY <1>1, <1>3, Cons DEF TxBytes
<1>5. TxBytes # <<>> /\ Head(TxBytes) = data /\ Tail(TxBytes) = TxBytes'
  BY <1>2, <1>3, <1>4, Cons
<1>6. TxQueue!Get
  BY <1>1, <1>5 DEF TxQueue!Get, TxBytes, TxRing
<1>7. TxTypes'
  <2>1. sent \in Seq(1 .. MaxTx)
    BY <1>2 DEF TxTypes
  <2>2. Append(sent, data) \in Seq(1 .. MaxTx)
    BY <1>2, <2>1, AppendProperties
  <2>. QED
    BY <1>1, <1>2, <2>2, UartAssumption DEF TxTypes, None
<1>8. TxInv' /\ NoInterruptStorm'
  BY <1>1, <1>2, <1>3 DEF TxInv, NoInterruptStorm
<1>. QED
  BY <1>6, <1>7, <1>8 DEF TxHalf, TxAbs, TxQueue!Next

LEMMA StepPutStart ==
  ASSUME UInv, PutStart
  PROVE  TxHalf' /\ MainTypes' /\ TxAbs
<1>1. /\ pc = "idle" /\ txCount < MaxTx /\ txCount' = txCount + 1
      /\ UNCHANGED <<polite, txbuf, tx_read_idx, tx_write_idx, dre, sent>>
  BY DEF PutStart, rxVars
<1>2. TxTypes /\ TxInv /\ NoInterruptStorm /\ MainTypes /\ txCount + 1 \in 1 .. MaxTx
  BY <1>1, UartAssumption, Halves DEF TxHalf, TxTypes
<1>3. TxRing' = TxRing /\ TxRing \in Seq(1 .. MaxTx) /\ NoInterruptStorm'
  BY <1>1, <1>2 DEF TxRing, Ring, TxInv, NoInterruptStorm
<1>4. CASE tx_read_idx = tx_write_idx /\ data = None
  <2>1. data' = txCount + 1 /\ UNCHANGED <<pc, ch, tmp>>
    BY <1>4 DEF PutStart
  <2>2. TxRing = <<>>
    BY <1>2, <1>4, RingEmpty DEF TxRing, TxTypes
  <2>3. data' # None
    BY <1>2, <2>1 DEF None
  <2>4. TxBytes = <<>> /\ TxBytes' = Append(<<>>, txCount + 1)
    BY <1>3, <1>4, <2>1, <2>2, <2>3 DEF TxBytes
  <2>5. TxQueue!Put(txCount + 1)
    <3>1. Len(TxBytes) < BufSize
      BY <2>4, UartAssumption
    <3>. QED
      BY <1>1, <2>4, <3>1 DEF TxQueue!Put, TxBytes, TxRing
  <2>6. TxTypes' /\ TxInv' /\ MainTypes'
    BY <1>1, <1>2, <1>3, <2>1 DEF TxTypes, TxInv, MainTypes
  <2>. QED
    BY <1>2, <1>3, <2>5, <2>6 DEF TxHalf, TxAbs, TxQueue!Next
<1>5. CASE ~(tx_read_idx = tx_write_idx /\ data = None)
  <2>1. pc' = "wait" /\ ch' = txCount + 1 /\ tmp' = Mask(tx_write_idx + 1) /\ data' = data
    BY <1>5 DEF PutStart
  <2>2. MainTypes'
    BY <1>2, <2>1, NextIndex DEF MainTypes, TxTypes
  <2>3. TxTypes' /\ TxInv'
    BY <1>1, <1>2, <1>3, <2>1 DEF TxTypes, TxInv
  <2>4. UNCHANGED <<TxBytes, sent>>
    BY <1>1, <1>3, <2>1 DEF TxBytes
  <2>. QED
    BY <1>3, <2>2, <2>3, <2>4, TxStutter DEF TxHalf
<1>. QED
  BY <1>4, <1>5

LEMMA StepPut ==
  ASSUME UInv, Put
  PROVE  TxHalf' /\ MainTypes' /\ TxAbs
<1>1. TxTypes /\ TxInv /\ NoInterruptStorm /\ MainTypes
  BY Halves DEF TxHalf
<1>2. CASE PutDisable
  <2>1. /\ pc = "wait" /\ tmp # tx_read_idx /\ dre' = FALSE /\ pc' = "store"
        /\ UNCHANGED <<polite, txbuf, tx_read_idx, tx_write_idx, data, txCount, sent, ch, tmp>>
    BY <1>2 DEF PutDisable, rxVars
  <2>2. UNCHANGED <<TxRing, TxBytes, sent>>
    BY <2>1 DEF TxRing, TxBytes, Ring
  <2>3. TxHalf' /\ MainTypes'
    BY <1>1, <2>1, <2>2 DEF TxHalf, TxTypes, TxInv, MainTypes, NoInterruptStorm
  <2>. QED
    BY <2>2, <2>3, TxStutter
<1>3. CASE PutStore
  <2>1. /\ pc = "store" /\ pc' = "advance" /\ txbuf' = [txbuf EXCEPT ![tx_write_idx] = ch]
        /\ UNCHANGED <<polite, tx_read_idx, tx_write_idx, data, dre, txCount, sent, ch, tmp>>
    BY <1>3 DEF PutStore, rxVars
  <2>2. ch \in 0 .. MaxTx /\ txbuf \in [Index -> 0 .. MaxTx] /\ tx_write_idx \in Index
    BY <1>1, <2>1 DEF TxInv, TxTypes
  <2>3. UNCHANGED <<TxRing, TxBytes, sent>>
    <3> DEFINE S == 0 .. MaxTx
    <3>1. /\ txbuf' \in [Index -> S] /\ txbuf \in [Index -> S] /\ tx_read_idx \in Index
          /\ \A k \in Index : k # tx_write_idx => txbuf'[k] = txbuf[k]
      BY <1>1, <2>1, <2>2 DEF TxTypes
    <3>. HIDE DEF S
    <3>3. PICK new \in [Index -> S] : new = txbuf'
      BY <3>1
    <3>4. Ring(new, tx_read_idx, tx_write_idx) = TxRing
      BY <2>2, <3>1, <3>3, RingStore DEF TxRing
    <3>2. TxRing' = TxRing
      BY <2>1, <3>3, <3>4 DEF TxRing, Ring
    <3>. QED
      BY <2>1, <3>2 DEF TxBytes
  <2>4. TxTypes' /\ txbuf'[tx_write_idx'] = ch'
    BY <1>1, <2>1, <2>2 DEF TxTypes
  <2>5. TxInv' /\ NoInterruptStorm' /\ MainTypes'
    BY <1>1, <2>1, <2>3, <2>4 DEF TxInv, MainTypes, NoInterruptStorm
  <2>. QED
    BY <2>3, <2>4, <2>5, TxStutter DEF TxHalf
<1>4. CASE PutAdvance
  <2>1. /\ pc = "advance" /\ pc' = "enable" /\ tx_write_idx' = tmp
        /\ UNCHANGED <<polite, txbuf, tx_read_idx, data, dre, txCount, sent, ch, tmp>>
    BY <1>4 DEF PutAdvance, rxVars
  <2>2. /\ tmp = Mask(tx_write_idx + 1) /\ tmp # tx_read_idx /\ ch \in 1 .. MaxTx
        /\ txbuf[tx_write_idx] = ch /\ ~dre
    BY <1>1, <2>1 DEF TxInv
  <2>3. /\ Fill(tx_read_idx, tx_write_idx) < BufSize - 1
        /\ Ring(txbuf, tx_read_idx, Mask(tx_write_idx + 1)) = Append(TxRing, txbuf[tx_write_idx])
    BY <1>1, <2>2, RingPut DEF TxTypes, TxRing
  <2>4. TxRing' = Append(TxRing, ch)
    BY <2>1, <2>2, <2>3 DEF TxRing, Ring
  <2>5. /\ TxRing \in Seq(1 .. MaxTx) /\ Len(TxRing) = Fill(tx_read_idx, tx_write_idx)
        /\ Append(TxRing, ch) \in Seq(1 .. MaxTx)
    <3>1. TxRing \in Seq(1 .. MaxTx)
      BY <1>1 DEF TxInv
    <3>2. Len(TxRing) = Fill(tx_read_idx, tx_write_idx)
      BY <1>1, RingIs DEF TxTypes, TxRing, RingAt
    <3>. QED
      BY <2>2, <3>1, <3>2, AppendProperties
  <2>6. TxBytes' = Append(TxBytes, ch) /\ Len(TxBytes) < BufSize
    <3> DEFINE front == IF data = None THEN <<>> ELSE <<data>>
    <3>1. front \in Seq(0 .. MaxTx) /\ Len(front) <= 1 /\ Len(front) \in Nat
      <4>1. data \in 0 .. MaxTx
        BY <1>1 DEF TxTypes
      <4>2. <<>> \in Seq(0 .. MaxTx) /\ <<data>> \in Seq(0 .. MaxTx)
            /\ Len(<<>>) = 0 /\ Len(<<data>>) = 1
        BY <4>1
      <4>3. CASE data = None
        BY <4>2, <4>3
      <4>4. CASE data # None
        BY <4>2, <4>4
      <4>. QED
        BY <4>3, <4>4
    <3>2. TxRing \in Seq(0 .. MaxTx) /\ ch \in 0 .. MaxTx
      <4>1. 1 .. MaxTx \subseteq 0 .. MaxTx
        OBVIOUS
      <4>. QED
        BY <1>1, <2>1, <2>2, <4>1, RingIs DEF TxTypes, TxRing, RingAt
    <3>3. front' = front /\ TxBytes = front \o TxRing /\ TxBytes' = front' \o TxRing'
      BY <2>1 DEF TxBytes
    <3>. HIDE DEF front
    <3>4. front \o Append(TxRing, ch) = Append(front \o TxRing, ch)
      BY <3>1, <3>2
    <3>5. Len(front \o TxRing) = Len(front) + Len(TxRing)
      BY <3>1, <3>2
    <3>6. Fill(tx_read_idx, tx_write_idx) \in 0 .. BufSize - 1 /\ BufSize \in Nat
      BY <1>1, FillType DEF TxTypes
    <3>. QED
      BY <2>3, <2>4, <2>5, <3>1, <3>3, <3>4, <3>5, <3>6
  <2>7. TxQueue!Put(ch)
    BY <2>1, <2>6 DEF TxQueue!Put, TxBytes, TxRing
  <2>8. TxTypes' /\ MainTypes'
    BY <1>1, <2>1 DEF TxTypes, MainTypes
  <2>9. TxInv' /\ NoInterruptStorm'
    BY <2>1, <2>2, <2>4, <2>5 DEF TxInv, NoInterruptStorm
  <2>. QED
    BY <2>2, <2>7, <2>8, <2>9 DEF TxHalf, TxAbs, TxQueue!Next
<1>5. CASE PutEnable
  <2>1. /\ pc = "enable" /\ dre' = TRUE /\ pc' = "idle"
        /\ UNCHANGED <<polite, txbuf, tx_read_idx, tx_write_idx, data, txCount, sent, ch, tmp>>
    BY <1>5 DEF PutEnable, rxVars
  <2>2. UNCHANGED <<TxRing, TxBytes, sent>>
    BY <2>1 DEF TxRing, TxBytes, Ring
  <2>3. TxHalf' /\ MainTypes'
    BY <1>1, <2>1, <2>2 DEF TxHalf, TxTypes, TxInv, MainTypes, NoInterruptStorm
  <2>. QED
    BY <2>2, <2>3, TxStutter
<1>. QED
  BY <1>2, <1>3, <1>4, <1>5 DEF Put

-----------------------------------------------------------------------------
\* The receive half.

RxAbs == [RxQueue!Next]_RxQueue!queueVars

LEMMA RxStutter ==
  ASSUME UNCHANGED <<RxRing, Taken, lost>>
  PROVE  RxAbs
BY DEF RxAbs, RxQueue!queueVars, RxRing

\* The index of the byte that is read next, also while it lies one past the end.
LEMMA ReadIndex ==
  ASSUME UInv
  PROVE  /\ Mask(rx_read_idx) \in Index
         /\ pc \notin Reading => Mask(rx_read_idx) = rx_read_idx
         /\ (pc \in Reading => late = 0) =>
              (Mask(rx_write_idx + 1) = rx_read_idx
                 <=> Mask(rx_write_idx + 1) = Mask(rx_read_idx))
<1>1. RxTypes /\ RxInv /\ MainTypes
  BY Halves DEF RxHalf
<1>2. CASE pc \notin Reading
  <2>1. rx_read_idx \in Index
    BY <1>1, <1>2 DEF RxInv
  <2>. QED
    BY <1>2, <2>1, NextIndex
<1>3. CASE pc \in Reading
  <2>1. rx_read_idx = tmp + 1 /\ tmp \in Index /\ (late = 0 => rx_write_idx # tmp)
        /\ late \in 0 .. 1 /\ rx_write_idx \in Index
    BY <1>1, <1>3 DEF RxInv, MainTypes, RxTypes
  <2>2. Mask(tmp + 1) = (IF tmp + 1 = BufSize THEN 0 ELSE tmp + 1) /\ Mask(tmp + 1) \in Index
    BY <2>1, NextIndex
  <2>3. /\ Mask(rx_write_idx + 1) = IF rx_write_idx + 1 = BufSize THEN 0 ELSE rx_write_idx + 1
        /\ Mask(rx_write_idx + 1) \in Index
    BY <2>1, NextIndex
  <2>4. Mask(rx_read_idx) = Mask(tmp + 1)
    BY <2>1
  <2>. QED
    BY <1>3, <2>1, <2>2, <2>3, <2>4, UartAssumption DEF Index
<1>. QED
  BY <1>2, <1>3

LEMMA Received ==
  ASSUME UInv, HandlerRx(rxCount + 1), rxCount < MaxRx, rxCount' = rxCount + 1,
         pc \in Reading => late = 0, late' = IF pc \in Reading THEN 1 ELSE 0,
         UNCHANGED <<polite, rx_read_idx, got, pc, ch, tmp>>
  PROVE  RxHalf' /\ RxAbs
<1> DEFINE b == rxCount + 1
           r == Mask(rx_read_idx)
           w == rx_write_idx
           S == 0 .. MaxRx
<1>1. RxTypes /\ RxInv /\ MainTypes /\ b \in 1 .. MaxRx /\ late' \in 0 .. 1
  BY UartAssumption, Halves DEF RxHalf, RxTypes
<1>2. /\ r \in Index /\ w \in Index /\ rxbuf \in [Index -> S] /\ b \in S
      /\ Mask(w + 1) = rx_read_idx <=> Mask(w + 1) = r
  BY <1>1, ReadIndex DEF RxTypes
<1>3. RxRing \in Seq(1 .. MaxRx) /\ Len(RxRing) = Fill(r, w)
  <2>1. RxRing \in Seq(1 .. MaxRx)
    BY <1>1 DEF RxInv
  <2>. HIDE DEF S, r
  <2>2. RingAt(rxbuf, r, w, S)
    BY <1>2, RingIs
  <2>. QED
    BY <2>1, <2>2 DEF RingAt, RxRing, r
<1>4. CASE Mask(w + 1) = rx_read_idx
  <2>1. lost' = lost + 1 /\ UNCHANGED <<rxbuf, rx_write_idx>>
    BY <1>4 DEF HandlerRx
  <2>2. UNCHANGED <<RxRing, Taken>>
    BY <2>1 DEF RxRing, Ring, Taken, Mask
  <2>3. Len(RxRing) = BufSize - 1
    <3>1. r = IF w + 1 = BufSize THEN 0 ELSE w + 1
      BY <1>2, <1>4, NextIndex
    <3>. HIDE DEF r
    <3>2. Fill(r, w) = BufSize - 1
      BY <1>2, <3>1, UartAssumption DEF Fill, Index
    <3>. QED
      BY <1>3, <3>2
  <2>4. RxQueue!Drop
    BY <2>1, <2>2, <2>3 DEF RxQueue!Drop, RxRing
  <2>5. RxTypes'
    BY <1>1, <2>1, UartAssumption DEF RxTypes, RxInv
  <2>6. RxInv'
    <3>1. lost' <= rxCount'
      BY <1>1, <2>1, UartAssumption DEF RxTypes, RxInv
    <3>2. pc \in Reading => late' # 0
      OBVIOUS
    <3>. QED
      BY <1>1, <2>1, <2>2, <3>1, <3>2 DEF RxInv
  <2>. QED
    BY <2>4, <2>5, <2>6 DEF RxHalf, RxAbs, RxQueue!Next
<1>5. CASE Mask(w + 1) # rx_read_idx
  <2>1. /\ rxbuf' = [rxbuf EXCEPT ![w] = b] /\ rx_write_idx' = Mask(w + 1) /\ lost' = lost
    BY <1>5 DEF HandlerRx
  <2>2. /\ rxbuf' \in [Index -> S] /\ rxbuf'[w] = b
        /\ \A k \in Index : k # w => rxbuf'[k] = rxbuf[k]
    BY <1>2, <2>1
  <2>3. PICK new \in [Index -> S] : new = rxbuf'
    BY <2>2
  <2>4. Mask(w + 1) # r
    BY <1>2, <1>5
  <2>5. RxRing' = Append(RxRing, b) /\ Fill(r, w) < BufSize - 1
    <3>. HIDE DEF S, r, w, b
    <3>1. Ring(new, r, w) = Ring(rxbuf, r, w)
      BY <1>2, <2>2, <2>3, RingStore
    <3>2. /\ Fill(r, w) < BufSize - 1
          /\ Ring(new, r, Mask(w + 1)) = Append(Ring(new, r, w), new[w])
      BY <1>2, <2>4, RingPut
    <3>3. RxRing' = Ring(new, r, Mask(w + 1))
      BY <2>1, <2>3 DEF RxRing, Ring, r, Mask
    <3>. QED
      BY <2>2, <2>3, <3>1, <3>2, <3>3 DEF RxRing, r, w
  <2>6. pc = "load" => rxbuf'[tmp] = rxbuf[tmp]
    BY <1>1, <2>2 DEF RxInv, Reading, MainTypes
  <2>7. Taken' = Taken
    BY <2>6 DEF Taken
  <2>8. RxQueue!Put(b)
    BY <1>3, <2>1, <2>5, <2>7 DEF RxQueue!Put, RxRing
  <2>9. RxTypes'
    BY <1>1, <1>2, <2>1, <2>2, NextIndex, UartAssumption DEF RxTypes
  <2>10. RxInv'
    <3>1. Append(RxRing, b) \in Seq(1 .. MaxRx)
      BY <1>1, <1>3, AppendProperties
    <3>2. pc \in Reading => late' # 0
      OBVIOUS
    <3>3. lost' <= rxCount'
      BY <1>1, <2>1, UartAssumption DEF RxTypes, RxInv
    <3>. QED
      BY <1>1, <2>5, <2>6, <3>1, <3>2, <3>3 DEF RxInv
  <2>. QED
    BY <1>1, <2>8, <2>9, <2>10 DEF RxHalf, RxAbs, RxQueue!Next
<1>. QED
  BY <1>4, <1>5

LEMMA StepGet ==
  ASSUME UInv, Get
  PROVE  RxHalf' /\ MainTypes' /\ RxAbs /\ pc' \in Reading \cup {"idle"}
<1>1. RxTypes /\ RxInv /\ MainTypes
  BY Halves DEF RxHalf
<1>2. CASE GetStart
  <2>1. /\ pc = "idle" /\ rx_read_idx # rx_write_idx
        /\ tmp' = rx_read_idx /\ rx_read_idx' = rx_read_idx + 1 /\ late' = 0
        /\ UNCHANGED <<polite, rxbuf, rx_write_idx, rxCount, got, lost>>
        /\ \/ pc' = "mask" /\ ch' = rxbuf[rx_read_idx]
           \/ pc' = "load" /\ UNCHANGED ch
    BY <1>2 DEF GetStart
  <2>2. rx_read_idx \in Index /\ Mask(rx_read_idx) = rx_read_idx
    BY <1>1, <2>1, ReadIndex DEF RxInv, Reading
  <2>3. /\ RxRing # <<>> /\ Head(RxRing) = rxbuf[rx_read_idx]
        /\ Tail(RxRing) = Ring(rxbuf, Mask(rx_read_idx + 1), rx_write_idx)
    <3> DEFINE f == rx_read_idx
               S == 0 .. MaxRx
    <3>1. f \in Index /\ rxbuf \in [Index -> S] /\ rx_write_idx \in Index /\ f # rx_write_idx
      BY <1>1, <2>1, <2>2 DEF RxTypes
    <3>. HIDE DEF S
    <3>2. /\ Ring(rxbuf, f, rx_write_idx) # <<>>
          /\ Head(Ring(rxbuf, f, rx_write_idx)) = rxbuf[f]
          /\ Tail(Ring(rxbuf, f, rx_write_idx)) = Ring(rxbuf, Mask(f + 1), rx_write_idx)
      BY <3>1, RingGet
    <3>. QED
      BY <2>2, <3>2 DEF RxRing
  <2>4. RxRing' = Tail(RxRing)
    BY <2>1, <2>3 DEF RxRing, Ring, Mask
  <2>5. Tail(RxRing) \in Seq(1 .. MaxRx) /\ Head(RxRing) \in 1 .. MaxRx
    BY <1>1, <2>3, HeadTailProperties DEF RxInv
  <2>6. Taken' = Append(Taken, Head(RxRing))
    BY <2>1, <2>3 DEF Taken
  <2>7. RxQueue!Get
    BY <2>1, <2>3, <2>4, <2>6 DEF RxQueue!Get, RxRing
  <2>8. RxTypes' /\ MainTypes'
    <3>1. rx_read_idx + 1 \in 0 .. BufSize
      BY <2>2, UartAssumption DEF Index
    <3>2. rxbuf[rx_read_idx] \in 0 .. MaxRx
      BY <2>3, <2>5
    <3>. QED
      BY <1>1, <2>1, <2>2, <3>1, <3>2 DEF RxTypes, MainTypes
  <2>9. RxInv'
    BY <1>1, <2>1, <2>3, <2>4, <2>5 DEF RxInv, Reading
  <2>. QED
    BY <2>1, <2>7, <2>8, <2>9 DEF RxHalf, RxAbs, RxQueue!Next, Reading
<1>3. CASE GetLoad
  <2>1. /\ pc = "load" /\ pc' = "mask" /\ ch' = rxbuf[tmp] /\ tmp' = tmp
        /\ UNCHANGED <<rxbuf, rx_read_idx, rx_write_idx, late, polite, rxCount, got, lost>>
    BY <1>3 DEF GetLoad, rxVars
  <2>2. rxbuf[tmp] \in 1 .. MaxRx
    BY <1>1, <2>1 DEF RxInv
  <2>3. UNCHANGED <<RxRing, Taken, lost>>
    BY <2>1 DEF RxRing, Ring, Taken, Mask
  <2>4. RxTypes' /\ MainTypes'
    BY <1>1, <2>1, <2>2 DEF RxTypes, MainTypes
  <2>5. RxInv'
    BY <1>1, <2>1, <2>2, <2>3 DEF RxInv, Reading
  <2>. QED
    BY <2>1, <2>3, <2>4, <2>5, RxStutter DEF RxHalf, Reading
<1>4. CASE GetMask
  <2>1. /\ pc = "mask" /\ pc' = "idle" /\ rx_read_idx' = Mask(rx_read_idx)
        /\ got' = Append(got, ch)
        /\ UNCHANGED <<rxbuf, rx_write_idx, late, polite, rxCount, lost, ch, tmp>>
    BY <1>4 DEF GetMask
  <2>2. ch \in 1 .. MaxRx /\ got \in Seq(1 .. MaxRx)
    BY <1>1, <2>1 DEF RxInv, RxTypes
  <2>3. Append(got, ch) \in Seq(1 .. MaxRx)
    BY <2>2, AppendProperties
  <2>4. Mask(rx_read_idx) \in Index
    BY ReadIndex
  <2>5. Mask(rx_read_idx)' = Mask(rx_read_idx)
    <3>1. PICK m \in Index : m = Mask(rx_read_idx)
      BY <2>4
    <3>2. Mask(m) = m
      BY NextIndex
    <3>. QED
      BY <2>1, <3>1, <3>2 DEF Mask
  <2>6. UNCHANGED <<RxRing, Taken, lost>>
    BY <2>1, <2>5 DEF RxRing, Ring, Taken, Mask
  <2>7. RxTypes' /\ MainTypes'
    BY <1>1, <2>1, <2>3, <2>4, UartAssumption DEF RxTypes, MainTypes, Index
  <2>8. RxInv'
    BY <1>1, <2>1, <2>4, <2>6 DEF RxInv, Reading
  <2>. QED
    BY <2>1, <2>6, <2>7, <2>8, RxStutter DEF RxHalf
<1>. QED
  BY <1>2, <1>3, <1>4 DEF Get

-----------------------------------------------------------------------------
LEMMA InitUInv == Init => UInv /\ RxQueue!Init /\ TxQueue!Init
<1>. SUFFICES ASSUME Init PROVE UInv /\ RxQueue!Init /\ TxQueue!Init
  OBVIOUS
<1>1. 0 \in Index /\ Mask(0) = 0
  <2>1. 0 \in Index
    BY UartAssumption DEF Index
  <2>. QED
    BY <2>1, NextIndex
<1>2. RxRing = <<>> /\ TxRing = <<>>
  <2>1. rxbuf \in [Index -> {None}] /\ txbuf \in [Index -> {None}]
    BY DEF Init
  <2>2. Ring(rxbuf, 0, 0) = <<>> /\ Ring(txbuf, 0, 0) = <<>>
    BY <1>1, <2>1, RingEmpty
  <2>. QED
    BY <1>1, <2>2 DEF Init, RxRing, TxRing
<1>3. TypeOK
  BY <1>1, UartAssumption DEF Init, TypeOK, None
<1>4. RxInv /\ TxInv /\ NoInterruptStorm
  BY <1>1, <1>2 DEF Init, RxInv, TxInv, NoInterruptStorm, Reading
<1>5. RxQueue!Init /\ TxQueue!Init
  BY <1>2 DEF Init, RxQueue!Init, TxQueue!Init, RxRing, TxRing, Taken
<1>. QED
  BY <1>3, <1>4, <1>5 DEF UInv

LEMMA StepUInv ==
  ASSUME UInv, [Next]_vars
  PROVE  UInv' /\ RxAbs /\ TxAbs
<1>. USE DEF Reading
<1>1. CASE RxInterrupt
  <2>1. /\ rxCount < MaxRx /\ rxCount' = rxCount + 1
        /\ HandlerTx /\ HandlerRx(rxCount + 1)
        /\ polite => data = None /\ tx_read_idx = tx_write_idx
        /\ pc \in Reading => late = 0
        /\ late' = IF pc \in Reading THEN 1 ELSE 0
        /\ UNCHANGED <<polite, rx_read_idx, got, txbuf, tx_write_idx, txCount, sent, pc, ch, tmp>>
    BY <1>1 DEF RxInterrupt
  <2>2. RxHalf' /\ RxAbs
    BY <2>1, Received
  <2>3. TxHalf' /\ UNCHANGED <<TxBytes, sent>>
    BY <2>1, Handled
  <2>4. MainTypes'
    BY <2>1, Halves DEF MainTypes
  <2>. QED
    BY <2>2, <2>3, <2>4, TxStutter, Halves DEF UInv, RxHalf, TxHalf, TypeOK, RxTypes,
       TxTypes, MainTypes
<1>2. CASE DreInterrupt \/ ShiftOut \/ PutStart \/ Put
  <2>1. TxHalf' /\ MainTypes' /\ TxAbs
    <3>1. CASE DreInterrupt
      <4>1. /\ dre /\ HandlerTx
            /\ UNCHANGED <<polite, txbuf, tx_write_idx, txCount, sent, pc, ch, tmp>>
        BY <3>1 DEF DreInterrupt, rxVars
      <4>2. TxHalf' /\ UNCHANGED <<TxBytes, sent>>
        BY <4>1, Handled
      <4>. QED
        BY <4>1, <4>2, TxStutter, Halves DEF MainTypes
    <3>2. CASE ShiftOut
      BY <3>2, StepShiftOut, Halves DEF ShiftOut, MainTypes
    <3>. QED
      BY <1>2, <3>1, <3>2, StepPutStart, StepPut
  <2>2. RxHalf' /\ UNCHANGED <<RxRing, Taken, lost>>
    <3>1. UNCHANGED rxVars
      BY <1>2 DEF DreInterrupt, ShiftOut, PutStart, Put, PutDisable, PutStore, PutAdvance,
                  PutEnable
    <3>2. \/ UNCHANGED <<pc, ch, tmp>>
          \/ pc \notin Reading /\ pc' \notin Reading
      BY <1>2 DEF DreInterrupt, ShiftOut, PutStart, Put, PutDisable, PutStore, PutAdvance,
                  PutEnable
    <3>. QED
      BY <3>1, <3>2, RxFrame
  <2>. QED
    BY <2>1, <2>2, RxStutter DEF UInv, RxHalf, TxHalf, TypeOK, RxTypes, TxTypes, MainTypes
<1>3. CASE Get
  <2>1. RxHalf' /\ MainTypes' /\ RxAbs /\ pc' \in Reading \cup {"idle"}
    BY <1>3, StepGet
  <2>2. UNCHANGED <<txVars, polite>>
    BY <1>3 DEF Get, GetStart, GetLoad, GetMask, rxVars
  <2>3. TxHalf' /\ UNCHANGED <<TxBytes, sent>>
    BY <2>1, <2>2, TxFrame
  <2>. QED
    BY <2>1, <2>3, TxStutter DEF UInv, RxHalf, TxHalf, TypeOK, RxTypes, TxTypes, MainTypes
<1>4. CASE UNCHANGED vars
  <2>1. UNCHANGED <<rxVars, txVars, polite, pc, ch, tmp>>
    BY <1>4 DEF vars, rxVars
  <2>2. RxHalf' /\ UNCHANGED <<RxRing, Taken, lost>>
    BY <2>1, RxFrame
  <2>3. TxHalf' /\ UNCHANGED <<TxBytes, sent>>
    BY <2>1, TxFrame
  <2>4. MainTypes'
    BY <2>1, Halves DEF MainTypes
  <2>. QED
    BY <2>2, <2>3, <2>4, RxStutter, TxStutter DEF UInv, RxHalf, TxHalf, TypeOK, RxTypes,
       TxTypes, MainTypes
<1>. QED
  BY <1>1, <1>2, <1>3, <1>4 DEF Next

LEMMA AlwaysUInv == Spec => []UInv
BY InitUInv, StepUInv, PTL DEF Spec

(***************************************************************************)
(* The variables keep their types: the indices stay in their buffers, also *)
(* rx_read_idx, which is one past the end between its two stores.          *)
(***************************************************************************)
THEOREM UartTypeCorrect == Spec => []TypeOK
BY AlwaysUInv, PTL DEF UInv

(***************************************************************************)
(* While the host waits for its turn, the data-register-empty interrupt is *)
(* never left enabled with nothing to send (UART_HANDLER, uart_putc).      *)
(***************************************************************************)
THEOREM NeverStorms == Spec => []NoInterruptStorm
BY AlwaysUInv, PTL DEF UInv

(***************************************************************************)
(* rxbuf with uart_getc and the handler is a queue of BufSize - 1 bytes.   *)
(***************************************************************************)
THEOREM ReceiverIsQueue == Spec => RxIsQueue
<1>1. UInv /\ [Next]_vars => [RxQueue!Next]_RxQueue!queueVars
  BY StepUInv DEF RxAbs
<1>. QED
  BY <1>1, AlwaysUInv, InitUInv, PTL DEF Spec, RxIsQueue, RxQueue!Spec

(***************************************************************************)
(* txbuf with uart_putc, the handler and the data register is a queue of   *)
(* BufSize bytes that drops nothing.                                       *)
(***************************************************************************)
THEOREM SenderIsQueue == Spec => TxIsQueue
<1>1. UInv /\ [Next]_vars => [TxQueue!Next]_TxQueue!queueVars
  BY StepUInv DEF TxAbs
<1>. QED
  BY <1>1, AlwaysUInv, InitUInv, PTL DEF Spec, TxIsQueue, TxQueue!Spec
=============================================================================
