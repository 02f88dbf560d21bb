-------------------------------- MODULE Uart --------------------------------
(***************************************************************************)
(* The serial port of the SAMD09 (src-firmware/samd09/uart.c): a ring      *)
(* buffer in each direction, between the main program and UART_HANDLER.    *)
(*                                                                         *)
(* The interrupt handler runs to its end at any point between two          *)
(* accesses of the main program to the variables they share; the main      *)
(* program is a program counter over these points.                         *)
(*                                                                         *)
(* Bytes are numbered in the order in which they are sent, so that their   *)
(* order can be told.                                                      *)
(***************************************************************************)
EXTENDS Integers, Sequences

CONSTANTS
  BufSize,     \* sizeof(rxbuf) and sizeof(txbuf), a power of two        (64)
  MaxRx,       \* bound on the bytes the host sends
  MaxTx        \* bound on the bytes the program sends

ASSUME UartAssumption ==
  /\ BufSize \in Nat \ {0, 1}
  /\ MaxRx \in Nat /\ MaxTx \in Nat

VARIABLES
  rxbuf, rx_read_idx, rx_write_idx,
  txbuf, tx_read_idx, tx_write_idx,
  data,      \* the transmit data register; None: INTFLAG.DRE is set
  dre,       \* INTENSET.DRE: the data-register-empty interrupt is enabled
  pc,        \* where the main program stands in uart_getc or uart_putc
  ch,        \* uart_getc: ch; uart_putc: its argument
  tmp,       \* uart_putc: tmp; uart_getc: the index it read
  late,      \* receive interrupts since uart_getc moved the index
  polite,    \* the host sends only when the device has nothing to send
  \* Counters and history:
  rxCount,   \* bytes the host has sent
  txCount,   \* bytes given to uart_putc
  got,       \* what uart_getc returned
  sent,      \* what left on the wire
  lost       \* received bytes the handler dropped

rxVars == <<rxbuf, rx_read_idx, rx_write_idx, late, polite, rxCount, got, lost>>
txVars == <<txbuf, tx_read_idx, tx_write_idx, data, dre, txCount, sent>>
vars == <<rxVars, txVars, pc, ch, tmp>>

None == 0
Index == 0 .. BufSize - 1
Mask(i) == i % BufSize

\* The filled part of a ring, oldest byte first.
Ring(buf, first, beyond) ==
  [i \in 1 .. Mask(beyond - first + BufSize) |-> buf[Mask(first + i - 1)]]

-----------------------------------------------------------------------------
\* UART_HANDLER

\* Mutant: the interrupt is not disabled with the last byte.
HandlerTx_StaysEnabled ==
  IF data = None /\ tx_read_idx # tx_write_idx
  THEN /\ data' = txbuf[tx_read_idx]
       /\ tx_read_idx' = Mask(tx_read_idx + 1)
       /\ UNCHANGED dre
  ELSE UNCHANGED <<data, tx_read_idx, dre>>

\* The transmit half: it runs whenever the data register is empty, whichever
\* interrupt brought the handler up.
HandlerTx ==
  IF data = None /\ tx_read_idx # tx_write_idx
  THEN /\ data' = txbuf[tx_read_idx]
       /\ tx_read_idx' = Mask(tx_read_idx + 1)
       /\ dre' = (dre /\ tx_read_idx' # tx_write_idx)
  ELSE UNCHANGED <<data, tx_read_idx, dre>>

\* Mutant: the buffer is taken for full one byte early.
HandlerRx_OneEarly(b) ==
  IF Mask(rx_write_idx + 2) = rx_read_idx
  THEN lost' = lost + 1 /\ UNCHANGED <<rxbuf, rx_write_idx>>
  ELSE /\ rxbuf' = [rxbuf EXCEPT ![rx_write_idx] = b]
       /\ rx_write_idx' = Mask(rx_write_idx + 1)
       /\ UNCHANGED lost

\* The receive half, for the byte b.
HandlerRx(b) ==
  LET nextidx == Mask(rx_write_idx + 1)
  IN  IF nextidx = rx_read_idx
      THEN lost' = lost + 1 /\ UNCHANGED <<rxbuf, rx_write_idx>>
      ELSE /\ rxbuf' = [rxbuf EXCEPT ![rx_write_idx] = b]
           /\ rx_write_idx' = nextidx
           /\ UNCHANGED lost

\* A byte arrives.  A byte takes 87 us and uart_getc moves its index in less
\* than one, so at most one byte arrives in between.
RxInterrupt ==
  /\ rxCount < MaxRx
  /\ polite => /\ pc \notin {"wait", "store", "advance", "enable"}
               /\ data = None /\ tx_read_idx = tx_write_idx
  /\ pc \in {"load", "mask"} => late = 0
  /\ late' = IF pc \in {"load", "mask"} THEN 1 ELSE 0
  /\ rxCount' = rxCount + 1
  /\ HandlerTx /\ HandlerRx(rxCount + 1)
  /\ UNCHANGED <<polite, rx_read_idx, got, txbuf, tx_write_idx, txCount, sent, pc, ch, tmp>>

DreInterrupt ==
  /\ dre /\ data = None
  /\ HandlerTx
  /\ UNCHANGED <<rxVars, txbuf, tx_write_idx, txCount, sent, pc, ch, tmp>>

\* The shift register takes the byte and puts it on the wire.
ShiftOut ==
  /\ data # None
  /\ sent' = Append(sent, data)
  /\ data' = None
  /\ UNCHANGED <<rxVars, txbuf, tx_read_idx, tx_write_idx, dre, txCount, pc, ch, tmp>>

-----------------------------------------------------------------------------
\* uart_getc: rx_read_idx++, the load of the byte in either order, and the mask
\* are stores of their own.

GetStart ==
  /\ pc = "idle" /\ rx_read_idx # rx_write_idx
  /\ tmp' = rx_read_idx
  /\ rx_read_idx' = rx_read_idx + 1
  /\ late' = 0
  /\ \/ pc' = "mask" /\ ch' = rxbuf[rx_read_idx]
     \/ pc' = "load" /\ UNCHANGED ch
  /\ UNCHANGED <<polite, rxbuf, rx_write_idx, rxCount, got, lost, txVars>>

GetLoad ==
  /\ pc = "load"
  /\ ch' = rxbuf[tmp]
  /\ pc' = "mask"
  /\ UNCHANGED <<rxVars, txVars, tmp>>

GetMask ==
  /\ pc = "mask"
  /\ rx_read_idx' = Mask(rx_read_idx)
  /\ got' = Append(got, ch)
  /\ pc' = "idle"
  /\ UNCHANGED <<polite, rxbuf, rx_write_idx, late, rxCount, lost, txVars, ch, tmp>>

-----------------------------------------------------------------------------
\* uart_putc

\* With the buffer empty the handler does not touch it, so the two tests of the
\* condition may be read at once.
PutStart ==
  /\ pc = "idle" /\ txCount < MaxTx
  /\ txCount' = txCount + 1
  /\ IF tx_read_idx = tx_write_idx /\ data = None
     THEN data' = txCount + 1 /\ UNCHANGED <<pc, ch, tmp>>
     ELSE /\ pc' = "wait" /\ ch' = txCount + 1 /\ tmp' = Mask(tx_write_idx + 1)
          /\ UNCHANGED data
  /\ UNCHANGED <<rxVars, txbuf, tx_read_idx, tx_write_idx, dre, sent>>

\* Mutant: nothing waits for room (as without CONFIG_DEADLOCK_ME_HARDER).
PutDisable_NoWait ==
  /\ pc = "wait"
  /\ dre' = FALSE
  /\ pc' = "store"
  /\ UNCHANGED <<rxVars, txbuf, tx_read_idx, tx_write_idx, data, txCount, sent, ch, tmp>>

\* The wait for room is over; INTENCLR.
PutDisable ==
  /\ pc = "wait" /\ tmp # tx_read_idx
  /\ dre' = FALSE
  /\ pc' = "store"
  /\ UNCHANGED <<rxVars, txbuf, tx_read_idx, tx_write_idx, data, txCount, sent, ch, tmp>>

PutStore ==
  /\ pc = "store"
  /\ txbuf' = [txbuf EXCEPT ![tx_write_idx] = ch]
  /\ pc' = "advance"
  /\ UNCHANGED <<rxVars, tx_read_idx, tx_write_idx, data, dre, txCount, sent, ch, tmp>>

PutAdvance ==
  /\ pc = "advance"
  /\ tx_write_idx' = tmp
  /\ pc' = "enable"
  /\ UNCHANGED <<rxVars, txbuf, tx_read_idx, data, dre, txCount, sent, ch, tmp>>

\* Mutant: the interrupt stays disabled.
PutEnable_Not ==
  /\ pc = "enable"
  /\ pc' = "idle"
  /\ UNCHANGED <<rxVars, txbuf, tx_read_idx, tx_write_idx, data, dre, txCount, sent, ch, tmp>>

PutEnable ==
  /\ pc = "enable"
  /\ dre' = TRUE
  /\ pc' = "idle"
  /\ UNCHANGED <<rxVars, txbuf, tx_read_idx, tx_write_idx, data, txCount, sent, ch, tmp>>

-----------------------------------------------------------------------------
Init ==
  /\ rxbuf = [i \in Index |-> None] /\ rx_read_idx = 0 /\ rx_write_idx = 0
  /\ txbuf = [i \in Index |-> None] /\ tx_read_idx = 0 /\ tx_write_idx = 0
  /\ data = None /\ dre = FALSE
  /\ pc = "idle" /\ ch = None /\ tmp = 0 /\ late = 0
  /\ polite \in BOOLEAN
  /\ rxCount = 0 /\ txCount = 0 /\ got = <<>> /\ sent = <<>> /\ lost = 0

Put == PutDisable \/ PutStore \/ PutAdvance \/ PutEnable
Get == GetStart \/ GetLoad \/ GetMask

Next == RxInterrupt \/ DreInterrupt \/ ShiftOut \/ Get \/ PutStart \/ Put

Spec == Init /\ [][Next]_vars

\* The processor runs, an enabled interrupt is served and the wire takes bytes;
\* nothing obliges the host to send or the program to call uart_putc.
FairSpec == /\ Spec
            /\ WF_vars(DreInterrupt) /\ WF_vars(ShiftOut)
            /\ WF_vars(Get) /\ WF_vars(Put)

-----------------------------------------------------------------------------
\* Type invariant.
TypeOK ==
  /\ rxbuf \in [Index -> 0 .. MaxRx] /\ txbuf \in [Index -> 0 .. MaxTx]
  /\ rx_read_idx \in 0 .. BufSize /\ rx_write_idx \in Index
  /\ tx_read_idx \in Index /\ tx_write_idx \in Index
  /\ data \in 0 .. MaxTx /\ dre \in BOOLEAN
  /\ pc \in {"idle", "load", "mask", "wait", "store", "advance", "enable"}
  /\ ch \in 0 .. MaxRx \cup 0 .. MaxTx /\ tmp \in Index /\ late \in 0 .. 1
  /\ polite \in BOOLEAN
  /\ rxCount \in 0 .. MaxRx /\ txCount \in 0 .. MaxTx /\ lost \in 0 .. MaxRx
  /\ got \in Seq(1 .. MaxRx) /\ sent \in Seq(1 .. MaxTx)

\* The byte uart_getc is about to return belongs to what it delivers.
Taken == CASE pc = "load" -> Append(got, rxbuf[tmp])
           [] pc = "mask" -> Append(got, ch)
           [] OTHER       -> got

\* The receive buffer is a queue of BufSize - 1 bytes: the handler interrupting
\* uart_getc at any point, with the index one past the end, never lets a byte
\* overtake another, vanish or come twice, nor drops one while there is room.
RxQueue == INSTANCE ByteQueue
             WITH Bytes <- 1 .. MaxRx, Cap <- BufSize - 1,
                  queue <- Ring(rxbuf, Mask(rx_read_idx), rx_write_idx),
                  delivered <- Taken, dropped <- lost
RxIsQueue == RxQueue!Spec

\* So is the transmit buffer with the data register in front of it, and it
\* drops nothing.
TxQueue == INSTANCE ByteQueue
             WITH Bytes <- 1 .. MaxTx, Cap <- BufSize,
                  queue <- (IF data = None THEN <<>> ELSE <<data>>)
                             \o Ring(txbuf, tx_read_idx, tx_write_idx),
                  delivered <- sent, dropped <- 0
TxIsQueue == TxQueue!Spec

\* The data-register-empty interrupt is never left enabled with nothing to
\* send: the handler would return without clearing it and be entered again
\* without end.  It takes a host that waits for its turn.
NoInterruptStorm == polite /\ dre => tx_read_idx # tx_write_idx

\* Every byte given to uart_putc leaves on the wire.
AllSent == \A n \in 1 .. MaxTx : (polite /\ txCount >= n) ~> (Len(sent) >= n)

\* uart.c: "temporarily disable the UART interrupt while the buffer is updated".
TxUpdateUndisturbed ==
  [][(pc \in {"store", "advance", "enable"}) => UNCHANGED tx_read_idx]_vars
=============================================================================
