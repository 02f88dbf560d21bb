----------------------------- MODULE ByteQueue -----------------------------
(***************************************************************************)
(* What a serial buffer promises: bytes come out in the order in which     *)
(* they went in, each once, and one is dropped only when Cap bytes wait.   *)
(***************************************************************************)
EXTENDS Integers, Sequences

CONSTANTS Bytes, Cap

VARIABLES
  queue,      \* the bytes that wait
  delivered,  \* the bytes that came out
  dropped     \* how many bytes found the queue full

queueVars == <<queue, delivered, dropped>>

Init == queue = <<>> /\ delivered = <<>> /\ dropped = 0

Put(b) ==
  /\ Len(queue) < Cap
  /\ queue' = Append(queue, b)
  /\ UNCHANGED <<delivered, dropped>>

Drop ==
  /\ Len(queue) = Cap
  /\ dropped' = dropped + 1
  /\ UNCHANGED <<queue, delivered>>

Get ==
  /\ queue # <<>>
  /\ delivered' = Append(delivered, Head(queue))
  /\ queue' = Tail(queue)
  /\ UNCHANGED dropped

Next == (\E b \in Bytes : Put(b)) \/ Drop \/ Get

Spec == Init /\ [][Next]_queueVars
=============================================================================
