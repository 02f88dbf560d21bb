--------------------------- MODULE LoadinfoStore ---------------------------
(***************************************************************************)
(* What the EEPROM emulation promises for the load info: a RAM copy that   *)
(* is read and changed at any time, and one kept value behind it.  A flush *)
(* takes time; while it runs the kept value may be gone, and when it ends  *)
(* the kept value is the RAM copy.  A restart brings the kept value back.  *)
(* Once power has failed inside a cycle of the memory the kept value may   *)
(* be anything, until a flush has begun from an erased memory.             *)
(***************************************************************************)
CONSTANTS Infos, Blank, Junk

VARIABLES ram, kept, flushing, torn

storeVars == <<ram, kept, flushing, torn>>

Any == Infos \cup {Blank, Junk}

Init ==
  /\ ram \in Infos \cup {Blank}
  /\ kept = ram
  /\ flushing = FALSE /\ torn = FALSE

Change ==
  /\ ~flushing
  /\ ram' \in Infos
  /\ UNCHANGED <<kept, flushing, torn>>

Begin ==
  /\ ~flushing
  /\ flushing' = TRUE
  /\ UNCHANGED <<ram, kept, torn>>

Forget ==
  /\ flushing
  /\ kept' = Blank /\ torn' = FALSE
  /\ UNCHANGED <<ram, flushing>>

Commit ==
  /\ flushing
  /\ kept' \in IF torn THEN Any ELSE {ram}
  /\ flushing' = FALSE
  /\ UNCHANGED <<ram, torn>>

Restart ==
  /\ ram' = kept
  /\ flushing' = FALSE
  /\ UNCHANGED <<kept, torn>>

Tear ==
  /\ flushing
  /\ kept' \in Any /\ ram' = kept'
  /\ flushing' = FALSE /\ torn' = TRUE

Next == Change \/ Begin \/ Forget \/ Commit \/ Restart \/ Tear

Spec == Init /\ [][Next]_storeVars
=============================================================================
