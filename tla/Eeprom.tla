------------------------------- MODULE Eeprom -------------------------------
(***************************************************************************)
(* The EEPROM emulation of the SAMD09 (src-firmware/samd09/eeprom.c).      *)
(*                                                                         *)
(* One row of the controller's own flash holds four slots for the load     *)
(* info, filled one after another; another row holds the loader code.      *)
(* Both have a copy in RAM, which is what every reader sees; a flush       *)
(* writes the copy back, and a restart loads it.  Power may fail between   *)
(* any two steps, and inside each erase and write cycle of either row.     *)
(***************************************************************************)
EXTENDS Integers, FiniteSetsExt

CONSTANTS
  Infos,         \* the load infos that get into the RAM copy
  Codes,         \* what a 64-byte page of loader code may hold
  Blank,         \* erased: all ones
  Junk,          \* anything an interrupted cycle or a second write may leave
  Slots,         \* load info slots in the row                           (4)
  LoaderPages    \* pages of the row the loader code fills     (3 of the 4)

ASSUME EepromAssumption ==
  /\ Slots \in Nat \ {0} /\ LoaderPages \in Nat \ {0}
  /\ Blank \notin Infos \cup Codes /\ Junk \notin Infos \cup Codes /\ Blank # Junk

VARIABLES
  ram,       \* mcu_eeprom: the load info
  code,      \* mcu_eeprom.loadercode, page by page
  slot,      \* flash_data.loadinfo
  loader,    \* flash_data.loadercode, page by page
  pc,        \* where a flush or a write_loader stands
  page,      \* the page it works on
  incoming,  \* the loader code the host is sending
  \* History, read by the properties only:
  last,      \* the load info of the last flush that ended, or of the restart since
  torn,      \* power has failed inside a cycle of the load info row since its last erase
  wrote,     \* the loader code for which the row was erased last, or Blank
  spoilt,    \* the pages of the loader row whose last cycle power cut in its middle
  stored     \* a flush of the loader has ended and no later one has touched the row

vars == <<ram, code, slot, loader, pc, page, incoming, last, torn, wrote, spoilt, stored>>
infoVars == <<ram, slot, last, torn>>
loaderRow == <<loader, wrote, spoilt, stored>>
loaderVars == <<code, incoming, loaderRow>>

Index == 0 .. Slots - 1
LoaderIndex == 0 .. LoaderPages - 1

\* A slot: its marker (all ones, all zeros or a word that was half programmed)
\* and its content.
Marker == {"erased", "partial", "zero"}
Slot == [used : Marker, info : Infos \cup {Blank, Junk}]
EmptySlot == [used |-> "erased", info |-> Blank]

\* eeprom_flush_loadinfo takes a slot whose marker is not zero;
\* eeprom_emu_init believes one whose marker is not all ones.
Free(s)  == s.used # "zero"
Valid(s) == s.used # "erased"

\* Writing clears bits: what is erased takes the new content.
Write(old, new) ==
  IF new = Blank \/ new = old THEN old
  ELSE IF old = Blank THEN new ELSE Junk

-----------------------------------------------------------------------------
\* eeprom_emu_init

\* Mutant: the first slot that is not erased is taken.
Loaded_First(row) ==
  LET used == {i \in Index : Valid(row[i])}
  IN  IF used = {} THEN Blank ELSE row[Min(used)].info

\* The last slot that is not erased; RAM was set to all ones before.
Loaded(row) ==
  LET used == {i \in Index : Valid(row[i])}
  IN  IF used = {} THEN Blank ELSE row[Max(used)].info

\* A command is over, and its locals are gone.
Over == pc' = "idle" /\ page' = 0 /\ incoming' = Blank

\* The start of the controller: RAM is loaded from what the rows hold then.
eeprom_emu_init ==
  /\ ram' = Loaded(slot') /\ last' = ram'
  /\ code' = loader'
  /\ Over

\* Power fails between two cycles, or the watchdog fires.
Restart == UNCHANGED <<slot, torn, loaderRow>> /\ eeprom_emu_init

-----------------------------------------------------------------------------
\* eeprom_flush_loadinfo

\* write_loadinfo changes the RAM copy, in part or in full.
ChangeInfo(i) ==
  /\ pc = "idle"
  /\ ram' = i
  /\ UNCHANGED <<slot, pc, page, last, torn, loaderVars>>

\* Mutant: the page number stays behind the last slot when the row is erased.
FlushInfo_PageKept ==
  LET free == {i \in Index : Free(slot[i])}
  IN  /\ pc = "idle"
      /\ page' = IF free = {} THEN Slots ELSE Min(free)
      /\ pc' = IF free = {} THEN "erase" ELSE "program"
      /\ UNCHANGED <<infoVars, loaderVars>>

\* Mutant: the row is erased by every flush.
FlushInfo_EraseAlways ==
  LET free == {i \in Index : Free(slot[i])}
  IN  /\ pc = "idle"
      /\ page' = IF free = {} THEN 0 ELSE Min(free)
      /\ pc' = "erase"
      /\ UNCHANGED <<infoVars, loaderVars>>

\* The scan for the first free slot.
FlushInfo ==
  LET free == {i \in Index : Free(slot[i])}
  IN  /\ pc = "idle"
      /\ page' = IF free = {} THEN 0 ELSE Min(free)
      /\ pc' = IF free = {} THEN "erase" ELSE "program"
      /\ UNCHANGED <<infoVars, loaderVars>>

\* erase_row
EraseInfoRow ==
  /\ pc = "erase"
  /\ slot' = [i \in Index |-> EmptySlot]
  /\ torn' = FALSE
  /\ pc' = "program"
  /\ UNCHANGED <<ram, page, last, loaderVars>>

\* The write to the slot; the controller programs the page behind its last word.
ProgramSlot ==
  /\ pc = "program"
  /\ slot' = [slot EXCEPT ![page] = [used |-> "zero", info |-> Write(@.info, ram)]]
  /\ last' = ram
  /\ Over
  /\ UNCHANGED <<ram, torn, code, loaderRow>>

\* Power fails while the row is being erased ...
TornErase ==
  /\ pc = "erase"
  /\ \E done \in SUBSET Index : \E half \in SUBSET (Index \ done) :
       slot' = [i \in Index |->
                  IF i \in done THEN EmptySlot
                  ELSE IF i \in half THEN [used |-> "partial", info |-> Junk] ELSE slot[i]]
  /\ torn' = TRUE
  /\ UNCHANGED loaderRow
  /\ eeprom_emu_init

\* ... or while the slot is being programmed.
TornProgram ==
  /\ pc = "program"
  /\ \E u \in Marker, i \in {slot[page].info, Write(slot[page].info, ram), Junk} :
       /\ u = "erased" => slot[page].used = "erased"
       /\ slot' = [slot EXCEPT ![page] = [used |-> u, info |-> i]]
  /\ torn' = TRUE
  /\ UNCHANGED loaderRow
  /\ eeprom_emu_init

-----------------------------------------------------------------------------
\* write_loader and eeprom_flush_loader

WriteLoader(c) ==
  /\ pc = "idle"
  /\ incoming' = c
  /\ page' = 0
  /\ pc' = "receive"
  /\ UNCHANGED <<infoVars, code, loaderRow>>

\* The code goes into the RAM copy as it arrives.
ReceivePage ==
  /\ pc = "receive" /\ page < LoaderPages
  /\ code' = [code EXCEPT ![page] = incoming]
  /\ page' = page + 1
  /\ UNCHANGED <<infoVars, pc, incoming, loaderRow>>

\* The motor line ends the transfer: return.
LoaderAbort ==
  /\ pc = "receive" /\ page < LoaderPages
  /\ Over
  /\ UNCHANGED <<infoVars, code, loaderRow>>

FlushLoader ==
  /\ pc = "receive" /\ page = LoaderPages
  /\ pc' = "loaderErase"
  /\ UNCHANGED <<infoVars, loaderVars, page>>

\* Mutant: the pages are written over what the row holds.
EraseLoaderRow_NoErase ==
  /\ pc = "loaderErase"
  /\ wrote' = incoming /\ spoilt' = {} /\ stored' = FALSE
  /\ page' = 0
  /\ pc' = "loaderProgram"
  /\ UNCHANGED <<infoVars, code, loader, incoming>>

\* erase_row
EraseLoaderRow ==
  /\ pc = "loaderErase"
  /\ loader' = [i \in LoaderIndex |-> Blank]
  /\ wrote' = incoming /\ spoilt' = {} /\ stored' = FALSE
  /\ page' = 0
  /\ pc' = "loaderProgram"
  /\ UNCHANGED <<infoVars, code, incoming>>

\* Mutant: the last page is not written.
ProgramLoaderPage_OneLess ==
  /\ pc = "loaderProgram"
  /\ loader' = [loader EXCEPT ![page] = Write(@, code[page])]
  /\ IF page + 2 >= LoaderPages
     THEN Over /\ stored' = TRUE
     ELSE page' = page + 1 /\ UNCHANGED <<pc, incoming, stored>>
  /\ UNCHANGED <<infoVars, code, wrote, spoilt>>

\* The write to the row; the controller programs it page by page.
ProgramLoaderPage ==
  /\ pc = "loaderProgram"
  /\ loader' = [loader EXCEPT ![page] = Write(@, code[page])]
  /\ IF page + 1 = LoaderPages
     THEN Over /\ stored' = TRUE
     ELSE page' = page + 1 /\ UNCHANGED <<pc, incoming, stored>>
  /\ UNCHANGED <<infoVars, code, wrote, spoilt>>

\* Power fails while the row of the loader is being erased ...
TornLoaderErase ==
  /\ pc = "loaderErase"
  /\ \E done \in SUBSET LoaderIndex : \E half \in SUBSET (LoaderIndex \ done) :
       /\ loader' = [i \in LoaderIndex |->
                       IF i \in done THEN Blank ELSE IF i \in half THEN Junk ELSE loader[i]]
       /\ spoilt' = (spoilt \ done) \cup half
  /\ stored' = FALSE
  /\ UNCHANGED <<slot, torn, wrote>>
  /\ eeprom_emu_init

\* ... or while one of its pages is being programmed.
TornLoaderPage ==
  /\ pc = "loaderProgram"
  /\ \E p \in {loader[page], Write(loader[page], code[page]), Junk} :
       loader' = [loader EXCEPT ![page] = p]
  /\ spoilt' = spoilt \cup {page}
  /\ UNCHANGED <<slot, torn, wrote, stored>>
  /\ eeprom_emu_init

-----------------------------------------------------------------------------
\* A device whose rows are erased, as it is before anything is flushed.
Init ==
  /\ slot = [i \in Index |-> EmptySlot]
  /\ loader = [i \in LoaderIndex |-> Blank]
  /\ ram = Blank /\ code = loader
  /\ pc = "idle" /\ page = 0 /\ incoming = Blank
  /\ last = Blank /\ torn = FALSE
  /\ wrote = Blank /\ spoilt = {} /\ stored = FALSE

Next ==
  \/ Restart
  \/ \E i \in Infos : ChangeInfo(i)
  \/ FlushInfo \/ EraseInfoRow \/ ProgramSlot
  \/ TornErase \/ TornProgram
  \/ \E c \in Codes : WriteLoader(c)
  \/ ReceivePage \/ LoaderAbort \/ FlushLoader \/ EraseLoaderRow \/ ProgramLoaderPage
  \/ TornLoaderErase \/ TornLoaderPage

Spec == Init /\ [][Next]_vars

-----------------------------------------------------------------------------
\* Type invariant.
TypeOK ==
  /\ ram \in Infos \cup {Blank, Junk} /\ last \in Infos \cup {Blank, Junk}
  /\ code \in [LoaderIndex -> Codes \cup {Blank, Junk}]
  /\ slot \in [Index -> Slot]
  /\ loader \in [LoaderIndex -> Codes \cup {Blank, Junk}]
  /\ pc \in {"idle", "erase", "program", "receive", "loaderErase", "loaderProgram"}
  /\ page \in 0 .. LoaderPages \cup Index
  /\ incoming \in Codes \cup {Blank}
  /\ torn \in BOOLEAN /\ stored \in BOOLEAN
  /\ wrote \in Codes \cup {Blank} /\ spoilt \subseteq LoaderIndex

\* A flush into a spare slot can spoil that slot only.  In every step out of the write
\* (its end, a restart before it, or a power cut in its middle) the load info from
\* before stands in the slot before, and a restart loads it unless the marker of the
\* new slot has changed.  Once it has, a restart loads the new slot, whatever is in it:
\* eeprom_emu_init believes a slot that was half written.  (A flush that found the row
\* full erases it first, and one behind a torn cycle promises nothing.)
SpareSlotKeepsOld ==
  [][pc = "program" /\ page > 0 /\ ~torn =>
       /\ slot'[page - 1].info = last
       /\ Loaded(slot') = IF Valid(slot'[page]) THEN slot'[page].info ELSE last]_vars

\* Wherever a flush of the loader code is cut short, inside a cycle included, the row
\* holds pages of one loader, erased pages, and those whose own cycle was cut: never
\* pages of two loaders, and none spoilt by being written over.  It is erased before the
\* first page is written, and an interrupted write_loader does not reach it.
LoaderNotMixed ==
  \A i \in LoaderIndex : loader[i] \in {Blank, wrote} \/ (loader[i] = Junk /\ i \in spoilt)

\* A flush of the loader code that has ended has made the row whole, whatever torn
\* cycles had left there, and until the next flush begins its erase no restart, abort
\* of a write_loader or flush of a load info takes anything of it away.
LoaderKept == stored => \A i \in LoaderIndex : loader[i] = wrote

\* The detailed store implements the abstract one.  Whatever flushes, restarts and
\* full rows came before, a flush that has ended is what the next restart loads; what
\* a torn cycle has spoilt is over with the next row erase.
flushing == pc \in {"erase", "program"}
Store == INSTANCE LoadinfoStore WITH kept <- Loaded(slot)
StoreSpec == Store!Spec
=============================================================================
