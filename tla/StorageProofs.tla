--------------------------- MODULE StorageProofs ---------------------------
(***************************************************************************)
(* Proofs about the memories that keep what they are told.  The EEPROM     *)
(* emulation: it implements LoadinfoStore, keeps an old load info until a  *)
(* new one is written, and never mixes loaders.  The AT45 and the I2C      *)
(* memory behind the handlers: what a host wrote is stored, what it reads  *)
(* is what is stored, nothing else changes, and polls come to an end.      *)
(***************************************************************************)
EXTENDS Eeprom, OtherDrivers, ModArithmetic, WellFoundedInduction, TLAPS

-----------------------------------------------------------------------------
\* Numbers in their order.

Less == OpToRel(<, Nat)

LEMMA LessIsLess == \A x, y \in Nat : <<x, y>> \in Less <=> x < y
BY Zenon DEF Less, OpToRel

LEMMA LeastMember ==
  ASSUME NEW S \in SUBSET Nat, S # {}
  PROVE  \E m \in S : \A y \in S : m <= y
<1>1. IsWellFoundedOn(Less, Nat)
  BY NatLessThanWellFounded, Zenon DEF Less
<1>2. PICK m \in S : \A y \in S : <<y, m>> \notin Less
  BY <1>1, WFMin
<1>3. ASSUME NEW y \in S PROVE m <= y
  <2>1. m \in Nat /\ y \in Nat
    OBVIOUS
  <2>2. ~(y < m)
    BY <1>2, <2>1, LessIsLess
  <2>. QED
    BY <2>1, <2>2
<1>. QED
  BY <1>3

\* What holds at 0 and passes from one number to the next holds up to n.
LEMMA CountUp ==
  ASSUME NEW n \in Nat, NEW S, 0 \in S, \A k \in 0 .. n - 1 : k \in S => k + 1 \in S
  PROVE  \A k \in 0 .. n : k \in S
<1> DEFINE bad == {k \in 0 .. n : k \notin S}
<1>1. SUFFICES ASSUME bad # {} PROVE FALSE
  OBVIOUS
<1>2. bad \in SUBSET Nat
  OBVIOUS
<1>3. PICK m \in bad : \A y \in bad : m <= y
  BY <1>1, <1>2, LeastMember
<1>4. m \in 1 .. n /\ m - 1 \in 0 .. n - 1 /\ m - 1 + 1 = m /\ m \notin S
  BY <1>3
<1>5. m - 1 \notin bad
  BY <1>3, <1>4
<1>6. m - 1 \in S
  BY <1>4, <1>5
<1>. QED
  BY <1>4, <1>6

\* A set of natural numbers with a member and a bound has a greatest member.
LEMMA GreatestMember ==
  ASSUME NEW n \in Nat, NEW S \in SUBSET (0 .. n), S # {}
  PROVE  \E m \in S : \A y \in S : m >= y
<1> DEFINE bounds == {b \in Nat : \A y \in S : y <= b}
<1>1. PICK m \in bounds : \A b \in bounds : m <= b
  <2>1. bounds \subseteq Nat /\ n \in bounds
    OBVIOUS
  <2>. QED
    BY <2>1, LeastMember
<1>2. m \in S
  <2>. SUFFICES ASSUME m \notin S PROVE FALSE
    OBVIOUS
  <2>1. m \in Nat /\ \A y \in S : y \in Nat /\ y <= m /\ y # m
    OBVIOUS
  <2>2. m # 0 /\ m - 1 \in Nat
    <3>1. PICK y \in S : TRUE
      OBVIOUS
    <3>2. y \in Nat /\ y <= m /\ y # m
      BY <2>1
    <3>. QED
      BY <2>1, <3>2
  <2>3. m - 1 \in bounds
    BY <2>1, <2>2
  <2>4. m <= m - 1
    <3>. HIDE DEF bounds
    <3>. QED
      BY <1>1, <2>3
  <2>. QED
    BY <2>1, <2>4
<1>. QED
  BY <1>2

\* What Max chooses.
LEMMA MaxOf ==
  ASSUME NEW n \in Nat, NEW S \in SUBSET (0 .. n), S # {}
  PROVE  /\ Max(S) \in S
         /\ \A y \in S : Max(S) >= y
BY GreatestMember DEF Max

\* The same of the least member.
LEMMA MinOf ==
  ASSUME NEW S \in SUBSET Nat, S # {}
  PROVE  /\ Min(S) \in S
         /\ \A y \in S : Min(S) <= y
BY LeastMember DEF Min

-----------------------------------------------------------------------------
\* What a restart loads.

\* What a slot or the RAM copy may hold.
Kept == Infos \cup {Blank, Junk}

LEMMA IndexRange == Index = 0 .. Slots - 1 /\ Slots - 1 \in Nat /\ Index \subseteq Nat
BY EepromAssumption DEF Index

\* The slots in use behind the last of which there are none.
LEMMA LastUsed ==
  ASSUME NEW row \in [Index -> Slot], NEW n \in Index, Valid(row[n]),
         \A i \in Index : i > n => ~Valid(row[i])
  PROVE  Loaded(row) = row[n].info
<1> DEFINE used == {i \in Index : Valid(row[i])}
<1>1. n \in used /\ \A i \in used : i <= n
  BY IndexRange
<1>2. Max(used) \in used /\ \A i \in used : Max(used) >= i
  BY <1>1, IndexRange, MaxOf
<1>3. Max(used) = n
  <2>1. Max(used) \in Nat /\ n \in Nat /\ Max(used) <= n /\ Max(used) >= n
    BY <1>1, <1>2, IndexRange
  <2>. QED
    BY <2>1
<1>. QED
  BY <1>1, <1>3 DEF Loaded

LEMMA NoneUsed ==
  ASSUME NEW row \in [Index -> Slot], \A i \in Index : ~Valid(row[i])
  PROVE  Loaded(row) = Blank
BY DEF Loaded

LEMMA LoadedType ==
  ASSUME NEW row \in [Index -> Slot]
  PROVE  Loaded(row) \in Kept
<1> DEFINE used == {i \in Index : Valid(row[i])}
<1>1. CASE used = {}
  BY <1>1 DEF Loaded, Kept
<1>2. CASE used # {}
  <2>1. Max(used) \in Index
    BY <1>2, IndexRange, MaxOf
  <2>. QED
    BY <1>2, <2>1 DEF Loaded, Slot, Kept
<1>. QED
  BY <1>1, <1>2

-----------------------------------------------------------------------------
\* The inductive invariant.

\* Since the last erase no cycle was torn: the slots in use come first, and the
\* others are erased.
SlotsInOrder ==
  ~torn => \A i \in Index :
    /\ slot[i].used = "zero" \/ slot[i] = EmptySlot
    /\ \A j \in Index : j < i /\ slot[i].used = "zero" => slot[j].used = "zero"

\* The page a flush of the load info works on.
PageOfFlush ==
  /\ pc = "erase" => page = 0
  /\ pc = "program" => /\ page \in Index /\ slot[page].used # "zero"
                       /\ \A i \in Index : i < page => slot[i].used = "zero"

\* A flush into a spare slot has changed nothing yet.
LastIsKept == ~torn /\ (pc = "program" => page > 0) => Loaded(slot) = last

\* The loader code on its way from the host to the row.
LoaderByLocation ==
  /\ pc \in {"receive", "loaderErase", "loaderProgram"} => incoming \in Codes
  /\ pc = "receive" => /\ page \in 0 .. LoaderPages
                       /\ \A i \in LoaderIndex : i < page => code[i] = incoming
  /\ pc \in {"loaderErase", "loaderProgram"} => \A i \in LoaderIndex : code[i] = incoming
  /\ pc = "loaderProgram" => /\ wrote = incoming /\ page \in LoaderIndex /\ ~stored
                             /\ \A i \in LoaderIndex :
                                  loader[i] = IF i < page THEN wrote ELSE Blank

EInv == /\ TypeOK /\ SlotsInOrder /\ PageOfFlush /\ LastIsKept
        /\ LoaderByLocation /\ LoaderNotMixed /\ LoaderKept
-----------------------------------------------------------------------------
\* Initially.

LEMMA InitEInv == Init => EInv
<1>. SUFFICES ASSUME Init PROVE EInv
  OBVIOUS
<1>1. TypeOK
  <2>1. EmptySlot \in Slot
    BY DEF Slot, EmptySlot, Marker
  <2>2. 0 \in 0 .. LoaderPages
    BY EepromAssumption
  <2>. QED
    BY <2>1, <2>2 DEF Init, TypeOK
<1>2. Loaded(slot) = Blank
  BY <1>1, NoneUsed DEF Init, TypeOK, EmptySlot, Valid
<1>3. SlotsInOrder /\ PageOfFlush /\ LastIsKept
  BY <1>2 DEF Init, SlotsInOrder, PageOfFlush, LastIsKept, EmptySlot
<1>4. LoaderByLocation /\ LoaderNotMixed /\ LoaderKept
  BY DEF Init, LoaderByLocation, LoaderNotMixed, LoaderKept
<1>. QED
  BY <1>1, <1>3, <1>4 DEF EInv

\* A slot or a page that is written holds a value of its kind.
LEMMA WriteType ==
  ASSUME NEW S, NEW old \in S \cup {Blank, Junk}, NEW new \in S \cup {Blank, Junk}
  PROVE  Write(old, new) \in S \cup {Blank, Junk}
BY DEF Write

\* The scan of a row that has a free slot finds the first one.
LEMMA FirstFree ==
  ASSUME NEW free, free = {i \in Index : Free(slot[i])}, free # {},
         NEW first, first = Min(free)
  PROVE  /\ first \in Index /\ slot[first].used # "zero"
         /\ \A i \in Index : i < first => slot[i].used = "zero"
<1>1. first \in free /\ \A i \in free : first <= i
  <2>1. free \in SUBSET Nat
    BY IndexRange
  <2>. QED
    BY <2>1, MinOf
<1>2. first \in Index /\ slot[first].used # "zero"
  BY <1>1 DEF Free
<1>3. ASSUME NEW i \in Index, i < first PROVE slot[i].used = "zero"
  BY <1>1, <1>2, <1>3, IndexRange DEF Free
<1>. QED
  BY <1>2, <1>3

-----------------------------------------------------------------------------
\* The steps keep the types.

\* The start loads what the rows hold.
LEMMA InitEType ==
  ASSUME TypeOK, eeprom_emu_init, slot' \in [Index -> Slot],
         loader' \in [LoaderIndex -> Codes \cup {Blank, Junk}],
         UNCHANGED wrote, torn' \in BOOLEAN, stored' \in BOOLEAN, spoilt' \subseteq LoaderIndex
  PROVE  TypeOK'
<1>1. Loaded(slot') \in Kept
  BY LoadedType
<1>2. 0 \in 0 .. LoaderPages
  BY EepromAssumption
<1>. QED
  BY <1>1, <1>2 DEF eeprom_emu_init, Over, TypeOK, Kept

LEMMA StepEType ==
  ASSUME TypeOK, PageOfFlush, LoaderByLocation, [Next]_vars
  PROVE  TypeOK'
<1>. USE DEF TypeOK
<1>a. 0 \in 0 .. LoaderPages
  BY EepromAssumption
<1>1. CASE Restart
  BY <1>1, InitEType DEF Restart, loaderRow
<1>2. ASSUME NEW i \in Infos, ChangeInfo(i) PROVE TypeOK'
  BY <1>2 DEF ChangeInfo, loaderVars, loaderRow
<1>3. CASE FlushInfo
  <2>1. 0 \in Index
    BY IndexRange
  <2>2. page' \in Index /\ pc' \in {"erase", "program"}
    BY <1>3, <2>1, FirstFree DEF FlushInfo
  <2>. QED
    BY <1>3, <2>2 DEF FlushInfo, infoVars, loaderVars, loaderRow
<1>4. CASE EraseInfoRow
  BY <1>4 DEF EraseInfoRow, loaderVars, loaderRow, Slot, EmptySlot, Marker
<1>5. CASE ProgramSlot
  <2>1. page \in Index /\ slot[page] \in Slot
    BY <1>5 DEF ProgramSlot, PageOfFlush
  <2>2. [used |-> "zero", info |-> Write(slot[page].info, ram)] \in Slot
    BY <2>1, WriteType DEF Slot, Marker
  <2>. QED
    BY <1>5, <2>1, <2>2, <1>a DEF ProgramSlot, loaderRow, Over
<1>6. CASE TornErase
  <2>1. slot' \in [Index -> Slot]
    BY <1>6 DEF TornErase, Slot, EmptySlot, Marker
  <2>. QED
    BY <1>6, <2>1, InitEType DEF TornErase, loaderRow
<1>7. CASE TornProgram
  <2>1. page \in Index /\ slot[page] \in Slot
    BY <1>7 DEF TornProgram, PageOfFlush
  <2>2. PICK u \in Marker, i \in {slot[page].info, Write(slot[page].info, ram), Junk} :
          slot' = [slot EXCEPT ![page] = [used |-> u, info |-> i]]
    BY <1>7 DEF TornProgram
  <2>3. i \in Infos \cup {Blank, Junk}
    <3>1. slot[page].info \in Infos \cup {Blank, Junk}
      BY <2>1 DEF Slot
    <3>2. Write(slot[page].info, ram) \in Infos \cup {Blank, Junk}
      BY <3>1, WriteType
    <3>. QED
      BY <3>1, <3>2
  <2>4. slot' \in [Index -> Slot]
    BY <2>1, <2>2, <2>3 DEF Slot
  <2>. QED
    BY <1>7, <2>4, InitEType DEF TornProgram, loaderRow
<1>8. ASSUME NEW c \in Codes, WriteLoader(c) PROVE TypeOK'
  BY <1>8, <1>a DEF WriteLoader, infoVars, loaderRow
<1>9. CASE ReceivePage
  <2>1. page \in 0 .. LoaderPages /\ page' \in 0 .. LoaderPages
    BY <1>9, EepromAssumption DEF ReceivePage, LoaderByLocation
  <2>. QED
    BY <1>9, <2>1 DEF ReceivePage, infoVars, loaderRow
<1>10. CASE LoaderAbort
  BY <1>10, <1>a DEF LoaderAbort, infoVars, loaderRow, Over
<1>11. CASE FlushLoader
  BY <1>11 DEF FlushLoader, infoVars, loaderVars, loaderRow
<1>12. CASE EraseLoaderRow
  BY <1>12, <1>a DEF EraseLoaderRow, infoVars, LoaderByLocation
<1>13. CASE ProgramLoaderPage
  <2>1. page \in LoaderIndex /\ page + 1 \in 0 .. LoaderPages
    BY <1>13, EepromAssumption DEF ProgramLoaderPage, LoaderByLocation, LoaderIndex
  <2>2. Write(loader[page], code[page]) \in Codes \cup {Blank, Junk}
    BY <2>1, WriteType
  <2>3. loader' \in [LoaderIndex -> Codes \cup {Blank, Junk}]
    BY <1>13, <2>1, <2>2 DEF ProgramLoaderPage
  <2>. QED
    BY <1>13, <1>a, <2>1, <2>3 DEF ProgramLoaderPage, infoVars, Over
<1>14. CASE TornLoaderErase
  <2>1. loader' \in [LoaderIndex -> Codes \cup {Blank, Junk}] /\ spoilt' \subseteq LoaderIndex
    BY <1>14 DEF TornLoaderErase
  <2>. QED
    BY <1>14, <2>1, InitEType DEF TornLoaderErase
<1>15. CASE TornLoaderPage
  <2>1. page \in LoaderIndex
    BY <1>15 DEF TornLoaderPage, LoaderByLocation
  <2>2. Write(loader[page], code[page]) \in Codes \cup {Blank, Junk}
    BY <2>1, WriteType
  <2>3. loader' \in [LoaderIndex -> Codes \cup {Blank, Junk}]
    BY <1>15, <2>1, <2>2 DEF TornLoaderPage
  <2>4. spoilt' \subseteq LoaderIndex
    BY <1>15, <2>1 DEF TornLoaderPage
  <2>. QED
    BY <1>15, <2>3, <2>4, InitEType DEF TornLoaderPage
<1>16. CASE UNCHANGED vars
  BY <1>16 DEF vars
<1>. QED
  BY <1>1, <1>2, <1>3, <1>4, <1>5, <1>6, <1>7, <1>8, <1>9, <1>10, <1>11, <1>12, <1>13,
     <1>14, <1>15, <1>16 DEF Next
-----------------------------------------------------------------------------
\* The row of load infos.

\* A step that touches neither the row nor a flush of it.
LEMMA RowUntouched ==
  ASSUME SlotsInOrder, PageOfFlush, LastIsKept, UNCHANGED <<slot, torn, last>>,
         pc' \notin {"erase", "program"}, pc \notin {"erase", "program"}
  PROVE  SlotsInOrder' /\ PageOfFlush' /\ LastIsKept'
BY DEF SlotsInOrder, PageOfFlush, LastIsKept

\* The slot that a flush writes becomes the last one in use.
LEMMA Programmed ==
  ASSUME TypeOK, TypeOK', SlotsInOrder, PageOfFlush, ProgramSlot, ~torn
  PROVE  SlotsInOrder' /\ Loaded(slot') = ram
<1>1. page \in Index /\ slot[page] = EmptySlot /\ torn' = torn
  BY DEF SlotsInOrder, PageOfFlush, ProgramSlot
<1>2. Write(Blank, ram) = ram
  BY DEF Write
<1>3. slot' = [slot EXCEPT ![page] = [used |-> "zero", info |-> ram]]
  BY <1>1, <1>2 DEF ProgramSlot, EmptySlot
<1>4. /\ \A i \in Index : i < page => slot'[i].used = "zero"
      /\ slot'[page] = [used |-> "zero", info |-> ram]
      /\ \A i \in Index : i > page => slot'[i] = EmptySlot
  BY <1>1, <1>3, IndexRange DEF TypeOK, SlotsInOrder, PageOfFlush, ProgramSlot
<1>5. SlotsInOrder'
  BY <1>1, <1>4, IndexRange DEF SlotsInOrder, EmptySlot
<1>6. Loaded(slot') = ram
  <2>1. slot' \in [Index -> Slot] /\ Valid(slot'[page]) /\ slot'[page].info = ram
    BY <1>4 DEF TypeOK, Valid
  <2>2. \A i \in Index : i > page => ~Valid(slot'[i])
    BY <1>4 DEF EmptySlot, Valid
  <2>. QED
    BY <1>1, <2>1, <2>2, LastUsed
<1>. QED
  BY <1>5, <1>6

LEMMA StepRow ==
  ASSUME TypeOK, TypeOK', SlotsInOrder, PageOfFlush, LastIsKept, [Next]_vars
  PROVE  SlotsInOrder' /\ PageOfFlush' /\ LastIsKept'
<1> DEFINE RInv == SlotsInOrder /\ PageOfFlush /\ LastIsKept
<1>1. CASE \/ Restart \/ TornErase \/ TornProgram \/ TornLoaderErase \/ TornLoaderPage
  <2>1. eeprom_emu_init /\ (torn' \/ UNCHANGED <<slot, torn>>)
    BY <1>1 DEF Restart, TornErase, TornProgram, TornLoaderErase, TornLoaderPage
  <2>. QED
    BY <2>1 DEF eeprom_emu_init, Over, SlotsInOrder, PageOfFlush, LastIsKept
<1>2. ASSUME NEW i \in Infos, ChangeInfo(i) PROVE RInv'
  BY <1>2, RowUntouched DEF ChangeInfo
<1>3. CASE FlushInfo
  <2> DEFINE free == {i \in Index : Free(slot[i])}
  <2>1. SlotsInOrder'
    BY <1>3 DEF FlushInfo, infoVars, SlotsInOrder
  <2>2. PageOfFlush'
    <3>1. CASE free = {}
      BY <1>3, <3>1 DEF FlushInfo, PageOfFlush
    <3>2. CASE free # {}
      <4>1. page' = Min(free) /\ pc' = "program" /\ slot' = slot
        BY <1>3, <3>2 DEF FlushInfo, infoVars
      <4>2. /\ page' \in Index /\ slot[page'].used # "zero"
            /\ \A i \in Index : i < page' => slot[i].used = "zero"
        BY <3>2, <4>1, FirstFree
      <4>. QED
        BY <4>1, <4>2 DEF PageOfFlush
    <3>. QED
      BY <3>1, <3>2
  <2>3. LastIsKept'
    BY <1>3 DEF FlushInfo, infoVars, LastIsKept
  <2>. QED
    BY <2>1, <2>2, <2>3
<1>4. CASE EraseInfoRow
  <2>1. page' = 0 /\ pc' = "program" /\ slot' = [i \in Index |-> EmptySlot]
    BY <1>4 DEF EraseInfoRow, PageOfFlush
  <2>2. 0 \in Index /\ \A i \in Index : ~(i < 0)
    BY IndexRange
  <2>. QED
    BY <2>1, <2>2 DEF SlotsInOrder, PageOfFlush, LastIsKept, EmptySlot
<1>5. CASE ProgramSlot
  <2>1. pc' = "idle" /\ last' = ram /\ torn' = torn
    BY <1>5 DEF ProgramSlot, Over
  <2>2. PageOfFlush'
    BY <2>1 DEF PageOfFlush
  <2>3. CASE torn
    BY <2>1, <2>2, <2>3 DEF SlotsInOrder, LastIsKept
  <2>4. CASE ~torn
    BY <1>5, <2>1, <2>2, <2>4, Programmed DEF LastIsKept
  <2>. QED
    BY <2>3, <2>4
<1>6. ASSUME NEW c \in Codes, WriteLoader(c) PROVE RInv'
  BY <1>6, RowUntouched DEF WriteLoader, infoVars
<1>7. CASE \/ ReceivePage \/ LoaderAbort \/ FlushLoader \/ EraseLoaderRow
          \/ ProgramLoaderPage
  <2>1. /\ UNCHANGED <<slot, torn, last>>
        /\ pc \notin {"erase", "program"} /\ pc' \notin {"erase", "program"}
    BY <1>7 DEF ReceivePage, LoaderAbort, FlushLoader, EraseLoaderRow,
       ProgramLoaderPage, Over, infoVars
  <2>. QED
    BY <2>1, RowUntouched
<1>8. CASE UNCHANGED vars
  BY <1>8 DEF vars, SlotsInOrder, PageOfFlush, LastIsKept
<1>. QED
  BY <1>1, <1>2, <1>3, <1>4, <1>5, <1>6, <1>7, <1>8 DEF Next

-----------------------------------------------------------------------------
\* The row of the loader.

\* A step that leaves the loader row alone.
LEMMA LoaderRowUntouched ==
  ASSUME LoaderNotMixed, LoaderKept, UNCHANGED loaderRow
  PROVE  LoaderNotMixed' /\ LoaderKept'
BY DEF LoaderNotMixed, LoaderKept, loaderRow

LEMMA StepLoader ==
  ASSUME TypeOK, LoaderByLocation, LoaderNotMixed, LoaderKept, [Next]_vars
  PROVE  LoaderByLocation' /\ LoaderNotMixed' /\ LoaderKept'
<1> DEFINE LInv == LoaderByLocation /\ LoaderNotMixed /\ LoaderKept
<1>. USE DEF LoaderByLocation
<1>1. CASE Restart \/ TornErase \/ TornProgram
  <2>1. UNCHANGED loaderRow /\ pc' = "idle"
    BY <1>1 DEF Restart, TornErase, TornProgram, eeprom_emu_init, Over
  <2>. QED
    BY <2>1, LoaderRowUntouched
<1>2. ASSUME NEW i \in Infos, ChangeInfo(i) PROVE LInv'
  BY <1>2, LoaderRowUntouched DEF ChangeInfo, loaderVars
<1>3. CASE FlushInfo \/ EraseInfoRow \/ ProgramSlot
  <2>1. UNCHANGED loaderRow /\ pc' \in {"idle", "erase", "program"}
    BY <1>3 DEF FlushInfo, EraseInfoRow, ProgramSlot, loaderVars, Over
  <2>. QED
    BY <2>1, LoaderRowUntouched
<1>4. ASSUME NEW c \in Codes, WriteLoader(c) PROVE LInv'
  <2>1. 0 \in 0 .. LoaderPages /\ \A i \in LoaderIndex : ~(i < 0)
    BY EepromAssumption DEF LoaderIndex
  <2>. QED
    BY <1>4, <2>1, LoaderRowUntouched DEF WriteLoader
<1>5. CASE ReceivePage
  <2>1. page' \in 0 .. LoaderPages /\ page \in LoaderIndex
    BY <1>5, EepromAssumption DEF ReceivePage, LoaderIndex
  <2>2. \A i \in LoaderIndex : i < page' => i < page \/ i = page
    BY <1>5, <2>1 DEF ReceivePage, LoaderIndex
  <2>. QED
    BY <1>5, <2>1, <2>2, LoaderRowUntouched DEF ReceivePage, TypeOK
<1>6. CASE LoaderAbort
  BY <1>6, LoaderRowUntouched DEF LoaderAbort, Over
<1>7. CASE FlushLoader
  <2>1. \A i \in LoaderIndex : i < page
    BY <1>7, EepromAssumption DEF FlushLoader, LoaderIndex
  <2>. QED
    BY <1>7, <2>1, LoaderRowUntouched DEF FlushLoader, loaderVars
<1>8. CASE EraseLoaderRow
  <2>1. 0 \in LoaderIndex /\ \A i \in LoaderIndex : ~(i < 0)
    BY EepromAssumption DEF LoaderIndex
  <2>. QED
    BY <1>8, <2>1 DEF EraseLoaderRow, LoaderNotMixed, LoaderKept
<1>9. CASE ProgramLoaderPage
  <2>1. /\ page \in LoaderIndex /\ code[page] = incoming /\ wrote = incoming
        /\ loader[page] = Blank /\ wrote' = wrote /\ spoilt' = spoilt /\ ~stored
    BY <1>9 DEF ProgramLoaderPage, LoaderIndex
  <2>2. loader' = [loader EXCEPT ![page] = wrote]
    BY <1>9, <2>1 DEF ProgramLoaderPage, Write
  <2>3. \A i \in LoaderIndex : loader'[i] = IF i < page + 1 THEN wrote ELSE Blank
    <3>1. \A i \in LoaderIndex : i < page + 1 <=> i < page \/ i = page
      BY <2>1 DEF LoaderIndex
    <3>. QED
      BY <1>9, <2>1, <2>2, <3>1 DEF ProgramLoaderPage, TypeOK
  <2>4. LoaderNotMixed'
    BY <2>1, <2>3 DEF LoaderNotMixed
  <2>5. CASE page + 1 = LoaderPages
    <3>1. \A i \in LoaderIndex : i < page + 1
      BY <2>5, EepromAssumption DEF LoaderIndex
    <3>. QED
      BY <1>9, <2>1, <2>3, <2>4, <2>5, <3>1 DEF ProgramLoaderPage, Over, LoaderKept
  <2>6. CASE page + 1 # LoaderPages
    <3>1. page + 1 \in LoaderIndex
      BY <2>1, <2>6, EepromAssumption DEF LoaderIndex
    <3>. QED
      BY <1>9, <2>1, <2>3, <2>4, <2>6, <3>1 DEF ProgramLoaderPage, LoaderKept
  <2>. QED
    BY <2>5, <2>6
<1>10. CASE TornLoaderErase
  <2>1. PICK done \in SUBSET LoaderIndex : \E half \in SUBSET (LoaderIndex \ done) :
          /\ loader' = [i \in LoaderIndex |-> IF i \in done THEN Blank
                                             ELSE IF i \in half THEN Junk ELSE loader[i]]
          /\ spoilt' = (spoilt \ done) \cup half
    BY <1>10 DEF TornLoaderErase
  <2>2. LoaderNotMixed'
    BY <1>10, <2>1 DEF TornLoaderErase, LoaderNotMixed
  <2>. QED
    BY <1>10, <2>2 DEF TornLoaderErase, eeprom_emu_init, Over, LoaderKept
<1>11. CASE TornLoaderPage
  <2>1. /\ page \in LoaderIndex /\ code[page] = wrote /\ loader[page] = Blank /\ ~stored
        /\ wrote' = wrote /\ spoilt' = spoilt \cup {page} /\ stored' = stored /\ pc' = "idle"
    BY <1>11 DEF TornLoaderPage, LoaderIndex, eeprom_emu_init, Over
  <2>2. PICK p \in {Blank, wrote, Junk} : loader' = [loader EXCEPT ![page] = p]
    BY <1>11, <2>1 DEF TornLoaderPage, Write
  <2>3. LoaderNotMixed'
    BY <2>1, <2>2 DEF LoaderNotMixed, TypeOK
  <2>. QED
    BY <2>1, <2>3 DEF LoaderKept
<1>12. CASE UNCHANGED vars
  BY <1>12 DEF vars, LoaderNotMixed, LoaderKept
<1>. QED
  BY <1>1, <1>2, <1>3, <1>4, <1>5, <1>6, <1>7, <1>8, <1>9, <1>10, <1>11, <1>12 DEF Next
-----------------------------------------------------------------------------
\* The theorems.

LEMMA StepEInv == EInv /\ [Next]_vars => EInv'
BY StepEType, StepRow, StepLoader DEF EInv

\* Every variable keeps its type; TypeOK of eeprom.c's row and RAM copy, for any number
\* of slots and pages.
THEOREM EepromTypeCorrect == Spec => []TypeOK
<1>1. EInv => TypeOK
  BY DEF EInv
<1>. QED
  BY InitEInv, StepEInv, <1>1, PTL DEF Spec

\* What every step out of the write of a spare slot leaves, a power cut inside the write
\* included.
LEMMA SpareStep ==
  ASSUME EInv, [Next]_vars, pc = "program", page > 0, ~torn
  PROVE  /\ slot'[page - 1].info = last
         /\ Loaded(slot') = IF Valid(slot'[page]) THEN slot'[page].info ELSE last
<1>. USE DEF EInv
<1>1. /\ page \in Index /\ slot[page] = EmptySlot /\ page - 1 \in Index
      /\ slot \in [Index -> Slot] /\ Loaded(slot) = last
  BY IndexRange DEF PageOfFlush, SlotsInOrder, TypeOK, LastIsKept, Index
<1>2. /\ slot[page - 1].used = "zero"
      /\ \A i \in Index : i > page - 1 => ~Valid(slot[i])
  <2>1. page - 1 < page
    BY <1>1, IndexRange
  <2>2. slot[page - 1].used = "zero"
    BY <1>1, <2>1 DEF PageOfFlush
  <2>3. ASSUME NEW i \in Index, i > page - 1 PROVE ~Valid(slot[i])
    <3>1. i = page \/ page < i
      BY <1>1, <2>3, IndexRange
    <3>2. page < i /\ slot[i].used = "zero" => slot[page].used = "zero"
      BY <1>1 DEF SlotsInOrder
    <3>. QED
      BY <1>1, <3>1, <3>2 DEF SlotsInOrder, EmptySlot, Valid
  <2>. QED
    BY <2>2, <2>3
<1>3. slot[page - 1].info = last
  BY <1>1, <1>2, LastUsed DEF Valid
\* Only the slot that is written changes.
<1>4. PICK s \in Slot : slot' = [slot EXCEPT ![page] = s]
  <2>1. CASE ProgramSlot
    <3>1. [used |-> "zero", info |-> Write(slot[page].info, ram)] \in Slot
      BY <1>1, WriteType DEF TypeOK, Slot, Marker
    <3>. QED
      BY <2>1, <3>1 DEF ProgramSlot
  <2>2. CASE TornProgram
    <3>1. TypeOK'
      BY StepEType
    <3>2. PICK u \in Marker, i \in {slot[page].info, Write(slot[page].info, ram), Junk} :
            slot' = [slot EXCEPT ![page] = [used |-> u, info |-> i]]
      BY <2>2 DEF TornProgram
    <3>3. slot'[page] = [used |-> u, info |-> i] /\ slot'[page] \in Slot
      BY <1>1, <3>1, <3>2 DEF TypeOK
    <3>. QED
      BY <3>2, <3>3
  <2>3. CASE slot' = slot
    <3>1. slot[page] \in Slot /\ slot' = [slot EXCEPT ![page] = slot[page]]
      BY <1>1, <2>3
    <3>. QED
      BY <3>1
  <2>4. \/ ProgramSlot \/ TornProgram \/ slot' = slot
    BY DEF Next, vars, Restart, ChangeInfo, FlushInfo, EraseInfoRow, TornErase, WriteLoader,
       ReceivePage, LoaderAbort, FlushLoader, EraseLoaderRow, ProgramLoaderPage,
       TornLoaderErase, TornLoaderPage
  <2>. QED
    BY <2>1, <2>2, <2>3, <2>4
<1>5. /\ slot' \in [Index -> Slot] /\ slot'[page] = s
      /\ \A i \in Index : i # page => slot'[i] = slot[i]
  BY <1>1, <1>4
<1>6. slot'[page - 1] = slot[page - 1]
  BY <1>1, <1>5, IndexRange
<1>7. CASE Valid(s)
  <2>1. \A i \in Index : i > page => ~Valid(slot'[i])
    BY <1>1, <1>2, <1>5, IndexRange
  <2>2. Loaded(slot') = slot'[page].info
    BY <1>1, <1>5, <1>7, <2>1, LastUsed
  <2>. QED
    BY <1>3, <1>5, <1>6, <1>7, <2>2
<1>8. CASE ~Valid(s)
  <2>1. \A i \in Index : i > page - 1 => ~Valid(slot'[i])
    BY <1>2, <1>5, <1>8
  <2>2. Loaded(slot') = slot'[page - 1].info
    BY <1>1, <1>2, <1>5, <1>6, <2>1, LastUsed DEF Valid
  <2>. QED
    BY <1>3, <1>5, <1>6, <1>8, <2>2
<1>. QED
  BY <1>7, <1>8

\* However eeprom_flush_loadinfo into a spare slot ends, power failing inside its write
\* included, the old load info stands in the row, and a restart takes it or what it finds
\* in the new slot, by the marker of that slot alone.
THEOREM OldInfoKept == Spec => SpareSlotKeepsOld
<1>1. EInv /\ [Next]_vars =>
        [pc = "program" /\ page > 0 /\ ~torn =>
           /\ slot'[page - 1].info = last
           /\ Loaded(slot') = IF Valid(slot'[page]) THEN slot'[page].info ELSE last]_vars
  BY SpareStep
<1>. QED
  BY InitEInv, StepEInv, <1>1, PTL DEF Spec, SpareSlotKeepsOld

\* eeprom_flush_loader never leaves pages of two loaders in the row, also when power fails
\* inside the erase of the row or the write of a page.
THEOREM OneLoader == Spec => []LoaderNotMixed
<1>1. EInv => LoaderNotMixed
  BY DEF EInv
<1>. QED
  BY InitEInv, StepEInv, <1>1, PTL DEF Spec

\* What eeprom_flush_loader has stored stays in the row, whole, until it is called again.
THEOREM StoredLoaderKept == Spec => []LoaderKept
<1>1. EInv => LoaderKept
  BY DEF EInv
<1>. QED
  BY InitEInv, StepEInv, <1>1, PTL DEF Spec

-----------------------------------------------------------------------------
\* The slots implement a store with one kept value.

LEMMA InitStore == Init => Store!Init
<1>. SUFFICES ASSUME Init PROVE Store!Init
  OBVIOUS
<1>1. Loaded(slot) = Blank
  <2>1. EInv
    BY InitEInv
  <2>. QED
    BY <2>1, NoneUsed DEF Init, EInv, TypeOK, EmptySlot, Valid
<1>. QED
  BY <1>1 DEF Init, Store!Init, flushing

LEMMA StepStore ==
  ASSUME EInv, EInv', [Next]_vars
  PROVE  [Store!Next]_Store!storeVars
<1>. USE DEF flushing
<1>1. CASE Restart \/ TornLoaderErase \/ TornLoaderPage
  <2>1. UNCHANGED <<slot, torn>> /\ eeprom_emu_init
    BY <1>1 DEF Restart, TornLoaderErase, TornLoaderPage
  <2>2. Store!Restart
    BY <2>1 DEF eeprom_emu_init, Over, Store!Restart
  <2>. QED
    BY <2>2 DEF Store!Next
<1>2. ASSUME NEW i \in Infos, ChangeInfo(i) PROVE Store!Change
  BY <1>2 DEF ChangeInfo, Store!Change
<1>3. CASE FlushInfo
  BY <1>3 DEF FlushInfo, infoVars, Store!Next, Store!Begin
<1>4. CASE EraseInfoRow
  <2>1. Loaded(slot') = Blank
    BY <1>4, NoneUsed DEF EraseInfoRow, EInv, TypeOK, EmptySlot, Valid
  <2>. QED
    BY <1>4, <2>1 DEF EraseInfoRow, Store!Next, Store!Forget
<1>5. CASE ProgramSlot
  <2>1. Loaded(slot') \in IF torn THEN Store!Any ELSE {ram}
    <3>1. CASE torn
      BY <3>1, LoadedType DEF EInv, TypeOK, Kept, Store!Any
    <3>2. CASE ~torn
      BY <1>5, <3>2, Programmed DEF EInv
    <3>. QED
      BY <3>1, <3>2
  <2>. QED
    BY <1>5, <2>1 DEF ProgramSlot, Over, Store!Next, Store!Commit
<1>6. CASE TornErase \/ TornProgram
  <2>1. Loaded(slot') \in Store!Any
    BY LoadedType DEF EInv, TypeOK, Kept, Store!Any
  <2>2. ram' = Loaded(slot') /\ torn' = TRUE /\ flushing /\ ~flushing'
    BY <1>6 DEF TornErase, TornProgram, eeprom_emu_init, Over
  <2>. QED
    BY <2>1, <2>2 DEF Store!Next, Store!Tear
<1>7. ASSUME NEW c \in Codes, WriteLoader(c) PROVE UNCHANGED Store!storeVars
  BY <1>7 DEF WriteLoader, infoVars, Store!storeVars
<1>8. CASE \/ ReceivePage \/ LoaderAbort \/ FlushLoader \/ EraseLoaderRow
          \/ ProgramLoaderPage
  <2>1. UNCHANGED <<ram, slot, torn>> /\ ~flushing /\ ~flushing'
    BY <1>8 DEF ReceivePage, LoaderAbort, FlushLoader, EraseLoaderRow,
       ProgramLoaderPage, Over, infoVars
  <2>. QED
    BY <2>1 DEF Store!storeVars
<1>9. CASE UNCHANGED vars
  BY <1>9 DEF vars, Store!storeVars
<1>. QED
  BY <1>1, <1>2, <1>3, <1>4, <1>5, <1>6, <1>7, <1>8, <1>9 DEF Next, Store!Next

\* eeprom.c implements LoadinfoStore: a flush that has ended is what the next restart
\* loads, through full rows, restarts and torn cycles, for any number of slots.
THEOREM StoreImplemented == Spec => StoreSpec
<1>1. Spec => []EInv
  BY InitEInv, StepEInv, PTL DEF Spec
<1>. QED
  BY <1>1, InitStore, StepStore, PTL DEF Spec, StoreSpec, Store!Spec

-----------------------------------------------------------------------------
\* The loops of the I2C driver, as functions of a number of bits.

LEMMA WeightRec ==
  I2c!Weight = [n \in 0 .. Bits |-> IF n = 0 THEN 1 ELSE 2 * I2c!Weight[n - 1]]
<1>1. Bits \in Nat \ {0}
  BY DriversAssumption
<1> DEFINE Loop(g, k) == [n \in 0 .. k |-> IF n = 0 THEN 1 ELSE 2 * g[n - 1]]
           has == {k \in Nat : \E g : g = Loop(g, k)}
<1>2. 0 \in has
  <2>1. [n \in 0 .. 0 |-> 1] = Loop([m \in 0 .. 0 |-> 1], 0)
    OBVIOUS
  <2>. QED
    BY <2>1
<1>3. \A k \in 0 .. Bits - 1 : k \in has => k + 1 \in has
  <2>. SUFFICES ASSUME NEW k \in 0 .. Bits - 1, NEW g, g = Loop(g, k)
               PROVE  k + 1 \in has
    OBVIOUS
  <2> DEFINE h == [n \in 0 .. k + 1 |-> IF n <= k THEN g[n] ELSE 2 * g[k]]
  <2>1. h = Loop(h, k + 1)
    OBVIOUS
  <2>2. k + 1 \in Nat
    OBVIOUS
  <2>. HIDE DEF h
  <2>. QED
    BY <2>1, <2>2
<1>. HIDE DEF has
<1>4. Bits \in has
  BY <1>1, <1>2, <1>3, CountUp
<1>5. PICK g : g = Loop(g, Bits)
  BY <1>4 DEF has
<1>. QED
  BY <1>5 DEF I2c!Weight

LEMMA SentRec ==
  ASSUME NEW c, NEW v
  PROVE  I2c!Sent(c, v) =
           [n \in 0 .. Bits |-> IF n = 0 THEN c
                                 ELSE I2c!SendBit(I2c!Sent(c, v)[n - 1], I2c!BitOf(v, n - 1))]
<1> DEFINE Loop(g, k) == [n \in 0 .. k |-> IF n = 0 THEN c
                                     ELSE I2c!SendBit(g[n - 1], I2c!BitOf(v, n - 1))]
           has == {k \in Nat : \E g : g = Loop(g, k)}
<1>1. Bits \in Nat
  BY DriversAssumption
<1>2. 0 \in has
  <2> DEFINE g == [n \in 0 .. 0 |-> c]
  <2>1. g = Loop(g, 0)
    OBVIOUS
  <2>. HIDE DEF g
  <2>. QED
    BY <2>1
<1>3. ASSUME NEW k \in 0 .. Bits - 1, k \in has
      PROVE  k + 1 \in has
  <2>1. PICK g : g = Loop(g, k)
    BY <1>3
  <2> DEFINE h == [n \in 0 .. k + 1 |-> IF n <= k THEN g[n] ELSE I2c!SendBit(g[k], I2c!BitOf(v, k))]
  <2>2. k \in Nat /\ k + 1 \in Nat
    BY <1>1
  <2>3. h = Loop(h, k + 1)
    <3>1. ASSUME NEW n \in 0 .. k + 1
          PROVE  h[n] = IF n = 0 THEN c ELSE I2c!SendBit(h[n - 1], I2c!BitOf(v, n - 1))
      <4>1. CASE n = 0
        BY <2>1, <2>2, <4>1
      <4>2. CASE n = k + 1
        <5>1. n - 1 = k /\ ~(n <= k) /\ n # 0 /\ h[k] = g[k]
          BY <2>2, <4>2
        <5>. QED
          BY <5>1
      <4>3. CASE n \in 1 .. k
        <5>1. n \in 0 .. k /\ n - 1 \in 0 .. k /\ n <= k /\ n - 1 <= k /\ n # 0
          BY <2>2, <4>3
        <5>2. h[n] = g[n] /\ h[n - 1] = g[n - 1]
          BY <2>2, <5>1
        <5>3. g[n] = I2c!SendBit(g[n - 1], I2c!BitOf(v, n - 1))
          BY <2>1, <5>1
        <5>. QED
          BY <5>1, <5>2, <5>3
      <4>. QED
        BY <2>2, <4>1, <4>2, <4>3
    <3>. QED
      BY <3>1
  <2>. HIDE DEF h
  <2>. QED
    BY <2>2, <2>3
<1>. HIDE DEF has
<1>4. Bits \in has
  BY <1>1, <1>2, <1>3, CountUp
<1>5. PICK g : g = Loop(g, Bits)
  BY <1>4 DEF has
<1>. QED
  BY <1>5 DEF I2c!Sent

LEMMA ReceivedRec ==
  ASSUME NEW c
  PROVE  I2c!Received(c) =
           [n \in 0 .. Bits |-> IF n = 0 THEN [chip |-> I2c!set_sda(c, TRUE), value |-> 0]
                                 ELSE I2c!RecvBit(I2c!Received(c)[n - 1])]
<1> DEFINE Loop(g, k) == [n \in 0 .. k |->
                                     IF n = 0 THEN [chip |-> I2c!set_sda(c, TRUE), value |-> 0]
                                     ELSE I2c!RecvBit(g[n - 1])]
           has == {k \in Nat : \E g : g = Loop(g, k)}
<1>1. Bits \in Nat
  BY DriversAssumption
<1>2. 0 \in has
  <2> DEFINE g == [n \in 0 .. 0 |-> [chip |-> I2c!set_sda(c, TRUE), value |-> 0]]
  <2>1. g = Loop(g, 0)
    OBVIOUS
  <2>. HIDE DEF g
  <2>. QED
    BY <2>1
<1>3. ASSUME NEW k \in 0 .. Bits - 1, k \in has
      PROVE  k + 1 \in has
  <2>1. PICK g : g = Loop(g, k)
    BY <1>3
  <2> DEFINE h == [n \in 0 .. k + 1 |-> IF n <= k THEN g[n] ELSE I2c!RecvBit(g[k])]
  <2>2. k \in Nat /\ k + 1 \in Nat
    BY <1>1
  <2>3. h = Loop(h, k + 1)
    <3>1. ASSUME NEW n \in 0 .. k + 1
          PROVE  h[n] = IF n = 0 THEN [chip |-> I2c!set_sda(c, TRUE), value |-> 0]
                        ELSE I2c!RecvBit(h[n - 1])
      <4>1. CASE n = 0
        BY <2>1, <2>2, <4>1
      <4>2. CASE n = k + 1
        <5>1. n - 1 = k /\ ~(n <= k) /\ n # 0 /\ h[k] = g[k]
          BY <2>2, <4>2
        <5>. QED
          BY <5>1
      <4>3. CASE n \in 1 .. k
        <5>1. n \in 0 .. k /\ n - 1 \in 0 .. k /\ n <= k /\ n - 1 <= k /\ n # 0
          BY <2>2, <4>3
        <5>2. h[n] = g[n] /\ h[n - 1] = g[n - 1]
          BY <2>2, <5>1
        <5>3. g[n] = I2c!RecvBit(g[n - 1])
          BY <2>1, <5>1
        <5>. QED
          BY <5>1, <5>2, <5>3
      <4>. QED
        BY <2>2, <4>1, <4>2, <4>3
    <3>. QED
      BY <3>1
  <2>. HIDE DEF h
  <2>. QED
    BY <2>2, <2>3
<1>. HIDE DEF has
<1>4. Bits \in has
  BY <1>1, <1>2, <1>3, CountUp
<1>5. PICK g : g = Loop(g, Bits)
  BY <1>4 DEF has
<1>. QED
  BY <1>5 DEF I2c!Received

LEMMA PulsedRec ==
  ASSUME NEW c
  PROVE  I2c!Pulsed(c) =
           [n \in 0 .. Bits + 1 |-> IF n = 0 THEN c ELSE I2c!Pulse(I2c!Pulsed(c)[n - 1])]
<1> DEFINE Loop(g, k) == [n \in 0 .. k |-> IF n = 0 THEN c ELSE I2c!Pulse(g[n - 1])]
           has == {k \in Nat : \E g : g = Loop(g, k)}
<1>1. Bits + 1 \in Nat
  BY DriversAssumption
<1>2. 0 \in has
  <2> DEFINE g == [n \in 0 .. 0 |-> c]
  <2>1. g = Loop(g, 0)
    OBVIOUS
  <2>. HIDE DEF g
  <2>. QED
    BY <2>1
<1>3. ASSUME NEW k \in 0 .. Bits + 1 - 1, k \in has
      PROVE  k + 1 \in has
  <2>1. PICK g : g = Loop(g, k)
    BY <1>3
  <2> DEFINE h == [n \in 0 .. k + 1 |-> IF n <= k THEN g[n] ELSE I2c!Pulse(g[k])]
  <2>2. k \in Nat /\ k + 1 \in Nat
    BY <1>1
  <2>3. h = Loop(h, k + 1)
    <3>1. ASSUME NEW n \in 0 .. k + 1
          PROVE  h[n] = IF n = 0 THEN c ELSE I2c!Pulse(h[n - 1])
      <4>1. CASE n = 0
        BY <2>1, <2>2, <4>1
      <4>2. CASE n = k + 1
        <5>1. n - 1 = k /\ ~(n <= k) /\ n # 0 /\ h[k] = g[k]
          BY <2>2, <4>2
        <5>. QED
          BY <5>1
      <4>3. CASE n \in 1 .. k
        <5>1. n \in 0 .. k /\ n - 1 \in 0 .. k /\ n <= k /\ n - 1 <= k /\ n # 0
          BY <2>2, <4>3
        <5>2. h[n] = g[n] /\ h[n - 1] = g[n - 1]
          BY <2>2, <5>1
        <5>3. g[n] = I2c!Pulse(g[n - 1])
          BY <2>1, <5>1
        <5>. QED
          BY <5>1, <5>2, <5>3
      <4>. QED
        BY <2>2, <4>1, <4>2, <4>3
    <3>. QED
      BY <3>1
  <2>. HIDE DEF h
  <2>. QED
    BY <2>2, <2>3
<1>. HIDE DEF has
<1>4. Bits + 1 \in has
  <2>1. PICK b \in Nat : b = Bits + 1
    BY <1>1
  <2>2. ASSUME NEW k \in 0 .. b - 1, k \in has
        PROVE  k + 1 \in has
    <3>1. k \in 0 .. Bits + 1 - 1
      BY <2>1, DriversAssumption
    <3>. QED
      BY <1>3, <2>2, <3>1
  <2>3. b \in 0 .. b
    OBVIOUS
  <2>4. b \in has
    BY <1>2, <2>2, <2>3, CountUp
  <2>. QED
    BY <2>1, <2>4
<1>5. PICK g : g = Loop(g, Bits + 1)
  BY <1>4 DEF has
<1>. QED
  BY <1>5 DEF I2c!Pulsed

-----------------------------------------------------------------------------
\* The bits of a byte.

LEMMA I2cSizes ==
  /\ Bits \in Nat \ {0} /\ Size \in Nat \ {0} /\ PageSize \in Nat \ {0} /\ Size % PageSize = 0
  /\ Addr = 0 .. Size - 1 /\ I2c!Addr = Addr
BY DriversAssumption DEF Addr, I2c!Addr

LEMMA Weights ==
  /\ I2c!Weight[0] = 1
  /\ \A n \in 0 .. Bits : I2c!Weight[n] \in Nat \ {0}
  /\ \A n \in 0 .. Bits - 1 : I2c!Weight[n + 1] = 2 * I2c!Weight[n]
<1> DEFINE W == I2c!Weight
<1>1. W = [n \in 0 .. Bits |-> IF n = 0 THEN 1 ELSE 2 * W[n - 1]] /\ Bits \in Nat \ {0}
  BY WeightRec, I2cSizes
<1>. HIDE DEF W
<1>2. W[0] = 1
  BY <1>1
<1>3. \A n \in 0 .. Bits - 1 : W[n + 1] = 2 * W[n]
  <2>. SUFFICES ASSUME NEW n \in 0 .. Bits - 1
                PROVE  W[n + 1] = 2 * W[n]
    OBVIOUS
  <2>1. n + 1 \in 0 .. Bits /\ n + 1 # 0 /\ n + 1 - 1 = n
    BY <1>1
  <2>. QED
    BY <1>1, <2>1
<1>4. \A n \in 0 .. Bits : W[n] \in Nat \ {0}
  <2> DEFINE S == {n \in Nat : W[n] \in Nat \ {0}}
  <2>1. 0 \in S
    BY <1>2
  <2>2. ASSUME NEW k \in 0 .. Bits - 1, k \in S
        PROVE  k + 1 \in S
    <3>1. W[k + 1] = 2 * W[k] /\ W[k] \in Nat \ {0} /\ k + 1 \in Nat
      BY <1>3, <2>2
    <3>. QED
      BY <3>1
  <2>3. \A k \in 0 .. Bits : k \in S
    <3>. HIDE DEF S
    <3>. QED
      BY <1>1, <2>1, <2>2, CountUp
  <2>. QED
    BY <2>3
<1>. QED
  BY <1>2, <1>3, <1>4 DEF W

LEMMA DivTwice ==
  ASSUME NEW v \in Nat, NEW m \in Nat \ {0}
  PROVE  v \div m = 2 * (v \div (2 * m)) + ((v \div m) % 2) /\ (v \div m) % 2 \in {0, 1}
<1>1. PICK q \in Nat, r \in Nat : q = v \div m /\ v = m * q + r /\ r < m
  <2>1. v \div m \in Nat /\ v % m \in Nat /\ v % m < m /\ v = m * (v \div m) + (v % m)
    BY DivMod
  <2>. QED
    BY <2>1
<1>2. PICK p \in Nat, s \in Nat : q = 2 * p + s /\ s < 2 /\ s = q % 2
  BY <1>1
<1>3. PICK t \in Nat : t = m * s + r /\ t < 2 * m
  <2>1. m * s <= m /\ m * s \in Nat
    <3>1. s = 0 \/ s = 1
      BY <1>2
    <3>. QED
      BY <3>1
  <2>2. m * s + r \in Nat /\ m * s + r < 2 * m
    BY <1>1, <2>1
  <2>. QED
    BY <2>2
<1>4. m * q = (2 * m) * p + m * s
  BY <1>2
<1>5. v = (2 * m) * p + t
  <2>1. m * q \in Nat /\ m * s \in Nat /\ (2 * m) * p \in Nat
    BY <1>1, <1>2
  <2>. QED
    BY <1>1, <1>3, <1>4, <2>1
<1>6. v \div (2 * m) = p
  <2>1. PICK d \in Nat \ {0} : d = 2 * m
    OBVIOUS
  <2>2. (d * p + t) \div d = p
    <3>1. d \in Nat \ {0} /\ p \in Nat /\ t \in Nat /\ t < d
      BY <1>3, <2>1
    <3>. QED
      BY <3>1
  <2>. QED
    BY <1>5, <2>1, <2>2
<1>. QED
  BY <1>1, <1>2, <1>6

LEMMA BitStep ==
  ASSUME NEW v \in Nat, NEW n \in 0 .. Bits - 1
  PROVE  /\ v \div I2c!Weight[Bits - (n + 1)] =
              2 * (v \div I2c!Weight[Bits - n]) + (IF I2c!BitOf(v, n) THEN 1 ELSE 0)
         /\ I2c!BitOf(v, n) \in BOOLEAN /\ v \div I2c!Weight[Bits - n] \in Nat
<1>1. PICK k \in 0 .. Bits - 1 : k = Bits - 1 - n /\ k = Bits - (n + 1) /\ k + 1 = Bits - n
  BY I2cSizes
<1>2. PICK m \in Nat \ {0} : m = I2c!Weight[k] /\ I2c!Weight[k + 1] = 2 * m
  <2>1. k \in 0 .. Bits
    BY <1>1, I2cSizes
  <2>. QED
    BY <2>1, Weights
<1>3. v \div m = 2 * (v \div (2 * m)) + ((v \div m) % 2) /\ (v \div m) % 2 \in {0, 1}
  BY DivTwice
<1>4. I2c!BitOf(v, n) = ((v \div m) % 2 = 1)
  BY <1>1, <1>2 DEF I2c!BitOf
<1>5. v \div (2 * m) \in Nat
  BY DivMod
<1>. QED
  BY <1>1, <1>2, <1>3, <1>4, <1>5

LEMMA BitEnds ==
  /\ Erased \in Nat /\ I2c!Weight[Bits] = Erased + 1 /\ Bits - 0 = Bits
  /\ \A v \in 0 .. Erased : v \div I2c!Weight[Bits] = 0 /\ v \div I2c!Weight[0] = v
<1>1. PICK w \in Nat \ {0} : w = I2c!Weight[Bits] /\ Erased = w - 1
  BY Weights, DriversAssumption, I2cSizes
<1>2. Erased \in Nat /\ w = Erased + 1
  BY <1>1
<1>3. \A v \in 0 .. Erased : v \div w = 0 /\ v \div 1 = v
  BY <1>1, <1>2
<1>. QED
  BY <1>1, <1>2, <1>3, Weights, I2cSizes

-----------------------------------------------------------------------------
\* The wires and the chip.

Taking == {"dev", "high", "low", "data"}
Byte == 0 .. Erased

I2cChip ==
  [mem : [Addr -> Byte], latch : [Addr -> Byte \cup {NoByte}],
   phase : Taking \cup {"idle", "send"}, bit : 0 .. Bits + 1, reg : Nat, ptr : Addr,
   pull : BOOLEAN, busy : BOOLEAN, scl : BOOLEAN, sda : BOOLEAN]

\* Only the bit count and the wires differ.
SameByte(c, d) ==
  /\ d.mem = c.mem /\ d.latch = c.latch /\ d.ptr = c.ptr /\ d.busy = c.busy
  /\ d.phase = c.phase

\* The chip does not take bytes, whatever the master means.
Deaf(c) ==
  /\ c \in I2cChip /\ c.phase \in {"idle", "send"} /\ c.latch = NoBytes
  /\ c.phase = "idle" => ~c.pull
  /\ c.phase = "send" /\ ~c.scl => c.bit <= Bits /\ (c.bit = Bits => ~c.pull)

DeafTo(c, d) ==
  /\ Deaf(d) /\ d.mem = c.mem /\ d.busy = c.busy
  /\ c.phase = "idle" => d.phase = "idle"

LEMMA NothingLatched == I2c!NothingLatched = NoBytes
BY I2cSizes DEF I2c!NothingLatched, NoBytes

LEMMA I2cIdle ==
  ASSUME NEW c \in I2cChip
  PROVE  LET d == I2c!Idle(c)
         IN  /\ d \in I2cChip /\ d.phase = "idle" /\ d.latch = NoBytes /\ d.pull = FALSE
             /\ d.mem = c.mem /\ d.busy = c.busy /\ d.scl = c.scl /\ d.sda = c.sda
             /\ d.bit = 0 /\ d.reg = 0 /\ d.ptr = c.ptr
<1>1. NoBytes \in [Addr -> Byte \cup {NoByte}]
  BY DEF NoBytes
<1>. QED
  <2>1. 0 \in 0 .. Bits + 1 /\ 0 \in Nat
    BY I2cSizes
  <2>2. I2c!Idle(c) = [c EXCEPT !.phase = "idle", !.bit = 0, !.reg = 0, !.pull = FALSE,
                                !.latch = NoBytes]
    BY NothingLatched DEF I2c!Idle
  <2>. QED
    BY <1>1, <2>1, <2>2 DEF I2cChip

\* The chip sends the byte at p.
LEMMA I2cSend ==
  ASSUME NEW c \in I2cChip, NEW p \in Addr
  PROVE  LET d == I2c!Send(c, p)
         IN  /\ d \in I2cChip /\ d.phase = "send" /\ d.bit = 0 /\ d.ptr = p
             /\ d.pull = ~I2c!BitOf(c.mem[p], 0)
             /\ d.mem = c.mem /\ d.latch = c.latch /\ d.busy = c.busy /\ d.scl = c.scl
             /\ d.sda = c.sda
<1> DEFINE x == ~I2c!BitOf(c.mem[p], 0)
<1>1. x \in BOOLEAN
  OBVIOUS
<1>2. I2c!Send(c, p) = [c EXCEPT !.phase = "send", !.bit = 0, !.reg = 0, !.ptr = p, !.pull = x]
  BY DEF I2c!Send
<1>. HIDE DEF x
<1>3. LET d == [c EXCEPT !.phase = "send", !.bit = 0, !.reg = 0, !.ptr = p, !.pull = x]
      IN  /\ d \in I2cChip /\ d.phase = "send" /\ d.bit = 0 /\ d.ptr = p /\ d.pull = x
          /\ d.mem = c.mem /\ d.latch = c.latch /\ d.busy = c.busy /\ d.scl = c.scl
          /\ d.sda = c.sda
  <2>1. 0 \in 0 .. Bits + 1 /\ 0 \in Nat
    BY I2cSizes
  <2>. QED
    BY <1>1, <2>1 DEF I2cChip
<1>. QED
  BY <1>2, <1>3 DEF x

\* The clock line of a chip that takes a byte, before its last bit.
LEMMA BitHeard ==
  ASSUME NEW c \in I2cChip, c.phase \in Taking, c.bit < Bits, ~c.pull, c.scl => c.bit > 0,
         NEW x \in BOOLEAN
  PROVE  LET d == I2c!SendBit(c, x)
         IN  /\ d \in I2cChip /\ SameByte(c, d) /\ d.bit = c.bit + 1
             /\ d.reg = 2 * c.reg + (IF x THEN 1 ELSE 0)
             /\ d.pull = FALSE /\ d.scl = TRUE
<1> DEFINE d1 == I2c!set_scl(c, FALSE)
           d2 == I2c!set_sda(d1, x)
           d3 == I2c!set_scl(d2, TRUE)
<1>1. d1 = [c EXCEPT !.scl = FALSE]
  <2>1. CASE c.scl
    <3>1. c.phase \notin {"idle", "send"} /\ c.bit # Bits /\ c.bit # Bits + 1
      BY I2cSizes DEF Taking, I2cChip
    <3>2. I2c!Fall(c) = c
      BY <3>1 DEF I2c!Fall, I2c!Takes
    <3>. QED
      BY <2>1, <3>2 DEF I2c!set_scl
  <2>2. CASE ~c.scl
    <3>1. c.scl = FALSE
      BY <2>2 DEF I2cChip
    <3>2. d1 = c
      BY <3>1 DEF I2c!set_scl
    <3>. QED
      BY <3>1, <3>2 DEF I2cChip
  <2>. QED
    BY <2>1, <2>2
<1>2. /\ d1 \in I2cChip /\ SameByte(c, d1) /\ d1.scl = FALSE /\ d1.bit = c.bit /\ d1.reg = c.reg
      /\ d1.pull = FALSE
  <2>. HIDE DEF d1
  <2>. QED
    BY <1>1 DEF I2cChip, SameByte
<1>. HIDE DEF d1
<1>3. d2 = [d1 EXCEPT !.sda = x]
  BY <1>2 DEF I2c!set_sda
<1>4. /\ d2 \in I2cChip /\ SameByte(c, d2) /\ d2.scl = FALSE /\ d2.bit = c.bit /\ d2.reg = c.reg
      /\ d2.pull = FALSE /\ d2.sda = x
  <2>. HIDE DEF d2
  <2>. QED
    BY <1>2, <1>3 DEF I2cChip, SameByte
<1>. HIDE DEF d2
<1> DEFINE r == 2 * c.reg + (IF x THEN 1 ELSE 0)
           b == c.bit + 1
<1>5. r \in Nat /\ b \in 0 .. Bits + 1
  BY I2cSizes DEF I2cChip
<1>6. d3 = [d2 EXCEPT !.bit = b, !.reg = r, !.scl = TRUE]
  <2>1. I2c!Takes(d2) /\ d2.phase \notin {"idle", "send"} /\ d2.bit < Bits
    BY <1>4 DEF Taking, SameByte, I2c!Takes
  <2>2. I2c!Line(d2) <=> x
    BY <1>4 DEF I2c!Line
  <2>3. I2c!Rise(d2) = [d2 EXCEPT !.bit = b, !.reg = r]
    BY <1>4, <2>1, <2>2 DEF I2c!Rise, I2c!Takes
  <2>. QED
    BY <1>4, <2>3 DEF I2c!set_scl
<1>. HIDE DEF r, b, d3
<1>7. /\ d3 \in I2cChip /\ SameByte(c, d3) /\ d3.bit = b /\ d3.reg = r /\ d3.pull = FALSE
      /\ d3.scl = TRUE
  BY <1>4, <1>5, <1>6 DEF I2cChip, SameByte
<1>. QED
  BY <1>7 DEF I2c!SendBit, d1, d2, d3, r, b

LEMMA SentHeard ==
  ASSUME NEW c \in I2cChip, c.phase \in Taking, c.bit = 0, c.reg = 0, ~c.pull, ~c.scl,
         NEW v \in Byte
  PROVE  LET d == I2c!Sent(c, v)[Bits]
         IN  d \in I2cChip /\ SameByte(c, d) /\ d.bit = Bits /\ d.reg = v /\ ~d.pull /\ d.scl
<1> DEFINE s == I2c!Sent(c, v)
           heard == {n \in 0 .. Bits : /\ s[n] \in I2cChip /\ SameByte(c, s[n]) /\ s[n].bit = n
                                       /\ s[n].reg = v \div I2c!Weight[Bits - n]
                                       /\ ~s[n].pull /\ (s[n].scl <=> n > 0)}
<1>1. s = [n \in 0 .. Bits |-> IF n = 0 THEN c ELSE I2c!SendBit(s[n - 1], I2c!BitOf(v, n - 1))]
  BY SentRec
<1>. HIDE DEF s
<1>2. Bits \in Nat \ {0} /\ v \in Nat /\ v \div I2c!Weight[Bits - 0] = 0
  BY I2cSizes, BitEnds DEF Byte
<1>3. 0 \in heard
  <2>1. 0 \in 0 .. Bits /\ s[0] = c
    BY <1>1, <1>2
  <2>2. SameByte(c, c)
    BY DEF SameByte
  <2>. QED
    BY <1>2, <2>1, <2>2
<1>4. ASSUME NEW n \in 0 .. Bits - 1, n \in heard
      PROVE  n + 1 \in heard
  <2>1. n + 1 \in 0 .. Bits /\ n + 1 # 0 /\ n + 1 - 1 = n /\ n < Bits /\ n + 1 > 0
    BY <1>2
  <2>2. PICK x \in BOOLEAN : x = I2c!BitOf(v, n)
    BY <1>2, BitStep
  <2>3. s[n + 1] = I2c!SendBit(s[n], x)
    <3>1. PICK m \in 0 .. Bits : m = n + 1 /\ m # 0 /\ m - 1 = n
      BY <2>1
    <3>2. s[m] = I2c!SendBit(s[m - 1], I2c!BitOf(v, m - 1))
      BY <1>1, <3>1
    <3>. QED
      BY <2>2, <3>1, <3>2
  <2>4. /\ s[n] \in I2cChip /\ SameByte(c, s[n]) /\ s[n].bit = n /\ ~s[n].pull
        /\ s[n].reg = v \div I2c!Weight[Bits - n] /\ (s[n].scl => n > 0)
        /\ s[n].phase \in Taking
    BY <1>4 DEF SameByte
  <2> DEFINE d == I2c!SendBit(s[n], x)
  <2>5. /\ d \in I2cChip /\ SameByte(s[n], d) /\ d.bit = n + 1
        /\ d.reg = 2 * s[n].reg + (IF x THEN 1 ELSE 0) /\ d.pull = FALSE /\ d.scl = TRUE
    BY <2>1, <2>4, BitHeard
  <2>. HIDE DEF d
  <2>6. d.reg = v \div I2c!Weight[Bits - (n + 1)]
    BY <1>2, <2>2, <2>4, <2>5, BitStep
  <2>7. s[n + 1] = d
    BY <2>3 DEF d
  <2>. QED
    BY <2>1, <2>4, <2>5, <2>6, <2>7 DEF SameByte
<1>. HIDE DEF heard
<1>5. Bits \in heard
  BY <1>2, <1>3, <1>4, CountUp
<1>6. Bits - Bits = 0 /\ v \div I2c!Weight[0] = v /\ Bits > 0
  BY <1>2, BitEnds DEF Byte
<1>. QED
  BY <1>5, <1>6 DEF heard, s

\* The acknowledge of a byte taken, and the clock pulse in which it is read.
LEMMA AckGiven ==
  ASSUME NEW c \in I2cChip, c.phase \in Taking, c.bit = Bits, c.pull, ~c.scl
  PROVE  LET up == I2c!set_scl(I2c!set_sda(c, TRUE), TRUE)
         IN  /\ up \in I2cChip /\ SameByte(c, up) /\ up.bit = Bits + 1 /\ up.reg = c.reg
             /\ up.pull = TRUE /\ up.scl = TRUE /\ up.sda = TRUE
<1> DEFINE d == I2c!set_sda(c, TRUE)
           b == c.bit + 1
<1>1. d = [c EXCEPT !.sda = TRUE]
  BY DEF I2c!set_sda
<1>2. /\ d \in I2cChip /\ SameByte(c, d) /\ d.scl = FALSE /\ d.bit = Bits /\ d.reg = c.reg
      /\ d.pull = TRUE /\ d.sda = TRUE
  <2>. HIDE DEF d
  <2>. QED
    BY <1>1 DEF I2cChip, SameByte
<1>. HIDE DEF d
<1>3. b \in 0 .. Bits + 1 /\ b = Bits + 1 /\ Bits \in Nat
  BY I2cSizes
<1>4. I2c!set_scl(d, TRUE) = [d EXCEPT !.bit = b, !.scl = TRUE]
  <2>1. d.phase \notin {"idle", "send"} /\ ~(d.bit < Bits) /\ d.bit + 1 = b
    BY <1>2, <1>3 DEF Taking, SameByte
  <2>2. I2c!Rise(d) = [d EXCEPT !.bit = b]
    BY <2>1 DEF I2c!Rise, I2c!Takes
  <2>. QED
    BY <1>2, <2>2 DEF I2c!set_scl
<1>. HIDE DEF b
<1> DEFINE up == I2c!set_scl(d, TRUE)
<1>5. /\ up \in I2cChip /\ SameByte(c, up) /\ up.bit = b /\ up.reg = c.reg
      /\ up.pull = TRUE /\ up.scl = TRUE /\ up.sda = TRUE
  <2>. HIDE DEF up
  <2>. QED
    BY <1>2, <1>3, <1>4 DEF I2cChip, SameByte, up
<1>. QED
  BY <1>3, <1>5 DEF d

\* Between two bytes: the chip takes the next one, or sends it.
Hears(c, ph) ==
  /\ c \in I2cChip /\ c.phase = ph /\ c.bit = 0 /\ c.reg = 0 /\ c.pull = FALSE /\ c.scl = FALSE
Sends(c) ==
  /\ c \in I2cChip /\ c.phase = "send" /\ c.bit = 0 /\ c.scl = FALSE
  /\ c.pull = ~I2c!BitOf(c.mem[c.ptr], 0)

AfterPhase(ph) == CASE ph = "dev" -> "high" [] ph = "high" -> "low" [] OTHER -> "data"

LEMMA AckTaken ==
  ASSUME NEW c \in I2cChip, c.phase \in Taking, c.bit = Bits, c.pull, ~c.scl
  PROVE  LET e == I2c!set_scl(I2c!set_scl(I2c!set_sda(c, TRUE), TRUE), FALSE)
         IN  /\ IF c.phase = "dev" /\ c.reg % 2 = 1 THEN Sends(e)
                ELSE Hears(e, AfterPhase(c.phase))
             /\ e.mem = c.mem /\ e.latch = c.latch /\ e.ptr = c.ptr /\ e.busy = c.busy
<1> DEFINE up == I2c!set_scl(I2c!set_sda(c, TRUE), TRUE)
           d == I2c!Continue(up)
           e == I2c!set_scl(up, FALSE)
<1>1. /\ up \in I2cChip /\ SameByte(c, up) /\ up.bit = Bits + 1 /\ up.reg = c.reg
      /\ up.pull = TRUE /\ up.scl = TRUE /\ up.sda = TRUE
  BY AckGiven
<1>. HIDE DEF up
<1>2. e = [d EXCEPT !.scl = FALSE]
  <2>1. I2c!Takes(up) /\ up.phase \notin {"idle", "send"} /\ up.bit # Bits
    BY <1>1, I2cSizes DEF Taking, SameByte, I2c!Takes
  <2>2. I2c!Fall(up) = d
    BY <1>1, <2>1 DEF I2c!Fall
  <2>. QED
    BY <1>1, <2>2 DEF I2c!set_scl
<1>3. CASE c.phase = "dev" /\ c.reg % 2 = 1
  <2>1. d = I2c!Send(up, up.ptr) /\ up.ptr \in Addr
    BY <1>1, <1>3 DEF I2c!Continue, SameByte, I2cChip
  <2>2. /\ d \in I2cChip /\ d.phase = "send" /\ d.bit = 0 /\ d.ptr = up.ptr
        /\ d.pull = ~I2c!BitOf(up.mem[up.ptr], 0)
        /\ d.mem = up.mem /\ d.latch = up.latch /\ d.busy = up.busy
    BY <1>1, <2>1, I2cSend
  <2>. HIDE DEF d, e
  <2>3. /\ e \in I2cChip /\ e.phase = "send" /\ e.bit = 0 /\ e.ptr = d.ptr /\ e.pull = d.pull
        /\ e.mem = d.mem /\ e.latch = d.latch /\ e.busy = d.busy /\ e.scl = FALSE
    BY <1>2, <2>2 DEF I2cChip
  <2>4. Sends(e) /\ e.mem = c.mem /\ e.latch = c.latch /\ e.ptr = c.ptr /\ e.busy = c.busy
    BY <1>1, <2>2, <2>3 DEF Sends, SameByte
  <2>. QED
    BY <1>3, <2>4 DEF e, up
<1>4. CASE ~(c.phase = "dev" /\ c.reg % 2 = 1)
  <2> DEFINE ph == AfterPhase(c.phase)
  <2>1. ph \in Taking
    BY DEF Taking, AfterPhase
  <2>2. d = [up EXCEPT !.bit = 0, !.reg = 0, !.pull = FALSE, !.phase = ph]
    BY <1>1, <1>4 DEF I2c!Continue, AfterPhase, SameByte
  <2>3. 0 \in 0 .. Bits + 1 /\ 0 \in Nat
    BY I2cSizes
  <2>. HIDE DEF ph, d, e
  <2>4. /\ d \in I2cChip /\ d.phase = ph /\ d.bit = 0 /\ d.reg = 0 /\ d.pull = FALSE
        /\ d.mem = up.mem /\ d.latch = up.latch /\ d.ptr = up.ptr /\ d.busy = up.busy
    BY <1>1, <2>1, <2>2, <2>3 DEF I2cChip
  <2>5. /\ e \in I2cChip /\ e.phase = ph /\ e.bit = 0 /\ e.reg = 0 /\ e.pull = FALSE
        /\ e.mem = d.mem /\ e.latch = d.latch /\ e.ptr = d.ptr /\ e.busy = d.busy /\ e.scl = FALSE
    BY <1>2, <2>4 DEF I2cChip
  <2>6. Hears(e, ph) /\ e.mem = c.mem /\ e.latch = c.latch /\ e.ptr = c.ptr /\ e.busy = c.busy
    BY <1>1, <2>4, <2>5 DEF Hears, SameByte
  <2>. QED
    BY <1>4, <2>6 DEF e, up, ph
<1>. QED
  BY <1>3, <1>4

-----------------------------------------------------------------------------
\* A chip that does not take bytes.

LEMMA DeafScl ==
  ASSUME NEW c, Deaf(c), NEW x \in BOOLEAN
  PROVE  LET d == I2c!set_scl(c, x)
         IN  DeafTo(c, d) /\ d.scl = x /\ d.sda = c.sda
<1>1. CASE c.scl = x
  BY <1>1 DEF I2c!set_scl, DeafTo, Deaf, I2cChip
<1>2. CASE x /\ ~c.scl
  <2> DEFINE d == I2c!Rise(c)
             e == I2c!set_scl(c, x)
  <2>1. e = [d EXCEPT !.scl = TRUE]
    BY <1>2 DEF I2c!set_scl
  <2>2. /\ d \in I2cChip /\ d.phase \in {"idle", "send"} /\ d.latch = NoBytes
        /\ d.phase = "idle" => ~d.pull
        /\ c.phase = "idle" => d.phase = "idle"
        /\ d.mem = c.mem /\ d.busy = c.busy /\ d.sda = c.sda
    <3>1. CASE c.phase = "idle"
      <4>1. d = c
        BY <3>1 DEF I2c!Rise, I2c!Takes
      <4>. HIDE DEF d
      <4>. QED
        BY <3>1, <4>1 DEF Deaf
    <3>2. CASE c.phase = "send" /\ c.bit = Bits /\ I2c!Line(c)
      <4>1. d = I2c!Idle(c)
        BY <3>2 DEF I2c!Rise, I2c!Takes
      <4>. QED
        BY <3>2, <4>1, I2cIdle DEF Deaf
    <3>3. CASE c.phase = "send" /\ ~(c.bit = Bits /\ I2c!Line(c))
      <4> DEFINE b == c.bit + 1
      <4>1. d = [c EXCEPT !.bit = b]
        BY <3>3 DEF I2c!Rise, I2c!Takes
      <4>2. b \in 0 .. Bits + 1
        BY <1>2, <3>3, I2cSizes DEF Deaf, I2cChip
      <4>. HIDE DEF b, d
      <4>. QED
        BY <3>3, <4>1, <4>2 DEF Deaf, I2cChip
    <3>. QED
      BY <3>1, <3>2, <3>3 DEF Deaf
  <2>. HIDE DEF d, e
  <2>3. /\ e \in I2cChip /\ e.phase = d.phase /\ e.latch = d.latch /\ e.pull = d.pull
        /\ e.mem = d.mem /\ e.busy = d.busy /\ e.scl = TRUE /\ e.sda = d.sda
    BY <2>1, <2>2 DEF I2cChip
  <2>4. DeafTo(c, e) /\ e.scl = x /\ e.sda = c.sda
    BY <1>2, <2>2, <2>3 DEF DeafTo, Deaf
  <2>. QED
    BY <2>4 DEF e
<1>3. CASE ~x /\ c.scl
  <2> DEFINE d == I2c!Fall(c)
             e == I2c!set_scl(c, x)
  <2>1. e = [d EXCEPT !.scl = FALSE]
    BY <1>3 DEF I2c!set_scl
  <2>2. /\ d \in I2cChip /\ d.phase = c.phase /\ d.latch = NoBytes
        /\ d.phase = "idle" => ~d.pull
        /\ d.phase = "send" => d.bit <= Bits /\ (d.bit = Bits => ~d.pull)
        /\ d.mem = c.mem /\ d.busy = c.busy /\ d.sda = c.sda
    <3>1. CASE c.phase = "idle"
      <4>1. d = c
        BY <3>1 DEF I2c!Fall, I2c!Takes
      <4>. HIDE DEF d
      <4>. QED
        BY <3>1, <4>1 DEF Deaf
    <3>2. CASE c.phase = "send" /\ c.bit < Bits
      <4> DEFINE y == ~I2c!BitOf(c.mem[c.ptr], c.bit)
      <4>1. d = [c EXCEPT !.pull = y]
        BY <3>2, I2cSizes DEF I2c!Fall, I2c!Takes
      <4>2. y \in BOOLEAN
        OBVIOUS
      <4>3. c.bit \in Int /\ Bits \in Int
        BY I2cSizes DEF Deaf, I2cChip
      <4>. HIDE DEF y, d
      <4>. QED
        BY <3>2, <4>1, <4>2, <4>3 DEF Deaf, I2cChip
    <3>3. CASE c.phase = "send" /\ c.bit = Bits
      <4>1. d = [c EXCEPT !.pull = FALSE]
        BY <3>3, I2cSizes DEF I2c!Fall, I2c!Takes
      <4>. HIDE DEF d
      <4>. QED
        <5>1. /\ d \in I2cChip /\ d.phase = c.phase /\ d.latch = c.latch /\ d.pull = FALSE
              /\ d.bit = c.bit /\ d.mem = c.mem /\ d.busy = c.busy /\ d.sda = c.sda
          BY <4>1 DEF Deaf, I2cChip
        <5>2. Bits <= Bits
          BY I2cSizes
        <5>. QED
          BY <3>3, <5>1, <5>2 DEF Deaf
    <3>4. CASE c.phase = "send" /\ c.bit = Bits + 1
      <4> DEFINE p == (c.ptr + 1) % Size
      <4>1. d = I2c!Send(c, p)
        BY <3>4, I2cSizes DEF I2c!Fall, I2c!Takes
      <4>2. p \in Addr
        <5>1. c.ptr + 1 \in Nat
          BY I2cSizes DEF Deaf, I2cChip
        <5>. QED
          BY <5>1, I2cSizes, DivMod
      <4>3. 0 <= Bits /\ 0 # Bits
        BY I2cSizes
      <4>. HIDE DEF p
      <4>. QED
        BY <3>4, <4>1, <4>2, <4>3, I2cSend DEF Deaf
    <3>5. c.phase \in {"idle", "send"} /\ (c.bit < Bits \/ c.bit = Bits \/ c.bit = Bits + 1)
      BY I2cSizes DEF Deaf, I2cChip
    <3>. QED
      BY <3>1, <3>2, <3>3, <3>4, <3>5
  <2>. HIDE DEF d, e
  <2>3. /\ e \in I2cChip /\ e.phase = d.phase /\ e.latch = d.latch /\ e.pull = d.pull
        /\ e.mem = d.mem /\ e.busy = d.busy /\ e.scl = FALSE /\ e.sda = d.sda /\ e.bit = d.bit
    BY <2>1, <2>2 DEF I2cChip
  <2>4. DeafTo(c, e) /\ e.scl = x /\ e.sda = c.sda
    BY <1>3, <2>2, <2>3 DEF DeafTo, Deaf
  <2>. QED
    BY <2>4 DEF e
<1>. QED
  BY <1>1, <1>2, <1>3 DEF Deaf, I2cChip

LEMMA DeafChain ==
  ASSUME NEW c, NEW d, NEW e, DeafTo(c, d), DeafTo(d, e)
  PROVE  DeafTo(c, e)
BY DEF DeafTo

LEMMA DeafSda ==
  ASSUME NEW c, Deaf(c), ~c.scl, NEW x \in BOOLEAN
  PROVE  LET d == I2c!set_sda(c, x)
         IN  DeafTo(c, d) /\ d.scl = FALSE /\ d.sda = x
<1>1. I2c!set_sda(c, x) = [c EXCEPT !.sda = x] /\ c.scl = FALSE
  <2>1. c.scl = FALSE
    BY DEF Deaf, I2cChip
  <2>. QED
    BY <2>1 DEF I2c!set_sda
<1>. QED
  BY <1>1 DEF DeafTo, Deaf, I2cChip

LEMMA DeafBit ==
  ASSUME NEW c, Deaf(c), NEW x \in BOOLEAN
  PROVE  LET d == I2c!SendBit(c, x)
         IN  DeafTo(c, d) /\ d.scl = TRUE /\ d.sda = x
<1> DEFINE d1 == I2c!set_scl(c, FALSE)
           d2 == I2c!set_sda(d1, x)
           d3 == I2c!set_scl(d2, TRUE)
<1>1. DeafTo(c, d1) /\ d1.scl = FALSE
  BY DeafScl
<1>. HIDE DEF d1
<1>2. DeafTo(d1, d2) /\ d2.sda = x
  BY <1>1, DeafSda DEF DeafTo
<1>. HIDE DEF d2
<1>3. DeafTo(d2, d3) /\ d3.scl = TRUE /\ d3.sda = d2.sda
  BY <1>2, DeafScl DEF DeafTo
<1>4. d3 = I2c!SendBit(c, x)
  BY DEF I2c!SendBit, d1, d2
<1>. HIDE DEF d3
<1>. QED
  BY <1>1, <1>2, <1>3, <1>4 DEF DeafTo

LEMMA DeafSent ==
  ASSUME NEW c, Deaf(c), NEW v
  PROVE  DeafTo(c, I2c!Sent(c, v)[Bits])
<1> DEFINE s == I2c!Sent(c, v)
           deaf == {n \in 0 .. Bits : DeafTo(c, s[n])}
<1>1. s = [n \in 0 .. Bits |-> IF n = 0 THEN c ELSE I2c!SendBit(s[n - 1], I2c!BitOf(v, n - 1))]
  BY SentRec
<1>. HIDE DEF s
<1>2. Bits \in Nat
  BY I2cSizes
<1>3. 0 \in deaf
  BY <1>1, <1>2 DEF DeafTo
<1>4. ASSUME NEW n \in 0 .. Bits - 1, n \in deaf
      PROVE  n + 1 \in deaf
  <2>1. PICK m \in 0 .. Bits : m = n + 1 /\ m # 0 /\ m - 1 = n
    BY <1>2
  <2>2. PICK x \in BOOLEAN : x = I2c!BitOf(v, n)
    BY DEF I2c!BitOf
  <2>3. s[m] = I2c!SendBit(s[m - 1], I2c!BitOf(v, m - 1))
    BY <1>1, <2>1
  <2>4. s[m] = I2c!SendBit(s[n], x)
    BY <2>1, <2>2, <2>3
  <2>5. DeafTo(c, s[n]) /\ Deaf(s[n])
    BY <1>4 DEF DeafTo
  <2>6. DeafTo(s[n], s[m])
    BY <2>4, <2>5, DeafBit
  <2>. QED
    BY <2>1, <2>5, <2>6, DeafChain
<1>. HIDE DEF deaf
<1>5. Bits \in deaf
  BY <1>2, <1>3, <1>4, CountUp
<1>. QED
  BY <1>5 DEF deaf, s

LEMMA DeafByte ==
  ASSUME NEW c, Deaf(c), NEW v
  PROVE  LET d == I2c!i2c_send_byte(c, v)
         IN  DeafTo(c, d) /\ d.scl = FALSE
<1> DEFINE d1 == I2c!Sent(c, v)[Bits]
           d2 == I2c!SendBit(d1, TRUE)
           d3 == I2c!set_scl(d2, FALSE)
<1>1. DeafTo(c, d1)
  BY DeafSent
<1>. HIDE DEF d1
<1>2. DeafTo(d1, d2)
  BY <1>1, DeafBit DEF DeafTo
<1>. HIDE DEF d2
<1>3. DeafTo(d2, d3) /\ d3.scl = FALSE
  BY <1>2, DeafScl DEF DeafTo
<1>4. d3 = I2c!i2c_send_byte(c, v)
  BY DEF I2c!i2c_send_byte, I2c!SendBits, d1, d2
<1>. HIDE DEF d3
<1>. QED
  BY <1>1, <1>2, <1>3, <1>4, DeafChain

LEMMA DeafReceived ==
  ASSUME NEW c, Deaf(c), ~c.scl
  PROVE  DeafTo(c, I2c!RecvBits(c).chip) /\ I2c!RecvBits(c).chip.scl = FALSE
<1> DEFINE s == I2c!Received(c)
           deaf == {n \in 0 .. Bits : DeafTo(c, s[n].chip) /\ s[n].chip.scl = FALSE}
           d0 == I2c!set_sda(c, TRUE)
<1>1. s = [n \in 0 .. Bits |-> IF n = 0 THEN [chip |-> d0, value |-> 0]
                               ELSE I2c!RecvBit(s[n - 1])]
  BY ReceivedRec
<1>2. DeafTo(c, d0) /\ d0.scl = FALSE
  BY DeafSda
<1>. HIDE DEF s, d0
<1>3. Bits \in Nat
  BY I2cSizes
<1>4. 0 \in deaf
  BY <1>1, <1>2, <1>3
<1>5. ASSUME NEW n \in 0 .. Bits - 1, n \in deaf
      PROVE  n + 1 \in deaf
  <2>1. PICK m \in 0 .. Bits : m = n + 1 /\ m # 0 /\ m - 1 = n
    BY <1>3
  <2>2. s[m] = I2c!RecvBit(s[n])
    BY <1>1, <2>1
  <2> DEFINE b == s[n].chip
             up == I2c!set_scl(b, TRUE)
             down == I2c!set_scl(up, FALSE)
  <2>3. DeafTo(c, b)
    BY <1>5
  <2>. HIDE DEF b
  <2>4. DeafTo(b, up)
    BY <2>3, DeafScl DEF DeafTo
  <2>. HIDE DEF up
  <2>5. DeafTo(up, down) /\ down.scl = FALSE
    BY <2>4, DeafScl DEF DeafTo
  <2>6. s[m].chip = down
    BY <2>2 DEF I2c!RecvBit, b, up
  <2>. HIDE DEF down
  <2>7. DeafTo(c, down)
    BY <2>3, <2>4, <2>5, DeafChain
  <2>. QED
    BY <2>1, <2>5, <2>6, <2>7
<1>. HIDE DEF deaf
<1>6. Bits \in deaf
  BY <1>3, <1>4, <1>5, CountUp
<1>. QED
  BY <1>6 DEF deaf, s, I2c!RecvBits

LEMMA DeafRecv ==
  ASSUME NEW c, Deaf(c), ~c.scl, NEW ack \in BOOLEAN
  PROVE  LET d == I2c!i2c_recv_byte(c, ack)
         IN  DeafTo(c, d) /\ d.scl = FALSE
<1> DEFINE d1 == I2c!RecvBits(c).chip
           d2 == I2c!set_sda(d1, ~ack)
           d3 == I2c!set_scl(d2, TRUE)
           d4 == I2c!set_scl(d3, FALSE)
           d5 == I2c!set_sda(d4, TRUE)
<1>1. DeafTo(c, d1) /\ d1.scl = FALSE
  BY DeafReceived
<1>. HIDE DEF d1
<1>2. DeafTo(d1, d2)
  <2>1. PICK x \in BOOLEAN : x = ~ack
    OBVIOUS
  <2>. QED
    BY <1>1, <2>1, DeafSda DEF DeafTo
<1>. HIDE DEF d2
<1>3. DeafTo(d2, d3)
  BY <1>2, DeafScl DEF DeafTo
<1>. HIDE DEF d3
<1>4. DeafTo(d3, d4) /\ d4.scl = FALSE
  BY <1>3, DeafScl DEF DeafTo
<1>. HIDE DEF d4
<1>5. DeafTo(d4, d5) /\ d5.scl = FALSE
  BY <1>4, DeafSda DEF DeafTo
<1>6. d5 = I2c!i2c_recv_byte(c, ack)
  BY DEF I2c!i2c_recv_byte, d1, d2, d3, d4
<1>. HIDE DEF d5
<1>. QED
  BY <1>1, <1>2, <1>3, <1>4, <1>5, <1>6, DeafChain

-----------------------------------------------------------------------------
\* Bytes to a chip that takes them.

\* The byte is acknowledged: ptr and latch become p and l.
LEMMA AckByte ==
  ASSUME NEW c \in I2cChip, c.phase \in Taking, Hears(c, c.phase), NEW v \in Byte,
         NEW p \in Addr, NEW l \in [Addr -> Byte \cup {NoByte}],
         LET x == I2c!Sent(c, v)[Bits]
         IN  I2c!Taken(x) = [x EXCEPT !.pull = TRUE, !.latch = l, !.ptr = p]
  PROVE  LET e == I2c!i2c_send_byte(c, v)
         IN  /\ IF c.phase = "dev" /\ v % 2 = 1 THEN Sends(e) ELSE Hears(e, AfterPhase(c.phase))
             /\ e.mem = c.mem /\ e.latch = l /\ e.ptr = p /\ e.busy = c.busy
<1> DEFINE x == I2c!Sent(c, v)[Bits]
           y == I2c!set_scl(x, FALSE)
           e == I2c!set_scl(I2c!set_scl(I2c!set_sda(y, TRUE), TRUE), FALSE)
<1>1. x \in I2cChip /\ SameByte(c, x) /\ x.bit = Bits /\ x.reg = v /\ ~x.pull /\ x.scl
  BY SentHeard DEF Hears
<1>2. I2c!Taken(x) = [x EXCEPT !.pull = TRUE, !.latch = l, !.ptr = p]
  OBVIOUS
<1>3. e = I2c!i2c_send_byte(c, v)
  BY DEF I2c!i2c_send_byte, I2c!SendBits, I2c!SendBit
<1>. HIDE DEF x
<1>4. y = [x EXCEPT !.pull = TRUE, !.latch = l, !.ptr = p, !.scl = FALSE]
  <2>1. I2c!Takes(x) /\ x.phase \notin {"idle", "send"} /\ x.bit = Bits /\ x.bit # Bits + 1
    BY <1>1, I2cSizes DEF I2c!Takes, Taking, SameByte
  <2>2. I2c!Fall(x) = I2c!Taken(x)
    BY <2>1 DEF I2c!Fall
  <2>3. x.scl = TRUE
    BY <1>1 DEF I2cChip
  <2>. QED
    BY <1>2, <2>2, <2>3 DEF I2c!set_scl
<1>. HIDE DEF y
<1>5. /\ y \in I2cChip /\ y.phase = c.phase /\ y.bit = Bits /\ y.reg = v /\ y.pull = TRUE
      /\ y.scl = FALSE /\ y.mem = c.mem /\ y.latch = l /\ y.ptr = p /\ y.busy = c.busy
  BY <1>1, <1>4 DEF I2cChip, SameByte
<1>6. /\ IF y.phase = "dev" /\ y.reg % 2 = 1 THEN Sends(e) ELSE Hears(e, AfterPhase(y.phase))
      /\ e.mem = y.mem /\ e.latch = y.latch /\ e.ptr = y.ptr /\ e.busy = y.busy
  BY <1>5, AckTaken
<1>. HIDE DEF e
<1>. QED
  BY <1>3, <1>5, <1>6

LEMMA DevByte ==
  ASSUME NEW c, Hears(c, "dev"), NEW v \in Byte, v - (v % 2) = EEPROM_ADDR, c.latch = NoBytes
  PROVE  LET e == I2c!i2c_send_byte(c, v)
         IN  /\ e.mem = c.mem /\ e.busy = c.busy
             /\ c.busy => Deaf(e) /\ e.phase = "idle" /\ e.scl = FALSE
             /\ ~c.busy => /\ IF v % 2 = 1 THEN Sends(e) ELSE Hears(e, "high")
                           /\ e.ptr = c.ptr /\ e.latch = NoBytes
<1> DEFINE x == I2c!Sent(c, v)[Bits]
           e == I2c!i2c_send_byte(c, v)
<1>1. x \in I2cChip /\ SameByte(c, x) /\ x.bit = Bits /\ x.reg = v /\ ~x.pull /\ x.scl
  BY SentHeard DEF Hears, Taking
<1>2. c \in I2cChip /\ c.phase = "dev" /\ c.phase \in Taking /\ c.busy \in BOOLEAN
  BY DEF Hears, Taking, I2cChip
<1>3. CASE ~c.busy
  <2> DEFINE p == c.ptr
             l == c.latch
  <2>1. p \in Addr /\ l \in [Addr -> Byte \cup {NoByte}]
    BY <1>2 DEF I2cChip
  <2>2. I2c!Taken(x) = [x EXCEPT !.pull = TRUE, !.latch = l, !.ptr = p]
    <3>. HIDE DEF x
    <3>1. I2c!Taken(x) = [x EXCEPT !.pull = TRUE]
      BY <1>1, <1>2, <1>3 DEF I2c!Taken, SameByte
    <3>2. x.ptr = p /\ x.latch = l
      BY <1>1 DEF SameByte
    <3>. QED
      BY <1>1, <3>1, <3>2 DEF I2cChip
  <2>. HIDE DEF p, l
  <2>3. /\ IF c.phase = "dev" /\ v % 2 = 1 THEN Sends(e) ELSE Hears(e, AfterPhase(c.phase))
        /\ e.mem = c.mem /\ e.latch = l /\ e.ptr = p /\ e.busy = c.busy
    BY <1>2, <2>1, <2>2, AckByte
  <2>. HIDE DEF e
  <2>. QED
    BY <1>2, <1>3, <2>3 DEF e, p, l, AfterPhase
<1>4. CASE c.busy
  <2> DEFINE y == I2c!set_scl(x, FALSE)
             y1 == I2c!set_sda(y, TRUE)
             y2 == I2c!set_scl(y1, TRUE)
             y3 == I2c!set_scl(y2, FALSE)
  <2>1. e = y3
    BY DEF I2c!i2c_send_byte, I2c!SendBits, I2c!SendBit
  <2>. HIDE DEF x
  <2>2. y = [I2c!Idle(x) EXCEPT !.scl = FALSE]
    <3>1. I2c!Takes(x) /\ x.phase \notin {"idle", "send"} /\ x.bit = Bits /\ x.bit # Bits + 1
      BY <1>1, <1>2, I2cSizes DEF I2c!Takes, Taking, SameByte
    <3>2. I2c!Fall(x) = I2c!Taken(x)
      BY <3>1 DEF I2c!Fall
    <3>3. I2c!Taken(x) = I2c!Idle(x)
      BY <1>1, <1>2, <1>4 DEF I2c!Taken, SameByte
    <3>4. x.scl = TRUE
      BY <1>1 DEF I2cChip
    <3>. QED
      BY <3>2, <3>3, <3>4 DEF I2c!set_scl
  <2>. HIDE DEF y
  <2>3. Deaf(y) /\ y.phase = "idle" /\ y.mem = c.mem /\ y.busy = c.busy /\ y.scl = FALSE
    <3> DEFINE d == I2c!Idle(x)
    <3>1. /\ d \in I2cChip /\ d.phase = "idle" /\ d.latch = NoBytes /\ d.pull = FALSE
          /\ d.mem = x.mem /\ d.busy = x.busy
      BY <1>1, I2cIdle
    <3>. HIDE DEF d
    <3>2. y = [d EXCEPT !.scl = FALSE]
      BY <2>2 DEF d
    <3>. QED
      BY <1>1, <3>1, <3>2 DEF Deaf, I2cChip, SameByte
  <2>4. DeafTo(y, y1)
    BY <2>3, DeafSda
  <2>. HIDE DEF y1
  <2>5. DeafTo(y1, y2)
    BY <2>4, DeafScl DEF DeafTo
  <2>. HIDE DEF y2
  <2>6. DeafTo(y2, y3) /\ y3.scl = FALSE
    BY <2>5, DeafScl DEF DeafTo
  <2>. HIDE DEF y3, e
  <2>. QED
    BY <1>4, <2>1, <2>3, <2>4, <2>5, <2>6 DEF DeafTo, e
<1>. QED
  BY <1>3, <1>4

LEMMA HighByte ==
  ASSUME NEW c, Hears(c, "high"), NEW v \in Byte
  PROVE  LET e == I2c!i2c_send_byte(c, v)
         IN  /\ Hears(e, "low") /\ e.ptr = (I2c!Weight[Bits] * v) % Size
             /\ e.mem = c.mem /\ e.busy = c.busy /\ e.latch = c.latch
<1> DEFINE x == I2c!Sent(c, v)[Bits]
           e == I2c!i2c_send_byte(c, v)
           p == (I2c!Weight[Bits] * v) % Size
           l == c.latch
<1>1. x \in I2cChip /\ SameByte(c, x) /\ x.bit = Bits /\ x.reg = v /\ ~x.pull /\ x.scl
  BY SentHeard DEF Hears, Taking
<1>2. c \in I2cChip /\ c.phase = "high" /\ c.phase \in Taking
  BY DEF Hears, Taking
<1>3. p \in Addr
  <2>1. PICK n \in Nat : n = I2c!Weight[Bits] * v
    BY Weights, I2cSizes, BitEnds DEF Byte
  <2>. QED
    BY <2>1, I2cSizes, DivMod
<1>4. l \in [Addr -> Byte \cup {NoByte}]
  BY <1>2 DEF I2cChip
<1>5. I2c!Taken(x) = [x EXCEPT !.pull = TRUE, !.latch = l, !.ptr = p]
  <2>. HIDE DEF x
  <2>1. I2c!Taken(x) = [x EXCEPT !.pull = TRUE, !.ptr = p]
    BY <1>1, <1>2 DEF I2c!Taken, SameByte
  <2>2. x.latch = l
    BY <1>1 DEF SameByte
  <2>. HIDE DEF p, l
  <2>. QED
    BY <1>1, <2>1, <2>2 DEF I2cChip
<1>. HIDE DEF p, l
<1>6. /\ IF c.phase = "dev" /\ v % 2 = 1 THEN Sends(e) ELSE Hears(e, AfterPhase(c.phase))
      /\ e.mem = c.mem /\ e.latch = l /\ e.ptr = p /\ e.busy = c.busy
  BY <1>2, <1>3, <1>4, <1>5, AckByte
<1>. HIDE DEF e
<1>. QED
  BY <1>2, <1>6 DEF e, p, l, AfterPhase

LEMMA LowByte ==
  ASSUME NEW c, Hears(c, "low"), NEW v \in Byte
  PROVE  LET e == I2c!i2c_send_byte(c, v)
         IN  /\ Hears(e, "data") /\ e.ptr = (c.ptr + v) % Size
             /\ e.mem = c.mem /\ e.busy = c.busy /\ e.latch = c.latch
<1> DEFINE x == I2c!Sent(c, v)[Bits]
           e == I2c!i2c_send_byte(c, v)
           p == (c.ptr + v) % Size
           l == c.latch
<1>1. x \in I2cChip /\ SameByte(c, x) /\ x.bit = Bits /\ x.reg = v /\ ~x.pull /\ x.scl
  BY SentHeard DEF Hears, Taking
<1>2. c \in I2cChip /\ c.phase = "low" /\ c.phase \in Taking
  BY DEF Hears, Taking
<1>3. p \in Addr
  <2>1. PICK n \in Nat : n = c.ptr + v
    BY <1>2, I2cSizes, BitEnds DEF Byte, I2cChip
  <2>. QED
    BY <2>1, I2cSizes, DivMod
<1>4. l \in [Addr -> Byte \cup {NoByte}]
  BY <1>2 DEF I2cChip
<1>5. I2c!Taken(x) = [x EXCEPT !.pull = TRUE, !.latch = l, !.ptr = p]
  <2>. HIDE DEF x
  <2>1. I2c!Taken(x) = [x EXCEPT !.pull = TRUE, !.ptr = p]
    BY <1>1, <1>2 DEF I2c!Taken, SameByte
  <2>2. x.latch = l
    BY <1>1 DEF SameByte
  <2>. HIDE DEF p, l
  <2>. QED
    BY <1>1, <2>1, <2>2 DEF I2cChip
<1>. HIDE DEF p, l
<1>6. /\ IF c.phase = "dev" /\ v % 2 = 1 THEN Sends(e) ELSE Hears(e, AfterPhase(c.phase))
      /\ e.mem = c.mem /\ e.latch = l /\ e.ptr = p /\ e.busy = c.busy
  BY <1>2, <1>3, <1>4, <1>5, AckByte
<1>. HIDE DEF e
<1>. QED
  BY <1>2, <1>6 DEF e, p, l, AfterPhase

LEMMA DataByte ==
  ASSUME NEW c, Hears(c, "data"), NEW v \in Byte
  PROVE  LET e == I2c!i2c_send_byte(c, v)
         IN  /\ Hears(e, "data") /\ e.ptr = I2c!NextInPage(c.ptr)
             /\ e.latch = [c.latch EXCEPT ![c.ptr] = v]
             /\ e.mem = c.mem /\ e.busy = c.busy
<1> DEFINE x == I2c!Sent(c, v)[Bits]
           e == I2c!i2c_send_byte(c, v)
           p == I2c!NextInPage(c.ptr)
           l == [c.latch EXCEPT ![c.ptr] = v]
<1>1. x \in I2cChip /\ SameByte(c, x) /\ x.bit = Bits /\ x.reg = v /\ ~x.pull /\ x.scl
  BY SentHeard DEF Hears, Taking
<1>2. c \in I2cChip /\ c.phase = "data" /\ c.phase \in Taking
  BY DEF Hears, Taking
<1>3. p \in Addr
  <2>1. c.ptr \in Nat /\ c.ptr < Size
    BY <1>2, I2cSizes DEF I2cChip
  <2>2. /\ (c.ptr + 1) % PageSize = 0 => c.ptr + 1 - PageSize \in 0 .. Size - 1
        /\ (c.ptr + 1) % PageSize # 0 => c.ptr + 1 < Size
    BY <2>1, I2cSizes, NextWraps
  <2>. QED
    BY <2>1, <2>2, I2cSizes DEF I2c!NextInPage
<1>4. l \in [Addr -> Byte \cup {NoByte}]
  BY <1>2 DEF I2cChip
<1>5. I2c!Taken(x) = [x EXCEPT !.pull = TRUE, !.latch = l, !.ptr = p]
  <2>. HIDE DEF x
  <2>1. I2c!Taken(x) = [x EXCEPT !.pull = TRUE, !.latch[x.ptr] = v, !.ptr = p]
    BY <1>1, <1>2 DEF I2c!Taken, SameByte
  <2>2. [x.latch EXCEPT ![x.ptr] = v] = l
    BY <1>1 DEF SameByte
  <2>. HIDE DEF p, l
  <2>. QED
    BY <1>1, <2>1, <2>2 DEF I2cChip
<1>. HIDE DEF p, l
<1>6. /\ IF c.phase = "dev" /\ v % 2 = 1 THEN Sends(e) ELSE Hears(e, AfterPhase(c.phase))
      /\ e.mem = c.mem /\ e.latch = l /\ e.ptr = p /\ e.busy = c.busy
  BY <1>2, <1>3, <1>4, <1>5, AckByte
<1>. HIDE DEF e
<1>. QED
  BY <1>2, <1>6 DEF e, p, l, AfterPhase

-----------------------------------------------------------------------------
\* Start and stop conditions.

\* With the clock and the line high a start condition is seen.
LEMMA StartSeen ==
  ASSUME NEW c \in I2cChip, c.scl, c.sda, ~c.pull
  PROVE  LET d == I2c!set_scl(I2c!set_sda(c, FALSE), FALSE)
         IN  /\ Hears(d, "dev") /\ d.latch = NoBytes /\ d.mem = c.mem /\ d.busy = c.busy
             /\ d.ptr = c.ptr
<1> DEFINE a == [c EXCEPT !.sda = FALSE]
           i == I2c!Idle(a)
           b == I2c!set_sda(c, FALSE)
           d == I2c!set_scl(b, FALSE)
<1>1. /\ a \in I2cChip /\ a.sda = FALSE /\ a.scl = TRUE /\ a.mem = c.mem /\ a.busy = c.busy
      /\ a.ptr = c.ptr
  BY DEF I2cChip
<1>2. b = [i EXCEPT !.phase = "dev"]
  <2>1. I2c!Line(c) /\ ~I2c!Line(a)
    BY DEF I2c!Line, I2cChip
  <2>2. b = I2c!Begin(a)
    BY <2>1 DEF I2c!set_sda
  <2>. QED
    BY <2>2 DEF I2c!Begin
<1>. HIDE DEF a, b
<1>3. /\ i \in I2cChip /\ i.latch = NoBytes /\ i.pull = FALSE /\ i.mem = a.mem
      /\ i.busy = a.busy /\ i.scl = a.scl /\ i.bit = 0 /\ i.reg = 0 /\ i.ptr = a.ptr
  BY <1>1, I2cIdle
<1>. HIDE DEF i
<1>4. /\ b \in I2cChip /\ b.phase = "dev" /\ b.latch = NoBytes /\ b.pull = FALSE
      /\ b.mem = c.mem /\ b.busy = c.busy /\ b.scl = TRUE /\ b.bit = 0 /\ b.reg = 0
      /\ b.ptr = c.ptr
  BY <1>1, <1>2, <1>3 DEF I2cChip, Taking
<1>5. d = [b EXCEPT !.scl = FALSE]
  <2>1. b.bit # Bits /\ b.bit # Bits + 1 /\ b.phase \notin {"idle", "send"}
    BY <1>4, I2cSizes
  <2>2. I2c!Fall(b) = b
    BY <2>1 DEF I2c!Fall
  <2>. QED
    BY <1>4, <2>2 DEF I2c!set_scl
<1>. HIDE DEF d
<1>6. Hears(d, "dev") /\ d.latch = NoBytes /\ d.mem = c.mem /\ d.busy = c.busy /\ d.ptr = c.ptr
  BY <1>4, <1>5 DEF Hears, I2cChip
<1>. QED
  BY <1>6 DEF d, b

\* The bus between two calls of the driver.
Ready(c) == \/ Deaf(c) /\ (c.scl => c.sda)
            \/ Hears(c, "data")

LEMMA Start ==
  ASSUME NEW c, Ready(c)
  PROVE  LET d == I2c!i2c_start(c)
         IN  /\ d.mem = c.mem /\ d.busy = c.busy
             /\ \/ Hears(d, "dev") /\ d.latch = NoBytes
                \/ Deaf(d) /\ d.scl = FALSE /\ c.phase = "send"
             /\ c.phase = "idle" => d.ptr = c.ptr
<1> DEFINE c1 == I2c!set_sda(c, TRUE)
           c2 == I2c!set_scl(c1, TRUE)
           c3 == I2c!set_sda(c2, FALSE)
           c4 == I2c!set_scl(c3, FALSE)
<1>1. c4 = I2c!i2c_start(c)
  BY DEF I2c!i2c_start
<1>2. c \in I2cChip /\ c.phase \in {"idle", "send", "data"} /\ (c.scl => c.sda)
  BY DEF Ready, Deaf, Hears
<1>3. c1 = [c EXCEPT !.sda = TRUE]
  <2>1. CASE c.scl
    <3>1. [c EXCEPT !.sda = TRUE] = c
      BY <1>2, <2>1 DEF I2cChip
    <3>2. c1 = IF FALSE THEN c ELSE [c EXCEPT !.sda = TRUE]
      BY <3>1 DEF I2c!set_sda
    <3>. QED
      BY <3>2
  <2>2. CASE ~c.scl
    BY <2>2 DEF I2c!set_sda
  <2>. QED
    BY <2>1, <2>2
<1>4. /\ c1 \in I2cChip /\ c1.phase = c.phase /\ c1.mem = c.mem /\ c1.busy = c.busy
      /\ c1.ptr = c.ptr /\ c1.pull = c.pull /\ c1.bit = c.bit /\ c1.scl = c.scl
      /\ c1.sda = TRUE /\ c1.latch = c.latch
  <2>. HIDE DEF c1
  <2>. QED
    BY <1>2, <1>3 DEF I2cChip
<1>. HIDE DEF c1
<1>5. CASE Deaf(c)
  <2>1. Deaf(c1)
    BY <1>4, <1>5 DEF Deaf
  <2>2. DeafTo(c1, c2) /\ c2.scl = TRUE /\ c2.sda = TRUE
    BY <1>4, <2>1, DeafScl
  <2>3. c.phase = "idle" => c2.ptr = c.ptr /\ ~c2.pull
    <3>1. ASSUME c.phase = "idle"
          PROVE  c2.ptr = c.ptr
      <4>1. I2c!Rise(c1) = c1
        BY <1>4, <3>1 DEF I2c!Rise, I2c!Takes
      <4>2. c2 = [c1 EXCEPT !.scl = TRUE] \/ c2 = c1
        BY <4>1 DEF I2c!set_scl
      <4>. QED
        BY <1>4, <4>2 DEF I2cChip
    <3>2. c.phase = "idle" => ~c2.pull
      BY <1>4, <2>2 DEF DeafTo, Deaf
    <3>. QED
      BY <3>1, <3>2
  <2>. HIDE DEF c2
  <2>4. CASE ~c2.pull
    <3>1. /\ Hears(c4, "dev") /\ c4.latch = NoBytes /\ c4.mem = c2.mem /\ c4.busy = c2.busy
          /\ c4.ptr = c2.ptr
      BY <2>2, <2>4, StartSeen DEF DeafTo, Deaf
    <3>. HIDE DEF c4
    <3>. QED
      BY <1>1, <1>4, <2>2, <2>3, <3>1 DEF DeafTo
  <2>5. CASE c2.pull
    <3>1. c3 = [c2 EXCEPT !.sda = FALSE]
      <4>1. ~I2c!Line(c2) /\ ~I2c!Line([c2 EXCEPT !.sda = FALSE])
        BY <2>2, <2>5 DEF I2c!Line, DeafTo, Deaf, I2cChip
      <4>. QED
        BY <4>1 DEF I2c!set_sda
    <3>2. c3 \in I2cChip /\ c3.phase = c2.phase /\ c3.pull = c2.pull /\ c3.latch = c2.latch
          /\ c3.mem = c2.mem /\ c3.busy = c2.busy /\ c3.scl = c2.scl
      <4>. HIDE DEF c3
      <4>. QED
        BY <2>2, <3>1 DEF DeafTo, Deaf, I2cChip
    <3>. HIDE DEF c3
    <3>3. Deaf(c3)
      BY <2>2, <3>2 DEF DeafTo, Deaf
    <3>4. DeafTo(c3, c4) /\ c4.scl = FALSE
      BY <3>3, DeafScl
    <3>. HIDE DEF c4
    <3>5. c.phase = "send"
      BY <1>5, <2>3, <2>5 DEF Deaf
    <3>. QED
      BY <1>1, <1>4, <2>2, <3>2, <3>4, <3>5 DEF DeafTo
  <2>. QED
    BY <2>4, <2>5
<1>6. CASE Hears(c, "data")
  <2> DEFINE r == 2 * c1.reg + (IF I2c!Line(c1) THEN 1 ELSE 0)
             b == c1.bit + 1
  <2>1. c2 = [c1 EXCEPT !.bit = b, !.reg = r, !.scl = TRUE]
    <3>1. I2c!Takes(c1) /\ c1.phase \notin {"idle", "send"} /\ c1.bit < Bits
      BY <1>4, <1>6, I2cSizes DEF Hears, I2c!Takes
    <3>2. I2c!Rise(c1) = [c1 EXCEPT !.bit = b, !.reg = r]
      BY <3>1 DEF I2c!Rise
    <3>3. c1.scl = FALSE
      BY <1>4, <1>6 DEF Hears
    <3>. QED
      BY <3>2, <3>3 DEF I2c!set_scl
  <2>2. r \in Nat /\ b \in 0 .. Bits + 1
    BY <1>4, <1>6, I2cSizes DEF I2cChip, Hears
  <2>. HIDE DEF r, b, c2
  <2>3. /\ c2 \in I2cChip /\ c2.scl = TRUE /\ c2.sda = TRUE /\ c2.pull = FALSE
        /\ c2.mem = c.mem /\ c2.busy = c.busy
    BY <1>4, <1>6, <2>1, <2>2 DEF I2cChip, Hears
  <2>4. Hears(c4, "dev") /\ c4.latch = NoBytes /\ c4.mem = c2.mem /\ c4.busy = c2.busy
    BY <2>3, StartSeen
  <2>. HIDE DEF c4
  <2>5. c.phase = "data"
    BY <1>6 DEF Hears
  <2>. QED
    BY <1>1, <2>3, <2>4, <2>5
<1>. QED
  BY <1>5, <1>6 DEF Ready

\* What a stop condition stores.
StopStores(c) == [a \in Addr |-> IF c.latch[a] = NoByte THEN c.mem[a] ELSE c.latch[a]]

LEMMA StopTaking ==
  ASSUME NEW c, NEW ph \in Taking, Hears(c, ph)
  PROVE  LET d == I2c!i2c_stop(c)
         IN  /\ Deaf(d) /\ d.phase = "idle" /\ d.scl = TRUE /\ d.sda = TRUE /\ d.ptr = c.ptr
             /\ d.mem = IF ph = "data" /\ c.latch # NoBytes THEN StopStores(c) ELSE c.mem
             /\ (ph = "data" => c.latch = NoBytes) => d.busy = c.busy
<1> DEFINE c1 == I2c!set_sda(c, FALSE)
           c2 == I2c!set_scl(c1, TRUE)
           c3 == [c2 EXCEPT !.sda = TRUE]
           i == I2c!Idle(c3)
           d == I2c!set_sda(c2, TRUE)
<1>1. d = I2c!i2c_stop(c)
  BY DEF I2c!i2c_stop
<1>2. c \in I2cChip /\ c.phase = ph /\ c.bit = 0 /\ c.reg = 0 /\ c.pull = FALSE /\ c.scl = FALSE
  BY DEF Hears
<1>3. c1 = [c EXCEPT !.sda = FALSE]
  BY <1>2 DEF I2c!set_sda
<1>4. /\ c1 \in I2cChip /\ c1.phase = ph /\ c1.bit = 0 /\ c1.reg = 0 /\ c1.pull = FALSE
      /\ c1.scl = FALSE /\ c1.sda = FALSE /\ SameByte(c, c1)
  <2>. HIDE DEF c1
  <2>. QED
    BY <1>2, <1>3 DEF I2cChip, SameByte
<1>. HIDE DEF c1
<1>5. c2 = [c1 EXCEPT !.bit = 1, !.reg = 0, !.scl = TRUE]
  <2>1. I2c!Takes(c1) /\ c1.phase \notin {"idle", "send"} /\ c1.bit < Bits
    BY <1>4, I2cSizes DEF Taking, I2c!Takes
  <2>2. ~I2c!Line(c1)
    BY <1>4 DEF I2c!Line
  <2>3. I2c!Rise(c1) = [c1 EXCEPT !.bit = 1, !.reg = 0]
    BY <1>4, <2>1, <2>2 DEF I2c!Rise
  <2>. QED
    BY <1>4, <2>3 DEF I2c!set_scl
<1>6. /\ c2 \in I2cChip /\ c2.phase = ph /\ c2.bit = 1 /\ c2.pull = FALSE
      /\ c2.scl = TRUE /\ c2.sda = FALSE /\ SameByte(c, c2)
  <2>. HIDE DEF c2
  <2>1. 1 \in 0 .. Bits + 1 /\ 0 \in Nat
    BY I2cSizes
  <2>. QED
    BY <1>4, <1>5, <2>1 DEF I2cChip, SameByte
<1>. HIDE DEF c2
<1>7. /\ c3 \in I2cChip /\ c3.phase = ph /\ c3.bit = 1 /\ c3.pull = FALSE
      /\ c3.scl = TRUE /\ c3.sda = TRUE /\ SameByte(c, c3)
  BY <1>6 DEF I2cChip, SameByte
<1>8. d = I2c!End(c3)
  <2>1. ~I2c!Line(c2) /\ I2c!Line(c3)
    BY <1>6, <1>7 DEF I2c!Line
  <2>. QED
    BY <1>6, <2>1 DEF I2c!set_sda
<1>. HIDE DEF c3, d
<1>9. /\ i \in I2cChip /\ i.phase = "idle" /\ i.latch = NoBytes /\ i.pull = FALSE
      /\ i.mem = c.mem /\ i.busy = c.busy /\ i.scl = TRUE /\ i.sda = TRUE /\ i.ptr = c.ptr
  BY <1>7, I2cIdle DEF SameByte
<1>10. CASE ph = "data" /\ c.latch # NoBytes
  <2> DEFINE m == StopStores(c)
  <2>1. m \in [Addr -> Byte]
    <3>1. c.mem \in [Addr -> Byte] /\ c.latch \in [Addr -> Byte \cup {NoByte}]
      BY <1>2 DEF I2cChip
    <3>. QED
      BY <3>1 DEF StopStores
  <2>2. d = [i EXCEPT !.busy = TRUE, !.mem = m]
    <3>1. c3.phase = "data" /\ c3.bit = 1 /\ c3.latch # I2c!NothingLatched
      BY <1>7, <1>10, NothingLatched DEF SameByte
    <3>2. m = [a \in I2c!Addr |-> IF c3.latch[a] = NoByte THEN c3.mem[a] ELSE c3.latch[a]]
      BY <1>7, I2cSizes DEF SameByte, StopStores
    <3>. QED
      BY <1>8, <3>1, <3>2 DEF I2c!End
  <2>. HIDE DEF i, m
  <2>3. /\ Deaf(d) /\ d.phase = "idle" /\ d.scl = TRUE /\ d.sda = TRUE /\ d.ptr = c.ptr
        /\ d.mem = m
    BY <1>9, <2>1, <2>2 DEF Deaf, I2cChip
  <2>. QED
    BY <1>1, <1>10, <2>3 DEF m
<1>11. CASE ~(ph = "data" /\ c.latch # NoBytes)
  <2>1. d = i
    BY <1>7, <1>8, <1>11, NothingLatched DEF I2c!End, SameByte
  <2>. HIDE DEF i
  <2>. QED
    BY <1>1, <1>9, <1>11, <2>1 DEF Deaf
<1>. QED
  BY <1>10, <1>11

LEMMA StopDeaf ==
  ASSUME NEW c, Deaf(c), ~c.scl
  PROVE  LET d == I2c!i2c_stop(c)
         IN  DeafTo(c, d) /\ d.scl = TRUE /\ d.sda = TRUE
<1> DEFINE c1 == I2c!set_sda(c, FALSE)
           c2 == I2c!set_scl(c1, TRUE)
           c3 == [c2 EXCEPT !.sda = TRUE]
           i == I2c!Idle(c3)
           d == I2c!set_sda(c2, TRUE)
<1>1. d = I2c!i2c_stop(c)
  BY DEF I2c!i2c_stop
<1>2. DeafTo(c, c1) /\ c1.sda = FALSE
  BY DeafSda
<1>. HIDE DEF c1
<1>3. DeafTo(c1, c2) /\ c2.scl = TRUE /\ c2.sda = FALSE
  BY <1>2, DeafScl DEF DeafTo
<1>. HIDE DEF c2
<1>4. DeafTo(c2, c3) /\ c3.scl = TRUE /\ c3.sda = TRUE /\ c3 \in I2cChip /\ c3.pull = c2.pull
  BY <1>3 DEF DeafTo, Deaf, I2cChip
<1>5. d = c3 \/ d = I2c!End(c3)
  <2>1. ~I2c!Line(c2)
    BY <1>3 DEF I2c!Line
  <2>. QED
    BY <2>1 DEF I2c!set_sda
<1>. HIDE DEF c3, d
<1>6. /\ i \in I2cChip /\ i.phase = "idle" /\ i.latch = NoBytes /\ i.pull = FALSE
      /\ i.mem = c3.mem /\ i.busy = c3.busy /\ i.scl = TRUE /\ i.sda = TRUE
  BY <1>4, I2cIdle
<1>7. d = c3 \/ d = i
  <2>1. c3.phase # "data"
    BY <1>4 DEF DeafTo, Deaf
  <2>. QED
    BY <1>5, <2>1 DEF I2c!End
<1>8. DeafTo(c3, d) /\ d.scl = TRUE /\ d.sda = TRUE
  <2>. HIDE DEF i
  <2>1. Deaf(c3)
    BY <1>4 DEF DeafTo
  <2>. QED
    BY <1>4, <1>6, <1>7, <2>1 DEF DeafTo, Deaf
<1>. QED
  BY <1>1, <1>2, <1>3, <1>4, <1>8 DEF DeafTo

-----------------------------------------------------------------------------
\* The calls of the driver (extmem_i2c.c).

\* The device address to write is a byte, and so is the one to read.
LEMMA DeviceAddress ==
  /\ EEPROM_ADDR \in Byte /\ EEPROM_ADDR % 2 = 0
  /\ EEPROM_ADDR - (EEPROM_ADDR % 2) = EEPROM_ADDR
  /\ EEPROM_ADDR + 1 \in Byte /\ (EEPROM_ADDR + 1) % 2 = 1
  /\ (EEPROM_ADDR + 1) - ((EEPROM_ADDR + 1) % 2) = EEPROM_ADDR
<1>1. EEPROM_ADDR \in 0 .. Erased /\ EEPROM_ADDR % 2 = 0
  BY DriversAssumption
<1>2. PICK m \in Nat : I2c!Weight[Bits] = 2 * m
  <2>1. PICK n \in 0 .. Bits - 1 : n + 1 = Bits
    BY I2cSizes
  <2>2. n \in 0 .. Bits
    BY <2>1, I2cSizes
  <2>. QED
    BY <2>1, <2>2, Weights
<1>3. Erased \in Nat /\ Erased + 1 = 2 * m
  BY <1>2, BitEnds
<1>. QED
  BY <1>1, <1>3 DEF Byte

\* The two bytes of an address, and what the chip makes of them.
LEMMA AddressBytes ==
  ASSUME Size <= I2c!Weight[Bits] * I2c!Weight[Bits], NEW a \in Addr
  PROVE  /\ a \div I2c!Weight[Bits] \in Byte /\ a % I2c!Weight[Bits] \in Byte
         /\ (((I2c!Weight[Bits] * (a \div I2c!Weight[Bits])) % Size)
               + (a % I2c!Weight[Bits])) % Size = a
<1>1. PICK w \in Nat \ {0} : w = I2c!Weight[Bits] /\ w = Erased + 1 /\ Erased \in Nat
  <2>1. Bits \in 0 .. Bits
    BY I2cSizes
  <2>. QED
    BY <2>1, Weights, BitEnds
<1>2. a \in Nat /\ a < Size /\ Size \in Nat \ {0}
  BY I2cSizes
<1>3. PICK q \in Nat, r \in Nat : q = a \div w /\ r = a % w /\ a = w * q + r /\ r < w
  <2>1. w \in Nat \ {0} /\ a \in Nat
    BY <1>1, <1>2
  <2>2. a \div w \in Nat /\ a % w \in Nat /\ a % w < w /\ a = w * (a \div w) + (a % w)
    BY <2>1, DivMod
  <2>. QED
    BY <2>2
<1>4. q < w
  <2>1. w * q < w * w
    <3>1. w * q \in Nat /\ w * w \in Nat /\ w * q <= a /\ Size <= w * w
      BY <1>1, <1>3
    <3>. QED
      BY <1>2, <3>1
  <2>. QED
    BY <2>1
<1>5. PICK h \in Nat : h = w * q /\ a = h + r /\ h < Size
  <2>1. w * q \in Nat
    BY <1>1
  <2>. QED
    BY <1>2, <1>3, <2>1
<1>6. h % Size = h /\ (h + r) % Size = a
  BY <1>2, <1>5
<1>7. q \in Byte /\ r \in Byte
  BY <1>1, <1>3, <1>4 DEF Byte
<1>8. (((w * q) % Size) + r) % Size = a
  BY <1>5, <1>6
<1>. QED
  BY <1>1, <1>3, <1>7, <1>8

\* An address sent to a chip that takes bytes opens its page; a busy one does not answer,
\* and one that is sending may not notice.
Opened(c, d, a) ==
  /\ d.mem = c.mem /\ d.busy = c.busy
  /\ \/ Hears(d, "data") /\ d.latch = NoBytes /\ d.ptr = a /\ ~c.busy
     \/ Deaf(d) /\ d.scl = FALSE /\ d.phase = "idle" /\ c.busy
     \/ Deaf(d) /\ d.scl = FALSE /\ c.phase = "send"

LEMMA SelectOpens ==
  ASSUME Size <= I2c!Weight[Bits] * I2c!Weight[Bits],
         NEW c, Ready(c), NEW a \in Addr
  PROVE  Opened(c, I2c!Select(c, a), a)
<1> DEFINE hi == a \div I2c!Weight[Bits]
           lo == a % I2c!Weight[Bits]
           d1 == I2c!i2c_start(c)
           d2 == I2c!i2c_send_byte(d1, EEPROM_ADDR)
           d3 == I2c!i2c_send_byte(d2, hi)
           d4 == I2c!i2c_send_byte(d3, lo)
<1>1. I2c!Select(c, a) = d4
  BY DEF I2c!Select
<1>2. hi \in Byte /\ lo \in Byte /\ (((I2c!Weight[Bits] * hi) % Size) + lo) % Size = a
  BY AddressBytes
<1>3. /\ d1.mem = c.mem /\ d1.busy = c.busy
      /\ \/ Hears(d1, "dev") /\ d1.latch = NoBytes
         \/ Deaf(d1) /\ d1.scl = FALSE /\ c.phase = "send"
  BY Start
<1>. HIDE DEF d1, hi, lo
<1>4. CASE Deaf(d1) /\ d1.scl = FALSE /\ c.phase = "send"
  <2>1. DeafTo(d1, d2)
    BY <1>4, DeafByte
  <2>. HIDE DEF d2
  <2>2. DeafTo(d2, d3)
    BY <2>1, DeafByte DEF DeafTo
  <2>. HIDE DEF d3
  <2>3. DeafTo(d3, d4) /\ d4.scl = FALSE
    BY <2>2, DeafByte DEF DeafTo
  <2>. HIDE DEF d4
  <2>. QED
    BY <1>1, <1>3, <1>4, <2>1, <2>2, <2>3 DEF DeafTo, Opened
<1>5. CASE Hears(d1, "dev") /\ d1.latch = NoBytes
  <2>1. /\ d2.mem = d1.mem /\ d2.busy = d1.busy
        /\ d1.busy => Deaf(d2) /\ d2.phase = "idle" /\ d2.scl = FALSE
        /\ ~d1.busy => Hears(d2, "high") /\ d2.latch = NoBytes
    <3>1. /\ d2.mem = d1.mem /\ d2.busy = d1.busy
          /\ d1.busy => Deaf(d2) /\ d2.phase = "idle" /\ d2.scl = FALSE
          /\ ~d1.busy => /\ IF EEPROM_ADDR % 2 = 1 THEN Sends(d2) ELSE Hears(d2, "high")
                         /\ d2.ptr = d1.ptr /\ d2.latch = NoBytes
      BY <1>5, DeviceAddress, DevByte
    <3>. HIDE DEF d2
    <3>. QED
      BY <3>1, DeviceAddress
  <2>. HIDE DEF d2
  <2>2. CASE c.busy
    <3>1. Deaf(d2) /\ d2.phase = "idle"
      BY <1>3, <2>1, <2>2
    <3>2. DeafTo(d2, d3)
      BY <3>1, DeafByte
    <3>. HIDE DEF d3
    <3>3. DeafTo(d3, d4) /\ d4.scl = FALSE
      BY <3>2, DeafByte DEF DeafTo
    <3>. HIDE DEF d4
    <3>. QED
      BY <1>1, <1>3, <2>1, <2>2, <3>1, <3>2, <3>3 DEF DeafTo, Opened
  <2>3. CASE ~c.busy
    <3>1. Hears(d2, "high") /\ d2.latch = NoBytes
      BY <1>3, <2>1, <2>3
    <3>2. /\ Hears(d3, "low") /\ d3.ptr = (I2c!Weight[Bits] * hi) % Size
          /\ d3.mem = d2.mem /\ d3.busy = d2.busy /\ d3.latch = d2.latch
      BY <1>2, <3>1, HighByte
    <3>. HIDE DEF d3
    <3>3. /\ Hears(d4, "data") /\ d4.ptr = (d3.ptr + lo) % Size
          /\ d4.mem = d3.mem /\ d4.busy = d3.busy /\ d4.latch = d3.latch
      BY <1>2, <3>2, LowByte
    <3>. HIDE DEF d4
    <3>4. d4.ptr = a
      BY <1>2, <3>2, <3>3
    <3>. QED
      BY <1>1, <1>3, <2>1, <2>3, <3>1, <3>2, <3>3, <3>4 DEF Opened
  <2>. QED
    BY <2>2, <2>3
<1>. QED
  BY <1>3, <1>4, <1>5

\* A stop condition behind an address alone.
LEMMA StopOpened ==
  ASSUME NEW c, NEW d, NEW a \in Addr, Opened(c, d, a)
  PROVE  LET e == I2c!i2c_stop(d)
         IN  /\ Deaf(e) /\ e.scl = TRUE /\ e.sda = TRUE /\ e.mem = c.mem /\ e.busy = c.busy
             /\ c.phase # "send" => e.phase = "idle"
             /\ c.phase # "send" /\ ~c.busy => e.ptr = a
<1> DEFINE e == I2c!i2c_stop(d)
<1>1. CASE Hears(d, "data") /\ d.latch = NoBytes /\ d.ptr = a /\ ~c.busy
  <2>1. /\ Deaf(e) /\ e.phase = "idle" /\ e.scl = TRUE /\ e.sda = TRUE /\ e.ptr = d.ptr
        /\ e.mem = d.mem /\ e.busy = d.busy
    BY <1>1, StopTaking DEF Taking
  <2>. HIDE DEF e
  <2>. QED
    BY <1>1, <2>1 DEF Opened, e
<1>2. CASE Deaf(d) /\ d.scl = FALSE /\ ((d.phase = "idle" /\ c.busy) \/ c.phase = "send")
  <2>1. DeafTo(d, e) /\ e.scl = TRUE /\ e.sda = TRUE
    BY <1>2, StopDeaf
  <2>. HIDE DEF e
  <2>. QED
    BY <1>2, <2>1 DEF Opened, DeafTo, e
<1>. QED
  BY <1>1, <1>2 DEF Opened

\* The chip and the master agree on a byte the chip begins to send.
SendsFrom(c, d, a) ==
  /\ Deaf(d) /\ d.scl = FALSE /\ d.mem = c.mem /\ d.busy = c.busy
  /\ c.phase # "send" => IF c.busy THEN d.phase = "idle" ELSE Sends(d) /\ d.ptr = a

LEMMA ReadStarts ==
  ASSUME Size <= I2c!Weight[Bits] * I2c!Weight[Bits],
         NEW c, Ready(c), NEW a \in Addr
  PROVE  SendsFrom(c, I2c!extmem_read_start(c, a), a)
<1> DEFINE d1 == I2c!Select(c, a)
           d2 == I2c!i2c_stop(d1)
           d3 == I2c!i2c_start(d2)
           d4 == I2c!i2c_send_byte(d3, EEPROM_ADDR + 1)
<1>1. I2c!extmem_read_start(c, a) = d4
  BY DEF I2c!extmem_read_start
<1>2. Opened(c, d1, a)
  BY SelectOpens
<1>. HIDE DEF d1
<1>3. /\ Deaf(d2) /\ d2.scl = TRUE /\ d2.sda = TRUE /\ d2.mem = c.mem /\ d2.busy = c.busy
      /\ c.phase # "send" => d2.phase = "idle"
      /\ c.phase # "send" /\ ~c.busy => d2.ptr = a
  BY <1>2, StopOpened
<1>. HIDE DEF d2
<1>4. Ready(d2)
  BY <1>3 DEF Ready
<1>5. /\ d3.mem = d2.mem /\ d3.busy = d2.busy
      /\ \/ Hears(d3, "dev") /\ d3.latch = NoBytes
         \/ Deaf(d3) /\ d3.scl = FALSE /\ d2.phase = "send"
      /\ d2.phase = "idle" => d3.ptr = d2.ptr
  BY <1>4, Start
<1>. HIDE DEF d3
<1>6. CASE Deaf(d3) /\ d3.scl = FALSE /\ d2.phase = "send"
  <2>1. DeafTo(d3, d4) /\ d4.scl = FALSE
    BY <1>6, DeafByte
  <2>. HIDE DEF d4
  <2>. QED
    BY <1>1, <1>3, <1>5, <1>6, <2>1 DEF DeafTo, SendsFrom
<1>7. CASE Hears(d3, "dev") /\ d3.latch = NoBytes
  <2> DEFINE v == EEPROM_ADDR + 1
  <2>1. v \in Byte /\ v % 2 = 1 /\ v - (v % 2) = EEPROM_ADDR
    BY DeviceAddress
  <2>. HIDE DEF v
  <2>2. /\ d4.mem = d3.mem /\ d4.busy = d3.busy
        /\ d3.busy => Deaf(d4) /\ d4.phase = "idle" /\ d4.scl = FALSE
        /\ ~d3.busy => Sends(d4) /\ d4.ptr = d3.ptr /\ d4.latch = NoBytes
    <3> DEFINE e == I2c!i2c_send_byte(d3, v)
    <3>1. /\ e.mem = d3.mem /\ e.busy = d3.busy
          /\ d3.busy => Deaf(e) /\ e.phase = "idle" /\ e.scl = FALSE
          /\ ~d3.busy => /\ IF v % 2 = 1 THEN Sends(e) ELSE Hears(e, "high")
                         /\ e.ptr = d3.ptr /\ e.latch = NoBytes
      BY <1>7, <2>1, DevByte
    <3>2. e = d4
      BY DEF v
    <3>. HIDE DEF e, d4
    <3>. QED
      BY <2>1, <3>1, <3>2
  <2>. HIDE DEF d4
  <2>3. Sends(d4) /\ d4.latch = NoBytes => Deaf(d4) /\ d4.scl = FALSE
    <3>1. 0 <= Bits /\ 0 # Bits
      BY I2cSizes
    <3>. QED
      BY <3>1 DEF Sends, Deaf
  <2>4. c.busy \in BOOLEAN
    BY DEF Ready, Deaf, Hears, I2cChip
  <2>. QED
    BY <1>1, <1>3, <1>5, <2>2, <2>3, <2>4 DEF SendsFrom
<1>. QED
  BY <1>5, <1>6, <1>7

-----------------------------------------------------------------------------
\* A byte from a chip that sends.

\* n bits of the byte at c.ptr are out, and the next one is on the line.
SentBits(c, d, n) ==
  /\ d \in I2cChip /\ SameByte(c, d) /\ d.phase = "send" /\ d.bit = n
  /\ d.scl = FALSE /\ d.sda = TRUE
  /\ d.pull = IF n < Bits THEN ~I2c!BitOf(c.mem[c.ptr], n) ELSE FALSE

LEMMA BitSent ==
  ASSUME NEW c \in I2cChip, NEW n \in 0 .. Bits - 1, NEW d, SentBits(c, d, n)
  PROVE  LET up == I2c!set_scl(d, TRUE)
         IN  /\ I2c!Line(up) <=> I2c!BitOf(c.mem[c.ptr], n)
             /\ SentBits(c, I2c!set_scl(up, FALSE), n + 1)
<1> DEFINE up == I2c!set_scl(d, TRUE)
           e == I2c!set_scl(up, FALSE)
           b == d.bit + 1
<1>0. PICK x \in BOOLEAN : x = I2c!BitOf(c.mem[c.ptr], n)
  BY DEF I2c!BitOf
<1>1. /\ d \in I2cChip /\ SameByte(c, d) /\ d.phase = "send" /\ d.bit = n /\ d.scl = FALSE
      /\ d.sda = TRUE /\ d.pull = ~x
  <2>1. n < Bits
    BY I2cSizes
  <2>. QED
    BY <1>0, <2>1 DEF SentBits
<1>2. n \in Nat /\ Bits \in Nat /\ b \in 0 .. Bits + 1 /\ b = n + 1 /\ n # Bits /\ b # Bits + 1
      /\ n < Bits /\ (b < Bits \/ b = Bits)
  BY <1>1, I2cSizes
<1>3. up = [d EXCEPT !.bit = b, !.scl = TRUE]
  <2>1. I2c!Rise(d) = [d EXCEPT !.bit = b]
    BY <1>1, <1>2 DEF I2c!Rise, I2c!Takes
  <2>. QED
    BY <1>1, <2>1 DEF I2c!set_scl
<1>. HIDE DEF b, up
<1>4. /\ up \in I2cChip /\ SameByte(c, up) /\ up.phase = "send" /\ up.bit = b /\ up.scl = TRUE
      /\ up.sda = TRUE /\ up.pull = d.pull
  BY <1>1, <1>2, <1>3 DEF I2cChip, SameByte
<1>5. I2c!Line(up) <=> x
  BY <1>1, <1>4 DEF I2c!Line
<1>6. PICK y \in BOOLEAN : y = IF b < Bits THEN ~I2c!BitOf(c.mem[c.ptr], b) ELSE FALSE
  OBVIOUS
<1>7. e = [up EXCEPT !.pull = y, !.scl = FALSE]
  <2>1. CASE b < Bits
    <3>1. I2c!Fall(up) = [up EXCEPT !.pull = y]
      <4>1. b # Bits /\ up.mem = c.mem /\ up.ptr = c.ptr
        BY <1>2, <1>4, <2>1 DEF SameByte
      <4>. QED
        BY <1>2, <1>4, <1>6, <2>1, <4>1 DEF I2c!Fall, I2c!Takes
    <3>. QED
      BY <1>4, <3>1 DEF I2c!set_scl
  <2>2. CASE b = Bits
    <3>1. ~(b < Bits) /\ y = FALSE
      BY <1>2, <1>6, <2>2
    <3>2. I2c!Fall(up) = [up EXCEPT !.pull = y]
      BY <1>2, <1>4, <2>2, <3>1 DEF I2c!Fall, I2c!Takes
    <3>. QED
      BY <1>4, <3>2 DEF I2c!set_scl
  <2>. QED
    BY <1>2, <2>1, <2>2
<1>. HIDE DEF e
<1>8. /\ e \in I2cChip /\ SameByte(c, e) /\ e.phase = "send" /\ e.bit = b /\ e.scl = FALSE
      /\ e.sda = TRUE /\ e.pull = y
  BY <1>4, <1>7 DEF I2cChip, SameByte
<1>9. SentBits(c, e, n + 1)
  BY <1>2, <1>6, <1>8 DEF SentBits
<1>. QED
  BY <1>0, <1>5, <1>9 DEF e, up

LEMMA SendsByte ==
  ASSUME NEW c, Sends(c)
  PROVE  LET r == I2c!RecvBits(c)
         IN  r.value = c.mem[c.ptr] /\ SentBits(c, r.chip, Bits)
<1> DEFINE s == I2c!Received(c)
           v == c.mem[c.ptr]
           d0 == I2c!set_sda(c, TRUE)
           good == {n \in 0 .. Bits : /\ SentBits(c, s[n].chip, n)
                                      /\ s[n].value = v \div I2c!Weight[Bits - n]}
<1>1. s = [n \in 0 .. Bits |-> IF n = 0 THEN [chip |-> d0, value |-> 0]
                               ELSE I2c!RecvBit(s[n - 1])]
  BY ReceivedRec
<1>2. c \in I2cChip /\ v \in Byte /\ v \in Nat /\ Bits \in Nat /\ 0 < Bits
  <2>1. c \in I2cChip
    BY DEF Sends
  <2>2. v \in Byte
    BY <2>1 DEF I2cChip
  <2>. QED
    BY <2>1, <2>2, I2cSizes, BitEnds DEF Byte
<1>3. SentBits(c, d0, 0)
  <2>1. /\ c.phase = "send" /\ c.bit = 0 /\ c.scl = FALSE /\ c.pull = ~I2c!BitOf(v, 0)
    BY DEF Sends
  <2>2. d0 = [c EXCEPT !.sda = TRUE]
    BY <2>1 DEF I2c!set_sda
  <2>. HIDE DEF d0
  <2>3. /\ d0 \in I2cChip /\ SameByte(c, d0) /\ d0.phase = "send" /\ d0.bit = 0 /\ d0.scl = FALSE
        /\ d0.sda = TRUE /\ d0.pull = c.pull
    BY <1>2, <2>1, <2>2 DEF I2cChip, SameByte
  <2>. QED
    BY <1>2, <2>1, <2>3 DEF SentBits
<1>. HIDE DEF s, d0
<1>4. 0 \in good
  <2>1. v \div I2c!Weight[Bits - 0] = 0
    BY <1>2, BitEnds DEF Byte
  <2>2. 0 \in 0 .. Bits /\ s[0] = [chip |-> d0, value |-> 0]
    BY <1>1, <1>2
  <2>. QED
    BY <1>3, <2>1, <2>2
<1>5. ASSUME NEW n \in 0 .. Bits - 1, n \in good
      PROVE  n + 1 \in good
  <2>1. PICK m \in 0 .. Bits : m = n + 1 /\ m # 0 /\ m - 1 = n
    BY <1>2
  <2>2. s[m] = I2c!RecvBit(s[n])
    BY <1>1, <2>1
  <2> DEFINE d == s[n].chip
             up == I2c!set_scl(d, TRUE)
             e == I2c!set_scl(up, FALSE)
  <2>3. SentBits(c, d, n) /\ s[n].value = v \div I2c!Weight[Bits - n]
    BY <1>5
  <2>. HIDE DEF d
  <2>4. (I2c!Line(up) <=> I2c!BitOf(v, n)) /\ SentBits(c, e, n + 1)
    BY <1>2, <2>3, BitSent
  <2>5. s[m].chip = e /\ s[m].value = 2 * s[n].value + (IF I2c!Line(up) THEN 1 ELSE 0)
    BY <2>2 DEF I2c!RecvBit, d
  <2>. HIDE DEF e, up
  <2>6. v \div I2c!Weight[Bits - m] =
          2 * (v \div I2c!Weight[Bits - n]) + (IF I2c!BitOf(v, n) THEN 1 ELSE 0)
    BY <1>2, <2>1, BitStep
  <2>. HIDE DEF v
  <2>7. s[m].value = v \div I2c!Weight[Bits - m]
    BY <2>3, <2>4, <2>5, <2>6
  <2>. QED
    BY <2>1, <2>4, <2>5, <2>7
<1>6. Bits \in good
  <2>. HIDE DEF good
  <2>. QED
    BY <1>2, <1>4, <1>5, CountUp
<1>7. Bits - Bits = 0 /\ v \div I2c!Weight[0] = v
  BY <1>2, BitEnds DEF Byte
<1>8. s[Bits].value = v /\ SentBits(c, s[Bits].chip, Bits)
  <2>1. s[Bits].value = v \div I2c!Weight[Bits - Bits] /\ SentBits(c, s[Bits].chip, Bits)
    BY <1>6
  <2>. QED
    BY <1>7, <2>1
<1>. QED
  BY <1>8 DEF I2c!RecvBits, s

\* An acknowledged byte is followed by the next one; the last one is not, and ends it.
LEMMA NextSent ==
  ASSUME NEW c, Sends(c), NEW ack \in BOOLEAN
  PROVE  LET e == I2c!i2c_recv_byte(c, ack)
         IN  /\ I2c!i2c_recv_value(c) = c.mem[c.ptr]
             /\ e.mem = c.mem /\ e.busy = c.busy
             /\ ack => Sends(e) /\ e.ptr = (c.ptr + 1) % Size
             /\ ~ack => e.phase = "idle"
<1> DEFINE d0 == I2c!RecvBits(c).chip
           z == ~ack
           d1 == I2c!set_sda(d0, z)
           d2 == I2c!set_scl(d1, TRUE)
           d3 == I2c!set_scl(d2, FALSE)
           e == I2c!set_sda(d3, TRUE)
<1>1. e = I2c!i2c_recv_byte(c, ack)
  BY DEF I2c!i2c_recv_byte
<1>2. I2c!i2c_recv_value(c) = c.mem[c.ptr] /\ SentBits(c, d0, Bits) /\ c \in I2cChip
  BY SendsByte DEF I2c!i2c_recv_value, Sends
<1>3. /\ d0 \in I2cChip /\ SameByte(c, d0) /\ d0.phase = "send" /\ d0.bit = Bits
      /\ d0.scl = FALSE /\ d0.sda = TRUE /\ d0.pull = FALSE
  BY <1>2, I2cSizes DEF SentBits
<1>. HIDE DEF d0
<1>4. z \in BOOLEAN /\ z = ~ack
  OBVIOUS
<1>. HIDE DEF z
<1>5. d1 = [d0 EXCEPT !.sda = z]
  BY <1>3 DEF I2c!set_sda
<1>. HIDE DEF d1
<1>6. /\ d1 \in I2cChip /\ SameByte(c, d1) /\ d1.phase = "send" /\ d1.bit = Bits
      /\ d1.scl = FALSE /\ d1.sda = z /\ d1.pull = FALSE
  BY <1>3, <1>4, <1>5 DEF I2cChip, SameByte
<1>7. CASE ack
  <2> DEFINE b == d1.bit + 1
             p == (d2.ptr + 1) % Size
             s == I2c!Send(d2, p)
  <2>1. b \in 0 .. Bits + 1 /\ b = Bits + 1
    BY <1>6, I2cSizes
  <2>2. ~I2c!Line(d1)
    BY <1>4, <1>6, <1>7 DEF I2c!Line
  <2>3. d2 = [d1 EXCEPT !.bit = b, !.scl = TRUE]
    <3>1. I2c!Rise(d1) = [d1 EXCEPT !.bit = b]
      BY <1>6, <2>2 DEF I2c!Rise, I2c!Takes
    <3>. QED
      BY <1>6, <3>1 DEF I2c!set_scl
  <2>. HIDE DEF b, d2
  <2>4. /\ d2 \in I2cChip /\ SameByte(c, d2) /\ d2.phase = "send" /\ d2.bit = Bits + 1
        /\ d2.scl = TRUE
    BY <1>6, <2>1, <2>3 DEF I2cChip, SameByte
  <2>5. d3 = [s EXCEPT !.scl = FALSE]
    <3>1. Bits + 1 # Bits /\ ~(Bits + 1 < Bits)
      BY I2cSizes
    <3>2. I2c!Fall(d2) = s
      BY <2>4, <3>1 DEF I2c!Fall, I2c!Takes
    <3>. QED
      BY <2>4, <3>2 DEF I2c!set_scl
  <2>6. p \in Addr /\ p = (c.ptr + 1) % Size
    <3>1. d2.ptr = c.ptr /\ d2.ptr \in Nat
      BY <2>4, I2cSizes DEF SameByte, I2cChip
    <3>2. PICK n \in Nat : n = d2.ptr + 1
      BY <3>1
    <3>3. n % Size \in 0 .. Size - 1
      BY I2cSizes, DivMod
    <3>. QED
      BY <3>1, <3>2, <3>3, I2cSizes
  <2>. HIDE DEF p
  <2>7. /\ s \in I2cChip /\ s.phase = "send" /\ s.bit = 0 /\ s.ptr = p
        /\ s.pull = ~I2c!BitOf(d2.mem[p], 0)
        /\ s.mem = d2.mem /\ s.latch = d2.latch /\ s.busy = d2.busy
    BY <2>4, <2>6, I2cSend
  <2>. HIDE DEF s, d3
  <2>8. /\ d3 \in I2cChip /\ d3.phase = "send" /\ d3.bit = 0 /\ d3.ptr = p /\ d3.scl = FALSE
        /\ d3.pull = s.pull /\ d3.mem = c.mem /\ d3.busy = c.busy
    BY <2>4, <2>5, <2>7 DEF I2cChip, SameByte
  <2>9. e = [d3 EXCEPT !.sda = TRUE]
    BY <2>8 DEF I2c!set_sda
  <2>. HIDE DEF e
  <2>10. /\ e \in I2cChip /\ e.phase = "send" /\ e.bit = 0 /\ e.ptr = p /\ e.scl = FALSE
         /\ e.pull = s.pull /\ e.mem = c.mem /\ e.busy = c.busy
    BY <2>8, <2>9 DEF I2cChip
  <2>11. Sends(e)
    <3>1. d2.mem = e.mem
      BY <2>4, <2>10 DEF SameByte
    <3>. QED
      BY <2>7, <2>10, <3>1 DEF Sends
  <2>. QED
    BY <1>1, <1>2, <1>7, <2>6, <2>10, <2>11
<1>8. CASE ~ack
  <2> DEFINE i == I2c!Idle(d1)
  <2>1. I2c!Line(d1)
    BY <1>4, <1>6, <1>8 DEF I2c!Line
  <2>2. d2 = [i EXCEPT !.scl = TRUE]
    <3>1. I2c!Rise(d1) = i
      BY <1>6, <2>1 DEF I2c!Rise, I2c!Takes
    <3>. QED
      BY <1>6, <3>1 DEF I2c!set_scl
  <2>3. i \in I2cChip /\ i.phase = "idle" /\ i.mem = c.mem /\ i.busy = c.busy
    BY <1>6, I2cIdle DEF SameByte
  <2>. HIDE DEF i, d2
  <2>4. /\ d2 \in I2cChip /\ d2.phase = "idle" /\ d2.mem = c.mem /\ d2.busy = c.busy
        /\ d2.scl = TRUE
    BY <2>2, <2>3 DEF I2cChip
  <2>5. d3 = [d2 EXCEPT !.scl = FALSE]
    <3>1. I2c!Fall(d2) = d2
      BY <2>4 DEF I2c!Fall, I2c!Takes
    <3>. QED
      BY <2>4, <3>1 DEF I2c!set_scl
  <2>. HIDE DEF d3
  <2>6. /\ d3 \in I2cChip /\ d3.phase = "idle" /\ d3.mem = c.mem /\ d3.busy = c.busy
        /\ d3.scl = FALSE
    BY <2>4, <2>5 DEF I2cChip
  <2>7. e = [d3 EXCEPT !.sda = TRUE]
    BY <2>6 DEF I2c!set_sda
  <2>. HIDE DEF e
  <2>8. e.phase = "idle" /\ e.mem = c.mem /\ e.busy = c.busy
    BY <2>6, <2>7 DEF I2cChip
  <2>. QED
    BY <1>1, <1>2, <1>8, <2>8
<1>. QED
  BY <1>7, <1>8

-----------------------------------------------------------------------------
\* Polls, erases and the way out of a byte.

\* The wires are at rest and the chip keeps what it had; it ends up idle unless it was
\* sending.
AtRest(c, d) ==
  /\ Deaf(d) /\ d.scl = TRUE /\ d.sda = TRUE /\ d.mem = c.mem /\ d.busy = c.busy
  /\ c.phase # "send" => d.phase = "idle"

LEMMA PollRests ==
  ASSUME NEW c, Ready(c)
  PROVE  AtRest(c, I2c!Polled(c))
<1> DEFINE d1 == I2c!i2c_start(c)
           d2 == I2c!i2c_send_byte(d1, EEPROM_ADDR)
           d3 == I2c!i2c_stop(d2)
<1>1. I2c!Polled(c) = d3
  BY DEF I2c!Polled
<1>2. /\ d1.mem = c.mem /\ d1.busy = c.busy
      /\ \/ Hears(d1, "dev") /\ d1.latch = NoBytes
         \/ Deaf(d1) /\ d1.scl = FALSE /\ c.phase = "send"
  BY Start
<1>. HIDE DEF d1
<1>3. CASE Deaf(d1) /\ d1.scl = FALSE /\ c.phase = "send"
  <2>1. DeafTo(d1, d2) /\ d2.scl = FALSE
    BY <1>3, DeafByte
  <2>. HIDE DEF d2
  <2>2. DeafTo(d2, d3) /\ d3.scl = TRUE /\ d3.sda = TRUE
    BY <2>1, StopDeaf DEF DeafTo
  <2>. HIDE DEF d3
  <2>. QED
    BY <1>1, <1>2, <1>3, <2>1, <2>2 DEF DeafTo, AtRest
<1>4. CASE Hears(d1, "dev") /\ d1.latch = NoBytes
  <2>1. /\ d2.mem = d1.mem /\ d2.busy = d1.busy
        /\ d1.busy => Deaf(d2) /\ d2.phase = "idle" /\ d2.scl = FALSE
        /\ ~d1.busy => Hears(d2, "high")
    <3>1. /\ d2.mem = d1.mem /\ d2.busy = d1.busy
          /\ d1.busy => Deaf(d2) /\ d2.phase = "idle" /\ d2.scl = FALSE
          /\ ~d1.busy => /\ IF EEPROM_ADDR % 2 = 1 THEN Sends(d2) ELSE Hears(d2, "high")
                         /\ d2.ptr = d1.ptr /\ d2.latch = NoBytes
      BY <1>4, DeviceAddress, DevByte
    <3>. HIDE DEF d2
    <3>. QED
      BY <3>1, DeviceAddress
  <2>. HIDE DEF d2
  <2>2. CASE d1.busy
    <3>1. DeafTo(d2, d3) /\ d3.scl = TRUE /\ d3.sda = TRUE
      BY <2>1, <2>2, StopDeaf
    <3>. HIDE DEF d3
    <3>. QED
      BY <1>1, <1>2, <2>1, <2>2, <3>1 DEF DeafTo, AtRest
  <2>3. CASE ~d1.busy
    <3>1. /\ Deaf(d3) /\ d3.phase = "idle" /\ d3.scl = TRUE /\ d3.sda = TRUE
          /\ d3.mem = d2.mem /\ d3.busy = d2.busy
      BY <2>1, <2>3, StopTaking DEF Taking
    <3>. HIDE DEF d3
    <3>. QED
      BY <1>1, <1>2, <2>1, <3>1 DEF AtRest
  <2>. QED
    BY <2>2, <2>3
<1>. QED
  BY <1>2, <1>3, <1>4

LEMMA PageStart ==
  ASSUME NEW a \in Addr
  PROVE  a - (a % PageSize) \in Addr
<1> DEFINE b == a - (a % PageSize)
<1>1. a \in Nat /\ a < Size /\ PageSize \in Nat \ {0}
  BY I2cSizes
<1>2. a % PageSize \in Nat /\ a = PageSize * (a \div PageSize) + (a % PageSize)
      /\ a \div PageSize \in Nat
  BY <1>1, DivMod
<1>3. PICK m \in Nat : m = PageSize * (a \div PageSize)
  BY <1>1, <1>2
<1>4. b = m
  BY <1>1, <1>2, <1>3
<1>. QED
  BY <1>1, <1>2, <1>3, <1>4, I2cSizes

LEMMA EraseRests ==
  ASSUME Size <= I2c!Weight[Bits] * I2c!Weight[Bits], NEW c, Ready(c), NEW a \in Addr
  PROVE  AtRest(c, I2c!extmem_erase(c, a))
<1> DEFINE b == a - (a % PageSize)
           d == I2c!Select(c, b)
           e == I2c!i2c_stop(d)
<1>1. b \in Addr
  BY PageStart
<1>. HIDE DEF b
<1>2. Opened(c, d, b)
  BY <1>1, SelectOpens
<1>. HIDE DEF d
<1>3. /\ Deaf(e) /\ e.scl = TRUE /\ e.sda = TRUE /\ e.mem = c.mem /\ e.busy = c.busy
      /\ c.phase # "send" => e.phase = "idle"
      /\ c.phase # "send" /\ ~c.busy => e.ptr = b
  BY <1>1, <1>2, StopOpened
<1>4. I2c!extmem_erase(c, a) = e
  BY DEF I2c!extmem_erase, b, d
<1>. HIDE DEF e
<1>. QED
  BY <1>3, <1>4 DEF AtRest

\* Clock pulses, with SDA high, until a chip that sends looks for an acknowledge.
PulsesLeft(c) == IF c.bit = Bits + 1 THEN Bits + 1 ELSE Bits + 1 - c.bit

LEMMA PulseCounts ==
  ASSUME NEW c, Deaf(c), c.scl = TRUE, c.sda = TRUE
  PROVE  LET e == I2c!Pulse(c)
         IN  /\ DeafTo(c, e) /\ e.scl = TRUE /\ e.sda = TRUE
             /\ e.phase = "send" => PulsesLeft(e) < PulsesLeft(c)
<1> DEFINE d == I2c!set_scl(c, FALSE)
           e == I2c!set_scl(d, TRUE)
<1>1. DeafTo(c, d) /\ d.scl = FALSE /\ d.sda = TRUE
  BY DeafScl
<1>2. DeafTo(d, e) /\ e.scl = TRUE /\ e.sda = TRUE
  <2>. HIDE DEF d
  <2>. QED
    BY <1>1, DeafScl DEF DeafTo
<1>3. DeafTo(c, e)
  <2>. HIDE DEF d, e
  <2>. QED
    BY <1>1, <1>2, DeafChain
<1>4. c \in I2cChip /\ c.bit \in 0 .. Bits + 1 /\ Bits \in Nat \ {0} /\ c.phase \in {"idle", "send"}
  BY I2cSizes DEF Deaf, I2cChip
<1>5. CASE c.phase = "idle"
  <2>. HIDE DEF d, e
  <2>. QED
    BY <1>2, <1>3, <1>5 DEF DeafTo, I2c!Pulse, d, e
<1>6. CASE c.phase = "send" /\ c.bit < Bits
  <2>1. PICK y \in BOOLEAN : y = ~I2c!BitOf(c.mem[c.ptr], c.bit)
    BY DEF I2c!BitOf
  <2>2. d = [c EXCEPT !.pull = y, !.scl = FALSE]
    <3>1. I2c!Fall(c) = [c EXCEPT !.pull = y]
      BY <1>4, <1>6, <2>1 DEF I2c!Fall, I2c!Takes
    <3>. QED
      BY <3>1 DEF I2c!set_scl
  <2>. HIDE DEF d
  <2>3. d \in I2cChip /\ d.phase = "send" /\ d.bit = c.bit /\ d.scl = FALSE
    BY <1>4, <1>6, <2>1, <2>2 DEF I2cChip
  <2> DEFINE b == d.bit + 1
  <2>4. b \in 0 .. Bits + 1 /\ b = c.bit + 1 /\ d.bit # Bits
    BY <1>4, <1>6, <2>3
  <2>5. e = [d EXCEPT !.bit = b, !.scl = TRUE]
    <3>1. I2c!Rise(d) = [d EXCEPT !.bit = b]
      BY <2>3, <2>4 DEF I2c!Rise, I2c!Takes
    <3>. QED
      BY <2>3, <3>1 DEF I2c!set_scl
  <2>. HIDE DEF b, e
  <2>6. e.bit = b
    BY <2>3, <2>4, <2>5 DEF I2cChip
  <2>7. PulsesLeft(e) < PulsesLeft(c)
    BY <1>4, <1>6, <2>4, <2>6 DEF PulsesLeft
  <2>. QED
    BY <1>2, <1>3, <2>7 DEF I2c!Pulse, d, e
<1>7. CASE c.phase = "send" /\ c.bit = Bits
  <2>1. d = [c EXCEPT !.pull = FALSE, !.scl = FALSE]
    <3>1. I2c!Fall(c) = [c EXCEPT !.pull = FALSE]
      BY <1>4, <1>7 DEF I2c!Fall, I2c!Takes
    <3>. QED
      BY <3>1 DEF I2c!set_scl
  <2>. HIDE DEF d
  <2>2. d \in I2cChip /\ d.phase = "send" /\ d.bit = Bits /\ d.scl = FALSE /\ d.pull = FALSE
    BY <1>4, <1>7, <2>1 DEF I2cChip
  <2> DEFINE i == I2c!Idle(d)
  <2>3. e = [i EXCEPT !.scl = TRUE]
    <3>1. I2c!Line(d)
      BY <1>1, <2>2 DEF I2c!Line
    <3>2. I2c!Rise(d) = i
      BY <2>2, <3>1 DEF I2c!Rise, I2c!Takes
    <3>. QED
      BY <2>2, <3>2 DEF I2c!set_scl
  <2>4. i \in I2cChip /\ i.phase = "idle"
    BY <2>2, I2cIdle
  <2>. HIDE DEF i, e
  <2>5. e.phase = "idle"
    BY <2>3, <2>4 DEF I2cChip
  <2>. QED
    BY <1>2, <1>3, <2>5 DEF I2c!Pulse, d, e
<1>8. CASE c.phase = "send" /\ c.bit = Bits + 1
  <2> DEFINE p == (c.ptr + 1) % Size
             s == I2c!Send(c, p)
  <2>1. d = [s EXCEPT !.scl = FALSE]
    <3>1. Bits + 1 # Bits /\ ~(Bits + 1 < Bits)
      BY <1>4
    <3>2. I2c!Fall(c) = s
      BY <1>8, <3>1 DEF I2c!Fall, I2c!Takes
    <3>. QED
      BY <3>2 DEF I2c!set_scl
  <2>2. p \in Addr
    <3>1. PICK n \in Nat : n = c.ptr + 1
      BY <1>4, I2cSizes DEF I2cChip
    <3>2. n % Size \in 0 .. Size - 1
      BY I2cSizes, DivMod
    <3>. QED
      BY <3>1, <3>2, I2cSizes
  <2>. HIDE DEF p
  <2>3. s \in I2cChip /\ s.phase = "send" /\ s.bit = 0
    BY <1>4, <2>2, I2cSend
  <2>. HIDE DEF s, d
  <2>4. d \in I2cChip /\ d.phase = "send" /\ d.bit = 0 /\ d.scl = FALSE
    BY <2>1, <2>3 DEF I2cChip
  <2>5. e = [d EXCEPT !.bit = 1, !.scl = TRUE]
    <3>1. 0 # Bits /\ 0 + 1 = 1
      BY <1>4
    <3>2. I2c!Rise(d) = [d EXCEPT !.bit = 1]
      BY <2>4, <3>1 DEF I2c!Rise, I2c!Takes
    <3>. QED
      BY <2>4, <3>2 DEF I2c!set_scl
  <2>. HIDE DEF e
  <2>6. e.bit = 1
    BY <2>4, <2>5 DEF I2cChip
  <2>7. PulsesLeft(e) < PulsesLeft(c)
    BY <1>4, <1>8, <2>6 DEF PulsesLeft
  <2>. QED
    BY <1>2, <1>3, <2>7 DEF I2c!Pulse, d, e
<1>9. c.bit < Bits \/ c.bit = Bits \/ c.bit = Bits + 1
  BY <1>4
<1>. QED
  BY <1>4, <1>5, <1>6, <1>7, <1>8, <1>9

LEMMA PulsesEnd ==
  ASSUME NEW c, Deaf(c), c.scl = TRUE, c.sda = TRUE
  PROVE  LET e == I2c!Pulsed(c)[Bits + 1]
         IN  DeafTo(c, e) /\ e.phase = "idle" /\ e.scl = TRUE /\ e.sda = TRUE
<1> DEFINE s == I2c!Pulsed(c)
           good == {n \in 0 .. Bits + 1 :
                      /\ DeafTo(c, s[n]) /\ s[n].scl = TRUE /\ s[n].sda = TRUE
                      /\ s[n].phase = "send" => PulsesLeft(s[n]) <= Bits + 1 - n}
<1>1. s = [n \in 0 .. Bits + 1 |-> IF n = 0 THEN c ELSE I2c!Pulse(s[n - 1])]
  BY PulsedRec
<1>2. Bits \in Nat /\ Bits + 1 \in Nat
  BY I2cSizes
<1>. HIDE DEF s
<1>3. ASSUME NEW d, Deaf(d)
      PROVE  PulsesLeft(d) \in 1 .. Bits + 1 \/ d.bit = Bits + 1
  BY <1>2, <1>3 DEF PulsesLeft, Deaf, I2cChip
<1>4. ASSUME NEW d, Deaf(d)
      PROVE  PulsesLeft(d) \in 1 .. Bits + 1
  <2>1. d.bit \in 0 .. Bits + 1
    BY <1>4 DEF Deaf, I2cChip
  <2>. QED
    BY <1>2, <2>1 DEF PulsesLeft
<1>5. 0 \in good
  <2>1. s[0] = c /\ 0 \in 0 .. Bits + 1 /\ DeafTo(c, c) /\ Bits + 1 - 0 = Bits + 1
    BY <1>1, <1>2 DEF DeafTo
  <2>2. PulsesLeft(c) <= Bits + 1
    BY <1>2, <1>4
  <2>. QED
    BY <2>1, <2>2
<1>6. ASSUME NEW n \in 0 .. (Bits + 1) - 1, n \in good
      PROVE  n + 1 \in good
  <2>1. PICK m \in 0 .. Bits + 1 : m = n + 1 /\ m # 0 /\ m - 1 = n
    BY <1>2
  <2>2. s[m] = I2c!Pulse(s[n])
    BY <1>1, <2>1
  <2>3. /\ DeafTo(c, s[n]) /\ s[n].scl = TRUE /\ s[n].sda = TRUE /\ Deaf(s[n])
        /\ s[n].phase = "send" => PulsesLeft(s[n]) <= Bits + 1 - n
    BY <1>6 DEF DeafTo
  <2>4. /\ DeafTo(s[n], s[m]) /\ s[m].scl = TRUE /\ s[m].sda = TRUE
        /\ s[m].phase = "send" => PulsesLeft(s[m]) < PulsesLeft(s[n])
    BY <2>2, <2>3, PulseCounts
  <2>5. s[m].phase = "send" => s[n].phase = "send"
    BY <2>3, <2>4 DEF DeafTo, Deaf
  <2>6. PulsesLeft(s[m]) \in Int /\ PulsesLeft(s[n]) \in Int
    BY <1>4, <2>3, <2>4 DEF DeafTo
  <2>7. s[m].phase = "send" => PulsesLeft(s[m]) <= Bits + 1 - m
    BY <1>2, <2>1, <2>3, <2>4, <2>5, <2>6
  <2>8. DeafTo(c, s[m])
    BY <2>3, <2>4, DeafChain
  <2>. QED
    BY <2>1, <2>4, <2>7, <2>8
<1>7. Bits + 1 \in good
  <2>. HIDE DEF good
  <2>1. \A k \in 0 .. Bits + 1 : k \in good
    BY <1>2, <1>5, <1>6, CountUp
  <2>. QED
    BY <1>2, <2>1
<1>8. PICK e : e = s[Bits + 1]
  OBVIOUS
<1>9. /\ DeafTo(c, e) /\ Deaf(e) /\ e.scl = TRUE /\ e.sda = TRUE
      /\ e.phase = "send" => PulsesLeft(e) <= 0
  BY <1>2, <1>7, <1>8 DEF DeafTo
<1>10. e.phase = "idle"
  <2>1. PulsesLeft(e) \in 1 .. Bits + 1
    BY <1>4, <1>9
  <2>. QED
    BY <1>2, <1>9, <2>1 DEF Deaf
<1>. QED
  BY <1>8, <1>9, <1>10 DEF s

LEMMA InitRests ==
  ASSUME NEW c, Deaf(c), c.scl => c.sda
  PROVE  LET e == I2c!i2c_init(c)
         IN  AtRest(c, e) /\ e.phase = "idle"
<1> DEFINE d1 == I2c!set_sda(c, TRUE)
           d2 == I2c!set_scl(d1, TRUE)
           d3 == I2c!Pulsed(d2)[Bits + 1]
           e1 == [d3 EXCEPT !.sda = FALSE]
           i1 == I2c!Idle(e1)
           e2 == I2c!set_sda(d3, FALSE)
           e3 == I2c!set_scl(e2, TRUE)
           e4 == [e3 EXCEPT !.sda = TRUE]
           i4 == I2c!Idle(e4)
           e == I2c!set_sda(e3, TRUE)
<1>1. e = I2c!i2c_init(c)
  BY DEF I2c!i2c_init, I2c!i2c_stop
<1>2. DeafTo(c, d1) /\ d1.sda = TRUE
  <2>1. CASE ~c.scl
    BY <2>1, DeafSda
  <2>2. CASE c.scl
    <3>1. c.sda = TRUE /\ c.scl = TRUE
      BY <2>2 DEF Deaf, I2cChip
    <3>2. [c EXCEPT !.sda = TRUE] = c
      BY <3>1 DEF Deaf, I2cChip
    <3>3. d1 = c
      BY <3>2 DEF I2c!set_sda
    <3>. QED
      BY <3>1, <3>3 DEF DeafTo
  <2>. QED
    BY <2>1, <2>2
<1>. HIDE DEF d1
<1>3. DeafTo(d1, d2) /\ d2.scl = TRUE /\ d2.sda = TRUE
  BY <1>2, DeafScl DEF DeafTo
<1>. HIDE DEF d2
<1>4. DeafTo(d2, d3) /\ d3.phase = "idle" /\ d3.scl = TRUE /\ d3.sda = TRUE
  BY <1>3, PulsesEnd DEF DeafTo
<1>. HIDE DEF d3
<1>5. d3 \in I2cChip /\ d3.mem = c.mem /\ d3.busy = c.busy /\ d3.pull = FALSE
  BY <1>2, <1>3, <1>4 DEF DeafTo, Deaf, I2cChip
<1>6. /\ e1 \in I2cChip /\ e1.mem = c.mem /\ e1.busy = c.busy /\ e1.scl = TRUE /\ e1.sda = FALSE
      /\ e1.pull = FALSE
  BY <1>4, <1>5 DEF I2cChip
<1>7. e2 = [i1 EXCEPT !.phase = "dev"]
  <2>1. I2c!Line(d3) /\ ~I2c!Line(e1)
    BY <1>4, <1>5, <1>6 DEF I2c!Line
  <2>2. e2 = I2c!Begin(e1)
    BY <1>4, <2>1 DEF I2c!set_sda
  <2>. QED
    BY <2>2 DEF I2c!Begin
<1>. HIDE DEF e1
<1>8. /\ i1 \in I2cChip /\ i1.mem = c.mem /\ i1.busy = c.busy /\ i1.scl = TRUE /\ i1.sda = FALSE
      /\ i1.pull = FALSE /\ i1.bit = 0
  BY <1>6, I2cIdle
<1>. HIDE DEF i1, e2
<1>9. /\ e2 \in I2cChip /\ e2.mem = c.mem /\ e2.busy = c.busy /\ e2.scl = TRUE /\ e2.sda = FALSE
      /\ e2.phase = "dev" /\ e2.pull = FALSE
  BY <1>7, <1>8 DEF I2cChip, Taking
<1>10. e3 = e2
  BY <1>9 DEF I2c!set_scl
<1>. HIDE DEF e3
<1>11. /\ e4 \in I2cChip /\ e4.mem = c.mem /\ e4.busy = c.busy /\ e4.scl = TRUE /\ e4.sda = TRUE
       /\ e4.phase = "dev" /\ e4.pull = e3.pull
  BY <1>9, <1>10 DEF I2cChip
<1>12. e = i4
  <2>1. ~I2c!Line(e3) /\ I2c!Line(e4)
    BY <1>9, <1>10, <1>11 DEF I2c!Line
  <2>2. e = I2c!End(e4)
    BY <1>9, <1>10, <2>1 DEF I2c!set_sda
  <2>. QED
    BY <1>11, <2>2 DEF I2c!End
<1>. HIDE DEF e4, e
<1>13. /\ i4 \in I2cChip /\ i4.phase = "idle" /\ i4.latch = NoBytes /\ i4.pull = FALSE
       /\ i4.mem = c.mem /\ i4.busy = c.busy /\ i4.scl = TRUE /\ i4.sda = TRUE
  BY <1>11, I2cIdle
<1>. HIDE DEF i4
<1>14. AtRest(c, e) /\ e.phase = "idle"
  BY <1>12, <1>13 DEF AtRest, Deaf
<1>. QED
  BY <1>1, <1>14

-----------------------------------------------------------------------------
\* What the handlers keep, whatever the chip.

Reading == {"read", "lookup"}

HandlersType ==
  /\ stage \in {"prompt", "write", "writePoll", "erasing", "erasePoll"} \cup Reading
  /\ pageOpen \in BOOLEAN /\ sound \in BOOLEAN /\ open \in BOOLEAN /\ honest \in BOOLEAN
  /\ want \in [Addr -> Int] /\ pend \in [Addr -> Int]
  /\ addr \in Nat /\ end \in Nat /\ addr <= end /\ end <= Size
  /\ stage = "write" => addr < end
  /\ pageOpen => stage = "write"

LEMMA DriverBytes ==
  /\ NoBytes \in [Addr -> Int] /\ NoByte \in Int /\ Any \in Int /\ NoByte # Any
  /\ Data \cup {Erased} \subseteq Byte /\ Byte \subseteq Nat /\ NoByte \notin Byte
  /\ Erased \in Nat
<1>1. Data \subseteq 0 .. Erased /\ Erased \in Nat
  BY DriversAssumption, BitEnds
<1>2. NoBytes \in [Addr -> Int] /\ NoByte \in Int /\ Any \in Int /\ NoByte # Any
  BY DEF NoBytes, NoByte, Any
<1>3. Data \cup {Erased} \subseteq Byte /\ Byte \subseteq Nat
  BY <1>1 DEF Byte
<1>4. NoByte \notin Byte
  BY <1>1 DEF Byte, NoByte
<1>. QED
  BY <1>1, <1>2, <1>3, <1>4

LEMMA BlockType ==
  ASSUME NEW b \in Blocks
  PROVE  b[1] \in Addr /\ b[1] \in Nat /\ b[2] \in Nat /\ b[1] + b[2] <= Size
BY DriversAssumption DEF Addr

LEMMA ReturnType ==
  ASSUME Return, want' \in [Addr -> Int], open' \in BOOLEAN
  PROVE  HandlersType'
<1>1. /\ stage' = "prompt" /\ addr' = 0 /\ end' = 0 /\ pageOpen' = FALSE
      /\ pend' = NoBytes /\ sound' = TRUE /\ honest' = TRUE
  BY DEF Return
<1>2. 0 \in Nat /\ 0 <= 0 /\ 0 <= Size
  BY I2cSizes
<1>. QED
  BY <1>1, <1>2, DriverBytes DEF HandlersType, Reading

LEMMA StoredType ==
  ASSUME want \in [Addr -> Int], NEW p \in [Addr -> Int], NEW s
  PROVE  Stored(p, s) \in [Addr -> Int]
<1> DEFINE T == Touched({a \in Addr : p[a] # NoByte})
           E(a) == /\ s /\ (AtBuild => \E x \in {y \in Addr : p[y] # NoByte} : x % PageSize = 0)
                   /\ a \in {y \in Addr : p[y] # NoByte}
<1>1. Stored(p, s) = [a \in Addr |-> IF a \notin T THEN want[a] ELSE IF E(a) THEN p[a] ELSE Any]
  BY DEF Stored
<1>. HIDE DEF T, E
<1>2. ASSUME NEW a \in Addr
      PROVE  (IF a \notin T THEN want[a] ELSE IF E(a) THEN p[a] ELSE Any) \in Int
  BY DriverBytes
<1>. QED
  BY <1>1, <1>2

LEMMA HandlersStep ==
  ASSUME HandlersType, DriversNext
  PROVE  HandlersType'
<1>1. CASE WriteFlash
  <2>1. PICK b \in Blocks :
          b[2] > 0 /\ Command("write", b) /\ UNCHANGED <<want, sound, open, honest>>
    BY <1>1 DEF WriteFlash
  <2>2. /\ stage = "prompt" /\ stage' = "write" /\ addr' = b[1] /\ end' = b[1] + b[2]
        /\ UNCHANGED <<pageOpen, pend>>
    BY <2>1 DEF Command
  <2>3. addr' \in Nat /\ end' \in Nat /\ addr' < end' /\ addr' <= end' /\ end' <= Size
    BY <2>1, <2>2, BlockType
  <2>. QED
    BY <2>1, <2>2, <2>3 DEF HandlersType
<1>2. CASE WriteFlashByte
  <2> DEFINE c0 == IF pageOpen THEN chip ELSE extmem_write_start(chip, addr)
             s == IF pageOpen THEN sound ELSE Listening
             atEnd == (addr + 1) % PageSize = 0 \/ addr + 1 = end
  <2>1. PICK b \in Data \cup {Erased} :
        \E c \in {extmem_write_byte(c0, b)} :
          IF atEnd
          THEN /\ chip' = extmem_write_stop(c) /\ want' = Stored([pend EXCEPT ![addr] = b], s)
               /\ pageOpen' = FALSE /\ pend' = NoBytes /\ sound' = TRUE
               /\ open' = (open /\ ~AtBuild) /\ stage' = "writePoll"
          ELSE /\ chip' = c /\ pageOpen' = TRUE /\ pend' = [pend EXCEPT ![addr] = b] /\ sound' = s
               /\ UNCHANGED <<want, open, stage>>
    BY <1>2 DEF WriteFlashByte
  <2>2. stage = "write" /\ addr' = addr + 1 /\ end' = end /\ honest' = honest
    BY <1>2 DEF WriteFlashByte
  <2> DEFINE p == [pend EXCEPT ![addr] = b]
  <2>3. p \in [Addr -> Int]
    <3>1. b \in Data \cup {Erased}
      BY <2>1
    <3>2. b \in Int
      <4>1. b \in Byte
        BY <3>1, DriverBytes
      <4>2. b \in Nat
        BY <4>1, DriverBytes
      <4>. QED
        BY <4>2
    <3>. QED
      BY <3>2 DEF HandlersType
  <2>4. s \in BOOLEAN
    BY DEF HandlersType, Listening
  <2>5. addr' \in Nat /\ end' \in Nat /\ addr' <= end' /\ end' <= Size /\ (~atEnd => addr' < end')
    BY <2>2 DEF HandlersType
  <2>. HIDE DEF c0, s
  <2>6. CASE atEnd
    <3>1. /\ want' = Stored(p, s) /\ pageOpen' = FALSE /\ pend' = NoBytes /\ sound' = TRUE
          /\ open' = (open /\ ~AtBuild) /\ stage' = "writePoll"
      BY <2>1, <2>6
    <3>2. want' \in [Addr -> Int]
      <4>. HIDE DEF p
      <4>. QED
        BY <2>3, <3>1, StoredType DEF HandlersType
    <3>3. open' \in BOOLEAN
      BY <3>1
    <3>. QED
      BY <2>2, <2>5, <3>1, <3>2, <3>3, DriverBytes DEF HandlersType
  <2>7. CASE ~atEnd
    <3>1. pageOpen' = TRUE /\ pend' = p /\ sound' = s /\ UNCHANGED <<want, open, stage>>
      BY <2>1, <2>7
    <3>. HIDE DEF p, atEnd
    <3>. QED
      BY <2>2, <2>3, <2>4, <2>5, <2>7, <3>1 DEF HandlersType
  <2>. QED
    BY <2>6, <2>7
<1>3. CASE PollAgain
  BY <1>3 DEF PollAgain, Poll, HandlersType
<1>4. CASE WriteFlashPolled
  <2>1. UNCHANGED <<want, open>> /\ stage = "writePoll"
    BY <1>4 DEF WriteFlashPolled, Poll
  <2>2. CASE addr = end
    BY <1>4, <2>1, <2>2, ReturnType DEF WriteFlashPolled, HandlersType
  <2>3. CASE addr # end
    <3>1. stage' = "write" /\ UNCHANGED <<addr, end, pageOpen, pend, sound, honest>>
      BY <1>4, <2>3 DEF WriteFlashPolled
    <3>2. addr < end
      BY <2>3 DEF HandlersType
    <3>. QED
      BY <2>1, <3>1, <3>2 DEF HandlersType
  <2>. QED
    BY <2>2, <2>3
<1>5. CASE WriteFlashAbort
  BY <1>5, ReturnType DEF WriteFlashAbort, HandlersType
<1>6. CASE WriteFlashPollAbort \/ EraseFlashPolled \/ EraseFlashAbort
  BY <1>6, ReturnType DEF WriteFlashPollAbort, EraseFlashPolled, EraseFlashAbort, Poll,
     HandlersType
<1>7. CASE EraseFlash
  <2>1. PICK a \in Addr :
          /\ Command(IF AtBuild THEN "erasePoll" ELSE "erasing", <<a, 0>>)
          /\ want' = [b \in Addr |-> IF b \notin named' THEN want[b]
                                     ELSE IF Listening THEN Erased ELSE Any]
          /\ open' = (open /\ ~AtBuild) /\ UNCHANGED <<sound, honest>>
    BY <1>7 DEF EraseFlash
  <2>2. /\ stage = "prompt" /\ stage' \in {"erasePoll", "erasing"} /\ addr' = a /\ end' = a + 0
        /\ UNCHANGED <<pageOpen, pend>>
    BY <2>1 DEF Command
  <2>3. want' \in [Addr -> Int]
    BY <2>1, DriverBytes DEF HandlersType
  <2>4. addr' \in Nat /\ end' \in Nat /\ addr' <= end' /\ end' <= Size /\ open' \in BOOLEAN
    BY <2>1, <2>2, I2cSizes
  <2>. QED
    BY <2>1, <2>2, <2>3, <2>4 DEF HandlersType
<1>8. CASE StartReading
  <2>1. PICK kind \in Reading, b \in Blocks :
          Command(kind, b) /\ sound' = Listening /\ UNCHANGED <<want, open, honest>>
    BY <1>8 DEF StartReading, Reading
  <2>2. /\ stage = "prompt" /\ stage' = kind /\ addr' = b[1] /\ end' = b[1] + b[2]
        /\ UNCHANGED <<pageOpen, pend>>
    BY <2>1 DEF Command
  <2>3. addr' \in Nat /\ end' \in Nat /\ addr' <= end' /\ end' <= Size
    BY <2>1, <2>2, BlockType
  <2>4. sound' \in BOOLEAN
    BY <2>1 DEF Listening
  <2>. QED
    BY <2>1, <2>2, <2>3, <2>4 DEF HandlersType, Reading
<1>9. CASE ReadByte
  <2>1. /\ stage \in Reading /\ addr # end /\ addr' = addr + 1
        /\ honest' = (honest /\ extmem_read_value(chip) = chip.mem[addr])
        /\ UNCHANGED <<stage, end, pageOpen, want, pend, sound, open>>
    BY <1>9 DEF ReadByte, Reading
  <2>2. honest' \in BOOLEAN
    BY <2>1
  <2>3. addr' \in Nat /\ addr' <= end'
    BY <2>1 DEF HandlersType
  <2>4. stage' # "write"
    BY <2>1 DEF Reading
  <2>. QED
    BY <2>1, <2>2, <2>3, <2>4 DEF HandlersType
<1>10. CASE ReadStop
  <2>1. open' = (~AtBuild /\ (open \/ stage = "lookup" \/ addr # end))
    BY <1>10 DEF ReadStop
  <2>2. open' \in BOOLEAN
    BY <2>1
  <2>. QED
    BY <1>10, <2>2, ReturnType DEF ReadStop, HandlersType
<1>11. CASE WatchdogReset
  BY <1>11, ReturnType DEF WatchdogReset, HandlersType
<1>12. CASE CycleDone
  BY <1>12 DEF CycleDone, HandlersType
<1>13. CASE EraseWaited
  BY <1>13 DEF EraseWaited, Poll, HandlersType
<1>. QED
  BY <1>1, <1>2, <1>3, <1>4, <1>5, <1>6, <1>7, <1>8, <1>9, <1>10, <1>11, <1>12, <1>13
     DEF DriversNext

-----------------------------------------------------------------------------
\* The handlers over the I2C memory.

\* The wires move only where the chip understands it, or does not listen.
OnTheBus ==
  /\ stage \in Reading => Deaf(chip) /\ chip.scl = FALSE
  /\ stage \notin Reading => Ready(chip) /\ (open \/ chip.phase # "send")
  /\ pageOpen => IF chip.phase = "data" THEN chip.latch = pend /\ chip.ptr = addr
                 ELSE ~sound /\ chip.scl = FALSE

PageNamed ==
  /\ stage \in {"write", "writePoll"} => \A a \in Addr : addr <= a /\ a < end => a \in named
  /\ \A a \in Addr : pend[a] # NoByte => a \in named
  /\ pageOpen \/ pend = NoBytes

\* The chip sends the byte that the master reads.
InStep ==
  /\ stage \in Reading /\ sound =>
       /\ ~open
       /\ addr < end => Sends(chip) /\ chip.ptr = addr
       /\ stage = "read" /\ addr = end => chip.phase = "idle"
  /\ stage \in Reading /\ ~sound => open \/ chip.phase = "idle"
  /\ stage \notin Reading \/ sound => honest

I2cInv == ~AtBuild /\ HandlersType /\ OnTheBus /\ PageNamed /\ InStep /\ AskedIsStored

\* Two bytes hold an address.
TwoByteAddress == Size <= I2c!Weight[Bits] * I2c!Weight[Bits]

\* What a step may change.
OnlyNamed == \A a \in Addr : chip'.mem[a] # chip.mem[a] => a \in named \cup named'

LEMMA I2cDriver ==
  ASSUME ~AtBuild
  PROVE  /\ \A c, a : extmem_read_start(c, a) = I2c!extmem_read_start(c, a)
         /\ \A c : extmem_read_value(c) = I2c!i2c_recv_value(c)
         /\ \A c, b : extmem_read_byte(c, b) = I2c!i2c_recv_byte(c, ~b)
         /\ \A c : extmem_read_stop(c) = I2c!i2c_stop(c)
         /\ \A c, a : extmem_write_start(c, a) = I2c!Select(c, a)
         /\ \A c, b : extmem_write_byte(c, b) = I2c!i2c_send_byte(c, b)
         /\ \A c : extmem_write_stop(c) = I2c!i2c_stop(c)
         /\ \A c : Polled(c) = I2c!Polled(c)
         /\ \A c, a : extmem_erase(c, a) = I2c!extmem_erase(c, a)
         /\ \A c : extmem_init(c) = I2c!i2c_init(c)
         /\ \A S : Touched(S) = S
BY DEF extmem_read_start, extmem_read_value, extmem_read_byte, extmem_read_stop,
   extmem_write_start, extmem_write_byte, extmem_write_stop, Polled, extmem_erase,
   extmem_init, Touched, I2c!extmem_read_value, I2c!extmem_read_byte,
   I2c!extmem_read_stop, I2c!extmem_write_start, I2c!extmem_write_byte,
   I2c!extmem_write_stop, I2c!extmem_init

LEMMA RestReady ==
  ASSUME NEW c, NEW d, AtRest(c, d)
  PROVE  Ready(d) /\ d.mem = c.mem /\ (c.phase # "send" => d.phase # "send")
BY DEF AtRest, Ready

\* What every way back to the prompt needs.
LEMMA I2cReturn ==
  ASSUME I2cInv, HandlersType', Return, Ready(chip'), open' \/ chip'.phase # "send",
         chip'.mem = chip.mem, UNCHANGED want
  PROVE  I2cInv' /\ OnlyNamed
<1>1. /\ stage' = "prompt" /\ addr' = 0 /\ end' = 0 /\ pageOpen' = FALSE
      /\ pend' = NoBytes /\ sound' = TRUE /\ honest' = TRUE /\ UNCHANGED build
  BY DEF Return
<1>2. OnTheBus' /\ InStep'
  BY <1>1 DEF OnTheBus, InStep, Reading, Ready, Deaf, Hears
<1>3. PageNamed'
  BY <1>1 DEF PageNamed, NoBytes
<1>4. AskedIsStored' /\ OnlyNamed
  BY DEF I2cInv, AskedIsStored, OnlyNamed
<1>. QED
  BY <1>1, <1>2, <1>3, <1>4 DEF I2cInv, AtBuild

LEMMA I2cInit ==
  ASSUME DriversInit, ~AtBuild
  PROVE  I2cInv
<1>1. PICK mem \in Contents : want = mem /\ chip = extmem_init(I2c!InitChip(mem))
  BY DEF DriversInit
<1>2. mem \in [Addr -> Byte]
  <2>1. mem \in [0 .. Size - 1 -> Data \cup {Erased}]
    BY DriversAssumption
  <2>2. \A x \in Data \cup {Erased} : x \in Byte
    BY DriverBytes
  <2>. QED
    BY <2>1, <2>2, I2cSizes
<1> DEFINE c == I2c!InitChip(mem)
           d == I2c!i2c_init(c)
<1>3. Deaf(c) /\ c.mem = mem /\ c.scl = TRUE /\ c.sda = TRUE /\ c.phase = "idle"
  <2>1. NoBytes \in [Addr -> Byte \cup {NoByte}]
    BY DEF NoBytes
  <2>2. 0 \in 0 .. Bits + 1 /\ 0 \in Nat /\ 0 \in Addr
    BY I2cSizes
  <2>3. c = [mem |-> mem, latch |-> NoBytes, phase |-> "idle", bit |-> 0, reg |-> 0, ptr |-> 0,
             pull |-> FALSE, busy |-> FALSE, scl |-> TRUE, sda |-> TRUE]
    BY NothingLatched DEF I2c!InitChip
  <2>. HIDE DEF c
  <2>. QED
    BY <1>2, <2>1, <2>2, <2>3 DEF Deaf, I2cChip, Taking
<1>. HIDE DEF c
<1>4. AtRest(c, d) /\ d.phase = "idle"
  BY <1>3, InitRests
<1>5. chip = d
  BY <1>1, I2cDriver DEF c
<1>. HIDE DEF d
<1>6. Ready(chip) /\ chip.mem = mem /\ chip.phase = "idle"
  BY <1>3, <1>4, <1>5, RestReady
<1>7. /\ stage = "prompt" /\ addr = 0 /\ end = 0 /\ pageOpen = FALSE /\ pend = NoBytes
      /\ sound = TRUE /\ open = FALSE /\ honest = TRUE
  BY DEF DriversInit
<1>8. HandlersType
  <2>1. want \in [Addr -> Int]
    <3>1. Byte \subseteq Int
      <4>1. Byte \subseteq Nat
        BY DriverBytes
      <4>. QED
        BY <4>1
    <3>2. \A a \in Addr : mem[a] \in Int
      BY <1>2, <3>1
    <3>. QED
      BY <1>1, <1>2, <3>2
  <2>2. 0 \in Nat /\ 0 <= 0 /\ 0 <= Size
    BY I2cSizes
  <2>. QED
    BY <1>7, <2>1, <2>2, DriverBytes DEF HandlersType
<1>9. OnTheBus /\ InStep /\ AskedIsStored
  BY <1>1, <1>6, <1>7 DEF OnTheBus, InStep, Reading, AskedIsStored
<1>10. PageNamed
  BY <1>7 DEF PageNamed, NoBytes
<1>. QED
  BY <1>8, <1>9, <1>10 DEF I2cInv

LEMMA I2cWriteFlash ==
  ASSUME I2cInv, WriteFlash, HandlersType'
  PROVE  I2cInv' /\ OnlyNamed
<1>1. PICK b \in Blocks : /\ b[2] > 0 /\ Command("write", b)
                          /\ named' = Touched(b[1] .. b[1] + b[2] - 1)
                          /\ UNCHANGED <<chip, want, sound, open, honest>>
  BY DEF WriteFlash
<1>2. /\ stage = "prompt" /\ stage' = "write" /\ addr' = b[1] /\ end' = b[1] + b[2]
      /\ UNCHANGED <<build, pageOpen, pend>>
  BY <1>1 DEF Command
<1>3. b[1] \in Nat /\ b[2] \in Nat
  BY BlockType
<1>4. ~AtBuild /\ ~pageOpen /\ pend = NoBytes /\ honest
  BY <1>2 DEF I2cInv, HandlersType, PageNamed, InStep, Reading
<1>5. named' = b[1] .. b[1] + b[2] - 1
  BY <1>1, <1>4, I2cDriver
<1>6. PageNamed'
  <2>1. \A a \in Addr : addr' <= a /\ a < end' => a \in named'
    BY <1>2, <1>3, <1>5, I2cSizes
  <2>. QED
    BY <1>2, <1>4, <2>1 DEF PageNamed, NoBytes
<1>7. OnTheBus' /\ InStep'
  BY <1>1, <1>2, <1>4 DEF I2cInv, OnTheBus, InStep, Reading
<1>8. AskedIsStored' /\ OnlyNamed
  BY <1>1 DEF I2cInv, AskedIsStored, OnlyNamed
<1>. QED
  BY <1>2, <1>6, <1>7, <1>8 DEF I2cInv, AtBuild

\* The page of the byte for addr is open, at a chip that takes it or does not listen.
PageOnBus(c, s) ==
  /\ c.mem = chip.mem /\ (open \/ c.phase # "send")
  /\ \/ Hears(c, "data") /\ c.latch = pend /\ c.ptr = addr
     \/ Deaf(c) /\ c.scl = FALSE /\ ~s

LEMMA I2cPageBegun ==
  ASSUME I2cInv, stage = "write", TwoByteAddress
  PROVE  LET c == IF pageOpen THEN chip ELSE extmem_write_start(chip, addr)
             s == IF pageOpen THEN sound ELSE Listening
         IN  PageOnBus(c, s)
<1>1. /\ Ready(chip) /\ (open \/ chip.phase # "send") /\ ~AtBuild
      /\ addr \in Addr
  BY I2cSizes DEF I2cInv, OnTheBus, Reading, HandlersType
<1>2. CASE pageOpen
  BY <1>1, <1>2 DEF I2cInv, OnTheBus, PageOnBus, Ready, Deaf, Hears
<1>3. CASE ~pageOpen
  <2> DEFINE c == I2c!Select(chip, addr)
  <2>1. Opened(chip, c, addr)
    BY <1>1, SelectOpens DEF TwoByteAddress
  <2>2. extmem_write_start(chip, addr) = c
    BY <1>1, I2cDriver
  <2>3. pend = NoBytes
    BY <1>3 DEF I2cInv, PageNamed
  <2>. HIDE DEF c
  <2>4. PageOnBus(c, Listening)
    BY <1>1, <2>1, <2>3 DEF Opened, PageOnBus, Listening, Hears
  <2>. QED
    BY <1>3, <2>2, <2>4
<1>. QED
  BY <1>2, <1>3

\* The byte for addr is taken, or lost.
ByteOnBus(d, p, s) ==
  /\ d.mem = chip.mem /\ (open \/ d.phase # "send")
  /\ \/ /\ Hears(d, "data") /\ d.latch = p
        /\ (addr + 1) % PageSize # 0 => d.ptr = addr + 1
     \/ Deaf(d) /\ d.scl = FALSE /\ ~s

LEMMA I2cByteTaken ==
  ASSUME NEW b \in Byte, NEW c, NEW s, PageOnBus(c, s), addr \in Addr
  PROVE  ByteOnBus(I2c!i2c_send_byte(c, b), [pend EXCEPT ![addr] = b], s)
<1> DEFINE d == I2c!i2c_send_byte(c, b)
<1>1. CASE Hears(c, "data") /\ c.latch = pend /\ c.ptr = addr
  <2>1. /\ Hears(d, "data") /\ d.ptr = I2c!NextInPage(c.ptr)
        /\ d.latch = [c.latch EXCEPT ![c.ptr] = b]
        /\ d.mem = c.mem /\ d.busy = c.busy
    BY <1>1, DataByte
  <2>2. (addr + 1) % PageSize # 0 => d.ptr = addr + 1
    BY <1>1, <2>1 DEF I2c!NextInPage
  <2>. HIDE DEF d
  <2>. QED
    BY <1>1, <2>1, <2>2 DEF PageOnBus, ByteOnBus, Hears, d
<1>2. CASE Deaf(c) /\ c.scl = FALSE /\ ~s
  <2>1. DeafTo(c, d) /\ d.scl = FALSE
    BY <1>2, DeafByte
  <2>. HIDE DEF d
  <2>. QED
    BY <1>2, <2>1 DEF PageOnBus, ByteOnBus, DeafTo, Deaf, d
<1>. QED
  BY <1>1, <1>2 DEF PageOnBus

\* The page is stored, or nothing is.
LEMMA I2cPageStored ==
  ASSUME I2cInv, NEW d, NEW p, NEW s, ByteOnBus(d, p, s), p # NoBytes,
         \A a \in Addr : p[a] # NoByte => a \in named
  PROVE  LET e == I2c!i2c_stop(d)
             m == Stored(p, s)
         IN  /\ Ready(e) /\ (open \/ e.phase # "send")
             /\ \A a \in Addr : m[a] # Any => e.mem[a] = m[a]
             /\ \A a \in Addr : e.mem[a] # chip.mem[a] => a \in named
<1> DEFINE e == I2c!i2c_stop(d)
           m == Stored(p, s)
<1>1. m = [a \in Addr |-> IF p[a] = NoByte THEN want[a] ELSE IF s THEN p[a] ELSE Any]
  <2> DEFINE bytes == {a \in Addr : p[a] # NoByte}
  <2>1. ~AtBuild /\ Touched(bytes) = bytes
    BY I2cDriver DEF I2cInv
  <2>2. m = [a \in Addr |-> IF a \notin bytes THEN want[a]
                             ELSE IF s /\ a \in bytes THEN p[a] ELSE Any]
    BY <2>1 DEF Stored
  <2>. QED
    BY <2>2
<1>. HIDE DEF m
<1>2. CASE Hears(d, "data") /\ d.latch = p
  <2>1. /\ Deaf(e) /\ e.phase = "idle" /\ e.scl = TRUE /\ e.sda = TRUE /\ e.ptr = d.ptr
        /\ e.mem = StopStores(d)
    BY <1>2, StopTaking DEF Taking
  <2>. HIDE DEF e
  <2>2. \A a \in Addr : e.mem[a] = IF p[a] = NoByte THEN chip.mem[a] ELSE p[a]
    BY <1>2, <2>1 DEF StopStores, ByteOnBus
  <2>3. \A a \in Addr : m[a] # Any => e.mem[a] = m[a]
    BY <1>1, <2>2 DEF I2cInv, AskedIsStored
  <2>. QED
    BY <2>1, <2>2, <2>3 DEF Ready, e, m
<1>3. CASE Deaf(d) /\ d.scl = FALSE /\ ~s
  <2>1. DeafTo(d, e) /\ e.scl = TRUE /\ e.sda = TRUE
    BY <1>3, StopDeaf
  <2>. HIDE DEF e
  <2>2. e.mem = chip.mem /\ (open \/ e.phase # "send") /\ Ready(e)
    BY <1>3, <2>1 DEF ByteOnBus, DeafTo, Ready, Deaf
  <2>3. \A a \in Addr : m[a] # Any => e.mem[a] = m[a]
    BY <1>1, <1>3, <2>2 DEF I2cInv, AskedIsStored
  <2>. QED
    BY <2>2, <2>3 DEF e, m
<1>. QED
  BY <1>2, <1>3 DEF ByteOnBus

LEMMA I2cWriteFlashByte ==
  ASSUME I2cInv, WriteFlashByte, HandlersType', TwoByteAddress
  PROVE  I2cInv' /\ OnlyNamed
<1> DEFINE c0 == IF pageOpen THEN chip ELSE extmem_write_start(chip, addr)
           s == IF pageOpen THEN sound ELSE Listening
           atEnd == (addr + 1) % PageSize = 0 \/ addr + 1 = end
<1>1. stage = "write" /\ addr' = addr + 1 /\ UNCHANGED <<build, end, honest, named>>
  BY DEF WriteFlashByte
<1>2. PageOnBus(c0, s)
  BY <1>1, I2cPageBegun
<1>3. PICK b \in Data \cup {Erased} :
        \E c \in {extmem_write_byte(c0, b)} :
          IF atEnd
          THEN /\ chip' = extmem_write_stop(c) /\ want' = Stored([pend EXCEPT ![addr] = b], s)
               /\ pageOpen' = FALSE /\ pend' = NoBytes /\ sound' = TRUE
               /\ open' = (open /\ ~AtBuild) /\ stage' = "writePoll"
          ELSE /\ chip' = c /\ pageOpen' = TRUE /\ pend' = [pend EXCEPT ![addr] = b] /\ sound' = s
               /\ UNCHANGED <<want, open, stage>>
  BY DEF WriteFlashByte
<1>4. ~AtBuild /\ addr \in Addr /\ addr \in Nat /\ end \in Nat /\ addr < end /\ honest
  BY <1>1, I2cSizes DEF I2cInv, HandlersType, InStep, Reading
<1> DEFINE d == I2c!i2c_send_byte(c0, b)
           p == [pend EXCEPT ![addr] = b]
<1>5. /\ atEnd => /\ chip' = I2c!i2c_stop(d) /\ want' = Stored(p, s)
                 /\ pageOpen' = FALSE /\ pend' = NoBytes /\ sound' = TRUE
                 /\ open' = (open /\ ~AtBuild) /\ stage' = "writePoll"
      /\ ~atEnd => /\ chip' = d /\ pageOpen' = TRUE /\ pend' = p /\ sound' = s
                  /\ UNCHANGED <<want, open, stage>>
  BY <1>3, <1>4, I2cDriver
<1>. HIDE DEF c0, s
<1>6. b \in Byte /\ b # NoByte
  <2>1. b \in Data \cup {Erased}
    BY <1>3
  <2>. QED
    BY <2>1, DriverBytes
<1>7. ByteOnBus(d, p, s)
  BY <1>2, <1>4, <1>6, I2cByteTaken
<1>8. /\ p # NoBytes /\ \A a \in Addr : p[a] # NoByte => a \in named
  <2>1. addr \in named /\ \A a \in Addr : pend[a] # NoByte => a \in named
    <3>1. addr <= addr
      BY <1>4
    <3>. QED
      BY <1>1, <1>4, <3>1 DEF I2cInv, PageNamed
  <2>2. pend \in [Addr -> Int]
    BY DEF I2cInv, HandlersType
  <2>3. p[addr] # NoByte
    BY <1>4, <1>6, <2>2
  <2>. QED
    BY <1>4, <2>1, <2>2, <2>3 DEF NoBytes
<1>. HIDE DEF d, p
<1>9. CASE atEnd
  <2>1. /\ chip' = I2c!i2c_stop(d) /\ want' = Stored(p, s)
        /\ pageOpen' = FALSE /\ pend' = NoBytes /\ sound' = TRUE
        /\ (open' <=> open) /\ stage' = "writePoll"
    BY <1>4, <1>5, <1>9
  <2> DEFINE e == I2c!i2c_stop(d)
             m == Stored(p, s)
  <2>2. /\ Ready(e) /\ (open \/ e.phase # "send")
        /\ \A a \in Addr : m[a] # Any => e.mem[a] = m[a]
        /\ \A a \in Addr : e.mem[a] # chip.mem[a] => a \in named
    BY <1>7, <1>8, I2cPageStored
  <2>3. chip' = e /\ want' = m
    BY <2>1
  <2>. HIDE DEF e, m
  <2>4. OnTheBus' /\ InStep'
    BY <1>1, <1>4, <2>1, <2>2, <2>3 DEF OnTheBus, InStep, Reading
  <2>5. PageNamed'
    <3>1. \A a \in Addr : addr' <= a /\ a < end' => a \in named'
      BY <1>1, <1>4, I2cSizes DEF I2cInv, PageNamed
    <3>. QED
      BY <2>1, <3>1 DEF PageNamed, NoBytes
  <2>6. AskedIsStored' /\ OnlyNamed
    BY <2>2, <2>3 DEF AskedIsStored, OnlyNamed
  <2>. QED
    BY <1>1, <1>4, <2>4, <2>5, <2>6 DEF I2cInv, AtBuild
<1>10. CASE ~atEnd
  <2>1. /\ chip' = d /\ pageOpen' = TRUE /\ pend' = p /\ sound' = s
        /\ UNCHANGED <<want, open, stage>>
    BY <1>5, <1>10
  <2>2. (addr + 1) % PageSize # 0 /\ addr + 1 < end
    BY <1>4, <1>10
  <2>3. OnTheBus'
    BY <1>1, <1>7, <2>1, <2>2 DEF ByteOnBus, OnTheBus, Ready, Reading, Hears, Deaf
  <2>4. PageNamed'
    <3>1. \A a \in Addr : addr' <= a /\ a < end' => a \in named'
      BY <1>1, <1>4, I2cSizes DEF I2cInv, PageNamed
    <3>. QED
      BY <1>1, <1>8, <2>1, <3>1 DEF PageNamed
  <2>5. InStep' /\ AskedIsStored' /\ OnlyNamed
    BY <1>1, <1>4, <1>7, <2>1 DEF InStep, Reading, AskedIsStored, OnlyNamed, ByteOnBus,
       I2cInv
  <2>. QED
    BY <1>1, <1>4, <2>3, <2>4, <2>5 DEF I2cInv, AtBuild
<1>. QED
  BY <1>9, <1>10

LEMMA I2cPolled ==
  ASSUME I2cInv, NEW from \in {"writePoll", "erasing", "erasePoll"}, NEW y, Poll(from, y)
  PROVE  /\ stage = from /\ UNCHANGED <<want, open>> /\ Ready(chip')
         /\ (open \/ chip'.phase # "send") /\ chip'.mem = chip.mem /\ ~pageOpen
<1> DEFINE d == I2c!Polled(chip)
<1>1. /\ Ready(chip) /\ (open \/ chip.phase # "send") /\ ~AtBuild /\ stage = from /\ ~pageOpen
      /\ UNCHANGED <<want, open>>
  BY DEF Poll, I2cInv, OnTheBus, Reading, HandlersType
<1>2. chip' = d
  BY <1>1, I2cDriver DEF Poll
<1>3. AtRest(chip, d)
  BY <1>1, PollRests
<1>. HIDE DEF d
<1>. QED
  BY <1>1, <1>2, <1>3, RestReady

LEMMA I2cWaits ==
  ASSUME I2cInv, HandlersType', Ready(chip'), open \/ chip'.phase # "send",
         chip'.mem = chip.mem,
         stage \in {"writePoll", "erasing", "erasePoll"},
         IF stage = "writePoll" THEN stage' \in {"write", "writePoll"}
         ELSE stage' \in {"erasing", "erasePoll"},
         ~pageOpen,
         UNCHANGED <<build, addr, end, pageOpen, want, pend, sound, open, honest, named>>
  PROVE  I2cInv' /\ OnlyNamed
<1>1. OnTheBus' /\ InStep'
  BY DEF I2cInv, OnTheBus, InStep, Reading
<1>2. PageNamed'
  BY DEF I2cInv, PageNamed
<1>3. AskedIsStored' /\ OnlyNamed
  BY DEF I2cInv, AskedIsStored, OnlyNamed
<1>. QED
  BY <1>1, <1>2, <1>3 DEF I2cInv, AtBuild

LEMMA I2cPolls ==
  ASSUME I2cInv, HandlersType',
         \/ PollAgain \/ WriteFlashPolled \/ WriteFlashPollAbort
         \/ EraseWaited \/ EraseFlashPolled \/ EraseFlashAbort
  PROVE  I2cInv' /\ OnlyNamed
<1>1. PICK f \in {"writePoll", "erasing", "erasePoll"}, y \in BOOLEAN : Poll(f, y)
  BY DEF PollAgain, WriteFlashPolled, WriteFlashPollAbort, EraseWaited,
     EraseFlashPolled, EraseFlashAbort
<1>2. /\ stage = f /\ UNCHANGED <<want, open>> /\ Ready(chip')
      /\ (open \/ chip'.phase # "send") /\ chip'.mem = chip.mem /\ ~pageOpen
  BY <1>1, I2cPolled
<1>3. CASE Return
  BY <1>2, <1>3, I2cReturn
<1>4. CASE ~Return
  <2>1. PollAgain \/ WriteFlashPolled \/ EraseWaited
    BY <1>4 DEF WriteFlashPollAbort, EraseFlashPolled, EraseFlashAbort
  <2>2. CASE PollAgain
    BY <1>2, <2>2, I2cWaits DEF PollAgain
  <2>3. CASE WriteFlashPolled
    <3>1. /\ stage = "writePoll" /\ stage' = "write"
          /\ UNCHANGED <<build, addr, end, pageOpen, pend, sound, honest, named, cmds>>
      BY <1>4, <2>3 DEF WriteFlashPolled, Poll
    <3>. QED
      BY <1>2, <3>1, I2cWaits
  <2>4. CASE EraseWaited
    <3>1. /\ stage = "erasing" /\ stage' = "erasePoll"
          /\ UNCHANGED <<build, addr, end, pageOpen, pend, sound, honest, named, cmds>>
      BY <2>4 DEF EraseWaited, Poll
    <3>. QED
      BY <1>2, <3>1, I2cWaits
  <2>. QED
    BY <2>1, <2>2, <2>3, <2>4
<1>. QED
  BY <1>3, <1>4

LEMMA I2cWriteFlashAbort ==
  ASSUME I2cInv, HandlersType', WriteFlashAbort
  PROVE  I2cInv' /\ OnlyNamed
<1>1. /\ Return /\ UNCHANGED <<chip, want>> /\ stage = "write"
      /\ open' = (open \/ (AtBuild /\ pageOpen))
  BY DEF WriteFlashAbort
<1>2. Ready(chip') /\ (open' \/ chip'.phase # "send") /\ chip'.mem = chip.mem
  BY <1>1 DEF I2cInv, OnTheBus, Reading
<1>. QED
  BY <1>1, <1>2, I2cReturn

LEMMA I2cEraseFlash ==
  ASSUME I2cInv, HandlersType', EraseFlash, TwoByteAddress
  PROVE  I2cInv' /\ OnlyNamed
<1>1. PICK a \in Addr :
        /\ Command(IF AtBuild THEN "erasePoll" ELSE "erasing", <<a, 0>>)
        /\ chip' = extmem_erase(chip, a)
        /\ named' = IF AtBuild THEN SectorAt(a) ELSE {}
        /\ want' = [b \in Addr |-> IF b \notin named' THEN want[b]
                                   ELSE IF Listening THEN Erased ELSE Any]
        /\ open' = (open /\ ~AtBuild) /\ UNCHANGED <<sound, honest>>
  BY DEF EraseFlash
<1>2. stage = "prompt" /\ stage' \in {"erasing", "erasePoll"} /\ UNCHANGED <<build, pageOpen, pend>>
  BY <1>1 DEF Command
<1>3. /\ ~AtBuild /\ Ready(chip) /\ (open \/ chip.phase # "send") /\ ~pageOpen /\ pend = NoBytes
      /\ want \in [Addr -> Int]
  BY <1>2 DEF I2cInv, OnTheBus, HandlersType, PageNamed, Reading
<1> DEFINE d == I2c!extmem_erase(chip, a)
<1>4. AtRest(chip, d)
  BY <1>3, EraseRests DEF TwoByteAddress
<1>5. chip' = d
  BY <1>1, <1>3, I2cDriver
<1>. HIDE DEF d
<1>6. Ready(chip') /\ chip'.mem = chip.mem /\ (open' \/ chip'.phase # "send")
  BY <1>1, <1>3, <1>4, <1>5, RestReady
<1>7. named' = {} /\ want' = want
  BY <1>1, <1>3
<1>8. OnTheBus' /\ InStep'
  BY <1>1, <1>2, <1>3, <1>6 DEF I2cInv, OnTheBus, InStep, Reading
<1>9. PageNamed'
  BY <1>2, <1>3 DEF PageNamed, NoBytes
<1>10. AskedIsStored' /\ OnlyNamed
  BY <1>6, <1>7 DEF I2cInv, AskedIsStored, OnlyNamed
<1>. QED
  BY <1>2, <1>8, <1>9, <1>10 DEF I2cInv, AtBuild

LEMMA I2cStartReading ==
  ASSUME I2cInv, HandlersType', StartReading, TwoByteAddress
  PROVE  I2cInv' /\ OnlyNamed
<1>1. PICK kind \in Reading, b \in Blocks :
        /\ kind = "read" => b[2] > 0
        /\ Command(kind, b) /\ chip' = extmem_read_start(chip, b[1]) /\ sound' = Listening
        /\ UNCHANGED <<want, open, honest, named>>
  BY DEF StartReading, Reading
<1>2. /\ stage = "prompt" /\ stage' = kind /\ addr' = b[1] /\ end' = b[1] + b[2]
      /\ UNCHANGED <<build, pageOpen, pend>>
  BY <1>1 DEF Command
<1>3. /\ ~AtBuild /\ Ready(chip) /\ (open \/ chip.phase # "send") /\ ~pageOpen /\ pend = NoBytes
      /\ honest
  BY <1>2 DEF I2cInv, OnTheBus, HandlersType, PageNamed, InStep, Reading
<1>4. b[1] \in Addr /\ b[1] \in Nat /\ b[2] \in Nat /\ b[1] + b[2] <= Size
  BY BlockType
<1>5. PICK n \in Addr : n = b[1]
  BY <1>4
<1> DEFINE d == I2c!extmem_read_start(chip, n)
<1>6. chip' = d
  BY <1>1, <1>3, <1>5, I2cDriver
<1>. HIDE DEF d
<1>7. PICK t \in Nat : t = b[1] + b[2] /\ t <= Size /\ n <= t /\ (kind = "read" => n < t)
  BY <1>1, <1>4, <1>5
<1>8. addr' = n /\ end' = t
  BY <1>2, <1>5, <1>7
<1>9. SendsFrom(chip, d, n)
  BY <1>3, <1>5, ReadStarts DEF TwoByteAddress, d
<1>10. /\ Deaf(d) /\ d.scl = FALSE /\ d.mem = chip.mem
       /\ chip.phase # "send" => IF chip.busy THEN d.phase = "idle" ELSE Sends(d) /\ d.ptr = n
  BY <1>9 DEF SendsFrom
<1>11. OnTheBus'
  BY <1>2, <1>3, <1>6, <1>10 DEF OnTheBus
<1>12. sound' => ~open /\ Sends(d) /\ d.ptr = n
  BY <1>1, <1>3, <1>10 DEF Listening
<1>13. ~sound' => open \/ d.phase = "idle"
  BY <1>1, <1>3, <1>10 DEF Listening
<1>14. stage' = "read" => addr' # end'
  BY <1>2, <1>7, <1>8
<1>15. InStep'
  BY <1>1, <1>2, <1>3, <1>6, <1>8, <1>12, <1>13, <1>14 DEF InStep
<1>16. PageNamed'
  BY <1>2, <1>3 DEF PageNamed, Reading, NoBytes
<1>17. AskedIsStored' /\ OnlyNamed
  BY <1>1, <1>6, <1>10 DEF I2cInv, AskedIsStored, OnlyNamed
<1>. QED
  BY <1>2, <1>3, <1>11, <1>15, <1>16, <1>17 DEF I2cInv, AtBuild

LEMMA I2cReadByte ==
  ASSUME I2cInv, HandlersType', ReadByte
  PROVE  I2cInv' /\ OnlyNamed
<1>1. /\ stage \in Reading /\ addr # end /\ addr' = addr + 1
      /\ honest' = (honest /\ extmem_read_value(chip) = chip.mem[addr])
      /\ chip' = extmem_read_byte(chip, stage = "read" /\ addr + 1 = end)
      /\ UNCHANGED <<build, stage, end, pageOpen, want, pend, sound, open, named>>
  BY DEF ReadByte, Reading
<1>2. /\ ~AtBuild /\ Deaf(chip) /\ chip.scl = FALSE /\ ~pageOpen /\ pend = NoBytes
      /\ addr \in Nat /\ end \in Nat /\ addr < end /\ end <= Size
  BY <1>1 DEF I2cInv, OnTheBus, HandlersType, PageNamed, Reading
<1>3. PICK ack \in BOOLEAN : ack = ~(stage = "read" /\ addr + 1 = end)
  OBVIOUS
<1> DEFINE d == I2c!i2c_recv_byte(chip, ack)
<1>4. chip' = d /\ extmem_read_value(chip) = I2c!i2c_recv_value(chip)
  BY <1>1, <1>2, <1>3, I2cDriver
<1>5. DeafTo(chip, d) /\ d.scl = FALSE
  BY <1>2, DeafRecv
<1>6. sound => ~open /\ Sends(chip) /\ chip.ptr = addr /\ honest
  BY <1>1, <1>2 DEF I2cInv, InStep
<1>7. sound => /\ I2c!i2c_recv_value(chip) = chip.mem[addr]
               /\ ack => Sends(d) /\ d.ptr = (addr + 1) % Size
               /\ ~ack => d.phase = "idle"
  BY <1>6, NextSent
<1>. HIDE DEF d
<1>8. addr + 1 < end => (addr + 1) % Size = addr + 1 /\ ack
  <2>1. addr + 1 < end => (addr + 1) % Size = addr + 1
    BY <1>2, I2cSizes
  <2>2. addr + 1 < end => addr + 1 # end
    BY <1>2
  <2>. QED
    BY <1>3, <2>1, <2>2
<1>9. InStep'
  <2>1. ASSUME sound
        PROVE  /\ ~open /\ honest'
               /\ addr' < end' => Sends(chip') /\ chip'.ptr = addr'
               /\ stage' = "read" /\ addr' = end' => chip'.phase = "idle"
    BY <1>1, <1>2, <1>3, <1>4, <1>6, <1>7, <1>8, <2>1
  <2>2. ~sound => open' \/ chip'.phase = "idle"
    BY <1>1, <1>4, <1>5 DEF I2cInv, InStep, DeafTo
  <2>. QED
    BY <1>1, <2>1, <2>2 DEF InStep
<1>10. OnTheBus'
  BY <1>1, <1>2, <1>4, <1>5 DEF OnTheBus, DeafTo
<1>11. PageNamed'
  BY <1>1, <1>2 DEF PageNamed, Reading, NoBytes
<1>12. AskedIsStored' /\ OnlyNamed
  BY <1>1, <1>4, <1>5 DEF I2cInv, AskedIsStored, OnlyNamed, DeafTo
<1>. QED
  BY <1>1, <1>2, <1>9, <1>10, <1>11, <1>12 DEF I2cInv, AtBuild

LEMMA I2cReadStop ==
  ASSUME I2cInv, HandlersType', ReadStop
  PROVE  I2cInv' /\ OnlyNamed
<1>1. /\ stage \in Reading /\ chip' = extmem_read_stop(chip) /\ Return /\ UNCHANGED want
      /\ open' = (~AtBuild /\ (open \/ stage = "lookup" \/ addr # end))
  BY DEF ReadStop, Reading
<1>2. ~AtBuild /\ Deaf(chip) /\ chip.scl = FALSE
  BY <1>1 DEF I2cInv, OnTheBus
<1> DEFINE d == I2c!i2c_stop(chip)
<1>3. DeafTo(chip, d) /\ d.scl = TRUE /\ d.sda = TRUE
  BY <1>2, StopDeaf
<1>4. chip' = d
  BY <1>1, <1>2, I2cDriver
<1>. HIDE DEF d
<1>5. Ready(chip') /\ chip'.mem = chip.mem
  BY <1>3, <1>4 DEF Ready, DeafTo
<1>6. open' \/ chip'.phase # "send"
  <2>1. ASSUME ~open' PROVE chip.phase = "idle"
    <3>1. ~open /\ stage = "read" /\ addr = end
      BY <1>1, <1>2, <2>1 DEF Reading
    <3>. QED
      BY <1>1, <3>1 DEF I2cInv, InStep
  <2>. QED
    BY <1>3, <1>4, <2>1 DEF DeafTo
<1>. QED
  BY <1>1, <1>5, <1>6, I2cReturn

LEMMA I2cWatchdog ==
  ASSUME I2cInv, HandlersType', WatchdogReset
  PROVE  I2cInv' /\ OnlyNamed
<1>1. stage \in Reading /\ chip' = extmem_init(chip) /\ Return /\ UNCHANGED want
  BY DEF WatchdogReset, Reading
<1>2. ~AtBuild /\ Deaf(chip) /\ chip.scl = FALSE
  BY <1>1 DEF I2cInv, OnTheBus
<1> DEFINE d == I2c!i2c_init(chip)
<1>3. AtRest(chip, d) /\ d.phase = "idle"
  BY <1>2, InitRests
<1>4. chip' = d
  BY <1>1, <1>2, I2cDriver
<1>. HIDE DEF d
<1>5. Ready(chip') /\ chip'.mem = chip.mem /\ chip'.phase # "send"
  BY <1>3, <1>4, RestReady
<1>. QED
  BY <1>1, <1>5, I2cReturn

LEMMA I2cCycleDone ==
  ASSUME I2cInv, HandlersType', CycleDone
  PROVE  I2cInv' /\ OnlyNamed
<1>1. /\ chip' = [chip EXCEPT !.busy = FALSE]
      /\ UNCHANGED <<build, stage, addr, end, pageOpen, want, pend, sound, open, honest, named>>
  BY DEF CycleDone
<1>2. chip \in I2cChip
  BY DEF I2cInv, OnTheBus, Ready, Deaf, Hears
<1>3. /\ chip' \in I2cChip /\ chip'.mem = chip.mem /\ chip'.latch = chip.latch
      /\ chip'.phase = chip.phase /\ chip'.bit = chip.bit /\ chip'.reg = chip.reg
      /\ chip'.ptr = chip.ptr /\ chip'.pull = chip.pull /\ chip'.scl = chip.scl
      /\ chip'.sda = chip.sda
  BY <1>1, <1>2 DEF I2cChip
<1>4. (Deaf(chip) => Deaf(chip')) /\ (Hears(chip, "data") => Hears(chip', "data"))
  BY <1>3 DEF Deaf, Hears
<1>5. Sends(chip) => Sends(chip')
  BY <1>3 DEF Sends
<1>6. Ready(chip) => Ready(chip')
  BY <1>3, <1>4 DEF Ready
<1>7. OnTheBus'
  BY <1>1, <1>3, <1>4, <1>6 DEF I2cInv, OnTheBus
<1>8. InStep'
  BY <1>1, <1>3, <1>5 DEF I2cInv, InStep
<1>9. PageNamed' /\ AskedIsStored' /\ OnlyNamed
  BY <1>1, <1>3 DEF I2cInv, PageNamed, AskedIsStored, OnlyNamed
<1>. QED
  BY <1>1, <1>7, <1>8, <1>9 DEF I2cInv, AtBuild

LEMMA I2cStep ==
  ASSUME I2cInv, [DriversNext]_driverVars, TwoByteAddress
  PROVE  I2cInv' /\ OnlyNamed
<1>1. CASE DriversNext
  <2>0. HandlersType'
    BY <1>1, HandlersStep DEF I2cInv
  <2>1. CASE WriteFlash
    BY <2>0, <2>1, I2cWriteFlash
  <2>2. CASE WriteFlashByte
    BY <2>0, <2>2, I2cWriteFlashByte
  <2>3. CASE \/ PollAgain \/ WriteFlashPolled \/ WriteFlashPollAbort
             \/ EraseWaited \/ EraseFlashPolled \/ EraseFlashAbort
    BY <2>0, <2>3, I2cPolls
  <2>4. CASE WriteFlashAbort
    BY <2>0, <2>4, I2cWriteFlashAbort
  <2>5. CASE EraseFlash
    BY <2>0, <2>5, I2cEraseFlash
  <2>6. CASE StartReading
    BY <2>0, <2>6, I2cStartReading
  <2>7. CASE ReadByte
    BY <2>0, <2>7, I2cReadByte
  <2>8. CASE ReadStop
    BY <2>0, <2>8, I2cReadStop
  <2>9. CASE WatchdogReset
    BY <2>0, <2>9, I2cWatchdog
  <2>10. CASE CycleDone
    BY <2>0, <2>10, I2cCycleDone
  <2>. QED
    BY <1>1, <2>1, <2>2, <2>3, <2>4, <2>5, <2>6, <2>7, <2>8, <2>9, <2>10 DEF DriversNext
<1>2. CASE UNCHANGED driverVars
  <2>1. UNCHANGED <<build, chip, stage, addr, end, pageOpen, want, pend, sound, open, honest,
                    named>>
    BY <1>2 DEF driverVars
  <2>2. HandlersType' /\ OnTheBus' /\ InStep' /\ PageNamed' /\ AskedIsStored' /\ OnlyNamed
    BY <2>1 DEF I2cInv, HandlersType, OnTheBus, InStep, PageNamed, AskedIsStored,
       OnlyNamed
  <2>. QED
    BY <2>1, <2>2 DEF I2cInv, AtBuild
<1>. QED
  BY <1>1, <1>2

-----------------------------------------------------------------------------
\* The AT45 and its driver.

AtChip ==
  [mem : [Addr -> Int], buf : [0 .. PageSize - 1 -> Int], sel : BOOLEAN,
   op : {"none", "buffer", "read", "ignored"}, ptr : Nat, busy : BOOLEAN,
   current_write_addr : Nat]

AtOK(c) == c \in AtChip /\ (c.op = "buffer" => c.ptr < PageSize)

\* All but the buffer and the pointer into it.
AtSame(c, d) ==
  /\ d.mem = c.mem /\ d.sel = c.sel /\ d.op = c.op /\ d.busy = c.busy
  /\ d.current_write_addr = c.current_write_addr

LEMMA DriverSizes ==
  /\ Size \in Nat \ {0} /\ PageSize \in Nat \ {0} /\ SectorSize \in Nat \ {0}
  /\ Size % PageSize = 0 /\ Size % SectorSize = 0 /\ SectorSize % PageSize = 0
  /\ Erased \in Nat /\ Data \subseteq 0 .. Erased
  /\ Addr = 0 .. Size - 1 /\ At!Addr = Addr
BY DriversAssumption, BitEnds DEF Addr, At!Addr

LEMMA AtLatch ==
  ASSUME NEW c, AtOK(c), c.op = "buffer", NEW b \in Int
  PROVE  LET d == At!Latch(c, b)
         IN  /\ AtOK(d) /\ AtSame(c, d)
             /\ d.ptr = (c.ptr + 1) % PageSize /\ d.buf = [c.buf EXCEPT ![c.ptr] = b]
<1> DEFINE n == (c.ptr + 1) % PageSize
           f == [c.buf EXCEPT ![c.ptr] = b]
<1>1. c \in AtChip /\ c.ptr \in Nat /\ c.ptr < PageSize /\ PageSize \in Nat \ {0}
  <2>1. c \in AtChip /\ c.ptr < PageSize
    BY DEF AtOK
  <2>. QED
    BY <2>1, DriverSizes DEF AtChip
<1>2. n \in 0 .. PageSize - 1
  <2>1. c.ptr + 1 \in Nat
    BY <1>1
  <2>. QED
    BY <1>1, <2>1, DivMod
<1>3. f \in [0 .. PageSize - 1 -> Int]
  BY <1>1 DEF AtChip
<1>4. At!Latch(c, b) = [c EXCEPT !.buf = f, !.ptr = n]
  BY DEF At!Latch
<1>. HIDE DEF n, f
<1>5. n \in Nat /\ n < PageSize
  BY <1>1, <1>2
<1>6. LET d == [c EXCEPT !.buf = f, !.ptr = n]
      IN  d \in AtChip /\ AtSame(c, d) /\ d.buf = f /\ d.ptr = n
  BY <1>1, <1>3, <1>5 DEF AtChip, AtSame
<1>. QED
  BY <1>4, <1>5, <1>6 DEF AtOK, n, f

LEMMA SwallowSame ==
  ASSUME NEW c, AtOK(c)
  PROVE  AtOK(At!Swallow4(c)) /\ AtSame(c, At!Swallow4(c))
<1>1. ASSUME NEW d, AtOK(d)
      PROVE  AtOK(At!Swallow1(d)) /\ AtSame(d, At!Swallow1(d))
  <2>1. CASE d.op = "buffer"
    <3>1. NoByte \in Int
      BY DEF NoByte
    <3>. QED
      BY <1>1, <2>1, <3>1, AtLatch DEF At!Swallow1
  <2>2. CASE d.op # "buffer"
    BY <1>1, <2>2 DEF At!Swallow1, AtSame
  <2>. QED
    BY <2>1, <2>2
<1> DEFINE d1 == At!Swallow1(c)
           d2 == At!Swallow1(d1)
           d3 == At!Swallow1(d2)
           d4 == At!Swallow1(d3)
<1>2. At!Swallow4(c) = d4
  BY DEF At!Swallow4
<1>3. AtOK(d1) /\ AtSame(c, d1)
  BY <1>1
<1>. HIDE DEF d1
<1>4. AtOK(d2) /\ AtSame(d1, d2)
  BY <1>1, <1>3
<1>. HIDE DEF d2
<1>5. AtOK(d3) /\ AtSame(d2, d3)
  BY <1>1, <1>4
<1>. HIDE DEF d3
<1>6. AtOK(d4) /\ AtSame(d3, d4)
  BY <1>1, <1>5
<1>. HIDE DEF d4
<1>. QED
  BY <1>2, <1>3, <1>4, <1>5, <1>6 DEF AtSame

LEMMA AtOpen ==
  ASSUME NEW c, AtOK(c), NEW op \in {"read", "buffer"}, NEW a \in Nat,
         op = "buffer" => a < PageSize
  PROVE  LET d == At!Open(c, op, a)
         IN  AtOK(d) /\ d.mem = c.mem /\ d.busy = c.busy /\ d.sel = TRUE
<1>1. CASE c.sel
  <2>1. At!Open(c, op, a) = At!Swallow4(c) /\ c.sel = TRUE
    BY <1>1 DEF At!Open, AtOK, AtChip
  <2>. QED
    BY <1>1, <2>1, SwallowSame DEF AtSame
<1>2. CASE ~c.sel
  <2> DEFINE o == IF c.busy THEN "ignored" ELSE op
  <2>1. At!Open(c, op, a) = [c EXCEPT !.sel = TRUE, !.ptr = a, !.op = o]
    BY <1>2 DEF At!Open
  <2>2. o \in {"read", "buffer", "ignored"} /\ (o = "buffer" => a < PageSize) /\ (~c.busy => o = op)
    OBVIOUS
  <2>. HIDE DEF o
  <2>. QED
    BY <2>1, <2>2 DEF AtOK, AtChip
<1>. QED
  BY <1>1, <1>2

LEMMA AtOpened ==
  ASSUME NEW c, AtOK(c), NEW op \in {"read", "buffer"}, NEW a \in Nat, ~c.sel, ~c.busy
  PROVE  At!Open(c, op, a).op = op /\ At!Open(c, op, a).ptr = a
BY DEF AtOK, AtChip, At!Open

LEMMA AtDeselect ==
  ASSUME NEW c, AtOK(c)
  PROVE  LET d == At!Deselect(c)
         IN  /\ AtOK(d) /\ d.mem = c.mem /\ d.buf = c.buf /\ d.busy = c.busy /\ d.sel = FALSE
             /\ d.current_write_addr = c.current_write_addr
BY DEF AtOK, AtChip, At!Deselect

LEMMA AtCycle ==
  ASSUME NEW c, AtOK(c)
  PROVE  LET d == [c EXCEPT !.busy = FALSE]
         IN  /\ AtOK(d) /\ d.mem = c.mem /\ d.buf = c.buf /\ d.sel = c.sel /\ d.op = c.op
             /\ d.ptr = c.ptr /\ d.busy = FALSE /\ d.current_write_addr = c.current_write_addr
BY DEF AtOK, AtChip

\* A new array.
LEMMA AtArray ==
  ASSUME NEW c, AtOK(c), NEW m \in [Addr -> Int], NEW y \in BOOLEAN
  PROVE  LET d == [c EXCEPT !.busy = y, !.mem = m]
         IN  AtOK(d) /\ d.mem = m /\ d.sel = c.sel /\ d.busy = y
BY DEF AtOK, AtChip

LEMMA AtWriteStop ==
  ASSUME NEW c, AtOK(c)
  PROVE  LET d == At!extmem_write_stop(c)
             held == At!PageOf(c.current_write_addr)
         IN  /\ AtOK(d) /\ d.sel = FALSE
             /\ \A b \in Addr : b \notin held => d.mem[b] = c.mem[b]
             /\ ~c.busy => \A b \in held : d.mem[b] = c.buf[b % PageSize]
<1> DEFINE e == At!Deselect(c)
           held == At!PageOf(c.current_write_addr)
           m == [b \in Addr |-> IF b \in held THEN e.buf[b % PageSize] ELSE e.mem[b]]
<1>1. /\ AtOK(e) /\ e.mem = c.mem /\ e.buf = c.buf /\ e.busy = c.busy /\ e.sel = FALSE
      /\ e.current_write_addr = c.current_write_addr
  BY AtDeselect
<1>. HIDE DEF e
<1>2. CASE c.busy
  BY <1>1, <1>2 DEF At!extmem_write_stop, e
<1>3. CASE ~c.busy
  <2>1. At!extmem_write_stop(c) = [e EXCEPT !.busy = TRUE, !.mem = m]
    BY <1>1, <1>3, DriverSizes DEF At!extmem_write_stop, At!ProgramPage, e
  <2>2. m \in [Addr -> Int]
    <3>1. \A b \in Addr : b % PageSize \in 0 .. PageSize - 1
      BY DriverSizes, DivMod
    <3>2. e.buf \in [0 .. PageSize - 1 -> Int] /\ e.mem \in [Addr -> Int]
      BY <1>1 DEF AtOK, AtChip
    <3>. QED
      BY <3>1, <3>2
  <2>3. held \subseteq Addr
    BY DriverSizes DEF At!PageOf
  <2>4. /\ \A b \in Addr : b \notin held => m[b] = c.mem[b]
        /\ \A b \in held : m[b] = c.buf[b % PageSize]
    BY <1>1, <2>3
  <2>. HIDE DEF m, held
  <2>5. /\ AtOK([e EXCEPT !.busy = TRUE, !.mem = m])
        /\ [e EXCEPT !.busy = TRUE, !.mem = m].mem = m
        /\ [e EXCEPT !.busy = TRUE, !.mem = m].sel = FALSE
    BY <1>1, <2>2, AtArray
  <2>. QED
    BY <2>1, <2>4, <2>5 DEF held
<1>. QED
  BY <1>2, <1>3

LEMMA AtEraseSector ==
  ASSUME NEW c, AtOK(c), NEW a \in Addr
  PROVE  LET d == At!EraseSector(c, a)
         IN  /\ AtOK(d) /\ d.sel = FALSE /\ d.busy = FALSE
             /\ \A b \in Addr : b \notin At!SectorOf(a) => d.mem[b] = c.mem[b]
             /\ \A b \in Addr : d.mem[b] \in {c.mem[b], Erased}
             /\ ~c.sel /\ ~c.busy => \A b \in At!SectorOf(a) : d.mem[b] = Erased
<1> DEFINE m == [b \in Addr |-> IF b \in At!SectorOf(a) THEN Erased ELSE c.mem[b]]
           e == IF c.sel \/ c.busy THEN At!Swallow4(c) ELSE [c EXCEPT !.mem = m]
<1>1. At!EraseSector(c, a) = [At!Deselect(e) EXCEPT !.busy = FALSE]
  BY DriverSizes DEF At!EraseSector, At!CycleDone
<1>2. m \in [Addr -> Int] /\ c.mem \in [Addr -> Int]
  BY DriverSizes DEF AtOK, AtChip
<1>3. At!SectorOf(a) \subseteq Addr
  BY DriverSizes DEF At!SectorOf
<1>4. AtOK(e) /\ e.mem = IF c.sel \/ c.busy THEN c.mem ELSE m
  <2>1. CASE c.sel \/ c.busy
    BY <2>1, SwallowSame DEF AtSame
  <2>2. CASE ~(c.sel \/ c.busy)
    <3>1. e = [c EXCEPT !.mem = m]
      BY <2>2
    <3>. HIDE DEF m, e
    <3>. QED
      BY <1>2, <2>2, <3>1 DEF AtOK, AtChip
  <2>. QED
    BY <2>1, <2>2
<1>. HIDE DEF e
<1>5. AtOK(At!Deselect(e)) /\ At!Deselect(e).mem = e.mem /\ At!Deselect(e).sel = FALSE
  BY <1>4, AtDeselect
<1>6. LET d == [At!Deselect(e) EXCEPT !.busy = FALSE]
      IN  AtOK(d) /\ d.mem = e.mem /\ d.sel = FALSE /\ d.busy = FALSE
  BY <1>5, AtCycle
<1>. QED
  BY <1>1, <1>2, <1>3, <1>4, <1>6

\* A whole sector is erased, sector 0 in two parts.
LEMMA AtErase ==
  ASSUME NEW c, AtOK(c), NEW a \in Addr, a % SectorSize = 0
  PROVE  LET d == At!extmem_erase(c, a)
         IN  /\ AtOK(d) /\ d.sel = FALSE /\ d.busy = FALSE
             /\ \A b \in Addr : b \notin SectorAt(a) => d.mem[b] = c.mem[b]
             /\ ~c.sel /\ ~c.busy => \A b \in SectorAt(a) : d.mem[b] = Erased
<1>1. a \in Nat /\ a % PageSize = 0 /\ a - 0 = a
  <2>1. a \in Nat /\ a - 0 = a
    BY DriverSizes
  <2>2. a % PageSize = 0
    BY <2>1, DriverSizes, Divides
  <2>. QED
    BY <2>1, <2>2
<1>2. CASE a # 0
  <2>1. At!extmem_erase(c, a) = At!EraseSector(c, a)
    BY <1>1, <1>2 DEF At!extmem_erase
  <2>2. ~(a < SectorSize)
    <3>1. PICK q \in Nat : a = SectorSize * q
      BY <1>1, DriverSizes, Multiple
    <3>. QED
      BY <1>2, <3>1, DriverSizes
  <2>3. At!SectorOf(a) = SectorAt(a)
    BY <2>2, DriverSizes DEF At!SectorOf, SectorAt
  <2> DEFINE d == At!EraseSector(c, a)
  <2>4. /\ AtOK(d) /\ d.sel = FALSE /\ d.busy = FALSE
        /\ \A b \in Addr : b \notin At!SectorOf(a) => d.mem[b] = c.mem[b]
        /\ ~c.sel /\ ~c.busy => \A b \in At!SectorOf(a) : d.mem[b] = Erased
    BY AtEraseSector
  <2>. HIDE DEF d
  <2>. QED
    BY <2>1, <2>3, <2>4 DEF d
<1>3. CASE a = 0
  <2> DEFINE h == SectorSize \div 2
             e == At!EraseSector(c, 0)
             d == At!EraseSector(e, h)
  <2>1. At!extmem_erase(c, a) = d
    BY <1>1, <1>3 DEF At!extmem_erase
  <2>2. h \in Nat /\ h < SectorSize /\ SectorSize <= Size /\ (h < PageSize => SectorSize = PageSize)
    <3>1. PICK q \in Nat : SectorSize = PageSize * q
      BY DriverSizes, Multiple
    <3>2. PICK k \in Nat : Size = SectorSize * k
      BY DriverSizes, Multiple
    <3>3. h \in Nat /\ h < SectorSize /\ SectorSize <= 2 * h + 1
      BY DriverSizes
    <3>4. SectorSize <= Size
      <4>1. k # 0
        BY <3>2, DriverSizes
      <4>. QED
        BY <3>2, <4>1, DriverSizes
    <3>5. h < PageSize => q = 1
      <4>1. q # 0
        BY <3>1, DriverSizes
      <4>2. q >= 2 => PageSize * q >= 2 * PageSize
        BY DriverSizes
      <4>. QED
        BY <3>1, <3>3, <4>1, <4>2, DriverSizes
    <3>. QED
      BY <3>1, <3>3, <3>4, <3>5, DriverSizes
  <2>3. h \in Addr /\ 0 \in Addr /\ 0 \div SectorSize = 0 /\ h \div SectorSize = 0
    BY <2>2, DriverSizes
  <2>. HIDE DEF h
  <2>4. /\ AtOK(e) /\ e.sel = FALSE /\ e.busy = FALSE
        /\ \A b \in Addr : b \notin At!SectorOf(0) => e.mem[b] = c.mem[b]
        /\ ~c.sel /\ ~c.busy => \A b \in At!SectorOf(0) : e.mem[b] = Erased
    BY <2>3, AtEraseSector
  <2>. HIDE DEF e
  <2>5. /\ AtOK(d) /\ d.sel = FALSE /\ d.busy = FALSE
        /\ \A b \in Addr : b \notin At!SectorOf(h) => d.mem[b] = e.mem[b]
        /\ \A b \in Addr : d.mem[b] \in {e.mem[b], Erased}
        /\ \A b \in At!SectorOf(h) : d.mem[b] = Erased
    BY <2>3, <2>4, AtEraseSector
  <2>. HIDE DEF d
  <2>6. SectorAt(0) = {b \in Addr : b \div SectorSize = 0}
    BY <2>3 DEF SectorAt
  <2>7. /\ At!SectorOf(0) \subseteq SectorAt(0) /\ At!SectorOf(h) \subseteq SectorAt(0)
        /\ SectorAt(0) \subseteq At!SectorOf(0) \cup At!SectorOf(h)
    <3>1. At!SectorOf(0) = {b \in SectorAt(0) : b < PageSize}
      BY <2>3, <2>6, DriverSizes DEF At!SectorOf
    <3>2. At!SectorOf(h) = {b \in SectorAt(0) : b < PageSize <=> h < PageSize}
      BY <2>2, <2>3, <2>6, DriverSizes DEF At!SectorOf
    <3>3. h < PageSize => \A b \in SectorAt(0) : b < PageSize
      <4>1. \A b \in Addr : b \div SectorSize = 0 => b < SectorSize
        <5>1. \A b \in Addr : b < SectorSize * (b \div SectorSize) + SectorSize
          BY DriverSizes, DivMod
        <5>. QED
          BY <5>1, DriverSizes
      <4>. QED
        BY <2>2, <2>6, <4>1
    <3>. QED
      BY <3>1, <3>2, <3>3
  <2>8. \A b \in SectorAt(0) : ~c.sel /\ ~c.busy => d.mem[b] = Erased
    BY <2>4, <2>5, <2>6, <2>7
  <2>9. \A b \in Addr : b \notin SectorAt(0) => d.mem[b] = c.mem[b]
    BY <2>4, <2>5, <2>7
  <2>. QED
    BY <1>3, <2>1, <2>5, <2>8, <2>9
<1>. QED
  BY <1>2, <1>3

-----------------------------------------------------------------------------
\* The handlers over the AT45.

DriverType == AtBuild /\ AtOK(chip) /\ HandlersType /\ stage # "erasing"

\* In front of the byte for addr: the page that begins at w, in the buffer of c.
PageHeld(c, listened) ==
  LET w == c.current_write_addr IN
  /\ w <= addr /\ w \div PageSize = addr \div PageSize
  /\ At!PageOf(w) \subseteq named
  /\ \A a \in Addr : pend[a] # NoByte <=> w <= a /\ a < addr
  /\ listened => /\ c.op = "buffer" /\ ~c.busy /\ c.ptr = addr - w
                 /\ \A i \in 0 .. addr - w - 1 : c.buf[i] = pend[w + i]

Writing ==
  /\ stage \in {"write", "writePoll"} =>
       \A a \in Addr : addr <= a /\ a < end => At!PageOf(a) \subseteq named
  /\ IF pageOpen THEN PageHeld(chip, sound) ELSE pend = NoBytes

Selected == chip.sel => open \/ pageOpen \/ stage \in Reading

ReadingOn ==
  /\ stage \in Reading /\ sound => chip.op = "read" /\ (addr < end => chip.ptr = addr)
  /\ stage \notin Reading \/ sound => honest

AtInv == DriverType /\ Writing /\ Selected /\ ReadingOn /\ AskedIsStored /\ polls = 0

LEMMA AtDriver ==
  ASSUME AtBuild
  PROVE  /\ \A c, a : extmem_read_start(c, a) = At!extmem_read_start(c, a)
         /\ \A c : extmem_read_value(c) = At!extmem_read_value(c)
         /\ \A c, b : extmem_read_byte(c, b) = At!extmem_read_byte(c)
         /\ \A c : extmem_read_stop(c) = At!extmem_read_stop(c)
         /\ \A c, a : extmem_write_start(c, a) = At!extmem_write_start(c, a)
         /\ \A c, b : extmem_write_byte(c, b) = At!extmem_write_byte(c, b)
         /\ \A c : extmem_write_stop(c) = At!extmem_write_stop(c)
         /\ \A c : extmem_write_isbusy(c) = c.busy /\ Polled(c) = c
         /\ \A c, a : extmem_erase(c, a) = At!extmem_erase(c, a)
         /\ \A c : extmem_init(c) = At!extmem_init(c)
         /\ \A S : Touched(S) = UNION {At!PageOf(a) : a \in S}
BY DEF extmem_read_start, extmem_read_value, extmem_read_byte, extmem_read_stop,
   extmem_write_start, extmem_write_byte, extmem_write_stop, extmem_write_isbusy,
   Polled, extmem_erase, extmem_init, Touched, At!extmem_write_isbusy

\* What every way back to the prompt needs.
LEMMA AtReturn ==
  ASSUME AtInv, Return, AtOK(chip'), chip'.sel => open', chip'.mem = chip.mem,
         UNCHANGED want, open' \in BOOLEAN
  PROVE  AtInv'
<1>1. /\ stage' = "prompt" /\ addr' = 0 /\ end' = 0 /\ pageOpen' = FALSE
      /\ pend' = NoBytes /\ sound' = TRUE /\ honest' = TRUE /\ named' = {} /\ polls' = 0
      /\ UNCHANGED <<build, cmds>>
  BY DEF Return
<1>2. DriverType'
  <2>1. AtBuild' /\ AtOK(chip)'
    BY <1>1 DEF AtInv, DriverType, HandlersType, AtBuild, AtOK
  <2>2. HandlersType'
    BY ReturnType DEF AtInv, DriverType, HandlersType
  <2>. QED
    BY <1>1, <2>1, <2>2 DEF DriverType
<1>3. Writing' /\ Selected' /\ ReadingOn'
  BY <1>1 DEF Writing, Selected, ReadingOn, Reading
<1>4. AskedIsStored'
  BY DEF AtInv, AskedIsStored
<1>. QED
  BY <1>1, <1>2, <1>3, <1>4 DEF AtInv

LEMMA AtInit ==
  ASSUME DriversInit, AtBuild
  PROVE  AtInv
<1>1. PICK mem \in Contents : want = mem /\ chip = extmem_init(At!InitChip(mem))
  BY DEF DriversInit
<1>2. mem \in [Addr -> Int]
  <2>1. mem \in [0 .. Size - 1 -> Data \cup {Erased}]
    BY DriversAssumption
  <2>2. \A x \in Data \cup {Erased} : x \in Int
    BY DriverSizes
  <2>. QED
    BY <2>1, <2>2, DriverSizes
<1>3. AtOK(At!InitChip(mem)) /\ At!InitChip(mem).mem = mem
  BY <1>2, DriverBytes DEF At!InitChip, AtOK, AtChip
<1>4. AtOK(chip) /\ chip.mem = mem /\ chip.sel = FALSE
  <2>1. chip = At!Deselect(At!InitChip(mem))
    BY <1>1, AtDriver DEF At!extmem_init
  <2>. QED
    BY <1>3, <2>1, AtDeselect
<1>5. /\ stage = "prompt" /\ addr = 0 /\ end = 0 /\ pageOpen = FALSE /\ pend = NoBytes
      /\ sound = TRUE /\ open = FALSE /\ honest = TRUE /\ polls = 0
  BY DEF DriversInit
<1>6. DriverType
  <2>1. stage \in {"prompt", "write", "writePoll", "erasePoll"} \cup Reading
    BY <1>5
  <2>2. pageOpen \in BOOLEAN /\ sound \in BOOLEAN /\ open \in BOOLEAN /\ honest \in BOOLEAN
    BY <1>5
  <2>3. want \in [Addr -> Int] /\ pend \in [Addr -> Int]
    BY <1>1, <1>2, <1>5, DriverBytes
  <2>4. addr \in Nat /\ end \in Nat /\ addr <= end /\ end <= Size
    BY <1>5, DriverSizes
  <2>. QED
    BY <1>4, <1>5, <2>1, <2>2, <2>3, <2>4 DEF DriverType, HandlersType
<1>. QED
  BY <1>1, <1>4, <1>5, <1>6 DEF AtInv, Writing, Selected, ReadingOn, Reading,
     AskedIsStored

LEMMA AtWriteFlash ==
  ASSUME AtInv, WriteFlash
  PROVE  AtInv'
<1>1. PICK b \in Blocks : /\ b[2] > 0 /\ Command("write", b)
                          /\ named' = Touched(b[1] .. b[1] + b[2] - 1)
                          /\ UNCHANGED <<chip, want, sound, open, honest>>
  BY DEF WriteFlash
<1>2. /\ stage = "prompt" /\ stage' = "write" /\ addr' = b[1] /\ end' = b[1] + b[2]
      /\ UNCHANGED <<build, pageOpen, pend, polls>>
  BY <1>1 DEF Command
<1>3. b[1] \in Nat /\ b[2] \in Nat /\ b[1] + b[2] <= Size
  BY DriversAssumption
<1>4. AtBuild /\ ~pageOpen /\ pend = NoBytes /\ honest
  BY <1>2 DEF AtInv, DriverType, HandlersType, Writing, ReadingOn, Reading
<1>5. \A a \in Addr : addr' <= a /\ a < end' => At!PageOf(a) \subseteq named'
  <2>1. \A a \in Addr : addr' <= a /\ a < end' => a \in b[1] .. b[1] + b[2] - 1
    BY <1>2, <1>3, DriverSizes
  <2>2. named' = UNION {At!PageOf(a) : a \in b[1] .. b[1] + b[2] - 1}
    BY <1>1, <1>4, AtDriver
  <2>. QED
    BY <2>1, <2>2
<1>6. DriverType'
  BY <1>1, <1>2, <1>3, <1>4 DEF AtInv, DriverType, HandlersType, AtBuild, AtOK
<1>7. Writing'
  BY <1>2, <1>4, <1>5 DEF Writing
<1>8. Selected' /\ ReadingOn' /\ AskedIsStored' /\ polls' = 0
  BY <1>1, <1>2, <1>4 DEF AtInv, Selected, ReadingOn, Reading, AskedIsStored
<1>. QED
  BY <1>6, <1>7, <1>8 DEF AtInv

\* A page is open for the byte for addr.
LEMMA PageBegun ==
  ASSUME AtInv, stage = "write"
  PROVE  LET c == IF pageOpen THEN chip ELSE extmem_write_start(chip, addr)
             s == IF pageOpen THEN sound ELSE Listening
         IN  AtOK(c) /\ c.mem = chip.mem /\ PageHeld(c, s)
<1>1. CASE pageOpen
  BY <1>1 DEF AtInv, DriverType, HandlersType, Writing
<1>2. CASE ~pageOpen
  <2> DEFINE d == At!Open(chip, "buffer", 0)
             c == [d EXCEPT !.current_write_addr = addr]
  <2>1. extmem_write_start(chip, addr) = c
    BY AtDriver DEF AtInv, DriverType, HandlersType, At!extmem_write_start
  <2>2. /\ AtOK(chip) /\ addr \in Nat /\ end \in Nat /\ addr < end /\ end <= Size
        /\ pend = NoBytes
    BY <1>2 DEF AtInv, DriverType, HandlersType, Writing
  <2>3. /\ AtOK(d) /\ d.mem = chip.mem /\ d.busy = chip.busy
        /\ ~chip.sel /\ ~chip.busy => d.op = "buffer" /\ d.ptr = 0
    <3>1. 0 \in Nat /\ 0 < PageSize
      BY DriverSizes
    <3>2. AtOK(d) /\ d.mem = chip.mem /\ d.busy = chip.busy
      BY <2>2, <3>1, AtOpen
    <3>3. ~chip.sel /\ ~chip.busy => d.op = "buffer" /\ d.ptr = 0
      BY <2>2, <3>1, AtOpened
    <3>. QED
      BY <3>2, <3>3
  <2>. HIDE DEF d
  <2>4. /\ AtOK(c) /\ c.mem = d.mem /\ c.busy = d.busy /\ c.op = d.op /\ c.ptr = d.ptr
        /\ c.current_write_addr = addr
    BY <2>2, <2>3 DEF AtOK, AtChip
  <2>. HIDE DEF c
  <2>5. Listening => ~chip.sel /\ ~chip.busy
    BY <1>2 DEF AtInv, Selected, Listening, Reading
  <2>6. At!PageOf(addr) \subseteq named
    <3>1. addr \in Addr /\ addr <= addr
      BY <2>2, DriverSizes
    <3>. QED
      BY <2>2, <3>1 DEF AtInv, Writing
  <2>7. \A a \in Addr : pend[a] = NoByte /\ ~(addr <= a /\ a < addr)
    BY <2>2, DriverSizes DEF NoBytes
  <2>8. addr - addr = 0 /\ addr <= addr /\ \A i \in 0 .. 0 - 1 : FALSE
    BY <2>2
  <2>9. PageHeld(c, Listening)
    BY <2>3, <2>4, <2>5, <2>6, <2>7, <2>8 DEF PageHeld
  <2>. QED
    BY <1>2, <2>1, <2>3, <2>4, <2>9
<1>. QED
  BY <1>1, <1>2

\* The byte for addr is in it.
LEMMA ByteTaken ==
  ASSUME AtInv, stage = "write", NEW b \in Nat, NEW c, NEW s, AtOK(c), PageHeld(c, s)
  PROVE  LET d == At!extmem_write_byte(c, b)
             p == [pend EXCEPT ![addr] = b]
             w == d.current_write_addr
         IN  /\ AtOK(d) /\ d.mem = c.mem /\ w = c.current_write_addr /\ w \in Nat
             /\ p \in [Addr -> Int]
             /\ \A a \in Addr : p[a] # NoByte <=> w <= a /\ a < addr + 1
             /\ s => /\ d.op = "buffer" /\ ~d.busy /\ d.ptr = (addr - w + 1) % PageSize
                     /\ \A i \in 0 .. addr - w : d.buf[i] = p[w + i]
<1> DEFINE d == At!extmem_write_byte(c, b)
           p == [pend EXCEPT ![addr] = b]
           w == c.current_write_addr
           k == addr - w
<1>1. /\ addr \in Addr /\ pend \in [Addr -> Int] /\ b \in Int /\ b # NoByte /\ w \in Nat
      /\ addr \in Nat /\ w <= addr
  <2>1. addr \in Nat /\ addr < end /\ end \in Nat /\ end <= Size /\ pend \in [Addr -> Int]
    BY DEF AtInv, DriverType, HandlersType
  <2>2. w \in Nat /\ w <= addr
    BY DEF AtOK, AtChip, PageHeld
  <2>3. b \in Int /\ b # NoByte
    BY DEF NoByte
  <2>. QED
    BY <2>1, <2>2, <2>3, DriverSizes
<1>2. AtOK(d) /\ AtSame(c, d)
  <2>1. CASE c.op = "buffer"
    BY <1>1, <2>1, AtLatch DEF At!extmem_write_byte
  <2>2. CASE c.op # "buffer"
    BY <2>2 DEF At!extmem_write_byte, AtSame
  <2>. QED
    BY <2>1, <2>2
<1>3. p \in [Addr -> Int]
  BY <1>1
<1>4. \A a \in Addr : p[a] # NoByte <=> w <= a /\ a < addr + 1
  BY <1>1, DriverSizes DEF PageHeld
<1>5. ASSUME s
      PROVE  /\ d.op = "buffer" /\ ~d.busy /\ d.ptr = (k + 1) % PageSize
             /\ \A i \in 0 .. k : d.buf[i] = p[w + i]
  <2>1. /\ c.op = "buffer" /\ ~c.busy /\ c.ptr = k
        /\ \A i \in 0 .. k - 1 : c.buf[i] = pend[w + i]
    BY <1>5 DEF PageHeld
  <2>2. d.ptr = (k + 1) % PageSize /\ d.buf = [c.buf EXCEPT ![k] = b]
    BY <1>1, <2>1, AtLatch DEF At!extmem_write_byte
  <2>3. k \in Nat /\ k < PageSize /\ PageSize \in Nat /\ c.buf \in [0 .. PageSize - 1 -> Int]
    BY <1>1, <2>1, DriverSizes DEF AtOK, AtChip
  <2>5. w + k = addr /\ k = addr - w
    BY <1>1
  <2>. HIDE DEF k, d
  <2>4. ASSUME NEW i \in 0 .. k
        PROVE  w + i \in Addr /\ (i # k => i \in 0 .. k - 1 /\ w + i # addr)
    <3>1. w \in Nat /\ k \in Nat /\ i \in Nat /\ i <= k /\ w + k = addr /\ addr < Size
      BY <1>1, <2>3, <2>5, DriverSizes
    <3>2. w + i \in Nat /\ w + i <= w + k
      BY <3>1
    <3>. QED
      BY <3>1, <3>2, DriverSizes
  <2>6. \A i \in 0 .. k : d.buf[i] = p[w + i]
    <3>. SUFFICES ASSUME NEW i \in 0 .. k PROVE d.buf[i] = p[w + i]
      OBVIOUS
    <3>1. i \in 0 .. PageSize - 1
      BY <2>3
    <3>2. CASE i = k
      BY <1>1, <2>2, <2>3, <2>5, <3>1, <3>2
    <3>3. CASE i # k
      BY <1>1, <2>1, <2>2, <2>3, <2>4, <3>1, <3>3
    <3>. QED
      BY <3>2, <3>3
  <2>. QED
    BY <1>2, <2>1, <2>2, <2>6 DEF AtSame
<1>. HIDE DEF d, p
<1>. QED
  BY <1>1, <1>2, <1>3, <1>4, <1>5 DEF AtSame, d, p

\* The addresses of one page.
LEMMA OnePage ==
  ASSUME NEW w \in Nat, NEW top \in Nat, w <= top, w \div PageSize = top \div PageSize,
         NEW a \in Nat, w <= a, a <= top
  PROVE  /\ a \div PageSize = w \div PageSize
         /\ a % PageSize = 0 => a = w
         /\ w % PageSize = 0 => a % PageSize = a - w
<1>1. /\ w = PageSize * (w \div PageSize) + (w % PageSize)
      /\ top = PageSize * (top \div PageSize) + (top % PageSize)
      /\ w \div PageSize \in Nat /\ w % PageSize \in Nat
      /\ top % PageSize \in Nat /\ top % PageSize < PageSize /\ PageSize \in Nat \ {0}
  BY DriverSizes, DivMod
<1>2. PICK k \in Nat, r \in Nat, q \in Nat :
        k = w \div PageSize /\ r = w % PageSize /\ q = top % PageSize
  BY <1>1
<1>3. PICK m \in Nat : m = PageSize * k
  BY <1>1
<1>4. w = m + r /\ top = m + q /\ q < PageSize
  BY <1>1, <1>2, <1>3
<1>5. PICK i \in Nat : i = a - m /\ i < PageSize /\ a = PageSize * k + i
  <2>1. a - m \in Nat /\ a - m < PageSize /\ a = PageSize * k + (a - m)
    BY <1>1, <1>3, <1>4
  <2>. QED
    BY <2>1
<1>6. a \div PageSize = k
  BY <1>1, <1>5
<1>7. a % PageSize = i
  <2>1. (PageSize * k + i) % PageSize = i
    BY <1>1, <1>5, ModUnique
  <2>. QED
    BY <1>5, <2>1
<1>. QED
  BY <1>2, <1>3, <1>4, <1>5, <1>6, <1>7

LEMMA InPage ==
  ASSUME NEW w \in Nat, NEW a \in Nat, w <= a, w \div PageSize = a \div PageSize
  PROVE  /\ a - w \in Nat /\ a - w < PageSize
         /\ (a + 1) % PageSize # 0 => (a + 1) \div PageSize = a \div PageSize
<1>1. PageSize \in Nat \ {0} /\ a + 1 \in Nat
  BY DriverSizes
<1>2. PICK k \in Nat, r \in Nat, q \in Nat :
        w = PageSize * k + r /\ a = PageSize * k + q /\ q < PageSize /\ a \div PageSize = k
  <2>1. /\ w = PageSize * (w \div PageSize) + (w % PageSize)
        /\ a = PageSize * (a \div PageSize) + (a % PageSize)
        /\ a \div PageSize \in Nat /\ w % PageSize \in Nat
        /\ a % PageSize \in Nat /\ a % PageSize < PageSize
    BY <1>1, DivMod
  <2>. QED
    BY <2>1
<1>3. PICK m \in Nat : m = PageSize * k
  BY <1>1
<1>4. a - w \in Nat /\ a - w < PageSize
  BY <1>1, <1>2, <1>3
<1>5. ASSUME (a + 1) % PageSize # 0
      PROVE  (a + 1) \div PageSize = k
  <2>1. PICK j \in Nat, t \in Nat :
          /\ j = (a + 1) \div PageSize /\ a + 1 = PageSize * j + t /\ t < PageSize /\ t # 0
    <3>1. /\ (a + 1) \div PageSize \in Nat /\ (a + 1) % PageSize \in Nat
          /\ (a + 1) % PageSize < PageSize
          /\ a + 1 = PageSize * ((a + 1) \div PageSize) + ((a + 1) % PageSize)
      BY <1>1, DivMod
    <3>. QED
      BY <1>5, <3>1
  <2>2. a = PageSize * j + (t - 1) /\ t - 1 \in Nat /\ t - 1 < PageSize
    BY <1>1, <2>1
  <2>3. ~(j < k)
    BY <1>1, <1>2, <2>2, MultipleGap
  <2>4. ~(k < j)
    BY <1>1, <1>2, <2>2, MultipleGap
  <2>. QED
    BY <1>2, <2>1, <2>3, <2>4
<1>. QED
  BY <1>2, <1>4, <1>5

\* The bytes from w to top are one page's, and what they may change is that page.
LEMMA TouchedPage ==
  ASSUME AtBuild, NEW w \in Nat, NEW top \in Addr, w <= top,
         w \div PageSize = top \div PageSize,
         NEW S, S = {a \in Addr : w <= a /\ a < top + 1}
  PROVE  Touched(S) = At!PageOf(w)
<1>1. top \in Nat /\ w \in Addr /\ w \in S
  BY DriverSizes
<1>2. \A a \in S : At!PageOf(a) = At!PageOf(w)
  <2>1. \A a \in S : a \in Nat /\ w <= a /\ a <= top
    BY <1>1, DriverSizes
  <2>2. \A a \in S : a \div PageSize = w \div PageSize
    BY <1>1, <2>1, OnePage
  <2>. QED
    BY <2>2 DEF At!PageOf
<1>3. Touched(S) = UNION {At!PageOf(a) : a \in S}
  BY AtDriver
<1>. QED
  BY <1>1, <1>2, <1>3

\* The bytes up to the one for addr are in the buffer, and in p.
PageReady(d, p, s) ==
  LET w == d.current_write_addr
  IN  /\ AtOK(d) /\ d.mem = chip.mem /\ p \in [Addr -> Int]
      /\ w \in Nat /\ w <= addr /\ w \div PageSize = addr \div PageSize
      /\ At!PageOf(w) \subseteq named
      /\ \A a \in Addr : p[a] # NoByte <=> w <= a /\ a < addr + 1
      /\ s => ~d.busy /\ \A i \in 0 .. addr - w : d.buf[i] = p[w + i]

\* The page is stored.
LEMMA PageStored ==
  ASSUME AtInv, addr \in Addr, NEW d, NEW p, NEW s, PageReady(d, p, s)
  PROVE  LET e == At!extmem_write_stop(d)
             m == Stored(p, s)
         IN  /\ AtOK(e) /\ e.sel = FALSE /\ m \in [Addr -> Int]
             /\ \A a \in Addr : m[a] # Any => e.mem[a] = m[a]
             /\ \A a \in Addr : e.mem[a] # chip.mem[a] => a \in named
<1> DEFINE e == At!extmem_write_stop(d)
           m == Stored(p, s)
           w == d.current_write_addr
           held == At!PageOf(w)
           bytes == {a \in Addr : p[a] # NoByte}
           exact == s /\ \E a \in bytes : a % PageSize = 0
<1>0. /\ AtOK(d) /\ d.mem = chip.mem /\ p \in [Addr -> Int]
      /\ w \in Nat /\ w <= addr /\ w \div PageSize = addr \div PageSize
      /\ At!PageOf(w) \subseteq named
      /\ \A a \in Addr : p[a] # NoByte <=> w <= a /\ a < addr + 1
      /\ s => ~d.busy /\ \A i \in 0 .. addr - w : d.buf[i] = p[w + i]
  BY DEF PageReady
<1>1. /\ AtOK(e) /\ e.sel = FALSE
      /\ \A b \in Addr : b \notin held => e.mem[b] = d.mem[b]
      /\ ~d.busy => \A b \in held : e.mem[b] = d.buf[b % PageSize]
  BY <1>0, AtWriteStop
<1>. HIDE DEF e
<1>2. bytes = {a \in Addr : w <= a /\ a < addr + 1}
  BY <1>0
<1>. HIDE DEF w
<1>3. AtBuild /\ want \in [Addr -> Int]
  BY DEF AtInv, DriverType, HandlersType
<1>4. Touched(bytes) = held
  BY <1>0, <1>2, <1>3, TouchedPage
<1>5. m = [a \in Addr |-> IF a \notin held THEN want[a]
                          ELSE IF exact /\ a \in bytes THEN p[a] ELSE Any]
  BY <1>3, <1>4 DEF Stored
<1>6. ASSUME exact, NEW a \in bytes
      PROVE  a \in held /\ e.mem[a] = p[a]
  <2>1. \A b \in bytes : b \in Nat /\ w <= b /\ b <= addr /\ addr \in Nat
    BY <1>0, <1>2, DriverSizes
  <2>2. PICK b \in bytes : b % PageSize = 0
    BY <1>6
  <2>3. b = w
    BY <1>0, <2>1, <2>2, OnePage
  <2>4. a % PageSize = a - w /\ a \div PageSize = w \div PageSize
    BY <1>0, <2>1, <2>2, <2>3, OnePage
  <2>5. a \in held
    BY <1>2, <2>4, DriverSizes DEF At!PageOf
  <2>6. PICK i \in 0 .. addr - w : i = a - w /\ w + i = a
    BY <1>0, <1>2, <2>1
  <2>7. d.buf[i] = p[a]
    BY <1>0, <1>6, <2>6
  <2>8. e.mem[a] = d.buf[a % PageSize]
    BY <1>0, <1>1, <1>6, <2>5
  <2>. QED
    BY <2>4, <2>5, <2>6, <2>7, <2>8
<1>. HIDE DEF exact, held, bytes, m
<1>7. m \in [Addr -> Int]
  <2>1. Any \in Int /\ \A a \in Addr : want[a] \in Int /\ p[a] \in Int
    BY <1>0, <1>3 DEF Any
  <2>. QED
    BY <1>5, <2>1
<1>8. \A a \in Addr : m[a] # Any => e.mem[a] = m[a]
  <2>. SUFFICES ASSUME NEW a \in Addr, m[a] # Any
                PROVE  e.mem[a] = m[a]
    OBVIOUS
  <2>1. CASE a \notin held
    BY <1>0, <1>1, <1>5, <2>1 DEF AtInv, AskedIsStored
  <2>2. CASE a \in held
    BY <1>5, <1>6, <2>2
  <2>. QED
    BY <2>1, <2>2
<1>9. \A a \in Addr : e.mem[a] # chip.mem[a] => a \in named
  BY <1>0, <1>1 DEF held
<1>. QED
  BY <1>1, <1>7, <1>8, <1>9 DEF e, m

LEMMA AtWriteFlashByte ==
  ASSUME AtInv, WriteFlashByte
  PROVE  AtInv' /\ OnlyNamed
<1> DEFINE c0 == IF pageOpen THEN chip ELSE extmem_write_start(chip, addr)
           s == IF pageOpen THEN sound ELSE Listening
           atEnd == (addr + 1) % PageSize = 0 \/ addr + 1 = end
<1>1. stage = "write" /\ addr' = addr + 1 /\ UNCHANGED <<build, end, honest, named, cmds, polls>>
  BY DEF WriteFlashByte
<1>2. AtOK(c0) /\ c0.mem = chip.mem /\ PageHeld(c0, s)
  BY <1>1, PageBegun
<1>3. PICK b \in Data \cup {Erased} :
        \E c \in {extmem_write_byte(c0, b)} :
          IF atEnd
          THEN /\ chip' = extmem_write_stop(c) /\ want' = Stored([pend EXCEPT ![addr] = b], s)
               /\ pageOpen' = FALSE /\ pend' = NoBytes /\ sound' = TRUE
               /\ open' = (open /\ ~AtBuild) /\ stage' = "writePoll"
          ELSE /\ chip' = c /\ pageOpen' = TRUE /\ pend' = [pend EXCEPT ![addr] = b] /\ sound' = s
               /\ UNCHANGED <<want, open, stage>>
  BY DEF WriteFlashByte
<1> DEFINE d == At!extmem_write_byte(c0, b)
           p == [pend EXCEPT ![addr] = b]
           w == d.current_write_addr
<1>4. AtBuild /\ /\ addr \in Addr /\ addr \in Nat /\ end \in Nat /\ addr < end /\ end <= Size
  <2>1. AtBuild /\ addr \in Nat /\ end \in Nat /\ addr < end /\ end <= Size
    BY <1>1 DEF AtInv, DriverType, HandlersType
  <2>. QED
    BY <2>1, DriverSizes
<1>5. /\ atEnd => chip' = At!extmem_write_stop(d) /\ want' = Stored(p, s)
                 /\ pageOpen' = FALSE /\ pend' = NoBytes /\ sound' = TRUE
                 /\ open' = (open /\ ~AtBuild) /\ stage' = "writePoll"
      /\ ~atEnd => chip' = d /\ pageOpen' = TRUE /\ pend' = p /\ sound' = s
                  /\ UNCHANGED <<want, open, stage>>
  BY <1>3, <1>4, AtDriver
<1>6. b \in Nat
  BY DriverSizes
<1>. HIDE DEF c0
<1>7. s \in BOOLEAN
  <2>1. chip.busy \in BOOLEAN /\ open \in BOOLEAN /\ sound \in BOOLEAN
    BY DEF AtInv, DriverType, HandlersType, AtOK, AtChip
  <2>. QED
    BY <2>1 DEF Listening
<1>. HIDE DEF s
<1>8. /\ AtOK(d) /\ d.mem = c0.mem /\ w = c0.current_write_addr /\ w \in Nat
      /\ p \in [Addr -> Int]
      /\ \A a \in Addr : p[a] # NoByte <=> w <= a /\ a < addr + 1
      /\ s => /\ d.op = "buffer" /\ ~d.busy /\ d.ptr = (addr - w + 1) % PageSize
              /\ \A i \in 0 .. addr - w : d.buf[i] = p[w + i]
  BY <1>1, <1>2, <1>6, ByteTaken
<1>9. w <= addr /\ w \div PageSize = addr \div PageSize /\ At!PageOf(w) \subseteq named
  BY <1>2, <1>8 DEF PageHeld
<1>. HIDE DEF d, p, atEnd
<1>10. CASE atEnd
  <2>1. /\ AtOK(chip') /\ chip'.sel = FALSE /\ want' \in [Addr -> Int]
        /\ \A a \in Addr : want'[a] # Any => chip'.mem[a] = want'[a]
        /\ \A a \in Addr : chip'.mem[a] # chip.mem[a] => a \in named
    <3> DEFINE e == At!extmem_write_stop(d)
               m == Stored(p, s)
    <3>1. d.mem = chip.mem /\ (s => ~d.busy /\ \A i \in 0 .. addr - w : d.buf[i] = p[w + i])
      BY <1>2, <1>8
    <3>2. PageReady(d, p, s)
      BY <1>8, <1>9, <3>1 DEF PageReady
    <3>3. /\ AtOK(e) /\ e.sel = FALSE /\ m \in [Addr -> Int]
          /\ \A a \in Addr : m[a] # Any => e.mem[a] = m[a]
          /\ \A a \in Addr : e.mem[a] # chip.mem[a] => a \in named
      BY <1>4, <3>2, PageStored
    <3>4. chip' = e /\ want' = m
      BY <1>5, <1>10
    <3>. HIDE DEF e, m
    <3>. QED
      BY <3>3, <3>4
  <2>2. open' = FALSE
    BY <1>4, <1>5, <1>10
  <2>3. DriverType'
    <3>1. AtBuild' /\ AtOK(chip)'
      BY <1>1, <1>4, <2>1 DEF AtBuild, AtOK
    <3>2. HandlersType'
      BY HandlersStep DEF AtInv, DriverType, DriversNext
    <3>. QED
      BY <1>5, <1>10, <3>1, <3>2 DEF DriverType
  <2>4. Writing'
    <3>1. \A a \in Addr : addr' <= a /\ a < end' => At!PageOf(a) \subseteq named'
      BY <1>1, <1>4, DriverSizes DEF AtInv, Writing
    <3>. QED
      BY <1>5, <1>10, <3>1 DEF Writing
  <2>5. Selected' /\ ReadingOn'
    BY <1>1, <1>5, <1>10, <2>1 DEF AtInv, Selected, ReadingOn, Reading
  <2>6. AskedIsStored' /\ polls' = 0 /\ OnlyNamed
    BY <1>1, <2>1 DEF AtInv, AskedIsStored, OnlyNamed
  <2>. QED
    BY <2>3, <2>4, <2>5, <2>6 DEF AtInv
<1>11. CASE ~atEnd
  <2>1. /\ chip' = d /\ pageOpen' = TRUE /\ pend' = p /\ sound' = s
        /\ UNCHANGED <<want, open, stage>> /\ d.mem = chip.mem
    BY <1>2, <1>5, <1>8, <1>11
  <2>2. (addr + 1) % PageSize # 0 /\ addr + 1 < end
    BY <1>4, <1>11 DEF atEnd
  <2>3. DriverType'
    <3>1. AtBuild' /\ AtOK(chip)'
      BY <1>1, <1>4, <1>8, <2>1 DEF AtBuild, AtOK
    <3>2. HandlersType'
      BY HandlersStep DEF AtInv, DriverType, DriversNext
    <3>. QED
      BY <1>1, <2>1, <3>1, <3>2 DEF DriverType
  <2>4. PageHeld(chip, sound)'
    <3>1. /\ addr - w \in Nat /\ addr - w < PageSize
          /\ (addr + 1) \div PageSize = addr \div PageSize
      BY <1>4, <1>8, <1>9, <2>2, InPage
    <3>2. w <= addr + 1 /\ w \div PageSize = (addr + 1) \div PageSize
      BY <1>4, <1>8, <1>9, <3>1
    <3>3. addr + 1 - w \in Nat /\ addr + 1 - w < PageSize
      BY <1>4, <1>8, <3>2, InPage
    <3>4. PICK k \in Nat : k = addr - w /\ k + 1 = addr + 1 - w /\ k + 1 < PageSize
      BY <1>4, <1>8, <3>1, <3>3 DEF w
    <3>5. (k + 1) % PageSize = k + 1 /\ k + 1 - 1 = k
      <4>1. PICK r \in Nat : r = k + 1 /\ r < PageSize
        BY <3>4
      <4>2. (PageSize * 0 + r) % PageSize = r
        BY <4>1, DriverSizes, ModUnique
      <4>. QED
        BY <3>4, <4>1, <4>2, DriverSizes
    <3>6. /\ chip'.current_write_addr = w /\ addr' = addr + 1 /\ addr' - w = k + 1
          /\ addr' - w - 1 = k
      BY <1>1, <1>4, <1>8, <2>1, <3>4, <3>5
    <3>7. \A a \in Addr : pend'[a] # NoByte <=> w <= a /\ a < addr'
      BY <1>8, <2>1, <3>6
    <3>8. s => /\ chip'.op = "buffer" /\ ~chip'.busy /\ chip'.ptr = addr' - w
               /\ \A i \in 0 .. addr' - w - 1 : chip'.buf[i] = pend'[w + i]
      BY <1>8, <2>1, <3>4, <3>5, <3>6
    <3>. QED
      BY <1>1, <1>9, <2>1, <3>2, <3>6, <3>7, <3>8 DEF PageHeld
  <2>5. Writing'
    <3>1. \A a \in Addr : addr' <= a /\ a < end' => At!PageOf(a) \subseteq named'
      BY <1>1, <1>4, DriverSizes DEF AtInv, Writing
    <3>. QED
      BY <2>1, <2>4, <3>1 DEF Writing
  <2>6. Selected' /\ ReadingOn'
    BY <1>1, <2>1 DEF AtInv, Selected, ReadingOn, Reading
  <2>7. AskedIsStored' /\ polls' = 0 /\ OnlyNamed
    BY <1>1, <2>1 DEF AtInv, AskedIsStored, OnlyNamed
  <2>. QED
    BY <2>3, <2>5, <2>6, <2>7 DEF AtInv
<1>. QED
  BY <1>10, <1>11

LEMMA AtPolled ==
  ASSUME AtInv, NEW from, NEW y, Poll(from, y)
  PROVE  stage = from /\ chip' = chip /\ y = chip.busy /\ UNCHANGED <<want, open>>
BY AtDriver DEF AtInv, DriverType, HandlersType, Poll

\* Only the stage and the counters move.
LEMMA AtWaits ==
  ASSUME AtInv, chip' = chip, polls' = 0, stage' \in {"write", "writePoll", "erasePoll"},
         stage \in {"writePoll", "erasePoll"}, stage' # stage => stage' = "write",
         stage = "erasePoll" => stage' = stage,
         stage' = "write" => addr < end,
         UNCHANGED <<build, addr, end, pageOpen, want, pend, sound, open, honest, named>>
  PROVE  AtInv' /\ OnlyNamed
<1>1. ~pageOpen
  BY DEF AtInv, DriverType, HandlersType
<1>2. DriverType'
  BY <1>1 DEF AtInv, DriverType, HandlersType, AtBuild, AtOK
<1>3. Writing'
  BY <1>1 DEF AtInv, Writing
<1>4. Selected' /\ ReadingOn'
  BY DEF AtInv, Selected, ReadingOn, Reading
<1>5. AskedIsStored' /\ OnlyNamed
  BY DEF AtInv, AskedIsStored, OnlyNamed
<1>. QED
  BY <1>2, <1>3, <1>4, <1>5 DEF AtInv

LEMMA AtPollAgain ==
  ASSUME AtInv, PollAgain
  PROVE  AtInv' /\ OnlyNamed
<1>1. PICK f \in {"writePoll", "erasePoll"} : Poll(f, TRUE)
  BY DEF PollAgain, Poll, AtInv, DriverType
<1>2. stage = f /\ chip' = chip /\ chip.busy = TRUE /\ UNCHANGED <<want, open>>
  BY <1>1, AtPolled
<1>. QED
  BY <1>2, AtWaits DEF PollAgain

LEMMA AtWriteFlashPolled ==
  ASSUME AtInv, WriteFlashPolled
  PROVE  AtInv' /\ OnlyNamed
<1>1. stage = "writePoll" /\ chip' = chip /\ UNCHANGED <<want, open>>
  BY AtPolled DEF WriteFlashPolled
<1>2. CASE addr = end
  <2>1. Return
    BY <1>2 DEF WriteFlashPolled
  <2>2. AtOK(chip') /\ (chip'.sel => open') /\ chip'.mem = chip.mem /\ open' \in BOOLEAN
    BY <1>1 DEF AtInv, DriverType, HandlersType, Selected, Reading
  <2>. QED
    BY <1>1, <2>1, <2>2, AtReturn DEF OnlyNamed
<1>3. CASE addr # end
  BY <1>1, <1>3, AtWaits DEF WriteFlashPolled, AtInv, DriverType, HandlersType
<1>. QED
  BY <1>2, <1>3

LEMMA AtAborts ==
  ASSUME AtInv, WriteFlashAbort \/ WriteFlashPollAbort \/ EraseFlashPolled \/ EraseFlashAbort
  PROVE  AtInv' /\ OnlyNamed
<1>1. CASE WriteFlashAbort
  <2>1. /\ Return /\ UNCHANGED <<chip, want>> /\ stage = "write"
        /\ open' = (open \/ (AtBuild /\ pageOpen))
    BY <1>1 DEF WriteFlashAbort
  <2>2. AtOK(chip') /\ chip'.mem = chip.mem /\ open' \in BOOLEAN
    BY <2>1 DEF AtInv, DriverType, HandlersType
  <2>3. chip'.sel => open'
    BY <2>1 DEF AtInv, DriverType, HandlersType, Selected, Reading
  <2>. QED
    BY <2>1, <2>2, <2>3, AtReturn DEF OnlyNamed
<1>2. CASE WriteFlashPollAbort \/ EraseFlashPolled \/ EraseFlashAbort
  <2>1. PICK f \in {"writePoll", "erasePoll"}, y \in BOOLEAN : Poll(f, y)
    BY <1>2 DEF WriteFlashPollAbort, EraseFlashPolled, EraseFlashAbort
  <2>2. stage = f /\ chip' = chip /\ UNCHANGED <<want, open>>
    BY <2>1, AtPolled
  <2>3. Return
    BY <1>2 DEF WriteFlashPollAbort, EraseFlashPolled, EraseFlashAbort
  <2>4. AtOK(chip') /\ (chip'.sel => open') /\ chip'.mem = chip.mem /\ open' \in BOOLEAN
    BY <2>2 DEF AtInv, DriverType, HandlersType, Selected, Reading
  <2>. QED
    BY <2>2, <2>3, <2>4, AtReturn DEF OnlyNamed
<1>. QED
  BY <1>1, <1>2

LEMMA AtEraseFlash ==
  ASSUME AtInv, EraseFlash
  PROVE  AtInv' /\ OnlyNamed
<1>1. PICK a \in Addr :
        /\ a % SectorSize = 0 /\ chip' = extmem_erase(chip, a)
        /\ Command(IF AtBuild THEN "erasePoll" ELSE "erasing", <<a, 0>>)
        /\ named' = IF AtBuild THEN SectorAt(a) ELSE {}
        /\ want' = [b \in Addr |-> IF b \notin named' THEN want[b]
                                   ELSE IF Listening THEN Erased ELSE Any]
        /\ open' = (open /\ ~AtBuild) /\ UNCHANGED <<sound, honest>>
  BY DEF EraseFlash
<1>2. /\ stage = "prompt" /\ stage' = "erasePoll" /\ addr' = a /\ end' = a + 0
      /\ UNCHANGED <<build, pageOpen, pend, polls>>
  BY <1>1 DEF Command, AtInv, DriverType
<1>3. AtBuild /\ AtOK(chip) /\ ~pageOpen /\ pend = NoBytes /\ (chip.sel => open)
  BY <1>2 DEF AtInv, DriverType, HandlersType, Writing, Selected, Reading
<1>4. named' = SectorAt(a) /\ open' = FALSE /\ chip' = At!extmem_erase(chip, a)
  BY <1>1, <1>3, AtDriver
<1>5. /\ AtOK(chip') /\ chip'.sel = FALSE
      /\ \A b \in Addr : b \notin SectorAt(a) => chip'.mem[b] = chip.mem[b]
      /\ ~chip.sel /\ ~chip.busy => \A b \in SectorAt(a) : chip'.mem[b] = Erased
  <2> DEFINE d == At!extmem_erase(chip, a)
  <2>1. AtOK(chip) /\ a % SectorSize = 0
    BY <1>1, <1>3
  <2>2. /\ AtOK(d) /\ d.sel = FALSE
        /\ \A b \in Addr : b \notin SectorAt(a) => d.mem[b] = chip.mem[b]
        /\ ~chip.sel /\ ~chip.busy => \A b \in SectorAt(a) : d.mem[b] = Erased
    BY <2>1, AtErase
  <2>. HIDE DEF d
  <2>. QED
    BY <1>4, <2>2 DEF d
<1>6. DriverType'
  <2>1. AtBuild' /\ AtOK(chip)'
    BY <1>2, <1>3, <1>5 DEF AtBuild, AtOK
  <2>2. HandlersType'
    BY HandlersStep DEF AtInv, DriverType, DriversNext
  <2>. QED
    BY <1>2, <2>1, <2>2 DEF DriverType
<1>7. Writing' /\ Selected' /\ ReadingOn'
  BY <1>1, <1>2, <1>3, <1>5 DEF AtInv, Writing, Selected, ReadingOn, Reading
<1>8. AskedIsStored'
  <2>. SUFFICES ASSUME NEW b \in Addr, want'[b] # Any
                PROVE  chip'.mem[b] = want'[b]
    BY DEF AskedIsStored
  <2>1. CASE b \notin SectorAt(a)
    BY <1>1, <1>4, <1>5, <2>1 DEF AtInv, AskedIsStored
  <2>2. CASE b \in SectorAt(a)
    BY <1>1, <1>3, <1>4, <1>5, <2>2 DEF Listening
  <2>. QED
    BY <2>1, <2>2
<1>. QED
  BY <1>2, <1>4, <1>5, <1>6, <1>7, <1>8 DEF AtInv, OnlyNamed

LEMMA AtStartReading ==
  ASSUME AtInv, StartReading
  PROVE  AtInv' /\ OnlyNamed
<1>1. PICK kind \in Reading, b \in Blocks :
        /\ Command(kind, b) /\ chip' = extmem_read_start(chip, b[1]) /\ sound' = Listening
        /\ UNCHANGED <<want, open, honest, named>>
  BY DEF StartReading, Reading
<1>2. /\ stage = "prompt" /\ stage' = kind /\ addr' = b[1] /\ end' = b[1] + b[2]
      /\ UNCHANGED <<build, pageOpen, pend, polls>>
  BY <1>1 DEF Command
<1>3. /\ AtBuild /\ AtOK(chip) /\ ~pageOpen /\ pend = NoBytes /\ (chip.sel => open) /\ honest
      /\ chip.busy \in BOOLEAN
  BY <1>2 DEF AtInv, DriverType, HandlersType, Writing, Selected, ReadingOn, Reading,
     AtOK, AtChip
<1>4. b[1] \in Nat /\ b[2] \in Nat /\ b[1] + b[2] <= Size
  BY DriversAssumption
<1>5. chip' = At!Open(chip, "read", b[1])
  BY <1>1, <1>3, AtDriver DEF At!extmem_read_start
<1>6. PICK n \in Nat : n = b[1]
  BY <1>4
<1>7. AtOK(chip') /\ chip'.mem = chip.mem /\ chip'.sel = TRUE
  BY <1>3, <1>5, <1>6, AtOpen
<1>8. ~chip.sel /\ ~chip.busy => chip'.op = "read" /\ chip'.ptr = n
  BY <1>3, <1>5, <1>6, AtOpened
<1>9. DriverType'
  <2>1. AtBuild' /\ AtOK(chip)'
    BY <1>2, <1>3, <1>7 DEF AtBuild, AtOK
  <2>2. HandlersType'
    BY HandlersStep DEF AtInv, DriverType, DriversNext
  <2>. QED
    BY <1>2, <2>1, <2>2 DEF DriverType, Reading
<1>10. Writing' /\ Selected' /\ ReadingOn'
  BY <1>1, <1>2, <1>3, <1>6, <1>8 DEF Writing, Selected, ReadingOn, Reading, Listening
<1>11. AskedIsStored' /\ polls' = 0 /\ OnlyNamed
  BY <1>1, <1>2, <1>7 DEF AtInv, AskedIsStored, OnlyNamed
<1>. QED
  BY <1>9, <1>10, <1>11 DEF AtInv

LEMMA AtReadNext ==
  ASSUME NEW c, AtOK(c)
  PROVE  LET d == At!extmem_read_byte(c)
         IN  /\ AtOK(d) /\ d.mem = c.mem /\ d.sel = c.sel
             /\ c.op = "read" => d.op = "read" /\ d.ptr = (c.ptr + 1) % Size
<1>1. CASE c.op = "read"
  <2> DEFINE n == (c.ptr + 1) % Size
  <2>1. At!extmem_read_byte(c) = [c EXCEPT !.ptr = n]
    BY <1>1 DEF At!extmem_read_byte
  <2>2. n \in Nat
    BY DriverSizes DEF AtOK, AtChip
  <2>. HIDE DEF n
  <2>3. LET d == [c EXCEPT !.ptr = n]
        IN  AtOK(d) /\ d.mem = c.mem /\ d.sel = c.sel /\ d.op = "read" /\ d.ptr = n
    BY <1>1, <2>2 DEF AtOK, AtChip
  <2>. QED
    BY <2>1, <2>3 DEF n
<1>2. CASE c.op = "buffer"
  <2>1. Erased \in Int
    BY DriverSizes
  <2>2. At!extmem_read_byte(c) = At!Latch(c, Erased)
    BY <1>2 DEF At!extmem_read_byte
  <2> DEFINE d == At!Latch(c, Erased)
  <2>3. AtOK(d) /\ AtSame(c, d)
    BY <1>2, <2>1, AtLatch
  <2>. HIDE DEF d
  <2>. QED
    BY <1>2, <2>2, <2>3 DEF AtSame, d
<1>3. CASE c.op \notin {"read", "buffer"}
  BY <1>3 DEF At!extmem_read_byte
<1>. QED
  BY <1>1, <1>2, <1>3

LEMMA AtReadByte ==
  ASSUME AtInv, ReadByte
  PROVE  AtInv' /\ OnlyNamed
<1>1. /\ stage \in Reading /\ addr # end /\ addr' = addr + 1
      /\ honest' = (honest /\ extmem_read_value(chip) = chip.mem[addr])
      /\ chip' = extmem_read_byte(chip, stage = "read" /\ addr + 1 = end)
      /\ UNCHANGED <<build, stage, end, pageOpen, want, pend, sound, open, named, cmds, polls>>
  BY DEF ReadByte, Reading
<1>2. /\ AtBuild /\ AtOK(chip) /\ ~pageOpen /\ pend = NoBytes /\ addr \in Nat /\ end \in Nat
      /\ addr < end /\ end <= Size
  BY <1>1 DEF AtInv, DriverType, HandlersType, Writing, Reading
<1>3. chip' = At!extmem_read_byte(chip)
  BY <1>1, <1>2, AtDriver
<1>4. /\ AtOK(chip') /\ chip'.mem = chip.mem
      /\ chip.op = "read" => chip'.op = "read" /\ chip'.ptr = (chip.ptr + 1) % Size
  <2> DEFINE d == At!extmem_read_byte(chip)
  <2>1. /\ AtOK(d) /\ d.mem = chip.mem /\ d.sel = chip.sel
        /\ chip.op = "read" => d.op = "read" /\ d.ptr = (chip.ptr + 1) % Size
    BY <1>2, AtReadNext
  <2>. HIDE DEF d
  <2>. QED
    BY <1>3, <2>1 DEF d
<1>5. sound => /\ chip.op = "read" /\ chip.ptr = addr /\ honest
  BY <1>1, <1>2 DEF AtInv, ReadingOn, Reading
<1>6. ReadingOn'
  <2>1. sound => chip'.op = "read" /\ (addr' < end' => chip'.ptr = addr')
    <3>1. addr + 1 < end => (addr + 1) % Size = addr + 1
      BY <1>2, DriverSizes
    <3>. QED
      BY <1>1, <1>4, <1>5, <3>1
  <2>2. sound => honest'
    <3>1. sound => extmem_read_value(chip) = chip.mem[addr]
      BY <1>2, <1>5, AtDriver DEF At!extmem_read_value
    <3>. QED
      BY <1>1, <1>5, <3>1
  <2>. QED
    BY <1>1, <2>1, <2>2 DEF ReadingOn
<1>7. DriverType'
  <2>1. AtBuild' /\ AtOK(chip)'
    BY <1>1, <1>2, <1>4 DEF AtBuild, AtOK
  <2>2. HandlersType'
    BY HandlersStep DEF AtInv, DriverType, DriversNext
  <2>. QED
    BY <1>1, <2>1, <2>2 DEF DriverType, Reading
<1>8. Writing' /\ Selected'
  BY <1>1, <1>2 DEF Writing, Selected, Reading
<1>9. AskedIsStored' /\ polls' = 0 /\ OnlyNamed
  BY <1>1, <1>4 DEF AtInv, AskedIsStored, OnlyNamed
<1>. QED
  BY <1>6, <1>7, <1>8, <1>9 DEF AtInv

LEMMA AtReadEnds ==
  ASSUME AtInv, ReadStop \/ WatchdogReset
  PROVE  AtInv' /\ OnlyNamed
<1>1. AtBuild /\ AtOK(chip)
  BY DEF AtInv, DriverType, HandlersType
<1>2. chip' = At!Deselect(chip) /\ open' = FALSE
  BY <1>1, AtDriver DEF ReadStop, WatchdogReset, At!extmem_read_stop, At!extmem_init
<1>3. AtOK(chip') /\ chip'.mem = chip.mem /\ chip'.sel = FALSE
  BY <1>1, <1>2, AtDeselect
<1>4. Return /\ UNCHANGED want
  BY DEF ReadStop, WatchdogReset
<1>. QED
  BY <1>2, <1>3, <1>4, AtReturn DEF OnlyNamed

LEMMA AtCycleDone ==
  ASSUME AtInv, CycleDone
  PROVE  AtInv' /\ OnlyNamed
<1>1. /\ chip' = [chip EXCEPT !.busy = FALSE]
      /\ UNCHANGED <<build, stage, addr, end, pageOpen, want, pend, sound, open, honest, named,
                     cmds, polls>>
  BY DEF CycleDone
<1>2. /\ AtOK(chip') /\ chip'.mem = chip.mem /\ chip'.buf = chip.buf /\ chip'.sel = chip.sel
      /\ chip'.op = chip.op /\ chip'.ptr = chip.ptr /\ chip'.busy = FALSE
      /\ chip'.current_write_addr = chip.current_write_addr
  <2>1. AtOK(chip)
    BY DEF AtInv, DriverType, HandlersType
  <2>. QED
    BY <1>1, <2>1, AtCycle
<1>3. DriverType'
  BY <1>1, <1>2 DEF AtInv, DriverType, HandlersType, AtBuild, AtOK
<1>4. Writing'
  <2>1. pageOpen => PageHeld(chip, sound)'
    BY <1>1, <1>2 DEF AtInv, Writing, PageHeld
  <2>. QED
    BY <1>1, <2>1 DEF AtInv, Writing
<1>5. Selected' /\ ReadingOn'
  BY <1>1, <1>2 DEF AtInv, Selected, ReadingOn, Reading
<1>6. AskedIsStored' /\ polls' = 0 /\ OnlyNamed
  BY <1>1, <1>2 DEF AtInv, AskedIsStored, OnlyNamed
<1>. QED
  BY <1>3, <1>4, <1>5, <1>6 DEF AtInv

LEMMA AtStep ==
  ASSUME AtInv, [DriversNext]_driverVars
  PROVE  AtInv' /\ OnlyNamed
<1>1. CASE WriteFlash
  BY <1>1, AtWriteFlash DEF WriteFlash, OnlyNamed
<1>2. CASE WriteFlashByte
  BY <1>2, AtWriteFlashByte
<1>3. CASE PollAgain
  BY <1>3, AtPollAgain
<1>4. CASE WriteFlashPolled
  BY <1>4, AtWriteFlashPolled
<1>5. CASE WriteFlashAbort \/ WriteFlashPollAbort \/ EraseFlashPolled \/ EraseFlashAbort
  BY <1>5, AtAborts
<1>6. CASE EraseFlash
  BY <1>6, AtEraseFlash
<1>7. CASE StartReading
  BY <1>7, AtStartReading
<1>8. CASE ReadByte
  BY <1>8, AtReadByte
<1>9. CASE ReadStop \/ WatchdogReset
  BY <1>9, AtReadEnds
<1>10. CASE CycleDone
  BY <1>10, AtCycleDone
<1>11. CASE EraseWaited
  BY <1>11 DEF EraseWaited, Poll, AtInv, DriverType
<1>12. CASE UNCHANGED driverVars
  <2>1. /\ UNCHANGED <<build, chip, stage, addr, end, pageOpen, want, pend, sound, open, honest>>
        /\ UNCHANGED <<named, cmds, polls>>
    BY <1>12 DEF driverVars
  <2>2. DriverType' /\ Selected' /\ ReadingOn' /\ AskedIsStored' /\ OnlyNamed
    BY <2>1 DEF AtInv, DriverType, HandlersType, AtBuild, AtOK, Selected, ReadingOn,
       AskedIsStored, OnlyNamed
  <2>3. Writing'
    BY <2>1 DEF AtInv, Writing, PageHeld
  <2>. QED
    BY <2>1, <2>2, <2>3 DEF AtInv
<1>. QED
  BY <1>1, <1>2, <1>3, <1>4, <1>5, <1>6, <1>7, <1>8, <1>9, <1>10, <1>11, <1>12 DEF
     DriversNext

-----------------------------------------------------------------------------
\* The firmware with either driver.

\* The I2C driver sends two address bytes.
Addressable == AtBuild \/ TwoByteAddress

DriverInv == AtInv \/ (I2cInv /\ TwoByteAddress)

LEMMA DriverStep ==
  ASSUME DriverInv, [DriversNext]_driverVars
  PROVE  DriverInv' /\ OnlyNamed
<1>1. CASE AtInv
  BY <1>1, AtStep DEF DriverInv
<1>2. CASE I2cInv /\ TwoByteAddress
  <2>1. I2cInv' /\ OnlyNamed
    BY <1>2, I2cStep
  <2>2. TwoByteAddress'
    BY <1>2
  <2>. QED
    BY <2>1, <2>2 DEF DriverInv
<1>. QED
  BY <1>1, <1>2 DEF DriverInv

LEMMA DriverInvariant == DriversSpec /\ Addressable => []DriverInv
<1>1. DriversInit /\ Addressable => DriverInv
  BY AtInit, I2cInit DEF Addressable, DriverInv
<1>2. DriverInv /\ [DriversNext]_driverVars => DriverInv'
  BY DriverStep
<1>. QED
  BY <1>1, <1>2, PTL DEF DriversSpec

(***************************************************************************)
(* With either chip the memory holds what a host wrote and erased,         *)
(* whatever the motor line or the watchdog cut short, for every size of    *)
(* the memory that two address bytes reach (the AT45 has three).           *)
(***************************************************************************)
THEOREM DriversStore == DriversSpec /\ Addressable => []AskedIsStored
<1>1. DriverInv => AskedIsStored
  BY DEF DriverInv, AtInv, I2cInv
<1>. QED
  BY <1>1, DriverInvariant, PTL

(***************************************************************************)
(* With either chip a read that began when the chip was listening gives    *)
(* the memory's bytes.                                                     *)
(***************************************************************************)
THEOREM DriversRead == DriversSpec /\ Addressable => []ReadsAreStored
<1>1. AtInv => ReadsAreStored
  BY DEF AtInv, ReadingOn, ReadsAreStored
<1>2. I2cInv => ReadsAreStored
  BY DEF I2cInv, InStep, ReadsAreStored
<1>3. DriverInv => ReadsAreStored
  BY <1>1, <1>2 DEF DriverInv
<1>. QED
  BY <1>3, DriverInvariant, PTL

(***************************************************************************)
(* With either chip a step changes only bytes that the running command     *)
(* names (on the AT45 their pages), also when the bus is out of step or    *)
(* the AT45 was left selected.                                             *)
(***************************************************************************)
THEOREM DriversKeepTheRest == DriversSpec /\ Addressable => OnlyNamedBytesChange
<1>1. DriverInv /\ [DriversNext]_driverVars =>
        [\A a \in Addr : chip'.mem[a] # chip.mem[a] => a \in named \cup named']_driverVars
  BY DriverStep DEF OnlyNamed
<1>. QED
  BY <1>1, DriverInvariant, PTL DEF DriversSpec, OnlyNamedBytesChange

-----------------------------------------------------------------------------
\* How long a chip that is ready may look busy.

\* A chip that sends, at the falling and at the rising clock.
LEMMA SendingFalls ==
  ASSUME NEW c, Deaf(c), c.phase = "send"
  PROVE  LET d == I2c!set_scl(c, FALSE)
         IN  d.phase = "send" /\ d.bit = (IF c.bit = Bits + 1 THEN 0 ELSE c.bit)
<1> DEFINE d == I2c!set_scl(c, FALSE)
<1>1. c \in I2cChip /\ c.bit \in 0 .. Bits + 1 /\ Bits \in Nat \ {0}
  BY I2cSizes DEF Deaf, I2cChip
<1>2. CASE ~c.scl
  <2>1. d = c
    BY <1>2 DEF I2c!set_scl
  <2>2. c.bit <= Bits
    BY <1>2 DEF Deaf
  <2>3. (IF c.bit = Bits + 1 THEN 0 ELSE c.bit) = c.bit
    BY <1>1, <2>2
  <2>. HIDE DEF d
  <2>. QED
    BY <2>1, <2>3 DEF d
<1>3. CASE c.scl
  <2> DEFINE f == I2c!Fall(c)
  <2>1. d = [f EXCEPT !.scl = FALSE]
    BY <1>3 DEF I2c!set_scl
  <2>2. f \in I2cChip /\ f.phase = "send" /\ f.bit = (IF c.bit = Bits + 1 THEN 0 ELSE c.bit)
    <3>1. CASE c.bit < Bits
      <4>1. PICK y \in BOOLEAN : y = ~I2c!BitOf(c.mem[c.ptr], c.bit)
        BY DEF I2c!BitOf
      <4>2. f = [c EXCEPT !.pull = y]
        BY <1>1, <3>1, <4>1 DEF I2c!Fall, I2c!Takes
      <4>. HIDE DEF f
      <4>3. f \in I2cChip /\ f.phase = "send" /\ f.bit = c.bit
        BY <1>1, <4>2 DEF I2cChip
      <4>. QED
        BY <1>1, <3>1, <4>3
    <3>2. CASE c.bit = Bits
      <4>1. f = [c EXCEPT !.pull = FALSE]
        BY <1>1, <3>2 DEF I2c!Fall, I2c!Takes
      <4>. HIDE DEF f
      <4>2. f \in I2cChip /\ f.phase = "send" /\ f.bit = c.bit
        BY <1>1, <4>1 DEF I2cChip
      <4>. QED
        BY <1>1, <3>2, <4>2
    <3>3. CASE c.bit = Bits + 1
      <4> DEFINE p == (c.ptr + 1) % Size
      <4>1. f = I2c!Send(c, p)
        BY <1>1, <3>3 DEF I2c!Fall, I2c!Takes
      <4>2. p \in Addr
        <5>1. PICK n \in Nat : n = c.ptr + 1
          BY <1>1, I2cSizes DEF I2cChip
        <5>2. n % Size \in 0 .. Size - 1
          BY I2cSizes, DivMod
        <5>. QED
          BY <5>1, <5>2, I2cSizes
      <4>. HIDE DEF p, f
      <4>3. f \in I2cChip /\ f.phase = "send" /\ f.bit = 0
        BY <1>1, <4>1, <4>2, I2cSend
      <4>. QED
        BY <3>3, <4>3
    <3>4. c.bit < Bits \/ c.bit = Bits \/ c.bit = Bits + 1
      BY <1>1
    <3>. QED
      BY <3>1, <3>2, <3>3, <3>4
  <2>. HIDE DEF d, f
  <2>3. d.phase = f.phase /\ d.bit = f.bit
    BY <2>1, <2>2 DEF I2cChip
  <2>. QED
    BY <2>2, <2>3 DEF d
<1>. QED
  BY <1>2, <1>3

LEMMA SendingRises ==
  ASSUME NEW c, Deaf(c), c.phase = "send", ~c.scl
  PROVE  LET d == I2c!set_scl(c, TRUE)
         IN  d.phase = "send" => /\ d.bit = c.bit + 1 /\ d.pull = c.pull
<1> DEFINE d == I2c!set_scl(c, TRUE)
           b == c.bit + 1
<1>1. c \in I2cChip /\ c.bit \in 0 .. Bits /\ Bits \in Nat \ {0}
  BY I2cSizes DEF Deaf, I2cChip
<1>2. CASE c.bit = Bits /\ I2c!Line(c)
  <2> DEFINE i == I2c!Idle(c)
  <2>1. d = [i EXCEPT !.scl = TRUE]
    BY <1>2 DEF I2c!set_scl, I2c!Rise, I2c!Takes
  <2>2. i \in I2cChip /\ i.phase = "idle"
    BY <1>1, I2cIdle
  <2>. HIDE DEF d, i
  <2>3. d.phase = "idle"
    BY <2>1, <2>2 DEF I2cChip
  <2>. QED
    BY <2>3 DEF d
<1>3. CASE ~(c.bit = Bits /\ I2c!Line(c))
  <2>1. I2c!Rise(c) = [c EXCEPT !.bit = b]
    BY <1>3 DEF I2c!Rise, I2c!Takes
  <2>2. d = [c EXCEPT !.bit = b, !.scl = TRUE]
    BY <2>1 DEF I2c!set_scl
  <2>3. b \in 0 .. Bits + 1
    BY <1>1
  <2>. HIDE DEF d, b
  <2>4. d.bit = b /\ d.pull = c.pull
    BY <1>1, <2>2, <2>3 DEF I2cChip
  <2>. QED
    BY <2>4 DEF d, b
<1>. QED
  BY <1>2, <1>3

LEMMA SendingSda ==
  ASSUME NEW c, Deaf(c), ~c.scl, NEW x \in BOOLEAN
  PROVE  LET d == I2c!set_sda(c, x)
         IN  d.phase = c.phase /\ d.bit = c.bit /\ d.pull = c.pull
<1>1. I2c!set_sda(c, x) = [c EXCEPT !.sda = x]
  BY DEF I2c!set_sda
<1>. QED
  BY <1>1 DEF Deaf, I2cChip

\* One bit of the master's moves the chip on by one of its own.
LEMMA BitCounts ==
  ASSUME NEW c, Deaf(c), NEW x \in BOOLEAN
  PROVE  LET e == I2c!SendBit(c, x)
         IN  e.phase = "send" =>
               c.phase = "send" /\ e.bit = (IF c.bit = Bits + 1 THEN 1 ELSE c.bit + 1)
<1> DEFINE d1 == I2c!set_scl(c, FALSE)
           d2 == I2c!set_sda(d1, x)
           d3 == I2c!set_scl(d2, TRUE)
<1>1. d3 = I2c!SendBit(c, x)
  BY DEF I2c!SendBit
<1>2. DeafTo(c, I2c!SendBit(c, x))
  BY DeafBit
<1>3. CASE c.phase = "idle"
  BY <1>2, <1>3 DEF DeafTo
<1>4. CASE c.phase = "send"
  <2>1. DeafTo(c, d1) /\ d1.scl = FALSE
    BY DeafScl
  <2>2. d1.phase = "send" /\ d1.bit = (IF c.bit = Bits + 1 THEN 0 ELSE c.bit)
    BY <1>4, SendingFalls
  <2>. HIDE DEF d1
  <2>3. DeafTo(d1, d2) /\ d2.scl = FALSE
    BY <2>1, DeafSda DEF DeafTo
  <2>4. d2.phase = d1.phase /\ d2.bit = d1.bit
    BY <2>1, SendingSda DEF DeafTo
  <2>. HIDE DEF d2
  <2>5. d3.phase = "send" => d3.bit = d2.bit + 1
    BY <2>2, <2>3, <2>4, SendingRises DEF DeafTo
  <2>. HIDE DEF d3
  <2>6. d3.phase = "send" => d3.bit = (IF c.bit = Bits + 1 THEN 1 ELSE c.bit + 1)
    BY <2>2, <2>4, <2>5
  <2>. QED
    BY <1>1, <1>4, <2>6
<1>. QED
  BY <1>3, <1>4 DEF Deaf

\* Where n bits of the master's take a chip that is k bits into a byte.
Turned(k, n) == IF k + n <= Bits + 1 THEN k + n ELSE k + n - (Bits + 1)

LEMMA BitsCount ==
  ASSUME NEW c, Deaf(c), c.phase = "send", c.bit \in 1 .. Bits, NEW v
  PROVE  LET e == I2c!SendBits(c, v) IN e.phase = "send" => e.bit = c.bit
<1> DEFINE s == I2c!Sent(c, v)
           good == {n \in 0 .. Bits : /\ Deaf(s[n])
                                      /\ s[n].phase = "send" => s[n].bit = Turned(c.bit, n)}
<1>1. s = [n \in 0 .. Bits |-> IF n = 0 THEN c ELSE I2c!SendBit(s[n - 1], I2c!BitOf(v, n - 1))]
  BY SentRec
<1>. HIDE DEF s
<1>2. PICK k \in 1 .. Bits : k = c.bit
  OBVIOUS
<1>3. Bits \in Nat
  BY I2cSizes
<1>4. 0 \in good
  <2>1. s[0] = c /\ 0 \in 0 .. Bits
    BY <1>1, <1>3
  <2>2. Turned(c.bit, 0) = k
    BY <1>2, <1>3 DEF Turned
  <2>. QED
    BY <1>2, <2>1, <2>2
<1>5. ASSUME NEW n \in 0 .. Bits - 1, n \in good
      PROVE  n + 1 \in good
  <2>1. PICK m \in 0 .. Bits : m = n + 1 /\ m # 0 /\ m - 1 = n
    BY <1>3
  <2>2. PICK x \in BOOLEAN : x = I2c!BitOf(v, n)
    BY DEF I2c!BitOf
  <2>3. s[m] = I2c!SendBit(s[m - 1], I2c!BitOf(v, m - 1))
    BY <1>1, <2>1
  <2>4. s[m] = I2c!SendBit(s[n], x)
    BY <2>1, <2>2, <2>3
  <2>5. Deaf(s[n]) /\ (s[n].phase = "send" => s[n].bit = Turned(k, n))
    BY <1>2, <1>5
  <2>6. Deaf(s[m])
    BY <2>4, <2>5, DeafBit DEF DeafTo
  <2>7. s[m].phase = "send" =>
          /\ s[n].phase = "send"
          /\ s[m].bit = (IF s[n].bit = Bits + 1 THEN 1 ELSE s[n].bit + 1)
    BY <2>4, <2>5, BitCounts
  <2>8. (IF Turned(k, n) = Bits + 1 THEN 1 ELSE Turned(k, n) + 1) = Turned(k, m)
    BY <1>3, <2>1 DEF Turned
  <2>9. s[m].phase = "send" => s[m].bit = Turned(c.bit, m)
    BY <1>2, <2>5, <2>7, <2>8
  <2>. QED
    BY <2>1, <2>6, <2>9
<1>6. Bits \in good
  <2>. HIDE DEF good
  <2>. QED
    BY <1>3, <1>4, <1>5, CountUp
<1> DEFINE d == s[Bits]
           e == I2c!SendBit(d, TRUE)
<1>7. Deaf(d) /\ (d.phase = "send" => d.bit = Turned(k, Bits))
  BY <1>2, <1>6
<1>8. I2c!SendBits(c, v) = e
  BY DEF I2c!SendBits, s
<1>. HIDE DEF d
<1>9. e.phase = "send" =>
        d.phase = "send" /\ e.bit = (IF d.bit = Bits + 1 THEN 1 ELSE d.bit + 1)
  BY <1>7, BitCounts
<1>10. (IF Turned(k, Bits) = Bits + 1 THEN 1 ELSE Turned(k, Bits) + 1) = k
  BY <1>3 DEF Turned
<1>. HIDE DEF e
<1>. QED
  BY <1>2, <1>7, <1>8, <1>9, <1>10

\* A chip that waits for the next poll: it is idle, or in the middle of a byte.
AtPoll(c) ==
  /\ Deaf(c) /\ c.scl = TRUE /\ c.sda = TRUE
  /\ c.phase = "send" => c.bit \in 1 .. Bits

LEMMA StopCounts ==
  ASSUME NEW c, Deaf(c), ~c.scl
  PROVE  LET d == I2c!i2c_stop(c)
         IN  AtPoll(d) /\ (d.phase = "send" => c.phase = "send" /\ d.bit = c.bit + 1)
<1> DEFINE c1 == I2c!set_sda(c, FALSE)
           c2 == I2c!set_scl(c1, TRUE)
           c3 == [c2 EXCEPT !.sda = TRUE]
           i == I2c!Idle(c3)
           d == I2c!set_sda(c2, TRUE)
<1>1. d = I2c!i2c_stop(c)
  BY DEF I2c!i2c_stop
<1>2. DeafTo(c, I2c!i2c_stop(c)) /\ I2c!i2c_stop(c).scl = TRUE /\ I2c!i2c_stop(c).sda = TRUE
  BY StopDeaf
<1>3. CASE c.phase = "idle"
  BY <1>2, <1>3 DEF DeafTo, AtPoll
<1>4. CASE c.phase = "send"
  <2>1. DeafTo(c, c1) /\ c1.sda = FALSE /\ c1.scl = FALSE
    BY DeafSda
  <2>2. c1.phase = "send" /\ c1.bit = c.bit /\ c1.pull = c.pull
    BY <1>4, SendingSda
  <2>3. c.bit \in 0 .. Bits /\ (c.bit = Bits => ~c.pull) /\ Bits \in Nat
    BY <1>4, I2cSizes DEF Deaf, I2cChip
  <2>. HIDE DEF c1
  <2>4. DeafTo(c1, c2) /\ c2.scl = TRUE /\ c2.sda = FALSE
    BY <2>1, DeafScl DEF DeafTo
  <2>5. c2.phase = "send" => c2.bit = c1.bit + 1 /\ c2.pull = c1.pull
    BY <2>1, <2>2, SendingRises DEF DeafTo
  <2>. HIDE DEF c2
  <2>6. /\ c3 \in I2cChip /\ c3.phase = c2.phase /\ c3.bit = c2.bit /\ c3.pull = c2.pull
        /\ c3.sda = TRUE
    BY <2>4 DEF DeafTo, Deaf, I2cChip
  <2>7. ~I2c!Line(c2)
    BY <2>4 DEF I2c!Line
  <2>8. d = IF I2c!Line(c3) THEN I2c!End(c3) ELSE c3
    BY <2>4, <2>7 DEF I2c!set_sda
  <2>. HIDE DEF c3, d
  <2>9. c3.phase # "data"
    BY <2>4, <2>6 DEF DeafTo, Deaf
  <2>10. d.phase = "send" => d = c3 /\ c3.pull
    <3>1. i.phase = "idle"
      BY <2>6, I2cIdle
    <3>2. I2c!End(c3) = i
      BY <2>9 DEF I2c!End
    <3>3. ~I2c!Line(c3) => c3.pull
      BY <2>6 DEF I2c!Line
    <3>. QED
      BY <2>8, <3>1, <3>2, <3>3
  <2>11. d.phase = "send" => d.bit = c.bit + 1 /\ c.bit # Bits
    BY <2>2, <2>3, <2>5, <2>6, <2>10
  <2>12. d.phase = "send" => d.bit \in 1 .. Bits
    BY <2>3, <2>11
  <2>. QED
    BY <1>1, <1>2, <1>4, <2>11, <2>12 DEF DeafTo, AtPoll
<1>. QED
  BY <1>3, <1>4 DEF Deaf

LEMMA StopAtPoll ==
  ASSUME NEW c, (Deaf(c) /\ ~c.scl) \/ (\E ph \in Taking : Hears(c, ph))
  PROVE  AtPoll(I2c!i2c_stop(c))
<1>1. CASE Deaf(c) /\ ~c.scl
  BY <1>1, StopCounts
<1>2. ASSUME NEW ph \in Taking, Hears(c, ph)
      PROVE  AtPoll(I2c!i2c_stop(c))
  <2> DEFINE d == I2c!i2c_stop(c)
  <2>1. Deaf(d) /\ d.phase = "idle" /\ d.scl = TRUE /\ d.sda = TRUE
    BY <1>2, StopTaking
  <2>. HIDE DEF d
  <2>. QED
    BY <2>1 DEF AtPoll, d
<1>. QED
  BY <1>1, <1>2

\* A start condition that the chip does not notice takes it no further.
LEMMA StartCounts ==
  ASSUME NEW c, AtPoll(c), c.phase = "send"
  PROVE  LET d == I2c!i2c_start(c)
         IN  \/ Hears(d, "dev")
             \/ Deaf(d) /\ d.scl = FALSE /\ d.phase = "send" /\ d.bit = c.bit
<1> DEFINE c3 == I2c!set_sda(c, FALSE)
           c4 == I2c!set_scl(c3, FALSE)
<1>1. c \in I2cChip /\ c.scl = TRUE /\ c.sda = TRUE /\ c.bit \in 1 .. Bits /\ Bits \in Nat
  BY I2cSizes DEF AtPoll, Deaf
<1>2. c4 = I2c!i2c_start(c)
  <2>1. [c EXCEPT !.sda = TRUE] = c
    BY <1>1 DEF I2cChip
  <2>2. I2c!set_sda(c, TRUE) = IF FALSE THEN c ELSE [c EXCEPT !.sda = TRUE]
    BY <2>1 DEF I2c!set_sda
  <2>3. I2c!set_scl(c, TRUE) = c
    BY <1>1 DEF I2c!set_scl
  <2>. QED
    BY <2>1, <2>2, <2>3 DEF I2c!i2c_start
<1>3. CASE ~c.pull
  BY <1>1, <1>2, <1>3, StartSeen
<1>4. CASE c.pull
  <2>1. c3 = [c EXCEPT !.sda = FALSE]
    <3>1. ~I2c!Line(c) /\ ~I2c!Line([c EXCEPT !.sda = FALSE])
      BY <1>1, <1>4 DEF I2c!Line, I2cChip
    <3>. QED
      BY <3>1 DEF I2c!set_sda
  <2>2. /\ c3 \in I2cChip /\ c3.phase = "send" /\ c3.latch = c.latch /\ c3.scl = TRUE
        /\ c3.bit = c.bit
    <3>. HIDE DEF c3
    <3>. QED
      BY <1>1, <2>1 DEF I2cChip
  <2>. HIDE DEF c3
  <2>3. Deaf(c3)
    BY <2>2 DEF AtPoll, Deaf
  <2>4. DeafTo(c3, c4) /\ c4.scl = FALSE
    BY <2>3, DeafScl
  <2>5. c4.phase = "send" /\ c4.bit = (IF c3.bit = Bits + 1 THEN 0 ELSE c3.bit)
    BY <2>2, <2>3, SendingFalls
  <2>6. c4.bit = c.bit
    <3>1. c.bit # Bits + 1
      BY <1>1
    <3>. HIDE DEF c4
    <3>. QED
      BY <2>2, <2>5, <3>1
  <2>. HIDE DEF c4
  <2>. QED
    BY <1>2, <2>4, <2>5, <2>6 DEF DeafTo
<1>. QED
  BY <1>3, <1>4

\* A poll moves a chip that does not notice it on by one bit.
LEMMA PollCounts ==
  ASSUME NEW c, AtPoll(c)
  PROVE  LET d == I2c!Polled(c)
         IN  /\ AtPoll(d)
             /\ d.phase = "send" => c.phase = "send" /\ d.bit = c.bit + 1
<1> DEFINE d1 == I2c!i2c_start(c)
           u == I2c!SendBits(d1, EEPROM_ADDR)
           d2 == I2c!i2c_send_byte(d1, EEPROM_ADDR)
           d3 == I2c!i2c_stop(d2)
<1>1. I2c!Polled(c) = d3
  BY DEF I2c!Polled
<1>2. AtRest(c, I2c!Polled(c))
  BY PollRests DEF AtPoll, Ready
<1>3. CASE I2c!Polled(c).phase = "idle"
  BY <1>2, <1>3 DEF AtRest, AtPoll
<1>4. CASE I2c!Polled(c).phase = "send"
  <2>1. c.phase = "send" /\ c.bit \in 1 .. Bits /\ Bits \in Nat
    BY <1>2, <1>4, I2cSizes DEF AtRest, AtPoll, Deaf
  <2>2. \/ Hears(d1, "dev") /\ d1.latch = NoBytes
        \/ Deaf(d1) /\ d1.scl = FALSE
    BY Start DEF AtPoll, Ready
  <2>3. \/ Hears(d1, "dev")
        \/ Deaf(d1) /\ d1.scl = FALSE /\ d1.phase = "send" /\ d1.bit = c.bit
    BY <2>1, StartCounts
  <2>. HIDE DEF d1
  <2>4. CASE Deaf(d1) /\ d1.scl = FALSE
    <3>0. d1.phase = "send" /\ d1.bit = c.bit
      BY <2>3, <2>4 DEF Hears, Deaf
    <3>1. DeafTo(d1, u)
      <4> DEFINE d == I2c!Sent(d1, EEPROM_ADDR)[Bits]
                 e == I2c!SendBit(d, TRUE)
      <4>1. DeafTo(d1, d)
        BY <2>4, DeafSent
      <4>. HIDE DEF d
      <4>2. DeafTo(d, e)
        BY <4>1, DeafBit DEF DeafTo
      <4>3. u = e
        BY DEF I2c!SendBits, d
      <4>. HIDE DEF e
      <4>. QED
        BY <4>1, <4>2, <4>3, DeafChain
    <3>2. u.phase = "send" => u.bit = d1.bit
      BY <2>1, <2>4, <3>0, BitsCount
    <3>3. d2 = I2c!set_scl(u, FALSE)
      BY DEF I2c!i2c_send_byte
    <3>. HIDE DEF u, d2
    <3>4. DeafTo(u, d2) /\ d2.scl = FALSE
      BY <3>1, <3>3, DeafScl DEF DeafTo
    <3>5. u.phase = "send" => d2.bit = (IF u.bit = Bits + 1 THEN 0 ELSE u.bit)
      BY <3>1, <3>3, SendingFalls DEF DeafTo
    <3>6. AtPoll(d3) /\ (d3.phase = "send" => d2.phase = "send" /\ d3.bit = d2.bit + 1)
      BY <3>4, StopCounts DEF DeafTo
    <3>. HIDE DEF d3
    <3>7. d3.phase = "send" /\ d2.phase = "send" /\ u.phase = "send"
      BY <1>1, <1>4, <3>1, <3>4, <3>6 DEF DeafTo, Deaf
    <3>8. d3.bit = c.bit + 1
      BY <2>1, <3>0, <3>2, <3>5, <3>6, <3>7
    <3>. QED
      BY <1>1, <2>1, <3>6, <3>8
  <2>5. CASE Hears(d1, "dev") /\ d1.latch = NoBytes
    <3>1. /\ d1.busy => Deaf(d2) /\ d2.phase = "idle" /\ d2.scl = FALSE
          /\ ~d1.busy => Hears(d2, "high")
      <4>1. /\ d2.mem = d1.mem /\ d2.busy = d1.busy
            /\ d1.busy => Deaf(d2) /\ d2.phase = "idle" /\ d2.scl = FALSE
            /\ ~d1.busy => /\ IF EEPROM_ADDR % 2 = 1 THEN Sends(d2) ELSE Hears(d2, "high")
                           /\ d2.ptr = d1.ptr /\ d2.latch = NoBytes
        BY <2>5, DeviceAddress, DevByte
      <4>. HIDE DEF d2
      <4>. QED
        BY <4>1, DeviceAddress
    <3>. HIDE DEF d2
    <3>2. d1.busy => DeafTo(d2, d3)
      BY <3>1, StopDeaf
    <3>3. ~d1.busy => Deaf(d3) /\ d3.phase = "idle"
      BY <3>1, StopTaking DEF Taking
    <3>. HIDE DEF d3
    <3>. QED
      BY <1>1, <1>4, <3>1, <3>2, <3>3 DEF DeafTo
  <2>. QED
    BY <2>2, <2>4, <2>5
<1>. QED
  BY <1>2, <1>3, <1>4 DEF AtRest, Deaf

\* A chip that is idle and ready answers.
LEMMA IdleAnswers ==
  ASSUME NEW c, AtPoll(c), c.phase = "idle", ~c.busy
  PROVE  ~I2c!extmem_write_isbusy(c)
<1> DEFINE d == I2c!i2c_start(c)
           x == I2c!Sent(d, EEPROM_ADDR)[Bits]
           y == I2c!set_scl(x, FALSE)
           up == I2c!set_scl(I2c!set_sda(y, TRUE), TRUE)
<1>1. I2c!extmem_write_isbusy(c) = I2c!Line(up)
  BY DEF I2c!extmem_write_isbusy, I2c!i2c_sent_nack, I2c!SendBits, I2c!SendBit
<1>2. Hears(d, "dev") /\ d.busy = c.busy
  BY Start DEF AtPoll, Ready
<1>. HIDE DEF d
<1>3. x \in I2cChip /\ SameByte(d, x) /\ x.bit = Bits /\ x.reg = EEPROM_ADDR /\ ~x.pull /\ x.scl
  BY <1>2, SentHeard, DeviceAddress DEF Hears, Taking
<1>. HIDE DEF x
<1>4. y = [x EXCEPT !.pull = TRUE, !.scl = FALSE]
  <2>1. I2c!Takes(x) /\ x.phase = "dev" /\ x.bit = Bits /\ x.bit # Bits + 1
    BY <1>2, <1>3, I2cSizes DEF I2c!Takes, SameByte, Hears
  <2>2. I2c!Fall(x) = I2c!Taken(x)
    BY <2>1 DEF I2c!Fall
  <2>3. I2c!Taken(x) = [x EXCEPT !.pull = TRUE]
    BY <1>2, <1>3, <2>1, DeviceAddress DEF I2c!Taken, SameByte
  <2>4. x.scl = TRUE
    BY <1>3 DEF I2cChip
  <2>. QED
    BY <2>2, <2>3, <2>4 DEF I2c!set_scl
<1>. HIDE DEF y
<1>5. y \in I2cChip /\ y.phase \in Taking /\ y.bit = Bits /\ y.pull = TRUE /\ y.scl = FALSE
  BY <1>2, <1>3, <1>4 DEF I2cChip, SameByte, Hears, Taking
<1>6. up.pull = TRUE
  BY <1>5, AckGiven
<1>. HIDE DEF up
<1>. QED
  BY <1>1, <1>6 DEF I2c!Line

-----------------------------------------------------------------------------
\* The polls of the handlers and of the driver.

Waiting == {"writePoll", "erasing", "erasePoll"}

\* Each poll that found a ready chip busy moved it on by a bit.
PollCount ==
  /\ stage \in Waiting => /\ AtPoll(chip) /\ polls \in 0 .. Bits
                          /\ chip.phase = "send" => polls < chip.bit
  /\ stage \notin Waiting => polls = 0

LEMMA NoPolls ==
  ASSUME polls' = 0, stage' \in Waiting => AtPoll(chip')
  PROVE  PollCount'
<1>1. 0 \in 0 .. Bits /\ \A b \in 1 .. Bits : 0 < b
  BY I2cSizes
<1>. QED
  BY <1>1 DEF PollCount, AtPoll

LEMMA PageEnds ==
  ASSUME I2cInv, PollCount, WriteFlashByte, TwoByteAddress
  PROVE  PollCount'
<1> DEFINE c0 == IF pageOpen THEN chip ELSE extmem_write_start(chip, addr)
           s == IF pageOpen THEN sound ELSE Listening
<1>1. stage = "write" /\ polls' = polls
  BY DEF WriteFlashByte
<1>2. PageOnBus(c0, s)
  BY <1>1, I2cPageBegun
<1>3. polls' = 0
  BY <1>1 DEF PollCount, Waiting
<1>4. PICK b \in Data \cup {Erased} :
        \/ chip' = extmem_write_stop(extmem_write_byte(c0, b))
        \/ stage' = stage
  BY DEF WriteFlashByte
<1> DEFINE d == I2c!i2c_send_byte(c0, b)
<1>5. chip' = I2c!i2c_stop(d) \/ stage' = stage
  BY <1>4, I2cDriver DEF I2cInv
<1>. HIDE DEF c0, s
<1>6. ByteOnBus(d, [pend EXCEPT ![addr] = b], s)
  <2>1. b \in Byte /\ addr \in Addr
    BY <1>1, <1>4, DriverBytes, I2cSizes DEF I2cInv, HandlersType
  <2>. QED
    BY <1>2, <2>1, I2cByteTaken
<1>. HIDE DEF d
<1>7. AtPoll(I2c!i2c_stop(d))
  BY <1>6, StopAtPoll DEF ByteOnBus, Taking
<1>8. stage' \in Waiting => AtPoll(chip')
  BY <1>1, <1>5, <1>7 DEF Waiting
<1>. QED
  BY <1>3, <1>8, NoPolls

LEMMA EraseEnds ==
  ASSUME I2cInv, PollCount, EraseFlash, TwoByteAddress
  PROVE  PollCount'
<1>1. PICK a \in Addr :
        /\ Command(IF AtBuild THEN "erasePoll" ELSE "erasing", <<a, 0>>)
        /\ chip' = extmem_erase(chip, a)
  BY DEF EraseFlash
<1>2. stage = "prompt" /\ polls' = polls
  BY <1>1 DEF Command
<1>3. polls' = 0
  BY <1>2 DEF PollCount, Waiting
<1>4. Ready(chip) /\ ~AtBuild
  BY <1>2 DEF I2cInv, OnTheBus, Reading
<1> DEFINE b == a - (a % PageSize)
           d == I2c!Select(chip, b)
<1>5. chip' = I2c!i2c_stop(d)
  BY <1>1, <1>4, I2cDriver DEF I2c!extmem_erase
<1>6. b \in Addr
  BY PageStart
<1>. HIDE DEF b
<1>7. Opened(chip, d, b)
  BY <1>4, <1>6, SelectOpens DEF TwoByteAddress
<1>. HIDE DEF d
<1>8. AtPoll(chip')
  BY <1>5, <1>7, StopAtPoll DEF Opened, Taking
<1>. QED
  BY <1>3, <1>8, NoPolls

LEMMA PollsCounted ==
  ASSUME I2cInv, PollCount,
         \/ PollAgain \/ WriteFlashPolled \/ WriteFlashPollAbort
         \/ EraseWaited \/ EraseFlashPolled \/ EraseFlashAbort
  PROVE  PollCount'
<1>1. PICK f \in Waiting, y \in BOOLEAN : Poll(f, y)
  BY DEF PollAgain, WriteFlashPolled, WriteFlashPollAbort, EraseWaited,
     EraseFlashPolled, EraseFlashAbort, Waiting
<1> DEFINE d == I2c!Polled(chip)
<1>2. stage \in Waiting /\ chip' = d /\ y = I2c!extmem_write_isbusy(chip)
  <2>1. ~AtBuild
    BY DEF I2cInv
  <2>. QED
    BY <1>1, <2>1, I2cDriver DEF Poll, extmem_write_isbusy
<1>3. /\ AtPoll(chip) /\ polls \in 0 .. Bits
      /\ chip.phase = "send" => polls < chip.bit
  BY <1>2 DEF PollCount
<1>4. /\ AtPoll(d)
      /\ d.phase = "send" => chip.phase = "send" /\ d.bit = chip.bit + 1
  BY <1>3, PollCounts
<1>. HIDE DEF d
<1>5. CASE polls' = 0
  BY <1>2, <1>4, <1>5, NoPolls
<1>6. CASE polls' # 0
  <2>1. PollAgain
    BY <1>6 DEF WriteFlashPolled, WriteFlashPollAbort, EraseWaited, EraseFlashPolled,
       EraseFlashAbort, Return
  <2>2. ~chip.busy /\ polls' = polls + 1 /\ stage' = stage
    BY <1>6, <2>1 DEF PollAgain
  <2>3. I2c!extmem_write_isbusy(chip)
    <3>1. AtBuild = FALSE
      BY DEF I2cInv
    <3>2. \E g \in Waiting : Poll(g, TRUE)
      BY <2>1 DEF PollAgain, Waiting
    <3>. QED
      BY <3>1, <3>2 DEF Poll, extmem_write_isbusy
  <2>4. chip.phase = "send"
    BY <1>3, <2>2, <2>3, IdleAnswers DEF AtPoll, Deaf
  <2>5. chip.bit \in 1 .. Bits /\ polls < chip.bit /\ Bits \in Nat
    BY <1>3, <2>4, I2cSizes DEF AtPoll
  <2>6. polls' \in 0 .. Bits /\ polls' < chip.bit + 1
    BY <1>3, <2>2, <2>5
  <2>7. chip'.phase = "send" => polls' < chip'.bit
    BY <1>2, <1>4, <2>6
  <2>. QED
    BY <1>2, <1>4, <2>2, <2>6, <2>7 DEF PollCount
<1>. QED
  BY <1>5, <1>6

LEMMA PollCountStep ==
  ASSUME I2cInv, TwoByteAddress, PollCount, [DriversNext]_driverVars
  PROVE  PollCount'
<1>1. CASE WriteFlashByte
  BY <1>1, PageEnds
<1>2. CASE EraseFlash
  BY <1>2, EraseEnds
<1>3. CASE \/ PollAgain \/ WriteFlashPolled \/ WriteFlashPollAbort
           \/ EraseWaited \/ EraseFlashPolled \/ EraseFlashAbort
  BY <1>3, PollsCounted
<1>4. CASE WriteFlash \/ StartReading
  <2>1. stage = "prompt" /\ stage' \in {"write"} \cup Reading /\ polls' = polls
    BY <1>4 DEF WriteFlash, StartReading, Command, Reading
  <2>. QED
    BY <2>1, NoPolls DEF PollCount, Waiting, Reading
<1>5. CASE WriteFlashAbort \/ ReadStop \/ WatchdogReset
  <2>1. stage' = "prompt" /\ polls' = 0
    BY <1>5 DEF WriteFlashAbort, ReadStop, WatchdogReset, Return
  <2>. QED
    BY <2>1, NoPolls DEF Waiting
<1>6. CASE ReadByte
  <2>1. stage \in Reading /\ stage' = stage /\ polls' = polls
    BY <1>6 DEF ReadByte, Reading
  <2>. QED
    BY <2>1, NoPolls DEF PollCount, Waiting, Reading
<1>7. CASE CycleDone
  <2>1. chip' = [chip EXCEPT !.busy = FALSE] /\ stage' = stage /\ polls' = polls
    BY <1>7 DEF CycleDone
  <2>2. CASE stage \in Waiting
    <3>1. AtPoll(chip) /\ chip \in I2cChip
      BY <2>2 DEF PollCount, AtPoll, Deaf
    <3>2. /\ chip' \in I2cChip /\ chip'.phase = chip.phase /\ chip'.latch = chip.latch
          /\ chip'.pull = chip.pull /\ chip'.scl = chip.scl /\ chip'.sda = chip.sda
          /\ chip'.bit = chip.bit
      BY <2>1, <3>1 DEF I2cChip
    <3>3. AtPoll(chip')
      BY <3>1, <3>2 DEF AtPoll, Deaf
    <3>. QED
      BY <2>1, <2>2, <3>2, <3>3 DEF PollCount
  <2>3. CASE stage \notin Waiting
    BY <2>1, <2>3, NoPolls DEF PollCount
  <2>. QED
    BY <2>2, <2>3
<1>8. CASE UNCHANGED driverVars
  BY <1>8 DEF driverVars, PollCount
<1>. QED
  BY <1>1, <1>2, <1>3, <1>4, <1>5, <1>6, <1>7, <1>8 DEF DriversNext

(***************************************************************************)
(* With either chip the polls of a chip that is ready come to an end, also *)
(* where an aborted read or a lookup left the I2C chip sending: after at   *)
(* most as many polls as a byte has bits the start condition of one of     *)
(* them is noticed or the chip finds no acknowledge.                       *)
(***************************************************************************)
THEOREM DriversPollsEnd == DriversSpec /\ Addressable => []PollsEnd
<1> DEFINE Counted == AtBuild \/ (~AtBuild /\ PollCount)
<1>1. DriversInit => Counted
  <2>1. ASSUME DriversInit PROVE PollCount
    BY <2>1 DEF DriversInit, PollCount, Waiting
  <2>. QED
    BY <2>1
<1>2. DriverInv /\ Counted /\ [DriversNext]_driverVars => Counted'
  <2>. SUFFICES ASSUME DriverInv, Counted, [DriversNext]_driverVars
                PROVE  Counted'
    OBVIOUS
  <2>1. CASE AtInv
    <3>1. AtInv'
      BY <2>1, AtStep
    <3>. QED
      BY <3>1 DEF AtInv, DriverType
  <2>2. CASE I2cInv /\ TwoByteAddress
    <3>1. PollCount
      BY <2>2 DEF I2cInv
    <3>2. I2cInv' /\ PollCount'
      BY <2>2, <3>1, I2cStep, PollCountStep
    <3>. QED
      BY <3>2 DEF I2cInv
  <2>. QED
    BY <2>1, <2>2 DEF DriverInv
<1>3. DriverInv /\ Counted => PollsEnd
  <2>1. AtInv => PollsEnd
    BY I2cSizes DEF AtInv, PollsEnd
  <2>2. I2cInv /\ Counted => PollsEnd
    BY I2cSizes DEF I2cInv, PollCount, PollsEnd
  <2>. QED
    BY <2>1, <2>2 DEF DriverInv
<1>. HIDE DEF Counted
<1>. QED
  BY <1>1, <1>2, <1>3, DriverInvariant, PTL DEF DriversSpec
=============================================================================
