--------------------------- MODULE TapecartProofs ---------------------------
(***************************************************************************)
(* Proofs about Tapecart, for every size of flash, page, sector and bank   *)
(* and any number of commands: type correctness, and the flash content     *)
(* and the replies of commands that are not cut short; then what may       *)
(* change, whatever is cut short.                                          *)
(***************************************************************************)
EXTENDS Tapecart, ModArithmetic

-----------------------------------------------------------------------------
\* The chip and its driver keep the record well-typed.

LEMMA NextInRange ==
  ASSUME NEW p \in Addr
  PROVE  NextInPage(p) \in Addr /\ NextInArray(p) \in Addr
  BY FlashAssumption, NextWraps DEF Addr, NextInPage, NextInArray

LEMMA LatchType ==
  ASSUME NEW c \in Flash, NEW b \in Byte
  PROVE  Latch(c, b) \in Flash
  BY NextInRange DEF Latch, Flash

LEMMA SwallowType ==
  ASSUME NEW c \in Flash
  PROVE  Swallow1(c) \in Flash /\ Swallow4(c) \in Flash
<1>1. \A x \in Flash : Swallow1(x) \in Flash
  BY LatchType DEF Swallow1, Byte
<1>. QED
  BY <1>1 DEF Swallow4

LEMMA BlankType == Blank \in [Addr -> Byte]
  BY DEF Blank, Byte

LEMMA ProgType ==
  ASSUME NEW m \in [Addr -> Byte], NEW l \in [Addr -> Byte]
  PROVE  ProgramAll(m, l) \in [Addr -> Byte]
  BY DEF ProgramAll, Prog, Byte

LEMMA OpenType ==
  ASSUME NEW c \in Flash, NEW op \in {"read", "program"}, NEW a \in Addr
  PROVE  Open(c, op, a) \in Flash
<1>1. CASE c.sel
  BY <1>1, SwallowType DEF Open
<1>2. CASE ~c.sel
  <2> DEFINE taken == IF c.busy \/ (op = "program" /\ ~c.wel) THEN "ignored" ELSE op
  <2>1. taken \in Ops
    BY DEF Ops
  <2>2. Open(c, op, a) =
          [c EXCEPT !.sel = TRUE, !.ptr = a, !.latch = Blank, !.op = taken]
    BY <1>2, Zenon DEF Open
  <2> HIDE DEF taken
  <2>. QED
    BY <2>1, <2>2, BlankType DEF Flash
<1>. QED
  BY <1>1, <1>2

LEMMA DeselectType ==
  ASSUME NEW c \in Flash
  PROVE  Deselect(c) \in Flash
<1>1. 0 \in Addr
  BY FlashAssumption DEF Addr
<1>. QED
  BY <1>1, BlankType, ProgType DEF Deselect, Flash, Ops

LEMMA WriteEnableType ==
  ASSUME NEW c \in Flash
  PROVE  send_writeenable(c) \in Flash
  BY SwallowType, DeselectType DEF send_writeenable, Flash

LEMMA ReadByteType ==
  ASSUME NEW c \in Flash
  PROVE  extmem_read_byte(c) \in Flash
<1>1. Erased \in Byte
  BY DEF Byte
<1>. QED
  BY <1>1, NextInRange, LatchType DEF extmem_read_byte, Flash

LEMMA EraseType ==
  ASSUME NEW c \in Flash, NEW a \in Addr
  PROVE  extmem_erase(c, a) \in Flash
  BY WriteEnableType DEF extmem_erase, EraseSector, Flash, Byte

\* The driver calls as the handlers use them.
LEMMA DriverType ==
  ASSUME NEW c \in Flash
  PROVE  /\ \A a \in Addr : extmem_read_start(c, a) \in Flash
         /\ \A a \in Addr : extmem_write_start(c, a) \in Flash
         /\ \A b \in Data : extmem_write_byte(c, b) \in Flash
         /\ extmem_read_stop(c) \in Flash
         /\ extmem_write_stop(c) \in Flash
<1>1. Data \subseteq Byte
  BY DEF Byte
<1>. QED
  BY <1>1, OpenType, WriteEnableType, LatchType, DeselectType
     DEF extmem_read_start, extmem_write_start, extmem_write_byte, extmem_read_stop,
         extmem_write_stop

\* Blocks, sectors and banks of the flash.

LEMMA BlockType ==
  ASSUME NEW b \in Blocks
  PROVE  /\ b[1] \in Addr
         /\ b[1] + b[2] \in 0 .. Size
         /\ b[1] < b[1] + b[2]
<1>1. b \in Addr \X (1 .. Size) /\ b[1] + b[2] <= Size
  BY CommandAssumption
<1>. QED
  BY <1>1, FlashAssumption DEF Addr

LEMMA EraseSectorType ==
  ASSUME NEW m \in [Addr -> Byte], NEW a \in Addr
  PROVE  EraseSector(m, a) \in [Addr -> Byte]
  BY DEF EraseSector, Byte

\* A bank is a whole number of sectors inside the flash.
LEMMA BankBounds ==
  ASSUME NEW a \in Addr
  PROVE  /\ Bank(a) \in Addr /\ Bank(a) + BankSize \in 0 .. Size
         /\ Bank(a) % EraseSize = 0 /\ (Bank(a) + BankSize) % EraseSize = 0
<1>1. a \in Nat /\ Size \in Nat /\ a < Size /\ BankSize \in Nat \ {0} /\ EraseSize \in Nat \ {0}
  BY FlashAssumption, CommandAssumption DEF Addr
<1>2. /\ Bank(a) \in Nat /\ Bank(a) % BankSize = 0
      /\ Bank(a) + BankSize <= Size
  BY <1>1, CommandAssumption, RoundDown DEF Bank
<1>3. Bank(a) % EraseSize = 0
  BY <1>1, <1>2, CommandAssumption, Divides
<1>4. (Bank(a) + BankSize) % EraseSize = 0
  BY <1>1, <1>2, <1>3, CommandAssumption, AddMultiple
<1>. QED
  BY <1>1, <1>2, <1>3, <1>4 DEF Addr

\* The next sector of a bank lies inside the bank.
LEMMA SectorFits ==
  ASSUME NEW a \in Nat, NEW e \in Nat, a % EraseSize = 0, e % EraseSize = 0, a < e
  PROVE  a + EraseSize <= e /\ (a + EraseSize) % EraseSize = 0
<1>1. EraseSize \in Nat \ {0}
  BY FlashAssumption
<1>2. a + EraseSize <= e
  <2>1. a - (a % EraseSize) + EraseSize <= e
    BY <1>1, RoundDown
  <2>. QED
    BY <1>1, <2>1
<1>3. (a + EraseSize) % EraseSize = 0
  <2>1. EraseSize % EraseSize = 0
    BY <1>1, Multiple
  <2>. QED
    BY <1>1, <2>1, AddMultiple
<1>. QED
  BY <1>2, <1>3

\* A sector-aligned address erases the EraseSize bytes from there.
LEMMA AlignedSector ==
  ASSUME NEW a \in Addr, a % EraseSize = 0
  PROVE  Sector(a) = Range2(a, a + EraseSize)
<1>1. EraseSize \in Nat \ {0} /\ Size \in Nat
  BY FlashAssumption
<1>2. \A b \in Addr : b - (b % EraseSize) = a <=> a <= b /\ b < a + EraseSize
  BY <1>1, BlockMembers DEF Addr
<1>3. a - (a % EraseSize) = a
  BY <1>1 DEF Addr
<1>. QED
  BY <1>2, <1>3 DEF Sector, Range2

-----------------------------------------------------------------------------
\* Type correctness, with how far each command is.

TInv == TypeOK /\ Progress

LEMMA InitTInv == Init => TInv
<1> SUFFICES ASSUME Init PROVE TInv
  OBVIOUS
<1>1. flash \in Flash /\ want \in [Addr -> Byte]
  <2>1. 0 \in Addr
    BY FlashAssumption DEF Addr
  <2>2. PICK b \in Data \cup {Erased} :
          flash = [mem |-> [a \in Addr |-> b], sel |-> FALSE, op |-> "none", ptr |-> 0,
                   latch |-> Blank, wel |-> FALSE, busy |-> FALSE]
    BY DEF Init
  <2>3. [a \in Addr |-> b] \in [Addr -> Byte]
    BY DEF Byte
  <2>. QED
    BY <2>1, <2>2, <2>3, BlankType DEF Init, Flash, Ops
<1>2. info \in [ofs : Addr, len : Nat] /\ saved \in [ofs : Addr, len : Nat] /\ req \in Infos
  BY CommandAssumption DEF Init
<1>3. 0 \in 0 .. Size /\ 0 \in 0 .. MaxCmds /\ 0 \in 0 .. Word - 1
  BY FlashAssumption, CommandAssumption, WordAssumption
<1>4. addr \in 0 .. Size /\ end \in 0 .. Size /\ cmds \in 0 .. MaxCmds /\ left \in 0 .. Word - 1
  BY <1>3 DEF Init
<1>. QED
  BY <1>1, <1>2, <1>4 DEF Init, TInv, TypeOK, Progress, Locations

LEMMA StepTInv == TInv /\ [Next]_allVars => TInv'
<1> SUFFICES ASSUME TInv, [Next]_allVars PROVE TInv'
  OBVIOUS
<1>a. Size \in Nat \ {0} /\ EraseSize \in Nat \ {0} /\ Word \in Nat \ {0} /\ MaxCmds \in Nat
  BY FlashAssumption, CommandAssumption, WordAssumption
<1>b. flash \in Flash /\ flash.op \in Ops /\ flash.ptr \in Addr
  BY DEF TInv, TypeOK, Flash
<1>c. Pending \subseteq Addr
  BY DEF Pending, PageOf
<1>d. addr \in 0 .. Size /\ end \in 0 .. Size
  BY DEF TInv, TypeOK
<1>1. CASE EnterCommand
  BY <1>1 DEF EnterCommand, TInv, TypeOK, Progress, Locations, cmdVars, history
<1>2. CASE ExitCommand /\ UNCHANGED left
  BY <1>2, <1>a DEF ExitCommand, Take, TInv, TypeOK, Progress, Locations, history
<1>3. CASE InfoCommand /\ UNCHANGED left
  BY <1>3, <1>a, <1>c DEF InfoCommand, Take, TInv, TypeOK, Progress, Locations
<1>4. ASSUME NEW b \in Blocks, WriteFlash(b[1], b[2]), UNCHANGED left
      PROVE  TInv'
  <2>1. Range2(b[1], b[1] + b[2]) \subseteq Addr
    BY DEF Range2
  <2>2. b[1] \in 0 .. Size /\ b[1] + b[2] \in 0 .. Size /\ b[1] <= b[1] + b[2]
    BY <1>a, BlockType DEF Addr
  <2>3. /\ addr' \in 0 .. Size /\ end' \in 0 .. Size /\ addr' <= end'
        /\ pc' = "write" /\ pageOpen' = FALSE /\ foot' \subseteq Addr
    BY <1>4, <1>c, <2>1, <2>2 DEF WriteFlash, Take
  <2>4. cmds' \in 0 .. MaxCmds
    BY <1>4, <1>a DEF WriteFlash, Take, TInv, TypeOK
  <2>. QED
    BY <1>4, <2>3, <2>4 DEF WriteFlash, TInv, TypeOK, Progress, Locations
<1>5. ASSUME NEW d \in Data, WriteFlashByte(d), UNCHANGED left
      PROVE  TInv'
  <2>1. addr \in Addr /\ addr + 1 <= end /\ addr + 1 \in 0 .. Size
    BY <1>5, <1>a, <1>d DEF WriteFlashByte, TInv, Progress, Addr
  <2>2. flash' \in Flash
    <3> DEFINE opened == IF pageOpen THEN flash ELSE extmem_write_start(flash, addr)
               stored == extmem_write_byte(opened, d)
    <3>1. opened \in Flash
      BY <1>b, <2>1, DriverType
    <3>2. stored \in Flash
      BY <3>1, DriverType
    <3>3. flash' = stored \/ flash' = extmem_write_stop(stored)
      BY <1>5 DEF WriteFlashByte
    <3>. QED
      BY <3>2, <3>3, DriverType
  <2>3. want' \in [Addr -> Byte]
    <3>1. Prog(want[addr], d) \in Byte
      BY <2>1 DEF Prog, Byte, TInv, TypeOK
    <3>. QED
      BY <1>5, <3>1 DEF WriteFlashByte, TInv, TypeOK
  <2>4. pageOpen' \in BOOLEAN /\ pc' \in {"write", "writePoll"}
    BY <1>5 DEF WriteFlashByte
  <2>5. pc' = "write" => addr' # end'
    BY <1>5 DEF WriteFlashByte
  <2>. QED
    BY <1>5, <2>1, <2>2, <2>3, <2>4, <2>5
       DEF WriteFlashByte, TInv, TypeOK, Progress, Locations
<1>6. ASSUME NEW b \in Blocks, EraseFlashBlock(b[1]), UNCHANGED left
      PROVE  TInv'
  <2>1. flash' \in Flash /\ want' \in [Addr -> Byte] /\ foot' \subseteq Addr
    BY <1>6, <1>b, <1>c, BlockType, EraseType, EraseSectorType
       DEF EraseFlashBlock, TInv, TypeOK, Sector
  <2>. QED
    BY <1>6, <1>a, <2>1 DEF EraseFlashBlock, Take, TInv, TypeOK, Progress, Locations
<1>7. ASSUME NEW b \in Blocks, EraseFlash64k(b[1]), UNCHANGED left
      PROVE  TInv'
  <2>1. /\ addr' \in Addr /\ end' \in 0 .. Size /\ addr' <= end'
        /\ addr' % EraseSize = 0 /\ end' % EraseSize = 0
    <3>1. BankSize \in Nat \ {0} /\ b[1] \in Addr
      BY CommandAssumption, BlockType
    <3>2. /\ Bank(b[1]) \in Addr /\ Bank(b[1]) + BankSize \in 0 .. Size
          /\ Bank(b[1]) % EraseSize = 0 /\ (Bank(b[1]) + BankSize) % EraseSize = 0
      BY <3>1, BankBounds
    <3>3. Bank(b[1]) <= Bank(b[1]) + BankSize
      BY <1>a, <3>1, <3>2 DEF Addr
    <3>. QED
      BY <1>7, <3>2, <3>3 DEF EraseFlash64k
  <2>2. want' \in [Addr -> Byte] /\ foot' \subseteq Addr
    BY <1>7, <1>c DEF EraseFlash64k, TInv, TypeOK, Range2, Byte
  <2>. QED
    BY <1>7, <1>a, <2>1, <2>2
       DEF EraseFlash64k, Take, TInv, TypeOK, Progress, Locations, Addr
<1>8. ASSUME NEW kind \in {"read", "crc"}, NEW b \in Blocks, ReadFlash(kind, b[1], b[2]),
             UNCHANGED left
      PROVE  TInv'
  <2>1. flash' \in Flash
    BY <1>8, <1>b, BlockType, DriverType DEF ReadFlash
  <2>. QED
    BY <1>8, <1>a, <1>c, <2>1, BlockType
       DEF ReadFlash, Take, TInv, TypeOK, Progress, Locations, Addr
<1>9. ASSUME NEW i \in Infos, WriteLoadinfo(i), UNCHANGED left
      PROVE  TInv'
  BY <1>9, <1>a, <1>c DEF WriteLoadinfo, Take, TInv, TypeOK, Progress, Locations
<1>10. CASE (LoadinfoOfs \/ LoadinfoLen \/ LoadinfoRest) /\ UNCHANGED left
  <2>1. req \in [ofs : Addr, len : Nat] /\ info \in [ofs : Addr, len : Nat]
    BY CommandAssumption DEF TInv, TypeOK
  <2>2. info' \in [ofs : Addr, len : Nat] /\ saved' \in [ofs : Addr, len : Nat]
    BY <1>10, <2>1 DEF LoadinfoOfs, LoadinfoLen, LoadinfoRest, TInv, TypeOK
  <2>. QED
    BY <1>10, <2>2 DEF LoadinfoOfs, LoadinfoLen, LoadinfoRest, TInv, TypeOK, Progress,
                       Locations, history
<1>11. CASE (AbortAtPrompt \/ Reply \/ WriteFlashAbort \/ WriteFlashDone \/ WriteFlashPoll
             \/ EraseBlockPoll \/ BankDone \/ LoadinfoAbort) /\ UNCHANGED left
  <2>1. /\ UNCHANGED <<flash, motor, cmdVars, want, foot, honest, left>>
        /\ pc' \in {"stream", "prompt", "write"}
        /\ pc' = "write" => pc = "writePoll"
        /\ cut' \in BOOLEAN
    BY <1>11 DEF AbortAtPrompt, Reply, WriteFlashAbort, WriteFlashDone, WriteFlashPoll,
                 EraseBlockPoll, BankDone, LoadinfoAbort, history, TInv, TypeOK
  <2>. QED
    BY <2>1 DEF TInv, TypeOK, Progress, Locations, cmdVars
<1>12. CASE BankErase /\ UNCHANGED left
  <2>1. addr \in Addr
    BY <1>12, <1>a, <1>d DEF BankErase, TInv, Progress, Addr
  <2>2. flash' \in Flash
    BY <1>12, <1>b, <2>1, EraseType DEF BankErase
  <2>3. addr + EraseSize <= end
    BY <1>12, <1>d, SectorFits DEF BankErase, TInv, Progress
  <2>. QED
    BY <1>12, <2>2, <2>3 DEF BankErase, TInv, TypeOK, Progress, Locations, cmdVars, history
<1>13. CASE BankPoll /\ UNCHANGED left
  <2>1. addr + EraseSize \in 0 .. Size /\ addr + EraseSize <= end
    BY <1>13, <1>a, <1>d DEF BankPoll, TInv, Progress
  <2>2. (addr + EraseSize) % EraseSize = 0
    <3>1. EraseSize % EraseSize = 0
      BY <1>a, Multiple
    <3>2. addr \in Nat /\ addr % EraseSize = 0
      BY <1>13, <1>d DEF BankPoll, TInv, Progress
    <3>. QED
      BY <1>a, <3>1, <3>2, AddMultiple
  <2>3. cut' \in BOOLEAN
    BY <1>13 DEF BankPoll, TInv, TypeOK
  <2>. QED
    BY <1>13, <2>1, <2>2, <2>3 DEF BankPoll, TInv, TypeOK, Progress, Locations
<1>14. CASE ReadFlashByte /\ UNCHANGED left
  <2>1. addr + 1 \in 0 .. Size /\ addr + 1 <= end
    BY <1>14, <1>a, <1>d DEF ReadFlashByte, TInv, Progress
  <2>2. flash' \in Flash
    BY <1>14, <1>b, ReadByteType, DriverType DEF ReadFlashByte
  <2>3. honest' \in BOOLEAN /\ cut' \in BOOLEAN /\ pc' \in {pc, "prompt"}
    BY <1>14 DEF ReadFlashByte, TInv, TypeOK
  <2>4. pc \in {"read", "crc"}
    BY <1>14 DEF ReadFlashByte
  <2>. QED
    BY <1>14, <2>1, <2>2, <2>3, <2>4 DEF ReadFlashByte, TInv, TypeOK, Progress, Locations
<1>15. CASE ReadFlashDone /\ UNCHANGED left
  <2>1. flash' \in Flash
    BY <1>15, <1>b, DriverType DEF ReadFlashDone
  <2>. QED
    BY <1>15, <2>1 DEF ReadFlashDone, TInv, TypeOK, Progress, Locations, cmdVars, history
<1>16. CASE StartLoader
  <2> DEFINE c0 == extmem_read_start(flash, info.ofs)
             c1 == extmem_read_byte(c0)
             next == NextInArray(info.ofs)
  <2>1. info.ofs \in Addr /\ info.len \in Nat
    BY DEF TInv, TypeOK
  <2>2. c0 \in Flash
    BY <1>b, <2>1, DriverType
  <2>3. c1 \in Flash
    BY <2>2, ReadByteType
  <2>4. extmem_read_byte(c1) \in Flash
    BY <2>3, ReadByteType
  <2>5. next \in Addr
    BY <2>1, NextInRange
  <2>6. NextInArray(next) \in Addr
    BY <2>5, NextInRange
  <2>7. (info.len - 2) % Word \in 0 .. Word - 1
    BY <1>a, <2>1
  <2>8. /\ flash' \in Flash /\ addr' \in Addr /\ left' \in 0 .. Word - 1
        /\ honest' \in BOOLEAN /\ foot' \subseteq Addr
    BY <1>16, <1>c, <2>4, <2>6, <2>7 DEF StartLoader
  <2>9. addr' \in 0 .. Size
    BY <1>a, <2>8 DEF Addr
  <2>. QED
    BY <1>16, <2>8, <2>9 DEF StartLoader, TInv, TypeOK, Progress, Locations
<1>17. CASE SendHeader
  BY <1>17 DEF SendHeader, TInv, TypeOK, Progress, Locations, cmdVars, history
<1>18. CASE SendData
  <2>1. addr \in Addr
    BY <1>18 DEF SendData, TInv, Progress
  <2>2. flash' \in Flash /\ addr' \in Addr /\ honest' \in BOOLEAN
    BY <1>18, <1>b, <2>1, NextInRange, ReadByteType DEF SendData, TInv, TypeOK
  <2>3. addr' \in 0 .. Size
    BY <1>a, <2>2 DEF Addr
  <2>4. left' \in 0 .. Word - 1
    BY <1>18, <1>a DEF SendData, TInv, TypeOK
  <2>. QED
    BY <1>18, <2>2, <2>3, <2>4 DEF SendData, TInv, TypeOK, Progress, Locations
<1>19. CASE LoaderAbort \/ LoaderDone \/ WatchdogReset
  <2>1. flash' \in Flash
    <3>1. extmem_read_byte(flash) \in Flash
      BY <1>b, ReadByteType
    <3>. QED
      BY <1>19, <1>b, <3>1, DriverType, DeselectType DEF LoaderAbort, LoaderDone, WatchdogReset
  <2>2. info' \in [ofs : Addr, len : Nat]
    BY <1>19 DEF LoaderAbort, LoaderDone, WatchdogReset, TInv, TypeOK, cmdVars
  <2>. QED
    BY <1>19, <2>1, <2>2 DEF LoaderAbort, LoaderDone, WatchdogReset, TInv, TypeOK, Progress,
                             Locations, cmdVars, history
<1>20. CASE FlashCycleDone
  <2>1. flash' \in Flash
    BY <1>20, <1>b DEF FlashCycleDone, CycleDone, Flash
  <2>. QED
    BY <1>20, <2>1 DEF FlashCycleDone, TInv, TypeOK, Progress, cmdVars, history
<1>21. CASE MotorChange
  BY <1>21 DEF MotorChange, TInv, TypeOK, Progress, cmdVars, history
<1>22. CASE UNCHANGED allVars
  BY <1>22 DEF allVars, vars, TInv, TypeOK, Progress, cmdVars, history
<1>. QED
  BY <1>1, <1>2, <1>3, <1>4, <1>5, <1>6, <1>7, <1>8, <1>9, <1>10, <1>11, <1>12, <1>13,
     <1>14, <1>15, <1>16, <1>17, <1>18, <1>19, <1>20, <1>21, <1>22
     DEF Next, HostStep, HandlerStep, LoaderStep

\* Every variable keeps its type, however commands, aborts, resets and flash
\* cycles follow one another.
THEOREM TypeCorrect == Spec => []TypeOK
<1>1. Init => TInv
  BY InitTInv
<1>2. TInv /\ [Next]_allVars => TInv'
  BY StepTInv
<1>3. TInv => TypeOK
  BY DEF TInv
<1>. QED
  BY <1>1, <1>2, <1>3, PTL DEF Spec

-----------------------------------------------------------------------------
\* What the driver does to a chip in the states the handlers leave it in.

LEMMA ReadStart ==
  ASSUME NEW c \in Flash, Idle(c), NEW a \in Addr
  PROVE  LET c1 == extmem_read_start(c, a)
         IN  Reading(c1) /\ c1.mem = c.mem /\ c1.ptr = a /\ c1 \in Flash
<1>1. extmem_read_start(c, a) =
        [c EXCEPT !.sel = TRUE, !.ptr = a, !.latch = Blank, !.op = "read"]
  BY DEF extmem_read_start, Open, Idle, Settled
<1>2. extmem_read_start(c, a) \in Flash
  BY DriverType
<1>. QED
  BY <1>1, <1>2 DEF Reading, Idle, Settled, Flash

LEMMA ReadByte ==
  ASSUME NEW c \in Flash, Reading(c)
  PROVE  LET c1 == extmem_read_byte(c)
         IN  /\ Reading(c1) /\ c1.mem = c.mem /\ c1.ptr = NextInArray(c.ptr) /\ c1 \in Flash
             /\ extmem_read_value(c) = c.mem[c.ptr]
<1>1. extmem_read_byte(c) = [c EXCEPT !.ptr = NextInArray(c.ptr)]
  BY DEF extmem_read_byte, Reading
<1>2. extmem_read_byte(c) \in Flash
  BY ReadByteType
<1>. QED
  BY <1>1, <1>2 DEF Reading, Flash, extmem_read_value

LEMMA ReadStop ==
  ASSUME NEW c \in Flash, Reading(c)
  PROVE  LET c1 == Deselect(c)
         IN  Idle(c1) /\ c1.mem = c.mem
  BY DEF Reading, Idle, Settled, Deselect, Flash

LEMMA WriteStart ==
  ASSUME NEW c \in Flash, Idle(c), NEW a \in Addr
  PROVE  LET c1 == extmem_write_start(c, a)
         IN  /\ Programming(c1) /\ c1.mem = c.mem /\ c1.ptr = a /\ c1 \in Flash
             /\ c1.latch = Blank
<1>1. send_writeenable(c) = [c EXCEPT !.wel = TRUE]
  BY DEF send_writeenable, Idle, Settled
<1>2. extmem_write_start(c, a) =
        [send_writeenable(c) EXCEPT !.sel = TRUE, !.ptr = a, !.latch = Blank, !.op = "program"]
  BY <1>1 DEF extmem_write_start, Open, Idle, Settled, Flash
<1>3. extmem_write_start(c, a) \in Flash
  BY DriverType
<1>. QED
  BY <1>1, <1>2, <1>3 DEF Programming, Idle, Settled, Flash

LEMMA WriteByte ==
  ASSUME NEW c \in Flash, Programming(c), NEW d \in Data
  PROVE  LET c1 == extmem_write_byte(c, d)
         IN  /\ Programming(c1) /\ c1.mem = c.mem /\ c1.ptr = NextInPage(c.ptr) /\ c1 \in Flash
             /\ c1.latch = [c.latch EXCEPT ![c.ptr] = d]
<1>1. extmem_write_byte(c, d) =
        [c EXCEPT !.latch[c.ptr] = d, !.ptr = NextInPage(c.ptr)]
  BY DEF extmem_write_byte, Latch, Programming
<1>2. extmem_write_byte(c, d) \in Flash
  BY DriverType
<1>. QED
  BY <1>1, <1>2 DEF Programming, Flash

LEMMA WriteStop ==
  ASSUME NEW c \in Flash, Programming(c)
  PROVE  LET c1 == Deselect(c)
         IN  Settled(c1) /\ c1.mem = ProgramAll(c.mem, c.latch)
  BY DEF Programming, Settled, Deselect, Flash

LEMMA EraseIdle ==
  ASSUME NEW c \in Flash, Idle(c), NEW a \in Addr
  PROVE  LET c1 == extmem_erase(c, a)
         IN  Settled(c1) /\ c1.mem = EraseSector(c.mem, a)
<1>1. send_writeenable(c) = [c EXCEPT !.wel = TRUE]
  BY DEF send_writeenable, Idle, Settled
<1>2. extmem_erase(c, a) = [send_writeenable(c) EXCEPT !.mem = EraseSector(c.mem, a),
                                                      !.wel = FALSE, !.busy = TRUE]
  BY <1>1 DEF extmem_erase, Idle, Settled, Flash
<1>. QED
  BY <1>1, <1>2 DEF Settled, Idle, Flash

\* Programming one more byte, above all the bytes latched so far.
LEMMA ProgramNext ==
  ASSUME NEW m \in [Addr -> Byte], NEW l \in [Addr -> Byte], NEW a \in Addr, NEW d \in Data,
         l[a] = Erased
  PROVE  [ProgramAll(m, l) EXCEPT ![a] = Prog(@, d)] = ProgramAll(m, [l EXCEPT ![a] = d])
<1>1. Prog(m[a], l[a]) = m[a]
  BY DEF Prog
<1>. QED
  BY <1>1, Zenon DEF ProgramAll

LEMMA ProgramBlank ==
  ASSUME NEW m \in [Addr -> Byte]
  PROVE  ProgramAll(m, Blank) = m
  BY DEF ProgramAll, Blank, Prog

-----------------------------------------------------------------------------
\* The flash, command by command.

ContentInv == ~cut => ChipByLocation /\ honest

LEMMA InitContent == Init => ContentInv
<1> SUFFICES ASSUME Init PROVE ContentInv
  OBVIOUS
<1>1. Idle(flash)
  BY DEF Init, Idle, Settled
<1>. QED
  BY <1>1 DEF ContentInv, ChipByLocation, Init

\* A motor line that has cut a command short stays on record.
LEMMA CutStays == TypeOK /\ [Next]_allVars /\ ~cut' => ~cut
  BY DEF TypeOK, allVars, vars, cmdVars, history, Next, HostStep, HandlerStep, LoaderStep,
         EnterCommand, AbortAtPrompt, ExitCommand, InfoCommand, Reply, WriteFlash,
         WriteFlashByte, WriteFlashAbort, WriteFlashDone, WriteFlashPoll, EraseFlashBlock,
         EraseBlockPoll, EraseFlash64k, BankErase, BankPoll, BankDone, ReadFlash,
         ReadFlashByte, ReadFlashDone, WriteLoadinfo, LoadinfoOfs, LoadinfoLen,
         LoadinfoRest, LoadinfoAbort, StartLoader, SendHeader, SendData, LoaderAbort,
         LoaderDone, WatchdogReset, FlashCycleDone, MotorChange

\* One data byte of write_flash, at a page start, inside a page or at its end.
LEMMA WriteByteStep ==
  ASSUME TInv, ChipByLocation, NEW d \in Data, WriteFlashByte(d)
  PROVE  ChipByLocation'
<1> DEFINE opened == IF pageOpen THEN flash ELSE extmem_write_start(flash, addr)
           stored == extmem_write_byte(opened, d)
           close  == (addr + 1) % PageSize = 0 \/ addr + 1 = end
<1>1. /\ addr \in Addr /\ flash \in Flash /\ want \in [Addr -> Byte]
      /\ addr' = addr + 1 /\ pageOpen' = ~close
      /\ flash' = IF close THEN extmem_write_stop(stored) ELSE stored
      /\ pc' = IF close THEN "writePoll" ELSE "write"
      /\ want' = [want EXCEPT ![addr] = Prog(@, d)]
  <2>1. addr \in Addr
    BY FlashAssumption DEF WriteFlashByte, TInv, TypeOK, Progress, Addr
  <2>. QED
    BY <2>1 DEF WriteFlashByte, TInv, TypeOK
<1>2. /\ opened \in Flash /\ Programming(opened) /\ opened.ptr = addr
      /\ want = ProgramAll(opened.mem, opened.latch)
      /\ \A a \in Addr : addr <= a => opened.latch[a] = Erased
  <2>1. CASE pageOpen
    BY <1>1, <2>1 DEF ChipByLocation, WriteFlashByte
  <2>2. CASE ~pageOpen
    <3>1. Idle(flash) /\ want = flash.mem
      BY <2>2 DEF ChipByLocation, WriteFlashByte
    <3>2. ProgramAll(want, Blank) = want
      BY <1>1, ProgramBlank
    <3>. QED
      BY <1>1, <2>2, <3>1, <3>2, WriteStart DEF Blank
  <2>. QED
    BY <2>1, <2>2
<1> HIDE DEF opened
<1>3. /\ stored \in Flash /\ Programming(stored) /\ stored.mem = opened.mem
      /\ stored.ptr = NextInPage(addr)
      /\ stored.latch = [opened.latch EXCEPT ![addr] = d]
  BY <1>2, WriteByte
<1>4. want' = ProgramAll(stored.mem, stored.latch)
  <2>1. opened.mem \in [Addr -> Byte] /\ opened.latch \in [Addr -> Byte]
    BY <1>2 DEF Flash
  <2>2. opened.latch[addr] = Erased
    BY <1>1, <1>2, FlashAssumption DEF Addr
  <2>3. [ProgramAll(opened.mem, opened.latch) EXCEPT ![addr] = Prog(@, d)]
          = ProgramAll(opened.mem, [opened.latch EXCEPT ![addr] = d])
    BY <1>1, <2>1, <2>2, ProgramNext
  <2>. QED
    BY <1>1, <1>2, <1>3, <2>3
<1> HIDE DEF stored
<1>5. CASE close
  <2>1. Settled(flash') /\ flash'.mem = want'
    BY <1>1, <1>3, <1>4, <1>5, WriteStop DEF extmem_write_stop
  <2>. QED
    BY <1>1, <1>5, <2>1 DEF ChipByLocation, Settled
<1>6. CASE ~close
  <2>1. flash' = stored /\ pc' = "write" /\ pageOpen'
    BY <1>1, <1>6
  <2>2. NextInPage(addr) = addr'
    BY <1>1, <1>6 DEF NextInPage
  <2>3. \A a \in Addr : addr' <= a => stored.latch[a] = Erased
    <3>1. \A a \in Addr : addr + 1 <= a => addr <= a /\ a # addr
      BY <1>1, FlashAssumption DEF Addr
    <3>2. opened.latch \in [Addr -> Byte]
      BY <1>2 DEF Flash
    <3>. QED
      BY <1>1, <1>2, <1>3, <3>1, <3>2
  <2>. QED
    BY <1>3, <1>4, <2>1, <2>2, <2>3 DEF ChipByLocation, Programming
<1>. QED
  BY <1>5, <1>6

\* The bank erase: what is still to be erased shrinks sector by sector.
LEMMA BankEraseStep ==
  ASSUME TInv, ChipByLocation, BankErase
  PROVE  ChipByLocation'
<1>1. /\ flash \in Flash /\ pc = "bankErase" /\ addr \in Addr /\ end \in 0 .. Size
      /\ addr % EraseSize = 0 /\ end % EraseSize = 0 /\ addr < end
      /\ EraseSize \in Nat \ {0} /\ Size \in Nat
  BY FlashAssumption DEF BankErase, TInv, TypeOK, Progress, Addr
<1>2. Idle(flash) /\ want = Erasing(addr)
  BY <1>1 DEF ChipByLocation
<1>3. Settled(flash') /\ flash'.mem = EraseSector(flash.mem, addr)
  BY <1>1, <1>2, EraseIdle DEF BankErase
<1>4. addr + EraseSize <= end
  <2>1. addr \in Nat /\ end \in Nat
    BY <1>1 DEF Addr
  <2>. QED
    BY <1>1, <2>1, SectorFits
<1>5. Sector(addr) = Range2(addr, addr + EraseSize)
  BY <1>1, AlignedSector
<1>6. \A x \in Addr : x \in Range2(addr, end)
                       <=> x \in Sector(addr) \/ x \in Range2(addr + EraseSize, end)
  BY <1>1, <1>4, <1>5 DEF Range2, Addr
<1>7. addr' = addr /\ end' = end /\ want' = want /\ pc' = "bankPoll"
  BY DEF BankErase, cmdVars, history
<1>8. \A x \in Addr : want[x] = IF x \in Range2(addr + EraseSize, end)
                                THEN Erased ELSE flash'.mem[x]
  BY <1>2, <1>3, <1>6 DEF Erasing, EraseSector
<1>9. \A x \in Addr : want'[x] = IF x \in Range2(addr' + EraseSize, end')
                                 THEN Erased ELSE flash'.mem[x]
  BY <1>7, <1>8
<1>10. want' \in [Addr -> Byte]
  BY <1>7 DEF TInv, TypeOK
<1>11. want' = Erasing(addr + EraseSize)'
  BY <1>9, <1>10 DEF Erasing
<1>. QED
  BY <1>3, <1>7, <1>11 DEF ChipByLocation, Settled

\* A read or a load opened on an idle chip, and a byte read from an open one.
LEMMA StartLoaderStep ==
  ASSUME TInv, ChipByLocation, StartLoader
  PROVE  ChipByLocation' /\ honest'
<1> DEFINE c0 == extmem_read_start(flash, info.ofs)
           c1 == extmem_read_byte(c0)
           next == NextInArray(info.ofs)
<1>1. /\ flash \in Flash /\ info.ofs \in Addr /\ pc = "stream"
      /\ Idle(flash) /\ want = flash.mem
  BY DEF StartLoader, TInv, TypeOK, ChipByLocation
<1>2. Reading(c0) /\ c0.mem = flash.mem /\ c0.ptr = info.ofs /\ c0 \in Flash
  BY <1>1, ReadStart
<1>3. /\ Reading(c1) /\ c1.mem = flash.mem /\ c1.ptr = next /\ c1 \in Flash
      /\ extmem_read_value(c0) = flash.mem[info.ofs]
  <2> HIDE DEF c0
  <2>. QED
    BY <1>2, ReadByte
<1>4. /\ Reading(extmem_read_byte(c1)) /\ extmem_read_byte(c1).mem = flash.mem
      /\ extmem_read_byte(c1).ptr = NextInArray(next)
      /\ extmem_read_value(c1) = flash.mem[next]
  <2> HIDE DEF c1
  <2>. QED
    BY <1>3, ReadByte
<1>5. /\ flash' = extmem_read_byte(c1) /\ addr' = NextInArray(next) /\ pc' = "header"
      /\ want' = want
      /\ honest' = (/\ extmem_read_value(c0) = flash.mem[info.ofs]
                    /\ extmem_read_value(c1) = flash.mem[next])
  BY DEF StartLoader
<1> HIDE DEF c0, c1, next
<1>. QED
  BY <1>1, <1>3, <1>4, <1>5 DEF ChipByLocation, Reading

LEMMA ReadStep ==
  ASSUME TInv, ChipByLocation, honest,
         ReadFlashByte \/ ReadFlashDone \/ SendHeader \/ SendData \/ LoaderAbort \/ LoaderDone
           \/ WatchdogReset,
         ~cut'
  PROVE  ChipByLocation' /\ honest'
<1>1. flash \in Flash /\ Reading(flash) /\ want = flash.mem /\ want' = want
  BY DEF ReadFlashByte, ReadFlashDone, SendHeader, SendData, LoaderAbort, LoaderDone,
         WatchdogReset, TInv, TypeOK, ChipByLocation, history, cmdVars
<1>2. /\ Reading(extmem_read_byte(flash)) /\ extmem_read_byte(flash).mem = flash.mem
      /\ extmem_read_byte(flash).ptr = NextInArray(flash.ptr)
      /\ extmem_read_byte(flash) \in Flash
      /\ extmem_read_value(flash) = flash.mem[flash.ptr]
  BY <1>1, ReadByte
<1>3. /\ Idle(Deselect(flash)) /\ Deselect(flash).mem = flash.mem
      /\ Idle(Deselect(extmem_read_byte(flash)))
      /\ Deselect(extmem_read_byte(flash)).mem = flash.mem
  BY <1>1, <1>2, ReadStop
<1>4. CASE ReadFlashByte
  <2>1. /\ addr # end /\ addr' = addr + 1 /\ end' = end /\ flash.ptr = addr
        /\ pc \in {"read", "crc"} /\ pc' = pc /\ flash' = extmem_read_byte(flash)
        /\ honest' = (honest /\ extmem_read_value(flash) = flash.mem[addr])
    BY <1>4 DEF ReadFlashByte, ChipByLocation
  <2>2. addr' # end' => NextInArray(flash.ptr) = addr'
    BY <2>1, FlashAssumption DEF NextInArray, TInv, TypeOK, Progress
  <2>. QED
    BY <1>1, <1>2, <2>1, <2>2 DEF ChipByLocation, Reading
<1>5. CASE ReadFlashDone \/ LoaderAbort \/ LoaderDone \/ WatchdogReset
  <2>1. /\ flash' \in {Deselect(flash), Deselect(extmem_read_byte(flash))}
        /\ pc' \in {"stream", "prompt", "reply"} /\ honest' = honest
    BY <1>5 DEF ReadFlashDone, LoaderAbort, LoaderDone, WatchdogReset, history,
                extmem_read_stop
  <2>2. Idle(flash') /\ flash'.mem = want'
    BY <1>1, <1>3, <2>1
  <2>. QED
    BY <2>1, <2>2 DEF ChipByLocation
<1>6. CASE SendHeader
  BY <1>6, <1>1 DEF SendHeader, ChipByLocation, cmdVars, history
<1>7. CASE SendData
  <2>1. /\ flash.ptr = addr /\ addr' = NextInArray(addr) /\ pc' = "data"
        /\ flash' = extmem_read_byte(flash)
        /\ honest' = (honest /\ extmem_read_value(flash) = flash.mem[addr])
    BY <1>7 DEF SendData, ChipByLocation
  <2>. QED
    BY <1>1, <1>2, <2>1 DEF ChipByLocation, Reading
<1>. QED
  BY <1>4, <1>5, <1>6, <1>7

LEMMA StepContent == TInv /\ ContentInv /\ [Next]_allVars => ContentInv'
<1> SUFFICES ASSUME TInv, ContentInv, [Next]_allVars, ~cut' PROVE ChipByLocation' /\ honest'
  BY DEF ContentInv
<1>1. ChipByLocation /\ honest
  BY CutStays DEF TInv, ContentInv
<1>2. /\ flash \in Flash /\ want \in [Addr -> Byte] /\ flash.mem \in [Addr -> Byte]
      /\ Size \in Nat \ {0} /\ EraseSize \in Nat \ {0}
      /\ addr \in 0 .. Size /\ end \in 0 .. Size
  BY FlashAssumption DEF TInv, TypeOK, Flash
<1>3. CASE EnterCommand \/ AbortAtPrompt \/ ExitCommand \/ InfoCommand \/ Reply
           \/ LoadinfoOfs \/ LoadinfoLen \/ LoadinfoRest \/ LoadinfoAbort
           \/ \E i \in Infos : WriteLoadinfo(i)
  <2>1. /\ UNCHANGED <<flash, want, honest>>
        /\ pc \in {"stream", "prompt", "reply", "infoOfs", "infoLen", "infoRest"}
        /\ pc' \in {"stream", "prompt", "reply", "infoOfs", "infoLen", "infoRest"}
    BY <1>3 DEF EnterCommand, AbortAtPrompt, ExitCommand, InfoCommand, Reply, LoadinfoOfs,
                LoadinfoLen, LoadinfoRest, LoadinfoAbort, WriteLoadinfo, Take, history
  <2>. QED
    BY <1>1, <2>1 DEF ChipByLocation
<1>4. CASE \E b \in Blocks : WriteFlash(b[1], b[2])
  BY <1>1, <1>4 DEF WriteFlash, Take, ChipByLocation
<1>5. CASE \E d \in Data : WriteFlashByte(d)
  <2>1. honest' = honest
    BY <1>5 DEF WriteFlashByte
  <2>. QED
    BY <1>1, <1>5, <2>1, WriteByteStep
<1>6. CASE WriteFlashAbort \/ WriteFlashDone \/ WriteFlashPoll
  <2>1. /\ UNCHANGED <<flash, want, honest, pageOpen>>
        /\ \/ pc = "write" /\ ~pageOpen /\ pc' = "prompt"
           \/ pc = "writePoll" /\ pc' = "write" /\ ~pageOpen /\ ~flash.busy
    BY <1>6 DEF WriteFlashAbort, WriteFlashDone, WriteFlashPoll, extmem_write_isbusy, cmdVars,
                history, TInv, Progress
  <2>. QED
    BY <1>1, <2>1 DEF ChipByLocation, Idle
<1>7. ASSUME NEW b \in Blocks, EraseFlashBlock(b[1])
      PROVE  ChipByLocation' /\ honest'
  <2>1. Idle(flash) /\ want = flash.mem
    BY <1>1, <1>7 DEF EraseFlashBlock, Take, ChipByLocation
  <2>2. Settled(flash') /\ flash'.mem = EraseSector(flash.mem, b[1])
    BY <1>2, <1>7, <2>1, BlockType, EraseIdle DEF EraseFlashBlock
  <2>. QED
    BY <1>1, <1>7, <2>1, <2>2 DEF EraseFlashBlock, Take, ChipByLocation
<1>8. CASE EraseBlockPoll
  <2>1. ~flash.busy /\ flash' = flash /\ want' = want /\ pc = "erasePoll" /\ pc' = "prompt"
        /\ honest' = honest
    BY <1>8 DEF EraseBlockPoll, extmem_write_isbusy
  <2>. QED
    BY <1>1, <2>1 DEF ChipByLocation, Idle
<1>9. ASSUME NEW b \in Blocks, EraseFlash64k(b[1])
      PROVE  ChipByLocation' /\ honest'
  <2>1. /\ Idle(flash) /\ want = flash.mem /\ flash' = flash /\ pc' = "bankErase"
        /\ honest' = honest
        /\ want' = [x \in Addr |-> IF x \in Range2(addr', end') THEN Erased ELSE want[x]]
    BY <1>1, <1>9 DEF EraseFlash64k, Take, ChipByLocation
  <2>2. want' = Erasing(addr)'
    BY <2>1 DEF Erasing
  <2>. QED
    BY <1>1, <2>1, <2>2 DEF ChipByLocation
<1>10. CASE BankErase
  <2>1. honest' = honest
    BY <1>10 DEF BankErase, history
  <2>. QED
    BY <1>1, <1>10, <2>1, BankEraseStep
<1>11. CASE BankPoll
  <2>1. /\ ~flash.busy /\ flash' = flash /\ want' = want /\ honest' = honest
        /\ pc = "bankPoll" /\ pc' = "bankErase" /\ addr' = addr + EraseSize /\ end' = end
    BY <1>11 DEF BankPoll, extmem_write_isbusy
  <2>2. Settled(flash) /\ want = Erasing(addr + EraseSize)
    BY <1>1, <2>1 DEF ChipByLocation
  <2>3. want' = Erasing(addr)'
    BY <2>1, <2>2 DEF Erasing
  <2>. QED
    BY <1>1, <2>1, <2>2, <2>3 DEF ChipByLocation, Idle, Settled
<1>12. CASE BankDone
  <2>1. /\ pc = "bankErase" /\ addr = end /\ pc' = "prompt" /\ flash' = flash /\ want' = want
        /\ honest' = honest
    BY <1>12 DEF BankDone, history
  <2>2. Idle(flash) /\ want = Erasing(addr)
    BY <1>1, <2>1 DEF ChipByLocation
  <2>3. \A x \in Addr : x \notin Range2(addr, end)
    BY <1>2, <2>1 DEF Range2, Addr
  <2>4. want = flash.mem
    BY <1>2, <2>2, <2>3 DEF Erasing
  <2>. QED
    BY <1>1, <2>1, <2>2, <2>4 DEF ChipByLocation
<1>13. ASSUME NEW kind \in {"read", "crc"}, NEW b \in Blocks, ReadFlash(kind, b[1], b[2])
       PROVE  ChipByLocation' /\ honest'
  <2>1. /\ Idle(flash) /\ want = flash.mem
        /\ addr' = b[1] /\ pc' = kind /\ want' = want /\ honest'
        /\ flash' = extmem_read_start(flash, b[1])
    BY <1>1, <1>13 DEF ReadFlash, Take, ChipByLocation
  <2>2. Reading(flash') /\ flash'.mem = flash.mem /\ flash'.ptr = b[1]
    BY <1>2, <2>1, BlockType, ReadStart
  <2>. QED
    BY <2>1, <2>2 DEF ChipByLocation
<1>14. CASE StartLoader
  BY <1>1, <1>14, StartLoaderStep
<1>15. CASE ReadFlashByte \/ ReadFlashDone \/ SendHeader \/ SendData \/ LoaderAbort \/ LoaderDone
            \/ WatchdogReset
  BY <1>1, <1>15, ReadStep
<1>16. CASE FlashCycleDone
  <2>1. /\ flash' = [flash EXCEPT !.busy = FALSE]
        /\ UNCHANGED <<pc, pageOpen, addr, end, want, honest>>
    BY <1>16 DEF FlashCycleDone, CycleDone, cmdVars, history
  <2>2. /\ flash'.mem = flash.mem /\ flash'.latch = flash.latch /\ flash'.sel = flash.sel
        /\ flash'.op = flash.op /\ flash'.ptr = flash.ptr /\ flash'.wel = flash.wel
        /\ ~flash'.busy
    BY <1>2, <2>1 DEF Flash
  <2>. QED
    BY <1>1, <2>1, <2>2 DEF ChipByLocation, Idle, Settled, Reading, Programming, Erasing
<1>17. CASE MotorChange \/ UNCHANGED allVars
  <2>1. UNCHANGED <<flash, pc, pageOpen, addr, end, want, honest>>
    BY <1>17 DEF MotorChange, allVars, vars, cmdVars, history
  <2>2. (\A a : Erasing(a)' = Erasing(a)) /\ ChipByLocation
    BY <1>1, <2>1 DEF Erasing
  <2>. QED
    BY <1>1, <2>1, <2>2 DEF ChipByLocation
<1>18. CASE HostStep
  <2>1. CASE \E b \in Blocks : EraseFlashBlock(b[1])
    BY <1>7, <2>1
  <2>2. CASE \E b \in Blocks : EraseFlash64k(b[1])
    BY <1>9, <2>2
  <2>3. CASE \E kind \in {"read", "crc"}, b \in Blocks : ReadFlash(kind, b[1], b[2])
    BY <1>13, <2>3
  <2>. QED
    BY <1>3, <1>4, <1>5, <1>18, <2>1, <2>2, <2>3 DEF HostStep
<1>19. CASE HandlerStep
  BY <1>3, <1>6, <1>8, <1>10, <1>11, <1>12, <1>15, <1>19 DEF HandlerStep
<1>. QED
  BY <1>3, <1>14, <1>15, <1>16, <1>17, <1>18, <1>19 DEF Next, LoaderStep

LEMMA Inductive == Spec => [](TInv /\ ContentInv)
<1>1. Init => TInv /\ ContentInv
  BY InitTInv, InitContent
<1>2. TInv /\ ContentInv /\ [Next]_allVars => (TInv /\ ContentInv)'
  BY StepTInv, StepContent
<1>. QED
  BY <1>1, <1>2, PTL DEF Spec

\* The flash holds exactly what the commands so far asked for whenever the
\* handler waits, unless one was cut short: write_flash loses no byte at a page
\* boundary and the erase loops miss no sector.
THEOREM FlashCorrect == Spec => []FlashAsAsked
<1>1. ContentInv => FlashAsAsked
  BY DEF ContentInv, ChipByLocation, FlashAsAsked
<1>. QED
  BY <1>1, Inductive, PTL

\* Every byte sent is the flash content it stands for, unless a command was cut
\* short: no read is opened on a busy or selected chip.
THEOREM ReadsCorrect == Spec => []RepliesHonest
<1>1. ContentInv => RepliesHonest
  BY DEF ContentInv, RepliesHonest
<1>. QED
  BY <1>1, Inductive, PTL

\* The handler waits with the chip deselected, idle and write-protected, unless
\* a command was cut short.
THEOREM ChipReady == Spec => []ChipReadyAtPrompt
<1>1. ContentInv => ChipReadyAtPrompt
  BY DEF ContentInv, ChipByLocation, ChipReadyAtPrompt, Idle, Settled
<1>. QED
  BY <1>1, Inductive, PTL

-----------------------------------------------------------------------------
(***************************************************************************)
(* What may change, whatever is cut short: a step changes only bytes in the*)
(* footprint of the running command, and what reaches non-volatile memory  *)
(* is one load info.                                                       *)
(***************************************************************************)
\* Pages.

LEMMA SamePage ==
  ASSUME NEW p \in Addr
  PROVE  /\ p \in PageOf(p)
         /\ PageOf(NextInPage(p)) = PageOf(p)
<1>1. PageSize \in Nat \ {0} /\ Size \in Nat \ {0} /\ Size % PageSize = 0 /\ p \in Nat
  BY FlashAssumption DEF Addr
<1>2. p \in PageOf(p)
  BY DEF PageOf
<1> DEFINE base == p - (p % PageSize)
           n    == NextInPage(p)
<1>3. /\ base \in Nat /\ base % PageSize = 0 /\ n \in Nat
      /\ base <= p /\ p < base + PageSize
  <2>1. base \in Nat /\ base % PageSize = 0
    BY <1>1, RoundDown
  <2>2. base <= p /\ p < base + PageSize
    BY <1>1, <2>1, BlockMembers
  <2>3. n \in Nat
    BY NextInRange DEF Addr
  <2>. QED
    BY <2>1, <2>2, <2>3
<1>4. base <= n /\ n < base + PageSize
  <2>1. (base + PageSize) % PageSize = 0
    <3>1. PageSize % PageSize = 0
      BY <1>1, Multiple
    <3>. QED
      BY <1>1, <1>3, <3>1, AddMultiple
  <2>2. CASE (p + 1) % PageSize = 0
    <3>1. n = p + 1 - PageSize
      BY <2>2 DEF NextInPage
    <3>2. base + PageSize <= p + 1
      <4>1. p + 1 \in Nat
        BY <1>1
      <4>2. (p + 1) - ((p + 1) % PageSize) = p + 1
        BY <1>1, <2>2
      <4>3. base % PageSize = 0 /\ base < p + 1
        BY <1>1, <1>3
      <4>4. base - (base % PageSize) + PageSize <= p + 1
        BY <1>1, <1>3, <2>2, <4>1, <4>3, RoundDown
      <4>. QED
        BY <1>1, <1>3, <4>4
    <3>. QED
      BY <1>1, <1>3, <3>1, <3>2
  <2>3. CASE (p + 1) % PageSize # 0
    <3>1. n = p + 1
      BY <2>3 DEF NextInPage
    <3>2. p + 1 # base + PageSize
      BY <2>1, <2>3
    <3>. QED
      BY <1>1, <1>3, <3>1, <3>2
  <2>. QED
    BY <2>2, <2>3
<1>5. n - (n % PageSize) = base
  BY <1>1, <1>3, <1>4, BlockMembers
<1>. QED
  BY <1>2, <1>5 DEF PageOf

-----------------------------------------------------------------------------
\* What each driver function may write.

\* The chip d differs from the chip c at addresses of F only.
OnlyIn(c, d, F) == \A a \in Addr : d.mem[a] # c.mem[a] => a \in F

LEMMA LatchFootprint ==
  ASSUME NEW c \in Flash, NEW F, NEW b \in Byte, c.op = "program",
         LatchedIn(c, F), c.ptr \in F
  PROVE  LET d == Latch(c, b)
         IN  /\ LatchedIn(d, F) /\ d.mem = c.mem /\ d.op = c.op /\ d.sel = c.sel
             /\ d \in Flash /\ PageOf(d.ptr) = PageOf(c.ptr)
<1> DEFINE d == Latch(c, b)
<1>1. c.ptr \in Addr /\ c.latch \in [Addr -> Byte]
  BY DEF Flash
<1>2. /\ d.mem = c.mem /\ d.op = c.op /\ d.sel = c.sel
      /\ d.ptr = NextInPage(c.ptr) /\ d.latch = [c.latch EXCEPT ![c.ptr] = b]
  BY DEF Latch, Flash
<1>3. d \in Flash
  BY LatchType
<1>4. PageOf(d.ptr) = PageOf(c.ptr) /\ c.ptr \in PageOf(c.ptr)
  BY <1>1, <1>2, SamePage
<1> HIDE DEF d
<1>5. \A a \in Addr : d.latch[a] # Erased => a \in PageOf(d.ptr) /\ a \in F
  BY <1>1, <1>2, <1>4 DEF LatchedIn
<1>6. LatchedIn(d, F)
  BY <1>2, <1>5 DEF LatchedIn
<1>. QED
  BY <1>2, <1>3, <1>4, <1>6 DEF d

LEMMA SwallowFootprint ==
  ASSUME NEW c \in Flash, NEW F, LatchedIn(c, F), PageIn(c, F)
  PROVE  LET d == Swallow1(c)
         IN  /\ LatchedIn(d, F) /\ PageIn(d, F) /\ d.mem = c.mem /\ d.op = c.op
             /\ d.sel = c.sel /\ d \in Flash
<1>1. CASE c.op = "program"
  <2>1. c.ptr \in F
    BY <1>1, SamePage DEF PageIn, Flash
  <2>2. Swallow1(c) = Latch(c, Other) /\ Other \in Byte
    BY <1>1 DEF Swallow1, Byte
  <2>. QED
    BY <1>1, <2>1, <2>2, LatchFootprint DEF PageIn
<1>2. CASE c.op # "program"
  BY <1>2 DEF Swallow1
<1>. QED
  BY <1>1, <1>2

LEMMA DeselectFootprint ==
  ASSUME NEW c \in Flash, NEW F, LatchedIn(c, F)
  PROVE  LET d == Deselect(c)
         IN  OnlyIn(c, d, F) /\ d.op = "none" /\ ~d.sel /\ d \in Flash
<1>1. CASE c.op = "program"
  <2>1. \A a \in Addr : c.latch[a] = Erased => ProgramAll(c.mem, c.latch)[a] = c.mem[a]
    BY DEF ProgramAll, Prog
  <2>2. \A a \in Addr : ProgramAll(c.mem, c.latch)[a] # c.mem[a] => a \in F
    BY <1>1, <2>1 DEF LatchedIn
  <2>3. /\ Deselect(c).mem = ProgramAll(c.mem, c.latch)
        /\ Deselect(c).op = "none" /\ ~Deselect(c).sel
    BY <1>1 DEF Deselect, Flash
  <2>. QED
    BY <2>2, <2>3, DeselectType DEF OnlyIn
<1>2. CASE c.op # "program"
  BY <1>2, DeselectType DEF Deselect, Flash, OnlyIn
<1>. QED
  BY <1>1, <1>2

LEMMA WriteEnableFootprint ==
  ASSUME NEW c \in Flash, NEW F, LatchedIn(c, F), PageIn(c, F)
  PROVE  LET d == send_writeenable(c)
         IN  OnlyIn(c, d, F) /\ d.op # "program" /\ ~d.sel /\ d \in Flash
<1>1. CASE c.sel
  <2>1. /\ LatchedIn(Swallow1(c), F) /\ Swallow1(c).mem = c.mem /\ Swallow1(c) \in Flash
    BY SwallowFootprint
  <2>2. /\ OnlyIn(Swallow1(c), Deselect(Swallow1(c)), F) /\ Deselect(Swallow1(c)).op = "none"
        /\ ~Deselect(Swallow1(c)).sel /\ Deselect(Swallow1(c)) \in Flash
    BY <2>1, DeselectFootprint
  <2>. QED
    BY <1>1, <2>1, <2>2 DEF send_writeenable, OnlyIn
<1>2. CASE ~c.sel
  BY <1>2, WriteEnableType DEF send_writeenable, LatchedIn, OnlyIn, Flash
<1>. QED
  BY <1>1, <1>2

LEMMA ReadStartFootprint ==
  ASSUME NEW c \in Flash, NEW F, LatchedIn(c, F), PageIn(c, F), NEW a \in Addr
  PROVE  LET d == extmem_read_start(c, a)
         IN  LatchedIn(d, F) /\ PageIn(d, F) /\ d.mem = c.mem /\ d \in Flash
<1>1. CASE c.sel
  <2> DEFINE s1 == Swallow1(c)
             s2 == Swallow1(s1)
             s3 == Swallow1(s2)
             s4 == Swallow1(s3)
  <2>1. LatchedIn(s1, F) /\ PageIn(s1, F) /\ s1.mem = c.mem /\ s1 \in Flash
    BY SwallowFootprint
  <2> HIDE DEF s1
  <2>2. LatchedIn(s2, F) /\ PageIn(s2, F) /\ s2.mem = c.mem /\ s2 \in Flash
    BY <2>1, SwallowFootprint
  <2> HIDE DEF s2
  <2>3. LatchedIn(s3, F) /\ PageIn(s3, F) /\ s3.mem = c.mem /\ s3 \in Flash
    BY <2>2, SwallowFootprint
  <2> HIDE DEF s3
  <2>4. LatchedIn(s4, F) /\ PageIn(s4, F) /\ s4.mem = c.mem /\ s4 \in Flash
    BY <2>3, SwallowFootprint
  <2>5. extmem_read_start(c, a) = s4
    BY <1>1 DEF extmem_read_start, Open, Swallow4, s1, s2, s3, s4
  <2>. QED
    BY <2>4, <2>5
<1>2. CASE ~c.sel
  <2>1. /\ extmem_read_start(c, a).op \in {"read", "ignored"}
        /\ extmem_read_start(c, a).mem = c.mem
    BY <1>2 DEF extmem_read_start, Open, Flash
  <2>. QED
    BY <2>1, DriverType DEF LatchedIn, PageIn
<1>. QED
  BY <1>1, <1>2

LEMMA ReadByteFootprint ==
  ASSUME NEW c \in Flash, NEW F, LatchedIn(c, F), PageIn(c, F)
  PROVE  LET d == extmem_read_byte(c)
         IN  LatchedIn(d, F) /\ PageIn(d, F) /\ d.mem = c.mem /\ d \in Flash
<1>1. CASE c.op = "program"
  <2>1. c.ptr \in F
    BY <1>1, SamePage DEF PageIn, Flash
  <2>2. extmem_read_byte(c) = Latch(c, Erased) /\ Erased \in Byte
    BY <1>1 DEF extmem_read_byte, Byte
  <2>. QED
    BY <1>1, <2>1, <2>2, LatchFootprint DEF PageIn
<1>2. CASE c.op = "read"
  <2>1. extmem_read_byte(c).op = "read" /\ extmem_read_byte(c).mem = c.mem
    BY <1>2 DEF extmem_read_byte, Flash
  <2>. QED
    BY <2>1, ReadByteType DEF LatchedIn, PageIn
<1>3. CASE c.op \notin {"program", "read"}
  BY <1>3 DEF extmem_read_byte
<1>. QED
  BY <1>1, <1>2, <1>3

LEMMA WriteStartFootprint ==
  ASSUME NEW c \in Flash, NEW F, LatchedIn(c, F), PageIn(c, F), NEW a \in Addr
  PROVE  LET d == extmem_write_start(c, a)
         IN  /\ OnlyIn(c, d, F) /\ LatchedIn(d, F) /\ d \in Flash
             /\ d.op = "program" => d.ptr = a
<1> DEFINE w == send_writeenable(c)
           d == extmem_write_start(c, a)
<1>1. OnlyIn(c, w, F) /\ ~w.sel /\ w \in Flash
  BY WriteEnableFootprint
<1>2. d = Open(w, "program", a)
  BY DEF extmem_write_start
<1> HIDE DEF w
<1>3. d.mem = w.mem /\ d.sel /\ d.ptr = a /\ d.latch = Blank
  BY <1>1, <1>2 DEF Open, Flash
<1>4. d \in Flash
  BY DriverType
<1>5. LatchedIn(d, F)
  BY <1>3 DEF LatchedIn, Blank
<1>. QED
  BY <1>1, <1>3, <1>4, <1>5 DEF OnlyIn

LEMMA EraseFootprint ==
  ASSUME NEW c \in Flash, NEW F, LatchedIn(c, F), PageIn(c, F), NEW a \in Addr,
         Sector(a) \subseteq F
  PROVE  LET d == extmem_erase(c, a)
         IN  OnlyIn(c, d, F) /\ d.op # "program" /\ d \in Flash
<1> DEFINE w == send_writeenable(c)
<1>1. OnlyIn(c, w, F) /\ w.op # "program" /\ w \in Flash
  BY WriteEnableFootprint
<1>2. \/ extmem_erase(c, a) = w
      \/ extmem_erase(c, a) = [w EXCEPT !.mem = EraseSector(w.mem, a), !.wel = FALSE, !.busy = TRUE]
  BY DEF extmem_erase
<1>3. extmem_erase(c, a) \in Flash
  BY EraseType
<1> HIDE DEF w
<1>4. \A x \in Addr : x \notin F => EraseSector(w.mem, a)[x] = w.mem[x]
  BY DEF EraseSector
<1>5. OnlyIn(c, extmem_erase(c, a), F)
  BY <1>1, <1>2, <1>4 DEF OnlyIn, Flash
<1>6. extmem_erase(c, a).op # "program"
  BY <1>1, <1>2 DEF Flash
<1>. QED
  BY <1>3, <1>5, <1>6

-----------------------------------------------------------------------------
\* What the handlers may write.

\* A command starts with a footprint that covers the page left open.
LEMMA StartCovers ==
  ASSUME TInv, Footprint, NEW F, Pending \subseteq F
  PROVE  LatchedIn(flash, F) /\ PageIn(flash, F)
<1>1. CASE flash.op = "program"
  BY <1>1 DEF Pending, Footprint, LatchedIn, PageIn
<1>2. CASE flash.op # "program"
  BY <1>2 DEF LatchedIn, PageIn
<1>. QED
  BY <1>1, <1>2

LEMMA WriteByteFootprint ==
  ASSUME TInv, Footprint, NEW b \in Data, WriteFlashByte(b)
  PROVE  Footprint' /\ OnlyIn(flash, flash', foot')
<1> DEFINE opened == IF pageOpen THEN flash ELSE extmem_write_start(flash, addr)
           stored == extmem_write_byte(opened, b)
           close  == (addr + 1) % PageSize = 0 \/ addr + 1 = end
<1>1. /\ flash \in Flash /\ b \in Byte /\ pc = "write" /\ foot' = foot /\ end' = end
      /\ addr' = addr + 1 /\ pageOpen' = ~close
      /\ flash' = (IF close THEN extmem_write_stop(stored) ELSE stored)
      /\ pc' = (IF close THEN "writePoll" ELSE "write")
  BY DEF WriteFlashByte, TInv, TypeOK, Byte
<1>2. addr \in Addr /\ addr \in foot
  <2>1. addr \in Addr /\ addr < end
    BY FlashAssumption DEF WriteFlashByte, TInv, TypeOK, Progress, Addr
  <2>2. Range2(addr, end) \subseteq foot
    BY <1>1 DEF Footprint
  <2>3. addr \in Range2(addr, end)
    BY <2>1 DEF Range2, Addr
  <2>. QED
    BY <2>1, <2>2, <2>3
<1>3. /\ OnlyIn(flash, opened, foot) /\ LatchedIn(opened, foot) /\ opened \in Flash
      /\ opened.op = "program" => opened.ptr = addr
  <2>1. CASE pageOpen
    BY <1>1, <2>1 DEF Footprint, OnlyIn
  <2>2. CASE ~pageOpen
    <3>1. LatchedIn(flash, foot) /\ PageIn(flash, foot)
      BY <1>1, <2>2 DEF Footprint
    <3>. QED
      BY <1>1, <1>2, <2>2, <3>1, WriteStartFootprint
  <2>. QED
    BY <2>1, <2>2
<1> HIDE DEF opened
<1>4. /\ LatchedIn(stored, foot) /\ stored.mem = opened.mem /\ stored \in Flash
      /\ stored.op = "program" => stored.ptr = NextInPage(addr)
  <2>1. CASE opened.op = "program"
    <3>1. stored = Latch(opened, b)
      BY <2>1 DEF extmem_write_byte
    <3>2. stored.ptr = NextInPage(addr)
      BY <1>3, <2>1, <3>1 DEF Latch, Flash
    <3>3. /\ LatchedIn(Latch(opened, b), foot) /\ Latch(opened, b).mem = opened.mem
          /\ Latch(opened, b) \in Flash
      BY <1>1, <1>2, <1>3, <2>1, LatchFootprint
    <3>. QED
      BY <3>1, <3>2, <3>3
  <2>2. CASE opened.op # "program"
    BY <1>3, <2>2 DEF extmem_write_byte
  <2>. QED
    BY <2>1, <2>2
<1> HIDE DEF stored
<1>5. Range2(addr', end') \subseteq foot'
  BY <1>1, <1>2 DEF Footprint, Range2, Addr, TInv, TypeOK
<1>6. CASE close
  <2>1. /\ OnlyIn(stored, flash', foot) /\ flash'.op = "none"
    BY <1>1, <1>4, <1>6, DeselectFootprint DEF extmem_write_stop
  <2>2. OnlyIn(flash, flash', foot')
    BY <1>1, <1>3, <1>4, <2>1 DEF OnlyIn
  <2>. QED
    BY <1>1, <1>5, <1>6, <2>1, <2>2 DEF Footprint, LatchedIn, PageIn
<1>7. CASE ~close
  <2>1. flash' = stored /\ pc' = "write" /\ pageOpen' = TRUE
    BY <1>1, <1>7
  <2>2. NextInPage(addr) = addr'
    BY <1>1, <1>7 DEF NextInPage
  <2>3. OnlyIn(flash, flash', foot')
    BY <1>1, <1>3, <1>4, <2>1 DEF OnlyIn
  <2>. QED
    BY <1>1, <1>4, <1>5, <2>1, <2>2, <2>3 DEF Footprint
<1>. QED
  BY <1>6, <1>7

LEMMA EraseStepFootprint ==
  ASSUME TInv, Footprint,
         BankErase \/ \E b \in Blocks : EraseFlashBlock(b[1])
  PROVE  Footprint' /\ OnlyIn(flash, flash', foot')
<1>1. flash \in Flash
  BY DEF TInv, TypeOK
<1>2. ASSUME NEW b \in Blocks, EraseFlashBlock(b[1])
      PROVE  Footprint' /\ OnlyIn(flash, flash', foot')
  <2>1. /\ b[1] \in Addr /\ flash' = extmem_erase(flash, b[1])
        /\ Pending \subseteq foot' /\ Sector(b[1]) \subseteq foot' /\ pc' = "erasePoll"
    BY <1>2, BlockType DEF EraseFlashBlock, Take
  <2>2. LatchedIn(flash, foot') /\ PageIn(flash, foot')
    BY <2>1, StartCovers
  <2>3. OnlyIn(flash, flash', foot') /\ flash'.op # "program"
    BY <1>1, <2>1, <2>2, EraseFootprint
  <2>. QED
    BY <2>1, <2>3 DEF Footprint, LatchedIn, PageIn
<1>3. CASE BankErase
  <2>1. /\ flash' = extmem_erase(flash, addr) /\ pc = "bankErase" /\ pc' = "bankPoll"
        /\ foot' = foot /\ addr' = addr /\ end' = end /\ addr # end
    BY <1>3 DEF BankErase, cmdVars, history
  <2>2. /\ addr \in Addr /\ end \in Nat /\ addr % EraseSize = 0 /\ end % EraseSize = 0
        /\ addr < end /\ EraseSize \in Nat \ {0}
    BY <2>1, FlashAssumption DEF TInv, TypeOK, Progress, Addr
  <2>3. LatchedIn(flash, foot) /\ PageIn(flash, foot) /\ Range2(addr, end) \subseteq foot
    BY <2>1 DEF Footprint
  <2>4. addr + EraseSize <= end /\ Sector(addr) = Range2(addr, addr + EraseSize)
    <3>1. addr \in Nat /\ addr % EraseSize = 0
      BY <2>2 DEF Addr
    <3>2. addr + EraseSize <= end
      BY <2>2, <3>1, SectorFits
    <3>. QED
      BY <2>2, <3>2, AlignedSector
  <2>5. /\ Sector(addr) \subseteq foot
        /\ Range2(addr + EraseSize, end) \subseteq foot
    BY <2>2, <2>3, <2>4 DEF Range2, Addr
  <2>6. OnlyIn(flash, flash', foot) /\ flash'.op # "program"
    BY <1>1, <2>1, <2>2, <2>3, <2>5, EraseFootprint
  <2>. QED
    BY <2>1, <2>5, <2>6 DEF Footprint, LatchedIn, PageIn
<1>. QED
  BY <1>2, <1>3

LEMMA ReadStepFootprint ==
  ASSUME TInv, Footprint,
         \/ \E kind \in {"read", "crc"}, b \in Blocks : ReadFlash(kind, b[1], b[2])
         \/ ReadFlashByte \/ ReadFlashDone \/ StartLoader \/ LoaderStep \/ WatchdogReset
  PROVE  Footprint' /\ OnlyIn(flash, flash', foot')
<1>1. flash \in Flash
  BY DEF TInv, TypeOK
<1>2. ASSUME NEW kind \in {"read", "crc"}, NEW b \in Blocks, ReadFlash(kind, b[1], b[2])
      PROVE  Footprint' /\ OnlyIn(flash, flash', foot')
  <2>1. /\ b[1] \in Addr /\ flash' = extmem_read_start(flash, b[1])
        /\ foot' = Pending /\ pc' = kind
    BY <1>2, BlockType DEF ReadFlash, Take
  <2>2. LatchedIn(flash, foot') /\ PageIn(flash, foot')
    BY <2>1, StartCovers
  <2>3. LatchedIn(flash', foot') /\ PageIn(flash', foot') /\ flash'.mem = flash.mem
    BY <1>1, <2>1, <2>2, ReadStartFootprint
  <2>. QED
    BY <2>1, <2>3 DEF Footprint, OnlyIn
<1>3. CASE StartLoader
  <2> DEFINE c0 == extmem_read_start(flash, info.ofs)
             c1 == extmem_read_byte(c0)
  <2>1. /\ info.ofs \in Addr /\ flash' = extmem_read_byte(c1) /\ foot' = Pending
        /\ pc' = "header"
    BY <1>3 DEF StartLoader, TInv, TypeOK
  <2>2. LatchedIn(flash, foot') /\ PageIn(flash, foot')
    BY <2>1, StartCovers
  <2>3. LatchedIn(c0, foot') /\ PageIn(c0, foot') /\ c0.mem = flash.mem /\ c0 \in Flash
    BY <1>1, <2>1, <2>2, ReadStartFootprint
  <2> HIDE DEF c0
  <2>4. LatchedIn(c1, foot') /\ PageIn(c1, foot') /\ c1.mem = flash.mem /\ c1 \in Flash
    BY <2>3, ReadByteFootprint
  <2> HIDE DEF c1
  <2>5. LatchedIn(flash', foot') /\ PageIn(flash', foot') /\ flash'.mem = flash.mem
    BY <2>1, <2>4, ReadByteFootprint
  <2>. QED
    BY <2>1, <2>5 DEF Footprint, OnlyIn
<1>4. CASE ReadFlashByte \/ ReadFlashDone \/ LoaderStep \/ WatchdogReset
  <2> DEFINE read == extmem_read_byte(flash)
  <2>1. /\ pc \in {"read", "crc", "header", "data"} /\ foot' = foot
        /\ \/ flash' \in {flash, read} /\ pc' \in {"read", "crc", "data"}
           \/ /\ flash' \in {Deselect(flash), Deselect(read)}
              /\ pc' \in {"reply", "prompt", "stream"}
    BY <1>4 DEF ReadFlashByte, ReadFlashDone, LoaderStep, SendHeader, SendData, LoaderAbort,
                LoaderDone, WatchdogReset, extmem_read_stop, history
  <2>2. LatchedIn(flash, foot) /\ PageIn(flash, foot)
    BY <2>1 DEF Footprint
  <2>3. LatchedIn(read, foot) /\ PageIn(read, foot) /\ read.mem = flash.mem /\ read \in Flash
    BY <1>1, <2>2, ReadByteFootprint
  <2> HIDE DEF read
  <2>4. CASE flash' \in {flash, read} /\ pc' \in {"read", "crc", "data"}
    BY <2>1, <2>2, <2>3, <2>4 DEF Footprint, OnlyIn
  <2>5. CASE /\ flash' \in {Deselect(flash), Deselect(read)}
             /\ pc' \in {"reply", "prompt", "stream"}
    <3>1. OnlyIn(flash, Deselect(flash), foot) /\ Deselect(flash).op = "none"
      BY <1>1, <2>2, DeselectFootprint
    <3>2. OnlyIn(read, Deselect(read), foot) /\ Deselect(read).op = "none"
      BY <2>3, DeselectFootprint
    <3>3. OnlyIn(flash, flash', foot) /\ flash'.op = "none"
      BY <2>3, <2>5, <3>1, <3>2 DEF OnlyIn
    <3>. QED
      BY <2>1, <2>5, <3>3 DEF Footprint, LatchedIn, PageIn
  <2>. QED
    BY <2>1, <2>4, <2>5
<1>. QED
  BY <1>2, <1>3, <1>4

LEMMA StepFootprint ==
  TInv /\ Footprint /\ [Next]_allVars => Footprint' /\ OnlyIn(flash, flash', foot')
<1> SUFFICES ASSUME TInv, Footprint, [Next]_allVars
             PROVE  Footprint' /\ OnlyIn(flash, flash', foot')
  OBVIOUS
<1>1. CASE EnterCommand \/ AbortAtPrompt \/ ExitCommand \/ Reply \/ WriteFlashAbort
           \/ WriteFlashDone \/ EraseBlockPoll \/ BankDone \/ LoadinfoRest \/ LoadinfoAbort
  <2>1. UNCHANGED <<flash, foot>> /\ pc' \in {"prompt", "stream"}
    BY <1>1 DEF EnterCommand, AbortAtPrompt, ExitCommand, Reply, WriteFlashAbort,
                WriteFlashDone, EraseBlockPoll, BankDone, LoadinfoRest, LoadinfoAbort, Take,
                history
  <2>. QED
    BY <2>1 DEF Footprint, LatchedIn, OnlyIn
<1>2. CASE WriteFlashPoll \/ BankPoll \/ LoadinfoOfs \/ LoadinfoLen
  <2>1. /\ UNCHANGED <<flash, foot, end, pageOpen>>
        /\ \/ pc = "writePoll" /\ pc' \in {"prompt", "write"} /\ addr' = addr
           \/ pc = "bankPoll" /\ pc' = "bankErase" /\ addr' = addr + EraseSize
           \/ pc \in {"infoOfs", "infoLen"} /\ pc' \in {"infoLen", "infoRest"}
    BY <1>2 DEF WriteFlashPoll, BankPoll, LoadinfoOfs, LoadinfoLen, cmdVars, history
  <2>2. pc = "writePoll" => ~pageOpen
    BY DEF TInv, Progress
  <2>3. /\ LatchedIn(flash', foot') /\ PageIn(flash', foot')
        /\ flash'.op = "program" => ~(pc' = "write" /\ pageOpen')
    BY <2>1, <2>2 DEF Footprint, LatchedIn, PageIn
  <2>. QED
    BY <2>1, <2>3 DEF Footprint, OnlyIn
<1>3. CASE InfoCommand \/ (\E i \in Infos : WriteLoadinfo(i))
           \/ (\E b \in Blocks : WriteFlash(b[1], b[2]) \/ EraseFlash64k(b[1]))
  <2>1. /\ flash' = flash /\ Pending \subseteq foot'
        /\ pc' \in {"reply", "infoOfs", "write", "bankErase"}
        /\ pc' \in {"write", "bankErase"} => Range2(addr', end') \subseteq foot'
        /\ pc' = "write" => ~pageOpen'
    BY <1>3 DEF InfoCommand, WriteLoadinfo, WriteFlash, EraseFlash64k, Take
  <2>2. LatchedIn(flash, foot') /\ PageIn(flash, foot')
    BY <2>1, StartCovers
  <2>. QED
    BY <2>1, <2>2 DEF Footprint, OnlyIn
<1>4. CASE FlashCycleDone
  <2>1. flash' = [flash EXCEPT !.busy = FALSE] /\ UNCHANGED <<pc, addr, end, pageOpen, foot>>
    BY <1>4 DEF FlashCycleDone, CycleDone, cmdVars, history
  <2>2. /\ flash'.mem = flash.mem /\ flash'.latch = flash.latch /\ flash'.sel = flash.sel
        /\ flash'.op = flash.op /\ flash'.ptr = flash.ptr
    BY <2>1 DEF TInv, TypeOK, Flash
  <2>. QED
    BY <2>1, <2>2 DEF Footprint, LatchedIn, PageIn, OnlyIn
<1>5. CASE MotorChange \/ UNCHANGED allVars
  <2>1. UNCHANGED <<flash, pc, addr, end, pageOpen, foot>>
    BY <1>5 DEF MotorChange, allVars, vars, cmdVars, history
  <2>. QED
    BY <2>1 DEF Footprint, LatchedIn, PageIn, OnlyIn
<1>6. CASE HostStep
  BY <1>1, <1>2, <1>3, <1>6, WriteByteFootprint, EraseStepFootprint, ReadStepFootprint
     DEF HostStep
<1>7. CASE HandlerStep
  BY <1>1, <1>2, <1>7, EraseStepFootprint, ReadStepFootprint DEF HandlerStep
<1>8. CASE StartLoader \/ LoaderStep \/ WatchdogReset
  BY <1>8, ReadStepFootprint
<1>. QED
  BY <1>1, <1>4, <1>5, <1>6, <1>7, <1>8 DEF Next

LEMMA FootprintInductive == Spec => [](TInv /\ Footprint)
<1>1. Init => TInv /\ Footprint
  <2>1. Init => Footprint
    BY DEF Init, Footprint, LatchedIn, PageIn
  <2>. QED
    BY <2>1, InitTInv
<1>2. TInv /\ Footprint /\ [Next]_allVars => (TInv /\ Footprint)'
  BY StepTInv, StepFootprint
<1>. QED
  BY <1>1, <1>2, PTL DEF Spec

\* Whatever is cut short, a step changes only bytes the running command names,
\* or bytes of the page a write cut short left open.
THEOREM OnlyNamed == Spec => OnlyNamedBytesChange
<1>1. TInv /\ Footprint /\ [Next]_allVars =>
        [\A a \in Addr : flash'.mem[a] # flash.mem[a] => a \in foot']_allVars
  BY StepFootprint DEF OnlyIn
<1>. QED
  BY <1>1, FootprintInductive, PTL DEF Spec, OnlyNamedBytesChange

-----------------------------------------------------------------------------
\* The load info.

InfoInv == InfoByLocation /\ saved \in Infos

LEMMA StepInfo == TInv /\ InfoInv /\ [Next]_allVars => InfoInv'
<1> SUFFICES ASSUME TInv, InfoInv, [Next]_allVars PROVE InfoInv'
  OBVIOUS
<1>1. CASE LoadinfoOfs \/ LoadinfoLen
  <2>1. info \in [ofs : Addr, len : Nat] /\ req \in [ofs : Addr, len : Nat]
    BY CommandAssumption DEF TInv, TypeOK
  <2>2. CASE LoadinfoOfs
    BY <2>1, <2>2 DEF LoadinfoOfs, InfoInv, InfoByLocation
  <2>3. CASE LoadinfoLen
    <3>1. info.ofs = req.ofs /\ info' = [info EXCEPT !.len = req.len] /\ req' = req
      BY <2>3 DEF LoadinfoLen, InfoInv, InfoByLocation
    <3>2. info' = req'
      BY <2>1, <3>1
    <3>. QED
      BY <2>3, <3>2 DEF LoadinfoLen, InfoInv, InfoByLocation
  <2>. QED
    BY <1>1, <2>2, <2>3
<1>2. CASE LoadinfoRest
  BY <1>2 DEF LoadinfoRest, InfoInv, InfoByLocation, TInv, TypeOK
<1>3. CASE \/ HostStep /\ ~LoadinfoOfs /\ ~LoadinfoLen /\ ~LoadinfoRest
           \/ HandlerStep \/ EnterCommand \/ StartLoader \/ LoaderStep \/ WatchdogReset
  <2>1. pc' \notin {"infoLen", "infoRest"} /\ saved' = saved
    BY <1>3 DEF HostStep, HandlerStep, LoaderStep, EnterCommand, StartLoader, SendHeader,
       SendData, LoaderAbort, LoaderDone, WatchdogReset, ExitCommand, InfoCommand, WriteFlash,
       WriteFlashByte, EraseFlashBlock, EraseFlash64k, ReadFlash, WriteLoadinfo, Take,
       AbortAtPrompt, Reply, WriteFlashAbort, WriteFlashDone, WriteFlashPoll, EraseBlockPoll,
       BankErase, BankPoll, BankDone, ReadFlashByte, ReadFlashDone, LoadinfoAbort, cmdVars
  <2>. QED
    BY <2>1 DEF InfoInv, InfoByLocation
<1>4. CASE FlashCycleDone \/ MotorChange \/ UNCHANGED allVars
  BY <1>4 DEF FlashCycleDone, MotorChange, allVars, vars, cmdVars, InfoInv, InfoByLocation
<1>. QED
  BY <1>1, <1>2, <1>3, <1>4 DEF Next

LEMMA InfoInductive == Spec => [](TInv /\ InfoInv)
<1>1. Init => TInv /\ InfoInv
  <2>1. Init => InfoInv
    BY DEF Init, InfoInv, InfoByLocation
  <2>. QED
    BY <2>1, InitTInv
<1>2. TInv /\ InfoInv /\ [Next]_allVars => (TInv /\ InfoInv)'
  BY StepTInv, StepInfo
<1>. QED
  BY <1>1, <1>2, PTL DEF Spec

\* The load info in non-volatile memory is one the host sent as a whole,
\* wherever a write_loadinfo is cut short.
THEOREM SavedWhole == Spec => []SavedInfoWhole
<1>1. InfoInv => SavedInfoWhole
  BY DEF InfoInv, SavedInfoWhole
<1>. QED
  BY <1>1, InfoInductive, PTL

\* The inductive invariant the runs check: where the handlers, the chip and the
\* footprint stand at every location.
THEOREM ChipFollowsHandlers == Spec => []IInv
<1>1. TInv /\ ContentInv /\ Footprint /\ InfoInv => IInv
  BY DEF TInv, ContentInv, InfoInv, IInv
<1>. QED
  BY <1>1, Inductive, FootprintInductive, InfoInductive, PTL
=============================================================================
