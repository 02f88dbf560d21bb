------------------------------ MODULE Tapecart ------------------------------
(***************************************************************************)
(* The firmware as a user of the flash: main() between its three modes     *)
(* (src-firmware/main.c), the command handler of CommandMode, and the fast *)
(* loader loader_handler.  What the modes do on the tape port while they   *)
(* are entered (pulses, sense line, shift register) is not modelled here.  *)
(***************************************************************************)
EXTENDS CommandMode

CONSTANT Word   \* the modulus of the 16-bit counters (65536)

ASSUME WordAssumption == Word \in Nat \ {0}

VARIABLE left   \* loader_handler: datalen, the bytes it still has to send

allVars == <<vars, left>>

-----------------------------------------------------------------------------
\* MODE_C64COMMAND: c64command_handler runs command_handler when the handshake
\* is through (or returns at once when the motor line stops it).
EnterCommand ==
  /\ pc = "stream"
  /\ pc' = "prompt"
  /\ UNCHANGED <<flash, motor, cmdVars, history, left>>

-----------------------------------------------------------------------------
\* MODE_LOADER: loader_handler

\* Open the read at dataofs and take the two bytes of the load address.
StartLoader ==
  LET c0 == extmem_read_start(flash, info.ofs)
      c1 == extmem_read_byte(c0)
      c2 == extmem_read_byte(c1)
      next == NextInArray(info.ofs)
  IN  /\ pc = "stream"
      /\ pc' = "header"
      /\ flash' = c2
      /\ addr' = NextInArray(next)
      /\ left' = (info.len - 2) % Word
      /\ honest' = /\ extmem_read_value(c0) = flash.mem[info.ofs]
                   /\ extmem_read_value(c1) = flash.mem[next]
      /\ foot' = Pending
      /\ UNCHANGED <<motor, end, pageOpen, info, saved, req, cmds, want, cut>>

\* The six bytes of the header block; the motor line stops any of them.
SendHeader ==
  /\ pc = "header" /\ ~motor
  /\ pc' = "data"
  /\ UNCHANGED <<flash, motor, cmdVars, history, left>>

SendData ==
  /\ pc = "data" /\ left > 0 /\ ~motor
  /\ left' = left - 1
  /\ flash' = extmem_read_byte(flash)
  /\ honest' = (honest /\ extmem_read_value(flash) = flash.mem[addr])
  /\ addr' = NextInArray(addr)
  /\ UNCHANGED <<motor, pc, end, pageOpen, info, saved, req, cmds, want, foot, cut>>

\* tx_byte sees the motor line: the byte is read but not sent.
LoaderAbort ==
  /\ pc = "header" \/ (pc = "data" /\ left > 0)
  /\ motor
  /\ flash' = extmem_read_stop(IF pc = "data" THEN extmem_read_byte(flash) ELSE flash)
  /\ pc' = "stream"
  /\ UNCHANGED <<motor, cmdVars, history, left>>

LoaderDone ==
  /\ pc = "data" /\ left = 0
  /\ flash' = extmem_read_stop(flash)
  /\ pc' = "stream"
  /\ UNCHANGED <<motor, cmdVars, history, left>>

\* The C64 stops clocking for 250 ms: the watchdog resets the controller, which
\* raises chip select and reloads the RAM copy of the load info.
WatchdogReset ==
  /\ pc \in {"header", "data"} /\ ~motor
  /\ flash' = Deselect(flash)
  /\ info' = saved
  /\ pc' = "stream"
  /\ UNCHANGED <<motor, addr, end, pageOpen, saved, req, cmds, history, left>>

-----------------------------------------------------------------------------
\* The environment

FlashCycleDone ==
  /\ flash.busy
  /\ flash' = CycleDone(flash)
  /\ UNCHANGED <<motor, pc, cmdVars, history, left>>

\* The C64 drives the motor line; a reset turns it on.
MotorChange ==
  /\ motor' = ~motor
  /\ UNCHANGED <<flash, pc, cmdVars, history, left>>

-----------------------------------------------------------------------------
Init ==
  /\ \E b \in Data \cup {Erased} :
       flash = [mem |-> [a \in Addr |-> b], sel |-> FALSE, op |-> "none", ptr |-> 0,
                latch |-> Blank, wel |-> FALSE, busy |-> FALSE]
  /\ motor \in BOOLEAN
  /\ pc = "stream"
  /\ addr = 0 /\ end = 0 /\ pageOpen = FALSE
  /\ info \in Infos /\ saved = info /\ req = info
  /\ cmds = 0 /\ left = 0
  /\ want = flash.mem /\ foot = {} /\ honest = TRUE /\ cut = FALSE

LoaderStep == SendHeader \/ SendData \/ LoaderAbort \/ LoaderDone

Next ==
  \/ EnterCommand
  \/ HostStep /\ UNCHANGED left
  \/ HandlerStep /\ UNCHANGED left
  \/ StartLoader \/ LoaderStep \/ WatchdogReset
  \/ FlashCycleDone
  \/ MotorChange

Spec == Init /\ [][Next]_allVars

\* The processor runs whatever it can run, and a flash cycle ends; neither the
\* host nor the motor line owes the device anything.
FairSpec == /\ Spec
            /\ WF_allVars(HandlerStep /\ UNCHANGED left)
            /\ WF_allVars(LoaderStep)
            /\ WF_allVars(FlashCycleDone)

-----------------------------------------------------------------------------
Locations == {"stream", "prompt", "reply", "write", "writePoll", "erasePoll",
              "bankErase", "bankPoll", "read", "crc", "infoOfs", "infoLen", "infoRest",
              "header", "data"}

\* Type invariant.
TypeOK ==
  /\ flash \in Flash
  /\ motor \in BOOLEAN
  /\ pc \in Locations
  /\ addr \in 0 .. Size /\ end \in 0 .. Size
  /\ pageOpen \in BOOLEAN
  /\ info \in [ofs : Addr, len : Nat] /\ saved \in [ofs : Addr, len : Nat] /\ req \in Infos
  /\ cmds \in 0 .. MaxCmds
  /\ left \in 0 .. Word - 1
  /\ want \in [Addr -> Byte] /\ foot \subseteq Addr
  /\ honest \in BOOLEAN /\ cut \in BOOLEAN

-----------------------------------------------------------------------------
\* Where the firmware and the chip stand at each location.

\* The chip c is deselected and write-protected; a cycle may be running.
Settled(c) == ~c.sel /\ c.op = "none" /\ ~c.wel
Idle(c) == Settled(c) /\ ~c.busy

\* A read or a page program is open, and no cycle running.
Reading(c) == c.sel /\ c.op = "read" /\ ~c.busy /\ ~c.wel
Programming(c) == c.sel /\ c.op = "program" /\ ~c.busy /\ c.wel

\* What the flash will hold when the bank is erased from address a on.
Erasing(a) == [x \in Addr |-> IF x \in Range2(a, end) THEN Erased ELSE flash.mem[x]]

\* How far a command is, whether or not one was cut short.
Progress ==
  /\ pc \in {"write", "writePoll", "read", "crc"} => addr <= end
  /\ pc = "write" /\ pageOpen => addr # end
  /\ pc = "writePoll" => ~pageOpen
  /\ pc = "bankErase" => addr <= end
  /\ pc = "bankPoll" => addr + EraseSize <= end
  /\ pc \in {"bankErase", "bankPoll"} => addr % EraseSize = 0 /\ end % EraseSize = 0
  /\ pc \in {"header", "data"} => addr \in Addr

\* The chip and the flash content at each location, as long as no command has
\* been cut short.
ChipByLocation ==
  /\ pc \in {"stream", "prompt", "reply", "infoOfs", "infoLen", "infoRest"} =>
        Idle(flash) /\ want = flash.mem
  /\ pc = "write" /\ ~pageOpen => Idle(flash) /\ want = flash.mem
  /\ pc = "write" /\ pageOpen =>
        /\ Programming(flash) /\ flash.ptr = addr
        /\ want = ProgramAll(flash.mem, flash.latch)
        /\ \A a \in Addr : addr <= a => flash.latch[a] = Erased
  /\ pc \in {"writePoll", "erasePoll"} => Settled(flash) /\ want = flash.mem
  /\ pc = "bankErase" => Idle(flash) /\ want = Erasing(addr)
  /\ pc = "bankPoll" => Settled(flash) /\ want = Erasing(addr + EraseSize)
  /\ pc \in {"read", "crc"} =>
        Reading(flash) /\ want = flash.mem /\ (addr # end => flash.ptr = addr)
  /\ pc \in {"header", "data"} =>
        Reading(flash) /\ want = flash.mem /\ flash.ptr = addr

\* How far a load info has arrived.
InfoByLocation ==
  /\ pc = "infoLen" => info.ofs = req.ofs
  /\ pc = "infoRest" => info = req

\* What the chip c may still write when a page program is open lies in F: the
\* bytes latched so far, and (PageIn) the page in which more may follow.
LatchedIn(c, F) ==
  c.op = "program" =>
    /\ c.sel
    /\ \A a \in Addr : c.latch[a] # Erased => a \in PageOf(c.ptr) /\ a \in F
PageIn(c, F) == c.op = "program" => PageOf(c.ptr) \subseteq F

\* What the running command has yet to write or erase lies in its footprint, and
\* so does a page program that is open, whoever opened it.
Footprint ==
  /\ LatchedIn(flash, foot)
  /\ \/ pc \in {"prompt", "stream"} \/ (pc = "write" /\ pageOpen)
     \/ PageIn(flash, foot)
  /\ pc = "write" /\ pageOpen /\ flash.op = "program" => flash.ptr = addr
  /\ pc \in {"write", "writePoll", "bankErase"} => Range2(addr, end) \subseteq foot
  /\ pc = "bankPoll" => Range2(addr + EraseSize, end) \subseteq foot

\* The inductive invariant behind the properties below.  While no command has
\* been cut short, it says at every location of the handlers what the chip is
\* doing and how far the flash is from what the commands asked for; whether or
\* not one has, how far the command is and where it may still write.
IInv ==
  /\ Progress /\ Footprint /\ InfoByLocation /\ saved \in Infos
  /\ ~cut => ChipByLocation /\ honest

\* Unless the motor line has cut a command short, the flash holds exactly what
\* the commands so far asked for whenever the handler waits for the next one:
\* page crossings, write enables and status polls of write_flash and of the
\* erase commands lose no byte and touch no other.
FlashAsAsked == pc \in {"prompt", "stream"} /\ ~cut => flash.mem = want

\* Unless a command has been cut short, every byte a read command or the fast
\* loader sends (or puts into a CRC) is the flash content at the address it
\* stands for: no read is opened on a chip that is busy or still selected.
RepliesHonest == ~cut => honest

\* Unless a command has been cut short, the handler waits for a command with
\* the chip deselected, idle and write-protected.
ChipReadyAtPrompt ==
  pc = "prompt" /\ ~cut => ~flash.sel /\ ~flash.busy /\ ~flash.wel

\* Whatever is cut short and in whatever order commands follow: a step changes
\* only bytes the running command names, or bytes of the page that a write cut
\* short left open.
OnlyNamedBytesChange ==
  [][\A a \in Addr : flash'.mem[a] # flash.mem[a] => a \in foot']_allVars

\* Non-volatile memory never holds a mixture of two load infos, although the
\* RAM copy does after a write_loadinfo that was cut short.
SavedInfoWhole == saved \in Infos

\* A motor line that stays on brings the device back to streaming mode from
\* wherever it is in a command or in the fast loader.
MotorEndsCommand == (pc # "stream" /\ motor) ~> (pc = "stream" \/ ~motor)

-----------------------------------------------------------------------------
\* What the documentation says and the code does not do.

\* ProgRef.md: fastload mode sends "data read from the flash memory".  (Not
\* claimed while the chip still runs an erase that was cut short.)
FastloadSendsFlash == pc = "data" /\ flash.op # "ignored" => honest

\* ProgRef.md: when the motor line becomes active in command mode, the device
\* "immediately returns to streaming mode": an erase loop that has seen it does
\* not go on to another block.
AbortEndsErase ==
  [][pc = "bankPoll" /\ motor => pc' # "bankErase" \/ addr' = end']_allVars
=============================================================================
