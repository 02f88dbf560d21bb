---------------------------- MODULE OtherDrivers ----------------------------
(***************************************************************************)
(* The firmware built with one of the other memory drivers: the AT45       *)
(* dataflash (DataFlash) or the I2C EEPROM (I2cMemory).  The handlers are  *)
(* those of CommandMode, cut down to the calls they make to the driver     *)
(* (src-firmware/cmdmode.c, and loader_handler in src-firmware/main.c):    *)
(* the motor line may end a command wherever they look at it, and the      *)
(* chip is left as the early return leaves it.                             *)
(***************************************************************************)
EXTENDS Integers

CONSTANTS
  Size, PageSize, SectorSize,
  Data,         \* the bytes a host stores
  Erased,       \* the byte with all bits set
  Bits, EEPROM_ADDR,    \* of the I2C memory
  Contents,     \* what the memory may hold at first
  Blocks,       \* the blocks of memory commands name: <<address, length>>
  Cuts,         \* the motor line may end commands
  MaxCmds       \* bound on commands

NoByte == -1
Any  == -2      \* nothing is promised of this byte

At  == INSTANCE DataFlash WITH Junk <- NoByte
I2c == INSTANCE I2cMemory

ASSUME DriversAssumption ==
  /\ Size \in Nat \ {0} /\ PageSize \in Nat \ {0} /\ SectorSize \in Nat \ {0}
  /\ Size % PageSize = 0 /\ Size % SectorSize = 0 /\ SectorSize % PageSize = 0
  /\ Bits \in Nat \ {0} /\ Erased = I2c!Weight[Bits] - 1 /\ Data \subseteq 0 .. Erased
  /\ EEPROM_ADDR \in 0 .. Erased /\ EEPROM_ADDR % 2 = 0
  /\ Contents \subseteq [0 .. Size - 1 -> Data \cup {Erased}]
  /\ \A b \in Blocks : b[1] \in 0 .. Size - 1 /\ b[2] \in Nat /\ b[1] + b[2] <= Size

VARIABLES
  build,        \* the driver: "at45" or "i2c"
  chip,         \* the memory chip, and what the driver keeps
  stage,        \* prompt, write, writePoll, erasing, erasePoll, read, lookup
  addr, end,    \* of the running command
  pageOpen,     \* page_open of write_flash
  want,         \* what the memory should hold
  pend,         \* the bytes of the page being written
  sound,        \* the running transfer began with the chip listening
  open,         \* a transfer was left in its middle
  honest,       \* every byte of the running read was the memory's
  named,        \* the bytes the running command may change
  cmds,         \* commands so far, for the bound
  polls         \* polls that said busy when no cycle was running

driverVars ==
  <<build, chip, stage, addr, end, pageOpen, want, pend, sound, open, honest, named, cmds, polls>>

Addr == 0 .. Size - 1
NoBytes == [a \in Addr |-> NoByte]

AtBuild == build = "at45"

-----------------------------------------------------------------------------
\* The interface of extmem.h.

extmem_read_start(c, a) ==
  IF AtBuild THEN At!extmem_read_start(c, a) ELSE I2c!extmem_read_start(c, a)
extmem_read_value(c) ==
  IF AtBuild THEN At!extmem_read_value(c) ELSE I2c!extmem_read_value(c)
extmem_read_byte(c, last_byte) ==
  IF AtBuild THEN At!extmem_read_byte(c) ELSE I2c!extmem_read_byte(c, last_byte)
extmem_read_stop(c) ==
  IF AtBuild THEN At!extmem_read_stop(c) ELSE I2c!extmem_read_stop(c)
extmem_write_start(c, a) ==
  IF AtBuild THEN At!extmem_write_start(c, a) ELSE I2c!extmem_write_start(c, a)
extmem_write_byte(c, b) ==
  IF AtBuild THEN At!extmem_write_byte(c, b) ELSE I2c!extmem_write_byte(c, b)
extmem_write_stop(c) ==
  IF AtBuild THEN At!extmem_write_stop(c) ELSE I2c!extmem_write_stop(c)
extmem_write_isbusy(c) ==
  IF AtBuild THEN At!extmem_write_isbusy(c) ELSE I2c!extmem_write_isbusy(c)
Polled(c) == IF AtBuild THEN c ELSE I2c!Polled(c)
extmem_erase(c, a) ==
  IF AtBuild THEN At!extmem_erase(c, a) ELSE I2c!extmem_erase(c, a)
extmem_init(c) ==
  IF AtBuild THEN At!extmem_init(c) ELSE I2c!extmem_init(c)

-----------------------------------------------------------------------------
\* What the memory should hold.

\* The bytes that a write to these addresses may change.
Touched(S) == IF AtBuild THEN UNION {At!PageOf(a) : a \in S} ELSE S

\* A transfer that begins finds the chip listening: no transfer was left in its
\* middle and no cycle runs.
Listening == ~open /\ ~chip.busy

\* A page is stored: what was in it otherwise is lost on the AT45, and everything if
\* the chip was not listening or the first byte does not begin the page.
Stored(p, listened) ==
  LET bytes == {a \in Addr : p[a] # NoByte}
      exact == listened /\ (AtBuild => \E a \in bytes : a % PageSize = 0)
  IN  [a \in Addr |-> IF a \notin Touched(bytes) THEN want[a]
                      ELSE IF exact /\ a \in bytes THEN p[a] ELSE Any]

SectorAt(a) == {b \in Addr : b \div SectorSize = a \div SectorSize}

-----------------------------------------------------------------------------
\* The handlers.

Command(kind, b) ==
  /\ cmds < MaxCmds /\ cmds' = cmds + 1
  /\ stage = "prompt" /\ stage' = kind
  /\ addr' = b[1] /\ end' = b[1] + b[2]
  /\ UNCHANGED <<build, pageOpen, pend, polls>>

Return ==
  /\ stage' = "prompt" /\ addr' = 0 /\ end' = 0 /\ pageOpen' = FALSE
  /\ pend' = NoBytes /\ sound' = TRUE /\ honest' = TRUE /\ named' = {} /\ polls' = 0
  /\ UNCHANGED <<build, cmds>>

\* write_flash
WriteFlash ==
  \E b \in Blocks :
    /\ b[2] > 0 /\ Command("write", b)
    /\ named' = Touched(b[1] .. b[1] + b[2] - 1)
    /\ UNCHANGED <<chip, want, sound, open, honest>>

WriteFlashByte ==
  /\ stage = "write"
  /\ \E b \in Data \cup {Erased} :
    \E c \in {extmem_write_byte(IF pageOpen THEN chip ELSE extmem_write_start(chip, addr), b)} :
       LET p == [pend EXCEPT ![addr] = b]
           s == IF pageOpen THEN sound ELSE Listening
       IN  IF (addr + 1) % PageSize = 0 \/ addr + 1 = end
           THEN /\ chip' = extmem_write_stop(c) /\ want' = Stored(p, s)
                /\ pageOpen' = FALSE /\ pend' = NoBytes /\ sound' = TRUE
                /\ open' = (open /\ ~AtBuild) /\ stage' = "writePoll"
           ELSE /\ chip' = c /\ pageOpen' = TRUE /\ pend' = p /\ sound' = s
                /\ UNCHANGED <<want, open, stage>>
  /\ addr' = addr + 1
  /\ UNCHANGED <<build, end, honest, named, cmds, polls>>

\* A status poll: it gives an answer, and on the I2C bus it moves the chip.
Poll(from, busy) ==
  /\ stage = from
  /\ \E r \in {<<extmem_write_isbusy(chip), Polled(chip)>>} : r[1] = busy /\ chip' = r[2]
  /\ UNCHANGED <<want, open>>

PollAgain ==
  /\ Poll("writePoll", TRUE) \/ Poll("erasing", TRUE) \/ Poll("erasePoll", TRUE)
  /\ polls' = IF chip.busy THEN 0 ELSE polls + 1
  /\ UNCHANGED <<build, stage, addr, end, pageOpen, pend, sound, honest, named, cmds>>

WriteFlashPolled ==
  /\ Poll("writePoll", FALSE)
  /\ IF addr = end THEN Return
     ELSE /\ stage' = "write" /\ polls' = 0
          /\ UNCHANGED <<build, addr, end, pageOpen, pend, sound, honest, named, cmds>>

\* The motor line ends it: the AT45 is left selected, the I2C chip in a page write
\* that its next start condition ends.
WriteFlashAbort ==
  /\ Cuts /\ stage = "write"
  /\ open' = (open \/ (AtBuild /\ pageOpen))
  /\ Return /\ UNCHANGED <<chip, want>>

WriteFlashPollAbort ==
  /\ Cuts /\ (Poll("writePoll", TRUE) \/ Poll("writePoll", FALSE))
  /\ Return

\* erase_flash_block; a host erases whole blocks, and none without an erase size.  The
\* driver waits for the chip before the handler does: in extmem_erase on the AT45, and
\* with polls of its own, which nothing ends early, on the I2C memory.
EraseFlash ==
  \E a \in {x \in Addr : x % SectorSize = 0} :
    /\ Command(IF AtBuild THEN "erasePoll" ELSE "erasing", <<a, 0>>)
    /\ chip' = extmem_erase(chip, a)
    /\ named' = IF AtBuild THEN SectorAt(a) ELSE {}
    /\ want' = [b \in Addr |-> IF b \notin named' THEN want[b]
                               ELSE IF Listening THEN Erased ELSE Any]
    /\ open' = (open /\ ~AtBuild)
    /\ UNCHANGED <<sound, honest>>

EraseWaited ==
  /\ Poll("erasing", FALSE)
  /\ stage' = "erasePoll" /\ polls' = 0
  /\ UNCHANGED <<build, addr, end, pageOpen, pend, sound, honest, named, cmds>>

EraseFlashPolled == Poll("erasePoll", FALSE) /\ Return

EraseFlashAbort == Cuts /\ Poll("erasePoll", TRUE) /\ Return

\* read_flash, read_flash_fast and the data of the fast loader say which byte is the last
\* ("read").  do_dir_lookup, the fast loader's header and crc32_flash do not ("lookup"):
\* crc32_flash asks for len == 0 inside its while (len > 0).
StartReading ==
  \E kind \in {"read", "lookup"}, b \in Blocks :
    /\ kind = "read" => b[2] > 0    \* a read of nothing is a lookup of nothing
    /\ Command(kind, b)
    /\ chip' = extmem_read_start(chip, b[1]) /\ sound' = Listening
    /\ UNCHANGED <<want, open, honest, named>>

ReadByte ==
  /\ stage \in {"read", "lookup"} /\ addr # end /\ addr' = addr + 1
  /\ honest' = (honest /\ extmem_read_value(chip) = chip.mem[addr])
  /\ chip' = extmem_read_byte(chip, stage = "read" /\ addr + 1 = end)
  /\ UNCHANGED <<build, stage, end, pageOpen, want, pend, sound, open, named, cmds, polls>>

\* The end, or an abort behind any byte.  The I2C chip listens again if it was told
\* which byte is the last.
ReadStop ==
  /\ stage \in {"read", "lookup"} /\ (addr = end \/ Cuts)
  /\ chip' = extmem_read_stop(chip)
  /\ open' = (~AtBuild /\ (open \/ stage = "lookup" \/ addr # end))
  /\ Return /\ UNCHANGED want

\* The watchdog bites in the fast loader: main() starts again with extmem_init.
WatchdogReset ==
  /\ stage \in {"read", "lookup"}
  /\ chip' = extmem_init(chip) /\ open' = FALSE
  /\ Return /\ UNCHANGED want

\* The chip's own cycle ends.
CycleDone ==
  /\ chip.busy /\ chip' = [chip EXCEPT !.busy = FALSE]
  /\ UNCHANGED <<build, stage, addr, end, pageOpen, want, pend, sound, open, honest, named, cmds, polls>>

DriversInit ==
  /\ build \in {"at45", "i2c"}
  /\ \E mem \in Contents :
       /\ want = mem
       /\ chip = extmem_init(IF AtBuild THEN At!InitChip(mem) ELSE I2c!InitChip(mem))
  /\ stage = "prompt" /\ addr = 0 /\ end = 0 /\ pageOpen = FALSE
  /\ pend = NoBytes /\ sound = TRUE /\ open = FALSE /\ honest = TRUE /\ named = {} /\ cmds = 0 /\ polls = 0

DriversNext ==
  \/ WriteFlash \/ WriteFlashByte \/ PollAgain \/ WriteFlashPolled
  \/ WriteFlashAbort \/ WriteFlashPollAbort
  \/ EraseFlash \/ EraseWaited \/ EraseFlashPolled \/ EraseFlashAbort \/ StartReading \/ ReadByte \/ ReadStop
  \/ WatchdogReset \/ CycleDone

DriversSpec == DriversInit /\ [][DriversNext]_driverVars

-----------------------------------------------------------------------------
(***************************************************************************)
(* What a host wrote and erased is in the memory, whatever was cut short:  *)
(* a page whose bytes did not all arrive keeps what it held.  Excepted are *)
(* the bytes of a transfer that began when the chip was not listening, and *)
(* on the AT45 the rest of a page (see Stored).                            *)
(***************************************************************************)
AskedIsStored == \A a \in Addr : want[a] # Any => chip.mem[a] = want[a]

(***************************************************************************)
(* A read that began when the chip was listening gives the memory's bytes. *)
(* So it does after a reset by the watchdog, wherever that struck: nine    *)
(* clock pulses get the I2C chip out of the byte it was sending.           *)
(***************************************************************************)
ReadsAreStored == sound => honest

(***************************************************************************)
(* A step changes only bytes that the running command names (on the AT45   *)
(* their pages), also when the bus is out of step or the AT45 was left     *)
(* selected and takes commands for data.                                   *)
(***************************************************************************)
OnlyNamedBytesChange ==
  [][\A a \in Addr : chip'.mem[a] # chip.mem[a] => a \in named \cup named']_driverVars

(***************************************************************************)
(* On a bus that is out of step a chip that is ready may look busy for as  *)
(* many polls as a byte has bits, each poll moving it on by one, and no    *)
(* longer: the loops around the poll end, and with them every write and    *)
(* erase.                                                                  *)
(***************************************************************************)
PollsEnd == polls <= Bits

(***************************************************************************)
(* Nothing is cut short: every read gives the memory's bytes.  (A lookup   *)
(* in the directory or a CRC leaves the I2C chip sending; see README.)     *)
(***************************************************************************)
ReadsAfterLookup == ~Cuts => honest
=============================================================================
