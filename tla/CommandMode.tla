---------------------------- MODULE CommandMode ----------------------------
(***************************************************************************)
(* command_handler of src-firmware/cmdmode.c and the commands that reach   *)
(* the serial flash or the load info.                                      *)
(*                                                                         *)
(* The host is a C64 on the tape port.  It sends a command, its parameters *)
(* and its data byte by byte; every wait for the host gives up when        *)
(* check_abort(), which is get_motor() here, sees the motor line.  A step  *)
(* is what the handler does between two such waits.                        *)
(* An abort while a parameter arrives leaves nothing behind (the           *)
(* parameters are locals), so a command is taken with its parameters.      *)
(***************************************************************************)
EXTENDS SpiFlash

CONSTANTS
  BankSize,   \* bytes erased by ERASE_FLASH_64K                   (65536)
  Infos,      \* the load infos a host sends: [ofs, len]
  Blocks,     \* the blocks <<address, length>> a host reads, writes and erases
  MaxCmds     \* bound on the commands a behaviour takes

\* A host keeps within the flash and writes at least one byte (ProgRef.md leaves
\* the rest undefined).
ASSUME CommandAssumption ==
  /\ BankSize \in Nat \ {0} /\ BankSize % EraseSize = 0 /\ Size % BankSize = 0
  /\ Infos # {} /\ Infos \subseteq [ofs : Addr, len : Nat]
  /\ Blocks \subseteq {b \in Addr \X (1 .. Size) : b[1] + b[2] <= Size}
  /\ MaxCmds \in Nat

VARIABLES
  flash,      \* the serial flash
  motor,      \* the motor line as get_motor() reads it
  pc,         \* what the firmware does next
  addr, end,  \* the locals of the command: next address, first one beyond
  pageOpen,   \* write_flash: page_open
  info,       \* mcu_eeprom: the RAM copy of the load info
  saved,      \* the load info in non-volatile memory
  req,        \* the load info the host is sending
  cmds,       \* commands taken so far (bounded by MaxCmds)
  \* History, read by the properties only:
  want,       \* the flash as the commands so far ask for it
  foot,       \* the addresses the running command may change
  honest,     \* every byte of this reply is what the flash holds
  cut         \* the motor line has cut a command short

cmdVars == <<addr, end, pageOpen, info, saved, req, cmds>>
history == <<want, foot, honest, cut>>
vars == <<flash, motor, pc, cmdVars, history>>

\* A block [a, b) of addresses.
Range2(a, b) == {x \in Addr : a <= x /\ x < b}

PageOf(a) == {x \in Addr : x - (x % PageSize) = a - (a % PageSize)}

\* The page of a page program that an earlier command left open.
Pending == IF flash.op = "program" THEN PageOf(flash.ptr) ELSE {}

\* The wait for the next command ends with a command and its parameters.
Take(next) ==
  /\ pc = "prompt" /\ ~motor /\ cmds < MaxCmds
  /\ cmds' = cmds + 1
  /\ pc' = next

-----------------------------------------------------------------------------
\* command_handler

\* Mutant: the abort is taken for an unknown command.
AbortAtPrompt_Stays ==
  /\ pc = "prompt" /\ motor
  /\ UNCHANGED vars

\* The motor line, seen while waiting for a command, ends command mode.
AbortAtPrompt ==
  /\ pc = "prompt" /\ motor
  /\ pc' = "stream"
  /\ UNCHANGED <<flash, motor, cmdVars, history>>

\* CMD_EXIT, WRITE_FLASH_FAST and every unknown command return.
ExitCommand ==
  /\ Take("stream")
  /\ UNCHANGED <<flash, motor, addr, end, pageOpen, info, saved, req, history>>

\* The commands that only answer: device info, sizes, capabilities, loader,
\* load info, debug flags.
InfoCommand ==
  /\ Take("reply")
  /\ foot' = Pending
  /\ UNCHANGED <<flash, motor, addr, end, pageOpen, info, saved, req, want, honest, cut>>

\* A short reply goes out, or the motor line cuts it short.
Reply ==
  /\ pc = "reply"
  /\ pc' = "prompt"
  /\ cut' = (cut \/ motor)
  /\ UNCHANGED <<flash, motor, cmdVars, want, foot, honest>>

-----------------------------------------------------------------------------
\* write_flash

WriteFlash(a, n) ==
  /\ Take("write")
  /\ addr' = a /\ end' = a + n /\ pageOpen' = FALSE
  /\ foot' = Range2(a, a + n) \cup Pending
  /\ UNCHANGED <<flash, motor, info, saved, req, want, honest, cut>>

\* Mutant: the page is closed at the end of the data only.
WriteFlashByte_OnePage(d) ==
  LET opened == IF pageOpen THEN flash ELSE extmem_write_start(flash, addr)
      stored == extmem_write_byte(opened, d)
      close  == addr + 1 = end
  IN  /\ pc = "write" /\ addr # end /\ ~motor
      /\ addr' = addr + 1
      /\ flash' = IF close THEN extmem_write_stop(stored) ELSE stored
      /\ pageOpen' = ~close
      /\ pc' = IF close THEN "writePoll" ELSE "write"
      /\ want' = [want EXCEPT ![addr] = Prog(@, d)]
      /\ UNCHANGED <<motor, end, info, saved, req, cmds, foot, honest, cut>>

\* A data byte arrives: open a page if none is open, shift the byte in, and
\* close the page at its end or at the end of the data.
WriteFlashByte(d) ==
  LET opened == IF pageOpen THEN flash ELSE extmem_write_start(flash, addr)
      stored == extmem_write_byte(opened, d)
      close  == (addr + 1) % PageSize = 0 \/ addr + 1 = end
  IN  /\ pc = "write" /\ addr # end /\ ~motor
      /\ addr' = addr + 1
      /\ flash' = IF close THEN extmem_write_stop(stored) ELSE stored
      /\ pageOpen' = ~close
      /\ pc' = IF close THEN "writePoll" ELSE "write"
      /\ want' = [want EXCEPT ![addr] = Prog(@, d)]
      /\ UNCHANGED <<motor, end, info, saved, req, cmds, foot, honest, cut>>

\* get_u8 gives up: return, with the page as it is.
WriteFlashAbort ==
  /\ pc = "write" /\ addr # end /\ motor
  /\ pc' = "prompt" /\ cut' = TRUE
  /\ UNCHANGED <<flash, motor, cmdVars, want, foot, honest>>

WriteFlashDone ==
  /\ pc = "write" /\ addr = end
  /\ pc' = "prompt"
  /\ UNCHANGED <<flash, motor, cmdVars, history>>

\* Mutant: the next page is opened without waiting for this one.
WriteFlashPoll_NoWait ==
  /\ pc = "writePoll"
  /\ pc' = IF motor THEN "prompt" ELSE "write"
  /\ cut' = (cut \/ motor)
  /\ UNCHANGED <<flash, motor, cmdVars, want, foot, honest>>

\* The status poll after a page: check_abort() comes before the loop test.
WriteFlashPoll ==
  /\ pc = "writePoll"
  /\ \/ motor /\ pc' = "prompt" /\ cut' = TRUE
     \/ ~motor /\ ~extmem_write_isbusy(flash) /\ pc' = "write" /\ UNCHANGED cut
  /\ UNCHANGED <<flash, motor, cmdVars, want, foot, honest>>

-----------------------------------------------------------------------------
\* erase_flash_block and erase_flash_64k

EraseFlashBlock(a) ==
  /\ Take("erasePoll")
  /\ flash' = extmem_erase(flash, a)
  /\ want' = EraseSector(want, a)
  /\ foot' = Sector(a) \cup Pending
  /\ UNCHANGED <<motor, addr, end, pageOpen, info, saved, req, honest, cut>>

\* Mutant: the handler answers as soon as the erase command is out.
EraseBlockPoll_NoWait ==
  /\ pc = "erasePoll"
  /\ pc' = "prompt"
  /\ UNCHANGED <<flash, motor, cmdVars, want, foot, honest, cut>>

EraseBlockPoll ==
  /\ pc = "erasePoll" /\ (motor \/ ~extmem_write_isbusy(flash))
  /\ pc' = "prompt"
  /\ cut' = (cut \/ extmem_write_isbusy(flash))
  /\ UNCHANGED <<flash, motor, cmdVars, want, foot, honest>>

\* Mutant: the bank starts at the address given.
Bank_Unmasked(a) == a

Bank(a) == a - (a % BankSize)

EraseFlash64k(a) ==
  /\ Take("bankErase")
  /\ addr' = Bank(a) /\ end' = Bank(a) + BankSize
  /\ want' = [x \in Addr |-> IF x \in Range2(addr', end') THEN Erased ELSE want[x]]
  /\ foot' = Range2(addr', end') \cup Pending
  /\ UNCHANGED <<flash, motor, pageOpen, info, saved, req, honest, cut>>

\* One turn of the loop issues an erase ...
BankErase ==
  /\ pc = "bankErase" /\ addr # end
  /\ flash' = extmem_erase(flash, addr)
  /\ pc' = "bankPoll"
  /\ UNCHANGED <<motor, cmdVars, history>>

\* ... and polls; an abort ends the poll, and the loop goes on.
BankPoll ==
  /\ pc = "bankPoll" /\ (motor \/ ~extmem_write_isbusy(flash))
  /\ addr' = addr + EraseSize
  /\ pc' = "bankErase"
  /\ cut' = (cut \/ extmem_write_isbusy(flash))
  /\ UNCHANGED <<flash, motor, end, pageOpen, info, saved, req, cmds, want, foot, honest>>

BankDone ==
  /\ pc = "bankErase" /\ addr = end
  /\ pc' = "prompt"
  /\ UNCHANGED <<flash, motor, cmdVars, history>>

-----------------------------------------------------------------------------
\* read_flash, read_flash_fast and crc32_flash

\* kind is "read" for the two commands that send the bytes, "crc" for the one
\* that sends a digest of them when it has read them all.
ReadFlash(kind, a, n) ==
  /\ Take(kind)
  /\ addr' = a /\ end' = a + n
  /\ flash' = extmem_read_start(flash, a)
  /\ foot' = Pending
  /\ honest' = TRUE
  /\ UNCHANGED <<motor, pageOpen, info, saved, req, want, cut>>

\* A byte is read; the motor line stops the transfer before it is sent.
ReadFlashByte ==
  LET next == extmem_read_byte(flash)
  IN  /\ pc \in {"read", "crc"} /\ addr # end
      /\ addr' = addr + 1
      /\ \/ /\ ~motor
            /\ flash' = next
            /\ honest' = (honest /\ extmem_read_value(flash) = flash.mem[addr])
            /\ UNCHANGED <<pc, cut>>
         \/ /\ motor
            /\ flash' = extmem_read_stop(next)
            /\ pc' = "prompt" /\ cut' = TRUE
            /\ UNCHANGED honest
      /\ UNCHANGED <<motor, end, pageOpen, info, saved, req, cmds, want, foot>>

\* Mutant: the read is left open.
ReadFlashDone_NoStop ==
  /\ pc \in {"read", "crc"} /\ addr = end
  /\ pc' = IF pc = "crc" THEN "reply" ELSE "prompt"
  /\ UNCHANGED <<flash, motor, cmdVars, history>>

ReadFlashDone ==
  /\ pc \in {"read", "crc"} /\ addr = end
  /\ flash' = extmem_read_stop(flash)
  /\ pc' = IF pc = "crc" THEN "reply" ELSE "prompt"
  /\ UNCHANGED <<motor, cmdVars, history>>

-----------------------------------------------------------------------------
\* write_loadinfo: each field goes into the RAM copy as it arrives, and the
\* copy is written to non-volatile memory behind the last one.

WriteLoadinfo(i) ==
  /\ Take("infoOfs")
  /\ req' = i
  /\ foot' = Pending
  /\ UNCHANGED <<flash, motor, addr, end, pageOpen, info, saved, want, honest, cut>>

LoadinfoOfs ==
  /\ pc = "infoOfs" /\ ~motor
  /\ info' = [info EXCEPT !.ofs = req.ofs]
  /\ pc' = "infoLen"
  /\ UNCHANGED <<flash, motor, addr, end, pageOpen, saved, req, cmds, history>>

LoadinfoLen ==
  /\ pc = "infoLen" /\ ~motor
  /\ info' = [info EXCEPT !.len = req.len]
  /\ pc' = "infoRest"
  /\ UNCHANGED <<flash, motor, addr, end, pageOpen, saved, req, cmds, history>>

\* The call address and the name, then eeprom_flush_loadinfo().
LoadinfoRest ==
  /\ pc = "infoRest" /\ ~motor
  /\ saved' = info
  /\ pc' = "prompt"
  /\ UNCHANGED <<flash, motor, addr, end, pageOpen, info, req, cmds, history>>

\* Mutant: the fields that did arrive are kept.
LoadinfoAbort_Saves ==
  /\ pc \in {"infoOfs", "infoLen", "infoRest"} /\ motor
  /\ saved' = info
  /\ pc' = "prompt" /\ cut' = TRUE
  /\ UNCHANGED <<flash, motor, addr, end, pageOpen, info, req, cmds, want, foot, honest>>

LoadinfoAbort ==
  /\ pc \in {"infoOfs", "infoLen", "infoRest"} /\ motor
  /\ pc' = "prompt" /\ cut' = TRUE
  /\ UNCHANGED <<flash, motor, cmdVars, want, foot, honest>>

-----------------------------------------------------------------------------
HostStep ==
  \/ ExitCommand
  \/ InfoCommand
  \/ \E b \in Blocks : WriteFlash(b[1], b[2])
  \/ \E d \in Data : WriteFlashByte(d)
  \/ \E b \in Blocks : EraseFlashBlock(b[1])
  \/ \E b \in Blocks : EraseFlash64k(b[1])
  \/ \E kind \in {"read", "crc"}, b \in Blocks : ReadFlash(kind, b[1], b[2])
  \/ \E i \in Infos : WriteLoadinfo(i)
  \/ LoadinfoOfs \/ LoadinfoLen \/ LoadinfoRest

HandlerStep ==
  \/ AbortAtPrompt \/ Reply
  \/ WriteFlashAbort \/ WriteFlashDone \/ WriteFlashPoll
  \/ EraseBlockPoll \/ BankErase \/ BankPoll \/ BankDone
  \/ ReadFlashByte \/ ReadFlashDone
  \/ LoadinfoAbort
=============================================================================
