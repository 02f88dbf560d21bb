# A formal model of the tapecart

The tapecart is a flash cartridge for the tape port of a C64.  To the computer it
looks like a datasette that plays one short program; that program switches the
cartridge to a fast loader or to a command mode, in which the flash can be read,
written and erased.  The firmware (`src-firmware/`) runs on an SAMD09 or an AVR,
the C64 side (`src-c64/`) is a loader, a library and a flash tool.

This directory holds TLA+ models of the firmware's logic, the TLC configurations
that check them, and proofs of their main properties.

    tlc -config MCTapecart.cfg MCTapecart      one run
    tlapm TapecartProofs.tla                   the proofs of one module

## 1. Inventory

Line numbers are those of the files under `src/`.

| Part | Source | State | Operations | Talks to |
|---|---|---|---|---|
| Flash driver (W25Q) | `extmem_w25q.c` | none of its own; the chip's select line, command, page buffer, write-enable latch, cycle | `extmem_read_*`, `extmem_write_*`, `extmem_erase`, `extmem_write_isbusy` | called by the command handler and the fast loader |
| Command handler | `cmdmode.c` | locals of the running command, RAM copy of the load info, directory parameters, debug flags | `command_handler` and some twenty commands | the driver, the links, the EEPROM emulation |
| Main loop, fast loader | `main.c` | `mode`, `shift_reg`, `datalen`, watchdog | `main`, `loader_handler` | all of the above |
| Pulse stream, mode switch | `main.c`, `timer.c` | pulse ring and its two indices, sense line, `shift_reg` | `put_pulse`, pulse interrupt, motor interrupt | shared with two interrupts; the C64's `tapecart_cmdmode` and loader |
| EEPROM emulation | `samd09/eeprom.c` | two rows of the controller's flash, a RAM copy of both | flush of load info and of loader code, reload at start | called by `write_loadinfo`, `write_loader` |
| Serial port | `samd09/uart.c` | two ring buffers, data register, interrupt enables | `uart_getc`, `uart_putc`, `UART_HANDLER` | interrupt against main program |
| 1-bit link | `cmdmode.c`, `tapecartif.c` | sense, write and motor lines | byte send and receive on both sides | carries the commands |
| Fast 2-bit link | `bitbanging.c`, `bitbanging.S`, `loader.asm`, `blockwrite.s`, `getbyte_fast.s` | the same lines, timed | bytes and blocks | carries flash data |
| Directory lookup | `cmdmode.c` | directory parameters | `set_dirparams`, `do_dir_lookup` | the driver |
| Other drivers | `extmem_at45.c`, `extmem_i2c.c`, `softi2c.c` | page buffer and address of the AT45; the I2C bus | as the W25Q driver | alternatives at build time |
| Flash tool | `flashtool.c`, `tcrt.c`, `io.c` | file and flash positions, count of erased pages | write file, write TCRT image, one-filer, dump | the command mode, from the C64 |
| Menus, console, board support, production scripts | see `PROJECT.json` | | | |

What is hard in it, and what makes each part right:

* **The motor line can end anything anywhere.**  A reset C64 turns the motor on, and
  every wait of the firmware gives up when it sees it.  Each command has its own
  early returns, at which the flash chip may be selected, write-enabled or in the
  middle of a cycle.  Right means: commands that are *not* cut short do exactly what
  they say; commands that are may leave their own bytes half done, but nothing else,
  and the device always gets back to streaming.
* **The chip ignores commands silently.**  A busy chip ignores all but status
  polls, an unprotected one programs, a selected one takes a command byte for data.
  Right means that no command is sent when it would be ignored or swallowed.
* **Page, sector and bank boundaries.**  A page buffer wraps.  Right means that no
  byte is lost and none strays, for every start and length.
* **Power failures** between and inside erase and write cycles of the emulated EEPROM.
  Right means that a restart finds the last complete load info whenever it can, and that
  a cut write harms nothing but what it writes.
* **Interrupts** between any two accesses to a ring buffer's indices.  Right means a
  queue: no byte lost with room left, none twice, none overtaken.
* **Two processors on four wires.**  One wire serves as ready signal, data in both
  directions and end-of-byte mark, and each side polls it.  Right means that neither
  side takes an old or a passing level for an answer, and that a reset of the C64 at
  any edge leaves the device neither waiting for ever nor with a half byte.
* **Modes are asked for blindly.**  The C64 clocks sixteen bits into a register while
  the device plays a tape; nothing acknowledges them.  Right means that a whole number,
  and nothing else, changes the mode, whatever the device was doing.
* **Counts in units of blocks.**  Files are written in pages and erased in blocks, with
  headers that shift one against the other.  Right means that "Write successful" is
  shown only over a flash that holds the file.

`PROJECT.json` lists the components with their status and each hazard with the line
where it bites and the properties that watch it.

## 2. Modules

```
SpiFlash <- CommandMode <- Tapecart <- MCTapecart, TapecartProofs
LoadinfoStore <= Eeprom   <- MCEeprom                  (<= : is implemented by)
ByteQueue     <= Uart     <- MCUart, UartProofs
TapStream     <- MCTapStream
TapStream     <- ModeSwitch   <- MCModeSwitch, TapStreamProofs
ByteLink      <- MCByteLink
ByteLink, FastTiming          <- LinkProofs
DirLookup     <- MCDirLookup, DirLookupProofs
FlashTool     <- MCFlashTool, FlashToolProofs
DataFlash, I2cMemory          <- OtherDrivers <- MCOtherDrivers
Eeprom, OtherDrivers          <- StorageProofs
ModArithmetic <- TapecartProofs, StorageProofs, UartProofs, TapStreamProofs,
                 DirLookupProofs, FlashToolProofs
```

`Tapecart` and `ModeSwitch` are two views of one device: the first keeps the modes apart
and follows the flash through them, the second follows the lines and the ring and takes a
mode for a location.  They meet in the mode's entry and its return: what `Tapecart` does
between `LOADER` or `COMMAND` being chosen and the return to streaming is one location
(`loader`, `command`) of `TapStream`.

### SpiFlash: the chip and its driver

The chip is a record: array, select line, command taken, pointer, page buffer,
write-enable latch, cycle running.  It is external to the repository and modelled
from what the driver sends it: a falling select edge starts a command, which is
ignored when a cycle runs or (a page program) when the latch is clear; a rising edge
carries out a page program; bytes shifted in without a falling edge are data for
whatever is open.  Each function of `extmem_w25q.c` is an operator from the record
before the call to the record after it.  A byte is one of the values a host stores,
erased (`0xff`) or `Other`; programming a byte over another gives `Other`, since only
the conjunction of the two is left.  The content of a sector under erase is
`Erased` from the start of the cycle; nothing can read it before the cycle ends.

### CommandMode: the commands that reach the flash or the load info

The handler is a location `pc` plus the command's locals.  A step is what the handler
does between two waits for the host, so every abort check is a choice point:

| `pc` | the handler is in |
|---|---|
| `prompt` | `command_handler`, waiting for a command byte |
| `reply` | a short answer |
| `write`, `writePoll` | `write_flash`: before a data byte, in the status poll behind a page |
| `erasePoll` | `erase_flash_block` |
| `bankErase`, `bankPoll` | `erase_flash_64k`: top of the loop, status poll |
| `read`, `crc` | `read_flash`, `read_flash_fast`, `crc32_flash` |
| `infoOfs`, `infoLen`, `infoRest` | `write_loadinfo`: before each field |

The host is a C64 on the tape port, whose waits all see the motor line.  Parameters
are locals, so an abort among them leaves nothing behind and a command is taken
together with its parameters.  Four history variables are read only by properties:
`want`, the flash as the commands so far ask for it; `foot`, the addresses the running
command may change; `honest`, whether every byte of the running reply is the flash
content; `cut`, whether the motor line has cut a command short.

### Tapecart: the three modes

Adds streaming, the fast loader (`header`, `data`), the watchdog reset in it, the end
of a flash cycle and the motor line.  `cut` is never reset; it marks behaviours in
which some command was cut short, and the guarantees below say which of them survive.
What the modes do on the lines before they are entered is not in this module.

### LoadinfoStore and Eeprom: the EEPROM emulation

`Eeprom` has the four slots of the load info row, the loader row, both RAM copies
and the flush and receive loops of `eeprom.c` and `write_loader`.  Power fails between
two cycles (`Restart`, at any step), inside an erase of either row (`TornErase`,
`TornLoaderErase`: any pages erased, any others half erased), or inside the write of a
slot or of a loader page (`TornProgram`, `TornLoaderPage`: marker and content anywhere
between before and after).  Each ends in `eeprom_emu_init`, which loads what the rows
hold then.  History: `last`, the load info of the last flush that ended; `torn`, a cycle
of its row was cut since the row was erased; `wrote`, the loader for which its row was
erased last; `spoilt`, the pages of the loader row whose own cycle was cut; `stored`, the
last flush of a loader ended.  `LoadinfoStore` is the promise: one kept value behind the
RAM copy; a flush may lose it while it runs and has replaced it when it ends.

### ByteQueue and Uart: the serial port

`Uart` splits `uart_getc` and `uart_putc` at every access to a shared variable;
`UART_HANDLER` runs between any two of them, in a receive interrupt (which also runs
its transmit half, as the code does) or a data-register-empty interrupt.  C leaves the
order of `rx_read_idx++` and the load of `rxbuf[...]` open, so the model takes either.
At 115200 baud a byte takes 87 us and the few instructions between the increment and
the mask take less than one, so at most one byte arrives there.  `ByteQueue` is the
promise: a bounded queue.

### TapStream: streaming, the two interrupts, the choice of the mode

`main()` is a program counter over its accesses to what it shares with
`PULSETIMER_HANDLER` and `MOTOR_HANDLER`; both run to their end between any two of
them.  The tape is a round of two blocks, each a leader and two copies of the data with
a trail behind; a pulse is its number in the round, so that "in order" can be said.
Inside `loader_handler` and `c64command_handler` only the accesses to the lines and to
the timer remain.

| `pc` | `main()` is in |
|---|---|
| `boot`, `top`, `clear` | before the loop; the assignments at its top |
| `put`, `store` | `put_pulse`: the wait for a slot, the store |
| `drain`, `fill`, `rewind` | the wait for an empty ring, the `memset`, the 200 ms with sense high |
| `switch`, `loaderEnter`, `loader` | the `switch`; `loader_handler` |
| `cmdEnter` .. `command` | `c64command_handler`, between its switches of the timer |
| `resume`, `check`, `turnOn` | the last lines of the loop |

A pulse lasts at least 180 us and putting one takes a few, so dozens are put between two
timer interrupts; `Pace` grants the model four steps, two pulses.  That is what keeps the
ring from running empty, which the interrupt does not test for.  Three steps are what the
proof assumes; with two, `main()` falls behind and `PulsesInOrder` fails.

### ModeSwitch: the handshake

Adds the C64 and the number it sends (`code`, and the `weight` of the last bit sent):
`tapecart_cmdmode` with its three waits and their timeouts, the loader the
tape carried, the KERNAL's own motor edges, and a reset at any step.  Every port access
is an action; a `minidelay` of 1.8 ms lies between two edges, so that between them the
device gets through the few lines in which it does not wait (`Hasty`, `Tick`).  Assumed
of time, besides: the 200 ms of rewind outlast a handshake under way; a round of the tape
(several seconds) outlasts a call of `tapecart_cmdmode`; the C64 takes seconds to boot;
the 100 ms before the fast loader outlast the motor pulse of the last bit.  The 1 ms
before command mode may or may not outlast it, and the model takes either, see section 6.

### ByteLink and FastTiming: a byte on the wires

`ByteLink` interleaves the device and the C64, one access to the lines at a time, over
lists of transfers of four kinds (to the device by byte or by block, to the C64 by the
1-bit and by the 2-bit protocol) and over whole loads, which the loader counts by
address.  The levels follow from who drives what: lines have pull-ups, the device never
drives sense high, `write` changes hands within a byte of the fast protocol.  The C64 may
be reset at any step: it lets go of the lines at once and the motor line follows about a
millisecond later.  Assumed of time: the device polls every microsecond or so while the
C64 takes several cycles between two accesses (`Settled`: the C64 moves when the device
has seen its last move); `tinydelay` and the `nop`s of the block routine outlast the
device's 10 us; an abort in the last bit of `c64_send_byte`, which returns as if nothing
was, is noticed in the next byte.  Inside a byte of the fast protocol both sides go by
the clock; `Pair` and `Sample` take turns, and `FastTiming` proves from the cycle counts
that they do.

### DirLookup: the directory

`set_dirparams` parameter by parameter, `do_dir_lookup` name byte by name byte and entry
by entry, an abort at each.  Addresses have two digits, low first, in place of three
bytes: `get_u24` stores the first in place of the old number and adds the others, so that
an abort leaves a mixture.  The 16-bit entry count is one store.  The reference is the
directory of `doc/ProgRef.md`: entry `e` starts at `base + e * (name + data length)`.

### FlashTool: files into flash

`write_file` with its three callers, the erase of the rest of the cartridge behind an
image, and the dump, over the geometries a cartridge can report: blocks of several pages,
of another number of pages, of as many as fill a 16-bit size in bytes, and none.  Byte `i` of the file of job `j` is
`<<j, i>>`, so the flash tells where each of its bytes came from.  The commands it sends
do what `FlashAsAsked` promises (`Written`, `EraseBlock`); a byte written over one that
is not erased is `Mixed`.  All counters keep the code's widths.

### DataFlash, I2cMemory, OtherDrivers: the other memory chips

`DataFlash` is the AT45 with `extmem_at45.c` in the manner of `SpiFlash`: the chip's page
buffer keeps its bytes between commands, sector 0 comes in two parts.  `I2cMemory` is
an EEPROM on a bus with `softi2c.c` and `extmem_i2c.c`, one change of SCL or SDA at a
time: start and stop conditions arise from the levels of both ends, so a chip that holds
SDA low hides them, as it does in the world.  A start condition ends a page write
without storing it.  `OtherDrivers` runs the handlers of `cmdmode.c` and `loader_handler`,
cut down to their driver calls, over either (`build`).  History: `want`, what the
memory should hold (`Any` where nothing is promised); `pend`, the bytes of the open page;
`sound`, the running transfer began with the chip listening; `open`, a transfer was left
in its middle, which on the I2C bus only a reset clears (the chip may have recovered
earlier, so the promises are the weaker for it).  A host erases blocks at their start.
On the I2C memory `extmem_erase` polls the chip itself before the handler does
(`extmem_i2c.c:100`), a wait the motor line does not end (`erasing`, `EraseWaited`).
`polls` counts the polls in a row that found a chip busy which runs no cycle.

## 3. Runs

| Run | Configuration | Shows |
|---|---|---|
| `core` | `MCTapecart.cfg` | inductive invariant, `FlashAsAsked`, `RepliesHonest`, `ChipReadyAtPrompt`, `SavedInfoWhole`, `OnlyNamedBytesChange`; `MotorEndsCommand` under fairness |
| `fastload_after_abort` | `FastloadSendsFlash.cfg` | a violation, see section 6 |
| `eeprom` | `Eeprom.cfg` | `SpareSlotKeepsOld`, `LoaderNotMixed`, `LoaderKept`, power failing between and inside all cycles; `Eeprom` implements `LoadinfoStore` |
| `uart` | `Uart.cfg` | each ring implements `ByteQueue`; no interrupt storm, every byte is sent, with a host that waits for replies |
| `tap_stream` | `TapStream.cfg` | pulses in order and whole, timer with motor; the rewind and a requested mode are reached |
| `mode_switch` | `ModeSwitch.cfg` | a mode only by a whole number, `true` only in command mode, the loader is heard |
| `mode_switch_live` | `ModeSwitchLive.cfg` | the loader gets to the fast loader; a patient C64 gets to command mode, unless its last motor pulse is taken for an abort |
| `flash_tool` | `FlashTool.cfg` | files, images and dumps are what they should be; every job ends, but for the erase behind an image in blocks of 64 KB |
| `flash_tool_unaligned` | `FlashToolUnaligned.cfg` | a violation, see section 6 |
| `dir_lookup` | `DirLookup.cfg` | a lookup answers as the directory says |
| `links` | `ByteLink.cfg` | no contention, bytes arrive whole, both sides in step, every transfer ends |
| `other_drivers` | `OtherDrivers.cfg` | what was asked is stored, reads are the memory's, polls end, only named bytes change |

Eight more configurations show the behaviours of section 6 that have no run of their own.

**Bounds.**
*Core:* 16 bytes of flash in pages of 2, sectors of 4 and banks of 8, so every size
divides the next and there are two banks, of two sectors, of two pages.  One block starts
inside a page and crosses a page and a sector boundary, the other ends with the flash, in
the second bank.  Two commands (`MaxCmds`): the first can be cut short anywhere and the
second meets what it left; fastloads and resets are not counted, so longer behaviours
occur, and the proofs do away with the bound.  `Word` is 16 instead of 65536 so that
`datalen` has a wrap in reach.  The two load infos differ in both fields, so that a
mixture is neither.
*EEPROM:* three slots instead of four (a first, a last and one between), two loader pages
instead of three, two load infos and two loaders (symmetric); no bound on the number of
flushes, so the row fills again and again; power fails between any two steps and inside
every cycle of both rows.  The proofs are for any number of slots and pages.
*UART:* buffers of 4 instead of 64, six bytes each way, which leads all indices around
the ring and through empty and full.
*TapStream:* a ring of 4 slots, blocks of 2 leader, 1 data and 4 trailing pulses: the
trail just fits the ring, as 61 pulses fit 64 slots, and a round leads around the ring
several times.  `shift_reg` has two bits, so both modes are two edges away; the rounds
are not bounded.
*ModeSwitch:* the real register and numbers; a ring of 2 and the shortest tape, two
pulses to count instead of 100.  In the safety run one KERNAL edge and one reset in every
round of the tape, and any number of rounds: a round takes not much longer than a C64 takes
from a reset to the next program.  `NumbersApart`, on which the proofs rest, is an
assumption of `MCModeSwitch`, so TLC evaluates it for these numbers; by them the number of
KERNAL edges does not matter.  Two resets and two edges are too much (section 6).  Timeouts
(`Impatient`) in the safety run only: a C64 that gives up gets nowhere.  Without them a C64
whose last pulse was taken for an abort waits for ever, so that the live run does not check
for deadlock.
*FlashTool:* pages of 4; blocks of 2, 3 and 4 pages and none, a flash that is no multiple
of the buffer; four pages fill `Word` as 128 pages of 512 bytes fill 16 bits; eight lengths
from 0 to just behind a block; two jobs, the second over what the first left.
*DirLookup:* every flash of five bytes of two values, every base, zero or two entries, names
of 0, 1 and 3 bytes with a buffer of 2, data of 0 or 1: entries run across the end of the
flash and names are cut to the buffer.
*ByteLink:* real bytes of eight bits: both ends of both levels and the alternating
pattern; every list of two transfers of the four kinds, loads of one and two bytes at
every start, also across the end of memory (addresses are one byte).
*OtherDrivers:* two sectors of two pages of two bytes; three commands, so that one is cut
short, one meets what it left, and one tells.  Bytes of five bits hold the upper five of
the I2C address; nine clock pulses of a reset become six.  With four bits a chip that is
out of step is released by the first poll, and the motor line never finds the handler's
own wait for an erase: with five, several polls are needed.  Commands are counted, so the run
does not check for deadlock; neither do `uart` and `flash_tool`, where nobody has to
send a byte or start a job.

**Fairness.**  `Tapecart`: weak fairness of the handler's own steps, of the loader's
steps and of the end of a flash cycle; the processor does nothing else, and the chip
guarantees its cycle times.  The host owes nothing: its bytes, the watchdog and the
motor line have no fairness, and `MotorEndsCommand` is about a motor line that stays
on.  `Uart`: weak fairness of an enabled interrupt, of the wire, and of the steps
inside `uart_getc` and `uart_putc`; none for new bytes of either side.  `TapStream` and
`ModeSwitch`: the timer ticks (weak), and `main()` is *strongly* fair: its waits are
enabled and disabled again by the lines, but a line takes the better part of a
millisecond to move and a poll takes a microsecond, so a wait whose condition comes true
again and again sees it.  The same holds of the C64's waits in `ModeSwitch`; a reset, the
KERNAL and the start of a program owe nothing.  `FlashTool`: the tool works on; the user
owes nothing.  `ByteLink`: both processors run, and a reset does turn the motor on.

**Half duplex.**  With `polite` the host sends only while nothing waits to be sent.
`mass-programmer/scripts/tcprog.rb` works that way: it waits for the reply to each
command before the next one.  The queues are checked with and without it,
`NoInterruptStorm` and `AllSent` with it: otherwise the storm of section 6 is possible, and
`NoInterruptStorm` says nothing of it.

`PollsEnd` bounds, in place of a liveness property, the polls in a row that find a chip
busy which runs no cycle: each moves a chip that is out of step on by one bit.  The type
invariants of `Eeprom`, `Uart`, `DirLookup`, `FlashTool` and `ByteLink` are stated in the
modules and not part of a run.

Every property has a mutant in `PROJECT.json`: a variant of one definition, with a
plausible bug, under which the run fails.  The variants are the operators with an
underscore suffix and a comment `Mutant:`.

## 4. Properties

*The core.*

* `FlashAsAsked`: whenever the handler waits, and nothing has been cut short, the
  flash is exactly what the commands asked for.
* `RepliesHonest`: under the same condition, every byte sent or put into a CRC is
  the flash content at its address.
* `ChipReadyAtPrompt`: under the same condition, the handler waits with the chip
  deselected, idle and write-protected.
* `OnlyNamedBytesChange`: *without* that condition, a step changes only bytes the
  running command names, or bytes of a page that a write cut short left open.
* `SavedInfoWhole`: without it too, no mixture of two load infos becomes permanent (on the
  SAMD09; for the AVR see section 7).
* `MotorEndsCommand`: a motor line that stays on leads back to streaming.

*The EEPROM emulation.*

* `StoreSpec`: a flush that has ended is what the next restart loads, through full rows,
  restarts and torn cycles.
* `SpareSlotKeepsOld`: what a flush into a spare slot leaves, wherever it is cut.  The old
  load info is not touched.  Whether a restart loads it goes by the marker of the new slot:
  `eeprom_emu_init` has no other test (`eeprom.c:120`), and marker and content are
  programmed in one cycle, so a cut inside that cycle can leave a slot that is loaded
  although its content is half written.  The property says exactly this much; from then on,
  until the row is erased, `LoadinfoStore` promises nothing.
* `LoaderNotMixed`, `LoaderKept`: a cut flush of the loader leaves no pages of two loaders,
  and one that ended a whole loader.  Nothing marks the row as whole: a restart takes
  erased and spoilt pages for the loader as well.

*Stream and modes.*

* `PulsesInOrder`, `StreamPlayedWhole`: the interrupt plays the tape and nothing else,
  although it never asks whether the ring holds anything.
* `MotorRunsTimer`: while the tape is streamed with the motor on the timer runs, however
  the motor interrupt and the main loop's own switching overtake one another.
* `RewindsAfterLoad`, `RequestIsTaken`: a stopped motor, a full ring and a timer that is
  off do not keep the main loop from the rewind or from a mode.
* `OnlyWholeCodes`, `TrueMeansCommand`, `LoaderIsHeard`: no bits left in the register by
  anybody make up a number with those that follow; the C64's idea of the mode is right.
* `LoaderGetsLoader`, `CommandOrTakenForAbort`: and it gets there; to command mode unless
  the device takes the pulse of the last bit for an abort, which the delay of the code
  allows (section 6).

*Links, directory, tool, drivers.*

* `NoContention`, `BytesArrive`, `InStep`, `LinkEnds`: at every interleaving and reset.
* `LookupAnswers`: after a complete set of parameters nothing of an interrupted one shows.
* `FilesWritten`, `TcrtWritten`, `DumpIsFlash`: the tool's "successful" is true.
* `JobsEndOrStuck`: every job ends.  One cannot, on cartridges with blocks of 64 KB
  (`Stuck`, section 6), and the property names it: `JobsEnd`, without the exception, fails.
* `AskedIsStored`, `ReadsAreStored`, `OnlyNamedBytesChange`, `PollsEnd`: the core's
  promises on the other chips, with what an aborted transfer takes away from them.

## 5. Proofs

**The core.**  These theorems are about `Spec` of `Tapecart` for every value of the
constants that satisfies three assumptions: `FlashAssumption` (sizes are positive, pages and sectors
divide the flash; `0xff`, stored bytes and `Other` differ), `CommandAssumption` (a bank
is a whole number of sectors and divides the flash; a host keeps blocks inside the
flash and sends load infos that point into it) and `WordAssumption`.  TLC evaluates
all three.

`FlashAsAsked` is not inductive: it says nothing about the middle of a command.  The
inductive invariant `IInv` says at every location what the chip is doing and how far
the flash is from `want`.  Its parts are proved separately, each relative to the type
invariant:

| Lemma | Invariant | Why |
|---|---|---|
| `StepTInv` | `TypeOK /\ Progress` | addresses stay in the flash because blocks end in it, pages wrap inside it, and sectors fit a bank |
| `StepContent` | `ChipByLocation`, `honest` while `~cut` | inside `write`, `want` is the flash with the page buffer programmed into it, and the buffer is blank from `addr` on; inside a bank erase, the flash with the rest of the bank erased |
| `StepFootprint` | `Footprint` | whatever is latched lies in one page and in `foot`; the rest of a command's block lies in `foot`; a page left open is added to the `foot` of the next command, because that is what will close it |
| `StepInfo` | `InfoByLocation` | fields that have arrived agree with what the host is sending |

and give

| Theorem | States |
|---|---|
| `TypeCorrect` | `Spec => []TypeOK` |
| `FlashCorrect`, `ReadsCorrect`, `ChipReady` | `[]FlashAsAsked`, `[]RepliesHonest`, `[]ChipReadyAtPrompt` |
| `OnlyNamed` | `OnlyNamedBytesChange` |
| `SavedWhole` | `[]SavedInfoWhole` |
| `ChipFollowsHandlers` | `[]IInv`, the invariant the `core` run checks |

`ModArithmetic` holds what they need of division: rounding down, blocks, sums of
multiples.  In `TapecartProofs` the lemmas about the driver come first (`LatchType` to
`DriverType`, `ReadStart`, `EraseIdle` and others), then one lemma per group of actions.
The second half repeats the scheme for what a driver function may change on a chip
in *any* state (`SwallowFootprint` to `EraseFootprint`).

**The EEPROM emulation** (`StorageProofs`, from `EepromAssumption`).  Which slot is loaded
after a power cut depends on how all slots were filled before, so `SpareSlotKeepsOld`
does not follow from its own assumption.  `EInv` adds that the used slots come in order
(`SlotsInOrder`), which page a flush has reached (`PageOfFlush`), that the last slot used
before the flush still holds the old load info (`LastIsKept`), and how much of a loader is
in place at each location (`LoaderByLocation`): while the row is written its pages before
the current one are the new loader's and the others erased, so that a cut cycle spoils one
page.  `SpareStep` is the step out of the write of a spare slot: whatever it is, one slot
changes at most (`LastUsed` gives what is loaded then, by that slot's marker).  A restart
takes the last used slot, `Max` of a set; that a non-empty set of slots has a greatest
member (`GreatestMember`) is proved from the well-foundedness of the natural numbers.

| Theorem | States |
|---|---|
| `EepromTypeCorrect`, `OldInfoKept` | `[]TypeOK`, `SpareSlotKeepsOld` |
| `OneLoader`, `StoredLoaderKept` | `[]LoaderNotMixed`, `[]LoaderKept` |
| `StoreImplemented` | `Spec => StoreSpec`: the slots are a load info that is committed as a whole |

**The other memory chips** (same module, from `DriversAssumption`: sizes divide, a byte
with all bits set is `2^Bits - 1`, the device address is even, a host keeps blocks inside
the memory).  The theorems have one hypothesis, `Addressable`: the I2C driver sends two
address bytes, so the memory has no more than `2^Bits * 2^Bits` bytes; the AT45 takes
three and needs none.

On the AT45 `AtInv` says whether the bytes of the open page are in the chip's buffer
(`PageHeld`), which pages the rest of a write may touch (`Writing`), when the chip may be
selected (`Selected`) and where a read stands (`ReadingOn`).  On the I2C memory the
lemmas go up from one line change to a call of the driver: a bit heard (`BitHeard`), a byte
(`SentHeard`, `AckByte`), start and stop (`Start`, `StopTaking`, `StopDeaf`), a whole
`Select` (`SelectOpens`), a byte sent back (`SendsByte`), the pulses of a reset
(`PulsesEnd`).  Two conditions cover every state of the bus between two calls: the chip
hears (`Hears`), or it does not take bytes at all (`Deaf`) and nothing the master does
reaches the array.  `I2cInv` adds where each occurs (`OnTheBus`), what may be latched
(`PageNamed`) and when both ends are at the same byte (`InStep`).

A byte is a loop over its bits, here a recursive function, and no theorem of the library
unfolds one: `CountUp` is induction for a *set* of numbers, proved from the
well-foundedness of the naturals, and gives the existence of the function and with it its
equation (`WeightRec`, `SentRec`, `ReceivedRec`, `PulsedRec`).  A fact about every bit is
then the set of the numbers of bits for which it holds.

For `PollsEnd`, `PollCount` relates the count to the bit a chip that is out of step is at:
a poll has one clock pulse more than a byte and its acknowledge, so every poll that goes
unnoticed leaves the chip one bit further on (`PollCounts`), and a chip that is idle and
ready answers (`IdleAnswers`).

| Theorem | States |
|---|---|
| `DriversStore`, `DriversRead` | `[]AskedIsStored`, `[]ReadsAreStored`, for every width of a byte and any number of commands |
| `DriversKeepTheRest` | `OnlyNamedBytesChange` |
| `DriversPollsEnd` | `[]PollsEnd`: the waits end within as many polls as a byte has bits |

Three attempts failed for a reason in the model, which was changed: the guards of a `CASE`
in `I2cMemory` overlapped; the driver's own wait behind an erase was missing; and
`PollsEnd` said "once", which is true of four-bit bytes only.

**The serial port** (`UartProofs`, from `UartAssumption`).  The first half proves what
putting into a ring, taking from it and storing behind its end do to the *sequence* it
holds (`RingPut`, `RingGet`, `RingStore`): index by index, from division with remainder.
The invariant `UInv` then says for the receiver that the byte `uart_getc` is taking is
in `tmp` and that the one byte that may arrive before its index is masked leaves that
slot alone (`RxInv`); for the sender, that the room waited for stays free although a
receive interrupt may move `tx_read_idx` at any point of the update (`TxInv`).

| Theorem | States |
|---|---|
| `UartTypeCorrect`, `NeverStorms` | `[]TypeOK`, `[]NoInterruptStorm` |
| `ReceiverIsQueue`, `SenderIsQueue` | `Spec => RxIsQueue`, `Spec => TxIsQueue`: both implement `ByteQueue` |

**The directory** (`DirLookupProofs`, from `DirAssumption`).  `DInv` says which parameters
have arrived (`Arrived`), and that they are the last ones asked for if none was cut
short (`Agreed`); that the flash offset stands at the entry that is compared, and no
entry before it has the name (`Searching`); and which bytes of the data were sent
(`Sent`).  `DirTypeCorrect` and `LookupCorrect` state `[]TypeOK` and `[]LookupAnswers`.

**The pulse stream** (`TapStreamProofs`, from `TapStreamAssumption`).  The interrupt takes
whatever the next slot holds, so `PulsesInOrder` rests on where the two indices are.
`RingInv` measures by `Distance` how far the slot read next lies behind the one written
last.  The slots behind that one hold the unheard pulses of the round in order, and before
the first of them what was there before (`Stored`); the slot read next is the first of
those or, as long as nothing of the round was heard, one before it; and when the next
interrupt may be due (`Due`, by the steps since the last), two pulses at least are unheard
(`InStep`).  At the end of a round the trail is what the interrupt finds.

| Theorem | States |
|---|---|
| `StreamTypeCorrect`, `MotorAlwaysHeard` | `[]TypeOK`, `[]MotorRunsTimer` |
| `PulsesPlayInOrder`, `RoundsPlayWhole` | `PulsesInOrder`, `StreamPlayedWhole`, for a ring and a tape of any size |

**The mode switch** (same module, and `ModeSwitchAssumption`: every divisor of the
register's size but 1 is even, which makes the size a power of two).  `SwitchStreams`
states that `ModeSwitch` is a `TapStream` whose lines the C64 moves, so the theorems above
hold of it.  `TrueAnswers` states `[]TrueMeansCommand` for any two different numbers, any
count of pulses, resets and motor edges of the KERNAL, timeouts or none, and either delay.
Its invariant `SwitchInv` is about a call of `tapecart_cmdmode` from the low level of
sense on (`Calling`).  `Register`: the register's last bits are those sent so far, unless
`main()` cleared it since; then it holds no more than they make up, so that it can only be
the number when that is whole.  `Hurry`: the C64 moves once at most while the device is in
a stretch without waits, so it cannot get past a bit while the device turns a round.
`Requested`, `TimerOn`: sense stays high over three steps of the C64 only in a mode, and
behind the last bit of this number the mode is command mode, where `CommandOn` alone
turns the timer on while the motor is off.

`LoaderIsAlwaysHeard` and `WholeCodesOnly` cannot hold of any two numbers: nothing marks
the beginning of a number, so what is left in the register may make up a number with the
first bits of the next one.  They assume one reset in a round at most, any number of motor
edges of the KERNAL, and `NumbersApart`, a statement about the two numbers alone:
`Kept` is what a round leaves in the register without a reset (the end of a command
number that `main()` cut by clearing the register, or the whole of it, and the zeros of
further edges), `Torn` what a reset finds on top of that, `Left` what there can be behind
it; no number sent over one of these makes either number before its last bit.  The sets
are closed under what the program does because sending bits is one operator (`Onto`: the
leftover's low bits, then the number's high bits; `Zeros` is `Onto` for the number 0), and
`OntoStep`, `CutStep` say what one more bit does to it.  `BitsInv` says which set the
register is in wherever the C64 stands (`Resting`, `CommandBits`), that the device does
not turn a round while the loader's number is sent (`LoaderBits`), and that behind it the
device is on its way to the fast loader (`Loading`).  A loader number torn by a reset is
left out of the sets; with the real numbers `NumbersApart` would fail of it.  It does no
harm because it is sent only when the data of the round has been heard, a C64 needs longer
than the rest of that round to boot, and the next round clears the register.  That `heard` only grows in a round is the theorem about the
pulse ring again (`RingReads`).

| Theorem | States |
|---|---|
| `SwitchStreams` | `SwitchSpec => Spec` of `TapStream` |
| `TrueAnswers` | `[]TrueMeansCommand` |
| `LoaderIsAlwaysHeard`, `WholeCodesOnly` | `[]LoaderIsHeard`, `OnlyWholeCodes`, for numbers that satisfy `NumbersApart` and one reset in a round |

**The links** (`LinkProofs`, from `LinkAssumption`).  `LinkInv` has one part for each way
two sides can stand to one another: between transfers (`AtRest`), a byte to the device
(`Sending`, and `Leaving` behind its last bit), one to the C64 bit by bit (`Receiving`) or
in pairs (`Pairing`), and after a reset (`Cut`).  Each lists which locations go together,
what is on the lines, and which bits have crossed; bytes are put together and taken apart
by lemmas over all 256 of them (`RestStep`, `FastStep` and others).

| Theorem | States |
|---|---|
| `LinesHaveOneDriver`, `ReceivedBytesAreSent`, `SidesStayInStep` | `[]NoContention`, `[]BytesArrive`, `[]InStep`, for any number of transfers and loads of any length |
| `NothingAskedBeyondTheList` | the loader counts addresses and ends with the last byte |
| `PairsInStep` | the cycle counts of both sides of a pair (`FastTiming`) fit, for every clock and every reaction of the device in the ranges it names; there is no state, and so no run |

**The flash tool** (`FlashToolProofs`, from `FlashToolAssumption`).  `ToolInv` says for each
location which bytes of the file are in the flash, that what the count of erased pages
promises is erased (`ImageInv` and the invariants by location), and that file and flash
positions differ by the header.  The assumption has `page * erase <= Word`, the largest
block that 16-bit counters can meet; the late prototype's is equal to it.

| Theorem | States |
|---|---|
| `FilesAreWritten`, `ImagesAreWritten`, `DumpsAreFlash` | `[]FilesWritten`, `[]TcrtWritten`, `[]DumpIsFlash`, for all geometries, lengths, offsets and any number of jobs |

Only model-checked:

* liveness, which the prover cannot treat: `MotorEndsCommand`, `AllSent`,
  `RewindsAfterLoad`, `RequestIsTaken`, `CommandOrTakenForAbort`, `LoaderGetsLoader`,
  `JobsEndOrStuck`, `LinkEnds`;
* that the two real numbers satisfy `NumbersApart`: a fact about 1612 values of the
  register, which TLC evaluates;
* that more than one reset in a round is too much for `OnlyWholeCodes` (section 6), which
  is why the theorems about it allow one.

## 6. Where the code and its documentation differ

Two have a run of their own:

* **A write cut short inside a page leaves the chip selected** (`cmdmode.c:287`).
  `write_flash` returns without `extmem_write_stop`.  The next fastload's read command
  is taken for page data, and the C64 is sent bytes that are not in the flash, where
  `doc/ProgRef.md:36` promises "data read from the flash memory".  The stray bytes also
  get programmed into that page, which is why `OnlyNamedBytesChange` allows it.
* **A data file written from inside an erase block destroys itself** (`flashtool.c:181`).
  `write_datafile` starts with `pages_erased = 0` at any offset, so the first block is
  erased under its neighbours and the count of erased pages is behind by what lies before
  the offset: the next block is entered unerased and erased halfway through.  The tool
  says "Write successful".

The others are shown by configurations beside the runs, whose property TLC finds violated:

| Command | Shows |
|---|---|
| `tlc -config AbortEndsErase.cfg MCTapecart` | The motor line does not end a 64 KB erase (`cmdmode.c:345`): it ends the poll of one sector, and the loop goes on.  `doc/ProgRef.md:31-34` says the device "immediately returns to streaming mode". |
| `tlc -config UartTxUpdate.cfg MCUart` | The transmit buffer is not protected while it is updated (`uart.c:115`).  The comment above says the interrupt is disabled; a received byte enters the same handler and its transmit half.  If that empties the buffer just before `uart.c:118`, the interrupt is enabled with nothing to send, and the handler is entered without end. |
| `tlc -config TapStreamRace.cfg MCTapStream` | The motor stops between the test and the call at the end of `main()` (`main.c:389`): the timer is left running with the motor off, until the next stop. |
| `tlc -config ModeSwitchLate.cfg MCModeSwitch` | Command mode is entered 1 ms behind the last bit "so that the motor signal can be turned off" (`main.c:379`), but the C64 holds it on for a `minidelay` of 1.8 ms.  When the number ends in the rewind, which looks for the mode every millisecond, `c64command_handler` can take the motor for an abort and go back to streaming, and the tool says that no tapecart was detected.  (A number that ended before the rewind has that millisecond on top.)  `CommandOrTakenForAbort` excepts this, and nothing else. |
| `tlc -config ModeSwitchResets.cfg MCModeSwitch` | Nothing tells the device where a number begins (`main.c:107`).  Two resets and two edges of the KERNAL within one round leave bits in `shift_reg` that make up a number with the first bits of the next one, and the device changes its mode before that is sent. |
| `tlc -config FlashToolLate.cfg MCFlashTool` | `page_size * erase_pages` is a 16-bit product (`tcrt.c:138`): on a cartridge with blocks of 512 bytes by 128 pages it is 0 and the erase of the rest does not end.  `doc/ProgRef.md:81-83` says the flashtool handles block sizes, and its line 75 names blocks of 64 KB.  `JobsEndOrStuck` excepts this, and nothing else. |
| `tlc -config FlashToolZero.cfg MCFlashTool` | A TCRT image of length 0 (`tcrt.c:130`), which by `doc/TCRT Format.md:117` leaves an erased flash, does not: `pages_erased` wraps to 65535 and the erase starts behind it. |
| `tlc -config LookupKeepsSending.cfg MCOtherDrivers` | A directory lookup never tells the driver which byte is the last (`cmdmode.c:695`, `:716`), and neither does a CRC: `crc32_flash` passes `len == 0` inside `while (len > 0)` (`cmdmode.c:459`).  So on the I2C build (`extmem_i2c.c:61`) the chip goes on sending.  If the next bit is a 0, the stop and the next start are not seen, and the next read is wrong.  The fast loader's header and every read cut short leave the bus in that state too. |

Allowed for in the model, and with no configuration of its own:

* On the AT45 an erase behind a write that was cut short falls into the open buffer write
  and is lost, for sector 0 its second part aside; the poll behind it says ready
  (`extmem_at45.c:155`).  `AskedIsStored` promises nothing of these bytes (`Any`).

Read off the code while modelling it, and kept out of the models as inputs no sensible host
produces (so no property covers them):

* A load info shorter than the load address (`main.c:281`).  Length 2 leaves nothing
  behind the header, and the loader, which reads before it compares, waits for ever;
  length 0 or 1 wraps `datalen` to almost 64 KB.  `doc/ProgRef.md` names no minimum.
* A write on the AT45 that begins inside a page (`extmem_at45.c:110`, a FIXME): its bytes
  go to the start of the page.  `doc/ProgRef.md:60-62` asks for full pages.

## 7. Not modelled, and what is left

* **CRC**: a table-driven CRC-32 over bytes whose origin is modelled; known-answer tests
  settle the arithmetic.
* **RAM execution** (`CMD_RAMEXEC`, and the start of such a program in `main.c`): replaces
  the program and with it the model.
* **Menus and console of the flash tool, board support, LED, register set-up**: no
  state of their own that outlives a call.
* **The mass programmer**: the other end of the serial port; its turn-taking is the
  assumption `polite` of `Uart`.
* **The AVR build**: has its links in assembler; the handshakes are the same, the delays are
  not checked.  It writes a real EEPROM byte by byte as parameters arrive and its flushes are
  empty (`avr/arch-eeprom.h:42`), so there a `write_loadinfo` that is cut short does leave a
  mixture for good: `SavedInfoWhole` is about the SAMD09.
* **`eload`, vendor headers, hardware**: not the cartridge's own logic.  Headers and
  third-party code are some 16,000 of the 24,000 lines under `src/`.

Four hazards of `PROJECT.json` have no property.  Two the code meets on known inputs, and no
property that excludes them would hold: the 1 ms before command mode (`main.c:380`), shown
by `ModeSwitchLate.cfg`, and the 16-bit product (`tcrt.c:138`), shown by
`FlashToolLate.cfg`; what is checked is that nothing else does the same harm.  A load info
of less than three bytes (`main.c:281`) is read off the code only (section 6).  A break from
a host on the serial port (`cmdmode.c:186`) needs the command handler over `Uart` instead of
over the tape port: `uart_getc` waits without looking at it.

Next, in order: that composition; the AVR's fast link.
