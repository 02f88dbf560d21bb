----------------------------- MODULE TapStream -----------------------------
(***************************************************************************)
(* Streaming mode (src-firmware/main.c): main() writes an endless tape     *)
(* into a pulse ring, the timer interrupt plays it, and the interrupt of   *)
(* the motor line starts and stops the timer, shifts the write line into   *)
(* shift_reg and so selects the next mode.                                 *)
(*                                                                         *)
(* main() is a program counter over its accesses to what it shares with    *)
(* the two interrupts; an interrupt handler runs to its end between any    *)
(* two of them.  Pulses are numbered by their place in one round of the    *)
(* tape (two blocks, each sent twice), so that their order can be told.    *)
(***************************************************************************)
EXTENDS Integers

CONSTANTS
  Slots,        \* sizeof(tap_buffer), a power of two                     (64)
  Leader,       \* pulses of the sync before a block                    (1500)
  Data,         \* pulses of countdown and data of a block
  Trail,        \* pulses behind them: one long and cbm_sync(60)          (61)
  SregSize,     \* number of values of shift_reg                        (2^16)
  MagicLoader, MagicCommand,  \* SREG_MAGIC_VALUE_*           (0xca65, 0xfce2)
  Pace          \* steps main() takes at least between two timer interrupts

ASSUME TapStreamAssumption ==
  /\ Slots \in Nat \ {0, 1} /\ Leader \in Nat \ {0} /\ Data \in Nat \ {0}
  /\ Trail \in 1 .. Slots
  /\ SregSize \in Nat \ {0}
  /\ MagicLoader \in 1 .. SregSize - 1 /\ MagicCommand \in 1 .. SregSize - 1
  /\ MagicLoader # MagicCommand
  /\ Pace \in Nat /\ Pace >= 3

VARIABLES
  tap_buffer, readidx, writeidx,
  timer,      \* the timer interrupt is enabled
  mode, shift_reg,
  motor, write, sense,   \* the lines of the tape port
  pc,         \* where main() stands
  pos,        \* the pulse main() puts next
  quiet,      \* steps of main() since the last timer interrupt, up to Pace
  heard       \* history: the pulse of this round that was played last

ring == <<tap_buffer, readidx, writeidx>>
port == <<motor, write>>
vars == <<ring, timer, mode, shift_reg, port, sense, pc, pos, quiet, heard>>

Index == 0 .. Slots - 1

\* Mutant: the mask is forgotten.
Mask_Forgotten(i) == i

Mask(i) == i % Slots

\* Places in the tape: a leader and the two copies of the header block, a leader
\* and the two copies of the start vector.
BlockLen == Leader + 2 * (Data + Trail)
RoundLen == 2 * BlockLen

Short == 0       \* a pulse of memset(..., CBMPULSE_SHORT)
Unset == -1      \* the contents of tap_buffer at power-up
Pulse == Unset .. RoundLen

Streaming == {"put", "store", "drain", "fill"}

\* put_pulse: the next slot is the one to be read next.
RingFull == Mask(writeidx + 1) = readidx

-----------------------------------------------------------------------------
\* The interrupts.

\* Where main() does nothing until time passes or a line or an index moves.
Waiting ==
  \/ pc = "put" /\ RingFull /\ mode = "STREAM"
  \/ pc = "drain" /\ motor /\ writeidx # readidx
  \/ pc \in {"rewind", "loader", "cmdWrite", "cmdPulses", "command"}

\* Mutant: the index is moved before the pulse is fetched.
PulseInterrupt_EarlyIndex ==
  /\ timer
  /\ quiet = Pace \/ Waiting
  /\ readidx' = Mask(readidx + 1)
  /\ heard' = IF tap_buffer[readidx'] > 0 THEN tap_buffer[readidx'] ELSE heard
  /\ quiet' = 0
  /\ UNCHANGED <<tap_buffer, writeidx, timer, mode, shift_reg, port, sense, pc, pos>>

\* The half of PULSETIMER_HANDLER that fetches a pulse.  A pulse takes at least
\* 180 us and putting one takes main() a few, so that it puts dozens between two
\* interrupts unless it is waiting.  Four steps (two pulses) are all the model
\* grants it.
PulseInterrupt ==
  /\ timer
  /\ quiet = Pace \/ Waiting
  /\ readidx' = Mask(readidx + 1)
  /\ heard' = IF tap_buffer[readidx] > 0 THEN tap_buffer[readidx] ELSE heard
  /\ quiet' = 0
  /\ UNCHANGED <<tap_buffer, writeidx, timer, mode, shift_reg, port, sense, pc, pos>>

Shift(w) == (2 * shift_reg + IF w THEN 1 ELSE 0) % SregSize

\* Mutant: the timer is left running.
MotorEdge_KeepsTimer(m, w) ==
  IF m
  THEN /\ timer' = TRUE
       /\ shift_reg' = Shift(w)
       /\ mode' = CASE shift_reg' = MagicLoader  -> "LOADER"
                    [] shift_reg' = MagicCommand -> "COMMAND"
                    [] OTHER -> mode
  ELSE UNCHANGED <<timer, shift_reg, mode>>

\* MOTOR_HANDLER, on either edge; the write line was set before.
MotorEdge(m, w) ==
  IF m
  THEN /\ timer' = TRUE
       /\ shift_reg' = Shift(w)
       /\ mode' = CASE shift_reg' = MagicLoader  -> "LOADER"
                    [] shift_reg' = MagicCommand -> "COMMAND"
                    [] OTHER -> mode
  ELSE timer' = FALSE /\ UNCHANGED <<shift_reg, mode>>

\* The computer sets its two lines.
SetLines(m, w) ==
  /\ motor' = m /\ write' = w
  /\ IF m # motor THEN MotorEdge(m, w) ELSE UNCHANGED <<timer, shift_reg, mode>>
  /\ UNCHANGED <<ring, sense, pc, pos, quiet, heard>>

-----------------------------------------------------------------------------
\* main().  Move ends each of its steps.

Move(to) == pc' = to /\ quiet' = IF quiet < Pace THEN quiet + 1 ELSE Pace
lines == <<shift_reg, port>>

PowerUp ==
  /\ pc = "boot" /\ Move("top")
  /\ timer' = TRUE
  /\ UNCHANGED <<ring, mode, lines, sense, pos, heard>>

Top ==
  /\ pc = "top" /\ Move("clear")
  /\ mode' = "STREAM" /\ pos' = 1 /\ heard' = 0
  /\ UNCHANGED <<ring, timer, lines, sense>>

\* Mutant: the register keeps what the last round left in it.
ClearShiftReg_Not ==
  /\ pc = "clear" /\ Move("put")
  /\ UNCHANGED <<ring, timer, mode, shift_reg, port, sense, pos, heard>>

ClearShiftReg ==
  /\ pc = "clear" /\ Move("put")
  /\ shift_reg' = 0
  /\ UNCHANGED <<ring, timer, mode, port, sense, pos, heard>>

\* Mutant: the mode is not looked at while the ring is full.
PutWait_NoMode ==
  /\ pc = "put" /\ Move("store")
  /\ ~RingFull
  /\ UNCHANGED <<ring, timer, mode, lines, sense, pos, heard>>

\* put_pulse: the wait for a free slot ...
PutWait ==
  /\ pc = "put" /\ Move("store")
  /\ ~RingFull \/ mode # "STREAM"
  /\ UNCHANGED <<ring, timer, mode, lines, sense, pos, heard>>

\* ... and the store, for the next pulse of the round.
PutStore ==
  /\ pc = "store" /\ Move(IF pos = RoundLen THEN "drain" ELSE "put")
  /\ writeidx' = Mask(writeidx + 1)
  /\ tap_buffer' = [tap_buffer EXCEPT ![writeidx'] = pos]
  /\ pos' = IF pos = RoundLen THEN pos ELSE pos + 1
  /\ UNCHANGED <<readidx, timer, mode, lines, sense, heard>>

\* Mutant: the buffer is refilled without waiting for it to play.
Drain_NoWait ==
  /\ pc = "drain" /\ Move("fill")
  /\ UNCHANGED <<ring, timer, mode, lines, sense, pos, heard>>

\* Mutant: a stopped motor does not end the wait.
Drain_IgnoresMotor ==
  /\ pc = "drain" /\ Move("fill")
  /\ writeidx = readidx
  /\ UNCHANGED <<ring, timer, mode, lines, sense, pos, heard>>

\* The wait for an empty buffer or a stopped motor.
Drain ==
  /\ pc = "drain" /\ Move("fill")
  /\ ~(motor /\ writeidx # readidx)
  /\ UNCHANGED <<ring, timer, mode, lines, sense, pos, heard>>

\* An interrupt inside the memset finds its slot as before or as after it.
Fill ==
  /\ pc = "fill" /\ Move("rewind")
  /\ tap_buffer' = [i \in Index |-> Short]
  /\ sense' = TRUE
  /\ UNCHANGED <<readidx, writeidx, timer, mode, lines, pos, heard>>

\* 200 ms with sense high, cut short by a request for another mode.
Rewind ==
  /\ pc = "rewind" /\ Move("switch")
  /\ UNCHANGED <<ring, timer, mode, lines, sense, pos, heard>>

Switch ==
  /\ pc = "switch"
  /\ Move(CASE mode = "LOADER"  -> "loaderEnter"
            [] mode = "COMMAND" -> "cmdEnter"
            [] mode = "STREAM"  -> "resume")
  /\ UNCHANGED <<ring, timer, mode, lines, sense, pos, heard>>

\* loader_handler: sense is high whenever it is not waiting for the C64.
LoaderEnter ==
  /\ pc = "loaderEnter" /\ Move("loader")
  /\ timer' = FALSE
  /\ UNCHANGED <<ring, mode, lines, sense, pos, heard>>

LoaderReturns ==
  /\ pc = "loader" /\ Move("resume")
  /\ UNCHANGED <<ring, timer, mode, lines, sense, pos, heard>>

\* c64command_handler
CommandEnter ==
  /\ pc = "cmdEnter" /\ Move("cmdWrite")
  /\ timer' = FALSE /\ sense' = TRUE
  /\ UNCHANGED <<ring, mode, lines, pos, heard>>

CommandWrite ==
  /\ pc = "cmdWrite" /\ (motor \/ write)
  /\ Move(IF motor THEN "resume" ELSE "cmdOn")
  /\ UNCHANGED <<ring, timer, mode, lines, sense, pos, heard>>

CommandOn ==
  /\ pc = "cmdOn" /\ Move("cmdPulses")
  /\ timer' = TRUE
  /\ UNCHANGED <<ring, mode, lines, sense, pos, heard>>

CommandPulses ==
  /\ pc = "cmdPulses" /\ (motor \/ ~write)
  /\ Move(IF motor THEN "resume" ELSE "cmdOff")
  /\ UNCHANGED <<ring, timer, mode, lines, sense, pos, heard>>

CommandOff ==
  /\ pc = "cmdOff" /\ Move("command")
  /\ timer' = FALSE
  /\ UNCHANGED <<ring, mode, lines, sense, pos, heard>>

CommandReturns ==
  /\ pc = "command" /\ Move("resume")
  /\ sense' = TRUE
  /\ UNCHANGED <<ring, timer, mode, lines, pos, heard>>

Resume ==
  /\ pc = "resume" /\ Move("check")
  /\ sense' = FALSE
  /\ UNCHANGED <<ring, timer, mode, lines, pos, heard>>

\* Mutant: the pulses are not turned on again.
CheckMotor_NeverOn ==
  /\ pc = "check" /\ Move("top")
  /\ UNCHANGED <<ring, timer, mode, lines, sense, pos, heard>>

\* if (get_motor()) ...
CheckMotor ==
  /\ pc = "check" /\ Move(IF motor THEN "turnOn" ELSE "top")
  /\ UNCHANGED <<ring, timer, mode, lines, sense, pos, heard>>

\* ... pulsetimer_enable(true)
TurnOn ==
  /\ pc = "turnOn" /\ Move("top")
  /\ timer' = TRUE
  /\ UNCHANGED <<ring, mode, lines, sense, pos, heard>>

-----------------------------------------------------------------------------
Init ==
  /\ tap_buffer = [i \in Index |-> Unset] /\ readidx = 0 /\ writeidx = 0
  /\ timer = FALSE /\ quiet = 0
  /\ mode = "STREAM" /\ shift_reg = 0
  /\ motor \in BOOLEAN /\ write \in BOOLEAN
  /\ sense = FALSE
  /\ pc = "boot" /\ pos = 1 /\ heard = 0

\* What main() does without being asked; loader_handler and command_handler
\* return when the C64 lets them (see Tapecart).
MainStep ==
  \/ PowerUp \/ Top \/ ClearShiftReg \/ PutWait \/ PutStore \/ Drain \/ Fill
  \/ Rewind \/ Switch \/ LoaderEnter
  \/ CommandEnter \/ CommandWrite \/ CommandOn \/ CommandPulses \/ CommandOff
  \/ Resume \/ CheckMotor \/ TurnOn

Next ==
  \/ PulseInterrupt \/ MainStep \/ LoaderReturns \/ CommandReturns
  \/ \E m, w \in BOOLEAN : SetLines(m, w)

Spec == Init /\ [][Next]_vars

\* The timer ticks, and the processor polls faster than a line of the tape port
\* can move there and back (each motor edge takes the better part of 1 ms).
FairSpec == Spec /\ SF_vars(MainStep) /\ WF_vars(PulseInterrupt)

-----------------------------------------------------------------------------
PC == Streaming \cup
  {"boot", "top", "clear", "rewind", "switch", "loaderEnter", "loader",
   "cmdEnter", "cmdWrite", "cmdOn", "cmdPulses", "cmdOff", "command",
   "resume", "check", "turnOn"}

(***************************************************************************)
(* Types of the variables.                                                 *)
(***************************************************************************)
TypeOK ==
  /\ tap_buffer \in [Index -> Pulse] /\ readidx \in Index /\ writeidx \in Index
  /\ timer \in BOOLEAN /\ quiet \in 0 .. Pace
  /\ mode \in {"STREAM", "LOADER", "COMMAND"}
  /\ shift_reg \in 0 .. SregSize - 1
  /\ motor \in BOOLEAN /\ write \in BOOLEAN /\ sense \in BOOLEAN
  /\ pc \in PC
  /\ pos \in 1 .. RoundLen /\ heard \in 0 .. RoundLen

\* The pulses main() has put in this round.
Put == IF pc \in {"drain", "fill"} THEN RoundLen ELSE pos - 1

(***************************************************************************)
(* While no other mode is requested, the timer plays the pulses of a round *)
(* in their order, each once and none left out; before the first of them   *)
(* it plays what is left in the buffer from before the round.  The timer   *)
(* interrupt never tests for an empty buffer: an index out of step by one  *)
(* replays or skips a whole ring.                                          *)
(***************************************************************************)
PulsesInOrder ==
  [][(readidx' # readidx /\ mode = "STREAM" /\ pc \in Streaming) =>
       \/ tap_buffer[readidx] = heard + 1
       \/ tap_buffer[readidx] \in {Short, Unset} /\ heard = 0]_vars

(***************************************************************************)
(* A round ends, while the motor runs and no other mode is requested, only *)
(* when all of it is played but the last pulse, which is a short one and   *)
(* is overwritten with a short one.                                        *)
(***************************************************************************)
StreamPlayedWhole ==
  [][(pc = "drain" /\ pc' = "fill" /\ mode = "STREAM" /\ motor) =>
       heard >= RoundLen - 1]_vars

(***************************************************************************)
(* While the tape is streamed with the motor on, the timer runs.  The line *)
(* and the timer are changed by the motor interrupt, the main loop and     *)
(* c64command_handler, which all may overtake one another; a timer left    *)
(* off would leave the C64 waiting for pulses for ever.                    *)
(***************************************************************************)
MotorRunsTimer ==
  (motor /\ pc \in Streaming \cup {"top", "clear", "rewind", "switch"}) => timer

(***************************************************************************)
(* After that data the tape rewinds, or the C64 turns the motor on again.  *)
(***************************************************************************)
RewindsAfterLoad ==
  (pc \in Streaming /\ mode = "STREAM" /\ ~motor /\ heard >= RoundLen - Trail)
     ~> (pc = "rewind" \/ motor)

(***************************************************************************)
(* A mode requested while the tape is streamed is entered, whether the     *)
(* motor runs or not and however full the buffer is.                       *)
(***************************************************************************)
RequestIsTaken ==
  (mode # "STREAM" /\ pc \in Streaming \cup {"rewind"})
     ~> pc \in {"loader", "cmdWrite"}

(***************************************************************************)
(* What the comment at the end of main() says: the pulses are turned on if *)
(* the motor is active.  (The motor can stop between the test and the      *)
(* call; see README.)                                                      *)
(***************************************************************************)
PulsesOnlyWithMotor ==
  [][(pc \in {"check", "turnOn"} /\ pc' = "top" /\ timer') => motor]_vars
=============================================================================
