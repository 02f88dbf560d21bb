----------------------------- MODULE ModeSwitch ----------------------------
(***************************************************************************)
(* The switch to another mode: the C64 clocks a 16-bit number into         *)
(* shift_reg while the device streams.  The C64 runs tapecart_cmdmode      *)
(* (src-c64/tapecartif.c) or the start of the loader the tape carried      *)
(* (src-c64/loader.asm); it may be reset at any step, which turns the      *)
(* motor on.                                                               *)
(***************************************************************************)
EXTENDS TapStream

CONSTANTS
  Pulses,       \* pulses tapecart_cmdmode counts                        (100)
  Impatient,    \* the timeouts of tapecart_cmdmode may expire
  MaxResets, MaxTape   \* in one round: resets, and motor edges of the KERNAL

\* shift_reg has a whole number of bits: every divisor of its size but 1 is even.
ASSUME ModeSwitchAssumption ==
  /\ \A n \in 2 .. SregSize : SregSize % n = 0 => n % 2 = 0
  /\ Pulses \in Nat \ {0} /\ MaxResets \in Nat /\ MaxTape \in Nat
  /\ Impatient \in BOOLEAN

VARIABLES
  c64,          \* where the program on the C64 stands
  code,         \* the number it sends
  weight,       \* of the last bit the motor clocked out: SregSize before all, 1 at the end
  flag,         \* CIA1 ICR: a pulse was seen on the read line
  counted,      \* pulses counted
  edged,        \* the C64 moved in this hasty stretch of the device
  restarted,    \* the tape started again since the handshake began
  resets, taped \* in this round of the device

c64vars == <<c64, code, weight, flag, counted, edged, restarted, resets, taped>>
allvars == <<vars, c64vars>>

\* The next bit of the number, the most significant one first.
NextBit == (code \div (weight \div 2)) % 2 = 1

\* Where the device stays for a few us only; the C64 waits a minidelay of 1.8 ms
\* between two edges.
Hasty == {"fill", "switch", "cmdOn", "cmdOff", "resume", "check", "turnOn", "top", "clear"}

InHandshake == c64 \in {"settle", "motorOn", "motorOff", "last"}

\* Time passes for the C64.
Tick == ~(edged /\ pc \in Hasty) /\ edged' = (pc \in Hasty)

-----------------------------------------------------------------------------
\* The C64: one action per port access, with a minidelay before each edge.

Program(from, to, m, w) ==
  /\ c64 = from /\ c64' = to
  /\ Tick /\ SetLines(m, w)
  /\ UNCHANGED <<code, flag, counted, restarted, resets, taped>>

\* The KERNAL starts and stops the tape.
Kernal ==
  /\ taped < MaxTape /\ taped' = taped + 1
  /\ c64 = "idle" /\ Tick /\ SetLines(~motor, FALSE)
  /\ UNCHANGED <<c64, code, weight, flag, counted, restarted, resets>>

\* tapecart_cmdmode: write low, motor on.
CmdModeStart ==
  /\ Program("idle", "waitLow", TRUE, FALSE) /\ weight' = SregSize

CmdModeSenseLow ==
  /\ c64 = "waitLow" /\ ~sense /\ c64' = "settle" /\ code' = MagicCommand
  /\ Tick /\ restarted' = FALSE
  /\ UNCHANGED <<vars, weight, flag, counted, resets, taped>>

CmdModeMotorOff ==
  /\ Program("settle", "motorOn", FALSE, write) /\ UNCHANGED weight

\* The write line takes its level before the motor is turned on.
SendBit ==
  /\ Program("motorOn", "motorOff", TRUE, NextBit)
  /\ weight' = weight \div 2

SendBitDone ==
  /\ Program("motorOff", IF weight = 1 THEN "last" ELSE "motorOn", FALSE, write)
  /\ UNCHANGED weight

\* Behind the last bit: write high for tapecart_cmdmode, low for the loader.
CmdModeAsk ==
  /\ code = MagicCommand
  /\ Program("last", "waitHigh", FALSE, TRUE) /\ UNCHANGED weight

CmdModeSenseHigh ==
  /\ c64 = "waitHigh" /\ sense /\ c64' = "count"
  /\ flag' = FALSE /\ counted' = 0
  /\ UNCHANGED <<vars, code, weight, edged, restarted, resets, taped>>

\* A pulse, and the read of the register that clears the flag for the next.
CmdModeCount ==
  /\ c64 = "count" /\ flag /\ counted < Pulses
  /\ counted' = counted + 1 /\ flag' = FALSE
  /\ UNCHANGED <<vars, c64, code, weight, edged, restarted, resets, taped>>

\* return true
CmdModeDone ==
  /\ counted = Pulses
  /\ Program("count", "ok", FALSE, FALSE) /\ UNCHANGED weight

\* tapecart_streammode
StreamMode == Program("ok", "idle", TRUE, write) /\ UNCHANGED weight

\* return false; the lines stay as they are.
CmdModeTimeout ==
  /\ Impatient /\ c64 \in {"waitLow", "waitHigh", "count"} /\ c64' = "idle"
  /\ UNCHANGED <<vars, code, weight, flag, counted, edged, restarted, resets, taped>>

\* The loader, from the tape the device has just played.
LoaderStart ==
  /\ c64 = "idle" /\ ~motor /\ ~write /\ pc \in Streaming \cup {"rewind"}
  /\ mode = "STREAM" /\ heard >= RoundLen - Trail
  /\ c64' = "motorOn" /\ code' = MagicLoader /\ weight' = SregSize /\ restarted' = FALSE
  /\ UNCHANGED <<vars, flag, counted, edged, resets, taped>>

LoaderDone ==
  /\ code = MagicLoader
  /\ Program("last", "loading", FALSE, FALSE) /\ UNCHANGED weight

\* A reset turns the motor on; the C64 takes seconds to run a program again.  By
\* then the device streams, and the end of a round it was in is long over.
Reset ==
  /\ resets < MaxResets /\ resets' = resets + 1
  /\ c64' = "boot" /\ \E w \in BOOLEAN : SetLines(TRUE, w)
  /\ UNCHANGED <<code, weight, flag, counted, edged, restarted, taped>>

Booted ==
  /\ c64 = "boot" /\ c64' = "idle"
  /\ pc \in Streaming /\ mode = "STREAM" /\ heard < RoundLen - Trail
  /\ UNCHANGED <<vars, code, weight, flag, counted, edged, restarted, resets, taped>>

C64Step ==
  \/ CmdModeSenseLow \/ CmdModeMotorOff \/ SendBit \/ SendBitDone \/ CmdModeAsk
  \/ CmdModeSenseHigh \/ CmdModeCount \/ CmdModeDone \/ LoaderDone \/ Booted

-----------------------------------------------------------------------------
\* Mutant: the fast loader is entered without a delay.
DeviceStep_NoDelay ==
  /\ MainStep
  /\ pc = "rewind" /\ mode = "STREAM" => ~InHandshake
  /\ pc = "drain" /\ mode = "STREAM" /\ restarted => ~InHandshake /\ c64 \notin {"waitHigh", "count"}
  /\ edged' = (edged /\ pc' \in Hasty)
  /\ restarted' = (restarted \/ pc = "top")
  /\ IF pc = "clear" THEN resets' = 0 /\ taped' = 0 ELSE UNCHANGED <<resets, taped>>
  /\ UNCHANGED <<c64, code, weight, flag, counted>>

\* What the device does, as far as there is time for it.  The 200 ms of sense high
\* outlast a handshake that is under way, and a round of the tape outlasts a call
\* of tapecart_cmdmode.  The motor pulse of the last bit takes 1.8 ms: the delay of 100 ms
\* before the fast loader outlasts it; that of 1 ms before command mode does not when the
\* number ends in the rewind, and hardly with the first ms of the rewind added.
\* The bounds are those of a round, which lasts not much longer than a reset.
DeviceStep ==
  /\ MainStep
  /\ pc = "rewind" /\ mode = "STREAM" => ~InHandshake
  /\ pc = "drain" /\ mode = "STREAM" /\ restarted => ~InHandshake /\ c64 \notin {"waitHigh", "count"}
  /\ pc = "loaderEnter" => c64 # "motorOff"
  /\ edged' = (edged /\ pc' \in Hasty)
  /\ restarted' = (restarted \/ pc = "top")
  /\ IF pc = "clear" THEN resets' = 0 /\ taped' = 0 ELSE UNCHANGED <<resets, taped>>
  /\ UNCHANGED <<c64, code, weight, flag, counted>>

\* In the modes the device does what the C64 asks, until the motor is turned on.
ModeReturns == motor /\ (LoaderReturns \/ CommandReturns) /\ UNCHANGED c64vars

\* The last byte is loaded, the program starts.
LoadEnds ==
  /\ LoaderReturns
  /\ c64 = "loading" /\ c64' = "idle"
  /\ UNCHANGED <<code, weight, flag, counted, edged, restarted, resets, taped>>

PulseSeen ==
  /\ PulseInterrupt /\ flag' = TRUE
  /\ UNCHANGED <<c64, code, weight, counted, edged, restarted, resets, taped>>

SwitchInit ==
  /\ Init /\ motor = FALSE /\ write = FALSE
  /\ c64 = "boot" /\ code = MagicCommand /\ weight = SregSize /\ flag = FALSE /\ counted = 0
  /\ edged = FALSE /\ restarted = FALSE /\ resets = 0 /\ taped = 0

SwitchNext ==
  \/ DeviceStep \/ PulseSeen \/ ModeReturns \/ LoadEnds
  \/ C64Step \/ Kernal \/ CmdModeStart \/ CmdModeTimeout \/ StreamMode \/ LoaderStart \/ Reset

SwitchSpec == SwitchInit /\ [][SwitchNext]_allvars

\* Both processors run, the timer ticks, and no counted bound is an obligation.
FairSwitch ==
  SwitchSpec /\ SF_allvars(DeviceStep) /\ WF_allvars(PulseSeen)
             /\ SF_allvars(C64Step) /\ WF_allvars(ModeReturns)

-----------------------------------------------------------------------------
(***************************************************************************)
(* tapecart_cmdmode returns true only when the device is in command mode:  *)
(* the level of sense and a number of pulses, which streaming mode has as  *)
(* well, are not mistaken for an answer.                                   *)
(***************************************************************************)
TrueMeansCommand ==
  c64 = "ok" => mode = "COMMAND" /\ pc \in {"cmdPulses", "cmdOff", "command"}

(***************************************************************************)
(* When the loader has sent its number, the device is on its way to the    *)
(* fast loader or there, whatever it was doing meanwhile.                  *)
(***************************************************************************)
LoaderIsHeard == c64 = "loading" => mode = "LOADER"

(***************************************************************************)
(* A number that is being sent requests its own mode, with its last bit,   *)
(* and none before: what the KERNAL, a reset or a number cut short left in *)
(* the register never makes a number together with the bits that follow.   *)
(* (Two resets and two edges of the KERNAL in one round can; see README.)  *)
(***************************************************************************)
OnlyWholeCodes ==
  [][(InHandshake /\ c64' # "boot" /\ mode' \notin {mode, "STREAM"}) =>
       /\ weight = 2 /\ weight' = 1
       /\ mode' = IF code = MagicLoader THEN "LOADER" ELSE "COMMAND"]_allvars

-----------------------------------------------------------------------------
\* What is in the register when a number begins, and whether it can make another
\* number with the first bits of that one; the proofs rest on NumbersApart, which
\* TLC evaluates for the numbers of the code (MCModeSwitch).

Weights == {w \in 1 .. SregSize : SregSize % w = 0}

\* The register when the bits of c down to weight w were shifted in over one of G,
Onto(G, c, w) == {(g % w) * (SregSize \div w) + c \div w : g \in G}

\* when main() cleared it in between, and either.
Cut(c, w) == {(c \div w) % p : p \in {p \in Weights : p < SregSize \div w}}
Sent(G, c, w) == Onto(G, c, w) \cup Cut(c, w)

\* Any number of motor edges with the write line low.
Zeros(G) == UNION {Onto(G, 0, w) : w \in Weights}

\* What a round can leave in the register as long as the C64 is not reset, what the
\* reset finds there, and what there can be behind it.
Kept == Zeros(Sent({0}, MagicCommand, 1))
Torn == UNION {Sent(Kept, MagicCommand, w) : w \in Weights \ {1}}
Left == Zeros(Torn \cup {(2 * t + 1) % SregSize : t \in Torn})

\* Nothing left in the register makes a number before the last bit of the next one,
\* and the end of the one number is not the other.
NumbersApart ==
  /\ \A c \in {MagicLoader, MagicCommand}, w \in Weights \ {1, SregSize} :
       Sent(Left, c, w) \cap {MagicLoader, MagicCommand} = {}
  /\ MagicLoader \notin Cut(MagicCommand, 1)

-----------------------------------------------------------------------------
\* The device stands at the top of c64command_handler, 1 ms behind the last bit, and
\* finds the motor on: still that bit's pulse.
TakenForAbort == pc = "cmdWrite" /\ InHandshake /\ weight = 1 /\ motor

(***************************************************************************)
(* A C64 that neither gives up nor is reset gets to command mode, wherever *)
(* the device stands when it begins: in a full ring, at the end of a round,*)
(* in the rewind.  One thing alone comes between, the delay of 1 ms before *)
(* command mode: when it ends within the motor pulse of the last bit the   *)
(* device takes that pulse for an abort.  (The delay of the code can end   *)
(* there, see MotorOffInTime and README.)                                  *)
(***************************************************************************)
CommandOrTakenForAbort == c64 = "waitLow" ~> (c64 = "ok" \/ TakenForAbort)

(***************************************************************************)
(* The loader the tape carried gets the device to its fast loader.         *)
(***************************************************************************)
LoaderGetsLoader == (c64 = "motorOn" /\ code = MagicLoader) ~> pc = "loader"

(***************************************************************************)
(* What the comment on the 1 ms before command mode says: it is there so   *)
(* that the motor signal can be turned off.  (The motor pulse of the last  *)
(* bit takes 1.8 ms; see README.)                                          *)
(***************************************************************************)
MotorOffInTime == ~TakenForAbort
=============================================================================
