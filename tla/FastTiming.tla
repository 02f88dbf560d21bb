----------------------------- MODULE FastTiming ----------------------------
(***************************************************************************)
(* The timing of a byte in the 2-bit protocol, which ByteLink's Pair and   *)
(* Sample presume.  The device (src-firmware/samd09/bitbanging.c) sets the *)
(* lines by a timer, the C64 (getbyte of src-c64/loader.asm, and the same  *)
(* instructions in getbyte_fast.s) by the cycles its instructions take,    *)
(* with interrupts off on both sides and the screen blanked.  Times are in *)
(* nanoseconds from the C64's start signal on.                             *)
(***************************************************************************)
EXTENDS Integers

\* A cycle of the C64: NTSC 978 ns, PAL 1015 ns.
Cycles == 977 .. 1015

\* The time between the start signal and the device's timer running.
Delays == 600 .. 4600

\* prepare_sendbyte: the timer starts with 1.5 us on it.
HeadStart == 1500

\* When the timer has pair j on the lines, and lets go of write (j = 5).
SetAt == <<4000, 13000, 22000, 31000, 41000>>
DeviceAt(delay, j) == delay + SetAt[j] - HeadStart

\* The cycles in which the C64 makes write an input, reads pair j, and makes write
\* an output again.
InputAt  == 3
ReadAt   == <<8, 17, 26, 35>>
OutputAt == 48
C64At(cycle, n) == n * cycle
=============================================================================
