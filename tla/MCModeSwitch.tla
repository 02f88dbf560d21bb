---------------------------- MODULE MCModeSwitch ---------------------------
(***************************************************************************)
(* The real register and numbers on a short tape, one reset of the C64 in  *)
(* a round, at any step.                                                   *)
(***************************************************************************)
EXTENDS ModeSwitch

\* The hypothesis of LoaderIsAlwaysHeard and WholeCodesOnly (TapStreamProofs).
ASSUME NumbersAssumption == NumbersApart
=============================================================================
