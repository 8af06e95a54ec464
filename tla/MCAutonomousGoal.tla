-------------------------- MODULE MCAutonomousGoal --------------------------
(***************************************************************************)
(* An instance of AutonomousGoal for TLC: a prompt before the user's stop  *)
(* and one after it, one restart.                                          *)
(***************************************************************************)
EXTENDS AutonomousGoal

CONSTANTS g1, g2

MCGuidance == {g1, g2}
MCLater == {g2}
=============================================================================
