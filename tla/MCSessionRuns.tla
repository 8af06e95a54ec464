---------------------------- MODULE MCSessionRuns ----------------------------
(***************************************************************************)
(* An instance of SessionRuns for TLC: a prompt that an earlier process    *)
(* left behind and a new one, both at or before the stop.                  *)
(***************************************************************************)
EXTENDS SessionRuns

CONSTANTS p1, p2

MCPrompt == {p1, p2}
MCOlder == {p1, p2}
MCFound == {p1}
=============================================================================
