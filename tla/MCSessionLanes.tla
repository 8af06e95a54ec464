--------------------------- MODULE MCSessionLanes ---------------------------
(***************************************************************************)
(* An instance of SessionLanes for TLC: one session with three turns, and  *)
(* another with one.                                                       *)
(***************************************************************************)
EXTENDS SessionLanes

CONSTANTS t1, t2, t3, u1

MCTask == {t1, t2, t3, u1}
MCSessionOf == [t \in MCTask |-> IF t = u1 THEN "u" ELSE "t"]
=============================================================================
