----------------------------- MODULE MCReconcile -----------------------------
(***************************************************************************)
(* An instance of Reconcile for TLC: the opening and two activities of any *)
(* kind, with ids on either side of the opening's.                         *)
(***************************************************************************)
EXTENDS Reconcile

MCActivity == 1 .. 3
=============================================================================
