-------------------------- MODULE MCIngressClaims --------------------------
(***************************************************************************)
(* Instances of IngressClaims for TLC.  One session, whose opening turn    *)
(* "created", follow-up "ask" and later "stop" are delivered one or more   *)
(* times under different delivery identities.                              *)
(***************************************************************************)
EXTENDS IngressClaims

MCSession == {"s"}
KindOf(x) == CASE x = "created" -> "created" [] x = "ask" -> "prompt" [] OTHER -> "stop"
TimeOf(x) == CASE x = "created" -> 0 [] x = "ask" -> 1 [] x = "stop" -> 2 [] OTHER -> 1
RankOf(x) == CASE x = "created" -> 0 [] x = "ask" -> 1 [] x = "stop" -> 2 [] OTHER -> 3

\* Two deliveries of the opening turn.
TwiceDelivery == {"created1", "created2"}
TwiceExecution == {"created"}
TwiceOf == [w \in TwiceDelivery |-> "created"]

\* A follow-up, once by webhook and once by reconciliation, and two stops, the
\* earlier of which may arrive last.
StopsDelivery == {"ask1", "ask2", "stop1", "again1"}
StopsExecution == {"ask", "stop", "again"}
StopsOf == [w \in StopsDelivery |->
    CASE w \in {"ask1", "ask2"} -> "ask" [] w = "stop1" -> "stop" [] OTHER -> "again"]

\* A single event.
OneDelivery == {"ask1"}
OneExecution == {"ask"}
OneOf == [w \in OneDelivery |-> "ask"]

TwiceSessionOf == [x \in TwiceExecution |-> "s"]
TwiceKind == [x \in TwiceExecution |-> KindOf(x)]
TwiceOccurredAt == [x \in TwiceExecution |-> TimeOf(x)]
TwiceActivityRank == [x \in TwiceExecution |-> RankOf(x)]

StopsSessionOf == [x \in StopsExecution |-> "s"]
StopsKind == [x \in StopsExecution |-> KindOf(x)]
StopsOccurredAt == [x \in StopsExecution |-> TimeOf(x)]
StopsActivityRank == [x \in StopsExecution |-> RankOf(x)]

OneSessionOf == [x \in OneExecution |-> "s"]
OneKind == [x \in OneExecution |-> KindOf(x)]
OneOccurredAt == [x \in OneExecution |-> TimeOf(x)]
OneActivityRank == [x \in OneExecution |-> RankOf(x)]

Permutable == Permutations(Handler)
=============================================================================
