------------------------ MODULE IngressClaimsProofs ------------------------
(***************************************************************************)
(* Proofs about IngressClaims, for every set of processes, handlers,       *)
(* deliveries and sessions and every value of the bounds.                  *)
(***************************************************************************)
EXTENDS IngressClaims, FiniteSetTheorems, SequenceTheorems, TLAPS

----------------------------------------------------------------------------
(* Types. *)

\* The scan for the highest sequence in use never has to correct the counter.
LEMMA NewSequenceIsNext ==
    ASSUME SequencesBelow
    PROVE  NewSequence = nextSequence
BY DEF SequencesBelow, NewSequence

\* A handler that ends or queues its next mutation stays within its types.
LEMMA EndsType ==
    ASSUME TypeOK, NEW p \in Process, NEW h \in Handler,
           NEW rest \in Seq(Handler), Ends(p, h, rest)
    PROVE  /\ handlers' \in [Process -> [Handler -> HandlerState]]
           /\ queue' \in [Process -> Seq(Handler)]
<1>1. Idle \in HandlerState
  BY DEF Idle, HandlerState, Scope
<1> QED
  BY <1>1 DEF Ends, TypeOK

LEMMA QueuesType ==
    ASSUME TypeOK, NEW p \in Process, NEW h \in Handler,
           NEW rest \in Seq(Handler), NEW pc \in {"begin", "release", "rebegin", "run", "finish"},
           Queues(p, h, pc, rest)
    PROVE  /\ handlers' \in [Process -> [Handler -> HandlerState]]
           /\ queue' \in [Process -> Seq(Handler)]
<1>1. handlers' \in [Process -> [Handler -> HandlerState]]
  <2>1. \A r \in HandlerState : [r EXCEPT !.pc = pc] \in HandlerState
    BY DEF HandlerState
  <2> QED
    BY <2>1 DEF Queues, TypeOK
<1>2. queue' \in [Process -> Seq(Handler)]
  BY DEF Queues, TypeOK
<1> QED
  BY <1>1, <1>2

\* What is left of a queue, whichever of its mutations goes, is a queue.
LEMMA RestType ==
    ASSUME NEW s \in Seq(Handler), NEW i \in DOMAIN s
    PROVE  /\ RemoveAt(s, i) \in Seq(Handler)
           /\ s[i] \in Handler
<1>1. i \in 1 .. Len(s)
  OBVIOUS
<1>2. SubSeq(s, 1, i - 1) \in Seq(Handler)
  BY <1>1, SubSeqProperties
<1>3. SubSeq(s, i + 1, Len(s)) \in Seq(Handler)
  BY <1>1, SubSeqProperties
<1> QED
  BY <1>1, <1>2, <1>3 DEF RemoveAt

LEMMA RecoveryTypes ==
    /\ NewPass \in Recovery
    /\ NoRecovery \in Recovery
    /\ \A r \in Recovery : [r EXCEPT !.requested = TRUE] \in Recovery
BY DEF NewPass, NoRecovery, Recovery

LEMMA ClaimFailsType ==
    ASSUME TypeOK, NEW p \in Process, NEW h \in Handler,
           NEW rest \in Seq(Handler), ClaimFails(p, h, rest)
    PROVE  /\ phase' \in [Process -> Phase]
           /\ accepted' \in [Process -> SUBSET Delivery]
           /\ handlers' \in [Process -> [Handler -> HandlerState]]
           /\ queue' \in [Process -> Seq(Handler)]
           /\ recovery' \in [Process -> Recovery]
           /\ starts' \in [Execution -> [Process -> Nat]]
           /\ acked' \subseteq Delivery
<1>1. Ends(p, h, rest)
  BY DEF ClaimFails
<1>2. phase' \in [Process -> Phase] /\ recovery' \in [Process -> Recovery]
  BY RecoveryTypes DEF ClaimFails, TypeOK, Phase
<1> QED
  BY <1>1, <1>2, EndsType DEF ClaimFails, TypeOK

LEMMA BeginFailsType ==
    ASSUME TypeOK, NEW p \in Process, NEW h \in Handler,
           NEW rest \in Seq(Handler), BeginFails(p, h, rest)
    PROVE  /\ phase' \in [Process -> Phase]
           /\ accepted' \in [Process -> SUBSET Delivery]
           /\ handlers' \in [Process -> [Handler -> HandlerState]]
           /\ queue' \in [Process -> Seq(Handler)]
           /\ recovery' \in [Process -> Recovery]
           /\ starts' \in [Execution -> [Process -> Nat]]
           /\ acked' \subseteq Delivery
<1>1. \/ Queues(p, h, "release", rest)
      \/ Queues(p, h, "finish", rest)
      \/ Ends(p, h, rest)
  BY DEF BeginFails
<1>2. /\ handlers' \in [Process -> [Handler -> HandlerState]]
      /\ queue' \in [Process -> Seq(Handler)]
  BY <1>1, EndsType, QueuesType
<1>3. accepted' \in [Process -> SUBSET Delivery]
  BY DEF BeginFails, TypeOK
<1> QED
  BY <1>2, <1>3 DEF BeginFails, TypeOK

LEMMA GivesBackType ==
    ASSUME TypeOK, NEW p \in Process, NEW h \in Handler,
           NEW rest \in Seq(Handler), GivesBack(p, h, rest)
    PROVE  /\ phase' \in [Process -> Phase]
           /\ accepted' \in [Process -> SUBSET Delivery]
           /\ handlers' \in [Process -> [Handler -> HandlerState]]
           /\ queue' \in [Process -> Seq(Handler)]
           /\ recovery' \in [Process -> Recovery]
           /\ starts' \in [Execution -> [Process -> Nat]]
           /\ acked' \subseteq Delivery
<1>1. Ends(p, h, rest)
  BY DEF GivesBack
<1>2. recovery' \in [Process -> Recovery]
  BY RecoveryTypes DEF GivesBack, RequestRecovery, TypeOK
<1> QED
  BY <1>1, <1>2, EndsType DEF GivesBack, TypeOK

----------------------------------------------------------------------------
(* The durable state, one effect at a time. *)

\* Superseding keeps a receipt a receipt and takes its envelope away.
LEMMA SupersededFacts ==
    \A r \in Receipt : /\ Superseded(r) \in Receipt
                       /\ Superseded(r).status = "superseded"
                       /\ Superseded(r).sequence = 0
                       /\ Superseded(r).dispatched = r.dispatched
BY DEF Superseded, Receipt, Status

\* What the delivery's receipt looks like once it is on record.
LEMMA ReceivedFacts ==
    ASSUME TypeOK, EnvelopeWhilePending, RecordShapes, SequencesBelow,
           NEW w \in Delivery, NEW scope \in Scope
    PROVE  /\ Received(w, scope) \in Receipt
           /\ Received(w, scope).status =
                 IF receipts[w].status = "none" THEN "received" ELSE receipts[w].status
           /\ Received(w, scope).dispatched = receipts[w].dispatched
           /\ receipts[w].status # "none" =>
                 Received(w, scope).owner = receipts[w].owner
           /\ Received(w, scope).sequence =
                 IF NeedsEnvelope(w, scope) THEN nextSequence ELSE receipts[w].sequence
<1>1. receipts[w] \in Receipt /\ nextSequence \in Nat
  BY DEF TypeOK
<1>2. NewSequence = nextSequence
  BY NewSequenceIsNext
<1>3. receipts[w].status = "none" =>
         /\ receipts[w].sequence = 0
         /\ receipts[w].dispatched = FALSE
  <2>1. receipts[w].sequence > 0 <=> Pending(receipts[w])
    BY DEF EnvelopeWhilePending
  <2>2. receipts[w].dispatched => receipts[w].status \in {"claimed", "completed"}
    BY DEF RecordShapes
  <2> QED
    BY <1>1, <2>1, <2>2 DEF Pending, Receipt
<1>4. /\ [NoReceipt EXCEPT !.status = "received"] \in Receipt
      /\ [NoReceipt EXCEPT !.status = "received"].status = "received"
      /\ [NoReceipt EXCEPT !.status = "received"].sequence = 0
      /\ [NoReceipt EXCEPT !.status = "received"].dispatched = FALSE
  BY DEF NoReceipt, Receipt, Status
<1>5. \A r \in Receipt : /\ [r EXCEPT !.sequence = nextSequence] \in Receipt
                         /\ [r EXCEPT !.sequence = nextSequence].status = r.status
                         /\ [r EXCEPT !.sequence = nextSequence].dispatched = r.dispatched
                         /\ [r EXCEPT !.sequence = nextSequence].owner = r.owner
                         /\ [r EXCEPT !.sequence = nextSequence].sequence = nextSequence
  BY <1>1 DEF Receipt
<1> QED
  BY <1>1, <1>2, <1>3, <1>4, <1>5 DEF Received

\* Admission changes the counter and the fences within their types, and leaves
\* every sequence the fences hold behind the counter.
LEMMA AdmitFacts ==
    ASSUME TypeOK, SequencesBelow, NEW w \in Delivery, NEW scope \in Scope,
           Admit(w, scope)
    PROVE  /\ nextSequence' = IF NeedsEnvelope(w, scope)
                              THEN nextSequence + 1 ELSE nextSequence
           /\ fences' \in [Session -> Fence]
           /\ stopFences' \in [Session -> Cursor]
           /\ \A s \in Session : fences'[s].sequence < nextSequence'
<1> DEFINE x == ExecutionOf[w]
           s0 == SessionOf[x]
<1>1. NewSequence = nextSequence
  BY NewSequenceIsNext
<1>2. nextSequence \in Nat
  BY DEF TypeOK
<1>3. x \in Execution /\ s0 \in Session /\ OccurredAt[x] \in Nat /\ ActivityRank[x] \in Nat
  BY IngressAssumption
<1>4. \A s \in Session : fences[s] \in Fence /\ fences[s].sequence < nextSequence
  BY DEF TypeOK, SequencesBelow, UsedSequences
<1>5. nextSequence' = IF NeedsEnvelope(w, scope) THEN nextSequence + 1 ELSE nextSequence
  BY <1>1 DEF Admit
<1>6. stopFences' \in [Session -> Cursor]
  <2>1. CursorOf(x) \in Cursor
    BY <1>3 DEF CursorOf, Cursor
  <2> QED
    BY <2>1 DEF Admit, TypeOK
<1>7. CASE MovesFence(w, scope)
  <2> DEFINE f == [at |-> OccurredAt[x], sequence |-> nextSequence,
                   delivery |-> w, execution |-> x]
  <2>1. f \in Fence /\ f.sequence = nextSequence
    BY <1>2, <1>3 DEF Fence
  <2>2. fences' = [fences EXCEPT ![s0] = f]
    BY <1>1, <1>7 DEF Admit
  <2>3. NeedsEnvelope(w, scope)
    BY <1>7 DEF MovesFence
  <2>4. nextSequence' = nextSequence + 1
    BY <1>5, <2>3
  <2>5. fences \in [Session -> Fence]
    BY DEF TypeOK
  <2>6. \A s \in Session : fences[s].sequence \in Nat
    BY <1>4 DEF Fence
  <2> HIDE DEF f
  <2>7. fences' \in [Session -> Fence]
    BY <2>1, <2>2, <2>5
  <2>8. ASSUME NEW s \in Session PROVE fences'[s].sequence < nextSequence'
    <3>1. fences'[s] = IF s = s0 THEN f ELSE fences[s]
      BY <2>2, <2>5
    <3> QED
      BY <1>2, <1>4, <2>1, <2>4, <2>6, <3>1
  <2> QED
    BY <1>5, <1>6, <2>7, <2>8
<1>8. CASE ~MovesFence(w, scope)
  <2>1. fences' = fences
    BY <1>8 DEF Admit
  <2>2. \A s \in Session : fences[s].sequence \in Nat
    BY <1>4 DEF Fence
  <2> QED
    BY <1>2, <1>4, <1>5, <1>6, <2>1, <2>2 DEF TypeOK
<1> QED
  BY <1>7, <1>8

\* The store's part of the inductive invariant.
StoreInv ==
    /\ ClaimAgreement
    /\ EnvelopeWhilePending
    /\ RecoveryAvailable
    /\ SequencesBelow
    /\ RecordShapes

StoreTypes ==
    /\ receipts \in [Delivery -> Receipt]
    /\ claims \in [Execution -> Claim]
    /\ fences \in [Session -> Fence]
    /\ stopFences \in [Session -> Cursor]
    /\ nextSequence \in Nat \ {0}

\* What no write undoes: a delivery on record stays on record, and a dispatch
\* marker stays where it is, with the process that set it.
Keeps ==
    /\ \A v \in Delivery : receipts[v].status # "none" => receipts'[v].status # "none"
    /\ \A y \in Execution : claims[y].dispatched =>
          claims'[y].dispatched /\ claims'[y].owner = claims[y].owner

\* A step that gives a new sequence to at most the delivery w, and then counts
\* against a bound that includes w, keeps recovery available.
LEMMA SequenceStep ==
    ASSUME TypeOK, StoreInv, StoreTypes', EnvelopeWhilePending',
           NEW w \in Delivery, NEW fresh \in BOOLEAN,
           nextSequence' = IF fresh THEN nextSequence + 1 ELSE nextSequence,
           \A s \in Session : fences'[s].sequence < nextSequence',
           \A v \in Delivery : receipts'[v].sequence \in {0, receipts[v].sequence}
                               \/ (fresh /\ v = w /\ receipts'[v].sequence = nextSequence),
           fresh => Cardinality(Recoverable \cup {w}) <= MaxRecoverable
    PROVE  RecoveryAvailable' /\ SequencesBelow'
<1> DEFINE R == IF fresh THEN Recoverable \cup {w} ELSE Recoverable
<1>1. \A v \in Delivery : /\ receipts[v].sequence \in Nat
                          /\ receipts'[v].sequence \in Nat
                          /\ receipts[v].sequence < nextSequence
  BY DEF TypeOK, StoreTypes, StoreInv, SequencesBelow, UsedSequences, Receipt
<1>2. nextSequence \in Nat /\ nextSequence > 0
  BY DEF TypeOK
<1>3. \A v \in Delivery : receipts'[v].sequence < nextSequence'
  BY <1>1, <1>2
<1>4. SequencesBelow'
  BY <1>3 DEF SequencesBelow, UsedSequences
<1>5. \A v \in Recoverable' : /\ v \in Delivery
                              /\ receipts'[v].sequence > 0
  BY DEF Recoverable, EnvelopeWhilePending
<1>6. \A v \in Recoverable' : v \in Recoverable \/ (fresh /\ v = w)
  BY <1>1, <1>5 DEF Recoverable, EnvelopeWhilePending, StoreInv
<1>7. Cardinality(Recoverable') <= MaxRecoverable
  <2>1. IsFiniteSet(R)
    <3>1. R \subseteq Delivery
      BY DEF Recoverable
    <3> QED
      BY <3>1, FS_Subset, IngressAssumption
  <2>2. Recoverable' \subseteq R
    BY <1>6
  <2>3. Cardinality(R) <= MaxRecoverable
    BY DEF StoreInv, RecoveryAvailable
  <2>4. IsFiniteSet(Recoverable') /\ Cardinality(Recoverable') <= Cardinality(R)
    BY <2>1, <2>2, FS_Subset
  <2>5. Cardinality(R) \in Nat /\ Cardinality(Recoverable') \in Nat
    BY <2>1, <2>4, FS_CardinalityType
  <2> HIDE DEF R
  <2> QED
    BY <2>3, <2>4, <2>5, IngressAssumption
<1>8. ASSUME NEW u \in Recoverable', NEW v \in Recoverable',
             receipts'[u].sequence = receipts'[v].sequence
      PROVE  u = v
  <2>1. u \in Delivery /\ v \in Delivery
    BY <1>5
  <2>2. CASE fresh /\ (u = w \/ v = w)
    BY <1>1, <1>2, <1>5, <1>6, <1>8, <2>1, <2>2
       DEF Recoverable, EnvelopeWhilePending, StoreInv, RecoveryAvailable
  <2>3. CASE ~(fresh /\ (u = w \/ v = w))
    <3>1. /\ receipts'[u].sequence = receipts[u].sequence
          /\ receipts'[v].sequence = receipts[v].sequence
      BY <1>5, <2>1, <2>3
    <3>2. u \in Recoverable /\ v \in Recoverable
      BY <1>6, <2>3
    <3> QED
      BY <1>8, <3>1, <3>2 DEF StoreInv, RecoveryAvailable
  <2> QED
    BY <2>2, <2>3
<1> QED
  BY <1>4, <1>7, <1>8 DEF RecoveryAvailable

\* Granting the claim, with or without superseding it on the spot.
LEMMA GrantStep ==
    ASSUME TypeOK, StoreInv, NEW p \in Process, NEW w \in Delivery, NEW scope \in Scope,
           scope = "recovery" => receipts[w].status # "none",
           HasRoom(w, scope), Claimable(p, w), Admit(w, scope),
           GrantClaim(p, w, scope) \/ GrantStaleStop(p, w, scope)
    PROVE  StoreTypes' /\ StoreInv' /\ Keeps
<1> DEFINE x == ExecutionOf[w]
           d == claims[x].delivery
           r == Received(w, scope)
<1> USE DEF StoreInv
<1>1. /\ x \in Execution /\ \A v \in Delivery : ExecutionOf[v] \in Execution
      /\ claims[x] \in Claim
      /\ receipts \in [Delivery -> Receipt] /\ claims \in [Execution -> Claim]
      /\ nextSequence \in Nat \ {0}
  BY IngressAssumption DEF TypeOK
<1>2. /\ r \in Receipt /\ r.dispatched = receipts[w].dispatched
      /\ r.sequence = IF NeedsEnvelope(w, scope) THEN nextSequence ELSE receipts[w].sequence
  BY ReceivedFacts
<1>3. /\ nextSequence' = IF NeedsEnvelope(w, scope)
                         THEN nextSequence + 1 ELSE nextSequence
      /\ fences' \in [Session -> Fence]
      /\ stopFences' \in [Session -> Cursor]
      /\ \A s \in Session : fences'[s].sequence < nextSequence'
  BY AdmitFacts
<1>4. /\ claims[x].status \in {"none", "claimed"}
      /\ claims[x].status = "none" => d \notin Delivery
      /\ claims[x].status = "claimed" =>
            d \in Delivery /\ ExecutionOf[d] = x /\ receipts[d].status = "claimed"
  BY <1>1, IngressAssumption DEF Claimable, ClaimAgreement, RecordShapes, NoClaim, Claim
<1>5. ~receipts[w].dispatched /\ receipts[w].status \in {"none", "received", "claimed"}
  BY <1>1 DEF Claimable, ClaimAgreement, RecordShapes, Receipt, Claim
<1>6. r.sequence > 0
  <2>1. receipts[w].sequence \in Nat /\ (receipts[w].sequence > 0 <=> Pending(receipts[w]))
    BY <1>1 DEF EnvelopeWhilePending, Receipt
  <2>2. NeedsEnvelope(w, scope) \/ receipts[w].sequence > 0
    BY <1>1, <1>5, <2>1 DEF NeedsEnvelope, Pending
  <2> QED
    BY <1>1, <1>2, <2>2
<1>0. ~ (GrantClaim(p, w, scope) /\ GrantStaleStop(p, w, scope))
  BY <1>1 DEF GrantClaim, GrantStaleStop
<1>7. \A v \in Delivery : v # w /\ v # d => receipts'[v] = receipts[v]
  BY DEF GrantClaim, GrantStaleStop
<1>8. \A v \in Delivery : v # w /\ v = d => /\ receipts'[v] \in Receipt
                                            /\ receipts'[v].status = "superseded"
                                            /\ receipts'[v].sequence = 0
                                            /\ receipts'[v].dispatched = receipts[v].dispatched
  BY <1>1, SupersededFacts DEF GrantClaim, GrantStaleStop
<1>9. /\ receipts'[w] \in Receipt
      /\ receipts'[w].owner = p
      /\ receipts'[w].dispatched = FALSE
      /\ GrantClaim(p, w, scope) => /\ receipts'[w].status = "claimed"
                                    /\ receipts'[w].sequence = r.sequence
      /\ GrantStaleStop(p, w, scope) => /\ receipts'[w].status = "superseded"
                                        /\ receipts'[w].sequence = 0
  <2>1. \A q \in Receipt : LET g == [q EXCEPT !.status = "claimed", !.owner = p]
                           IN  /\ g \in Receipt /\ g.owner = p /\ g.status = "claimed"
                               /\ g.sequence = q.sequence /\ g.dispatched = q.dispatched
    BY DEF Receipt, Status
  <2>2. \A q \in Receipt : LET g == [q EXCEPT !.owner = p]
                           IN  /\ g \in Receipt /\ g.owner = p /\ g.status = q.status
                               /\ g.sequence = q.sequence /\ g.dispatched = q.dispatched
    BY DEF Receipt
  <2>3. CASE GrantClaim(p, w, scope)
    <3>1. receipts'[w] = [r EXCEPT !.status = "claimed", !.owner = p]
      BY <2>3 DEF GrantClaim
    <3> QED
      BY <1>0, <1>1, <1>2, <1>5, <2>1, <2>3, <3>1 DEF Receipt
  <2>4. CASE GrantStaleStop(p, w, scope)
    <3>1. receipts'[w] = [Superseded(r) EXCEPT !.owner = p]
      BY <2>4 DEF GrantStaleStop
    <3> HIDE DEF r
    <3> QED
      BY <1>0, <1>1, <1>2, <1>5, <2>2, <2>4, <3>1, SupersededFacts DEF Receipt
  <2> QED
    BY <2>3, <2>4
<1> HIDE DEF r
<1>10. receipts' \in [Delivery -> Receipt]
  <2>1. \A v \in Delivery : receipts'[v] \in Receipt
    BY <1>1, <1>7, <1>8, <1>9
  <2>2. CASE GrantClaim(p, w, scope)
    BY <2>1, <2>2 DEF GrantClaim
  <2>3. CASE GrantStaleStop(p, w, scope)
    BY <2>1, <2>3 DEF GrantStaleStop
  <2> QED
    BY <2>2, <2>3
<1>11. /\ claims' \in [Execution -> Claim]
       /\ \A y \in Execution : y # x => claims'[y] = claims[y]
       /\ claims'[x].delivery = w /\ claims'[x].owner = p /\ claims'[x].dispatched = FALSE
       /\ GrantClaim(p, w, scope) => claims'[x].status = "claimed"
       /\ GrantStaleStop(p, w, scope) => claims'[x].status = "completed"
  <2> DEFINE c(st) == [status |-> st, delivery |-> w, owner |-> p, dispatched |-> FALSE]
  <2>1. \A st \in {"claimed", "completed"} :
           /\ c(st) \in Claim /\ c(st).status = st
           /\ c(st).delivery = w /\ c(st).owner = p /\ c(st).dispatched = FALSE
    BY DEF Claim
  <2>5. ASSUME NEW k \in Claim, claims' = [claims EXCEPT ![x] = k]
        PROVE  /\ claims' \in [Execution -> Claim]
               /\ \A y \in Execution : y # x => claims'[y] = claims[y]
               /\ claims'[x] = k
    BY <1>1, <2>5
  <2>2. CASE GrantClaim(p, w, scope)
    <3>1. claims' = [claims EXCEPT ![x] = c("claimed")]
      BY <2>2 DEF GrantClaim
    <3>2. /\ c("claimed") \in Claim /\ c("claimed").status = "claimed"
          /\ c("claimed").delivery = w /\ c("claimed").owner = p
          /\ c("claimed").dispatched = FALSE
      BY <2>1
    <3> HIDE DEF c
    <3> QED
      BY <1>0, <2>2, <2>5, <3>1, <3>2
  <2>3. CASE GrantStaleStop(p, w, scope)
    <3>1. claims' = [claims EXCEPT ![x] = c("completed")]
      BY <2>3 DEF GrantStaleStop
    <3>2. /\ c("completed") \in Claim /\ c("completed").status = "completed"
          /\ c("completed").delivery = w /\ c("completed").owner = p
          /\ c("completed").dispatched = FALSE
      BY <2>1
    <3> HIDE DEF c
    <3> QED
      BY <1>0, <2>3, <2>5, <3>1, <3>2
  <2> QED
    BY <2>2, <2>3
<1>12. StoreTypes'
  BY <1>1, <1>3, <1>10, <1>11 DEF StoreTypes
<1>13. ClaimAgreement'
  <2>1. ASSUME NEW y \in Execution, claims'[y].status = "claimed"
        PROVE  /\ claims'[y].delivery \in Delivery
               /\ ExecutionOf[claims'[y].delivery] = y
               /\ receipts'[claims'[y].delivery].status = "claimed"
               /\ receipts'[claims'[y].delivery].owner = claims'[y].owner
               /\ receipts'[claims'[y].delivery].dispatched = claims'[y].dispatched
    <3>1. CASE y = x
      BY <1>1, <1>9, <1>11, <2>1, <3>1 DEF Claim
    <3>2. CASE y # x
      BY <1>1, <1>4, <1>7, <1>11, <2>1, <3>2 DEF ClaimAgreement
    <3> QED
      BY <3>1, <3>2
  <2>2. ASSUME NEW v \in Delivery, receipts'[v].status = "claimed"
        PROVE  /\ claims'[ExecutionOf[v]].status = "claimed"
               /\ claims'[ExecutionOf[v]].delivery = v
    <3>1. CASE v = w
      BY <1>9, <1>11, <2>2, <3>1
    <3>2. CASE v # w
      BY <1>1, <1>7, <1>8, <1>11, <2>2, <3>2 DEF ClaimAgreement
    <3> QED
      BY <3>1, <3>2
  <2> QED
    BY <2>1, <2>2 DEF ClaimAgreement
<1>14. EnvelopeWhilePending'
  <2>1. ASSUME NEW v \in Delivery
        PROVE  receipts'[v].sequence > 0 <=> Pending(receipts'[v])
    <3>1. CASE v = w
      BY <1>6, <1>9, <3>1 DEF Pending
    <3>2. CASE v # w
      BY <1>7, <1>8, <3>2 DEF Pending, EnvelopeWhilePending
    <3> QED
      BY <3>1, <3>2
  <2> QED
    BY <2>1 DEF EnvelopeWhilePending
<1>15. RecordShapes'
  <2>1. \A v \in Delivery : receipts'[v].dispatched =>
                               receipts'[v].status \in {"claimed", "completed"}
    BY <1>4, <1>5, <1>7, <1>8, <1>9, <1>1 DEF RecordShapes, ClaimAgreement, Claimable
  <2>2. \A y \in Execution : /\ claims'[y].status = "none" => claims'[y] = NoClaim
                             /\ claims'[y].status # "none" => claims'[y].owner \in Process
    BY <1>11 DEF RecordShapes
  <2> QED
    BY <2>1, <2>2 DEF RecordShapes
<1>16. RecoveryAvailable' /\ SequencesBelow'
  <2>1. \A v \in Delivery :
           receipts'[v].sequence \in {0, receipts[v].sequence}
           \/ (NeedsEnvelope(w, scope) /\ v = w /\ receipts'[v].sequence = nextSequence)
    BY <1>2, <1>7, <1>8, <1>9
  <2>2. NeedsEnvelope(w, scope) => Cardinality(Recoverable \cup {w}) <= MaxRecoverable
    BY DEF HasRoom
  <2>3. NeedsEnvelope(w, scope) \in BOOLEAN
    BY DEF NeedsEnvelope
  <2> QED
    BY <1>3, <1>12, <1>14, <2>1, <2>2, <2>3, SequenceStep
<1>17. Keeps
  <2>1. \A v \in Delivery : receipts[v].status # "none" => receipts'[v].status # "none"
    BY <1>0, <1>7, <1>8, <1>9
  <2>2. ~claims[x].dispatched
    BY <1>1 DEF Claimable, RecordShapes, NoClaim
  <2> QED
    BY <1>11, <2>1, <2>2 DEF Keeps
<1> QED
  BY <1>12, <1>13, <1>14, <1>15, <1>16, <1>17

\* Putting the delivery on record, superseded or not, with no claim changed.
LEMMA RecordStep ==
    ASSUME TypeOK, StoreInv, NEW w \in Delivery, NEW scope \in Scope,
           scope = "recovery" => receipts[w].status # "none",
           HasRoom(w, scope), Admit(w, scope), UNCHANGED claims,
           NEW r, receipts' = [receipts EXCEPT ![w] = r],
           \/ r = Received(w, scope)
           \/ r = Superseded(Received(w, scope))
              /\ receipts[w].status \in {"none", "received"}
    PROVE  StoreTypes' /\ StoreInv' /\ Keeps
<1> USE DEF StoreInv
<1>1. /\ \A v \in Delivery : ExecutionOf[v] \in Execution
      /\ receipts \in [Delivery -> Receipt] /\ claims \in [Execution -> Claim]
      /\ nextSequence \in Nat \ {0}
  BY IngressAssumption DEF TypeOK
<1>2. /\ Received(w, scope) \in Receipt
      /\ Received(w, scope).status =
            IF receipts[w].status = "none" THEN "received" ELSE receipts[w].status
      /\ Received(w, scope).dispatched = receipts[w].dispatched
      /\ receipts[w].status # "none" => Received(w, scope).owner = receipts[w].owner
      /\ Received(w, scope).sequence =
            IF NeedsEnvelope(w, scope) THEN nextSequence ELSE receipts[w].sequence
  BY ReceivedFacts
<1>3. /\ nextSequence' = IF NeedsEnvelope(w, scope)
                         THEN nextSequence + 1 ELSE nextSequence
      /\ fences' \in [Session -> Fence]
      /\ stopFences' \in [Session -> Cursor]
      /\ \A s \in Session : fences'[s].sequence < nextSequence'
  BY AdmitFacts
<1>4. /\ r \in Receipt /\ r.dispatched = receipts[w].dispatched
      /\ r.sequence \in {0, Received(w, scope).sequence}
      /\ r.status = "claimed" <=> receipts[w].status = "claimed"
      /\ receipts[w].status = "claimed" => r.owner = receipts[w].owner
  BY <1>1, <1>2, SupersededFacts
<1>5. receipts'[w] = r /\ \A v \in Delivery : v # w => receipts'[v] = receipts[v]
  BY <1>1
<1>6. StoreTypes'
  BY <1>1, <1>3, <1>4 DEF StoreTypes
<1>7. receipts[w].sequence \in Nat /\ (receipts[w].sequence > 0 <=> Pending(receipts[w]))
  BY <1>1 DEF EnvelopeWhilePending, Receipt
<1>8. receipts[w].dispatched => receipts[w].status \in {"claimed", "completed"}
  BY DEF RecordShapes
<1>9. r.sequence > 0 <=> Pending(r)
  <2>1. CASE r = Received(w, scope)
    BY <1>1, <1>2, <1>7, <1>8, <2>1 DEF NeedsEnvelope, Pending, Receipt
  <2>2. CASE r = Superseded(Received(w, scope))
    BY <1>2, <2>2, SupersededFacts DEF Pending
  <2> QED
    BY <2>1, <2>2
<1>10. ClaimAgreement'
  BY <1>1, <1>4, <1>5 DEF ClaimAgreement
<1>11. EnvelopeWhilePending'
  BY <1>5, <1>9 DEF EnvelopeWhilePending
<1>12. RecordShapes'
  <2>1. r.dispatched => r.status \in {"claimed", "completed"}
    BY <1>1, <1>2, <1>4, <1>8 DEF Superseded
  <2> QED
    BY <1>5, <2>1 DEF RecordShapes
<1>13. RecoveryAvailable' /\ SequencesBelow'
  <2>1. \A v \in Delivery :
           receipts'[v].sequence \in {0, receipts[v].sequence}
           \/ (NeedsEnvelope(w, scope) /\ v = w /\ receipts'[v].sequence = nextSequence)
    BY <1>2, <1>4, <1>5
  <2>2. NeedsEnvelope(w, scope) => Cardinality(Recoverable \cup {w}) <= MaxRecoverable
    BY DEF HasRoom
  <2>3. NeedsEnvelope(w, scope) \in BOOLEAN
    BY DEF NeedsEnvelope
  <2> QED
    BY <1>3, <1>6, <1>11, <2>1, <2>2, <2>3, SequenceStep
<1>14. Keeps
  <2>1. receipts[w].status # "none" => r.status # "none"
    BY <1>1, <1>2, SupersededFacts
  <2> QED
    BY <1>5, <2>1 DEF Keeps
<1> QED
  BY <1>6, <1>10, <1>11, <1>12, <1>13, <1>14

\* What the owner of a claim may do to it and to its receipt, in one write.
LEMMA OwnedStep ==
    ASSUME TypeOK, StoreInv, NEW p \in Process, NEW w \in Delivery, Owned(p, w),
           NEW r \in Receipt, receipts' = [receipts EXCEPT ![w] = r],
           NEW c \in Claim, claims' = [claims EXCEPT ![ExecutionOf[w]] = c],
           UNCHANGED <<fences, stopFences, nextSequence>>,
           r.sequence \in {0, receipts[w].sequence},
           r.sequence > 0 <=> Pending(r),
           r.dispatched => r.status \in {"claimed", "completed"},
           r.status = "claimed" <=> c.status = "claimed",
           c.status = "claimed" => /\ c.delivery = w /\ r.owner = c.owner
                                   /\ r.dispatched = c.dispatched,
           c.status = "none" => c = NoClaim,
           c.status # "none" => c.owner \in Process,
           r.status # "none",
           claims[ExecutionOf[w]].dispatched => c.dispatched /\ c.owner = p
    PROVE  StoreTypes' /\ StoreInv' /\ Keeps
<1> DEFINE x == ExecutionOf[w]
<1> USE DEF StoreInv
<1>1. /\ x \in Execution /\ \A v \in Delivery : ExecutionOf[v] \in Execution
      /\ receipts \in [Delivery -> Receipt] /\ claims \in [Execution -> Claim]
      /\ claims[x].delivery = w /\ claims[x].status = "claimed"
  BY IngressAssumption DEF TypeOK, Owned
<1>2. /\ receipts'[w] = r /\ \A v \in Delivery : v # w => receipts'[v] = receipts[v]
      /\ claims'[x] = c /\ \A y \in Execution : y # x => claims'[y] = claims[y]
  BY <1>1
<1>3. StoreTypes'
  BY <1>1 DEF StoreTypes, TypeOK
<1>4. ClaimAgreement'
  <2>1. ASSUME NEW y \in Execution, claims'[y].status = "claimed"
        PROVE  /\ claims'[y].delivery \in Delivery
               /\ ExecutionOf[claims'[y].delivery] = y
               /\ receipts'[claims'[y].delivery].status = "claimed"
               /\ receipts'[claims'[y].delivery].owner = claims'[y].owner
               /\ receipts'[claims'[y].delivery].dispatched = claims'[y].dispatched
    <3>1. CASE y = x
      BY <1>2, <2>1, <3>1
    <3>2. CASE y # x
      BY <1>1, <1>2, <2>1, <3>2 DEF ClaimAgreement
    <3> QED
      BY <3>1, <3>2
  <2>2. ASSUME NEW v \in Delivery, receipts'[v].status = "claimed"
        PROVE  /\ claims'[ExecutionOf[v]].status = "claimed"
               /\ claims'[ExecutionOf[v]].delivery = v
    <3>1. CASE v = w
      BY <1>2, <2>2, <3>1
    <3>2. CASE v # w
      BY <1>1, <1>2, <2>2, <3>2 DEF ClaimAgreement
    <3> QED
      BY <3>1, <3>2
  <2> QED
    BY <2>1, <2>2 DEF ClaimAgreement
<1>5. EnvelopeWhilePending'
  BY <1>2 DEF EnvelopeWhilePending
<1>6. RecordShapes'
  BY <1>2 DEF RecordShapes
<1>7. RecoveryAvailable' /\ SequencesBelow'
  <2>1. \A s \in Session : fences'[s].sequence < nextSequence'
    BY DEF SequencesBelow, UsedSequences
  <2>2. \A v \in Delivery :
           receipts'[v].sequence \in {0, receipts[v].sequence}
           \/ (FALSE /\ v = w /\ receipts'[v].sequence = nextSequence)
    BY <1>2
  <2>3. /\ nextSequence' = IF FALSE THEN nextSequence + 1 ELSE nextSequence
        /\ FALSE \in BOOLEAN
        /\ FALSE => Cardinality(Recoverable \cup {w}) <= MaxRecoverable
    OBVIOUS
  <2> QED
    BY <1>3, <1>5, <2>1, <2>2, <2>3, SequenceStep
<1>8. Keeps
  BY <1>2 DEF Keeps, Owned
<1> QED
  BY <1>3, <1>4, <1>5, <1>6, <1>7, <1>8

\* The four writes of an owner: the dispatch marker, the withdrawal by a stop,
\* the release, and the settlement.
LEMMA MarkStep ==
    ASSUME TypeOK, StoreInv, NEW p \in Process, NEW w \in Delivery, Owned(p, w),
           ~claims[ExecutionOf[w]].dispatched, MarkDispatchStarted(w),
           UNCHANGED <<fences, stopFences, nextSequence>>
    PROVE  /\ StoreTypes' /\ StoreInv' /\ Keeps
           /\ claims'[ExecutionOf[w]].dispatched
           /\ claims'[ExecutionOf[w]].owner = p
<1> DEFINE x == ExecutionOf[w]
           r == [receipts[w] EXCEPT !.dispatched = TRUE, !.sequence = 0]
           c == [claims[x] EXCEPT !.dispatched = TRUE]
<1>1. /\ x \in Execution /\ receipts[w] \in Receipt /\ claims[x] \in Claim
      /\ receipts \in [Delivery -> Receipt] /\ claims \in [Execution -> Claim]
  BY IngressAssumption DEF TypeOK
<1>2. receipts[w].owner = p
  BY <1>1 DEF StoreInv, ClaimAgreement, Owned
<1>3. r \in Receipt /\ r.status = "claimed" /\ r.sequence = 0 /\ r.dispatched = TRUE /\ r.owner = p
  BY <1>1, <1>2 DEF Receipt, Owned
<1>4. c \in Claim /\ c.status = "claimed" /\ c.dispatched = TRUE /\ c.owner = p /\ c.delivery = w
  BY <1>1 DEF Claim, Owned
<1>5. receipts' = [receipts EXCEPT ![w] = r] /\ claims' = [claims EXCEPT ![x] = c]
  BY <1>1 DEF MarkDispatchStarted
<1> HIDE DEF r, c
<1>6. StoreTypes' /\ StoreInv' /\ Keeps
  <2>1. /\ r.sequence > 0 <=> Pending(r)
        /\ r.sequence \in {0, receipts[w].sequence}
        /\ r.dispatched => r.status \in {"claimed", "completed"}
        /\ r.status = "claimed" <=> c.status = "claimed"
        /\ c.status = "claimed" => /\ c.delivery = w /\ r.owner = c.owner
                                   /\ r.dispatched = c.dispatched
        /\ c.status = "none" => c = NoClaim
        /\ c.status # "none" => c.owner \in Process
        /\ r.status # "none"
        /\ claims[x].dispatched => c.dispatched /\ c.owner = p
    <3>1. r.dispatched = c.dispatched
      BY <1>3, <1>4, Zenon
    <3>2. r.sequence > 0 <=> Pending(r)
      BY <1>3, SMT DEF Pending
    <3> QED
      BY <1>3, <1>4, <3>1, <3>2, SMT
  <2>2. r \in Receipt /\ c \in Claim
    BY <1>3, <1>4
  <2> QED
    BY <1>5, <2>1, <2>2, OwnedStep
<1>7. claims'[x] = c
  BY <1>1, <1>5
<1> QED
  BY <1>4, <1>6, <1>7

LEMMA SupersedeOwnedStep ==
    ASSUME TypeOK, StoreInv, NEW p \in Process, NEW w \in Delivery, Owned(p, w),
           ~claims[ExecutionOf[w]].dispatched, SupersedeOwnedClaim(w),
           UNCHANGED <<fences, stopFences, nextSequence>>
    PROVE  StoreTypes' /\ StoreInv' /\ Keeps
<1> DEFINE x == ExecutionOf[w]
           r == Superseded(receipts[w])
           c == [claims[x] EXCEPT !.status = "completed"]
<1>1. /\ x \in Execution /\ receipts[w] \in Receipt /\ claims[x] \in Claim
      /\ receipts \in [Delivery -> Receipt] /\ claims \in [Execution -> Claim]
  BY IngressAssumption DEF TypeOK
<1>2. ~receipts[w].dispatched
  BY <1>1 DEF StoreInv, ClaimAgreement, Owned
<1>3. r \in Receipt /\ r.status = "superseded" /\ r.sequence = 0 /\ ~r.dispatched
  BY <1>1, <1>2, SupersededFacts
<1>4. c \in Claim /\ c.status = "completed" /\ ~c.dispatched /\ c.owner = p
  BY <1>1 DEF Claim, Owned
<1>5. receipts' = [receipts EXCEPT ![w] = r] /\ claims' = [claims EXCEPT ![x] = c]
  BY <1>1 DEF SupersedeOwnedClaim
<1> HIDE DEF r, c
<1>6. /\ r.sequence > 0 <=> Pending(r)
      /\ r.sequence \in {0, receipts[w].sequence}
      /\ r.dispatched => r.status \in {"claimed", "completed"}
      /\ r.status = "claimed" <=> c.status = "claimed"
      /\ c.status # "claimed" /\ c.status # "none" /\ r.status # "none"
      /\ claims[x].dispatched => c.dispatched
  BY <1>3, <1>4 DEF Pending
<1> QED
  BY <1>3, <1>4, <1>5, <1>6, OwnedStep

LEMMA ReleaseStep ==
    ASSUME TypeOK, StoreInv, NEW p \in Process, NEW w \in Delivery, Owned(p, w),
           ~claims[ExecutionOf[w]].dispatched,
           receipts' = [receipts EXCEPT ![w].status = "received", ![w].owner = None],
           claims' = [claims EXCEPT ![ExecutionOf[w]] = NoClaim],
           UNCHANGED <<fences, stopFences, nextSequence>>
    PROVE  StoreTypes' /\ StoreInv' /\ Keeps
<1> DEFINE x == ExecutionOf[w]
           r == [receipts[w] EXCEPT !.status = "received", !.owner = None]
<1>1. /\ x \in Execution /\ receipts[w] \in Receipt /\ claims[x] \in Claim
      /\ receipts \in [Delivery -> Receipt] /\ claims \in [Execution -> Claim]
  BY IngressAssumption DEF TypeOK
<1>2. /\ ~receipts[w].dispatched
      /\ receipts[w].sequence > 0
  BY <1>1 DEF StoreInv, ClaimAgreement, Owned, EnvelopeWhilePending, Pending
<1>3. /\ r \in Receipt /\ r.status = "received" /\ r.sequence = receipts[w].sequence
      /\ ~r.dispatched
  BY <1>1, <1>2 DEF Receipt, Status
<1>4. NoClaim \in Claim /\ NoClaim.status = "none"
  BY DEF NoClaim, Claim
<1>5. receipts' = [receipts EXCEPT ![w] = r]
  BY <1>1
<1> HIDE DEF r
<1>6. /\ r.sequence > 0 <=> Pending(r)
      /\ r.sequence \in {0, receipts[w].sequence}
      /\ r.dispatched => r.status \in {"claimed", "completed"}
      /\ r.status = "claimed" <=> NoClaim.status = "claimed"
      /\ r.status # "none"
  BY <1>2, <1>3, <1>4 DEF Pending
<1> QED
  BY <1>3, <1>4, <1>5, <1>6, OwnedStep

\* The one write by which the owner of a dispatched claim closes it.
Settled(w) ==
    /\ receipts' = [receipts EXCEPT ![w].status = "completed"]
    /\ claims' = [claims EXCEPT ![ExecutionOf[w]].status = "completed"]

LEMMA SettleStep ==
    ASSUME TypeOK, StoreInv, NEW p \in Process, NEW w \in Delivery, Owned(p, w),
           claims[ExecutionOf[w]].dispatched, Settled(w),
           UNCHANGED <<fences, stopFences, nextSequence>>
    PROVE  StoreTypes' /\ StoreInv' /\ Keeps
<1> DEFINE x == ExecutionOf[w]
           r == [receipts[w] EXCEPT !.status = "completed"]
           c == [claims[x] EXCEPT !.status = "completed"]
<1>1. /\ x \in Execution /\ receipts[w] \in Receipt /\ claims[x] \in Claim
      /\ receipts \in [Delivery -> Receipt] /\ claims \in [Execution -> Claim]
  BY IngressAssumption DEF TypeOK
<1>2. receipts[w].dispatched /\ receipts[w].sequence = 0
  BY <1>1 DEF StoreInv, ClaimAgreement, Owned, EnvelopeWhilePending, Pending, Receipt
<1>3. r \in Receipt /\ r.status = "completed" /\ r.sequence = 0 /\ r.dispatched = TRUE
  BY <1>1, <1>2 DEF Receipt, Status
<1>4. c \in Claim /\ c.status = "completed" /\ c.dispatched = TRUE /\ c.owner = p
  BY <1>1 DEF Claim, Owned
<1>5. receipts' = [receipts EXCEPT ![w] = r] /\ claims' = [claims EXCEPT ![x] = c]
  BY <1>1 DEF Settled
<1> HIDE DEF r, c
<1>6. /\ r.sequence > 0 <=> Pending(r)
      /\ r.sequence \in {0, receipts[w].sequence}
      /\ r.dispatched => r.status \in {"claimed", "completed"}
      /\ r.status = "claimed" <=> c.status = "claimed"
      /\ c.status = "claimed" => /\ c.delivery = w /\ r.owner = c.owner
                                 /\ r.dispatched = c.dispatched
      /\ c.status = "none" => c = NoClaim
      /\ c.status # "none" => c.owner \in Process
      /\ r.status # "none"
      /\ claims[x].dispatched => c.dispatched /\ c.owner = p
  BY <1>3, <1>4 DEF Pending
<1> QED
  BY <1>3, <1>4, <1>5, <1>6, OwnedStep

----------------------------------------------------------------------------
(* The volatile state, one answer of a mutation at a time. *)

\* What the process of a handler may do with the answer to its mutation.
Answered(p, h, rest) ==
    \/ ClaimFails(p, h, rest)
    \/ BeginFails(p, h, rest)
    \/ GivesBack(p, h, rest)
    \/ Claimed(p, h, rest)
    \/ NotClaimed(p, h, rest)
    \/ Started(p, h, rest)
    \/ Stopped(p, h, rest)
    \/ Queues(p, h, "rebegin", rest) /\ UNCHANGED <<phase, accepted, recovery, starts, acked>>

VolatileTypes ==
    /\ phase \in [Process -> Phase]
    /\ accepted \in [Process -> SUBSET Delivery]
    /\ handlers \in [Process -> [Handler -> HandlerState]]
    /\ queue \in [Process -> Seq(Handler)]
    /\ recovery \in [Process -> Recovery]
    /\ starts \in [Execution -> [Process -> Nat]]
    /\ acked \subseteq Delivery

LEMMA AnsweredTypes ==
    ASSUME TypeOK, NEW p \in Process, NEW h \in Handler, NEW rest \in Seq(Handler),
           handlers[p][h].delivery \in Delivery, Answered(p, h, rest)
    PROVE  VolatileTypes'
<1> DEFINE w == handlers[p][h].delivery
<1>1. CASE ClaimFails(p, h, rest)
  BY <1>1, ClaimFailsType DEF VolatileTypes
<1>2. CASE BeginFails(p, h, rest)
  BY <1>2, BeginFailsType DEF VolatileTypes
<1>3. CASE GivesBack(p, h, rest)
  BY <1>3, GivesBackType DEF VolatileTypes
<1>4. CASE Claimed(p, h, rest)
  <2>1. Queues(p, h, "begin", rest)
    BY <1>4 DEF Claimed
  <2>2. accepted' \in [Process -> SUBSET Delivery] /\ acked' \subseteq Delivery
    BY <1>4 DEF Claimed, TypeOK
  <2> QED
    BY <1>4, <2>1, <2>2, QueuesType DEF Claimed, VolatileTypes, TypeOK
<1>5. CASE NotClaimed(p, h, rest)
  BY <1>5, EndsType DEF NotClaimed, VolatileTypes, TypeOK
<1>6. CASE Started(p, h, rest)
  <2>1. \A r \in HandlerState : [r EXCEPT !.pc = "run"] \in HandlerState
    BY DEF HandlerState
  <2>2. handlers' \in [Process -> [Handler -> HandlerState]]
    BY <1>6, <2>1 DEF Started, TypeOK
  <2>3. ExecutionOf[w] \in Execution
    BY IngressAssumption
  <2>4. starts' \in [Execution -> [Process -> Nat]]
    BY <1>6, <2>3 DEF Started, TypeOK
  <2> QED
    BY <1>6, <2>2, <2>4 DEF Started, VolatileTypes, TypeOK
<1>7. CASE Stopped(p, h, rest)
  BY <1>7, EndsType DEF Stopped, VolatileTypes, TypeOK
<1>8. CASE /\ Queues(p, h, "rebegin", rest)
           /\ UNCHANGED <<phase, accepted, recovery, starts, acked>>
  BY <1>8, QueuesType DEF VolatileTypes, TypeOK
<1> QED
  BY <1>1, <1>2, <1>3, <1>4, <1>5, <1>6, <1>7, <1>8 DEF Answered

\* No answer gives a handler another delivery or the recovery another candidate.
LEMMA AnsweredKnown ==
    ASSUME TypeOK, KnownDeliveries, Keeps, NEW p \in Process, NEW h \in Handler,
           NEW rest \in Seq(Handler), handlers[p][h].pc # "idle", Answered(p, h, rest)
    PROVE  KnownDeliveries'
<1>1. \A q \in Process, g \in Handler :
         handlers'[q][g] = handlers[q][g] \/ handlers'[q][g] = Idle
         \/ /\ handlers[q][g].pc # "idle"
            /\ handlers'[q][g].delivery = handlers[q][g].delivery
            /\ handlers'[q][g].scope = handlers[q][g].scope
  <2>2. \/ handlers' = [handlers EXCEPT ![p][h] = Idle]
        \/ handlers' = [handlers EXCEPT ![p][h].pc = "begin"]
        \/ handlers' = [handlers EXCEPT ![p][h].pc = "release"]
        \/ handlers' = [handlers EXCEPT ![p][h].pc = "rebegin"]
        \/ handlers' = [handlers EXCEPT ![p][h].pc = "run"]
        \/ handlers' = [handlers EXCEPT ![p][h].pc = "finish"]
    BY DEF Answered, ClaimFails, BeginFails, GivesBack, Claimed, NotClaimed,
           Started, Stopped, Ends, Queues
  <2>3. CASE handlers' = [handlers EXCEPT ![p][h] = Idle]
    BY <2>3 DEF TypeOK
  <2>4. ASSUME NEW pc \in STRING, handlers' = [handlers EXCEPT ![p][h].pc = pc]
        PROVE  \A q \in Process, g \in Handler :
                  handlers'[q][g] = handlers[q][g]
                  \/ /\ handlers[q][g].pc # "idle"
                     /\ handlers'[q][g].delivery = handlers[q][g].delivery
                     /\ handlers'[q][g].scope = handlers[q][g].scope
    <3>1. handlers[p][h] \in HandlerState
      BY DEF TypeOK
    <3>2. handlers'[p][h] = [handlers[p][h] EXCEPT !.pc = pc]
      BY <2>4 DEF TypeOK
    <3>3. \A q \in Process, g \in Handler :
             q # p \/ g # h => handlers'[q][g] = handlers[q][g]
      BY <2>4 DEF TypeOK
    <3>4. /\ handlers'[p][h].delivery = handlers[p][h].delivery
          /\ handlers'[p][h].scope = handlers[p][h].scope
      BY <3>1, <3>2 DEF HandlerState
    <3>5. ASSUME NEW q \in Process, NEW g \in Handler
          PROVE  \/ handlers'[q][g] = handlers[q][g]
                 \/ /\ handlers[q][g].pc # "idle"
                    /\ handlers'[q][g].delivery = handlers[q][g].delivery
                    /\ handlers'[q][g].scope = handlers[q][g].scope
      BY <3>3, <3>4
    <3> QED
      BY <3>5
  <2> QED
    <3>1. CASE handlers' = [handlers EXCEPT ![p][h].pc = "begin"]
      BY <2>4, <3>1
    <3>2. CASE handlers' = [handlers EXCEPT ![p][h].pc = "release"]
      BY <2>4, <3>2
    <3>3. CASE handlers' = [handlers EXCEPT ![p][h].pc = "rebegin"]
      BY <2>4, <3>3
    <3>4. CASE handlers' = [handlers EXCEPT ![p][h].pc = "run"]
      BY <2>4, <3>4
    <3>5. CASE handlers' = [handlers EXCEPT ![p][h].pc = "finish"]
      BY <2>4, <3>5
    <3> QED
      BY <2>2, <2>3, <3>1, <3>2, <3>3, <3>4, <3>5
<1>2. \A q \in Process : recovery'[q].batch \subseteq recovery[q].batch
  <2>1. \A r \in Recovery : [r EXCEPT !.requested = TRUE].batch = r.batch
    BY DEF Recovery
  <2>2. NewPass.batch = {} /\ NoRecovery.batch = {}
    BY DEF NewPass, NoRecovery
  <2>3. \/ UNCHANGED recovery
        \/ recovery' = [recovery EXCEPT ![p] = NoRecovery]
        \/ RequestRecovery(p, handlers[p][h].scope)
    BY DEF Answered, ClaimFails, BeginFails, GivesBack, Claimed, NotClaimed,
           Started, Stopped
  <2>4. /\ recovery'[p] \in {recovery[p], NoRecovery, NewPass,
                             [recovery[p] EXCEPT !.requested = TRUE]}
        /\ \A q \in Process : q # p => recovery'[q] = recovery[q]
    <3>1. CASE UNCHANGED recovery
      BY <3>1
    <3>2. CASE recovery' = [recovery EXCEPT ![p] = NoRecovery]
      BY <3>2 DEF TypeOK
    <3>3. CASE RequestRecovery(p, handlers[p][h].scope)
      BY <3>3 DEF RequestRecovery, TypeOK
    <3> QED
      BY <2>3, <3>1, <3>2, <3>3
  <2>5. recovery[p] \in Recovery
    BY DEF TypeOK
  <2>6. recovery'[p].batch \subseteq recovery[p].batch
    <3>1. [recovery[p] EXCEPT !.requested = TRUE].batch = recovery[p].batch
      BY <2>1, <2>5
    <3>2. recovery'[p].batch \in {recovery[p].batch, {}}
      BY <2>2, <2>4, <3>1, Zenon
    <3> QED
      BY <3>2
  <2> QED
    BY <2>4, <2>6
<1>3. \A q \in Process : \A b \in recovery[q].batch : b.delivery \in Delivery
  BY DEF TypeOK, Recovery, Candidate
<1>4. Idle.pc = "idle"
  BY DEF Idle
<1> QED
  BY <1>1, <1>2, <1>3, <1>4 DEF KnownDeliveries, Keeps

----------------------------------------------------------------------------
(* The inductive invariant, one action at a time. *)

LEMMA Assembled ==
    ASSUME StoreTypes', StoreInv', VolatileTypes', faults' \in Nat,
           KnownDeliveries', StartersDispatched'
    PROVE  IInv'
BY DEF IInv, TypeOK, StoreTypes, StoreInv, VolatileTypes

LEMMA StartersKept ==
    ASSUME TypeOK, StartersDispatched, Keeps, UNCHANGED starts
    PROVE  StartersDispatched'
BY DEF TypeOK, StartersDispatched, Keeps

\* Only a fault counts, and it is a number.
LEMMA FaultsType ==
    ASSUME TypeOK, NEW p \in Process, Fault(p) \/ NoFault
    PROVE  faults' \in Nat
BY DEF TypeOK, Fault, NoFault

\* What is known of a handler at work.
LEMMA HandlerFacts ==
    ASSUME TypeOK, KnownDeliveries, NEW p \in Process, NEW h \in Handler,
           handlers[p][h].pc # "idle"
    PROVE  /\ handlers[p][h].delivery \in Delivery
           /\ handlers[p][h].scope \in Scope
           /\ handlers[p][h].scope = "recovery" =>
                 receipts[handlers[p][h].delivery].status # "none"
BY DEF TypeOK, KnownDeliveries, HandlerState

LEMMA TailType ==
    ASSUME TypeOK, NEW p \in Process, queue[p] # << >>
    PROVE  Tail(queue[p]) \in Seq(Handler)
BY DEF TypeOK

\* A step that writes nothing keeps all that the store keeps.
LEMMA StoreIdle ==
    ASSUME TypeOK, StoreInv, UNCHANGED durable
    PROVE  StoreTypes' /\ StoreInv' /\ Keeps
BY DEF durable, TypeOK, StoreTypes, StoreInv, Keeps, ClaimAgreement, EnvelopeWhilePending,
       RecoveryAvailable, Recoverable, SequencesBelow, UsedSequences, RecordShapes

LEMMA ClaimEventInductive ==
    ASSUME IInv, NEW p \in Process, NEW h \in Handler, ClaimEvent(p, h)
    PROVE  IInv'
<1> DEFINE w == handlers[p][h].delivery
           scope == handlers[p][h].scope
           rest == Tail(queue[p])
<1>1. TypeOK /\ StoreInv /\ KnownDeliveries /\ StartersDispatched
  BY DEF IInv, StoreInv
<1>2. queue[p] # << >> /\ handlers[p][h].pc = "claim"
  BY DEF ClaimEvent, Mutating
<1>3. /\ w \in Delivery /\ scope \in Scope /\ rest \in Seq(Handler)
      /\ scope = "recovery" => receipts[w].status # "none"
  BY <1>1, <1>2, HandlerFacts, TailType
<1>4. Answered(p, h, rest) /\ UNCHANGED starts /\ (Fault(p) \/ NoFault)
  BY DEF ClaimEvent, Answered, ClaimFails, Claimed, NotClaimed
<1>5. StoreTypes' /\ StoreInv' /\ Keeps
  <2>1. CASE UNCHANGED durable
    BY <1>1, <2>1, StoreIdle
  <2>2. CASE /\ HasRoom(w, scope) /\ Admit(w, scope) /\ Claimable(p, w)
             /\ GrantClaim(p, w, scope) \/ GrantStaleStop(p, w, scope)
    BY <1>1, <1>3, <2>2, GrantStep
  <2>3. CASE HasRoom(w, scope) /\ Admit(w, scope) /\ RefuseClaim(w, scope)
    <3>1. CASE receipts[w].status \in {"none", "received"}
      <4>1. receipts' = [receipts EXCEPT ![w] = Superseded(Received(w, scope))]
        BY <1>1, <1>3, <2>3, <3>1 DEF RefuseClaim, TypeOK
      <4> QED
        BY <1>1, <1>3, <2>3, <3>1, <4>1, RecordStep DEF RefuseClaim
    <3>2. CASE receipts[w].status \notin {"none", "received"}
      <4>1. receipts' = [receipts EXCEPT ![w] = Received(w, scope)]
        BY <1>1, <1>3, <2>3, <3>2 DEF RefuseClaim, TypeOK
      <4> QED
        BY <1>1, <1>3, <2>3, <4>1, RecordStep DEF RefuseClaim
    <3> QED
      BY <3>1, <3>2
  <2>4. CASE /\ HasRoom(w, scope) /\ Admit(w, scope) /\ UNCHANGED claims
             /\ receipts' = [receipts EXCEPT ![w] = Received(w, scope)]
    BY <1>1, <1>3, <2>4, RecordStep
  <2> QED
    BY <2>1, <2>2, <2>3, <2>4 DEF ClaimEvent
<1> QED
  BY <1>1, <1>2, <1>3, <1>4, <1>5, Assembled, StartersKept, FaultsType,
     AnsweredTypes, AnsweredKnown

LEMMA BeginDispatchInductive ==
    ASSUME IInv, NEW p \in Process, NEW h \in Handler, BeginDispatch(p, h)
    PROVE  IInv'
<1> DEFINE w == handlers[p][h].delivery
           x == ExecutionOf[w]
           rest == Tail(queue[p])
<1>1. TypeOK /\ StoreInv /\ KnownDeliveries /\ StartersDispatched
  BY DEF IInv, StoreInv
<1>2. queue[p] # << >> /\ handlers[p][h].pc \in {"begin", "rebegin"}
  BY DEF BeginDispatch, Mutating
<1>3. w \in Delivery /\ rest \in Seq(Handler) /\ x \in Execution
  BY <1>1, <1>2, HandlerFacts, TailType, IngressAssumption
<1>4. Answered(p, h, rest) /\ (Fault(p) \/ NoFault)
  BY DEF BeginDispatch, Answered
<1>5. /\ StoreTypes' /\ StoreInv' /\ Keeps
      /\ Started(p, h, rest) /\ ~ UNCHANGED starts =>
            claims'[x].dispatched /\ claims'[x].owner = p
  <2>1. CASE /\ UNCHANGED <<receipts, claims>>
             /\ \/ Owned(p, w) /\ claims[x].dispatched
                \/ UNCHANGED starts
    <3>1. UNCHANGED durable
      BY <2>1 DEF BeginDispatch, durable
    <3> QED
      BY <1>1, <2>1, <3>1, StoreIdle DEF Owned
  <2>2. CASE Owned(p, w) /\ ~claims[x].dispatched /\ SupersedeOwnedClaim(w) /\ UNCHANGED starts
    BY <1>1, <1>3, <2>2, SupersedeOwnedStep DEF BeginDispatch
  <2>3. CASE Owned(p, w) /\ ~claims[x].dispatched /\ MarkDispatchStarted(w)
    BY <1>1, <1>3, <2>3, MarkStep DEF BeginDispatch
  <2> QED
    BY <2>1, <2>2, <2>3 DEF BeginDispatch, BeginFails, Stopped
<1>6. StartersDispatched'
  <2>1. CASE UNCHANGED starts
    BY <1>1, <1>5, <2>1, StartersKept
  <2>2. CASE ~ UNCHANGED starts
    <3>1. Started(p, h, rest)
      BY <2>2 DEF BeginDispatch, BeginFails, Stopped
    <3>2. claims'[x].dispatched /\ claims'[x].owner = p
      BY <1>5, <2>2, <3>1
    <3>3. \A y \in Execution, q \in Process :
             y # x \/ q # p => starts'[y][q] = starts[y][q]
      BY <1>1, <1>3, <3>1 DEF Started, TypeOK
    <3> QED
      BY <1>1, <1>5, <3>2, <3>3 DEF StartersDispatched, Keeps
  <2> QED
    BY <2>1, <2>2
<1> QED
  BY <1>1, <1>2, <1>3, <1>4, <1>5, <1>6, Assembled, FaultsType, AnsweredTypes, AnsweredKnown

LEMMA ReleaseClaimInductive ==
    ASSUME IInv, NEW p \in Process, NEW h \in Handler, ReleaseClaim(p, h)
    PROVE  IInv'
<1> DEFINE w == handlers[p][h].delivery
           rest == Tail(queue[p])
<1>1. TypeOK /\ StoreInv /\ KnownDeliveries /\ StartersDispatched
  BY DEF IInv, StoreInv
<1>2. queue[p] # << >> /\ handlers[p][h].pc = "release"
  BY DEF ReleaseClaim, Mutating
<1>3. w \in Delivery /\ rest \in Seq(Handler)
  BY <1>1, <1>2, HandlerFacts, TailType
<1>4. Answered(p, h, rest) /\ UNCHANGED starts /\ (Fault(p) \/ NoFault)
  BY DEF ReleaseClaim, Answered, GivesBack
<1>5. StoreTypes' /\ StoreInv' /\ Keeps
  <2>1. CASE UNCHANGED <<receipts, claims>>
    BY <1>1, <2>1, StoreIdle DEF ReleaseClaim, durable
  <2>2. CASE ~ UNCHANGED <<receipts, claims>>
    BY <1>1, <1>3, <2>2, ReleaseStep DEF ReleaseClaim
  <2> QED
    BY <2>1, <2>2
<1> QED
  BY <1>1, <1>2, <1>3, <1>4, <1>5, Assembled, StartersKept, FaultsType,
     AnsweredTypes, AnsweredKnown

LEMMA TerminalizeInductive ==
    ASSUME IInv, NEW p \in Process, NEW h \in Handler, Terminalize(p, h)
    PROVE  IInv'
<1> DEFINE w == handlers[p][h].delivery
           rest == Tail(queue[p])
<1>1. TypeOK /\ StoreInv /\ KnownDeliveries /\ StartersDispatched
  BY DEF IInv, StoreInv
<1>2. queue[p] # << >> /\ handlers[p][h].pc = "finish"
  BY DEF Terminalize, Mutating
<1>3. w \in Delivery /\ rest \in Seq(Handler)
  BY <1>1, <1>2, HandlerFacts, TailType
<1>4. Answered(p, h, rest) /\ UNCHANGED starts /\ faults' = faults
  BY DEF Terminalize, Answered, NotClaimed
<1>5. StoreTypes' /\ StoreInv' /\ Keeps
  <2>1. CASE UNCHANGED <<receipts, claims>>
    BY <1>1, <2>1, StoreIdle DEF Terminalize, durable
  <2>2. CASE ~ UNCHANGED <<receipts, claims>>
    BY <1>1, <1>3, <2>2, SettleStep DEF Terminalize, Settled
  <2> QED
    BY <2>1, <2>2
<1>6. faults' \in Nat
  BY <1>1, <1>4 DEF TypeOK
<1> QED
  BY <1>1, <1>2, <1>3, <1>4, <1>5, <1>6, Assembled, StartersKept,
     AnsweredTypes, AnsweredKnown

\* Steps that leave the durable state and the turns started as they are.
LEMMA QuietStep ==
    ASSUME IInv, UNCHANGED <<durable, starts>>, faults' \in Nat,
           VolatileTypes', Keeps => KnownDeliveries'
    PROVE  IInv'
<1>1. StoreTypes' /\ StoreInv' /\ Keeps
  BY StoreIdle DEF IInv, StoreInv
<1>2. StartersDispatched'
  BY <1>1, StartersKept DEF IInv
<1> QED
  BY <1>1, <1>2, Assembled

LEMMA TurnEndsInductive ==
    ASSUME IInv, NEW p \in Process, NEW h \in Handler, TurnEnds(p, h)
    PROVE  IInv'
<1> USE DEF IInv
<1>1. Queues(p, h, "finish", queue[p]) /\ handlers[p][h].pc = "run"
  BY DEF TurnEnds
<1>2. queue[p] \in Seq(Handler)
  BY DEF TypeOK
<1>3. handlers' \in [Process -> [Handler -> HandlerState]] /\ queue' \in [Process -> Seq(Handler)]
  BY <1>1, <1>2, QueuesType
<1>4. VolatileTypes' /\ faults' \in Nat
  BY <1>3 DEF TurnEnds, VolatileTypes, TypeOK
<1>5. ASSUME Keeps PROVE KnownDeliveries'
  <2>1. handlers[p][h] \in HandlerState
    BY DEF TypeOK
  <2>2. /\ handlers'[p][h] = [handlers[p][h] EXCEPT !.pc = "finish"]
        /\ \A q \in Process, g \in Handler :
              q # p \/ g # h => handlers'[q][g] = handlers[q][g]
    BY <1>1 DEF Queues, TypeOK
  <2>3. /\ handlers'[p][h].delivery = handlers[p][h].delivery
        /\ handlers'[p][h].scope = handlers[p][h].scope
    BY <2>1, <2>2 DEF HandlerState
  <2>4. \A q \in Process : \A b \in recovery[q].batch : b.delivery \in Delivery
    BY DEF TypeOK, Recovery, Candidate
  <2>5. recovery' = recovery /\ receipts' = receipts
    BY DEF TurnEnds, durable
  <2>6. ASSUME NEW q \in Process, NEW g \in Handler, handlers'[q][g].pc # "idle"
        PROVE  /\ handlers'[q][g].delivery \in Delivery
               /\ handlers'[q][g].scope = "recovery" =>
                     receipts'[handlers'[q][g].delivery].status # "none"
    <3>1. CASE q = p /\ g = h
      BY <1>1, <2>3, <2>5, <3>1 DEF KnownDeliveries
    <3>2. CASE q # p \/ g # h
      BY <2>2, <2>5, <2>6, <3>2 DEF KnownDeliveries
    <3> QED
      BY <3>1, <3>2
  <2> QED
    BY <2>5, <2>6 DEF KnownDeliveries
<1> QED
  BY <1>4, <1>5, QuietStep DEF TurnEnds

LEMMA MutationRejectedInductive ==
    ASSUME IInv, NEW p \in Process, NEW i \in DOMAIN queue[p], MutationRejected(p, i)
    PROVE  IInv'
<1> DEFINE h == queue[p][i]
           rest == RemoveAt(queue[p], i)
<1>1. TypeOK /\ KnownDeliveries
  BY DEF IInv
<1>2. queue[p] \in Seq(Handler)
  BY <1>1 DEF TypeOK
<1>3. h \in Handler /\ rest \in Seq(Handler)
  BY <1>2, RestType
<1>4. Answered(p, h, rest) /\ UNCHANGED starts /\ Fault(p) /\ handlers[p][h].pc # "idle"
  BY DEF MutationRejected, Answered, ClaimFails, BeginFails, GivesBack, NotClaimed
<1>5. handlers[p][h].delivery \in Delivery
  BY <1>1, <1>3, <1>4, HandlerFacts
<1> HIDE DEF h, rest
<1>6. VolatileTypes' /\ faults' \in Nat
  BY <1>1, <1>3, <1>4, <1>5, AnsweredTypes, FaultsType
<1>7. ASSUME Keeps PROVE KnownDeliveries'
  BY <1>1, <1>3, <1>4, <1>7, AnsweredKnown
<1> QED
  BY <1>4, <1>6, <1>7, QuietStep DEF MutationRejected

\* A handler takes up a delivery that recovery only offers if it is on record.
LEMMA HandleStep ==
    ASSUME IInv, NEW p \in Process, NEW h \in Handler, NEW w \in Delivery,
           NEW scope \in Scope, Handle(p, h, w, scope),
           scope = "recovery" => receipts[w].status # "none",
           \A q \in Process : recovery'[q].batch \subseteq recovery[q].batch,
           recovery' \in [Process -> Recovery],
           UNCHANGED <<durable, phase, accepted, faults, starts, acked>>
    PROVE  IInv'
<1> DEFINE s == [pc |-> "claim", delivery |-> w, scope |-> scope]
<1> USE DEF IInv
<1>1. s \in HandlerState /\ s.delivery = w /\ s.scope = scope
  BY DEF HandlerState
<1>2. handlers' = [handlers EXCEPT ![p][h] = s]
  BY DEF Handle
<1> HIDE DEF s
<1>3. handlers' \in [Process -> [Handler -> HandlerState]] /\ queue' \in [Process -> Seq(Handler)]
  BY <1>1, <1>2 DEF Handle, TypeOK
<1>4. VolatileTypes' /\ faults' \in Nat
  BY <1>3 DEF VolatileTypes, TypeOK
<1>5. \A q \in Process : \A b \in recovery[q].batch : b.delivery \in Delivery
  BY DEF TypeOK, Recovery, Candidate
<1>6. receipts' = receipts
  BY DEF durable
<1>7. ASSUME NEW q \in Process, NEW g \in Handler, handlers'[q][g].pc # "idle"
      PROVE  /\ handlers'[q][g].delivery \in Delivery
             /\ handlers'[q][g].scope = "recovery" =>
                   receipts'[handlers'[q][g].delivery].status # "none"
  <2>1. CASE q = p /\ g = h
    BY <1>1, <1>2, <1>6, <2>1 DEF TypeOK
  <2>2. CASE q # p \/ g # h
    <3>1. handlers'[q][g] = handlers[q][g]
      BY <1>2, <2>2 DEF TypeOK
    <3> QED
      BY <1>6, <1>7, <3>1 DEF KnownDeliveries
  <2> QED
    BY <2>1, <2>2
<1>8. KnownDeliveries'
  BY <1>5, <1>6, <1>7 DEF KnownDeliveries
<1> QED
  BY <1>4, <1>8, QuietStep

LEMMA DeliverInductive ==
    ASSUME IInv, NEW p \in Process, NEW h \in Handler, NEW w \in Delivery, Deliver(p, h, w)
    PROVE  IInv'
<1> DEFINE scope == IF w \in Reconciled THEN "reconciliation" ELSE "webhook"
<1>1. scope \in Scope /\ scope # "recovery"
  BY DEF Scope
<1>2. Handle(p, h, w, scope) /\ UNCHANGED <<durable, phase, accepted, recovery, faults, starts, acked>>
  BY DEF Deliver
<1>3. recovery' \in [Process -> Recovery]
  BY <1>2 DEF IInv, TypeOK
<1> HIDE DEF scope
<1> QED
  BY <1>1, <1>2, <1>3, HandleStep

LEMMA RecoveryNextInductive ==
    ASSUME IInv, NEW p \in Process, NEW h \in Handler, RecoveryNext(p, h)
    PROVE  IInv'
<1>1. PICK b \in recovery[p].batch :
         /\ recovery' = [recovery EXCEPT ![p].after = b.sequence, ![p].batch = @ \ {b}]
         /\ Handle(p, h, b.delivery, "recovery")
  BY DEF RecoveryNext
<1>2. /\ recovery[p] \in Recovery /\ recovery \in [Process -> Recovery]
      /\ KnownDeliveries
  BY DEF IInv, TypeOK
<1>3. b \in Candidate /\ b.delivery \in Delivery /\ b.sequence \in Nat
  BY <1>2 DEF Recovery, Candidate
<1>4. receipts[b.delivery].status # "none"
  BY <1>2 DEF KnownDeliveries
<1> DEFINE r == [recovery[p] EXCEPT !.after = b.sequence, !.batch = @ \ {b}]
<1>5. r \in Recovery /\ r.batch \subseteq recovery[p].batch
  BY <1>2, <1>3 DEF Recovery
<1>6. recovery' = [recovery EXCEPT ![p] = r]
  BY <1>1, <1>2
<1> HIDE DEF r
<1>7. /\ recovery' \in [Process -> Recovery]
      /\ \A q \in Process : recovery'[q].batch \subseteq recovery[q].batch
  BY <1>2, <1>5, <1>6
<1> QED
  BY <1>1, <1>3, <1>4, <1>7, HandleStep DEF RecoveryNext, Scope

\* A step of the recovery loop that gives no handler anything to do.
LEMMA LoopStep ==
    ASSUME IInv, NEW p \in Process, NEW r \in Recovery,
           recovery' = [recovery EXCEPT ![p] = r],
           \A b \in r.batch : receipts[b.delivery].status # "none",
           phase' \in [Process -> Phase],
           UNCHANGED <<durable, accepted, handlers, queue, faults, starts, acked>>
    PROVE  IInv'
<1> USE DEF IInv
<1>1. recovery' \in [Process -> Recovery]
  BY DEF TypeOK
<1>2. VolatileTypes' /\ faults' \in Nat
  BY <1>1 DEF VolatileTypes, TypeOK
<1>3. receipts' = receipts /\ handlers' = handlers
  BY DEF durable
<1>4. \A q \in Process : recovery'[q] = IF q = p THEN r ELSE recovery[q]
  BY DEF TypeOK
<1>5. KnownDeliveries'
  BY <1>3, <1>4 DEF KnownDeliveries
<1> QED
  BY <1>2, <1>5, QuietStep

LEMMA StartInductive ==
    ASSUME IInv, NEW p \in Process, Start(p)
    PROVE  IInv'
<1>1. phase' \in [Process -> Phase]
  BY DEF IInv, TypeOK, Start, Phase
<1>2. NewPass \in Recovery /\ NewPass.batch = {}
  BY RecoveryTypes DEF NewPass, NoRecovery
<1> QED
  BY <1>1, <1>2, LoopStep DEF Start

LEMMA RecoveryListInductive ==
    ASSUME IInv, NEW p \in Process, RecoveryList(p)
    PROVE  IInv'
<1>1. PICK B \in SUBSET Candidates(p) : recovery' = [recovery EXCEPT ![p].batch = B]
  BY DEF RecoveryList
<1>2. /\ recovery[p] \in Recovery /\ recovery \in [Process -> Recovery]
      /\ receipts \in [Delivery -> Receipt] /\ phase \in [Process -> Phase]
  BY DEF IInv, TypeOK
<1>3. \A b \in B : b \in Candidate /\ receipts[b.delivery].status # "none"
  BY <1>2 DEF Candidates, Candidate, Recoverable, Pending, Receipt
<1> DEFINE r == [recovery[p] EXCEPT !.batch = B]
<1>4. r \in Recovery /\ r.batch = B
  BY <1>2, <1>3 DEF Recovery
<1>5. recovery' = [recovery EXCEPT ![p] = r]
  BY <1>1, <1>2
<1> HIDE DEF r
<1> QED
  BY <1>2, <1>3, <1>4, <1>5, LoopStep DEF RecoveryList

LEMMA RecoveryPassEndsInductive ==
    ASSUME IInv, NEW p \in Process, RecoveryPassEnds(p)
    PROVE  IInv'
<1>1. phase' \in [Process -> Phase]
  BY DEF IInv, TypeOK, RecoveryPassEnds, Phase
<1>2. /\ NewPass \in Recovery /\ NewPass.batch = {}
      /\ NoRecovery \in Recovery /\ NoRecovery.batch = {}
  BY RecoveryTypes DEF NewPass, NoRecovery
<1>3. CASE recovery' = [recovery EXCEPT ![p] = NewPass]
  BY <1>1, <1>2, <1>3, LoopStep DEF RecoveryPassEnds
<1>4. CASE recovery' = [recovery EXCEPT ![p] = NoRecovery]
  BY <1>1, <1>2, <1>4, LoopStep DEF RecoveryPassEnds
<1> QED
  BY <1>3, <1>4 DEF RecoveryPassEnds

\* A crash loses what the process had in memory and nothing else.
LEMMA CrashInductive ==
    ASSUME IInv, NEW p \in Process, Crash(p)
    PROVE  IInv'
<1> USE DEF IInv
<1>1. NoRecovery \in Recovery /\ NoRecovery.batch = {} /\ Idle \in HandlerState /\ Idle.pc = "idle"
  BY RecoveryTypes DEF NoRecovery, Idle, HandlerState, Scope
<1> DEFINE none == [h \in Handler |-> Idle]
<1>2. none \in [Handler -> HandlerState] /\ \A h \in Handler : none[h].pc = "idle"
  BY <1>1
<1>3. handlers' = [handlers EXCEPT ![p] = none]
  BY DEF Crash
<1> HIDE DEF none
<1>4. VolatileTypes' /\ faults' \in Nat
  BY <1>1, <1>2, <1>3 DEF Crash, VolatileTypes, TypeOK, Phase
<1>5. \A q \in Process : /\ handlers'[q] = IF q = p THEN none ELSE handlers[q]
                         /\ recovery'[q] = IF q = p THEN NoRecovery ELSE recovery[q]
  BY <1>3 DEF Crash, TypeOK
<1>6. receipts' = receipts
  BY DEF Crash, durable
<1>7. KnownDeliveries'
  BY <1>1, <1>2, <1>5, <1>6 DEF KnownDeliveries
<1> QED
  BY <1>4, <1>7, QuietStep DEF Crash

LEMMA InitIInv == Init => IInv
<1> SUFFICES ASSUME Init PROVE IInv
  OBVIOUS
<1>1. TypeOK
  <2>1. NoReceipt \in Receipt /\ NoClaim \in Claim /\ NoFence \in Fence
        /\ NoCursor \in Cursor /\ Idle \in HandlerState /\ NoRecovery \in Recovery
    BY RecoveryTypes DEF NoReceipt, Receipt, Status, NoClaim, Claim, NoFence, Fence,
       NoCursor, Cursor, Idle, HandlerState, Scope
  <2>2. << >> \in Seq(Handler)
    OBVIOUS
  <2> QED
    BY <2>1, <2>2 DEF Init, TypeOK, Phase
<1>2. NoReceipt.status = "none" /\ NoReceipt.sequence = 0 /\ NoReceipt.dispatched = FALSE
  BY DEF NoReceipt
<1>3. NoClaim.status = "none" /\ NoFence.sequence = 0
  BY DEF NoClaim, NoFence
<1>4. ClaimAgreement /\ RecordShapes
  BY <1>2, <1>3, IngressAssumption DEF Init, ClaimAgreement, RecordShapes
<1>5. EnvelopeWhilePending
  BY <1>2 DEF Init, EnvelopeWhilePending, Pending
<1>6. RecoveryAvailable
  <2>1. Recoverable = {}
    BY <1>2 DEF Init, Recoverable, Pending
  <2> QED
    BY <2>1, FS_EmptySet, IngressAssumption DEF RecoveryAvailable
<1>7. SequencesBelow
  BY <1>2, <1>3 DEF Init, SequencesBelow, UsedSequences
<1>8. KnownDeliveries
  BY DEF Init, KnownDeliveries, Idle, NoRecovery
<1>9. StartersDispatched
  BY DEF Init, StartersDispatched
<1> QED
  BY <1>1, <1>4, <1>5, <1>6, <1>7, <1>8, <1>9 DEF IInv

LEMMA NextIInv == IInv /\ [Next]_vars => IInv'
<1> SUFFICES ASSUME IInv, [Next]_vars PROVE IInv'
  OBVIOUS
<1>1. CASE Next
  <2>1. PICK p \in Process :
           \/ Start(p)
           \/ Crash(p)
           \/ \E h \in Handler, w \in Delivery : Deliver(p, h, w)
           \/ Mutate(p)
           \/ \E h \in Handler : TurnEnds(p, h)
           \/ \E i \in DOMAIN queue[p] : MutationRejected(p, i)
           \/ RecoveryList(p)
           \/ \E h \in Handler : RecoveryNext(p, h)
           \/ RecoveryPassEnds(p)
    BY <1>1 DEF Next
  <2>2. CASE Start(p)
    BY <2>2, StartInductive
  <2>3. CASE Crash(p)
    BY <2>3, CrashInductive
  <2>4. CASE \E h \in Handler, w \in Delivery : Deliver(p, h, w)
    BY <2>4, DeliverInductive
  <2>5. CASE Mutate(p)
    BY <2>5, ClaimEventInductive, BeginDispatchInductive, ReleaseClaimInductive,
       TerminalizeInductive DEF Mutate
  <2>6. CASE \E h \in Handler : TurnEnds(p, h)
    BY <2>6, TurnEndsInductive
  <2>7. CASE \E i \in DOMAIN queue[p] : MutationRejected(p, i)
    BY <2>7, MutationRejectedInductive
  <2>8. CASE RecoveryList(p)
    BY <2>8, RecoveryListInductive
  <2>9. CASE \E h \in Handler : RecoveryNext(p, h)
    BY <2>9, RecoveryNextInductive
  <2>10. CASE RecoveryPassEnds(p)
    BY <2>10, RecoveryPassEndsInductive
  <2> QED
    BY <2>1, <2>2, <2>3, <2>4, <2>5, <2>6, <2>7, <2>8, <2>9, <2>10
<1>2. CASE UNCHANGED vars
  <2>1. UNCHANGED <<durable, starts>> /\ faults' \in Nat /\ VolatileTypes'
    BY <1>2 DEF vars, volatile, durable, IInv, TypeOK, VolatileTypes
  <2>2. KnownDeliveries'
    BY <1>2 DEF vars, volatile, durable, IInv, KnownDeliveries
  <2> QED
    BY <2>1, <2>2, QuietStep
<1> QED
  BY <1>1, <1>2

----------------------------------------------------------------------------
(* The promise: what a step does to one execution, and to no other.        *)

\* A step writes the claim of one execution at most, and runs its turn at most.
LEMMA OneExecution ==
    ASSUME TypeOK, NEW x \in Execution,
           \A y \in Execution \ {x} : claims'[y] = claims[y] /\ starts'[y] = starts[y]
    PROVE  /\ outcome' = [outcome EXCEPT ![x] = OutcomeOf(claims'[x])]
           /\ OutcomeOf(claims'[x]) = OutcomeOf(claims[x]) => outcome' = outcome
           /\ DispatcherOf(claims'[x]) = DispatcherOf(claims[x]) => dispatcher' = dispatcher
           /\ dispatcher' = [dispatcher EXCEPT ![x] = DispatcherOf(claims'[x])]
           /\ starts'[x] = starts[x] => runners' = runners
           /\ outcome[x] = OutcomeOf(claims[x]) /\ dispatcher[x] = DispatcherOf(claims[x])
<1>1. /\ outcome' = [y \in Execution |-> OutcomeOf(claims'[y])]
      /\ dispatcher' = [y \in Execution |-> DispatcherOf(claims'[y])]
      /\ runners' = [y \in Execution |-> {p \in Process : starts'[y][p] > 0}]
  BY DEF outcome, dispatcher, runners, OutcomeOf, DispatcherOf
<1>2. /\ \A y \in Execution \ {x} : /\ OutcomeOf(claims'[y]) = OutcomeOf(claims[y])
                                    /\ DispatcherOf(claims'[y]) = DispatcherOf(claims[y])
  OBVIOUS
<1>3. starts'[x] = starts[x] => runners' = runners
  BY <1>1 DEF runners
<1> HIDE DEF OutcomeOf, DispatcherOf
<1>4. /\ outcome' = [outcome EXCEPT ![x] = OutcomeOf(claims'[x])]
      /\ OutcomeOf(claims'[x]) = OutcomeOf(claims[x]) => outcome' = outcome
  BY <1>1, <1>2 DEF outcome
<1>5. /\ DispatcherOf(claims'[x]) = DispatcherOf(claims[x]) => dispatcher' = dispatcher
      /\ dispatcher' = [dispatcher EXCEPT ![x] = DispatcherOf(claims'[x])]
  BY <1>1, <1>2 DEF dispatcher
<1> QED
  BY <1>3, <1>4, <1>5 DEF outcome, dispatcher

\* A turn is taken past the dispatch call by p.
LEMMA OneTurn ==
    ASSUME TypeOK, NEW x \in Execution, NEW p \in Process,
           starts' = [starts EXCEPT ![x][p] = @ + 1]
    PROVE  /\ runners' = [runners EXCEPT ![x] = @ \cup {p}]
           /\ \A y \in Execution \ {x} : starts'[y] = starts[y]
<1>1. starts \in [Execution -> [Process -> Nat]]
  BY DEF TypeOK
<1>2. /\ \A y \in Execution \ {x} : starts'[y] = starts[y]
      /\ \A q \in Process : starts'[x][q] = IF q = p THEN starts[x][q] + 1 ELSE starts[x][q]
  BY <1>1
<1>3. starts[x][p] \in Nat
  BY <1>1
<1>4. {q \in Process : starts'[x][q] > 0} = {q \in Process : starts[x][q] > 0} \cup {p}
  BY <1>2, <1>3
<1>5. runners' = [y \in Execution |-> {q \in Process : starts'[y][q] > 0}]
  BY DEF runners
<1> QED
  BY <1>2, <1>4, <1>5 DEF runners

\* The record of the claim that a write leaves, and what it means.
LEMMA ClaimWritten ==
    ASSUME TypeOK, NEW x \in Execution, NEW c, claims' = [claims EXCEPT ![x] = c]
    PROVE  claims'[x] = c /\ \A y \in Execution \ {x} : claims'[y] = claims[y]
  BY DEF TypeOK

\* Steps that leave claims and turns as they are.
LEMMA PromiseStutters ==
    ASSUME UNCHANGED <<claims, starts>>
    PROVE  UNCHANGED Promise!vars
<1>1. claims' = claims /\ starts' = starts
  OBVIOUS
<1> QED
  BY <1>1 DEF Promise!vars, outcome, dispatcher, runners, OutcomeOf, DispatcherOf

LEMMA ClaimTypes == IInv => TypeOK /\ KnownDeliveries /\ RecordShapes
  BY DEF IInv

LEMMA PromiseWithdraws ==
    ASSUME TypeOK, NEW x \in Execution, NEW c, claims' = [claims EXCEPT ![x] = c],
           OutcomeOf(claims[x]) = "open", OutcomeOf(c) = "withdrawn",
           DispatcherOf(c) = DispatcherOf(claims[x]), UNCHANGED starts
    PROVE  Promise!Withdraw(x)
<1>1. claims'[x] = c /\ \A y \in Execution \ {x} : claims'[y] = claims[y]
  BY ClaimWritten
<1> QED
  BY <1>1, OneExecution DEF Promise!Withdraw

\* Granting a claim leaves an execution open, or withdraws it as a stale stop.
LEMMA ClaimEventPromise ==
    ASSUME IInv, NEW p \in Process, NEW h \in Handler, ClaimEvent(p, h)
    PROVE  [Promise!Next]_(Promise!vars)
<1> DEFINE w == handlers[p][h].delivery
           x == ExecutionOf[w]
           c(st) == [status |-> st, delivery |-> w, owner |-> p, dispatched |-> FALSE]
<1>1. TypeOK /\ KnownDeliveries /\ RecordShapes
  BY ClaimTypes
<1>2. handlers[p][h].pc = "claim" /\ UNCHANGED starts
  BY DEF ClaimEvent, Mutating, ClaimFails, Claimed, NotClaimed
<1>3. w \in Delivery /\ x \in Execution
  BY <1>1, <1>2, HandlerFacts, IngressAssumption
<1>4. CASE UNCHANGED claims
  BY <1>2, <1>4, PromiseStutters
<1>5. CASE /\ Claimable(p, w)
           /\ \E st \in {"claimed", "completed"} : claims' = [claims EXCEPT ![x] = c(st)]
  <2>1. claims[x].status \in {"none", "claimed"} /\ claims[x].dispatched = FALSE
    <3>1. claims[x] \in Claim /\ (claims[x].status = "none" => claims[x] = NoClaim)
      BY <1>1, <1>3 DEF TypeOK, RecordShapes
    <3>2. \/ claims[x].status = "none"
          \/ claims[x].status = "claimed" /\ ~claims[x].dispatched
      BY <1>5 DEF Claimable
    <3>3. NoClaim.dispatched = FALSE
      BY DEF NoClaim
    <3> QED
      BY <3>1, <3>2, <3>3 DEF Claim
  <2>2. OutcomeOf(claims[x]) = "open" /\ DispatcherOf(claims[x]) = None
    BY <2>1 DEF OutcomeOf, DispatcherOf
  <2>3. /\ OutcomeOf(c("claimed")) = "open" /\ DispatcherOf(c("claimed")) = None
        /\ OutcomeOf(c("completed")) = "withdrawn" /\ DispatcherOf(c("completed")) = None
    BY DEF OutcomeOf, DispatcherOf
  <2> HIDE DEF c, x, w
  <2>4. CASE claims' = [claims EXCEPT ![x] = c("claimed")]
    <3>1. claims'[x] = c("claimed") /\ \A y \in Execution \ {x} : claims'[y] = claims[y]
      BY <1>1, <1>3, <2>4, ClaimWritten
    <3>2. \A y \in Execution \ {x} : claims'[y] = claims[y] /\ starts'[y] = starts[y]
      BY <1>2, <3>1
    <3>3. outcome' = outcome /\ dispatcher' = dispatcher /\ runners' = runners
      BY <1>1, <1>2, <1>3, <2>2, <2>3, <3>1, <3>2, OneExecution
    <3> QED
      BY <3>3 DEF Promise!vars
  <2>5. CASE claims' = [claims EXCEPT ![x] = c("completed")]
    <3>1. Promise!Withdraw(x)
      BY <1>1, <1>2, <1>3, <2>2, <2>3, <2>5, PromiseWithdraws
    <3> QED
      BY <1>3, <3>1 DEF Promise!Next
  <2> QED
    BY <1>5, <2>4, <2>5
<1> QED
  BY <1>4, <1>5 DEF ClaimEvent, GrantClaim, GrantStaleStop, RefuseClaim, durable

\* The marker is the dispatch, for the process that finds itself the owner; with the
\* answer lost it is one whose turn has not been taken yet.
LEMMA BeginDispatchPromise ==
    ASSUME IInv, NEW p \in Process, NEW h \in Handler, BeginDispatch(p, h)
    PROVE  [Promise!Next]_(Promise!vars)
<1> DEFINE w == handlers[p][h].delivery
           x == ExecutionOf[w]
           rest == Tail(queue[p])
<1>1. TypeOK /\ KnownDeliveries
  BY DEF IInv
<1>2. handlers[p][h].pc \in {"begin", "rebegin"}
  BY DEF BeginDispatch, Mutating
<1>3. w \in Delivery /\ x \in Execution
  BY <1>1, <1>2, HandlerFacts, IngressAssumption
<1>4. claims[x] \in Claim
  BY <1>1, <1>3 DEF TypeOK
<1>5. CASE UNCHANGED <<claims, starts>>
  BY <1>5, PromiseStutters
<1>6. Started(p, h, rest) => starts' = [starts EXCEPT ![x][p] = @ + 1]
  BY DEF Started
<1>7. Owned(p, w) => claims[x].status = "claimed" /\ claims[x].owner = p
  BY DEF Owned
<1> HIDE DEF x, w
<1>8. CASE Owned(p, w) /\ claims[x].dispatched /\ Started(p, h, rest) /\ UNCHANGED claims
  <2>1. outcome[x] = "dispatched" /\ dispatcher[x] = p
    BY <1>3, <1>7, <1>8 DEF outcome, dispatcher, OutcomeOf, DispatcherOf
  <2>2. runners' = [runners EXCEPT ![x] = @ \cup {p}]
    BY <1>1, <1>3, <1>6, <1>8, OneTurn
  <2>3. outcome' = outcome /\ dispatcher' = dispatcher
    BY <1>8 DEF outcome, dispatcher, OutcomeOf, DispatcherOf
  <2> QED
    BY <1>3, <2>1, <2>2, <2>3 DEF Promise!Next, Promise!Run
<1>9. CASE /\ Owned(p, w) /\ ~claims[x].dispatched /\ UNCHANGED starts
           /\ claims' = [claims EXCEPT ![x].status = "completed"]
  <2> DEFINE c == [claims[x] EXCEPT !.status = "completed"]
  <2>1. /\ OutcomeOf(claims[x]) = "open" /\ DispatcherOf(claims[x]) = None
        /\ c.dispatched = FALSE /\ c.status = "completed"
    BY <1>4, <1>7, <1>9 DEF OutcomeOf, DispatcherOf, Claim
  <2>2. claims' = [claims EXCEPT ![x] = c]
    BY <1>9
  <2> HIDE DEF c
  <2>3. OutcomeOf(c) = "withdrawn" /\ DispatcherOf(c) = None
    BY <2>1 DEF OutcomeOf, DispatcherOf
  <2>4. Promise!Withdraw(x)
    BY <1>1, <1>3, <1>9, <2>1, <2>2, <2>3, PromiseWithdraws
  <2> QED
    BY <1>3, <2>4 DEF Promise!Next
<1>10. CASE /\ Owned(p, w) /\ ~claims[x].dispatched
            /\ claims' = [claims EXCEPT ![x].dispatched = TRUE]
            /\ Started(p, h, rest) \/ UNCHANGED starts
  <2> DEFINE c == [claims[x] EXCEPT !.dispatched = TRUE]
  <2>1. /\ OutcomeOf(claims[x]) = "open"
        /\ c.dispatched = TRUE /\ c.status = "claimed" /\ c.owner = p
    BY <1>4, <1>7, <1>10 DEF OutcomeOf, Claim
  <2>2. claims' = [claims EXCEPT ![x] = c]
    BY <1>10
  <2> HIDE DEF c
  <2>3. OutcomeOf(c) = "dispatched" /\ DispatcherOf(c) = p
    BY <2>1 DEF OutcomeOf, DispatcherOf
  <2>4. claims'[x] = c /\ \A y \in Execution \ {x} : claims'[y] = claims[y]
    BY <1>1, <1>3, <2>2, ClaimWritten
  <2>5. /\ runners' = [runners EXCEPT ![x] = @ \cup {p}] \/ runners' = runners
        /\ \A y \in Execution \ {x} : starts'[y] = starts[y]
    <3>1. CASE UNCHANGED starts
      BY <3>1 DEF runners
    <3>2. CASE Started(p, h, rest)
      BY <1>1, <1>3, <1>6, <3>2, OneTurn
    <3> QED
      BY <1>10, <3>1, <3>2
  <2>6. /\ outcome[x] = "open"
        /\ outcome' = [outcome EXCEPT ![x] = "dispatched"]
        /\ dispatcher' = [dispatcher EXCEPT ![x] = p]
    BY <1>1, <1>3, <2>1, <2>3, <2>4, <2>5, OneExecution
  <2> QED
    BY <1>3, <2>5, <2>6 DEF Promise!Next, Promise!Dispatch
<1> QED
  BY <1>5, <1>8, <1>9, <1>10
     DEF BeginDispatch, BeginFails, Stopped, SupersedeOwnedClaim, MarkDispatchStarted, x, w

\* A claim that is given back is open as before.
LEMMA ReleaseClaimPromise ==
    ASSUME IInv, NEW p \in Process, NEW h \in Handler, ReleaseClaim(p, h)
    PROVE  [Promise!Next]_(Promise!vars)
<1> DEFINE w == handlers[p][h].delivery
           x == ExecutionOf[w]
<1>1. TypeOK /\ KnownDeliveries
  BY DEF IInv
<1>2. handlers[p][h].pc = "release" /\ UNCHANGED starts
  BY DEF ReleaseClaim, Mutating, GivesBack
<1>3. w \in Delivery /\ x \in Execution
  BY <1>1, <1>2, HandlerFacts, IngressAssumption
<1>4. CASE UNCHANGED claims
  BY <1>2, <1>4, PromiseStutters
<1>5. CASE Owned(p, w) /\ ~claims[x].dispatched /\ claims' = [claims EXCEPT ![x] = NoClaim]
  <2>1. OutcomeOf(claims[x]) = "open" /\ DispatcherOf(claims[x]) = None
    BY <1>5 DEF Owned, OutcomeOf, DispatcherOf
  <2>2. OutcomeOf(NoClaim) = "open" /\ DispatcherOf(NoClaim) = None
    BY DEF NoClaim, OutcomeOf, DispatcherOf
  <2> HIDE DEF x, w
  <2>3. claims'[x] = NoClaim /\ \A y \in Execution \ {x} : claims'[y] = claims[y]
    BY <1>1, <1>3, <1>5, ClaimWritten
  <2>4. \A y \in Execution \ {x} : claims'[y] = claims[y] /\ starts'[y] = starts[y]
    BY <1>2, <2>3
  <2>5. outcome' = outcome /\ dispatcher' = dispatcher /\ runners' = runners
    BY <1>1, <1>2, <1>3, <2>1, <2>2, <2>3, <2>4, OneExecution
  <2> QED
    BY <2>5 DEF Promise!vars
<1> QED
  <2>1. \/ UNCHANGED claims
        \/ Owned(p, w) /\ ~claims[x].dispatched /\ claims' = [claims EXCEPT ![x] = NoClaim]
    BY DEF ReleaseClaim, durable
  <2> QED
    BY <1>4, <1>5, <2>1

\* Only a turn that was dispatched is recorded as over.
LEMMA TerminalizePromise ==
    ASSUME IInv, NEW p \in Process, NEW h \in Handler, Terminalize(p, h)
    PROVE  [Promise!Next]_(Promise!vars)
<1> DEFINE w == handlers[p][h].delivery
           x == ExecutionOf[w]
           c == [claims[x] EXCEPT !.status = "completed"]
<1>1. TypeOK /\ KnownDeliveries
  BY DEF IInv
<1>2. handlers[p][h].pc = "finish" /\ UNCHANGED starts
  BY DEF Terminalize, Mutating
<1>3. w \in Delivery /\ x \in Execution
  BY <1>1, <1>2, HandlerFacts, IngressAssumption
<1>4. CASE UNCHANGED claims
  BY <1>2, <1>4, PromiseStutters
<1>5. CASE Owned(p, w) /\ claims[x].dispatched /\ claims' = [claims EXCEPT ![x] = c]
  <2>1. claims[x] \in Claim /\ claims[x].status = "claimed"
    BY <1>1, <1>3, <1>5 DEF Owned, TypeOK
  <2>2. c.dispatched = claims[x].dispatched /\ c.status = "completed" /\ c.owner = claims[x].owner
    BY <2>1 DEF Claim
  <2> HIDE DEF c, x, w
  <2>3. /\ OutcomeOf(claims[x]) = "dispatched" /\ OutcomeOf(c) = "settled"
        /\ DispatcherOf(c) = DispatcherOf(claims[x])
    BY <1>5, <2>1, <2>2 DEF OutcomeOf, DispatcherOf
  <2>4. claims'[x] = c /\ \A y \in Execution \ {x} : claims'[y] = claims[y]
    BY <1>1, <1>3, <1>5, ClaimWritten
  <2>5. \A y \in Execution \ {x} : claims'[y] = claims[y] /\ starts'[y] = starts[y]
    BY <1>2, <2>4
  <2>6. /\ outcome[x] = "dispatched" /\ outcome' = [outcome EXCEPT ![x] = "settled"]
        /\ dispatcher' = dispatcher /\ runners' = runners
    BY <1>1, <1>2, <1>3, <2>3, <2>4, <2>5, OneExecution
  <2> QED
    BY <1>3, <2>6 DEF Promise!Next, Promise!Settle
<1> QED
  BY <1>4, <1>5 DEF Terminalize

LEMMA InitPromise == Init => Promise!Init
<1> SUFFICES ASSUME Init PROVE Promise!Init
  OBVIOUS
<1>1. /\ \A x \in Execution : claims[x] = NoClaim
      /\ \A x \in Execution, p \in Process : starts[x][p] = 0
  BY DEF Init
<1>2. OutcomeOf(NoClaim) = "open" /\ DispatcherOf(NoClaim) = None
  BY DEF NoClaim, OutcomeOf, DispatcherOf
<1>3. /\ outcome = [x \in Execution |-> "open"]
      /\ dispatcher = [x \in Execution |-> None]
  BY <1>1, <1>2 DEF outcome, dispatcher
<1>4. runners = [x \in Execution |-> {}]
  BY <1>1 DEF runners
<1> QED
  BY <1>3, <1>4 DEF Promise!Init

LEMMA NextPromise == IInv /\ [Next]_vars => [Promise!Next]_(Promise!vars)
<1> SUFFICES ASSUME IInv, [Next]_vars PROVE [Promise!Next]_(Promise!vars)
  OBVIOUS
<1>1. CASE UNCHANGED <<claims, starts>>
  BY <1>1, PromiseStutters
<1>2. CASE \E p \in Process : Mutate(p)
  BY <1>2, ClaimEventPromise, BeginDispatchPromise, ReleaseClaimPromise,
     TerminalizePromise DEF Mutate
<1> QED
  <2>1. ASSUME UNCHANGED vars PROVE UNCHANGED <<claims, starts>>
    <3>1. UNCHANGED durable /\ UNCHANGED starts
      BY <2>1 DEF vars
    <3> QED
      BY <3>1 DEF durable
  <2>2. ASSUME NEW p \in Process, Start(p) \/ Crash(p) \/ RecoveryList(p) \/ RecoveryPassEnds(p)
        PROVE  UNCHANGED <<claims, starts>>
    BY <2>2 DEF Start, Crash, RecoveryList, RecoveryPassEnds, durable
  <2>3. ASSUME NEW p \in Process, NEW h \in Handler,
               RecoveryNext(p, h) \/ TurnEnds(p, h) \/ \E w \in Delivery : Deliver(p, h, w)
        PROVE  UNCHANGED <<claims, starts>>
    BY <2>3 DEF RecoveryNext, TurnEnds, Deliver, durable
  <2>4. ASSUME NEW p \in Process, NEW i \in DOMAIN queue[p], MutationRejected(p, i)
        PROVE  UNCHANGED <<claims, starts>>
    BY <2>4 DEF MutationRejected, ClaimFails, BeginFails, GivesBack, NotClaimed, durable
  <2> QED
    BY <1>1, <1>2, <2>1, <2>2, <2>3, <2>4 DEF Next

----------------------------------------------------------------------------
(* The fence of a session is not behind a stop that is on record.          *)

LEMMA OccurredAtTypes ==
    /\ \A v \in Delivery : ExecutionOf[v] \in Execution
    /\ \A y \in Execution : OccurredAt[y] \in Nat /\ SessionOf[y] \in Session
  BY IngressAssumption

\* Admission of a delivery of a stop leaves a fence that is not behind it.
LEMMA FenceWritten ==
    ASSUME TypeOK, StopsFenced, NEW w \in Delivery, NEW scope \in Scope,
           scope = "recovery" => receipts[w].status # "none",
           receipts[w].status = "none" => receipts[w].sequence = 0,
           Admit(w, scope)
    PROVE  /\ \A s \in Session : fences[s].at <= fences'[s].at
           /\ \A s \in Session : fences'[s] # NoFence =>
                 /\ fences'[s].execution \in Execution
                 /\ Kind[fences'[s].execution] = "stop"
                 /\ fences'[s].at = OccurredAt[fences'[s].execution]
           /\ Kind[ExecutionOf[w]] = "stop" =>
                 OccurredAt[ExecutionOf[w]] <= fences'[SessionOf[ExecutionOf[w]]].at
<1> DEFINE x == ExecutionOf[w]
           s0 == SessionOf[x]
           f == [at |-> OccurredAt[x], sequence |-> NewSequence,
                 delivery |-> w, execution |-> x]
<1>1. x \in Execution /\ s0 \in Session /\ OccurredAt[x] \in Nat
  BY OccurredAtTypes
<1>2. fences \in [Session -> Fence] /\ \A s \in Session : fences[s].at \in Int
  BY DEF TypeOK, Fence
<1>3. CASE MovesFence(w, scope)
  <2>1. fences' = [fences EXCEPT ![s0] = f]
    BY <1>3 DEF Admit
  <2>2. /\ Kind[x] = "stop" /\ fences[s0].at <= OccurredAt[x]
    BY <1>1, <1>2, <1>3 DEF MovesFence
  <2>3. f.at = OccurredAt[x] /\ f.execution = x
    OBVIOUS
  <2> HIDE DEF f
  <2>4. fences'[s0] = f /\ \A s \in Session \ {s0} : fences'[s] = fences[s]
    BY <1>2, <2>1, <1>1
  <2>5. ASSUME NEW s \in Session
        PROVE  /\ fences[s].at <= fences'[s].at
               /\ fences'[s] # NoFence =>
                     /\ fences'[s].execution \in Execution
                     /\ Kind[fences'[s].execution] = "stop"
                     /\ fences'[s].at = OccurredAt[fences'[s].execution]
    <3>1. CASE s = s0
      BY <1>1, <2>2, <2>3, <2>4, <3>1
    <3>2. CASE s # s0
      BY <1>2, <2>4, <3>2 DEF StopsFenced
    <3> QED
      BY <3>1, <3>2
  <2>6. OccurredAt[x] <= fences'[s0].at
    BY <1>1, <2>3, <2>4
  <2> QED
    BY <2>5, <2>6
<1>4. CASE ~MovesFence(w, scope)
  <2>1. fences' = fences
    BY <1>4 DEF Admit
  <2>2. ASSUME Kind[x] = "stop" PROVE OccurredAt[x] <= fences[s0].at
    <3>1. CASE receipts[w].status # "none"
      BY <2>2, <3>1 DEF StopsFenced
    <3>2. CASE receipts[w].status = "none"
      <4>1. NeedsEnvelope(w, scope)
        BY <3>2 DEF NeedsEnvelope
      <4>2. CASE \E v \in Delivery \ {w} : ExecutionOf[v] = x /\ receipts[v].status # "none"
        BY <2>2, <4>2 DEF StopsFenced
      <4>3. CASE \A v \in Delivery \ {w} : ExecutionOf[v] = x => receipts[v].status = "none"
        <5>1. ~(OccurredAt[x] > fences[s0].at)
          BY <1>4, <2>2, <4>1, <4>3 DEF MovesFence
        <5> QED
          BY <1>1, <1>2, <5>1
      <4> QED
        BY <4>2, <4>3
    <3> QED
      BY <3>1, <3>2
  <2>3. \A s \in Session : fences[s].at <= fences[s].at
    BY <1>2
  <2> QED
    BY <2>1, <2>2, <2>3 DEF StopsFenced
<1> QED
  BY <1>3, <1>4

\* The steps on the receipts: none is forgotten, and no other is put on record.
SameRecord(v) == receipts'[v].status = "none" <=> receipts[v].status = "none"

NoNewMarker(v) == receipts'[v].dispatched => receipts[v].dispatched

LEMMA ClaimEventReceipts ==
    ASSUME IInv, NEW p \in Process, NEW h \in Handler, ClaimEvent(p, h),
           NEW w, w = handlers[p][h].delivery,
           NEW scope, scope = handlers[p][h].scope
    PROVE  /\ w \in Delivery /\ scope \in Scope
           /\ scope = "recovery" => receipts[w].status # "none"
           /\ \A v \in Delivery : NoNewMarker(v)
           /\ \/ UNCHANGED <<receipts, fences, acked>>
              \/ /\ Admit(w, scope)
                 /\ receipts'[w].status # "none"
                 /\ \A v \in Delivery \ {w} : SameRecord(v)
                 /\ acked' \subseteq acked \cup {w}
<1> DEFINE x == ExecutionOf[w]
           d == claims[x].delivery
           r == Received(w, scope)
<1>1. /\ TypeOK /\ StoreInv /\ KnownDeliveries
      /\ EnvelopeWhilePending /\ RecordShapes /\ SequencesBelow /\ ClaimAgreement
  BY DEF IInv, StoreInv
<1>2. handlers[p][h].pc = "claim"
  BY DEF ClaimEvent, Mutating
<1>3. /\ w \in Delivery /\ scope \in Scope /\ x \in Execution
      /\ scope = "recovery" => receipts[w].status # "none"
      /\ receipts \in [Delivery -> Receipt]
      /\ \A v \in Delivery : receipts[v] \in Receipt
  BY <1>1, <1>2, HandlerFacts, OccurredAtTypes DEF TypeOK
<1>4. /\ r \in Receipt /\ r.status # "none" /\ r.dispatched = receipts[w].dispatched
  BY <1>1, <1>3, ReceivedFacts
<1>5. acked' \subseteq acked \cup {w}
  BY DEF ClaimEvent, ClaimFails, Claimed, NotClaimed
<1>6. Claimable(p, w) /\ d \in Delivery => receipts[d].status # "none"
  <2> SUFFICES ASSUME Claimable(p, w), d \in Delivery PROVE receipts[d].status # "none"
    OBVIOUS
  <2>1. claims[x].status = "none" => claims[x] = NoClaim
    BY <1>1, <1>3 DEF RecordShapes
  <2>2. NoClaim.delivery = None /\ None \notin Delivery
    BY IngressAssumption DEF NoClaim
  <2>3. claims[x].status \in {"none", "claimed"}
    BY DEF Claimable
  <2> HIDE DEF d
  <2>4. claims[x].status = "claimed"
    BY <2>1, <2>2, <2>3 DEF d
  <2> QED
    BY <1>1, <1>3, <2>4 DEF ClaimAgreement, d
<1>7. \A q \in Receipt : /\ [q EXCEPT !.status = "claimed", !.owner = p].status = "claimed"
                         /\ [q EXCEPT !.status = "claimed", !.owner = p].dispatched
                               = q.dispatched
                         /\ [q EXCEPT !.owner = p].status = q.status
                         /\ [q EXCEPT !.owner = p].dispatched = q.dispatched
  BY DEF Receipt
<1>8. Superseded(r) \in Receipt /\ Superseded(r).status = "superseded"
      /\ Superseded(r).dispatched = receipts[w].dispatched
  BY <1>4, SupersededFacts
<1> HIDE DEF r, d
<1>9. CASE HasRoom(w, scope) /\ Admit(w, scope) /\ Claimable(p, w)
           /\ (GrantClaim(p, w, scope) \/ GrantStaleStop(p, w, scope))
  <2>1. ASSUME NEW v \in Delivery, v # w
        PROVE  SameRecord(v) /\ NoNewMarker(v)
    <3>1. receipts'[v] = IF v = d THEN Superseded(receipts[v]) ELSE receipts[v]
      BY <1>9, <2>1 DEF GrantClaim, GrantStaleStop, d
    <3>2. /\ Superseded(receipts[v]).status = "superseded"
          /\ Superseded(receipts[v]).dispatched = receipts[v].dispatched
      BY <1>3, <2>1, SupersededFacts
    <3>3. v = d => receipts[v].status # "none"
      BY <1>6, <1>9, <2>1
    <3> QED
      BY <3>1, <3>2, <3>3 DEF SameRecord, NoNewMarker
  <2>2. receipts'[w].status # "none" /\ receipts'[w].dispatched = receipts[w].dispatched
    <3>1. CASE GrantClaim(p, w, scope)
      <4>1. receipts'[w] = [r EXCEPT !.status = "claimed", !.owner = p]
        BY <1>3, <3>1 DEF GrantClaim, r
      <4> QED
        BY <1>4, <1>7, <4>1
    <3>2. CASE GrantStaleStop(p, w, scope)
      <4>1. receipts'[w] = [Superseded(r) EXCEPT !.owner = p]
        BY <1>3, <3>2 DEF GrantStaleStop, r
      <4> QED
        BY <1>7, <1>8, <4>1
    <3> QED
      BY <1>9, <3>1, <3>2
  <2> QED
    BY <1>3, <1>5, <1>9, <2>1, <2>2 DEF NoNewMarker
<1>10. CASE /\ HasRoom(w, scope) /\ Admit(w, scope)
            /\ \/ receipts' = [receipts EXCEPT ![w] = Superseded(r)]
               \/ receipts' = [receipts EXCEPT ![w] = r]
  <2>1. /\ receipts'[w] \in {r, Superseded(r)}
        /\ \A v \in Delivery \ {w} : receipts'[v] = receipts[v]
    BY <1>3, <1>10
  <2> QED
    BY <1>3, <1>4, <1>5, <1>8, <1>10, <2>1 DEF NoNewMarker, SameRecord
<1>11. CASE UNCHANGED <<receipts, fences>> /\ ClaimFails(p, h, Tail(queue[p]))
  BY <1>3, <1>11 DEF NoNewMarker, ClaimFails
<1>12. RefuseClaim(w, scope) => \/ receipts' = [receipts EXCEPT ![w] = Superseded(r)]
                                \/ receipts' = [receipts EXCEPT ![w] = r]
  BY DEF RefuseClaim, r
<1> QED
  <2>1. \/ /\ UNCHANGED durable /\ ClaimFails(p, h, Tail(queue[p]))
        \/ /\ HasRoom(w, scope) /\ Admit(w, scope)
           /\ \/ Claimable(p, w) /\ (GrantClaim(p, w, scope) \/ GrantStaleStop(p, w, scope))
              \/ RefuseClaim(w, scope)
              \/ receipts' = [receipts EXCEPT ![w] = r]
    BY DEF ClaimEvent, r
  <2> QED
    BY <1>9, <1>10, <1>11, <1>12, <2>1 DEF durable

\* The owner of a claim writes one receipt, which is on record; a marker is set only
\* where no fence forbids it.
LEMMA OneReceipt ==
    ASSUME receipts \in [Delivery -> Receipt], NEW w \in Delivery, NEW r,
           receipts' = [receipts EXCEPT ![w] = r],
           receipts[w].status = "claimed", r.status # "none",
           r.dispatched => receipts[w].dispatched \/ ~AtOrBeforeFence(w)
    PROVE  \A v \in Delivery : /\ SameRecord(v)
                               /\ NoNewMarker(v) \/ ~AtOrBeforeFence(v)
<1>1. receipts'[w] = r /\ \A v \in Delivery \ {w} : receipts'[v] = receipts[v]
  OBVIOUS
<1> QED
  BY <1>1 DEF SameRecord, NoNewMarker

\* What an operation of the owner makes of its receipt.
OwnerWrites(w) ==
    \/ UNCHANGED receipts
    \/ receipts[w].status = "claimed" /\ receipts' = [receipts EXCEPT ![w] = Superseded(@)]
    \/ /\ receipts[w].status = "claimed" /\ ~AtOrBeforeFence(w)
       /\ receipts' = [receipts EXCEPT ![w].dispatched = TRUE, ![w].sequence = 0]
    \/ /\ receipts[w].status = "claimed"
       /\ receipts' = [receipts EXCEPT ![w].status = "received", ![w].owner = None]
    \/ /\ receipts[w].status = "claimed"
       /\ receipts' = [receipts EXCEPT ![w].status = "completed"]

LEMMA OwnerWritesOne ==
    ASSUME receipts \in [Delivery -> Receipt], NEW w \in Delivery, OwnerWrites(w)
    PROVE  \A v \in Delivery : /\ SameRecord(v)
                               /\ NoNewMarker(v) \/ ~AtOrBeforeFence(v)
<1>1. receipts[w] \in Receipt
  OBVIOUS
<1>2. CASE UNCHANGED receipts
  BY <1>2 DEF SameRecord, NoNewMarker
<1>3. CASE /\ receipts[w].status = "claimed"
           /\ receipts' = [receipts EXCEPT ![w] = Superseded(@)]
  <2>1. receipts' = [receipts EXCEPT ![w] = Superseded(receipts[w])]
    BY <1>3
  <2>2. /\ Superseded(receipts[w]).status = "superseded"
        /\ Superseded(receipts[w]).dispatched = receipts[w].dispatched
    BY <1>1, SupersededFacts
  <2> QED
    BY <1>3, <2>1, <2>2, OneReceipt
<1>4. CASE /\ receipts[w].status = "claimed" /\ ~AtOrBeforeFence(w)
           /\ receipts' = [receipts EXCEPT ![w].dispatched = TRUE, ![w].sequence = 0]
  <2> DEFINE r == [receipts[w] EXCEPT !.dispatched = TRUE, !.sequence = 0]
  <2>1. receipts' = [receipts EXCEPT ![w] = r] /\ r.status = "claimed"
    BY <1>1, <1>4 DEF Receipt
  <2> HIDE DEF r
  <2> QED
    BY <1>4, <2>1, OneReceipt
<1>5. CASE /\ receipts[w].status = "claimed"
           /\ receipts' = [receipts EXCEPT ![w].status = "received", ![w].owner = None]
  <2> DEFINE r == [receipts[w] EXCEPT !.status = "received", !.owner = None]
  <2>1. /\ receipts' = [receipts EXCEPT ![w] = r] /\ r.status = "received"
        /\ r.dispatched = receipts[w].dispatched
    BY <1>1, <1>5 DEF Receipt
  <2> HIDE DEF r
  <2> QED
    BY <1>5, <2>1, OneReceipt
<1>6. CASE /\ receipts[w].status = "claimed"
           /\ receipts' = [receipts EXCEPT ![w].status = "completed"]
  <2> DEFINE r == [receipts[w] EXCEPT !.status = "completed"]
  <2>1. /\ receipts' = [receipts EXCEPT ![w] = r] /\ r.status = "completed"
        /\ r.dispatched = receipts[w].dispatched
    BY <1>1, <1>6 DEF Receipt
  <2> HIDE DEF r
  <2> QED
    BY <1>6, <2>1, OneReceipt
<1> QED
  BY <1>2, <1>3, <1>4, <1>5, <1>6 DEF OwnerWrites

OwnerOperation(p, h) == BeginDispatch(p, h) \/ ReleaseClaim(p, h) \/ Terminalize(p, h)

LEMMA OwnerReceipts ==
    ASSUME IInv, NEW p \in Process, NEW h \in Handler, OwnerOperation(p, h)
    PROVE  /\ UNCHANGED <<fences, acked>>
           /\ \A v \in Delivery :
                 /\ SameRecord(v)
                 /\ NoNewMarker(v) \/ ~AtOrBeforeFence(v)
<1> DEFINE w == handlers[p][h].delivery
<1>1. TypeOK /\ KnownDeliveries
  BY ClaimTypes
<1>2. handlers[p][h].pc # "idle"
  BY Zenon DEF OwnerOperation, BeginDispatch, ReleaseClaim, Terminalize, Mutating
<1>3. w \in Delivery /\ receipts \in [Delivery -> Receipt]
  BY <1>1, <1>2, HandlerFacts DEF TypeOK
<1>4. UNCHANGED <<fences, acked>>
  BY Zenon
     DEF OwnerOperation, BeginDispatch, ReleaseClaim, Terminalize, BeginFails, Started,
         Stopped, GivesBack, Ends, Queues
<1>5. OwnerWrites(w)
  <2>1. CASE BeginDispatch(p, h)
    BY <2>1, Zenon
       DEF BeginDispatch, SupersedeOwnedClaim, MarkDispatchStarted, Fenced, Owned,
           OwnerWrites
  <2>2. CASE ReleaseClaim(p, h)
    BY <2>2, Zenon DEF ReleaseClaim, Owned, OwnerWrites
  <2>3. CASE Terminalize(p, h)
    BY <2>3 DEF Terminalize, Owned, OwnerWrites
  <2> QED
    BY <2>1, <2>2, <2>3 DEF OwnerOperation
<1> HIDE DEF w
<1> QED
  BY <1>3, <1>4, <1>5, OwnerWritesOne

\* All that is not a mutation leaves receipts, fences and acknowledgements.
LEMMA OtherReceipts ==
    ASSUME [Next]_vars, ~ \E p \in Process : Mutate(p)
    PROVE  UNCHANGED <<receipts, fences, acked>>
<1>1. ASSUME UNCHANGED vars PROVE UNCHANGED <<receipts, fences, acked>>
  <2>1. UNCHANGED durable /\ UNCHANGED acked
    BY <1>1 DEF vars
  <2> QED
    BY <2>1 DEF durable
<1>2. ASSUME NEW p \in Process, Start(p) \/ Crash(p) \/ RecoveryList(p) \/ RecoveryPassEnds(p)
      PROVE  UNCHANGED <<receipts, fences, acked>>
  BY <1>2 DEF Start, Crash, RecoveryList, RecoveryPassEnds, durable
<1>3. ASSUME NEW p \in Process, NEW h \in Handler,
             RecoveryNext(p, h) \/ TurnEnds(p, h) \/ \E w \in Delivery : Deliver(p, h, w)
      PROVE  UNCHANGED <<receipts, fences, acked>>
  BY <1>3 DEF RecoveryNext, TurnEnds, Deliver, durable
<1>4. ASSUME NEW p \in Process, NEW i \in DOMAIN queue[p], MutationRejected(p, i)
      PROVE  UNCHANGED <<receipts, fences, acked>>
  BY <1>4 DEF MutationRejected, ClaimFails, BeginFails, GivesBack, NotClaimed, durable
<1> QED
  BY <1>1, <1>2, <1>3, <1>4 DEF Next

LEMMA FencesKept ==
    ASSUME IInv, StopsFenced, [Next]_vars
    PROVE  StopsFenced'
<1>1. CASE UNCHANGED <<receipts, fences, acked>>
  BY <1>1 DEF StopsFenced
<1>2. ASSUME NEW p \in Process, NEW h \in Handler, ClaimEvent(p, h)
      PROVE  StopsFenced'
  <2> DEFINE w == handlers[p][h].delivery
             scope == handlers[p][h].scope
  <2>1. /\ w \in Delivery /\ scope \in Scope
        /\ scope = "recovery" => receipts[w].status # "none"
        /\ \/ UNCHANGED <<receipts, fences, acked>>
           \/ /\ Admit(w, scope)
              /\ receipts'[w].status # "none"
              /\ \A v \in Delivery \ {w} : SameRecord(v)
              /\ acked' \subseteq acked \cup {w}
    BY <1>2, ClaimEventReceipts
  <2> HIDE DEF w, scope
  <2>2. CASE /\ Admit(w, scope) /\ receipts'[w].status # "none"
             /\ \A v \in Delivery \ {w} : SameRecord(v)
             /\ acked' \subseteq acked \cup {w}
    <3>1. receipts[w].status = "none" => receipts[w].sequence = 0
      <4>1. receipts[w].sequence \in Nat /\ (receipts[w].sequence > 0 <=> Pending(receipts[w]))
        BY <2>1 DEF IInv, TypeOK, EnvelopeWhilePending, Receipt
      <4> QED
        BY <4>1 DEF Pending
    <3>2. /\ \A s \in Session : fences[s].at <= fences'[s].at
          /\ \A s \in Session : fences'[s] # NoFence =>
                /\ fences'[s].execution \in Execution
                /\ Kind[fences'[s].execution] = "stop"
                /\ fences'[s].at = OccurredAt[fences'[s].execution]
          /\ Kind[ExecutionOf[w]] = "stop" =>
                OccurredAt[ExecutionOf[w]] <= fences'[SessionOf[ExecutionOf[w]]].at
      BY <2>1, <2>2, <3>1, FenceWritten DEF IInv
    <3>3. ASSUME NEW v \in Delivery, receipts'[v].status # "none",
                 Kind[ExecutionOf[v]] = "stop"
          PROVE  OccurredAt[ExecutionOf[v]] <= fences'[SessionOf[ExecutionOf[v]]].at
      <4>1. CASE v = w
        BY <3>2, <3>3, <4>1
      <4>2. CASE v # w
        <5> DEFINE s == SessionOf[ExecutionOf[v]]
        <5>1. OccurredAt[ExecutionOf[v]] <= fences[s].at
          BY <2>2, <3>3, <4>2 DEF SameRecord, StopsFenced
        <5>2. s \in Session /\ OccurredAt[ExecutionOf[v]] \in Nat
          BY OccurredAtTypes
        <5>3. fences[s].at \in Int /\ fences'[s].at \in Int
          BY <5>2, NextIInv DEF IInv, TypeOK, Fence
        <5> QED
          BY <3>2, <5>1, <5>2, <5>3
      <4> QED
        BY <4>1, <4>2
    <3>4. \A z \in acked' : z \in Delivery /\ receipts'[z].status # "none"
      BY <2>1, <2>2 DEF SameRecord, StopsFenced
    <3> QED
      BY <3>2, <3>3, <3>4 DEF StopsFenced
  <2> QED
    BY <1>1, <2>1, <2>2
<1>3. ASSUME NEW p \in Process, NEW h \in Handler,
             OwnerOperation(p, h)
      PROVE  StopsFenced'
  <2>1. /\ UNCHANGED <<fences, acked>> /\ \A v \in Delivery : SameRecord(v)
    BY <1>3, OwnerReceipts
  <2> QED
    BY <2>1 DEF StopsFenced, SameRecord
<1> QED
  BY <1>1, <1>2, <1>3, OtherReceipts DEF Mutate, OwnerOperation

\* What is earlier than a stop on record is turned away.
LEMMA StopForbids ==
    ASSUME TypeOK, StopsFenced, NEW z \in acked, NEW w \in Delivery,
           Kind[ExecutionOf[z]] = "stop",
           SessionOf[ExecutionOf[w]] = SessionOf[ExecutionOf[z]],
           \/ Kind[ExecutionOf[w]] = "created"
           \/ OccurredAt[ExecutionOf[w]] < OccurredAt[ExecutionOf[z]]
    PROVE  AtOrBeforeFence(w)
<1> DEFINE x == ExecutionOf[w]
           y == ExecutionOf[z]
           f == fences[SessionOf[x]]
<1>1. z \in Delivery /\ receipts[z].status # "none"
  BY DEF StopsFenced
<1>2. /\ OccurredAt[x] \in Nat /\ OccurredAt[y] \in Nat /\ SessionOf[x] \in Session
  BY <1>1, OccurredAtTypes
<1>3. OccurredAt[y] <= f.at
  BY <1>1 DEF StopsFenced
<1>4. NoFence.at = -1
  BY DEF NoFence
<1>5. f.at \in Int
  BY <1>2 DEF TypeOK, Fence
<1>6. f # NoFence
  BY <1>2, <1>3, <1>4
<1>7. Kind[f.execution] = "stop" /\ f.at = OccurredAt[f.execution]
  BY <1>2, <1>6 DEF StopsFenced
<1>8. f.execution # x
  BY <1>2, <1>3, <1>7
<1>9. Kind[x] = "created" \/ OccurredAt[x] < f.at
  BY <1>2, <1>3, <1>5
<1> QED
  BY <1>6, <1>8, <1>9 DEF AtOrBeforeFence

----------------------------------------------------------------------------
(* Theorems. *)

\* The state file and the processes' memory are, after every step of every
\* process, as the inductive invariant describes them.
THEOREM Invariance == Spec => []IInv
<1> QED
  BY InitIInv, NextIInv, PTL DEF Spec

\* Every variable has its type: in particular the next sequence stays the
\* successor of all in use, whatever was written, lost or taken over.
THEOREM TypeCorrect == Spec => []TypeOK
<1>1. IInv => TypeOK
  BY DEF IInv
<1> QED
  BY <1>1, Invariance, PTL

\* A claim and its receipt never disagree (ownedActiveClaim and takeovers).
THEOREM ClaimsAgree == Spec => []ClaimAgreement
<1>1. IInv => ClaimAgreement
  BY DEF IInv
<1> QED
  BY <1>1, Invariance, PTL

\* A recovery envelope lasts exactly as long as its receipt is pending.
THEOREM EnvelopesWhilePending == Spec => []EnvelopeWhilePending
<1>1. IInv => EnvelopeWhilePending
  BY DEF IInv
<1> QED
  BY <1>1, Invariance, PTL

\* A restart is never refused for what earlier processes accepted.
THEOREM RecoveryStaysAvailable == Spec => []RecoveryAvailable
<1>1. IInv => RecoveryAvailable
  BY DEF IInv
<1> QED
  BY <1>1, Invariance, PTL

\* No two processes ever take the turn of one execution: the dispatch marker
\* excludes every process but the one that set it, for ever.
THEOREM AtMostOneStarter == Spec => []OneStarter
<1>1. IInv => OneStarter
  BY DEF IInv, StartersDispatched, OneStarter
<1> QED
  BY <1>1, Invariance, PTL

\* The store and its handlers implement the promise of AtMostOnceDispatch: every
\* write is one of its steps, for the one execution it is about, or none.
THEOREM ClaimsKeepPromise == Spec => KeepsPromise
<1>1. Init => Promise!Init
  BY InitPromise
<1>2. IInv /\ [Next]_vars => [Promise!Next]_(Promise!vars)
  BY NextPromise
<1> QED
  BY <1>1, <1>2, Invariance, PTL DEF KeepsPromise, Promise!Spec, Spec

\* After a stop has been acknowledged no turn that precedes it in its session is
\* dispatched, by any process, after any restart and through any recovery.
THEOREM AckedStopsHold == Spec => AckedStopHolds
<1>1. Init => StopsFenced
  BY DEF Init, StopsFenced, NoReceipt, NoFence
<1>2. IInv /\ StopsFenced /\ [Next]_vars => StopsFenced'
  BY FencesKept
<1>3. Spec => []StopsFenced
  BY <1>1, <1>2, Invariance, PTL DEF Spec
<1>4. ASSUME IInv, StopsFenced, [Next]_vars, NEW z \in acked, NEW w \in Delivery,
             Kind[ExecutionOf[z]] = "stop",
             SessionOf[ExecutionOf[w]] = SessionOf[ExecutionOf[z]],
             \/ Kind[ExecutionOf[w]] = "created"
             \/ OccurredAt[ExecutionOf[w]] < OccurredAt[ExecutionOf[z]],
             receipts'[w].dispatched
      PROVE  receipts[w].dispatched
  <2>1. AtOrBeforeFence(w)
    BY <1>4, StopForbids DEF IInv
  <2>2. CASE UNCHANGED <<receipts, fences, acked>>
    BY <1>4, <2>2
  <2>3. CASE \E p \in Process, h \in Handler : ClaimEvent(p, h)
    BY <1>4, <2>3, ClaimEventReceipts DEF NoNewMarker
  <2>4. CASE \E p \in Process, h \in Handler : OwnerOperation(p, h)
    BY <1>4, <2>1, <2>4, OwnerReceipts DEF NoNewMarker
  <2> QED
    BY <1>4, <2>2, <2>3, <2>4, OtherReceipts DEF Mutate, OwnerOperation
<1>5. IInv /\ StopsFenced /\ [Next]_vars =>
        [\A z \in acked, w \in Delivery :
            LET x == ExecutionOf[w]
                y == ExecutionOf[z]
            IN  /\ Kind[y] = "stop" /\ SessionOf[x] = SessionOf[y] /\ x # y
                /\ Kind[x] = "created" \/ OccurredAt[x] < OccurredAt[y]
                /\ receipts'[w].dispatched
                => receipts[w].dispatched]_vars
  BY <1>4
<1> QED
  BY <1>3, <1>5, Invariance, PTL DEF Spec, AckedStopHolds
=============================================================================
