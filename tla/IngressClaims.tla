--------------------------- MODULE IngressClaims ---------------------------
(***************************************************************************)
(* Durable ingress: the receipt of each delivery, the semantic claim of    *)
(* each execution, and the handlers of one or more bridge processes that   *)
(* accept, dispatch, release and settle them.                              *)
(*                                                                         *)
(* Code: JsonBridgeStateStore (src/src/state/store.ts) and the ingress     *)
(* half of the server (src/src/server.ts).  A "process" is one incarnation *)
(* of the bridge: its ownerId is a fresh UUID, so a restart is another     *)
(* member of Process, and two may overlap during a deployment.             *)
(*                                                                         *)
(* Each process sends its mutations through one FIFO (mutationTail); the   *)
(* one at the head runs under the inter-process file lock, so it is one    *)
(* step on the durable state.  What the caller learns of it is a separate  *)
(* matter: a mutation can be durable and still be reported as an error.    *)
(*                                                                         *)
(* The retention window (prune) is taken as longer than any behaviour      *)
(* considered here; every receipt that is written stays.                   *)
(***************************************************************************)
EXTENDS Integers, SequencesExt

CONSTANTS
    Process,         \* incarnations of the bridge
    Overlap,         \* whether a process may start before another is gone
    Redelivery,      \* whether Linear may send again what was acknowledged
    Unreliable,      \* the incarnations that may crash or meet an I/O fault
    Handler,         \* asynchronous handlers of one process
    Delivery,        \* delivery identities (webhookId of a receipt)
    Reconciled,      \* the deliveries that reconciliation makes up
    Execution,       \* semantic identities (executionId)
    Session,         \* Linear sessions
    None,
    ExecutionOf,     \* the execution a delivery names
    SessionOf,       \* the session of an execution
    Kind,            \* "created", "prompt" or "stop", by execution
    OccurredAt,      \* Linear's timestamp, by execution
    ActivityRank,    \* order of the activity ids, by execution
    MaxRecoverable,  \* maxRecoverableEvents
    BatchSize,       \* RECOVERABLE_INGRESS_BATCH_SIZE
    MaxFaults        \* bound on the I/O faults of a behaviour

ASSUME IngressAssumption ==
    /\ Overlap \in BOOLEAN /\ Redelivery \in BOOLEAN
    /\ Unreliable \subseteq Process
    /\ Reconciled \subseteq Delivery
    /\ IsFiniteSet(Delivery)
    /\ ExecutionOf \in [Delivery -> Execution]
    /\ SessionOf \in [Execution -> Session]
    /\ Kind \in [Execution -> {"created", "prompt", "stop"}]
    /\ OccurredAt \in [Execution -> Nat]
    /\ ActivityRank \in [Execution -> Nat]
    /\ MaxRecoverable \in Nat \ {0}
    /\ BatchSize \in Nat \ {0}
    /\ MaxFaults \in Nat
    /\ None \notin Process \cup Delivery \cup Execution

VARIABLES
    receipts,      \* state.receipts, by delivery
    claims,        \* state.claims, by execution
    fences,        \* state.recoveryStopFences, by session
    stopFences,    \* state.reconciliationSessions[].stopFence, by session
    nextSequence,  \* state.nextRecoverySequence
    phase,         \* life of each process, with the server's ingress gate
    accepted,      \* locallyAcceptedPreDispatchClaims, by process
    handlers,      \* what each handler is doing
    queue,         \* mutationTail: the handlers whose mutation is queued
    recovery,      \* the recovery loop of each process
    faults,        \* how many faults have happened
    starts,        \* history: turns a process took past the dispatch call
    acked          \* history: deliveries answered 200 as newly claimed

durable == <<receipts, claims, fences, stopFences, nextSequence>>
volatile == <<phase, accepted, handlers, queue, recovery>>
vars == <<durable, volatile, faults, starts, acked>>

----------------------------------------------------------------------------
(* Records of the state file. *)

Status == {"none", "received", "claimed", "completed", "superseded"}

\* sequence = 0: neither a recovery sequence nor an envelope; the code writes
\* and clears the two together.  "completed" stands for completed and failed.
Receipt == [status : Status, owner : Process \cup {None},
            sequence : Nat, dispatched : BOOLEAN]

NoReceipt == [status |-> "none", owner |-> None,
              sequence |-> 0, dispatched |-> FALSE]

Claim == [status : {"none", "claimed", "completed"},
          delivery : Delivery \cup {None}, owner : Process \cup {None},
          dispatched : BOOLEAN]

NoClaim == [status |-> "none", delivery |-> None, owner |-> None,
            dispatched |-> FALSE]

Fence == [at : Nat \cup {-1}, sequence : Nat,
          delivery : Delivery \cup {None}, execution : Execution \cup {None}]

NoFence == [at |-> -1, sequence |-> 0, delivery |-> None, execution |-> None]

Cursor == [at : Nat \cup {-1}, rank : Nat]

NoCursor == [at |-> -1, rank |-> 0]

CursorOf(x) == [at |-> OccurredAt[x], rank |-> ActivityRank[x]]

\* compareCursors: by time, then by activity id.
Before(c, d) == c.at < d.at \/ (c.at = d.at /\ c.rank < d.rank)

----------------------------------------------------------------------------
(* Reading the durable state. *)

\* A receipt that recovery still owes a decision.
Pending(r) == r.status \in {"received", "claimed"} /\ ~r.dispatched

Recoverable == {w \in Delivery : Pending(receipts[w])}

\* ownedActiveClaim: anything else is a ClaimOwnershipError.
Owned(p, w) ==
    LET c == claims[ExecutionOf[w]]
    IN  /\ receipts[w].status = "claimed"
        /\ c.status = "claimed"
        /\ c.delivery = w
        /\ c.owner = p

\* receiptIsAtOrBeforeFence for a fence that another execution put there.
AtOrBeforeFence(w) ==
    LET x == ExecutionOf[w]
        f == fences[SessionOf[x]]
    IN  /\ f # NoFence
        /\ f.execution # x
        /\ \/ Kind[x] = "created"
           \/ OccurredAt[x] < f.at
           \/ OccurredAt[x] = f.at /\ receipts[w].sequence <= f.sequence

\* The reconciliation fence binds prompts dispatched with a cursor, which the
\* webhook path does not pass.
AtOrBeforeStopFence(w, scope) ==
    LET x == ExecutionOf[w]
    IN  /\ scope # "webhook"
        /\ Kind[x] = "prompt"
        /\ ~Before(stopFences[SessionOf[x]], CursorOf(x))

Fenced(w, scope) == AtOrBeforeFence(w) \/ AtOrBeforeStopFence(w, scope)

----------------------------------------------------------------------------
(* Types of the volatile state. *)

Phase == {"new", "recovering", "ready", "blocked", "down"}

Scope == {"webhook", "reconciliation", "recovery"}

\* The pc of a handler names the mutation it has queued, except in "run".
HandlerState == [pc : {"idle", "claim", "begin", "release", "rebegin",
                       "run", "finish"},
                 delivery : Delivery \cup {None}, scope : Scope]

Idle == [pc |-> "idle", delivery |-> None, scope |-> "webhook"]

\* One candidate of a recovery pass, as it was when the batch was listed.
Candidate == [delivery : Delivery, sequence : Nat]

Recovery == [running : BOOLEAN, requested : BOOLEAN,
             after : Nat, batch : SUBSET Candidate]

NoRecovery == [running |-> FALSE, requested |-> FALSE, after |-> 0, batch |-> {}]
NewPass == [NoRecovery EXCEPT !.running = TRUE]

TypeOK ==
    /\ receipts \in [Delivery -> Receipt]
    /\ claims \in [Execution -> Claim]
    /\ fences \in [Session -> Fence]
    /\ stopFences \in [Session -> Cursor]
    /\ nextSequence \in Nat \ {0}
    /\ phase \in [Process -> Phase]
    /\ accepted \in [Process -> SUBSET Delivery]
    /\ handlers \in [Process -> [Handler -> HandlerState]]
    /\ queue \in [Process -> Seq(Handler)]
    /\ recovery \in [Process -> Recovery]
    /\ faults \in Nat
    /\ starts \in [Execution -> [Process -> Nat]]
    /\ acked \subseteq Delivery

Init ==
    /\ receipts = [w \in Delivery |-> NoReceipt]
    /\ claims = [x \in Execution |-> NoClaim]
    /\ fences = [s \in Session |-> NoFence]
    /\ stopFences = [s \in Session |-> NoCursor]
    /\ nextSequence = 1
    /\ phase = [p \in Process |-> "new"]
    /\ accepted = [p \in Process |-> {}]
    /\ handlers = [p \in Process |-> [h \in Handler |-> Idle]]
    /\ queue = [p \in Process |-> << >>]
    /\ recovery = [p \in Process |-> NoRecovery]
    /\ faults = 0
    /\ starts = [x \in Execution |-> [p \in Process |-> 0]]
    /\ acked = {}

----------------------------------------------------------------------------
(* What a handler does next.  rest is the queue without its mutation. *)

\* h's mutation is at the head of its process's queue and holds the file lock.
Mutating(p, h, pc) ==
    /\ queue[p] # << >>
    /\ h = Head(queue[p])
    /\ handlers[p][h].pc = pc

Ends(p, h, rest) ==
    /\ handlers' = [handlers EXCEPT ![p][h] = Idle]
    /\ queue' = [queue EXCEPT ![p] = rest]

Queues(p, h, pc, rest) ==
    /\ handlers' = [handlers EXCEPT ![p][h].pc = pc]
    /\ queue' = [queue EXCEPT ![p] = Append(rest, h)]

Fault(p) ==
    /\ p \in Unreliable
    /\ faults < MaxFaults
    /\ faults' = faults + 1

NoFault == UNCHANGED faults

\* Mutant of RequestRecovery: only the recovery loop itself goes on.
RequestRecoveryOnlyInLoop(p, scope) ==
    recovery' = [recovery EXCEPT ![p] = IF scope = "recovery" THEN NewPass ELSE @]

\* scheduleAcceptedIngressRecovery, called when a claim was given back.  A
\* recovery pass that caused it returns and the loop starts another one.
RequestRecovery(p, scope) ==
    recovery' = [recovery EXCEPT ![p] =
        IF scope = "recovery" \/ ~@.running THEN NewPass
        ELSE [@ EXCEPT !.requested = TRUE]]

\* The claim call threw.  A webhook is answered 503 and reconciliation tries
\* again later; an error of the recovery loop blocks the process for good.
ClaimFails(p, h, rest) ==
    /\ Ends(p, h, rest)
    /\ IF handlers[p][h].scope = "recovery"
       THEN /\ phase' = [phase EXCEPT ![p] = "blocked"]
            /\ recovery' = [recovery EXCEPT ![p] = NoRecovery]
       ELSE UNCHANGED <<phase, recovery>>
    /\ UNCHANGED <<accepted, starts, acked>>

\* beginEventDispatch threw.  The first time the handler gives the claim back,
\* forgetting at once that it holds it; the second time it fails the event,
\* unless the error was that the claim is not its own.
BeginFails(p, h, rest) ==
    /\ IF handlers[p][h].pc = "begin" THEN Queues(p, h, "release", rest)
       ELSE IF Owned(p, handlers[p][h].delivery) THEN Queues(p, h, "finish", rest)
       ELSE Ends(p, h, rest)
    /\ accepted' = [accepted EXCEPT ![p] = @ \ {handlers[p][h].delivery}]
    /\ UNCHANGED <<phase, recovery, starts, acked>>

\* The claim was released, or whether it was is unknown.
GivesBack(p, h, rest) ==
    /\ Ends(p, h, rest)
    /\ RequestRecovery(p, handlers[p][h].scope)
    /\ UNCHANGED <<phase, accepted, starts, acked>>

----------------------------------------------------------------------------
(* claimEvent and claimStopEvent. *)

UsedSequences ==
    {receipts[w].sequence : w \in Delivery} \cup
    {fences[s].sequence : s \in Session}

NewSequence ==
    IF \A n \in UsedSequences : n < nextSequence
    THEN nextSequence
    ELSE Max(UsedSequences) + 1

\* Only a caller that has the event at hand can seal its payload.
NeedsEnvelope(w, scope) ==
    /\ scope # "recovery"
    /\ receipts[w].sequence = 0
    /\ receipts[w].status = "none" \/ Pending(receipts[w])

\* Mutant of HasRoom: the delivery that is being admitted is not counted.
HasRoomBefore(w, scope) ==
    NeedsEnvelope(w, scope) => Cardinality(Recoverable \ {w}) <= MaxRecoverable

HasRoom(w, scope) ==
    NeedsEnvelope(w, scope) => Cardinality(Recoverable \cup {w}) <= MaxRecoverable

\* The receipt once the delivery is on record, before its claim is decided.
Received(w, scope) ==
    LET r == IF receipts[w].status = "none"
             THEN [NoReceipt EXCEPT !.status = "received"]
             ELSE receipts[w]
    IN  IF NeedsEnvelope(w, scope) THEN [r EXCEPT !.sequence = NewSequence] ELSE r

Superseded(r) == [r EXCEPT !.status = "superseded", !.sequence = 0]

\* Mutant of MovesFence: whichever stop was received last moves the fence.
MovesFenceByArrival(w, scope) ==
    /\ NeedsEnvelope(w, scope)
    /\ Kind[ExecutionOf[w]] = "stop"
    /\ NewSequence > fences[SessionOf[ExecutionOf[w]]].sequence

\* recordRecoveryStopFence: the first delivery of a stop that is later than
\* the session's fence moves it.
MovesFence(w, scope) ==
    LET x == ExecutionOf[w]
        f == fences[SessionOf[x]]
    IN  /\ NeedsEnvelope(w, scope)
        /\ Kind[x] = "stop"
        /\ \A v \in Delivery \ {w} :
              ExecutionOf[v] = x => receipts[v].status = "none"
        /\ \/ OccurredAt[x] > f.at
           \/ OccurredAt[x] = f.at /\ NewSequence > f.sequence

MovesStopFence(w, scope) ==
    LET x == ExecutionOf[w]
    IN  /\ scope # "recovery"
        /\ Kind[x] = "stop"
        /\ Before(stopFences[SessionOf[x]], CursorOf(x))

\* claimStopEvent finds a later stop on record.
StaleStop(w, scope) ==
    LET x == ExecutionOf[w]
    IN  /\ scope # "recovery"
        /\ Kind[x] = "stop"
        /\ Before(CursorOf(x), stopFences[SessionOf[x]])

\* The part of the claim that every one of its writes carries.
Admit(w, scope) ==
    LET x == ExecutionOf[w]
        s == SessionOf[x]
    IN  /\ nextSequence' = IF NeedsEnvelope(w, scope)
                           THEN NewSequence + 1 ELSE nextSequence
        /\ fences' = IF MovesFence(w, scope)
                     THEN [fences EXCEPT ![s] =
                              [at |-> OccurredAt[x], sequence |-> NewSequence,
                               delivery |-> w, execution |-> x]]
                     ELSE fences
        /\ stopFences' = IF MovesStopFence(w, scope)
                         THEN [stopFences EXCEPT ![s] = CursorOf(x)]
                         ELSE stopFences

\* Mutant of Claimable: a claim of another process is taken over dispatched or not.
ClaimableDispatched(p, w) ==
    LET c == claims[ExecutionOf[w]]
    IN  \/ /\ receipts[w].status \in {"none", "received"}
           /\ c.status = "none" \/ (c.status = "claimed" /\ c.owner # p)
        \/ /\ receipts[w].status = "claimed"
           /\ c.status = "claimed" /\ c.delivery = w
           /\ c.owner # p \/ (w \notin accepted[p] /\ ~c.dispatched)

\* p gets the claim: there is none, or it is one that nobody has dispatched
\* and that belongs to another process or to a call of p that failed.
Claimable(p, w) ==
    LET c == claims[ExecutionOf[w]]
        abandoned == c.status = "claimed" /\ ~c.dispatched
    IN  \/ /\ receipts[w].status \in {"none", "received"}
           /\ c.status = "none" \/ (abandoned /\ c.owner # p)
        \/ /\ receipts[w].status = "claimed"
           /\ abandoned /\ c.delivery = w
           /\ c.owner # p \/ w \notin accepted[p]

\* Mutant of GrantClaim: the receipt that held the claim is left as it was.
GrantClaimKeepingPrior(p, w, scope) ==
    /\ receipts' = [receipts EXCEPT ![w] =
          [Received(w, scope) EXCEPT !.status = "claimed", !.owner = p]]
    /\ claims' = [claims EXCEPT ![ExecutionOf[w]] =
          [status |-> "claimed", delivery |-> w, owner |-> p,
           dispatched |-> FALSE]]

GrantClaim(p, w, scope) ==
    LET x == ExecutionOf[w]
    IN  /\ receipts' = [v \in Delivery |->
              IF v = w THEN [Received(w, scope) EXCEPT !.status = "claimed",
                                                       !.owner = p]
              ELSE IF v = claims[x].delivery THEN Superseded(receipts[v])
              ELSE receipts[v]]
        /\ claims' = [claims EXCEPT ![x] =
              [status |-> "claimed", delivery |-> w, owner |-> p,
               dispatched |-> FALSE]]

\* A stop older than the fence is claimed and superseded under the same lock.
GrantStaleStop(p, w, scope) ==
    LET x == ExecutionOf[w]
    IN  /\ receipts' = [v \in Delivery |->
              IF v = w THEN [Superseded(Received(w, scope)) EXCEPT !.owner = p]
              ELSE IF v = claims[x].delivery THEN Superseded(receipts[v])
              ELSE receipts[v]]
        /\ claims' = [claims EXCEPT ![x] =
              [status |-> "completed", delivery |-> w, owner |-> p,
               dispatched |-> FALSE]]

\* Duplicate, superseded or ambiguous: no handler takes the event from here.
RefuseClaim(w, scope) ==
    /\ receipts' = [receipts EXCEPT ![w] =
          IF @.status \in {"none", "received"}
          THEN Superseded(Received(w, scope)) ELSE Received(w, scope)]
    /\ UNCHANGED claims

\* "claimed": the webhook is acknowledged and the event is processed.
Claimed(p, h, rest) ==
    LET w == handlers[p][h].delivery
    IN  /\ Queues(p, h, "begin", rest)
        /\ accepted' = [accepted EXCEPT ![p] = @ \cup {w}]
        /\ acked' = IF handlers[p][h].scope = "webhook"
                    THEN acked \cup {w} ELSE acked
        /\ UNCHANGED <<phase, recovery, starts>>

NotClaimed(p, h, rest) ==
    /\ Ends(p, h, rest)
    /\ UNCHANGED <<phase, accepted, recovery, starts, acked>>

ClaimEvent(p, h) ==
    LET w == handlers[p][h].delivery
        scope == handlers[p][h].scope
        rest == Tail(queue[p])
    IN  /\ Mutating(p, h, "claim")
        /\ \/ /\ ~HasRoom(w, scope)
              /\ ClaimFails(p, h, rest)
              /\ NoFault /\ UNCHANGED durable
           \/ /\ HasRoom(w, scope)
              /\ Admit(w, scope)
              /\ \/ /\ Claimable(p, w) /\ ~StaleStop(w, scope)
                    /\ GrantClaim(p, w, scope)
                    /\ \/ Claimed(p, h, rest) /\ NoFault
                       \/ ClaimFails(p, h, rest) /\ Fault(p)
                 \/ /\ Claimable(p, w) /\ StaleStop(w, scope)
                    /\ \/ /\ GrantStaleStop(p, w, scope)
                          /\ \/ NotClaimed(p, h, rest) /\ NoFault
                             \/ ClaimFails(p, h, rest) /\ Fault(p)
                       \/ /\ GrantClaim(p, w, scope)
                          /\ ClaimFails(p, h, rest) /\ Fault(p)
                 \/ /\ ~Claimable(p, w)
                    /\ RefuseClaim(w, scope)
                    /\ \/ NotClaimed(p, h, rest) /\ NoFault
                       \/ ClaimFails(p, h, rest) /\ Fault(p)
                 \/ \* only the first of the two writes of a new delivery
                    /\ receipts[w].status = "none"
                    /\ receipts' = [receipts EXCEPT ![w] = Received(w, scope)]
                    /\ UNCHANGED claims
                    /\ ClaimFails(p, h, rest) /\ Fault(p)

----------------------------------------------------------------------------
(* beginEventDispatch, releasePreDispatchClaim, completeEvent, failEvent. *)

\* "dispatch_started": the handler goes on to the turn.
Started(p, h, rest) ==
    LET w == handlers[p][h].delivery
    IN  /\ handlers' = [handlers EXCEPT ![p][h].pc = "run"]
        /\ queue' = [queue EXCEPT ![p] = rest]
        /\ accepted' = [accepted EXCEPT ![p] = @ \ {w}]
        /\ starts' = [starts EXCEPT ![ExecutionOf[w]][p] = @ + 1]
        /\ UNCHANGED <<phase, recovery, acked>>

\* "superseded": a stop fence got there first.
Stopped(p, h, rest) ==
    /\ Ends(p, h, rest)
    /\ accepted' = [accepted EXCEPT ![p] = @ \ {handlers[p][h].delivery}]
    /\ UNCHANGED <<phase, recovery, starts, acked>>

\* Mutants of MarkDispatchStarted: the envelope is left in the receipt, and the
\* marker is written to the receipt alone.
MarkKeepingEnvelope(w) ==
    /\ receipts' = [receipts EXCEPT ![w].dispatched = TRUE]
    /\ claims' = [claims EXCEPT ![ExecutionOf[w]].dispatched = TRUE]

MarkReceiptOnly(w) ==
    /\ receipts' = [receipts EXCEPT ![w].dispatched = TRUE, ![w].sequence = 0]
    /\ UNCHANGED claims

\* The dispatch marker and the removal of the envelope are one write.
MarkDispatchStarted(w) ==
    /\ receipts' = [receipts EXCEPT ![w].dispatched = TRUE, ![w].sequence = 0]
    /\ claims' = [claims EXCEPT ![ExecutionOf[w]].dispatched = TRUE]

\* Mutant of SupersedeOwnedClaim: the claim is given the receipt's status.
SupersedeBoth(w) ==
    /\ receipts' = [receipts EXCEPT ![w] = Superseded(@)]
    /\ claims' = [claims EXCEPT ![ExecutionOf[w]].status = "superseded"]

SupersedeOwnedClaim(w) ==
    /\ receipts' = [receipts EXCEPT ![w] = Superseded(@)]
    /\ claims' = [claims EXCEPT ![ExecutionOf[w]].status = "completed"]

BeginDispatch(p, h) ==
    LET w == handlers[p][h].delivery
        scope == handlers[p][h].scope
        marked == claims[ExecutionOf[w]].dispatched
        rest == Tail(queue[p])
    IN  /\ Mutating(p, h, "begin") \/ Mutating(p, h, "rebegin")
        /\ UNCHANGED <<fences, stopFences, nextSequence>>
        /\ \/ /\ ~Owned(p, w)
              /\ BeginFails(p, h, rest)
              /\ NoFault /\ UNCHANGED <<receipts, claims>>
           \/ /\ Owned(p, w) /\ marked
              /\ Started(p, h, rest)
              /\ NoFault /\ UNCHANGED <<receipts, claims>>
           \/ /\ Owned(p, w) /\ ~marked /\ Fenced(w, scope)
              /\ SupersedeOwnedClaim(w)
              /\ \/ Stopped(p, h, rest) /\ NoFault
                 \/ BeginFails(p, h, rest) /\ Fault(p)
           \/ /\ Owned(p, w) /\ ~marked /\ ~Fenced(w, scope)
              /\ MarkDispatchStarted(w)
              /\ \/ Started(p, h, rest) /\ NoFault
                 \/ BeginFails(p, h, rest) /\ Fault(p)

ReleaseClaim(p, h) ==
    LET w == handlers[p][h].delivery
        x == ExecutionOf[w]
        rest == Tail(queue[p])
    IN  /\ Mutating(p, h, "release")
        /\ UNCHANGED <<fences, stopFences, nextSequence>>
        /\ NoFault
        /\ \/ /\ ~Owned(p, w)
              /\ GivesBack(p, h, rest)
              /\ UNCHANGED <<receipts, claims>>
           \/ /\ Owned(p, w) /\ claims[x].dispatched
              /\ Queues(p, h, "rebegin", rest)
              /\ UNCHANGED <<receipts, claims, phase, accepted, recovery,
                             starts, acked>>
           \/ \* written; whether the caller learns of it makes no difference
              /\ Owned(p, w) /\ ~claims[x].dispatched
              /\ receipts' = [receipts EXCEPT ![w].status = "received",
                                              ![w].owner = None]
              /\ claims' = [claims EXCEPT ![x] = NoClaim]
              /\ GivesBack(p, h, rest)

\* The turn is over, in whatever way, and its outcome is to be recorded.
TurnEnds(p, h) ==
    /\ handlers[p][h].pc = "run"
    /\ Queues(p, h, "finish", queue[p])
    /\ UNCHANGED <<durable, phase, accepted, recovery, faults, starts, acked>>

Terminalize(p, h) ==
    LET w == handlers[p][h].delivery
        x == ExecutionOf[w]
    IN  /\ Mutating(p, h, "finish")
        /\ IF Owned(p, w) /\ claims[x].dispatched
           THEN /\ receipts' = [receipts EXCEPT ![w].status = "completed"]
                /\ claims' = [claims EXCEPT ![x].status = "completed"]
           ELSE UNCHANGED <<receipts, claims>>
        /\ Ends(p, h, Tail(queue[p]))
        /\ UNCHANGED <<fences, stopFences, nextSequence, phase, accepted,
                       recovery, faults, starts, acked>>

\* A queued mutation that never runs: its caller was timed out by mutate, or
\* it failed before anything was written.
MutationRejected(p, i) ==
    LET h == queue[p][i]
        rest == RemoveAt(queue[p], i)
    IN  /\ Fault(p)
        /\ UNCHANGED durable
        /\ \/ handlers[p][h].pc = "claim" /\ ClaimFails(p, h, rest)
           \/ handlers[p][h].pc \in {"begin", "rebegin"} /\ BeginFails(p, h, rest)
           \/ handlers[p][h].pc = "release" /\ GivesBack(p, h, rest)
           \/ handlers[p][h].pc = "finish" /\ NotClaimed(p, h, rest)

----------------------------------------------------------------------------
(* Processes, deliveries and the recovery loop. *)

\* A new process recovers accepted ingress before it opens its gate.
Start(p) ==
    /\ phase[p] = "new"
    /\ Overlap \/ \A q \in Process : phase[q] \in {"new", "down"}
    /\ phase' = [phase EXCEPT ![p] = "recovering"]
    /\ recovery' = [recovery EXCEPT ![p] = NewPass]
    /\ UNCHANGED <<durable, accepted, handlers, queue, faults, starts, acked>>

Crash(p) ==
    /\ p \in Unreliable
    /\ phase[p] \in {"recovering", "ready", "blocked"}
    /\ phase' = [phase EXCEPT ![p] = "down"]
    /\ accepted' = [accepted EXCEPT ![p] = {}]
    /\ handlers' = [handlers EXCEPT ![p] = [h \in Handler |-> Idle]]
    /\ queue' = [queue EXCEPT ![p] = << >>]
    /\ recovery' = [recovery EXCEPT ![p] = NoRecovery]
    /\ UNCHANGED <<durable, faults, starts, acked>>

\* Recovery and reconciliation await each event until it is dispatched.
Busy(p, scope) ==
    \E h \in Handler : /\ handlers[p][h].scope = scope
                       /\ handlers[p][h].pc \in {"claim", "begin", "release", "rebegin"}

Handle(p, h, w, scope) ==
    /\ handlers[p][h].pc = "idle"
    /\ handlers' = [handlers EXCEPT ![p][h] =
          [pc |-> "claim", delivery |-> w, scope |-> scope]]
    /\ queue' = [queue EXCEPT ![p] = Append(@, h)]

\* A signed webhook, new or delivered again, or an activity that a
\* reconciliation pass fetched.
Deliver(p, h, w) ==
    LET scope == IF w \in Reconciled THEN "reconciliation" ELSE "webhook"
    IN  /\ phase[p] = "ready"
        /\ Redelivery \/ w \notin acked
        /\ scope = "reconciliation" => ~Busy(p, scope)
        /\ Handle(p, h, w, scope)
        /\ UNCHANGED <<durable, phase, accepted, recovery, faults, starts, acked>>

Candidates(p) ==
    {[delivery |-> w, sequence |-> receipts[w].sequence] :
        w \in {v \in Recoverable : receipts[v].sequence > recovery[p].after}}

\* listRecoverableEvents: the lowest BatchSize sequences, read without a lock.
RecoveryList(p) ==
    /\ recovery[p].running /\ recovery[p].batch = {} /\ ~Busy(p, "recovery")
    /\ \E B \in SUBSET Candidates(p) :
          /\ B # {}
          /\ Cardinality(B) <= BatchSize
          /\ B # Candidates(p) => Cardinality(B) = BatchSize
          /\ \A b \in B, c \in Candidates(p) \ B : b.sequence <= c.sequence
          /\ recovery' = [recovery EXCEPT ![p].batch = B]
    /\ UNCHANGED <<durable, phase, accepted, handlers, queue, faults, starts, acked>>

RecoveryNext(p, h) ==
    /\ recovery[p].running /\ ~Busy(p, "recovery")
    /\ \E b \in recovery[p].batch :
          /\ \A c \in recovery[p].batch : b.sequence <= c.sequence
          /\ recovery' = [recovery EXCEPT ![p].after = b.sequence,
                                          ![p].batch = @ \ {b}]
          /\ Handle(p, h, b.delivery, "recovery")
    /\ UNCHANGED <<durable, phase, accepted, faults, starts, acked>>

RecoveryPassEnds(p) ==
    /\ recovery[p].running /\ recovery[p].batch = {} /\ ~Busy(p, "recovery")
    /\ Candidates(p) = {}
    /\ \/ /\ recovery[p].requested
          /\ recovery' = [recovery EXCEPT ![p] = NewPass]
          /\ UNCHANGED phase
       \/ /\ ~recovery[p].requested
          /\ recovery' = [recovery EXCEPT ![p] = NoRecovery]
          /\ phase' = [phase EXCEPT ![p] = IF @ = "recovering" THEN "ready" ELSE @]
    /\ UNCHANGED <<durable, accepted, handlers, queue, faults, starts, acked>>

\* The mutation at the head of p's queue takes the file lock and runs.
Mutate(p) ==
    \E h \in Handler : \/ ClaimEvent(p, h)
                       \/ BeginDispatch(p, h)
                       \/ ReleaseClaim(p, h)
                       \/ Terminalize(p, h)

Next ==
    \E p \in Process :
        \/ Start(p)
        \/ Crash(p)
        \/ \E h \in Handler, w \in Delivery : Deliver(p, h, w)
        \/ Mutate(p)
        \/ \E h \in Handler : TurnEnds(p, h)
        \/ \E i \in DOMAIN queue[p] : MutationRejected(p, i)
        \/ RecoveryList(p)
        \/ \E h \in Handler : RecoveryNext(p, h)
        \/ RecoveryPassEnds(p)

Spec == Init /\ [][Next]_vars

\* The event loop runs what is queued, the recovery loop goes on, and a
\* supervisor starts each incarnation and replaces one that blocked.
Fairness ==
    \A p \in Process :
        /\ WF_vars(Start(p))
        /\ WF_vars(phase[p] = "blocked" /\ Crash(p))
        /\ WF_vars(Mutate(p))
        /\ WF_vars(\E h \in Handler : TurnEnds(p, h))
        /\ WF_vars(RecoveryList(p))
        /\ SF_vars(\E h \in Handler : RecoveryNext(p, h))
        /\ WF_vars(RecoveryPassEnds(p))

LiveSpec == Spec /\ Fairness

----------------------------------------------------------------------------
(* Properties. *)

\* No two processes ever take the turn of one execution past the dispatch
\* call, whatever was redelivered, taken over, released or lost in between:
\* the promise of the dispatch marker across process exits.
OneStarter ==
    \A x \in Execution, p, q \in Process :
        starts[x][p] > 0 /\ starts[x][q] > 0 => p = q

\* An active claim and the receipt it names tell one story: same execution,
\* same owner, same marker; and a claimed receipt is always the one its
\* execution's claim names.  ownedActiveClaim and every takeover rely on it.
ClaimAgreement ==
    /\ \A x \in Execution : claims[x].status = "claimed" =>
          /\ claims[x].delivery \in Delivery
          /\ ExecutionOf[claims[x].delivery] = x
          /\ receipts[claims[x].delivery].status = "claimed"
          /\ receipts[claims[x].delivery].owner = claims[x].owner
          /\ receipts[claims[x].delivery].dispatched = claims[x].dispatched
    /\ \A w \in Delivery : receipts[w].status = "claimed" =>
          /\ claims[ExecutionOf[w]].status = "claimed"
          /\ claims[ExecutionOf[w]].delivery = w

\* A receipt keeps its recovery envelope exactly as long as recovery may need
\* it: neither dropped while the event is pending, nor kept once the marker is
\* set or the receipt is terminal.
EnvelopeWhilePending ==
    \A w \in Delivery : receipts[w].sequence > 0 <=> Pending(receipts[w])

\* assertRecoverableEventsAvailable never finds a state it must refuse:
\* pending events carry distinct sequences, and no more of them exist than
\* the cap allows, so a restart is never locked out by what was accepted.
RecoveryAvailable ==
    /\ Cardinality(Recoverable) <= MaxRecoverable
    /\ \A v, w \in Recoverable :
          receipts[v].sequence = receipts[w].sequence => v = w

\* Once a stop was acknowledged, no turn that precedes it in its session is
\* dispatched any more, by any process and after any restart.
AckedStopHolds ==
    [][\A z \in acked, w \in Delivery :
          LET x == ExecutionOf[w]
              y == ExecutionOf[z]
          IN  /\ Kind[y] = "stop" /\ SessionOf[x] = SessionOf[y] /\ x # y
              /\ Kind[x] = "created" \/ OccurredAt[x] < OccurredAt[y]
              /\ receipts'[w].dispatched
              => receipts[w].dispatched]_vars

\* Every event that was answered 200 as newly claimed is eventually decided:
\* dispatched, superseded or settled, never left behind by a crash, a lost
\* reply or a failed release.
AckedIsDecided ==
    \A w \in Delivery : w \in acked ~> ~Pending(receipts[w])

\* README, 31: "webhook retries do not dispatch the same turn twice"; and 429:
\* "Same-process duplicate deliveries remain ordinary duplicates".
NoDoubleStart == \A x \in Execution, p \in Process : starts[x][p] <= 1

----------------------------------------------------------------------------
(* The inductive invariant: the safety invariants above and what they need. *)

\* Every sequence in use is behind the counter.
SequencesBelow == \A n \in UsedSequences : n < nextSequence

RecordShapes ==
    /\ \A x \in Execution :
          /\ claims[x].status = "none" => claims[x] = NoClaim
          /\ claims[x].status # "none" => claims[x].owner \in Process
    /\ \A w \in Delivery :
          receipts[w].dispatched => receipts[w].status \in {"claimed", "completed"}

\* A handler at work has a delivery; recovery only meets recorded ones.
KnownDeliveries ==
    \A p \in Process :
        /\ \A h \in Handler : handlers[p][h].pc # "idle" =>
              /\ handlers[p][h].delivery \in Delivery
              /\ handlers[p][h].scope = "recovery" =>
                    receipts[handlers[p][h].delivery].status # "none"
        /\ \A b \in recovery[p].batch : receipts[b.delivery].status # "none"

\* Who started a turn is who the claim says dispatched it.
StartersDispatched ==
    \A x \in Execution, p \in Process :
        starts[x][p] > 0 => claims[x].dispatched /\ claims[x].owner = p

IInv ==
    /\ TypeOK
    /\ ClaimAgreement
    /\ EnvelopeWhilePending
    /\ RecoveryAvailable
    /\ SequencesBelow
    /\ RecordShapes
    /\ KnownDeliveries
    /\ StartersDispatched

\* What the stops on record, and so those that were acknowledged, have done: the
\* fence of a session is that of a stop, and no stop on record is later.
StopsFenced ==
    /\ \A w \in Delivery :
          receipts[w].status # "none" /\ Kind[ExecutionOf[w]] = "stop" =>
              OccurredAt[ExecutionOf[w]] <= fences[SessionOf[ExecutionOf[w]]].at
    /\ \A s \in Session : fences[s] # NoFence =>
          /\ fences[s].execution \in Execution
          /\ Kind[fences[s].execution] = "stop"
          /\ fences[s].at = OccurredAt[fences[s].execution]
    /\ \A z \in acked : z \in Delivery /\ receipts[z].status # "none"

----------------------------------------------------------------------------
(* The abstract specification that the claims implement. *)

OutcomeOf(c) ==
    CASE c.dispatched /\ c.status = "claimed" -> "dispatched"
      [] c.dispatched /\ c.status # "claimed" -> "settled"
      [] ~c.dispatched /\ c.status = "completed" -> "withdrawn"
      [] OTHER -> "open"

DispatcherOf(c) == IF c.dispatched THEN c.owner ELSE None

outcome == [x \in Execution |-> OutcomeOf(claims[x])]
dispatcher == [x \in Execution |-> DispatcherOf(claims[x])]
runners == [x \in Execution |-> {p \in Process : starts[x][p] > 0}]

Promise == INSTANCE AtMostOnceDispatch
    WITH outcome <- outcome, dispatcher <- dispatcher, runners <- runners

\* Every behaviour of the store and its handlers is one the promise allows.
KeepsPromise == Promise!Spec
=============================================================================
