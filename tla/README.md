# Verification of linear-agent-bridge

TLA+ models of the bridge, TLC runs that check them on small instances, and TLAPS
proofs for every size. Paths such as `state/store.ts` are under `src/src/`; the
`map` of `PROJECT.json` gives, for every definition that models code, its file,
lines and symbol.

## 1. Inventory

The bridge is one Node process. It accepts webhooks from Linear, runs a turn of a
Claude or Codex SDK session for each, and writes activities back. Its durable
state is JSON files in one directory; during a deployment two processes may use
that directory at once.

| Part | State | Operations | What makes it hard | What makes it correct |
|---|---|---|---|---|
| Durable ingress store (`state/store.ts`) | receipts by delivery, claims by execution, stop fences, reconciliation sessions, goals, recovery sequence | `claimEvent`, `claimStopEvent`, `beginEventDispatch`, `releasePreDispatchClaim`, `completeEvent`, `failEvent`, `supersedeEvent`, recovery listing, goal operations, `prune` | two processes; a write that is durable although its caller sees an error; redelivery under other identities | one process per turn; nothing accepted is lost before its dispatch marker; claim, receipt and envelope agree; a stop holds |
| State lock and mutation queue (`state/store.ts`, `mutate`, `withFileLock`) | a promise chain per process, a lock directory with one owner file | `mutate`, acquire, probe and remove an abandoned lock, release | four file-system calls between looking and removing; dead owners; queue timers | mutual exclusion; a live owner is never removed; a rejected mutation never runs |
| Ingress and recovery (`server.ts`) | gates, `recoveryInFlight`, `recoveryRequested`, tracked promises | `handleWebhook`, `processClaimedEvent`, `recoverAcceptedIngressPass`, `requestStartupRecovery`, `close` | awaits between every check and its use; retry loops | what was acknowledged is decided in the end |
| Session lanes (`queue.ts`) | a promise tail and a size per session | `enqueue`, `size`, `drain` | lanes are deleted when empty, between two microtasks | one turn of a session at a time, in order |
| Session runs and stops (`server.ts`) | `activeRuns` with their abort controllers | register, abort, unregister, `runSessionTask` | a stop meets a turn that is marked, not yet registered | a stopped turn does not run |
| Autonomous goals (`state/store.ts`, `server.ts`, `goals/protocol.ts`) | goal record with status, iteration, guidance, notice | start, amend, stop, complete, block, continue | a crash between store and announcement; guidance during an iteration | one iteration at a time; a stop ends it; success is announced once |
| Reconciliation (`server.ts`, `state/store.ts`) | watermark, stop fence, sightings per session | pass over sessions and activities | cold start, partial pass, late webhooks | nothing replayed from before the bridge watched, nothing new missed |
| OAuth tokens (`linear/oauth.ts`) | token pair, promise of a refresh | `load`, `refreshAfterUnauthorized`, `install`, the authorization callback | concurrent 401s; a refresh token can be used once; an answer lost, or a crash, between the rotation at Linear and the write | a pair rotates once; a call loses access only by a loss or a revocation |
| Session store (`sessions/store.ts`) | map of Linear to SDK session ids | `get`, `put`, `listSessionIds` | read-modify-write of the whole file | no update of its process is lost |
| Shutdown (`shutdown.ts`, `index.ts`) | a close promise, a deadline, a settled flag | signal, programmatic close, deadline | all three race | close once, exit once |
| Runtimes (`runtime/*.ts`) | the SDK's message stream, timers | `run` | stream ends, stalls or fails | one terminal result |
| Linear client (`linear/client.ts`) | none | GraphQL calls, pagination | retry after 401 | pages cover the window |
| Envelopes, signatures, configuration | keys | seal, open, verify, parse | none of it concurrent | not modelled: pure functions of cryptography and of the environment |
| Deployment (`deploy/`, `scripts/`, `native/`) | installed release links, units | install, roll back, forward TCP | partial failure | not modelled |

How they interact: `handleWebhook` claims an event in the store, answers 200, and
processes it in the background. Processing sets the dispatch marker, enqueues the
turn in its session's lane, runs it and records its outcome. The recovery loop
(at start, and whenever a claim was given back) and the reconciliation pass feed
the same processing. Every store operation goes through the process's mutation
queue and the inter-process lock. A stop writes a fence in the store and aborts
the session's registered runs.

The hazards this leads to are listed in `PROJECT.json`, each at its line.

## 2. Plan

In the order of importance; each part that is built has its section.

| Module | Abstract specification | Proofs | Section |
|---|---|---|---|
| `IngressClaims` | `AtMostOnceDispatch` | `IngressClaimsProofs` | 3 |
| `SessionLanes` | `SerialServer` | `SessionLanesProofs` | 4 |
| `StateLock` | `AtomicStore` | `StateLockProofs`, `StateLockOrderProofs` | 5 |
| `SessionRuns` | `SerialServer`, `AtMostOnceDispatch` | `SessionRunsProofs` | 6 |
| `AutonomousGoal` | | `AutonomousGoalProofs` | 7 |
| `Reconcile` | | `ReconcileProofs` | 8 |
| `OAuthTokens` | | `OAuthTokensProofs` | 9 |

How they fit together: `StateLock` justifies that the others take an operation of the
store as one step: it is shown to implement `AtomicStore`. `IngressClaims` ends where
the dispatch marker is durable, `SessionRuns` goes on from there to the recorded
outcome, with the lane reduced to the sequence that `SessionLanes` shows it to be: the
two modules on either side of each of these seams are shown to implement the same
abstract specification, `AtMostOnceDispatch` at the marker and `SerialServer` at the
lane. `AutonomousGoal` is what happens inside a lane's task when a goal is on, and
`Reconcile` is a second source of the events `IngressClaims` claims. `OAuthTokens` is on
the way of every call to Linear.

Every safety property that a passing run checks is a theorem as well, and so are the
five refinements. Left for later, in this order: the start-up gate with the repair of
older states; the discovery of sessions with its paging; the session store; the
runtime adapters; the installer.

## 3. Durable ingress: `IngressClaims`

| Module | Role |
|---|---|
| `IngressClaims` | the receipts, claims and fences of the state file, the mutation queue of each process, its handlers and its recovery loop |
| `AtMostOnceDispatch` | what they promise per execution: open, then dispatched by one process for ever, or withdrawn |
| `MCIngressClaims` | instances for TLC |
| `IngressClaimsProofs` | theorems |

**State.** `receipts`, `claims`, `fences` and `stopFences` are the maps of the
state file, `nextSequence` its recovery counter. `handlers` are the
asynchronous calls of a process (`pc` names the await it is in), `queue` its
mutations in the order of `mutationTail`, `accepted` its
`locallyAcceptedPreDispatchClaims`, `recovery` the loop and its batch. `starts`,
`acked` and `faults` are histories.

**Actions.** `ClaimEvent`, `BeginDispatch`, `ReleaseClaim` and `Terminalize` are
one mutation each, at the head of its process's queue; `Deliver` is a webhook or
a reconciled activity up to the claim; `RecoveryList`, `RecoveryNext` and
`RecoveryPassEnds` are the recovery loop; `MutationRejected` is the queue timer;
`Start` and `Crash` bound an incarnation. A mutation is atomic on the durable
state, which section 5 justifies. What its caller learns of it is not: a
mutation may be durable and still be reported as an error, and `claimEvent` may
stop after the first of its two writes. Payloads, envelopes and texts are left
out; an envelope is its recovery sequence.

**Runs.**

| Run | Instance | What it shows |
|---|---|---|
| `ClaimsTakeover` | 2 processes that overlap, 1 handler each, 2 deliveries of one execution, 2 faults | `OneStarter`, `ClaimAgreement`, and the refinement `KeepsPromise` |
| `ClaimsStops` | 2 incarnations one after the other, 2 handlers, a follow-up, its reconciled twin and 2 stops, room for 2 envelopes, 1 fault | `TypeOK`, `RecoveryAvailable`, `EnvelopeWhilePending`, `AckedStopHolds` |
| `ClaimsLive` | 3 incarnations one after the other, 3 faults | `AckedIsDecided` |
| `ClaimsRetry` | 1 process, 3 handlers, 1 delivery | `NoDoubleStart` is violated: the finding |

The instances are small because one execution's claim is only ever touched by its own
deliveries, by the stops of its session and by the cap: two deliveries are enough for a
takeover, two processes for a rival that dies, one fence and a later one for fences out
of order, a twin under another identity for the fence to meet a reconciled activity, and
a capacity short of the deliveries for the cap to bite. `MaxFaults` bounds the injected
faults; two let a fault's repair itself fail, as in `ClaimsTakeover` and `ClaimsLive`.
Handlers are interchangeable, so `Permutable` is a symmetry of the safety runs.

**Fairness** (`LiveSpec`). The event loop runs what is queued, turns end (the
runtimes' inactivity limit aborts those that would not), a supervisor starts the
next incarnation and replaces one that blocked (`deploy/` installs units with
`KeepAlive` and `Restart=always`). `RecoveryNext` has strong fairness because it
waits for a free handler, an artefact of the bound. `AckedIsDecided` is checked
for incarnations that follow one another: for two that overlap it does not hold,
and the documents do not promise it (see the hazard at `server.ts:341`).

**Finding.** `README.md:31` says that retries do not dispatch a turn twice.
`releasePreDispatchClaim` forgets that its process holds the claim when it is
called, not when its mutation runs, so a redelivery queued ahead of it takes over
a claim that it then deletes. `ClaimsRetry` has the behaviour: a dispatch that
timed out in the queue, two redeliveries behind it, and one process that takes
the turn twice. Two processes never do: `OneStarter` holds.

**Proved** for any number of processes, handlers, deliveries, sessions, faults
and any capacity, from `IngressAssumption`: `TypeOK`, `ClaimAgreement`,
`EnvelopeWhilePending`, `RecoveryAvailable`, `OneStarter`, `AckedStopHolds` and
`KeepsPromise`. None is inductive by itself. `IInv` adds that sequences in use lie
behind the counter (`SequencesBelow`, so a new one is fresh), that an absent record is
blank and a marked receipt is claimed or completed (`RecordShapes`), that a handler at
work and a batch of recovery only name recorded deliveries (`KnownDeliveries`, since a
batch is listed long before it is claimed), and that whoever started a turn is
whom the durable claim says dispatched it (`StartersDispatched`). The last is
what makes `OneStarter` true: the marker is never cleared nor given away.

`AckedStopHolds` rests on `StopsFenced`, an invariant given `IInv`: no stop on record is
ahead of its session's fence, and the fence is always a stop's. Neither a second
stop nor a twin of the first under another identity moves a fence back, admission is
the only thing that moves one, and the one step that sets a marker turns away
whatever is at or before the fence.

**Refinement.** `KeepsPromise` is `AtMostOnceDispatch` with `outcome`, `dispatcher`
and `runners` read off the claims and off who started what. `ClaimsKeepPromise` proves
it mutation by mutation: a write is about the claim of one execution, and
`OneExecution` says what it then means for the three; a claim that is granted, taken
over or given back leaves its execution open and is a stutter, a fence withdraws it,
the marker dispatches it, and the end of its turn settles it. A marker whose
answer is lost is a dispatch whose turn has not been taken.

**Only model-checked:** `AckedIsDecided` (liveness).

**Not modelled:** the repair of states of an older format, `supersedeEvent`, and
activity identities. Retention and the cursor are the subject of `Reconcile`, what a
claim does to an autonomous goal that of `AutonomousGoal`. Here nothing is pruned, so the
fence of a stop stays; the code drops a recovery fence once its stop's receipt is
pruned (`state/store.ts:2611`), and `AckedStopHolds` is about the time before that.

## 4. Session lanes: `SessionLanes`

| Module | Role |
|---|---|
| `SessionLanes` | `queue.ts`, whole |
| `SerialServer` | what a session sees: tasks served one at a time in the order they came |
| `MCSessionLanes` | an instance for TLC |
| `SessionLanesProofs` | theorems |

**State and actions.** `lanes` is the map; a lane object outlives its entry, so
`tail` and `size` are kept by lane and each task remembers the lane (`laneOf`) and
the task (`after`) it was chained to, as the closures of `enqueue` do.
`Enqueue` is the whole synchronous call. `Begin`, `Settle` and `Finish` are the
microtask that calls the task, the settling of its promise and the clean-up that
reacts to it; anything may happen between them. `CallDrain` takes the tails present
at that moment, `DrainReturns` is `Promise.all` resolving.

**Run.** `Lanes` has three turns of one session (enough for a lane to be dropped
and made anew with a turn before and after), one turn of another, and a drain.
`InOrder` says a turn begins only when all earlier ones are over and cleaned up;
`SizeIsExact` and `DrainCovers` say what `size` and `drain` mean across lane
objects; `ServesInOrder` is the refinement of `SerialServer`, whose `waiting` and `serving` are
read off each session's lane; `EveryTurnComes` is liveness even if every turn throws.

**Fairness.** Every queued reaction runs, and every turn ends: the inactivity
limit of the runtimes and the abort at shutdown see to it.

**Proved** for any sessions, drains and finite set of tasks, from
`LanesAssumption`: `TypeOK`, `InOrder`, `SizeIsExact`, `DrainCovers`. `IInv` says
that the live tasks of a session are all in the lane the map has (`Lanes`), that a
lane's size counts its live tasks (`Counts`; together they make a lane empty only
when the session is), that a task follows its predecessor or had none alive
(`Chained`), and that each task a drain owes is no later than a tail it waits for
(`DrainsCover`). Sizes are cardinalities, hence the finite `Task`.
A consequence: the identity test of `finish` (`queue.ts:49`) is never false when
the size is 0.

**Refinement.** `LanesServeInOrder` proves `ServesInOrder`. Begun tasks are always the
first of those that came (`BegunFirst`, an invariant given `IInv`), so what waits is
the rest of the history after as many tasks as have begun, and the task served is the
only one that runs. `Enqueue` is then an arrival at the end, `Begin` a service of the
head, `Settle` a departure, and the clean-up and the drains stutter.

**Only model-checked:** `EveryTurnComes` (liveness).

## 5. State lock: `StateLock`

| Module | Role |
|---|---|
| `StateLock` | `mutate`, `withFileLock`, `removeAbandonedLock`, `removeLockDirectoryOwnedBy`; processes, hosts and boots around them |
| `AtomicStore` | what callers of `mutate` are promised: a call takes effect at one instant, in turn, or never |
| `MCStateLock` | instances for TLC |
| `StateLockProofs` | theorems about the lock |
| `StateLockOrderProofs` | theorems about the order of calls, the guaranteed attempt and the refinement |

**State and actions.** A call is one mutation and stands for its token. The lock
directory is `present` and `files`, the owner files in it. `pc` is the file-system call
or question that comes next, one step each: `Try` (rename), `ReadDir`, `ReadOwner`,
`AskBoot`, `AskAlive`, `AskUid`, `AskIdentity`, `Unlink`, `Rmdir`, `Stat`, `ReadState`,
`WriteState`, `Release`, `ReleaseDir`. `rename` succeeds on an absent or an empty
directory, and `rmdir` only on an empty one, as POSIX has it. Time is `clock`: within
the caller's budget, past it but within the floor of the guaranteed attempt, past both;
`Elapse` moves it at any step until the lock is taken and `Late` is what an attempt
compares. What `withFileLock` keeps for its attempts ends with the successful one
(`Acquired`). A question about a process may go unanswered. Processes start, die
anywhere and may be followed by one with their pid; a reboot ends all processes of a
host. `Reject` is the queue timer.

**Runs.** `LockRivals`: three processes of one host with a call each, two of which
have one pid and two of which have one user, so that each of the ways to call a
lock abandoned (nobody has the pid, another user, another start time) decides some
case: `MutualExclusion`, `NothingLost`, `AloneSucceeds`.
`LockHosts`: two hosts whose processes have one pid, one reboot of each, and a
process with two calls: `LiveLockStays`, `InCallOrder`, `RejectedNeverApplied`,
`MutatesAtomically`.
Three contenders are a prober, the owner it looked at and the one that took over
meanwhile. `MaxBoots` is the only bound; the rest of the state is finite. Both may
stop when all calls have ended, so deadlock is not checked.

**Proved** for any hosts, processes, pids, users, calls and boots, from
`LockAssumption`: `LiveLockStays`, `MutualExclusion`, `NothingLost`. The argument:
a pid has one live holder and a live process belongs to the current boot
(`LiveProcesses`), so each of the verdicts of the probe implies that the
owner is dead; death is final, so the verdict stays true until it is acted on
(`Probes`); the unlink names the token it was reached for, and `rmdir` spares a
directory with an owner. So the lock of a live holder stays, hence holders exclude
each other, hence what was read is what the file still holds when it is written
(`Snapshots`). This is what lets `IngressClaims` take a mutation as one step.

`OrderInv` adds the order of a process's queue: what was called before a call that is
at work or done has ended (`Queues`), and the file holds only calls that wrote and were not
told that they failed (`Written`). Hence `InCallOrder` and `RejectedNeverApplied`.
`AloneSucceeds` is about the guaranteed attempt; `undisturbed` says that no other
process lived beside the caller and that all its questions were answered. Then the
directory holds a dead owner's lock at most (`Owners`), and `Undisturbed` says how far
the call has come in one round: an attempt that is refused finds an owner it
can tell is dead, removes what it left, and is granted the next attempt, which finds
the directory empty.

**Refinement.** `MutatesAtomically` is `AtomicStore` with `asked` read as `queue` and
`outcome` read off a call's place: it is in the file (`applied`), it is queued or at work
up to the write (`open`), its queue has it but it can no longer write (`void`), or nobody
made it (`none`). `AtomicStore` has three actions: `Ask` puts a call in its process's order,
`Apply` appends an open call to the file once all that its process asked for before are
decided, `Drop` makes open calls void. So nothing that was written is lost, nothing is written
twice, and what was void, by the timer, for want of the lock or by the death of its process,
stays so. `LockIsAtomic` proves it for every value of the constants. `MakeCall` is an `Ask`. A
write that appends is an `Apply`: what it read is what the file holds (`Snapshots`), it was
not in it (`Written`), and what comes before it in its queue has ended (`Queues`). All the
rest, ends of processes included, leaves file and queues alone and can only turn `open` into
`void`, since every call that has left its beginning is in its queue: a `Drop`, of no call in
most steps.

**Not modelled:** I/O errors of the release, owner records of the format before
boot sessions, reads that take no lock, an operation that writes twice.

## 6. Session runs: `SessionRuns`

| Module | Role |
|---|---|
| `SessionRuns` | `processClaimedWebhook` and `processClaimedEvent` from the claim on, `runSessionTask`, `consumeRuntime`, the stop, `close()` and the exit |
| `MCSessionRuns` | an instance for TLC |
| `SessionRunsProofs` | theorems |

**State.** By event: its durable `claim`, how far this process has taken it (`at`),
why the controller of its run was aborted (`cut`), its liveness thought (`live`, the
barrier the lane waits for) and the `terminalReason` of its run (`reason`).
`consumer` is the loop over the provider's stream; it may outlive its turn, as the
code lets it when the watchdog fires. `active` is `activeRuns`, `lane` the session's
lane, `turn` the locals of the task at its head. `handler` and `pass` are the two
callers of the processing: a webhook's promise and the pass over accepted ingress.
`stop`, `shut`, `awaited` and `exit` are the user's stop and the shutdown.

**Actions.** One await is one step. `Arrive` and `TakeUp` bring an event to the
processing, `Register`, `Mark`, `Enqueue`, `Liveness` take it into the lane, `Begin`,
`GiveUp`, `Start` begin its turn, `Event`, `Deliver`, `Expire` are the provider, the
activity on its way to Linear and the inactivity watchdog, `Settle` and `Finish` end
the turn and write its outcome. `ClaimStop` and `StopRuns` are the two halves of a
stop, the fence and the abort; `Close`, `Drain` and `Exit` the shutdown with its
deadline.

**Run.** `Turns` has two prompts of one session, both older than the stop, one of
which the pass found after a restart, so that a stop and a shutdown meet a run
in each of its phases while another waits behind it; one activity per turn, one
fault. `StopSilences`: after a stop (or `close()`) no turn it covers
begins, and none that was under way is heard again. `OutcomeTold`: the recorded
outcome is true. `DrainedExit`: exit 0 means the work is over. `RunsEnd`: every run is
unregistered and every `close()` ends. `RunsInOrder` and `DispatchedOnce` are the two
refinements.

**Refinement.** This module takes the lane as a sequence and the claim as one value per
event, and both are justified from the other side. `RunsInOrder` is `SerialServer` with
`serving` the head of the lane once it has begun and `waiting` the rest, the server that
`SessionLanes` implements: `Enqueue` is its `Arrive`, `Begin` its `Serve`, `Finish` its
`Leave`, and everything else, each abort and each stage of the shutdown included, a
stutter. `DispatchedOnce` is `AtMostOnceDispatch`, which `IngressClaims` implements for
the store: the marker is `Dispatch`, a start of the turn `Run`, a fence that turns the
event away `Withdraw`, and the outcome `Settle`, whether the end of the run or the handler
of a lost liveness thought records it. The store cannot know whether a process only runs
what it dispatched; here it is shown of the process.

The liveness thought is sent or not by what the code knew at two moments: whether the
run was registered behind another one, before the await of the marker
(`queuedBehindExistingRun`, kept in `live`), and the size of the lane at `Enqueue`.

**Fairness** (`LiveSpec`). The process's own steps go on, and a request that is a lane's
barrier ends. The client sets no timeout for it (`linear/client.ts:601` passes on the
caller's signal, which only a stop or the shutdown aborts); what ends it without them
are the limits that Node's fetch has by default on an answer's headers and body. That
assumption is about the platform, not about the code. Nothing is assumed of the provider
or of the delivery of what it says: the watchdog and the deadline have to do it.

**Proved** for any prompts, activities per turn and faults, from `RunsAssumption`:
`TypeOK`, `OutcomeTold`, `DrainedExit`, `StopSilences`, `RunsInOrder`, `DispatchedOnce`.
`IInv` says that only the head of the lane is in a turn (`HeadOnly`), that a turn's own
flags agree with the cut of its controller (`Cuts`), what the barrier and the consumer
allow (`Turns`), which reason a run can end with (`Reasons`) and which outcome that
leaves in the claim (`Outcomes`), that a stop or a shutdown that has gone by has cut
every run on its way to a turn (`Stopped`), and what `close()` still waits for at each
of its stages (`Drains`). For `StopSilences` these say that a run the stop has passed is
cut, and that a turn which is cut neither starts its consumer nor accepts from it.
`RunsInOrder` follows from `HeadOnly`: what begins is the head, and behind what ends
nothing has begun. `DispatchedOnce` needs one more invariant, `Marked`, which relates
how far an event is to what its claim says: a run can find its outcome recorded already
while it waits in the lane (its liveness thought was lost), but then `Outcomes` says
that it was cut or lost, so that it begins no turn.

**Only model-checked:** `RunsEnd` (liveness).

**Seen on the way.** A queued run whose stop arrives while its opening notices are
posted is recorded as `failed`, not as stopped (`server.ts:1848`); no document says
otherwise, so `OutcomeTold` allows it.

**Not modelled:** texts, which notices a run posts, a second signal (a flag makes it
do nothing, `shutdown.ts:131`), `awaitReadyOrShutdown`.

## 7. Autonomous goals: `AutonomousGoal`

| Module | Role |
|---|---|
| `AutonomousGoal` | the goal's record in the store, the lane's task that drives it, and what meets it from outside |
| `MCAutonomousGoal` | an instance for TLC |
| `AutonomousGoalProofs` | theorems |

**State.** `goal` is the record: its status, the steps since a message was taken up,
its owner, the pending guidance, the notice and the completion's dispatch flag. `w`
is the task at the lane's head: the place it is at and its locals. `event` and
`stop` say how far each message and the user's stop have come, `missed` what was
sent while no process listened, `phase`, `proc` and `fit` describe the process and
whether its configuration is the one the goal began with. `posted` are the
idempotency keys of the present step that Linear has.

**Actions.** An operation of the store is one step; a query of Linear is one step
with the operation that follows it, and its answer is any answer: the label may come
and go, the issue may be moved by others, a request may fail whether or not it took
effect. The task goes through `Open` or `Guide` or `Recover`, `Authorize`, `Grant`,
then the loop `Loop`, `Admit`, `Start`, `TurnEnd`, `Yield`, `Continue`, and out of it
through `Confirm`, `Complete`, `Dispatch`, `Mutate`, `MutateEnd`, `Finish`, `Announce`
or through `Block` with its notice (`Exists`, `Emit`, `Settle`). From outside come
`Send`, `Claim`, `Enqueue`, `SendStop`, `ClaimStop`, `AnswerStop`, `Crash`, `Restart`,
`Preflight`, `Reconciled`, `Recovered`.

**Run.** `Goals` has one prompt before the user's stop and one after it, a limit of two
steps and one restart, with a crash anywhere: `GuidanceFirst`, `StopHolds`,
`CutOffWaits`, `BoundedAutonomy`, `AnnouncedOnce` and `EveryTaskEnds`. Two steps are
the least for a step that is neither the first nor the last; a second restart only
repeats what a notice or a guard has already decided.

**Fairness.** The lane's task goes on: a turn ends by its watchdog at the latest, a
request by the default limits of fetch, as in section 6. Nothing is assumed of users,
restarts or answers.

**Finding.** `README.md:472` says that pending guidance runs before another
continuation or issue completion. A message becomes pending with its claim and stops
being so only when its own turn resumes the goal. If that turn ends before, by
a failed request to Linear or a crash after the dispatch marker, the event is over
and never dispatched again while its id stays pending: every step then answers
`guidance_pending` and every completion is taken back, until the goal is stopped.
`GoalsGuidance` has the behaviour.

**Proved** for any messages, limit of steps and number of restarts, from
`GoalAssumption`: `TypeOK`, `CutOffWaits`, `BoundedAutonomy`, `AnnouncedOnce`,
`GuidanceFirst`, `StopHolds`. The proofs first say of each operation of the store what
it does to the fields of the record, then that every step of the task at the head of
the lane has one form (`HeadStep`: it operates on the record at most once and goes on,
or leaves the lane with its event), so that most of `IInv` is shown once for all of
them (`HeadKeeps`). `Places` carries the argument: what must hold of the
record where the task is, although a claim, a stop or a restart may have changed
it during the await before. `BoundedAutonomy` needs `Counted`: the turns since the last
message are among the steps the record counts, except where a message is
pending and the count begins anew. `StopHolds` needs that the fence ends the goal at
once while the tasks older than the stop are aborted later, by the answer
(`StopReaches`); `GuidanceFirst` that a claimed message is pending or at the head
(`PendingHeld`).

**Only model-checked:** `EveryTaskEnds` (liveness), and the finding.

**Seen on the way.** A goal is left `running` by a query that throws after the
admission; the next process's preflight blocks it, and until then its session makes
no step. That no announcement is doubled rests on the keys that the notices of a
step share.

**Not modelled:** the parsing of the provider's decision, texts.

## 8. Reconciliation: `Reconcile`

| Module | Role |
|---|---|
| `Reconcile` | `reconcileAgentSession` and the store's watermark, stop fence and retention, against webhooks |
| `MCReconcile` | an instance for TLC |
| `ReconcileProofs` | theorems |

**State.** Linear's side is `kind`, `time` and `hook` of each activity; the store's
side is `claim`, `init`, `mark` and `fence`, and of the receipts what retention looks
at: `kept`, when the receipt of a finished claim was last written; `hooked`, whether
that receipt is a webhook's or reconciliation's own; and `twin`, the superseded receipt that
reconciliation gets of its own when a webhook has the claim. `pass` is the reconciliation
under way with its snapshot, `tasks` the claims that recovery is to settle, `crowded` a
history of the claims that were removed by count. The opening prompt may be claimed
under two keys, its own and the one of the created webhook.

**Actions.** `Read` takes the snapshot, `Judge` decides what a first sight means,
`ClaimNewestStop` fences, `Take`, `Dispatch` and `Mark` go through the activities in
order, `Done` ends the pass, `Fail` ends it anywhere. `Arrive` is a webhook, which may
never come, `Recover` the processing of what was claimed, `Create` and `Tick` are Linear and
the clock, `Crash` takes what is volatile.

**Retention.** `prune` is in two places, as it removes by age and by count. By age:
every claim forgets first what is older than the retention (`Expired`, `TwinExpired`).
Since a receipt is stamped again only by a delivery under its own identity
(`WriteClaim`), a pass that reads an activity again keeps its own claim young and not a
webhook's. By count: past `maxEntries` receipts (10 000) the oldest that are over go,
whatever their age (`Prune`). Which of this session's they are depends on the other
sessions, so it may be any that are not younger than one that stays, at any moment.
Session records, with watermark, `initializedAt` and stop fence, have the same cap
(`pruneReconciliationSessions`), and this one is **assumed away**: no more than 10 000
sessions are written after this one while an activity of it is in the look-back. Past
that the session would be judged by first sight again.

**Run.** `Reconcile` has three activities of any kind with any times, an opening that
is not the first in the order of ids, and grace, look-back and retention of one
tick each: equal times, an activity that ages out of the look-back, and a claim
that ages out of the retention all occur within two ticks. `MaxFaults` is one, for a
failing step, a crash or a removal by count. `RunsOnce`, `NothingSkipped`, `OnlyMissed`,
`MissedIsDecided`. The invariants were also checked with two faults, and with a retention
longer than the look-back and a third tick.

What they say of the cap: a removal by count can cost one more run of the prompt that lost its
claim, and no more than one (`RunsOnce` counts runs against `crowded`), it does not make a
pass skip anything, and what was decided and then removed counts as decided
(`NothingSkipped`, by `Decided`). `MissedIsDecided` says that again and again everything
in the look-back is decided, whatever was lost.

**Assumptions.** A webhook comes once, within the retention or not at all, a created one
within the grace as well. A pass takes less time than lies between look-back and
retention, and the cap on session records is not reached, as said above. `LiveSpec` has
passes that go on and a timer between them, hence strong fairness of `Tick`; neither
webhooks nor the recovery are assumed to help.

**Proved** for any activities, grace, times, faults and any look-back that does not
exceed the retention (`config.ts:222` refuses one that does), from
`ReconcileAssumption`: `TypeOK`, `RunsOnce`, `NothingSkipped`, `OnlyMissed`. The
argument is one of time. A claim that is over is no older than what it claims
(`Stamps`), a pass is over before the claims it relied on age out (`Window`), and a
webhook comes before that, too: so whoever may still ask for an activity finds its claim,
unless it was removed by count, and `OthersOnce` counts runs against claims and removals only
until nobody asks any more. A twin's receipt may outlive the claim it was beside and then
answers in its place; `Twins` says that the claim has then been removed by count or has
aged out, so that the answer "duplicate" is true. `Walk` says
that a prompt which the pass no longer has before it is settled, is history, has left
the look-back or is newer than the pass, hence the watermark skips none; `Fences`, that
the stops the pass has read are fenced before it walks; `Owns`, that the claim it is
about to dispatch is its own, which a removal by count cannot take since it only takes
what is over. The opening has its own conjunct (`OpeningOnce`): of its
two keys only one is ever used, since a created webhook no longer comes when its
session may be recovered, and a first sight that takes the opening for history leaves
it so (`Sight`).

`OnlyMissed` is about what a pass dispatches (`PassDispatches`): no prompt that a stop
it has read withdraws, and nothing, stops included, that a first sight took as history.
A webhook or the recovery of accepted ingress may settle an activity while the pass is
at it; whether that run was withdrawn is `IngressClaims`' question.

**Only model-checked:** `MissedIsDecided` (liveness).

**Seen on the way.** `RunsOnce` and `OnlyMissed` have one exception, `AtAdoptedMark`: an
activity with exactly the creation time of the watermark that a first sight adopted is
replayed by the next pass if its id is greater. Past the cap on receipts a claim of this
very look-back can be forgotten, and its prompt run again by a late webhook or the next
pass; the documents name the cap (`README.md:54`, `docs/ingress-cutover.md:135`), not
what it costs. A created webhook that comes after its session was recovered as lost can
run the opening twice. With a retention no longer than the look-back a slow pass may run
again what was just forgotten. A stop that a failing pass claimed is a duplicate to the
next one, so its runs are never aborted (the hazard at `server.ts:754`).

**Not modelled:** the discovery of sessions, paging within a snapshot, the warning
about a stalled session. A webhook's claim and dispatch are one step; `IngressClaims`
has what may lie between.

## 9. OAuth tokens: `OAuthTokens`

| Module | Role |
|---|---|
| `OAuthTokens` | the token manager, the 401 path of the client, the authorization callback, and Linear's rotation |
| `MCOAuthTokens` | an instance for TLC |
| `OAuthTokensProofs` | theorems |

**State and actions.** Pairs are numbered in the order of issue. `memory` is the
manager's pair, `file` the stored one, `refresh` and `answer` the shared promise and
what it got, `grant` and `granted` the authorization, `calls` the callers with the token
each used. Linear's part (`issued`, `expired`, `sent`, `revoked`) is modelled from how
the code uses it: a refresh token is good once. A call is `Post`, then `Served`, or on
a 401 `UseReplaced`, `JoinRefresh`, `BeginRefresh` or `NoRefreshToken`, and `RefusedTwice`
if the second answer is a 401 as well. A rotation is `Presented`, `Answered`, `Stored`,
and may fail at each of the three (`RequestFails`, `RefreshRefused`, `AnswerLost`,
`WriteFails`). A crash with a request out may still reach Linear.

**Run.** `Tokens`: three callers (one to refresh, one to join, one whose token is
replaced while its 401 is on the way), five pairs, three faults. `RotatesOnce`: a
refresh token is spent once, and only when its access token was refused.
`AccessRenews`: a call ends without access only if its pair's replacement was lost or
revoked. `Expire` assumes that an access token outlives the calls that hold it
together with a rotation; it lives for a day.

**Proved** for any callers, pairs and faults, from `TokensAssumption`: `TypeOK`,
`RotatesOnce`, `AccessRenews`, with `IInv` of the module. The file is never ahead of the
memory, and a refresh token that was presented is behind the file, or the present
rotation's, or lost, or revoked (`Spent`); what a rotation has in hand at each of its
stages (`Rotating`) makes the presented one always the memory's; and a call is only
ever handed a token that is not refused (`Handing`).

**Seen on the way.** After a lost rotation the store still has a refresh token, so no
authorization URL is offered at the next start although the pair is dead; the store must
be deleted. The refresh request itself has no timeout.

**Not modelled:** the ten minutes an authorization URL is good for (an authorization may
fail), two processes with one store.

## 10. What lies outside the proofs

The liveness properties (`AckedIsDecided`, `EveryTurnComes`, `RunsEnd`,
`EveryTaskEnds`, `MissedIsDecided`) are checked by TLC only: what holds under fairness, and
ENABLED, are out of the provers' reach. The two findings are counterexamples and
need no proof. Everything else that a run checks is a theorem too.

The modules that theorems are about declare no RECURSIVE operator, and no proof is by
induction over data. Where one would be expected, the invariant carries the fact from
state to state instead: that the begun tasks of a lane are the first of its history is
`BegunFirst`, an invariant, although `InOrder` implies it. Every theorem rests on the
named assumption of its module and nothing else; TLC evaluates each assumption in the
runs. Each invariant (`IInv`, `OrderInv`, `StopsFenced`, `BegunFirst`, `Marked`) was
checked on the instances before it was proved, that of `Reconcile` also with two faults
and with a retention longer than the look-back; the type invariants of all modules but
`IngressClaims`, theorems all, are not repeated by a run. Deadlock is checked nowhere:
every system here may stop, when its calls have ended, its process has exited or a bound
is reached.

**Not modelled at all:** recovery envelopes and webhook signatures (cryptography and byte
formats), configuration (parsing), the session store (its write chain is the mutation
queue's pattern again, and two processes on one map are no documented set-up), how the
runtime adapters read SDK messages, the repair of states of an older format, and the
deployment scripts.

To repeat: `tlc -config <run>.cfg <module>` for a run of `PROJECT.json`, and
`tlapm <Module>Proofs.tla` for the proofs.
