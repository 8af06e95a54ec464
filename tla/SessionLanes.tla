---------------------------- MODULE SessionLanes ----------------------------
(***************************************************************************)
(* The serial lanes of queue.ts, one per session with work, and the drain  *)
(* that shutdown waits for.                                                *)
(*                                                                         *)
(* A lane is an object that outlives its entry in the map: a task and its  *)
(* clean-up keep the lane they were put in.  Here it bears the name of the *)
(* task it was made for.  What the event loop does between two microtasks  *)
(* is left open: a promise that has settled and the reaction that its      *)
(* settling queues are two steps, and anything may happen in between.      *)
(***************************************************************************)
EXTENDS Integers, FiniteSets, SequencesExt

CONSTANTS
    Session,    \* Linear sessions
    Task,       \* turns
    Drain,      \* calls of drain()
    None,
    SessionOf   \* the session a task is enqueued for

ASSUME LanesAssumption ==
    /\ IsFiniteSet(Task)
    /\ SessionOf \in [Task -> Session]
    /\ None \notin Task

VARIABLES
    lanes,      \* the map: by session, its lane or None
    tail,       \* by lane, the task whose clean-up its tail promise follows
    size,       \* by lane, its size
    laneOf,     \* by task, the lane it was put in
    after,      \* by task, the task whose clean-up it waits for, or None
    status,     \* by task, what its promise has come to
    drains,     \* by drain, the tasks whose lane tails it waits for
    pc,         \* by drain, how far it is
    order,      \* history: by session, its tasks in the order they came
    owed        \* history: by drain, the tasks at hand when it was called

vars == <<lanes, tail, size, laneOf, after, status, drains, pc, order, owed>>

Present == {t \in Task : status[t] # "new"}
AtHand == {t \in Task : status[t] \in {"queued", "running", "fulfilled", "rejected"}}
Begun == {t \in Task : status[t] \notin {"new", "queued"}}
Over == {t \in Task : status[t] = "done"}
Running == {t \in Task : status[t] = "running"}

TypeOK ==
    /\ lanes \in [Session -> Task \cup {None}]
    /\ tail \in [Task -> Task \cup {None}]
    /\ size \in [Task -> Nat]
    /\ laneOf \in [Task -> Task \cup {None}]
    /\ after \in [Task -> Task \cup {None}]
    /\ status \in [Task -> {"new", "queued", "running",
                            "fulfilled", "rejected", "done"}]
    /\ drains \in [Drain -> SUBSET Task]
    /\ pc \in [Drain -> {"idle", "waiting", "returned"}]
    /\ order \in [Session -> Seq(Task)]
    /\ owed \in [Drain -> SUBSET Task]

Init ==
    /\ lanes = [s \in Session |-> None]
    /\ tail = [t \in Task |-> None]
    /\ size = [t \in Task |-> 0]
    /\ laneOf = [t \in Task |-> None]
    /\ after = [t \in Task |-> None]
    /\ status = [t \in Task |-> "new"]
    /\ drains = [d \in Drain |-> {}]
    /\ pc = [d \in Drain |-> "idle"]
    /\ order = [s \in Session |-> << >>]
    /\ owed = [d \in Drain |-> {}]

----------------------------------------------------------------------------

LaneOfSession(t) == IF lanes[SessionOf[t]] = None THEN t ELSE lanes[SessionOf[t]]

\* Mutant of Join: the tail is not moved on.
JoinKeepingTail(l, t) ==
    /\ size' = [size EXCEPT ![l] = @ + 1]
    /\ tail' = [tail EXCEPT ![l] = IF l = t THEN t ELSE @]

Join(l, t) ==
    /\ size' = [size EXCEPT ![l] = @ + 1]
    /\ tail' = [tail EXCEPT ![l] = t]

\* The task becomes the last of its session's lane.  The tail of a lane that
\* is made for it is a resolved promise, which is no task's: None.
Enqueue(t) ==
    LET s == SessionOf[t]
        l == LaneOfSession(t)
    IN  /\ status[t] = "new"
        /\ lanes' = [lanes EXCEPT ![s] = l]
        /\ Join(l, t)
        /\ after' = [after EXCEPT ![t] = tail[l]]
        /\ laneOf' = [laneOf EXCEPT ![t] = l]
        /\ status' = [status EXCEPT ![t] = "queued"]
        /\ order' = [order EXCEPT ![s] = Append(@, t)]
        /\ UNCHANGED <<drains, pc, owed>>

\* The tail it follows has resolved, however its task ended.
Begin(t) ==
    /\ status[t] = "queued"
    /\ after[t] = None \/ after[t] \in Over
    /\ status' = [status EXCEPT ![t] = "running"]
    /\ UNCHANGED <<lanes, tail, size, laneOf, after, drains, pc, order, owed>>

Settle(t) ==
    /\ status[t] = "running"
    /\ \E result \in {"fulfilled", "rejected"} :
          status' = [status EXCEPT ![t] = result]
    /\ UNCHANGED <<lanes, tail, size, laneOf, after, drains, pc, order, owed>>

\* Mutant of Settled: a task that throws is not cleaned up after.
SettledWell(t) == status[t] = "fulfilled"

Settled(t) == status[t] \in {"fulfilled", "rejected"}

\* Mutants of Leave: the entry goes whenever a task of its lane is over; the
\* size is not brought down.
LeaveDroppingLane(s, l) ==
    /\ size' = [size EXCEPT ![l] = @ - 1]
    /\ lanes' = [lanes EXCEPT ![s] = None]

LeaveUncounted(s, l) ==
    /\ UNCHANGED size
    /\ lanes' = [lanes EXCEPT ![s] = IF size[l] = 1 THEN None ELSE @]

\* finish: the entry of a lane that has become empty goes, if it is this lane.
Leave(s, l) ==
    /\ size' = [size EXCEPT ![l] = @ - 1]
    /\ lanes' = [lanes EXCEPT ![s] = IF size[l] = 1 /\ @ = l THEN None ELSE @]

\* The clean-up of a task, in the lane it was put in; that lane's tail resolves.
Finish(t) ==
    /\ Settled(t)
    /\ Leave(SessionOf[t], laneOf[t])
    /\ status' = [status EXCEPT ![t] = "done"]
    /\ UNCHANGED <<tail, laneOf, after, drains, pc, order, owed>>

\* Mutant of CallDrain: it waits for the tasks that run, not for the tails.
CallDrainForRunning(d) ==
    /\ pc[d] = "idle"
    /\ pc' = [pc EXCEPT ![d] = "waiting"]
    /\ drains' = [drains EXCEPT ![d] = Running]
    /\ owed' = [owed EXCEPT ![d] = AtHand]
    /\ UNCHANGED <<lanes, tail, size, laneOf, after, status, order>>

\* drain collects the tails of the lanes in the map.
CallDrain(d) ==
    /\ pc[d] = "idle"
    /\ pc' = [pc EXCEPT ![d] = "waiting"]
    /\ drains' = [drains EXCEPT ![d] =
          {tail[lanes[s]] : s \in {r \in Session : lanes[r] # None}}]
    /\ owed' = [owed EXCEPT ![d] = AtHand]
    /\ UNCHANGED <<lanes, tail, size, laneOf, after, status, order>>

DrainReturns(d) ==
    /\ pc[d] = "waiting"
    /\ drains[d] \subseteq Over
    /\ pc' = [pc EXCEPT ![d] = "returned"]
    /\ UNCHANGED <<lanes, tail, size, laneOf, after, status, drains, order, owed>>

Next ==
    \/ \E t \in Task : Enqueue(t) \/ Begin(t) \/ Settle(t) \/ Finish(t)
    \/ \E d \in Drain : CallDrain(d) \/ DrainReturns(d)

Spec == Init /\ [][Next]_vars

\* The event loop runs every reaction, and every turn ends: shutdown and the
\* inactivity limit of the runtimes abort the ones that would not.
Fairness ==
    /\ \A t \in Task : WF_vars(Begin(t)) /\ WF_vars(Settle(t)) /\ WF_vars(Finish(t))
    /\ \A d \in Drain : WF_vars(DrainReturns(d))

LiveSpec == Spec /\ Fairness

----------------------------------------------------------------------------
(* Properties. *)

\* A turn begins only when every earlier turn of its session is over and
\* cleaned up: two turns of one conversation never run at the same time and
\* never in another order than they came, through any number of lanes made,
\* emptied and dropped.
InOrder ==
    \A s \in Session : \A i, j \in DOMAIN order[s] :
        i < j /\ order[s][j] \in Begun => order[s][i] \in Over

\* size() counts what waits or runs in the session, whichever lane objects
\* there have been; the server decides by it whether to tell the user that a
\* follow-up is queued.
SizeIsExact ==
    \A s \in Session :
        (IF lanes[s] = None THEN 0 ELSE size[lanes[s]])
            = Cardinality({t \in AtHand : SessionOf[t] = s})

\* When drain returns, everything that waited or ran when it was called is
\* over, so shutdown leaves no turn of an older lane running.
DrainCovers == \A d \in Drain : pc[d] = "returned" => owed[d] \subseteq Over

\* Whatever the tasks before it came to, every task is run, and every drain
\* returns: a turn that throws does not stop its lane.
EveryTurnComes ==
    /\ \A t \in Task : status[t] = "queued" ~> status[t] = "done"
    /\ \A d \in Drain : pc[d] = "waiting" ~> pc[d] = "returned"

----------------------------------------------------------------------------
(* The server that the lanes of a session implement. *)

begun == [s \in Session |-> Cardinality({i \in DOMAIN order[s] : order[s][i] \in Begun})]

waiting == [s \in Session |-> SubSeq(order[s], begun[s] + 1, Len(order[s]))]

serving == [s \in Session |->
    IF \E t \in Running : SessionOf[t] = s
    THEN CHOOSE t \in Running : SessionOf[t] = s ELSE None]

Server == INSTANCE SerialServer WITH waiting <- waiting, serving <- serving

\* Each session sees its tasks served one at a time in the order they came.
ServesInOrder == Server!Spec

----------------------------------------------------------------------------
(* The inductive invariant. *)

InLane(l) == {t \in AtHand : laneOf[t] = l}

Histories ==
    /\ \A s \in Session : \A i \in DOMAIN order[s] :
          /\ order[s][i] \in Present
          /\ SessionOf[order[s][i]] = s
    /\ \A s \in Session : \A i, j \in DOMAIN order[s] :
          order[s][i] = order[s][j] => i = j
    /\ \A t \in Present : \E i \in DOMAIN order[SessionOf[t]] :
          order[SessionOf[t]][i] = t

Counts == \A l \in Task : size[l] = Cardinality(InLane(l))

\* A lane not made yet is empty; a lane in the map holds its session's work,
\* and its tail is the last task that came.
Lanes ==
    /\ \A t \in Task \ Present : tail[t] = None /\ laneOf[t] = None
    /\ \A t \in Present :
          laneOf[t] \in Present /\ SessionOf[laneOf[t]] = SessionOf[t]
    /\ \A t \in AtHand : lanes[SessionOf[t]] = laneOf[t]
    /\ \A s \in Session : lanes[s] # None =>
          /\ lanes[s] \in Present /\ SessionOf[lanes[s]] = s
          /\ order[s] # << >>
          /\ tail[lanes[s]] = order[s][Len(order[s])]

\* A task follows the one that came before it, or none when all that came
\* before it were over.
Chained ==
    \A s \in Session : \A i \in DOMAIN order[s] :
        LET t == order[s][i]
        IN  \/ i > 1 /\ after[t] = order[s][i - 1]
            \/ /\ after[t] = None
               /\ \A j \in DOMAIN order[s] : j < i => order[s][j] \in Over

\* What a drain was called for comes no later than a tail it waits for.
DrainsCover ==
    \A d \in Drain : \A t \in owed[d] :
        \E u \in drains[d], s \in Session : \E i, j \in DOMAIN order[s] :
            i <= j /\ order[s][i] = t /\ order[s][j] = u

IInv ==
    /\ TypeOK
    /\ Histories
    /\ Counts
    /\ Lanes
    /\ Chained
    /\ InOrder
    /\ DrainsCover
    /\ DrainCovers

\* The tasks of a session that have begun are the first of those that came.
BegunFirst ==
    \A s \in Session : \E k \in 0 .. Len(order[s]) :
        \A i \in DOMAIN order[s] : order[s][i] \in Begun <=> i <= k
=============================================================================
