----------------------------- MODULE SessionRuns -----------------------------
(***************************************************************************)
(* The runs of one session in one process: from the claimed event through  *)
(* the session's lane and the provider's turn to the recorded outcome,     *)
(* against the user's stop, the inactivity watchdog and the shutdown.      *)
(*                                                                         *)
(* One await of the code is one step.  A request to Linear and a turn of   *)
(* the provider take as long as they like and end in any way; what the     *)
(* provider's output says is left out.                                     *)
(***************************************************************************)
EXTENDS Integers, Sequences, SequencesExt

CONSTANTS
    Prompt,      \* events of the session, other than its stop
    Older,       \* the ones that are at or before the stop
    Found,       \* the ones that an earlier process accepted and left behind
    None,
    MaxEvents,   \* bound: activities of one turn
    MaxFaults    \* bound: failures of the store and of Linear

ASSUME RunsAssumption ==
    /\ Older \subseteq Prompt
    /\ Found \subseteq Prompt
    /\ None \notin Prompt
    /\ None \notin {"stop", "inactive", "close", "completed", "failed", "stopped",
                    "clean", "late"}
    /\ MaxEvents \in Nat
    /\ MaxFaults \in Nat

VARIABLES
    claim,     \* the durable claim of each event
    at,        \* how far this process has taken the event
    cut,       \* why the controller of its run was aborted, if it was
    live,      \* its liveness thought, the lane's barrier; before the lane, whether
               \* it was registered "behind" another run (queuedBehindExistingRun)
    reason,    \* terminalReason of its run
    consumer,  \* consumeRuntime of its turn; it may outlive the turn
    ended,     \* history: the provider said that the turn is done
    handler,   \* events that processClaimedWebhook is busy with
    pass,      \* the event that the accepted-ingress pass is busy with
    active,    \* activeRuns: events whose run is registered
    lane,      \* the session's lane
    turn,      \* locals of runSessionTask for the event at the lane's head
    stop,      \* the user's stop
    shut,      \* how far close() has come
    awaited,   \* what close() awaits at the moment
    exit,      \* how the process has exited
    faults     \* failures so far

event == <<claim, at, cut, live, reason>>
provider == <<consumer, ended, turn>>
entry == <<handler, pass, active, lane>>
shutdown == <<shut, awaited, exit>>
vars == <<event, provider, entry, stop, shutdown, faults>>

NoTurn == [accept |-> FALSE, inactive |-> FALSE, race |-> "open", left |-> 0]

TypeOK ==
    /\ claim \in [Prompt -> {"unsent", "received", "claimed", "dispatched",
                             "superseded", "completed", "failed"}]
    /\ at \in [Prompt -> {"out", "registered", "marked", "queued", "begun",
                          "turn", "final", "over"}]
    /\ cut \in [Prompt -> {None, "stop", "inactive", "close"}]
    /\ live \in [Prompt -> {"none", "behind", "pending", "sent", "lost"}]
    /\ reason \in [Prompt -> {None, "completed", "failed", "inactive", "stopped"}]
    /\ consumer \in [Prompt -> {"none", "waiting", "delivering", "ended"}]
    /\ ended \in [Prompt -> BOOLEAN]
    /\ handler \subseteq Prompt
    /\ pass \in Prompt \cup {None}
    /\ active = {p \in Prompt : at[p] \notin {"out", "over"}}
    /\ IsInjective(lane)
    /\ ToSet(lane) = {p \in Prompt : at[p] \in {"queued", "begun", "turn", "final"}}
    /\ turn \in [accept : BOOLEAN, inactive : BOOLEAN, left : 0 .. MaxEvents,
                 race : {"open", "runtime", "error", "watchdog"}]
    /\ stop \in {"unsent", "fenced", "aborted", "answered"}
    /\ shut \in {"up", "handlers", "pass", "lane", "closed"}
    /\ awaited \subseteq Prompt
    /\ exit \in {None, "clean", "late"}
    /\ faults \in 0 .. MaxFaults

Init ==
    /\ claim = [p \in Prompt |-> IF p \in Found THEN "received" ELSE "unsent"]
    /\ at = [p \in Prompt |-> "out"]
    /\ cut = [p \in Prompt |-> None]
    /\ live = [p \in Prompt |-> "none"]
    /\ reason = [p \in Prompt |-> None]
    /\ consumer = [p \in Prompt |-> "none"]
    /\ ended = [p \in Prompt |-> FALSE]
    /\ handler = {} /\ pass = None /\ active = {} /\ lane = << >>
    /\ turn = NoTurn
    /\ stop = "unsent"
    /\ shut = "up" /\ awaited = {} /\ exit = None
    /\ faults = 0

Up == exit = None
Closing == shut # "up"
Fault == faults < MaxFaults /\ faults' = faults + 1
NoFault == faults' = faults

\* Mutant of Recorded: the outcome is recorded also while the process closes.
RecordedAlways(p, result) ==
    IF claim[p] # "dispatched" THEN claim ELSE [claim EXCEPT ![p] = result]

\* Mutant of Recorded: a run that the shutdown cut off gives its claim back.
RecordedBack(p, result) ==
    IF claim[p] # "dispatched" THEN claim
    ELSE [claim EXCEPT ![p] = IF Closing THEN "received" ELSE result]

\* A terminal state is written to a claim of one's own that is dispatched, and
\* only while the process is not closing.
Recorded(p, result) ==
    IF Closing \/ claim[p] # "dispatched" THEN claim
    ELSE [claim EXCEPT ![p] = result]

\* unregisterRun, for an event that leaves before it has a place in the lane.
Leaves(p, where) ==
    /\ at' = [at EXCEPT ![p] = where]
    /\ live' = [live EXCEPT ![p] = "none"]
    /\ active' = active \ {p}
    /\ handler' = handler \ {p}
    /\ pass' = IF pass = p THEN None ELSE pass

\* controller.abort for a set of runs; the turn's listener takes note at once.
Abort(S, why) ==
    /\ cut' = [p \in Prompt |-> IF p \in S /\ cut[p] = None THEN why ELSE cut[p]]
    /\ turn' = IF \E p \in S : at[p] = "turn" /\ cut[p] = None
               THEN [turn EXCEPT !.accept = FALSE,
                                 !.inactive = why = "inactive",
                                 !.race = IF @ = "open" THEN "watchdog" ELSE @]
               ELSE turn
----------------------------------------------------------------------------
(* From the claim to the lane.                                             *)

\* A delivery is claimed and acknowledged, also while the process closes.
Arrive(p) ==
    /\ Up /\ claim[p] = "unsent"
    /\ claim' = [claim EXCEPT ![p] = "claimed"]
    /\ UNCHANGED <<at, cut, live, reason, provider, entry, stop, shutdown, faults>>

\* The pass claims the next recoverable event, unless the process is closing.
TakeUp(p) ==
    /\ Up /\ ~Closing /\ pass = None /\ claim[p] = "received"
    /\ claim' = [claim EXCEPT ![p] = "claimed"]
    /\ pass' = p
    /\ UNCHANGED <<at, cut, live, reason, provider, handler, active, lane, stop,
                   shutdown, faults>>

\* A webhook's post-response work looks at closing; the pass has looked before
\* it claimed.  Whether there is another run is noted here, before the marker.
Register(p) ==
    /\ Up /\ claim[p] = "claimed" /\ at[p] = "out"
    /\ pass = p \/ ~Closing
    /\ at' = [at EXCEPT ![p] = "registered"]
    /\ active' = active \cup {p}
    /\ live' = [live EXCEPT ![p] = IF active = {} THEN "none" ELSE "behind"]
    /\ handler' = handler \cup {p}
    /\ UNCHANGED <<claim, cut, reason, provider, pass, lane, stop, shutdown,
                   faults>>

\* The dispatch marker is written; or the stop's fence turns the event away; or
\* the store fails, the claim is released and the pass retries it.
Mark(p) ==
    /\ Up /\ at[p] = "registered"
    /\ \/ /\ stop = "unsent" \/ p \notin Older
          /\ claim' = [claim EXCEPT ![p] = "dispatched"]
          /\ at' = [at EXCEPT ![p] = "marked"]
          /\ NoFault /\ UNCHANGED <<live, handler, pass, active>>
       \/ /\ stop # "unsent" /\ p \in Older
          /\ claim' = [claim EXCEPT ![p] = "superseded"]
          /\ NoFault /\ Leaves(p, "over")
       \/ /\ claim' = [claim EXCEPT ![p] = "received"]
          /\ Fault /\ Leaves(p, "out")
    /\ UNCHANGED <<cut, reason, provider, lane, stop, shutdown>>

\* With the marker written, a run that was aborted ends here; any other takes its
\* place in the lane in the same step that starts its liveness thought.  The
\* opening always has one; a follow-up that finds the lane busy, or was registered
\* behind another run, has none and is announced as queued.
Enqueue(p) ==
    /\ Up /\ at[p] = "marked"
    /\ \/ /\ cut[p] # None
          /\ claim' = Recorded(p, "completed")
          /\ Leaves(p, "over")
          /\ UNCHANGED lane
       \/ /\ cut[p] = None
          /\ at' = [at EXCEPT ![p] = "queued"]
          /\ lane' = Append(lane, p)
          /\ \/ /\ live' = [live EXCEPT ![p] = "pending"]
                /\ UNCHANGED <<handler, pass>>
             \/ /\ lane # << >> \/ live[p] = "behind"
                /\ live' = [live EXCEPT ![p] = "none"]
                /\ handler' = handler \ {p}
                /\ pass' = IF pass = p THEN None ELSE pass
          /\ UNCHANGED <<claim, active>>
    /\ UNCHANGED <<cut, reason, provider, stop, shutdown, faults>>

\* The liveness thought is answered; an abort or the shutdown cancels it.  The
\* handler, which awaits it as the lane does, records a failure of its own.
Liveness(p) ==
    /\ Up /\ live[p] = "pending"
    /\ \/ /\ cut[p] # None \/ ~Closing
          /\ live' = [live EXCEPT ![p] = "sent"]
          /\ NoFault /\ UNCHANGED claim
       \/ /\ live' = [live EXCEPT ![p] = "lost"]
          /\ IF cut[p] # None \/ Closing THEN NoFault ELSE Fault
          /\ claim' = Recorded(p, IF cut[p] # None THEN "completed" ELSE "failed")
    /\ handler' = handler \ {p}
    /\ pass' = IF pass = p THEN None ELSE pass
    /\ UNCHANGED <<at, cut, reason, provider, active, lane, stop, shutdown>>

----------------------------------------------------------------------------
(* The lane task of the event at the head.                                 *)

Ends(p, why) ==
    /\ at' = [at EXCEPT ![p] = "final"]
    /\ reason' = [reason EXCEPT ![p] = why]

\* Mutant of AtHead: a task does not wait for the one before it.
AnyPlace(p) == p \in ToSet(lane)

AtHead(p) == lane # << >> /\ Head(lane) = p

Begin(p) ==
    /\ Up /\ at[p] = "queued" /\ AtHead(p) /\ live[p] # "pending"
    /\ \/ cut[p] # None /\ Ends(p, "stopped")
       \/ cut[p] = None /\ live[p] = "lost" /\ Ends(p, "failed")
       \/ /\ cut[p] = None /\ live[p] # "lost"
          /\ at' = [at EXCEPT ![p] = "begun"] /\ UNCHANGED reason
    /\ UNCHANGED <<claim, cut, live, provider, entry, stop, shutdown, faults>>

\* Notices and reads before the turn.  An abort that the run notices only after
\* them leaves the reason at its first value, "failed".  A follow-up's notice
\* fails once the process is closing.
GiveUp(p) ==
    /\ Up /\ at[p] = "begun"
    /\ \/ cut[p] # None /\ NoFault /\ \E why \in {"stopped", "failed"} : Ends(p, why)
       \/ cut[p] = None /\ Closing /\ NoFault /\ Ends(p, "failed")
       \/ cut[p] = None /\ ~Closing /\ Fault /\ Ends(p, "failed")
    /\ UNCHANGED <<claim, cut, live, provider, entry, stop, shutdown>>

\* The turn starts also if the abort came after the last look at the signal.
Start(p) ==
    /\ Up /\ at[p] = "begun"
    /\ cut[p] # None \/ ~Closing
    /\ at' = [at EXCEPT ![p] = "turn"]
    /\ consumer' = [consumer EXCEPT ![p] = "waiting"]
    /\ turn' = [accept |-> cut[p] = None, inactive |-> FALSE, left |-> MaxEvents,
                race |-> IF cut[p] = None THEN "open" ELSE "watchdog"]
    /\ UNCHANGED <<claim, cut, live, reason, ended, entry, stop, shutdown, faults>>

Accepts(p) == at[p] = "turn" /\ turn.accept

\* The consumer is the first to settle the race of its own turn.
Race(p, outcome) ==
    turn' = IF at[p] = "turn" /\ turn.race = "open"
            THEN [turn EXCEPT !.race = outcome] ELSE turn

\* An event of the provider, or its end.  What comes after an abort is dropped.
Event(p) ==
    /\ Up /\ consumer[p] = "waiting"
    /\ \/ /\ Accepts(p) /\ turn.left > 0
          /\ consumer' = [consumer EXCEPT ![p] = "delivering"]
          /\ turn' = [turn EXCEPT !.left = @ - 1]
          /\ UNCHANGED ended
       \/ /\ consumer' = [consumer EXCEPT ![p] = "ended"]
          /\ ended' = [ended EXCEPT ![p] = Accepts(p)]
          /\ Race(p, "runtime")
       \/ /\ consumer' = [consumer EXCEPT ![p] = "ended"]
          /\ Race(p, "error") /\ UNCHANGED ended
    /\ UNCHANGED <<event, entry, stop, shutdown, faults>>

\* Linear has, or the session store has, what the event said; or it fails.
Deliver(p) ==
    /\ Up /\ consumer[p] = "delivering"
    /\ \/ /\ consumer' = [consumer EXCEPT ![p] = "waiting"]
          /\ NoFault /\ UNCHANGED turn
       \/ /\ consumer' = [consumer EXCEPT ![p] = "ended"]
          /\ Race(p, "error")
          /\ IF cut[p] # None \/ Closing THEN NoFault ELSE Fault
    /\ UNCHANGED <<event, ended, entry, stop, shutdown>>

\* Mutant of Armed: the timer is set again after the delivery, not before it.
ArmedBetween(p) == consumer[p] = "waiting"

\* armWatchdog runs at the start and before each delivery.
Armed(p) == consumer[p] \in {"waiting", "delivering"}

Expire(p) ==
    /\ Up /\ at[p] = "turn" /\ turn.race = "open" /\ Armed(p)
    /\ Abort({p}, "inactive")
    /\ UNCHANGED <<claim, at, live, reason, consumer, ended, entry, stop, shutdown,
                   faults>>

Outcome(p) ==
    CASE turn.inactive -> "inactive"
      [] ~turn.inactive /\ cut[p] # None -> "stopped"
      [] ~turn.inactive /\ cut[p] = None ->
           IF turn.race = "error" THEN "failed" ELSE "completed"

Settle(p) ==
    /\ Up /\ at[p] = "turn" /\ turn.race # "open"
    /\ Ends(p, Outcome(p))
    /\ turn' = NoTurn
    /\ UNCHANGED <<claim, cut, live, consumer, ended, entry, stop, shutdown, faults>>

\* The outcome is recorded, or the store fails; then the run is unregistered.
Finish(p) ==
    /\ Up /\ at[p] = "final"
    /\ \/ /\ NoFault
          /\ claim' = Recorded(p, IF reason[p] \in {"failed", "inactive"}
                                  THEN "failed" ELSE "completed")
       \/ ~Closing /\ Fault /\ UNCHANGED claim
    /\ at' = [at EXCEPT ![p] = "over"]
    /\ active' = active \ {p}
    /\ lane' = Tail(lane)
    /\ UNCHANGED <<cut, live, reason, provider, handler, pass, stop, shutdown>>

----------------------------------------------------------------------------
(* The stop, and the shutdown.                                             *)

\* The stop's claim and its fence are one write of the store.
ClaimStop ==
    /\ Up /\ stop = "unsent"
    /\ stop' = "fenced"
    /\ UNCHANGED <<event, provider, entry, shutdown, faults>>

\* Mutant of Reached: only the run whose turn is on is aborted.
ReachedRunning == {p \in active \cap Older : at[p] = "turn"}

Reached == active \cap Older

\* Once before the delivery is acknowledged, once more when it is processed.
StopRuns ==
    /\ Up
    /\ \/ stop = "fenced" /\ stop' = "aborted"
       \/ stop = "aborted" /\ ~Closing /\ stop' = "answered"
    /\ Abort(Reached, "stop")
    /\ UNCHANGED <<claim, at, live, reason, consumer, ended, entry, shutdown, faults>>

\* close(): nothing may begin, and what is registered is aborted.
Close ==
    /\ Up /\ shut = "up"
    /\ shut' = "handlers"
    /\ awaited' = handler \ {pass}
    /\ Abort(active, "close")
    /\ UNCHANGED <<claim, at, live, reason, consumer, ended, entry, stop, exit,
                   faults>>

\* Mutant of PassOver: close() does not await recoveryInFlight.
PassOverAlways == TRUE

PassOver == pass = None

\* close() awaits the handlers that were there, the pass, then the lanes' tails
\* that are there.
Drain ==
    /\ Up
    /\ \/ /\ shut = "handlers" /\ awaited \cap handler = {}
          /\ shut' = "pass" /\ awaited' = {}
       \/ /\ shut = "pass" /\ PassOver
          /\ shut' = "lane" /\ awaited' = ToSet(lane)
       \/ /\ shut = "lane" /\ awaited \cap ToSet(lane) = {}
          /\ shut' = "closed" /\ awaited' = {}
    /\ UNCHANGED <<event, provider, entry, stop, exit, faults>>

\* The signal's handler exits with 0 after the close, or with 1 at the deadline.
Exit ==
    /\ Up /\ Closing
    /\ exit' = IF shut = "closed" THEN "clean" ELSE "late"
    /\ UNCHANGED <<event, provider, entry, stop, shut, awaited, faults>>

Lane(p) ==
    \/ Mark(p) \/ Enqueue(p) \/ Liveness(p)
    \/ Begin(p) \/ GiveUp(p) \/ Start(p) \/ Expire(p) \/ Settle(p) \/ Finish(p)

Next ==
    \/ \E p \in Prompt : \/ Arrive(p) \/ TakeUp(p) \/ Register(p)
                         \/ Lane(p) \/ Event(p) \/ Deliver(p)
    \/ ClaimStop \/ StopRuns
    \/ Close \/ Drain \/ Exit

Spec == Init /\ [][Next]_vars

\* What the process does itself goes on; a request that is a run's barrier ends
\* one way or the other, by fetch's own limits if by nothing else, since the client
\* sets none.  Nothing is assumed of the provider, nor of the delivery of what it
\* says.
LiveSpec ==
    /\ Spec
    /\ WF_vars(Drain)
    /\ \A p \in Prompt : WF_vars(Lane(p)) /\ WF_vars(pass = p /\ Register(p))
----------------------------------------------------------------------------
(* Properties.                                                             *)

\* After its stop has aborted the runs no turn at or before it begins, goes on,
\* or is heard, wherever between claim and turn the abort met it; after close()
\* that is so for every turn, also of an event that the pass registers later.
Silent(p) == Closing \/ (stop \in {"aborted", "answered"} /\ p \in Older)

StopSilences ==
    [][\A p \in Prompt : Silent(p) =>
         /\ at[p] # "turn" /\ at'[p] = "turn" => ~turn'.accept
         /\ consumer[p] = "waiting" => consumer'[p] # "delivering"]_vars

\* What a claim says in the end: "completed" only if the provider was done or
\* the user had stopped it, "failed" only if the run did not come to its end.  A
\* run that the shutdown or the watchdog cut off never counts as completed.
OutcomeTold ==
    \A p \in Prompt :
        /\ claim[p] = "completed" =>
             \/ ended[p] /\ cut[p] # "inactive"
             \/ cut[p] = "stop"
        /\ claim[p] = "failed" => ~(ended[p] /\ reason[p] = "completed")
        /\ claim[p] = "failed" /\ cut[p] = "close" => live[p] = "lost"

\* An exit with 0 means that the work was over, not only told to stop.
DrainedExit == exit = "clean" => handler = {} /\ lane = << >> /\ pass = None

\* Every registered run is unregistered and every close comes to its end, with
\* a provider that never speaks again and a delivery that hangs.
RunsEnd ==
    /\ \A p \in Prompt : p \in active ~> p \notin active \/ ~Up
    /\ Closing ~> shut = "closed" \/ ~Up
----------------------------------------------------------------------------
(* What the lane and the ingress promise, seen from the runs of a session.  *)

Begun == lane # << >> /\ at[Head(lane)] # "queued"
waiting == [s \in {"session"} |-> IF Begun THEN Tail(lane) ELSE lane]
serving == [s \in {"session"} |-> IF Begun THEN Head(lane) ELSE None]

Server == INSTANCE SerialServer WITH
    Session <- {"session"}, Task <- Prompt,
    SessionOf <- [p \in Prompt |-> "session"],
    waiting <- waiting, serving <- serving

\* The runs go through the lane as SessionLanes promises it to a session: one at
\* a time and in the order they came, whatever cuts them off or fails before the
\* turn; no abort, watchdog or shutdown lets a waiting run overtake.
RunsInOrder == Server!Spec

OutcomeOf(c) ==
    CASE c \in {"unsent", "received", "claimed"} -> "open"
      [] c = "dispatched" -> "dispatched"
      [] c = "superseded" -> "withdrawn"
      [] c \in {"completed", "failed"} -> "settled"

DispatcherOf(c) == IF c \in {"dispatched", "completed", "failed"} THEN "this" ELSE None

outcome == [p \in Prompt |-> OutcomeOf(claim[p])]
dispatcher == [p \in Prompt |-> DispatcherOf(claim[p])]
runners == [p \in Prompt |-> IF consumer[p] = "none" THEN {} ELSE {"this"}]

Promise == INSTANCE AtMostOnceDispatch WITH
    Execution <- Prompt, Process <- {"this"},
    outcome <- outcome, dispatcher <- dispatcher, runners <- runners

\* Between claim and turn the process keeps the promise of the ingress: no turn
\* starts without the event's marker or after its outcome is recorded, and what
\* was dispatched, settled or withdrawn is never open again, whatever stop,
\* watchdog, shutdown or late failure of the liveness thought comes in between.
DispatchedOnce == Promise!Spec

----------------------------------------------------------------------------
(* The inductive invariant.                                                *)

\* One lane task goes on at a time, the one at the head.
HeadOnly ==
    /\ lane \in Seq(Prompt)
    /\ \A p \in Prompt : at[p] \in {"begun", "turn", "final"} => lane # << >> /\ Head(lane) = p

\* A cut is known to the turn that is on; only a turn can be cut as inactive.
Cuts ==
    \A p \in Prompt :
        /\ cut[p] = "close" => Closing
        /\ cut[p] = "inactive" => at[p] \in {"turn", "final", "over"}
        /\ at[p] = "turn" =>
              /\ turn.accept <=> cut[p] = None
              /\ turn.inactive <=> cut[p] = "inactive"
              /\ turn.race = "open" => turn.accept
              /\ turn.race = "watchdog" => ~turn.accept
              /\ turn.race = "runtime" => ended[p]

\* The barrier before the turn; the consumer during and after it.
Turns ==
    \A p \in Prompt :
        /\ live[p] = "pending" => at[p] = "queued"
        /\ at[p] \in {"begun", "turn"} => live[p] # "lost"
        /\ consumer[p] # "none" => at[p] \in {"turn", "final", "over"} /\ live[p] # "lost"
        /\ ended[p] => consumer[p] = "ended"

\* Why a run ended, once it has.
Reasons ==
    \A p \in Prompt :
        /\ at[p] \notin {"final", "over"} => reason[p] = None
        /\ at[p] = "final" => reason[p] # None
        /\ reason[p] = "completed" => ended[p] /\ cut[p] # "inactive"
        /\ reason[p] = "stopped" => cut[p] \in {"stop", "close"}

\* What a claim says, and how far its event is then.
Outcomes ==
    \A p \in Prompt :
        /\ claim[p] = "completed" =>
             /\ at[p] \in {"queued", "final", "over"}
             /\ \/ at[p] = "over" /\ ended[p] /\ cut[p] # "inactive"
                \/ cut[p] = "stop"
        /\ claim[p] = "failed" =>
             \/ at[p] \in {"queued", "final", "over"} /\ live[p] = "lost"
             \/ at[p] = "over" /\ reason[p] \in {"failed", "inactive"} /\ cut[p] # "close"

\* The stop, and the shutdown, have reached what is on its way to a turn.
Stopped ==
    \A p \in Prompt :
        /\ stop \in {"aborted", "answered"} /\ p \in Older
           /\ at[p] \in {"marked", "queued", "begun", "turn"} => cut[p] # None
        /\ Closing /\ at[p] = "turn" => cut[p] # None

\* What close() has still to wait for.
Drains ==
    /\ \A p \in Prompt : at[p] \in {"registered", "marked"} => p \in handler
    /\ shut = "handlers" => handler \subseteq awaited \cup {pass}
    /\ shut = "pass" => handler \subseteq {pass}
    /\ shut \in {"lane", "closed"} => handler = {} /\ pass = None
    /\ shut = "lane" => ToSet(lane) \subseteq awaited
    /\ shut = "closed" => lane = << >>
    /\ exit = "clean" => shut = "closed"

\* How far an event is, and what its claim says then: a marker before the lane,
\* and no outcome before the last step but by the handler of a lost thought.
Marked ==
    \A p \in Prompt :
        /\ at[p] = "out" => claim[p] \in {"unsent", "received", "claimed"}
        /\ at[p] = "registered" => claim[p] = "claimed"
        /\ at[p] \in {"marked", "begun", "turn"} => claim[p] = "dispatched"
        /\ at[p] \in {"queued", "final"} => claim[p] \in {"dispatched", "completed", "failed"}
        /\ at[p] = "over" => claim[p] \in {"dispatched", "completed", "failed", "superseded"}

IInv ==
    /\ TypeOK
    /\ HeadOnly
    /\ Cuts
    /\ Turns
    /\ Reasons
    /\ Outcomes
    /\ Stopped
    /\ Drains
=============================================================================
