--------------------------- MODULE AutonomousGoal ---------------------------
(***************************************************************************)
(* An autonomous goal of one session: its durable record, the lane task    *)
(* that drives it, and what may happen to it from outside: messages of the *)
(* user, a stop, the death of the process and its replacement.             *)
(*                                                                         *)
(* Each operation of the store is one step, under its lock.  An answer of  *)
(* Linear is any answer (the label may come and go, the issue may be       *)
(* closed or reopened by others, a request may fail whether or not it took *)
(* effect), so a query is one step with the store operation that follows   *)
(* it.  The key of a notice is a reason and the number of the record's     *)
(* step; with a new step all keys are new, and only the reasons are kept.  *)
(***************************************************************************)
EXTENDS Integers, Sequences, FiniteSets

CONSTANTS
    Guidance,     \* prompts of the user after the one that opened the session
    Later,        \* the ones that the user wrote after the stop
    Opening,      \* the event that opened the session
    Recovery,     \* names the task that resumes the goal after a restart
    None,
    MaxSteps,     \* AUTONOMOUS_GOAL_MAX_STEPS
    MaxRestarts   \* bound: restarts of the process

\* Why a notice was written.  "turn" stands for what ends a step's turn, of which
\* a step has one: a question, a failure, a malformed answer, a missing workflow
\* state, the death of the process.
Reason == {"turn", "label", "limit", "retry", "config", "provider", "completion"}

ASSUME GoalAssumption ==
    /\ IsFiniteSet(Guidance)
    /\ Later \subseteq Guidance
    /\ Opening \notin Guidance
    /\ Recovery \notin Guidance \cup {Opening}
    /\ None \notin Guidance \cup {Opening, Recovery}
    /\ None \notin Nat \cup Reason
    /\ "stop" \notin Guidance
    /\ MaxSteps \in Nat \ {0}
    /\ MaxRestarts \in Nat

Event == Guidance \cup {Opening}

VARIABLES
    goal,     \* the persisted record
    posted,   \* keys of the latest step's activities that Linear has
    doubled,  \* history: a completion's key was created a second time
    event,    \* by event, how far it has come; "over" if it ended, well or not
    stop,     \* the user's stop: how far it has come
    missed,   \* what was sent while no process listened, and is not claimed
    phase,    \* of the process
    proc,     \* its number
    fit,      \* its configuration, against the one the goal began with
    lane,     \* tasks of the session's lane, each with its controller
    w,        \* the task at the head of the lane: where it is, and its locals
    alone,    \* history: turns since a message was claimed or taken up, up to one
              \* more than MaxSteps
    cut       \* history: a turn was cut off, and no message taken up since

vars == <<goal, posted, doubled, event, stop, missed, phase, proc, fit, lane,
          w, alone, cut>>

Terminal == {"completed", "stopped", "declined"}

NoGoal == [status |-> "none", since |-> 0, owner |-> None,
           pending |-> {}, notice |-> None, dispatched |-> FALSE]

Idle == [pc |-> "idle", guided |-> FALSE, say |-> None]

\* Where a task can be.  "turn" and "mutating" are calls that are under way.
Place == {"idle", "open", "guide", "recover", "authorize", "grant", "loop",
          "admit", "start", "turn", "yield", "continue", "confirm",
          "complete", "finish", "revert", "dispatch", "mutate", "mutating",
          "announce", "exists", "emit", "settle", "block"}

TypeOK ==
    /\ goal \in [status : Terminal \cup {"none", "authorizing", "active",
                                         "running", "blocked", "completing"},
                 since : Nat, owner : Nat \cup {None},
                 pending : SUBSET Guidance, notice : Reason \cup {None},
                 dispatched : BOOLEAN]
    /\ goal.status = "running" <=> goal.owner # None
    /\ goal.status = "completing" <=> goal.notice = "completion"
    /\ goal.dispatched => goal.status \in {"completing", "completed", "stopped"}
    /\ posted \subseteq Reason
    /\ doubled \in BOOLEAN
    /\ event \in [Event -> {"unsent", "sent", "claimed", "queued", "over"}]
    /\ stop \in {"unsent", "sent", "fenced", "answered"}
    /\ missed \subseteq Guidance \cup {"stop"}
    /\ phase \in {"down", "preflight", "reconcile", "recover", "accept", "ready",
                "refused"}
    /\ proc \in 0 .. MaxRestarts
    /\ fit \in {"same", "unlabelled", "other"}
    /\ lane \in Seq([id : Event \cup {Recovery}, aborted : BOOLEAN])
    /\ w \in [pc : Place, guided : BOOLEAN, say : Reason \cup {None}]
    /\ alone \in 0 .. MaxSteps + 1
    /\ cut \in BOOLEAN

Init ==
    /\ goal = NoGoal
    /\ posted = {}
    /\ doubled = FALSE
    /\ event = [e \in Event |-> IF e = Opening THEN "claimed" ELSE "unsent"]
    /\ stop = "unsent"
    /\ missed = {}
    /\ phase = "ready"
    /\ proc = 0
    /\ fit = "same"
    /\ lane = << >>
    /\ w = Idle
    /\ alone = 0
    /\ cut = FALSE

Fenced == stop \in {"fenced", "answered"}
Up == phase # "down"
First == lane[1]

----------------------------------------------------------------------------
(* The store's operations on the record.                                   *)

\* Claims of prompts that have not ended, dispatched or not.
Held == {g \in Guidance : event[g] \in {"claimed", "queued"}}

\* Mutant of Prepared: prompts claimed before the record existed are not in it.
PreparedUnaware ==
    [NoGoal EXCEPT !.status = IF Fenced THEN "stopped" ELSE "authorizing"]

Prepared ==
    [NoGoal EXCEPT !.status = IF Fenced THEN "stopped" ELSE "authorizing",
                   !.pending = IF Fenced THEN {} ELSE Held]

\* The end of a wait for the user: the record is active again, its completion
\* is off, and its steps are counted from here.
Resumed(taken) ==
    [goal EXCEPT !.status = "active", !.pending = @ \ taken, !.notice = None,
                 !.dispatched = FALSE, !.since = 0]

\* Mutant of Begun: the step is not counted.
BegunUncounted ==
    [goal EXCEPT !.status = "running", !.owner = proc]

Begun ==
    [goal EXCEPT !.status = "running", !.since = @ + 1, !.owner = proc]

Owned == goal.status = "running" /\ goal.owner = proc

Continued == [goal EXCEPT !.status = "active", !.owner = None]

Completing ==
    [goal EXCEPT !.status = "completing", !.owner = None,
                 !.notice = "completion"]

\* Guidance that was claimed before the completion's boundary takes it back.
Yielded == goal.pending # {}

Dispatched ==
    IF Yielded
    THEN [goal EXCEPT !.status = "active", !.notice = None, !.dispatched = FALSE]
    ELSE [goal EXCEPT !.dispatched = TRUE]

Completed ==
    [goal EXCEPT !.status = "completed", !.notice = None, !.owner = None,
                 !.pending = {}]

Blocked(say, taken) ==
    [goal EXCEPT !.status = "blocked", !.owner = None, !.dispatched = FALSE,
                 !.pending = @ \ taken, !.notice = say]

Stopped ==
    IF goal.status \in Terminal \cup {"none"} THEN goal
    ELSE [goal EXCEPT !.status = "stopped", !.owner = None, !.notice = None,
                      !.pending = {}]

Recorded(g) ==
    IF goal.status \in Terminal \cup {"none"} THEN goal
    ELSE [goal EXCEPT !.pending = @ \cup {g}]
----------------------------------------------------------------------------
(* The task at the head of the lane.  Move stays in the task, Quit ends it  *)
(* and its event, and Throw is an error that nobody on the way catches.     *)

outside == <<stop, missed, phase, proc, fit>>
history == <<alone, cut>>

At(pc) == Up /\ lane # << >> /\ w.pc = pc
To(pc) == [w EXCEPT !.pc = pc]
Mine == {First.id} \cap Guidance

Move(g, next) == goal' = g /\ w' = next /\ UNCHANGED <<lane, event>>
Quit(g) ==
    /\ goal' = g
    /\ w' = Idle
    /\ lane' = Tail(lane)
    /\ event' = [e \in Event |-> IF e = First.id THEN "over" ELSE event[e]]
Throw == Quit(goal)

\* To blockAutonomousGoalWithNotice, with the activity key it is to bear.
ToBlock(reason) == Move(goal, [w EXCEPT !.pc = "block", !.say = reason])
ToNotice == Move(goal, [w EXCEPT !.pc = "exists", !.say = goal.notice])

\* A turn that is not the goal's: of a session without a goal, or after it.
Ordinary == Quit(goal)

\* The opening thought may fail; a message stopped in the lane is over.
Begin ==
    /\ At("idle")
    /\ \/ First.aborted /\ First.id # Recovery /\ Quit(goal)
       \/ First.id # Recovery /\ Throw
       \/ /\ ~First.aborted \/ First.id = Recovery
          /\ Move(goal, To(CASE First.id = Opening -> "open"
                             [] First.id \in Guidance -> "guide"
                             [] OTHER -> "recover"))
    /\ UNCHANGED <<posted, doubled, history, outside>>

\* prepareAutonomousGoal.  The record that a fence found is stopped at once.
Open ==
    /\ At("open")
    /\ \/ First.aborted /\ Quit(goal)
       \/ Fenced /\ Quit(Prepared)
       \/ ~Fenced /\ Move(Prepared, To("authorize"))
       \/ Throw
    /\ UNCHANGED <<posted, doubled, history, outside>>

Live == goal.status \notin Terminal \cup {"none"}
Unasked == goal.status = "blocked" /\ goal.notice # None

\* A message of the user reaches the lane.  A question may still be open that
\* its author did not get to see; a goal found running is left alone.
Guide ==
    /\ At("guide")
    /\ \/ ~Live /\ Ordinary
       \/ Live /\ fit = "other" /\ ToBlock("provider")
       \/ fit # "other" /\ Unasked /\ ToNotice
       \/ Live /\ fit = "unlabelled" /\ ~Unasked /\ ToBlock("config")
       \/ /\ fit = "same" /\ ~Unasked
          /\ \/ goal.status = "authorizing" /\ Move(goal, To("authorize"))
             \/ goal.status = "running" /\ Quit(goal)
             \/ /\ goal.status \in {"blocked", "active", "completing"}
                /\ Move(goal, To("grant"))
    /\ UNCHANGED <<posted, doubled, history, outside>>

\* The goal of a process that is gone is taken up where its record stands.
Recover ==
    /\ At("recover")
    /\ \/ ~Live /\ Quit(goal)
       \/ Unasked /\ ToNotice
       \/ goal.status = "blocked" /\ ~Unasked /\ Quit(goal)
       \/ /\ Live /\ goal.status # "blocked"
          /\ \/ fit = "unlabelled" /\ ToBlock("config")
             \/ fit = "other" /\ ToBlock("provider")
             \/ /\ fit = "same"
                /\ \/ goal.status = "running" /\ ToBlock("turn")
                   \/ goal.status = "authorizing" /\ Move(goal, To("authorize"))
                   \/ goal.status = "completing" /\ Move(goal, To("finish"))
                   \/ goal.status = "active" /\ Move(goal, To("loop"))
    /\ UNCHANGED <<posted, doubled, history, outside>>

\* resolveAutonomousGoalAuthorization: the issue bears the label and is open.
Authorize ==
    /\ At("authorize")
    /\ \/ Throw
       \/ /\ goal.status = "authorizing"
          /\ \/ Quit([goal EXCEPT !.status = "declined", !.pending = {}])
             \/ Move([goal EXCEPT !.status = "active"],
                     To(IF Mine = {} THEN "loop" ELSE "grant"))
    /\ UNCHANGED <<posted, doubled, history, outside>>

\* The message takes the goal up, if the label is there, and has the next step.
Grant ==
    /\ At("grant")
    /\ \/ Throw /\ UNCHANGED history
       \/ ToBlock("label") /\ UNCHANGED history
       \/ /\ goal.status \in {"blocked", "active", "completing"}
          /\ Mine \subseteq goal.pending
          /\ Move(Resumed(Mine), [w EXCEPT !.pc = "loop", !.guided = TRUE])
          /\ alone' = 0
          /\ cut' = FALSE
    /\ UNCHANGED <<posted, doubled, outside>>

----------------------------------------------------------------------------
(* runAutonomousGoalTask.                                                  *)

\* Mutant of Exhausted: one step more than the limit.
ExhaustedLate == goal.since > MaxSteps

Exhausted == goal.since >= MaxSteps

Loop ==
    /\ At("loop")
    /\ \/ /\ First.aborted \/ goal.status \in {"stopped", "completed", "blocked"}
          /\ Quit(goal)
       \/ goal.status \notin {"stopped", "completed", "blocked", "active"} /\ Throw
       \/ /\ goal.status = "active"
          /\ \/ Exhausted /\ ToBlock("limit")
             \/ ~Exhausted /\ Move(goal, To("admit"))
    /\ UNCHANGED <<posted, doubled, history, outside>>

\* The label is there; beginAutonomousGoalStep, or the step of a message.
Admit ==
    /\ At("admit")
    /\ \/ Throw /\ UNCHANGED posted
       \/ ToBlock("label") /\ UNCHANGED posted
       \/ /\ goal.status # "active" \/ (~w.guided /\ goal.pending # {})
          /\ Quit(goal)
          /\ UNCHANGED posted
       \/ /\ goal.status = "active"
          /\ w.guided \/ goal.pending = {}
          /\ Move(Begun, [w EXCEPT !.pc = "start", !.guided = FALSE])
          /\ posted' = {}
    /\ UNCHANGED <<doubled, history, outside>>

\* A turn that failed, stalled or was stopped.
Failed ==
    \/ goal.status = "stopped" /\ Quit(goal)
    \/ goal.status # "stopped" /\ ToBlock("turn")

\* The provider's turn.  With its controller aborted it is over at once.
Start ==
    /\ At("start")
    /\ \/ First.aborted /\ Failed /\ UNCHANGED alone
       \/ ~First.aborted /\ Move(goal, To("turn")) /\ alone' = IF alone > MaxSteps THEN alone ELSE alone + 1
    /\ UNCHANGED <<posted, doubled, cut, outside>>

\* Who waits behind this turn comes first, whatever it decided.
Waited == Len(lane) > 1 \/ goal.pending # {}

TurnEnd ==
    /\ At("turn")
    /\ \/ Failed
       \/ /\ ~First.aborted
          /\ \/ ToBlock("turn")
             \/ goal.status = "stopped" /\ Quit(goal)
             \/ goal.status # "stopped" /\ Waited /\ Move(goal, To("yield"))
             \/ /\ goal.status # "stopped" /\ ~Waited
                /\ \/ Move(goal, To("continue"))
                   \/ ToBlock("turn")
                   \/ Move(goal, To("confirm"))
    /\ UNCHANGED <<posted, doubled, history, outside>>

\* continueAutonomousGoal, then the summary of the step, which may not get out.
Yield ==
    /\ At("yield")
    /\ \/ ~Owned /\ Throw
       \/ Owned /\ Quit(Continued)
    /\ UNCHANGED <<posted, doubled, history, outside>>

Continue ==
    /\ At("continue")
    /\ \/ ~Owned /\ Throw
       \/ Owned /\ Quit(Continued)
       \/ Owned /\ Move(Continued, To("loop"))
    /\ UNCHANGED <<posted, doubled, history, outside>>

\* The label and the state to move the issue to, then the record once more.
Confirm ==
    /\ At("confirm")
    /\ \/ Throw
       \/ goal.status = "stopped" /\ Quit(goal)
       \/ goal.status # "stopped" /\ goal.pending # {} /\ Move(goal, To("yield"))
       \/ /\ goal.status # "stopped" /\ goal.pending = {}
          /\ \/ ToBlock("label")
             \/ ToBlock("turn")
             \/ Move(goal, To("complete"))
    /\ UNCHANGED <<posted, doubled, history, outside>>

Complete ==
    /\ At("complete")
    /\ \/ ~Owned /\ Throw
       \/ Owned /\ Move(Completing, To("finish"))
    /\ UNCHANGED <<posted, doubled, history, outside>>

----------------------------------------------------------------------------
(* finishAutonomousGoalCompletion, from the step or after a restart.       *)

Finish ==
    /\ At("finish")
    /\ \/ Throw
       \/ goal.status = "stopped" /\ Quit(goal)
       \/ /\ goal.status = "completing"
          /\ \/ goal.pending # {} /\ Move(goal, To("revert"))
             \/ /\ goal.pending = {}
                /\ \/ ToBlock("label")
                   \/ Move(goal, To("announce"))
                   \/ Move(goal, To("dispatch"))
    /\ UNCHANGED <<posted, doubled, history, outside>>

Revert ==
    /\ At("revert")
    /\ \/ goal.status = "stopped" /\ Throw
       \/ goal.status = "completing" /\ Quit(Resumed({}))
    /\ UNCHANGED <<posted, doubled, history, outside>>

\* beginAutonomousGoalCompletionDispatch: the last word before the issue moves.
Dispatch ==
    /\ At("dispatch")
    /\ \/ goal.status = "stopped" /\ Quit(goal)
       \/ goal.status = "completing" /\ Yielded /\ Quit(Dispatched)
       \/ goal.status = "completing" /\ ~Yielded /\ Move(Dispatched, To("mutate"))
    /\ UNCHANGED <<posted, doubled, history, outside>>

Mutate ==
    /\ At("mutate")
    /\ \/ First.aborted /\ Throw
       \/ ~First.aborted /\ Move(goal, To("mutating"))
    /\ UNCHANGED <<posted, doubled, history, outside>>

\* issueUpdate is answered, or is not; what it did is the next query's to find.
MutateEnd ==
    /\ At("mutating")
    /\ \/ First.aborted /\ Quit(goal)
       \/ ~First.aborted /\ ToBlock("retry")
       \/ Move(goal, To("announce"))
    /\ UNCHANGED <<posted, doubled, history, outside>>

Announce ==
    /\ At("announce")
    /\ \/ First.aborted /\ Throw
       \/ goal.status = "stopped" /\ Quit(goal)
       \/ goal.status = "completing" /\ goal.notice # None /\ ToNotice
    /\ UNCHANGED <<posted, doubled, history, outside>>
----------------------------------------------------------------------------
(* Notices: blockAutonomousGoalWithNotice stores one and creates it;       *)
(* recoverAutonomousGoalPendingNotice creates it if Linear has it not.     *)

Block ==
    /\ At("block")
    /\ \/ (First.aborted \/ ~Live) /\ Throw
       \/ ~First.aborted /\ Live /\ Move(Blocked(w.say, Mine), To("emit"))
    /\ UNCHANGED <<posted, doubled, history, outside>>

\* Mutant of Known: the activities are not asked for.
KnownNever == FALSE

\* goalActivityExists: Linear has an activity under the notice's id.
Known == w.say \in posted

Exists ==
    /\ At("exists")
    /\ \/ Throw
       \/ Known /\ Move(goal, To("settle"))
       \/ ~Known /\ goal.notice # w.say /\ Quit(goal)
       \/ ~Known /\ goal.notice = w.say /\ Move(goal, To("emit"))
    /\ UNCHANGED <<posted, doubled, history, outside>>

\* emitAutonomousGoalActivity.  What Linear accepted may look like a failure.
Emit ==
    /\ At("emit")
    /\ \/ /\ goal.status = "stopped"
          /\ Move(goal, To("settle"))
          /\ UNCHANGED <<posted, doubled>>
       \/ Throw /\ UNCHANGED <<posted, doubled>>
       \/ /\ goal.status # "stopped" /\ ~First.aborted
          /\ posted' = posted \cup {w.say}
          /\ doubled' = (doubled \/ (w.say = "completion" /\ w.say \in posted))
          /\ \/ Move(goal, To("settle"))
             \/ Throw
    /\ UNCHANGED <<history, outside>>

\* The notice is out.  A message that came upon it now has its own turn.
Settle ==
    /\ At("settle")
    /\ \/ ~Live /\ Quit(goal)
       \/ /\ Live /\ w.say = "completion"
          /\ goal.status = "completing" /\ Quit(Completed)
       \/ /\ Live /\ w.say # "completion"
          /\ LET cleared == [goal EXCEPT !.notice = IF @ = w.say THEN None ELSE @]
             IN  IF Mine \cap goal.pending # {}
                 THEN Move(cleared, [Idle EXCEPT !.pc = "guide"])
                 ELSE Quit(cleared)
    /\ UNCHANGED <<posted, doubled, history, outside>>

Worker ==
    \/ Begin \/ Open \/ Guide \/ Recover \/ Authorize \/ Grant
    \/ Loop \/ Admit \/ Start \/ TurnEnd \/ Yield \/ Continue
    \/ Confirm \/ Complete \/ Finish \/ Revert \/ Dispatch \/ Mutate \/ MutateEnd
    \/ Announce \/ Block \/ Exists \/ Emit \/ Settle

----------------------------------------------------------------------------
(* The user, the webhooks and the passes that bring in what they missed.   *)

task == <<posted, doubled, w>>

Send(g) ==
    /\ event[g] = "unsent"
    /\ g \in Later <=> stop # "unsent"
    /\ event' = [event EXCEPT ![g] = "sent"]
    /\ missed' = IF Up THEN missed ELSE missed \cup {g}
    /\ UNCHANGED <<goal, stop, phase, proc, fit, lane, task, history>>

SendStop ==
    /\ stop = "unsent"
    /\ stop' = "sent"
    /\ missed' = IF Up THEN missed ELSE missed \cup {"stop"}
    /\ UNCHANGED <<goal, event, phase, proc, fit, lane, task, history>>

\* What no process was told of comes with a pass of reconciliation.
Told(x) == Up /\ (x \in missed => phase \in {"reconcile", "ready"})

\* claimEvent of a prompt, which a newer stop supersedes at once.  A pass
\* claims the newest stop first.
Claim(g) ==
    /\ event[g] = "sent"
    /\ Told(g)
    /\ g \in missed => "stop" \notin missed
    /\ IF Fenced /\ g \notin Later
       THEN /\ event' = [event EXCEPT ![g] = "over"]
            /\ UNCHANGED <<goal, alone>>
       ELSE /\ event' = [event EXCEPT ![g] = "claimed"]
            /\ goal' = Recorded(g)
            /\ alone' = 0
    /\ missed' = missed \ {g}
    /\ UNCHANGED <<stop, phase, proc, fit, lane, task, cut>>

\* beginEventDispatch, and the place in the lane.
Enqueue(e) ==
    /\ event[e] = "claimed"
    /\ phase \in {"reconcile", "accept", "recover", "ready"}
    /\ e # Opening => event[Opening] # "claimed"
    /\ IF Fenced /\ e \notin Later
       THEN /\ event' = [event EXCEPT ![e] = "over"]
            /\ UNCHANGED lane
       ELSE /\ event' = [event EXCEPT ![e] = "queued"]
            /\ lane' = Append(lane, [id |-> e, aborted |-> FALSE])
    /\ UNCHANGED <<goal, task, history, outside>>

\* claimStopEvent: the fence and the goal's end in one mutation.
ClaimStop ==
    /\ stop = "sent"
    /\ Told("stop")
    /\ stop' = "fenced"
    /\ goal' = Stopped
    /\ missed' = missed \ {"stop"}
    /\ UNCHANGED <<event, phase, proc, fit, lane, task, history>>

\* runIsAtOrBeforeStop; a resumed goal counts as the session's opening.
Older(id) == id \notin Later

\* abortSessionRuns, and the answer to the user.
AnswerStop ==
    /\ stop = "fenced"
    /\ phase \in {"reconcile", "accept", "recover", "ready"}
    /\ stop' = "answered"
    /\ lane' = [i \in DOMAIN lane |->
                  [lane[i] EXCEPT !.aborted = @ \/ Older(lane[i].id)]]
    /\ UNCHANGED <<goal, event, missed, phase, proc, fit, task, history>>

----------------------------------------------------------------------------
(* The process dies and is replaced.                                       *)

\* What is dispatched is not dispatched again, whether it ran or not.
Crash ==
    /\ Up
    /\ proc < MaxRestarts
    /\ phase' = "down"
    /\ lane' = << >>
    /\ w' = Idle
    /\ event' = [e \in Event |-> IF event[e] = "queued" THEN "over" ELSE event[e]]
    /\ cut' = (cut \/ goal.status = "running")
    /\ UNCHANGED <<goal, posted, doubled, stop, missed, proc, fit, alone>>

Restart ==
    /\ phase = "down"
    /\ phase' = IF Live THEN "preflight" ELSE "accept"
    /\ proc' = proc + 1
    /\ fit' \in {"same", "unlabelled", "other"}
    /\ UNCHANGED <<goal, event, stop, missed, lane, task, history>>

\* Mutant of Interrupted: the cut-off turn's goal may go on.
InterruptedOn == Continued

Interrupted == Blocked("turn", {})

\* A goal found running is blocked before anything of the downtime is read.
Preflight ==
    /\ phase = "preflight"
    /\ phase' = "reconcile"
    /\ goal' = IF goal.status = "running" THEN Interrupted ELSE goal
    /\ UNCHANGED <<event, stop, missed, proc, fit, lane, task, history>>

\* Mutant of Read: the process gets ready although the session was not read.
ReadAnyway == TRUE

Read == missed = {}

\* Without the session's activities of the downtime the process is not ready.
Reconciled ==
    /\ phase = "reconcile"
    /\ \/ Read /\ phase' = "recover"
       \/ phase' = "refused"
    /\ UNCHANGED <<goal, event, stop, missed, proc, fit, lane, task, history>>

\* Accepted ingress has been dispatched, an accepted stop before it; then the
\* goal that was there at the start joins its lane.
Recovered ==
    /\ phase \in {"accept", "recover"}
    /\ \A e \in Event : event[e] # "claimed"
    /\ stop # "fenced"
    /\ phase' = "ready"
    /\ lane' = IF phase = "recover" /\ Live
               THEN Append(lane, [id |-> Recovery, aborted |-> FALSE])
               ELSE lane
    /\ UNCHANGED <<goal, event, stop, missed, proc, fit, task, history>>

Next ==
    \/ Worker
    \/ \E g \in Guidance : Send(g) \/ Claim(g)
    \/ \E e \in Event : Enqueue(e)
    \/ SendStop \/ ClaimStop \/ AnswerStop
    \/ Crash \/ Restart \/ Preflight \/ Reconciled \/ Recovered

Spec == Init /\ [][Next]_vars

\* A turn ends by its inactivity watchdog at the latest, and a request by
\* fetch's own limits (the client sets none), so a lane moves on.
LiveSpec == Spec /\ WF_vars(Worker)
----------------------------------------------------------------------------
(* Properties.                                                             *)

\* The provider is asked for a step, or Linear to move the issue.
BeginsTurn == w.pc = "start" /\ w'.pc = "turn"
BeginsMutation == w.pc = "mutate" /\ w'.pc = "mutating"

\* A message that was accepted before the completion's dispatch boundary has
\* had its turn when the boundary is crossed: beginAutonomousGoalCompletionDispatch,
\* claimEvent and prepareAutonomousGoal together leave no message behind.
GuidanceFirst ==
    [][~goal.dispatched /\ goal'.dispatched => Held \subseteq Mine]_vars

\* A stop that was answered holds for every task that is not newer than it, and
\* a stop sent while no process listened is found before the next process
\* begins anything: no turn, no change of the issue.
StopHolds ==
    [][BeginsTurn \/ BeginsMutation =>
         /\ stop = "answered" => First.id \in Later
         /\ "stop" \in missed => First.id # Recovery]_vars

\* A turn that a crash cut off is not followed by another before a message of
\* the user has taken the goal up again.
CutOffWaits == cut => w.pc \notin {"start", "turn"}

\* Between two messages of the user the provider has at most the configured
\* number of turns, across restarts and given-up completions.
BoundedAutonomy == alone <= MaxSteps

\* The final response of a completed goal is with Linear, and neither a crash
\* nor a lost answer made it come twice.
AnnouncedOnce ==
    /\ goal.status = "completed" => "completion" \in posted
    /\ ~doubled

\* A task that is in the lane leaves it: no continuation goes on for ever, and
\* no notice is tried again and again.
EveryTaskEnds == \A e \in Event : event[e] = "queued" ~> event[e] # "queued"

\* README.md: "Pending user guidance is recorded with its ingress claim and runs
\* before another continuation or issue completion."  When a recovered process
\* has nothing left to do in the session, what is pending has a claim whose turn
\* is still to come.
PendingGuidanceRuns ==
    phase = "ready" /\ lane = << >> => \A g \in goal.pending : event[g] = "claimed"
----------------------------------------------------------------------------
(* The inductive invariant.                                                *)

\* The lane holds what is queued, each once; a process that has not settled what
\* it found has none.
LaneHolds ==
    /\ \A i \in DOMAIN lane : lane[i].id \in Event => event[lane[i].id] = "queued"
    /\ \A i, j \in DOMAIN lane : lane[i].id = lane[j].id /\ lane[i].id \in Event => i = j
    /\ phase \in {"down", "preflight"} => lane = << >>
    /\ lane = << >> => w = Idle

\* A process that died is one that may be replaced.
Replaceable == phase = "down" => proc < MaxRestarts

\* The record is made once, by the task of the opening event.
MadeOnce ==
    goal.status # "none" =>
        /\ event[Opening] \in {"queued", "over"}
        /\ event[Opening] = "queued" =>
              lane # << >> /\ First.id = Opening /\ w.pc \notin {"idle", "open"}

\* What holds where the task at the head is.  It never says a completion of its
\* own accord, and a completion only until Linear has it; it begins a step only
\* below the limit, and begins to count anew only for a message that is pending.
Places ==
    /\ w.pc = "open" => First.id = Opening
    /\ w.pc = "block" => w.say \in Reason \ {"completion"}
    /\ w.pc \in {"exists", "emit", "settle"} => w.say \in Reason
    /\ w.pc = "emit" /\ w.say = "completion" => "completion" \notin posted
    /\ w.pc = "settle" /\ w.say = "completion" => "completion" \in posted \/ ~Live
    /\ w.guided => alone = 0 /\ w.pc # "start"
    /\ w.pc = "admit" /\ goal.status = "active" => goal.since < MaxSteps
    /\ w.pc = "start" => alone < goal.since
    /\ w.pc = "revert" /\ goal.status = "completing" => goal.pending # {}
    /\ cut => w.pc \notin {"start", "turn"}

\* After a cut-off turn the record waits, once the next process has seen it.
Waits ==
    cut => \/ goal.status \in {"blocked", "stopped"}
           \/ goal.status = "running" /\ phase \in {"down", "preflight"}

\* The turns since the last message are among the steps that the record counts;
\* where it has begun to count anew, a message is pending.
Counted ==
    /\ alone <= MaxSteps
    /\ goal.since <= MaxSteps
    /\ goal.status \in {"none", "authorizing"} => alone = 0 /\ goal.since = 0
    /\ goal.status = "running" => alone <= goal.since
    /\ goal.status = "active" => alone <= goal.since \/ goal.pending # {}

\* Every claimed message is pending in a live record, except the one whose task
\* is at the head.
PendingHeld ==
    Live => \A g \in Held : g \in goal.pending \/ (lane # << >> /\ First.id = g)

\* A fence ends the goal; an answered stop has reached every task that is older;
\* no goal is taken up before the session has been read.
StopReaches ==
    /\ Fenced => ~Live
    /\ stop = "answered" =>
          \A i \in DOMAIN lane : Older(lane[i].id) => lane[i].aborted
    /\ "stop" \in missed =>
          phase # "recover" /\ \A i \in DOMAIN lane : lane[i].id # Recovery

IInv ==
    /\ TypeOK
    /\ LaneHolds
    /\ Replaceable
    /\ MadeOnce
    /\ Places
    /\ AnnouncedOnce
    /\ Waits
    /\ Counted
    /\ PendingHeld
    /\ StopReaches
=============================================================================
