------------------------ MODULE AutonomousGoalProofs ------------------------
(***************************************************************************)
(* Proofs about AutonomousGoal, for any messages, any limit of steps and   *)
(* any number of restarts.                                                 *)
(*                                                                         *)
(* The store's operations come first: what each one leaves in the record.  *)
(* Then the steps of the task at the head of the lane, which are all of    *)
(* one form (HeadStep): the task goes on or leaves the lane with its event,*)
(* and it writes one of a few things, each from a place of its own.  One   *)
(* lemma per action shows that form; what the form does to the invariant   *)
(* is shown once.  The user, the webhooks and the process come last.       *)
(***************************************************************************)
EXTENDS AutonomousGoal, SequenceTheorems, TLAPS

----------------------------------------------------------------------------
(* The record: what each operation of the store leaves in it. *)

\* A record of the type that TypeOK gives it.
Record == [status : Terminal \cup {"none", "authorizing", "active",
                                   "running", "blocked", "completing"},
           since : Nat, owner : Nat \cup {None},
           pending : SUBSET Guidance, notice : Reason \cup {None},
           dispatched : BOOLEAN]

Consistent(g) ==
    /\ g \in Record
    /\ g.status = "running" <=> g.owner # None
    /\ g.status = "completing" <=> g.notice = "completion"
    /\ g.dispatched => g.status \in {"completing", "completed", "stopped"}

Declined == [goal EXCEPT !.status = "declined", !.pending = {}]
Authorized == [goal EXCEPT !.status = "active"]
Cleared == [goal EXCEPT !.notice = IF @ = w.say THEN None ELSE @]

LEMMA RecordFields ==
    ASSUME TypeOK
    PROVE  /\ Consistent(goal)
           /\ goal = [status |-> goal.status, since |-> goal.since, owner |-> goal.owner,
                      pending |-> goal.pending, notice |-> goal.notice,
                      dispatched |-> goal.dispatched]
<1>1. Consistent(goal)
  BY DEF TypeOK, Consistent, Record
<1> QED
  BY <1>1 DEF Consistent, Record

LEMMA PreparedFields ==
    ASSUME TypeOK
    PROVE  /\ Consistent(Prepared)
           /\ Prepared.since = 0 /\ ~Prepared.dispatched
           /\ Fenced => Prepared.status = "stopped"
           /\ ~Fenced => Prepared.status = "authorizing" /\ Prepared.pending = Held
<1>1. Held \in SUBSET Guidance
  BY DEF Held
<1>2. CASE Fenced
  <2>1. Prepared = [NoGoal EXCEPT !.status = "stopped", !.pending = {}]
    BY <1>2 DEF Prepared
  <2>2. Prepared = [status |-> "stopped", since |-> 0, owner |-> None, pending |-> {},
                    notice |-> None, dispatched |-> FALSE]
    BY <2>1 DEF NoGoal
  <2> QED
    BY <2>2, <1>2, GoalAssumption DEF Consistent, Record, Terminal, Reason
<1>3. CASE ~Fenced
  <2>1. Prepared = [NoGoal EXCEPT !.status = "authorizing", !.pending = Held]
    BY <1>3 DEF Prepared
  <2>2. Prepared = [status |-> "authorizing", since |-> 0, owner |-> None,
                    pending |-> Held, notice |-> None, dispatched |-> FALSE]
    BY <2>1 DEF NoGoal
  <2> QED
    BY <2>2, <1>1, <1>3, GoalAssumption DEF Consistent, Record, Terminal, Reason
<1> QED
  BY <1>2, <1>3

LEMMA AuthorizedFields ==
    ASSUME TypeOK, goal.status = "authorizing"
    PROVE  /\ Consistent(Declined) /\ Declined.status = "declined"
           /\ Declined.since = goal.since
           /\ Consistent(Authorized) /\ Authorized.status = "active"
           /\ Authorized.since = goal.since /\ Authorized.pending = goal.pending
  BY RecordFields, GoalAssumption
     DEF Declined, Authorized, Consistent, Record, Terminal, Reason

LEMMA ResumedFields ==
    ASSUME TypeOK, goal.status \in {"blocked", "active", "completing"}, NEW taken
    PROVE  /\ Consistent(Resumed(taken)) /\ Resumed(taken).status = "active"
           /\ Resumed(taken).since = 0 /\ Resumed(taken).pending = goal.pending \ taken
  BY RecordFields, GoalAssumption DEF Resumed, Consistent, Record, Terminal, Reason

LEMMA BegunFields ==
    ASSUME TypeOK, goal.status = "active"
    PROVE  /\ Consistent(Begun) /\ Begun.status = "running"
           /\ Begun.since = goal.since + 1 /\ Begun.pending = goal.pending
<1>1. proc \in Nat /\ proc # None
  BY GoalAssumption DEF TypeOK
<1>2. goal.since + 1 \in Nat
  BY RecordFields DEF Consistent, Record
<1>3. Begun = [goal EXCEPT !.status = "running", !.since = goal.since + 1, !.owner = proc]
  BY DEF Begun
<1> QED
  BY <1>1, <1>2, <1>3, RecordFields, GoalAssumption
     DEF Consistent, Record, Terminal, Reason

LEMMA ContinuedFields ==
    ASSUME TypeOK, Owned
    PROVE  /\ Consistent(Continued) /\ Continued.status = "active"
           /\ Continued.since = goal.since /\ Continued.pending = goal.pending
  BY RecordFields, GoalAssumption DEF Owned, Continued, Consistent, Record, Terminal, Reason

LEMMA CompletingFields ==
    ASSUME TypeOK, Owned
    PROVE  /\ Consistent(Completing) /\ Completing.status = "completing"
           /\ Completing.since = goal.since /\ Completing.pending = goal.pending
           /\ Completing.dispatched = goal.dispatched
  BY RecordFields, GoalAssumption
     DEF Owned, Completing, Consistent, Record, Terminal, Reason

LEMMA DispatchedFields ==
    ASSUME TypeOK, goal.status = "completing"
    PROVE  /\ Consistent(Dispatched)
           /\ Dispatched.status = IF Yielded THEN "active" ELSE "completing"
           /\ Dispatched.dispatched = ~Yielded
           /\ Dispatched.since = goal.since /\ Dispatched.pending = goal.pending
  BY RecordFields, GoalAssumption DEF Dispatched, Consistent, Record, Terminal, Reason

LEMMA CompletedFields ==
    ASSUME TypeOK
    PROVE  /\ Consistent(Completed) /\ Completed.status = "completed"
           /\ Completed.since = goal.since /\ Completed.dispatched = goal.dispatched
  BY RecordFields, GoalAssumption DEF Completed, Consistent, Record, Terminal, Reason

LEMMA BlockedFields ==
    ASSUME TypeOK, NEW say \in Reason \ {"completion"}, NEW taken
    PROVE  /\ Consistent(Blocked(say, taken)) /\ Blocked(say, taken).status = "blocked"
           /\ Blocked(say, taken).since = goal.since
           /\ Blocked(say, taken).pending = goal.pending \ taken
  BY RecordFields, GoalAssumption DEF Blocked, Consistent, Record, Terminal, Reason

LEMMA ClearedFields ==
    ASSUME TypeOK, w.say # "completion"
    PROVE  /\ Consistent(Cleared) /\ Cleared.status = goal.status
           /\ Cleared.since = goal.since /\ Cleared.pending = goal.pending
           /\ Cleared.dispatched = goal.dispatched
  BY RecordFields, GoalAssumption DEF Cleared, Consistent, Record, Terminal, Reason

LEMMA StoppedFields ==
    ASSUME TypeOK
    PROVE  /\ Consistent(Stopped) /\ Stopped.status \in Terminal \cup {"none"}
           /\ Stopped.status = IF goal.status \in Terminal \cup {"none"} THEN goal.status
                               ELSE "stopped"
           /\ Stopped.since = goal.since /\ Stopped.dispatched = goal.dispatched
<1>1. CASE goal.status \in Terminal \cup {"none"}
  BY <1>1, RecordFields DEF Stopped
<1>2. CASE goal.status \notin Terminal \cup {"none"}
  BY <1>2, RecordFields, GoalAssumption DEF Stopped, Consistent, Record, Terminal, Reason
<1> QED
  BY <1>1, <1>2

LEMMA RecordedFields ==
    ASSUME TypeOK, NEW g \in Guidance
    PROVE  /\ Consistent(Recorded(g)) /\ Recorded(g).status = goal.status
           /\ Recorded(g).since = goal.since /\ Recorded(g).dispatched = goal.dispatched
           /\ goal.pending \subseteq Recorded(g).pending
           /\ goal.status \notin Terminal \cup {"none"} => g \in Recorded(g).pending
<1>1. CASE goal.status \in Terminal \cup {"none"}
  BY <1>1, RecordFields DEF Recorded
<1>2. CASE goal.status \notin Terminal \cup {"none"}
  BY <1>2, RecordFields DEF Recorded, Consistent, Record
<1> QED
  BY <1>1, <1>2


----------------------------------------------------------------------------
(* A step of the task at the head of the lane.                             *)

Locals == [pc : Place, guided : BOOLEAN, say : Reason \cup {None}]

\* The task goes on, or it ends, and its event with it.
Stays ==
    /\ lane' = lane /\ event' = event
    /\ w'.pc # "idle"
    /\ w'.pc = "open" => w.pc = "idle"

Leaves ==
    /\ w' = Idle
    /\ lane' = Tail(lane)
    /\ event' = [e \in Event |-> IF e = First.id THEN "over" ELSE event[e]]

\* What the step writes into the record, and where.
Granted ==
    /\ w.pc = "grant"
    /\ goal.status \in {"blocked", "active", "completing"}
    /\ goal' = Resumed(Mine)
    /\ alone' = 0 /\ cut' = FALSE

Admitted ==
    /\ w.pc = "admit"
    /\ goal.status = "active"
    /\ w.guided \/ goal.pending = {}
    /\ goal' = Begun

Writes ==
    \/ goal' = goal
    \/ w.pc = "open" /\ goal' = Prepared
    \/ goal.status = "authorizing" /\ (goal' = Declined \/ goal' = Authorized)
    \/ Granted
    \/ Admitted
    \/ Owned /\ (goal' = Continued \/ goal' = Completing)
    \/ w.pc = "revert" /\ goal.status = "completing" /\ goal' = Resumed({})
    \/ goal.status = "completing" /\ goal' = Dispatched
    \/ /\ w.pc = "settle" /\ w.say = "completion"
       /\ goal.status = "completing" /\ goal' = Completed
    \/ w.pc = "block" /\ Live /\ goal' = Blocked(w.say, Mine)
    \/ w.pc = "settle" /\ w.say # "completion" /\ Live /\ goal' = Cleared

\* What it does to the history variables and to the activities at Linear.
Remembers ==
    \/ UNCHANGED history
    \/ Granted
    \/ w.pc = "start" /\ goal' = goal /\ alone' = alone + 1 /\ cut' = cut

Posts ==
    \/ UNCHANGED <<posted, doubled>>
    \/ Admitted /\ posted' = {} /\ doubled' = doubled
    \/ /\ w.pc = "emit" /\ goal' = goal
       /\ posted' = posted \cup {w.say}
       /\ doubled' = (doubled \/ (w.say = "completion" /\ w.say \in posted))

HeadStep ==
    /\ Up /\ lane # << >>
    /\ Stays \/ Leaves
    /\ w' \in Locals
    /\ Writes /\ Remembers /\ Posts
    /\ Places'
    /\ UNCHANGED outside

LEMMA LocalFields ==
    ASSUME TypeOK
    PROVE  /\ w \in Locals
           /\ \A p \in Place : To(p) \in Locals /\ To(p).pc = p
                            /\ To(p).guided = w.guided /\ To(p).say = w.say
           /\ Idle \in Locals /\ Idle.pc = "idle" /\ ~Idle.guided
<1>1. w \in Locals
  BY DEF TypeOK, Locals
<1>2. ASSUME NEW p \in Place
      PROVE  /\ To(p) \in Locals /\ To(p).pc = p
             /\ To(p).guided = w.guided /\ To(p).say = w.say
  BY <1>1 DEF Locals, To
<1> QED
  BY <1>1, <1>2 DEF Locals, Idle, Place

LEMMA Quitting ==
    ASSUME TypeOK, NEW g, Quit(g)
    PROVE  goal' = g /\ Leaves /\ w' \in Locals /\ Places'
  BY LocalFields DEF Quit, Leaves, Places, Idle

\* The places that Places says nothing of.
Plain == Place \ {"idle", "open", "block", "exists", "emit", "settle", "admit",
                  "start", "turn", "revert"}

LEMMA Moving ==
    ASSUME TypeOK, Places, NEW g, NEW p \in Plain, Move(g, To(p)), UNCHANGED alone
    PROVE  goal' = g /\ Stays /\ w' \in Locals /\ Places'
<1>1. /\ w' \in Locals /\ w'.pc = p /\ w'.guided = w.guided
      /\ goal' = g /\ lane' = lane /\ event' = event
  BY LocalFields DEF Move, Plain
<1> QED
  BY <1>1 DEF Stays, Places, Plain

LEMMA Blocking ==
    ASSUME TypeOK, Places, NEW reason \in Reason \ {"completion"}, ToBlock(reason),
           UNCHANGED alone
    PROVE  goal' = goal /\ Stays /\ w' \in Locals /\ Places'
<1>1. w \in Locals
  BY LocalFields
<1>2. /\ w' \in Locals /\ w'.pc = "block" /\ w'.guided = w.guided /\ w'.say = reason
      /\ goal' = goal /\ lane' = lane /\ event' = event
  BY <1>1 DEF ToBlock, Move, Locals, Place
<1> QED
  BY <1>2 DEF Stays, Places

LEMMA Noticing ==
    ASSUME TypeOK, Places, goal.notice # None, ToNotice, UNCHANGED alone
    PROVE  goal' = goal /\ Stays /\ w' \in Locals /\ Places'
<1>1. w \in Locals /\ goal.notice \in Reason
  BY LocalFields, RecordFields DEF Consistent, Record
<1>2. /\ w' \in Locals /\ w'.pc = "exists" /\ w'.guided = w.guided
      /\ w'.say = goal.notice
      /\ goal' = goal /\ lane' = lane /\ event' = event
  BY <1>1 DEF ToNotice, Move, Locals, Place
<1> QED
  BY <1>2, <1>1 DEF Stays, Places

\* A place that Places speaks of: what must be shown there is left to the action.
LEMMA AtHead ==
    ASSUME TypeOK, NEW g, NEW p \in Place, Move(g, To(p))
    PROVE  /\ goal' = g /\ lane' = lane /\ event' = event
           /\ w' \in Locals /\ w'.pc = p /\ w'.guided = w.guided /\ w'.say = w.say
  BY LocalFields DEF Move

LEMMA BeginHead ==
    ASSUME IInv, Begin
    PROVE  HeadStep
<1>1. TypeOK /\ Places /\ At("idle")
  BY DEF IInv, Begin
<1>2. CASE Quit(goal)
  BY <1>1, <1>2, Quitting DEF Begin, HeadStep, Writes, Remembers, Posts, At
<1>3. CASE Move(goal, To("open")) /\ First.id = Opening
  <2>1. /\ goal' = goal /\ lane' = lane /\ event' = event
        /\ w' \in Locals /\ w'.pc = "open" /\ w'.guided = w.guided /\ w'.say = w.say
    BY <1>1, <1>3, AtHead DEF Place
  <2>2. Places' /\ Stays
    BY <1>1, <1>3, <2>1 DEF Begin, At, history, Places, Stays, First
  <2> QED
    BY <1>1, <2>1, <2>2 DEF Begin, HeadStep, Writes, Remembers, Posts, At
<1>4. CASE Move(goal, To("guide")) \/ Move(goal, To("recover"))
  <2>1. goal' = goal /\ Stays /\ w' \in Locals /\ Places'
    BY <1>1, <1>4, Moving DEF Begin, history, Plain, Place
  <2> QED
    BY <1>1, <2>1 DEF Begin, HeadStep, Writes, Remembers, Posts, At
<1> QED
  BY <1>2, <1>3, <1>4, GoalAssumption DEF Begin, Throw

LEMMA OpenHead ==
    ASSUME IInv, Open
    PROVE  HeadStep
<1>1. TypeOK /\ Places /\ At("open")
  BY DEF IInv, Open
<1>2. /\ goal' = goal \/ goal' = Prepared
      /\ Stays \/ Leaves
      /\ w' \in Locals /\ Places'
  BY <1>1, Quitting, Moving
     DEF Open, history, Throw, Plain, Place
<1> QED
  BY <1>1, <1>2 DEF Open, HeadStep, Writes, Remembers, Posts, At

LEMMA GuideHead ==
    ASSUME IInv, Guide
    PROVE  HeadStep
<1>1. TypeOK /\ Places /\ At("guide")
  BY DEF IInv, Guide
<1>2. goal' = goal /\ (Stays \/ Leaves) /\ w' \in Locals /\ Places'
  BY <1>1, Quitting, Moving, Blocking, Noticing
     DEF Guide, history, Throw, Plain, Place, Reason, Ordinary, Unasked
<1> QED
  BY <1>1, <1>2 DEF Guide, HeadStep, Writes, Remembers, Posts, At

LEMMA RecoverHead ==
    ASSUME IInv, Recover
    PROVE  HeadStep
<1>1. TypeOK /\ Places /\ At("recover")
  BY DEF IInv, Recover
<1>2. goal' = goal /\ (Stays \/ Leaves) /\ w' \in Locals /\ Places'
  BY <1>1, Quitting, Moving, Blocking, Noticing
     DEF Recover, history, Throw, Plain, Place, Reason, Unasked
<1> QED
  BY <1>1, <1>2 DEF Recover, HeadStep, Writes, Remembers, Posts, At

LEMMA AuthorizeHead ==
    ASSUME IInv, Authorize
    PROVE  HeadStep
<1>1. TypeOK /\ Places /\ At("authorize")
  BY DEF IInv, Authorize
<1>2. /\ \/ goal' = goal
         \/ goal.status = "authorizing" /\ (goal' = Declined \/ goal' = Authorized)
      /\ Stays \/ Leaves
      /\ w' \in Locals /\ Places'
  BY <1>1, Quitting, Moving
     DEF Authorize, history, Throw, Plain, Place, Declined, Authorized
<1> QED
  BY <1>1, <1>2 DEF Authorize, HeadStep, Writes, Remembers, Posts, At

LEMMA GrantHead ==
    ASSUME IInv, Grant
    PROVE  HeadStep
<1>1. TypeOK /\ Places /\ At("grant")
  BY DEF IInv, Grant
<1>2. CASE UNCHANGED history /\ (Throw \/ ToBlock("label"))
  <2>1. goal' = goal /\ (Stays \/ Leaves) /\ w' \in Locals /\ Places'
    BY <1>1, <1>2, Quitting, Blocking DEF Throw, Reason, history
  <2> QED
    BY <1>1, <1>2, <2>1 DEF Grant, HeadStep, Writes, Remembers, Posts, At
<1>3. CASE /\ goal.status \in {"blocked", "active", "completing"}
           /\ Move(Resumed(Mine), [w EXCEPT !.pc = "loop", !.guided = TRUE])
           /\ alone' = 0 /\ cut' = FALSE
  <2>1. /\ w' \in Locals /\ w'.pc = "loop" /\ lane' = lane /\ event' = event
        /\ goal' = Resumed(Mine)
    BY <1>1, <1>3, LocalFields DEF Move, Locals, Place
  <2>2. Places' /\ Stays
    BY <1>3, <2>1 DEF Places, Stays
  <2>3. Granted
    BY <1>1, <1>3, <2>1 DEF Granted, At
  <2> QED
    BY <1>1, <1>3, <2>1, <2>2, <2>3 DEF Grant, HeadStep, Writes, Remembers, Posts, At
<1> QED
  BY <1>2, <1>3 DEF Grant

LEMMA LoopHead ==
    ASSUME IInv, Loop
    PROVE  HeadStep
<1>1. TypeOK /\ Places /\ At("loop")
  BY DEF IInv, Loop
<1>2. CASE goal.status = "active" /\ ~Exhausted /\ Move(goal, To("admit"))
  <2>1. /\ goal' = goal /\ lane' = lane /\ event' = event
        /\ w' \in Locals /\ w'.pc = "admit" /\ w'.guided = w.guided /\ w'.say = w.say
    BY <1>1, <1>2, AtHead DEF Place
  <2>2. goal.since < MaxSteps
    BY <1>1, <1>2, RecordFields, GoalAssumption DEF Exhausted, Consistent, Record
  <2>3. Places' /\ Stays
    BY <1>1, <2>1, <2>2 DEF Loop, history, Places, Stays
  <2> QED
    BY <1>1, <2>1, <2>3 DEF Loop, HeadStep, Writes, Remembers, Posts, At
<1>3. CASE Quit(goal) \/ ToBlock("limit")
  <2>1. goal' = goal /\ (Stays \/ Leaves) /\ w' \in Locals /\ Places'
    BY <1>1, <1>3, Quitting, Blocking DEF Loop, history, Plain, Place, Reason
  <2> QED
    BY <1>1, <2>1 DEF Loop, HeadStep, Writes, Remembers, Posts, At
<1> QED
  BY <1>2, <1>3 DEF Loop, Throw

LEMMA AdmitHead ==
    ASSUME IInv, Admit
    PROVE  HeadStep
<1>1. TypeOK /\ Places /\ At("admit")
  BY DEF IInv, Admit
<1>2. CASE UNCHANGED posted /\ (Throw \/ ToBlock("label") \/ Quit(goal))
  <2>1. goal' = goal /\ (Stays \/ Leaves) /\ w' \in Locals /\ Places'
    BY <1>1, <1>2, Quitting, Blocking DEF Throw, Reason, history, Admit
  <2> QED
    BY <1>1, <1>2, <2>1 DEF Admit, HeadStep, Writes, Remembers, Posts, At
<1>3. CASE /\ goal.status = "active"
           /\ w.guided \/ goal.pending = {}
           /\ Move(Begun, [w EXCEPT !.pc = "start", !.guided = FALSE])
           /\ posted' = {}
  <2>1. /\ w' \in Locals /\ w'.pc = "start" /\ ~w'.guided
        /\ lane' = lane /\ event' = event /\ goal' = Begun
    BY <1>1, <1>3, LocalFields DEF Move, Locals, Place
  <2>2. Admitted
    BY <1>1, <1>3, <2>1 DEF Admitted, At
  <2>3. UNCHANGED <<doubled, alone, cut>>
    BY DEF Admit, history
  <2>4. ~cut /\ alone < goal'.since
    BY <1>1, <1>3, <2>1, BegunFields, RecordFields, GoalAssumption
       DEF IInv, Waits, Counted, Places, TypeOK, Consistent, Record
  <2>5. Places' /\ Stays
    BY <2>1, <2>3, <2>4 DEF Places, Stays
  <2> QED
    BY <1>1, <1>3, <2>1, <2>2, <2>3, <2>5
       DEF Admit, HeadStep, Writes, Remembers, Posts, At, history
<1> QED
  BY <1>2, <1>3 DEF Admit

LEMMA StartHead ==
    ASSUME IInv, Start
    PROVE  HeadStep
<1>1. TypeOK /\ Places /\ At("start")
  BY DEF IInv, Start
<1>2. CASE Move(goal, To("turn")) /\ ~First.aborted
  <2>1. /\ goal' = goal /\ lane' = lane /\ event' = event
        /\ w' \in Locals /\ w'.pc = "turn" /\ w'.guided = w.guided /\ w'.say = w.say
    BY <1>1, <1>2, AtHead DEF Place
  <2>2. w.pc = "start" /\ ~cut /\ ~w.guided
    BY <1>1 DEF At, Places
  <2>3. alone \in Nat /\ alone <= MaxSteps
    BY <1>1, GoalAssumption DEF IInv, Counted, TypeOK
  <2>4. alone' = alone + 1 /\ cut' = cut
    BY <1>2, <2>2, <2>3, GoalAssumption DEF Start, At
  <2>5. Places' /\ Stays
    BY <2>1, <2>2, <2>4 DEF Places, Stays
  <2> QED
    BY <1>1, <2>1, <2>2, <2>4, <2>5 DEF Start, HeadStep, Writes, Remembers, Posts, At
<1>3. CASE First.aborted
  <2>1. goal' = goal /\ (Stays \/ Leaves) /\ w' \in Locals /\ Places'
    BY <1>1, <1>3, Quitting, Blocking DEF Start, Failed, Reason
  <2> QED
    BY <1>1, <1>3, <2>1 DEF Start, HeadStep, Writes, Remembers, Posts, At, history
<1> QED
  BY <1>2, <1>3 DEF Start

LEMMA TurnEndHead ==
    ASSUME IInv, TurnEnd
    PROVE  HeadStep
<1>1. TypeOK /\ Places /\ At("turn")
  BY DEF IInv, TurnEnd
<1>2. goal' = goal /\ (Stays \/ Leaves) /\ w' \in Locals /\ Places'
  BY <1>1, Quitting, Moving, Blocking
     DEF TurnEnd, history, Throw, Plain, Place, Reason, Failed
<1> QED
  BY <1>1, <1>2 DEF TurnEnd, HeadStep, Writes, Remembers, Posts, At

LEMMA YieldHead ==
    ASSUME IInv, Yield
    PROVE  HeadStep
<1>1. TypeOK /\ Places /\ At("yield")
  BY DEF IInv, Yield
<1>2. /\ goal' = goal \/ (Owned /\ goal' = Continued)
      /\ Stays \/ Leaves
      /\ w' \in Locals /\ Places'
  BY <1>1, Quitting
     DEF Yield, history, Throw, Plain, Place
<1> QED
  BY <1>1, <1>2 DEF Yield, HeadStep, Writes, Remembers, Posts, At

LEMMA ContinueHead ==
    ASSUME IInv, Continue
    PROVE  HeadStep
<1>1. TypeOK /\ Places /\ At("continue")
  BY DEF IInv, Continue
<1>2. /\ goal' = goal \/ (Owned /\ goal' = Continued)
      /\ Stays \/ Leaves
      /\ w' \in Locals /\ Places'
  BY <1>1, Quitting, Moving
     DEF Continue, history, Throw, Plain, Place
<1> QED
  BY <1>1, <1>2 DEF Continue, HeadStep, Writes, Remembers, Posts, At

LEMMA ConfirmHead ==
    ASSUME IInv, Confirm
    PROVE  HeadStep
<1>1. TypeOK /\ Places /\ At("confirm")
  BY DEF IInv, Confirm
<1>2. goal' = goal /\ (Stays \/ Leaves) /\ w' \in Locals /\ Places'
  BY <1>1, Quitting, Moving, Blocking
     DEF Confirm, history, Throw, Plain, Place, Reason
<1> QED
  BY <1>1, <1>2 DEF Confirm, HeadStep, Writes, Remembers, Posts, At

LEMMA CompleteHead ==
    ASSUME IInv, Complete
    PROVE  HeadStep
<1>1. TypeOK /\ Places /\ At("complete")
  BY DEF IInv, Complete
<1>2. /\ goal' = goal \/ (Owned /\ goal' = Completing)
      /\ Stays \/ Leaves
      /\ w' \in Locals /\ Places'
  BY <1>1, Quitting, Moving
     DEF Complete, history, Throw, Plain, Place
<1> QED
  BY <1>1, <1>2 DEF Complete, HeadStep, Writes, Remembers, Posts, At

LEMMA FinishHead ==
    ASSUME IInv, Finish
    PROVE  HeadStep
<1>1. TypeOK /\ Places /\ At("finish")
  BY DEF IInv, Finish
<1>2. CASE goal.pending # {} /\ Move(goal, To("revert"))
  <2>1. /\ goal' = goal /\ lane' = lane /\ event' = event
        /\ w' \in Locals /\ w'.pc = "revert" /\ w'.guided = w.guided /\ w'.say = w.say
    BY <1>1, <1>2, AtHead DEF Place
  <2>2. Places' /\ Stays
    BY <1>1, <1>2, <2>1 DEF Finish, history, Places, Stays
  <2> QED
    BY <1>1, <2>1, <2>2 DEF Finish, HeadStep, Writes, Remembers, Posts, At
<1>3. CASE \/ Quit(goal) \/ ToBlock("label")
         \/ Move(goal, To("announce")) \/ Move(goal, To("dispatch"))
  <2>1. goal' = goal /\ (Stays \/ Leaves) /\ w' \in Locals /\ Places'
    BY <1>1, <1>3, Quitting, Moving, Blocking DEF Finish, history, Plain, Place, Reason
  <2> QED
    BY <1>1, <2>1 DEF Finish, HeadStep, Writes, Remembers, Posts, At
<1> QED
  BY <1>2, <1>3 DEF Finish, Throw

LEMMA RevertHead ==
    ASSUME IInv, Revert
    PROVE  HeadStep
<1>1. TypeOK /\ Places /\ At("revert")
  BY DEF IInv, Revert
<1>2. goal' = goal \/ (goal.status = "completing" /\ goal' = Resumed({}))
  BY <1>1, Quitting DEF Revert, Throw
<1>3. Leaves /\ w' \in Locals /\ Places'
  BY <1>1, Quitting DEF Revert, Throw
<1>4. w.pc = "revert"
  BY <1>1 DEF At
<1> QED
  BY <1>1, <1>2, <1>3, <1>4 DEF Revert, HeadStep, Writes, Remembers, Posts, At

LEMMA DispatchHead ==
    ASSUME IInv, Dispatch
    PROVE  HeadStep
<1>1. TypeOK /\ Places /\ At("dispatch")
  BY DEF IInv, Dispatch
<1>2. /\ goal' = goal \/ (goal.status = "completing" /\ goal' = Dispatched)
      /\ Stays \/ Leaves
      /\ w' \in Locals /\ Places'
  BY <1>1, Quitting, Moving
     DEF Dispatch, history, Throw, Plain, Place
<1> QED
  BY <1>1, <1>2 DEF Dispatch, HeadStep, Writes, Remembers, Posts, At

LEMMA MutateHead ==
    ASSUME IInv, Mutate
    PROVE  HeadStep
<1>1. TypeOK /\ Places /\ At("mutate")
  BY DEF IInv, Mutate
<1>2. goal' = goal /\ (Stays \/ Leaves) /\ w' \in Locals /\ Places'
  BY <1>1, Quitting, Moving
     DEF Mutate, history, Throw, Plain, Place, Reason
<1> QED
  BY <1>1, <1>2 DEF Mutate, HeadStep, Writes, Remembers, Posts, At

LEMMA MutateEndHead ==
    ASSUME IInv, MutateEnd
    PROVE  HeadStep
<1>1. TypeOK /\ Places /\ At("mutating")
  BY DEF IInv, MutateEnd
<1>2. goal' = goal /\ (Stays \/ Leaves) /\ w' \in Locals /\ Places'
  BY <1>1, Quitting, Moving, Blocking
     DEF MutateEnd, history, Throw, Plain, Place, Reason
<1> QED
  BY <1>1, <1>2 DEF MutateEnd, HeadStep, Writes, Remembers, Posts, At

LEMMA AnnounceHead ==
    ASSUME IInv, Announce
    PROVE  HeadStep
<1>1. TypeOK /\ Places /\ At("announce")
  BY DEF IInv, Announce
<1>2. goal' = goal /\ (Stays \/ Leaves) /\ w' \in Locals /\ Places'
  BY <1>1, Quitting, Noticing
     DEF Announce, history, Throw, Plain, Place, Reason
<1> QED
  BY <1>1, <1>2 DEF Announce, HeadStep, Writes, Remembers, Posts, At

LEMMA BlockHead ==
    ASSUME IInv, Block
    PROVE  HeadStep
<1>1. TypeOK /\ Places /\ At("block")
  BY DEF IInv, Block
<1>2. CASE Throw
  <2>1. goal' = goal /\ (Stays \/ Leaves) /\ w' \in Locals /\ Places'
    BY <1>1, <1>2, Quitting DEF Throw
  <2> QED
    BY <1>1, <2>1 DEF Block, HeadStep, Writes, Remembers, Posts, At
<1>3. CASE Live /\ Move(Blocked(w.say, Mine), To("emit"))
  <2>1. /\ goal' = Blocked(w.say, Mine) /\ lane' = lane /\ event' = event
        /\ w' \in Locals /\ w'.pc = "emit" /\ w'.guided = w.guided /\ w'.say = w.say
    BY <1>1, <1>3, AtHead DEF Place
  <2>2. w.pc = "block" /\ w.say \in Reason \ {"completion"}
    BY <1>1 DEF At, Places
  <2>3. Places' /\ Stays
    BY <1>1, <2>1, <2>2 DEF Block, history, Places, Stays
  <2> QED
    BY <1>1, <1>3, <2>1, <2>2, <2>3 DEF Block, HeadStep, Writes, Remembers, Posts, At
<1> QED
  BY <1>2, <1>3 DEF Block

LEMMA ExistsHead ==
    ASSUME IInv, Exists
    PROVE  HeadStep
<1>1. TypeOK /\ Places /\ At("exists")
  BY DEF IInv, Exists
<1>2. w.pc = "exists" /\ w.say \in Reason
  BY <1>1 DEF At, Places
<1>3. CASE (Known /\ Move(goal, To("settle"))) \/ (~Known /\ Move(goal, To("emit")))
  <2>1. /\ goal' = goal /\ lane' = lane /\ event' = event
        /\ w' \in Locals /\ w'.guided = w.guided /\ w'.say = w.say
        /\ w'.pc = IF Known THEN "settle" ELSE "emit"
    BY <1>1, <1>3, AtHead DEF Place
  <2>2. Places' /\ Stays
    BY <1>1, <1>2, <2>1 DEF Exists, history, Places, Stays, Known
  <2> QED
    BY <1>1, <2>1, <2>2 DEF Exists, HeadStep, Writes, Remembers, Posts, At
<1>4. CASE Quit(goal)
  <2>1. goal' = goal /\ (Stays \/ Leaves) /\ w' \in Locals /\ Places'
    BY <1>1, <1>4, Quitting
  <2> QED
    BY <1>1, <2>1 DEF Exists, HeadStep, Writes, Remembers, Posts, At
<1> QED
  BY <1>3, <1>4 DEF Exists, Throw

LEMMA EmitHead ==
    ASSUME IInv, Emit
    PROVE  HeadStep
<1>1. TypeOK /\ Places /\ At("emit")
  BY DEF IInv, Emit
<1>2. w.pc = "emit" /\ w.say \in Reason
  BY <1>1 DEF At, Places
<1>3. CASE Move(goal, To("settle"))
  <2>1. /\ goal' = goal /\ lane' = lane /\ event' = event
        /\ w' \in Locals /\ w'.pc = "settle" /\ w'.guided = w.guided /\ w'.say = w.say
    BY <1>1, <1>3, AtHead DEF Place
  <2>2. Posts /\ (w.say \in posted' \/ ~Live)
    BY <1>2, <1>3, <2>1, LocalFields DEF Emit, Posts, Live, Terminal, Throw, Quit, Idle
  <2>3. Places' /\ Stays
    BY <1>1, <1>2, <2>1, <2>2 DEF Emit, history, Places, Stays, Live
  <2> QED
    BY <1>1, <2>1, <2>2, <2>3 DEF Emit, HeadStep, Writes, Remembers, At
<1>4. CASE Quit(goal)
  <2>1. goal' = goal /\ (Stays \/ Leaves) /\ w' \in Locals /\ Places'
    BY <1>1, <1>4, Quitting
  <2>2. Posts
    BY <1>2, <2>1 DEF Emit, Posts
  <2> QED
    BY <1>1, <2>1, <2>2 DEF Emit, HeadStep, Writes, Remembers, At
<1> QED
  BY <1>3, <1>4 DEF Emit, Throw

LEMMA SettleHead ==
    ASSUME IInv, Settle
    PROVE  HeadStep
<1>1. TypeOK /\ Places /\ At("settle")
  BY DEF IInv, Settle
<1>2. w.pc = "settle" /\ w.say \in Reason
  BY <1>1 DEF At, Places
<1>3. /\ \/ goal' = goal
         \/ w.say = "completion" /\ goal.status = "completing" /\ goal' = Completed
         \/ w.say # "completion" /\ Live /\ goal' = Cleared
      /\ Stays \/ Leaves
      /\ w' \in Locals /\ Places'
  <2>1. CASE Move(Cleared, [Idle EXCEPT !.pc = "guide"]) /\ Live /\ w.say # "completion"
    <3>1. /\ goal' = Cleared /\ lane' = lane /\ event' = event
          /\ w' \in Locals /\ w'.pc = "guide" /\ ~w'.guided
      BY <2>1 DEF Move, Locals, Idle, Place
    <3> QED
      BY <2>1, <3>1 DEF Places, Stays
  <2>2. CASE Quit(Cleared) /\ Live /\ w.say # "completion"
    BY <1>1, <2>2, Quitting
  <2>3. CASE Quit(goal)
    BY <1>1, <2>3, Quitting
  <2>4. CASE Quit(Completed) /\ goal.status = "completing" /\ w.say = "completion"
    BY <1>1, <2>4, Quitting
  <2> QED
    BY <2>1, <2>2, <2>3, <2>4 DEF Settle, Cleared
<1> QED
  BY <1>1, <1>2, <1>3 DEF Settle, HeadStep, Writes, Remembers, Posts, At

----------------------------------------------------------------------------
(* What a step of the task leaves in the record, field by field, and that    *)
(* it keeps the invariant.                                                   *)

Wrote ==
    \/ goal' = goal
    \/ /\ goal.status = "none" /\ w.pc = "open" /\ First.id = Opening
       /\ goal'.since = 0
       /\ \/ Fenced /\ goal'.status = "stopped"
          \/ ~Fenced /\ goal'.status = "authorizing" /\ goal'.pending = Held
    \/ /\ goal.status = "authorizing" /\ goal'.since = goal.since
       /\ \/ goal'.status = "declined"
          \/ goal'.status = "active" /\ goal'.pending = goal.pending
    \/ /\ Granted /\ goal'.status = "active" /\ goal'.since = 0
       /\ goal'.pending = goal.pending \ Mine
    \/ /\ Admitted /\ goal'.status = "running" /\ goal'.since = goal.since + 1
       /\ goal'.pending = goal.pending
    \/ /\ goal.status = "running" /\ goal'.status \in {"active", "completing"}
       /\ goal'.since = goal.since /\ goal'.pending = goal.pending
    \/ /\ goal.status = "completing" /\ goal'.status = "active" /\ goal'.since = 0
       /\ goal'.pending = goal.pending /\ goal.pending # {}
    \/ /\ goal.status = "completing" /\ goal'.since = goal.since
       /\ goal'.pending = goal.pending
       /\ \/ goal'.status = "completing"
          \/ goal'.status = "active" /\ goal.pending # {}
    \/ /\ w.pc = "settle" /\ w.say = "completion" /\ goal.status = "completing"
       /\ goal'.status = "completed" /\ goal'.since = goal.since
    \/ /\ Live /\ goal'.status = "blocked" /\ goal'.since = goal.since
       /\ goal'.pending = goal.pending \ Mine
    \/ /\ Live /\ goal'.status = goal.status /\ goal'.since = goal.since
       /\ goal'.pending = goal.pending

LEMMA HeadWrites ==
    ASSUME IInv, HeadStep
    PROVE  Consistent(goal') /\ Wrote
<1>1. TypeOK /\ Places /\ LaneHolds /\ MadeOnce /\ Writes /\ lane # << >>
  BY DEF IInv, HeadStep
<1>2. CASE goal' = goal
  BY <1>1, <1>2, RecordFields DEF Wrote
<1>3. CASE w.pc = "open" /\ goal' = Prepared
  <2>1. First.id = Opening /\ event[Opening] = "queued"
    BY <1>1, <1>3 DEF Places, LaneHolds, First, TypeOK, Event
  <2>2. goal.status = "none"
    BY <1>1, <1>3, <2>1 DEF MadeOnce
  <2> QED
    BY <1>1, <1>3, <2>1, <2>2, PreparedFields DEF Wrote
<1>4. CASE goal.status = "authorizing" /\ (goal' = Declined \/ goal' = Authorized)
  BY <1>1, <1>4, AuthorizedFields DEF Wrote
<1>5. CASE Granted
  BY <1>1, <1>5, ResumedFields DEF Wrote, Granted
<1>6. CASE Admitted
  BY <1>1, <1>6, BegunFields DEF Wrote, Admitted
<1>7. CASE Owned /\ (goal' = Continued \/ goal' = Completing)
  BY <1>1, <1>7, ContinuedFields, CompletingFields DEF Wrote, Owned
<1>8. CASE w.pc = "revert" /\ goal.status = "completing" /\ goal' = Resumed({})
  <2>1. goal.pending # {} /\ goal.pending \ {} = goal.pending
    BY <1>1, <1>8 DEF Places
  <2> QED
    BY <1>1, <1>8, <2>1, ResumedFields DEF Wrote
<1>9. CASE goal.status = "completing" /\ goal' = Dispatched
  BY <1>1, <1>9, DispatchedFields DEF Wrote, Yielded
<1>10. CASE /\ w.pc = "settle" /\ w.say = "completion"
            /\ goal.status = "completing" /\ goal' = Completed
  BY <1>1, <1>10, CompletedFields DEF Wrote
<1>11. CASE w.pc = "block" /\ Live /\ goal' = Blocked(w.say, Mine)
  <2>1. w.say \in Reason \ {"completion"}
    BY <1>1, <1>11 DEF Places
  <2> QED
    BY <1>1, <1>11, <2>1, BlockedFields DEF Wrote
<1>12. CASE w.pc = "settle" /\ w.say # "completion" /\ Live /\ goal' = Cleared
  BY <1>1, <1>12, ClearedFields DEF Wrote
<1> QED
  BY <1>1, <1>2, <1>3, <1>4, <1>5, <1>6, <1>7, <1>8, <1>9, <1>10, <1>11, <1>12 DEF Writes

\* The rest of a lane is in it, one place further on.
LEMMA RestOfLane ==
    ASSUME TypeOK, lane # << >>
    PROVE  /\ First \in [id : Event \cup {Recovery}, aborted : BOOLEAN]
           /\ Tail(lane) \in Seq([id : Event \cup {Recovery}, aborted : BOOLEAN])
           /\ \A i \in DOMAIN Tail(lane) :
                  i + 1 \in DOMAIN lane /\ i + 1 # 1 /\ Tail(lane)[i] = lane[i + 1]
           /\ 1 \in DOMAIN lane
<1> DEFINE Task == [id : Event \cup {Recovery}, aborted : BOOLEAN]
<1>1. lane \in Seq(Task)
  BY DEF TypeOK
<1> HIDE DEF Task
<1>2. /\ lane[1] \in Task /\ Tail(lane) \in Seq(Task)
      /\ Len(lane) \in Nat \ {0} /\ DOMAIN lane = 1 .. Len(lane)
      /\ Len(Tail(lane)) = Len(lane) - 1 /\ DOMAIN Tail(lane) = 1 .. Len(lane) - 1
      /\ \A i \in 1 .. Len(lane) - 1 : Tail(lane)[i] = lane[i + 1]
  BY <1>1
<1>3. \A i \in DOMAIN Tail(lane) :
          i + 1 \in DOMAIN lane /\ i + 1 # 1 /\ Tail(lane)[i] = lane[i + 1]
  BY <1>2
<1> QED
  BY <1>2, <1>3 DEF First, Task

LEMMA HeadType ==
    ASSUME IInv, HeadStep
    PROVE  TypeOK'
<1>1. TypeOK /\ Counted /\ Places /\ lane # << >>
  BY DEF IInv, HeadStep
<1>2. Consistent(goal')
  BY HeadWrites
<1>3. /\ event' \in [Event -> {"unsent", "sent", "claimed", "queued", "over"}]
      /\ lane' \in Seq([id : Event \cup {Recovery}, aborted : BOOLEAN])
  BY <1>1, RestOfLane DEF HeadStep, Stays, Leaves, TypeOK
<1>4. posted' \subseteq Reason /\ doubled' \in BOOLEAN
  BY <1>1 DEF HeadStep, Posts, TypeOK, Places
<1>5. alone' \in 0 .. MaxSteps + 1 /\ cut' \in BOOLEAN
  <2>1. alone \in Nat /\ alone <= MaxSteps /\ cut \in BOOLEAN /\ MaxSteps \in Nat
    BY <1>1, GoalAssumption DEF TypeOK, Counted
  <2>2. (alone' = alone \/ alone' = 0 \/ alone' = alone + 1) /\ (cut' = cut \/ cut' = FALSE)
    BY DEF HeadStep, Remembers, Granted, history
  <2>3. alone' \in 0 .. MaxSteps + 1
    BY <2>1, <2>2
  <2>4. cut' \in BOOLEAN
    BY <2>1, <2>2
  <2> QED
    BY <2>3, <2>4
<1>6. w' \in [pc : Place, guided : BOOLEAN, say : Reason \cup {None}]
  BY DEF HeadStep, Locals
<1>7. UNCHANGED <<stop, missed, phase, proc, fit>>
  BY DEF HeadStep, outside
<1> QED
  BY <1>1, <1>2, <1>3, <1>4, <1>5, <1>6, <1>7 DEF TypeOK, Consistent, Record

LEMMA HeadLane ==
    ASSUME IInv, HeadStep
    PROVE  LaneHolds'
<1>1. TypeOK /\ LaneHolds /\ lane # << >>
  BY DEF IInv, HeadStep
<1>2. phase' = phase /\ phase \notin {"down", "preflight"}
  BY <1>1 DEF HeadStep, outside, LaneHolds
<1>3. CASE Stays
  BY <1>1, <1>2, <1>3 DEF Stays, LaneHolds
<1>4. CASE Leaves
  <2>1. \A i \in DOMAIN lane' : lane'[i].id \in Event =>
            lane'[i].id # First.id /\ event[lane'[i].id] = "queued"
    BY <1>1, <1>4, RestOfLane DEF Leaves, LaneHolds, First
  <2>2. \A i, j \in DOMAIN lane' :
            lane'[i].id = lane'[j].id /\ lane'[i].id \in Event => i = j
    <3> SUFFICES ASSUME NEW i \in DOMAIN lane', NEW j \in DOMAIN lane',
                        lane'[i].id = lane'[j].id, lane'[i].id \in Event
                 PROVE  i = j
      OBVIOUS
    <3>1. i + 1 = j + 1 /\ i \in Nat /\ j \in Nat
      BY <1>1, <1>4, RestOfLane DEF Leaves, LaneHolds, TypeOK
    <3> QED
      BY <3>1
  <2> QED
    BY <1>2, <1>4, <2>1, <2>2 DEF Leaves, LaneHolds
<1> QED
  BY <1>3, <1>4 DEF HeadStep

LEMMA HeadMade ==
    ASSUME IInv, HeadStep
    PROVE  MadeOnce'
<1>1. TypeOK /\ LaneHolds /\ MadeOnce /\ lane # << >> /\ Opening \in Event
  BY DEF IInv, HeadStep, Event
<1>2. event[First.id] = "queued" \/ First.id \notin Event
  BY <1>1, RestOfLane DEF LaneHolds, First
<1>3. goal'.status # "none" =>
          goal.status # "none" \/ (First.id = Opening /\ w.pc = "open")
  BY HeadWrites DEF Wrote, Granted, Admitted, Live
<1>4. goal'.status # "none" => event[Opening] \in {"queued", "over"}
  BY <1>1, <1>2, <1>3 DEF MadeOnce
<1>5. CASE Leaves
  BY <1>1, <1>3, <1>4, <1>5 DEF Leaves, MadeOnce
<1>6. CASE Stays
  <2>1. w.pc = "open" => First.id = Opening
    BY DEF IInv, Places
  <2>2. w.pc = "open" /\ w'.pc = "open" => FALSE
    BY <1>6 DEF Stays
  <2> QED
    BY <1>1, <1>3, <1>4, <1>6, <2>1, <2>2 DEF Stays, MadeOnce, First
<1> QED
  BY <1>5, <1>6 DEF HeadStep

LEMMA HeadRest ==
    ASSUME IInv, HeadStep
    PROVE  AnnouncedOnce' /\ Waits' /\ Counted'
<1>1. /\ TypeOK /\ LaneHolds /\ Places /\ AnnouncedOnce /\ Waits /\ Counted
      /\ lane # << >> /\ Posts /\ Remembers /\ Wrote /\ phase' = phase
  BY HeadWrites DEF IInv, HeadStep, outside
<1>2. AnnouncedOnce'
  <2>1. ~doubled'
    BY <1>1 DEF AnnouncedOnce, Posts, Places
  <2>2. goal'.status = "completed" => "completion" \in posted'
    BY <1>1 DEF AnnouncedOnce, Posts, Places, Wrote, Granted, Admitted, Live, Terminal
  <2> QED
    BY <2>1, <2>2 DEF AnnouncedOnce
<1>3. Waits'
  <2>1. CASE Granted
    BY <2>1 DEF Waits, Granted
  <2>2. CASE cut' = cut /\ ~Granted
    <3>1. cut => goal.status \in {"blocked", "stopped"}
      BY <1>1 DEF Waits, LaneHolds
    <3>2. cut => goal'.status \in {"blocked", "stopped"}
      BY <1>1, <2>2, <3>1 DEF Wrote, Admitted, Live, Terminal
    <3> QED
      BY <2>2, <3>2 DEF Waits
  <2> QED
    BY <1>1, <2>1, <2>2 DEF Remembers, history
<1>4. Counted'
  <2>1. /\ alone \in Nat /\ goal.since \in Nat /\ MaxSteps \in Nat
        /\ goal'.since \in Nat
    BY <1>1, RecordFields, HeadWrites, GoalAssumption DEF TypeOK, Consistent, Record
  <2>2. CASE UNCHANGED history
    <3>1. alone' = alone
      BY <2>2 DEF history
    <3> QED
      BY <1>1, <2>1, <3>1 DEF Counted, Wrote, Granted, Admitted, Places, Live, Terminal
  <2>3. CASE Granted
    BY <1>1, <2>1, <2>3, ResumedFields DEF Counted, Granted
  <2>4. CASE w.pc = "start" /\ goal' = goal /\ alone' = alone + 1 /\ cut' = cut
    BY <1>1, <2>1, <2>4 DEF Counted, Places
  <2> QED
    BY <1>1, <2>2, <2>3, <2>4 DEF Remembers
<1> QED
  BY <1>2, <1>3, <1>4

LEMMA HeadPending ==
    ASSUME IInv, HeadStep
    PROVE  PendingHeld' /\ StopReaches'
<1>1. /\ TypeOK /\ LaneHolds /\ PendingHeld /\ StopReaches /\ MadeOnce /\ lane # << >>
      /\ Wrote /\ UNCHANGED <<phase, stop, missed>>
  BY HeadWrites DEF IInv, HeadStep, outside
<1>2. StopReaches'
  <2>1. Fenced' => ~Live'
    BY <1>1 DEF StopReaches, Fenced, Live, Wrote, Terminal, Granted, Admitted
  <2>2. CASE Stays
    BY <1>1, <2>1, <2>2 DEF StopReaches, Stays
  <2>3. CASE Leaves
    BY <1>1, <2>1, <2>3, RestOfLane DEF StopReaches, Leaves
  <2> QED
    BY <2>2, <2>3 DEF HeadStep
<1>3. PendingHeld'
  <2> SUFFICES ASSUME Live', NEW g \in Held'
               PROVE  g \in goal'.pending \/ (lane' # << >> /\ First'.id = g)
    BY DEF PendingHeld
  <2>1. g \in Held /\ g \in Guidance /\ (Leaves => g # First.id)
    BY DEF HeadStep, Stays, Leaves, Held, Event
  <2>2. g \in goal.pending \/ First.id = g \/ goal.status = "none"
    BY <1>1, <2>1 DEF PendingHeld, Live, Wrote, Granted, Admitted, Terminal
  <2>3. g \in goal'.pending \/ First.id = g
    BY <1>1, <2>1, <2>2 DEF Wrote, Granted, Admitted, Live, Terminal, Mine
  <2> QED
    BY <1>1, <2>1, <2>3 DEF HeadStep, Stays, First
<1> QED
  BY <1>2, <1>3

LEMMA HeadKeeps ==
    ASSUME IInv, HeadStep
    PROVE  IInv'
  BY HeadType, HeadLane, HeadMade, HeadRest, HeadPending
     DEF HeadStep, IInv, Replaceable, outside

LEMMA WorkerSteps ==
    ASSUME IInv, Worker
    PROVE  HeadStep
  BY BeginHead, OpenHead, GuideHead, RecoverHead, AuthorizeHead, GrantHead,
     LoopHead, AdmitHead, StartHead, TurnEndHead, YieldHead, ContinueHead,
     ConfirmHead, CompleteHead, FinishHead, RevertHead, DispatchHead, MutateHead,
     MutateEndHead, AnnounceHead, BlockHead, ExistsHead, EmitHead, SettleHead
     DEF Worker

----------------------------------------------------------------------------
(* The user, the webhooks, and the death and start of a process.           *)

\* A task joins the lane at its end.
Joined(x) ==
    /\ lane' # << >>
    /\ \A i \in DOMAIN lane' :
           \/ i \in DOMAIN lane /\ lane'[i] = lane[i]
           \/ i = Len(lane) + 1 /\ lane'[i].id = x /\ ~lane'[i].aborted
    /\ lane # << >> => First' = First
    /\ lane = << >> => First'.id = x

LEMMA Joins ==
    ASSUME TypeOK, NEW t \in [id : Event \cup {Recovery}, aborted : BOOLEAN],
           lane' = Append(lane, t)
    PROVE  /\ lane' \in Seq([id : Event \cup {Recovery}, aborted : BOOLEAN])
           /\ lane' # << >>
           /\ \A i \in DOMAIN lane' : \/ i \in DOMAIN lane /\ lane'[i] = lane[i]
                                      \/ i = Len(lane) + 1 /\ lane'[i] = t
           /\ lane # << >> => First' = First
           /\ lane = << >> => First' = t
<1> DEFINE Task == [id : Event \cup {Recovery}, aborted : BOOLEAN]
<1>1. lane \in Seq(Task) /\ t \in Task
  BY DEF TypeOK
<1> HIDE DEF Task
<1>2. /\ lane' \in Seq(Task) /\ lane' # << >>
      /\ Len(lane) \in Nat /\ DOMAIN lane = 1 .. Len(lane)
      /\ DOMAIN lane' = 1 .. Len(lane) + 1
      /\ \A i \in 1 .. Len(lane) : lane'[i] = lane[i]
      /\ lane'[Len(lane) + 1] = t
  BY <1>1
<1>3. (lane = << >> => Len(lane) = 0) /\ (lane # << >> => 1 \in 1 .. Len(lane))
  BY <1>1
<1> QED
  BY <1>2, <1>3 DEF First, Task

LEMMA SendKeeps ==
    ASSUME IInv, NEW g \in Guidance, Send(g)
    PROVE  IInv'
<1>1. /\ TypeOK /\ LaneHolds /\ MadeOnce /\ Places /\ AnnouncedOnce
      /\ Replaceable /\ Waits /\ Counted /\ PendingHeld /\ StopReaches
  BY DEF IInv
<1>2. /\ event[g] = "unsent" /\ event' = [event EXCEPT ![g] = "sent"] /\ g \in Event
      /\ event' \in [Event -> {"unsent", "sent", "claimed", "queued", "over"}]
      /\ missed' \subseteq Guidance \cup {"stop"} /\ missed' \subseteq missed \cup {g}
      /\ UNCHANGED <<goal, posted, doubled, stop, phase, proc, fit, lane, w, alone, cut>>
  BY <1>1 DEF Send, task, history, TypeOK, Event
<1>3. TypeOK'
  BY <1>1, <1>2 DEF TypeOK
<1>4. LaneHolds'
  BY <1>1, <1>2 DEF LaneHolds
<1>5. Replaceable'
  BY <1>1, <1>2 DEF Replaceable
<1>6. MadeOnce'
  BY <1>1, <1>2, GoalAssumption DEF MadeOnce, First
<1>7. Places'
  BY <1>1, <1>2 DEF Places, First, Live
<1>8. AnnouncedOnce'
  BY <1>1, <1>2 DEF AnnouncedOnce
<1>9. Waits'
  BY <1>1, <1>2 DEF Waits
<1>10. Counted'
  BY <1>1, <1>2 DEF Counted
<1>11. PendingHeld'
  BY <1>1, <1>2 DEF PendingHeld, Held, Live, First, Event
<1>12. StopReaches'
  BY <1>1, <1>2, GoalAssumption DEF StopReaches, Fenced, Live
<1> QED
  BY <1>3, <1>4, <1>5, <1>6, <1>7, <1>8, <1>9, <1>10, <1>11, <1>12
     DEF IInv

LEMMA SendStopKeeps ==
    ASSUME IInv, SendStop
    PROVE  IInv'
<1>1. /\ TypeOK /\ LaneHolds /\ MadeOnce /\ Places /\ AnnouncedOnce
      /\ Replaceable /\ Waits /\ Counted /\ PendingHeld /\ StopReaches
  BY DEF IInv
<1>2. /\ stop' = "sent" /\ missed' \subseteq Guidance \cup {"stop"}
      /\ ("stop" \in missed' => "stop" \in missed \/ phase = "down")
      /\ UNCHANGED <<goal, posted, doubled, event, phase, proc, fit, lane, w, alone, cut>>
  BY <1>1 DEF SendStop, task, history, TypeOK, Up
<1>3. TypeOK'
  BY <1>1, <1>2 DEF TypeOK
<1>4. LaneHolds'
  BY <1>1, <1>2 DEF SendStop, task, history, LaneHolds
<1>5. Replaceable'
  BY <1>1, <1>2 DEF SendStop, task, history, Replaceable
<1>6. MadeOnce'
  BY <1>1, <1>2 DEF SendStop, Event, First, task, history, MadeOnce
<1>7. Places'
  BY <1>1, <1>2 DEF SendStop, First, Live, task, history, Places
<1>8. AnnouncedOnce'
  BY <1>1, <1>2 DEF SendStop, task, history, AnnouncedOnce
<1>9. Waits'
  BY <1>1, <1>2 DEF SendStop, task, history, Waits
<1>10. Counted'
  BY <1>1, <1>2 DEF SendStop, task, history, Counted
<1>11. PendingHeld'
  BY <1>1, <1>2 DEF SendStop, Held, Event, Live, First, task, history, PendingHeld
<1>12. StopReaches'
  BY <1>1, <1>2 DEF StopReaches, Fenced, Live, LaneHolds
<1> QED
  BY <1>3, <1>4, <1>5, <1>6, <1>7, <1>8, <1>9, <1>10, <1>11, <1>12
     DEF IInv

LEMMA ClaimKeeps ==
    ASSUME IInv, NEW g \in Guidance, Claim(g)
    PROVE  IInv'
<1>1. /\ TypeOK /\ LaneHolds /\ MadeOnce /\ Places /\ AnnouncedOnce
      /\ Replaceable /\ Waits /\ Counted /\ PendingHeld /\ StopReaches
  BY DEF IInv
<1>2. /\ Consistent(goal') /\ goal'.status = goal.status /\ goal'.since = goal.since
      /\ goal'.dispatched = goal.dispatched /\ goal.pending \subseteq goal'.pending
      /\ Live /\ event'[g] = "claimed" => g \in goal'.pending
      /\ alone' = alone \/ alone' = 0
  BY <1>1, RecordedFields, RecordFields DEF Claim, Live, TypeOK, Event
<1>3. /\ event[g] = "sent" /\ event' = [event EXCEPT ![g] = event'[g]] /\ g \in Event
      /\ event' \in [Event -> {"unsent", "sent", "claimed", "queued", "over"}]
      /\ event'[g] \in {"over", "claimed"}
      /\ missed' \subseteq missed
      /\ UNCHANGED <<posted, doubled, stop, phase, proc, fit, lane, w, cut>>
  BY <1>1 DEF Claim, task, TypeOK, Event
<1>4. /\ alone \in Nat /\ goal.since \in Nat /\ MaxSteps \in Nat \ {0}
      /\ alone <= MaxSteps /\ goal.pending \in SUBSET Guidance
  BY <1>1, RecordFields, GoalAssumption DEF TypeOK, Counted, Consistent, Record
<1>5. TypeOK'
  BY <1>1, <1>2, <1>3, GoalAssumption DEF TypeOK, Consistent, Record
<1>6. LaneHolds'
  BY <1>1, <1>2, <1>3 DEF LaneHolds
<1>7. Replaceable'
  BY <1>1, <1>2, <1>3 DEF Replaceable
<1>8. MadeOnce'
  <2>1. event'[Opening] = event[Opening]
    BY <1>3, GoalAssumption DEF Event
  <2> QED
    BY <1>1, <1>2, <1>3, <2>1 DEF MadeOnce, First
<1>9. Places'
  BY <1>1, <1>2, <1>3, <1>4 DEF Places, First, Live
<1>10. AnnouncedOnce'
  BY <1>1, <1>2, <1>3 DEF AnnouncedOnce
<1>11. Waits'
  BY <1>1, <1>2, <1>3 DEF Waits
<1>12. Counted'
  BY <1>1, <1>2, <1>3, <1>4 DEF Counted
<1>13. PendingHeld'
  BY <1>1, <1>2, <1>3 DEF PendingHeld, Held, Live, First, Event
<1>14. StopReaches'
  BY <1>1, <1>2, <1>3 DEF StopReaches, Fenced, Live
<1> QED
  BY <1>5, <1>6, <1>7, <1>8, <1>9, <1>10, <1>11, <1>12, <1>13, <1>14
     DEF IInv

LEMMA EnqueueKeeps ==
    ASSUME IInv, NEW e \in Event, Enqueue(e)
    PROVE  IInv'
<1>1. /\ TypeOK /\ LaneHolds /\ MadeOnce /\ Places /\ AnnouncedOnce
      /\ Replaceable /\ Waits /\ Counted /\ PendingHeld /\ StopReaches
  BY DEF IInv
<1>2. /\ event[e] = "claimed"
      /\ event' \in [Event -> {"unsent", "sent", "claimed", "queued", "over"}]
      /\ \/ event' = [event EXCEPT ![e] = "over"] /\ UNCHANGED lane
         \/ event' = [event EXCEPT ![e] = "queued"] /\ Joined(e) /\ (Fenced => e \in Later)
      /\ lane' \in Seq([id : Event \cup {Recovery}, aborted : BOOLEAN])
      /\ phase \notin {"down", "preflight"}
      /\ UNCHANGED <<goal, posted, doubled, stop, missed, phase, proc, fit, w, alone, cut>>
  <2>1. CASE Fenced /\ e \notin Later
    BY <1>1, <2>1 DEF Enqueue, task, history, outside, TypeOK
  <2>2. CASE ~(Fenced /\ e \notin Later)
    <3>1. lane' = Append(lane, [id |-> e, aborted |-> FALSE])
      BY <2>2 DEF Enqueue
    <3>2. /\ [id |-> e, aborted |-> FALSE] \in
                 [id : Event \cup {Recovery}, aborted : BOOLEAN]
          /\ [id |-> e, aborted |-> FALSE].id = e /\ ~[id |-> e, aborted |-> FALSE].aborted
      OBVIOUS
    <3>3. Joined(e) /\ lane' \in Seq([id : Event \cup {Recovery}, aborted : BOOLEAN])
      BY <1>1, <3>1, <3>2, Joins DEF Joined
    <3> QED
      BY <1>1, <2>2, <3>3 DEF Enqueue, task, history, outside, TypeOK
  <2> QED
    BY <2>1, <2>2
<1>3. TypeOK'
  BY <1>1, <1>2 DEF TypeOK
<1>4. LaneHolds'
  <2>1. CASE UNCHANGED lane
    BY <1>1, <1>2, <2>1 DEF LaneHolds
  <2>2. CASE Joined(e) /\ event' = [event EXCEPT ![e] = "queued"]
    <3>1. \A i \in DOMAIN lane : lane[i].id # e
      BY <1>1, <1>2 DEF LaneHolds
    <3>2. event' = [event EXCEPT ![e] = "queued"] /\ event'[e] = "queued"
      BY <1>1, <2>2 DEF TypeOK
    <3>3. \A i \in DOMAIN lane' : lane'[i].id \in Event => event'[lane'[i].id] = "queued"
      BY <1>1, <2>2, <3>1, <3>2 DEF LaneHolds, Joined, TypeOK
    <3>4. \A i, j \in DOMAIN lane' :
              lane'[i].id = lane'[j].id /\ lane'[i].id \in Event => i = j
      BY <1>1, <2>2, <3>1 DEF LaneHolds, Joined
    <3> QED
      BY <1>2, <2>2, <3>3, <3>4 DEF LaneHolds, Joined
  <2> QED
    BY <1>2, <2>1, <2>2
<1>5. Replaceable'
  BY <1>1, <1>2 DEF Replaceable
<1>6. MadeOnce'
  <2>1. goal.status # "none" => event'[Opening] = event[Opening]
    BY <1>1, <1>2 DEF MadeOnce, TypeOK, Event
  <2>2. lane # << >> => First' = First
    BY <1>2 DEF Joined, First
  <2> QED
    BY <1>1, <1>2, <2>1, <2>2 DEF MadeOnce, Joined
<1>7. Places'
  BY <1>1, <1>2 DEF Places, Joined, First, Live, LaneHolds, Idle
<1>8. AnnouncedOnce'
  BY <1>1, <1>2 DEF AnnouncedOnce
<1>9. Waits'
  BY <1>1, <1>2 DEF Waits
<1>10. Counted'
  BY <1>1, <1>2 DEF Counted
<1>11. PendingHeld'
  BY <1>1, <1>2 DEF PendingHeld, Held, Live, Joined, First, Event
<1>12. StopReaches'
  BY <1>1, <1>2, GoalAssumption DEF StopReaches, Fenced, Live, Joined, Older, Event
<1> QED
  BY <1>3, <1>4, <1>5, <1>6, <1>7, <1>8, <1>9, <1>10, <1>11, <1>12
     DEF IInv

LEMMA ClaimStopKeeps ==
    ASSUME IInv, ClaimStop
    PROVE  IInv'
<1>1. /\ TypeOK /\ LaneHolds /\ MadeOnce /\ Places /\ AnnouncedOnce
      /\ Replaceable /\ Waits /\ Counted /\ PendingHeld /\ StopReaches
  BY DEF IInv
<1>2. /\ Consistent(goal') /\ goal'.status \in Terminal \cup {"none"}
      /\ goal'.status = (IF Live THEN "stopped" ELSE goal.status)
      /\ goal'.since = goal.since
  BY <1>1, StoppedFields DEF ClaimStop, Live
<1>3. /\ stop' = "fenced" /\ missed' \subseteq missed
      /\ UNCHANGED <<posted, doubled, event, phase, proc, fit, lane, w, alone, cut>>
  BY <1>1 DEF ClaimStop, task, history, TypeOK
<1>4. TypeOK'
  BY <1>1, <1>2, <1>3 DEF TypeOK, Consistent, Record
<1>5. LaneHolds'
  BY <1>1, <1>3 DEF LaneHolds
<1>6. Replaceable'
  BY <1>1, <1>2, <1>3 DEF Replaceable
<1>7. MadeOnce'
  BY <1>1, <1>2, <1>3 DEF MadeOnce, First, Live
<1>8. Places'
  BY <1>1, <1>2, <1>3 DEF Places, First, Live, Terminal
<1>9. AnnouncedOnce'
  BY <1>1, <1>2, <1>3 DEF AnnouncedOnce, Live
<1>10. Waits'
  BY <1>1, <1>2, <1>3 DEF Waits, Live, Terminal
<1>11. Counted'
  BY <1>1, <1>2, <1>3 DEF Counted, Live, Terminal
<1>12. PendingHeld'
  BY <1>1, <1>2, <1>3 DEF PendingHeld, Live
<1>13. StopReaches'
  BY <1>1, <1>2, <1>3 DEF StopReaches, Fenced, Live
<1> QED
  BY <1>4, <1>5, <1>6, <1>7, <1>8, <1>9, <1>10, <1>11, <1>12, <1>13
     DEF IInv

LEMMA AnswerStopKeeps ==
    ASSUME IInv, AnswerStop
    PROVE  IInv'
<1>1. /\ TypeOK /\ LaneHolds /\ MadeOnce /\ Places /\ AnnouncedOnce
      /\ Replaceable /\ Waits /\ Counted /\ PendingHeld /\ StopReaches
  BY DEF IInv
<1>2. /\ lane' \in Seq([id : Event \cup {Recovery}, aborted : BOOLEAN])
      /\ DOMAIN lane' = DOMAIN lane
      /\ \A i \in DOMAIN lane : /\ lane'[i].id = lane[i].id
                                /\ lane[i].aborted => lane'[i].aborted
                                /\ Older(lane[i].id) => lane'[i].aborted
  <2> DEFINE Task == [id : Event \cup {Recovery}, aborted : BOOLEAN]
  <2>1. lane \in Seq(Task)
    BY <1>1 DEF TypeOK
  <2> HIDE DEF Task
  <2>2. \A i \in DOMAIN lane : lane[i] \in Task
    BY <2>1
  <2>3. \A i \in DOMAIN lane :
            /\ [lane[i] EXCEPT !.aborted = @ \/ Older(lane[i].id)] \in Task
            /\ [lane[i] EXCEPT !.aborted = @ \/ Older(lane[i].id)].id = lane[i].id
            /\ [lane[i] EXCEPT !.aborted = @ \/ Older(lane[i].id)].aborted =
                   (lane[i].aborted \/ Older(lane[i].id))
    BY <2>2 DEF Older, Task
  <2>4. lane' = [i \in DOMAIN lane |->
                    [lane[i] EXCEPT !.aborted = @ \/ Older(lane[i].id)]]
    BY DEF AnswerStop
  <2>5. lane' \in Seq(Task)
    BY <2>1, <2>3, <2>4
  <2> QED
    BY <2>3, <2>4, <2>5 DEF Task
<1>3. /\ stop = "fenced" /\ stop' = "answered"
      /\ (lane' = << >> <=> lane = << >>)
      /\ UNCHANGED <<goal, posted, doubled, event, missed, phase, proc, fit, w, alone, cut>>
  <2>1. lane' = << >> <=> lane = << >>
    BY <1>1, <1>2 DEF TypeOK
  <2> QED
    BY <2>1 DEF AnswerStop, task, history
<1>4. lane # << >> => First'.id = First.id
  BY <1>1, <1>2 DEF First, TypeOK
<1>5. TypeOK'
  BY <1>1, <1>2, <1>3 DEF TypeOK
<1>6. LaneHolds'
  BY <1>1, <1>2, <1>3 DEF LaneHolds
<1>7. Replaceable'
  BY <1>1, <1>2, <1>3 DEF Replaceable
<1>8. MadeOnce'
  BY <1>1, <1>2, <1>3, <1>4 DEF MadeOnce
<1>9. Places'
  BY <1>1, <1>2, <1>3, <1>4 DEF Places, Live, LaneHolds, Idle
<1>10. AnnouncedOnce'
  BY <1>1, <1>3 DEF AnnouncedOnce
<1>11. Waits'
  BY <1>1, <1>3 DEF Waits
<1>12. Counted'
  BY <1>1, <1>3 DEF Counted
<1>13. PendingHeld'
  BY <1>1, <1>2, <1>3, <1>4 DEF PendingHeld, Live, Held
<1>14. StopReaches'
  BY <1>1, <1>2, <1>3 DEF StopReaches, Fenced, Live
<1> QED
  BY <1>5, <1>6, <1>7, <1>8, <1>9, <1>10, <1>11, <1>12, <1>13, <1>14
     DEF IInv

LEMMA CrashKeeps ==
    ASSUME IInv, Crash
    PROVE  IInv'
<1>1. /\ TypeOK /\ LaneHolds /\ MadeOnce /\ Places /\ AnnouncedOnce
      /\ Replaceable /\ Waits /\ Counted /\ PendingHeld /\ StopReaches
  BY DEF IInv
<1>2. /\ phase' = "down" /\ proc < MaxRestarts /\ lane' = << >> /\ w' = Idle
      /\ event' = [e \in Event |-> IF event[e] = "queued" THEN "over" ELSE event[e]]
      /\ event' \in [Event -> {"unsent", "sent", "claimed", "queued", "over"}]
      /\ cut' = (cut \/ goal.status = "running") /\ cut' \in BOOLEAN
      /\ UNCHANGED <<goal, posted, doubled, stop, missed, proc, fit, alone>>
  BY <1>1 DEF Crash, TypeOK
<1>3. TypeOK'
  BY <1>1, <1>2, LocalFields DEF TypeOK, Locals
<1>4. LaneHolds'
  BY <1>1, <1>2 DEF LaneHolds
<1>5. Replaceable'
  BY <1>1, <1>2 DEF Replaceable
<1>6. MadeOnce'
  BY <1>1, <1>2 DEF MadeOnce, Event
<1>7. Places'
  BY <1>1, <1>2 DEF Places, Idle
<1>8. AnnouncedOnce'
  BY <1>1, <1>2 DEF AnnouncedOnce
<1>9. Waits'
  BY <1>1, <1>2 DEF Waits
<1>10. Counted'
  BY <1>1, <1>2 DEF Counted
<1>11. PendingHeld'
  <2> SUFFICES ASSUME Live, NEW g \in Held' PROVE g \in goal.pending
    BY <1>2 DEF PendingHeld, Live
  <2>1. event[g] = "claimed" /\ g \in Guidance /\ g \in Held
    BY <1>2 DEF Held, Event
  <2>2. lane # << >> => First.id # g
    BY <1>1, <2>1, RestOfLane DEF LaneHolds, First, Event
  <2> QED
    BY <1>1, <2>1, <2>2 DEF PendingHeld
<1>12. StopReaches'
  BY <1>1, <1>2 DEF StopReaches, Fenced, Live
<1> QED
  BY <1>3, <1>4, <1>5, <1>6, <1>7, <1>8, <1>9, <1>10, <1>11, <1>12
     DEF IInv

LEMMA RestartKeeps ==
    ASSUME IInv, Restart
    PROVE  IInv'
<1>1. /\ TypeOK /\ LaneHolds /\ MadeOnce /\ Places /\ AnnouncedOnce
      /\ Replaceable /\ Waits /\ Counted /\ PendingHeld /\ StopReaches
  BY DEF IInv
<1>2. /\ phase = "down" /\ phase' = (IF Live THEN "preflight" ELSE "accept")
      /\ lane = << >> /\ fit' \in {"same", "unlabelled", "other"}
      /\ proc' \in 0 .. MaxRestarts
      /\ UNCHANGED <<goal, posted, doubled, event, stop, missed, lane, w, alone, cut>>
  BY <1>1, GoalAssumption DEF Restart, task, history, LaneHolds, Replaceable, TypeOK
<1>3. TypeOK'
  BY <1>1, <1>2 DEF TypeOK
<1>4. LaneHolds'
  BY <1>1, <1>2 DEF LaneHolds
<1>5. Replaceable'
  BY <1>1, <1>2 DEF Replaceable
<1>6. MadeOnce'
  BY <1>1, <1>2 DEF MadeOnce, First
<1>7. Places'
  BY <1>1, <1>2 DEF Places, First, Live
<1>8. AnnouncedOnce'
  BY <1>1, <1>2 DEF AnnouncedOnce
<1>9. Waits'
  BY <1>1, <1>2 DEF Waits, Live, Terminal
<1>10. Counted'
  BY <1>1, <1>2 DEF Counted
<1>11. PendingHeld'
  BY <1>1, <1>2 DEF PendingHeld, Held, Live, First
<1>12. StopReaches'
  BY <1>1, <1>2 DEF StopReaches, Fenced, Live, LaneHolds
<1> QED
  BY <1>3, <1>4, <1>5, <1>6, <1>7, <1>8, <1>9, <1>10, <1>11, <1>12
     DEF IInv

LEMMA PreflightKeeps ==
    ASSUME IInv, Preflight
    PROVE  IInv'
<1>1. /\ TypeOK /\ LaneHolds /\ MadeOnce /\ Places /\ AnnouncedOnce
      /\ Replaceable /\ Waits /\ Counted /\ PendingHeld /\ StopReaches
  BY DEF IInv
<1>2. /\ Consistent(goal') /\ goal'.since = goal.since /\ goal'.pending = goal.pending
      /\ goal'.status = (IF goal.status = "running" THEN "blocked" ELSE goal.status)
  <2>1. "turn" \in Reason \ {"completion"} /\ goal.pending \ {} = goal.pending
    BY DEF Reason
  <2>2. CASE goal.status = "running"
    <3>1. goal' = Blocked("turn", {})
      BY <2>2 DEF Preflight, Interrupted
    <3> QED
      BY <1>1, <2>1, <2>2, <3>1, BlockedFields
  <2>3. CASE goal.status # "running"
    BY <1>1, <2>3, RecordFields DEF Preflight
  <2> QED
    BY <2>2, <2>3
<1>3. /\ phase = "preflight" /\ phase' = "reconcile" /\ lane = << >> /\ w = Idle
      /\ UNCHANGED <<posted, doubled, event, stop, missed, proc, fit, lane, w, alone, cut>>
  BY <1>1 DEF Preflight, task, history, LaneHolds
<1>4. TypeOK'
  BY <1>1, <1>2, <1>3 DEF TypeOK, Consistent, Record
<1>5. LaneHolds'
  BY <1>1, <1>3 DEF LaneHolds
<1>6. Replaceable'
  BY <1>1, <1>2, <1>3 DEF Replaceable
<1>7. MadeOnce'
  BY <1>1, <1>2, <1>3 DEF MadeOnce, First
<1>8. Places'
  BY <1>1, <1>2, <1>3 DEF Places, Idle
<1>9. AnnouncedOnce'
  BY <1>1, <1>2, <1>3 DEF AnnouncedOnce
<1>10. Waits'
  BY <1>1, <1>2, <1>3 DEF Waits
<1>11. Counted'
  BY <1>1, <1>2, <1>3 DEF Counted
<1>12. PendingHeld'
  BY <1>1, <1>2, <1>3 DEF PendingHeld, Held, Live, First, Terminal
<1>13. StopReaches'
  BY <1>1, <1>2, <1>3 DEF StopReaches, Fenced, Live, Terminal
<1> QED
  BY <1>4, <1>5, <1>6, <1>7, <1>8, <1>9, <1>10, <1>11, <1>12, <1>13
     DEF IInv

LEMMA ReconciledKeeps ==
    ASSUME IInv, Reconciled
    PROVE  IInv'
<1>1. /\ TypeOK /\ LaneHolds /\ MadeOnce /\ Places /\ AnnouncedOnce
      /\ Replaceable /\ Waits /\ Counted /\ PendingHeld /\ StopReaches
  BY DEF IInv
<1>2. TypeOK'
  BY <1>1 DEF Reconciled, task, history, TypeOK
<1>3. LaneHolds'
  BY <1>1 DEF Reconciled, task, history, LaneHolds
<1>4. Replaceable'
  BY <1>1 DEF Reconciled, task, history, Replaceable
<1>5. MadeOnce'
  BY <1>1 DEF Reconciled, First, task, history, MadeOnce
<1>6. Places'
  BY <1>1 DEF Reconciled, First, Live, task, history, Places
<1>7. AnnouncedOnce'
  BY <1>1 DEF Reconciled, task, history, AnnouncedOnce
<1>8. Waits'
  BY <1>1 DEF Reconciled, task, history, Waits
<1>9. Counted'
  BY <1>1 DEF Reconciled, task, history, Counted
<1>10. PendingHeld'
  BY <1>1 DEF Reconciled, Held, Live, First, task, history, PendingHeld
<1>11. StopReaches'
  BY <1>1 DEF Reconciled, Read, Fenced, Live, task, history, StopReaches
<1> QED
  BY <1>2, <1>3, <1>4, <1>5, <1>6, <1>7, <1>8, <1>9, <1>10, <1>11
     DEF IInv

LEMMA RecoveredKeeps ==
    ASSUME IInv, Recovered
    PROVE  IInv'
<1>1. /\ TypeOK /\ LaneHolds /\ MadeOnce /\ Places /\ AnnouncedOnce
      /\ Replaceable /\ Waits /\ Counted /\ PendingHeld /\ StopReaches
  BY DEF IInv
<1>2. /\ phase \in {"accept", "recover"} /\ phase' = "ready"
      /\ UNCHANGED lane \/ (Joined(Recovery) /\ phase = "recover" /\ Live)
      /\ lane' \in Seq([id : Event \cup {Recovery}, aborted : BOOLEAN])
      /\ UNCHANGED <<goal, posted, doubled, event, stop, missed, proc, fit, w, alone, cut>>
  <2>1. CASE phase = "recover" /\ Live
    <3>1. lane' = Append(lane, [id |-> Recovery, aborted |-> FALSE])
      BY <2>1 DEF Recovered
    <3>2. /\ [id |-> Recovery, aborted |-> FALSE] \in
                 [id : Event \cup {Recovery}, aborted : BOOLEAN]
          /\ [id |-> Recovery, aborted |-> FALSE].id = Recovery
          /\ ~[id |-> Recovery, aborted |-> FALSE].aborted
      OBVIOUS
    <3>3. Joined(Recovery) /\ lane' \in Seq([id : Event \cup {Recovery}, aborted : BOOLEAN])
      BY <1>1, <3>1, <3>2, Joins DEF Joined
    <3> QED
      BY <1>1, <2>1, <3>3 DEF Recovered, task, history
  <2>2. CASE ~(phase = "recover" /\ Live)
    BY <1>1, <2>2 DEF Recovered, task, history, TypeOK
  <2> QED
    BY <2>1, <2>2
<1>3. TypeOK'
  BY <1>1, <1>2 DEF TypeOK
<1>4. LaneHolds'
  <2>1. CASE UNCHANGED lane
    BY <1>1, <1>2, <2>1 DEF LaneHolds
  <2>2. CASE Joined(Recovery)
    BY <1>1, <1>2, <2>2, GoalAssumption DEF LaneHolds, Joined, TypeOK, Event
  <2> QED
    BY <1>2, <2>1, <2>2
<1>5. Replaceable'
  BY <1>1, <1>2 DEF Replaceable
<1>6. MadeOnce'
  BY <1>1, <1>2 DEF MadeOnce, Joined, First
<1>7. Places'
  BY <1>1, <1>2 DEF Places, Joined, First, Live, LaneHolds, Idle
<1>8. AnnouncedOnce'
  BY <1>1, <1>2 DEF AnnouncedOnce
<1>9. Waits'
  BY <1>1, <1>2 DEF Waits
<1>10. Counted'
  BY <1>1, <1>2 DEF Counted
<1>11. PendingHeld'
  BY <1>1, <1>2 DEF PendingHeld, Held, Live, Joined, First
<1>12. StopReaches'
  BY <1>1, <1>2 DEF StopReaches, Fenced, Live, Joined
<1> QED
  BY <1>3, <1>4, <1>5, <1>6, <1>7, <1>8, <1>9, <1>10, <1>11, <1>12
     DEF IInv

----------------------------------------------------------------------------
(* The theorems.                                                           *)

LEMMA InitHolds == Init => IInv
<1> SUFFICES ASSUME Init PROVE IInv
  OBVIOUS
<1>1. goal \in Record
  BY GoalAssumption DEF Init, NoGoal, Record, Reason, Terminal
<1>2. /\ goal.status = "none" /\ goal.since = 0 /\ goal.owner = None
      /\ goal.notice = None /\ ~goal.dispatched
  BY DEF Init, NoGoal
<1>3. TypeOK
  <2>1. /\ event \in [Event -> {"unsent", "sent", "claimed", "queued", "over"}]
        /\ w \in [pc : Place, guided : BOOLEAN, say : Reason \cup {None}]
        /\ lane \in Seq([id : Event \cup {Recovery}, aborted : BOOLEAN])
    BY DEF Init, Idle, Place
  <2>2. /\ goal.status = "running" <=> goal.owner # None
        /\ goal.status = "completing" <=> goal.notice = "completion"
        /\ goal.dispatched => goal.status \in {"completing", "completed", "stopped"}
    BY <1>2, GoalAssumption DEF Reason
  <2>3. /\ posted \subseteq Reason /\ doubled \in BOOLEAN /\ cut \in BOOLEAN
        /\ stop \in {"unsent", "sent", "fenced", "answered"}
        /\ missed \subseteq Guidance \cup {"stop"}
        /\ phase = "ready" /\ fit = "same"
    BY DEF Init
  <2>4. proc \in 0 .. MaxRestarts /\ alone \in 0 .. MaxSteps + 1
    BY GoalAssumption DEF Init
  <2> QED
    BY <1>1, <2>1, <2>2, <2>3, <2>4 DEF TypeOK, Record
<1>4. LaneHolds /\ Replaceable /\ MadeOnce
  BY <1>2 DEF Init, LaneHolds, Replaceable, MadeOnce
<1>5. Places /\ AnnouncedOnce
  BY <1>2 DEF Init, Places, AnnouncedOnce, Idle
<1>6. Waits /\ Counted /\ PendingHeld /\ StopReaches
  BY <1>2, GoalAssumption
     DEF Init, Waits, Counted, PendingHeld, StopReaches, Live, Fenced, Terminal
<1> QED
  BY <1>3, <1>4, <1>5, <1>6 DEF IInv

LEMMA StepKeeps == IInv /\ [Next]_vars => IInv'
<1> SUFFICES ASSUME IInv, [Next]_vars PROVE IInv'
  OBVIOUS
<1>1. CASE Worker
  BY <1>1, WorkerSteps, HeadKeeps
<1>2. CASE \E g \in Guidance : Send(g) \/ Claim(g)
  BY <1>2, SendKeeps, ClaimKeeps
<1>3. CASE \E e \in Event : Enqueue(e)
  BY <1>3, EnqueueKeeps
<1>4. CASE SendStop \/ ClaimStop \/ AnswerStop
  BY <1>4, SendStopKeeps, ClaimStopKeeps, AnswerStopKeeps
<1>5. CASE Crash \/ Restart \/ Preflight \/ Reconciled \/ Recovered
  BY <1>5, CrashKeeps, RestartKeeps, PreflightKeeps, ReconciledKeeps, RecoveredKeeps
<1>6. CASE UNCHANGED vars
  BY <1>6 DEF vars, IInv, TypeOK, LaneHolds, Replaceable, MadeOnce, Places,
              AnnouncedOnce, Waits, Counted, PendingHeld, StopReaches, Live, Fenced,
              First, Held
<1> QED
  BY <1>1, <1>2, <1>3, <1>4, <1>5, <1>6 DEF Next

\* The inductive invariant, for any messages, any limit of steps and any number
\* of restarts: record, lane, task, claims and counters of the goal fit together.
THEOREM Invariance == Spec => []IInv
  BY InitHolds, StepKeeps, PTL DEF Spec

\* Type correctness of the goal, its record and its lane.
THEOREM TypeCorrect == Spec => []TypeOK
<1>1. IInv => TypeOK
  BY DEF IInv
<1> QED
  BY <1>1, Invariance, PTL

\* A turn that a crash cut off is not followed by another one until the user has
\* taken the goal up again.
THEOREM CutOffTurnsWait == Spec => []CutOffWaits
<1>1. IInv => CutOffWaits
  BY DEF IInv, Places, CutOffWaits
<1> QED
  BY <1>1, Invariance, PTL

\* Between two messages of the user the provider has at most MaxSteps turns,
\* across restarts and given-up completions.
THEOREM AutonomyBounded == Spec => []BoundedAutonomy
<1>1. IInv => BoundedAutonomy
  BY DEF IInv, Counted, BoundedAutonomy
<1> QED
  BY <1>1, Invariance, PTL

\* The final response of a completed goal is with Linear, and came once.
THEOREM CompletionAnnounced == Spec => []AnnouncedOnce
<1>1. IInv => AnnouncedOnce
  BY DEF IInv
<1> QED
  BY <1>1, Invariance, PTL

\* When the completion crosses its dispatch boundary, no message that was accepted
\* before is without its turn.
THEOREM GuidanceRunsFirst == Spec => GuidanceFirst
<1>1. ASSUME IInv, [Next]_vars, ~goal.dispatched, goal'.dispatched
      PROVE  Held \subseteq Mine
  <2>1. TypeOK /\ PendingHeld
    BY <1>1 DEF IInv
  <2>2. goal' = Dispatched /\ goal.status = "completing" /\ goal.pending = {}
    <3>1. CASE Worker
      <4>1. Writes /\ Consistent(goal') /\ Places
        BY <1>1, <3>1, WorkerSteps, HeadWrites DEF HeadStep, IInv
      <4>2. CASE goal.status = "completing" /\ goal' = Dispatched
        BY <1>1, <2>1, <4>2, DispatchedFields DEF Yielded
      <4>3. goal'.status \in {"completing", "completed", "stopped"}
        BY <1>1, <4>1 DEF Consistent
      <4>4. CASE w.pc = "open" /\ goal' = Prepared
        BY <1>1, <2>1, <4>4, PreparedFields
      <4>5. CASE goal.status = "authorizing" /\ (goal' = Declined \/ goal' = Authorized)
        BY <2>1, <4>3, <4>5, AuthorizedFields
      <4>6. CASE \/ Granted
                 \/ w.pc = "revert" /\ goal.status = "completing" /\ goal' = Resumed({})
        BY <2>1, <4>3, <4>6, ResumedFields DEF Granted
      <4>7. CASE Admitted
        BY <2>1, <4>3, <4>7, BegunFields DEF Admitted
      <4>8. CASE Owned /\ (goal' = Continued \/ goal' = Completing)
        BY <1>1, <2>1, <4>3, <4>8, ContinuedFields, CompletingFields
      <4>9. CASE goal' = Completed
        BY <1>1, <2>1, <4>9, CompletedFields
      <4>10. CASE w.pc = "block" /\ goal' = Blocked(w.say, Mine)
        BY <2>1, <4>1, <4>3, <4>10, BlockedFields DEF Places
      <4>11. CASE w.say # "completion" /\ goal' = Cleared
        BY <1>1, <2>1, <4>11, ClearedFields
      <4> QED
        BY <1>1, <4>1, <4>2, <4>4, <4>5, <4>6, <4>7, <4>8, <4>9, <4>10, <4>11 DEF Writes
    <3>2. CASE \E g \in Guidance : Send(g) \/ Claim(g)
      BY <1>1, <2>1, <3>2, RecordedFields DEF Send, Claim
    <3>3. CASE (\E e \in Event : Enqueue(e)) \/ SendStop \/ AnswerStop
      BY <1>1, <3>3 DEF Enqueue, SendStop, AnswerStop
    <3>4. CASE ClaimStop
      BY <1>1, <2>1, <3>4, StoppedFields DEF ClaimStop
    <3>5. CASE Crash \/ Restart \/ Reconciled \/ Recovered
      BY <1>1, <3>5 DEF Crash, Restart, Reconciled, Recovered
    <3>6. CASE Preflight
      <4>1. ~Interrupted.dispatched
        BY DEF Interrupted, Blocked, TypeOK
      <4> QED
        BY <1>1, <3>6, <4>1 DEF Preflight
    <3>7. CASE UNCHANGED vars
      BY <1>1, <3>7 DEF vars
    <3> QED
      BY <1>1, <3>1, <3>2, <3>3, <3>4, <3>5, <3>6, <3>7 DEF Next
  <2>3. Live
    BY <2>2 DEF Live, Terminal
  <2> QED
    BY <2>1, <2>2, <2>3 DEF PendingHeld, Held, Mine
<1>2. IInv /\ [Next]_vars => (~goal.dispatched /\ goal'.dispatched => Held \subseteq Mine)
  BY <1>1
<1> QED
  BY <1>2, Invariance, PTL DEF Spec, GuidanceFirst

\* A stop that was answered holds for every task that is not newer than it, and
\* one that waits to be read holds for the goal that a restart would take up.
THEOREM AnsweredStopHolds == Spec => StopHolds
<1>1. ASSUME IInv, [Next]_vars, BeginsTurn \/ BeginsMutation
      PROVE  /\ stop = "answered" => First.id \in Later
             /\ "stop" \in missed => First.id # Recovery
  <2>1. TypeOK /\ StopReaches /\ w.pc \in {"start", "mutate"} /\ w' # w /\ w'.pc # "idle"
    BY <1>1 DEF IInv, BeginsTurn, BeginsMutation
  <2>2. Worker
    <3>1. CASE \E g \in Guidance : Send(g) \/ Claim(g)
      BY <2>1, <3>1 DEF Send, Claim, task
    <3>2. CASE (\E e \in Event : Enqueue(e)) \/ SendStop \/ ClaimStop \/ AnswerStop
      BY <2>1, <3>2 DEF Enqueue, SendStop, ClaimStop, AnswerStop, task
    <3>3. CASE Crash
      BY <2>1, <3>3 DEF Crash, Idle
    <3>4. CASE Restart \/ Preflight \/ Reconciled \/ Recovered
      BY <2>1, <3>4 DEF Restart, Preflight, Reconciled, Recovered, task
    <3>5. CASE UNCHANGED vars
      BY <2>1, <3>5 DEF vars
    <3> QED
      BY <1>1, <3>1, <3>2, <3>3, <3>4, <3>5 DEF Next
  <2>3. Start \/ Mutate
    BY <2>1, <2>2 DEF Worker, At, Begin, Open, Guide, Recover, Authorize, Grant, Loop, Admit,
       Start, TurnEnd, Yield, Continue, Confirm, Complete, Finish, Revert,
       Dispatch, Mutate, MutateEnd, Announce, Block, Exists, Emit, Settle
  <2>4. ~First.aborted
    <3>1. ASSUME First.aborted PROVE w'.pc \in {"idle", "block"}
      <4>1. w \in Locals
        BY <2>1, LocalFields
      <4>2. Quit(goal) \/ ToBlock("turn")
        BY <2>3, <3>1 DEF Start, Mutate, Failed, Throw
      <4>3. CASE Quit(goal)
        BY <4>3 DEF Quit, Idle
      <4>4. CASE ToBlock("turn")
        <5>1. w' = [w EXCEPT !.pc = "block", !.say = "turn"]
          BY <4>4 DEF ToBlock, Move
        <5> QED
          BY <4>1, <5>1 DEF Locals
      <4> QED
        BY <4>2, <4>3, <4>4
    <3> QED
      BY <1>1, <3>1 DEF BeginsTurn, BeginsMutation
  <2>5. lane # << >>
    BY <2>3 DEF Start, Mutate, At
  <2>6. 1 \in DOMAIN lane
    BY <2>1, <2>5, RestOfLane
  <2> QED
    BY <2>1, <2>4, <2>6 DEF StopReaches, Older, First
<1>2. IInv /\ [Next]_vars =>
          (BeginsTurn \/ BeginsMutation =>
              /\ stop = "answered" => First.id \in Later
              /\ "stop" \in missed => First.id # Recovery)
  BY <1>1
<1> QED
  BY <1>2, Invariance, PTL DEF Spec, StopHolds
=============================================================================
