--------------------------- MODULE SessionRunsProofs ---------------------------
(***************************************************************************)
(* Proofs about SessionRuns, for any events, any stop and any shutdown.    *)
(***************************************************************************)
EXTENDS SessionRuns, SequenceTheorems, TLAPS

\* An event that takes its place in the lane.
LEMMA Joined ==
    ASSUME lane \in Seq(Prompt), IsInjective(lane), NEW p \in Prompt, p \notin ToSet(lane)
    PROVE  /\ Append(lane, p) \in Seq(Prompt)
           /\ IsInjective(Append(lane, p))
           /\ ToSet(Append(lane, p)) = ToSet(lane) \cup {p}
           /\ Append(lane, p) # << >>
           /\ lane # << >> => Head(Append(lane, p)) = Head(lane)
<1> DEFINE l == Append(lane, p)
           n == Len(lane)
<1>1. /\ l \in Seq(Prompt) /\ n \in Nat /\ l # << >>
      /\ DOMAIN lane = 1 .. n /\ DOMAIN l = 1 .. n + 1
      /\ \A i \in 1 .. n : l[i] = lane[i]
      /\ l[n + 1] = p
  OBVIOUS
<1>2. \A i \in 1 .. n : lane[i] # p
  BY <1>1 DEF ToSet
<1>3. IsInjective(l)
  BY <1>1, <1>2 DEF IsInjective
<1>4. ToSet(l) = ToSet(lane) \cup {p}
  <2>1. ToSet(l) \subseteq ToSet(lane) \cup {p}
    BY <1>1 DEF ToSet
  <2>2. ToSet(lane) \subseteq ToSet(l) /\ p \in ToSet(l)
    BY <1>1 DEF ToSet
  <2> QED
    BY <2>1, <2>2
<1>5. lane # << >> => Head(l) = Head(lane)
  OBVIOUS
<1> QED
  BY <1>1, <1>3, <1>4, <1>5

\* The event at the head leaves.
LEMMA Left ==
    ASSUME lane \in Seq(Prompt), IsInjective(lane), lane # << >>
    PROVE  /\ Tail(lane) \in Seq(Prompt)
           /\ IsInjective(Tail(lane))
           /\ ToSet(Tail(lane)) = ToSet(lane) \ {Head(lane)}
<1> DEFINE l == Tail(lane)
           n == Len(lane)
<1>1. /\ l \in Seq(Prompt) /\ n \in Nat /\ n > 0 /\ Head(lane) = lane[1]
      /\ DOMAIN lane = 1 .. n /\ DOMAIN l = 1 .. n - 1
      /\ \A i \in 1 .. n - 1 : l[i] = lane[i + 1]
  OBVIOUS
<1>2. IsInjective(l)
  BY <1>1 DEF IsInjective
<1>3. ToSet(l) \subseteq ToSet(lane) \ {lane[1]}
  BY <1>1 DEF ToSet, IsInjective
<1>4. ASSUME NEW q \in ToSet(lane), q # lane[1] PROVE q \in ToSet(l)
  <2>1. PICK i \in 1 .. n : lane[i] = q
    BY <1>1 DEF ToSet
  <2>2. i - 1 \in 1 .. n - 1 /\ l[i - 1] = q
    BY <1>1, <1>4, <2>1
  <2> QED
    BY <1>1, <2>2 DEF ToSet
<1> QED
  BY <1>1, <1>2, <1>3, <1>4

\* An abort keeps the types of what it sets.
LEMMA AbortTyped ==
    ASSUME TypeOK, NEW S, NEW why \in {"stop", "inactive", "close"}, Abort(S, why)
    PROVE  /\ cut' \in [Prompt -> {None, "stop", "inactive", "close"}]
           /\ turn' \in [accept : BOOLEAN, inactive : BOOLEAN, left : 0 .. MaxEvents,
                        race : {"open", "runtime", "error", "watchdog"}]
<1>1. cut' \in [Prompt -> {None, "stop", "inactive", "close"}]
  BY DEF Abort, TypeOK
<1>2. \/ turn' = turn
      \/ turn' = [turn EXCEPT !.accept = FALSE, !.inactive = (why = "inactive"),
                             !.race = IF turn.race = "open" THEN "watchdog" ELSE turn.race]
  BY DEF Abort
<1>3. PICK b \in BOOLEAN, r \in {"open", "runtime", "error", "watchdog"} :
        turn' = turn \/ turn' = [turn EXCEPT !.accept = FALSE, !.inactive = b, !.race = r]
  <2>1. (why = "inactive") \in BOOLEAN
    OBVIOUS
  <2>2. turn.race \in {"open", "runtime", "error", "watchdog"}
    BY DEF TypeOK
  <2> QED
    BY <1>2, <2>1, <2>2
<1>4. turn \in [accept : BOOLEAN, inactive : BOOLEAN, left : 0 .. MaxEvents,
               race : {"open", "runtime", "error", "watchdog"}]
  BY DEF TypeOK
<1>5. [turn EXCEPT !.accept = FALSE, !.inactive = b, !.race = r] \in
          [accept : BOOLEAN, inactive : BOOLEAN, left : 0 .. MaxEvents,
           race : {"open", "runtime", "error", "watchdog"}]
  BY <1>4
<1> QED
  BY <1>1, <1>3, <1>4, <1>5

----------------------------------------------------------------------------
(* Every step keeps the invariant. *)

LEMMA ArriveKeeps ==
    ASSUME IInv, NEW p \in Prompt, Arrive(p)
    PROVE  IInv'
<1> USE RunsAssumption
<1>1. TypeOK'
  BY DEF IInv, Arrive, provider, entry, shutdown, TypeOK
<1>2. HeadOnly'
  BY DEF IInv, Arrive, entry, HeadOnly
<1>3. Cuts'
  BY DEF IInv, Arrive, provider, shutdown, Cuts, Closing
<1>4. Turns'
  BY DEF IInv, Arrive, provider, Turns
<1>5. Reasons'
  BY DEF IInv, Arrive, provider, Reasons
<1>6. Outcomes'
  BY DEF IInv, Arrive, provider, TypeOK, Outcomes
<1>7. Stopped'
  BY DEF IInv, Arrive, shutdown, Stopped, Closing
<1>8. Drains'
  BY DEF IInv, Arrive, entry, shutdown, Drains
<1> QED
  BY <1>1, <1>2, <1>3, <1>4, <1>5, <1>6, <1>7, <1>8 DEF IInv

LEMMA TakeUpKeeps ==
    ASSUME IInv, NEW p \in Prompt, TakeUp(p)
    PROVE  IInv'
<1> USE RunsAssumption
<1>1. TypeOK'
  BY DEF IInv, TakeUp, provider, shutdown, TypeOK
<1>2. HeadOnly'
  BY DEF IInv, TakeUp, HeadOnly
<1>3. Cuts'
  BY DEF IInv, TakeUp, provider, shutdown, Cuts, Closing
<1>4. Turns'
  BY DEF IInv, TakeUp, provider, Turns
<1>5. Reasons'
  BY DEF IInv, TakeUp, provider, Reasons
<1>6. Outcomes'
  BY DEF IInv, TakeUp, provider, TypeOK, Outcomes
<1>7. Stopped'
  BY DEF IInv, TakeUp, shutdown, Stopped, Closing
<1>8. Drains'
  BY DEF IInv, TakeUp, shutdown, Closing, TypeOK, Drains
<1> QED
  BY <1>1, <1>2, <1>3, <1>4, <1>5, <1>6, <1>7, <1>8 DEF IInv

LEMMA RegisterKeeps ==
    ASSUME IInv, NEW p \in Prompt, Register(p)
    PROVE  IInv'
<1> USE RunsAssumption
<1>1. TypeOK'
  BY DEF IInv, Register, provider, shutdown, TypeOK
<1>2. HeadOnly'
  BY DEF IInv, Register, TypeOK, HeadOnly
<1>3. Cuts'
  BY DEF IInv, Register, Closing, provider, shutdown, TypeOK, Cuts
<1>4. Turns'
  BY DEF IInv, Register, provider, TypeOK, Turns
<1>5. Reasons'
  BY DEF IInv, Register, provider, TypeOK, Reasons
<1>6. Outcomes'
  BY DEF IInv, Register, provider, TypeOK, Outcomes
<1>7. Stopped'
  BY DEF IInv, Register, Closing, shutdown, TypeOK, Stopped
<1>8. Drains'
  BY DEF IInv, Register, shutdown, Closing, TypeOK, Drains
<1> QED
  BY <1>1, <1>2, <1>3, <1>4, <1>5, <1>6, <1>7, <1>8 DEF IInv

LEMMA MarkKeeps ==
    ASSUME IInv, NEW p \in Prompt, Mark(p)
    PROVE  IInv'
<1> USE RunsAssumption
<1>1. TypeOK'
  BY DEF IInv, Mark, Leaves, Fault, NoFault, provider, shutdown, TypeOK
<1>2. HeadOnly'
  BY DEF IInv, Mark, Leaves, TypeOK, HeadOnly
<1>3. Cuts'
  BY DEF IInv, Mark, Leaves, Closing, provider, shutdown, TypeOK, Cuts
<1>4. Turns'
  BY DEF IInv, Mark, Leaves, provider, TypeOK, Turns
<1>5. Reasons'
  BY DEF IInv, Mark, Leaves, provider, TypeOK, Reasons
<1>6. Outcomes'
  BY DEF IInv, Mark, Leaves, provider, TypeOK, Outcomes
<1>7. Stopped'
  BY DEF IInv, Mark, Leaves, Closing, shutdown, TypeOK, Stopped
<1>8. Drains'
  BY DEF IInv, Mark, Leaves, Up, shutdown, TypeOK, Drains
<1> QED
  BY <1>1, <1>2, <1>3, <1>4, <1>5, <1>6, <1>7, <1>8 DEF IInv

LEMMA EnqueueKeeps ==
    ASSUME IInv, NEW p \in Prompt, Enqueue(p)
    PROVE  IInv'
<1> USE RunsAssumption
<1>1. TypeOK'
  <2>1. CASE cut[p] # None
    BY <2>1 DEF IInv, Enqueue, Leaves, Recorded, provider, shutdown, TypeOK
  <2>2. CASE cut[p] = None
    <3>1. /\ at[p] = "marked" /\ at' = [at EXCEPT ![p] = "queued"]
          /\ lane' = Append(lane, p)
      BY <2>2 DEF Enqueue
    <3>2. p \notin ToSet(lane)
      BY <3>1 DEF IInv, TypeOK
    <3>3. IsInjective(lane') /\ ToSet(lane') = ToSet(lane) \cup {p}
      BY <3>1, <3>2, Joined DEF IInv, TypeOK, HeadOnly
    <3>4. ToSet(lane') = {q \in Prompt : at'[q] \in {"queued", "begun", "turn", "final"}}
      BY <3>1, <3>3 DEF IInv, TypeOK
    <3>5. active' = {q \in Prompt : at'[q] \notin {"out", "over"}}
      BY <2>2, <3>1 DEF IInv, Enqueue, TypeOK
    <3> QED
      BY <2>2, <3>1, <3>3, <3>4, <3>5 DEF IInv, Enqueue, TypeOK, provider, shutdown
  <2> QED
    BY <2>1, <2>2
<1>2. HeadOnly'
  <2>1. CASE lane' = lane
    BY <2>1 DEF IInv, Enqueue, Leaves, TypeOK, HeadOnly
  <2>2. CASE lane' = Append(lane, p) /\ at' = [at EXCEPT ![p] = "queued"]
    <3>1. p \notin ToSet(lane)
      BY DEF IInv, Enqueue, TypeOK
    <3> QED
      BY <2>2, <3>1, Joined DEF IInv, TypeOK, HeadOnly
  <2> QED
    BY <2>1, <2>2 DEF Enqueue
<1>3. Cuts'
  BY DEF IInv, Enqueue, Leaves, Closing, provider, shutdown, TypeOK, Cuts
<1>4. Turns'
  BY DEF IInv, Enqueue, Leaves, provider, TypeOK, Turns
<1>5. Reasons'
  BY DEF IInv, Enqueue, Leaves, provider, TypeOK, Reasons
<1>6. Outcomes'
  BY DEF IInv, Enqueue, Leaves, Recorded, provider, Closing, TypeOK, Outcomes, Cuts
<1>7. Stopped'
  BY DEF IInv, Enqueue, Leaves, Closing, shutdown, TypeOK, Stopped
<1>8. Drains'
  BY DEF IInv, Enqueue, Leaves, Up, shutdown, TypeOK, Drains
<1> QED
  BY <1>1, <1>2, <1>3, <1>4, <1>5, <1>6, <1>7, <1>8 DEF IInv

LEMMA LivenessKeeps ==
    ASSUME IInv, NEW p \in Prompt, Liveness(p)
    PROVE  IInv'
<1> USE RunsAssumption
<1>1. TypeOK'
  BY DEF IInv, Liveness, Recorded, Fault, NoFault, provider, shutdown, TypeOK
<1>2. HeadOnly'
  BY DEF IInv, Liveness, HeadOnly
<1>3. Cuts'
  BY DEF IInv, Liveness, provider, shutdown, Cuts, Closing
<1>4. Turns'
  BY DEF IInv, Liveness, provider, TypeOK, Turns
<1>5. Reasons'
  BY DEF IInv, Liveness, provider, Reasons
<1>6. Outcomes'
  BY DEF IInv, Liveness, Recorded, provider, Closing, TypeOK, Outcomes, Cuts, Turns
<1>7. Stopped'
  BY DEF IInv, Liveness, shutdown, Stopped, Closing
<1>8. Drains'
  BY DEF IInv, Liveness, shutdown, TypeOK, Drains, Turns
<1> QED
  BY <1>1, <1>2, <1>3, <1>4, <1>5, <1>6, <1>7, <1>8 DEF IInv

LEMMA BeginKeeps ==
    ASSUME IInv, NEW p \in Prompt, Begin(p)
    PROVE  IInv'
<1> USE RunsAssumption
<1>1. TypeOK'
  BY DEF IInv, Begin, Ends, provider, entry, shutdown, TypeOK
<1>2. HeadOnly'
  BY DEF IInv, Begin, AtHead, Ends, entry, TypeOK, HeadOnly
<1>3. Cuts'
  BY DEF IInv, Begin, Ends, Closing, provider, shutdown, TypeOK, Cuts
<1>4. Turns'
  BY DEF IInv, Begin, Ends, provider, TypeOK, Turns
<1>5. Reasons'
  BY DEF IInv, Begin, Ends, provider, TypeOK, Reasons, Cuts
<1>6. Outcomes'
  BY DEF IInv, Begin, Ends, provider, TypeOK, Outcomes
<1>7. Stopped'
  BY DEF IInv, Begin, Ends, Closing, shutdown, TypeOK, Stopped
<1>8. Drains'
  BY DEF IInv, Begin, Ends, Up, entry, shutdown, TypeOK, Drains
<1> QED
  BY <1>1, <1>2, <1>3, <1>4, <1>5, <1>6, <1>7, <1>8 DEF IInv

LEMMA GiveUpKeeps ==
    ASSUME IInv, NEW p \in Prompt, GiveUp(p)
    PROVE  IInv'
<1> USE RunsAssumption
<1>1. TypeOK'
  BY DEF IInv, GiveUp, Ends, Fault, NoFault, provider, entry, shutdown, TypeOK
<1>2. HeadOnly'
  BY DEF IInv, GiveUp, Ends, entry, TypeOK, HeadOnly
<1>3. Cuts'
  BY DEF IInv, GiveUp, Ends, Closing, provider, shutdown, TypeOK, Cuts
<1>4. Turns'
  BY DEF IInv, GiveUp, Ends, provider, TypeOK, Turns
<1>5. Reasons'
  BY DEF IInv, GiveUp, Ends, provider, TypeOK, Reasons, Cuts
<1>6. Outcomes'
  BY DEF IInv, GiveUp, Ends, provider, TypeOK, Outcomes
<1>7. Stopped'
  BY DEF IInv, GiveUp, Ends, Closing, shutdown, TypeOK, Stopped
<1>8. Drains'
  BY DEF IInv, GiveUp, Ends, Up, entry, shutdown, TypeOK, Drains
<1> QED
  BY <1>1, <1>2, <1>3, <1>4, <1>5, <1>6, <1>7, <1>8 DEF IInv

LEMMA StartKeeps ==
    ASSUME IInv, NEW p \in Prompt, Start(p)
    PROVE  IInv'
<1> USE RunsAssumption
<1>1. TypeOK'
  BY DEF IInv, Start, entry, shutdown, TypeOK
<1>2. HeadOnly'
  BY DEF IInv, Start, entry, TypeOK, HeadOnly
<1>3. Cuts'
  <2>1. /\ at[p] = "begun" /\ at' = [at EXCEPT ![p] = "turn"]
        /\ UNCHANGED <<cut, shut, ended>>
        /\ turn'.accept = (cut[p] = None) /\ turn'.inactive = FALSE
        /\ turn'.race = IF cut[p] = None THEN "open" ELSE "watchdog"
    BY DEF Start, event, provider, shutdown
  <2>2. cut[p] # "inactive"
    BY <2>1 DEF IInv, Cuts
  <2>3. \A q \in Prompt : q # p => at[q] # "turn"
    BY <2>1 DEF IInv, HeadOnly
  <2>4. \A q \in Prompt : q # p => at'[q] = at[q]
    BY <2>1 DEF IInv, TypeOK
  <2>5. (cut[p] = "close" => Closing) /\ at'[p] = "turn"
    BY <2>1 DEF IInv, TypeOK, Cuts
  <2> QED
    BY <2>1, <2>2, <2>3, <2>4, <2>5 DEF IInv, Closing, Cuts
<1>4. Turns'
  BY DEF IInv, Start, TypeOK, Turns
<1>5. Reasons'
  BY DEF IInv, Start, TypeOK, Reasons
<1>6. Outcomes'
  BY DEF IInv, Start, TypeOK, Outcomes
<1>7. Stopped'
  BY DEF IInv, Start, Closing, shutdown, TypeOK, Stopped
<1>8. Drains'
  BY DEF IInv, Start, Up, entry, shutdown, TypeOK, Drains
<1> QED
  BY <1>1, <1>2, <1>3, <1>4, <1>5, <1>6, <1>7, <1>8 DEF IInv

LEMMA EventKeeps ==
    ASSUME IInv, NEW p \in Prompt, Event(p)
    PROVE  IInv'
<1> USE RunsAssumption
<1>1. TypeOK'
  <2>1. turn' \in [accept : BOOLEAN, inactive : BOOLEAN, left : 0 .. MaxEvents,
                    race : {"open", "runtime", "error", "watchdog"}]
    BY DEF IInv, Event, Accepts, Race, TypeOK
  <2>2. ended' \in [Prompt -> BOOLEAN]
    <3>1. Accepts(p) \in BOOLEAN
      BY DEF IInv, Accepts, TypeOK
    <3> QED
      BY <3>1 DEF IInv, Event, TypeOK
  <2>3. consumer' \in [Prompt -> {"none", "waiting", "delivering", "ended"}]
    BY DEF IInv, Event, TypeOK
  <2> QED
    BY <2>1, <2>2, <2>3 DEF IInv, Event, event, entry, shutdown, TypeOK
<1>2. HeadOnly'
  BY DEF IInv, Event, event, entry, HeadOnly
<1>3. Cuts'
  <2>1. /\ UNCHANGED <<cut, at, shut>>
        /\ \A q \in Prompt : q # p => ended'[q] = ended[q]
    BY DEF IInv, Event, event, shutdown, TypeOK
  <2>2. CASE at[p] # "turn"
    <3>1. UNCHANGED <<turn, ended>>
      BY <2>2 DEF IInv, Event, Accepts, Race, Turns, TypeOK
    <3> QED
      BY <2>1, <3>1 DEF IInv, Cuts, Closing
  <2>3. CASE at[p] = "turn"
    <3>1. \A q \in Prompt : q # p => at[q] # "turn"
      BY <2>3 DEF IInv, HeadOnly
    <3>2. /\ turn'.accept = turn.accept /\ turn'.inactive = turn.inactive
          /\ turn'.race \in {"open", "watchdog"} => turn'.race = turn.race
      BY <2>3 DEF IInv, Event, Race, TypeOK
    <3>3. turn'.race = "runtime" => ended'[p]
      BY <2>3 DEF IInv, Event, Accepts, Race, Cuts, Turns, TypeOK
    <3> QED
      BY <2>1, <3>1, <3>2, <3>3 DEF IInv, Cuts, Closing
  <2> QED
    BY <2>2, <2>3
<1>4. Turns'
  BY DEF IInv, Event, Accepts, event, TypeOK, Turns
<1>5. Reasons'
  BY DEF IInv, Event, Accepts, event, TypeOK, Reasons, Turns
<1>6. Outcomes'
  BY DEF IInv, Event, Accepts, event, TypeOK, Outcomes, Turns
<1>7. Stopped'
  BY DEF IInv, Event, event, shutdown, Stopped, Closing
<1>8. Drains'
  BY DEF IInv, Event, event, entry, shutdown, Drains
<1> QED
  BY <1>1, <1>2, <1>3, <1>4, <1>5, <1>6, <1>7, <1>8 DEF IInv

LEMMA DeliverKeeps ==
    ASSUME IInv, NEW p \in Prompt, Deliver(p)
    PROVE  IInv'
<1> USE RunsAssumption
<1>1. TypeOK'
  BY DEF IInv, Deliver, Race, Fault, NoFault, event, entry, shutdown, TypeOK
<1>2. HeadOnly'
  BY DEF IInv, Deliver, event, entry, HeadOnly
<1>3. Cuts'
  BY DEF IInv, Deliver, Race, Closing, event, shutdown, TypeOK, Cuts
<1>4. Turns'
  BY DEF IInv, Deliver, event, TypeOK, Turns
<1>5. Reasons'
  BY DEF IInv, Deliver, event, Reasons
<1>6. Outcomes'
  BY DEF IInv, Deliver, event, Outcomes
<1>7. Stopped'
  BY DEF IInv, Deliver, event, shutdown, Stopped, Closing
<1>8. Drains'
  BY DEF IInv, Deliver, event, entry, shutdown, Drains
<1> QED
  BY <1>1, <1>2, <1>3, <1>4, <1>5, <1>6, <1>7, <1>8 DEF IInv

LEMMA ExpireKeeps ==
    ASSUME IInv, NEW p \in Prompt, Expire(p)
    PROVE  IInv'
<1> USE RunsAssumption
<1>1. TypeOK'
  BY AbortTyped DEF IInv, Expire, entry, shutdown, TypeOK
<1>2. HeadOnly'
  BY DEF IInv, Expire, entry, HeadOnly
<1>3. Cuts'
  BY DEF IInv, Expire, Abort, shutdown, Closing, TypeOK, Cuts, HeadOnly
<1>4. Turns'
  BY DEF IInv, Expire, Turns
<1>5. Reasons'
  BY DEF IInv, Expire, Abort, TypeOK, Reasons
<1>6. Outcomes'
  BY DEF IInv, Expire, Abort, TypeOK, Outcomes
<1>7. Stopped'
  BY DEF IInv, Expire, Abort, Closing, shutdown, TypeOK, Stopped
<1>8. Drains'
  BY DEF IInv, Expire, entry, shutdown, Drains
<1> QED
  BY <1>1, <1>2, <1>3, <1>4, <1>5, <1>6, <1>7, <1>8 DEF IInv

LEMMA SettleKeeps ==
    ASSUME IInv, NEW p \in Prompt, Settle(p)
    PROVE  IInv'
<1> USE RunsAssumption
<1>1. TypeOK'
  BY DEF IInv, Settle, Ends, Outcome, NoTurn, entry, shutdown, TypeOK
<1>2. HeadOnly'
  BY DEF IInv, Settle, Ends, entry, TypeOK, HeadOnly
<1>3. Cuts'
  BY DEF IInv, Settle, Ends, NoTurn, shutdown, Closing, TypeOK, Cuts, HeadOnly
<1>4. Turns'
  BY DEF IInv, Settle, Ends, TypeOK, Turns
<1>5. Reasons'
  BY DEF IInv, Settle, Ends, Outcome, TypeOK, Reasons, Cuts
<1>6. Outcomes'
  BY DEF IInv, Settle, Ends, Outcome, TypeOK, Outcomes
<1>7. Stopped'
  BY DEF IInv, Settle, Ends, Closing, shutdown, TypeOK, Stopped
<1>8. Drains'
  BY DEF IInv, Settle, Ends, Up, entry, shutdown, TypeOK, Drains
<1> QED
  BY <1>1, <1>2, <1>3, <1>4, <1>5, <1>6, <1>7, <1>8 DEF IInv

LEMMA FinishKeeps ==
    ASSUME IInv, NEW p \in Prompt, Finish(p)
    PROVE  IInv'
<1> USE RunsAssumption
<1>1. TypeOK'
  <2>1. /\ IsInjective(lane')
        /\ ToSet(lane') = ToSet(lane) \ {p}
    BY Left DEF IInv, Finish, TypeOK, HeadOnly
  <2>2. ToSet(lane') = {q \in Prompt : at'[q] \in {"queued", "begun", "turn", "final"}}
    BY <2>1 DEF IInv, Finish, TypeOK
  <2>3. active' = {q \in Prompt : at'[q] \notin {"out", "over"}}
    BY DEF IInv, Finish, TypeOK
  <2> QED
    BY <2>1, <2>2, <2>3 DEF IInv, Finish, Recorded, Fault, NoFault, provider, shutdown, TypeOK
<1>2. HeadOnly'
  <2>1. /\ lane # << >> /\ Head(lane) = p
        /\ \A q \in Prompt : at'[q] \notin {"begun", "turn", "final"}
    BY DEF IInv, Finish, TypeOK, HeadOnly
  <2> QED
    BY <2>1, Left DEF IInv, Finish, TypeOK, HeadOnly
<1>3. Cuts'
  BY DEF IInv, Finish, Closing, provider, shutdown, TypeOK, Cuts
<1>4. Turns'
  BY DEF IInv, Finish, provider, TypeOK, Turns
<1>5. Reasons'
  BY DEF IInv, Finish, provider, TypeOK, Reasons
<1>6. Outcomes'
  <2>1. /\ at[p] = "final" /\ at' = [at EXCEPT ![p] = "over"]
        /\ UNCHANGED <<cut, live, reason, ended, shut>>
        /\ \/ claim' = claim
           \/ /\ ~Closing /\ claim[p] = "dispatched"
              /\ claim' = [claim EXCEPT ![p] = IF reason[p] \in {"failed", "inactive"}
                                              THEN "failed" ELSE "completed"]
    BY DEF Finish, Recorded, provider, shutdown
  <2>2. CASE claim' = claim
    BY <2>1, <2>2 DEF IInv, TypeOK, Outcomes
  <2>3. CASE claim' # claim
    <3>1. cut[p] # "close"
      BY <2>1, <2>3 DEF IInv, Cuts
    <3>2. reason[p] \in {"completed", "failed", "inactive", "stopped"}
      BY <2>1 DEF IInv, TypeOK, Reasons
    <3>3. reason[p] \notin {"failed", "inactive"} =>
             (ended[p] /\ cut[p] # "inactive") \/ cut[p] = "stop"
      BY <3>1, <3>2 DEF IInv, Reasons
    <3> QED
      BY <2>1, <2>3, <3>1, <3>3 DEF IInv, TypeOK, Outcomes
  <2> QED
    BY <2>2, <2>3
<1>7. Stopped'
  BY DEF IInv, Finish, Closing, shutdown, TypeOK, Stopped
<1>8. Drains'
  <2>1. lane # << >> /\ ToSet(lane') \subseteq ToSet(lane)
    BY Left DEF IInv, Finish, TypeOK, HeadOnly
  <2> QED
    BY <2>1 DEF IInv, Finish, shutdown, TypeOK, Drains
<1> QED
  BY <1>1, <1>2, <1>3, <1>4, <1>5, <1>6, <1>7, <1>8 DEF IInv

LEMMA ClaimStopKeeps ==
    ASSUME IInv, ClaimStop
    PROVE  IInv'
<1> USE RunsAssumption
<1>1. TypeOK'
  BY DEF IInv, ClaimStop, event, provider, entry, shutdown, TypeOK
<1>2. HeadOnly'
  BY DEF IInv, ClaimStop, event, entry, HeadOnly
<1>3. Cuts'
  BY DEF IInv, ClaimStop, event, provider, shutdown, Cuts, Closing
<1>4. Turns'
  BY DEF IInv, ClaimStop, event, provider, Turns
<1>5. Reasons'
  BY DEF IInv, ClaimStop, event, provider, Reasons
<1>6. Outcomes'
  BY DEF IInv, ClaimStop, event, provider, Outcomes
<1>7. Stopped'
  BY DEF IInv, ClaimStop, Closing, event, shutdown, TypeOK, Stopped
<1>8. Drains'
  BY DEF IInv, ClaimStop, event, entry, shutdown, Drains
<1> QED
  BY <1>1, <1>2, <1>3, <1>4, <1>5, <1>6, <1>7, <1>8 DEF IInv

LEMMA StopRunsKeeps ==
    ASSUME IInv, StopRuns
    PROVE  IInv'
<1> USE RunsAssumption
<1>1. TypeOK'
  BY AbortTyped DEF IInv, StopRuns, entry, shutdown, TypeOK
<1>2. HeadOnly'
  BY DEF IInv, StopRuns, entry, HeadOnly
<1>3. Cuts'
  BY DEF IInv, StopRuns, Abort, Reached, shutdown, Closing, TypeOK, Cuts, HeadOnly
<1>4. Turns'
  BY DEF IInv, StopRuns, Turns
<1>5. Reasons'
  BY DEF IInv, StopRuns, Abort, Reached, TypeOK, Reasons
<1>6. Outcomes'
  BY DEF IInv, StopRuns, Abort, Reached, TypeOK, Outcomes
<1>7. Stopped'
  BY DEF IInv, StopRuns, Abort, Reached, shutdown, Closing, TypeOK, Stopped
<1>8. Drains'
  BY DEF IInv, StopRuns, entry, shutdown, Drains
<1> QED
  BY <1>1, <1>2, <1>3, <1>4, <1>5, <1>6, <1>7, <1>8 DEF IInv

LEMMA CloseKeeps ==
    ASSUME IInv, Close
    PROVE  IInv'
<1> USE RunsAssumption
<1>1. TypeOK'
  BY AbortTyped DEF IInv, Close, entry, TypeOK
<1>2. HeadOnly'
  BY DEF IInv, Close, entry, HeadOnly
<1>3. Cuts'
  BY DEF IInv, Close, Abort, Closing, TypeOK, Cuts
<1>4. Turns'
  BY DEF IInv, Close, Turns
<1>5. Reasons'
  BY DEF IInv, Close, Abort, TypeOK, Reasons
<1>6. Outcomes'
  BY DEF IInv, Close, Abort, TypeOK, Outcomes
<1>7. Stopped'
  BY DEF IInv, Close, Abort, Closing, TypeOK, Stopped
<1>8. Drains'
  BY DEF IInv, Close, Up, entry, TypeOK, Drains
<1> QED
  BY <1>1, <1>2, <1>3, <1>4, <1>5, <1>6, <1>7, <1>8 DEF IInv

LEMMA DrainKeeps ==
    ASSUME IInv, Drain
    PROVE  IInv'
<1> USE RunsAssumption
<1>1. TypeOK'
  BY DEF IInv, Drain, PassOver, event, provider, entry, TypeOK
<1>2. HeadOnly'
  BY DEF IInv, Drain, event, entry, HeadOnly
<1>3. Cuts'
  BY DEF IInv, Drain, PassOver, Closing, event, provider, TypeOK, Cuts
<1>4. Turns'
  BY DEF IInv, Drain, event, provider, Turns
<1>5. Reasons'
  BY DEF IInv, Drain, event, provider, Reasons
<1>6. Outcomes'
  BY DEF IInv, Drain, event, provider, Outcomes
<1>7. Stopped'
  BY DEF IInv, Drain, PassOver, Closing, event, TypeOK, Stopped
<1>8. Drains'
  <2>1. CASE shut = "handlers"
    BY <2>1 DEF IInv, Drain, PassOver, event, entry, TypeOK, Drains
  <2>2. CASE shut = "pass"
    BY <2>2, RunsAssumption DEF IInv, Drain, PassOver, event, entry, TypeOK, Drains
  <2>3. CASE shut = "lane"
    <3>1. ToSet(lane) = {}
      BY <2>3 DEF IInv, Drain, Drains
    <3>2. lane = << >>
      <4>1. lane \in Seq(Prompt) /\ DOMAIN lane = {}
        BY <3>1 DEF IInv, HeadOnly, ToSet
      <4> QED
        BY <4>1, EmptySeq
    <3> QED
      BY <2>3, <3>2 DEF IInv, Drain, PassOver, event, entry, TypeOK, Drains
  <2> QED
    BY <2>1, <2>2, <2>3 DEF Drain
<1> QED
  BY <1>1, <1>2, <1>3, <1>4, <1>5, <1>6, <1>7, <1>8 DEF IInv

LEMMA ExitKeeps ==
    ASSUME IInv, Exit
    PROVE  IInv'
<1> USE RunsAssumption
<1>1. TypeOK'
  BY DEF IInv, Exit, event, provider, entry, TypeOK
<1>2. HeadOnly'
  BY DEF IInv, Exit, event, entry, HeadOnly
<1>3. Cuts'
  BY DEF IInv, Exit, event, provider, Cuts, Closing
<1>4. Turns'
  BY DEF IInv, Exit, event, provider, Turns
<1>5. Reasons'
  BY DEF IInv, Exit, event, provider, Reasons
<1>6. Outcomes'
  BY DEF IInv, Exit, event, provider, Outcomes
<1>7. Stopped'
  BY DEF IInv, Exit, event, Stopped, Closing
<1>8. Drains'
  BY DEF IInv, Exit, Up, event, entry, TypeOK, Drains
<1> QED
  BY <1>1, <1>2, <1>3, <1>4, <1>5, <1>6, <1>7, <1>8 DEF IInv

LEMMA InitHolds == Init => IInv
<1> SUFFICES ASSUME Init PROVE IInv
  OBVIOUS
<1> USE RunsAssumption
<1>1. TypeOK
  BY DEF Init, TypeOK, NoTurn, ToSet, IsInjective
<1>2. HeadOnly /\ Turns /\ Stopped
  BY DEF Init, HeadOnly, Turns, Stopped, Closing
<1>3. Cuts /\ Reasons /\ Outcomes
  BY DEF Init, Cuts, Reasons, Outcomes, Closing
<1>4. Drains
  BY DEF Init, Drains
<1> QED
  BY <1>1, <1>2, <1>3, <1>4 DEF IInv

LEMMA NextHolds == IInv /\ [Next]_vars => IInv'
<1> SUFFICES ASSUME IInv, [Next]_vars PROVE IInv'
  OBVIOUS
<1>1. CASE UNCHANGED vars
  BY <1>1 DEF vars, event, provider, entry, shutdown, IInv, TypeOK, HeadOnly, Cuts, Turns,
              Reasons, Outcomes, Stopped, Drains, Closing
<1>2. ASSUME NEW p \in Prompt, Arrive(p) \/ TakeUp(p) \/ Register(p) PROVE IInv'
  BY <1>2, ArriveKeeps, TakeUpKeeps, RegisterKeeps
<1>3. ASSUME NEW p \in Prompt, Lane(p) PROVE IInv'
  BY <1>3, MarkKeeps, EnqueueKeeps, LivenessKeeps, BeginKeeps, GiveUpKeeps, StartKeeps,
     ExpireKeeps, SettleKeeps, FinishKeeps DEF Lane
<1>4. ASSUME NEW p \in Prompt, Event(p) \/ Deliver(p) PROVE IInv'
  BY <1>4, EventKeeps, DeliverKeeps
<1>5. CASE ClaimStop \/ StopRuns \/ Close \/ Drain \/ Exit
  BY <1>5, ClaimStopKeeps, StopRunsKeeps, CloseKeeps, DrainKeeps, ExitKeeps
<1> QED
  BY <1>1, <1>2, <1>3, <1>4, <1>5 DEF Next

----------------------------------------------------------------------------
(* The theorems.                                                           *)

\* The inductive invariant: the lane, the cuts and what the turn knows of them,
\* the reasons and claims of ended runs, what stop and shutdown have reached.
THEOREM Invariance == Spec => []IInv
  BY InitHolds, NextHolds, PTL DEF Spec

\* Every variable keeps its type; activeRuns and the lane hold the events that
\* are between registration and the end of their run.
THEOREM TypeCorrect == Spec => []TypeOK
  BY Invariance, PTL DEF IInv

\* A claim is completed only if the provider was done or the user had stopped the
\* run, failed only if the run did not come to its end, whatever the order of
\* abort, watchdog, provider and shutdown.
THEOREM OutcomesTold == Spec => []OutcomeTold
<1>1. IInv => OutcomeTold
  <2> SUFFICES ASSUME IInv, NEW p \in Prompt
               PROVE  /\ claim[p] = "completed" =>
                            \/ ended[p] /\ cut[p] # "inactive"
                            \/ cut[p] = "stop"
                      /\ claim[p] = "failed" => ~(ended[p] /\ reason[p] = "completed")
                      /\ claim[p] = "failed" /\ cut[p] = "close" => live[p] = "lost"
    BY DEF OutcomeTold
  <2>1. live[p] = "lost" => ~ended[p]
    BY DEF IInv, Turns
  <2> QED
    BY <2>1 DEF IInv, Outcomes
<1> QED
  BY <1>1, Invariance, PTL

\* A process exits with 0 only when no handler, no pass and no lane has work left.
THEOREM ExitsDrained == Spec => []DrainedExit
<1>1. IInv => DrainedExit
  BY DEF IInv, Drains, DrainedExit
<1> QED
  BY <1>1, Invariance, PTL

\* Only Start begins a turn, and only Event hands on what the provider says.
LEMMA TurnsBegin ==
    ASSUME IInv, [Next]_vars, NEW p \in Prompt, at[p] # "turn", at'[p] = "turn"
    PROVE  Start(p)
<1>1. TypeOK /\ at' # at
  BY DEF IInv
<1>2. PICK q \in Prompt : \/ Register(q) \/ Mark(q) \/ Enqueue(q) \/ Begin(q) \/ GiveUp(q)
                         \/ Start(q) \/ Settle(q) \/ Finish(q)
  BY <1>1 DEF Next, Lane, vars, event, Arrive, TakeUp, Liveness, Expire, Event, Deliver,
     ClaimStop, StopRuns, Close, Drain, Exit
<1>3. Register(q) \/ Mark(q) \/ Enqueue(q) => at'[p] # "turn"
  BY <1>1 DEF Register, Mark, Enqueue, Leaves, TypeOK
<1>4. Begin(q) \/ GiveUp(q) \/ Settle(q) \/ Finish(q) => at'[p] # "turn"
  BY <1>1 DEF Begin, GiveUp, Settle, Finish, Ends, TypeOK
<1>5. Start(q) => q = p
  BY <1>1 DEF Start, TypeOK
<1> QED
  BY <1>2, <1>3, <1>4, <1>5

LEMMA EventsAreHeard ==
    ASSUME IInv, [Next]_vars, NEW p \in Prompt,
           consumer[p] = "waiting", consumer'[p] = "delivering"
    PROVE  Accepts(p)
<1>1. TypeOK /\ consumer' # consumer
  BY DEF IInv
<1>2. PICK q \in Prompt : Start(q) \/ Event(q) \/ Deliver(q)
  BY <1>1 DEF Next, Lane, vars, provider, Arrive, TakeUp, Register, Mark, Enqueue, Liveness,
     Begin, GiveUp, Expire, Settle, Finish, ClaimStop, StopRuns, Close, Drain, Exit
<1>3. Start(q) \/ Deliver(q) => consumer'[p] # "delivering"
  BY <1>1 DEF Start, Deliver, TypeOK
<1>4. Event(q) => Accepts(p)
  BY <1>1 DEF Event, TypeOK
<1> QED
  BY <1>2, <1>3, <1>4

LEMMA StepSilences ==
    ASSUME IInv, [Next]_vars, NEW p \in Prompt, Silent(p)
    PROVE  /\ at[p] # "turn" /\ at'[p] = "turn" => ~turn'.accept
           /\ consumer[p] = "waiting" => consumer'[p] # "delivering"
<1>1. at[p] = "turn" => ~turn.accept
  BY DEF IInv, Stopped, Silent, Cuts
<1>2. ASSUME at[p] # "turn", at'[p] = "turn" PROVE ~turn'.accept
  <2>1. Start(p)
    BY <1>2, TurnsBegin
  <2>2. cut[p] # None
    BY <2>1 DEF IInv, Stopped, Silent, Start
  <2> QED
    BY <2>1, <2>2 DEF Start
<1>3. ASSUME consumer[p] = "waiting", consumer'[p] = "delivering" PROVE FALSE
  BY <1>1, <1>3, EventsAreHeard DEF Accepts
<1> QED
  BY <1>2, <1>3

\* After the stop has aborted its runs, and after close(), no turn that it is
\* about begins to be heard, and none is heard any more.
THEOREM StopsSilence == Spec => StopSilences
<1>1. IInv /\ [Next]_vars =>
        [\A p \in Prompt : Silent(p) =>
            /\ at[p] # "turn" /\ at'[p] = "turn" => ~turn'.accept
            /\ consumer[p] = "waiting" => consumer'[p] # "delivering"]_vars
  BY StepSilences
<1> QED
  BY <1>1, Invariance, PTL DEF Spec, StopSilences
----------------------------------------------------------------------------
(* The lane of the runs implements SerialServer.                           *)

\* A step that leaves the lane alone and lets nothing at its head begin.
LEMMA LaneStutters ==
    ASSUME UNCHANGED lane,
           lane # << >> => (at[Head(lane)] # "queued" <=> at'[Head(lane)] # "queued")
    PROVE  UNCHANGED Server!vars
<1>1. Begun' <=> Begun
  BY DEF Begun
<1>2. waiting' = waiting /\ serving' = serving
  BY <1>1 DEF waiting, serving
<1> QED
  BY <1>2 DEF Server!vars

\* An event that changes its place without crossing the head of the lane.
LEMMA PlaceStutters ==
    ASSUME TypeOK, HeadOnly, NEW p \in Prompt, NEW where, UNCHANGED lane,
           at' = [at EXCEPT ![p] = where],
           at[p] = "queued" <=> where = "queued"
    PROVE  UNCHANGED Server!vars
<1>1. at'[p] = where /\ \A q \in Prompt \ {p} : at'[q] = at[q]
  BY DEF TypeOK
<1>2. \A q \in Prompt : at[q] # "queued" <=> at'[q] # "queued"
  BY <1>1
<1>3. lane # << >> => Head(lane) \in Prompt
  BY DEF HeadOnly
<1> QED
  BY <1>2, <1>3, LaneStutters

LEMMA EnqueueServes ==
    ASSUME IInv, NEW p \in Prompt, Enqueue(p)
    PROVE  [Server!Next]_(Server!vars)
<1>1. TypeOK /\ HeadOnly /\ lane \in Seq(Prompt)
  BY DEF IInv, HeadOnly
<1>2. CASE cut[p] # None
  <2>1. at' = [at EXCEPT ![p] = "over"] /\ UNCHANGED lane /\ at[p] = "marked"
    BY <1>2 DEF Enqueue, Leaves
  <2> QED
    BY <1>1, <2>1, PlaceStutters
<1>3. CASE cut[p] = None
  <2>1. /\ at[p] = "marked" /\ at' = [at EXCEPT ![p] = "queued"]
        /\ lane' = Append(lane, p)
    BY <1>3 DEF Enqueue
  <2>2. at'[p] = "queued" /\ \A q \in Prompt \ {p} : at'[q] = at[q]
    BY <1>1, <2>1 DEF TypeOK
  <2>3. CASE lane = << >>
    <3>1. lane' = <<p>> /\ Head(lane') = p
      BY <2>1, <2>3
    <3>2. ~Begun /\ ~Begun'
      BY <2>2, <2>3, <3>1 DEF Begun
    <3>3. Server!Arrive(p)
      <4>1. serving' = serving
        BY <3>2 DEF serving
      <4>2. waiting' = [waiting EXCEPT !["session"] = Append(@, p)]
        BY <2>1, <3>2 DEF waiting
      <4> QED
        BY <4>1, <4>2 DEF Server!Arrive
    <3> QED
      BY <3>3 DEF Server!Next
  <2>4. CASE lane # << >>
    <3>1. Head(lane) \in Prompt /\ Head(lane) # p /\ lane' # << >> /\ Head(lane') = Head(lane)
      <4>1. Head(lane) \in ToSet(lane)
        BY <1>1, <2>4 DEF ToSet
      <4>2. p \notin ToSet(lane)
        BY <1>1, <2>1 DEF TypeOK
      <4> QED
        BY <1>1, <2>1, <2>4, <4>1, <4>2
    <3>2. Begun' <=> Begun
      BY <2>2, <2>4, <3>1 DEF Begun
    <3>3. Tail(lane') = Append(Tail(lane), p)
      BY <1>1, <2>1, <2>4
    <3>4. serving' = serving
      BY <3>1, <3>2 DEF serving
    <3>5. waiting' = [waiting EXCEPT !["session"] = Append(@, p)]
      BY <2>1, <3>2, <3>3 DEF waiting
    <3> QED
      BY <3>4, <3>5 DEF Server!Arrive, Server!Next
  <2> QED
    BY <2>3, <2>4
<1> QED
  BY <1>2, <1>3

LEMMA BeginServes ==
    ASSUME IInv, NEW p \in Prompt, Begin(p)
    PROVE  [Server!Next]_(Server!vars)
<1>1. TypeOK /\ None \notin Prompt
  BY RunsAssumption DEF IInv
<1>2. /\ lane # << >> /\ Head(lane) = p /\ at[p] = "queued" /\ UNCHANGED lane
      /\ at'[p] # "queued"
  BY <1>1 DEF Begin, AtHead, Ends, entry, TypeOK
<1>3. ~Begun /\ Begun'
  BY <1>2 DEF Begun
<1>4. waiting["session"] = lane /\ serving["session"] = None
  BY <1>3 DEF waiting, serving
<1>5. serving' = [serving EXCEPT !["session"] = Head(waiting["session"])]
  BY <1>2, <1>3, <1>4 DEF serving
<1>6. waiting' = [waiting EXCEPT !["session"] = Tail(@)]
  BY <1>2, <1>3, <1>4 DEF waiting
<1> QED
  BY <1>2, <1>4, <1>5, <1>6 DEF Server!Serve, Server!Next

LEMMA FinishServes ==
    ASSUME IInv, NEW p \in Prompt, Finish(p)
    PROVE  [Server!Next]_(Server!vars)
<1>1. TypeOK /\ HeadOnly /\ lane \in Seq(Prompt) /\ None \notin Prompt
  BY RunsAssumption DEF IInv, HeadOnly
<1>2. /\ at[p] = "final" /\ at' = [at EXCEPT ![p] = "over"] /\ lane' = Tail(lane)
      /\ lane # << >> /\ Head(lane) = p
  BY <1>1 DEF Finish, HeadOnly
<1>3. Begun
  BY <1>2 DEF Begun
<1>4. ~Begun'
  <2>1. SUFFICES ASSUME lane' # << >> PROVE at'[Head(lane')] = "queued"
    BY DEF Begun
  <2>2. ToSet(lane') = ToSet(lane) \ {p} /\ lane' \in Seq(Prompt)
    BY <1>1, <1>2, Left DEF TypeOK
  <2>3. Head(lane') \in ToSet(lane')
    BY <2>1, <2>2 DEF ToSet
  <2> DEFINE q == Head(lane')
  <2>4. /\ q \in Prompt /\ q # p
        /\ at[q] \in {"queued", "begun", "turn", "final"}
    BY <1>1, <2>2, <2>3 DEF TypeOK
  <2> HIDE DEF q
  <2>5. at[q] = "queued"
    BY <1>1, <1>2, <2>4 DEF HeadOnly
  <2>6. at'[q] = at[q]
    BY <1>1, <1>2, <2>4 DEF TypeOK
  <2> QED
    BY <2>5, <2>6 DEF q
<1>5. waiting["session"] = Tail(lane) /\ serving["session"] = p
  BY <1>2, <1>3 DEF waiting, serving
<1>6. serving' = [serving EXCEPT !["session"] = None]
  BY <1>4 DEF serving
<1>7. waiting' = waiting
  BY <1>2, <1>3, <1>4 DEF waiting
<1> QED
  BY <1>1, <1>5, <1>6, <1>7 DEF Server!Leave, Server!Next

LEMMA StepServes ==
    ASSUME IInv, [Next]_vars
    PROVE  [Server!Next]_(Server!vars)
<1>1. TypeOK /\ HeadOnly
  BY DEF IInv
<1>2. CASE UNCHANGED <<at, lane>>
  BY <1>2, LaneStutters
<1>3. ASSUME NEW p \in Prompt, Register(p) \/ Mark(p)
      PROVE  UNCHANGED Server!vars
  <2>1. UNCHANGED lane /\ at[p] \in {"out", "registered"}
    BY <1>3 DEF Register, Mark
  <2>2. PICK where \in {"registered", "marked", "over", "out"} :
          at' = [at EXCEPT ![p] = where]
    BY <1>3 DEF Register, Mark, Leaves
  <2> QED
    BY <1>1, <2>1, <2>2, PlaceStutters
<1>4. ASSUME NEW p \in Prompt, GiveUp(p) \/ Start(p) \/ Settle(p)
      PROVE  UNCHANGED Server!vars
  <2>1. UNCHANGED lane /\ at[p] \in {"begun", "turn"}
    BY <1>4 DEF GiveUp, Start, Settle, entry
  <2>2. PICK where \in {"turn", "final"} : at' = [at EXCEPT ![p] = where]
    BY <1>4 DEF GiveUp, Start, Settle, Ends
  <2> QED
    BY <1>1, <2>1, <2>2, PlaceStutters
<1>5. \/ UNCHANGED <<at, lane>>
      \/ \E p \in Prompt : \/ Register(p) \/ Mark(p) \/ Enqueue(p) \/ Begin(p) \/ GiveUp(p)
                            \/ Start(p) \/ Settle(p) \/ Finish(p)
  BY DEF Next, Lane, vars, event, entry, Arrive, TakeUp, Liveness, Expire, Event, Deliver,
     ClaimStop, StopRuns, Close, Drain, Exit
<1> QED
  BY <1>2, <1>3, <1>4, <1>5, EnqueueServes, BeginServes, FinishServes

\* What SessionLanes proves of its lanes, and what each run here goes through, are
\* the same server: the runs of a session begin one at a time, in the order in
\* which they were queued, under every abort, failure and shutdown.
THEOREM RunsAreServedInOrder == Spec => RunsInOrder
<1>1. Init => Server!Init
  <2> SUFFICES ASSUME Init PROVE Server!Init
    OBVIOUS
  <2>1. lane = << >> /\ ~Begun
    BY DEF Init, Begun
  <2> QED
    BY <2>1 DEF Server!Init, waiting, serving
<1>2. IInv /\ [Next]_vars => [Server!Next]_(Server!vars)
  BY StepServes
<1> QED
  BY <1>1, <1>2, Invariance, PTL DEF RunsInOrder, Server!Spec, Spec
----------------------------------------------------------------------------
(* The runs implement AtMostOnceDispatch.                                  *)

\* The one event that a step is about; every other keeps its place and claim.
OnlyEvent(p) ==
    /\ at' = [at EXCEPT ![p] = at'[p]]
    /\ claim' = [claim EXCEPT ![p] = claim'[p]]

MarkedEvent(p) ==
    /\ at[p] = "out" => claim[p] \in {"unsent", "received", "claimed"}
    /\ at[p] = "registered" => claim[p] = "claimed"
    /\ at[p] \in {"marked", "begun", "turn"} => claim[p] = "dispatched"
    /\ at[p] \in {"queued", "final"} => claim[p] \in {"dispatched", "completed", "failed"}
    /\ at[p] = "over" => claim[p] \in {"dispatched", "completed", "failed", "superseded"}

\* To keep Marked is to keep it for that event.
LEMMA OneEventMarked ==
    ASSUME TypeOK, Marked, NEW p \in Prompt, OnlyEvent(p), MarkedEvent(p)'
    PROVE  Marked'
<1>1. \A q \in Prompt \ {p} : at'[q] = at[q] /\ claim'[q] = claim[q]
  BY DEF OnlyEvent, TypeOK
<1>2. ASSUME NEW q \in Prompt PROVE MarkedEvent(q)'
  <2>1. CASE q = p
    BY <2>1
  <2>2. CASE q # p
    BY <1>1, <2>2 DEF Marked, MarkedEvent
  <2> QED
    BY <2>1, <2>2
<1> QED
  BY <1>2 DEF Marked, MarkedEvent

\* On its way to the lane, and over the liveness thought that may outlast it.
LEMMA MarkedToLane ==
    ASSUME IInv, Marked, NEW p \in Prompt,
           Arrive(p) \/ TakeUp(p) \/ Register(p) \/ Mark(p) \/ Enqueue(p) \/ Liveness(p)
    PROVE  Marked'
<1>1. TypeOK /\ MarkedEvent(p)
  BY DEF IInv, Marked, MarkedEvent
<1>2. CASE Arrive(p) \/ TakeUp(p)
  <2>1. /\ claim[p] \in {"unsent", "received"} /\ UNCHANGED at
        /\ claim' = [claim EXCEPT ![p] = "claimed"]
    BY <1>2 DEF Arrive, TakeUp
  <2>2. at[p] = "out" /\ claim'[p] = "claimed"
    BY <1>1, <2>1 DEF MarkedEvent, TypeOK
  <2>3. OnlyEvent(p) /\ MarkedEvent(p)'
    BY <1>1, <2>1, <2>2 DEF OnlyEvent, MarkedEvent, TypeOK
  <2> QED
    BY <1>1, <2>3, OneEventMarked
<1>3. CASE Register(p)
  <2>1. OnlyEvent(p) /\ MarkedEvent(p)'
    BY <1>1, <1>3 DEF Register, OnlyEvent, MarkedEvent, TypeOK
  <2> QED
    BY <1>1, <2>1, OneEventMarked
<1>4. CASE Mark(p)
  <2>1. OnlyEvent(p) /\ MarkedEvent(p)'
    BY <1>1, <1>4 DEF Mark, Leaves, OnlyEvent, MarkedEvent, TypeOK
  <2> QED
    BY <1>1, <2>1, OneEventMarked
<1>5. CASE Enqueue(p)
  <2>1. OnlyEvent(p) /\ MarkedEvent(p)'
    BY <1>1, <1>5 DEF Enqueue, Leaves, Recorded, OnlyEvent, MarkedEvent, TypeOK
  <2> QED
    BY <1>1, <2>1, OneEventMarked
<1>6. CASE Liveness(p)
  <2>1. at[p] = "queued"
    BY <1>6 DEF IInv, Turns, Liveness
  <2>2. OnlyEvent(p) /\ MarkedEvent(p)'
    BY <1>1, <1>6, <2>1 DEF Liveness, Recorded, OnlyEvent, MarkedEvent, TypeOK
  <2> QED
    BY <1>1, <2>2, OneEventMarked
<1> QED
  BY <1>2, <1>3, <1>4, <1>5, <1>6

\* In the lane.  A run begins with its claim dispatched: had the handler of its
\* lost thought recorded an outcome, the run would have been cut or lost too.
LEMMA MarkedInLane ==
    ASSUME IInv, Marked, NEW p \in Prompt,
           Begin(p) \/ GiveUp(p) \/ Start(p) \/ Settle(p) \/ Finish(p)
    PROVE  Marked'
<1>1. TypeOK /\ MarkedEvent(p)
  BY DEF IInv, Marked, MarkedEvent
<1>2. CASE Begin(p)
  <2>1. at[p] = "queued" /\ cut[p] = None /\ live[p] # "lost" => claim[p] = "dispatched"
    BY <1>1, RunsAssumption DEF IInv, Outcomes, MarkedEvent
  <2>2. OnlyEvent(p) /\ MarkedEvent(p)'
    BY <1>1, <1>2, <2>1 DEF Begin, Ends, OnlyEvent, MarkedEvent, TypeOK
  <2> QED
    BY <1>1, <2>2, OneEventMarked
<1>3. CASE GiveUp(p) \/ Start(p) \/ Settle(p)
  <2>1. /\ at[p] \in {"begun", "turn"} /\ UNCHANGED claim
        /\ at' = [at EXCEPT ![p] = "turn"] \/ at' = [at EXCEPT ![p] = "final"]
    BY <1>3 DEF GiveUp, Start, Settle, Ends
  <2>2. OnlyEvent(p) /\ MarkedEvent(p)'
    BY <1>1, <2>1 DEF OnlyEvent, MarkedEvent, TypeOK
  <2> QED
    BY <1>1, <2>2, OneEventMarked
<1>4. CASE Finish(p)
  <2>1. OnlyEvent(p) /\ MarkedEvent(p)'
    BY <1>1, <1>4 DEF Finish, Recorded, OnlyEvent, MarkedEvent, TypeOK
  <2> QED
    BY <1>1, <2>1, OneEventMarked
<1> QED
  BY <1>2, <1>3, <1>4

LEMMA MarkedHolds == Init => Marked
  BY DEF Init, Marked

LEMMA MarkedKept ==
    ASSUME IInv, Marked, [Next]_vars
    PROVE  Marked'
<1>1. CASE UNCHANGED <<at, claim>>
  BY <1>1 DEF Marked
<1>2. \/ UNCHANGED <<at, claim>>
      \/ \E p \in Prompt :
            \/ Arrive(p) \/ TakeUp(p) \/ Register(p) \/ Mark(p) \/ Enqueue(p) \/ Liveness(p)
            \/ Begin(p) \/ GiveUp(p) \/ Start(p) \/ Settle(p) \/ Finish(p)
  BY DEF Next, Lane, vars, event, Expire, Event, Deliver, ClaimStop, StopRuns, Close,
     Drain, Exit
<1> QED
  BY <1>1, <1>2, MarkedToLane, MarkedInLane

\* A write of one claim, seen as a step of the promise.
LEMMA ClaimPromises ==
    ASSUME TypeOK, NEW p \in Prompt, NEW c, claim' = [claim EXCEPT ![p] = c],
           UNCHANGED consumer,
           \/ OutcomeOf(c) = OutcomeOf(claim[p]) /\ DispatcherOf(c) = DispatcherOf(claim[p])
           \/ OutcomeOf(claim[p]) = "open" /\ c = "superseded"
           \/ OutcomeOf(claim[p]) = "open" /\ c = "dispatched"
           \/ claim[p] = "dispatched" /\ c \in {"completed", "failed"}
    PROVE  [Promise!Next]_(Promise!vars)
<1>1. /\ outcome' = [outcome EXCEPT ![p] = OutcomeOf(c)]
      /\ dispatcher' = [dispatcher EXCEPT ![p] = DispatcherOf(c)]
      /\ UNCHANGED runners
      /\ outcome[p] = OutcomeOf(claim[p]) /\ dispatcher[p] = DispatcherOf(claim[p])
  BY DEF outcome, dispatcher, runners, TypeOK
<1>2. outcome = [outcome EXCEPT ![p] = outcome[p]]
  BY DEF outcome
<1>3. dispatcher = [dispatcher EXCEPT ![p] = dispatcher[p]]
  BY DEF dispatcher
<1>4. CASE OutcomeOf(c) = OutcomeOf(claim[p]) /\ DispatcherOf(c) = DispatcherOf(claim[p])
  BY <1>1, <1>2, <1>3, <1>4 DEF Promise!vars
<1>5. CASE OutcomeOf(claim[p]) = "open" /\ c = "superseded"
  <2>1. DispatcherOf(c) = DispatcherOf(claim[p]) /\ OutcomeOf(c) = "withdrawn"
    BY <1>5 DEF OutcomeOf, DispatcherOf, TypeOK
  <2> QED
    BY <1>1, <1>3, <1>5, <2>1 DEF Promise!Withdraw, Promise!Next
<1>6. CASE OutcomeOf(claim[p]) = "open" /\ c = "dispatched"
  <2>1. DispatcherOf(c) = "this" /\ OutcomeOf(c) = "dispatched"
    BY <1>6 DEF OutcomeOf, DispatcherOf
  <2>2. Promise!Dispatch(p, "this")
    BY <1>1, <1>6, <2>1 DEF Promise!Dispatch
  <2> QED
    BY <2>2 DEF Promise!Next
<1>7. CASE claim[p] = "dispatched" /\ c \in {"completed", "failed"}
  <2>1. /\ DispatcherOf(c) = DispatcherOf(claim[p])
        /\ OutcomeOf(c) = "settled" /\ OutcomeOf(claim[p]) = "dispatched"
    BY <1>7 DEF OutcomeOf, DispatcherOf
  <2> QED
    BY <1>1, <1>3, <2>1 DEF Promise!Settle, Promise!Next
<1> QED
  BY <1>4, <1>5, <1>6, <1>7

LEMMA PromiseStutters ==
    ASSUME UNCHANGED claim, \A q \in Prompt : consumer[q] = "none" <=> consumer'[q] = "none"
    PROVE  UNCHANGED Promise!vars
<1>1. outcome' = outcome /\ dispatcher' = dispatcher
  BY DEF outcome, dispatcher
<1>2. runners' = runners
  BY DEF runners
<1> QED
  BY <1>1, <1>2 DEF Promise!vars

\* A turn starts with the claim dispatched: the process runs what it dispatched.
LEMMA StartPromises ==
    ASSUME IInv, Marked, NEW p \in Prompt, Start(p)
    PROVE  [Promise!Next]_(Promise!vars)
<1>1. claim[p] = "dispatched" /\ UNCHANGED claim /\ TypeOK
  BY DEF Start, Marked, IInv
<1>2. outcome[p] = "dispatched" /\ dispatcher[p] = "this"
  BY <1>1 DEF outcome, dispatcher, OutcomeOf, DispatcherOf
<1>3. outcome' = outcome /\ dispatcher' = dispatcher
  BY <1>1 DEF outcome, dispatcher
<1>4. runners' = [runners EXCEPT ![p] = @ \cup {"this"}]
  <2>1. consumer' = [consumer EXCEPT ![p] = "waiting"]
    BY DEF Start
  <2> QED
    BY <1>1, <2>1 DEF runners, TypeOK
<1> QED
  BY <1>2, <1>3, <1>4 DEF Promise!Run, Promise!Next

LEMMA StepPromises ==
    ASSUME IInv, Marked, [Next]_vars
    PROVE  [Promise!Next]_(Promise!vars)
<1>1. TypeOK
  BY DEF IInv
<1>2. CASE UNCHANGED <<claim, consumer>>
  BY <1>2, PromiseStutters
<1>3. ASSUME NEW p \in Prompt, Arrive(p) \/ TakeUp(p) PROVE [Promise!Next]_(Promise!vars)
  <2>1. /\ claim[p] \in {"unsent", "received"} /\ UNCHANGED consumer
        /\ claim' = [claim EXCEPT ![p] = "claimed"]
    BY <1>3 DEF Arrive, TakeUp, provider
  <2> QED
    BY <1>1, <2>1, ClaimPromises DEF OutcomeOf, DispatcherOf
<1>4. ASSUME NEW p \in Prompt, Mark(p) PROVE [Promise!Next]_(Promise!vars)
  <2>1. claim[p] = "claimed" /\ UNCHANGED consumer
    BY <1>4 DEF Mark, Marked, provider
  <2>2. PICK c \in {"dispatched", "superseded", "received"} : claim' = [claim EXCEPT ![p] = c]
    BY <1>4 DEF Mark
  <2> QED
    BY <1>1, <2>1, <2>2, ClaimPromises DEF OutcomeOf, DispatcherOf
<1>5. ASSUME NEW p \in Prompt, Enqueue(p) \/ Liveness(p) \/ Finish(p)
      PROVE  [Promise!Next]_(Promise!vars)
  <2>1. UNCHANGED consumer
    BY <1>5 DEF Enqueue, Liveness, Finish, provider
  <2>2. \/ UNCHANGED claim
        \/ claim[p] = "dispatched" /\ \E c \in {"completed", "failed"} :
              claim' = [claim EXCEPT ![p] = c]
    BY <1>5 DEF Enqueue, Liveness, Finish, Recorded
  <2> QED
    BY <1>1, <1>2, <2>1, <2>2, ClaimPromises
<1>6. ASSUME NEW p \in Prompt, Event(p) \/ Deliver(p) PROVE UNCHANGED Promise!vars
  <2>1. /\ consumer[p] # "none" /\ UNCHANGED claim
        /\ \E c \in {"waiting", "delivering", "ended"} : consumer' = [consumer EXCEPT ![p] = c]
    BY <1>6 DEF Event, Deliver, event
  <2> QED
    BY <1>1, <2>1, PromiseStutters DEF TypeOK
<1>7. \/ UNCHANGED <<claim, consumer>>
      \/ \E p \in Prompt :
            \/ Arrive(p) \/ TakeUp(p) \/ Mark(p) \/ Enqueue(p) \/ Liveness(p) \/ Finish(p)
            \/ Start(p) \/ Event(p) \/ Deliver(p)
  BY DEF Next, Lane, vars, event, provider, Register, Begin, GiveUp, Settle, Expire,
     ClaimStop, StopRuns, Close, Drain, Exit
<1> QED
  BY <1>2, <1>3, <1>4, <1>5, <1>6, <1>7, StartPromises

\* The runs of a session keep the promise that the durable claims make: every
\* step is one of AtMostOnceDispatch for the one event it is about, or none.
THEOREM RunsDispatchOnce == Spec => DispatchedOnce
<1>1. Init => Promise!Init
  BY DEF Init, Promise!Init, outcome, dispatcher, runners, OutcomeOf, DispatcherOf
<1>2. IInv /\ Marked /\ [Next]_vars => Marked'
  BY MarkedKept
<1>3. IInv /\ Marked /\ [Next]_vars => [Promise!Next]_(Promise!vars)
  BY StepPromises
<1> QED
  BY <1>1, <1>2, <1>3, MarkedHolds, Invariance, PTL DEF DispatchedOnce, Promise!Spec, Spec
=============================================================================
