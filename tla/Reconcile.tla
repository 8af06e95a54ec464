------------------------------ MODULE Reconcile ------------------------------
(***************************************************************************)
(* Reconciliation of one session: what Linear holds against what was       *)
(* claimed, so that an activity whose webhook was lost is found, and       *)
(* nothing that was done or is history is done again.                      *)
(*                                                                         *)
(* An activity is its id, a number; its time is set when Linear creates    *)
(* it, and several may have one time.  What lies between a claim and its   *)
(* dispatch, and the retries there, is the matter of IngressClaims.        *)
(*                                                                         *)
(* The cap of the store on receipts is here, as Prune.  Its cap on session *)
(* records is assumed away: no more than maxEntries sessions are written   *)
(* after this one while an activity of it is in the look-back, so that its *)
(* watermark, initializedAt and stop fence stay.                           *)
(***************************************************************************)
EXTENDS Integers, FiniteSets

CONSTANTS
    Activity,    \* ids, in the order of localeCompare
    Opening,     \* the prompt that opened the session
    Created,     \* the key that the created webhook claims
    None,
    Grace,       \* agentSessionAckGraceMs
    Lookback,    \* reconcileLookbackMs
    Retention,   \* retentionMs of terminal claims
    MaxTime,     \* bound: of the clock; nothing is created in its last moment
    MaxFaults    \* bound: failures of the store and of Linear, removals by count

\* config.ts refuses a look-back that is longer than the retention.
ASSUME ReconcileAssumption ==
    /\ Activity \subseteq Nat /\ IsFiniteSet(Activity)
    /\ Opening \in Activity
    /\ Created \notin Activity /\ None \notin Activity \cup {Created}
    /\ Grace \in Nat /\ Lookback \in Nat /\ Retention \in Nat /\ MaxTime \in Nat
    /\ Lookback <= Retention
    /\ MaxFaults \in Nat

Key == Activity \cup {Created}
NotYet == MaxTime + 1

VARIABLES
    now,      \* the clock; watchingSince was stamped at 0
    kind,     \* of each activity: of a human a "prompt" or "stop", of the app "output"
    time,     \* createdAt of each activity
    hook,     \* its webhook
    claim,    \* the durable claim of each key
    kept,     \* when the receipt of that claim, if it is over, was last written
    hooked,   \* keys whose claim is a webhook's; any other is of reconciliation
    twin,     \* when the receipt that reconciliation has beside a webhook's claim
              \* was last written, or NotYet; it has one identity per activity
    crowded,  \* history: how often a claim of each prompt was removed by count
    tasks,    \* claims that the recovery of accepted ingress is going to settle
    runs,     \* history: how often each prompt was dispatched
    init,     \* initializedAt is there
    mark,     \* processedThrough
    fence,    \* stopFence
    pass,     \* the reconciliation of the session that is under way
    past,     \* history: what the first sight adopted as history
    faults    \* failures and removals by count so far

receipts == <<kept, hooked, twin>>
vars == <<now, kind, time, hook, claim, receipts, crowded, tasks, runs, init, mark, fence,
          pass, past, faults>>

There == {a \in Activity : time[a] # NotYet}
Human(a) == kind[a] \in {"prompt", "stop"}

Idle == [pc |-> "idle", now |-> 0, rest |-> {}, stop |-> None, won |-> FALSE]

TypeOK ==
    /\ now \in 0 .. MaxTime
    /\ kind \in [Activity -> {"prompt", "stop", "output"}]
    /\ kind[Opening] = "prompt" /\ \A a \in Activity \ There : kind[a] = "prompt"
    /\ time \in [Activity -> 0 .. NotYet]
    /\ hook \in [Activity -> {"none", "sent"}]
    /\ claim \in [Key -> {"none", "held", "over"}]
    /\ kept \in [Key -> 0 .. MaxTime]
    /\ hooked \subseteq {k \in Key : claim[k] = "over"}
    /\ twin \in [Key -> 0 .. NotYet]
    /\ crowded \in [Activity -> Nat]
    /\ tasks \subseteq {k \in Key : claim[k] = "held"}
    /\ runs \in [Activity -> Nat]
    /\ init \in BOOLEAN
    /\ mark \in There \cup {None} /\ fence \in There \cup {None}
    /\ mark # None => init
    /\ pass \in [pc : {"idle", "judge", "stops", "loop", "dispatch", "mark"},
                 now : 0 .. now, rest : SUBSET There, stop : There \cup {None},
                 won : BOOLEAN]
    /\ past \subseteq There
    /\ faults \in 0 .. MaxFaults

Init ==
    /\ now = 0
    /\ kind = [a \in Activity |-> "prompt"]
    /\ time = [a \in Activity |-> NotYet]
    /\ hook = [a \in Activity |-> "none"]
    /\ claim = [k \in Key |-> "none"]
    /\ kept = [k \in Key |-> 0]
    /\ hooked = {} /\ twin = [k \in Key |-> NotYet]
    /\ crowded = [a \in Activity |-> 0]
    /\ tasks = {}
    /\ runs = [a \in Activity |-> 0]
    /\ init = FALSE /\ mark = None /\ fence = None
    /\ pass = Idle
    /\ past = {}
    /\ faults = 0

Fault == faults < MaxFaults /\ faults' = faults + 1

\* compareCursors: by time, then by id.
AtOrBefore(a, b) == time[a] < time[b] \/ (time[a] = time[b] /\ a <= b)
First(S) == CHOOSE a \in S : \A b \in S : AtOrBefore(a, b)
Last(S) == CHOOSE a \in S : \A b \in S : AtOrBefore(b, a)
Later(a, cursor) == IF cursor = None \/ AtOrBefore(cursor, a) THEN a ELSE cursor

\* The key by which the webhook of an activity is claimed, and the activity that
\* a key's dispatch runs.
KeyOf(a) == IF a = Opening THEN Created ELSE a
ActivityOf(k) == IF k = Created THEN Opening ELSE k

----------------------------------------------------------------------------
(* Claims.                                                                 *)

\* Mutant of Expired: the cutoff is the time of the prune, without the retention.
ExpiredSoon(k) == claim[k] = "over" /\ kept[k] < now

\* Each claim prunes first: what is older than the retention is not there for it.
Expired(k) == claim[k] = "over" /\ kept[k] < now - Retention
TwinExpired(k) == twin[k] < now - Retention

\* A claimed key's event is turned away by a stop that is not older.  The created
\* event has no cursor: only the recovery's fence holds for it, and that one is
\* dropped with the receipt of its stop.
Withdrawn(k, stop) ==
    /\ stop # None
    /\ IF k = Created THEN claim[stop] # "none" /\ ~Expired(stop)
                      ELSE k # stop /\ AtOrBefore(k, stop)

\* claimEvent and claimStopEvent: the claim is new, or there is one; or only the
\* receipt is left that a lost claim's duplicate got, and answers for it.
Claims(k) ==
    /\ claim[k] = "none" \/ Expired(k)
    /\ twin[k] = NotYet \/ TwinExpired(k)

FenceWith(k) == IF k # Created /\ kind[k] = "stop" THEN Later(k, fence) ELSE fence

\* A claim by a "hook", which is settled in the same step, or by a "pass".  A
\* duplicate writes the receipt of its own identity again: the claim's, if that is
\* reconciliation's, else a superseded one beside it.  A webhook comes once.
WriteClaim(k, by) ==
    /\ claim' = [j \in Key |-> IF j = k /\ Claims(k) THEN IF by = "hook" THEN "over" ELSE "held"
                               ELSE IF Expired(j) THEN "none" ELSE claim[j]]
    /\ kept' = [j \in Key |->
                   IF j = k /\ claim'[k] = "over" /\ (Claims(k) \/ (by = "pass" /\ k \notin hooked))
                   THEN now ELSE IF Expired(j) THEN 0 ELSE kept[j]]
    /\ hooked' = {j \in hooked : ~Expired(j)} \cup {j \in {k} : by = "hook" /\ Claims(k)}
    /\ twin' = [j \in Key |->
                   IF j = k /\ by = "pass" /\ ~Claims(k) /\ (k \in hooked \/ claim[k] = "none")
                   THEN now ELSE IF TwinExpired(j) THEN NotYet ELSE twin[j]]
    /\ fence' = FenceWith(k)
    /\ UNCHANGED crowded

\* The receipts of this session that are over, and when each was last written.
Terminal == {"claim"} \X {k \in Key : claim[k] = "over"}
            \cup {"twin"} \X {k \in Key : twin[k] # NotYet}
Written(r) == IF r[1] = "claim" THEN kept[r[2]] ELSE twin[r[2]]

\* prune, at the claim of another session: while there are more receipts than
\* maxEntries the oldest that are over go, after those that are older than the
\* retention.  How many of this session's that takes is up to the other sessions.
\* (A claim of this session that goes past the cap is this step next to its own.)
Prune ==
    /\ Fault
    /\ \E gone \in SUBSET Terminal :
          LET lost == {k \in Key : <<"claim", k>> \in gone}
              fresh == {ActivityOf(k) : k \in {j \in lost : ~Expired(j)}}
          IN  /\ \E r \in gone : Written(r) >= now - Retention
              /\ \A r \in gone, q \in Terminal \ gone :
                    Written(r) <= Written(q) /\ Written(q) >= now - Retention
              /\ claim' = [k \in Key |-> IF k \in lost THEN "none" ELSE claim[k]]
              /\ kept' = [k \in Key |-> IF k \in lost THEN 0 ELSE kept[k]]
              /\ hooked' = hooked \ lost
              /\ twin' = [k \in Key |-> IF <<"twin", k>> \in gone THEN NotYet ELSE twin[k]]
              /\ crowded' = [a \in Activity |-> IF a \in fresh /\ kind[a] = "prompt"
                                                 THEN crowded[a] + 1 ELSE crowded[a]]
    /\ UNCHANGED <<now, kind, time, hook, tasks, runs, init, mark, fence, pass, past>>

\* beginEventDispatch, and with it a prompt's way into its lane.
Run(k, stop) ==
    runs' = IF Withdrawn(k, stop) \/ kind[ActivityOf(k)] # "prompt" THEN runs
            ELSE [runs EXCEPT ![ActivityOf(k)] = @ + 1]

Settle(k) ==
    /\ claim' = [claim EXCEPT ![k] = "over"]
    /\ kept' = [kept EXCEPT ![k] = now]
    /\ UNCHANGED <<hooked, twin, crowded>>
    /\ Run(k, fence)

\* A webhook arrives and is processed, before its claim could be forgotten; the
\* opening's comes within the grace or not at all.
Arrive(a) ==
    /\ hook[a] = "sent"
    /\ now - time[a] <= Retention
    /\ a = Opening => now - time[a] < Grace
    /\ hook' = [hook EXCEPT ![a] = "none"]
    /\ WriteClaim(KeyOf(a), "hook")
    /\ IF Claims(KeyOf(a)) THEN Run(KeyOf(a), FenceWith(KeyOf(a))) ELSE UNCHANGED runs
    /\ UNCHANGED <<now, kind, time, tasks, init, mark, pass, past, faults>>

\* The recovery of accepted ingress, of a claim that was released or left behind.
Recover(k) ==
    /\ k \in tasks
    /\ Settle(k)
    /\ tasks' = tasks \ {k}
    /\ UNCHANGED <<now, kind, time, hook, init, mark, fence, pass, past, faults>>

----------------------------------------------------------------------------
(* A pass over the session.                                                *)

\* Mutant of Seen: what has the watermark's time is taken as processed.
SeenByTime(a) == mark # None /\ time[a] <= time[mark]

\* Below the watermark's time a page ends; at its time only its own id is known.
Seen(a) == mark # None /\ (time[a] < time[mark] \/ a = mark)

Snapshot == {a \in There : time[a] >= now - Lookback /\ ~Seen(a)}

\* listAgentSessionActivities; without the read there is no pass.
Read ==
    /\ pass.pc = "idle" /\ Opening \in There
    /\ pass' = [pc |-> IF init THEN "stops" ELSE "judge", now |-> now, won |-> FALSE,
                rest |-> Snapshot, stop |-> None]
    /\ UNCHANGED <<now, kind, time, hook, claim, receipts, crowded, tasks, runs, init, mark, fence,
                   past, faults>>

\* Sessions that Linear created before the bridge watched, or too long ago.
Watched == time[Opening] > 0 /\ time[Opening] >= pass.now - Lookback
Young == Watched /\ time[Opening] > pass.now - Grace

\* The first sight.  A young session is left undecided; one that is history, or
\* whose opening has its claim, gets its newest activity as watermark; for any
\* other the created webhook was lost and all its activities are gone through.
Judge ==
    /\ pass.pc = "judge"
    /\ \/ Young /\ pass' = Idle /\ UNCHANGED <<init, mark, past>>
       \/ /\ ~Watched \/ (~Young /\ claim[Created] # "none")
          /\ init' = TRUE
          /\ mark' = IF pass.rest = {} THEN None ELSE Last(pass.rest)
          /\ past' = pass.rest
          /\ pass' = Idle
       \/ /\ Watched /\ ~Young /\ claim[Created] = "none"
          /\ init' = TRUE
          /\ pass' = [pass EXCEPT !.pc = "stops"]
          /\ UNCHANGED <<mark, past>>
    /\ UNCHANGED <<now, kind, time, hook, claim, receipts, crowded, tasks, runs, fence, faults>>

\* Mutant of NewestStop: no stop is claimed ahead of the walk.
NewestStopLater == None

NewestStop ==
    LET stops == {a \in pass.rest : kind[a] = "stop"}
    IN  IF stops = {} THEN None ELSE Last(stops)

\* The newest stop is claimed, with its fence, before anything is dispatched.
ClaimNewestStop ==
    /\ pass.pc = "stops"
    /\ pass' = [pass EXCEPT !.pc = "loop", !.stop = NewestStop,
                            !.won = NewestStop # None /\ Claims(NewestStop)]
    /\ IF NewestStop = None
       THEN UNCHANGED <<claim, receipts, crowded, fence>>
       ELSE WriteClaim(NewestStop, "pass")
    /\ UNCHANGED <<now, kind, time, hook, tasks, runs, init, mark, past, faults>>

\* The next activity: of the app, or a prompt that another delivery has claimed;
\* or one that is claimed here.
Take ==
    /\ pass.pc = "loop" /\ pass.rest # {}
    /\ LET a == First(pass.rest)
       IN  IF ~Human(a) THEN
             /\ pass' = [pass EXCEPT !.pc = "mark"]
             /\ UNCHANGED <<claim, receipts, crowded, fence>>
           ELSE IF a = pass.stop THEN
             /\ pass' = [pass EXCEPT !.pc = IF pass.won THEN "dispatch" ELSE "mark"]
             /\ UNCHANGED <<claim, receipts, crowded, fence>>
           ELSE
             /\ pass' = [pass EXCEPT !.pc = IF Claims(a) THEN "dispatch" ELSE "mark"]
             /\ WriteClaim(a, "pass")
    /\ UNCHANGED <<now, kind, time, hook, tasks, runs, init, mark, past, faults>>

\* processClaimedEvent: dispatched, or turned away by a fence; or the claim is
\* released, the recovery retries it, and the pass ends.
Dispatch ==
    /\ pass.pc = "dispatch"
    /\ LET a == First(pass.rest)
       IN  \/ /\ Settle(a)
              /\ pass' = [pass EXCEPT !.pc = "mark"]
              /\ UNCHANGED <<tasks, faults>>
           \/ /\ tasks' = tasks \cup {a}
              /\ pass' = Idle
              /\ Fault
              /\ UNCHANGED <<claim, receipts, crowded, runs>>
    /\ UNCHANGED <<now, kind, time, hook, init, mark, fence, past>>

\* markActivityProcessed, after what the activity asked for has its claim.
Mark ==
    /\ pass.pc = "mark"
    /\ mark' = Later(First(pass.rest), mark)
    /\ pass' = [pass EXCEPT !.pc = "loop", !.rest = @ \ {First(@)}]
    /\ UNCHANGED <<now, kind, time, hook, claim, receipts, crowded, tasks, runs, init, fence, past,
                   faults>>

Done ==
    /\ pass.pc = "loop" /\ pass.rest = {}
    /\ pass' = Idle
    /\ UNCHANGED <<now, kind, time, hook, claim, receipts, crowded, tasks, runs, init, mark, fence,
                   past, faults>>

\* A store operation of the pass fails, and the session waits for the next pass.
Fail ==
    /\ pass.pc \in {"judge", "stops", "loop", "mark"} /\ Fault
    /\ pass' = Idle
    /\ UNCHANGED <<now, kind, time, hook, claim, receipts, crowded, tasks, runs, init, mark, fence,
                   past>>

Recoverable == {k \in Key : claim[k] = "held"}

\* The process dies; the next one first recovers what was accepted.
Crash ==
    /\ Fault
    /\ pass' = Idle
    /\ tasks' = Recoverable
    /\ UNCHANGED <<now, kind, time, hook, claim, receipts, crowded, runs, init, mark, fence, past>>

Pass == Read \/ Judge \/ ClaimNewestStop \/ Take \/ Dispatch \/ Mark \/ Done

----------------------------------------------------------------------------
(* Linear, and the clock.                                                  *)

\* An activity is created, the opening before all others.  The app's own have no
\* webhook; one that is lost never arrives.
Create(a) ==
    /\ time[a] = NotYet /\ now < MaxTime
    /\ a # Opening => Opening \in There
    /\ \E kd \in IF a = Opening THEN {"prompt"} ELSE {"prompt", "stop", "output"} :
         /\ kind' = [kind EXCEPT ![a] = kd]
         /\ hook' = [hook EXCEPT ![a] = IF kd = "output" THEN "none" ELSE "sent"]
    /\ time' = [time EXCEPT ![a] = now]
    /\ UNCHANGED <<now, claim, receipts, crowded, tasks, runs, init, mark, fence, pass, past,
                   faults>>

\* A pass takes less time than lies between the look-back and the retention.
Tick ==
    /\ now < MaxTime
    /\ pass.pc # "idle" => now - pass.now < Retention - Lookback
    /\ now' = now + 1
    /\ UNCHANGED <<kind, time, hook, claim, receipts, crowded, tasks, runs, init, mark, fence, pass,
                   past, faults>>

Next ==
    \/ Pass \/ Fail \/ Crash \/ Prune \/ Tick
    \/ \E k \in Key : Recover(k)
    \/ \E a \in Activity : Arrive(a) \/ Create(a)

Spec == Init /\ [][Next]_vars

\* Passes start by a timer, with time between them, and a pass goes on.
LiveSpec == Spec /\ WF_vars(Pass) /\ SF_vars(Tick)
----------------------------------------------------------------------------
(* Properties.                                                             *)

AtAdoptedMark(a) == a \in past /\ time[a] = time[Last(past)]

\* It has a claim, or had one that was over when it made room for others.
Decided(a) ==
    claim[a] # "none" \/ crowded[a] > 0 \/ (a = Opening /\ claim[Created] # "none")

\* A prompt is run once, by its webhook or by the pass, with the opening's two
\* keys, with claims that age out while activities are read again, and across
\* restarts; each removal of its claim by count can cost one more run, and only
\* one.  The one exception is an activity that has the very time of the watermark
\* which the first sight adopted.
RunsOnce ==
    \A a \in Activity :
        kind[a] = "prompt" => runs[a] <= 1 + crowded[a] \/ AtAdoptedMark(a)

\* What the watermark has passed over is decided, is history, or has aged out of
\* the look-back: no prompt falls between two passes, whatever shares its time.
NothingSkipped ==
    \A a \in There :
        kind[a] = "prompt" /\ Seen(a) =>
            Decided(a) \/ a \in past \/ time[a] < now - Lookback

\* The pass dispatches what it is at; a webhook or the recovery leaves the pass
\* where it is.
PassDispatches(a) == pass.pc = "dispatch" /\ pass'.pc = "mark" /\ a = First(pass.rest)

\* A pass dispatches what was missed, and nothing else: no prompt that a stop which
\* the pass has read withdraws, and nothing that the first sight took as history.
OnlyMissed ==
    [][\A a \in Activity : PassDispatches(a) =>
         /\ runs'[a] > runs[a] => \A s \in pass.rest : kind[s] = "stop" => ~AtOrBefore(a, s)
         /\ a \notin past \/ AtAdoptedMark(a)]_vars

\* A prompt whose webhook was lost is decided while it is within the look-back:
\* again and again there is none that is not.
MissedIsDecided ==
    []<>(\A a \in There :
           kind[a] = "prompt" => Decided(a) \/ a \in past \/ time[a] < now - Lookback)
----------------------------------------------------------------------------
(* The inductive invariant.                                                *)

\* What has a claim is there, and a claim that is over is not older than what it
\* claims: it does not age out while somebody still may ask for the activity.
Stamps ==
    /\ \A a \in There : time[a] <= now
    /\ \A a \in Activity : hook[a] = "sent" => a \in There
    /\ \A k \in Key : claim[k] # "none" => ActivityOf(k) \in There
    /\ \A k \in Key : claim[k] = "over" => time[ActivityOf(k)] <= kept[k]
    /\ claim[Created] # "held"

\* A claim that is there, or was and was removed by count, or has aged out.
Known(k) ==
    \/ claim[k] # "none" \/ crowded[ActivityOf(k)] > 0
    \/ time[ActivityOf(k)] < now - Retention

\* Where the receipt that is beside a prompt's claim answers, the claim is known.
Twins ==
    \A k \in Key : twin[k] # NotYet =>
        ActivityOf(k) \in There /\ (kind[ActivityOf(k)] = "prompt" => Known(k))

\* A pass has read what the look-back holds, and is over before the claims of it
\* age out.
Window ==
    pass.pc # "idle" =>
        /\ Opening \in There
        /\ init <=> pass.pc # "judge"
        /\ now - pass.now <= Retention - Lookback
        /\ \A a \in pass.rest : pass.now - Lookback <= time[a] /\ time[a] <= pass.now
        /\ pass.pc \in {"dispatch", "mark"} => pass.rest # {}

\* Prompts that a pass no longer has before it are settled, or are newer than it.
Walk ==
    pass.pc # "idle" =>
        \A a \in There \ pass.rest :
            kind[a] = "prompt" =>
                \/ Decided(a) \/ a \in past
                \/ time[a] < pass.now - Lookback \/ time[a] >= pass.now

\* What the pass is at.
Foremost(a) == a \in pass.rest /\ \A b \in pass.rest : AtOrBefore(a, b)

\* The claims that are the pass's own to settle, and what it leaves behind.
Owns ==
    /\ \A a \in pass.rest :
          Foremost(a) =>
            /\ pass.pc = "dispatch" => claim[a] = "held" /\ a \notin tasks
            /\ pass.pc = "mark" /\ kind[a] = "prompt" => claim[a] # "none" \/ crowded[a] > 0
    /\ pass.won /\ pass.stop \in pass.rest =>
          \/ pass.pc = "mark" /\ Foremost(pass.stop)
          \/ claim[pass.stop] = "held" /\ pass.stop \notin tasks
    /\ pass.stop \in pass.rest => kind[pass.stop] = "stop"

\* The fence is not behind a stop that the pass has before it.
Fences ==
    pass.pc \in {"loop", "dispatch", "mark"} =>
        \A s \in pass.rest : kind[s] = "stop" => fence # None /\ AtOrBefore(s, fence)

\* What has the time of the watermark that the first sight adopted.
Adopted(a) == a \in past /\ \A b \in past : time[b] <= time[a]

\* What the first sight took as history lies before the watermark, but for what
\* has the adopted watermark's time; what it did not, had lost its opening.
Sight ==
    /\ ~init => mark = None /\ past = {} /\ claim[Opening] = "none"
    /\ \A a \in past : mark # None /\ time[a] <= time[mark]
    /\ pass.pc \notin {"idle", "judge"} =>
          \A a \in pass.rest : a \in past => Adopted(a)
    /\ pass.pc = "judge" =>
          Opening \in pass.rest \/ time[Opening] < pass.now - Lookback
    /\ init => /\ Opening \in There
               /\ \/ Opening \in past \/ time[Opening] < now - Lookback
                  \/ claim[Created] = "none" /\ time[Opening] <= now - Grace

\* The opening has two keys, of which only one is used.
OneKey ==
    /\ claim[Opening] # "none" => claim[Created] = "none" /\ time[Opening] <= now - Grace
    /\ pass.pc \notin {"idle", "judge"} /\ Opening \in pass.rest =>
          claim[Created] = "none" /\ time[Opening] <= now - Grace

\* One dispatch is of the claim that is there, or was and is too old to be asked
\* for; any other is of a claim that was removed by count.
OthersOnce ==
    \A a \in Activity \ {Opening} :
        kind[a] = "prompt" =>
            /\ runs[a] <= 1 + crowded[a]
            /\ runs[a] > crowded[a] => claim[a] = "over" \/ time[a] < now - Retention
            /\ claim[a] = "held" => runs[a] <= crowded[a]

OpeningOnce ==
    Adopted(Opening) \/
        /\ runs[Opening] <= 1 + crowded[Opening]
        /\ runs[Opening] > crowded[Opening] =>
              \/ claim[Created] = "over" \/ claim[Opening] = "over"
              \/ time[Opening] < now - Retention
        /\ claim[Opening] = "held" => runs[Opening] <= crowded[Opening]
        /\ OneKey

IInv ==
    /\ TypeOK
    /\ Stamps
    /\ Twins
    /\ Window
    /\ Walk
    /\ Owns
    /\ Fences
    /\ Sight
    /\ OthersOnce
    /\ OpeningOnce
    /\ NothingSkipped
=============================================================================
