---------------------------- MODULE SerialServer ----------------------------
(***************************************************************************)
(* What SessionLanes promises each session: its tasks wait in the order in *)
(* which they came and are served one at a time.                           *)
(***************************************************************************)
EXTENDS Sequences

CONSTANTS Session, Task, None, SessionOf

VARIABLES
    waiting,   \* by session, the tasks that have not begun, in order
    serving    \* by session, the task that runs

vars == <<waiting, serving>>

Init ==
    /\ waiting = [s \in Session |-> << >>]
    /\ serving = [s \in Session |-> None]

Arrive(t) ==
    /\ waiting' = [waiting EXCEPT ![SessionOf[t]] = Append(@, t)]
    /\ UNCHANGED serving

Serve(s) ==
    /\ serving[s] = None
    /\ waiting[s] # << >>
    /\ serving' = [serving EXCEPT ![s] = Head(waiting[s])]
    /\ waiting' = [waiting EXCEPT ![s] = Tail(@)]

Leave(s) ==
    /\ serving[s] # None
    /\ serving' = [serving EXCEPT ![s] = None]
    /\ UNCHANGED waiting

Next ==
    \/ \E t \in Task : Arrive(t)
    \/ \E s \in Session : Serve(s) \/ Leave(s)

Spec == Init /\ [][Next]_vars
=============================================================================
