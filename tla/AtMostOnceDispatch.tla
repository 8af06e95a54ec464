------------------------- MODULE AtMostOnceDispatch -------------------------
(***************************************************************************)
(* What durable ingress promises of each execution, with no receipts, no   *)
(* queues and no recovery: it is open until a process takes responsibility *)
(* for its turn by a dispatch marker or until it is withdrawn undispatched *)
(* (superseded by a stop).  The marker belongs to one process for ever;    *)
(* only that process may run the turn and record that it is over.  A       *)
(* process that dies in between leaves the execution dispatched and never  *)
(* settled: nobody runs it again.                                          *)
(***************************************************************************)
CONSTANTS Execution, Process, None

VARIABLES
    outcome,     \* "open", "dispatched", "settled" or "withdrawn"
    dispatcher,  \* the process that set the marker
    runners      \* the processes that ever took the turn

vars == <<outcome, dispatcher, runners>>

TypeOK ==
    /\ outcome \in [Execution -> {"open", "dispatched", "settled", "withdrawn"}]
    /\ dispatcher \in [Execution -> Process \cup {None}]
    /\ runners \in [Execution -> SUBSET Process]

Init ==
    /\ outcome = [x \in Execution |-> "open"]
    /\ dispatcher = [x \in Execution |-> None]
    /\ runners = [x \in Execution |-> {}]

\* The marker becomes durable; p may or may not live to see that it did.
Dispatch(x, p) ==
    /\ outcome[x] = "open"
    /\ outcome' = [outcome EXCEPT ![x] = "dispatched"]
    /\ dispatcher' = [dispatcher EXCEPT ![x] = p]
    /\ \/ runners' = [runners EXCEPT ![x] = @ \cup {p}]
       \/ UNCHANGED runners

Run(x, p) ==
    /\ outcome[x] = "dispatched"
    /\ dispatcher[x] = p
    /\ runners' = [runners EXCEPT ![x] = @ \cup {p}]
    /\ UNCHANGED <<outcome, dispatcher>>

Settle(x) ==
    /\ outcome[x] = "dispatched"
    /\ outcome' = [outcome EXCEPT ![x] = "settled"]
    /\ UNCHANGED <<dispatcher, runners>>

Withdraw(x) ==
    /\ outcome[x] = "open"
    /\ outcome' = [outcome EXCEPT ![x] = "withdrawn"]
    /\ UNCHANGED <<dispatcher, runners>>

Next ==
    \E x \in Execution :
        \/ \E p \in Process : Dispatch(x, p) \/ Run(x, p)
        \/ Settle(x)
        \/ Withdraw(x)

Spec == Init /\ [][Next]_vars
=============================================================================
