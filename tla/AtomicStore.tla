---------------------------- MODULE AtomicStore ----------------------------
(***************************************************************************)
(* What the store promises those who call mutate: a call takes effect at   *)
(* one instant, at most once, after the calls that its process made before *)
(* it, or it never does.                                                   *)
(***************************************************************************)
EXTENDS Integers, Sequences

CONSTANTS Process, Call, ProcessOf

VARIABLES
    file,      \* the calls that have taken effect, in order
    asked,     \* by process, its calls in the order they were made
    outcome    \* by call: not made, under way, in effect, or over without effect

vars == <<file, asked, outcome>>

Outcome == {"none", "open", "applied", "void"}

Init ==
    /\ file = << >>
    /\ asked = [p \in Process |-> << >>]
    /\ outcome = [c \in Call |-> "none"]

Ask(c) ==
    /\ outcome[c] = "none"
    /\ outcome' = [outcome EXCEPT ![c] = "open"]
    /\ asked' = [asked EXCEPT ![ProcessOf[c]] = Append(@, c)]
    /\ UNCHANGED file

\* What its process asked for before it has been decided.
InTurn(c) ==
    LET q == asked[ProcessOf[c]]
    IN  \A k, l \in DOMAIN q : k < l /\ q[l] = c => outcome[q[k]] # "open"

Apply(c) ==
    /\ outcome[c] = "open"
    /\ InTurn(c)
    /\ file' = Append(file, c)
    /\ outcome' = [outcome EXCEPT ![c] = "applied"]
    /\ UNCHANGED asked

\* Calls that are over without effect: one that came too late, that could not get
\* the lock or had nothing to write, and all those that die with their process.
Drop ==
    /\ outcome' \in [Call -> Outcome]
    /\ \A c \in Call : outcome'[c] # outcome[c] => outcome[c] = "open" /\ outcome'[c] = "void"
    /\ UNCHANGED <<file, asked>>

Next == Drop \/ \E c \in Call : Ask(c) \/ Apply(c)

Spec == Init /\ [][Next]_vars
=============================================================================
