----------------------------- MODULE StateLock -----------------------------
(***************************************************************************)
(* The lock of the state file: a directory that holds one file, named by   *)
(* the token of its owner, and that a caller takes by renaming its own     *)
(* directory onto it.  Code: mutate, withFileLock, removeAbandonedLock and *)
(* removeLockDirectoryOwnedBy of state/store.ts.                           *)
(*                                                                         *)
(* A Call is one mutation and stands for its token.  Every file-system     *)
(* call and every question about another process is a step of its own.     *)
(* rename replaces an absent or an empty directory; rmdir only removes an  *)
(* empty one.  Left out: I/O errors of the unlink that releases a lock.    *)
(***************************************************************************)
EXTENDS Integers, FiniteSets, SequencesExt

CONSTANTS
    Process,      \* incarnations of the bridge
    Call,         \* mutations, in all
    Host,
    ProcessOf,    \* the process that makes a call
    HostOf, PidOf, UidOf,   \* of a process
    MaxBoots,     \* bound on the boots of a host
    None

ASSUME LockAssumption ==
    /\ ProcessOf \in [Call -> Process]
    /\ HostOf \in [Process -> Host]
    /\ MaxBoots \in Nat
    /\ None \notin Call

VARIABLES
    life,       \* by process: "new", "alive" or "dead"
    boot,       \* by host, its boot session
    bootOf,     \* by process, the boot session it was started in
    queue,      \* mutationTail: by process, its calls in the order they were made
    present,    \* whether the lock directory exists
    files,      \* the owner files in it
    pc,         \* by call, what it does next
    local,      \* by call, what withFileLock keeps of it
    file        \* the state file, as the calls that are in it

hosts == <<life, boot, bootOf>>
dir == <<present, files>>
vars == <<hosts, dir, queue, pc, local, file>>

Ended == {"done", "failed", "rejected"}

\* A call that waits, and one that takes, holds or gives back the lock.
AtWork == {"prepare", "try", "readdir", "readowner", "boot", "alive", "uid", "identity",
           "unlink", "rmdir", "stat", "read", "write", "release", "releasedir"}

Clock == {"budget", "floor", "over"}

Local == [seen : Call \cup {None},   \* the owner it is looking into
          bootKnown : BOOLEAN,       \* whether it learnt this host's boot session
          clock : Clock,             \* budget left, within the floor, or past both
          owed : BOOLEAN,            \* guaranteedAttempts > 0
          within : BOOLEAN,          \* withinGuarantee of the attempt going on
          granted : BOOLEAN,         \* guaranteedRetryGranted
          snapshot : Seq(Call),      \* the state file as it read it
          rejected : BOOLEAN,        \* history: its timer fired before it started
          undisturbed : BOOLEAN]     \* history: no other process lived beside it,
                                     \* and all it asked was answered

Fresh == [seen |-> None, bootKnown |-> FALSE, clock |-> "budget", owed |-> TRUE,
          within |-> FALSE, granted |-> FALSE, snapshot |-> << >>,
          rejected |-> FALSE, undisturbed |-> FALSE]

TypeOK ==
    /\ life \in [Process -> {"new", "alive", "dead"}]
    /\ boot \in [Host -> Nat]
    /\ bootOf \in [Process -> Nat]
    /\ queue \in [Process -> Seq(Call)]
    /\ present \in BOOLEAN
    /\ files \subseteq Call
    /\ pc \in [Call -> {"idle", "queued", "gone"} \cup AtWork \cup Ended]
    /\ local \in [Call -> Local]
    /\ file \in Seq(Call)

Init ==
    /\ life = [p \in Process |-> "new"]
    /\ boot = [h \in Host |-> 0]
    /\ bootOf = [p \in Process |-> 0]
    /\ queue = [p \in Process |-> << >>]
    /\ present = FALSE
    /\ files = {}
    /\ pc = [c \in Call |-> "idle"]
    /\ local = [c \in Call |-> Fresh]
    /\ file = << >>

----------------------------------------------------------------------------
(* Processes. *)

\* A pid is used again only when its last holder is gone.
Start(p) ==
    /\ life[p] = "new"
    /\ \A q \in Process : life[q] = "alive" =>
          ~(HostOf[q] = HostOf[p] /\ PidOf[q] = PidOf[p])
    /\ life' = [life EXCEPT ![p] = "alive"]
    /\ bootOf' = [bootOf EXCEPT ![p] = boot[HostOf[p]]]
    /\ local' = [c \in Call |-> IF pc[c] \in AtWork
                               THEN [local[c] EXCEPT !.undisturbed = FALSE] ELSE local[c]]
    /\ UNCHANGED <<boot, dir, queue, pc, file>>

\* What the processes had in memory goes with them; their files stay.
End(Dying) ==
    LET Lost == {c \in Call : ProcessOf[c] \in Dying /\ pc[c] \notin Ended}
    IN  /\ life' = [p \in Process |-> IF p \in Dying THEN "dead" ELSE life[p]]
        /\ pc' = [c \in Call |-> IF c \in Lost THEN "gone" ELSE pc[c]]
        /\ local' = [c \in Call |-> IF c \in Lost THEN Fresh ELSE local[c]]
        /\ UNCHANGED <<bootOf, dir, queue, file>>

Die(p) ==
    /\ life[p] = "alive"
    /\ End({p})
    /\ UNCHANGED boot

Reboot(h) ==
    /\ boot[h] < MaxBoots
    /\ boot' = [boot EXCEPT ![h] = @ + 1]
    /\ End({p \in Process : HostOf[p] = h /\ life[p] = "alive"})

----------------------------------------------------------------------------
(* mutate: the queue of a process. *)

Moves(c, from, to) ==
    /\ pc[c] = from
    /\ pc' = [pc EXCEPT ![c] = to]

MakeCall(c) ==
    /\ life[ProcessOf[c]] = "alive"
    /\ Moves(c, "idle", "queued")
    /\ queue' = [queue EXCEPT ![ProcessOf[c]] = Append(@, c)]
    /\ UNCHANGED <<hosts, dir, local, file>>

\* The timer of a call that has not started; it will not start any more.
Reject(c) ==
    /\ Moves(c, "queued", "rejected")
    /\ local' = [local EXCEPT ![c].rejected = TRUE]
    /\ UNCHANGED <<hosts, dir, queue, file>>

\* Mutant of MayEnter: a call does not wait for those before it.
MayEnterAtOnce(c) == TRUE

\* What was called before has ended.
MayEnter(c) ==
    LET q == queue[ProcessOf[c]]
    IN  \E i \in DOMAIN q : q[i] = c /\ \A j \in 1 .. i - 1 : pc[q[j]] \in Ended

Alone(p) == \A q \in Process : life[q] = "alive" => q = p

\* Mutant of Begins: a call whose timer has fired starts all the same.
BeginsLate(c) == Moves(c, "queued", "prepare") \/ Moves(c, "rejected", "prepare")

Begins(c) == Moves(c, "queued", "prepare")

\* The budget, which runs from the call, may be spent by now; the floor of the
\* guaranteed attempt runs from here.
Enter(c) ==
    /\ MayEnter(c)
    /\ Begins(c)
    /\ \E time \in {"budget", "floor"} :
          local' = [local EXCEPT ![c].clock = time, ![c].undisturbed = Alone(ProcessOf[c])]
    /\ UNCHANGED <<hosts, dir, queue, file>>

\* Time counts until the lock is taken.
Elapse(c) ==
    /\ pc[c] \in AtWork \ {"read", "write", "release", "releasedir"}
    /\ local[c].clock # "over"
    /\ local' = [local EXCEPT ![c].clock = IF @ = "budget" THEN "floor" ELSE "over"]
    /\ UNCHANGED <<hosts, dir, queue, pc, file>>

----------------------------------------------------------------------------
(* withFileLock: a candidate directory is made and renamed onto the lock.  *)

\* Who a process is could not be found out.
Unanswered(c) == local' = [local EXCEPT ![c].undisturbed = FALSE]

\* The candidate is complete before it is renamed; nobody else looks at it.
Prepare(c) ==
    /\ \/ /\ Moves(c, "prepare", IF local[c].clock = "over" THEN "failed" ELSE "try")
          /\ UNCHANGED local
       \/ Moves(c, "prepare", "failed") /\ Unanswered(c)
    /\ UNCHANGED <<hosts, dir, queue, file>>

\* With the lock taken the loop is over, and what it kept with it.
Acquired(c) == [Fresh EXCEPT !.rejected = local[c].rejected]

Try(c) ==
    LET may == local[c].owed \/ local[c].clock = "budget"
    IN  /\ \/ /\ ~may /\ Moves(c, "try", "failed")
              /\ UNCHANGED <<dir, local>>
           \/ /\ may /\ files = {}
              /\ present' = TRUE /\ files' = {c}
              /\ Moves(c, "try", "read")
              /\ local' = [local EXCEPT ![c] = Acquired(c)]
           \/ /\ may /\ files # {} /\ Moves(c, "try", "readdir")
              /\ local' = [local EXCEPT ![c].within = local[c].owed, ![c].owed = FALSE]
              /\ UNCHANGED dir
        /\ UNCHANGED <<hosts, queue, file>>

\* attemptDeadline has passed.
Late(c) == IF local[c].within THEN local[c].clock = "over" ELSE local[c].clock # "budget"

\* Mutant of Reclaimed: an attempt that found the lock abandoned is the last.
NeverReclaimed(c) == FALSE

Reclaimed(c) == local[c].within /\ ~local[c].granted /\ ~present

\* One more attempt is owed if the lock is gone, whoever removed it.
Stat(c) ==
    /\ local' = [local EXCEPT ![c].granted = @ \/ Reclaimed(c),
                              ![c].owed = @ \/ Reclaimed(c),
                              ![c].seen = None, ![c].bootKnown = FALSE]
    /\ Moves(c, "stat", IF Late(c) THEN "failed" ELSE "try")
    /\ UNCHANGED <<hosts, dir, queue, file>>

----------------------------------------------------------------------------
(* removeAbandonedLock. *)

\* The next step is taken only before the deadline of the attempt.
Decides(c, from, to) == Moves(c, from, IF Late(c) THEN "failed" ELSE to)

ReadDir(c) ==
    /\ \/ ~present /\ Moves(c, "readdir", "stat") /\ UNCHANGED local
       \/ present /\ files = {} /\ Decides(c, "readdir", "rmdir") /\ UNCHANGED local
       \/ \E d \in files : /\ Moves(c, "readdir", "readowner")
                           /\ local' = [local EXCEPT ![c].seen = d]
    /\ UNCHANGED <<hosts, dir, queue, file>>

Owner(c) == ProcessOf[local[c].seen]

\* Mutant of OnThisHost: pids of another machine are taken for this one's.
OnAnyHost(c) == TRUE

OnThisHost(c) == HostOf[Owner(c)] = HostOf[ProcessOf[c]]

ReadOwner(c) ==
    /\ \/ /\ Moves(c, "readowner", "stat")
          /\ local[c].seen \notin files \/ ~OnThisHost(c)
       \/ /\ Decides(c, "readowner", "boot")
          /\ local[c].seen \in files /\ OnThisHost(c)
    /\ UNCHANGED <<hosts, dir, queue, local, file>>

\* Who has the owner's pid on this host now.
Holders(c) == {q \in Process : /\ life[q] = "alive"
                               /\ HostOf[q] = HostOf[ProcessOf[c]]
                               /\ PidOf[q] = PidOf[Owner(c)]}

AskBoot(c) ==
    /\ pc[c] = "boot"
    /\ \/ Decides(c, "boot", "alive") /\ Unanswered(c)
       \/ /\ Decides(c, "boot", IF bootOf[Owner(c)] # boot[HostOf[ProcessOf[c]]]
                                THEN "unlink" ELSE "alive")
          /\ local' = [local EXCEPT ![c].bootKnown = TRUE]
    /\ UNCHANGED <<hosts, dir, queue, file>>

AskAlive(c) ==
    /\ \/ Decides(c, "alive", "unlink") /\ Holders(c) = {}
       \/ Moves(c, "alive", "stat") /\ Holders(c) # {} /\ ~local[c].bootKnown
       \/ Decides(c, "alive", "uid") /\ Holders(c) # {} /\ local[c].bootKnown
    /\ UNCHANGED <<hosts, dir, queue, local, file>>

AskUid(c) ==
    /\ pc[c] = "uid"
    /\ \/ Decides(c, "uid", "identity") /\ Unanswered(c)
       \/ /\ \E q \in Holders(c) :
                Decides(c, "uid", IF UidOf[q] # UidOf[Owner(c)] THEN "unlink" ELSE "identity")
          /\ UNCHANGED local
    /\ UNCHANGED <<hosts, dir, queue, file>>

\* Mutants of SameProcess: a live process with the owner's pid is the owner;
\* identities never compare equal.
SamePid(q, c) == TRUE
NeverSame(q, c) == FALSE

SameProcess(q, c) == q = Owner(c)

AskIdentity(c) ==
    /\ pc[c] = "identity"
    /\ \/ Moves(c, "identity", "stat") /\ Unanswered(c)
       \/ /\ \E q \in Holders(c) :
                \/ SameProcess(q, c) /\ Moves(c, "identity", "stat")
                \/ ~SameProcess(q, c) /\ Decides(c, "identity", "unlink")
          /\ UNCHANGED local
    /\ UNCHANGED <<hosts, dir, queue, file>>

\* Mutant of RemovesFile: whatever is in the directory goes.
RemovesAll(c, token, from, to, gone) ==
    /\ Moves(c, from, IF files # {} THEN to ELSE gone)
    /\ files' = {}
    /\ UNCHANGED <<hosts, present, queue, local, file>>

\* removeLockDirectoryOwnedBy: the owner file, by its token, ...
RemovesFile(c, token, from, to, gone) ==
    /\ Moves(c, from, IF token \in files THEN to ELSE gone)
    /\ files' = files \ {token}
    /\ UNCHANGED <<hosts, present, queue, local, file>>

\* ... and the directory, if nobody has taken it over meanwhile.
RemovesDir(c, from, to) ==
    /\ Moves(c, from, to)
    /\ present' = (present /\ files # {})
    /\ UNCHANGED <<hosts, files, queue, local, file>>

Unlink(c) == RemovesFile(c, local[c].seen, "unlink", "rmdir", "stat")
Rmdir(c) == RemovesDir(c, "rmdir", "stat")

----------------------------------------------------------------------------
(* The operation, under the lock, and the release. *)

ReadState(c) ==
    /\ Moves(c, "read", "write")
    /\ local' = [local EXCEPT ![c].snapshot = file]
    /\ UNCHANGED <<hosts, dir, queue, file>>

\* An operation may also throw, or find that it has nothing to write.
WriteState(c) ==
    /\ Moves(c, "write", "release")
    /\ file' = Append(local[c].snapshot, c) \/ file' = file
    /\ local' = [local EXCEPT ![c].snapshot = << >>]
    /\ UNCHANGED <<hosts, dir, queue>>

Release(c) == RemovesFile(c, c, "release", "releasedir", "done")
ReleaseDir(c) == RemovesDir(c, "releasedir", "done")

Next ==
    \/ \E p \in Process : Start(p) \/ Die(p)
    \/ \E h \in Host : Reboot(h)
    \/ \E c \in Call :
          \/ MakeCall(c) \/ Reject(c) \/ Enter(c) \/ Elapse(c)
          \/ Prepare(c) \/ Try(c) \/ Stat(c)
          \/ ReadDir(c) \/ ReadOwner(c)
          \/ AskBoot(c) \/ AskAlive(c) \/ AskUid(c) \/ AskIdentity(c)
          \/ Unlink(c) \/ Rmdir(c)
          \/ ReadState(c) \/ WriteState(c) \/ Release(c) \/ ReleaseDir(c)

Spec == Init /\ [][Next]_vars

----------------------------------------------------------------------------
(* Properties. *)

\* The calls that hold the lock and will act on it.
Holder == {c \in Call : pc[c] \in {"read", "write", "release"}}

\* No two live calls are between acquiring and releasing, whoever removed
\* whose lock on the way: the premise of every read-modify-write of the store.
MutualExclusion == \A c, d \in Holder : c = d

\* The lock of a live process stays in place until that process releases it:
\* no probe, however stale what it looked at, removes it.
LiveLockStays == \A c \in Holder : files = {c} /\ present

\* Every write adds its call to what the file holds and loses nothing.
NothingLost == [][\E c \in Call : file' = Append(file, c)]_file

\* A caller told that its mutation timed out in the queue never finds it
\* applied later, nor one that was told it could not get the lock.
RejectedNeverApplied ==
    \A i \in DOMAIN file : ~local[file[i]].rejected /\ pc[file[i]] # "failed"

\* What one process writes, it writes in the order it was asked to, although
\* each write waits for a lock that others contend for.
InCallOrder ==
    \A i, j \in DOMAIN file : \A p \in Process : \A k, l \in DOMAIN queue[p] :
        i < j /\ queue[p][k] = file[i] /\ queue[p][l] = file[j] => k < l

OnOneHost == \A p, q \in Process : HostOf[p] = HostOf[q]

\* Where all run on one host, a mutation of the only live process, all of whose
\* questions are answered, fails for want of the lock only once even the floor
\* of its guaranteed attempt has passed: what a dead process left is reclaimed
\* within that attempt, with the budget spent or not.
AloneSucceeds ==
    \A c \in Call : OnOneHost /\ pc[c] = "failed" /\ local[c].undisturbed =>
        local[c].clock = "over"

----------------------------------------------------------------------------
(* The store that the lock makes of a shared file. *)

Asked(c) == \E k \in DOMAIN queue[ProcessOf[c]] : queue[ProcessOf[c]][k] = c

InFile(c) == \E i \in DOMAIN file : file[i] = c

\* What a call may still come to, until it has written or found that it will not.
Undecided == {"queued"} \cup (AtWork \ {"release", "releasedir"})

OutcomeOf(c) ==
    IF InFile(c) THEN "applied"
    ELSE IF pc[c] \in Undecided THEN "open"
    ELSE IF Asked(c) THEN "void" ELSE "none"

outcome == [c \in Call |-> OutcomeOf(c)]

Store == INSTANCE AtomicStore WITH asked <- queue, outcome <- outcome

\* Whatever its rivals, its timer and the ends of processes do, a mutation is in
\* the file once, whole and in the order of its process's calls, or it never is.
MutatesAtomically == Store!Spec

----------------------------------------------------------------------------
(* The inductive invariant. *)

\* A pid has one live holder; a live process belongs to its host's boot.
LiveProcesses ==
    /\ \A p, q \in Process :
          /\ life[p] = "alive" /\ life[q] = "alive"
          /\ HostOf[p] = HostOf[q] /\ PidOf[p] = PidOf[q]
          => p = q
    /\ \A p \in Process : life[p] = "alive" => bootOf[p] = boot[HostOf[p]]

\* Only live processes have calls under way; only started ones made any.
CallsOfLive ==
    \A c \in Call :
        /\ pc[c] \in AtWork \cup {"queued"} => life[ProcessOf[c]] = "alive"
        /\ pc[c] # "idle" => life[ProcessOf[c]] # "new"

Directory ==
    /\ files # {} => present
    /\ \A c, d \in files : c = d
    /\ \A c \in files : pc[c] # "idle"

\* What a call has in view is a call that had the lock, on its own host from
\* the moment it asks about it; what it is about to unlink has a dead owner.
Probes ==
    \A c \in Call :
        /\ pc[c] \in {"readowner", "boot", "alive", "uid", "identity", "unlink"} =>
              local[c].seen \in Call /\ pc[local[c].seen] # "idle"
        /\ pc[c] \in {"boot", "alive", "uid", "identity"} => OnThisHost(c)
        /\ pc[c] = "unlink" => life[Owner(c)] = "dead"

Snapshots == \A c \in Call : pc[c] = "write" => local[c].snapshot = file

IInv ==
    /\ TypeOK
    /\ LiveProcesses
    /\ CallsOfLive
    /\ Directory
    /\ Probes
    /\ LiveLockStays
    /\ Snapshots
----------------------------------------------------------------------------
(* What order and progress rest on, beyond IInv. *)

\* mutationTail: the calls made before one that has begun have ended.
Queues ==
    /\ \A p \in Process : \A k \in DOMAIN queue[p] :
          /\ ProcessOf[queue[p][k]] = p
          /\ pc[queue[p][k]] # "idle"
          /\ \A l \in DOMAIN queue[p] : k < l =>
                /\ queue[p][k] # queue[p][l]
                /\ pc[queue[p][l]] \in AtWork \cup {"done"} => pc[queue[p][k]] \in Ended
    /\ \A c \in Call : pc[c] \notin {"idle", "gone"} => Asked(c)

\* What is in the file has been written, and has not been told that it failed.
Written == \A i \in DOMAIN file : pc[file[i]] \in {"release", "releasedir", "done", "gone"}

\* Whose lock is there holds it, or died with it.
Owners == \A c \in files : pc[c] \in {"read", "write", "release", "gone"}

\* What a process loses with its death, and where a record is blank.
Records ==
    \A c \in Call :
        /\ pc[c] = "gone" => life[ProcessOf[c]] # "alive"
        /\ pc[c] \in {"idle", "queued"} => local[c] = Fresh
        /\ local[c].rejected => pc[c] = "rejected"

\* An undisturbed call goes once round, from the attempt that is guaranteed to
\* the removal of what a dead process left, and then finds the directory empty.
OnceRound(c) ==
    /\ pc[c] \in AtWork => Alone(ProcessOf[c])
    /\ pc[c] = "prepare" => local[c].owed /\ ~local[c].granted
    /\ pc[c] = "try" => local[c].owed /\ (local[c].granted => files = {})
    /\ pc[c] \in {"readdir", "readowner", "boot", "alive", "uid", "identity", "unlink"} =>
          local[c].within /\ ~local[c].granted /\ files # {}
    /\ pc[c] \in {"readowner", "boot", "alive", "uid", "identity", "unlink"} =>
          local[c].seen \in files
    /\ pc[c] \in {"alive", "uid", "identity"} => local[c].bootKnown
    /\ pc[c] = "rmdir" => local[c].within /\ ~local[c].granted /\ files = {}
    /\ pc[c] = "stat" => local[c].within /\ ~local[c].granted /\ ~present
    /\ pc[c] = "failed" => local[c].clock = "over"

Undisturbed == \A c \in Call : OnOneHost /\ local[c].undisturbed => OnceRound(c)

OrderInv == Queues /\ Written /\ Owners /\ Records /\ InCallOrder /\ Undisturbed
=============================================================================
