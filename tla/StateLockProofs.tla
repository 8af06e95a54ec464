-------------------------- MODULE StateLockProofs --------------------------
(***************************************************************************)
(* Proofs about StateLock, for any hosts, processes, calls and boots.      *)
(*                                                                         *)
(* A verdict "abandoned" is about a dead process, and death is final, so   *)
(* the verdict stays true however late it is acted on; the unlink names    *)
(* the token it was reached for, and rmdir spares a directory that is      *)
(* owned again.  So no step but its own ends a live call's hold.           *)
(***************************************************************************)
EXTENDS StateLock, TLAPS

HolderSteps == {"read", "write", "release"}
ProbeSteps == {"readowner", "boot", "alive", "uid", "identity", "unlink"}
HomeSteps == {"boot", "alive", "uid", "identity"}

\* What Probes and Snapshots say of one call.
ProbeOf(c) ==
    /\ pc[c] \in ProbeSteps => local[c].seen \in Call /\ pc[local[c].seen] # "idle"
    /\ pc[c] \in HomeSteps => OnThisHost(c)
    /\ pc[c] = "unlink" => life[Owner(c)] = "dead"
SnapshotOf(c) == pc[c] = "write" => local[c].snapshot = file

LEMMA InitHolds == Init => IInv
<1> SUFFICES ASSUME Init PROVE IInv
  OBVIOUS
<1> USE LockAssumption
<1>1. Fresh \in Local
  BY DEF Fresh, Local, Clock
<1>2. TypeOK
  <2>1. << >> \in Seq(Call)
    OBVIOUS
  <2>2. queue \in [Process -> Seq(Call)] /\ file \in Seq(Call)
    BY <2>1 DEF Init
  <2> QED
    BY <1>1, <2>2 DEF Init, TypeOK
<1>3. LiveProcesses /\ Directory
  BY DEF Init, LiveProcesses, Directory
<1>4. CallsOfLive /\ Probes /\ LiveLockStays /\ Snapshots
  <2>1. \A c \in Call : pc[c] = "idle"
    BY DEF Init
  <2> QED
    BY <2>1 DEF CallsOfLive, Probes, LiveLockStays, Snapshots, Holder, AtWork
<1> QED
  BY <1>2, <1>3, <1>4 DEF IInv

----------------------------------------------------------------------------
(* Steps of one call. *)

\* A step of one call that moves no other, changes no process, and leaves what
\* it knows itself right, keeps what IInv says of processes and of probes.
LEMMA OneCallProbes ==
    ASSUME IInv, NEW c \in Call, UNCHANGED hosts,
           pc' \in [Call -> {"idle", "queued", "gone"} \cup AtWork \cup Ended],
           local' \in [Call -> Local],
           \A d \in Call : d # c => pc'[d] = pc[d] /\ local'[d] = local[d],
           pc'[c] # "idle",
           life[ProcessOf[c]] = "alive",
           ProbeOf(c)'
    PROVE  LiveProcesses' /\ CallsOfLive' /\ Probes'
<1> USE LockAssumption
<1> USE DEF hosts
<1>1. LiveProcesses'
  BY DEF IInv, LiveProcesses
<1>2. CallsOfLive'
  <2> SUFFICES ASSUME NEW d \in Call
               PROVE /\ pc'[d] \in AtWork \cup {"queued"} => life[ProcessOf[d]] = "alive"
                     /\ pc'[d] # "idle" => life[ProcessOf[d]] # "new"
    BY DEF CallsOfLive
  <2>1. CASE d = c
    BY <2>1
  <2>2. CASE d # c
    BY <2>2 DEF IInv, CallsOfLive
  <2> QED
    BY <2>1, <2>2
<1>3. Probes'
  <2>1. ASSUME NEW d \in Call, d # c PROVE ProbeOf(d)'
    <3>1. ProbeOf(d)
      BY DEF IInv, Probes, ProbeOf, ProbeSteps, HomeSteps
    <3>2. pc'[d] = pc[d] /\ local'[d] = local[d]
      BY <2>1
    <3>3. ASSUME local[d].seen \in Call, pc[local[d].seen] # "idle"
          PROVE  pc'[local[d].seen] # "idle"
      BY <3>3
    <3> QED
      BY <3>1, <3>2, <3>3 DEF ProbeOf, OnThisHost, Owner
  <2>2. \A d \in Call : ProbeOf(d)'
    BY <2>1
  <2> QED
    BY <2>2 DEF Probes, ProbeOf, ProbeSteps, HomeSteps
<1> QED
  BY <1>1, <1>2, <1>3

\* If it also leaves the directory and the file alone and does not acquire the
\* lock, it keeps all of IInv.
LEMMA Quiet ==
    ASSUME IInv, NEW c \in Call, UNCHANGED <<hosts, dir, queue, file>>,
           pc' \in [Call -> {"idle", "queued", "gone"} \cup AtWork \cup Ended],
           local' \in [Call -> Local],
           \A d \in Call : d # c => pc'[d] = pc[d] /\ local'[d] = local[d],
           pc'[c] # "idle",
           life[ProcessOf[c]] = "alive",
           ProbeOf(c)', SnapshotOf(c)',
           pc'[c] \in HolderSteps => pc[c] \in HolderSteps
    PROVE  IInv'
<1>1. LiveProcesses' /\ CallsOfLive' /\ Probes'
  BY OneCallProbes
<1>2. TypeOK'
  BY DEF IInv, TypeOK, hosts, dir
<1>3. Directory'
  BY DEF IInv, Directory, TypeOK, dir
<1>4. LiveLockStays'
  <2>1. Holder' \subseteq Holder
    BY DEF Holder, HolderSteps
  <2> QED
    BY <2>1 DEF IInv, LiveLockStays, dir
<1>5. Snapshots'
  <2> SUFFICES ASSUME NEW d \in Call PROVE SnapshotOf(d)'
    BY DEF Snapshots, SnapshotOf
  <2>1. CASE d = c
    BY <2>1
  <2>2. CASE d # c
    BY <2>2 DEF IInv, Snapshots, SnapshotOf
  <2> QED
    BY <2>1, <2>2
<1> QED
  BY <1>1, <1>2, <1>3, <1>4, <1>5 DEF IInv

\* Two calls are never past acquiring and short of releasing.
LEMMA Exclusive == IInv => MutualExclusion
  BY DEF IInv, LiveLockStays, MutualExclusion

\* What a call at work knows: its process lives, its record is typed.
LEMMA AtWorkLives ==
    ASSUME IInv, NEW c \in Call, pc[c] \in AtWork \cup {"queued"}
    PROVE  life[ProcessOf[c]] = "alive" /\ local[c] \in Local
  BY DEF IInv, CallsOfLive, TypeOK

\* What a change of fields makes of a call's record.
LEMMA LocalUpdated ==
    ASSUME TypeOK, NEW c \in Call, NEW r \in Local, local' = [local EXCEPT ![c] = r]
    PROVE  /\ local' \in [Call -> Local]
           /\ local'[c] = r
           /\ \A d \in Call : d # c => local'[d] = local[d]
  BY DEF TypeOK

Places == {"idle", "queued", "gone"} \cup AtWork \cup Ended

LEMMA PlaceMoved ==
    ASSUME TypeOK, NEW c \in Call, NEW from, NEW to \in Places, Moves(c, from, to)
    PROVE  /\ pc' \in [Call -> Places]
           /\ pc[c] = from /\ pc'[c] = to
           /\ \A d \in Call : d # c => pc'[d] = pc[d]
  BY DEF TypeOK, Moves, Places

\* Quiet for a step that is a move and an update of the call's own record, to
\* a place where nothing is claimed about a probe or a snapshot.
LEMMA QuietMove ==
    ASSUME IInv, NEW c \in Call, UNCHANGED <<hosts, dir, queue, file>>,
           NEW from \in AtWork \cup {"queued"}, NEW to \in Places, Moves(c, from, to),
           NEW r \in Local, local' = [local EXCEPT ![c] = r],
           to \notin {"idle", "write"}, to \in HolderSteps => from \in HolderSteps,
           to \in ProbeSteps => r.seen \in Call /\ pc[r.seen] # "idle",
           to \in HomeSteps => HostOf[ProcessOf[r.seen]] = HostOf[ProcessOf[c]],
           to = "unlink" => life[ProcessOf[r.seen]] = "dead"
    PROVE  IInv'
<1>1. TypeOK
  BY DEF IInv
<1>2. /\ pc' \in [Call -> Places]
      /\ pc[c] = from /\ pc'[c] = to
      /\ \A d \in Call : d # c => pc'[d] = pc[d]
  BY <1>1, PlaceMoved
<1>3. /\ local' \in [Call -> Local]
      /\ local'[c] = r
      /\ \A d \in Call : d # c => local'[d] = local[d]
  BY <1>1, LocalUpdated
<1>4. life[ProcessOf[c]] = "alive"
  BY <1>2, AtWorkLives
<1>5. ProbeOf(c)'
  <2>1. CASE to \notin ProbeSteps
    BY <1>2, <2>1 DEF ProbeOf, ProbeSteps, HomeSteps
  <2>2. CASE to \in ProbeSteps
    <3>1. pc'[r.seen] # "idle"
      BY <1>2, <2>2
    <3> QED
      BY <1>2, <1>3, <2>2, <3>1 DEF ProbeOf, OnThisHost, Owner, hosts
  <2> QED
    BY <2>1, <2>2
<1>6. SnapshotOf(c)'
  BY <1>2 DEF SnapshotOf
<1>7. pc' \in [Call -> {"idle", "queued", "gone"} \cup AtWork \cup Ended]
  BY <1>2 DEF Places
<1>8. pc'[c] # "idle" /\ (pc'[c] \in HolderSteps => pc[c] \in HolderSteps)
  BY <1>2
<1> QED
  BY <1>2, <1>3, <1>4, <1>5, <1>6, <1>7, <1>8, Quiet

\* The same where the record stays as it is.
LEMMA QuietMoveOnly ==
    ASSUME IInv, NEW c \in Call, UNCHANGED <<hosts, dir, queue, local, file>>,
           NEW from \in AtWork \cup {"queued"}, NEW to \in Places, Moves(c, from, to),
           to \notin {"idle", "write"}, to \in HolderSteps => from \in HolderSteps,
           to \in ProbeSteps => local[c].seen \in Call /\ pc[local[c].seen] # "idle",
           to \in HomeSteps => OnThisHost(c),
           to = "unlink" => life[Owner(c)] = "dead"
    PROVE  IInv'
<1>1. local' = [local EXCEPT ![c] = local[c]] /\ local[c] \in Local
  BY DEF IInv, TypeOK
<1> QED
  BY <1>1, QuietMove DEF OnThisHost, Owner

\* And where the move is to a place of which IInv says nothing.
PlainSteps == {"prepare", "try", "readdir", "rmdir", "stat", "releasedir"} \cup Ended

LEMMA PlainMove ==
    ASSUME IInv, NEW c \in Call, UNCHANGED <<hosts, dir, queue, file>>,
           NEW from, from \in AtWork \cup {"queued"},
           NEW to, to \in PlainSteps, Moves(c, from, to),
           NEW r, r \in Local, local' = [local EXCEPT ![c] = r]
    PROVE  IInv'
<1>1. /\ to \in Places /\ to \notin {"idle", "write"} /\ to \notin HolderSteps
      /\ to \notin ProbeSteps /\ to \notin HomeSteps /\ to # "unlink"
  BY DEF PlainSteps, Places, Ended, AtWork, HolderSteps, ProbeSteps, HomeSteps
<1> QED
  BY <1>1, QuietMove

LEMMA PlainMoveOnly ==
    ASSUME IInv, NEW c \in Call, UNCHANGED <<hosts, dir, queue, local, file>>,
           NEW from, from \in AtWork \cup {"queued"},
           NEW to, to \in PlainSteps, Moves(c, from, to)
    PROVE  IInv'
<1>1. local' = [local EXCEPT ![c] = local[c]] /\ local[c] \in Local
  BY DEF IInv, TypeOK
<1> QED
  BY <1>1, PlainMove

LEMMA WorkSteps ==
    {"prepare", "stat", "readdir", "readowner"} \cup HomeSteps \subseteq AtWork
  BY DEF AtWork, HomeSteps

----------------------------------------------------------------------------
(* The quiet steps, action by action. *)

LEMMA QueueSteps ==
    ASSUME IInv, NEW c \in Call, Reject(c) \/ Enter(c) \/ Elapse(c)
    PROVE  IInv'
<1>1. CASE Reject(c)
  <2> DEFINE r == [local[c] EXCEPT !.rejected = TRUE]
  <2>1. local[c] \in Local
    BY DEF IInv, TypeOK
  <2>2. r \in Local /\ local' = [local EXCEPT ![c] = r]
    BY <1>1, <2>1 DEF Reject, Local
  <2>3. Moves(c, "queued", "rejected") /\ UNCHANGED <<hosts, dir, queue, file>>
    BY <1>1 DEF Reject
  <2> HIDE DEF r
  <2> QED
    BY <2>2, <2>3, PlainMove DEF PlainSteps, Ended
<1>2. CASE Enter(c)
  <2>1. local[c] \in Local
    BY DEF IInv, TypeOK
  <2>2. PICK time \in {"budget", "floor"} :
          local' = [local EXCEPT ![c].clock = time, ![c].undisturbed = Alone(ProcessOf[c])]
    BY <1>2 DEF Enter
  <2> DEFINE r == [local[c] EXCEPT !.clock = time, !.undisturbed = Alone(ProcessOf[c])]
  <2>3. Alone(ProcessOf[c]) \in BOOLEAN
    BY DEF Alone
  <2>4. r \in Local /\ local' = [local EXCEPT ![c] = r]
    BY <2>1, <2>2, <2>3 DEF Local, Clock
  <2>5. Moves(c, "queued", "prepare") /\ UNCHANGED <<hosts, dir, queue, file>>
    BY <1>2 DEF Enter, Begins
  <2> HIDE DEF r
  <2> QED
    BY <2>4, <2>5, PlainMove DEF PlainSteps
<1>3. CASE Elapse(c)
  <2> DEFINE r == [local[c] EXCEPT !.clock = IF @ = "budget" THEN "floor" ELSE "over"]
  <2>1. local[c] \in Local /\ TypeOK
    BY DEF IInv, TypeOK
  <2>2. r \in Local /\ local' = [local EXCEPT ![c] = r]
    BY <1>3, <2>1 DEF Elapse, Local, Clock
  <2>3. r.seen = local[c].seen /\ r.snapshot = local[c].snapshot
    BY <2>1 DEF Local
  <2>4. pc[c] \in AtWork /\ UNCHANGED <<hosts, dir, queue, pc, file>>
    BY <1>3 DEF Elapse
  <2> HIDE DEF r
  <2>5. /\ local' \in [Call -> Local]
        /\ local'[c] = r
        /\ \A d \in Call : d # c => local'[d] = local[d]
    BY <2>1, <2>2, LocalUpdated
  <2>6. ProbeOf(c) /\ SnapshotOf(c)
    BY DEF IInv, Probes, Snapshots, ProbeOf, SnapshotOf, ProbeSteps, HomeSteps
  <2>7. ProbeOf(c)'
    BY <2>3, <2>4, <2>5, <2>6 DEF ProbeOf, OnThisHost, Owner, hosts
  <2>8. SnapshotOf(c)'
    BY <2>3, <2>4, <2>5, <2>6 DEF SnapshotOf
  <2>9. life[ProcessOf[c]] = "alive" /\ pc[c] # "idle"
    BY <2>4, AtWorkLives DEF AtWork
  <2> QED
    BY <2>1, <2>4, <2>5, <2>7, <2>8, <2>9, Quiet DEF TypeOK
<1> QED
  BY <1>1, <1>2, <1>3

\* An update that only says that a question went unanswered.
LEMMA UnansweredUpdate ==
    ASSUME IInv, NEW c \in Call, Unanswered(c)
    PROVE  \E r \in Local : /\ local' = [local EXCEPT ![c] = r]
                            /\ r.seen = local[c].seen
<1> DEFINE r == [local[c] EXCEPT !.undisturbed = FALSE]
<1>1. local[c] \in Local
  BY DEF IInv, TypeOK
<1>2. r \in Local /\ r.seen = local[c].seen
  BY <1>1 DEF Local
<1>3. local' = [local EXCEPT ![c] = r]
  BY DEF Unanswered
<1> QED
  BY <1>2, <1>3

LEMMA AcquiringSteps ==
    ASSUME IInv, NEW c \in Call, Prepare(c) \/ Stat(c)
    PROVE  IInv'
<1> USE WorkSteps DEF PlainSteps, Ended
<1>1. CASE Prepare(c)
  <2>1. UNCHANGED <<hosts, dir, queue, file>>
    BY <1>1 DEF Prepare
  <2>2. CASE Moves(c, "prepare", "failed") /\ Unanswered(c)
    <3>1. PICK r \in Local : local' = [local EXCEPT ![c] = r]
      BY <2>2, UnansweredUpdate
    <3> QED
      BY <2>1, <2>2, <3>1, PlainMove
  <2>3. CASE /\ Moves(c, "prepare", IF local[c].clock = "over" THEN "failed" ELSE "try")
             /\ UNCHANGED local
    <3>1. CASE local[c].clock = "over"
      BY <2>1, <2>3, <3>1, PlainMoveOnly
    <3>2. CASE local[c].clock # "over"
      BY <2>1, <2>3, <3>2, PlainMoveOnly
    <3> QED
      BY <3>1, <3>2
  <2> QED
    BY <1>1, <2>2, <2>3 DEF Prepare
<1>2. CASE Stat(c)
  <2> DEFINE r == [local[c] EXCEPT !.granted = @ \/ Reclaimed(c), !.owed = @ \/ Reclaimed(c),
                                   !.seen = None, !.bootKnown = FALSE]
  <2>1. local[c] \in Local
    BY DEF IInv, TypeOK
  <2>2. r \in Local /\ local' = [local EXCEPT ![c] = r]
    BY <1>2, <2>1 DEF Stat, Local
  <2>3. UNCHANGED <<hosts, dir, queue, file>>
    BY <1>2 DEF Stat
  <2> HIDE DEF r
  <2>4. CASE Moves(c, "stat", "failed")
    BY <2>2, <2>3, <2>4, PlainMove
  <2>5. CASE Moves(c, "stat", "try")
    BY <2>2, <2>3, <2>5, PlainMove
  <2> QED
    BY <1>2, <2>4, <2>5 DEF Stat
<1> QED
  BY <1>1, <1>2

----------------------------------------------------------------------------
(* The probe: what each question tells of the owner. *)

LEMMA OwnerKnown ==
    ASSUME IInv, NEW c \in Call, pc[c] \in HomeSteps
    PROVE  /\ local[c].seen \in Call /\ pc[local[c].seen] # "idle"
           /\ Owner(c) \in Process
           /\ OnThisHost(c)
           /\ life[Owner(c)] # "alive" => life[Owner(c)] = "dead"
<1>1. local[c].seen \in Call /\ pc[local[c].seen] # "idle" /\ OnThisHost(c)
  BY DEF IInv, Probes, HomeSteps
<1>2. Owner(c) \in Process
  BY <1>1, LockAssumption DEF Owner
<1>3. life[Owner(c)] # "new"
  BY <1>1 DEF IInv, CallsOfLive, Owner
<1> QED
  BY <1>1, <1>2, <1>3 DEF IInv, TypeOK

\* Another boot session than the owner's: the owner went with it.
LEMMA OlderBootIsDead ==
    ASSUME IInv, NEW c \in Call, pc[c] \in HomeSteps,
           bootOf[Owner(c)] # boot[HostOf[ProcessOf[c]]]
    PROVE  life[Owner(c)] = "dead"
  BY OwnerKnown DEF IInv, LiveProcesses, OnThisHost

\* Nobody has the owner's pid, or somebody else has it.
LEMMA NotHeldIsDead ==
    ASSUME IInv, NEW c \in Call, pc[c] \in HomeSteps,
           Holders(c) = {} \/ \E q \in Holders(c) : q # Owner(c)
    PROVE  life[Owner(c)] = "dead"
<1> SUFFICES ASSUME life[Owner(c)] = "alive" PROVE FALSE
  BY OwnerKnown
<1>1. Owner(c) \in Holders(c)
  BY OwnerKnown DEF Holders, OnThisHost
<1>2. ASSUME NEW q \in Holders(c) PROVE q = Owner(c)
  <2>1. /\ q \in Process /\ life[q] = "alive"
        /\ HostOf[q] = HostOf[Owner(c)] /\ PidOf[q] = PidOf[Owner(c)]
    BY <1>2, OwnerKnown DEF Holders, OnThisHost
  <2> QED
    BY <2>1, OwnerKnown DEF IInv, LiveProcesses
<1> QED
  BY <1>1, <1>2

\* A step of the probe at one of the places where it asks about the owner.
LEMMA DecidesStep ==
    ASSUME IInv, NEW c \in Call, UNCHANGED <<hosts, dir, queue, file>>,
           NEW from, from \in HomeSteps,
           NEW to, to \in {"alive", "uid", "identity", "unlink"}, Decides(c, from, to),
           NEW r, r \in Local, local' = [local EXCEPT ![c] = r], r.seen = local[c].seen,
           to = "unlink" => life[Owner(c)] = "dead"
    PROVE  IInv'
<1>1. from \in AtWork /\ pc[c] = from
  BY WorkSteps DEF Decides, Moves
<1>2. CASE Moves(c, from, "failed")
  BY <1>1, <1>2, PlainMove DEF PlainSteps, Ended
<1>3. CASE Moves(c, from, to)
  <2>1. to \in Places /\ to \notin {"idle", "write"} /\ to \notin HolderSteps
    BY DEF Places, AtWork, HolderSteps
  <2>2. to \in ProbeSteps => r.seen \in Call /\ pc[r.seen] # "idle"
    BY <1>1, OwnerKnown
  <2>3. to \in HomeSteps => HostOf[ProcessOf[r.seen]] = HostOf[ProcessOf[c]]
    BY <1>1, OwnerKnown DEF OnThisHost, Owner
  <2>4. to = "unlink" => life[ProcessOf[r.seen]] = "dead"
    BY DEF Owner
  <2> QED
    BY <1>1, <1>3, <2>1, <2>2, <2>3, <2>4, QuietMove
<1> QED
  BY <1>2, <1>3 DEF Decides

\* The same where the record stays as it is.
LEMMA DecidesOnly ==
    ASSUME IInv, NEW c \in Call, UNCHANGED <<hosts, dir, queue, local, file>>,
           NEW from, from \in HomeSteps,
           NEW to, to \in {"alive", "uid", "identity", "unlink"}, Decides(c, from, to),
           to = "unlink" => life[Owner(c)] = "dead"
    PROVE  IInv'
<1>1. local' = [local EXCEPT ![c] = local[c]] /\ local[c] \in Local
  BY DEF IInv, TypeOK
<1>2. PICK r \in Local : local' = [local EXCEPT ![c] = r] /\ r.seen = local[c].seen
  BY <1>1
<1>3. UNCHANGED <<hosts, dir, queue, file>>
  OBVIOUS
<1>4. CASE to = "unlink"
  BY <1>2, <1>3, <1>4, DecidesStep
<1>5. CASE to = "alive"
  BY <1>2, <1>3, <1>5, DecidesStep
<1>6. CASE to = "uid"
  BY <1>2, <1>3, <1>6, DecidesStep
<1>7. CASE to = "identity"
  BY <1>2, <1>3, <1>7, DecidesStep
<1> QED
  BY <1>4, <1>5, <1>6, <1>7

LEMMA LookingSteps ==
    ASSUME IInv, NEW c \in Call, ReadDir(c) \/ ReadOwner(c)
    PROVE  IInv'
<1> USE WorkSteps DEF PlainSteps, Ended
<1>1. CASE ReadDir(c)
  <2>1. UNCHANGED <<hosts, dir, queue, file>>
    BY <1>1 DEF ReadDir
  <2>2. CASE Moves(c, "readdir", "stat") /\ UNCHANGED local
    BY <2>1, <2>2, PlainMoveOnly
  <2>3. CASE Decides(c, "readdir", "rmdir") /\ UNCHANGED local
    <3>1. CASE Moves(c, "readdir", "failed")
      BY <2>1, <2>3, <3>1, PlainMoveOnly
    <3>2. CASE Moves(c, "readdir", "rmdir")
      BY <2>1, <2>3, <3>2, PlainMoveOnly
    <3> QED
      BY <2>3, <3>1, <3>2 DEF Decides
  <2>4. CASE \E d \in files : /\ Moves(c, "readdir", "readowner")
                              /\ local' = [local EXCEPT ![c].seen = d]
    <3>1. PICK d \in files : /\ Moves(c, "readdir", "readowner")
                             /\ local' = [local EXCEPT ![c].seen = d]
      BY <2>4
    <3>2. d \in Call /\ pc[d] # "idle" /\ local[c] \in Local
      BY DEF IInv, TypeOK, Directory
    <3> DEFINE r == [local[c] EXCEPT !.seen = d]
    <3>3. r \in Local /\ local' = [local EXCEPT ![c] = r] /\ r.seen = d
      BY <3>1, <3>2 DEF Local
    <3> HIDE DEF r
    <3>4. /\ "readowner" \in Places /\ "readowner" \notin HolderSteps
          /\ "readowner" \notin HomeSteps
      BY DEF Places, AtWork, HolderSteps, HomeSteps
    <3> QED
      BY <2>1, <3>1, <3>2, <3>3, <3>4, QuietMove
  <2> QED
    BY <1>1, <2>2, <2>3, <2>4 DEF ReadDir
<1>2. CASE ReadOwner(c)
  <2>1. UNCHANGED <<hosts, dir, queue, local, file>>
    BY <1>2 DEF ReadOwner
  <2>2. CASE Moves(c, "readowner", "stat")
    BY <2>1, <2>2, PlainMoveOnly
  <2>3. CASE Decides(c, "readowner", "boot") /\ OnThisHost(c)
    <3>1. CASE Moves(c, "readowner", "failed")
      BY <2>1, <2>3, <3>1, PlainMoveOnly
    <3>2. CASE Moves(c, "readowner", "boot")
      <4>1. local[c].seen \in Call /\ pc[local[c].seen] # "idle"
        BY <3>2 DEF IInv, Probes, Moves
      <4>2. /\ "boot" \in Places /\ "boot" \notin HolderSteps
        BY DEF Places, AtWork, HolderSteps
      <4> QED
        BY <2>1, <2>3, <3>2, <4>1, <4>2, QuietMoveOnly
    <3> QED
      BY <2>3, <3>1, <3>2 DEF Decides
  <2> QED
    BY <1>2, <2>2, <2>3 DEF ReadOwner
<1> QED
  BY <1>1, <1>2

LEMMA AskingSteps ==
    ASSUME IInv, NEW c \in Call, AskBoot(c) \/ AskAlive(c) \/ AskUid(c) \/ AskIdentity(c)
    PROVE  IInv'
<1> USE DEF HomeSteps
<1>1. CASE AskBoot(c)
  <2>1. UNCHANGED <<hosts, dir, queue, file>> /\ pc[c] = "boot"
    BY <1>1 DEF AskBoot
  <2>2. CASE Decides(c, "boot", "alive") /\ Unanswered(c)
    <3>1. PICK r \in Local : local' = [local EXCEPT ![c] = r] /\ r.seen = local[c].seen
      BY <2>2, UnansweredUpdate
    <3> QED
      BY <2>1, <2>2, <3>1, DecidesStep
  <2>3. CASE /\ Decides(c, "boot", IF bootOf[Owner(c)] # boot[HostOf[ProcessOf[c]]]
                                   THEN "unlink" ELSE "alive")
             /\ local' = [local EXCEPT ![c].bootKnown = TRUE]
    <3> DEFINE r == [local[c] EXCEPT !.bootKnown = TRUE]
    <3>1. local[c] \in Local
      BY DEF IInv, TypeOK
    <3>2. r \in Local /\ r.seen = local[c].seen /\ local' = [local EXCEPT ![c] = r]
      BY <2>3, <3>1 DEF Local
    <3> HIDE DEF r
    <3>3. CASE bootOf[Owner(c)] # boot[HostOf[ProcessOf[c]]]
      <4>1. Decides(c, "boot", "unlink") /\ life[Owner(c)] = "dead"
        BY <2>1, <2>3, <3>3, OlderBootIsDead
      <4> QED
        BY <2>1, <3>2, <4>1, DecidesStep
    <3>4. CASE ~(bootOf[Owner(c)] # boot[HostOf[ProcessOf[c]]])
      <4>1. Decides(c, "boot", "alive")
        BY <2>3, <3>4
      <4> QED
        BY <2>1, <3>2, <4>1, DecidesStep
    <3> QED
      BY <3>3, <3>4
  <2> QED
    BY <1>1, <2>2, <2>3 DEF AskBoot
<1>2. CASE AskAlive(c)
  <2>1. UNCHANGED <<hosts, dir, queue, local, file>>
    BY <1>2 DEF AskAlive
  <2>2. pc[c] = "alive"
    BY <1>2 DEF AskAlive, Decides, Moves
  <2>3. CASE Decides(c, "alive", "unlink") /\ Holders(c) = {}
    <3>1. life[Owner(c)] = "dead"
      BY <2>2, <2>3, NotHeldIsDead
    <3> QED
      BY <2>1, <2>3, <3>1, DecidesOnly
  <2>4. CASE Moves(c, "alive", "stat")
    BY <2>1, <2>4, PlainMoveOnly, WorkSteps DEF PlainSteps
  <2>5. CASE Decides(c, "alive", "uid")
    BY <2>1, <2>5, DecidesOnly
  <2> QED
    BY <1>2, <2>3, <2>4, <2>5 DEF AskAlive
<1>3. CASE AskUid(c)
  <2>1. UNCHANGED <<hosts, dir, queue, file>> /\ pc[c] = "uid"
    BY <1>3 DEF AskUid
  <2>2. CASE Decides(c, "uid", "identity") /\ Unanswered(c)
    <3>1. PICK r \in Local : local' = [local EXCEPT ![c] = r] /\ r.seen = local[c].seen
      BY <2>2, UnansweredUpdate
    <3> QED
      BY <2>1, <2>2, <3>1, DecidesStep
  <2>3. ASSUME NEW q \in Holders(c), UNCHANGED local,
               Decides(c, "uid", IF UidOf[q] # UidOf[Owner(c)] THEN "unlink" ELSE "identity")
        PROVE  IInv'
    <3>1. CASE UidOf[q] # UidOf[Owner(c)]
      <4>1. Decides(c, "uid", "unlink") /\ life[Owner(c)] = "dead"
        BY <2>1, <2>3, <3>1, NotHeldIsDead
      <4> QED
        BY <2>1, <2>3, <4>1, DecidesOnly
    <3>2. CASE ~(UidOf[q] # UidOf[Owner(c)])
      BY <2>1, <2>3, <3>2, DecidesOnly
    <3> QED
      BY <3>1, <3>2
  <2> QED
    BY <1>3, <2>2, <2>3 DEF AskUid
<1>4. CASE AskIdentity(c)
  <2>1. UNCHANGED <<hosts, dir, queue, file>> /\ pc[c] = "identity"
    BY <1>4 DEF AskIdentity
  <2>2. CASE Moves(c, "identity", "stat") /\ Unanswered(c)
    <3>1. PICK r \in Local : local' = [local EXCEPT ![c] = r]
      BY <2>2, UnansweredUpdate
    <3> QED
      BY <2>1, <2>2, <3>1, PlainMove, WorkSteps DEF PlainSteps
  <2>3. CASE Moves(c, "identity", "stat") /\ UNCHANGED local
    BY <2>1, <2>3, PlainMoveOnly, WorkSteps DEF PlainSteps
  <2>4. ASSUME NEW q \in Holders(c), UNCHANGED local,
               ~SameProcess(q, c), Decides(c, "identity", "unlink")
        PROVE  IInv'
    <3>1. life[Owner(c)] = "dead"
      BY <2>1, <2>4, NotHeldIsDead DEF SameProcess
    <3> QED
      BY <2>1, <2>4, <3>1, DecidesOnly
  <2> QED
    BY <1>4, <2>2, <2>3, <2>4 DEF AskIdentity
<1> QED
  BY <1>1, <1>2, <1>3, <1>4

----------------------------------------------------------------------------
(* The steps that change the directory, the file or a snapshot. *)

\* What is left to show for such a step, which moves only the call.
LEMMA OneCall ==
    ASSUME IInv, NEW c \in Call, UNCHANGED <<hosts, queue>>,
           NEW from \in AtWork, NEW to \in Places, Moves(c, from, to), to # "idle",
           NEW r \in Local, local' = [local EXCEPT ![c] = r],
           to \notin ProbeSteps, to = "write" => r.snapshot = file',
           present' \in BOOLEAN, files' \subseteq Call, file' \in Seq(Call),
           Directory', LiveLockStays',
           \A d \in Call : d # c /\ pc[d] = "write" => file' = file
    PROVE  IInv'
<1>1. TypeOK
  BY DEF IInv
<1>2. /\ pc' \in [Call -> Places]
      /\ pc[c] = from /\ pc'[c] = to
      /\ \A d \in Call : d # c => pc'[d] = pc[d]
  BY <1>1, PlaceMoved
<1>3. /\ local' \in [Call -> Local]
      /\ local'[c] = r
      /\ \A d \in Call : d # c => local'[d] = local[d]
  BY <1>1, LocalUpdated
<1>4. life[ProcessOf[c]] = "alive"
  BY <1>2, AtWorkLives
<1>5. ProbeOf(c)'
  BY <1>2 DEF ProbeOf, ProbeSteps, HomeSteps
<1>6. pc' \in [Call -> {"idle", "queued", "gone"} \cup AtWork \cup Ended]
  BY <1>2 DEF Places
<1>7. pc'[c] # "idle" /\ UNCHANGED hosts
  BY <1>2
<1>8. LiveProcesses' /\ CallsOfLive' /\ Probes'
  BY <1>2, <1>3, <1>4, <1>5, <1>6, <1>7, OneCallProbes
<1>9. TypeOK'
  BY <1>1, <1>3, <1>6 DEF TypeOK, hosts
<1>10. Snapshots'
  <2> SUFFICES ASSUME NEW d \in Call PROVE SnapshotOf(d)'
    BY DEF Snapshots, SnapshotOf
  <2>1. CASE d = c
    BY <2>1, <1>2, <1>3 DEF SnapshotOf
  <2>2. CASE d # c
    BY <2>2, <1>2, <1>3 DEF IInv, Snapshots, SnapshotOf
  <2> QED
    BY <2>1, <2>2
<1> QED
  BY <1>8, <1>9, <1>10 DEF IInv

\* Taking the lock: the directory was absent or empty, so nobody held it.
LEMMA TryStep ==
    ASSUME IInv, NEW c \in Call, Try(c)
    PROVE  IInv'
<1> DEFINE tried == [local[c] EXCEPT !.within = local[c].owed, !.owed = FALSE]
<1>1. TypeOK /\ local[c] \in Local /\ tried \in Local /\ Fresh \in Local
  <2>1. TypeOK /\ local[c] \in Local
    BY DEF IInv, TypeOK
  <2>2. tried \in Local
    BY <2>1 DEF Local
  <2>3. Fresh \in Local
    BY DEF Fresh, Local, Clock
  <2> QED
    BY <2>1, <2>2, <2>3
<1>2. PICK r \in Local : local' = [local EXCEPT ![c] = r]
  <2>1. CASE local' = local
    <3>1. local' = [local EXCEPT ![c] = local[c]]
      BY <1>1, <2>1 DEF TypeOK
    <3> QED
      BY <1>1, <3>1
  <2>2. CASE local' = [local EXCEPT ![c] = Acquired(c)]
    <3>1. Acquired(c) \in Local
      BY <1>1 DEF Acquired, Local
    <3> QED
      BY <2>2, <3>1
  <2>3. CASE local' = [local EXCEPT ![c] = tried]
    BY <1>1, <2>3
  <2> QED
    BY <2>1, <2>2, <2>3 DEF Try
<1>3. UNCHANGED <<hosts, queue, file>> /\ "try" \in AtWork
  BY DEF Try, AtWork
<1>4. CASE Moves(c, "try", "failed") /\ UNCHANGED dir
  BY <1>2, <1>3, <1>4, PlainMove DEF PlainSteps, Ended
<1>5. CASE Moves(c, "try", "readdir") /\ UNCHANGED dir
  BY <1>2, <1>3, <1>5, PlainMove DEF PlainSteps
<1>6. CASE files = {} /\ present' = TRUE /\ files' = {c} /\ Moves(c, "try", "read")
  <2>1. TypeOK
    BY DEF IInv
  <2>2. pc'[c] = "read" /\ \A d \in Call : d # c => pc'[d] = pc[d]
    BY <1>6, <2>1 DEF TypeOK, Moves
  <2>3. Holder = {}
    BY <1>6 DEF IInv, LiveLockStays
  <2>4. Holder' \subseteq {c}
    BY <2>2, <2>3 DEF Holder
  <2>5. Directory' /\ LiveLockStays'
    BY <1>6, <2>2, <2>4 DEF Directory, LiveLockStays
  <2>6. /\ "read" \in Places /\ "read" \notin {"idle", "write"} /\ "read" \notin ProbeSteps
    BY DEF Places, AtWork, ProbeSteps
  <2>7. /\ present' \in BOOLEAN /\ files' \subseteq Call /\ file' \in Seq(Call)
        /\ \A d \in Call : d # c /\ pc[d] = "write" => file' = file
    BY <1>3, <1>6, <2>1 DEF TypeOK
  <2> QED
    BY <1>2, <1>3, <1>6, <2>5, <2>6, <2>7, OneCall
<1> QED
  BY <1>4, <1>5, <1>6 DEF Try

\* Removing: the file of a call that is dead or that gives its own lock back,
\* and the directory only while it is empty.
LEMMA RemovingSteps ==
    ASSUME IInv, NEW c \in Call, NEW token \in Call,
           NEW from, from \in AtWork, NEW to, to \in PlainSteps,
           NEW gone, gone \in PlainSteps,
           \/ RemovesFile(c, token, from, to, gone)
           \/ from \notin HolderSteps /\ RemovesDir(c, from, to),
           token = c \/ token \notin Holder
    PROVE  IInv'
<1> DEFINE next == IF RemovesDir(c, from, to) THEN to
                   ELSE IF token \in files THEN to ELSE gone
<1>1. TypeOK /\ Directory /\ LiveLockStays
  BY DEF IInv
<1>2. next \in PlainSteps /\ Moves(c, from, next)
  BY DEF RemovesFile, RemovesDir
<1> HIDE DEF next
<1>3. UNCHANGED <<hosts, queue, local, file>>
  BY DEF RemovesFile, RemovesDir
<1>4. pc'[c] = next /\ \A d \in Call : d # c => pc'[d] = pc[d]
  BY <1>1, <1>2 DEF TypeOK, Moves
<1>5. /\ next \in Places /\ next \notin {"idle", "write"} /\ next \notin HolderSteps
      /\ next \notin ProbeSteps
  BY <1>2 DEF PlainSteps, Places, Ended, AtWork, HolderSteps, ProbeSteps
<1>6. Holder' \subseteq Holder \ {c}
  BY <1>4, <1>5 DEF Holder, HolderSteps
<1>7. Directory'
  BY <1>1, <1>4, <1>5 DEF Directory, TypeOK, RemovesFile, RemovesDir
<1>8. LiveLockStays'
  <2> SUFFICES ASSUME NEW d \in Holder' PROVE files' = {d} /\ present'
    BY DEF LiveLockStays
  <2>1. d \in Holder /\ d # c /\ files = {d} /\ present
    BY <1>1, <1>6 DEF LiveLockStays
  <2> QED
    BY <2>1 DEF RemovesFile, RemovesDir
<1>9. /\ present' \in BOOLEAN /\ files' \subseteq Call /\ file' \in Seq(Call)
      /\ \A d \in Call : d # c /\ pc[d] = "write" => file' = file
  BY <1>1, <1>3 DEF TypeOK, RemovesFile, RemovesDir
<1>10. local' = [local EXCEPT ![c] = local[c]] /\ local[c] \in Local
  BY <1>1, <1>3 DEF TypeOK
<1> QED
  BY <1>2, <1>3, <1>5, <1>7, <1>8, <1>9, <1>10, OneCall

LEMMA ProbeRemoves ==
    ASSUME IInv, NEW c \in Call, Unlink(c) \/ Rmdir(c)
    PROVE  IInv'
<1> USE DEF PlainSteps
<1>1. CASE Unlink(c)
  <2>1. pc[c] = "unlink"
    BY <1>1 DEF Unlink, RemovesFile, Moves
  <2>2. local[c].seen \in Call /\ life[Owner(c)] = "dead"
    BY <2>1 DEF IInv, Probes
  <2>3. local[c].seen \notin Holder
    BY <2>2 DEF IInv, CallsOfLive, Owner, Holder, AtWork
  <2>4. "unlink" \in AtWork
    BY DEF AtWork
  <2> QED
    BY <1>1, <2>2, <2>3, <2>4, RemovingSteps DEF Unlink
<1>2. CASE Rmdir(c)
  <2>1. "rmdir" \in AtWork /\ "rmdir" \notin HolderSteps
    BY DEF AtWork, HolderSteps
  <2> QED
    BY <1>2, <2>1, RemovingSteps DEF Rmdir
<1> QED
  BY <1>1, <1>2

LEMMA ReleaseSteps ==
    ASSUME IInv, NEW c \in Call, Release(c) \/ ReleaseDir(c)
    PROVE  IInv'
<1> USE DEF PlainSteps, Ended
<1>1. CASE Release(c)
  <2>1. "release" \in AtWork
    BY DEF AtWork
  <2> QED
    BY <1>1, <2>1, RemovingSteps DEF Release
<1>2. CASE ReleaseDir(c)
  <2>1. "releasedir" \in AtWork /\ "releasedir" \notin HolderSteps
    BY DEF AtWork, HolderSteps
  <2> QED
    BY <1>2, <2>1, RemovingSteps DEF ReleaseDir
<1> QED
  BY <1>1, <1>2

\* Under the lock: what was read is still what the file holds when it is
\* written, because nobody else is between the two.
LEMMA WriteAppends ==
    ASSUME IInv, NEW c \in Call, WriteState(c)
    PROVE  file' = Append(file, c) \/ file' = file
<1>1. local[c].snapshot = file
  BY DEF WriteState, Moves, IInv, Snapshots
<1> QED
  BY <1>1 DEF WriteState

LEMMA OperationSteps ==
    ASSUME IInv, NEW c \in Call, ReadState(c) \/ WriteState(c)
    PROVE  IInv'
<1>1. TypeOK /\ Directory /\ LiveLockStays /\ MutualExclusion
  BY Exclusive DEF IInv
<1>2. local[c] \in Local /\ file \in Seq(Call)
  BY <1>1 DEF TypeOK
<1>3. CASE ReadState(c)
  <2> DEFINE r == [local[c] EXCEPT !.snapshot = file]
  <2>1. r \in Local /\ r.snapshot = file /\ local' = [local EXCEPT ![c] = r]
    BY <1>2, <1>3 DEF ReadState, Local
  <2> HIDE DEF r
  <2>2. UNCHANGED <<hosts, dir, queue, file>> /\ Moves(c, "read", "write")
    BY <1>3 DEF ReadState
  <2>3. /\ "read" \in AtWork /\ "write" \in Places /\ "write" \notin ProbeSteps
    BY DEF AtWork, Places, ProbeSteps
  <2>4. pc'[c] = "write" /\ \A d \in Call : d # c => pc'[d] = pc[d]
    BY <1>1, <2>2 DEF TypeOK, Moves
  <2>5. Holder' \subseteq Holder
    BY <2>2, <2>4 DEF Holder, Moves
  <2>6. Directory' /\ LiveLockStays'
    BY <1>1, <2>2, <2>4, <2>5 DEF Directory, LiveLockStays, TypeOK, dir
  <2>7. /\ present' \in BOOLEAN /\ files' \subseteq Call /\ file' \in Seq(Call)
        /\ UNCHANGED <<hosts, queue>>
        /\ \A d \in Call : d # c /\ pc[d] = "write" => file' = file
    BY <1>1, <2>2 DEF TypeOK, dir
  <2>8. "write" = "write" => r.snapshot = file'
    BY <2>1, <2>2
  <2> QED
    BY <2>1, <2>2, <2>3, <2>6, <2>7, <2>8, OneCall
<1>4. CASE WriteState(c)
  <2> DEFINE r == [local[c] EXCEPT !.snapshot = << >>]
  <2>1. << >> \in Seq(Call)
    OBVIOUS
  <2>2. r \in Local /\ local' = [local EXCEPT ![c] = r]
    BY <1>2, <1>4, <2>1 DEF WriteState, Local
  <2> HIDE DEF r
  <2>3. UNCHANGED <<hosts, dir, queue>> /\ Moves(c, "write", "release")
    BY <1>4 DEF WriteState
  <2>4. /\ "write" \in AtWork /\ "release" \in Places /\ "release" \notin ProbeSteps
    BY DEF AtWork, Places, ProbeSteps
  <2>5. pc'[c] = "release" /\ \A d \in Call : d # c => pc'[d] = pc[d]
    BY <1>1, <2>3 DEF TypeOK, Moves
  <2>6. Holder' \subseteq Holder
    BY <2>3, <2>5 DEF Holder, Moves
  <2>7. Directory' /\ LiveLockStays'
    BY <1>1, <2>3, <2>5, <2>6 DEF Directory, LiveLockStays, TypeOK, dir
  <2>8. file' \in Seq(Call)
    BY <1>2, <1>4, WriteAppends
  <2>9. \A d \in Call : d # c => pc[d] # "write"
    BY <1>1, <2>3 DEF MutualExclusion, Holder, Moves
  <2>10. present' \in BOOLEAN /\ files' \subseteq Call
    BY <1>1, <2>3 DEF TypeOK, dir
  <2> QED
    BY <2>2, <2>3, <2>4, <2>7, <2>8, <2>9, <2>10, OneCall
<1> QED
  BY <1>3, <1>4

LEMMA MakeCallStep ==
    ASSUME IInv, NEW c \in Call, MakeCall(c)
    PROVE  IInv'
<1> USE LockAssumption
<1>1. TypeOK /\ Directory /\ LiveLockStays /\ Snapshots
  BY DEF IInv
<1>2. Moves(c, "idle", "queued") /\ "queued" \in Places
  BY DEF MakeCall, Places
<1>3. /\ pc' \in [Call -> Places]
      /\ pc[c] = "idle" /\ pc'[c] = "queued"
      /\ \A d \in Call : d # c => pc'[d] = pc[d]
  BY <1>1, <1>2, PlaceMoved
<1>4. UNCHANGED <<hosts, dir, local, file>> /\ life[ProcessOf[c]] = "alive"
  BY DEF MakeCall
<1>5. queue' \in [Process -> Seq(Call)]
  <2>1. queue[ProcessOf[c]] \in Seq(Call)
    BY <1>1 DEF TypeOK
  <2>2. Append(queue[ProcessOf[c]], c) \in Seq(Call)
    BY <2>1
  <2> QED
    BY <1>1, <2>2 DEF MakeCall, TypeOK
<1>6. pc' \in [Call -> {"idle", "queued", "gone"} \cup AtWork \cup Ended]
  BY <1>3 DEF Places
<1>7. TypeOK'
  BY <1>1, <1>4, <1>5, <1>6 DEF TypeOK, hosts, dir
<1>8. ProbeOf(c)'
  BY <1>3 DEF ProbeOf, ProbeSteps, HomeSteps
<1>9. /\ local' \in [Call -> Local] /\ pc'[c] # "idle" /\ UNCHANGED hosts
      /\ \A d \in Call : d # c => pc'[d] = pc[d] /\ local'[d] = local[d]
  BY <1>1, <1>3, <1>4 DEF TypeOK
<1>10. LiveProcesses' /\ CallsOfLive' /\ Probes'
  BY <1>4, <1>6, <1>8, <1>9, OneCallProbes
<1>11. Directory'
  BY <1>1, <1>3, <1>4 DEF Directory, TypeOK, dir
<1>12. LiveLockStays'
  <2>1. Holder' = Holder
    BY <1>3 DEF Holder
  <2> QED
    BY <1>1, <1>4, <2>1 DEF LiveLockStays, dir
<1>13. Snapshots'
  BY <1>1, <1>3, <1>4 DEF Snapshots
<1> QED
  BY <1>7, <1>10, <1>11, <1>12, <1>13 DEF IInv

----------------------------------------------------------------------------
(* Processes come and go. *)

LEMMA StartStep ==
    ASSUME IInv, NEW p \in Process, Start(p)
    PROVE  IInv'
<1> USE LockAssumption
<1>1. /\ TypeOK /\ LiveProcesses /\ CallsOfLive /\ Directory
      /\ Probes /\ LiveLockStays /\ Snapshots
  BY DEF IInv
<1>2. /\ UNCHANGED <<boot, dir, queue, pc, file>> /\ life[p] = "new"
      /\ life' = [life EXCEPT ![p] = "alive"]
      /\ bootOf' = [bootOf EXCEPT ![p] = boot[HostOf[p]]]
  BY DEF Start
<1>3. /\ local' \in [Call -> Local]
      /\ \A c \in Call : local'[c].seen = local[c].seen
                        /\ local'[c].snapshot = local[c].snapshot
  <2>1. \A c \in Call : local[c] \in Local
    BY <1>1 DEF TypeOK
  <2>2. \A c \in Call : /\ [local[c] EXCEPT !.undisturbed = FALSE] \in Local
                       /\ [local[c] EXCEPT !.undisturbed = FALSE].seen = local[c].seen
                       /\ [local[c] EXCEPT !.undisturbed = FALSE].snapshot = local[c].snapshot
    BY <2>1 DEF Local
  <2> QED
    BY <2>1, <2>2 DEF Start
<1>4. TypeOK'
  <2>1. boot[HostOf[p]] \in Nat
    BY <1>1 DEF TypeOK
  <2> QED
    BY <1>1, <1>2, <1>3, <2>1 DEF TypeOK, dir
<1>5. LiveProcesses'
  <2>1. \A q \in Process : life'[q] = "alive" <=> life[q] = "alive" \/ q = p
    BY <1>1, <1>2 DEF TypeOK
  <2>2. \A q \in Process : life[q] = "alive" =>
            ~(HostOf[q] = HostOf[p] /\ PidOf[q] = PidOf[p])
    BY DEF Start
  <2>3. \A q \in Process : bootOf'[q] = IF q = p THEN boot[HostOf[p]] ELSE bootOf[q]
    BY <1>1, <1>2 DEF TypeOK
  <2> QED
    BY <1>1, <1>2, <2>1, <2>2, <2>3 DEF LiveProcesses
<1>6. CallsOfLive'
  BY <1>1, <1>2 DEF CallsOfLive, TypeOK
<1>7. Directory' /\ LiveLockStays'
  BY <1>1, <1>2 DEF Directory, LiveLockStays, Holder, dir
<1>8. Probes'
  <2> SUFFICES ASSUME NEW c \in Call PROVE ProbeOf(c)'
    BY DEF Probes, ProbeOf, ProbeSteps, HomeSteps
  <2>1. ProbeOf(c)
    BY <1>1 DEF Probes, ProbeOf, ProbeSteps, HomeSteps
  <2>2. \A q \in Process : life[q] = "dead" => life'[q] = "dead"
    BY <1>1, <1>2 DEF TypeOK
  <2>3. pc[c] = "unlink" => Owner(c) \in Process
    BY <2>1 DEF ProbeOf, ProbeSteps, Owner
  <2> QED
    BY <1>2, <1>3, <2>1, <2>2, <2>3 DEF ProbeOf, OnThisHost, Owner
<1>9. Snapshots'
  BY <1>1, <1>2, <1>3 DEF Snapshots
<1> QED
  BY <1>4, <1>5, <1>6, <1>7, <1>8, <1>9 DEF IInv

\* Processes die, and their calls with them; the boot of a host may change if
\* none of its processes survives.
LEMMA EndStep ==
    ASSUME IInv, NEW Dying \in SUBSET Process, End(Dying),
           \A p \in Dying : life[p] = "alive",
           boot' \in [Host -> Nat],
           \A p \in Process : life[p] = "alive" /\ p \notin Dying =>
               boot'[HostOf[p]] = boot[HostOf[p]]
    PROVE  IInv'
<1> USE LockAssumption
<1> DEFINE Lost == {c \in Call : ProcessOf[c] \in Dying /\ pc[c] \notin Ended}
<1>1. /\ TypeOK /\ LiveProcesses /\ CallsOfLive /\ Directory
      /\ Probes /\ LiveLockStays /\ Snapshots
  BY DEF IInv
<1>2. /\ UNCHANGED <<bootOf, dir, queue, file>>
      /\ \A p \in Process : life'[p] = IF p \in Dying THEN "dead" ELSE life[p]
      /\ \A c \in Call : pc'[c] = IF c \in Lost THEN "gone" ELSE pc[c]
      /\ \A c \in Call : local'[c] = IF c \in Lost THEN Fresh ELSE local[c]
  BY DEF End
<1>3. TypeOK'
  <2>1. Fresh \in Local
    BY DEF Fresh, Local, Clock
  <2>2. life' \in [Process -> {"new", "alive", "dead"}]
    BY <1>1 DEF End, TypeOK
  <2>3. pc' \in [Call -> {"idle", "queued", "gone"} \cup AtWork \cup Ended]
    BY <1>1 DEF End, TypeOK
  <2>4. local' \in [Call -> Local]
    BY <1>1, <2>1 DEF End, TypeOK
  <2> QED
    BY <1>1, <1>2, <2>2, <2>3, <2>4 DEF TypeOK, dir
<1>4. LiveProcesses'
  BY <1>1, <1>2 DEF LiveProcesses
<1> HIDE DEF Lost
<1>5. CallsOfLive'
  <2> SUFFICES ASSUME NEW c \in Call
               PROVE /\ pc'[c] \in AtWork \cup {"queued"} => life'[ProcessOf[c]] = "alive"
                     /\ pc'[c] # "idle" => life'[ProcessOf[c]] # "new"
    BY DEF CallsOfLive
  <2>1. CASE ProcessOf[c] \in Dying
    <3>1. pc'[c] \in Ended \cup {"gone"} /\ life'[ProcessOf[c]] = "dead"
      BY <1>2, <2>1 DEF Lost
    <3> QED
      BY <3>1 DEF Ended, AtWork
  <2>2. CASE ProcessOf[c] \notin Dying
    BY <1>1, <1>2, <2>2 DEF CallsOfLive, Lost
  <2> QED
    BY <2>1, <2>2
<1>6. \A c \in Call : pc[c] # "idle" => pc'[c] # "idle"
  BY <1>2
<1>7. Directory'
  BY <1>1, <1>2, <1>6 DEF Directory, TypeOK, dir
<1>8. LiveLockStays'
  <2>1. Holder' \subseteq Holder
    BY <1>2 DEF Holder
  <2> QED
    BY <1>1, <1>2, <2>1 DEF LiveLockStays, dir
<1>9. Probes'
  <2> SUFFICES ASSUME NEW c \in Call PROVE ProbeOf(c)'
    BY DEF Probes, ProbeOf, ProbeSteps, HomeSteps
  <2>1. ProbeOf(c)
    BY <1>1 DEF Probes, ProbeOf, ProbeSteps, HomeSteps
  <2>2. CASE c \in Lost
    BY <1>2, <2>2 DEF ProbeOf, ProbeSteps, HomeSteps
  <2>3. CASE c \notin Lost
    <3>1. pc'[c] = pc[c] /\ local'[c] = local[c]
      BY <1>2, <2>3
    <3>2. pc[c] = "unlink" => Owner(c) \in Process
      BY <2>1 DEF ProbeOf, ProbeSteps, Owner
    <3>3. \A q \in Process : life[q] = "dead" => life'[q] = "dead"
      BY <1>2
    <3> QED
      BY <1>6, <2>1, <3>1, <3>2, <3>3 DEF ProbeOf, OnThisHost, Owner
  <2> QED
    BY <2>2, <2>3
<1>10. Snapshots'
  <2> SUFFICES ASSUME NEW c \in Call, pc'[c] = "write" PROVE local'[c].snapshot = file'
    BY DEF Snapshots
  <2>1. pc[c] = "write" /\ local'[c] = local[c]
    BY <1>2
  <2> QED
    BY <1>1, <1>2, <2>1 DEF Snapshots
<1> QED
  BY <1>3, <1>4, <1>5, <1>7, <1>8, <1>9, <1>10 DEF IInv

LEMMA EndingSteps ==
    IInv /\ ((\E p \in Process : Die(p)) \/ (\E h \in Host : Reboot(h))) => IInv'
<1> USE LockAssumption
<1>1. ASSUME IInv, NEW p \in Process, Die(p) PROVE IInv'
  <2>1. /\ {p} \in SUBSET Process /\ End({p}) /\ \A q \in {p} : life[q] = "alive"
        /\ boot' = boot
    BY <1>1 DEF Die
  <2>2. boot' \in [Host -> Nat]
    BY <1>1, <2>1 DEF IInv, TypeOK
  <2> QED
    BY <1>1, <2>1, <2>2, EndStep
<1>2. ASSUME IInv, NEW h \in Host, Reboot(h) PROVE IInv'
  <2> DEFINE Dying == {p \in Process : HostOf[p] = h /\ life[p] = "alive"}
  <2>1. Dying \in SUBSET Process /\ End(Dying) /\ \A q \in Dying : life[q] = "alive"
    BY <1>2 DEF Reboot
  <2>2. boot \in [Host -> Nat] /\ boot' = [boot EXCEPT ![h] = boot[h] + 1]
    BY <1>2 DEF Reboot, IInv, TypeOK
  <2>3. boot' \in [Host -> Nat]
    BY <2>2
  <2>4. \A p \in Process : life[p] = "alive" /\ p \notin Dying =>
            boot'[HostOf[p]] = boot[HostOf[p]]
    BY <2>2
  <2> HIDE DEF Dying
  <2> QED
    BY <1>2, <2>1, <2>3, <2>4, EndStep
<1> QED
  BY <1>1, <1>2

----------------------------------------------------------------------------
(* The theorems. *)

LEMMA NextHolds == IInv /\ [Next]_vars => IInv'
<1> SUFFICES ASSUME IInv, [Next]_vars PROVE IInv'
  OBVIOUS
<1>1. CASE UNCHANGED vars
  BY <1>1 DEF vars, hosts, dir, IInv, TypeOK, LiveProcesses, CallsOfLive, Directory, Probes,
              OnThisHost, Owner, LiveLockStays, Holder, Snapshots
<1>2. CASE \E p \in Process : Start(p)
  BY <1>2, StartStep
<1>3. CASE (\E p \in Process : Die(p)) \/ (\E h \in Host : Reboot(h))
  BY <1>3, EndingSteps
<1>4. ASSUME NEW c \in Call,
             \/ MakeCall(c) \/ Reject(c) \/ Enter(c) \/ Elapse(c)
             \/ Prepare(c) \/ Try(c) \/ Stat(c)
             \/ ReadDir(c) \/ ReadOwner(c)
             \/ AskBoot(c) \/ AskAlive(c) \/ AskUid(c) \/ AskIdentity(c)
             \/ Unlink(c) \/ Rmdir(c)
             \/ ReadState(c) \/ WriteState(c) \/ Release(c) \/ ReleaseDir(c)
      PROVE  IInv'
  BY <1>4, MakeCallStep, QueueSteps, AcquiringSteps, TryStep, LookingSteps, AskingSteps,
     ProbeRemoves, OperationSteps, ReleaseSteps
<1> QED
  BY <1>1, <1>2, <1>3, <1>4 DEF Next

\* IInv holds in every reachable state: however the file-system calls of any
\* number of calls, deaths, reboots and pids used again interleave.
THEOREM Invariance == Spec => []IInv
  BY InitHolds, NextHolds, PTL DEF Spec

\* Every variable keeps its type.
THEOREM TypeCorrect == Spec => []TypeOK
<1>1. IInv => TypeOK
  BY DEF IInv
<1> QED
  BY <1>1, Invariance, PTL

\* No probe removes the lock of a live process.
THEOREM LiveLocksStay == Spec => []LiveLockStays
<1>1. IInv => LiveLockStays
  BY DEF IInv
<1> QED
  BY <1>1, Invariance, PTL

\* No two live calls are between acquiring and releasing the lock.
THEOREM LockExcludes == Spec => []MutualExclusion
  BY Exclusive, Invariance, PTL

\* A write adds its call to what the file holds: no update of any process is
\* lost.
THEOREM NoUpdateLost == Spec => NothingLost
<1>1. IInv /\ [Next]_vars => [\E c \in Call : file' = Append(file, c)]_file
  <2> SUFFICES ASSUME IInv, Next, file' # file
               PROVE  \E c \in Call : file' = Append(file, c)
    BY DEF vars
  <2>1. ASSUME NEW p \in Process, Start(p) \/ Die(p) PROVE FALSE
    BY <2>1 DEF Start, Die, End
  <2>2. ASSUME NEW h \in Host, Reboot(h) PROVE FALSE
    BY <2>2 DEF Reboot, End
  <2>3. ASSUME NEW c \in Call,
               \/ MakeCall(c) \/ Reject(c) \/ Enter(c) \/ Elapse(c)
               \/ Prepare(c) \/ Try(c) \/ Stat(c)
               \/ ReadDir(c) \/ ReadOwner(c)
               \/ AskBoot(c) \/ AskAlive(c) \/ AskUid(c) \/ AskIdentity(c)
               \/ Unlink(c) \/ Rmdir(c)
               \/ ReadState(c) \/ Release(c) \/ ReleaseDir(c)
        PROVE  FALSE
    BY <2>3 DEF MakeCall, Reject, Enter, Elapse, Prepare, Try, Stat, ReadDir, ReadOwner,
                AskBoot, AskAlive, AskUid, AskIdentity, Unlink, Rmdir, RemovesFile,
                RemovesDir, ReadState, Release, ReleaseDir
  <2>4. ASSUME NEW c \in Call, WriteState(c) PROVE file' = Append(file, c)
    BY <2>4, WriteAppends
  <2> QED
    BY <2>1, <2>2, <2>3, <2>4 DEF Next
<1> QED
  BY <1>1, Invariance, PTL DEF Spec, NothingLost
=============================================================================
