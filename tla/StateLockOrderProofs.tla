------------------------ MODULE StateLockOrderProofs ------------------------
(***************************************************************************)
(* Proofs about StateLock that rest on the order of a process's queue: one *)
(* call of a process is at work at a time, so what it writes it writes in  *)
(* order, and a call beside which no other process lives meets nothing but *)
(* the remains of dead ones, which it removes within its guaranteed        *)
(* attempt.                                                                *)
(***************************************************************************)
EXTENDS StateLockProofs

\* The steps that a call takes.
CallStep(c) ==
    \/ MakeCall(c) \/ Reject(c) \/ Enter(c) \/ Elapse(c)
    \/ Prepare(c) \/ Try(c) \/ Stat(c)
    \/ ReadDir(c) \/ ReadOwner(c)
    \/ AskBoot(c) \/ AskAlive(c) \/ AskUid(c) \/ AskIdentity(c)
    \/ Unlink(c) \/ Rmdir(c)
    \/ ReadState(c) \/ WriteState(c) \/ Release(c) \/ ReleaseDir(c)

\* What every step of a call does to places and records.
Shape(c) ==
    /\ UNCHANGED hosts
    /\ \A d \in Call : d # c => pc'[d] = pc[d] /\ local'[d] = local[d]
    /\ \/ pc[c] = "idle" /\ pc'[c] = "queued" /\ local' = local
       \/ pc[c] = "queued" /\ pc'[c] = "rejected"
       \/ pc[c] = "queued" /\ pc'[c] = "prepare" /\ MayEnter(c)
       \/ pc[c] \in AtWork /\ pc'[c] \in AtWork \cup {"failed", "done"}
    /\ local'[c].rejected => local[c].rejected \/ pc'[c] = "rejected"
    /\ pc[c] \in {"release", "releasedir"} => pc'[c] \in {"release", "releasedir", "done"}
    /\ pc[c] \notin {"idle", "queued", "rejected"} => pc'[c] # "rejected"

LEMMA StepShape ==
    ASSUME IInv, NEW c \in Call, CallStep(c)
    PROVE  Shape(c)
<1>1. local[c] \in Local /\ TypeOK
  BY DEF IInv, TypeOK
<1> DEFINE Others == \A d \in Call : d # c => pc'[d] = pc[d]
           Kept == /\ \A d \in Call : d # c => local'[d] = local[d]
                   /\ local'[c].rejected => local[c].rejected
<1>2. ASSUME NEW from, NEW to, Moves(c, from, to)
      PROVE  Others /\ pc[c] = from /\ pc'[c] = to
  BY <1>1, <1>2 DEF Moves, TypeOK
<1>3. ASSUME NEW from, NEW to, Decides(c, from, to)
      PROVE  Others /\ pc[c] = from /\ pc'[c] \in {"failed", to}
  BY <1>2, <1>3 DEF Decides
<1>4. ASSUME Unanswered(c) \/ UNCHANGED local PROVE Kept
  BY <1>1, <1>4 DEF Unanswered, TypeOK, Local
<1>5. CASE MakeCall(c)
  BY <1>2, <1>5 DEF MakeCall, Shape, hosts
<1>6. CASE Reject(c)
  <2>1. \A d \in Call : d # c => local'[d] = local[d]
    BY <1>6 DEF Reject
  <2> QED
    BY <1>2, <1>6, <2>1 DEF Reject, Shape, hosts
<1>7. CASE Enter(c)
  <2>1. Kept
    <3>1. PICK time \in {"budget", "floor"} : local' = [local EXCEPT ![c] =
              [local[c] EXCEPT !.clock = time, !.undisturbed = Alone(ProcessOf[c])]]
      BY <1>1, <1>7 DEF Enter
    <3> QED
      BY <1>1, <3>1 DEF TypeOK, Local
  <2>2. Moves(c, "queued", "prepare") /\ MayEnter(c) /\ UNCHANGED hosts
    BY <1>7 DEF Enter, Begins
  <2>3. Others /\ pc[c] = "queued" /\ pc'[c] = "prepare"
    BY <1>2, <2>2
  <2> QED
    BY <2>1, <2>2, <2>3 DEF Shape
\* A call that is at work either stays so or has failed or is done.
<1>8. ASSUME Others, Kept, UNCHANGED hosts, pc[c] \in AtWork, pc'[c] \in AtWork \cup {"failed", "done"},
             pc[c] \in {"release", "releasedir"} => pc'[c] \in {"release", "releasedir", "done"}
      PROVE  Shape(c)
  BY <1>8 DEF Shape, AtWork
<1> HIDE DEF Others, Kept
<1>9. CASE Elapse(c)
  <2>1. Kept
    BY <1>1, <1>9 DEF Elapse, TypeOK, Local, Kept
  <2> QED
    BY <1>8, <1>9, <2>1 DEF Elapse, Others
<1>10. CASE Prepare(c)
  <2>1. Kept /\ UNCHANGED hosts
    BY <1>4, <1>10 DEF Prepare
  <2>2. Others /\ pc[c] = "prepare" /\ pc'[c] \in {"failed", "try"}
    BY <1>2, <1>10 DEF Prepare
  <2> QED
    BY <1>8, <2>1, <2>2 DEF AtWork
<1>11. CASE Try(c)
  <2>1. Kept
    <3>1. CASE local' = [local EXCEPT ![c] = Acquired(c)]
      BY <1>1, <3>1 DEF TypeOK, Acquired, Fresh, Kept
    <3>2. CASE local' = local
      BY <3>2 DEF Kept
    <3>3. CASE local' = [local EXCEPT ![c] =
                  [local[c] EXCEPT !.within = local[c].owed, !.owed = FALSE]]
      BY <1>1, <3>3 DEF TypeOK, Local, Kept
    <3> QED
      BY <1>11, <3>1, <3>2, <3>3 DEF Try
  <2>2. Others /\ pc[c] = "try" /\ pc'[c] \in {"failed", "read", "readdir"}
    BY <1>2, <1>11 DEF Try
  <2>3. UNCHANGED hosts
    BY <1>11 DEF Try
  <2> QED
    BY <1>8, <2>1, <2>2, <2>3 DEF AtWork
<1>12. CASE Stat(c)
  <2>1. Kept
    BY <1>1, <1>12 DEF Stat, TypeOK, Local, Kept
  <2>2. Others /\ pc[c] = "stat" /\ pc'[c] \in {"failed", "try"}
    BY <1>2, <1>12 DEF Stat
  <2>3. UNCHANGED hosts
    BY <1>12 DEF Stat
  <2> QED
    BY <1>8, <2>1, <2>2, <2>3 DEF AtWork
<1>13. CASE ReadDir(c)
  <2>1. Kept
    BY <1>1, <1>13 DEF ReadDir, TypeOK, Local, Kept
  <2>2. Others /\ pc[c] = "readdir" /\ pc'[c] \in {"failed", "stat", "rmdir", "readowner"}
    BY <1>2, <1>3, <1>13 DEF ReadDir
  <2>3. UNCHANGED hosts
    BY <1>13 DEF ReadDir
  <2> QED
    BY <1>8, <2>1, <2>2, <2>3 DEF AtWork
<1>14. CASE ReadOwner(c)
  <2>1. Others /\ pc[c] = "readowner" /\ pc'[c] \in {"failed", "stat", "boot"}
    BY <1>2, <1>3, <1>14 DEF ReadOwner
  <2> QED
    BY <1>4, <1>8, <1>14, <2>1 DEF ReadOwner, AtWork
<1>15. CASE AskBoot(c)
  <2>1. Kept
    BY <1>1, <1>4, <1>15 DEF AskBoot, TypeOK, Local, Kept
  <2>2. Others /\ pc[c] = "boot" /\ pc'[c] \in {"failed", "alive", "unlink"}
    BY <1>3, <1>15 DEF AskBoot
  <2>3. UNCHANGED hosts
    BY <1>15 DEF AskBoot
  <2> QED
    BY <1>8, <2>1, <2>2, <2>3 DEF AtWork
<1>16. CASE AskAlive(c)
  <2>1. Others /\ pc[c] = "alive" /\ pc'[c] \in {"failed", "unlink", "stat", "uid"}
    BY <1>2, <1>3, <1>16 DEF AskAlive
  <2> QED
    BY <1>4, <1>8, <1>16, <2>1 DEF AskAlive, AtWork
<1>17. CASE AskUid(c)
  <2>1. Others /\ pc[c] = "uid" /\ pc'[c] \in {"failed", "unlink", "identity"}
    BY <1>3, <1>17 DEF AskUid
  <2> QED
    BY <1>4, <1>8, <1>17, <2>1 DEF AskUid, AtWork
<1>18. CASE AskIdentity(c)
  <2>1. Others /\ pc[c] = "identity" /\ pc'[c] \in {"failed", "unlink", "stat"}
    BY <1>2, <1>3, <1>18 DEF AskIdentity
  <2> QED
    BY <1>4, <1>8, <1>18, <2>1 DEF AskIdentity, AtWork
<1>19. CASE Unlink(c)
  <2>1. Others /\ pc[c] = "unlink" /\ pc'[c] \in {"rmdir", "stat"}
    BY <1>2, <1>19 DEF Unlink, RemovesFile
  <2> QED
    BY <1>4, <1>8, <1>19, <2>1 DEF Unlink, RemovesFile, AtWork
<1>20. CASE Rmdir(c)
  <2>1. Others /\ pc[c] = "rmdir" /\ pc'[c] = "stat"
    BY <1>2, <1>20 DEF Rmdir, RemovesDir
  <2> QED
    BY <1>4, <1>8, <1>20, <2>1 DEF Rmdir, RemovesDir, AtWork
<1>21. CASE ReadState(c)
  <2>1. Kept
    BY <1>1, <1>21 DEF ReadState, TypeOK, Local, Kept
  <2>2. Others /\ pc[c] = "read" /\ pc'[c] = "write"
    BY <1>2, <1>21 DEF ReadState
  <2> QED
    BY <1>8, <1>21, <2>1, <2>2 DEF ReadState, AtWork
<1>22. CASE WriteState(c)
  <2>1. Kept
    BY <1>1, <1>22 DEF WriteState, TypeOK, Local, Kept
  <2>2. Others /\ pc[c] = "write" /\ pc'[c] = "release"
    BY <1>2, <1>22 DEF WriteState
  <2> QED
    BY <1>8, <1>22, <2>1, <2>2 DEF WriteState, AtWork
<1>23. CASE Release(c)
  <2>1. Others /\ pc[c] = "release" /\ pc'[c] \in {"releasedir", "done"}
    BY <1>2, <1>23 DEF Release, RemovesFile
  <2> QED
    BY <1>4, <1>8, <1>23, <2>1 DEF Release, RemovesFile, AtWork
<1>24. CASE ReleaseDir(c)
  <2>1. Others /\ pc[c] = "releasedir" /\ pc'[c] = "done"
    BY <1>2, <1>24 DEF ReleaseDir, RemovesDir
  <2> QED
    BY <1>4, <1>8, <1>24, <2>1 DEF ReleaseDir, RemovesDir, AtWork
<1> QED
  BY <1>5, <1>6, <1>7, <1>9, <1>10, <1>11, <1>12, <1>13, <1>14, <1>15, <1>16, <1>17, <1>18,
     <1>19, <1>20, <1>21, <1>22, <1>23, <1>24 DEF CallStep

----------------------------------------------------------------------------
(* The queue of a process. *)

LEMMA QueueFrame ==
    ASSUME NEW c \in Call, CallStep(c), ~MakeCall(c)
    PROVE  queue' = queue
  BY DEF CallStep, Reject, Enter, Elapse, Prepare, Try, Stat, ReadDir, ReadOwner, AskBoot,
         AskAlive, AskUid, AskIdentity, Unlink, Rmdir, RemovesFile, RemovesDir, ReadState,
         WriteState, Release, ReleaseDir

\* What Queues says of one position of a queue.
PlaceInQueue(p, k) ==
    /\ ProcessOf[queue[p][k]] = p
    /\ pc[queue[p][k]] # "idle"
    /\ \A l \in DOMAIN queue[p] : k < l =>
          /\ queue[p][k] # queue[p][l]
          /\ pc[queue[p][l]] \in AtWork \cup {"done"} => pc[queue[p][k]] \in Ended

LEMMA QueueTyped ==
    ASSUME TypeOK, NEW p \in Process
    PROVE  /\ queue[p] \in Seq(Call)
           /\ DOMAIN queue[p] \subseteq Int
           /\ \A k \in DOMAIN queue[p] : queue[p][k] \in Call
  BY DEF TypeOK

LEMMA OneAtWork ==
    ASSUME TypeOK, Queues, NEW c \in Call, NEW d \in Call,
           pc[c] \in AtWork, pc[d] \in AtWork, ProcessOf[c] = ProcessOf[d]
    PROVE  c = d
<1> USE LockAssumption
<1>1. PICK k \in DOMAIN queue[ProcessOf[c]] : queue[ProcessOf[c]][k] = c
  BY DEF Queues, Asked, AtWork
<1>2. PICK l \in DOMAIN queue[ProcessOf[c]] : queue[ProcessOf[c]][l] = d
  BY DEF Queues, Asked, AtWork
<1>3. k \in Int /\ l \in Int /\ ProcessOf[c] \in Process
  BY QueueTyped
<1>4. ~ (k < l)
  BY <1>1, <1>2, <1>3 DEF Queues, AtWork, Ended
<1>5. ~ (l < k)
  BY <1>1, <1>2, <1>3 DEF Queues, AtWork, Ended
<1> QED
  BY <1>1, <1>2, <1>3, <1>4, <1>5

LEMMA MakeAsks ==
    ASSUME TypeOK, NEW c \in Call, MakeCall(c), NEW d \in Call, d # c
    PROVE  Asked(d)' <=> Asked(d)
<1> USE LockAssumption
<1>1. ProcessOf[d] \in Process /\ queue[ProcessOf[d]] \in Seq(Call)
  BY QueueTyped
<1>2. CASE ProcessOf[d] = ProcessOf[c]
  <2>1. queue'[ProcessOf[d]] = Append(queue[ProcessOf[d]], c)
    BY <1>1, <1>2 DEF MakeCall, TypeOK
  <2> QED
    BY <1>1, <2>1 DEF Asked
<1>3. CASE ProcessOf[d] # ProcessOf[c]
  BY <1>1, <1>3 DEF MakeCall, TypeOK, Asked
<1> QED
  BY <1>2, <1>3

LEMMA QueuesMake ==
    ASSUME IInv, Queues, NEW c \in Call, MakeCall(c)
    PROVE  Queues'
<1> USE LockAssumption
<1> DEFINE p == ProcessOf[c]
           n == Len(queue[p])
<1>1. TypeOK /\ p \in Process /\ queue[p] \in Seq(Call) /\ n \in Nat
  BY QueueTyped DEF IInv
<1>2. /\ queue'[p] = Append(queue[p], c)
      /\ \A q \in Process : q # p => queue'[q] = queue[q]
  BY <1>1 DEF MakeCall, TypeOK
<1>3. /\ DOMAIN queue[p] = 1..n /\ DOMAIN queue'[p] = 1..(n + 1)
      /\ queue'[p][n + 1] = c
      /\ \A k \in 1..n : queue'[p][k] = queue[p][k]
  BY <1>1, <1>2
<1>4. /\ pc[c] = "idle" /\ pc'[c] = "queued"
      /\ \A d \in Call : d # c => pc'[d] = pc[d]
  BY <1>1 DEF MakeCall, Moves, TypeOK
<1>5. ASSUME NEW q \in Process, NEW k \in DOMAIN queue[q]
      PROVE  /\ queue[q][k] \in Call /\ queue[q][k] # c
             /\ pc'[queue[q][k]] = pc[queue[q][k]]
  BY <1>1, <1>4, QueueTyped DEF Queues
<1>6. ASSUME NEW q \in Process, NEW k \in DOMAIN queue'[q]
      PROVE  PlaceInQueue(q, k)'
  <2>1. CASE q # p
    <3>1. queue'[q] = queue[q] /\ PlaceInQueue(q, k)
      BY <1>2, <2>1 DEF Queues, PlaceInQueue
    <3> QED
      BY <1>5, <3>1 DEF PlaceInQueue
  <2>2. CASE q = p /\ k = n + 1
    BY <1>1, <1>3, <1>4, <2>2 DEF PlaceInQueue
  <2>3. CASE q = p /\ k # n + 1
    <3>1. k \in 1..n /\ PlaceInQueue(p, k)
      BY <1>1, <1>3, <2>3 DEF Queues, PlaceInQueue
    <3>2. ASSUME NEW l \in 1..(n + 1), k < l
          PROVE  /\ queue'[p][k] # queue'[p][l]
                 /\ pc'[queue'[p][l]] \in AtWork \cup {"done"} => pc'[queue'[p][k]] \in Ended
      <4>1. CASE l = n + 1
        BY <1>3, <1>4, <1>5, <3>1, <4>1 DEF AtWork
      <4>2. CASE l # n + 1
        <5>1. l \in 1..n
          BY <1>1, <4>2
        <5> QED
          BY <1>1, <1>3, <1>5, <3>1, <3>2, <5>1 DEF PlaceInQueue
      <4> QED
        BY <4>1, <4>2
    <3> QED
      BY <1>1, <1>3, <1>5, <2>3, <3>1, <3>2 DEF PlaceInQueue
  <2> QED
    BY <2>1, <2>2, <2>3
<1>7. ASSUME NEW d \in Call, pc'[d] \notin {"idle", "gone"}
      PROVE  Asked(d)'
  <2>1. CASE d = c
    BY <1>1, <1>3, <2>1 DEF Asked
  <2>2. CASE d # c
    <3>1. Asked(d)
      BY <1>4, <1>7, <2>2 DEF Queues
    <3> QED
      BY <1>1, <2>2, <3>1, MakeAsks
  <2> QED
    BY <2>1, <2>2
<1> QED
  BY <1>6, <1>7 DEF Queues, PlaceInQueue

\* Only its being made takes a call from where it began.
LEMMA MadeOnce ==
    ASSUME NEW c \in Call, CallStep(c), ~MakeCall(c)
    PROVE  pc[c] # "idle"
  BY DEF CallStep, Reject, Enter, Begins, Elapse, Prepare, Try, Stat, ReadDir, ReadOwner,
         AskBoot, AskAlive, AskUid, AskIdentity, Decides, Unlink, Rmdir, RemovesFile,
         RemovesDir, ReadState, WriteState, Release, ReleaseDir, Moves, AtWork

LEMMA QueuesCall ==
    ASSUME IInv, Queues, NEW c \in Call, CallStep(c)
    PROVE  Queues'
<1> USE LockAssumption
<1>1. CASE MakeCall(c)
  BY <1>1, QueuesMake
<1>2. CASE ~MakeCall(c)
  <2>1. queue' = queue
    BY <1>2, QueueFrame
  <2>2. Shape(c) /\ TypeOK
    BY StepShape DEF IInv
  <2>3. \A d \in Call : /\ pc[d] # "idle" => pc'[d] # "idle"
                        /\ pc[d] \in Ended => pc'[d] \in Ended
    BY <2>2 DEF Shape, AtWork, Ended
  <2>4. \A d \in Call : pc'[d] \in AtWork \cup {"done"} =>
            \/ pc[d] \in AtWork \cup {"done"}
            \/ d = c /\ MayEnter(c)
    BY <2>2 DEF Shape, AtWork, Ended
  <2>5. ASSUME NEW p \in Process, NEW k \in DOMAIN queue[p] PROVE PlaceInQueue(p, k)'
    <3>1. PlaceInQueue(p, k) /\ queue[p][k] \in Call /\ k \in Int
      BY <2>2, QueueTyped DEF Queues, PlaceInQueue
    <3>2. ASSUME NEW l \in DOMAIN queue[p], k < l, pc'[queue[p][l]] \in AtWork \cup {"done"}
          PROVE  pc'[queue[p][k]] \in Ended
      <4>1. queue[p][l] \in Call /\ l \in Int
        BY <2>2, QueueTyped
      <4>2. CASE pc[queue[p][l]] \in AtWork \cup {"done"}
        BY <2>3, <3>1, <3>2, <4>2 DEF PlaceInQueue
      <4>3. CASE queue[p][l] = c /\ MayEnter(c)
        <5>1. ProcessOf[c] = p
          BY <4>3 DEF Queues
        <5>2. PICK i \in DOMAIN queue[p] :
                queue[p][i] = c /\ \A j \in 1 .. i - 1 : pc[queue[p][j]] \in Ended
          BY <4>3, <5>1 DEF MayEnter
        <5>3. i \in Int /\ DOMAIN queue[p] = 1..Len(queue[p]) /\ Len(queue[p]) \in Nat
          BY <2>2, QueueTyped
        <5>4. i = l
          BY <4>1, <4>3, <5>2, <5>3 DEF Queues
        <5>5. k \in 1 .. i - 1
          BY <3>1, <3>2, <5>3, <5>4
        <5> QED
          BY <2>3, <3>1, <5>2, <5>5
      <4> QED
        BY <2>4, <3>2, <4>1, <4>2, <4>3
    <3> QED
      BY <2>1, <2>3, <3>1, <3>2 DEF PlaceInQueue
  <2>6. ASSUME NEW d \in Call, pc'[d] \notin {"idle", "gone"}
        PROVE  Asked(d)'
    <3>1. pc[d] \notin {"idle", "gone"}
      BY <1>2, <2>2, <2>6, MadeOnce DEF Shape, AtWork
    <3> QED
      BY <2>1, <3>1 DEF Queues, Asked
  <2> QED
    BY <2>1, <2>5, <2>6 DEF Queues, PlaceInQueue
<1> QED
  BY <1>1, <1>2

\* What the death of processes does to places and records.
LEMMA EndShape ==
    ASSUME TypeOK, NEW Dying \in SUBSET Process, End(Dying)
    PROVE  /\ \A c \in Call :
                \/ pc'[c] = pc[c] /\ local'[c] = local[c]
                   /\ (ProcessOf[c] \in Dying => pc[c] \in Ended)
                \/ /\ pc'[c] = "gone" /\ pc[c] \notin Ended /\ local'[c] = Fresh
                   /\ ProcessOf[c] \in Dying
           /\ UNCHANGED <<dir, queue, file>>
           /\ \A p \in Process : life'[p] = IF p \in Dying THEN "dead" ELSE life[p]
  BY DEF End, TypeOK

LEMMA QueuesEnd ==
    ASSUME IInv, Queues, NEW Dying \in SUBSET Process, End(Dying)
    PROVE  Queues'
<1> USE LockAssumption
<1>1. TypeOK /\ queue' = queue
  BY EndShape DEF IInv
<1>2. \A c \in Call : /\ pc[c] # "idle" => pc'[c] # "idle"
                      /\ pc[c] \in Ended => pc'[c] \in Ended
                      /\ pc'[c] \in AtWork \cup {"done"} => pc[c] = pc'[c]
  BY <1>1, EndShape DEF AtWork, Ended
<1>3. ASSUME NEW p \in Process, NEW k \in DOMAIN queue[p] PROVE PlaceInQueue(p, k)'
  <2>1. PlaceInQueue(p, k) /\ queue[p][k] \in Call
    BY <1>1, QueueTyped DEF Queues, PlaceInQueue
  <2> QED
    BY <1>1, <1>2, <2>1, QueueTyped DEF PlaceInQueue
<1>4. ASSUME NEW c \in Call, pc'[c] \notin {"idle", "gone"}
      PROVE  Asked(c)'
  BY <1>1, <1>4, EndShape DEF Queues, Asked
<1> QED
  BY <1>1, <1>3, <1>4 DEF Queues, PlaceInQueue

----------------------------------------------------------------------------
(* The file, the lock directory and the order of what is in the file. *)

LEMMA FileFrame ==
    ASSUME NEW c \in Call, CallStep(c)
    PROVE  file' = file \/ WriteState(c)
  BY DEF CallStep, MakeCall, Reject, Enter, Elapse, Prepare, Try, Stat, ReadDir, ReadOwner,
         AskBoot, AskAlive, AskUid, AskIdentity, Unlink, Rmdir, RemovesFile, RemovesDir,
         ReadState, Release, ReleaseDir

\* A write appends its call, which the file does not hold yet.
LEMMA FileWritten ==
    ASSUME IInv, Written, NEW c \in Call, WriteState(c)
    PROVE  /\ file' = file \/ file' = Append(file, c)
           /\ pc[c] = "write" /\ pc'[c] = "release"
           /\ \A i \in DOMAIN file : file[i] \in Call /\ file[i] # c
<1>1. TypeOK /\ Snapshots
  BY DEF IInv
<1>2. pc[c] = "write" /\ pc'[c] = "release"
  BY <1>1 DEF WriteState, Moves, TypeOK
<1>3. file' = file \/ file' = Append(file, c)
  BY <1>1, <1>2 DEF WriteState, Snapshots
<1>4. \A i \in DOMAIN file : file[i] \in Call /\ file[i] # c
  BY <1>1, <1>2 DEF TypeOK, Written
<1> QED
  BY <1>2, <1>3, <1>4

\* What a step of a call may do to the owner files.
LEMMA FilesFrame ==
    ASSUME IInv, NEW c \in Call, CallStep(c)
    PROVE  \/ /\ files' \subseteq files
              /\ pc[c] = "release" /\ pc'[c] # "release" => c \notin files'
           \/ files = {} /\ files' = {c} /\ pc[c] = "try" /\ pc'[c] = "read"
<1>1. TypeOK /\ (pc[c] = "release" => files = {c})
  BY DEF IInv, LiveLockStays, Holder
<1>2. CASE Try(c)
  <2>1. pc[c] = "try" /\ (files' = files \/ (files = {} /\ files' = {c} /\ Moves(c, "try", "read")))
    BY <1>2 DEF Try, Moves, dir
  <2> QED
    BY <1>1, <2>1 DEF Moves, TypeOK
<1>3. CASE Unlink(c)
  BY <1>1, <1>3 DEF Unlink, RemovesFile, Moves
<1>4. CASE Release(c)
  BY <1>1, <1>4 DEF Release, RemovesFile
<1>5. CASE Elapse(c)
  BY <1>5 DEF Elapse, dir
<1>6. CASE MakeCall(c) \/ Reject(c) \/ Enter(c)
  BY <1>6 DEF MakeCall, Reject, Enter, Begins, Moves, dir
<1>7. CASE Prepare(c) \/ Stat(c) \/ ReadDir(c) \/ ReadOwner(c)
  BY <1>7 DEF Prepare, Stat, ReadDir, ReadOwner, Decides, Moves, dir
<1>8. CASE AskBoot(c) \/ AskAlive(c) \/ AskUid(c) \/ AskIdentity(c)
  BY <1>8 DEF AskBoot, AskAlive, AskUid, AskIdentity, Decides, Moves, dir
<1>9. CASE Rmdir(c) \/ ReadState(c) \/ WriteState(c) \/ ReleaseDir(c)
  BY <1>9 DEF Rmdir, RemovesDir, Moves, ReadState, WriteState, ReleaseDir, dir
<1> QED
  BY <1>2, <1>3, <1>4, <1>5, <1>6, <1>7, <1>8, <1>9 DEF CallStep

LEMMA WrittenCall ==
    ASSUME IInv, Written, NEW c \in Call, CallStep(c)
    PROVE  Written'
<1>1. TypeOK /\ Shape(c)
  BY StepShape DEF IInv
<1>2. \A d \in Call : pc[d] \in {"release", "releasedir", "done", "gone"} =>
                      pc'[d] \in {"release", "releasedir", "done", "gone"}
  BY <1>1 DEF Shape, AtWork
<1>3. \A i \in DOMAIN file : /\ file[i] \in Call
                             /\ pc'[file[i]] \in {"release", "releasedir", "done", "gone"}
  BY <1>1, <1>2 DEF Written, TypeOK
<1>4. CASE file' = file
  BY <1>3, <1>4 DEF Written
<1>5. CASE WriteState(c) /\ file' = Append(file, c)
  <2>1. pc'[c] = "release" /\ file \in Seq(Call)
    BY <1>1, <1>5, FileWritten DEF TypeOK
  <2>2. \A i \in DOMAIN file' : (i \in DOMAIN file /\ file'[i] = file[i]) \/ file'[i] = c
    BY <1>5, <2>1
  <2> QED
    BY <1>3, <2>1, <2>2 DEF Written
<1> QED
  BY <1>4, <1>5, FileFrame, FileWritten

LEMMA OwnersCall ==
    ASSUME IInv, Owners, NEW c \in Call, CallStep(c)
    PROVE  Owners'
<1>1. TypeOK /\ Shape(c)
  BY StepShape DEF IInv
<1>2. ASSUME NEW d \in Call, d \in files, d \in files'
      PROVE  pc'[d] \in {"read", "write", "release", "gone"}
  <2>1. pc[d] \in {"read", "write", "release", "gone"}
    BY <1>2 DEF Owners
  <2>2. CASE d # c
    BY <1>1, <2>1, <2>2 DEF Shape
  <2>3. CASE d = c /\ pc[c] = "release"
    BY <1>1, <1>2, <2>3, FilesFrame
  <2>4. CASE d = c /\ pc[c] \in {"read", "write"}
    BY <1>1, <2>4 DEF CallStep, MakeCall, Reject, Enter, Begins, Elapse, Prepare, Try, Stat,
         ReadDir, ReadOwner, AskBoot, AskAlive, AskUid, AskIdentity, Decides, Unlink, Rmdir,
         RemovesFile, RemovesDir, ReadState, WriteState, Release, ReleaseDir, Moves, TypeOK
  <2>5. CASE d = c /\ pc[c] = "gone"
    BY <1>1, <2>5 DEF Shape, AtWork
  <2> QED
    BY <2>1, <2>2, <2>3, <2>4, <2>5
<1>3. files \subseteq Call
  BY <1>1 DEF TypeOK
<1> QED
  BY <1>2, <1>3, FilesFrame DEF Owners

LEMMA RecordsCall ==
    ASSUME IInv, Records, NEW c \in Call, CallStep(c)
    PROVE  Records'
<1>1. Shape(c)
  BY StepShape
<1>2. life' = life
  BY <1>1 DEF Shape, hosts
<1>3. pc'[c] # "gone" /\ (pc'[c] \in {"idle", "queued"} => pc[c] = "idle" /\ local'[c] = local[c])
  BY <1>1 DEF Shape, AtWork
<1>4. local'[c].rejected => pc'[c] = "rejected"
  BY <1>1 DEF Shape, Records, AtWork
<1> QED
  BY <1>1, <1>2, <1>3, <1>4 DEF Records, Shape

\* What is in the file of the process of a call at work has been done.
LEMMA DoneBefore ==
    ASSUME IInv, Queues, Written, Records, NEW c \in Call, pc[c] = "write",
           NEW d \in Call, ProcessOf[d] = ProcessOf[c], NEW i \in DOMAIN file, file[i] = d
    PROVE  pc[d] = "done"
<1>1. pc[d] \in {"release", "releasedir", "done", "gone"} /\ TypeOK
  BY DEF Written, IInv
<1>2. pc[d] # "gone"
  BY AtWorkLives DEF Records, AtWork
<1>3. pc[d] \notin {"release", "releasedir"}
  BY <1>1, OneAtWork DEF AtWork
<1> QED
  BY <1>1, <1>2, <1>3

\* What InCallOrder says of two positions of the file.
Ordered(i, j) ==
    \A p \in Process : \A k, l \in DOMAIN queue[p] :
        queue[p][k] = file[i] /\ queue[p][l] = file[j] => k < l

LEMMA OrderWrite ==
    ASSUME IInv, Queues, Written, Records, InCallOrder, NEW c \in Call, WriteState(c)
    PROVE  InCallOrder'
<1> USE LockAssumption
<1>1. TypeOK /\ queue' = queue /\ file \in Seq(Call)
  BY DEF IInv, TypeOK, WriteState
<1>2. CASE file' = file
  BY <1>1, <1>2 DEF InCallOrder
<1>3. CASE file' = Append(file, c)
  <2> DEFINE n == Len(file)
  <2>1. /\ n \in Nat /\ DOMAIN file = 1..n /\ DOMAIN file' = 1..(n + 1)
        /\ file'[n + 1] = c /\ \A i \in 1..n : file'[i] = file[i]
    BY <1>1, <1>3
  <2>2. pc[c] = "write"
    BY FileWritten
  <2>3. ASSUME NEW i \in 1..(n + 1), NEW j \in 1..(n + 1), i < j,
               NEW p \in Process, NEW k \in DOMAIN queue[p], NEW l \in DOMAIN queue[p],
               queue[p][k] = file'[i], queue[p][l] = file'[j]
        PROVE  k < l
    <3>1. i \in 1..n /\ k \in Int /\ l \in Int
      BY <1>1, <2>1, <2>3, QueueTyped
    <3>2. CASE j \in 1..n
      BY <2>1, <2>3, <3>1, <3>2 DEF InCallOrder
    <3>3. CASE j = n + 1
      <4>1. queue[p][l] = c /\ ProcessOf[c] = p
        BY <2>1, <2>3, <3>3 DEF Queues
      <4>2. queue[p][k] = file[i] /\ file[i] \in Call /\ ProcessOf[file[i]] = p
        BY <1>1, <2>1, <2>3, <3>1, QueueTyped DEF Queues
      <4>3. pc[queue[p][k]] = "done"
        BY <2>1, <2>2, <3>1, <4>1, <4>2, DoneBefore
      <4>4. ~ (l < k)
        BY <2>2, <4>1, <4>3 DEF Queues, Ended
      <4>5. k # l
        BY <2>2, <4>1, <4>3
      <4> QED
        BY <3>1, <4>4, <4>5
    <3> QED
      BY <2>1, <2>3, <3>2, <3>3
  <2> QED
    BY <1>1, <2>1, <2>3 DEF InCallOrder
<1> QED
  BY <1>2, <1>3, FileWritten

LEMMA OrderCall ==
    ASSUME IInv, Queues, Written, Records, InCallOrder, NEW c \in Call, CallStep(c)
    PROVE  InCallOrder'
<1> USE LockAssumption
<1>1. CASE WriteState(c)
  BY <1>1, OrderWrite
<1>2. CASE file' = file /\ queue' = queue
  BY <1>2 DEF InCallOrder
<1>3. CASE file' = file /\ MakeCall(c)
  <2>1. TypeOK /\ ProcessOf[c] \in Process /\ pc[c] = "idle"
    BY <1>3 DEF IInv, MakeCall, Moves
  <2>2. queue' = [queue EXCEPT ![ProcessOf[c]] = Append(@, c)]
    BY <1>3 DEF MakeCall
  <2>3. \A i \in DOMAIN file : file[i] # c
    BY <2>1 DEF Written
  <2>4. ASSUME NEW p \in Process, NEW k \in DOMAIN queue'[p], NEW i \in DOMAIN file,
               queue'[p][k] = file[i]
        PROVE  k \in DOMAIN queue[p] /\ queue[p][k] = file[i]
    <3>1. queue[p] \in Seq(Call) /\ queue'[p] \in {queue[p], Append(queue[p], c)}
      BY <2>1, <2>2, QueueTyped DEF TypeOK
    <3>2. CASE queue'[p] = queue[p]
      BY <2>4, <3>2
    <3>3. CASE queue'[p] = Append(queue[p], c)
      BY <2>3, <2>4, <3>1, <3>3
    <3> QED
      BY <3>1, <3>2, <3>3
  <2> QED
    BY <1>3, <2>4 DEF InCallOrder
<1> QED
  BY <1>1, <1>2, <1>3, FileFrame, QueueFrame

----------------------------------------------------------------------------
(* The beginning and the end of processes. *)

LEMMA StartKeepsOrder ==
    ASSUME IInv, OrderInv, NEW p \in Process, Start(p)
    PROVE  Queues' /\ Written' /\ Owners' /\ Records' /\ InCallOrder'
<1>1. UNCHANGED <<dir, queue, pc, file>> /\ life[p] = "new" /\ TypeOK /\ CallsOfLive
  BY DEF Start, IInv
<1>2. Queues' /\ Written' /\ Owners' /\ InCallOrder'
  <2>1. Queues' /\ InCallOrder'
    BY <1>1 DEF OrderInv, Queues, Asked, InCallOrder
  <2>2. Written' /\ Owners'
    BY <1>1 DEF OrderInv, Written, Owners, dir
  <2> QED
    BY <2>1, <2>2
<1>3. \A c \in Call : pc[c] = "gone" => life'[ProcessOf[c]] # "alive"
  <2>1. \A c \in Call : pc[c] = "gone" => ProcessOf[c] # p /\ life[ProcessOf[c]] # "alive"
    BY <1>1 DEF CallsOfLive, OrderInv, Records
  <2> QED
    BY <1>1, <2>1, LockAssumption DEF Start, TypeOK
<1>4. \A c \in Call : pc[c] \notin AtWork => local'[c] = local[c]
  BY DEF Start
<1>5. \A c \in Call : local'[c].rejected = local[c].rejected
  BY <1>1 DEF Start, TypeOK, Local
<1>6. Records'
  BY <1>1, <1>3, <1>4, <1>5 DEF OrderInv, Records, AtWork
<1> QED
  BY <1>2, <1>6

LEMMA EndKeepsOrder ==
    ASSUME IInv, OrderInv, NEW Dying \in SUBSET Process, End(Dying)
    PROVE  Queues' /\ Written' /\ Owners' /\ Records' /\ InCallOrder'
<1> USE LockAssumption
<1>1. Queues'
  BY QueuesEnd DEF OrderInv
<1>2. TypeOK
  BY DEF IInv
<1>3. /\ \A c \in Call :
           \/ pc'[c] = pc[c] /\ local'[c] = local[c]
              /\ (ProcessOf[c] \in Dying => pc[c] \in Ended)
           \/ /\ pc'[c] = "gone" /\ pc[c] \notin Ended /\ local'[c] = Fresh
              /\ ProcessOf[c] \in Dying
      /\ UNCHANGED <<dir, queue, file>>
      /\ \A p \in Process : life'[p] = IF p \in Dying THEN "dead" ELSE life[p]
  BY <1>2, EndShape
<1>4. Written'
  BY <1>2, <1>3 DEF OrderInv, Written, TypeOK
<1>5. Owners'
  BY <1>2, <1>3 DEF OrderInv, Owners, TypeOK, dir
<1>6. InCallOrder'
  BY <1>3 DEF OrderInv, InCallOrder
<1>7. Records'
  <2> SUFFICES ASSUME NEW c \in Call
               PROVE  /\ pc'[c] = "gone" => life'[ProcessOf[c]] # "alive"
                      /\ pc'[c] \in {"idle", "queued"} => local'[c] = Fresh
                      /\ local'[c].rejected => pc'[c] = "rejected"
    BY DEF Records
  <2>1. ProcessOf[c] \in Process
    OBVIOUS
  <2>2. CASE pc'[c] = pc[c] /\ local'[c] = local[c]
    BY <1>3, <2>1, <2>2 DEF OrderInv, Records
  <2>3. CASE pc'[c] = "gone" /\ local'[c] = Fresh /\ ProcessOf[c] \in Dying
    <3>1. life'[ProcessOf[c]] = "dead"
      BY <1>3, <2>1, <2>3
    <3>2. local'[c].rejected = FALSE
      BY <2>3 DEF Fresh
    <3> QED
      BY <2>3, <3>1, <3>2
  <2> QED
    BY <1>3, <2>2, <2>3
<1> QED
  BY <1>1, <1>4, <1>5, <1>6, <1>7

----------------------------------------------------------------------------
(* A call beside which no other process lives. *)

LEMMA OthersUndisturbed ==
    ASSUME IInv, OrderInv, OnOneHost, NEW c \in Call, CallStep(c),
           NEW d \in Call, d # c, local'[d].undisturbed
    PROVE  OnceRound(d)'
<1> USE LockAssumption
<1>1. Shape(c) /\ TypeOK
  BY StepShape DEF IInv
<1>2. /\ pc'[d] = pc[d] /\ local'[d] = local[d] /\ life' = life
      /\ OnceRound(d)
  BY <1>1 DEF Shape, hosts, OrderInv, Undisturbed
<1>3. CASE pc[d] \notin AtWork
  BY <1>2, <1>3 DEF OnceRound, AtWork
<1>4. CASE pc[d] \in AtWork /\ pc[c] \in AtWork
  <2>1. life[ProcessOf[c]] = "alive"
    BY <1>4, AtWorkLives
  <2>2. ProcessOf[c] = ProcessOf[d]
    BY <1>2, <1>4, <2>1 DEF OnceRound, Alone
  <2> QED
    BY <1>1, <1>4, <2>2, OneAtWork DEF OrderInv
<1>5. CASE pc[c] \notin AtWork
  <2>1. MakeCall(c) \/ Reject(c) \/ Enter(c)
    BY <1>5 DEF CallStep, Elapse, Prepare, Try, Stat, ReadDir, ReadOwner, AskBoot, AskAlive,
                AskUid, AskIdentity, Decides, Unlink, Rmdir, RemovesFile, RemovesDir,
                ReadState, WriteState, Release, ReleaseDir, Moves, AtWork
  <2>2. UNCHANGED dir
    BY <2>1 DEF MakeCall, Reject, Enter
  <2> QED
    BY <1>2, <2>2 DEF OnceRound, Alone, dir
<1> QED
  BY <1>3, <1>4, <1>5

\* The lock such a call meets belongs to the dead.
LEMMA MeetsTheDead ==
    ASSUME IInv, OrderInv, OnOneHost, NEW c \in Call, local[c].undisturbed,
           pc[c] \in ProbeSteps
    PROVE  /\ local[c].seen \in files /\ local[c].seen \in Call
           /\ OnThisHost(c)
           /\ life[Owner(c)] # "alive"
           /\ files = {local[c].seen}
<1> USE LockAssumption
<1> DEFINE d == local[c].seen
<1>1. TypeOK /\ OnceRound(c) /\ pc[c] \in AtWork
  BY DEF IInv, OrderInv, Undisturbed, ProbeSteps, AtWork
<1>2. d \in files /\ d \in Call
  BY <1>1 DEF OnceRound, ProbeSteps, TypeOK
<1>3. files = {d}
  BY <1>1, <1>2 DEF IInv, Directory, TypeOK
<1>4. pc[d] \in {"read", "write", "release", "gone"}
  BY <1>2 DEF OrderInv, Owners
<1>5. pc[d] = "gone"
  <2> SUFFICES ASSUME pc[d] # "gone" PROVE FALSE
    OBVIOUS
  <2>1. pc[d] \in AtWork /\ d # c
    BY <1>4 DEF AtWork, ProbeSteps
  <2>2. life[ProcessOf[d]] = "alive"
    BY <1>2, <2>1, AtWorkLives
  <2>3. ProcessOf[d] = ProcessOf[c]
    BY <1>1, <1>2, <2>2 DEF OnceRound, Alone
  <2> QED
    BY <1>1, <1>2, <2>1, <2>3, OneAtWork DEF OrderInv
<1>6. life[ProcessOf[d]] # "alive"
  BY <1>2, <1>5 DEF OrderInv, Records
<1> QED
  BY <1>2, <1>3, <1>6 DEF OnOneHost, OnThisHost, Owner

\* Its record keeps the attempt's fields where a step only asks or decides.
SameAttempt(c) ==
    /\ local'[c].undisturbed => local[c].undisturbed
    /\ local'[c].within = local[c].within /\ local'[c].granted = local[c].granted
    /\ local'[c].owed = local[c].owed /\ local'[c].clock = local[c].clock

LEMMA BeginsUndisturbed ==
    ASSUME IInv, OrderInv, OnOneHost, NEW c \in Call, local'[c].undisturbed,
           MakeCall(c) \/ Reject(c) \/ Enter(c)
    PROVE  OnceRound(c)'
<1>1. TypeOK /\ local[c] = Fresh /\ Fresh \in Local
  <2>1. pc[c] \in {"idle", "queued"}
    BY DEF MakeCall, Reject, Enter, Begins, Moves
  <2>2. local[c] = Fresh
    BY <2>1 DEF OrderInv, Records
  <2> QED
    BY <2>2 DEF IInv, TypeOK
<1>2. CASE MakeCall(c) \/ Reject(c)
  <2>1. local[c].undisturbed = FALSE
    BY <1>1 DEF Fresh
  <2>2. CASE MakeCall(c)
    BY <2>1, <2>2 DEF MakeCall
  <2>3. CASE Reject(c)
    <3>1. local' = [local EXCEPT ![c] = [local[c] EXCEPT !.rejected = TRUE]]
      BY <2>3 DEF Reject
    <3>2. local'[c].undisturbed = local[c].undisturbed
      BY <1>1, <3>1 DEF TypeOK, Local
    <3> QED
      BY <2>1, <3>2
  <2> QED
    BY <1>2, <2>2, <2>3
<1>3. CASE Enter(c)
  <2>1. pc'[c] = "prepare" /\ life' = life
    BY <1>1, <1>3 DEF Enter, Begins, Moves, TypeOK, hosts
  <2>2. PICK time \in {"budget", "floor"} : local' = [local EXCEPT ![c] =
            [local[c] EXCEPT !.clock = time, !.undisturbed = Alone(ProcessOf[c])]]
    BY <1>1, <1>3 DEF Enter
  <2>3. local'[c].owed /\ ~local'[c].granted /\ Alone(ProcessOf[c])
    BY <1>1, <2>2 DEF TypeOK, Fresh
  <2> QED
    BY <2>1, <2>3 DEF OnceRound, Alone
<1> QED
  BY <1>2, <1>3

LEMMA GoesRound ==
    ASSUME IInv, OrderInv, OnOneHost, NEW c \in Call, local'[c].undisturbed,
           Elapse(c) \/ Prepare(c) \/ Try(c) \/ Stat(c)
    PROVE  OnceRound(c)'
<1>1. TypeOK /\ local[c] \in Local /\ Directory
  BY DEF IInv, TypeOK
<1> USE <1>1
<1>2. CASE Elapse(c)
  <2>1. /\ pc' = pc /\ life' = life /\ UNCHANGED dir /\ pc[c] \in AtWork
        /\ local' = [local EXCEPT ![c] = [local[c] EXCEPT !.clock = local'[c].clock]]
    BY <1>2 DEF Elapse, TypeOK, Local, hosts
  <2>2. local[c].undisturbed
    BY <2>1 DEF TypeOK, Local
  <2>3. OnceRound(c)
    BY <2>2 DEF OrderInv, Undisturbed
  <2>4. /\ local'[c].within = local[c].within /\ local'[c].granted = local[c].granted
        /\ local'[c].owed = local[c].owed /\ local'[c].seen = local[c].seen
        /\ local'[c].bootKnown = local[c].bootKnown
    BY <2>1 DEF TypeOK, Local
  <2> QED
    BY <2>1, <2>3, <2>4 DEF OnceRound, Alone, AtWork, dir
<1>3. CASE Prepare(c)
  <2>1. pc[c] = "prepare" /\ pc'[c] \in {"failed", "try"} /\ life' = life
    BY <1>3 DEF Prepare, Moves, TypeOK, hosts
  <2>2. /\ local'[c] = local[c]
        /\ pc'[c] = "failed" => local[c].clock = "over"
    BY <1>3 DEF Prepare, Moves, Unanswered, TypeOK, Local
  <2>3. OnceRound(c)
    BY <2>2 DEF OrderInv, Undisturbed
  <2> QED
    BY <2>1, <2>2, <2>3 DEF OnceRound, Alone, AtWork
<1>4. CASE Try(c)
  <2>1. local' # [local EXCEPT ![c] = Acquired(c)]
    BY DEF TypeOK, Acquired, Fresh
  <2>2. /\ pc[c] = "try" /\ life' = life /\ UNCHANGED dir
        /\ \/ local' = local /\ ~local[c].owed
           \/ /\ local' = [local EXCEPT ![c] =
                     [local[c] EXCEPT !.within = local[c].owed, !.owed = FALSE]]
              /\ pc'[c] = "readdir" /\ files # {}
    BY <1>4, <2>1 DEF Try, Moves, TypeOK, hosts
  <2>3. local[c].undisturbed
    BY <2>2 DEF TypeOK, Local
  <2>4. local[c].owed /\ (local[c].granted => files = {}) /\ Alone(ProcessOf[c])
    BY <2>2, <2>3 DEF OrderInv, Undisturbed, OnceRound, AtWork
  <2>5. local' = [local EXCEPT ![c] =
                [local[c] EXCEPT !.within = local[c].owed, !.owed = FALSE]]
    BY <2>2, <2>4
  <2>6. local'[c].within = local[c].owed /\ local'[c].granted = local[c].granted
    BY <2>5 DEF TypeOK, Local
  <2> QED
    BY <2>2, <2>4, <2>6 DEF OnceRound, Alone, dir
<1>5. CASE Stat(c)
  <2>1. /\ local' = [local EXCEPT ![c] = [local[c] EXCEPT
               !.granted = local[c].granted \/ Reclaimed(c),
               !.owed = local[c].owed \/ Reclaimed(c), !.seen = None, !.bootKnown = FALSE]]
        /\ Reclaimed(c) \in BOOLEAN
    BY <1>5 DEF Stat, Reclaimed, Local, TypeOK
  <2>2. /\ local'[c].owed = (local[c].owed \/ Reclaimed(c)) /\ local'[c].clock = local[c].clock
        /\ local[c].undisturbed
    BY <2>1 DEF TypeOK, Local
  <2>3. OnceRound(c)
    BY <2>2 DEF OrderInv, Undisturbed
  <2>4. pc[c] = "stat" /\ life' = life /\ UNCHANGED dir
    BY <1>5 DEF Stat, Moves, hosts
  <2>5. local[c].within /\ ~local[c].granted /\ ~present /\ Alone(ProcessOf[c])
    BY <2>3, <2>4 DEF OnceRound, AtWork
  <2>6. local'[c].owed /\ files = {}
    BY <2>2, <2>5 DEF Reclaimed, Directory
  <2>7. pc'[c] = "try" \/ (pc'[c] = "failed" /\ local[c].clock = "over")
    BY <1>5, <2>5 DEF Stat, Moves, Late, TypeOK
  <2> QED
    BY <2>2, <2>4, <2>5, <2>6, <2>7 DEF OnceRound, Alone, dir, AtWork
<1> QED
  BY <1>2, <1>3, <1>4, <1>5

\* A probe step fails only when the guaranteed attempt is over.
LEMMA ProbeDecides ==
    ASSUME TypeOK, NEW c \in Call, NEW from, NEW to, Decides(c, from, to), local[c].within
    PROVE  pc[c] = from /\ (pc'[c] = to \/ (pc'[c] = "failed" /\ local[c].clock = "over"))
<1>1. pc[c] = from /\ pc' = [pc EXCEPT ![c] = IF Late(c) THEN "failed" ELSE to]
  BY DEF Decides, Moves
<1>2. Late(c) <=> local[c].clock = "over"
  BY DEF Late
<1>3. Late(c) => pc'[c] = "failed"
  BY <1>1 DEF TypeOK
<1>4. ~Late(c) => pc'[c] = to
  BY <1>1 DEF TypeOK
<1>5. pc[c] = from
  BY <1>1
<1>6. CASE Late(c)
  BY <1>2, <1>3, <1>5, <1>6
<1>7. CASE ~Late(c)
  BY <1>4, <1>5, <1>7
<1> QED
  BY <1>6, <1>7

LEMMA LooksUndisturbed ==
    ASSUME IInv, OrderInv, OnOneHost, NEW c \in Call, local'[c].undisturbed,
           ReadDir(c) \/ ReadOwner(c)
    PROVE  OnceRound(c)'
<1>1. TypeOK /\ local[c] \in Local /\ Directory
  BY DEF IInv, TypeOK
<1> USE <1>1
<1>2. UNCHANGED dir /\ life' = life
  BY DEF ReadDir, ReadOwner, hosts
<1>3. CASE ReadDir(c)
  <2>1. SameAttempt(c) /\ pc[c] = "readdir" /\ local[c].undisturbed
    BY <1>3 DEF ReadDir, SameAttempt, Moves, Decides, TypeOK, Local
  <2>2. OnceRound(c)
    BY <2>1 DEF OrderInv, Undisturbed
  <2>3. /\ local[c].within /\ ~local[c].granted /\ files # {} /\ present
        /\ Alone(ProcessOf[c])
    BY <2>1, <2>2 DEF OnceRound, AtWork, Directory
  <2>4. PICK d \in files : /\ Moves(c, "readdir", "readowner")
                           /\ local' = [local EXCEPT ![c].seen = d]
    BY <1>3, <2>3 DEF ReadDir
  <2>5. pc'[c] = "readowner" /\ local'[c].seen \in files
    BY <2>4 DEF Moves, TypeOK, Local
  <2> QED
    BY <1>2, <2>1, <2>3, <2>5 DEF OnceRound, SameAttempt, Alone, dir
<1>4. CASE ReadOwner(c)
  <2>1. local' = local /\ pc[c] = "readowner"
    BY <1>4 DEF ReadOwner, Moves, Decides
  <2>2. OnceRound(c) /\ local[c].seen \in files /\ OnThisHost(c)
    BY <2>1, MeetsTheDead DEF OrderInv, Undisturbed, ProbeSteps
  <2>3. /\ local[c].within /\ ~local[c].granted /\ files # {}
        /\ Alone(ProcessOf[c])
    BY <2>1, <2>2 DEF OnceRound, AtWork
  <2>4. Decides(c, "readowner", "boot")
    BY <1>4, <2>2 DEF ReadOwner
  <2>5. pc'[c] = "boot" \/ (pc'[c] = "failed" /\ local[c].clock = "over")
    BY <2>3, <2>4, ProbeDecides
  <2> QED
    BY <1>2, <2>1, <2>2, <2>3, <2>5 DEF OnceRound, Alone, dir
<1> QED
  BY <1>3, <1>4

LEMMA AsksUndisturbed ==
    ASSUME IInv, OrderInv, OnOneHost, NEW c \in Call, local'[c].undisturbed,
           AskBoot(c) \/ AskAlive(c) \/ AskUid(c) \/ AskIdentity(c)
    PROVE  OnceRound(c)'
<1>1. TypeOK /\ local[c] \in Local
  BY DEF IInv, TypeOK
<1> USE <1>1
<1>2. UNCHANGED dir /\ life' = life
  BY DEF AskBoot, AskAlive, AskUid, AskIdentity, hosts
<1>3. ~Unanswered(c)
  BY DEF Unanswered, TypeOK, Local
<1>4. /\ pc[c] \in HomeSteps
      /\ local' = local \/ (AskBoot(c) /\ local' = [local EXCEPT ![c].bootKnown = TRUE])
  BY <1>3 DEF AskBoot, AskAlive, AskUid, AskIdentity, Decides, Moves, HomeSteps
<1>5. SameAttempt(c) /\ local[c].undisturbed /\ local'[c].seen = local[c].seen
  BY <1>4 DEF SameAttempt, TypeOK, Local
<1>6. /\ OnceRound(c) /\ local[c].seen \in files /\ life[Owner(c)] # "alive"
  BY <1>4, <1>5, MeetsTheDead DEF OrderInv, Undisturbed, ProbeSteps, HomeSteps
<1>7. local[c].within /\ ~local[c].granted /\ files # {} /\ Alone(ProcessOf[c])
  BY <1>4, <1>6 DEF OnceRound, AtWork, HomeSteps
<1>8. pc[c] \in {"alive", "uid", "identity"} => local[c].bootKnown
  BY <1>6 DEF OnceRound
<1>9. /\ \/ pc'[c] \in {"alive", "uid", "identity", "unlink"}
         \/ pc'[c] = "failed" /\ local[c].clock = "over"
      /\ pc'[c] \in {"alive", "uid", "identity"} => local'[c].bootKnown
  <2>1. CASE AskBoot(c)
    <3>1. local'[c].bootKnown
      BY <1>3, <2>1 DEF AskBoot, TypeOK, Local
    <3>2. Decides(c, "boot", "alive") \/ Decides(c, "boot", "unlink")
      BY <2>1 DEF AskBoot
    <3> QED
      BY <1>7, <3>1, <3>2, ProbeDecides
  <2>2. CASE AskAlive(c)
    <3>1. pc[c] = "alive" /\ local' = local
      BY <2>2 DEF AskAlive, Decides, Moves
    <3>2. Decides(c, "alive", "unlink") \/ Decides(c, "alive", "uid")
      BY <1>8, <2>2, <3>1 DEF AskAlive
    <3> QED
      BY <1>7, <1>8, <3>1, <3>2, ProbeDecides
  <2>3. CASE AskUid(c)
    <3>1. pc[c] = "uid" /\ local' = local
      BY <1>3, <2>3 DEF AskUid
    <3>2. Decides(c, "uid", "unlink") \/ Decides(c, "uid", "identity")
      BY <1>3, <2>3 DEF AskUid
    <3> QED
      BY <1>7, <1>8, <3>1, <3>2, ProbeDecides
  <2>4. CASE AskIdentity(c)
    <3>1. pc[c] = "identity" /\ local' = local
      BY <1>3, <2>4 DEF AskIdentity
    <3>2. PICK q \in Holders(c) :
                \/ SameProcess(q, c) /\ Moves(c, "identity", "stat")
                \/ ~SameProcess(q, c) /\ Decides(c, "identity", "unlink")
      BY <1>3, <2>4 DEF AskIdentity
    <3>3. ~SameProcess(q, c)
      BY <1>6 DEF Holders, SameProcess
    <3>4. Decides(c, "identity", "unlink")
      BY <3>2, <3>3
    <3> QED
      BY <1>7, <3>4, ProbeDecides
  <2> QED
    BY <2>1, <2>2, <2>3, <2>4
<1> QED
  BY <1>2, <1>5, <1>6, <1>7, <1>9 DEF OnceRound, SameAttempt, Alone, dir, AtWork

LEMMA RemovesUndisturbed ==
    ASSUME IInv, OrderInv, OnOneHost, NEW c \in Call, local'[c].undisturbed,
           Unlink(c) \/ Rmdir(c)
    PROVE  OnceRound(c)'
<1>1. TypeOK /\ local' = local /\ life' = life /\ pc[c] \in {"unlink", "rmdir"}
  BY DEF IInv, Unlink, Rmdir, RemovesFile, RemovesDir, Moves, hosts
<1>2. OnceRound(c)
  BY <1>1 DEF OrderInv, Undisturbed
<1>3. local[c].within /\ ~local[c].granted /\ Alone(ProcessOf[c])
  BY <1>1, <1>2 DEF OnceRound, AtWork
<1>4. CASE Unlink(c)
  <2>1. pc[c] = "unlink"
    BY <1>4 DEF Unlink, RemovesFile, Moves
  <2>2. files = {local[c].seen}
    BY <1>1, <2>1, MeetsTheDead DEF ProbeSteps
  <2>3. pc'[c] = "rmdir" /\ files' = {}
    BY <1>1, <1>4, <2>2 DEF Unlink, RemovesFile, Moves, TypeOK
  <2> QED
    BY <1>1, <1>3, <2>3 DEF OnceRound, Alone
<1>5. CASE Rmdir(c)
  <2>1. pc[c] = "rmdir" /\ pc'[c] = "stat"
    BY <1>1, <1>5 DEF Rmdir, RemovesDir, Moves, TypeOK
  <2>2. ~present'
    BY <1>2, <1>5, <2>1 DEF Rmdir, RemovesDir, OnceRound
  <2> QED
    BY <1>1, <1>3, <2>1, <2>2 DEF OnceRound, Alone
<1> QED
  BY <1>4, <1>5

LEMMA HoldsUndisturbed ==
    ASSUME IInv, OrderInv, OnOneHost, NEW c \in Call, local'[c].undisturbed,
           ReadState(c) \/ WriteState(c) \/ Release(c) \/ ReleaseDir(c)
    PROVE  OnceRound(c)'
<1>1. TypeOK /\ local[c] \in Local
  BY DEF IInv, TypeOK
<1>2. /\ pc[c] \in AtWork /\ life' = life
      /\ pc'[c] \in {"write", "release", "releasedir", "done"}
  BY <1>1 DEF ReadState, WriteState, Release, ReleaseDir, RemovesFile, RemovesDir, Moves,
              TypeOK, AtWork, hosts
<1>3. local[c].undisturbed
  BY <1>1 DEF ReadState, WriteState, Release, ReleaseDir, RemovesFile, RemovesDir, TypeOK,
              Local
<1>4. Alone(ProcessOf[c])
  BY <1>2, <1>3 DEF OrderInv, Undisturbed, OnceRound
<1> QED
  BY <1>2, <1>4 DEF OnceRound, Alone

LEMMA UndisturbedCall ==
    ASSUME IInv, OrderInv, NEW c \in Call, CallStep(c)
    PROVE  Undisturbed'
<1> SUFFICES ASSUME NEW d \in Call, OnOneHost, local'[d].undisturbed PROVE OnceRound(d)'
  BY DEF Undisturbed, OnOneHost
<1>1. CASE d # c
  BY <1>1, OthersUndisturbed
<1>2. CASE d = c
  BY <1>2, BeginsUndisturbed, GoesRound, LooksUndisturbed, AsksUndisturbed,
     RemovesUndisturbed, HoldsUndisturbed DEF CallStep
<1> QED
  BY <1>1, <1>2

LEMMA UndisturbedStart ==
    ASSUME IInv, OrderInv, NEW p \in Process, Start(p)
    PROVE  Undisturbed'
<1>1. TypeOK
  BY DEF IInv
<1> SUFFICES ASSUME NEW c \in Call, OnOneHost, local'[c].undisturbed PROVE OnceRound(c)'
  BY DEF Undisturbed, OnOneHost
<1>2. pc[c] \notin AtWork
  BY <1>1 DEF Start, TypeOK, Local
<1>3. local'[c] = local[c] /\ pc' = pc
  BY <1>2 DEF Start
<1>4. OnceRound(c)
  BY <1>3 DEF OrderInv, Undisturbed
<1> QED
  BY <1>2, <1>3, <1>4 DEF OnceRound, AtWork

LEMMA UndisturbedEnd ==
    ASSUME IInv, OrderInv, NEW Dying \in SUBSET Process, End(Dying)
    PROVE  Undisturbed'
<1> USE LockAssumption
<1>1. TypeOK
  BY DEF IInv
<1> SUFFICES ASSUME NEW c \in Call, OnOneHost, local'[c].undisturbed PROVE OnceRound(c)'
  BY DEF Undisturbed, OnOneHost
<1>2. ~Fresh.undisturbed
  BY DEF Fresh
<1>3. /\ pc'[c] = pc[c] /\ local'[c] = local[c]
      /\ UNCHANGED <<dir, queue, file>>
      /\ \A p \in Process : life'[p] = "alive" => life[p] = "alive"
  BY <1>1, <1>2, EndShape
<1>4. OnceRound(c)
  BY <1>3 DEF OrderInv, Undisturbed
<1> QED
  BY <1>3, <1>4 DEF OnceRound, Alone, dir

----------------------------------------------------------------------------
(* The theorems. *)

LEMMA InitOrders == Init => OrderInv
<1> SUFFICES ASSUME Init PROVE OrderInv
  OBVIOUS
<1> USE LockAssumption
<1>1. \A p \in Process : queue[p] = << >>
  BY DEF Init
<1>2. \A c \in Call : pc[c] = "idle" /\ local[c] = Fresh
  BY DEF Init
<1>3. file = << >> /\ files = {}
  BY DEF Init
<1>4. Queues
  BY <1>1, <1>2 DEF Queues, AtWork
<1>5. Written /\ Owners /\ InCallOrder
  BY <1>3 DEF Written, Owners, InCallOrder
<1>6. \A c \in Call : local[c].rejected = FALSE /\ local[c].undisturbed = FALSE
  BY <1>2 DEF Fresh
<1>7. Records /\ Undisturbed
  BY <1>2, <1>6 DEF Records, Undisturbed
<1> QED
  BY <1>4, <1>5, <1>7 DEF OrderInv

LEMMA NextOrders == IInv /\ OrderInv /\ [Next]_vars => OrderInv'
<1> SUFFICES ASSUME IInv, OrderInv, [Next]_vars PROVE OrderInv'
  OBVIOUS
<1>1. CASE UNCHANGED vars
  BY <1>1 DEF vars, hosts, dir, OrderInv, Queues, Asked, Written, Owners, Records,
              InCallOrder, Undisturbed, OnOneHost, OnceRound, Alone
<1>2. ASSUME NEW p \in Process, Start(p) PROVE OrderInv'
  BY <1>2, StartKeepsOrder, UndisturbedStart DEF OrderInv
<1>3. ASSUME NEW Dying \in SUBSET Process, End(Dying) PROVE OrderInv'
  BY <1>3, EndKeepsOrder, UndisturbedEnd DEF OrderInv
<1>4. ASSUME NEW c \in Call, CallStep(c) PROVE OrderInv'
  BY <1>4, QueuesCall, WrittenCall, OwnersCall, RecordsCall, OrderCall, UndisturbedCall
     DEF OrderInv
<1>5. ASSUME NEW p \in Process, Die(p) PROVE OrderInv'
  BY <1>3, <1>5 DEF Die
<1>6. ASSUME NEW h \in Host, Reboot(h) PROVE OrderInv'
  BY <1>3, <1>6 DEF Reboot
<1> QED
  BY <1>1, <1>2, <1>4, <1>5, <1>6 DEF Next, CallStep

\* The order of the queues, what the file and the directory can hold, and how an
\* undisturbed call goes on, in every reachable state.
THEOREM OrderInvariance == Spec => [](IInv /\ OrderInv)
  BY InitHolds, InitOrders, NextHolds, NextOrders, PTL DEF Spec

\* What one process writes is in the file in the order it was asked for.
THEOREM WritesInCallOrder == Spec => []InCallOrder
<1>1. OrderInv => InCallOrder
  BY DEF OrderInv
<1> QED
  BY <1>1, OrderInvariance, PTL

\* A mutation that was rejected by its timer or failed for want of the lock is
\* never in the file.
THEOREM RejectedStaysOut == Spec => []RejectedNeverApplied
<1>1. IInv /\ OrderInv => RejectedNeverApplied
  <2> SUFFICES ASSUME IInv, OrderInv, NEW i \in DOMAIN file
               PROVE ~local[file[i]].rejected /\ pc[file[i]] # "failed"
    BY DEF RejectedNeverApplied
  <2>1. file[i] \in Call
    BY DEF IInv, TypeOK
  <2>2. pc[file[i]] \in {"release", "releasedir", "done", "gone"}
    BY DEF OrderInv, Written
  <2> QED
    BY <2>1, <2>2 DEF OrderInv, Records
<1> QED
  BY <1>1, OrderInvariance, PTL

\* Beside the remains of dead processes only, and with its questions answered, a
\* mutation fails for want of the lock only after the guaranteed attempt's floor.
THEOREM AloneReclaims == Spec => []AloneSucceeds
<1>1. OrderInv => AloneSucceeds
  BY DEF OrderInv, Undisturbed, OnceRound, AloneSucceeds
<1> QED
  BY <1>1, OrderInvariance, PTL

----------------------------------------------------------------------------
(* The store that the lock makes of the file. *)

\* Where neither the file nor a queue changes, calls only come to nothing.
LEMMA NothingGained ==
    ASSUME Queues, UNCHANGED <<queue, file>>,
           \A c \in Call : pc'[c] \in Undecided => pc[c] \in Undecided
    PROVE  Store!Drop
<1>1. \A c \in Call : /\ Asked(c)' = Asked(c)
                      /\ InFile(c)' = InFile(c)
                      /\ pc[c] \in Undecided => Asked(c)
  BY DEF Asked, InFile, Queues, Undecided, AtWork
<1>2. ASSUME NEW c \in Call
      PROVE  OutcomeOf(c)' # OutcomeOf(c) => OutcomeOf(c) = "open" /\ OutcomeOf(c)' = "void"
  BY <1>1, <1>2 DEF OutcomeOf
<1>3. \A c \in Call : OutcomeOf(c)' \in Store!Outcome
  BY DEF OutcomeOf, Store!Outcome
<1>4. \A c \in Call : outcome[c] = OutcomeOf(c) /\ outcome'[c] = OutcomeOf(c)'
  BY DEF outcome
<1>5. outcome' \in [Call -> Store!Outcome]
  BY <1>3 DEF outcome
<1> QED
  BY <1>2, <1>4, <1>5 DEF Store!Drop

\* One call's outcome changes.
LEMMA OutcomeUpdate ==
    ASSUME NEW c \in Call, \A d \in Call : d # c => OutcomeOf(d)' = OutcomeOf(d)
    PROVE  outcome' = [outcome EXCEPT ![c] = OutcomeOf(c)']
  BY DEF outcome

LEMMA MakesAsk ==
    ASSUME IInv, OrderInv, NEW c \in Call, MakeCall(c)
    PROVE  Store!Ask(c)
<1> USE LockAssumption
<1>1. TypeOK /\ Queues /\ Written /\ ProcessOf[c] \in Process
  BY DEF IInv, OrderInv
<1>2. /\ pc[c] = "idle" /\ pc'[c] = "queued" /\ file' = file
      /\ \A d \in Call : d # c => pc'[d] = pc[d]
      /\ queue' = [queue EXCEPT ![ProcessOf[c]] = Append(@, c)]
  BY <1>1 DEF MakeCall, Moves, TypeOK
<1>3. ~InFile(c) /\ ~Asked(c)
  BY <1>1, <1>2 DEF InFile, Written, Asked, Queues
<1>4. \A d \in Call : InFile(d)' = InFile(d)
  BY <1>2 DEF InFile
<1>5. \A d \in Call : d # c => OutcomeOf(d)' = OutcomeOf(d)
  BY <1>1, <1>2, <1>4, MakeAsks DEF OutcomeOf
<1>6. OutcomeOf(c) = "none" /\ OutcomeOf(c)' = "open"
  BY <1>2, <1>3, <1>4 DEF OutcomeOf, Undecided, AtWork
<1>7. outcome[c] = "none" /\ outcome' = [outcome EXCEPT ![c] = "open"]
  BY <1>5, <1>6, OutcomeUpdate DEF outcome
<1> QED
  BY <1>2, <1>7 DEF Store!Ask

\* A call that writes is the first of its process that may still do so.
LEMMA WritesInTurn ==
    ASSUME IInv, OrderInv, NEW c \in Call, pc[c] = "write"
    PROVE  Store!InTurn(c)
<1> USE LockAssumption
<1>1. TypeOK /\ Queues /\ ProcessOf[c] \in Process
  BY DEF IInv, OrderInv
<1>2. ASSUME NEW k \in DOMAIN queue[ProcessOf[c]], NEW l \in DOMAIN queue[ProcessOf[c]],
             k < l, queue[ProcessOf[c]][l] = c
      PROVE  outcome[queue[ProcessOf[c]][k]] # "open"
  <2>1. queue[ProcessOf[c]][k] \in Call
    BY <1>1, QueueTyped
  <2>2. pc[queue[ProcessOf[c]][k]] \in Ended
    BY <1>1, <1>2 DEF Queues, AtWork
  <2>3. OutcomeOf(queue[ProcessOf[c]][k]) # "open"
    BY <2>2 DEF OutcomeOf, Undecided, AtWork, Ended
  <2> QED
    BY <2>1, <2>3 DEF outcome
<1> QED
  BY <1>2 DEF Store!InTurn

LEMMA WriteApplies ==
    ASSUME IInv, OrderInv, NEW c \in Call, WriteState(c), file' = Append(file, c)
    PROVE  Store!Apply(c)
<1>1. TypeOK /\ Queues /\ Written /\ file \in Seq(Call) /\ queue' = queue
  BY DEF IInv, OrderInv, TypeOK, WriteState
<1>2. /\ pc[c] = "write" /\ pc'[c] = "release"
      /\ \A d \in Call : d # c => pc'[d] = pc[d]
  BY <1>1 DEF WriteState, Moves, TypeOK
<1>3. ~InFile(c)
  BY <1>1, <1>2 DEF InFile, Written
<1>4. InFile(c)' /\ \A d \in Call : d # c => InFile(d)' = InFile(d)
  <2> DEFINE n == Len(file)
  <2>1. /\ n \in Nat /\ DOMAIN file = 1..n /\ DOMAIN file' = 1..(n + 1)
        /\ file'[n + 1] = c /\ \A i \in 1..n : file'[i] = file[i]
    BY <1>1
  <2> HIDE DEF n
  <2> QED
    BY <2>1 DEF InFile
<1>5. \A d \in Call : d # c => OutcomeOf(d)' = OutcomeOf(d)
  BY <1>1, <1>2, <1>4 DEF OutcomeOf, Asked
<1>6. OutcomeOf(c) = "open" /\ OutcomeOf(c)' = "applied"
  BY <1>2, <1>3, <1>4 DEF OutcomeOf, Undecided, AtWork
<1>7. outcome[c] = "open" /\ outcome' = [outcome EXCEPT ![c] = "applied"]
  BY <1>5, <1>6, OutcomeUpdate DEF outcome
<1> QED
  BY <1>1, <1>2, <1>7, WritesInTurn DEF Store!Apply

LEMMA CallAtomic ==
    ASSUME IInv, OrderInv, NEW c \in Call, CallStep(c)
    PROVE  Store!Next
<1>1. CASE MakeCall(c)
  BY <1>1, MakesAsk DEF Store!Next
<1>2. CASE WriteState(c) /\ file' = Append(file, c)
  BY <1>2, WriteApplies DEF Store!Next
<1>3. CASE ~MakeCall(c) /\ file' = file
  <2>1. queue' = queue /\ pc[c] # "idle" /\ Shape(c) /\ Queues
    BY <1>3, QueueFrame, MadeOnce, StepShape DEF OrderInv
  <2>2. \A d \in Call : pc'[d] \in Undecided => pc[d] \in Undecided
    BY <2>1 DEF Shape, Undecided, AtWork
  <2> QED
    BY <1>3, <2>1, <2>2, NothingGained DEF Store!Next
<1> QED
  BY <1>1, <1>2, <1>3, FileFrame, FileWritten DEF OrderInv

LEMMA InitStore == Init => Store!Init
<1> SUFFICES ASSUME Init PROVE Store!Init
  OBVIOUS
<1>1. \A c \in Call : ProcessOf[c] \in Process
  BY LockAssumption
<1>2. ASSUME NEW c \in Call PROVE OutcomeOf(c) = "none"
  <2>1. ~InFile(c) /\ ~Asked(c) /\ pc[c] \notin Undecided
    BY <1>1 DEF Init, InFile, Asked, Undecided, AtWork
  <2> QED
    BY <2>1 DEF OutcomeOf
<1>3. outcome = [c \in Call |-> "none"]
  BY <1>2 DEF outcome
<1> QED
  BY <1>3 DEF Init, Store!Init

\* The lock implements a store on which each mutation takes effect at one instant,
\* after what its process asked for before it, or never.
THEOREM LockIsAtomic == Spec => MutatesAtomically
<1>1. Init => Store!Init
  BY InitStore
<1>2. IInv /\ OrderInv /\ [Next]_vars => [Store!Next]_(Store!vars)
  <2> SUFFICES ASSUME IInv, OrderInv, [Next]_vars PROVE Store!Next
    OBVIOUS
  <2>1. Queues /\ TypeOK
    BY DEF IInv, OrderInv
  <2>2. ASSUME NEW Dying \in SUBSET Process, End(Dying) PROVE Store!Next
    <3>1. \A c \in Call : pc'[c] \in Undecided => pc[c] \in Undecided
      BY <2>1, <2>2, EndShape DEF Undecided, AtWork
    <3> QED
      BY <2>1, <2>2, <3>1, EndShape, NothingGained DEF Store!Next
  <2>3. ASSUME NEW p \in Process, Start(p) PROVE Store!Next
    BY <2>1, <2>3, NothingGained DEF Start, Store!Next
  <2>4. ASSUME NEW p \in Process, Die(p) PROVE Store!Next
    BY <2>2, <2>4 DEF Die
  <2>5. ASSUME NEW h \in Host, Reboot(h) PROVE Store!Next
    BY <2>2, <2>5 DEF Reboot
  <2>6. CASE UNCHANGED vars
    BY <2>1, <2>6, NothingGained DEF vars, Store!Next
  <2> QED
    BY <2>3, <2>4, <2>5, <2>6, CallAtomic DEF Next, CallStep
<1> QED
  BY <1>1, <1>2, OrderInvariance, PTL DEF MutatesAtomically, Store!Spec, Spec
=============================================================================
