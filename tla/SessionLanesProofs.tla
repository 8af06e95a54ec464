------------------------- MODULE SessionLanesProofs -------------------------
(***************************************************************************)
(* Proofs about SessionLanes, for any number of sessions, turns, drains.   *)
(***************************************************************************)
EXTENDS SessionLanes, FiniteSetTheorems, SequenceTheorems, TLAPS

\* Where a task that joins a session's history is found.
LEMMA Joined ==
    ASSUME NEW S, NEW seq \in Seq(S), NEW t \in S
    PROVE  /\ Append(seq, t) \in Seq(S)
           /\ Len(Append(seq, t)) = Len(seq) + 1
           /\ Len(seq) \in Nat
           /\ DOMAIN Append(seq, t) = 1 .. Len(seq) + 1
           /\ DOMAIN seq = 1 .. Len(seq)
           /\ \A i \in 1 .. Len(seq) : Append(seq, t)[i] = seq[i]
           /\ Append(seq, t)[Len(seq) + 1] = t
           /\ Append(seq, t) # << >>
  OBVIOUS

\* Sets of tasks are finite.
LEMMA TasksFinite ==
    /\ \A l : IsFiniteSet(InLane(l))
    /\ \A s : IsFiniteSet({t \in AtHand : SessionOf[t] = s})
  <1>1. AtHand \subseteq Task BY DEF AtHand
  <1>2. \A l : InLane(l) \subseteq Task BY <1>1 DEF InLane
  <1>3. \A s : {t \in AtHand : SessionOf[t] = s} \subseteq Task BY <1>1
  <1> QED BY <1>2, <1>3, FS_Subset, LanesAssumption

LEMMA InitIInv == Init => IInv
  <1> SUFFICES ASSUME Init PROVE IInv OBVIOUS
  <1> USE LanesAssumption DEF Init
  <1>1. AtHand = {} /\ Present = {} /\ Begun = {}
    BY DEF AtHand, Present, Begun
  <1>2. \A l : InLane(l) = {} BY <1>1 DEF InLane
  <1>3. TypeOK BY DEF TypeOK
  <1>4. Histories BY <1>1 DEF Histories
  <1>5. Counts BY <1>2, FS_EmptySet DEF Counts
  <1>6. Lanes BY <1>1 DEF Lanes
  <1>7. Chained BY DEF Chained
  <1>8. InOrder BY DEF InOrder
  <1>9. DrainsCover BY DEF DrainsCover
  <1>10. DrainCovers BY DEF DrainCovers
  <1> QED BY <1>3, <1>4, <1>5, <1>6, <1>7, <1>8, <1>9, <1>10 DEF IInv

\* A task enters its session's lane.
LEMMA EnqueueInductive ==
    ASSUME IInv, NEW t \in Task, Enqueue(t)
    PROVE  IInv'
  <1> DEFINE s == SessionOf[t]
             l == LaneOfSession(t)
             seq == order[s]
  <1>1. /\ s \in Session /\ l \in Task /\ seq \in Seq(Task)
        /\ TypeOK
    BY LanesAssumption DEF IInv, TypeOK, LaneOfSession
  <1>2. t \notin Present /\ t \notin AtHand /\ t \notin Over /\ t \notin Begun
    BY DEF Enqueue, Present, AtHand, Over, Begun
  <1>3. /\ Present' = Present \cup {t}
        /\ AtHand' = AtHand \cup {t}
        /\ Over' = Over /\ Begun' = Begun
    BY <1>1 DEF Enqueue, Present, AtHand, Over, Begun, TypeOK
  <1>4. /\ order' = [order EXCEPT ![s] = Append(seq, t)]
        /\ lanes' = [lanes EXCEPT ![s] = l]
        /\ size' = [size EXCEPT ![l] = @ + 1]
        /\ tail' = [tail EXCEPT ![l] = t]
        /\ after' = [after EXCEPT ![t] = tail[l]]
        /\ laneOf' = [laneOf EXCEPT ![t] = l]
        /\ status' = [status EXCEPT ![t] = "queued"]
        /\ UNCHANGED <<drains, pc, owed>>
    BY DEF Enqueue, Join
  <1>5. TypeOK'
    <2>1. Append(seq, t) \in Seq(Task) BY <1>1, Joined
    <2> QED BY <1>1, <1>4, <2>1 DEF TypeOK
  <1>6. /\ order'[s] = Append(seq, t)
        /\ \A r \in Session \ {s} : order'[r] = order[r]
    BY <1>1, <1>4 DEF TypeOK
  <1>7. /\ Len(seq) \in Nat
        /\ DOMAIN order'[s] = 1 .. Len(seq) + 1
        /\ DOMAIN seq = 1 .. Len(seq)
        /\ \A i \in DOMAIN seq : i \in DOMAIN order'[s] /\ order'[s][i] = seq[i]
        /\ order'[s][Len(seq) + 1] = t
        /\ Len(order'[s]) = Len(seq) + 1
        /\ \A i \in DOMAIN order'[s] : i \in DOMAIN seq \/ i = Len(seq) + 1
        /\ order'[s] # << >>
    BY <1>1, <1>6, Joined
  <1>8. \A r \in Session : \A i \in DOMAIN order[r] : order[r][i] # t
    BY <1>2 DEF IInv, Histories
  <1> HIDE DEF s, l, seq
  <1>9. Histories'
    <2>1. \A r \in Session : \A i \in DOMAIN order'[r] :
             order'[r][i] \in Present' /\ SessionOf[order'[r][i]] = r
      <3> SUFFICES ASSUME NEW r \in Session, NEW i \in DOMAIN order'[r]
                   PROVE  order'[r][i] \in Present' /\ SessionOf[order'[r][i]] = r
        OBVIOUS
      <3>1. CASE r # s BY <3>1, <1>6, <1>3 DEF IInv, Histories
      <3>2. CASE r = s
        <4>1. CASE i \in DOMAIN seq
          BY <4>1, <3>2, <1>7, <1>3, <1>1 DEF IInv, Histories, seq
        <4>2. CASE i = Len(seq) + 1 BY <4>2, <3>2, <1>7, <1>3 DEF s
        <4> QED BY <3>2, <4>1, <4>2, <1>7
      <3> QED BY <3>1, <3>2
    <2>2. \A r \in Session : \A i, j \in DOMAIN order'[r] :
             order'[r][i] = order'[r][j] => i = j
      <3> SUFFICES ASSUME NEW r \in Session, NEW i \in DOMAIN order'[r],
                          NEW j \in DOMAIN order'[r], order'[r][i] = order'[r][j]
                   PROVE  i = j
        OBVIOUS
      <3>1. CASE r # s BY <3>1, <1>6 DEF IInv, Histories
      <3>2. CASE r = s
        BY <3>2, <1>1, <1>7, <1>8 DEF IInv, Histories, seq
      <3> QED BY <3>1, <3>2
    <2>3. \A u \in Present' : \E i \in DOMAIN order'[SessionOf[u]] :
             order'[SessionOf[u]][i] = u
      <3> SUFFICES ASSUME NEW u \in Present'
                   PROVE  \E i \in DOMAIN order'[SessionOf[u]] : order'[SessionOf[u]][i] = u
        OBVIOUS
      <3>1. CASE u = t
        BY <3>1, <1>7 DEF s
      <3>2. CASE u # t
        <4>1. u \in Present BY <3>2, <1>3
        <4>2. SessionOf[u] \in Session BY <4>1, LanesAssumption DEF Present
        <4>3. PICK i \in DOMAIN order[SessionOf[u]] : order[SessionOf[u]][i] = u
          BY <4>1 DEF IInv, Histories
        <4> QED BY <4>2, <4>3, <1>6, <1>7 DEF seq
      <3> QED BY <3>1, <3>2
    <2> QED BY <2>1, <2>2, <2>3 DEF Histories
  <1>10. tail[l] = IF lanes[s] = None THEN None ELSE seq[Len(seq)]
    BY <1>1, <1>2 DEF IInv, Lanes, l, s, seq, LaneOfSession
  <1>11. lanes[s] = None => \A i \in DOMAIN seq : seq[i] \in Over
    <2> SUFFICES ASSUME lanes[s] = None, NEW i \in DOMAIN seq PROVE seq[i] \in Over
      OBVIOUS
    <2>1. seq[i] \in Present /\ SessionOf[seq[i]] = s
      BY <1>1 DEF IInv, Histories, seq
    <2>2. seq[i] \notin AtHand
      BY <2>1, LanesAssumption DEF IInv, Lanes, Present
    <2> QED BY <2>1, <2>2, <1>1 DEF Present, AtHand, Over, TypeOK
  <1>12. lanes[s] # None => seq # << >> /\ Len(seq) \in DOMAIN seq
    BY <1>1, <1>7 DEF IInv, Lanes, seq
  <1>13. Counts'
    <2>1. \A m \in Task : InLane(m)' = IF m = l THEN InLane(m) \cup {t} ELSE InLane(m)
      BY <1>1, <1>2, <1>3, <1>4 DEF InLane, TypeOK, AtHand
    <2>2. t \notin InLane(l) BY <1>2 DEF InLane
    <2>3. Cardinality(InLane(l) \cup {t}) = Cardinality(InLane(l)) + 1
      BY <2>2, TasksFinite, FS_AddElement
    <2> QED BY <2>1, <2>3, <1>1, <1>4 DEF IInv, Counts, TypeOK
  <1>14. Lanes'
    <2>1. \A u \in Task \ Present' : tail'[u] = None /\ laneOf'[u] = None
      BY <1>1, <1>3, <1>4 DEF IInv, Lanes, TypeOK, l, s, LaneOfSession
    <2>2. l \in Present' /\ SessionOf[l] = s
      BY <1>1, <1>3 DEF IInv, Lanes, l, s, LaneOfSession
    <2>3. \A u \in Present' : laneOf'[u] \in Present' /\ SessionOf[laneOf'[u]] = SessionOf[u]
      BY <1>1, <1>3, <1>4, <2>2 DEF IInv, Lanes, TypeOK, Present, s
    <2>4. \A u \in AtHand' : lanes'[SessionOf[u]] = laneOf'[u]
      <3> SUFFICES ASSUME NEW u \in AtHand' PROVE lanes'[SessionOf[u]] = laneOf'[u]
        OBVIOUS
      <3>1. CASE u = t BY <3>1, <1>1, <1>4 DEF TypeOK, s
      <3>2. CASE u # t
        <4>1. u \in AtHand /\ u \in Present /\ u \in Task
          BY <3>2, <1>3 DEF AtHand, Present
        <4>2. lanes[SessionOf[u]] = laneOf[u] /\ laneOf[u] \in Present
          BY <4>1 DEF IInv, Lanes
        <4>3. laneOf[u] # None BY <4>2, LanesAssumption DEF Present
        <4>4. SessionOf[u] = s => l = laneOf[u]
          BY <4>2, <4>3 DEF l, s, LaneOfSession
        <4> QED BY <3>2, <4>1, <4>2, <4>4, <1>1, <1>4, LanesAssumption DEF TypeOK
      <3> QED BY <3>1, <3>2
    <2>5. ASSUME NEW r \in Session, lanes'[r] # None
          PROVE  /\ lanes'[r] \in Present' /\ SessionOf[lanes'[r]] = r
                 /\ order'[r] # << >>
                 /\ tail'[lanes'[r]] = order'[r][Len(order'[r])]
      <3>1. CASE r = s
        <4>1. lanes'[r] = l BY <3>1, <1>1, <1>4 DEF TypeOK
        <4>2. tail'[l] = t BY <1>1, <1>4 DEF TypeOK
        <4> QED BY <3>1, <4>1, <4>2, <2>2, <1>7
      <3>2. CASE r # s
        <4>1. lanes'[r] = lanes[r] /\ order'[r] = order[r]
          BY <3>2, <1>1, <1>4, <1>6 DEF TypeOK
        <4>2. /\ lanes[r] \in Present /\ SessionOf[lanes[r]] = r
              /\ order[r] # << >>
              /\ tail[lanes[r]] = order[r][Len(order[r])]
          BY <4>1, <2>5 DEF IInv, Lanes
        <4>3. lanes[r] # l BY <4>2, <3>2, <2>2
        <4> QED BY <4>1, <4>2, <4>3, <1>1, <1>3, <1>4 DEF TypeOK, Present
      <3> QED BY <3>1, <3>2
    <2> QED BY <2>1, <2>3, <2>4, <2>5 DEF Lanes
  <1>15. Chained'
    <2> SUFFICES ASSUME NEW r \in Session, NEW i \in DOMAIN order'[r]
                 PROVE  \/ i > 1 /\ after'[order'[r][i]] = order'[r][i - 1]
                        \/ /\ after'[order'[r][i]] = None
                           /\ \A j \in DOMAIN order'[r] : j < i => order'[r][j] \in Over'
      BY DEF Chained
    <2>1. ASSUME NEW k \in DOMAIN order[r], k = i, order'[r][k] = order[r][k],
                 \A j \in DOMAIN order'[r] : j < k =>
                    j \in DOMAIN order[r] /\ order'[r][j] = order[r][j]
          PROVE  \/ i > 1 /\ after'[order'[r][i]] = order'[r][i - 1]
                 \/ /\ after'[order'[r][i]] = None
                    /\ \A j \in DOMAIN order'[r] : j < i => order'[r][j] \in Over'
      <3>1. after'[order[r][k]] = after[order[r][k]]
        BY <1>1, <1>4, <1>8 DEF TypeOK
      <3>2. \/ k > 1 /\ after[order[r][k]] = order[r][k - 1]
            \/ /\ after[order[r][k]] = None
               /\ \A j \in DOMAIN order[r] : j < k => order[r][j] \in Over
        BY DEF IInv, Chained
      <3>3. order[r] \in Seq(Task) /\ order'[r] \in Seq(Task)
        BY <1>1, <1>5 DEF TypeOK
      <3>4. k > 1 => k - 1 \in DOMAIN order'[r] /\ k - 1 < k
        BY <2>1, <3>3
      <3> QED BY <2>1, <3>1, <3>2, <3>4, <1>3
    <2>2. CASE r # s
      <3>1. order'[r] = order[r] BY <2>2, <1>6
      <3> QED BY <3>1, <2>1
    <2>3. CASE r = s /\ i \in DOMAIN seq
      <3>1. order[r] = seq BY <2>3 DEF seq
      <3>2. \A j \in DOMAIN order'[r] : j < i => j \in DOMAIN seq
        BY <2>3, <1>7
      <3> QED BY <2>1, <2>3, <3>1, <3>2, <1>7
    <2>4. CASE r = s /\ i = Len(seq) + 1
      <3>1. order'[r][i] = t /\ after'[t] = tail[l]
        BY <2>4, <1>1, <1>4, <1>7 DEF TypeOK
      <3>2. CASE lanes[s] = None
        <4>1. \A j \in DOMAIN order'[s] : j < i => j \in DOMAIN seq
          BY <2>4, <1>7
        <4> QED BY <2>4, <3>1, <3>2, <4>1, <1>3, <1>7, <1>10, <1>11
      <3>3. CASE lanes[s] # None
        <4>1. i - 1 = Len(seq) /\ Len(seq) \in DOMAIN seq
          BY <2>4, <3>3, <1>7, <1>12
        <4>2. i > 1 BY <2>4, <4>1, <1>7
        <4>3. order'[r][i - 1] = seq[Len(seq)] BY <2>4, <4>1, <1>7
        <4>4. tail[l] = seq[Len(seq)] BY <3>3, <1>10
        <4> QED BY <3>1, <4>2, <4>3, <4>4
      <3> QED BY <3>2, <3>3
    <2> QED BY <2>2, <2>3, <2>4, <1>7
  <1>16. InOrder'
    <2> SUFFICES ASSUME NEW r \in Session,
                        NEW i \in DOMAIN order'[r], NEW j \in DOMAIN order'[r],
                        i < j, order'[r][j] \in Begun'
                 PROVE  order'[r][i] \in Over'
      BY DEF InOrder
    <2>1. CASE r # s BY <2>1, <1>3, <1>6 DEF IInv, InOrder
    <2>2. CASE r = s
      <3>1. j \in DOMAIN seq BY <2>2, <1>2, <1>3, <1>7
      <3>2. i \in DOMAIN seq BY <3>1, <2>2, <1>7
      <3> QED BY <2>2, <3>1, <3>2, <1>1, <1>3, <1>7 DEF IInv, InOrder, seq
    <2> QED BY <2>1, <2>2
  <1>17. DrainsCover'
    <2> SUFFICES ASSUME NEW d \in Drain, NEW u \in owed[d]
                 PROVE  \E v \in drains[d], r \in Session :
                          \E i, j \in DOMAIN order'[r] :
                            i <= j /\ order'[r][i] = u /\ order'[r][j] = v
      BY <1>4 DEF DrainsCover
    <2>1. PICK v \in drains[d], r \in Session :
             \E i, j \in DOMAIN order[r] :
                i <= j /\ order[r][i] = u /\ order[r][j] = v
      BY DEF IInv, DrainsCover
    <2>2. \A i \in DOMAIN order[r] : i \in DOMAIN order'[r] /\ order'[r][i] = order[r][i]
      BY <1>6, <1>7 DEF seq
    <2> QED BY <2>1, <2>2
  <1>18. DrainCovers' BY <1>3, <1>4 DEF IInv, DrainCovers
  <1> QED BY <1>5, <1>9, <1>13, <1>14, <1>15, <1>16, <1>17, <1>18 DEF IInv

\* What a task's begin or end leaves alone, and what it may only add to.
Moves(t) ==
    /\ status[t] # "new" /\ status'[t] # "new"
    /\ \A u \in Task \ {t} : status'[u] = status[u]
    /\ UNCHANGED <<laneOf, tail, after, order, drains, owed>>

\* A task that is present goes on: histories, chains and drains stand.
LEMMA MovesKeeps ==
    ASSUME IInv, NEW t \in Task, Moves(t), t \notin Over
    PROVE  /\ Present' = Present
           /\ Over \subseteq Over'
           /\ Begun' \subseteq Begun \cup {t}
           /\ Histories' /\ Chained' /\ DrainsCover'
  <1>1. Present' = Present BY DEF Moves, Present
  <1>2. Over \subseteq Over' BY DEF Moves, Over
  <1>3. Begun' \subseteq Begun \cup {t} BY DEF Moves, Begun
  <1>4. Histories' BY <1>1 DEF IInv, Histories, Moves
  <1>5. Chained' BY <1>2 DEF IInv, Chained, Moves
  <1>6. DrainsCover' BY DEF IInv, DrainsCover, Moves
  <1> QED BY <1>1, <1>2, <1>3, <1>4, <1>5, <1>6

LEMMA BeginInductive ==
    ASSUME IInv, NEW t \in Task, Begin(t)
    PROVE  IInv'
  <1> DEFINE s == SessionOf[t]
  <1>1. /\ TypeOK /\ s \in Session /\ order[s] \in Seq(Task)
    BY LanesAssumption DEF IInv, TypeOK
  <1>2. /\ t \in AtHand /\ AtHand' = AtHand
        /\ Over' = Over /\ t \notin Over /\ t \in Present
    BY <1>1 DEF Begin, AtHand, Over, Present, TypeOK
  <1>3. Moves(t) BY <1>1 DEF Begin, Moves, TypeOK
  <1>4. /\ Present' = Present
        /\ Begun' \subseteq Begun \cup {t}
        /\ Histories' /\ Chained' /\ DrainsCover'
    BY <1>2, <1>3, MovesKeeps
  <1>5. TypeOK' BY <1>1 DEF Begin, TypeOK
  <1>6. Counts' BY <1>2 DEF Begin, IInv, Counts, InLane
  <1>7. Lanes' BY <1>2, <1>4 DEF Begin, IInv, Lanes
  <1>8. InOrder'
    <2> SUFFICES ASSUME NEW r \in Session,
                        NEW i \in DOMAIN order[r], NEW j \in DOMAIN order[r],
                        i < j, order[r][j] \in Begun'
                 PROVE  order[r][i] \in Over
      BY <1>2 DEF InOrder, Begin
    <2>1. CASE order[r][j] \in Begun BY <2>1 DEF IInv, InOrder
    <2>2. CASE order[r][j] = t
      <3>1. r = s BY <2>2 DEF IInv, Histories
      <3>2. CASE after[t] = order[r][j - 1] /\ j > 1
        <4>1. order[r] \in Seq(Task) BY <1>1, <3>1
        <4>2. j - 1 \in DOMAIN order[r] BY <3>2, <4>1
        <4>3. order[r][j - 1] \in Task BY <4>1, <4>2
        <4>4. order[r][j - 1] \in Over
          BY <3>2, <4>3, LanesAssumption DEF Begin
        <4>5. i = j - 1 \/ i < j - 1 BY <4>1
        <4>6. order[r][j - 1] \in Begun BY <4>4 DEF Over, Begun
        <4> QED BY <4>2, <4>4, <4>5, <4>6 DEF IInv, InOrder
      <3>3. CASE \A k \in DOMAIN order[r] : k < j => order[r][k] \in Over
        BY <3>3
      <3> QED BY <2>2, <3>2, <3>3 DEF IInv, Chained
    <2> QED BY <2>1, <2>2, <1>4
  <1>9. DrainCovers' BY <1>2 DEF Begin, IInv, DrainCovers
  <1> QED BY <1>4, <1>5, <1>6, <1>7, <1>8, <1>9 DEF IInv

LEMMA SettleInductive ==
    ASSUME IInv, NEW t \in Task, Settle(t)
    PROVE  IInv'
  <1>1. TypeOK BY DEF IInv
  <1>2. /\ AtHand' = AtHand /\ Over' = Over /\ Begun' = Begun /\ t \notin Over
    BY <1>1 DEF Settle, AtHand, Over, Begun, TypeOK
  <1>3. Moves(t) BY <1>1 DEF Settle, Moves, TypeOK
  <1>4. Present' = Present /\ Histories' /\ Chained' /\ DrainsCover'
    BY <1>2, <1>3, MovesKeeps
  <1>5. TypeOK' BY <1>1 DEF Settle, TypeOK
  <1>6. Counts' BY <1>2 DEF Settle, IInv, Counts, InLane
  <1>7. Lanes' BY <1>2, <1>4 DEF Settle, IInv, Lanes
  <1>8. InOrder' BY <1>2 DEF Settle, IInv, InOrder
  <1>9. DrainCovers' BY <1>2 DEF Settle, IInv, DrainCovers
  <1> QED BY <1>4, <1>5, <1>6, <1>7, <1>8, <1>9 DEF IInv

\* The clean-up of a task: an entry goes only when no work is left in its lane.
LEMMA FinishInductive ==
    ASSUME IInv, NEW t \in Task, Finish(t)
    PROVE  IInv'
  <1> DEFINE s == SessionOf[t]
             l == laneOf[t]
  <1>1. TypeOK /\ s \in Session BY LanesAssumption DEF IInv, TypeOK
  <1>2. /\ t \in AtHand /\ t \in Begun /\ t \in Present /\ t \notin Over
        /\ AtHand' = AtHand \ {t}
        /\ Over' = Over \cup {t}
        /\ Begun' = Begun
    BY <1>1 DEF Finish, Settled, AtHand, Over, Begun, Present, TypeOK
  <1>3. /\ l \in Present /\ l \in Task /\ lanes[s] = l /\ SessionOf[l] = s
    BY <1>2 DEF IInv, Lanes, Present
  <1>4. Moves(t) BY <1>1 DEF Finish, Settled, Moves, TypeOK
  <1>5. Present' = Present /\ Histories' /\ Chained' /\ DrainsCover'
    BY <1>2, <1>4, MovesKeeps
  <1>6. InLane(l) # {} /\ t \in InLane(l) BY <1>2 DEF InLane
  <1>7. /\ size[l] \in Nat \ {0}
        /\ size[l] = Cardinality(InLane(l))
        /\ Cardinality(InLane(l) \ {t}) = size[l] - 1
    <2>1. IsFiniteSet(InLane(l)) BY TasksFinite
    <2>2. size[l] = Cardinality(InLane(l)) BY <1>3 DEF IInv, Counts
    <2>3. Cardinality(InLane(l) \ {t}) = Cardinality(InLane(l)) - 1
      BY <2>1, <1>6, FS_RemoveElement
    <2>4. Cardinality(InLane(l)) \in Nat /\ Cardinality(InLane(l)) # 0
      BY <2>1, <1>6, FS_CardinalityType, FS_EmptySet
    <2> QED BY <2>2, <2>3, <2>4
  <1>8. TypeOK'
    <2>1. size[l] - 1 \in Nat BY <1>7
    <2> QED BY <1>1, <1>3, <2>1 DEF Finish, Leave, TypeOK
  <1>9. Counts'
    <2>1. \A m \in Task : InLane(m)' = IF m = l THEN InLane(m) \ {t} ELSE InLane(m)
      BY <1>2, <1>3 DEF InLane, Finish
    <2>2. \A m \in Task : size'[m] = IF m = l THEN size[m] - 1 ELSE size[m]
      BY <1>1, <1>3 DEF Finish, Leave, TypeOK
    <2> QED BY <2>1, <2>2, <1>7 DEF IInv, Counts
  <1>10. Lanes'
    <2>1. \A r \in Session : lanes'[r] # None => lanes'[r] = lanes[r]
      BY <1>1 DEF Finish, Leave, TypeOK
    <2>2. \A r \in Session \ {s} : lanes'[r] = lanes[r]
      BY <1>1 DEF Finish, Leave, TypeOK
    <2>3. lanes'[s] = IF size[l] = 1 THEN None ELSE l
      BY <1>1, <1>3 DEF Finish, Leave, TypeOK
    <2>4. \A u \in AtHand' : lanes'[SessionOf[u]] = laneOf[u]
      <3> SUFFICES ASSUME NEW u \in AtHand' PROVE lanes'[SessionOf[u]] = laneOf[u]
        OBVIOUS
      <3>1. u \in AtHand /\ u # t /\ SessionOf[u] \in Session
        BY <1>2, LanesAssumption DEF AtHand
      <3>2. lanes[SessionOf[u]] = laneOf[u] BY <3>1 DEF IInv, Lanes
      <3>3. CASE SessionOf[u] # s BY <3>1, <3>2, <3>3, <2>2
      <3>4. CASE SessionOf[u] = s
        <4>1. u \in InLane(l) \ {t} BY <3>1, <3>2, <3>4, <1>3 DEF InLane
        <4>2. IsFiniteSet(InLane(l) \ {t})
          BY TasksFinite, FS_RemoveElement
        <4>3. Cardinality(InLane(l) \ {t}) # 0 BY <4>1, <4>2, FS_EmptySet
        <4>4. size[l] # 1 BY <4>3, <1>7
        <4> QED BY <4>4, <2>3, <3>2, <3>4, <1>3
      <3> QED BY <3>3, <3>4
    <2> QED BY <2>1, <2>4, <1>5 DEF IInv, Lanes, Finish
  <1>11. InOrder' BY <1>2 DEF IInv, InOrder, Finish
  <1>12. DrainCovers' BY <1>2 DEF IInv, DrainCovers, Finish
  <1> QED BY <1>5, <1>8, <1>9, <1>10, <1>11, <1>12 DEF IInv

\* drain finds a tail that comes no earlier than anything at hand.
LEMMA CallDrainInductive ==
    ASSUME IInv, NEW d \in Drain, CallDrain(d)
    PROVE  IInv'
  <1> DEFINE tails == {tail[lanes[s]] : s \in {r \in Session : lanes[r] # None}}
  <1>1. TypeOK BY DEF IInv
  <1>2. UNCHANGED <<Present, AtHand, Over, Begun>>
    BY DEF CallDrain, Present, AtHand, Over, Begun
  <1>3. /\ \A s \in Session : lanes[s] # None => lanes[s] \in Present
        /\ Present \subseteq Task /\ AtHand \subseteq Present
    BY DEF IInv, Lanes, Present, AtHand
  <1>4. \A t \in AtHand :
          /\ lanes[SessionOf[t]] # None
          /\ tail[lanes[SessionOf[t]]] = order[SessionOf[t]][Len(order[SessionOf[t]])]
          /\ order[SessionOf[t]] # << >>
          /\ SessionOf[t] \in Session
    <2> SUFFICES ASSUME NEW t \in AtHand
                 PROVE  /\ lanes[SessionOf[t]] # None
                        /\ tail[lanes[SessionOf[t]]] = order[SessionOf[t]][Len(order[SessionOf[t]])]
                        /\ order[SessionOf[t]] # << >>
                        /\ SessionOf[t] \in Session
      OBVIOUS
    <2>1. SessionOf[t] \in Session BY <1>3, LanesAssumption
    <2>2. lanes[SessionOf[t]] = laneOf[t] /\ laneOf[t] \in Present
      BY <1>3 DEF IInv, Lanes
    <2>3. laneOf[t] # None BY <2>2, <1>3, LanesAssumption
    <2> QED BY <2>1, <2>2, <2>3 DEF IInv, Lanes
  <1>5. tails \subseteq Task
    <2> SUFFICES ASSUME NEW s \in Session, lanes[s] # None
                 PROVE  tail[lanes[s]] \in Task
      OBVIOUS
    <2>1. /\ tail[lanes[s]] = order[s][Len(order[s])]
          /\ order[s] # << >> /\ order[s] \in Seq(Task)
      BY <1>1 DEF IInv, Lanes, TypeOK
    <2> QED BY <2>1
  <1>6. /\ drains' = [drains EXCEPT ![d] = tails]
        /\ owed' = [owed EXCEPT ![d] = AtHand]
    BY DEF CallDrain
  <1> HIDE DEF tails
  <1>7. TypeOK'
    <2>1. AtHand \in SUBSET Task BY <1>3
    <2> QED BY <1>1, <1>5, <1>6, <2>1 DEF CallDrain, TypeOK
  <1>8. DrainsCover'
    <2> SUFFICES ASSUME NEW e \in Drain, NEW t \in owed'[e]
                 PROVE  \E u \in drains'[e], s \in Session : \E i, j \in DOMAIN order[s] :
                          i <= j /\ order[s][i] = t /\ order[s][j] = u
      BY DEF DrainsCover, CallDrain
    <2>1. CASE e # d
      BY <2>1, <1>1, <1>6 DEF IInv, DrainsCover, TypeOK
    <2>2. CASE e = d
      <3> DEFINE s == SessionOf[t]
                 j == Len(order[s])
      <3>1. t \in AtHand BY <2>2, <1>1, <1>6 DEF TypeOK
      <3>2. s \in Session /\ lanes[s] # None /\ tail[lanes[s]] = order[s][j]
        BY <3>1, <1>4
      <3>3. order[s] \in Seq(Task) /\ order[s] # << >>
        BY <3>1, <1>1, <1>4 DEF TypeOK
      <3>4. j \in DOMAIN order[s] BY <3>3
      <3>5. PICK i \in DOMAIN order[s] : order[s][i] = t
        BY <3>1, <1>3 DEF IInv, Histories
      <3>6. i <= j BY <3>3, <3>5
      <3>7. order[s][j] \in drains'[d]
        BY <3>2, <1>1, <1>6 DEF tails, TypeOK
      <3> QED BY <2>2, <3>2, <3>4, <3>5, <3>6, <3>7
    <2> QED BY <2>1, <2>2
  <1>9. DrainCovers' BY <1>1, <1>2, <1>6 DEF IInv, DrainCovers, CallDrain, TypeOK
  <1>10. Histories' /\ Chained' /\ InOrder'
    BY <1>2 DEF IInv, Histories, Chained, InOrder, CallDrain
  <1>11. Counts' BY <1>2 DEF IInv, Counts, InLane, CallDrain
  <1>12. Lanes' BY <1>2 DEF IInv, Lanes, CallDrain
  <1> QED BY <1>7, <1>8, <1>9, <1>10, <1>11, <1>12 DEF IInv

\* Its tails are over, so by InOrder is all that comes before them.
LEMMA DrainReturnsInductive ==
    ASSUME IInv, NEW d \in Drain, DrainReturns(d)
    PROVE  IInv'
  <1>1. TypeOK BY DEF IInv
  <1>2. UNCHANGED <<Present, AtHand, Over, Begun>>
    BY DEF DrainReturns, Present, AtHand, Over, Begun
  <1>3. TypeOK' BY <1>1 DEF DrainReturns, TypeOK
  <1>4. owed[d] \subseteq Over
    <2> SUFFICES ASSUME NEW t \in owed[d] PROVE t \in Over
      OBVIOUS
    <2>1. PICK u \in drains[d], s \in Session :
             \E i, j \in DOMAIN order[s] :
                i <= j /\ order[s][i] = t /\ order[s][j] = u
      BY DEF IInv, DrainsCover
    <2>2. PICK i \in DOMAIN order[s], j \in DOMAIN order[s] :
             i <= j /\ order[s][i] = t /\ order[s][j] = u
      BY <2>1
    <2>3. u \in Over /\ u \in Begun BY DEF DrainReturns, Over, Begun
    <2>4. order[s] \in Seq(Task) BY <1>1 DEF TypeOK
    <2>5. CASE i = j BY <2>2, <2>3, <2>5
    <2>6. CASE i < j BY <2>2, <2>3, <2>6 DEF IInv, InOrder
    <2> QED BY <2>2, <2>4, <2>5, <2>6
  <1>5. DrainCovers' BY <1>1, <1>2, <1>4 DEF IInv, DrainCovers, DrainReturns, TypeOK
  <1>6. Histories' /\ Chained' /\ InOrder' /\ DrainsCover'
    BY <1>2 DEF IInv, Histories, Chained, InOrder, DrainsCover, DrainReturns
  <1>7. Counts' BY <1>2 DEF IInv, Counts, InLane, DrainReturns
  <1>8. Lanes' BY <1>2 DEF IInv, Lanes, DrainReturns
  <1> QED BY <1>3, <1>5, <1>6, <1>7, <1>8 DEF IInv

LEMMA NextIInv == IInv /\ [Next]_vars => IInv'
  <1> SUFFICES ASSUME IInv, [Next]_vars PROVE IInv' OBVIOUS
  <1>1. ASSUME NEW t \in Task, Enqueue(t) PROVE IInv' BY <1>1, EnqueueInductive
  <1>2. ASSUME NEW t \in Task, Begin(t) PROVE IInv' BY <1>2, BeginInductive
  <1>3. ASSUME NEW t \in Task, Settle(t) PROVE IInv' BY <1>3, SettleInductive
  <1>4. ASSUME NEW t \in Task, Finish(t) PROVE IInv' BY <1>4, FinishInductive
  <1>5. ASSUME NEW d \in Drain, CallDrain(d) PROVE IInv' BY <1>5, CallDrainInductive
  <1>6. ASSUME NEW d \in Drain, DrainReturns(d) PROVE IInv'
    BY <1>6, DrainReturnsInductive
  <1>7. CASE UNCHANGED vars
    <2>1. UNCHANGED <<Present, AtHand, Over, Begun>>
      BY <1>7 DEF vars, Present, AtHand, Over, Begun
    <2>2. TypeOK' BY <1>7 DEF vars, IInv, TypeOK
    <2>3. Histories' /\ Lanes' BY <1>7, <2>1 DEF vars, IInv, Histories, Lanes
    <2>4. Counts' BY <1>7, <2>1 DEF vars, IInv, Counts, InLane
    <2>5. Chained' /\ InOrder' BY <1>7, <2>1 DEF vars, IInv, Chained, InOrder
    <2>6. DrainsCover' /\ DrainCovers'
      BY <1>7, <2>1 DEF vars, IInv, DrainsCover, DrainCovers
    <2> QED BY <2>2, <2>3, <2>4, <2>5, <2>6 DEF IInv
  <1> QED BY <1>1, <1>2, <1>3, <1>4, <1>5, <1>6, <1>7 DEF Next

----------------------------------------------------------------------------
(* What a session waits for and is served, and that its steps are those of *)
(* SerialServer.                                                           *)

\* What is left of a sequence after its first k elements, and with one more at its end.
LEMMA Rest ==
    ASSUME NEW S, NEW seq \in Seq(S), NEW n, n = Len(seq), NEW k \in 0 .. n
    PROVE  /\ SubSeq(seq, k + 1, n) \in Seq(S)
           /\ Len(SubSeq(seq, k + 1, n)) = n - k
           /\ \A i \in 1 .. n - k : SubSeq(seq, k + 1, n)[i] = seq[k + i]
  <1>1. n \in Nat /\ k \in Nat /\ k <= n
    OBVIOUS
  <1>2. \A i \in k + 1 .. n : seq[i] \in S
    BY <1>1
  <1> DEFINE b == SubSeq(seq, k + 1, n)
  <1>3. /\ b \in Seq(S)
        /\ Len(b) = IF k + 1 <= n THEN n - (k + 1) + 1 ELSE 0
        /\ \A i \in 1 .. n - (k + 1) + 1 : b[i] = seq[k + 1 + i - 1]
    BY <1>1, <1>2, SubSeqProperties
  <1> HIDE DEF b
  <1>4. \A i \in 1 .. n - k : k + 1 + i - 1 = k + i
    BY <1>1
  <1>5. b \in Seq(S) /\ Len(b) = n - k /\ \A i \in 1 .. n - k : b[i] = seq[k + i]
    BY <1>1, <1>3, <1>4
  <1> QED BY <1>5 DEF b

LEMMA SubSeqAppended ==
    ASSUME NEW S, NEW seq \in Seq(S), NEW t \in S, NEW n, n = Len(seq), NEW k \in 0 .. n
    PROVE  SubSeq(Append(seq, t), k + 1, n + 1) = Append(SubSeq(seq, k + 1, n), t)
  <1> DEFINE c == Append(seq, t)
             a == SubSeq(c, k + 1, n + 1)
             b == SubSeq(seq, k + 1, n)
  <1>1. n \in Nat /\ k \in Nat /\ k <= n
    OBVIOUS
  <1>2. /\ c \in Seq(S) /\ Len(c) = n + 1
        /\ \A i \in 1 .. n : c[i] = seq[i]
        /\ c[n + 1] = t
    BY Joined
  <1>3. b \in Seq(S) /\ Len(b) = n - k /\ \A i \in 1 .. n - k : b[i] = seq[k + i]
    BY Rest
  <1> HIDE DEF c
  <1>4. /\ a \in Seq(S) /\ Len(a) = n + 1 - k
        /\ \A i \in 1 .. n + 1 - k : a[i] = c[k + i]
    <2>1. k \in 0 .. n + 1 BY <1>1
    <2> QED BY <1>1, <1>2, <2>1, Rest
  <1> HIDE DEF a, b
  <1>5. /\ Append(b, t) \in Seq(S) /\ Len(Append(b, t)) = n - k + 1
        /\ \A i \in 1 .. n - k : Append(b, t)[i] = b[i]
        /\ Append(b, t)[n - k + 1] = t
    BY <1>3, Joined
  <1>6. ASSUME NEW i \in 1 .. n + 1 - k PROVE a[i] = Append(b, t)[i]
    <2>1. CASE i = n - k + 1
      <3>1. k + i = n + 1 BY <1>1, <2>1
      <3> QED BY <1>2, <1>4, <1>5, <2>1, <3>1
    <2>2. CASE i # n - k + 1
      <3>1. i \in 1 .. n - k /\ k + i \in 1 .. n BY <1>1, <2>2
      <3> QED BY <1>2, <1>3, <1>4, <1>5, <3>1
    <2> QED BY <2>1, <2>2
  <1>7. Len(a) = Len(Append(b, t)) BY <1>1, <1>4, <1>5
  <1>8. a = Append(b, t)
    BY <1>4, <1>5, <1>6, <1>7, SeqEqual
  <1> QED BY <1>8 DEF a, b, c

LEMMA LaneTypes ==
    ASSUME IInv, NEW s \in Session
    PROVE  /\ order[s] \in Seq(Task) /\ Len(order[s]) \in Nat
           /\ DOMAIN order[s] = 1 .. Len(order[s])
           /\ \A t \in Task : SessionOf[t] \in Session
           /\ None \notin Task
  BY LanesAssumption DEF IInv, TypeOK

LEMMA FirstOnes == \A k \in Nat : Cardinality(1 .. k) = k
  <1>1. \A k \in Nat : Cardinality(1 .. k) = IF 1 > k THEN 0 ELSE k - 1 + 1
    BY FS_Interval
  <1> QED BY <1>1

\* With the first k tasks begun the others wait.
LEMMA BegunCount ==
    ASSUME NEW s \in Session, NEW k \in Nat, NEW n \in Nat, k <= n,
           DOMAIN order[s] = 1 .. n,
           \A i \in DOMAIN order[s] : order[s][i] \in Begun <=> i <= k
    PROVE  /\ begun[s] = k
           /\ waiting[s] = SubSeq(order[s], k + 1, Len(order[s]))
  <1>1. {i \in DOMAIN order[s] : order[s][i] \in Begun} = 1 .. k
    OBVIOUS
  <1>2. Cardinality(1 .. k) = k BY FirstOnes
  <1>3. begun[s] = k BY <1>1, <1>2 DEF begun
  <1> QED BY <1>3 DEF waiting

\* A session in which nothing has come and nothing has begun waits as before.
LEMMA WaitingKept ==
    ASSUME NEW s \in Session, order'[s] = order[s],
           \A i \in DOMAIN order[s] : order[s][i] \in Begun' <=> order[s][i] \in Begun
    PROVE  waiting'[s] = waiting[s]
  <1>1. {i \in DOMAIN order'[s] : order'[s][i] \in Begun'}
          = {i \in DOMAIN order[s] : order[s][i] \in Begun}
    OBVIOUS
  <1>2. begun'[s] = begun[s] BY <1>1 DEF begun
  <1> QED BY <1>2 DEF waiting

\* No two tasks of a session run.
LEMMA OneRunning ==
    ASSUME IInv, NEW t \in Running, NEW u \in Running, SessionOf[t] = SessionOf[u]
    PROVE  t = u
  <1>1. t \in Present /\ u \in Present /\ t \in Task
    BY DEF Running, Present
  <1>2. t \in Begun /\ u \in Begun /\ t \notin Over /\ u \notin Over
    BY DEF Running, Begun, Over
  <1> DEFINE s == SessionOf[t]
  <1>3. PICK i \in DOMAIN order[s] : order[s][i] = t
    BY <1>1 DEF IInv, Histories
  <1>4. PICK j \in DOMAIN order[s] : order[s][j] = u
    BY <1>1 DEF IInv, Histories
  <1>5. s \in Session /\ i \in Nat /\ j \in Nat
    BY <1>1, LaneTypes, LanesAssumption
  <1>6. ~(i < j) /\ ~(j < i)
    BY <1>2, <1>3, <1>4, <1>5 DEF IInv, InOrder
  <1> QED BY <1>3, <1>4, <1>5, <1>6

LEMMA ServingIs ==
    ASSUME NEW s \in Session, NEW t \in Running, SessionOf[t] = s,
           \A u \in Running : SessionOf[u] = s => u = t
    PROVE  serving[s] = t
  <1> DEFINE r == CHOOSE u \in Running : SessionOf[u] = s
  <1>1. r \in Running /\ SessionOf[r] = s
    OBVIOUS
  <1>2. r = t BY <1>1
  <1>3. serving[s] = r BY DEF serving
  <1> QED BY <1>2, <1>3

LEMMA ServingNone ==
    ASSUME NEW s \in Session, \A u \in Running : SessionOf[u] # s
    PROVE  serving[s] = None
  BY DEF serving

LEMMA ServingKept ==
    ASSUME NEW s \in Session,
           \A u \in Task : SessionOf[u] = s => (u \in Running' <=> u \in Running)
    PROVE  serving'[s] = serving[s]
  <1>1. Running \subseteq Task /\ Running' \subseteq Task
    BY DEF Running
  <1>2. \A u : u \in Running' /\ SessionOf[u] = s <=> u \in Running /\ SessionOf[u] = s
    BY <1>1
  <1>3. (CHOOSE u \in Running' : SessionOf[u] = s) = (CHOOSE u \in Running : SessionOf[u] = s)
    BY <1>2
  <1>4. (\E u \in Running' : SessionOf[u] = s) <=> (\E u \in Running : SessionOf[u] = s)
    BY <1>2
  <1> QED BY <1>3, <1>4 DEF serving

\* A step that moves no task between waiting, running and over goes unnoticed.
LEMMA Unnoticed ==
    ASSUME order' = order, Begun' = Begun, Running' = Running
    PROVE  /\ UNCHANGED Server!vars
           /\ BegunFirst => BegunFirst'
  <1>1. waiting' = waiting
    <2>1. begun' = begun BY DEF begun
    <2> QED BY <2>1 DEF waiting
  <1>2. serving' = serving BY DEF serving
  <1> QED BY <1>1, <1>2 DEF Server!vars, BegunFirst

----------------------------------------------------------------------------

\* A task that joins its session waits behind the others.
LEMMA EnqueueArrives ==
    ASSUME IInv, BegunFirst, NEW t \in Task, Enqueue(t)
    PROVE  BegunFirst' /\ Server!Arrive(t)
  <1> DEFINE s == SessionOf[t]
             seq == order[s]
             n == Len(seq)
  <1>1. /\ s \in Session /\ seq \in Seq(Task) /\ n \in Nat /\ DOMAIN seq = 1 .. n
        /\ TypeOK
    BY LanesAssumption, LaneTypes DEF IInv
  <1>2. /\ t \notin Begun /\ Begun' = Begun /\ Running' = Running
    BY <1>1 DEF Enqueue, Begun, Running, TypeOK
  <1>3. /\ order'[s] = Append(seq, t)
        /\ \A r \in Session \ {s} : order'[r] = order[r]
    BY <1>1 DEF Enqueue, TypeOK
  <1>4. /\ Len(order'[s]) = n + 1 /\ DOMAIN order'[s] = 1 .. n + 1
        /\ \A i \in 1 .. n : order'[s][i] = seq[i]
        /\ order'[s][n + 1] = t
    BY <1>1, <1>3, Joined
  <1>5. PICK k \in 0 .. n : \A i \in 1 .. n : seq[i] \in Begun <=> i <= k
    BY <1>1 DEF BegunFirst
  <1> HIDE DEF n
  <1>6. \A i \in 1 .. n + 1 : order'[s][i] \in Begun' <=> i <= k
    BY <1>1, <1>2, <1>4, <1>5
  <1>7. BegunFirst'
    <2>1. ASSUME NEW r \in Session
          PROVE  \E j \in 0 .. Len(order'[r]) :
                    \A i \in DOMAIN order'[r] : order'[r][i] \in Begun' <=> i <= j
      <3>1. CASE r = s
        <4>1. k \in 0 .. n + 1 BY <1>1, <1>5
        <4> QED BY <1>4, <1>6, <3>1, <4>1
      <3>2. CASE r # s
        BY <1>2, <1>3, <3>2 DEF BegunFirst
      <3> QED BY <3>1, <3>2
    <2> QED BY <2>1 DEF BegunFirst
  <1>8. waiting[s] = SubSeq(seq, k + 1, n)
    <2>1. k \in Nat /\ k <= n BY <1>1, <1>5
    <2>2. \A i \in DOMAIN order[s] : order[s][i] \in Begun <=> i <= k BY <1>1, <1>5
    <2>3. waiting[s] = SubSeq(order[s], k + 1, Len(order[s]))
      BY <1>1, <2>1, <2>2, BegunCount
    <2> QED BY <2>3 DEF n
  <1>9. waiting'[s] = SubSeq(order'[s], k + 1, n + 1)
    <2>1. {i \in DOMAIN order'[s] : order'[s][i] \in Begun'} = 1 .. k
      BY <1>1, <1>4, <1>5, <1>6
    <2>2. Cardinality(1 .. k) = k BY <1>1, <1>5, FirstOnes
    <2>3. begun' = [r \in Session |->
                      Cardinality({i \in DOMAIN order'[r] : order'[r][i] \in Begun'})]
      BY DEF begun
    <2>4. begun'[s] = k BY <1>1, <2>1, <2>2, <2>3
    <2>5. waiting' = [r \in Session |->
                        SubSeq(order'[r], begun'[r] + 1, Len(order'[r]))]
      BY DEF waiting
    <2> QED BY <1>1, <1>4, <2>4, <2>5
  <1>10. waiting'[s] = Append(waiting[s], t)
    <2>1. SubSeq(Append(seq, t), k + 1, n + 1) = Append(SubSeq(seq, k + 1, n), t)
      BY <1>1, <1>5, SubSeqAppended DEF n
    <2> QED BY <1>3, <1>8, <1>9, <2>1
  <1>11. \A r \in Session \ {s} : waiting'[r] = waiting[r]
    BY <1>2, <1>3, WaitingKept
  <1>12. waiting' = [waiting EXCEPT ![s] = Append(@, t)]
    BY <1>1, <1>10, <1>11 DEF waiting
  <1>13. serving' = serving BY <1>2 DEF serving
  <1> QED BY <1>7, <1>12, <1>13 DEF Server!Arrive

\* The task that begins is the first of those that wait, and none of its session runs.
LEMMA BeginServes ==
    ASSUME IInv, BegunFirst, NEW t \in Task, Begin(t)
    PROVE  BegunFirst' /\ Server!Serve(SessionOf[t])
  <1> DEFINE s == SessionOf[t]
             seq == order[s]
             n == Len(seq)
  <1>1. /\ s \in Session /\ seq \in Seq(Task) /\ n \in Nat /\ DOMAIN seq = 1 .. n
        /\ TypeOK /\ None # t
    BY LanesAssumption, LaneTypes DEF IInv
  <1>2. /\ t \notin Begun /\ Begun' = Begun \cup {t}
        /\ Running' = Running \cup {t} /\ Over' = Over /\ order' = order
        /\ t \in Present
    BY <1>1 DEF Begin, Begun, Running, Over, Present, TypeOK
  <1>3. InOrder' BY BeginInductive DEF IInv
  <1>4. PICK i \in DOMAIN seq : seq[i] = t
    BY <1>2 DEF IInv, Histories
  <1>5. \A j \in DOMAIN seq : j < i => seq[j] \in Over
    BY <1>1, <1>2, <1>3, <1>4 DEF InOrder
  <1>6. \A j \in DOMAIN seq : seq[j] = t => j = i
    BY <1>1, <1>4 DEF IInv, Histories
  <1>7. PICK k \in 0 .. n : \A j \in 1 .. n : seq[j] \in Begun <=> j <= k
    BY <1>1 DEF BegunFirst
  <1>8. Over \subseteq Begun /\ Running \subseteq Begun /\ Over \cap Running = {}
    BY DEF Over, Begun, Running
  <1>9. i = k + 1 /\ k + 1 \in 1 .. n
    <2>1. i > k BY <1>1, <1>2, <1>4, <1>7
    <2>2. ASSUME k + 1 < i PROVE FALSE
      <3>1. k + 1 \in 1 .. n BY <1>1, <1>4, <1>7, <2>2
      <3>2. seq[k + 1] \in Begun BY <1>1, <1>5, <1>8, <2>2, <3>1
      <3> QED BY <1>7, <3>1, <3>2
    <2> QED BY <1>1, <1>4, <1>7, <2>1, <2>2
  <1> HIDE DEF n
  <1>10. \A j \in 1 .. n : seq[j] \in Begun' <=> j <= k + 1
    <2> SUFFICES ASSUME NEW j \in 1 .. n PROVE seq[j] \in Begun' <=> j <= k + 1
      OBVIOUS
    <2>1. seq[j] \in Begun' <=> (seq[j] \in Begun \/ j = i)
      BY <1>1, <1>2, <1>4, <1>6
    <2>2. seq[j] \in Begun <=> j <= k BY <1>7
    <2> QED BY <1>7, <1>9, <2>1, <2>2
  <1>11. BegunFirst'
    <2>1. ASSUME NEW r \in Session
          PROVE  \E j \in 0 .. Len(order[r]) :
                    \A m \in DOMAIN order[r] : order[r][m] \in Begun' <=> m <= j
      <3>1. CASE r = s
        <4>1. k + 1 \in 0 .. n BY <1>1, <1>7, <1>9
        <4> QED BY <1>1, <1>10, <3>1, <4>1 DEF n
      <3>2. CASE r # s
        <4>1. \A m \in DOMAIN order[r] : order[r][m] # t
          BY <3>2 DEF IInv, Histories
        <4> QED BY <1>2, <3>2, <4>1 DEF BegunFirst
      <3> QED BY <3>1, <3>2
    <2> QED BY <1>2, <2>1 DEF BegunFirst
  <1>12. waiting[s] = SubSeq(seq, k + 1, n)
    <2>1. k \in Nat /\ k <= n BY <1>1, <1>7
    <2>2. \A j \in DOMAIN order[s] : order[s][j] \in Begun <=> j <= k BY <1>1, <1>7
    <2>3. waiting[s] = SubSeq(order[s], k + 1, Len(order[s]))
      BY <1>1, <2>1, <2>2, BegunCount
    <2> QED BY <2>3 DEF n
  <1>13. waiting'[s] = SubSeq(seq, k + 2, n)
    <2>1. {j \in DOMAIN order'[s] : order'[s][j] \in Begun'} = 1 .. k + 1
      BY <1>1, <1>2, <1>7, <1>9, <1>10
    <2>2. k + 1 \in Nat /\ Cardinality(1 .. k + 1) = k + 1
      BY <1>7, FirstOnes
    <2>3. begun' = [r \in Session |->
                      Cardinality({j \in DOMAIN order'[r] : order'[r][j] \in Begun'})]
      BY DEF begun
    <2>4. begun'[s] = k + 1 BY <1>1, <2>1, <2>2, <2>3
    <2>5. waiting' = [r \in Session |->
                        SubSeq(order'[r], begun'[r] + 1, Len(order'[r]))]
      BY DEF waiting
    <2>6. k + 1 + 1 = k + 2 BY <1>7
    <2>7. waiting'[s] = SubSeq(seq, k + 1 + 1, n)
      BY <1>1, <1>2, <2>4, <2>5 DEF n
    <2> QED BY <2>6, <2>7
  <1>14. \A r \in Session \ {s} : waiting'[r] = waiting[r]
    <2> SUFFICES ASSUME NEW r \in Session \ {s} PROVE waiting'[r] = waiting[r]
      OBVIOUS
    <2>1. \A m \in DOMAIN order[r] : order[r][m] # t
      BY DEF IInv, Histories
    <2> QED BY <1>2, <2>1, WaitingKept
  <1>15. Head(waiting[s]) = t /\ waiting'[s] = Tail(waiting[s]) /\ waiting[s] # << >>
    <2>1. /\ Head(SubSeq(seq, k + 1, n)) = seq[k + 1]
          /\ Tail(SubSeq(seq, k + 1, n)) = SubSeq(seq, k + 1 + 1, n)
      BY <1>1, <1>9, HeadTailOfSubSeq DEF n
    <2>2. Len(SubSeq(seq, k + 1, n)) = n - k
      BY <1>1, <1>7, Rest DEF n
    <2>3. k + 1 + 1 = k + 2 /\ n - k # 0 BY <1>1, <1>7, <1>9
    <2>4. SubSeq(seq, k + 1, n) # << >> BY <2>2, <2>3
    <2> QED BY <1>4, <1>9, <1>12, <1>13, <2>1, <2>3, <2>4
  <1>16. waiting' = [waiting EXCEPT ![s] = Tail(@)]
    BY <1>1, <1>14, <1>15 DEF waiting
  <1>17. \A u \in Running : SessionOf[u] # s
    <2> SUFFICES ASSUME NEW u \in Running, SessionOf[u] = s PROVE FALSE
      OBVIOUS
    <2>1. u \in Present BY DEF Running, Present
    <2>2. PICK j \in DOMAIN seq : seq[j] = u
      BY <2>1 DEF IInv, Histories
    <2>3. j <= k BY <1>1, <1>7, <1>8, <2>2
    <2>4. seq[j] \in Over BY <1>1, <1>5, <1>7, <1>9, <2>2, <2>3
    <2> QED BY <1>8, <2>2, <2>4
  <1>18. serving[s] = None BY <1>1, <1>17, ServingNone
  <1>19. serving'[s] = t
    <2>1. \A u \in Running' : SessionOf[u] = s => u = t
      BY <1>2, <1>17
    <2>2. t \in Running' BY <1>2
    <2>3. (CHOOSE u \in Running' : SessionOf[u] = s) = t BY <2>1, <2>2, Zenon
    <2> QED BY <1>1, <2>2, <2>3 DEF serving
  <1>20. \A r \in Session \ {s} : serving'[r] = serving[r]
    BY <1>2, ServingKept
  <1>21. serving' = [serving EXCEPT ![s] = t]
    BY <1>1, <1>19, <1>20 DEF serving
  <1> QED BY <1>11, <1>15, <1>16, <1>18, <1>21 DEF Server!Serve

\* The task that ends was the one its session was served.
LEMMA SettleLeaves ==
    ASSUME IInv, BegunFirst, NEW t \in Task, Settle(t)
    PROVE  BegunFirst' /\ Server!Leave(SessionOf[t])
  <1> DEFINE s == SessionOf[t]
  <1>1. s \in Session /\ TypeOK /\ None # t
    BY LanesAssumption DEF IInv
  <1>2. /\ t \in Running /\ Running' = Running \ {t} /\ Begun' = Begun /\ order' = order
    BY <1>1 DEF Settle, Begun, Running, TypeOK
  <1>3. \A u \in Running : SessionOf[u] = s => u = t
    BY <1>2, OneRunning
  <1>4. serving[s] = t BY <1>1, <1>2, <1>3, ServingIs
  <1>5. serving'[s] = None
    <2>1. \A u \in Running' : SessionOf[u] # s BY <1>2, <1>3
    <2> QED BY <1>1, <2>1 DEF serving
  <1>6. \A r \in Session \ {s} : serving'[r] = serving[r]
    BY <1>2, ServingKept
  <1>7. serving' = [serving EXCEPT ![s] = None]
    BY <1>1, <1>5, <1>6 DEF serving
  <1>8. waiting' = waiting
    <2>1. begun' = begun BY <1>2 DEF begun
    <2> QED BY <1>2, <2>1 DEF waiting
  <1>9. BegunFirst' BY <1>2 DEF BegunFirst
  <1> QED BY <1>1, <1>4, <1>7, <1>8, <1>9 DEF Server!Leave

\* Whatever else happens goes unnoticed.
LEMMA OthersUnnoticed ==
    ASSUME IInv, [Next]_vars,
           ~ \E t \in Task : Enqueue(t) \/ Begin(t) \/ Settle(t)
    PROVE  order' = order /\ Begun' = Begun /\ Running' = Running
  <1>1. TypeOK BY DEF IInv
  <1>2. ASSUME NEW t \in Task, Finish(t)
        PROVE  order' = order /\ Begun' = Begun /\ Running' = Running
    BY <1>1, <1>2 DEF Finish, Settled, Begun, Running, TypeOK
  <1>3. ASSUME NEW d \in Drain, CallDrain(d) \/ DrainReturns(d)
        PROVE  order' = order /\ Begun' = Begun /\ Running' = Running
    BY <1>3 DEF CallDrain, DrainReturns, Begun, Running
  <1>4. ASSUME UNCHANGED vars
        PROVE  order' = order /\ Begun' = Begun /\ Running' = Running
    BY <1>4 DEF vars, Begun, Running
  <1> QED BY <1>2, <1>3, <1>4 DEF Next

LEMMA InitServer == Init => BegunFirst /\ Server!Init
  <1> SUFFICES ASSUME Init PROVE BegunFirst /\ Server!Init
    OBVIOUS
  <1>1. Begun = {} /\ Running = {} /\ \A s \in Session : order[s] = << >>
    BY DEF Init, Begun, Running
  <1>2. \A s \in Session : Len(order[s]) = 0 /\ DOMAIN order[s] = 1 .. 0
    BY <1>1
  <1>3. BegunFirst BY <1>1, <1>2 DEF BegunFirst
  <1>4. \A s \in Session : waiting[s] = << >>
    <2> SUFFICES ASSUME NEW s \in Session PROVE waiting[s] = << >>
      OBVIOUS
    <2>1. waiting[s] = SubSeq(order[s], 0 + 1, Len(order[s]))
      BY <1>1, <1>2, BegunCount
    <2>2. SubSeq(order[s], 0 + 1, 0) = << >> BY SubSeqEmpty
    <2> QED BY <1>2, <2>1, <2>2
  <1>5. waiting = [s \in Session |-> << >>] BY <1>4 DEF waiting
  <1>6. serving = [s \in Session |-> None] BY <1>1 DEF serving
  <1> QED BY <1>3, <1>5, <1>6 DEF Server!Init

----------------------------------------------------------------------------
(* Theorems. *)

\* The lanes and their history are always as the inductive invariant says.
THEOREM Invariance == Spec => []IInv
  <1> QED BY InitIInv, NextIInv, PTL DEF Spec

\* Every variable has its type: no lane's size is ever negative.
THEOREM TypeCorrect == Spec => []TypeOK
  <1>1. IInv => TypeOK BY DEF IInv
  <1> QED BY <1>1, Invariance, PTL

\* Turns of one session begin one after the other, in the order they came,
\* each when the one before it is over and cleaned up.
THEOREM TurnsInOrder == Spec => []InOrder
  <1>1. IInv => InOrder BY DEF IInv
  <1> QED BY <1>1, Invariance, PTL

\* What was waiting or running when drain was called is over when it returns.
THEOREM DrainsComplete == Spec => []DrainCovers
  <1>1. IInv => DrainCovers BY DEF IInv
  <1> QED BY <1>1, Invariance, PTL

\* size() is the number of turns at hand, through every lane made and dropped.
THEOREM SizesExact == Spec => []SizeIsExact
  <1>1. IInv => SizeIsExact
    <2> SUFFICES ASSUME IInv, NEW s \in Session
                 PROVE  (IF lanes[s] = None THEN 0 ELSE size[lanes[s]])
                          = Cardinality({t \in AtHand : SessionOf[t] = s})
      BY DEF SizeIsExact
    <2>1. \A t \in AtHand : t \in Present /\ t \in Task /\ laneOf[t] \in Present
      BY DEF IInv, Lanes, Present, AtHand
    <2>2. None \notin Present BY LanesAssumption DEF Present
    <2>3. CASE lanes[s] = None
      <3>1. {t \in AtHand : SessionOf[t] = s} = {}
        BY <2>1, <2>2, <2>3 DEF IInv, Lanes
      <3> QED BY <2>3, <3>1, FS_EmptySet
    <2>4. CASE lanes[s] # None
      <3>1. lanes[s] \in Present /\ SessionOf[lanes[s]] = s /\ lanes[s] \in Task
        BY <2>4 DEF IInv, Lanes, Present
      <3>2. {t \in AtHand : SessionOf[t] = s} = InLane(lanes[s])
        BY <2>1, <3>1 DEF IInv, Lanes, InLane
      <3> QED BY <2>4, <3>1, <3>2 DEF IInv, Counts
    <2> QED BY <2>3, <2>4
  <1> QED BY <1>1, Invariance, PTL

\* The lanes of a session are a server of its tasks: they wait in the order in which
\* they came, and it takes them one at a time, whichever lane objects serve them.
THEOREM LanesServeInOrder == Spec => ServesInOrder
  <1>1. Init => BegunFirst /\ Server!Init BY InitServer
  <1>2. IInv /\ BegunFirst /\ [Next]_vars => BegunFirst' /\ [Server!Next]_(Server!vars)
    <2> SUFFICES ASSUME IInv, BegunFirst, [Next]_vars
                 PROVE  BegunFirst' /\ [Server!Next]_(Server!vars)
      OBVIOUS
    <2>1. ASSUME NEW t \in Task, Enqueue(t) \/ Begin(t) \/ Settle(t)
          PROVE  BegunFirst' /\ Server!Next
      <3>1. SessionOf[t] \in Session BY LanesAssumption
      <3> QED
        BY <2>1, <3>1, EnqueueArrives, BeginServes, SettleLeaves DEF Server!Next
    <2>2. CASE ~ \E t \in Task : Enqueue(t) \/ Begin(t) \/ Settle(t)
      BY <2>2, OthersUnnoticed, Unnoticed
    <2> QED BY <2>1, <2>2
  <1>3. Spec => [](IInv /\ BegunFirst)
    BY <1>1, <1>2, Invariance, PTL DEF Spec
  <1> QED BY <1>1, <1>2, <1>3, PTL DEF ServesInOrder, Server!Spec, Spec
=============================================================================
