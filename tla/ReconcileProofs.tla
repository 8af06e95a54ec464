--------------------------- MODULE ReconcileProofs ---------------------------
(***************************************************************************)
(* Proofs about Reconcile, for any activities, any times and any bounds:   *)
(* they use of the time-outs that Lookback <= Retention.                   *)
(*                                                                         *)
(* The argument is one of time.  Who still may ask for an activity, by a   *)
(* webhook or by a pass, finds its claim: a claim that is over is not      *)
(* older than its activity, and is kept for longer than any webhook or     *)
(* pass looks back, unless it makes room for others; that is counted, and  *)
(* each count lets one run more.  The opening has two keys; which of them  *)
(* is used is decided at the first sight, when the other can no longer     *)
(* come.                                                                   *)
(***************************************************************************)
EXTENDS Reconcile, WellFoundedInduction, FiniteSetTheorems, TLAPS

----------------------------------------------------------------------------
(* The order of activities.                                                *)

\* A set of natural numbers has a least one.
LEMMA LeastNatural ==
    ASSUME NEW S \in SUBSET Nat, S # {}
    PROVE  \E m \in S : \A n \in S : m <= n
<1> DEFINE R == OpToRel(<, Nat)
<1>1. IsWellFoundedOn(R, Nat)
  BY NatLessThanWellFounded
<1>2. PICK m \in S : \A n \in S : ~(<<n, m>> \in R)
  BY <1>1, WFMin
<1>3. \A x, y \in Nat : x < y => <<x, y>> \in R
  BY DEF OpToRel
<1> HIDE DEF R
<1>4. ASSUME NEW n \in S PROVE m <= n
  <2>1. m \in Nat /\ n \in Nat
    OBVIOUS
  <2>2. ~(n < m)
    BY <1>2, <1>3, <2>1
  <2> QED
    BY <2>1, <2>2
<1> QED
  BY <1>4

Before(t, a, b) == t[a] < t[b] \/ (t[a] = t[b] /\ a <= b)

\* compareCursors orders by time, then by id: a set has a first and a last.
LEMMA Earliest ==
    ASSUME NEW t \in [Activity -> Nat], NEW S \in SUBSET Activity, S # {}
    PROVE  \E m \in S : \A b \in S : Before(t, m, b)
<1> DEFINE T == {t[a] : a \in S}
<1>1. T \in SUBSET Nat /\ T # {}
  BY ReconcileAssumption
<1>2. PICK x \in T : \A y \in T : x <= y
  BY <1>1, LeastNatural
<1> DEFINE E == {a \in S : t[a] = x}
<1>3. E \in SUBSET Nat /\ E # {}
  BY <1>2, ReconcileAssumption
<1>4. PICK m \in E : \A n \in E : m <= n
  BY <1>3, LeastNatural
<1>5. ASSUME NEW b \in S PROVE Before(t, m, b)
  <2>1. x \in Nat /\ t[b] \in Nat /\ t[b] \in T /\ t[m] = x
    BY <1>1, <1>2, <1>4, ReconcileAssumption
  <2>2. x <= t[b] /\ (t[b] = x => m <= b)
    BY <1>2, <1>4, <2>1
  <2> QED
    BY <2>1, <2>2 DEF Before
<1> QED
  BY <1>4, <1>5

LEMMA Latest ==
    ASSUME NEW t \in [Activity -> Nat], NEW S \in SUBSET Activity, S # {}
    PROVE  \E m \in S : \A b \in S : Before(t, b, m)
<1> DEFINE Upto(a) == {b \in S : Before(t, b, a)}
<1> DEFINE Above(a) == {b \in S : ~Before(t, b, a)}
<1>1. IsFiniteSet(S) /\ \A a \in S : IsFiniteSet(Above(a)) /\ Cardinality(Above(a)) \in Nat
  <2>1. IsFiniteSet(S)
    BY ReconcileAssumption, FS_Subset
  <2>2. ASSUME NEW a \in S PROVE IsFiniteSet(Above(a)) /\ Cardinality(Above(a)) \in Nat
    <3>1. Above(a) \in SUBSET S
      OBVIOUS
    <3> HIDE DEF Above
    <3>2. IsFiniteSet(Above(a))
      BY <2>1, <3>1, FS_Subset
    <3> QED
      BY <3>2, FS_CardinalityType
  <2> QED
    BY <2>1, <2>2
<1> DEFINE N == {Cardinality(Above(a)) : a \in S}
<1>2. N \in SUBSET Nat /\ N # {}
  BY <1>1
<1>3. PICK n \in N : \A k \in N : n <= k
  BY <1>2, LeastNatural
<1>4. PICK m \in S : n = Cardinality(Above(m))
  BY <1>3
<1>5. \A a \in S : Cardinality(Above(m)) <= Cardinality(Above(a))
  BY <1>3, <1>4
<1>6. ASSUME NEW b \in S, ~Before(t, b, m) PROVE FALSE
  <2>0. m \in Nat /\ b \in Nat /\ t[m] \in Nat /\ t[b] \in Nat
    BY ReconcileAssumption
  <2>1. Above(b) \in SUBSET Above(m)
    <3> SUFFICES ASSUME NEW c \in S, ~Before(t, c, b), Before(t, c, m) PROVE FALSE
      OBVIOUS
    <3>1. c \in Nat /\ t[c] \in Nat
      BY ReconcileAssumption
    <3> QED
      BY <1>6, <2>0, <3>1 DEF Before
  <2>2. b \in Above(m) /\ b \notin Above(b)
    BY <1>6, <2>0 DEF Before
  <2>3. IsFiniteSet(Above(m)) /\ Cardinality(Above(b)) \in Nat /\ Cardinality(Above(m)) \in Nat
    BY <1>1
  <2>4. Cardinality(Above(m)) <= Cardinality(Above(b))
    BY <1>5
  <2> HIDE DEF Above
  <2>5. Cardinality(Above(b)) <= Cardinality(Above(m))
    BY <2>1, <2>3, FS_Subset
  <2>6. Above(m) = Above(b)
    BY <2>1, <2>3, <2>4, <2>5, FS_Subset
  <2> QED
    BY <2>2, <2>6
<1> QED
  BY <1>6

LEMMA Numbers ==
    ASSUME TypeOK
    PROVE  /\ Grace \in Nat /\ Lookback \in Nat /\ Retention \in Nat /\ MaxTime \in Nat
           /\ Lookback <= Retention
           /\ now \in Nat /\ time \in [Activity -> Nat]
           /\ \A a \in Activity : time[a] \in Nat /\ a \in Nat
           /\ None \notin Activity /\ Created \notin Activity /\ Opening \in Activity
           /\ pass.now \in Nat /\ pass.now <= now
           /\ pass.rest \in SUBSET There /\ There \in SUBSET Activity
           /\ past \in SUBSET There
<1>1. /\ Grace \in Nat /\ Lookback \in Nat /\ Retention \in Nat /\ MaxTime \in Nat
      /\ Lookback <= Retention
      /\ None \notin Activity /\ Created \notin Activity /\ Opening \in Activity
      /\ Activity \subseteq Nat
  BY ReconcileAssumption
<1>2. now \in 0 .. MaxTime /\ time \in [Activity -> 0 .. NotYet]
  BY DEF TypeOK
<1>3. now \in Nat /\ time \in [Activity -> Nat]
  BY <1>1, <1>2 DEF NotYet
<1>4. pass.now \in 0 .. now /\ pass.rest \in SUBSET There /\ past \in SUBSET There
  BY DEF TypeOK
<1>5. pass.now \in Nat /\ pass.now <= now
  BY <1>3, <1>4
<1> QED
  BY <1>1, <1>3, <1>4, <1>5 DEF There

LEMMA FirstOf ==
    ASSUME TypeOK, NEW S \in SUBSET Activity, S # {}
    PROVE  First(S) \in S /\ \A b \in S : AtOrBefore(First(S), b)
<1>1. \E m \in S : \A b \in S : AtOrBefore(m, b)
  BY Numbers, Earliest DEF Before, AtOrBefore
<1> QED
  BY <1>1 DEF First

LEMMA LastOf ==
    ASSUME TypeOK, NEW S \in SUBSET Activity, S # {}
    PROVE  Last(S) \in S /\ \A b \in S : AtOrBefore(b, Last(S))
<1>1. \E m \in S : \A b \in S : AtOrBefore(b, m)
  BY Numbers, Latest DEF Before, AtOrBefore
<1> QED
  BY <1>1 DEF Last

LEMMA Order ==
    ASSUME TypeOK, NEW a \in Activity, NEW b \in Activity, NEW c \in Activity
    PROVE  /\ AtOrBefore(a, a)
           /\ AtOrBefore(a, b) \/ AtOrBefore(b, a)
           /\ AtOrBefore(a, b) /\ AtOrBefore(b, a) => a = b
           /\ AtOrBefore(a, b) /\ AtOrBefore(b, c) => AtOrBefore(a, c)
           /\ AtOrBefore(a, b) => time[a] <= time[b]
<1>1. /\ a \in Nat /\ b \in Nat /\ c \in Nat
      /\ time[a] \in Nat /\ time[b] \in Nat /\ time[c] \in Nat
  BY Numbers
<1> QED
  BY <1>1 DEF AtOrBefore

\* The activity that a pass is at.
LEMMA ForemostIs ==
    ASSUME TypeOK, pass.rest # {}
    PROVE  /\ First(pass.rest) \in pass.rest /\ First(pass.rest) \in There
           /\ First(pass.rest) \in Activity
           /\ Foremost(First(pass.rest))
           /\ \A a \in pass.rest : Foremost(a) => a = First(pass.rest)
<1>1. pass.rest \in SUBSET Activity
  BY Numbers
<1>2. First(pass.rest) \in pass.rest /\ \A b \in pass.rest : AtOrBefore(First(pass.rest), b)
  BY <1>1, FirstOf
<1>3. ASSUME NEW a \in pass.rest, Foremost(a) PROVE a = First(pass.rest)
  BY <1>1, <1>2, <1>3, Order DEF Foremost
<1> QED
  BY <1>1, <1>2, <1>3, Numbers DEF Foremost

LEMMA AdoptedIs ==
    ASSUME TypeOK, NEW a
    PROVE  Adopted(a) => AtAdoptedMark(a)
<1> SUFFICES ASSUME Adopted(a) PROVE AtAdoptedMark(a)
  OBVIOUS
<1>1. past \in SUBSET Activity /\ past # {} /\ a \in Activity
  BY Numbers DEF Adopted
<1>2. Last(past) \in past /\ AtOrBefore(a, Last(past))
  BY <1>1, LastOf DEF Adopted
<1>3. time[a] <= time[Last(past)] /\ time[Last(past)] <= time[a]
  BY <1>1, <1>2, Order DEF Adopted
<1>4. time[a] \in Nat /\ time[Last(past)] \in Nat
  BY <1>1, <1>2, Numbers
<1> QED
  BY <1>3, <1>4 DEF AtAdoptedMark, Adopted

----------------------------------------------------------------------------
(* What a write does to the claims.                                        *)

\* Whether a key's claim is known still, with the claims and the times now.
StillKnown(j) ==
    \/ claim'[j] # "none" \/ crowded[ActivityOf(j)] > 0
    \/ time[ActivityOf(j)] < now - Retention

\* One key may get a claim or a new status, others may age out.
ClaimsMove(k) ==
    /\ claim' \in [Key -> {"none", "held", "over"}]
    /\ kept' \in [Key -> 0 .. MaxTime]
    /\ hooked' \subseteq {j \in Key : claim'[j] = "over"}
    /\ twin' \in [Key -> 0 .. NotYet]
    /\ crowded' = crowded
    /\ \A j \in Key :
          \/ claim'[j] = claim[j]
          \/ claim[j] = "over" /\ claim'[j] = "none" /\ time[ActivityOf(j)] < now - Retention
          \/ j = k /\ claim'[k] # "none"
    /\ \A j \in Key : claim'[j] # "none" => ActivityOf(j) \in There
    /\ \A j \in Key : claim'[j] = "over" => time[ActivityOf(j)] <= kept'[j]
    /\ claim'[Created] # "held"
    /\ \A j \in Key : twin'[j] # NotYet =>
          ActivityOf(j) \in There /\ (kind[ActivityOf(j)] = "prompt" => StillKnown(j))

LEMMA KeyFacts ==
    /\ Created \in Key /\ ActivityOf(Created) = Opening /\ KeyOf(Opening) = Created
    /\ \A a \in Activity : /\ a \in Key /\ ActivityOf(a) = a /\ KeyOf(a) \in Key
                           /\ ActivityOf(KeyOf(a)) = a
                           /\ a # Opening => KeyOf(a) = a
    /\ \A k \in Key : k = Created \/ k \in Activity
    /\ \A k \in Key : ActivityOf(k) \in Activity
  BY ReconcileAssumption DEF Key, ActivityOf, KeyOf

LEMMA ExpiredIsOld ==
    ASSUME TypeOK, Stamps, NEW k \in Key, Expired(k)
    PROVE  claim[k] = "over" /\ time[ActivityOf(k)] < now - Retention
<1>1. claim[k] = "over" /\ kept[k] < now - Retention /\ time[ActivityOf(k)] <= kept[k]
  BY DEF Expired, Stamps
<1>2. time[ActivityOf(k)] \in Nat /\ kept[k] \in Nat /\ now - Retention \in Int
  BY Numbers, KeyFacts DEF TypeOK
<1> QED
  BY <1>1, <1>2

\* What is claimed, or was found to be claimed or answered for, by a "hook" or a
\* "pass".
LEMMA WriteMoves ==
    ASSUME TypeOK, Stamps, Twins, NEW k \in Key, ActivityOf(k) \in There,
           NEW by \in {"hook", "pass"}, k = Created => by = "hook",
           WriteClaim(k, by)
    PROVE  /\ ClaimsMove(k)
           /\ Claims(k) => claim'[k] = IF by = "hook" THEN "over" ELSE "held"
           /\ ~Claims(k) => \/ claim'[k] = claim[k]
                            \/ claim'[k] = "none" /\ time[ActivityOf(k)] < now - Retention
           /\ ~Claims(k) /\ kind[ActivityOf(k)] = "prompt" => StillKnown(k)
           /\ \A j \in Key : claim[j] = "held" => claim'[j] = "held"
           /\ Claims(k) => claim[k] = "none" \/ time[ActivityOf(k)] < now - Retention
           /\ Claims(k) => claim[k] # "held"
<1> DEFINE status == IF by = "hook" THEN "over" ELSE "held"
<1> DEFINE goes(j) == claim[j] = "over" /\ claim'[j] = "none" /\ time[ActivityOf(j)] < now - Retention
<1>1. /\ claim' = [j \in Key |-> IF j = k /\ Claims(k) THEN status
                                 ELSE IF Expired(j) THEN "none" ELSE claim[j]]
      /\ kept' = [j \in Key |->
                     IF j = k /\ claim'[k] = "over" /\ (Claims(k) \/ (by = "pass" /\ k \notin hooked))
                     THEN now ELSE IF Expired(j) THEN 0 ELSE kept[j]]
      /\ hooked' = {j \in hooked : ~Expired(j)} \cup {j \in {k} : by = "hook" /\ Claims(k)}
      /\ twin' = [j \in Key |->
                     IF j = k /\ by = "pass" /\ ~Claims(k) /\ (k \in hooked \/ claim[k] = "none")
                     THEN now ELSE IF TwinExpired(j) THEN NotYet ELSE twin[j]]
      /\ crowded' = crowded
  BY DEF WriteClaim
<1>2. /\ claim \in [Key -> {"none", "held", "over"}] /\ kept \in [Key -> 0 .. MaxTime]
      /\ twin \in [Key -> 0 .. NotYet] /\ now \in 0 .. MaxTime
      /\ hooked \subseteq {j \in Key : claim[j] = "over"}
      /\ status \in {"held", "over"} /\ 0 \in 0 .. MaxTime
      /\ now \in 0 .. NotYet /\ NotYet \in 0 .. NotYet
  <2>1. MaxTime \in Nat /\ now \in Nat
    BY Numbers
  <2> QED
    BY <2>1 DEF TypeOK, NotYet
<1> HIDE DEF status
<1>3. claim' \in [Key -> {"none", "held", "over"}]
  BY <1>1, <1>2
<1>4. kept' \in [Key -> 0 .. MaxTime] /\ twin' \in [Key -> 0 .. NotYet]
  BY <1>1, <1>2
<1>5. Claims(k) => claim'[k] = status
  BY <1>1
<1>6. ASSUME NEW j \in Key, ~(j = k /\ Claims(k))
      PROVE  \/ claim'[j] = claim[j] /\ ~Expired(j)
             \/ goes(j) /\ Expired(j)
  BY <1>1, <1>6, ExpiredIsOld
<1>7. hooked' \subseteq {j \in Key : claim'[j] = "over"}
  <2> SUFFICES ASSUME NEW j \in hooked' PROVE j \in Key /\ claim'[j] = "over"
    OBVIOUS
  <2>1. CASE j = k /\ by = "hook" /\ Claims(k)
    BY <1>5, <2>1 DEF status
  <2>2. CASE j \in hooked /\ ~Expired(j) /\ ~(j = k /\ Claims(k))
    BY <1>2, <1>6, <2>2
  <2>3. CASE j \in hooked /\ ~Expired(j) /\ j = k /\ Claims(k)
    BY <1>2, <2>3 DEF Claims
  <2> QED
    BY <1>1, <2>1, <2>2, <2>3
<1>8. Claims(k) => /\ claim[k] = "none" \/ time[ActivityOf(k)] < now - Retention
                   /\ claim[k] # "held"
  BY ExpiredIsOld DEF Claims
<1>9. \A j \in Key : claim[j] = "held" => claim'[j] = "held"
  BY <1>6, <1>8
<1>10. \A j \in Key : \/ claim'[j] = claim[j]
                      \/ goes(j)
                      \/ j = k /\ claim'[k] # "none"
  BY <1>2, <1>5, <1>6
<1>11. \A j \in Key : claim'[j] # "none" => ActivityOf(j) \in There
  BY <1>6 DEF Stamps
<1>12. ASSUME NEW j \in Key, claim'[j] = "over"
       PROVE  time[ActivityOf(j)] <= kept'[j]
  <2>1. CASE kept'[j] = now
    BY <1>11, <1>12, <2>1 DEF Stamps
  <2>2. CASE kept'[j] # now
    <3>1. ~(j = k /\ Claims(k))
      BY <1>1, <1>12, <2>2
    <3>2. claim[j] = "over" /\ ~Expired(j)
      BY <1>6, <1>12, <3>1
    <3>3. kept'[j] = kept[j]
      BY <1>1, <2>2, <3>2
    <3> QED
      BY <3>2, <3>3 DEF Stamps
  <2> QED
    BY <2>1, <2>2
<1>13. claim'[Created] # "held"
  <2>1. Created \in Key /\ claim[Created] # "held"
    BY KeyFacts DEF Stamps
  <2>2. CASE Created = k /\ Claims(k)
    BY <1>5, <2>2 DEF status
  <2>3. CASE ~(Created = k /\ Claims(k))
    BY <1>6, <2>1, <2>3
  <2> QED
    BY <2>2, <2>3
<1>14. \A j \in Key : claim[j] # "none" => StillKnown(j)
  BY <1>10 DEF StillKnown
<1>15. \A j \in Key : Known(j) => StillKnown(j)
  BY <1>14 DEF Known, StillKnown
<1>16. ASSUME ~Claims(k), kind[ActivityOf(k)] = "prompt"
       PROVE  StillKnown(k)
  <2>1. CASE claim[k] # "none"
    BY <1>14, <2>1
  <2>2. CASE claim[k] = "none"
    BY <1>15, <1>16, <2>2 DEF Claims, Twins
  <2> QED
    BY <2>1, <2>2
<1>17. ASSUME NEW j \in Key, twin'[j] # NotYet
       PROVE  /\ ActivityOf(j) \in There
              /\ kind[ActivityOf(j)] = "prompt" => StillKnown(j)
  <2>1. CASE j = k /\ ~Claims(k)
    BY <1>16, <2>1
  <2>2. CASE twin[j] # NotYet
    BY <1>15, <2>2 DEF Twins
  <2> QED
    BY <1>1, <1>17, <2>1, <2>2
<1>18. ClaimsMove(k)
  BY <1>1, <1>3, <1>4, <1>7, <1>10, <1>11, <1>12, <1>13, <1>17 DEF ClaimsMove
<1> QED
  BY <1>5, <1>6, <1>8, <1>9, <1>16, <1>18 DEF status

LEMMA SettleMoves ==
    ASSUME TypeOK, Stamps, Twins, NEW k \in Key, claim[k] # "none", Settle(k)
    PROVE  /\ ClaimsMove(k) /\ claim'[k] = "over"
           /\ \A j \in Key \ {k} : claim'[j] = claim[j]
<1>1. /\ claim' = [claim EXCEPT ![k] = "over"] /\ kept' = [kept EXCEPT ![k] = now]
      /\ hooked' = hooked /\ twin' = twin /\ crowded' = crowded
      /\ claim \in [Key -> {"none", "held", "over"}] /\ kept \in [Key -> 0 .. MaxTime]
      /\ now \in 0 .. MaxTime /\ twin \in [Key -> 0 .. NotYet]
      /\ hooked \subseteq {j \in Key : claim[j] = "over"}
  BY DEF Settle, TypeOK
<1>2. /\ claim' \in [Key -> {"none", "held", "over"}] /\ kept' \in [Key -> 0 .. MaxTime]
      /\ claim'[k] = "over" /\ kept'[k] = now
      /\ \A j \in Key \ {k} : claim'[j] = claim[j] /\ kept'[j] = kept[j]
  BY <1>1
<1>3. claim'[Created] # "held" /\ \A j \in Key : claim'[j] # "none" => ActivityOf(j) \in There
  BY <1>2, KeyFacts DEF Stamps
<1>4. \A j \in Key : claim'[j] = "over" => time[ActivityOf(j)] <= kept'[j]
  BY <1>2 DEF Stamps
<1>5. hooked' \subseteq {j \in Key : claim'[j] = "over"}
  BY <1>1, <1>2
<1>6. \A j \in Key : Known(j) => StillKnown(j)
  BY <1>2 DEF Known, StillKnown
<1>7. \A j \in Key : twin'[j] # NotYet =>
         ActivityOf(j) \in There /\ (kind[ActivityOf(j)] = "prompt" => StillKnown(j))
  BY <1>1, <1>6 DEF Twins
<1> QED
  BY <1>1, <1>2, <1>3, <1>4, <1>5, <1>7 DEF ClaimsMove

\* The receipts beside the claims answer for what is known still.
LEMMA TwinsKept ==
    ASSUME NEW k \in Key, ClaimsMove(k), UNCHANGED <<now, kind, time>>
    PROVE  Twins'
  BY DEF ClaimsMove, StillKnown, Twins, Known, There

\* What was decided is, or it is older than any claim.
LEMMA StaysDecided ==
    ASSUME TypeOK, NEW k \in Key, ClaimsMove(k), NEW a \in Activity, Decided(a)
    PROVE  Decided(a)' \/ time[a] < now - Retention
<1>1. a \in Key /\ Created \in Key /\ ActivityOf(a) = a /\ ActivityOf(Created) = Opening
  BY KeyFacts
<1>2. CASE claim[a] # "none"
  BY <1>1, <1>2 DEF ClaimsMove, Decided
<1>3. CASE a = Opening /\ claim[Created] # "none"
  BY <1>1, <1>3 DEF ClaimsMove, Decided
<1>4. CASE crowded[a] > 0
  BY <1>4 DEF ClaimsMove, Decided
<1> QED
  BY <1>2, <1>3, <1>4 DEF Decided

LEMMA FenceMoves ==
    ASSUME TypeOK, NEW k \in Key, k # Created => k \in There, fence' = FenceWith(k)
    PROVE  /\ fence' \in There \cup {None}
           /\ \A s \in There : fence # None /\ AtOrBefore(s, fence) =>
                                   fence' # None /\ AtOrBefore(s, fence')
           /\ k # Created /\ kind[k] = "stop" => fence' # None /\ AtOrBefore(k, fence')
<1>1. fence \in There \cup {None} /\ There \in SUBSET Activity /\ None \notin Activity
  BY Numbers DEF TypeOK
<1>2. CASE k = Created \/ kind[k] # "stop"
  BY <1>1, <1>2 DEF FenceWith
<1>3. CASE k # Created /\ kind[k] = "stop"
  <2>1. fence' = Later(k, fence) /\ k \in There /\ AtOrBefore(k, k)
    BY <1>1, <1>3, Order DEF FenceWith
  <2>2. CASE fence = None
    BY <1>1, <2>1, <2>2 DEF Later
  <2>3. CASE fence # None
    <3>1. fence \in There /\ (AtOrBefore(fence, k) \/ AtOrBefore(k, fence))
      BY <1>1, <2>1, <2>3, Order
    <3>2. fence' \in {k, fence} /\ AtOrBefore(fence, fence') /\ AtOrBefore(k, fence')
      BY <1>1, <2>1, <2>3, <3>1, Order DEF Later
    <3> QED
      BY <1>1, <2>1, <3>1, <3>2, Order
  <2> QED
    BY <2>2, <2>3
<1> QED
  BY <1>2, <1>3

----------------------------------------------------------------------------
(* Steps that several actions share.                                       *)

\* A pass that is over leaves nothing to say of it.
LEMMA NoPass ==
    ASSUME pass' = Idle
    PROVE  /\ Window' /\ Walk' /\ Owns' /\ Fences'
           /\ pass'.pc = "idle" /\ pass'.rest = {}
  BY DEF Idle, Window, Walk, Owns, Fences

LEMMA PassEnds ==
    ASSUME IInv, pass' = Idle,
           tasks' \subseteq {k \in Key : claim[k] = "held"}, faults' \in 0 .. MaxFaults,
           UNCHANGED <<now, kind, time, hook, claim, kept, hooked, twin, crowded, runs, init, mark, fence, past>>
    PROVE  IInv'
<1>1. /\ TypeOK /\ Stamps /\ Twins /\ Window /\ Walk /\ Owns /\ Fences /\ Sight
      /\ OthersOnce /\ OpeningOnce /\ NothingSkipped
  BY DEF IInv
<1>2. Window' /\ Walk' /\ Owns' /\ Fences' /\ pass'.pc = "idle" /\ pass'.rest = {}
  BY NoPass
<1>3. TypeOK'
  <2>1. pass' \in [pc : {"idle", "judge", "stops", "loop", "dispatch", "mark"},
                   now : 0 .. now, rest : SUBSET There, stop : There \cup {None},
                   won : BOOLEAN]
    <3>1. 0 \in 0 .. now
      BY <1>1, Numbers
    <3> QED
      BY <3>1 DEF Idle
  <2> QED
    BY <1>1, <2>1 DEF TypeOK, There
<1>4. Stamps' /\ Twins'
  BY <1>1 DEF Stamps, Twins, Known, There
<1>5. Sight'
  BY <1>1, <1>2 DEF Sight, There, Adopted
<1>6. OthersOnce'
  BY <1>1 DEF OthersOnce
<1>7. OpeningOnce'
  BY <1>1, <1>2 DEF OpeningOnce, OneKey, Adopted
<1>8. NothingSkipped'
  BY <1>1 DEF NothingSkipped, Seen, Decided, There
<1> QED
  BY <1>2, <1>3, <1>4, <1>5, <1>6, <1>7, <1>8 DEF IInv

\* OthersOnce, of one activity.
OtherOnce(a) ==
    kind[a] = "prompt" =>
        /\ runs[a] <= 1 + crowded[a]
        /\ runs[a] > crowded[a] => claim[a] = "over" \/ time[a] < now - Retention
        /\ claim[a] = "held" => runs[a] <= crowded[a]

\* The pass goes from one place to the next one without a claim.
Goes ==
    /\ pass.pc \in {"stops", "loop", "dispatch"}
    /\ pass'.pc \in {"loop", "dispatch", "mark"}
    /\ pass'.rest = pass.rest /\ pass'.now = pass.now

LEMMA PassMoves ==
    ASSUME IInv, Goes, pass'.pc \in {"dispatch", "mark"} => pass.rest # {},
           UNCHANGED <<now, kind, time, hook, claim, kept, hooked, twin, crowded, runs, init, mark, past>>
    PROVE  /\ Stamps' /\ Twins' /\ Window' /\ Walk' /\ Sight'
           /\ OthersOnce' /\ OpeningOnce' /\ NothingSkipped'
<1>1. /\ TypeOK /\ Stamps /\ Twins /\ Window /\ Walk /\ Owns /\ Fences /\ Sight
      /\ OthersOnce /\ OpeningOnce /\ NothingSkipped
  BY DEF IInv
<1>2. Stamps' /\ Twins' /\ Window' /\ Walk'
  BY <1>1 DEF Goes, Stamps, Twins, Known, Window, Walk, There, Decided
<1>3. Sight'
  BY <1>1 DEF Goes, Sight, There, Adopted
<1>4. OthersOnce' /\ OpeningOnce'
  BY <1>1 DEF Goes, OthersOnce, OpeningOnce, OneKey, Adopted
<1>5. NothingSkipped'
  BY <1>1 DEF NothingSkipped, Seen, Decided, There
<1> QED
  BY <1>2, <1>3, <1>4, <1>5

\* What is within the window of a pass has not aged out of the claims.
LEMMA InWindow ==
    ASSUME TypeOK, Window, pass.pc # "idle", NEW a \in Activity
    PROVE  /\ a \in pass.rest => ~(time[a] < now - Retention)
           /\ time[a] < now - Retention => time[a] < pass.now - Lookback
           /\ time[a] < pass.now - Lookback => time[a] < now - Lookback
           /\ time[a] < now - Retention => time[a] < now - Lookback
<1>1. /\ Lookback \in Nat /\ Retention \in Nat /\ now \in Nat /\ pass.now \in Nat
      /\ Lookback <= Retention /\ pass.now <= now /\ time[a] \in Nat
  BY Numbers
<1>2. now - pass.now <= Retention - Lookback
  BY DEF Window
<1>3. a \in pass.rest => pass.now - Lookback <= time[a]
  BY DEF Window
<1> QED
  BY <1>1, <1>2, <1>3

LEMMA SkipKeeps ==
    ASSUME IInv, NEW k \in Key, ClaimsMove(k), UNCHANGED <<now, kind, time, mark, past>>
    PROVE  NothingSkipped'
<1>1. TypeOK /\ NothingSkipped
  BY DEF IInv
<1> SUFFICES ASSUME NEW a \in There', (kind[a] = "prompt" /\ Seen(a))'
             PROVE  (Decided(a) \/ a \in past \/ time[a] < now - Lookback)'
  BY DEF NothingSkipped
<1>2. a \in There /\ kind[a] = "prompt" /\ Seen(a) /\ a \in Activity
  BY DEF There, Seen
<1>3. Decided(a) \/ a \in past \/ time[a] < now - Lookback
  BY <1>1, <1>2 DEF NothingSkipped
<1>4. time[a] < now - Retention => time[a] < now - Lookback
  BY <1>1, <1>2, Numbers
<1> QED
  BY <1>1, <1>2, <1>3, <1>4, StaysDecided

LEMMA WalkKeeps ==
    ASSUME IInv, NEW k \in Key, ClaimsMove(k), UNCHANGED <<now, kind, time, past>>,
           pass'.pc # "idle" => pass.pc # "idle",
           pass'.rest = pass.rest, pass'.now = pass.now
    PROVE  Walk'
<1>1. TypeOK /\ Window /\ Walk
  BY DEF IInv
<1> SUFFICES ASSUME pass'.pc # "idle", NEW a \in There' \ pass'.rest, kind'[a] = "prompt"
             PROVE  (\/ Decided(a) \/ a \in past
                     \/ time[a] < pass.now - Lookback \/ time[a] >= pass.now)'
  BY DEF Walk
<1>2. a \in There \ pass.rest /\ kind[a] = "prompt" /\ a \in Activity /\ pass.pc # "idle"
  BY DEF There
<1>3. \/ Decided(a) \/ a \in past
      \/ time[a] < pass.now - Lookback \/ time[a] >= pass.now
  BY <1>1, <1>2 DEF Walk
<1>4. time[a] < now - Retention => time[a] < pass.now - Lookback
  BY <1>1, <1>2, InWindow
<1> QED
  BY <1>1, <1>2, <1>3, <1>4, StaysDecided

\* The pass claims what it has before it.
LEMMA PassClaims ==
    ASSUME IInv, Goes, pass.pc # "dispatch", NEW k \in pass.rest, WriteClaim(k, "pass"),
           UNCHANGED <<now, kind, time, hook, runs, init, mark, past>>
    PROVE  /\ Stamps' /\ Twins' /\ Window' /\ Walk' /\ Sight'
           /\ OthersOnce' /\ OpeningOnce' /\ NothingSkipped'
           /\ ClaimsMove(k) /\ k \in Key /\ k \in There /\ k \in Activity
           /\ fence' = FenceWith(k)
           /\ Claims(k) => claim[k] = "none" /\ claim'[k] = "held"
           /\ ~Claims(k) => claim'[k] = claim[k]
           /\ ~Claims(k) /\ kind[k] = "prompt" => claim'[k] # "none" \/ crowded[k] > 0
           /\ crowded' = crowded
           /\ \A j \in Key : claim[j] = "held" => claim'[j] = "held"
<1>1. /\ TypeOK /\ Stamps /\ Twins /\ Window /\ Walk /\ Owns /\ Fences /\ Sight
      /\ OthersOnce /\ OpeningOnce /\ NothingSkipped
  BY DEF IInv
<1>2. k \in There /\ k \in Activity /\ k \in Key /\ k # Created /\ ActivityOf(k) = k
  BY <1>1, Numbers, KeyFacts
<1>3. /\ ClaimsMove(k) /\ fence' = FenceWith(k)
      /\ Claims(k) => claim'[k] = "held"
      /\ ~Claims(k) => claim'[k] = claim[k] \/ time[k] < now - Retention
      /\ ~Claims(k) /\ kind[k] = "prompt" => StillKnown(k)
      /\ \A j \in Key : claim[j] = "held" => claim'[j] = "held"
      /\ Claims(k) => claim[k] = "none" \/ time[k] < now - Retention
  BY <1>1, <1>2, WriteMoves DEF WriteClaim
<1>4. pass.pc # "idle" /\ ~(time[k] < now - Retention)
  BY <1>1, <1>2, InWindow DEF Goes
<1>5. /\ Claims(k) => claim[k] = "none"
      /\ ~Claims(k) => claim'[k] = claim[k]
      /\ ~Claims(k) /\ kind[k] = "prompt" => claim'[k] # "none" \/ crowded[k] > 0
      /\ crowded' = crowded
  BY <1>2, <1>3, <1>4 DEF StillKnown, ClaimsMove
<1>6. Stamps' /\ Twins'
  BY <1>1, <1>2, <1>3, TwinsKept DEF ClaimsMove, Stamps, There
<1>7. Walk' /\ NothingSkipped'
  BY <1>2, <1>3, <1>4, WalkKeeps, SkipKeeps DEF Goes
<1>8. Window'
  BY <1>1, <1>4 DEF Goes, Window, There
<1>9. \A j \in Key \ {k} :
          \/ claim'[j] = claim[j]
          \/ claim[j] = "over" /\ claim'[j] = "none" /\ time[ActivityOf(j)] < now - Retention
  BY <1>3 DEF ClaimsMove
<1>10. Created \in Key \ {k} /\ (claim[Created] = "none" => claim'[Created] = "none")
  BY <1>2, <1>9, KeyFacts
<1>11. init
  BY <1>1, <1>4 DEF Window, Goes
<1>12. Sight'
  BY <1>1, <1>10, <1>11 DEF Goes, Sight, There, Adopted
<1>13. OthersOnce'
  <2> SUFFICES ASSUME NEW a \in Activity \ {Opening}
               PROVE  OtherOnce(a)'
    BY DEF OthersOnce, OtherOnce
  <2>1. /\ runs[a] \in Nat /\ crowded[a] \in Nat
        /\ OtherOnce(a)
        /\ a \in Key /\ ActivityOf(a) = a
    BY <1>1, KeyFacts DEF OthersOnce, OtherOnce, TypeOK
  <2>2. CASE a = k
    BY <1>3, <1>4, <1>5, <2>1, <2>2 DEF OtherOnce
  <2>3. CASE a # k
    BY <1>5, <1>9, <2>1, <2>3 DEF OtherOnce
  <2> QED
    BY <2>2, <2>3
<1>14. OpeningOnce'
  <2>1. CASE Adopted(Opening)
    BY <2>1 DEF OpeningOnce, Adopted
  <2>2. CASE ~Adopted(Opening)
    <3>1. /\ runs[Opening] <= 1 + crowded[Opening] /\ OneKey
          /\ runs[Opening] \in Nat /\ crowded[Opening] \in Nat
          /\ runs[Opening] > crowded[Opening] =>
                \/ claim[Created] = "over" \/ claim[Opening] = "over"
                \/ time[Opening] < now - Retention
          /\ claim[Opening] = "held" => runs[Opening] <= crowded[Opening]
          /\ Opening \in Key /\ ActivityOf(Opening) = Opening
          /\ ActivityOf(Created) = Opening
      BY <1>1, <2>2, KeyFacts, Numbers DEF OpeningOnce, TypeOK
    <3>2. CASE k = Opening
      <4>1. claim[Created] = "none" /\ time[Opening] <= now - Grace
        BY <1>4, <3>1, <3>2 DEF OneKey, Goes
      <4>2. claim'[Created] = "none"
        BY <1>10, <4>1
      <4>3. runs[Opening] > crowded[Opening] => claim'[Opening] = "over"
        BY <1>3, <1>4, <1>5, <3>1, <3>2, <4>1
      <4>4. claim'[Opening] = "held" => runs[Opening] <= crowded[Opening]
        BY <1>3, <1>4, <1>5, <3>1, <3>2, <4>1
      <4> QED
        BY <1>5, <3>1, <4>1, <4>2, <4>3, <4>4 DEF OpeningOnce, OneKey
    <3>3. CASE k # Opening
      <4>1. /\ claim'[Opening] = claim[Opening] \/ claim'[Opening] = "none"
            /\ claim[Opening] = "over" =>
                  claim'[Opening] = "over" \/ time[Opening] < now - Retention
            /\ claim[Created] = "over" =>
                  claim'[Created] = "over" \/ time[Opening] < now - Retention
        BY <1>9, <1>10, <3>1, <3>3
      <4>2. OneKey'
        BY <1>10, <3>1, <4>1 DEF OneKey, Goes
      <4> QED
        BY <1>5, <3>1, <4>1, <4>2 DEF OpeningOnce
    <3> QED
      BY <3>2, <3>3
  <2> QED
    BY <2>1, <2>2
<1> QED
  BY <1>2, <1>3, <1>5, <1>6, <1>7, <1>8, <1>12, <1>13, <1>14

LEMMA RunFacts ==
    ASSUME TypeOK, NEW k \in Key, NEW s, Run(k, s)
    PROVE  /\ runs' \in [Activity -> Nat]
           /\ \A a \in Activity : a # ActivityOf(k) => runs'[a] = runs[a]
           /\ \/ runs'[ActivityOf(k)] = runs[ActivityOf(k)] /\ runs' = runs
              \/ ~Withdrawn(k, s) /\ kind[ActivityOf(k)] = "prompt" /\ runs'[ActivityOf(k)] = runs[ActivityOf(k)] + 1
<1>1. runs \in [Activity -> Nat] /\ ActivityOf(k) \in Activity
  BY KeyFacts DEF TypeOK
<1> QED
  BY <1>1 DEF Run

\* A claim that was accepted is settled, by the pass or by the recovery.
LEMMA Settles ==
    ASSUME IInv, NEW k \in Key, claim[k] = "held", Settle(k),
           UNCHANGED <<now, kind, time, hook, init, mark, fence, past>>,
           pass'.rest = pass.rest, pass'.now = pass.now,
           pass'.pc # pass.pc => pass.pc = "dispatch" /\ pass'.pc = "mark"
    PROVE  /\ Stamps' /\ Twins' /\ Window' /\ Walk' /\ Sight' /\ Fences'
           /\ OthersOnce' /\ OpeningOnce' /\ NothingSkipped'
           /\ ClaimsMove(k) /\ claim'[k] = "over" /\ k \in Activity
           /\ \A j \in Key \ {k} : claim'[j] = claim[j]
           /\ runs' \in [Activity -> Nat] /\ crowded' = crowded
<1>1. /\ TypeOK /\ Stamps /\ Twins /\ Window /\ Walk /\ Owns /\ Fences /\ Sight
      /\ OthersOnce /\ OpeningOnce /\ NothingSkipped
  BY DEF IInv
<1>2. k \in Activity /\ k # Created /\ ActivityOf(k) = k
  BY <1>1, KeyFacts DEF Stamps
<1>3. ClaimsMove(k) /\ claim'[k] = "over" /\ \A j \in Key \ {k} : claim'[j] = claim[j]
  BY <1>1, SettleMoves
<1>4. Stamps' /\ Twins' /\ crowded' = crowded
  BY <1>1, <1>3, TwinsKept DEF ClaimsMove, Stamps, There
<1>5. Walk' /\ NothingSkipped'
  BY <1>3, WalkKeeps, SkipKeeps
<1>6. Window'
  BY <1>1 DEF Window, There
<1>7. Fences'
  BY <1>1 DEF Fences, AtOrBefore
<1>8. claim'[Created] = claim[Created] /\ (claim[Opening] = "none" => claim'[Opening] = "none")
  <2>1. Created \in Key /\ Opening \in Key
    BY <1>1, KeyFacts, Numbers
  <2> QED
    BY <1>2, <1>3, <2>1
<1>9. Sight'
  BY <1>1, <1>8 DEF Sight, There, Adopted
<1>10. /\ runs' \in [Activity -> Nat]
       /\ \A a \in Activity \ {k} : runs'[a] = runs[a]
       /\ runs'[k] = runs[k] \/ runs'[k] = runs[k] + 1
  BY <1>1, <1>2, RunFacts DEF Settle
<1>11. OthersOnce'
  <2> SUFFICES ASSUME NEW a \in Activity \ {Opening}
               PROVE  OtherOnce(a)'
    BY DEF OthersOnce, OtherOnce
  <2>1. /\ runs[a] \in Nat /\ crowded[a] \in Nat
        /\ OtherOnce(a) /\ a \in Key
    BY <1>1, KeyFacts DEF OthersOnce, OtherOnce, TypeOK
  <2>2. CASE a = k
    BY <1>3, <1>4, <1>10, <2>1, <2>2 DEF OtherOnce
  <2>3. CASE a # k
    BY <1>3, <1>4, <1>10, <2>1, <2>3 DEF OtherOnce
  <2> QED
    BY <2>2, <2>3
<1>12. OpeningOnce'
  <2>1. CASE Adopted(Opening)
    BY <2>1 DEF OpeningOnce, Adopted
  <2>2. CASE ~Adopted(Opening)
    <3>1. /\ runs[Opening] <= 1 + crowded[Opening] /\ OneKey
          /\ runs[Opening] \in Nat /\ crowded[Opening] \in Nat
          /\ runs[Opening] > crowded[Opening] =>
                \/ claim[Created] = "over" \/ claim[Opening] = "over"
                \/ time[Opening] < now - Retention
          /\ claim[Opening] = "held" => runs[Opening] <= crowded[Opening]
          /\ Opening \in Key /\ Opening \in Activity
      BY <1>1, <2>2, KeyFacts, Numbers DEF OpeningOnce, TypeOK
    <3>2. OneKey'
      BY <1>3, <1>8, <3>1 DEF OneKey
    <3>3. CASE k = Opening
      BY <1>3, <1>4, <1>10, <3>1, <3>2, <3>3 DEF OpeningOnce
    <3>4. CASE k # Opening
      <4>1. runs'[Opening] = runs[Opening] /\ claim'[Opening] = claim[Opening]
        BY <1>3, <1>10, <3>1, <3>4
      <4> QED
        BY <1>4, <1>8, <3>1, <3>2, <4>1 DEF OpeningOnce
    <3> QED
      BY <3>3, <3>4
  <2> QED
    BY <2>1, <2>2
<1> QED
  BY <1>2, <1>3, <1>4, <1>5, <1>6, <1>7, <1>9, <1>10, <1>11, <1>12

----------------------------------------------------------------------------
(* One lemma for each action.                                              *)

LEMMA DoneKeeps ==
    ASSUME IInv, Done
    PROVE  IInv'
<1>1. /\ pass' = Idle /\ tasks' = tasks /\ faults' = faults
      /\ UNCHANGED <<now, kind, time, hook, claim, kept, hooked, twin, crowded, runs, init, mark, fence, past>>
  BY DEF Done, receipts
<1>2. tasks \subseteq {k \in Key : claim[k] = "held"} /\ faults \in 0 .. MaxFaults
  BY DEF IInv, TypeOK
<1> QED
  BY <1>1, <1>2, PassEnds

LEMMA FaultCounts ==
    ASSUME TypeOK, Fault
    PROVE  faults' \in 0 .. MaxFaults
  BY ReconcileAssumption DEF TypeOK, Fault

LEMMA FailKeeps ==
    ASSUME IInv, Fail
    PROVE  IInv'
<1>1. /\ pass' = Idle /\ tasks' = tasks /\ Fault
      /\ UNCHANGED <<now, kind, time, hook, claim, kept, hooked, twin, crowded, runs, init, mark, fence, past>>
  BY DEF Fail, receipts
<1>2. tasks \subseteq {k \in Key : claim[k] = "held"} /\ faults' \in 0 .. MaxFaults
  BY <1>1, FaultCounts DEF IInv, TypeOK
<1> QED
  BY <1>1, <1>2, PassEnds

LEMMA CrashKeeps ==
    ASSUME IInv, Crash
    PROVE  IInv'
<1>1. /\ pass' = Idle /\ tasks' = {k \in Key : claim[k] = "held"} /\ Fault
      /\ UNCHANGED <<now, kind, time, hook, claim, kept, hooked, twin, crowded, runs, init, mark, fence, past>>
  BY DEF Crash, Recoverable, receipts
<1>2. faults' \in 0 .. MaxFaults
  BY <1>1, FaultCounts DEF IInv
<1> QED
  BY <1>1, <1>2, PassEnds

\* The claims that go are over; one of a prompt that goes early is counted.
LEMMA PruneKeeps ==
    ASSUME IInv, Prune
    PROVE  IInv'
<1>1. /\ TypeOK /\ Stamps /\ Twins /\ Window /\ Walk /\ Owns /\ Fences /\ Sight
      /\ OthersOnce /\ OpeningOnce /\ NothingSkipped
  BY DEF IInv
<1> DEFINE Lost(gone) == {k \in Key : <<"claim", k>> \in gone}
<1> DEFINE Fresh(lost) == {ActivityOf(k) : k \in {j \in lost : ~Expired(j)}}
<1>2. PICK gone \in SUBSET Terminal :
        /\ claim' = [k \in Key |-> IF k \in Lost(gone) THEN "none" ELSE claim[k]]
        /\ kept' = [k \in Key |-> IF k \in Lost(gone) THEN 0 ELSE kept[k]]
        /\ hooked' = hooked \ Lost(gone)
        /\ twin' = [k \in Key |-> IF <<"twin", k>> \in gone THEN NotYet ELSE twin[k]]
        /\ crowded' = [a \in Activity |-> IF a \in Fresh(Lost(gone)) /\ kind[a] = "prompt"
                                           THEN crowded[a] + 1 ELSE crowded[a]]
  BY DEF Prune
<1> DEFINE lost == Lost(gone)
<1>3. lost \subseteq Key /\ \A k \in lost : claim[k] = "over"
  BY DEF Terminal
<1>4. /\ Fault
      /\ UNCHANGED <<now, kind, time, hook, tasks, runs, init, mark, fence, pass, past>>
  BY DEF Prune
<1>5. /\ claim' = [k \in Key |-> IF k \in lost THEN "none" ELSE claim[k]]
      /\ kept' = [k \in Key |-> IF k \in lost THEN 0 ELSE kept[k]]
      /\ hooked' = hooked \ lost
      /\ crowded' = [a \in Activity |-> IF a \in Fresh(lost) /\ kind[a] = "prompt"
                                         THEN crowded[a] + 1 ELSE crowded[a]]
  BY <1>2
<1> HIDE DEF lost, Lost
<1>6. /\ claim \in [Key -> {"none", "held", "over"}] /\ kept \in [Key -> 0 .. MaxTime]
      /\ twin \in [Key -> 0 .. NotYet] /\ crowded \in [Activity -> Nat]
      /\ hooked \subseteq {k \in Key : claim[k] = "over"}
      /\ 0 \in 0 .. MaxTime /\ NotYet \in 0 .. NotYet
  <2>1. MaxTime \in Nat
    BY <1>1, Numbers
  <2> QED
    BY <1>1, <2>1 DEF TypeOK, NotYet
<1>7. \A k \in Key : \/ k \notin lost /\ claim'[k] = claim[k] /\ kept'[k] = kept[k]
                     \/ k \in lost /\ claim[k] = "over" /\ claim'[k] = "none"
  BY <1>3, <1>5
<1>8. crowded' \in [Activity -> Nat] /\ \A a \in Activity : crowded[a] <= crowded'[a]
  BY <1>5, <1>6
<1>9. ASSUME NEW k \in lost, kind[ActivityOf(k)] = "prompt",
             ~(time[ActivityOf(k)] < now - Retention)
      PROVE  crowded'[ActivityOf(k)] = crowded[ActivityOf(k)] + 1
  <2>1. k \in Key /\ ActivityOf(k) \in Activity /\ ~Expired(k)
    BY <1>1, <1>3, <1>9, KeyFacts, ExpiredIsOld
  <2>2. ActivityOf(k) \in Fresh(lost)
    BY <1>9, <2>1
  <2> QED
    BY <1>5, <1>9, <2>1, <2>2
<1> HIDE DEF Fresh
<1>10. TypeOK'
  <2>1. /\ claim' \in [Key -> {"none", "held", "over"}] /\ kept' \in [Key -> 0 .. MaxTime]
        /\ twin' \in [Key -> 0 .. NotYet]
    BY <1>2, <1>5, <1>6
  <2>2. hooked' \subseteq {k \in Key : claim'[k] = "over"}
    BY <1>5, <1>6, <1>7
  <2>3. tasks \subseteq {k \in Key : claim'[k] = "held"}
    BY <1>1, <1>7 DEF TypeOK
  <2>4. faults' \in 0 .. MaxFaults
    BY <1>1, <1>4, FaultCounts
  <2> QED
    BY <1>1, <1>4, <1>8, <2>1, <2>2, <2>3, <2>4 DEF TypeOK, There
<1>11. ASSUME NEW k \in Key, Known(k), kind[ActivityOf(k)] = "prompt"
       PROVE  Known(k)'
  <2>1. ActivityOf(k) \in Activity /\ crowded[ActivityOf(k)] \in Nat
        /\ crowded'[ActivityOf(k)] \in Nat
        /\ crowded[ActivityOf(k)] <= crowded'[ActivityOf(k)]
    BY <1>6, <1>8, KeyFacts
  <2>2. CASE k \in lost
    BY <1>4, <1>9, <1>11, <2>1, <2>2 DEF Known
  <2>3. CASE k \notin lost
    BY <1>4, <1>7, <1>11, <2>1, <2>3 DEF Known
  <2> QED
    BY <2>2, <2>3
<1>12. Stamps'
  <2>1. Created \in Key
    BY KeyFacts
  <2> QED
    BY <1>1, <1>4, <1>7, <2>1 DEF Stamps, There
<1>13. Twins'
  <2>1. \A k \in Key : twin'[k] # NotYet => twin[k] # NotYet
    BY <1>2, <1>6
  <2> QED
    BY <1>1, <1>4, <1>11, <2>1 DEF Twins, There
<1>14. ASSUME NEW a \in Activity, Decided(a), kind[a] = "prompt",
              ~(time[a] < now - Retention)
       PROVE  Decided(a)'
  <2>1. /\ a \in Key /\ Created \in Key /\ ActivityOf(a) = a /\ ActivityOf(Created) = Opening
        /\ crowded[a] \in Nat /\ crowded'[a] \in Nat /\ crowded[a] <= crowded'[a]
    BY <1>6, <1>8, KeyFacts
  <2>2. CASE claim[a] # "none" \/ crowded[a] > 0
    <3>1. Known(a)
      BY <2>1, <2>2 DEF Known
    <3> QED
      BY <1>4, <1>11, <1>14, <2>1, <3>1 DEF Known, Decided
  <2>3. CASE a = Opening /\ claim[Created] # "none"
    <3>1. Known(Created)
      BY <2>1, <2>3 DEF Known
    <3> QED
      BY <1>4, <1>11, <1>14, <2>1, <2>3, <3>1 DEF Known, Decided
  <2> QED
    BY <1>14, <2>2, <2>3 DEF Decided
<1>15. Window' /\ Fences'
  BY <1>1, <1>4 DEF Window, Fences, AtOrBefore, There
<1>16. Walk'
  <2> SUFFICES ASSUME pass.pc # "idle", NEW a \in There \ pass.rest, kind[a] = "prompt"
               PROVE  \/ Decided(a)' \/ a \in past
                      \/ time[a] < pass.now - Lookback \/ time[a] >= pass.now
    BY <1>4 DEF Walk, There
  <2>1. /\ a \in Activity
        /\ time[a] < now - Retention => time[a] < pass.now - Lookback
    BY <1>1, InWindow, Numbers
  <2> QED
    BY <1>1, <1>14, <2>1 DEF Walk
<1>17. NothingSkipped'
  <2> SUFFICES ASSUME NEW a \in There, kind[a] = "prompt", Seen(a)
               PROVE  Decided(a)' \/ a \in past \/ time[a] < now - Lookback
    BY <1>4 DEF NothingSkipped, Seen, There
  <2>1. a \in Activity /\ (time[a] < now - Retention => time[a] < now - Lookback)
    BY <1>1, Numbers
  <2> QED
    BY <1>1, <1>14, <2>1 DEF NothingSkipped
<1>18. Owns'
  <2>1. \A b : Foremost(b)' <=> Foremost(b)
    BY <1>4 DEF Foremost, AtOrBefore
  <2>2. ASSUME NEW b \in pass.rest
        PROVE  /\ b \in Key
               /\ claim[b] = "held" => claim'[b] = "held"
               /\ pass.pc # "idle" /\ kind[b] = "prompt" =>
                     (claim[b] # "none" \/ crowded[b] > 0 => claim'[b] # "none" \/ crowded'[b] > 0)
    <3>1. /\ b \in Activity /\ b \in Key /\ ActivityOf(b) = b
          /\ pass.pc # "idle" => ~(time[b] < now - Retention)
      BY <1>1, KeyFacts, Numbers, InWindow
    <3> QED
      BY <1>4, <1>7, <1>11, <3>1 DEF Known
  <2> QED
    BY <1>1, <1>4, <2>1, <2>2 DEF Owns
<1>19. Sight'
  <2>1. /\ claim[Opening] = "none" => claim'[Opening] = "none"
        /\ claim[Created] = "none" => claim'[Created] = "none"
    BY <1>1, <1>7, KeyFacts, Numbers
  <2> QED
    BY <1>1, <1>4, <2>1 DEF Sight, Adopted, There
<1>20. OthersOnce'
  <2> SUFFICES ASSUME NEW a \in Activity \ {Opening}, OtherOnce(a)
               PROVE  OtherOnce(a)'
    BY <1>1 DEF OthersOnce, OtherOnce
  <2>1. /\ runs[a] \in Nat /\ crowded[a] \in Nat /\ crowded'[a] \in Nat
        /\ crowded[a] <= crowded'[a] /\ a \in Key /\ ActivityOf(a) = a
    BY <1>1, <1>8, KeyFacts DEF TypeOK
  <2>2. CASE a \in lost
    BY <1>4, <1>7, <1>9, <2>1, <2>2 DEF OtherOnce
  <2>3. CASE a \notin lost
    BY <1>4, <1>7, <2>1, <2>3 DEF OtherOnce
  <2> QED
    BY <2>2, <2>3
<1>21. OpeningOnce'
  <2>1. CASE Adopted(Opening)
    BY <1>4, <2>1 DEF OpeningOnce, Adopted
  <2>2. CASE ~Adopted(Opening)
    <3>1. /\ runs[Opening] <= 1 + crowded[Opening] /\ OneKey
          /\ runs[Opening] > crowded[Opening] =>
                \/ claim[Created] = "over" \/ claim[Opening] = "over"
                \/ time[Opening] < now - Retention
          /\ claim[Opening] = "held" => runs[Opening] <= crowded[Opening]
          /\ Opening \in Key /\ Created \in Key /\ kind[Opening] = "prompt"
          /\ ActivityOf(Opening) = Opening /\ ActivityOf(Created) = Opening
          /\ runs[Opening] \in Nat /\ crowded[Opening] \in Nat /\ crowded'[Opening] \in Nat
          /\ crowded[Opening] <= crowded'[Opening]
      BY <1>1, <1>8, <2>2, KeyFacts, Numbers DEF OpeningOnce, TypeOK
    <3>2. /\ claim[Opening] = "none" => claim'[Opening] = "none"
          /\ claim[Created] = "none" => claim'[Created] = "none"
          /\ claim'[Opening] # "none" => claim'[Opening] = claim[Opening]
      BY <1>7, <3>1
    <3>3. OneKey'
      BY <1>4, <3>1, <3>2 DEF OneKey
    <3>4. CASE Opening \in lost \/ Created \in lost
      <4>1. \/ crowded'[Opening] = crowded[Opening] + 1
            \/ time[Opening] < now - Retention
        BY <1>9, <3>1, <3>4
      <4> QED
        BY <1>4, <3>1, <3>2, <3>3, <4>1 DEF OpeningOnce
    <3>5. CASE Opening \notin lost /\ Created \notin lost
      <4>1. claim'[Opening] = claim[Opening] /\ claim'[Created] = claim[Created]
        BY <1>7, <3>1, <3>5
      <4> QED
        BY <1>4, <3>1, <3>3, <4>1 DEF OpeningOnce
    <3> QED
      BY <3>4, <3>5
  <2> QED
    BY <2>1, <2>2
<1> QED
  BY <1>10, <1>12, <1>13, <1>15, <1>16, <1>17, <1>18, <1>19, <1>20, <1>21 DEF IInv

\* Time passes: what had aged has aged, and a pass that is under way has its bound.
LEMMA TickKeeps ==
    ASSUME IInv, Tick
    PROVE  IInv'
<1>1. /\ TypeOK /\ Stamps /\ Twins /\ Window /\ Walk /\ Owns /\ Fences /\ Sight
      /\ OthersOnce /\ OpeningOnce /\ NothingSkipped
  BY DEF IInv
<1>2. /\ now < MaxTime /\ now' = now + 1
      /\ pass.pc # "idle" => now - pass.now < Retention - Lookback
      /\ UNCHANGED <<kind, time, hook, claim, kept, hooked, twin, crowded, tasks, runs, init, mark, fence, pass,
                     past, faults>>
  BY DEF Tick, receipts
<1>3. /\ now \in Nat /\ MaxTime \in Nat /\ pass.now \in Nat /\ pass.now <= now
      /\ Grace \in Nat /\ Lookback \in Nat /\ Retention \in Nat
      /\ \A a \in Activity : time[a] \in Nat
      /\ There \in SUBSET Activity /\ Opening \in Activity
  BY <1>1, Numbers
<1>4. \A a \in Activity :
          /\ time[a] <= now => time[a] <= now'
          /\ time[a] < now - Lookback => time[a] < now' - Lookback
          /\ time[a] < now - Retention => time[a] < now' - Retention
          /\ time[a] <= now - Grace => time[a] <= now' - Grace
  BY <1>2, <1>3
<1>5. TypeOK'
  <2>1. now' \in 0 .. MaxTime /\ 0 .. now \subseteq 0 .. now'
    BY <1>2, <1>3
  <2>2. pass \in [pc : {"idle", "judge", "stops", "loop", "dispatch", "mark"},
                  now : 0 .. now', rest : SUBSET There, stop : There \cup {None},
                  won : BOOLEAN]
    BY <1>1, <2>1 DEF TypeOK
  <2> QED
    BY <1>1, <1>2, <2>1, <2>2 DEF TypeOK, There
<1>6. Stamps' /\ Twins'
  <2>1. Stamps'
    BY <1>1, <1>2, <1>3, <1>4 DEF Stamps, There
  <2>2. Twins'
    BY <1>1, <1>2, <1>4, KeyFacts DEF Twins, Known, There
  <2> QED
    BY <2>1, <2>2
<1>7. Window'
  <2>1. pass.pc # "idle" => now' - pass.now <= Retention - Lookback
    BY <1>2, <1>3
  <2> QED
    BY <1>1, <1>2, <2>1 DEF Window, There
<1>8. Walk' /\ Owns' /\ Fences'
  BY <1>1, <1>2 DEF Walk, Owns, Fences, Foremost, AtOrBefore, There, Decided
<1>9. Sight'
  BY <1>1, <1>2, <1>3, <1>4 DEF Sight, Adopted, There
<1>10. OthersOnce'
  BY <1>1, <1>2, <1>4 DEF OthersOnce
<1>11. OpeningOnce'
  BY <1>1, <1>2, <1>3, <1>4 DEF OpeningOnce, OneKey, Adopted
<1>12. NothingSkipped'
  BY <1>1, <1>2, <1>3, <1>4 DEF NothingSkipped, Seen, Decided, There
<1> QED
  BY <1>5, <1>6, <1>7, <1>8, <1>9, <1>10, <1>11, <1>12 DEF IInv

\* Linear creates an activity, which is newer than all that there is.
LEMMA CreateKeeps ==
    ASSUME IInv, NEW a \in Activity, Create(a)
    PROVE  IInv'
<1>1. /\ TypeOK /\ Stamps /\ Twins /\ Window /\ Walk /\ Owns /\ Fences /\ Sight
      /\ OthersOnce /\ OpeningOnce /\ NothingSkipped
  BY DEF IInv
<1>2. /\ time[a] = NotYet /\ now < MaxTime /\ (a # Opening => Opening \in There)
      /\ time' = [time EXCEPT ![a] = now]
      /\ UNCHANGED <<now, claim, kept, hooked, twin, crowded, tasks, runs, init, mark, fence, pass, past, faults>>
  BY DEF Create, receipts
<1>3. PICK kd \in IF a = Opening THEN {"prompt"} ELSE {"prompt", "stop", "output"} :
         /\ kind' = [kind EXCEPT ![a] = kd]
         /\ hook' = [hook EXCEPT ![a] = IF kd = "output" THEN "none" ELSE "sent"]
  BY DEF Create, receipts
<1>4. /\ now \in Nat /\ MaxTime \in Nat /\ pass.now \in Nat /\ pass.now <= now
      /\ Grace \in Nat /\ Lookback \in Nat /\ Retention \in Nat /\ NotYet \in Nat
      /\ now < NotYet /\ \A b \in Activity : time[b] \in Nat
      /\ There \in SUBSET Activity /\ Opening \in Activity
      /\ past \in SUBSET There /\ pass.rest \in SUBSET There
      /\ None \notin Activity
  BY <1>1, <1>2, Numbers DEF NotYet
<1>5. /\ a \notin There /\ There' = There \cup {a} /\ time'[a] = now
      /\ \A b \in Activity \ {a} : /\ time'[b] = time[b] /\ kind'[b] = kind[b]
                                   /\ hook'[b] = hook[b]
      /\ kind' \in [Activity -> {"prompt", "stop", "output"}]
      /\ hook' \in [Activity -> {"none", "sent"}]
      /\ time' \in [Activity -> 0 .. NotYet]
      /\ kind'[Opening] = "prompt"
  <2>1. /\ kind \in [Activity -> {"prompt", "stop", "output"}]
        /\ hook \in [Activity -> {"none", "sent"}]
        /\ time \in [Activity -> 0 .. NotYet] /\ kind[Opening] = "prompt"
    BY <1>1 DEF TypeOK
  <2>2. /\ time'[a] = now /\ \A b \in Activity \ {a} : time'[b] = time[b]
        /\ a \notin There /\ now # NotYet
    BY <1>2, <1>4, <2>1 DEF There
  <2>3. There' = There \cup {a}
    BY <1>4, <2>2 DEF There
  <2>4. now \in 0 .. NotYet
    BY <1>4
  <2>5. time' \in [Activity -> 0 .. NotYet]
    BY <1>2, <2>1, <2>4
  <2>6. /\ kd \in {"prompt", "stop", "output"} /\ kind'[a] = kd
        /\ a = Opening => kd = "prompt"
    BY <1>3, <2>1
  <2> QED
    BY <1>3, <1>4, <2>1, <2>2, <2>3, <2>5, <2>6
<1>6. \A b \in There : time'[b] = time[b] /\ kind'[b] = kind[b] /\ b \in Activity /\ b # a
  BY <1>4, <1>5
<1>7. \A k \in Key : claim[k] # "none" => ActivityOf(k) \in There /\ ActivityOf(k) # a
  BY <1>1, <1>5 DEF Stamps
<1>8. ~(time[a] < now - Retention) /\ runs[a] \in Nat
  BY <1>1, <1>2, <1>4 DEF TypeOK
<1>9. mark \in There \cup {None} /\ (mark # None => mark \in There)
  BY <1>1 DEF TypeOK
<1>10. a = Opening => ~init /\ pass.pc = "idle"
  BY <1>1, <1>5 DEF Sight, Window
<1>11. TypeOK'
  <2>1. pass \in [pc : {"idle", "judge", "stops", "loop", "dispatch", "mark"},
                  now : 0 .. now, rest : SUBSET There', stop : There' \cup {None},
                  won : BOOLEAN]
    BY <1>1, <1>5 DEF TypeOK
  <2>2. /\ mark \in There' \cup {None} /\ fence \in There' \cup {None}
        /\ past \subseteq There'
    BY <1>1, <1>5 DEF TypeOK
  <2>3. \A b \in Activity \ There' : kind'[b] = "prompt"
    BY <1>1, <1>5 DEF TypeOK
  <2> QED
    BY <1>1, <1>2, <1>5, <2>1, <2>2, <2>3 DEF TypeOK
<1>12. Stamps' /\ Twins'
  <2>1. \A b \in There' : time'[b] <= now
    BY <1>1, <1>4, <1>5, <1>6 DEF Stamps
  <2>2. \A b \in Activity : hook'[b] = "sent" => b \in There'
    BY <1>1, <1>5 DEF Stamps
  <2>3. Stamps'
    BY <1>1, <1>2, <1>5, <1>6, <1>7, <2>1, <2>2 DEF Stamps
  <2>4. Twins'
    BY <1>1, <1>2, <1>5, <1>6, KeyFacts DEF Twins, Known
  <2> QED
    BY <2>3, <2>4
<1>13. Window'
  BY <1>1, <1>2, <1>4, <1>5, <1>6 DEF Window
<1>14. Walk'
  <2> SUFFICES ASSUME pass.pc # "idle", NEW b \in There' \ pass.rest, kind'[b] = "prompt"
               PROVE  (\/ Decided(b) \/ b \in past
                       \/ time[b] < pass.now - Lookback \/ time[b] >= pass.now)'
    BY <1>2 DEF Walk
  <2>1. CASE b = a
    BY <1>2, <1>4, <1>5, <2>1
  <2>2. CASE b # a
    <3>1. /\ b \in There \ pass.rest /\ kind[b] = "prompt" /\ time'[b] = time[b]
      BY <1>5, <1>6, <2>2
    <3>2. \/ Decided(b) \/ b \in past
          \/ time[b] < pass.now - Lookback \/ time[b] >= pass.now
      BY <1>1, <3>1 DEF Walk
    <3> QED
      BY <1>2, <3>1, <3>2 DEF Decided
  <2> QED
    BY <2>1, <2>2
<1>15. \A b, c \in There : AtOrBefore(b, c)' <=> AtOrBefore(b, c)
  BY <1>6 DEF AtOrBefore
<1>16. \A b : Foremost(b)' <=> Foremost(b)
  BY <1>2, <1>4, <1>15 DEF Foremost
<1>17. Owns'
  BY <1>1, <1>2, <1>4, <1>6, <1>16 DEF Owns
<1>18. Fences'
  <2>1. fence \in There \cup {None}
    BY <1>1 DEF TypeOK
  <2> QED
    BY <1>1, <1>2, <1>4, <1>6, <1>15, <2>1 DEF Fences
<1>19. \A b : Adopted(b)' <=> Adopted(b)
  BY <1>2, <1>4, <1>6 DEF Adopted
<1>20. Sight'
  <2>1. /\ \A b \in past : mark # None /\ time'[b] <= time'[mark]
    BY <1>1, <1>4, <1>6, <1>9 DEF Sight
  <2>2. a # Opening => time'[Opening] = time[Opening]
    BY <1>4, <1>5
  <2>3. /\ ~init => mark = None /\ past = {} /\ claim[Opening] = "none"
        /\ pass.pc \notin {"idle", "judge"} =>
              \A b \in pass.rest : b \in past => Adopted(b)'
    BY <1>1, <1>19 DEF Sight
  <2>4. pass.pc = "judge" => Opening \in pass.rest \/ time'[Opening] < pass.now - Lookback
    BY <1>1, <1>10, <2>2 DEF Sight
  <2>5. init => /\ Opening \in There'
                /\ \/ Opening \in past \/ time'[Opening] < now - Lookback
                   \/ claim[Created] = "none" /\ time'[Opening] <= now - Grace
    BY <1>1, <1>5, <1>10, <2>2 DEF Sight
  <2> QED
    BY <1>2, <2>1, <2>3, <2>4, <2>5 DEF Sight
<1>21. OthersOnce'
  <2> SUFFICES ASSUME NEW b \in Activity \ {Opening}
               PROVE  OtherOnce(b)'
    BY DEF OthersOnce, OtherOnce
  <2>1. OtherOnce(b) /\ b \in Key /\ ActivityOf(b) = b
    BY <1>1, KeyFacts DEF OthersOnce, OtherOnce
  <2>2. CASE b = a
    <3>1. claim[b] = "none" /\ runs[b] <= crowded[b] /\ crowded[b] \in Nat
      BY <1>1, <1>5, <1>7, <1>8, <2>1, <2>2 DEF OtherOnce, TypeOK
    <3> QED
      BY <1>2, <1>8, <2>2, <3>1 DEF OtherOnce
  <2>3. CASE b # a
    BY <1>2, <1>5, <2>1, <2>3 DEF OtherOnce
  <2> QED
    BY <2>2, <2>3
<1>22. OpeningOnce'
  <2>1. CASE Adopted(Opening)
    BY <1>19, <2>1 DEF OpeningOnce
  <2>2. CASE ~Adopted(Opening)
    <3>1. /\ runs[Opening] <= 1 + crowded[Opening] /\ OneKey
          /\ runs[Opening] \in Nat /\ crowded[Opening] \in Nat
          /\ runs[Opening] > crowded[Opening] =>
                \/ claim[Created] = "over" \/ claim[Opening] = "over"
                \/ time[Opening] < now - Retention
          /\ claim[Opening] = "held" => runs[Opening] <= crowded[Opening]
          /\ Opening \in Key /\ Created \in Key
          /\ ActivityOf(Opening) = Opening /\ ActivityOf(Created) = Opening
      BY <1>1, <1>4, <2>2, KeyFacts DEF OpeningOnce, TypeOK
    <3>2. CASE a = Opening
      <4>1. /\ claim[Opening] = "none" /\ claim[Created] = "none"
            /\ runs[Opening] <= crowded[Opening]
        BY <1>7, <1>8, <3>1, <3>2
      <4>2. OneKey'
        BY <1>2, <1>10, <3>2, <4>1 DEF OneKey
      <4> QED
        BY <1>2, <3>1, <4>1, <4>2 DEF OpeningOnce
    <3>3. CASE a # Opening
      <4>1. time'[Opening] = time[Opening]
        BY <1>4, <1>5, <3>3
      <4>2. OneKey'
        BY <1>2, <3>1, <4>1 DEF OneKey
      <4> QED
        BY <1>2, <3>1, <4>1, <4>2 DEF OpeningOnce
    <3> QED
      BY <3>2, <3>3
  <2> QED
    BY <2>1, <2>2
<1>23. NothingSkipped'
  <2> SUFFICES ASSUME NEW b \in There', (kind[b] = "prompt" /\ Seen(b))'
               PROVE  (Decided(b) \/ b \in past \/ time[b] < now - Lookback)'
    BY DEF NothingSkipped
  <2>1. mark \in There /\ time'[mark] = time[mark] /\ time[mark] <= now
    BY <1>1, <1>2, <1>6, <1>9 DEF Seen, Stamps
  <2>2. b # a
    BY <1>2, <1>4, <1>5, <2>1 DEF Seen
  <2>3. b \in There /\ kind[b] = "prompt" /\ time'[b] = time[b] /\ Seen(b)
    BY <1>2, <1>5, <1>6, <2>1, <2>2 DEF Seen
  <2> QED
    BY <1>1, <1>2, <2>3 DEF NothingSkipped, Decided
<1> QED
  BY <1>11, <1>12, <1>13, <1>14, <1>17, <1>18, <1>20, <1>21, <1>22, <1>23 DEF IInv

\* What a pass reads is what the look-back holds and the watermark has not passed.
LEMMA ReadKeeps ==
    ASSUME IInv, Read
    PROVE  IInv'
<1>1. /\ TypeOK /\ Stamps /\ Twins /\ Window /\ Walk /\ Owns /\ Fences /\ Sight
      /\ OthersOnce /\ OpeningOnce /\ NothingSkipped
  BY DEF IInv
<1>2. /\ pass.pc = "idle" /\ Opening \in There
      /\ pass' = [pc |-> IF init THEN "stops" ELSE "judge", now |-> now, won |-> FALSE,
                  rest |-> Snapshot, stop |-> None]
      /\ UNCHANGED <<now, kind, time, hook, claim, kept, hooked, twin, crowded, tasks, runs, init, mark, fence,
                     past, faults>>
  BY DEF Read, receipts
<1>3. /\ now \in Nat /\ Lookback \in Nat /\ Retention \in Nat /\ Lookback <= Retention
      /\ \A a \in Activity : time[a] \in Nat
      /\ There \in SUBSET Activity /\ Opening \in Activity
      /\ past \in SUBSET There /\ None \notin Activity
  BY <1>1, Numbers
<1>4. /\ Snapshot \in SUBSET There
      /\ \A a \in Snapshot : now - Lookback <= time[a] /\ ~Seen(a)
      /\ \A a \in There \ Snapshot : time[a] < now - Lookback \/ Seen(a)
  BY <1>3 DEF Snapshot
<1>5. /\ pass'.pc = (IF init THEN "stops" ELSE "judge") /\ pass'.now = now
      /\ pass'.won = FALSE /\ pass'.rest = Snapshot /\ pass'.stop = None
  BY <1>2
<1>6. init \in BOOLEAN /\ mark \in There \cup {None}
  BY <1>1 DEF TypeOK
<1>7. (pass'.pc = "judge" /\ ~init) \/ (pass'.pc = "stops" /\ init)
  <2>1. CASE init
    BY <1>5, <2>1
  <2>2. CASE ~init
    BY <1>5, <2>2
  <2> QED
    BY <2>1, <2>2
<1>8. TypeOK'
  <2>1. pass' \in [pc : {"idle", "judge", "stops", "loop", "dispatch", "mark"},
                   now : 0 .. now, rest : SUBSET There, stop : There \cup {None},
                   won : BOOLEAN]
    <3>1. now \in 0 .. now /\ (IF init THEN "stops" ELSE "judge") \in {"stops", "judge"}
      BY <1>3
    <3> HIDE DEF Snapshot
    <3> QED
      BY <1>2, <1>4, <3>1
  <2> QED
    BY <1>1, <1>2, <2>1 DEF TypeOK, There
<1>9. Stamps' /\ Twins' /\ OthersOnce' /\ NothingSkipped'
  BY <1>1, <1>2 DEF Stamps, Twins, Known, OthersOnce, NothingSkipped, Seen, Decided, There
<1>10. Window'
  <2>1. now - now <= Retention - Lookback
    BY <1>3
  <2> QED
    BY <1>1, <1>2, <1>4, <1>5, <1>7, <2>1 DEF Window, Stamps, There
<1>11. Walk'
  BY <1>1, <1>2, <1>3, <1>4, <1>5 DEF Walk, NothingSkipped, Decided, There
<1>12. Owns' /\ Fences'
  BY <1>3, <1>4, <1>5, <1>7 DEF Owns, Fences
<1>13. \A a \in Snapshot : a \in past => Adopted(a)
  <2> SUFFICES ASSUME NEW a \in Snapshot, a \in past, NEW b \in past
               PROVE  time[b] <= time[a]
    BY DEF Adopted
  <2>1. mark \in There /\ time[b] <= time[mark] /\ ~(time[a] < time[mark])
    BY <1>1, <1>4, <1>6 DEF Sight, Seen
  <2> QED
    BY <1>3, <2>1
<1>14. Sight'
  <2>1. pass'.pc \notin {"idle", "judge"} =>
          \A a \in Snapshot : a \in past => Adopted(a)'
    BY <1>2, <1>13 DEF Adopted
  <2>2. pass'.pc = "judge" => Opening \in Snapshot \/ time[Opening] < now - Lookback
    BY <1>1, <1>2, <1>4, <1>7 DEF Sight, Seen
  <2> QED
    BY <1>1, <1>2, <1>5, <2>1, <2>2 DEF Sight, There
<1>15. OpeningOnce'
  <2>1. CASE Adopted(Opening)
    BY <1>2, <2>1 DEF OpeningOnce, Adopted
  <2>2. CASE ~Adopted(Opening)
    <3>1. pass'.pc \notin {"idle", "judge"} /\ Opening \in Snapshot =>
            claim[Created] = "none" /\ time[Opening] <= now - Grace
      BY <1>1, <1>3, <1>4, <1>7, <1>13, <2>2 DEF Sight
    <3>2. OneKey'
      BY <1>1, <1>2, <1>5, <2>2, <3>1 DEF OpeningOnce, OneKey
    <3> QED
      BY <1>1, <1>2, <2>2, <3>2 DEF OpeningOnce
  <2> QED
    BY <2>1, <2>2
<1> QED
  BY <1>8, <1>9, <1>10, <1>11, <1>12, <1>14, <1>15 DEF IInv

\* The first sight takes what it has read as history, with a watermark there.
LEMMA AdoptKeeps ==
    ASSUME IInv, pass.pc = "judge", init' = TRUE, pass' = Idle, past' = pass.rest,
           mark' = IF pass.rest = {} THEN None ELSE Last(pass.rest),
           UNCHANGED <<now, kind, time, hook, claim, kept, hooked, twin, crowded, tasks, runs, fence, faults>>
    PROVE  IInv'
<1>1. /\ TypeOK /\ Stamps /\ Twins /\ Window /\ Walk /\ Owns /\ Fences /\ Sight
      /\ OthersOnce /\ OpeningOnce /\ NothingSkipped
  BY DEF IInv
<1>2. Window' /\ Walk' /\ Owns' /\ Fences' /\ pass'.pc = "idle" /\ pass'.rest = {}
  BY NoPass
<1>3. /\ now \in Nat /\ Lookback \in Nat /\ pass.now \in Nat /\ pass.now <= now
      /\ \A a \in Activity : time[a] \in Nat
      /\ There \in SUBSET Activity /\ Opening \in Activity
      /\ pass.rest \in SUBSET There /\ None \notin Activity
  BY <1>1, Numbers
<1>4. /\ Opening \in There /\ ~init /\ past = {} /\ claim[Opening] = "none"
      /\ \A a \in pass.rest : time[a] <= pass.now
      /\ Opening \in pass.rest \/ time[Opening] < pass.now - Lookback
  BY <1>1 DEF Window, Sight
<1>5. mark' \in There \cup {None}
      /\ \A a \in pass.rest : mark' \in pass.rest /\ time[a] <= time[mark']
  <2>1. CASE pass.rest = {}
    BY <2>1
  <2>2. CASE pass.rest # {}
    <3>1. /\ pass.rest \in SUBSET Activity
          /\ mark' \in pass.rest /\ \A a \in pass.rest : AtOrBefore(a, mark')
      BY <1>1, <1>3, <2>2, LastOf
    <3>2. \A a \in pass.rest : time[a] <= time[mark']
      BY <1>1, <3>1, Order
    <3> QED
      BY <1>3, <3>1, <3>2
  <2> QED
    BY <2>1, <2>2
<1>6. mark' # None => mark' \in pass.rest
  BY <1>5
<1>7. TypeOK'
  <2>1. pass' \in [pc : {"idle", "judge", "stops", "loop", "dispatch", "mark"},
                   now : 0 .. now, rest : SUBSET There, stop : There \cup {None},
                   won : BOOLEAN]
    <3>1. 0 \in 0 .. now
      BY <1>3
    <3> QED
      BY <3>1 DEF Idle
  <2> QED
    BY <1>1, <1>3, <1>5, <2>1 DEF TypeOK, There
<1>8. Stamps' /\ Twins' /\ OthersOnce'
  BY <1>1 DEF Stamps, Twins, Known, OthersOnce, There
<1>9. Sight'
  <2>1. Opening \in pass.rest \/ time[Opening] < now - Lookback
    BY <1>3, <1>4
  <2> QED
    BY <1>2, <1>3, <1>4, <1>5, <2>1 DEF Sight, There
<1>10. OpeningOnce'
  <2>1. ~Adopted(Opening)
    BY <1>4 DEF Adopted
  <2>2. OneKey'
    BY <1>2, <1>4 DEF OneKey
  <2> QED
    BY <1>1, <2>1, <2>2 DEF OpeningOnce
<1>11. NothingSkipped'
  <2> SUFFICES ASSUME NEW a \in There', (kind[a] = "prompt" /\ Seen(a))', a \notin past'
               PROVE  (Decided(a) \/ time[a] < now - Lookback)'
    BY DEF NothingSkipped
  <2>1. /\ a \in There \ pass.rest /\ kind[a] = "prompt"
        /\ mark' # None /\ (time[a] < time[mark'] \/ a = mark')
    BY DEF There, Seen
  <2>2. mark' \in pass.rest /\ time[a] < time[mark']
    BY <1>6, <2>1
  <2>3. \/ Decided(a) \/ time[a] < pass.now - Lookback \/ time[a] >= pass.now
    BY <1>1, <1>4, <2>1 DEF Walk
  <2>4. ~(time[a] >= pass.now)
    BY <1>3, <1>4, <2>1, <2>2
  <2>5. time[a] < pass.now - Lookback => time[a] < now - Lookback
    BY <1>3, <2>1
  <2> QED
    BY <2>3, <2>4, <2>5 DEF Decided
<1> QED
  BY <1>2, <1>7, <1>8, <1>9, <1>10, <1>11 DEF IInv

\* The created webhook was lost: what it would have claimed can no longer come.
LEMMA LostKeeps ==
    ASSUME IInv, pass.pc = "judge", Watched, ~Young, claim[Created] = "none",
           init' = TRUE, pass' = [pass EXCEPT !.pc = "stops"],
           UNCHANGED <<mark, past>>,
           UNCHANGED <<now, kind, time, hook, claim, kept, hooked, twin, crowded, tasks, runs, fence, faults>>
    PROVE  IInv'
<1>1. /\ TypeOK /\ Stamps /\ Twins /\ Window /\ Walk /\ Owns /\ Fences /\ Sight
      /\ OthersOnce /\ OpeningOnce /\ NothingSkipped
  BY DEF IInv
<1>2. /\ pass'.pc = "stops" /\ pass'.now = pass.now /\ pass'.rest = pass.rest
      /\ pass'.stop = pass.stop /\ pass'.won = pass.won
      /\ pass' \in [pc : {"idle", "judge", "stops", "loop", "dispatch", "mark"},
                    now : 0 .. now, rest : SUBSET There, stop : There \cup {None},
                    won : BOOLEAN]
  BY <1>1 DEF TypeOK
<1>3. /\ now \in Nat /\ pass.now \in Nat /\ pass.now <= now /\ Grace \in Nat
      /\ time[Opening] \in Nat
  BY <1>1, Numbers
<1>4. /\ Opening \in There /\ ~init /\ past = {} /\ mark = None
  BY <1>1 DEF Window, Sight
<1>5. time[Opening] <= now - Grace
  BY <1>3 DEF Young
<1>6. TypeOK'
  BY <1>1, <1>2 DEF TypeOK, There
<1>7. Stamps' /\ Twins' /\ OthersOnce'
  BY <1>1 DEF Stamps, Twins, Known, OthersOnce, There
<1>8. Window' /\ Walk'
  BY <1>1, <1>2 DEF Window, Walk, There, Decided
<1>9. Owns' /\ Fences'
  BY <1>1, <1>2 DEF Owns, Fences
<1>10. Sight'
  BY <1>2, <1>4, <1>5 DEF Sight, There
<1>11. OpeningOnce'
  <2>1. ~Adopted(Opening)
    BY <1>4 DEF Adopted
  <2>2. OneKey'
    BY <1>5 DEF OneKey
  <2> QED
    BY <1>1, <2>1, <2>2 DEF OpeningOnce
<1>12. NothingSkipped'
  BY <1>4 DEF NothingSkipped, Seen
<1> QED
  BY <1>6, <1>7, <1>8, <1>9, <1>10, <1>11, <1>12 DEF IInv

LEMMA JudgeKeeps ==
    ASSUME IInv, Judge
    PROVE  IInv'
<1>1. UNCHANGED <<now, kind, time, hook, claim, kept, hooked, twin, crowded, tasks, runs, fence, faults>>
      /\ pass.pc = "judge"
  BY DEF Judge, receipts
<1>2. CASE Young /\ pass' = Idle /\ UNCHANGED <<init, mark, past>>
  <2>1. tasks \subseteq {k \in Key : claim[k] = "held"} /\ faults \in 0 .. MaxFaults
    BY DEF IInv, TypeOK
  <2> QED
    BY <1>1, <1>2, <2>1, PassEnds
<1>3. CASE /\ ~Watched \/ (~Young /\ claim[Created] # "none")
           /\ init' = TRUE
           /\ mark' = IF pass.rest = {} THEN None ELSE Last(pass.rest)
           /\ past' = pass.rest
           /\ pass' = Idle
  BY <1>1, <1>3, AdoptKeeps
<1>4. CASE /\ Watched /\ ~Young /\ claim[Created] = "none"
           /\ init' = TRUE
           /\ pass' = [pass EXCEPT !.pc = "stops"]
           /\ UNCHANGED <<mark, past>>
  BY <1>1, <1>4, LostKeeps
<1> QED
  BY <1>2, <1>3, <1>4 DEF Judge

\* The newest stop of what is before the pass, which its fence does not fall behind.
LEMMA ClaimNewestStopKeeps ==
    ASSUME IInv, ClaimNewestStop
    PROVE  IInv'
<1>1. /\ TypeOK /\ Stamps /\ Twins /\ Window /\ Walk /\ Owns /\ Fences /\ Sight
      /\ OthersOnce /\ OpeningOnce /\ NothingSkipped
  BY DEF IInv
<1> DEFINE stops == {a \in pass.rest : kind[a] = "stop"}
<1>2. /\ pass.pc = "stops"
      /\ pass' = [pass EXCEPT !.pc = "loop", !.stop = NewestStop,
                              !.won = NewestStop # None /\ Claims(NewestStop)]
      /\ NewestStop = None => UNCHANGED <<claim, kept, hooked, twin, crowded, fence>>
      /\ NewestStop # None => WriteClaim(NewestStop, "pass")
      /\ UNCHANGED <<now, kind, time, hook, tasks, runs, init, mark, past, faults>>
  BY DEF ClaimNewestStop, receipts
<1>3. /\ pass.rest \in SUBSET There /\ There \in SUBSET Activity /\ None \notin Activity
      /\ tasks \subseteq {k \in Key : claim[k] = "held"}
      /\ fence \in There \cup {None}
  BY <1>1, Numbers DEF TypeOK
<1>4. /\ NewestStop = None => stops = {}
      /\ NewestStop # None =>
            /\ NewestStop \in pass.rest /\ kind[NewestStop] = "stop"
            /\ \A s \in stops : AtOrBefore(s, NewestStop)
  <2>1. stops # {} => Last(stops) \in stops /\ \A s \in stops : AtOrBefore(s, Last(stops))
    BY <1>1, <1>3, LastOf
  <2> QED
    BY <1>3, <2>1 DEF NewestStop
<1>5. /\ pass'.pc = "loop" /\ pass'.now = pass.now /\ pass'.rest = pass.rest
      /\ pass'.stop = NewestStop /\ (pass'.won <=> NewestStop # None /\ Claims(NewestStop))
      /\ pass' \in [pc : {"idle", "judge", "stops", "loop", "dispatch", "mark"},
                    now : 0 .. now, rest : SUBSET There, stop : There \cup {None},
                    won : BOOLEAN]
  <2>1. NewestStop \in There \cup {None}
    BY <1>3, <1>4
  <2>2. (NewestStop # None /\ Claims(NewestStop)) \in BOOLEAN
    OBVIOUS
  <2>3. pass \in [pc : {"idle", "judge", "stops", "loop", "dispatch", "mark"},
                  now : 0 .. now, rest : SUBSET There, stop : There \cup {None},
                  won : BOOLEAN]
    BY <1>1 DEF TypeOK
  <2> QED
    BY <1>2, <2>1, <2>2, <2>3
<1>6. Goes
  BY <1>2, <1>5 DEF Goes
<1>7. CASE NewestStop = None
  <2>1. /\ Stamps' /\ Twins' /\ Window' /\ Walk' /\ Sight'
        /\ OthersOnce' /\ OpeningOnce' /\ NothingSkipped'
    BY <1>2, <1>5, <1>6, <1>7, PassMoves
  <2>2. TypeOK'
    BY <1>1, <1>2, <1>5, <1>7 DEF TypeOK, There
  <2>3. Owns' /\ Fences'
    BY <1>2, <1>3, <1>4, <1>5, <1>7 DEF Owns, Fences
  <2> QED
    BY <2>1, <2>2, <2>3 DEF IInv
<1>8. CASE NewestStop # None
  <2>1. /\ Stamps' /\ Twins' /\ Window' /\ Walk' /\ Sight'
        /\ OthersOnce' /\ OpeningOnce' /\ NothingSkipped'
        /\ ClaimsMove(NewestStop) /\ NewestStop \in Key /\ NewestStop \in There
        /\ NewestStop \in Activity
        /\ fence' = FenceWith(NewestStop)
        /\ Claims(NewestStop) => claim[NewestStop] = "none" /\ claim'[NewestStop] = "held"
        /\ \A j \in Key : claim[j] = "held" => claim'[j] = "held"
    BY <1>2, <1>4, <1>6, <1>8, PassClaims
  <2>2. /\ NewestStop # Created
        /\ fence' \in There \cup {None}
        /\ fence' # None /\ AtOrBefore(NewestStop, fence')
    BY <1>1, <1>4, <1>8, <2>1, FenceMoves, Numbers
  <2>3. TypeOK'
    <3>1. tasks \subseteq {k \in Key : claim'[k] = "held"}
      BY <1>3, <2>1
    <3> QED
      BY <1>1, <1>2, <1>5, <2>1, <2>2, <3>1 DEF TypeOK, There, ClaimsMove
  <2>4. Owns'
    <3>1. pass'.won => claim'[NewestStop] = "held" /\ NewestStop \notin tasks
      BY <1>3, <1>5, <2>1
    <3> QED
      BY <1>2, <1>4, <1>5, <1>8, <3>1 DEF Owns
  <2>5. Fences'
    <3> SUFFICES ASSUME NEW s \in pass.rest, kind[s] = "stop"
                 PROVE  AtOrBefore(s, fence')
      BY <1>2, <1>5, <2>2 DEF Fences, AtOrBefore
    <3>1. s \in stops /\ AtOrBefore(s, NewestStop)
      BY <1>4, <1>8
    <3>2. s \in Activity /\ fence' \in Activity
      BY <1>3, <2>2
    <3> QED
      BY <1>1, <2>1, <2>2, <3>1, <3>2, Order
  <2> QED
    BY <2>1, <2>3, <2>4, <2>5 DEF IInv
<1> QED
  BY <1>7, <1>8

\* The pass comes to its next activity and claims it, unless it has been claimed.
LEMMA TakeKeeps ==
    ASSUME IInv, Take
    PROVE  IInv'
<1>1. /\ TypeOK /\ Stamps /\ Twins /\ Window /\ Walk /\ Owns /\ Fences /\ Sight
      /\ OthersOnce /\ OpeningOnce /\ NothingSkipped
  BY DEF IInv
<1> DEFINE a == First(pass.rest)
<1>2. /\ pass.pc = "loop" /\ pass.rest # {}
      /\ UNCHANGED <<now, kind, time, hook, tasks, runs, init, mark, past, faults>>
  BY DEF Take
<1>3. /\ pass.rest \in SUBSET There /\ There \in SUBSET Activity
      /\ tasks \subseteq {j \in Key : claim[j] = "held"}
      /\ fence \in There \cup {None} /\ mark \in There \cup {None}
      /\ None \notin Activity
      /\ pass \in [pc : {"idle", "judge", "stops", "loop", "dispatch", "mark"},
                   now : 0 .. now, rest : SUBSET There, stop : There \cup {None},
                   won : BOOLEAN]
  BY <1>1, Numbers DEF TypeOK
<1>4. /\ a \in pass.rest /\ a \in There /\ a \in Activity
      /\ Foremost(a) /\ \A b \in pass.rest : Foremost(b) => b = a
  BY <1>1, <1>2, ForemostIs
<1>5. /\ pass.won /\ pass.stop \in pass.rest =>
            claim[pass.stop] = "held" /\ pass.stop \notin tasks
      /\ pass.stop \in pass.rest => kind[pass.stop] = "stop"
      /\ \A s \in pass.rest : kind[s] = "stop" => fence # None /\ AtOrBefore(s, fence)
  BY <1>1, <1>2 DEF Owns, Fences
<1>6. \A b : pass'.rest = pass.rest /\ Foremost(b)' => Foremost(b)
  BY <1>2 DEF Foremost, AtOrBefore
<1> HIDE DEF a
<1>7. CASE ~Human(a) \/ a = pass.stop
  <2>1. /\ UNCHANGED <<claim, kept, hooked, twin, crowded, fence>>
        /\ pass' = [pass EXCEPT !.pc = IF ~Human(a) THEN "mark"
                                       ELSE IF pass.won THEN "dispatch" ELSE "mark"]
    BY <1>7 DEF Take, a, receipts
  <2>2. /\ pass'.pc \in {"dispatch", "mark"} /\ pass'.now = pass.now
        /\ pass'.rest = pass.rest /\ pass'.stop = pass.stop /\ pass'.won = pass.won
        /\ pass'.pc = "dispatch" => a = pass.stop /\ pass.won
        /\ pass' \in [pc : {"idle", "judge", "stops", "loop", "dispatch", "mark"},
                      now : 0 .. now, rest : SUBSET There, stop : There \cup {None},
                      won : BOOLEAN]
    BY <1>3, <1>7, <2>1
  <2>3. /\ Stamps' /\ Twins' /\ Window' /\ Walk' /\ Sight'
        /\ OthersOnce' /\ OpeningOnce' /\ NothingSkipped'
    BY <1>2, <2>1, <2>2, PassMoves DEF Goes
  <2>4. TypeOK'
    BY <1>1, <1>2, <2>1, <2>2 DEF TypeOK, There
  <2>5. kind[a] # "prompt"
        \/ (pass.won /\ pass'.pc = "dispatch" /\ a = pass.stop)
    BY <1>4, <1>5, <1>7 DEF Human
  <2>6. Owns'
    <3>1. /\ pass'.pc = "dispatch" => claim[a] = "held" /\ a \notin tasks
          /\ pass'.pc = "mark" /\ kind[a] = "prompt" => claim[a] # "none" \/ crowded[a] > 0
      BY <1>4, <1>5, <2>2, <2>5
    <3> QED
      BY <1>2, <1>4, <1>5, <1>6, <2>1, <2>2, <3>1 DEF Owns
  <2>7. Fences'
    BY <1>2, <1>5, <2>1, <2>2 DEF Fences, AtOrBefore
  <2> QED
    BY <2>3, <2>4, <2>6, <2>7 DEF IInv
<1>8. CASE Human(a) /\ a # pass.stop
  <2>1. /\ pass' = [pass EXCEPT !.pc = IF Claims(a) THEN "dispatch" ELSE "mark"]
        /\ WriteClaim(a, "pass")
    BY <1>8 DEF Take, a
  <2>2. /\ pass'.pc = (IF Claims(a) THEN "dispatch" ELSE "mark") /\ pass'.now = pass.now
        /\ pass'.rest = pass.rest /\ pass'.stop = pass.stop /\ pass'.won = pass.won
        /\ pass' \in [pc : {"idle", "judge", "stops", "loop", "dispatch", "mark"},
                      now : 0 .. now, rest : SUBSET There, stop : There \cup {None},
                      won : BOOLEAN]
    BY <1>3, <2>1
  <2>3. /\ Stamps' /\ Twins' /\ Window' /\ Walk' /\ Sight'
        /\ OthersOnce' /\ OpeningOnce' /\ NothingSkipped'
        /\ ClaimsMove(a) /\ a \in Key
        /\ fence' = FenceWith(a)
        /\ Claims(a) => claim[a] = "none" /\ claim'[a] = "held"
        /\ ~Claims(a) /\ kind[a] = "prompt" => claim'[a] # "none" \/ crowded[a] > 0
        /\ crowded' = crowded
        /\ \A j \in Key : claim[j] = "held" => claim'[j] = "held"
    BY <1>2, <1>4, <2>1, <2>2, PassClaims DEF Goes
  <2>4. /\ fence' \in There \cup {None}
        /\ \A s \in There : fence # None /\ AtOrBefore(s, fence) =>
                                fence' # None /\ AtOrBefore(s, fence')
    BY <1>1, <1>4, <2>3, FenceMoves
  <2>5. TypeOK'
    <3>1. tasks \subseteq {k \in Key : claim'[k] = "held"}
      BY <1>3, <2>3
    <3> QED
      BY <1>1, <1>2, <2>2, <2>3, <2>4, <3>1 DEF TypeOK, There, ClaimsMove
  <2>6. Owns'
    <3>1. /\ pass'.pc = "dispatch" => claim'[a] = "held" /\ a \notin tasks
          /\ kind[a] = "prompt" => claim'[a] # "none" \/ crowded[a] > 0
      BY <1>3, <2>2, <2>3
    <3>2. pass.stop \in pass.rest => pass.stop \in Key
      BY <1>3, KeyFacts
    <3>3. pass.won /\ pass.stop \in pass.rest =>
            claim'[pass.stop] = "held" /\ pass.stop \notin tasks
      BY <1>5, <2>3, <3>2
    <3> QED
      BY <1>2, <1>4, <1>5, <1>6, <2>2, <2>3, <3>1, <3>3 DEF Owns
  <2>7. Fences'
    BY <1>2, <1>3, <1>5, <2>2, <2>4 DEF Fences, AtOrBefore
  <2> QED
    BY <2>3, <2>5, <2>6, <2>7 DEF IInv
<1> QED
  BY <1>7, <1>8

LEMMA DispatchKeeps ==
    ASSUME IInv, Dispatch
    PROVE  IInv'
<1>1. /\ TypeOK /\ Stamps /\ Twins /\ Window /\ Walk /\ Owns /\ Fences /\ Sight
      /\ OthersOnce /\ OpeningOnce /\ NothingSkipped
  BY DEF IInv
<1> DEFINE a == First(pass.rest)
<1>2. /\ pass.pc = "dispatch"
      /\ UNCHANGED <<now, kind, time, hook, init, mark, fence, past>>
  BY DEF Dispatch
<1>3. /\ pass.rest \in SUBSET There /\ There \in SUBSET Activity
      /\ tasks \subseteq {j \in Key : claim[j] = "held"}
      /\ fence \in There \cup {None} /\ mark \in There \cup {None}
      /\ None \notin Activity
      /\ pass \in [pc : {"idle", "judge", "stops", "loop", "dispatch", "mark"},
                   now : 0 .. now, rest : SUBSET There, stop : There \cup {None},
                   won : BOOLEAN]
  BY <1>1, Numbers DEF TypeOK
<1>4. /\ a \in pass.rest /\ a \in There /\ a \in Activity /\ a \in Key
      /\ Foremost(a) /\ \A b \in pass.rest : Foremost(b) => b = a
      /\ claim[a] = "held" /\ a \notin tasks
  <2>1. pass.rest # {}
    BY <1>1, <1>2 DEF Window
  <2> QED
    BY <1>1, <1>2, <2>1, ForemostIs, KeyFacts DEF Owns
<1>5. CASE /\ Settle(a) /\ pass' = [pass EXCEPT !.pc = "mark"]
           /\ UNCHANGED <<tasks, faults>>
  <2>1. /\ pass'.pc = "mark" /\ pass'.now = pass.now
        /\ pass'.rest = pass.rest /\ pass'.stop = pass.stop /\ pass'.won = pass.won
        /\ pass' \in [pc : {"idle", "judge", "stops", "loop", "dispatch", "mark"},
                      now : 0 .. now, rest : SUBSET There, stop : There \cup {None},
                      won : BOOLEAN]
    BY <1>3, <1>5
  <2>2. /\ Stamps' /\ Twins' /\ Window' /\ Walk' /\ Sight' /\ Fences'
        /\ OthersOnce' /\ OpeningOnce' /\ NothingSkipped'
        /\ ClaimsMove(a) /\ claim'[a] = "over"
        /\ \A j \in Key \ {a} : claim'[j] = claim[j]
        /\ runs' \in [Activity -> Nat] /\ crowded' = crowded
    BY <1>2, <1>4, <1>5, <2>1, Settles
  <2>3. TypeOK'
    <3>1. tasks \subseteq {k \in Key : claim'[k] = "held"}
      BY <1>3, <1>4, <2>2
    <3> QED
      BY <1>1, <1>2, <1>5, <2>1, <2>2, <3>1 DEF TypeOK, There, ClaimsMove
  <2>4. \A b : Foremost(b)' <=> Foremost(b)
    BY <1>2, <2>1 DEF Foremost, AtOrBefore
  <2>5. pass.won /\ pass.stop \in pass.rest =>
          pass.stop = a \/ (claim'[pass.stop] = "held" /\ pass.stop \notin tasks)
    <3>1. pass.stop \in pass.rest => pass.stop \in Key
      BY <1>3, KeyFacts
    <3> QED
      BY <1>1, <1>2, <2>2, <3>1 DEF Owns
  <2>6. Owns'
    BY <1>1, <1>2, <1>4, <1>5, <2>1, <2>2, <2>4, <2>5 DEF Owns
  <2> QED
    BY <2>2, <2>3, <2>6 DEF IInv
<1>6. CASE /\ tasks' = tasks \cup {a} /\ pass' = Idle /\ Fault
           /\ UNCHANGED <<claim, kept, hooked, twin, crowded, runs>>
  <2>1. tasks' \subseteq {k \in Key : claim[k] = "held"} /\ faults' \in 0 .. MaxFaults
    BY <1>1, <1>3, <1>4, <1>6, FaultCounts
  <2> QED
    BY <1>2, <1>6, <2>1, PassEnds
<1> QED
  BY <1>5, <1>6 DEF Dispatch, receipts

\* The watermark passes over what the pass is at, which is decided.
LEMMA MarkKeeps ==
    ASSUME IInv, Mark
    PROVE  IInv'
<1>1. /\ TypeOK /\ Stamps /\ Twins /\ Window /\ Walk /\ Owns /\ Fences /\ Sight
      /\ OthersOnce /\ OpeningOnce /\ NothingSkipped
  BY DEF IInv
<1> DEFINE a == First(pass.rest)
<1>2. /\ pass.pc = "mark" /\ mark' = Later(a, mark)
      /\ pass' = [pass EXCEPT !.pc = "loop", !.rest = @ \ {First(@)}]
      /\ UNCHANGED <<now, kind, time, hook, claim, kept, hooked, twin, crowded, tasks, runs, init, fence, past,
                     faults>>
  BY DEF Mark, receipts
<1>3. /\ pass.rest \in SUBSET There /\ There \in SUBSET Activity
      /\ tasks \subseteq {j \in Key : claim[j] = "held"}
      /\ fence \in There \cup {None} /\ mark \in There \cup {None}
      /\ None \notin Activity
      /\ pass \in [pc : {"idle", "judge", "stops", "loop", "dispatch", "mark"},
                   now : 0 .. now, rest : SUBSET There, stop : There \cup {None},
                   won : BOOLEAN]
  BY <1>1, Numbers DEF TypeOK
<1>4. /\ a \in pass.rest /\ a \in There /\ a \in Activity
      /\ Foremost(a) /\ \A b \in pass.rest : Foremost(b) => b = a
      /\ kind[a] = "prompt" => claim[a] # "none" \/ crowded[a] > 0
      /\ \A b \in pass.rest : AtOrBefore(a, b)
  <2>1. pass.rest # {}
    BY <1>1, <1>2 DEF Window
  <2> QED
    BY <1>1, <1>2, <2>1, ForemostIs DEF Owns, Foremost
<1>5. /\ pass'.pc = "loop" /\ pass'.now = pass.now /\ pass'.rest = pass.rest \ {a}
      /\ pass'.stop = pass.stop /\ pass'.won = pass.won
      /\ pass' \in [pc : {"idle", "judge", "stops", "loop", "dispatch", "mark"},
                    now : 0 .. now, rest : SUBSET There, stop : There \cup {None},
                    won : BOOLEAN]
  BY <1>2, <1>3
<1>6. /\ now \in Nat /\ Lookback \in Nat /\ pass.now \in Nat /\ pass.now <= now
      /\ \A b \in Activity : time[b] \in Nat
      /\ past \in SUBSET There
  BY <1>1, Numbers
<1> HIDE DEF a
<1>7. /\ mark' \in There /\ mark' \in {a, mark}
      /\ mark # None => time[mark] <= time[mark']
  <2>1. mark' = (IF mark = None \/ AtOrBefore(mark, a) THEN a ELSE mark)
    BY <1>2 DEF Later
  <2>2. mark # None => mark \in Activity /\ mark \in There /\ time[mark] <= time[mark]
    BY <1>3, <1>6
  <2>3. mark # None /\ AtOrBefore(mark, a) => time[mark] <= time[a]
    BY <1>1, <1>4, <2>2, Order
  <2> QED
    BY <1>4, <2>1, <2>2, <2>3
<1>8. TypeOK'
  <2>1. init
    BY <1>1, <1>2 DEF Window
  <2> QED
    BY <1>1, <1>2, <1>5, <1>7, <2>1 DEF TypeOK, There
<1>9. Stamps' /\ Twins' /\ OthersOnce'
  BY <1>1, <1>2 DEF Stamps, Twins, Known, OthersOnce, There
<1>10. Window'
  BY <1>1, <1>2, <1>5 DEF Window, There
<1>11. Walk'
  BY <1>1, <1>2, <1>4, <1>5 DEF Walk, There, Decided
<1>12. Owns' /\ Fences'
  <2>1. pass.won /\ pass.stop \in pass.rest \ {a} =>
          claim[pass.stop] = "held" /\ pass.stop \notin tasks
    BY <1>1, <1>4 DEF Owns
  <2>2. Owns'
    BY <1>1, <1>2, <1>5, <2>1 DEF Owns
  <2> QED
    BY <1>1, <1>2, <1>5, <2>2 DEF Fences, AtOrBefore
<1>13. Sight'
  <2>1. init /\ pass.pc \notin {"idle", "judge"}
    BY <1>1, <1>2 DEF Window
  <2>2. \A b \in past : mark' # None /\ time[b] <= time[mark']
    <3> SUFFICES ASSUME NEW b \in past PROVE mark' # None /\ time[b] <= time[mark']
      OBVIOUS
    <3>1. mark # None /\ time[b] <= time[mark] /\ mark \in Activity /\ mark' \in Activity
      BY <1>1, <1>3, <1>7 DEF Sight
    <3> QED
      BY <1>3, <1>6, <1>7, <3>1
  <2> QED
    BY <1>1, <1>2, <1>5, <2>1, <2>2 DEF Sight, Adopted, There
<1>14. OpeningOnce'
  BY <1>1, <1>2, <1>5 DEF OpeningOnce, OneKey, Adopted
<1>15. NothingSkipped'
  <2> SUFFICES ASSUME NEW b \in There', (kind[b] = "prompt" /\ Seen(b))'
               PROVE  (Decided(b) \/ b \in past \/ time[b] < now - Lookback)'
    BY DEF NothingSkipped
  <2>1. /\ b \in There /\ b \in Activity /\ kind[b] = "prompt"
        /\ time[b] < time[mark'] \/ b = mark'
    BY <1>2, <1>3 DEF There, Seen
  <2>2. Decided(b) \/ b \in past \/ time[b] < now - Lookback
    <3>1. CASE mark' = mark
      BY <1>1, <1>3, <1>7, <2>1, <3>1 DEF NothingSkipped, Seen
    <3>2. CASE mark' = a /\ b = a
      BY <1>4, <2>1, <3>2 DEF Decided
    <3>3. CASE mark' = a /\ b # a
      <4>1. time[b] < time[a]
        BY <2>1, <3>3
      <4>2. b \notin pass.rest
        BY <1>1, <1>4, <1>6, <2>1, <4>1, Order
      <4>3. \/ Decided(b) \/ b \in past
            \/ time[b] < pass.now - Lookback \/ time[b] >= pass.now
        BY <1>1, <1>2, <2>1, <4>2 DEF Walk
      <4>4. time[a] <= pass.now
        BY <1>1, <1>2, <1>4 DEF Window
      <4> QED
        BY <1>4, <1>6, <2>1, <4>1, <4>3, <4>4
    <3> QED
      BY <1>7, <3>1, <3>2, <3>3
  <2> QED
    BY <1>2, <2>2 DEF Decided
<1> QED
  BY <1>8, <1>9, <1>10, <1>11, <1>12, <1>13, <1>14, <1>15 DEF IInv

LEMMA RecoverKeeps ==
    ASSUME IInv, NEW k \in Key, Recover(k)
    PROVE  IInv'
<1>1. /\ TypeOK /\ Stamps /\ Twins /\ Window /\ Walk /\ Owns /\ Fences /\ Sight
      /\ OthersOnce /\ OpeningOnce /\ NothingSkipped
  BY DEF IInv
<1>2. /\ k \in tasks /\ Settle(k) /\ tasks' = tasks \ {k} /\ pass' = pass
      /\ UNCHANGED <<now, kind, time, hook, init, mark, fence, pass, past, faults>>
  BY DEF Recover
<1>3. /\ pass.rest \in SUBSET There /\ There \in SUBSET Activity
      /\ tasks \subseteq {j \in Key : claim[j] = "held"}
      /\ fence \in There \cup {None} /\ mark \in There \cup {None}
      /\ None \notin Activity
      /\ pass \in [pc : {"idle", "judge", "stops", "loop", "dispatch", "mark"},
                   now : 0 .. now, rest : SUBSET There, stop : There \cup {None},
                   won : BOOLEAN]
  BY <1>1, Numbers DEF TypeOK
<1>4. claim[k] = "held"
  BY <1>2, <1>3
<1>5. /\ Stamps' /\ Twins' /\ Window' /\ Walk' /\ Sight' /\ Fences'
      /\ OthersOnce' /\ OpeningOnce' /\ NothingSkipped'
      /\ ClaimsMove(k) /\ claim'[k] = "over"
      /\ \A j \in Key \ {k} : claim'[j] = claim[j]
      /\ runs' \in [Activity -> Nat] /\ crowded' = crowded
  BY <1>2, <1>4, Settles
<1>6. TypeOK'
  <2>1. tasks' \subseteq {j \in Key : claim'[j] = "held"}
    BY <1>2, <1>3, <1>5
  <2> QED
    BY <1>1, <1>2, <1>5, <2>1 DEF TypeOK, There, ClaimsMove
<1>7. Owns'
  <2>1. \A b : Foremost(b)' <=> Foremost(b)
    BY <1>2 DEF Foremost, AtOrBefore
  <2>2. \A b \in pass.rest : b \in Key
    BY <1>3, KeyFacts
  <2>3. \A b \in pass.rest : /\ b \notin tasks => b # k /\ claim'[b] = claim[b]
                             /\ claim[b] # "none" => claim'[b] # "none"
    BY <1>2, <1>5, <2>2
  <2> QED
    BY <1>1, <1>2, <1>5, <2>1, <2>3 DEF Owns
<1> QED
  BY <1>5, <1>6, <1>7 DEF IInv

\* A webhook that still may come finds the claim of its activity, if there was one
\* that has not made room for others.
LEMMA ArriveKeeps ==
    ASSUME IInv, NEW a \in Activity, Arrive(a)
    PROVE  IInv'
<1>1. /\ TypeOK /\ Stamps /\ Twins /\ Window /\ Walk /\ Owns /\ Fences /\ Sight
      /\ OthersOnce /\ OpeningOnce /\ NothingSkipped
  BY DEF IInv
<1> DEFINE k == KeyOf(a)
<1>2. /\ hook[a] = "sent"
      /\ now - time[a] <= Retention /\ (a = Opening => now - time[a] < Grace)
      /\ hook' = [hook EXCEPT ![a] = "none"]
      /\ WriteClaim(k, "hook")
      /\ IF Claims(k) THEN Run(k, FenceWith(k)) ELSE UNCHANGED runs
      /\ UNCHANGED <<now, kind, time, tasks, init, mark, pass, past, faults>>
  BY DEF Arrive
<1>3. /\ pass.rest \in SUBSET There /\ There \in SUBSET Activity
      /\ tasks \subseteq {j \in Key : claim[j] = "held"}
      /\ fence \in There \cup {None} /\ mark \in There \cup {None}
      /\ None \notin Activity
      /\ pass \in [pc : {"idle", "judge", "stops", "loop", "dispatch", "mark"},
                   now : 0 .. now, rest : SUBSET There, stop : There \cup {None},
                   won : BOOLEAN]
  BY <1>1, Numbers DEF TypeOK
<1>4. /\ now \in Nat /\ Grace \in Nat /\ Lookback \in Nat /\ Retention \in Nat
      /\ Lookback <= Retention
      /\ \A b \in Activity : time[b] \in Nat
      /\ Opening \in Activity /\ None \notin Activity /\ Created \notin Activity
  BY <1>1, Numbers
<1>5. /\ k \in Key /\ Created \in Key /\ Opening \in Key /\ ActivityOf(k) = a
      /\ a = Opening => k = Created
      /\ a # Opening => k = a
      /\ k # Opening
      /\ a \in There
  BY <1>1, <1>2, <1>4, KeyFacts DEF Stamps
<1> HIDE DEF k
<1>6. /\ ~(time[a] < now - Retention)
      /\ a = Opening => ~(time[a] <= now - Grace)
  BY <1>2, <1>4
<1>7. /\ ClaimsMove(k)
      /\ Claims(k) => claim'[k] = "over" /\ claim[k] = "none"
      /\ ~Claims(k) => claim'[k] = claim[k]
      /\ \A j \in Key : claim[j] = "held" => claim'[j] = "held"
      /\ crowded' = crowded
  BY <1>1, <1>2, <1>5, <1>6, WriteMoves DEF ClaimsMove
<1>8. \A j \in Key \ {k} :
          \/ claim'[j] = claim[j]
          \/ claim[j] = "over" /\ claim'[j] = "none" /\ time[ActivityOf(j)] < now - Retention
  BY <1>7 DEF ClaimsMove
<1>9. fence' = FenceWith(k) /\ (k # Created => k \in There)
  BY <1>2, <1>5 DEF WriteClaim
<1>10. /\ fence' \in There \cup {None}
       /\ \A s \in There : fence # None /\ AtOrBefore(s, fence) =>
                               fence' # None /\ AtOrBefore(s, fence')
  BY <1>1, <1>5, <1>9, FenceMoves
<1>11. /\ runs \in [Activity -> Nat] /\ runs' \in [Activity -> Nat]
       /\ \A b \in Activity \ {a} : runs'[b] = runs[b]
       /\ runs'[a] = runs[a] \/ (Claims(k) /\ runs'[a] = runs[a] + 1)
  <2>1. runs \in [Activity -> Nat]
    BY <1>1 DEF TypeOK
  <2>2. CASE Claims(k)
    BY <1>1, <1>2, <1>5, <2>1, <2>2, RunFacts
  <2>3. CASE ~Claims(k)
    BY <1>2, <2>1, <2>3
  <2> QED
    BY <2>1, <2>2, <2>3
<1>12. TypeOK'
  <2>1. hook' \in [Activity -> {"none", "sent"}]
    BY <1>1, <1>2 DEF TypeOK
  <2>2. tasks \subseteq {j \in Key : claim'[j] = "held"}
    BY <1>3, <1>7
  <2> QED
    BY <1>1, <1>2, <1>7, <1>10, <1>11, <2>1, <2>2 DEF TypeOK, There, ClaimsMove
<1>13. Stamps' /\ Twins'
  <2>1. \A b \in Activity : hook'[b] = "sent" => hook[b] = "sent"
    BY <1>1, <1>2 DEF TypeOK
  <2> QED
    BY <1>1, <1>2, <1>5, <1>7, <2>1, TwinsKept DEF Stamps, There, ClaimsMove
<1>14. Window'
  BY <1>1, <1>2 DEF Window, There
<1>15. Walk' /\ NothingSkipped'
  BY <1>2, <1>5, <1>7, WalkKeeps, SkipKeeps
<1>16. \A b : Foremost(b)' <=> Foremost(b)
  BY <1>2 DEF Foremost, AtOrBefore
<1>17. ASSUME NEW b \in pass.rest, pass.pc # "idle", claim[b] # "none"
       PROVE  claim'[b] # "none"
  <2>1. b \in Key /\ ActivityOf(b) = b /\ ~(time[b] < now - Retention)
    BY <1>1, <1>3, <1>17, KeyFacts, InWindow
  <2> QED
    BY <1>7, <1>8, <1>17, <2>1
<1>18. Owns'
  <2>1. \A b \in pass.rest : b \in Key
    BY <1>3, KeyFacts
  <2> QED
    BY <1>1, <1>2, <1>7, <1>16, <1>17, <2>1 DEF Owns
<1>19. Fences'
  BY <1>1, <1>2, <1>3, <1>10 DEF Fences, AtOrBefore
<1>20. /\ claim'[Opening] = claim[Opening]
          \/ (claim[Opening] = "over" /\ claim'[Opening] = "none"
                /\ time[Opening] < now - Retention)
       /\ claim[Created] = "none" /\ time[Opening] <= now - Grace => claim'[Created] = "none"
       /\ a # Opening /\ claim[Created] = "over" =>
             claim'[Created] = "over" \/ time[Opening] < now - Retention
  <2>1. ActivityOf(Opening) = Opening /\ ActivityOf(Created) = Opening
    BY <1>4, KeyFacts
  <2>2. a # Opening => k # Created
    BY <1>4, <1>5
  <2>3. time[Opening] <= now - Grace => a # Opening
    BY <1>6
  <2> QED
    BY <1>5, <1>8, <2>1, <2>2, <2>3
<1>21. Sight'
  <2>1. /\ ~init => claim'[Opening] = "none"
        /\ init => \/ Opening \in past \/ time[Opening] < now - Lookback
                   \/ claim'[Created] = "none" /\ time[Opening] <= now - Grace
    BY <1>1, <1>20 DEF Sight
  <2> QED
    BY <1>1, <1>2, <2>1 DEF Sight, There, Adopted
<1>22. OthersOnce'
  <2> SUFFICES ASSUME NEW b \in Activity \ {Opening}
               PROVE  OtherOnce(b)'
    BY DEF OthersOnce, OtherOnce
  <2>1. /\ runs[b] \in Nat /\ crowded[b] \in Nat
        /\ OtherOnce(b) /\ b \in Key /\ ActivityOf(b) = b
    BY <1>1, KeyFacts DEF OthersOnce, OtherOnce, TypeOK
  <2>2. CASE b = a
    BY <1>2, <1>5, <1>6, <1>7, <1>11, <2>1, <2>2 DEF OtherOnce
  <2>3. CASE b # a
    <3>1. b # k /\ runs'[b] = runs[b]
      BY <1>4, <1>5, <1>11, <2>3
    <3> QED
      BY <1>2, <1>7, <1>8, <2>1, <3>1 DEF OtherOnce
  <2> QED
    BY <2>2, <2>3
<1>23. OpeningOnce'
  <2>1. CASE Adopted(Opening)
    BY <1>2, <2>1 DEF OpeningOnce, Adopted
  <2>2. CASE ~Adopted(Opening)
    <3>1. /\ runs[Opening] <= 1 + crowded[Opening] /\ OneKey
          /\ runs[Opening] \in Nat /\ crowded[Opening] \in Nat
          /\ runs[Opening] > crowded[Opening] =>
                \/ claim[Created] = "over" \/ claim[Opening] = "over"
                \/ time[Opening] < now - Retention
          /\ claim[Opening] = "held" => runs[Opening] <= crowded[Opening]
      BY <1>1, <1>4, <2>2 DEF OpeningOnce, TypeOK
    <3>2. OneKey'
      BY <1>2, <1>20, <3>1 DEF OneKey
    <3>3. CASE a = Opening
      <4>1. claim[Opening] = "none" /\ claim'[Opening] = "none"
        BY <1>6, <1>20, <3>1, <3>3 DEF OneKey
      <4>2. runs'[Opening] <= 1 + crowded[Opening]
            /\ (runs'[Opening] > crowded[Opening] => claim'[Created] = "over")
        BY <1>5, <1>6, <1>7, <1>11, <3>1, <3>3, <4>1
      <4> QED
        BY <1>7, <3>2, <4>1, <4>2 DEF OpeningOnce
    <3>4. CASE a # Opening
      <4>1. runs'[Opening] = runs[Opening]
        BY <1>4, <1>11, <3>4
      <4>2. /\ runs[Opening] > crowded[Opening] =>
                  \/ claim'[Created] = "over" \/ claim'[Opening] = "over"
                  \/ time[Opening] < now - Retention
            /\ claim'[Opening] = "held" => runs[Opening] <= crowded[Opening]
        BY <1>20, <3>1, <3>4
      <4> QED
        BY <1>2, <1>7, <3>1, <3>2, <4>1, <4>2 DEF OpeningOnce
    <3> QED
      BY <3>3, <3>4
  <2> QED
    BY <2>1, <2>2
<1> QED
  BY <1>12, <1>13, <1>14, <1>15, <1>18, <1>19, <1>21, <1>22, <1>23 DEF IInv

----------------------------------------------------------------------------
(* The theorems.                                                           *)

LEMMA InitHolds ==
    ASSUME Init
    PROVE  IInv
<1>1. /\ Opening \in Activity /\ MaxTime \in Nat /\ MaxFaults \in Nat
      /\ 0 \in 0 .. MaxTime /\ NotYet \in 0 .. NotYet /\ 0 \in 0 .. MaxFaults
  BY ReconcileAssumption DEF NotYet
<1>2. /\ now = 0 /\ claim = [k \in Key |-> "none"] /\ kept = [k \in Key |-> 0]
      /\ kind = [a \in Activity |-> "prompt"] /\ hook = [a \in Activity |-> "none"]
      /\ time = [a \in Activity |-> NotYet] /\ runs = [a \in Activity |-> 0]
      /\ hooked = {} /\ twin = [k \in Key |-> NotYet] /\ crowded = [a \in Activity |-> 0]
      /\ tasks = {} /\ init = FALSE /\ mark = None /\ fence = None
      /\ pass = Idle /\ past = {} /\ faults = 0
  BY DEF Init
<1>3. There = {} /\ Opening \in Key /\ Created \in Key
  BY <1>1, <1>2, KeyFacts DEF There
<1>4. pass.pc = "idle" /\ pass.rest = {} /\ pass.won = FALSE
  BY <1>2 DEF Idle
<1>5. TypeOK
  <2>1. pass \in [pc : {"idle", "judge", "stops", "loop", "dispatch", "mark"},
                  now : 0 .. now, rest : SUBSET There, stop : There \cup {None},
                  won : BOOLEAN]
    <3>1. 0 \in 0 .. now
      BY <1>2
    <3> QED
      BY <1>2, <3>1 DEF Idle
  <2> QED
    BY <1>1, <1>2, <2>1 DEF TypeOK
<1>6. Stamps /\ Twins
  BY <1>2, <1>3 DEF Stamps, Twins
<1>7. Window /\ Walk /\ Owns /\ Fences
  BY <1>4 DEF Window, Walk, Owns, Fences
<1>8. Sight
  BY <1>1, <1>2, <1>3, <1>4 DEF Sight
<1>9. OthersOnce
  <2>1. \A a \in Activity : runs[a] = 0 /\ crowded[a] = 0
    BY <1>2
  <2> QED
    BY <2>1 DEF OthersOnce
<1>10. OpeningOnce
  <2>1. runs[Opening] = 0 /\ crowded[Opening] = 0 /\ claim[Opening] = "none"
    BY <1>1, <1>2, <1>3
  <2> QED
    BY <1>4, <2>1 DEF OpeningOnce, OneKey
<1>11. NothingSkipped
  BY <1>3 DEF NothingSkipped
<1> QED
  BY <1>5, <1>6, <1>7, <1>8, <1>9, <1>10, <1>11 DEF IInv

LEMMA StutterKeeps ==
    ASSUME IInv, UNCHANGED vars
    PROVE  IInv'
<1>1. UNCHANGED <<now, kind, time, hook, claim, kept, hooked, twin, crowded, tasks, runs, init, mark, fence, pass,
                  past, faults>>
  BY DEF vars, receipts
<1>2. TypeOK' /\ Stamps' /\ Twins' /\ Window'
  BY <1>1 DEF IInv, TypeOK, Stamps, Twins, Known, Window, There
<1>3. Walk' /\ Owns' /\ Fences'
  BY <1>1 DEF IInv, Walk, Owns, Fences, Foremost, AtOrBefore, There, Decided
<1>4. Sight' /\ OthersOnce' /\ OpeningOnce'
  BY <1>1 DEF IInv, Sight, OthersOnce, OpeningOnce, OneKey, Adopted, There
<1>5. NothingSkipped'
  BY <1>1 DEF IInv, NothingSkipped, Seen, Decided, There
<1> QED
  BY <1>2, <1>3, <1>4, <1>5 DEF IInv

LEMMA StepKeeps ==
    ASSUME IInv, [Next]_vars
    PROVE  IInv'
<1>1. CASE Pass
  BY <1>1, ReadKeeps, JudgeKeeps, ClaimNewestStopKeeps, TakeKeeps, DispatchKeeps,
     MarkKeeps, DoneKeeps DEF Pass
<1>2. CASE Fail \/ Crash \/ Prune \/ Tick
  BY <1>2, FailKeeps, CrashKeeps, PruneKeeps, TickKeeps
<1>3. CASE \E k \in Key : Recover(k)
  BY <1>3, RecoverKeeps
<1>4. CASE \E a \in Activity : Arrive(a) \/ Create(a)
  BY <1>4, ArriveKeeps, CreateKeeps
<1>5. CASE UNCHANGED vars
  BY <1>5, StutterKeeps
<1> QED
  BY <1>1, <1>2, <1>3, <1>4, <1>5 DEF Next

\* The inductive invariant: what a pass and a webhook may still find, the claims a
\* pass has to settle, the fence, the first sight, and the opening's two keys.
THEOREM Invariance == Spec => []IInv
<1>1. Init => IInv
  BY InitHolds
<1>2. IInv /\ [Next]_vars => IInv'
  BY StepKeeps
<1> QED
  BY <1>1, <1>2, PTL DEF Spec

\* Type correctness.
THEOREM TypeCorrect == Spec => []TypeOK
<1>1. IInv => TypeOK
  BY DEF IInv
<1> QED
  BY <1>1, Invariance, PTL

\* A prompt is run once, by its webhook, by a pass or by the recovery, with claims
\* that age out and across restarts, and once more at most for each removal of its
\* claim by count, but for what has the adopted watermark's time.
THEOREM PromptsRunOnce == Spec => []RunsOnce
<1>1. IInv => RunsOnce
  <2> SUFFICES ASSUME IInv, NEW a \in Activity, kind[a] = "prompt"
               PROVE  runs[a] <= 1 + crowded[a] \/ AtAdoptedMark(a)
    BY DEF RunsOnce
  <2>1. TypeOK /\ OthersOnce /\ OpeningOnce
    BY DEF IInv
  <2>2. CASE a # Opening
    BY <2>1, <2>2 DEF OthersOnce
  <2>3. CASE a = Opening
    BY <2>1, <2>3, AdoptedIs DEF OpeningOnce
  <2> QED
    BY <2>2, <2>3
<1> QED
  BY <1>1, Invariance, PTL

\* What the watermark has passed over is decided, is history or has aged out: no
\* prompt falls between two passes.
THEOREM NothingFallsBetween == Spec => []NothingSkipped
<1>1. IInv => NothingSkipped
  BY DEF IInv
<1> QED
  BY <1>1, Invariance, PTL

\* From "dispatch" to "mark" goes only a pass that has settled its claim.
LEMMA RunsAtDispatch ==
    ASSUME IInv, [Next]_vars, NEW a \in Activity, PassDispatches(a), runs'[a] > runs[a]
    PROVE  ~Withdrawn(a, fence) /\ kind[a] = "prompt"
<1>1. /\ TypeOK /\ Window /\ pass.pc = "dispatch" /\ pass'.pc = "mark"
      /\ a = First(pass.rest) /\ pass'.pc # pass.pc /\ pass' # pass /\ pass' # Idle
  BY DEF IInv, PassDispatches, Idle
<1>2. ~(Read \/ Judge \/ ClaimNewestStop \/ Take \/ Mark \/ Done \/ Fail)
  BY <1>1 DEF Read, Judge, ClaimNewestStop, Take, Mark, Done, Fail
<1>3. ~(Crash \/ Prune \/ Tick \/ UNCHANGED vars)
  BY <1>1 DEF Crash, Prune, Tick, vars
<1>4. /\ \A k \in Key : ~Recover(k)
      /\ \A b \in Activity : ~(Arrive(b) \/ Create(b))
  BY <1>1 DEF Recover, Arrive, Create
<1>5. Dispatch
  BY <1>2, <1>3, <1>4 DEF Next, Pass
<1>6. a \in Key /\ ActivityOf(a) = a
  BY KeyFacts
<1>7. Settle(a)
  BY <1>1, <1>5 DEF Dispatch
<1>8. runs[a] \in Nat
  BY <1>1 DEF TypeOK
<1> QED
  BY <1>1, <1>6, <1>7, <1>8, RunFacts DEF Settle

\* A pass runs no prompt that a stop which it has read withdraws, and dispatches
\* nothing that the first sight took as history.
THEOREM PassesRunOnlyMissed == Spec => OnlyMissed
<1>1. ASSUME IInv, [Next]_vars
      PROVE  \A a \in Activity : PassDispatches(a) =>
                /\ runs'[a] > runs[a] =>
                      \A s \in pass.rest : kind[s] = "stop" => ~AtOrBefore(a, s)
                /\ a \notin past \/ AtAdoptedMark(a)
  <2> SUFFICES ASSUME NEW a \in Activity, PassDispatches(a)
               PROVE  /\ runs'[a] > runs[a] =>
                            \A s \in pass.rest : kind[s] = "stop" => ~AtOrBefore(a, s)
                      /\ a \notin past \/ AtAdoptedMark(a)
    OBVIOUS
  <2>1. /\ TypeOK /\ Window /\ Fences /\ Sight /\ pass.pc = "dispatch"
        /\ pass.rest \in SUBSET Activity /\ None \notin Activity
        /\ a = First(pass.rest)
    BY <1>1, Numbers DEF IInv, PassDispatches
  <2>2. a \in pass.rest
    BY <2>1, ForemostIs DEF Window
  <2>3. a \notin past \/ AtAdoptedMark(a)
    BY <2>1, <2>2, AdoptedIs DEF Sight
  <2>4. ASSUME runs'[a] > runs[a], NEW s \in pass.rest, kind[s] = "stop", AtOrBefore(a, s)
        PROVE  FALSE
    <3>1. fence # None /\ AtOrBefore(s, fence)
      BY <2>1, <2>4 DEF Fences
    <3>2. fence \in Activity /\ s \in Activity
      BY <2>1, <3>1, Numbers DEF TypeOK
    <3>3. AtOrBefore(a, fence)
      BY <2>1, <2>4, <3>1, <3>2, Order
    <3>4. ~Withdrawn(a, fence) /\ kind[a] = "prompt"
      BY <1>1, <2>4, RunsAtDispatch
    <3>5. a = fence
      BY <2>1, <3>1, <3>3, <3>4, Numbers DEF Withdrawn
    <3>6. a = s
      BY <2>1, <2>4, <3>1, <3>2, <3>5, Order
    <3> QED
      BY <2>4, <3>4, <3>6
  <2> QED
    BY <2>3, <2>4
<1>2. IInv /\ [Next]_vars =>
        [\A a \in Activity : PassDispatches(a) =>
            /\ runs'[a] > runs[a] => \A s \in pass.rest : kind[s] = "stop" => ~AtOrBefore(a, s)
            /\ a \notin past \/ AtAdoptedMark(a)]_vars
  BY <1>1
<1> QED
  BY <1>2, Invariance, PTL DEF Spec, OnlyMissed
=============================================================================
