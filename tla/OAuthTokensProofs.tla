-------------------------- MODULE OAuthTokensProofs --------------------------
(***************************************************************************)
(* Proofs about OAuthTokens, for any callers, pairs and faults.            *)
(*                                                                         *)
(* The file is never ahead of the memory, and a refresh token that was     *)
(* presented is behind the file, is the one whose rotation is under way,   *)
(* or was lost or revoked.  So what the manager holds when it begins a     *)
(* refresh has not been presented, unless it was lost or revoked.          *)
(***************************************************************************)
EXTENDS OAuthTokens, TLAPS

USE DEF Pair, Known, Good, Gone

LEMMA InitHolds == Init => IInv
<1> SUFFICES ASSUME Init PROVE IInv
  OBVIOUS
<1> USE TokensAssumption DEF Init, Idle
<1>1. TypeOK
  <2>1. Known = {0}
    OBVIOUS
  <2>2. calls \in [Call -> CallRecord]
    BY <2>1 DEF CallRecord
  <2>3. refresh \in [for : {"idle", "sent", "answered", "writing"}, pair : Known]
    BY <2>1
  <2>4. sent \in [Pair -> 0..2] /\ issued \in 0..MaxPair /\ faults \in Nat
    OBVIOUS
  <2> HIDE DEF Known
  <2> QED
    BY <2>1, <2>2, <2>3, <2>4 DEF TypeOK
<1>2. DownIsEmpty /\ Handing
  BY DEF DownIsEmpty, InFlight, Handing, Sound
<1>3. Rotating /\ Authorizing
  BY DEF Rotating, Authorizing
<1>4. Spent /\ RotatesOnce
  BY DEF Spent, RotatesOnce
<1> QED
  BY <1>1, <1>2, <1>3, <1>4 DEF IInv

\* What is presented is presented once or more often.
LEMMA Presenting ==
    ASSUME TypeOK, NEW k \in Pair
    PROVE  [sent EXCEPT ![k] = Again(@)] \in [Pair -> 0..2]
BY DEF TypeOK, Again

----------------------------------------------------------------------------
(* The process, the rotation, the authorization and Linear. *)

LEMMA StartKeeps == ASSUME IInv, Start PROVE IInv'
<1> USE TokensAssumption DEF Start,
           IInv, TypeOK, DownIsEmpty, Rotating, Authorizing, Spent, Handing, RotatesOnce,
           Sound, CallRecord, Idle, InFlight
<1>1. TypeOK'
  OBVIOUS
<1>2. DownIsEmpty'
  OBVIOUS
<1>3. Rotating'
  OBVIOUS
<1>4. Authorizing'
  OBVIOUS
<1>5. Spent'
  OBVIOUS
<1>6. Handing'
  OBVIOUS
<1>7. RotatesOnce'
  OBVIOUS
<1> QED
  BY <1>1, <1>2, <1>3, <1>4, <1>5, <1>6, <1>7

LEMMA CrashKeeps == ASSUME IInv, Crash PROVE IInv'
<1> USE TokensAssumption DEF Crash, Fault, Again,
           IInv, TypeOK, DownIsEmpty, Rotating, Authorizing, Spent, Handing, RotatesOnce,
           Sound, CallRecord, Idle, InFlight
<1>1. TypeOK'
  <2>1. {refresh.pair} \ {0} \subseteq Pair /\ (refresh.for = "sent" => refresh.pair \in Pair)
    <3>1. refresh.pair \in 0..MaxPair
      OBVIOUS
    <3>2. refresh.for = "sent" => refresh.pair # 0
      OBVIOUS
    <3> QED
      BY <3>1, <3>2
  <2>2. sent' \in [Pair -> 0..2]
    <3> HIDE DEF Crash, Fault, Again, IInv, TypeOK, DownIsEmpty, Rotating, Authorizing, Spent,
                 Handing, RotatesOnce, Sound, CallRecord, Idle, InFlight
    <3>1. \/ sent' = sent
          \/ refresh.for = "sent" /\ sent' = [sent EXCEPT ![refresh.pair] = Again(@)]
      BY DEF Crash
    <3>2. TypeOK /\ sent \in [Pair -> 0..2]
      BY DEF IInv, TypeOK
    <3> QED
      BY <2>1, <3>1, <3>2, Presenting
  <2>3. lost' \subseteq Pair
    <3> HIDE DEF IInv, TypeOK, Rotating, Spent
    <3>1. lost \subseteq Pair
      BY DEF IInv, TypeOK
    <3> QED
      BY <2>1, <3>1
  <2>4. calls' \in [Call -> CallRecord]'
    OBVIOUS
  <2>5. refresh' \in [for : {"idle", "sent", "answered", "writing"}, pair : Known]'
    OBVIOUS
  <2>6. /\ up' = FALSE /\ faults' \in Nat /\ issued' = issued
        /\ memory' = 0 /\ answer' = 0 /\ grant' = "none" /\ granted' = 0
        /\ UNCHANGED <<file, revoked, expired>>
    OBVIOUS
  <2> HIDE DEF Crash, Fault, Again, IInv, DownIsEmpty, Rotating, Authorizing, Spent, Handing,
               RotatesOnce, Sound, CallRecord, Idle, InFlight
  <2>7. TypeOK
    BY DEF IInv
  <2>8. (up \in BOOLEAN)' /\ (issued \in 0..MaxPair)' /\ (faults \in Nat)'
    BY <2>6, <2>7
  <2>9. /\ (memory \in Known)' /\ (file \in Known)' /\ (answer \in Known)'
        /\ (granted \in Known)' /\ (revoked \in Known)' /\ (expired \subseteq Known)'
    BY <2>6, <2>7
  <2>10. (refresh \in [for : {"idle", "sent", "answered", "writing"}, pair : Known])'
    BY <2>5
  <2>11. (calls \in [Call -> CallRecord])'
    BY <2>4
  <2> QED
    BY <2>2, <2>3, <2>6, <2>8, <2>9, <2>10, <2>11
<1>2. DownIsEmpty'
  OBVIOUS
<1>3. Rotating'
  OBVIOUS
<1>4. Authorizing'
  OBVIOUS
<1>5. Spent'
  OBVIOUS
<1>6. Handing'
  OBVIOUS
<1>7. RotatesOnce'
  OBVIOUS
<1> QED
  BY <1>1, <1>2, <1>3, <1>4, <1>5, <1>6, <1>7

LEMMA PresentedKeeps == ASSUME IInv, Presented PROVE IInv'
<1> USE TokensAssumption DEF Presented, Again,
           IInv, TypeOK, DownIsEmpty, Rotating, Authorizing, Spent, Handing, RotatesOnce,
           Sound, CallRecord, Idle, InFlight
<1>1. TypeOK'
  <2>1. refresh.pair \in Pair
    OBVIOUS
  <2>2. sent' \in [Pair -> 0..2]
    BY <2>1, Presenting
  <2> QED
    BY <2>2
<1>2. DownIsEmpty'
  OBVIOUS
<1>3. Rotating'
  <2>1. CASE sent[refresh.pair] = 0 /\ refresh.pair > revoked
    BY <2>1
  <2>2. CASE ~(sent[refresh.pair] = 0 /\ refresh.pair > revoked)
    <3>1. Gone(refresh.pair)
      <4>1. CASE refresh.pair <= revoked
        BY <4>1
      <4>2. CASE sent[refresh.pair] > 0
        <5>1. up /\ file <= refresh.pair /\ refresh.pair \in Pair
          OBVIOUS
        <5> QED
          BY <4>2, <5>1
      <4> QED
        BY <2>2, <4>1, <4>2
    <3> QED
      BY <2>2, <3>1
  <2> QED
    BY <2>1, <2>2
<1>4. Authorizing'
  OBVIOUS
<1>5. Spent'
  OBVIOUS
<1>6. Handing'
  OBVIOUS
<1>7. RotatesOnce'
  OBVIOUS
<1> QED
  BY <1>1, <1>2, <1>3, <1>4, <1>5, <1>6, <1>7

LEMMA RequestFailsKeeps == ASSUME IInv, RequestFails PROVE IInv'
<1> USE TokensAssumption DEF RequestFails, Fault, Reject,
           IInv, TypeOK, DownIsEmpty, Rotating, Authorizing, Spent, Handing, RotatesOnce,
           Sound, CallRecord, Idle, InFlight
<1>1. TypeOK'
  OBVIOUS
<1>2. DownIsEmpty'
  OBVIOUS
<1>3. Rotating'
  OBVIOUS
<1>4. Authorizing'
  OBVIOUS
<1>5. Spent'
  OBVIOUS
<1>6. Handing'
  OBVIOUS
<1>7. RotatesOnce'
  OBVIOUS
<1> QED
  BY <1>1, <1>2, <1>3, <1>4, <1>5, <1>6, <1>7

LEMMA AnsweredKeeps == ASSUME IInv, Answered PROVE IInv'
<1> USE TokensAssumption DEF Answered, Install,
           IInv, TypeOK, DownIsEmpty, Rotating, Authorizing, Spent, Handing, RotatesOnce,
           Sound, CallRecord, Idle, InFlight
<1>1. TypeOK'
  OBVIOUS
<1>2. DownIsEmpty'
  OBVIOUS
<1>3. Rotating'
  OBVIOUS
<1>4. Authorizing'
  OBVIOUS
<1>5. Spent'
  OBVIOUS
<1>6. Handing'
  OBVIOUS
<1>7. RotatesOnce'
  OBVIOUS
<1> QED
  BY <1>1, <1>2, <1>3, <1>4, <1>5, <1>6, <1>7

LEMMA StoredKeeps == ASSUME IInv, Stored PROVE IInv'
<1> USE TokensAssumption DEF Stored, Resume, Handed,
           IInv, TypeOK, DownIsEmpty, Rotating, Authorizing, Spent, Handing, RotatesOnce,
           Sound, CallRecord, Idle, InFlight
<1>1. TypeOK'
  OBVIOUS
<1>2. DownIsEmpty'
  OBVIOUS
<1>3. Rotating'
  OBVIOUS
<1>4. Authorizing'
  OBVIOUS
<1>5. Spent'
  OBVIOUS
<1>6. Handing'
  OBVIOUS
<1>7. RotatesOnce'
  OBVIOUS
<1> QED
  BY <1>1, <1>2, <1>3, <1>4, <1>5, <1>6, <1>7

LEMMA RefreshRefusedKeeps == ASSUME IInv, RefreshRefused PROVE IInv'
<1> USE TokensAssumption DEF RefreshRefused, Reject,
           IInv, TypeOK, DownIsEmpty, Rotating, Authorizing, Spent, Handing, RotatesOnce,
           Sound, CallRecord, Idle, InFlight
<1>1. TypeOK'
  OBVIOUS
<1>2. DownIsEmpty'
  OBVIOUS
<1>3. Rotating'
  OBVIOUS
<1>4. Authorizing'
  OBVIOUS
<1>5. Spent'
  OBVIOUS
<1>6. Handing'
  OBVIOUS
<1>7. RotatesOnce'
  OBVIOUS
<1> QED
  BY <1>1, <1>2, <1>3, <1>4, <1>5, <1>6, <1>7

LEMMA AnswerLostKeeps == ASSUME IInv, AnswerLost PROVE IInv'
<1> USE TokensAssumption DEF AnswerLost, Fault, Reject,
           IInv, TypeOK, DownIsEmpty, Rotating, Authorizing, Spent, Handing, RotatesOnce,
           Sound, CallRecord, Idle, InFlight
<1>1. TypeOK'
  OBVIOUS
<1>2. DownIsEmpty'
  OBVIOUS
<1>3. Rotating'
  OBVIOUS
<1>4. Authorizing'
  OBVIOUS
<1>5. Spent'
  OBVIOUS
<1>6. Handing'
  OBVIOUS
<1>7. RotatesOnce'
  OBVIOUS
<1> QED
  BY <1>1, <1>2, <1>3, <1>4, <1>5, <1>6, <1>7

LEMMA WriteFailsKeeps == ASSUME IInv, WriteFails PROVE IInv'
<1> USE TokensAssumption DEF WriteFails, Fault, Reject,
           IInv, TypeOK, DownIsEmpty, Rotating, Authorizing, Spent, Handing, RotatesOnce,
           Sound, CallRecord, Idle, InFlight
<1>1. TypeOK'
  OBVIOUS
<1>2. DownIsEmpty'
  OBVIOUS
<1>3. Rotating'
  OBVIOUS
<1>4. Authorizing'
  OBVIOUS
<1>5. Spent'
  OBVIOUS
<1>6. Handing'
  OBVIOUS
<1>7. RotatesOnce'
  OBVIOUS
<1> QED
  BY <1>1, <1>2, <1>3, <1>4, <1>5, <1>6, <1>7

LEMMA AuthorizeKeeps == ASSUME IInv, Authorize PROVE IInv'
<1> USE TokensAssumption DEF Authorize, Install,
           IInv, TypeOK, DownIsEmpty, Rotating, Authorizing, Spent, Handing, RotatesOnce,
           Sound, CallRecord, Idle, InFlight
<1>1. TypeOK'
  OBVIOUS
<1>2. DownIsEmpty'
  OBVIOUS
<1>3. Rotating'
  OBVIOUS
<1>4. Authorizing'
  OBVIOUS
<1>5. Spent'
  OBVIOUS
<1>6. Handing'
  OBVIOUS
<1>7. RotatesOnce'
  OBVIOUS
<1> QED
  BY <1>1, <1>2, <1>3, <1>4, <1>5, <1>6, <1>7

LEMMA GrantStoredKeeps == ASSUME IInv, GrantStored PROVE IInv'
<1> USE TokensAssumption DEF GrantStored,
           IInv, TypeOK, DownIsEmpty, Rotating, Authorizing, Spent, Handing, RotatesOnce,
           Sound, CallRecord, Idle, InFlight
<1>1. TypeOK'
  OBVIOUS
<1>2. DownIsEmpty'
  OBVIOUS
<1>3. Rotating'
  OBVIOUS
<1>4. Authorizing'
  OBVIOUS
<1>5. Spent'
  OBVIOUS
<1>6. Handing'
  OBVIOUS
<1>7. RotatesOnce'
  OBVIOUS
<1> QED
  BY <1>1, <1>2, <1>3, <1>4, <1>5, <1>6, <1>7

LEMMA AuthorizationFailsKeeps == ASSUME IInv, AuthorizationFails PROVE IInv'
<1> USE TokensAssumption DEF AuthorizationFails, Fault,
           IInv, TypeOK, DownIsEmpty, Rotating, Authorizing, Spent, Handing, RotatesOnce,
           Sound, CallRecord, Idle, InFlight
<1>1. TypeOK'
  OBVIOUS
<1>2. DownIsEmpty'
  OBVIOUS
<1>3. Rotating'
  OBVIOUS
<1>4. Authorizing'
  OBVIOUS
<1>5. Spent'
  OBVIOUS
<1>6. Handing'
  OBVIOUS
<1>7. RotatesOnce'
  OBVIOUS
<1> QED
  BY <1>1, <1>2, <1>3, <1>4, <1>5, <1>6, <1>7

LEMMA RevokeKeeps == ASSUME IInv, Revoke PROVE IInv'
<1> USE TokensAssumption DEF Revoke, Fault,
           IInv, TypeOK, DownIsEmpty, Rotating, Authorizing, Spent, Handing, RotatesOnce,
           Sound, CallRecord, Idle, InFlight
<1>1. TypeOK'
  OBVIOUS
<1>2. DownIsEmpty'
  OBVIOUS
<1>3. Rotating'
  OBVIOUS
<1>4. Authorizing'
  OBVIOUS
<1>5. Spent'
  OBVIOUS
<1>6. Handing'
  OBVIOUS
<1>7. RotatesOnce'
  OBVIOUS
<1> QED
  BY <1>1, <1>2, <1>3, <1>4, <1>5, <1>6, <1>7

LEMMA ExpireKeeps == ASSUME IInv, NEW k \in 0..MaxPair, Expire(k) PROVE IInv'
<1> USE TokensAssumption DEF Expire,
           IInv, TypeOK, DownIsEmpty, Rotating, Authorizing, Spent, Handing, RotatesOnce,
           Sound, CallRecord, Idle, InFlight
<1>1. TypeOK'
  OBVIOUS
<1>2. DownIsEmpty'
  OBVIOUS
<1>3. Rotating'
  OBVIOUS
<1>4. Authorizing'
  OBVIOUS
<1>5. Spent'
  OBVIOUS
<1>6. Handing'
  OBVIOUS
<1>7. RotatesOnce'
  OBVIOUS
<1> QED
  BY <1>1, <1>2, <1>3, <1>4, <1>5, <1>6, <1>7

----------------------------------------------------------------------------
(* The calls. *)

\* A step of one call alone keeps IInv if what becomes of the call is sound.
LEMMA CallKeeps ==
    ASSUME IInv, Elsewhere, NEW c \in Call, NEW r \in CallRecord, up, Sound(r),
           calls' = [calls EXCEPT ![c] = r]
    PROVE  IInv'
<1> USE DEF Elsewhere, IInv
<1>1. TypeOK'
  BY DEF TypeOK, CallRecord
<1>2. DownIsEmpty' /\ Rotating' /\ Authorizing'
  BY DEF DownIsEmpty, Rotating, Authorizing, Idle
<1>3. Handing'
  BY DEF Handing, Sound, TypeOK
<1>4. Spent' /\ RotatesOnce'
  BY DEF Spent, RotatesOnce
<1> QED
  BY <1>1, <1>2, <1>3, <1>4

\* Only a process that is up has calls in flight.
LEMMA FlightIsUp ==
    ASSUME IInv, NEW c \in Call, calls[c].pc \in {"posted", "waiting", "again"}
    PROVE  up
BY DEF IInv, DownIsEmpty, InFlight

LEMMA CallingKeeps ==
    ASSUME IInv, NEW c \in Call, Calling(c)
    PROVE  IInv'
<1> DEFINE t == calls[c].token
<1> USE DEF IInv
<1>1. calls[c] \in CallRecord /\ t \in Known /\ memory \in Known
  BY DEF TypeOK, CallRecord
<1>2. Sound(calls[c])
  BY DEF Handing
<1>3. CASE Post(c)
  <2>1. [pc |-> "posted", token |-> memory] \in CallRecord
    BY <1>1 DEF CallRecord
  <2>2. Sound([pc |-> "posted", token |-> memory])
    BY DEF Sound
  <2> QED
    BY <1>3, <2>1, <2>2, CallKeeps DEF Post
<1>4. CASE UseReplaced(c)
  <2>1. Handed(c) \in CallRecord
    BY <1>1 DEF CallRecord, Handed
  <2>2. Sound(Handed(c))
    BY <1>2, <1>4 DEF Sound, Handed, UseReplaced, Refused, Replaced
  <2> QED
    BY <1>4, <2>1, <2>2, CallKeeps, FlightIsUp DEF UseReplaced, Refused
<1>5. CASE Served(c) \/ JoinRefresh(c) \/ NoRefreshToken(c) \/ RefusedTwice(c) \/ Abort(c)
  <2>1. PICK pc \in {"done", "waiting", "unauthorized", "aborted"} :
           calls' = [calls EXCEPT ![c].pc = pc] /\ Sound([calls[c] EXCEPT !.pc = pc])
    <3>1. CASE Served(c) \/ Abort(c)
      BY <1>1, <3>1 DEF Served, Abort, Sound, CallRecord
    <3>2. CASE JoinRefresh(c)
      <4>1. refresh.for # "idle" /\ (t = refresh.pair \/ t <= revoked)
        <5>1. t = memory /\ t \in expired /\ refresh.for # "idle"
          BY <3>2 DEF JoinRefresh, Refused, Replaced, Shared
        <5>2. CASE refresh.for = "writing"
          <6>1. Good(answer)
            BY <1>1, <5>1, <5>2 DEF Rotating, TypeOK
          <6> QED
            BY <5>1, <5>2, <6>1 DEF Rotating
        <5>3. CASE refresh.for # "writing"
          BY <5>1, <5>3 DEF Rotating, TypeOK
        <5> QED
          BY <5>2, <5>3
      <4>2. t = memory
        BY <3>2 DEF JoinRefresh, Replaced
      <4> QED
        BY <1>1, <3>2, <4>1, <4>2 DEF JoinRefresh, Sound, CallRecord
    <3>3. CASE NoRefreshToken(c)
      <4>1. t <= revoked
        BY <3>3 DEF NoRefreshToken, Replaced, TypeOK
      <4> QED
        BY <1>1, <3>3, <4>1 DEF NoRefreshToken, Sound, CallRecord
    <3>4. CASE RefusedTwice(c)
      <4>1. t <= revoked
        BY <1>2, <3>4 DEF RefusedTwice, Refused, Sound
      <4> QED
        BY <1>1, <3>4, <4>1 DEF RefusedTwice, Sound, CallRecord
    <3> QED
      BY <1>5, <3>1, <3>2, <3>3, <3>4
  <2>2. [calls[c] EXCEPT !.pc = pc] \in CallRecord
    BY <1>1 DEF CallRecord
  <2>3. calls' = [calls EXCEPT ![c] = [calls[c] EXCEPT !.pc = pc]]
    BY <2>1
  <2>4. up /\ Elsewhere
    BY <1>5, FlightIsUp DEF Served, JoinRefresh, NoRefreshToken, RefusedTwice, Abort, Refused, InFlight
  <2> QED
    BY <2>1, <2>2, <2>3, <2>4, CallKeeps
<1>6. CASE BeginRefresh(c)
  <2> USE <1>6 DEF BeginRefresh, Refused, Replaced, Shared
  <2>1. t = memory /\ memory # 0 /\ memory \in expired /\ refresh = Idle
    BY DEF Rotating, TypeOK, Idle
  <2>2. up
    BY FlightIsUp
  <2>3. TypeOK'
    BY <1>1 DEF TypeOK, CallRecord
  <2>4. DownIsEmpty'
    BY <2>2 DEF DownIsEmpty
  <2>5. Rotating'
    BY <1>1, <2>1 DEF Rotating, TypeOK
  <2>6. Authorizing'
    BY <1>1, <2>1 DEF Authorizing, Rotating, TypeOK
  <2>7. Spent' /\ RotatesOnce'
    BY DEF Spent, RotatesOnce, TypeOK
  <2>8. Handing'
    BY <1>1, <2>1 DEF Handing, Sound, TypeOK, CallRecord
  <2> QED
    BY <2>3, <2>4, <2>5, <2>6, <2>7, <2>8
<1> QED
  BY <1>3, <1>4, <1>5, <1>6 DEF Calling

LEMMA NextHolds == IInv /\ [Next]_vars => IInv'
<1> SUFFICES ASSUME IInv, [Next]_vars PROVE IInv'
  OBVIOUS
<1>1. CASE UNCHANGED vars
  BY <1>1 DEF vars, IInv, TypeOK, DownIsEmpty, Rotating, Authorizing, Spent, Handing, RotatesOnce,
              Sound, InFlight, CallRecord
<1>2. CASE Next
  <2>1. CASE Start \/ Crash \/ Rotation
    BY <2>1, StartKeeps, CrashKeeps, PresentedKeeps, RequestFailsKeeps, AnsweredKeeps, StoredKeeps,
       RefreshRefusedKeeps, AnswerLostKeeps, WriteFailsKeeps DEF Rotation
  <2>2. CASE Authorize \/ GrantStored \/ AuthorizationFails \/ Revoke
    BY <2>2, AuthorizeKeeps, GrantStoredKeeps, AuthorizationFailsKeeps, RevokeKeeps
  <2> QED
    BY <1>2, <2>1, <2>2, CallingKeeps, ExpireKeeps DEF Next
<1> QED
  BY <1>1, <1>2

----------------------------------------------------------------------------

\* IInv holds in every reachable state: any number of calls that meet a refusal
\* at any point of a rotation, crashes, failed writes, lost answers, revocation.
THEOREM Invariance == Spec => []IInv
  BY InitHolds, NextHolds, PTL DEF Spec

\* Every variable keeps its type.
THEOREM TypeCorrect == Spec => []TypeOK
<1>1. IInv => TypeOK
  BY DEF IInv
<1> QED
  BY <1>1, Invariance, PTL

\* No refresh token is presented before its access token is refused, nor twice
\* unless its replacement was lost or revoked.
THEOREM TokensRotateOnce == Spec => []RotatesOnce
<1>1. IInv => RotatesOnce
  BY DEF IInv
<1> QED
  BY <1>1, Invariance, PTL

\* A call goes without access only where the pair it was refused with has no
\* refresh token, was lost or was revoked.
THEOREM CallsKeepAccess == Spec => []AccessRenews
<1>1. IInv => AccessRenews
  BY DEF IInv, Handing, Sound, AccessRenews
<1> QED
  BY <1>1, Invariance, PTL
=============================================================================
