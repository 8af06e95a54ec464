---------------------------- MODULE OAuthTokens ----------------------------
(***************************************************************************)
(* Linear's rotating token pair: the token manager of linear/oauth.ts with *)
(* the calls of linear/client.ts that meet a 401 and the one browser       *)
(* authorization of server.ts.                                             *)
(*                                                                         *)
(* Pairs are numbered in the order Linear issues them; pair 0 is the       *)
(* access token of the environment, which has no refresh token, and as     *)
(* the content of the file it means that there is none.  Linear refuses a  *)
(* refresh token it has seen before.  One process at a time; it may die    *)
(* and be started again.                                                   *)
(***************************************************************************)
EXTENDS Integers, FiniteSets

CONSTANTS
    Call,       \* callers of the client, each of which calls again and again
    MaxPair,    \* bound: pairs Linear issues
    MaxFaults   \* bound: crashes, failed writes, failed and lost answers, revocations

ASSUME TokensAssumption ==
    /\ IsFiniteSet(Call)
    /\ MaxPair \in Nat /\ MaxFaults \in Nat

VARIABLES
    up,         \* whether the process runs
    memory,     \* the pair the manager holds
    file,       \* the pair the store holds
    refresh,    \* refreshPromise: what it waits for, and the pair it sent
    answer,     \* the pair in its answer, or 0
    grant,      \* the authorization: its URL is offered, its pair being written
    granted,    \* that pair, or 0
    calls,      \* by call, how far it is and the access token it holds
    issued,     \* Linear: the last pair issued
    expired,    \* Linear: the access tokens it answers with 401
    sent,       \* Linear: by pair, how often its refresh token came, up to 2
    revoked,    \* Linear: the pairs up to this one are void
    lost,       \* history: pairs whose replacement did not reach the file
    faults

vars == <<up, memory, file, refresh, answer, grant, granted, calls, issued,
          expired, sent, revoked, lost, faults>>

Pair == 1..MaxPair
InFlight == {c \in Call : calls[c].pc \in {"posted", "waiting", "again"}}
Idle == [for |-> "idle", pair |-> 0]

Init ==
    /\ up = FALSE /\ memory = 0 /\ file = 0
    /\ refresh = Idle /\ answer = 0 /\ grant = "none" /\ granted = 0
    /\ calls = [c \in Call |-> [pc |-> "idle", token |-> 0]]
    /\ issued = 0 /\ expired = {} /\ sent = [k \in Pair |-> 0]
    /\ revoked = 0 /\ lost = {} /\ faults = 0

----------------------------------------------------------------------------
(* What an answer or its failure does to those that wait for it. *)

\* A waiting call goes on with the token the manager holds now.
Handed(c) == [pc |-> "again", token |-> memory]

Resume == calls' = [c \in Call |-> IF calls[c].pc = "waiting" THEN Handed(c) ELSE calls[c]]

Reject(outcome) ==
    calls' = [c \in Call |->
        IF calls[c].pc = "waiting" THEN [calls[c] EXCEPT !.pc = outcome] ELSE calls[c]]

\* Presentations are counted once and as more than once.
Again(n) == IF n = 0 THEN 1 ELSE 2

Fault == faults < MaxFaults /\ faults' = faults + 1

----------------------------------------------------------------------------
(* The process. *)

\* The store is loaded before the server starts; the URL is offered to a
\* bridge without a refresh token.
Start ==
    /\ ~up /\ up' = TRUE
    /\ memory' = file
    /\ grant' = IF file = 0 THEN "offered" ELSE "none"
    /\ UNCHANGED <<file, refresh, answer, granted, calls, issued, expired, sent, revoked, lost, faults>>

\* The process dies with what it holds, its calls and the promise they share;
\* a request that is out may still reach Linear.
Crash ==
    /\ up /\ up' = FALSE /\ Fault
    /\ memory' = 0 /\ refresh' = Idle /\ answer' = 0
    /\ grant' = "none" /\ granted' = 0
    /\ calls' = [c \in Call |-> [pc |-> "idle", token |-> 0]]
    /\ lost' = lost \cup ({refresh.pair} \ {0})
    /\ \/ UNCHANGED sent
       \/ refresh.for = "sent" /\ sent' = [sent EXCEPT ![refresh.pair] = Again(@)]
    /\ UNCHANGED <<file, issued, expired, revoked>>

----------------------------------------------------------------------------
(* A call of the client. *)

\* A step of a call alone.
Elsewhere ==
    UNCHANGED <<up, memory, file, refresh, answer, grant, granted, issued, expired, sent, revoked, lost, faults>>

\* createActivity and queryGraphQL: the request goes out with the manager's token.
Post(c) ==
    /\ up /\ c \notin InFlight
    /\ calls' = [calls EXCEPT ![c] = [pc |-> "posted", token |-> memory]]
    /\ Elsewhere

\* Linear accepts the token, at once or on the one retry.
Served(c) ==
    /\ calls[c].pc \in {"posted", "again"} /\ calls[c].token \notin expired
    /\ calls' = [calls EXCEPT ![c].pc = "done"]
    /\ Elsewhere

Refused(c, pc) == calls[c].pc = pc /\ calls[c].token \in expired

\* A mutant of Replaced: a token that was replaced meanwhile is not noticed.
ReplacedUnseen(c) == FALSE

\* Another caller has rotated the pair while this request was in flight.
Replaced(c) == calls[c].token # memory

UseReplaced(c) ==
    /\ Refused(c, "posted") /\ Replaced(c)
    /\ calls' = [calls EXCEPT ![c] = Handed(c)]
    /\ Elsewhere

\* refreshPromise is there: from the request to the end of the write.
Shared == refresh.for # "idle"

JoinRefresh(c) ==
    /\ Refused(c, "posted") /\ ~Replaced(c) /\ Shared
    /\ calls' = [calls EXCEPT ![c].pc = "waiting"]
    /\ Elsewhere

\* There is nothing to send.
NoRefreshToken(c) ==
    /\ Refused(c, "posted") /\ ~Replaced(c) /\ ~Shared /\ memory = 0
    /\ calls' = [calls EXCEPT ![c].pc = "unauthorized"]
    /\ Elsewhere

\* The first call refused sends the refresh token of the pair it was refused.
BeginRefresh(c) ==
    /\ Refused(c, "posted") /\ ~Replaced(c) /\ ~Shared /\ memory # 0
    /\ refresh' = [for |-> "sent", pair |-> memory]
    /\ calls' = [calls EXCEPT ![c].pc = "waiting"]
    /\ UNCHANGED <<up, memory, file, answer, grant, granted, issued, expired, sent, revoked, lost, faults>>

\* The retry is refused as well, and the call gives up.
RefusedTwice(c) ==
    /\ Refused(c, "again")
    /\ calls' = [calls EXCEPT ![c].pc = "unauthorized"]
    /\ Elsewhere

\* The signal of a call aborts its request or its wait; the refresh goes on.
Abort(c) ==
    /\ c \in InFlight
    /\ calls' = [calls EXCEPT ![c].pc = "aborted"]
    /\ Elsewhere

----------------------------------------------------------------------------
(* The refresh all waiting calls share. *)

\* A mutant of Install: the pair is kept only once it is in the file.
InstallStored(k) == UNCHANGED memory

\* install: the pair is in memory before it is written.
Install(k) == memory' = k

\* Linear consumes a refresh token it sees for the first time and issues the
\* next pair; it refuses one that it has seen, or that was revoked.
Presented ==
    /\ refresh.for = "sent"
    /\ refresh' = [refresh EXCEPT !.for = "answered"]
    /\ sent' = [sent EXCEPT ![refresh.pair] = Again(@)]
    /\ IF sent[refresh.pair] = 0 /\ refresh.pair > revoked
         THEN issued < MaxPair /\ issued' = issued + 1 /\ answer' = issued + 1
         ELSE UNCHANGED <<issued, answer>>
    /\ UNCHANGED <<up, memory, file, grant, granted, calls, expired, revoked, lost, faults>>

\* The request fails before Linear has seen the token.
RequestFails ==
    /\ refresh.for = "sent" /\ Fault
    /\ refresh' = Idle /\ Reject("failed")
    /\ UNCHANGED <<up, memory, file, answer, grant, granted, issued, expired, sent, revoked, lost>>

Answered ==
    /\ refresh.for = "answered" /\ answer # 0
    /\ Install(answer)
    /\ refresh' = [refresh EXCEPT !.for = "writing"]
    /\ UNCHANGED <<up, file, answer, grant, granted, calls, issued, expired, sent, revoked, lost, faults>>

\* The new file is renamed into place, the promise is cleared and fulfilled.
Stored ==
    /\ refresh.for = "writing"
    /\ file' = answer /\ answer' = 0 /\ refresh' = Idle
    /\ Resume
    /\ UNCHANGED <<up, memory, grant, granted, issued, expired, sent, revoked, lost, faults>>

\* Linear refuses the token.
RefreshRefused ==
    /\ refresh.for = "answered" /\ answer = 0
    /\ refresh' = Idle /\ Reject("unauthorized")
    /\ UNCHANGED <<up, memory, file, answer, grant, granted, issued, expired, sent, revoked, lost, faults>>

\* The answer is lost, or is no pair: the token is spent for nothing.
AnswerLost ==
    /\ refresh.for = "answered" /\ Fault
    /\ lost' = lost \cup {refresh.pair}
    /\ refresh' = Idle /\ answer' = 0 /\ Reject("failed")
    /\ UNCHANGED <<up, memory, file, grant, granted, issued, expired, sent, revoked>>

\* The write fails: the calls fail, the process keeps the pair.
WriteFails ==
    /\ refresh.for = "writing" /\ Fault
    /\ lost' = lost \cup {refresh.pair}
    /\ refresh' = Idle /\ answer' = 0 /\ Reject("failed")
    /\ UNCHANGED <<up, memory, file, grant, granted, issued, expired, sent, revoked>>

----------------------------------------------------------------------------
(* The authorization in the browser. *)

\* The URL's state is consumed and its code exchanged for a pair.
Authorize ==
    /\ grant = "offered" /\ issued < MaxPair
    /\ grant' = "writing" /\ issued' = issued + 1 /\ granted' = issued + 1
    /\ Install(issued + 1)
    /\ UNCHANGED <<up, file, refresh, answer, calls, expired, sent, revoked, lost, faults>>

GrantStored ==
    /\ grant = "writing"
    /\ file' = granted
    /\ grant' = "none" /\ granted' = 0
    /\ UNCHANGED <<up, memory, refresh, answer, calls, issued, expired, sent, revoked, lost, faults>>

\* The exchange or the write of its pair fails; only a restart offers another URL.
AuthorizationFails ==
    /\ grant # "none" /\ Fault
    /\ grant' = "none" /\ granted' = 0
    /\ UNCHANGED <<up, memory, file, refresh, answer, calls, issued, expired, sent, revoked, lost>>

----------------------------------------------------------------------------

\* Linear lets an access token expire.  It lives for a day, far longer than a
\* request, a refresh or a write: no call is between two tokens, none is being
\* written.
Expire(k) ==
    /\ k <= issued /\ k < MaxPair /\ k \notin expired
    /\ k \notin {answer, granted}
    /\ \A c \in InFlight : calls[c].token = k /\ calls[c].pc # "again"
    /\ expired' = expired \cup {k}
    /\ UNCHANGED <<up, memory, file, refresh, answer, grant, granted, calls, issued, sent, revoked, lost, faults>>

\* The grant is revoked, or the app removed, in Linear.
Revoke ==
    /\ Fault /\ revoked' = issued
    /\ expired' = expired \cup 0..issued
    /\ UNCHANGED <<up, memory, file, refresh, answer, grant, granted, calls, issued, sent, lost>>

Calling(c) ==
    \/ Post(c) \/ Served(c) \/ UseReplaced(c) \/ JoinRefresh(c) \/ NoRefreshToken(c)
    \/ BeginRefresh(c) \/ RefusedTwice(c) \/ Abort(c)

Rotation == Presented \/ RequestFails \/ Answered \/ Stored \/ RefreshRefused \/ AnswerLost \/ WriteFails

Next ==
    \/ Start \/ Crash
    \/ \E c \in Call : Calling(c)
    \/ Rotation
    \/ Authorize \/ GrantStored \/ AuthorizationFails
    \/ Revoke \/ \E k \in 0..MaxPair : Expire(k)

Spec == Init /\ [][Next]_vars

----------------------------------------------------------------------------
(* Properties. *)

\* A refresh token is presented only after Linear has refused the access token
\* it came with, however late a call learns of the refusal, and a second time
\* only if the pair that replaced it did not reach the file or Linear voids both.
RotatesOnce ==
    \A k \in Pair :
        /\ sent[k] > 0 => k \in expired
        /\ sent[k] > 1 => k \in lost \/ k <= revoked

\* A call goes without access only for want of a refresh token, by revocation,
\* or because its process was left with a pair whose replacement had been lost:
\* not because others rotated the pair under it or a write failed.
AccessRenews ==
    \A c \in Call :
        calls[c].pc = "unauthorized" => calls[c].token \in lost \/ calls[c].token <= revoked

----------------------------------------------------------------------------
(* The inductive invariant. *)

Known == 0..issued

CallRecord ==
    [pc : {"idle", "posted", "waiting", "again", "done", "unauthorized", "failed", "aborted"},
     token : Known]

TypeOK ==
    /\ up \in BOOLEAN
    /\ issued \in 0..MaxPair /\ faults \in Nat
    /\ memory \in Known /\ file \in Known /\ answer \in Known
    /\ granted \in Known /\ revoked \in Known
    /\ refresh \in [for : {"idle", "sent", "answered", "writing"}, pair : Known]
    /\ grant \in {"none", "offered", "writing"}
    /\ calls \in [Call -> CallRecord]
    /\ expired \subseteq Known
    /\ sent \in [Pair -> 0..2]
    /\ lost \subseteq Pair

Good(k) == k \notin expired \/ k <= revoked
Gone(k) == k \in lost \/ k <= revoked

\* A process that is down holds nothing.
DownIsEmpty ==
    ~up => /\ memory = 0 /\ refresh = Idle /\ answer = 0
           /\ grant = "none" /\ granted = 0
           /\ InFlight = {}

\* What each stage of a rotation or an authorization has in hand.
Rotating ==
    /\ refresh.for = "idle" => refresh.pair = 0
    /\ refresh.for # "idle" => refresh.pair # 0 /\ refresh.pair \in expired
    /\ refresh.for \in {"idle", "sent"} => answer = 0
    /\ refresh.for \in {"sent", "answered"} => memory = refresh.pair
    /\ refresh.for = "answered" =>
          IF answer = 0 THEN Gone(refresh.pair) ELSE answer > memory
    /\ refresh.for = "writing" => memory = answer /\ answer > refresh.pair
    /\ answer # 0 => Good(answer)

Authorizing ==
    /\ grant # "writing" => granted = 0
    /\ grant = "offered" => memory = 0
    /\ grant = "writing" =>
          /\ memory = granted /\ granted # 0 /\ Good(granted) /\ answer = 0
          /\ refresh.for # "idle" => granted <= revoked

\* The file is never ahead of the memory, and what was spent is behind it.
Spent ==
    /\ up => file <= memory
    /\ \A k \in Pair : sent[k] > 0 =>
          \/ Gone(k) \/ k < file
          \/ refresh.for \in {"answered", "writing"} /\ refresh.pair = k

\* A call that waits waits for its own token; a token it is handed is good.
Sound(r) ==
    /\ r.pc = "waiting" => refresh.for # "idle" /\ (r.token = refresh.pair \/ r.token <= revoked)
    /\ r.pc = "again" => Good(r.token)
    /\ r.pc \in {"posted", "waiting"} /\ r.token # memory => Good(memory)
    /\ r.pc = "unauthorized" => Gone(r.token)

Handing == \A c \in Call : Sound(calls[c])

IInv ==
    /\ TypeOK /\ DownIsEmpty /\ Rotating /\ Authorizing /\ Spent /\ Handing
    /\ RotatesOnce
=============================================================================
