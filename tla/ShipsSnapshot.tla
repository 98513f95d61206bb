----------------------------- MODULE ShipsSnapshot -----------------------------
(***************************************************************************)
(* The one nationwide snapshot of ships that the ships route and the trail *)
(* poller share (src/server/ships/snapshot.ts), with the fetch behind it   *)
(* (fetchAllShips in barentswatch.ts) and its OAuth token (token.ts).      *)
(*                                                                         *)
(* The source keeps moments; here they are ages, which count up to a cap   *)
(* that nothing looks beyond, so that time runs for ever.                  *)
(***************************************************************************)
EXTENDS Naturals

CONSTANTS
    RefreshMs,   \* refreshMs: least spacing of the starts of two fetches
    MaxStaleMs,  \* maxStaleMs: the age past which a failed refresh drops the snapshot
    RefreshAt,   \* the age at which a token is replaced, 80% of ExpiresIn
    ExpiresIn,   \* the age at which BarentsWatch stops honouring it
    MaxFlight,   \* four requests, each given up after upstreamTimeoutMs
    MaxTrouble   \* bound: faults of the upstream, and revocations of a token

ASSUME SnapshotAssumption ==
    /\ RefreshMs \in Nat \ {0}
    /\ MaxStaleMs \in Nat
    /\ RefreshAt \in Nat \ {0} /\ ExpiresIn \in Nat /\ RefreshAt <= ExpiresIn
    /\ MaxFlight \in Nat /\ MaxFlight < ExpiresIn
    /\ MaxTrouble \in Nat

VARIABLES
    held,         \* "ships" when snapshot is set
    age,          \* now - snapshotAt
    lastFailure,  \* "failed" when lastFailure is set
    sinceAttempt, \* now - lastAttemptAt
    stage,        \* where the fetch in flight is, or "idle"
    startAge,     \* nowMs - snapshotAt of the refresh in flight
    token,        \* the cached token: "none", or whether BarentsWatch still honours it
    tokenAge,
    answer,       \* history: the newest answer given, and the age of its ships
    luck,         \* history: "bad" when the fetch in flight met trouble it cannot absorb
    troubles      \* troubles so far

snapshotVars == <<held, age, lastFailure>>
attemptVars == <<sinceAttempt, startAge>>
tokenVars == <<token, tokenAge>>
historyVars == <<answer, luck, troubles>>
vars == <<snapshotVars, attemptVars, stage, tokenVars, historyVars>>

\* Ages from here on look the same to every condition.
AgeCap == MaxStaleMs + RefreshMs + MaxFlight + 1

Stages == {"idle", "token", "request", "retryToken", "retryRequest"}

InFlight == stage # "idle"

\* Mutant of Gated: a failure keeps callers from fetching for good.
GatedByFailure == sinceAttempt < RefreshMs \/ lastFailure = "failed"

Gated == sinceAttempt < RefreshMs

TypeOK ==
    /\ held \in {"nothing", "ships"}
    /\ age \in 0..AgeCap /\ startAge \in 0..AgeCap /\ sinceAttempt \in 0..AgeCap
    /\ lastFailure \in {"none", "failed"}
    /\ ~InFlight /\ Gated => held = "ships" \/ lastFailure = "failed"
    /\ stage \in Stages
    /\ token \in {"none", "honoured", "revoked"} /\ tokenAge \in 0..ExpiresIn
    /\ answer \in [what : {"ships", "error"}, age : 0..AgeCap]
    /\ luck \in {"good", "bad"}
    /\ troubles \in 0..MaxTrouble

Init ==
    /\ held = "nothing" /\ age = AgeCap /\ lastFailure = "none"
    /\ sinceAttempt = AgeCap /\ startAge = AgeCap
    /\ stage = "idle"
    /\ token = "none" /\ tokenAge = 0
    /\ answer = [what |-> "error", age |-> 0]
    /\ luck = "good" /\ troubles = 0

-------------------------------------------------------------------------------
(* ships(): a caller asks.  One that finds a fetch in flight awaits its end, and that is *)
(* all that happens. *)

Answered(what, old) == answer' = [what |-> what, age |-> old]

\* Inside the window a held snapshot is served, whatever its age ...
ServeHeld ==
    /\ ~InFlight /\ Gated /\ held = "ships"
    /\ Answered("ships", age)
    /\ UNCHANGED <<snapshotVars, attemptVars, stage, tokenVars, luck, troubles>>

\* ... or else the last failure ...
ServeFailure ==
    /\ ~InFlight /\ Gated /\ held = "nothing" /\ lastFailure = "failed"
    /\ Answered("error", 0)
    /\ UNCHANGED <<snapshotVars, attemptVars, stage, tokenVars, luck, troubles>>

\* ... and otherwise a fetch begins, and the moment of the attempt is stamped.
Begin ==
    /\ ~InFlight
    /\ ~(Gated /\ (held = "ships" \/ lastFailure = "failed"))
    /\ sinceAttempt' = 0 /\ startAge' = age
    /\ stage' = "token"
    /\ luck' = "good"
    /\ UNCHANGED <<snapshotVars, tokenVars, answer, troubles>>

-------------------------------------------------------------------------------
(* The end of a fetch: refresh, and every waiting caller is answered. *)

\* nowMs, the start of the fetch, becomes the age of what it brought.
Succeed ==
    /\ held' = "ships" /\ age' = sinceAttempt /\ lastFailure' = "none"
    /\ stage' = "idle"
    /\ Answered("ships", sinceAttempt)
    /\ UNCHANGED attemptVars

\* Mutant of HeldAfterFailure: an outlived snapshot is not served now, but kept.
HeldAfterFailureKept == held

\* A held snapshot outlives a failure until it is past maxStaleMs; then it is dropped.
HeldAfterFailure == IF startAge > MaxStaleMs THEN "nothing" ELSE held

Fail ==
    /\ lastFailure' = "failed"
    /\ held' = HeldAfterFailure
    /\ stage' = "idle"
    /\ IF held' = "ships" THEN Answered("ships", age) ELSE Answered("error", 0)
    /\ UNCHANGED <<age, attemptVars>>

-------------------------------------------------------------------------------
(* fetchAllShips. *)

\* A fault of the network or of the upstream: counted, and nothing can absorb it.
Fault == troubles < MaxTrouble /\ troubles' = troubles + 1 /\ luck' = "bad"

NeedsToken == stage \in {"token", "retryToken"}
Requesting == stage \in {"request", "retryRequest"}

TokenUsable == token # "none" /\ tokenAge < RefreshAt
HonouredNow == token = "honoured" /\ tokenAge < ExpiresIn

Request == stage' = IF stage = "token" THEN "request" ELSE "retryRequest"

CachedToken ==
    /\ NeedsToken /\ TokenUsable
    /\ Request
    /\ UNCHANGED <<snapshotVars, attemptVars, tokenVars, historyVars>>

NewToken ==
    /\ NeedsToken /\ ~TokenUsable
    /\ token' = "honoured" /\ tokenAge' = 0
    /\ Request
    /\ UNCHANGED <<snapshotVars, attemptVars, historyVars>>

NoToken ==
    /\ NeedsToken /\ ~TokenUsable
    /\ Fault
    /\ Fail
    /\ UNCHANGED tokenVars

Ships ==
    /\ Requesting /\ HonouredNow
    /\ Succeed
    /\ UNCHANGED <<tokenVars, luck, troubles>>

\* Mutant of Unauthorized: the cached token is tried again.
UnauthorizedKeepsToken ==
    /\ stage = "request" /\ ~HonouredNow
    /\ stage' = "retryToken"
    /\ UNCHANGED <<snapshotVars, attemptVars, tokenVars, historyVars>>

\* The first 401: the token is dropped and a new one tried, once ...
Unauthorized ==
    /\ stage = "request" /\ ~HonouredNow
    /\ token' = "none"
    /\ stage' = "retryToken"
    /\ UNCHANGED <<snapshotVars, attemptVars, tokenAge, historyVars>>

\* ... the second 401 is the answer.
UnauthorizedAgain ==
    /\ stage = "retryRequest" /\ ~HonouredNow
    /\ Fail
    /\ UNCHANGED <<tokenVars, luck, troubles>>

\* No answer in time, an error status, or a body that does not pass the schema.
NoShips ==
    /\ Requesting
    /\ Fault
    /\ Fail
    /\ UNCHANGED tokenVars

-------------------------------------------------------------------------------
(* The world. *)

\* BarentsWatch stops honouring the token it issued; only a fetch whose retry already
\* holds the new token cannot absorb that.
Revoke ==
    /\ token = "honoured" /\ troubles < MaxTrouble
    /\ troubles' = troubles + 1
    /\ token' = "revoked"
    /\ luck' = IF stage = "retryRequest" THEN "bad" ELSE luck
    /\ UNCHANGED <<snapshotVars, attemptVars, stage, tokenAge, answer>>

Older(a, cap) == IF a < cap THEN a + 1 ELSE cap

\* A fetch does not outlast its timeouts.
Tick ==
    /\ InFlight => sinceAttempt < MaxFlight
    /\ age' = Older(age, AgeCap)
    /\ sinceAttempt' = Older(sinceAttempt, AgeCap)
    /\ tokenAge' = IF token = "none" THEN tokenAge ELSE Older(tokenAge, ExpiresIn)
    /\ UNCHANGED <<held, lastFailure, startAge, stage, token, historyVars>>

-------------------------------------------------------------------------------

Ask == ServeHeld \/ ServeFailure \/ Begin

FetchStep ==
    CachedToken \/ NewToken \/ NoToken \/ Ships \/ Unauthorized \/ UnauthorizedAgain \/ NoShips

Next == Ask \/ FetchStep \/ Revoke \/ Tick

Spec == Init /\ [][Next]_vars

\* The trail poller asks for ever, requests are answered or time out, and time passes.
FairSpec == Spec /\ WF_vars(Ask) /\ WF_vars(FetchStep) /\ WF_vars(Tick)

-------------------------------------------------------------------------------
(* Correctness. *)

\* BarentsWatch is asked at most once in a window, also while it fails: every attempt
\* starts at least refreshMs after the one before (the gate on the last attempt).
AttemptsAreSpaced ==
    [][ stage = "idle" /\ stage' # "idle" => sinceAttempt >= RefreshMs ]_vars

\* The oldest ships ever served: a snapshot that a failed refresh kept just before it
\* outlived maxStaleMs, served till the end of that window or of the next fetch.
ServedAgeBound ==
    answer.what = "ships" =>
        \/ answer.age < MaxStaleMs + RefreshMs
        \/ answer.age <= MaxStaleMs + MaxFlight

\* A fetch fails only when the upstream did: a token that expired or was revoked at any
\* moment before the retry holds its own costs nothing (the retry after one 401).
NoNeedlessFailure ==
    [][ InFlight /\ ~InFlight' /\ lastFailure' = "failed" => luck' = "bad" ]_vars

\* Whatever failed before, once the trouble is over ships are served again and again.
Recovers == []<>(answer.what = "ships" /\ answer.age <= MaxFlight)

\* What the header of snapshot.ts says of a snapshot past maxStaleMs: "the error
\* surfaces instead".
PastMaxStaleIsError ==
    answer.what = "ships" => answer.age <= MaxStaleMs

===============================================================================
