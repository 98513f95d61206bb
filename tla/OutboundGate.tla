----------------------------- MODULE OutboundGate -----------------------------
(***************************************************************************)
(* The token bucket that bounds how often the server calls an upstream,    *)
(* however many visitors ask (src/server/outbound-gate.ts), on a wall      *)
(* clock that may be stepped back.                                         *)
(*                                                                         *)
(* The source counts tokens in fractions, one per minIntervalMs; credit is *)
(* the same number in milliseconds, so that a token is MinInterval of it.  *)
(***************************************************************************)
EXTENDS Integers, Sequences

CONSTANTS
    MinInterval, \* minIntervalMs: one token accrues in this time
    Burst,       \* tokens that can be banked
    Never,       \* lastRefillMs before the first call
    MaxTravel    \* bound: how far the clock moves forward in a behaviour

ASSUME GateAssumption ==
    /\ MinInterval \in Nat \ {0}
    /\ Burst \in Nat \ {0}
    /\ Never \notin Int
    /\ MaxTravel \in Nat

VARIABLES
    now,        \* the wall clock, Date.now()
    travel,     \* history: how far the clock has moved forward, steps back not subtracted
    credit,     \* tokens, in milliseconds
    lastRefill, \* lastRefillMs
    seen,       \* history: travel at the last call of tryTake
    takes       \* history: travel at each call that was let through

gateVars == <<now, travel, credit, lastRefill, seen, takes>>
bucket == <<credit, lastRefill, seen, takes>>

Full == Burst * MinInterval

GateTypeOK ==
    /\ now \in Nat /\ travel \in Nat /\ seen \in Nat
    /\ credit \in 0..Full
    /\ lastRefill \in Nat \cup {Never}
    /\ takes \in Seq(Nat)

GateInit ==
    /\ now = 0 /\ travel = 0 /\ seen = 0
    /\ credit = Full
    /\ lastRefill = Never
    /\ takes = <<>>

\* A clock that went back means that no time passed.
Elapsed == IF lastRefill = Never \/ now < lastRefill THEN 0 ELSE now - lastRefill

\* Mutant of Refilled: a quiet night banks more than a burst.
RefilledUncapped == credit + Elapsed

Refilled == IF credit + Elapsed > Full THEN Full ELSE credit + Elapsed

\* tryTake lets the call through ...
Take ==
    /\ Refilled >= MinInterval
    /\ credit' = Refilled - MinInterval
    /\ lastRefill' = now
    /\ seen' = travel
    /\ takes' = Append(takes, travel)
    /\ UNCHANGED <<now, travel>>

\* ... or refuses it, which still moves the refill on.
Refuse ==
    /\ Refilled < MinInterval
    /\ credit' = Refilled
    /\ lastRefill' = now
    /\ seen' = travel
    /\ UNCHANGED <<now, travel, takes>>

Advance ==
    /\ \E d \in 1..(MaxTravel - travel) :
           /\ now' = now + d
           /\ travel' = travel + d
    /\ UNCHANGED bucket

\* NTP or a person steps the clock back.
StepBack ==
    /\ \E d \in 1..now : now' = now - d
    /\ UNCHANGED <<travel, bucket>>

GateNext == Take \/ Refuse \/ Advance \/ StepBack

GateSpec == GateInit /\ [][GateNext]_gateVars

-------------------------------------------------------------------------------
(* Correctness. *)

\* Any run of calls let through, from the i-th to the j-th, needs the time in between:
\* at most a burst, and one more for each MinInterval the clock moved forward.  A clock
\* stepped back and run forward again does mint the tokens of the stretch it repeats, as
\* travel counts that stretch twice; stepping back by itself mints none.
WindowBound ==
    \A i, j \in DOMAIN takes :
        i <= j => (j - i + 1) * MinInterval <= Full + (takes[j] - takes[i])

===============================================================================
