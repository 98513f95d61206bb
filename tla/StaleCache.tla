------------------------------ MODULE StaleCache ------------------------------
(***************************************************************************)
(* What the live layers of the server share: a wall clock, and a load      *)
(* through a TTL cache that falls back on what is held, however old        *)
(* (src/server/warnings/stale-cache.ts, and serveCached of                 *)
(* src/server/route-helpers.ts, seen from one request).  The cache's       *)
(* single flight and eviction are ProxiedRoute's.                          *)
(*                                                                         *)
(* A refusal by an outbound gate is handled as a failure of the upstream,  *)
(* and is one here.                                                        *)
(***************************************************************************)
EXTENDS Integers

CONSTANTS
    Absent,    \* no entry, no half, no value
    MaxClock   \* bound: the last tick of the clock

VARIABLE clock \* the wall clock

\* Mutant of LoadWithStaleFallback: a failed load serves nothing.
LoadOrNothing(held, ttl, answers) ==
    IF held # Absent /\ clock < held.at + ttl THEN {[held |-> held, stale |-> FALSE]}
    ELSE {[held |-> Absent, stale |-> FALSE]}
         \cup {[held |-> [value |-> answer, at |-> clock], stale |-> FALSE] : answer \in answers}

\* The ways a load may end: what is fresh is served without asking, else the upstream
\* answers, or fails and leaves what is held, however old.
LoadWithStaleFallback(held, ttl, answers) ==
    IF held # Absent /\ clock < held.at + ttl THEN {[held |-> held, stale |-> FALSE]}
    ELSE {[held |-> held, stale |-> held # Absent]}
         \cup {[held |-> [value |-> answer, at |-> clock], stale |-> FALSE] : answer \in answers}

===============================================================================
