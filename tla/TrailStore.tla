------------------------------ MODULE TrailStore ------------------------------
(***************************************************************************)
(* The server's memory of where vessels have been                          *)
(* (src/server/trails/store.ts), fed by the background poller (poller.ts,  *)
(* support.ts) and by the ships and aircraft routes at once.               *)
(*                                                                         *)
(* A load is given what the upstream knows at that moment, or what the     *)
(* client of the upstream still holds of its last answer (the shared       *)
(* snapshot of ships serves that between fetches and through failed ones), *)
(* and records it later: loads overlap, and are recorded in any order.     *)
(* The poller stamps what it records with the time its poll began, a route *)
(* with the time it records.                                               *)
(***************************************************************************)
EXTENDS Naturals, Sequences, SequencesExt, Lists

CONSTANTS
    Vessels,
    Places,
    None,          \* no load, no fix, no report yet
    Unreadable,    \* a timestamp that Date.parse does not read
    MaxPoints,     \* maxPoints
    MaxAgeMs,      \* maxAgeMs
    ForgetAfterMs, \* forgetAfterMs
    MaxFlight,     \* a load is over by then: its requests, each within upstreamTimeoutMs
    MaxServed,     \* the age up to which an answer is given again (ServedAgeBound of ShipsSnapshot)
    Slots,         \* bound: loads in flight at once
    MaxMoves,      \* bound: reports of the vessels to the upstream
    MaxNow         \* bound: the clock

ASSUME TrailAssumption ==
    /\ MaxPoints \in Nat \ {0}
    /\ MaxAgeMs \in Nat /\ ForgetAfterMs \in Nat \ {0}
    /\ MaxFlight \in Nat /\ MaxServed \in Nat /\ MaxNow \in Nat /\ MaxMoves \in Nat
    /\ Unreadable \notin Nat /\ None \notin Nat

VARIABLES
    now,     \* the clock
    world,   \* the fix the upstream has of each vessel, or None
    moves,   \* reports of the vessels so far
    held,    \* the upstream's last answer, as its client holds it, or None
    entries, \* the store's Map, a function of the vessels it remembers
    loads,   \* the loads in flight
    seenAt,  \* history: when the newest report recorded of a vessel was made, or None
    visited  \* history: "yes" once a route has recorded

vars == <<now, world, moves, held, entries, loads, seenAt, visited>>

Fixes == [place : Places, at : Nat \cup {Unreadable}]

KnownFixes(report) == DOMAIN report \subseteq Vessels /\ \A v \in DOMAIN report : report[v] \in Fixes

Entries == [latest : Fixes, points : Seq([place : Places, at : Nat]), lastSeenMs : Nat]

IsLoad(load) ==
    /\ load.by \in {"poll", "visit"}
    /\ load.startedAt \in Nat /\ load.reportedAt \in Nat
    /\ load.report # None => KnownFixes(load.report)

TypeOK ==
    /\ now \in Nat
    /\ world \in [Vessels -> Fixes \cup {None}] /\ moves \in Nat
    /\ held # None => held.at \in Nat /\ KnownFixes(held.known)
    /\ DOMAIN entries \subseteq Vessels
    /\ \A v \in DOMAIN entries : entries[v] \in Entries /\ Len(entries[v].points) <= MaxPoints
    /\ loads = [i \in Slots |-> loads[i]]
    /\ \A i \in Slots : loads[i] # None => IsLoad(loads[i])
    /\ seenAt \in [Vessels -> Nat \cup {None}]
    /\ visited \in {"yes", "no"}

Init ==
    /\ now = 0
    /\ world = [v \in Vessels |-> None] /\ moves = 0 /\ held = None
    /\ entries = [v \in {} |-> None]
    /\ loads = [i \in Slots |-> None]
    /\ seenAt = [v \in Vessels |-> None]
    /\ visited = "no"

-------------------------------------------------------------------------------
(* record. *)

InWindow(point, t) == point.at + MaxAgeMs >= t

Fresh(points, t) == Kept(points, {point \in ToSet(points) : InWindow(point, t)})

\* The last MaxPoints of them.
Capped(points) ==
    IF Len(points) > MaxPoints THEN SubSeq(points, Len(points) - MaxPoints + 1, Len(points))
                               ELSE points

IsRepeat(kept, next) ==
    kept # <<>> /\ (Last(kept).place = next.place \/ Last(kept).at = next.at)

AppendPoint(points, next, t) ==
    LET kept == Fresh(points, t)
    IN Capped(IF IsRepeat(kept, next) \/ ~InWindow(next, t) THEN kept ELSE Append(kept, next))

PointsOf(v) == IF v \in DOMAIN entries THEN entries[v].points ELSE <<>>

Entry(latest, points, lastSeenMs) ==
    [latest |-> latest, points |-> points, lastSeenMs |-> lastSeenMs]

\* A vessel in the report: an unreadable timestamp adds nothing to the history.
Seen(v, fix, t) ==
    Entry(fix, IF fix.at = Unreadable THEN PointsOf(v) ELSE AppendPoint(PointsOf(v), fix, t), t)

\* Mutant of LongGone: a vessel goes with its history.
LongGoneWithHistory(entry, t) == t >= entry.lastSeenMs + MaxAgeMs

LongGone(entry, t) == t >= entry.lastSeenMs + ForgetAfterMs

\* Every entry ages, also of the vessels that are not in the report.
Recorded(report, t) ==
    LET folded == [v \in DOMAIN entries \cup DOMAIN report |->
                      IF v \in DOMAIN report THEN Seen(v, report[v], t) ELSE entries[v]]
    IN [v \in {u \in DOMAIN folded : ~LongGone(folded[u], t)} |->
           Entry(folded[v].latest, Fresh(folded[v].points, t), folded[v].lastSeenMs)]

-------------------------------------------------------------------------------
(* The poller and the routes. *)

Idle(i) == loads[i] = None
Polling == \E i \in Slots : loads[i] # None /\ loads[i].by = "poll"

Start(i, by) ==
    /\ Idle(i)
    /\ loads' = [loads EXCEPT ![i] = [by |-> by, startedAt |-> now, report |-> None,
                                      reportedAt |-> 0]]
    /\ UNCHANGED <<now, world, moves, held, entries, seenAt, visited>>

\* Mutant of StartPoll: a tick does not look whether a poll is still running.
StartPollAnyway(i) == Start(i, "poll")

\* A tick of the interval; it is skipped while the source's previous poll is running.
StartPoll(i) == ~Polling /\ Start(i, "poll")

\* A browser asks for a viewport that is not cached.
StartVisit(i) == Start(i, "visit")

\* A load is answered with those of the known fixes that are in its area.
Answer(i, known, at) ==
    /\ ~Idle(i) /\ loads[i].report = None
    /\ \E area \in SUBSET DOMAIN known :
          loads' = [loads EXCEPT ![i] = [@ EXCEPT !.report = [v \in area |-> known[v]],
                                                  !.reportedAt = at]]
    /\ UNCHANGED <<now, world, moves, entries, seenAt, visited>>

KnownNow == [v \in {u \in Vessels : world[u] # None} |-> world[v]]

\* The upstream answers with the fixes it has, and its client holds them.
Report(i) ==
    /\ Answer(i, KnownNow, now)
    /\ held' = [known |-> KnownNow, at |-> now]

\* The client gives what it holds: no new fetch is due, or the fetch failed.
Reuse(i) ==
    /\ held # None /\ now <= held.at + MaxServed
    /\ Answer(i, held.known, held.at)
    /\ UNCHANGED held

StampOf(i) == IF loads[i].by = "poll" THEN loads[i].startedAt ELSE now

Later(a, b) == IF a = None THEN b ELSE IF a > b THEN a ELSE b

Record(i) ==
    /\ ~Idle(i) /\ loads[i].report # None
    /\ entries' = Recorded(loads[i].report, StampOf(i))
    /\ loads' = [loads EXCEPT ![i] = None]
    /\ seenAt' = [v \in Vessels |-> IF v \in DOMAIN loads[i].report
                                      THEN Later(seenAt[v], loads[i].reportedAt) ELSE seenAt[v]]
    /\ visited' = IF loads[i].by = "visit" THEN "yes" ELSE visited
    /\ UNCHANGED <<now, world, moves, held>>

\* The upstream fails or times out: the history stays as it is, and the schedule goes on.
LoadFails(i) ==
    /\ ~Idle(i)
    /\ loads' = [loads EXCEPT ![i] = None]
    /\ UNCHANGED <<now, world, moves, held, entries, seenAt, visited>>

-------------------------------------------------------------------------------
(* The world. *)

\* A vessel reports, or comes within range.
Moves(v, place) ==
    /\ moves < MaxMoves
    /\ moves' = moves + 1
    /\ \E at \in {now, Unreadable} : world' = [world EXCEPT ![v] = [place |-> place, at |-> at]]
    /\ UNCHANGED <<now, held, entries, loads, seenAt, visited>>

Leaves(v) ==
    /\ world[v] # None
    /\ world' = [world EXCEPT ![v] = None]
    /\ UNCHANGED <<now, moves, held, entries, loads, seenAt, visited>>

Tick ==
    /\ now < MaxNow
    /\ \A i \in Slots : ~Idle(i) => now < loads[i].startedAt + MaxFlight
    /\ now' = now + 1
    /\ UNCHANGED <<world, moves, held, entries, loads, seenAt, visited>>

Next ==
    \/ \E i \in Slots : StartPoll(i) \/ StartVisit(i) \/ Report(i) \/ Reuse(i) \/ Record(i)
                       \/ LoadFails(i)
    \/ \E v \in Vessels : Leaves(v) \/ \E place \in Places : Moves(v, place)
    \/ Tick

Spec == Init /\ [][Next]_vars

-------------------------------------------------------------------------------
(* What the routes read. *)

\* trailFor: the current position, the last, is left out.
TrailFor(v) ==
    LET points == Fresh(PointsOf(v), now) IN IF points = <<>> THEN <<>> ELSE Front(points)

\* Mutant of Remembered: what is stored is trusted.
RememberedStored == DOMAIN entries

\* latestIn, of the whole area.
Remembered == {v \in DOMAIN entries : ~LongGone(entries[v], now)}

-------------------------------------------------------------------------------
(* Correctness. *)

Ascending(points) ==
    \A i, j \in DOMAIN points : i < j => points[i].at < points[j].at

\* While only the poller records, a trail never runs backwards, never shows a moment
\* twice and never the same place twice in a row: its polls do not overlap.
PollAloneKeepsOrder ==
    visited = "no" => \A v \in Vessels :
        /\ Ascending(PointsOf(v))
        /\ \A i \in DOMAIN PointsOf(v) : i > 1 => PointsOf(v)[i].place # PointsOf(v)[i - 1].place

\* An outage never brings back a trail of before the window, nor draws a line from it.
TrailIsRecent == \A v \in Vessels : \A i \in DOMAIN TrailFor(v) : InWindow(TrailFor(v)[i], now)

\* Both: what is drawn behind a vessel is the recent past, in order where only polls record.
TrailIsSound == PollAloneKeepsOrder /\ TrailIsRecent

\* A vessel is remembered for as long as promised after the upstream last knew it, less the
\* time of a load, also when a slow poll records an old report over a newer one.  (seenAt is
\* the moment the upstream knew it, not the moment of the record.)
NotForgottenEarly ==
    \A v \in Vessels :
        seenAt[v] # None /\ now + MaxFlight < seenAt[v] + ForgetAfterMs => v \in Remembered

\* ... and no longer than promised, more the time of a load and the age up to which an answer
\* is given again: record stamps a vessel with the load's time, however old its report.
ForgottenInTime ==
    \A v \in Remembered :
        seenAt[v] # None /\ now < seenAt[v] + ForgetAfterMs + MaxFlight + MaxServed

\* What would hold if record stamped a vessel with the moment the upstream knew it.
ForgottenOnTime ==
    \A v \in Remembered : now < seenAt[v] + ForgetAfterMs + MaxFlight

\* What trailFor's comment says of the positions: "oldest first".
TrailIsOldestFirst == \A v \in Vessels : Ascending(TrailFor(v))

===============================================================================
