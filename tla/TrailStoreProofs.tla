---------------------------- MODULE TrailStoreProofs ----------------------------
(***************************************************************************)
(* Proofs about TrailStore: for any number of vessels and of loads in      *)
(* flight, how long a vessel is remembered and what its trail is.          *)
(***************************************************************************)
EXTENDS TrailStore, ListProofs

\* Clocks: a load in flight is no older than its timeout, and is given, before it is recorded,
\* what was known at most MaxServed before it started.
LoadInv ==
    /\ now \in Nat
    /\ loads = [i \in Slots |-> loads[i]]
    /\ \A i \in Slots : loads[i] # None =>
          /\ loads[i].startedAt \in Nat
          /\ loads[i].startedAt <= now /\ now <= loads[i].startedAt + MaxFlight
          /\ loads[i].report # None =>
                /\ DOMAIN loads[i].report \subseteq Vessels
                /\ loads[i].reportedAt \in Nat
                /\ loads[i].reportedAt <= now
                /\ loads[i].startedAt <= loads[i].reportedAt + MaxServed
    /\ held # None => /\ held.at \in Nat /\ held.at <= now
                      /\ DOMAIN held.known \subseteq Vessels

\* An entry is stamped at most a load's time and MaxServed after the newest report recorded of
\* its vessel, and at most a load's time before; a vessel reported but not remembered was last reported long enough ago.
MemoryInv ==
    /\ DOMAIN entries \subseteq Vessels
    /\ \A v \in Vessels : seenAt[v] # None => seenAt[v] \in Nat /\ seenAt[v] <= now
    /\ \A v \in DOMAIN entries :
          /\ entries[v].lastSeenMs \in Nat
          /\ seenAt[v] # None
          /\ entries[v].lastSeenMs <= seenAt[v] + MaxFlight + MaxServed
          /\ seenAt[v] <= entries[v].lastSeenMs + MaxFlight
    /\ \A v \in Vessels \ DOMAIN entries :
          seenAt[v] # None => seenAt[v] + ForgetAfterMs <= now + MaxFlight

Inv == LoadInv /\ MemoryInv

LEMMA InvImplies == Inv => NotForgottenEarly /\ ForgottenInTime
<1> SUFFICES ASSUME Inv PROVE NotForgottenEarly /\ ForgottenInTime
  OBVIOUS
<1> USE TrailAssumption DEF Inv, LoadInv, MemoryInv, Remembered, LongGone
<1>1. NotForgottenEarly
  BY DEF NotForgottenEarly
<1>2. ForgottenInTime
  BY DEF ForgottenInTime
<1> QED
  BY <1>1, <1>2

StampAfter(v, report, t) == IF v \in DOMAIN report THEN t ELSE entries[v].lastSeenMs

\* What a record leaves of a vessel: its stamp, unless that is long gone.
LEMMA RecordedStamp ==
    ASSUME NEW report, NEW t, NEW v
    PROVE  /\ v \in DOMAIN Recorded(report, t) <=>
                 /\ v \in DOMAIN entries \cup DOMAIN report
                 /\ ~(t >= StampAfter(v, report, t) + ForgetAfterMs)
           /\ v \in DOMAIN Recorded(report, t) =>
                 Recorded(report, t)[v].lastSeenMs = StampAfter(v, report, t)
<1> DEFINE folded == [u \in DOMAIN entries \cup DOMAIN report |->
                         IF u \in DOMAIN report THEN Seen(u, report[u], t) ELSE entries[u]]
           kept == {u \in DOMAIN folded : ~LongGone(folded[u], t)}
<1>1. v \in DOMAIN report => Seen(v, report[v], t).lastSeenMs = t
  BY DEF Seen, Entry
<1>2. v \in DOMAIN entries \cup DOMAIN report =>
        folded[v].lastSeenMs = StampAfter(v, report, t)
  BY <1>1 DEF StampAfter
<1>3. DOMAIN folded = DOMAIN entries \cup DOMAIN report
  OBVIOUS
<1>4. Recorded(report, t) =
        [u \in kept |-> Entry(folded[u].latest, Fresh(folded[u].points, t), folded[u].lastSeenMs)]
  BY DEF Recorded
<1> HIDE DEF folded
<1>5. v \in kept <=> /\ v \in DOMAIN entries \cup DOMAIN report
                     /\ ~(t >= StampAfter(v, report, t) + ForgetAfterMs)
  BY <1>2, <1>3 DEF LongGone
<1>6. v \in kept => Recorded(report, t)[v].lastSeenMs = folded[v].lastSeenMs
  BY <1>4 DEF Entry
<1>7. DOMAIN Recorded(report, t) = kept
  BY <1>4
<1>8. v \in kept => v \in DOMAIN entries \cup DOMAIN report
  BY <1>5
<1> HIDE DEF kept
<1> QED
  BY <1>2, <1>5, <1>6, <1>7, <1>8

\* Recording a report keeps the memory's invariant, whichever clock stamps it.
LEMMA RecordInv ==
    ASSUME Inv, NEW i \in Slots, Record(i)
    PROVE  Inv'
<1> DEFINE report == loads[i].report
           at == loads[i].reportedAt
           t == StampOf(i)
<1> USE TrailAssumption
<1>1. /\ now \in Nat /\ now' = now /\ held' = held
      /\ loads[i].startedAt \in Nat /\ at \in Nat /\ at <= now
      /\ loads[i].startedAt <= at + MaxServed
      /\ now <= loads[i].startedAt + MaxFlight
      /\ DOMAIN report \subseteq Vessels
  BY DEF Record, Idle, Inv, LoadInv
<1>2. t \in Nat /\ t <= now /\ t <= at + MaxFlight + MaxServed /\ now <= t + MaxFlight
  <2> DEFINE started == loads[i].startedAt
  <2>1. t = started \/ t = now
    BY DEF StampOf
  <2> HIDE DEF t, started, at
  <2>2. /\ started \in Nat /\ started <= now /\ now <= started + MaxFlight
        /\ started <= at + MaxServed /\ at \in Nat /\ now \in Nat
    BY <1>1 DEF started, at, Inv, LoadInv, Record, Idle
  <2> QED
    BY <2>1, <2>2
<1>3. /\ entries' = Recorded(report, t)
      /\ \A v \in Vessels : seenAt'[v] = IF v \in DOMAIN report THEN Later(seenAt[v], at)
                                                               ELSE seenAt[v]
      /\ loads' = [loads EXCEPT ![i] = None]
  BY DEF Record
<1>4. LoadInv'
  BY <1>1, <1>3 DEF Inv, LoadInv
<1> HIDE DEF t, report, at
<1>5. \A v : /\ v \in DOMAIN entries' <=>
                   /\ v \in DOMAIN entries \cup DOMAIN report
                   /\ ~(t >= StampAfter(v, report, t) + ForgetAfterMs)
             /\ v \in DOMAIN entries' => entries'[v].lastSeenMs = StampAfter(v, report, t)
  BY <1>3, RecordedStamp
<1>6. ASSUME NEW v \in DOMAIN report
      PROVE  /\ seenAt'[v] \in Nat /\ at <= seenAt'[v] /\ seenAt'[v] <= now
             /\ seenAt'[v] # None
  <2>1. v \in Vessels /\ seenAt'[v] = Later(seenAt[v], at)
    BY <1>1, <1>3
  <2>2. seenAt[v] # None => seenAt[v] \in Nat /\ seenAt[v] <= now
    BY <2>1 DEF Inv, MemoryInv
  <2> QED
    BY <1>1, <2>1, <2>2 DEF Later
<1>7. \A v \in Vessels \ DOMAIN report : seenAt'[v] = seenAt[v]
  BY <1>3
<1>8. DOMAIN entries \subseteq Vessels
  BY DEF Inv, MemoryInv
<1>9. ASSUME NEW v \in Vessels, seenAt'[v] # None
      PROVE  seenAt'[v] \in Nat /\ seenAt'[v] <= now'
  <2>1. CASE v \in DOMAIN report
    BY <2>1, <1>1, <1>6
  <2>2. CASE v \notin DOMAIN report
    BY <2>2, <1>1, <1>7, <1>9 DEF Inv, MemoryInv
  <2> QED
    BY <2>1, <2>2
<1>10. ASSUME NEW v \in DOMAIN entries'
       PROVE  /\ entries'[v].lastSeenMs \in Nat
              /\ seenAt'[v] # None
              /\ entries'[v].lastSeenMs <= seenAt'[v] + MaxFlight + MaxServed
              /\ seenAt'[v] <= entries'[v].lastSeenMs + MaxFlight
  <2>1. CASE v \in DOMAIN report
    <3>1. entries'[v].lastSeenMs = t
      BY <2>1, <1>5 DEF StampAfter
    <3>2. /\ seenAt'[v] \in Nat /\ at <= seenAt'[v] /\ seenAt'[v] <= now
          /\ seenAt'[v] # None
      BY <2>1, <1>6
    <3> QED
      BY <3>1, <3>2, <1>1, <1>2
  <2>2. CASE v \notin DOMAIN report
    <3>1. v \in DOMAIN entries /\ entries'[v].lastSeenMs = entries[v].lastSeenMs
      BY <2>2, <1>5 DEF StampAfter
    <3>2. seenAt'[v] = seenAt[v]
      BY <2>2, <3>1, <1>7, <1>8
    <3> QED
      BY <3>1, <3>2 DEF Inv, MemoryInv
  <2> QED
    BY <2>1, <2>2
<1>11. ASSUME NEW v \in Vessels \ DOMAIN entries', seenAt'[v] # None
       PROVE  seenAt'[v] + ForgetAfterMs <= now' + MaxFlight
  <2>1. v \notin DOMAIN report
    <3> SUFFICES ASSUME v \in DOMAIN report PROVE FALSE
      OBVIOUS
    <3>1. t >= t + ForgetAfterMs
      BY <1>5, <1>11 DEF StampAfter
    <3> QED
      BY <3>1, <1>2
  <2>2. seenAt'[v] = seenAt[v]
    BY <2>1, <1>7
  <2>3. CASE v \in DOMAIN entries
    <3>1. t >= entries[v].lastSeenMs + ForgetAfterMs
      BY <2>1, <2>3, <1>5, <1>11 DEF StampAfter
    <3>2. /\ entries[v].lastSeenMs \in Nat /\ seenAt[v] \in Nat
          /\ seenAt[v] <= entries[v].lastSeenMs + MaxFlight
      BY <2>2, <2>3, <1>11 DEF Inv, MemoryInv
    <3> QED
      BY <2>2, <3>1, <3>2, <1>1, <1>2
  <2>4. CASE v \notin DOMAIN entries
    BY <2>2, <2>4, <1>1, <1>11 DEF Inv, MemoryInv
  <2> QED
    BY <2>3, <2>4
<1>12. DOMAIN entries' \subseteq Vessels
  BY <1>1, <1>5, <1>8
<1>13. MemoryInv'
  BY <1>9, <1>10, <1>11, <1>12 DEF MemoryInv
<1> QED
  BY <1>4, <1>13 DEF Inv

LEMMA InitInv == Init => Inv
  BY TrailAssumption DEF Init, Inv, LoadInv, MemoryInv

LEMMA StepInv == Inv /\ [Next]_vars => Inv'
<1> SUFFICES ASSUME Inv, [Next]_vars PROVE Inv'
  OBVIOUS
<1> USE TrailAssumption
<1>1. ASSUME NEW i \in Slots, Start(i, "poll") \/ Start(i, "visit") PROVE Inv'
  <2>1. LoadInv'
    BY <1>1 DEF Start, Idle, Inv, LoadInv
  <2>2. MemoryInv'
    BY <1>1 DEF Start, Inv, MemoryInv
  <2> QED
    BY <2>1, <2>2 DEF Inv
<1>2. ASSUME NEW i \in Slots, Report(i) \/ Reuse(i) PROVE Inv'
  <2>1. PICK known, at : /\ Answer(i, known, at) /\ held'.known = known /\ held'.at = at
                         /\ DOMAIN known \subseteq Vessels
                         /\ at \in Nat /\ at <= now /\ now <= at + MaxServed
    <3>1. CASE Report(i)
      <4>1. DOMAIN KnownNow \subseteq Vessels
        BY DEF KnownNow
      <4> QED
        BY <3>1, <4>1 DEF Report, Inv, LoadInv
    <3>2. CASE Reuse(i)
      BY <3>2 DEF Reuse, Inv, LoadInv
    <3> QED
      BY <1>2, <3>1, <3>2
  <2>2. PICK area \in SUBSET DOMAIN known :
          loads' = [loads EXCEPT ![i] = [@ EXCEPT !.report = [v \in area |-> known[v]],
                                                  !.reportedAt = at]]
    BY <2>1 DEF Answer
  <2> DEFINE load == [loads[i] EXCEPT !.report = [v \in area |-> known[v]], !.reportedAt = at]
  <2>3. loads[i] # None /\ UNCHANGED <<now, entries, seenAt>>
    BY <2>1 DEF Answer, Idle
  <2>4. /\ load.startedAt = loads[i].startedAt
        /\ load.report = [v \in area |-> known[v]] /\ load.reportedAt = at
    OBVIOUS
  <2>5. loads' = [loads EXCEPT ![i] = load]
    BY <2>2
  <2> HIDE DEF load
  <2>6. DOMAIN load.report \subseteq Vessels
    BY <2>1, <2>4
  <2>7. LoadInv'
    BY <2>1, <2>3, <2>4, <2>5, <2>6 DEF Inv, LoadInv
  <2>8. MemoryInv'
    BY <2>3 DEF Inv, MemoryInv
  <2> QED
    BY <2>7, <2>8 DEF Inv
<1>3. ASSUME NEW i \in Slots, LoadFails(i) PROVE Inv'
  <2>1. LoadInv'
    BY <1>3 DEF LoadFails, Inv, LoadInv
  <2>2. MemoryInv'
    BY <1>3 DEF LoadFails, Inv, MemoryInv
  <2> QED
    BY <2>1, <2>2 DEF Inv
<1>4. ASSUME UNCHANGED <<now, held, entries, loads, seenAt>> PROVE Inv'
  BY <1>4 DEF Inv, LoadInv, MemoryInv
<1>5. ASSUME Tick PROVE Inv'
  <2>1. LoadInv'
    BY <1>5 DEF Tick, Idle, Inv, LoadInv
  <2>2. MemoryInv'
    BY <1>5 DEF Tick, Inv, LoadInv, MemoryInv
  <2> QED
    BY <2>1, <2>2 DEF Inv
<1> QED
  BY <1>1, <1>2, <1>3, <1>4, <1>5, RecordInv
     DEF Next, StartPoll, StartVisit, Leaves, Moves, vars

\* A vessel the upstream still knew within forgetAfterMs, less one load, is remembered,
\* though a slow poll stamps what it records with the time it began.
THEOREM MemoryIsKept == Spec => []NotForgottenEarly
  BY InvImplies, InitInv, StepInv, PTL DEF Spec

\* No vessel is served from memory later than forgetAfterMs, one load and the age of what
\* is given again after the upstream last knew it, also while every load fails.
THEOREM MemoryIsBounded == Spec => []ForgottenInTime
  BY InvImplies, InitInv, StepInv, PTL DEF Spec


-------------------------------------------------------------------------------
(* What is drawn behind a vessel. *)

Readable(fix) == fix # None /\ fix.at # Unreadable

Spots == [place : Places, at : Nat]

\* No two points of the same moment or, one after the other, of the same place.
Travelled(points) ==
    /\ Ascending(points)
    /\ \A i \in DOMAIN points : i > 1 => points[i].place # points[i - 1].place

Polled(i) == loads[i] # None /\ loads[i].by = "poll"
Reports(i, v) == loads[i] # None /\ loads[i].report # None /\ v \in DOMAIN loads[i].report

\* What the client of the upstream still knows of v.
Holds(v) == held # None /\ v \in DOMAIN held.known /\ held.known[v].at # Unreadable

\* What the upstream knows is of now or before; what is held of it is no younger, and what it
\* has answered with before is no younger than that.
WorldInv ==
    /\ \A v \in Vessels : Readable(world[v]) => world[v].at <= now
    /\ \A v \in Vessels : Holds(v) =>
          /\ held.known[v].at <= now
          /\ Readable(world[v]) => held.known[v].at <= world[v].at
    /\ \A i \in Slots, v \in Vessels : Reports(i, v) /\ loads[i].report[v].at # Unreadable =>
          /\ loads[i].report[v].at <= now
          /\ Readable(world[v]) => loads[i].report[v].at <= world[v].at
          /\ Holds(v) => loads[i].report[v].at <= held.known[v].at

\* A point of v is no younger than what is known of v anywhere.
IsOlder(point, v) ==
    /\ point.at <= now
    /\ Readable(world[v]) => point.at <= world[v].at
    /\ Holds(v) => point.at <= held.known[v].at
    /\ \A i \in Slots : Polled(i) /\ Reports(i, v) /\ loads[i].report[v].at # Unreadable =>
          point.at <= loads[i].report[v].at

\* While only polls have recorded: what is remembered is older than what the poll will record.
OrderInv ==
    /\ \A i, j \in Slots : Polled(i) /\ Polled(j) => i = j
    /\ visited = "no" => \A v \in DOMAIN entries :
          /\ Travelled(entries[v].points)
          /\ \A point \in ToSet(entries[v].points) : IsOlder(point, v)

StoreInv == TypeOK /\ WorldInv /\ OrderInv

\* Every point of new is one of old or the next.
Stems(new, old, next) ==
    \A n \in DOMAIN new : new[n] = next \/ \E m \in DOMAIN old : new[n] = old[m]

\* Ageing a trail: what is left is in the window, and of a trail in order it is the end.
LEMMA FreshPoints ==
    ASSUME NEW points \in Seq(Spots), NEW t \in Nat
    PROVE  /\ Fresh(points, t) \in Seq(Spots)
           /\ Len(Fresh(points, t)) <= Len(points)
           /\ \A n \in DOMAIN Fresh(points, t) : InWindow(Fresh(points, t)[n], t)
           /\ \A n \in DOMAIN Fresh(points, t) :
                 \E m \in DOMAIN points : Fresh(points, t)[n] = points[m]
           /\ Travelled(points) => Travelled(Fresh(points, t))
<1> DEFINE kept == Fresh(points, t)
           T == {point \in ToSet(points) : InWindow(point, t)}
<1>1. kept = Kept(points, T)
  BY DEF Fresh
<1>2. Kept(points, T) \in Seq(Spots \cap T) /\ Len(Kept(points, T)) <= Len(points)
  <2> HIDE DEF T
  <2> QED
    BY KeptPasses, KeptLength
<1> HIDE DEF kept
<1>3. \A n \in DOMAIN kept : kept[n] \in Spots /\ kept[n] \in T
  BY <1>1, <1>2
<1>4. kept \in Seq(Spots)
  <2>1. Seq(Spots \cap T) \subseteq Seq(Spots)
    OBVIOUS
  <2> QED
    BY <1>1, <1>2, <2>1
<1>5. \A n \in DOMAIN kept : InWindow(kept[n], t) /\ \E m \in DOMAIN points : kept[n] = points[m]
  BY <1>3 DEF ToSet
<1>6. ASSUME Travelled(points) PROVE Travelled(kept)
  <2>1. ASSUME NEW i \in 1..Len(points), NEW j \in 1..Len(points), i < j, points[i] \in T
        PROVE  points[j] \in T
    <3>1. points[i] \in Spots /\ points[j] \in Spots /\ points[i].at < points[j].at
      BY <1>6, <2>1 DEF Travelled, Ascending
    <3>2. points[i].at \in Nat /\ points[j].at \in Nat /\ MaxAgeMs \in Nat
      BY <3>1, TrailAssumption DEF Spots
    <3>3. points[i].at + MaxAgeMs >= t
      BY <2>1 DEF InWindow
    <3>4. points[j].at + MaxAgeMs >= t
      BY <3>1, <3>2, <3>3
    <3> QED
      BY <3>4 DEF ToSet, InWindow
  <2>2. PICK from \in 0..Len(points) :
           /\ Len(kept) = Len(points) - from
           /\ \A i \in 1..(Len(points) - from) : kept[i] = points[from + i]
    <3> HIDE DEF T
    <3> QED
      BY <1>1, <2>1, KeptIsTheEnd
  <2>3. \A i \in DOMAIN kept : kept[i] = points[from + i] /\ from + i \in DOMAIN points
    BY <1>4, <2>2
  <2>4. ASSUME NEW i \in DOMAIN kept, NEW j \in DOMAIN kept, i < j PROVE kept[i].at < kept[j].at
    <3>1. from + i < from + j
      BY <1>4, <2>4
    <3> QED
      BY <1>6, <2>3, <3>1 DEF Travelled, Ascending
  <2>5. ASSUME NEW i \in DOMAIN kept, i > 1 PROVE kept[i].place # kept[i - 1].place
    <3>1. i - 1 \in DOMAIN kept /\ from + (i - 1) = (from + i) - 1 /\ from + i > 1
      BY <1>4, <2>5
    <3> QED
      BY <1>6, <2>3, <2>5, <3>1 DEF Travelled
  <2> QED
    BY <2>4, <2>5 DEF Travelled, Ascending
<1> QED
  BY <1>1, <1>2, <1>4, <1>5, <1>6 DEF kept

\* The last MaxPoints of a trail.
LEMMA CappedPoints ==
    ASSUME NEW points \in Seq(Spots)
    PROVE  /\ Capped(points) \in Seq(Spots) /\ Len(Capped(points)) <= MaxPoints
           /\ \A n \in DOMAIN Capped(points) :
                 \E m \in DOMAIN points : Capped(points)[n] = points[m]
           /\ Travelled(points) => Travelled(Capped(points))
<1> USE TrailAssumption
<1> DEFINE capped == Capped(points)
<1>1. CASE ~(Len(points) > MaxPoints)
  BY <1>1 DEF Capped
<1>2. CASE Len(points) > MaxPoints
  <2> DEFINE from == Len(points) - MaxPoints
  <2>1. capped = SubSeq(points, from + 1, Len(points)) /\ from \in Nat
    BY <1>2 DEF Capped
  <2>2. capped \in Seq(Spots) /\ Len(capped) = MaxPoints
    BY <1>2, <2>1
  <2>3. \A i \in DOMAIN capped : capped[i] = points[from + i] /\ from + i \in DOMAIN points
    BY <1>2, <2>1
  <2> HIDE DEF capped, from
  <2>4. ASSUME Travelled(points), NEW i \in DOMAIN capped, NEW j \in DOMAIN capped, i < j
        PROVE  capped[i].at < capped[j].at
    <3>1. from + i < from + j
      BY <2>1, <2>2, <2>4
    <3> QED
      BY <2>3, <2>4, <3>1 DEF Travelled, Ascending
  <2>5. ASSUME Travelled(points), NEW i \in DOMAIN capped, i > 1
        PROVE  capped[i].place # capped[i - 1].place
    <3>1. i - 1 \in DOMAIN capped /\ from + (i - 1) = (from + i) - 1 /\ from + i > 1
      BY <2>1, <2>2, <2>5
    <3> QED
      BY <2>3, <2>5, <3>1 DEF Travelled
  <2>6. /\ capped \in Seq(Spots) /\ Len(capped) <= MaxPoints
        /\ \A n \in DOMAIN capped : \E m \in DOMAIN points : capped[n] = points[m]
    BY <2>2, <2>3
  <2> QED
    BY <2>4, <2>5, <2>6 DEF Travelled, Ascending, capped
<1> QED
  BY <1>1, <1>2

\* A fix after a trail: at most MaxPoints points, in order if the fix is the newest.
LEMMA AppendedPoints ==
    ASSUME NEW points \in Seq(Spots), NEW t \in Nat, NEW fix \in Spots
    PROVE  /\ AppendPoint(points, fix, t) \in Seq(Spots)
           /\ Len(AppendPoint(points, fix, t)) <= MaxPoints
           /\ Stems(AppendPoint(points, fix, t), points, fix)
           /\ Travelled(points) /\ (\A m \in DOMAIN points : points[m].at <= fix.at) =>
                 Travelled(AppendPoint(points, fix, t))
<1> DEFINE kept == Fresh(points, t)
           longer == IF IsRepeat(kept, fix) \/ ~InWindow(fix, t) THEN kept ELSE Append(kept, fix)
           InOrder == Travelled(points) /\ \A m \in DOMAIN points : points[m].at <= fix.at
<1>1. AppendPoint(points, fix, t) = Capped(longer)
  BY DEF AppendPoint
<1>2. /\ kept \in Seq(Spots)
      /\ \A n \in DOMAIN kept : \E m \in DOMAIN points : kept[n] = points[m]
      /\ Travelled(points) => Travelled(kept)
  BY FreshPoints
<1> HIDE DEF kept
<1>3. longer \in Seq(Spots) /\ Stems(longer, points, fix)
  <2>1. CASE longer = kept
    BY <1>2, <2>1 DEF Stems
  <2>2. CASE longer = Append(kept, fix)
    <3>1. \A n \in DOMAIN longer : (n \in DOMAIN kept /\ longer[n] = kept[n]) \/ longer[n] = fix
      BY <1>2, <2>2
    <3> QED
      BY <1>2, <2>2, <3>1 DEF Stems
  <2> QED
    BY <2>1, <2>2
<1>4. ASSUME InOrder PROVE Travelled(longer)
  <2>1. Travelled(kept) /\ \A n \in DOMAIN kept : kept[n].at <= fix.at
    BY <1>2, <1>4
  <2>2. CASE longer = kept
    BY <2>1, <2>2
  <2>3. CASE longer # kept
    <3>1. longer = Append(kept, fix) /\ ~IsRepeat(kept, fix)
      BY <2>3
    <3>2. Len(kept) \in Nat /\ Len(longer) = Len(kept) + 1
      BY <1>2, <3>1
    <3>3. /\ \A n \in 1..Len(kept) : longer[n] = kept[n] /\ kept[n] \in Spots
          /\ longer[Len(kept) + 1] = fix
      BY <1>2, <3>1
    <3>4. ASSUME Len(kept) > 0
          PROVE  kept[Len(kept)].place # fix.place /\ kept[Len(kept)].at < fix.at
      <4>1. kept # <<>> /\ Last(kept) = kept[Len(kept)] /\ Len(kept) \in DOMAIN kept
        BY <1>2, <3>4 DEF Last
      <4>2. kept[Len(kept)].place # fix.place /\ kept[Len(kept)].at # fix.at
        BY <3>1, <4>1 DEF IsRepeat
      <4>3. kept[Len(kept)].at <= fix.at /\ kept[Len(kept)].at \in Nat /\ fix.at \in Nat
        BY <2>1, <3>3, <4>1 DEF Spots
      <4> QED
        BY <4>2, <4>3
    <3>5. ASSUME NEW n \in 1..Len(kept) PROVE kept[n].at < fix.at
      <4>1. kept[n].at \in Nat /\ kept[Len(kept)].at \in Nat /\ fix.at \in Nat
        BY <3>2, <3>3, <3>5 DEF Spots
      <4>2. kept[n].at <= kept[Len(kept)].at
        BY <1>2, <2>1, <3>5, <4>1 DEF Travelled, Ascending
      <4> QED
        BY <3>2, <3>4, <3>5, <4>1, <4>2
    <3>6. ASSUME NEW i \in DOMAIN longer, NEW j \in DOMAIN longer, i < j
          PROVE  longer[i].at < longer[j].at
      <4>1. i \in 1..Len(kept) /\ DOMAIN kept = 1..Len(kept)
        BY <1>2, <3>1, <3>2, <3>6
      <4>2. CASE j = Len(kept) + 1
        BY <3>3, <3>5, <4>1, <4>2
      <4>3. CASE j # Len(kept) + 1
        <5>1. j \in 1..Len(kept)
          BY <3>1, <3>2, <3>6, <4>3, <1>2
        <5> QED
          BY <2>1, <3>3, <3>6, <4>1, <5>1 DEF Travelled, Ascending
      <4> QED
        BY <4>2, <4>3
    <3>7. ASSUME NEW i \in DOMAIN longer, i > 1 PROVE longer[i].place # longer[i - 1].place
      <4>1. i - 1 \in 1..Len(kept) /\ DOMAIN kept = 1..Len(kept)
        BY <1>2, <3>1, <3>2, <3>7
      <4>2. CASE i = Len(kept) + 1
        <5>1. i - 1 = Len(kept) /\ Len(kept) > 0
          BY <3>2, <3>7, <4>2
        <5> QED
          BY <3>3, <3>4, <4>1, <4>2, <5>1
      <4>3. CASE i # Len(kept) + 1
        <5>1. i \in 1..Len(kept)
          BY <3>1, <3>2, <3>7, <4>3, <1>2
        <5> QED
          BY <2>1, <3>3, <3>7, <4>1, <5>1 DEF Travelled
      <4> QED
        BY <4>2, <4>3
    <3> QED
      BY <3>6, <3>7 DEF Travelled, Ascending
  <2> QED
    BY <2>2, <2>3
<1> HIDE DEF longer
<1>5. /\ Capped(longer) \in Seq(Spots) /\ Len(Capped(longer)) <= MaxPoints
      /\ \A n \in DOMAIN Capped(longer) : \E m \in DOMAIN longer : Capped(longer)[n] = longer[m]
      /\ Travelled(longer) => Travelled(Capped(longer))
  BY <1>3, CappedPoints
<1>6. Stems(Capped(longer), points, fix)
  BY <1>3, <1>5 DEF Stems
<1> QED
  BY <1>1, <1>4, <1>5, <1>6

\* The trail of a vessel after a report: of what it was and of the fix, if that has a time.
LEMMA RecordedPoints ==
    ASSUME NEW report, NEW t \in Nat, NEW v \in DOMAIN Recorded(report, t),
           v \in DOMAIN report => report[v] \in Fixes,
           v \in DOMAIN entries => entries[v] \in Entries /\ Len(entries[v].points) <= MaxPoints
    PROVE  /\ Recorded(report, t)[v] \in Entries
           /\ Len(Recorded(report, t)[v].points) <= MaxPoints
           /\ \A n \in DOMAIN Recorded(report, t)[v].points :
                 \/ /\ v \in DOMAIN report /\ report[v].at # Unreadable
                    /\ Recorded(report, t)[v].points[n] = report[v]
                 \/ \E m \in DOMAIN PointsOf(v) :
                       Recorded(report, t)[v].points[n] = PointsOf(v)[m]
           /\ /\ Travelled(PointsOf(v))
              /\ v \in DOMAIN report /\ report[v].at # Unreadable =>
                    \A m \in DOMAIN PointsOf(v) : PointsOf(v)[m].at <= report[v].at
              => Travelled(Recorded(report, t)[v].points)
<1> DEFINE folded == [u \in DOMAIN entries \cup DOMAIN report |->
                         IF u \in DOMAIN report THEN Seen(u, report[u], t) ELSE entries[u]]
           kept == {u \in DOMAIN folded : ~LongGone(folded[u], t)}
           old == PointsOf(v)
           next == report[v]
           points == folded[v].points
           IsNew == v \in DOMAIN report /\ report[v].at # Unreadable
<1>1. Recorded(report, t) =
        [u \in kept |-> Entry(folded[u].latest, Fresh(folded[u].points, t), folded[u].lastSeenMs)]
  BY DEF Recorded
<1>2. v \in DOMAIN entries \cup DOMAIN report
  BY <1>1
<1>3. Recorded(report, t)[v] = Entry(folded[v].latest, Fresh(points, t), folded[v].lastSeenMs)
  BY <1>1
<1>4. old \in Seq(Spots) /\ Len(old) <= MaxPoints
  <2>1. CASE v \in DOMAIN entries
    <3>1. old = entries[v].points /\ entries[v] \in Entries
      BY <2>1 DEF PointsOf
    <3> QED
      BY <2>1, <3>1 DEF Entries, Spots
  <2>2. CASE v \notin DOMAIN entries
    BY <2>2, TrailAssumption DEF PointsOf
  <2> QED
    BY <2>1, <2>2
<1> HIDE DEF old
<1>5. /\ folded[v].latest \in Fixes /\ folded[v].lastSeenMs \in Nat
      /\ points = IF IsNew THEN AppendPoint(old, next, t) ELSE old
  <2>1. CASE v \in DOMAIN report
    BY <1>2, <2>1 DEF Seen, Entry, old
  <2>2. CASE v \notin DOMAIN report
    <3>1. folded[v] = entries[v] /\ entries[v] \in Entries /\ old = entries[v].points
      BY <1>2, <2>2 DEF old, PointsOf
    <3> QED
      BY <2>2, <3>1 DEF Entries
  <2> QED
    BY <2>1, <2>2
<1> HIDE DEF points
<1>6. /\ points \in Seq(Spots) /\ Len(points) <= MaxPoints
      /\ \A n \in DOMAIN points : \/ IsNew /\ points[n] = next
                                  \/ \E m \in DOMAIN old : points[n] = old[m]
      /\ Travelled(old) /\ (IsNew => \A m \in DOMAIN old : old[m].at <= next.at) =>
            Travelled(points)
  <2>1. CASE IsNew
    <3>1. next \in Spots
      BY <2>1 DEF Fixes, Spots
    <3>2. points = AppendPoint(old, next, t)
      BY <1>5, <2>1
    <3> HIDE DEF next
    <3> QED
      BY <1>4, <2>1, <3>1, <3>2, AppendedPoints DEF Stems
  <2>2. CASE ~IsNew
    BY <1>4, <1>5, <2>2
  <2> QED
    BY <2>1, <2>2
<1> DEFINE fresh == Fresh(points, t)
<1>7. /\ fresh \in Seq(Spots) /\ Len(fresh) <= Len(points)
      /\ \A n \in DOMAIN fresh : \E m \in DOMAIN points : fresh[n] = points[m]
      /\ Travelled(points) => Travelled(fresh)
  BY <1>6, FreshPoints
<1>8. Recorded(report, t)[v].points = fresh
  BY <1>3 DEF Entry
<1>9. Recorded(report, t)[v] \in Entries
  BY <1>3, <1>5, <1>7 DEF Entry, Entries, Spots
<1>10. Len(fresh) <= MaxPoints
  BY <1>6, <1>7, TrailAssumption
<1> HIDE DEF fresh
<1> QED
  BY <1>6, <1>7, <1>8, <1>9, <1>10 DEF old

\* What the step needs to know of an entry: its type, its order and how old its points are.
LEMMA EntriesOf ==
    ASSUME StoreInv, NEW v \in DOMAIN entries
    PROVE  /\ v \in Vessels /\ entries[v] \in Entries /\ Len(entries[v].points) <= MaxPoints
           /\ entries[v].points \in Seq(Spots)
           /\ PointsOf(v) = entries[v].points
           /\ visited = "no" => /\ Travelled(entries[v].points)
                                /\ \A point \in ToSet(entries[v].points) : IsOlder(point, v)
  BY DEF StoreInv, TypeOK, OrderInv, Entries, Spots, PointsOf

\* Recording keeps the type of the store and, after polls alone, its order.
LEMMA RecordStore ==
    ASSUME StoreInv, NEW i \in Slots, Record(i)
    PROVE  StoreInv'
<1> DEFINE report == loads[i].report
           t == StampOf(i)
<1> USE TrailAssumption
<1>1. /\ loads[i] # None /\ IsLoad(loads[i]) /\ report # None
      /\ now \in Nat /\ now' = now /\ world' = world /\ moves' = moves /\ held' = held
      /\ loads' = [loads EXCEPT ![i] = None] /\ loads = [j \in Slots |-> loads[j]]
  BY DEF Record, Idle, StoreInv, TypeOK
<1>2. DOMAIN report \subseteq Vessels /\ \A v \in DOMAIN report : report[v] \in Fixes
  BY <1>1 DEF IsLoad, KnownFixes
<1>3. t \in Nat
  BY <1>1 DEF StampOf, IsLoad, KnownFixes
<1>4. loads'[i] = None /\ \A j \in Slots \ {i} : loads'[j] = loads[j]
  BY <1>1
<1>5. entries' = Recorded(report, t)
  BY DEF Record
<1>6. DOMAIN entries' \subseteq Vessels
  <2>1. DOMAIN entries' \subseteq DOMAIN entries \cup DOMAIN report
    BY <1>5, RecordedStamp
  <2> QED
    BY <1>2, <2>1 DEF StoreInv, TypeOK
<1> HIDE DEF t
<1>7. ASSUME NEW v \in DOMAIN entries'
      PROVE  /\ entries'[v] \in Entries /\ Len(entries'[v].points) <= MaxPoints
             /\ \A n \in DOMAIN entries'[v].points :
                   \/ v \in DOMAIN report /\ report[v].at # Unreadable /\ entries'[v].points[n] = report[v]
                   \/ \E m \in DOMAIN PointsOf(v) : entries'[v].points[n] = PointsOf(v)[m]
             /\ /\ Travelled(PointsOf(v))
                /\ v \in DOMAIN report /\ report[v].at # Unreadable =>
                      \A m \in DOMAIN PointsOf(v) : PointsOf(v)[m].at <= report[v].at
                => Travelled(entries'[v].points)
  <2>1. v \in DOMAIN entries => entries[v] \in Entries /\ Len(entries[v].points) <= MaxPoints
    BY EntriesOf
  <2> HIDE DEF report
  <2> QED
    BY <1>2, <1>3, <1>5, <1>7, <2>1, RecordedPoints
<1>8. TypeOK'
  <2>1. seenAt' \in [Vessels -> Nat \cup {None}]
    BY <1>1 DEF Record, Later, StoreInv, TypeOK, IsLoad, KnownFixes
  <2>2. visited' \in {"yes", "no"}
    BY DEF Record, StoreInv, TypeOK
  <2>3. loads' = [j \in Slots |-> loads'[j]]
    BY <1>1
  <2>4. \A j \in Slots : loads'[j] # None => IsLoad(loads'[j])
    BY <1>4 DEF StoreInv, TypeOK
  <2>5. world' \in [Vessels -> Fixes \cup {None}] /\ moves' \in Nat
    BY <1>1 DEF StoreInv, TypeOK
  <2>6. held' # None => held'.at \in Nat /\ KnownFixes(held'.known)
    BY <1>1 DEF StoreInv, TypeOK
  <2> QED
    BY <1>1, <1>6, <1>7, <2>1, <2>2, <2>3, <2>4, <2>5, <2>6 DEF TypeOK, IsLoad, KnownFixes
<1>9. WorldInv'
  BY <1>1, <1>4 DEF StoreInv, WorldInv, Reports, Readable, Holds
<1>10. ASSUME NEW j \in Slots, NEW k \in Slots, Polled(j)', Polled(k)' PROVE j = k
  BY <1>4, <1>10 DEF StoreInv, OrderInv, Polled
<1>11. ASSUME visited' = "no", NEW v \in DOMAIN entries'
       PROVE  /\ Travelled(entries'[v].points)
              /\ \A point \in ToSet(entries'[v].points) : IsOlder(point, v)'
  <2>1. visited = "no" /\ loads[i].by = "poll"
    BY <1>1, <1>11 DEF Record, StoreInv, TypeOK, IsLoad, KnownFixes
  <2>2. v \in Vessels /\ Polled(i) /\ (v \in DOMAIN report => Reports(i, v))
    BY <1>1, <1>6, <1>11, <2>1 DEF Polled, Reports
  <2>3. Travelled(PointsOf(v)) /\ \A point \in ToSet(PointsOf(v)) : IsOlder(point, v)
    <3>1. CASE v \in DOMAIN entries
      BY <2>1, <3>1, EntriesOf
    <3>2. CASE v \notin DOMAIN entries
      BY <3>2 DEF PointsOf, Travelled, Ascending, ToSet
    <3> QED
      BY <3>1, <3>2
  <2>4. ASSUME NEW point, IsOlder(point, v) PROVE IsOlder(point, v)'
    BY <1>1, <1>4, <2>4 DEF IsOlder, Polled, Reports, Readable, Holds
  <2>5. ASSUME v \in DOMAIN report, report[v].at # Unreadable, NEW point, point = report[v]
        PROVE  IsOlder(point, v)'
    <3>1. /\ point.at <= now
          /\ Readable(world[v]) => point.at <= world[v].at
          /\ Holds(v) => point.at <= held.known[v].at
      BY <2>2, <2>5 DEF StoreInv, WorldInv
    <3>2. \A j \in Slots : ~Polled(j)'
      BY <1>4, <2>2 DEF StoreInv, OrderInv, Polled
    <3>3. now' = now /\ world' = world /\ held' = held
      BY <1>1
    <3> HIDE DEF report
    <3> QED
      BY <3>1, <3>2, <3>3 DEF IsOlder, Readable, Holds
  <2>6. ASSUME v \in DOMAIN report, report[v].at # Unreadable, NEW m \in DOMAIN PointsOf(v)
        PROVE  PointsOf(v)[m].at <= report[v].at
    <3>1. IsOlder(PointsOf(v)[m], v)
      BY <2>3, <2>6 DEF ToSet
    <3> QED
      BY <2>2, <2>6, <3>1 DEF IsOlder
  <2> HIDE DEF report
  <2>7. Travelled(entries'[v].points)
    BY <1>7, <1>11, <2>3, <2>6
  <2>8. ASSUME NEW point \in ToSet(entries'[v].points) PROVE IsOlder(point, v)'
    <3>1. PICK n \in DOMAIN entries'[v].points : point = entries'[v].points[n]
      BY <2>8 DEF ToSet
    <3>2. CASE v \in DOMAIN report /\ report[v].at # Unreadable /\ entries'[v].points[n] = report[v]
      BY <2>5, <3>1, <3>2
    <3>3. CASE \E m \in DOMAIN PointsOf(v) : entries'[v].points[n] = PointsOf(v)[m]
      <4>1. point \in ToSet(PointsOf(v))
        BY <3>1, <3>3 DEF ToSet
      <4> QED
        BY <2>3, <2>4, <4>1
    <3> QED
      BY <1>7, <1>11, <3>1, <3>2, <3>3
  <2> QED
    BY <2>7, <2>8
<1>12. OrderInv'
  <2>1. \A v \in DOMAIN entries' : Travelled(entries'[v].points) <=> Travelled(entries[v].points)'
    BY DEF Travelled, Ascending
  <2> QED
    BY <1>10, <1>11, <2>1 DEF OrderInv, ToSet
<1> QED
  BY <1>8, <1>9, <1>12 DEF StoreInv

LEMMA InitStore == Init => StoreInv
<1> SUFFICES ASSUME Init PROVE StoreInv
  OBVIOUS
<1>1. TypeOK
  BY TrailAssumption DEF Init, TypeOK
<1>2. WorldInv
  BY DEF Init, WorldInv, Reports, Readable, Holds
<1>3. OrderInv
  BY DEF Init, OrderInv, Polled
<1> QED
  BY <1>1, <1>2, <1>3 DEF StoreInv

\* While nothing is recorded, the order rests on what is known of the vessels alone.
LEMMA OrderStands ==
    ASSUME StoreInv, UNCHANGED <<entries, visited>>,
           \A i, j \in Slots : Polled(i)' /\ Polled(j)' => i = j,
           visited = "no" => \A v \in Vessels : \A point : IsOlder(point, v) => IsOlder(point, v)'
    PROVE  OrderInv'
<1>1. ASSUME visited' = "no", NEW v \in DOMAIN entries'
      PROVE  /\ Travelled(entries[v].points)'
             /\ \A point \in ToSet(entries[v].points)' : IsOlder(point, v)'
  <2>1. entries' = entries /\ visited = "no" /\ v \in Vessels
    BY <1>1, EntriesOf
  <2>2. Travelled(entries[v].points) /\ \A point \in ToSet(entries[v].points) : IsOlder(point, v)
    BY <1>1, <2>1, EntriesOf
  <2>3. Travelled(entries[v].points)'
    BY <2>1, <2>2 DEF Travelled, Ascending
  <2>4. \A point \in ToSet(entries[v].points)' : IsOlder(point, v)'
    BY <2>1, <2>2 DEF ToSet
  <2> QED
    BY <2>3, <2>4
<1> QED
  BY <1>1 DEF OrderInv

\* An answer is of no later than what is held from then on, nor that than the world; and no
\* point is younger than it.
LEMMA AnswerStore ==
    ASSUME StoreInv, NEW i \in Slots, Report(i) \/ Reuse(i)
    PROVE  StoreInv'
<1> USE TrailAssumption
<1>0. now \in Nat /\ loads = [j \in Slots |-> loads[j]] /\ world \in [Vessels -> Fixes \cup {None}]
  BY DEF StoreInv, TypeOK
<1>1. PICK known, at :
         /\ Answer(i, known, at) /\ held'.known = known /\ held'.at = at
         /\ at \in Nat /\ KnownFixes(known)
         /\ \A v \in DOMAIN known : known[v].at # Unreadable =>
               /\ known[v].at <= now
               /\ Readable(world[v]) => known[v].at <= world[v].at
               /\ \A j \in Slots : Reports(j, v) /\ loads[j].report[v].at # Unreadable =>
                     loads[j].report[v].at <= known[v].at
               /\ \A point : IsOlder(point, v) => point.at <= known[v].at
  <2>1. CASE Report(i)
    <3>1. KnownFixes(KnownNow)
      BY <1>0 DEF KnownNow, KnownFixes
    <3>2. ASSUME NEW v \in DOMAIN KnownNow, KnownNow[v].at # Unreadable
          PROVE  v \in Vessels /\ KnownNow[v] = world[v] /\ Readable(world[v]) /\ world[v].at \in Nat
      BY <1>0, <3>2 DEF KnownNow, Readable, Fixes
    <3>3. ASSUME NEW v \in DOMAIN KnownNow, KnownNow[v].at # Unreadable
          PROVE  /\ KnownNow[v].at <= now
                 /\ Readable(world[v]) => KnownNow[v].at <= world[v].at
                 /\ \A j \in Slots : Reports(j, v) /\ loads[j].report[v].at # Unreadable =>
                       loads[j].report[v].at <= KnownNow[v].at
                 /\ \A point : IsOlder(point, v) => point.at <= KnownNow[v].at
      BY <3>2, <3>3 DEF StoreInv, WorldInv, IsOlder
    <3> QED
      BY <1>0, <2>1, <3>1, <3>3 DEF Report
  <2>2. CASE Reuse(i)
    <3>1. held # None /\ Answer(i, held.known, held.at) /\ held.at \in Nat /\ KnownFixes(held.known)
      BY <2>2 DEF Reuse, StoreInv, TypeOK
    <3>2. ASSUME NEW v \in DOMAIN held.known, held.known[v].at # Unreadable
          PROVE  Holds(v) /\ v \in Vessels
      BY <3>1, <3>2 DEF Holds, KnownFixes
    <3>3. held' = held
      BY <2>2 DEF Reuse
    <3>4. ASSUME NEW v \in DOMAIN held.known, held.known[v].at # Unreadable
          PROVE  /\ held.known[v].at <= now
                 /\ Readable(world[v]) => held.known[v].at <= world[v].at
                 /\ \A j \in Slots : Reports(j, v) /\ loads[j].report[v].at # Unreadable =>
                       loads[j].report[v].at <= held.known[v].at
                 /\ \A point : IsOlder(point, v) => point.at <= held.known[v].at
      BY <3>2, <3>4 DEF StoreInv, WorldInv, IsOlder
    <3> QED
      BY <3>1, <3>3, <3>4
  <2> QED
    BY <2>1, <2>2
<1>2. PICK area \in SUBSET DOMAIN known :
        loads' = [loads EXCEPT ![i] = [@ EXCEPT !.report = [v \in area |-> known[v]],
                                                !.reportedAt = at]]
  BY <1>1 DEF Answer
<1> DEFINE load == [loads[i] EXCEPT !.report = [v \in area |-> known[v]], !.reportedAt = at]
<1>3. loads[i] # None /\ UNCHANGED <<now, world, moves, entries, seenAt, visited>>
  BY <1>1 DEF Answer, Idle
<1>4. /\ load.startedAt = loads[i].startedAt /\ load.by = loads[i].by
      /\ load.report = [v \in area |-> known[v]] /\ load.reportedAt = at
  BY <1>3 DEF StoreInv, TypeOK, IsLoad, KnownFixes
<1>5. loads'[i] = load /\ \A j \in Slots \ {i} : loads'[j] = loads[j]
  BY <1>0, <1>2
<1>6. loads' = [j \in Slots |-> loads'[j]]
  BY <1>0, <1>2
<1> HIDE DEF load
<1>7. \A v \in DOMAIN load.report : v \in DOMAIN known /\ load.report[v] = known[v]
  BY <1>4
<1>8. TypeOK'
  <2>1. IsLoad(load)
    BY <1>0, <1>1, <1>3, <1>4, <1>7 DEF StoreInv, TypeOK, IsLoad, KnownFixes
  <2>2. \A j \in Slots : loads'[j] # None => IsLoad(loads'[j])
    BY <1>5, <2>1 DEF StoreInv, TypeOK
  <2>3. held' # None => held'.at \in Nat /\ KnownFixes(held'.known)
    BY <1>1
  <2> QED
    BY <1>3, <1>6, <2>2, <2>3 DEF StoreInv, TypeOK, IsLoad, KnownFixes
<1>9. ASSUME NEW v, Holds(v)' PROVE v \in DOMAIN known /\ known[v].at # Unreadable /\ held'.known[v] = known[v]
  BY <1>1, <1>9 DEF Holds
<1>10. ASSUME NEW j \in Slots, NEW v \in Vessels, Reports(j, v)', loads'[j].report[v].at # Unreadable
       PROVE  /\ loads'[j].report[v].at <= now
              /\ Readable(world[v]) => loads'[j].report[v].at <= world[v].at
              /\ Holds(v)' => loads'[j].report[v].at <= held'.known[v].at
  <2>1. CASE j = i
    <3>1. v \in DOMAIN known /\ loads'[j].report[v] = known[v] /\ known[v] \in Fixes
      BY <1>1, <1>5, <1>7, <1>10, <2>1 DEF Reports, KnownFixes
    <3>2. known[v].at \in Nat
      BY <1>10, <3>1 DEF Fixes
    <3> QED
      BY <1>1, <1>9, <1>10, <3>1, <3>2
  <2>2. CASE j # i
    <3>1. Reports(j, v) /\ loads'[j] = loads[j]
      BY <1>5, <1>10, <2>2 DEF Reports
    <3> QED
      BY <1>1, <1>9, <1>10, <3>1 DEF StoreInv, WorldInv
  <2> QED
    BY <2>1, <2>2
<1>11. WorldInv'
  <2>1. ASSUME NEW v \in Vessels, Holds(v)'
        PROVE  /\ held'.known[v].at <= now
               /\ Readable(world[v]) => held'.known[v].at <= world[v].at
    <3>1. v \in DOMAIN known /\ known[v].at # Unreadable /\ held'.known[v] = known[v]
      BY <1>9, <2>1
    <3> QED
      BY <1>1, <3>1
  <2> QED
    BY <1>3, <1>10, <2>1 DEF StoreInv, WorldInv, Readable, Reports
<1>12. \A j \in Slots : Polled(j)' => Polled(j)
  BY <1>3, <1>4, <1>5 DEF Polled
<1>13. ASSUME NEW v \in Vessels, NEW point, IsOlder(point, v) PROVE IsOlder(point, v)'
  <2>1. ASSUME NEW j \in Slots, Polled(j)', Reports(j, v)', loads'[j].report[v].at # Unreadable
        PROVE  point.at <= loads'[j].report[v].at
    <3>1. CASE j = i
      <4>1. v \in DOMAIN known /\ loads'[j].report[v] = known[v]
        BY <1>5, <1>7, <2>1, <3>1 DEF Reports
      <4> QED
        BY <1>1, <1>13, <2>1, <4>1
    <3>2. CASE j # i
      BY <1>5, <1>12, <1>13, <2>1, <3>2 DEF IsOlder, Reports
    <3> QED
      BY <3>1, <3>2
  <2>2. Holds(v)' => point.at <= held'.known[v].at
    BY <1>1, <1>9, <1>13
  <2> QED
    BY <1>3, <1>13, <2>1, <2>2 DEF IsOlder, Readable, Polled, Reports
<1>14. OrderInv'
  BY <1>3, <1>12, <1>13, OrderStands DEF StoreInv, OrderInv
<1> QED
  BY <1>8, <1>11, <1>14 DEF StoreInv

LEMMA StepStore == StoreInv /\ [Next]_vars => StoreInv'
<1> SUFFICES ASSUME StoreInv, [Next]_vars PROVE StoreInv'
  OBVIOUS
<1> USE TrailAssumption
<1>0. now \in Nat /\ loads = [i \in Slots |-> loads[i]] /\ world \in [Vessels -> Fixes \cup {None}]
  BY DEF StoreInv, TypeOK
<1>1. ASSUME NEW i \in Slots, (Start(i, "poll") /\ ~Polling) \/ Start(i, "visit") PROVE StoreInv'
  <2>1. PICK by \in {"poll", "visit"} : Start(i, by) /\ (by = "poll" => ~Polling)
    BY <1>1
  <2>2. /\ loads'[i] = [by |-> by, startedAt |-> now, report |-> None, reportedAt |-> 0]
        /\ \A j \in Slots \ {i} : loads'[j] = loads[j]
        /\ loads' = [j \in Slots |-> loads'[j]]
        /\ UNCHANGED <<now, world, moves, held, entries, seenAt, visited>>
    BY <1>0, <2>1 DEF Start
  <2>3. TypeOK'
    <3>1. IsLoad(loads'[i])
      BY <1>0, <2>2 DEF IsLoad, KnownFixes
    <3>2. \A j \in Slots : loads'[j] # None => IsLoad(loads'[j])
      BY <2>2, <3>1 DEF StoreInv, TypeOK
    <3> QED
      BY <2>2, <3>2 DEF StoreInv, TypeOK, IsLoad, KnownFixes
  <2>4. WorldInv'
    BY <2>2 DEF StoreInv, WorldInv, Reports, Readable, Holds
  <2>5. \A j, k \in Slots : Polled(j)' /\ Polled(k)' => j = k
    BY <2>1, <2>2 DEF StoreInv, OrderInv, Polled, Polling
  <2>6. \A v \in Vessels : \A point : IsOlder(point, v) => IsOlder(point, v)'
    BY <2>2 DEF IsOlder, Polled, Reports, Readable, Holds
  <2> QED
    BY <2>2, <2>3, <2>4, <2>5, <2>6, OrderStands DEF StoreInv
<1>2. ASSUME NEW i \in Slots, Report(i) \/ Reuse(i) PROVE StoreInv'
  BY <1>2, AnswerStore
<1>3. ASSUME NEW i \in Slots, LoadFails(i) PROVE StoreInv'
  <2>1. /\ loads'[i] = None /\ \A j \in Slots \ {i} : loads'[j] = loads[j]
        /\ loads' = [j \in Slots |-> loads'[j]]
        /\ UNCHANGED <<now, world, moves, held, entries, seenAt, visited>>
    BY <1>0, <1>3 DEF LoadFails
  <2>2. TypeOK'
    BY <2>1 DEF StoreInv, TypeOK, IsLoad, KnownFixes
  <2>3. WorldInv'
    BY <2>1 DEF StoreInv, WorldInv, Reports, Readable, Holds
  <2>4. OrderInv'
    <3>1. \A j, k \in Slots : Polled(j)' /\ Polled(k)' => j = k
      BY <2>1 DEF StoreInv, OrderInv, Polled
    <3>2. \A v \in Vessels : \A point : IsOlder(point, v) => IsOlder(point, v)'
      BY <2>1 DEF IsOlder, Polled, Reports, Readable, Holds
    <3> QED
      BY <2>1, <3>1, <3>2, OrderStands
  <2> QED
    BY <2>2, <2>3, <2>4 DEF StoreInv
<1>4. ASSUME NEW u \in Vessels, NEW fix \in Fixes \cup {None},
             fix # None => fix.at \in {now, Unreadable},
             world' = [world EXCEPT ![u] = fix], moves' \in Nat,
             UNCHANGED <<now, held, entries, loads, seenAt, visited>>
      PROVE  StoreInv'
  <2>1. world'[u] = fix /\ \A v \in Vessels \ {u} : world'[v] = world[v]
    BY <1>0, <1>4
  <2>2. world' \in [Vessels -> Fixes \cup {None}]
    BY <1>0, <1>4
  <2>3. TypeOK'
    BY <1>4, <2>2 DEF StoreInv, TypeOK, IsLoad, KnownFixes
  <2>4. WorldInv'
    BY <1>0, <1>4, <2>1 DEF StoreInv, WorldInv, Reports, Readable, Holds
  <2>5. OrderInv'
    <3>1. \A j, k \in Slots : Polled(j)' /\ Polled(k)' => j = k
      BY <1>4 DEF StoreInv, OrderInv, Polled
    <3>2. ASSUME NEW v \in Vessels, NEW point, IsOlder(point, v) PROVE IsOlder(point, v)'
      BY <1>4, <2>1, <3>2 DEF IsOlder, Polled, Reports, Readable, Holds
    <3> QED
      BY <1>4, <3>1, <3>2, OrderStands
  <2> QED
    BY <2>3, <2>4, <2>5 DEF StoreInv
<1>5. ASSUME NEW v \in Vessels, Leaves(v) PROVE StoreInv'
  <2>1. world' = [world EXCEPT ![v] = None] /\ UNCHANGED <<now, held, entries, loads, seenAt, visited>>
    BY <1>5 DEF Leaves
  <2>2. moves' \in Nat
    BY <1>5 DEF Leaves, StoreInv, TypeOK
  <2> QED
    BY <1>4, <2>1, <2>2
<1>6. ASSUME NEW v \in Vessels, NEW place \in Places, Moves(v, place) PROVE StoreInv'
  <2>1. PICK at \in {now, Unreadable} : world' = [world EXCEPT ![v] = [place |-> place, at |-> at]]
    BY <1>6 DEF Moves
  <2>2. moves' \in Nat /\ UNCHANGED <<now, held, entries, loads, seenAt, visited>>
    BY <1>6 DEF Moves, StoreInv, TypeOK
  <2> DEFINE fix == [place |-> place, at |-> at]
  <2>3. fix \in Fixes /\ fix.at \in {now, Unreadable}
    BY <1>0 DEF Fixes
  <2> QED
    BY <1>4, <2>1, <2>2, <2>3
<1>7. ASSUME Tick PROVE StoreInv'
  <2>1. now' = now + 1 /\ now' \in Nat /\ UNCHANGED <<world, moves, held, entries, loads, seenAt, visited>>
    BY <1>0, <1>7 DEF Tick
  <2>2. TypeOK'
    BY <2>1 DEF StoreInv, TypeOK, IsLoad, KnownFixes
  <2>3. WorldInv'
    <3>1. ASSUME NEW v \in Vessels, Readable(world[v]) PROVE world[v].at <= now'
      <4>1. world[v].at \in Nat /\ world[v].at <= now
        BY <1>0, <3>1 DEF StoreInv, WorldInv, Readable, Holds, Fixes
      <4> QED
        BY <1>0, <2>1, <4>1
    <3>2. ASSUME NEW i \in Slots, NEW v \in Vessels, Reports(i, v), loads[i].report[v].at # Unreadable
          PROVE  /\ loads[i].report[v].at <= now'
                 /\ Readable(world[v]) => loads[i].report[v].at <= world[v].at
      <4>1. loads[i].report[v] \in Fixes
        BY <3>2 DEF Reports, StoreInv, TypeOK, IsLoad, KnownFixes
      <4>2. loads[i].report[v].at \in Nat
        BY <3>2, <4>1 DEF Fixes
      <4>3. /\ loads[i].report[v].at <= now
            /\ Readable(world[v]) => loads[i].report[v].at <= world[v].at
        BY <3>2 DEF StoreInv, WorldInv
      <4> QED
        BY <1>0, <2>1, <4>2, <4>3
    <3>3. ASSUME NEW v \in Vessels, Holds(v)
          PROVE  /\ held.known[v].at <= now'
                 /\ Readable(world[v]) => held.known[v].at <= world[v].at
      <4>1. held.known[v].at \in Nat
        BY <3>3 DEF Holds, StoreInv, TypeOK, KnownFixes, Fixes
      <4> QED
        BY <1>0, <2>1, <3>3, <4>1 DEF StoreInv, WorldInv
    <3>4. ASSUME NEW i \in Slots, NEW v \in Vessels, Reports(i, v), loads[i].report[v].at # Unreadable
          PROVE  Holds(v) => loads[i].report[v].at <= held.known[v].at
      BY <3>4 DEF StoreInv, WorldInv
    <3> QED
      BY <2>1, <3>1, <3>2, <3>3, <3>4 DEF WorldInv, Reports, Readable, Holds
  <2>4. OrderInv'
    <3>1. \A j, k \in Slots : Polled(j)' /\ Polled(k)' => j = k
      BY <2>1 DEF StoreInv, OrderInv, Polled
    <3>2. ASSUME visited' = "no", NEW v \in DOMAIN entries'
          PROVE  /\ Travelled(entries[v].points)'
                 /\ \A point \in ToSet(entries[v].points)' : IsOlder(point, v)'
      <4>1. entries' = entries /\ visited = "no"
        BY <2>1, <3>2
      <4>2. Travelled(entries[v].points) /\ \A point \in ToSet(entries[v].points) : IsOlder(point, v)
        BY <3>2, <4>1, EntriesOf
      <4>3. Travelled(entries[v].points)'
        BY <4>1, <4>2 DEF Travelled, Ascending
      <4>4. ASSUME NEW point \in ToSet(entries[v].points) PROVE IsOlder(point, v)'
        <5>1. point.at \in Nat
          <6>1. entries[v].points \in Seq(Spots)
            BY <3>2, <4>1, EntriesOf
          <6>2. point \in Spots
            BY <4>4, <6>1 DEF ToSet
          <6> QED
            BY <6>2 DEF Spots
        <5>2. IsOlder(point, v)
          BY <4>2, <4>4
        <5> QED
          BY <1>0, <2>1, <5>1, <5>2 DEF IsOlder, Polled, Reports, Readable, Holds
      <4> QED
        BY <4>1, <4>3, <4>4 DEF ToSet
    <3> QED
      BY <3>1, <3>2 DEF OrderInv
  <2> QED
    BY <2>2, <2>3, <2>4 DEF StoreInv
<1>8. CASE UNCHANGED vars
  <2>1. TypeOK' /\ WorldInv'
    BY <1>8 DEF vars, StoreInv, TypeOK, IsLoad, KnownFixes, WorldInv, Reports, Readable, Holds
  <2>2. OrderInv'
    <3>1. \A j, k \in Slots : Polled(j)' /\ Polled(k)' => j = k
      BY <1>8 DEF vars, StoreInv, OrderInv, Polled
    <3>2. \A v \in Vessels : \A point : IsOlder(point, v) => IsOlder(point, v)'
      BY <1>8 DEF vars, IsOlder, Polled, Reports, Readable, Holds
    <3> QED
      BY <1>8, <3>1, <3>2, OrderStands DEF vars
  <2> QED
    BY <2>1, <2>2 DEF StoreInv
<1> QED
  BY <1>1, <1>2, <1>3, <1>5, <1>6, <1>7, <1>8, RecordStore DEF Next, StartPoll, StartVisit

\* What a browser is shown of a trail is in the window whatever the store holds; while only
\* polls have recorded, the store holds it in order.
LEMMA StoreIsSound == StoreInv => TrailIsSound
<1> SUFFICES ASSUME StoreInv PROVE TrailIsSound
  OBVIOUS
<1>1. now \in Nat
  BY DEF StoreInv, TypeOK
<1>2. ASSUME NEW v PROVE PointsOf(v) \in Seq(Spots)
  BY EntriesOf DEF PointsOf
<1>3. PollAloneKeepsOrder
  <2>1. ASSUME visited = "no", NEW v \in Vessels PROVE Travelled(PointsOf(v))
    BY <2>1, EntriesOf DEF PointsOf, Travelled, Ascending
  <2> QED
    BY <2>1 DEF PollAloneKeepsOrder, Travelled
<1>4. TrailIsRecent
  <2> SUFFICES ASSUME NEW v \in Vessels, NEW i \in DOMAIN TrailFor(v)
               PROVE  InWindow(TrailFor(v)[i], now)
    BY DEF TrailIsRecent
  <2> DEFINE fresh == Fresh(PointsOf(v), now)
  <2>1. /\ fresh \in Seq(Spots)
        /\ \A n \in DOMAIN fresh : InWindow(fresh[n], now)
    BY <1>1, <1>2, FreshPoints
  <2>2. TrailFor(v) = IF fresh = <<>> THEN <<>> ELSE SubSeq(fresh, 1, Len(fresh) - 1)
    BY DEF TrailFor, Front
  <2> HIDE DEF fresh
  <2>3. i \in DOMAIN fresh /\ TrailFor(v)[i] = fresh[i]
    BY <2>1, <2>2
  <2> QED
    BY <2>1, <2>3
<1> QED
  BY <1>3, <1>4 DEF TrailIsSound

\* While only the poller records, no trail runs backwards or shows a moment or a place twice in
\* a row; and no browser is shown a point from before the window, also after an outage.
THEOREM TrailsAreSound == Spec => []TrailIsSound
  BY StoreIsSound, InitStore, StepStore, PTL DEF Spec

\* The store holds at most maxPoints readable positions of a vessel, through any overlap of loads.
THEOREM StoreIsTyped == Spec => []TypeOK
  BY InitStore, StepStore, PTL DEF Spec, StoreInv

===============================================================================
