------------------------------ MODULE TrailLayer ------------------------------
(***************************************************************************)
(* The trails behind the vessels of a layer                                *)
(* (src/web/pages/map/trailLayer.ts): the points of each, the segments     *)
(* drawn of them, and the leading segment out to where the vessel has      *)
(* glided to since its fix.  A vessel seen for the first time starts from  *)
(* what the server remembers of it.                                        *)
(***************************************************************************)
EXTENDS Glyphs, FiniteSets

CONSTANTS
    Sightings,   \* what an update may hold: vessels by the age of their fix
    ForgetAfter, \* FORGET_AFTER_MS
    NoHead,
    MaxNow       \* bound: the clock

ASSUME TrailLayerAssumption ==
    /\ {MaxProjection, MaxPoints, TrailAge, ForgetAfter, MaxNow} \subseteq Nat /\ MaxPoints > 0

ASSUME SightingsAssumption ==
    \A vessels \in Sightings : \A v \in vessels : v.remembered \in Seq([age : Int, place : Int])

VARIABLES
    now,    \* Date.now()
    trails  \* entries: the trail of each vessel by its id

trailVars == <<now, trails>>

Since(points) == [i \in DOMAIN points |-> [at |-> now - points[i].age, place |-> points[i].place]]

\* Mutant of Redraws: only a new newest point is noticed.
RedrawsWhenLonger(before, fix) == Len(AppendTrailPoint(before, fix, now)) > Len(before)

\* Is the trail drawn anew with this fix?
Redraws(before, fix) == Reappended(before, fix, now)

\* drawHead: from the newest of the points to where the vessel is now.
LeadingSegment(trail) ==
    LET to == ProjectPosition(trail.fix.place, trail.speed, now - trail.fix.at)
    IN  IF to = trail.fix.place THEN NoHead
        ELSE [from |-> IF trail.points = <<>> THEN trail.fix.place ELSE Last(trail.points).place, to |-> to]

\* The trail of a vessel that is in the update.
Tracked(v) ==
    LET old    == IF v.id \in DOMAIN trails THEN trails[v.id]
                  ELSE [points |-> SeedPoints(Since(v.remembered), now), lines |-> <<>>]
        fix    == [at |-> now - v.age, place |-> v.place]
        points == AppendTrailPoint(old.points, fix, now)
        trail  == [points |-> points, fix |-> fix, speed |-> v.speed, seen |-> now, head |-> NoHead,
                   lines |-> IF Redraws(old.points, fix) THEN TrailSegments(points) ELSE old.lines]
    IN  [trail EXCEPT !.head = LeadingSegment(trail)]

\* One that is not: its points age too.
Untracked(trail) ==
    LET aged == AgeTrailPoints(trail.points, now)
    IN  IF Len(aged) = Len(trail.points) THEN trail
        ELSE [trail EXCEPT !.points = aged, !.lines = TrailSegments(aged)]

TrailInit == now = 0 /\ trails = <<>>

Update(vessels) ==
    /\ LET known == DOMAIN trails \ {id \in DOMAIN trails : now - trails[id].seen >= ForgetAfter}
       IN  trails' = [id \in known \cup {v.id : v \in vessels} |->
                         IF \E v \in vessels : v.id = id
                         THEN Tracked(CHOOSE v \in vessels : v.id = id)
                         ELSE Untracked(trails[id])]
    /\ UNCHANGED now

\* The motion timer, on a page in sight.
MoveHeads ==
    /\ trails' = [id \in DOMAIN trails |-> [trails[id] EXCEPT !.head = LeadingSegment(trails[id])]]
    /\ UNCHANGED now

\* clear().
ClearTrails == trails' = <<>> /\ UNCHANGED now

TrailPasses == now < MaxNow /\ now' = now + 1 /\ UNCHANGED trails

TrailNext ==
    \/ \E vessels \in Sightings : Update(vessels)
    \/ MoveHeads \/ ClearTrails \/ TrailPasses

TrailSpec == TrailInit /\ [][TrailNext]_trailVars

-------------------------------------------------------------------------------
(* Correctness. *)

\* No segment stays drawn once a point of it has aged out of the trail or been pushed out of it,
\* which identity alone tells: the newest point may be the one there was.
NoStaleSegment ==
    \A id \in DOMAIN trails : ToSet(trails[id].lines) \subseteq ToSet(TrailSegments(trails[id].points))

\* What trailLayer.ts says of a vessel first seen: its remembered trail is on screen at once.
SeededIsDrawn ==
    \A id \in DOMAIN trails : trails[id].lines = TrailSegments(trails[id].points)

===============================================================================
