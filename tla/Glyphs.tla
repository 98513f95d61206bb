-------------------------------- MODULE Glyphs --------------------------------
(***************************************************************************)
(* What the browser works out before it draws the vessels it was sent      *)
(* (src/web/pages/map): how old a fix may be (glyphs.ts), where a moving   *)
(* vessel has got to since (motion.ts), which vessels stand too close to   *)
(* be told apart (clustering.ts) and the trail behind each (trails.ts).    *)
(* A place is a point of a line and a speed the steps per tick along it.   *)
(***************************************************************************)
EXTENDS FiniteSets, SequencesExt, Lists

CONSTANTS
    MaxProjection, \* MAX_PROJECTION_MS
    MaxPoints,     \* MAX_POINTS of a trail
    TrailAge       \* MAX_AGE_MS of a trail

\* opacityForAge, null as "gone".
OpacityForAge(age, maxAge) ==
    IF age >= maxAge THEN "gone" ELSE IF 2 * age >= maxAge THEN "aged" ELSE "full"

VisibleGlyphs(items, maxAge, now) ==
    Kept(items, {g \in ToSet(items) : OpacityForAge(now - g.at, maxAge) # "gone"})

Ids(items) == {items[i].id : i \in DOMAIN items}

\* The heading goes with the place here.
GlyphEqual(a, b) == a.place = b.place /\ a.at = b.at

\* diffGlyphs, `previous` being what is drawn by id.
DiffGlyphs(previous, next) ==
    LET there == {g \in ToSet(next) : g.id \in DOMAIN previous} IN
    [toAdd    |-> Kept(next, ToSet(next) \ there),
     toUpdate |-> Kept(next, {g \in there : ~GlyphEqual(previous[g.id], g)}),
     toRemove |-> DOMAIN previous \ Ids(next)]

\* projectPosition: nothing is projected ahead of its fix, nor once the fix is too old.
ProjectPosition(from, speed, elapsed) ==
    IF speed <= 0 \/ elapsed <= 0 \/ elapsed > MaxProjection THEN from ELSE from + speed * elapsed

\* Is the mean of the cluster c, as it stands, within reach of p?  `scale` is the zoom's.
Near(c, p, scale, threshold) ==
    LET apart == scale * p.place * Len(c.members) - c.sum
    IN  apart <= threshold * Len(c.members) /\ -apart <= threshold * Len(c.members)

\* A point joins the first of the clusters within reach of it and moves its mean, or starts one.
Joined(working, p, scale, threshold) ==
    LET reach == {i \in DOMAIN working : Near(working[i], p, scale, threshold)}
        at    == CHOOSE i \in reach : \A j \in reach : i <= j
    IN  IF reach = {}
        THEN Append(working, [sum |-> scale * p.place, members |-> <<p>>])
        ELSE [working EXCEPT ![at] = [sum |-> @.sum + scale * p.place, members |-> Append(@.members, p)]]

\* clusterPoints, one pass over the points.
ClusterPoints(points, scale, threshold) ==
    LET working[n \in 0..Len(points)] ==
            IF n = 0 THEN <<>> ELSE Joined(working[n - 1], points[n], scale, threshold)
    IN  working[Len(points)]

-------------------------------------------------------------------------------
(* Trails. *)

AgeTrailPoints(points, now) == Kept(points, {p \in ToSet(points) : p.at >= now - TrailAge})

LastOf(points, count) ==
    IF Len(points) > count THEN SubSeq(points, Len(points) - count + 1, Len(points)) ELSE points

\* Is `next` where, or when, the newest of the points is, or too old to be drawn?
SkipAppend(kept, next, now) ==
    \/ next.at < now - TrailAge
    \/ /\ kept # <<>>
       /\ Last(kept).place = next.place \/ Last(kept).at = next.at

AppendTrailPoint(points, next, now) ==
    LET kept == AgeTrailPoints(points, now)
    IN  LastOf(IF SkipAppend(kept, next, now) THEN kept ELSE Append(kept, next), MaxPoints)

\* Does appendTrailPoint hand back another array than it was given?  The caller redraws when
\* it does.
Reappended(points, next, now) ==
    LET kept == AgeTrailPoints(points, now)
    IN  ~SkipAppend(kept, next, now) \/ Len(kept) # Len(points)

\* Array.prototype.sort by the time, which keeps points of one time in their order.
InOrder(points) ==
    LET rank(i) == Cardinality({j \in DOMAIN points :
                                    \/ points[j].at < points[i].at
                                    \/ points[j].at = points[i].at /\ j <= i})
    IN  [n \in DOMAIN points |-> points[CHOOSE i \in DOMAIN points : rank(i) = n]]

\* seedPoints: what the server remembers of a vessel first seen, in order.
SeedPoints(remembered, now) ==
    LastOf(InOrder(AgeTrailPoints(remembered, now)), MaxPoints)

\* trailSegments, each fainter than the one after it.
TrailSegments(points) ==
    [i \in 1..(IF points = <<>> THEN 0 ELSE Len(points) - 1) |-> [from |-> points[i], to |-> points[i + 1]]]

===============================================================================
