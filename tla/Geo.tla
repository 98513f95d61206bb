---------------------------------- MODULE Geo ----------------------------------
(***************************************************************************)
(* Clipping a region's outline to a viewport, and where its pin goes       *)
(* (src/server/warnings/geo.ts).  A point is <<lat, lng>> as in the        *)
(* source, a ring a sequence of them, closed implicitly.                   *)
(*                                                                         *)
(* The arithmetic is on whole numbers: Lerp is exact for the rings of      *)
(* vertical and horizontal edges the instances use, and the centroid is    *)
(* left as a fraction.                                                     *)
(***************************************************************************)
EXTENDS Viewports, SequencesExt

\* A side of a viewport: the points whose coordinate k is at least v, or at most.
AtLeast(k, v) == [axis |-> k, sign |-> 1, at |-> v]
AtMost(k, v) == [axis |-> k, sign |-> -1, at |-> v]
Inside(p, side) == side.sign * p[side.axis] >= side.sign * side.at

\* The crossing of the edge a-b with the line of a side.
Lerp(a, b, side) ==
    LET run == b[side.axis] - a[side.axis]
        sign == IF run < 0 THEN -1 ELSE 1
    IN  [i \in 1..2 |-> a[i] + (sign * (b[i] - a[i]) * (side.at - a[side.axis])) \div (sign * run)]

Previous(ring, i) == ring[IF i = 1 THEN Len(ring) ELSE i - 1]

\* What a vertex and the one before it leave of themselves.
Clipped(previous, current, side) ==
    CASE Inside(current, side) /\ Inside(previous, side) -> <<current>>
      [] Inside(current, side) /\ ~Inside(previous, side) -> <<Lerp(previous, current, side), current>>
      [] ~Inside(current, side) /\ Inside(previous, side) -> <<Lerp(previous, current, side)>>
      [] OTHER -> <<>>

\* Sutherland-Hodgman: the vertices inside, and the crossings between two that disagree.
ClipHalfPlane(points, side) == FlattenSeq([i \in DOMAIN points |-> Clipped(Previous(points, i), points[i], side)])

ClipLat(ring, b) == ClipHalfPlane(ClipHalfPlane(ring, AtLeast(1, b.minLat)), AtMost(1, b.maxLat))
ClipLng(ring, b) == ClipHalfPlane(ClipHalfPlane(ring, AtLeast(2, b.minLng)), AtMost(2, b.maxLng))

\* Mutant of ClipRingToBbox: a ring with no vertex in the viewport is taken to miss it.
ClipRingToBboxByVertex(ring, b) ==
    IF \A i \in DOMAIN ring : ~Within([lat |-> ring[i][1], lng |-> ring[i][2]], b) THEN <<>>
    ELSE ClipLng(ClipLat(ring, b), b)

\* Four clips, each against the whole half-plane of one side.
ClipRingToBbox(ring, b) == IF Len(ring) < 3 THEN <<>> ELSE ClipLng(ClipLat(ring, b), b)

LOCAL Cross(p, q) == p[1] * q[2] - q[1] * p[2]
LOCAL SumOver(ring, f(_, _)) ==
    FoldLeft(LAMBDA sum, i : sum + f(Previous(ring, i), ring[i]), 0, [i \in DOMAIN ring |-> i])

\* The shoelace formula, undivided.
TwiceSignedArea(ring) == SumOver(ring, Cross)

\* An edge or a corner in common is no overlap.
RingIntersectsBbox(ring, b) ==
    LET clipped == ClipRingToBbox(ring, b) IN Len(clipped) >= 3 /\ TwiceSignedArea(clipped) # 0

\* The centroid by area, or the mean of the vertices where there is none: over a denominator.
RingCentroid(ring) ==
    LET twice == TwiceSignedArea(ring) IN
    IF twice = 0
    THEN [lat |-> SumOver(ring, LAMBDA p, q : q[1]), lng |-> SumOver(ring, LAMBDA p, q : q[2]), over |-> Len(ring)]
    ELSE LET sign == IF twice > 0 THEN 1 ELSE -1
         IN  [lat |-> sign * SumOver(ring, LAMBDA p, q : (p[1] + q[1]) * Cross(p, q)),
              lng |-> sign * SumOver(ring, LAMBDA p, q : (p[2] + q[2]) * Cross(p, q)),
              over |-> sign * 3 * twice]

===============================================================================
