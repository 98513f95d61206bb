------------------------------- MODULE Viewports -------------------------------
(***************************************************************************)
(* Rectangles and points as the server's layers use them: parsing and      *)
(* clamping a viewport, snapping it outward to the grid that makes it a    *)
(* cache key, its circle for a provider that asks by radius, and the       *)
(* rounding of a visitor's position (src/server/layers/bbox.ts, point.ts   *)
(* and the geometry of src/server/aircraft/provider.ts).                   *)
(*                                                                         *)
(* Coordinates are whole numbers of some unit fine enough for the grid,    *)
(* which is what the source's roundDrift makes of its floats.              *)
(***************************************************************************)
EXTENDS Integers, Sequences

CONSTANTS
    LatLimit,  \* 90 degrees
    LngLimit,  \* 180 degrees
    MaxSpan,   \* MAX_SPAN_DEGREES
    Grid,      \* ROUND_PRECISION_DEGREES
    Margin,    \* OPENSKY_MARGIN_DEGREES
    Unread     \* a coordinate that is not a finite number

ASSUME ViewportAssumption ==
    /\ {LatLimit, LngLimit, MaxSpan, Grid} \subseteq Nat \ {0}
    /\ Margin \in Nat
    /\ LatLimit % Grid = 0 /\ LngLimit % Grid = 0
    /\ Unread \notin Int

Lower(a, b) == IF a < b THEN a ELSE b
Higher(a, b) == IF a > b THEN a ELSE b

Bbox(lat1, lng1, lat2, lng2) == [minLat |-> lat1, minLng |-> lng1, maxLat |-> lat2, maxLng |-> lng2]
Bboxes == [minLat : Int, minLng : Int, maxLat : Int, maxLng : Int]

Within(p, b) ==
    /\ b.minLat <= p.lat /\ p.lat <= b.maxLat
    /\ b.minLng <= p.lng /\ p.lng <= b.maxLng

ContainsBbox(outer, inner) ==
    /\ outer.minLat <= inner.minLat /\ inner.maxLat <= outer.maxLat
    /\ outer.minLng <= inner.minLng /\ inner.maxLng <= outer.maxLng

\* What the contract takes for a place (LatLngSchema, schemas/common.ts).
Earth == Bbox(-LatLimit, -LngLimit, LatLimit, LngLimit)

OnEarth(b) ==
    /\ -LatLimit <= b.minLat /\ b.maxLat <= LatLimit
    /\ -LngLimit <= b.minLng /\ b.maxLng <= LngLimit

-------------------------------------------------------------------------------
(* A viewport from the query string to its cache key. *)

\* The four numbers come in the query's order: minLng, minLat, maxLng, maxLat.
Parses(raw) ==
    /\ Len(raw) = 4
    /\ \A i \in 1..4 : raw[i] # Unread
    /\ -LngLimit <= raw[1] /\ raw[1] < raw[3] /\ raw[3] <= LngLimit
    /\ -LatLimit <= raw[2] /\ raw[2] < raw[4] /\ raw[4] <= LatLimit

ParseBbox(raw) == Bbox(raw[2], raw[1], raw[4], raw[3])

\* An axis shrunk around its centre; the sum of the ends is twice the centre.
Shrunk(lo, hi, limit) ==
    LET span == Lower(hi - lo, MaxSpan)
    IN  <<Higher(-limit, (lo + hi - span) \div 2), Lower(limit, (lo + hi + span) \div 2)>>

ClampBbox(b) ==
    LET lat == Shrunk(b.minLat, b.maxLat, LatLimit)
        lng == Shrunk(b.minLng, b.maxLng, LngLimit)
    IN  Bbox(lat[1], lng[1], lat[2], lng[2])

FloorToPrecision(v) == (v \div Grid) * Grid

CeilToPrecision(v) == -((-v) \div Grid) * Grid

RoundBbox(b) ==
    Bbox(FloorToPrecision(b.minLat), FloorToPrecision(b.minLng),
         CeilToPrecision(b.maxLat), CeilToPrecision(b.maxLng))

\* What a request asks upstream, and its cache key.
Viewport(raw) == RoundBbox(ClampBbox(ParseBbox(raw)))

WithMargin(b) ==
    Bbox(Higher(-LatLimit, b.minLat - Margin), Higher(-LngLimit, b.minLng - Margin),
         Lower(LatLimit, b.maxLat + Margin), Lower(LngLimit, b.maxLng + Margin))

===============================================================================
