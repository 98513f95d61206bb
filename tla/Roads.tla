--------------------------------- MODULE Roads ---------------------------------
(***************************************************************************)
(* From Vegvesen's records to the road situations and road cameras that    *)
(* are served (src/server/roads/situations.ts, simplify.ts,                *)
(* road-cameras.ts).  A list is a sequence, as its order decides some      *)
(* ties.  Times and coordinates are whole numbers; text fields that are    *)
(* only copied are left out.                                               *)
(***************************************************************************)
EXTENDS StaleCache, SequencesExt, FiniteSets, Lists

CONSTANTS
    Tolerance,       \* SIMPLIFY_TOLERANCE_DEGREES
    RoundStep,       \* 10^-COORDINATE_DECIMALS
    Horizon,         \* PLANNED_HORIZON_DAYS
    MaxWind,         \* MAX_PLAUSIBLE_WIND_MPS
    MinMean          \* MIN_MEAN_FOR_GUST_RATIO_MPS

-------------------------------------------------------------------------------
(* simplifyLine. *)

Cross(p, a, b) == (b[1] - a[1]) * (p[2] - a[2]) - (b[2] - a[2]) * (p[1] - a[1])
SquaredDistance(a, b) == (b[1] - a[1]) * (b[1] - a[1]) + (b[2] - a[2]) * (b[2] - a[2])

\* perpendicularDistance, as a fraction squared: its numerator, over the squared length of
\* the segment; the distance to the line through it, not to the segment itself.
PerpendicularDistance(p, a, b) == IF a = b THEN SquaredDistance(p, a) ELSE Cross(p, a, b) * Cross(p, a, b)
LOCAL Over(a, b) == IF a = b THEN 1 ELSE SquaredDistance(a, b)

\* The inner point farthest from the line is kept, and the two halves looked at in turn,
\* unless none is beyond the tolerance.
DouglasPeucker(points) ==
    LET n == Len(points)
        Inner[span \in (1..n) \X (1..n)] ==
            LET first == span[1]
                last == span[2]
                inner == (first + 1)..(last - 1)
                Far(i) == PerpendicularDistance(points[i], points[first], points[last])
                farthest == CHOOSE i \in inner : \A j \in inner : Far(j) < Far(i) \/ (Far(j) = Far(i) /\ i <= j)
            IN  IF inner = {} THEN {}
                ELSE IF Far(farthest) <= Tolerance * Tolerance * Over(points[first], points[last]) THEN {}
                ELSE {farthest} \cup Inner[<<first, farthest>>] \cup Inner[<<farthest, last>>]
    IN  IF n <= 2 THEN points
        ELSE FlattenSeq([i \in 1..n |-> IF i \in {1, n} \cup Inner[<<1, n>>] THEN <<points[i]>> ELSE <<>>])

RoundCoordinate(v) == ((2 * v + RoundStep) \div (2 * RoundStep)) * RoundStep

\* Rounded, and without the repeats that rounding makes.
SimplifyLine(points) ==
    LET kept == DouglasPeucker(points)
        rounded == [i \in DOMAIN kept |-> <<RoundCoordinate(kept[i][1]), RoundCoordinate(kept[i][2])>>]
    IN  FlattenSeq([i \in DOMAIN rounded |-> IF i > 1 /\ rounded[i] = rounded[i - 1] THEN <<>> ELSE <<rounded[i]>>])

-------------------------------------------------------------------------------
(* Situations. *)

ConsequenceTypes ==
    {"RoadOrCarriagewayOrLaneManagement", "SpeedManagement", "GeneralNetworkManagement",
     "ReroutingManagement", "WinterDrivingManagement"}

KindFor(type) ==
    CASE type \in {"MaintenanceWorks", "ConstructionWorks", "RoadworksInformation"} -> "roadworks"
      [] type \in {"PoorEnvironmentConditions", "PoorRoadConditions"} -> "weather"
      [] type \in {"EnvironmentalObstruction", "GeneralObstruction", "AnimalPresenceObstruction",
                   "VehicleObstruction", "InfrastructureDamageObstruction"} -> "obstruction"
      [] type = "Accident" -> "accident"
      [] type = "TransitInformation" -> "ferry"
      [] type = "PublicEvent" -> "event"
      [] type \in ConsequenceTypes -> "management"
      [] OTHER -> "other"

\* What the record's own times say at this moment; a periodic one counts only while active.
ClassifySituation(r, at) ==
    CASE r.end # Absent /\ r.end < at -> "expired"
      [] (r.end = Absent \/ r.end >= at) /\ r.start > at -> "planned"
      [] (r.end = Absent \/ r.end >= at) /\ r.start <= at /\ r.periodic /\ ~r.active -> "scheduled"
      [] OTHER -> "current"

\* Mutant of MainRecordOf: whichever record upstream lists first.
FirstRecordOf(records) == records[1]

\* The record flagged as main, else the first that is not a consequence, else the first.
MainRecordOf(records) ==
    LET flagged == Kept(records, {r \in ToSet(records) : r.main})
        causes == Kept(records, {r \in ToSet(records) : r.type \notin ConsequenceTypes})
    IN  Head(flagged \o causes \o records)

\* The parts of a geometry that still are lines; a geometry of another kind has no parts.
LineFrom(r) == SelectSeq([i \in DOMAIN r.parts |-> SimplifyLine(r.parts[i])], LAMBDA l : Len(l) >= 2)

GroupLine(records) ==
    LET lines == SelectSeq([i \in DOMAIN records |-> LineFrom(records[i])], LAMBDA l : l # <<>>)
    IN  IF lines = <<>> THEN Absent ELSE lines[1]

GroupDescription(main, records) ==
    LET told == SelectSeq(<<main>> \o records, LAMBDA r : r.description # Absent)
    IN  IF told = <<>> THEN Absent ELSE told[1].description

Latest(times, otherwise) == IF times = {} THEN otherwise ELSE CHOOSE t \in times : \A u \in times : u <= t

Situation(records, at) ==
    LET main == MainRecordOf(records)
        effects == UNION {records[i].effects : i \in DOMAIN records}
        lined == "roadClosed" \in effects \/ KindFor(main.type) = "roadworks"
    IN  [id |-> main.id, kind |-> KindFor(main.type), status |-> ClassifySituation(main, at),
         effects |-> effects, description |-> GroupDescription(main, records),
         startsAt |-> main.start, endsAt |-> main.end, point |-> main.point,
         updatedAt |-> Latest({records[i].updated : i \in DOMAIN records} \ {Absent}, main.start),
         line |-> IF lined THEN GroupLine(<<main>> \o records) ELSE Absent]

\* Records that parse, group by group; what is over, or too far ahead, is not shown, and what
\* has no place, or none on Earth, is counted as dropped.
MapSituations(features, at) ==
    LET readable == Kept(features, {r \in ToSet(features) : r.readable})
        of(id) == Kept(readable, {r \in ToSet(readable) : r.id = id})
        all == {Situation(of(r.id), at) : r \in ToSet(readable)}
        due == {s \in all : s.status # "expired" /\ ~(s.status = "planned" /\ s.startsAt - at > Horizon)}
    IN  [situations |-> {s \in due : s.point # Absent},
         dropped |-> Len(features) - Len(readable) + Cardinality({s \in due : s.point = Absent})]

-------------------------------------------------------------------------------
(* Cameras. *)

\* What cannot be read, points elsewhere than the road authority's host, or has no place on
\* Earth is dropped and counted; a camera that says it is out of order is only left out.
MapRoadCameras(features) ==
    LET working == {features[i] : i \in {j \in DOMAIN features : features[j].readable /\ ~features[j].faulted}}
        sound == {c \in working : c.ownHost /\ c.point # Absent}
    IN  [cameras |-> {[id |-> c.id, siteId |-> c.site, point |-> c.point] : c \in sound},
         dropped |-> Cardinality({i \in DOMAIN features : ~features[i].readable}) + Cardinality(working \ sound)]

WindReading(value) == IF value = Absent \/ value > MaxWind THEN Absent ELSE value

\* A gust is also held against the mean, once the wind is worth the name: 1.8 times it at most.
GustReading(gust, mean) ==
    IF WindReading(gust) = Absent THEN Absent
    ELSE IF mean = Absent \/ mean < MinMean THEN gust
    ELSE IF gust * 10 > mean * 18 THEN Absent ELSE gust

\* By site, the newest measurement with a time that can be read; of two as new, the one listed
\* first.
MapSiteWeather(features, sites) ==
    LET of(site) == Kept(features, {w \in ToSet(features) : w.readable /\ w.site = site /\ w.measuredAt # Absent})
        newest(site) == CHOOSE i \in DOMAIN of(site) :
                            \A j \in DOMAIN of(site) : \/ of(site)[j].measuredAt < of(site)[i].measuredAt
                                                       \/ (of(site)[j].measuredAt = of(site)[i].measuredAt /\ i <= j)
    IN  [site \in {s \in sites : of(s) # <<>>} |->
            LET w == of(site)[newest(site)]
            IN  [measuredAt |-> w.measuredAt, wind |-> WindReading(w.wind),
                 gust |-> GustReading(w.gust, WindReading(w.wind))]]

\* Two requests, one after the other: the second costs only the readings when it fails.
FetchRoadCameras(cameras, weather) ==
    LET mapped == MapRoadCameras(cameras) IN
    [cameras |-> mapped.cameras,
     weatherBySite |-> IF weather = Absent THEN [s \in {} |-> Absent]
                       ELSE MapSiteWeather(weather, {c.siteId : c \in mapped.cameras})]

===============================================================================
