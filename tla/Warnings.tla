------------------------------- MODULE Warnings -------------------------------
(***************************************************************************)
(* GET /api/warnings (src/server/routes/warnings.ts with warnings/         *)
(* met-alerts.ts, regions.ts and avalanche.ts): MET's alerts and NVE's     *)
(* avalanche warnings in one answer, either of which may be missing.       *)
(*                                                                         *)
(* One request at a time: overlapping ones share only the caches, whose    *)
(* single flight is ProxiedRoute's.  The clock is Norway's.                *)
(***************************************************************************)
EXTENDS Geo, StaleCache, FiniteSets

CONSTANTS
    WarningQueries, \* the bbox parameters asked with
    MetAnswers,    \* the feature lists MET may answer with
    Rosters,       \* the region lists NVE may answer with
    Entries,       \* what NVE may answer for a region and a day
    MetTtl, RosterTtl, RegionTtl,
    MaxRegional,   \* MAX_CACHED_REGION_WARNINGS
    DayLength,
    Unavailable

ASSUME WarningsAssumption ==
    /\ {MetTtl, RosterTtl, RegionTtl, DayLength, MaxRegional} \subseteq Nat \ {0}
    /\ MaxClock \in Nat

\* A parameter is four numbers or fewer, any of which may not be one.
ASSUME QueriesAssumption == WarningQueries \subseteq Seq(Int \cup {Unread})

\* NVE numbers its regions, fewer than the cache of their warnings holds, and draws them.
ASSUME RostersAssumption ==
    \A answer \in Rosters :
        /\ IsFiniteSet(answer) /\ Cardinality(answer) <= MaxRegional
        /\ \A r, s \in answer : r.id = s.id => r = s
        /\ \A r \in answer : IsFiniteSet(r.rings) /\ r.rings \subseteq Seq([1..2 -> Int])

VARIABLES
    met,       \* the MET cache's one entry
    roster,    \* the roster cache's one entry
    regional,  \* the cache of warnings, by region and day
    inquiry,   \* the request being answered
    notice     \* the last answer

warningVars == <<clock, met, roster, regional, inquiry, notice>>

Today == clock \div DayLength

\* What the contract (schemas/warnings.ts) takes for an area.
IsOutline(ring) == Len(ring) >= 3 /\ \A i \in DOMAIN ring : Within([lat |-> ring[i][1], lng |-> ring[i][2]], Earth)

-------------------------------------------------------------------------------
(* The MET half. *)

\* riskMatrixColor, and only without it the colour inside awareness_level.
AwarenessLevel(f) == IF f.colour # Absent THEN f.colour ELSE f.awareness

\* The first time in the title; a lone one that is also the ending says nothing of the start.
StartsAt(f) == IF f.times = <<>> \/ f.times = <<f.ending>> THEN Absent ELSE f.times[1]

InView(f, b) == \E ring \in f.rings : RingIntersectsBbox(ring, b)

\* WeatherWarningSchema: its times can be read, and its areas drawn.
IsWeatherWarning(f) == Unread \notin {StartsAt(f), f.ending} /\ \A ring \in f.rings : IsOutline(ring)

\* What cannot be read, or is refused by the contract, is dropped and counted; what lies
\* elsewhere, or nowhere, only dropped.
MapMetAlerts(features, b) ==
    LET read == {f \in features : f.readable /\ InView(f, b)}
        kept == {f \in read : AwarenessLevel(f) # Absent /\ StartsAt(f) # Absent /\ IsWeatherWarning(f)}
    IN  [warnings |-> {[id |-> f.id, level |-> AwarenessLevel(f), startsAt |-> StartsAt(f)] : f \in kept},
         discarded |-> Cardinality({f \in features : ~f.readable}) + Cardinality(read \ kept)]

-------------------------------------------------------------------------------
(* The avalanche half. *)

\* The longest of a region's rings; a region without one of three points is no region, and
\* a roster of nothing else is a failure, not an empty country.
ParseOutline(rings) == CHOOSE r \in rings : \A other \in rings : Len(other) <= Len(r)
Usable(region) == region.rings # {} /\ Len(ParseOutline(region.rings)) >= 3
FetchedRosters ==
    {{[id |-> r.id, outline |-> ParseOutline(r.rings)] : r \in {s \in raw : Usable(s)}} :
        raw \in {answer \in Rosters : answer = {} \/ \E r \in answer : Usable(r)}}

RegionsIntersecting(regions, b) == {r \in regions : Len(ClipRingToBbox(r.outline, b)) >= 3}

\* AvalancheWarningSchema: the day it is valid from can be read, and the region drawn.
IsAvalancheWarning(entry, region) == entry.dated /\ IsOutline(region.outline)

\* No entry, "not assessed" by level or by text, a level off the scale, or a warning the
\* contract refuses: nothing to show, and no trace of it.
MapAvalancheWarning(entry, region) ==
    IF entry = Absent \/ entry.level \notin 1..5 \/ entry.notAssessed \/ ~IsAvalancheWarning(entry, region)
    THEN Absent ELSE entry.level

ASSUME AbsentAssumption ==
    /\ Absent \notin 1..5
    /\ Absent \notin [value : MetAnswers, at : Nat]
    /\ Absent \notin [value : FetchedRosters, at : Nat]
    /\ Absent \notin [value : Entries, at : Nat]

-------------------------------------------------------------------------------
(* The handler. *)

NoInquiry == [pc |-> "idle"]

WarningsInit ==
    /\ clock = 0
    /\ met = Absent /\ roster = Absent /\ regional = [key \in {} |-> Absent]
    /\ inquiry = NoInquiry /\ notice = Absent

\* One that is no viewport is answered 400 before anything else.
Ask(bbox) ==
    /\ inquiry.pc = "idle" /\ Parses(bbox)
    /\ inquiry' = [pc |-> "met", asked |-> ParseBbox(bbox), box |-> Viewport(bbox), begun |-> clock]
    /\ notice' = Absent
    /\ UNCHANGED <<clock, met, roster, regional>>

LoadMet ==
    /\ inquiry.pc = "met"
    /\ \E load \in LoadWithStaleFallback(met, MetTtl, MetAnswers) :
           /\ met' = load.held
           /\ inquiry' = [pc |-> "roster", box |-> inquiry.box, begun |-> inquiry.begun, staleWeather |-> load.stale,
                          weather |-> IF load.held = Absent THEN Absent ELSE MapMetAlerts(load.held.value, inquiry.box)]
    /\ UNCHANGED <<clock, roster, regional, notice>>

\* The roster; the day is read once, before the first region.
LoadRoster ==
    /\ inquiry.pc = "roster"
    /\ \E load \in LoadWithStaleFallback(roster, RosterTtl, FetchedRosters) :
           /\ roster' = load.held
           /\ inquiry' =
                [pc |-> "regions", box |-> inquiry.box, begun |-> inquiry.begun, weather |-> inquiry.weather,
                 staleWeather |-> inquiry.staleWeather, staleAvalanche |-> load.stale,
                 day |-> Today, known |-> load.held # Absent, entries |-> {}, failed |-> {},
                 hits |-> IF load.held = Absent THEN {} ELSE RegionsIntersecting(load.held.value, inquiry.box),
                 left |-> IF load.held = Absent THEN {} ELSE RegionsIntersecting(load.held.value, inquiry.box)]
    /\ UNCHANGED <<clock, met, regional, notice>>

HeldRegion(key) == IF key \in DOMAIN regional THEN regional[key] ELSE Absent

\* A new entry in a full cache takes the place of the one longest unused.  A request uses no more
\* of them than the cache holds, so it is none of its own; which of the others it is, is left open.
Displaced(key) ==
    IF key \in DOMAIN regional \/ Cardinality(DOMAIN regional) < MaxRegional THEN {{}}
    ELSE {{k} : k \in DOMAIN regional \ {<<r.id, inquiry.day>> : r \in inquiry.hits \ inquiry.left}}

\* One region after the other, in the roster's order, which is left open.
LoadRegion(region) ==
    /\ inquiry.pc = "regions" /\ region \in inquiry.left
    /\ LET key == <<region.id, inquiry.day>> IN
       \E load \in LoadWithStaleFallback(HeldRegion(key), RegionTtl, Entries) :
           LET level == IF load.held = Absent THEN Absent ELSE MapAvalancheWarning(load.held.value, region) IN
           /\ \/ load.held = Absent /\ regional' = regional
              \/ /\ load.held # Absent
                 /\ \E gone \in Displaced(key) :
                        regional' = [k \in (DOMAIN regional \ gone) \cup {key} |-> IF k = key THEN load.held ELSE regional[k]]
           /\ inquiry' = [inquiry EXCEPT
                 !.left = @ \ {region},
                 !.failed = IF load.held = Absent THEN @ \cup {region} ELSE @,
                 !.staleAvalanche = @ \/ load.stale,
                 !.entries = IF level = Absent THEN @ ELSE @ \cup {[region |-> region.id, level |-> level]}]
    /\ UNCHANGED <<clock, met, roster, notice>>

\* Mutant of Combine: a region that failed does not mark the answer.
CombineSilently ==
    LET none == ~inquiry.known \/ (inquiry.hits # {} /\ inquiry.failed = inquiry.hits) IN
    [weather |-> inquiry.weather, avalanche |-> IF none THEN Absent ELSE inquiry.entries,
     stale |-> inquiry.staleWeather \/ inquiry.staleAvalanche]

\* Every region failed is not known, rather than no danger; some failed is stale.
Combine ==
    LET none == ~inquiry.known \/ (inquiry.hits # {} /\ inquiry.failed = inquiry.hits) IN
    [weather |-> inquiry.weather, avalanche |-> IF none THEN Absent ELSE inquiry.entries,
     stale |-> inquiry.staleWeather \/ inquiry.staleAvalanche \/ inquiry.failed # {}]

Answer ==
    /\ inquiry.pc = "regions" /\ inquiry.left = {}
    /\ notice' = [body |-> IF Combine.weather = Absent /\ Combine.avalanche = Absent THEN Unavailable ELSE Combine,
                  begun |-> inquiry.begun, day |-> inquiry.day, hits |-> inquiry.hits]
    /\ inquiry' = NoInquiry
    /\ UNCHANGED <<clock, met, roster, regional>>

Passes ==
    /\ clock < MaxClock
    /\ clock' = clock + 1
    /\ UNCHANGED <<met, roster, regional, inquiry, notice>>

WarningsNext ==
    \/ \E bbox \in WarningQueries : Ask(bbox)
    \/ LoadMet
    \/ LoadRoster
    \/ (inquiry.pc = "regions" /\ \E region \in inquiry.left : LoadRegion(region))
    \/ Answer
    \/ Passes

WarningsSpec == WarningsInit /\ [][WarningsNext]_warningVars

-------------------------------------------------------------------------------
(* Correctness. *)

Served == notice # Absent /\ notice.body # Unavailable

\* An answer that caches may keep has no hole and nothing old in it: each half is missing
\* outright, or every load behind it, each region's included, was fresh when it was made.
UnmarkedIsFresh ==
    Served /\ ~notice.body.stale =>
        /\ notice.body.weather # Absent => met.at + MetTtl > notice.begun
        /\ notice.body.avalanche # Absent =>
               /\ roster.at + RosterTtl > notice.begun
               /\ \A r \in notice.hits :
                      LET held == HeldRegion(<<r.id, notice.day>>)
                      IN  IF held = Absent THEN FALSE ELSE held.at + RegionTtl > notice.begun

\* What NVE said today of a region in view is in every answer with an avalanche half, however
\* long NVE has been silent since and whatever other regions the cache made room for, provided
\* the contract takes it; and "not assessed" never shows as a danger.
DangerIsNotForgotten ==
    Served /\ notice.body.avalanche # Absent =>
        \A r \in notice.hits :
            LET held == HeldRegion(<<r.id, notice.day>>)
                shown == {e \in notice.body.avalanche : e.region = r.id}
            IN  IF held = Absent \/ held.value = Absent THEN shown = {}
                ELSE shown # {} <=> /\ held.value.level \in 1..5 /\ ~held.value.notAssessed
                                    /\ IsAvalancheWarning(held.value, r)

\* The same without the contract, as the comment of mapAvalancheWarning lists what is not
\* shown (avalanche.ts:167-170).  Not so: see the README.
EveryDangerIsShown ==
    Served /\ notice.body.avalanche # Absent =>
        \A r \in notice.hits :
            LET held == HeldRegion(<<r.id, notice.day>>) IN
            IF held = Absent \/ held.value = Absent THEN TRUE
            ELSE held.value.level \in 1..5 /\ ~held.value.notAssessed =>
                     \E e \in notice.body.avalanche : e.region = r.id

\* A cell of the grid is inside a ring whose edges to its right an odd number of times pass it.
LOCAL CellInside(ring, i, j) ==
    Cardinality({k \in DOMAIN ring :
        /\ Previous(ring, k)[2] = ring[k][2] /\ ring[k][2] > j
        /\ (Previous(ring, k)[1] <= i) # (ring[k][1] <= i)}) % 2 = 1

\* What is asked about has all of the screen in it, as far as a viewport may span, on lines of
\* the grid, and is never empty, however narrow the screen.
AskedIsCovered ==
    inquiry.pc = "met" =>
        LET box == inquiry.box  within == ClampBbox(inquiry.asked) IN
        /\ ContainsBbox(box, within) /\ ContainsBbox(RoundBbox(inquiry.asked), box)
        /\ RoundBbox(box) = box /\ box.minLat < box.maxLat /\ box.minLng < box.maxLng

\* The clip of an outline of any shape, wound either way, a viewport inside it included, has
\* the area they share; and the pin of a region in view lies in the view.  It depends
\* on the viewport alone, and is looked at in the first request for it.
ClipIsExact ==
    inquiry.pc = "met" /\ inquiry.begun = 0 /\ met = Absent /\ roster = Absent =>
        LET b == inquiry.box IN
        \A answer \in FetchedRosters : \A r \in answer :
            LET clipped == ClipRingToBbox(r.outline, b)
                twice == TwiceSignedArea(clipped)
                pin == RingCentroid(clipped)
            IN  /\ (IF twice < 0 THEN -twice ELSE twice)
                       = 2 * Cardinality({c \in (b.minLat..(b.maxLat - 1)) \X (b.minLng..(b.maxLng - 1)) :
                                              CellInside(r.outline, c[1], c[2])})
                /\ clipped # <<>> =>
                       /\ b.minLat * pin.over <= pin.lat /\ pin.lat <= b.maxLat * pin.over
                       /\ b.minLng * pin.over <= pin.lng /\ pin.lng <= b.maxLng * pin.over

\* Of the regions known, each that lies in the viewport is asked about, and none that lies
\* wholly to one side of it.
RegionsInView ==
    inquiry.pc = "regions" /\ roster # Absent =>
        LET b == inquiry.box IN
        \A r \in roster.value :
            LET corners == ToSet(r.outline) IN
            /\ (\A p \in corners : Within([lat |-> p[1], lng |-> p[2]], b)) => r \in inquiry.hits
            /\ \/ \A p \in corners : p[1] < b.minLat
               \/ \A p \in corners : p[1] > b.maxLat
               \/ \A p \in corners : p[2] < b.minLng
               \/ \A p \in corners : p[2] > b.maxLng
               => r \notin inquiry.hits

\* The answer is about what is on the screen.
ViewIsWhole == AskedIsCovered /\ RegionsInView /\ ClipIsExact

===============================================================================
