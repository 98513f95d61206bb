------------------------------ MODULE LayerRoutes ------------------------------
(***************************************************************************)
(* The cached routes of the other live layers: GET /api/road-situations,   *)
(* /api/road-cameras, /api/species and /api/transit (src/server/routes).   *)
(* Situations and vehicles are cached as upstream sent them and mapped at  *)
(* each answer; cameras and species are mapped once, when they are loaded. *)
(***************************************************************************)
EXTENDS Roads, Species, Transit

CONSTANTS
    SituationAnswers, \* feature lists of Vegvesen
    CameraAnswers,    \* pairs of feature lists: cameras, and weather or Absent
    SearchAnswers,    \* searches of GBIF: the matches there are, and the pages
    VehicleReplies,   \* replies of Entur
    DaysAsked, MinutesAsked,
    LayerTtl,
    Refused           \* 502

ASSUME LayersAssumption ==
    /\ {RoundStep, PlaceStep, PageLimit, MaxRawRecords, SightingsCap, LayerTtl, MinMean, MaxWind} \subseteq Nat \ {0}
    /\ {Tolerance, Horizon, MaxClock, MinutesMin, MinutesMax, DefaultMinutes} \subseteq Nat
    /\ MinutesMin <= DefaultMinutes /\ DefaultMinutes <= MinutesMax

\* A record that could be read has times.
ASSUME SituationsAssumption ==
    /\ Absent \notin Int
    /\ \A answer \in SituationAnswers :
           /\ answer \in Seq(ToSet(answer))
           /\ \A r \in ToSet(answer) : r.readable => r.start \in Int /\ r.end \in Int \cup {Absent}

\* A reading has its time, or none; what is absent is no list of them.
ASSUME ReadingsAssumption ==
    \A answer \in CameraAnswers :
        \/ answer[2] = Absent
        \/ /\ answer[2] \in Seq(ToSet(answer[2])) /\ Absent \notin Seq(ToSet(answer[2]))
           /\ \A w \in ToSet(answer[2]) : w.measuredAt \in Int \cup {Absent}

\* What the pages that can be read hold.
Occurrences == UNION {UNION {ToSet(page.results) : page \in ToSet(a.pages) \ {Absent}} : a \in SearchAnswers}

\* GBIF gives every page the number of the matches, or none that can be read, never hands out
\* more records than that, and what it would answer is told as far as a search reads.
ASSUME SearchesAssumption ==
    /\ \A r \in Occurrences : r.date \in Int \cup {Absent}
    /\ \A a \in SearchAnswers :
           /\ a.matches \in Nat
           /\ a.pages \in Seq([count : {a.matches, Absent}, results : Seq(Occurrences)] \cup {Absent})
           /\ \E k \in DOMAIN a.pages : a.pages[k] = Absent \/ Stops(a.pages, k)
           /\ \A k \in DOMAIN a.pages :
                  (\A j \in 1..k : a.pages[j] # Absent) => Len(Upto(a.pages, k)) <= a.matches

VARIABLES
    held,     \* each route's cache, by layer and what else is in the key
    answered  \* the last answer

layerVars == <<clock, held, answered>>

Keys ==
    {<<"situations", 0>>, <<"cameras", 0>>, <<"transit", 0>>}
        \cup {<<"species", ParseDaysParam(d)>> : d \in DaysAsked}

LayersInit ==
    /\ clock = 0
    /\ held = [k \in Keys |-> Absent]
    /\ answered = Refused

\* Mutant of MappedAt: with the clock as it was when the records were fetched.
MappedWhenFetched(entry) == entry.at

\* The moment the records are mapped for.
MappedAt(entry) == clock

Reply(load, layer, body) ==
    answered' = IF load.held = Absent THEN Refused
                ELSE [layer |-> layer, at |-> clock, stale |-> load.stale, raw |-> load.held.value, body |-> body]

ServeSituations ==
    /\ \E load \in LoadWithStaleFallback(held[<<"situations", 0>>], LayerTtl, SituationAnswers) :
           /\ held' = [held EXCEPT ![<<"situations", 0>>] = load.held]
           /\ Reply(load, "situations", IF load.held = Absent THEN Absent
                                        ELSE MapSituations(load.held.value, MappedAt(load.held)))
    /\ UNCHANGED clock

ServeCameras ==
    /\ LET answers == {[cameras |-> a[1], weather |-> a[2]] : a \in CameraAnswers} IN
       \E load \in LoadWithStaleFallback(held[<<"cameras", 0>>], LayerTtl, answers) :
           /\ held' = [held EXCEPT ![<<"cameras", 0>>] = load.held]
           /\ Reply(load, "cameras", IF load.held = Absent THEN Absent
                                     ELSE FetchRoadCameras(load.held.value.cameras, load.held.value.weather))
    /\ UNCHANGED clock

ServeVehicles(asked) ==
    /\ LET answers == {FetchVehicles(r) : r \in VehicleReplies} \ {Absent}
           minutes == ParseMaxAgeMinutes(asked)
       IN
       \E load \in LoadWithStaleFallback(held[<<"transit", 0>>], LayerTtl, answers) :
           /\ held' = [held EXCEPT ![<<"transit", 0>>] = load.held]
           /\ Reply(load, "transit", IF load.held = Absent THEN Absent
                                     ELSE [minutes |-> minutes, map |-> MapVehicles(load.held.value, MappedAt(load.held), minutes)])
    /\ UNCHANGED clock

\* A search whose first page fails has failed.
FetchedSearches == {a \in SearchAnswers : FetchGbifOccurrences(a.pages) # Absent}

FetchSpecies(search) == LET got == FetchGbifOccurrences(search.pages) IN MapOccurrences(got.records, got.total)

ServeSpecies(asked) ==
    LET key == <<"species", ParseDaysParam(asked)>> IN
    /\ \E load \in LoadWithStaleFallback(held[key], LayerTtl, FetchedSearches) :
           /\ held' = [held EXCEPT ![key] = load.held]
           /\ Reply(load, "species", IF load.held = Absent THEN Absent ELSE FetchSpecies(load.held.value))
    /\ UNCHANGED clock

LayersPass ==
    /\ clock < MaxClock
    /\ clock' = clock + 1
    /\ UNCHANGED <<held, answered>>

\* One of the layers asked for, or the clock.
LayersNext(layers) ==
    \/ "situations" \in layers /\ ServeSituations
    \/ "cameras" \in layers /\ ServeCameras
    \/ "transit" \in layers /\ \E asked \in MinutesAsked : ServeVehicles(asked)
    \/ "species" \in layers /\ \E asked \in DaysAsked : ServeSpecies(asked)
    \/ LayersPass

LayersSpec == LayersInit /\ [][LayersNext({"situations", "cameras", "transit", "species"})]_layerVars

-------------------------------------------------------------------------------
(* Correctness. *)

Is(layer) == IF answered = Refused THEN FALSE ELSE answered.layer = layer

\* However long the records were held, through a failing upstream too, what is served is right
\* for the moment it is served: no situation that is over or called planned once begun, no
\* vehicle unheard of for longer than the browser asked.
ServedForNow ==
    /\ Is("situations") =>
           \A s \in answered.body.situations :
               /\ s.endsAt = Absent \/ s.endsAt >= answered.at
               /\ (s.status = "planned") <=> (s.startsAt > answered.at)
               /\ s.startsAt - answered.at <= Horizon
    /\ Is("transit") =>
           \A v \in answered.body.map.vehicles : answered.at - v.recordedAt <= answered.body.minutes

\* The records of a group that may speak for it: the flagged, else the causes, else all of them.
Speakers(group) ==
    LET mains == {r \in group : r.main}
        causes == {r \in group : r.type \notin ConsequenceTypes}
    IN  IF mains # {} THEN mains ELSE IF causes # {} THEN causes ELSE group

\* The groups that have one such record, and the sites no two readings of which are as new.
OneSpeaks(features) ==
    LET readable == {r \in ToSet(features) : r.readable} IN
    \A r \in readable : Cardinality(Speakers({q \in readable : q.id = r.id})) = 1

OneIsNewest(weather) ==
    LET measured == {w \in ToSet(weather) : w.readable /\ w.measuredAt # Absent} IN
    \A v, w \in measured : v.site = w.site /\ v.measuredAt = w.measuredAt => v = w

\* The order in which upstream lists records, which changes as they are updated, decides between
\* records that are otherwise alike and nothing else: neither what is served of the situations,
\* their lines and descriptions apart, nor of a site's readings.
OrderIsIgnored ==
    /\ Is("situations") /\ OneSpeaks(answered.raw) =>
           LET seen(s) == [id |-> s.id, kind |-> s.kind, status |-> s.status, effects |-> s.effects,
                           startsAt |-> s.startsAt, endsAt |-> s.endsAt, updatedAt |-> s.updatedAt, point |-> s.point] IN
           \A p \in Bijection(DOMAIN answered.raw, DOMAIN answered.raw) :
               LET other == MapSituations([i \in DOMAIN answered.raw |-> answered.raw[p[i]]], answered.at)
               IN  /\ {seen(s) : s \in other.situations} = {seen(s) : s \in answered.body.situations}
                   /\ other.dropped = answered.body.dropped
    /\ Is("cameras") /\ answered.raw.weather # Absent /\ OneIsNewest(answered.raw.weather) =>
           \A p \in Bijection(DOMAIN answered.raw.weather, DOMAIN answered.raw.weather) :
               FetchRoadCameras(answered.raw.cameras,
                                [i \in DOMAIN answered.raw.weather |-> answered.raw.weather[p[i]]]) = answered.body

\* A viewport's sightings are said to be all there are only when each record that matches was
\* read, whatever page failed and whichever cap was met, as far as the last page read says how
\* many match; and each counts in one sighting, in one group that the contract refused, or is
\* told to be dropped.
TruncationIsTold ==
    Is("species") /\ ~answered.body.truncated /\ answered.raw.pages[LastPage(answered.raw.pages)].count # Absent =>
        LET groups == answered.body.sightings \cup answered.body.refused IN
        /\ Len(FetchGbifOccurrences(answered.raw.pages).records) = answered.raw.matches
        /\ Cardinality(UNION {{s.id} \X (1..s.count) : s \in groups}) + answered.body.dropped
               = answered.raw.matches

\* The same whatever can be read, as gbif.ts:143 has it ("occurrences.ts uses this to report
\* truncated honestly").  Not so: see the README.
TruncationIsHonest ==
    Is("species") /\ ~answered.body.truncated =>
        Len(FetchGbifOccurrences(answered.raw.pages).records) = answered.raw.matches

\* What simplify.ts says of a line: a point is left out only where the line drawn without it
\* stays within the tolerance (and the rounding) of it.
LOCAL Near(p, a, b) ==
    LET reach == (Tolerance + RoundStep) * (Tolerance + RoundStep)
        along == (p[1] - a[1]) * (b[1] - a[1]) + (p[2] - a[2]) * (b[2] - a[2])
    IN  \/ SquaredDistance(p, a) <= reach
        \/ SquaredDistance(p, b) <= reach
        \/ /\ a # b /\ 0 <= along /\ along <= SquaredDistance(a, b)
           /\ Cross(p, a, b) * Cross(p, a, b) <= reach * SquaredDistance(a, b)

SimplifiedStaysClose ==
    Is("situations") =>
        \A i \in DOMAIN answered.raw : \A k \in DOMAIN answered.raw[i].parts :
            LET drawn == SimplifyLine(answered.raw[i].parts[k]) IN
            \A p \in Range(answered.raw[i].parts[k]) :
                \E j \in 1..(Len(drawn) - 1) : Near(p, drawn[j], drawn[j + 1])

===============================================================================
