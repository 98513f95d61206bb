------------------------------- MODULE Aircraft -------------------------------
(***************************************************************************)
(* The aircraft layer behind the cache of GET /api/aircraft                *)
(* (src/server/aircraft/provider.ts, flight-routes.ts and                  *)
(* routes/aircraft.ts).  A caller is a load of that cache, or the trail    *)
(* poller.  It passes the outbound gate, asks the community feed and then, *)
(* with credentials, the one account-wide OpenSky slot; the two answers    *)
(* are merged, and what is shown starts lookups of flight routes.          *)
(*                                                                         *)
(* A feed lists an aircraft at most once.  The memory behind latestIn is   *)
(* TrailStore's, the TTL cache in front ProxiedRoute's: what either gives  *)
(* after a failure is left open here.                                      *)
(***************************************************************************)
EXTENDS OutboundGate, Viewports, FiniteSets, Functions

CONSTANTS
    Callers,
    Boxes,           \* viewports asked for, rounded already
    Feeds,           \* answers of a v2 provider: sets of raw entries
    States,          \* answers of OpenSky: sets of raw state vectors
    Flights,         \* callsigns of a scheduled flight's pattern, in capitals
    Setups,          \* how the server may be configured
    OpenSkyInterval, \* OPENSKY_MIN_INTERVAL_MS
    MaxFlight,       \* the two upstream timeouts of one OpenSky request
    RouteTtl,        \* ROUTE_TTL_MS
    MaxCallsigns,    \* MAX_CACHED_CALLSIGNS
    MaxLookups,      \* MAX_LOOKUPS_PER_CALL
    MaxAnswers,      \* bound: calls answered in a behaviour
    None, Failed

ASSUME AircraftAssumption ==
    /\ {OpenSkyInterval, MaxFlight, RouteTtl, MaxCallsigns, MaxLookups, MaxAnswers} \subseteq Nat \ {0}
    /\ Boxes \subseteq Bboxes
    /\ Setups \subseteq {"v2", "v2 and OpenSky", "OpenSky"}

\* A flight's callsign has seven characters at most.
ASSUME FlightsAssumption == IsFiniteSet(Flights)

\* A viewport that was parsed is on the earth, and neither clamping nor rounding takes it off.
ASSUME BoxesAssumption == \A b \in Boxes : OnEarth(b)

ASSUME NoneAssumption == None \notin Int /\ None \notin [box : Bboxes, at : Int, sent : Nat]

VARIABLES
    setup,       \* the configuration, fixed at boot
    calls,       \* what each caller is doing
    snapshot,    \* openSkySnapshot
    lastRequest, \* openSkyLastRequestMs
    flight,      \* openSkyInFlight, with the moment it was sent
    asked,       \* history: travel at each request sent to OpenSky
    routes,      \* the flight-route cache: when its entry, be it "unknown", was fetched
    lookups,     \* lookups in flight
    since,       \* the callsigns used since this one was: of those cached, the order of the Map
    heard,       \* history: travel when a lookup last brought an answer
    answers      \* history: calls answered

slot == <<snapshot, lastRequest, flight, asked>>
names == <<routes, lookups, since, heard>>
aircraftVars == <<gateVars, setup, calls, slot, names, answers>>

Idle == [pc |-> "idle", box |-> None, primary |-> None, usable |-> None, result |-> None]

AircraftInit ==
    /\ GateInit
    /\ setup \in Setups
    /\ calls = [c \in Callers |-> Idle]
    /\ snapshot = None /\ lastRequest = -OpenSkyInterval /\ flight = None /\ asked = <<>>
    /\ routes = [f \in Flights |-> None] /\ lookups = {}
    /\ since = [f \in Flights |-> {}] /\ heard = [f \in Flights |-> Never]
    /\ answers = 0

-------------------------------------------------------------------------------
(* From what a network sends to aircraft. *)

\* An entry without a position or an altitude cannot be shown; a blank callsign is the hex
\* address, and the time of the fix is its age before now.
ToAircraft(raw, source) ==
    [icao |-> raw.hex,
     callsign |-> IF raw.flight = None THEN raw.hex ELSE raw.flight,
     place |-> raw.place, stamp |-> now - raw.age, source |-> source]

AircraftWithin(list, box) == {a \in list : Within(a.place, box)}

MapRawV2Aircraft(list, box) ==
    AircraftWithin({ToAircraft(raw, "v2") : raw \in {r \in list : r.place # None /\ r.altitude # None}}, box)

\* A state also needs one of its two times; OpenSky itself keeps to the box it is asked for.
MapOpenSkyStates(list, box) ==
    AircraftWithin({ToAircraft(raw, "OpenSky") :
        raw \in {r \in list : r.place # None /\ r.altitude # None /\ r.age # None}}, box)

\* Of two fixes of one aircraft the fresher is kept, the primary's on a tie.
Wins(a, all) ==
    \A b \in all :
        b.icao = a.icao => \/ b.stamp < a.stamp
                           \/ b.stamp = a.stamp /\ (a.source = "v2" \/ b = a)

MergeAircraft(primary, secondary) == {a \in primary \cup secondary : Wins(a, primary \cup secondary)}

Shown(list, sources) == [aircraft |-> list, sources |-> sources]

\* The primary's answer with the second opinion, either of which may be missing.
Combined(primary, secondary) ==
    CASE primary = Failed /\ secondary \in {Failed, {}} -> Failed
      [] primary = Failed -> Shown(secondary, {"OpenSky"})
      [] secondary = Failed -> Shown(primary, {"v2"})
      [] OTHER -> LET merged == MergeAircraft(primary, secondary)
                  IN  Shown(merged, {"v2"} \cup {a.source : a \in merged})

-------------------------------------------------------------------------------
(* fetchAircraft. *)

Done(c, result) == calls' = [calls EXCEPT ![c].pc = "done", ![c].primary = None, ![c].usable = None, ![c].result = result]

\* The gate is asked once, before anything is sent.
Call(c, box) ==
    /\ calls[c].pc = "idle"
    /\ answers < MaxAnswers
    /\ \/ /\ Take
          /\ calls' = [calls EXCEPT ![c] = [Idle EXCEPT !.pc = IF setup = "OpenSky" THEN "direct" ELSE "v2", !.box = box]]
       \/ /\ Refuse
          /\ calls' = [calls EXCEPT ![c] = [Idle EXCEPT !.pc = "done", !.box = box, !.result = Failed]]
    /\ UNCHANGED <<setup, slot, names, answers>>

\* With OpenSky as the provider there is no slot: every call is a request of its own.
DirectAnswers(c) ==
    /\ calls[c].pc = "direct"
    /\ \E result \in {Failed} \cup {Shown(MapOpenSkyStates(list, calls[c].box), {"OpenSky"}) : list \in States} : Done(c, result)
    /\ UNCHANGED <<gateVars, setup, slot, names, answers>>

\* What the held snapshot has for a viewport that it covers.
SnapshotFor(box) ==
    IF snapshot # None /\ ContainsBbox(snapshot.box, box) THEN AircraftWithin(snapshot.aircraft, box) ELSE Failed

Fresh(box) == SnapshotFor(box) # Failed /\ now - snapshot.at < OpenSkyInterval

\* Mutant of SlotOpen: gated by the last success.
SlotOpenAfterSuccess == IF snapshot = None THEN TRUE ELSE now - snapshot.at >= OpenSkyInterval

\* The slot is gated by the last request, answered or not.
SlotOpen == now - lastRequest >= OpenSkyInterval

\* openSkyAircraftWithin up to its await, for a caller whose primary answer is in: a fresh
\* snapshot or a shut slot answer at once, else a request is sent, or the one in the air joined.
AskOpenSky(c, primary) ==
    LET box == calls[c].box IN
    \/ /\ Fresh(box) \/ ~SlotOpen
       /\ Done(c, Combined(primary, SnapshotFor(box)))
       /\ UNCHANGED slot
    \/ /\ ~Fresh(box) /\ SlotOpen
       /\ lastRequest' = now
       /\ IF flight = None
          THEN /\ flight' = [box |-> WithMargin(box), at |-> now, sent |-> travel]
               /\ asked' = Append(asked, travel)
          ELSE UNCHANGED <<flight, asked>>
       /\ calls' = [calls EXCEPT ![c].pc = "slot", ![c].primary = primary, ![c].usable = SnapshotFor(box)]
       /\ UNCHANGED snapshot

V2Answers(c) ==
    /\ calls[c].pc = "v2"
    /\ \E primary \in {Failed} \cup {MapRawV2Aircraft(list, calls[c].box) : list \in Feeds} :
           IF setup = "v2"
           THEN Done(c, Combined(primary, Failed)) /\ UNCHANGED slot
           ELSE AskOpenSky(c, primary)
    /\ UNCHANGED <<gateVars, setup, names, answers>>

\* The request ends, and with it the wait of everyone who awaits it: after a failure each
\* falls back to what was usable before it began to wait.
OpenSkyAnswers ==
    /\ flight # None
    /\ flight' = None
    /\ \E got \in {Failed} \cup {MapOpenSkyStates(list, flight.box) : list \in States} :
           /\ snapshot' = IF got = Failed THEN snapshot ELSE [box |-> flight.box, aircraft |-> got, at |-> flight.at]
           /\ calls' = [c \in Callers |->
                  IF calls[c].pc # "slot" THEN calls[c]
                  ELSE LET secondary == IF got = Failed THEN calls[c].usable ELSE AircraftWithin(got, calls[c].box)
                       IN  [Idle EXCEPT !.pc = "done", !.box = calls[c].box, !.result = Combined(calls[c].primary, secondary)]]
    /\ UNCHANGED <<gateVars, setup, lastRequest, asked, names, answers>>

-------------------------------------------------------------------------------
(* The route: remembered aircraft on a cold failure, and flight routes. *)

\* An aircraft that broadcasts no callsign goes by its hex address, which is not asked about.
FlightsOf(list) == {a \in list : a.callsign \in Flights /\ a.callsign # a.icao}

IsCached(f) == routes[f] # None

\* Aircraft shown whose route is not cached, or stale.
Wanted(list) ==
    {a \in FlightsOf(list) : IsCached(a.callsign) => now - routes[a.callsign] >= RouteTtl}

\* Every cached callsign shown is used, in the order the aircraft come in.
Touch(shown) ==
    \E turn \in Injection(shown, 1..Cardinality(shown)) :
        since' = [f \in Flights |->
            IF f \in shown THEN {g \in shown : turn[g] > turn[f]} ELSE since[f] \cup shown]

\* attach: as many lookups as one call may start; one already in flight is joined, and counts.
Attach(list) ==
    /\ \E started \in SUBSET Wanted(list) :
          /\ Cardinality(started) <= MaxLookups
          /\ started # Wanted(list) => Cardinality(started) = MaxLookups
          /\ lookups' = lookups \cup {a.callsign : a \in started}
    /\ Touch({f \in {a.callsign : a \in FlightsOf(list)} : IsCached(f)})

\* What latestIn gives: nothing, or aircraft of any callsigns.
Remembered == {{[icao |-> None, callsign |-> f] : f \in known} : known \in SUBSET Flights}

Respond(c) ==
    /\ calls[c].pc = "done"
    /\ calls' = [calls EXCEPT ![c] = Idle]
    /\ answers' = answers + 1
    /\ \/ \* the load succeeds
          /\ calls[c].result # Failed
          /\ Attach(calls[c].result.aircraft)
       \/ \* the load fails with nothing cached: what is remembered is shown
          /\ calls[c].result = Failed
          /\ \E list \in Remembered : Attach(list)
       \/ \* the load fails, or it was the trail poller's call
          UNCHANGED <<lookups, since>>
    /\ UNCHANGED <<gateVars, setup, slot, routes, heard>>

\* To cache one callsign more than the most, the one used longest ago is let go.
Evicted(f) ==
    LET others == {g \in Flights : IsCached(g)}
    IN  IF IsCached(f) \/ Cardinality(others) < MaxCallsigns THEN {}
        ELSE {g \in others : others \ {g} \subseteq since[g]}

\* A lookup of f ends, and its answer is kept.
Keep(f) ==
    /\ routes' = [g \in Flights |-> IF g = f THEN now ELSE IF g \in Evicted(f) THEN None ELSE routes[g]]
    /\ since' = [g \in Flights |-> IF g = f THEN {} ELSE since[g] \cup {f}]

\* Mutant of LookupAnswers: an unknown callsign is not an answer worth keeping.
LookupAnswersKnown(f) ==
    /\ f \in lookups
    /\ lookups' = lookups \ {f}
    /\ heard' = [heard EXCEPT ![f] = travel]
    /\ Keep(f) \/ UNCHANGED <<routes, since>>
    /\ UNCHANGED <<gateVars, setup, calls, slot, answers>>

\* adsbdb knows the route, or answers that it does not: both are kept.
LookupAnswers(f) ==
    /\ f \in lookups
    /\ lookups' = lookups \ {f}
    /\ heard' = [heard EXCEPT ![f] = travel]
    /\ Keep(f)
    /\ UNCHANGED <<gateVars, setup, calls, slot, answers>>

\* An error or a payload that cannot be read caches nothing.
LookupFails(f) ==
    /\ f \in lookups
    /\ lookups' = lookups \ {f}
    /\ UNCHANGED <<gateVars, setup, calls, slot, routes, since, heard, answers>>

\* Time passes; a request in the air outlives its timeouts by nothing.
Tick ==
    /\ Advance
    /\ flight # None => travel' - flight.sent <= MaxFlight
    /\ UNCHANGED <<setup, calls, slot, names, answers>>

ClockBack ==
    /\ StepBack
    /\ UNCHANGED <<setup, calls, slot, names, answers>>

AircraftNext ==
    \/ \E c \in Callers, box \in Boxes : Call(c, box)
    \/ \E c \in Callers : DirectAnswers(c)
    \/ \E c \in Callers : V2Answers(c)
    \/ OpenSkyAnswers
    \/ \E c \in Callers : Respond(c)
    \/ \E f \in Flights : LookupAnswers(f)
    \/ \E f \in Flights : LookupFails(f)
    \/ Tick
    \/ ClockBack

AircraftSpec == AircraftInit /\ [][AircraftNext]_aircraftVars

-------------------------------------------------------------------------------
(* Correctness. *)

\* The account's quota: however many viewports ask and however often OpenSky fails, two
\* requests of the slot are an interval apart.
OpenSkyIsSpaced ==
    \A i, j \in DOMAIN asked : i < j => asked[j] - asked[i] >= OpenSkyInterval

\* Whoever waits for the request in the air asked about a viewport inside the one it covers, or
\* came when it had been out for a whole interval: nobody who comes before is answered out of
\* the sky next door.
FlightCoversWaiters ==
    \A c \in Callers : calls[c].pc = "slot" =>
        /\ flight # None
        /\ ContainsBbox(flight.box, calls[c].box) \/ travel - flight.sent >= OpenSkyInterval

\* Both: one account's slot serves every viewport.
SlotIsShared == OpenSkyIsSpaced /\ FlightCoversWaiters

AskedAgainLate ==
    \A f \in lookups' \ lookups : \/ heard[f] = Never
                                  \/ travel - heard[f] >= RouteTtl
                                  \/ Cardinality(since[f]) >= MaxCallsigns

\* A callsign adsbdb has answered for, even with "unknown", is left alone for RouteTtl, unless
\* as many others as the cache holds were used after it was: that many push it out.
AskedOnce == [][AskedAgainLate]_aircraftVars

\* What would hold if the cache were as large as the sky.
AskedOnceEver ==
    [][\A f \in lookups' \ lookups : heard[f] = Never \/ travel - heard[f] >= RouteTtl]_aircraftVars

\* What provider.ts says of the slot's containment: it is "checked explicitly on every read".
\* Who joins a request that has been out for an interval is not asked where it looks.
WaitersAreCovered ==
    \A c \in Callers : calls[c].pc = "slot" => ContainsBbox(flight.box, calls[c].box)

\* What provider.ts says of openSkyInFlight: a caller that arrives while a request covering its
\* viewport is in the air shares the answer, and does not go without.
TogetherShareOneRequest ==
    [][\A c \in Callers :
           calls[c].pc = "v2" /\ calls'[c].pc = "done" /\ setup = "v2 and OpenSky" /\ flight # None
               => \/ ~ContainsBbox(flight.box, calls[c].box)
                  \/ SnapshotFor(calls[c].box) # Failed]_aircraftVars

===============================================================================
