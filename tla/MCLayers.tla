------------------------------- MODULE MCLayers -------------------------------
(* A small instance of the server's live layers for TLC.  They share nothing but code, so a
   behaviour exercises one of them.  Nor do the OpenSky slot and the lookups of flight routes:
   the slot is exercised by calls that start no lookup, as the trail poller's do. *)
EXTENDS Warnings, LayerRoutes, Aircraft

CONSTANTS nordland, troms, kiosk, poller, hex, lnabc, lndef, wif, sas

VARIABLE which \* the layer this behaviour exercises

MCSetups == {"v2", "v2 and OpenSky", "OpenSky"}

vars == <<warningVars, layerVars, aircraftVars, which>>

Init ==
    /\ WarningsInit /\ LayersInit /\ AircraftInit
    /\ which \in {"warnings", "situations", "cameras", "transit", "species", "aircraft", "slot"}
    /\ setup \in CASE which = "aircraft" -> MCSetups \ {"v2 and OpenSky"}
                  [] which = "slot" -> {"v2 and OpenSky"}
                  [] OTHER -> {"OpenSky"}

Next ==
    \/ /\ which = "warnings" /\ WarningsNext
       /\ UNCHANGED <<held, answered, aircraftVars, which>>
    \/ /\ which \notin {"warnings", "aircraft", "slot"} /\ LayersNext({which})
       /\ UNCHANGED <<met, roster, regional, inquiry, notice, aircraftVars, which>>
    \/ /\ which \in {"aircraft", "slot"} /\ AircraftNext
       /\ which = "slot" => lookups' = {}
       /\ UNCHANGED <<warningVars, layerVars, which>>

Spec == Init /\ [][Next]_vars

-------------------------------------------------------------------------------
(* Warnings: a U around one of the viewports and an L that another only touches.  The grid is of 2. *)

U == <<<<0, 0>>, <<0, 6>>, <<8, 6>>, <<8, 4>>, <<4, 4>>, <<4, 2>>, <<8, 2>>, <<8, 0>>>>
L == <<<<4, 6>>, <<4, 8>>, <<8, 8>>, <<8, 4>>, <<6, 4>>, <<6, 6>>>>

\* As minLng, minLat, maxLng, maxLat: a cell in part, too wide, and three that are no viewports.
MCQueries ==
    {<<3, 1, 4, 2>>, <<-1, -3, 6, 9>>, <<4, 1, 4, 2>>, <<0, Unread, 8, 8>>, <<0, 1>>}

MCRosters ==
    {{[id |-> nordland, rings |-> {U}], [id |-> troms, rings |-> {L, <<<<0, 0>>, <<1, 1>>>>}]},
     {[id |-> troms, rings |-> {<<<<0, 0>>>>}], [id |-> nordland, rings |-> {<<<<0, 0>>, <<8, 0>>, <<8, 12>>, <<0, 12>>>>}]}}

Alert(name, colour, times) ==
    [id |-> name, readable |-> TRUE, colour |-> colour, awareness |-> "yellow", times |-> times, ending |-> 2, rings |-> {U}]

MCMetAnswers ==
    {{Alert("gale", Absent, <<1, 2>>), Alert("rain", "red", <<2>>), [Alert("snow", "red", <<1, 2>>) EXCEPT !.readable = FALSE],
      [Alert("ice", "red", <<1, 2>>) EXCEPT !.ending = Unread]}}

MCEntries ==
    {[level |-> 3, notAssessed |-> FALSE, dated |-> TRUE], [level |-> 2, notAssessed |-> TRUE, dated |-> TRUE],
     [level |-> 4, notAssessed |-> FALSE, dated |-> FALSE]}

-------------------------------------------------------------------------------
(* The others. *)

Closure(main, type, start, end) ==
    [readable |-> TRUE, id |-> "slide", main |-> main, type |-> type, effects |-> {"roadClosed"},
     start |-> start, end |-> end, updated |-> start, periodic |-> FALSE, active |-> FALSE,
     point |-> <<0, 0>>, parts |-> <<<<<<0, 0>>, <<4, 1>>, <<20, 0>>, <<20, 1>>, <<20, 10>>>>>>, description |-> Absent]

MCSituationAnswers ==
    {<<[Closure(FALSE, "ReroutingManagement", 0, Absent) EXCEPT !.effects = {}],
       Closure(TRUE, "VehicleObstruction", 1, 2),
       [Closure(FALSE, "Accident", 0, 4) EXCEPT !.updated = 2]>>,
     <<[Closure(TRUE, "PublicEvent", 0, Absent) EXCEPT !.periodic = TRUE, !.point = Absent],
       [Closure(TRUE, "ConstructionWorks", 4, Absent) EXCEPT !.id = "works"],
       [Closure(TRUE, "ConstructionWorks", 4, Absent) EXCEPT !.id = "unread", !.readable = FALSE]>>}

\* An out-and-back spur: the road runs to the far end and returns along itself.
MCSpurAnswers == {<<[Closure(TRUE, "MaintenanceWorks", 0, Absent) EXCEPT !.parts = <<<<<<0, 0>>, <<40, 0>>, <<20, 0>>>>>>]>>}

Camera(id, site) == [readable |-> TRUE, faulted |-> FALSE, ownHost |-> TRUE, id |-> id, site |-> site, point |-> <<0, 0>>]
Reading(at, wind, gust) == [readable |-> TRUE, site |-> "pass", measuredAt |-> at, wind |-> wind, gust |-> gust]

MCCameraAnswers ==
    {<<<<Camera("north", "pass"), [Camera("south", "pass") EXCEPT !.faulted = TRUE],
         [Camera("east", "pass") EXCEPT !.ownHost = FALSE]>>, weather>> :
        weather \in {Absent, <<Reading(0, 10, 18), Reading(2, 10, 19), Reading(1, 70, 12)>>}}

Seen(species, date, place) ==
    [readable |-> TRUE, species |-> species, date |-> date, point |-> place, individuals |-> 2,
     uncertainty |-> Absent, license |-> "CC BY", dataset |-> "museum"]

Search(matches, pages) == [matches |-> matches, pages |-> pages]
Page(count, results) == [count |-> count, results |-> results]

MCSearchAnswers ==
    LET otter == Seen("otter", 1, <<1, 1>>)
        eagle == Seen("eagle", 2, <<8, 1>>)
        first == <<otter, [otter EXCEPT !.date = 2, !.license = "CC BY-NC"]>>
    IN  {Search(3, <<Page(3, first), Page(3, <<eagle>>)>>),
         Search(3, <<Page(3, first), Absent>>),
         Search(6, <<Page(6, first), Page(6, first), Page(6, first)>>),
         Search(2, <<Page(2, <<eagle, [otter EXCEPT !.date = Absent]>>)>>),
         Search(3, <<Page(3, <<otter, [otter EXCEPT !.point = <<10, 1>>]>>), Page(3, <<eagle>>)>>),
         Search(3, <<Page(3, <<otter, [otter EXCEPT !.point = <<10, 1>>, !.uncertainty = -1]>>), Page(3, <<eagle>>)>>),
         Search(3, <<Page(3, <<otter, [eagle EXCEPT !.point = <<11, 1>>]>>), Page(Absent, <<eagle>>)>>),
         Search(3, <<Page(Absent, first)>>),
         Search(1, <<Absent>>)}

Vehicle(id, mode, at) == [readable |-> TRUE, id |-> id, mode |-> mode, lastUpdated |-> at, placed |-> TRUE]
MCVehicleReplies ==
    {[errors |-> FALSE, data |-> [vehicles |-> {Vehicle("bus 1", "bus", 0), Vehicle("ferry 2", "ferry", 2), Vehicle("tram 3", "tram", 2),
                                              [Vehicle("bus 4", "bus", 2) EXCEPT !.placed = FALSE]}]],
     [errors |-> FALSE, data |-> [vehicles |-> Absent]], [errors |-> FALSE, data |-> Absent],
     [errors |-> TRUE, data |-> Absent]}

MCDaysAsked == {Absent, 18}
MCMinutesAsked == {Absent, 0, 9}

-------------------------------------------------------------------------------
(* Aircraft: two callers, one viewport inside another's margin and one apart. *)

MCCallers == {kiosk, poller}
MCBoxesInSky == {Bbox(0, 0, 2, 2), Bbox(4, 4, 6, 6)}
MCFlights == {wif, sas}

Raw(icao, callsign, lat, lng, age) ==
    [hex |-> icao, flight |-> callsign, place |-> [lat |-> lat, lng |-> lng], altitude |-> 1, age |-> age]

MCFeeds ==
    {{Raw(hex, None, 1, 1, 1), [Raw(lnabc, None, 1, 1, 0) EXCEPT !.altitude = None]}}

\* A tie comes about when an OpenSky answer a second old meets a v2 entry a second old; the
\* second viewport's sky is empty.
MCStates ==
    {{Raw(hex, wif, 1, 1, 0), Raw(lnabc, sas, 2, 2, 0), Raw(wif, sas, 1, 2, 0), Raw(sas, sas, 3, 3, 0),
      [Raw(lndef, None, 1, 1, 0) EXCEPT !.age = None]}}

\* The callers are alike.
Symmetry == Permutations(MCCallers)
===============================================================================
