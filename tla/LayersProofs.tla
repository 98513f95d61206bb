------------------------------ MODULE LayersProofs ------------------------------
(***************************************************************************)
(* Proofs about the server's live layers: the viewports they are asked     *)
(* for, the warnings, the aircraft, the situations and vehicles held, the  *)
(* sightings counted, the order of records, and outlines clipped to a      *)
(* viewport.                                                               *)
(***************************************************************************)
EXTENDS Warnings, LayerRoutes, Aircraft, ListProofs, SequenceTheorems, FiniteSetTheorems, TLAPS

-------------------------------------------------------------------------------
(* Viewports. *)

\* Snapping moves a coordinate outward to a line of the grid, by less than a step.
LEMMA FloorSnaps ==
    ASSUME NEW v \in Int
    PROVE  /\ FloorToPrecision(v) \in Int
           /\ FloorToPrecision(v) <= v
           /\ v < FloorToPrecision(v) + Grid
<1>1. PICK g \in Nat \ {0} : g = Grid
  BY ViewportAssumption
<1>2. v = g * (v \div g) + (v % g) /\ v % g \in 0..(g - 1) /\ v \div g \in Int
  BY <1>1
<1> QED
  BY <1>1, <1>2 DEF FloorToPrecision

\* No line of the grid lies between a coordinate and the one it is snapped to.
LEMMA FloorIsNearest ==
    ASSUME NEW v \in Int, NEW n \in Int, n * Grid <= v
    PROVE  n * Grid <= FloorToPrecision(v)
<1>1. PICK g \in Nat \ {0} : g = Grid
  BY ViewportAssumption
<1>2. PICK q \in Int : q = v \div g
  BY <1>1
<1>3. v < q * g + g /\ FloorToPrecision(v) = q * g
  BY <1>1, <1>2, FloorSnaps DEF FloorToPrecision
<1>4. n * g < (q + 1) * g
  BY <1>1, <1>2, <1>3
<1>5. n <= q
  BY <1>1, <1>4
<1>6. n * g <= q * g
  BY <1>1, <1>5
<1> QED
  BY <1>1, <1>3, <1>6

\* The other way up.
LEMMA CeilIsFloor ==
    ASSUME NEW v \in Int
    PROVE  CeilToPrecision(v) = -FloorToPrecision(-v)
<1>1. PICK g \in Nat \ {0} : g = Grid
  BY ViewportAssumption
<1>2. PICK q \in Int : q = (-v) \div g
  BY <1>1
<1>3. (-q) * g = -(q * g)
  BY <1>1, <1>2
<1> QED
  BY <1>1, <1>2, <1>3 DEF CeilToPrecision, FloorToPrecision

\* Snapping is monotone, leaves the lines of the grid alone, and does so with the edges of the
\* earth, which are lines of it.
LEMMA FloorIsMonotone ==
    ASSUME NEW v \in Int, NEW w \in Int, v <= w
    PROVE  FloorToPrecision(v) <= FloorToPrecision(w)
<1>1. PICK n \in Int : FloorToPrecision(v) = n * Grid
  BY ViewportAssumption DEF FloorToPrecision
<1>2. n * Grid <= w
  BY <1>1, FloorSnaps, ViewportAssumption
<1> QED
  BY <1>1, <1>2, FloorIsNearest

LEMMA FloorIsIdempotent ==
    ASSUME NEW v \in Int
    PROVE  FloorToPrecision(FloorToPrecision(v)) = FloorToPrecision(v)
<1>1. PICK n \in Int : FloorToPrecision(v) = n * Grid
  BY ViewportAssumption DEF FloorToPrecision
<1>2. PICK w \in Int : w = FloorToPrecision(v)
  BY FloorSnaps
<1>3. w <= FloorToPrecision(w)
  BY <1>1, <1>2, FloorIsNearest
<1>4. FloorToPrecision(w) <= w /\ FloorToPrecision(w) \in Int
  BY <1>2, FloorSnaps
<1> QED
  BY <1>2, <1>3, <1>4

LEMMA FloorKeepsEdges ==
    ASSUME NEW limit \in Nat, limit % Grid = 0, NEW v \in Int
    PROVE  /\ -limit <= v => -limit <= FloorToPrecision(v)
           /\ v <= limit => FloorToPrecision(v) <= limit
<1>1. PICK g \in Nat \ {0} : g = Grid
  BY ViewportAssumption
<1>2. PICK n \in Int : n * g = limit
  <2>1. limit = g * (limit \div g) + (limit % g) /\ limit % g = 0 /\ limit \div g \in Int
    BY <1>1
  <2>2. PICK n \in Int : n = limit \div g
    BY <2>1
  <2>3. limit = g * n
    BY <1>1, <2>1, <2>2
  <2>4. n * g = limit
    BY <1>1, <2>3
  <2> QED
    BY <2>4
<1>3. (-n) * g = -limit
  BY <1>1, <1>2
<1>4. -limit <= v => -limit <= FloorToPrecision(v)
  <2>1. -n \in Int /\ (-n) * Grid = -limit
    BY <1>1, <1>2, <1>3
  <2> QED
    BY <2>1, FloorIsNearest
<1>5. FloorToPrecision(v) \in Int /\ FloorToPrecision(v) <= v
  BY FloorSnaps
<1> QED
  BY <1>4, <1>5

\* An axis shrunk around its centre stays inside what it was, and has something left.
LEMMA ShrunkFits ==
    ASSUME NEW lo \in Int, NEW hi \in Int, NEW limit \in Nat, -limit <= lo, lo < hi, hi <= limit
    PROVE  /\ Shrunk(lo, hi, limit)[1] \in Int /\ Shrunk(lo, hi, limit)[2] \in Int
           /\ lo <= Shrunk(lo, hi, limit)[1]
           /\ Shrunk(lo, hi, limit)[1] < Shrunk(lo, hi, limit)[2]
           /\ Shrunk(lo, hi, limit)[2] <= hi
<1>1. PICK span \in Nat \ {0} : span = Lower(hi - lo, MaxSpan) /\ span <= hi - lo
  BY ViewportAssumption DEF Lower
<1>2. PICK low \in Int, high \in Int : low = (lo + hi - span) \div 2 /\ high = (lo + hi + span) \div 2
  OBVIOUS
<1>3. lo <= low /\ low < high /\ high <= hi
  <2>1. 2 * lo <= lo + hi - span /\ lo + hi + span <= 2 * hi /\ lo + hi - span + 2 <= lo + hi + span
    BY <1>1
  <2> QED
    BY <1>1, <1>2, <2>1
<1>4. Shrunk(lo, hi, limit) = <<Higher(-limit, low), Lower(limit, high)>>
  BY <1>1, <1>2 DEF Shrunk
<1>5. Higher(-limit, low) = low /\ Lower(limit, high) = high
  BY <1>2, <1>3 DEF Higher, Lower
<1> QED
  BY <1>2, <1>3, <1>4, <1>5

\* A viewport that parses: on the earth, and not empty.
Proper(b) == b \in Bboxes /\ OnEarth(b) /\ b.minLat < b.maxLat /\ b.minLng < b.maxLng

LEMMA ParsedIsProper ==
    ASSUME NEW raw \in Seq(Int \cup {Unread}), Parses(raw)
    PROVE  Proper(ParseBbox(raw))
<1>1. Len(raw) = 4 /\ \A i \in 1..4 : raw[i] # Unread
  BY DEF Parses
<1>2. \A i \in 1..4 : raw[i] \in Int \cup {Unread}
  BY <1>1, ElementOfSeq
<1>3. raw[1] \in Int /\ raw[2] \in Int /\ raw[3] \in Int /\ raw[4] \in Int
  <2>1. \A i \in 1..4 : raw[i] \in Int
    BY <1>1, <1>2
  <2> QED
    BY <2>1
<1> QED
  BY <1>3 DEF Parses, Proper, OnEarth, ParseBbox, Bbox, Bboxes

LEMMA ClampFits ==
    ASSUME NEW b, Proper(b)
    PROVE  Proper(ClampBbox(b)) /\ ContainsBbox(b, ClampBbox(b))
<1>1. PICK lat : lat = Shrunk(b.minLat, b.maxLat, LatLimit)
  OBVIOUS
<1>2. PICK lng : lng = Shrunk(b.minLng, b.maxLng, LngLimit)
  OBVIOUS
<1>3. /\ b.minLat \in Int /\ b.maxLat \in Int /\ b.minLng \in Int /\ b.maxLng \in Int
      /\ LatLimit \in Nat /\ LngLimit \in Nat
      /\ -LatLimit <= b.minLat /\ b.minLat < b.maxLat /\ b.maxLat <= LatLimit
      /\ -LngLimit <= b.minLng /\ b.minLng < b.maxLng /\ b.maxLng <= LngLimit
  BY ViewportAssumption DEF Proper, OnEarth, Bboxes
<1>4. /\ lat[1] \in Int /\ lat[2] \in Int /\ b.minLat <= lat[1] /\ lat[1] < lat[2] /\ lat[2] <= b.maxLat
      /\ lng[1] \in Int /\ lng[2] \in Int /\ b.minLng <= lng[1] /\ lng[1] < lng[2] /\ lng[2] <= b.maxLng
  BY <1>1, <1>2, <1>3, ShrunkFits
<1>5. ClampBbox(b) = [minLat |-> lat[1], minLng |-> lng[1], maxLat |-> lat[2], maxLng |-> lng[2]]
  BY <1>1, <1>2 DEF ClampBbox, Bbox
<1> QED
  BY <1>3, <1>4, <1>5 DEF Proper, OnEarth, Bboxes, ContainsBbox

LEMMA RoundCovers ==
    ASSUME NEW b, Proper(b)
    PROVE  /\ Proper(RoundBbox(b))
           /\ ContainsBbox(RoundBbox(b), b)
           /\ RoundBbox(RoundBbox(b)) = RoundBbox(b)
<1>1. /\ b.minLat \in Int /\ b.maxLat \in Int /\ b.minLng \in Int /\ b.maxLng \in Int
      /\ -b.maxLat \in Int /\ -b.maxLng \in Int
      /\ LatLimit \in Nat /\ LngLimit \in Nat /\ LatLimit % Grid = 0 /\ LngLimit % Grid = 0
      /\ -LatLimit <= b.minLat /\ b.minLat < b.maxLat /\ b.maxLat <= LatLimit
      /\ -LngLimit <= b.minLng /\ b.minLng < b.maxLng /\ b.maxLng <= LngLimit
  BY ViewportAssumption DEF Proper, OnEarth, Bboxes
<1>2. PICK south \in Int : /\ south = FloorToPrecision(b.minLat) /\ south <= b.minLat /\ -LatLimit <= south
                           /\ FloorToPrecision(south) = south
  BY <1>1, FloorSnaps, FloorKeepsEdges, FloorIsIdempotent
<1>3. PICK west \in Int : /\ west = FloorToPrecision(b.minLng) /\ west <= b.minLng /\ -LngLimit <= west
                          /\ FloorToPrecision(west) = west
  BY <1>1, FloorSnaps, FloorKeepsEdges, FloorIsIdempotent
<1>4. PICK north \in Int : /\ north = FloorToPrecision(-b.maxLat) /\ north <= -b.maxLat /\ -LatLimit <= north
                           /\ FloorToPrecision(north) = north
  <2>1. -LatLimit <= -b.maxLat
    BY <1>1
  <2> QED
    BY <1>1, <2>1, FloorSnaps, FloorKeepsEdges, FloorIsIdempotent
<1>5. PICK east \in Int : /\ east = FloorToPrecision(-b.maxLng) /\ east <= -b.maxLng /\ -LngLimit <= east
                          /\ FloorToPrecision(east) = east
  <2>1. -LngLimit <= -b.maxLng
    BY <1>1
  <2> QED
    BY <1>1, <2>1, FloorSnaps, FloorKeepsEdges, FloorIsIdempotent
<1>6. RoundBbox(b) = [minLat |-> south, minLng |-> west, maxLat |-> -north, maxLng |-> -east]
  BY <1>1, <1>2, <1>3, <1>4, <1>5, CeilIsFloor DEF RoundBbox, Bbox
<1>7. CeilToPrecision(-north) = -north /\ CeilToPrecision(-east) = -east
  <2>1. -north \in Int /\ -east \in Int /\ -(-north) = north /\ -(-east) = east
    BY <1>4, <1>5
  <2> QED
    BY <1>4, <1>5, <2>1, CeilIsFloor
<1>8. RoundBbox(RoundBbox(b)) = RoundBbox(b)
  BY <1>2, <1>3, <1>6, <1>7 DEF RoundBbox, Bbox
<1> QED
  BY <1>1, <1>2, <1>3, <1>4, <1>5, <1>6, <1>8 DEF Proper, OnEarth, Bboxes, ContainsBbox

LEMMA RoundIsMonotone ==
    ASSUME NEW outer, Proper(outer), NEW inner, Proper(inner), ContainsBbox(outer, inner)
    PROVE  ContainsBbox(RoundBbox(outer), RoundBbox(inner))
<1>1. /\ outer.minLat \in Int /\ outer.maxLat \in Int /\ outer.minLng \in Int /\ outer.maxLng \in Int
      /\ inner.minLat \in Int /\ inner.maxLat \in Int /\ inner.minLng \in Int /\ inner.maxLng \in Int
      /\ outer.minLat <= inner.minLat /\ inner.maxLat <= outer.maxLat
      /\ outer.minLng <= inner.minLng /\ inner.maxLng <= outer.maxLng
  BY DEF Proper, Bboxes, ContainsBbox
<1>2. /\ FloorToPrecision(outer.minLat) <= FloorToPrecision(inner.minLat)
      /\ FloorToPrecision(outer.minLng) <= FloorToPrecision(inner.minLng)
  BY <1>1, FloorIsMonotone
<1>3. ASSUME NEW v \in Int, NEW w \in Int, v <= w
      PROVE  CeilToPrecision(v) <= CeilToPrecision(w)
  <2>1. -v \in Int /\ -w \in Int /\ -w <= -v
    BY <1>3
  <2>2. FloorToPrecision(-w) <= FloorToPrecision(-v) /\ FloorToPrecision(-w) \in Int /\ FloorToPrecision(-v) \in Int
    BY <2>1, FloorIsMonotone, FloorSnaps
  <2> QED
    BY <2>2, CeilIsFloor
<1>4. /\ CeilToPrecision(inner.maxLat) <= CeilToPrecision(outer.maxLat)
      /\ CeilToPrecision(inner.maxLng) <= CeilToPrecision(outer.maxLng)
  BY <1>1, <1>3
<1> QED
  BY <1>2, <1>4 DEF ContainsBbox, RoundBbox, Bbox

\* A margin never takes anything off.
LEMMA MarginCovers ==
    ASSUME NEW b \in Bboxes, OnEarth(b)
    PROVE  WithMargin(b) \in Bboxes /\ ContainsBbox(WithMargin(b), b)
BY ViewportAssumption DEF Bboxes, OnEarth, WithMargin, Bbox, Higher, Lower, ContainsBbox

\* What a layer asks its upstream about, for every request that parses: all of the screen it
\* was asked about, as far as a viewport may span, never empty, never off the earth, and
\* the same however often it is rounded (bbox.ts).
THEOREM ViewportCoversScreen ==
    ASSUME NEW raw \in Seq(Int \cup {Unread}), Parses(raw)
    PROVE  /\ Proper(Viewport(raw))
           /\ ContainsBbox(Viewport(raw), ClampBbox(ParseBbox(raw)))
           /\ ContainsBbox(RoundBbox(ParseBbox(raw)), Viewport(raw))
           /\ RoundBbox(Viewport(raw)) = Viewport(raw)
<1>1. PICK screen : screen = ParseBbox(raw) /\ Proper(screen)
  BY ParsedIsProper
<1>2. PICK clamped : clamped = ClampBbox(screen) /\ Proper(clamped) /\ ContainsBbox(screen, clamped)
  BY <1>1, ClampFits
<1>3. Viewport(raw) = RoundBbox(clamped)
  BY <1>1, <1>2 DEF Viewport
<1> QED
  BY <1>1, <1>2, <1>3, RoundCovers, RoundIsMonotone

-------------------------------------------------------------------------------
(* Warnings: the inductive invariant. *)

\* Entries of a cache, fetched now at the latest.
Held(bodies) == [value : bodies, at : 0..clock]

CachesInv ==
    /\ clock \in Nat
    /\ met \in Held(MetAnswers) \cup {Absent}
    /\ roster \in Held(FetchedRosters) \cup {Absent}
    /\ regional = [k \in DOMAIN regional |-> regional[k]]
    /\ \A k \in DOMAIN regional : regional[k] \in Held(Entries)

\* An entry that shows as a danger.
Dangerous(entry, region) ==
    entry # Absent /\ entry.level \in 1..5 /\ ~entry.notAssessed /\ IsAvalancheWarning(entry, region)

\* What is to be known of a region that has been loaded.
RegionLoaded(r) ==
    LET kept == HeldRegion(<<r.id, inquiry.day>>) IN
    IF r \in inquiry.failed
    THEN kept = Absent /\ \A e \in inquiry.entries : e.region # r.id
    ELSE /\ kept # Absent
         /\ ~inquiry.staleAvalanche => kept.at + RegionTtl > inquiry.begun
         /\ (\E e \in inquiry.entries : e.region = r.id) <=> Dangerous(kept.value, r)

\* Each half is as old as the answer will say, and each region loaded so far has left what the
\* answer needs.
RequestInv ==
    /\ inquiry.pc \in {"idle", "met", "roster", "regions"}
    /\ inquiry.pc # "idle" => inquiry.begun \in 0..clock /\ notice = Absent
    /\ inquiry.pc \in {"roster", "regions"} /\ ~inquiry.staleWeather /\ inquiry.weather # Absent =>
           met # Absent /\ met.at + MetTtl > inquiry.begun
    /\ inquiry.pc = "regions" =>
           /\ inquiry = [pc |-> "regions", box |-> inquiry.box, begun |-> inquiry.begun, weather |-> inquiry.weather,
                         staleWeather |-> inquiry.staleWeather, staleAvalanche |-> inquiry.staleAvalanche,
                         day |-> inquiry.day, known |-> inquiry.known, entries |-> inquiry.entries,
                         failed |-> inquiry.failed, hits |-> inquiry.hits, left |-> inquiry.left]
           /\ ~inquiry.staleAvalanche /\ inquiry.known => roster # Absent /\ roster.at + RosterTtl > inquiry.begun
           /\ inquiry.left \subseteq inquiry.hits /\ inquiry.failed \subseteq inquiry.hits
           /\ \A r, s \in inquiry.hits : r.id = s.id => r = s
           /\ \A r \in inquiry.hits \ inquiry.left : RegionLoaded(r)
           /\ \A r \in inquiry.left : r \notin inquiry.failed /\ \A e \in inquiry.entries : e.region # r.id

WarningsInv == CachesInv /\ RequestInv /\ UnmarkedIsFresh /\ DangerIsNotForgotten

-------------------------------------------------------------------------------
(* Aircraft: the inductive invariant. *)

CallShape(call) ==
    call = [pc |-> call.pc, box |-> call.box, primary |-> call.primary, usable |-> call.usable, result |-> call.result]

CallsInv ==
    /\ calls = [c \in Callers |-> calls[c]]
    /\ \A c \in Callers : CallShape(calls[c]) /\ (calls[c].pc \in {"v2", "slot"} => calls[c].box \in Boxes)

\* The wall clock believes no more time to have passed than did since the last request was sent,
\* or joined; the one in the air is the last that was sent.
SlotInv ==
    /\ now \in Nat /\ travel \in Nat
    /\ lastRequest \in Int
    /\ asked \in Seq(Nat)
    /\ asked # <<>> => now - lastRequest <= travel - asked[Len(asked)] /\ asked[Len(asked)] <= travel
    /\ flight # None => asked # <<>> /\ flight.sent = asked[Len(asked)]

OpenSkyInv == CallsInv /\ SlotInv /\ SlotIsShared

\* Since an answer of adsbdb that is cached, the wall clock believes no more time to have passed
\* than did; one that is not cached any more was pushed out by others.
Remembers(f) ==
    IF routes[f] = None THEN Cardinality(since[f]) >= MaxCallsigns
                        ELSE now - routes[f] <= travel - heard[f]

NamesInv ==
    /\ now \in Nat /\ travel \in Nat
    /\ routes = [f \in Flights |-> routes[f]] /\ heard = [f \in Flights |-> heard[f]]
    /\ since \in [Flights -> SUBSET Flights]
    /\ \A f \in Flights :
           /\ routes[f] \in Int \cup {None} /\ heard[f] \in Nat \cup {Never}
           /\ heard[f] # Never => Remembers(f)
    /\ lookups \subseteq Flights

AircraftInv == OpenSkyInv /\ NamesInv

-------------------------------------------------------------------------------

\* However a load ends, what is held is no older than the answer says, and is never lost.
LEMMA LoadKeepsHeld ==
    ASSUME clock \in Nat, NEW bodies, NEW entry \in Held(bodies) \cup {Absent}, NEW ttl \in Nat \ {0},
           NEW load \in LoadWithStaleFallback(entry, ttl, bodies), Absent \notin [value : bodies, at : Nat]
    PROVE  /\ load.held \in Held(bodies) \cup {Absent}
           /\ entry # Absent => load.held # Absent
           /\ load.held # Absent /\ ~load.stale => load.held.at + ttl > clock
<1>1. Absent \notin Held(bodies)
  BY DEF Held
<1>2. CASE entry # Absent /\ clock < entry.at + ttl
  BY <1>2 DEF LoadWithStaleFallback
<1>3. CASE load = [held |-> entry, stale |-> entry # Absent]
  BY <1>3
<1>4. ASSUME NEW body \in bodies, load = [held |-> [value |-> body, at |-> clock], stale |-> FALSE]
      PROVE  /\ load.held \in Held(bodies)
             /\ load.held.at + ttl > clock
  BY <1>4 DEF Held
<1> QED
  BY <1>1, <1>2, <1>3, <1>4 DEF LoadWithStaleFallback

\* A region of a roster is told from the others by its number.
LEMMA RegionsAreNumbered ==
    ASSUME NEW regions \in FetchedRosters
    PROVE  \A r, s \in regions : r.id = s.id => r = s
<1>1. PICK raw \in Rosters : regions = {[id |-> r.id, outline |-> ParseOutline(r.rings)] : r \in {s \in raw : Usable(s)}}
  BY DEF FetchedRosters
<1>2. \A r, s \in raw : r.id = s.id => r = s
  BY <1>1, RostersAssumption
<1> QED
  BY <1>1, <1>2

\* What is shown of an entry is its level, when that is a danger.
LEMMA LevelIsDanger ==
    ASSUME NEW entry, NEW region
    PROVE  MapAvalancheWarning(entry, region) # Absent <=> Dangerous(entry, region)
BY AbsentAssumption DEF MapAvalancheWarning, Dangerous

\* Until the answer is out there is nothing to be wrong about.
LEMMA NothingServed ==
    ASSUME notice' = Absent
    PROVE  UnmarkedIsFresh' /\ DangerIsNotForgotten'
BY DEF UnmarkedIsFresh, DangerIsNotForgotten, Served

-------------------------------------------------------------------------------

LEMMA WarningsInitInv == WarningsInit => WarningsInv
<1> SUFFICES ASSUME WarningsInit PROVE WarningsInv
  OBVIOUS
<1>1. CachesInv
  BY DEF WarningsInit, CachesInv
<1>2. RequestInv
  BY DEF WarningsInit, RequestInv, NoInquiry
<1> QED
  BY <1>1, <1>2 DEF WarningsInv, WarningsInit, UnmarkedIsFresh, DangerIsNotForgotten, Served

LEMMA AskInv ==
    ASSUME WarningsInv, NEW bbox \in WarningQueries, Ask(bbox)
    PROVE  WarningsInv'
<1>1. CachesInv'
  BY DEF WarningsInv, CachesInv, Held, Ask
<1>2. RequestInv'
  BY DEF WarningsInv, CachesInv, RequestInv, Ask
<1> QED
  BY <1>1, <1>2, NothingServed DEF WarningsInv, Ask

LEMMA LoadMetInv ==
    ASSUME WarningsInv, LoadMet
    PROVE  WarningsInv'
<1>1. PICK load \in LoadWithStaleFallback(met, MetTtl, MetAnswers) :
          /\ met' = load.held
          /\ inquiry' = [pc |-> "roster", box |-> inquiry.box, begun |-> inquiry.begun, staleWeather |-> load.stale,
                         weather |-> IF load.held = Absent THEN Absent ELSE MapMetAlerts(load.held.value, inquiry.box)]
  BY DEF LoadMet
<1>2. /\ clock \in Nat /\ met \in Held(MetAnswers) \cup {Absent} /\ MetTtl \in Nat \ {0}
      /\ Absent \notin [value : MetAnswers, at : Nat]
  BY WarningsAssumption, AbsentAssumption DEF WarningsInv, CachesInv
<1>3. /\ load.held \in Held(MetAnswers) \cup {Absent}
      /\ load.held # Absent /\ ~load.stale => load.held.at + MetTtl > clock
  BY <1>1, <1>2, LoadKeepsHeld
<1>4. CachesInv'
  BY <1>1, <1>3 DEF WarningsInv, CachesInv, Held, LoadMet
<1>5. inquiry.begun \in 0..clock /\ notice = Absent
  BY DEF WarningsInv, RequestInv, LoadMet
<1>6. load.held # Absent /\ ~load.stale => load.held.at + MetTtl > inquiry.begun
  BY <1>2, <1>3, <1>5 DEF Held
<1>7. RequestInv'
  BY <1>1, <1>5, <1>6 DEF RequestInv, LoadMet
<1> QED
  BY <1>4, <1>5, <1>7, NothingServed DEF WarningsInv, LoadMet

LEMMA LoadRosterInv ==
    ASSUME WarningsInv, LoadRoster
    PROVE  WarningsInv'
<1>1. PICK load \in LoadWithStaleFallback(roster, RosterTtl, FetchedRosters) :
          /\ roster' = load.held
          /\ inquiry' =
               [pc |-> "regions", box |-> inquiry.box, begun |-> inquiry.begun, weather |-> inquiry.weather,
                staleWeather |-> inquiry.staleWeather, staleAvalanche |-> load.stale,
                day |-> Today, known |-> load.held # Absent, entries |-> {}, failed |-> {},
                hits |-> IF load.held = Absent THEN {} ELSE RegionsIntersecting(load.held.value, inquiry.box),
                left |-> IF load.held = Absent THEN {} ELSE RegionsIntersecting(load.held.value, inquiry.box)]
  BY DEF LoadRoster
<1>2. /\ clock \in Nat /\ roster \in Held(FetchedRosters) \cup {Absent} /\ RosterTtl \in Nat \ {0}
      /\ Absent \notin [value : FetchedRosters, at : Nat]
  BY WarningsAssumption, AbsentAssumption DEF WarningsInv, CachesInv
<1>3. /\ load.held \in Held(FetchedRosters) \cup {Absent}
      /\ load.held # Absent /\ ~load.stale => load.held.at + RosterTtl > clock
  BY <1>1, <1>2, LoadKeepsHeld
<1>4. CachesInv'
  BY <1>1, <1>3 DEF WarningsInv, CachesInv, Held, LoadRoster
<1>5. inquiry.begun \in 0..clock /\ notice = Absent
  BY DEF WarningsInv, RequestInv, LoadRoster
<1>6. load.held # Absent /\ ~load.stale => load.held.at + RosterTtl > inquiry.begun
  BY <1>2, <1>3, <1>5 DEF Held
<1>7. \A r, s \in inquiry'.hits : r.id = s.id => r = s
  <2>1. CASE load.held = Absent
    BY <1>1, <2>1
  <2>2. CASE load.held # Absent
    <3>1. load.held.value \in FetchedRosters
      BY <1>3, <2>2 DEF Held
    <3>2. inquiry'.hits \subseteq load.held.value
      BY <1>1, <2>2 DEF RegionsIntersecting
    <3> QED
      BY <3>1, <3>2, RegionsAreNumbered
  <2> QED
    BY <2>1, <2>2
<1>8. ~inquiry'.staleWeather /\ inquiry'.weather # Absent => met' # Absent /\ met'.at + MetTtl > inquiry'.begun
  BY <1>1 DEF WarningsInv, RequestInv, LoadRoster
<1>9. RequestInv'
  <2>1. inquiry'.left = inquiry'.hits /\ inquiry'.failed = {} /\ inquiry'.entries = {}
    BY <1>1
  <2>2. ~inquiry'.staleAvalanche /\ inquiry'.known => roster' # Absent /\ roster'.at + RosterTtl > inquiry'.begun
    BY <1>1, <1>6
  <2>3. /\ inquiry'.pc = "regions" /\ inquiry'.begun \in 0..clock' /\ notice' = Absent
    BY <1>1, <1>5 DEF LoadRoster
  <2>4. inquiry' = [pc |-> "regions", box |-> inquiry'.box, begun |-> inquiry'.begun, weather |-> inquiry'.weather,
                    staleWeather |-> inquiry'.staleWeather, staleAvalanche |-> inquiry'.staleAvalanche,
                    day |-> inquiry'.day, known |-> inquiry'.known, entries |-> inquiry'.entries,
                    failed |-> inquiry'.failed, hits |-> inquiry'.hits, left |-> inquiry'.left]
    BY <1>1
  <2> QED
    BY <1>7, <1>8, <2>1, <2>2, <2>3, <2>4 DEF RequestInv
<1> QED
  BY <1>4, <1>5, <1>9, NothingServed DEF WarningsInv, LoadRoster

\* How a load changes the cache: nothing to hold, or what it brought in the place of at most
\* one entry that this request has not used.
Cached(key, entry) ==
    \/ entry = Absent /\ regional' = regional
    \/ /\ entry # Absent
       /\ \E gone \in Displaced(key) :
              regional' = [k \in (DOMAIN regional \ gone) \cup {key} |-> IF k = key THEN entry ELSE regional[k]]

\* The keys of the entries this request has used.
UsedKeys == {<<r.id, inquiry.day>> : r \in inquiry.hits \ inquiry.left}

\* What a load leaves in the cache is what a look at the region's key finds, and the keys the
\* request has used find what they did.
LEMMA LoadTouchesItsKey ==
    ASSUME NEW key, NEW entry, Cached(key, entry), entry = Absent => HeldRegion(key) = Absent
    PROVE  /\ HeldRegion(key)' = entry
           /\ \A other \in UsedKeys : other # key => HeldRegion(other)' = HeldRegion(other)
<1>1. CASE entry = Absent
  BY <1>1 DEF Cached, HeldRegion
<1>2. CASE entry # Absent
  <2>1. PICK gone \in Displaced(key) :
            regional' = [k \in (DOMAIN regional \ gone) \cup {key} |-> IF k = key THEN entry ELSE regional[k]]
    BY <1>2 DEF Cached
  <2>2. HeldRegion(key)' = entry
    BY <2>1 DEF HeldRegion
  <2>3. ASSUME NEW other \in UsedKeys, other # key
        PROVE  HeldRegion(other)' = HeldRegion(other)
    <3>1. other \notin gone
      BY <2>3 DEF Displaced, UsedKeys
    <3> QED
      BY <2>1, <2>3, <3>1 DEF HeldRegion
  <2> QED
    BY <2>2, <2>3
<1> QED
  BY <1>1, <1>2

LEMMA LoadRegionInv ==
    ASSUME WarningsInv, NEW region \in inquiry.left, LoadRegion(region)
    PROVE  WarningsInv'
<1>0. PICK load \in LoadWithStaleFallback(HeldRegion(<<region.id, inquiry.day>>), RegionTtl, Entries) :
          LET key == <<region.id, inquiry.day>>
              level == IF load.held = Absent THEN Absent ELSE MapAvalancheWarning(load.held.value, region) IN
          /\ Cached(key, load.held)
          /\ inquiry' = [inquiry EXCEPT
                !.left = @ \ {region},
                !.failed = IF load.held = Absent THEN @ \cup {region} ELSE @,
                !.staleAvalanche = @ \/ load.stale,
                !.entries = IF level = Absent THEN @ ELSE @ \cup {[region |-> region.id, level |-> level]}]
  BY DEF LoadRegion, Cached
<1> PICK key : key = <<region.id, inquiry.day>>
  OBVIOUS
<1> DEFINE level == IF load.held = Absent THEN Absent ELSE MapAvalancheWarning(load.held.value, region)
<1>1. /\ load \in LoadWithStaleFallback(HeldRegion(key), RegionTtl, Entries)
      /\ Cached(key, load.held)
      /\ inquiry' = [inquiry EXCEPT
            !.left = @ \ {region},
            !.failed = IF load.held = Absent THEN @ \cup {region} ELSE @,
            !.staleAvalanche = @ \/ load.stale,
            !.entries = IF level = Absent THEN @ ELSE @ \cup {[region |-> region.id, level |-> level]}]
  BY <1>0
<1>2. /\ clock \in Nat /\ RegionTtl \in Nat \ {0} /\ Absent \notin [value : Entries, at : Nat]
      /\ HeldRegion(key) \in Held(Entries) \cup {Absent}
  BY WarningsAssumption, AbsentAssumption DEF WarningsInv, CachesInv, HeldRegion
<1>3. /\ load.held \in Held(Entries) \cup {Absent}
      /\ HeldRegion(key) # Absent => load.held # Absent
      /\ load.held # Absent /\ ~load.stale => load.held.at + RegionTtl > clock
  BY <1>1, <1>2, LoadKeepsHeld
<1>4. /\ clock' = clock /\ met' = met /\ roster' = roster /\ notice' = notice
      /\ inquiry.pc = "regions"
  BY DEF LoadRegion
<1>5. CachesInv'
  <2>1. CASE load.held = Absent
    BY <1>1, <1>4, <2>1 DEF WarningsInv, CachesInv, Held, Cached
  <2>2. CASE load.held # Absent
    <3>1. PICK gone \in Displaced(key) :
              regional' = [k \in (DOMAIN regional \ gone) \cup {key} |-> IF k = key THEN load.held ELSE regional[k]]
      BY <1>1, <2>2 DEF Cached
    <3>2. load.held \in Held(Entries) /\ \A k \in DOMAIN regional : regional[k] \in Held(Entries)
      BY <1>3, <2>2 DEF WarningsInv, CachesInv
    <3>3. \A k \in DOMAIN regional' : regional'[k] \in Held(Entries)'
      BY <1>4, <3>1, <3>2 DEF Held
    <3>4. regional' = [k \in DOMAIN regional' |-> regional'[k]]
      BY <3>1
    <3> QED
      BY <1>4, <3>3, <3>4 DEF WarningsInv, CachesInv, Held
  <2> QED
    BY <2>1, <2>2
<1>6. /\ inquiry = [pc |-> "regions", box |-> inquiry.box, begun |-> inquiry.begun, weather |-> inquiry.weather,
                    staleWeather |-> inquiry.staleWeather, staleAvalanche |-> inquiry.staleAvalanche,
                    day |-> inquiry.day, known |-> inquiry.known, entries |-> inquiry.entries,
                    failed |-> inquiry.failed, hits |-> inquiry.hits, left |-> inquiry.left]
      /\ inquiry.begun \in 0..clock /\ notice = Absent
      /\ ~inquiry.staleWeather /\ inquiry.weather # Absent => met # Absent /\ met.at + MetTtl > inquiry.begun
      /\ ~inquiry.staleAvalanche /\ inquiry.known => roster # Absent /\ roster.at + RosterTtl > inquiry.begun
      /\ inquiry.left \subseteq inquiry.hits /\ inquiry.failed \subseteq inquiry.hits
      /\ \A r, s \in inquiry.hits : r.id = s.id => r = s
      /\ \A r \in inquiry.hits \ inquiry.left : RegionLoaded(r)
      /\ \A r \in inquiry.left : r \notin inquiry.failed /\ \A e \in inquiry.entries : e.region # r.id
  BY <1>4 DEF WarningsInv, RequestInv
<1>7. inquiry' = [pc |-> "regions", box |-> inquiry.box, begun |-> inquiry.begun, weather |-> inquiry.weather,
                  staleWeather |-> inquiry.staleWeather, staleAvalanche |-> inquiry.staleAvalanche \/ load.stale,
                  day |-> inquiry.day, known |-> inquiry.known,
                  entries |-> IF level = Absent THEN inquiry.entries
                              ELSE inquiry.entries \cup {[region |-> region.id, level |-> level]},
                  failed |-> IF load.held = Absent THEN inquiry.failed \cup {region} ELSE inquiry.failed,
                  hits |-> inquiry.hits, left |-> inquiry.left \ {region}]
  <2> DEFINE left == inquiry.left \ {region}
             failed == IF load.held = Absent THEN inquiry.failed \cup {region} ELSE inquiry.failed
             staleAvalanche == inquiry.staleAvalanche \/ load.stale
             entries == IF level = Absent THEN inquiry.entries
                        ELSE inquiry.entries \cup {[region |-> region.id, level |-> level]}
  <2>1. inquiry' = [inquiry EXCEPT !.left = left, !.failed = failed, !.staleAvalanche = staleAvalanche, !.entries = entries]
    BY <1>1
  <2> HIDE DEF left, failed, staleAvalanche, entries
  <2>2. inquiry' = [pc |-> "regions", box |-> inquiry.box, begun |-> inquiry.begun, weather |-> inquiry.weather,
                    staleWeather |-> inquiry.staleWeather, staleAvalanche |-> staleAvalanche,
                    day |-> inquiry.day, known |-> inquiry.known, entries |-> entries,
                    failed |-> failed, hits |-> inquiry.hits, left |-> left]
    <3> PICK old : old = inquiry
      OBVIOUS
    <3>1. old = [pc |-> "regions", box |-> old.box, begun |-> old.begun, weather |-> old.weather,
                 staleWeather |-> old.staleWeather, staleAvalanche |-> old.staleAvalanche,
                 day |-> old.day, known |-> old.known, entries |-> old.entries,
                 failed |-> old.failed, hits |-> old.hits, left |-> old.left]
      BY <1>6
    <3>2. DOMAIN old = {"pc", "box", "begun", "weather", "staleWeather", "staleAvalanche", "day", "known",
                        "entries", "failed", "hits", "left"} /\ old.pc = "regions"
      BY <3>1
    <3>3. inquiry' = [old EXCEPT !.left = left, !.failed = failed, !.staleAvalanche = staleAvalanche, !.entries = entries]
      BY <2>1
    <3> QED
      BY <3>2, <3>3
  <2> QED
    BY <2>2 DEF left, failed, staleAvalanche, entries
<1>8. region \in inquiry.hits /\ region \notin inquiry.failed /\ \A e \in inquiry.entries : e.region # region.id
  BY <1>6
<1>9. /\ HeldRegion(key)' = load.held
      /\ \A other \in UsedKeys : other # key => HeldRegion(other)' = HeldRegion(other)
  BY <1>1, <1>3, LoadTouchesItsKey
<1>10. RegionLoaded(region)'
  <2>1. key = <<region.id, inquiry'.day>>
    BY <1>7
  <2>2. CASE load.held = Absent
    <3>1. region \in inquiry'.failed /\ inquiry'.entries = inquiry.entries
      BY <1>7, <2>2
    <3> QED
      BY <1>8, <1>9, <2>1, <2>2, <3>1 DEF RegionLoaded
  <2>3. CASE load.held # Absent
    <3>1. region \notin inquiry'.failed
      BY <1>7, <1>8, <2>3
    <3>2. ~inquiry'.staleAvalanche => load.held.at + RegionTtl > inquiry'.begun
      <4>1. ~inquiry'.staleAvalanche => ~load.stale
        BY <1>7
      <4>2. inquiry'.begun = inquiry.begun /\ inquiry.begun \in 0..clock /\ load.held.at \in 0..clock
        BY <1>3, <1>6, <1>7, <2>3 DEF Held
      <4> QED
        BY <1>2, <1>3, <2>3, <4>1, <4>2
    <3>3. (\E e \in inquiry'.entries : e.region = region.id) <=> Dangerous(load.held.value, region)
      <4>1. Dangerous(load.held.value, region) <=> level # Absent
        BY <2>3, LevelIsDanger
      <4>2. inquiry'.entries = IF level = Absent THEN inquiry.entries
                               ELSE inquiry.entries \cup {[region |-> region.id, level |-> level]}
        BY <1>7
      <4>3. PICK told : told = [region |-> region.id, level |-> level]
        OBVIOUS
      <4>4. told.region = region.id
        BY <4>3
      <4> HIDE DEF level
      <4> QED
        BY <1>8, <4>1, <4>2, <4>3, <4>4
    <3> QED
      BY <1>9, <2>1, <2>3, <3>1, <3>2, <3>3 DEF RegionLoaded
  <2> QED
    BY <2>2, <2>3
<1>11. ASSUME NEW r \in inquiry.hits \ {region}
       PROVE  /\ <<r.id, inquiry.day>> # key
              /\ r \in inquiry'.failed <=> r \in inquiry.failed
              /\ (\E e \in inquiry'.entries : e.region = r.id) <=> (\E e \in inquiry.entries : e.region = r.id)
  <2>1. r.id # region.id /\ <<r.id, inquiry.day>> # key
    BY <1>6, <1>8
  <2>2. inquiry'.entries \subseteq inquiry.entries \cup {[region |-> region.id, level |-> level]}
        /\ inquiry.entries \subseteq inquiry'.entries
    BY <1>7
  <2>3. inquiry'.failed \subseteq inquiry.failed \cup {region} /\ inquiry.failed \subseteq inquiry'.failed
    BY <1>7
  <2> HIDE DEF level
  <2> QED
    BY <2>1, <2>2, <2>3
<1>12. ASSUME NEW r \in inquiry'.hits \ inquiry'.left
       PROVE  RegionLoaded(r)'
  <2>1. CASE r = region
    BY <1>10, <2>1
  <2>2. CASE r # region
    <3>1. r \in inquiry.hits \ inquiry.left /\ inquiry'.day = inquiry.day /\ inquiry'.begun = inquiry.begun
      BY <1>7, <2>2
    <3>2. RegionLoaded(r)
      BY <1>6, <3>1
    <3>3. PICK other : other = <<r.id, inquiry.day>>
      OBVIOUS
    <3>4. ~inquiry'.staleAvalanche => ~inquiry.staleAvalanche
      BY <1>7
    <3>5. HeldRegion(other)' = HeldRegion(other) /\ other = <<r.id, inquiry'.day>>
      BY <1>9, <1>11, <2>2, <3>1, <3>3 DEF UsedKeys
    <3>6. r \in inquiry.hits \ {region}
      BY <2>2, <3>1
    <3>7. /\ r \in inquiry'.failed <=> r \in inquiry.failed
          /\ (\E e \in inquiry'.entries : e.region = r.id) <=> (\E e \in inquiry.entries : e.region = r.id)
      BY <1>11, <3>6
    <3> QED
      BY <3>1, <3>2, <3>3, <3>4, <3>5, <3>7 DEF RegionLoaded
  <2> QED
    BY <2>1, <2>2
<1>13. \A r \in inquiry'.left : r \notin inquiry'.failed /\ \A e \in inquiry'.entries : e.region # r.id
  BY <1>6, <1>7, <1>11
<1>14. RequestInv'
  <2>1. /\ inquiry'.left \subseteq inquiry'.hits /\ inquiry'.failed \subseteq inquiry'.hits
        /\ \A r, s \in inquiry'.hits : r.id = s.id => r = s
    BY <1>6, <1>7, <1>8
  <2>2. ~inquiry'.staleAvalanche /\ inquiry'.known => roster' # Absent /\ roster'.at + RosterTtl > inquiry'.begun
    BY <1>4, <1>6, <1>7
  <2>3. ~inquiry'.staleWeather /\ inquiry'.weather # Absent => met' # Absent /\ met'.at + MetTtl > inquiry'.begun
    BY <1>4, <1>6, <1>7
  <2>4. /\ inquiry'.pc = "regions" /\ inquiry'.begun \in 0..clock' /\ notice' = Absent
    BY <1>4, <1>6, <1>7
  <2>5. inquiry' = [pc |-> "regions", box |-> inquiry'.box, begun |-> inquiry'.begun, weather |-> inquiry'.weather,
                    staleWeather |-> inquiry'.staleWeather, staleAvalanche |-> inquiry'.staleAvalanche,
                    day |-> inquiry'.day, known |-> inquiry'.known, entries |-> inquiry'.entries,
                    failed |-> inquiry'.failed, hits |-> inquiry'.hits, left |-> inquiry'.left]
    BY <1>7
  <2> QED
    BY <1>12, <1>13, <2>1, <2>2, <2>3, <2>4, <2>5 DEF RequestInv
<1> QED
  BY <1>4, <1>5, <1>6, <1>14, NothingServed DEF WarningsInv

LEMMA AnswerInv ==
    ASSUME WarningsInv, Answer
    PROVE  WarningsInv'
<1>1. /\ inquiry.pc = "regions" /\ inquiry.left = {} /\ inquiry' = NoInquiry
      /\ clock' = clock /\ met' = met /\ roster' = roster /\ regional' = regional
      /\ notice' = [body |-> IF Combine.weather = Absent /\ Combine.avalanche = Absent THEN Unavailable ELSE Combine,
                    begun |-> inquiry.begun, day |-> inquiry.day, hits |-> inquiry.hits]
  BY DEF Answer
<1>2. CachesInv'
  BY <1>1 DEF WarningsInv, CachesInv, Held
<1>3. RequestInv'
  BY <1>1 DEF RequestInv, NoInquiry
<1>4. /\ ~inquiry.staleWeather /\ inquiry.weather # Absent => met # Absent /\ met.at + MetTtl > inquiry.begun
      /\ ~inquiry.staleAvalanche /\ inquiry.known => roster # Absent /\ roster.at + RosterTtl > inquiry.begun
      /\ \A r \in inquiry.hits : RegionLoaded(r)
  BY <1>1 DEF WarningsInv, RequestInv
<1>5. \A key : HeldRegion(key)' = HeldRegion(key)
  BY <1>1 DEF HeldRegion
<1>6. Served' => notice'.body = Combine
  BY <1>1 DEF Served
<1>7. /\ notice'.begun = inquiry.begun /\ notice'.day = inquiry.day /\ notice'.hits = inquiry.hits
  BY <1>1
<1>8. /\ Combine.weather = inquiry.weather
      /\ Combine.avalanche # Absent => inquiry.known /\ Combine.avalanche = inquiry.entries
      /\ ~Combine.stale => ~inquiry.staleWeather /\ ~inquiry.staleAvalanche /\ inquiry.failed = {}
  BY DEF Combine
<1>9. UnmarkedIsFresh'
  <2> SUFFICES ASSUME Served', ~notice'.body.stale
               PROVE  /\ notice'.body.weather # Absent => met'.at + MetTtl > notice'.begun
                      /\ notice'.body.avalanche # Absent =>
                             /\ roster'.at + RosterTtl > notice'.begun
                             /\ \A r \in notice'.hits :
                                    LET kept == HeldRegion(<<r.id, notice.day>>)'
                                    IN  IF kept = Absent THEN FALSE ELSE kept.at + RegionTtl > notice'.begun
    BY DEF UnmarkedIsFresh
  <2>1. notice'.body = Combine
    BY <1>6
  <2>2. ~inquiry.staleWeather /\ ~inquiry.staleAvalanche /\ inquiry.failed = {}
    BY <1>8, <2>1
  <2>3. \A r \in inquiry.hits : LET kept == HeldRegion(<<r.id, inquiry.day>>)
                                IN  kept # Absent /\ kept.at + RegionTtl > inquiry.begun
    BY <1>4, <2>2 DEF RegionLoaded
  <2>4. \A r \in notice'.hits : HeldRegion(<<r.id, notice.day>>)' = HeldRegion(<<r.id, inquiry.day>>)
    BY <1>5, <1>7
  <2> QED
    BY <1>1, <1>4, <1>7, <1>8, <2>1, <2>2, <2>3, <2>4
<1>10. DangerIsNotForgotten'
  <2> SUFFICES ASSUME Served', notice'.body.avalanche # Absent, NEW r \in notice'.hits
               PROVE  LET kept == HeldRegion(<<r.id, notice.day>>)'
                          shown == {e \in notice'.body.avalanche : e.region = r.id}
                      IN  IF kept = Absent \/ kept.value = Absent THEN shown = {}
                          ELSE shown # {} <=> /\ kept.value.level \in 1..5 /\ ~kept.value.notAssessed
                                              /\ IsAvalancheWarning(kept.value, r)
    BY DEF DangerIsNotForgotten
  <2>1. notice'.body.avalanche = inquiry.entries
    BY <1>6, <1>8
  <2>2. HeldRegion(<<r.id, notice.day>>)' = HeldRegion(<<r.id, inquiry.day>>)
    BY <1>5, <1>7
  <2>3. RegionLoaded(r)
    BY <1>4, <1>7
  <2>4. {e \in inquiry.entries : e.region = r.id} # {} <=> \E e \in inquiry.entries : e.region = r.id
    OBVIOUS
  <2> QED
    BY <2>1, <2>2, <2>3, <2>4 DEF RegionLoaded, Dangerous
<1> QED
  BY <1>2, <1>3, <1>9, <1>10 DEF WarningsInv

LEMMA PassesInv ==
    ASSUME WarningsInv, Passes
    PROVE  WarningsInv'
<1>1. clock' = clock + 1 /\ UNCHANGED <<met, roster, regional, inquiry, notice>>
  BY DEF Passes
<1>2. CachesInv'
  BY <1>1 DEF WarningsInv, CachesInv, Held
<1>3. RequestInv'
  BY <1>1 DEF WarningsInv, CachesInv, RequestInv, RegionLoaded, HeldRegion
<1> QED
  BY <1>1, <1>2, <1>3 DEF WarningsInv, UnmarkedIsFresh, DangerIsNotForgotten, Served, HeldRegion

LEMMA WarningsStepInv == WarningsInv /\ [WarningsNext]_warningVars => WarningsInv'
<1> SUFFICES ASSUME WarningsInv, [WarningsNext]_warningVars PROVE WarningsInv'
  OBVIOUS
<1>1. CASE UNCHANGED warningVars
  BY <1>1 DEF warningVars, WarningsInv, CachesInv, Held, RequestInv, RegionLoaded, HeldRegion,
              UnmarkedIsFresh, DangerIsNotForgotten, Served
<1> QED
  BY <1>1, AskInv, LoadMetInv, LoadRosterInv, LoadRegionInv, AnswerInv, PassesInv DEF WarningsNext

\* The inductive invariant of a request for warnings.
LEMMA WarningsInvariance == WarningsSpec => []WarningsInv
BY WarningsInitInv, WarningsStepInv, PTL DEF WarningsSpec

\* An answer of GET /api/warnings that is not marked stale has nothing stale in it and no
\* region missing, whatever NVE and MET answered and whenever they failed.
THEOREM UnmarkedIsAlwaysFresh == WarningsSpec => []UnmarkedIsFresh
<1>1. WarningsInv => UnmarkedIsFresh
  BY DEF WarningsInv
<1> QED
  BY <1>1, WarningsInvariance, PTL

\* The avalanche half of an answer of GET /api/warnings shows exactly the regions in view for
\* which what NVE last said of the day is a danger the contract takes: one with a readable
\* ValidFrom, of a region drawn with its outline on Earth.
THEOREM DangersAreShown == WarningsSpec => []DangerIsNotForgotten
<1>1. WarningsInv => DangerIsNotForgotten
  BY DEF WarningsInv
<1> QED
  BY <1>1, WarningsInvariance, PTL

\* What a request for warnings was asked about.
AskedInv ==
    inquiry.pc = "met" => \E raw \in Seq(Int \cup {Unread}) :
        Parses(raw) /\ inquiry.asked = ParseBbox(raw) /\ inquiry.box = Viewport(raw)

LEMMA AskedStepInv ==
    ASSUME WarningsInv, AskedInv, [WarningsNext]_warningVars
    PROVE  AskedInv'
<1>1. ASSUME NEW bbox \in WarningQueries, Ask(bbox)
      PROVE  AskedInv'
  BY <1>1, QueriesAssumption DEF Ask, AskedInv
<1>2. CASE LoadMet \/ LoadRoster \/ Answer
  BY <1>2 DEF LoadMet, LoadRoster, Answer, NoInquiry, AskedInv
<1>3. ASSUME inquiry.pc = "regions", NEW region \in inquiry.left, LoadRegion(region)
      PROVE  AskedInv'
  <2>1. PICK load :
            LET level == IF load.held = Absent THEN Absent ELSE MapAvalancheWarning(load.held.value, region) IN
            inquiry' = [inquiry EXCEPT
                !.left = @ \ {region},
                !.failed = IF load.held = Absent THEN @ \cup {region} ELSE @,
                !.staleAvalanche = @ \/ load.stale,
                !.entries = IF level = Absent THEN @ ELSE @ \cup {[region |-> region.id, level |-> level]}]
    BY <1>3 DEF LoadRegion
  <2>2. inquiry = [pc |-> "regions", box |-> inquiry.box, begun |-> inquiry.begun, weather |-> inquiry.weather,
                   staleWeather |-> inquiry.staleWeather, staleAvalanche |-> inquiry.staleAvalanche,
                   day |-> inquiry.day, known |-> inquiry.known, entries |-> inquiry.entries,
                   failed |-> inquiry.failed, hits |-> inquiry.hits, left |-> inquiry.left]
    BY <1>3 DEF WarningsInv, RequestInv
  <2>3. "pc" \in DOMAIN inquiry
    BY <2>2
  <2>4. inquiry'.pc = "regions"
    BY <1>3, <2>1, <2>3
  <2> QED
    BY <2>4 DEF AskedInv
<1>4. CASE UNCHANGED inquiry
  BY <1>4 DEF AskedInv
<1> QED
  BY <1>1, <1>2, <1>3, <1>4 DEF WarningsNext, warningVars, Passes

\* A request for warnings is about what is on the screen: all of it, as far as a viewport may
\* span (roundBbox, clampBbox).
THEOREM WarningsCoverTheScreen == WarningsSpec => []AskedIsCovered
<1>1. AskedInv => AskedIsCovered
  BY ViewportCoversScreen DEF AskedInv, AskedIsCovered, Proper
<1>2. WarningsInit => AskedInv
  BY DEF WarningsInit, NoInquiry, AskedInv
<1> QED
  BY <1>1, <1>2, AskedStepInv, WarningsInvariance, PTL DEF WarningsSpec

-------------------------------------------------------------------------------
(* Aircraft: its preservation. *)

LEMMA AircraftInitInv == AircraftInit => AircraftInv
<1> SUFFICES ASSUME AircraftInit PROVE AircraftInv
  OBVIOUS
<1>1. CallsInv
  BY DEF AircraftInit, CallsInv, CallShape, Idle
<1>0. OpenSkyInterval \in Nat
  BY AircraftAssumption
<1>2. SlotInv /\ OpenSkyIsSpaced
  <2>1. asked = <<>> /\ flight = None /\ now = 0 /\ travel = 0 /\ lastRequest = -OpenSkyInterval
    BY DEF AircraftInit, GateInit
  <2>2. asked \in Seq(Nat) /\ DOMAIN asked = {} /\ lastRequest \in Int
    BY <1>0, <2>1
  <2> QED
    BY <2>1, <2>2 DEF SlotInv, OpenSkyIsSpaced
<1>3. FlightCoversWaiters
  BY DEF AircraftInit, FlightCoversWaiters, Idle
<1>4. NamesInv
  BY NoneAssumption DEF AircraftInit, GateInit, NamesInv
<1> QED
  BY <1>1, <1>2, <1>3, <1>4 DEF AircraftInv, OpenSkyInv, SlotIsShared

\* A caller that goes on without waiting for the slot disturbs nobody.
LEMMA CallerGoesOn ==
    ASSUME OpenSkyInv, UNCHANGED <<now, travel, slot>>,
           NEW c \in Callers, NEW call, calls' = [calls EXCEPT ![c] = call],
           CallShape(call), call.pc # "slot", call.pc = "v2" => call.box \in Boxes
    PROVE  OpenSkyInv'
<1>1. /\ calls' = [d \in Callers |-> calls'[d]]
      /\ \A d \in Callers : calls'[d] = IF d = c THEN call ELSE calls[d]
  BY DEF OpenSkyInv, CallsInv
<1>2. CallsInv'
  BY <1>1 DEF OpenSkyInv, CallsInv, CallShape
<1>3. SlotInv' /\ OpenSkyIsSpaced'
  BY DEF OpenSkyInv, SlotInv, slot, SlotIsShared, OpenSkyIsSpaced
<1>4. FlightCoversWaiters'
  BY <1>1 DEF OpenSkyInv, slot, SlotIsShared, FlightCoversWaiters
<1> QED
  BY <1>2, <1>3, <1>4 DEF OpenSkyInv, SlotIsShared

\* Done replaces the call.
LEMMA DoneIs ==
    ASSUME CallsInv, NEW c \in Callers, NEW result, Done(c, result)
    PROVE  calls' = [calls EXCEPT ![c] = [pc |-> "done", box |-> calls[c].box, primary |-> None,
                                          usable |-> None, result |-> result]]
<1>1. PICK call : call = calls[c] /\ CallShape(call)
  BY DEF CallsInv
<1>2. PICK new : new = [call EXCEPT !.pc = "done", !.primary = None, !.usable = None, !.result = result]
  OBVIOUS
<1>3. new = [pc |-> "done", box |-> call.box, primary |-> None, usable |-> None, result |-> result]
  <2>1. DOMAIN call = {"pc", "box", "primary", "usable", "result"}
    BY <1>1 DEF CallShape
  <2> QED
    BY <1>2, <2>1
<1>4. calls' = [calls EXCEPT ![c] = new]
  BY <1>1, <1>2 DEF Done, CallsInv
<1> QED
  BY <1>1, <1>3, <1>4

LEMMA DoneGoesOn ==
    ASSUME OpenSkyInv, UNCHANGED <<now, travel, slot>>, NEW c \in Callers, NEW result, Done(c, result)
    PROVE  OpenSkyInv'
<1>1. PICK call : call = [pc |-> "done", box |-> calls[c].box, primary |-> None, usable |-> None, result |-> result]
  OBVIOUS
<1>2. calls' = [calls EXCEPT ![c] = call]
  BY <1>1, DoneIs DEF OpenSkyInv
<1>3. CallShape(call) /\ call.pc = "done"
  BY <1>1 DEF CallShape
<1> QED
  BY <1>2, <1>3, CallerGoesOn

\* Whoever finds the slot open comes an interval after the last request was sent, however the
\* clock was stepped: it sends one of its own, or joins one that has been out that long.
LEMMA OpenSlotIsLate ==
    ASSUME SlotInv, SlotOpen, asked # <<>>
    PROVE  travel - asked[Len(asked)] >= OpenSkyInterval
<1>1. asked[Len(asked)] \in Nat
  BY DEF SlotInv
<1>2. OpenSkyInterval \in Nat
  BY AircraftAssumption
<1>3. /\ now \in Int /\ travel \in Int /\ lastRequest \in Int /\ now - lastRequest >= OpenSkyInterval
      /\ now - lastRequest <= travel - asked[Len(asked)]
  BY DEF SlotInv, SlotOpen
<1> QED
  BY <1>1, <1>2, <1>3

\* One more request keeps all of them apart.
LEMMA OneMoreRequest ==
    ASSUME SlotInv, OpenSkyIsSpaced, asked # <<>> => travel - asked[Len(asked)] >= OpenSkyInterval
    PROVE  LET more == Append(asked, travel) IN
           /\ more \in Seq(Nat) /\ more # <<>> /\ more[Len(more)] = travel
           /\ \A i, j \in DOMAIN more : i < j => more[j] - more[i] >= OpenSkyInterval
<1> DEFINE more == Append(asked, travel)
<1>0. OpenSkyInterval \in Nat
  BY AircraftAssumption
<1>1. /\ asked \in Seq(Nat) /\ travel \in Nat /\ OpenSkyInterval \in Nat
      /\ DOMAIN asked = 1..Len(asked) /\ Len(asked) \in Nat /\ \A i \in 1..Len(asked) : asked[i] \in Nat
  BY <1>0 DEF SlotInv
<1>2. /\ more \in Seq(Nat) /\ Len(more) = Len(asked) + 1 /\ DOMAIN more = 1..(Len(asked) + 1)
      /\ more[Len(asked) + 1] = travel
      /\ \A i \in 1..Len(asked) : more[i] = asked[i]
  BY <1>1
<1> HIDE DEF more
<1>3. more # <<>>
  BY <1>1, <1>2
<1>4. ASSUME NEW i \in DOMAIN more, NEW j \in DOMAIN more, i < j
      PROVE  more[j] - more[i] >= OpenSkyInterval
  <2>1. i \in 1..Len(asked) /\ i \in DOMAIN asked
    BY <1>1, <1>2, <1>4
  <2>2. CASE j \in 1..Len(asked)
    BY <1>1, <1>2, <1>4, <2>1, <2>2 DEF OpenSkyIsSpaced
  <2>3. CASE j = Len(asked) + 1
    <3>1. asked # <<>> /\ Len(asked) \in DOMAIN asked
      BY <1>1, <2>1
    <3>2. travel - asked[Len(asked)] >= OpenSkyInterval
      BY <3>1
    <3>3. i < Len(asked) => asked[Len(asked)] - asked[i] >= OpenSkyInterval
      BY <2>1, <3>1 DEF OpenSkyIsSpaced
    <3>4. asked[i] \in Nat /\ asked[Len(asked)] \in Nat /\ (i < Len(asked) \/ i = Len(asked))
      BY <1>1, <2>1, <3>1
    <3>5. more[j] = travel /\ more[i] = asked[i]
      BY <1>2, <2>1, <2>3
    <3>6. travel - asked[i] >= OpenSkyInterval
      <4>1. CASE i = Len(asked)
        BY <3>2, <4>1
      <4>2. CASE i < Len(asked)
        BY <1>1, <3>2, <3>3, <3>4, <4>2
      <4> QED
        BY <3>4, <4>1, <4>2
    <3> QED
      BY <3>5, <3>6
  <2> QED
    BY <1>1, <1>2, <2>2, <2>3
<1> QED
  BY <1>2, <1>3, <1>4 DEF more

LEMMA AskOpenSkyInv ==
    ASSUME OpenSkyInv, UNCHANGED <<now, travel>>, NEW c \in Callers, calls[c].pc = "v2",
           NEW primary, AskOpenSky(c, primary)
    PROVE  OpenSkyInv'
<1>1. CASE Done(c, Combined(primary, SnapshotFor(calls[c].box))) /\ UNCHANGED slot
  BY <1>1, DoneGoesOn
<1>2. CASE /\ ~Fresh(calls[c].box) /\ SlotOpen
           /\ lastRequest' = now
           /\ IF flight = None
              THEN /\ flight' = [box |-> WithMargin(calls[c].box), at |-> now, sent |-> travel]
                   /\ asked' = Append(asked, travel)
              ELSE UNCHANGED <<flight, asked>>
           /\ calls' = [calls EXCEPT ![c].pc = "slot", ![c].primary = primary,
                                     ![c].usable = SnapshotFor(calls[c].box)]
           /\ UNCHANGED snapshot
  <2>1. /\ SlotInv /\ OpenSkyIsSpaced /\ FlightCoversWaiters /\ CallsInv
        /\ asked # <<>> => travel - asked[Len(asked)] >= OpenSkyInterval
    BY <1>2, OpenSlotIsLate DEF OpenSkyInv, SlotIsShared
  <2>2. lastRequest' = now /\ now' = now /\ travel' = travel
    BY <1>2
  <2>3. calls[c].box \in Boxes /\ now \in Nat /\ travel \in Nat
    BY <2>1 DEF CallsInv, SlotInv
  <2>4. /\ SlotInv' /\ OpenSkyIsSpaced' /\ flight' # None
        /\ \/ ContainsBbox(flight'.box, calls[c].box)
           \/ travel' - flight'.sent >= OpenSkyInterval
        /\ flight # None => flight' = flight
        /\ flight = None => \A d \in Callers : calls[d].pc # "slot"
    <3>1. CASE flight = None
      <4>1. /\ flight' = [box |-> WithMargin(calls[c].box), at |-> now, sent |-> travel]
            /\ asked' = Append(asked, travel)
        BY <1>2, <3>1
      <4>2. /\ WithMargin(calls[c].box) \in Bboxes
            /\ ContainsBbox(WithMargin(calls[c].box), calls[c].box)
        BY <2>3, MarginCovers, BoxesAssumption, AircraftAssumption
      <4>3. flight' # None /\ flight'.sent = travel /\ flight'.box = WithMargin(calls[c].box)
        BY <2>3, <4>1, <4>2, NoneAssumption
      <4>4. /\ asked' \in Seq(Nat) /\ asked' # <<>> /\ asked'[Len(asked')] = travel
            /\ \A i, j \in DOMAIN asked' : i < j => asked'[j] - asked'[i] >= OpenSkyInterval
        BY <2>1, <4>1, OneMoreRequest
      <4>5. /\ now' \in Nat /\ travel' \in Nat /\ lastRequest' \in Int
            /\ now' - lastRequest' <= travel' - asked'[Len(asked')] /\ asked'[Len(asked')] <= travel'
        BY <2>2, <2>3, <4>4
      <4>6. SlotInv'
        BY <4>3, <4>4, <4>5 DEF SlotInv
      <4>7. OpenSkyIsSpaced'
        BY <4>4 DEF OpenSkyIsSpaced
      <4>8. \A d \in Callers : calls[d].pc # "slot"
        BY <2>1, <3>1 DEF FlightCoversWaiters
      <4> QED
        BY <3>1, <4>2, <4>3, <4>6, <4>7, <4>8
    <3>2. CASE flight # None
      <4>1. flight' = flight /\ asked' = asked
        BY <1>2, <3>2
      <4>2. /\ asked # <<>> /\ flight.sent = asked[Len(asked)] /\ asked[Len(asked)] \in Nat
            /\ asked[Len(asked)] <= travel
        BY <2>1, <3>2 DEF SlotInv
      <4>3. travel - flight.sent >= OpenSkyInterval
        BY <2>1, <4>2
      <4>4. /\ now' \in Nat /\ travel' \in Nat /\ lastRequest' \in Int
            /\ now' - lastRequest' <= travel' - asked[Len(asked)]
        BY <2>2, <2>3, <4>2
      <4>5. SlotInv'
        BY <2>1, <2>2, <4>1, <4>2, <4>4 DEF SlotInv
      <4>6. OpenSkyIsSpaced'
        BY <2>1, <4>1 DEF OpenSkyIsSpaced
      <4> QED
        BY <2>2, <3>2, <4>1, <4>3, <4>5, <4>6
    <3> QED
      BY <3>1, <3>2
  <2>8. PICK usable : usable = SnapshotFor(calls[c].box)
    OBVIOUS
  <2>9. PICK call : call = calls[c] /\ CallShape(call)
    BY <2>1 DEF CallsInv
  <2> PICK new : new = [call EXCEPT !.pc = "slot", !.primary = primary, !.usable = usable]
    OBVIOUS
  <2>10. new = [pc |-> "slot", box |-> call.box, primary |-> primary, usable |-> usable, result |-> call.result]
    <3>1. DOMAIN call = {"pc", "box", "primary", "usable", "result"}
      BY <2>9 DEF CallShape
    <3> QED
      BY <3>1
  <2>11. calls' = [calls EXCEPT ![c] = new]
    BY <1>2, <2>1, <2>8, <2>9 DEF CallsInv
  <2>12. /\ calls' = [d \in Callers |-> calls'[d]]
         /\ \A d \in Callers \ {c} : calls'[d] = calls[d]
         /\ calls'[c] = [pc |-> "slot", box |-> calls[c].box, primary |-> primary, usable |-> usable, result |-> call.result]
    BY <2>1, <2>9, <2>10, <2>11 DEF CallsInv
  <2>13. CallsInv'
    <3>1. CallShape(calls[c])' /\ calls'[c].box = calls[c].box
      BY <2>12 DEF CallShape
    <3>2. \A d \in Callers \ {c} : CallShape(calls[d])' <=> CallShape(calls[d])
      BY <2>12 DEF CallShape
    <3> QED
      BY <2>1, <2>3, <2>12, <3>1, <3>2 DEF CallsInv
  <2>14. FlightCoversWaiters'
    <3>1. ASSUME NEW d \in Callers, d # c, calls'[d].pc = "slot"
          PROVE  /\ flight' # None
                 /\ \/ ContainsBbox(flight'.box, calls'[d].box)
                    \/ travel' - flight'.sent >= OpenSkyInterval
      <4>1. calls'[d] = calls[d] /\ flight # None
        BY <2>4, <2>12, <3>1
      <4> QED
        BY <2>1, <2>2, <2>4, <3>1, <4>1 DEF FlightCoversWaiters
    <3>2. calls'[c].box = calls[c].box
      BY <2>12
    <3> QED
      BY <2>4, <3>1, <3>2 DEF FlightCoversWaiters
  <2> QED
    BY <2>4, <2>13, <2>14 DEF OpenSkyInv, SlotIsShared
<1> QED
  BY <1>1, <1>2 DEF AskOpenSky

LEMMA OpenSkyAnswersInv ==
    ASSUME OpenSkyInv, UNCHANGED <<now, travel>>, OpenSkyAnswers
    PROVE  OpenSkyInv'
<1>1. /\ flight' = None /\ lastRequest' = lastRequest /\ asked' = asked
      /\ now' = now /\ travel' = travel
  BY DEF OpenSkyAnswers
<1>2. PICK got : calls' = [c \in Callers |->
          IF calls[c].pc # "slot" THEN calls[c]
          ELSE LET secondary == IF got = Failed THEN calls[c].usable ELSE AircraftWithin(got, calls[c].box)
               IN  [Idle EXCEPT !.pc = "done", !.box = calls[c].box,
                                !.result = Combined(calls[c].primary, secondary)]]
  BY DEF OpenSkyAnswers
<1>3. ASSUME NEW c \in Callers
      PROVE  /\ CallShape(calls[c])' /\ calls'[c].pc # "slot"
             /\ calls'[c].pc = "v2" => calls'[c].box \in Boxes
  <2>1. CASE calls[c].pc # "slot"
    <3>1. calls'[c] = calls[c]
      BY <1>2, <2>1
    <3> QED
      BY <2>1, <3>1 DEF OpenSkyInv, CallsInv, CallShape
  <2>2. CASE calls[c].pc = "slot"
    <3>1. PICK box, result : calls'[c] = [Idle EXCEPT !.pc = "done", !.box = box, !.result = result]
      BY <1>2, <2>2
    <3>2. calls'[c] = [pc |-> "done", box |-> box, primary |-> None, usable |-> None, result |-> result]
      BY <3>1 DEF Idle
    <3> QED
      BY <3>2 DEF CallShape
  <2> QED
    BY <2>1, <2>2
<1>4. CallsInv'
  <2>1. calls' = [c \in Callers |-> calls'[c]]
    BY <1>2
  <2> QED
    BY <1>3, <2>1 DEF CallsInv
<1>5. SlotInv' /\ OpenSkyIsSpaced'
  BY <1>1 DEF OpenSkyInv, SlotInv, SlotIsShared, OpenSkyIsSpaced
<1>6. FlightCoversWaiters'
  BY <1>3 DEF FlightCoversWaiters
<1> QED
  BY <1>4, <1>5, <1>6 DEF OpenSkyInv, SlotIsShared

\* Time that passes is believed at most, and none that is stepped back over is.
LEMMA OpenSkyTimeInv ==
    ASSUME OpenSkyInv, UNCHANGED <<calls, slot>>,
           now' \in Nat, travel' \in Nat, now' - now <= travel' - travel, travel <= travel'
    PROVE  OpenSkyInv'
<1>1. /\ calls' = calls /\ lastRequest' = lastRequest /\ asked' = asked /\ flight' = flight
  BY DEF slot
<1>2. CallsInv' /\ OpenSkyIsSpaced'
  BY <1>1 DEF OpenSkyInv, CallsInv, CallShape, SlotIsShared, OpenSkyIsSpaced
<1>4. FlightCoversWaiters'
  <2> SUFFICES ASSUME NEW c \in Callers, calls[c].pc = "slot"
               PROVE  /\ flight # None
                      /\ \/ ContainsBbox(flight.box, calls[c].box)
                         \/ travel' - flight.sent >= OpenSkyInterval
    BY <1>1 DEF FlightCoversWaiters
  <2>1. /\ flight # None
        /\ ContainsBbox(flight.box, calls[c].box) \/ travel - flight.sent >= OpenSkyInterval
    BY DEF OpenSkyInv, SlotIsShared, FlightCoversWaiters
  <2>2. flight.sent \in Nat /\ travel \in Nat
    BY <2>1 DEF OpenSkyInv, SlotInv
  <2>3. OpenSkyInterval \in Nat
    BY AircraftAssumption
  <2> QED
    BY <2>1, <2>2, <2>3
<1>3. SlotInv'
  <2>1. asked # <<>> => asked[Len(asked)] \in Nat
    BY DEF OpenSkyInv, SlotInv
  <2>2. /\ now \in Nat /\ travel \in Nat /\ lastRequest \in Int
        /\ asked # <<>> => now - lastRequest <= travel - asked[Len(asked)] /\ asked[Len(asked)] <= travel
    BY DEF OpenSkyInv, SlotInv
  <2>3. ASSUME asked # <<>>
        PROVE  now' - lastRequest <= travel' - asked[Len(asked)] /\ asked[Len(asked)] <= travel'
    <3>1. PICK last \in Nat : last = asked[Len(asked)]
      BY <2>1, <2>3
    <3>2. now - lastRequest <= travel - last
      BY <2>2, <2>3, <3>1
    <3>3. now' - lastRequest <= travel' - last
      <4>1. PICK n \in Nat, t \in Nat, m \in Nat, u \in Nat, r \in Int :
                n = now /\ t = travel /\ m = now' /\ u = travel' /\ r = lastRequest
        BY <2>2
      <4>2. n - r <= t - last /\ m - n <= u - t
        BY <3>2, <4>1
      <4>3. m - r <= u - last
        BY <4>2
      <4> QED
        BY <4>1, <4>3
    <3> QED
      BY <2>2, <2>3, <3>1, <3>3
  <2>4. /\ asked \in Seq(Nat)
        /\ flight # None => asked # <<>> /\ flight.sent = asked[Len(asked)]
    BY DEF OpenSkyInv, SlotInv
  <2> QED
    BY <1>1, <2>2, <2>3, <2>4 DEF SlotInv
<1> QED
  BY <1>2, <1>3, <1>4 DEF OpenSkyInv, SlotIsShared

\* How the clock may move in any step.
ClockMoves ==
    /\ now' \in Nat /\ travel' \in Nat
    /\ now' - now <= travel' - travel
    /\ travel <= travel'

LEMMA TickMoves ==
    ASSUME now \in Nat, travel \in Nat, Tick
    PROVE  /\ ClockMoves
           /\ UNCHANGED <<setup, calls, slot, names, answers, bucket>>
<1>1. PICK d \in 1..(MaxTravel - travel) : now' = now + d /\ travel' = travel + d
  BY DEF Tick, Advance
<1> QED
  BY <1>1, GateAssumption DEF ClockMoves, Tick, Advance

LEMMA ClockBackMoves ==
    ASSUME now \in Nat, travel \in Nat, ClockBack
    PROVE  /\ ClockMoves /\ travel' = travel
           /\ UNCHANGED <<setup, calls, slot, names, answers, bucket>>
<1>1. PICK d \in 1..now : now' = now - d
  BY DEF ClockBack, StepBack
<1> QED
  BY <1>1 DEF ClockMoves, ClockBack, StepBack

\* A step of the aircraft layer other than the clock's takes no time.
LEMMA CallsTakeNoTime ==
    ASSUME AircraftNext
    PROVE  Tick \/ ClockBack \/ UNCHANGED <<now, travel>>
BY DEF AircraftNext, Call, Take, Refuse, DirectAnswers, V2Answers, OpenSkyAnswers, Respond, LookupAnswers,
       LookupFails, gateVars

LEMMA OpenSkyStepInv == OpenSkyInv /\ [AircraftNext]_aircraftVars => OpenSkyInv'
<1> SUFFICES ASSUME OpenSkyInv, [AircraftNext]_aircraftVars PROVE OpenSkyInv'
  OBVIOUS
<1>1. CASE Tick
  BY <1>1, TickMoves, OpenSkyTimeInv DEF OpenSkyInv, SlotInv, ClockMoves
<1>2. CASE ClockBack
  BY <1>2, ClockBackMoves, OpenSkyTimeInv DEF OpenSkyInv, SlotInv, ClockMoves, slot
<1>3. CASE UNCHANGED aircraftVars
  <2>1. /\ UNCHANGED <<calls, slot>> /\ now' = now /\ travel' = travel
    BY <1>3 DEF aircraftVars, gateVars
  <2> QED
    BY <2>1, OpenSkyTimeInv DEF OpenSkyInv, SlotInv
<1>4. ASSUME NEW c \in Callers, NEW box \in Boxes, Call(c, box)
      PROVE  OpenSkyInv'
  <2>1. UNCHANGED <<now, travel, slot>>
    BY <1>4 DEF Call, Take, Refuse
  <2>2. \E pc \in {"direct", "v2", "done"} : \E result :
            calls' = [calls EXCEPT ![c] = [Idle EXCEPT !.pc = pc, !.box = box, !.result = result]]
    <3>1. CASE calls' = [calls EXCEPT ![c] = [Idle EXCEPT !.pc = "done", !.box = box, !.result = Failed]]
      BY <3>1
    <3>2. CASE calls' = [calls EXCEPT ![c] = [Idle EXCEPT !.pc = IF setup = "OpenSky" THEN "direct" ELSE "v2", !.box = box]]
      <4>1. PICK pc \in {"direct", "v2"} : pc = IF setup = "OpenSky" THEN "direct" ELSE "v2"
        OBVIOUS
      <4> PICK short : short = [Idle EXCEPT !.pc = pc, !.box = box]
        OBVIOUS
      <4> PICK long : long = [Idle EXCEPT !.pc = pc, !.box = box, !.result = None]
        OBVIOUS
      <4>2. short = [pc |-> pc, box |-> box, primary |-> None, usable |-> None, result |-> None]
        BY DEF Idle
      <4>3. long = [pc |-> pc, box |-> box, primary |-> None, usable |-> None, result |-> None]
        BY DEF Idle
      <4>4. calls' = [calls EXCEPT ![c] = short]
        BY <3>2, <4>1
      <4>5. calls' = [calls EXCEPT ![c] = long]
        BY <4>2, <4>3, <4>4
      <4> QED
        BY <4>1, <4>5
    <3> QED
      BY <1>4, <3>1, <3>2 DEF Call
  <2>3. PICK pc \in {"direct", "v2", "done"} : \E result :
            calls' = [calls EXCEPT ![c] = [Idle EXCEPT !.pc = pc, !.box = box, !.result = result]]
    BY <2>2
  <2>4. PICK result :
            calls' = [calls EXCEPT ![c] = [Idle EXCEPT !.pc = pc, !.box = box, !.result = result]]
    BY <2>3
  <2>5. PICK call : call = [Idle EXCEPT !.pc = pc, !.box = box, !.result = result]
    OBVIOUS
  <2>6. call = [pc |-> pc, box |-> box, primary |-> None, usable |-> None, result |-> result]
    BY <2>5 DEF Idle
  <2>7. CallShape(call) /\ call.pc # "slot" /\ call.box \in Boxes
    BY <2>6 DEF CallShape
  <2> QED
    BY <2>1, <2>4, <2>5, <2>7, CallerGoesOn
<1>5. ASSUME NEW c \in Callers, DirectAnswers(c)
      PROVE  OpenSkyInv'
  <2>1. PICK result : Done(c, result)
    BY <1>5 DEF DirectAnswers
  <2>2. UNCHANGED <<now, travel, slot>>
    BY <1>5 DEF DirectAnswers, gateVars
  <2> QED
    BY <2>1, <2>2, DoneGoesOn
<1>6. ASSUME NEW c \in Callers, V2Answers(c)
      PROVE  OpenSkyInv'
  <2>1. UNCHANGED <<now, travel>> /\ calls[c].pc = "v2"
    BY <1>6 DEF V2Answers, gateVars
  <2>2. PICK primary : IF setup = "v2" THEN Done(c, Combined(primary, Failed)) /\ UNCHANGED slot
                       ELSE AskOpenSky(c, primary)
    BY <1>6 DEF V2Answers
  <2> QED
    BY <2>1, <2>2, DoneGoesOn, AskOpenSkyInv
<1>7. CASE OpenSkyAnswers
  <2>1. UNCHANGED <<now, travel>>
    BY <1>7 DEF OpenSkyAnswers, gateVars
  <2> QED
    BY <1>7, <2>1, OpenSkyAnswersInv
<1>8. ASSUME NEW c \in Callers, Respond(c)
      PROVE  OpenSkyInv'
  <2>1. UNCHANGED <<now, travel, slot>> /\ calls' = [calls EXCEPT ![c] = Idle]
    BY <1>8 DEF Respond, gateVars
  <2>2. CallShape(Idle) /\ Idle.pc = "idle"
    BY DEF CallShape, Idle
  <2> QED
    BY <2>1, <2>2, CallerGoesOn
<1>9. ASSUME NEW f \in Flights, LookupAnswers(f) \/ LookupFails(f)
      PROVE  OpenSkyInv'
  <2>1. /\ UNCHANGED <<calls, slot>> /\ now' = now /\ travel' = travel
    BY <1>9 DEF LookupAnswers, LookupFails, gateVars
  <2> QED
    BY <2>1, OpenSkyTimeInv DEF OpenSkyInv, SlotInv
<1> QED
  BY <1>1, <1>2, <1>3, <1>4, <1>5, <1>6, <1>7, <1>8, <1>9 DEF AircraftNext

\* More callsigns used since: still enough to push one out.
LEMMA MoreUsed ==
    ASSUME NEW old, NEW new \in SUBSET Flights, old \subseteq new,
           Cardinality(old) >= MaxCallsigns
    PROVE  Cardinality(new) >= MaxCallsigns
<1>1. IsFiniteSet(new)
  BY FlightsAssumption, FS_Subset
<1>2. IsFiniteSet(old) /\ Cardinality(old) <= Cardinality(new)
  BY <1>1, FS_Subset
<1>3. Cardinality(old) \in Nat /\ Cardinality(new) \in Nat
  BY <1>1, <1>2, FS_CardinalityType
<1>4. MaxCallsigns \in Nat
  BY AircraftAssumption
<1> QED
  BY <1>2, <1>3, <1>4

\* What is cached is no younger than it was, and what was pushed out stays so.
LEMMA NamesTimeInv ==
    ASSUME NamesInv, UNCHANGED <<routes, heard>>, lookups' \subseteq Flights,
           now' \in Nat, travel' \in Nat, now' - now <= travel' - travel,
           since' \in [Flights -> SUBSET Flights],
           \A f \in Flights : routes[f] = None => since[f] \subseteq since'[f]
    PROVE  NamesInv'
<1>1. ASSUME NEW f \in Flights, heard[f] # Never
      PROVE  Remembers(f)'
  <2>0. Remembers(f)
    BY <1>1 DEF NamesInv
  <2>1. CASE routes[f] # None
    <3>1. /\ routes[f] \in Int /\ heard[f] \in Nat /\ now \in Nat /\ travel \in Nat
          /\ now - routes[f] <= travel - heard[f]
      BY <1>1, <2>0, <2>1 DEF NamesInv, Remembers
    <3>2. PICK at \in Int, told \in Nat, n \in Nat, t \in Nat, m \in Nat, u \in Nat :
              at = routes[f] /\ told = heard[f] /\ n = now /\ t = travel /\ m = now' /\ u = travel'
      BY <3>1
    <3>3. n - at <= t - told /\ m - n <= u - t
      BY <3>1, <3>2
    <3>4. m - at <= u - told
      BY <3>3
    <3> QED
      BY <2>1, <3>2, <3>4 DEF Remembers
  <2>2. CASE routes[f] = None
    <3>1. Cardinality(since[f]) >= MaxCallsigns /\ since[f] \subseteq since'[f] /\ since'[f] \in SUBSET Flights
      BY <2>0, <2>2 DEF Remembers
    <3>2. Cardinality(since'[f]) >= MaxCallsigns
      BY <3>1, MoreUsed
    <3> QED
      BY <2>2, <3>2 DEF Remembers
  <2> QED
    BY <2>1, <2>2
<1> QED
  BY <1>1 DEF NamesInv

\* A lookup is started only for a callsign that is not cached, or has been for long enough; and
\* only cached callsigns become the newest.
LEMMA StartedIsStale ==
    ASSUME NamesInv, NEW list, Attach(list)
    PROVE  /\ lookups' \subseteq Flights
           /\ \A f \in lookups' \ lookups : \/ heard[f] = Never
                                           \/ travel - heard[f] >= RouteTtl
                                           \/ Cardinality(since[f]) >= MaxCallsigns
           /\ since' \in [Flights -> SUBSET Flights]
           /\ \A f \in Flights : routes[f] = None => since[f] \subseteq since'[f]
<1>1. PICK started \in SUBSET Wanted(list) : lookups' = lookups \cup {a.callsign : a \in started}
  BY DEF Attach
<1>2. ASSUME NEW f \in lookups' \ lookups
      PROVE  f \in Flights /\ (routes[f] # None => now - routes[f] >= RouteTtl)
  <2>1. PICK a \in Wanted(list) : a.callsign = f
    BY <1>1, <1>2
  <2> QED
    BY <2>1 DEF Wanted, FlightsOf, IsCached
<1>3. ASSUME NEW f \in lookups' \ lookups, heard[f] # Never, routes[f] # None
      PROVE  travel - heard[f] >= RouteTtl
  <2>1. /\ f \in Flights /\ now - routes[f] >= RouteTtl
        /\ now - routes[f] <= travel - heard[f]
    BY <1>2, <1>3 DEF NamesInv, Remembers
  <2>2. routes[f] \in Int /\ heard[f] \in Nat /\ now \in Nat /\ travel \in Nat /\ RouteTtl \in Nat
    BY <1>3, <2>1, AircraftAssumption DEF NamesInv
  <2> QED
    BY <2>1, <2>2
<1>4. ASSUME NEW f \in lookups' \ lookups, heard[f] # Never, routes[f] = None
      PROVE  Cardinality(since[f]) >= MaxCallsigns
  BY <1>2, <1>4 DEF NamesInv, Remembers
<1>5. lookups' \subseteq Flights
  BY <1>2 DEF NamesInv
<1> DEFINE shown == {f \in {a.callsign : a \in FlightsOf(list)} : IsCached(f)}
<1>6. shown \subseteq Flights /\ \A f \in shown : routes[f] # None
  BY DEF FlightsOf, IsCached
<1>7. Touch(shown)
  BY DEF Attach
<1> HIDE DEF shown
<1>8. PICK turn : since' = [f \in Flights |->
          IF f \in shown THEN {g \in shown : turn[g] > turn[f]} ELSE since[f] \cup shown]
  BY <1>7 DEF Touch
<1>9. \A f \in Flights : since[f] \in SUBSET Flights
  BY DEF NamesInv
<1>10. since' \in [Flights -> SUBSET Flights]
  BY <1>6, <1>8, <1>9
<1>11. \A f \in Flights : routes[f] = None => since[f] \subseteq since'[f]
  BY <1>6, <1>8
<1> QED
  BY <1>3, <1>4, <1>5, <1>10, <1>11

\* The callsign that makes room was used before all the others that are cached, and now before
\* the one that takes its place.
LEMMA EvictedIsOldest ==
    ASSUME NamesInv, NEW f \in Flights, NEW g \in Evicted(f)
    PROVE  /\ g # f /\ g \in Flights
           /\ Cardinality(since[g] \cup {f}) >= MaxCallsigns
<1> DEFINE others == {h \in Flights : IsCached(h)}
<1>1. /\ ~IsCached(f) /\ ~(Cardinality(others) < MaxCallsigns)
      /\ g \in others /\ others \ {g} \subseteq since[g]
  BY DEF Evicted
<1>2. g \in Flights /\ g # f /\ f \notin others /\ others \subseteq Flights
  BY <1>1
<1> HIDE DEF others
<1>3. IsFiniteSet(others) /\ Cardinality(others) \in Nat
  <2>1. IsFiniteSet(others)
    BY <1>2, FlightsAssumption, FS_Subset
  <2> QED
    BY <2>1, FS_CardinalityType
<1>4. Cardinality(others) >= MaxCallsigns
  <2>1. MaxCallsigns \in Nat
    BY AircraftAssumption
  <2> QED
    BY <1>1, <1>3, <2>1
<1>5. /\ IsFiniteSet(others \ {g})
      /\ Cardinality(others \ {g}) = Cardinality(others) - 1
  BY <1>1, <1>3, FS_RemoveElement
<1>6. Cardinality((others \ {g}) \cup {f}) = Cardinality(others)
  <2>1. f \notin others \ {g}
    BY <1>2
  <2>2. Cardinality((others \ {g}) \cup {f}) = Cardinality(others \ {g}) + 1
    BY <1>5, <2>1, FS_AddElement
  <2> QED
    BY <1>3, <1>5, <2>2
<1>7. (others \ {g}) \cup {f} \subseteq since[g] \cup {f} /\ since[g] \cup {f} \in SUBSET Flights
  BY <1>1, <1>2 DEF NamesInv
<1>8. Cardinality((others \ {g}) \cup {f}) >= MaxCallsigns
  BY <1>4, <1>6
<1> QED
  BY <1>2, <1>7, <1>8, MoreUsed

LEMMA LookupAnswersInv ==
    ASSUME NamesInv, NEW f \in Flights, LookupAnswers(f)
    PROVE  NamesInv' /\ AskedAgainLate
<1>0. now \in Nat /\ travel \in Nat /\ lookups \subseteq Flights
  BY DEF NamesInv
<1>1. /\ lookups' = lookups \ {f} /\ now' = now /\ travel' = travel
      /\ heard' = [heard EXCEPT ![f] = travel] /\ Keep(f)
  BY DEF LookupAnswers, gateVars
<1>2. /\ now \in Int /\ now # None /\ travel # Never /\ now - now <= travel - travel
  BY <1>0, NoneAssumption, GateAssumption
<1>3. ASSUME NEW g \in Flights
      PROVE  /\ heard'[g] = IF g = f THEN travel ELSE heard[g]
             /\ routes'[g] = IF g = f THEN now ELSE IF g \in Evicted(f) THEN None ELSE routes[g]
             /\ since'[g] = IF g = f THEN {} ELSE since[g] \cup {f}
  BY <1>1 DEF Keep, NamesInv
<1>4. since' \in [Flights -> SUBSET Flights]
  <2>1. \A g \in Flights : since[g] \in SUBSET Flights
    BY DEF NamesInv
  <2> QED
    BY <1>1, <2>1 DEF Keep
<1>5. ASSUME NEW g \in Flights, heard'[g] # Never
      PROVE  Remembers(g)'
  <2>1. CASE g = f
    <3>1. routes'[g] = now /\ heard'[g] = travel
      BY <1>3, <2>1
    <3> QED
      BY <1>0, <1>1, <1>2, <3>1 DEF Remembers
  <2>2. CASE g # f /\ g \in Evicted(f)
    <3>1. routes'[g] = None /\ since'[g] = since[g] \cup {f}
      BY <1>3, <2>2
    <3> QED
      BY <2>2, <3>1, EvictedIsOldest DEF Remembers
  <2>3. CASE g # f /\ g \notin Evicted(f)
    <3>1. routes'[g] = routes[g] /\ heard'[g] = heard[g] /\ since'[g] = since[g] \cup {f}
      BY <1>3, <2>3
    <3>2. Remembers(g)
      BY <1>5, <3>1 DEF NamesInv
    <3>3. CASE routes[g] # None
      BY <1>1, <3>1, <3>2, <3>3 DEF Remembers
    <3>4. CASE routes[g] = None
      <4>1. Cardinality(since[g]) >= MaxCallsigns /\ since[g] \subseteq since'[g] /\ since'[g] \in SUBSET Flights
        BY <1>4, <3>1, <3>2, <3>4 DEF Remembers
      <4>2. Cardinality(since'[g]) >= MaxCallsigns
        BY <4>1, MoreUsed
      <4> QED
        BY <3>1, <3>4, <4>2 DEF Remembers
    <3> QED
      BY <3>3, <3>4
  <2> QED
    BY <2>1, <2>2, <2>3
<1>6. ASSUME NEW g \in Flights
      PROVE  routes'[g] \in Int \cup {None} /\ heard'[g] \in Nat \cup {Never}
  <2>1. CASE g = f
    <3>1. routes'[g] = now /\ heard'[g] = travel
      BY <1>3, <2>1
    <3> QED
      BY <1>0, <3>1
  <2>2. CASE g # f
    <3>1. (routes'[g] = None \/ routes'[g] = routes[g]) /\ heard'[g] = heard[g]
      BY <1>3, <2>2
    <3> QED
      BY <3>1 DEF NamesInv
  <2> QED
    BY <2>1, <2>2
<1>7. routes' = [g \in Flights |-> routes'[g]] /\ heard' = [g \in Flights |-> heard'[g]]
  BY <1>1 DEF NamesInv, Keep
<1> QED
  BY <1>0, <1>1, <1>4, <1>5, <1>6, <1>7 DEF NamesInv, AskedAgainLate

LEMMA NamesStepInv == NamesInv /\ [AircraftNext]_aircraftVars => NamesInv' /\ AskedAgainLate
<1> SUFFICES ASSUME NamesInv, [AircraftNext]_aircraftVars PROVE NamesInv' /\ AskedAgainLate
  OBVIOUS
<1>0. now \in Nat /\ travel \in Nat /\ lookups \subseteq Flights /\ since \in [Flights -> SUBSET Flights]
  BY DEF NamesInv
<1>1. CASE Tick
  BY <1>0, <1>1, TickMoves, NamesTimeInv DEF ClockMoves, names, AskedAgainLate
<1>2. CASE ClockBack
  BY <1>0, <1>2, ClockBackMoves, NamesTimeInv DEF ClockMoves, names, AskedAgainLate
<1>3. CASE UNCHANGED <<now, travel, names>>
  <2>1. UNCHANGED <<routes, heard, lookups, since>> /\ now' = now /\ travel' = travel
    BY <1>3 DEF names
  <2>2. now' - now <= travel' - travel
    BY <1>0, <2>1
  <2> QED
    BY <1>0, <2>1, <2>2, NamesTimeInv DEF AskedAgainLate
<1>4. ASSUME NEW c \in Callers, Respond(c)
      PROVE  NamesInv' /\ AskedAgainLate
  <2>1. UNCHANGED <<routes, heard>> /\ now' = now /\ travel' = travel
    BY <1>4 DEF Respond, gateVars
  <2>2. now' - now <= travel' - travel
    BY <1>0, <2>1
  <2>3. UNCHANGED <<lookups, since>> \/ \E list : Attach(list)
    BY <1>4 DEF Respond
  <2>4. /\ lookups' \subseteq Flights /\ AskedAgainLate
        /\ since' \in [Flights -> SUBSET Flights]
        /\ \A f \in Flights : routes[f] = None => since[f] \subseteq since'[f]
    BY <1>0, <2>3, StartedIsStale DEF AskedAgainLate
  <2> QED
    BY <1>0, <2>1, <2>2, <2>4, NamesTimeInv
<1>5. ASSUME NEW f \in Flights, LookupAnswers(f)
      PROVE  NamesInv' /\ AskedAgainLate
  BY <1>5, LookupAnswersInv
<1>6. ASSUME NEW f \in Flights, LookupFails(f)
      PROVE  NamesInv' /\ AskedAgainLate
  <2>1. /\ lookups' = lookups \ {f} /\ now' = now /\ travel' = travel /\ UNCHANGED <<routes, since, heard>>
    BY <1>6 DEF LookupFails, gateVars
  <2>2. now' - now <= travel' - travel
    BY <1>0, <2>1
  <2>3. lookups' \subseteq Flights /\ AskedAgainLate
    BY <1>0, <2>1 DEF AskedAgainLate
  <2> QED
    BY <1>0, <2>1, <2>2, <2>3, NamesTimeInv
<1>7. UNCHANGED aircraftVars => UNCHANGED <<now, travel, names>>
  BY DEF aircraftVars, gateVars
<1>8. ASSUME NEW c \in Callers, (\E box \in Boxes : Call(c, box)) \/ DirectAnswers(c) \/ V2Answers(c) \/ OpenSkyAnswers
      PROVE  UNCHANGED <<now, travel, names>>
  BY <1>8 DEF Call, Take, Refuse, DirectAnswers, V2Answers, OpenSkyAnswers, gateVars
<1>9. OpenSkyAnswers => UNCHANGED <<now, travel, names>>
  BY DEF OpenSkyAnswers, gateVars
<1> QED
  BY <1>1, <1>2, <1>3, <1>4, <1>5, <1>6, <1>7, <1>8, <1>9 DEF AircraftNext

\* The inductive invariant of the aircraft layer.
LEMMA AircraftInvariance == AircraftSpec => []AircraftInv
<1>1. AircraftInv /\ [AircraftNext]_aircraftVars => AircraftInv'
  BY OpenSkyStepInv, NamesStepInv DEF AircraftInv
<1> QED
  BY <1>1, AircraftInitInv, PTL DEF AircraftSpec

\* One account's OpenSky slot serves every viewport: two requests of the slot are an interval
\* apart however the clock is stepped, however long a request takes and however often OpenSky
\* fails; and whoever waits for the one in the air asked about a viewport inside the one it
\* covers, or came after it had been out for an interval (openSkyAircraftWithin).
THEOREM OneSlotForAll == AircraftSpec => []SlotIsShared
<1>1. AircraftInv => SlotIsShared
  BY DEF AircraftInv, OpenSkyInv
<1> QED
  BY <1>1, AircraftInvariance, PTL

\* A callsign that adsbdb has answered for, even with "unknown", is left alone for RouteTtl,
\* whoever shows it, unless as many others as the cache holds were used after it was: it is the
\* callsign used longest ago that makes room (flight-routes.ts, cache.ts).
THEOREM CallsignsAreLeftAlone == AircraftSpec => AskedOnce
<1>1. AircraftInv /\ [AircraftNext]_aircraftVars => [AskedAgainLate]_aircraftVars
  BY NamesStepInv DEF AircraftInv
<1> QED
  BY <1>1, AircraftInvariance, PTL DEF AircraftSpec, AskedOnce

\* The aircraft layer uses the outbound gate as the gate is meant to be used: each of its
\* steps is one of the gate's or leaves the gate alone, and so what RateIsBounded says of
\* GateSpec is true of the calls behind GET /api/aircraft and of the trail poller's.
THEOREM AircraftIsGated == AircraftSpec => GateSpec
<1>1. AircraftInit => GateInit
  BY DEF AircraftInit
<1>2. [AircraftNext]_aircraftVars => [GateNext]_gateVars
  BY DEF AircraftNext, GateNext, Call, DirectAnswers, V2Answers, OpenSkyAnswers, Respond, LookupAnswers,
         LookupFails, Tick, ClockBack, aircraftVars
<1> QED
  BY <1>1, <1>2, PTL DEF AircraftSpec, GateSpec

-------------------------------------------------------------------------------
(* The layers whose answers are worked out of what is held: road           *)
(* situations and buses.                                                   *)

\* The times of a record that is not over, for the moment it is classified at.
LEMMA ClassifiedByTimes ==
    ASSUME NEW r, r.start \in Int, r.end \in Int \cup {Absent}, NEW at \in Int,
           ClassifySituation(r, at) # "expired"
    PROVE  /\ r.end = Absent \/ r.end >= at
           /\ ClassifySituation(r, at) = "planned" <=> r.start > at
<1>1. Absent \notin Int
  BY SituationsAssumption
<1>2. CASE r.end # Absent /\ r.end < at
  BY <1>2 DEF ClassifySituation
<1>3. CASE r.end = Absent \/ r.end >= at
  <2>1. ~(r.end # Absent /\ r.end < at)
    BY <1>1, <1>3
  <2>2. CASE r.start > at
    <3>1. ~(r.start <= at)
      BY <2>2
    <3> QED
      BY <1>3, <2>1, <2>2, <3>1 DEF ClassifySituation
  <2>3. CASE ~(r.start > at)
    BY <1>3, <2>1, <2>3 DEF ClassifySituation
  <2> QED
    BY <2>2, <2>3
<1> QED
  BY <1>2, <1>3

\* The record that speaks for a group is one of it.
LEMMA MainIsListed ==
    ASSUME NEW S, NEW records \in Seq(S), records # <<>>
    PROVE  MainRecordOf(records) \in S
<1> DEFINE main == {r \in ToSet(records) : r.main}
           cause == {r \in ToSet(records) : r.type \notin ConsequenceTypes}
<1>1. PICK flagged, causes : flagged = Kept(records, main) /\ causes = Kept(records, cause)
  OBVIOUS
<1>2. MainRecordOf(records) = Head(flagged \o causes \o records)
  BY <1>1 DEF MainRecordOf
<1> HIDE DEF main, cause
<1>3. flagged \in Seq(S \cap main) /\ causes \in Seq(S \cap cause)
  BY <1>1, KeptPasses
<1>4. flagged \in Seq(S) /\ causes \in Seq(S)
  BY <1>3
<1>5. PICK both : both = flagged \o causes
  OBVIOUS
<1>6. both \in Seq(S)
  BY <1>4, <1>5
<1>7. PICK all : all = both \o records
  OBVIOUS
<1>8. all \in Seq(S) /\ Len(all) = Len(both) + Len(records)
  BY <1>6, <1>7, ConcatProperties
<1>9. Len(both) \in Nat /\ Len(records) \in Nat \ {0}
  BY <1>6
<1>10. all # <<>>
  BY <1>8, <1>9
<1> QED
  BY <1>2, <1>5, <1>7, <1>8, <1>10

\* What is shown of upstream's records at a moment.
LEMMA MappedForNow ==
    ASSUME NEW features \in SituationAnswers, NEW at \in Int, NEW s \in MapSituations(features, at).situations
    PROVE  /\ s.endsAt = Absent \/ s.endsAt >= at
           /\ (s.status = "planned") <=> (s.startsAt > at)
           /\ s.startsAt - at <= Horizon
<1>1. PICK R : R = {r \in ToSet(features) : r.readable}
  OBVIOUS
<1>2. PICK readable : readable = Kept(features, R)
  OBVIOUS
<1>3. readable \in Seq(R)
  <2>1. features \in Seq(ToSet(features))
    BY SituationsAssumption
  <2>2. readable \in Seq(ToSet(features) \cap R)
    BY <1>2, <2>1, KeptPasses
  <2> QED
    BY <1>1, <2>2
<1>4. PICK r \in ToSet(readable) :
          /\ s = Situation(Kept(readable, {q \in ToSet(readable) : q.id = r.id}), at)
          /\ s.status # "expired" /\ ~(s.status = "planned" /\ s.startsAt - at > Horizon)
  BY <1>1, <1>2 DEF MapSituations
<1>5. PICK group : group = {q \in ToSet(readable) : q.id = r.id}
  OBVIOUS
<1>6. PICK records : records = Kept(readable, group)
  OBVIOUS
<1>7. records \in Seq(R) /\ records # <<>>
  <2>1. records \in Seq(R \cap group)
    BY <1>3, <1>6, KeptPasses
  <2>2. PICK i \in 1..Len(readable) : readable[i] = r
    BY <1>3 DEF ToSet
  <2>3. readable[i] \in group
    BY <1>5, <2>2
  <2>4. \E j \in 1..Len(records) : records[j] = readable[i]
    BY <1>3, <1>6, <2>3, KeptKeeps
  <2> QED
    BY <2>1, <2>4
<1>8. PICK main : main = MainRecordOf(records)
  OBVIOUS
<1>9. main.start \in Int /\ main.end \in Int \cup {Absent}
  <2>1. main \in R
    BY <1>7, <1>8, MainIsListed
  <2> QED
    BY <1>1, <2>1, SituationsAssumption
<1>10. s.status = ClassifySituation(main, at) /\ s.startsAt = main.start /\ s.endsAt = main.end
  BY <1>4, <1>5, <1>6, <1>8 DEF Situation
<1>11. /\ main.end = Absent \/ main.end >= at
       /\ ClassifySituation(main, at) = "planned" <=> main.start > at
  BY <1>4, <1>9, <1>10, ClassifiedByTimes
<1>12. Horizon \in Nat
  BY LayersAssumption
<1>13. main.start - at <= Horizon
  BY <1>4, <1>9, <1>10, <1>11, <1>12
<1> QED
  BY <1>10, <1>11, <1>13

\* What is held of the situations is what upstream sent.
LayersInv ==
    /\ clock \in Nat
    /\ <<"situations", 0>> \in DOMAIN held
    /\ held[<<"situations", 0>>] # Absent => held[<<"situations", 0>>].value \in SituationAnswers
    /\ ServedForNow

LEMMA LayersInitInv == LayersInit => LayersInv
<1> SUFFICES ASSUME LayersInit PROVE LayersInv
  OBVIOUS
<1>1. clock \in Nat /\ <<"situations", 0>> \in DOMAIN held /\ held[<<"situations", 0>>] = Absent
  BY DEF LayersInit, Keys
<1>2. ServedForNow
  BY DEF LayersInit, ServedForNow, Is
<1> QED
  BY <1>1, <1>2 DEF LayersInv

\* An answer of another layer, or none, says nothing of these.
LEMMA OtherAnswer ==
    ASSUME answered' = Refused \/ answered'.layer \notin {"situations", "transit"}
    PROVE  ServedForNow'
BY DEF ServedForNow, Is

\* The cache of another layer.
LEMMA OtherHeld ==
    ASSUME LayersInv, NEW key, key # <<"situations", 0>>, NEW entry, held' = [held EXCEPT ![key] = entry]
    PROVE  /\ <<"situations", 0>> \in DOMAIN held'
           /\ held'[<<"situations", 0>>] = held[<<"situations", 0>>]
<1>1. PICK k : k = <<"situations", 0>>
  OBVIOUS
<1>2. k \in DOMAIN held /\ k # key
  BY <1>1 DEF LayersInv
<1>3. k \in DOMAIN held' /\ held'[k] = held[k]
  BY <1>2
<1> QED
  BY <1>1, <1>3

LEMMA SituationsInv == LayersInv /\ ServeSituations => LayersInv'
<1> SUFFICES ASSUME LayersInv, ServeSituations PROVE LayersInv'
  OBVIOUS
<1>1. PICK k : k = <<"situations", 0>>
  OBVIOUS
<1>2. PICK load \in LoadWithStaleFallback(held[k], LayerTtl, SituationAnswers) :
          /\ held' = [held EXCEPT ![k] = load.held]
          /\ Reply(load, "situations", IF load.held = Absent THEN Absent
                                       ELSE MapSituations(load.held.value, MappedAt(load.held)))
  BY <1>1 DEF ServeSituations
<1>3. k \in DOMAIN held /\ clock \in Nat /\ clock' = clock
  BY <1>1 DEF LayersInv, ServeSituations
<1>4. load.held # Absent => load.held.value \in SituationAnswers
  BY <1>1, <1>2 DEF LoadWithStaleFallback, LayersInv
<1>5. k \in DOMAIN held' /\ held'[k] = load.held
  BY <1>2, <1>3
<1>6. ServedForNow'
  <2>1. CASE load.held = Absent
    <3>1. answered' = Refused
      BY <1>2, <2>1 DEF Reply
    <3> QED
      BY <3>1, OtherAnswer
  <2>2. CASE load.held # Absent
    <3>1. PICK features : features = load.held.value
      OBVIOUS
    <3>2. PICK body : body = MapSituations(features, clock)
      OBVIOUS
    <3>3. answered' = [layer |-> "situations", at |-> clock, stale |-> load.stale, raw |-> features, body |-> body]
      BY <1>2, <2>2, <3>1, <3>2 DEF Reply, MappedAt
    <3>4. answered'.layer = "situations" /\ answered'.at = clock /\ answered'.body = body
      BY <3>3
    <3>5. features \in SituationAnswers /\ clock \in Int
      BY <1>3, <1>4, <2>2, <3>1
    <3>6. \A s \in body.situations :
              /\ s.endsAt = Absent \/ s.endsAt >= clock
              /\ (s.status = "planned") <=> (s.startsAt > clock)
              /\ s.startsAt - clock <= Horizon
      BY <3>2, <3>5, MappedForNow
    <3> QED
      BY <3>4, <3>6 DEF ServedForNow, Is
  <2> QED
    BY <2>1, <2>2
<1> QED
  BY <1>1, <1>3, <1>4, <1>5, <1>6 DEF LayersInv

LEMMA VehiclesInv == ASSUME LayersInv, NEW minute, ServeVehicles(minute) PROVE LayersInv'
<1>1. PICK minutes : minutes = ParseMaxAgeMinutes(minute)
  OBVIOUS
<1>2. PICK load : /\ held' = [held EXCEPT ![<<"transit", 0>>] = load.held]
                  /\ Reply(load, "transit", IF load.held = Absent THEN Absent
                                            ELSE [minutes |-> minutes,
                                                  map |-> MapVehicles(load.held.value, MappedAt(load.held), minutes)])
  BY <1>1 DEF ServeVehicles
<1>3. clock \in Nat /\ clock' = clock
  BY DEF LayersInv, ServeVehicles
<1>4. <<"situations", 0>> \in DOMAIN held' /\ held'[<<"situations", 0>>] = held[<<"situations", 0>>]
  <2>1. PICK key, entry : key = <<"transit", 0>> /\ entry = load.held
    OBVIOUS
  <2>2. key # <<"situations", 0>> /\ held' = [held EXCEPT ![key] = entry]
    BY <1>2, <2>1
  <2> QED
    BY <2>2, OtherHeld
<1>5. ServedForNow'
  <2>1. CASE load.held = Absent
    <3>1. answered' = Refused
      BY <1>2, <2>1 DEF Reply
    <3> QED
      BY <3>1, OtherAnswer
  <2>2. CASE load.held # Absent
    <3>1. PICK map : map = MapVehicles(load.held.value, clock, minutes)
      OBVIOUS
    <3>2. answered' = [layer |-> "transit", at |-> clock, stale |-> load.stale, raw |-> load.held.value,
                       body |-> [minutes |-> minutes, map |-> map]]
      BY <1>2, <2>2, <3>1 DEF Reply, MappedAt
    <3>3. /\ answered'.layer = "transit" /\ answered'.at = clock
          /\ answered'.body.minutes = minutes /\ answered'.body.map = map
      BY <3>2
    <3>4. \A v \in map.vehicles : clock - v.recordedAt <= minutes
      BY <3>1 DEF MapVehicles
    <3> QED
      BY <3>3, <3>4 DEF ServedForNow, Is
  <2> QED
    BY <2>1, <2>2
<1> QED
  BY <1>3, <1>4, <1>5 DEF LayersInv

LEMMA LayersStepInv ==
    LayersInv /\ [LayersNext({"situations", "cameras", "transit", "species"})]_layerVars => LayersInv'
<1> SUFFICES ASSUME LayersInv, [LayersNext({"situations", "cameras", "transit", "species"})]_layerVars
             PROVE  LayersInv'
  OBVIOUS
<1>1. ASSUME NEW key, NEW entry, NEW layer, NEW body, NEW load, key # <<"situations", 0>>,
             layer \notin {"situations", "transit"}, held' = [held EXCEPT ![key] = entry],
             Reply(load, layer, body), clock' = clock
      PROVE  LayersInv'
  <2>1. answered' = Refused \/ answered'.layer = layer
    BY <1>1 DEF Reply
  <2>2. ServedForNow'
    BY <1>1, <2>1, OtherAnswer
  <2> QED
    BY <1>1, <2>2, OtherHeld DEF LayersInv
<1>2. CASE ServeCameras
  <2>1. PICK load, body : /\ held' = [held EXCEPT ![<<"cameras", 0>>] = load.held]
                          /\ Reply(load, "cameras", body)
    BY <1>2 DEF ServeCameras
  <2>2. PICK key, entry : key = <<"cameras", 0>> /\ entry = load.held
    OBVIOUS
  <2>3. key # <<"situations", 0>> /\ held' = [held EXCEPT ![key] = entry]
    BY <2>1, <2>2
  <2>4. clock' = clock
    BY <1>2 DEF ServeCameras
  <2> QED
    BY <1>1, <2>1, <2>3, <2>4
<1>3. ASSUME NEW day \in DaysAsked, ServeSpecies(day) PROVE LayersInv'
  <2>1. PICK key : key = <<"species", ParseDaysParam(day)>>
    OBVIOUS
  <2>2. PICK load, body : held' = [held EXCEPT ![key] = load.held] /\ Reply(load, "species", body)
    BY <1>3, <2>1 DEF ServeSpecies
  <2>3. PICK entry : entry = load.held
    OBVIOUS
  <2>4. key # <<"situations", 0>> /\ held' = [held EXCEPT ![key] = entry]
    BY <2>1, <2>2, <2>3
  <2>5. clock' = clock
    BY <1>3 DEF ServeSpecies
  <2> QED
    BY <1>1, <2>2, <2>4, <2>5
<1>4. CASE LayersPass
  <2>1. clock' \in Nat /\ held' = held /\ answered' = answered
    BY <1>4 DEF LayersPass, LayersInv
  <2> QED
    BY <2>1 DEF LayersInv, ServedForNow, Is
<1>5. CASE UNCHANGED layerVars
  <2>1. clock' = clock /\ held' = held /\ answered' = answered
    BY <1>5 DEF layerVars
  <2> QED
    BY <2>1 DEF LayersInv, ServedForNow, Is
<1> QED
  BY <1>2, <1>3, <1>4, <1>5, SituationsInv, VehiclesInv DEF LayersNext

\* What is served of the road situations and the buses is right for the moment it is served,
\* however long upstream's records have been held (routes/road-situations.ts, routes/transit.ts).
THEOREM HeldIsServedForNow == LayersSpec => []ServedForNow
<1>1. LayersInv => ServedForNow
  BY DEF LayersInv
<1> QED
  BY <1>1, LayersInitInv, LayersStepInv, PTL DEF LayersSpec

-------------------------------------------------------------------------------
(* Sightings: what a search reads, and how it is grouped and counted.      *)

\* A reading of the first k pages, one after the other.
Reads(g, pages, k) ==
    /\ g[0] = <<>>
    /\ \A n \in 1..k : g[n] = With(g[n - 1], pages[n])

\* The recursion of Upto has a solution, and what is read is where that ends.
LEMMA UptoIsReached ==
    ASSUME NEW pages, NEW k \in Nat
    PROVE  \E g : Reads(g, pages, k) /\ Upto(pages, k) = g[k]
<1> DEFINE Step(g, n) == With(g[n - 1], pages[n])
           Solves(g, m) == g[0] = <<>> /\ \A n \in 1..m : g[n] = Step(g, n)
           Rule(g) == [j \in 0..k |-> IF j = 0 THEN <<>> ELSE With(g[j - 1], pages[j])]
           records == CHOOSE g : g = Rule(g)
           Reached == {m \in Nat : \E g : Solves(g, m)}
<1>1. 0 \in Reached
  <2>1. Solves([n \in 0..0 |-> <<>>], 0)
    OBVIOUS
  <2> QED
    BY <2>1
<1>2. ASSUME NEW m \in Nat, m \in Reached PROVE m + 1 \in Reached
  <2>1. PICK g : Solves(g, m)
    <3> HIDE DEF Solves
    <3> QED
      BY <1>2
  <2>2. PICK last : last = With(g[m], pages[m + 1])
    OBVIOUS
  <2>3. PICK h : h = [n \in 0..(m + 1) |-> IF n = m + 1 THEN last ELSE g[n]]
    OBVIOUS
  <2>4. h[m + 1] = last /\ \A n \in 0..m : h[n] = g[n]
    BY <2>3
  <2>5. h[0] = <<>>
    BY <2>1, <2>4
  <2>6. ASSUME NEW n \in 1..(m + 1) PROVE h[n] = Step(h, n)
    <3>1. n - 1 \in 0..m /\ h[n - 1] = g[n - 1]
      BY <2>4
    <3>2. CASE n = m + 1
      BY <2>2, <2>4, <3>1, <3>2
    <3>3. CASE n # m + 1
      <4>1. n \in 1..m /\ n \in 0..m
        BY <3>3
      <4>2. g[n] = Step(g, n)
        BY <2>1, <4>1
      <4> QED
        BY <2>4, <3>1, <4>1, <4>2
    <3> QED
      BY <3>2, <3>3
  <2>7. Solves(h, m + 1)
    <3> HIDE DEF Step
    <3> QED
      BY <2>5, <2>6
  <2> HIDE DEF Solves
  <2> QED
    BY <2>7
<1>3. PICK g : Solves(g, k)
  <2> HIDE DEF Reached, Solves
  <2>1. \A m \in Nat : m \in Reached
    BY <1>1, <1>2, SetInduction
  <2> QED
    BY <2>1 DEF Reached
<1>4. PICK f : f = [n \in 0..k |-> g[n]]
  OBVIOUS
<1>5. f = Rule(f)
  <2>1. ASSUME NEW n \in 0..k PROVE f[n] = Rule(f)[n]
    <3>1. Rule(f)[n] = IF n = 0 THEN <<>> ELSE Step(f, n)
      OBVIOUS
    <3> HIDE DEF Rule
    <3>2. CASE n = 0
      BY <1>3, <1>4, <3>1, <3>2
    <3>3. CASE n # 0
      <4>1. n \in 1..k /\ n - 1 \in 0..k
        BY <3>3
      <4>2. f[n - 1] = g[n - 1] /\ f[n] = g[n]
        BY <1>4, <4>1
      <4>3. g[n] = Step(g, n)
        BY <1>3, <4>1
      <4> QED
        BY <3>1, <3>3, <4>2, <4>3
    <3> QED
      BY <3>2, <3>3
  <2>2. f = [n \in 0..k |-> f[n]]
    BY <1>4
  <2> QED
    BY <2>1, <2>2
<1>6. records = Rule(records)
  <2> HIDE DEF Rule
  <2> QED
    BY <1>5
<1>7. Upto(pages, k) = records[k]
  BY DEF Upto
<1> HIDE DEF records
<1>8. Reads(records, pages, k)
  <2>1. \A n \in 0..k : records[n] = IF n = 0 THEN <<>> ELSE Step(records, n)
    BY <1>6
  <2>2. records[0] = <<>>
    BY <2>1
  <2>3. ASSUME NEW n \in 1..k PROVE records[n] = Step(records, n)
    BY <2>1
  <2> QED
    BY <2>2, <2>3 DEF Reads
<1> QED
  BY <1>7, <1>8

\* What is read of pages of records is a list of records.
LEMMA UptoIsTyped ==
    ASSUME NEW S, NEW pages, NEW k \in Nat, \A j \in 1..k : pages[j].results \in Seq(S)
    PROVE  Upto(pages, k) \in Seq(S)
<1>1. PICK g : Reads(g, pages, k) /\ Upto(pages, k) = g[k]
  BY UptoIsReached
<1> DEFINE Reached == {m \in Nat : m <= k => g[m] \in Seq(S)}
<1>2. 0 \in Reached
  <2>1. g[0] = <<>>
    BY <1>1 DEF Reads
  <2>2. <<>> \in Seq(S)
    OBVIOUS
  <2>3. g[0] \in Seq(S)
    BY <2>1, <2>2
  <2> QED
    BY <2>3
<1>3. ASSUME NEW m \in Nat, m \in Reached PROVE m + 1 \in Reached
  <2> SUFFICES ASSUME m + 1 <= k PROVE g[m + 1] \in Seq(S)
    OBVIOUS
  <2>1. m + 1 \in 1..k /\ (m + 1) - 1 = m
    OBVIOUS
  <2>2. g[m + 1] = With(g[m], pages[m + 1])
    BY <1>1, <2>1 DEF Reads
  <2>3. g[m] \in Seq(S) /\ pages[m + 1].results \in Seq(S)
    BY <1>3, <2>1
  <2> QED
    BY <2>2, <2>3 DEF With
<1>4. \A m \in Nat : m \in Reached
  <2> HIDE DEF Reached
  <2> QED
    BY <1>2, <1>3, SetInduction
<1> QED
  BY <1>1, <1>4

\* What a search that does not fail has read, and what it says there is.
LEMMA FetchedIsRead ==
    ASSUME NEW a \in FetchedSearches
    PROVE  LET got == FetchGbifOccurrences(a.pages)
           IN  /\ got.records \in Seq(Occurrences) /\ Len(got.records) <= a.matches
               /\ a.pages[LastPage(a.pages)].count # Absent => got.total = a.matches
<1>1. PICK pages : pages = a.pages
  OBVIOUS
<1>2. PICK n : n = Len(pages)
  OBVIOUS
<1>3. /\ a \in SearchAnswers
      /\ a.matches \in Nat
      /\ pages \in Seq([count : {a.matches, Absent}, results : Seq(Occurrences)] \cup {Absent})
      /\ \E k \in DOMAIN pages : pages[k] = Absent \/ Stops(pages, k)
      /\ \A k \in DOMAIN pages : (\A j \in 1..k : pages[j] # Absent) => Len(Upto(pages, k)) <= a.matches
  BY <1>1, SearchesAssumption DEF FetchedSearches
<1>4. DOMAIN pages = 1..n /\ n \in Nat
  BY <1>2, <1>3
<1>5. pages[1] # Absent
  BY <1>1 DEF FetchedSearches, FetchGbifOccurrences
<1> DEFINE Ends == {k \in 1..n : pages[k] = Absent \/ Stops(pages, k)}
           Lasts(k) == /\ \A j \in 1..k : pages[j] # Absent
                       /\ \A j \in 1..(k - 1) : ~Stops(pages, j)
                       /\ Stops(pages, k) \/ pages[k + 1] = Absent
<1>6. PICK e \in Ends : \A k \in Ends : e <= k
  <2>1. Ends \subseteq Nat /\ Ends # {}
    BY <1>3, <1>4
  <2> HIDE DEF Ends
  <2> QED
    BY <2>1, LeastNumber
<1>7. \A j \in 1..(e - 1) : pages[j] # Absent /\ ~Stops(pages, j)
  BY <1>4, <1>6
<1>8. \E k \in DOMAIN pages : Lasts(k)
  <2>1. CASE pages[e] = Absent
    <3>1. e - 1 \in DOMAIN pages /\ (e - 1) + 1 = e
      BY <1>4, <1>5, <1>6, <2>1
    <3>2. \A j \in 1..(e - 1) : pages[j] # Absent
      BY <1>7
    <3>3. \A j \in 1..((e - 1) - 1) : ~Stops(pages, j)
      BY <1>4, <1>6, <1>7
    <3> QED
      BY <2>1, <3>1, <3>2, <3>3
  <2>2. CASE pages[e] # Absent
    <3>1. e \in DOMAIN pages /\ Stops(pages, e)
      BY <1>4, <1>6, <2>2
    <3>2. \A j \in 1..e : pages[j] # Absent
      BY <1>4, <1>6, <1>7, <2>2
    <3> QED
      BY <1>7, <3>1, <3>2
  <2> QED
    BY <2>1, <2>2
<1>9. PICK last : last = LastPage(pages) /\ last = CHOOSE k \in DOMAIN pages : Lasts(k)
  BY DEF LastPage
<1>10. last \in DOMAIN pages /\ \A j \in 1..last : pages[j] # Absent
  <2>1. last \in DOMAIN pages /\ Lasts(last)
    <3> HIDE DEF Lasts
    <3> QED
      BY <1>8, <1>9
  <2> QED
    BY <2>1
<1>11. PICK records : records = Upto(pages, last)
  OBVIOUS
<1>12. FetchGbifOccurrences(pages) = [records |-> records, total |-> Matches(pages[last])]
  BY <1>5, <1>9, <1>11 DEF FetchGbifOccurrences
<1>13. \A j \in 1..last : pages[j].count \in {a.matches, Absent} /\ pages[j].results \in Seq(Occurrences)
  <2>1. ASSUME NEW j \in 1..last PROVE pages[j] \in [count : {a.matches, Absent}, results : Seq(Occurrences)]
    <3>1. j \in 1..n
      BY <1>4, <1>10
    <3>2. pages[j] \in [count : {a.matches, Absent}, results : Seq(Occurrences)] \cup {Absent}
      BY <1>3, <1>2, <3>1
    <3> QED
      BY <1>10, <3>2
  <2> QED
    BY <2>1
<1>14. last \in Nat /\ last \in 1..last
  BY <1>4, <1>10
<1>15. records \in Seq(Occurrences)
  BY <1>11, <1>13, <1>14, UptoIsTyped
<1>16. Len(records) <= a.matches
  BY <1>3, <1>10, <1>11
<1>17. pages[last].count # Absent => Matches(pages[last]) = a.matches
  BY <1>13, <1>14 DEF Matches
<1> QED
  BY <1>1, <1>9, <1>12, <1>15, <1>16, <1>17

\* The groups of a list's records, and the keys they are found by.
GroupsOf(good) == {Sighting(GroupId(r), good) : r \in ToSet(good)}
KeysOf(good) == [i \in DOMAIN good |-> GroupId(good[i])]

\* A group is found by its key and counts the records that have it.
LEMMA SightingCounts ==
    ASSUME NEW S, NEW good \in Seq(S), NEW id
    PROVE  /\ Sighting(id, good).id = id
           /\ Sighting(id, good).count = Cardinality(PlacesOf(KeysOf(good), id))
<1>1. PICK T : T = {r \in ToSet(good) : GroupId(r) = id}
  OBVIOUS
<1>2. Sighting(id, good).id = id /\ Sighting(id, good).count = Len(Kept(good, T))
  BY <1>1 DEF Sighting
<1>3. DOMAIN good = 1..Len(good)
  OBVIOUS
<1>4. {i \in 1..Len(good) : good[i] \in T} = PlacesOf(KeysOf(good), id)
  <2>1. \A i \in 1..Len(good) : good[i] \in T <=> GroupId(good[i]) = id
    BY <1>1, <1>3 DEF ToSet
  <2>2. DOMAIN KeysOf(good) = 1..Len(good) /\ \A i \in 1..Len(good) : KeysOf(good)[i] = GroupId(good[i])
    BY <1>3 DEF KeysOf
  <2> QED
    BY <2>1, <2>2 DEF PlacesOf
<1>5. Len(Kept(good, T)) = Cardinality({i \in 1..Len(good) : good[i] \in T})
  BY KeptCount
<1> QED
  BY <1>2, <1>4, <1>5

\* The groups come to all the records.
LEMMA GroupsCountAll ==
    ASSUME NEW S, NEW good \in Seq(S)
    PROVE  Cardinality(UNION {{s.id} \X (1..s.count) : s \in GroupsOf(good)}) = Len(good)
<1>1. PICK key : key = KeysOf(good)
  OBVIOUS
<1>2. DOMAIN good = 1..Len(good) /\ Len(good) \in Nat
  OBVIOUS
<1>3. DOMAIN key = 1..Len(good) /\ \A i \in 1..Len(good) : key[i] = GroupId(good[i])
  BY <1>1, <1>2 DEF KeysOf
<1>4. Cardinality(Tallied(key)) = Len(good)
  BY <1>2, <1>3, TallyIsComplete
<1>5. \A id : Sighting(id, good).id = id /\ Sighting(id, good).count = Cardinality(PlacesOf(key, id))
  BY <1>1, SightingCounts
<1>6. ASSUME NEW r \in ToSet(good) PROVE GroupId(r) \in Range(key)
  BY <1>2, <1>3 DEF ToSet, Range
<1>7. ASSUME NEW id \in Range(key) PROVE Sighting(id, good) \in GroupsOf(good)
  <2>1. PICK i \in 1..Len(good) : id = GroupId(good[i])
    BY <1>3 DEF Range
  <2>2. good[i] \in ToSet(good)
    BY <1>2 DEF ToSet
  <2> QED
    BY <2>1, <2>2 DEF GroupsOf
<1>8. UNION {{s.id} \X (1..s.count) : s \in GroupsOf(good)} \subseteq Tallied(key)
  <2> SUFFICES ASSUME NEW s \in GroupsOf(good) PROVE ({s.id} \X (1..s.count)) \subseteq Tallied(key)
    OBVIOUS
  <2>1. PICK r \in ToSet(good) : s = Sighting(GroupId(r), good)
    BY DEF GroupsOf
  <2>2. PICK id : id = GroupId(r)
    OBVIOUS
  <2>3. id \in Range(key) /\ s.id = id /\ s.count = Cardinality(PlacesOf(key, id))
    BY <1>5, <1>6, <2>1, <2>2
  <2> QED
    BY <2>3 DEF Tallied
<1>9. Tallied(key) \subseteq UNION {{s.id} \X (1..s.count) : s \in GroupsOf(good)}
  <2> SUFFICES ASSUME NEW id \in Range(key)
               PROVE  \E s \in GroupsOf(good) :
                        {id} \X (1..Cardinality(PlacesOf(key, id))) = {s.id} \X (1..s.count)
    BY DEF Tallied
  <2>1. PICK s : s = Sighting(id, good)
    OBVIOUS
  <2>2. s \in GroupsOf(good) /\ s.id = id /\ s.count = Cardinality(PlacesOf(key, id))
    BY <1>5, <1>7, <2>1
  <2> QED
    BY <2>2
<1> QED
  BY <1>4, <1>8, <1>9

\* There are no more groups than records.
LEMMA GroupsAreFinite ==
    ASSUME NEW S, NEW good \in Seq(S)
    PROVE  IsFiniteSet(GroupsOf(good))
<1>1. PICK n \in Nat : n = Len(good) /\ DOMAIN good = 1..n
  OBVIOUS
<1>2. PICK f : f = [i \in 1..n |-> Sighting(GroupId(good[i]), good)]
  OBVIOUS
<1>3. IsFiniteSet(1..n)
  BY FS_Interval
<1>4. GroupsOf(good) = {f[i] : i \in 1..n}
  <2>1. ASSUME NEW s \in GroupsOf(good) PROVE \E i \in 1..n : s = f[i]
    <3>1. PICK r \in ToSet(good) : s = Sighting(GroupId(r), good)
      BY DEF GroupsOf
    <3>2. PICK i \in 1..n : r = good[i]
      BY <1>1 DEF ToSet
    <3> QED
      BY <1>2, <3>1, <3>2
  <2>2. ASSUME NEW i \in 1..n PROVE f[i] \in GroupsOf(good)
    <3>1. good[i] \in ToSet(good)
      BY <1>1 DEF ToSet
    <3> QED
      BY <1>2, <3>1 DEF GroupsOf
  <2> QED
    BY <2>1, <2>2
<1>5. f \in Surjection(1..n, GroupsOf(good))
  BY <1>2, <1>4 DEF Surjection
<1> QED
  BY <1>3, <1>5, FS_Surjection

\* The newest of a group's records is there, and has a date.
LEMMA SightingIsDated ==
    ASSUME NEW S, NEW good \in Seq(S), \A r \in ToSet(good) : r.date \in Int, NEW s \in GroupsOf(good)
    PROVE  s.observedAt \in Int
<1>1. PICK r \in ToSet(good) : s = Sighting(GroupId(r), good)
  BY DEF GroupsOf
<1>2. PICK T : T = {q \in ToSet(good) : GroupId(q) = GroupId(r)}
  OBVIOUS
<1>3. PICK of : of = Kept(good, T)
  OBVIOUS
<1>4. of \in Seq(S) /\ of \in Seq(T) /\ Range(of) = Range(good) \cap T
  BY <1>3, KeptIsFiltered
<1>5. PICK m \in Nat : m = Len(of) /\ DOMAIN of = 1..m
  BY <1>4
<1>6. m # 0
  <2>1. r \in Range(good) /\ r \in T
    BY <1>2 DEF ToSet, Range
  <2>2. PICK i \in DOMAIN of : of[i] = r
    BY <1>4, <2>1 DEF Range
  <2> QED
    BY <1>5, <2>2
<1>7. PICK f : f = [i \in 1..m |-> of[i].date]
  OBVIOUS
<1>8. \A i \in 1..m : of[i].date \in Int
  <2>1. \A i \in 1..m : of[i] \in T
    BY <1>4, <1>5
  <2> QED
    BY <1>2, <2>1
<1>9. f \in [1..m -> Int]
  BY <1>7, <1>8
<1>10. \E i \in 1..m : \A j \in 1..m : f[j] < f[i] \/ (f[j] = f[i] /\ i <= j)
  <2>1. PICK k \in Nat : m = k + 1
    BY <1>6
  <2>2. f \in [1..(k + 1) -> Int]
    BY <1>9, <2>1
  <2>3. \E i \in 1..(k + 1) : \A j \in 1..(k + 1) : f[j] < f[i] \/ (f[j] = f[i] /\ i <= j)
    BY <2>2, GreatestNumber
  <2> QED
    BY <2>1, <2>3
<1>11. \E i \in DOMAIN of : \A j \in DOMAIN of : of[j].date < of[i].date \/ (of[j].date = of[i].date /\ i <= j)
  BY <1>5, <1>7, <1>10
<1>12. NewestOf(of, DOMAIN of) \in DOMAIN of
  BY <1>11 DEF NewestOf
<1>13. s.observedAt = of[NewestOf(of, DOMAIN of)].date
  BY <1>1, <1>2, <1>3 DEF Sighting
<1> QED
  BY <1>5, <1>8, <1>12, <1>13

\* While there is room for all the groups none is cut, as no group is before itself.
LEMMA NoneIsCut ==
    ASSUME NEW groups, IsFiniteSet(groups), NEW B, Cardinality(groups) <= SightingsCap,
           \A s \in groups : <<s, s>> \notin B
    PROVE  \A s \in groups : Cardinality({t \in groups : <<t, s>> \in B}) < SightingsCap
<1> SUFFICES ASSUME NEW s \in groups PROVE Cardinality({t \in groups : <<t, s>> \in B}) < SightingsCap
  OBVIOUS
<1>1. PICK earlier : earlier = {t \in groups : <<t, s>> \in B}
  OBVIOUS
<1>2. earlier \subseteq groups /\ earlier # groups
  BY <1>1
<1>3. IsFiniteSet(earlier) /\ Cardinality(earlier) <= Cardinality(groups) /\ Cardinality(groups) # Cardinality(earlier)
  BY <1>2, FS_Subset
<1>4. Cardinality(earlier) \in Nat /\ Cardinality(groups) \in Nat
  BY <1>3, FS_CardinalityType
<1>5. SightingsCap \in Nat
  BY LayersAssumption
<1> QED
  BY <1>1, <1>3, <1>4, <1>5

\* An answer that is not said to be cut short is of every record there is.
LEMMA ToldIsWhole ==
    ASSUME NEW records \in Seq(Occurrences), NEW total \in Nat, Len(records) <= total,
           ~MapOccurrences(records, total).truncated
    PROVE  LET body == MapOccurrences(records, total)
           IN  /\ Len(records) = total
               /\ Cardinality(UNION {{s.id} \X (1..s.count) : s \in body.sightings \cup body.refused}) + body.dropped
                      = total
<1> DEFINE found(good, id) == CHOOSE i \in DOMAIN good : GroupId(good[i]) = id /\ \A j \in 1..(i - 1) : GroupId(good[j]) # id
           before(good, s, t) == \/ s.observedAt > t.observedAt
                                 \/ (s.observedAt = t.observedAt /\ found(good, s.id) < found(good, t.id))
           Taken(good) == {s \in GroupsOf(good) : IsSighting(s)}
           Cut(good) == {s \in Taken(good) : Cardinality({t \in Taken(good) : before(good, t, s)}) < SightingsCap}
<1>1. PICK N : N = {r \in ToSet(records) : Normalized(r)}
  OBVIOUS
<1>2. PICK good : good = Kept(records, N)
  OBVIOUS
<1>3. MapOccurrences(records, total)
        = [sightings |-> Cut(good), truncated |-> Truncated(total, Len(records), Cardinality(Taken(good))),
           refused |-> GroupsOf(good) \ Taken(good), dropped |-> Len(records) - Len(good)]
  BY <1>1, <1>2 DEF MapOccurrences, GroupsOf
<1> HIDE DEF Cut
<1>4. good \in Seq(Occurrences) /\ good \in Seq(N)
  BY <1>2, KeptIsFiltered
<1>5. PICK groups : groups = Taken(good) /\ groups \subseteq GroupsOf(good)
  OBVIOUS
<1> HIDE DEF Taken
<1>6. IsFiniteSet(groups) /\ Cardinality(groups) \in Nat
  BY <1>4, <1>5, GroupsAreFinite, FS_Subset, FS_CardinalityType
<1>7. Len(records) \in Nat /\ Len(good) \in Nat /\ SightingsCap \in Nat
  <2>1. Len(records) \in Nat /\ Len(good) \in Nat
    BY <1>4
  <2>2. SightingsCap \in Nat
    BY LayersAssumption
  <2> QED
    BY <2>1, <2>2
<1>8. ~(total > Len(records)) /\ ~(Cardinality(groups) > SightingsCap)
  <2>1. ~Truncated(total, Len(records), Cardinality(groups))
    BY <1>3, <1>5
  <2> QED
    BY <2>1 DEF Truncated
<1>9. Len(records) = total
  BY <1>7, <1>8
<1>10. ASSUME NEW s \in groups PROVE ~before(good, s, s)
  <2>1. \A r \in ToSet(good) : r.date \in Int
    <3>1. ASSUME NEW r \in ToSet(good) PROVE r \in N /\ r \in Occurrences
      BY <1>4 DEF ToSet
    <3> QED
      BY <1>1, <3>1, SearchesAssumption DEF Normalized
  <2>2. s.observedAt \in Int
    BY <1>4, <1>5, <2>1, SightingIsDated
  <2>3. PICK r \in ToSet(good) : s = Sighting(GroupId(r), good)
    BY <1>5 DEF GroupsOf
  <2>4. PICK id : id = GroupId(r) /\ s.id = id
    BY <1>4, <2>3, SightingCounts
  <2>5. PICK P : P = {i \in DOMAIN good : GroupId(good[i]) = id}
    OBVIOUS
  <2>6. P # {} /\ P \subseteq Nat /\ DOMAIN good = 1..Len(good)
    BY <1>4, <2>4, <2>5 DEF ToSet
  <2>7. PICK first \in P : \A j \in P : first <= j
    BY <2>6, LeastNumber
  <2>8. \A j \in 1..(first - 1) : GroupId(good[j]) # id
    <3> SUFFICES ASSUME NEW j \in 1..(first - 1) PROVE GroupId(good[j]) # id
      OBVIOUS
    <3>1. first \in 1..Len(good)
      BY <2>5, <2>6, <2>7
    <3>2. j \in DOMAIN good /\ ~(first <= j)
      BY <1>7, <2>6, <3>1
    <3> QED
      BY <2>5, <2>7, <3>2
  <2>9. \E i \in DOMAIN good : GroupId(good[i]) = id /\ \A j \in 1..(i - 1) : GroupId(good[j]) # id
    BY <2>5, <2>7, <2>8
  <2>10. found(good, id) \in DOMAIN good
    BY <2>9
  <2> HIDE DEF found
  <2>11. found(good, id) \in Nat
    BY <2>6, <2>10
  <2>12. ~(s.observedAt > s.observedAt)
    BY <2>2
  <2>13. ~(found(good, s.id) < found(good, s.id))
    BY <2>4, <2>11
  <2> QED
    BY <2>12, <2>13
<1>11. Cut(good) = groups
  <2>1. PICK B : B = {p \in groups \X groups : before(good, p[1], p[2])}
    OBVIOUS
  <2> HIDE DEF before
  <2>2. \A s, t \in groups : <<t, s>> \in B <=> before(good, t, s)
    BY <2>1
  <2>3. \A s \in groups : <<s, s>> \notin B
    BY <1>10, <2>2
  <2>4. \A s \in groups : Cardinality({t \in groups : <<t, s>> \in B}) < SightingsCap
    <3>1. Cardinality(groups) <= SightingsCap
      BY <1>6, <1>7, <1>8
    <3> QED
      BY Zenon, <1>6, <2>3, <3>1, NoneIsCut
  <2>5. \A s \in groups : {t \in groups : <<t, s>> \in B} = {t \in groups : before(good, t, s)}
    BY <2>2
  <2>6. ASSUME NEW s \in groups PROVE Cardinality({t \in groups : before(good, t, s)}) < SightingsCap
    <3>1. PICK earlier : earlier = {t \in groups : <<t, s>> \in B}
      OBVIOUS
    <3>2. earlier = {t \in groups : before(good, t, s)}
      BY <2>5, <3>1
    <3>3. Cardinality(earlier) < SightingsCap
      BY <2>4, <3>1
    <3> QED
      BY <3>2, <3>3
  <2> QED
    BY <1>5, <2>6 DEF Cut
<1>12. PICK body : body = MapOccurrences(records, total)
  OBVIOUS
<1>13. body.sightings \cup body.refused = GroupsOf(good) /\ body.dropped = Len(records) - Len(good)
  <2>1. body.sightings = groups /\ body.refused = GroupsOf(good) \ groups /\ body.dropped = Len(records) - Len(good)
    BY <1>3, <1>5, <1>11, <1>12
  <2> QED
    BY <1>5, <2>1
<1>14. PICK whole : whole = body.sightings \cup body.refused /\ whole = GroupsOf(good)
  BY <1>13
<1>15. Cardinality(UNION {{s.id} \X (1..s.count) : s \in whole}) = Len(good)
  BY <1>4, <1>14, GroupsCountAll
<1>16. Cardinality(UNION {{s.id} \X (1..s.count) : s \in whole}) + body.dropped = total
  BY <1>7, <1>9, <1>13, <1>15
<1> QED
  BY <1>9, <1>12, <1>14, <1>16

-------------------------------------------------------------------------------
(* Whatever was answered was made of what upstream once sent.              *)

\* What may be held of a layer, and what is made of it for an answer, the minutes a browser
\* asks of the buses apart.
Sent(layer) ==
    CASE layer = "situations" -> SituationAnswers
      [] layer = "cameras"    -> {[cameras |-> a[1], weather |-> a[2]] : a \in CameraAnswers}
      [] layer = "species"    -> FetchedSearches
      [] OTHER                -> {FetchVehicles(r) : r \in VehicleReplies} \ {Absent}

Made(layer, raw, at) ==
    CASE layer = "situations" -> MapSituations(raw, at)
      [] layer = "cameras"    -> FetchRoadCameras(raw.cameras, raw.weather)
      [] layer = "species"    -> FetchSpecies(raw)

\* The inductive invariant of all four layers.
MadeInv ==
    /\ DOMAIN held = Keys
    /\ \A k \in Keys : held[k] # Absent => held[k].value \in Sent(k[1])
    /\ answered # Refused =>
           /\ answered.raw \in Sent(answered.layer)
           /\ answered.layer # "transit" => answered.body = Made(answered.layer, answered.raw, answered.at)

LEMMA MadeInitInv == LayersInit => MadeInv
BY DEF LayersInit, MadeInv

\* A load and its answer, of any layer.
LEMMA LoadIsMade ==
    ASSUME MadeInv, NEW key \in Keys, NEW layer, layer = key[1], NEW body,
           NEW load \in LoadWithStaleFallback(held[key], LayerTtl, Sent(layer)),
           held' = [held EXCEPT ![key] = load.held], Reply(load, layer, body), clock' = clock,
           load.held # Absent /\ layer # "transit" => body = Made(layer, load.held.value, clock)
    PROVE  MadeInv'
<1>1. load.held # Absent => load.held.value \in Sent(layer)
  BY DEF LoadWithStaleFallback, MadeInv
<1>2. PICK entry : entry = load.held
  OBVIOUS
<1>3. held' = [held EXCEPT ![key] = entry] /\ DOMAIN held = Keys
  BY <1>2 DEF MadeInv
<1>4. DOMAIN held' = Keys /\ \A k \in Keys : held'[k] = IF k = key THEN entry ELSE held[k]
  BY <1>3
<1>5. Keys' = Keys
  BY DEF Keys
<1>6. ASSUME NEW k \in Keys, held'[k] # Absent PROVE held'[k].value \in Sent(k[1])
  BY <1>1, <1>2, <1>4, <1>6 DEF MadeInv
<1>7. ASSUME answered' # Refused
      PROVE  /\ answered'.raw \in Sent(answered'.layer)
             /\ answered'.layer # "transit" => answered'.body = Made(answered'.layer, answered'.raw, answered'.at)
  <2>1. entry # Absent
    BY <1>2, <1>7 DEF Reply
  <2>2. PICK raw : raw = entry.value
    OBVIOUS
  <2>3. answered' = [layer |-> layer, at |-> clock, stale |-> load.stale, raw |-> raw, body |-> body]
    BY <1>2, <2>1, <2>2 DEF Reply
  <2>4. answered'.layer = layer /\ answered'.at = clock /\ answered'.raw = raw /\ answered'.body = body
    BY <2>3
  <2>5. raw \in Sent(layer) /\ (layer # "transit" => body = Made(layer, raw, clock))
    BY <1>1, <1>2, <2>1, <2>2
  <2> QED
    BY <2>4, <2>5
<1>8. \A l : Sent(l)' = Sent(l)
  BY DEF Sent
<1>9. \A l, raw, at : Made(l, raw, at)' = Made(l, raw, at)
  BY DEF Made
<1> QED
  BY <1>4, <1>5, <1>6, <1>7 DEF MadeInv

LEMMA MadeStepInv ==
    MadeInv /\ [LayersNext({"situations", "cameras", "transit", "species"})]_layerVars => MadeInv'
<1> SUFFICES ASSUME MadeInv, [LayersNext({"situations", "cameras", "transit", "species"})]_layerVars
             PROVE  MadeInv'
  OBVIOUS
<1>1. CASE ServeSituations
  <2>1. PICK key : key = <<"situations", 0>>
    OBVIOUS
  <2>2. PICK load \in LoadWithStaleFallback(held[key], LayerTtl, SituationAnswers) :
            /\ held' = [held EXCEPT ![key] = load.held]
            /\ Reply(load, "situations", IF load.held = Absent THEN Absent
                                         ELSE MapSituations(load.held.value, MappedAt(load.held)))
    BY <1>1, <2>1 DEF ServeSituations
  <2>3. PICK body : body = IF load.held = Absent THEN Absent ELSE MapSituations(load.held.value, MappedAt(load.held))
    OBVIOUS
  <2>4. key \in Keys /\ key[1] = "situations" /\ clock' = clock
    BY <1>1, <2>1 DEF Keys, ServeSituations
  <2>5. Sent("situations") = SituationAnswers
    BY DEF Sent
  <2>6. load.held # Absent => body = Made("situations", load.held.value, clock)
    BY <2>3 DEF Made, MappedAt
  <2> QED
    BY <2>2, <2>3, <2>4, <2>5, <2>6, LoadIsMade
<1>2. CASE ServeCameras
  <2>1. PICK key : key = <<"cameras", 0>>
    OBVIOUS
  <2>2. PICK load \in LoadWithStaleFallback(held[key], LayerTtl, Sent("cameras")) :
            /\ held' = [held EXCEPT ![key] = load.held]
            /\ Reply(load, "cameras", IF load.held = Absent THEN Absent
                                      ELSE FetchRoadCameras(load.held.value.cameras, load.held.value.weather))
    BY <1>2, <2>1 DEF ServeCameras, Sent
  <2>3. PICK body : body = IF load.held = Absent THEN Absent
                           ELSE FetchRoadCameras(load.held.value.cameras, load.held.value.weather)
    OBVIOUS
  <2>4. key \in Keys /\ key[1] = "cameras" /\ clock' = clock
    BY <1>2, <2>1 DEF Keys, ServeCameras
  <2>5. load.held # Absent => body = Made("cameras", load.held.value, clock)
    BY <2>3 DEF Made
  <2> QED
    BY <2>2, <2>3, <2>4, <2>5, LoadIsMade
<1>3. ASSUME NEW minute \in MinutesAsked, ServeVehicles(minute) PROVE MadeInv'
  <2>1. PICK key : key = <<"transit", 0>>
    OBVIOUS
  <2>2. PICK load, body : /\ load \in LoadWithStaleFallback(held[key], LayerTtl, Sent("transit"))
                          /\ held' = [held EXCEPT ![key] = load.held]
                          /\ Reply(load, "transit", body)
    BY <1>3, <2>1 DEF ServeVehicles, Sent
  <2>3. key \in Keys /\ key[1] = "transit" /\ clock' = clock
    BY <1>3, <2>1 DEF Keys, ServeVehicles
  <2> QED
    BY <2>2, <2>3, LoadIsMade
<1>4. ASSUME NEW day \in DaysAsked, ServeSpecies(day) PROVE MadeInv'
  <2>1. PICK key : key = <<"species", ParseDaysParam(day)>>
    OBVIOUS
  <2>2. Sent("species") = FetchedSearches
    BY DEF Sent
  <2>3. PICK load \in LoadWithStaleFallback(held[key], LayerTtl, Sent("species")) :
            /\ held' = [held EXCEPT ![key] = load.held]
            /\ Reply(load, "species", IF load.held = Absent THEN Absent ELSE FetchSpecies(load.held.value))
    BY <1>4, <2>1, <2>2 DEF ServeSpecies
  <2>4. PICK body : body = IF load.held = Absent THEN Absent ELSE FetchSpecies(load.held.value)
    OBVIOUS
  <2>5. key \in Keys /\ key[1] = "species" /\ clock' = clock
    BY <1>4, <2>1 DEF Keys, ServeSpecies
  <2>6. load.held # Absent => body = Made("species", load.held.value, clock)
    BY <2>4 DEF Made
  <2> QED
    BY <2>3, <2>4, <2>5, <2>6, LoadIsMade
<1>5. CASE LayersPass \/ UNCHANGED layerVars
  <2>1. held' = held /\ answered' = answered
    BY <1>5 DEF LayersPass, layerVars
  <2> QED
    BY <2>1 DEF MadeInv, Keys, Sent, Made
<1> QED
  BY <1>1, <1>2, <1>3, <1>4, <1>5 DEF LayersNext

\* The browser may say that these are all the sightings there are, unless it is told that they
\* are not, whichever page of GBIF's failed and whichever cap was met, so long as the last page
\* read has a number of matches that can be read; and apart from those cut off by the cap no
\* record is lost in the grouping, those of the groups that the contract refuses included
\* (gbif.ts, occurrences.ts, routes/species.ts).
THEOREM CutsAreTold == LayersSpec => []TruncationIsTold
<1>1. MadeInv => TruncationIsTold
  <2> SUFFICES ASSUME MadeInv, Is("species"), ~answered.body.truncated,
                      answered.raw.pages[LastPage(answered.raw.pages)].count # Absent
               PROVE  LET groups == answered.body.sightings \cup answered.body.refused IN
                      /\ Len(FetchGbifOccurrences(answered.raw.pages).records) = answered.raw.matches
                      /\ Cardinality(UNION {{s.id} \X (1..s.count) : s \in groups}) + answered.body.dropped
                             = answered.raw.matches
    BY DEF TruncationIsTold
  <2>1. answered # Refused /\ answered.layer = "species"
    BY DEF Is
  <2>2. PICK raw, body : raw = answered.raw /\ body = answered.body
    OBVIOUS
  <2>3. raw \in FetchedSearches /\ body = FetchSpecies(raw)
    BY <2>1, <2>2 DEF MadeInv, Sent, Made
  <2>4. PICK got : got = FetchGbifOccurrences(raw.pages)
    OBVIOUS
  <2>5. PICK records, total : records = got.records /\ total = got.total
    OBVIOUS
  <2>6. records \in Seq(Occurrences) /\ total = raw.matches /\ Len(records) <= raw.matches
    BY <2>2, <2>3, <2>4, <2>5, FetchedIsRead
  <2>7. raw.matches \in Nat
    BY <2>3, SearchesAssumption DEF FetchedSearches
  <2>8. body = MapOccurrences(records, total)
    BY <2>3, <2>4, <2>5 DEF FetchSpecies
  <2>9. PICK groups : groups = body.sightings \cup body.refused
    OBVIOUS
  <2>10. /\ Len(records) = total
         /\ Cardinality(UNION {{s.id} \X (1..s.count) : s \in groups}) + body.dropped = total
    BY <2>2, <2>6, <2>7, <2>8, <2>9, ToldIsWhole
  <2> QED
    BY <2>2, <2>4, <2>5, <2>6, <2>9, <2>10
<1> QED
  BY <1>1, MadeInitInv, MadeStepInv, PTL DEF LayersSpec

-------------------------------------------------------------------------------
(* The order of upstream's records.                                        *)

Shuffled(s, p) == [i \in DOMAIN s |-> s[p[i]]]

\* A list in another order holds the same, as often.
LEMMA ShuffledHoldsTheSame ==
    ASSUME NEW S, NEW s \in Seq(S), NEW p \in Bijection(DOMAIN s, DOMAIN s)
    PROVE  /\ Shuffled(s, p) \in Seq(S) /\ Len(Shuffled(s, p)) = Len(s)
           /\ ToSet(Shuffled(s, p)) = ToSet(s)
           /\ \A T : Len(Kept(Shuffled(s, p), T)) = Len(Kept(s, T))
<1>1. PICK n \in Nat : n = Len(s) /\ DOMAIN s = 1..n
  OBVIOUS
<1>2. p \in [1..n -> 1..n] /\ \A i \in 1..n : \E j \in 1..n : p[j] = i
  BY <1>1 DEF Bijection, Surjection
<1>3. PICK t : t = [i \in 1..n |-> s[p[i]]]
  OBVIOUS
<1>4. t = Shuffled(s, p)
  BY <1>1, <1>3 DEF Shuffled
<1>5. \A i \in 1..n : p[i] \in 1..n /\ t[i] = s[p[i]] /\ s[i] \in S
  BY <1>1, <1>2, <1>3
<1>6. t \in Seq(S) /\ Len(t) = n /\ DOMAIN t = 1..n
  BY <1>1, <1>3, <1>5
<1>7. ToSet(t) = ToSet(s)
  BY <1>1, <1>2, <1>5, <1>6 DEF ToSet
<1>8. \A i, j \in 1..n : p[i] = p[j] => i = j
  BY <1>1 DEF Bijection, Injection, IsInjective
<1>9. ASSUME NEW T PROVE Len(Kept(t, T)) = Len(Kept(s, T))
  <2>1. PICK P, Q : P = {i \in 1..n : t[i] \in T} /\ Q = {i \in 1..n : s[i] \in T}
    OBVIOUS
  <2>2. Len(Kept(t, T)) = Cardinality(P) /\ Len(Kept(s, T)) = Cardinality(Q)
    BY <1>1, <1>6, <2>1, KeptCount
  <2>3. PICK f : f = [i \in P |-> p[i]]
    OBVIOUS
  <2>4. f \in [P -> Q] /\ \A i \in Q : \E j \in P : f[j] = i
    BY <1>2, <1>5, <2>1, <2>3
  <2>5. \A i, j \in P : f[i] = f[j] => i = j
    BY <1>8, <2>1, <2>3
  <2>6. f \in Injection(P, Q) /\ f \in Surjection(P, Q)
    BY <2>4, <2>5 DEF Injection, IsInjective, Surjection
  <2>7. IsFiniteSet(Q)
    <3>1. IsFiniteSet(1..n)
      BY FS_Interval
    <3>2. Q \in SUBSET (1..n)
      BY <2>1
    <3> QED
      BY <3>1, <3>2, FS_Subset
  <2>8. Cardinality(P) = Cardinality(Q)
    BY <2>6, <2>7, FS_Injection
  <2> QED
    BY <2>2, <2>8
<1> QED
  BY <1>1, <1>4, <1>6, <1>7, <1>9

\* What comes first in lists that are joined.
LEMMA FirstOfJoined ==
    ASSUME NEW S, NEW a \in Seq(S), NEW b \in Seq(S)
    PROVE  /\ a \o b \in Seq(S)
           /\ a # <<>> => Head(a \o b) = a[1]
           /\ a = <<>> => a \o b = b
<1>1. PICK c : c = a \o b
  OBVIOUS
<1>2. c \in Seq(S) /\ Len(c) = Len(a) + Len(b) /\ \A i \in 1..Len(a) : c[i] = a[i]
  BY <1>1, ConcatProperties
<1>3. ASSUME a # <<>> PROVE Head(c) = a[1]
  <2>1. Len(a) \in Nat \ {0} /\ Len(b) \in Nat
    BY <1>3
  <2>2. Len(c) \in Nat \ {0}
    BY <1>2, <2>1
  <2>3. c # <<>>
    BY <1>2, <2>2
  <2>4. Head(c) = c[1]
    BY <1>2, <2>3
  <2> QED
    BY <1>2, <2>1, <2>4
<1>4. ASSUME a = <<>> PROVE a \o b = b
  BY <1>4, ConcatEmptySeq
<1> QED
  BY <1>1, <1>2, <1>3, <1>4

\* The record that speaks for a group is one of those that may.
LEMMA MainSpeaks ==
    ASSUME NEW S, NEW records \in Seq(S), records # <<>>
    PROVE  MainRecordOf(records) \in Speakers(ToSet(records))
<1>1. PICK all, mains, causes : /\ all = ToSet(records)
                                /\ mains = {r \in ToSet(records) : r.main}
                                /\ causes = {r \in ToSet(records) : r.type \notin ConsequenceTypes}
  OBVIOUS
<1>2. Speakers(all) = IF mains # {} THEN mains ELSE IF causes # {} THEN causes ELSE all
  BY <1>1 DEF Speakers
<1>3. \A i \in 1..Len(records) : records[i] \in all
  BY <1>1 DEF ToSet
<1>4. PICK first, second : first = Kept(records, mains) /\ second = Kept(records, causes)
  OBVIOUS
<1>5. MainRecordOf(records) = Head(first \o second \o records)
  BY <1>1, <1>4 DEF MainRecordOf
<1>6. first \in Seq(S) /\ second \in Seq(S) /\ first \in Seq(mains) /\ second \in Seq(causes)
  BY <1>4, KeptIsFiltered
<1>7. PICK both : both = first \o second
  OBVIOUS
<1>8. both \in Seq(S)
  BY <1>6, <1>7, FirstOfJoined
<1>9. CASE mains # {}
  <2>1. PICK r \in mains : TRUE
    BY <1>9
  <2>2. PICK i \in 1..Len(records) : records[i] = r
    BY <1>1, <2>1 DEF ToSet
  <2>3. \E j \in 1..Len(first) : first[j] = records[i]
    BY <1>4, <2>1, <2>2, KeptKeeps
  <2>4. first # <<>> /\ first[1] \in mains
    BY <1>6, <2>3
  <2>5. Head(both) = first[1]
    BY <1>6, <1>7, <2>4, FirstOfJoined
  <2>6. both # <<>>
    <3>1. Len(both) = Len(first) + Len(second)
      BY <1>6, <1>7, ConcatProperties
    <3>2. Len(first) \in Nat \ {0} /\ Len(second) \in Nat
      BY <1>6, <2>4
    <3>3. Len(both) # 0
      BY <3>1, <3>2
    <3> QED
      BY <3>3
  <2>7. Head(both) = both[1]
    BY <1>8, <2>6
  <2>8. Head(both \o records) = both[1]
    BY <1>8, <2>6, FirstOfJoined
  <2> QED
    BY <1>1, <1>2, <1>5, <1>7, <1>9, <2>4, <2>5, <2>7, <2>8
<1>10. CASE mains = {}
  <2>1. first = <<>>
    BY <1>6, <1>10
  <2>2. both = second
    BY <1>6, <1>7, <2>1, FirstOfJoined
  <2>3. MainRecordOf(records) = Head(second \o records)
    BY <1>5, <1>7, <2>2
  <2>4. CASE causes # {}
    <3>1. PICK r \in causes : TRUE
      BY <2>4
    <3>2. PICK i \in 1..Len(records) : records[i] = r
      BY <1>1, <3>1 DEF ToSet
    <3>3. \E j \in 1..Len(second) : second[j] = records[i]
      BY <1>4, <3>1, <3>2, KeptKeeps
    <3>4. second # <<>> /\ second[1] \in causes
      BY <1>6, <3>3
    <3>5. Head(second \o records) = second[1]
      BY <1>6, <3>4, FirstOfJoined
    <3> QED
      BY <1>1, <1>2, <1>10, <2>3, <2>4, <3>4, <3>5
  <2>5. CASE causes = {}
    <3>1. second = <<>>
      BY <1>6, <2>5
    <3>2. second \o records = records
      BY <1>6, <3>1, FirstOfJoined
    <3>3. Head(records) = records[1] /\ 1 \in 1..Len(records)
      OBVIOUS
    <3> QED
      BY <1>1, <1>2, <1>3, <1>10, <2>3, <2>5, <3>2, <3>3
  <2> QED
    BY <2>4, <2>5
<1> QED
  BY <1>9, <1>10

\* What is served of a situation, its line and description apart, is the same.
Alike(s, t) ==
    /\ s.id = t.id /\ s.kind = t.kind /\ s.status = t.status /\ s.effects = t.effects
    /\ s.startsAt = t.startsAt /\ s.endsAt = t.endsAt /\ s.updatedAt = t.updatedAt /\ s.point = t.point

\* A group that one record speaks for says the same in any order.
LEMMA OneSpeaksAlike ==
    ASSUME NEW S, NEW a \in Seq(S), NEW b \in Seq(S), a # <<>>, ToSet(a) = ToSet(b),
           Cardinality(Speakers(ToSet(a))) = 1, IsFiniteSet(Speakers(ToSet(a))), NEW at
    PROVE  /\ Alike(Situation(a, at), Situation(b, at))
           /\ \E r \in ToSet(a) : Situation(a, at).id = r.id
<1>1. b # <<>>
  <2>1. a[1] \in ToSet(a)
    BY DEF ToSet
  <2> QED
    BY <2>1 DEF ToSet
<1>2. MainRecordOf(a) \in Speakers(ToSet(a)) /\ MainRecordOf(b) \in Speakers(ToSet(a))
  BY <1>1, MainSpeaks
<1>3. PICK main : Speakers(ToSet(a)) = {main}
  BY FS_Singleton
<1>4. MainRecordOf(a) = main /\ MainRecordOf(b) = main
  BY <1>2, <1>3
<1>5. main \in ToSet(a)
  BY <1>3 DEF Speakers
<1>6. UNION {a[i].effects : i \in DOMAIN a} = UNION {b[i].effects : i \in DOMAIN b}
  <2>1. UNION {a[i].effects : i \in DOMAIN a} = UNION {r.effects : r \in ToSet(a)}
    BY DEF ToSet
  <2>2. UNION {b[i].effects : i \in DOMAIN b} = UNION {r.effects : r \in ToSet(b)}
    BY DEF ToSet
  <2> QED
    BY <2>1, <2>2
<1>7. {a[i].updated : i \in DOMAIN a} = {b[i].updated : i \in DOMAIN b}
  <2>1. {a[i].updated : i \in DOMAIN a} = {r.updated : r \in ToSet(a)}
    BY DEF ToSet
  <2>2. {b[i].updated : i \in DOMAIN b} = {r.updated : r \in ToSet(b)}
    BY DEF ToSet
  <2> QED
    BY <2>1, <2>2
<1>8. PICK effects, latest : /\ effects = UNION {a[i].effects : i \in DOMAIN a}
                             /\ latest = Latest({a[i].updated : i \in DOMAIN a} \ {Absent}, main.start)
  OBVIOUS
<1>9. /\ Situation(a, at).id = main.id /\ Situation(a, at).kind = KindFor(main.type)
      /\ Situation(a, at).status = ClassifySituation(main, at) /\ Situation(a, at).effects = effects
      /\ Situation(a, at).startsAt = main.start /\ Situation(a, at).endsAt = main.end
      /\ Situation(a, at).updatedAt = latest /\ Situation(a, at).point = main.point
  BY <1>4, <1>8 DEF Situation
<1>10. /\ Situation(b, at).id = main.id /\ Situation(b, at).kind = KindFor(main.type)
       /\ Situation(b, at).status = ClassifySituation(main, at) /\ Situation(b, at).effects = effects
       /\ Situation(b, at).startsAt = main.start /\ Situation(b, at).endsAt = main.end
       /\ Situation(b, at).updatedAt = latest /\ Situation(b, at).point = main.point
  BY <1>4, <1>6, <1>7, <1>8 DEF Situation
<1> QED
  BY <1>5, <1>9, <1>10 DEF Alike

\* The records that can be read, those of one situation, and the situations that are due.
ReadableOf(features) == Kept(features, {r \in ToSet(features) : r.readable})
GroupOf(features, id) == Kept(ReadableOf(features), {r \in ToSet(ReadableOf(features)) : r.id = id})
AllAt(features, at) == {Situation(GroupOf(features, r.id), at) : r \in ToSet(ReadableOf(features))}
DueAt(features, at) ==
    {s \in AllAt(features, at) : s.status # "expired" /\ ~(s.status = "planned" /\ s.startsAt - at > Horizon)}

\* What can be read of a list, and a group's records, by what the list holds.
LEMMA ReadByContent ==
    ASSUME NEW S, NEW f \in Seq(S)
    PROVE  /\ ReadableOf(f) \in Seq(S) /\ ToSet(ReadableOf(f)) = {r \in ToSet(f) : r.readable}
           /\ \A id : /\ GroupOf(f, id) \in Seq(S)
                      /\ ToSet(GroupOf(f, id)) = {r \in ToSet(ReadableOf(f)) : r.id = id}
<1>1. \A s : ToSet(s) = Range(s)
  BY DEF ToSet, Range
<1>2. ReadableOf(f) \in Seq(S) /\ ToSet(ReadableOf(f)) = {r \in ToSet(f) : r.readable}
  <2>1. PICK R : R = {r \in ToSet(f) : r.readable}
    OBVIOUS
  <2>2. Kept(f, R) \in Seq(S) /\ Range(Kept(f, R)) = Range(f) \cap R
    BY KeptIsFiltered
  <2> QED
    BY <1>1, <2>1, <2>2 DEF ReadableOf
<1>3. ASSUME NEW id
      PROVE  GroupOf(f, id) \in Seq(S) /\ ToSet(GroupOf(f, id)) = {r \in ToSet(ReadableOf(f)) : r.id = id}
  <2>1. PICK g, R : g = ReadableOf(f) /\ R = {r \in ToSet(g) : r.id = id}
    OBVIOUS
  <2>2. Kept(g, R) \in Seq(S) /\ Range(Kept(g, R)) = Range(g) \cap R
    <3>1. g \in Seq(S)
      BY <1>2, <2>1
    <3> QED
      BY <3>1, KeptIsFiltered
  <2>3. GroupOf(f, id) = Kept(g, R)
    BY <2>1 DEF GroupOf
  <2>4. ToSet(GroupOf(f, id)) = ToSet(g) \cap R
    BY <1>1, <2>2, <2>3
  <2> QED
    BY <2>1, <2>2, <2>3, <2>4
<1> QED
  BY <1>2, <1>3

\* The situations that are due are there in any order, each found by the same record.
LEMMA DueAlike ==
    ASSUME NEW S, NEW f \in Seq(S), NEW g \in Seq(S), ToSet(f) = ToSet(g), OneSpeaks(f), IsFiniteSet(ToSet(f)),
           NEW at, NEW s \in DueAt(f, at)
    PROVE  \E t \in DueAt(g, at) : Alike(s, t)
<1>1. PICK readable : readable = {r \in ToSet(f) : r.readable}
  OBVIOUS
<1>2. ToSet(ReadableOf(f)) = readable /\ ToSet(ReadableOf(g)) = readable
  BY <1>1, ReadByContent
<1>3. PICK r \in readable : s = Situation(GroupOf(f, r.id), at)
  BY <1>2 DEF DueAt, AllAt
<1>4. PICK a, b : a = GroupOf(f, r.id) /\ b = GroupOf(g, r.id)
  OBVIOUS
<1>5. PICK group : group = {q \in readable : q.id = r.id}
  OBVIOUS
<1>6. a \in Seq(S) /\ b \in Seq(S) /\ ToSet(a) = group /\ ToSet(b) = group
  BY <1>2, <1>4, <1>5, ReadByContent
<1>7. Cardinality(Speakers(group)) = 1
  BY <1>1, <1>3, <1>5 DEF OneSpeaks
<1>8. IsFiniteSet(Speakers(group))
  <2>1. Speakers(group) \in SUBSET ToSet(f)
    BY <1>1, <1>5 DEF Speakers
  <2> QED
    BY <2>1, FS_Subset
<1>9. a # <<>>
  <2>1. r \in ToSet(a)
    BY <1>3, <1>5, <1>6
  <2> QED
    BY <2>1 DEF ToSet
<1>10. PICK t : t = Situation(b, at)
  OBVIOUS
<1>11. Alike(s, t)
  BY <1>3, <1>4, <1>6, <1>7, <1>8, <1>9, <1>10, OneSpeaksAlike
<1>12. t \in AllAt(g, at)
  BY <1>2, <1>3, <1>4, <1>10 DEF AllAt
<1>13. t \in DueAt(g, at)
  BY <1>11, <1>12 DEF DueAt, Alike
<1> QED
  BY <1>11, <1>13

\* Each situation has an id of its own, and there are finitely many.
LEMMA DueById ==
    ASSUME NEW S, NEW f \in Seq(S), OneSpeaks(f), IsFiniteSet(ToSet(f)), NEW at
    PROVE  /\ IsFiniteSet(DueAt(f, at))
           /\ \A s, t \in DueAt(f, at) : s.id = t.id => s = t
<1>1. PICK readable : readable = {r \in ToSet(f) : r.readable}
  OBVIOUS
<1>2. ToSet(ReadableOf(f)) = readable
  BY <1>1, ReadByContent
<1>3. ASSUME NEW r \in readable PROVE Situation(GroupOf(f, r.id), at).id = r.id
  <2>1. PICK a, group : a = GroupOf(f, r.id) /\ group = {q \in readable : q.id = r.id}
    OBVIOUS
  <2>2. a \in Seq(S) /\ ToSet(a) = group
    BY <1>2, <2>1, ReadByContent
  <2>3. Cardinality(Speakers(group)) = 1
    BY <1>1, <2>1 DEF OneSpeaks
  <2>4. IsFiniteSet(Speakers(group))
    <3>1. Speakers(group) \in SUBSET ToSet(f)
      BY <1>1, <2>1 DEF Speakers
    <3> QED
      BY <3>1, FS_Subset
  <2>5. a # <<>>
    <3>1. r \in ToSet(a)
      BY <2>1, <2>2
    <3> QED
      BY <3>1 DEF ToSet
  <2>6. PICK q \in group : Situation(a, at).id = q.id
    BY <2>2, <2>3, <2>4, <2>5, OneSpeaksAlike
  <2> QED
    BY <2>1, <2>6
<1>4. \A s \in DueAt(f, at) : \E r \in readable : s = Situation(GroupOf(f, r.id), at)
  BY <1>2 DEF DueAt, AllAt
<1>5. \A s, t \in DueAt(f, at) : s.id = t.id => s = t
  BY <1>3, <1>4
<1>6. PICK h : h = [r \in readable |-> Situation(GroupOf(f, r.id), at)]
  OBVIOUS
<1>7. h \in Surjection(readable, AllAt(f, at))
  <2>1. h \in [readable -> AllAt(f, at)] /\ \A s \in AllAt(f, at) : \E r \in readable : h[r] = s
    BY <1>2, <1>6 DEF AllAt
  <2> QED
    BY <2>1 DEF Surjection
<1>8. IsFiniteSet(readable)
  <2>1. readable \in SUBSET ToSet(f)
    BY <1>1
  <2> QED
    BY <2>1, FS_Subset
<1>9. IsFiniteSet(AllAt(f, at))
  BY <1>7, <1>8, FS_Surjection
<1>10. DueAt(f, at) \in SUBSET AllAt(f, at)
  BY DEF DueAt
<1>11. IsFiniteSet(DueAt(f, at))
  BY <1>9, <1>10, FS_Subset
<1> QED
  BY <1>5, <1>11

\* Sets whose elements answer each other, id by id, are as large.
LEMMA AlikeAreAsMany ==
    ASSUME NEW D, NEW E, IsFiniteSet(D), IsFiniteSet(E),
           \A s, t \in D : s.id = t.id => s = t, \A s, t \in E : s.id = t.id => s = t,
           \A s \in D : \E t \in E : s.id = t.id, \A t \in E : \E s \in D : s.id = t.id
    PROVE  Cardinality(D) = Cardinality(E)
<1>1. PICK f : f = [s \in D |-> CHOOSE t \in E : s.id = t.id]
  OBVIOUS
<1>2. \A s \in D : f[s] \in E /\ f[s].id = s.id
  BY <1>1
<1>3. DOMAIN f = D /\ f = [s \in D |-> f[s]]
  BY <1>1
<1>4. f \in [D -> E]
  BY <1>2, <1>3
<1>5. f \in Injection(D, E)
  BY <1>2, <1>4 DEF Injection, IsInjective
<1>6. \A t \in E : \E s \in D : f[s] = t
  BY <1>2
<1>7. f \in Surjection(D, E)
  BY <1>4, <1>6 DEF Surjection
<1> QED
  BY <1>5, <1>7, FS_Injection

\* What is served of the situations, in another order.
LEMMA SituationsInAnyOrder ==
    ASSUME NEW S, NEW f \in Seq(S), IsFiniteSet(ToSet(f)), OneSpeaks(f), NEW at,
           NEW p \in Bijection(DOMAIN f, DOMAIN f)
    PROVE  /\ \A s \in MapSituations(f, at).situations :
                  \E t \in MapSituations(Shuffled(f, p), at).situations : Alike(s, t)
           /\ \A t \in MapSituations(Shuffled(f, p), at).situations :
                  \E s \in MapSituations(f, at).situations : Alike(s, t)
           /\ MapSituations(Shuffled(f, p), at).dropped = MapSituations(f, at).dropped
<1>1. PICK g : g = Shuffled(f, p)
  OBVIOUS
<1>2. g \in Seq(S) /\ Len(g) = Len(f) /\ ToSet(g) = ToSet(f) /\ \A T : Len(Kept(g, T)) = Len(Kept(f, T))
  BY <1>1, ShuffledHoldsTheSame
<1>3. OneSpeaks(g) /\ IsFiniteSet(ToSet(g))
  BY <1>2 DEF OneSpeaks
<1>4. \A s \in DueAt(f, at) : \E t \in DueAt(g, at) : Alike(s, t)
  BY <1>2, DueAlike
<1>5. \A t \in DueAt(g, at) : \E s \in DueAt(f, at) : Alike(s, t)
  <2>1. \A t \in DueAt(g, at) : \E s \in DueAt(f, at) : Alike(t, s)
    BY <1>2, <1>3, DueAlike
  <2> QED
    BY <2>1 DEF Alike
<1>6. Len(ReadableOf(g)) = Len(ReadableOf(f))
  BY <1>2 DEF ReadableOf
<1>7. PICK D, E : /\ D = {s \in DueAt(f, at) : s.point = Absent}
                  /\ E = {s \in DueAt(g, at) : s.point = Absent}
  OBVIOUS
<1>8. Cardinality(D) = Cardinality(E)
  <2>1. IsFiniteSet(D) /\ \A s, t \in D : s.id = t.id => s = t
    <3>1. IsFiniteSet(DueAt(f, at)) /\ D \in SUBSET DueAt(f, at) /\ \A s, t \in DueAt(f, at) : s.id = t.id => s = t
      BY <1>7, DueById
    <3> QED
      BY <3>1, FS_Subset
  <2>2. IsFiniteSet(E) /\ \A s, t \in E : s.id = t.id => s = t
    <3>1. IsFiniteSet(DueAt(g, at)) /\ \A s, t \in DueAt(g, at) : s.id = t.id => s = t
      BY <1>2, <1>3, DueById
    <3>2. E \in SUBSET DueAt(g, at)
      BY <1>7
    <3> QED
      BY <3>1, <3>2, FS_Subset
  <2>3. \A s \in D : \E t \in E : s.id = t.id
    BY <1>4, <1>7 DEF Alike
  <2>4. \A t \in E : \E s \in D : s.id = t.id
    BY <1>5, <1>7 DEF Alike
  <2> QED
    BY <2>1, <2>2, <2>3, <2>4, AlikeAreAsMany
<1>9. /\ MapSituations(f, at).situations = {s \in DueAt(f, at) : s.point # Absent}
      /\ MapSituations(f, at).dropped = Len(f) - Len(ReadableOf(f)) + Cardinality(D)
  BY <1>7 DEF MapSituations, DueAt, AllAt, GroupOf, ReadableOf
<1>10. /\ MapSituations(g, at).situations = {s \in DueAt(g, at) : s.point # Absent}
       /\ MapSituations(g, at).dropped = Len(g) - Len(ReadableOf(g)) + Cardinality(E)
  BY <1>7 DEF MapSituations, DueAt, AllAt, GroupOf, ReadableOf
<1>11. MapSituations(g, at).dropped = MapSituations(f, at).dropped
  BY <1>2, <1>6, <1>8, <1>9, <1>10
<1>12. \A s \in MapSituations(f, at).situations : \E t \in MapSituations(g, at).situations : Alike(s, t)
  BY <1>4, <1>9, <1>10 DEF Alike
<1>13. \A t \in MapSituations(g, at).situations : \E s \in MapSituations(f, at).situations : Alike(s, t)
  BY <1>5, <1>9, <1>10 DEF Alike
<1> QED
  BY <1>1, <1>11, <1>12, <1>13

\* A site's readings, and the newest of a list of them.
ReadingsOf(features, site) ==
    Kept(features, {w \in ToSet(features) : w.readable /\ w.site = site /\ w.measuredAt # Absent})
NewestIn(list) ==
    CHOOSE i \in DOMAIN list : \A j \in DOMAIN list : \/ list[j].measuredAt < list[i].measuredAt
                                                      \/ (list[j].measuredAt = list[i].measuredAt /\ i <= j)

\* The newest of the readings is one of them, and none is newer.
LEMMA NewestIsNewest ==
    ASSUME NEW S, NEW list \in Seq(S), list # <<>>, \A w \in S : w.measuredAt \in Int
    PROVE  /\ list[NewestIn(list)] \in ToSet(list)
           /\ \A w \in ToSet(list) : w.measuredAt <= list[NewestIn(list)].measuredAt
<1>1. PICK n \in Nat : Len(list) = n + 1
  <2>1. Len(list) - 1 \in Nat /\ Len(list) = (Len(list) - 1) + 1
    OBVIOUS
  <2> QED
    BY <2>1
<1>2. PICK f : f = [i \in 1..(n + 1) |-> list[i].measuredAt]
  OBVIOUS
<1>3. DOMAIN list = 1..(n + 1) /\ \A i \in 1..(n + 1) : f[i] = list[i].measuredAt /\ list[i].measuredAt \in Int
  BY <1>1, <1>2
<1>4. f \in [1..(n + 1) -> Int]
  BY <1>2, <1>3
<1> DEFINE Leads(i) == \A j \in DOMAIN list : \/ list[j].measuredAt < list[i].measuredAt
                                              \/ (list[j].measuredAt = list[i].measuredAt /\ i <= j)
<1>5. \E i \in DOMAIN list : Leads(i)
  <2>1. PICK i \in 1..(n + 1) : \A j \in 1..(n + 1) : f[j] < f[i] \/ (f[j] = f[i] /\ i <= j)
    BY <1>4, GreatestNumber
  <2>2. Leads(i)
    BY <1>3, <2>1
  <2> HIDE DEF Leads
  <2> QED
    BY <1>3, <2>1, <2>2
<1>6. NewestIn(list) = CHOOSE i \in DOMAIN list : Leads(i)
  BY DEF NewestIn
<1>7. PICK i \in DOMAIN list : i = NewestIn(list) /\ Leads(i)
  <2> HIDE DEF Leads
  <2> QED
    BY <1>5, <1>6
<1>8. \A j \in DOMAIN list : list[j].measuredAt <= list[i].measuredAt
  BY <1>3, <1>7
<1> QED
  BY <1>7, <1>8 DEF ToSet

\* A site's newest reading is the same in any order, where no other is as new.
LEMMA NewestInAnyOrder ==
    ASSUME NEW S, NEW v \in Seq(S), NEW w \in Seq(S), ToSet(v) = ToSet(w), NEW site,
           \A x \in S : x.measuredAt \in Int \cup {Absent}, OneIsNewest(v)
    PROVE  /\ ReadingsOf(v, site) = <<>> <=> ReadingsOf(w, site) = <<>>
           /\ ReadingsOf(v, site) # <<>> =>
                  ReadingsOf(v, site)[NewestIn(ReadingsOf(v, site))] = ReadingsOf(w, site)[NewestIn(ReadingsOf(w, site))]
<1>1. PICK T : T = {x \in ToSet(v) : x.readable /\ x.site = site /\ x.measuredAt # Absent}
  OBVIOUS
<1>2. PICK a, b : a = Kept(v, T) /\ b = Kept(w, T)
  OBVIOUS
<1>3. ReadingsOf(v, site) = a /\ ReadingsOf(w, site) = b
  BY <1>1, <1>2 DEF ReadingsOf
<1>4. \A s : ToSet(s) = Range(s)
  BY DEF ToSet, Range
<1>5. a \in Seq(T) /\ ToSet(a) = T
  <2>1. a \in Seq(T) /\ Range(a) = Range(v) \cap T
    BY <1>2, KeptIsFiltered
  <2> QED
    BY <1>1, <1>4, <2>1
<1>6. b \in Seq(T) /\ ToSet(b) = T
  <2>1. b \in Seq(T) /\ Range(b) = Range(w) \cap T
    BY <1>2, KeptIsFiltered
  <2> QED
    BY <1>1, <1>4, <2>1
<1>7. a = <<>> <=> b = <<>>
  BY <1>5, <1>6 DEF ToSet
<1>8. \A x \in T : x.measuredAt \in Int
  <2>1. T \subseteq S
    BY <1>1 DEF ToSet
  <2> QED
    BY <1>1, <2>1
<1>9. ASSUME a # <<>> PROVE a[NewestIn(a)] = b[NewestIn(b)]
  <2>1. PICK x, y : x = a[NewestIn(a)] /\ y = b[NewestIn(b)]
    OBVIOUS
  <2>2. x \in T /\ \A z \in T : z.measuredAt <= x.measuredAt
    BY <1>5, <1>8, <1>9, <2>1, NewestIsNewest
  <2>3. y \in T /\ \A z \in T : z.measuredAt <= y.measuredAt
    BY <1>6, <1>7, <1>8, <1>9, <2>1, NewestIsNewest
  <2>4. x.measuredAt = y.measuredAt
    BY <1>8, <2>2, <2>3
  <2>5. x = y
    BY <1>1, <2>2, <2>3, <2>4 DEF OneIsNewest
  <2> QED
    BY <2>1, <2>5
<1> QED
  BY <1>3, <1>7, <1>9

\* What is served of the sites' readings, in another order.
LEMMA ReadingsInAnyOrder ==
    ASSUME NEW S, NEW v \in Seq(S), \A x \in S : x.measuredAt \in Int \cup {Absent}, OneIsNewest(v),
           NEW p \in Bijection(DOMAIN v, DOMAIN v), NEW cameras, v # Absent, Shuffled(v, p) # Absent
    PROVE  FetchRoadCameras(cameras, Shuffled(v, p)) = FetchRoadCameras(cameras, v)
<1>1. PICK w : w = Shuffled(v, p)
  OBVIOUS
<1>2. w \in Seq(S) /\ ToSet(v) = ToSet(w)
  BY <1>1, ShuffledHoldsTheSame
<1>3. PICK sites : sites = {c.siteId : c \in MapRoadCameras(cameras).cameras}
  OBVIOUS
<1> DEFINE Told(u) == [measuredAt |-> u.measuredAt, wind |-> WindReading(u.wind),
                       gust |-> GustReading(u.gust, WindReading(u.wind))]
<1>4. \A f : MapSiteWeather(f, sites) =
                 [site \in {s \in sites : ReadingsOf(f, s) # <<>>} |->
                     Told(ReadingsOf(f, site)[NewestIn(ReadingsOf(f, site))])]
  BY DEF MapSiteWeather, ReadingsOf, NewestIn
<1> HIDE DEF Told
<1>5. \A site : /\ ReadingsOf(v, site) = <<>> <=> ReadingsOf(w, site) = <<>>
                /\ ReadingsOf(v, site) # <<>> =>
                     ReadingsOf(v, site)[NewestIn(ReadingsOf(v, site))] = ReadingsOf(w, site)[NewestIn(ReadingsOf(w, site))]
  BY <1>2, NewestInAnyOrder
<1>6. MapSiteWeather(v, sites) = MapSiteWeather(w, sites)
  <2>1. {s \in sites : ReadingsOf(v, s) # <<>>} = {s \in sites : ReadingsOf(w, s) # <<>>}
    BY <1>5
  <2>2. \A s \in {s \in sites : ReadingsOf(v, s) # <<>>} :
            Told(ReadingsOf(v, s)[NewestIn(ReadingsOf(v, s))]) = Told(ReadingsOf(w, s)[NewestIn(ReadingsOf(w, s))])
    BY <1>5
  <2> QED
    BY <1>4, <2>1, <2>2
<1> QED
  BY <1>1, <1>3, <1>6 DEF FetchRoadCameras

\* In whatever order upstream lists the records, the same is served of the situations and of the
\* sites' readings: the order decides between records that are otherwise alike and nothing else
\* (situations.ts, road-cameras.ts).
THEOREM OrderDoesNotMatter == LayersSpec => []OrderIsIgnored
<1>1. MadeInv => OrderIsIgnored
  <2> SUFFICES ASSUME MadeInv PROVE OrderIsIgnored
    OBVIOUS
  <2>1. PICK raw, body, at : raw = answered.raw /\ body = answered.body /\ at = answered.at
    OBVIOUS
  <2> DEFINE Told(s) == [id |-> s.id, kind |-> s.kind, status |-> s.status, effects |-> s.effects,
                         startsAt |-> s.startsAt, endsAt |-> s.endsAt, updatedAt |-> s.updatedAt, point |-> s.point]
  <2>2. ASSUME Is("situations"), OneSpeaks(raw), NEW p \in Bijection(DOMAIN raw, DOMAIN raw)
        PROVE  /\ {Told(s) : s \in MapSituations(Shuffled(raw, p), at).situations} = {Told(s) : s \in body.situations}
               /\ MapSituations(Shuffled(raw, p), at).dropped = body.dropped
    <3>1. answered # Refused /\ answered.layer = "situations"
      BY <2>2 DEF Is
    <3>2. raw \in SituationAnswers /\ body = MapSituations(raw, at)
      BY <2>1, <3>1 DEF MadeInv, Sent, Made
    <3>3. raw \in Seq(ToSet(raw))
      BY <3>2, SituationsAssumption
    <3>4. IsFiniteSet(ToSet(raw))
      <4>1. raw \in Surjection(1..Len(raw), ToSet(raw))
        BY <3>3 DEF Surjection, ToSet
      <4>2. IsFiniteSet(1..Len(raw))
        <5>1. Len(raw) \in Int
          BY <3>3
        <5> QED
          BY <5>1, FS_Interval
      <4> QED
        BY <4>1, <4>2, FS_Surjection
    <3>5. PICK other : other = MapSituations(Shuffled(raw, p), at)
      OBVIOUS
    <3>6. /\ \A s \in body.situations : \E t \in other.situations : Alike(s, t)
          /\ \A t \in other.situations : \E s \in body.situations : Alike(s, t)
          /\ other.dropped = body.dropped
      BY <2>2, <3>2, <3>3, <3>4, <3>5, SituationsInAnyOrder
    <3>7. \A s, t : Alike(s, t) => Told(s) = Told(t)
      BY DEF Alike
    <3> HIDE DEF Told
    <3>8. {Told(s) : s \in other.situations} = {Told(s) : s \in body.situations}
      BY <3>6, <3>7
    <3> QED
      BY <3>5, <3>6, <3>8
  <2>3. ASSUME Is("cameras"), raw.weather # Absent, OneIsNewest(raw.weather),
               NEW p \in Bijection(DOMAIN raw.weather, DOMAIN raw.weather)
        PROVE  FetchRoadCameras(raw.cameras, Shuffled(raw.weather, p)) = body
    <3>1. answered # Refused /\ answered.layer = "cameras"
      BY <2>3 DEF Is
    <3>2. PICK a \in CameraAnswers : raw = [cameras |-> a[1], weather |-> a[2]]
      BY <2>1, <3>1 DEF MadeInv, Sent
    <3>3. PICK v : v = raw.weather
      OBVIOUS
    <3>4. body = FetchRoadCameras(raw.cameras, v)
      BY <2>1, <3>1, <3>3 DEF MadeInv, Made
    <3>5. v = a[2] /\ v # Absent
      BY <2>3, <3>2, <3>3
    <3>6. /\ v \in Seq(ToSet(v)) /\ Absent \notin Seq(ToSet(v))
          /\ \A x \in ToSet(v) : x.measuredAt \in Int \cup {Absent}
      BY <3>5, ReadingsAssumption
    <3>7. p \in Bijection(DOMAIN v, DOMAIN v) /\ OneIsNewest(v)
      BY <2>3, <3>3
    <3>8. Shuffled(v, p) # Absent
      BY <3>6, <3>7, ShuffledHoldsTheSame
    <3> QED
      BY <3>3, <3>4, <3>5, <3>6, <3>7, <3>8, ReadingsInAnyOrder
  <2> HIDE DEF Told
  <2>4. Is("situations") /\ OneSpeaks(answered.raw) =>
            \A p \in Bijection(DOMAIN answered.raw, DOMAIN answered.raw) :
                LET other == MapSituations([i \in DOMAIN answered.raw |-> answered.raw[p[i]]], answered.at)
                IN  /\ {Told(s) : s \in other.situations} = {Told(s) : s \in answered.body.situations}
                    /\ other.dropped = answered.body.dropped
    BY <2>1, <2>2 DEF Shuffled
  <2>5. Is("cameras") /\ answered.raw.weather # Absent /\ OneIsNewest(answered.raw.weather) =>
            \A p \in Bijection(DOMAIN answered.raw.weather, DOMAIN answered.raw.weather) :
                FetchRoadCameras(answered.raw.cameras,
                                 [i \in DOMAIN answered.raw.weather |-> answered.raw.weather[p[i]]]) = answered.body
    BY <2>1, <2>3 DEF Shuffled
  <2> QED
    BY <2>4, <2>5 DEF OrderIsIgnored, Told
<1> QED
  BY <1>1, MadeInitInv, MadeStepInv, PTL DEF LayersSpec

-------------------------------------------------------------------------------
(* Outlines clipped to a viewport.                                         *)

\* Lists joined one after the other.
Joining(g, lists, n) ==
    /\ g[1] = lists[1]
    /\ \A i \in 2..n : g[i] = g[i - 1] \o lists[i]

\* The recursion of FlattenSeq has a solution, and its result is where that ends.
LEMMA FlattenIsReached ==
    ASSUME NEW lists, NEW n \in Nat, Len(lists) = n + 1
    PROVE  \E g : Joining(g, lists, n + 1) /\ FlattenSeq(lists) = g[n + 1]
<1> DEFINE Step(g, i) == g[i - 1] \o lists[i]
           Solves(g, m) == g[1] = lists[1] /\ \A i \in 2..(m + 1) : g[i] = Step(g, i)
           Rule(g) == [i \in 1..(n + 1) |-> IF i = 1 THEN lists[i] ELSE g[i - 1] \o lists[i]]
           flatten == CHOOSE g : g = Rule(g)
           Reached == {m \in Nat : \E g : Solves(g, m)}
<1>1. 0 \in Reached
  <2>1. PICK g : g = [i \in 1..1 |-> lists[1]]
    OBVIOUS
  <2>2. Solves(g, 0)
    BY <2>1
  <2> QED
    BY <2>2
<1>2. ASSUME NEW m \in Nat, m \in Reached PROVE m + 1 \in Reached
  <2>1. PICK g : Solves(g, m)
    <3> HIDE DEF Solves
    <3> QED
      BY <1>2
  <2>2. PICK next : next = g[m + 1] \o lists[m + 2]
    OBVIOUS
  <2>3. PICK h : h = [i \in 1..(m + 2) |-> IF i = m + 2 THEN next ELSE g[i]]
    OBVIOUS
  <2>4. h[m + 2] = next /\ \A i \in 1..(m + 1) : h[i] = g[i]
    BY <2>3
  <2>5. h[1] = lists[1]
    BY <2>1, <2>4
  <2>6. ASSUME NEW i \in 2..(m + 2) PROVE h[i] = Step(h, i)
    <3>1. i - 1 \in 1..(m + 1) /\ h[i - 1] = g[i - 1]
      BY <2>4
    <3>2. CASE i = m + 2
      <4>1. h[i - 1] = g[m + 1] /\ lists[i] = lists[m + 2] /\ h[i] = next
        BY <2>4, <3>1, <3>2
      <4> QED
        BY <2>2, <4>1
    <3>3. CASE i # m + 2
      <4>1. i \in 2..(m + 1) /\ i \in 1..(m + 1)
        BY <3>3
      <4>2. g[i] = Step(g, i)
        BY <2>1, <4>1
      <4> QED
        BY <2>4, <3>1, <4>1, <4>2
    <3> QED
      BY <3>2, <3>3
  <2>7. (m + 1) + 1 = m + 2
    OBVIOUS
  <2>8. Solves(h, m + 1)
    <3> HIDE DEF Step
    <3> QED
      BY <2>5, <2>6, <2>7
  <2> HIDE DEF Solves
  <2> QED
    BY <2>8
<1>3. PICK g : Solves(g, n)
  <2> HIDE DEF Reached, Solves
  <2>1. \A m \in Nat : m \in Reached
    BY <1>1, <1>2, SetInduction
  <2> QED
    BY <2>1 DEF Reached
<1>4. PICK f : f = [i \in 1..(n + 1) |-> g[i]]
  OBVIOUS
<1>5. f = Rule(f)
  <2>1. ASSUME NEW i \in 1..(n + 1) PROVE f[i] = Rule(f)[i]
    <3>1. Rule(f)[i] = IF i = 1 THEN lists[i] ELSE Step(f, i)
      OBVIOUS
    <3> HIDE DEF Rule
    <3>2. CASE i = 1
      BY <1>3, <1>4, <3>1, <3>2
    <3>3. CASE i # 1
      <4>1. i \in 2..(n + 1) /\ i - 1 \in 1..(n + 1)
        BY <3>3
      <4>2. f[i - 1] = g[i - 1] /\ f[i] = g[i]
        BY <1>4, <4>1
      <4>3. g[i] = Step(g, i)
        BY <1>3, <4>1
      <4> QED
        BY <3>1, <3>3, <4>2, <4>3
    <3> QED
      BY <3>2, <3>3
  <2>2. f = [i \in 1..(n + 1) |-> f[i]]
    BY <1>4
  <2> QED
    BY <2>1, <2>2
<1>6. flatten = Rule(flatten)
  <2> HIDE DEF Rule
  <2> QED
    BY <1>5
<1>7. FlattenSeq(lists) = flatten[n + 1]
  BY n + 1 # 0 DEF FlattenSeq
<1> HIDE DEF flatten
<1>8. Joining(flatten, lists, n + 1)
  <2>1. \A i \in 1..(n + 1) : flatten[i] = IF i = 1 THEN lists[i] ELSE Step(flatten, i)
    BY <1>6
  <2>2. flatten[1] = lists[1]
    BY <2>1
  <2>3. ASSUME NEW i \in 2..(n + 1) PROVE flatten[i] = Step(flatten, i)
    <3>1. i \in 1..(n + 1) /\ i # 1
      OBVIOUS
    <3> HIDE DEF Step
    <3> QED
      BY <2>1, <3>1
  <2> QED
    BY <2>2, <2>3 DEF Joining
<1> QED
  BY <1>7, <1>8

\* What lists come to when joined: a list of what they hold.
LEMMA FlattenHoldsAll ==
    ASSUME NEW S, NEW lists \in Seq(Seq(S))
    PROVE  /\ FlattenSeq(lists) \in Seq(S)
           /\ Range(FlattenSeq(lists)) = UNION {Range(lists[i]) : i \in DOMAIN lists}
<1>1. CASE lists = <<>>
  <2>1. FlattenSeq(lists) = <<>>
    BY <1>1 DEF FlattenSeq
  <2>2. Range(<<>>) = {}
    BY DEF Range
  <2>3. <<>> \in Seq(S) /\ DOMAIN lists = {}
    BY <1>1
  <2> QED
    BY <2>1, <2>2, <2>3
<1>2. CASE lists # <<>>
  <2>1. PICK n \in Nat : Len(lists) = n + 1 /\ DOMAIN lists = 1..(n + 1)
    <3>1. Len(lists) \in Nat /\ Len(lists) # 0 /\ DOMAIN lists = 1..Len(lists)
      BY <1>2
    <3>2. Len(lists) - 1 \in Nat /\ Len(lists) = (Len(lists) - 1) + 1
      BY <3>1
    <3> QED
      BY <3>1, <3>2
  <2>2. PICK g : Joining(g, lists, n + 1) /\ FlattenSeq(lists) = g[n + 1]
    BY <2>1, FlattenIsReached
  <2> DEFINE Upto1(m) == UNION {Range(lists[i]) : i \in 1..m}
             Reached == {m \in Nat : m <= n => g[m + 1] \in Seq(S) /\ Range(g[m + 1]) = Upto1(m + 1)}
  <2>3. \A i \in 1..(n + 1) : lists[i] \in Seq(S)
    BY <2>1
  <2>4. 0 \in Reached
    <3>1. g[1] = lists[1] /\ g[1] \in Seq(S)
      BY <2>2, <2>3 DEF Joining
    <3>2. Upto1(1) = Range(lists[1])
      OBVIOUS
    <3> HIDE DEF Upto1
    <3> QED
      BY <3>1, <3>2
  <2>5. ASSUME NEW m \in Nat, m \in Reached PROVE m + 1 \in Reached
    <3> SUFFICES ASSUME m + 1 <= n
                 PROVE  g[(m + 1) + 1] \in Seq(S) /\ Range(g[(m + 1) + 1]) = Upto1((m + 1) + 1)
      OBVIOUS
    <3>1. PICK k : k = (m + 1) + 1 /\ k \in 2..(n + 1) /\ k - 1 = m + 1
      OBVIOUS
    <3>2. PICK a, b : a = g[m + 1] /\ b = lists[k]
      OBVIOUS
    <3>3. g[k] = a \o b
      BY <2>2, <3>1, <3>2 DEF Joining
    <3>4. a \in Seq(S) /\ Range(a) = Upto1(m + 1)
      <4> HIDE DEF Upto1
      <4> QED
        BY <2>5, <3>2
    <3>5. b \in Seq(S)
      BY <2>3, <3>1, <3>2
    <3>6. a \o b \in Seq(S) /\ Range(a \o b) = Range(a) \cup Range(b)
      BY <3>4, <3>5, RangeConcatenation
    <3>7. Upto1(k) = Upto1(m + 1) \cup Range(b)
      <4>1. 1..k = (1..(m + 1)) \cup {k}
        BY <3>1
      <4> QED
        BY <3>2, <4>1
    <3> HIDE DEF Upto1
    <3> QED
      BY <3>1, <3>3, <3>4, <3>6, <3>7
  <2>6. n \in Reached
    <3> HIDE DEF Reached
    <3>1. \A m \in Nat : m \in Reached
      BY <2>4, <2>5, SetInduction
    <3> QED
      BY <3>1
  <2> HIDE DEF Upto1
  <2>7. g[n + 1] \in Seq(S) /\ Range(g[n + 1]) = Upto1(n + 1)
    BY <2>6
  <2> QED
    BY <2>1, <2>2, <2>7 DEF Upto1
<1> QED
  BY <1>1, <1>2

\* Lists of one element each come to the list of those.
LEMMA FlattenSingles ==
    ASSUME NEW S, NEW s \in Seq(S), NEW lists \in Seq(Seq(S)), Len(lists) = Len(s), \A i \in DOMAIN s : lists[i] = <<s[i]>>
    PROVE  FlattenSeq(lists) = s
<1>1. CASE s = <<>>
  <2>1. lists = <<>>
    BY <1>1
  <2> QED
    BY <1>1, <2>1 DEF FlattenSeq
<1>2. CASE s # <<>>
  <2>1. PICK n \in Nat : Len(lists) = n + 1 /\ Len(s) = n + 1 /\ DOMAIN s = 1..(n + 1)
    <3>1. Len(s) \in Nat /\ Len(s) # 0 /\ DOMAIN s = 1..Len(s)
      BY <1>2
    <3>2. Len(s) - 1 \in Nat /\ Len(s) = (Len(s) - 1) + 1
      BY <3>1
    <3> QED
      BY <3>1, <3>2
  <2>2. PICK g : Joining(g, lists, n + 1) /\ FlattenSeq(lists) = g[n + 1]
    BY <2>1, FlattenIsReached
  <2> DEFINE Begins(t, m) == t \in Seq(S) /\ Len(t) = m /\ \A j \in 1..m : t[j] = s[j]
             Reached == {m \in Nat : m <= n => Begins(g[m + 1], m + 1)}
  <2>3. 0 \in Reached
    <3>1. g[1] = <<s[1]>> /\ s[1] \in S
      BY <2>1, <2>2 DEF Joining
    <3>2. Begins(g[1], 1)
      BY <3>1
    <3> HIDE DEF Begins
    <3> QED
      BY <3>2
  <2>4. ASSUME NEW m \in Nat, m \in Reached PROVE m + 1 \in Reached
    <3> SUFFICES ASSUME m + 1 <= n PROVE Begins(g[(m + 1) + 1], (m + 1) + 1)
      OBVIOUS
    <3>1. PICK k : k = (m + 1) + 1 /\ k \in 2..(n + 1) /\ k - 1 = m + 1
      OBVIOUS
    <3>2. PICK a : a = g[m + 1] /\ a \in Seq(S) /\ Len(a) = m + 1 /\ \A j \in 1..(m + 1) : a[j] = s[j]
      BY <2>4
    <3>3. lists[k] = <<s[k]>> /\ s[k] \in S
      BY <2>1, <3>1
    <3>4. PICK t : t = a \o <<s[k]>>
      OBVIOUS
    <3>5. g[k] = t
      BY <2>2, <3>1, <3>2, <3>3, <3>4 DEF Joining
    <3>6. t \in Seq(S) /\ Len(t) = k /\ \A j \in 1..k : t[j] = s[j]
      <4>0. PICK one : one = <<s[k]>>
        OBVIOUS
      <4>1. one \in Seq(S) /\ Len(one) = 1 /\ one[1] = s[k]
        BY <3>3, <4>0
      <4>2. /\ t \in Seq(S) /\ Len(t) = (m + 1) + 1
            /\ \A j \in 1..((m + 1) + 1) : t[j] = IF j <= m + 1 THEN a[j] ELSE one[j - (m + 1)]
        <5>1. a \in Seq(S) /\ one \in Seq(S) /\ t = a \o one /\ Len(a) = m + 1 /\ Len(one) = 1
          BY <3>2, <3>4, <4>0, <4>1
        <5>2. /\ a \o one \in Seq(S) /\ Len(a \o one) = Len(a) + Len(one)
              /\ \A j \in 1..(Len(a) + Len(one)) : (a \o one)[j] = IF j <= Len(a) THEN a[j] ELSE one[j - Len(a)]
          BY <5>1, ConcatProperties
        <5> QED
          BY <5>1, <5>2
      <4>3. ASSUME NEW j \in 1..k PROVE t[j] = s[j]
        <5>1. CASE j <= m + 1
          <6>1. j \in 1..(m + 1) /\ j \in 1..((m + 1) + 1)
            BY <3>1, <5>1
          <6>2. t[j] = a[j]
            BY <4>2, <5>1, <6>1
          <6> QED
            BY <3>2, <6>1, <6>2
        <5>2. CASE j = k
          <6>1. ~(j <= m + 1) /\ j - (m + 1) = 1
            BY <3>1, <5>2
          <6> QED
            BY <3>1, <4>1, <4>2, <5>2, <6>1
        <5> QED
          BY <3>1, <5>1, <5>2
      <4> QED
        BY <3>1, <4>2, <4>3
    <3> QED
      BY <3>1, <3>5, <3>6
  <2>5. n \in Reached
    <3> HIDE DEF Reached
    <3>1. \A m \in Nat : m \in Reached
      BY <2>3, <2>4, SetInduction
    <3> QED
      BY <3>1
  <2>6. Begins(FlattenSeq(lists), n + 1)
    <3> HIDE DEF Begins
    <3> QED
      BY <2>2, <2>5
  <2> QED
    BY <2>1, <2>6
<1> QED
  BY <1>1, <1>2

\* Whole coordinates, and the sides of viewports.
Points == [1..2 -> Int]
Sides == [axis : 1..2, sign : {1, -1}, at : Int]

\* A part of a difference lies between nothing and the whole of it.
LEMMA PartOfDifference ==
    ASSUME NEW c \in Int, NEW n \in Int, NEW d \in Int, 0 <= n, n <= d, 0 < d
    PROVE  /\ (c * n) \div d \in Int
           /\ 0 <= c => 0 <= (c * n) \div d /\ (c * n) \div d <= c
           /\ c <= 0 => c <= (c * n) \div d /\ (c * n) \div d <= 0
<1>1. PICK q, r : q = (c * n) \div d /\ r = (c * n) % d
  OBVIOUS
<1>2. q \in Int /\ r \in Int /\ c * n = d * q + r /\ 0 <= r /\ r < d
  BY <1>1
<1>3. ASSUME 0 <= c PROVE 0 <= q /\ q <= c
  <2>1. 0 <= c * n /\ c * n <= c * d
    BY <1>3
  <2>2. d * q <= d * c
    BY <1>2, <2>1
  <2>3. q <= c
    BY <1>2, <2>2
  <2>4. ~(q <= -1)
    <3>1. SUFFICES ASSUME q <= -1 PROVE FALSE
      OBVIOUS
    <3>2. d * q <= d * (-1)
      BY <1>2, <3>1
    <3> QED
      BY <1>2, <2>1, <3>2
  <2> QED
    BY <1>2, <2>3, <2>4
<1>4. ASSUME c <= 0 PROVE c <= q /\ q <= 0
  <2>1. c * n <= 0 /\ c * d <= c * n
    BY <1>4
  <2>2. ~(q <= c - 1)
    <3>1. SUFFICES ASSUME q <= c - 1 PROVE FALSE
      OBVIOUS
    <3>2. d * q <= d * (c - 1)
      BY <1>2, <3>1
    <3>3. d * (c - 1) = c * d - d
      OBVIOUS
    <3> QED
      BY <1>2, <2>1, <3>2, <3>3
  <2>3. ~(q >= 1)
    <3>1. SUFFICES ASSUME q >= 1 PROVE FALSE
      OBVIOUS
    <3>2. d * q >= d * 1
      BY <1>2, <3>1
    <3> QED
      BY <1>2, <2>1, <3>2
  <2> QED
    BY <1>2, <2>2, <2>3
<1> QED
  BY <1>1, <1>2, <1>3, <1>4

\* The whole of a difference is reached where the line is.
LEMMA WholeOfDifference ==
    ASSUME NEW m \in Int, NEW d \in Int, 0 < d
    PROVE  (d * m) \div d = m
<1>1. PICK q, r : q = (d * m) \div d /\ r = (d * m) % d
  OBVIOUS
<1>2. q \in Int /\ r \in Int /\ d * m = d * q + r /\ 0 <= r /\ r < d
  BY <1>1
<1>3. ~(q <= m - 1)
  <2>1. SUFFICES ASSUME q <= m - 1 PROVE FALSE
    OBVIOUS
  <2>2. d * q <= d * (m - 1) /\ d * (m - 1) = d * m - d
    BY <1>2, <2>1
  <2> QED
    BY <1>2, <2>2
<1>4. ~(q >= m + 1)
  <2>1. SUFFICES ASSUME q >= m + 1 PROVE FALSE
    OBVIOUS
  <2>2. d * q >= d * (m + 1) /\ d * (m + 1) = d * m + d
    BY <1>2, <2>1
  <2> QED
    BY <1>2, <2>2
<1> QED
  BY <1>1, <1>2, <1>3, <1>4

\* Where an edge crosses a side it is on the side's line, and between its ends.
LEMMA CrossingIsBetween ==
    ASSUME NEW a \in Points, NEW b \in Points, NEW side \in Sides, Inside(a, side) # Inside(b, side)
    PROVE  /\ Lerp(a, b, side) \in Points
           /\ Lerp(a, b, side)[side.axis] = side.at
           /\ \A i \in 1..2 : /\ Lower(a[i], b[i]) <= Lerp(a, b, side)[i]
                              /\ Lerp(a, b, side)[i] <= Higher(a[i], b[i])
<1>1. PICK k, v : k = side.axis /\ v = side.at
  OBVIOUS
<1>2. k \in 1..2 /\ v \in Int /\ side.sign \in {1, -1}
  BY <1>1 DEF Sides
<1>3. \A i \in 1..2 : a[i] \in Int /\ b[i] \in Int
  BY DEF Points
<1>4. PICK run : run = b[k] - a[k]
  OBVIOUS
<1>5. PICK sign : sign = IF run < 0 THEN -1 ELSE 1
  OBVIOUS
<1>6. PICK d, n : d = sign * run /\ n = sign * (v - a[k])
  OBVIOUS
<1>7. \/ a[k] < v /\ v <= b[k]
      \/ b[k] < v /\ v <= a[k]
      \/ a[k] <= v /\ v < b[k]
      \/ b[k] <= v /\ v < a[k]
  <2>1. CASE side.sign = 1
    BY <1>1, <1>2, <1>3, <1>4, <2>1 DEF Inside
  <2>2. CASE side.sign = -1
    BY <1>1, <1>2, <1>3, <1>4, <2>2 DEF Inside
  <2> QED
    BY <1>2, <2>1, <2>2
<1>8. d \in Int /\ n \in Int /\ 0 < d /\ 0 <= n /\ n <= d
  BY <1>2, <1>3, <1>4, <1>5, <1>6, <1>7
<1>9. \A i \in 1..2 : sign * (b[i] - a[i]) * (v - a[k]) = (b[i] - a[i]) * n
  <2>1. CASE run < 0
    BY <1>2, <1>3, <1>5, <1>6, <2>1
  <2>2. CASE ~(run < 0)
    BY <1>2, <1>3, <1>5, <1>6, <2>2
  <2> QED
    BY <2>1, <2>2
<1>10. PICK c : c = Lerp(a, b, side)
  OBVIOUS
<1>11. c = [i \in 1..2 |-> a[i] + ((b[i] - a[i]) * n) \div d]
  <2>1. c = [i \in 1..2 |-> a[i] + (sign * (b[i] - a[i]) * (v - a[k])) \div d]
    BY <1>1, <1>4, <1>5, <1>6, <1>10 DEF Lerp
  <2> QED
    BY <1>9, <2>1
<1>12. ASSUME NEW i \in 1..2
       PROVE  c[i] \in Int /\ Lower(a[i], b[i]) <= c[i] /\ c[i] <= Higher(a[i], b[i])
  <2>1. PICK e \in Int : e = b[i] - a[i]
    BY <1>3
  <2>2. PICK part : part = (e * n) \div d
    OBVIOUS
  <2>3. /\ part \in Int
        /\ 0 <= e => 0 <= part /\ part <= e
        /\ e <= 0 => e <= part /\ part <= 0
    BY <1>8, <2>2, PartOfDifference
  <2>4. c[i] = a[i] + part
    BY <1>11, <2>1, <2>2
  <2> QED
    BY <1>3, <2>1, <2>3, <2>4 DEF Lower, Higher
<1>13. c[k] = v
  <2>1. (b[k] - a[k]) * n = d * (v - a[k])
    <3>1. CASE run < 0
      BY <1>2, <1>3, <1>4, <1>5, <1>6, <3>1
    <3>2. CASE ~(run < 0)
      BY <1>2, <1>3, <1>4, <1>5, <1>6, <3>2
    <3> QED
      BY <3>1, <3>2
  <2>2. PICK m \in Int : m = v - a[k]
    BY <1>2, <1>3
  <2>3. (d * m) \div d = m
    BY <1>8, WholeOfDifference
  <2>4. c[k] = a[k] + (d * m) \div d
    BY <1>2, <1>11, <2>1, <2>2
  <2> QED
    BY <1>2, <1>3, <2>2, <2>3, <2>4
<1>14. c \in Points
  BY <1>11, <1>12 DEF Points
<1> QED
  BY <1>1, <1>10, <1>12, <1>13, <1>14

\* A crossing is on the inside of its side, and of every other that both its ends are inside of.
LEMMA CrossingStaysInside ==
    ASSUME NEW a \in Points, NEW b \in Points, NEW side \in Sides, Inside(a, side) # Inside(b, side)
    PROVE  /\ Inside(Lerp(a, b, side), side)
           /\ \A other \in Sides : Inside(a, other) /\ Inside(b, other) => Inside(Lerp(a, b, side), other)
<1>1. PICK c : c = Lerp(a, b, side)
  OBVIOUS
<1>2. c \in Points /\ c[side.axis] = side.at /\ \A i \in 1..2 : Lower(a[i], b[i]) <= c[i] /\ c[i] <= Higher(a[i], b[i])
  BY <1>1, CrossingIsBetween
<1>3. Inside(c, side)
  BY <1>2 DEF Inside, Sides
<1>4. ASSUME NEW other \in Sides, Inside(a, other), Inside(b, other) PROVE Inside(c, other)
  <2>1. PICK k, v : k = other.axis /\ v = other.at
    OBVIOUS
  <2>2. k \in 1..2 /\ v \in Int /\ a[k] \in Int /\ b[k] \in Int /\ c[k] \in Int
    BY <1>2, <2>1 DEF Sides, Points
  <2>3. CASE other.sign = 1
    BY <1>2, <1>4, <2>1, <2>2, <2>3 DEF Inside, Lower
  <2>4. CASE other.sign = -1
    BY <1>2, <1>4, <2>1, <2>2, <2>4 DEF Inside, Higher
  <2> QED
    BY <2>3, <2>4 DEF Sides
<1> QED
  BY <1>1, <1>3, <1>4

\* What is beyond a side is inside of the next one that faces it.
Beyond(side) == [axis |-> side.axis, sign |-> -side.sign, at |-> side.at - side.sign]

LEMMA BeyondIsOutside ==
    ASSUME NEW p \in Points, NEW side \in Sides
    PROVE  Beyond(side) \in Sides /\ (Inside(p, Beyond(side)) <=> ~Inside(p, side))
<1>1. PICK k, v, sign : k = side.axis /\ v = side.at /\ sign = side.sign
  OBVIOUS
<1>2. k \in 1..2 /\ v \in Int /\ sign \in {1, -1} /\ p[k] \in Int
  BY <1>1 DEF Sides, Points
<1>3. Beyond(side) = [axis |-> k, sign |-> -sign, at |-> v - sign]
  BY <1>1 DEF Beyond
<1>4. Beyond(side) \in Sides
  <2>1. -sign \in {1, -1} /\ v - sign \in Int
    BY <1>2
  <2> QED
    BY <1>2, <1>3, <2>1 DEF Sides
<1>5. PICK o, w : o = -sign /\ w = v - sign
  OBVIOUS
<1>6. Inside(p, Beyond(side)) <=> o * p[k] >= o * w
  BY <1>3, <1>5 DEF Inside
<1>7. Inside(p, side) <=> sign * p[k] >= sign * v
  BY <1>1 DEF Inside
<1>8. o * p[k] >= o * w <=> ~(sign * p[k] >= sign * v)
  <2>1. CASE sign = 1
    BY <1>2, <1>5, <2>1
  <2>2. CASE sign = -1
    BY <1>2, <1>5, <2>2
  <2> QED
    BY <1>2, <2>1, <2>2
<1> QED
  BY <1>4, <1>6, <1>7, <1>8

\* What one vertex leaves of itself.
LEMMA ClippedPiece ==
    ASSUME NEW a \in Points, NEW b \in Points, NEW side \in Sides
    PROVE  /\ Clipped(a, b, side) \in Seq(Points)
           /\ \A p \in Range(Clipped(a, b, side)) : Inside(p, side)
           /\ \A p \in Range(Clipped(a, b, side)) : \A other \in Sides :
                  Inside(a, other) /\ Inside(b, other) => Inside(p, other)
           /\ Inside(b, side) => b \in Range(Clipped(a, b, side))
           /\ Inside(a, side) /\ Inside(b, side) => Clipped(a, b, side) = <<b>>
           /\ ~Inside(a, side) /\ ~Inside(b, side) => Clipped(a, b, side) = <<>>
<1>1. PICK c, piece : c = Lerp(a, b, side) /\ piece = Clipped(a, b, side)
  OBVIOUS
<1>2. Inside(a, side) # Inside(b, side) =>
          /\ c \in Points /\ Inside(c, side)
          /\ \A other \in Sides : Inside(a, other) /\ Inside(b, other) => Inside(c, other)
  BY <1>1, CrossingIsBetween, CrossingStaysInside
<1>3. CASE Inside(b, side) /\ Inside(a, side)
  <2>1. piece = <<b>>
    BY <1>1, <1>3 DEF Clipped
  <2>2. Range(<<b>>) = {b} /\ <<b>> \in Seq(Points)
    BY DEF Range
  <2> QED
    BY <1>1, <1>3, <2>1, <2>2
<1>4. CASE Inside(b, side) /\ ~Inside(a, side)
  <2>1. piece = <<c, b>>
    BY <1>1, <1>4 DEF Clipped
  <2>2. c \in Points /\ Inside(c, side) /\ \A other \in Sides : Inside(a, other) /\ Inside(b, other) => Inside(c, other)
    BY <1>2, <1>4
  <2>3. Range(<<c, b>>) = {c, b} /\ <<c, b>> \in Seq(Points)
    BY <2>2 DEF Range
  <2> QED
    BY <1>1, <1>4, <2>1, <2>2, <2>3
<1>5. CASE ~Inside(b, side) /\ Inside(a, side)
  <2>1. piece = <<c>>
    BY <1>1, <1>5 DEF Clipped
  <2>2. c \in Points /\ Inside(c, side) /\ \A other \in Sides : Inside(a, other) /\ Inside(b, other) => Inside(c, other)
    BY <1>2, <1>5
  <2>3. Range(<<c>>) = {c} /\ <<c>> \in Seq(Points)
    BY <2>2 DEF Range
  <2> QED
    BY <1>1, <1>5, <2>1, <2>2, <2>3
<1>6. CASE ~Inside(b, side) /\ ~Inside(a, side)
  <2>1. piece = <<>>
    BY <1>1, <1>6 DEF Clipped
  <2>2. Range(<<>>) = {} /\ <<>> \in Seq(Points)
    BY DEF Range
  <2> QED
    BY <1>1, <1>6, <2>1, <2>2
<1> QED
  BY <1>3, <1>4, <1>5, <1>6

\* All the vertices of a ring are on one side.
Lies(ring, side) == \A p \in Range(ring) : Inside(p, side)

\* What a half-plane leaves of a ring lies in it, and still lies in every other the ring did; a
\* vertex in it is kept, a ring in it is left as it was, and of one beyond it nothing is left.
LEMMA HalfPlaneClips ==
    ASSUME NEW ring \in Seq(Points), NEW side \in Sides
    PROVE  LET clip == ClipHalfPlane(ring, side)
           IN  /\ clip \in Seq(Points) /\ Lies(clip, side)
               /\ \A other \in Sides : Lies(ring, other) => Lies(clip, other)
               /\ \A p \in Range(ring) : Inside(p, side) => p \in Range(clip)
               /\ Lies(ring, side) => clip = ring
               /\ Lies(ring, Beyond(side)) => clip = <<>>
<1>1. PICK clip : clip = ClipHalfPlane(ring, side)
  OBVIOUS
<1>2. PICK n \in Nat : n = Len(ring) /\ DOMAIN ring = 1..n
  OBVIOUS
<1>3. PICK pieces : pieces = [i \in 1..n |-> Clipped(Previous(ring, i), ring[i], side)]
  OBVIOUS
<1>4. clip = FlattenSeq(pieces)
  BY <1>1, <1>2, <1>3 DEF ClipHalfPlane
<1>5. \A i \in 1..n : /\ Previous(ring, i) \in Points /\ ring[i] \in Points
                      /\ Previous(ring, i) \in Range(ring) /\ ring[i] \in Range(ring)
  <2> SUFFICES ASSUME NEW i \in 1..n
               PROVE  /\ Previous(ring, i) \in Points /\ ring[i] \in Points
                      /\ Previous(ring, i) \in Range(ring) /\ ring[i] \in Range(ring)
    OBVIOUS
  <2>1. PICK j \in 1..n : Previous(ring, i) = ring[j]
    <3>1. CASE i = 1
      <4>1. n \in 1..n
        OBVIOUS
      <4> QED
        BY <1>2, <3>1, <4>1 DEF Previous
    <3>2. CASE i # 1
      <4>1. i - 1 \in 1..n
        BY <3>2
      <4> QED
        BY <3>2, <4>1 DEF Previous
    <3> QED
      BY <3>1, <3>2
  <2> QED
    BY <1>2, <2>1 DEF Range
<1>6. \A i \in 1..n : pieces[i] = Clipped(Previous(ring, i), ring[i], side)
  BY <1>3
<1>7. \A i \in 1..n : pieces[i] \in Seq(Points)
  <2>1. \A a, b \in Points : Clipped(a, b, side) \in Seq(Points)
    BY ClippedPiece
  <2> QED
    BY <1>5, <1>6, <2>1
<1>8. pieces \in Seq(Seq(Points)) /\ Len(pieces) = n /\ DOMAIN pieces = 1..n
  BY <1>3, <1>7
<1>9. clip \in Seq(Points) /\ Range(clip) = UNION {Range(pieces[i]) : i \in 1..n}
  BY <1>4, <1>8, FlattenHoldsAll
<1>10. Lies(clip, side)
  <2>1. \A i \in 1..n : \A p \in Range(pieces[i]) : Inside(p, side)
    BY <1>5, <1>6, ClippedPiece
  <2> QED
    BY <1>9, <2>1 DEF Lies
<1>11. ASSUME NEW other \in Sides, Lies(ring, other) PROVE Lies(clip, other)
  <2>1. \A i \in 1..n : Inside(Previous(ring, i), other) /\ Inside(ring[i], other)
    BY <1>5, <1>11 DEF Lies
  <2>2. \A i \in 1..n : \A p \in Range(pieces[i]) : Inside(p, other)
    BY <1>5, <1>6, <2>1, ClippedPiece
  <2> QED
    BY <1>9, <2>2 DEF Lies
<1>12. ASSUME NEW p \in Range(ring), Inside(p, side) PROVE p \in Range(clip)
  <2>1. PICK i \in 1..n : p = ring[i]
    BY <1>2 DEF Range
  <2>2. p \in Range(pieces[i])
    BY <1>5, <1>6, <1>12, <2>1, ClippedPiece
  <2> QED
    BY <1>9, <2>2
<1>13. ASSUME Lies(ring, side) PROVE clip = ring
  <2>1. \A i \in 1..n : Inside(Previous(ring, i), side) /\ Inside(ring[i], side)
    BY <1>5, <1>13 DEF Lies
  <2>2. \A i \in 1..n : pieces[i] = <<ring[i]>>
    BY <1>5, <1>6, <2>1, ClippedPiece
  <2>3. \A i \in DOMAIN ring : pieces[i] = <<ring[i]>>
    BY <1>2, <2>2
  <2>4. Len(pieces) = Len(ring) /\ pieces \in Seq(Seq(Points))
    BY <1>2, <1>8
  <2>5. FlattenSeq(pieces) = ring
    BY <2>3, <2>4, FlattenSingles
  <2> QED
    BY <1>4, <2>5
<1>14. ASSUME Lies(ring, Beyond(side)) PROVE clip = <<>>
  <2>1. \A i \in 1..n : ~Inside(Previous(ring, i), side) /\ ~Inside(ring[i], side)
    BY <1>5, <1>14, BeyondIsOutside DEF Lies
  <2>2. \A i \in 1..n : pieces[i] = <<>>
    BY <1>5, <1>6, <2>1, ClippedPiece
  <2>3. Range(<<>>) = {}
    BY DEF Range
  <2>4. Range(clip) = {}
    BY <1>9, <2>2, <2>3
  <2> QED
    BY <1>9, <2>4 DEF Range
<1> QED
  BY <1>1, <1>9, <1>10, <1>11, <1>12, <1>13, <1>14

\* A corner in a viewport, and the four sides it is inside of.
InBbox(p, b) == Within([lat |-> p[1], lng |-> p[2]], b)

LEMMA ViewHasFourSides ==
    ASSUME NEW b \in Bboxes
    PROVE  /\ {AtLeast(1, b.minLat), AtMost(1, b.maxLat), AtLeast(2, b.minLng), AtMost(2, b.maxLng)} \subseteq Sides
           /\ \A p \in Points :
                  InBbox(p, b) <=> /\ Inside(p, AtLeast(1, b.minLat)) /\ Inside(p, AtMost(1, b.maxLat))
                                   /\ Inside(p, AtLeast(2, b.minLng)) /\ Inside(p, AtMost(2, b.maxLng))
<1>1. b.minLat \in Int /\ b.maxLat \in Int /\ b.minLng \in Int /\ b.maxLng \in Int
  BY DEF Bboxes
<1>2. \A k \in 1..2, v \in Int : AtLeast(k, v) \in Sides /\ AtMost(k, v) \in Sides
  BY DEF AtLeast, AtMost, Sides
<1>3. ASSUME NEW p \in Points, NEW k \in 1..2, NEW v \in Int
      PROVE  (Inside(p, AtLeast(k, v)) <=> v <= p[k]) /\ (Inside(p, AtMost(k, v)) <=> p[k] <= v)
  <2>1. p[k] \in Int
    BY DEF Points
  <2> QED
    BY <2>1 DEF Inside, AtLeast, AtMost
<1>4. ASSUME NEW p \in Points
      PROVE  InBbox(p, b) <=> /\ Inside(p, AtLeast(1, b.minLat)) /\ Inside(p, AtMost(1, b.maxLat))
                              /\ Inside(p, AtLeast(2, b.minLng)) /\ Inside(p, AtMost(2, b.maxLng))
  <2>1. InBbox(p, b) <=> b.minLat <= p[1] /\ p[1] <= b.maxLat /\ b.minLng <= p[2] /\ p[2] <= b.maxLng
    BY DEF InBbox, Within
  <2>2. /\ Inside(p, AtLeast(1, b.minLat)) <=> b.minLat <= p[1]
        /\ Inside(p, AtMost(1, b.maxLat)) <=> p[1] <= b.maxLat
    BY <1>1, <1>3
  <2>3. /\ Inside(p, AtLeast(2, b.minLng)) <=> b.minLng <= p[2]
        /\ Inside(p, AtMost(2, b.maxLng)) <=> p[2] <= b.maxLng
    BY <1>1, <1>3
  <2> QED
    BY <2>1, <2>2, <2>3
<1> QED
  BY <1>1, <1>2, <1>4

\* A ring lies beyond a side when all its corners do.
LEMMA LiesBeyond ==
    ASSUME NEW ring \in Seq(Points), NEW k \in 1..2, NEW v \in Int
    PROVE  /\ (\A p \in Range(ring) : p[k] < v) => Lies(ring, Beyond(AtLeast(k, v)))
           /\ (\A p \in Range(ring) : p[k] > v) => Lies(ring, Beyond(AtMost(k, v)))
<1>1. ASSUME NEW p \in Range(ring) PROVE p[k] \in Int
  <2>1. p \in Points
    BY RangeOfSeq
  <2> QED
    BY <2>1 DEF Points
<1>2. Beyond(AtLeast(k, v)) = [axis |-> k, sign |-> -1, at |-> v - 1]
  BY DEF Beyond, AtLeast
<1>3. Beyond(AtMost(k, v)) = [axis |-> k, sign |-> 1, at |-> v + 1]
  BY DEF Beyond, AtMost
<1>4. \A p \in Range(ring) : p[k] < v => Inside(p, Beyond(AtLeast(k, v)))
  BY <1>1, <1>2 DEF Inside
<1>5. \A p \in Range(ring) : p[k] > v => Inside(p, Beyond(AtMost(k, v)))
  BY <1>1, <1>3 DEF Inside
<1> QED
  BY <1>4, <1>5 DEF Lies

\* What geo.ts says of its four clips: what remains of a ring lies in all four half-planes, that
\* is, in the viewport; each corner of the ring in the viewport is still a corner, a ring in
\* the viewport is left as it was, and nothing is left of one to one side of it.
THEOREM ClippedToTheView ==
    ASSUME NEW ring \in Seq(Points), NEW b \in Bboxes
    PROVE  /\ ClipRingToBbox(ring, b) \in Seq(Points)
           /\ \A p \in Range(ClipRingToBbox(ring, b)) : InBbox(p, b)
           /\ Len(ring) >= 3 => \A p \in Range(ring) : InBbox(p, b) => p \in Range(ClipRingToBbox(ring, b))
           /\ Len(ring) >= 3 /\ (\A p \in Range(ring) : InBbox(p, b)) => ClipRingToBbox(ring, b) = ring
           /\ \/ \A p \in Range(ring) : p[1] < b.minLat
              \/ \A p \in Range(ring) : p[1] > b.maxLat
              \/ \A p \in Range(ring) : p[2] < b.minLng
              \/ \A p \in Range(ring) : p[2] > b.maxLng
              => ClipRingToBbox(ring, b) = <<>>
<1>1. PICK s1, s2, s3, s4 : /\ s1 = AtLeast(1, b.minLat) /\ s2 = AtMost(1, b.maxLat)
                            /\ s3 = AtLeast(2, b.minLng) /\ s4 = AtMost(2, b.maxLng)
  OBVIOUS
<1>2. s1 \in Sides /\ s2 \in Sides /\ s3 \in Sides /\ s4 \in Sides
  BY <1>1, ViewHasFourSides
<1>3. \A p \in Points : InBbox(p, b) <=> Inside(p, s1) /\ Inside(p, s2) /\ Inside(p, s3) /\ Inside(p, s4)
  BY <1>1, ViewHasFourSides
<1>4. PICK r1, r2, r3, r4 : /\ r1 = ClipHalfPlane(ring, s1) /\ r2 = ClipHalfPlane(r1, s2)
                            /\ r3 = ClipHalfPlane(r2, s3) /\ r4 = ClipHalfPlane(r3, s4)
  OBVIOUS
<1>5. ClipRingToBbox(ring, b) = IF Len(ring) < 3 THEN <<>> ELSE r4
  BY <1>1, <1>4 DEF ClipRingToBbox, ClipLat, ClipLng
<1>6. /\ r1 \in Seq(Points) /\ Lies(r1, s1)
      /\ \A other \in Sides : Lies(ring, other) => Lies(r1, other)
      /\ \A p \in Range(ring) : Inside(p, s1) => p \in Range(r1)
      /\ Lies(ring, s1) => r1 = ring
      /\ Lies(ring, Beyond(s1)) => r1 = <<>>
  BY <1>2, <1>4, HalfPlaneClips
<1>7. /\ r2 \in Seq(Points) /\ Lies(r2, s2)
      /\ \A other \in Sides : Lies(r1, other) => Lies(r2, other)
      /\ \A p \in Range(r1) : Inside(p, s2) => p \in Range(r2)
      /\ Lies(r1, s2) => r2 = r1
      /\ Lies(r1, Beyond(s2)) => r2 = <<>>
  BY <1>2, <1>4, <1>6, HalfPlaneClips
<1>8. /\ r3 \in Seq(Points) /\ Lies(r3, s3)
      /\ \A other \in Sides : Lies(r2, other) => Lies(r3, other)
      /\ \A p \in Range(r2) : Inside(p, s3) => p \in Range(r3)
      /\ Lies(r2, s3) => r3 = r2
      /\ Lies(r2, Beyond(s3)) => r3 = <<>>
  BY <1>2, <1>4, <1>7, HalfPlaneClips
<1>9. /\ r4 \in Seq(Points) /\ Lies(r4, s4)
      /\ \A other \in Sides : Lies(r3, other) => Lies(r4, other)
      /\ \A p \in Range(r3) : Inside(p, s4) => p \in Range(r4)
      /\ Lies(r3, s4) => r4 = r3
      /\ Lies(r3, Beyond(s4)) => r4 = <<>>
  BY <1>2, <1>4, <1>8, HalfPlaneClips
<1>10. Lies(r4, s1) /\ Lies(r4, s2) /\ Lies(r4, s3) /\ Lies(r4, s4)
  BY <1>2, <1>6, <1>7, <1>8, <1>9
<1>11. \A p \in Range(r4) : InBbox(p, b)
  <2>1. \A p \in Range(r4) : p \in Points
    BY <1>9, RangeOfSeq
  <2> QED
    BY <1>3, <1>10, <2>1 DEF Lies
<1>12. ASSUME NEW p \in Range(ring), InBbox(p, b) PROVE p \in Range(r4)
  <2>1. p \in Points
    BY RangeOfSeq
  <2>2. Inside(p, s1) /\ Inside(p, s2) /\ Inside(p, s3) /\ Inside(p, s4)
    BY <1>3, <1>12, <2>1
  <2>3. p \in Range(r1)
    BY <1>6, <2>2
  <2>4. p \in Range(r2)
    BY <1>7, <2>2, <2>3
  <2>5. p \in Range(r3)
    BY <1>8, <2>2, <2>4
  <2> QED
    BY <1>9, <2>2, <2>5
<1>13. ASSUME \A p \in Range(ring) : InBbox(p, b) PROVE r4 = ring
  <2>1. \A p \in Range(ring) : p \in Points
    BY RangeOfSeq
  <2>2. Lies(ring, s1) /\ Lies(ring, s2) /\ Lies(ring, s3) /\ Lies(ring, s4)
    BY <1>3, <1>13, <2>1 DEF Lies
  <2>3. r1 = ring
    BY <1>6, <2>2
  <2>4. r2 = ring
    BY <1>7, <2>2, <2>3
  <2>5. r3 = ring
    BY <1>8, <2>2, <2>4
  <2> QED
    BY <1>9, <2>2, <2>5
<1>14. ASSUME NEW side \in Sides PROVE Lies(<<>>, side) /\ Lies(<<>>, Beyond(side))
  BY DEF Lies, Range
<1>15. /\ r1 = <<>> => r2 = <<>>
       /\ r2 = <<>> => r3 = <<>>
       /\ r3 = <<>> => r4 = <<>>
  BY <1>2, <1>7, <1>8, <1>9, <1>14
<1>16. ASSUME NEW side \in Sides PROVE Beyond(side) \in Sides
  <2>1. PICK p \in Points : TRUE
    <3>1. [k \in 1..2 |-> 0] \in Points
      BY DEF Points
    <3> QED
      BY <3>1
  <2> QED
    BY BeyondIsOutside
<1>17. /\ Lies(ring, Beyond(s1)) => r4 = <<>>
       /\ Lies(ring, Beyond(s2)) => r4 = <<>>
       /\ Lies(ring, Beyond(s3)) => r4 = <<>>
       /\ Lies(ring, Beyond(s4)) => r4 = <<>>
  <2>1. Beyond(s1) \in Sides /\ Beyond(s2) \in Sides /\ Beyond(s3) \in Sides /\ Beyond(s4) \in Sides
    BY <1>2, <1>16
  <2>2. Lies(ring, Beyond(s1)) => r4 = <<>>
    BY <1>6, <1>15
  <2>3. Lies(ring, Beyond(s2)) => r4 = <<>>
    BY <1>6, <1>7, <1>15, <2>1
  <2>4. Lies(ring, Beyond(s3)) => r4 = <<>>
    BY <1>6, <1>7, <1>8, <1>15, <2>1
  <2>5. Lies(ring, Beyond(s4)) => r4 = <<>>
    BY <1>6, <1>7, <1>8, <1>9, <2>1
  <2> QED
    BY <2>2, <2>3, <2>4, <2>5
<1>18. ASSUME \/ \A p \in Range(ring) : p[1] < b.minLat
              \/ \A p \in Range(ring) : p[1] > b.maxLat
              \/ \A p \in Range(ring) : p[2] < b.minLng
              \/ \A p \in Range(ring) : p[2] > b.maxLng
       PROVE  r4 = <<>>
  <2>1. b.minLat \in Int /\ b.maxLat \in Int /\ b.minLng \in Int /\ b.maxLng \in Int
    BY DEF Bboxes
  <2>2. CASE \A p \in Range(ring) : p[1] < b.minLat
    BY <1>1, <1>17, <2>1, <2>2, LiesBeyond
  <2>3. CASE \A p \in Range(ring) : p[1] > b.maxLat
    BY <1>1, <1>17, <2>1, <2>3, LiesBeyond
  <2>4. CASE \A p \in Range(ring) : p[2] < b.minLng
    BY <1>1, <1>17, <2>1, <2>4, LiesBeyond
  <2>5. CASE \A p \in Range(ring) : p[2] > b.maxLng
    BY <1>1, <1>17, <2>1, <2>5, LiesBeyond
  <2> QED
    BY <1>18, <2>2, <2>3, <2>4, <2>5
<1>19. CASE Len(ring) < 3
  <2>1. ClipRingToBbox(ring, b) = <<>> /\ ~(Len(ring) >= 3)
    BY <1>5, <1>19
  <2>2. Range(<<>>) = {} /\ <<>> \in Seq(Points)
    BY DEF Range
  <2> QED
    BY <2>1, <2>2
<1>20. CASE ~(Len(ring) < 3)
  <2>1. ClipRingToBbox(ring, b) = r4
    BY <1>5, <1>20
  <2> QED
    BY <1>9, <1>11, <1>12, <1>13, <1>18, <2>1
<1> QED
  BY <1>19, <1>20

\* What is known of the request's viewport and of the regions it is to ask about.
ViewInv ==
    /\ inquiry.pc # "idle" => inquiry.box \in Bboxes
    /\ inquiry.pc = "regions" /\ roster # Absent =>
           inquiry.hits = RegionsIntersecting(roster.value, inquiry.box)

\* A region's outline is one of its rings, of three points or more.
LEMMA OutlinesAreRings ==
    ASSUME NEW regions \in FetchedRosters, NEW r \in regions
    PROVE  r.outline \in Seq(Points) /\ Len(r.outline) >= 3
<1>1. PICK raw \in Rosters : regions = {[id |-> s.id, outline |-> ParseOutline(s.rings)] : s \in {s \in raw : Usable(s)}}
  BY DEF FetchedRosters
<1>2. PICK s \in raw : Usable(s) /\ r = [id |-> s.id, outline |-> ParseOutline(s.rings)]
  BY <1>1
<1>3. PICK ring : ring = ParseOutline(s.rings)
  OBVIOUS
<1>4. r.outline = ring /\ Len(ring) >= 3
  <2>1. r.outline = ring
    BY <1>2, <1>3
  <2>2. Len(ring) >= 3
    BY <1>2, <1>3 DEF Usable
  <2> QED
    BY <2>1, <2>2
<1>5. s.rings \subseteq Seq(Points) /\ s.rings # {}
  BY <1>2, RostersAssumption DEF Points, Usable
<1>6. PICK rings : rings = s.rings /\ IsFiniteSet(rings) /\ rings \subseteq Seq(Points) /\ rings # {}
  BY <1>2, <1>5, RostersAssumption
<1>7. PICK m, f : m \in Nat /\ f \in Bijection(1..m, rings)
  <2>1. PICK m \in Nat : ExistsBijection(1..m, rings)
    BY <1>6, FS_NatBijection
  <2> QED
    BY <2>1 DEF ExistsBijection
<1>8. f \in [1..m -> rings] /\ \A q \in rings : \E i \in 1..m : f[i] = q
  BY <1>7 DEF Bijection, Surjection
<1>9. PICK n \in Nat : m = n + 1
  <2>1. m \in Nat /\ m # 0
    BY <1>6, <1>7, <1>8
  <2>2. m - 1 \in Nat /\ m = (m - 1) + 1
    BY <2>1
  <2> QED
    BY <2>2
<1>10. PICK h : h = [i \in 1..(n + 1) |-> Len(f[i])]
  OBVIOUS
<1>11. \A i \in 1..(n + 1) : f[i] \in rings /\ h[i] = Len(f[i]) /\ h[i] \in Int
  <2>1. \A q \in rings : Len(q) \in Int
    BY <1>6
  <2> QED
    BY <1>8, <1>9, <1>10, <2>1
<1>12. PICK i \in 1..(n + 1) : \A j \in 1..(n + 1) : h[j] < h[i] \/ (h[j] = h[i] /\ i <= j)
  <2>1. h \in [1..(n + 1) -> Int]
    BY <1>10, <1>11
  <2> QED
    BY <2>1, GreatestNumber
<1>13. \A q \in rings : Len(q) <= Len(f[i])
  <2> SUFFICES ASSUME NEW q \in rings PROVE Len(q) <= Len(f[i])
    OBVIOUS
  <2>1. PICK j \in 1..(n + 1) : f[j] = q
    BY <1>8, <1>9
  <2>2. h[j] <= h[i] /\ h[j] = Len(q) /\ h[i] = Len(f[i])
    BY <1>11, <1>12, <2>1
  <2> QED
    BY <2>2
<1>14. ring \in rings
  BY <1>3, <1>6, <1>11, <1>13 DEF ParseOutline
<1> QED
  BY <1>4, <1>6, <1>14

\* The regions to ask about are those whose clip is an outline: the ones in view among them, and
\* none to one side of it.
LEMMA HitsAreInView ==
    ASSUME NEW regions \in FetchedRosters, NEW b \in Bboxes, NEW r \in regions
    PROVE  /\ (\A p \in ToSet(r.outline) : Within([lat |-> p[1], lng |-> p[2]], b)) => r \in RegionsIntersecting(regions, b)
           /\ \/ \A p \in ToSet(r.outline) : p[1] < b.minLat
              \/ \A p \in ToSet(r.outline) : p[1] > b.maxLat
              \/ \A p \in ToSet(r.outline) : p[2] < b.minLng
              \/ \A p \in ToSet(r.outline) : p[2] > b.maxLng
              => r \notin RegionsIntersecting(regions, b)
<1>1. PICK ring, clip : ring = r.outline /\ clip = ClipRingToBbox(ring, b)
  OBVIOUS
<1>2. ring \in Seq(Points) /\ Len(ring) >= 3
  BY <1>1, OutlinesAreRings
<1>3. ToSet(ring) = Range(ring)
  BY DEF ToSet, Range
<1>4. r \in RegionsIntersecting(regions, b) <=> Len(clip) >= 3
  BY <1>1 DEF RegionsIntersecting
<1>5. ASSUME \A p \in Range(ring) : InBbox(p, b) PROVE Len(clip) >= 3
  BY <1>1, <1>2, <1>5, ClippedToTheView
<1>6. ASSUME \/ \A p \in Range(ring) : p[1] < b.minLat
             \/ \A p \in Range(ring) : p[1] > b.maxLat
             \/ \A p \in Range(ring) : p[2] < b.minLng
             \/ \A p \in Range(ring) : p[2] > b.maxLng
      PROVE  ~(Len(clip) >= 3)
  <2>1. clip = <<>>
    BY <1>1, <1>2, <1>6, ClippedToTheView
  <2> QED
    BY <2>1
<1>7. \A p : InBbox(p, b) <=> Within([lat |-> p[1], lng |-> p[2]], b)
  BY DEF InBbox
<1> QED
  BY <1>1, <1>3, <1>4, <1>5, <1>6, <1>7

LEMMA ViewStepInv ==
    ASSUME WarningsInv, WarningsInv', ViewInv, [WarningsNext]_warningVars
    PROVE  ViewInv'
<1>1. ASSUME NEW bbox \in WarningQueries, Ask(bbox)
      PROVE  ViewInv'
  <2>1. inquiry' = [pc |-> "met", asked |-> ParseBbox(bbox), box |-> Viewport(bbox), begun |-> clock]
    BY <1>1 DEF Ask
  <2>2. Viewport(bbox) \in Bboxes
    BY <1>1, QueriesAssumption, ViewportCoversScreen DEF Ask, Proper
  <2> QED
    BY <2>1, <2>2 DEF ViewInv
<1>2. CASE LoadMet
  <2>1. inquiry'.pc = "roster" /\ inquiry'.box = inquiry.box /\ inquiry.pc = "met"
    BY <1>2 DEF LoadMet
  <2> QED
    BY <2>1 DEF ViewInv
<1>3. CASE LoadRoster
  <2>1. PICK load, hits : /\ hits = IF load.held = Absent THEN {} ELSE RegionsIntersecting(load.held.value, inquiry.box)
                          /\ roster' = load.held /\ inquiry'.pc = "regions" /\ inquiry'.box = inquiry.box
                          /\ inquiry'.hits = hits /\ inquiry.pc = "roster"
    BY <1>3 DEF LoadRoster
  <2> QED
    BY <2>1 DEF ViewInv
<1>4. ASSUME inquiry.pc = "regions", NEW region \in inquiry.left, LoadRegion(region)
      PROVE  ViewInv'
  <2>1. PICK load :
            LET level == IF load.held = Absent THEN Absent ELSE MapAvalancheWarning(load.held.value, region) IN
            inquiry' = [inquiry EXCEPT
                !.left = @ \ {region},
                !.failed = IF load.held = Absent THEN @ \cup {region} ELSE @,
                !.staleAvalanche = @ \/ load.stale,
                !.entries = IF level = Absent THEN @ ELSE @ \cup {[region |-> region.id, level |-> level]}]
    BY <1>4 DEF LoadRegion
  <2>2. inquiry = [pc |-> "regions", box |-> inquiry.box, begun |-> inquiry.begun, weather |-> inquiry.weather,
                   staleWeather |-> inquiry.staleWeather, staleAvalanche |-> inquiry.staleAvalanche,
                   day |-> inquiry.day, known |-> inquiry.known, entries |-> inquiry.entries,
                   failed |-> inquiry.failed, hits |-> inquiry.hits, left |-> inquiry.left]
    BY <1>4 DEF WarningsInv, RequestInv
  <2>3. {"pc", "box", "hits"} \subseteq DOMAIN inquiry
    BY <2>2
  <2>4. inquiry'.pc = "regions" /\ inquiry'.box = inquiry.box /\ inquiry'.hits = inquiry.hits /\ roster' = roster
    BY <1>4, <2>1, <2>3 DEF LoadRegion
  <2> QED
    BY <1>4, <2>4 DEF ViewInv
<1>5. CASE Answer
  BY <1>5 DEF Answer, NoInquiry, ViewInv
<1>6. CASE UNCHANGED <<inquiry, roster>>
  BY <1>6 DEF ViewInv
<1> QED
  BY <1>1, <1>2, <1>3, <1>4, <1>5, <1>6 DEF WarningsNext, warningVars, Passes

\* A request for warnings asks NVE about each region that lies in the viewport, and about none
\* that lies wholly to one side of it, however many hours old the roster is (regions.ts, geo.ts).
THEOREM AskedAboutTheView == WarningsSpec => []RegionsInView
<1>1. WarningsInv /\ ViewInv => RegionsInView
  <2> SUFFICES ASSUME WarningsInv, ViewInv, inquiry.pc = "regions", roster # Absent,
                      NEW r \in roster.value
               PROVE  /\ (\A p \in ToSet(r.outline) : Within([lat |-> p[1], lng |-> p[2]], inquiry.box)) => r \in inquiry.hits
                      /\ \/ \A p \in ToSet(r.outline) : p[1] < inquiry.box.minLat
                         \/ \A p \in ToSet(r.outline) : p[1] > inquiry.box.maxLat
                         \/ \A p \in ToSet(r.outline) : p[2] < inquiry.box.minLng
                         \/ \A p \in ToSet(r.outline) : p[2] > inquiry.box.maxLng
                         => r \notin inquiry.hits
    BY DEF RegionsInView
  <2>1. roster.value \in FetchedRosters
    BY DEF WarningsInv, CachesInv, Held
  <2>2. PICK b \in Bboxes : b = inquiry.box
    BY DEF ViewInv
  <2>3. inquiry.hits = RegionsIntersecting(roster.value, b)
    BY <2>2 DEF ViewInv
  <2> QED
    BY <2>1, <2>2, <2>3, HitsAreInView
<1>2. WarningsInit => ViewInv
  BY DEF WarningsInit, NoInquiry, ViewInv
<1> QED
  BY <1>1, <1>2, ViewStepInv, WarningsInvariance, PTL DEF WarningsSpec
===============================================================================
