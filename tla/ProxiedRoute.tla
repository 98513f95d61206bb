----------------------------- MODULE ProxiedRoute -----------------------------
(***************************************************************************)
(* A gated, cached proxy route: TtlCache (src/server/cache.ts), serveCached *)
(* (src/server/route-helpers.ts) and an upstream client that asks the      *)
(* outbound gate first, as the transit, species and road routes do, with   *)
(* a per-request transform of the shared document, as the weather route's  *)
(* station filter.                                                         *)
(*                                                                         *)
(* Requests of any key interleave at every await.  The request that starts *)
(* a load owns it; those that find it in flight wait for the same answer.  *)
(***************************************************************************)
EXTENDS OutboundGate, FiniteSets, SequencesExt

CONSTANTS
    Keys,        \* cache keys: viewports or positions, already rounded
    Ttl,         \* ttlMs
    MaxEntries,  \* maxEntries
    MaxRequests, \* bound: requests in a behaviour
    Owners,      \* the requests that carry the settings password
    None         \* no load, no document

ASSUME RouteAssumption ==
    /\ Ttl \in Nat \ {0}
    /\ MaxEntries \in Nat \ {0}
    /\ MaxRequests \in Nat
    /\ Owners \subseteq 1..MaxRequests
    /\ None \notin Nat

VARIABLES
    entries,  \* the cache's Map, least recently used first
    inflight, \* the request that owns the load in flight for a key
    request,  \* the requests, in order of arrival
    uses      \* history: the keys read or written so far, least recent use first

routeVars == <<entries, inflight, request, uses>>
proxyVars == <<gateVars, routeVars>>

Ids == DOMAIN request

\* What a response carries of a document that holds the private station.
Parts == {"whole", "stripped", "nothing"}

Closed == [phase : {"fresh", "stale", "unavailable"}, part : Parts]

RouteInit ==
    /\ GateInit
    /\ entries = <<>>
    /\ inflight = [k \in Keys |-> None]
    /\ request = <<>>
    /\ uses = <<>>

-------------------------------------------------------------------------------
(* The cache. *)

Held(k) == \E i \in DOMAIN entries : entries[i].key = k
PlaceOf(k) == CHOOSE i \in DOMAIN entries : entries[i].key = k
EntryOf(k) == entries[PlaceOf(k)]

\* The entry is there and not past its expiry.
FreshFor(k) == Held(k) /\ now < EntryOf(k).expiresAt

Without(k) == IF Held(k) THEN RemoveAt(entries, PlaceOf(k)) ELSE entries

\* Mutant of Get: reading does not move the entry to the recent end.
GetInPlace(k) == entries

\* get: an entry that is read moves to the recent end, fresh or not.
Get(k) == IF Held(k) THEN Append(Without(k), EntryOf(k)) ELSE entries

\* evictIfOverCapacity
Evicted(rest) == IF Len(rest) < MaxEntries THEN rest ELSE Tail(rest)

\* set
Set(k, doc) == Append(Evicted(Without(k)), [key |-> k, doc |-> doc, expiresAt |-> now + Ttl])

Used(k) == \E i \in DOMAIN uses : uses[i] = k
Position(k) == CHOOSE i \in DOMAIN uses : uses[i] = k

Use(k) == uses' = Append(IF Used(k) THEN RemoveAt(uses, Position(k)) ELSE uses, k)
UseIfHeld(k) == IF Held(k) THEN Use(k) ELSE UNCHANGED uses

-------------------------------------------------------------------------------
(* serveCached: the load. *)

Record(k, phase, arrived, load, doc) ==
    [phase |-> phase, key |-> k, arrived |-> arrived, load |-> load, doc |-> doc]

\* An answered request: all that is left of it is its answer.
Done(answer, part) == [phase |-> answer, part |-> part]

\* The catch: whatever the cache still holds, however old, goes on to the transform.
Fallback(k, arrived) ==
    IF Held(k) THEN Record(k, "recovered", arrived, 0, EntryOf(k).doc)
    ELSE Done("unavailable", "nothing")

Arrives(k, record) ==
    /\ Len(request) < MaxRequests
    /\ request' = Append(request, record)
    /\ entries' = Get(k) /\ UseIfHeld(k)

\* The cached document is fresh.
Hit(k) ==
    /\ FreshFor(k)
    /\ Arrives(k, Record(k, "loaded", travel, 0, EntryOf(k).doc))
    /\ UNCHANGED <<gateVars, inflight>>

\* A load of the key is in flight: share it.
Join(k) ==
    /\ ~FreshFor(k) /\ inflight[k] # None
    /\ Arrives(k, Record(k, "waiting", travel, inflight[k], None))
    /\ UNCHANGED <<gateVars, inflight>>

\* Mutant of NoneInFlight: every miss starts a load of its own.
NoneInFlightIgnored(k) == TRUE

NoneInFlight(k) == inflight[k] = None

\* A load begins; the data it will bring is of about now.
Miss(k) ==
    /\ ~FreshFor(k) /\ NoneInFlight(k)
    /\ Take
    /\ Arrives(k, Record(k, "waiting", travel, Len(request) + 1, None))
    /\ inflight' = [inflight EXCEPT ![k] = Len(request) + 1]

\* The gate refuses: the load fails before anything is sent.
MissGated(k) ==
    /\ ~FreshFor(k) /\ NoneInFlight(k)
    /\ Refuse
    /\ Arrives(k, Fallback(k, travel))
    /\ UNCHANGED inflight

Waiters(r) == {q \in Ids : request[q].phase = "waiting" /\ request[q].load = r}

\* Upstream answers with a document that passes its schema.
LoadSucceeds(r) ==
    /\ r \in Waiters(r)
    /\ LET k == request[r].key
           doc == [asOf |-> request[r].arrived, loadedAt |-> travel]
       IN /\ entries' = Set(k, doc)
          /\ Use(k)
          /\ inflight' = [inflight EXCEPT ![k] = None]
          /\ request' = [q \in Ids |->
                IF q \in Waiters(r)
                  THEN Record(k, "loaded", request[q].arrived, 0, doc)
                  ELSE request[q]]
    /\ UNCHANGED gateVars

\* Mutant of LoadFails: only the request that owns the load learns that it failed.
LoadFailsAlone(r) ==
    /\ r \in Waiters(r)
    /\ inflight' = [inflight EXCEPT ![request[r].key] = None]
    /\ request' = [request EXCEPT ![r] = Fallback(request[r].key, request[r].arrived)]
    /\ entries' = Get(request[r].key) /\ UseIfHeld(request[r].key)
    /\ UNCHANGED gateVars

\* Upstream is unreachable, times out or answers with an error or something malformed.
LoadFails(r) ==
    /\ r \in Waiters(r)
    /\ LET k == request[r].key
       IN /\ inflight' = [inflight EXCEPT ![k] = None]
          /\ request' = [q \in Ids |->
                IF q \in Waiters(r) THEN Fallback(k, request[q].arrived) ELSE request[q]]
          /\ entries' = Get(k) /\ UseIfHeld(k)
    /\ UNCHANGED gateVars

-------------------------------------------------------------------------------
(* serveCached: the transform and the answer. *)

\* What the transform may make of a document for a request: only the owner's sees it whole,
\* and only while the settings say so; a document it cannot strip it refuses to serve.
Transformed(r) == {"stripped", "nothing"} \cup IF r \in Owners THEN {"whole"} ELSE {}

\* "nothing" is the 502 of a refusal.
Answers(r, answer, part) ==
    request' = [request EXCEPT ![r] =
                   Done(IF part = "nothing" THEN "unavailable" ELSE answer, part)]

Transform(r) ==
    /\ r \in Ids /\ request[r].phase = "loaded"
    /\ \E part \in Transformed(r) : Answers(r, "fresh", part)
    /\ UNCHANGED <<gateVars, entries, inflight, uses>>

\* The transform throws: the same catch as for a failed load.
TransformThrows(r) ==
    /\ r \in Ids /\ request[r].phase = "loaded"
    /\ request' = [request EXCEPT ![r] = Fallback(request[r].key, request[r].arrived)]
    /\ entries' = Get(request[r].key) /\ UseIfHeld(request[r].key)
    /\ UNCHANGED <<gateVars, inflight>>

\* Mutant of TransformStale: the stale document goes out as it is.
TransformStaleRaw(r) ==
    /\ r \in Ids /\ request[r].phase = "recovered"
    /\ Answers(r, "stale", "whole")
    /\ UNCHANGED <<gateVars, entries, inflight, uses>>

\* The stale document is transformed like a fresh one; a transform that throws means 502.
TransformStale(r) ==
    /\ r \in Ids /\ request[r].phase = "recovered"
    /\ \E part \in Transformed(r) : Answers(r, "stale", part)
    /\ UNCHANGED <<gateVars, entries, inflight, uses>>

-------------------------------------------------------------------------------

Arrive(k) == Hit(k) \/ Join(k) \/ Miss(k) \/ MissGated(k)

Load(r) == LoadSucceeds(r) \/ LoadFails(r)

Serve(r) == Transform(r) \/ TransformThrows(r) \/ TransformStale(r)

Passes == Advance /\ UNCHANGED routeVars

RouteNext ==
    \/ \E k \in Keys : Arrive(k)
    \/ \E r \in 1..MaxRequests : Load(r) \/ Serve(r)
    \/ Passes

RouteSpec == RouteInit /\ [][RouteNext]_proxyVars

-------------------------------------------------------------------------------
(* Correctness. *)

\* A document is replaced only once it has expired, and by one upstream produced later:
\* concurrent misses never load a key twice or let an old load overwrite a newer one
\* (getOrLoad's single flight).  What is answered as fresh was within its TTL when the
\* request came, or loaded since.
EntriesAreFresh ==
    [][ /\ \A i \in DOMAIN entries, j \in DOMAIN entries' :
             entries[i].key = entries'[j].key /\ entries[i].doc # entries'[j].doc =>
                 /\ now >= entries[i].expiresAt
                 /\ entries'[j].doc.asOf > entries[i].doc.asOf
        /\ \A r \in Ids :
             request'[r].phase = "fresh" /\ request[r].phase # "fresh" =>
                 request[r].doc.loadedAt + Ttl > request[r].arrived ]_proxyVars

\* The station never reaches a request without the password: not from the shared cache,
\* nor by joining the owner's load, nor in a stale answer during an outage.
StationStaysPrivate ==
    \A r \in Ids : request[r] \in Closed /\ request[r].part = "whole" => r \in Owners

\* A document stays available as a fallback until the cache is full and no other held
\* key has gone unused for longer.
OnlyLruLeaves ==
    [][ \A k \in Keys : Held(k) /\ ~Held(k)' =>
          /\ Len(entries) = MaxEntries
          /\ \A other \in Keys \ {k} : Held(other) => Position(k) < Position(other) ]_proxyVars

\* Nobody waits for a load that is over: the load a request waits for is the one in flight
\* for its key, and the request that owns it waits too, so its end will answer them all.
NoWaiterIsOrphaned ==
    \A r \in Ids : request[r].phase = "waiting" =>
        /\ inflight[request[r].key] = request[r].load
        /\ request[r].load \in Waiters(request[r].load)

===============================================================================
