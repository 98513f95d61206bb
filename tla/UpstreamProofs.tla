----------------------------- MODULE UpstreamProofs -----------------------------
(***************************************************************************)
(* Proofs about what stands between the browsers and the upstreams: the    *)
(* outbound gate, the proxied route behind it and its cache, and the       *)
(* snapshot of ships; for every interval, burst, lifetime and capacity.    *)
(***************************************************************************)
EXTENDS ProxiedRoute, ShipsSnapshot, SequenceTheorems, TLAPS

-------------------------------------------------------------------------------
(* The gate bounds the rate of outbound calls, for every interval and      *)
(* burst and however the clock is stepped.                                 *)
(*                                                                         *)
(* WindowBound is not inductive: that no window is over its budget says    *)
(* nothing of what the bucket still holds.  Potential adds that: for every *)
(* past call, the calls since it and the credit left were paid for by the  *)
(* full bucket and the time since it.                                      *)

Potential ==
    \A i \in DOMAIN takes :
        /\ takes[i] <= seen
        /\ (Len(takes) - i + 1) * MinInterval + credit <= Full + (seen - takes[i])

\* What the bucket can believe has passed since the last call did pass.
ClockInv ==
    /\ seen <= travel
    /\ lastRefill # Never => now - lastRefill <= travel - seen

GateInv == GateTypeOK /\ ClockInv /\ Potential /\ WindowBound

\* What a bucket may have been refilled with has been paid for by the time since.
LEMMA PaidFor ==
    ASSUME NEW spent \in Int, NEW credited \in Int, NEW refilled \in Int, NEW full \in Int,
           NEW before \in Int, NEW after \in Int, NEW at \in Int,
           refilled <= credited + (after - before), spent + credited <= full + (before - at)
    PROVE  spent + refilled <= full + (after - at)
OBVIOUS

\* One more call costs one more interval.
LEMMA OneMoreCall ==
    ASSUME NEW n \in Int, NEW i \in Int, NEW m \in Int
    PROVE  ((n + 1) - i + 1) * m = (n - i + 1) * m + m
  OBVIOUS

\* A full bucket is worth a whole number of intervals.
LEMMA FullType == Full \in Nat /\ Full >= MinInterval
<1>1. MinInterval \in Nat /\ Burst \in Nat /\ Burst >= 1 /\ MinInterval >= 1
  BY GateAssumption
<1>2. Burst * MinInterval \in Nat
  BY <1>1
<1>3. Burst * MinInterval >= MinInterval
  BY <1>1
<1> QED
  BY <1>1, <1>2, <1>3 DEF Full

\* The refill adds no more than the clock has moved forward since the last call.
LEMMA RefillBound ==
    ASSUME GateTypeOK, ClockInv
    PROVE  /\ Refilled \in 0..Full
           /\ Refilled <= credit + (travel - seen)
<1>1. Elapsed \in Nat /\ Elapsed <= travel - seen
  BY GateAssumption DEF GateTypeOK, ClockInv, Elapsed
<1>2. credit \in Nat /\ credit <= Full /\ Full \in Nat /\ travel - seen \in Int
  BY FullType DEF GateTypeOK
<1> QED
  BY <1>1, <1>2 DEF Refilled

LEMMA GateInitInv == GateInit => GateInv
<1> SUFFICES ASSUME GateInit PROVE GateInv
  OBVIOUS
<1>1. GateTypeOK
  BY FullType DEF GateInit, GateTypeOK
<1>2. ClockInv
  BY DEF GateInit, ClockInv
<1>3. DOMAIN takes = {}
  BY DEF GateInit
<1>4. Potential /\ WindowBound
  BY <1>3 DEF Potential, WindowBound
<1> QED
  BY <1>1, <1>2, <1>4 DEF GateInv

\* A call that is let through keeps the potential and every window within budget.
LEMMA TakeInv == GateInv /\ Take => GateInv'
<1> SUFFICES ASSUME GateInv, Take PROVE GateInv'
  OBVIOUS
<1> USE GateAssumption
<1>1. /\ GateTypeOK /\ ClockInv /\ Potential /\ WindowBound
      /\ Refilled \in 0..Full /\ Refilled <= credit + (travel - seen)
      /\ Full \in Nat /\ Full >= MinInterval /\ MinInterval \in Nat
      /\ credit \in Nat /\ travel \in Nat /\ seen \in Nat /\ takes \in Seq(Nat)
      /\ seen <= travel
  BY RefillBound, FullType DEF GateInv, GateTypeOK, ClockInv
<1>2. /\ credit' = Refilled - MinInterval /\ Refilled >= MinInterval
      /\ lastRefill' = now /\ seen' = travel /\ takes' = Append(takes, travel)
      /\ now' = now /\ travel' = travel
  BY DEF Take
<1>3. /\ Len(takes') = Len(takes) + 1 /\ Len(takes) \in Nat
      /\ takes' \in Seq(Nat)
      /\ DOMAIN takes' = 1..(Len(takes) + 1)
      /\ \A i \in DOMAIN takes : takes'[i] = takes[i] /\ takes[i] \in Nat
      /\ DOMAIN takes = 1..Len(takes)
      /\ takes'[Len(takes) + 1] = travel
  BY <1>1, <1>2
<1>4. GateTypeOK'
  BY <1>1, <1>2, <1>3, FullType DEF GateTypeOK, Full
<1>5. ClockInv'
  BY <1>1, <1>2 DEF ClockInv, GateTypeOK
<1>6. \A i \in DOMAIN takes :
          /\ takes[i] <= travel
          /\ (Len(takes') - i + 1) * MinInterval + credit' <= Full + (travel - takes[i])
  <2> SUFFICES ASSUME NEW i \in DOMAIN takes
               PROVE  /\ takes[i] <= travel
                      /\ (Len(takes') - i + 1) * MinInterval + credit'
                            <= Full + (travel - takes[i])
    OBVIOUS
  <2>1. /\ takes[i] \in Nat /\ takes[i] <= seen /\ i \in Nat
        /\ (Len(takes) - i + 1) * MinInterval + credit <= Full + (seen - takes[i])
    BY <1>1, <1>3 DEF Potential
  <2>2. ((Len(takes) + 1) - i + 1) * MinInterval
            = (Len(takes) - i + 1) * MinInterval + MinInterval
    BY <1>1, <1>3, <2>1, OneMoreCall
  <2> DEFINE spent == (Len(takes) - i + 1) * MinInterval
  <2>3. spent \in Int
    BY <1>1, <1>3, <2>1
  <2>4. (Len(takes') - i + 1) * MinInterval = spent + MinInterval
    BY <1>3, <2>2
  <2>5. spent + credit <= Full + (seen - takes[i])
    BY <2>1 DEF spent
  <2> HIDE DEF spent
  <2>6. spent + MinInterval + (Refilled - MinInterval) <= Full + (travel - takes[i])
    <3>1. Refilled \in Int /\ Full \in Int /\ MinInterval \in Int /\ credit \in Int /\ takes[i] \in Int
      BY <1>1, <2>1
    <3>2. spent + Refilled <= Full + (travel - takes[i])
      BY <1>1, <2>3, <2>5, <3>1, PaidFor
    <3> HIDE GateAssumption
    <3> QED
      BY <2>3, <3>1, <3>2
  <2>7. (Len(takes') - i + 1) * MinInterval + credit' <= Full + (travel - takes[i])
    BY <1>2, <2>4, <2>6
  <2> QED
    BY <1>1, <2>1, <2>7
<1>7. 1 * MinInterval + credit' <= Full
  BY <1>1, <1>2
<1>8. Potential'
  <2> SUFFICES ASSUME NEW i \in DOMAIN takes'
               PROVE  /\ takes'[i] <= seen'
                      /\ (Len(takes') - i + 1) * MinInterval + credit'
                            <= Full + (seen' - takes'[i])
    BY DEF Potential, Full
  <2>1. CASE i \in DOMAIN takes
    BY <1>2, <1>3, <1>6, <2>1
  <2>2. CASE i = Len(takes) + 1
    <3>1. Len(takes') - i + 1 = 1
      BY <1>3, <2>2
    <3> QED
      BY <1>1, <1>2, <1>3, <1>7, <2>2, <3>1
  <2> QED
    BY <1>3, <2>1, <2>2
<1>9. WindowBound'
  <2> SUFFICES ASSUME NEW i \in DOMAIN takes', NEW j \in DOMAIN takes', i <= j
               PROVE  (j - i + 1) * MinInterval <= Full + (takes'[j] - takes'[i])
    BY DEF WindowBound, Full
  <2>1. CASE j \in DOMAIN takes
    <3>1. i \in DOMAIN takes
      BY <1>3, <2>1
    <3> QED
      BY <1>1, <1>3, <2>1, <3>1 DEF WindowBound
  <2>2. CASE j = Len(takes) + 1 /\ i \in DOMAIN takes
    <3>1. credit' \in Nat /\ (j - i + 1) * MinInterval \in Int /\ takes[i] \in Nat
      BY <1>1, <1>2, <1>3, <2>2
    <3>2. (j - i + 1) * MinInterval + credit' <= Full + (travel - takes[i])
      BY <1>3, <1>6, <2>2
    <3>3. takes'[j] = travel /\ takes'[i] = takes[i] /\ travel \in Nat /\ Full \in Nat
      BY <1>1, <1>3, <2>2
    <3>4. PICK cost \in Int : cost = (j - i + 1) * MinInterval
      BY <3>1
    <3>5. cost <= Full + (travel - takes[i])
      BY <3>1, <3>2, <3>3, <3>4
    <3> QED
      BY <3>3, <3>4, <3>5
  <2>3. CASE j = Len(takes) + 1 /\ i = Len(takes) + 1
    <3>1. j - i + 1 = 1 /\ takes'[j] - takes'[i] = 0
      BY <1>1, <1>3, <2>3
    <3> QED
      BY <1>1, <3>1
  <2> QED
    BY <1>3, <2>1, <2>2, <2>3
<1> QED
  BY <1>4, <1>5, <1>8, <1>9 DEF GateInv

\* Every other step of the gate and of the clock.
LEMMA GateStepInv == GateInv /\ [GateNext]_gateVars => GateInv'
<1> SUFFICES ASSUME GateInv, [GateNext]_gateVars PROVE GateInv'
  OBVIOUS
<1> USE GateAssumption
<1>1. CASE Take
  BY <1>1, TakeInv
<1>2. CASE Refuse
  <2>1. /\ Refilled \in 0..Full /\ Refilled <= credit + (travel - seen) /\ Full \in Nat
        /\ MinInterval \in Nat
        /\ GateTypeOK /\ ClockInv /\ Potential /\ WindowBound
    BY RefillBound, FullType DEF GateInv
  <2>2. /\ credit' = Refilled /\ lastRefill' = now /\ seen' = travel
        /\ now' = now /\ travel' = travel /\ takes' = takes
    BY <1>2 DEF Refuse
  <2>3. GateTypeOK' /\ ClockInv'
    BY <2>1, <2>2 DEF GateTypeOK, ClockInv, Full
  <2>4. Potential'
    <3> SUFFICES ASSUME NEW i \in DOMAIN takes
                 PROVE  /\ takes[i] <= travel
                        /\ (Len(takes) - i + 1) * MinInterval + Refilled
                              <= Full + (travel - takes[i])
      BY <2>2 DEF Potential, Full
    <3> DEFINE spent == (Len(takes) - i + 1) * MinInterval
    <3>0. /\ takes[i] \in Nat /\ i \in Nat /\ Len(takes) \in Nat
          /\ credit \in Nat /\ seen \in Nat /\ travel \in Nat /\ seen <= travel
      BY <2>1 DEF GateTypeOK, ClockInv
    <3>3. takes[i] <= seen /\ spent + credit <= Full + (seen - takes[i])
      BY <2>1 DEF Potential
    <3>1. spent \in Int
      BY <2>1, <3>0
    <3> HIDE DEF spent
    <3>2. takes[i] <= travel /\ spent + Refilled <= Full + (travel - takes[i])
      <4>1. Refilled \in Int /\ Full \in Int
        BY <2>1
      <4> QED
        BY <2>1, <3>0, <3>1, <3>3, <4>1, PaidFor
    <3> QED
      BY <3>2 DEF spent
  <2>5. WindowBound'
    BY <2>1, <2>2 DEF WindowBound, Full
  <2> QED
    BY <2>3, <2>4, <2>5 DEF GateInv
<1>3. CASE Advance
  <2>1. PICK d \in 1..(MaxTravel - travel) : now' = now + d /\ travel' = travel + d
    BY <1>3 DEF Advance
  <2>2. credit' = credit /\ lastRefill' = lastRefill /\ seen' = seen /\ takes' = takes
    BY <1>3 DEF Advance, bucket
  <2>3. GateTypeOK' /\ ClockInv'
    BY <2>1, <2>2 DEF GateInv, GateTypeOK, ClockInv, Full
  <2>4. Potential' /\ WindowBound'
    BY <2>2 DEF GateInv, Potential, WindowBound, Full
  <2> QED
    BY <2>3, <2>4 DEF GateInv
<1>4. CASE StepBack
  <2>1. PICK d \in 1..now : now' = now - d
    BY <1>4 DEF StepBack
  <2>2. /\ travel' = travel /\ credit' = credit /\ lastRefill' = lastRefill
        /\ seen' = seen /\ takes' = takes
    BY <1>4 DEF StepBack, bucket
  <2>3. GateTypeOK' /\ ClockInv'
    BY <2>1, <2>2 DEF GateInv, GateTypeOK, ClockInv, Full
  <2>4. Potential' /\ WindowBound'
    BY <2>2 DEF GateInv, Potential, WindowBound, Full
  <2> QED
    BY <2>3, <2>4 DEF GateInv
<1>5. CASE UNCHANGED gateVars
  BY <1>5 DEF gateVars, GateInv, GateTypeOK, ClockInv, Potential, WindowBound, Full
<1> QED
  BY <1>1, <1>2, <1>3, <1>4, <1>5 DEF GateNext

\* The gate never lets more calls through in a window than a burst and one for each
\* interval the clock moved forward, for every interval and burst (tryTake).
THEOREM RateIsBounded == GateSpec => []WindowBound
<1>1. GateInv => WindowBound
  BY DEF GateInv
<1> QED
  BY <1>1, GateInitInv, GateStepInv, PTL DEF GateSpec

-------------------------------------------------------------------------------
(* The route. *)

\* A step of the route is a step of the gate or does not touch it: only a miss asks it.
LEMMA StepOfGate == [RouteNext]_proxyVars => [GateNext]_gateVars
<1> SUFFICES ASSUME [RouteNext]_proxyVars PROVE [GateNext]_gateVars
  OBVIOUS
<1>1. ASSUME NEW k \in Keys, Arrive(k) PROVE [GateNext]_gateVars
  BY <1>1 DEF Arrive, Hit, Join, Miss, MissGated, GateNext
<1>2. ASSUME NEW r \in 1..MaxRequests, Load(r) \/ Serve(r) PROVE UNCHANGED gateVars
  BY <1>2 DEF Load, LoadSucceeds, LoadFails, Serve, Transform, TransformThrows, TransformStale
<1>3. CASE Passes
  BY <1>3 DEF Passes, GateNext
<1>4. CASE UNCHANGED proxyVars
  BY <1>4 DEF proxyVars
<1> QED
  BY <1>1, <1>2, <1>3, <1>4 DEF RouteNext

\* The cached route implements the gate, whatever the requests do.
THEOREM RouteKeepsGate == RouteSpec => GateSpec
<1>1. RouteInit => GateInit
  BY DEF RouteInit
<1> QED
  BY <1>1, StepOfGate, PTL DEF RouteSpec, GateSpec

\* However many requests come for however many keys, the upstream is called no more than
\* the gate's interval and burst allow (getOrLoad, tryTake).
THEOREM RouteRateIsBounded == RouteSpec => []WindowBound
  BY RouteKeepsGate, RateIsBounded, PTL

-------------------------------------------------------------------------------
(* Waiting requests. *)

IsSequence == \E S : request \in Seq(S)

Waits(r) == request[r].phase = "waiting"

\* The load in flight for a key is owned by a request for that key that waits for it.
OwnerWaits ==
    \A k \in Keys : inflight[k] # None =>
        /\ inflight[k] \in Ids
        /\ Waits(inflight[k])
        /\ request[inflight[k]].load = inflight[k]
        /\ request[inflight[k]].key = k

\* A waiting request waits for the load in flight for its key.
WaitsForOwner ==
    \A r \in Ids : Waits(r) =>
        /\ request[r].key \in Keys
        /\ inflight[request[r].key] # None
        /\ inflight[request[r].key] = request[r].load

\* Only a request that may see it has been answered with the whole document.
OnlyOwnersSee ==
    \A r \in Ids : /\ request[r].phase \in {"fresh", "stale", "unavailable"}
                   /\ request[r].part = "whole"
                   => r \in Owners

RouteInv ==
    /\ IsSequence
    /\ inflight \in [Keys -> Nat \cup {None}]
    /\ OwnerWaits
    /\ WaitsForOwner
    /\ OnlyOwnersSee

LEMMA RouteInvImplies == RouteInv => NoWaiterIsOrphaned /\ StationStaysPrivate
<1> SUFFICES ASSUME RouteInv PROVE NoWaiterIsOrphaned /\ StationStaysPrivate
  OBVIOUS
<1>1. NoWaiterIsOrphaned
  BY DEF RouteInv, OwnerWaits, WaitsForOwner, Waits, NoWaiterIsOrphaned, Waiters
<1>2. ASSUME NEW r \in Ids, request[r] \in Closed
      PROVE  request[r].phase \in {"fresh", "stale", "unavailable"}
  BY <1>2 DEF Closed
<1>3. StationStaysPrivate
  BY <1>2 DEF RouteInv, OnlyOwnersSee, StationStaysPrivate
<1> QED
  BY <1>1, <1>3

\* What an arrival adds: one request at the end, the others as they were.
LEMMA Appended ==
    ASSUME IsSequence, NEW x, request' = Append(request, x)
    PROVE  /\ IsSequence'
           /\ Len(request) \in Nat /\ Ids = 1..Len(request)
           /\ Ids' = 1..(Len(request) + 1)
           /\ request'[Len(request) + 1] = x
           /\ \A r \in Ids : r \in Ids' /\ request'[r] = request[r] /\ r # Len(request) + 1
<1>1. PICK S : request \in Seq(S)
  BY DEF IsSequence
<1>2. request \in Seq(S \cup {x})
  BY <1>1
<1>3. request' \in Seq(S \cup {x})
  BY <1>2
<1> QED
  BY <1>2, <1>3 DEF IsSequence, Ids

\* What the other steps do: no request comes or goes.
LEMMA Rewritten ==
    ASSUME IsSequence, request' = [q \in Ids |-> request'[q]]
    PROVE  IsSequence' /\ Ids' = Ids
<1>1. PICK S : request \in Seq(S)
  BY DEF IsSequence
<1>2. Ids = 1..Len(request) /\ Len(request) \in Nat
  BY <1>1 DEF Ids
<1>3. request' \in [1..Len(request) -> {request'[q] : q \in Ids}]
  BY <1>2
<1>4. request' \in Seq({request'[q] : q \in Ids})
  BY <1>2, <1>3
<1> QED
  BY <1>2, <1>3, <1>4 DEF IsSequence, Ids

LEMMA FallbackIsOver ==
    ASSUME NEW k, NEW arrived
    PROVE  /\ Fallback(k, arrived).phase \in {"recovered", "unavailable"}
           /\ Fallback(k, arrived).phase = "unavailable" => Fallback(k, arrived).part = "nothing"
  BY DEF Fallback, Record, Done

\* An arrival that is not a miss: a request that waits joins the load in flight.
LEMMA ArriveInv ==
    ASSUME RouteInv, NEW k \in Keys, NEW x, request' = Append(request, x),
           inflight' = inflight,
           x.phase = "waiting" => /\ x.key = k /\ x.load = inflight[k] /\ inflight[k] # None,
           x.phase \in {"fresh", "stale", "unavailable"} => x.part # "whole"
    PROVE  RouteInv'
<1> DEFINE n == Len(request) + 1
<1>1. /\ IsSequence' /\ Len(request) \in Nat
      /\ Ids = 1..Len(request) /\ Ids' = 1..n /\ request'[n] = x
      /\ \A r \in Ids : r \in Ids' /\ request'[r] = request[r] /\ r # n
  BY Appended DEF RouteInv
<1>2. \A r \in Ids' : r \in Ids \/ r = n
  BY <1>1
<1> HIDE DEF n
<1>3. OwnerWaits'
  BY <1>1 DEF RouteInv, OwnerWaits, Waits
<1>4. WaitsForOwner'
  BY <1>1, <1>2 DEF RouteInv, WaitsForOwner, Waits
<1>5. OnlyOwnersSee'
  BY <1>1, <1>2 DEF RouteInv, OnlyOwnersSee
<1> QED
  BY <1>1, <1>3, <1>4, <1>5 DEF RouteInv

\* A miss: the new request owns the load it starts.
LEMMA MissInv == ASSUME RouteInv, NEW k \in Keys, Miss(k) PROVE RouteInv'
<1> DEFINE n == Len(request) + 1
           x == Record(k, "waiting", travel, n, None)
<1>1. /\ request' = Append(request, x) /\ inflight' = [inflight EXCEPT ![k] = n]
      /\ inflight[k] = None
  BY DEF Miss, Arrives, NoneInFlight
<1>2. /\ IsSequence' /\ Len(request) \in Nat
      /\ Ids = 1..Len(request) /\ Ids' = 1..n /\ request'[n] = x
      /\ \A r \in Ids : r \in Ids' /\ request'[r] = request[r] /\ r # n
  BY <1>1, Appended DEF RouteInv
<1>3. \A r \in Ids' : r \in Ids \/ r = n
  BY <1>2
<1>4. x.phase = "waiting" /\ x.key = k /\ x.load = n
  BY DEF Record
<1>5. n \in Nat /\ n # None /\ n \in Ids'
  BY <1>2, RouteAssumption
<1> HIDE DEF n, x
<1>6. /\ inflight' \in [Keys -> Nat \cup {None}]
      /\ inflight'[k] = n /\ \A j \in Keys : j # k => inflight'[j] = inflight[j]
  BY <1>1, <1>5 DEF RouteInv
<1>7. OwnerWaits'
  BY <1>2, <1>4, <1>5, <1>6 DEF RouteInv, OwnerWaits, Waits
<1>8. WaitsForOwner'
  <2> SUFFICES ASSUME NEW r \in Ids', Waits(r)'
               PROVE  /\ request'[r].key \in Keys
                      /\ inflight'[request'[r].key] # None
                      /\ inflight'[request'[r].key] = request'[r].load
    BY DEF WaitsForOwner
  <2>1. CASE r = n
    BY <2>1, <1>2, <1>4, <1>5, <1>6
  <2>2. CASE r \in Ids
    <3>1. request'[r] = request[r] /\ Waits(r)
      BY <2>2, <1>2 DEF Waits
    <3>2. request[r].key # k
      BY <3>1, <2>2, <1>1 DEF RouteInv, WaitsForOwner
    <3> QED
      BY <3>1, <3>2, <2>2, <1>6 DEF RouteInv, WaitsForOwner
  <2> QED
    BY <2>1, <2>2, <1>3
<1>9. OnlyOwnersSee'
  BY <1>2, <1>3, <1>4 DEF RouteInv, OnlyOwnersSee
<1> QED
  BY <1>2, <1>6, <1>7, <1>8, <1>9 DEF RouteInv

\* The end of a load, well or badly: its key is free and none of its waiters waits.
LEMMA LoadEndInv ==
    ASSUME RouteInv, NEW r, r \in Waiters(r),
           inflight' = [inflight EXCEPT ![request[r].key] = None],
           request' = [q \in Ids |-> request'[q]],
           \A q \in Ids \ Waiters(r) : request'[q] = request[q],
           \A q \in Waiters(r) : ~Waits(q)',
           \A q \in Waiters(r) : request'[q].phase \in {"fresh", "stale", "unavailable"} =>
                                     request'[q].part # "whole"
    PROVE  RouteInv'
<1> DEFINE k == request[r].key
<1>1. IsSequence' /\ Ids' = Ids
  BY Rewritten DEF RouteInv
<1>2. r \in Ids /\ Waits(r) /\ request[r].load = r /\ k \in Keys /\ inflight[k] = r
  BY DEF Waiters, Waits, RouteInv, WaitsForOwner
<1>3. /\ inflight' \in [Keys -> Nat \cup {None}]
      /\ inflight'[k] = None /\ \A j \in Keys : j # k => inflight'[j] = inflight[j]
  BY <1>2 DEF RouteInv
<1>4. ASSUME NEW q \in Ids, Waits(q)' PROVE /\ request'[q] = request[q] /\ Waits(q)
                                            /\ request[q].load # r
  BY <1>4 DEF Waiters, Waits
<1> HIDE DEF k
<1>5. OwnerWaits'
  <2> SUFFICES ASSUME NEW j \in Keys, inflight'[j] # None
               PROVE  /\ inflight'[j] \in Ids
                      /\ request'[inflight'[j]].phase = "waiting"
                      /\ request'[inflight'[j]].load = inflight'[j]
                      /\ request'[inflight'[j]].key = j
    BY <1>1 DEF OwnerWaits, Waits
  <2>1. j # k /\ inflight'[j] = inflight[j]
    BY <1>3
  <2>2. /\ inflight[j] \in Ids /\ Waits(inflight[j])
        /\ request[inflight[j]].load = inflight[j] /\ request[inflight[j]].key = j
    BY <2>1 DEF RouteInv, OwnerWaits
  <2>3. inflight[j] # r
    BY <2>1, <2>2 DEF k
  <2>4. inflight[j] \in Ids \ Waiters(r)
    BY <2>2, <2>3 DEF Waiters
  <2> QED
    BY <2>1, <2>2, <2>4 DEF Waits
<1>6. WaitsForOwner'
  <2> SUFFICES ASSUME NEW q \in Ids, Waits(q)'
               PROVE  /\ request'[q].key \in Keys
                      /\ inflight'[request'[q].key] # None
                      /\ inflight'[request'[q].key] = request'[q].load
    BY <1>1 DEF WaitsForOwner, Waits
  <2>1. /\ request'[q] = request[q] /\ Waits(q) /\ request[q].load # r
    BY <1>4
  <2>2. /\ request[q].key \in Keys /\ inflight[request[q].key] # None
        /\ inflight[request[q].key] = request[q].load
    BY <2>1 DEF RouteInv, WaitsForOwner
  <2>3. request[q].key # k
    BY <2>1, <2>2, <1>2
  <2> QED
    BY <2>1, <2>2, <2>3, <1>3
<1>7. OnlyOwnersSee'
  BY <1>1 DEF RouteInv, OnlyOwnersSee
<1> QED
  BY <1>1, <1>3, <1>5, <1>6, <1>7 DEF RouteInv

\* One request that does not wait moves on; only its transform decides what it may see.
LEMMA ServeInv ==
    ASSUME RouteInv, NEW r \in Ids, ~Waits(r), NEW x,
           request' = [request EXCEPT ![r] = x], inflight' = inflight,
           x.phase # "waiting",
           x.phase \in {"fresh", "stale", "unavailable"} /\ x.part = "whole" => r \in Owners
    PROVE  RouteInv'
<1>1. PICK S : request \in Seq(S)
  BY DEF RouteInv, IsSequence
<1>2. request' = [q \in Ids |-> request'[q]]
  BY <1>1 DEF Ids
<1>3. IsSequence' /\ Ids' = Ids
  BY <1>2, Rewritten DEF RouteInv
<1>4. request'[r] = x /\ \A q \in Ids : q # r => request'[q] = request[q]
  BY <1>1 DEF Ids
<1>5. OwnerWaits'
  BY <1>3, <1>4 DEF RouteInv, OwnerWaits, Waits
<1>6. WaitsForOwner'
  BY <1>3, <1>4 DEF RouteInv, WaitsForOwner, Waits
<1>7. OnlyOwnersSee'
  BY <1>3, <1>4 DEF RouteInv, OnlyOwnersSee
<1> QED
  BY <1>3, <1>5, <1>6, <1>7 DEF RouteInv

LEMMA RouteInitInv == RouteInit => RouteInv
<1> SUFFICES ASSUME RouteInit PROVE RouteInv
  OBVIOUS
<1>1. request = <<>> /\ inflight = [k \in Keys |-> None]
  BY DEF RouteInit
<1>2. request \in Seq({}) /\ Ids = {}
  BY <1>1 DEF Ids
<1> QED
  BY <1>1, <1>2 DEF RouteInv, IsSequence, OwnerWaits, WaitsForOwner, OnlyOwnersSee

LEMMA RouteStepInv == RouteInv /\ [RouteNext]_proxyVars => RouteInv'
<1> SUFFICES ASSUME RouteInv, [RouteNext]_proxyVars PROVE RouteInv'
  OBVIOUS
<1>1. ASSUME NEW k \in Keys, Hit(k) PROVE RouteInv'
  <2> DEFINE x == Record(k, "loaded", travel, 0, EntryOf(k).doc)
  <2>1. x.phase = "loaded" /\ request' = Append(request, x) /\ inflight' = inflight
    BY <1>1 DEF Hit, Arrives, Record
  <2> HIDE DEF x
  <2> QED
    BY <2>1, ArriveInv
<1>2. ASSUME NEW k \in Keys, Join(k) PROVE RouteInv'
  <2> DEFINE x == Record(k, "waiting", travel, inflight[k], None)
  <2>1. /\ x.phase = "waiting" /\ x.key = k /\ x.load = inflight[k] /\ inflight[k] # None
        /\ request' = Append(request, x) /\ inflight' = inflight
    BY <1>2 DEF Join, Arrives, Record
  <2> HIDE DEF x
  <2> QED
    BY <2>1, ArriveInv
<1>3. ASSUME NEW k \in Keys, Miss(k) PROVE RouteInv'
  BY <1>3, MissInv
<1>4. ASSUME NEW k \in Keys, MissGated(k) PROVE RouteInv'
  <2> DEFINE x == Fallback(k, travel)
  <2>1. /\ x.phase \in {"recovered", "unavailable"}
        /\ x.phase = "unavailable" => x.part = "nothing"
        /\ request' = Append(request, x) /\ inflight' = inflight
    BY <1>4, FallbackIsOver DEF MissGated, Arrives
  <2> HIDE DEF x
  <2> QED
    BY <2>1, ArriveInv
<1>5. ASSUME NEW r \in 1..MaxRequests, LoadSucceeds(r) PROVE RouteInv'
  <2>1. PICK doc : request' = [q \in Ids |->
                IF q \in Waiters(r)
                  THEN Record(request[r].key, "loaded", request[q].arrived, 0, doc)
                  ELSE request[q]]
    BY <1>5 DEF LoadSucceeds
  <2>2. ASSUME NEW q \in Waiters(r) PROVE request'[q].phase \notin
             {"waiting", "fresh", "stale", "unavailable"}
    BY <2>1 DEF Waiters, Record
  <2> QED
    BY <1>5, <2>1, <2>2, LoadEndInv DEF LoadSucceeds, Waits
<1>6. ASSUME NEW r \in 1..MaxRequests, LoadFails(r) PROVE RouteInv'
  <2>1. /\ r \in Waiters(r) /\ inflight' = [inflight EXCEPT ![request[r].key] = None]
        /\ request' = [q \in Ids |-> IF q \in Waiters(r)
                                       THEN Fallback(request[r].key, request[q].arrived)
                                       ELSE request[q]]
    BY <1>6 DEF LoadFails
  <2>2. ASSUME NEW q \in Waiters(r)
        PROVE  /\ request'[q].phase \in {"recovered", "unavailable"}
               /\ request'[q].phase = "unavailable" => request'[q].part = "nothing"
    <3>1. request'[q] = Fallback(request[r].key, request[q].arrived)
      BY <2>1 DEF Waiters
    <3> QED
      BY <3>1, FallbackIsOver
  <2>3. /\ request' = [q \in Ids |-> request'[q]]
        /\ \A q \in Ids \ Waiters(r) : request'[q] = request[q]
        /\ \A q \in Waiters(r) : ~Waits(q)'
        /\ \A q \in Waiters(r) : request'[q].phase \in {"fresh", "stale", "unavailable"} =>
                                     request'[q].part # "whole"
    BY <2>1, <2>2 DEF Waits
  <2> QED
    BY <2>1, <2>3, LoadEndInv
<1>7. ASSUME NEW r \in Ids, ~Waits(r), NEW given \in {"fresh", "stale"},
             NEW part \in Transformed(r), Answers(r, given, part), inflight' = inflight
      PROVE  RouteInv'
  <2> DEFINE x == Done(IF part = "nothing" THEN "unavailable" ELSE given, part)
  <2>1. /\ x.phase # "waiting"
        /\ x.part = "whole" => r \in Owners
        /\ request' = [request EXCEPT ![r] = x]
    BY <1>7 DEF Done, Transformed, Answers
  <2> HIDE DEF x
  <2> QED
    BY <1>7, <2>1, ServeInv
<1>8. ASSUME NEW r \in 1..MaxRequests, Transform(r) PROVE RouteInv'
  BY <1>7, <1>8 DEF Transform, Waits
<1>9. ASSUME NEW r \in 1..MaxRequests, TransformStale(r) PROVE RouteInv'
  BY <1>7, <1>9 DEF TransformStale, Waits
<1>10. ASSUME NEW r \in 1..MaxRequests, TransformThrows(r) PROVE RouteInv'
  <2> DEFINE x == Fallback(request[r].key, request[r].arrived)
  <2>1. /\ x.phase \in {"recovered", "unavailable"}
        /\ x.phase = "unavailable" => x.part = "nothing"
        /\ r \in Ids /\ ~Waits(r)
        /\ request' = [request EXCEPT ![r] = x] /\ inflight' = inflight
    BY <1>10, FallbackIsOver DEF TransformThrows, Waits
  <2> HIDE DEF x
  <2> QED
    BY <2>1, ServeInv
<1>11. CASE UNCHANGED <<request, inflight>>
  <2>1. request' = request /\ inflight' = inflight
    BY <1>11
  <2> QED
    BY <2>1 DEF RouteInv, IsSequence, OwnerWaits, WaitsForOwner, OnlyOwnersSee, Waits, Ids
<1>12. CASE Passes
  BY <1>11, <1>12 DEF Passes, routeVars
<1>13. CASE UNCHANGED proxyVars
  BY <1>11, <1>13 DEF proxyVars, routeVars
<1> QED
  BY <1>1, <1>2, <1>3, <1>4, <1>5, <1>6, <1>8, <1>9, <1>10, <1>12, <1>13
     DEF RouteNext, Arrive, Load, Serve

\* Single flight leaves nobody behind: a waiting request always waits for the load in
\* flight for its key, owned by a request that waits too (getOrLoad).
THEOREM NobodyIsOrphaned == RouteSpec => []NoWaiterIsOrphaned
  BY RouteInvImplies, RouteInitInv, RouteStepInv, PTL DEF RouteSpec

\* The station's readings reach only requests with the password, through the shared
\* cache, a shared load or a stale answer (includeNetatmo, serveCached).
THEOREM StationIsPrivate == RouteSpec => []StationStaysPrivate
  BY RouteInvImplies, RouteInitInv, RouteStepInv, PTL DEF RouteSpec

-------------------------------------------------------------------------------
(* The cache. *)

Docs == [asOf : Nat, loadedAt : Nat]
CacheEntries == [key : Keys, doc : Docs, expiresAt : Nat]

\* b has been used since a was.
Before(a, b) == \E m, n \in DOMAIN uses : m < n /\ uses[m] = a /\ uses[n] = b

UsesInv ==
    /\ uses \in Seq(Keys)
    /\ \A i, j \in DOMAIN uses : uses[i] = uses[j] => i = j

\* The entries stand in the order of their last uses, so no two are of one key.
LruInv ==
    /\ UsesInv
    /\ entries \in Seq(CacheEntries) /\ Len(entries) <= MaxEntries
    /\ \A i \in DOMAIN entries : Used(entries[i].key)
    /\ \A i, j \in DOMAIN entries : i < j => Before(entries[i].key, entries[j].key)

LEMMA Dropped ==
    ASSUME NEW S, NEW s \in Seq(S), NEW i \in DOMAIN s
    PROVE  /\ RemoveAt(s, i) \in Seq(S) /\ Len(RemoveAt(s, i)) = Len(s) - 1
           /\ \A n \in 1..(Len(s) - 1) : RemoveAt(s, i)[n] = s[IF n < i THEN n ELSE n + 1]
<1>1. Len(s) \in Nat /\ i \in 1..Len(s)
  OBVIOUS
<1>2. /\ SubSeq(s, 1, i - 1) \in Seq(S) /\ Len(SubSeq(s, 1, i - 1)) = i - 1
      /\ SubSeq(s, i + 1, Len(s)) \in Seq(S) /\ Len(SubSeq(s, i + 1, Len(s))) = Len(s) - i
  BY <1>1
<1>3. /\ \A n \in 1..(i - 1) : SubSeq(s, 1, i - 1)[n] = s[n]
      /\ \A n \in 1..(Len(s) - i) : SubSeq(s, i + 1, Len(s))[n] = s[n + i]
  BY <1>1
<1> DEFINE before == SubSeq(s, 1, i - 1)
           after == SubSeq(s, i + 1, Len(s))
<1>4. RemoveAt(s, i) = before \o after
  BY DEF RemoveAt
<1> HIDE DEF before, after
<1>5. /\ before \in Seq(S) /\ Len(before) = i - 1 /\ \A n \in 1..(i - 1) : before[n] = s[n]
      /\ after \in Seq(S) /\ Len(after) = Len(s) - i
      /\ \A n \in 1..(Len(s) - i) : after[n] = s[n + i]
  BY <1>2, <1>3 DEF before, after
<1> DEFINE both == before \o after
<1>6. /\ both \in Seq(S) /\ Len(both) = Len(s) - 1
      /\ \A n \in 1..(Len(s) - 1) : both[n] = IF n <= i - 1 THEN before[n] ELSE after[n - (i - 1)]
  <2>0. before \in Seq(S) /\ after \in Seq(S)
    BY <1>5
  <2>1. both \in Seq(S) /\ Len(both) = Len(before) + Len(after)
    BY <2>0
  <2>2. \A n \in 1..(Len(before) + Len(after)) :
            both[n] = IF n <= Len(before) THEN before[n] ELSE after[n - Len(before)]
    BY <2>0
  <2>3. Len(before) + Len(after) = Len(s) - 1
    BY <1>1, <1>5
  <2> QED
    BY <1>5, <2>1, <2>2, <2>3
<1> HIDE DEF both
<1>7. ASSUME NEW n \in 1..(Len(s) - 1) PROVE both[n] = s[IF n < i THEN n ELSE n + 1]
  <2>1. CASE n < i
    BY <1>1, <1>5, <1>6, <2>1
  <2>2. CASE ~(n < i)
    <3>1. both[n] = after[n - (i - 1)] /\ n - (i - 1) \in 1..(Len(s) - i)
      BY <1>1, <1>6, <2>2
    <3>2. (n - (i - 1)) + i = n + 1
      BY <1>1
    <3> QED
      BY <1>5, <2>2, <3>1, <3>2
  <2> QED
    BY <2>1, <2>2
<1> QED
  BY <1>1, <1>4, <1>5, <1>6, <1>7 DEF both

\* Using a key moves it behind all others, which keep their order.
LEMMA UseOrder ==
    ASSUME UsesInv, NEW k \in Keys, Use(k)
    PROVE  /\ UsesInv'
           /\ Used(k)' /\ \A a : Used(a) => Used(a)'
           /\ \A a : Used(a) /\ a # k => Before(a, k)'
           /\ \A a, b : Before(a, b) /\ a # k /\ b # k => Before(a, b)'
<1> DEFINE p == Position(k)
           rest == IF Used(k) THEN RemoveAt(uses, p) ELSE uses
           At(m) == IF Used(k) /\ m > p THEN m - 1 ELSE m
<1>1. uses \in Seq(Keys) /\ Len(uses) \in Nat /\ DOMAIN uses = 1..Len(uses)
  BY DEF UsesInv
<1>2. ASSUME Used(k) PROVE p \in DOMAIN uses /\ uses[p] = k
  BY <1>2 DEF Used, Position
<1>3. /\ rest \in Seq(Keys) /\ Len(rest) \in Nat /\ DOMAIN rest = 1..Len(rest)
      /\ \A n \in DOMAIN rest : /\ rest[n] # k
                                /\ \E m \in DOMAIN uses : At(m) = n /\ rest[n] = uses[m]
  <2>1. CASE Used(k)
    <3>1. /\ rest \in Seq(Keys) /\ Len(rest) = Len(uses) - 1
          /\ \A n \in 1..(Len(uses) - 1) : rest[n] = uses[IF n < p THEN n ELSE n + 1]
      BY <1>1, <1>2, <2>1, Dropped
    <3> HIDE DEF rest, p
    <3>2. ASSUME NEW n \in DOMAIN rest
          PROVE  rest[n] # k /\ \E m \in DOMAIN uses : At(m) = n /\ rest[n] = uses[m]
      <4> DEFINE m == IF n < p THEN n ELSE n + 1
      <4>1. m \in DOMAIN uses /\ m # p /\ rest[n] = uses[m] /\ At(m) = n
        BY <1>1, <1>2, <2>1, <3>1
      <4>2. uses[m] # k
        BY <1>2, <2>1, <4>1 DEF UsesInv
      <4> QED
        BY <4>1, <4>2
    <3> QED
      BY <1>1, <1>2, <2>1, <3>1, <3>2
  <2>2. CASE ~Used(k)
    BY <1>1, <2>2 DEF Used
  <2> QED
    BY <2>1, <2>2
<1>4. ASSUME NEW m \in DOMAIN uses, uses[m] # k
      PROVE  At(m) \in DOMAIN rest /\ rest[At(m)] = uses[m]
  <2>1. CASE Used(k)
    <3>1. /\ rest \in Seq(Keys) /\ Len(rest) = Len(uses) - 1
          /\ \A n \in 1..(Len(uses) - 1) : rest[n] = uses[IF n < p THEN n ELSE n + 1]
      BY <1>1, <1>2, <2>1, Dropped
    <3>2. m # p /\ p \in DOMAIN uses
      BY <1>2, <1>4, <2>1
    <3> HIDE DEF rest, p
    <3> QED
      BY <1>1, <1>4, <2>1, <3>1, <3>2
  <2>2. CASE ~Used(k)
    BY <1>4, <2>2
  <2> QED
    BY <2>1, <2>2
<1>5. \A m, n \in DOMAIN uses : m < n /\ uses[m] # k /\ uses[n] # k => At(m) < At(n)
  <2>1. ASSUME Used(k) PROVE p \in Nat
    BY <1>1, <1>2, <2>1
  <2>2. ASSUME NEW m \in DOMAIN uses, uses[m] # k, Used(k) PROVE m # p
    BY <1>2, <2>2
  <2> HIDE DEF p
  <2> QED
    BY <1>1, <2>1, <2>2
<1>6. uses' = Append(rest, k)
  BY DEF Use
<1> HIDE DEF rest, At
<1>7. /\ uses' \in Seq(Keys) /\ DOMAIN uses' = 1..(Len(rest) + 1)
      /\ uses'[Len(rest) + 1] = k /\ \A n \in DOMAIN rest : uses'[n] = rest[n]
  BY <1>3, <1>6
<1>8. ASSUME NEW i \in DOMAIN rest, NEW j \in DOMAIN rest, rest[i] = rest[j] PROVE i = j
  BY <1>3, <1>8 DEF UsesInv
<1>9. UsesInv'
  <2>1. ASSUME NEW i \in DOMAIN uses', NEW j \in DOMAIN uses', uses'[i] = uses'[j] PROVE i = j
    <3>1. \A n \in DOMAIN uses' : n \in DOMAIN rest \/ n = Len(rest) + 1
      BY <1>3, <1>7
    <3> QED
      BY <1>3, <1>7, <1>8, <2>1, <3>1
  <2> QED
    BY <1>7, <2>1 DEF UsesInv
<1>10. Len(rest) + 1 \in DOMAIN uses' /\ \A n \in DOMAIN rest : n \in DOMAIN uses' /\ n < Len(rest) + 1
  BY <1>3, <1>7
<1>11. Used(k)'
  BY <1>7, <1>10 DEF Used
<1>12. ASSUME NEW a, Used(a), a # k PROVE Used(a)' /\ Before(a, k)'
  <2>1. PICK m \in DOMAIN uses : uses[m] = a
    BY <1>12 DEF Used
  <2> QED
    BY <1>4, <1>7, <1>10, <1>12, <2>1 DEF Used, Before
<1>13. ASSUME NEW a, NEW b, Before(a, b), a # k, b # k PROVE Before(a, b)'
  <2>1. PICK m \in DOMAIN uses, n \in DOMAIN uses : m < n /\ uses[m] = a /\ uses[n] = b
    BY <1>13 DEF Before
  <2> QED
    BY <1>4, <1>5, <1>7, <1>10, <1>13, <2>1 DEF Before
<1> QED
  BY <1>9, <1>11, <1>12, <1>13

LEMMA HeldEntry ==
    ASSUME LruInv, NEW k
    PROVE  /\ Held(k) => /\ PlaceOf(k) \in DOMAIN entries /\ EntryOf(k) \in CacheEntries
                         /\ EntryOf(k) = entries[PlaceOf(k)] /\ EntryOf(k).key = k
           /\ \A i, j \in DOMAIN entries : entries[i].key = entries[j].key => i = j
<1>1. Held(k) => PlaceOf(k) \in DOMAIN entries /\ entries[PlaceOf(k)].key = k
  BY DEF Held, PlaceOf
<1>2. ASSUME NEW i \in DOMAIN entries, NEW j \in DOMAIN entries, entries[i].key = entries[j].key, i < j
      PROVE  FALSE
  <2>1. PICK m \in DOMAIN uses, n \in DOMAIN uses :
          m < n /\ uses[m] = entries[i].key /\ uses[n] = entries[j].key
    BY <1>2 DEF LruInv, Before
  <2> QED
    BY <1>2, <2>1 DEF LruInv, UsesInv
<1>3. ASSUME NEW i \in DOMAIN entries, NEW j \in DOMAIN entries, entries[i].key = entries[j].key
      PROVE  i = j
  BY <1>2, <1>3 DEF LruInv
<1> QED
  BY <1>1, <1>3 DEF LruInv, EntryOf

\* Map.delete leaves the other entries, in their order.
LEMMA WithoutKey ==
    ASSUME LruInv, NEW k
    PROVE  /\ Without(k) \in Seq(CacheEntries)
           /\ Len(Without(k)) = IF Held(k) THEN Len(entries) - 1 ELSE Len(entries)
           /\ \A n \in DOMAIN Without(k) :
                 Without(k)[n].key # k /\ \E i \in DOMAIN entries : Without(k)[n] = entries[i]
           /\ \A i \in DOMAIN entries : entries[i].key # k =>
                 \E n \in DOMAIN Without(k) : Without(k)[n] = entries[i]
           /\ \A m, n \in DOMAIN Without(k) : m < n => Before(Without(k)[m].key, Without(k)[n].key)
<1> DEFINE rest == Without(k)
           p == PlaceOf(k)
<1>1. entries \in Seq(CacheEntries) /\ Len(entries) \in Nat /\ DOMAIN entries = 1..Len(entries)
  BY DEF LruInv
<1>2. CASE ~Held(k)
  <2>1. rest = entries
    BY <1>2 DEF Without
  <2>2. \A n \in DOMAIN entries : entries[n].key # k
    BY <1>2 DEF Held
  <2> HIDE DEF rest
  <2>3. \A m, n \in DOMAIN rest : m < n => Before(rest[m].key, rest[n].key)
    BY <2>1 DEF LruInv
  <2>4. rest \in Seq(CacheEntries) /\ Len(rest) = IF Held(k) THEN Len(entries) - 1 ELSE Len(entries)
    BY <1>1, <1>2, <2>1
  <2>5. /\ \A n \in DOMAIN rest : rest[n].key # k /\ \E i \in DOMAIN entries : rest[n] = entries[i]
        /\ \A i \in DOMAIN entries : entries[i].key # k => \E n \in DOMAIN rest : rest[n] = entries[i]
    BY <2>1, <2>2
  <2> QED
    BY <2>3, <2>4, <2>5 DEF rest
<1>3. CASE Held(k)
  <2>1. p \in DOMAIN entries /\ entries[p].key = k
    BY <1>3, HeldEntry
  <2>2. \A i \in DOMAIN entries : entries[i].key = k => i = p
    BY <2>1, HeldEntry
  <2>3. /\ rest \in Seq(CacheEntries) /\ Len(rest) = Len(entries) - 1
        /\ \A n \in 1..(Len(entries) - 1) : rest[n] = entries[IF n < p THEN n ELSE n + 1]
    BY <1>1, <1>3, <2>1, Dropped DEF Without
  <2> HIDE DEF rest, p
  <2>4. DOMAIN rest = 1..(Len(entries) - 1) /\ p \in 1..Len(entries)
    BY <1>1, <2>1, <2>3
  <2>5. ASSUME NEW n \in DOMAIN rest
        PROVE  /\ (IF n < p THEN n ELSE n + 1) \in DOMAIN entries
               /\ (IF n < p THEN n ELSE n + 1) # p
               /\ rest[n] = entries[IF n < p THEN n ELSE n + 1]
    BY <1>1, <2>3, <2>4
  <2>6. ASSUME NEW i \in DOMAIN entries, entries[i].key # k
        PROVE  \E n \in DOMAIN rest : rest[n] = entries[i]
    <3>1. i # p
      BY <2>1, <2>6
    <3>2. CASE i < p
      <4>1. i \in DOMAIN rest
        BY <1>1, <2>4, <3>2
      <4> QED
        BY <2>5, <3>2, <4>1
    <3>3. CASE ~(i < p)
      <4>1. i - 1 \in DOMAIN rest /\ ~(i - 1 < p) /\ (i - 1) + 1 = i
        BY <1>1, <2>4, <3>1, <3>3
      <4>2. rest[i - 1] = entries[(i - 1) + 1]
        BY <2>5, <4>1
      <4> QED
        BY <4>1, <4>2
    <3> QED
      BY <3>2, <3>3
  <2>7. ASSUME NEW m \in DOMAIN rest, NEW n \in DOMAIN rest, m < n
        PROVE  Before(rest[m].key, rest[n].key)
    <3> DEFINE i == IF m < p THEN m ELSE m + 1
               j == IF n < p THEN n ELSE n + 1
    <3>1. i \in DOMAIN entries /\ j \in DOMAIN entries /\ rest[m] = entries[i] /\ rest[n] = entries[j]
      BY <2>5
    <3>2. i < j
      BY <2>4, <2>7
    <3> HIDE DEF i, j
    <3> QED
      BY <3>1, <3>2 DEF LruInv
  <2> QED
    BY <1>3, <2>2, <2>3, <2>5, <2>6, <2>7 DEF rest
<1> QED
  BY <1>2, <1>3

\* An entry put at the recent end, its key being used, keeps the order.
LEMMA PutLast ==
    ASSUME LruInv, NEW k \in Keys, NEW rest \in Seq(CacheEntries), NEW entry \in CacheEntries,
           Len(rest) < MaxEntries, entry.key = k,
           \A n \in DOMAIN rest : rest[n].key # k /\ Used(rest[n].key),
           \A m, n \in DOMAIN rest : m < n => Before(rest[m].key, rest[n].key),
           entries' = Append(rest, entry), Use(k)
    PROVE  LruInv'
<1>1. /\ UsesInv'
      /\ Used(k)' /\ \A a : Used(a) => Used(a)'
      /\ \A a : Used(a) /\ a # k => Before(a, k)'
      /\ \A a, b : Before(a, b) /\ a # k /\ b # k => Before(a, b)'
  BY UseOrder DEF LruInv
<1>2. Len(rest) \in Nat /\ DOMAIN rest = 1..Len(rest)
  OBVIOUS
<1>3. /\ entries' \in Seq(CacheEntries) /\ Len(entries') = Len(rest) + 1
      /\ DOMAIN entries' = 1..(Len(rest) + 1)
      /\ entries'[Len(rest) + 1] = entry /\ \A n \in DOMAIN rest : entries'[n] = rest[n]
  BY <1>2
<1>4. Len(entries') <= MaxEntries
  BY <1>2, <1>3, RouteAssumption
<1>5. ASSUME NEW n \in DOMAIN entries' PROVE n \in DOMAIN rest \/ n = Len(rest) + 1
  BY <1>2, <1>3, <1>5
<1>6. ASSUME NEW n \in DOMAIN entries', NEW a, a = entries'[n].key PROVE Used(a)'
  BY <1>1, <1>3, <1>5, <1>6
<1>7. ASSUME NEW m \in DOMAIN entries', NEW n \in DOMAIN entries', m < n,
             NEW a, NEW b, a = entries'[m].key, b = entries'[n].key
      PROVE  Before(a, b)'
  <2>1. m \in DOMAIN rest /\ entries'[m] = rest[m]
    BY <1>2, <1>3, <1>7
  <2>2. CASE n = Len(rest) + 1
    BY <1>1, <1>3, <1>7, <2>1, <2>2
  <2>3. CASE n \in DOMAIN rest
    BY <1>1, <1>3, <1>7, <2>1, <2>3
  <2> QED
    BY <1>5, <2>2, <2>3
<1>8. ASSUME NEW n \in DOMAIN entries' PROVE Used(entries[n].key)'
  <2>1. PICK a : a = entries'[n].key
    OBVIOUS
  <2>2. Used(a)'
    BY <1>6, <2>1
  <2> QED
    BY <2>1, <2>2 DEF Used
<1>9. ASSUME NEW m \in DOMAIN entries', NEW n \in DOMAIN entries', m < n
      PROVE  Before(entries[m].key, entries[n].key)'
  <2>1. PICK a, b : a = entries'[m].key /\ b = entries'[n].key
    OBVIOUS
  <2>2. Before(a, b)'
    BY <1>7, <1>9, <2>1
  <2> QED
    BY <2>1, <2>2 DEF Before
<1> QED
  BY <1>1, <1>3, <1>4, <1>8, <1>9 DEF LruInv

\* Reading an entry moves it and changes nothing.
LEMMA GetKeeps ==
    ASSUME LruInv, NEW k \in Keys, entries' = Get(k), UseIfHeld(k)
    PROVE  /\ LruInv'
           /\ \A n \in DOMAIN entries' : \E i \in DOMAIN entries : entries'[n] = entries[i]
           /\ \A h : Held(h) => Held(h)'
<1>1. CASE ~Held(k)
  <2>1. entries' = entries /\ uses' = uses
    BY <1>1 DEF Get, UseIfHeld
  <2> QED
    BY <2>1 DEF LruInv, UsesInv, Used, Before, Held
<1>2. CASE Held(k)
  <2> DEFINE rest == Without(k)
             entry == EntryOf(k)
  <2>1. entries' = Append(rest, entry) /\ Use(k)
    BY <1>2 DEF Get, UseIfHeld
  <2>2. /\ PlaceOf(k) \in DOMAIN entries /\ entry \in CacheEntries
        /\ entry = entries[PlaceOf(k)] /\ entry.key = k
        /\ \A i, j \in DOMAIN entries : entries[i].key = entries[j].key => i = j
    BY <1>2, HeldEntry
  <2>3. /\ rest \in Seq(CacheEntries) /\ Len(rest) = Len(entries) - 1
        /\ \A n \in DOMAIN rest :
              rest[n].key # k /\ \E i \in DOMAIN entries : rest[n] = entries[i]
        /\ \A i \in DOMAIN entries : entries[i].key # k => \E n \in DOMAIN rest : rest[n] = entries[i]
        /\ \A m, n \in DOMAIN rest : m < n => Before(rest[m].key, rest[n].key)
    BY <1>2, WithoutKey
  <2> HIDE DEF rest, entry
  <2>4. Len(rest) < MaxEntries /\ \A n \in DOMAIN rest : Used(rest[n].key)
    <3>1. Len(entries) \in Nat /\ Len(entries) <= MaxEntries
      BY DEF LruInv
    <3> QED
      BY <2>3, <3>1, RouteAssumption DEF LruInv
  <2>5. LruInv'
    BY <2>1, <2>2, <2>3, <2>4, PutLast
  <2>6. /\ Len(rest) \in Nat /\ DOMAIN entries' = 1..(Len(rest) + 1) /\ DOMAIN rest = 1..Len(rest)
        /\ entries'[Len(rest) + 1] = entry /\ \A n \in DOMAIN rest : entries'[n] = rest[n]
    BY <2>1, <2>2, <2>3
  <2>7. ASSUME NEW n \in DOMAIN entries' PROVE \E i \in DOMAIN entries : entries'[n] = entries[i]
    <3>1. n \in DOMAIN rest \/ n = Len(rest) + 1
      BY <2>6, <2>7
    <3> QED
      BY <2>2, <2>3, <2>6, <3>1
  <2>8. ASSUME NEW h, Held(h) PROVE Held(h)'
    <3>1. PICK i \in DOMAIN entries : entries[i].key = h
      BY <2>8 DEF Held
    <3>2. CASE h = k
      <4>1. Len(rest) + 1 \in DOMAIN entries'
        BY <2>6
      <4> QED
        BY <2>2, <2>6, <3>2, <4>1 DEF Held
    <3>3. CASE h # k
      <4>1. PICK n \in DOMAIN rest : rest[n] = entries[i]
        BY <2>3, <3>1, <3>3
      <4>2. n \in DOMAIN entries'
        BY <2>6, <4>1
      <4> QED
        BY <2>6, <3>1, <4>1, <4>2 DEF Held
    <3> QED
      BY <3>2, <3>3
  <2> QED
    BY <2>5, <2>7, <2>8
<1> QED
  BY <1>1, <1>2

LEMMA PositionIs == ASSUME UsesInv, NEW m \in DOMAIN uses PROVE Position(uses[m]) = m
  BY DEF UsesInv, Position

\* Writing an entry replaces the one of its key; an entry of another key leaves only when the
\* cache is full, and then it is the least recently used one.
LEMMA SetKeeps ==
    ASSUME LruInv, NEW k \in Keys, NEW doc \in Docs, now \in Nat, entries' = Set(k, doc), Use(k)
    PROVE  /\ LruInv'
           /\ \A n \in DOMAIN entries' :
                 \/ entries'[n] = [key |-> k, doc |-> doc, expiresAt |-> now + Ttl]
                 \/ entries'[n].key # k /\ \E i \in DOMAIN entries : entries'[n] = entries[i]
           /\ \A h : Held(h) /\ ~Held(h)' =>
                 /\ Len(entries) = MaxEntries
                 /\ \A other : other # h /\ Held(other) => Position(h) < Position(other)
<1> DEFINE rest == Without(k)
           left == Evicted(rest)
           entry == [key |-> k, doc |-> doc, expiresAt |-> now + Ttl]
<1>1. entries' = Append(left, entry)
  BY DEF Set
<1>2. entry \in CacheEntries /\ entry.key = k
  BY RouteAssumption DEF CacheEntries
<1>3. /\ rest \in Seq(CacheEntries)
      /\ Len(rest) = IF Held(k) THEN Len(entries) - 1 ELSE Len(entries)
      /\ \A n \in DOMAIN rest :
            rest[n].key # k /\ \E i \in DOMAIN entries : rest[n] = entries[i]
      /\ \A i \in DOMAIN entries : entries[i].key # k => \E n \in DOMAIN rest : rest[n] = entries[i]
      /\ \A m, n \in DOMAIN rest : m < n => Before(rest[m].key, rest[n].key)
  BY WithoutKey
<1>4. Len(entries) \in Nat /\ Len(entries) <= MaxEntries /\ MaxEntries \in Nat \ {0}
  BY RouteAssumption DEF LruInv
<1>5. left = IF Len(rest) < MaxEntries THEN rest ELSE Tail(rest)
  BY DEF Evicted
<1>6. Len(rest) \in Nat /\ DOMAIN rest = 1..Len(rest)
  BY <1>3
<1> HIDE DEF rest, left, entry
<1> DEFINE from == IF Len(rest) < MaxEntries THEN 0 ELSE 1
<1>7. /\ left \in Seq(CacheEntries) /\ Len(left) = Len(rest) - from /\ Len(left) < MaxEntries
      /\ \A n \in DOMAIN left : n + from \in DOMAIN rest /\ left[n] = rest[n + from]
      /\ from \in {0, 1}
  <2>1. CASE Len(rest) < MaxEntries
    BY <1>3, <1>5, <1>6, <2>1
  <2>2. CASE ~(Len(rest) < MaxEntries)
    <3>1. Len(rest) = MaxEntries /\ rest # <<>> /\ left = Tail(rest)
      BY <1>3, <1>4, <1>5, <1>6, <2>2
    <3> QED
      BY <1>3, <1>4, <1>6, <2>2, <3>1
  <2> QED
    BY <2>1, <2>2
<1>8. \A n \in DOMAIN rest : n > from => n - from \in DOMAIN left /\ left[n - from] = rest[n]
  <2> SUFFICES ASSUME NEW n \in DOMAIN rest, n > from
               PROVE  n - from \in DOMAIN left /\ left[n - from] = rest[n]
    OBVIOUS
  <2> HIDE DEF from
  <2>1. n - from \in 1..Len(left) /\ (n - from) + from = n
    BY <1>6, <1>7
  <2>2. n - from \in DOMAIN left
    BY <1>7, <2>1
  <2> QED
    BY <1>7, <2>1, <2>2
<1> HIDE DEF from
<1>9. \A n \in DOMAIN left : /\ left[n].key # k /\ Used(left[n].key)
                             /\ \E i \in DOMAIN entries : left[n] = entries[i]
  BY <1>3, <1>7 DEF LruInv
<1>10. \A m, n \in DOMAIN left : m < n => Before(left[m].key, left[n].key)
  <2> SUFFICES ASSUME NEW m \in DOMAIN left, NEW n \in DOMAIN left, m < n
               PROVE  Before(left[m].key, left[n].key)
    OBVIOUS
  <2>1. m + from < n + from
    BY <1>7
  <2> QED
    BY <1>3, <1>7, <2>1
<1>11. LruInv'
  BY <1>1, <1>2, <1>7, <1>9, <1>10, PutLast
<1>12. /\ Len(left) \in Nat /\ DOMAIN entries' = 1..(Len(left) + 1) /\ DOMAIN left = 1..Len(left)
       /\ entries'[Len(left) + 1] = entry /\ \A n \in DOMAIN left : entries'[n] = left[n]
  BY <1>1, <1>2, <1>7
<1>13. ASSUME NEW n \in DOMAIN entries'
       PROVE  \/ entries'[n] = entry
              \/ entries'[n].key # k /\ \E i \in DOMAIN entries : entries'[n] = entries[i]
  <2>1. CASE n = Len(left) + 1
    BY <1>12, <2>1
  <2>2. CASE n # Len(left) + 1
    <3>1. n \in DOMAIN left
      BY <1>12, <1>13, <2>2
    <3>2. entries'[n] = left[n] /\ left[n].key # k
      BY <1>9, <1>12, <3>1
    <3>3. PICK i \in DOMAIN entries : left[n] = entries[i]
      BY <1>9, <3>1
    <3> QED
      BY <3>2, <3>3
  <2> QED
    BY <2>1, <2>2
<1>14. ASSUME NEW h, Held(h), ~Held(h)'
       PROVE  /\ Len(entries) = MaxEntries
              /\ \A other : other # h /\ Held(other) => Position(h) < Position(other)
  <2>1. PICK i \in DOMAIN entries : entries[i].key = h
    BY <1>14 DEF Held
  <2>2. \A n \in DOMAIN entries' : entries'[n].key # h
    BY <1>14 DEF Held
  <2>3. h # k
    <3>1. Len(left) + 1 \in DOMAIN entries'
      BY <1>12
    <3> QED
      BY <1>2, <1>12, <2>2, <3>1
  <2>4. PICK n \in DOMAIN rest : rest[n] = entries[i]
    BY <1>3, <2>1, <2>3
  <2>5. ~(n > from)
    <3> SUFFICES ASSUME n > from PROVE FALSE
      OBVIOUS
    <3>1. n - from \in DOMAIN left /\ left[n - from] = rest[n]
      BY <1>8
    <3>2. n - from \in DOMAIN entries' /\ entries'[n - from] = rest[n]
      BY <1>12, <3>1
    <3> QED
      BY <2>1, <2>2, <2>4, <3>2
  <2>6. n = 1 /\ from = 1
    BY <1>6, <1>7, <2>4, <2>5
  <2>7. Len(rest) = Len(entries) /\ ~Held(k) /\ Len(entries) = MaxEntries
    BY <1>3, <1>4, <1>6, <2>6 DEF from
  <2>8. ASSUME NEW other, other # h, Held(other) PROVE Position(h) < Position(other)
    <3>1. PICK j \in DOMAIN entries : entries[j].key = other
      BY <2>8 DEF Held
    <3>2. other # k
      BY <2>7, <2>8
    <3>3. PICK m \in DOMAIN rest : rest[m] = entries[j]
      BY <1>3, <3>1, <3>2
    <3>4. m # n
      BY <2>1, <2>4, <2>8, <3>1, <3>3
    <3>5. n < m
      BY <1>6, <2>6, <3>4
    <3>6. Before(h, other)
      BY <1>3, <2>1, <2>4, <3>1, <3>3, <3>5
    <3>7. PICK x \in DOMAIN uses, y \in DOMAIN uses : x < y /\ uses[x] = h /\ uses[y] = other
      BY <3>6 DEF Before
    <3> QED
      BY <3>7, PositionIs DEF LruInv
  <2> QED
    BY <2>7, <2>8
<1> QED
  BY <1>11, <1>13, <1>14 DEF entry

\* A document expires a Ttl after it was loaded, and upstream had it before that.
Dated(entry) ==
    /\ entry.expiresAt = entry.doc.loadedAt + Ttl
    /\ entry.doc.asOf <= entry.doc.loadedAt

\* A request not answered yet came by t, and a document found for it was within its Ttl then.
Placed(q, t) ==
    q.phase \in {"waiting", "loaded", "recovered"} =>
        /\ q.key \in Keys /\ q.arrived \in Nat /\ q.arrived <= t
        /\ q.phase = "loaded" => q.doc.loadedAt + Ttl > q.arrived

\* A load in flight was begun once the entry it will replace had expired.
Overdue(entry) ==
    inflight[entry.key] # None => request[inflight[entry.key]].arrived >= entry.expiresAt

DocsInv ==
    /\ travel \in Nat /\ now = travel
    /\ \A i \in DOMAIN entries : Dated(entries[i])
    /\ \A e \in ToSet(entries) : Overdue(e)
    /\ \A r \in Ids : Placed(request[r], travel)

CacheInv == RouteInv /\ LruInv /\ DocsInv

LEMMA EntryType ==
    ASSUME LruInv, NEW i \in DOMAIN entries
    PROVE  /\ entries[i] \in CacheEntries /\ entries[i] \in ToSet(entries)
           /\ entries[i].key \in Keys /\ entries[i].expiresAt \in Nat
           /\ entries[i].doc.asOf \in Nat /\ entries[i].doc.loadedAt \in Nat
<1>1. entries[i] \in CacheEntries
  BY DEF LruInv
<1> QED
  BY <1>1 DEF CacheEntries, Docs, ToSet

\* What the catch makes of a request that came by now.
LEMMA FallbackPlaced ==
    ASSUME NEW k \in Keys, NEW arrived \in Nat, NEW t \in Nat, arrived <= t
    PROVE  Placed(Fallback(k, arrived), t)
  BY DEF Fallback, Record, Done, Placed

\* While no load begins, what is in flight stays due.
LEMMA StaysOverdue ==
    ASSUME CacheInv,
           \A j \in Keys : inflight'[j] # None =>
               /\ inflight'[j] = inflight[j]
               /\ request'[inflight[j]].arrived = request[inflight[j]].arrived,
           \A n \in DOMAIN entries' : \/ \E i \in DOMAIN entries : entries'[n] = entries[i]
                                      \/ inflight'[entries'[n].key] = None
    PROVE  \A e \in ToSet(entries') : Overdue(e)'
<1> SUFFICES ASSUME NEW e \in ToSet(entries') PROVE Overdue(e)'
  OBVIOUS
<1>1. PICK n \in DOMAIN entries' : e = entries'[n]
  BY DEF ToSet
<1>2. CASE \E i \in DOMAIN entries : entries'[n] = entries[i]
  <2>1. PICK i \in DOMAIN entries : e = entries[i]
    BY <1>1, <1>2
  <2>2. e.key \in Keys /\ e \in ToSet(entries)
    BY <2>1, EntryType DEF CacheInv
  <2>3. Overdue(e)
    BY <2>2 DEF CacheInv, DocsInv
  <2> QED
    BY <2>2, <2>3 DEF Overdue
<1>3. CASE inflight'[entries'[n].key] = None
  BY <1>1, <1>3 DEF Overdue
<1> QED
  BY <1>1, <1>2, <1>3

\* A key read on arrival: the cache keeps its order, and the new request stands in its place.
LEMMA ArriveCache ==
    ASSUME CacheInv, NEW k \in Keys, NEW x, Arrives(k, x), Placed(x, travel), RouteInv',
           now' = now, travel' = travel,
           \/ inflight' = inflight
           \/ /\ ~FreshFor(k) /\ x.arrived = travel
              /\ inflight' = [inflight EXCEPT ![k] = Len(request) + 1]
    PROVE  LruInv' /\ DocsInv'
<1>1. /\ request' = Append(request, x) /\ entries' = Get(k) /\ UseIfHeld(k)
      /\ LruInv /\ RouteInv
  BY DEF Arrives, CacheInv
<1>2. /\ LruInv'
      /\ \A n \in DOMAIN entries' : \E i \in DOMAIN entries : entries'[n] = entries[i]
  BY <1>1, GetKeeps
<1>3. /\ Len(request) \in Nat /\ Ids = 1..Len(request) /\ Ids' = 1..(Len(request) + 1)
      /\ request'[Len(request) + 1] = x
      /\ \A r \in Ids : r \in Ids' /\ request'[r] = request[r] /\ r # Len(request) + 1
  BY <1>1, Appended DEF RouteInv
<1>4. \A i \in DOMAIN entries' : Dated(entries'[i])
  BY <1>2 DEF CacheInv, DocsInv
<1>5. ASSUME NEW r \in Ids' PROVE Placed(request'[r], travel')
  <2>1. r \in Ids \/ r = Len(request) + 1
    BY <1>3, <1>5
  <2> QED
    BY <1>3, <2>1 DEF CacheInv, DocsInv
<1>6. \A j \in Keys : inflight[j] # None => inflight[j] \in Ids
  BY <1>1 DEF RouteInv, OwnerWaits
<1>7. \A e \in ToSet(entries') : Overdue(e)'
  <2>1. CASE inflight' = inflight
    <3>1. \A j \in Keys : inflight'[j] # None =>
               /\ inflight'[j] = inflight[j]
               /\ request'[inflight[j]].arrived = request[inflight[j]].arrived
      BY <1>3, <1>6, <2>1
    <3> QED
      BY <1>2, <3>1, StaysOverdue
  <2>2. CASE ~FreshFor(k) /\ x.arrived = travel /\ inflight' = [inflight EXCEPT ![k] = Len(request) + 1]
    <3> SUFFICES ASSUME NEW e \in ToSet(entries') PROVE Overdue(e)'
      OBVIOUS
    <3>1. PICK i \in DOMAIN entries : e = entries[i]
      BY <1>2 DEF ToSet
    <3>2. e.key \in Keys /\ e \in ToSet(entries) /\ e.expiresAt \in Nat
      BY <1>1, <3>1, EntryType
    <3>3. /\ inflight'[k] = Len(request) + 1
          /\ \A j \in Keys : j # k => inflight'[j] = inflight[j]
      BY <1>1, <2>2 DEF RouteInv
    <3>4. CASE e.key = k
      <4>1. Held(k) /\ EntryOf(k) = e
        BY <1>1, <3>1, <3>4, HeldEntry DEF Held
      <4>2. ~(now < e.expiresAt) /\ now = travel /\ travel \in Nat
        BY <2>2, <4>1 DEF FreshFor, CacheInv, DocsInv
      <4>3. request'[inflight'[e.key]].arrived = travel
        BY <1>3, <2>2, <3>3, <3>4
      <4> QED
        BY <3>2, <4>2, <4>3 DEF Overdue
    <3>5. CASE e.key # k
      <4>1. Overdue(e)
        BY <3>2 DEF CacheInv, DocsInv
      <4>2. inflight'[e.key] = inflight[e.key]
        BY <3>2, <3>3, <3>5
      <4> QED
        BY <1>3, <1>6, <3>2, <4>1, <4>2 DEF Overdue
    <3> QED
      BY <3>4, <3>5
  <2> QED
    BY <2>1, <2>2
<1> QED
  BY <1>2, <1>4, <1>5, <1>7 DEF CacheInv, DocsInv

\* A load that arrives: its entry is dated now and answers its waiters.
LEMMA LoadCache ==
    ASSUME CacheInv, NEW r \in 1..MaxRequests, LoadSucceeds(r)
    PROVE  /\ LruInv' /\ DocsInv'
           /\ \A h : Held(h) /\ ~Held(h)' =>
                 /\ Len(entries) = MaxEntries
                 /\ \A other : other # h /\ Held(other) => Position(h) < Position(other)
           /\ \A i \in DOMAIN entries, j \in DOMAIN entries' :
                 entries[i].key = entries'[j].key /\ entries[i].doc # entries'[j].doc =>
                     /\ now >= entries[i].expiresAt
                     /\ entries'[j].doc.asOf > entries[i].doc.asOf
<1> DEFINE k == request[r].key
           doc == [asOf |-> request[r].arrived, loadedAt |-> travel]
           new == [key |-> k, doc |-> doc, expiresAt |-> now + Ttl]
<1>1. /\ r \in Waiters(r) /\ entries' = Set(k, doc) /\ Use(k)
      /\ inflight' = [inflight EXCEPT ![k] = None]
      /\ request' = [q \in Ids |-> IF q \in Waiters(r)
                                     THEN Record(k, "loaded", request[q].arrived, 0, doc)
                                     ELSE request[q]]
      /\ now' = now /\ travel' = travel
  BY DEF LoadSucceeds, gateVars
<1>2. /\ travel \in Nat /\ now = travel /\ LruInv /\ RouteInv
      /\ Ttl \in Nat \ {0}
  BY RouteAssumption DEF CacheInv, DocsInv
<1>3. /\ r \in Ids /\ k \in Keys /\ inflight[k] = r /\ r # None
      /\ request[r].arrived \in Nat /\ request[r].arrived <= travel
  <2>1. r \in Ids /\ Waits(r) /\ request[r].load = r
    BY <1>1 DEF Waiters, Waits
  <2>2. Placed(request[r], travel)
    BY <2>1 DEF CacheInv, DocsInv
  <2> QED
    BY <1>2, <2>1, <2>2 DEF Placed, Waits, RouteInv, WaitsForOwner
<1>4. doc \in Docs /\ doc.asOf = request[r].arrived /\ doc.loadedAt = travel
  BY <1>2, <1>3 DEF Docs
<1>5. new.key = k /\ new.doc = doc /\ new.expiresAt = now + Ttl
  OBVIOUS
<1> HIDE DEF k, doc
<1>6. /\ LruInv'
      /\ \A n \in DOMAIN entries' :
            \/ entries'[n] = new
            \/ entries'[n].key # k /\ \E i \in DOMAIN entries : entries'[n] = entries[i]
      /\ \A h : Held(h) /\ ~Held(h)' =>
            /\ Len(entries) = MaxEntries
            /\ \A other : other # h /\ Held(other) => Position(h) < Position(other)
  BY <1>1, <1>2, <1>3, <1>4, SetKeeps
<1> HIDE DEF new
<1>7. Dated(new)
  BY <1>2, <1>3, <1>4, <1>5 DEF Dated
<1>8. \A n \in DOMAIN entries' : Dated(entries'[n])
  <2> SUFFICES ASSUME NEW n \in DOMAIN entries' PROVE Dated(entries'[n])
    OBVIOUS
  <2>1. CASE entries'[n] = new
    BY <1>7, <2>1
  <2>2. CASE \E i \in DOMAIN entries : entries'[n] = entries[i]
    BY <2>2 DEF CacheInv, DocsInv
  <2> QED
    BY <1>6, <2>1, <2>2
<1>9. Ids' = Ids
  <2>1. request' = [q \in Ids |-> request'[q]]
    BY <1>1
  <2> QED
    BY <1>2, <2>1, Rewritten DEF RouteInv
<1>10. \A q \in Ids : q \in Waiters(r) =>
            request'[q] = Record(k, "loaded", request[q].arrived, 0, doc)
  BY <1>1
<1>11. \A q \in Ids : q \notin Waiters(r) => request'[q] = request[q]
  BY <1>1
<1>12. ASSUME NEW q \in Ids PROVE Placed(request'[q], travel') /\ request'[q].arrived = request[q].arrived
  <2>1. Placed(request[q], travel)
    BY <1>12 DEF CacheInv, DocsInv
  <2>2. CASE q \in Waiters(r)
    <3>1. /\ request'[q].arrived = request[q].arrived
          /\ request'[q].phase = "loaded" /\ request'[q].key = k /\ request'[q].doc = doc
      <4>1. request'[q] = Record(k, "loaded", request[q].arrived, 0, doc)
        BY <1>10, <2>2
      <4> QED
        BY <4>1 DEF Record
    <3>2. request[q].phase = "waiting"
      BY <2>2 DEF Waiters
    <3>3. request[q].arrived \in Nat /\ request[q].arrived <= travel
      BY <2>1, <3>2 DEF Placed
    <3> QED
      BY <1>1, <1>2, <1>3, <1>4, <3>1, <3>3 DEF Placed
  <2>3. CASE q \notin Waiters(r)
    BY <1>1, <1>11, <2>1, <2>3
  <2> QED
    BY <2>2, <2>3
<1>13. inflight'[k] = None /\ \A j \in Keys : j # k => inflight'[j] = inflight[j]
  BY <1>1, <1>2, <1>3 DEF RouteInv
<1>14. \A e \in ToSet(entries') : Overdue(e)'
  <2>1. \A j \in Keys : inflight'[j] # None =>
               /\ inflight'[j] = inflight[j]
               /\ request'[inflight[j]].arrived = request[inflight[j]].arrived
    BY <1>2, <1>12, <1>13 DEF RouteInv, OwnerWaits
  <2>2. \A n \in DOMAIN entries' : \/ \E i \in DOMAIN entries : entries'[n] = entries[i]
                                   \/ inflight'[entries'[n].key] = None
    BY <1>5, <1>6, <1>13
  <2> QED
    BY <2>1, <2>2, StaysOverdue
<1>15. DocsInv'
  BY <1>1, <1>2, <1>8, <1>9, <1>12, <1>14 DEF DocsInv
<1>16. ASSUME NEW i \in DOMAIN entries, NEW j \in DOMAIN entries',
              entries[i].key = entries'[j].key, entries[i].doc # entries'[j].doc
       PROVE  now >= entries[i].expiresAt /\ entries'[j].doc.asOf > entries[i].doc.asOf
  <2>1. entries'[j] = new
    <3> SUFFICES ASSUME entries'[j] # new PROVE FALSE
      OBVIOUS
    <3>1. PICK h \in DOMAIN entries : entries'[j] = entries[h]
      BY <1>6
    <3>2. h = i
      BY <1>2, <1>16, <3>1, HeldEntry
    <3> QED
      BY <1>16, <3>1, <3>2
  <2>2. /\ entries[i].key = k /\ entries'[j].doc.asOf = request[r].arrived
    BY <1>4, <1>5, <1>16, <2>1
  <2>3. /\ entries[i] \in ToSet(entries) /\ entries[i].expiresAt \in Nat
        /\ entries[i].doc.asOf \in Nat /\ entries[i].doc.loadedAt \in Nat
    BY <1>2, EntryType
  <2>4. request[r].arrived >= entries[i].expiresAt
    <3>1. Overdue(entries[i])
      BY <2>3 DEF CacheInv, DocsInv
    <3> QED
      BY <1>3, <2>2, <3>1 DEF Overdue
  <2>5. Dated(entries[i])
    BY DEF CacheInv, DocsInv
  <2> QED
    BY <1>2, <1>3, <2>2, <2>3, <2>4, <2>5 DEF Dated
<1> QED
  BY <1>6, <1>15, <1>16

\* The other steps after an arrival: the cache is read for the fallback or not at all, and the
\* requests that own a load keep theirs.
LEMMA ReadCache ==
    ASSUME CacheInv, RouteInv', now' = now, travel' = travel,
           \/ entries' = entries /\ uses' = uses
           \/ \E k \in Keys : entries' = Get(k) /\ UseIfHeld(k),
           Ids' = Ids, \A q \in Ids : Placed(request'[q], travel),
           \A j \in Keys : inflight'[j] # None =>
               /\ inflight'[j] = inflight[j]
               /\ request'[inflight[j]].arrived = request[inflight[j]].arrived
    PROVE  LruInv' /\ DocsInv'
<1>1. /\ LruInv'
      /\ \A n \in DOMAIN entries' : \E i \in DOMAIN entries : entries'[n] = entries[i]
  <2>1. CASE entries' = entries /\ uses' = uses
    BY <2>1 DEF CacheInv, LruInv, UsesInv, Used, Before
  <2>2. CASE \E k \in Keys : entries' = Get(k) /\ UseIfHeld(k)
    BY <2>2, GetKeeps DEF CacheInv
  <2> QED
    BY <2>1, <2>2
<1>2. \A i \in DOMAIN entries' : Dated(entries'[i])
  BY <1>1 DEF CacheInv, DocsInv
<1>3. \A e \in ToSet(entries') : Overdue(e)'
  BY <1>1, StaysOverdue
<1> QED
  BY <1>1, <1>2, <1>3 DEF CacheInv, DocsInv

LEMMA CacheInitInv == RouteInit => CacheInv
<1> SUFFICES ASSUME RouteInit PROVE CacheInv
  OBVIOUS
<1>1. entries = <<>> /\ uses = <<>> /\ request = <<>> /\ now = 0 /\ travel = 0
  BY DEF RouteInit, GateInit
<1>2. LruInv
  BY <1>1, RouteAssumption DEF LruInv, UsesInv
<1>3. DocsInv
  BY <1>1 DEF DocsInv, ToSet, Ids
<1> QED
  BY <1>2, <1>3, RouteInitInv DEF CacheInv

\* What no step does to the cache: drop an entry that is not the least recently used of a full
\* cache, or replace one that has not expired by one that is no newer.
NothingLost ==
    /\ \A k \in Keys : Held(k) /\ ~Held(k)' =>
          /\ Len(entries) = MaxEntries
          /\ \A other \in Keys \ {k} : Held(other) => Position(k) < Position(other)
    /\ \A i \in DOMAIN entries, j \in DOMAIN entries' :
          entries[i].key = entries'[j].key /\ entries[i].doc # entries'[j].doc =>
              /\ now >= entries[i].expiresAt
              /\ entries'[j].doc.asOf > entries[i].doc.asOf

LEMMA ReadLosesNothing ==
    ASSUME LruInv,
           \/ entries' = entries
           \/ \E k \in Keys : entries' = Get(k) /\ UseIfHeld(k)
    PROVE  NothingLost
<1>1. /\ \A n \in DOMAIN entries' : \E i \in DOMAIN entries : entries'[n] = entries[i]
      /\ \A h : Held(h) => Held(h)'
  <2>1. CASE entries' = entries
    BY <2>1 DEF Held
  <2> QED
    BY <2>1, GetKeeps
<1>2. ASSUME NEW i \in DOMAIN entries, NEW j \in DOMAIN entries', entries[i].key = entries'[j].key
      PROVE  entries[i].doc = entries'[j].doc
  BY <1>1, <1>2, HeldEntry
<1> QED
  BY <1>1, <1>2 DEF NothingLost

\* Who begins a load keeps it until it ends, unless its key's load ends.
LEMMA OwnersStay ==
    ASSUME CacheInv, NEW moved,
           \A q \in Ids \ moved : request'[q] = request[q],
           \/ inflight' = inflight /\ \A q \in moved : ~Waits(q)
           \/ \E r \in moved : /\ moved = Waiters(r)
                               /\ inflight' = [inflight EXCEPT ![request[r].key] = None]
    PROVE  \A j \in Keys : inflight'[j] # None =>
               /\ inflight'[j] = inflight[j]
               /\ request'[inflight[j]].arrived = request[inflight[j]].arrived
<1> SUFFICES ASSUME NEW j \in Keys, inflight'[j] # None
             PROVE  /\ inflight'[j] = inflight[j]
                    /\ request'[inflight[j]].arrived = request[inflight[j]].arrived
  OBVIOUS
<1>1. inflight \in [Keys -> Nat \cup {None}]
  BY DEF CacheInv, RouteInv
<1>2. ASSUME inflight[j] # None
      PROVE  /\ inflight[j] \in Ids /\ Waits(inflight[j])
             /\ request[inflight[j]].load = inflight[j] /\ request[inflight[j]].key = j
  BY <1>2 DEF CacheInv, RouteInv, OwnerWaits
<1>3. CASE inflight' = inflight /\ \A q \in moved : ~Waits(q)
  BY <1>2, <1>3
<1>4. CASE \E r \in moved : /\ moved = Waiters(r)
                            /\ inflight' = [inflight EXCEPT ![request[r].key] = None]
  <2>1. PICK r \in moved : /\ moved = Waiters(r)
                           /\ inflight' = [inflight EXCEPT ![request[r].key] = None]
    BY <1>4
  <2>2. r \in Ids /\ Waits(r) /\ request[r].load = r
    BY <2>1 DEF Waiters, Waits
  <2>3. j # request[r].key /\ inflight'[j] = inflight[j]
    BY <1>1, <2>1
  <2>4. inflight[j] \notin moved
    <3> SUFFICES ASSUME inflight[j] \in Waiters(r) PROVE FALSE
      BY <2>1
    <3>1. inflight[j] = r
      BY <1>2, <2>3 DEF Waiters
    <3> QED
      BY <1>2, <2>3, <3>1
  <2> QED
    BY <1>2, <2>3, <2>4
<1> QED
  BY <1>3, <1>4

\* A fresh answer comes of a document that was within its Ttl when the request came, or since.
FreshIsFresh ==
    \A r \in Ids : request'[r].phase = "fresh" /\ request[r].phase # "fresh" =>
        request[r].doc.loadedAt + Ttl > request[r].arrived

\* What a step that keeps no load does to the memory: at most one read of it.
ReadsMemory ==
    /\ now' = now /\ travel' = travel
    /\ \/ entries' = entries /\ uses' = uses
       \/ \E k \in Keys : entries' = Get(k) /\ UseIfHeld(k)

\* And to the loads under way, when the requests in `moved` are all that move.
KeepsOwners(moved) ==
    /\ \A q \in Ids \ moved : request'[q] = request[q]
    /\ \/ inflight' = inflight /\ \A q \in moved : ~Waits(q)
       \/ \E r \in moved : /\ moved = Waiters(r)
                           /\ inflight' = [inflight EXCEPT ![request[r].key] = None]

\* And to those requests: none is answered as fresh that has not loaded.
Settles(moved) ==
    \A q \in moved : /\ Placed(request'[q], travel)
                     /\ request'[q].phase = "fresh" => request[q].phase = "loaded"

LEMMA CacheStepInv == CacheInv /\ [RouteNext]_proxyVars =>
                          CacheInv' /\ (proxyVars' = proxyVars \/ (NothingLost /\ FreshIsFresh))
<1> SUFFICES ASSUME CacheInv, [RouteNext]_proxyVars
             PROVE  CacheInv' /\ (proxyVars' = proxyVars \/ (NothingLost /\ FreshIsFresh))
  OBVIOUS
<1>1. RouteInv' /\ RouteInv /\ LruInv /\ DocsInv
  BY RouteStepInv DEF CacheInv
<1>2. travel \in Nat /\ now = travel /\ Ttl \in Nat \ {0}
  BY <1>1, RouteAssumption DEF DocsInv
<1>3. ASSUME NEW k \in Keys, NEW x, Arrives(k, x)
      PROVE  NothingLost /\ FreshIsFresh
  <2>1. request' = Append(request, x) /\ entries' = Get(k) /\ UseIfHeld(k)
    BY <1>3 DEF Arrives
  <2>2. NothingLost
    BY <1>1, <2>1, ReadLosesNothing
  <2>3. \A r \in Ids : request'[r] = request[r]
    BY <1>1, <2>1, Appended DEF RouteInv
  <2> QED
    BY <2>2, <2>3 DEF FreshIsFresh
<1>4. ASSUME NEW k \in Keys, Arrive(k) PROVE CacheInv' /\ NothingLost /\ FreshIsFresh
  <2>1. ASSUME NEW x, Arrives(k, x), Placed(x, travel), UNCHANGED gateVars \/ Take \/ Refuse,
               \/ inflight' = inflight
               \/ /\ ~FreshFor(k) /\ x.arrived = travel
                  /\ inflight' = [inflight EXCEPT ![k] = Len(request) + 1]
        PROVE  CacheInv' /\ NothingLost /\ FreshIsFresh
    <3>1. now' = now /\ travel' = travel
      BY <2>1 DEF gateVars, Take, Refuse
    <3>2. LruInv' /\ DocsInv'
      BY <1>1, <2>1, <3>1, ArriveCache
    <3> QED
      BY <1>1, <1>3, <2>1, <3>2 DEF CacheInv
  <2>2. CASE Hit(k)
    <3> DEFINE x == Record(k, "loaded", travel, 0, EntryOf(k).doc)
    <3>1. Arrives(k, x) /\ UNCHANGED gateVars /\ inflight' = inflight /\ FreshFor(k)
      BY <2>2 DEF Hit
    <3>2. /\ x.phase = "loaded" /\ x.key = k /\ x.arrived = travel
          /\ x.doc = EntryOf(k).doc
      BY DEF Record
    <3>3. Dated(EntryOf(k)) /\ now < EntryOf(k).expiresAt
      BY <1>1, <3>1, HeldEntry DEF FreshFor, DocsInv
    <3>4. Placed(x, travel)
      BY <1>2, <3>2, <3>3 DEF Placed, Dated
    <3> HIDE DEF x
    <3> QED
      BY <2>1, <3>1, <3>4
  <2>3. CASE Join(k)
    <3> DEFINE x == Record(k, "waiting", travel, inflight[k], None)
    <3>1. Arrives(k, x) /\ UNCHANGED gateVars /\ inflight' = inflight
      BY <2>3 DEF Join
    <3>2. Placed(x, travel)
      BY <1>2 DEF Record, Placed
    <3> HIDE DEF x
    <3> QED
      BY <2>1, <3>1, <3>2
  <2>4. CASE Miss(k)
    <3> DEFINE x == Record(k, "waiting", travel, Len(request) + 1, None)
    <3>1. /\ Arrives(k, x) /\ Take /\ ~FreshFor(k)
          /\ inflight' = [inflight EXCEPT ![k] = Len(request) + 1]
      BY <2>4 DEF Miss
    <3>2. Placed(x, travel) /\ x.arrived = travel
      BY <1>2 DEF Record, Placed
    <3> HIDE DEF x
    <3> QED
      BY <2>1, <3>1, <3>2
  <2>5. CASE MissGated(k)
    <3> DEFINE x == Fallback(k, travel)
    <3>1. Arrives(k, x) /\ Refuse /\ inflight' = inflight
      BY <2>5 DEF MissGated
    <3>2. Placed(x, travel)
      BY <1>2, FallbackPlaced
    <3> HIDE DEF x
    <3> QED
      BY <2>1, <3>1, <3>2
  <2> QED
    BY <1>4, <2>2, <2>3, <2>4, <2>5 DEF Arrive
<1>5. ASSUME NEW r \in 1..MaxRequests, LoadSucceeds(r) PROVE CacheInv' /\ NothingLost /\ FreshIsFresh
  <2>1. /\ LruInv' /\ DocsInv' /\ NothingLost
    BY <1>5, LoadCache DEF NothingLost
  <2>2. ASSUME NEW q \in Ids PROVE request'[q].phase = "loaded" \/ request'[q] = request[q]
    BY <1>5 DEF LoadSucceeds, Record
  <2> QED
    BY <1>1, <2>1, <2>2 DEF CacheInv, FreshIsFresh
<1>6. ASSUME NEW moved \in SUBSET Ids, ReadsMemory, KeepsOwners(moved), Settles(moved),
             request' = [q \in Ids |-> request'[q]]
      PROVE  CacheInv' /\ NothingLost /\ FreshIsFresh
  <2>1. Ids' = Ids
    BY <1>1, <1>6, Rewritten DEF RouteInv
  <2>2. \A q \in Ids : Placed(request[q], travel)
    BY <1>1 DEF DocsInv
  <2>3. \A q \in Ids : Placed(request'[q], travel)
    BY <1>6, <2>2 DEF KeepsOwners, Settles
  <2>4. \A j \in Keys : inflight'[j] # None =>
            /\ inflight'[j] = inflight[j]
            /\ request'[inflight[j]].arrived = request[inflight[j]].arrived
    BY <1>6, OwnersStay DEF KeepsOwners
  <2>5. LruInv' /\ DocsInv'
    BY <1>1, <1>6, <2>1, <2>3, <2>4, ReadCache DEF ReadsMemory
  <2>6. NothingLost
    BY <1>1, <1>6, ReadLosesNothing DEF ReadsMemory, CacheInv
  <2>7. FreshIsFresh
    BY <1>6, <2>2 DEF FreshIsFresh, Placed, KeepsOwners, Settles
  <2> QED
    BY <1>1, <2>5, <2>6, <2>7 DEF CacheInv
<1>7. ASSUME NEW r \in 1..MaxRequests, LoadFails(r) PROVE CacheInv' /\ NothingLost /\ FreshIsFresh
  <2>1. /\ r \in Waiters(r)
        /\ inflight' = [inflight EXCEPT ![request[r].key] = None]
        /\ request' = [q \in Ids |-> IF q \in Waiters(r)
                                       THEN Fallback(request[r].key, request[q].arrived)
                                       ELSE request[q]]
        /\ entries' = Get(request[r].key) /\ UseIfHeld(request[r].key)
        /\ now' = now /\ travel' = travel
    BY <1>7 DEF LoadFails, gateVars
  <2>2. r \in Ids /\ Waiters(r) \subseteq Ids /\ request[r].key \in Keys
    BY <1>1, <2>1 DEF Waiters, RouteInv, WaitsForOwner, Waits
  <2>3. ASSUME NEW q \in Waiters(r)
        PROVE  Placed(request'[q], travel) /\ request'[q].phase # "fresh"
    <3>1. request[q].arrived \in Nat /\ request[q].arrived <= travel
      BY <1>1 DEF Waiters, DocsInv, Placed
    <3>2. request'[q] = Fallback(request[r].key, request[q].arrived)
      BY <2>1, <2>2
    <3> QED
      BY <1>2, <2>2, <3>1, <3>2, FallbackPlaced, FallbackIsOver
  <2>4. request' = [q \in Ids |-> request'[q]] /\ \A q \in Ids \ Waiters(r) : request'[q] = request[q]
    BY <2>1
  <2>5. ReadsMemory
    BY <2>1, <2>2 DEF ReadsMemory
  <2>6. KeepsOwners(Waiters(r))
    BY <2>1, <2>4 DEF KeepsOwners
  <2>7. Settles(Waiters(r))
    BY <2>3 DEF Settles
  <2> QED
    BY <1>6, <2>2, <2>4, <2>5, <2>6, <2>7
<1>8. ASSUME NEW r \in Ids, ~Waits(r), NEW x, request' = [request EXCEPT ![r] = x],
             inflight' = inflight, ReadsMemory, Placed(x, travel),
             x.phase = "fresh" => request[r].phase = "loaded"
      PROVE  CacheInv' /\ NothingLost /\ FreshIsFresh
  <2>1. PICK S : request \in Seq(S)
    BY <1>1 DEF RouteInv, IsSequence
  <2>2. request' = [q \in Ids |-> request'[q]]
    BY <1>8, <2>1 DEF Ids
  <2>3. request'[r] = x /\ \A q \in Ids \ {r} : request'[q] = request[q]
    BY <1>8, <2>1 DEF Ids
  <2>4. KeepsOwners({r})
    BY <1>8, <2>3 DEF KeepsOwners
  <2>5. {r} \in SUBSET Ids /\ Settles({r})
    BY <1>8, <2>3 DEF Settles
  <2>6. ReadsMemory
    BY <1>8
  <2> QED
    BY <1>6, <2>2, <2>4, <2>5, <2>6
<1>9. ASSUME NEW r \in 1..MaxRequests, Serve(r) PROVE CacheInv' /\ NothingLost /\ FreshIsFresh
  <2>1. ASSUME r \in Ids, ~Waits(r), NEW given, NEW part, Answers(r, given, part),
               given = "fresh" => request[r].phase = "loaded", given \in {"fresh", "stale"},
               UNCHANGED <<gateVars, entries, inflight, uses>>
        PROVE  CacheInv' /\ NothingLost /\ FreshIsFresh
    <3> DEFINE x == Done(IF part = "nothing" THEN "unavailable" ELSE given, part)
    <3>1. /\ request' = [request EXCEPT ![r] = x] /\ Placed(x, travel)
          /\ x.phase = "fresh" => given = "fresh"
      BY <2>1 DEF Answers, Done, Placed
    <3>2. ReadsMemory
      BY <2>1 DEF ReadsMemory, gateVars
    <3> HIDE DEF x
    <3> QED
      BY <1>8, <2>1, <3>1, <3>2
  <2>2. CASE Transform(r)
    <3>1. PICK part \in Transformed(r) : Answers(r, "fresh", part)
      BY <2>2 DEF Transform
    <3> QED
      BY <2>1, <2>2, <3>1 DEF Transform, Waits
  <2>3. CASE TransformStale(r)
    <3>1. PICK part \in Transformed(r) : Answers(r, "stale", part)
      BY <2>3 DEF TransformStale
    <3> QED
      BY <2>1, <2>3, <3>1 DEF TransformStale, Waits
  <2>4. CASE TransformThrows(r)
    <3> DEFINE x == Fallback(request[r].key, request[r].arrived)
    <3>1. /\ r \in Ids /\ request[r].phase = "loaded" /\ request' = [request EXCEPT ![r] = x]
          /\ entries' = Get(request[r].key) /\ UseIfHeld(request[r].key)
          /\ inflight' = inflight /\ UNCHANGED gateVars
      BY <2>4 DEF TransformThrows
    <3>2. /\ request[r].key \in Keys
          /\ request[r].arrived \in Nat /\ request[r].arrived <= travel
      BY <1>1, <3>1 DEF DocsInv, Placed
    <3>3. Placed(x, travel) /\ x.phase # "fresh"
      BY <1>2, <3>2, FallbackPlaced, FallbackIsOver
    <3>4. ~Waits(r)
      BY <3>1 DEF Waits
    <3>5. ReadsMemory
      BY <3>1, <3>2 DEF ReadsMemory, gateVars
    <3> HIDE DEF x
    <3> QED
      BY <1>8, <3>1, <3>3, <3>4, <3>5
  <2> QED
    BY <1>9, <2>2, <2>3, <2>4 DEF Serve
<1>10. CASE Passes
  <2>1. entries' = entries /\ inflight' = inflight /\ request' = request /\ uses' = uses
    BY <1>10 DEF Passes, routeVars
  <2>2. travel' \in Nat /\ travel' >= travel /\ now' = travel'
    BY <1>2, <1>10, GateAssumption DEF Passes, Advance
  <2>3. LruInv'
    BY <1>1, <2>1 DEF LruInv, UsesInv, Used, Before
  <2>4. DocsInv'
    <3>1. \A r \in Ids' : Placed(request'[r], travel')
      BY <1>1, <1>2, <2>1, <2>2 DEF DocsInv, Placed, Ids
    <3>2. \A e \in ToSet(entries') : Overdue(e)'
      BY <1>1, <2>1 DEF DocsInv, Overdue
    <3>3. \A i \in DOMAIN entries' : Dated(entries'[i])
      BY <1>1, <2>1 DEF DocsInv
    <3> QED
      BY <2>2, <3>1, <3>2, <3>3 DEF DocsInv
  <2>5. NothingLost /\ FreshIsFresh
    BY <1>1, <2>1, ReadLosesNothing DEF FreshIsFresh
  <2> QED
    BY <1>1, <2>3, <2>4, <2>5 DEF CacheInv
<1>11. CASE UNCHANGED proxyVars
  <2>1. /\ entries' = entries /\ inflight' = inflight /\ request' = request /\ uses' = uses
        /\ now' = now /\ travel' = travel
    BY <1>11 DEF proxyVars, routeVars, gateVars
  <2>2. LruInv'
    BY <1>1, <2>1 DEF LruInv, UsesInv, Used, Before
  <2>3. DocsInv'
    BY <1>1, <2>1 DEF DocsInv, Overdue, Ids
  <2> QED
    BY <1>1, <1>11, <2>2, <2>3 DEF CacheInv
<1> QED
  BY <1>4, <1>5, <1>7, <1>9, <1>10, <1>11 DEF RouteNext, Load

\* A document is replaced only once it has expired, by one upstream produced later, and what is
\* answered as fresh was so when asked, or loaded since: however the requests interleave.
THEOREM CachedStaysFresh == RouteSpec => EntriesAreFresh
<1>1. CacheInv /\ [RouteNext]_proxyVars =>
        [ /\ \A i \in DOMAIN entries, j \in DOMAIN entries' :
               entries[i].key = entries'[j].key /\ entries[i].doc # entries'[j].doc =>
                   /\ now >= entries[i].expiresAt
                   /\ entries'[j].doc.asOf > entries[i].doc.asOf
          /\ \A r \in Ids :
               request'[r].phase = "fresh" /\ request[r].phase # "fresh" =>
                   request[r].doc.loadedAt + Ttl > request[r].arrived ]_proxyVars
  BY CacheStepInv DEF NothingLost, FreshIsFresh
<1> QED
  BY <1>1, CacheInitInv, CacheStepInv, PTL DEF RouteSpec, EntriesAreFresh

\* A document stays a fallback until the cache is full and its key the least recently used.
THEOREM LruIsEvicted == RouteSpec => OnlyLruLeaves
<1>1. CacheInv /\ [RouteNext]_proxyVars =>
        [ \A k \in Keys : Held(k) /\ ~Held(k)' =>
            /\ Len(entries) = MaxEntries
            /\ \A other \in Keys \ {k} : Held(other) => Position(k) < Position(other) ]_proxyVars
  BY CacheStepInv DEF NothingLost
<1> QED
  BY <1>1, CacheInitInv, CacheStepInv, PTL DEF RouteSpec, OnlyLruLeaves

-------------------------------------------------------------------------------
(* The snapshot of ships. *)

\* A held snapshot is not older than a failed refresh may leave it: between fetches by the
\* age of the last attempt, during one by the time it has taken.
AgeInv ==
    /\ held = "ships" /\ ~InFlight => age <= MaxStaleMs + sinceAttempt
    /\ held = "ships" /\ InFlight => age <= startAge + sinceAttempt
    /\ InFlight => sinceAttempt <= MaxFlight

\* A token asked for after a 401 is younger than the fetch that asked, and so is honoured
\* unless trouble is to blame.
RetryInv ==
    /\ stage = "retryToken" => token = "none"
    /\ stage = "retryRequest" =>
          /\ token # "none" /\ tokenAge <= sinceAttempt
          /\ token = "revoked" => luck = "bad"

SnapshotInv == TypeOK /\ AgeInv /\ ServedAgeBound /\ RetryInv

LEMMA CapType == AgeCap \in Nat /\ AgeCap = MaxStaleMs + RefreshMs + MaxFlight + 1
  BY SnapshotAssumption DEF AgeCap

LEMMA OlderType ==
    ASSUME NEW cap \in Nat, NEW a \in 0..cap
    PROVE  /\ Older(a, cap) \in 0..cap
           /\ Older(a, cap) = a + 1 \/ (Older(a, cap) = a /\ a = cap)
  BY DEF Older

LEMMA SnapshotInitInv == Init => SnapshotInv
<1> SUFFICES ASSUME Init PROVE SnapshotInv
  OBVIOUS
<1>1. /\ AgeCap \in Nat /\ ExpiresIn \in Nat /\ MaxTrouble \in Nat /\ RefreshMs \in Nat
      /\ AgeCap > RefreshMs
  BY CapType, SnapshotAssumption
<1>2. TypeOK
  BY <1>1 DEF Init, TypeOK, Stages, Gated, InFlight
<1> QED
  BY <1>2 DEF SnapshotInv, Init, AgeInv, ServedAgeBound, RetryInv, InFlight

LEMMA SnapshotStepInv == SnapshotInv /\ [Next]_vars => SnapshotInv'
<1> SUFFICES ASSUME SnapshotInv, [Next]_vars PROVE SnapshotInv'
  OBVIOUS
<1> USE SnapshotAssumption, CapType
<1> USE DEF SnapshotInv, Stages, InFlight, Gated, snapshotVars, attemptVars, tokenVars,
            historyVars
<1>1. ASSUME ServeHeld \/ ServeFailure PROVE SnapshotInv'
  <2>1. TypeOK'
    BY <1>1 DEF ServeHeld, ServeFailure, TypeOK, Answered
  <2>2. AgeInv' /\ RetryInv'
    BY <1>1 DEF ServeHeld, ServeFailure, AgeInv, RetryInv
  <2>3. ServedAgeBound'
    BY <1>1 DEF ServeHeld, ServeFailure, Answered, TypeOK, AgeInv, ServedAgeBound
  <2> QED
    BY <2>1, <2>2, <2>3
<1>2. ASSUME Begin PROVE SnapshotInv'
  <2>1. TypeOK'
    BY <1>2 DEF Begin, TypeOK
  <2>2. AgeInv' /\ RetryInv' /\ ServedAgeBound'
    BY <1>2 DEF Begin, TypeOK, AgeInv, RetryInv, ServedAgeBound
  <2> QED
    BY <2>1, <2>2
<1>3. ASSUME CachedToken \/ NewToken \/ Unauthorized PROVE SnapshotInv'
  <2>1. TypeOK'
    BY <1>3 DEF CachedToken, NewToken, Unauthorized, NeedsToken, Request, TypeOK
  <2>2. AgeInv' /\ ServedAgeBound'
    BY <1>3 DEF CachedToken, NewToken, Unauthorized, NeedsToken, Request, TypeOK, AgeInv,
                ServedAgeBound
  <2>3. RetryInv'
    BY <1>3 DEF CachedToken, NewToken, Unauthorized, NeedsToken, TokenUsable, Request, TypeOK,
                RetryInv
  <2> QED
    BY <2>1, <2>2, <2>3
<1>4. ASSUME Ships PROVE SnapshotInv'
  <2>1. TypeOK'
    BY <1>4 DEF Ships, Succeed, Answered, Requesting, TypeOK
  <2>2. AgeInv' /\ RetryInv' /\ ServedAgeBound'
    BY <1>4 DEF Ships, Succeed, Answered, Requesting, TypeOK, AgeInv, RetryInv, ServedAgeBound
  <2> QED
    BY <2>1, <2>2
<1>5. ASSUME Fail, InFlight, UNCHANGED tokenVars, luck' \in {"good", "bad"},
             troubles' \in 0..MaxTrouble
      PROVE  SnapshotInv'
  <2>1. TypeOK'
    BY <1>5 DEF Fail, HeldAfterFailure, Answered, TypeOK
  <2>2. AgeInv' /\ RetryInv'
    BY <1>5 DEF Fail, HeldAfterFailure, TypeOK, AgeInv, RetryInv
  <2>3. ServedAgeBound'
    BY <1>5 DEF Fail, HeldAfterFailure, Answered, TypeOK, AgeInv, ServedAgeBound
  <2> QED
    BY <2>1, <2>2, <2>3
<1>6. ASSUME NoToken \/ UnauthorizedAgain \/ NoShips PROVE SnapshotInv'
  <2>1. InFlight
    BY <1>6 DEF NoToken, UnauthorizedAgain, NoShips, NeedsToken, Requesting
  <2>2. luck' \in {"good", "bad"} /\ troubles' \in 0..MaxTrouble
    BY <1>6 DEF NoToken, UnauthorizedAgain, NoShips, Fault, TypeOK
  <2> QED
    BY <1>5, <1>6, <2>1, <2>2 DEF NoToken, UnauthorizedAgain, NoShips
<1>7. ASSUME Revoke PROVE SnapshotInv'
  <2>1. TypeOK'
    BY <1>7 DEF Revoke, TypeOK
  <2>2. AgeInv' /\ RetryInv' /\ ServedAgeBound'
    BY <1>7 DEF Revoke, TypeOK, AgeInv, RetryInv, ServedAgeBound
  <2> QED
    BY <2>1, <2>2
<1>8. ASSUME Tick PROVE SnapshotInv'
  <2>1. /\ age' = Older(age, AgeCap) /\ sinceAttempt' = Older(sinceAttempt, AgeCap)
        /\ tokenAge' = IF token = "none" THEN tokenAge ELSE Older(tokenAge, ExpiresIn)
        /\ UNCHANGED <<held, lastFailure, startAge, stage, token, answer, luck, troubles>>
        /\ InFlight => sinceAttempt < MaxFlight
    BY <1>8 DEF Tick
  <2>2. /\ age \in 0..AgeCap /\ sinceAttempt \in 0..AgeCap /\ tokenAge \in 0..ExpiresIn
        /\ startAge \in 0..AgeCap
    BY DEF TypeOK
  <2>3. /\ age' \in 0..AgeCap /\ (age' = age + 1 \/ age' = age)
        /\ sinceAttempt' \in 0..AgeCap
        /\ sinceAttempt' = sinceAttempt + 1 \/ (sinceAttempt' = sinceAttempt /\ sinceAttempt = AgeCap)
    BY <2>1, <2>2, OlderType
  <2>4. /\ tokenAge' \in 0..ExpiresIn
        /\ tokenAge' <= tokenAge + 1
    BY <2>1, <2>2, OlderType
  <2>5. TypeOK'
    BY <2>1, <2>3, <2>4 DEF TypeOK
  <2>6. AgeInv' /\ ServedAgeBound'
    BY <2>1, <2>2, <2>3 DEF AgeInv, ServedAgeBound
  <2>7. RetryInv'
    BY <2>1, <2>2, <2>3, <2>4 DEF RetryInv
  <2> QED
    BY <2>5, <2>6, <2>7
<1>9. ASSUME UNCHANGED vars PROVE SnapshotInv'
  BY <1>9 DEF vars, TypeOK, AgeInv, RetryInv, ServedAgeBound
<1> QED
  BY <1>1, <1>2, <1>3, <1>4, <1>6, <1>7, <1>8, <1>9 DEF Next, Ask, FetchStep

LEMMA Invariance == Spec => []SnapshotInv
  BY SnapshotInitInv, SnapshotStepInv, PTL DEF Spec

\* The snapshot's state has its type; inside the window there is always an answer.
THEOREM TypeCorrect == Spec => []TypeOK
<1>1. SnapshotInv => TypeOK
  BY DEF SnapshotInv
<1> QED
  BY <1>1, Invariance, PTL

\* No ships are ever served that are older than maxStaleMs and one window, or one fetch.
THEOREM ServedAgeIsBounded == Spec => []ServedAgeBound
<1>1. SnapshotInv => ServedAgeBound
  BY DEF SnapshotInv
<1> QED
  BY <1>1, Invariance, PTL

\* BarentsWatch is asked at most once in a window, whether it answers or fails.
THEOREM AttemptSpacing == Spec => AttemptsAreSpaced
<1>1. SnapshotInv /\ [Next]_vars =>
        [stage = "idle" /\ stage' # "idle" => sinceAttempt >= RefreshMs]_vars
  <2> SUFFICES ASSUME SnapshotInv, Next, stage = "idle", stage' # "idle"
               PROVE  sinceAttempt >= RefreshMs
    OBVIOUS
  <2>1. Begin
    BY DEF Next, Ask, ServeHeld, ServeFailure, FetchStep, CachedToken, NewToken, NoToken, Ships,
           Unauthorized, UnauthorizedAgain, NoShips, NeedsToken, Requesting, Revoke, Tick
  <2>2. ~Gated
    BY <2>1 DEF Begin, SnapshotInv, TypeOK
  <2>3. sinceAttempt \in Nat /\ RefreshMs \in Nat
    BY SnapshotAssumption, CapType DEF SnapshotInv, TypeOK
  <2> QED
    BY <2>2, <2>3 DEF Gated
<1> QED
  BY <1>1, Invariance, PTL DEF Spec, AttemptsAreSpaced

\* A fetch fails only when the upstream did: one expired or revoked token costs nothing.
THEOREM FailureHasCause == Spec => NoNeedlessFailure
<1>1. SnapshotInv /\ [Next]_vars =>
        [InFlight /\ ~InFlight' /\ lastFailure' = "failed" => luck' = "bad"]_vars
  <2> SUFFICES ASSUME SnapshotInv, Next, InFlight, ~InFlight', lastFailure' = "failed"
               PROVE  luck' = "bad"
    OBVIOUS
  <2>1. NoToken \/ NoShips \/ UnauthorizedAgain
    BY DEF Next, Ask, ServeHeld, ServeFailure, Begin, FetchStep, CachedToken, NewToken, Ships,
           Succeed, Unauthorized, Request, Revoke, Tick, InFlight
  <2>2. CASE NoToken \/ NoShips
    BY <2>2 DEF NoToken, NoShips, Fault
  <2>3. CASE UnauthorizedAgain
    <3>1. /\ stage = "retryRequest" /\ luck' = luck
          /\ token # "honoured" \/ ~(tokenAge < ExpiresIn)
      BY <2>3 DEF UnauthorizedAgain, HonouredNow
    <3>2. /\ tokenAge <= sinceAttempt /\ sinceAttempt <= MaxFlight
          /\ token \in {"honoured", "revoked"}
          /\ token = "revoked" => luck = "bad"
      BY <3>1 DEF SnapshotInv, RetryInv, AgeInv, InFlight, TypeOK
    <3>3. tokenAge < ExpiresIn
      BY <3>2, SnapshotAssumption, CapType DEF SnapshotInv, TypeOK
    <3> QED
      BY <3>1, <3>2, <3>3
  <2> QED
    BY <2>1, <2>2, <2>3
<1> QED
  BY <1>1, Invariance, PTL DEF Spec, NoNeedlessFailure

===============================================================================
