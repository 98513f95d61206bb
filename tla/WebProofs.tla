------------------------------- MODULE WebProofs -------------------------------
(***************************************************************************)
(* Proofs about what the browser keeps for its pages: the resources that   *)
(* poll, the fields that save themselves, what the pages tell the          *)
(* masthead, and the live layers of the map.  The four share nothing but   *)
(* the page they are on.                                                   *)
(***************************************************************************)
EXTENDS Resource, Autosave, PageStatus, LiveLayer, TrailLayer, ListProofs, FiniteSetTheorems, TLAPS

-------------------------------------------------------------------------------
(* Resources, for every set of poll intervals, every ceiling of the         *)
(* back-off, every latency and every way the map may be moved.              *)

Polling == on = "yes" /\ hidden = "no"

\* The one interval that runs.
Runs(i) == timers = [running |-> {i}, handle |-> i.handle]

\* The wait that is left is never longer than the answer on screen, or the failures since,
\* allow for.
PaceInv ==
    Polling => \E i \in timers.running :
        /\ Runs(i) /\ i.left <= i.period /\ i.period <= pace * Factor
        /\ failures = 0 => i.period = pace
        /\ since + i.left <= Latency + (IF state.status = "ready" THEN pace ELSE pace * Factor)

\* An answer that will be heeded was asked for when the resource last asked, and where the map
\* is unless the map is about to be refetched.
FlightInv ==
    \A f \in flights : ~Ignored(f) =>
        /\ Polling => since + f.left <= Latency
        /\ mover = "visitor" /\ debounce = None => f.view = view

ViewInv ==
    on = "yes" /\ mover = "visitor" /\ debounce = None /\ state.status = "ready" =>
        state.data = view \/ \E f \in flights : ~Ignored(f)

ResourceInv ==
    /\ TypeOK /\ PaceInv /\ FlightInv /\ ViewInv
    /\ ~Polling => timers = NoTimer
    /\ on = "no" => debounce = None /\ \A f \in flights : f.disposed = "yes"
    /\ state.status = "ready" => failures = 0

\* What StartInterval leaves: one interval, with a whole period to go.
Fresh(t, p) ==
    \E h \in Nat : t = [running |-> {[handle |-> h, left |-> p, period |-> p]}, handle |-> h]

-------------------------------------------------------------------------------
(* The interval. *)

LEMMA StoppedIsNone ==
    ASSUME NEW t, t = NoTimer \/ \E i : t = [running |-> {i}, handle |-> i.handle]
    PROVE  StopInterval(t) = NoTimer
  BY DEF StopInterval, NoTimer

LEMMA StartedIsFresh ==
    ASSUME NEW t, NEW p, t = NoTimer \/ \E i : t = [running |-> {i}, handle |-> i.handle]
    PROVE  Fresh(StartInterval(t, p), p)
<1> DEFINE fresh == CHOOSE h \in 0..Cardinality({}) : \A i \in {} : i.handle # h
<1>1. StartInterval(t, p) = SetIntervalOf(NoTimer, p)
  BY StoppedIsNone DEF StartInterval
<1>2. fresh \in Nat
  <2>1. Cardinality({}) = 0
    BY FS_EmptySet
  <2>2. \E h \in 0..Cardinality({}) : \A i \in {} : i.handle # h
    BY <2>1
  <2>3. fresh \in 0..Cardinality({})
    BY <2>2
  <2> QED
    BY <2>1, <2>3
<1>3. SetIntervalOf(NoTimer, p) = [running |-> {[handle |-> fresh, left |-> p, period |-> p]}, handle |-> fresh]
  BY DEF SetIntervalOf, NoTimer
<1> QED
  BY <1>1, <1>2, <1>3 DEF Fresh

LEMMA BackOffIsBounded ==
    ASSUME NEW p \in Intervals, NEW n \in 0..Factor
    PROVE  /\ CurrentInterval(p, n) \in Nat /\ CurrentInterval(p, n) <= p * Factor
           /\ Failed(n) \in 0..Factor
           /\ Failed(n) = 0 => CurrentInterval(p, Failed(n)) = p
           /\ p * Factor \in Nat /\ p <= p * Factor
<1>1. p \in Nat \ {0} /\ Factor \in Nat \ {0}
  BY ResourceAssumption
<1>2. p * Factor \in Nat /\ p <= p * Factor
  BY <1>1, SMT
<1>3. 2 ^ n \in Nat /\ 2 ^ 0 = 1 /\ 2 ^ Factor >= Factor
  BY PowersAssumption
<1>4. CurrentInterval(p, n) \in Nat /\ CurrentInterval(p, n) <= p * Factor
  <2>1. CASE 2 ^ n >= Factor
    BY <1>2, <2>1 DEF CurrentInterval
  <2>2. CASE ~(2 ^ n >= Factor)
    <3>1. p * 2 ^ n \in Nat /\ p * 2 ^ n <= p * Factor
      BY <1>1, <1>3, <2>2, SMT
    <3> QED
      BY <3>1, <2>2 DEF CurrentInterval
  <2> QED
    BY <2>1, <2>2
<1>5. Failed(n) \in 0..Factor
  <2>1. n = Factor => 2 ^ n >= Factor
    BY <1>3
  <2> QED
    BY <1>1, <2>1 DEF Failed
<1>6. Failed(n) = 0 => CurrentInterval(p, Failed(n)) = p
  <2> SUFFICES ASSUME Failed(n) = 0 PROVE CurrentInterval(p, 0) = p
    OBVIOUS
  <2>1. n = 0 /\ 2 ^ 0 >= Factor
    <3>1. CASE 2 ^ n >= Factor
      BY <3>1 DEF Failed
    <3>2. CASE ~(2 ^ n >= Factor)
      BY <1>1, <3>2 DEF Failed
    <3> QED
      BY <3>1, <3>2
  <2>2. Factor = 1
    BY <1>1, <1>3, <2>1
  <2> QED
    BY <1>1, <2>1, <2>2 DEF CurrentInterval
<1> QED
  BY <1>2, <1>4, <1>5, <1>6

-------------------------------------------------------------------------------
(* The invariant. *)

LEMMA ResourceInitInv == ResourceInit => ResourceInv
<1> SUFFICES ASSUME ResourceInit PROVE ResourceInv
  OBVIOUS
<1> USE ResourceAssumption DEF ResourceInit
<1>1. TypeOK
  BY DEF TypeOK, NoTimer
<1> QED
  BY <1>1 DEF ResourceInv, PaceInv, FlightInv, ViewInv, Polling

\* The states before and after a step in which the interval runs.
LEMMA TimerIsOneOrNone ==
    ASSUME ResourceInv
    PROVE  /\ timers = NoTimer \/ \E i : timers = [running |-> {i}, handle |-> i.handle]
           /\ Polling => timers # NoTimer /\ timers.handle \in Nat
           /\ ~Polling => timers = NoTimer /\ timers.handle = None
<1>1. CASE Polling
  <2>1. PICK i \in timers.running : Runs(i)
    BY <1>1 DEF ResourceInv, PaceInv
  <2>2. i.handle \in Nat
    BY <2>1 DEF ResourceInv, TypeOK
  <2> QED
    BY <1>1, <2>1, <2>2, ResourceAssumption DEF Runs, NoTimer
<1>2. CASE ~Polling
  BY <1>2 DEF ResourceInv, NoTimer
<1> QED
  BY <1>1, <1>2

\* A fresh interval meets PaceInv's demands on it when it is no longer than its bound.
LEMMA FreshPaces ==
    ASSUME ResourceInv, NEW p \in Nat, Fresh(timers', p), p <= pace' * Factor, failures' = 0 => p = pace',
           since' + p <= Latency + (IF state'.status = "ready" THEN pace' ELSE pace' * Factor)
    PROVE  /\ PaceInv' /\ timers'.running \subseteq [handle : Nat, left : Nat, period : Nat]
           /\ timers'.handle \in Nat
<1>1. PICK h \in Nat : timers' = [running |-> {[handle |-> h, left |-> p, period |-> p]}, handle |-> h]
  BY DEF Fresh
<1> DEFINE i == [handle |-> h, left |-> p, period |-> p]
<1>2. i \in timers'.running /\ Runs(i)' /\ i.left = p /\ i.period = p
  BY <1>1 DEF Runs
<1>3. /\ i.left <= i.period /\ i.period <= pace' * Factor
      /\ failures' = 0 => i.period = pace'
      /\ since' + i.left <= Latency + (IF state'.status = "ready" THEN pace' ELSE pace' * Factor)
  BY <1>2
<1>4. PaceInv'
  BY <1>2, <1>3, Zenon DEF PaceInv
<1>5. timers'.running = {i} /\ timers'.handle = h /\ i \in [handle : Nat, left : Nat, period : Nat]
  BY <1>1
<1> QED
  BY <1>4, <1>5

LEMMA LoadKeepsFlights ==
    ASSUME ResourceInv, NEW out \in SUBSET [behind : Nat, view : Views, left : Nat, disposed : {"yes", "no"}],
           NEW where \in Views, Load(out, where)
    PROVE  /\ flights' \subseteq [behind : Nat, view : Views, left : Nat, disposed : {"yes", "no"}]
           /\ since' = 0
           /\ \E f \in flights' : ~Ignored(f)
           /\ \A f \in flights' : ~Ignored(f) => f.view = where /\ f.left = Latency
<1> DEFINE sent == [behind |-> 0, view |-> where, left |-> Latency, disposed |-> "no"]
           older(f) == [f EXCEPT !.behind = IF f.disposed = "yes" THEN @ ELSE @ + 1]
<1>1. flights' = {older(f) : f \in out} \cup {sent} /\ since' = 0
  BY DEF Load
<1>2. sent \in [behind : Nat, view : Views, left : Nat, disposed : {"yes", "no"}] /\ ~Ignored(sent)
  BY ResourceAssumption DEF Ignored
<1>3. ASSUME NEW f \in out
      PROVE  older(f) \in [behind : Nat, view : Views, left : Nat, disposed : {"yes", "no"}] /\ Ignored(older(f))
  <2>1. CASE f.disposed = "yes"
    BY <2>1 DEF Ignored
  <2>2. CASE f.disposed = "no"
    BY <2>2 DEF Ignored
  <2> QED
    BY <2>1, <2>2
<1> QED
  BY <1>1, <1>2, <1>3

FlightSet == [behind : Nat, view : Views, left : Nat, disposed : {"yes", "no"}]

\* A loading signal is ready only as it was, and keeps its data.
LEMMA LoadingKeeps ==
    ASSUME TypeOK
    PROVE  /\ Loading(state) \in [status : {"idle", "loading", "ready", "error"}, data : Views \cup {None}]
           /\ Loading(state).status = "ready" => state.status = "ready"
  BY DEF Loading, TypeOK

LEMMA RefreshedKeeps ==
    ASSUME ResourceInv, Refreshed, on = "yes", UNCHANGED <<renewing, interval, on, hidden, pace, view, mover>>,
           acts' \in 0..MaxActs, debounce' \in Nat \cup {None}
    PROVE  ResourceInv'
<1> USE ResourceAssumption
<1>1. pace \in Intervals /\ pace \in Nat \ {0} /\ pace * Factor \in Nat /\ pace <= pace * Factor
  BY BackOffIsBounded, ResourceAssumption DEF ResourceInv, TypeOK
<1>2. /\ failures' = 0 /\ Load(flights, view) /\ state' = Loading(state)
      /\ timers' = RestartIntervalIfRunning(timers, pace)
  BY DEF Refreshed
<1>3. /\ flights' \subseteq FlightSet /\ since' = 0 /\ \E f \in flights' : ~Ignored(f)
      /\ \A f \in flights' : ~Ignored(f) => f.view = view /\ f.left = Latency
  BY <1>2, LoadKeepsFlights DEF ResourceInv, TypeOK, FlightSet
<1>4. /\ state' \in [status : {"idle", "loading", "ready", "error"}, data : Views \cup {None}]
      /\ state'.status = "ready" => state.status = "ready"
  BY <1>2, LoadingKeeps DEF ResourceInv
<1>5. CASE Polling
  <2>1. timers' = StartInterval(timers, pace)
    BY <1>2, <1>5, TimerIsOneOrNone DEF RestartIntervalIfRunning
  <2>2. Fresh(timers', pace)
    BY <2>1, <1>5, TimerIsOneOrNone, StartedIsFresh
  <2>3. PaceInv' /\ timers'.running \subseteq [handle : Nat, left : Nat, period : Nat] /\ timers'.handle \in Nat
    <3>1. since' + pace <= Latency + (IF state'.status = "ready" THEN pace' ELSE pace' * Factor)
      BY <1>1, <1>3
    <3> QED
      BY <1>1, <2>2, <3>1, FreshPaces
  <2>4. TypeOK'
    BY <1>1, <1>2, <1>3, <1>4, <2>3 DEF TypeOK, ResourceInv, FlightSet
  <2>5. FlightInv' /\ ViewInv'
    BY <1>1, <1>3 DEF FlightInv, ViewInv
  <2> QED
    BY <1>2, <1>5, <2>3, <2>4, <2>5 DEF ResourceInv, Polling
<1>6. CASE ~Polling
  <2>1. timers' = timers /\ timers = NoTimer
    BY <1>2, <1>6, TimerIsOneOrNone DEF RestartIntervalIfRunning
  <2>2. TypeOK'
    BY <1>1, <1>2, <1>3, <1>4, <2>1 DEF TypeOK, ResourceInv, FlightSet
  <2>3. FlightInv' /\ ViewInv' /\ PaceInv'
    BY <1>3, <1>6 DEF FlightInv, ViewInv, PaceInv, Polling
  <2> QED
    BY <1>2, <1>6, <2>1, <2>2, <2>3 DEF ResourceInv, Polling
<1> QED
  BY <1>5, <1>6

\* A resource made anew, with every flight of the one before it disposed of.
LEMMA CreateKeeps ==
    ASSUME ResourceInv, NEW out \in SUBSET FlightSet, \A f \in out : f.disposed = "yes",
           NEW p \in Intervals, Create(out, p), UNCHANGED <<renewing, hidden, view, debounce, mover>>,
           interval' \in Intervals, acts' \in 0..MaxActs
    PROVE  ResourceInv'
<1> USE ResourceAssumption
<1>1. p \in Nat \ {0} /\ p * Factor \in Nat /\ p <= p * Factor
  BY BackOffIsBounded, ResourceAssumption
<1>2. on' = "yes" /\ pace' = p /\ failures' = 0
  BY DEF Create
<1>3. CASE hidden = "yes"
  <2>1. timers' = NoTimer /\ flights' = out /\ since' = 0 /\ state' = [status |-> "idle", data |-> None]
    BY <1>3 DEF Create
  <2>2. TypeOK'
    BY <1>2, <2>1 DEF TypeOK, ResourceInv, FlightSet, NoTimer
  <2>3. PaceInv' /\ FlightInv' /\ ViewInv'
    BY <1>3, <2>1 DEF PaceInv, FlightInv, ViewInv, Polling, Ignored
  <2> QED
    BY <1>2, <2>1, <2>2, <2>3 DEF ResourceInv
<1>4. CASE hidden # "yes"
  <2>1. /\ timers' = StartInterval(NoTimer, p) /\ Load(out, view)
        /\ state' = [status |-> "loading", data |-> None]
    BY <1>4 DEF Create
  <2>2. /\ flights' \subseteq FlightSet /\ since' = 0
        /\ \A f \in flights' : ~Ignored(f) => f.view = view /\ f.left = Latency
    BY <2>1, LoadKeepsFlights DEF ResourceInv, TypeOK, FlightSet
  <2>3. Fresh(timers', p)
    BY <2>1, StartedIsFresh
  <2>4. PaceInv' /\ timers'.running \subseteq [handle : Nat, left : Nat, period : Nat] /\ timers'.handle \in Nat
    <3>1. since' + p <= Latency + (IF state'.status = "ready" THEN pace' ELSE pace' * Factor)
      BY <1>1, <1>2, <2>1, <2>2
    <3> QED
      BY <1>1, <1>2, <2>3, <3>1, FreshPaces
  <2>5. TypeOK'
    BY <1>2, <2>1, <2>2, <2>4 DEF TypeOK, ResourceInv, FlightSet
  <2>6. FlightInv' /\ ViewInv'
    BY <2>1, <2>2 DEF FlightInv, ViewInv
  <2>7. Polling'
    BY <1>2, <1>4 DEF Polling, ResourceInv, TypeOK
  <2> QED
    BY <1>2, <2>1, <2>4, <2>5, <2>6, <2>7 DEF ResourceInv
<1> QED
  BY <1>3, <1>4

-------------------------------------------------------------------------------
(* Its steps. *)

LEMMA FireKeeps == ASSUME ResourceInv, Fire PROVE ResourceInv'
<1> USE ResourceAssumption
<1>1. PICK i \in timers.running :
        timers' = [timers EXCEPT !.running = (@ \ {i}) \cup {[i EXCEPT !.left = i.period]}]
  BY DEF Fire
<1>2. Polling
  BY <1>1, TimerIsOneOrNone DEF NoTimer
<1>3. PICK j \in timers.running :
        /\ Runs(j) /\ j.left <= j.period /\ j.period <= pace * Factor
        /\ failures = 0 => j.period = pace
  BY <1>2 DEF ResourceInv, PaceInv
<1>4. j = i /\ i \in [handle : Nat, left : Nat, period : Nat]
  BY <1>1, <1>3 DEF Runs, ResourceInv, TypeOK
<1>5. timers' = [running |-> {[handle |-> i.handle, left |-> i.period, period |-> i.period]}, handle |-> i.handle]
  BY <1>1, <1>3, <1>4 DEF Runs
<1>6. Fresh(timers', i.period)
  BY <1>4, <1>5 DEF Fresh
<1>7. /\ flights' \subseteq FlightSet /\ since' = 0 /\ \E f \in flights' : ~Ignored(f)
      /\ \A f \in flights' : ~Ignored(f) => f.view = view /\ f.left = Latency
  BY LoadKeepsFlights DEF Fire, ResourceInv, TypeOK, FlightSet
<1>8. /\ state' \in [status : {"idle", "loading", "ready", "error"}, data : Views \cup {None}]
      /\ state'.status = "ready" => state.status = "ready"
  BY LoadingKeeps DEF Fire, ResourceInv
<1>9. pace \in Nat \ {0} /\ pace * Factor \in Nat /\ pace <= pace * Factor
  BY BackOffIsBounded DEF ResourceInv, TypeOK
<1>10. PaceInv' /\ timers'.running \subseteq [handle : Nat, left : Nat, period : Nat] /\ timers'.handle \in Nat
  <2>1. since' + i.period <= Latency + (IF state'.status = "ready" THEN pace' ELSE pace' * Factor)
    <3>1. state'.status = "ready" => i.period = pace
      BY <1>3, <1>4, <1>8 DEF ResourceInv
    <3>2. i.period <= pace * Factor /\ i.period \in Nat
      BY <1>3, <1>4
    <3>3. pace' = pace
      BY DEF Fire
    <3> QED
      BY <1>7, <1>9, <3>1, <3>2, <3>3
  <2>2. pace' = pace /\ failures' = failures
    BY DEF Fire
  <2>3. i.period \in Nat /\ i.period <= pace' * Factor /\ (failures' = 0 => i.period = pace')
    BY <1>3, <1>4, <2>2
  <2> QED
    BY <1>6, <2>1, <2>3, FreshPaces
<1>11. TypeOK'
  BY <1>7, <1>8, <1>10 DEF TypeOK, ResourceInv, FlightSet, Fire
<1>12. FlightInv' /\ ViewInv'
  BY <1>7, <1>9 DEF FlightInv, ViewInv, Fire
<1> QED
  BY <1>2, <1>8, <1>10, <1>11, <1>12 DEF ResourceInv, Polling, Fire

LEMMA SucceedsKeeps == ASSUME ResourceInv, NEW f \in flights, Succeeds(f) PROVE ResourceInv'
<1> USE ResourceAssumption DEF Succeeds
<1>1. CASE Ignored(f)
  <2>1. TypeOK'
    BY <1>1 DEF TypeOK, ResourceInv
  <2>2. PaceInv' /\ FlightInv' /\ ViewInv'
    BY <1>1 DEF PaceInv, FlightInv, ViewInv, Polling, ResourceInv, Runs, Ignored
  <2> QED
    BY <1>1, <2>1, <2>2 DEF ResourceInv, Polling
<1>2. CASE ~Ignored(f)
  <2>1. /\ state' = [status |-> "ready", data |-> f.view] /\ failures' = 0 /\ timers' = Recovered
        /\ f.view \in Views /\ f.left \in Nat
    BY <1>2 DEF ResourceInv, TypeOK
  <2>2. on = "yes"
    BY <1>2 DEF Ignored, ResourceInv, TypeOK
  <2>3. pace \in Nat \ {0} /\ pace * Factor \in Nat /\ pace <= pace * Factor
    BY BackOffIsBounded DEF ResourceInv, TypeOK
  <2>4. /\ timers'.running \subseteq [handle : Nat, left : Nat, period : Nat] /\ timers'.handle \in Nat \cup {None}
        /\ PaceInv' /\ (~Polling => timers' = NoTimer)
    <3>1. CASE Polling /\ failures > 0
      <4>1. timers' = StartInterval(timers, pace)
        BY <2>1, <3>1, TimerIsOneOrNone DEF Recovered, RestartIntervalIfRunning
      <4>2. Fresh(timers', pace)
        BY <4>1, TimerIsOneOrNone, StartedIsFresh
      <4>3. since \in Nat /\ since <= Latency
        BY <1>2, <2>1, <3>1 DEF ResourceInv, FlightInv, TypeOK
      <4>4. since' + pace <= Latency + (IF state'.status = "ready" THEN pace' ELSE pace' * Factor)
        BY <2>1, <2>3, <4>3
      <4> QED
        BY <2>3, <3>1, <4>2, <4>4, FreshPaces
    <3>2. CASE Polling /\ ~(failures > 0)
      <4>1. timers' = timers /\ failures = 0
        BY <2>1, <3>2 DEF Recovered, ResourceInv, TypeOK
      <4>2. PICK i \in timers.running :
              Runs(i) /\ i.left <= i.period /\ i.period <= pace * Factor /\ i.period = pace
        BY <3>2, <4>1 DEF ResourceInv, PaceInv
      <4>3. since \in Nat /\ since <= Latency /\ i.left \in Nat
        BY <1>2, <2>1, <3>2 DEF ResourceInv, FlightInv, TypeOK
      <4>4. since + i.left <= Latency + pace
        BY <2>3, <4>2, <4>3
      <4>5. PaceInv'
        BY <2>1, <4>1, <4>2, <4>4 DEF PaceInv, Runs
      <4> QED
        BY <3>2, <4>1, <4>5 DEF ResourceInv, TypeOK
    <3>3. CASE ~Polling
      <4>1. timers' = timers
        BY <2>1, <3>3, TimerIsOneOrNone DEF Recovered, RestartIntervalIfRunning
      <4> QED
        BY <3>3, <4>1 DEF ResourceInv, TypeOK, PaceInv, Polling
    <3> QED
      BY <3>1, <3>2, <3>3
  <2>5. TypeOK'
    BY <2>1, <2>4 DEF TypeOK, ResourceInv
  <2>6. FlightInv' /\ ViewInv'
    BY <1>2, <2>1 DEF FlightInv, ViewInv, ResourceInv, Polling, Ignored
  <2> QED
    BY <2>1, <2>2, <2>4, <2>5, <2>6 DEF ResourceInv, Polling
<1> QED
  BY <1>1, <1>2

LEMMA FailsKeeps == ASSUME ResourceInv, NEW f \in flights, Fails(f) PROVE ResourceInv'
<1> USE ResourceAssumption DEF Fails
<1>1. CASE Ignored(f)
  <2>1. TypeOK'
    BY <1>1 DEF TypeOK, ResourceInv
  <2>2. PaceInv' /\ FlightInv' /\ ViewInv'
    BY <1>1 DEF PaceInv, FlightInv, ViewInv, Polling, ResourceInv, Runs, Ignored
  <2> QED
    BY <1>1, <2>1, <2>2 DEF ResourceInv, Polling
<1>2. CASE ~Ignored(f)
  <2> DEFINE wait == CurrentInterval(pace, failures')
  <2>1. /\ state' = [state EXCEPT !.status = "error"] /\ failures' = Failed(failures)
        /\ timers' = RestartIntervalIfRunning(timers, wait)
    BY <1>2
  <2>2. on = "yes" /\ f.left \in Nat
    BY <1>2 DEF Ignored, ResourceInv, TypeOK
  <2>3. failures' \in 0..Factor
    BY <2>1, BackOffIsBounded DEF ResourceInv, TypeOK
  <2>4. /\ wait \in Nat /\ wait <= pace * Factor /\ (failures' = 0 => wait = pace) /\ pace * Factor \in Nat
        /\ pace \in Nat
    BY <2>1, <2>3, BackOffIsBounded DEF ResourceInv, TypeOK
  <2>5. state' \in [status : {"idle", "loading", "ready", "error"}, data : Views \cup {None}] /\ state'.status = "error"
    BY <2>1 DEF ResourceInv, TypeOK
  <2>6. /\ timers'.running \subseteq [handle : Nat, left : Nat, period : Nat] /\ timers'.handle \in Nat \cup {None}
        /\ PaceInv' /\ (~Polling => timers' = NoTimer)
    <3>1. CASE Polling
      <4>1. timers' = StartInterval(timers, wait)
        BY <2>1, <3>1, TimerIsOneOrNone DEF RestartIntervalIfRunning
      <4>2. Fresh(timers', wait)
        BY <4>1, TimerIsOneOrNone, StartedIsFresh
      <4>3. since \in Nat /\ since <= Latency
        BY <1>2, <2>2, <3>1 DEF ResourceInv, FlightInv, TypeOK
      <4>4. since' + wait <= Latency + (IF state'.status = "ready" THEN pace' ELSE pace' * Factor)
        BY <2>4, <2>5, <4>3
      <4>5. wait <= pace' * Factor /\ (failures' = 0 => wait = pace')
        BY <2>4
      <4> HIDE DEF wait
      <4> QED
        BY <2>4, <3>1, <4>2, <4>4, <4>5, FreshPaces
    <3>2. CASE ~Polling
      <4>1. timers' = timers
        BY <2>1, <3>2, TimerIsOneOrNone DEF RestartIntervalIfRunning
      <4> QED
        BY <3>2, <4>1 DEF ResourceInv, TypeOK, PaceInv, Polling
    <3> QED
      BY <3>1, <3>2
  <2>7. TypeOK'
    BY <2>3, <2>5, <2>6 DEF TypeOK, ResourceInv
  <2>8. FlightInv' /\ ViewInv'
    BY <2>5 DEF FlightInv, ViewInv, ResourceInv, Polling, Ignored
  <2> QED
    BY <2>2, <2>5, <2>6, <2>7, <2>8 DEF ResourceInv, Polling
<1> QED
  BY <1>1, <1>2

LEMMA TickKeeps == ASSUME ResourceInv, Tick PROVE ResourceInv'
<1> USE ResourceAssumption DEF Tick
<1> DEFINE later(f) == [f EXCEPT !.left = @ - 1]
<1>1. /\ flights' = {later(f) : f \in flights} /\ \A f \in flights : f.left > 0
      /\ timers' = [timers EXCEPT !.running = {later(i) : i \in @}] /\ \A i \in timers.running : i.left > 0
  OBVIOUS
<1>2. \A f \in flights : /\ later(f) \in FlightSet /\ later(f).left = f.left - 1 /\ later(f).view = f.view
                         /\ later(f).disposed = f.disposed /\ (Ignored(later(f)) <=> Ignored(f))
  BY <1>1 DEF ResourceInv, TypeOK, FlightSet, Ignored
<1>3. /\ timers'.running \subseteq [handle : Nat, left : Nat, period : Nat]
      /\ timers'.handle = timers.handle /\ timers'.running = {later(i) : i \in timers.running}
  BY <1>1 DEF ResourceInv, TypeOK
<1>4. debounce' \in Nat \cup {None} /\ (debounce = None => debounce' = None) /\ (debounce' = None => debounce = None)
  BY DEF ResourceInv, TypeOK
<1>5. TypeOK'
  BY <1>1, <1>2, <1>3, <1>4 DEF TypeOK, ResourceInv, FlightSet
<1>6. PaceInv'
  <2> SUFFICES ASSUME Polling PROVE PaceInv'
    BY DEF PaceInv, Polling
  <2>1. PICK i \in timers.running :
          /\ Runs(i) /\ i.left <= i.period /\ i.period <= pace * Factor
          /\ failures = 0 => i.period = pace
          /\ since + i.left <= Latency + (IF state.status = "ready" THEN pace ELSE pace * Factor)
    BY DEF ResourceInv, PaceInv
  <2>2. i \in [handle : Nat, left : Nat, period : Nat] /\ i.left > 0 /\ since \in Nat
    BY <1>1 DEF ResourceInv, TypeOK
  <2>3. timers' = [running |-> {later(i)}, handle |-> i.handle]
    <3>1. timers.running = {i} /\ timers = [running |-> {i}, handle |-> i.handle]
      BY <2>1 DEF Runs
    <3>2. {later(x) : x \in timers.running} = {later(i)}
      BY <3>1
    <3> HIDE DEF later
    <3> QED
      BY <1>1, <3>1, <3>2
  <2>4. /\ later(i).handle = i.handle /\ later(i).left = i.left - 1 /\ later(i).period = i.period
    BY <2>2
  <2>5. since' = since + 1
    BY DEF Polling
  <2>6. pace * Factor \in Nat /\ pace \in Nat
    BY BackOffIsBounded DEF ResourceInv, TypeOK
  <2>7. since' + later(i).left = since + i.left /\ later(i).left <= later(i).period
    BY <2>1, <2>2, <2>4, <2>5
  <2>8. /\ Runs(later(i))' /\ later(i) \in timers'.running
    BY <2>3, <2>4 DEF Runs
  <2>9. /\ later(i).left <= later(i).period /\ later(i).period <= pace' * Factor
        /\ failures' = 0 => later(i).period = pace'
        /\ since' + later(i).left <= Latency + (IF state'.status = "ready" THEN pace' ELSE pace' * Factor)
    BY <2>1, <2>4, <2>7
  <2> HIDE DEF later
  <2> QED
    BY <2>8, <2>9 DEF PaceInv
<1>7. FlightInv'
  <2> SUFFICES ASSUME NEW f \in flights, ~Ignored(later(f))
               PROVE  /\ Polling => since' + later(f).left <= Latency
                      /\ mover = "visitor" /\ debounce' = None => later(f).view = view
    BY <1>1 DEF FlightInv, Polling
  <2>1. ~Ignored(f) /\ later(f).left = f.left - 1 /\ later(f).view = f.view /\ f.left \in Nat /\ since \in Nat
    BY <1>2 DEF ResourceInv, TypeOK
  <2>2. Polling => since' = since + 1
    BY DEF Polling
  <2> HIDE DEF later
  <2> QED
    BY <1>4, <2>1, <2>2 DEF ResourceInv, FlightInv
<1>8. ViewInv'
  <2>1. ASSUME NEW f \in flights, ~Ignored(f) PROVE \E g \in flights' : ~Ignored(g)
    <3> HIDE DEF later, Tick
    <3>1. later(f) \in flights' /\ ~Ignored(later(f))
      BY <1>1, <1>2, <2>1, Zenon
    <3> QED
      BY <3>1
  <2> QED
    BY <1>4, <2>1 DEF ResourceInv, ViewInv
<1>9. timers = NoTimer => timers' = NoTimer
  <2> SUFFICES ASSUME timers = NoTimer PROVE timers' = NoTimer
    OBVIOUS
  <2>1. timers = [running |-> {}, handle |-> None]
    BY DEF NoTimer
  <2> HIDE DEF later, Tick
  <2>2. {later(i) : i \in timers.running} = {}
    BY <2>1
  <2>3. timers' = [timers EXCEPT !.running = {}]
    BY <1>1, <2>2, Zenon
  <2>4. timers' = [running |-> {}, handle |-> None]
    BY <2>1, <2>3
  <2> QED
    BY <2>4 DEF NoTimer
<1>10. on' = "no" => debounce' = None /\ \A f \in flights' : f.disposed = "yes"
  BY <1>1, <1>2, <1>4 DEF ResourceInv
<1> QED
  BY <1>5, <1>6, <1>7, <1>8, <1>9, <1>10 DEF ResourceInv, Polling

\* Hiding and showing the page, and a layer switched off.
LEMMA PageKeeps == ASSUME ResourceInv, Hide \/ Show \/ Disable PROVE ResourceInv'
<1> USE ResourceAssumption DEF Act
<1>1. CASE Hide
  <2>1. timers' = NoTimer
    BY <1>1, TimerIsOneOrNone, StoppedIsNone DEF Hide
  <2>2. TypeOK'
    BY <1>1, <2>1 DEF Hide, TypeOK, ResourceInv, NoTimer
  <2>3. PaceInv' /\ FlightInv' /\ ViewInv'
    BY <1>1 DEF Hide, PaceInv, FlightInv, ViewInv, Polling, ResourceInv, Ignored
  <2> QED
    BY <1>1, <2>1, <2>2, <2>3 DEF Hide, ResourceInv, Polling
<1>2. CASE Show /\ on = "no"
  <2>1. timers' = NoTimer /\ timers = NoTimer
    BY <1>2, TimerIsOneOrNone DEF Show, Polling
  <2>2. TypeOK'
    BY <1>2 DEF Show, TypeOK, ResourceInv
  <2>3. PaceInv' /\ FlightInv' /\ ViewInv'
    BY <1>2 DEF Show, PaceInv, FlightInv, ViewInv, Polling, ResourceInv, Ignored
  <2> QED
    BY <1>2, <2>1, <2>2, <2>3 DEF Show, ResourceInv, Polling
<1>3. CASE Show /\ on # "no"
  <2>1. /\ on = "yes" /\ Polling' /\ failures' = 0 /\ Load(flights, view) /\ state' = Loading(state)
        /\ timers' = StartInterval(timers, pace)
    BY <1>3 DEF Show, ResourceInv, TypeOK, Polling
  <2>2. /\ flights' \subseteq FlightSet /\ since' = 0 /\ \E f \in flights' : ~Ignored(f)
        /\ \A f \in flights' : ~Ignored(f) => f.view = view /\ f.left = Latency
    BY <2>1, LoadKeepsFlights DEF ResourceInv, TypeOK, FlightSet
  <2>3. /\ state' \in [status : {"idle", "loading", "ready", "error"}, data : Views \cup {None}]
        /\ state'.status = "ready" => state.status = "ready"
    BY <2>1, LoadingKeeps DEF ResourceInv
  <2>4. /\ pace \in Nat \ {0} /\ pace * Factor \in Nat /\ pace <= pace * Factor
        /\ pace' = pace
    BY <1>3, BackOffIsBounded DEF ResourceInv, TypeOK, Show
  <2>5. Fresh(timers', pace)
    BY <2>1, TimerIsOneOrNone, StartedIsFresh
  <2>6. PaceInv' /\ timers'.running \subseteq [handle : Nat, left : Nat, period : Nat] /\ timers'.handle \in Nat
    <3>1. since' + pace <= Latency + (IF state'.status = "ready" THEN pace' ELSE pace' * Factor)
      BY <2>2, <2>4
    <3> QED
      BY <2>1, <2>4, <2>5, <3>1, FreshPaces
  <2>7. TypeOK'
    BY <1>3, <2>1, <2>2, <2>3, <2>6 DEF TypeOK, ResourceInv, FlightSet, Show
  <2>8. FlightInv' /\ ViewInv'
    BY <1>3, <2>2 DEF FlightInv, ViewInv, Show
  <2> QED
    BY <1>3, <2>1, <2>6, <2>7, <2>8 DEF ResourceInv, Show
<1>4. CASE Disable
  <2>1. timers' = NoTimer
    BY <1>4, TimerIsOneOrNone, StoppedIsNone DEF Disable
  <2>2. flights' \subseteq FlightSet /\ \A f \in flights' : f.disposed = "yes"
    BY <1>4 DEF Disable, Abandoned, ResourceInv, TypeOK, FlightSet
  <2>3. TypeOK'
    BY <1>4, <2>1, <2>2 DEF Disable, TypeOK, ResourceInv, FlightSet, NoTimer
  <2>4. PaceInv' /\ FlightInv' /\ ViewInv'
    BY <1>4, <2>2 DEF Disable, PaceInv, FlightInv, ViewInv, Polling, Ignored
  <2> QED
    BY <1>4, <2>1, <2>2, <2>3, <2>4 DEF Disable, ResourceInv, Polling
<1> QED
  BY <1>1, <1>2, <1>3, <1>4

\* The map moved by a visitor and by the follow.
LEMMA MoveKeeps == ASSUME ResourceInv, NEW where \in Views, Drag(where) \/ Recentre(where) PROVE ResourceInv'
<1> USE ResourceAssumption DEF Act, Drag, Recentre
<1>1. TypeOK'
  BY DEF TypeOK, ResourceInv
<1>2. PaceInv'
  BY DEF PaceInv, ResourceInv, Polling, Runs
<1>3. Drag(where) /\ on = "yes" => debounce' # None
  BY DEF Drag
<1>4. \A f \in flights : ~Ignored(f) => on = "yes"
  BY DEF ResourceInv, TypeOK, Ignored
<1>5. FlightInv' /\ ViewInv'
  <2>1. CASE Drag(where)
    BY <1>3, <1>4, <2>1 DEF FlightInv, ViewInv, ResourceInv, Polling
  <2>2. CASE Recentre(where)
    BY <2>2 DEF FlightInv, ViewInv, ResourceInv, Polling
  <2> QED
    BY <2>1, <2>2
<1> QED
  BY <1>1, <1>2, <1>5 DEF ResourceInv, Polling

LEMMA ResourceStepInv == ResourceInv /\ [ResourceNext]_resourceVars => ResourceInv'
<1> SUFFICES ASSUME ResourceInv, [ResourceNext]_resourceVars PROVE ResourceInv'
  OBVIOUS
<1>1. CASE UNCHANGED resourceVars
  <2>1. TypeOK' /\ PaceInv' /\ FlightInv' /\ ViewInv'
    BY <1>1 DEF resourceVars, ResourceInv, TypeOK, PaceInv, FlightInv, ViewInv, Polling, Runs, Ignored
  <2> QED
    BY <1>1, <2>1 DEF resourceVars, ResourceInv, Polling, NoTimer
<1>2. CASE RefetchAfterMove
  <2>1. on = "yes" /\ acts' = acts /\ acts \in 0..MaxActs /\ debounce' = None
    BY <1>2, ResourceAssumption DEF RefetchAfterMove, ResourceInv, TypeOK
  <2> QED
    BY <1>2, <2>1, RefreshedKeeps DEF RefetchAfterMove
<1>3. CASE ChooseDays
  <2>1. acts' \in 0..MaxActs /\ debounce' \in Nat \cup {None}
    BY <1>3, ResourceAssumption DEF ChooseDays, Act, ResourceInv, TypeOK
  <2> QED
    BY <1>3, <2>1, RefreshedKeeps DEF ChooseDays
<1>4. CASE Enable
  <2>1. acts' \in 0..MaxActs /\ interval' \in Intervals /\ interval \in Intervals
    BY <1>4, ResourceAssumption DEF Enable, Act, ResourceInv, TypeOK
  <2>2. flights \in SUBSET FlightSet /\ \A f \in flights : f.disposed = "yes"
    BY <1>4 DEF Enable, ResourceInv, TypeOK, FlightSet
  <2> QED
    BY <1>4, <2>1, <2>2, CreateKeeps DEF Enable
<1>5. ASSUME NEW i \in Intervals, ChooseInterval(i) PROVE ResourceInv'
  <2>1. acts' \in 0..MaxActs /\ interval' \in Intervals
    BY <1>5, ResourceAssumption DEF ChooseInterval, Act, ResourceInv, TypeOK
  <2>2. Abandoned(flights) \in SUBSET FlightSet /\ \A f \in Abandoned(flights) : f.disposed = "yes"
    BY DEF Abandoned, ResourceInv, TypeOK, FlightSet
  <2>3. CASE on = "yes" /\ renewing = "yes"
    BY <1>5, <2>1, <2>2, <2>3, CreateKeeps DEF ChooseInterval
  <2>4. CASE ~(on = "yes" /\ renewing = "yes")
    <3>1. UNCHANGED <<renewing, on, hidden, pace, timers, failures, flights, state, view, debounce, mover, since>>
      BY <1>5, <2>4 DEF ChooseInterval
    <3>2. TypeOK' /\ PaceInv' /\ FlightInv' /\ ViewInv'
      BY <2>1, <3>1 DEF ResourceInv, TypeOK, PaceInv, FlightInv, ViewInv, Polling, Runs, Ignored
    <3> QED
      BY <3>1, <3>2 DEF ResourceInv, Polling, NoTimer
  <2> QED
    BY <2>3, <2>4
<1> QED
  BY <1>1, <1>2, <1>3, <1>4, <1>5, FireKeeps, SucceedsKeeps, FailsKeeps, TickKeeps, PageKeeps, MoveKeeps
     DEF ResourceNext

-------------------------------------------------------------------------------
(* The theorems. *)

\* What is set up and torn down as the page is hidden and shown, fetches fail and the layer is
\* switched is of its type throughout, and the back-off's count stays below its ceiling.
THEOREM ResourceTypeCorrect == ResourceSpec => []TypeOK
<1>1. ResourceInv => TypeOK
  BY DEF ResourceInv
<1> QED
  BY <1>1, ResourceInitInv, ResourceStepInv, PTL DEF ResourceSpec

\* One interval runs while a mounted layer can be seen, and none otherwise (resource.ts's
\* startInterval, stopInterval and restartIntervalIfRunning).
THEOREM OneIntervalRuns == ResourceSpec => []OneTimer
<1>1. ResourceInv => OneTimer
  BY DEF ResourceInv, OneTimer, PaceInv, Polling, Runs
<1> QED
  BY <1>1, ResourceInitInv, ResourceStepInv, PTL DEF ResourceSpec

\* A layer in sight asks again within its interval of an answer, and within the back-off's
\* ceiling of a failure, however answers, failures, moves and tab switches interleave.
THEOREM PollsInTime == ResourceSpec => []PolledOnTime
<1>1. ResourceInv => PolledOnTime
  <2> SUFFICES ASSUME ResourceInv, Polling
               PROVE  since <= Latency + (IF state.status = "ready" THEN pace ELSE pace * Factor)
    BY DEF PolledOnTime, Polling
  <2>1. PICK i \in timers.running :
          since + i.left <= Latency + (IF state.status = "ready" THEN pace ELSE pace * Factor)
    BY DEF ResourceInv, PaceInv
  <2>2. i.left \in Nat /\ since \in Nat /\ pace \in Nat /\ pace * Factor \in Nat /\ Latency \in Nat
    BY BackOffIsBounded, ResourceAssumption DEF ResourceInv, TypeOK
  <2> QED
    BY <2>1, <2>2
<1> QED
  BY <1>1, ResourceInitInv, ResourceStepInv, PTL DEF ResourceSpec

\* What a settled map shows was fetched for where it is: an answer that a later fetch or a
\* dispose has overtaken is not used (resource.ts's generation).
THEOREM ViewSettles == ResourceSpec => []ViewIsFetched
<1>1. ResourceInv => ViewIsFetched
  BY DEF ResourceInv, ViewInv, ViewIsFetched, Ignored, TypeOK
<1> QED
  BY <1>1, ResourceInitInv, ResourceStepInv, PTL DEF ResourceSpec

-------------------------------------------------------------------------------
(* Fields that save themselves, for any number of fields that share a      *)
(* setting, any values they take and any number of writes in flight.       *)

\* The writes of a field are told apart by their tokens, none of which is ahead of the newest,
\* and no answer is noted before it has come.
TokenInv ==
    /\ \A w \in writes : w.token <= newest[w.field]
    /\ \A v, w \in writes : v.field = w.field /\ v.token = w.token => v = w
    /\ \A f \in Fields : answered[f].token <= newest[f]
    /\ \A w \in writes : w.token = newest[w.field] => answered[w.field].token < w.token

AnswerType ==
    /\ answered \in [Fields -> [token : Nat, how : {"none", "saved", "error"}]]
    /\ owed \in [Fields -> Values \cup {Nil}]

AutosaveInv == SaveTypeOK /\ AnswerType /\ TokenInv /\ EditsAreKept

-------------------------------------------------------------------------------

LEMMA SaveInitInv == SaveInit => AutosaveInv
<1> SUFFICES ASSUME SaveInit PROVE AutosaveInv
  OBVIOUS
<1> USE AutosaveAssumption DEF SaveInit
<1>1. SaveTypeOK /\ AnswerType
  BY DEF SaveTypeOK, AnswerType
<1>2. TokenInv /\ TypedIsSent /\ StatusIsTheNewestWrites
  BY DEF TokenInv, TypedIsSent, StatusIsTheNewestWrites
<1> QED
  BY <1>1, <1>2 DEF AutosaveInv, EditsAreKept

\* The effect of the section on the store leaves the field in focus as it is typed.
LEMMA EmittedKeeps ==
    ASSUME SaveTypeOK, NEW value \in [Fields -> Values], Emitted(value)
    PROVE  /\ {store', draft', committed'} \subseteq [Fields -> Values]
           /\ \A f \in Fields : f = focus' => committed'[f] = committed[f]
  BY DEF Emitted, SaveTypeOK

\* A write of a field sends what it has typed, with a token ahead of all others.
LEMMA RunWriteKeeps ==
    ASSUME AutosaveInv, NEW f \in Fields, NEW typed \in Values, RunWrite(f, typed),
           focus' \in Fields \cup {Nil}, shown' \in Values \cup {"invalid", Nil}, UNCHANGED <<server, answered>>,
           focus' = focus \/ (focus' = Nil /\ focus = f),
           owed[f] # Nil => typed = owed[f]
    PROVE  AutosaveInv'
<1> USE AutosaveAssumption
<1> DEFINE sent == [draft EXCEPT ![f] = typed]
           write == [field |-> f, token |-> newest[f] + 1, value |-> sent, previous |-> store]
<1>1. sent \in [Fields -> Values]
  BY DEF AutosaveInv, SaveTypeOK
<1>2. /\ newest' = [newest EXCEPT ![f] = @ + 1] /\ writes' = writes \cup {write} /\ store' = sent
      /\ committed' = [g \in Fields |-> IF g = focus' THEN committed[g] ELSE sent[g]]
      /\ draft' = [g \in Fields |-> IF g = focus' /\ g # f THEN draft[g] ELSE sent[g]]
      /\ status' = [status EXCEPT ![f] = "saving"] /\ pending' = pending \ {f}
      /\ owed' = [owed EXCEPT ![f] = IF typed = @ THEN Nil ELSE @]
  BY DEF RunWrite
<1>3. write \in [field : Fields, token : Nat, value : [Fields -> Values], previous : [Fields -> Values]]
  BY <1>1 DEF AutosaveInv, SaveTypeOK
<1>4. newest' \in [Fields -> Nat] /\ newest'[f] = newest[f] + 1 /\ \A g \in Fields \ {f} : newest'[g] = newest[g]
  BY <1>2 DEF AutosaveInv, SaveTypeOK
<1> HIDE DEF sent
<1>5. {committed', draft', store'} \subseteq [Fields -> Values]
  BY <1>1, <1>2 DEF AutosaveInv, SaveTypeOK
<1>6. SaveTypeOK' /\ AnswerType'
  <2>1. writes' \subseteq [field : Fields, token : Nat, value : [Fields -> Values], previous : [Fields -> Values]]
    BY <1>2, <1>3 DEF AutosaveInv, SaveTypeOK
  <2>2. owed' \in [Fields -> Values \cup {Nil}] /\ status' \in [Fields -> {"idle", "pending", "saving", "saved", "error"}]
    BY <1>2 DEF AutosaveInv, SaveTypeOK, AnswerType
  <2> QED
    BY <1>2, <1>4, <1>5, <2>1, <2>2 DEF AutosaveInv, SaveTypeOK, AnswerType
<1>7. TokenInv'
  <2>1. write.field = f /\ write.token = newest[f] + 1 /\ newest[f] \in Nat /\ answered[f].token \in Nat
    BY DEF AutosaveInv, SaveTypeOK, AnswerType
  <2> HIDE DEF write
  <2>2. \A w \in writes : w.field \in Fields /\ w.token \in Nat /\ w.token <= newest[w.field]
    BY DEF AutosaveInv, SaveTypeOK, TokenInv
  <2>3. \A w \in writes : w.field = f => w.token < write.token
    BY <2>1, <2>2
  <2>4. \A w \in writes' : w.token <= newest'[w.field]
    BY <1>2, <1>4, <2>1, <2>2 DEF AutosaveInv, SaveTypeOK
  <2>5. \A v, w \in writes' : v.field = w.field /\ v.token = w.token => v = w
    BY <1>2, <2>1, <2>2, <2>3 DEF AutosaveInv, TokenInv
  <2>6. \A g \in Fields : answered'[g].token <= newest'[g]
    BY <1>4, <2>1 DEF AutosaveInv, TokenInv
  <2>7. \A w \in writes' : w.token = newest'[w.field] => answered'[w.field].token < w.token
    BY <1>2, <1>4, <2>1, <2>2 DEF AutosaveInv, TokenInv
  <2> QED
    BY <2>4, <2>5, <2>6, <2>7 DEF TokenInv
<1>8. TypedIsSent'
  <2>1. owed'[f] = Nil
    BY <1>2 DEF AutosaveInv, AnswerType
  <2>2. \A g \in Fields \ {f} : owed'[g] = owed[g]
    BY <1>2 DEF AutosaveInv, AnswerType
  <2> QED
    BY <1>2, <2>1, <2>2 DEF AutosaveInv, EditsAreKept, TypedIsSent
<1>9. StatusIsTheNewestWrites'
  <2>1. status'[f] = "saving" /\ write \in writes' /\ write.field = f /\ write.token = newest'[f]
    BY <1>2, <1>4 DEF AutosaveInv, SaveTypeOK
  <2>2. \A g \in Fields \ {f} : status'[g] = status[g]
    BY <1>2 DEF AutosaveInv, SaveTypeOK
  <2>3. \A w \in writes : w \in writes'
    BY <1>2
  <2> HIDE DEF write
  <2> QED
    BY <1>2, <1>4, <2>1, <2>2, <2>3 DEF AutosaveInv, EditsAreKept, StatusIsTheNewestWrites
<1> QED
  BY <1>6, <1>7, <1>8, <1>9 DEF AutosaveInv, EditsAreKept

\* An answer says what the newest write has come to, or nothing.
LEMMA AnswerKeeps ==
    ASSUME AutosaveInv, NEW w \in writes, NEW how \in {"saved", "error"}, Settled(w, how),
           NEW value \in [Fields -> Values], Emitted(value), server' \in [Fields -> Values]
    PROVE  AutosaveInv'
<1> USE AutosaveAssumption
<1>1. /\ writes' = writes \ {w} /\ UNCHANGED <<focus, shown, pending, newest, owed>>
      /\ status' = IF Superseded(w) THEN status ELSE [status EXCEPT ![w.field] = how]
      /\ answered' = [answered EXCEPT ![w.field] =
                         IF w.token > @.token THEN [token |-> w.token, how |-> how] ELSE @]
  BY DEF Settled
<1>2. /\ {store', draft', committed'} \subseteq [Fields -> Values]
      /\ \A f \in Fields : f = focus' => committed'[f] = committed[f]
  BY EmittedKeeps DEF AutosaveInv
<1>3. w.field \in Fields /\ w.token \in Nat /\ w.token <= newest[w.field] /\ answered[w.field].token \in Nat
  BY DEF AutosaveInv, SaveTypeOK, TokenInv, AnswerType
<1>4. answered' \in [Fields -> [token : Nat, how : {"none", "saved", "error"}]]
  BY <1>1, <1>3 DEF AutosaveInv, AnswerType
<1>5. SaveTypeOK' /\ AnswerType'
  <2>1. status' \in [Fields -> {"idle", "pending", "saving", "saved", "error"}]
    BY <1>1, <1>3 DEF AutosaveInv, SaveTypeOK
  <2> QED
    BY <1>1, <1>2, <1>4, <2>1 DEF AutosaveInv, SaveTypeOK, AnswerType
<1>6. \A f \in Fields \ {w.field} : answered'[f] = answered[f]
  BY <1>1 DEF AutosaveInv, AnswerType
<1>7. answered'[w.field] = IF w.token > answered[w.field].token THEN [token |-> w.token, how |-> how] ELSE answered[w.field]
  BY <1>1, <1>3 DEF AutosaveInv, AnswerType
<1>8. TokenInv'
  <2>1. \A f \in Fields : answered'[f].token <= newest'[f]
    BY <1>1, <1>3, <1>6, <1>7 DEF AutosaveInv, TokenInv
  <2>2. ASSUME NEW v \in writes', v.token = newest'[v.field] PROVE answered'[v.field].token < v.token
    <3>1. v \in writes /\ v # w /\ v.field \in Fields /\ v.token \in Nat /\ answered[v.field].token < v.token
      BY <1>1, <2>2 DEF AutosaveInv, SaveTypeOK, TokenInv
    <3>2. CASE v.field = w.field
      <4>1. w.token < v.token
        BY <1>1, <1>3, <2>2, <3>1, <3>2 DEF AutosaveInv, TokenInv
      <4> QED
        BY <1>7, <3>1, <3>2, <4>1
    <3>3. CASE v.field # w.field
      BY <1>6, <3>1, <3>3
    <3> QED
      BY <3>2, <3>3
  <2> QED
    BY <1>1, <2>1, <2>2 DEF AutosaveInv, TokenInv
<1>9. TypedIsSent'
  BY <1>1, <1>2 DEF AutosaveInv, EditsAreKept, TypedIsSent
<1>10. StatusIsTheNewestWrites'
  <2> SUFFICES ASSUME NEW f \in Fields \ pending
               PROVE  /\ status'[f] \in {"saved", "error"} => answered'[f] = [token |-> newest[f], how |-> status'[f]]
                      /\ status'[f] = "saving" => \E v \in writes' : v.field = f /\ v.token = newest[f]
    BY <1>1 DEF StatusIsTheNewestWrites
  <2>1. CASE f = w.field /\ ~Superseded(w)
    <3>1. status'[f] = how /\ w.token = newest[f]
      BY <1>1, <2>1 DEF Superseded, AutosaveInv, SaveTypeOK
    <3>2. answered[f].token < w.token
      BY <2>1, <3>1 DEF AutosaveInv, TokenInv
    <3>3. answered'[f] = [token |-> newest[f], how |-> how]
      BY <1>3, <1>7, <2>1, <3>1, <3>2
    <3> QED
      BY <3>1, <3>3
  <2>2. CASE f # w.field \/ Superseded(w)
    <3>1. status'[f] = status[f]
      BY <1>1, <2>2 DEF AutosaveInv, SaveTypeOK
    <3>2. answered[f].token = newest[f] => answered'[f] = answered[f]
      BY <1>3, <1>6, <1>7, <2>2 DEF Superseded
    <3>3. \A v \in writes : v.field = f /\ v.token = newest[f] => v \in writes'
      BY <1>1, <2>2 DEF Superseded
    <3> QED
      BY <3>1, <3>2, <3>3 DEF AutosaveInv, EditsAreKept, StatusIsTheNewestWrites
  <2> QED
    BY <2>1, <2>2
<1> QED
  BY <1>5, <1>8, <1>9, <1>10 DEF AutosaveInv, EditsAreKept

\* Typing, entering a field and what the status line forgets by itself.
LEMMA TypingKeeps ==
    ASSUME AutosaveInv,
           \/ \E v \in Values : TypeValid(v)
           \/ TypeInvalid
           \/ \E f \in Fields : Enter(f) \/ SavedExpires(f)
           \/ \E value \in [Fields -> Values] : OtherDevice(value)
    PROVE  AutosaveInv'
<1> USE AutosaveAssumption
<1>1. ASSUME NEW v \in Values, TypeValid(v) PROVE AutosaveInv'
  <2>1. SaveTypeOK' /\ AnswerType'
    BY <1>1 DEF TypeValid, AutosaveInv, SaveTypeOK, AnswerType
  <2>2. TokenInv'
    BY <1>1 DEF TypeValid, AutosaveInv, TokenInv
  <2>3. TypedIsSent'
    BY <1>1 DEF TypeValid, AutosaveInv, SaveTypeOK, AnswerType, EditsAreKept, TypedIsSent
  <2>4. StatusIsTheNewestWrites'
    BY <1>1 DEF TypeValid, AutosaveInv, SaveTypeOK, EditsAreKept, StatusIsTheNewestWrites
  <2> QED
    BY <2>1, <2>2, <2>3, <2>4 DEF AutosaveInv, EditsAreKept
<1>2. ASSUME TypeInvalid PROVE AutosaveInv'
  <2>1. SaveTypeOK' /\ AnswerType'
    BY <1>2 DEF TypeInvalid, AutosaveInv, SaveTypeOK, AnswerType
  <2>2. TokenInv'
    BY <1>2 DEF TypeInvalid, AutosaveInv, TokenInv
  <2>3. TypedIsSent'
    BY <1>2 DEF TypeInvalid, AutosaveInv, SaveTypeOK, AnswerType, EditsAreKept, TypedIsSent
  <2>4. StatusIsTheNewestWrites'
    BY <1>2 DEF TypeInvalid, AutosaveInv, SaveTypeOK, EditsAreKept, StatusIsTheNewestWrites
  <2> QED
    BY <2>1, <2>2, <2>3, <2>4 DEF AutosaveInv, EditsAreKept
<1>3. ASSUME NEW f \in Fields, Enter(f) PROVE AutosaveInv'
  <2>1. SaveTypeOK' /\ AnswerType' /\ TokenInv'
    BY <1>3 DEF Enter, AutosaveInv, SaveTypeOK, AnswerType, TokenInv
  <2>2. TypedIsSent' /\ StatusIsTheNewestWrites'
    BY <1>3 DEF Enter, AutosaveInv, EditsAreKept, TypedIsSent, StatusIsTheNewestWrites
  <2> QED
    BY <2>1, <2>2 DEF AutosaveInv, EditsAreKept
<1>4. ASSUME NEW f \in Fields, SavedExpires(f) PROVE AutosaveInv'
  <2>1. SaveTypeOK' /\ AnswerType' /\ TokenInv'
    BY <1>4 DEF SavedExpires, AutosaveInv, SaveTypeOK, AnswerType, TokenInv
  <2>2. TypedIsSent' /\ StatusIsTheNewestWrites'
    BY <1>4 DEF SavedExpires, AutosaveInv, SaveTypeOK, EditsAreKept, TypedIsSent, StatusIsTheNewestWrites
  <2> QED
    BY <2>1, <2>2 DEF AutosaveInv, EditsAreKept
<1>5. ASSUME NEW value \in [Fields -> Values], OtherDevice(value) PROVE AutosaveInv'
  <2>1. SaveTypeOK' /\ AnswerType' /\ TokenInv'
    BY <1>5 DEF OtherDevice, AutosaveInv, SaveTypeOK, AnswerType, TokenInv
  <2>2. TypedIsSent' /\ StatusIsTheNewestWrites'
    BY <1>5 DEF OtherDevice, AutosaveInv, EditsAreKept, TypedIsSent, StatusIsTheNewestWrites
  <2> QED
    BY <2>1, <2>2 DEF AutosaveInv, EditsAreKept
<1> QED
  BY <1>1, <1>2, <1>3, <1>4, <1>5

\* A field that is left or whose debounce runs out sends its value, as a retry does.
LEMMA SendingKeeps ==
    ASSUME AutosaveInv, Leave \/ \E f \in Fields : DebounceFires(f) \/ Retry(f)
    PROVE  AutosaveInv'
<1> USE AutosaveAssumption
<1>1. ASSUME NEW f \in Fields, DebounceFires(f) \/ Retry(f) PROVE AutosaveInv'
  <2>1. /\ RunWrite(f, committed[f]) /\ focus' = focus /\ UNCHANGED <<shown, server, answered>>
    BY <1>1 DEF DebounceFires, Retry
  <2>2. committed[f] \in Values /\ (owed[f] # Nil => committed[f] = owed[f])
    BY DEF AutosaveInv, SaveTypeOK, EditsAreKept, TypedIsSent
  <2>3. focus' \in Fields \cup {Nil} /\ shown' \in Values \cup {"invalid", Nil}
    BY <2>1 DEF AutosaveInv, SaveTypeOK
  <2> QED
    BY <2>1, <2>2, <2>3, RunWriteKeeps
<1>2. CASE Leave /\ focus \in pending
  <2>1. /\ focus \in Fields /\ RunWrite(focus, committed[focus]) /\ focus' = Nil /\ shown' = Nil
        /\ UNCHANGED <<server, answered>>
    BY <1>2 DEF Leave, AutosaveInv, SaveTypeOK
  <2>2. committed[focus] \in Values /\ (owed[focus] # Nil => committed[focus] = owed[focus])
    BY <2>1 DEF AutosaveInv, SaveTypeOK, EditsAreKept, TypedIsSent
  <2> QED
    BY <2>1, <2>2, RunWriteKeeps
<1>3. CASE Leave /\ focus \notin pending
  <2>1. /\ focus' = Nil /\ shown' = Nil
        /\ UNCHANGED <<committed, pending, draft, store, server, newest, writes, status, owed, answered>>
    BY <1>3 DEF Leave
  <2>2. SaveTypeOK' /\ AnswerType' /\ TokenInv'
    BY <2>1 DEF AutosaveInv, SaveTypeOK, AnswerType, TokenInv
  <2>3. TypedIsSent' /\ StatusIsTheNewestWrites'
    BY <1>3, <2>1 DEF AutosaveInv, EditsAreKept, TypedIsSent, StatusIsTheNewestWrites
  <2> QED
    BY <2>2, <2>3 DEF AutosaveInv, EditsAreKept
<1> QED
  BY <1>1, <1>2, <1>3

LEMMA PollKeeps == ASSUME AutosaveInv, Poll PROVE AutosaveInv'
<1> DEFINE value == IF writes = {} THEN server ELSE store
<1>1. value \in [Fields -> Values] /\ Emitted(value)
      /\ UNCHANGED <<focus, shown, pending, server, newest, writes, status, owed, answered>>
  BY DEF Poll, AutosaveInv, SaveTypeOK
<1>2. /\ {store', draft', committed'} \subseteq [Fields -> Values]
      /\ \A f \in Fields : f = focus' => committed'[f] = committed[f]
  BY <1>1, EmittedKeeps DEF AutosaveInv
<1>3. SaveTypeOK' /\ AnswerType' /\ TokenInv'
  BY <1>1, <1>2 DEF AutosaveInv, SaveTypeOK, AnswerType, TokenInv
<1>4. TypedIsSent' /\ StatusIsTheNewestWrites'
  BY <1>1, <1>2 DEF AutosaveInv, EditsAreKept, TypedIsSent, StatusIsTheNewestWrites
<1> QED
  BY <1>3, <1>4 DEF AutosaveInv, EditsAreKept

LEMMA SaveStepInv == AutosaveInv /\ [SaveNext]_saveVars => AutosaveInv'
<1> SUFFICES ASSUME AutosaveInv, [SaveNext]_saveVars PROVE AutosaveInv'
  OBVIOUS
<1>1. CASE UNCHANGED saveVars
  BY <1>1 DEF saveVars, AutosaveInv, SaveTypeOK, AnswerType, TokenInv, EditsAreKept, TypedIsSent,
              StatusIsTheNewestWrites
<1>2. ASSUME NEW w \in writes, WriteSucceeds(w) \/ WriteFails(w) PROVE AutosaveInv'
  <2>1. w.value \in [Fields -> Values] /\ w.previous \in [Fields -> Values] /\ store \in [Fields -> Values]
        /\ server \in [Fields -> Values]
    BY DEF AutosaveInv, SaveTypeOK
  <2>2. CASE WriteSucceeds(w)
    BY <2>1, <2>2, AnswerKeeps DEF WriteSucceeds
  <2>3. CASE WriteFails(w)
    BY <2>1, <2>3, AnswerKeeps DEF WriteFails
  <2> QED
    BY <1>2, <2>2, <2>3
<1> QED
  BY <1>1, <1>2, TypingKeeps, SendingKeeps, PollKeeps DEF SaveNext

-------------------------------------------------------------------------------

\* The fields, the draft they share, the store and what is in flight keep their types, whatever
\* is typed, answered, polled or set by another device.
THEOREM AutosaveTypeCorrect == SaveSpec => []SaveTypeOK
<1>1. AutosaveInv => SaveTypeOK
  BY DEF AutosaveInv
<1> QED
  BY <1>1, SaveInitInv, SaveStepInv, PTL DEF SaveSpec

\* What is typed is sent as it was typed, and a field's status is that of its newest write
\* (autosave.ts's superseded check, and the sections' sparing of the field in focus).
THEOREM TypedEditsAreKept == SaveSpec => []EditsAreKept
<1>1. AutosaveInv => EditsAreKept
  BY DEF AutosaveInv
<1> QED
  BY <1>1, SaveInitInv, SaveStepInv, PTL DEF SaveSpec
-------------------------------------------------------------------------------
(* What the pages tell the masthead, for any pages, slots and groups of    *)
(* layers.                                                                 *)

PageRecords == [page : DOMAIN Publishes, claim : 1..generation, phase : {"loading", "layers", "up", "failed"}]

\* The pages that are alive, the newest with the last claim, and what is remembered of each.
PagesInv ==
    /\ generation \in Nat \ {0}
    /\ screen \in PageRecords /\ incoming \in PageRecords \cup {Null}
    /\ incoming = Null => screen.claim = generation
    /\ incoming # Null => /\ incoming.claim = generation /\ screen.claim < generation
                          /\ incoming.page # screen.page
    /\ DOMAIN said = {p.claim : p \in Alive}
    /\ \A c \in DOMAIN said : said[c] = [s \in Slots |-> said[c][s]]
    /\ counts \in [Groups -> Nat]

\* A slot holds what the newest page said, or else nothing, or what the page still on screen did.
SlotHolds(s) ==
    /\ slots[s] = [value |-> slots[s].value, writtenAt |-> slots[s].writtenAt]
    /\ \/ /\ slots[s].writtenAt = generation /\ slots[s].value = said[Newest.claim][s]
       \/ /\ slots[s] = Empty /\ said[Newest.claim][s] = Null
       \/ /\ incoming # Null /\ slots[s].writtenAt = screen.claim /\ said[Newest.claim][s] = Null

SlotsInv ==
    /\ slots = [s \in Slots |-> slots[s]]
    /\ \A s \in Slots : SlotHolds(s)

\* The two slots of the map are written together, and by a map that is alive; the list that is
\* open is of what one of them holds.
MapInv ==
    /\ slots["counts"].value = Null <=> slots["listing"].value = Null
    /\ slots["listing"].value # Null => \E p \in TheMap : p.claim = slots["listing"].writtenAt
    /\ slots["listing"].writtenAt = slots["counts"].writtenAt
    /\ openGroup # Null => slots["listing"].value # Null
    /\ activeMap \in {Null} \cup {p.claim : p \in TheMap}

StatusInv == PagesInv /\ SlotsInv /\ MapInv

-------------------------------------------------------------------------------

\* The pages that are alive have the last claim and, during a slide, one before it.
LEMMA PagesAreTold ==
    ASSUME PagesInv
    PROVE  /\ screen # Null /\ Alive = IF incoming = Null THEN {screen} ELSE {screen, incoming}
           /\ Newest \in Alive /\ Newest.claim = generation
           /\ TheMap = {p \in Alive : p.page = Map}
           /\ \A p \in Alive : p \in PageRecords /\ (p.claim = generation => p = Newest)
           /\ \A p, q \in TheMap : p = q
<1>1. screen # Null /\ screen \in PageRecords /\ (incoming # Null => incoming \in PageRecords)
  BY NullAssumption DEF PagesInv, PageRecords
<1>2. Alive = IF incoming = Null THEN {screen} ELSE {screen, incoming}
  BY <1>1 DEF Alive
<1>3. \A p \in PageRecords : p.claim \in Nat
  BY DEF PageRecords
<1>4. CASE incoming = Null
  BY <1>1, <1>2, <1>4 DEF PagesInv, Newest, TheMap
<1>5. CASE incoming # Null
  BY <1>1, <1>2, <1>3, <1>5 DEF PagesInv, Newest, TheMap
<1> QED
  BY <1>1, <1>2, <1>4, <1>5

LEMMA StatusInitInv == PageInit => StatusInv
<1> SUFFICES ASSUME PageInit PROVE StatusInv
  OBVIOUS
<1>1. PICK p \in DOMAIN Publishes : screen = Rendered(p, 1)
  BY DEF PageInit
<1>2. /\ screen = [page |-> p, claim |-> 1, phase |-> IF p = Map THEN "loading" ELSE "up"]
      /\ generation = 1 /\ incoming = Null /\ counts = NoCounts /\ openGroup = Null /\ activeMap = Null
      /\ said = [c \in {1} |-> Silent] /\ slots = [s \in Slots |-> Empty]
  BY <1>1 DEF PageInit, Rendered
<1>3. screen \in PageRecords /\ screen.claim = 1
  BY <1>2 DEF PageRecords
<1>4. screen # Null /\ Alive = {screen} /\ Newest = screen
  BY <1>2, <1>3, NullAssumption DEF Alive, Newest, PageRecords
<1>5. DOMAIN said = {1} /\ {p2.claim : p2 \in Alive} = {1}
  BY <1>2, <1>3, <1>4
<1>6. PagesInv
  BY <1>2, <1>3, <1>5 DEF PagesInv, Silent, NoCounts
<1>7. SlotsInv
  BY <1>2, <1>3, <1>4 DEF SlotsInv, SlotHolds, Empty, Silent
<1>8. MapInv
  BY <1>2, PageStatusAssumption DEF MapInv, Empty
<1> QED
  BY <1>6, <1>7, <1>8 DEF StatusInv

\* A new page has said nothing yet.
LEMMA StartSlideInv ==
    ASSUME StatusInv, NEW page \in DOMAIN Publishes, StartSlide(page)
    PROVE  StatusInv'
<1>1. /\ generation' = generation + 1 /\ incoming = Null /\ page # screen.page
      /\ incoming' = [page |-> page, claim |-> generation + 1, phase |-> IF page = Map THEN "loading" ELSE "up"]
      /\ said' = [c \in DOMAIN said \cup {generation + 1} |-> IF c = generation + 1 THEN Silent ELSE said[c]]
      /\ slots' = slots /\ screen' = screen /\ activeMap' = activeMap /\ counts' = counts /\ openGroup' = openGroup
  BY DEF StartSlide, Claims, Rendered
<1>2. /\ generation \in Nat \ {0} /\ screen \in PageRecords /\ screen.claim = generation
      /\ Alive = {screen} /\ Newest = screen
      /\ DOMAIN said = {generation} /\ said[generation] = [s \in Slots |-> said[generation][s]]
  BY <1>1, PagesAreTold DEF StatusInv, PagesInv
<1>3. incoming' \in PageRecords' /\ screen \in PageRecords' /\ incoming'.claim = generation + 1 /\ incoming'.page = page
  BY <1>1, <1>2 DEF PageRecords
<1>4. incoming' # Null
  <2>1. generation' \in Nat
    BY <1>1, <1>2
  <2> QED
    BY <1>3, <2>1, NullAssumption DEF PageRecords
<1>5. PagesInv'
  <2>1. screen' # Null
    BY <1>1, PagesAreTold DEF StatusInv
  <2>2. {p.claim : p \in Alive'} = {generation, generation + 1}
    BY <1>1, <1>2, <1>3, <1>4, <2>1 DEF Alive
  <2>3. DOMAIN said' = {generation, generation + 1}
    BY <1>1, <1>2
  <2>4. said'[generation] = said[generation] /\ said'[generation + 1] = Silent
    BY <1>1, <1>2
  <2>5. \A c \in DOMAIN said' : said'[c] = [s \in Slots |-> said'[c][s]]
    BY <1>2, <2>3, <2>4 DEF Silent
  <2>6. screen'.claim < generation' /\ generation' \in Nat \ {0} /\ counts' \in [Groups -> Nat]
    BY <1>1, <1>2 DEF StatusInv, PagesInv
  <2> QED
    BY <1>1, <1>3, <1>4, <2>2, <2>3, <2>5, <2>6 DEF PagesInv
<1>6. SlotsInv'
  <2>1. Newest' = incoming'
    BY <1>4 DEF Newest
  <2>2. \A s \in Slots : said'[Newest'.claim][s] = Null
    BY <1>1, <1>2, <1>3, <2>1 DEF Silent
  <2>3. ASSUME NEW s \in Slots
        PROVE  SlotHolds(s)'
    <3>1. SlotHolds(s)
      BY DEF StatusInv, SlotsInv
    <3>2. slots[s] = Empty \/ slots[s].writtenAt = screen.claim
      BY <1>1, <1>2, <3>1 DEF SlotHolds
    <3> QED
      BY <1>1, <1>4, <2>2, <3>1, <3>2 DEF SlotHolds, Empty
  <2> QED
    BY <1>1, <2>3 DEF StatusInv, SlotsInv
<1>7. MapInv'
  <2>1. TheMap \subseteq TheMap'
    BY <1>1 DEF TheMap, Alive
  <2> QED
    BY <1>1, <2>1 DEF StatusInv, MapInv
<1> QED
  BY <1>5, <1>6, <1>7 DEF StatusInv

\* What the page that slid out wrote is dropped, and what the newest wrote is not.
LEMMA FinishSlideInv ==
    ASSUME StatusInv, FinishSlide
    PROVE  StatusInv'
<1>1. /\ incoming # Null /\ screen' = incoming /\ incoming' = Null /\ generation' = generation
      /\ said' = [c \in {incoming.claim} |-> said[c]]
      /\ slots' = Released(slots, screen.claim) /\ openGroup' = Shut(slots')
      /\ activeMap' = IF activeMap \in {q.claim : q \in {screen}} THEN Null ELSE activeMap
      /\ counts' = IF \E q \in {screen} : q.page = Map THEN NoCounts ELSE counts
  BY DEF FinishSlide, Unmount
<1>2. /\ generation \in Nat \ {0} /\ screen \in PageRecords /\ incoming \in PageRecords
      /\ incoming.claim = generation /\ screen.claim < generation /\ screen.claim \in Nat \ {0}
      /\ Alive = {screen, incoming} /\ Newest = incoming /\ screen # Null
      /\ DOMAIN said = {screen.claim, generation} /\ counts \in [Groups -> Nat]
  BY <1>1, PagesAreTold DEF StatusInv, PagesInv, PageRecords
<1>3. Alive' = {incoming} /\ Newest' = incoming
  BY <1>1 DEF Alive, Newest
<1>4. PagesInv'
  <2>1. PageRecords' = PageRecords
    BY <1>1 DEF PageRecords
  <2>2. said' = [c \in {generation} |-> said[c]] /\ {q.claim : q \in Alive'} = {generation}
    BY <1>1, <1>2, <1>3
  <2>3. DOMAIN said' = {generation} /\ said'[generation] = [s \in Slots |-> said'[generation][s]]
    BY <1>2, <2>2 DEF StatusInv, PagesInv
  <2>4. counts' \in [Groups -> Nat]
    BY <1>1, <1>2 DEF NoCounts
  <2> QED
    BY <1>1, <1>2, <2>1, <2>2, <2>3, <2>4 DEF PagesInv
<1>5. \A s \in Slots : slots'[s] = IF slots[s].writtenAt > screen.claim THEN slots[s] ELSE Empty
  BY <1>1 DEF Released
<1>6. ASSUME NEW s \in Slots
      PROVE  /\ SlotHolds(s)'
             /\ \/ slots'[s] = slots[s] /\ slots[s].writtenAt = generation
                \/ slots'[s] = Empty /\ slots[s].writtenAt # generation
  <2>1. SlotHolds(s) /\ said'[generation][s] = said[generation][s]
    BY <1>1, <1>2 DEF StatusInv, SlotsInv
  <2>2. CASE slots[s].writtenAt = generation
    BY <1>1, <1>2, <1>3, <1>5, <2>1, <2>2 DEF SlotHolds, Empty
  <2>3. CASE slots[s].writtenAt # generation
    <3>1. slots'[s] = Empty /\ said[generation][s] = Null
      BY <1>2, <1>5, <2>1, <2>3 DEF SlotHolds, Empty
    <3> QED
      BY <1>1, <1>2, <1>3, <2>1, <2>3, <3>1 DEF SlotHolds, Empty
  <2> QED
    BY <2>2, <2>3
<1>7. SlotsInv'
  BY <1>1, <1>6 DEF SlotsInv, Released
<1>8. MapInv'
  <2>1. {"listing", "counts"} \subseteq Slots
    BY PageStatusAssumption
  <2>2. slots'["counts"].value = Null <=> slots'["listing"].value = Null
    BY <1>6, <2>1 DEF StatusInv, MapInv, Empty
  <2>3. slots'["listing"].writtenAt = slots'["counts"].writtenAt
    BY <1>6, <2>1 DEF StatusInv, MapInv, Empty
  <2>4. slots'["listing"].value # Null => \E q \in TheMap' : q.claim = slots'["listing"].writtenAt
    <3>1. SUFFICES ASSUME slots'["listing"].value # Null
                   PROVE  \E q \in TheMap' : q.claim = slots'["listing"].writtenAt
      OBVIOUS
    <3>2. slots'["listing"] = slots["listing"] /\ slots["listing"].writtenAt = generation
      BY <1>6, <2>1, <3>1 DEF Empty
    <3>3. PICK q \in TheMap : q.claim = generation
      BY <3>1, <3>2 DEF StatusInv, MapInv
    <3>4. q = incoming /\ q.page = Map
      BY <1>2, <3>3, PagesAreTold DEF StatusInv
    <3> QED
      BY <1>3, <3>2, <3>3, <3>4 DEF TheMap
  <2>5. openGroup' # Null => slots'["listing"].value # Null
    BY <1>1 DEF Shut
  <2>6. activeMap' \in {Null} \cup {q.claim : q \in TheMap'}
    <3>1. ASSUME activeMap' # Null PROVE \E q \in TheMap' : activeMap' = q.claim
      <4>1. activeMap' = activeMap /\ activeMap # screen.claim
        BY <1>1, <3>1
      <4>2. PICK q \in TheMap : activeMap = q.claim
        BY <3>1, <4>1 DEF StatusInv, MapInv
      <4>3. q = incoming /\ q.page = Map
        BY <1>2, <4>1, <4>2 DEF TheMap
      <4> QED
        BY <1>3, <4>1, <4>2, <4>3 DEF TheMap
    <3> QED
      BY <3>1
  <2> QED
    BY <2>2, <2>3, <2>4, <2>5, <2>6 DEF MapInv
<1> QED
  BY <1>4, <1>7, <1>8 DEF StatusInv

\* A page that is mounted at once finds every slot empty.
LEMMA MountNowInv ==
    ASSUME StatusInv, NEW page \in DOMAIN Publishes, MountNow(page)
    PROVE  StatusInv'
<1> DEFINE first == IF incoming = Null THEN slots ELSE Released(slots, incoming.claim)
<1>1. /\ generation' = generation + 1 /\ incoming' = Null
      /\ screen' = [page |-> page, claim |-> generation + 1, phase |-> IF page = Map THEN "loading" ELSE "up"]
      /\ said' = [c \in {generation + 1} |-> Silent]
      /\ slots' = Released(first, screen.claim) /\ openGroup' = Shut(slots')
      /\ activeMap' = IF activeMap \in {q.claim : q \in Alive} THEN Null ELSE activeMap
      /\ counts' = IF \E q \in Alive : q.page = Map THEN NoCounts ELSE counts
  BY DEF MountNow, Claims, Rendered, Unmount
<1>2. /\ generation \in Nat \ {0} /\ screen \in PageRecords /\ screen.claim \in Nat \ {0}
      /\ screen.claim =< generation /\ counts \in [Groups -> Nat]
      /\ incoming = Null => screen.claim = generation
      /\ incoming # Null => incoming.claim = generation
  BY DEF StatusInv, PagesInv, PageRecords
<1>3. \A s \in Slots : slots'[s] = Empty
  <2> SUFFICES ASSUME NEW s \in Slots PROVE slots'[s] = Empty
    OBVIOUS
  <2>1. SlotHolds(s)
    BY DEF StatusInv, SlotsInv
  <2>2. slots[s].writtenAt \in Nat /\ slots[s].writtenAt =< generation
    BY <1>2, <2>1 DEF SlotHolds, Empty
  <2>3. slots'[s] = IF first[s].writtenAt > screen.claim THEN first[s] ELSE Empty
    BY <1>1 DEF Released
  <2>4. CASE incoming = Null
    BY <1>2, <2>2, <2>3, <2>4
  <2>5. CASE incoming # Null
    <3>1. first[s] = IF slots[s].writtenAt > generation THEN slots[s] ELSE Empty
      BY <1>2, <2>5 DEF Released
    <3>2. first[s] = Empty
      BY <1>2, <2>2, <3>1
    <3> QED
      BY <2>3, <3>2
  <2> QED
    BY <2>4, <2>5
<1>4. screen' \in PageRecords' /\ screen'.claim = generation + 1
  BY <1>1, <1>2 DEF PageRecords
<1>5. screen' # Null
  <2>1. generation' \in Nat
    BY <1>1, <1>2
  <2> QED
    BY <1>4, <2>1, NullAssumption DEF PageRecords
<1>6. Alive' = {screen'} /\ Newest' = screen'
  BY <1>1, <1>5 DEF Alive, Newest
<1>7. PagesInv'
  <2>1. DOMAIN said' = {generation + 1} /\ {q.claim : q \in Alive'} = {generation + 1}
    BY <1>1, <1>4, <1>6
  <2>2. counts' \in [Groups -> Nat]
    BY <1>1, <1>2 DEF NoCounts
  <2>3. \A c \in DOMAIN said' : said'[c] = [s \in Slots |-> said'[c][s]]
    BY <1>1 DEF Silent
  <2> QED
    BY <1>1, <1>2, <1>4, <2>1, <2>2, <2>3 DEF PagesInv
<1>8. SlotsInv'
  <2>1. \A s \in Slots : said'[Newest'.claim][s] = Null
    BY <1>1, <1>4, <1>6 DEF Silent
  <2>2. slots' = [s \in Slots |-> slots'[s]]
    BY <1>1 DEF Released
  <2>3. \A s \in Slots : SlotHolds(s)'
    BY <1>3, <2>1 DEF SlotHolds, Empty
  <2> QED
    BY <2>2, <2>3 DEF SlotsInv
<1>9. MapInv'
  <2>1. slots'["listing"] = Empty /\ slots'["counts"] = Empty
    BY <1>3, PageStatusAssumption
  <2>2. openGroup' = Null
    BY <1>1, <2>1 DEF Shut, Empty
  <2>3. activeMap' = Null
    BY <1>1 DEF StatusInv, MapInv, TheMap
  <2> QED
    BY <2>1, <2>2, <2>3 DEF MapInv, Empty
<1> QED
  BY <1>7, <1>8, <1>9 DEF StatusInv

\* A page other than the map writes a slot of its own, if it is the newest.
LEMMA PublishInv ==
    ASSUME StatusInv, NEW p \in Alive, NEW s \in Slots, NEW value \in Nat \cup {Null}, Publish(p, s, value)
    PROVE  StatusInv'
<1>1. /\ p.page # Map /\ s \in Publishes[p.page]
      /\ slots' = Written(slots, p.claim, s, value) /\ said' = [said EXCEPT ![p.claim][s] = value]
      /\ openGroup' = Shut(slots') /\ generation' = generation /\ screen' = screen /\ incoming' = incoming
      /\ activeMap' = activeMap /\ counts' = counts
  BY DEF Publish, Live
<1>2. /\ p \in PageRecords /\ (p.claim = generation => p = Newest) /\ Newest.claim = generation
      /\ p.claim \in DOMAIN said /\ generation \in DOMAIN said /\ generation \in Nat \ {0}
  <2>1. p \in PageRecords /\ (p.claim = generation => p = Newest) /\ Newest.claim = generation /\ Newest \in Alive
    BY PagesAreTold DEF StatusInv
  <2> QED
    BY <2>1 DEF StatusInv, PagesInv
<1>3. Alive' = Alive /\ Newest' = Newest /\ TheMap' = TheMap
  BY <1>1 DEF Alive, Newest, TheMap
<1>4. s # "listing" /\ s # "counts"
  BY <1>1, <1>2, OnlyMapAssumption DEF PageRecords
<1>5. DOMAIN said' = DOMAIN said
  BY <1>1
<1>6. /\ \A c \in DOMAIN said : c # p.claim => said'[c] = said[c]
      /\ said'[p.claim] = [said[p.claim] EXCEPT ![s] = value]
  BY <1>1, <1>2
<1>7. PagesInv'
  <2>1. \A c \in DOMAIN said' : said'[c] = [t \in Slots |-> said'[c][t]]
    <3> SUFFICES ASSUME NEW c \in DOMAIN said PROVE said'[c] = [t \in Slots |-> said'[c][t]]
      BY <1>5
    <3>1. said[c] = [t \in Slots |-> said[c][t]]
      BY DEF StatusInv, PagesInv
    <3>2. DOMAIN said[c] = Slots
      BY <3>1
    <3>3. CASE c = p.claim
      BY <1>6, <3>2, <3>3
    <3>4. CASE c # p.claim
      BY <1>6, <3>1, <3>4
    <3> QED
      BY <3>3, <3>4
  <2>2. PageRecords' = PageRecords
    BY <1>1 DEF PageRecords
  <2> QED
    BY <1>1, <1>3, <1>5, <2>1, <2>2 DEF StatusInv, PagesInv
<1>8. DOMAIN slots = Slots
  BY DEF StatusInv, SlotsInv
<1>9. CASE p.claim # generation
  <2>1. slots' = slots /\ said'[generation] = said[generation]
    BY <1>1, <1>2, <1>6, <1>9 DEF Written
  <2>2. SlotsInv'
    BY <1>1, <1>2, <1>3, <2>1 DEF StatusInv, SlotsInv, SlotHolds
  <2>3. MapInv'
    BY <1>1, <1>3, <2>1 DEF StatusInv, MapInv, Shut
  <2> QED
    BY <1>7, <2>2, <2>3 DEF StatusInv
<1>10. CASE p.claim = generation
  <2>1. slots' = [slots EXCEPT ![s] = [value |-> value, writtenAt |-> generation]]
    BY <1>1, <1>10 DEF Written
  <2>2. /\ slots'[s] = [value |-> value, writtenAt |-> generation]
        /\ \A t \in Slots : t # s => slots'[t] = slots[t]
        /\ DOMAIN slots' = Slots
    BY <1>8, <2>1
  <2>3. DOMAIN said[generation] = Slots
    BY <1>2 DEF StatusInv, PagesInv
  <2>4. said'[generation][s] = value /\ \A t \in Slots : t # s => said'[generation][t] = said[generation][t]
    BY <1>6, <1>10, <2>3
  <2>5. SlotsInv'
    <3>1. ASSUME NEW t \in Slots PROVE SlotHolds(t)'
      <4>1. CASE t = s
        BY <1>1, <1>2, <1>3, <2>2, <2>4, <4>1 DEF SlotHolds
      <4>2. CASE t # s
        <5>1. SlotHolds(t)
          BY DEF StatusInv, SlotsInv
        <5> QED
          BY <1>1, <1>2, <1>3, <2>2, <2>4, <4>2, <5>1 DEF SlotHolds
      <4> QED
        BY <4>1, <4>2
    <3>2. slots' = [t \in Slots |-> slots'[t]]
      BY <2>1, <1>8
    <3> QED
      BY <3>1, <3>2 DEF SlotsInv
  <2>6. slots'["listing"] = slots["listing"] /\ slots'["counts"] = slots["counts"]
    BY <1>4, <2>2, PageStatusAssumption
  <2>7. MapInv'
    BY <1>1, <1>3, <2>6 DEF StatusInv, MapInv, Shut
  <2> QED
    BY <1>7, <2>5, <2>7 DEF StatusInv
<1> QED
  BY <1>9, <1>10

\* The phases of a map that loads disturb neither what is on screen nor its claim.
LEMMA PhasesKeepPages ==
    ASSUME PagesInv, NEW phase \in {"loading", "layers", "up", "failed"}, generation' = generation,
           screen' = InPhase(screen, phase), incoming' = InPhase(incoming, phase)
    PROVE  /\ screen' \in PageRecords /\ screen'.page = screen.page /\ screen'.claim = screen.claim
           /\ incoming = Null => incoming' = Null
           /\ incoming # Null => /\ incoming' \in PageRecords /\ incoming' # Null
                                 /\ incoming'.page = incoming.page /\ incoming'.claim = incoming.claim
           /\ Newest'.claim = Newest.claim
           /\ {p.claim : p \in Alive'} = {p.claim : p \in Alive}
           /\ \A p \in TheMap : \E q \in TheMap' : q.claim = p.claim
<1>1. /\ \A p \in PageRecords : /\ InPhase(p, phase) \in PageRecords
                                /\ InPhase(p, phase).page = p.page /\ InPhase(p, phase).claim = p.claim
      /\ \A p \in PageRecords : p # Null /\ InPhase(p, phase) # Null
  <2> SUFFICES ASSUME NEW p \in PageRecords
               PROVE  /\ InPhase(p, phase) \in PageRecords
                      /\ InPhase(p, phase).page = p.page /\ InPhase(p, phase).claim = p.claim
                      /\ p # Null /\ InPhase(p, phase) # Null
    OBVIOUS
  <2>1. \A r \in PageRecords : r # Null
    BY NullAssumption DEF PagesInv, PageRecords
  <2>2. InPhase(p, phase) = IF p.page = Map THEN [p EXCEPT !.phase = phase] ELSE p
    BY <2>1 DEF InPhase
  <2>3. p = [page |-> p.page, claim |-> p.claim, phase |-> p.phase] /\ p.page \in DOMAIN Publishes
        /\ p.claim \in 1..generation
    BY DEF PageRecords
  <2>4. [p EXCEPT !.phase = phase] = [page |-> p.page, claim |-> p.claim, phase |-> phase]
    BY <2>3
  <2>5. InPhase(p, phase) \in PageRecords /\ InPhase(p, phase).page = p.page /\ InPhase(p, phase).claim = p.claim
    BY <2>2, <2>3, <2>4 DEF PageRecords
  <2> QED
    BY <2>1, <2>5
<1>2. screen \in PageRecords /\ incoming \in PageRecords \cup {Null}
  BY DEF PagesInv
<1>3. InPhase(Null, phase) = Null
  BY DEF InPhase
<1>4. /\ screen' \in PageRecords /\ screen'.page = screen.page /\ screen'.claim = screen.claim
      /\ screen # Null /\ screen' # Null
  BY <1>1, <1>2
<1>5. CASE incoming = Null
  <2>1. incoming' = Null /\ Alive = {screen} /\ Alive' = {screen'} /\ Newest = screen /\ Newest' = screen'
    BY <1>3, <1>4, <1>5 DEF Alive, Newest
  <2> QED
    BY <1>4, <1>5, <2>1 DEF TheMap
<1>6. CASE incoming # Null
  <2>1. incoming' \in PageRecords /\ incoming' # Null /\ incoming'.page = incoming.page /\ incoming'.claim = incoming.claim
    BY <1>1, <1>2, <1>6
  <2>2. Alive = {screen, incoming} /\ Alive' = {screen', incoming'} /\ Newest = incoming /\ Newest' = incoming'
    BY <1>4, <1>6, <2>1 DEF Alive, Newest
  <2> QED
    BY <1>4, <1>6, <2>1, <2>2 DEF TheMap
<1> QED
  BY <1>5, <1>6

\* A step in which the pages change no more than their phase, and nothing is said.
LEMMA PhasesKeepInv ==
    ASSUME StatusInv, NEW phase \in {"loading", "layers", "up", "failed"},
           screen' = InPhase(screen, phase), incoming' = InPhase(incoming, phase),
           activeMap' \in {Null} \cup {p.claim : p \in TheMap},
           UNCHANGED <<generation, slots, counts, openGroup, said>>
    PROVE  StatusInv'
<1>1. /\ screen' \in PageRecords /\ screen'.page = screen.page /\ screen'.claim = screen.claim
      /\ incoming = Null => incoming' = Null
      /\ incoming # Null => /\ incoming' \in PageRecords /\ incoming' # Null
                            /\ incoming'.page = incoming.page /\ incoming'.claim = incoming.claim
      /\ Newest'.claim = Newest.claim
      /\ {p.claim : p \in Alive'} = {p.claim : p \in Alive}
      /\ \A p \in TheMap : \E q \in TheMap' : q.claim = p.claim
  BY PhasesKeepPages DEF StatusInv
<1>2. PagesInv'
  BY <1>1 DEF StatusInv, PagesInv, PageRecords
<1>3. SlotsInv'
  BY <1>1 DEF StatusInv, SlotsInv, SlotHolds
<1>4. MapInv'
  BY <1>1 DEF StatusInv, MapInv
<1> QED
  BY <1>2, <1>3, <1>4 DEF StatusInv

LEMMA MapLoadsInv ==
    ASSUME StatusInv, MapLoads
    PROVE  StatusInv'
<1>1. activeMap' \in {p.claim : p \in TheMap}
  BY DEF MapLoads
<1> QED
  BY <1>1, PhasesKeepInv DEF MapLoads

LEMMA MapFailsInv ==
    ASSUME StatusInv, MapFails
    PROVE  StatusInv'
BY PhasesKeepInv DEF MapFails

\* What the map writes goes into both of its slots, if it is the newest page, and into neither
\* if it is not.
LEMMA MapWritesInv ==
    ASSUME StatusInv, NEW p \in TheMap, NEW value \in [Groups -> Nat],
           slots' = Written(Written(slots, p.claim, "counts", value), p.claim, "listing", value),
           said' = [said EXCEPT ![p.claim]["counts"] = value, ![p.claim]["listing"] = value],
           UNCHANGED <<generation, activeMap, openGroup>>, PagesInv', Newest'.claim = Newest.claim,
           incoming = Null => incoming' = Null, incoming # Null => incoming' # Null,
           screen'.claim = screen.claim, \A r \in TheMap : \E q \in TheMap' : q.claim = r.claim
    PROVE  StatusInv'
<1>1. /\ p \in Alive /\ p \in PageRecords /\ (p.claim = generation => p = Newest) /\ Newest.claim = generation
      /\ p.claim \in DOMAIN said /\ generation \in DOMAIN said /\ generation \in Nat \ {0}
  <2>1. p \in Alive /\ p \in PageRecords /\ (p.claim = generation => p = Newest) /\ Newest.claim = generation /\ Newest \in Alive
    BY PagesAreTold DEF StatusInv
  <2> QED
    BY <2>1 DEF StatusInv, PagesInv
<1>2. {"listing", "counts"} \subseteq Slots /\ DOMAIN slots = Slots
  BY PageStatusAssumption DEF StatusInv, SlotsInv
<1>3. value # Null
  BY NullAssumption
<1>4. DOMAIN said[generation] = Slots /\ DOMAIN said[p.claim] = Slots
  <2>1. /\ said[generation] = [s \in Slots |-> said[generation][s]]
        /\ said[p.claim] = [s \in Slots |-> said[p.claim][s]]
    BY <1>1 DEF StatusInv, PagesInv
  <2> QED
    BY <2>1
<1>5. CASE p.claim # generation
  <2>1. slots' = slots /\ said'[generation] = said[generation]
    BY <1>1, <1>5 DEF Written
  <2>2. SlotsInv'
    BY <1>1, <2>1 DEF StatusInv, SlotsInv, SlotHolds
  <2>3. MapInv'
    BY <2>1 DEF StatusInv, MapInv
  <2> QED
    BY <2>2, <2>3 DEF StatusInv
<1>6. CASE p.claim = generation
  <2>1. slots' = [[slots EXCEPT !["counts"] = [value |-> value, writtenAt |-> generation]]
                         EXCEPT !["listing"] = [value |-> value, writtenAt |-> generation]]
    BY <1>6 DEF Written
  <2>2. /\ slots'["counts"] = [value |-> value, writtenAt |-> generation]
        /\ slots'["listing"] = [value |-> value, writtenAt |-> generation]
        /\ \A s \in Slots \ {"listing", "counts"} : slots'[s] = slots[s]
        /\ slots' = [s \in Slots |-> slots'[s]]
    BY <1>2, <2>1
  <2>3. /\ said'[generation]["counts"] = value /\ said'[generation]["listing"] = value
        /\ \A s \in Slots \ {"listing", "counts"} : said'[generation][s] = said[generation][s]
    BY <1>1, <1>2, <1>4, <1>6
  <2>4. ASSUME NEW s \in Slots PROVE SlotHolds(s)'
    <3>1. CASE s \in {"listing", "counts"}
      BY <1>1, <2>2, <2>3, <3>1 DEF SlotHolds
    <3>2. CASE s \notin {"listing", "counts"}
      <4>1. SlotHolds(s)
        BY DEF StatusInv, SlotsInv
      <4> QED
        BY <1>1, <2>2, <2>3, <3>2, <4>1 DEF SlotHolds
    <3> QED
      BY <3>1, <3>2
  <2>5. SlotsInv'
    BY <2>2, <2>4 DEF SlotsInv
  <2>6. MapInv'
    BY <1>3, <1>6, <2>2 DEF StatusInv, MapInv
  <2> QED
    BY <2>5, <2>6 DEF StatusInv
<1> QED
  BY <1>5, <1>6

\* What is said of the map keeps its shape.
LEMMA SaidKeepsShape ==
    ASSUME PagesInv, NEW c \in DOMAIN said, NEW value,
           said' = [said EXCEPT ![c]["counts"] = value, ![c]["listing"] = value]
    PROVE  DOMAIN said' = DOMAIN said /\ \A d \in DOMAIN said' : said'[d] = [s \in Slots |-> said'[d][s]]
<1>1. DOMAIN said' = DOMAIN said
  OBVIOUS
<1> SUFFICES ASSUME NEW d \in DOMAIN said PROVE said'[d] = [s \in Slots |-> said'[d][s]]
  BY <1>1
<1>2. said[d] = [s \in Slots |-> said[d][s]]
  BY DEF PagesInv
<1>3. DOMAIN said[d] = Slots
  BY <1>2
<1>4. CASE d = c
  <2>1. said'[c] = [[said[c] EXCEPT !["counts"] = value] EXCEPT !["listing"] = value]
    OBVIOUS
  <2>2. DOMAIN said'[c] = Slots
    BY <1>3, <1>4, <2>1
  <2> QED
    BY <1>4, <2>1, <2>2
<1>5. CASE d # c
  BY <1>2, <1>5
<1> QED
  BY <1>4, <1>5

LEMMA LayersMountInv ==
    ASSUME StatusInv, LayersMount
    PROVE  StatusInv'
<1>1. PICK p \in TheMap :
        /\ slots' = Written(Written(slots, p.claim, "counts", NoCounts), p.claim, "listing", NoCounts)
        /\ said' = [said EXCEPT ![p.claim]["counts"] = NoCounts, ![p.claim]["listing"] = NoCounts]
        /\ screen' = InPhase(screen, "up") /\ incoming' = InPhase(incoming, "up")
        /\ UNCHANGED <<generation, activeMap, counts, openGroup>>
  BY DEF LayersMount
<1>2. NoCounts \in [Groups -> Nat]
  BY DEF NoCounts
<1>3. /\ screen' \in PageRecords /\ screen'.page = screen.page /\ screen'.claim = screen.claim
      /\ incoming = Null => incoming' = Null
      /\ incoming # Null => /\ incoming' \in PageRecords /\ incoming' # Null
                            /\ incoming'.page = incoming.page /\ incoming'.claim = incoming.claim
      /\ Newest'.claim = Newest.claim
      /\ {q.claim : q \in Alive'} = {q.claim : q \in Alive}
      /\ \A q \in TheMap : \E r \in TheMap' : r.claim = q.claim
  BY <1>1, PhasesKeepPages DEF StatusInv
<1>4. p.claim \in DOMAIN said
  BY DEF StatusInv, PagesInv, TheMap
<1>5. DOMAIN said' = DOMAIN said /\ \A d \in DOMAIN said' : said'[d] = [s \in Slots |-> said'[d][s]]
  BY <1>1, <1>4, SaidKeepsShape DEF StatusInv
<1>6. PagesInv'
  BY <1>1, <1>3, <1>5 DEF StatusInv, PagesInv, PageRecords
<1> QED
  BY <1>1, <1>2, <1>3, <1>6, MapWritesInv

LEMMA LayerReportsInv ==
    ASSUME StatusInv, NEW g \in Groups, NEW n \in Nat, LayerReports(g, n)
    PROVE  StatusInv'
<1>1. PICK p \in TheMap :
        /\ counts' = [counts EXCEPT ![g] = n]
        /\ slots' = Written(Written(slots, p.claim, "counts", counts'), p.claim, "listing", counts')
        /\ said' = [said EXCEPT ![p.claim]["counts"] = counts', ![p.claim]["listing"] = counts']
        /\ UNCHANGED <<generation, screen, incoming, activeMap, openGroup>>
  BY DEF LayerReports
<1>2. PICK value : value = counts'
  OBVIOUS
<1>3. value \in [Groups -> Nat]
  BY <1>1, <1>2 DEF StatusInv, PagesInv
<1>4. p.claim \in DOMAIN said
  BY DEF StatusInv, PagesInv, TheMap
<1>5. DOMAIN said' = DOMAIN said /\ \A d \in DOMAIN said' : said'[d] = [s \in Slots |-> said'[d][s]]
  BY <1>1, <1>2, <1>4, SaidKeepsShape DEF StatusInv
<1>6. Alive' = Alive /\ Newest' = Newest /\ TheMap' = TheMap
  BY <1>1 DEF Alive, Newest, TheMap
<1>7. PagesInv'
  BY <1>1, <1>2, <1>3, <1>5, <1>6 DEF StatusInv, PagesInv, PageRecords
<1> QED
  BY <1>1, <1>2, <1>3, <1>6, <1>7, MapWritesInv

LEMMA ToggleGroupInv ==
    ASSUME StatusInv, NEW g \in Groups, ToggleGroup(g)
    PROVE  StatusInv'
<1>1. /\ slots["counts"].value # Null
      /\ UNCHANGED <<generation, slots, screen, incoming, activeMap, counts, said>>
  BY DEF ToggleGroup
<1>2. Alive' = Alive /\ Newest' = Newest /\ TheMap' = TheMap
  BY <1>1 DEF Alive, Newest, TheMap
<1>3. PagesInv'
  BY <1>1, <1>2 DEF StatusInv, PagesInv, PageRecords
<1>4. SlotsInv'
  BY <1>1, <1>2 DEF StatusInv, SlotsInv, SlotHolds
<1>5. MapInv'
  BY <1>1, <1>2 DEF StatusInv, MapInv
<1> QED
  BY <1>3, <1>4, <1>5 DEF StatusInv

LEMMA StatusStepInv == StatusInv /\ [PageNext]_statusVars => StatusInv'
<1> SUFFICES ASSUME StatusInv, [PageNext]_statusVars PROVE StatusInv'
  OBVIOUS
<1>1. ASSUME NEW p \in DOMAIN Publishes, StartSlide(p) PROVE StatusInv'
  BY <1>1, StartSlideInv
<1>2. ASSUME NEW p \in DOMAIN Publishes, MountNow(p) PROVE StatusInv'
  BY <1>2, MountNowInv
<1>3. CASE FinishSlide
  BY <1>3, FinishSlideInv
<1>4. CASE MapLoads
  BY <1>4, MapLoadsInv
<1>5. CASE LayersMount
  BY <1>5, LayersMountInv
<1>6. CASE MapFails
  BY <1>6, MapFailsInv
<1>7. ASSUME NEW p \in Alive, NEW s \in Slots, NEW value \in 0..MaxSaid \cup {Null}, Publish(p, s, value)
      PROVE  StatusInv'
  <2>1. value \in Nat \cup {Null}
    BY PageStatusAssumption
  <2> QED
    BY <1>7, <2>1, PublishInv
<1>8. ASSUME NEW g \in Groups, NEW n \in 0..MaxSaid, LayerReports(g, n) PROVE StatusInv'
  <2>1. n \in Nat
    BY PageStatusAssumption
  <2> QED
    BY <1>8, <2>1, LayerReportsInv
<1>9. ASSUME NEW g \in Groups, ToggleGroup(g) PROVE StatusInv'
  BY <1>9, ToggleGroupInv
<1>10. CASE UNCHANGED statusVars
  <2>1. UNCHANGED <<generation, slots, screen, incoming, activeMap, counts, openGroup, said>>
    BY <1>10 DEF statusVars
  <2>2. Alive' = Alive /\ Newest' = Newest /\ TheMap' = TheMap
    BY <2>1 DEF Alive, Newest, TheMap
  <2>3. PagesInv'
    BY <2>1, <2>2 DEF StatusInv, PagesInv, PageRecords
  <2>4. SlotsInv'
    BY <2>1, <2>2 DEF StatusInv, SlotsInv, SlotHolds
  <2>5. MapInv'
    BY <2>1, <2>2 DEF StatusInv, MapInv
  <2> QED
    BY <2>3, <2>4, <2>5 DEF StatusInv
<1> QED
  BY <1>1, <1>2, <1>3, <1>4, <1>5, <1>6, <1>7, <1>8, <1>9, <1>10 DEF PageNext

\* Through slides, slides cut short and late loads the slots hold what the newest page has last
\* said and nothing of a page that is gone, and the list the masthead has open is of a map that
\* is alive (page-status.ts's claims, and the masthead's effect on the listing).
THEOREM StatusFollowsThePages == PageSpec => []StatusIsTheLivePages
<1>1. StatusInv => StatusIsTheLivePages
  <2> SUFFICES ASSUME StatusInv PROVE StatusIsTheLivePages
    OBVIOUS
  <2>1. ASSUME NEW s \in Slots
        PROVE  IF said[Newest.claim][s] # Null THEN slots[s].value = said[Newest.claim][s]
               ELSE slots[s].value = Null \/ (incoming # Null /\ slots[s].writtenAt = screen.claim)
    BY DEF StatusInv, SlotsInv, SlotHolds, Empty
  <2>2. openGroup # Null => TheMap # {}
    BY DEF StatusInv, MapInv
  <2>3. activeMap \in {Null} \cup {p.claim : p \in TheMap}
    BY DEF StatusInv, MapInv
  <2> QED
    BY <2>1, <2>2, <2>3 DEF StatusIsTheLivePages
<1> QED
  BY <1>1, StatusInitInv, StatusStepInv, PTL DEF PageSpec

-------------------------------------------------------------------------------
(* One live layer of the map, for any layer, any settings and any feed:    *)
(* first what the clustering and the drawing make of an answer, then the   *)
(* popup and the follow.                                                   *)

\* A clustering of the points, one after the other.
Joining(g, points, scale, threshold) ==
    /\ g[0] = <<>>
    /\ \A n \in 1..Len(points) : g[n] = Joined(g[n - 1], points[n], scale, threshold)

\* The recursion of clusterPoints has a solution, and its clusters are where that ends.
LEMMA ClusterPointsIsReached ==
    ASSUME NEW P, NEW points \in Seq(P), NEW scale, NEW threshold
    PROVE  \E g : Joining(g, points, scale, threshold) /\ ClusterPoints(points, scale, threshold) = g[Len(points)]
<1>1. Len(points) \in Nat
  OBVIOUS
<1> DEFINE Step(g, n) == Joined(g[n - 1], points[n], scale, threshold)
           Solves(g, m) == g[0] = <<>> /\ \A n \in 1..m : g[n] = Step(g, n)
           Rule(g) == [n \in 0..Len(points) |->
                         IF n = 0 THEN <<>> ELSE Joined(g[n - 1], points[n], scale, threshold)]
           working == CHOOSE g : g = Rule(g)
           Reached == {m \in Nat : \E g : Solves(g, m)}
<1>2. 0 \in Reached
  <2>1. Solves([n \in 0..0 |-> <<>>], 0)
    OBVIOUS
  <2> QED
    BY <2>1
<1>3. ASSUME NEW m \in Nat, m \in Reached PROVE m + 1 \in Reached
  <2>1. PICK g : Solves(g, m)
    <3> HIDE DEF Solves
    <3> QED
      BY <1>3
  <2>2. PICK last : last = Joined(g[m], points[m + 1], scale, threshold)
    OBVIOUS
  <2>3. PICK h : h = [n \in 0..(m + 1) |-> IF n = m + 1 THEN last ELSE g[n]]
    OBVIOUS
  <2>4. h[m + 1] = last /\ \A n \in 0..m : h[n] = g[n]
    BY <2>3
  <2>5. h[0] = <<>>
    BY <2>1, <2>4
  <2>6. ASSUME NEW n \in 1..(m + 1) PROVE h[n] = Step(h, n)
    <3>1. n - 1 \in 0..m /\ h[n - 1] = g[n - 1]
      BY <2>4
    <3>2. CASE n = m + 1
      BY <2>2, <2>4, <3>1, <3>2
    <3>3. CASE n # m + 1
      <4>1. n \in 1..m /\ n \in 0..m
        BY <3>3
      <4>2. g[n] = Step(g, n)
        BY <2>1, <4>1
      <4> QED
        BY <2>4, <3>1, <4>1, <4>2
    <3> QED
      BY <3>2, <3>3
  <2>7. Solves(h, m + 1)
    <3> HIDE DEF Step
    <3> QED
      BY <2>5, <2>6
  <2> HIDE DEF Solves
  <2> QED
    BY <2>7
<1>4. PICK g : Solves(g, Len(points))
  <2> HIDE DEF Reached, Solves
  <2>1. \A m \in Nat : m \in Reached
    BY <1>2, <1>3, SetInduction
  <2> QED
    BY <1>1, <2>1 DEF Reached
<1>5. PICK f : f = [n \in 0..Len(points) |-> g[n]]
  OBVIOUS
<1>6. f = Rule(f)
  <2>1. ASSUME NEW n \in 0..Len(points) PROVE f[n] = Rule(f)[n]
    <3>1. Rule(f)[n] = IF n = 0 THEN <<>> ELSE Step(f, n)
      OBVIOUS
    <3> HIDE DEF Rule
    <3>2. CASE n = 0
      BY <1>4, <1>5, <3>1, <3>2
    <3>3. CASE n # 0
      <4>1. n \in 1..Len(points) /\ n - 1 \in 0..Len(points)
        BY <1>1, <3>3
      <4>2. f[n - 1] = g[n - 1] /\ f[n] = g[n]
        BY <1>5, <4>1
      <4>3. g[n] = Step(g, n)
        BY <1>4, <4>1
      <4> QED
        BY <3>1, <3>3, <4>2, <4>3
    <3> QED
      BY <3>2, <3>3
  <2>2. f = [n \in 0..Len(points) |-> f[n]]
    BY <1>5
  <2> QED
    BY <2>1, <2>2
<1>7. working = Rule(working)
  <2> HIDE DEF Rule
  <2> QED
    BY <1>6
<1>8. ClusterPoints(points, scale, threshold) = working[Len(points)]
  BY DEF ClusterPoints
<1> HIDE DEF working
<1>9. Joining(working, points, scale, threshold)
  <2>1. \A n \in 0..Len(points) : working[n] = IF n = 0 THEN <<>> ELSE Step(working, n)
    BY <1>7
  <2>2. working[0] = <<>>
    BY <1>1, <2>1
  <2>3. ASSUME NEW n \in 1..Len(points) PROVE working[n] = Step(working, n)
    <3>1. n \in 0..Len(points) /\ n # 0
      BY <1>1
    <3> QED
      BY <2>1, <3>1
  <2> QED
    BY <2>2, <2>3 DEF Joining
<1> QED
  BY <1>8, <1>9

\* The clusters part the first n points: each of them is in one cluster, and no cluster is empty.
Parted(groups, points, n) ==
    /\ groups \in Seq(ToSet(groups))
    /\ \A i \in DOMAIN groups : groups[i].members \in Seq(ToSet(points)) /\ groups[i].members # <<>>
    /\ \A i \in DOMAIN groups : \A g \in ToSet(groups[i].members) : \E j \in 1..n : points[j] = g
    /\ \A j \in 1..n : \E i \in DOMAIN groups : points[j] \in ToSet(groups[i].members)
    /\ \A i, j \in DOMAIN groups : i # j => Ids(groups[i].members) \cap Ids(groups[j].members) = {}

\* The element and id that one more element adds to those of a sequence.
Adds(longer, s, x) == ToSet(longer) = ToSet(s) \cup {x} /\ Ids(longer) = Ids(s) \cup {x.id}

\* What an element added to its end does to a sequence.
LEMMA AppendAdds ==
    ASSUME NEW S, NEW s \in Seq(S), NEW x
    PROVE  LET longer == Append(s, x)
           IN  /\ longer \in Seq(S \cup {x}) /\ longer # <<>>
               /\ Len(longer) = Len(s) + 1 /\ longer[Len(s) + 1] = x /\ \A i \in 1..Len(s) : longer[i] = s[i]
               /\ Adds(longer, s, x)
<1>1. PICK longer : longer = Append(s, x)
  OBVIOUS
<1>2. s \in Seq(S \cup {x})
  <2>1. Len(s) \in Nat /\ s = [i \in 1..Len(s) |-> s[i]] /\ \A i \in 1..Len(s) : s[i] \in S \cup {x}
    OBVIOUS
  <2> QED
    BY <2>1
<1>3. /\ longer \in Seq(S \cup {x})
      /\ Len(longer) = Len(s) + 1 /\ longer[Len(s) + 1] = x /\ \A i \in 1..Len(s) : longer[i] = s[i]
  BY <1>1, <1>2
<1>4. /\ Len(s) \in Nat /\ DOMAIN s = 1..Len(s) /\ DOMAIN longer = 1..(Len(s) + 1)
  BY <1>2, <1>3
<1>5. longer # <<>>
  BY <1>3, <1>4
<1>6. \A i \in DOMAIN longer : i = Len(s) + 1 \/ i \in DOMAIN s
  BY <1>4
<1>7. DOMAIN s \subseteq DOMAIN longer /\ Len(s) + 1 \in DOMAIN longer
  BY <1>4
<1>8. ToSet(longer) = ToSet(s) \cup {x}
  BY <1>3, <1>4, <1>6, <1>7 DEF ToSet
<1>9. Ids(longer) = Ids(s) \cup {x.id}
  BY <1>3, <1>4, <1>6, <1>7 DEF Ids
<1> QED
  BY <1>1, <1>3, <1>5, <1>8, <1>9 DEF Adds

\* The elements of a sequence, and their ids.
LEMMA SetOfItself ==
    ASSUME NEW S, NEW s \in Seq(S)
    PROVE  /\ s \in Seq(ToSet(s)) /\ ToSet(s) \subseteq S
           /\ DOMAIN s = 1..Len(s) /\ Len(s) \in Nat
           /\ Ids(s) = {g.id : g \in ToSet(s)}
<1>1. Len(s) \in Nat /\ DOMAIN s = 1..Len(s) /\ s = [i \in 1..Len(s) |-> s[i]]
  OBVIOUS
<1>2. \A i \in 1..Len(s) : s[i] \in ToSet(s) /\ s[i] \in S
  BY <1>1 DEF ToSet
<1>3. s \in Seq(ToSet(s))
  BY <1>1, <1>2
<1>4. ToSet(s) \subseteq S
  BY <1>1, <1>2 DEF ToSet
<1>5. Ids(s) = {g.id : g \in ToSet(s)}
  BY DEF Ids, ToSet
<1> QED
  BY <1>1, <1>3, <1>4, <1>5

\* A point joins one cluster, an empty one when it starts it, and leaves the others alone.
JoinsAt(next, groups, p, at) ==
    /\ DOMAIN next = DOMAIN groups \cup {at}
    /\ \A i \in DOMAIN groups \ {at} : next[i] = groups[i]
    /\ next[at].members = Append(IF at \in DOMAIN groups THEN groups[at].members ELSE <<>>, p)

\* Joining is that, for a cluster there was or one more.
LEMMA JoinsOne ==
    ASSUME NEW groups, groups \in Seq(ToSet(groups)), NEW p, NEW scale, NEW threshold
    PROVE  LET next == Joined(groups, p, scale, threshold)
           IN  next \in Seq(ToSet(next)) /\ \E at : JoinsAt(next, groups, p, at)
<1>1. DOMAIN groups = 1..Len(groups) /\ Len(groups) \in Nat
  BY SetOfItself
<1>2. PICK reach : reach = {i \in DOMAIN groups : Near(groups[i], p, scale, threshold)}
  OBVIOUS
<1>3. PICK next : next = Joined(groups, p, scale, threshold)
  OBVIOUS
<1>4. CASE reach = {}
  <2>1. PICK own : own = [sum |-> scale * p.place, members |-> <<p>>]
    OBVIOUS
  <2>2. next = Append(groups, own)
    BY <1>2, <1>3, <1>4, <2>1 DEF Joined
  <2>3. /\ next \in Seq(ToSet(groups) \cup {own})
        /\ Len(next) = Len(groups) + 1 /\ next[Len(groups) + 1] = own
        /\ \A i \in 1..Len(groups) : next[i] = groups[i]
    BY <2>2, AppendAdds
  <2>4. next \in Seq(ToSet(next)) /\ DOMAIN next = 1..(Len(groups) + 1)
    BY <2>3, SetOfItself
  <2>5. PICK at : at = Len(groups) + 1
    OBVIOUS
  <2>6. DOMAIN next = DOMAIN groups \cup {at} /\ at \notin DOMAIN groups
    BY <1>1, <2>4, <2>5
  <2>7. next[at].members = Append(<<>>, p)
    <3>1. own.members = <<p>>
      BY <2>1
    <3>2. <<p>> = Append(<<>>, p)
      OBVIOUS
    <3> QED
      BY <2>3, <2>5, <3>1, <3>2
  <2>8. JoinsAt(next, groups, p, at)
    BY <1>1, <2>3, <2>6, <2>7 DEF JoinsAt
  <2> QED
    BY <1>3, <2>4, <2>8
<1>5. CASE reach # {}
  <2>1. PICK at : at = CHOOSE i \in reach : \A j \in reach : i <= j
    OBVIOUS
  <2>2. at \in reach
    <3>1. reach \subseteq Nat
      BY <1>1, <1>2
    <3>2. \E i \in reach : \A j \in reach : i <= j
      BY <1>5, <3>1, LeastNumber
    <3> QED
      BY <2>1, <3>2
  <2>3. at \in DOMAIN groups
    BY <1>2, <2>2
  <2>4. PICK own : own = [sum |-> groups[at].sum + scale * p.place, members |-> Append(groups[at].members, p)]
    OBVIOUS
  <2>5. next = [groups EXCEPT ![at] = own]
    BY <1>2, <1>3, <1>5, <2>1, <2>4 DEF Joined
  <2>6. DOMAIN next = DOMAIN groups /\ next[at] = own /\ \A i \in DOMAIN groups \ {at} : next[i] = groups[i]
    BY <2>3, <2>5
  <2>7. next \in Seq(ToSet(groups) \cup {own})
    <3>1. next = [i \in 1..Len(groups) |-> next[i]]
      BY <1>1, <2>5
    <3>2. \A i \in 1..Len(groups) : next[i] \in ToSet(groups) \cup {own}
      BY <1>1, <2>6 DEF ToSet
    <3> QED
      BY <1>1, <3>1, <3>2
  <2>8. next \in Seq(ToSet(next))
    BY <2>7, SetOfItself
  <2>9. next[at].members = Append(groups[at].members, p)
    BY <2>4, <2>6
  <2>10. JoinsAt(next, groups, p, at)
    BY <2>3, <2>6, <2>9 DEF JoinsAt
  <2> QED
    BY <1>3, <2>8, <2>10
<1> QED
  BY <1>4, <1>5

\* No two of the points have one id.
Distinct(points) == \A i, j \in DOMAIN points : points[i].id = points[j].id => i = j

\* The next point is parted with those before it.
LEMMA JoiningParts ==
    ASSUME NEW P, NEW points \in Seq(P), Distinct(points), NEW n \in Nat, n + 1 <= Len(points),
           NEW groups, Parted(groups, points, n), NEW scale, NEW threshold
    PROVE  Parted(Joined(groups, points[n + 1], scale, threshold), points, n + 1)
<1>1. DOMAIN points = 1..Len(points) /\ Len(points) \in Nat
  BY SetOfItself
<1>2. PICK p : p = points[n + 1]
  OBVIOUS
<1>3. PICK next : next = Joined(groups, p, scale, threshold)
  OBVIOUS
<1>4. /\ groups \in Seq(ToSet(groups))
      /\ \A i \in DOMAIN groups : groups[i].members \in Seq(ToSet(points)) /\ groups[i].members # <<>>
      /\ \A i \in DOMAIN groups : \A g \in ToSet(groups[i].members) : \E j \in 1..n : points[j] = g
      /\ \A j \in 1..n : \E i \in DOMAIN groups : points[j] \in ToSet(groups[i].members)
      /\ \A i, j \in DOMAIN groups : i # j => Ids(groups[i].members) \cap Ids(groups[j].members) = {}
  BY DEF Parted
<1>5. next \in Seq(ToSet(next)) /\ \E at : JoinsAt(next, groups, p, at)
  BY <1>3, <1>4, JoinsOne
<1>0. PICK at : JoinsAt(next, groups, p, at)
  BY <1>5
<1>6. /\ DOMAIN next = DOMAIN groups \cup {at}
      /\ \A i \in DOMAIN groups \ {at} : next[i] = groups[i]
      /\ next[at].members = Append(IF at \in DOMAIN groups THEN groups[at].members ELSE <<>>, p)
  BY <1>0 DEF JoinsAt
<1>7. PICK before : before = IF at \in DOMAIN groups THEN groups[at].members ELSE <<>>
  OBVIOUS
<1>8. PICK after : after = Append(before, p)
  OBVIOUS
<1>9. next[at].members = after
  BY <1>6, <1>7, <1>8
<1>10. before \in Seq(ToSet(points))
  <2>1. <<>> \in Seq(ToSet(points))
    OBVIOUS
  <2>2. at \in DOMAIN groups => groups[at].members \in Seq(ToSet(points))
    BY <1>4
  <2> QED
    BY <1>7, <2>1, <2>2
<1>11. p \in ToSet(points)
  <2>1. n + 1 \in DOMAIN points
    BY <1>1
  <2> QED
    BY <1>2, <2>1 DEF ToSet
<1>12. /\ after \in Seq(ToSet(points)) /\ after # <<>>
       /\ ToSet(after) = ToSet(before) \cup {p} /\ Ids(after) = Ids(before) \cup {p.id}
  <2>1. ToSet(points) \cup {p} = ToSet(points)
    BY <1>11
  <2>2. after \in Seq(ToSet(points) \cup {p}) /\ after # <<>>
    BY <1>8, <1>10, AppendAdds
  <2>3. Adds(after, before, p)
    BY <1>8, <1>10, AppendAdds
  <2> QED
    BY <2>1, <2>2, <2>3 DEF Adds
<1>13. \/ ToSet(before) = {} /\ Ids(before) = {}
       \/ at \in DOMAIN groups /\ before = groups[at].members
  BY <1>7 DEF ToSet, Ids
<1>14. \A i \in DOMAIN next : i = at \/ i \in DOMAIN groups \ {at}
  BY <1>6
<1>15. ASSUME NEW i \in DOMAIN next PROVE next[i].members \in Seq(ToSet(points)) /\ next[i].members # <<>>
  BY <1>4, <1>6, <1>9, <1>12, <1>14
<1>16. ASSUME NEW i \in DOMAIN next, NEW g \in ToSet(next[i].members) PROVE \E j \in 1..(n + 1) : points[j] = g
  <2>1. n + 1 \in 1..(n + 1) /\ 1..n \subseteq 1..(n + 1)
    OBVIOUS
  <2>2. CASE i = at
    <3>1. g \in ToSet(before) \/ g = p
      BY <1>9, <1>12, <1>16, <2>2
    <3>2. g \in ToSet(before) => \E j \in 1..n : points[j] = g
      BY <1>4, <1>13
    <3> QED
      BY <1>2, <2>1, <3>1, <3>2
  <2>3. CASE i \in DOMAIN groups \ {at}
    <3>1. \E j \in 1..n : points[j] = g
      BY <1>4, <1>6, <1>16, <2>3
    <3> QED
      BY <2>1, <3>1
  <2> QED
    BY <1>14, <2>2, <2>3
<1>17. ASSUME NEW j \in 1..(n + 1) PROVE \E i \in DOMAIN next : points[j] \in ToSet(next[i].members)
  <2>1. at \in DOMAIN next
    BY <1>6
  <2>2. CASE j = n + 1
    BY <1>2, <1>9, <1>12, <2>1, <2>2
  <2>3. CASE j \in 1..n
    <3>1. PICK i \in DOMAIN groups : points[j] \in ToSet(groups[i].members)
      BY <1>4, <2>3
    <3>2. CASE i = at
      <4>1. before = groups[at].members
        BY <1>7, <3>1, <3>2
      <4> QED
        BY <1>9, <1>12, <2>1, <3>1, <3>2, <4>1
    <3>3. CASE i # at
      BY <1>6, <3>1, <3>3
    <3> QED
      BY <3>2, <3>3
  <2> QED
    BY <2>2, <2>3
<1>18. ASSUME NEW i \in DOMAIN groups PROVE p.id \notin Ids(groups[i].members)
  <2> SUFFICES ASSUME p.id \in Ids(groups[i].members) PROVE FALSE
    OBVIOUS
  <2>1. PICK g \in ToSet(groups[i].members) : g.id = p.id
    BY DEF Ids, ToSet
  <2>2. PICK j \in 1..n : points[j] = g
    BY <1>4, <2>1
  <2>3. j \in DOMAIN points /\ n + 1 \in DOMAIN points /\ points[j].id = points[n + 1].id
    BY <1>1, <1>2, <2>1, <2>2
  <2> QED
    BY <2>3 DEF Distinct
<1>19. ASSUME NEW j \in DOMAIN groups \ {at} PROVE Ids(after) \cap Ids(groups[j].members) = {}
  BY <1>4, <1>12, <1>13, <1>18
<1>20. ASSUME NEW i \in DOMAIN next, NEW j \in DOMAIN next, i # j
       PROVE  Ids(next[i].members) \cap Ids(next[j].members) = {}
  <2>1. CASE i = at
    <3>1. j \in DOMAIN groups \ {at}
      BY <1>14, <1>20, <2>1
    <3> QED
      BY <1>6, <1>9, <1>19, <2>1, <3>1
  <2>2. CASE j = at
    <3>1. i \in DOMAIN groups \ {at}
      BY <1>14, <1>20, <2>2
    <3> QED
      BY <1>6, <1>9, <1>19, <2>2, <3>1
  <2>3. CASE i # at /\ j # at
    BY <1>4, <1>6, <1>14, <1>20, <2>3
  <2> QED
    BY <2>1, <2>2, <2>3
<1>21. Parted(next, points, n + 1)
  BY <1>5, <1>15, <1>16, <1>17, <1>20 DEF Parted
<1> QED
  BY <1>2, <1>3, <1>21

\* clusterPoints puts every vessel or camera in one cluster, and none in two, wherever they are
\* and whatever the zoom: a badge stands for vessels that no pin stands for.
THEOREM ClustersArePartition ==
    ASSUME NEW P, NEW points \in Seq(P), Distinct(points), NEW scale, NEW threshold
    PROVE  Parted(ClusterPoints(points, scale, threshold), points, Len(points))
<1>1. Len(points) \in Nat
  OBVIOUS
<1>2. PICK g : Joining(g, points, scale, threshold) /\ ClusterPoints(points, scale, threshold) = g[Len(points)]
  BY ClusterPointsIsReached
<1> DEFINE Reached == {n \in Nat : n <= Len(points) => Parted(g[n], points, n)}
<1>3. 0 \in Reached
  <2>1. Parted(<<>>, points, 0)
    BY DEF Parted, ToSet
  <2> QED
    BY <1>2, <2>1 DEF Joining
<1>4. ASSUME NEW n \in Nat, n \in Reached PROVE n + 1 \in Reached
  <2> SUFFICES ASSUME n + 1 <= Len(points) PROVE Parted(g[n + 1], points, n + 1)
    OBVIOUS
  <2>1. Parted(g[n], points, n)
    BY <1>1, <1>4
  <2>2. n + 1 \in 1..Len(points) /\ (n + 1) - 1 = n
    BY <1>1
  <2>3. g[n + 1] = Joined(g[n], points[n + 1], scale, threshold)
    BY <1>2, <2>2 DEF Joining
  <2> QED
    BY <2>1, <2>3, JoiningParts
<1>5. \A n \in Nat : n \in Reached
  <2> HIDE DEF Reached
  <2> QED
    BY <1>3, <1>4, SetInduction
<1> QED
  BY <1>1, <1>2, <1>5

\* A filter of points of different ids keeps points of different ids.
LEMMA KeptDistinct ==
    ASSUME NEW S, NEW s \in Seq(S), Distinct(s), NEW T
    PROVE  /\ Kept(s, T) \in Seq(S) /\ Distinct(Kept(s, T))
           /\ ToSet(Kept(s, T)) = ToSet(s) \cap T
<1>1. PICK k : k = Kept(s, T)
  OBVIOUS
<1>2. k \in Seq(S)
  BY <1>1, KeptIsFiltered
<1>3. ToSet(k) = ToSet(s) \cap T
  <2>1. Range(k) = Range(s) \cap T
    BY <1>1, KeptIsFiltered
  <2>2. ToSet(k) = Range(k) /\ ToSet(s) = Range(s)
    BY DEF ToSet, Range
  <2> QED
    BY <2>1, <2>2
<1>4. PICK at : Placed(k, at, s, Len(s), T)
  BY <1>1, KeptInPlace
<1>5. DOMAIN k = 1..Len(k) /\ Len(k) \in Nat /\ DOMAIN s = 1..Len(s)
  BY <1>2
<1>6. ASSUME NEW i \in DOMAIN k, NEW j \in DOMAIN k, k[i].id = k[j].id PROVE i = j
  <2>1. at[i] \in DOMAIN s /\ at[j] \in DOMAIN s /\ k[i] = s[at[i]] /\ k[j] = s[at[j]]
    BY <1>4, <1>5 DEF Placed
  <2>2. at[i] = at[j]
    BY <1>6, <2>1 DEF Distinct
  <2>3. at[i] \in Int /\ at[j] \in Int
    BY <1>5, <2>1
  <2>4. (i < j => at[i] < at[j]) /\ (j < i => at[j] < at[i])
    BY <1>4, <1>5 DEF Placed
  <2> QED
    BY <1>5, <2>2, <2>3, <2>4
<1>7. Distinct(k)
  BY <1>6 DEF Distinct
<1> QED
  BY <1>1, <1>2, <1>3, <1>7

\* What the settings and the age limit leave of an answer.
LEMMA VisibleDistinct ==
    ASSUME NEW S, NEW items \in Seq(S), Distinct(items), NEW p, NEW moment
    PROVE  LET given == Filtered(items, p)
           IN  /\ given \in Seq(S) /\ Distinct(given)
               /\ Visible(given, p, moment) \in Seq(S) /\ Distinct(Visible(given, p, moment))
<1>1. PICK given : given = Filtered(items, p)
  OBVIOUS
<1>2. given \in Seq(S) /\ Distinct(given)
  BY <1>1, KeptDistinct DEF Filtered, Major
<1>3. Visible(given, p, moment) \in Seq(S) /\ Distinct(Visible(given, p, moment))
  BY <1>2, KeptDistinct DEF Visible, VisibleGlyphs
<1> QED
  BY <1>1, <1>2, <1>3

\* Every layer parts what it draws, those that do not cluster into ones.
LEMMA GroupingParts ==
    ASSUME NEW S, NEW points \in Seq(S), Distinct(points), NEW z
    PROVE  /\ Parted(Grouping(points, z), points, Len(points))
           /\ kind \notin Clustered =>
                  \A i \in DOMAIN Grouping(points, z) : Len(Grouping(points, z)[i].members) = 1
<1>1. PICK groups : groups = Grouping(points, z)
  OBVIOUS
<1>2. CASE kind \in Clustered
  BY <1>2, ClustersArePartition DEF Grouping
<1>3. CASE kind \notin Clustered
  <2>1. DOMAIN points = 1..Len(points) /\ Len(points) \in Nat
    BY SetOfItself
  <2>2. groups = [i \in 1..Len(points) |-> [sum |-> 0, members |-> <<points[i]>>]]
    BY <1>1, <1>3, <2>1 DEF Grouping
  <2>3. DOMAIN groups = 1..Len(points) /\ \A i \in 1..Len(points) : groups[i].members = <<points[i]>>
    BY <2>2
  <2>4. groups \in Seq(ToSet(groups))
    <3>1. \A i \in 1..Len(points) : groups[i] \in ToSet(groups)
      BY <2>3 DEF ToSet
    <3>2. groups = [i \in 1..Len(points) |-> groups[i]]
      BY <2>2
    <3> QED
      BY <2>1, <3>1, <3>2
  <2>5. ASSUME NEW i \in 1..Len(points)
        PROVE  /\ groups[i].members \in Seq(ToSet(points)) /\ groups[i].members # <<>> /\ Len(groups[i].members) = 1
               /\ ToSet(groups[i].members) = {points[i]} /\ Ids(groups[i].members) = {points[i].id}
    <3>1. points[i] \in ToSet(points)
      BY <2>1 DEF ToSet
    <3>2. PICK one : one = <<points[i]>>
      OBVIOUS
    <3>3. one \in Seq(ToSet(points)) /\ one # <<>> /\ Len(one) = 1 /\ DOMAIN one = {1} /\ one[1] = points[i]
      BY <3>1, <3>2
    <3>4. ToSet(one) = {points[i]} /\ Ids(one) = {points[i].id}
      BY <3>3 DEF ToSet, Ids
    <3> QED
      BY <2>3, <3>2, <3>3, <3>4
  <2>6. \A i, j \in 1..Len(points) : i # j => Ids(groups[i].members) \cap Ids(groups[j].members) = {}
    BY <2>1, <2>5 DEF Distinct
  <2>7. Parted(groups, points, Len(points))
    <3>1. ASSUME NEW i \in 1..Len(points), NEW g \in ToSet(groups[i].members) PROVE \E j \in 1..Len(points) : points[j] = g
      BY <2>5
    <3>2. ASSUME NEW j \in 1..Len(points) PROVE \E i \in 1..Len(points) : points[j] \in ToSet(groups[i].members)
      <4>1. points[j] \in ToSet(groups[j].members)
        BY <2>5
      <4> QED
        BY <4>1
    <3>3. \A i \in 1..Len(points) : groups[i].members \in Seq(ToSet(points)) /\ groups[i].members # <<>>
      BY <2>5
    <3> QED
      BY <2>3, <2>4, <2>6, <3>1, <3>2, <3>3 DEF Parted
  <2> QED
    BY <1>1, <1>3, <2>3, <2>5, <2>7
<1> QED
  BY <1>2, <1>3

\* What stands alone is each of the groups of one.
LEMMA SinglesStandAlone ==
    ASSUME NEW points, NEW n, NEW groups, Parted(groups, points, n)
    PROVE  /\ Singles(groups) \in Seq(ToSet(points))
           /\ \A g \in ToSet(Singles(groups)) :
                  \E i \in DOMAIN groups : Len(groups[i].members) = 1 /\ groups[i].members[1] = g
           /\ \A i \in DOMAIN groups : Len(groups[i].members) = 1 => groups[i].members[1] \in ToSet(Singles(groups))
<1>1. groups \in Seq(ToSet(groups)) /\ \A i \in DOMAIN groups : groups[i].members \in Seq(ToSet(points))
  BY DEF Parted
<1>2. PICK ones : ones = {g \in ToSet(groups) : Len(g.members) = 1}
  OBVIOUS
<1>3. PICK alone : alone = Kept(groups, ones)
  OBVIOUS
<1>4. PICK singles : singles = Singles(groups)
  OBVIOUS
<1>5. singles = [i \in DOMAIN alone |-> alone[i].members[1]]
  BY <1>2, <1>3, <1>4 DEF Singles
<1>6. alone \in Seq(ones) /\ Range(alone) = Range(groups) \cap ones
  BY <1>1, <1>3, KeptIsFiltered
<1>7. DOMAIN alone = 1..Len(alone) /\ Len(alone) \in Nat
  BY <1>6
<1>8. ASSUME NEW i \in DOMAIN alone
      PROVE  \E j \in DOMAIN groups : Len(groups[j].members) = 1 /\ groups[j].members[1] = singles[i]
  <2>1. alone[i] \in ones
    BY <1>6, <1>7
  <2>2. PICK j \in DOMAIN groups : groups[j] = alone[i]
    BY <1>2, <2>1 DEF ToSet
  <2>3. Len(groups[j].members) = 1 /\ groups[j].members[1] = singles[i]
    BY <1>2, <1>5, <2>1, <2>2
  <2> QED
    BY <2>3
<1>9. singles \in Seq(ToSet(points))
  <2>1. ASSUME NEW i \in DOMAIN alone PROVE singles[i] \in ToSet(points)
    <3>1. PICK j \in DOMAIN groups : Len(groups[j].members) = 1 /\ groups[j].members[1] = singles[i]
      BY <1>8
    <3>2. groups[j].members \in Seq(ToSet(points))
      BY <1>1
    <3> QED
      BY <3>1, <3>2
  <2>2. singles = [i \in 1..Len(alone) |-> singles[i]] /\ \A i \in 1..Len(alone) : singles[i] \in ToSet(points)
    BY <1>5, <1>7, <2>1
  <2> QED
    BY <1>7, <2>2
<1>10. ASSUME NEW g \in ToSet(singles)
       PROVE  \E i \in DOMAIN groups : Len(groups[i].members) = 1 /\ groups[i].members[1] = g
  <2>1. PICK i \in DOMAIN alone : singles[i] = g
    BY <1>5, <1>10 DEF ToSet
  <2> QED
    BY <1>8, <2>1
<1>11. ASSUME NEW i \in DOMAIN groups, Len(groups[i].members) = 1 PROVE groups[i].members[1] \in ToSet(singles)
  <2>1. groups[i] \in Range(groups) /\ groups[i] \in ones
    BY <1>2, <1>11 DEF Range, ToSet
  <2>2. groups[i] \in Range(alone)
    BY <1>6, <2>1
  <2>3. PICK j \in DOMAIN alone : alone[j] = groups[i]
    BY <2>2 DEF Range
  <2>4. singles[j] = groups[i].members[1] /\ DOMAIN singles = DOMAIN alone
    BY <1>5, <2>3
  <2> QED
    BY <2>3, <2>4 DEF ToSet
<1> QED
  BY <1>4, <1>9, <1>10, <1>11

\* The vessels of the badges.
Badges(groups) == UNION {Ids(c.members) : c \in {c \in ToSet(groups) : Len(c.members) > 1}}

\* What is pinned are the points with a place.
LEMMA PinnedIsPlaced ==
    ASSUME NEW S, NEW points \in Seq(S)
    PROVE  \A id : id \in Ids(Pinned(points)) <=> \E g \in ToSet(points) : g.place # Nowhere /\ g.id = id
<1>1. PICK placed : placed = {g \in ToSet(points) : g.place # Nowhere}
  OBVIOUS
<1>2. PICK pins : pins = Pinned(points)
  OBVIOUS
<1>3. pins = Kept(points, placed)
  BY <1>1, <1>2 DEF Pinned
<1>4. Range(pins) = Range(points) \cap placed
  BY <1>3, KeptIsFiltered
<1>5. ToSet(points) = Range(points) /\ ToSet(pins) = Range(pins)
  BY DEF Range, ToSet
<1>6. Ids(pins) = {g.id : g \in ToSet(pins)}
  BY DEF Ids, ToSet
<1> QED
  BY <1>1, <1>2, <1>4, <1>5, <1>6

\* What is placed is pinned or within one badge, and never both; a layer without badges pins it.
LEMMA PartedIsListed ==
    ASSUME NEW S, NEW points \in Seq(S), NEW groups, Parted(groups, points, Len(points))
    PROVE  LET pins == Ids(Pinned(Singles(groups)))
           IN  /\ Ids(Pinned(points)) \subseteq pins \cup Badges(groups)
               /\ pins \cap Badges(groups) = {}
               /\ (\A i \in DOMAIN groups : Len(groups[i].members) = 1) =>
                      Badges(groups) = {} /\ pins = Ids(Pinned(points))
<1>1. PICK singles : singles = Singles(groups)
  OBVIOUS
<1>2. /\ singles \in Seq(ToSet(points))
      /\ \A g \in ToSet(singles) : \E i \in DOMAIN groups : Len(groups[i].members) = 1 /\ groups[i].members[1] = g
      /\ \A i \in DOMAIN groups : Len(groups[i].members) = 1 => groups[i].members[1] \in ToSet(singles)
  BY <1>1, SinglesStandAlone
<1>3. /\ \A i \in DOMAIN groups : groups[i].members \in Seq(ToSet(points)) /\ groups[i].members # <<>>
      /\ \A j \in 1..Len(points) : \E i \in DOMAIN groups : points[j] \in ToSet(groups[i].members)
      /\ \A i, j \in DOMAIN groups : i # j => Ids(groups[i].members) \cap Ids(groups[j].members) = {}
  BY DEF Parted
<1>4. ASSUME NEW i \in DOMAIN groups
      PROVE  /\ Len(groups[i].members) \in Nat /\ Len(groups[i].members) >= 1
             /\ DOMAIN groups[i].members = 1..Len(groups[i].members)
             /\ \A g \in ToSet(groups[i].members) : g.id \in Ids(groups[i].members)
  <2>1. PICK members : members = groups[i].members
    OBVIOUS
  <2>2. members \in Seq(ToSet(points)) /\ members # <<>>
    BY <1>3, <2>1
  <2>3. Len(members) \in Nat /\ Len(members) >= 1 /\ DOMAIN members = 1..Len(members)
    BY <2>2
  <2>4. \A g \in ToSet(members) : g.id \in Ids(members)
    BY DEF ToSet, Ids
  <2> QED
    BY <2>1, <2>3, <2>4
<1>5. \A id : id \in Ids(Pinned(singles)) <=> \E g \in ToSet(singles) : g.place # Nowhere /\ g.id = id
  BY <1>2, PinnedIsPlaced
<1>6. \A id : id \in Ids(Pinned(points)) <=> \E g \in ToSet(points) : g.place # Nowhere /\ g.id = id
  BY PinnedIsPlaced
<1>7. \A g \in ToSet(points) : \E i \in DOMAIN groups : g \in ToSet(groups[i].members)
  <2>1. DOMAIN points = 1..Len(points)
    OBVIOUS
  <2> QED
    BY <1>3, <2>1 DEF ToSet
<1>8. ASSUME NEW id \in Ids(Pinned(points)), id \notin Ids(Pinned(singles))
      PROVE  id \in Badges(groups) /\ \E i \in DOMAIN groups : Len(groups[i].members) # 1
  <2>1. PICK g \in ToSet(points) : g.place # Nowhere /\ g.id = id
    BY <1>6
  <2>2. PICK i \in DOMAIN groups : g \in ToSet(groups[i].members)
    BY <1>7
  <2>3. Len(groups[i].members) # 1
    <3> SUFFICES ASSUME Len(groups[i].members) = 1 PROVE FALSE
      OBVIOUS
    <3>1. g = groups[i].members[1]
      BY <1>4, <2>2 DEF ToSet
    <3>2. g \in ToSet(singles)
      BY <1>2, <3>1
    <3> QED
      BY <1>5, <1>8, <2>1, <3>2
  <2>4. Len(groups[i].members) > 1 /\ id \in Ids(groups[i].members) /\ groups[i] \in ToSet(groups)
    <3>1. Len(groups[i].members) > 1
      <4>1. PICK m : m = Len(groups[i].members)
        OBVIOUS
      <4>2. m \in Nat /\ m >= 1
        BY <1>4, <4>1
      <4>3. m # 1
        BY <2>3, <4>1
      <4>4. m > 1
        BY <4>2, <4>3
      <4> QED
        BY <4>1, <4>4
    <3>2. id \in Ids(groups[i].members)
      BY <1>4, <2>1, <2>2
    <3>3. groups[i] \in ToSet(groups)
      BY DEF ToSet
    <3> QED
      BY <3>1, <3>2, <3>3
  <2> QED
    BY <2>3, <2>4 DEF Badges
<1>9. ASSUME NEW id \in Ids(Pinned(singles)) PROVE id \notin Badges(groups)
  <2> SUFFICES ASSUME id \in Badges(groups) PROVE FALSE
    OBVIOUS
  <2>1. PICK g \in ToSet(singles) : g.place # Nowhere /\ g.id = id
    BY <1>5
  <2>2. PICK i \in DOMAIN groups : Len(groups[i].members) = 1 /\ groups[i].members[1] = g
    BY <1>2
  <2>3. PICK j \in DOMAIN groups : Len(groups[j].members) > 1 /\ id \in Ids(groups[j].members)
    BY DEF Badges, ToSet
  <2>4. id \in Ids(groups[i].members)
    BY <1>4, <2>1, <2>2 DEF Ids
  <2>5. ~(Len(groups[i].members) > 1)
    BY <2>2
  <2>6. i # j
    BY <2>3, <2>5
  <2> QED
    BY <1>3, <2>3, <2>4, <2>6
<1>10. ASSUME \A i \in DOMAIN groups : Len(groups[i].members) = 1
       PROVE  Badges(groups) = {} /\ Ids(Pinned(singles)) = Ids(Pinned(points))
  <2>1. \A c \in ToSet(groups) : ~(Len(c.members) > 1)
    <3>1. \A c \in ToSet(groups) : Len(c.members) = 1
      BY <1>10 DEF ToSet
    <3>2. ASSUME NEW c, Len(c.members) = 1 PROVE ~(Len(c.members) > 1)
      BY <3>2
    <3> QED
      BY <3>1, <3>2
  <2>2. Badges(groups) = {}
    BY <2>1 DEF Badges
  <2>3. Ids(Pinned(points)) \subseteq Ids(Pinned(singles))
    BY <1>8, <1>10
  <2>4. ToSet(singles) \subseteq ToSet(points)
    BY <1>2, SetOfItself
  <2>5. Ids(Pinned(singles)) \subseteq Ids(Pinned(points))
    BY <1>5, <1>6, <2>4
  <2> QED
    BY <2>2, <2>3, <2>5
<1> QED
  BY <1>1, <1>8, <1>9, <1>10

\* Nothing drawn has been seen after the moment it is drawn at.
SeenBefore(entries, moment) ==
    \A id \in DOMAIN entries : entries[id].seen \in Int /\ entries[id].seen <= moment

\* What is drawn are the pins, and of aircraft those that coast too.
LEMMA EntriesAreThePins ==
    ASSUME NEW old, NEW pins, NEW given, NEW moment \in Int, SeenBefore(old, moment)
    PROVE  LET e == Entries(old, pins, given, moment)
           IN  /\ Ids(pins) \subseteq DOMAIN e /\ SeenBefore(e, moment)
               /\ kind # "aircraft" => DOMAIN e = Ids(pins)
<1>1. PICK diff : diff = DiffGlyphs([id \in DOMAIN old |-> old[id].item], pins)
  OBVIOUS
<1>2. PICK kept : kept = {id \in diff.toRemove : Keeps(old[id], given, moment)}
  OBVIOUS
<1>3. PICK same : same = DOMAIN old \ (diff.toRemove \cup Ids(diff.toUpdate))
  OBVIOUS
<1>4. PICK e : e = Entries(old, pins, given, moment)
  OBVIOUS
<1>9. e = [id \in Ids(pins) \cup kept |->
              IF id \in kept THEN old[id]
              ELSE [item |-> IF kind \in Vessels /\ id \in same THEN old[id].item
                             ELSE CHOOSE g \in ToSet(pins) : g.id = id, seen |-> moment]]
  BY <1>1, <1>2, <1>3, <1>4, Zenon DEF Entries
<1>5. DOMAIN e = Ids(pins) \cup kept
  BY <1>9
<1>6. kept \subseteq DOMAIN old
  BY <1>1, <1>2 DEF DiffGlyphs
<1>7. ASSUME NEW id \in DOMAIN e PROVE e[id].seen \in Int /\ e[id].seen <= moment
  <2>1. CASE id \in kept
    <3>1. e[id] = old[id]
      BY <1>5, <1>9, <2>1
    <3> QED
      BY <1>6, <2>1, <3>1 DEF SeenBefore
  <2>2. CASE id \notin kept
    <3>1. e[id].seen = moment
      BY <1>5, <1>9, <2>2
    <3> QED
      BY <3>1
  <2> QED
    BY <2>1, <2>2
<1>8. ASSUME kind # "aircraft" PROVE kept = {}
  <2> SUFFICES ASSUME NEW id \in kept PROVE FALSE
    OBVIOUS
  <2>1. moment - old[id].seen < 0
    BY <1>2, <1>8 DEF Keeps, CoastOf
  <2>2. old[id].seen \in Int /\ old[id].seen <= moment
    BY <1>6 DEF SeenBefore
  <2> QED
    BY <2>1, <2>2
<1> QED
  BY <1>4, <1>5, <1>7, <1>8 DEF SeenBefore

\* What is listed is drawn, as itself or within a badge and never as both.
Listed(ids, d) == ids \subseteq DOMAIN d.entries \cup Grouped(d) /\ DOMAIN d.entries \cap Grouped(d) = {}

\* What is drawn of the items as the settings filter them: all of them, where nothing clusters
\* or coasts.
AsFiltered(items, p, d) ==
    kind \notin Vessels \cup {"roadCameras"} => DOMAIN d.entries = Ids(Pinned(Filtered(items, p)))

\* What one call of the effect draws and reports.
LEMMA DrawLists ==
    ASSUME NEW S, NEW items \in Seq(S), Distinct(items), NEW old, NEW p, NEW z, NEW moment \in Int, NEW followed,
           SeenBefore(old.entries, moment)
    PROVE  LET d == Draw(old, items, p, z, moment, followed)
           IN  /\ Listed(Report(items, p, moment).items, d)
               /\ AsFiltered(items, p, d)
               /\ SeenBefore(d.entries, moment)
<1>1. PICK given : given = Filtered(items, p)
  OBVIOUS
<1>2. PICK visible : visible = Visible(given, p, moment)
  OBVIOUS
<1>3. PICK groups : groups = Grouping(visible, z)
  OBVIOUS
<1>4. PICK singles : singles = Singles(groups)
  OBVIOUS
<1>5. PICK entries : entries = Entries(old.entries, Pinned(singles), IF kind = "ships" THEN singles ELSE given, moment)
  OBVIOUS
<1>6. PICK clusters : clusters = Clusters(old.clusters, {g \in ToSet(groups) : Len(g.members) > 1})
  OBVIOUS
<1>7. PICK d : d = Draw(old, items, p, z, moment, followed)
  OBVIOUS
<1>8. d = [entries |-> entries, clusters |-> clusters, popup |-> PopupAfter(old, entries, clusters, followed)]
  BY <1>1, <1>2, <1>3, <1>4, <1>5, <1>6, <1>7 DEF Draw
<1>9. d.entries = entries /\ d.clusters = clusters
  BY <1>8
<1>10. visible \in Seq(S) /\ Distinct(visible)
  BY <1>1, <1>2, VisibleDistinct
<1>11. Parted(groups, visible, Len(visible))
  BY <1>3, <1>10, GroupingParts
<1>12. kind \notin Clustered => \A i \in DOMAIN groups : Len(groups[i].members) = 1
  BY <1>3, <1>10, GroupingParts
<1>13. PICK pins : pins = Ids(Pinned(singles))
  OBVIOUS
<1>14. Ids(Pinned(visible)) \subseteq pins \cup Badges(groups) /\ pins \cap Badges(groups) = {}
  BY <1>4, <1>10, <1>11, <1>13, PartedIsListed
<1>15. kind \notin Clustered => Badges(groups) = {} /\ pins = Ids(Pinned(visible))
  BY <1>4, <1>10, <1>11, <1>12, <1>13, PartedIsListed
<1>16. pins \subseteq DOMAIN entries /\ SeenBefore(entries, moment) /\ (kind # "aircraft" => DOMAIN entries = pins)
  BY <1>5, <1>13, EntriesAreThePins
<1>17. Grouped(d) = Badges(groups)
  <2>1. DOMAIN clusters = {Ids(g.members) : g \in {c \in ToSet(groups) : Len(c.members) > 1}}
    BY <1>6 DEF Clusters
  <2> QED
    BY <1>9, <2>1 DEF Grouped, Badges
<1>18. Report(items, p, moment).items = Ids(Pinned(visible))
  BY <1>1, <1>2 DEF Report
<1>19. Listed(Report(items, p, moment).items, d)
  <2>1. CASE kind = "aircraft"
    <3>1. kind \notin Clustered
      BY <2>1 DEF Clustered
    <3> QED
      BY <1>9, <1>15, <1>16, <1>17, <1>18, <3>1 DEF Listed
  <2>2. CASE kind # "aircraft"
    BY <1>9, <1>14, <1>16, <1>17, <1>18, <2>2 DEF Listed
  <2> QED
    BY <2>1, <2>2
<1>20. AsFiltered(items, p, d)
  <2> SUFFICES ASSUME kind \notin Vessels \cup {"roadCameras"} PROVE DOMAIN d.entries = Ids(Pinned(given))
    BY <1>1 DEF AsFiltered
  <2>1. kind \notin Clustered /\ kind \notin Vessels /\ kind # "aircraft"
    BY DEF Clustered, Vessels
  <2>2. visible = given
    BY <1>2, <2>1 DEF Visible
  <2> QED
    BY <1>9, <1>15, <1>16, <2>1, <2>2
<1> QED
  BY <1>7, <1>9, <1>16, <1>19, <1>20

\* A follow is of a vessel of this layer, and holds the slideshow once.
HoldInv ==
    /\ clock \in Nat
    /\ follow \in Follows \cup {Absent}
    /\ follow # Absent => kind \in Vessels
    /\ holds = IF follow = Absent THEN 0 ELSE 1

\* How long a followed vessel can have been missing: no longer than the watchdog has counted,
\* give or take its first tick, or than it is since the layer remembered it.
LostInv ==
    follow # Absent =>
        /\ follow.tick \in {Absent, clock} /\ (follow.tick = Absent => follow.lost = 0)
        /\ follow.placed = "no" => follow.lost <= follow.missing + 1
        /\ follow.missing < LoseAfter \/ follow.missing = 0
        /\ follow.lost <= LoseAfter + 1
        /\ Holding.memory # Absent =>
               /\ Holding.memory.seen \in Nat /\ Holding.memory.seen <= clock
               /\ Holding.memory.item.id = follow.id => follow.lost <= clock - Holding.memory.seen

\* What is drawn is made of entries, clusters and a popup, which is open on one of them.
Shaped(d) ==
    /\ d = [entries |-> d.entries, clusters |-> d.clusters, popup |-> d.popup]
    /\ d.clusters = [k \in DOMAIN d.clusters |-> d.clusters[k]]
    /\ \A k \in DOMAIN d.clusters :
           d.clusters[k] = [members |-> d.clusters[k].members, selected |-> d.clusters[k].selected]
    /\ d.popup # Absent => /\ d.popup = [on |-> d.popup.on, shows |-> d.popup.shows]
                           /\ d.popup.on \in DOMAIN d.entries \cup DOMAIN d.clusters

Tells(d, followed) == d.popup # Absent => d.popup.shows = Told(d, d.popup.on, followed)

\* Nothing of a layer stays when its setting has gone.
OffIsEmpty ==
    prefs.on = "off" =>
        drawn = Nothing /\ report = NoReport /\ modal = Absent /\ answer = Absent /\ latest = <<>>

LayerInv == HoldInv /\ LostInv /\ Shaped(drawn) /\ Tells(drawn, Followed(follow)) /\ OffIsEmpty

-------------------------------------------------------------------------------

\* Drawing anew leaves the popup on what is drawn, and true; a vessel's, if it was true before.
LEMMA DrawIsShaped ==
    ASSUME NEW old, NEW items, NEW p, NEW z, NEW moment, NEW followed
    PROVE  LET d == Draw(old, items, p, z, moment, followed)
           IN  /\ Shaped(d)
               /\ kind \notin Vessels \/ (Shaped(old) /\ Tells(old, followed)) => Tells(d, followed)
               /\ old.popup = Absent => d.popup = Absent
<1>1. PICK placed, given, groups :
        LET entries  == Entries(old.entries, placed, given, moment)
            clusters == Clusters(old.clusters, groups)
        IN  Draw(old, items, p, z, moment, followed)
              = [entries |-> entries, clusters |-> clusters, popup |-> PopupAfter(old, entries, clusters, followed)]
  BY Zenon DEF Draw
<1>2. PICK entries : entries = Entries(old.entries, placed, given, moment)
  OBVIOUS
<1>3. PICK clusters : clusters = Clusters(old.clusters, groups)
  OBVIOUS
<1>4. PICK d : d = [entries |-> entries, clusters |-> clusters, popup |-> PopupAfter(old, entries, clusters, followed)]
  OBVIOUS
<1>5. d.entries = entries /\ d.clusters = clusters /\ d.popup = PopupAfter(old, entries, clusters, followed)
  BY <1>4
<1>6. /\ clusters = [k \in DOMAIN clusters |-> clusters[k]]
      /\ \A k \in DOMAIN clusters : clusters[k] = [members |-> clusters[k].members, selected |-> clusters[k].selected]
  BY <1>3 DEF Clusters
<1>7. d.popup # Absent => /\ d.popup = [on |-> d.popup.on, shows |-> d.popup.shows]
                          /\ d.popup.on \in DOMAIN entries \cup DOMAIN clusters
  BY <1>5 DEF PopupAfter
<1>8. kind \notin Vessels => Tells(d, followed)
  BY <1>5 DEF PopupAfter, Tells, Told
<1>9. old.popup = Absent => d.popup = Absent
  BY <1>5 DEF PopupAfter
<1>12. ASSUME kind \in Vessels, Shaped(old), Tells(old, followed) PROVE Tells(d, followed)
  <2>1. SUFFICES ASSUME d.popup # Absent PROVE d.popup.shows = Told(d, d.popup.on, followed)
    BY DEF Tells
  <2>2. PICK spot : spot = old.popup.on
    OBVIOUS
  <2>3. old.popup # Absent /\ kind \notin Rebuilt /\ spot \in DOMAIN entries \cup DOMAIN clusters
    BY <1>5, <2>1, <2>2, Zenon DEF PopupAfter
  <2>4. PICK same : same <=> spot \notin DOMAIN old.clusters /\ entries[spot].item = old.entries[spot].item
    OBVIOUS
  <2>5. d.popup = IF spot \in DOMAIN clusters
                  THEN [on |-> spot, shows |-> Content(clusters[spot].members, clusters[spot].selected, followed)]
                  ELSE [on |-> spot, shows |-> IF same THEN old.popup.shows
                                               ELSE Content(<<entries[spot].item>>, spot, followed)]
    BY <1>5, <1>12, <2>1, <2>2, <2>3, <2>4 DEF PopupAfter
  <2>6. d.popup.on = spot
    BY <2>5
  <2>7. CASE spot \in DOMAIN clusters
    <3>1. d.popup.shows = Content(clusters[spot].members, clusters[spot].selected, followed)
      BY <2>7, <2>5
    <3>2. Told(d, spot, followed) = Content(clusters[spot].members, clusters[spot].selected, followed)
      BY <1>5, <2>7 DEF Told
    <3> QED
      BY <2>6, <3>1, <3>2
  <2>8. CASE spot \notin DOMAIN clusters
    <3>1. Told(d, spot, followed) = Content(<<entries[spot].item>>, spot, followed)
      BY <1>5, <2>8 DEF Told
    <3>2. CASE same
      <4>1. d.popup.shows = old.popup.shows
        BY <2>8, <2>5, <3>2
      <4>2. old.popup.shows = Told(old, spot, followed)
        BY <1>12, <2>2, <2>3 DEF Tells
      <4>3. Told(old, spot, followed) = Content(<<old.entries[spot].item>>, spot, followed)
        BY <2>4, <3>2 DEF Told
      <4>4. entries[spot].item = old.entries[spot].item
        BY <2>4, <3>2
      <4> QED
        BY <2>6, <3>1, <4>1, <4>2, <4>3, <4>4
    <3>3. CASE ~same
      <4>1. d.popup.shows = Content(<<entries[spot].item>>, spot, followed)
        BY <2>8, <2>5, <3>3
      <4> QED
        BY <2>6, <3>1, <4>1
    <3> QED
      BY <3>2, <3>3
  <2> QED
    BY <2>7, <2>8
<1>10. Shaped(d)
  BY <1>4, <1>5, <1>6, <1>7 DEF Shaped
<1>11. d = Draw(old, items, p, z, moment, followed)
  BY <1>1, <1>2, <1>3, <1>4
<1> QED
  BY <1>8, <1>9, <1>10, <1>11, <1>12

\* refreshOpenPopup makes a vessel's popup true when the follow target has changed.
LEMMA RefreshTells ==
    ASSUME NEW d, NEW followed, Shaped(d),
           kind \notin Vessels \/ followed = Followed(follow) => Tells(d, followed)
    PROVE  LET r == RefreshOpenPopup(d, followed)
           IN  Shaped(r) /\ Tells(r, followed) /\ (d.popup = Absent => r = d)
<1>1. CASE d.popup = Absent \/ kind \notin Vessels \/ followed = Followed(follow)
  BY <1>1 DEF RefreshOpenPopup, Tells
<1>2. CASE d.popup # Absent /\ kind \in Vessels /\ followed # Followed(follow)
  <2>1. PICK told : told = Told(d, d.popup.on, followed)
    OBVIOUS
  <2>2. PICK r : r = RefreshOpenPopup(d, followed)
    OBVIOUS
  <2>3. r = [d EXCEPT !.popup.shows = told]
    BY <1>2, <2>1, <2>2 DEF RefreshOpenPopup
  <2>4. /\ d = [entries |-> d.entries, clusters |-> d.clusters, popup |-> d.popup]
        /\ d.popup = [on |-> d.popup.on, shows |-> d.popup.shows]
    BY <1>2 DEF Shaped
  <2>5. r = [entries |-> d.entries, clusters |-> d.clusters, popup |-> [on |-> d.popup.on, shows |-> told]]
    BY <2>3, <2>4
  <2>6. r.entries = d.entries /\ r.clusters = d.clusters /\ r.popup = [on |-> d.popup.on, shows |-> told]
    BY <2>5
  <2>7. Shaped(r)
    BY <1>2, <2>5, <2>6 DEF Shaped
  <2>8. Tells(r, followed)
    BY <2>1, <2>6 DEF Tells, Told
  <2> QED
    BY <1>2, <2>2, <2>7, <2>8
<1> QED
  BY <1>1, <1>2

LEMMA EffectTells ==
    ASSUME NEW d, NEW items, NEW p, NEW z, NEW moment, NEW followed, NEW mem,
           RunEffect(d, items, p, z, moment, followed, mem),
           followed = Followed(follow) => Shaped(d) /\ Tells(d, followed)
    PROVE  Shaped(drawn') /\ Tells(drawn', followed)
<1>1. PICK e : e = Draw(d, items, p, z, moment, followed)
  OBVIOUS
<1>2. Shaped(e) /\ (kind \notin Vessels \/ followed = Followed(follow) => Tells(e, followed))
  BY <1>1, DrawIsShaped
<1>3. drawn' = RefreshOpenPopup(e, followed)
  BY <1>1 DEF RunEffect
<1> QED
  BY <1>2, <1>3, RefreshTells

\* What the effect remembers of the vessel that is followed.
LEMMA EffectRemembers ==
    ASSUME NEW d, NEW items, NEW p, NEW z, NEW moment, NEW followed, NEW mem,
           RunEffect(d, items, p, z, moment, followed, mem)
    PROVE  \/ memory' = Absent
           \/ memory' = mem
           \/ memory'.seen = moment /\ \E g \in ToSet(latest') : g.id = followed
<1>1. memory' = IF kind \in Vessels THEN Remembered(mem, latest', followed, moment) ELSE Absent
  BY DEF RunEffect
<1>2. PICK held : held = latest'
  OBVIOUS
<1>3. \/ Remembered(mem, held, followed, moment) = Absent
      \/ Remembered(mem, held, followed, moment) = mem
      \/ Remembered(mem, held, followed, moment).seen = moment /\ \E g \in ToSet(held) : g.id = followed
  BY DEF Remembered
<1> QED
  BY <1>1, <1>2, <1>3

LEMMA SettleTells ==
    ASSUME NEW d, NEW z, NEW moment, NEW followed, NEW mem, Settle(d, z, moment, followed, mem),
           Shaped(d), kind \notin Vessels \/ followed = Followed(follow) => Tells(d, followed)
    PROVE  Shaped(drawn') /\ Tells(drawn', followed)
<1>1. CASE followed # Followed(follow) /\ Listens(answer)
  BY <1>1, EffectTells DEF Settle
<1>2. CASE ~(followed # Followed(follow) /\ Listens(answer))
  <2>1. PICK e : e = IF Regroups(z) THEN Draw(d, latest, prefs, z, moment, followed) ELSE d
    OBVIOUS
  <2>2. drawn' = RefreshOpenPopup(e, followed)
    BY <1>2, <2>1 DEF Settle
  <2>3. Shaped(e) /\ (kind \notin Vessels \/ followed = Followed(follow) => Tells(e, followed))
    BY <2>1, DrawIsShaped
  <2> QED
    BY <2>2, <2>3, RefreshTells
<1> QED
  BY <1>1, <1>2

LEMMA SettleKeepsEmpty ==
    ASSUME OffIsEmpty, prefs.on = "off", NEW d, d = Nothing, NEW z, NEW moment, NEW followed, NEW mem,
           Settle(d, z, moment, followed, mem)
    PROVE  drawn' = Nothing /\ report' = NoReport /\ latest' = <<>>
<1>1. answer = Absent /\ report = NoReport /\ latest = <<>>
  BY DEF OffIsEmpty
<1>2. ~Listens(answer)
  BY <1>1 DEF Listens
<1>3. report.credit = "none"
  BY <1>1 DEF NoReport
<1>4. ~Regroups(z)
  BY <1>1, <1>3 DEF Regroups
<1>5. drawn' = RefreshOpenPopup(d, followed) /\ report' = report /\ latest' = latest
  BY <1>2, <1>4 DEF Settle
<1> QED
  BY <1>1, <1>5 DEF RefreshOpenPopup, Nothing

\* Closing the popup leaves the rest as it was.
LEMMA ClosedIsShaped ==
    ASSUME Shaped(drawn)
    PROVE  /\ Shaped(Closed) /\ Closed.popup = Absent /\ \A followed : Tells(Closed, followed)
           /\ drawn = Nothing => Closed = Nothing
<1>1. drawn = [entries |-> drawn.entries, clusters |-> drawn.clusters, popup |-> drawn.popup]
  BY DEF Shaped
<1>2. Closed = [entries |-> drawn.entries, clusters |-> drawn.clusters, popup |-> Absent]
  BY <1>1 DEF Closed
<1> QED
  BY <1>2 DEF Shaped, Tells, Nothing

LEMMA NothingIsShaped == Shaped(Nothing) /\ \A followed : Tells(Nothing, followed)
BY DEF Nothing, Shaped, Tells

LEMMA LayerInitInv == LayerInit => LayerInv
BY NothingIsShaped DEF LayerInit, LayerInv, HoldInv, LostInv, OffIsEmpty

\* A follow that has changed no more than what it counts is of the vessel it was of.
LEMMA FollowIsOfTheSame ==
    ASSUME follow' \in Follows, follow \in Follows, follow'.id = follow.id
    PROVE  Followed(follow)' = Followed(follow)
<1>1. follow # Absent /\ follow' # Absent
  BY NobodyAssumption
<1> QED
  BY <1>1 DEF Followed

\* A step that touches neither the clock, the follow nor what is remembered for it.
LEMMA FollowUntouched ==
    ASSUME HoldInv, LostInv, UNCHANGED <<kind, clock, latest, memory, follow, closure, holds>>
    PROVE  HoldInv' /\ LostInv'
BY DEF HoldInv, LostInv, Holding

\* A gesture changes nothing that the watchdog reads.
LEMMA TouchedInv ==
    ASSUME HoldInv, LostInv, UNCHANGED <<kind, clock, closure, holds>>, follow' = Touched,
           closure = Absent => memory' = memory
    PROVE  HoldInv' /\ LostInv' /\ Followed(follow)' = Followed(follow)
<1>1. CASE follow = Absent
  BY <1>1 DEF Touched, HoldInv, LostInv, Followed
<1>2. CASE follow # Absent
  <2>1. follow \in Follows /\ follow' = [follow EXCEPT !.gesture = clock] /\ clock \in Nat
    BY <1>2 DEF HoldInv, Touched
  <2>2. /\ follow' \in Follows /\ follow'.id = follow.id /\ follow'.tick = follow.tick
        /\ follow'.lost = follow.lost /\ follow'.placed = follow.placed /\ follow'.missing = follow.missing
    BY <2>1 DEF Follows
  <2>3. follow' # Absent /\ Followed(follow)' = Followed(follow)
    BY <2>1, <2>2, NobodyAssumption DEF Followed
  <2>4. HoldInv'
    BY <1>2, <2>2, <2>3 DEF HoldInv
  <2>5. Holding'.memory = Holding.memory
    BY DEF Holding
  <2>6. LostInv'
    BY <1>2, <2>2, <2>5 DEF LostInv
  <2> QED
    BY <2>3, <2>4, <2>6
<1> QED
  BY <1>1, <1>2

\* A follow that ends lets go of the slideshow.
LEMMA StopInv ==
    ASSUME HoldInv, follow' = Absent, clock' \in Nat, kind' = kind,
           holds' = IF follow = Absent THEN holds ELSE holds - 1
    PROVE  HoldInv' /\ LostInv' /\ Followed(follow)' = Absent
BY DEF HoldInv, LostInv, Followed

\* A vessel that is heard of is not missing any more.
LEMMA HeardInv ==
    ASSUME HoldInv, LostInv, UNCHANGED <<kind, clock, closure, holds>>, follow' = Heard(follow, latest'),
           \/ memory' = Absent
           \/ memory' = memory
           \/ memory'.seen = clock /\ \E g \in ToSet(latest') : g.id = Followed(follow)
    PROVE  HoldInv' /\ LostInv' /\ Followed(follow)' = Followed(follow)
<1>1. CASE follow = Absent
  BY <1>1 DEF Heard, HoldInv, LostInv, Followed
<1>2. CASE follow # Absent
  <2>1. follow \in Follows /\ clock \in Nat /\ Followed(follow) = follow.id
    BY <1>2 DEF HoldInv, Followed
  <2>2. PICK there : there <=> closure = Absent /\ \E g \in ToSet(latest') : g.id = follow.id
    OBVIOUS
  <2>3. /\ there => follow' = [follow EXCEPT !.lost = 0]
        /\ ~there => follow' = follow
    BY <1>2, <2>2 DEF Heard
  <2>4. /\ follow' \in Follows /\ follow'.id = follow.id /\ follow'.tick = follow.tick
        /\ follow'.placed = follow.placed /\ follow'.missing = follow.missing
        /\ follow'.lost = IF there THEN 0 ELSE follow.lost
    BY <2>1, <2>3 DEF Follows
  <2>5. follow' # Absent /\ Followed(follow)' = Followed(follow)
    BY <2>1, <2>4, NobodyAssumption DEF Followed
  <2>6. HoldInv'
    BY <1>2, <2>4, <2>5 DEF HoldInv
  <2>7. /\ follow.lost \in Nat /\ follow.missing \in Nat /\ LoseAfter \in Nat
    BY <2>1, LiveLayerAssumption DEF Follows
  <2>8. /\ follow'.tick \in {Absent, clock'} /\ (follow'.tick = Absent => follow'.lost = 0)
        /\ follow'.placed = "no" => follow'.lost <= follow'.missing + 1
        /\ follow'.missing < LoseAfter \/ follow'.missing = 0
        /\ follow'.lost <= LoseAfter + 1
    BY <1>2, <2>4, <2>7 DEF LostInv
  <2>9. Holding'.memory # Absent =>
               /\ Holding'.memory.seen \in Nat /\ Holding'.memory.seen <= clock'
               /\ Holding'.memory.item.id = follow'.id => follow'.lost <= clock' - Holding'.memory.seen
    <3>1. CASE closure # Absent
      <4>1. Holding' = Holding /\ ~there
        BY <2>2, <3>1 DEF Holding
      <4> QED
        BY <1>2, <2>4, <4>1 DEF LostInv
    <3>2. CASE closure = Absent
      <4>1. Holding'.memory = memory' /\ Holding.memory = memory
        BY <3>2 DEF Holding
      <4>2. CASE memory' = Absent
        BY <4>1, <4>2
      <4>3. CASE memory' = memory
        <5>1. SUFFICES ASSUME memory # Absent
                       PROVE  /\ memory.seen \in Nat /\ memory.seen <= clock
                              /\ memory.item.id = follow.id => follow'.lost <= clock - memory.seen
          BY <2>4, <4>1, <4>3
        <5>2. /\ memory.seen \in Nat /\ memory.seen <= clock
              /\ memory.item.id = follow.id => follow.lost <= clock - memory.seen
          BY <1>2, <4>1, <5>1 DEF LostInv
        <5> QED
          BY <2>1, <2>4, <5>2
      <4>4. CASE memory'.seen = clock /\ \E g \in ToSet(latest') : g.id = Followed(follow)
        <5>1. there /\ follow'.lost = 0
          BY <2>1, <2>2, <2>4, <3>2, <4>4
        <5> QED
          BY <2>1, <4>1, <4>4, <5>1
      <4> QED
        BY <4>2, <4>3, <4>4
    <3> QED
      BY <3>1, <3>2
  <2>10. LostInv'
    BY <2>8, <2>9 DEF LostInv
  <2> QED
    BY <2>5, <2>6, <2>10
<1> QED
  BY <1>1, <1>2

LEMMA AnsweredInv ==
    ASSUME LayerInv, NEW feed, NEW configured, Answered(feed, configured)
    PROVE  LayerInv'
<1>1. PICK items :
        /\ prefs.on = "on" /\ answer' = [configured |-> configured, items |-> items]
        /\ IF configured = "yes" \/ kind = "roadCameras"
           THEN RunEffect(drawn, items, prefs, zoom, clock, Followed(follow), memory)
           ELSE Clear
        /\ follow' = Heard(follow, latest')
        /\ UNCHANGED <<kind, clock, away, prefs, zoom, modal, closure, holds, taps>>
  BY Zenon DEF Answered
<1>2. HoldInv /\ LostInv
  BY DEF LayerInv
<1>3. CASE configured = "yes" \/ kind = "roadCameras"
  <2>1. RunEffect(drawn, items, prefs, zoom, clock, Followed(follow), memory)
    BY <1>1, <1>3
  <2>2. PICK followed : followed = Followed(follow)
    OBVIOUS
  <2>3. \/ memory' = Absent
        \/ memory' = memory
        \/ memory'.seen = clock /\ \E g \in ToSet(latest') : g.id = followed
    BY <2>1, <2>2, EffectRemembers
  <2>4. HoldInv' /\ LostInv' /\ Followed(follow)' = Followed(follow)
    BY <1>1, <1>2, <2>2, <2>3, HeardInv
  <2>5. Shaped(drawn') /\ Tells(drawn', followed)
    BY <2>1, <2>2, EffectTells DEF LayerInv
  <2>6. OffIsEmpty'
    BY <1>1 DEF OffIsEmpty
  <2> QED
    BY <2>2, <2>4, <2>5, <2>6 DEF LayerInv
<1>4. CASE ~(configured = "yes" \/ kind = "roadCameras")
  <2>1. drawn' = Nothing /\ memory' = Absent
    BY <1>1, <1>4 DEF Clear
  <2>2. HoldInv' /\ LostInv' /\ Followed(follow)' = Followed(follow)
    BY <1>1, <1>2, <2>1, HeardInv
  <2>3. Shaped(drawn)' /\ Tells(drawn, Followed(follow))'
    BY <2>1, NothingIsShaped
  <2>4. OffIsEmpty'
    BY <1>1 DEF OffIsEmpty
  <2> QED
    BY <2>2, <2>3, <2>4 DEF LayerInv
<1> QED
  BY <1>3, <1>4

\* The steps that touch neither what is drawn nor the follow.
LEMMA AsideInv ==
    ASSUME LayerInv, FetchFails \/ OpenCameras \/ LookAtCamera \/ CloseCameras \/ HideOrShow
    PROVE  LayerInv'
<1>1. /\ UNCHANGED <<kind, clock, prefs, latest, memory, drawn, report, follow, closure, holds>>
      /\ answer' = answer \/ answer' = Absent
  BY DEF FetchFails, OpenCameras, LookAtCamera, CloseCameras, HideOrShow
<1>2. HoldInv' /\ LostInv'
  BY <1>1, FollowUntouched DEF LayerInv
<1>3. Shaped(drawn)' /\ Tells(drawn, Followed(follow))'
  BY <1>1 DEF LayerInv, Followed
<1>4. prefs.on = "off" => modal' = Absent
  <2>1. SUFFICES ASSUME prefs.on = "off" PROVE modal' = Absent
    OBVIOUS
  <2>2. drawn = Nothing /\ latest = <<>> /\ modal = Absent
    BY <2>1 DEF LayerInv, OffIsEmpty
  <2>3. Range(drawn.entries) = {} /\ Range(drawn.clusters) = {} /\ ToSet(latest) = {}
    BY <2>2 DEF Nothing, Range, ToSet
  <2>4. {{e.item} : e \in Range(drawn.entries)} \cup {ToSet(c.members) : c \in Range(drawn.clusters)}
                         \cup {{g} : g \in ToSet(latest)} = {}
    BY <2>3
  <2>5. ~OpenCameras
    BY <2>4 DEF OpenCameras
  <2> QED
    BY <2>2, <2>5 DEF FetchFails, LookAtCamera, CloseCameras, HideOrShow
<1>5. OffIsEmpty'
  BY <1>1, <1>4 DEF LayerInv, OffIsEmpty
<1> QED
  BY <1>2, <1>3, <1>5 DEF LayerInv

\* The setting that goes takes all of the layer with it but what the follow has kept.
LEMMA SwitchOffInv ==
    ASSUME LayerInv, NEW p, SwitchOff(p)
    PROVE  LayerInv'
<1>1. /\ drawn' = Nothing /\ latest' = <<>> /\ memory' = Absent /\ modal' = Absent /\ report' = NoReport
      /\ answer' = Absent /\ closure' = (IF follow = Absent THEN Absent ELSE Holding)
      /\ kind' = kind /\ clock' = clock /\ follow' = follow /\ holds' = holds
  BY DEF SwitchOff, Disposed
<1>2. HoldInv'
  BY <1>1 DEF LayerInv, HoldInv
<1>3. LostInv'
  <2>1. SUFFICES ASSUME follow # Absent PROVE LostInv'
    BY <1>1 DEF LostInv
  <2>2. Holding'.memory = Absent \/ Holding'.memory = Holding.memory
    BY <1>1, <2>1 DEF Holding
  <2> QED
    BY <1>1, <2>1, <2>2 DEF LayerInv, LostInv
<1>4. Shaped(drawn)' /\ Tells(drawn, Followed(follow))'
  BY <1>1, NothingIsShaped
<1>5. OffIsEmpty'
  BY <1>1 DEF OffIsEmpty
<1> QED
  BY <1>2, <1>3, <1>4, <1>5 DEF LayerInv

LEMMA ChangePreferencesInv ==
    ASSUME LayerInv, NEW p, ChangePreferences(p)
    PROVE  LayerInv'
<1>1. /\ prefs.on = "off" \/ p.on = "on"
      /\ prefs' = p /\ follow' = Heard(follow, latest')
      /\ UNCHANGED <<kind, clock, away, zoom, modal, closure, holds>>
      /\ \/ answer' = Absent /\ UNCHANGED <<drawn, latest, memory, report>>
         \/ /\ Listens(answer) /\ RunEffect(drawn, answer.items, p, zoom, clock, Followed(follow), memory)
            /\ UNCHANGED answer
         \/ UNCHANGED <<answer, drawn, latest, memory, report>>
  BY DEF ChangePreferences
<1>2. HoldInv /\ LostInv
  BY DEF LayerInv
<1>3. PICK followed : followed = Followed(follow)
  OBVIOUS
<1>4. CASE UNCHANGED <<drawn, latest, memory, report>> /\ answer' \in {answer, Absent}
  <2>1. HoldInv' /\ LostInv' /\ Followed(follow)' = Followed(follow)
    BY <1>1, <1>2, <1>4, HeardInv
  <2>2. Shaped(drawn)' /\ Tells(drawn, Followed(follow))'
    BY <1>4, <2>1 DEF LayerInv
  <2>3. OffIsEmpty'
    BY <1>1, <1>4 DEF LayerInv, OffIsEmpty
  <2> QED
    BY <2>1, <2>2, <2>3 DEF LayerInv
<1>5. CASE Listens(answer) /\ RunEffect(drawn, answer.items, p, zoom, clock, Followed(follow), memory)
  <2>1. \/ memory' = Absent
        \/ memory' = memory
        \/ memory'.seen = clock /\ \E g \in ToSet(latest') : g.id = followed
    BY <1>3, <1>5, EffectRemembers
  <2>2. HoldInv' /\ LostInv' /\ Followed(follow)' = Followed(follow)
    BY <1>1, <1>2, <1>3, <2>1, HeardInv
  <2>3. Shaped(drawn') /\ Tells(drawn', followed)
    BY <1>3, <1>5, EffectTells DEF LayerInv
  <2>4. answer # Absent
    BY <1>5 DEF Listens
  <2>5. OffIsEmpty'
    BY <1>1, <2>4 DEF LayerInv, OffIsEmpty
  <2> QED
    BY <1>3, <2>2, <2>3, <2>5 DEF LayerInv
<1> QED
  BY <1>1, <1>4, <1>5

\* A popup is opened true, in place of any other.
LEMMA OpenPopupInv ==
    ASSUME LayerInv, OpenPopup
    PROVE  LayerInv'
<1>1. PICK o \in DOMAIN drawn.entries \cup DOMAIN drawn.clusters :
        drawn' = [drawn EXCEPT !.popup = [on |-> o, shows |-> Told(drawn, o, Followed(follow))]]
  BY DEF OpenPopup
<1>2. follow' = Touched /\ UNCHANGED <<kind, clock, away, prefs, zoom, answer, latest, memory, modal, report, closure, holds>>
  BY DEF OpenPopup
<1>3. HoldInv' /\ LostInv' /\ Followed(follow)' = Followed(follow)
  BY <1>2, TouchedInv DEF LayerInv
<1>4. PICK told : told = Told(drawn, o, Followed(follow))
  OBVIOUS
<1>5. drawn' = [entries |-> drawn.entries, clusters |-> drawn.clusters, popup |-> [on |-> o, shows |-> told]]
  <2>1. drawn = [entries |-> drawn.entries, clusters |-> drawn.clusters, popup |-> drawn.popup]
    BY DEF LayerInv, Shaped
  <2> QED
    BY <1>1, <1>4, <2>1
<1>6. drawn'.entries = drawn.entries /\ drawn'.clusters = drawn.clusters /\ drawn'.popup = [on |-> o, shows |-> told]
  BY <1>5
<1>7. Shaped(drawn)'
  BY <1>5, <1>6 DEF LayerInv, Shaped
<1>8. Tells(drawn, Followed(follow))'
  BY <1>3, <1>4, <1>6 DEF Tells, Told
<1>9. OffIsEmpty'
  <2>1. prefs.on = "off" => drawn.entries = <<>> /\ drawn.clusters = <<>>
    BY DEF LayerInv, OffIsEmpty, Nothing
  <2>2. prefs.on # "off"
    BY <1>1, <2>1
  <2> QED
    BY <1>2, <2>2 DEF OffIsEmpty
<1> QED
  BY <1>3, <1>7, <1>8, <1>9 DEF LayerInv

\* A member that is chosen is what the cluster's popup goes on to tell of.
LEMMA ChooseMemberInv ==
    ASSUME LayerInv, ChooseMember
    PROVE  LayerInv'
<1> DEFINE k == drawn.popup.on
<1>1. k \in DOMAIN drawn.clusters /\ drawn.popup # Absent
  BY DEF ChooseMember
<1>2. PICK chosen :
        drawn' = [drawn EXCEPT !.clusters[k].selected = chosen,
                               !.popup.shows = Content(drawn.clusters[k].members, chosen, Followed(follow))]
  BY DEF ChooseMember
<1>3. follow' = Touched /\ UNCHANGED <<kind, clock, away, prefs, zoom, answer, latest, memory, modal, report, closure, holds>>
  BY DEF ChooseMember
<1>4. HoldInv' /\ LostInv' /\ Followed(follow)' = Followed(follow)
  BY <1>3, TouchedInv DEF LayerInv
<1>5. PICK told : told = Content(drawn.clusters[k].members, chosen, Followed(follow))
  OBVIOUS
<1>6. PICK es, cs, q : es = drawn.entries /\ cs = drawn.clusters /\ q = drawn.popup
  OBVIOUS
<1>7. /\ drawn = [entries |-> es, clusters |-> cs, popup |-> q]
      /\ cs = [j \in DOMAIN cs |-> cs[j]]
      /\ \A j \in DOMAIN cs : cs[j] = [members |-> cs[j].members, selected |-> cs[j].selected]
      /\ q = [on |-> k, shows |-> q.shows]
  BY <1>1, <1>6 DEF LayerInv, Shaped
<1>8. PICK ds : ds = [cs EXCEPT ![k].selected = chosen]
  OBVIOUS
<1>9. drawn' = [entries |-> es, clusters |-> ds, popup |-> [on |-> k, shows |-> told]]
  <2>1. drawn' = [drawn EXCEPT !.clusters = ds, !.popup = [q EXCEPT !.shows = told]]
    BY <1>2, <1>5, <1>6, <1>8
  <2> HIDE DEF k
  <2>2. [q EXCEPT !.shows = told] = [on |-> k, shows |-> told]
    BY <1>7
  <2> QED
    BY <1>7, <2>1, <2>2
<1>10. /\ DOMAIN ds = DOMAIN cs /\ ds = [j \in DOMAIN ds |-> ds[j]]
       /\ \A j \in DOMAIN ds : ds[j] = [members |-> cs[j].members, selected |-> IF j = k THEN chosen ELSE cs[j].selected]
  <2> HIDE DEF k
  <2>1. PICK c : c = [cs[k] EXCEPT !.selected = chosen]
    OBVIOUS
  <2>2. ds = [cs EXCEPT ![k] = c]
    BY <1>8, <2>1
  <2>3. DOMAIN ds = DOMAIN cs /\ ds = [j \in DOMAIN ds |-> ds[j]]
        /\ \A j \in DOMAIN ds : ds[j] = IF j = k THEN c ELSE cs[j]
    BY <1>7, <2>2
  <2>4. k \in DOMAIN cs => c = [members |-> cs[k].members, selected |-> chosen]
    <3> SUFFICES ASSUME k \in DOMAIN cs PROVE c = [members |-> cs[k].members, selected |-> chosen]
      OBVIOUS
    <3>1. cs[k] = [members |-> cs[k].members, selected |-> cs[k].selected]
      BY <1>7
    <3> QED
      BY <2>1, <3>1
  <2> QED
    BY <1>7, <2>3, <2>4
<1>11. drawn'.entries = es /\ drawn'.clusters = ds /\ drawn'.popup = [on |-> k, shows |-> told]
  BY <1>9
<1>12. Shaped(drawn)'
  <2>1. k \in DOMAIN ds
    BY <1>1, <1>6, <1>10
  <2>2. \A j \in DOMAIN ds : ds[j] = [members |-> ds[j].members, selected |-> ds[j].selected]
    BY <1>10
  <2> HIDE DEF k
  <2> QED
    BY <1>9, <1>10, <1>11, <2>1, <2>2 DEF Shaped
<1>13. Tells(drawn, Followed(follow))'
  <2>1. k \in DOMAIN ds /\ ds[k].members = cs[k].members /\ ds[k].selected = chosen
    <3>1. k \in DOMAIN ds
      BY <1>1, <1>6, <1>10
    <3> HIDE DEF k
    <3>2. ds[k] = [members |-> cs[k].members, selected |-> chosen]
      BY <1>10, <3>1
    <3> QED
      BY <3>1, <3>2
  <2>2. drawn'.popup.on = k /\ drawn'.popup.shows = told
    BY <1>11
  <2>3. told = Content(ds[k].members, ds[k].selected, Followed(follow))
    BY <1>5, <1>6, <2>1
  <2> HIDE DEF k
  <2> QED
    BY <1>4, <1>11, <2>1, <2>2, <2>3 DEF Tells, Told
<1>14. OffIsEmpty'
  <2>1. prefs.on = "off" => drawn.clusters = <<>>
    BY DEF LayerInv, OffIsEmpty, Nothing
  <2>2. prefs.on # "off"
    BY <1>1, <2>1
  <2> QED
    BY <1>3, <2>2 DEF OffIsEmpty
<1> QED
  BY <1>4, <1>12, <1>13, <1>14 DEF LayerInv

LEMMA ZoomToVesselInv ==
    ASSUME LayerInv, ZoomToVessel
    PROVE  LayerInv'
<1>1. PICK z, followed : z = zoom' /\ followed = Followed(follow)
  OBVIOUS
<1>2. /\ Settle(Closed, z, clock, followed, memory) /\ follow' = Touched
      /\ UNCHANGED <<kind, clock, away, prefs, answer, modal, closure, holds>>
  BY <1>1 DEF ZoomToVessel
<1>3. Shaped(Closed) /\ Tells(Closed, followed) /\ (drawn = Nothing => Closed = Nothing)
  BY ClosedIsShaped DEF LayerInv
<1>4. memory' = memory
  BY <1>1, <1>2 DEF Settle
<1>5. HoldInv' /\ LostInv' /\ Followed(follow)' = Followed(follow)
  BY <1>2, <1>4, TouchedInv DEF LayerInv
<1>6. Shaped(drawn') /\ Tells(drawn', followed)
  BY <1>2, <1>3, SettleTells
<1>7. OffIsEmpty'
  <2>1. SUFFICES ASSUME prefs.on = "off" PROVE OffIsEmpty'
    BY <1>2 DEF OffIsEmpty
  <2>2. OffIsEmpty /\ Closed = Nothing
    BY <1>3, <2>1 DEF LayerInv, OffIsEmpty
  <2>3. drawn' = Nothing /\ report' = NoReport /\ latest' = <<>>
    BY <1>2, <2>1, <2>2, SettleKeepsEmpty
  <2> QED
    BY <1>2, <2>1, <2>2, <2>3 DEF OffIsEmpty
<1> QED
  BY <1>1, <1>5, <1>6, <1>7 DEF LayerInv

\* A new follow has missed nothing, and takes the hold of the one before it.
LEMMA FollowVesselInv ==
    ASSUME LayerInv, NEW id \in Named, FollowVessel(id)
    PROVE  LayerInv'
<1>1. PICK mem :
        /\ mem = Absent \/ mem.seen = clock
        /\ Settle(Closed, zoom', clock, id, mem)
  <2>1. PICK vessel : vessel = CHOOSE g \in drawn.popup.shows.items : TRUE
    OBVIOUS
  <2>2. PICK mem : mem = IF follow # Absent /\ Listens(answer) THEN Absent ELSE [item |-> vessel, seen |-> clock]
    OBVIOUS
  <2>3. Settle(Closed, zoom', clock, id, mem)
    BY <2>1, <2>2 DEF FollowVessel
  <2> QED
    BY <2>2, <2>3
<1>2. /\ follow' = [id |-> id, missing |-> 0, tick |-> Absent, placed |-> "no", gesture |-> Absent, lost |-> 0, off |-> 0]
      /\ closure' = Absent /\ holds' = (IF follow = Absent THEN holds + 1 ELSE holds)
      /\ UNCHANGED <<kind, clock, away, prefs, answer, modal>> /\ OnVessel
  BY DEF FollowVessel, HoldsAfter
<1>3. PICK z : z = zoom'
  OBVIOUS
<1>4. Shaped(Closed) /\ Tells(Closed, id) /\ (drawn = Nothing => Closed = Nothing)
  BY ClosedIsShaped DEF LayerInv
<1>5. kind \in Vessels /\ clock \in Nat
  BY <1>2 DEF OnVessel, LayerInv, HoldInv
<1>6. follow' \in Follows /\ follow' # Absent
  <2>1. follow' \in Follows
    BY <1>2 DEF Follows
  <2> QED
    BY <2>1, NobodyAssumption
<1>7. HoldInv'
  BY <1>2, <1>5, <1>6 DEF LayerInv, HoldInv
<1>8. memory' = Absent \/ memory'.seen = clock
  <2>1. CASE id # Followed(follow) /\ Listens(answer)
    <3>1. RunEffect(Closed, answer.items, prefs, z, clock, id, mem)
      BY <1>1, <1>3, <2>1 DEF Settle
    <3>2. \/ memory' = Absent
          \/ memory' = mem
          \/ memory'.seen = clock /\ \E g \in ToSet(latest') : g.id = id
      BY <3>1, EffectRemembers
    <3> QED
      BY <1>1, <3>2
  <2>2. CASE ~(id # Followed(follow) /\ Listens(answer))
    BY <1>1, <2>2 DEF Settle
  <2> QED
    BY <2>1, <2>2
<1>9. LostInv'
  <2>1. Holding'.memory = memory'
    BY <1>2 DEF Holding
  <2>2. LoseAfter \in Nat
    BY LiveLayerAssumption
  <2> QED
    BY <1>2, <1>5, <1>8, <2>1, <2>2 DEF LostInv
<1>10. Shaped(drawn') /\ Tells(drawn', id) /\ Followed(follow)' = id
  <2>1. Shaped(drawn') /\ Tells(drawn', id)
    BY <1>1, <1>3, <1>4, SettleTells
  <2> QED
    BY <1>2, <1>6, <2>1 DEF Followed
<1>11. OffIsEmpty'
  <2>1. prefs.on = "off" => drawn.popup = Absent
    BY DEF LayerInv, OffIsEmpty, Nothing
  <2>2. prefs.on # "off"
    BY <1>2, <2>1 DEF OnVessel
  <2> QED
    BY <1>2, <2>2 DEF OffIsEmpty
<1> QED
  BY <1>7, <1>9, <1>10, <1>11 DEF LayerInv

\* However a follow ends, what is drawn is settled without it.
LEMMA SettledStopInv ==
    ASSUME LayerInv, NEW d \in {drawn, Closed}, NEW z, NEW moment, Settle(d, z, moment, Absent, memory), clock' \in Nat,
           follow' = Absent, holds' = (IF follow = Absent THEN holds ELSE holds - 1),
           UNCHANGED <<kind, prefs, answer>>, modal' \in {modal, Absent}
    PROVE  LayerInv'
<1>1. HoldInv' /\ LostInv' /\ Followed(follow)' = Absent
  BY StopInv DEF LayerInv
<1>2. Shaped(d) /\ (kind \notin Vessels \/ Absent = Followed(follow) => Tells(d, Absent))
  <2>1. kind \notin Vessels => Followed(follow) = Absent
    BY DEF LayerInv, HoldInv, Followed
  <2>2. Shaped(Closed) /\ Tells(Closed, Absent)
    BY ClosedIsShaped DEF LayerInv
  <2>3. Shaped(drawn) /\ (kind \notin Vessels \/ Absent = Followed(follow) => Tells(drawn, Absent))
    BY <2>1 DEF LayerInv
  <2> QED
    BY <2>2, <2>3
<1>3. Shaped(drawn') /\ Tells(drawn', Absent)
  BY <1>2, SettleTells
<1>4. OffIsEmpty'
  <2>1. SUFFICES ASSUME prefs.on = "off" PROVE OffIsEmpty'
    BY DEF OffIsEmpty
  <2>2. OffIsEmpty /\ d = Nothing
    BY <2>1, ClosedIsShaped DEF LayerInv, OffIsEmpty
  <2>3. drawn' = Nothing /\ report' = NoReport /\ latest' = <<>>
    BY <2>1, <2>2, SettleKeepsEmpty
  <2> QED
    BY <2>1, <2>2, <2>3 DEF OffIsEmpty
<1> QED
  BY <1>1, <1>3, <1>4 DEF LayerInv

LEMMA StopsInv ==
    ASSUME LayerInv, StopByPopup \/ StopByChip \/ IdleReset \/ MoveStarts \/ \E z \in DOMAIN Scale : ChangeZoom(z)
    PROVE  LayerInv'
<1>1. clock \in Nat
  BY DEF LayerInv, HoldInv
<1>2. CASE StopByPopup
  <2>1. follow # Absent
    <3>1. drawn.popup # Absent /\ drawn.popup.shows.following = "yes"
      BY <1>2 DEF StopByPopup, OnVessel
    <3>2. drawn.popup.shows = Told(drawn, drawn.popup.on, Followed(follow))
      BY <3>1 DEF LayerInv, Tells
    <3>3. PICK followed : followed = Followed(follow)
      OBVIOUS
    <3>4. \A members, chosen : Content(members, chosen, Absent).following # "yes"
      BY DEF Content
    <3>5. followed # Absent
      BY <3>1, <3>2, <3>3, <3>4 DEF Told
    <3> QED
      BY <3>3, <3>5 DEF Followed
  <2>2. /\ Settle(Closed, zoom, clock, Absent, memory) /\ clock' = clock /\ follow' = Absent
        /\ holds' = (IF follow = Absent THEN holds ELSE holds - 1) /\ UNCHANGED <<kind, prefs, answer, modal>>
    BY <1>2, <2>1 DEF StopByPopup
  <2> QED
    BY <1>1, <2>2, SettledStopInv
<1>3. CASE StopByChip \/ MoveStarts
  <2>1. /\ Settle(drawn, zoom, clock, Absent, memory) /\ clock' = clock /\ follow' = Absent
        /\ holds' = (IF follow = Absent THEN holds ELSE holds - 1) /\ UNCHANGED <<kind, prefs, answer, modal>>
    BY <1>3 DEF StopByChip, MoveStarts, StopFollowing
  <2> QED
    BY <1>1, <2>1, SettledStopInv
<1>4. CASE IdleReset
  <2>1. /\ Settle(drawn, zoom, clock, Absent, memory) /\ clock' = clock /\ follow' = Absent
        /\ holds' = (IF follow = Absent THEN holds ELSE holds - 1) /\ UNCHANGED <<kind, prefs, answer>>
        /\ modal' = Absent
    BY <1>4 DEF IdleReset, StopFollowing
  <2> QED
    BY <1>1, <2>1, SettledStopInv
<1>5. ASSUME NEW z \in DOMAIN Scale, ChangeZoom(z) PROVE LayerInv'
  <2>1. /\ Settle(drawn, z, clock, Absent, memory) /\ clock' = clock /\ follow' = Absent
        /\ holds' = (IF follow = Absent THEN holds ELSE holds - 1) /\ UNCHANGED <<kind, prefs, answer, modal>>
    BY <1>5 DEF ChangeZoom
  <2> QED
    BY <1>1, <2>1, SettledStopInv
<1> QED
  BY <1>2, <1>3, <1>4, <1>5

LEMMA RevisitInv ==
    ASSUME LayerInv, Revisit
    PROVE  LayerInv'
<1>1. /\ drawn' = Nothing /\ report' = NoReport /\ modal' = Absent /\ answer' = Absent /\ latest' = <<>>
      /\ follow' = Absent /\ holds' = (IF follow = Absent THEN holds ELSE holds - 1) /\ clock' = clock /\ kind' = kind
  BY DEF Revisit, Disposed
<1>2. HoldInv' /\ LostInv'
  BY <1>1, StopInv DEF LayerInv, HoldInv
<1> QED
  BY <1>1, <1>2, NothingIsShaped DEF LayerInv, OffIsEmpty

\* A vessel that can be placed though no answer has it is remembered, and for less than the
\* watchdog waits.
LEMMA PlacedIsKnown ==
    ASSUME NEW id, NEW items, NEW mem, NEW moment, Placeable(id, items, mem, moment)
    PROVE  \/ \E g \in ToSet(items) : g.id = id
           \/ mem # Absent /\ mem.item.id = id /\ moment - mem.seen < LoseAfter
BY DEF Placeable

\* One tick of the watchdog that does not let go.
LEMMA TickInv ==
    ASSUME LayerInv, follow # Absent, clock' = clock + 1,
           NEW there \in BOOLEAN, there <=> \E g \in ToSet(Holding.latest) : g.id = follow.id,
           NEW f, f = [follow EXCEPT !.lost = IF there THEN 0 ELSE follow.lost + 1,
                                     !.off = IF closure = Absent THEN 0 ELSE follow.off + 1],
           follow' = Watched(f, clock + 1), follow' # Absent, UNCHANGED <<kind, closure, holds, latest, memory>>
    PROVE  HoldInv' /\ LostInv' /\ Followed(follow)' = Followed(follow)
<1>1. /\ follow \in Follows /\ clock \in Nat /\ LoseAfter \in Nat /\ Absent \notin Nat
      /\ follow.lost \in Nat /\ follow.missing \in Nat
  BY LiveLayerAssumption, NobodyAssumption DEF LayerInv, HoldInv, Follows
<1>2. /\ f \in Follows /\ f.id = follow.id /\ f.tick = follow.tick /\ f.missing = follow.missing
      /\ f.placed = follow.placed /\ f.lost = IF there THEN 0 ELSE follow.lost + 1
  <2>1. PICK lost, off : /\ lost = IF there THEN 0 ELSE follow.lost + 1
                         /\ off = IF closure = Absent THEN 0 ELSE follow.off + 1
    OBVIOUS
  <2>2. lost \in Nat /\ off \in Nat
    BY <1>1, <2>1 DEF Follows
  <2>3. f = [follow EXCEPT !.lost = lost, !.off = off]
    BY <2>1
  <2>4. follow \in Follows
    BY <1>1
  <2>5. f \in Follows
    BY <2>2, <2>3, <2>4 DEF Follows
  <2>6. f.id = follow.id /\ f.tick = follow.tick /\ f.missing = follow.missing /\ f.placed = follow.placed
        /\ f.lost = lost
    BY <2>2, <2>3, <2>4 DEF Follows
  <2> QED
    BY <2>1, <2>5, <2>6
<1>3. Holding' = Holding
  BY DEF Holding
<1>4. PICK held : held = Holding
  OBVIOUS
<1>5. PICK elapsed : elapsed = IF f.tick = Absent THEN 0 ELSE (clock + 1) - f.tick
  OBVIOUS
<1>6. /\ follow.tick \in {Absent, clock} /\ (follow.tick = Absent => follow.lost = 0)
      /\ follow.placed = "no" => follow.lost <= follow.missing + 1
      /\ held.memory # Absent =>
               /\ held.memory.seen \in Nat /\ held.memory.seen <= clock
               /\ held.memory.item.id = follow.id => follow.lost <= clock - held.memory.seen
  BY <1>4 DEF LayerInv, LostInv
<1>7. elapsed = IF follow.tick = Absent THEN 0 ELSE 1
  BY <1>1, <1>2, <1>5, <1>6
<1>8. held.memory # Absent =>
               /\ held.memory.seen \in Nat /\ held.memory.seen <= clock + 1
               /\ held.memory.item.id = follow.id => f.lost <= (clock + 1) - held.memory.seen
  BY <1>1, <1>2, <1>6
<1>9. follow' = IF Placeable(f.id, held.latest, held.memory, clock + 1)
                THEN [f EXCEPT !.tick = clock + 1, !.placed = "yes", !.missing = 0]
                ELSE IF f.placed = "yes" \/ f.missing + elapsed >= LoseAfter THEN Absent
                ELSE [f EXCEPT !.tick = clock + 1, !.missing = f.missing + elapsed]
  BY <1>4, <1>5 DEF Watched
<1>10. CASE Placeable(f.id, held.latest, held.memory, clock + 1)
  <2>1. follow' = [f EXCEPT !.tick = clock + 1, !.placed = "yes", !.missing = 0]
    BY <1>9, <1>10
  <2>2. /\ follow' \in Follows /\ follow'.id = follow.id /\ follow'.tick = clock + 1 /\ follow'.missing = 0
        /\ follow'.placed = "yes" /\ follow'.lost = f.lost
    <3>1. PICK tick \in Nat, missing \in Nat : tick = clock + 1 /\ missing = 0
      BY <1>1
    <3>2. f \in Follows /\ follow' = [f EXCEPT !.tick = tick, !.placed = "yes", !.missing = missing]
      BY <1>2, <2>1, <3>1
    <3>3. follow' \in Follows
      BY <3>2 DEF Follows
    <3>4. follow'.id = f.id /\ follow'.tick = tick /\ follow'.missing = missing /\ follow'.placed = "yes"
          /\ follow'.lost = f.lost
      BY <3>2 DEF Follows
    <3> QED
      BY <1>2, <3>1, <3>3, <3>4
  <2>3. f.lost <= LoseAfter + 1
    <3>1. CASE there
      BY <1>1, <1>2, <3>1
    <3>2. CASE ~there
      <4>1. held.memory # Absent /\ held.memory.item.id = follow.id /\ (clock + 1) - held.memory.seen < LoseAfter
        BY <1>2, <1>4, <1>10, <3>2, PlacedIsKnown
      <4>2. f.lost \in Nat
        BY <1>1, <1>2
      <4> QED
        BY <1>1, <1>8, <4>1, <4>2
    <3> QED
      BY <3>1, <3>2
  <2>4. LostInv'
    BY <1>1, <1>3, <1>4, <1>8, <2>2, <2>3 DEF LostInv
  <2>5. HoldInv'
    BY <1>1, <2>2 DEF LayerInv, HoldInv
  <2>6. Followed(follow)' = Followed(follow)
    BY <2>2 DEF Followed
  <2> QED
    BY <2>4, <2>5, <2>6
<1>11. CASE ~Placeable(f.id, held.latest, held.memory, clock + 1)
  <2>1. /\ follow' = [f EXCEPT !.tick = clock + 1, !.missing = f.missing + elapsed]
        /\ f.placed # "yes" /\ ~(f.missing + elapsed >= LoseAfter)
    BY <1>9, <1>11
  <2>2. elapsed \in Nat
    BY <1>7
  <2>3. /\ follow' \in Follows /\ follow'.id = follow.id /\ follow'.tick = clock + 1
        /\ follow'.missing = follow.missing + elapsed /\ follow'.placed = "no" /\ follow'.lost = f.lost
    <3>1. clock + 1 \in Nat /\ f.missing + elapsed \in Nat /\ f.placed = "no"
      BY <1>1, <1>2, <2>1, <2>2 DEF Follows
    <3>2. PICK tick \in Nat, missing \in Nat : tick = clock + 1 /\ missing = f.missing + elapsed
      BY <3>1
    <3>3. f \in Follows /\ follow' = [f EXCEPT !.tick = tick, !.missing = missing]
      BY <1>2, <2>1, <3>2
    <3>4. follow' \in Follows
      BY <3>3 DEF Follows
    <3>5. follow'.id = f.id /\ follow'.tick = tick /\ follow'.missing = missing /\ follow'.placed = f.placed
          /\ follow'.lost = f.lost
      BY <3>3 DEF Follows
    <3> QED
      BY <1>2, <3>1, <3>2, <3>4, <3>5
  <2>4. follow'.missing < LoseAfter
    BY <1>1, <1>2, <2>1, <2>2, <2>3
  <2>5. f.lost <= follow'.missing + 1
    <3>1. follow.placed = "no"
      BY <1>1, <1>2, <2>1 DEF Follows
    <3> QED
      BY <1>1, <1>2, <1>6, <1>7, <2>3, <3>1
  <2>6. f.lost <= LoseAfter + 1
    <3>1. f.lost \in Nat /\ follow'.missing \in Nat
      BY <1>1, <1>2, <2>2, <2>3
    <3> QED
      BY <1>1, <2>4, <2>5, <3>1
  <2>7. LostInv'
    BY <1>1, <1>3, <1>4, <1>8, <2>3, <2>4, <2>5, <2>6 DEF LostInv
  <2>8. HoldInv'
    BY <1>1, <2>3 DEF LayerInv, HoldInv
  <2>9. Followed(follow)' = Followed(follow)
    BY <2>3 DEF Followed
  <2> QED
    BY <2>7, <2>8, <2>9
<1> QED
  BY <1>10, <1>11

LEMMA PassInv ==
    ASSUME LayerInv, Pass
    PROVE  LayerInv'
<1>1. /\ clock' = clock + 1 /\ UNCHANGED <<kind, away, prefs, zoom, answer, modal, taps>> /\ clock' \in Nat
      /\ clock \in Nat
  BY DEF Pass, LayerInv, HoldInv
<1>2. ASSUME follow' = follow \/ follow' # Absent, UNCHANGED <<holds, drawn, latest, memory, report>>,
             HoldInv', LostInv', Followed(follow)' = Followed(follow)
      PROVE  LayerInv'
  BY <1>1, <1>2 DEF LayerInv, OffIsEmpty
<1>3. CASE follow = Absent
  <2>1. follow' = Absent /\ UNCHANGED <<closure, holds, drawn, latest, memory, report>>
    BY <1>3 DEF Pass
  <2>2. HoldInv' /\ LostInv' /\ Followed(follow)' = Followed(follow)
    BY <1>1, <1>3, <2>1 DEF LayerInv, HoldInv, LostInv, Followed
  <2> QED
    BY <1>2, <1>3, <2>1, <2>2
<1>4. CASE follow # Absent /\ away = "yes"
  <2>1. PICK next : next = [follow EXCEPT !.tick = Absent, !.lost = 0]
    OBVIOUS
  <2>2. follow \in Follows
    BY <1>4 DEF LayerInv, HoldInv
  <2>3. /\ next \in Follows /\ next.id = follow.id /\ next.tick = Absent /\ next.lost = 0
        /\ next.missing = follow.missing /\ next.placed = follow.placed /\ next # Absent
    <3>1. /\ next \in Follows /\ next.id = follow.id /\ next.tick = Absent /\ next.lost = 0
          /\ next.missing = follow.missing /\ next.placed = follow.placed
      BY <2>1, <2>2 DEF Follows
    <3> QED
      BY <3>1, NobodyAssumption
  <2>4. follow' = next /\ UNCHANGED <<closure, holds, drawn, latest, memory, report>>
    BY <1>4, <2>1, <2>3 DEF Pass
  <2>5. HoldInv' /\ Followed(follow)' = Followed(follow)
    BY <1>1, <1>4, <2>3, <2>4 DEF LayerInv, HoldInv, Followed
  <2>6. Holding' = Holding
    BY <2>4 DEF Holding
  <2>7. LostInv'
    <3>1. follow.missing \in Nat /\ LoseAfter \in Nat
      BY <2>2, LiveLayerAssumption DEF Follows
    <3> QED
      BY <1>1, <1>4, <2>3, <2>4, <2>6, <3>1 DEF LayerInv, LostInv
  <2> QED
    BY <1>2, <2>3, <2>4, <2>5, <2>7
<1>5. CASE follow # Absent /\ away # "yes"
  <2>1. PICK there : there = (\E g \in ToSet(Holding.latest) : g.id = follow.id)
    OBVIOUS
  <2>2. PICK f : f = [follow EXCEPT !.lost = IF there THEN 0 ELSE follow.lost + 1,
                                    !.off = IF closure = Absent THEN 0 ELSE follow.off + 1]
    OBVIOUS
  <2>3. PICK next : next = Watched(f, clock + 1)
    OBVIOUS
  <2>4. IF next = Absent THEN StopFollowing(clock + 1)
        ELSE follow' = next /\ UNCHANGED <<closure, holds, drawn, latest, memory, report>>
    BY <1>5, <2>1, <2>2, <2>3 DEF Pass
  <2>5. CASE next = Absent
    <3>1. /\ Settle(drawn, zoom, clock + 1, Absent, memory) /\ follow' = Absent
          /\ holds' = (IF follow = Absent THEN holds ELSE holds - 1)
      BY <2>4, <2>5 DEF StopFollowing
    <3> QED
      BY <1>1, <3>1, SettledStopInv
  <2>6. CASE next # Absent
    <3>1. follow' = next /\ UNCHANGED <<closure, holds, drawn, latest, memory, report>>
      BY <2>4, <2>6
    <3>2. there \in BOOLEAN
      BY <2>1
    <3>3. HoldInv' /\ LostInv' /\ Followed(follow)' = Followed(follow)
      BY <1>1, <1>5, <2>1, <2>2, <2>3, <2>6, <3>1, <3>2, TickInv
    <3> QED
      BY <1>2, <2>6, <3>1, <3>3
  <2> QED
    BY <2>5, <2>6
<1> QED
  BY <1>3, <1>4, <1>5

LEMMA LayerStepInv == LayerInv /\ [LayerNext]_layerVars => LayerInv'
<1> SUFFICES ASSUME LayerInv, [LayerNext]_layerVars PROVE LayerInv'
  OBVIOUS
<1>1. ASSUME NEW feed \in Feeds, Answered(feed, "yes") PROVE LayerInv'
  BY <1>1, AnsweredInv
<1>2. CASE Answered(<<>>, "no")
  BY <1>2, AnsweredInv
<1>3. CASE FetchFails \/ OpenCameras \/ LookAtCamera \/ CloseCameras \/ HideOrShow
  BY <1>3, AsideInv
<1>4. ASSUME NEW p \in Preferences, SwitchOff(p) PROVE LayerInv'
  BY <1>4, SwitchOffInv
<1>5. ASSUME NEW p \in Preferences, ChangePreferences(p) PROVE LayerInv'
  BY <1>5, ChangePreferencesInv
<1>6. CASE OpenPopup
  BY <1>6, OpenPopupInv
<1>7. CASE ChooseMember
  BY <1>7, ChooseMemberInv
<1>8. CASE ZoomToVessel
  BY <1>8, ZoomToVesselInv
<1>9. ASSUME NEW id \in Named, FollowVessel(id) PROVE LayerInv'
  BY <1>9, FollowVesselInv
<1>10. CASE StopByPopup \/ StopByChip \/ IdleReset \/ MoveStarts \/ \E z \in DOMAIN Scale : ChangeZoom(z)
  BY <1>10, StopsInv
<1>11. CASE Revisit
  BY <1>11, RevisitInv
<1>12. CASE Pass
  BY <1>12, PassInv
<1>13. CASE UNCHANGED layerVars
  <2>1. UNCHANGED <<kind, clock, prefs, answer, latest, memory, drawn, modal, report, follow, closure, holds>>
    BY <1>13 DEF layerVars
  <2>2. HoldInv' /\ LostInv'
    BY <2>1, FollowUntouched DEF LayerInv
  <2> QED
    BY <2>1, <2>2 DEF LayerInv, Followed, OffIsEmpty
<1> QED
  BY <1>1, <1>2, <1>3, <1>4, <1>5, <1>6, <1>7, <1>8, <1>9, <1>10, <1>11, <1>12, <1>13 DEF LayerNext

\* A vessel that is in no answer is let go of in time, and the slideshow is held by one follow
\* or by none (follow.ts's watchdog and its hold).
THEOREM FollowsEnd == LayerSpec => []FollowLetsGo
<1>1. LayerInv => FollowLetsGo
  BY DEF LayerInv, HoldInv, LostInv, FollowLetsGo
<1> QED
  BY <1>1, LayerInitInv, LayerStepInv, PTL DEF LayerSpec

\* The popup that is open is of something that is drawn, tells what is drawn there, and its
\* button does what it says (canvasGlyphLayer.ts's rebuildPopup and refreshOpenPopup).
THEOREM PopupsAreTrue == LayerSpec => []PopupTellsTheTruth
<1>1. LayerInv => PopupTellsTheTruth
  BY DEF LayerInv, Shaped, Tells, Told, PopupTellsTheTruth
<1> QED
  BY <1>1, LayerInitInv, LayerStepInv, PTL DEF LayerSpec

\* Of a layer whose setting is off nothing is drawn, reported, listed, opened or remembered
\* (mountWhileEnabled's dispose, and every way in which a layer could draw once more).
THEOREM OffLeavesNothing == LayerSpec => []OffIsEmpty
<1>1. LayerInv => OffIsEmpty
  BY DEF LayerInv
<1> QED
  BY <1>1, LayerInitInv, LayerStepInv, PTL DEF LayerSpec

-------------------------------------------------------------------------------
(* What the masthead lists and what is drawn.  Both come of one answer, so *)
(* what a state must know is that no answer names an item twice and that   *)
(* nothing drawn was seen later than now.                                  *)

\* Items as the layer holds them.
Known(items) ==
    /\ items \in Seq([id : Named, at : Int, place : Int \cup {Nowhere}, group : {"major", "minor"}])
    /\ Distinct(items)

Answers(a) == Known(a.items) /\ (a.configured = "yes" \/ a.items = <<>>)

ListedInv ==
    /\ Known(latest)
    /\ SeenBefore(drawn.entries, clock)
    /\ Listed(report.items, drawn)
    /\ answer # Absent => Answers(answer) /\ AsFiltered(answer.items, prefs, drawn)

\* The same, of what a step leads to.
LEMMA ListedNext ==
    ASSUME kind' = kind, Known(latest'), SeenBefore(drawn'.entries, clock'), Listed(report'.items, drawn'),
           answer' # Absent => Answers(answer') /\ AsFiltered(answer'.items, prefs', drawn')
    PROVE  ListedInv'
<1>1. AsFiltered(answer'.items, prefs', drawn') => AsFiltered(answer.items, prefs, drawn)'
  BY DEF AsFiltered, Filtered
<1>2. Known(latest)' /\ SeenBefore(drawn.entries, clock)' /\ Listed(report.items, drawn)'
  BY DEF Known, SeenBefore, Listed
<1>3. answer' # Absent => Answers(answer)'
  BY DEF Answers
<1> QED
  BY <1>1, <1>2, <1>3 DEF ListedInv

\* Nothing is drawn of nothing, under any settings.
LEMMA NothingIsListed ==
    /\ Known(<<>>)
    /\ Listed(NoReport.items, Nothing)
    /\ \A moment : SeenBefore(Nothing.entries, moment)
    /\ \A p : Ids(Pinned(Filtered(<<>>, p))) = {}
    /\ \A p : AsFiltered(<<>>, p, Nothing)
<1>1. Known(<<>>)
  BY DEF Known, Distinct
<1>2. Nothing.entries = <<>> /\ Nothing.clusters = <<>> /\ NoReport.items = {}
  BY DEF Nothing, NoReport
<1>3. DOMAIN Nothing.entries = {} /\ Grouped(Nothing) = {}
  BY <1>2 DEF Grouped
<1>4. Listed(NoReport.items, Nothing)
  BY <1>2, <1>3 DEF Listed
<1>5. \A moment : SeenBefore(Nothing.entries, moment)
  BY <1>3 DEF SeenBefore
<1>6. ASSUME NEW p PROVE Ids(Pinned(Filtered(<<>>, p))) = {}
  <2>1. <<>> \in Seq({}) /\ Distinct(<<>>)
    BY DEF Distinct
  <2>2. PICK given : given = Filtered(<<>>, p)
    OBVIOUS
  <2>3. given \in Seq({})
    BY <2>1, <2>2, VisibleDistinct
  <2>4. ToSet(given) = {}
    BY <2>3, SetOfItself
  <2>5. Ids(Pinned(given)) = {}
    BY <2>3, <2>4, PinnedIsPlaced
  <2> QED
    BY <2>2, <2>5
<1>7. \A p : AsFiltered(<<>>, p, Nothing)
  BY <1>3, <1>6 DEF AsFiltered
<1> QED
  BY <1>1, <1>4, <1>5, <1>6, <1>7

\* The open popup's text has no part in it.
LEMMA RefreshKeepsDrawn ==
    ASSUME NEW d, NEW followed, Shaped(d)
    PROVE  LET r == RefreshOpenPopup(d, followed)
           IN  r.entries = d.entries /\ r.clusters = d.clusters
<1>1. PICK told : told = Told(d, d.popup.on, followed)
  OBVIOUS
<1>2. PICK r : r = RefreshOpenPopup(d, followed)
  OBVIOUS
<1>3. d = [entries |-> d.entries, clusters |-> d.clusters, popup |-> d.popup]
  BY DEF Shaped
<1>4. CASE d.popup = Absent \/ kind \notin Vessels \/ followed = Followed(follow)
  BY <1>4 DEF RefreshOpenPopup
<1>5. CASE ~(d.popup = Absent \/ kind \notin Vessels \/ followed = Followed(follow))
  <2>1. r = [d EXCEPT !.popup.shows = told]
    BY <1>1, <1>2, <1>5 DEF RefreshOpenPopup
  <2>2. r.entries = d.entries /\ r.clusters = d.clusters
    BY <1>3, <2>1
  <2> QED
    BY <1>2, <2>2
<1> QED
  BY <1>4, <1>5

\* What is drawn anew, and its popup refreshed.
LEMMA RedrawnLists ==
    ASSUME NEW items, Known(items), NEW old, NEW p, NEW z, NEW moment \in Int, NEW followed,
           SeenBefore(old.entries, moment),
           drawn' = RefreshOpenPopup(Draw(old, items, p, z, moment, followed), followed),
           report' = Report(items, p, moment)
    PROVE  /\ Listed(report'.items, drawn')
           /\ AsFiltered(items, p, drawn')
           /\ SeenBefore(drawn'.entries, moment)
<1>1. PICK d : d = Draw(old, items, p, z, moment, followed)
  OBVIOUS
<1>2. PICK r : r = Report(items, p, moment)
  OBVIOUS
<1>3. Listed(r.items, d) /\ AsFiltered(items, p, d) /\ SeenBefore(d.entries, moment)
  BY <1>1, <1>2, DrawLists DEF Known
<1>4. Shaped(d)
  BY <1>1, DrawIsShaped
<1>5. PICK drawing : drawing = drawn'
  OBVIOUS
<1>6. drawing = RefreshOpenPopup(d, followed)
  BY <1>1, <1>5
<1>7. drawing.entries = d.entries /\ drawing.clusters = d.clusters
  BY <1>4, <1>6, RefreshKeepsDrawn
<1>8. Listed(r.items, drawing) /\ AsFiltered(items, p, drawing) /\ SeenBefore(drawing.entries, moment)
  BY <1>3, <1>7 DEF Listed, AsFiltered, Grouped
<1> QED
  BY <1>2, <1>5, <1>8

\* One call of the effect.
LEMMA EffectLists ==
    ASSUME NEW items, Known(items), NEW d, NEW p, NEW z, NEW moment \in Int, NEW followed, NEW mem,
           SeenBefore(d.entries, moment), RunEffect(d, items, p, z, moment, followed, mem)
    PROVE  /\ Known(latest')
           /\ Listed(report'.items, drawn')
           /\ AsFiltered(items, p, drawn')
           /\ SeenBefore(drawn'.entries, moment)
<1>1. Known(Filtered(items, p))
  BY VisibleDistinct DEF Known
<1>2. latest' = items \/ latest' = Filtered(items, p)
  BY DEF RunEffect
<1>3. /\ drawn' = RefreshOpenPopup(Draw(d, items, p, z, moment, followed), followed)
      /\ report' = Report(items, p, moment)
  BY DEF RunEffect
<1>4. Listed(report'.items, drawn') /\ AsFiltered(items, p, drawn') /\ SeenBefore(drawn'.entries, moment)
  BY <1>3, RedrawnLists
<1> QED
  BY <1>1, <1>2, <1>4

\* A layer that clusters or coasts draws what it draws.
LEMMA OthersAsFiltered ==
    ASSUME kind \in Vessels \cup {"roadCameras"}, NEW items, NEW p, NEW d
    PROVE  AsFiltered(items, p, d)
BY DEF AsFiltered

LEMMA SeenBeforeLater ==
    ASSUME NEW entries, NEW early \in Int, NEW late \in Int, early <= late, SeenBefore(entries, early)
    PROVE  SeenBefore(entries, late)
BY DEF SeenBefore

\* A step that draws nothing.
LEMMA ListedStays ==
    ASSUME ListedInv, UNCHANGED <<kind, prefs, latest, report>>, clock \in Int, clock' \in Int, clock <= clock',
           drawn'.entries = drawn.entries, DOMAIN drawn'.clusters = DOMAIN drawn.clusters,
           answer' = answer \/ answer' = Absent
    PROVE  ListedInv'
<1>1. SeenBefore(drawn'.entries, clock')
  BY SeenBeforeLater DEF ListedInv
<1>2. Grouped(drawn') = Grouped(drawn)
  BY DEF Grouped
<1>3. Listed(report'.items, drawn')
  BY <1>2 DEF ListedInv, Listed
<1>4. ASSUME answer' # Absent PROVE Answers(answer') /\ AsFiltered(answer'.items, prefs', drawn')
  <2>1. answer' = answer /\ answer # Absent
    BY <1>4
  <2>2. Answers(answer) /\ AsFiltered(answer.items, prefs, drawn)
    BY <2>1 DEF ListedInv
  <2>3. AsFiltered(answer.items, prefs, drawn')
    BY <2>2 DEF AsFiltered
  <2> QED
    BY <2>1, <2>2, <2>3
<1>5. Known(latest')
  BY DEF ListedInv
<1> QED
  BY <1>1, <1>3, <1>4, <1>5, ListedNext

\* A target or a zoom that changes: drawn anew from what is held, or left.
LEMMA SettleLists ==
    ASSUME ListedInv, NEW d, Shaped(d), d.entries = drawn.entries, d.clusters = drawn.clusters,
           NEW z, NEW moment, NEW followed, NEW mem, Settle(d, z, moment, followed, mem),
           UNCHANGED <<kind, prefs, answer>>, clock' = moment, clock \in Int, moment \in Int, clock <= moment
    PROVE  ListedInv'
<1>1. Known(latest) /\ Listed(report.items, drawn) /\ SeenBefore(d.entries, moment)
  BY SeenBeforeLater DEF ListedInv
<1>2. answer # Absent => Answers(answer) /\ AsFiltered(answer.items, prefs, drawn)
  BY DEF ListedInv
<1>3. CASE followed # Followed(follow) /\ Listens(answer)
  <2>1. answer # Absent /\ RunEffect(d, answer.items, prefs, z, moment, followed, mem)
    BY <1>3 DEF Settle, Listens
  <2>2. Known(answer.items)
    BY <1>2, <2>1 DEF Answers
  <2>3. /\ Known(latest') /\ Listed(report'.items, drawn')
        /\ AsFiltered(answer.items, prefs, drawn') /\ SeenBefore(drawn'.entries, moment)
    BY <1>1, <2>1, <2>2, EffectLists
  <2> QED
    BY <1>2, <2>1, <2>3, ListedNext
<1>4. CASE ~(followed # Followed(follow) /\ Listens(answer)) /\ Regroups(z)
  <2>1. /\ drawn' = RefreshOpenPopup(Draw(d, latest, prefs, z, moment, followed), followed)
        /\ report' = Report(latest, prefs, moment) /\ latest' = latest
    BY <1>4 DEF Settle
  <2>2. Listed(report'.items, drawn') /\ SeenBefore(drawn'.entries, moment)
    BY <1>1, <2>1, RedrawnLists
  <2>3. kind \in Vessels \cup {"roadCameras"}
    BY <1>4 DEF Regroups, Vessels
  <2>4. AsFiltered(answer.items, prefs, drawn')
    BY <2>3, OthersAsFiltered
  <2> QED
    BY <1>1, <1>2, <2>1, <2>2, <2>4, ListedNext
<1>5. CASE ~(followed # Followed(follow) /\ Listens(answer)) /\ ~Regroups(z)
  <2>1. drawn' = RefreshOpenPopup(d, followed) /\ report' = report /\ latest' = latest
    BY <1>5 DEF Settle
  <2>2. drawn'.entries = drawn.entries /\ drawn'.clusters = drawn.clusters
    BY <2>1, RefreshKeepsDrawn
  <2> QED
    BY <2>1, <2>2, ListedStays
<1> QED
  BY <1>3, <1>4, <1>5

\* An answer that comes is drawn and listed, whatever it leaves out.
LEMMA AnsweredLists ==
    ASSUME LayerInv, ListedInv, NEW feed, feed \in Feeds \/ feed = <<>>, NEW configured,
           configured = "yes" \/ feed = <<>>, Answered(feed, configured)
    PROVE  ListedInv'
<1>1. PICK items : items = [i \in DOMAIN feed |-> [id |-> feed[i].id, at |-> clock - feed[i].age,
                                                   place |-> feed[i].place, group |-> feed[i].group]]
  OBVIOUS
<1>2. /\ answer' = [configured |-> configured, items |-> items]
      /\ IF configured = "yes" \/ kind = "roadCameras"
         THEN RunEffect(drawn, items, prefs, zoom, clock, Followed(follow), memory)
         ELSE Clear
      /\ UNCHANGED <<kind, clock, prefs>>
  BY <1>1 DEF Answered
<1>3. clock \in Int
  BY DEF LayerInv, HoldInv
<1>4. Known(items)
  <2>1. CASE feed = <<>>
    <3>1. items = <<>>
      BY <1>1, <2>1
    <3> QED
      BY <3>1, NothingIsListed
  <2>2. CASE feed \in Feeds
    <3>0. PICK R : R = [id : Named, age : Nat, place : Int \cup {Nowhere}, group : {"major", "minor"}]
      OBVIOUS
    <3>1. /\ feed \in Seq(R)
          /\ \A i, j \in DOMAIN feed : feed[i].id = feed[j].id => i = j
      BY <2>2, <3>0, FeedsAssumption
    <3>2. DOMAIN feed = 1..Len(feed) /\ Len(feed) \in Nat
      BY <3>1
    <3>3. ASSUME NEW i \in DOMAIN feed
          PROVE  /\ items[i] \in [id : Named, at : Int, place : Int \cup {Nowhere}, group : {"major", "minor"}]
                 /\ items[i].id = feed[i].id
      <4>1. feed[i] \in [id : Named, age : Nat, place : Int \cup {Nowhere}, group : {"major", "minor"}]
        <5>1. feed[i] \in R
          BY <3>1, <3>2
        <5> QED
          BY <3>0, <5>1
      <4>2. items[i] = [id |-> feed[i].id, at |-> clock - feed[i].age, place |-> feed[i].place, group |-> feed[i].group]
        BY <1>1
      <4>3. clock - feed[i].age \in Int
        BY <1>3, <4>1
      <4> QED
        BY <4>1, <4>2, <4>3
    <3>4. DOMAIN items = DOMAIN feed /\ items = [i \in 1..Len(feed) |-> items[i]]
      BY <1>1, <3>2
    <3>5. items \in Seq([id : Named, at : Int, place : Int \cup {Nowhere}, group : {"major", "minor"}])
      BY <3>2, <3>3, <3>4
    <3>6. Distinct(items)
      BY <3>1, <3>3, <3>4 DEF Distinct
    <3> QED
      BY <3>5, <3>6 DEF Known
  <2> QED
    BY <2>1, <2>2
<1>5. Answers(answer')
  <2>1. configured = "yes" \/ items = <<>>
    BY <1>1
  <2>2. answer'.configured = configured /\ answer'.items = items
    BY <1>2
  <2> QED
    BY <1>4, <2>1, <2>2 DEF Answers
<1>6. SeenBefore(drawn.entries, clock)
  BY DEF ListedInv
<1>7. CASE configured = "yes" \/ kind = "roadCameras"
  <2>1. RunEffect(drawn, items, prefs, zoom, clock, Followed(follow), memory)
    BY <1>2, <1>7
  <2>2. PICK followed : followed = Followed(follow)
    OBVIOUS
  <2>3. /\ Known(latest') /\ Listed(report'.items, drawn')
        /\ AsFiltered(items, prefs, drawn') /\ SeenBefore(drawn'.entries, clock)
    BY <1>3, <1>4, <1>6, <2>1, <2>2, EffectLists
  <2>4. answer'.items = items
    BY <1>2
  <2> QED
    BY <1>2, <1>5, <2>3, <2>4, ListedNext
<1>8. CASE ~(configured = "yes" \/ kind = "roadCameras")
  <2>1. drawn' = Nothing /\ latest' = <<>> /\ report' = NoReport
    BY <1>2, <1>8 DEF Clear
  <2>2. answer'.items = <<>>
    BY <1>5, <1>8, <1>2 DEF Answers
  <2>3. AsFiltered(answer'.items, prefs', drawn')
    BY <2>1, <2>2, NothingIsListed
  <2>4. Known(latest') /\ Listed(report'.items, drawn') /\ SeenBefore(drawn'.entries, clock')
    BY <2>1, NothingIsListed
  <2> QED
    BY <1>2, <1>5, <2>3, <2>4, ListedNext
<1> QED
  BY <1>7, <1>8

LEMMA ListedInitInv == LayerInit => ListedInv
BY NothingIsListed DEF LayerInit, ListedInv

LEMMA ChangePreferencesLists ==
    ASSUME LayerInv, ListedInv, NEW p, ChangePreferences(p)
    PROVE  ListedInv'
<1>1. /\ prefs' = p /\ UNCHANGED <<kind, clock, away, zoom, modal, closure, holds>>
      /\ \/ answer' = Absent /\ UNCHANGED <<drawn, latest, memory, report>>
         \/ /\ Listens(answer) /\ RunEffect(drawn, answer.items, p, zoom, clock, Followed(follow), memory)
            /\ UNCHANGED answer
         \/ ~Listens(answer) /\ UNCHANGED <<answer, drawn, latest, memory, report>>
  BY DEF ChangePreferences
<1>2. clock \in Int /\ Known(latest) /\ Listed(report.items, drawn) /\ SeenBefore(drawn.entries, clock)
  BY DEF LayerInv, HoldInv, ListedInv
<1>3. answer # Absent => Answers(answer) /\ AsFiltered(answer.items, prefs, drawn)
  BY DEF ListedInv
<1>4. CASE answer' = Absent /\ UNCHANGED <<drawn, latest, memory, report>>
  BY <1>1, <1>2, <1>4, ListedNext
<1>5. CASE Listens(answer) /\ RunEffect(drawn, answer.items, p, zoom, clock, Followed(follow), memory) /\ UNCHANGED answer
  <2>1. answer # Absent
    BY <1>5 DEF Listens
  <2>2. PICK followed : followed = Followed(follow)
    OBVIOUS
  <2>3. PICK items : items = answer.items
    OBVIOUS
  <2>4. Known(items)
    BY <1>3, <2>1, <2>3 DEF Answers
  <2>5. /\ Known(latest') /\ Listed(report'.items, drawn')
        /\ AsFiltered(items, p, drawn') /\ SeenBefore(drawn'.entries, clock)
    BY <1>2, <1>5, <2>2, <2>3, <2>4, EffectLists
  <2> QED
    BY <1>1, <1>3, <1>5, <2>1, <2>3, <2>5, ListedNext
<1>6. CASE ~Listens(answer) /\ UNCHANGED <<answer, drawn, latest, memory, report>>
  <2>1. ASSUME answer # Absent PROVE AsFiltered(answer.items, p, drawn)
    <3>1. CASE kind \in Vessels \cup {"roadCameras"}
      BY <3>1, OthersAsFiltered
    <3>2. CASE kind \notin Vessels \cup {"roadCameras"}
      <4>1. answer.items = <<>>
        BY <1>3, <1>6, <2>1, <3>2 DEF Answers, Listens
      <4>2. DOMAIN drawn.entries = Ids(Pinned(Filtered(<<>>, prefs)))
        BY <1>3, <2>1, <3>2, <4>1 DEF AsFiltered
      <4>3. DOMAIN drawn.entries = Ids(Pinned(Filtered(<<>>, p)))
        BY <4>2, NothingIsListed
      <4> QED
        BY <4>1, <4>3 DEF AsFiltered
    <3> QED
      BY <3>1, <3>2
  <2> QED
    BY <1>1, <1>2, <1>3, <1>6, <2>1, ListedNext
<1> QED
  BY <1>1, <1>4, <1>5, <1>6

\* Opening a popup, and choosing in it, leaves the entries and the clusters where they are.
LEMMA PopupsListTheSame ==
    ASSUME LayerInv, ListedInv, OpenPopup \/ ChooseMember
    PROVE  ListedInv'
<1>1. UNCHANGED <<kind, clock, prefs, answer, latest, report>> /\ clock \in Int
  <2>1. ASSUME OpenPopup PROVE UNCHANGED <<kind, clock, prefs, answer, latest, report>>
    BY <2>1 DEF OpenPopup
  <2>2. ASSUME ChooseMember PROVE UNCHANGED <<kind, clock, prefs, answer, latest, report>>
    BY <2>2 DEF ChooseMember
  <2>3. clock \in Int
    BY DEF LayerInv, HoldInv
  <2> QED
    BY <2>1, <2>2, <2>3
<1>2. drawn = [entries |-> drawn.entries, clusters |-> drawn.clusters, popup |-> drawn.popup]
  BY DEF LayerInv, Shaped
<1>3. PICK es, cs, q : es = drawn.entries /\ cs = drawn.clusters /\ q = drawn.popup
  OBVIOUS
<1>4. drawn = [entries |-> es, clusters |-> cs, popup |-> q]
  BY <1>2, <1>3
<1>5. drawn'.entries = es /\ DOMAIN drawn'.clusters = DOMAIN cs
  <2>1. CASE OpenPopup
    <3>1. PICK popup : drawn' = [drawn EXCEPT !.popup = popup]
      BY <2>1 DEF OpenPopup
    <3> QED
      BY <1>4, <3>1
  <2>2. CASE ChooseMember
    <3> DEFINE k == drawn.popup.on
    <3>1. PICK chosen :
            drawn' = [drawn EXCEPT
              !.clusters[k].selected = chosen,
              !.popup.shows = Content(drawn.clusters[k].members, chosen, Followed(follow))]
      BY <2>2 DEF ChooseMember
    <3>2. PICK content : content = Content(drawn.clusters[k].members, chosen, Followed(follow))
      OBVIOUS
    <3>3. PICK ds : ds = [cs EXCEPT ![k].selected = chosen]
      OBVIOUS
    <3>4. PICK told : told = [q EXCEPT !.shows = content]
      OBVIOUS
    <3>5. drawn' = [drawn EXCEPT !.clusters = ds, !.popup = told]
      BY <1>3, <3>1, <3>2, <3>3, <3>4
    <3>6. drawn' = [entries |-> es, clusters |-> ds, popup |-> told]
      BY <1>4, <3>5
    <3>7. DOMAIN ds = DOMAIN cs
      BY <3>3
    <3> QED
      BY <3>6, <3>7
  <2> QED
    BY <2>1, <2>2
<1> QED
  BY <1>1, <1>3, <1>5, ListedStays

\* However a follow begins or ends, what is listed is drawn.
LEMMA FollowsList ==
    ASSUME LayerInv, ListedInv,
           \/ ZoomToVessel \/ StopByPopup \/ StopByChip \/ IdleReset \/ MoveStarts
           \/ \E id \in Named : FollowVessel(id)
           \/ \E z \in DOMAIN Scale : ChangeZoom(z)
    PROVE  ListedInv'
<1>1. PICK z : z = zoom'
  OBVIOUS
<1>2. UNCHANGED <<kind, clock, prefs, answer>> /\ clock \in Int
  <2>1. ASSUME ZoomToVessel \/ StopByPopup PROVE UNCHANGED <<kind, clock, prefs, answer>>
    BY <2>1 DEF ZoomToVessel, StopByPopup
  <2>2. ASSUME StopByChip \/ IdleReset \/ MoveStarts PROVE UNCHANGED <<kind, clock, prefs, answer>>
    BY <2>2 DEF StopByChip, IdleReset, MoveStarts
  <2>3. ASSUME NEW id \in Named, FollowVessel(id) PROVE UNCHANGED <<kind, clock, prefs, answer>>
    BY <2>3 DEF FollowVessel
  <2>4. ASSUME NEW w \in DOMAIN Scale, ChangeZoom(w) PROVE UNCHANGED <<kind, clock, prefs, answer>>
    BY <2>4 DEF ChangeZoom
  <2>5. clock \in Int
    BY DEF LayerInv, HoldInv
  <2> QED
    BY <2>1, <2>2, <2>3, <2>4, <2>5
<1>3. PICK d, followed, mem : Settle(d, z, clock, followed, mem) /\ d \in {drawn, Closed}
  <2>1. ASSUME ZoomToVessel PROVE Settle(Closed, z, clock, Followed(follow), memory)
    BY <1>1, <2>1 DEF ZoomToVessel
  <2>2. ASSUME StopByPopup PROVE Settle(Closed, z, clock, Absent, memory)
    BY <1>1, <2>2 DEF StopByPopup
  <2>3. ASSUME StopByChip \/ IdleReset \/ MoveStarts PROVE Settle(drawn, z, clock, Absent, memory)
    BY <1>1, <2>3 DEF StopByChip, IdleReset, MoveStarts, StopFollowing
  <2>4. ASSUME NEW id \in Named, FollowVessel(id) PROVE \E mem : Settle(Closed, z, clock, id, mem)
    BY <1>1, <2>4 DEF FollowVessel
  <2>5. ASSUME NEW w \in DOMAIN Scale, ChangeZoom(w) PROVE Settle(drawn, z, clock, Absent, memory)
    BY <1>1, <2>5 DEF ChangeZoom
  <2> QED
    BY <2>1, <2>2, <2>3, <2>4, <2>5
<1>4. Shaped(drawn) /\ Shaped(Closed)
  BY ClosedIsShaped DEF LayerInv
<1>5. Closed.entries = drawn.entries /\ Closed.clusters = drawn.clusters
  <2>1. drawn = [entries |-> drawn.entries, clusters |-> drawn.clusters, popup |-> drawn.popup]
    BY <1>4 DEF Shaped
  <2> QED
    BY <2>1 DEF Closed
<1>6. Shaped(d) /\ d.entries = drawn.entries /\ d.clusters = drawn.clusters
  BY <1>3, <1>4, <1>5
<1>7. clock <= clock
  BY <1>2
<1> QED
  BY <1>2, <1>3, <1>6, <1>7, SettleLists

LEMMA PassLists ==
    ASSUME LayerInv, ListedInv, Pass
    PROVE  ListedInv'
<1>1. /\ clock' = clock + 1 /\ UNCHANGED <<kind, prefs, zoom, answer>>
      /\ clock \in Int /\ clock' \in Int /\ clock <= clock'
      /\ Shaped(drawn)
  BY DEF Pass, LayerInv, HoldInv
<1>2. StopFollowing(clock + 1) \/ UNCHANGED <<drawn, latest, report>>
  BY DEF Pass
<1>3. CASE UNCHANGED <<drawn, latest, report>>
  BY <1>1, <1>3, ListedStays
<1>4. CASE StopFollowing(clock + 1)
  <2>1. PICK moment : moment = clock + 1
    OBVIOUS
  <2>2. Settle(drawn, zoom, moment, Absent, memory)
    BY <1>4, <2>1 DEF StopFollowing
  <2> QED
    BY <1>1, <2>1, <2>2, SettleLists
<1> QED
  BY <1>2, <1>3, <1>4

LEMMA ListedStepInv == LayerInv /\ ListedInv /\ [LayerNext]_layerVars => ListedInv'
<1> SUFFICES ASSUME LayerInv, ListedInv, [LayerNext]_layerVars PROVE ListedInv'
  OBVIOUS
<1>1. ASSUME NEW feed \in Feeds, Answered(feed, "yes") PROVE ListedInv'
  BY <1>1, AnsweredLists
<1>2. CASE Answered(<<>>, "no")
  BY <1>2, AnsweredLists
<1>3. CASE FetchFails \/ OpenCameras \/ LookAtCamera \/ CloseCameras \/ HideOrShow \/ UNCHANGED layerVars
  <2>1. UNCHANGED <<kind, clock, prefs, latest, report, drawn>> /\ answer' \in {answer, Absent} /\ clock \in Int
    BY <1>3 DEF FetchFails, OpenCameras, LookAtCamera, CloseCameras, HideOrShow, layerVars, LayerInv, HoldInv
  <2> QED
    BY <2>1, ListedStays
<1>4. ASSUME (\E p \in Preferences : SwitchOff(p)) \/ Revisit PROVE ListedInv'
  <2>1. kind' = kind /\ drawn' = Nothing /\ latest' = <<>> /\ report' = NoReport /\ answer' = Absent
    BY <1>4 DEF SwitchOff, Revisit, Disposed
  <2> QED
    BY <2>1, NothingIsListed, ListedNext
<1>5. ASSUME NEW p \in Preferences, ChangePreferences(p) PROVE ListedInv'
  BY <1>5, ChangePreferencesLists
<1>6. CASE OpenPopup \/ ChooseMember
  BY <1>6, PopupsListTheSame
<1>7. ASSUME \/ ZoomToVessel \/ StopByPopup \/ StopByChip \/ IdleReset \/ MoveStarts
             \/ \E id \in Named : FollowVessel(id)
             \/ \E z \in DOMAIN Scale : ChangeZoom(z)
      PROVE  ListedInv'
  BY <1>7, FollowsList
<1>8. CASE Pass
  BY <1>8, PassLists
<1> QED
  BY <1>1, <1>2, <1>3, <1>4, <1>5, <1>6, <1>7, <1>8 DEF LayerNext

\* What the masthead lists is on the map, as a pin or within one badge and never both; a filter
\* that is switched is seen at once; nothing stays of a layer that is off (publishListing, the
\* layers' effects and clusterPoints).
THEOREM WhatIsListedIsDrawn == LayerSpec => []ListedIsDrawn
<1>1. LayerInv /\ ListedInv => ListedIsDrawn
  <2> SUFFICES ASSUME LayerInv, ListedInv PROVE ListedIsDrawn
    OBVIOUS
  <2>1. Listed(report.items, drawn)
    BY DEF ListedInv
  <2>2. answer # Absent => AsFiltered(answer.items, prefs, drawn)
    BY DEF ListedInv
  <2>3. prefs.on = "off" => drawn = Nothing /\ report = NoReport /\ modal = Absent
    BY DEF LayerInv, OffIsEmpty
  <2> QED
    BY <2>1, <2>2, <2>3 DEF ListedIsDrawn, Listed, AsFiltered
<1> QED
  BY <1>1, LayerInitInv, LayerStepInv, ListedInitInv, ListedStepInv, PTL DEF LayerSpec


-------------------------------------------------------------------------------
(* The trails on the map, for every cap and age of their points and        *)
(* whatever the updates hold.                                              *)

IsTrail(points) == (\E S : points \in Seq(S)) /\ Len(points) <= MaxPoints

\* A trail with what is drawn of it.
IsDrawn(t) ==
    /\ {"points", "lines"} \subseteq DOMAIN t
    /\ IsTrail(t.points)
    /\ ToSet(t.lines) \subseteq ToSet(TrailSegments(t.points))

TrailsInv == \A id \in DOMAIN trails : IsDrawn(trails[id])

LEMMA LastOfType ==
    ASSUME NEW S, NEW s \in Seq(S), NEW count \in Nat \ {0}
    PROVE  /\ LastOf(s, count) \in Seq(S) /\ Len(LastOf(s, count)) <= count
           /\ Len(s) <= count => LastOf(s, count) = s
<1>1. CASE Len(s) > count
  <2>1. Len(s) \in Nat /\ Len(s) - count + 1 \in 1..Len(s)
    BY <1>1
  <2>2. PICK from \in 1..Len(s) : from = Len(s) - count + 1
    BY <2>1
  <2>3. SubSeq(s, from, Len(s)) \in Seq(S) /\ Len(SubSeq(s, from, Len(s))) = Len(s) - from + 1
    BY <2>1
  <2> QED
    BY <1>1, <2>1, <2>2, <2>3 DEF LastOf
<1>2. CASE ~(Len(s) > count)
  BY <1>2 DEF LastOf
<1> QED
  BY <1>1, <1>2

\* What a fix leaves of a trail is a trail, and the same one unless the array is another.
LEMMA AppendKeepsTrail ==
    ASSUME NEW points, IsTrail(points), NEW next, NEW t
    PROVE  /\ IsTrail(AppendTrailPoint(points, next, t))
           /\ ~Reappended(points, next, t) => AppendTrailPoint(points, next, t) = points
<1>1. PICK S : points \in Seq(S)
  BY DEF IsTrail
<1>2. PICK kept : kept = AgeTrailPoints(points, t)
  OBVIOUS
<1>3. /\ kept \in Seq(S) /\ Len(kept) <= Len(points)
      /\ Len(kept) = Len(points) => kept = points
  <2> DEFINE young == {p \in ToSet(points) : p.at >= t - TrailAge}
  <2>1. kept = Kept(points, young)
    BY <1>2 DEF AgeTrailPoints
  <2> HIDE DEF young
  <2>2. kept \in Seq(S \cap young)
    BY <1>1, <2>1, KeptPasses
  <2> QED
    BY <1>1, <2>1, <2>2, KeptLength
<1>4. MaxPoints \in Nat \ {0}
  BY TrailLayerAssumption
<1>5. PICK longer : longer = IF SkipAppend(kept, next, t) THEN kept ELSE Append(kept, next)
  OBVIOUS
<1>6. longer \in Seq(S \cup {next})
  <2>1. kept \in Seq(S \cup {next})
    BY <1>3
  <2>2. Append(kept, next) \in Seq(S \cup {next})
    BY <2>1
  <2> QED
    BY <1>5, <2>1, <2>2
<1>7. AppendTrailPoint(points, next, t) = LastOf(longer, MaxPoints)
  BY <1>2, <1>5 DEF AppendTrailPoint
<1>8. IsTrail(AppendTrailPoint(points, next, t))
  BY <1>4, <1>6, <1>7, LastOfType DEF IsTrail
<1>9. ASSUME ~Reappended(points, next, t) PROVE AppendTrailPoint(points, next, t) = points
  <2>1. SkipAppend(kept, next, t) /\ kept = points
    BY <1>2, <1>3, <1>9 DEF Reappended
  <2>2. longer = points /\ Len(points) <= MaxPoints
    BY <1>5, <2>1 DEF IsTrail
  <2> QED
    BY <1>1, <1>4, <1>7, <2>2, LastOfType
<1> QED
  BY <1>8, <1>9

\* So is what the server remembers, in whatever order it is put.
LEMMA SeedIsTrail ==
    ASSUME NEW S, NEW remembered \in Seq(S), NEW t
    PROVE  IsTrail(SeedPoints(remembered, t))
<1>1. PICK kept : kept = AgeTrailPoints(remembered, t)
  OBVIOUS
<1>2. kept \in Seq(S)
  <2> DEFINE young == {p \in ToSet(remembered) : p.at >= t - TrailAge}
  <2>1. kept = Kept(remembered, young)
    BY <1>1 DEF AgeTrailPoints
  <2> HIDE DEF young
  <2>2. kept \in Seq(S \cap young)
    BY <2>1, KeptPasses
  <2> QED
    BY <2>2
<1>3. PICK sorted : sorted = InOrder(kept)
  OBVIOUS
<1>4. \E R : sorted \in Seq(R)
  <2>1. sorted = [n \in 1..Len(kept) |-> sorted[n]] /\ Len(kept) \in Nat
    BY <1>2, <1>3 DEF InOrder
  <2>2. sorted \in Seq({sorted[n] : n \in 1..Len(kept)})
    BY <2>1
  <2> QED
    BY <2>2
<1>5. MaxPoints \in Nat \ {0}
  BY TrailLayerAssumption
<1>6. SeedPoints(remembered, t) = LastOf(sorted, MaxPoints)
  BY <1>1, <1>3 DEF SeedPoints
<1> QED
  BY <1>4, <1>5, <1>6, LastOfType DEF IsTrail

\* A vessel in an update, a new one or one with a trail.
LEMMA TrackedIsDrawn ==
    ASSUME TrailsInv, NEW v, \E S : v.remembered \in Seq(S)
    PROVE  IsDrawn(Tracked(v))
<1>1. PICK old : old = IF v.id \in DOMAIN trails THEN trails[v.id]
                       ELSE [points |-> SeedPoints(Since(v.remembered), now), lines |-> <<>>]
  OBVIOUS
<1>2. PICK fix : fix = [at |-> now - v.age, place |-> v.place]
  OBVIOUS
<1>3. PICK points : points = AppendTrailPoint(old.points, fix, now)
  OBVIOUS
<1>4. PICK lines : lines = IF Redraws(old.points, fix) THEN TrailSegments(points) ELSE old.lines
  OBVIOUS
<1>5. IsTrail(old.points) /\ ToSet(old.lines) \subseteq ToSet(TrailSegments(old.points))
  <2>1. CASE v.id \in DOMAIN trails
    BY <1>1, <2>1 DEF TrailsInv, IsDrawn
  <2>2. CASE v.id \notin DOMAIN trails
    <3>1. PICK S : v.remembered \in Seq(S)
      OBVIOUS
    <3>2. PICK dated : dated = Since(v.remembered)
      OBVIOUS
    <3>3. \E R : dated \in Seq(R)
      <4>1. dated = [i \in 1..Len(v.remembered) |-> dated[i]] /\ Len(v.remembered) \in Nat
        BY <3>1, <3>2 DEF Since
      <4>2. dated \in Seq({dated[i] : i \in 1..Len(v.remembered)})
        BY <4>1
      <4> QED
        BY <4>2
    <3>4. old.points = SeedPoints(dated, now) /\ old.lines = <<>>
      BY <1>1, <2>2, <3>2
    <3>5. ToSet(old.lines) = {}
      BY <3>4 DEF ToSet
    <3> QED
      BY <3>3, <3>4, <3>5, SeedIsTrail
  <2> QED
    BY <2>1, <2>2
<1>6. IsTrail(points) /\ ToSet(lines) \subseteq ToSet(TrailSegments(points))
  BY <1>3, <1>4, <1>5, AppendKeepsTrail DEF Redraws
<1>7. PICK trail : trail = [points |-> points, fix |-> fix, speed |-> v.speed, seen |-> now, head |-> NoHead,
                            lines |-> lines]
  OBVIOUS
<1>8. Tracked(v) = [trail EXCEPT !.head = LeadingSegment(trail)]
  BY <1>1, <1>2, <1>3, <1>4, <1>7 DEF Tracked
<1>9. PICK head : head = LeadingSegment(trail)
  OBVIOUS
<1>10. Tracked(v).points = points /\ Tracked(v).lines = lines /\ {"points", "lines"} \subseteq DOMAIN Tracked(v)
  BY <1>7, <1>8, <1>9
<1> QED
  BY <1>6, <1>10 DEF IsDrawn

\* And one that is not in it.
LEMMA UntrackedIsDrawn ==
    ASSUME NEW trail, IsDrawn(trail)
    PROVE  IsDrawn(Untracked(trail))
<1>1. PICK aged : aged = AgeTrailPoints(trail.points, now)
  OBVIOUS
<1>2. PICK S : trail.points \in Seq(S)
  BY DEF IsDrawn, IsTrail
<1>3. aged \in Seq(S) /\ Len(aged) <= Len(trail.points)
  <2> DEFINE young == {p \in ToSet(trail.points) : p.at >= now - TrailAge}
  <2>1. aged = Kept(trail.points, young)
    BY <1>1 DEF AgeTrailPoints
  <2> HIDE DEF young
  <2>2. aged \in Seq(S \cap young)
    BY <1>2, <2>1, KeptPasses
  <2> QED
    BY <1>2, <2>1, <2>2, KeptLength
<1>4. IsTrail(aged)
  <2>1. Len(aged) \in Nat /\ Len(trail.points) \in Nat /\ Len(trail.points) <= MaxPoints /\ MaxPoints \in Nat
    BY <1>2, <1>3, TrailLayerAssumption DEF IsDrawn, IsTrail
  <2> QED
    BY <1>3, <2>1 DEF IsTrail
<1>5. CASE Len(aged) = Len(trail.points)
  BY <1>1, <1>5 DEF Untracked
<1>6. CASE Len(aged) # Len(trail.points)
  <2>1. PICK lines : lines = TrailSegments(aged)
    OBVIOUS
  <2>2. Untracked(trail) = [trail EXCEPT !.points = aged, !.lines = lines]
    BY <1>1, <1>6, <2>1 DEF Untracked
  <2>3. /\ Untracked(trail).points = aged /\ Untracked(trail).lines = lines
        /\ {"points", "lines"} \subseteq DOMAIN Untracked(trail)
    BY <2>2 DEF IsDrawn
  <2> QED
    BY <1>4, <2>1, <2>3 DEF IsDrawn
<1> QED
  BY <1>5, <1>6

LEMMA TrailStepInv == TrailsInv /\ [TrailNext]_trailVars => TrailsInv'
<1> SUFFICES ASSUME TrailsInv, [TrailNext]_trailVars PROVE TrailsInv'
  OBVIOUS
<1>1. ASSUME NEW vessels \in Sightings, Update(vessels) PROVE TrailsInv'
  <2>1. PICK known : known = DOMAIN trails \ {id \in DOMAIN trails : now - trails[id].seen >= ForgetAfter}
    OBVIOUS
  <2>2. trails' = [id \in known \cup {v.id : v \in vessels} |->
                      IF \E v \in vessels : v.id = id
                      THEN Tracked(CHOOSE v \in vessels : v.id = id)
                      ELSE Untracked(trails[id])]
    BY <1>1, <2>1 DEF Update
  <2>3. ASSUME NEW id \in DOMAIN trails' PROVE IsDrawn(trails'[id])
    <3>1. CASE \E v \in vessels : v.id = id
      <4>1. PICK v \in vessels : v = CHOOSE w \in vessels : w.id = id
        BY <3>1
      <4>2. trails'[id] = Tracked(v)
        BY <2>2, <2>3, <3>1, <4>1
      <4>3. \E S : v.remembered \in Seq(S)
        BY SightingsAssumption
      <4> QED
        BY <4>2, <4>3, TrackedIsDrawn
    <3>2. CASE ~\E v \in vessels : v.id = id
      <4>1. id \in DOMAIN trails /\ trails'[id] = Untracked(trails[id])
        BY <2>1, <2>2, <2>3, <3>2
      <4> QED
        BY <4>1, UntrackedIsDrawn DEF TrailsInv
    <3> QED
      BY <3>1, <3>2
  <2> QED
    BY <2>3 DEF TrailsInv, IsDrawn, IsTrail
<1>2. CASE MoveHeads
  <2>1. ASSUME NEW id \in DOMAIN trails' PROVE IsDrawn(trails'[id])
    <3>1. PICK trail : trail = trails[id]
      OBVIOUS
    <3>2. PICK head : head = LeadingSegment(trail)
      OBVIOUS
    <3>3. id \in DOMAIN trails /\ trails'[id] = [trail EXCEPT !.head = head]
      BY <1>2, <2>1, <3>1, <3>2 DEF MoveHeads
    <3>4. IsDrawn(trail)
      BY <3>1, <3>3 DEF TrailsInv
    <3>5. /\ trails'[id].points = trail.points /\ trails'[id].lines = trail.lines
          /\ {"points", "lines"} \subseteq DOMAIN trails'[id]
      BY <3>3, <3>4 DEF IsDrawn
    <3> QED
      BY <3>4, <3>5 DEF IsDrawn
  <2> QED
    BY <2>1 DEF TrailsInv, IsDrawn, IsTrail
<1>3. CASE ClearTrails
  BY <1>3 DEF ClearTrails, TrailsInv
<1>4. CASE trails' = trails
  BY <1>4 DEF TrailsInv, IsDrawn, IsTrail
<1>5. TrailPasses => trails' = trails
  BY DEF TrailPasses
<1>6. UNCHANGED trailVars => trails' = trails
  BY DEF trailVars
<1> QED
  BY <1>1, <1>2, <1>3, <1>4, <1>5, <1>6 DEF TrailNext

LEMMA TrailsHold == TrailSpec => []TrailsInv
<1>1. TrailInit => TrailsInv
  BY DEF TrailInit, TrailsInv
<1> QED
  BY <1>1, TrailStepInv, PTL DEF TrailSpec

\* No vessel ever has a segment on the map that is not of the trail it has then: trailLayer.ts
\* compares arrays only, which is enough because a filter that keeps as many keeps the same.
THEOREM OutdatedIsErased == TrailSpec => []NoStaleSegment
<1>1. TrailsInv => NoStaleSegment
  BY DEF TrailsInv, NoStaleSegment, IsDrawn
<1> QED
  BY <1>1, TrailsHold, PTL
===============================================================================
