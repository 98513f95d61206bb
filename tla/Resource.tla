------------------------------- MODULE Resource -------------------------------
(***************************************************************************)
(* A polled resource (src/web/core/resource.ts) as a live layer of the map *)
(* holds it (src/web/pages/map/liveLayerMount.ts): the interval, its       *)
(* back-off after failures, the answers that come back after a newer fetch *)
(* was sent, the page hidden and shown, the layer switched off and on, a   *)
(* change of the poll setting, and the map moved by a visitor or by the    *)
(* program.  Time is counted in ticks.                                     *)
(***************************************************************************)
EXTENDS Integers, FiniteSets

CONSTANTS
    Intervals, \* the poll intervals the settings may give, in ticks
    Factor,    \* DEFAULT_MAX_BACKOFF_FACTOR
    Debounce,  \* MOVE_REFETCH_DEBOUNCE_MS
    Latency,   \* the longest a fetch takes to answer or to fail
    Views,     \* where the map may be
    None,
    MaxActs    \* bound: what visitors and settings do in a behaviour

ASSUME ResourceAssumption ==
    /\ Intervals \subseteq Nat \ {0} /\ Intervals # {} /\ Views # {}
    /\ Factor \in Nat \ {0} /\ Debounce \in Nat /\ Latency \in Nat /\ MaxActs \in Nat
    /\ None \notin Nat /\ None \notin Views

\* What the back-off needs of the powers of two, which double until they pass the factor.
ASSUME PowersAssumption ==
    /\ 2 ^ 0 = 1 /\ 2 ^ Factor >= Factor
    /\ \A n \in 0..Factor : 2 ^ n \in Nat

VARIABLES
    renewing, \* does a change of the poll setting make a new resource? (transit and warnings)
    interval, \* what the settings ask for
    on,       \* is the layer mounted, its resource not disposed of?
    hidden,   \* document.hidden
    pace,     \* options.intervalMs
    timers,   \* the intervals that run, and the handle in `timer`
    failures, \* failed fetches in a row
    flights,  \* fetches out: how many the same resource has sent since, and what was asked for
    state,    \* the signal: its status, and the view of lastData
    view,     \* where the map is
    debounce, \* ticks until the map's move is refetched
    mover,    \* history: who moved the map last
    since,    \* history: ticks since the resource last sent a fetch
    acts      \* history: what has been done, for the bound

resourceVars == <<renewing, interval, on, hidden, pace, timers, failures, flights, state, view,
                  debounce, mover, since, acts>>

TypeOK ==
    /\ {renewing, on, hidden} \subseteq {"yes", "no"}
    /\ interval \in Intervals /\ pace \in Intervals /\ failures \in 0..Factor
    /\ timers.running \subseteq [handle : Nat, left : Nat, period : Nat]
    /\ timers.handle \in Nat \cup {None}
    /\ flights \subseteq [behind : Nat, view : Views, left : Nat, disposed : {"yes", "no"}]
    /\ state \in [status : {"idle", "loading", "ready", "error"}, data : Views \cup {None}]
    /\ view \in Views /\ debounce \in Nat \cup {None} /\ mover \in {"visitor", "program"}
    /\ since \in Nat /\ acts \in 0..MaxActs

-------------------------------------------------------------------------------
(* The interval. *)

NoTimer == [running |-> {}, handle |-> None]

StopInterval(t) ==
    [running |-> {i \in t.running : i.handle # t.handle}, handle |-> None]

SetIntervalOf(t, period) ==
    LET fresh == CHOOSE h \in 0..Cardinality(t.running) : \A i \in t.running : i.handle # h
    IN  [running |-> t.running \cup {[handle |-> fresh, left |-> period, period |-> period]},
         handle |-> fresh]

\* Mutant of StartInterval: the interval that runs is left running.
StartAnother(t, period) == SetIntervalOf(t, period)

StartInterval(t, period) == SetIntervalOf(StopInterval(t), period)

RestartIntervalIfRunning(t, period) ==
    IF t.handle = None THEN t ELSE StartInterval(t, period)

\* currentIntervalMs, no layer giving a maxBackoffMs of its own.
CurrentInterval(p, failed) ==
    IF 2 ^ failed >= Factor THEN p * Factor ELSE p * 2 ^ failed

\* A further failure; beyond the ceiling the count makes no difference and stays.
Failed(failed) == IF 2 ^ failed >= Factor THEN failed ELSE failed + 1

-------------------------------------------------------------------------------
(* The resource. *)

\* A fetch of `where` joins those that are out.  What was sent before it, by this resource, is
\* a generation older.
Load(out, where) ==
    /\ flights' = {[f EXCEPT !.behind = IF f.disposed = "yes" THEN @ ELSE @ + 1] : f \in out}
                    \cup {[behind |-> 0, view |-> where, left |-> Latency, disposed |-> "no"]}
    /\ since' = 0

Loading(s) == IF s.data = None THEN [s EXCEPT !.status = "loading"] ELSE s

Abandoned(out) == {[f EXCEPT !.disposed = "yes"] : f \in out}

\* resource(): a hidden page neither fetches nor polls until it is shown.
Create(out, period) ==
    /\ on' = "yes" /\ pace' = period /\ failures' = 0
    /\ IF hidden = "yes"
       THEN /\ timers' = NoTimer /\ flights' = out /\ since' = 0
            /\ state' = [status |-> "idle", data |-> None]
       ELSE /\ timers' = StartInterval(NoTimer, period) /\ Load(out, view)
            /\ state' = [status |-> "loading", data |-> None]

ResourceInit ==
    /\ renewing \in {"yes", "no"} /\ interval \in Intervals
    /\ on = "no" /\ hidden \in {"yes", "no"} /\ pace = interval /\ failures = 0
    /\ timers = NoTimer /\ flights = {} /\ state = [status |-> "idle", data |-> None]
    /\ view \in Views /\ debounce = None /\ mover = "program" /\ since = 0 /\ acts = 0

\* setInterval's callback.
Fire ==
    /\ \E i \in timers.running :
        /\ i.left = 0
        /\ timers' = [timers EXCEPT !.running = (@ \ {i}) \cup {[i EXCEPT !.left = i.period]}]
    /\ Load(flights, view) /\ state' = Loading(state)
    /\ UNCHANGED <<renewing, interval, on, hidden, pace, failures, view, debounce, mover, acts>>

\* Mutant of Ignored: the answer is used whatever was sent after it.
IgnoredWhenDisposed(f) == f.disposed = "yes"

\* The check after the await.
Ignored(f) == f.disposed = "yes" \/ f.behind # 0

\* Mutant of Recovered: the interval stays as long as the back-off made it.
RecoveredLate == timers

\* The interval once a fetch has succeeded.
Recovered == IF failures > 0 THEN RestartIntervalIfRunning(timers, pace) ELSE timers

Succeeds(f) ==
    /\ f \in flights
    /\ flights' = flights \ {f}
    /\ IF Ignored(f)
       THEN UNCHANGED <<state, failures, timers>>
       ELSE /\ state' = [status |-> "ready", data |-> f.view]
            /\ failures' = 0
            /\ timers' = Recovered
    /\ UNCHANGED <<renewing, interval, on, hidden, pace, view, debounce, mover, since, acts>>

\* A refusal, a failed fetch, or a map that has no size yet (mapToBboxQuery).
Fails(f) ==
    /\ f \in flights
    /\ flights' = flights \ {f}
    /\ IF Ignored(f)
       THEN UNCHANGED <<state, failures, timers>>
       ELSE /\ state' = [state EXCEPT !.status = "error"]
            /\ failures' = Failed(failures)
            /\ timers' = RestartIntervalIfRunning(timers, CurrentInterval(pace, failures'))
    /\ UNCHANGED <<renewing, interval, on, hidden, pace, view, debounce, mover, since, acts>>

\* refresh(): counts no failure so far, and gives the answer a whole interval.
Refreshed ==
    /\ failures' = 0 /\ Load(flights, view) /\ state' = Loading(state)
    /\ timers' = RestartIntervalIfRunning(timers, pace)

Act == acts < MaxActs /\ acts' = acts + 1

Hide ==
    /\ Act /\ hidden = "no" /\ hidden' = "yes"
    /\ timers' = StopInterval(timers)
    /\ UNCHANGED <<renewing, interval, on, pace, failures, flights, state, view, debounce, mover, since>>

Show ==
    /\ Act /\ hidden = "yes" /\ hidden' = "no"
    /\ IF on = "no"
       THEN UNCHANGED <<failures, flights, since, state, timers>>
       ELSE /\ failures' = 0 /\ Load(flights, view) /\ state' = Loading(state)
            /\ timers' = StartInterval(timers, pace)
    /\ UNCHANGED <<renewing, interval, on, pace, view, debounce, mover>>

-------------------------------------------------------------------------------
(* The layer. *)

\* mountWhileEnabled, the setting switched on.
Enable ==
    /\ Act /\ on = "no" /\ Create(flights, interval)
    /\ UNCHANGED <<renewing, interval, hidden, view, debounce, mover>>

\* The setting switched off: the listener to the map's moves goes with the resource.
Disable ==
    /\ Act /\ on = "yes" /\ on' = "no"
    /\ flights' = Abandoned(flights) /\ timers' = StopInterval(timers) /\ debounce' = None
    /\ UNCHANGED <<renewing, interval, hidden, pace, failures, state, view, mover, since>>

\* resourceWithDynamicInterval's effect; the other layers keep the interval they mounted with.
ChooseInterval(i) ==
    /\ Act /\ i # interval /\ interval' = i
    /\ IF on = "yes" /\ renewing = "yes"
       THEN Create(Abandoned(flights), i)
       ELSE UNCHANGED <<on, pace, failures, timers, flights, state, since>>
    /\ UNCHANGED <<renewing, hidden, view, debounce, mover>>

\* Species: a change of the window of days is fetched at once.
ChooseDays ==
    /\ Act /\ on = "yes" /\ Refreshed
    /\ UNCHANGED <<renewing, interval, on, hidden, pace, view, debounce, mover>>

\* moveend of a move the visitor makes.
Drag(where) ==
    /\ Act /\ hidden = "no" /\ where # view /\ view' = where /\ mover' = "visitor"
    /\ debounce' = IF on = "yes" THEN Debounce ELSE debounce
    /\ UNCHANGED <<renewing, interval, on, hidden, pace, timers, failures, flights, state, since>>

\* A recentring of the follow: moveend finds isProgrammaticMove().
Recentre(where) ==
    /\ Act /\ where # view /\ view' = where /\ mover' = "program"
    /\ UNCHANGED <<renewing, interval, on, hidden, pace, timers, failures, flights, state, debounce, since>>

RefetchAfterMove ==
    /\ debounce = 0 /\ debounce' = None /\ Refreshed
    /\ UNCHANGED <<renewing, interval, on, hidden, pace, view, mover, acts>>

\* Time passes once what is due has happened.
Tick ==
    /\ debounce # 0
    /\ \A i \in timers.running : i.left > 0
    /\ \A f \in flights : f.left > 0
    /\ timers' = [timers EXCEPT !.running = {[i EXCEPT !.left = @ - 1] : i \in @}]
    /\ flights' = {[f EXCEPT !.left = @ - 1] : f \in flights}
    /\ debounce' = IF debounce = None THEN None ELSE debounce - 1
    /\ since' = IF on = "no" \/ hidden = "yes" THEN 0 ELSE since + 1
    /\ UNCHANGED <<renewing, interval, on, hidden, pace, failures, state, view, mover, acts>>

ResourceNext ==
    \/ Fire \/ RefetchAfterMove
    \/ \E f \in flights : Succeeds(f)
    \/ \E f \in flights : Fails(f)
    \/ Hide \/ Show \/ Enable \/ Disable \/ ChooseDays
    \/ \E i \in Intervals : ChooseInterval(i)
    \/ \E v \in Views : Drag(v)
    \/ \E v \in Views : Recentre(v)
    \/ Tick

ResourceSpec == ResourceInit /\ [][ResourceNext]_resourceVars

-------------------------------------------------------------------------------
(* Correctness. *)

\* Whatever order the page is hidden and shown in, fetches fail and the layer is switched: one
\* interval runs while a mounted layer can be seen, and none runs otherwise.
OneTimer ==
    IF on = "yes" /\ hidden = "no"
    THEN \E i \in timers.running : timers.running = {i} /\ timers.handle = i.handle
    ELSE timers = NoTimer

\* A layer in sight that shows an answer asks again within its poll interval of it, however long
\* the failures before that answer had made the wait; one that fails, within the ceiling.
PolledOnTime ==
    on = "yes" /\ hidden = "no" =>
        since <= Latency + (IF state.status = "ready" THEN pace ELSE pace * Factor)

\* Once the visitor has left the map alone and nothing is out, what is drawn was fetched for
\* what is in sight, whichever answer came last.
ViewIsFetched ==
    \/ on = "no" \/ mover = "program" \/ debounce # None \/ state.status # "ready"
    \/ \E f \in flights : f.disposed = "no"
    \/ state.data = view

===============================================================================
