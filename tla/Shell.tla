------------------------------- MODULE Shell -------------------------------
(***************************************************************************)
(* The browser shell (src/web/shell/AppShell.ts) with its slideshow        *)
(* (autoCycle.ts), its idle reset (idle.ts) and the hash router            *)
(* (core/router.ts): which page is mounted, which is sliding in, what the  *)
(* address says and which timers run.  Visitors tap, pause and follow a    *)
(* vessel, settings change, the position of the device moves, timers fire  *)
(* and hashchange events are dispatched, in any order the browser's event  *)
(* loop allows.  Time is a count of ticks left on each running timer.      *)
(***************************************************************************)
EXTENDS Integers, Sequences, FiniteSets

CONSTANTS
    CycleOrder,     \* the pages of the slideshow, in display order
    Home,           \* the page of the address "#/", the map
    Others,         \* routes the slideshow never visits, the settings page among them
    Root,           \* the address "#/", which names the same route as "#/map"
    Readers,        \* routes whose page reads the device's position as it renders
    Choices,        \* the settings this display may be given
    Longest,        \* the longest interval any of them asks for
    PREWARM, SLIDE, \* the two timers of a slide, in ticks
    None,           \* no timer, no page
    MaxActs         \* bound: what visitors, settings and positions do in a run

Routes == {CycleOrder[i] : i \in DOMAIN CycleOrder} \cup Others
Hashes == Routes \cup {Root}

ASSUME ShellAssumption ==
    /\ CycleOrder \in Seq(Routes)
    /\ Home \in Routes
    /\ Root \notin Routes
    /\ None \notin Routes /\ None \notin Int
    /\ PREWARM \in Nat /\ SLIDE \in Nat /\ Longest \in Nat /\ MaxActs \in Nat

\* The part of Settings the shell reads: autoCycle.enabled, .intervalSeconds and
\* .pages, enabledPages and idleResetSeconds (0: no idle reset).
ASSUME ChoicesAssumption ==
    /\ Choices \subseteq [on : {"on", "off"}, interval : Nat \ {0}, pages : SUBSET Routes,
                          enabled : SUBSET Routes, idle : Nat]
    /\ \A s \in Choices : s.interval <= Longest

VARIABLES
    hash,       \* location.hash
    events,     \* hashchange events queued and not yet dispatched
    route,      \* currentRoute, the router's signal
    page,       \* the page disposePage would dispose of
    mounted,    \* mountedRoute
    slide,      \* the slide in flight
    live,       \* how often each page is rendered and not disposed of
    tracked,    \* does the route effect also listen to the position?
    settings,   \* the settings this display runs on
    paused,     \* autoCyclePaused: the visitor's own pause
    held,       \* is a follow holding the slideshow?
    armed,      \* lastArmedKey
    timer,      \* ticks to the slideshow's next fire
    idleArmed,  \* lastArmedSeconds of the idle reset
    idleTimer,  \* ticks to the idle reset
    asked,      \* is a change of the device's position under way?
    wish,       \* history: the route a visitor asked for last, until it is dispatched
    shownFor,   \* history: ticks the route has been current with the slideshow running
    acts        \* history: what has been done, for the bound

pageVars  == <<page, mounted, slide, live, tracked>>
cycleVars == <<armed, timer>>
idleVars  == <<idleArmed, idleTimer>>
inputVars == <<settings, paused, held>>
vars == <<hash, events, route, pageVars, inputVars, cycleVars, idleVars, asked, wish,
          shownFor, acts>>

NoSlide == [phase |-> "none", target |-> None, publish |-> "no", left |-> 0]
Slides == [phase : {"warming", "sliding"}, target : Routes, publish : {"yes", "no"},
           left : Nat]

TypeOK ==
    /\ hash \in Hashes /\ events \in Nat /\ route \in Routes
    /\ page \in Routes /\ mounted \in Routes
    /\ slide \in Slides \cup {NoSlide}
    /\ live \in [Routes -> Nat]
    /\ tracked \in {"yes", "no"}
    /\ settings \in Choices /\ paused \in {"yes", "no"} /\ held \in {"yes", "no"}
    /\ timer \in Nat \cup {None} /\ idleTimer \in Nat \cup {None} /\ idleArmed \in Nat
    /\ asked \in {"yes", "no"} /\ wish \in Routes \cup {None}
    /\ shownFor \in 0..Longest /\ acts \in 0..MaxActs

-----------------------------------------------------------------------------
(* Addresses. *)

\* parseHash: the route an address names.
RouteOf(h) == IF h = Root THEN Home ELSE h

\* Assigning location.hash: an event is queued only when the address changes.
SetHash(h) ==
    /\ hash' = h
    /\ events' = IF h = hash THEN events ELSE events + 1

-----------------------------------------------------------------------------
(* The slideshow. *)

\* Where in the cycling order the eligible pages stand: the requested ones that are
\* enabled, every enabled one when none is requested.
Eligible(s) ==
    LET requested == IF s.pages # {} THEN s.pages ELSE s.enabled
    IN  {i \in DOMAIN CycleOrder : CycleOrder[i] \in requested \cap s.enabled}

\* nextCycleRoute: the next page in a set of its own, the empty set for null.
NextCycleRoute(current, s) ==
    LET eligible == Eligible(s)
        later == {i \in eligible : \E c \in eligible : CycleOrder[c] = current /\ c < i}
        ahead == IF later # {} THEN later ELSE eligible
    IN  IF s.on = "off" \/ Cardinality(eligible) < 2
        THEN {}
        ELSE {CycleOrder[i] : i \in {i \in ahead : \A j \in ahead : i <= j}}

CanCycle(r, s) == NextCycleRoute(r, s) # {}

Stopped(p, h) == p = "yes" \/ h = "yes"

\* Mutant of ArmKey: without the route the interval is a metronome and not the page's own.
ArmKeyNoRoute(r, s, p, h) ==
    <<s.on, s.interval, s.pages, IF Stopped(p, h) THEN "stopped" ELSE "running",
      IF CanCycle(r, s) THEN "can" ELSE "cannot">>

\* armKey: what re-arms the timer when it changes.
ArmKey(r, s, p, h) ==
    <<s.on, s.interval, s.pages, r, IF Stopped(p, h) THEN "stopped" ELSE "running",
      IF CanCycle(r, s) THEN "can" ELSE "cannot">>

\* arm: the ticks a freshly armed timer has left, None when none is set.
Arm(r, s, p, h) ==
    IF s.on = "on" /\ CanCycle(r, s) /\ ~Stopped(p, h) THEN s.interval ELSE None

\* startAutoCycle's effect, once its inputs are what they are now: a change of
\* anything but the key leaves the running timer alone.
RunCycleEffect(r, s, p, h) ==
    /\ armed' = ArmKey(r, s, p, h)
    /\ timer' = IF armed' = armed THEN timer ELSE Arm(r, s, p, h)

-----------------------------------------------------------------------------
(* Mounting and sliding. *)

Rendered(l, r) == [l EXCEPT ![r] = @ + 1]
Disposed(l, r) == [l EXCEPT ![r] = @ - 1]

\* What the route effect listens to once it has rendered r: every signal the page
\* reads while it renders, because the effect is still the active tracker.
Tracks(r) == IF r \in Readers THEN "yes" ELSE "no"

\* Mutant of Release: the follow outlives its map.
ReleaseNever(gone) == held' = held

\* A map page disposed of ends the follow, and with it the hold on the slideshow.
Release(gone) == held' = IF Home \in gone THEN "no" ELSE held

\* mountNow: replaces the page in place.
MountNow(r) ==
    /\ page' = r
    /\ mounted' = r
    /\ Release({page})
    /\ live' = Rendered(Disposed(live, page), r)
    /\ UNCHANGED slide

\* slideTo, past its check that no slide is in flight: the outgoing page stays
\* mounted beside the incoming one.
SlideTo(r, prewarm, publish) ==
    /\ slide' = [phase |-> "warming", target |-> r, publish |-> publish, left |-> prewarm]
    /\ mounted' = r
    /\ live' = Rendered(live, r)
    /\ UNCHANGED <<page, held>>

\* Mutant of CancelAndMount: the incoming page is left alive.
CancelLeaking(r) ==
    /\ page' = r
    /\ mounted' = r
    /\ slide' = NoSlide
    /\ Release({page})
    /\ live' = Rendered(Disposed(live, page), r)

\* cancelActiveTransition and the mount that follows it: both pages of the slide are
\* disposed of.
CancelAndMount(r) ==
    /\ page' = r
    /\ mounted' = r
    /\ slide' = NoSlide
    /\ Release({slide.target, page})
    /\ live' = Rendered(Disposed(Disposed(live, slide.target), page), r)

\* Mutant of RunRouteEffect: every change during a slide is ignored.
RunRouteEffectDeaf(r) ==
    \/ /\ slide.phase # "none"
       /\ tracked' = "no"
       /\ UNCHANGED <<page, mounted, slide, live, held>>
    \/ /\ slide.phase = "none" /\ r = mounted
       /\ MountNow(r)
       /\ tracked' = Tracks(r)
    \/ /\ slide.phase = "none" /\ r # mounted
       /\ SlideTo(r, 0, "no")
       /\ tracked' = Tracks(r)

\* The route effect, with currentRoute at r.
RunRouteEffect(r) ==
    \/ /\ slide.phase # "none" /\ r = slide.target
       /\ tracked' = "no"
       /\ UNCHANGED <<page, mounted, slide, live, held>>
    \/ /\ slide.phase # "none" /\ r # slide.target
       /\ CancelAndMount(r)
       /\ tracked' = Tracks(r)
    \/ /\ slide.phase = "none" /\ r = mounted
       /\ MountNow(r)
       /\ tracked' = Tracks(r)
    \/ /\ slide.phase = "none" /\ r # mounted
       /\ SlideTo(r, 0, "no")
       /\ tracked' = Tracks(r)

-----------------------------------------------------------------------------
(* What happens. *)

\* The idle timer as arm() sets it.
IdleArm(seconds) == IF seconds = 0 THEN None ELSE seconds

\* main.ts: the first page is mounted at once, then the slideshow and the idle reset
\* start.
Init ==
    /\ hash \in Hashes
    /\ events = 0
    /\ route = RouteOf(hash)
    /\ page = route /\ mounted = route
    /\ slide = NoSlide
    /\ live = [r \in Routes |-> IF r = route THEN 1 ELSE 0]
    /\ tracked = Tracks(route)
    /\ settings \in Choices
    /\ paused = "no" /\ held = "no"
    /\ armed = ArmKey(route, settings, paused, held)
    /\ timer = Arm(route, settings, paused, held)
    /\ idleArmed = settings.idle
    /\ idleTimer = IdleArm(settings.idle)
    /\ asked = "no"
    /\ wish = None
    /\ shownFor = 0
    /\ acts = 0

Act == acts < MaxActs /\ acts' = acts + 1

\* A visitor touches a link: activity, and an address, which may be the one showing.
Tap(h) ==
    /\ Act
    /\ SetHash(h)
    /\ wish' = IF h = hash THEN wish ELSE RouteOf(h)
    /\ idleTimer' = IdleArm(settings.idle)
    /\ UNCHANGED <<route, pageVars, inputVars, cycleVars, idleArmed, asked, shownFor>>

\* The masthead's play/pause control.
TogglePause ==
    /\ Act
    /\ paused' = IF paused = "yes" THEN "no" ELSE "yes"
    /\ idleTimer' = IdleArm(settings.idle)
    /\ RunCycleEffect(route, settings, paused', held)
    /\ UNCHANGED <<hash, events, route, pageVars, settings, held, idleArmed,
                   asked, wish, shownFor>>

\* A follow on the map takes a hold on the slideshow, or lets go of it.
ToggleHold ==
    /\ Act
    /\ live[Home] > 0
    /\ held' = IF held = "yes" THEN "no" ELSE "yes"
    /\ RunCycleEffect(route, settings, paused, held')
    /\ UNCHANGED <<hash, events, route, pageVars, settings, paused, idleVars,
                   asked, wish, shownFor>>

\* Mutant of PollSettings: the idle timer is re-armed whatever the poll brings.
PollRearming(s) ==
    /\ \/ s = settings /\ UNCHANGED acts
       \/ s # settings /\ Act
    /\ settings' = s
    /\ RunCycleEffect(route, s, paused, held)
    /\ idleArmed' = s.idle
    /\ idleTimer' = IdleArm(s.idle)
    /\ UNCHANGED <<hash, events, route, pageVars, paused, held, asked, wish, shownFor>>

\* The settings poll brings s, which is most often what the display already has.
PollSettings(s) ==
    /\ \/ s = settings /\ UNCHANGED acts
       \/ s # settings /\ Act
    /\ settings' = s
    /\ RunCycleEffect(route, s, paused, held)
    /\ idleArmed' = s.idle
    /\ idleTimer' = IF s.idle = idleArmed THEN idleTimer ELSE IdleArm(s.idle)
    /\ UNCHANGED <<hash, events, route, pageVars, paused, held, asked, wish, shownFor>>

\* On the map or the settings page somebody asks for this device's position, or saves
\* one: the answer may come at any time, on whatever page is then showing.
AskPosition ==
    /\ Act
    /\ \E r \in {Home} \cup Others : live[r] > 0
    /\ asked' = "yes"
    /\ idleTimer' = IdleArm(settings.idle)
    /\ UNCHANGED <<hash, events, route, pageVars, inputVars, cycleVars, idleArmed, wish,
                   shownFor>>

\* It comes and changes the position override: the route effect runs again if the page
\* it rendered last reads the position.
MovePosition ==
    /\ asked = "yes"
    /\ asked' = "no"
    /\ \/ /\ tracked = "yes"
          /\ RunRouteEffect(route)
          /\ RunCycleEffect(route, settings, paused, held')
       \/ tracked = "no" /\ UNCHANGED <<pageVars, held, cycleVars>>
    /\ UNCHANGED <<hash, events, route, settings, paused, idleVars, wish, shownFor, acts>>

\* The router's listener: the route is what the address says now, not what it said
\* when the event was queued.
HashChange ==
    /\ events > 0
    /\ events' = events - 1
    /\ route' = RouteOf(hash)
    /\ RunRouteEffect(route')
    /\ RunCycleEffect(route', settings, paused, held')
    /\ wish' = IF route' = wish THEN None ELSE wish
    /\ shownFor' = IF route' = route THEN shownFor ELSE 0
    /\ UNCHANGED <<hash, settings, paused, idleVars, asked, acts>>

\* The prewarm timer: an auto-cycle publishes its route, then the pages start to move.
StartSliding ==
    /\ slide.phase = "warming" /\ slide.left = 0
    /\ slide' = [phase |-> "sliding", target |-> slide.target, publish |-> slide.publish,
                 left |-> SLIDE]
    /\ \/ /\ slide.publish = "no"
          /\ UNCHANGED <<hash, events, route, tracked, cycleVars, shownFor>>
       \/ /\ slide.publish = "yes"
          /\ SetHash(slide.target)
          /\ route' = slide.target
          /\ tracked' = "no"
          /\ RunCycleEffect(route', settings, paused, held)
          /\ shownFor' = IF route' = route THEN shownFor ELSE 0
    /\ UNCHANGED <<page, mounted, live, inputVars, idleVars, asked, wish, acts>>

\* The finish timer: the outgoing page is disposed of and the incoming one takes over.
FinishSlide ==
    /\ slide.phase = "sliding" /\ slide.left = 0
    /\ page' = slide.target
    /\ live' = Disposed(live, page)
    /\ slide' = NoSlide
    /\ Release({page})
    /\ RunCycleEffect(route, settings, paused, held')
    /\ UNCHANGED <<hash, events, route, mounted, tracked, settings, paused, idleVars,
                   asked, wish, shownFor, acts>>

\* The slideshow's interval comes round: a slide already in flight is left alone.
Fire ==
    /\ timer = 0
    /\ timer' = settings.interval
    /\ \/ \E next \in NextCycleRoute(route, settings) :
            slide.phase = "none" /\ SlideTo(next, PREWARM, "yes")
       \/ /\ slide.phase # "none" \/ ~CanCycle(route, settings)
          /\ UNCHANGED <<page, mounted, slide, live, held>>
    /\ UNCHANGED <<hash, events, route, tracked, settings, paused, armed, idleVars,
                   asked, wish, shownFor, acts>>

\* The idle reset: its event ends a follow, then the address goes home.
IdleReset ==
    /\ idleTimer = 0
    /\ idleTimer' = None
    /\ held' = "no"
    /\ RunCycleEffect(route, settings, paused, held')
    /\ SetHash(Root)
    /\ UNCHANGED <<route, pageVars, settings, paused, idleArmed, asked, wish, shownFor, acts>>

Less(t) == IF t = None THEN None ELSE t - 1

\* A tick passes once every timer that is due has fired and every event is dispatched.
Tick ==
    /\ events = 0 /\ timer # 0 /\ idleTimer # 0
    /\ slide.phase = "none" \/ slide.left > 0
    /\ timer' = Less(timer)
    /\ idleTimer' = Less(idleTimer)
    /\ slide' = IF slide.phase = "none" THEN slide ELSE [slide EXCEPT !.left = @ - 1]
    /\ shownFor' = IF Stopped(paused, held) THEN 0
                   ELSE IF shownFor < Longest THEN shownFor + 1 ELSE shownFor
    /\ UNCHANGED <<hash, events, route, page, mounted, live, tracked, inputVars, armed,
                   idleArmed, asked, wish, acts>>

Next ==
    \/ \E h \in Hashes : Tap(h)
    \/ TogglePause
    \/ ToggleHold
    \/ \E s \in Choices : PollSettings(s)
    \/ AskPosition
    \/ MovePosition
    \/ HashChange
    \/ StartSliding
    \/ FinishSlide
    \/ Fire
    \/ IdleReset
    \/ Tick

Spec == Init /\ [][Next]_vars

\* The browser dispatches queued events, fires due timers and lets time pass.
FairSpec ==
    Spec /\ WF_vars(HashChange) /\ WF_vars(StartSliding) /\ WF_vars(FinishSlide)
         /\ WF_vars(Fire) /\ WF_vars(IdleReset) /\ WF_vars(Tick)

-----------------------------------------------------------------------------
(* What the shell promises. *)

\* Every page rendered is disposed of exactly once: what is alive at any moment is the
\* page showing and, during a slide, the one sliding in (AppShell.ts:6-12).
NoPageLeaks ==
    \A r \in Routes :
        live[r] = (IF r = page THEN 1 ELSE 0) + (IF r = slide.target THEN 1 ELSE 0)

\* However taps, cycles and resets cross, once no slide is in flight and no event is
\* queued the page on screen, the route and the address agree (AppShell.ts:133-238).
QuietMeansShown ==
    slide.phase = "none" /\ events = 0 => page = route /\ route = RouteOf(hash)

\* A follow's hold does not outlive the map it is on, whichever way the map goes
\* (map/layers.ts:298, follow.ts:353-358).
HoldEndsWithTheMap == held = "yes" => live[Home] > 0

\* The slideshow's timer runs exactly while it is switched on, has somewhere to go and
\* is neither paused nor held (autoCycle.ts:192-223).
SlideshowIsArmed ==
    timer # None <=> settings.on = "on" /\ CanCycle(route, settings) /\ ~Stopped(paused, held)

\* The slideshow moves on only from a page that has been current, with the slideshow
\* running, for the whole interval now asked for (autoCycle.ts:171-177).
PageGetsItsInterval ==
    [][slide.phase = "none" /\ slide'.publish = "yes" =>
        ~Stopped(paused, held) /\ shownFor >= settings.interval]_vars

\* A running idle timer fires, or is switched off, however often the settings are
\* polled: once visitors have left nothing puts it off (idle.ts:39-45).
IdleResetComes == idleTimer # None ~> idleTimer = None

\* A visitor's navigation is never silently lost (AppShell.ts:31-38): until its event is
\* dispatched the address still says what the visitor asked for.  The code does not keep
\* this: an auto-cycle that publishes its own route in between overwrites the address.
NavigationIsKept == wish # None => RouteOf(hash) = wish

=============================================================================
