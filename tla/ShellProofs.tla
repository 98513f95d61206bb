---------------------------- MODULE ShellProofs ----------------------------
(***************************************************************************)
(* What Shell promises, proved for every set of routes, every set of       *)
(* settings and every length of the timers.                                *)
(***************************************************************************)
EXTENDS Shell, TLAPS

\* The pages alive are those mounted, and a hold needs a live map.
PagesInv ==
    /\ page \in Routes
    /\ mounted = (IF slide.phase = "none" THEN page ELSE slide.target)
    /\ slide \in Slides \cup {NoSlide}
    /\ live \in [Routes -> Nat]
    /\ tracked \in {"yes", "no"}
    /\ held \in {"yes", "no"}
    /\ NoPageLeaks
    /\ HoldEndsWithTheMap

\* Where the route points: at the page, or at the page sliding in once it is published.
RouteInv ==
    /\ hash \in Hashes /\ events \in Nat /\ route \in Routes
    /\ events = 0 => route = RouteOf(hash)
    /\ slide.phase = "none" => page = route
    /\ slide.phase = "sliding" \/ (slide.phase = "warming" /\ slide.publish = "no") =>
        route = slide.target

\* The key is the one of the present inputs, and the timer is what that key asks for.
ArmInv ==
    /\ settings \in Choices /\ paused \in {"yes", "no"}
    /\ armed = ArmKey(route, settings, paused, held)
    /\ timer \in Nat \cup {None}
    /\ SlideshowIsArmed

\* What the timer has left and what the page has had make up the interval.
IntervalInv ==
    /\ shownFor \in 0..Longest
    /\ timer # None => timer + shownFor >= settings.interval

\* The rest of the types.
RestInv ==
    /\ idleTimer \in Nat \cup {None} /\ idleArmed \in Nat
    /\ asked \in {"yes", "no"} /\ wish \in Routes \cup {None}
    /\ acts \in 0..MaxActs

ShellInv == PagesInv /\ RouteInv /\ ArmInv /\ IntervalInv /\ RestInv

-----------------------------------------------------------------------------
(* The operators. *)

\* Every address names a route.
LEMMA RouteOfType == \A h \in Hashes : RouteOf(h) \in Routes
  BY ShellAssumption DEF RouteOf, Hashes

\* The slideshow only ever goes to a route.
LEMMA NextIsRoute == \A r, s : NextCycleRoute(r, s) \subseteq Routes
  BY DEF NextCycleRoute, Eligible, Routes

\* What any choice of settings holds.
LEMMA ChoiceType ==
  ASSUME NEW s \in Choices
  PROVE  s.interval \in Nat /\ s.interval > 0 /\ s.interval <= Longest /\ s.idle \in Nat
  BY ChoicesAssumption

\* Equal keys ask for the same timer.
LEMMA KeyDecides ==
  ASSUME NEW r, NEW s, NEW p, NEW h, NEW r2, NEW s2, NEW p2, NEW h2,
         ArmKey(r, s, p, h) = ArmKey(r2, s2, p2, h2)
  PROVE  /\ r = r2 /\ s.on = s2.on /\ s.interval = s2.interval
         /\ Stopped(p, h) <=> Stopped(p2, h2)
         /\ CanCycle(r, s) <=> CanCycle(r2, s2)
  BY DEF ArmKey

\* An arming sets a timer exactly when the slideshow may run.
LEMMA ArmDecides ==
  ASSUME NEW r, NEW s \in Choices, NEW p, NEW h
  PROVE  /\ Arm(r, s, p, h) \in Nat \cup {None}
         /\ Arm(r, s, p, h) # None <=> s.on = "on" /\ CanCycle(r, s) /\ ~Stopped(p, h)
         /\ Arm(r, s, p, h) # None => Arm(r, s, p, h) = s.interval
  BY ChoiceType, ShellAssumption DEF Arm

\* The slideshow's effect brings key and timer in line with what its inputs become, and
\* re-arms in full whenever the route changes.
LEMMA CycleEffect ==
  ASSUME ArmInv, IntervalInv, settings' \in Choices, paused' \in {"yes", "no"},
         RunCycleEffect(route', settings', paused', held'),
         shownFor' \in 0..Longest, shownFor' # shownFor => route' # route
  PROVE  ArmInv' /\ IntervalInv'
<1>1. CASE armed' = armed
  <2>1. ArmKey(route', settings', paused', held') = ArmKey(route, settings, paused, held)
    BY <1>1 DEF RunCycleEffect, ArmInv
  <2>2. /\ route' = route /\ settings'.on = settings.on
        /\ settings'.interval = settings.interval
        /\ Stopped(paused', held') <=> Stopped(paused, held)
        /\ CanCycle(route', settings') <=> CanCycle(route, settings)
    BY <2>1, KeyDecides
  <2>3. timer' = timer /\ shownFor' = shownFor
    BY <1>1, <2>2 DEF RunCycleEffect
  <2>4. armed' = ArmKey(route', settings', paused', held') BY DEF RunCycleEffect
  <2>5. ArmInv' BY <2>2, <2>3, <2>4 DEF ArmInv, SlideshowIsArmed
  <2>6. IntervalInv' BY <2>2, <2>3 DEF IntervalInv
  <2> QED BY <2>5, <2>6
<1>2. CASE armed' # armed
  <2>1. timer' = Arm(route', settings', paused', held')
    BY <1>2 DEF RunCycleEffect
  <2>2. ArmInv'
    BY <2>1, ArmDecides DEF ArmInv, SlideshowIsArmed, RunCycleEffect
  <2>3. IntervalInv'
    <3>1. timer' # None => timer' = settings'.interval BY <2>1, ArmDecides
    <3>2. settings'.interval \in Nat BY ChoiceType
    <3> QED BY <3>1, <3>2, ShellAssumption DEF IntervalInv
  <2> QED BY <2>2, <2>3
<1> QED BY <1>1, <1>2

\* A slide under way, as a record.
LEMMA SlideShape ==
  ASSUME slide \in Slides \cup {NoSlide}
  PROVE  /\ slide.phase = "none" => slide = NoSlide /\ slide.target = None
                                    /\ slide.publish = "no"
         /\ slide.phase # "none" => slide \in Slides /\ slide.target \in Routes
         /\ slide.phase \in {"none", "warming", "sliding"}
  BY DEF Slides, NoSlide

\* The route effect leaves the pages in order, and r showing or sliding in.
LEMMA RouteEffect ==
  ASSUME PagesInv, NEW r \in Routes, RunRouteEffect(r)
  PROVE  /\ PagesInv'
         /\ slide'.phase = "none" => page' = r
         /\ slide'.phase # "none" => slide'.target = r
         /\ slide' = slide \/ slide'.publish = "no"
<1> USE ShellAssumption
<1>0. Tracks(r) \in {"yes", "no"} BY DEF Tracks
<1>1. CASE slide.phase # "none" /\ r = slide.target
  BY <1>1 DEF RunRouteEffect, PagesInv, NoPageLeaks, HoldEndsWithTheMap
<1>2. CASE slide.phase # "none" /\ r # slide.target
  <2>1. CancelAndMount(r) /\ tracked' = Tracks(r) BY <1>2 DEF RunRouteEffect
  <2>2. \A q \in Routes : live'[q] = IF q = r THEN 1 ELSE 0
    <3>1. slide.target \in Routes /\ page \in Routes BY <1>2, SlideShape DEF PagesInv
    <3>2. live' = [[[live EXCEPT ![slide.target] = @ - 1] EXCEPT ![page] = @ - 1]
                    EXCEPT ![r] = @ + 1]
      BY <2>1 DEF CancelAndMount, Rendered, Disposed
    <3>3. live \in [Routes -> Nat] BY DEF PagesInv
    <3>4. \A q \in Routes :
            live'[q] = live[q] - (IF q = slide.target THEN 1 ELSE 0)
                               - (IF q = page THEN 1 ELSE 0) + (IF q = r THEN 1 ELSE 0)
      BY <3>1, <3>2, <3>3
    <3>5. \A q \in Routes :
            live[q] = (IF q = page THEN 1 ELSE 0) + (IF q = slide.target THEN 1 ELSE 0)
      BY DEF PagesInv, NoPageLeaks
    <3> QED BY <3>4, <3>5
  <2>3. live' \in [Routes -> Nat]
    BY <1>2, <2>1, <2>2, SlideShape DEF CancelAndMount, Rendered, Disposed, PagesInv
  <2>4. slide' = NoSlide /\ slide'.phase = "none" /\ slide'.target = None
        /\ slide'.publish = "no"
    BY <2>1 DEF CancelAndMount, NoSlide
  <2>5. NoPageLeaks' BY <2>1, <2>2, <2>4 DEF NoPageLeaks, CancelAndMount
  <2>6. held' \in {"yes", "no"} /\ (held' = "yes" => Home \notin {slide.target, page})
    BY <2>1 DEF CancelAndMount, Release, PagesInv
  <2>7. held' = "no"
    BY <1>2, <2>1, <2>6 DEF CancelAndMount, Release, PagesInv, HoldEndsWithTheMap, NoPageLeaks
  <2> QED BY <1>0, <2>1, <2>3, <2>4, <2>5, <2>7
          DEF PagesInv, CancelAndMount, HoldEndsWithTheMap
<1>3. CASE slide.phase = "none" /\ r = mounted
  <2>1. MountNow(r) /\ tracked' = Tracks(r) BY <1>3 DEF RunRouteEffect
  <2>2. page = r /\ slide' = slide /\ slide.target = None /\ slide.publish = "no"
    BY <1>3, <2>1, SlideShape DEF MountNow, PagesInv
  <2>3. live' = live
    BY <2>1, <2>2 DEF MountNow, Rendered, Disposed, PagesInv
  <2>4. held' \in {"yes", "no"} /\ (held' = "yes" => held = "yes")
    BY <2>1 DEF MountNow, Release, PagesInv
  <2> QED BY <1>0, <1>3, <2>1, <2>2, <2>3, <2>4
          DEF PagesInv, MountNow, NoPageLeaks, HoldEndsWithTheMap
<1>4. CASE slide.phase = "none" /\ r # mounted
  <2>1. SlideTo(r, 0, "no") /\ tracked' = Tracks(r) BY <1>4 DEF RunRouteEffect
  <2>2. PagesInv' /\ slide'.phase = "warming" /\ slide'.target = r /\ slide'.publish = "no"
    <3>1. slide' \in Slides /\ slide'.phase = "warming" /\ slide'.target = r
          /\ slide'.publish = "no"
      BY <2>1 DEF SlideTo, Slides
    <3>2. live' \in [Routes -> Nat] BY <2>1 DEF SlideTo, Rendered, PagesInv
    <3>3. NoPageLeaks'
      <4>1. slide.target = None BY <1>4, SlideShape DEF PagesInv
      <4>2. \A q \in Routes : live'[q] = live[q] + (IF q = r THEN 1 ELSE 0)
        BY <2>1 DEF SlideTo, Rendered, PagesInv
      <4>3. /\ page' = page /\ slide'.target = r /\ None \notin Routes
            /\ \A q \in Routes : live[q] = (IF q = page THEN 1 ELSE 0) + (IF q = slide.target THEN 1 ELSE 0)
        BY <2>1, <3>1 DEF SlideTo, PagesInv, NoPageLeaks
      <4> QED
        <5> SUFFICES ASSUME NEW q \in Routes
                     PROVE  live'[q] = (IF q = page' THEN 1 ELSE 0) + (IF q = slide'.target THEN 1 ELSE 0)
          BY DEF NoPageLeaks
        <5>1. live[q] = IF q = page THEN 1 ELSE 0
          BY <4>1, <4>3
        <5> QED
          BY <4>2, <4>3, <5>1
    <3>4. HoldEndsWithTheMap'
      BY <2>1, <3>2 DEF SlideTo, Rendered, PagesInv, HoldEndsWithTheMap
    <3> QED BY <1>0, <2>1, <3>1, <3>2, <3>3, <3>4 DEF SlideTo, PagesInv
  <2> QED BY <2>2
<1> QED BY <1>1, <1>2, <1>3, <1>4 DEF RunRouteEffect

-----------------------------------------------------------------------------
(* The steps. *)

\* Setting the address keeps it an address and, where it changes it, queues an event.
LEMMA SetHashType ==
  ASSUME hash \in Hashes, events \in Nat, NEW h \in Hashes, SetHash(h)
  PROVE  hash' = h /\ events' \in Nat /\ (events' = 0 => hash = h /\ events = 0)
  BY DEF SetHash

LEMMA InitInv == Init => ShellInv
<1> SUFFICES ASSUME Init PROVE ShellInv
  OBVIOUS
<1> USE ShellAssumption
<1>1. hash \in Hashes /\ route \in Routes /\ settings \in Choices
  BY RouteOfType DEF Init
<1>2. PagesInv
  BY <1>1 DEF Init, PagesInv, NoPageLeaks, HoldEndsWithTheMap, NoSlide, Tracks
<1>3. RouteInv BY <1>1 DEF Init, RouteInv, NoSlide
<1>4. ArmInv
  <2>1. timer = Arm(route, settings, paused, held) BY DEF Init
  <2>2. /\ timer \in Nat \cup {None}
        /\ timer # None <=>
             settings.on = "on" /\ CanCycle(route, settings) /\ ~Stopped(paused, held)
    BY <1>1, <2>1, ArmDecides
  <2> QED BY <1>1, <2>2 DEF Init, ArmInv, SlideshowIsArmed
<1>5. IntervalInv
  <2>1. timer # None => timer = settings.interval
    BY <1>1, ArmDecides DEF Init
  <2>2. settings.interval \in Nat BY <1>1, ChoiceType
  <2> QED BY <2>1, <2>2 DEF Init, IntervalInv
<1>6. RestInv BY <1>1, ChoiceType DEF Init, RestInv, IdleArm
<1> QED BY <1>2, <1>3, <1>4, <1>5, <1>6 DEF ShellInv

\* An idle timer is armed with ticks or not at all.
LEMMA IdleArmType == \A s \in Nat : IdleArm(s) \in Nat \cup {None}
  BY DEF IdleArm

LEMMA StepInv == ShellInv /\ [Next]_vars => ShellInv'
<1> SUFFICES ASSUME ShellInv, [Next]_vars PROVE ShellInv'
  OBVIOUS
<1> USE ShellAssumption
<1>0. PagesInv /\ RouteInv /\ ArmInv /\ IntervalInv /\ RestInv BY DEF ShellInv
<1>a. /\ settings.idle \in Nat /\ settings.interval \in Nat /\ settings.interval > 0
      /\ IdleArm(settings.idle) \in Nat \cup {None}
  BY <1>0, ChoiceType, IdleArmType DEF ArmInv
<1>b. ASSUME Act PROVE acts' \in 0..MaxActs
  BY <1>0, <1>b DEF Act, RestInv
<1>1. ASSUME NEW h \in Hashes, Tap(h) PROVE ShellInv'
  <2>1. PagesInv'
    BY <1>0, <1>1 DEF Tap, PagesInv, pageVars, inputVars, NoPageLeaks, HoldEndsWithTheMap
  <2>2. RouteInv'
    BY <1>0, <1>1, SetHashType DEF Tap, RouteInv, pageVars
  <2>3. ArmInv' /\ IntervalInv'
    BY <1>0, <1>1 DEF Tap, ArmInv, IntervalInv, SlideshowIsArmed, inputVars, cycleVars
  <2>4. RestInv'
    BY <1>0, <1>a, <1>b, <1>1, RouteOfType DEF Tap, RestInv
  <2> QED BY <2>1, <2>2, <2>3, <2>4 DEF ShellInv
<1>2. CASE TogglePause
  <2>1. PagesInv' /\ RouteInv'
    BY <1>0, <1>2 DEF TogglePause, PagesInv, RouteInv, pageVars, NoPageLeaks, HoldEndsWithTheMap
  <2>2. paused' \in {"yes", "no"} /\ settings' = settings /\ route' = route /\ held' = held
        /\ shownFor' = shownFor
    BY <1>2 DEF TogglePause
  <2>3. ArmInv' /\ IntervalInv'
    BY <1>0, <1>2, <2>2, CycleEffect DEF TogglePause, ArmInv, IntervalInv
  <2>4. RestInv'
    BY <1>0, <1>a, <1>b, <1>2 DEF TogglePause, RestInv
  <2> QED BY <2>1, <2>3, <2>4 DEF ShellInv
<1>3. CASE ToggleHold
  <2>1. PagesInv' /\ RouteInv'
    BY <1>0, <1>3 DEF ToggleHold, PagesInv, RouteInv, pageVars, NoPageLeaks, HoldEndsWithTheMap
  <2>2. paused' = paused /\ settings' = settings /\ route' = route /\ shownFor' = shownFor
    BY <1>3 DEF ToggleHold
  <2>3. ArmInv' /\ IntervalInv'
    BY <1>0, <1>3, <2>2, CycleEffect DEF ToggleHold, ArmInv, IntervalInv
  <2>4. RestInv'
    BY <1>0, <1>b, <1>3 DEF ToggleHold, RestInv, idleVars
  <2> QED BY <2>1, <2>3, <2>4 DEF ShellInv
<1>4. ASSUME NEW s \in Choices, PollSettings(s) PROVE ShellInv'
  <2>1. PagesInv' /\ RouteInv'
    BY <1>0, <1>4 DEF PollSettings, PagesInv, RouteInv, pageVars, NoPageLeaks,
                      HoldEndsWithTheMap
  <2>2. settings' = s /\ paused' = paused /\ held' = held /\ route' = route
        /\ shownFor' = shownFor
    BY <1>4 DEF PollSettings
  <2>3. ArmInv' /\ IntervalInv'
    BY <1>0, <1>4, <2>2, CycleEffect DEF PollSettings, ArmInv, IntervalInv
  <2>4. RestInv'
    BY <1>0, <1>b, <1>4, ChoiceType, IdleArmType DEF PollSettings, RestInv
  <2> QED BY <2>1, <2>3, <2>4 DEF ShellInv
<1>5. CASE AskPosition
  <2>1. PagesInv' /\ RouteInv'
    BY <1>0, <1>5 DEF AskPosition, PagesInv, RouteInv, pageVars, inputVars, NoPageLeaks,
                      HoldEndsWithTheMap
  <2>2. ArmInv' /\ IntervalInv'
    BY <1>0, <1>5 DEF AskPosition, ArmInv, IntervalInv, SlideshowIsArmed, inputVars, cycleVars
  <2>3. RestInv'
    BY <1>0, <1>a, <1>b, <1>5 DEF AskPosition, RestInv
  <2> QED BY <2>1, <2>2, <2>3 DEF ShellInv
<1>6. CASE MovePosition
  <2>1. route \in Routes BY <1>0 DEF RouteInv
  <2>2. RestInv' BY <1>0, <1>6 DEF MovePosition, RestInv, idleVars
  <2>3. CASE tracked = "yes" /\ RunRouteEffect(route)
                /\ RunCycleEffect(route, settings, paused, held')
    <3>1. PagesInv' /\ (slide'.phase = "none" => page' = route)
          /\ (slide'.phase # "none" => slide'.target = route)
      BY <1>0, <2>1, <2>3, RouteEffect
    <3>2. RouteInv' BY <1>0, <1>6, <3>1 DEF MovePosition, RouteInv
    <3>3. settings' = settings /\ paused' = paused /\ route' = route /\ shownFor' = shownFor
      BY <1>6 DEF MovePosition
    <3>4. ArmInv' /\ IntervalInv'
      BY <1>0, <2>3, <3>3, CycleEffect DEF ArmInv, IntervalInv
    <3> QED BY <2>2, <3>1, <3>2, <3>4 DEF ShellInv
  <2>4. CASE UNCHANGED <<pageVars, held, cycleVars>>
    BY <1>0, <1>6, <2>2, <2>4
       DEF MovePosition, ShellInv, PagesInv, RouteInv, ArmInv, IntervalInv, pageVars,
           cycleVars, NoPageLeaks, HoldEndsWithTheMap, SlideshowIsArmed
  <2> QED BY <1>6, <2>3, <2>4 DEF MovePosition
<1>7. CASE HashChange
  <2>1. route' \in Routes /\ hash' = hash /\ hash \in Hashes
    BY <1>0, <1>7, RouteOfType DEF HashChange, RouteInv
  <2>2. PagesInv' /\ (slide'.phase = "none" => page' = route')
        /\ (slide'.phase # "none" => slide'.target = route')
    BY <1>0, <1>7, <2>1, RouteEffect DEF HashChange
  <2>3. RouteInv' BY <1>0, <1>7, <2>1, <2>2 DEF HashChange, RouteInv
  <2>4. settings' = settings /\ paused' = paused /\ shownFor' \in 0..Longest
        /\ (shownFor' # shownFor => route' # route)
    BY <1>0, <1>7 DEF HashChange, IntervalInv
  <2>5. ArmInv' /\ IntervalInv'
    BY <1>0, <1>7, <2>4, CycleEffect DEF HashChange, ArmInv
  <2>6. RestInv' BY <1>0, <1>7 DEF HashChange, RestInv, idleVars
  <2> QED BY <2>2, <2>3, <2>5, <2>6 DEF ShellInv
<1>8. CASE StartSliding
  <2>1. /\ slide \in Slides /\ slide.target \in Routes /\ slide.publish \in {"yes", "no"}
        /\ slide.phase = "warming"
    BY <1>0, <1>8, SlideShape DEF StartSliding, PagesInv, Slides
  <2>2. /\ slide' \in Slides /\ slide'.phase = "sliding" /\ slide'.target = slide.target
    BY <1>8, <2>1 DEF StartSliding, Slides
  <2>3. PagesInv'
    BY <1>0, <1>8, <2>1, <2>2
       DEF StartSliding, PagesInv, inputVars, NoPageLeaks, HoldEndsWithTheMap
  <2>4. RestInv' BY <1>0, <1>8 DEF StartSliding, RestInv, idleVars
  <2>5. CASE slide.publish = "no"
    <3>1. UNCHANGED <<hash, events, route, tracked, cycleVars, shownFor>>
      BY <1>8, <2>5 DEF StartSliding
    <3>2. RouteInv' BY <1>0, <2>1, <2>2, <2>5, <3>1 DEF RouteInv
    <3>3. ArmInv' /\ IntervalInv'
      BY <1>0, <1>8, <3>1
         DEF StartSliding, ArmInv, IntervalInv, SlideshowIsArmed, inputVars, cycleVars
    <3> QED BY <2>3, <2>4, <3>2, <3>3 DEF ShellInv
  <2>6. CASE slide.publish = "yes"
    <3>1. /\ SetHash(slide.target) /\ route' = slide.target
          /\ RunCycleEffect(route', settings, paused, held)
          /\ shownFor' = IF route' = route THEN shownFor ELSE 0
      BY <1>8, <2>6 DEF StartSliding
    <3>2. slide.target \in Hashes /\ RouteOf(slide.target) = slide.target
      BY <2>1 DEF Hashes, RouteOf
    <3>3. RouteInv' BY <1>0, <2>1, <2>2, <3>1, <3>2, SetHashType DEF RouteInv
    <3>4. settings' = settings /\ paused' = paused /\ held' = held
          /\ shownFor' \in 0..Longest /\ (shownFor' # shownFor => route' # route)
      BY <1>0, <1>8, <3>1 DEF StartSliding, inputVars, IntervalInv
    <3>5. ArmInv' /\ IntervalInv'
      BY <1>0, <3>1, <3>4, CycleEffect DEF ArmInv
    <3> QED BY <2>3, <2>4, <3>3, <3>5 DEF ShellInv
  <2> QED BY <2>1, <2>5, <2>6
<1>9. CASE FinishSlide
  <2>1. /\ slide \in Slides /\ slide.target \in Routes /\ slide.phase = "sliding"
        /\ route = slide.target /\ mounted = slide.target /\ page \in Routes
    BY <1>0, <1>9, SlideShape DEF FinishSlide, PagesInv, RouteInv
  <2>2. /\ slide'.phase = "none" /\ slide' = NoSlide /\ slide'.target = None
        /\ page' = slide.target /\ mounted' = mounted /\ tracked' = tracked
    BY <1>9 DEF FinishSlide, NoSlide
  <2>3. \A q \in Routes : live'[q] = IF q = slide.target THEN 1 ELSE 0
    <3>1. \A q \in Routes : live'[q] = live[q] - (IF q = page THEN 1 ELSE 0)
      BY <1>0, <1>9, <2>1 DEF FinishSlide, Disposed, PagesInv
    <3>2. \A q \in Routes :
            live[q] = (IF q = page THEN 1 ELSE 0) + (IF q = slide.target THEN 1 ELSE 0)
      BY <1>0 DEF PagesInv, NoPageLeaks
    <3> QED BY <3>1, <3>2
  <2>4. live' \in [Routes -> Nat]
    BY <1>0, <1>9, <2>3 DEF FinishSlide, Disposed, PagesInv
  <2>5. held' \in {"yes", "no"} /\ (held' = "yes" => held = "yes" /\ Home # page)
    BY <1>0, <1>9 DEF FinishSlide, Release, PagesInv
  <2>6. held' = "yes" => Home = slide.target
    BY <1>0, <2>1, <2>5 DEF PagesInv, HoldEndsWithTheMap, NoPageLeaks
  <2>7. HoldEndsWithTheMap' BY <2>3, <2>6 DEF HoldEndsWithTheMap
  <2>8. NoPageLeaks' BY <2>2, <2>3 DEF NoPageLeaks
  <2>9. PagesInv'
    BY <1>0, <2>1, <2>2, <2>4, <2>5, <2>7, <2>8 DEF PagesInv
  <2>10. RouteInv' BY <1>0, <1>9, <2>1, <2>2 DEF FinishSlide, RouteInv
  <2>11. settings' = settings /\ paused' = paused /\ route' = route /\ shownFor' = shownFor
    BY <1>9 DEF FinishSlide
  <2>12. ArmInv' /\ IntervalInv'
    BY <1>0, <1>9, <2>11, CycleEffect DEF FinishSlide, ArmInv, IntervalInv
  <2>13. RestInv' BY <1>0, <1>9 DEF FinishSlide, RestInv, idleVars
  <2> QED BY <2>9, <2>10, <2>12, <2>13 DEF ShellInv
<1>10. CASE Fire
  <2>1. ArmInv' /\ IntervalInv'
    <3>1. timer = 0 /\ timer' = settings.interval /\ held' = held
          /\ UNCHANGED <<route, settings, paused, armed, shownFor>>
      BY <1>10 DEF Fire, SlideTo
    <3> QED BY <1>0, <1>a, <3>1 DEF ArmInv, IntervalInv, SlideshowIsArmed
  <2>2. RestInv' BY <1>0, <1>10 DEF Fire, RestInv, idleVars
  <2>3. CASE UNCHANGED <<page, mounted, slide, live, held>>
    <3>1. PagesInv' /\ RouteInv'
      BY <1>0, <1>10, <2>3
         DEF Fire, PagesInv, RouteInv, NoPageLeaks, HoldEndsWithTheMap
    <3> QED BY <2>1, <2>2, <3>1 DEF ShellInv
  <2>4. ASSUME NEW next \in NextCycleRoute(route, settings), slide.phase = "none",
               SlideTo(next, PREWARM, "yes")
        PROVE  ShellInv'
    <3>1. next \in Routes BY <2>4, NextIsRoute
    <3>2. slide.target = None BY <1>0, <2>4, SlideShape DEF PagesInv
    <3>3. slide' \in Slides /\ slide'.phase = "warming" /\ slide'.target = next
          /\ slide'.publish = "yes"
      BY <2>4, <3>1 DEF SlideTo, Slides
    <3>4. live' \in [Routes -> Nat]
          /\ \A q \in Routes : live'[q] = live[q] + (IF q = next THEN 1 ELSE 0)
      BY <1>0, <2>4, <3>1 DEF SlideTo, Rendered, PagesInv
    <3>5. NoPageLeaks'
      <4>1. page' = page BY <2>4 DEF SlideTo
      <4>2. \A q \in Routes :
              live[q] = (IF q = page THEN 1 ELSE 0) + (IF q = slide.target THEN 1 ELSE 0)
        BY <1>0 DEF PagesInv, NoPageLeaks
      <4>3. \A q \in Routes : live[q] = IF q = page THEN 1 ELSE 0
        BY <3>2, <4>2
      <4> QED BY <3>3, <3>4, <4>1, <4>3 DEF NoPageLeaks
    <3>6. HoldEndsWithTheMap'
      <4>1. held' = held /\ (held = "yes" => live[Home] > 0) /\ live[Home] \in Nat
        BY <1>0, <2>4 DEF SlideTo, PagesInv, HoldEndsWithTheMap
      <4>2. live'[Home] = live[Home] + (IF Home = next THEN 1 ELSE 0)
        BY <3>4
      <4> QED BY <4>1, <4>2 DEF HoldEndsWithTheMap
    <3>7. PagesInv'
      BY <1>0, <1>10, <2>4, <3>3, <3>4, <3>5, <3>6 DEF Fire, SlideTo, PagesInv
    <3>8. RouteInv' BY <1>0, <1>10, <3>3 DEF Fire, RouteInv
    <3> QED BY <2>1, <2>2, <3>7, <3>8 DEF ShellInv
  <2> QED BY <1>10, <2>3, <2>4 DEF Fire
<1>11. CASE IdleReset
  <2>1. Root \in Hashes BY DEF Hashes
  <2>2. PagesInv'
    BY <1>0, <1>11 DEF IdleReset, PagesInv, pageVars, NoPageLeaks, HoldEndsWithTheMap
  <2>3. RouteInv'
    BY <1>0, <1>11, <2>1, SetHashType DEF IdleReset, RouteInv, pageVars
  <2>4. settings' = settings /\ paused' = paused /\ route' = route /\ shownFor' = shownFor
    BY <1>11 DEF IdleReset
  <2>5. ArmInv' /\ IntervalInv'
    BY <1>0, <1>11, <2>4, CycleEffect DEF IdleReset, ArmInv, IntervalInv
  <2>6. RestInv' BY <1>0, <1>11 DEF IdleReset, RestInv
  <2> QED BY <2>2, <2>3, <2>5, <2>6 DEF ShellInv
<1>12. CASE Tick
  <2>1. slide' \in Slides \cup {NoSlide} /\ slide'.phase = slide.phase
        /\ slide'.target = slide.target /\ slide'.publish = slide.publish
    <3>1. CASE slide.phase = "none"
      BY <1>0, <1>12, <3>1 DEF Tick, PagesInv
    <3>2. CASE slide.phase # "none"
      <4>1. slide \in Slides /\ slide.left > 0 /\ slide' = [slide EXCEPT !.left = @ - 1]
        BY <1>0, <1>12, <3>2, SlideShape DEF Tick, PagesInv
      <4> QED BY <4>1 DEF Slides
    <3> QED BY <3>1, <3>2
  <2>2. PagesInv'
    BY <1>0, <1>12, <2>1
       DEF Tick, PagesInv, inputVars, NoPageLeaks, HoldEndsWithTheMap
  <2>3. RouteInv' BY <1>0, <1>12, <2>1 DEF Tick, RouteInv
  <2>4. timer \in Nat \cup {None} /\ timer # 0 /\ timer' = Less(timer)
        /\ UNCHANGED <<route, armed, inputVars>>
    BY <1>0, <1>12 DEF Tick, ArmInv
  <2>5. timer' \in Nat \cup {None} /\ (timer' # None <=> timer # None)
        /\ (timer' # None => timer' = timer - 1)
    BY <2>4 DEF Less
  <2>6. ArmInv'
    BY <1>0, <2>4, <2>5 DEF ArmInv, SlideshowIsArmed, inputVars
  <2>7. IntervalInv'
    <3>1. shownFor' \in 0..Longest
      BY <1>0, <1>12 DEF Tick, IntervalInv
    <3>2. CASE timer' = None
      BY <3>1, <3>2 DEF IntervalInv
    <3>3. CASE timer' # None
      <4>1. timer' = timer - 1 /\ timer \in Nat /\ ~Stopped(paused, held)
            /\ timer + shownFor >= settings.interval
        BY <1>0, <2>4, <2>5, <3>3 DEF ArmInv, SlideshowIsArmed, IntervalInv
      <4>2. shownFor' = IF shownFor < Longest THEN shownFor + 1 ELSE shownFor
        BY <1>12, <4>1 DEF Tick
      <4>3. settings' = settings /\ settings.interval <= Longest
        BY <1>0, <2>4, ChoiceType DEF ArmInv, inputVars
      <4>4. timer' >= 0 BY <2>4, <4>1
      <4>5. shownFor \in Nat /\ shownFor <= Longest
        BY <1>0 DEF IntervalInv
      <4>6. timer' + shownFor' >= settings'.interval
        BY <1>a, <4>1, <4>2, <4>3, <4>4, <4>5
      <4> QED BY <3>1, <4>6 DEF IntervalInv
    <3> QED BY <3>2, <3>3
  <2>8. RestInv'
    <3>1. idleTimer' \in Nat \cup {None}
      BY <1>0, <1>12 DEF Tick, RestInv, Less
    <3> QED BY <1>0, <1>12, <3>1 DEF Tick, RestInv
  <2> QED BY <2>2, <2>3, <2>6, <2>7, <2>8 DEF ShellInv
<1>13. CASE UNCHANGED vars
  BY <1>0, <1>13
     DEF vars, pageVars, cycleVars, idleVars, inputVars, ShellInv, PagesInv, RouteInv,
         ArmInv, IntervalInv, RestInv, NoPageLeaks, HoldEndsWithTheMap, SlideshowIsArmed
<1> QED
  BY <1>1, <1>2, <1>3, <1>4, <1>5, <1>6, <1>7, <1>8, <1>9, <1>10, <1>11, <1>12, <1>13
     DEF Next

LEMMA Invariance == Spec => []ShellInv
  BY InitInv, StepInv, PTL DEF Spec

-----------------------------------------------------------------------------
(* The theorems. *)

\* Every variable keeps its type.
THEOREM TypeCorrect == Spec => []TypeOK
<1>1. ShellInv => TypeOK
  <2> SUFFICES ASSUME ShellInv PROVE TypeOK
    OBVIOUS
  <2>1. mounted \in Routes
    BY SlideShape DEF ShellInv, PagesInv
  <2> QED BY <2>1 DEF ShellInv, PagesInv, RouteInv, ArmInv, IntervalInv, RestInv, TypeOK
<1> QED BY <1>1, Invariance, PTL

\* Every page rendered is disposed of exactly once, whatever interrupts a slide.
THEOREM PagesAreDisposed == Spec => []NoPageLeaks
<1>1. ShellInv => NoPageLeaks BY DEF ShellInv, PagesInv
<1> QED BY <1>1, Invariance, PTL

\* Once nothing is in flight the page, the route and the address agree.
THEOREM PageMeetsAddress == Spec => []QuietMeansShown
<1>1. ShellInv => QuietMeansShown BY DEF ShellInv, RouteInv, QuietMeansShown
<1> QED BY <1>1, Invariance, PTL

\* No hold on the slideshow outlives the map it was taken on.
THEOREM HoldsEnd == Spec => []HoldEndsWithTheMap
<1>1. ShellInv => HoldEndsWithTheMap BY DEF ShellInv, PagesInv
<1> QED BY <1>1, Invariance, PTL

\* The slideshow's timer runs exactly while the slideshow may.
THEOREM TimerRunsWhenItMay == Spec => []SlideshowIsArmed
<1>1. ShellInv => SlideshowIsArmed BY DEF ShellInv, ArmInv
<1> QED BY <1>1, Invariance, PTL

\* Only the slideshow's own timer starts a slide that publishes its route.
LEMMA OnlyFireCycles ==
  ASSUME ShellInv, [Next]_vars, slide.phase = "none", slide'.publish = "yes"
  PROVE  timer = 0
<1>1. slide.publish = "no" BY SlideShape DEF ShellInv, PagesInv
<1>2. slide' # slide BY <1>1
<1>3. ASSUME NEW r \in Routes, RunRouteEffect(r) PROVE FALSE
  BY <1>2, <1>3, RouteEffect DEF ShellInv
<1>4. route \in Routes /\ RouteOf(hash) \in Routes
  BY RouteOfType DEF ShellInv, RouteInv
<1>5. CASE MovePosition BY <1>2, <1>3, <1>4, <1>5 DEF MovePosition, pageVars
<1>6. CASE HashChange BY <1>3, <1>4, <1>6 DEF HashChange
<1>7. CASE StartSliding BY <1>7 DEF StartSliding
<1>8. CASE FinishSlide BY <1>8 DEF FinishSlide
<1>9. CASE Fire BY <1>9 DEF Fire
<1>10. CASE Tick BY <1>2, <1>10 DEF Tick
<1>11. CASE UNCHANGED pageVars BY <1>2, <1>11 DEF pageVars
<1> QED
  BY <1>5, <1>6, <1>7, <1>8, <1>9, <1>10, <1>11
     DEF Next, vars, Tap, TogglePause, ToggleHold, PollSettings, AskPosition, IdleReset

\* The slideshow takes no page away before its whole interval, run without a stop.
THEOREM PagesKeepTheirTime == Spec => PageGetsItsInterval
<1>1. ShellInv /\ [Next]_vars =>
        [slide.phase = "none" /\ slide'.publish = "yes" =>
            ~Stopped(paused, held) /\ shownFor >= settings.interval]_vars
  <2> SUFFICES ASSUME ShellInv, [Next]_vars, slide.phase = "none", slide'.publish = "yes"
               PROVE  ~Stopped(paused, held) /\ shownFor >= settings.interval
    OBVIOUS
  <2>1. timer = 0 /\ timer # None
    BY OnlyFireCycles, ShellAssumption
  <2> QED
    BY <2>1 DEF ShellInv, ArmInv, IntervalInv, SlideshowIsArmed
<1> QED BY <1>1, Invariance, PTL DEF Spec, PageGetsItsInterval

=============================================================================
