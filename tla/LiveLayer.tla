------------------------------ MODULE LiveLayer ------------------------------
(***************************************************************************)
(* One live layer of the map (src/web/pages/map): ships, aircraft, road    *)
(* situations, road cameras, transit, warnings or species.  It draws what  *)
(* its resource last answered, as the settings filter it, keeps the popup  *)
(* or the dialog a visitor has opened true to what is drawn, reports to    *)
(* the masthead, and goes with its setting.  For ships and aircraft the    *)
(* module holds the follow mode (follow.ts) too: the vessel the map is     *)
(* kept on, the watchdog, and the ways in which a visitor takes over.      *)
(*                                                                         *)
(* An effect runs at once when something it read has changed, inside the   *)
(* call that changed it.  How an answer is asked for is Resource's.        *)
(***************************************************************************)
EXTENDS Glyphs, FiniteSets, Functions

CONSTANTS
    Kinds,         \* the layers a behaviour may be of
    Feeds,         \* what upstream may answer: items by the age of their fix
    Preferences,   \* what the settings may say of the layer
    Scale,         \* pixels per step of a place, at each zoom
    Threshold,     \* CLUSTER_THRESHOLD_PX
    Coast,         \* COAST_MS of aircraft
    LoseAfter,     \* LOSE_AFTER_MS
    GestureWindow, \* GESTURE_WINDOW_MS
    Nowhere,       \* the place of a warning without a polygon
    Absent,        \* no popup, no follow, no answer
    MaxClock, MaxTaps \* bounds

Vessels == {"ships", "aircraft"}
Clustered == {"ships", "roadCameras"}
Rebuilt == {"species", "warnings"}

ASSUME LiveLayerAssumption ==
    /\ Kinds \subseteq Vessels \cup Clustered \cup Rebuilt \cup {"roads", "transit"}
    /\ \A p \in Preferences : p.on \in {"on", "off"} /\ p.minor \in {"shown", "hidden"} /\ p.maxAge \in Nat
    /\ DOMAIN Scale = {"near", "far"}
    /\ {Coast, LoseAfter, GestureWindow, MaxClock, MaxTaps} \subseteq Nat

\* The vessels, and whatever else upstream may name.
Named == UNION {{feed[i].id : i \in DOMAIN feed} : feed \in Feeds}

\* An answer names no item twice: upstream sends one record for each ship, camera, vehicle and
\* warning, and the server groups or merges the rest by their id.
ASSUME FeedsAssumption ==
    \A feed \in Feeds :
        /\ feed \in Seq([id : Named, age : Nat, place : Int \cup {Nowhere}, group : {"major", "minor"}])
        /\ \A i, j \in DOMAIN feed : feed[i].id = feed[j].id => i = j

\* What a follow keeps for itself.
Follows ==
    [id : Named, missing : Nat, tick : Nat \cup {Absent}, placed : {"yes", "no"}, gesture : Nat \cup {Absent},
     lost : Nat, off : Nat]

ASSUME NobodyAssumption == Absent \notin Nat /\ Absent \notin Named /\ Absent \notin Follows

VARIABLES
    kind,     \* which layer this is
    clock,
    away,     \* document.hidden
    prefs,    \* enabled, the filter of the minor group, and the age limit or poll interval
    zoom,     \* of the map
    answer,   \* the resource's data while its status is ready
    latest,   \* what the last ready answer held (latestShips, latestAircraft, latestCameras)
    memory,   \* followedMemory
    drawn,    \* the entries and clusters on the map, and the popup that is open
    modal,    \* the cameras in the open dialog, and the one that is looked at
    report,   \* what the masthead was told
    follow,   \* the follow that is active
    closure,  \* what its layer held, if it has been disposed of since
    holds,    \* the holds on the slideshow that are not released
    taps      \* history: what visitors and settings have done, for the bound

layerVars == <<kind, clock, away, prefs, zoom, answer, latest, memory, drawn, modal, report, follow, closure, holds, taps>>

-------------------------------------------------------------------------------
(* What is drawn. *)

Nothing == [entries |-> <<>>, clusters |-> <<>>, popup |-> Absent]
NoReport == [count |-> 0, hidden |-> 0, items |-> {}, credit |-> "none"]
Followed(f) == IF f = Absent THEN Absent ELSE f.id

\* The layer's setting leaves out ground traffic, planned situations, buses, plants, avalanches.
Major(items) == Kept(items, {g \in ToSet(items) : g.group = "major"})

Filtered(items, p) ==
    IF kind \in {"ships", "roadCameras"} \/ p.minor = "shown" THEN items ELSE Major(items)

Visible(items, p, now) == IF kind \in Vessels THEN VisibleGlyphs(items, p.maxAge, now) ELSE items

\* What a popup holds.  A cluster's lists its members until one of them is chosen.
Content(items, selected, followed) ==
    [items |-> IF selected = Absent THEN ToSet(items) ELSE {g \in ToSet(items) : g.id = selected},
     selected |-> selected,
     following |-> IF selected # Absent /\ selected = followed THEN "yes" ELSE "no"]

Grouping(visible, z) ==
    IF kind \in Clustered THEN ClusterPoints(visible, Scale[z], Threshold)
    ELSE [i \in DOMAIN visible |-> [sum |-> 0, members |-> <<visible[i]>>]]

CoastOf(k) == IF k = "aircraft" THEN Coast ELSE 0

\* What stands alone is drawn as itself.
Singles(groups) ==
    LET alone == Kept(groups, {g \in ToSet(groups) : Len(g.members) = 1})
    IN  [i \in DOMAIN alone |-> alone[i].members[1]]

\* What there is a place for.
Pinned(items) == Kept(items, {g \in ToSet(items) : g.place # Nowhere})

\* Mutant of Keeps: one drawn glyph coasts like another.
KeepsAny(old, given, now) == now - old.seen < Coast

\* Does a glyph that is not among the visible ones stay?  `given` is what update() was given.
Keeps(old, given, now) ==
    kind \in Vessels /\ old.item.id \notin Ids(given) /\ now - old.seen < CoastOf(kind)

\* canvasGlyphLayer's update, and the keyed markers of the other layers.
Entries(old, singles, given, now) ==
    LET diff == DiffGlyphs([id \in DOMAIN old |-> old[id].item], singles)
        same == DOMAIN old \ (diff.toRemove \cup Ids(diff.toUpdate))
        kept == {id \in diff.toRemove : Keeps(old[id], given, now)}
        item(id) == IF kind \in Vessels /\ id \in same THEN old[id].item
                    ELSE CHOOSE g \in ToSet(singles) : g.id = id
    IN  [id \in Ids(singles) \cup kept |->
            IF id \in kept THEN old[id] ELSE [item |-> item(id), seen |-> now]]

\* The clusters by their members, each with the member its popup has open.
Clusters(old, groups) ==
    LET keys == {Ids(g.members) : g \in groups}
    IN  [k \in keys |->
            [members  |-> (CHOOSE g \in groups : Ids(g.members) = k).members,
             selected |-> IF k \in DOMAIN old THEN old[k].selected ELSE Absent]]

\* Mutant of PopupAfter: an open popup keeps what it said when it was opened.
PopupLeft(old, entries, clusters, followed) ==
    IF old.popup = Absent \/ kind \in Rebuilt THEN Absent
    ELSE IF old.popup.on \in DOMAIN entries \cup DOMAIN clusters THEN old.popup ELSE Absent

\* The popup once its marker has moved, changed or gone.
PopupAfter(old, entries, clusters, followed) ==
    LET on == IF old.popup = Absent THEN Absent ELSE old.popup.on
    IN  IF on = Absent \/ kind \in Rebuilt THEN Absent
        ELSE IF on \in DOMAIN clusters
        THEN [on |-> on, shows |-> Content(clusters[on].members, clusters[on].selected, followed)]
        ELSE IF on \in DOMAIN entries
        THEN [on |-> on, shows |-> IF /\ kind \in Vessels /\ on \notin DOMAIN old.clusters
                                      /\ entries[on].item = old.entries[on].item
                                   THEN old.popup.shows
                                   ELSE Content(<<entries[on].item>>, on, followed)]
        ELSE Absent

Draw(old, items, p, z, now, followed) ==
    LET given    == Filtered(items, p)
        visible  == Visible(given, p, now)
        groups   == Grouping(visible, z)
        singles  == Singles(groups)
        entries  == Entries(old.entries, Pinned(singles), IF kind = "ships" THEN singles ELSE given, now)
        clusters == Clusters(old.clusters, {g \in ToSet(groups) : Len(g.members) > 1})
    IN  [entries |-> entries, clusters |-> clusters, popup |-> PopupAfter(old, entries, clusters, followed)]

\* reportCount, reportItems and reportAttribution.  Road situations are counted as they are
\* in force, whatever is drawn.
Report(items, p, now) ==
    LET given   == Filtered(items, p)
        visible == Visible(given, p, now)
    IN  [count  |-> Len(IF kind = "roads" THEN Major(items) ELSE visible),
         hidden |-> Len(given) - Len(visible),
         items  |-> Ids(Pinned(visible)),
         credit |-> "shown"]

\* What the popup on a cluster, or on a glyph or marker by itself, tells.
Told(d, on, followed) ==
    IF on \in DOMAIN d.clusters THEN Content(d.clusters[on].members, d.clusters[on].selected, followed)
    ELSE Content(<<d.entries[on].item>>, on, followed)

\* refreshOpenPopup, run when the follow target becomes `followed` and at no other time; only
\* vessels have one.
RefreshOpenPopup(d, followed) ==
    IF d.popup = Absent \/ kind \notin Vessels \/ followed = Followed(follow) THEN d
    ELSE [d EXCEPT !.popup.shows = Told(d, d.popup.on, followed)]

-------------------------------------------------------------------------------
(* The effect. *)

\* Has the effect, as it last ran, read the settings and the follow target?
Listens(a) ==
    IF a = Absent \/ kind = "roadCameras" THEN FALSE ELSE a.configured = "yes"

\* rememberFollowed.
Remembered(mem, items, followed, now) ==
    LET seen == {g \in ToSet(items) : g.id = followed}
    IN  IF followed = Absent THEN Absent
        ELSE IF seen # {} THEN [item |-> CHOOSE g \in seen : TRUE, seen |-> now]
        ELSE IF mem = Absent THEN Absent
        ELSE IF now - mem.seen >= LoseAfter THEN Absent ELSE mem

\* The effect over an answer that is ready and configured, with `d` on the map.
RunEffect(d, items, p, z, now, followed, mem) ==
    /\ drawn' = RefreshOpenPopup(Draw(d, items, p, z, now, followed), followed)
    /\ latest' = IF kind = "aircraft" THEN Filtered(items, p) ELSE items
    /\ memory' = IF kind \in Vessels THEN Remembered(mem, latest', followed, now) ELSE Absent
    /\ report' = Report(items, p, now)

\* clear(), of an answer that says the layer is not configured.
Clear == drawn' = Nothing /\ latest' = <<>> /\ memory' = Absent /\ report' = NoReport

\* zoomend: the ships and the cameras are drawn anew, from the last answer there was.
Regroups(z) ==
    /\ z # zoom
    /\ \/ kind = "ships" /\ report.credit = "shown"
       \/ kind = "roadCameras" /\ latest # <<>>

\* What follows when the target is `followed` and the zoom z: the effect runs if it listens to
\* the target, and the open popup's button says what it now does.
Settle(d, z, now, followed, mem) ==
    IF followed # Followed(follow) /\ Listens(answer)
    THEN RunEffect(d, answer.items, prefs, z, now, followed, mem)
    ELSE /\ drawn' = RefreshOpenPopup(IF Regroups(z) THEN Draw(d, latest, prefs, z, now, followed) ELSE d, followed)
         /\ report' = IF Regroups(z) THEN Report(latest, prefs, now) ELSE report
         /\ memory' = mem
         /\ UNCHANGED latest

-------------------------------------------------------------------------------
(* Follow mode. *)

\* shipPosition and aircraftPosition: is there a place to put the map?
Placeable(id, items, mem, now) ==
    LET known == {g \in ToSet(items) : g.id = id}
        kept  == IF mem = Absent THEN {}
                 ELSE IF mem.item.id = id /\ now - mem.seen < LoseAfter THEN {mem.item} ELSE {}
    IN  \E g \in IF known # {} THEN known ELSE kept : OpacityForAge(now - g.at, prefs.maxAge) # "gone"

\* What the follow's layer holds, or held when it was disposed of.
Holding == IF closure = Absent THEN [latest |-> latest, memory |-> memory] ELSE closure

\* stopFollowing.
StopFollowing(now) ==
    /\ follow' = Absent /\ closure' = Absent
    /\ holds' = IF follow = Absent THEN holds ELSE holds - 1
    /\ Settle(drawn, zoom, now, Absent, memory)

\* Mutant of Watched: a vessel that is not to be placed is waited for.
WatchedPatiently(f, now) ==
    LET there == Placeable(f.id, Holding.latest, Holding.memory, now)
    IN  [f EXCEPT !.tick = now, !.placed = "yes", !.missing = IF there THEN 0 ELSE @]

\* The watchdog's tick on a page in sight: the follow afterwards, Absent when it lets go.
Watched(f, now) ==
    LET elapsed == IF f.tick = Absent THEN 0 ELSE now - f.tick
    IN  IF Placeable(f.id, Holding.latest, Holding.memory, now)
        THEN [f EXCEPT !.tick = now, !.placed = "yes", !.missing = 0]
        ELSE IF f.placed = "yes" \/ f.missing + elapsed >= LoseAfter THEN Absent
        ELSE [f EXCEPT !.tick = now, !.missing = @ + elapsed]

\* History: the ticks a followed vessel has been missing start over when it is heard of.
Heard(f, items) ==
    IF f = Absent THEN Absent
    ELSE IF closure = Absent /\ \E g \in ToSet(items) : g.id = f.id THEN [f EXCEPT !.lost = 0] ELSE f

\* A tap inside the map's container is a gesture to the follow.
Touched == IF follow = Absent THEN Absent ELSE [follow EXCEPT !.gesture = clock]

-------------------------------------------------------------------------------
(* Actions. *)

LayerInit ==
    /\ kind \in Kinds /\ clock = 0 /\ away = "no" /\ prefs \in Preferences /\ zoom = "near"
    /\ answer = Absent /\ latest = <<>> /\ memory = Absent /\ drawn = Nothing /\ modal = Absent
    /\ report = NoReport /\ follow = Absent /\ closure = Absent /\ holds = 0 /\ taps = 0

Tap == taps < MaxTaps /\ taps' = taps + 1

\* A fetch has succeeded; the cameras' answer does not say whether it is configured.
Answered(feed, configured) ==
    /\ prefs.on = "on"
    /\ (\E i \in DOMAIN feed : feed[i].place = Nowhere) => kind = "warnings"
    /\ LET items == [i \in DOMAIN feed |-> [id |-> feed[i].id, at |-> clock - feed[i].age,
                                            place |-> feed[i].place, group |-> feed[i].group]]
       IN  /\ answer' = [configured |-> configured, items |-> items]
           /\ IF configured = "yes" \/ kind = "roadCameras"
              THEN RunEffect(drawn, items, prefs, zoom, clock, Followed(follow), memory)
              ELSE Clear
    /\ follow' = Heard(follow, latest')
    /\ UNCHANGED <<kind, clock, away, prefs, zoom, modal, closure, holds, taps>>

\* A fetch has failed: what is drawn stays, and the effect hears of nothing but the next answer.
FetchFails ==
    /\ answer # Absent /\ answer' = Absent
    /\ UNCHANGED <<kind, clock, away, prefs, zoom, latest, memory, drawn, modal, report, follow, closure, holds, taps>>

\* The layer's dispose.
Disposed == drawn' = Nothing /\ latest' = <<>> /\ memory' = Absent /\ modal' = Absent /\ report' = NoReport

\* The setting is switched off; a follow goes on asking what the layer held.
SwitchOff(p) ==
    /\ Tap /\ prefs.on = "on" /\ p.on = "off" /\ prefs' = p
    /\ Disposed /\ answer' = Absent
    /\ closure' = IF follow = Absent THEN Absent ELSE Holding
    /\ UNCHANGED <<kind, clock, away, zoom, follow, holds>>

\* Any other change.  A new poll interval makes a new resource for transit and warnings, and
\* what it last answered is gone.
ChangePreferences(p) ==
    /\ Tap /\ p # prefs /\ (prefs.on = "off" \/ p.on = "on") /\ prefs' = p
    /\ IF kind \in {"transit", "warnings"} /\ p.maxAge # prefs.maxAge
       THEN answer' = Absent /\ UNCHANGED <<drawn, latest, memory, report>>
       ELSE IF Listens(answer)
       THEN RunEffect(drawn, answer.items, p, zoom, clock, Followed(follow), memory) /\ UNCHANGED answer
       ELSE UNCHANGED <<answer, drawn, latest, memory, report>>
    /\ follow' = Heard(follow, latest')
    /\ UNCHANGED <<kind, clock, away, zoom, modal, closure, holds>>

\* A tap on a glyph, a marker or a cluster's badge opens its popup in place of any other.
OpenPopup ==
    /\ Tap /\ kind # "roadCameras"
    /\ \E on \in DOMAIN drawn.entries \cup DOMAIN drawn.clusters :
           drawn' = [drawn EXCEPT !.popup = [on |-> on, shows |-> Told(drawn, on, Followed(follow))]]
    /\ follow' = Touched
    /\ UNCHANGED <<kind, clock, away, prefs, zoom, answer, latest, memory, modal, report, closure, holds>>

\* A row of a cluster's list, or the way back to it.
ChooseMember ==
    /\ Tap /\ drawn.popup # Absent
    /\ LET k == drawn.popup.on IN
       /\ k \in DOMAIN drawn.clusters
       /\ \E id \in IF drawn.clusters[k].selected = Absent THEN k ELSE {Absent} :
             drawn' = [drawn EXCEPT !.clusters[k].selected = id,
                                    !.popup.shows = Content(drawn.clusters[k].members, id, Followed(follow))]
    /\ follow' = Touched
    /\ UNCHANGED <<kind, clock, away, prefs, zoom, answer, latest, memory, modal, report, closure, holds>>

\* Is the popup of one vessel open?
OnVessel == IF kind \in Vessels /\ drawn.popup # Absent THEN drawn.popup.shows.selected # Absent ELSE FALSE

Closed == [drawn EXCEPT !.popup = Absent]

\* "Zoom to": the popup closes and the map moves by itself.
ZoomToVessel ==
    /\ Tap /\ OnVessel
    /\ zoom' = IF Placeable(drawn.popup.shows.selected, latest, memory, clock) THEN "near" ELSE zoom
    /\ Settle(Closed, zoom', clock, Followed(follow), memory)
    /\ follow' = Touched
    /\ UNCHANGED <<kind, clock, away, prefs, answer, modal, closure, holds>>

\* followVessel stops the follow there is before it takes a hold of its own.
HoldsAfter == IF follow = Absent THEN holds + 1 ELSE holds

\* "Follow".  The vessel remembered for it is forgotten again if the effect hears the follow
\* before it stop.
FollowVessel(id) ==
    /\ Tap /\ OnVessel /\ drawn.popup.shows.following = "no" /\ drawn.popup.shows.selected = id
    /\ LET vessel == CHOOSE g \in drawn.popup.shows.items : TRUE
           mem    == IF follow # Absent /\ Listens(answer) THEN Absent ELSE [item |-> vessel, seen |-> clock]
       IN  /\ zoom' = IF Placeable(id, latest, mem, clock) THEN "near" ELSE zoom
           /\ Settle(Closed, zoom', clock, id, mem)
    /\ follow' = [id |-> id, missing |-> 0, tick |-> Absent, placed |-> "no", gesture |-> Absent,
                  lost |-> 0, off |-> 0]
    /\ closure' = Absent /\ holds' = HoldsAfter
    /\ UNCHANGED <<kind, clock, away, prefs, answer, modal>>

\* "Stop following" of the popup; the chip and the idle reset leave a popup open.
StopByPopup ==
    /\ Tap /\ OnVessel /\ drawn.popup.shows.following = "yes"
    /\ follow' = Absent /\ closure' = Absent /\ holds' = holds - 1
    /\ Settle(Closed, zoom, clock, Absent, memory)
    /\ UNCHANGED <<kind, clock, away, prefs, zoom, answer, modal>>

StopByChip ==
    /\ Tap /\ follow # Absent /\ StopFollowing(clock)
    /\ UNCHANGED <<kind, clock, away, prefs, zoom, answer, modal>>

IdleReset ==
    /\ Tap /\ (follow # Absent \/ modal # Absent) /\ StopFollowing(clock) /\ modal' = Absent
    /\ UNCHANGED <<kind, clock, away, prefs, zoom, answer>>

\* movestart of a move the follow did not make, soon after a gesture.
MoveStarts ==
    /\ follow # Absent /\ follow.gesture # Absent
    /\ clock - follow.gesture <= GestureWindow
    /\ StopFollowing(clock)
    /\ UNCHANGED <<kind, clock, away, prefs, zoom, answer, modal, taps>>

\* The visitor zooms: a gesture, and a move that ends the follow.
ChangeZoom(z) ==
    /\ Tap /\ z # zoom /\ zoom' = z
    /\ follow' = Absent /\ closure' = Absent /\ holds' = IF follow = Absent THEN holds ELSE holds - 1
    /\ Settle(drawn, z, clock, Absent, memory)
    /\ UNCHANGED <<kind, clock, away, prefs, answer, modal>>

\* A camera's pin, a cluster of them, or a line of the listing opens the dialog in place of any
\* other, with the cameras as they are now: one camera large, several as a grid.
OpenCameras ==
    /\ Tap /\ kind = "roadCameras"
    /\ \E members \in {{e.item} : e \in Range(drawn.entries)} \cup {ToSet(c.members) : c \in Range(drawn.clusters)}
                         \cup {{g} : g \in ToSet(latest)} :
           modal' = [cameras |-> members,
                     looking |-> IF Cardinality(members) = 1 THEN CHOOSE g \in members : TRUE ELSE Absent]
    /\ UNCHANGED <<kind, clock, away, prefs, zoom, answer, latest, memory, drawn, report, follow, closure, holds>>

\* A tile of the grid, or the way back to it.
LookAtCamera ==
    /\ Tap /\ modal # Absent
    /\ Cardinality(modal.cameras) > 1
    /\ \E g \in IF modal.looking = Absent THEN modal.cameras ELSE {Absent} : modal' = [modal EXCEPT !.looking = g]
    /\ UNCHANGED <<kind, clock, away, prefs, zoom, answer, latest, memory, drawn, report, follow, closure, holds>>

\* The close button, the veil around the dialog, or Escape.
CloseCameras ==
    /\ Tap /\ modal # Absent /\ modal' = Absent
    /\ UNCHANGED <<kind, clock, away, prefs, zoom, answer, latest, memory, drawn, report, follow, closure, holds>>

HideOrShow ==
    /\ Tap /\ away' = IF away = "no" THEN "yes" ELSE "no"
    /\ UNCHANGED <<kind, clock, prefs, zoom, answer, latest, memory, drawn, modal, report, follow, closure, holds>>

\* The visitor leaves the map and comes back to it: mountLiveLayers' dispose, and a new mount.
Revisit ==
    /\ Tap /\ Disposed /\ answer' = Absent /\ zoom' = "near"
    /\ follow' = Absent /\ closure' = Absent /\ holds' = IF follow = Absent THEN holds ELSE holds - 1
    /\ UNCHANGED <<kind, clock, away, prefs>>

\* Time passes, and the watchdog of the follow runs once.
Pass ==
    /\ clock < MaxClock /\ clock' = clock + 1
    /\ LET now  == clock + 1
           next == IF follow = Absent THEN Absent
                   ELSE IF away = "yes" THEN [follow EXCEPT !.tick = Absent, !.lost = 0]
                   ELSE LET seen == \E g \in ToSet(Holding.latest) : g.id = follow.id
                        IN  Watched([follow EXCEPT !.lost = IF seen THEN 0 ELSE @ + 1,
                                                   !.off = IF closure = Absent THEN 0 ELSE @ + 1], now)
       IN  IF next = Absent /\ follow # Absent
           THEN StopFollowing(now)
           ELSE follow' = next /\ UNCHANGED <<closure, holds, drawn, latest, memory, report>>
    /\ UNCHANGED <<kind, away, prefs, zoom, answer, modal, taps>>

LayerNext ==
    \/ \E feed \in Feeds : Answered(feed, "yes")
    \/ Answered(<<>>, "no")
    \/ FetchFails
    \/ \E p \in Preferences : SwitchOff(p)
    \/ \E p \in Preferences : ChangePreferences(p)
    \/ OpenPopup \/ ChooseMember \/ ZoomToVessel
    \/ \E id \in Named : FollowVessel(id)
    \/ OpenCameras \/ LookAtCamera \/ CloseCameras
    \/ StopByPopup \/ StopByChip \/ IdleReset \/ MoveStarts \/ HideOrShow \/ Revisit
    \/ \E z \in DOMAIN Scale : ChangeZoom(z)
    \/ Pass

LayerSpec == LayerInit /\ [][LayerNext]_layerVars

-------------------------------------------------------------------------------
(* Correctness. *)

Grouped(d) == UNION DOMAIN d.clusters

\* What the masthead lists is on the map, as itself or within one cluster and never as both,
\* a filter that is switched is seen to be at once, in whatever order it and the answers come,
\* and nothing of a layer stays when its setting goes: neither listing, popup nor dialog.
ListedIsDrawn ==
    /\ report.items \subseteq DOMAIN drawn.entries \cup Grouped(drawn)
    /\ DOMAIN drawn.entries \cap Grouped(drawn) = {}
    /\ kind \notin Vessels \cup {"roadCameras"} /\ answer # Absent =>
           DOMAIN drawn.entries = Ids(Pinned(Filtered(answer.items, prefs)))
    /\ prefs.on = "off" => drawn = Nothing /\ report = NoReport /\ modal = Absent

\* The popup that is open tells of what is drawn where it stands, and its button does what it
\* says.
PopupTellsTheTruth ==
    drawn.popup # Absent =>
        LET on == drawn.popup.on IN
        /\ on \in DOMAIN drawn.entries \cup DOMAIN drawn.clusters
        /\ drawn.popup.shows =
               IF on \in DOMAIN drawn.clusters
               THEN Content(drawn.clusters[on].members, drawn.clusters[on].selected, Followed(follow))
               ELSE Content(<<drawn.entries[on].item>>, on, Followed(follow))

\* A vessel that is in no answer is let go of in time, on a page in sight, and the slideshow is
\* held by one follow or by none.
FollowLetsGo ==
    /\ holds = IF follow = Absent THEN 0 ELSE 1
    /\ follow # Absent => follow.lost <= LoseAfter + 1

\* What follow.ts says of a layer that is switched off: the follow lets go.
SwitchedOffLetsGo == follow # Absent => follow.off <= LoseAfter + 1

\* What canvasGlyphLayer.ts says of a glyph that is drawn though no one wants it: it coasts
\* because the feed does not mention it.
OnlyGapsCoast ==
    kind = "aircraft" /\ answer # Absent =>
        \A id \in DOMAIN drawn.entries :
            id \in Ids(answer.items) => id \in Ids(Filtered(answer.items, prefs))

===============================================================================
