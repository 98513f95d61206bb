-------------------------------- MODULE MCWeb --------------------------------
(* A small instance of what the browser keeps for its pages, for TLC.  The parts share nothing
   but the page they are on, so a behaviour exercises one of them. *)
EXTENDS Resource, LiveLayer, TrailLayer, PageStatus, Autosave

CONSTANTS ferry, tug

VARIABLE which \* the part this behaviour exercises

vars == <<resourceVars, layerVars, trailVars, statusVars, saveVars, which>>

Init ==
    /\ ResourceInit /\ LayerInit /\ TrailInit /\ PageInit /\ SaveInit
    /\ which \in {"resource", "layer", "trails", "pages", "fields"}
    \* Parts that are not exercised are in one initial state.
    /\ which = "resource" \/ (renewing = "no" /\ interval = 1 /\ hidden = "no" /\ view = "here")
    /\ which = "layer" \/ (kind = "ships" /\ prefs = [on |-> "on", minor |-> "shown", maxAge |-> 2])
    /\ which = "pages" \/ screen.page = Map
    /\ which = "fields" \/ \A f, g \in Fields : server[f] = server[g]

Next ==
    \/ which = "resource" /\ ResourceNext /\ UNCHANGED <<layerVars, trailVars, statusVars, saveVars, which>>
    \/ which = "layer" /\ LayerNext /\ UNCHANGED <<resourceVars, trailVars, statusVars, saveVars, which>>
    \/ which = "trails" /\ TrailNext /\ UNCHANGED <<resourceVars, layerVars, statusVars, saveVars, which>>
    \/ which = "pages" /\ PageNext /\ UNCHANGED <<resourceVars, layerVars, trailVars, saveVars, which>>
    \/ which = "fields" /\ SaveNext /\ UNCHANGED <<resourceVars, layerVars, trailVars, statusVars, which>>

Spec == Init /\ [][Next]_vars

-------------------------------------------------------------------------------

Item(id, age, place, group) == [id |-> id, age |-> age, place |-> place, group |-> group]
MCFeeds ==
    {<<>>, <<Item(ferry, 0, 0, "major"), Item(tug, 0, 1, "minor")>>,
     <<Item(ferry, 2, 0, "major"), Item(tug, 0, 0, "major")>>, <<Item(tug, 1, Nowhere, "major")>>}
MCPreferences ==
    [on : {"on"}, minor : {"shown", "hidden"}, maxAge : {2, 6}] \cup {[on |-> "off", minor |-> "shown", maxAge |-> 6]}
MCScale == [near |-> 4, far |-> 1]

Point(age, place) == [age |-> age, place |-> place]
Vessel(id, age, place, remembered) ==
    [id |-> id, age |-> age, place |-> place, speed |-> 1, remembered |-> remembered]
MCSightings ==
    {{}, {Vessel(ferry, 0, 0, <<>>)}, {Vessel(ferry, 0, 1, <<Point(2, 0)>>), Vessel(tug, 0, 0, <<>>)},
     {Vessel(ferry, 1, 2, <<Point(1, 2), Point(3, 1)>>)}}

MCPublishes == [map |-> {"counts", "listing"}, tide |-> {"attribution"}, cameras |-> {}]
MCSlots == {"counts", "listing", "attribution"}
===============================================================================
