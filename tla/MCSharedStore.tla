----------------------------- MODULE MCSharedStore -----------------------------
(* A small instance of SharedStore for TLC: one patched field with two other *)
(* values, and the placements of one camera.                                 *)
EXTENDS SharedStore, TLC

CONSTANTS brightness, low, high, camera, here

MCFields == {brightness}
MCValues == {low, high}
MCCameras == {camera}
MCSpots == {Nowhere, here}
MCInitial == [f \in MCFields \cup {"placements"} |->
                 IF f = "placements" THEN camera :> Nowhere ELSE low]
Patch(v) == [kind |-> "patch", values |-> brightness :> v]
Place(s) == [kind |-> "place", camera |-> camera, spot |-> s]
MCEdits == {Patch(low), Patch(high), Place(here)}

===============================================================================
