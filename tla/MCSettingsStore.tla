---------------------------- MODULE MCSettingsStore ----------------------------
(* A small instance of SettingsStore for TLC: one ordinary field, one camera's *)
(* placement, one unknown top-level key that is there or not.                  *)
EXTENDS SettingsStore, TLC

CONSTANTS field, camera, unset, v1, none, extra

MCKeys == {field, camera}
MCValues == {unset, v1}
\* A patch of the field, a placement put, and the placement deleted.
MCWrites == {field :> v1, camera :> v1, camera :> unset}
MCDefaults == [k \in MCKeys |-> unset]
MCUnknowns == {none, extra}

===============================================================================
