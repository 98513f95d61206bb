---------------------------- MODULE SettingsValues ----------------------------
(***************************************************************************)
(* The data every settings module shares: a settings object, and a write   *)
(* that replaces some of its fields.  A placement of a camera is a field   *)
(* like any other here, with one of the Values standing for "not placed":  *)
(* PUT and DELETE on it are writes of that one key.                        *)
(***************************************************************************)

CONSTANTS
    Keys,       \* the settings fields and the placed cameras
    Values,     \* what a field or a placement can hold
    Writes      \* the assignments a call can carry: functions from some Keys to Values

ASSUME WritesAssumption ==
    \A w \in Writes : DOMAIN w \subseteq Keys /\ \A k \in DOMAIN w : w[k] \in Values

Settings == [Keys -> Values]

\* { ...s, ...w }: the fields a write carries replace those of s, the others stay.
Merge(s, w) == [k \in Keys |-> IF k \in DOMAIN w THEN w[k] ELSE s[k]]

===============================================================================
