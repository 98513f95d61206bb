-------------------------------- MODULE Transit --------------------------------
(***************************************************************************)
(* From Entur's vehicles to the buses and ferries that are served          *)
(* (src/server/transit/entur.ts, vehicles.ts and routes/transit.ts).       *)
(***************************************************************************)
EXTENDS StaleCache, FiniteSets

CONSTANTS
    MinutesMin, MinutesMax, \* TRANSIT_LAYER's bounds on maxAgeMinutes
    DefaultMinutes          \* DEFAULT_MAX_AGE_MINUTES

\* A number is brought into the bounds; anything else is the default.
ParseMaxAgeMinutes(value) ==
    CASE value = Absent -> DefaultMinutes
      [] value # Absent /\ value < MinutesMin -> MinutesMin
      [] value # Absent /\ value > MinutesMax -> MinutesMax
      [] OTHER -> value

\* What GraphQL answers: errors, or neither errors nor data, are a failure, data without
\* vehicles is none.
FetchVehicles(reply) ==
    IF reply.errors \/ reply.data = Absent THEN Absent
    ELSE IF reply.data.vehicles = Absent THEN {} ELSE reply.data.vehicles

\* A vehicle of another mode is left out; one unread, unheard of for too long, or refused by the
\* contract, as one that is nowhere on Earth, is dropped and counted.
MapVehicles(records, at, minutes) ==
    LET wanted == {r \in records : r.readable /\ r.mode \in {"bus", "ferry"}}
        recent == {r \in wanted : at - r.lastUpdated <= minutes /\ r.placed}
    IN  [vehicles |-> {[id |-> r.id, mode |-> r.mode, recordedAt |-> r.lastUpdated] : r \in recent},
         dropped |-> Cardinality({r \in records : ~r.readable}) + Cardinality(wanted \ recent)]

===============================================================================
