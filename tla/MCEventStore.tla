----------------------------- MODULE MCEventStore -----------------------------
(***************************************************************************)
(* A small instance of EventStore: three zones in a row.  Two articles     *)
(* tell one story at different instants, in the order of their files.  A   *)
(* third is of the second's instant and is near a zone it is not in; its   *)
(* story is told again, later but in an earlier file, by a fourth that is  *)
(* quarantined.  A load asks for the events and the demand.                *)
(***************************************************************************)
EXTENDS EventStore

CONSTANTS a1, a2, a3, a4, z1, z2, z3, p1

Availability == [a \in Article |-> CASE a = a1 -> 1 [] a = a4 -> 3 [] OTHER -> 2]

FileOrder == [a \in Article |-> CASE a = a1 -> 1 [] a = a2 -> 2 [] a = a3 -> 3 [] a = a4 -> 4]

Files == [a \in Article |-> IF a \in {a1, a4} THEN 1 ELSE 2]

Stories == [a \in Article |-> IF a \in {a1, a2} THEN "s" ELSE "t"]

Places == [a \in Article |-> CASE a = a3 -> {z2} [] a = a4 -> {z3} [] OTHER -> {z1}]

Nearby == [a \in Article |-> IF a = a3 THEN {z2, z3} ELSE Places[a]]

Row == [z \in Zone |-> IF z = z2 THEN {z1, z3} ELSE {z2}]

PermitPlaces == [p \in Permit |-> {z3}]

Loads == {<<"events", "demand_zone_hour">>}
=============================================================================
