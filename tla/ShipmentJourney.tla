---------------------------- MODULE ShipmentJourney ----------------------------
(***************************************************************************)
(* What the services promise about the status of a shipment, without        *)
(* requests, rows or logs.  A shipment has a current status and the         *)
(* statuses it has held.                                                   *)
(*                                                                         *)
(* Spec is what concurrent handlers achieve: a status is only entered from  *)
(* a status the shipment has held, so no milestone is ever skipped, though  *)
(* a late write may take a shipment back.  StrictSpec is what the table     *)
(* VALID_TRANSITIONS says: a status is only entered from the current one.   *)
(***************************************************************************)
EXTENDS ShipmentStatuses

CONSTANT Shipments

VARIABLES held, current

journey == <<held, current>>

JourneyInit ==
  /\ held = [s \in Shipments |-> {"DRAFT"}]
  /\ current = [s \in Shipments |-> "DRAFT"]

Enter(s, from, to) ==
  /\ to \in VALID_TRANSITIONS[from]
  /\ held' = [held EXCEPT ![s] = @ \cup {to}]
  /\ current' = [current EXCEPT ![s] = to]

Advance == \E s \in Shipments : \E p \in held[s], t \in Statuses : Enter(s, p, t)
StrictAdvance == \E s \in Shipments, t \in Statuses : Enter(s, current[s], t)

Spec == JourneyInit /\ [][Advance]_journey
StrictSpec == JourneyInit /\ [][StrictAdvance]_journey

===============================================================================
