--------------------------- MODULE ShipmentStatuses ---------------------------
(***************************************************************************)
(* The status machine of a shipment: the eight values of the enum          *)
(* ShipmentStatus and the table VALID_TRANSITIONS that updateStatus         *)
(* consults before it writes.                                              *)
(***************************************************************************)

Statuses == {"DRAFT", "PENDING", "PROCESSING", "READY_FOR_PICKUP",
             "IN_TRANSIT", "DELIVERED", "RETURNED", "CANCELLED"}

VALID_TRANSITIONS ==
  [s \in Statuses |->
     CASE s = "DRAFT"            -> {"PENDING", "CANCELLED"}
       [] s = "PENDING"          -> {"PROCESSING", "CANCELLED"}
       [] s = "PROCESSING"       -> {"READY_FOR_PICKUP", "CANCELLED"}
       [] s = "READY_FOR_PICKUP" -> {"IN_TRANSIT", "CANCELLED"}
       [] s = "IN_TRANSIT"       -> {"DELIVERED", "RETURNED"}
       [] OTHER                  -> {}]

\* A status without a successor: "none (final state)" in the error message.
Final == {s \in Statuses : VALID_TRANSITIONS[s] = {}}

===============================================================================
