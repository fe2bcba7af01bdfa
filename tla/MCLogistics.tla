------------------------------ MODULE MCLogistics ------------------------------
(* Instances of Logistics for TLC. *)
EXTENDS Logistics, TLC

CONSTANTS s1, s2

\* One shipment asked for twice, and another, of which any item may fail.
MCBulkRequests ==
  {<<[shipmentId |-> s1, status |-> "PENDING"],
     [shipmentId |-> s1, status |-> "PROCESSING"],
     [shipmentId |-> s2, status |-> "PENDING"]>>}
NoBulk == {}
OneBulk == {<<[shipmentId |-> s1, status |-> "PENDING"],
              [shipmentId |-> s1, status |-> "PROCESSING"]>>}

Anything == {"create", "update", "status", "delete", "bulk", "receive", "move",
             "outbound", "assign", "unassign", "gps", "subscribe"}
OneShipment == {"create", "status", "delete", "receive", "outbound"}
TrackedShipment == {"create", "status", "delete", "gps", "subscribe"}
Fleet == {"create", "delete", "bulk", "receive"}
Desk == Anything \ {"subscribe"}

WorkerSymmetry == Permutations(Workers)

===============================================================================
