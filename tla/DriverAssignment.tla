--------------------------- MODULE DriverAssignment ----------------------------
(***************************************************************************)
(* UsersService: assignDriver and unassignDriver.                          *)
(***************************************************************************)
EXTENDS ShipmentStore

Assignable == {"PENDING", "PROCESSING", "READY_FOR_PICKUP", "IN_TRANSIT"}

AssignFind_AnyStatus(w) ==
  /\ Takes(w, "assign")
  /\ \E s \in Shipments, d \in Users :
       LET allowed == /\ d \in Drivers
                      /\ Found(s) IN
       \/ /\ allowed
          /\ Goto(w, [Blank EXCEPT !.at = "assign.write", !.shipmentId = s,
                        !.seen = ship[s].status, !.driverId = d])
       \/ /\ ~allowed
          /\ UNCHANGED handler
  /\ UNCHANGED <<rows, sockets>>

\* Two lookups, of the driver and of the shipment, in one step: no handler
\* writes the users table, so nothing can change between them.
AssignFind(w) ==
  /\ Takes(w, "assign")
  /\ \E s \in Shipments, d \in Users :
       LET allowed == /\ d \in Drivers
                      /\ Found(s) /\ ship[s].status \in Assignable IN
       \/ /\ allowed
          /\ Goto(w, [Blank EXCEPT !.at = "assign.write", !.shipmentId = s,
                        !.seen = ship[s].status, !.driverId = d])
       \/ /\ ~allowed
          /\ UNCHANGED handler
  /\ UNCHANGED <<rows, sockets>>

AssignWrite(w) ==
  LET h == handler[w] IN
  /\ h.at = "assign.write"
  /\ ship' = [ship EXCEPT ![h.shipmentId].assignedDriverId = h.driverId]
  /\ Finish(w)
  /\ UNCHANGED <<events, item, sockets>>

\* The driver in the route is not passed on: whoever is assigned is removed.
UnassignFind(w) ==
  /\ Takes(w, "unassign")
  /\ \E s \in Shipments :
       \/ /\ Found(s)
          /\ Goto(w, [Blank EXCEPT !.at = "unassign.write", !.shipmentId = s])
       \/ /\ ~Found(s)
          /\ UNCHANGED handler
  /\ UNCHANGED <<rows, sockets>>

UnassignWrite(w) ==
  LET h == handler[w] IN
  /\ h.at = "unassign.write"
  /\ ship' = [ship EXCEPT ![h.shipmentId].assignedDriverId = Null]
  /\ Finish(w)
  /\ UNCHANGED <<events, item, sockets>>

DriversNext(w) ==
  \/ AssignFind(w) \/ AssignWrite(w)
  \/ UnassignFind(w) \/ UnassignWrite(w)

===============================================================================
