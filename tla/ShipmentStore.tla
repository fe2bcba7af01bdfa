----------------------------- MODULE ShipmentStore -----------------------------
(***************************************************************************)
(* What the handlers of the logistics services share: the rows of          *)
(* PostgreSQL (shipments, shipment_events, warehouse_items), the rooms of  *)
(* the tracking gateway, and the requests in flight.                       *)
(*                                                                         *)
(* The program is one Node process.  A handler runs alone from one await   *)
(* to the next, so every await is a place where another handler may run:   *)
(* an action of the service modules is the code between two awaits, ending *)
(* with the one database call (or the one $transaction batch) it issues.   *)
(* A row found by one step and written by a later one may have changed in  *)
(* between; nothing in the code locks or re-checks it.                     *)
(***************************************************************************)
EXTENDS ShipmentStatuses, Naturals, Sequences

CONSTANTS
  Shipments,     \* ids of shipment rows (UUIDs: an id is never drawn twice)
  Numbers,       \* the tracking numbers generateTrackingNumber can draw
  Users,         \* ids of user rows
  Drivers,       \* the users whose role is DRIVER
  Callers,       \* the authenticated users that send requests
  Locations,     \* storage cells
  Clients,       \* WebSocket clients of the namespace /tracking
  Workers,       \* bound: requests in flight at one time
  Endpoints,     \* bound: the endpoints a run exercises
  BulkRequests,  \* bound: the item lists sent to POST /shipments/bulk-status
  MaxEvents,     \* bound: no request that logs an event starts beyond it
  MaxAttempts,   \* the retry limit of create, 10 in the code
  Null           \* a database or JavaScript null, or undefined

ASSUME UsersAssumption ==
  /\ Drivers \subseteq Users
  /\ Callers \subseteq Users

ASSUME NullAssumption ==
  Null \notin Shipments \cup Numbers \cup Users \cup Locations \cup Statuses

ASSUME BoundsAssumption ==
  /\ MaxEvents \in Nat
  /\ MaxAttempts \in Nat \ {0}
  /\ BulkRequests \subseteq Seq([shipmentId : Shipments, status : Statuses])

VARIABLES
  ship,      \* shipments: a row exists when it has a tracking number
  events,    \* shipment_events of each shipment, in the order of insertion
  item,      \* warehouse_items: at most one row per shipment
  room,      \* the tracking rooms each client has joined
  inbox,     \* the trackingUpdate messages each client was sent
  handler    \* the request each worker is serving, with its local variables

rows == <<ship, events, item>>
sockets == <<room, inbox>>
vars == <<ship, events, item, room, inbox, handler>>

-------------------------------------------------------------------------------
(* Values *)

\* What an event is about.  The code keeps no such column: the kind stands
\* for the note that each writer puts on its event.
ChangeNotes == {"status", "received", "outbound"}
Notes == ChangeNotes \cup {"created", "gps"}

\* The await a handler is suspended at, named for the call that follows it.
Stages == {"idle", "create.find", "create.insert", "create.event",
           "update.write", "status.write", "delete.write",
           "bulk.find", "bulk.write",
           "receive.check", "receive.write", "move.write",
           "outbound.item", "outbound.write",
           "assign.write", "unassign.write", "gps.insert", "gps.emit"}

Ships == [trackingNumber : Numbers \cup {Null}, status : Statuses,
          isDeleted : BOOLEAN, assignedDriverId : Users \cup {Null}]
Events == [status : Statuses, note : Notes, createdBy : Users \cup {Null}]
Items == [state : {"none", "inStock", "out"}, location : Locations \cup {Null}]
Messages == [shipmentId : Shipments, trackingNumber : Numbers,
             status : Statuses, timestamp : Nat]
Handlers == [at : Stages, user : Users \cup {Null},
             shipmentId : Shipments \cup {Null}, seen : Statuses \cup {Null},
             to : Statuses \cup {Null}, number : Numbers \cup {Null},
             attempts : Nat, driverId : Users \cup {Null},
             location : Locations \cup {Null}, event : Nat,
             todo : Seq([shipmentId : Shipments, status : Statuses])]

NoRow == [trackingNumber |-> Null, status |-> "DRAFT",
          isDeleted |-> FALSE, assignedDriverId |-> Null]
NoItem == [state |-> "none", location |-> Null]
Blank == [at |-> "idle", user |-> Null, shipmentId |-> Null, seen |-> Null,
          to |-> Null, number |-> Null, attempts |-> 0, driverId |-> Null,
          location |-> Null, event |-> 0, todo |-> <<>>]

Init ==
  /\ ship = [s \in Shipments |-> NoRow]
  /\ events = [s \in Shipments |-> <<>>]
  /\ item = [s \in Shipments |-> NoItem]
  /\ room = [c \in Clients |-> {}]
  /\ inbox = [c \in Clients |-> <<>>]
  /\ handler = [w \in Workers |-> Blank]

-------------------------------------------------------------------------------
(* Reads *)

Exists(s) == ship[s].trackingNumber # Null

Found_DeletedToo(s) == Exists(s)

\* findOne / findFirst({ where: { id, isDeleted: false } })
Found(s) == Exists(s) /\ ~ship[s].isDeleted

\* @CurrentUser(field): the strategy puts sub, email and role on the request,
\* and no id.
CurrentUser(u, field) == IF field = "sub" THEN u ELSE Null

\* The events of s that changed its status, and the statuses s has had:
\* the insert gives DRAFT, which the event "created" only reports.
Changes(s) == {i \in DOMAIN events[s] : events[s][i].note \in ChangeNotes}
HeldBefore(s, n) ==
  {"DRAFT"} \cup {events[s][i].status : i \in {j \in Changes(s) : j < n}}
Held(s) == {"DRAFT"} \cup {events[s][i].status : i \in Changes(s)}

-------------------------------------------------------------------------------
(* Handlers *)

Takes(w, endpoint) == handler[w].at = "idle" /\ endpoint \in Endpoints
HasRoom(s) == Len(events[s]) < MaxEvents

Goto(w, h) == handler' = [handler EXCEPT ![w] = h]
Finish(w) == Goto(w, Blank)

-------------------------------------------------------------------------------
(* Writes *)

\* prisma.shipmentEvent.create
AppendEvent(s, e) == events' = [events EXCEPT ![s] = Append(@, e)]

\* The batch that every status change ends with: shipment.update writes the
\* status, whatever it is by now, and shipmentEvent.create records it.
CommitStatus(s, t, note, user) ==
  /\ ship' = [ship EXCEPT ![s].status = t]
  /\ AppendEvent(s, [status |-> t, note |-> note, createdBy |-> user])

===============================================================================
