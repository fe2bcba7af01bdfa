------------------------------- MODULE Warehouse -------------------------------
(***************************************************************************)
(* WarehouseService: receive, outbound and updateLocation.  The controller *)
(* hands each of them CurrentUser('id').                                   *)
(***************************************************************************)
EXTENDS ShipmentStore

Stored(s) == item[s].state # "none"

-------------------------------------------------------------------------------
(* receive *)

ReceiveFind_DraftToo(w) ==
  /\ Takes(w, "receive")
  /\ \E u \in Callers, s \in Shipments, loc \in Locations \cup {Null} :
       LET pending == Found(s) /\ ship[s].status \in {"DRAFT", "PENDING"} IN
       /\ HasRoom(s)
       /\ \/ /\ pending
             /\ Goto(w, [Blank EXCEPT !.at = "receive.check",
                           !.user = CurrentUser(u, "id"), !.shipmentId = s,
                           !.seen = ship[s].status, !.location = loc])
          \/ /\ ~pending
             /\ UNCHANGED handler
  /\ UNCHANGED <<rows, sockets>>

ReceiveFind_AnyStatus(w) ==
  /\ Takes(w, "receive")
  /\ \E u \in Callers, s \in Shipments, loc \in Locations \cup {Null} :
       LET pending == Found(s) IN
       /\ HasRoom(s)
       /\ \/ /\ pending
             /\ Goto(w, [Blank EXCEPT !.at = "receive.check",
                           !.user = CurrentUser(u, "id"), !.shipmentId = s,
                           !.seen = ship[s].status, !.location = loc])
          \/ /\ ~pending
             /\ UNCHANGED handler
  /\ UNCHANGED <<rows, sockets>>

ReceiveFind(w) ==
  /\ Takes(w, "receive")
  /\ \E u \in Callers, s \in Shipments, loc \in Locations \cup {Null} :
       LET pending == Found(s) /\ ship[s].status = "PENDING" IN
       /\ HasRoom(s)
       /\ \/ /\ pending
             /\ Goto(w, [Blank EXCEPT !.at = "receive.check",
                           !.user = CurrentUser(u, "id"), !.shipmentId = s,
                           !.seen = ship[s].status, !.location = loc])
          \/ /\ ~pending
             /\ UNCHANGED handler
  /\ UNCHANGED <<rows, sockets>>

ReceiveCheck(w) ==
  LET h == handler[w] IN
  /\ h.at = "receive.check"
  /\ \/ /\ ~Stored(h.shipmentId)
        /\ Goto(w, [h EXCEPT !.at = "receive.write"])
     \/ /\ Stored(h.shipmentId)
        /\ Finish(w)
  /\ UNCHANGED <<rows, sockets>>

ReceiveWrite_Upsert(w) ==
  LET h == handler[w] IN
  /\ h.at = "receive.write"
  /\ item' = [item EXCEPT ![h.shipmentId] =
                [state |-> "inStock", location |-> h.location]]
  /\ CommitStatus(h.shipmentId, "PROCESSING", "received", h.user)
  /\ Finish(w)
  /\ UNCHANGED sockets

\* The batch inserts the item and commits the status.  warehouse_items is
\* unique on shipment_id: a second insert rolls the whole batch back.
ReceiveWrite(w) ==
  LET h == handler[w] IN
  /\ h.at = "receive.write"
  /\ \/ /\ ~Stored(h.shipmentId)
        /\ item' = [item EXCEPT ![h.shipmentId] =
                      [state |-> "inStock", location |-> h.location]]
        /\ CommitStatus(h.shipmentId, "PROCESSING", "received", h.user)
     \/ /\ Stored(h.shipmentId)
        /\ UNCHANGED rows
  /\ Finish(w)
  /\ UNCHANGED sockets

-------------------------------------------------------------------------------
(* outbound *)

OutboundFind_ReadyToo(w) ==
  /\ Takes(w, "outbound")
  /\ \E u \in Callers, s \in Shipments :
       LET processing == /\ Found(s)
                         /\ ship[s].status \in {"PROCESSING", "READY_FOR_PICKUP"} IN
       /\ HasRoom(s)
       /\ \/ /\ processing
             /\ Goto(w, [Blank EXCEPT !.at = "outbound.item",
                           !.user = CurrentUser(u, "id"), !.shipmentId = s,
                           !.seen = ship[s].status])
          \/ /\ ~processing
             /\ UNCHANGED handler
  /\ UNCHANGED <<rows, sockets>>

OutboundFind(w) ==
  /\ Takes(w, "outbound")
  /\ \E u \in Callers, s \in Shipments :
       LET processing == Found(s) /\ ship[s].status = "PROCESSING" IN
       /\ HasRoom(s)
       /\ \/ /\ processing
             /\ Goto(w, [Blank EXCEPT !.at = "outbound.item",
                           !.user = CurrentUser(u, "id"), !.shipmentId = s,
                           !.seen = ship[s].status])
          \/ /\ ~processing
             /\ UNCHANGED handler
  /\ UNCHANGED <<rows, sockets>>

OutboundItem(w) ==
  LET h == handler[w] IN
  /\ h.at = "outbound.item"
  /\ \/ /\ Stored(h.shipmentId)
        /\ Goto(w, [h EXCEPT !.at = "outbound.write"])
     \/ /\ ~Stored(h.shipmentId)
        /\ Finish(w)
  /\ UNCHANGED <<rows, sockets>>

\* outboundAt is overwritten when it is already set.
OutboundWrite(w) ==
  LET h == handler[w] IN
  /\ h.at = "outbound.write"
  /\ item' = [item EXCEPT ![h.shipmentId].state = "out"]
  /\ CommitStatus(h.shipmentId, "READY_FOR_PICKUP", "outbound", h.user)
  /\ Finish(w)
  /\ UNCHANGED sockets

-------------------------------------------------------------------------------
(* updateLocation looks at the item only: neither the shipment's status nor *)
(* its deletion stops it.                                                  *)

MoveFind(w) ==
  /\ Takes(w, "move")
  /\ \E s \in Shipments, loc \in Locations :
       \/ /\ Stored(s)
          /\ Goto(w, [Blank EXCEPT !.at = "move.write", !.shipmentId = s,
                                   !.location = loc])
       \/ /\ ~Stored(s)
          /\ UNCHANGED handler
  /\ UNCHANGED <<rows, sockets>>

MoveWrite(w) ==
  LET h == handler[w] IN
  /\ h.at = "move.write"
  /\ item' = [item EXCEPT ![h.shipmentId].location = h.location]
  /\ Finish(w)
  /\ UNCHANGED <<ship, events, sockets>>

-------------------------------------------------------------------------------

WarehouseNext(w) ==
  \/ ReceiveFind(w) \/ ReceiveCheck(w) \/ ReceiveWrite(w)
  \/ OutboundFind(w) \/ OutboundItem(w) \/ OutboundWrite(w)
  \/ MoveFind(w) \/ MoveWrite(w)

===============================================================================
