-------------------------------- MODULE Tracking --------------------------------
(***************************************************************************)
(* TrackingService.updateGps and the TrackingGateway it emits through.      *)
(***************************************************************************)
EXTENDS ShipmentStore

GpsFind(w) ==
  /\ Takes(w, "gps")
  /\ \E u \in Callers, s \in Shipments :
       /\ HasRoom(s)
       /\ \/ /\ Found(s)
             /\ Goto(w, [Blank EXCEPT !.at = "gps.insert",
                           !.user = CurrentUser(u, "id"), !.shipmentId = s,
                           !.seen = ship[s].status,
                           !.number = ship[s].trackingNumber])
          \/ /\ ~Found(s)
             /\ UNCHANGED handler
  /\ UNCHANGED <<rows, sockets>>

GpsInsert_AssumesTransit(w) ==
  LET h == handler[w] IN
  /\ h.at = "gps.insert"
  /\ AppendEvent(h.shipmentId, [status |-> "IN_TRANSIT", note |-> "gps",
                                createdBy |-> h.user])
  /\ Goto(w, [h EXCEPT !.at = "gps.emit",
                       !.event = Len(events[h.shipmentId]) + 1])
  /\ UNCHANGED <<ship, item, sockets>>

GpsInsert_PreviousEvent(w) ==
  LET h == handler[w] IN
  /\ h.at = "gps.insert"
  /\ AppendEvent(h.shipmentId,
                 [status |-> h.seen, note |-> "gps", createdBy |-> h.user])
  /\ Goto(w, [h EXCEPT !.at = "gps.emit", !.event = Len(events[h.shipmentId])])
  /\ UNCHANGED <<ship, item, sockets>>

\* The event is logged with the status read at GpsFind.
GpsInsert(w) ==
  LET h == handler[w] IN
  /\ h.at = "gps.insert"
  /\ AppendEvent(h.shipmentId,
                 [status |-> h.seen, note |-> "gps", createdBy |-> h.user])
  /\ Goto(w, [h EXCEPT !.at = "gps.emit",
                       !.event = Len(events[h.shipmentId]) + 1])
  /\ UNCHANGED <<ship, item, sockets>>

EmitTrackingUpdate_ToAll(number, data) ==
  inbox' = [c \in Clients |-> Append(inbox[c], data)]

\* The timestamp of the message, event.createdAt, identifies the event.
EmitTrackingUpdate(number, data) ==
  inbox' = [c \in Clients |-> IF number \in room[c]
                              THEN Append(inbox[c], data) ELSE inbox[c]]

GpsEmit(w) ==
  LET h == handler[w] IN
  /\ h.at = "gps.emit"
  /\ EmitTrackingUpdate(h.number,
       [shipmentId |-> h.shipmentId, trackingNumber |-> h.number,
        status |-> h.seen, timestamp |-> h.event])
  /\ Finish(w)
  /\ UNCHANGED <<rows, room>>

TrackingNext(w) == GpsFind(w) \/ GpsInsert(w) \/ GpsEmit(w)

-------------------------------------------------------------------------------
(* The gateway: socket.io forgets the rooms of a client that disconnects,   *)
(* and a client that comes back is a new socket.                           *)

Subscribe(c) ==
  /\ "subscribe" \in Endpoints
  /\ \E n \in Numbers : room' = [room EXCEPT ![c] = @ \cup {n}]
  /\ UNCHANGED <<rows, inbox, handler>>

Disconnect(c) ==
  /\ "subscribe" \in Endpoints
  /\ room' = [room EXCEPT ![c] = {}]
  /\ inbox' = [inbox EXCEPT ![c] = <<>>]
  /\ UNCHANGED <<rows, handler>>

GatewayNext(c) == Subscribe(c) \/ Disconnect(c)

===============================================================================
