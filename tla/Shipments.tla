------------------------------- MODULE Shipments -------------------------------
(***************************************************************************)
(* ShipmentsService: create, update, updateStatus, softDelete and          *)
(* bulkUpdateStatus.  Creating makes three separate database calls; every  *)
(* other operation finds the row, and writes it after another await.       *)
(***************************************************************************)
EXTENDS ShipmentStore

-------------------------------------------------------------------------------
(* create *)

\* One round of the retry loop: draw a number, look it up, and go on to the
\* insert, to another round, or to the error after the last attempt.
DrawNumber(w, h) ==
  \E n \in Numbers :
    LET taken == \E s \in Shipments : ship[s].trackingNumber = n
        tries == h.attempts + 1 IN
    \/ /\ ~taken
       /\ Goto(w, [h EXCEPT !.at = "create.insert", !.number = n])
    \/ /\ taken /\ tries < MaxAttempts
       /\ Goto(w, [h EXCEPT !.at = "create.find", !.attempts = tries])
    \/ /\ taken /\ tries >= MaxAttempts
       /\ Finish(w)

CreateStart(w) ==
  /\ Takes(w, "create")
  /\ \E u \in Callers, s \in Shipments :
       /\ ~Exists(s) /\ \A v \in Workers : handler[v].shipmentId # s
       /\ DrawNumber(w, [Blank EXCEPT !.user = CurrentUser(u, "sub"),
                                      !.shipmentId = s])
  /\ UNCHANGED <<rows, sockets>>

CreateRetry(w) ==
  /\ handler[w].at = "create.find"
  /\ DrawNumber(w, handler[w])
  /\ UNCHANGED <<rows, sockets>>

CreateInsert_NotUnique(w) ==
  LET h == handler[w] IN
  /\ h.at = "create.insert"
  /\ ship' = [ship EXCEPT ![h.shipmentId] =
                [NoRow EXCEPT !.trackingNumber = h.number]]
  /\ Goto(w, [h EXCEPT !.at = "create.event"])
  /\ UNCHANGED <<events, item, sockets>>

CreateInsert_NoDefaultStatus(w) ==
  LET h == handler[w] IN
  /\ h.at = "create.insert"
  /\ ship' = [ship EXCEPT ![h.shipmentId] =
                [NoRow EXCEPT !.trackingNumber = h.number, !.status = Null]]
  /\ Goto(w, [h EXCEPT !.at = "create.event"])
  /\ UNCHANGED <<events, item, sockets>>

\* The column tracking_number is unique: a number that another create inserted
\* since the lookup fails the insert.
CreateInsert(w) ==
  LET h == handler[w] IN
  /\ h.at = "create.insert"
  /\ \/ /\ \A s \in Shipments : ship[s].trackingNumber # h.number
        /\ ship' = [ship EXCEPT ![h.shipmentId] =
                      [NoRow EXCEPT !.trackingNumber = h.number]]
        /\ Goto(w, [h EXCEPT !.at = "create.event"])
     \/ /\ \E s \in Shipments : ship[s].trackingNumber = h.number
        /\ Finish(w)
        /\ UNCHANGED ship
  /\ UNCHANGED <<events, item, sockets>>

CreateEvent(w) ==
  LET h == handler[w] IN
  /\ h.at = "create.event"
  /\ AppendEvent(h.shipmentId,
                 [status |-> "DRAFT", note |-> "created", createdBy |-> h.user])
  /\ Finish(w)
  /\ UNCHANGED <<ship, item, sockets>>

-------------------------------------------------------------------------------
(* update: of the columns PUT may change, the model keeps the driver, which *)
(* the body may name (any user, or null) or leave out.                     *)

UpdateFind(w) ==
  /\ Takes(w, "update")
  /\ \E s \in Shipments, d \in Users \cup {Null} :
       \/ /\ Found(s)
          /\ Goto(w, [Blank EXCEPT !.at = "update.write", !.shipmentId = s,
                                   !.driverId = d])
       \/ /\ ~Found(s)
          /\ UNCHANGED handler
  /\ UNCHANGED <<rows, sockets>>

UpdateWrite(w) ==
  LET h == handler[w] IN
  /\ h.at = "update.write"
  /\ \/ ship' = [ship EXCEPT ![h.shipmentId].assignedDriverId = h.driverId]
     \/ UNCHANGED ship
  /\ Finish(w)
  /\ UNCHANGED <<events, item, sockets>>

-------------------------------------------------------------------------------
(* updateStatus *)

Validates_AnyStatus(s, t) == Found(s) /\ t # ship[s].status

Validates(s, t) == Found(s) /\ t \in VALID_TRANSITIONS[ship[s].status]

StatusFind(w) ==
  /\ Takes(w, "status")
  /\ \E u \in Callers, s \in Shipments, t \in Statuses :
       /\ HasRoom(s)
       /\ \/ /\ Validates(s, t)
             /\ Goto(w, [Blank EXCEPT !.at = "status.write",
                           !.user = CurrentUser(u, "sub"), !.shipmentId = s,
                           !.seen = ship[s].status, !.to = t])
          \/ /\ ~Validates(s, t)
             /\ UNCHANGED handler
  /\ UNCHANGED <<rows, sockets>>

StatusWrite_NoEvent(w) ==
  LET h == handler[w] IN
  /\ h.at = "status.write"
  /\ ship' = [ship EXCEPT ![h.shipmentId].status = h.to]
  /\ Finish(w)
  /\ UNCHANGED <<events, item, sockets>>

StatusWrite_LogsOldStatus(w) ==
  LET h == handler[w] IN
  /\ h.at = "status.write"
  /\ ship' = [ship EXCEPT ![h.shipmentId].status = h.to]
  /\ AppendEvent(h.shipmentId, [status |-> h.seen, note |-> "status",
                                createdBy |-> h.user])
  /\ Finish(w)
  /\ UNCHANGED <<item, sockets>>

StatusWrite(w) ==
  LET h == handler[w] IN
  /\ h.at = "status.write"
  /\ CommitStatus(h.shipmentId, h.to, "status", h.user)
  /\ Finish(w)
  /\ UNCHANGED <<item, sockets>>

-------------------------------------------------------------------------------
(* softDelete *)

DeleteFind(w) ==
  /\ Takes(w, "delete")
  /\ \E s \in Shipments :
       \/ /\ Found(s)
          /\ Goto(w, [Blank EXCEPT !.at = "delete.write", !.shipmentId = s])
       \/ /\ ~Found(s)
          /\ UNCHANGED handler
  /\ UNCHANGED <<rows, sockets>>

DeleteWrite_Everything(w) ==
  /\ handler[w].at = "delete.write"
  /\ ship' = [s \in Shipments |-> [ship[s] EXCEPT !.isDeleted = TRUE]]
  /\ Finish(w)
  /\ UNCHANGED <<events, item, sockets>>

DeleteWrite(w) ==
  LET h == handler[w] IN
  /\ h.at = "delete.write"
  /\ ship' = [ship EXCEPT ![h.shipmentId].isDeleted = TRUE]
  /\ Finish(w)
  /\ UNCHANGED <<events, item, sockets>>

-------------------------------------------------------------------------------
(* bulkUpdateStatus: updateStatus on one item after another; an item that   *)
(* fails is recorded as failed and the loop goes on.                       *)

NextItem_SameItem(w) ==
  LET h == handler[w] IN
  Goto(w, [Blank EXCEPT !.at = "bulk.find", !.user = h.user, !.todo = h.todo])

\* The request moves to its next item, or ends after the last.
NextItem(w) ==
  LET h == handler[w] IN
  IF Len(h.todo) > 1
  THEN Goto(w, [Blank EXCEPT !.at = "bulk.find", !.user = h.user,
                             !.todo = Tail(h.todo)])
  ELSE Finish(w)

BulkStart(w) ==
  /\ Takes(w, "bulk")
  /\ \E u \in Callers, items \in BulkRequests :
       /\ items # <<>>
       /\ \A i \in DOMAIN items : HasRoom(items[i].shipmentId)
       /\ Goto(w, [Blank EXCEPT !.at = "bulk.find",
                     !.user = CurrentUser(u, "sub"), !.todo = items])
  /\ UNCHANGED <<rows, sockets>>

BulkFind_Unchecked(w) ==
  LET h == handler[w] IN
  /\ h.at = "bulk.find"
  /\ LET s == Head(h.todo).shipmentId
         t == Head(h.todo).status IN
     \/ /\ Found(s)
        /\ Goto(w, [h EXCEPT !.at = "bulk.write", !.shipmentId = s,
                             !.seen = ship[s].status, !.to = t])
     \/ /\ ~Found(s)
        /\ NextItem(w)
  /\ UNCHANGED <<rows, sockets>>

BulkFind(w) ==
  LET h == handler[w] IN
  /\ h.at = "bulk.find"
  /\ LET s == Head(h.todo).shipmentId
         t == Head(h.todo).status IN
     \/ /\ Validates(s, t)
        /\ Goto(w, [h EXCEPT !.at = "bulk.write", !.shipmentId = s,
                             !.seen = ship[s].status, !.to = t])
     \/ /\ ~Validates(s, t)
        /\ NextItem(w)
  /\ UNCHANGED <<rows, sockets>>

BulkWrite(w) ==
  LET h == handler[w] IN
  /\ h.at = "bulk.write"
  /\ CommitStatus(h.shipmentId, h.to, "status", h.user)
  /\ NextItem(w)
  /\ UNCHANGED <<item, sockets>>

\* A database call of the item throws, and the loop catches it.
BulkItemFails(w) ==
  /\ handler[w].at \in {"bulk.find", "bulk.write"}
  /\ NextItem(w)
  /\ UNCHANGED <<rows, sockets>>

-------------------------------------------------------------------------------

ShipmentsNext(w) ==
  \/ CreateStart(w) \/ CreateRetry(w) \/ CreateInsert(w) \/ CreateEvent(w)
  \/ UpdateFind(w) \/ UpdateWrite(w)
  \/ StatusFind(w) \/ StatusWrite(w)
  \/ DeleteFind(w) \/ DeleteWrite(w)
  \/ BulkStart(w) \/ BulkFind(w) \/ BulkWrite(w) \/ BulkItemFails(w)

===============================================================================
