---------------------------- MODULE SequentialProofs ----------------------------
(***************************************************************************)
(* One request at a time, for any number of shipments, users and clients,  *)
(* and for a log of any length.  What a handler has read is then still     *)
(* true when it writes, so every change of a status obeys the table, and   *)
(* the weaker promises of LogisticsTheorems turn into strict ones.         *)
(***************************************************************************)
EXTENDS LogisticsTheorems

-------------------------------------------------------------------------------
(* The inductive invariant, on top of IInv *)

\* What the local variables of the only handler say about the rows, now.
Fresh(h) ==
  LET s == h.shipmentId IN
  /\ h.at \in Reader => h.seen = ship[s].status
  /\ h.at = "create.event" => events[s] = <<>> /\ ship[s].status = "DRAFT"
  /\ h.at = "assign.write" =>
       /\ Found(s) /\ ship[s].status \in Assignable
       /\ h.driverId \in Drivers

\* The last event of a log, of whatever kind, names the status of the row.
LastIsStatus ==
  \A s \in Shipments :
    events[s] # <<>> => events[s][Len(events[s])].status = ship[s].status

\* OutStaysOut in terms of the log alone.
LoggedOut(s) == {i \in DOMAIN events[s] : events[s][i].note = "outbound"}
OutHolds ==
  \A s \in Shipments : LoggedOut(s) # {} =>
    /\ ship[s].status \notin {"DRAFT", "PENDING", "PROCESSING"}
    /\ \A i, j \in LoggedOut(s) : i = j

SeqInv ==
  /\ \A w \in Workers : Fresh(handler[w])
  /\ LastIsStatus
  /\ OutHolds

-------------------------------------------------------------------------------
(* The effects of a step on the log, when what was read is still true *)

\* The table is obeyed from the status of the row.
StrictCommit(s) ==
  \E t \in VALID_TRANSITIONS[ship[s].status], note \in ChangeNotes,
     u \in Users \cup {Null} :
    /\ CommitStatus(s, t, note, u)
    /\ note = "outbound" => ship[s].status = "PROCESSING"

\* The event repeats the status of the row.
StrictLog(s) ==
  /\ \E e \in Events :
       /\ e.note \notin ChangeNotes /\ e.status = ship[s].status
       /\ AppendEvent(s, e)
  /\ UNCHANGED ship

StrictStep ==
  \/ UNCHANGED events
  \/ \E s \in Shipments : StrictCommit(s) \/ StrictLog(s)

-------------------------------------------------------------------------------
(* Every step is strict *)

LEMMA StatusUsed ==
  ASSUME IInv, NEW w \in Workers, Fresh(handler[w]),
         StatusWrite(w) \/ BulkWrite(w)
  PROVE  StrictStep
<1> PICK h \in Handlers, s \in Shipments : h = handler[w] /\ s = h.shipmentId
  BY ValueTypes DEF StatusWrite, BulkWrite, IInv, Shape
<1>1. h.seen = ship[s].status /\ h.to \in VALID_TRANSITIONS[h.seen]
  BY DEF StatusWrite, BulkWrite, IInv, Shape, Fresh, Reader
<1>2. CommitStatus(s, h.to, "status", h.user) /\ h.user \in Users \cup {Null}
  BY DEF StatusWrite, BulkWrite, Handlers
<1>3. StrictCommit(s)
  BY <1>1, <1>2 DEF StrictCommit, ChangeNotes
<1> QED BY <1>3 DEF StrictStep

LEMMA WarehouseUsed ==
  ASSUME IInv, NEW w \in Workers, Fresh(handler[w]),
         ReceiveWrite(w) \/ OutboundWrite(w)
  PROVE  StrictStep
<1> PICK h \in Handlers, s \in Shipments : h = handler[w] /\ s = h.shipmentId
  BY ValueTypes DEF ReceiveWrite, OutboundWrite, IInv, Shape
<1>0. h.user \in Users \cup {Null}
  BY DEF Handlers
<1>1. CASE ReceiveWrite(w)
  <2>1. ship[s].status = "PENDING"
    BY <1>1 DEF ReceiveWrite, IInv, Shape, Fresh, Reader
  <2>2. CASE UNCHANGED rows
    BY <2>2 DEF rows, StrictStep
  <2>3. CASE CommitStatus(s, "PROCESSING", "received", h.user)
    <3>1. StrictCommit(s)
      BY <1>0, <2>1, <2>3, TransitionsType DEF StrictCommit, ChangeNotes
    <3> QED BY <3>1 DEF StrictStep
  <2> QED BY <1>1, <2>2, <2>3 DEF ReceiveWrite
<1>2. CASE OutboundWrite(w)
  <2>1. ship[s].status = "PROCESSING"
    BY <1>2 DEF OutboundWrite, IInv, Shape, Fresh, Reader
  <2>2. CommitStatus(s, "READY_FOR_PICKUP", "outbound", h.user)
    BY <1>2 DEF OutboundWrite
  <2>3. StrictCommit(s)
    BY <1>0, <2>1, <2>2, TransitionsType DEF StrictCommit, ChangeNotes
  <2> QED BY <2>3 DEF StrictStep
<1> QED BY <1>1, <1>2

LEMMA ReportUsed ==
  ASSUME IInv, NEW w \in Workers, Fresh(handler[w]),
         CreateEvent(w) \/ GpsInsert(w)
  PROVE  StrictStep
<1> PICK h \in Handlers, s \in Shipments : h = handler[w] /\ s = h.shipmentId
  BY ValueTypes DEF CreateEvent, GpsInsert, IInv, Shape
<1> DEFINE e(note) == [status |-> ship[s].status, note |-> note, createdBy |-> h.user]
<1>1. UNCHANGED ship /\ (AppendEvent(s, e("created")) \/ AppendEvent(s, e("gps")))
  BY DEF CreateEvent, GpsInsert, Fresh, Reader
<1>2. e("created") \in Events /\ e("gps") \in Events
  BY ValueTypes DEF Events, Notes, Handlers
<1>3. StrictLog(s)
  BY <1>1, <1>2 DEF StrictLog, ChangeNotes
<1> QED BY <1>3 DEF StrictStep

LEMMA ServeStrict ==
  ASSUME IInv, NEW w \in Workers, Fresh(handler[w]), Serve(w) \/ Fail(w)
  PROVE  StrictStep
<1>1. CASE ShipmentsNext(w)
  BY <1>1, StatusUsed, ReportUsed DEF ShipmentsNext, CreateStart, CreateRetry,
     CreateInsert, UpdateFind, UpdateWrite, StatusFind, DeleteFind, DeleteWrite,
     BulkStart, BulkFind, BulkItemFails, rows, StrictStep
<1>2. CASE WarehouseNext(w)
  BY <1>2, WarehouseUsed DEF WarehouseNext, ReceiveFind, ReceiveCheck,
     OutboundFind, OutboundItem, MoveFind, MoveWrite, rows, StrictStep
<1>3. CASE DriversNext(w)
  BY <1>3 DEF DriversNext, AssignFind, AssignWrite, UnassignFind, UnassignWrite,
     rows, StrictStep
<1>4. CASE TrackingNext(w)
  BY <1>4, ReportUsed DEF TrackingNext, GpsFind, GpsEmit, rows, StrictStep
<1>5. CASE Fail(w)
  BY <1>5 DEF Fail, rows, StrictStep
<1> QED BY <1>1, <1>2, <1>3, <1>4, <1>5 DEF Serve

-------------------------------------------------------------------------------
(* What was read is still true *)

LEMMA FreshEnd ==
  ASSUME IInv, NEW w \in Workers, Finish(w) \/ NextItem(w)
  PROVE  Fresh(handler[w])'
<1>1. handler \in [Workers -> Handlers]
  BY DEF IInv, TypeOK
<1>2. CASE Finish(w)
  BY <1>1, <1>2 DEF Finish, Goto, Blank, Fresh, Reader
<1>3. CASE NextItem(w) /\ ~Finish(w)
  <2>1. handler'[w].at = "bulk.find"
    BY <1>1, <1>3 DEF NextItem, Goto, Blank
  <2> QED BY <2>1 DEF Fresh, Reader
<1> QED BY <1>2, <1>3

LEMMA FreshRead ==
  ASSUME NEW w \in Workers, UNCHANGED <<rows, handler>>, Fresh(handler[w])
  PROVE  Fresh(handler[w])'
BY DEF Fresh, Found, Exists, rows

\* The request has read the row in this very step.
LEMMA FreshFind ==
  ASSUME IInv, NEW w \in Workers, Fresh(handler[w]),
         \/ UpdateFind(w) \/ StatusFind(w) \/ DeleteFind(w) \/ BulkStart(w)
         \/ ReceiveFind(w) \/ OutboundFind(w) \/ MoveFind(w)
         \/ AssignFind(w) \/ UnassignFind(w) \/ GpsFind(w)
  PROVE  Fresh(handler[w])'
<1>1. handler \in [Workers -> Handlers] /\ UNCHANGED rows
  BY DEF IInv, TypeOK, UpdateFind, StatusFind, DeleteFind, BulkStart, ReceiveFind,
     OutboundFind, MoveFind, AssignFind, UnassignFind, GpsFind
<1>2. CASE UNCHANGED handler
  BY <1>1, <1>2, FreshRead
<1>3. CASE UpdateFind(w) \/ DeleteFind(w) \/ UnassignFind(w) \/ MoveFind(w)
  <2>1. handler'[w].at \in {"update.write", "delete.write", "unassign.write", "move.write"}
        \/ UNCHANGED handler
    BY <1>1, <1>3 DEF UpdateFind, DeleteFind, UnassignFind, MoveFind, Goto, Blank
  <2> QED BY <1>2, <2>1 DEF Fresh, Reader
<1>4. CASE BulkStart(w)
  BY <1>1, <1>4 DEF BulkStart, Goto, Blank, Fresh, Reader
<1>5. CASE StatusFind(w) \/ ReceiveFind(w) \/ OutboundFind(w) \/ GpsFind(w)
  <2> SUFFICES ASSUME ~UNCHANGED handler PROVE Fresh(handler[w])'
    BY <1>2
  <2>1. PICK h :
          /\ h.seen = ship[h.shipmentId].status
          /\ h.at \in {"status.write", "receive.check", "outbound.item", "gps.insert"}
          /\ Goto(w, h)
    <3>1. CASE StatusFind(w)
      <4>1. PICK u \in Callers, s \in Shipments, t \in Statuses :
              Goto(w, [Blank EXCEPT !.at = "status.write",
                         !.user = CurrentUser(u, "sub"), !.shipmentId = s,
                         !.seen = ship[s].status, !.to = t])
        BY <3>1 DEF StatusFind
      <4> QED BY <4>1 DEF Blank
    <3>2. CASE ReceiveFind(w)
      <4>1. PICK u \in Callers, s \in Shipments, loc \in Locations \cup {Null} :
              Goto(w, [Blank EXCEPT !.at = "receive.check",
                         !.user = CurrentUser(u, "id"), !.shipmentId = s,
                         !.seen = ship[s].status, !.location = loc])
        BY <3>2 DEF ReceiveFind
      <4> QED BY <4>1 DEF Blank
    <3>3. CASE OutboundFind(w)
      <4>1. PICK u \in Callers, s \in Shipments :
              Goto(w, [Blank EXCEPT !.at = "outbound.item",
                         !.user = CurrentUser(u, "id"), !.shipmentId = s,
                         !.seen = ship[s].status])
        BY <3>3 DEF OutboundFind
      <4> QED BY <4>1 DEF Blank
    <3>4. CASE GpsFind(w)
      <4>1. PICK u \in Callers, s \in Shipments :
              Goto(w, [Blank EXCEPT !.at = "gps.insert",
                         !.user = CurrentUser(u, "id"), !.shipmentId = s,
                         !.seen = ship[s].status,
                         !.number = ship[s].trackingNumber])
        BY <3>4 DEF GpsFind
      <4> QED BY <4>1 DEF Blank
    <3> QED BY <1>5, <3>1, <3>2, <3>3, <3>4
  <2>2. handler'[w] = h
    BY <1>1, <2>1 DEF Goto
  <2> QED BY <1>1, <2>1, <2>2 DEF Fresh, Reader, rows
<1>6. CASE AssignFind(w)
  <2>1. \/ UNCHANGED handler
        \/ /\ Found(handler'[w].shipmentId)
           /\ ship[handler'[w].shipmentId].status \in Assignable
           /\ handler'[w].driverId \in Drivers
           /\ handler'[w].at = "assign.write"
    BY <1>1, <1>6 DEF AssignFind, Goto, Blank
  <2> QED BY <1>1, <1>2, <2>1 DEF Fresh, Reader, Found, Exists, rows
<1> QED BY <1>3, <1>4, <1>5, <1>6

LEMMA FreshStep ==
  ASSUME IInv, NEW w \in Workers, Fresh(handler[w]), Serve(w) \/ Fail(w)
  PROVE  Fresh(handler[w])'
<1>1. handler \in [Workers -> Handlers] /\ handler[w] \in Handlers
  BY DEF IInv, TypeOK
<1>2. CASE Finish(w) \/ NextItem(w)
  BY <1>2, FreshEnd
<1>3. CASE ShipmentsNext(w)
  <2>0. ASSUME NEW h \in Handlers, DrawNumber(w, h) PROVE Fresh(handler[w])'
    <3>1. \A n \in Numbers : [h EXCEPT !.at = "create.insert", !.number = n].at = "create.insert"
      BY DEF Handlers
    <3>2. [h EXCEPT !.at = "create.find", !.attempts = h.attempts + 1].at = "create.find"
      BY DEF Handlers
    <3>3. handler'[w].at \in Creating \/ Finish(w)
      BY <1>1, <2>0, <3>1, <3>2 DEF DrawNumber, Goto, Creating
    <3> QED BY <1>2, <3>3 DEF Fresh, Reader, Creating
  <2>1. CASE CreateStart(w) \/ CreateRetry(w)
    <3>1. \A u \in Callers, s \in Shipments :
            [Blank EXCEPT !.user = CurrentUser(u, "sub"), !.shipmentId = s] \in Handlers
      BY BlankType, ValueTypes DEF Handlers
    <3> QED BY <1>1, <2>0, <2>1, <3>1 DEF CreateStart, CreateRetry
  <2>2. CASE CreateInsert(w) /\ ~Finish(w)
    <3> PICK h \in Handlers, s \in Shipments : h = handler[w] /\ s = h.shipmentId
      BY <2>2, ValueTypes DEF CreateInsert, IInv, Shape
    <3>1. events[s] = <<>>
      BY <2>2 DEF CreateInsert, IInv, Facts, Creating, NothingBeforeInsert
    <3>2. ship' = [ship EXCEPT ![s] = [NoRow EXCEPT !.trackingNumber = h.number]]
          /\ handler' = [handler EXCEPT ![w] = [h EXCEPT !.at = "create.event"]]
          /\ events' = events
      BY <2>2 DEF CreateInsert, Goto
    <3>3. ship'[s].status = "DRAFT"
      BY <3>2 DEF NoRow, IInv, TypeOK
    <3>4. handler'[w].at = "create.event" /\ handler'[w].shipmentId = s
      BY <1>1, <3>2 DEF Handlers
    <3> QED BY <3>1, <3>2, <3>3, <3>4 DEF Fresh, Reader
  <2>3. CASE CreateEvent(w) \/ UpdateWrite(w) \/ StatusWrite(w) \/ DeleteWrite(w)
    BY <1>2, <2>3 DEF CreateEvent, UpdateWrite, StatusWrite, DeleteWrite
  <2>4. CASE BulkFind(w) /\ ~NextItem(w)
    <3>1. UNCHANGED rows
      BY <2>4 DEF BulkFind
    <3>2. /\ handler'[w].at = "bulk.write"
          /\ handler'[w].seen = ship[handler'[w].shipmentId].status
      <4> DEFINE s == Head(handler[w].todo).shipmentId
                 t == Head(handler[w].todo).status
                 g == [handler[w] EXCEPT !.at = "bulk.write", !.shipmentId = s,
                                         !.seen = ship[s].status, !.to = t]
      <4>1. Goto(w, g)
        BY <2>4 DEF BulkFind
      <4>2. g.at = "bulk.write" /\ g.shipmentId = s /\ g.seen = ship[s].status
        BY <1>1 DEF Handlers
      <4> HIDE DEF g
      <4>3. handler'[w] = g
        BY <1>1, <4>1 DEF Goto
      <4> QED BY <4>2, <4>3
    <3> QED BY <3>1, <3>2 DEF Fresh, Reader, rows
  <2>5. CASE BulkWrite(w) \/ BulkItemFails(w)
    BY <1>2, <2>5 DEF BulkWrite, BulkItemFails
  <2> QED BY <1>2, <1>3, <2>1, <2>2, <2>3, <2>4, <2>5, FreshFind DEF ShipmentsNext
<1>4. CASE WarehouseNext(w)
  <2>1. CASE (ReceiveCheck(w) \/ OutboundItem(w)) /\ ~Finish(w)
    <3>1. UNCHANGED rows
      BY <2>1 DEF ReceiveCheck, OutboundItem
    <3>2. /\ handler[w].at \in Reader
          /\ handler'[w].at \in {"receive.write", "outbound.write"}
          /\ handler'[w].seen = handler[w].seen
          /\ handler'[w].shipmentId = handler[w].shipmentId
      BY <1>1, <2>1 DEF ReceiveCheck, OutboundItem, Goto, Handlers, Reader
    <3> QED BY <3>1, <3>2 DEF Fresh, Reader, rows
  <2>2. CASE ReceiveWrite(w) \/ OutboundWrite(w) \/ MoveWrite(w)
    BY <1>2, <2>2 DEF ReceiveWrite, OutboundWrite, MoveWrite
  <2> QED BY <1>2, <1>4, <2>1, <2>2, FreshFind DEF WarehouseNext
<1>5. CASE DriversNext(w)
  <2>1. CASE AssignWrite(w) \/ UnassignWrite(w)
    BY <1>2, <2>1 DEF AssignWrite, UnassignWrite
  <2> QED BY <1>5, <2>1, FreshFind DEF DriversNext
<1>6. CASE TrackingNext(w)
  <2>1. CASE GpsInsert(w)
    <3>1. UNCHANGED ship
      BY <2>1 DEF GpsInsert
    <3>2. /\ handler[w].at \in Reader
          /\ handler'[w].at = "gps.emit"
          /\ handler'[w].seen = handler[w].seen
          /\ handler'[w].shipmentId = handler[w].shipmentId
      BY <1>1, <2>1 DEF GpsInsert, Goto, Handlers, Reader
    <3> QED BY <3>1, <3>2 DEF Fresh, Reader
  <2>2. CASE GpsEmit(w)
    BY <1>2, <2>2 DEF GpsEmit
  <2> QED BY <1>6, <2>1, <2>2, FreshFind DEF TrackingNext
<1>7. CASE Fail(w)
  BY <1>2, <1>7 DEF Fail
<1> QED BY <1>3, <1>4, <1>5, <1>6, <1>7 DEF Serve

-------------------------------------------------------------------------------
(* What strict steps keep *)

\* The log determines the status, so a step that logs nothing changes none.
LEMMA StatusNeedsEvent ==
  ASSUME IInv, IInv', UNCHANGED events, NEW s \in Shipments
  PROVE  ship'[s].status = ship[s].status
<1>1. Changes(s)' = Changes(s)
  BY DEF Changes
<1>2. CASE Changes(s) = {}
  BY <1>1, <1>2 DEF IInv, TrailMatchesStatus
<1>3. CASE Changes(s) # {}
  <2>1. PICK i \in Changes(s) :
          events[s][i].status = ship[s].status /\ \A j \in Changes(s) : j <= i
    BY <1>3 DEF IInv, TrailMatchesStatus
  <2>2. PICK k \in Changes(s) :
          events[s][k].status = ship'[s].status /\ \A j \in Changes(s) : j <= k
    BY <1>1, <1>3 DEF IInv, TrailMatchesStatus
  <2>3. i \in Nat /\ k \in Nat
    BY DEF Changes, IInv, TypeOK
  <2> QED BY <2>1, <2>2, <2>3
<1> QED BY <1>2, <1>3

\* A strict commit, taken apart.
LEMMA CommitParts ==
  ASSUME IInv, NEW s \in Shipments, StrictCommit(s)
  PROVE  \E t \in Statuses, e \in Events :
           /\ t \in VALID_TRANSITIONS[ship[s].status]
           /\ e.status = t /\ e.note \in ChangeNotes /\ AppendEvent(s, e)
           /\ e.note = "outbound" => ship[s].status = "PROCESSING"
           /\ ship'[s].status = t
           /\ \A r \in Shipments \ {s} : ship'[r] = ship[r]
<1>1. PICK t \in VALID_TRANSITIONS[ship[s].status], note \in ChangeNotes,
           u \in Users \cup {Null} :
        /\ CommitStatus(s, t, note, u)
        /\ note = "outbound" => ship[s].status = "PROCESSING"
  BY DEF StrictCommit
<1>2. t \in Statuses
  BY ValueTypes, TransitionsType
<1> DEFINE e == [status |-> t, note |-> note, createdBy |-> u]
<1>3. /\ e \in Events /\ e.status = t /\ e.note = note
      /\ AppendEvent(s, e)
      /\ ship' = [ship EXCEPT ![s].status = t]
  BY <1>1, <1>2 DEF Events, Notes, CommitStatus
<1>4. ship'[s].status = t /\ \A r \in Shipments \ {s} : ship'[r] = ship[r]
  BY <1>2, <1>3, StatusUpdate
<1> HIDE DEF e
<1> QED BY <1>1, <1>2, <1>3, <1>4

\* The event that a strict step adds to a log names the status of the row.
LEMMA LastStep ==
  ASSUME IInv, IInv', LastIsStatus, StrictStep
  PROVE  LastIsStatus'
<1> SUFFICES ASSUME NEW r \in Shipments, events'[r] # <<>>
             PROVE  events'[r][Len(events'[r])].status = ship'[r].status
  BY DEF LastIsStatus
<1>1. CASE UNCHANGED events
  BY <1>1, StatusNeedsEvent DEF LastIsStatus
<1>2. ASSUME NEW s \in Shipments, NEW e \in Events, AppendEvent(s, e)
      PROVE  /\ r # s => events'[r] = events[r]
             /\ r = s => events'[r][Len(events'[r])] = e
  BY <1>2 DEF AppendEvent, IInv, TypeOK
<1>3. ASSUME NEW s \in Shipments, StrictCommit(s)
      PROVE  events'[r][Len(events'[r])].status = ship'[r].status
  BY <1>2, <1>3, CommitParts DEF LastIsStatus
<1>4. ASSUME NEW s \in Shipments, StrictLog(s)
      PROVE  events'[r][Len(events'[r])].status = ship'[r].status
  BY <1>2, <1>4 DEF StrictLog, LastIsStatus
<1> QED BY <1>1, <1>3, <1>4 DEF StrictStep

\* The table has no way back into the warehouse.
LEMMA NoWayBack ==
  ASSUME NEW p \in Statuses \ {"DRAFT", "PENDING", "PROCESSING"}
  PROVE  VALID_TRANSITIONS[p] \cap {"DRAFT", "PENDING", "PROCESSING"} = {}
BY DEF VALID_TRANSITIONS, Statuses

LEMMA OutStep ==
  ASSUME IInv, IInv', OutHolds, StrictStep
  PROVE  OutHolds'
<1> DEFINE Early == {"DRAFT", "PENDING", "PROCESSING"}
           Holds(r) == LoggedOut(r) # {} => /\ ship[r].status \notin Early
                                            /\ \A i, j \in LoggedOut(r) : i = j
<1> SUFFICES ASSUME NEW r \in Shipments PROVE Holds(r)'
  BY DEF OutHolds
<1>1. Holds(r)
  BY DEF OutHolds
<1>2. CASE UNCHANGED events
  BY <1>1, <1>2, StatusNeedsEvent DEF LoggedOut
<1>3. ASSUME NEW s \in Shipments, NEW e \in Events, AppendEvent(s, e)
      PROVE  /\ r # s \/ e.note # "outbound" => LoggedOut(r)' = LoggedOut(r)
             /\ r = s /\ e.note = "outbound" =>
                  \E n \in Nat : LoggedOut(r)' = LoggedOut(r) \cup {n}
  <2>1. PICK n \in Nat : n = Len(events[s]) + 1
    BY <1>3, AppendedLog
  <2>2. /\ DOMAIN events[s] = 1 .. (n - 1) /\ DOMAIN events'[s] = 1 .. n
        /\ \A i \in DOMAIN events[s] : events'[s][i] = events[s][i]
        /\ events'[s][n] = e
    BY <1>3, <2>1, AppendedLog
  <2>3. n \notin 1 .. (n - 1) /\ 1 .. n = (1 .. (n - 1)) \cup {n}
    <3>1. n # 0
      BY <1>3, <2>1, AppendedLog
    <3> QED BY <3>1
  <2>4. CASE r # s
    BY <1>3, <2>4, AppendedLog DEF LoggedOut
  <2>5. CASE r = s /\ e.note # "outbound"
    BY <2>2, <2>3, <2>5 DEF LoggedOut
  <2>6. CASE r = s /\ e.note = "outbound"
    <3>1. LoggedOut(r)' = LoggedOut(r) \cup {n}
      BY <2>2, <2>3, <2>6 DEF LoggedOut
    <3> QED BY <2>6, <3>1
  <2> QED BY <2>4, <2>5, <2>6
<1>4. ASSUME NEW s \in Shipments, StrictCommit(s) PROVE Holds(r)'
  <2>1. PICK t \in Statuses, e \in Events :
           /\ t \in VALID_TRANSITIONS[ship[s].status]
           /\ AppendEvent(s, e)
           /\ e.note = "outbound" => ship[s].status = "PROCESSING"
           /\ ship'[s].status = t
           /\ \A q \in Shipments \ {s} : ship'[q] = ship[q]
    BY <1>4, CommitParts
  <2>2. CASE r # s
    BY <1>1, <1>3, <2>1, <2>2
  <2>3. CASE r = s /\ LoggedOut(r) # {}
    <3>1. ship[r].status \in Statuses \ Early
      BY <1>1, <2>3, ValueTypes
    <3>2. t \notin Early /\ e.note # "outbound"
      BY <2>1, <2>3, <3>1, NoWayBack
    <3> QED BY <1>1, <1>3, <2>1, <2>3, <3>2
  <2>4. CASE r = s /\ LoggedOut(r) = {}
    <3>1. CASE e.note = "outbound"
      <4>1. t \in {"READY_FOR_PICKUP", "CANCELLED"}
        BY <2>1, <3>1 DEF VALID_TRANSITIONS, Statuses
      <4>2. PICK n \in Nat : LoggedOut(r)' = {n}
        BY <1>3, <2>1, <2>4, <3>1
      <4> QED BY <2>1, <2>4, <4>1, <4>2
    <3>2. CASE e.note # "outbound"
      BY <1>3, <2>1, <2>4, <3>2
    <3> QED BY <3>1, <3>2
  <2> QED BY <2>2, <2>3, <2>4
<1>5. ASSUME NEW s \in Shipments, StrictLog(s) PROVE Holds(r)'
  <2>1. PICK e \in Events : AppendEvent(s, e) /\ e.note # "outbound"
    BY <1>5 DEF StrictLog, ChangeNotes
  <2> QED BY <1>1, <1>3, <1>5, <2>1 DEF StrictLog
<1> QED BY <1>2, <1>4, <1>5 DEF StrictStep

-------------------------------------------------------------------------------
(* The invariant *)

LEMMA InitSeqInv == Init => SeqInv
<1> SUFFICES ASSUME Init PROVE SeqInv
  OBVIOUS
<1>1. \A w \in Workers : Fresh(handler[w])
  BY DEF Init, Fresh, Blank, Reader
<1>2. LastIsStatus /\ OutHolds
  BY DEF Init, LastIsStatus, OutHolds, LoggedOut
<1> QED BY <1>1, <1>2 DEF SeqInv

\* What a step of the only worker comes to.
LEMMA NextStrict ==
  ASSUME NEW x, Workers = {x}, IInv, SeqInv, [Next]_vars
  PROVE  StrictStep /\ Fresh(handler[x])'
<1>1. Fresh(handler[x]) /\ x \in Workers
  BY DEF SeqInv
<1>2. CASE UNCHANGED <<rows, handler>>
  BY <1>1, <1>2, FreshRead DEF StrictStep, rows
<1>3. CASE Serve(x) \/ Fail(x)
  BY <1>1, <1>3, ServeStrict, FreshStep
<1>4. CASE \E c \in Clients : GatewayNext(c)
  BY <1>2, <1>4 DEF GatewayNext, Subscribe, Disconnect
<1>5. UNCHANGED vars => UNCHANGED <<rows, handler>>
  BY DEF vars, rows
<1> QED BY <1>2, <1>3, <1>4, <1>5 DEF Next

LEMMA NextSeqInv ==
  ASSUME NEW x, Workers = {x}, IInv, IInv', SeqInv, [Next]_vars
  PROVE  SeqInv'
<1>1. StrictStep /\ Fresh(handler[x])'
  BY NextStrict
<1>2. LastIsStatus' /\ OutHolds'
  BY <1>1, LastStep, OutStep DEF SeqInv
<1> QED BY <1>1, <1>2 DEF SeqInv

LEMMA SeqInvHolds ==
  ASSUME NEW x, Workers = {x}
  PROVE  Spec => []SeqInv
<1>1. IInv /\ IInv' /\ SeqInv /\ [Next]_vars => SeqInv'
  BY NextSeqInv
<1> QED BY <1>1, InitSeqInv, InvariantHolds, PTL DEF Spec

-------------------------------------------------------------------------------
(* The promises of one request at a time *)

\* A shipment that has left the warehouse is never to be processed there again,
\* and leaves once.
THEOREM OutCorrect ==
  ASSUME NEW x, Workers = {x}
  PROVE  Spec => []OutStaysOut
<1>1. SeqInv /\ WarehouseMatchesTrail => OutStaysOut
  <2> SUFFICES ASSUME SeqInv, WarehouseMatchesTrail, NEW s \in Shipments,
                      item[s].state = "out"
               PROVE  /\ ship[s].status \notin {"DRAFT", "PENDING", "PROCESSING"}
                      /\ \A i, j \in Changes(s) :
                           events[s][i].note = "outbound"
                             /\ events[s][j].note = "outbound" => i = j
    BY DEF OutStaysOut
  <2>1. LoggedOut(s) # {}
    BY DEF WarehouseMatchesTrail, LoggedOut
  <2>2. /\ ship[s].status \notin {"DRAFT", "PENDING", "PROCESSING"}
        /\ \A i, j \in LoggedOut(s) : i = j
    BY <2>1 DEF SeqInv, OutHolds
  <2> QED BY <2>2 DEF LoggedOut, Changes
<1>2. Spec => []SeqInv
  BY SeqInvHolds
<1> QED BY <1>1, <1>2, WarehouseCorrect, PTL

\* Both halves of the public answer, the row and the last event, agree.
THEOREM LastEventCorrect ==
  ASSUME NEW x, Workers = {x}
  PROVE  Spec => []LastEventIsCurrent
<1>1. SeqInv => LastEventIsCurrent
  BY DEF SeqInv, LastIsStatus, LastEventIsCurrent, GetPublicTracking, Tracked
<1>2. Spec => []SeqInv
  BY SeqInvHolds
<1> QED BY <1>1, <1>2, PTL

LEMMA StrictJourneyStep ==
  ASSUME IInv, IInv', StrictStep
  PROVE  J!StrictAdvance \/ UNCHANGED J!journey
<1> DEFINE held == [r \in Shipments |-> Held(r)]
           current == [r \in Shipments |-> ship[r].status]
<1>1. CASE UNCHANGED events
  <2>1. \A r \in Shipments : Held(r)' = Held(r) /\ ship'[r].status = ship[r].status
    BY <1>1, StatusNeedsEvent DEF Held, Changes
  <2> QED BY <2>1 DEF J!journey
<1>2. ASSUME NEW s \in Shipments, StrictCommit(s)
      PROVE  J!StrictAdvance
  <2>1. PICK t \in Statuses, e \in Events :
           /\ t \in VALID_TRANSITIONS[ship[s].status]
           /\ e.status = t /\ e.note \in ChangeNotes /\ AppendEvent(s, e)
           /\ ship'[s].status = t
           /\ \A r \in Shipments \ {s} : ship'[r] = ship[r]
    BY <1>2, CommitParts
  <2>2. /\ Held(s)' = Held(s) \cup {t}
        /\ \A r \in Shipments \ {s} : Held(r)' = Held(r)
    BY <2>1, HeldAfter
  <2>3. [r \in Shipments |-> Held(r)'] = [held EXCEPT ![s] = @ \cup {t}]
    BY <2>2
  <2>4. [r \in Shipments |-> ship'[r].status] = [current EXCEPT ![s] = t]
    BY <2>1
  <2>5. J!Enter(s, current[s], t)
    BY <2>1, <2>3, <2>4, SameTable DEF J!Enter
  <2> QED BY <2>5, SameTable DEF J!StrictAdvance
<1>3. ASSUME NEW s \in Shipments, StrictLog(s)
      PROVE  UNCHANGED J!journey
  <2>1. \A r \in Shipments : Held(r)' = Held(r) /\ ship'[r].status = ship[r].status
    BY <1>3, HeldAfter DEF StrictLog
  <2> QED BY <2>1 DEF J!journey
<1> QED BY <1>1, <1>2, <1>3 DEF StrictStep

\* One request at a time, the services implement the table to the letter: a
\* status is entered only from the one the row has.
THEOREM StrictJourneyCorrect ==
  ASSUME NEW x, Workers = {x}
  PROVE  Spec => StrictJourney
<1>1. Init => J!JourneyInit
  <2> SUFFICES ASSUME Init PROVE J!JourneyInit
    OBVIOUS
  <2>1. \A s \in Shipments : Held(s) = {"DRAFT"} /\ ship[s].status = "DRAFT"
    BY DEF Init, Held, Changes, NoRow
  <2> QED BY <2>1 DEF J!JourneyInit
<1>2. IInv /\ IInv' /\ SeqInv /\ [Next]_vars => [J!StrictAdvance]_(J!journey)
  BY NextStrict, StrictJourneyStep
<1>3. Spec => []SeqInv
  BY SeqInvHolds
<1> QED BY <1>1, <1>2, <1>3, InvariantHolds, PTL DEF Spec, StrictJourney, J!StrictSpec

LEMMA AssignOnly ==
  ASSUME IInv, NEW w \in Workers, handler[w].at = "assign.write", Serve(w)
  PROVE  AssignWrite(w)
<1>1. ~ShipmentsNext(w)
  BY DEF ShipmentsNext, Takes, CreateStart, CreateRetry, CreateInsert, CreateEvent,
     UpdateFind, UpdateWrite, StatusFind, StatusWrite, DeleteFind, DeleteWrite,
     BulkStart, BulkFind, BulkWrite, BulkItemFails
<1>2. ~WarehouseNext(w)
  BY DEF WarehouseNext, Takes, ReceiveFind, ReceiveCheck, ReceiveWrite,
     OutboundFind, OutboundItem, OutboundWrite, MoveFind, MoveWrite
<1>3. ~TrackingNext(w)
  BY DEF TrackingNext, Takes, GpsFind, GpsInsert, GpsEmit
<1>4. DriversNext(w) => AssignWrite(w)
  BY DEF DriversNext, Takes, AssignFind, UnassignFind, UnassignWrite
<1> QED BY <1>1, <1>2, <1>3, <1>4 DEF Serve

\* One request at a time, assignDriver puts a driver on a live shipment in an
\* assignable status and does nothing else.
THEOREM AssignmentsCorrect ==
  ASSUME NEW x, Workers = {x}
  PROVE  Spec => AssignmentsFit
<1> DEFINE Changed(s) == ship'[s].assignedDriverId # ship[s].assignedDriverId
           Fits(s) == /\ ship'[s].assignedDriverId \in Drivers
                      /\ Found(s) /\ ship[s].status \in Assignable
<1>1. IInv /\ SeqInv /\ [Next]_vars =>
        \A w \in Workers, s \in Shipments :
          handler[w].at = "assign.write" /\ Changed(s) => Fits(s)
  <2> SUFFICES ASSUME IInv, SeqInv, [Next]_vars, NEW s \in Shipments,
                      handler[x].at = "assign.write", Changed(s)
               PROVE  Fits(s)
    OBVIOUS
  <2>1. x \in Workers /\ Fresh(handler[x])
    BY DEF SeqInv
  <2>2. AssignWrite(x)
    <3>1. ship' # ship
      OBVIOUS
    <3>2. ~Fail(x) /\ ~\E c \in Clients : GatewayNext(c)
      BY <3>1 DEF Fail, GatewayNext, Subscribe, Disconnect, rows
    <3> QED BY <2>1, <3>1, <3>2, AssignOnly DEF Next, vars
  <2>3. /\ Found(handler[x].shipmentId)
        /\ ship[handler[x].shipmentId].status \in Assignable
        /\ handler[x].driverId \in Drivers
    BY <2>1 DEF Fresh
  <2>4. s = handler[x].shipmentId /\ ship'[s].assignedDriverId = handler[x].driverId
    BY <2>2 DEF AssignWrite, IInv, TypeOK, Ships
  <2> QED BY <2>3, <2>4
<1>2. IInv /\ SeqInv /\ [Next]_vars =>
        [\A w \in Workers, s \in Shipments :
           /\ handler[w].at = "assign.write"
           /\ ship'[s].assignedDriverId # ship[s].assignedDriverId
           => /\ ship'[s].assignedDriverId \in Drivers
              /\ Found(s) /\ ship[s].status \in Assignable]_vars
  BY <1>1
<1>3. Spec => []SeqInv
  BY SeqInvHolds
<1> QED BY <1>2, <1>3, InvariantHolds, PTL DEF Spec, AssignmentsFit

\* One request at a time, "none (final state)" is true of every endpoint: the
\* violation that several requests reach needs two of them to overlap.
THEOREM FinalIsFinal ==
  ASSUME NEW x, Workers = {x}
  PROVE  Spec => FinalStatusIsFinal
<1>1. IInv /\ IInv' /\ SeqInv /\ [Next]_vars =>
        \A s \in Shipments :
          ship[s].status \in Final => ship'[s].status = ship[s].status
  <2> SUFFICES ASSUME IInv, IInv', SeqInv, [Next]_vars, NEW s \in Shipments,
                      ship[s].status \in Final
               PROVE  ship'[s].status = ship[s].status
    OBVIOUS
  <2>1. CASE UNCHANGED events
    BY <2>1, StatusNeedsEvent
  <2>2. ASSUME NEW r \in Shipments, StrictCommit(r)
        PROVE  ship'[s].status = ship[s].status
    <3>1. PICK t \in Statuses, e \in Events :
             /\ t \in VALID_TRANSITIONS[ship[r].status]
             /\ \A q \in Shipments \ {r} : ship'[q] = ship[q]
      BY <2>2, CommitParts
    <3>2. r # s
      BY <3>1 DEF Final
    <3> QED BY <3>1, <3>2
  <2>3. ASSUME NEW r \in Shipments, StrictLog(r)
        PROVE  ship'[s].status = ship[s].status
    BY <2>3 DEF StrictLog
  <2> QED BY <2>1, <2>2, <2>3, NextStrict DEF StrictStep
<1>2. IInv /\ IInv' /\ SeqInv /\ [Next]_vars =>
        [\A s \in Shipments :
           ship[s].status \in Final => ship'[s].status = ship[s].status]_vars
  BY <1>1
<1>3. Spec => []SeqInv
  BY SeqInvHolds
<1> QED BY <1>2, <1>3, InvariantHolds, PTL DEF Spec, FinalStatusIsFinal

===============================================================================
