---------------------------- MODULE LogisticsProofs ----------------------------
(***************************************************************************)
(* Theorems about Logistics, for every number of shipments, users, clients *)
(* and workers and whatever the bounds.                                    *)
(*                                                                         *)
(* The argument has three layers.  First, what the local variables of a    *)
(* handler say about the rows (Shape, Facts): the status it has read is    *)
(* one the shipment has held, its shipment exists, and so on.  These facts *)
(* survive the steps of the other handlers because rows only grow.         *)
(* Second, every action of Next is one of six effects on the rows          *)
(* (RowStep), and leaves a handler about which the facts hold.  Third,      *)
(* each property is shown for the six effects instead of the 32 actions.   *)
(***************************************************************************)
EXTENDS Logistics, TLAPS

-------------------------------------------------------------------------------
(* The inductive invariant *)

Creating == {"create.find", "create.insert"}
Reader == {"status.write", "bulk.write", "receive.check", "receive.write",
           "outbound.item", "outbound.write", "gps.insert", "gps.emit"}

\* What the local variables of a handler are, by the await it is at.
Shape(h) ==
  /\ h.at \notin {"idle", "bulk.find"} => h.shipmentId \in Shipments
  /\ h.at \in {"idle", "bulk.find"} => h.shipmentId = Null
  /\ h.at \in {"status.write", "bulk.write"} =>
       h.seen \in Statuses /\ h.to \in VALID_TRANSITIONS[h.seen]
  /\ h.at \in {"receive.check", "receive.write"} => h.seen = "PENDING"
  /\ h.at \in {"outbound.item", "outbound.write"} => h.seen = "PROCESSING"
  /\ h.at \in {"gps.insert", "gps.emit"} =>
       h.seen \in Statuses /\ h.number \in Numbers
  /\ h.at = "create.insert" => h.number \in Numbers
  /\ h.at \in {"bulk.find", "bulk.write"} => h.todo # <<>>

\* What they say about the rows.
Facts(h) ==
  LET s == h.shipmentId IN
  /\ h.at \in Creating => ~Exists(s)
  /\ h.at \notin Creating \cup {"idle", "bulk.find"} => Exists(s)
  /\ h.at \in Reader => h.seen \in Held(s)
  /\ h.at \in {"outbound.write", "move.write"} => Stored(s)
  /\ h.at \in {"gps.insert", "gps.emit"} => h.number = ship[s].trackingNumber

\* While a create has not inserted its row, no other handler knows the id.
CreatesAlone ==
  \A v, w \in Workers :
    v # w /\ handler[v].at \in Creating
      => handler[w].shipmentId # handler[v].shipmentId

\* An id that is not in the table has no events and no item.
NothingBeforeInsert ==
  \A s \in Shipments :
    ~Exists(s) => ship[s] = NoRow /\ events[s] = <<>> /\ item[s].state = "none"

IInv ==
  /\ TypeOK
  /\ \A w \in Workers : Shape(handler[w]) /\ Facts(handler[w])
  /\ CreatesAlone
  /\ NothingBeforeInsert
  /\ TrailMatchesStatus

-------------------------------------------------------------------------------
(* The effects of a step on the rows *)

\* The effects name the shipment of the acting handler, s.
Inserts(w, s) ==
  /\ handler[w].at = "create.insert"
  /\ \E n \in Numbers :
       /\ \A t \in Shipments : ship[t].trackingNumber # n
       /\ ship' = [ship EXCEPT ![s] = [NoRow EXCEPT !.trackingNumber = n]]
  /\ UNCHANGED <<events, item>>

Commits(s) ==
  /\ Exists(s)
  /\ \E p \in Held(s), t \in Statuses, note \in ChangeNotes,
        u \in Users \cup {Null} :
       /\ t \in VALID_TRANSITIONS[p]
       /\ CommitStatus(s, t, note, u)
       /\ \/ note = "status" /\ UNCHANGED item
          \/ /\ note = "received" /\ ~Stored(s)
             /\ \E loc \in Locations \cup {Null} :
                  item' = [item EXCEPT ![s] = [state |-> "inStock", location |-> loc]]
          \/ /\ note = "outbound" /\ Stored(s)
             /\ item' = [item EXCEPT ![s].state = "out"]

Logs(s) ==
  /\ Exists(s)
  /\ \E e \in Events :
       /\ e.note \notin ChangeNotes
       /\ e.note = "gps" => e.status \in Held(s)
       /\ AppendEvent(s, e)
  /\ UNCHANGED <<ship, item>>

Touches(s) ==
  /\ Exists(s)
  /\ \E r \in Ships :
       /\ r.trackingNumber = ship[s].trackingNumber
       /\ r.status = ship[s].status
       /\ ship[s].isDeleted => r.isDeleted
       /\ ship' = [ship EXCEPT ![s] = r]
  /\ UNCHANGED <<events, item>>

Moves(s) ==
  /\ Stored(s)
  /\ \E loc \in Locations \cup {Null} : item' = [item EXCEPT ![s].location = loc]
  /\ UNCHANGED <<ship, events>>

RowStep(w) ==
  LET s == handler[w].shipmentId IN
  \/ UNCHANGED rows
  \/ /\ s \in Shipments
     /\ handler[w].at \notin {"idle", "bulk.find", "move.write"}
     /\ Inserts(w, s) \/ Commits(s) \/ Logs(s) \/ Touches(s)
  \/ s \in Shipments /\ Moves(s)

\* Where the shipment of the handler that a step leaves behind comes from.
Origin(w, h) ==
  LET s == h.shipmentId IN
  \/ h.at \in {"idle", "bulk.find"}
  \/ /\ s = handler[w].shipmentId
     /\ handler[w].at \notin {"idle", "bulk.find", "move.write"}
  \/ Found(s)
  \/ h.at = "move.write" /\ Stored(s)
  \/ ~Exists(s) /\ \A v \in Workers : handler[v].shipmentId # s

\* What every step of worker w comes to.
Outcome(w) ==
  /\ RowStep(w)
  /\ \E h \in Handlers :
       /\ Goto(w, h)
       /\ Shape(h) /\ Facts(h)' /\ Origin(w, h)

-------------------------------------------------------------------------------
(* Lemmas *)

LEMMA TransitionsType ==
  /\ VALID_TRANSITIONS \in [Statuses -> SUBSET Statuses]
  /\ "PROCESSING" \in VALID_TRANSITIONS["PENDING"]
  /\ "READY_FOR_PICKUP" \in VALID_TRANSITIONS["PROCESSING"]
BY DEF VALID_TRANSITIONS, Statuses

LEMMA HeadTailType ==
  ASSUME NEW S, NEW q \in Seq(S)
  PROVE  /\ q # <<>> => Head(q) \in S
         /\ Len(q) > 1 => Tail(q) \in Seq(S) /\ Tail(q) # <<>>
<1>1. ASSUME q # <<>> PROVE Head(q) \in S
  BY <1>1
<1>2. ASSUME Len(q) > 1 PROVE Tail(q) \in Seq(S) /\ Tail(q) # <<>>
  <2>1. Tail(q) \in Seq(S) /\ Len(Tail(q)) = Len(q) - 1
    BY <1>2
  <2>2. Len(Tail(q)) # 0
    BY <1>2, <2>1
  <2> QED BY <2>1, <2>2
<1> QED BY <1>1, <1>2

LEMMA BlankType == Blank \in Handlers /\ Shape(Blank) /\ Facts(Blank)
BY DEF Blank, Handlers, Stages, Shape, Facts, Creating, Reader

\* The status of a row is one the shipment has held.
LEMMA StatusIsHeld ==
  ASSUME IInv, NEW s \in Shipments
  PROVE  ship[s].status \in Held(s)
BY DEF IInv, TrailMatchesStatus, Held

\* An event is appended to the log of one shipment: positions keep their
\* events, and what the shipment has held, it has held.
LEMMA AppendedLog ==
  ASSUME IInv, NEW s \in Shipments, NEW e \in Events, AppendEvent(s, e)
  PROVE  /\ events' \in [Shipments -> Seq(Events)]
         /\ \A t \in Shipments \ {s} : events'[t] = events[t]
         /\ Len(events[s]) \in Nat
         /\ DOMAIN events[s] = 1 .. Len(events[s])
         /\ DOMAIN events'[s] = 1 .. (Len(events[s]) + 1)
         /\ \A i \in DOMAIN events[s] : events'[s][i] = events[s][i]
         /\ events'[s][Len(events[s]) + 1] = e
<1>1. events \in [Shipments -> Seq(Events)] /\ events[s] \in Seq(Events)
  BY DEF IInv, TypeOK
<1>2. /\ events' \in [Shipments -> Seq(Events)]
      /\ \A t \in Shipments \ {s} : events'[t] = events[t]
      /\ events'[s] = Append(events[s], e)
  BY <1>1 DEF AppendEvent
<1> QED BY <1>1, <1>2

LEMMA HeldGrows ==
  ASSUME IInv, NEW s \in Shipments, NEW e \in Events, AppendEvent(s, e),
         NEW t \in Shipments
  PROVE  /\ Changes(t) \subseteq Changes(t)'
         /\ Held(t) \subseteq Held(t)'
<1>1. CASE t # s
  BY <1>1, AppendedLog DEF Held, Changes
<1>2. CASE t = s
  <2>1. \A i \in DOMAIN events[s] : i \in DOMAIN events'[s]
    BY AppendedLog
  <2> QED BY <1>2, <2>1, AppendedLog DEF Held, Changes
<1> QED BY <1>1, <1>2

\* A request that is rejected changes nothing.
LEMMA RejectedOutcome ==
  ASSUME IInv, NEW w \in Workers, UNCHANGED <<rows, handler>>
  PROVE  Outcome(w)
<1>1. Goto(w, handler[w]) /\ handler[w] \in Handlers
  BY DEF IInv, TypeOK, Goto
<1>2. Shape(handler[w]) /\ Facts(handler[w])'
  BY DEF IInv, Facts, rows, Exists, Held, Changes, Stored
<1>3. Origin(w, handler[w])
  BY DEF IInv, Origin, Facts, Creating
<1> QED BY <1>1, <1>2, <1>3 DEF Outcome, RowStep

\* A handler that ends.
LEMMA FinishOutcome ==
  ASSUME IInv, NEW w \in Workers, RowStep(w), Finish(w)
  PROVE  Outcome(w)
<1>1. Facts(Blank)'
  BY DEF Blank, Facts, Creating, Reader
<1>2. Origin(w, Blank)
  BY DEF Origin, Blank
<1> QED BY <1>1, <1>2, BlankType DEF Outcome, Finish

\* A step that only reads: the handler goes on with what it has read.
LEMMA ReadOutcome ==
  ASSUME IInv, NEW w \in Workers, NEW h \in Handlers, Shape(h), Facts(h),
         Origin(w, h), UNCHANGED rows, Goto(w, h)
  PROVE  Outcome(w)
<1>1. Facts(h)'
  BY DEF Facts, rows, Exists, Held, Changes, Stored
<1> QED BY <1>1 DEF Outcome, RowStep

\* Types of the values that a request's handler starts from.
LEMMA ValueTypes ==
  ASSUME IInv
  PROVE  /\ \A u \in Callers : /\ CurrentUser(u, "sub") \in Users \cup {Null}
                               /\ CurrentUser(u, "id") \in Users \cup {Null}
         /\ \A s \in Shipments :
              /\ ship[s].status \in Statuses
              /\ ship[s].trackingNumber \in Numbers \cup {Null}
              /\ Exists(s) => ship[s].trackingNumber \in Numbers
         /\ \A w \in Workers : handler[w] \in Handlers
BY UsersAssumption DEF IInv, TypeOK, Ships, CurrentUser, Exists

\* A handler that ends by writing a column of a row which is neither the
\* number nor the status.
LEMMA TouchOutcome ==
  ASSUME IInv, NEW w \in Workers, NEW s \in Shipments, NEW r \in Ships,
         s = handler[w].shipmentId, Exists(s), Finish(w),
         handler[w].at \notin {"idle", "bulk.find", "move.write"},
         r.trackingNumber = ship[s].trackingNumber,
         r.status = ship[s].status,
         ship[s].isDeleted => r.isDeleted,
         ship' = [ship EXCEPT ![s] = r], UNCHANGED <<events, item>>
  PROVE  Outcome(w)
<1>1. Touches(s)
  BY DEF Touches
<1> QED BY <1>1, FinishOutcome DEF RowStep

-------------------------------------------------------------------------------
(* The outcome of each action of ShipmentsService *)

\* Another round of create's loop.
LEMMA DrawOutcome ==
  ASSUME IInv, NEW w \in Workers, UNCHANGED rows, NEW h \in Handlers,
         h.shipmentId \in Shipments, ~Exists(h.shipmentId), DrawNumber(w, h),
         \/ /\ h.shipmentId = handler[w].shipmentId
            /\ handler[w].at = "create.find"
         \/ \A v \in Workers : handler[v].shipmentId # h.shipmentId
  PROVE  Outcome(w)
<1>1. PICK n \in Numbers :
        \/ Goto(w, [h EXCEPT !.at = "create.insert", !.number = n])
        \/ Goto(w, [h EXCEPT !.at = "create.find", !.attempts = h.attempts + 1])
        \/ Finish(w)
  BY DEF DrawNumber
<1>2. CASE Finish(w)
  BY <1>2, FinishOutcome DEF RowStep
<1>3. CASE Goto(w, [h EXCEPT !.at = "create.insert", !.number = n])
  <2> DEFINE g == [h EXCEPT !.at = "create.insert", !.number = n]
  <2>1. g \in Handlers
    BY DEF Handlers, Stages
  <2>2. g.at = "create.insert" /\ g.number = n /\ g.shipmentId = h.shipmentId
    BY DEF Handlers
  <2>3. Shape(g) /\ Facts(g) /\ Origin(w, g)
    BY <2>2 DEF Shape, Facts, Origin, Creating, Reader
  <2> QED BY <1>3, <2>1, <2>3, ReadOutcome
<1>4. CASE Goto(w, [h EXCEPT !.at = "create.find", !.attempts = h.attempts + 1])
  <2> DEFINE g == [h EXCEPT !.at = "create.find", !.attempts = h.attempts + 1]
  <2>1. g \in Handlers
    <3>1. h.attempts + 1 \in Nat
      BY DEF Handlers
    <3> QED BY <3>1 DEF Handlers, Stages
  <2>2. g.at = "create.find" /\ g.shipmentId = h.shipmentId
    BY DEF Handlers
  <2>3. Shape(g) /\ Facts(g) /\ Origin(w, g)
    BY <2>2 DEF Shape, Facts, Origin, Creating, Reader
  <2> QED BY <1>4, <2>1, <2>3, ReadOutcome
<1> QED BY <1>1, <1>2, <1>3, <1>4

LEMMA CreateStartOutcome ==
  ASSUME IInv, NEW w \in Workers, CreateStart(w) PROVE Outcome(w)
<1>1. PICK u \in Callers, s \in Shipments :
        /\ ~Exists(s) /\ \A v \in Workers : handler[v].shipmentId # s
        /\ DrawNumber(w, [Blank EXCEPT !.user = CurrentUser(u, "sub"),
                                       !.shipmentId = s])
  BY DEF CreateStart
<1> DEFINE h == [Blank EXCEPT !.user = CurrentUser(u, "sub"), !.shipmentId = s]
<1>2. h \in Handlers
  <2>1. CurrentUser(u, "sub") \in Users \cup {Null}
    BY ValueTypes
  <2> QED BY <2>1, BlankType DEF Handlers
<1>3. h.shipmentId = s
  BY DEF Blank
<1> QED BY <1>1, <1>2, <1>3, DrawOutcome DEF CreateStart

LEMMA CreateRetryOutcome ==
  ASSUME IInv, NEW w \in Workers, CreateRetry(w) PROVE Outcome(w)
<1>1. /\ handler[w] \in Handlers /\ handler[w].shipmentId \in Shipments
      /\ ~Exists(handler[w].shipmentId)
  BY ValueTypes DEF CreateRetry, IInv, Shape, Facts, Creating
<1> QED BY <1>1, DrawOutcome DEF CreateRetry

LEMMA CreateInsertOutcome ==
  ASSUME IInv, NEW w \in Workers, CreateInsert(w) PROVE Outcome(w)
<1> PICK h \in Handlers, s \in Shipments : h = handler[w] /\ s = h.shipmentId
  BY ValueTypes DEF CreateInsert, IInv, Shape
<1>1. ~Exists(s) /\ h.number \in Numbers /\ h.at = "create.insert"
  BY DEF CreateInsert, IInv, Shape, Facts, Creating
<1>2. CASE \E t \in Shipments : ship[t].trackingNumber = h.number
  BY <1>2, FinishOutcome DEF CreateInsert, RowStep, rows
<1>3. CASE \A t \in Shipments : ship[t].trackingNumber # h.number
  <2>1. /\ ship' = [ship EXCEPT ![s] = [NoRow EXCEPT !.trackingNumber = h.number]]
        /\ Goto(w, [h EXCEPT !.at = "create.event"])
        /\ UNCHANGED <<events, item>>
    BY <1>3 DEF CreateInsert
  <2>2. RowStep(w)
    BY <1>1, <1>3, <2>1 DEF RowStep, Inserts
  <2> DEFINE g == [h EXCEPT !.at = "create.event"]
  <2>3. g \in Handlers
    BY <1>1 DEF Handlers, Stages
  <2>4. g.at = "create.event" /\ g.shipmentId = s
    BY <1>1 DEF Handlers
  <2>5. ship'[s].trackingNumber = h.number
    BY <1>1, <2>1 DEF IInv, TypeOK, NoRow
  <2>6. Exists(s)'
    BY <1>1, <2>5, NullAssumption DEF Exists
  <2>7. Shape(g) /\ Origin(w, g)
    BY <1>1, <2>4 DEF Shape, Origin
  <2>8. Facts(g)'
    BY <2>4, <2>6 DEF Facts, Creating, Reader
  <2> QED BY <2>1, <2>2, <2>3, <2>7, <2>8 DEF Outcome
<1> QED BY <1>2, <1>3

LEMMA CreateEventOutcome ==
  ASSUME IInv, NEW w \in Workers, CreateEvent(w) PROVE Outcome(w)
<1> PICK h \in Handlers, s \in Shipments : h = handler[w] /\ s = h.shipmentId
  BY ValueTypes DEF CreateEvent, IInv, Shape
<1> DEFINE e == [status |-> "DRAFT", note |-> "created", createdBy |-> h.user]
<1>1. Exists(s) /\ h.at = "create.event"
  BY DEF CreateEvent, IInv, Facts, Creating
<1>2. e \in Events
  BY DEF Events, Handlers, Notes, Statuses
<1>3. Logs(s)
  BY <1>1, <1>2 DEF CreateEvent, Logs, ChangeNotes
<1> QED BY <1>1, <1>3, FinishOutcome DEF RowStep, CreateEvent

LEMMA UpdateFindOutcome ==
  ASSUME IInv, NEW w \in Workers, UpdateFind(w) PROVE Outcome(w)
<1>1. CASE UNCHANGED handler
  BY <1>1, RejectedOutcome DEF UpdateFind
<1>2. CASE ~UNCHANGED handler
  <2>1. PICK s \in Shipments, d \in Users \cup {Null} :
          /\ Found(s)
          /\ Goto(w, [Blank EXCEPT !.at = "update.write", !.shipmentId = s,
                                !.driverId = d])
    BY <1>2 DEF UpdateFind
  <2> DEFINE h == [Blank EXCEPT !.at = "update.write", !.shipmentId = s,
                                !.driverId = d]
  <2>2. h \in Handlers
    BY BlankType DEF Handlers, Stages
  <2>3. Shape(h)
    BY DEF Shape, Blank
  <2>4. Facts(h) /\ Origin(w, h)
    BY <2>1 DEF Facts, Origin, Creating, Reader, Blank, Found
  <2> QED BY <2>1, <2>2, <2>3, <2>4, ReadOutcome DEF UpdateFind
<1> QED BY <1>1, <1>2

LEMMA UpdateWriteOutcome ==
  ASSUME IInv, NEW w \in Workers, UpdateWrite(w) PROVE Outcome(w)
<1> PICK h \in Handlers, s \in Shipments : h = handler[w] /\ s = h.shipmentId
  BY ValueTypes DEF UpdateWrite, IInv, Shape
<1>1. Exists(s) /\ h.at = "update.write" /\ Finish(w) /\ UNCHANGED <<events, item>>
  BY DEF UpdateWrite, IInv, Facts, Creating
<1>2. CASE UNCHANGED ship
  BY <1>1, <1>2, FinishOutcome DEF RowStep, rows
<1>3. CASE ship' = [ship EXCEPT ![s].assignedDriverId = h.driverId]
  <2> DEFINE r == [ship[s] EXCEPT !.assignedDriverId = h.driverId]
  <2>1. ship[s] \in Ships
    BY DEF IInv, TypeOK
  <2>2. r \in Ships
    BY <2>1 DEF Ships, Handlers
  <2>3. /\ r.trackingNumber = ship[s].trackingNumber /\ r.status = ship[s].status
        /\ ship[s].isDeleted => r.isDeleted
    BY <2>1 DEF Ships
  <2>4. ship' = [ship EXCEPT ![s] = r]
    BY <1>3 DEF UpdateWrite
  <2> QED BY <1>1, <2>2, <2>3, <2>4, TouchOutcome
<1> QED BY <1>2, <1>3 DEF UpdateWrite

LEMMA StatusFindOutcome ==
  ASSUME IInv, NEW w \in Workers, StatusFind(w) PROVE Outcome(w)
<1>1. CASE UNCHANGED handler
  BY <1>1, RejectedOutcome DEF StatusFind
<1>2. CASE ~UNCHANGED handler
  <2>1. PICK u \in Callers, s \in Shipments, t \in Statuses :
          /\ Validates(s, t)
          /\ Goto(w, [Blank EXCEPT !.at = "status.write",
                     !.user = CurrentUser(u, "sub"), !.shipmentId = s,
                     !.seen = ship[s].status, !.to = t])
    BY <1>2 DEF StatusFind
  <2> DEFINE h == [Blank EXCEPT !.at = "status.write",
                     !.user = CurrentUser(u, "sub"), !.shipmentId = s,
                     !.seen = ship[s].status, !.to = t]
  <2>2. h \in Handlers
    <3>1. ship[s].status \in Statuses /\ CurrentUser(u, "sub") \in Users \cup {Null}
      BY ValueTypes
    <3> QED BY <3>1, BlankType DEF Handlers, Stages
  <2>3. Shape(h)
    BY <2>1, ValueTypes DEF Shape, Blank, Validates
  <2>4. Facts(h) /\ Origin(w, h)
    BY <2>1, StatusIsHeld DEF Facts, Origin, Creating, Reader, Blank, Found, Validates
  <2> QED BY <2>1, <2>2, <2>3, <2>4, ReadOutcome DEF StatusFind
<1> QED BY <1>1, <1>2

LEMMA DeleteFindOutcome ==
  ASSUME IInv, NEW w \in Workers, DeleteFind(w) PROVE Outcome(w)
<1>1. CASE UNCHANGED handler
  BY <1>1, RejectedOutcome DEF DeleteFind
<1>2. CASE ~UNCHANGED handler
  <2>1. PICK s \in Shipments :
          /\ Found(s)
          /\ Goto(w, [Blank EXCEPT !.at = "delete.write", !.shipmentId = s])
    BY <1>2 DEF DeleteFind
  <2> DEFINE h == [Blank EXCEPT !.at = "delete.write", !.shipmentId = s]
  <2>2. h \in Handlers
    BY BlankType DEF Handlers, Stages
  <2>3. Shape(h)
    BY DEF Shape, Blank
  <2>4. Facts(h) /\ Origin(w, h)
    BY <2>1 DEF Facts, Origin, Creating, Reader, Blank, Found
  <2> QED BY <2>1, <2>2, <2>3, <2>4, ReadOutcome DEF DeleteFind
<1> QED BY <1>1, <1>2

LEMMA DeleteWriteOutcome ==
  ASSUME IInv, NEW w \in Workers, DeleteWrite(w) PROVE Outcome(w)
<1> PICK h \in Handlers, s \in Shipments : h = handler[w] /\ s = h.shipmentId
  BY ValueTypes DEF DeleteWrite, IInv, Shape
<1>1. Exists(s) /\ h.at = "delete.write" /\ Finish(w) /\ UNCHANGED <<events, item>>
  BY DEF DeleteWrite, IInv, Facts, Creating
<1> DEFINE r == [ship[s] EXCEPT !.isDeleted = TRUE]
<1>2. ship[s] \in Ships
  BY DEF IInv, TypeOK
<1>3. r \in Ships
  BY <1>2 DEF Ships, Handlers
<1>4. /\ r.trackingNumber = ship[s].trackingNumber /\ r.status = ship[s].status
      /\ ship[s].isDeleted => r.isDeleted
  BY <1>2 DEF Ships
<1>5. ship' = [ship EXCEPT ![s] = r]
  BY DEF DeleteWrite
<1> QED BY <1>1, <1>3, <1>4, <1>5, TouchOutcome

LEMMA StatusWriteOutcome ==
  ASSUME IInv, NEW w \in Workers, StatusWrite(w) PROVE Outcome(w)
<1> PICK h \in Handlers, s \in Shipments : h = handler[w] /\ s = h.shipmentId
  BY ValueTypes DEF StatusWrite, IInv, Shape
<1>1. /\ h.at = "status.write" /\ Exists(s) /\ h.seen \in Held(s)
      /\ h.to \in Statuses /\ h.to \in VALID_TRANSITIONS[h.seen]
      /\ h.user \in Users \cup {Null}
  BY TransitionsType DEF StatusWrite, IInv, Shape, Facts, Creating, Reader, Handlers
<1>2. Commits(s)
  BY <1>1 DEF Commits, StatusWrite, ChangeNotes
<1> QED BY <1>1, <1>2, FinishOutcome DEF RowStep, StatusWrite

LEMMA BulkHandlerType ==
  ASSUME NEW u \in Users \cup {Null},
         NEW q \in Seq([shipmentId : Shipments, status : Statuses])
  PROVE  [Blank EXCEPT !.at = "bulk.find", !.user = u, !.todo = q] \in Handlers
BY BlankType DEF Handlers, Stages

LEMMA BulkItemType ==
  ASSUME NEW h \in Handlers, NEW s \in Shipments, NEW t \in Statuses,
         NEW seen \in Statuses
  PROVE  [h EXCEPT !.at = "bulk.write", !.shipmentId = s, !.seen = seen,
                   !.to = t] \in Handlers
BY DEF Handlers, Stages

\* The loop of bulkUpdateStatus goes on, or ends.
LEMMA NextItemOutcome ==
  ASSUME IInv, NEW w \in Workers, RowStep(w), NextItem(w)
  PROVE  Outcome(w)
<1> PICK h \in Handlers : h = handler[w]
  BY ValueTypes
<1>1. CASE ~(Len(h.todo) > 1)
  BY <1>1, FinishOutcome DEF NextItem
<1>2. CASE Len(h.todo) > 1
  <2>2. h.todo \in Seq([shipmentId : Shipments, status : Statuses])
        /\ h.user \in Users \cup {Null}
    BY DEF Handlers
  <2>3. PICK q \in Seq([shipmentId : Shipments, status : Statuses]) :
          q = Tail(h.todo) /\ q # <<>>
    BY <1>2, <2>2, HeadTailType
  <2> DEFINE g == [Blank EXCEPT !.at = "bulk.find", !.user = h.user, !.todo = q]
  <2>1. Goto(w, g)
    BY <1>2, <2>3 DEF NextItem
  <2>4. g \in Handlers
    BY <2>2, BulkHandlerType
  <2>5. g.at = "bulk.find" /\ g.shipmentId = Null /\ g.todo = q
    BY DEF Blank
  <2>6. Shape(g) /\ Origin(w, g)
    BY <2>3, <2>5 DEF Shape, Origin
  <2>7. Facts(g)'
    BY <2>5 DEF Facts, Creating, Reader
  <2> QED BY <2>1, <2>4, <2>6, <2>7 DEF Outcome
<1> QED BY <1>1, <1>2

LEMMA BulkStartOutcome ==
  ASSUME IInv, NEW w \in Workers, BulkStart(w) PROVE Outcome(w)
<1>1. PICK u \in Callers, items \in BulkRequests :
        /\ items # <<>>
        /\ Goto(w, [Blank EXCEPT !.at = "bulk.find",
                      !.user = CurrentUser(u, "sub"), !.todo = items])
  BY DEF BulkStart
<1> DEFINE h == [Blank EXCEPT !.at = "bulk.find",
                   !.user = CurrentUser(u, "sub"), !.todo = items]
<1>2. h \in Handlers
  <2>1. /\ CurrentUser(u, "sub") \in Users \cup {Null}
        /\ items \in Seq([shipmentId : Shipments, status : Statuses])
    BY ValueTypes, BoundsAssumption
  <2> QED BY <2>1, BlankType DEF Handlers, Stages
<1>3. Shape(h) /\ Facts(h) /\ Origin(w, h)
  BY <1>1 DEF Shape, Facts, Origin, Blank, Creating, Reader
<1> QED BY <1>1, <1>2, <1>3, ReadOutcome DEF BulkStart

LEMMA BulkFindOutcome ==
  ASSUME IInv, NEW w \in Workers, BulkFind(w) PROVE Outcome(w)
<1> PICK h \in Handlers : h = handler[w]
  BY ValueTypes
<1>1. h.at = "bulk.find" /\ h.todo # <<>>
  BY DEF BulkFind, IInv, Shape
<1>2. PICK s \in Shipments, t \in Statuses :
        s = Head(h.todo).shipmentId /\ t = Head(h.todo).status
  <2>1. h.todo \in Seq([shipmentId : Shipments, status : Statuses])
    BY DEF Handlers
  <2>2. Head(h.todo) \in [shipmentId : Shipments, status : Statuses]
    BY <1>1, <2>1, HeadTailType
  <2> QED BY <2>2
<1>3. CASE ~Validates(s, t)
  BY <1>1, <1>2, <1>3, NextItemOutcome DEF BulkFind, RowStep
<1>4. CASE Validates(s, t)
  <2> DEFINE g == [h EXCEPT !.at = "bulk.write", !.shipmentId = s,
                            !.seen = ship[s].status, !.to = t]
  <2>1. Goto(w, g) /\ UNCHANGED rows
    BY <1>2, <1>4 DEF BulkFind
  <2>2. ship[s].status \in Statuses
    BY <1>2, ValueTypes
  <2>3. g \in Handlers
    BY <2>2, BulkItemType
  <2>4. /\ g.at = "bulk.write" /\ g.shipmentId = s /\ g.seen = ship[s].status
        /\ g.to = t /\ g.todo = h.todo
    BY DEF Handlers
  <2>5. Shape(g)
    BY <1>1, <1>2, <1>4, <2>2, <2>4 DEF Shape, Validates
  <2>6. Facts(g) /\ Origin(w, g)
    BY <1>2, <1>4, <2>4, StatusIsHeld DEF Facts, Origin, Creating, Validates, Found
  <2> QED BY <2>1, <2>3, <2>5, <2>6, ReadOutcome
<1> QED BY <1>3, <1>4

LEMMA BulkWriteOutcome ==
  ASSUME IInv, NEW w \in Workers, BulkWrite(w) PROVE Outcome(w)
<1> PICK h \in Handlers, s \in Shipments : h = handler[w] /\ s = h.shipmentId
  BY ValueTypes DEF BulkWrite, IInv, Shape
<1>1. /\ h.at = "bulk.write" /\ Exists(s) /\ h.seen \in Held(s)
      /\ h.to \in Statuses /\ h.to \in VALID_TRANSITIONS[h.seen]
      /\ h.user \in Users \cup {Null}
  BY TransitionsType DEF BulkWrite, IInv, Shape, Facts, Creating, Reader, Handlers
<1>2. Commits(s)
  BY <1>1 DEF Commits, BulkWrite, ChangeNotes
<1> QED BY <1>1, <1>2, NextItemOutcome DEF RowStep, BulkWrite

LEMMA BulkItemFailsOutcome ==
  ASSUME IInv, NEW w \in Workers, BulkItemFails(w) PROVE Outcome(w)
BY NextItemOutcome DEF BulkItemFails, RowStep

LEMMA ShipmentsOutcome ==
  ASSUME IInv, NEW w \in Workers, ShipmentsNext(w) PROVE Outcome(w)
BY CreateStartOutcome, CreateRetryOutcome, CreateInsertOutcome,
   CreateEventOutcome, UpdateFindOutcome, UpdateWriteOutcome,
   StatusFindOutcome, StatusWriteOutcome, DeleteFindOutcome,
   DeleteWriteOutcome, BulkStartOutcome, BulkFindOutcome, BulkWriteOutcome,
   BulkItemFailsOutcome
   DEF ShipmentsNext

-------------------------------------------------------------------------------
(* The outcome of each action of WarehouseService *)

LEMMA ReceiveFindOutcome ==
  ASSUME IInv, NEW w \in Workers, ReceiveFind(w) PROVE Outcome(w)
<1>1. CASE UNCHANGED handler
  BY <1>1, RejectedOutcome DEF ReceiveFind
<1>2. CASE ~UNCHANGED handler
  <2>1. PICK u \in Callers, s \in Shipments, loc \in Locations \cup {Null} :
          /\ Found(s) /\ ship[s].status = "PENDING"
          /\ Goto(w, [Blank EXCEPT !.at = "receive.check",
                     !.user = CurrentUser(u, "id"), !.shipmentId = s,
                     !.seen = ship[s].status, !.location = loc])
    BY <1>2 DEF ReceiveFind
  <2> DEFINE h == [Blank EXCEPT !.at = "receive.check",
                     !.user = CurrentUser(u, "id"), !.shipmentId = s,
                     !.seen = ship[s].status, !.location = loc]
  <2>2. h \in Handlers
    <3>1. ship[s].status \in Statuses /\ CurrentUser(u, "id") \in Users \cup {Null}
      BY ValueTypes
    <3> QED BY <3>1, BlankType DEF Handlers, Stages
  <2>3. Shape(h)
    BY <2>1, ValueTypes DEF Shape, Blank
  <2>4. Facts(h) /\ Origin(w, h)
    BY <2>1, StatusIsHeld DEF Facts, Origin, Creating, Reader, Blank, Found
  <2> QED BY <2>1, <2>2, <2>3, <2>4, ReadOutcome DEF ReceiveFind
<1> QED BY <1>1, <1>2

LEMMA ReceiveCheckOutcome ==
  ASSUME IInv, NEW w \in Workers, ReceiveCheck(w) PROVE Outcome(w)
<1> PICK h \in Handlers, s \in Shipments : h = handler[w] /\ s = h.shipmentId
  BY ValueTypes DEF ReceiveCheck, IInv, Shape
<1>1. h.at = "receive.check" /\ Shape(h) /\ Facts(h) /\ UNCHANGED rows
  BY DEF ReceiveCheck, IInv
<1>2. CASE Stored(s)
  BY <1>1, <1>2, FinishOutcome DEF ReceiveCheck, RowStep
<1>3. CASE ~Stored(s)
  <2> DEFINE g == [h EXCEPT !.at = "receive.write"]
  <2>1. Goto(w, g)
    BY <1>3 DEF ReceiveCheck
  <2>2. g \in Handlers
    BY DEF Handlers, Stages
  <2>3. g.at = "receive.write" /\ g.shipmentId = s /\ g.seen = h.seen
    BY DEF Handlers
  <2>4. Shape(g) /\ Facts(g) /\ Origin(w, g)
    BY <1>1, <2>3 DEF Shape, Facts, Origin, Creating, Reader
  <2> QED BY <1>1, <2>1, <2>2, <2>4, ReadOutcome
<1> QED BY <1>2, <1>3

LEMMA ReceiveWriteOutcome ==
  ASSUME IInv, NEW w \in Workers, ReceiveWrite(w) PROVE Outcome(w)
<1> PICK h \in Handlers, s \in Shipments : h = handler[w] /\ s = h.shipmentId
  BY ValueTypes DEF ReceiveWrite, IInv, Shape
<1>1. /\ h.at = "receive.write" /\ Exists(s) /\ "PENDING" \in Held(s)
      /\ h.user \in Users \cup {Null} /\ h.location \in Locations \cup {Null}
      /\ Finish(w)
  BY DEF ReceiveWrite, IInv, Shape, Facts, Creating, Reader, Handlers
<1>2. CASE Stored(s)
  BY <1>1, <1>2, FinishOutcome DEF ReceiveWrite, RowStep
<1>3. CASE ~Stored(s)
  <2>1. /\ CommitStatus(s, "PROCESSING", "received", h.user)
        /\ item' = [item EXCEPT ![s] =
                      [state |-> "inStock", location |-> h.location]]
    BY <1>3 DEF ReceiveWrite
  <2>2. "PROCESSING" \in Statuses /\ "received" \in ChangeNotes
    BY DEF Statuses, ChangeNotes
  <2>3. Commits(s)
    BY <1>1, <1>3, <2>1, <2>2, TransitionsType DEF Commits
  <2> QED BY <1>1, <2>3, FinishOutcome DEF RowStep
<1> QED BY <1>2, <1>3

LEMMA OutboundFindOutcome ==
  ASSUME IInv, NEW w \in Workers, OutboundFind(w) PROVE Outcome(w)
<1>1. CASE UNCHANGED handler
  BY <1>1, RejectedOutcome DEF OutboundFind
<1>2. CASE ~UNCHANGED handler
  <2>1. PICK u \in Callers, s \in Shipments :
          /\ Found(s) /\ ship[s].status = "PROCESSING"
          /\ Goto(w, [Blank EXCEPT !.at = "outbound.item",
                     !.user = CurrentUser(u, "id"), !.shipmentId = s,
                     !.seen = ship[s].status])
    BY <1>2 DEF OutboundFind
  <2> DEFINE h == [Blank EXCEPT !.at = "outbound.item",
                     !.user = CurrentUser(u, "id"), !.shipmentId = s,
                     !.seen = ship[s].status]
  <2>2. h \in Handlers
    <3>1. ship[s].status \in Statuses /\ CurrentUser(u, "id") \in Users \cup {Null}
      BY ValueTypes
    <3> QED BY <3>1, BlankType DEF Handlers, Stages
  <2>3. Shape(h)
    BY <2>1, ValueTypes DEF Shape, Blank
  <2>4. Facts(h) /\ Origin(w, h)
    BY <2>1, StatusIsHeld DEF Facts, Origin, Creating, Reader, Blank, Found
  <2> QED BY <2>1, <2>2, <2>3, <2>4, ReadOutcome DEF OutboundFind
<1> QED BY <1>1, <1>2

LEMMA OutboundItemOutcome ==
  ASSUME IInv, NEW w \in Workers, OutboundItem(w) PROVE Outcome(w)
<1> PICK h \in Handlers, s \in Shipments : h = handler[w] /\ s = h.shipmentId
  BY ValueTypes DEF OutboundItem, IInv, Shape
<1>1. h.at = "outbound.item" /\ Shape(h) /\ Facts(h) /\ UNCHANGED rows
  BY DEF OutboundItem, IInv
<1>2. CASE ~Stored(s)
  BY <1>1, <1>2, FinishOutcome DEF OutboundItem, RowStep
<1>3. CASE Stored(s)
  <2> DEFINE g == [h EXCEPT !.at = "outbound.write"]
  <2>1. Goto(w, g)
    BY <1>3 DEF OutboundItem
  <2>2. g \in Handlers
    BY DEF Handlers, Stages
  <2>3. g.at = "outbound.write" /\ g.shipmentId = s /\ g.seen = h.seen
    BY DEF Handlers
  <2>4. Shape(g) /\ Facts(g) /\ Origin(w, g)
    BY <1>1, <1>3, <2>3 DEF Shape, Facts, Origin, Creating, Reader
  <2> QED BY <1>1, <2>1, <2>2, <2>4, ReadOutcome
<1> QED BY <1>2, <1>3

LEMMA OutboundWriteOutcome ==
  ASSUME IInv, NEW w \in Workers, OutboundWrite(w) PROVE Outcome(w)
<1> PICK h \in Handlers, s \in Shipments : h = handler[w] /\ s = h.shipmentId
  BY ValueTypes DEF OutboundWrite, IInv, Shape
<1>1. /\ h.at = "outbound.write" /\ Exists(s) /\ "PROCESSING" \in Held(s)
      /\ Stored(s) /\ h.user \in Users \cup {Null} /\ Finish(w)
  BY DEF OutboundWrite, IInv, Shape, Facts, Creating, Reader, Handlers
<1>2. /\ CommitStatus(s, "READY_FOR_PICKUP", "outbound", h.user)
      /\ item' = [item EXCEPT ![s].state = "out"]
  BY DEF OutboundWrite
<1>3. "READY_FOR_PICKUP" \in Statuses /\ "outbound" \in ChangeNotes
  BY DEF Statuses, ChangeNotes
<1>4. Commits(s)
  BY <1>1, <1>2, <1>3, TransitionsType DEF Commits
<1> QED BY <1>1, <1>4, FinishOutcome DEF RowStep

LEMMA MoveFindOutcome ==
  ASSUME IInv, NEW w \in Workers, MoveFind(w) PROVE Outcome(w)
<1>1. CASE UNCHANGED handler
  BY <1>1, RejectedOutcome DEF MoveFind
<1>2. CASE ~UNCHANGED handler
  <2>1. PICK s \in Shipments, loc \in Locations :
          /\ Stored(s)
          /\ Goto(w, [Blank EXCEPT !.at = "move.write", !.shipmentId = s,
                                   !.location = loc])
    BY <1>2 DEF MoveFind
  <2> DEFINE h == [Blank EXCEPT !.at = "move.write", !.shipmentId = s,
                                !.location = loc]
  <2>2. h \in Handlers
    BY BlankType DEF Handlers, Stages
  <2>3. Exists(s)
    BY <2>1 DEF Stored, IInv, NothingBeforeInsert
  <2>4. Shape(h) /\ Facts(h) /\ Origin(w, h)
    BY <2>1, <2>3 DEF Shape, Facts, Origin, Creating, Reader, Blank
  <2> QED BY <2>1, <2>2, <2>4, ReadOutcome DEF MoveFind
<1> QED BY <1>1, <1>2

LEMMA MoveWriteOutcome ==
  ASSUME IInv, NEW w \in Workers, MoveWrite(w) PROVE Outcome(w)
<1> PICK h \in Handlers, s \in Shipments : h = handler[w] /\ s = h.shipmentId
  BY ValueTypes DEF MoveWrite, IInv, Shape
<1>1. h.at = "move.write" /\ Stored(s) /\ h.location \in Locations \cup {Null}
  BY DEF MoveWrite, IInv, Facts, Handlers
<1>2. Moves(s)
  BY <1>1 DEF Moves, MoveWrite
<1> QED BY <1>2, FinishOutcome DEF RowStep, MoveWrite

LEMMA WarehouseOutcome ==
  ASSUME IInv, NEW w \in Workers, WarehouseNext(w) PROVE Outcome(w)
BY ReceiveFindOutcome, ReceiveCheckOutcome, ReceiveWriteOutcome,
   OutboundFindOutcome, OutboundItemOutcome, OutboundWriteOutcome,
   MoveFindOutcome, MoveWriteOutcome
   DEF WarehouseNext

-------------------------------------------------------------------------------
(* The outcome of each action of UsersService and TrackingService *)

LEMMA AssignFindOutcome ==
  ASSUME IInv, NEW w \in Workers, AssignFind(w) PROVE Outcome(w)
<1>1. CASE UNCHANGED handler
  BY <1>1, RejectedOutcome DEF AssignFind
<1>2. CASE ~UNCHANGED handler
  <2>1. PICK s \in Shipments, d \in Users :
          /\ Found(s)
          /\ Goto(w, [Blank EXCEPT !.at = "assign.write", !.shipmentId = s,
                     !.seen = ship[s].status, !.driverId = d])
    BY <1>2 DEF AssignFind
  <2> DEFINE h == [Blank EXCEPT !.at = "assign.write", !.shipmentId = s,
                     !.seen = ship[s].status, !.driverId = d]
  <2>2. h \in Handlers
    <3>1. ship[s].status \in Statuses
      BY ValueTypes
    <3> QED BY <3>1, BlankType DEF Handlers, Stages
  <2>3. Shape(h)
    BY <2>1, ValueTypes DEF Shape, Blank
  <2>4. Facts(h) /\ Origin(w, h)
    BY <2>1, StatusIsHeld DEF Facts, Origin, Creating, Reader, Blank, Found
  <2> QED BY <2>1, <2>2, <2>3, <2>4, ReadOutcome DEF AssignFind
<1> QED BY <1>1, <1>2

LEMMA AssignWriteOutcome ==
  ASSUME IInv, NEW w \in Workers, AssignWrite(w) PROVE Outcome(w)
<1> PICK h \in Handlers, s \in Shipments : h = handler[w] /\ s = h.shipmentId
  BY ValueTypes DEF AssignWrite, IInv, Shape
<1>1. Exists(s) /\ h.at = "assign.write" /\ Finish(w) /\ UNCHANGED <<events, item>>
  BY DEF AssignWrite, IInv, Facts, Creating
<1> DEFINE r == [ship[s] EXCEPT !.assignedDriverId = h.driverId]
<1>2. ship[s] \in Ships
  BY DEF IInv, TypeOK
<1>3. r \in Ships
  BY <1>2 DEF Ships, Handlers
<1>4. /\ r.trackingNumber = ship[s].trackingNumber /\ r.status = ship[s].status
      /\ ship[s].isDeleted => r.isDeleted
  BY <1>2 DEF Ships
<1>5. ship' = [ship EXCEPT ![s] = r]
  BY DEF AssignWrite
<1> QED BY <1>1, <1>3, <1>4, <1>5, TouchOutcome

LEMMA UnassignFindOutcome ==
  ASSUME IInv, NEW w \in Workers, UnassignFind(w) PROVE Outcome(w)
<1>1. CASE UNCHANGED handler
  BY <1>1, RejectedOutcome DEF UnassignFind
<1>2. CASE ~UNCHANGED handler
  <2>1. PICK s \in Shipments :
          /\ Found(s)
          /\ Goto(w, [Blank EXCEPT !.at = "unassign.write", !.shipmentId = s])
    BY <1>2 DEF UnassignFind
  <2> DEFINE h == [Blank EXCEPT !.at = "unassign.write", !.shipmentId = s]
  <2>2. h \in Handlers
    BY BlankType DEF Handlers, Stages
  <2>3. Shape(h)
    BY DEF Shape, Blank
  <2>4. Facts(h) /\ Origin(w, h)
    BY <2>1 DEF Facts, Origin, Creating, Reader, Blank, Found
  <2> QED BY <2>1, <2>2, <2>3, <2>4, ReadOutcome DEF UnassignFind
<1> QED BY <1>1, <1>2

LEMMA UnassignWriteOutcome ==
  ASSUME IInv, NEW w \in Workers, UnassignWrite(w) PROVE Outcome(w)
<1> PICK h \in Handlers, s \in Shipments : h = handler[w] /\ s = h.shipmentId
  BY ValueTypes DEF UnassignWrite, IInv, Shape
<1>1. Exists(s) /\ h.at = "unassign.write" /\ Finish(w) /\ UNCHANGED <<events, item>>
  BY DEF UnassignWrite, IInv, Facts, Creating
<1> DEFINE r == [ship[s] EXCEPT !.assignedDriverId = Null]
<1>2. ship[s] \in Ships
  BY DEF IInv, TypeOK
<1>3. r \in Ships
  BY <1>2 DEF Ships, Handlers
<1>4. /\ r.trackingNumber = ship[s].trackingNumber /\ r.status = ship[s].status
      /\ ship[s].isDeleted => r.isDeleted
  BY <1>2 DEF Ships
<1>5. ship' = [ship EXCEPT ![s] = r]
  BY DEF UnassignWrite
<1> QED BY <1>1, <1>3, <1>4, <1>5, TouchOutcome

LEMMA GpsFindOutcome ==
  ASSUME IInv, NEW w \in Workers, GpsFind(w) PROVE Outcome(w)
<1>1. CASE UNCHANGED handler
  BY <1>1, RejectedOutcome DEF GpsFind
<1>2. CASE ~UNCHANGED handler
  <2>1. PICK u \in Callers, s \in Shipments :
          /\ Found(s)
          /\ Goto(w, [Blank EXCEPT !.at = "gps.insert",
                     !.user = CurrentUser(u, "id"), !.shipmentId = s,
                     !.seen = ship[s].status,
                     !.number = ship[s].trackingNumber])
    BY <1>2 DEF GpsFind
  <2> DEFINE h == [Blank EXCEPT !.at = "gps.insert",
                     !.user = CurrentUser(u, "id"), !.shipmentId = s,
                     !.seen = ship[s].status,
                     !.number = ship[s].trackingNumber]
  <2>2. h \in Handlers
    <3>1. ship[s].status \in Statuses /\ CurrentUser(u, "id") \in Users \cup {Null}
          /\ ship[s].trackingNumber \in Numbers \cup {Null}
      BY ValueTypes
    <3> QED BY <3>1, BlankType DEF Handlers, Stages
  <2>3. Shape(h)
    BY <2>1, ValueTypes DEF Shape, Blank, Found
  <2>4. Facts(h) /\ Origin(w, h)
    BY <2>1, StatusIsHeld DEF Facts, Origin, Creating, Reader, Blank, Found, Found
  <2> QED BY <2>1, <2>2, <2>3, <2>4, ReadOutcome DEF GpsFind
<1> QED BY <1>1, <1>2

LEMMA GpsInsertOutcome ==
  ASSUME IInv, NEW w \in Workers, GpsInsert(w) PROVE Outcome(w)
<1> PICK h \in Handlers, s \in Shipments : h = handler[w] /\ s = h.shipmentId
  BY ValueTypes DEF GpsInsert, IInv, Shape
<1> DEFINE e == [status |-> h.seen, note |-> "gps", createdBy |-> h.user]
<1>1. /\ h.at = "gps.insert" /\ Shape(h) /\ Facts(h) /\ Exists(s)
      /\ h.seen \in Held(s) /\ h.seen \in Statuses
  BY DEF GpsInsert, IInv, Shape, Facts, Creating, Reader
<1>2. AppendEvent(s, e) /\ UNCHANGED <<ship, item>>
  BY DEF GpsInsert
<1>3. e \in Events
  BY <1>1 DEF Events, Handlers, Notes
<1>4. Logs(s)
  BY <1>1, <1>2, <1>3 DEF Logs, ChangeNotes
<1>5. PICK n \in Nat : n = Len(events[s]) + 1
  BY DEF IInv, TypeOK
<1> DEFINE g == [h EXCEPT !.at = "gps.emit", !.event = n]
<1>6. Goto(w, g) /\ g \in Handlers
  BY <1>5 DEF GpsInsert, Handlers, Stages
<1>7. /\ g.at = "gps.emit" /\ g.shipmentId = s /\ g.seen = h.seen
      /\ g.number = h.number
  BY DEF Handlers
<1>8. Shape(g) /\ Origin(w, g)
  BY <1>1, <1>7 DEF Shape, Origin
<1>9. Facts(g)'
  <2>1. (h.seen \in Held(s))'
    BY <1>1, <1>2, <1>3, HeldGrows
  <2>2. Exists(s)' /\ ship'[s].trackingNumber = h.number
    BY <1>1, <1>2 DEF Exists, Facts
  <2> QED BY <1>7, <2>1, <2>2 DEF Facts, Creating, Reader
<1> QED BY <1>1, <1>4, <1>6, <1>8, <1>9 DEF Outcome, RowStep

LEMMA GpsEmitOutcome ==
  ASSUME IInv, NEW w \in Workers, GpsEmit(w) PROVE Outcome(w)
BY FinishOutcome DEF GpsEmit, RowStep

LEMMA DriversTrackingOutcome ==
  ASSUME IInv, NEW w \in Workers, DriversNext(w) \/ TrackingNext(w)
  PROVE  Outcome(w)
BY AssignFindOutcome, AssignWriteOutcome, UnassignFindOutcome,
   UnassignWriteOutcome, GpsFindOutcome, GpsInsertOutcome, GpsEmitOutcome
   DEF DriversNext, TrackingNext

-------------------------------------------------------------------------------
(* Every step has an outcome, and the outcome keeps the invariant *)

LEMMA StepOutcome ==
  ASSUME IInv, Next
  PROVE  \/ UNCHANGED <<rows, handler>>
         \/ \E w \in Workers : Outcome(w)
<1>1. CASE \E w \in Workers : Serve(w)
  BY <1>1, ShipmentsOutcome, WarehouseOutcome, DriversTrackingOutcome DEF Serve
<1>2. CASE \E w \in Workers : Fail(w)
  BY <1>2, FinishOutcome DEF Fail, RowStep
<1>3. CASE \E c \in Clients : GatewayNext(c)
  BY <1>3 DEF GatewayNext, Subscribe, Disconnect
<1> QED BY <1>1, <1>2, <1>3 DEF Next

\* No handler but the last await of updateGps touches the sockets.
LEMMA WorkerSockets ==
  ASSUME NEW w \in Workers, Serve(w) \/ Fail(w)
  PROVE  UNCHANGED sockets \/ GpsEmit(w)
<1>1. CASE ShipmentsNext(w)
  BY <1>1 DEF ShipmentsNext, CreateStart, CreateRetry, CreateInsert, CreateEvent,
     UpdateFind, UpdateWrite, StatusFind, StatusWrite, DeleteFind, DeleteWrite,
     BulkStart, BulkFind, BulkWrite, BulkItemFails
<1>2. CASE WarehouseNext(w)
  BY <1>2 DEF WarehouseNext, ReceiveFind, ReceiveCheck, ReceiveWrite,
     OutboundFind, OutboundItem, OutboundWrite, MoveFind, MoveWrite
<1>3. CASE DriversNext(w)
  BY <1>3 DEF DriversNext, AssignFind, AssignWrite, UnassignFind, UnassignWrite
<1>4. CASE TrackingNext(w)
  BY <1>4 DEF TrackingNext, GpsFind, GpsInsert
<1>5. CASE Fail(w)
  BY <1>5 DEF Fail
<1> QED BY <1>1, <1>2, <1>3, <1>4, <1>5 DEF Serve

\* The sockets change only by subscribing, disconnecting and emitting.
LEMMA SocketStep ==
  ASSUME Next
  PROVE  \/ UNCHANGED sockets
         \/ \E w \in Workers : GpsEmit(w)
         \/ \E c \in Clients : GatewayNext(c)
BY WorkerSockets DEF Next

LEMMA SocketsType ==
  ASSUME IInv, Next
  PROVE  room' \in [Clients -> SUBSET Numbers] /\ inbox' \in [Clients -> Seq(Messages)]
<1>1. CASE UNCHANGED sockets
  BY <1>1 DEF sockets, IInv, TypeOK
<1>2. CASE \E w \in Workers : GpsEmit(w)
  <2>1. PICK w \in Workers : GpsEmit(w)
    BY <1>2
  <2> PICK h \in Handlers : h = handler[w]
    BY ValueTypes
  <2> DEFINE m == [shipmentId |-> h.shipmentId, trackingNumber |-> h.number,
                   status |-> h.seen, timestamp |-> h.event]
  <2>2. h.at = "gps.emit" /\ Shape(h)
    BY <2>1 DEF GpsEmit, IInv
  <2>3. m \in Messages
    BY <2>2 DEF Messages, Shape, Handlers
  <2>4. inbox \in [Clients -> Seq(Messages)] /\ room \in [Clients -> SUBSET Numbers]
    BY DEF IInv, TypeOK
  <2>5. inbox' = [c \in Clients |-> IF h.number \in room[c]
                                    THEN Append(inbox[c], m) ELSE inbox[c]]
    BY <2>1 DEF GpsEmit, EmitTrackingUpdate
  <2>6. \A c \in Clients : Append(inbox[c], m) \in Seq(Messages)
    BY <2>3, <2>4
  <2>7. room' = room
    BY <2>1 DEF GpsEmit
  <2> QED BY <2>4, <2>5, <2>6, <2>7
<1>3. CASE \E c \in Clients : GatewayNext(c)
  <2>1. inbox \in [Clients -> Seq(Messages)] /\ room \in [Clients -> SUBSET Numbers]
    BY DEF IInv, TypeOK
  <2>2. PICK c \in Clients : GatewayNext(c)
    BY <1>3
  <2>3. CASE Subscribe(c)
    BY <2>1, <2>3 DEF Subscribe
  <2>4. CASE Disconnect(c)
    <3>1. <<>> \in Seq(Messages)
      OBVIOUS
    <3> QED BY <2>1, <2>4, <3>1 DEF Disconnect
  <2> QED BY <2>2, <2>3, <2>4 DEF GatewayNext
<1> QED BY <1>1, <1>2, <1>3, SocketStep

\* The columns that a committed status, and an outbound, leave alone.
LEMMA StatusUpdate ==
  ASSUME IInv, NEW s \in Shipments, NEW x \in Statuses,
         ship' = [ship EXCEPT ![s].status = x]
  PROVE  /\ ship' \in [Shipments -> Ships]
         /\ ship'[s].status = x
         /\ ship'[s].trackingNumber = ship[s].trackingNumber
         /\ ship'[s].isDeleted = ship[s].isDeleted
         /\ \A t \in Shipments \ {s} : ship'[t] = ship[t]
<1> DEFINE r == [ship[s] EXCEPT !.status = x]
<1>1. ship \in [Shipments -> Ships] /\ ship[s] \in Ships
  BY DEF IInv, TypeOK
<1>2. /\ r \in Ships /\ r.status = x
      /\ r.trackingNumber = ship[s].trackingNumber
      /\ r.isDeleted = ship[s].isDeleted
  BY <1>1 DEF Ships
<1>3. ship' = [ship EXCEPT ![s] = r]
  OBVIOUS
<1> HIDE DEF r
<1> QED BY <1>1, <1>2, <1>3

LEMMA OutUpdate ==
  ASSUME IInv, NEW s \in Shipments, item' = [item EXCEPT ![s].state = "out"]
  PROVE  /\ item' \in [Shipments -> Items]
         /\ item'[s].state = "out"
         /\ \A t \in Shipments \ {s} : item'[t] = item[t]
<1> DEFINE r == [item[s] EXCEPT !.state = "out"]
<1>1. item \in [Shipments -> Items] /\ item[s] \in Items
  BY DEF IInv, TypeOK
<1>2. r \in Items /\ r.state = "out"
  BY <1>1 DEF Items
<1>3. item' = [item EXCEPT ![s] = r]
  OBVIOUS
<1> HIDE DEF r
<1> QED BY <1>1, <1>2, <1>3

LEMMA ReceiveUpdate ==
  ASSUME IInv, NEW s \in Shipments, NEW loc \in Locations \cup {Null},
         item' = [item EXCEPT ![s] = [state |-> "inStock", location |-> loc]]
  PROVE  /\ item' \in [Shipments -> Items]
         /\ item'[s].state = "inStock"
         /\ \A t \in Shipments \ {s} : item'[t] = item[t]
<1> DEFINE r == [state |-> "inStock", location |-> loc]
<1>1. item \in [Shipments -> Items]
  BY DEF IInv, TypeOK
<1>2. r \in Items /\ r.state = "inStock"
  BY DEF Items
<1> HIDE DEF r
<1>3. item' = [item EXCEPT ![s] = r]
  BY DEF r
<1> QED BY <1>1, <1>2, <1>3

\* What a commit does to the item: nothing, a reception or an outbound.
LEMMA CommitItem ==
  ASSUME IInv, NEW s \in Shipments, Commits(s)
  PROVE  /\ item' \in [Shipments -> Items]
         /\ \A t \in Shipments \ {s} : item'[t] = item[t]
         /\ Stored(s) => Stored(s)'
<1>1. CASE UNCHANGED item
  BY <1>1 DEF IInv, TypeOK, Stored
<1>2. CASE \E loc \in Locations \cup {Null} :
             item' = [item EXCEPT ![s] = [state |-> "inStock", location |-> loc]]
  BY <1>2, ReceiveUpdate DEF Stored
<1>3. CASE item' = [item EXCEPT ![s].state = "out"]
  BY <1>3, OutUpdate DEF Stored
<1> QED BY <1>1, <1>2, <1>3 DEF Commits

LEMMA RowsType ==
  ASSUME IInv, NEW w \in Workers, RowStep(w)
  PROVE  /\ ship' \in [Shipments -> Ships]
         /\ events' \in [Shipments -> Seq(Events)]
         /\ item' \in [Shipments -> Items]
<1> DEFINE s == handler[w].shipmentId
<1>1. /\ ship \in [Shipments -> Ships]
      /\ events \in [Shipments -> Seq(Events)]
      /\ item \in [Shipments -> Items]
  BY DEF IInv, TypeOK
<1>2. CASE UNCHANGED rows
  BY <1>1, <1>2 DEF rows
<1>3. CASE s \in Shipments /\ Inserts(w, s)
  <2>1. \A n \in Numbers : [NoRow EXCEPT !.trackingNumber = n] \in Ships
    BY DEF NoRow, Ships, Statuses
  <2> QED BY <1>1, <1>3, <2>1 DEF Inserts
<1>4. CASE s \in Shipments /\ Commits(s)
  <2>1. PICK t \in Statuses, note \in ChangeNotes, u \in Users \cup {Null} :
          CommitStatus(s, t, note, u)
    BY <1>4 DEF Commits
  <2> DEFINE e == [status |-> t, note |-> note, createdBy |-> u]
  <2>2. e \in Events
    BY DEF Events, Notes
  <2>3. events' \in [Shipments -> Seq(Events)]
    BY <1>4, <2>1, <2>2, AppendedLog DEF CommitStatus
  <2>4. ship' \in [Shipments -> Ships]
    BY <1>4, <2>1, StatusUpdate DEF CommitStatus
  <2>5. item' \in [Shipments -> Items]
    BY <1>4, CommitItem
  <2> QED BY <2>3, <2>4, <2>5
<1>5. CASE s \in Shipments /\ Logs(s)
  BY <1>1, <1>5, AppendedLog DEF Logs
<1>6. CASE s \in Shipments /\ Touches(s)
  BY <1>1, <1>6 DEF Touches
<1>7. CASE s \in Shipments /\ Moves(s)
  BY <1>1, <1>7 DEF Moves, Items
<1> QED BY <1>2, <1>3, <1>4, <1>5, <1>6, <1>7 DEF RowStep

\* Rows only grow: an id that is in the table stays there with its number,
\* what a shipment has held it has held, and an item is never removed.  Only
\* the insert of its own handler brings an id into the table.
LEMMA RowsGrow ==
  ASSUME IInv, NEW w \in Workers, RowStep(w), NEW t \in Shipments
  PROVE  /\ Exists(t) => /\ Exists(t)'
                          /\ ship'[t].trackingNumber = ship[t].trackingNumber
         /\ Held(t) \subseteq Held(t)'
         /\ Stored(t) => Stored(t)'
         /\ Exists(t)' => \/ Exists(t)
                          \/ /\ t = handler[w].shipmentId
                             /\ handler[w].at = "create.insert"
<1> DEFINE s == handler[w].shipmentId
<1>1. /\ ship \in [Shipments -> Ships]
      /\ events \in [Shipments -> Seq(Events)]
      /\ item \in [Shipments -> Items]
  BY DEF IInv, TypeOK
<1>2. CASE UNCHANGED rows
  BY <1>2 DEF rows, Exists, Held, Changes, Stored
<1>3. CASE s \in Shipments /\ Inserts(w, s)
  <2>1. ~Exists(s)
    BY <1>3 DEF Inserts, IInv, Facts, Creating
  <2> QED BY <1>1, <1>3, <2>1 DEF Inserts, Exists, Held, Changes, Stored
<1>4. CASE s \in Shipments /\ Commits(s)
  <2>1. PICK x \in Statuses, note \in ChangeNotes, u \in Users \cup {Null} :
          CommitStatus(s, x, note, u)
    BY <1>4 DEF Commits
  <2>2. [status |-> x, note |-> note, createdBy |-> u] \in Events
    BY DEF Events, Notes
  <2>3. Held(t) \subseteq Held(t)'
    BY <1>4, <2>1, <2>2, HeldGrows DEF CommitStatus
  <2>4. ship'[t].trackingNumber = ship[t].trackingNumber
    BY <1>4, <2>1, StatusUpdate DEF CommitStatus
  <2>5. Stored(t) => Stored(t)'
    BY <1>4, CommitItem DEF Stored
  <2> QED BY <2>3, <2>4, <2>5 DEF Exists
<1>5. CASE s \in Shipments /\ Logs(s)
  BY <1>5, HeldGrows DEF Logs, Exists, Stored
<1>6. CASE s \in Shipments /\ Touches(s)
  BY <1>1, <1>6 DEF Touches, Exists, Held, Changes, Stored
<1>7. CASE s \in Shipments /\ Moves(s)
  BY <1>1, <1>7 DEF Moves, Exists, Held, Changes, Stored, Items
<1> QED BY <1>2, <1>3, <1>4, <1>5, <1>6, <1>7 DEF RowStep

\* The row of an id that is not in the table is untouched by every effect but
\* the insert.
LEMMA NothingBeforeInsertStep ==
  ASSUME IInv, NEW w \in Workers, RowStep(w)
  PROVE  NothingBeforeInsert'
<1> SUFFICES ASSUME NEW t \in Shipments, ~Exists(t)'
             PROVE  /\ ship'[t] = NoRow /\ events'[t] = <<>>
                    /\ item'[t].state = "none"
  BY DEF NothingBeforeInsert, Exists
<1> DEFINE s == handler[w].shipmentId
<1>1. ~Exists(t)
  BY RowsGrow
<1>2. ship[t] = NoRow /\ events[t] = <<>> /\ item[t].state = "none"
  BY <1>1 DEF IInv, NothingBeforeInsert
<1>3. ship \in [Shipments -> Ships]
  BY DEF IInv, TypeOK
<1>4. CASE UNCHANGED rows
  BY <1>2, <1>4 DEF rows
<1>5. CASE s \in Shipments /\ Inserts(w, s)
  <2>1. t # s
    BY <1>3, <1>5, NullAssumption DEF Inserts, Exists, NoRow
  <2> QED BY <1>2, <1>3, <1>5, <2>1 DEF Inserts
<1>6. CASE s \in Shipments /\ Exists(s) /\ Commits(s)
  <2>1. PICK x \in Statuses, note \in ChangeNotes, u \in Users \cup {Null} :
          CommitStatus(s, x, note, u)
    BY <1>6 DEF Commits
  <2>2. [status |-> x, note |-> note, createdBy |-> u] \in Events
    BY DEF Events, Notes
  <2>3. t # s
    BY <1>1, <1>6
  <2> QED BY <1>2, <1>6, <2>1, <2>2, <2>3, StatusUpdate, CommitItem, AppendedLog
             DEF CommitStatus
<1>7. CASE s \in Shipments /\ Exists(s) /\ Logs(s)
  BY <1>1, <1>2, <1>7, AppendedLog DEF Logs
<1>8. CASE s \in Shipments /\ Exists(s) /\ Touches(s)
  BY <1>1, <1>2, <1>3, <1>8 DEF Touches
<1>9. CASE s \in Shipments /\ Moves(s)
  <2>1. t # s
    BY <1>2, <1>9 DEF Moves, Stored
  <2> QED BY <1>2, <1>9, <2>1 DEF Moves, IInv, TypeOK
<1> QED BY <1>4, <1>5, <1>6, <1>7, <1>8, <1>9 DEF RowStep, Commits, Logs, Touches

\* The status of a row and the last change in its log move together.
LEMMA TrailStep ==
  ASSUME IInv, NEW w \in Workers, RowStep(w)
  PROVE  TrailMatchesStatus'
<1> SUFFICES ASSUME NEW t \in Shipments
             PROVE  \/ Changes(t)' = {} /\ ship'[t].status = "DRAFT"
                    \/ \E i \in Changes(t)' :
                         /\ events'[t][i].status = ship'[t].status
                         /\ \A j \in Changes(t)' : j <= i
  BY DEF TrailMatchesStatus
<1> DEFINE s == handler[w].shipmentId
           Matches == \/ Changes(t) = {} /\ ship[t].status = "DRAFT"
                      \/ \E i \in Changes(t) :
                           /\ events[t][i].status = ship[t].status
                           /\ \A j \in Changes(t) : j <= i
<1>1. Matches
  BY DEF IInv, TrailMatchesStatus
<1>2. ship \in [Shipments -> Ships]
  BY DEF IInv, TypeOK
<1>3. CASE events'[t] = events[t] /\ ship'[t].status = ship[t].status
  BY <1>1, <1>3 DEF Changes
<1>4. CASE s \in Shipments /\ Inserts(w, s) /\ t = s
  <2>1. events[t] = <<>>
    BY <1>4 DEF Inserts, IInv, Facts, Creating, NothingBeforeInsert
  <2>2. events' = events /\ ship'[t].status = "DRAFT"
    BY <1>2, <1>4 DEF Inserts, NoRow
  <2> QED BY <2>1, <2>2 DEF Changes
<1>5. CASE s \in Shipments /\ Commits(s) /\ t = s
  <2>1. PICK x \in Statuses, note \in ChangeNotes, u \in Users \cup {Null} :
          CommitStatus(s, x, note, u)
    BY <1>5 DEF Commits
  <2> DEFINE e == [status |-> x, note |-> note, createdBy |-> u]
             n == Len(events[s]) + 1
  <2>2. e \in Events /\ e.note \in ChangeNotes /\ e.status = x
    BY DEF Events, Notes
  <2>3. /\ DOMAIN events'[t] = 1 .. n
        /\ events'[t][n] = e
        /\ n \in Nat \ {0}
    BY <1>5, <2>1, <2>2, AppendedLog DEF CommitStatus
  <2>4. ship'[t].status = x
    BY <1>5, <2>1, StatusUpdate DEF CommitStatus
  <2>5. n \in Changes(t)' /\ \A j \in Changes(t)' : j <= n
    BY <2>2, <2>3 DEF Changes
  <2> QED BY <2>2, <2>3, <2>4, <2>5
<1>6. CASE s \in Shipments /\ Logs(s) /\ t = s
  <2>1. PICK e \in Events : /\ e.note \notin ChangeNotes
                            /\ AppendEvent(s, e)
    BY <1>6 DEF Logs
  <2>2. ship' = ship
    BY <1>6 DEF Logs
  <2>3. Changes(t)' = Changes(t) /\ \A i \in Changes(t) : events'[t][i] = events[t][i]
    BY <1>6, <2>1, AppendedLog DEF Changes
  <2> QED BY <1>1, <2>2, <2>3
<1>7. CASE s \in Shipments /\ Touches(s)
  BY <1>1, <1>2, <1>7 DEF Touches, Changes
<1>8. s \in Shipments /\ Commits(s) /\ t # s =>
        events'[t] = events[t] /\ ship'[t].status = ship[t].status
  <2> SUFFICES ASSUME s \in Shipments, Commits(s), t # s
               PROVE  events'[t] = events[t] /\ ship'[t].status = ship[t].status
    OBVIOUS
  <2>1. PICK x \in Statuses, note \in ChangeNotes, u \in Users \cup {Null} :
          CommitStatus(s, x, note, u)
    BY DEF Commits
  <2>2. [status |-> x, note |-> note, createdBy |-> u] \in Events
    BY DEF Events, Notes
  <2> QED BY <2>1, <2>2, StatusUpdate, AppendedLog DEF CommitStatus
<1>9. s \in Shipments /\ (Logs(s) \/ Inserts(w, s)) /\ t # s =>
        events'[t] = events[t] /\ ship'[t].status = ship[t].status
  BY <1>2, AppendedLog DEF Logs, Inserts
<1> QED BY <1>3, <1>4, <1>5, <1>6, <1>7, <1>8, <1>9 DEF RowStep, Moves, rows

\* What the other handlers know stays true: the rows they have read about only
\* grow, and a row that a create still has to insert is its own.
LEMMA FactsStep ==
  ASSUME IInv, NEW w \in Workers, Outcome(w), NEW v \in Workers
  PROVE  Shape(handler[v])' /\ Facts(handler[v])'
<1>1. PICK h \in Handlers : Goto(w, h) /\ Shape(h) /\ Facts(h)'
  BY DEF Outcome
<1>2. handler' = [handler EXCEPT ![w] = h] /\ handler \in [Workers -> Handlers]
  BY <1>1 DEF Goto, IInv, TypeOK
<1>3. CASE v = w
  BY <1>1, <1>2, <1>3 DEF Shape, Facts
<1>4. CASE v # w
  <2> PICK g \in Handlers : g = handler[v]
    BY <1>2
  <2>1. handler'[v] = g /\ Shape(g) /\ Facts(g)
    BY <1>2, <1>4 DEF IInv
  <2>2. CASE g.shipmentId \notin Shipments
    BY <2>1, <2>2, TransitionsType DEF Shape, Facts, Creating, Reader
  <2>3. CASE g.shipmentId \in Shipments
    <3> PICK s \in Shipments : s = g.shipmentId
      BY <2>3
    <3>1. g.at \in Creating => ~Exists(s)'
      <4> SUFFICES ASSUME g.at \in Creating, Exists(s)' PROVE FALSE
        OBVIOUS
      <4>1. ~Exists(s)
        BY <2>1 DEF Facts
      <4>2. s = handler[w].shipmentId
        BY <4>1, RowsGrow DEF Outcome
      <4> QED BY <1>4, <4>2 DEF IInv, CreatesAlone
    <3>2. Facts(g)'
      <4>1. RowStep(w)
        BY DEF Outcome
      <4>2. /\ Exists(s) => Exists(s)' /\ ship'[s].trackingNumber = ship[s].trackingNumber
            /\ Held(s) \subseteq Held(s)'
            /\ Stored(s) => Stored(s)'
        BY <4>1, RowsGrow
      <4>3. g.at \in {"gps.insert", "gps.emit"} => Exists(s)
        BY <2>1 DEF Facts, Creating
      <4> QED BY <2>1, <3>1, <4>2, <4>3 DEF Facts
    <3> QED BY <2>1, <3>2 DEF Shape, Facts
  <2> QED BY <2>2, <2>3
<1> QED BY <1>3, <1>4

LEMMA CreatesAloneStep ==
  ASSUME IInv, NEW w \in Workers, Outcome(w)
  PROVE  CreatesAlone'
<1> SUFFICES ASSUME NEW v \in Workers, NEW u \in Workers, v # u,
                    handler'[v].at \in Creating,
                    handler'[u].shipmentId = handler'[v].shipmentId
             PROVE  FALSE
  BY DEF CreatesAlone
<1>1. PICK h \in Handlers : Goto(w, h) /\ Shape(h) /\ Facts(h)' /\ Origin(w, h)
  BY DEF Outcome
<1>2. handler' = [handler EXCEPT ![w] = h] /\ handler \in [Workers -> Handlers]
  BY <1>1 DEF Goto, IInv, TypeOK
<1>3. PICK s \in Shipments : s = handler'[v].shipmentId
  BY FactsStep DEF Shape, Creating
<1>4. ~Exists(s)' /\ ~Exists(s)
  <2>1. Facts(handler[v])'
    BY FactsStep
  <2>2. ~Exists(s)'
    BY <1>3, <2>1 DEF Facts
  <2>3. RowStep(w)
    BY DEF Outcome
  <2> QED BY <2>2, <2>3, RowsGrow
<1>5. ~Stored(s)
  BY <1>4 DEF IInv, NothingBeforeInsert, Stored
<1>6. \A x \in Workers :
        handler[x].shipmentId = s /\ handler[x].at \notin {"idle", "bulk.find"}
          => handler[x].at \in Creating
  BY <1>4 DEF IInv, Facts
<1>7. CASE v = w
  <2>1. h.shipmentId = s /\ h.at \in Creating /\ handler[u].shipmentId = s
    BY <1>2, <1>3, <1>7
  <2>2. \/ s = handler[w].shipmentId /\ handler[w].at \in Creating
        \/ handler[u].shipmentId # s
    BY <1>1, <1>4, <1>6, <2>1 DEF Origin, Found, Creating
  <2> QED BY <1>7, <2>1, <2>2 DEF IInv, CreatesAlone
<1>8. CASE u = w
  <2>1. h.shipmentId = s /\ handler[v].at \in Creating /\ handler[v].shipmentId = s
    BY <1>2, <1>3, <1>8
  <2>2. h.at \notin {"idle", "bulk.find"}
    BY <1>1, <2>1, NullAssumption DEF Shape
  <2>3. s = handler[w].shipmentId
    BY <1>1, <1>4, <1>5, <2>1, <2>2 DEF Origin, Found
  <2> QED BY <1>8, <2>1, <2>3 DEF IInv, CreatesAlone
<1>9. CASE v # w /\ u # w
  BY <1>2, <1>3, <1>9 DEF IInv, CreatesAlone
<1> QED BY <1>7, <1>8, <1>9

LEMMA InitIInv == Init => IInv
<1> SUFFICES ASSUME Init PROVE IInv
  OBVIOUS
<1>1. NoRow \in Ships /\ NoItem \in Items
  BY DEF NoRow, NoItem, Statuses, Ships, Items
<1>2. TypeOK
  <2>1. <<>> \in Seq(Events) /\ <<>> \in Seq(Messages)
    OBVIOUS
  <2> QED BY <1>1, <2>1, BlankType DEF Init, TypeOK
<1>3. \A w \in Workers : Shape(handler[w]) /\ Facts(handler[w])
  BY BlankType DEF Init
<1>4. CreatesAlone
  BY DEF Init, CreatesAlone, Creating, Blank
<1>5. NothingBeforeInsert
  BY DEF Init, NothingBeforeInsert, NoItem
<1>6. TrailMatchesStatus
  BY DEF Init, TrailMatchesStatus, Changes, NoRow
<1> QED BY <1>2, <1>3, <1>4, <1>5, <1>6 DEF IInv

LEMMA NextIInv == IInv /\ [Next]_vars => IInv'
<1> SUFFICES ASSUME IInv, [Next]_vars PROVE IInv'
  OBVIOUS
<1>1. CASE UNCHANGED vars
  BY <1>1 DEF vars, IInv, TypeOK, CreatesAlone, NothingBeforeInsert,
     TrailMatchesStatus, Facts, Exists, Stored, Held, Changes
<1>2. CASE Next /\ UNCHANGED <<rows, handler>>
  <2>1. TypeOK'
    BY <1>2, SocketsType DEF IInv, TypeOK, rows
  <2> QED BY <1>2, <2>1 DEF rows, IInv, CreatesAlone, NothingBeforeInsert,
          TrailMatchesStatus, Facts, Exists, Stored, Held, Changes
<1>3. CASE Next /\ \E w \in Workers : Outcome(w)
  <2> PICK w \in Workers : Outcome(w)
    BY <1>3
  <2>1. handler' \in [Workers -> Handlers]
    BY DEF Outcome, Goto, IInv, TypeOK
  <2>2. TypeOK'
    BY <1>3, <2>1, SocketsType, RowsType DEF Outcome, TypeOK
  <2>4. CreatesAlone' /\ NothingBeforeInsert' /\ TrailMatchesStatus'
    BY CreatesAloneStep, NothingBeforeInsertStep, TrailStep DEF Outcome
  <2>5. (\A v \in Workers : Shape(handler[v]) /\ Facts(handler[v]))'
    BY FactsStep
  <2> QED BY <2>2, <2>4, <2>5 DEF IInv
<1> QED BY <1>1, <1>2, <1>3, StepOutcome

LEMMA InvariantHolds == Spec => []IInv
BY InitIInv, NextIInv, PTL DEF Spec

\* Every variable keeps its type, whatever the handlers read and in whatever
\* order they write.
THEOREM TypeCorrect == Spec => []TypeOK
<1>1. IInv => TypeOK
  BY DEF IInv
<1> QED BY <1>1, InvariantHolds, PTL

\* The status column and the log always agree on the last change.
THEOREM TrailCorrect == Spec => []TrailMatchesStatus
<1>1. IInv => TrailMatchesStatus
  BY DEF IInv
<1> QED BY <1>1, InvariantHolds, PTL

===============================================================================
