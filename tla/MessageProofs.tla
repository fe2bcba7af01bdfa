----------------------------- MODULE MessageProofs -----------------------------
(***************************************************************************)
(* What subscribers are sent, for any number of requests and clients.  A   *)
(* GPS update inserts its event and emits it an await later, so what a     *)
(* message says must be found in the log of that later moment, and two     *)
(* updates under way must not send the same event.                         *)
(***************************************************************************)
EXTENDS LogisticsTheorems

-------------------------------------------------------------------------------
(* The inductive invariant, on top of IInv *)

Emitting(w) == handler[w].at = "gps.emit"

\* The event that w is about to send is in the log, as w will send it.
Reported(w) ==
  LET h == handler[w]
      log == events[h.shipmentId] IN
  /\ h.event \in DOMAIN log
  /\ log[h.event].note = "gps" /\ log[h.event].status = h.seen

\* What v is about to send nobody else is, and no client has been sent.
OwnEvent(v) ==
  /\ \A w \in Workers \ {v} : Emitting(w) =>
       \/ handler[w].shipmentId # handler[v].shipmentId
       \/ handler[w].event # handler[v].event
  /\ \A c \in Clients : \A k \in DOMAIN inbox[c] :
       \/ inbox[c][k].shipmentId # handler[v].shipmentId
       \/ inbox[c][k].timestamp # handler[v].event

EmitInv ==
  /\ \A w \in Workers : Emitting(w) => Reported(w) /\ OwnEvent(w)
  /\ MessagesAreLogged

-------------------------------------------------------------------------------
(* Lemmas *)

\* Positions of a log keep their events, and a shipment its number.
LEMMA LogKept ==
  ASSUME IInv, NEW w \in Workers, RowStep(w), NEW s \in Shipments,
         NEW i \in DOMAIN events[s]
  PROVE  i \in DOMAIN events'[s] /\ events'[s][i] = events[s][i]
<1>1. CASE events'[s] = events[s]
  BY <1>1
<1>2. CASE \E e \in Events : AppendEvent(s, e)
  BY <1>2, AppendedLog
<1> QED BY <1>1, <1>2, LogEffect

\* Only the insert of a GPS event makes a handler emit.
LEMMA EmittingStep ==
  ASSUME IInv, NEW w \in Workers, Serve(w) \/ Fail(w), Emitting(w)'
  PROVE  handler'[w] = handler[w] \/ GpsInsert(w)
<1>1. handler'[w].at \notin Creating \cup {"idle"}
  BY DEF Emitting, Creating
<1> QED BY <1>1, DrawsQuietly, DrawsOrEmits DEF Emitting

-------------------------------------------------------------------------------
(* The four kinds of steps *)

\* What has been sent stays in the log.
LEMMA SentIsKept ==
  ASSUME IInv, MessagesAreLogged, NEW w \in Workers, RowStep(w), UNCHANGED sockets
  PROVE  MessagesAreLogged'
<1> SUFFICES ASSUME NEW c \in Clients, NEW k \in DOMAIN inbox[c]
             PROVE  LET m == inbox[c][k] IN
                    /\ ship'[m.shipmentId].trackingNumber = m.trackingNumber
                    /\ m.timestamp \in DOMAIN events'[m.shipmentId]
                    /\ events'[m.shipmentId][m.timestamp]
                         = events[m.shipmentId][m.timestamp]
  BY DEF MessagesAreLogged, sockets
<1> PICK m \in Messages, s \in Shipments : m = inbox[c][k] /\ s = m.shipmentId
  <2>1. inbox[c] \in Seq(Messages)
    BY DEF IInv, TypeOK
  <2>2. inbox[c][k] \in Messages
    BY <2>1
  <2> QED BY <2>2 DEF Messages
<1>1. /\ ship[s].trackingNumber = m.trackingNumber
      /\ m.timestamp \in DOMAIN events[s]
  BY DEF MessagesAreLogged
<1>2. Exists(s)
  BY <1>1, NullAssumption DEF Exists, Messages
<1> QED BY <1>1, <1>2, RowsGrow, LogKept

\* Whoever was about to emit, and still is, has its event where it was.
LEMMA ReportIsKept ==
  ASSUME IInv, NEW w \in Workers, RowStep(w), NEW v \in Workers,
         Emitting(v), Reported(v), handler'[v] = handler[v]
  PROVE  Reported(v)'
<1> PICK s \in Shipments : s = handler[v].shipmentId
  BY DEF IInv, Shape, Emitting
<1> QED BY LogKept DEF Reported

LEMMA QuietStep ==
  ASSUME IInv, EmitInv, NEW w \in Workers, RowStep(w), UNCHANGED sockets,
         \A v \in Workers : Emitting(v)' => handler'[v] = handler[v]
  PROVE  EmitInv'
<1>1. MessagesAreLogged'
  BY SentIsKept DEF EmitInv
<1>2. ASSUME NEW v \in Workers, Emitting(v)'
      PROVE  Reported(v)' /\ OwnEvent(v)'
  <2>1. Emitting(v) /\ handler'[v] = handler[v]
    BY <1>2 DEF Emitting
  <2>2. Reported(v)'
    BY <2>1, ReportIsKept DEF EmitInv
  <2>3. OwnEvent(v)'
    BY <2>1 DEF EmitInv, OwnEvent, Emitting, sockets
  <2> QED BY <2>2, <2>3
<1> QED BY <1>1, <1>2 DEF EmitInv

LEMMA InsertStep ==
  ASSUME IInv, EmitInv, NEW w \in Workers, GpsInsert(w),
         \A v \in Workers \ {w} : handler'[v] = handler[v]
  PROVE  EmitInv'
<1> PICK h \in Handlers, s \in Shipments : h = handler[w] /\ s = h.shipmentId
  BY ValueTypes DEF GpsInsert, IInv, Shape
<1> DEFINE e == [status |-> h.seen, note |-> "gps", createdBy |-> h.user]
<1>1. RowStep(w) /\ UNCHANGED sockets
  BY GpsInsertOutcome DEF Outcome, GpsInsert
<1>2. AppendEvent(s, e) /\ e \in Events
  <2>1. h.seen \in Statuses
    BY DEF GpsInsert, IInv, Shape
  <2> QED BY <2>1 DEF GpsInsert, Events, Handlers, Notes
<1>3. PICK n \in Nat : n = Len(events[s]) + 1
  BY <1>2, AppendedLog
<1>4. /\ handler'[w] = [h EXCEPT !.at = "gps.emit", !.event = n]
      /\ handler'[w].shipmentId = s /\ handler'[w].event = n
      /\ handler'[w].seen = h.seen
  BY <1>3 DEF GpsInsert, Goto, Handlers, IInv, TypeOK
<1>5. n \notin DOMAIN events[s] /\ n \in DOMAIN events'[s] /\ events'[s][n] = e
  BY <1>2, <1>3, AppendedLog
<1>6. MessagesAreLogged'
  BY <1>1, SentIsKept DEF EmitInv
<1>7. Reported(w)'
  BY <1>4, <1>5 DEF Reported
<1>8. ASSUME NEW v \in Workers \ {w}, Emitting(v)'
      PROVE  /\ Emitting(v) /\ Reported(v)
             /\ \/ handler'[v].shipmentId # s
                \/ handler'[v].event # n
  BY <1>5, <1>8 DEF EmitInv, Emitting, Reported
<1>9. ASSUME NEW c \in Clients, NEW k \in DOMAIN inbox'[c]
      PROVE  \/ inbox'[c][k].shipmentId # s
             \/ inbox'[c][k].timestamp # n
  BY <1>1, <1>5, <1>9 DEF EmitInv, MessagesAreLogged, sockets
<1>10. OwnEvent(w)'
  BY <1>4, <1>8, <1>9 DEF OwnEvent
<1>11. ASSUME NEW v \in Workers \ {w}, Emitting(v)'
       PROVE  Reported(v)' /\ OwnEvent(v)'
  <2>1. Reported(v)'
    BY <1>1, <1>8, <1>11, ReportIsKept
  <2>2. OwnEvent(v)
    BY <1>8, <1>11 DEF EmitInv
  <2>3. ASSUME NEW u \in Workers \ {v}, Emitting(u)'
        PROVE  \/ handler'[u].shipmentId # handler'[v].shipmentId
               \/ handler'[u].event # handler'[v].event
    <3>1. CASE u = w
      BY <1>4, <1>8, <1>11, <3>1
    <3>2. CASE u # w
      BY <1>8, <1>11, <2>2, <2>3, <3>2 DEF OwnEvent
    <3> QED BY <3>1, <3>2
  <2> QED BY <1>1, <2>1, <2>2, <2>3 DEF OwnEvent, sockets
<1> QED BY <1>6, <1>7, <1>10, <1>11 DEF EmitInv

LEMMA EmitStep ==
  ASSUME IInv, EmitInv, NEW w \in Workers, GpsEmit(w),
         \A v \in Workers \ {w} : handler'[v] = handler[v]
  PROVE  EmitInv'
<1> PICK h \in Handlers, s \in Shipments : h = handler[w] /\ s = h.shipmentId
  BY ValueTypes DEF GpsEmit, IInv, Shape
<1> DEFINE m == [shipmentId |-> s, trackingNumber |-> h.number,
                 status |-> h.seen, timestamp |-> h.event]
<1>1. h.at = "gps.emit" /\ UNCHANGED <<rows, room>> /\ ~Emitting(w)'
  BY DEF GpsEmit, Finish, Goto, Blank, Emitting, IInv, TypeOK
<1>2. /\ Reported(w) /\ OwnEvent(w)
      /\ h.number = ship[s].trackingNumber
  BY <1>1 DEF EmitInv, Emitting, IInv, Facts
<1>3. ASSUME NEW c \in Clients
      PROVE  \/ inbox'[c] = inbox[c]
             \/ /\ h.number \in room[c]
                /\ Len(inbox[c]) \in Nat
                /\ DOMAIN inbox[c] = 1 .. Len(inbox[c])
                /\ DOMAIN inbox'[c] = 1 .. (Len(inbox[c]) + 1)
                /\ \A k \in DOMAIN inbox[c] : inbox'[c][k] = inbox[c][k]
                /\ inbox'[c][Len(inbox[c]) + 1] = m
  <2>1. inbox[c] \in Seq(Messages)
    BY DEF IInv, TypeOK
  <2>2. inbox'[c] = IF h.number \in room[c] THEN Append(inbox[c], m) ELSE inbox[c]
    BY DEF GpsEmit, EmitTrackingUpdate
  <2> QED BY <2>1, <2>2
<1>4. ASSUME NEW c \in Clients, NEW k \in DOMAIN inbox'[c]
      PROVE  \/ k \in DOMAIN inbox[c] /\ inbox'[c][k] = inbox[c][k]
             \/ /\ k \notin DOMAIN inbox[c] /\ inbox'[c][k] = m
                /\ h.number \in room[c]
                /\ \A j \in DOMAIN inbox'[c] : j \in DOMAIN inbox[c] \/ j = k
  BY <1>3
<1>5. ASSUME NEW c \in Clients, NEW k \in DOMAIN inbox'[c]
      PROVE  LET x == inbox'[c][k] IN
             /\ x.trackingNumber \in room[c]
             /\ ship[x.shipmentId].trackingNumber = x.trackingNumber
             /\ x.timestamp \in DOMAIN events[x.shipmentId]
             /\ events[x.shipmentId][x.timestamp].note = "gps"
             /\ events[x.shipmentId][x.timestamp].status = x.status
  <2>1. CASE k \in DOMAIN inbox[c] /\ inbox'[c][k] = inbox[c][k]
    BY <2>1 DEF EmitInv, MessagesAreLogged
  <2>2. CASE inbox'[c][k] = m /\ h.number \in room[c]
    <3>1. /\ h.event \in DOMAIN events[s]
          /\ events[s][h.event].note = "gps"
          /\ events[s][h.event].status = h.seen
      BY <1>2 DEF Reported
    <3> QED BY <1>2, <2>2, <3>1
  <2> QED BY <1>4, <2>1, <2>2
<1>6. ASSUME NEW c \in Clients, NEW k \in DOMAIN inbox'[c], NEW j \in DOMAIN inbox'[c],
             inbox'[c][j].shipmentId = inbox'[c][k].shipmentId,
             inbox'[c][j].timestamp = inbox'[c][k].timestamp
      PROVE  j = k
  <2>1. CASE k \in DOMAIN inbox[c] /\ j \in DOMAIN inbox[c]
    BY <1>4, <1>6, <2>1 DEF EmitInv, MessagesAreLogged
  <2>2. CASE k \notin DOMAIN inbox[c] /\ j \in DOMAIN inbox[c]
    BY <1>2, <1>4, <1>6, <2>2 DEF OwnEvent
  <2>3. CASE k \in DOMAIN inbox[c] /\ j \notin DOMAIN inbox[c]
    BY <1>2, <1>4, <1>6, <2>3 DEF OwnEvent
  <2>4. CASE k \notin DOMAIN inbox[c] /\ j \notin DOMAIN inbox[c]
    BY <1>4, <2>4
  <2> QED BY <2>1, <2>2, <2>3, <2>4
<1>7. MessagesAreLogged'
  BY <1>1, <1>5, <1>6 DEF MessagesAreLogged, rows
<1>8. ASSUME NEW v \in Workers, Emitting(v)'
      PROVE  Reported(v)' /\ OwnEvent(v)'
  <2>1. v # w /\ handler'[v] = handler[v] /\ Emitting(v)
    BY <1>1, <1>8 DEF Emitting
  <2>2. Reported(v) /\ OwnEvent(v)
    BY <2>1 DEF EmitInv
  <2>3. Reported(v)'
    BY <1>1, <2>1, <2>2 DEF Reported, rows
  <2>4. ASSUME NEW u \in Workers \ {v}, Emitting(u)'
        PROVE  \/ handler'[u].shipmentId # handler'[v].shipmentId
               \/ handler'[u].event # handler'[v].event
    <3>1. u # w /\ handler'[u] = handler[u] /\ Emitting(u)
      BY <1>1, <2>4 DEF Emitting
    <3> QED BY <2>1, <2>2, <3>1 DEF OwnEvent
  <2>5. ASSUME NEW c \in Clients, NEW k \in DOMAIN inbox'[c]
        PROVE  \/ inbox'[c][k].shipmentId # handler'[v].shipmentId
               \/ inbox'[c][k].timestamp # handler'[v].event
    <3>1. \/ handler[w].shipmentId # handler[v].shipmentId
          \/ handler[w].event # handler[v].event
      BY <1>1, <2>1, <2>2 DEF OwnEvent, Emitting
    <3> QED BY <1>4, <2>1, <2>2, <2>5, <3>1 DEF OwnEvent
  <2> QED BY <2>3, <2>4, <2>5 DEF OwnEvent
<1> QED BY <1>7, <1>8 DEF EmitInv

LEMMA GatewayStep ==
  ASSUME IInv, EmitInv, NEW c \in Clients, GatewayNext(c)
  PROVE  EmitInv'
<1>1. /\ room \in [Clients -> SUBSET Numbers]
      /\ inbox \in [Clients -> Seq(Messages)]
      /\ UNCHANGED <<rows, handler>>
  BY DEF IInv, TypeOK, GatewayNext, Subscribe, Disconnect
<1>2. \A d \in Clients : \/ inbox'[d] = inbox[d] /\ room[d] \subseteq room'[d]
                         \/ inbox'[d] = <<>>
  BY <1>1 DEF GatewayNext, Subscribe, Disconnect
<1>3. MessagesAreLogged'
  BY <1>1, <1>2 DEF EmitInv, MessagesAreLogged, rows
<1>4. ASSUME NEW v \in Workers, Emitting(v)'
      PROVE  Reported(v)' /\ OwnEvent(v)'
  <2>1. Emitting(v) /\ Reported(v) /\ OwnEvent(v)
    BY <1>1, <1>4 DEF EmitInv, Emitting
  <2>2. Reported(v)'
    BY <1>1, <2>1 DEF Reported, rows
  <2>3. ASSUME NEW d \in Clients, NEW k \in DOMAIN inbox'[d]
        PROVE  k \in DOMAIN inbox[d] /\ inbox'[d][k] = inbox[d][k]
    BY <1>2, <2>3
  <2>4. OwnEvent(v)'
    <3>1. handler' = handler
      BY <1>1
    <3>2. \A w \in Workers : Emitting(w)' = Emitting(w)
      BY <3>1 DEF Emitting
    <3>3. \A w \in Workers \ {v} : Emitting(w)' =>
            \/ handler'[w].shipmentId # handler'[v].shipmentId
            \/ handler'[w].event # handler'[v].event
      BY <2>1, <3>1, <3>2 DEF OwnEvent
    <3>4. \A d \in Clients : \A k \in DOMAIN inbox'[d] :
            \/ inbox'[d][k].shipmentId # handler'[v].shipmentId
            \/ inbox'[d][k].timestamp # handler'[v].event
      BY <2>1, <2>3, <3>1 DEF OwnEvent
    <3> QED BY <3>3, <3>4 DEF OwnEvent
  <2> QED BY <2>2, <2>4
<1> QED BY <1>3, <1>4 DEF EmitInv

LEMMA NextEmitInv ==
  ASSUME IInv, EmitInv, [Next]_vars
  PROVE  EmitInv'
<1>1. CASE UNCHANGED vars
  BY <1>1 DEF vars, EmitInv, MessagesAreLogged, Emitting, Reported, OwnEvent
<1>2. CASE \E c \in Clients : GatewayNext(c)
  BY <1>2, GatewayStep
<1>3. ASSUME NEW w \in Workers, Serve(w) \/ Fail(w)
      PROVE  EmitInv'
  <2>1. CASE GpsInsert(w)
    BY <1>3, <2>1, OthersStay, InsertStep
  <2>2. CASE GpsEmit(w)
    BY <1>3, <2>2, OthersStay, EmitStep
  <2>3. CASE ~GpsInsert(w) /\ ~GpsEmit(w)
    <3>1. \A v \in Workers : Emitting(v)' => handler'[v] = handler[v]
      BY <1>3, <2>3, OthersStay, EmittingStep
    <3>2. UNCHANGED sockets
      BY <1>3, <2>3, WorkerSockets
    <3> QED BY <1>3, <3>1, <3>2, OthersStay, QuietStep DEF Outcome
  <2> QED BY <2>1, <2>2, <2>3
<1> QED BY <1>1, <1>2, <1>3 DEF Next

\* Every client is sent only what is in the log of the shipment it subscribed
\* to, and nothing twice, however many GPS updates are under way.
THEOREM MessagesCorrect == Spec => []MessagesAreLogged
<1>1. Init => EmitInv
  BY DEF Init, EmitInv, MessagesAreLogged, Emitting, Blank
<1>2. IInv /\ EmitInv /\ [Next]_vars => EmitInv'
  BY NextEmitInv
<1>3. EmitInv => MessagesAreLogged
  BY DEF EmitInv
<1> QED BY <1>1, <1>2, <1>3, InvariantHolds, PTL DEF Spec

-------------------------------------------------------------------------------
(* Nothing is sent late *)

LEMMA SentNow ==
  ASSUME IInv, NEW w \in Workers, GpsEmit(w), NEW c \in Clients,
         NEW s, NEW i, ~Announcing(s, i)
  PROVE  Sent(c, s, i)' \subseteq Sent(c, s, i)
<1> PICK h \in Handlers, x \in Shipments : h = handler[w] /\ x = h.shipmentId
  BY ValueTypes DEF GpsEmit, IInv, Shape
<1> DEFINE m == [shipmentId |-> x, trackingNumber |-> h.number,
                 status |-> h.seen, timestamp |-> h.event]
<1>1. m.shipmentId # s \/ m.timestamp # i
  BY DEF GpsEmit, Announcing
<1>2. inbox[c] \in Seq(Messages) /\ inbox'[c] \in {inbox[c], Append(inbox[c], m)}
  BY DEF GpsEmit, EmitTrackingUpdate, IInv, TypeOK
<1>3. ASSUME NEW k \in DOMAIN inbox'[c]
      PROVE  \/ k \in DOMAIN inbox[c] /\ inbox'[c][k] = inbox[c][k]
             \/ inbox'[c][k] = m
  BY <1>2
<1> QED BY <1>1, <1>3 DEF Sent

\* A message about a GPS event comes from the request that logged it, and from
\* no later one.
THEOREM NothingLate == Spec => NoLateMessages
<1> DEFINE Told(s, i) == /\ ~Announcing(s, i)'
                         /\ \A c \in Clients : Sent(c, s, i)' \subseteq Sent(c, s, i)
<1>1. IInv /\ [Next]_vars =>
        \A s \in Shipments : \A i \in DOMAIN events[s] : ~Announcing(s, i) => Told(s, i)
  <2> SUFFICES ASSUME IInv, [Next]_vars, NEW s \in Shipments, NEW i \in DOMAIN events[s],
                      ~Announcing(s, i)
               PROVE  Told(s, i)
    OBVIOUS
  <2>1. CASE UNCHANGED vars
    BY <2>1 DEF vars, Announcing, Sent
  <2>2. CASE \E c \in Clients : GatewayNext(c)
    <3>1. UNCHANGED handler
      BY <2>2 DEF GatewayNext, Subscribe, Disconnect
    <3>2. \A d \in Clients : inbox'[d] = inbox[d] \/ inbox'[d] = <<>>
      BY <2>2 DEF GatewayNext, Subscribe, Disconnect, IInv, TypeOK
    <3> QED BY <3>1, <3>2 DEF Announcing, Sent
  <2>3. ASSUME NEW w \in Workers, Serve(w) \/ Fail(w)
        PROVE  Told(s, i)
    <3>1. \A v \in Workers \ {w} : handler'[v] = handler[v]
      BY <2>3, OthersStay
    <3>2. ASSUME handler'[w].at = "gps.emit", handler'[w].shipmentId = s,
                 handler'[w].event = i
          PROVE  FALSE
      <4>1. CASE handler'[w] = handler[w]
        BY <3>2, <4>1 DEF Announcing
      <4>2. CASE GpsInsert(w)
        <5>1. handler'[w].event = Len(events[s]) + 1
          BY <3>2, <4>2 DEF GpsInsert, Goto, Handlers, IInv, TypeOK
        <5>2. events[s] \in Seq(Events)
          BY DEF IInv, TypeOK
        <5> QED BY <3>2, <5>1, <5>2
      <4> QED BY <2>3, <3>2, <4>1, <4>2, EmittingStep DEF Emitting
    <3>3. ~Announcing(s, i)'
      BY <3>1, <3>2 DEF Announcing
    <3>4. CASE GpsEmit(w)
      BY <3>3, <3>4, SentNow
    <3>5. CASE ~GpsEmit(w)
      <4>1. UNCHANGED sockets
        BY <2>3, <3>5, WorkerSockets
      <4> QED BY <3>3, <4>1 DEF sockets, Sent
    <3> QED BY <3>4, <3>5
  <2> QED BY <2>1, <2>2, <2>3 DEF Next
<1>2. IInv /\ [Next]_vars =>
        [\A s \in Shipments : \A i \in DOMAIN events[s] :
           ~Announcing(s, i) =>
             /\ ~Announcing(s, i)'
             /\ \A c \in Clients : Sent(c, s, i)' \subseteq Sent(c, s, i)]_vars
  BY <1>1
<1> QED BY <1>2, InvariantHolds, PTL DEF Spec, NoLateMessages

===============================================================================
