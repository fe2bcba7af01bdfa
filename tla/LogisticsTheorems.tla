--------------------------- MODULE LogisticsTheorems ---------------------------
(***************************************************************************)
(* The safety properties of Logistics as theorems.  Each is carried by the *)
(* invariant of LogisticsProofs through the six effects a step can have on *)
(* the rows.                                                               *)
(***************************************************************************)
EXTENDS LogisticsProofs

-------------------------------------------------------------------------------
(* Tracking numbers *)

LEMMA TrackingUniqueStep ==
  ASSUME IInv, TrackingUnique, NEW w \in Workers, RowStep(w)
  PROVE  TrackingUnique'
<1> SUFFICES ASSUME NEW s \in Shipments, NEW t \in Shipments, Exists(s)',
                    ship'[s].trackingNumber = ship'[t].trackingNumber, s # t
             PROVE  FALSE
  BY DEF TrackingUnique
<1>1. Exists(t)'
  BY DEF Exists
<1>2. CASE Exists(s) /\ Exists(t)
  BY <1>2, RowsGrow DEF TrackingUnique
<1>3. CASE ~(Exists(s) /\ Exists(t))
  <2>1. PICK x \in {s, t} :
          /\ x = handler[w].shipmentId
          /\ handler[w].at = "create.insert" /\ ~Exists(x)
    BY <1>1, <1>3, RowsGrow
  <2>2. x \in Shipments /\ Inserts(w, x)
    <3>1. ~Exists(x) /\ Exists(x)'
      BY <1>1, <2>1 DEF Exists
    <3>2. ship'[x] # ship[x]
      BY <3>1 DEF Exists
    <3>3. x \in Shipments
      BY <2>1
    <3> QED BY <2>1, <3>2, <3>3 DEF RowStep, Commits, Logs, Touches, Moves, rows
  <2>3. PICK n \in Numbers :
          /\ \A r \in Shipments : ship[r].trackingNumber # n
          /\ ship' = [ship EXCEPT ![x] = [NoRow EXCEPT !.trackingNumber = n]]
    BY <2>2 DEF Inserts
  <2>4. ship'[x].trackingNumber = n
    BY <2>2, <2>3 DEF IInv, TypeOK, NoRow
  <2>5. \A r \in {s, t} \ {x} : ship'[r].trackingNumber # n
    BY <2>2, <2>3 DEF IInv, TypeOK
  <2> QED BY <2>1, <2>4, <2>5
<1> QED BY <1>2, <1>3

\* A tracking number names at most one shipment, deleted ones included:
\* create's lookup and insert are two calls, and the unique column closes the
\* gap between them.
THEOREM TrackingNumbersUnique == Spec => []TrackingUnique
<1>1. Init => TrackingUnique
  BY DEF Init, TrackingUnique, Exists, NoRow
<1>2. IInv /\ TrackingUnique /\ [Next]_vars => TrackingUnique'
  <2> SUFFICES ASSUME IInv, TrackingUnique, [Next]_vars PROVE TrackingUnique'
    OBVIOUS
  <2>1. CASE UNCHANGED rows
    BY <2>1 DEF rows, TrackingUnique, Exists
  <2>2. CASE \E w \in Workers : Outcome(w)
    BY <2>2, TrackingUniqueStep DEF Outcome
  <2> QED BY <2>1, <2>2, StepOutcome DEF vars, rows
<1> QED BY <1>1, <1>2, InvariantHolds, PTL DEF Spec

-------------------------------------------------------------------------------
(* The log *)

\* Appending an event leaves the past of every older position as it was, and
\* the past of the new one is all the shipment has held.
LEMMA PastIsKept ==
  ASSUME IInv, NEW s \in Shipments, NEW e \in Events, AppendEvent(s, e)
  PROVE  \E n \in Nat :
           /\ n = Len(events[s]) + 1
           /\ \A i \in DOMAIN events[s] : HeldBefore(s, i)' = HeldBefore(s, i)
           /\ HeldBefore(s, n)' = Held(s)
<1> PICK n \in Nat : n = Len(events[s]) + 1
  BY AppendedLog
<1>1. /\ n \in Nat
      /\ DOMAIN events[s] = 1 .. (n - 1)
      /\ DOMAIN events'[s] = 1 .. n
      /\ \A i \in DOMAIN events[s] : events'[s][i] = events[s][i]
  BY AppendedLog
<1>2. ASSUME NEW i \in 1 .. n
      PROVE  {j \in Changes(s) : j < i} = {j \in Changes(s)' : j < i}
  BY <1>1 DEF Changes
<1>3. ASSUME NEW i \in 1 .. n
      PROVE  HeldBefore(s, i)' = HeldBefore(s, i)
  <2>1. \A j \in {k \in Changes(s) : k < i} : events'[s][j] = events[s][j]
    BY <1>1 DEF Changes
  <2> QED BY <1>2, <2>1 DEF HeldBefore
<1>4. HeldBefore(s, n) = Held(s)
  <2>1. {j \in Changes(s) : j < n} = Changes(s)
    BY <1>1 DEF Changes
  <2> QED BY <2>1 DEF HeldBefore, Held
<1>5. n \in 1 .. n
  BY <1>1
<1> QED BY <1>1, <1>3, <1>4, <1>5

\* A step either leaves the log of a shipment alone, or appends one event to
\* it which fits what the shipment has held.
LEMMA LogEffect ==
  ASSUME IInv, NEW w \in Workers, RowStep(w), NEW s \in Shipments
  PROVE  \/ events'[s] = events[s]
         \/ \E e \in Events :
              /\ AppendEvent(s, e)
              /\ e.note \in ChangeNotes =>
                   \E p \in Held(s) : e.status \in VALID_TRANSITIONS[p]
              /\ e.note = "gps" => e.status \in Held(s)
<1> DEFINE x == handler[w].shipmentId
<1>1. CASE UNCHANGED events
  BY <1>1
<1>2. CASE x \in Shipments /\ Commits(x)
  <2>1. PICK p \in Held(x), t \in Statuses, note \in ChangeNotes,
             u \in Users \cup {Null} :
          t \in VALID_TRANSITIONS[p] /\ CommitStatus(x, t, note, u)
    BY <1>2 DEF Commits
  <2> DEFINE e == [status |-> t, note |-> note, createdBy |-> u]
  <2>2. e \in Events /\ e.note # "gps" /\ e.status = t /\ AppendEvent(x, e)
    BY <2>1 DEF Events, Notes, ChangeNotes, CommitStatus
  <2>3. CASE s = x
    BY <2>1, <2>2, <2>3
  <2>4. CASE s # x
    BY <1>2, <2>2, <2>4, AppendedLog
  <2> QED BY <2>3, <2>4
<1>3. CASE x \in Shipments /\ Logs(x)
  BY <1>3, AppendedLog DEF Logs
<1> QED BY <1>1, <1>2, <1>3 DEF RowStep, Inserts, Touches, Moves, rows

LEMMA LogOrderStep ==
  ASSUME IInv, MilestonesInOrder, GpsStatusHeld, NEW w \in Workers, RowStep(w)
  PROVE  MilestonesInOrder' /\ GpsStatusHeld'
<1> DEFINE Fits(s, i) ==
      /\ events[s][i].note \in ChangeNotes =>
           \E p \in HeldBefore(s, i) : events[s][i].status \in VALID_TRANSITIONS[p]
      /\ events[s][i].note = "gps" => events[s][i].status \in HeldBefore(s, i)
<1> SUFFICES ASSUME NEW s \in Shipments
             PROVE  \A i \in DOMAIN events'[s] : Fits(s, i)'
  BY DEF MilestonesInOrder, GpsStatusHeld, Changes
<1>1. \A i \in DOMAIN events[s] : Fits(s, i)
  BY DEF MilestonesInOrder, GpsStatusHeld, Changes
<1>2. CASE events'[s] = events[s]
  <2>1. Changes(s)' = Changes(s)
    BY <1>2 DEF Changes
  <2>2. \A i \in DOMAIN events[s] : HeldBefore(s, i)' = HeldBefore(s, i)
    BY <1>2, <2>1 DEF HeldBefore
  <2> QED BY <1>1, <1>2, <2>2
<1>3. CASE events'[s] # events[s]
  <2>1. PICK e \in Events :
          /\ AppendEvent(s, e)
          /\ e.note \in ChangeNotes =>
               \E p \in Held(s) : e.status \in VALID_TRANSITIONS[p]
          /\ e.note = "gps" => e.status \in Held(s)
    BY <1>3, LogEffect
  <2>2. PICK n \in Nat :
          /\ n = Len(events[s]) + 1
          /\ \A i \in DOMAIN events[s] : HeldBefore(s, i)' = HeldBefore(s, i)
          /\ HeldBefore(s, n)' = Held(s)
    BY <2>1, PastIsKept
  <2>3. /\ DOMAIN events[s] = 1 .. (n - 1) /\ DOMAIN events'[s] = 1 .. n
        /\ \A i \in DOMAIN events[s] : events'[s][i] = events[s][i]
        /\ events'[s][n] = e
    BY <2>1, <2>2, AppendedLog
  <2>4. Fits(s, n)'
    BY <2>1, <2>2, <2>3
  <2>5. \A i \in DOMAIN events[s] : Fits(s, i)'
    BY <1>1, <2>2, <2>3
  <2>6. \A i \in DOMAIN events'[s] : i \in DOMAIN events[s] \/ i = n
    BY <2>3
  <2> QED BY <2>4, <2>5, <2>6
<1> QED BY <1>2, <1>3

LEMMA LogOrder == Spec => [](MilestonesInOrder /\ GpsStatusHeld)
<1> DEFINE LogInv == MilestonesInOrder /\ GpsStatusHeld
<1>1. Init => LogInv
  BY DEF Init, MilestonesInOrder, GpsStatusHeld, Changes
<1>2. IInv /\ LogInv /\ [Next]_vars => LogInv'
  <2> SUFFICES ASSUME IInv, LogInv, [Next]_vars PROVE LogInv'
    OBVIOUS
  <2>1. CASE UNCHANGED rows
    BY <2>1 DEF rows, MilestonesInOrder, GpsStatusHeld, Changes, HeldBefore
  <2>2. CASE \E w \in Workers : Outcome(w)
    BY <2>2, LogOrderStep DEF Outcome
  <2> QED BY <2>1, <2>2, StepOutcome DEF vars, rows
<1> HIDE DEF LogInv
<1>3. Spec => []LogInv
  BY <1>1, <1>2, InvariantHolds, PTL DEF Spec
<1> QED BY <1>3 DEF LogInv

\* No interleaving of the handlers skips a milestone: a status is entered only
\* after one that VALID_TRANSITIONS leads to it from.
THEOREM MilestonesCorrect == Spec => []MilestonesInOrder
<1>1. MilestonesInOrder /\ GpsStatusHeld => MilestonesInOrder
  OBVIOUS
<1> QED BY <1>1, LogOrder, PTL

\* The status on a GPS event is one the shipment had when it was logged,
\* however long the driver's request was under way.
THEOREM GpsCorrect == Spec => []GpsStatusHeld
<1>1. MilestonesInOrder /\ GpsStatusHeld => GpsStatusHeld
  OBVIOUS
<1> QED BY <1>1, LogOrder, PTL

-------------------------------------------------------------------------------
(* The warehouse *)

LEMMA WarehouseStep ==
  ASSUME IInv, WarehouseMatchesTrail, NEW w \in Workers, RowStep(w)
  PROVE  WarehouseMatchesTrail'
<1> DEFINE logged(s, note) == {i \in DOMAIN events[s] : events[s][i].note = note}
           Matches(s) ==
             /\ \A i, j \in logged(s, "received") : i = j
             /\ Stored(s) <=> logged(s, "received") # {}
             /\ item[s].state = "out" <=> logged(s, "outbound") # {}
             /\ \A j \in logged(s, "outbound") :
                  \E i \in logged(s, "received") : i < j
<1> SUFFICES ASSUME NEW s \in Shipments PROVE Matches(s)'
  BY DEF WarehouseMatchesTrail
<1>1. Matches(s)
  BY DEF WarehouseMatchesTrail
<1> DEFINE x == handler[w].shipmentId
<1>2. CASE events'[s] = events[s] /\ item'[s].state = item[s].state
  BY <1>1, <1>2 DEF Stored
<1>3. CASE x \in Shipments /\ x # s /\ (Commits(x) \/ Logs(x) \/ Moves(x))
  <2>1. events'[s] = events[s]
    <3>1. \A t \in Statuses, note \in ChangeNotes, u \in Users \cup {Null} :
            [status |-> t, note |-> note, createdBy |-> u] \in Events
      BY DEF Events, Notes
    <3> QED BY <1>3, <3>1, AppendedLog DEF Commits, CommitStatus, Logs, Moves
  <2>2. item'[s] = item[s]
    BY <1>3, CommitItem DEF Logs, Moves, IInv, TypeOK
  <2> QED BY <1>2, <2>1, <2>2
<1>4. CASE x \in Shipments /\ x = s /\ Moves(x)
  <2>1. PICK loc \in Locations \cup {Null} : 
          item' = [item EXCEPT ![s].location = loc]
    BY <1>4 DEF Moves
  <2>2. item'[s].state = item[s].state
    BY <2>1 DEF IInv, TypeOK, Items
  <2> QED BY <1>2, <1>4, <2>2 DEF Moves
<1>5. CASE x \in Shipments /\ x = s /\ Logs(x)
  <2>1. PICK e \in Events : e.note \notin ChangeNotes /\ AppendEvent(s, e)
    BY <1>5 DEF Logs
  <2>2. \A note \in {"received", "outbound"} : logged(s, note)' = logged(s, note)
    BY <2>1, AppendedLog DEF ChangeNotes
  <2>3. item' = item
    BY <1>5 DEF Logs
  <2> QED BY <1>1, <2>2, <2>3 DEF Stored
<1>6. CASE x \in Shipments /\ x = s /\ Commits(x)
  <2>1. PICK t \in Statuses, note \in ChangeNotes, u \in Users \cup {Null} :
          /\ CommitStatus(s, t, note, u)
          /\ \/ note = "status" /\ UNCHANGED item
             \/ /\ note = "received" /\ ~Stored(s)
                /\ \E loc \in Locations \cup {Null} :
                     item' = [item EXCEPT ![s] = [state |-> "inStock", location |-> loc]]
             \/ /\ note = "outbound" /\ Stored(s)
                /\ item' = [item EXCEPT ![s].state = "out"]
    BY <1>6 DEF Commits
  <2> DEFINE e == [status |-> t, note |-> note, createdBy |-> u]
  <2>2. e \in Events /\ AppendEvent(s, e) /\ e.note = note
    BY <2>1 DEF Events, Notes, CommitStatus
  <2>3. PICK n \in Nat : n = Len(events[s]) + 1
    BY <2>2, AppendedLog
  <2>4. /\ DOMAIN events[s] = 1 .. (n - 1) /\ DOMAIN events'[s] = 1 .. n
        /\ \A i \in DOMAIN events[s] : events'[s][i] = events[s][i]
        /\ events'[s][n].note = note
    BY <2>2, <2>3, AppendedLog
  <2>5. /\ logged(s, note)' = logged(s, note) \cup {n}
        /\ \A k \in {"received", "outbound"} \ {note} : logged(s, k)' = logged(s, k)
        /\ \A k \in {"received", "outbound"} : \A i \in logged(s, k) : i < n
    <3>1. n \in 1 .. n /\ n \notin 1 .. (n - 1)
      BY <2>2, <2>3, AppendedLog
    <3>2. 1 .. n = (1 .. (n - 1)) \cup {n}
      BY <3>1
    <3>3. logged(s, note)' = logged(s, note) \cup {n}
      BY <2>4, <3>1, <3>2
    <3>4. ASSUME NEW k \in {"received", "outbound"} \ {note}
          PROVE  logged(s, k)' = logged(s, k)
      BY <2>4, <3>1, <3>2
    <3>5. \A k \in {"received", "outbound"} : \A i \in logged(s, k) : i < n
      BY <2>4
    <3> QED BY <3>3, <3>4, <3>5
  <2>6. CASE note = "status" /\ UNCHANGED item
    <3>1. \A k \in {"received", "outbound"} : logged(s, k)' = logged(s, k)
      BY <2>5, <2>6
    <3> QED BY <1>1, <2>6, <3>1 DEF Stored
  <2>7. CASE note = "received" /\ ~Stored(s) /\ item'[s].state = "inStock"
    <3>1. logged(s, "received") = {} /\ logged(s, "outbound") = {}
      BY <1>1, <2>7 DEF Stored
    <3>2. logged(s, "received")' = {n} /\ logged(s, "outbound")' = {}
      BY <2>5, <2>7, <3>1
    <3> QED BY <2>7, <3>2 DEF Stored
  <2>8. CASE note = "outbound" /\ Stored(s) /\ item'[s].state = "out"
    <3>1. /\ logged(s, "received")' = logged(s, "received")
          /\ logged(s, "outbound")' = logged(s, "outbound") \cup {n}
          /\ \A i \in logged(s, "received") : i < n
      BY <2>5, <2>8
    <3> QED BY <1>1, <2>8, <3>1 DEF Stored
  <2> QED BY <2>1, <2>6, <2>7, <2>8, OutUpdate, ReceiveUpdate
<1>7. CASE x \in Shipments /\ (Inserts(w, x) \/ Touches(x))
  BY <1>2, <1>7 DEF Inserts, Touches
<1> QED BY <1>2, <1>3, <1>4, <1>5, <1>6, <1>7 DEF RowStep, rows

\* The item of a shipment and its log never disagree: one reception at most,
\* and an item that is out exactly when an outbound is logged after it.
THEOREM WarehouseCorrect == Spec => []WarehouseMatchesTrail
<1>1. Init => WarehouseMatchesTrail
  BY DEF Init, WarehouseMatchesTrail, Stored, NoItem
<1>2. IInv /\ WarehouseMatchesTrail /\ [Next]_vars => WarehouseMatchesTrail'
  <2> SUFFICES ASSUME IInv, WarehouseMatchesTrail, [Next]_vars
               PROVE  WarehouseMatchesTrail'
    OBVIOUS
  <2>1. CASE UNCHANGED rows
    BY <2>1 DEF rows, WarehouseMatchesTrail, Stored
  <2>2. CASE \E w \in Workers : Outcome(w)
    BY <2>2, WarehouseStep DEF Outcome
  <2> QED BY <2>1, <2>2, StepOutcome DEF vars, rows
<1> QED BY <1>1, <1>2, InvariantHolds, PTL DEF Spec

-------------------------------------------------------------------------------
(* Deleted shipments *)

LEMMA RetiredRows ==
  ASSUME IInv, NEW w \in Workers, RowStep(w), NEW s \in Shipments, Retired(s)
  PROVE  /\ ship'[s] = ship[s]
         /\ events'[s] = events[s]
         /\ item'[s].state = item[s].state
<1> DEFINE x == handler[w].shipmentId
<1>1. CASE UNCHANGED rows
  BY <1>1 DEF rows
<1>2. CASE x \in Shipments /\ handler[w].at # "move.write" /\ ~UNCHANGED rows
           /\ (Inserts(w, x) \/ Commits(x) \/ Logs(x) \/ Touches(x))
  <2>1. x # s
    BY <1>2 DEF Retired, Writing
  <2>2. ship \in [Shipments -> Ships]
    BY DEF IInv, TypeOK
  <2>3. CASE Inserts(w, x) \/ Touches(x) \/ Logs(x)
    BY <1>2, <2>1, <2>2, <2>3, AppendedLog DEF Inserts, Touches, Logs
  <2>4. CASE Commits(x)
    <3>1. PICK t \in Statuses, note \in ChangeNotes, u \in Users \cup {Null} :
            CommitStatus(x, t, note, u)
      BY <2>4 DEF Commits
    <3>2. [status |-> t, note |-> note, createdBy |-> u] \in Events
      BY DEF Events, Notes
    <3> QED BY <1>2, <2>1, <2>4, <3>1, <3>2, StatusUpdate, AppendedLog, CommitItem
            DEF CommitStatus
  <2> QED BY <1>2, <2>3, <2>4
<1>3. CASE x \in Shipments /\ Moves(x)
  <2>1. PICK loc \in Locations \cup {Null} :
          item' = [item EXCEPT ![x].location = loc]
    BY <1>3 DEF Moves
  <2>2. item'[s].state = item[s].state
    BY <1>3, <2>1 DEF IInv, TypeOK, Items
  <2> QED BY <1>3, <2>2 DEF Moves
<1> QED BY <1>1, <1>2, <1>3 DEF RowStep

LEMMA RetiredForGood ==
  ASSUME IInv, NEW w \in Workers, Outcome(w), NEW s \in Shipments, Retired(s)
  PROVE  Retired(s)'
<1>1. ship'[s] = ship[s]
  BY RetiredRows DEF Outcome
<1>2. Exists(s)
  BY DEF Retired, IInv, NothingBeforeInsert, NoRow
<1>3. PICK h \in Handlers : Goto(w, h) /\ Shape(h) /\ Origin(w, h)
  BY DEF Outcome
<1>4. handler' = [handler EXCEPT ![w] = h] /\ handler \in [Workers -> Handlers]
  BY <1>3 DEF Goto, IInv, TypeOK
<1>5. ~(h.shipmentId = s /\ h.at # "move.write")
  <2> SUFFICES ASSUME h.shipmentId = s, h.at # "move.write" PROVE FALSE
    OBVIOUS
  <2>1. h.at \notin {"idle", "bulk.find"}
    BY <1>3, NullAssumption DEF Shape
  <2>2. ~Found(s)
    BY DEF Retired, Found
  <2>3. s = handler[w].shipmentId /\ handler[w].at # "move.write"
    BY <1>2, <1>3, <2>1, <2>2 DEF Origin
  <2> QED BY <2>3 DEF Retired, Writing
<1>6. ~Writing(s)'
  BY <1>4, <1>5 DEF Retired, Writing
<1> QED BY <1>1, <1>6 DEF Retired

\* Once the requests that found a shipment before its deletion have ended,
\* nothing changes its row, its log or the state of its item.
THEOREM DeletedStaysQuiet == Spec => DeletedQuiescent
<1> DEFINE Quiet(s) == /\ Retired(s)'
                       /\ ship'[s] = ship[s]
                       /\ events'[s] = events[s]
                       /\ item'[s].state = item[s].state
<1>1. IInv /\ [Next]_vars => \A s \in Shipments : Retired(s) => Quiet(s)
  <2> SUFFICES ASSUME IInv, [Next]_vars, NEW s \in Shipments, Retired(s)
               PROVE  Quiet(s)
    OBVIOUS
  <2>1. CASE UNCHANGED <<rows, handler>>
    BY <2>1 DEF rows, Retired, Writing
  <2>2. CASE \E w \in Workers : Outcome(w)
    BY <2>2, RetiredRows, RetiredForGood DEF Outcome
  <2> QED BY <2>1, <2>2, StepOutcome DEF vars, rows
<1>2. IInv /\ [Next]_vars => [\A s \in Shipments : Retired(s) => Quiet(s)]_vars
  BY <1>1
<1> QED BY <1>2, InvariantHolds, PTL DEF Spec, DeletedQuiescent

-------------------------------------------------------------------------------
(* The journey of a shipment *)

LEMMA SameTable == J!VALID_TRANSITIONS = VALID_TRANSITIONS /\ J!Statuses = Statuses
BY DEF J!VALID_TRANSITIONS, VALID_TRANSITIONS, J!Statuses, Statuses

\* What an event adds to the statuses a shipment has held.
LEMMA HeldAfter ==
  ASSUME IInv, NEW s \in Shipments, NEW e \in Events, AppendEvent(s, e)
  PROVE  /\ Held(s)' = IF e.note \in ChangeNotes
                       THEN Held(s) \cup {e.status} ELSE Held(s)
         /\ \A t \in Shipments \ {s} : Held(t)' = Held(t)
<1> PICK n \in Nat : n = Len(events[s]) + 1
  BY AppendedLog
<1>1. /\ DOMAIN events[s] = 1 .. (n - 1) /\ DOMAIN events'[s] = 1 .. n
      /\ \A i \in DOMAIN events[s] : events'[s][i] = events[s][i]
      /\ events'[s][n] = e
      /\ n \in 1 .. n
  BY AppendedLog
<1>2. Changes(s)' = IF e.note \in ChangeNotes THEN Changes(s) \cup {n} ELSE Changes(s)
  BY <1>1 DEF Changes
<1>3. \A i \in Changes(s) : events'[s][i] = events[s][i]
  BY <1>1 DEF Changes
<1>4. Held(s)' = IF e.note \in ChangeNotes THEN Held(s) \cup {e.status} ELSE Held(s)
  BY <1>1, <1>2, <1>3 DEF Held
<1>5. \A t \in Shipments \ {s} : Held(t)' = Held(t)
  BY AppendedLog DEF Held, Changes
<1> QED BY <1>4, <1>5

LEMMA JourneyStep ==
  ASSUME IInv, NEW w \in Workers, RowStep(w)
  PROVE  \/ J!Advance
         \/ \A s \in Shipments : Held(s)' = Held(s) /\ ship'[s].status = ship[s].status
<1> DEFINE x == handler[w].shipmentId
<1>1. ship \in [Shipments -> Ships]
  BY DEF IInv, TypeOK
<1>2. CASE UNCHANGED rows
  BY <1>2 DEF rows, Held, Changes
<1>3. CASE x \in Shipments /\ Inserts(w, x)
  <2>1. ship[x].status = "DRAFT"
    BY <1>3 DEF Inserts, IInv, Facts, Creating, NothingBeforeInsert, NoRow
  <2>2. \A s \in Shipments : ship'[s].status = ship[s].status
    BY <1>1, <1>3, <2>1 DEF Inserts, NoRow
  <2> QED BY <1>3, <2>2 DEF Inserts, Held, Changes
<1>4. CASE x \in Shipments /\ Commits(x)
  <2>0. PICK s \in Shipments : s = x
    BY <1>4
  <2>1. PICK p \in Held(s), t \in Statuses, note \in ChangeNotes,
             u \in Users \cup {Null} :
          /\ t \in VALID_TRANSITIONS[p]
          /\ CommitStatus(s, t, note, u)
    BY <1>4, <2>0 DEF Commits
  <2> DEFINE e == [status |-> t, note |-> note, createdBy |-> u]
  <2>2. e \in Events /\ e.note \in ChangeNotes /\ e.status = t /\ AppendEvent(s, e)
    BY <2>1 DEF Events, Notes, CommitStatus
  <2>3. /\ Held(s)' = Held(s) \cup {t}
        /\ \A r \in Shipments \ {s} : Held(r)' = Held(r)
    BY <2>2, HeldAfter
  <2>4. /\ ship'[s].status = t
        /\ \A r \in Shipments \ {s} : ship'[r].status = ship[r].status
    BY <2>1, StatusUpdate DEF CommitStatus
  <2> DEFINE held == [r \in Shipments |-> Held(r)]
             current == [r \in Shipments |-> ship[r].status]
  <2>5. [r \in Shipments |-> Held(r)'] = [held EXCEPT ![s] = @ \cup {t}]
    BY <2>3
  <2>6. [r \in Shipments |-> ship'[r].status] = [current EXCEPT ![s] = t]
    BY <2>4
  <2>7. J!Enter(s, p, t)
    BY <2>1, <2>5, <2>6, SameTable DEF J!Enter
  <2>8. held[s] = Held(s)
    OBVIOUS
  <2> QED BY <2>7, <2>8, SameTable DEF J!Advance
<1>5. CASE x \in Shipments /\ Logs(x)
  BY <1>5, HeldAfter DEF Logs
<1>6. CASE x \in Shipments /\ Touches(x)
  BY <1>1, <1>6 DEF Touches, Held, Changes
<1>7. CASE x \in Shipments /\ Moves(x)
  BY <1>7 DEF Moves, Held, Changes
<1> QED BY <1>2, <1>3, <1>4, <1>5, <1>6, <1>7 DEF RowStep

\* The services implement the journey: every step of every handler is an
\* advance from a status the shipment has held, or leaves the journey alone.
THEOREM JourneyCorrect == Spec => Journey
<1>1. Init => J!JourneyInit
  <2> SUFFICES ASSUME Init PROVE J!JourneyInit
    OBVIOUS
  <2>1. \A s \in Shipments : Held(s) = {"DRAFT"} /\ ship[s].status = "DRAFT"
    BY DEF Init, Held, Changes, NoRow
  <2> QED BY <2>1 DEF J!JourneyInit
<1>2. IInv /\ [Next]_vars => [J!Advance]_(J!journey)
  <2> SUFFICES ASSUME IInv, [Next]_vars PROVE J!Advance \/ UNCHANGED J!journey
    OBVIOUS
  <2>1. CASE UNCHANGED rows
    BY <2>1 DEF rows, J!journey, Held, Changes
  <2>2. CASE \E w \in Workers : Outcome(w)
    BY <2>2, JourneyStep DEF Outcome, J!journey
  <2> QED BY <2>1, <2>2, StepOutcome DEF vars, rows
<1> QED BY <1>1, <1>2, InvariantHolds, PTL DEF Spec, Journey, J!Spec

-------------------------------------------------------------------------------
(* Requests under way: what they read, and what they may still write         *)

NextStages == {<<"receive.check", "receive.write">>,
               <<"outbound.item", "outbound.write">>, <<"gps.insert", "gps.emit">>}

\* A request has read the status it acts on in this very step, or it goes on
\* with the one it has read.
ReadNow(w) == handler'[w].seen = ship[handler'[w].shipmentId].status
GoesOn(w) ==
  /\ <<handler[w].at, handler'[w].at>> \in NextStages
  /\ handler'[w].shipmentId = handler[w].shipmentId
  /\ handler'[w].seen = handler[w].seen

LEMMA EndsQuietly ==
  ASSUME IInv, NEW w \in Workers, Finish(w) \/ NextItem(w)
  PROVE  handler'[w].at \in {"idle", "bulk.find"}
<1>1. handler \in [Workers -> Handlers]
  BY DEF IInv, TypeOK
<1>2. CASE Finish(w)
  BY <1>1, <1>2 DEF Finish, Goto, Blank
<1>3. CASE NextItem(w) /\ ~Finish(w)
  BY <1>1, <1>3 DEF NextItem, Goto, Blank
<1> QED BY <1>2, <1>3

LEMMA DrawsQuietly ==
  ASSUME IInv, NEW w \in Workers, CreateStart(w) \/ CreateRetry(w)
  PROVE  handler'[w].at \in Creating \cup {"idle"}
<1>1. handler \in [Workers -> Handlers]
  BY DEF IInv, TypeOK
<1>2. ASSUME NEW h \in Handlers, DrawNumber(w, h)
      PROVE  handler'[w].at \in Creating \cup {"idle"}
  <2>1. \A n \in Numbers : [h EXCEPT !.at = "create.insert", !.number = n].at = "create.insert"
    BY DEF Handlers
  <2>2. [h EXCEPT !.at = "create.find", !.attempts = h.attempts + 1].at = "create.find"
    BY DEF Handlers
  <2>3. handler'[w].at \in Creating \/ Finish(w)
    BY <1>1, <1>2, <2>1, <2>2 DEF DrawNumber, Goto, Creating
  <2> QED BY <1>1, <2>3 DEF Finish, Goto, Blank
<1>3. \A u \in Callers, s \in Shipments :
        [Blank EXCEPT !.user = CurrentUser(u, "sub"), !.shipmentId = s] \in Handlers
  BY BlankType, ValueTypes DEF Handlers
<1> QED BY <1>1, <1>2, <1>3 DEF CreateStart, CreateRetry

\* The finds of updateStatus, receive, outbound and updateGps.
LEMMA FindsRead ==
  ASSUME IInv, NEW w \in Workers, handler'[w] # handler[w],
         StatusFind(w) \/ ReceiveFind(w) \/ OutboundFind(w) \/ GpsFind(w)
  PROVE  ReadNow(w)
<1>1. handler \in [Workers -> Handlers]
  BY DEF IInv, TypeOK
<1>2. PICK h : h.seen = ship[h.shipmentId].status /\ Goto(w, h)
  <2>1. CASE StatusFind(w)
    <3>1. PICK u \in Callers, s \in Shipments, t \in Statuses :
            Goto(w, [Blank EXCEPT !.at = "status.write",
                       !.user = CurrentUser(u, "sub"), !.shipmentId = s,
                       !.seen = ship[s].status, !.to = t])
      BY <2>1 DEF StatusFind
    <3> QED BY <3>1 DEF Blank
  <2>2. CASE ReceiveFind(w)
    <3>1. PICK u \in Callers, s \in Shipments, loc \in Locations \cup {Null} :
            Goto(w, [Blank EXCEPT !.at = "receive.check",
                       !.user = CurrentUser(u, "id"), !.shipmentId = s,
                       !.seen = ship[s].status, !.location = loc])
      BY <2>2 DEF ReceiveFind
    <3> QED BY <3>1 DEF Blank
  <2>3. CASE OutboundFind(w)
    <3>1. PICK u \in Callers, s \in Shipments :
            Goto(w, [Blank EXCEPT !.at = "outbound.item",
                       !.user = CurrentUser(u, "id"), !.shipmentId = s,
                       !.seen = ship[s].status])
      BY <2>3 DEF OutboundFind
    <3> QED BY <3>1 DEF Blank
  <2>4. CASE GpsFind(w)
    <3>1. PICK u \in Callers, s \in Shipments :
            Goto(w, [Blank EXCEPT !.at = "gps.insert",
                       !.user = CurrentUser(u, "id"), !.shipmentId = s,
                       !.seen = ship[s].status,
                       !.number = ship[s].trackingNumber])
      BY <2>4 DEF GpsFind
    <3> QED BY <3>1 DEF Blank
  <2> QED BY <2>1, <2>2, <2>3, <2>4
<1> QED BY <1>1, <1>2 DEF Goto, ReadNow

\* No request acts on a status that it has not read itself.
LEMMA ReadOnce ==
  ASSUME IInv, NEW w \in Workers, Serve(w) \/ Fail(w),
         handler'[w].at \in Reader, handler'[w] # handler[w]
  PROVE  ReadNow(w) \/ GoesOn(w)
<1>1. handler \in [Workers -> Handlers] /\ handler[w] \in Handlers
  BY DEF IInv, TypeOK
<1>2. ~Finish(w) /\ ~NextItem(w)
  BY EndsQuietly DEF Reader
<1>3. CASE ShipmentsNext(w)
  <2>1. ~CreateStart(w) /\ ~CreateRetry(w)
    BY DrawsQuietly DEF Reader, Creating
  <2>2. ~CreateInsert(w)
    BY <1>1, <1>2 DEF CreateInsert, Handlers, Goto, Reader
  <2>3. ~UpdateFind(w) /\ ~DeleteFind(w) /\ ~BulkStart(w)
    <3>1. ~UpdateFind(w)
      BY <1>1 DEF UpdateFind, Blank, Goto, Reader
    <3>2. ~DeleteFind(w)
      BY <1>1 DEF DeleteFind, Blank, Goto, Reader
    <3>3. ~BulkStart(w)
      BY <1>1 DEF BulkStart, Blank, Goto, Reader
    <3> QED BY <3>1, <3>2, <3>3
  <2>4. CASE BulkFind(w)
    <3> DEFINE s == Head(handler[w].todo).shipmentId
               t == Head(handler[w].todo).status
               g == [handler[w] EXCEPT !.at = "bulk.write", !.shipmentId = s,
                                       !.seen = ship[s].status, !.to = t]
    <3>1. Goto(w, g)
      BY <1>2, <2>4 DEF BulkFind
    <3>2. g.shipmentId = s /\ g.seen = ship[s].status
      BY <1>1 DEF Handlers
    <3> HIDE DEF g
    <3>3. handler'[w] = g
      BY <1>1, <3>1 DEF Goto
    <3> QED BY <3>2, <3>3 DEF ReadNow
  <2> QED BY <1>2, <1>3, <2>1, <2>2, <2>3, <2>4, FindsRead
          DEF ShipmentsNext, CreateEvent, UpdateWrite, StatusWrite, DeleteWrite,
              BulkWrite, BulkItemFails
<1>4. CASE WarehouseNext(w)
  <2>1. ~MoveFind(w)
    BY <1>1 DEF MoveFind, Blank, Goto, Reader
  <2>2. CASE ReceiveCheck(w) \/ OutboundItem(w)
    BY <1>1, <1>2, <2>2
       DEF ReceiveCheck, OutboundItem, Goto, Handlers, GoesOn, NextStages
  <2> QED BY <1>2, <1>4, <2>1, <2>2, FindsRead
          DEF WarehouseNext, ReceiveWrite, OutboundWrite, MoveWrite
<1>5. CASE DriversNext(w)
  <2>1. ~AssignFind(w)
    BY <1>1 DEF AssignFind, Blank, Goto, Reader
  <2>2. ~UnassignFind(w)
    BY <1>1 DEF UnassignFind, Blank, Goto, Reader
  <2> QED BY <1>2, <1>5, <2>1, <2>2 DEF DriversNext, AssignWrite, UnassignWrite
<1>6. CASE TrackingNext(w)
  <2>1. CASE GpsInsert(w)
    BY <1>1, <2>1 DEF GpsInsert, Goto, Handlers, GoesOn, NextStages
  <2> QED BY <1>2, <1>6, <2>1, FindsRead DEF TrackingNext, GpsEmit
<1> QED BY <1>2, <1>3, <1>4, <1>5, <1>6 DEF Serve, Fail

-------------------------------------------------------------------------------
(* Where a shipment may still go *)

\* What a request may still write is what the table allows from what it read.
LEMMA EnteringAllowed ==
  ASSUME NEW h \in Handlers, Shape(h)
  PROVE  /\ h.at \notin Reader => Entering(h) = {}
         /\ Entering(h) # {} => Entering(h) \subseteq VALID_TRANSITIONS[h.seen]
BY TransitionsType DEF Entering, Shape, Reader

\* A status is written only by a request that could still enter it.
LEMMA WritesEntering ==
  ASSUME IInv, NEW w \in Workers, Serve(w) \/ Fail(w), NEW s \in Shipments
  PROVE  \/ ship'[s].status = ship[s].status
         \/ /\ handler[w].shipmentId = s
            /\ ship'[s].status \in Entering(handler[w])
<1> SUFFICES ASSUME ship'[s].status # ship[s].status
             PROVE  /\ handler[w].shipmentId = s
                    /\ ship'[s].status \in Entering(handler[w])
  OBVIOUS
<1>1. ship \in [Shipments -> Ships] /\ ship' # ship
  BY DEF IInv, TypeOK
<1>2. ASSUME NEW d, NEW x, ship' = [ship EXCEPT ![x].assignedDriverId = d]
      PROVE  FALSE
  BY <1>1, <1>2 DEF Ships
<1>3. ASSUME NEW x, NEW t \in Statuses, NEW note, NEW u, CommitStatus(x, t, note, u)
      PROVE  s = x /\ ship'[s].status = t
  BY <1>1, <1>3 DEF CommitStatus, Ships
<1>4. CASE ShipmentsNext(w)
  <2>1. ~CreateInsert(w)
    <3>1. ASSUME CreateInsert(w) PROVE FALSE
      <4> PICK x \in Shipments : x = handler[w].shipmentId
        BY <3>1 DEF CreateInsert, IInv, Shape
      <4>1. ship[x].status = "DRAFT"
        BY <3>1 DEF CreateInsert, IInv, Facts, Creating, NothingBeforeInsert, NoRow
      <4> QED BY <1>1, <3>1, <4>1 DEF CreateInsert, NoRow
    <3> QED BY <3>1
  <2>2. ~UpdateWrite(w) /\ ~DeleteWrite(w)
    BY <1>1, <1>2 DEF UpdateWrite, DeleteWrite, Ships
  <2>3. CASE StatusWrite(w) \/ BulkWrite(w)
    <3>1. handler[w].to \in Statuses
      BY <2>3, TransitionsType DEF StatusWrite, BulkWrite, IInv, Shape
    <3> QED BY <1>3, <2>3, <3>1 DEF StatusWrite, BulkWrite, Entering
  <2> QED BY <1>1, <1>4, <2>1, <2>2, <2>3 DEF ShipmentsNext, CreateStart, CreateRetry,
          CreateEvent, UpdateFind, StatusFind, DeleteFind, BulkStart, BulkFind,
          BulkItemFails, rows
<1>5. CASE WarehouseNext(w)
  <2>0. {"PROCESSING", "READY_FOR_PICKUP"} \subseteq Statuses
    BY DEF Statuses
  <2>1. CASE ReceiveWrite(w)
    BY <1>1, <1>3, <2>0, <2>1 DEF ReceiveWrite, Entering, rows
  <2>2. CASE OutboundWrite(w)
    BY <1>3, <2>0, <2>2 DEF OutboundWrite, Entering
  <2> QED BY <1>1, <1>5, <2>1, <2>2 DEF WarehouseNext, ReceiveFind, ReceiveCheck,
          OutboundFind, OutboundItem, MoveFind, MoveWrite, rows
<1>6. CASE DriversNext(w)
  BY <1>1, <1>2, <1>6 DEF DriversNext, AssignFind, AssignWrite, UnassignFind,
     UnassignWrite, rows
<1>7. CASE TrackingNext(w) \/ Fail(w)
  BY <1>1, <1>7 DEF TrackingNext, GpsFind, GpsInsert, GpsEmit, Fail, rows
<1> QED BY <1>4, <1>5, <1>6, <1>7 DEF Serve

\* A step leaves the other requests alone.
LEMMA OthersStay ==
  ASSUME IInv, NEW w \in Workers, Serve(w) \/ Fail(w)
  PROVE  /\ Outcome(w)
         /\ handler'[w] \in Handlers /\ Shape(handler'[w])
         /\ \A v \in Workers \ {w} : handler'[v] = handler[v]
<1>1. Outcome(w)
  BY ShipmentsOutcome, WarehouseOutcome, DriversTrackingOutcome, FinishOutcome
     DEF Serve, Fail, RowStep
<1>2. PICK h \in Handlers : Goto(w, h) /\ Shape(h)
  BY <1>1 DEF Outcome
<1> QED BY <1>1, <1>2 DEF Goto, IInv, TypeOK

LEMMA StaysWithin ==
  ASSUME IInv, NEW w \in Workers, Serve(w) \/ Fail(w),
         NEW s \in Shipments, NEW S \in Stretches, Within(s, S)
  PROVE  Within(s, S)'
<1>1. ship'[s].status \in S
  BY WritesEntering DEF Within
<1>2. ASSUME handler'[w].shipmentId = s
      PROVE  Entering(handler'[w]) \subseteq S
  <2>1. CASE handler'[w] = handler[w]
    BY <1>2, <2>1 DEF Within
  <2>2. CASE Entering(handler'[w]) = {}
    BY <2>2
  <2>3. CASE handler'[w] # handler[w] /\ Entering(handler'[w]) # {}
    <3>1. handler'[w] \in Handlers /\ Shape(handler'[w])
      BY OthersStay
    <3>2. handler'[w].at \in Reader
      BY <2>3, <3>1, EnteringAllowed
    <3>3. CASE ReadNow(w)
      <4>1. handler'[w].seen \in S
        BY <1>2, <3>3 DEF ReadNow, Within
      <4>2. VALID_TRANSITIONS[handler'[w].seen] \subseteq S
        BY <4>1 DEF Stretches
      <4> QED BY <2>3, <3>1, <4>2, EnteringAllowed
    <3>4. CASE GoesOn(w)
      <4>1. Entering(handler'[w]) = Entering(handler[w])
        BY <2>3, <3>4 DEF GoesOn, NextStages, Entering
      <4> QED BY <1>2, <3>4, <4>1 DEF GoesOn, Within
    <3> QED BY <2>3, <3>2, <3>3, <3>4, ReadOnce
  <2> QED BY <2>1, <2>2, <2>3
<1>3. \A v \in Workers \ {w} : handler'[v] = handler[v]
  BY OthersStay
<1> QED BY <1>1, <1>2, <1>3 DEF Within

\* What a step of no request leaves alone.
LEMMA StepOrQuiet ==
  ASSUME [Next]_vars
  PROVE  (\E w \in Workers : Serve(w) \/ Fail(w)) \/ UNCHANGED <<rows, handler>>
<1>1. CASE \E c \in Clients : GatewayNext(c)
  BY <1>1 DEF GatewayNext, Subscribe, Disconnect
<1>2. CASE UNCHANGED vars
  BY <1>2 DEF vars, rows
<1> QED BY <1>1, <1>2 DEF Next

\* Only a request that was validated before a shipment got into a stretch of
\* the table with no way out can take it out; for a final status that says who
\* can break updateStatus's "none (final state)".
THEOREM NoWayOut == Spec => NoReturn
<1>1. IInv /\ [Next]_vars =>
        \A s \in Shipments, S \in Stretches : Within(s, S) => Within(s, S)'
  <2> SUFFICES ASSUME IInv, [Next]_vars, NEW s \in Shipments, NEW S \in Stretches,
                      Within(s, S)
               PROVE  Within(s, S)'
    OBVIOUS
  <2>1. CASE UNCHANGED <<rows, handler>>
    BY <2>1 DEF rows, Within
  <2> QED BY <2>1, StepOrQuiet, StaysWithin
<1>2. IInv /\ [Next]_vars =>
        [\A s \in Shipments, S \in Stretches : Within(s, S) => Within(s, S)']_vars
  BY <1>1
<1> QED BY <1>2, InvariantHolds, PTL DEF Spec, NoReturn

-------------------------------------------------------------------------------
(* Past the warehouse *)

LEMMA StoredByReceive ==
  ASSUME IInv, NEW w \in Workers, Serve(w) \/ Fail(w), NEW s \in Shipments,
         ~Stored(s), Stored(s)'
  PROVE  handler[w].at = "receive.write" /\ handler[w].shipmentId = s
<1>1. item \in [Shipments -> Items] /\ item' # item
  BY DEF IInv, TypeOK, Stored
<1>2. CASE ShipmentsNext(w)
  BY <1>1, <1>2 DEF ShipmentsNext, CreateStart, CreateRetry, CreateInsert, CreateEvent,
     UpdateFind, UpdateWrite, StatusFind, StatusWrite, DeleteFind, DeleteWrite,
     BulkStart, BulkFind, BulkWrite, BulkItemFails, rows
<1>3. CASE WarehouseNext(w)
  <2>1. CASE ReceiveWrite(w)
    BY <1>1, <2>1 DEF ReceiveWrite, Stored, rows
  <2>2. ~OutboundWrite(w)
    BY <1>1 DEF OutboundWrite, IInv, Facts, Stored
  <2>3. ~MoveWrite(w)
    BY <1>1 DEF MoveWrite, Stored, Items
  <2> QED BY <1>1, <1>3, <2>1, <2>2, <2>3 DEF WarehouseNext, ReceiveFind, ReceiveCheck,
          OutboundFind, OutboundItem, MoveFind, rows
<1>4. CASE DriversNext(w) \/ TrackingNext(w) \/ Fail(w)
  BY <1>1, <1>4 DEF DriversNext, AssignFind, AssignWrite, UnassignFind, UnassignWrite,
     TrackingNext, GpsFind, GpsInsert, GpsEmit, Fail, rows
<1> QED BY <1>2, <1>3, <1>4 DEF Serve

LEMMA StaysBypassed ==
  ASSUME IInv, NEW w \in Workers, Serve(w) \/ Fail(w),
         NEW s \in Shipments, Bypassed(s)
  PROVE  Bypassed(s)'
<1> DEFINE Past == Statuses \ {"DRAFT", "PENDING"}
<1>1. Past \in Stretches
  BY DEF Stretches, VALID_TRANSITIONS, Statuses
<1>2. Within(s, Past) /\ Within(s, Past)'
  BY <1>1, StaysWithin DEF Bypassed
<1>3. ~Stored(s)'
  BY StoredByReceive DEF Bypassed
<1>4. ASSUME handler'[w].at \in {"receive.check", "receive.write"},
             handler'[w].shipmentId = s
      PROVE  FALSE
  <2>1. handler'[w] # handler[w]
    BY <1>4 DEF Bypassed
  <2>2. ~GoesOn(w)
    BY <1>4 DEF Bypassed, GoesOn, NextStages
  <2>3. handler'[w].seen = "PENDING"
    BY <1>4, OthersStay DEF Shape
  <2>4. ReadNow(w)
    BY <1>4, <2>1, <2>2, ReadOnce DEF Reader
  <2> QED BY <1>2, <1>4, <2>3, <2>4 DEF ReadNow, Within
<1>5. \A v \in Workers \ {w} : handler'[v] = handler[v]
  BY OthersStay
<1> QED BY <1>2, <1>3, <1>4, <1>5 DEF Bypassed

\* What PATCH /shipments/:id/status takes past the warehouse never gets into it.
THEOREM BypassIsForGood == Spec => BypassedForGood
<1>1. IInv /\ [Next]_vars => \A s \in Shipments : Bypassed(s) => Bypassed(s)'
  <2> SUFFICES ASSUME IInv, [Next]_vars, NEW s \in Shipments, Bypassed(s)
               PROVE  Bypassed(s)'
    OBVIOUS
  <2>1. CASE UNCHANGED <<rows, handler>>
    BY <2>1 DEF rows, Bypassed, Within, Stored
  <2> QED BY <2>1, StepOrQuiet, StaysBypassed
<1>2. IInv /\ [Next]_vars => [\A s \in Shipments : Bypassed(s) => Bypassed(s)']_vars
  BY <1>1
<1> QED BY <1>2, InvariantHolds, PTL DEF Spec, BypassedForGood

-------------------------------------------------------------------------------
(* Every request comes to its end *)

\* Only a draw that found the number taken draws again, and only the insert of
\* a GPS event emits.
LEMMA DrawsOrEmits ==
  ASSUME IInv, NEW w \in Workers, Serve(w) \/ Fail(w), handler'[w] # handler[w],
         handler'[w].at \in {"create.find", "gps.emit"}
  PROVE  CreateStart(w) \/ CreateRetry(w) \/ GpsInsert(w)
<1>1. handler \in [Workers -> Handlers] /\ handler[w] \in Handlers
  BY DEF IInv, TypeOK
<1>2. ~Finish(w) /\ ~NextItem(w)
  BY EndsQuietly
<1>3. CASE ShipmentsNext(w)
  <2>1. ~CreateInsert(w)
    BY <1>1, <1>2 DEF CreateInsert, Handlers, Goto
  <2>2. ~UpdateFind(w)
    BY <1>1 DEF UpdateFind, Blank, Goto
  <2>3. ~StatusFind(w)
    BY <1>1 DEF StatusFind, Blank, Goto
  <2>4. ~DeleteFind(w)
    BY <1>1 DEF DeleteFind, Blank, Goto
  <2>5. ~BulkStart(w)
    BY <1>1 DEF BulkStart, Blank, Goto
  <2>6. ~BulkFind(w)
    BY <1>1, <1>2 DEF BulkFind, Handlers, Goto
  <2> QED BY <1>2, <1>3, <2>1, <2>2, <2>3, <2>4, <2>5, <2>6
          DEF ShipmentsNext, CreateEvent, UpdateWrite, StatusWrite, DeleteWrite,
              BulkWrite, BulkItemFails
<1>4. CASE WarehouseNext(w)
  <2>1. ~ReceiveFind(w)
    BY <1>1 DEF ReceiveFind, Blank, Goto
  <2>2. ~OutboundFind(w)
    BY <1>1 DEF OutboundFind, Blank, Goto
  <2>3. ~MoveFind(w)
    BY <1>1 DEF MoveFind, Blank, Goto
  <2>4. ~ReceiveCheck(w) /\ ~OutboundItem(w)
    BY <1>1, <1>2 DEF ReceiveCheck, OutboundItem, Handlers, Goto
  <2> QED BY <1>2, <1>4, <2>1, <2>2, <2>3, <2>4
          DEF WarehouseNext, ReceiveWrite, OutboundWrite, MoveWrite
<1>5. CASE DriversNext(w)
  <2>1. ~AssignFind(w) /\ ~UnassignFind(w)
    BY <1>1 DEF AssignFind, UnassignFind, Blank, Goto
  <2> QED BY <1>2, <1>5, <2>1 DEF DriversNext, AssignWrite, UnassignWrite
<1>6. CASE TrackingNext(w)
  <2>1. ~GpsFind(w)
    BY <1>1 DEF GpsFind, Blank, Goto
  <2> QED BY <1>2, <1>6, <2>1 DEF TrackingNext, GpsEmit
<1> QED BY <1>2, <1>3, <1>4, <1>5, <1>6 DEF Serve, Fail

\* The loop of create looks a number up only while it has a draw left.
HasDraw(h) == h.at = "create.find" => h.attempts < MaxAttempts
DrawsLeft == \A w \in Workers : HasDraw(handler[w])

\* What a round of create leaves behind.
LEMMA DrawWork ==
  ASSUME IInv, NEW w \in Workers, NEW h \in Handlers, DrawNumber(w, h)
  PROVE  \/ handler'[w].at \in {"idle", "create.insert"}
         \/ /\ handler'[w].at = "create.find"
            /\ handler'[w].attempts = h.attempts + 1
            /\ h.attempts + 1 < MaxAttempts
<1>1. handler \in [Workers -> Handlers] /\ h.attempts \in Nat
  BY DEF IInv, TypeOK, Handlers
<1> PICK n \in Numbers :
      \/ Goto(w, [h EXCEPT !.at = "create.insert", !.number = n])
      \/ /\ Goto(w, [h EXCEPT !.at = "create.find", !.attempts = h.attempts + 1])
         /\ h.attempts + 1 < MaxAttempts
      \/ Finish(w)
  BY DEF DrawNumber
<1>2. CASE Goto(w, [h EXCEPT !.at = "create.insert", !.number = n])
  BY <1>1, <1>2 DEF Goto, Handlers
<1>3. CASE /\ Goto(w, [h EXCEPT !.at = "create.find", !.attempts = h.attempts + 1])
           /\ h.attempts + 1 < MaxAttempts
  BY <1>1, <1>3 DEF Goto, Handlers
<1>4. CASE Finish(w)
  BY <1>1, <1>4 DEF Finish, Goto, Blank
<1> QED BY <1>2, <1>3, <1>4

LEMMA DrawsLeftStep ==
  ASSUME IInv, DrawsLeft, [Next]_vars
  PROVE  DrawsLeft'
<1>1. CASE UNCHANGED <<rows, handler>>
  BY <1>1 DEF DrawsLeft, HasDraw
<1>2. ASSUME NEW w \in Workers, Serve(w) \/ Fail(w)
      PROVE  DrawsLeft'
  <2>1. \A v \in Workers \ {w} : handler'[v] = handler[v]
    BY <1>2, OthersStay
  <2>2. ASSUME handler'[w] # handler[w], handler'[w].at = "create.find"
        PROVE  handler'[w].attempts < MaxAttempts
    <3>1. handler[w] \in Handlers
      BY DEF IInv, TypeOK
    <3>2. \A u \in Callers, s \in Shipments :
            [Blank EXCEPT !.user = CurrentUser(u, "sub"), !.shipmentId = s] \in Handlers
      BY BlankType, ValueTypes DEF Handlers
    <3>3. \E h \in Handlers : DrawNumber(w, h)
      <4>1. CASE CreateStart(w)
        BY <3>2, <4>1 DEF CreateStart
      <4>2. CASE CreateRetry(w)
        BY <3>1, <4>2 DEF CreateRetry
      <4>3. CASE GpsInsert(w)
        <5>1. handler'[w].at = "gps.emit"
          BY <4>3 DEF GpsInsert, Goto, Handlers, IInv, TypeOK
        <5> QED BY <2>2, <5>1
      <4> QED BY <1>2, <2>2, <4>1, <4>2, <4>3, DrawsOrEmits
    <3> QED BY <2>2, <3>3, DrawWork
  <2> QED BY <2>1, <2>2 DEF DrawsLeft, HasDraw
<1> QED BY <1>1, <1>2, StepOrQuiet

LEMMA DrawsLeftHolds == Spec => []DrawsLeft
<1>1. Init => DrawsLeft
  BY DEF Init, DrawsLeft, HasDraw, Blank
<1> QED BY <1>1, DrawsLeftStep, InvariantHolds, PTL DEF Spec

\* A request that has not ended has work left.
LEMMA WorkLeft ==
  ASSUME NEW h \in Handlers, Shape(h), HasDraw(h)
  PROVE  /\ Work(h) \in Nat
         /\ h.at # "idle" => Work(h) > 0
         /\ h.at = "create.find" => Work(h) = 2 + MaxAttempts - h.attempts
<1>1. h.attempts \in Nat /\ MaxAttempts \in Nat
  BY BoundsAssumption DEF Handlers
<1>2. ASSUME h.at \in {"bulk.find", "bulk.write"}
      PROVE  Len(h.todo) \in Nat \ {0}
  <2>1. h.todo \in Seq([shipmentId : Shipments, status : Statuses]) /\ h.todo # <<>>
    BY <1>2 DEF Handlers, Shape
  <2> QED BY <2>1
<1> QED BY <1>1, <1>2 DEF Work, HasDraw

LEMMA BulkWork ==
  ASSUME IInv, NEW w \in Workers, handler[w].at \in {"bulk.find", "bulk.write"},
         NextItem(w) \/ (BulkFind(w) /\ ~NextItem(w))
  PROVE  Work(handler'[w]) \in 0 .. (Work(handler[w]) - 1)
<1>1. handler \in [Workers -> Handlers] /\ handler[w] \in Handlers
  BY DEF IInv, TypeOK
<1> PICK todo \in Seq([shipmentId : Shipments, status : Statuses]) :
           todo = handler[w].todo
  BY <1>1 DEF Handlers
<1>2. todo # <<>> /\ Len(todo) \in Nat \ {0}
  <2>1. todo # <<>>
    BY DEF IInv, Shape
  <2> QED BY <2>1
<1>3. Work(handler[w]) \in {2 * Len(todo), 2 * Len(todo) - 1}
  BY DEF Work
<1>4. CASE NextItem(w)
  <2>1. CASE Finish(w)
    <3>1. Work(handler'[w]) = 0
      BY <1>1, <2>1 DEF Finish, Goto, Blank, Work
    <3> QED BY <1>2, <1>3, <3>1
  <2>2. CASE ~Finish(w)
    <3>1. Len(todo) > 1 /\ handler'[w].at = "bulk.find" /\ handler'[w].todo = Tail(todo)
      BY <1>1, <1>4, <2>2 DEF NextItem, Goto, Blank
    <3>2. Len(Tail(todo)) = Len(todo) - 1
      BY <3>1
    <3>3. Work(handler'[w]) = 2 * (Len(todo) - 1)
      BY <3>1, <3>2 DEF Work
    <3> QED BY <1>2, <1>3, <3>1, <3>3
  <2> QED BY <2>1, <2>2
<1>5. CASE BulkFind(w) /\ ~NextItem(w)
  <2>1. handler'[w].at = "bulk.write" /\ handler'[w].todo = todo
    <3> DEFINE s == Head(handler[w].todo).shipmentId
               t == Head(handler[w].todo).status
               g == [handler[w] EXCEPT !.at = "bulk.write", !.shipmentId = s,
                                       !.seen = ship[s].status, !.to = t]
    <3>1. Goto(w, g)
      BY <1>5 DEF BulkFind
    <3>2. g.at = "bulk.write" /\ g.todo = todo
      BY <1>1 DEF Handlers
    <3> HIDE DEF g
    <3>3. handler'[w] = g
      BY <1>1, <3>1 DEF Goto
    <3> QED BY <3>2, <3>3
  <2>2. Work(handler'[w]) = 2 * Len(todo) - 1 /\ Work(handler[w]) = 2 * Len(todo)
    BY <1>5, <2>1 DEF BulkFind, Work
  <2> QED BY <1>2, <2>2
<1> QED BY <1>4, <1>5

LEMMA WorkShrinks ==
  ASSUME IInv, DrawsLeft, NEW w \in Workers, Serve(w) \/ Fail(w),
         handler[w].at # "idle"
  PROVE  Work(handler'[w]) \in 0 .. (Work(handler[w]) - 1)
<1>1. /\ handler \in [Workers -> Handlers] /\ handler[w] \in Handlers
      /\ Shape(handler[w]) /\ HasDraw(handler[w])
  BY DEF IInv, TypeOK, DrawsLeft
<1>2. Work(handler[w]) \in Nat /\ Work(handler[w]) > 0
  BY <1>1, WorkLeft
<1>3. CASE Finish(w)
  <2>1. Work(handler'[w]) = 0
    BY <1>1, <1>3 DEF Finish, Goto, Blank, Work
  <2> QED BY <1>2, <2>1
<1>4. ASSUME Work(handler[w]) = 2, Work(handler'[w]) = 1
      PROVE  Work(handler'[w]) \in 0 .. (Work(handler[w]) - 1)
  BY <1>4
<1>5. CASE ShipmentsNext(w)
  <2>1. CASE CreateRetry(w)
    <3>1. Work(handler[w]) = 2 + MaxAttempts - handler[w].attempts
      BY <1>1, <2>1, WorkLeft DEF CreateRetry
    <3>2. handler[w].attempts \in Nat /\ MaxAttempts \in Nat
          /\ handler[w].attempts < MaxAttempts
      BY <1>1, <2>1, BoundsAssumption DEF Handlers, HasDraw, CreateRetry
    <3>3. CASE handler'[w].at \in {"idle", "create.insert"}
      <4>1. Work(handler'[w]) \in {0, 2}
        BY <3>3 DEF Work
      <4> QED BY <3>1, <3>2, <4>1
    <3>4. CASE /\ handler'[w].at = "create.find"
               /\ handler'[w].attempts = handler[w].attempts + 1
               /\ handler[w].attempts + 1 < MaxAttempts
      <4>1. Work(handler'[w]) = 2 + MaxAttempts - (handler[w].attempts + 1)
        BY <3>4 DEF Work
      <4> QED BY <3>1, <3>2, <3>4, <4>1
    <3> QED BY <1>1, <2>1, <3>3, <3>4, DrawWork DEF CreateRetry
  <2>2. CASE CreateInsert(w) /\ ~Finish(w)
    <3>1. handler[w].at = "create.insert" /\ handler'[w].at = "create.event"
      BY <1>1, <2>2 DEF CreateInsert, Goto, Handlers
    <3> QED BY <1>4, <3>1 DEF Work
  <2>3. CASE BulkFind(w) \/ BulkWrite(w) \/ BulkItemFails(w)
    BY <2>3, BulkWork DEF BulkFind, BulkWrite, BulkItemFails
  <2> QED BY <1>3, <1>5, <2>1, <2>2, <2>3 DEF ShipmentsNext, CreateStart, CreateEvent,
          UpdateFind, UpdateWrite, StatusFind, StatusWrite, DeleteFind, DeleteWrite,
          BulkStart, Takes
<1>6. CASE WarehouseNext(w)
  <2>1. CASE (ReceiveCheck(w) \/ OutboundItem(w)) /\ ~Finish(w)
    <3>1. /\ handler[w].at \in {"receive.check", "outbound.item"}
          /\ handler'[w].at \in {"receive.write", "outbound.write"}
      BY <1>1, <2>1 DEF ReceiveCheck, OutboundItem, Goto, Handlers
    <3> QED BY <1>4, <3>1 DEF Work
  <2> QED BY <1>3, <1>6, <2>1 DEF WarehouseNext, ReceiveFind, ReceiveWrite,
          OutboundFind, OutboundWrite, MoveFind, MoveWrite, Takes
<1>7. CASE DriversNext(w)
  BY <1>3, <1>7 DEF DriversNext, AssignFind, AssignWrite, UnassignFind,
     UnassignWrite, Takes
<1>8. CASE TrackingNext(w)
  <2>1. CASE GpsInsert(w)
    <3>1. handler[w].at = "gps.insert" /\ handler'[w].at = "gps.emit"
      BY <1>1, <2>1 DEF GpsInsert, Goto, Handlers
    <3> QED BY <1>4, <3>1 DEF Work
  <2> QED BY <1>3, <1>8, <2>1 DEF TrackingNext, GpsFind, GpsEmit, Takes
<1>9. CASE Fail(w)
  BY <1>3, <1>9 DEF Fail
<1> QED BY <1>5, <1>6, <1>7, <1>8, <1>9 DEF Serve

\* A request that is about to start writes nothing.
LEMMA StartsQuietly ==
  ASSUME NEW w \in Workers, Serve(w), handler[w].at = "idle"
  PROVE  UNCHANGED rows
<1>1. CASE ShipmentsNext(w)
  BY <1>1 DEF ShipmentsNext, CreateStart, CreateRetry, CreateInsert, CreateEvent,
     UpdateFind, UpdateWrite, StatusFind, StatusWrite, DeleteFind, DeleteWrite,
     BulkStart, BulkFind, BulkWrite, BulkItemFails
<1>2. CASE WarehouseNext(w)
  BY <1>2 DEF WarehouseNext, ReceiveFind, ReceiveCheck, ReceiveWrite,
     OutboundFind, OutboundItem, OutboundWrite, MoveFind, MoveWrite
<1>3. CASE DriversNext(w) \/ TrackingNext(w)
  BY <1>3 DEF DriversNext, AssignFind, AssignWrite, UnassignFind, UnassignWrite,
     TrackingNext, GpsFind, GpsInsert, GpsEmit
<1> QED BY <1>1, <1>2, <1>3 DEF Serve

\* The retries of create and the items of bulkUpdateStatus run out, whatever
\* the other requests do meanwhile.
THEOREM RequestsRunOut == Spec => RequestsShrink
<1> DEFINE Shrinks(w) == Work(handler'[w]) \in 0 .. (Work(handler[w]) - 1)
           Less(w) == Work(handler'[w]) < Work(handler[w])
           Moving(w) == handler[w].at # "idle" /\ handler'[w] # handler[w]
<1>1. IInv /\ DrawsLeft /\ [Next]_vars =>
        /\ \A w \in Workers : Moving(w) => Shrinks(w)
        /\ rows' # rows => \E w \in Workers : Less(w)
  <2> SUFFICES ASSUME IInv, DrawsLeft, [Next]_vars
               PROVE  /\ \A w \in Workers : Moving(w) => Shrinks(w)
                      /\ rows' # rows => \E w \in Workers : Less(w)
    OBVIOUS
  <2>1. CASE UNCHANGED <<rows, handler>>
    BY <2>1
  <2>2. ASSUME NEW w \in Workers, Serve(w) \/ Fail(w)
        PROVE  /\ \A v \in Workers : Moving(v) => Shrinks(v)
               /\ rows' # rows => \E v \in Workers : Less(v)
    <3>1. \A v \in Workers \ {w} : ~Moving(v)
      BY <2>2, OthersStay
    <3>2. handler[w].at # "idle" => Shrinks(w)
      BY <2>2, WorkShrinks
    <3>3. handler[w].at = "idle" => UNCHANGED rows
      BY <2>2, StartsQuietly DEF Fail
    <3>4. ASSUME Shrinks(w), handler[w].at # "idle" PROVE Less(w)
      <4>1. Work(handler[w]) \in Nat
        BY WorkLeft DEF IInv, TypeOK, DrawsLeft
      <4> QED BY <3>4, <4>1
    <3> QED BY <3>1, <3>2, <3>3, <3>4
  <2> QED BY <2>1, <2>2, StepOrQuiet
<1>2. IInv /\ DrawsLeft /\ [Next]_vars =>
        [/\ \A w \in Workers :
              handler[w].at # "idle" /\ handler'[w] # handler[w]
                => Work(handler'[w]) \in 0 .. (Work(handler[w]) - 1)
         /\ rows' # rows =>
              \E w \in Workers : Work(handler'[w]) < Work(handler[w])]_vars
  BY <1>1
<1> QED BY <1>2, DrawsLeftHolds, InvariantHolds, PTL DEF Spec, RequestsShrink

===============================================================================
