------------------------------- MODULE Logistics -------------------------------
(***************************************************************************)
(* The logistics core: the handlers of the shipment, warehouse, driver and *)
(* tracking services interleaved over the shared rows, and what they        *)
(* guarantee together.                                                     *)
(***************************************************************************)
EXTENDS Shipments, Warehouse, DriverAssignment, Tracking, Reads

Serve(w) ==
  ShipmentsNext(w) \/ WarehouseNext(w) \/ DriversNext(w) \/ TrackingNext(w)

\* A database call rejects, and the handler ends with an error; or the
\* process stops, which ends all of them and disconnects every client.
Fail(w) ==
  /\ handler[w].at # "idle"
  /\ Finish(w)
  /\ UNCHANGED <<rows, sockets>>

Next ==
  \/ \E w \in Workers : Serve(w) \/ Fail(w)
  \/ \E c \in Clients : GatewayNext(c)

Spec == Init /\ [][Next]_vars

\* A call to the database or to Redis returns or throws, and the event loop
\* then resumes the handler that awaits it.
Resume(w) == handler[w].at # "idle" /\ Serve(w)
FairSpec == Spec /\ \A w \in Workers : WF_vars(Resume(w))

-------------------------------------------------------------------------------
(* Invariants *)

TypeOK ==
  /\ ship \in [Shipments -> Ships]
  /\ events \in [Shipments -> Seq(Events)]
  /\ item \in [Shipments -> Items]
  /\ room \in [Clients -> SUBSET Numbers]
  /\ inbox \in [Clients -> Seq(Messages)]
  /\ handler \in [Workers -> Handlers]

\* No two shipments have one tracking number, although create looks a number
\* up and inserts it in two calls (shipments.service.ts create).
TrackingUnique ==
  \A s, t \in Shipments :
    Exists(s) /\ ship[s].trackingNumber = ship[t].trackingNumber => s = t

\* The status column and the log agree: the last event that changed the
\* status names the status of the row, whatever "created" and GPS events came
\* later and however the writers interleaved (the $transaction batches).
TrailMatchesStatus ==
  \A s \in Shipments :
    \/ Changes(s) = {} /\ ship[s].status = "DRAFT"
    \/ \E i \in Changes(s) :
         /\ events[s][i].status = ship[s].status
         /\ \A j \in Changes(s) : j <= i

\* No milestone is skipped, even by writes that were validated against a
\* status which has changed since: what an event enters can be reached by
\* VALID_TRANSITIONS from a status the shipment held before that event.
MilestonesInOrder ==
  \A s \in Shipments : \A i \in Changes(s) :
    \E p \in HeldBefore(s, i) : events[s][i].status \in VALID_TRANSITIONS[p]

\* A GPS event carries a status read before it was logged; it may be stale,
\* but it is one the shipment had by then (TrackingService.updateGps).
GpsStatusHeld ==
  \A s \in Shipments : \A i \in DOMAIN events[s] :
    events[s][i].note = "gps" => events[s][i].status \in HeldBefore(s, i)

\* The warehouse and the log tell one story: a shipment is received at most
\* once, it has an item exactly when it was received, and the item is out
\* exactly when an outbound is logged, which is after the reception.
WarehouseMatchesTrail ==
  \A s \in Shipments :
    LET logged(note) == {i \in DOMAIN events[s] : events[s][i].note = note} IN
    /\ \A i, j \in logged("received") : i = j
    /\ Stored(s) <=> logged("received") # {}
    /\ item[s].state = "out" <=> logged("outbound") # {}
    /\ \A j \in logged("outbound") : \E i \in logged("received") : i < j

\* What a client is sent about a shipment is in the log: the message repeats
\* a GPS event of the shipment whose number the client subscribed to, and no
\* event is sent twice (updateGps emits after its insert).
MessagesAreLogged ==
  \A c \in Clients : \A k \in DOMAIN inbox[c] :
    LET m == inbox[c][k] IN
    /\ m.trackingNumber \in room[c]
    /\ ship[m.shipmentId].trackingNumber = m.trackingNumber
    /\ m.timestamp \in DOMAIN events[m.shipmentId]
    /\ events[m.shipmentId][m.timestamp].note = "gps"
    /\ events[m.shipmentId][m.timestamp].status = m.status
    /\ \A j \in DOMAIN inbox[c] : 
         inbox[c][j].shipmentId = m.shipmentId
           /\ inbox[c][j].timestamp = m.timestamp => j = k

-------------------------------------------------------------------------------
(* Action properties *)

\* A handler that has found s and may still write it or its log.
Writing(s) == \E w \in Workers : /\ handler[w].shipmentId = s
                                 /\ handler[w].at # "move.write"
Retired(s) == ship[s].isDeleted /\ ~Writing(s)

\* After softDelete only the handlers that found the shipment before it can
\* still write it; when they have ended, the row, its log and the state of
\* its item never change again (findOne: isDeleted: false).
DeletedQuiescent ==
  [][\A s \in Shipments : Retired(s) =>
       /\ Retired(s)'
       /\ ship'[s] = ship[s]
       /\ events'[s] = events[s]
       /\ item'[s].state = item[s].state]_vars

\* The statuses that a request may still give the shipment it has found, and
\* has been validated for.
Entering(h) ==
  CASE h.at \in {"status.write", "bulk.write"}      -> {h.to}
    [] h.at \in {"receive.check", "receive.write"}  -> {"PROCESSING"}
    [] h.at \in {"outbound.item", "outbound.write"} -> {"READY_FOR_PICKUP"}
    [] OTHER                                        -> {}

Within(s, S) ==
  /\ ship[s].status \in S
  /\ \A w \in Workers : handler[w].shipmentId = s => Entering(handler[w]) \subseteq S

\* A stretch of the journey that the table does not lead out of.
Stretches == {S \in SUBSET Statuses : \A p \in S : VALID_TRANSITIONS[p] \subseteq S}

\* What takes a shipment back, or out of a final status, is a request that was
\* validated before the shipment got there: when those are over, no other ever
\* does (updateStatus, receive and outbound).
NoReturn ==
  [][\A s \in Shipments, S \in Stretches : Within(s, S) => Within(s, S)']_vars

\* PATCH /shipments/:id/status takes a shipment past the warehouse: unless a
\* receive has found it before, it is never stored, and never handed out by
\* outbound (receive: status PENDING; outbound: an item).
Bypassed(s) ==
  /\ ~Stored(s)
  /\ Within(s, Statuses \ {"DRAFT", "PENDING"})
  /\ \A w \in Workers : handler[w].at \in {"receive.check", "receive.write"}
                          => handler[w].shipmentId # s
BypassedForGood == [][\A s \in Shipments : Bypassed(s) => Bypassed(s)']_vars

\* A subscriber is told of a GPS event only by the request that logged it: once
\* that is over, nothing more is sent of it.  So an update is sent after a later
\* one only when their requests overlap (updateGps emits after its insert).
Announcing(s, i) ==
  \E w \in Workers : /\ handler[w].at = "gps.emit"
                     /\ handler[w].shipmentId = s /\ handler[w].event = i
Sent(c, s, i) == {k \in DOMAIN inbox[c] : /\ inbox[c][k].shipmentId = s
                                          /\ inbox[c][k].timestamp = i}
NoLateMessages ==
  [][\A s \in Shipments : \A i \in DOMAIN events[s] :
       ~Announcing(s, i) =>
         /\ ~Announcing(s, i)'
         /\ \A c \in Clients : Sent(c, s, i)' \subseteq Sent(c, s, i)]_vars

\* How many steps a request may still take: a round of create for each draw
\* that is left, two for each item of a bulk update.
Work(h) ==
  CASE h.at = "idle"        -> 0
    [] h.at = "create.find" -> 2 + MaxAttempts - h.attempts
    [] h.at = "bulk.find"   -> 2 * Len(h.todo)
    [] h.at = "bulk.write"  -> 2 * Len(h.todo) - 1
    [] h.at \in {"create.insert", "receive.check", "outbound.item", "gps.insert"} -> 2
    [] OTHER                -> 1

\* Every step of a request brings it nearer its end, and no row is written by
\* a step that does not: neither the draws of create nor the items of
\* bulkUpdateStatus, failed ones included, can go on for ever.
RequestsShrink ==
  [][/\ \A w \in Workers :
          handler[w].at # "idle" /\ handler'[w] # handler[w]
            => Work(handler'[w]) \in 0 .. (Work(handler[w]) - 1)
     /\ rows' # rows => \E w \in Workers : Work(handler'[w]) < Work(handler[w])]_vars

-------------------------------------------------------------------------------
(* Refinement *)

J == INSTANCE ShipmentJourney WITH
       held <- [s \in Shipments |-> Held(s)],
       current <- [s \in Shipments |-> ship[s].status]

\* Every interleaving of the handlers is a journey: the abstract promise of
\* updateStatus, receive and outbound together.
Journey == J!Spec

\* With one request at a time the table is obeyed to the letter, by the
\* warehouse as by PATCH /shipments/:id/status.
StrictJourney == J!StrictSpec

-------------------------------------------------------------------------------
(* Properties of one request at a time *)

\* A shipment that left the warehouse never counts as one that is still to be
\* processed there, and it leaves once.
OutStaysOut ==
  \A s \in Shipments : item[s].state = "out" =>
    /\ ship[s].status \notin {"DRAFT", "PENDING", "PROCESSING"}
    /\ \A i, j \in Changes(s) :
         events[s][i].note = "outbound" /\ events[s][j].note = "outbound"
           => i = j

\* What a reader of the public timeline takes for the status is the status:
\* the last event of the log, be it a change, a GPS update or "created", names
\* the status of the row (getPublicTracking returns both).
LastEventIsCurrent ==
  \A n \in Numbers : \A answer \in GetPublicTracking(n) :
    LET trail == answer.events IN
    trail # <<>> => trail[Len(trail)].status = answer.status

\* assignDriver gives a shipment a driver, and not another user, only while it
\* is live and in an assignable status; PUT /shipments/:id is free to.
AssignmentsFit ==
  [][\A w \in Workers, s \in Shipments :
       /\ handler[w].at = "assign.write"
       /\ ship'[s].assignedDriverId # ship[s].assignedDriverId
       => /\ ship'[s].assignedDriverId \in Drivers
          /\ Found(s) /\ ship[s].status \in Assignable]_vars

-------------------------------------------------------------------------------
(* What the reads tell *)

\* The places that the rows with the key of s take up in a list.
FirstPlace(list, key, s) == Cardinality({t \in list : key[t] < key[s]}) + 1
LastPlace(list, key, s) == Cardinality({t \in list : key[t] <= key[s]})

\* Page p ends among those rows, and not after the last of them.
Parts(p, limit, list, key, s) ==
  p * limit \in FirstPlace(list, key, s) .. (LastPlace(list, key, s) - 1)

\* What the pages of a list tell, each of them a query that ranks rows of one key
\* as it likes: a row is on one page and on no other, unless a page ends among
\* the rows of its key; a later page holds no lower key; every page but the last
\* is full, the last holds what is left and is not empty; nothing follows it.
Covers(list, key, limit) ==
  LET last  == TotalPages(list, limit)
      pages == 1 .. last
      Shows == [p \in 1 .. (last + 1) |->
                  {Page(list, order, p, limit) : order \in Orders[key]}] IN
  /\ \A s \in list :
       \/ \E p \in pages : Parts(p, limit, list, key, s)
       \/ \E p \in pages : \A q \in pages : \A shown \in Shows[q] :
            s \in shown <=> q = p
  /\ \A p, q \in pages : p < q =>
       \A shown \in Shows[p], later \in Shows[q] :
         \A s \in shown, t \in later : key[s] <= key[t]
  /\ \A p \in pages : \A shown \in Shows[p] :
       /\ shown # {}
       /\ Cardinality(shown) =
            IF p < last THEN limit ELSE Cardinality(list) - (last - 1) * limit
  /\ Shows[last + 1] \subseteq {{}}

\* Turning the pages of findAll, or of getInventory, from the first to the last
\* covers the list, whatever it is sorted by, although rows may share a
\* timestamp and no second column is sorted by; page 0 of the inventory is page 1.
PagesCover ==
  \A key \in SortKeys, limit \in 1 .. Cardinality(Shipments) :
    /\ \A list \in {Listed, Inventory} : Covers(list, key, limit)
    /\ \A order \in Orders[key] :
         InventoryPage(order, 0, limit) = Page(Inventory, order, 1, limit)

Near(m, n) == m <= n + 1 /\ n <= m + 1

Moved(S, T) == (S \ T) \cup (T \ S)
StatsNear(old, new) ==
  /\ Near(old.total, new.total)
  /\ \A t \in Statuses : Near(old.byStatus[t], new.byStatus[t])
  /\ Cardinality({t \in Statuses : old.byStatus[t] # new.byStatus[t]}) <= 2
ListNear(old, new) ==
  /\ Cardinality(Moved(old, new)) <= 1
  /\ \A key \in SortKeys : \A s \in old \cap new :
       /\ Near(FirstPlace(old, key, s), FirstPlace(new, key, s))
       /\ Near(LastPlace(old, key, s), LastPlace(new, key, s))
       /\ \A order \in Orders[key] :
            Place(new, order, s) \in FirstPlace(new, key, s) .. LastPlace(new, key, s)

\* One commit moves one shipment: a list gains, loses or keeps a row, and the
\* places left to every other row, the one place it has where no other row has
\* its createdAt, move by one at most; no more than two counts of the dashboard
\* move, each by one.  So answers put together from queries between which n
\* changes commit are n off at most, the order of equal rows aside.  A step that
\* leaves the rows as they are tells a reader nothing new.
ReadsDriftByOne ==
  [][ship' # ship => StatsNear(GetStats, GetStats') /\ ListNear(Listed, Listed')]_vars

-------------------------------------------------------------------------------
(* Liveness *)

\* Every request is answered: the retries of create and the loop of
\* bulkUpdateStatus come to an end.
RequestsEnd == \A w \in Workers : handler[w].at # "idle" ~> handler[w].at = "idle"

-------------------------------------------------------------------------------
(* What the repository says of the code, and the code does not do *)

\* "none (final state)" (shipments.service.ts updateStatus): a status without
\* a successor is never left.
FinalStatusIsFinal ==
  [][\A s \in Shipments :
       ship[s].status \in Final => ship'[s].status = ship[s].status]_vars

\* "list all active warehouse items" (warehouse.service.ts getInventory): what
\* the recipient already has is not in the inventory.
InventoryHoldsNoDelivered ==
  \A s \in Inventory : ship[s].status # "DELIVERED"

\* "received in warehouse by user ${userId}" (warehouse.service.ts receive):
\* every event names the user who caused it.
EventsHaveAuthor ==
  \A s \in Shipments : \A i \in DOMAIN events[s] : events[s][i].createdBy # Null

===============================================================================
