--------------------------------- MODULE Reads ---------------------------------
(***************************************************************************)
(* What the handlers that only read answer, as functions of the rows at    *)
(* the instant of the query.  A list and its total, and the ten counts of  *)
(* the dashboard, are separate queries: each sees an instant of its own,   *)
(* also inside $transaction, since the database runs at READ COMMITTED;    *)
(* a row and its events are two queries as well.                           *)
(***************************************************************************)
EXTENDS ShipmentStore, FiniteSets

\* There are only so many UUIDs.
ASSUME ShipmentsFinite == IsFiniteSet(Shipments)

(* Lists and pages *)

\* The value that a list is sorted by, of each row: createdAt and receivedAt
\* are milliseconds, which rows may share, and so may they a status.
SortKeys == [Shipments -> 1 .. Cardinality(Shipments)]

\* How one query may rank the rows: by the key and, since the code names no
\* second column, in any way among the rows of one key.
Orders == [key \in SortKeys |->
  {o \in [Shipments -> 1 .. Cardinality(Shipments)] : \A s, t \in Shipments :
     /\ key[s] < key[t] => o[s] < o[t]
     /\ o[s] = o[t] => s = t}]

\* The rows of findAll without a filter, and of getInventory.
Listed == {s \in Shipments : Found(s)}
Inventory == {s \in Shipments : item[s].state = "inStock"}

\* The place of a row in a list, from 1.
Place(list, order, s) == Cardinality({t \in list : order[t] <= order[s]})

Page_SkipsFirst(list, order, page, limit) ==
  LET skip == page * limit IN
  {s \in list : Place(list, order, s) \in (skip + 1) .. (skip + limit)}

\* skip: (page - 1) * limit, take: limit
Page(list, order, page, limit) ==
  LET skip == (page - 1) * limit IN
  {s \in list : Place(list, order, s) \in (skip + 1) .. (skip + limit)}

\* page ? Number(page) : 1, where 0 is also what is no number.  findAll, whose
\* query is validated, refuses both.
QueryPage(page) == IF page = 0 THEN 1 ELSE page
InventoryPage(order, page, limit) == Page(Inventory, order, QueryPage(page), limit)

\* Math.ceil(total / limit)
TotalPages(list, limit) == (Cardinality(list) + limit - 1) \div limit

-------------------------------------------------------------------------------
(* The dashboard *)

GetStats ==
  LET count(S) == Cardinality({s \in Shipments : Found(s) /\ ship[s].status \in S}) IN
  [total |-> count(Statuses), byStatus |-> [t \in Statuses |-> count({t})]]

-------------------------------------------------------------------------------
(* Tracking: the row that a number finds, with its events, oldest first *)

Tracked(number) ==
  {s \in Shipments : Found(s) /\ ship[s].trackingNumber = number}

GetPublicTracking(number) ==
  {[status |-> ship[s].status, events |-> events[s]] : s \in Tracked(number)}

===============================================================================
