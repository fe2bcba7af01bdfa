------------------------------- MODULE ReadsProofs -------------------------------
(***************************************************************************)
(* What the lists and the dashboard tell, for any number of shipments, any *)
(* limit and any sort key.  In each answer the rows of a list have the     *)
(* places 1, 2, ... up to their number, each one its own; rows of one key  *)
(* share out an interval of places, differently in each answer; a page is  *)
(* an interval of places as well, and the pages are consecutive.  A step   *)
(* changes the row of one shipment, so every set of rows that the answers  *)
(* count changes by one row at most.                                       *)
(***************************************************************************)
EXTENDS LogisticsTheorems, FiniteSetTheorems

-------------------------------------------------------------------------------
(* Arithmetic of pages *)

\* The number of pages: the least one whose pages have room for n rows.
LEMMA Ceiling ==
  ASSUME NEW n \in Nat, NEW limit \in Nat \ {0}
  PROVE  LET last == (n + limit - 1) \div limit IN
         /\ last \in Nat
         /\ n <= last * limit
         /\ last > 0 => (last - 1) * limit < n
<1> DEFINE m == n + limit - 1
           last == m \div limit
<1>1. m \in Nat
  OBVIOUS
<1>2. /\ last \in Int
      /\ limit * last <= m
      /\ m < limit * last + limit
  <2> HIDE DEF m
  <2> QED BY <1>1, SMTT(60)
<1>3. last \in Nat
  BY <1>1, <1>2
<1> QED BY <1>2, <1>3, SMTT(60)

\* Pages are consecutive intervals: one starts where another one ends, or later.
LEMMA PageBounds ==
  ASSUME NEW p \in Nat \ {0}, NEW limit \in Nat \ {0}
  PROVE  /\ (p - 1) * limit \in Nat
         /\ (p - 1) * limit + limit = p * limit
         /\ \A q \in Nat : p < q => p * limit <= (q - 1) * limit
<1>1. (p - 1) * limit \in Nat /\ (p - 1) * limit + limit = p * limit
  BY SMTT(60)
<1>2. ASSUME NEW q \in Nat, p < q PROVE p * limit <= (q - 1) * limit
  <2>1. PICK d \in Nat : q - 1 = p + d
    BY <1>2
  <2>2. d * limit \in Nat /\ (p + d) * limit = p * limit + d * limit
    BY SMTT(60)
  <2> QED BY <2>1, <2>2
<1> QED BY <1>1, <1>2

\* A place lies on one page.
LEMMA PageOfPlace ==
  ASSUME NEW k \in Nat \ {0}, NEW limit \in Nat \ {0}
  PROVE  \E p \in Nat \ {0} : k \in ((p - 1) * limit + 1) .. (p * limit)
<1> DEFINE p == (k + limit - 1) \div limit
<1>1. /\ p \in Nat
      /\ k <= p * limit
      /\ p > 0 => (p - 1) * limit < k
  BY Ceiling
<1> HIDE DEF p
<1>2. p # 0
  BY <1>1
<1>3. (p - 1) * limit \in Nat /\ p * limit \in Nat
  BY <1>1, <1>2, PageBounds
<1> QED BY <1>1, <1>2, <1>3

-------------------------------------------------------------------------------
(* Places *)

\* An answer ranks the rows in some order.
Rankings == {o \in [Shipments -> 1 .. Cardinality(Shipments)] :
               \A s, t \in Shipments : o[s] = o[t] => s = t}

LEMMA OrdersRank ==
  ASSUME NEW key \in SortKeys
  PROVE  /\ Orders[key] \subseteq Rankings
         /\ \A order \in Orders[key] : \A s, t \in Shipments :
              key[s] < key[t] => order[s] < order[t]
BY DEF Orders, Rankings

LEMMA ListFinite ==
  ASSUME NEW list \in SUBSET Shipments
  PROVE  IsFiniteSet(list) /\ Cardinality(list) \in Nat
BY ShipmentsFinite, FS_Subset, FS_CardinalityType

\* Places are numbers up to the length of the list, and ranked as the rows are.
LEMMA PlaceType ==
  ASSUME NEW list \in SUBSET Shipments, NEW order \in Rankings, NEW s \in list
  PROVE  Place(list, order, s) \in 1 .. Cardinality(list)
<1> DEFINE before == {t \in list : order[t] <= order[s]}
<1>1. order \in [Shipments -> Nat]
  <2>1. Cardinality(Shipments) \in Nat
    BY ListFinite
  <2> QED BY <2>1 DEF Rankings
<1>2. s \in before /\ before \in SUBSET list
  BY <1>1
<1>3. IsFiniteSet(before) /\ Cardinality(before) <= Cardinality(list)
  BY <1>2, ListFinite, FS_Subset
<1>4. Cardinality(before) \in Nat /\ Cardinality(before) # 0
  BY <1>2, <1>3, FS_CardinalityType, FS_EmptySet
<1> QED BY <1>3, <1>4, ListFinite DEF Place

LEMMA PlaceOrder ==
  ASSUME NEW list \in SUBSET Shipments, NEW order \in Rankings,
         NEW s \in list, NEW t \in list, order[s] < order[t]
  PROVE  Place(list, order, s) < Place(list, order, t)
<1> DEFINE before(r) == {x \in list : order[x] <= order[r]}
<1>1. order \in [Shipments -> Nat]
  <2>1. Cardinality(Shipments) \in Nat
    BY ListFinite
  <2> QED BY <2>1 DEF Rankings
<1>2. /\ before(s) \in SUBSET before(t) /\ before(t) \in SUBSET Shipments
      /\ t \in before(t) /\ t \notin before(s)
  BY <1>1
<1>3. IsFiniteSet(before(t))
  BY <1>2, ListFinite
<1>4. /\ Cardinality(before(s)) <= Cardinality(before(t))
      /\ Cardinality(before(t)) = Cardinality(before(s)) => before(t) = before(s)
  BY <1>2, <1>3, FS_Subset
<1>5. /\ Place(list, order, s) = Cardinality(before(s))
      /\ Place(list, order, t) = Cardinality(before(t))
  BY DEF Place
<1>6. \A r \in list : Place(list, order, r) \in Nat
  <2>1. Cardinality(list) \in Nat
    BY ListFinite
  <2> QED BY <2>1, PlaceType
<1> HIDE DEF before
<1>7. before(t) # before(s)
  BY <1>2
<1> QED BY <1>4, <1>5, <1>6, <1>7

\* Two rows have two places, and a row of the lower place ranks before.
LEMMA PlaceRanks ==
  ASSUME NEW list \in SUBSET Shipments, NEW order \in Rankings,
         NEW s \in list, NEW t \in list
  PROVE  /\ Place(list, order, s) = Place(list, order, t) => s = t
         /\ Place(list, order, s) < Place(list, order, t) => order[s] < order[t]
<1>1. order[s] \in Nat /\ order[t] \in Nat /\ (order[s] = order[t] => s = t)
  <2>1. Cardinality(Shipments) \in Nat
    BY ListFinite
  <2> QED BY <2>1 DEF Rankings
<1>2. Place(list, order, s) \in Nat /\ Place(list, order, t) \in Nat
  BY PlaceType, ListFinite
<1>3. order[s] < order[t] => Place(list, order, s) < Place(list, order, t)
  BY PlaceOrder
<1>4. order[t] < order[s] => Place(list, order, t) < Place(list, order, s)
  BY PlaceOrder
<1> QED BY <1>1, <1>2, <1>3, <1>4

\* No place is left out.
LEMMA PlaceOnto ==
  ASSUME NEW list \in SUBSET Shipments, NEW order \in Rankings,
         NEW k \in 1 .. Cardinality(list)
  PROVE  \E s \in list : Place(list, order, s) = k
<1> DEFINE n == Cardinality(list)
           f == [s \in list |-> Place(list, order, s)]
<1>1. n \in Nat /\ IsFiniteSet(list)
  BY ListFinite
<1>2. IsFiniteSet(1 .. n) /\ Cardinality(1 .. n) = n
  BY <1>1, FS_Interval
<1>3. f \in [list -> 1 .. n]
  BY PlaceType
<1>4. \A s, t \in list : f[s] = f[t] => s = t
  BY PlaceRanks
<1>5. f \in Injection(list, 1 .. n)
  BY <1>3, <1>4 DEF Injection, IsInjective
<1>6. f \in Surjection(list, 1 .. n)
  BY <1>2, <1>5, FS_Injection
<1> QED BY <1>6 DEF Surjection

-------------------------------------------------------------------------------
(* The places of the rows of one key *)

LEMMA SpanType ==
  ASSUME NEW list \in SUBSET Shipments, NEW key \in SortKeys, NEW s \in list
  PROVE  /\ FirstPlace(list, key, s) \in Nat \ {0}
         /\ LastPlace(list, key, s) \in Nat
         /\ FirstPlace(list, key, s) <= LastPlace(list, key, s)
         /\ LastPlace(list, key, s) <= Cardinality(list)
<1> DEFINE lower == {t \in list : key[t] < key[s]}
           upto  == {t \in list : key[t] <= key[s]}
<1>1. /\ lower \in SUBSET Shipments /\ upto \in SUBSET list /\ IsFiniteSet(list)
      /\ Cardinality(list) \in Nat
  BY ListFinite
<1>2. lower \cup {s} \subseteq upto /\ s \notin lower
  <2>1. \A t \in list : key[t] \in Int
    BY DEF SortKeys
  <2> QED BY <2>1
<1> HIDE DEF lower, upto
<1>3. /\ IsFiniteSet(lower) /\ Cardinality(lower) \in Nat
      /\ IsFiniteSet(upto) /\ Cardinality(upto) \in Nat
  BY <1>1, ListFinite
<1>4. Cardinality(upto) <= Cardinality(list)
  BY <1>1, FS_Subset
<1>5. Cardinality(lower \cup {s}) = Cardinality(lower) + 1
  BY <1>2, <1>3, FS_AddElement
<1>6. Cardinality(lower \cup {s}) <= Cardinality(upto)
  BY <1>2, <1>3, FS_Subset
<1>7. /\ FirstPlace(list, key, s) = Cardinality(lower) + 1
      /\ LastPlace(list, key, s) = Cardinality(upto)
  BY DEF FirstPlace, LastPlace, lower, upto
<1> QED BY <1>1, <1>3, <1>4, <1>5, <1>6, <1>7

\* A row has one of the places of its key in each answer.
LEMMA PlaceOfKey ==
  ASSUME NEW list \in SUBSET Shipments, NEW key \in SortKeys,
         NEW order \in Orders[key], NEW s \in list
  PROVE  Place(list, order, s) \in FirstPlace(list, key, s) .. LastPlace(list, key, s)
<1> DEFINE lower  == {t \in list : key[t] < key[s]}
           upto   == {t \in list : key[t] <= key[s]}
           before == {t \in list : order[t] <= order[s]}
<1>1. /\ order \in [Shipments -> Nat] /\ key \in [Shipments -> Nat]
      /\ \A t, r \in Shipments : key[t] < key[r] => order[t] < order[r]
  <2>1. Cardinality(Shipments) \in Nat
    BY ListFinite
  <2> QED BY <2>1, OrdersRank DEF Rankings, SortKeys
<1>2. before \subseteq upto
  BY <1>1
<1>3. lower \cup {s} \subseteq before /\ s \notin lower
  BY <1>1
<1>4. /\ lower \in SUBSET Shipments /\ upto \in SUBSET Shipments
      /\ before \in SUBSET Shipments
  OBVIOUS
<1> HIDE DEF lower, upto, before
<1>5. /\ IsFiniteSet(lower) /\ IsFiniteSet(upto) /\ IsFiniteSet(before)
      /\ Cardinality(lower) \in Nat /\ Cardinality(before) \in Nat
      /\ Cardinality(upto) \in Nat
  BY <1>4, ListFinite
<1>6. Cardinality(before) <= Cardinality(upto)
  BY <1>2, <1>5, FS_Subset
<1>7. Cardinality(lower \cup {s}) = Cardinality(lower) + 1
  BY <1>3, <1>5, FS_AddElement
<1>8. Cardinality(lower \cup {s}) <= Cardinality(before)
  BY <1>3, <1>5, FS_Subset
<1>9. /\ FirstPlace(list, key, s) = Cardinality(lower) + 1
      /\ LastPlace(list, key, s) = Cardinality(upto)
      /\ Place(list, order, s) = Cardinality(before)
  BY DEF FirstPlace, LastPlace, Place, lower, upto, before
<1> QED BY <1>5, <1>6, <1>7, <1>8, <1>9

\* The places of a lower key come first.
LEMMA SpanOrder ==
  ASSUME NEW list \in SUBSET Shipments, NEW key \in SortKeys,
         NEW s \in list, NEW t \in list, key[t] < key[s]
  PROVE  LastPlace(list, key, t) < FirstPlace(list, key, s)
<1> DEFINE upto  == {r \in list : key[r] <= key[t]}
           lower == {r \in list : key[r] < key[s]}
<1>1. \A r \in list : key[r] \in Int
  BY DEF SortKeys
<1>2. upto \subseteq lower /\ lower \in SUBSET Shipments /\ upto \in SUBSET Shipments
  BY <1>1
<1> HIDE DEF lower, upto
<1>3. /\ IsFiniteSet(lower) /\ Cardinality(lower) \in Nat /\ Cardinality(upto) \in Nat
  BY <1>2, ListFinite
<1>4. Cardinality(upto) <= Cardinality(lower)
  BY <1>2, <1>3, FS_Subset
<1>5. /\ LastPlace(list, key, t) = Cardinality(upto)
      /\ FirstPlace(list, key, s) = Cardinality(lower) + 1
  BY DEF FirstPlace, LastPlace, lower, upto
<1> QED BY <1>3, <1>4, <1>5

-------------------------------------------------------------------------------
(* Pages *)

\* What a page of a list shows.
LEMMA PageShows ==
  ASSUME NEW list \in SUBSET Shipments, NEW order \in Rankings,
         NEW limit \in Nat \ {0}, NEW p \in Nat \ {0}
  PROVE  Page(list, order, p, limit) =
           {s \in list : Place(list, order, s) \in ((p - 1) * limit + 1) .. (p * limit)}
BY PageBounds DEF Page

\* Whatever the answers do with rows of one key, a later page holds no lower one.
LEMMA PageOrder ==
  ASSUME NEW list \in SUBSET Shipments, NEW key \in SortKeys,
         NEW order \in Orders[key], NEW other \in Orders[key],
         NEW limit \in Nat \ {0}, NEW p \in Nat \ {0}, NEW q \in Nat \ {0}, p < q,
         NEW s \in Page(list, order, p, limit), NEW t \in Page(list, other, q, limit)
  PROVE  key[s] <= key[t]
<1>1. s \in list /\ t \in list /\ order \in Rankings /\ other \in Rankings
  BY OrdersRank DEF Page
<1>2. /\ Place(list, order, s) <= p * limit
      /\ (q - 1) * limit + 1 <= Place(list, other, t)
  BY <1>1, PageShows
<1>3. /\ p * limit \in Nat /\ (q - 1) * limit \in Nat
      /\ p * limit <= (q - 1) * limit
  BY PageBounds
<1>4. Place(list, order, s) \in Nat /\ Place(list, other, t) \in Nat
  <2>1. Cardinality(list) \in Nat
    BY ListFinite
  <2> QED BY <1>1, <2>1, PlaceType
<1>5. /\ FirstPlace(list, key, s) <= Place(list, order, s)
      /\ Place(list, other, t) <= LastPlace(list, key, t)
      /\ FirstPlace(list, key, s) \in Nat /\ LastPlace(list, key, t) \in Nat
      /\ key[t] < key[s] => LastPlace(list, key, t) < FirstPlace(list, key, s)
  BY <1>1, PlaceOfKey, SpanType, SpanOrder
<1>6. key[s] \in Int /\ key[t] \in Int
  BY <1>1 DEF SortKeys
<1> QED BY <1>2, <1>3, <1>4, <1>5, <1>6

\* A place is on one of the pages that are counted.
LEMMA PageCounted ==
  ASSUME NEW list \in SUBSET Shipments, NEW limit \in Nat \ {0},
         NEW k \in 1 .. Cardinality(list)
  PROVE  \E p \in 1 .. TotalPages(list, limit) :
           k \in ((p - 1) * limit + 1) .. (p * limit)
<1> DEFINE n == Cardinality(list)
           last == TotalPages(list, limit)
<1>1. n \in Nat
  BY ListFinite
<1>2. last \in Nat /\ n <= last * limit
  BY <1>1, Ceiling DEF TotalPages
<1>3. PICK p \in Nat \ {0} : k \in ((p - 1) * limit + 1) .. (p * limit)
  <2>1. k \in Nat \ {0}
    BY <1>1
  <2> QED BY <2>1, PageOfPlace
<1>4. p <= last
  <2> SUFFICES ASSUME last < p PROVE FALSE
    BY <1>2
  <2>1. last * limit <= (p - 1) * limit
    <3>1. CASE last = 0
      BY <3>1, PageBounds
    <3>2. CASE last # 0
      BY <1>2, <3>2, PageBounds
    <3> QED BY <3>1, <3>2
  <2>2. last * limit \in Nat /\ (p - 1) * limit \in Nat
    BY <1>2, PageBounds
  <2> QED BY <1>1, <1>2, <1>3, <2>1, <2>2
<1> HIDE DEF last
<1>5. p \in 1 .. last
  BY <1>2, <1>4
<1> QED BY <1>3, <1>5 DEF last

\* A row is on one page, and on the same one in each answer, unless a page ends
\* among the rows of its key.
LEMMA RowOnOnePage ==
  ASSUME NEW list \in SUBSET Shipments, NEW key \in SortKeys,
         NEW limit \in Nat \ {0}, NEW s \in list,
         \A p \in 1 .. TotalPages(list, limit) : ~Parts(p, limit, list, key, s)
  PROVE  \E p \in 1 .. TotalPages(list, limit) :
           \A q \in 1 .. TotalPages(list, limit), order \in Orders[key] :
             s \in Page(list, order, q, limit) <=> q = p
<1> DEFINE first == FirstPlace(list, key, s)
           end   == LastPlace(list, key, s)
           last  == TotalPages(list, limit)
<1>1. /\ first \in Nat \ {0} /\ end \in Nat
      /\ first <= end /\ end <= Cardinality(list)
      /\ Cardinality(list) \in Nat
  BY ListFinite, SpanType
<1>2. first \in 1 .. Cardinality(list)
  BY <1>1
<1>3. PICK p \in 1 .. last : first \in ((p - 1) * limit + 1) .. (p * limit)
  BY <1>2, PageCounted
<1>4. last \in Nat
  BY <1>1, Ceiling DEF TotalPages
<1>5. p \in Nat \ {0} /\ (p - 1) * limit \in Nat /\ p * limit \in Nat
  BY <1>4, PageBounds
<1>6. end <= p * limit
  <2>1. p * limit \notin first .. (end - 1)
    BY <1>3 DEF Parts
  <2> QED BY <1>1, <1>3, <1>5, <2>1
<1>7. ASSUME NEW q \in 1 .. last, NEW order \in Orders[key]
      PROVE  s \in Page(list, order, q, limit) <=> q = p
  <2>1. order \in Rankings
    BY OrdersRank
  <2> DEFINE k == Place(list, order, s)
  <2>2. k \in first .. end
    BY PlaceOfKey
  <2> HIDE DEF first, end, k
  <2>3. k \in Nat /\ (p - 1) * limit + 1 <= k /\ k <= p * limit
    BY <1>1, <1>3, <1>5, <1>6, <2>2
  <2>4. q \in Nat \ {0} /\ (q - 1) * limit \in Nat /\ q * limit \in Nat
    BY <1>4, PageBounds
  <2>5. /\ q < p => q * limit <= (p - 1) * limit
        /\ p < q => p * limit <= (q - 1) * limit
    BY <1>5, <2>4, PageBounds
  <2>6. k \in ((q - 1) * limit + 1) .. (q * limit) <=> q = p
    <3>1. CASE q = p
      BY <1>5, <2>3, <3>1
    <3>2. CASE q < p
      BY <1>5, <2>3, <2>4, <2>5, <3>2
    <3>3. CASE p < q
      BY <1>5, <2>3, <2>4, <2>5, <3>3
    <3> QED BY <1>5, <2>4, <3>1, <3>2, <3>3
  <2>7. Page(list, order, q, limit) =
          {t \in list : Place(list, order, t) \in ((q - 1) * limit + 1) .. (q * limit)}
    BY <2>1, <2>4, PageShows
  <2> QED BY <2>6, <2>7 DEF k
<1> QED BY <1>3, <1>7

\* A page but the last is full, and the last one holds the rest.
LEMMA PageSize ==
  ASSUME NEW list \in SUBSET Shipments, NEW order \in Rankings,
         NEW limit \in Nat \ {0}, NEW p \in 1 .. TotalPages(list, limit)
  PROVE  LET last == TotalPages(list, limit)
             size == IF p < last THEN limit ELSE Cardinality(list) - (last - 1) * limit IN
         /\ size > 0
         /\ Page(list, order, p, limit) # {}
         /\ Cardinality(Page(list, order, p, limit)) = size
<1> DEFINE n == Cardinality(list)
           last == TotalPages(list, limit)
           size == IF p < last THEN limit ELSE n - (last - 1) * limit
           shown == Page(list, order, p, limit)
           low == (p - 1) * limit
           places == (low + 1) .. (low + size)
<1>1. n \in Nat
  BY ListFinite
<1>2. last \in Nat /\ n <= last * limit /\ (last > 0 => (last - 1) * limit < n)
  BY <1>1, Ceiling DEF TotalPages
<1>3. p \in Nat \ {0} /\ p <= last /\ last \in Nat \ {0}
  BY <1>2
<1>4. /\ low \in Nat /\ low + limit = p * limit
      /\ (last - 1) * limit \in Nat /\ (last - 1) * limit + limit = last * limit
  BY <1>3, PageBounds
<1>5. /\ size \in Nat \ {0} /\ size <= limit /\ low + size <= n
      /\ size = limit \/ low + size = n
  <2>1. CASE p = last
    BY <1>1, <1>2, <1>3, <1>4, <2>1
  <2>2. CASE p < last
    <3>1. p * limit <= (last - 1) * limit
      BY <1>2, <1>3, <2>2, PageBounds
    <3> QED BY <1>1, <1>2, <1>3, <1>4, <2>2, <3>1
  <2> QED BY <1>2, <1>3, <2>1, <2>2
<1> HIDE DEF size, low, n
<1>6. shown = {s \in list : Place(list, order, s) \in places}
  <2>1. shown = {s \in list : Place(list, order, s) \in (low + 1) .. (p * limit)}
    BY <1>3, PageShows DEF low
  <2>2. \A s \in list : Place(list, order, s) \in 1 .. n
    BY PlaceType DEF n
  <2>3. \A k \in 1 .. n : k \in (low + 1) .. (p * limit) <=> k \in places
    BY <1>1, <1>4, <1>5
  <2> QED BY <2>1, <2>2, <2>3
<1> DEFINE f == [s \in shown |-> Place(list, order, s)]
<1>7. IsFiniteSet(places) /\ Cardinality(places) = size
  <2> DEFINE a == low + 1
             b == low + size
  <2>1. a \in Int /\ b \in Int /\ b - a + 1 = size /\ ~(a > b)
    BY <1>4, <1>5
  <2> HIDE DEF a, b
  <2>2. IsFiniteSet(a .. b) /\ Cardinality(a .. b) = size
    BY <2>1, FS_Interval
  <2> QED BY <2>2 DEF a, b
<1>8. \A s, t \in shown : f[s] = f[t] => s = t
  BY <1>6, PlaceRanks
<1>9. f \in Injection(shown, places)
  BY <1>6, <1>8 DEF Injection, IsInjective
<1>10. \A k \in places : \E s \in shown : f[s] = k
  <2> TAKE k \in places
  <2>1. k \in 1 .. n
    BY <1>1, <1>4, <1>5
  <2>2. PICK s \in list : Place(list, order, s) = k
    BY <2>1, PlaceOnto DEF n
  <2> QED BY <1>6, <2>2
<1>11. f \in Surjection(shown, places)
  BY <1>9, <1>10 DEF Injection, Surjection
<1>12. Cardinality(shown) = size
  BY <1>7, <1>9, <1>11, FS_Injection
<1>13. shown # {}
  <2>1. low + 1 \in places
    BY <1>4, <1>5
  <2> QED BY <1>10, <2>1
<1> QED BY <1>5, <1>12, <1>13 DEF size, n

\* Nothing follows the last page.
LEMMA PageAfterLast ==
  ASSUME NEW list \in SUBSET Shipments, NEW order \in Rankings,
         NEW limit \in Nat \ {0}
  PROVE  Page(list, order, TotalPages(list, limit) + 1, limit) = {}
<1> DEFINE n == Cardinality(list)
           last == TotalPages(list, limit)
<1>1. n \in Nat
  BY ListFinite
<1>2. last \in Nat /\ n <= last * limit
  BY <1>1, Ceiling DEF TotalPages
<1> SUFFICES ASSUME NEW s \in Page(list, order, last + 1, limit) PROVE FALSE
  OBVIOUS
<1>3. s \in list /\ ((last + 1) - 1) * limit + 1 <= Place(list, order, s)
  BY <1>2, PageShows
<1>4. Place(list, order, s) \in 1 .. n
  BY <1>3, PlaceType
<1>5. (last + 1) - 1 = last /\ last * limit \in Nat
  BY <1>2, PageBounds
<1> QED BY <1>1, <1>2, <1>3, <1>4, <1>5

\* The pages of one list.
LEMMA ListPages ==
  ASSUME NEW list \in {Listed, Inventory}, NEW key \in SortKeys,
         NEW limit \in 1 .. Cardinality(Shipments)
  PROVE  Covers(list, key, limit)
<1> DEFINE last  == TotalPages(list, limit)
           pages == 1 .. last
           Shows == [p \in 1 .. (last + 1) |->
                       {Page(list, order, p, limit) : order \in Orders[key]}]
<1>1. list \in SUBSET Shipments
  BY DEF Listed, Inventory
<1>2. Cardinality(Shipments) \in Nat /\ Cardinality(list) \in Nat
  BY <1>1, ListFinite
<1>3. limit \in Nat \ {0}
  BY <1>2
<1>4. last \in Nat
  BY <1>2, <1>3, Ceiling DEF TotalPages
<1>5. \A p \in pages : p \in Nat \ {0} /\ p \in 1 .. (last + 1)
  BY <1>4
<1>6. \A p \in pages :
        Shows[p] = {Page(list, order, p, limit) : order \in Orders[key]}
  BY <1>5
<1>7. Shows[last + 1] = {Page(list, order, last + 1, limit) : order \in Orders[key]}
  BY <1>4
<1>8. ASSUME NEW s \in list, ~\E p \in pages : Parts(p, limit, list, key, s)
      PROVE  \E p \in pages : \A q \in pages : \A shown \in Shows[q] :
               s \in shown <=> q = p
  <2>1. PICK p \in pages : \A q \in pages, order \in Orders[key] :
          s \in Page(list, order, q, limit) <=> q = p
    BY <1>1, <1>3, <1>8, RowOnOnePage
  <2> HIDE DEF Shows
  <2> QED BY <1>6, <2>1
<1>9. ASSUME NEW p \in pages, NEW q \in pages, p < q,
             NEW shown \in Shows[p], NEW later \in Shows[q],
             NEW s \in shown, NEW t \in later
      PROVE  key[s] <= key[t]
  <2>1. PICK order \in Orders[key] : shown = Page(list, order, p, limit)
    BY <1>6
  <2>2. PICK other \in Orders[key] : later = Page(list, other, q, limit)
    BY <1>6
  <2>3. p \in Nat \ {0} /\ q \in Nat \ {0}
    BY <1>5
  <2> QED BY <1>1, <1>3, <1>9, <2>1, <2>2, <2>3, PageOrder
<1>10. ASSUME NEW p \in pages, NEW shown \in Shows[p]
       PROVE  /\ shown # {}
              /\ Cardinality(shown) =
                   IF p < last THEN limit ELSE Cardinality(list) - (last - 1) * limit
  <2>1. PICK order \in Orders[key] : shown = Page(list, order, p, limit)
    BY <1>6
  <2>2. order \in Rankings
    BY OrdersRank
  <2> QED BY <1>1, <1>3, <2>1, <2>2, PageSize
<1>11. Shows[last + 1] \subseteq {{}}
  <2>1. \A order \in Orders[key] : Page(list, order, last + 1, limit) = {}
    BY <1>1, <1>3, OrdersRank, PageAfterLast
  <2> QED BY <1>7, <2>1
<1> HIDE DEF Shows
<1> QED BY <1>8, <1>9, <1>10, <1>11 DEF Shows, Covers

\* Whatever the rows are, and however each query ranks the rows that share a
\* timestamp: the pages of findAll and of getInventory hold a row once, unless a
\* page ends among those; they are in the order of the key, full but for the
\* last one, and complete.
THEOREM PagesCorrect == Spec => []PagesCover
<1>1. PagesCover
  <2>1. ASSUME NEW key \in SortKeys, NEW order \in Orders[key],
               NEW limit \in 1 .. Cardinality(Shipments)
        PROVE  InventoryPage(order, 0, limit) = Page(Inventory, order, 1, limit)
    BY DEF InventoryPage, QueryPage
  <2> QED BY <2>1, ListPages DEF PagesCover
<1> QED BY <1>1, PTL

-------------------------------------------------------------------------------
(* Drift *)

\* A step changes the row of one shipment.
LEMMA OneRowMoves ==
  ASSUME IInv, NEW w \in Workers, RowStep(w)
  PROVE  \/ ship' = ship
         \/ \E s \in Shipments : \A t \in Shipments \ {s} : ship'[t] = ship[t]
<1> DEFINE x == handler[w].shipmentId
<1>1. ship \in [Shipments -> Ships]
  BY DEF IInv, TypeOK
<1>2. CASE UNCHANGED rows \/ Logs(x) \/ Moves(x)
  BY <1>2 DEF rows, Logs, Moves
<1>3. CASE x \in Shipments /\ (Inserts(w, x) \/ Touches(x))
  BY <1>1, <1>3 DEF Inserts, Touches
<1>4. CASE x \in Shipments /\ Commits(x)
  BY <1>4, StatusUpdate DEF Commits, CommitStatus
<1> QED BY <1>2, <1>3, <1>4 DEF RowStep

\* Two sets that agree but for one element have nearly the same size.
LEMMA NearSets ==
  ASSUME NEW A \in SUBSET Shipments, NEW B \in SUBSET Shipments,
         NEW s, A \ {s} = B \ {s}
  PROVE  Near(Cardinality(A), Cardinality(B))
<1>1. /\ IsFiniteSet(A) /\ Cardinality(A) \in Nat
      /\ IsFiniteSet(B) /\ Cardinality(B) \in Nat
  BY ListFinite
<1>2. /\ Cardinality(A \ {s}) \in {Cardinality(A), Cardinality(A) - 1}
      /\ Cardinality(B \ {s}) \in {Cardinality(B), Cardinality(B) - 1}
  BY <1>1, FS_RemoveElement
<1>3. Cardinality(A \ {s}) = Cardinality(B \ {s})
  OBVIOUS
<1> QED BY <1>1, <1>2, <1>3 DEF Near

\* What a commit does to the answers.
LEMMA DriftStep ==
  ASSUME NEW s \in Shipments, \A t \in Shipments \ {s} : ship'[t] = ship[t]
  PROVE  StatsNear(GetStats, GetStats') /\ ListNear(Listed, Listed')
<1> DEFINE in(S) == {r \in Shipments : Found(r) /\ ship[r].status \in S}
<1>1. \A r \in Shipments \ {s} : Found(r)' = Found(r)
  BY DEF Found, Exists
<1>2. \A S : in(S) \ {s} = in(S)' \ {s}
  BY <1>1
<1>3. \A S : Near(Cardinality(in(S)), Cardinality(in(S)'))
  BY <1>2, NearSets
<1>4. Near(GetStats.total, GetStats'.total)
  BY <1>3 DEF GetStats
<1>5. \A t \in Statuses :
        /\ GetStats.byStatus[t] = Cardinality(in({t}))
        /\ GetStats'.byStatus[t] = Cardinality(in({t})')
  BY DEF GetStats
<1>6. \A t \in Statuses : Near(GetStats.byStatus[t], GetStats'.byStatus[t])
  BY <1>3, <1>5
<1>7. Cardinality({t \in Statuses :
                     GetStats.byStatus[t] # GetStats'.byStatus[t]}) <= 2
  <2> DEFINE moved == {t \in Statuses : GetStats.byStatus[t] # GetStats'.byStatus[t]}
             a == ship[s].status
             b == ship'[s].status
  <2>1. ASSUME NEW t \in Statuses, t # a, t # b PROVE in({t})' = in({t})
    BY <1>2, <2>1
  <2>2. moved \in SUBSET {a, b}
    BY <1>5, <2>1
  <2> HIDE DEF moved, a, b
  <2>3. IsFiniteSet({a}) /\ Cardinality({a}) = 1
    BY FS_Singleton
  <2>4. {a, b} = {a} \cup {b}
    OBVIOUS
  <2>5. IsFiniteSet({a, b}) /\ Cardinality({a, b}) \in {1, 2}
    BY <2>3, <2>4, FS_AddElement
  <2>6. IsFiniteSet(moved) /\ Cardinality(moved) <= Cardinality({a, b})
    BY <2>2, <2>5, FS_Subset
  <2>7. Cardinality(moved) \in Nat
    BY <2>6, FS_CardinalityType
  <2>8. Cardinality(moved) <= 2
    BY <2>5, <2>6, <2>7
  <2> QED BY <2>8 DEF moved
<1>8. Listed \ {s} = Listed' \ {s}
  BY <1>1 DEF Listed
<1>9. Cardinality(Moved(Listed, Listed')) <= 1
  <2>1. Moved(Listed, Listed') \in SUBSET {s}
    BY <1>8 DEF Moved
  <2>2. IsFiniteSet({s}) /\ Cardinality({s}) = 1
    BY FS_Singleton
  <2> QED BY <2>1, <2>2, FS_Subset
<1>10. ASSUME NEW key \in SortKeys, NEW r \in Listed \cap Listed'
       PROVE  /\ Near(FirstPlace(Listed, key, r), FirstPlace(Listed', key, r))
              /\ Near(LastPlace(Listed, key, r), LastPlace(Listed', key, r))
  <2> DEFINE lower(list) == {t \in list : key[t] < key[r]}
             upto(list)  == {t \in list : key[t] <= key[r]}
  <2>1. Listed \in SUBSET Shipments /\ Listed' \in SUBSET Shipments
    BY DEF Listed
  <2>2. /\ lower(Listed) \in SUBSET Shipments /\ lower(Listed') \in SUBSET Shipments
        /\ upto(Listed) \in SUBSET Shipments /\ upto(Listed') \in SUBSET Shipments
    BY <2>1
  <2>3. /\ lower(Listed) \ {s} = lower(Listed') \ {s}
        /\ upto(Listed) \ {s} = upto(Listed') \ {s}
    BY <1>8
  <2>4. /\ FirstPlace(Listed, key, r) = Cardinality(lower(Listed)) + 1
        /\ FirstPlace(Listed', key, r) = Cardinality(lower(Listed')) + 1
        /\ LastPlace(Listed, key, r) = Cardinality(upto(Listed))
        /\ LastPlace(Listed', key, r) = Cardinality(upto(Listed'))
    BY DEF FirstPlace, LastPlace
  <2> HIDE DEF lower, upto
  <2>5. /\ Near(Cardinality(lower(Listed)), Cardinality(lower(Listed')))
        /\ Near(Cardinality(upto(Listed)), Cardinality(upto(Listed')))
    BY <2>2, <2>3, NearSets
  <2>6. /\ Cardinality(lower(Listed)) \in Nat
        /\ Cardinality(lower(Listed')) \in Nat
    BY <2>2, ListFinite
  <2> QED BY <2>4, <2>5, <2>6 DEF Near
<1>11. \A key \in SortKeys, r \in Listed' : \A order \in Orders[key] :
         Place(Listed', order, r)
           \in FirstPlace(Listed', key, r) .. LastPlace(Listed', key, r)
  <2>1. Listed' \in SUBSET Shipments
    BY DEF Listed
  <2> QED BY <2>1, PlaceOfKey
<1> QED BY <1>4, <1>6, <1>7, <1>9, <1>10, <1>11 DEF StatsNear, ListNear

\* Between two queries of one answer, each commit moves a list by one row and
\* the counts by one, whatever the commit and however many requests there are.
THEOREM ReadsDrift == Spec => ReadsDriftByOne
<1> DEFINE Drifts ==
      ship' # ship => StatsNear(GetStats, GetStats') /\ ListNear(Listed, Listed')
<1>1. IInv /\ [Next]_vars => [Drifts]_vars
  <2> SUFFICES ASSUME IInv, [Next]_vars, ship' # ship
               PROVE  StatsNear(GetStats, GetStats') /\ ListNear(Listed, Listed')
    OBVIOUS
  <2>1. PICK w \in Workers : RowStep(w)
    BY StepOutcome DEF Outcome, vars, rows
  <2>2. \E s \in Shipments : \A t \in Shipments \ {s} : ship'[t] = ship[t]
    BY <2>1, OneRowMoves
  <2> QED BY <2>2, DriftStep
<1> QED BY <1>1, InvariantHolds, PTL DEF Spec, ReadsDriftByOne

===============================================================================
