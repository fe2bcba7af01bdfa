\* Two shipments, two requests at a time: numbers, bulk updates, lists and counts.
SPECIFICATION FairSpec
CONSTANTS
  Null = Null
  s1 = s1
  s2 = s2
  Shipments = {s1, s2}
  Numbers = {n1, n2}
  Users = {u1}
  Drivers = {}
  Callers = {u1}
  Locations = {l1}
  Clients = {}
  Workers = {w1, w2}
  Endpoints <- Fleet
  BulkRequests <- MCBulkRequests
  MaxEvents = 2
  MaxAttempts = 2
INVARIANTS
  TrackingUnique
  PagesCover
PROPERTIES
  Journey
  RequestsEnd
  RequestsShrink
  ReadsDriftByOne
