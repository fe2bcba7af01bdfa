\* One request at a time: the inventory against the life of a shipment.
SPECIFICATION Spec
CONSTANTS
  Null = Null
  s1 = s1
  s2 = s2
  Shipments = {s1}
  Numbers = {n1}
  Users = {u1, d1}
  Drivers = {d1}
  Callers = {u1}
  Locations = {l1}
  Clients = {}
  Workers = {w1}
  Endpoints <- Desk
  BulkRequests <- OneBulk
  MaxEvents = 7
  MaxAttempts = 1
INVARIANTS
  InventoryHoldsNoDelivered
