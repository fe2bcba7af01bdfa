\* One shipment, two requests at a time, every operation that logs an event.
SPECIFICATION Spec
CONSTANTS
  Null = Null
  s1 = s1
  s2 = s2
  Shipments = {s1}
  Numbers = {n1}
  Users = {u1}
  Drivers = {}
  Callers = {u1}
  Locations = {}
  Clients = {}
  Workers = {w1, w2}
  Endpoints <- OneShipment
  BulkRequests <- NoBulk
  MaxEvents = 7
  MaxAttempts = 1
SYMMETRY WorkerSymmetry
INVARIANTS
  TypeOK
  TrailMatchesStatus
  MilestonesInOrder
  WarehouseMatchesTrail
PROPERTIES
  DeletedQuiescent
  Journey
  NoReturn
  BypassedForGood
