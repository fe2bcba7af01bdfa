\* One shipment, two requests at a time, GPS updates and a subscriber.
SPECIFICATION Spec
CONSTANTS
  Null = Null
  s1 = s1
  s2 = s2
  Shipments = {s1}
  Numbers = {n1}
  Users = {u1}
  Drivers = {}
  Callers = {u1}
  Locations = {}
  Clients = {c1}
  Workers = {w1, w2}
  Endpoints <- TrackedShipment
  BulkRequests <- NoBulk
  MaxEvents = 5
  MaxAttempts = 1
SYMMETRY WorkerSymmetry
INVARIANTS
  GpsStatusHeld
  MessagesAreLogged
PROPERTIES
  NoLateMessages
