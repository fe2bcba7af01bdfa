\* One shipment, two requests at a time.
SPECIFICATION Spec
CONSTANTS
  Null = Null
  s1 = s1
  s2 = s2
  Shipments = {s1}
  Numbers = {n1}
  Users = {u1}
  Drivers = {}
  Callers = {u1}
  Locations = {}
  Clients = {}
  Workers = {w1, w2}
  Endpoints <- OneShipment
  BulkRequests <- NoBulk
  MaxEvents = 6
  MaxAttempts = 1
PROPERTIES
  FinalStatusIsFinal
