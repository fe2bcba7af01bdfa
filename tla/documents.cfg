\* One shipment, two requests at a time, two documents, failures; a public route,
\* and one that neither user may call.
SPECIFICATION FairDocSpec
CONSTANTS
  Null = Null
  admin = admin
  keeper = keeper
  Users = {admin, keeper}
  Role <- MCRole
  Shipments = {s1}
  Ids = {x1, x2}
  Workers = {w1, w2}
  Endpoints <- DocumentEndpoints
  MaxPrints = 2
  MaxAudits = 1
INVARIANTS
  TypeOK
  AuditTruthful
  UploadsAudited
  WritersAreAllowed
  DocumentsHaveObjects
  StoredLabelsRecorded
PROPERTIES
  UploadsKept
  OneLabelIsEnough
  DeletedDocumentsSettle
  LabelsStored
