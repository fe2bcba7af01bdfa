----------------------------- MODULE DocumentStore -----------------------------
(***************************************************************************)
(* The rows and objects that documents live in: of PostgreSQL what the     *)
(* labels need of a shipment, the documents and the audit log; of the      *)
(* object store the files, by key; and the requests in progress.  As in    *)
(* ShipmentStore, an action is the code from one await to the next.        *)
(***************************************************************************)
EXTENDS Access, Naturals, FiniteSets

CONSTANTS
  Shipments,   \* ids of shipments, all of which exist
  Ids,         \* UUIDs: of a document's row and of the key of its upload
  Workers,     \* bound: requests at a time
  Endpoints,   \* bound: the routes a run exercises
  MaxPrints,   \* bound: how often what a label shows changes
  MaxAudits    \* bound: no request to another route starts beyond it, nor
               \* while one to that route is under way

ASSUME DocumentsAssumption ==
  /\ Shipments \cap Ids = {} /\ Null \notin Shipments \cup Ids \cup Nat
  /\ IsFiniteSet(Ids) /\ IsFiniteSet(Workers)
  /\ Endpoints \subseteq RouteNames
  /\ MaxPrints \in Nat /\ MaxAudits \in Nat

VARIABLES
  shipment,   \* shipments: deleted or not, and the version of what a label shows
  document,   \* documents by id
  object,     \* the object store: the size of the object at each key, or Null
  audit,      \* audit_logs: how many rows there are of each kind
  request,    \* the request each worker serves, with what it left running
  failed      \* history: has a call rejected, or the process stopped

docVars == <<shipment, document, object, audit, request, failed>>

-------------------------------------------------------------------------------
(* Values *)

\* The key of a label is that of its shipment, shipments/<id>/labels/label.pdf;
\* the key of an upload contains a UUID of its own.
LabelKey(s) == s
Keys == Ids \cup Shipments

UploadSize == 0   \* the size of any upload; that of a label is its version

DocumentTypes == {"LABEL", "OTHER"}   \* OTHER: also INVOICE, WAYBILL, PHOTO
Rows == [shipmentId : Shipments, type : DocumentTypes,
         fileName : {"upload", "shipment-label.pdf"}, fileUrl : Keys,
         fileSize : Nat, uploadedBy : Users]
NoDocument == [shipmentId |-> Null]

Entries == [userId : Callers, action : {r \in Endpoints : Mutates(r)},
            entityId : Shipments \cup {Null}]

Stages == {"idle", "upload.put", "upload.create", "label.put", "label.find",
           "label.update", "label.create", "remove.write", "audit"}
Requests == [at : Stages, user : Callers, route : Endpoints \cup {Null},
             shipmentId : Shipments \cup {Null}, id : Ids \cup {Null},
             type : DocumentTypes \cup {"unknown", Null},
             print : Nat, found : Ids \cup {Null}]
Idle == [at |-> "idle", user |-> Null, route |-> Null, shipmentId |-> Null,
         id |-> Null, type |-> Null, print |-> 0, found |-> Null]

DocInit ==
  /\ shipment = [s \in Shipments |-> [isDeleted |-> FALSE, prints |-> 1]]
  /\ document = [x \in Ids |-> NoDocument]
  /\ object = [k \in Keys |-> Null]
  /\ audit = [e \in Entries |-> 0]
  /\ request = [w \in Workers |-> Idle]
  /\ failed = FALSE

-------------------------------------------------------------------------------
(* Reads *)

Live_DeletedToo(s) == s \in Shipments

\* findOne / findFirst({ where: { id, isDeleted: false } })
Live(s) == ~shipment[s].isDeleted

Row(x) == document[x] # NoDocument
LabelsOf(s) == {x \in Ids : /\ Row(x) /\ document[x].shipmentId = s
                            /\ document[x].type = "LABEL"}
Uploads(u, s) == {x \in Ids : /\ Row(x) /\ document[x].shipmentId = s
                              /\ document[x].uploadedBy = u
                              /\ document[x].fileName = "upload"}
Generated(s) == {x \in Ids : /\ Row(x) /\ document[x].shipmentId = s
                             /\ document[x].fileName = "shipment-label.pdf"}

\* What the link that getDocumentUrl signs leads to, of a deleted shipment too.
GetDocumentUrl(x) == object[document[x].fileUrl]

\* A UUID is never drawn twice; which one is drawn makes no difference.
Fresh == {x \in Ids : /\ ~Row(x) /\ object[x] = Null
                      /\ \A w \in Workers : request[w].id # x}
NewId == CHOOSE x \in Fresh : TRUE

-------------------------------------------------------------------------------
(* Requests *)

Accepts(w, route, u) ==
  request[w].at = "idle" /\ route \in Endpoints /\ CanActivate(u, route)
Accepted(route, u) ==
  [Idle EXCEPT !.user = RequestUser(u, route), !.route = route]

Continue(w, h) == request' = [request EXCEPT ![w] = h]
Done(w) == Continue(w, Idle)

===============================================================================
