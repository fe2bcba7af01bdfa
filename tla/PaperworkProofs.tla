---------------------------- MODULE PaperworkProofs ----------------------------
(***************************************************************************)
(* Theorems about Paperwork, for every number of shipments, documents,     *)
(* users and workers, and every assignment of roles.                       *)
(*                                                                         *)
(* A step has one of four effects on documents and objects (RowStep): it   *)
(* changes neither, stores an object, creates a document or points one to  *)
(* a label.  None takes anything away, so what a request has found stays   *)
(* true until it writes, and its id is nobody else's (Alone).              *)
(***************************************************************************)
EXTENDS Paperwork, FiniteSetTheorems, TLAPS

-------------------------------------------------------------------------------
(* The inductive invariant *)

UploadStages == {"upload.put", "upload.create"}
LabelStages == {"label.put", "label.find", "label.update", "label.create"}

\* The guards let the user u through to the handler of the route r.
May(u, r) == Holds(u, Routes[r].permissions)
Known(u, r) == IF Routes[r].isPublic THEN u = Null ELSE May(u, r)

\* What the local variables of a request are, by the await it is at.
Shape(h) ==
  /\ h.at # "idle" => h.route \in Endpoints
  /\ h.at \in UploadStages \cup LabelStages \cup {"remove.write"} =>
       h.shipmentId \in Shipments
  /\ h.at \in UploadStages =>
       /\ h.route = "uploadDocument" /\ h.id \in Ids
       /\ h.type \in DocumentTypes \cup {"unknown"} /\ May(h.user, "uploadDocument")
  /\ h.at \in LabelStages => h.print > 0 /\ May(h.user, "getLabel")
  /\ h.at = "label.update" => h.found \in Ids
  /\ h.at = "label.create" => h.id \in Ids
  /\ h.at = "remove.write" =>
       h.route = "remove" /\ May(h.user, "remove")
  /\ h.at = "audit" =>
       /\ Entry(h) \in Entries
       /\ Known(h.user, h.route)
       /\ h.route = "remove" => h.shipmentId \in Shipments

\* What they say about the rows and the objects.
Facts(h) ==
  /\ h.at \in UploadStages \cup LabelStages /\ h.id \in Ids => ~Row(h.id)
  /\ h.at = "upload.create" => object[h.id] # Null
  /\ h.at \in LabelStages \ {"label.put"} => object[LabelKey(h.shipmentId)] # Null
  /\ h.at \in {"label.put", "label.find"} =>
       h.id \in Ids \/ LabelsOf(h.shipmentId) # {}
  /\ h.at = "label.update" => h.found \in LabelsOf(h.shipmentId)
  /\ h.at = "audit" /\ h.route = "remove" => shipment[h.shipmentId].isDeleted

\* No two requests have one id.
Alone ==
  \A v, w \in Workers :
    v # w /\ request[v].id \in Ids => request[w].id # request[v].id

\* A document that may be there under the id x.
Sound(x, d) ==
  /\ d \in Rows
  /\ object[d.fileUrl] # Null
  /\ \/ d.fileUrl = x /\ d.fileSize = UploadSize
     \/ d.fileUrl = LabelKey(d.shipmentId) /\ d.fileSize > 0
  /\ May(d.uploadedBy, IF d.fileName = "upload" THEN "uploadDocument" ELSE "getLabel")

Documented == \A x \in Ids : Row(x) => Sound(x, document[x])

Logged ==
  \A e \in Entries : audit[e] > 0 =>
    /\ Known(e.userId, e.action)
    /\ e.action = "remove" =>
         e.entityId \in Shipments /\ shipment[e.entityId].isDeleted

IInv ==
  /\ TypeOK
  /\ \A s \in Shipments : shipment[s].prints > 0
  /\ \A w \in Workers : Shape(request[w]) /\ Facts(request[w])
  /\ Alone
  /\ Documented
  /\ Logged

-------------------------------------------------------------------------------
(* The effects of a step on documents and objects *)

Puts(w) ==
  \E k \in Keys, n \in Nat :
    /\ UNCHANGED document /\ object' = [object EXCEPT ![k] = n]
    /\ k \in Ids => ~Row(k)
    /\ k \in Shipments => /\ request[w].shipmentId = k
                          /\ request[w].at # "audit"

Creates(w) ==
  \E x \in Ids, d \in Rows :
    /\ UNCHANGED object /\ document' = [document EXCEPT ![x] = d]
    /\ ~Row(x) /\ x = request[w].id /\ Sound(x, d)
    /\ request[w].at = IF d.fileName = "upload" THEN "upload.create"
                                                ELSE "label.create"
    /\ d.shipmentId = request[w].shipmentId

Repoints(w) ==
  \E x \in Ids, n \in Nat \ {0} :
    /\ UNCHANGED object
    /\ document' = [document EXCEPT ![x].fileUrl = LabelKey(request[w].shipmentId),
                                    ![x].fileSize = n]
    /\ x \in LabelsOf(request[w].shipmentId)
    /\ request[w].at = "label.update"
    /\ object[LabelKey(request[w].shipmentId)] # Null

RowStep(w) ==
  \/ UNCHANGED <<document, object>>
  \/ Puts(w)
  \/ Creates(w)
  \/ Repoints(w)

\* Where the request that a step leaves behind comes from.
Origin(w, h) ==
  /\ h.id = Null \/ h.id = request[w].id \/ h.id \in Fresh
  /\ h.at = "label.create" => LabelsOf(h.shipmentId) = {}
  /\ \/ h.shipmentId = Null \/ h.at = "audit"
     \/ ~shipment[h.shipmentId].isDeleted
     \/ h.shipmentId = request[w].shipmentId /\ request[w].at # "audit"

\* What every step of worker w comes to.
Outcome(w) ==
  /\ RowStep(w)
  /\ shipment' \in [Shipments -> [isDeleted : BOOLEAN, prints : Nat]]
  /\ \A s \in Shipments : /\ shipment'[s].prints > 0
                          /\ shipment[s].isDeleted => shipment'[s].isDeleted
  /\ \E h \in Requests :
       Continue(w, h) /\ Shape(h) /\ Facts(h)' /\ Origin(w, h)

-------------------------------------------------------------------------------
(* Lemmas *)

LEMMA RoutePermissions ==
  \A r \in RouteNames : Routes[r].permissions \subseteq Permission
<1>1. /\ \A r \in DOMAIN ShipmentRoutes : ShipmentRoutes[r].permissions \subseteq Permission
      /\ \A r \in DOMAIN WarehouseRoutes : WarehouseRoutes[r].permissions \subseteq Permission
      /\ \A r \in DOMAIN TrackingRoutes : TrackingRoutes[r].permissions \subseteq Permission
      /\ \A r \in DOMAIN UserRoutes : UserRoutes[r].permissions \subseteq Permission
      /\ \A r \in DOMAIN AuthRoutes : AuthRoutes[r].permissions \subseteq Permission
  BY DEF ShipmentRoutes, WarehouseRoutes, TrackingRoutes, UserRoutes, AuthRoutes,
         Requires, LoggedIn, Public, Permission
<1>2. \A c \in Controllers : \A r \in DOMAIN c : c[r].permissions \subseteq Permission
  BY <1>1 DEF Controllers
<1> SUFFICES ASSUME NEW r \in RouteNames
             PROVE  Routes[r].permissions \subseteq Permission
  OBVIOUS
<1>3. PICK c \in Controllers : r \in DOMAIN c /\ Routes[r] = c[r]
  BY DEF RouteNames, Routes
<1> QED BY <1>2, <1>3

\* Who passes the guards of a route, and whom its handler then sees
\* (role-permissions.ts, permissions.guard.ts, shipments.controller.ts).
LEMMA RouteFacts ==
  /\ \A u \in Callers, r \in RouteNames : CanActivate(u, r) =>
       /\ Known(RequestUser(u, r), r)
       /\ ~Routes[r].isPublic => RequestUser(u, r) = u /\ May(u, r)
  /\ \A r \in {"uploadDocument", "getLabel", "remove"} : ~Routes[r].isPublic
  /\ Mutates("uploadDocument") /\ Mutates("remove")
<1>1. /\ Routes["uploadDocument"] = ShipmentRoutes["uploadDocument"]
      /\ Routes["getLabel"] = ShipmentRoutes["getLabel"]
      /\ Routes["remove"] = ShipmentRoutes["remove"]
  <2>1. /\ \A r \in {"uploadDocument", "getLabel", "remove"} :
             \A c \in Controllers : r \in DOMAIN c <=> c = ShipmentRoutes
    BY DEF Controllers, ShipmentRoutes, WarehouseRoutes, TrackingRoutes,
           UserRoutes, AuthRoutes
  <2>2. ShipmentRoutes \in Controllers
    BY DEF Controllers
  <2>3. \A r \in {"uploadDocument", "getLabel", "remove"} :
          r \in RouteNames /\ (CHOOSE c \in Controllers : r \in DOMAIN c) = ShipmentRoutes
    BY <2>1, <2>2 DEF RouteNames
  <2> QED BY <2>3 DEF Routes
<1>2. /\ Routes["uploadDocument"] = Requires("POST", "SHIPMENTS_EDIT")
      /\ Routes["getLabel"] = Requires("GET", "SHIPMENTS_VIEW_ALL")
      /\ Routes["remove"] = Requires("DELETE", "SHIPMENTS_DELETE")
  BY <1>1 DEF ShipmentRoutes
<1>3. /\ \A r \in {"uploadDocument", "getLabel", "remove"} : ~Routes[r].isPublic
      /\ Mutates("uploadDocument") /\ Mutates("remove")
  BY <1>2 DEF Requires, Mutates
<1>4. ROLE_PERMISSIONS["SUPER_ADMIN"] = Permission
  BY DEF ROLE_PERMISSIONS
<1>5. ASSUME NEW u \in Callers, NEW r \in RouteNames,
             CanActivate(u, r), ~Routes[r].isPublic
      PROVE  RequestUser(u, r) = u /\ May(u, r)
  BY <1>4, <1>5, RoutePermissions
  DEF CanActivate, JwtAuthGuard, PermissionsGuard, RequestUser, May, Holds, Callers
<1>6. \A u \in Callers, r \in RouteNames : Routes[r].isPublic => RequestUser(u, r) = Null
  BY DEF RequestUser
<1> QED BY <1>3, <1>5, <1>6 DEF Known

LEMMA IdleFacts == Idle \in Requests /\ Shape(Idle) /\ Facts(Idle)
BY DEF Idle, Requests, Stages, Shape, Facts, Callers, UploadStages, LabelStages

LEMMA ValueTypes ==
  ASSUME IInv
  PROVE  /\ \A w \in Workers : /\ request[w] \in Requests
                               /\ Shape(request[w]) /\ Facts(request[w])
         /\ \A x \in Ids : Row(x) => document[x] \in Rows
         /\ document \in [Ids -> Rows \cup {NoDocument}]
         /\ object \in [Keys -> Nat \cup {Null}]
         /\ NoDocument \notin Rows
<1>1. NoDocument \notin Rows
  BY DocumentsAssumption DEF NoDocument, Rows
<1> QED BY <1>1 DEF IInv, TypeOK, Row

-------------------------------------------------------------------------------
(* The effects take nothing away *)

LEMMA RowStepKeeps ==
  ASSUME IInv, NEW w \in Workers, RowStep(w)
  PROVE  /\ document' \in [Ids -> Rows \cup {NoDocument}]
         /\ object' \in [Keys -> Nat \cup {Null}]
         /\ \A k \in Keys : object[k] # Null => object'[k] # Null
         /\ \A x \in Ids : Row(x) =>
              /\ Row(x)' /\ document'[x].shipmentId = document[x].shipmentId
              /\ document'[x].type = document[x].type
              /\ document'[x].fileName = document[x].fileName
              /\ document'[x].uploadedBy = document[x].uploadedBy
         /\ \A x \in Ids : Row(x)' =>
              \/ Row(x)
              \/ x = request[w].id
                   /\ request[w].at \in {"upload.create", "label.create"}
         /\ Documented'
<1>1. /\ document \in [Ids -> Rows \cup {NoDocument}]
      /\ object \in [Keys -> Nat \cup {Null}]
      /\ \A x \in Ids : Row(x) => Sound(x, document[x])
      /\ Null \notin Nat /\ NoDocument \notin Rows
      /\ \A s \in Shipments : LabelKey(s) \in Keys
      /\ \A d \in Rows : d.fileUrl \in Keys
  BY ValueTypes, DocumentsAssumption DEF IInv, Documented, LabelKey, Keys, Rows
<1>2. CASE UNCHANGED <<document, object>>
  BY <1>1, <1>2 DEF Row, Documented, Sound
<1>3. CASE Puts(w)
  <2> PICK k \in Keys, n \in Nat :
        UNCHANGED document /\ object' = [object EXCEPT ![k] = n]
    BY <1>3 DEF Puts
  <2>1. \A j \in Keys : object[j] # Null => object'[j] # Null
    BY <1>1
  <2>2. object' \in [Keys -> Nat \cup {Null}]
    BY <1>1
  <2>3. \A x \in Ids, d \in Rows : Sound(x, d) => Sound(x, d)'
    BY <1>1, <2>1 DEF Sound
  <2>4. \A x \in Ids : Row(x) => document[x] \in Rows
    BY <1>1 DEF Row
  <2> QED BY <1>1, <2>1, <2>2, <2>3, <2>4 DEF Row, Documented
<1>4. CASE Creates(w)
  <2> PICK x \in Ids, d \in Rows :
        /\ UNCHANGED object /\ document' = [document EXCEPT ![x] = d]
        /\ ~Row(x) /\ x = request[w].id /\ Sound(x, d)
        /\ request[w].at \in {"upload.create", "label.create"}
    BY <1>4 DEF Creates
  <2>1. \A y \in Ids \ {x} : document'[y] = document[y]
    BY <1>1
  <2>2. document'[x] = d /\ document' \in [Ids -> Rows \cup {NoDocument}]
    BY <1>1
  <2>3. Sound(x, d)' /\ \A y \in Ids : Row(y) => Sound(y, document[y])'
    BY <1>1, <2>1 DEF Sound, Row
  <2> QED BY <1>1, <2>1, <2>2, <2>3 DEF Row, Documented
<1>5. CASE Repoints(w)
  <2> DEFINE s == request[w].shipmentId
  <2> PICK x \in Ids, n \in Nat \ {0} :
        /\ UNCHANGED object
        /\ document' = [document EXCEPT ![x].fileUrl = LabelKey(s), ![x].fileSize = n]
        /\ x \in LabelsOf(s) /\ object[LabelKey(s)] # Null
    BY <1>5 DEF Repoints
  <2> DEFINE d == document[x]
  <2>1. Row(x) /\ d \in Rows /\ d.shipmentId = s /\ Sound(x, d)
    BY <1>1 DEF LabelsOf, Row
  <2>2. s \in Shipments /\ LabelKey(s) \in Keys
    BY <1>1, <2>1 DEF Rows
  <2> DEFINE e == [d EXCEPT !.fileUrl = LabelKey(s), !.fileSize = n]
  <2>3. /\ e \in Rows /\ e.shipmentId = s /\ e.type = d.type
        /\ e.fileName = d.fileName /\ e.uploadedBy = d.uploadedBy
        /\ e.fileUrl = LabelKey(s) /\ e.fileSize = n
    BY <2>1, <2>2 DEF Rows
  <2>4. document' = [document EXCEPT ![x] = e]
    BY <1>1
  <2>5. Sound(x, e)
    BY <2>1, <2>3 DEF Sound
  <2> HIDE DEF e
  <2>6. /\ document'[x] = e /\ \A y \in Ids \ {x} : document'[y] = document[y]
        /\ document' \in [Ids -> Rows \cup {NoDocument}]
    BY <1>1, <2>3, <2>4
  <2>7. \A y \in Ids, g \in Rows : Sound(y, g) => Sound(y, g)'
    BY DEF Sound
  <2> QED BY <1>1, <2>1, <2>3, <2>5, <2>6, <2>7 DEF Row, Documented
<1> QED BY <1>2, <1>3, <1>4, <1>5 DEF RowStep

LEMMA LabelsGrow ==
  ASSUME IInv, NEW w \in Workers, RowStep(w), NEW s \in Shipments
  PROVE  LabelsOf(s) \subseteq LabelsOf(s)'
BY RowStepKeeps DEF LabelsOf

\* What every step of a worker preserves, whatever it does.
LEMMA OutcomeKeeps ==
  ASSUME IInv, NEW w \in Workers, Outcome(w)
  PROVE  /\ shipment' \in [Shipments -> [isDeleted : BOOLEAN, prints : Nat]]
         /\ \A s \in Shipments : shipment'[s].prints > 0
         /\ document' \in [Ids -> Rows \cup {NoDocument}]
         /\ object' \in [Keys -> Nat \cup {Null}]
         /\ request' \in [Workers -> Requests]
         /\ \A v \in Workers : Shape(request'[v]) /\ Facts(request[v])'
         /\ Alone' /\ Documented'
<1> PICK h \in Requests : Continue(w, h) /\ Shape(h) /\ Facts(h)' /\ Origin(w, h)
  BY DEF Outcome
<1>1. RowStep(w) /\ \A s \in Shipments : shipment[s].isDeleted => shipment'[s].isDeleted
  BY DEF Outcome
<1>2. /\ request \in [Workers -> Requests]
      /\ \A v \in Workers : Shape(request[v]) /\ Facts(request[v])
  BY DEF IInv, TypeOK
<1>3. /\ request' \in [Workers -> Requests] /\ request'[w] = h
      /\ \A v \in Workers \ {w} : request'[v] = request[v]
  BY <1>2 DEF Continue
<1>4. \A v \in Workers : Shape(request'[v])
  BY <1>2, <1>3
<1>5. ASSUME NEW v \in Workers \ {w} PROVE Facts(request[v])'
  <2> PICK r \in Requests : r = request[v]
    BY <1>2
  <2>1. Shape(r) /\ Facts(r) /\ request'[v] = r
    BY <1>2, <1>3
  <2>2. r.id \in Ids => r.id # request[w].id
    BY DEF Alone, IInv
  <2>3. r.at \in UploadStages \cup LabelStages => r.shipmentId \in Shipments
    BY <2>1 DEF Shape
  <2>4. /\ r.at \in UploadStages \cup LabelStages /\ r.id \in Ids => ~Row(r.id)'
        /\ r.at = "upload.create" => object'[r.id] # Null
        /\ r.at \in LabelStages \ {"label.put"}
             => object'[LabelKey(r.shipmentId)] # Null
    BY <1>1, <2>1, <2>2, <2>3, RowStepKeeps
       DEF Facts, Shape, UploadStages, LabelStages, LabelKey, Keys
  <2>5. /\ r.at \in {"label.put", "label.find"} =>
             r.id \in Ids \/ LabelsOf(r.shipmentId)' # {}
        /\ r.at = "label.update" => r.found \in LabelsOf(r.shipmentId)'
    BY <1>1, <2>1, <2>3, LabelsGrow DEF Facts, LabelStages
  <2>6. r.at = "audit" /\ r.route = "remove" => shipment'[r.shipmentId].isDeleted
    BY <1>1, <2>1 DEF Facts, Shape
  <2>7. Facts(r)'
    BY <2>4, <2>5, <2>6 DEF Facts
  <2> QED BY <2>1, <2>7 DEF Facts
<1>6. Facts(request[w])'
  BY <1>3 DEF Facts
<1>7. Alone'
  <2> SUFFICES ASSUME NEW u \in Workers, NEW v \in Workers, u # v,
                      request'[u].id \in Ids
               PROVE  request'[v].id # request'[u].id
    BY DEF Alone
  <2>1. \A x \in Fresh : \A t \in Workers : request[t].id # x
    BY DEF Fresh
  <2>2. Null \notin Ids
    BY DocumentsAssumption
  <2> QED BY <1>3, <2>1, <2>2 DEF Alone, IInv, Origin
<1> QED BY <1>1, <1>3, <1>4, <1>5, <1>6, <1>7, RowStepKeeps DEF Outcome

-------------------------------------------------------------------------------
(* The outcome of each step *)

LEMMA OnlyRequest ==
  ASSUME IInv, NEW w \in Workers, NEW h \in Requests, Continue(w, h),
         UNCHANGED <<shipment, document, object>>,
         Shape(h), Facts(h), Origin(w, h)
  PROVE  Outcome(w)
<1>1. Facts(h)'
  BY DEF Facts, Row, LabelsOf
<1> QED BY <1>1 DEF Outcome, RowStep, IInv, TypeOK

LEMMA Ends ==
  ASSUME IInv, NEW w \in Workers, Done(w), UNCHANGED shipment, RowStep(w)
  PROVE  Outcome(w)
<1>1. Facts(Idle)' /\ Origin(w, Idle)
  BY DEF Facts, Origin, Idle, UploadStages, LabelStages
<1> QED BY <1>1, IdleFacts DEF Outcome, IInv, TypeOK, Done

\* The id a request draws is that of no document.
LEMMA NewIds == Fresh # {} => NewId \in Fresh /\ NewId \in Ids /\ ~Row(NewId)
BY DEF Fresh, NewId

LEMMA AcceptedRequest ==
  ASSUME NEW u \in Callers, NEW r \in Endpoints
  PROVE  /\ Accepted(r, u) \in Requests
         /\ Accepted(r, u).user = RequestUser(u, r) /\ Accepted(r, u).route = r
         /\ Accepted(r, u).id = Null /\ Accepted(r, u).shipmentId = Null
<1>1. Idle \in Requests /\ Idle.id = Null /\ Idle.shipmentId = Null
  BY IdleFacts DEF Idle
<1>2. RequestUser(u, r) \in Callers
  BY DEF RequestUser, Callers
<1> QED BY <1>1, <1>2 DEF Accepted, Requests

LEMMA RequestWithId ==
  ASSUME NEW g \in Requests, NEW x \in Ids
  PROVE  [g EXCEPT !.id = x] \in Requests
BY DEF Requests

LEMMA UploadFindOutcome ==
  ASSUME IInv, NEW w \in Workers, UploadFind(w)
  PROVE  Outcome(w)
<1> PICK u \in Callers, s \in Shipments, t \in DocumentTypes \cup {"unknown"} :
      /\ Accepts(w, "uploadDocument", u) /\ Live(s) /\ Fresh # {}
      /\ Continue(w, [Accepted("uploadDocument", u) EXCEPT !.at = "upload.put",
                        !.shipmentId = s, !.id = NewId, !.type = t])
  BY DEF UploadFind
<1>1. /\ CanActivate(u, "uploadDocument") /\ "uploadDocument" \in Endpoints
      /\ RequestUser(u, "uploadDocument") = u /\ May(u, "uploadDocument")
  BY RouteFacts, DocumentsAssumption DEF Accepts
<1>2. NewId \in Fresh /\ NewId \in Ids /\ ~Row(NewId)
  BY NewIds
<1> PICK g \in Requests : g = Accepted("uploadDocument", u)
  BY <1>1, AcceptedRequest
<1> PICK h \in Requests :
      h = [g EXCEPT !.at = "upload.put", !.shipmentId = s, !.id = NewId, !.type = t]
  BY <1>2 DEF Requests, Stages
<1>3. /\ Continue(w, h) /\ h.at = "upload.put" /\ h.user = u /\ h.shipmentId = s
      /\ h.route = "uploadDocument" /\ h.id = NewId /\ h.type = t
  BY <1>1, AcceptedRequest DEF Requests
<1>4. Shape(h) /\ Facts(h)
  BY <1>1, <1>2, <1>3 DEF Shape, Facts, UploadStages, LabelStages
<1>5. Origin(w, h)
  BY <1>2, <1>3 DEF Origin, Live
<1> QED BY <1>3, <1>4, <1>5, OnlyRequest DEF UploadFind

LEMMA UploadPutOutcome ==
  ASSUME IInv, NEW w \in Workers, UploadPut(w)
  PROVE  Outcome(w)
<1> PICK g \in Requests : g = request[w] /\ Shape(g) /\ Facts(g)
  BY ValueTypes
<1> PICK h \in Requests : h = [g EXCEPT !.at = "upload.create"]
  BY DEF Requests, Stages
<1>1. /\ g.at = "upload.put" /\ Continue(w, h) /\ UNCHANGED <<shipment, document>>
      /\ object' = [object EXCEPT ![g.id] = UploadSize]
      /\ g.id \in Ids /\ g.shipmentId \in Shipments /\ ~Row(g.id)
  BY DEF UploadPut, Shape, Facts, UploadStages
<1>2. /\ h.at = "upload.create" /\ h.id = g.id /\ h.route = g.route
      /\ h.shipmentId = g.shipmentId /\ h.type = g.type /\ h.user = g.user
  BY DEF Requests
<1>3. Puts(w)
  BY <1>1, DocumentsAssumption DEF Puts, Keys, UploadSize
<1>4. Shape(h)
  BY <1>1, <1>2 DEF Shape, UploadStages, LabelStages
<1>5. Facts(h)'
  <2>1. object'[h.id] = UploadSize /\ UploadSize # Null /\ ~Row(h.id)'
    BY <1>1, <1>2, ValueTypes, DocumentsAssumption DEF Keys, UploadSize, Row
  <2> QED BY <1>2, <2>1 DEF Facts, UploadStages, LabelStages
<1>6. Origin(w, h)
  BY <1>1, <1>2 DEF Origin
<1> QED BY <1>1, <1>3, <1>4, <1>5, <1>6 DEF Outcome, RowStep, IInv, TypeOK

LEMMA UploadCreateOutcome ==
  ASSUME IInv, NEW w \in Workers, UploadCreate(w)
  PROVE  /\ Outcome(w)
         /\ \/ UNCHANGED document /\ Done(w)
            \/ /\ document' = [document EXCEPT ![request[w].id] = UploadedRow(request[w])]
               /\ Continue(w, [request[w] EXCEPT !.at = "audit"])
               /\ request[w].id \in Ids /\ ~Row(request[w].id)
               /\ UploadedRow(request[w]) \in Rows
               /\ request[w].route = "uploadDocument"
<1> PICK g \in Requests : g = request[w] /\ Shape(g) /\ Facts(g)
  BY ValueTypes
<1>1. /\ g.at = "upload.create" /\ UNCHANGED <<shipment, object, audit, failed>>
      /\ g.id \in Ids /\ ~Row(g.id) /\ g.shipmentId \in Shipments
      /\ g.route = "uploadDocument" /\ g.route \in Endpoints
      /\ May(g.user, "uploadDocument") /\ g.user \in Users
      /\ g.type \in DocumentTypes \cup {"unknown"}
      /\ object[g.id] # Null
  BY DEF UploadCreate, Shape, Facts, UploadStages, May, Holds
<1>2. CASE g.type = "unknown"
  <2>1. Done(w) /\ UNCHANGED document
    BY <1>2 DEF UploadCreate
  <2> QED BY <1>1, <2>1, Ends DEF RowStep
<1>3. CASE g.type # "unknown"
  <2> PICK h \in Requests : h = [g EXCEPT !.at = "audit"]
    BY DEF Requests, Stages
  <2>1. /\ document' = [document EXCEPT ![g.id] = UploadedRow(g)]
        /\ Continue(w, h)
    BY <1>1, <1>3, RouteFacts DEF UploadCreate, Answer
  <2>2. /\ h.at = "audit" /\ h.id = g.id /\ h.route = g.route
        /\ h.shipmentId = g.shipmentId /\ h.user = g.user
    BY DEF Requests
  <2>3. UploadedRow(g) \in Rows /\ Sound(g.id, UploadedRow(g))
    BY <1>1, <1>3 DEF Sound, UploadedRow, Rows, UploadSize, Keys
  <2>4. /\ UploadedRow(g).fileName = "upload"
        /\ UploadedRow(g).shipmentId = g.shipmentId
    BY DEF UploadedRow
  <2>5. Creates(w)
    BY <1>1, <2>1, <2>3, <2>4 DEF Creates
  <2>6. Shape(h)
    <3>1. Entry(h) \in Entries
      BY <1>1, <2>2, RouteFacts DEF Entry, Entries, Callers
    <3> QED BY <1>1, <2>2, <3>1, RouteFacts
            DEF Shape, Known, UploadStages, LabelStages
  <2>7. Facts(h)'
    BY <1>1, <2>2 DEF Facts, UploadStages, LabelStages
  <2>8. Origin(w, h)
    BY <2>2 DEF Origin
  <2> QED BY <1>1, <2>1, <2>3, <2>5, <2>6, <2>7, <2>8
          DEF Outcome, RowStep, IInv, TypeOK
<1> QED BY <1>2, <1>3

LEMMA LabelFindOutcome ==
  ASSUME IInv, NEW w \in Workers, LabelFind(w)
  PROVE  Outcome(w)
<1> PICK u \in Callers, s \in Shipments :
      LET g == [Accepted("getLabel", u) EXCEPT !.at = "label.put",
                  !.shipmentId = s, !.print = shipment[s].prints] IN
      /\ Accepts(w, "getLabel", u) /\ Live(s)
      /\ \/ LabelsOf(s) = {} /\ Fresh # {} /\ Continue(w, [g EXCEPT !.id = NewId])
         \/ LabelsOf(s) # {} /\ Continue(w, g)
  BY DEF LabelFind
<1>1. /\ CanActivate(u, "getLabel") /\ "getLabel" \in Endpoints /\ Live(s)
      /\ RequestUser(u, "getLabel") = u /\ May(u, "getLabel")
  BY RouteFacts, DocumentsAssumption DEF Accepts
<1>2. shipment[s].prints \in Nat /\ shipment[s].prints > 0
  BY DEF IInv, TypeOK
<1> PICK a \in Requests : a = Accepted("getLabel", u)
  BY <1>1, AcceptedRequest
<1> PICK g \in Requests :
      g = [a EXCEPT !.at = "label.put", !.shipmentId = s, !.print = shipment[s].prints]
  BY <1>2 DEF Requests, Stages
<1>3. /\ g.at = "label.put" /\ g.user = u /\ g.route = "getLabel"
      /\ g.shipmentId = s /\ g.print = shipment[s].prints /\ g.id = Null
  BY <1>1, AcceptedRequest DEF Requests
<1>4. PICK h \in Requests :
        /\ Continue(w, h) /\ h.at = "label.put" /\ h.user = u /\ h.route = "getLabel"
        /\ h.shipmentId = s /\ h.print = shipment[s].prints
        /\ \/ LabelsOf(s) = {} /\ h.id \in Fresh /\ h.id \in Ids /\ ~Row(h.id)
           \/ LabelsOf(s) # {} /\ h.id = Null
  <2>1. CASE LabelsOf(s) = {}
    <3>1. Continue(w, [g EXCEPT !.id = NewId]) /\ Fresh # {}
      BY <2>1
    <3> PICK x \in Ids : x = NewId /\ x \in Fresh /\ ~Row(x)
      BY <3>1, NewIds
    <3> PICK h \in Requests : h = [g EXCEPT !.id = x]
      BY RequestWithId
    <3>2. /\ h.at = g.at /\ h.user = g.user /\ h.route = g.route /\ h.id = x
          /\ h.shipmentId = g.shipmentId /\ h.print = g.print
      BY DEF Requests
    <3> QED BY <1>3, <2>1, <3>1, <3>2
  <2>2. CASE LabelsOf(s) # {}
    BY <1>3, <2>2
  <2> QED BY <2>1, <2>2
<1>5. Shape(h)
  BY <1>1, <1>2, <1>4 DEF Shape, UploadStages, LabelStages
<1>6. Facts(h)
  BY <1>4, DocumentsAssumption DEF Facts, UploadStages, LabelStages
<1>7. Origin(w, h)
  BY <1>1, <1>4 DEF Origin, Live
<1> QED BY <1>4, <1>5, <1>6, <1>7, OnlyRequest DEF LabelFind

LEMMA LabelPutOutcome ==
  ASSUME IInv, NEW w \in Workers, LabelPut(w)
  PROVE  Outcome(w)
<1> PICK g \in Requests : g = request[w] /\ Shape(g) /\ Facts(g)
  BY ValueTypes
<1> PICK h \in Requests : h = [g EXCEPT !.at = "label.find"]
  BY DEF Requests, Stages
<1>1. /\ g.at = "label.put" /\ Continue(w, h) /\ UNCHANGED <<shipment, document>>
      /\ object' = [object EXCEPT ![LabelKey(g.shipmentId)] = g.print]
      /\ g.shipmentId \in Shipments /\ g.print > 0 /\ g.print \in Nat
      /\ May(g.user, "getLabel")
      /\ g.route \in Endpoints
  BY DEF LabelPut, Shape, LabelStages, Requests
<1>2. /\ h.at = "label.find" /\ h.id = g.id /\ h.route = g.route
      /\ h.shipmentId = g.shipmentId /\ h.print = g.print /\ h.user = g.user
  BY DEF Requests
<1>3. Puts(w)
  BY <1>1, DocumentsAssumption DEF Puts, Keys, LabelKey
<1>4. Shape(h)
  BY <1>1, <1>2 DEF Shape, UploadStages, LabelStages
<1>5. Facts(h)'
  <2>1. object'[LabelKey(h.shipmentId)] # Null
    BY <1>1, <1>2, ValueTypes, DocumentsAssumption DEF Keys, LabelKey
  <2>2. /\ h.id \in Ids => ~Row(h.id)'
        /\ h.id \in Ids \/ LabelsOf(h.shipmentId)' # {}
    BY <1>1, <1>2 DEF Facts, Row, LabelsOf, LabelStages
  <2> QED BY <1>2, <2>1, <2>2 DEF Facts, UploadStages, LabelStages
<1>6. Origin(w, h)
  BY <1>1, <1>2 DEF Origin
<1> QED BY <1>1, <1>3, <1>4, <1>5, <1>6 DEF Outcome, RowStep, IInv, TypeOK

LEMMA LabelLookupOutcome ==
  ASSUME IInv, NEW w \in Workers, LabelLookup(w)
  PROVE  Outcome(w)
<1> PICK g \in Requests : g = request[w] /\ Shape(g) /\ Facts(g)
  BY ValueTypes
<1>1. /\ g.at = "label.find" /\ UNCHANGED <<shipment, document, object>>
      /\ g.shipmentId \in Shipments /\ g.print > 0
      /\ May(g.user, "getLabel") /\ g.route \in Endpoints
      /\ g.id \in Ids => ~Row(g.id)
      /\ g.id \in Ids \/ LabelsOf(g.shipmentId) # {}
      /\ object[LabelKey(g.shipmentId)] # Null
  BY DEF LabelLookup, Shape, Facts, LabelStages
<1>2. CASE \E x \in LabelsOf(g.shipmentId) :
             Continue(w, [g EXCEPT !.at = "label.update", !.found = x])
  <2> PICK x \in LabelsOf(g.shipmentId) :
        Continue(w, [g EXCEPT !.at = "label.update", !.found = x])
    BY <1>2
  <2>1. x \in Ids
    BY DEF LabelsOf
  <2> PICK h \in Requests : h = [g EXCEPT !.at = "label.update", !.found = x]
    BY <2>1 DEF Requests, Stages
  <2>2. /\ h.at = "label.update" /\ h.id = g.id /\ h.route = g.route /\ h.found = x
        /\ h.shipmentId = g.shipmentId /\ h.print = g.print /\ h.user = g.user
    BY DEF Requests
  <2>3. Shape(h) /\ Facts(h)
    BY <1>1, <2>1, <2>2 DEF Shape, Facts, UploadStages, LabelStages
  <2>4. Origin(w, h)
    BY <1>1, <2>2 DEF Origin
  <2> QED BY <1>1, <2>3, <2>4, OnlyRequest
<1>3. CASE /\ LabelsOf(g.shipmentId) = {}
           /\ Continue(w, [g EXCEPT !.at = "label.create"])
  <2> PICK h \in Requests : h = [g EXCEPT !.at = "label.create"]
    BY DEF Requests, Stages
  <2>2. /\ h.at = "label.create" /\ h.id = g.id /\ h.route = g.route
        /\ h.shipmentId = g.shipmentId /\ h.print = g.print /\ h.user = g.user
    BY DEF Requests
  <2>3. Shape(h) /\ Facts(h)
    BY <1>1, <1>3, <2>2 DEF Shape, Facts, UploadStages, LabelStages
  <2>4. Origin(w, h)
    BY <1>1, <1>3, <2>2 DEF Origin
  <2> QED BY <1>1, <1>3, <2>3, <2>4, OnlyRequest
<1> QED BY <1>1, <1>2, <1>3 DEF LabelLookup

LEMMA LabelUpdateOutcome ==
  ASSUME IInv, NEW w \in Workers, LabelUpdate(w)
  PROVE  Outcome(w)
<1> PICK g \in Requests : g = request[w] /\ Shape(g) /\ Facts(g)
  BY ValueTypes
<1>1. /\ g.at = "label.update" /\ g.found \in LabelsOf(g.shipmentId)
      /\ g.found \in Ids /\ g.print \in Nat \ {0}
      /\ object[LabelKey(g.shipmentId)] # Null
  BY DEF LabelUpdate, Shape, Facts, LabelStages, Requests
<1>2. Repoints(w)
  BY <1>1 DEF Repoints, LabelUpdate
<1> QED BY <1>2, Ends DEF LabelUpdate, RowStep

LEMMA LabelCreateOutcome ==
  ASSUME IInv, NEW w \in Workers, LabelCreate(w)
  PROVE  Outcome(w) /\ Creates(w)
<1> PICK g \in Requests : g = request[w] /\ Shape(g) /\ Facts(g)
  BY ValueTypes
<1>1. /\ g.at = "label.create" /\ g.id \in Ids /\ ~Row(g.id)
      /\ g.shipmentId \in Shipments /\ g.print > 0 /\ g.print \in Nat
      /\ May(g.user, "getLabel") /\ g.user \in Users
      /\ object[LabelKey(g.shipmentId)] # Null
  BY DEF LabelCreate, Shape, Facts, LabelStages, Requests, May, Holds
<1> DEFINE d == [shipmentId |-> g.shipmentId, type |-> "LABEL",
                 fileName |-> "shipment-label.pdf", fileUrl |-> LabelKey(g.shipmentId),
                 fileSize |-> g.print, uploadedBy |-> g.user]
<1>2. d \in Rows /\ Sound(g.id, d)
  BY <1>1 DEF Sound, Rows, DocumentTypes, Keys, LabelKey
<1>3. d.fileName = "shipment-label.pdf" /\ d.shipmentId = g.shipmentId
  OBVIOUS
<1>4. UNCHANGED object /\ document' = [document EXCEPT ![g.id] = d]
  BY DEF LabelCreate
<1> HIDE DEF d
<1>5. Creates(w)
  BY <1>1, <1>2, <1>3, <1>4 DEF Creates
<1> QED BY <1>5, Ends DEF LabelCreate, RowStep

LEMMA RemoveFindOutcome ==
  ASSUME IInv, NEW w \in Workers, RemoveFind(w)
  PROVE  Outcome(w)
<1> PICK u \in Callers, s \in Shipments :
      /\ Accepts(w, "remove", u) /\ Live(s)
      /\ Continue(w, [Accepted("remove", u) EXCEPT !.at = "remove.write",
                                                   !.shipmentId = s])
  BY DEF RemoveFind
<1>1. /\ CanActivate(u, "remove") /\ "remove" \in Endpoints
      /\ RequestUser(u, "remove") = u /\ May(u, "remove")
  BY RouteFacts, DocumentsAssumption DEF Accepts
<1> PICK g \in Requests : g = Accepted("remove", u)
  BY <1>1, AcceptedRequest
<1> PICK h \in Requests : h = [g EXCEPT !.at = "remove.write", !.shipmentId = s]
  BY DEF Requests, Stages
<1>2. /\ Continue(w, h) /\ h.at = "remove.write" /\ h.user = u /\ h.id = Null
      /\ h.route = "remove" /\ h.shipmentId = s
  BY <1>1, AcceptedRequest DEF Requests
<1>3. Shape(h) /\ Facts(h)
  BY <1>1, <1>2 DEF Shape, Facts, UploadStages, LabelStages
<1>4. Origin(w, h)
  BY <1>2 DEF Origin, Live
<1> QED BY <1>2, <1>3, <1>4, OnlyRequest DEF RemoveFind

LEMMA RemoveWriteOutcome ==
  ASSUME IInv, NEW w \in Workers, RemoveWrite(w)
  PROVE  Outcome(w)
<1> PICK g \in Requests : g = request[w] /\ Shape(g) /\ Facts(g)
  BY ValueTypes
<1> PICK h \in Requests : h = [g EXCEPT !.at = "audit"]
  BY DEF Requests, Stages
<1>1. /\ g.at = "remove.write" /\ g.shipmentId \in Shipments /\ g.route = "remove"
      /\ g.route \in Endpoints /\ May(g.user, "remove") /\ g.user \in Users
      /\ Continue(w, h) /\ UNCHANGED <<document, object>>
      /\ shipment' = [shipment EXCEPT ![g.shipmentId].isDeleted = TRUE]
  BY RouteFacts DEF RemoveWrite, Shape, Answer, May, Holds
<1>2. /\ h.at = "audit" /\ h.id = g.id /\ h.route = g.route
      /\ h.shipmentId = g.shipmentId /\ h.user = g.user
  BY DEF Requests
<1>3. Shape(h)
  <2>1. Entry(h) \in Entries
    BY <1>1, <1>2, RouteFacts DEF Entry, Entries, Callers
  <2> QED BY <1>1, <1>2, <2>1, RouteFacts DEF Shape, Known, UploadStages, LabelStages
<1>4. /\ shipment' \in [Shipments -> [isDeleted : BOOLEAN, prints : Nat]]
      /\ \A s \in Shipments : /\ shipment'[s].prints > 0
                              /\ shipment[s].isDeleted => shipment'[s].isDeleted
      /\ shipment'[g.shipmentId].isDeleted
  BY <1>1 DEF IInv, TypeOK
<1>5. Facts(h)'
  BY <1>1, <1>2, <1>4 DEF Facts, UploadStages, LabelStages
<1>6. Origin(w, h)
  BY <1>2 DEF Origin
<1> QED BY <1>1, <1>3, <1>4, <1>5, <1>6 DEF Outcome, RowStep

LEMMA OtherRouteOutcome ==
  ASSUME IInv, NEW w \in Workers, OtherRoute(w)
  PROVE  /\ UNCHANGED <<shipment, document, object>>
         /\ \/ UNCHANGED request
            \/ /\ Outcome(w) /\ request'[w].at = "audit"
               /\ request'[w].route \notin {"uploadDocument", "remove"}
<1> PICK u \in Callers, r \in Endpoints \ {"uploadDocument", "getLabel", "remove"} :
      /\ Accepts(w, r, u)
      /\ \/ \E s \in Targets(r) :
              Mutates(r) /\ Continue(w, [Accepted(r, u) EXCEPT !.at = "audit",
                                                              !.shipmentId = s])
         \/ UNCHANGED request
  BY DEF OtherRoute
<1>1. UNCHANGED <<shipment, document, object>>
  BY DEF OtherRoute
<1>2. CASE UNCHANGED request
  BY <1>1, <1>2
<1>3. CASE \E s \in Targets(r) :
             Mutates(r) /\ Continue(w, [Accepted(r, u) EXCEPT !.at = "audit",
                                                             !.shipmentId = s])
  <2> PICK s \in Shipments \cup {Null} :
        Mutates(r) /\ Continue(w, [Accepted(r, u) EXCEPT !.at = "audit",
                                                        !.shipmentId = s])
    BY <1>3 DEF Targets
  <2>1. RequestUser(u, r) \in Callers /\ Known(RequestUser(u, r), r)
    BY RouteFacts, DocumentsAssumption DEF Accepts, RequestUser, Callers, Known
  <2> PICK a \in Requests : a = Accepted(r, u)
    BY AcceptedRequest
  <2> PICK g \in Requests : g = [a EXCEPT !.at = "audit", !.shipmentId = s]
    BY DEF Requests, Stages
  <2>2. /\ g.at = "audit" /\ g.route = r /\ g.user = RequestUser(u, r)
        /\ g.id = Null /\ g.shipmentId = s
    BY AcceptedRequest DEF Requests
  <2>3. Shape(g)
    <3>1. Entry(g) \in Entries
      BY <2>1, <2>2 DEF Entry, Entries
    <3> QED BY <2>1, <2>2, <3>1 DEF Shape, UploadStages, LabelStages
  <2>4. Facts(g)
    BY <2>2 DEF Facts, UploadStages, LabelStages
  <2>5. Origin(w, g)
    BY <2>2 DEF Origin
  <2>6. Continue(w, g)
    OBVIOUS
  <2>7. request'[w] = g
    BY <2>6, ValueTypes DEF Continue, IInv, TypeOK
  <2> QED BY <1>1, <2>3, <2>4, <2>5, <2>6, <2>2, <2>7, OnlyRequest
<1> QED BY <1>2, <1>3

-------------------------------------------------------------------------------
(* The invariant is inductive *)

\* The conjuncts about audit and failed, for a step that does not log.
LEMMA NotLogging ==
  ASSUME IInv, NEW w \in Workers, Outcome(w), UNCHANGED audit, failed' \in BOOLEAN
  PROVE  IInv'
<1>1. \A s \in Shipments : shipment[s].isDeleted => shipment'[s].isDeleted
  BY DEF Outcome
<1>2. Logged'
  BY <1>1 DEF Logged, IInv
<1> QED BY <1>2, OutcomeKeeps DEF IInv, TypeOK

LEMMA AuditWriteKeeps ==
  ASSUME IInv, NEW w \in Workers, AuditWrite(w)
  PROVE  Outcome(w) /\ IInv'
<1> PICK g \in Requests : g = request[w] /\ Shape(g) /\ Facts(g)
  BY ValueTypes
<1> DEFINE n == Entry(g)
<1>1. /\ g.at = "audit" /\ Done(w) /\ UNCHANGED <<shipment, document, object, failed>>
      /\ audit' = [audit EXCEPT ![n] = @ + 1]
  BY DEF AuditWrite
<1>2. Outcome(w)
  BY <1>1, Ends DEF RowStep
<1>3. /\ n \in Entries /\ n.userId = g.user /\ n.action = g.route
      /\ n.entityId = g.shipmentId
  BY <1>1 DEF Shape, Entry
<1>4. audit' \in [Entries -> Nat] /\ \A e \in Entries \ {n} : audit'[e] = audit[e]
  BY <1>1, <1>3 DEF IInv, TypeOK
<1>5. Logged'
  <2> SUFFICES ASSUME NEW e \in Entries, audit'[e] > 0
               PROVE  /\ Known(e.userId, e.action)
                      /\ e.action = "remove" =>
                           /\ e.entityId \in Shipments
                           /\ shipment[e.entityId].isDeleted
    BY <1>1 DEF Logged
  <2>1. CASE e = n
    BY <1>1, <1>3, <2>1 DEF Shape, Facts
  <2>2. CASE e # n
    BY <1>4, <2>2 DEF IInv, Logged
  <2> QED BY <2>1, <2>2
<1> QED BY <1>1, <1>2, <1>4, <1>5, OutcomeKeeps DEF IInv, TypeOK

LEMMA FailKeeps ==
  ASSUME IInv, NEW w \in Workers, Fail(w)
  PROVE  Outcome(w) /\ IInv'
<1>1. Outcome(w)
  BY Ends DEF Fail, RowStep
<1> QED BY <1>1, NotLogging DEF Fail

LEMMA ShipmentChangesKeeps ==
  ASSUME IInv, NEW s \in Shipments, ShipmentChanges(s)
  PROVE  /\ IInv' /\ UNCHANGED <<document, object, audit, request, failed>>
         /\ \A t \in Shipments : shipment'[t].isDeleted <=> shipment[t].isDeleted
<1>1. /\ UNCHANGED <<document, object, audit, request, failed>>
      /\ shipment' = [shipment EXCEPT ![s].prints = @ + 1]
  BY DEF ShipmentChanges
<1>2. /\ shipment' \in [Shipments -> [isDeleted : BOOLEAN, prints : Nat]]
      /\ \A t \in Shipments : /\ shipment'[t].prints > 0
                              /\ shipment'[t].isDeleted <=> shipment[t].isDeleted
  BY <1>1 DEF IInv, TypeOK
<1>3. \A w \in Workers : Facts(request[w])'
  <2> SUFFICES ASSUME NEW w \in Workers PROVE Facts(request[w])'
    OBVIOUS
  <2> PICK r \in Requests : r = request[w] /\ Shape(r) /\ Facts(r)
    BY ValueTypes
  <2>1. Facts(r)'
    BY <1>1, <1>2 DEF Facts, Shape, Row, LabelsOf
  <2> QED BY <1>1, <2>1 DEF Facts
<1>4. Documented'
  BY <1>1 DEF IInv, Documented, Sound, Row
<1>5. Logged' /\ Alone'
  BY <1>1, <1>2 DEF IInv, Logged, Alone
<1> QED BY <1>1, <1>2, <1>3, <1>4, <1>5 DEF IInv, TypeOK

LEMMA ReadingKeeps ==
  ASSUME IInv, UNCHANGED docVars
  PROVE  IInv'
<1>1. UNCHANGED <<shipment, document, object, audit, request, failed>>
  BY DEF docVars
<1>2. \A w \in Workers : Facts(request[w])'
  BY <1>1 DEF IInv, Facts, Row, LabelsOf
<1>3. Documented' /\ Logged' /\ Alone'
  BY <1>1 DEF IInv, Documented, Sound, Row, Logged, Alone
<1> QED BY <1>1, <1>2, <1>3 DEF IInv, TypeOK

\* A step of a worker is an outcome, or reads only.
LEMMA ServeOutcome ==
  ASSUME IInv, NEW w \in Workers, Serve(w) \/ Fail(w)
  PROVE  /\ IInv'
         /\ \/ Outcome(w)
            \/ UNCHANGED docVars
<1>1. CASE UploadFind(w)
  BY <1>1, UploadFindOutcome, NotLogging DEF UploadFind, IInv, TypeOK
<1>2. CASE UploadPut(w)
  BY <1>2, UploadPutOutcome, NotLogging DEF UploadPut, IInv, TypeOK
<1>3. CASE UploadCreate(w)
  BY <1>3, UploadCreateOutcome, NotLogging DEF UploadCreate, IInv, TypeOK
<1>4. CASE LabelFind(w)
  BY <1>4, LabelFindOutcome, NotLogging DEF LabelFind, IInv, TypeOK
<1>5. CASE LabelPut(w)
  BY <1>5, LabelPutOutcome, NotLogging DEF LabelPut, IInv, TypeOK
<1>6. CASE LabelLookup(w)
  BY <1>6, LabelLookupOutcome, NotLogging DEF LabelLookup, IInv, TypeOK
<1>7. CASE LabelUpdate(w)
  BY <1>7, LabelUpdateOutcome, NotLogging DEF LabelUpdate, IInv, TypeOK
<1>8. CASE LabelCreate(w)
  BY <1>8, LabelCreateOutcome, NotLogging DEF LabelCreate, IInv, TypeOK
<1>9. CASE RemoveFind(w)
  BY <1>9, RemoveFindOutcome, NotLogging DEF RemoveFind, IInv, TypeOK
<1>10. CASE RemoveWrite(w)
  BY <1>10, RemoveWriteOutcome, NotLogging DEF RemoveWrite, IInv, TypeOK
<1>11. CASE OtherRoute(w)
  <2>1. UNCHANGED <<shipment, document, object, audit, failed>>
    BY <1>11 DEF OtherRoute
  <2>2. CASE Outcome(w)
    BY <2>1, <2>2, NotLogging DEF IInv, TypeOK
  <2>3. CASE UNCHANGED request
    <3>1. UNCHANGED docVars
      BY <2>1, <2>3 DEF docVars
    <3> QED BY <3>1, ReadingKeeps
  <2> QED BY <1>11, <2>2, <2>3, OtherRouteOutcome
<1>12. CASE AuditWrite(w)
  BY <1>12, AuditWriteKeeps
<1>13. CASE Fail(w)
  BY <1>13, FailKeeps
<1> QED BY <1>1, <1>2, <1>3, <1>4, <1>5, <1>6, <1>7, <1>8, <1>9, <1>10, <1>11,
           <1>12, <1>13 DEF Serve

LEMMA InitIInv == DocInit => IInv
<1> SUFFICES ASSUME DocInit PROVE IInv
  OBVIOUS
<1>1. TypeOK
  BY IdleFacts DEF DocInit, TypeOK
<1>2. \A w \in Workers : Shape(request[w]) /\ Facts(request[w])
  BY IdleFacts DEF DocInit
<1>3. Alone
  BY DocumentsAssumption DEF DocInit, Alone, Idle
<1>4. Documented
  BY DEF DocInit, Documented, Row
<1> QED BY <1>1, <1>2, <1>3, <1>4 DEF DocInit, IInv, Logged

LEMMA NextIInv ==
  ASSUME IInv, [DocNext]_docVars
  PROVE  IInv'
BY ReadingKeeps, ServeOutcome, ShipmentChangesKeeps DEF DocNext

LEMMA Inductive == DocSpec => []IInv
<1>1. DocInit => IInv
  BY InitIInv
<1>2. IInv /\ [DocNext]_docVars => IInv'
  BY NextIInv
<1> QED BY <1>1, <1>2, PTL DEF DocSpec

-------------------------------------------------------------------------------
(* What the steps leave alone *)

\* Every document names an object that exists.
LEMMA DocumentsNamed == IInv => DocumentsHaveObjects
BY ValueTypes DEF IInv, Documented, Sound, DocumentsHaveObjects, GetDocumentUrl

LEMMA WritersKnown == IInv => WritersAreAllowed
<1> SUFFICES ASSUME IInv PROVE WritersAreAllowed
  OBVIOUS
<1>1. \A x \in Ids : Row(x) => Sound(x, document[x])
  BY DEF IInv, Documented
<1>2. Logged
  BY DEF IInv
<1> QED BY <1>1, <1>2 DEF WritersAreAllowed, Sound, Logged, Known, May

\* One step keeps the uploads (UploadsKept).
LEMMA UploadsKeptStep ==
  ASSUME IInv, NEW w \in Workers, RowStep(w), NEW x \in Ids, Row(x)
  PROVE  /\ object'[x] = object[x]
         /\ \/ document'[x] = document[x]
            \/ /\ document[x].type = "LABEL"
               /\ document'[x] = [document[x] EXCEPT
                    !.fileUrl = LabelKey(document[x].shipmentId),
                    !.fileSize = document'[x].fileSize]
<1>1. /\ document \in [Ids -> Rows \cup {NoDocument}] /\ document[x] \in Rows
      /\ object \in [Keys -> Nat \cup {Null}] /\ x \in Keys
  BY ValueTypes DEF Keys
<1>2. CASE UNCHANGED <<document, object>>
  BY <1>2
<1>3. CASE Puts(w)
  BY <1>1, <1>3 DEF Puts
<1>4. CASE Creates(w)
  BY <1>1, <1>4 DEF Creates
<1>5. CASE Repoints(w)
  <2> PICK s \in Shipments, y \in Ids, n \in Nat :
        /\ UNCHANGED object
        /\ document' = [document EXCEPT ![y].fileUrl = LabelKey(s), ![y].fileSize = n]
        /\ y \in LabelsOf(s)
    <3>1. \A y \in LabelsOf(request[w].shipmentId) :
             Row(y) /\ request[w].shipmentId = document[y].shipmentId
      BY DEF LabelsOf
    <3>2. \A y \in Ids : Row(y) => document[y].shipmentId \in Shipments
      BY ValueTypes DEF Rows
    <3> QED BY <1>5, <3>1, <3>2 DEF Repoints, LabelsOf
  <2>1. CASE x # y
    BY <1>1, <2>1
  <2>2. CASE x = y
    <3>1. /\ document[x].type = "LABEL" /\ document[x].shipmentId = s
          /\ document'[x] = [document[x] EXCEPT !.fileUrl = LabelKey(s), !.fileSize = n]
      BY <1>1, <2>2 DEF LabelsOf
    <3>2. document'[x].fileSize = n
      BY <1>1, <3>1 DEF Rows
    <3> QED BY <3>1, <3>2
  <2> QED BY <2>1, <2>2
<1> QED BY <1>2, <1>3, <1>4, <1>5 DEF RowStep

\* The rows that one fileName and one shipment select, after a step.
LEMMA SameNamed ==
  ASSUME IInv, NEW w \in Workers, RowStep(w)
  PROVE  /\ request[w].at # "upload.create" =>
              \A u \in Users, s \in Shipments : Uploads(u, s)' = Uploads(u, s)
         /\ \A s \in Shipments :
              \/ request[w].at = "label.create" /\ request[w].shipmentId = s
              \/ Generated(s)' = Generated(s)
<1>1. CASE Creates(w)
  <2> PICK x \in Ids, d \in Rows :
        /\ document' = [document EXCEPT ![x] = d] /\ ~Row(x)
        /\ request[w].at = IF d.fileName = "upload" THEN "upload.create"
                                                    ELSE "label.create"
        /\ d.shipmentId = request[w].shipmentId
    BY <1>1 DEF Creates
  <2>1. /\ document'[x] = d /\ \A y \in Ids \ {x} : document'[y] = document[y]
        /\ d.fileName = "upload" <=> d.fileName # "shipment-label.pdf"
    BY ValueTypes DEF Rows
  <2> QED BY <2>1 DEF Uploads, Generated, Row
<1>2. CASE ~Creates(w)
  <2>1. \A x \in Ids : Row(x)' => Row(x)
    <3>1. CASE Repoints(w)
      <4> PICK y \in Ids, k \in Keys, n \in Nat :
            /\ y \in LabelsOf(request[w].shipmentId)
            /\ document' = [document EXCEPT ![y].fileUrl = k, ![y].fileSize = n]
        <5>1. \A y \in LabelsOf(request[w].shipmentId) :
                 LabelKey(request[w].shipmentId) \in Keys
          BY ValueTypes DEF LabelsOf, LabelKey, Keys, Rows
        <5> QED BY <3>1, <5>1 DEF Repoints
      <4> QED BY ValueTypes DEF Row, LabelsOf
    <3> QED BY <1>2, <3>1 DEF RowStep, Puts, Row
  <2> QED BY <2>1, RowStepKeeps DEF Uploads, Generated
<1> QED BY <1>1, <1>2

-------------------------------------------------------------------------------
(* Counting uploads: created = logged + about to be logged, failures apart *)

Tally(u, s) ==
  LET created == Cardinality(Uploads(u, s))
      toLog   == Cardinality(UploadsToLog(u, s)) IN
  /\ UploadsLogged(u, s) + toLog <= created
  /\ ~failed => UploadsLogged(u, s) + toLog >= created

UploadEntry(u, s) == [userId |-> u, action |-> "uploadDocument", entityId |-> s]

\* Steps other than those that log or fail, or create an upload.
Quiet(w) ==
  \/ UploadFind(w) \/ UploadPut(w)
  \/ LabelFind(w) \/ LabelPut(w) \/ LabelLookup(w)
  \/ LabelUpdate(w) \/ LabelCreate(w)
  \/ RemoveFind(w) \/ RemoveWrite(w) \/ OtherRoute(w)

LEMMA QuietSteps ==
  ASSUME IInv, NEW w \in Workers, Quiet(w)
  PROVE  /\ request[w].at \notin {"audit", "upload.create"}
         /\ ~(request'[w].at = "audit" /\ request'[w].route = "uploadDocument")
         /\ \A v \in Workers \ {w} : request'[v] = request[v]
         /\ UNCHANGED <<audit, failed>>
<1>1. request \in [Workers -> Requests]
  BY DEF IInv, TypeOK
<1>2. \A h : Continue(w, h) => /\ request'[w] = h
                               /\ \A v \in Workers \ {w} : request'[v] = request[v]
  BY <1>1 DEF Continue
<1>3. \A r \in Endpoints, u \in Callers : Accepted(r, u) \in Requests
  BY AcceptedRequest
<1>4. PICK g \in Requests : g = request[w]
  BY <1>1
<1>5. CASE UploadFind(w)
  <2> PICK u \in Callers, s \in Shipments, t \in DocumentTypes \cup {"unknown"} :
        /\ "uploadDocument" \in Endpoints /\ request[w].at = "idle"
        /\ Continue(w, [Accepted("uploadDocument", u) EXCEPT !.at = "upload.put",
                          !.shipmentId = s, !.id = NewId, !.type = t])
    BY <1>5 DEF UploadFind, Accepts
  <2> PICK a \in Requests : a = Accepted("uploadDocument", u)
    BY <1>3
  <2>1. [a EXCEPT !.at = "upload.put", !.shipmentId = s, !.id = NewId,
                  !.type = t].at = "upload.put"
    BY DEF Requests
  <2> QED BY <1>2, <1>5, <2>1 DEF UploadFind
<1>6. CASE UploadPut(w)
  <2>1. [g EXCEPT !.at = "upload.create"].at = "upload.create"
    BY DEF Requests
  <2> QED BY <1>2, <1>4, <1>6, <2>1 DEF UploadPut
<1>7. CASE LabelFind(w)
  <2> PICK u \in Callers, s \in Shipments :
        /\ "getLabel" \in Endpoints /\ request[w].at = "idle"
        /\ LET h == [Accepted("getLabel", u) EXCEPT !.at = "label.put",
                       !.shipmentId = s, !.print = shipment[s].prints] IN
           Continue(w, [h EXCEPT !.id = NewId]) \/ Continue(w, h)
    BY <1>7 DEF LabelFind, Accepts
  <2> PICK a \in Requests : a = Accepted("getLabel", u)
    BY <1>3
  <2>1. LET h == [a EXCEPT !.at = "label.put", !.shipmentId = s,
                           !.print = shipment[s].prints] IN
        h.at = "label.put" /\ [h EXCEPT !.id = NewId].at = "label.put"
    BY DEF Requests
  <2> QED BY <1>2, <1>7, <2>1 DEF LabelFind
<1>8. CASE LabelPut(w)
  <2>1. [g EXCEPT !.at = "label.find"].at = "label.find"
    BY DEF Requests
  <2> QED BY <1>2, <1>4, <1>8, <2>1 DEF LabelPut
<1>9. CASE LabelLookup(w)
  <2>1. /\ \A x : [g EXCEPT !.at = "label.update", !.found = x].at = "label.update"
        /\ [g EXCEPT !.at = "label.create"].at = "label.create"
    BY DEF Requests
  <2>2. /\ g.at = "label.find" /\ UNCHANGED <<audit, failed>>
        /\ \/ \E x : Continue(w, [g EXCEPT !.at = "label.update", !.found = x])
           \/ Continue(w, [g EXCEPT !.at = "label.create"])
    BY <1>4, <1>9 DEF LabelLookup
  <2>3. CASE \E x : Continue(w, [g EXCEPT !.at = "label.update", !.found = x])
    <3> PICK x : Continue(w, [g EXCEPT !.at = "label.update", !.found = x])
      BY <2>3
    <3>1. [g EXCEPT !.at = "label.update", !.found = x].at = "label.update"
      BY <2>1
    <3> QED BY <1>2, <1>4, <2>2, <3>1
  <2>4. CASE Continue(w, [g EXCEPT !.at = "label.create"])
    BY <1>2, <1>4, <2>1, <2>2, <2>4
  <2> QED BY <2>2, <2>3, <2>4
<1>10. CASE LabelUpdate(w) \/ LabelCreate(w)
  BY <1>2, <1>10 DEF LabelUpdate, LabelCreate, Done, Idle
<1>11. CASE RemoveFind(w)
  <2> PICK u \in Callers, s \in Shipments :
        /\ "remove" \in Endpoints /\ request[w].at = "idle"
        /\ Continue(w, [Accepted("remove", u) EXCEPT !.at = "remove.write",
                                                     !.shipmentId = s])
    BY <1>11 DEF RemoveFind, Accepts
  <2> PICK a \in Requests : a = Accepted("remove", u)
    BY <1>3
  <2>1. [a EXCEPT !.at = "remove.write", !.shipmentId = s].at = "remove.write"
    BY DEF Requests
  <2> QED BY <1>2, <1>11, <2>1 DEF RemoveFind
<1>12. CASE RemoveWrite(w)
  <2>1. /\ g.at = "remove.write" /\ g.route = "remove" /\ UNCHANGED <<audit, failed>>
        /\ Continue(w, [g EXCEPT !.at = "audit"])
    BY <1>4, <1>12, RouteFacts, ValueTypes DEF RemoveWrite, Shape, Answer
  <2>2. [g EXCEPT !.at = "audit"].route = "remove"
    BY <2>1 DEF Requests
  <2> QED BY <1>2, <1>4, <2>1, <2>2
<1>13. CASE OtherRoute(w)
  <2>1. request[w].at = "idle" /\ UNCHANGED <<audit, failed>>
    BY <1>13 DEF OtherRoute, Accepts
  <2>2. CASE UNCHANGED request
    BY <2>1, <2>2
  <2>3. CASE Outcome(w) /\ request'[w].route # "uploadDocument"
    BY <1>2, <2>1, <2>3 DEF Outcome
  <2> QED BY <1>13, <2>2, <2>3, OtherRouteOutcome
<1> QED BY <1>5, <1>6, <1>7, <1>8, <1>9, <1>10, <1>11, <1>12, <1>13 DEF Quiet

LEMMA Finite ==
  ASSUME NEW u, NEW s
  PROVE  /\ IsFiniteSet(Uploads(u, s)) /\ IsFiniteSet(UploadsToLog(u, s))
         /\ Cardinality(Uploads(u, s)) \in Nat
         /\ Cardinality(UploadsToLog(u, s)) \in Nat
<1>1. Uploads(u, s) \subseteq Ids /\ UploadsToLog(u, s) \subseteq Workers
  BY DEF Uploads, UploadsToLog
<1>2. IsFiniteSet(Uploads(u, s)) /\ IsFiniteSet(UploadsToLog(u, s))
  BY <1>1, DocumentsAssumption, FS_Subset
<1> QED BY <1>2, FS_CardinalityType

LEMMA LoggedType ==
  ASSUME TypeOK, NEW u, NEW s
  PROVE  UploadsLogged(u, s) \in Nat
BY DEF TypeOK, UploadsLogged

LEMMA QuietTally ==
  ASSUME IInv, NEW w \in Workers, Quiet(w), NEW u \in Users, NEW s \in Shipments
  PROVE  /\ UploadsLogged(u, s)' = UploadsLogged(u, s)
         /\ UploadsToLog(u, s)' = UploadsToLog(u, s)
         /\ Uploads(u, s)' = Uploads(u, s) /\ failed' = failed
<1>1. UploadsLogged(u, s)' = UploadsLogged(u, s) /\ failed' = failed
  BY QuietSteps DEF UploadsLogged
<1>2. UploadsToLog(u, s)' = UploadsToLog(u, s)
  BY QuietSteps DEF UploadsToLog
<1>3. Uploads(u, s)' = Uploads(u, s)
  <2>1. CASE Outcome(w)
    BY <2>1, QuietSteps, SameNamed DEF Outcome
  <2>2. CASE UNCHANGED docVars
    BY <2>2 DEF docVars, Uploads, Row
  <2> QED BY <2>1, <2>2, ServeOutcome DEF Quiet, Serve
<1> QED BY <1>1, <1>2, <1>3

LEMMA CreateTally ==
  ASSUME IInv, NEW w \in Workers, UploadCreate(w),
         NEW u \in Users, NEW s \in Shipments, Tally(u, s)
  PROVE  Tally(u, s)'
<1> PICK g \in Requests : g = request[w]
  BY ValueTypes
<1>1. /\ UploadsLogged(u, s)' = UploadsLogged(u, s) /\ failed' = failed
      /\ g.at = "upload.create"
  BY DEF UploadCreate, UploadsLogged
<1>2. request \in [Workers -> Requests] /\ document \in [Ids -> Rows \cup {NoDocument}]
  BY DEF IInv, TypeOK
<1>3. CASE UNCHANGED document /\ Done(w)
  <2>1. UploadsToLog(u, s)' = UploadsToLog(u, s)
    BY <1>1, <1>2, <1>3 DEF UploadsToLog, Done, Continue, Idle
  <2>2. Uploads(u, s)' = Uploads(u, s)
    BY <1>3 DEF Uploads, Row
  <2> QED BY <1>1, <2>1, <2>2 DEF Tally
<1>4. CASE /\ document' = [document EXCEPT ![g.id] = UploadedRow(g)]
           /\ Continue(w, [g EXCEPT !.at = "audit"])
           /\ g.id \in Ids /\ ~Row(g.id) /\ UploadedRow(g) \in Rows
           /\ g.route = "uploadDocument"
  <2> PICK h \in Requests : h = [g EXCEPT !.at = "audit"]
    BY DEF Requests, Stages
  <2>1. /\ h.at = "audit" /\ h.user = g.user /\ h.route = "uploadDocument"
        /\ h.shipmentId = g.shipmentId
    BY <1>4 DEF Requests
  <2>2. /\ request'[w] = h
        /\ \A v \in Workers \ {w} : request'[v] = request[v]
    BY <1>2, <1>4 DEF Continue
  <2>3. /\ document'[g.id] = UploadedRow(g)
        /\ \A y \in Ids \ {g.id} : document'[y] = document[y]
    BY <1>2, <1>4
  <2>4. /\ UploadedRow(g).shipmentId = g.shipmentId
        /\ UploadedRow(g).uploadedBy = g.user
        /\ UploadedRow(g).fileName = "upload" /\ UploadedRow(g) # NoDocument
    BY <1>4, ValueTypes DEF UploadedRow
  <2>5. CASE g.user = u /\ g.shipmentId = s
    <3>1. /\ UploadsToLog(u, s)' = UploadsToLog(u, s) \cup {w}
          /\ w \notin UploadsToLog(u, s)
      <4>1. /\ request'[w].at = "audit" /\ request'[w].route = "uploadDocument"
            /\ request'[w].user = u /\ request'[w].shipmentId = s
            /\ request[w].at # "audit"
        BY <1>1, <2>1, <2>2, <2>5
      <4> QED BY <2>2, <4>1 DEF UploadsToLog
    <3>2. /\ Uploads(u, s)' = Uploads(u, s) \cup {g.id} /\ g.id \notin Uploads(u, s)
      BY <1>4, <2>3, <2>4, <2>5 DEF Uploads, Row
    <3>3. /\ Cardinality(UploadsToLog(u, s)') = Cardinality(UploadsToLog(u, s)) + 1
          /\ Cardinality(Uploads(u, s)') = Cardinality(Uploads(u, s)) + 1
      BY <3>1, <3>2, Finite, FS_AddElement
    <3>4. UploadsLogged(u, s) \in Nat
      BY LoggedType DEF IInv
    <3> QED BY <1>1, <3>3, <3>4, Finite DEF Tally
  <2>6. CASE ~(g.user = u /\ g.shipmentId = s)
    <3>1. UploadsToLog(u, s)' = UploadsToLog(u, s)
      <4>1. /\ request[w].at # "audit"
            /\ request'[w].user # u \/ request'[w].shipmentId # s
        BY <1>1, <2>1, <2>2, <2>6
      <4>2. w \notin UploadsToLog(u, s) /\ w \notin UploadsToLog(u, s)'
        BY <4>1 DEF UploadsToLog
      <4>3. \A v \in Workers \ {w} :
              v \in UploadsToLog(u, s)' <=> v \in UploadsToLog(u, s)
        BY <2>2 DEF UploadsToLog
      <4> QED BY <4>2, <4>3 DEF UploadsToLog
    <3>2. Uploads(u, s)' = Uploads(u, s)
      BY <1>4, <2>3, <2>4, <2>6 DEF Uploads, Row
    <3> QED BY <1>1, <3>1, <3>2 DEF Tally
  <2> QED BY <2>5, <2>6
<1> QED BY <1>3, <1>4, UploadCreateOutcome

LEMMA AuditTally ==
  ASSUME IInv, NEW w \in Workers, AuditWrite(w),
         NEW u \in Users, NEW s \in Shipments, Tally(u, s)
  PROVE  Tally(u, s)'
<1> PICK g \in Requests : g = request[w] /\ Shape(g)
  BY ValueTypes
<1>1. /\ g.at = "audit" /\ Entry(g) \in Entries /\ UNCHANGED <<document, failed>>
      /\ audit' = [audit EXCEPT ![Entry(g)] = @ + 1] /\ Done(w)
  BY DEF AuditWrite, Shape
<1>2. request \in [Workers -> Requests] /\ audit \in [Entries -> Nat]
  BY DEF IInv, TypeOK
<1>3. request'[w] = Idle /\ \A v \in Workers \ {w} : request'[v] = request[v]
  BY <1>1, <1>2 DEF Done, Continue
<1>4. Uploads(u, s)' = Uploads(u, s)
  BY <1>1 DEF Uploads, Row
<1>5. UploadsLogged(u, s) \in Nat
  BY LoggedType DEF IInv
<1>6. CASE Entry(g) = UploadEntry(u, s)
  <2>1. g.user = u /\ g.route = "uploadDocument" /\ g.shipmentId = s
    BY <1>6 DEF Entry, UploadEntry
  <2>2. UploadsToLog(u, s)' = UploadsToLog(u, s) \ {w} /\ w \in UploadsToLog(u, s)
    BY <1>1, <1>3, <2>1 DEF UploadsToLog, Idle
  <2>3. Cardinality(UploadsToLog(u, s)') = Cardinality(UploadsToLog(u, s)) - 1
    BY <2>2, Finite, FS_RemoveElement
  <2>4. UploadsLogged(u, s)' = UploadsLogged(u, s) + 1
    BY <1>1, <1>2, <1>6 DEF UploadsLogged, UploadEntry
  <2> QED BY <1>1, <1>4, <1>5, <2>3, <2>4, Finite DEF Tally
<1>7. CASE Entry(g) # UploadEntry(u, s)
  <2>1. ~(g.user = u /\ g.route = "uploadDocument" /\ g.shipmentId = s)
    BY <1>7 DEF Entry, UploadEntry
  <2>2. UploadsToLog(u, s)' = UploadsToLog(u, s)
    BY <1>1, <1>3, <2>1 DEF UploadsToLog, Idle
  <2>3. UploadsLogged(u, s)' = UploadsLogged(u, s)
    BY <1>1, <1>2, <1>7 DEF UploadsLogged, UploadEntry
  <2> QED BY <1>1, <1>4, <2>2, <2>3 DEF Tally
<1> QED BY <1>6, <1>7

LEMMA FailTally ==
  ASSUME IInv, NEW w \in Workers, Fail(w),
         NEW u \in Users, NEW s \in Shipments, Tally(u, s)
  PROVE  Tally(u, s)'
<1>1. /\ UNCHANGED <<document, audit>> /\ failed' = TRUE /\ Done(w)
      /\ request \in [Workers -> Requests]
  BY DEF Fail, IInv, TypeOK
<1>2. request'[w] = Idle /\ \A v \in Workers \ {w} : request'[v] = request[v]
  BY <1>1 DEF Done, Continue
<1>3. UploadsToLog(u, s)' \subseteq UploadsToLog(u, s)
  BY <1>2 DEF UploadsToLog, Idle
<1>4. /\ Cardinality(UploadsToLog(u, s)') <= Cardinality(UploadsToLog(u, s))
      /\ Cardinality(UploadsToLog(u, s)') \in Nat
  BY <1>3, Finite, FS_Subset, FS_CardinalityType
<1>5. /\ UploadsLogged(u, s)' = UploadsLogged(u, s)
      /\ Uploads(u, s)' = Uploads(u, s)
  BY <1>1 DEF UploadsLogged, Uploads, Row
<1>6. UploadsLogged(u, s) \in Nat
  BY LoggedType DEF IInv
<1> QED BY <1>1, <1>4, <1>5, <1>6, Finite DEF Tally

Tallied == IInv /\ \A u \in Users, s \in Shipments : Tally(u, s)

LEMMA InitTallied == DocInit => Tallied
<1> SUFFICES ASSUME DocInit, NEW u \in Users, NEW s \in Shipments PROVE Tally(u, s)
  BY InitIInv DEF Tallied
<1>1. Uploads(u, s) = {} /\ UploadsToLog(u, s) = {}
  BY DEF DocInit, Uploads, Row, UploadsToLog, Idle
<1>2. UploadsLogged(u, s) = 0
  BY DEF DocInit, UploadsLogged
<1> QED BY <1>1, <1>2, FS_EmptySet DEF Tally

LEMMA NextTallied ==
  ASSUME Tallied, [DocNext]_docVars
  PROVE  Tallied'
<1>1. IInv /\ IInv'
  BY NextIInv DEF Tallied
<1> SUFFICES ASSUME NEW u \in Users, NEW s \in Shipments PROVE Tally(u, s)'
  BY <1>1 DEF Tallied
<1>2. Tally(u, s)
  BY DEF Tallied
<1>3. CASE UNCHANGED <<document, audit, request, failed>>
  BY <1>2, <1>3 DEF Tally, Uploads, UploadsToLog, UploadsLogged, Row
<1>4. CASE UNCHANGED docVars
  BY <1>3, <1>4 DEF docVars
<1>5. CASE \E t \in Shipments : ShipmentChanges(t)
  BY <1>3, <1>5 DEF ShipmentChanges
<1>6. ASSUME NEW w \in Workers, Quiet(w) PROVE Tally(u, s)'
  BY <1>1, <1>2, <1>6, QuietTally DEF Tally
<1>7. ASSUME NEW w \in Workers, UploadCreate(w) PROVE Tally(u, s)'
  BY <1>1, <1>2, <1>7, CreateTally
<1>8. ASSUME NEW w \in Workers, AuditWrite(w) PROVE Tally(u, s)'
  BY <1>1, <1>2, <1>8, AuditTally
<1>9. ASSUME NEW w \in Workers, Fail(w) PROVE Tally(u, s)'
  BY <1>1, <1>2, <1>9, FailTally
<1> QED BY <1>4, <1>5, <1>6, <1>7, <1>8, <1>9 DEF DocNext, Serve, Quiet

LEMMA AllTallied == DocSpec => []Tallied
<1>1. DocInit => Tallied
  BY InitTallied
<1>2. Tallied /\ [DocNext]_docVars => Tallied'
  BY NextTallied
<1> QED BY <1>1, <1>2, PTL DEF DocSpec

-------------------------------------------------------------------------------
(* A stored label has a document, or a task that will see to one *)

Findable(s) == object[LabelKey(s)] # Null => Recorded(s) \/ Recording(s)

LEMMA RecordedStays ==
  ASSUME IInv, NEW w \in Workers, RowStep(w), NEW s \in Shipments, Recorded(s)
  PROVE  Recorded(s)'
<1> PICK x \in LabelsOf(s) : document[x].fileUrl = LabelKey(s)
  BY DEF Recorded
<1>1. x \in Ids /\ Row(x) /\ document[x] \in Rows /\ document[x].shipmentId = s
  BY ValueTypes DEF LabelsOf
<1>2. x \in LabelsOf(s)'
  BY LabelsGrow
<1>3. CASE document'[x] = document[x]
  BY <1>2, <1>3 DEF Recorded, LabelKey
<1>4. CASE document'[x] = [document[x] EXCEPT
                !.fileUrl = LabelKey(document[x].shipmentId),
                !.fileSize = document'[x].fileSize]
  <2>1. document'[x].fileUrl = LabelKey(s)
    BY <1>1, <1>4 DEF Rows
  <2> QED BY <1>2, <2>1 DEF Recorded, LabelKey
<1> QED BY <1>1, <1>3, <1>4, UploadsKeptStep

\* A task that goes on, and every other request, stays what it was to the label.
LEMMA FindableStays ==
  ASSUME IInv, NEW w \in Workers, Outcome(w), NEW s \in Shipments, Findable(s),
         object'[LabelKey(s)] = object[LabelKey(s)],
         \/ request[w].at \notin {"label.find", "label.update", "label.create"}
         \/ request[w].shipmentId # s
         \/ /\ request'[w].at \in {"label.update", "label.create"}
            /\ request'[w].shipmentId = s
  PROVE  Findable(s)'
<1> SUFFICES ASSUME object[LabelKey(s)] # Null, ~Recorded(s)'
             PROVE  Recording(s)'
  BY DEF Findable, LabelKey
<1>1. \A v \in Workers \ {w} : request'[v] = request[v]
  BY DEF Outcome, Continue, IInv, TypeOK
<1>2. ~Recorded(s)
  BY RecordedStays DEF Outcome
<1>3. PICK v \in Workers :
        /\ request[v].at \in {"label.find", "label.update", "label.create"}
        /\ request[v].shipmentId = s
  BY <1>2 DEF Findable, Recording
<1> QED BY <1>1, <1>3 DEF Recording

LEMMA LabelPutFindable ==
  ASSUME IInv, NEW w \in Workers, LabelPut(w), NEW s \in Shipments, Findable(s)
  PROVE  Findable(s)'
<1> PICK g \in Requests : g = request[w] /\ Shape(g)
  BY ValueTypes
<1>1. /\ g.at = "label.put" /\ g.shipmentId \in Shipments
      /\ request'[w] = [g EXCEPT !.at = "label.find"]
      /\ object' = [object EXCEPT ![LabelKey(g.shipmentId)] = g.print]
  BY DEF LabelPut, Shape, LabelStages, Continue, IInv, TypeOK
<1>2. CASE g.shipmentId = s
  <2>1. request'[w].at = "label.find" /\ request'[w].shipmentId = s
    BY <1>1, <1>2 DEF Requests
  <2> QED BY <2>1 DEF Findable, Recording
<1>3. CASE g.shipmentId # s
  <2>1. object'[LabelKey(s)] = object[LabelKey(s)]
    BY <1>1, <1>3, ValueTypes DEF LabelKey
  <2> QED BY <1>3, <2>1, LabelPutOutcome, FindableStays
<1> QED BY <1>2, <1>3

LEMMA LabelLookupFindable ==
  ASSUME IInv, NEW w \in Workers, LabelLookup(w), NEW s \in Shipments, Findable(s)
  PROVE  Findable(s)'
<1> PICK g \in Requests : g = request[w]
  BY ValueTypes
<1>1. /\ request'[w].at \in {"label.update", "label.create"}
      /\ request'[w].shipmentId = g.shipmentId
  <2>1. CASE \E x \in LabelsOf(g.shipmentId) :
               Continue(w, [g EXCEPT !.at = "label.update", !.found = x])
    BY <2>1 DEF Continue, IInv, TypeOK, Requests
  <2>2. CASE Continue(w, [g EXCEPT !.at = "label.create"])
    BY <2>2 DEF Continue, IInv, TypeOK, Requests
  <2> QED BY <2>1, <2>2 DEF LabelLookup
<1>2. object'[LabelKey(s)] = object[LabelKey(s)]
  BY DEF LabelLookup
<1> QED BY <1>1, <1>2, LabelLookupOutcome, FindableStays

LEMMA LabelUpdateFindable ==
  ASSUME IInv, NEW w \in Workers, LabelUpdate(w), NEW s \in Shipments, Findable(s)
  PROVE  Findable(s)'
<1> PICK g \in Requests : g = request[w] /\ Shape(g) /\ Facts(g)
  BY ValueTypes
<1> PICK x \in Ids : x = g.found
  BY DEF LabelUpdate, Shape
<1>1. /\ g.at = "label.update" /\ x \in LabelsOf(g.shipmentId) /\ UNCHANGED object
      /\ document' = [document EXCEPT ![x].fileUrl = LabelKey(g.shipmentId),
                                      ![x].fileSize = g.print]
  BY DEF LabelUpdate, Facts
<1>2. Outcome(w) /\ RowStep(w)
  BY LabelUpdateOutcome DEF Outcome
<1>3. CASE g.shipmentId = s
  <2>1. x \in LabelsOf(s)'
    BY <1>1, <1>2, <1>3, LabelsGrow
  <2>2. document'[x].fileUrl = LabelKey(s)
    <3>1. document[x] \in Rows
      BY <1>1, ValueTypes DEF LabelsOf
    <3> QED BY <1>1, <1>3, <3>1, ValueTypes DEF Rows
  <2> QED BY <2>1, <2>2 DEF Findable, Recorded, LabelKey
<1>4. CASE g.shipmentId # s
  BY <1>1, <1>2, <1>4, FindableStays
<1> QED BY <1>3, <1>4

LEMMA LabelCreateFindable ==
  ASSUME IInv, NEW w \in Workers, LabelCreate(w), NEW s \in Shipments, Findable(s)
  PROVE  Findable(s)'
<1> PICK g \in Requests : g = request[w] /\ Shape(g)
  BY ValueTypes
<1> DEFINE d == [shipmentId |-> g.shipmentId, type |-> "LABEL",
                 fileName |-> "shipment-label.pdf", fileUrl |-> LabelKey(g.shipmentId),
                 fileSize |-> g.print, uploadedBy |-> g.user]
<1>1. /\ g.at = "label.create" /\ g.id \in Ids /\ UNCHANGED object
      /\ document' = [document EXCEPT ![g.id] = d]
  BY DEF LabelCreate, Shape
<1>2. CASE g.shipmentId = s
  <2>1. document'[g.id] = d
    BY <1>1, ValueTypes
  <2>2. d # NoDocument
    <3>1. d.shipmentId = s /\ NoDocument.shipmentId = Null
      BY <1>2 DEF NoDocument
    <3> QED BY <3>1, DocumentsAssumption
  <2>3. g.id \in LabelsOf(s)'
    BY <1>1, <1>2, <2>1, <2>2 DEF LabelsOf, Row
  <2> QED BY <1>2, <2>1, <2>3 DEF Findable, Recorded, LabelKey
<1>3. CASE g.shipmentId # s
  BY <1>1, <1>3, LabelCreateOutcome, FindableStays
<1> QED BY <1>2, <1>3

LEMMA ServeFindable ==
  ASSUME IInv, NEW w \in Workers, Serve(w), NEW s \in Shipments, Findable(s)
  PROVE  Findable(s)'
<1>1. CASE LabelPut(w) \/ LabelLookup(w) \/ LabelUpdate(w) \/ LabelCreate(w)
  BY <1>1, LabelPutFindable, LabelLookupFindable, LabelUpdateFindable,
     LabelCreateFindable
<1>2. CASE UploadPut(w)
  <2> PICK x \in Ids : x = request[w].id
    BY <1>2, ValueTypes DEF UploadPut, Shape, UploadStages
  <2>1. /\ object' = [object EXCEPT ![x] = UploadSize]
        /\ request[w].at = "upload.put"
    BY <1>2 DEF UploadPut
  <2>2. object'[LabelKey(s)] = object[LabelKey(s)]
    BY <2>1, ValueTypes, DocumentsAssumption DEF LabelKey
  <2> QED BY <1>2, <2>1, <2>2, UploadPutOutcome, FindableStays
<1>3. CASE UploadFind(w) \/ LabelFind(w) \/ RemoveFind(w) \/ OtherRoute(w)
  <2>1. UNCHANGED object /\ request[w].at = "idle"
    BY <1>3 DEF UploadFind, LabelFind, RemoveFind, OtherRoute, Accepts
  <2>2. CASE Outcome(w)
    BY <2>1, <2>2, FindableStays
  <2>3. CASE UNCHANGED docVars
    BY <2>3 DEF docVars, Findable, Recorded, Recording, LabelsOf, Row
  <2> QED BY <2>2, <2>3, ServeOutcome
<1>4. CASE UploadCreate(w) \/ RemoveWrite(w) \/ AuditWrite(w)
  <2>1. /\ UNCHANGED object
        /\ request[w].at \in {"upload.create", "remove.write", "audit"}
    BY <1>4 DEF UploadCreate, RemoveWrite, AuditWrite
  <2> QED BY <1>4, <2>1, UploadCreateOutcome, RemoveWriteOutcome, AuditWriteKeeps,
             FindableStays
<1> QED BY <1>1, <1>2, <1>3, <1>4 DEF Serve

LEMMA NextFindable ==
  ASSUME IInv, StoredLabelsRecorded, [DocNext]_docVars
  PROVE  StoredLabelsRecorded'
<1> SUFFICES ASSUME ~failed', NEW s \in Shipments
             PROVE  Findable(s)'
  BY DEF StoredLabelsRecorded, Findable
<1>1. CASE UNCHANGED docVars
  BY <1>1 DEF docVars, StoredLabelsRecorded, Findable, Recorded, Recording,
              LabelsOf, Row
<1>2. ASSUME NEW t \in Shipments, ShipmentChanges(t) PROVE Findable(s)'
  <2>1. UNCHANGED <<document, object, request, failed>>
    BY <1>2 DEF ShipmentChanges
  <2> QED BY <2>1 DEF StoredLabelsRecorded, Findable, Recorded, Recording,
                      LabelsOf, Row
<1>3. ASSUME NEW w \in Workers, Serve(w) PROVE Findable(s)'
  <2>1. failed' = failed
    BY <1>3 DEF Serve, UploadFind, UploadPut, UploadCreate, LabelFind, LabelPut,
                LabelLookup, LabelUpdate, LabelCreate, RemoveFind, RemoveWrite,
                OtherRoute, AuditWrite
  <2> QED BY <1>3, <2>1, ServeFindable DEF StoredLabelsRecorded, Findable
<1>4. ASSUME NEW w \in Workers, Fail(w) PROVE FALSE
  BY <1>4 DEF Fail
<1> QED BY <1>1, <1>2, <1>3, <1>4 DEF DocNext

-------------------------------------------------------------------------------
(* Theorems *)

\* The variables keep their types (the rows as schema.prisma declares them, the
\* local variables of the handlers).
THEOREM DocTypeCorrect == DocSpec => []TypeOK
<1>1. IInv => TypeOK
  BY DEF IInv
<1> QED BY <1>1, Inductive, PTL

\* A document never names an object that is not there (getDocumentUrl).
THEOREM DocumentsCorrect == DocSpec => []DocumentsHaveObjects
BY DocumentsNamed, Inductive, PTL

\* The authors of documents and the users of audit rows hold the permissions
\* of the routes that led there, whatever the roles and the routes
\* (PermissionsGuard, storeLabelAsync, AuditLogInterceptor).
THEOREM WritersCorrect == DocSpec => []WritersAreAllowed
BY WritersKnown, Inductive, PTL

\* The audit log reports only what happened (AuditLogInterceptor).
THEOREM AuditCorrect == DocSpec => []AuditTruthful
<1>1. Tallied => AuditTruthful
  <2> SUFFICES ASSUME Tallied PROVE AuditTruthful
    OBVIOUS
  <2>1. Logged /\ \A u \in Users, s \in Shipments : Tally(u, s)
    BY DEF Tallied, IInv
  <2> QED BY <2>1 DEF AuditTruthful, Tally, Logged
<1> QED BY <1>1, AllTallied, PTL

\* Unless a call fails, the audit log misses no upload (AuditLogInterceptor).
THEOREM AuditComplete == DocSpec => []UploadsAudited
<1>1. Tallied => UploadsAudited
  BY DEF Tallied, Tally, UploadsAudited
<1> QED BY <1>1, AllTallied, PTL

\* The label task takes over label documents, and nothing else happens to an
\* upload or its object (storeLabelAsync).
THEOREM UploadsStay == DocSpec => UploadsKept
<1> DEFINE Kept ==
      \A x \in Ids : Row(x) =>
        /\ object'[x] = object[x]
        /\ \/ document'[x] = document[x]
           \/ /\ document[x].type = "LABEL"
              /\ document'[x] = [document[x] EXCEPT
                   !.fileUrl = LabelKey(document[x].shipmentId),
                   !.fileSize = document'[x].fileSize]
<1>1. IInv /\ [DocNext]_docVars => [Kept]_docVars
  <2> SUFFICES ASSUME IInv, DocNext PROVE Kept \/ UNCHANGED docVars
    BY DEF Kept
  <2>1. ASSUME NEW w \in Workers, Serve(w) \/ Fail(w) PROVE Kept \/ UNCHANGED docVars
    BY <2>1, ServeOutcome, UploadsKeptStep DEF Outcome
  <2>2. ASSUME NEW s \in Shipments, ShipmentChanges(s) PROVE Kept
    BY <2>2, ShipmentChangesKeeps
  <2> QED BY <2>1, <2>2 DEF DocNext
<1> QED BY <1>1, Inductive, PTL DEF DocSpec, UploadsKept

\* A shipment that has a label, and no task about to create one, gets no
\* second one (storeLabelAsync: "update or create").
THEOREM OneLabelCorrect == DocSpec => OneLabelIsEnough
<1> DEFINE Enough ==
      \A s \in Shipments : Labelled(s) => Labelled(s)' /\ Generated(s)' = Generated(s)
<1>1. IInv /\ [DocNext]_docVars => [Enough]_docVars
  <2> SUFFICES ASSUME IInv, DocNext, ~UNCHANGED docVars,
                      NEW s \in Shipments, Labelled(s)
               PROVE  Labelled(s)' /\ Generated(s)' = Generated(s)
    OBVIOUS
  <2>1. ASSUME NEW w \in Workers, Outcome(w)
        PROVE  Labelled(s)' /\ Generated(s)' = Generated(s)
    <3>1. RowStep(w) /\ Generated(s)' = Generated(s)
      BY <2>1, SameNamed DEF Outcome, Labelled
    <3>2. LabelsOf(s)' # {}
      BY <3>1, LabelsGrow DEF Labelled
    <3>3. ASSUME NEW v \in Workers, request'[v].at = "label.create"
          PROVE  request'[v].shipmentId # s
      <4> PICK h \in Requests : Continue(w, h) /\ Origin(w, h)
        BY <2>1 DEF Outcome
      <4>1. /\ request'[w] = h /\ \A t \in Workers \ {w} : request'[t] = request[t]
        BY DEF Continue, IInv, TypeOK
      <4>2. h.at = "label.create" => h.shipmentId # s
        BY DEF Origin, Labelled
      <4> QED BY <3>3, <4>1, <4>2 DEF Labelled
    <3> QED BY <3>1, <3>2, <3>3 DEF Labelled
  <2>2. ASSUME NEW t \in Shipments, ShipmentChanges(t)
        PROVE  Labelled(s)' /\ Generated(s)' = Generated(s)
    <3>1. UNCHANGED <<document, request>>
      BY <2>2 DEF ShipmentChanges
    <3> QED BY <3>1 DEF Labelled, LabelsOf, Generated, Row
  <2> QED BY <2>1, <2>2, ServeOutcome DEF DocNext
<1> QED BY <1>1, Inductive, PTL DEF DocSpec, OneLabelIsEnough

\* As long as no call fails, a stored label has a document that leads to it, or
\* a task that will see to one (storeLabelAsync).
THEOREM StoredLabelsCorrect == DocSpec => []StoredLabelsRecorded
<1>1. DocInit => StoredLabelsRecorded
  BY DEF DocInit, StoredLabelsRecorded, LabelKey, Keys
<1>2. IInv /\ StoredLabelsRecorded /\ [DocNext]_docVars => StoredLabelsRecorded'
  BY NextFindable
<1> QED BY <1>1, <1>2, Inductive, PTL DEF DocSpec

\* The documents of a deleted shipment become final (softDelete).
THEOREM DeletedSettle == DocSpec => DeletedDocumentsSettle
<1> DEFINE Final ==
      \A s \in Shipments : Settled(s) =>
        /\ Settled(s)'
        /\ object'[LabelKey(s)] = object[LabelKey(s)]
        /\ \A x \in Ids :
             document'[x] # document[x] => s \notin {document[x].shipmentId,
                                                     document'[x].shipmentId}
<1>1. IInv /\ [DocNext]_docVars => [Final]_docVars
  <2> SUFFICES ASSUME IInv, DocNext, ~UNCHANGED docVars,
                      NEW s \in Shipments, Settled(s)
               PROVE  /\ Settled(s)'
                      /\ object'[LabelKey(s)] = object[LabelKey(s)]
                      /\ \A x \in Ids : document'[x] # document[x] =>
                           s \notin {document[x].shipmentId, document'[x].shipmentId}
    OBVIOUS
  <2>1. ASSUME NEW w \in Workers, Outcome(w)
        PROVE  /\ Settled(s)'
               /\ object'[LabelKey(s)] = object[LabelKey(s)]
               /\ \A x \in Ids : document'[x] # document[x] =>
                    s \notin {document[x].shipmentId, document'[x].shipmentId}
    <3>1. request[w].shipmentId = s => request[w].at = "audit"
      BY DEF Settled, Writing
    <3>2. Settled(s)'
      <4> PICK h \in Requests : Continue(w, h) /\ Origin(w, h)
        BY <2>1 DEF Outcome
      <4>1. /\ request'[w] = h /\ \A t \in Workers \ {w} : request'[t] = request[t]
        BY DEF Continue, IInv, TypeOK
      <4>2. h.shipmentId = s => h.at = "audit"
        BY <3>1, DocumentsAssumption DEF Origin, Settled
      <4>3. shipment'[s].isDeleted
        BY <2>1 DEF Outcome, Settled
      <4> QED BY <4>1, <4>2, <4>3 DEF Settled, Writing
    <3>3. object'[LabelKey(s)] = object[LabelKey(s)]
      <4>1. CASE Puts(w)
        BY <3>1, <4>1, DocumentsAssumption, ValueTypes DEF Puts, LabelKey, Keys
      <4>2. CASE UNCHANGED object
        BY <4>2
      <4> QED BY <2>1, <4>1, <4>2 DEF Outcome, RowStep, Creates, Repoints
    <3>4. ASSUME NEW x \in Ids, document'[x] # document[x]
          PROVE  s \notin {document[x].shipmentId, document'[x].shipmentId}
      <4>1. CASE Creates(w)
        <5> PICK y \in Ids, d \in Rows :
              /\ document' = [document EXCEPT ![y] = d] /\ ~Row(y)
              /\ request[w].at \in {"upload.create", "label.create"}
              /\ d.shipmentId = request[w].shipmentId
          BY <4>1 DEF Creates
        <5>1. x = y /\ document'[x] = d /\ document[x] = NoDocument
          BY <3>4, ValueTypes DEF Row
        <5>2. NoDocument.shipmentId = Null
          BY DEF NoDocument
        <5> QED BY <3>1, <5>1, <5>2, DocumentsAssumption
      <4>2. CASE Repoints(w)
        <5> PICK y \in Ids, n \in Nat :
              /\ document' = [document EXCEPT
                    ![y].fileUrl = LabelKey(request[w].shipmentId), ![y].fileSize = n]
              /\ y \in LabelsOf(request[w].shipmentId)
              /\ request[w].at = "label.update"
          BY <4>2 DEF Repoints
        <5>1. x = y
          BY <3>4, ValueTypes
        <5>2. Row(x) /\ document[x].shipmentId = request[w].shipmentId
          BY <5>1 DEF LabelsOf
        <5>3. document'[x].shipmentId = document[x].shipmentId
          BY <2>1, <5>2, RowStepKeeps DEF Outcome
        <5> QED BY <3>1, <5>2, <5>3
      <4> QED BY <2>1, <3>4, <4>1, <4>2 DEF Outcome, RowStep, Puts
    <3> QED BY <3>2, <3>3, <3>4
  <2>2. ASSUME NEW t \in Shipments, ShipmentChanges(t)
        PROVE  Settled(s)' /\ UNCHANGED <<document, object>>
    BY <2>2, ShipmentChangesKeeps DEF Settled, Writing
  <2> QED BY <2>1, <2>2, ServeOutcome DEF DocNext
<1> QED BY <1>1, Inductive, PTL DEF DocSpec, DeletedDocumentsSettle

===============================================================================
