------------------------------- MODULE Paperwork -------------------------------
(***************************************************************************)
(* Uploads, label downloads, their background tasks, deletions and the     *)
(* audit log interleaved, and what they guarantee together.                *)
(***************************************************************************)
EXTENDS Documents

Serve(w) ==
  \/ UploadFind(w) \/ UploadPut(w) \/ UploadCreate(w)
  \/ LabelFind(w) \/ LabelPut(w) \/ LabelLookup(w)
  \/ LabelUpdate(w) \/ LabelCreate(w)
  \/ RemoveFind(w) \/ RemoveWrite(w)
  \/ OtherRoute(w) \/ AuditWrite(w)

\* A call rejects and the request ends with an error, or, once it has answered,
\* with a line in the log of the process; or the process stops.
Fail(w) ==
  /\ request[w].at # "idle"
  /\ Done(w)
  /\ failed' = TRUE
  /\ UNCHANGED <<shipment, document, object, audit>>

DocNext ==
  \/ \E w \in Workers : Serve(w) \/ Fail(w)
  \/ \E s \in Shipments : ShipmentChanges(s)

DocSpec == DocInit /\ [][DocNext]_docVars

\* A call returns or throws, and the event loop resumes whoever awaits it.
Resume(w) == request[w].at # "idle" /\ Serve(w)
FairDocSpec == DocSpec /\ \A w \in Workers : WF_docVars(Resume(w))

-------------------------------------------------------------------------------
(* Invariants *)

TypeOK ==
  /\ shipment \in [Shipments -> [isDeleted : BOOLEAN, prints : Nat]]
  /\ document \in [Ids -> Rows \cup {NoDocument}]
  /\ object \in [Keys -> Nat \cup {Null}]
  /\ audit \in [Entries -> Nat]
  /\ request \in [Workers -> Requests]
  /\ failed \in BOOLEAN

\* Whatever getDocumentUrl signs a link to is there: a document names its own
\* upload, with its size, or the label of its shipment, with the size of a
\* label, although the label task takes over rows that users uploaded.
DocumentsHaveObjects ==
  \A x \in Ids : Row(x) =>
    LET d == document[x] IN
    /\ GetDocumentUrl(x) # Null
    /\ \/ d.fileUrl = x /\ d.fileSize = UploadSize
       \/ d.fileUrl = LabelKey(d.shipmentId) /\ d.fileSize > 0

UploadsLogged(u, s) ==
  LET e == [userId |-> u, action |-> "uploadDocument", entityId |-> s] IN
  IF e \in Entries THEN audit[e] ELSE 0
UploadsToLog(u, s) ==
  {w \in Workers : /\ request[w].at = "audit" /\ request[w].user = u
                   /\ request[w].route = "uploadDocument"
                   /\ request[w].shipmentId = s}

\* The audit log reports nothing that did not happen: no more uploads by a
\* user than the documents that user created, no deletion of a shipment that
\* is not deleted (AuditLogInterceptor logs what has answered).
AuditTruthful ==
  /\ \A u \in Users, s \in Shipments :
       UploadsLogged(u, s) + Cardinality(UploadsToLog(u, s))
         <= Cardinality(Uploads(u, s))
  /\ \A e \in Entries :
       audit[e] > 0 /\ e.action = "remove" => shipment[e.entityId].isDeleted

\* "audit log all mutations" (core.module.ts): as long as no call fails, every
\* uploaded document is in the audit log or about to be.
UploadsAudited ==
  ~failed => \A u \in Users, s \in Shipments :
    UploadsLogged(u, s) + Cardinality(UploadsToLog(u, s))
      >= Cardinality(Uploads(u, s))

Holds(u, permissions) == u \in Users /\ permissions \subseteq ROLE_PERMISSIONS[Role[u]]

\* Whoever is named in what is stored, awaits after the guards have run, is one
\* they had to let through: the author of a document, be it one that a task
\* created when the request was over, and the user of every audit row hold the
\* permissions of the route that led there, and a row without a user is of a
\* public route (PermissionsGuard, storeLabelAsync, AuditLogInterceptor).
WritersAreAllowed ==
  /\ \A x \in Ids : Row(x) =>
       LET route == IF document[x].fileName = "upload" THEN "uploadDocument"
                                                       ELSE "getLabel" IN
       Holds(document[x].uploadedBy, Routes[route].permissions)
  /\ \A e \in Entries : audit[e] > 0 =>
       IF Routes[e.action].isPublic THEN e.userId = Null
       ELSE Holds(e.userId, Routes[e.action].permissions)

Recorded(s) == \E x \in LabelsOf(s) : document[x].fileUrl = LabelKey(s)
Recording(s) ==
  \E w \in Workers : /\ request[w].at \in {"label.find", "label.update", "label.create"}
                     /\ request[w].shipmentId = s

\* A stored label can be found: as long as no call fails, a label object has a
\* document of its shipment that leads to it, or a task that will see to one,
\* whichever tasks, uploads and deletions overlapped (storeLabelAsync).
StoredLabelsRecorded ==
  ~failed => \A s \in Shipments :
    object[LabelKey(s)] # Null => Recorded(s) \/ Recording(s)

-------------------------------------------------------------------------------
(* Action properties *)

\* What a user uploaded stays as it was: the object is never overwritten, and
\* the row changes only when the label task takes over a document of type
\* LABEL, of which the name, the author and the type remain.
UploadsKept ==
  [][\A x \in Ids : Row(x) =>
       /\ object'[x] = object[x]
       /\ \/ document'[x] = document[x]
          \/ /\ document[x].type = "LABEL"
             /\ document'[x] = [document[x] EXCEPT
                  !.fileUrl = LabelKey(document[x].shipmentId),
                  !.fileSize = document'[x].fileSize]]_docVars

\* "update or create" (storeLabelAsync): once a shipment has a label, and no
\* task that found none is left, a label document is never created again,
\* whoever downloads it.
Labelled(s) ==
  /\ LabelsOf(s) # {}
  /\ \A w \in Workers :
       request[w].at = "label.create" => request[w].shipmentId # s
OneLabelIsEnough ==
  [][\A s \in Shipments :
       Labelled(s) => Labelled(s)' /\ Generated(s)' = Generated(s)]_docVars

Writing(s) == \E w \in Workers : /\ request[w].shipmentId = s
                                 /\ request[w].at # "audit"
Settled(s) == shipment[s].isDeleted /\ ~Writing(s)

\* After softDelete only the requests that found the shipment before it, and
\* their background tasks, write its documents: then these are final.
DeletedDocumentsSettle ==
  [][\A s \in Shipments : Settled(s) =>
       /\ Settled(s)'
       /\ object'[LabelKey(s)] = object[LabelKey(s)]
       /\ \A x \in Ids :
            document'[x] # document[x] => s \notin {document[x].shipmentId,
                                                    document'[x].shipmentId}
     ]_docVars

-------------------------------------------------------------------------------
(* Liveness *)

\* A label that was sent is stored: the shipment ends up with a label document
\* that names the object, unless a call fails (storeLabelAsync).
LabelsStored ==
  \A s \in Shipments :
    (\E w \in Workers : request[w].at = "label.put" /\ request[w].shipmentId = s)
      ~> Recorded(s) \/ failed

===============================================================================
