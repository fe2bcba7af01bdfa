------------------------------- MODULE Documents -------------------------------
(***************************************************************************)
(* uploadDocument, the label download with the background task that stores *)
(* the label, and the softDelete they race with.  A request that the guards*)
(* or findOne refuse changes nothing and is no step.                       *)
(***************************************************************************)
EXTENDS AuditLog

-------------------------------------------------------------------------------
(* POST /shipments/:id/documents *)

\* A type that is no DocumentType passes: the body is only cast.
UploadFind(w) ==
  /\ \E u \in Callers, s \in Shipments, t \in DocumentTypes \cup {"unknown"} :
       /\ Accepts(w, "uploadDocument", u) /\ Live(s) /\ Fresh # {}
       /\ Continue(w, [Accepted("uploadDocument", u) EXCEPT !.at = "upload.put",
                         !.shipmentId = s, !.id = NewId, !.type = t])
  /\ UNCHANGED <<shipment, document, object, audit, failed>>

UploadPut_ErrorIgnored(w) ==
  LET h == request[w] IN
  /\ h.at = "upload.put"
  /\ Continue(w, [h EXCEPT !.at = "upload.create"])
  /\ UNCHANGED <<shipment, document, object, audit, failed>>

UploadPut(w) ==
  LET h == request[w] IN
  /\ h.at = "upload.put"
  /\ object' = [object EXCEPT ![h.id] = UploadSize]
  /\ Continue(w, [h EXCEPT !.at = "upload.create"])
  /\ UNCHANGED <<shipment, document, audit, failed>>

UploadedRow(h) ==
  [shipmentId |-> h.shipmentId, type |-> h.type, fileName |-> "upload",
   fileUrl |-> h.id, fileSize |-> UploadSize, uploadedBy |-> h.user]

UploadCreate_AnyType(w) ==
  LET h == request[w] IN
  /\ h.at = "upload.create"
  /\ document' = [document EXCEPT ![h.id] = UploadedRow(h)]
  /\ Answer(w)
  /\ UNCHANGED <<shipment, object, audit, failed>>

UploadCreate_LogsRefused(w) ==
  LET h == request[w] IN
  /\ h.at = "upload.create"
  /\ document' = IF h.type = "unknown" THEN document
                 ELSE [document EXCEPT ![h.id] = UploadedRow(h)]
  /\ Answer(w)
  /\ UNCHANGED <<shipment, object, audit, failed>>

\* The insert rejects a type that is no DocumentType: the object stays behind.
UploadCreate(w) ==
  LET h == request[w] IN
  /\ h.at = "upload.create"
  /\ \/ /\ h.type # "unknown"
        /\ document' = [document EXCEPT ![h.id] = UploadedRow(h)]
        /\ Answer(w)
     \/ /\ h.type = "unknown"
        /\ Done(w)
        /\ UNCHANGED document
  /\ UNCHANGED <<shipment, object, audit, failed>>

-------------------------------------------------------------------------------
(* GET /shipments/:id/label.  The answer is the PDF itself, on its way before *)
(* anything is stored, and GET is not logged: what follows LabelFind is the   *)
(* background task storeLabelAsync.                                           *)

\* An id is drawn for the row that the task may create: it will not create one
\* when the shipment has a label already.
LabelFind(w) ==
  /\ \E u \in Callers, s \in Shipments :
       LET h == [Accepted("getLabel", u) EXCEPT !.at = "label.put",
                   !.shipmentId = s, !.print = shipment[s].prints] IN
       /\ Accepts(w, "getLabel", u) /\ Live(s)
       /\ \/ LabelsOf(s) = {} /\ Fresh # {} /\ Continue(w, [h EXCEPT !.id = NewId])
          \/ LabelsOf(s) # {} /\ Continue(w, h)
  /\ UNCHANGED <<shipment, document, object, audit, failed>>

LabelPut(w) ==
  LET h == request[w] IN
  /\ h.at = "label.put"
  /\ object' = [object EXCEPT ![LabelKey(h.shipmentId)] = h.print]
  /\ Continue(w, [h EXCEPT !.at = "label.find"])
  /\ UNCHANGED <<shipment, document, audit, failed>>

LabelLookup_AnyDocument(w) ==
  LET h == request[w]
      existing == {x \in Ids : Row(x) /\ document[x].shipmentId = h.shipmentId} IN
  /\ h.at = "label.find"
  /\ \/ \E x \in existing :
          Continue(w, [h EXCEPT !.at = "label.update", !.found = x])
     \/ existing = {} /\ Continue(w, [h EXCEPT !.at = "label.create"])
  /\ UNCHANGED <<shipment, document, object, audit, failed>>

LabelLookup_OwnOnly(w) ==
  LET h == request[w]
      existing == {x \in LabelsOf(h.shipmentId) : document[x].uploadedBy = h.user} IN
  /\ h.at = "label.find"
  /\ \/ \E x \in existing :
          Continue(w, [h EXCEPT !.at = "label.update", !.found = x])
     \/ existing = {} /\ Continue(w, [h EXCEPT !.at = "label.create"])
  /\ UNCHANGED <<shipment, document, object, audit, failed>>

\* findFirst without an order: any LABEL document of the shipment, be it one
\* that a user uploaded.
LabelLookup(w) ==
  LET h == request[w]
      existing == LabelsOf(h.shipmentId) IN
  /\ h.at = "label.find"
  /\ \/ \E x \in existing :
          Continue(w, [h EXCEPT !.at = "label.update", !.found = x])
     \/ existing = {} /\ Continue(w, [h EXCEPT !.at = "label.create"])
  /\ UNCHANGED <<shipment, document, object, audit, failed>>

LabelUpdate_SizeOnly(w) ==
  LET h == request[w] IN
  /\ h.at = "label.update"
  /\ document' = [document EXCEPT ![h.found].fileSize = h.print]
  /\ Done(w)
  /\ UNCHANGED <<shipment, object, audit, failed>>

LabelUpdate(w) ==
  LET h == request[w] IN
  /\ h.at = "label.update"
  /\ document' = [document EXCEPT ![h.found].fileUrl = LabelKey(h.shipmentId),
                                  ![h.found].fileSize = h.print]
  /\ Done(w)
  /\ UNCHANGED <<shipment, object, audit, failed>>

LabelCreate_Skipped(w) ==
  /\ request[w].at = "label.create"
  /\ Done(w)
  /\ UNCHANGED <<shipment, document, object, audit, failed>>

LabelCreate(w) ==
  LET h == request[w] IN
  /\ h.at = "label.create"
  /\ document' = [document EXCEPT ![h.id] =
       [shipmentId |-> h.shipmentId, type |-> "LABEL",
        fileName |-> "shipment-label.pdf", fileUrl |-> LabelKey(h.shipmentId),
        fileSize |-> h.print, uploadedBy |-> h.user]]
  /\ Done(w)
  /\ UNCHANGED <<shipment, object, audit, failed>>

-------------------------------------------------------------------------------
(* Around them: DELETE /shipments/:id; a write of what a label shows; and any *)
(* other route, for what the interceptor does with it.                        *)

RemoveFind(w) ==
  /\ \E u \in Callers, s \in Shipments :
       /\ Accepts(w, "remove", u) /\ Live(s)
       /\ Continue(w, [Accepted("remove", u) EXCEPT !.at = "remove.write",
                                                    !.shipmentId = s])
  /\ UNCHANGED <<shipment, document, object, audit, failed>>

RemoveWrite(w) ==
  LET h == request[w] IN
  /\ h.at = "remove.write"
  /\ shipment' = [shipment EXCEPT ![h.shipmentId].isDeleted = TRUE]
  /\ Answer(w)
  /\ UNCHANGED <<document, object, audit, failed>>

ShipmentChanges(s) ==
  /\ shipment[s].prints < MaxPrints
  /\ shipment' = [shipment EXCEPT ![s].prints = @ + 1]
  /\ UNCHANGED <<document, object, audit, request, failed>>

\* What the :id of a route may name for its handler to answer: a shipment, or
\* the warehouse item of one, which may be deleted.
Targets(r) ==
  IF r \in {"update", "updateStatus", "updateGps"} THEN {s \in Shipments : Live(s)}
  ELSE IF r = "updateLocation" THEN Shipments
  ELSE {Null}

\* What the handler writes is in none of these tables, but for what a label
\* shows (ShipmentChanges): it is answered in the step in which it is accepted.
OtherRoute(w) ==
  /\ \E u \in Callers, r \in Endpoints \ {"uploadDocument", "getLabel", "remove"} :
       /\ Accepts(w, r, u)
       /\ \/ \E s \in Targets(r) :
               LET h == [Accepted(r, u) EXCEPT !.at = "audit", !.shipmentId = s] IN
               /\ Mutates(r) /\ audit[Entry(h)] < MaxAudits
               /\ \A v \in Workers : request[v].route # r
               /\ Continue(w, h)
          \/ /\ ~Mutates(r)
             /\ UNCHANGED request
  /\ UNCHANGED <<shipment, document, object, audit, failed>>

===============================================================================
