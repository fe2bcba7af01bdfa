-------------------------------- MODULE AuditLog -------------------------------
(***************************************************************************)
(* AuditLogInterceptor: a request that mutates, and answers, is logged by  *)
(* one insert that nothing waits for and whose failure is only reported.   *)
(***************************************************************************)
EXTENDS DocumentStore

\* The handler returned its result: tap() issues the insert, or the request is
\* over.  A handler that throws is not logged.
Answer(w) ==
  LET h == request[w] IN
  IF Mutates(h.route) THEN Continue(w, [h EXCEPT !.at = "audit"]) ELSE Done(w)

\* request.params.id, if the route has one, is the shipment or its one item.
Entry(h) == [userId |-> h.user, action |-> h.route, entityId |-> h.shipmentId]

AuditWrite(w) ==
  /\ request[w].at = "audit"
  /\ audit' = [audit EXCEPT ![Entry(request[w])] = @ + 1]
  /\ Done(w)
  /\ UNCHANGED <<shipment, document, object, failed>>

===============================================================================
