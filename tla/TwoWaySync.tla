----------------------------- MODULE TwoWaySync -----------------------------
(****************************************************************************)
(* The whole service: the invoice API, the webhook endpoint, the workers    *)
(* with their executor and handler, and QuickBooks on the other side.       *)
(****************************************************************************)
EXTENDS InvoiceService, SyncExecutor, WebhookHandler, WebhookEndpoint

vars == <<storeVars, qboVars, workerVars, serviceVars, endpointVars>>

Init ==
  /\ StoreInit
  /\ QuickBooksInit
  /\ WorkerInit
  /\ ServiceInit
  /\ EndpointInit

(* What a process does on its own while it is up and not being killed; a    *)
(* delivery in hand keeps the event loop, which the worker shares.          *)
WorkerStep(w) ==
  /\ EndpointFree(w)
  /\ LoopStep(w) \/ ExecutorStep(w) \/ HandlerStep(w)
  /\ UNCHANGED <<request, endpointVars>>

Next ==
  \/ ServiceStep(Locked) /\ UNCHANGED <<qboVars, workerVars, endpointVars>>
  \/ UserStep /\ UNCHANGED <<storeVars, workerVars, request, endpointVars>>
  \/ \E w \in Workers : EndpointStep(w) /\ UNCHANGED request
  \/ \E n \in DOMAIN notes : RepeatUnidentified(n) /\ UNCHANGED request
  \/ \E w \in Workers : WorkerStep(w)
  \/ \E w \in Workers : AttemptFails(w) /\ UNCHANGED <<request, endpointVars>>
  \/ \E w \in Workers : Crash(w) /\ LoseDelivery(w) /\ UNCHANGED request
  \/ \E w \in Workers : Restart(w) /\ UNCHANGED <<request, endpointVars>>
  \/ Wakes /\ UNCHANGED <<request, endpointVars>>

Spec == Init /\ [][Next]_vars
------------------------------------------------------------------------------
(* Every variable keeps the shape the tables and the sessions have.         *)
TypeOK ==
  /\ StoreTypeOK
  /\ QuickBooksTypeOK
  /\ WorkerTypeOK
  /\ ServiceTypeOK
  /\ EndpointTypeOK
==============================================================================
