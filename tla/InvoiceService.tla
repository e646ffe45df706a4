--------------------------- MODULE InvoiceService ---------------------------
(****************************************************************************)
(* The local invoice API (app/services/invoice_service.py).  FastAPI runs   *)
(* these handlers on a thread pool, so each thread of Threads first loads   *)
(* the invoice and checks its guards (Begin...) and later flushes what it   *)
(* changed and enqueues its job in one commit (Commit); other sessions may  *)
(* commit in between.  A request refused with 404 or 409 changes nothing.   *)
(****************************************************************************)
EXTENDS Store

CONSTANTS Threads,      \* request threads of the API
          MaxJobs,      \* bound: accepted mutations, each enqueues one job
          MaxCreates,   \* bound: invoices created through the API
          PutStatuses   \* values a PUT body may give "status"

ASSUME InvoiceServiceAssumption ==
  MaxJobs \in Nat /\ MaxCreates \in Nat /\ PutStatuses \subseteq Statuses

VARIABLES request   \* request[t]: the handler thread t is in the middle of

serviceVars == <<request>>

NoRequest == [op |-> "none", inv |-> 0, loaded |-> Blank, obj |-> Blank]

Request == [op : {"none", "update", "delete", "void"}, inv : Nat,
            loaded : Row, obj : Row]

ServiceTypeOK ==
  /\ request \in [Threads -> Request]
  /\ \A t \in Threads :
       request[t].op # "none" => request[t].inv \in DOMAIN invoices

ServiceInit == request = [t \in Threads |-> NoRequest]
------------------------------------------------------------------------------
Busy == {t \in Threads : request[t].op # "none"}

Room == Len(jobs) + Cardinality(Busy) < MaxJobs

(* create_invoice reads no mutable row: one transaction, one step.          *)
CreateInvoice(company, content) ==
  /\ Room
  /\ Cardinality({j \in DOMAIN jobs : jobs[j].op = "create"}) < MaxCreates
  /\ AddInvoice([Blank EXCEPT !.company = company, !.content = content])
  /\ EnqueueJob(Len(invoices) + 1, "create")
  /\ UNCHANGED <<events, request>>

(* get_invoice: a soft-deleted invoice is 404.                              *)
Begin(t, op, i, obj) ==
  /\ Room
  /\ request[t].op = "none"
  /\ ~invoices[i].deleted
  /\ request' = [request EXCEPT ![t] = [op |-> op, inv |-> i,
                                        loaded |-> invoices[i], obj |-> obj]]
  /\ UNCHANGED storeVars

BeginUpdate(t, i) ==
  /\ invoices[i].status # "Voided"
  /\ \E content \in Contents, status \in PutStatuses \cup {invoices[i].status} :
       Begin(t, "update", i, [invoices[i] EXCEPT !.content = content,
                                                 !.status = status,
                                                 !.sync = "pending"])

BeginDelete(t, i) ==
  Begin(t, "delete", i, [invoices[i] EXCEPT !.deleted = TRUE,
                                            !.status = "Deleted",
                                            !.sync = "pending"])

BeginVoid(t, i) ==
  /\ invoices[i].status \notin {"Voided", "Deleted"}
  /\ Begin(t, "void", i, [invoices[i] EXCEPT !.status = "Voided",
                                             !.sync = "pending"])

(* The one commit of the handler: the changed columns, the history row and  *)
(* the job, once no other session holds the row's lock.                     *)
Commit(t, locked) ==
  LET q == request[t] IN
    /\ q.op # "none"
    /\ SaveInvoice(q.inv, q.loaded, q.obj, locked)
    /\ EnqueueJob(q.inv, q.op)
    /\ request' = [request EXCEPT ![t] = NoRequest]
    /\ UNCHANGED events

ServiceStep(locked) ==
  \/ \E company \in Realms, content \in Contents : CreateInvoice(company, content)
  \/ \E t \in Threads : Commit(t, locked)
  \/ \E t \in Threads, i \in DOMAIN invoices :
       BeginUpdate(t, i) \/ BeginDelete(t, i) \/ BeginVoid(t, i)
==============================================================================
