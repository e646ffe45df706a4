--------------------------- MODULE WebhookHandler ---------------------------
(****************************************************************************)
(* Inbound events (app/services/webhook_handler.py): look the invoice up by *)
(* its QuickBooks id, re-fetch it where the operation needs it, and decide  *)
(* what CompleteEvent commits: nothing, a new invoice or changed columns.   *)
(****************************************************************************)
EXTENDS SyncWorker

HandlerFrame ==
  UNCHANGED <<storeVars, qboVars, phase, batch, crashes>>

(* _lookup_invoice: every row with that id, of whatever company.            *)
Lookup(e) == {i \in DOMAIN invoices : invoices[i].ext = e}

Begun(e, i, at, obj) ==
  [at |-> at, id |-> e, inv |-> i, obj |-> obj,
   loaded |-> IF i = 0 THEN Blank ELSE invoices[i]]

Skipped(e) == Begun(e, 0, "skip", Blank)

(* scalar_one_or_none raises when two rows match.                           *)
BeginAmbiguous(w, e, found) ==
  /\ Cardinality(found) > 1
  /\ Move(w, Begun(e, 0, "raised", Blank))

(* Mutant: a created event adds a row without looking for one.              *)
BeginCreatedBlind(w, e, found) ==
  /\ notes[e].op = "created"
  /\ Move(w, Begun(e, 0, "fetch", Blank))

BeginCreated(w, e, found) ==
  /\ notes[e].op = "created"
  /\ Cardinality(found) <= 1
  /\ Move(w, IF found # {} THEN Skipped(e) ELSE Begun(e, 0, "fetch", Blank))

BeginUpdated(w, e, found) ==
  /\ notes[e].op = "updated"
  /\ \/ found = {} /\ Move(w, Skipped(e))
     \/ \E i \in found : /\ found = {i}
                         /\ Move(w, Begun(e, i, "fetch", invoices[i]))

(* Mutant: a delete gives way to a local change still to be pushed.         *)
BeginDeletedUnlessPending(w, e, found) ==
  /\ notes[e].op = "deleted"
  /\ \/ found = {} /\ Move(w, Skipped(e))
     \/ \E i \in found :
          /\ found = {i}
          /\ Move(w, IF invoices[i].deleted \/ invoices[i].sync = "pending"
                     THEN Skipped(e)
                     ELSE Begun(e, i, "write",
                            [invoices[i] EXCEPT !.deleted = TRUE,
                                                !.status = "Deleted",
                                                !.sync = "complete"]))

BeginDeleted(w, e, found) ==
  /\ notes[e].op = "deleted"
  /\ \/ found = {} /\ Move(w, Skipped(e))
     \/ \E i \in found :
          /\ found = {i}
          /\ Move(w, IF invoices[i].deleted THEN Skipped(e)
                     ELSE Begun(e, i, "write",
                            [invoices[i] EXCEPT !.deleted = TRUE,
                                                !.status = "Deleted",
                                                !.sync = "complete"]))

(* Mutant: a void is only taken before the invoice is open.                 *)
VoidIsMootOnceOpen(row) == row.deleted \/ row.status \in {"Open", "Voided"}

VoidIsMoot(row) == row.deleted \/ row.status = "Voided"

BeginVoided(w, e, found) ==
  /\ notes[e].op = "voided"
  /\ \/ found = {} /\ Move(w, Skipped(e))
     \/ \E i \in found :
          /\ found = {i}
          /\ Move(w, IF VoidIsMoot(invoices[i])
                     THEN Skipped(e)
                     ELSE Begun(e, i, "write",
                            [invoices[i] EXCEPT !.status = "Voided",
                                                !.sync = "complete"]))

BeginEvent(w) ==
  /\ phase[w] = "events"
  /\ work[w].at = "idle"
  /\ \E e \in batch[w] : LET found == Lookup(notes[e].ext) IN
       \/ BeginAmbiguous(w, e, found)
       \/ BeginCreated(w, e, found)
       \/ BeginUpdated(w, e, found)
       \/ BeginDeleted(w, e, found)
       \/ BeginVoided(w, e, found)
  /\ HandlerFrame
------------------------------------------------------------------------------
(* A deleted invoice cannot be read: the GET raises.                        *)
FetchMissing(w, n) ==
  /\ ~Readable(n.realm, n.ext)
  /\ Raise(w, "raised")

(* An unknown customer drops the event; otherwise a new row is prepared.    *)
FetchCreated(w, n, q) ==
  /\ n.op = "created"
  /\ Move(w, IF q.known
             THEN [work[w] EXCEPT !.at = "insert",
                    !.obj = [company |-> n.realm, origin |-> "qbo",
                             status |-> "Created", deleted |-> FALSE,
                             content |-> q.content, ext |-> n.ext,
                             token |-> q.token, sync |-> "complete"]]
             ELSE [work[w] EXCEPT !.at = "skip"])

(* Mutants: the gate passes an equal token, or holds the next one back too. *)
NewerOrEqual(token, local) == local = NoToken \/ token >= local

NewerByTwo(token, local) == local = NoToken \/ token > local + 1

(* The SyncToken gate: only a newer token may change the invoice.           *)
Newer(token, local) == local = NoToken \/ token > local

(* Mutant: the token is taken over without the content.                     *)
RefreshedTokenOnly(obj, q) == [obj EXCEPT !.token = q.token, !.sync = "complete"]

Refreshed(obj, q) == [obj EXCEPT !.token = q.token, !.sync = "complete",
                                 !.content = Pulled(@, q.content)]

(* A date read, issue_date or due_date, is a string, which never equals the *)
(* date loaded: the flush sends it even if it is the same.                  *)
Compared(loaded, q) ==
  [loaded EXCEPT !.content.due = IF q.content.due = NoDue THEN @ ELSE NoDue]

FetchUpdated(w, n, q) ==
  /\ n.op = "updated"
  /\ Move(w, IF Newer(q.token, work[w].loaded.token)
             THEN [work[w] EXCEPT !.at = "write", !.obj = Refreshed(@, q),
                                  !.loaded = Compared(@, q)]
             ELSE [work[w] EXCEPT !.at = "skip"])

Fetch(w) ==
  LET n == notes[work[w].id]  q == qbo[n.realm][n.ext] IN
    /\ work[w].at = "fetch"
    /\ \/ FetchMissing(w, n)
       \/ Readable(n.realm, n.ext) /\ FetchCreated(w, n, q)
       \/ Readable(n.realm, n.ext) /\ FetchUpdated(w, n, q)
    /\ HandlerFrame

HandlerStep(w) == BeginEvent(w) \/ Fetch(w)
==============================================================================
