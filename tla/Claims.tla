------------------------------- MODULE Claims -------------------------------
(****************************************************************************)
(* What README.md, DESIGN.md or a comment says of the service and the code  *)
(* does not keep.  Each claim is checked alone, by a run that expects its   *)
(* violation, with the smallest constants that show it.                     *)
(****************************************************************************)
EXTENDS QueueRefinement

(* DESIGN.md:162 and the comment at sync_worker.py:67 say that a divergent  *)
(* update leaves the invoice flagged sync_status = "conflict"; the rollback *)
(* at sync_worker.py:70 takes the flag and its history row back.            *)
ConflictFlagged ==
  [][\A j \in DOMAIN jobs :
       jobs[j].error # "conflict" /\ jobs'[j].error = "conflict" =>
         invoices'[jobs[j].inv].sync = "conflict"]_vars

(* README.md:23 says the inbound gate absorbs the echo of every write; the  *)
(* echo of a create whose response was lost adds a second local invoice.    *)
OneRowPerQboInvoice ==
  \A i, k \in DOMAIN invoices :
    /\ HasLink(i)
    /\ invoices[i].ext = invoices[k].ext
    /\ invoices[i].company = invoices[k].company
    => i = k

(* DESIGN.md:17 says neither side is silently overwritten; an inbound       *)
(* update replaces the content of an invoice whose local edit is pending.   *)
NoSilentOverwrite ==
  [][\A w \in Workers : LET i == work[w].inv IN
       phase[w] = "events" /\ work[w].at = "write" /\ work'[w].at = "idle"
         /\ invoices'[i].content # invoices[i].content
       => \A j \in JobsOf(i) : jobs[j].op = "update" => ~Active(jobs[j])]_vars

(* DESIGN.md:167 says a voided invoice may still be deleted; its delete job *)
(* sends the token from before the void and is rejected until it fails,     *)
(* though nobody else touched the invoice and no call was lost.             *)
VoidThenDelete ==
  \A j \in DOMAIN jobs :
    jobs[j].op = "delete" /\ jobs[j].status = "failed" /\ edits + faults = 0
      /\ HasLink(jobs[j].inv)
    => Counterpart(jobs[j].inv).status # "Voided"

(* README.md:43 says the realm routes an event to the correct company; the  *)
(* invoice is looked up by its QuickBooks id alone, whatever its company.   *)
EventStaysInRealm ==
  \A w \in Workers :
    phase[w] = "events" /\ work[w].at = "write" =>
      invoices[work[w].inv].company = notes[work[w].id].realm

(* DESIGN.md:256 says webhooks may be reordered and the system handles it;  *)
(* a void heard before the create of its invoice finds no row and is        *)
(* dropped, and the create then inserts an invoice that is never voided.    *)
VoidHeard ==
  Quiet => \A i \in DOMAIN invoices :
    invoices[i].origin = "qbo" /\ Counterpart(i).status = "Voided" =>
      invoices[i].status = "Voided"
==============================================================================
