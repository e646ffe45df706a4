--------------------------- MODULE SyncProperties ---------------------------
(****************************************************************************)
(* What the service keeps true, whatever the interleaving.  Each property   *)
(* says at the run that checks it (README) how many workers, edits by       *)
(* QuickBooks users and network faults it holds under; what the documents   *)
(* claim and the code does not keep is in Claims.                           *)
(****************************************************************************)
EXTENDS TwoWaySync

QueueOf(w) == IF phase[w] = "jobs" THEN jobs ELSE events

JobsOf(i) == {j \in DOMAIN jobs : jobs[j].inv = i}

HasLink(i) == invoices[i].ext # NoLink

Counterpart(i) == qbo[invoices[i].company][invoices[i].ext]
------------------------------------------------------------------------------
(* FOR UPDATE SKIP LOCKED and the commit of "in_progress" give every queue  *)
(* row one owner: two workers never hold the same row, and the rows a       *)
(* worker holds are in_progress from the commit of its claim to their own   *)
(* outcome.                                                                 *)
OneOwner ==
  /\ \A v, w \in Workers :
       v # w /\ phase[v] = phase[w] => batch[v] \cap batch[w] = {}
  /\ \A w \in Workers : \A k \in batch[w] :
       QueueOf(w)[k].status =
         IF work[w].at = "claim" THEN "pending" ELSE "in_progress"

(* An outcome is final: a completed or failed row of either queue is never  *)
(* executed, rescheduled or changed again, by any worker.                   *)
QueueTerminal ==
  [][/\ \A j \in DOMAIN jobs : ~Active(jobs[j]) => jobs'[j] = jobs[j]
     /\ \A e \in DOMAIN events : ~Active(events[e]) => events'[e] = events[e]]_vars

(* A worker holds rows of the queue whose turn it is, and executes only a   *)
(* row it holds; webhook_handler's re-fetch belongs to the events' turn.    *)
HoldsItsQueue == \A w \in Workers : batch[w] \subseteq DOMAIN QueueOf(w)

WorksOnItsBatch ==
  \A w \in Workers :
    /\ work[w].at \notin {"idle", "down", "claim"} => work[w].id \in batch[w]
    /\ work[w].at = "fetch" => phase[w] = "events"

(* A row that may still be executed has an attempt left: "failed" is set in *)
(* the same commit as the last attempt.                                     *)
AttemptsLeft ==
  /\ \A j \in DOMAIN jobs : Active(jobs[j]) => jobs[j].attempts < MaxAttempts
  /\ \A e \in DOMAIN events : Active(events[e]) => events[e].attempts < MaxAttempts

(* Rows in_progress that no worker holds: nothing executes them again.      *)
Abandoned(queue, q) ==
  {k \in DOMAIN queue :
    /\ queue[k].status = "in_progress"
    /\ \A w \in Workers : phase[w] = q => k \notin batch[w]}

(* Only a killed process abandons rows, and no more than the batch it had   *)
(* claimed: rescheduling, failing and completing leave none behind.         *)
CrashCostsABatch ==
  Cardinality(Abandoned(jobs, "jobs")) + Cardinality(Abandoned(events, "events"))
    <= crashes * MaxBatch

(* The inductive invariant: what a worker holds, with the typing, is enough *)
(* to carry the ownership of rows through every step of every actor.        *)
QueueInvariant ==
  /\ TypeOK
  /\ OneOwner
  /\ HoldsItsQueue
  /\ WorksOnItsBatch
  /\ AttemptsLeft

(* A create whose response was lost is reconciled by DocNumber before it is *)
(* repeated, so QuickBooks never holds two invoices for one local invoice.  *)
NoDuplicateInQbo ==
  \A r \in Realms, i \in DOMAIN invoices :
    Cardinality(WithDocNumber(r, i)) <= 1

(* A local invoice is linked exactly when its create job is completed, and  *)
(* linked to the invoice QuickBooks holds under its own DocNumber.          *)
LinkMatchesJob ==
  \A i \in DOMAIN invoices : invoices[i].origin = "local" =>
    /\ \A j \in JobsOf(i) : jobs[j].op = "create" =>
         (jobs[j].status = "completed" <=> HasLink(i))
    /\ HasLink(i) => Counterpart(i).doc = i

(* Concurrent sessions never undo a link: once external_invoice_id is set,  *)
(* no commit of another session clears or changes it.                       *)
LinkPermanent ==
  [][\A i \in DOMAIN invoices : HasLink(i) =>
       invoices'[i].ext = invoices[i].ext]_vars

(* A soft delete survives every commit of a session that loaded the invoice *)
(* before it was deleted.                                                   *)
NoResurrection ==
  [][\A i \in DOMAIN invoices : invoices[i].deleted => invoices'[i].deleted]_vars

(* The commits after which a voided or deleted invoice may be open again.   *)
Reopens(i) ==
  \/ \E w \in Workers :
       /\ phase[w] = "jobs" /\ work[w].at = "write" /\ work'[w] = Idle
       /\ work[w].inv = i /\ jobs[work[w].id].op = "create"
  \/ \E t \in Threads :
       /\ request[t].op = "update" /\ request[t].inv = i
       /\ request'[t] = NoRequest
       /\ request[t].obj.status \in PutStatuses

(* A void or a delete outlives every session that loaded the invoice before *)
(* it, and passed its guard then.  DESIGN.md:257 calls both terminal; only  *)
(* the commit of a create job reopens (it sets Open whatever the status was *)
(* by then), and a PUT whose body gives a status.                           *)
OnlyCreateReopens ==
  [][\A i \in DOMAIN invoices :
       /\ invoices[i].status \in {"Voided", "Deleted"}
       /\ invoices'[i].status \notin {"Voided", "Deleted"}
       => Reopens(i)]_vars

(* No other company has an invoice with this QuickBooks id.  The handler    *)
(* looks an invoice up by its id alone, so it takes an event of another     *)
(* company's namesake for one of its own (Claims.EventStaysInRealm).        *)
OnlyIn(r, e) == \A s \in Realms \ {r} : e \notin DOMAIN qbo[s]

NoNamesake(i) == OnlyIn(invoices[i].company, invoices[i].ext)

(* With one worker the stored SyncToken of an invoice without a namesake    *)
(* never goes back.                                                         *)
TokenMonotone ==
  [][\A i \in DOMAIN invoices :
       NoNamesake(i) => invoices'[i].token >= invoices[i].token]_vars

(* A job some worker will still execute: nothing executes again a row left  *)
(* in_progress by a worker that died.                                       *)
StillToRun(j) ==
  \/ jobs[j].status = "pending"
  \/ \E w \in Workers : phase[w] = "jobs" /\ j \in batch[w]

(* Nothing shown as pending is forgotten: some job of the invoice is still  *)
(* to be executed, or was given up because of a conflict, or lost with the  *)
(* batch of a worker that died.                                             *)
PendingHasJob ==
  \A i \in DOMAIN invoices : invoices[i].sync = "pending" =>
    \E j \in JobsOf(i) :
      \/ StillToRun(j)
      \/ jobs[j].error = "conflict"
      \/ crashes > 0 /\ j \in Abandoned(jobs, "jobs")

(* The second try of an update refused for its token only follows a read    *)
(* that showed its content: if QuickBooks accepts it, it changes nothing    *)
(* there, so a concurrent edit is never overwritten on the way.             *)
RepostChangesNothing ==
  \A w \in Workers :
    LET t == work[w]  r == t.obj.company  e == t.obj.ext IN
      t.at = "repost" /\ Accepts(r, e, "update", t.obj.token) =>
        Pushed(qbo[r][e].content, t.obj.content) = qbo[r][e].content
------------------------------------------------------------------------------
(* No work is left and every notification has been heard.                   *)
Quiet ==
  /\ Busy = {}
  /\ \A w \in Workers : work[w].at = "idle" /\ batch[w] = {}
  /\ \A j \in DOMAIN jobs : ~Active(jobs[j])
  /\ DOMAIN events = DOMAIN notes
  /\ \A e \in DOMAIN events : ~Active(events[e])

(* An invoice shown as in sync and not being worked on.                     *)
Settled(i) ==
  /\ HasLink(i)
  /\ invoices[i].sync = "complete"
  /\ \A j \in JobsOf(i) : ~Active(jobs[j]) /\ jobs[j].error # "conflict"

(* A due date that one side does not have is neither pushed nor pulled.     *)
SameDue(here, there) == here.due = there.due \/ NoDue \in {here.due, there.due}

(* QuickBooks' invoice is as the create left it: its total is the sum of    *)
(* the line items, and no push or pull has compared it with the row's.      *)
AsCreated(i) == invoices[i].origin = "local" /\ Counterpart(i).token = 0

(* Both sides show the same invoice, as far as a push and a pull carry it.  *)
Agrees(i) ==
  Counterpart(i).status = "Live" =>
    /\ SameDue(invoices[i].content, Counterpart(i).content)
    /\ AsCreated(i) \/ invoices[i].content.total = Counterpart(i).content.total

(* The create was tried again, so it may have been linked by DocNumber: to  *)
(* the token QuickBooks has by then, without the content that goes with it. *)
CreateRetried(i) ==
  \E j \in JobsOf(i) : jobs[j].op = "create" /\ jobs[j].attempts > 0

(* With one worker, whatever responses are lost, a settled invoice without  *)
(* a namesake whose token is QuickBooks' current one says what QuickBooks   *)
(* says: but for a retried create and for a total as created, a token is    *)
(* never taken over without its content.                                    *)
TokenMeansContent ==
  \A i \in DOMAIN invoices :
    /\ Settled(i) /\ NoNamesake(i)
    /\ ~CreateRetried(i)
    /\ invoices[i].token = Counterpart(i).token
    => Agrees(i)

(* With one worker and no failed calls, once everything has been worked off *)
(* in whatever order, a linked invoice without a namesake agrees with       *)
(* QuickBooks, edits of QuickBooks users included, whatever its sync says;  *)
(* but a total no one changed since the create may differ.                  *)
Agreement ==
  Quiet /\ faults = 0 => \A i \in DOMAIN invoices :
    HasLink(i) /\ NoNamesake(i) => Agrees(i)

(* The handler finds this invoice, and no other, by its QuickBooks id.      *)
Sole(i) == Lookup(invoices[i].ext) = {i}

(* The event that would have told an invoice of it failed for good.         *)
GaveUp(i, op) ==
  \E e \in DOMAIN events :
    /\ notes[e] = [realm |-> invoices[i].company, ext |-> invoices[i].ext, op |-> op]
    /\ events[e].status = "failed"

(* With one worker, once everything has been worked off, what QuickBooks    *)
(* deleted is deleted here too, whatever calls were lost and whatever       *)
(* became of the jobs and sessions the delete crossed, unless the database  *)
(* refused the commit of its event until that failed for good.              *)
DeleteMirrored ==
  Quiet => \A i \in DOMAIN invoices :
    HasLink(i) /\ Sole(i) /\ Counterpart(i).status = "Deleted" =>
      invoices[i].deleted \/ GaveUp(i, "deleted")

(* A PUT may have given the invoice a status, which is not pushed.          *)
GivenStatus(i) == PutStatuses # {} /\ \E j \in JobsOf(i) : jobs[j].op = "update"

(* With one worker and no failed calls, once everything has been worked off *)
(* and every job of a local invoice succeeded, in whatever order, both      *)
(* sides agree on whether it is deleted, and unless it is or a PUT may have *)
(* said otherwise here, on whether it is void.                              *)
StatusAgreement ==
  Quiet /\ faults = 0 => \A i \in DOMAIN invoices :
    /\ HasLink(i) /\ NoNamesake(i)
    /\ invoices[i].origin = "local"
    /\ \A j \in JobsOf(i) : jobs[j].status = "completed"
    => /\ invoices[i].deleted <=> Counterpart(i).status = "Deleted"
       /\ GivenStatus(i)
          \/ /\ Counterpart(i).status = "Voided" => invoices[i].status = "Voided"
             /\ invoices[i].status = "Voided" => Counterpart(i).status # "Live"

(* A worker is about to write for the notification of a create or an update *)
(* this service pushed: nobody else wrote in QuickBooks, and nothing failed *)
(* or died.                                                                 *)
WritesEcho(w) ==
  LET n == notes[work[w].id] IN
    /\ edits + faults + crashes = 0
    /\ phase[w] = "events" /\ work[w].at \in {"write", "insert"}
    /\ n.op \in {"created", "updated"} /\ OnlyIn(n.realm, n.ext)

(* With one worker, an own echo is absorbed, but in one case: the token of  *)
(* a void is not stored, so an update's echo heard after the void of the    *)
(* same invoice passes the gate and changes the row.  It never adds one.    *)
EchoAbsorbed ==
  \A w \in Workers : LET i == work[w].inv IN
    WritesEcho(w) =>
      /\ work[w].at = "write" /\ HasLink(i)
      /\ Counterpart(i).status = "Voided"
      /\ \E j \in JobsOf(i) : jobs[j].op = "void" /\ jobs[j].status = "completed"

(* With one worker and no failed calls, no order or repetition of           *)
(* deliveries gives two rows to one QuickBooks invoice.                     *)
SingleRow ==
  faults = 0 => \A i, k \in DOMAIN invoices :
    HasLink(i) /\ NoNamesake(i) /\ invoices[k].ext = invoices[i].ext => i = k
------------------------------------------------------------------------------
(* The scheduling the code provides: a worker that is up goes on, a backoff *)
(* ends, a handler that loaded its invoice commits, and the event loop,     *)
(* free whenever the worker sleeps, serves a delivery that keeps waiting.   *)
Fairness ==
  /\ \A w \in Workers : WF_vars(WorkerStep(w))
  /\ WF_vars(Wakes /\ UNCHANGED <<request, endpointVars>>)
  /\ \A t \in Threads :
       WF_vars(Commit(t, Locked) /\ UNCHANGED <<qboVars, workerVars, endpointVars>>)
  /\ \A w \in Workers : WF_vars(StoreEvent(w) /\ UNCHANGED request)
  /\ \A n \in 1 .. MaxEdits + MaxJobs + MaxFaults + MaxRepeats :
       SF_vars((\E w \in Workers : CheckStored(w, n)) /\ UNCHANGED request)

FairSpec == Spec /\ Fairness

(* Every job is eventually completed or failed for good.                    *)
JobsSettle ==
  \A j \in 1 .. MaxJobs :
    j \in DOMAIN jobs ~> j \in DOMAIN jobs /\ ~Active(jobs[j])

(* Every notification is eventually heard, and applied, dropped or failed   *)
(* for good.                                                                *)
EventsSettle ==
  \A n \in 1 .. MaxEdits + MaxJobs + MaxFaults + MaxRepeats :
    n \in DOMAIN notes ~> n \in DOMAIN events /\ ~Active(events[n])

(* The two sides converge: from some point on, whatever is shown as in sync *)
(* agrees with QuickBooks.                                                  *)
Converges ==
  <>[](\A i \in DOMAIN invoices :
         HasLink(i) /\ invoices[i].sync = "complete" => Agrees(i))
==============================================================================
