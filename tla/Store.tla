-------------------------------- MODULE Store --------------------------------
(****************************************************************************)
(* The Postgres tables every other component shares: invoices, sync_jobs,   *)
(* webhook_events and the newest invoice_history row of each invoice.       *)
(*                                                                          *)
(* A row keeps what the program branches on; its financial fields are its   *)
(* "content" (InvoiceContent).  A session writes a row the way SQLAlchemy's *)
(* unit of work does: only the columns whose value differs from the one     *)
(* loaded are sent (Merge), so two sessions overlapping on one invoice lose *)
(* each other's writes per column.                                          *)
(****************************************************************************)
EXTENDS InvoiceContent, Integers, Sequences, FiniteSets

CONSTANTS Realms,       \* companies, one QuickBooks realm each
          Contents,     \* what people on either side enter
          MaxAttempts   \* sync_jobs.max_attempts, webhook_events.max_attempts

ASSUME StoreAssumption ==
  /\ Realms # {}
  /\ Contents # {} /\ Contents \subseteq AllContents
  /\ MaxAttempts \in Nat \ {0}

VARIABLES invoices,   \* sequence of rows, indexed by invoices.id
          audit,      \* audit[i] is the snapshot of i's newest history row
          jobs,       \* sequence of sync_jobs rows, indexed by id
          events      \* webhook_events rows, keyed by cloudevent_id

storeVars == <<invoices, audit, jobs, events>>
------------------------------------------------------------------------------
NoLink  == 0     \* external_invoice_id IS NULL
NoToken == -1    \* sync_token IS NULL

Statuses     == {"Draft", "Open", "Created", "Voided", "Deleted"}
SyncStatuses == {"pending", "complete", "failed", "conflict"}
QueueStates  == {"pending", "in_progress", "completed", "failed"}
Tokens       == Nat \cup {NoToken}

Row == [company : Realms, origin : {"local", "qbo"}, status : Statuses,
        deleted : BOOLEAN, content : AllContents, ext : Nat,
        token : Tokens, sync : SyncStatuses]

Snapshot == [status : Statuses, deleted : BOOLEAN, content : AllContents,
             ext : Nat, token : Tokens]

Job == [inv : Nat, op : {"create", "update", "delete", "void"},
        status : QueueStates, attempts : 0 .. MaxAttempts, due : BOOLEAN,
        error : {"none", "error", "conflict"}]

Event == [status : QueueStates, attempts : 0 .. MaxAttempts, due : BOOLEAN]

(* An invoice as create_invoice inserts it, but for company and content.    *)
Blank == [company |-> CHOOSE r \in Realms : TRUE, origin |-> "local",
          status |-> "Draft", deleted |-> FALSE, content |-> Nothing,
          ext |-> NoLink, token |-> NoToken, sync |-> "pending"]

StoreTypeOK ==
  /\ invoices \in Seq(Row)
  /\ audit \in Seq(Snapshot)
  /\ Len(audit) = Len(invoices)
  /\ jobs \in Seq(Job)
  /\ \A j \in DOMAIN jobs : jobs[j].inv \in DOMAIN invoices
  /\ events \in [DOMAIN events -> Event]

StoreInit ==
  /\ invoices = <<>>
  /\ audit = <<>>
  /\ jobs = <<>>
  /\ events = <<>>
------------------------------------------------------------------------------
(* What append_invoice_history copies out of the session's invoice object.  *)
Snap(row) == [status |-> row.status, deleted |-> row.deleted,
              content |-> row.content, ext |-> row.ext, token |-> row.token]

(* The column a flush leaves behind: the session's value if it changed the  *)
(* attribute since loading it, and whatever the table holds otherwise.      *)
Net(current, loaded, obj) == IF obj = loaded THEN current ELSE obj

(* Mutant: every column is sent, changed or not.                            *)
MergeWholeRow(current, loaded, obj) ==
  [obj EXCEPT !.company = current.company, !.origin = current.origin]

Merge(current, loaded, obj) ==
  [company |-> current.company,
   origin  |-> current.origin,
   status  |-> Net(current.status, loaded.status, obj.status),
   deleted |-> Net(current.deleted, loaded.deleted, obj.deleted),
   content |-> [total |-> Net(current.content.total, loaded.content.total,
                              obj.content.total),
                due   |-> Net(current.content.due, loaded.content.due,
                              obj.content.due)],
   ext     |-> Net(current.ext, loaded.ext, obj.ext),
   token   |-> Net(current.token, loaded.token, obj.token),
   sync    |-> Net(current.sync, loaded.sync, obj.sync)]

(* Flush and commit of one loaded invoice together with its history row.    *)
(* A flush that changes a column waits for the lock on the invoice's row.   *)
SaveInvoice(i, loaded, obj, locked) ==
  /\ obj # loaded => i \notin locked
  /\ invoices' = [invoices EXCEPT ![i] = Merge(@, loaded, obj)]
  /\ audit' = [audit EXCEPT ![i] = Snap(obj)]

AddInvoice(row) ==
  /\ invoices' = Append(invoices, row)
  /\ audit' = Append(audit, Snap(row))

EnqueueJob(i, op) ==
  jobs' = Append(jobs, [inv |-> i, op |-> op, status |-> "pending",
                        attempts |-> 0, due |-> TRUE, error |-> "none"])
------------------------------------------------------------------------------
(* Mutants: the row is not released, or one attempt too many is made.       *)
ReattemptUnreleased(row) ==
  LET n == row.attempts + 1 IN
    IF n >= MaxAttempts
    THEN [row EXCEPT !.attempts = n, !.status = "failed"]
    ELSE [row EXCEPT !.attempts = n, !.due = FALSE]

ReattemptOnceMore(row) ==
  LET n == row.attempts + 1 IN
    IF n > MaxAttempts
    THEN [row EXCEPT !.attempts = n, !.status = "failed"]
    ELSE [row EXCEPT !.attempts = n, !.status = "pending", !.due = FALSE]

(* What the generic except clause does to a row of either queue: failed for *)
(* good, or pending again once _backoff(attempts) seconds have passed.      *)
Reattempt(row) ==
  LET n == row.attempts + 1 IN
    IF n >= MaxAttempts
    THEN [row EXCEPT !.attempts = n, !.status = "failed"]
    ELSE [row EXCEPT !.attempts = n, !.status = "pending", !.due = FALSE]

Due(queue) ==
  {k \in DOMAIN queue : queue[k].status = "pending" /\ queue[k].due}

(* Rows between two attempts.                                               *)
BackingOff(queue) ==
  {k \in DOMAIN queue : queue[k].status = "pending" /\ ~queue[k].due}

Active(row) == row.status \in {"pending", "in_progress"}

(* scheduled_at of one row passes.  Rows back off on clocks of their own.   *)
Elapse(queue, k) == [queue EXCEPT ![k].due = TRUE]
==============================================================================
