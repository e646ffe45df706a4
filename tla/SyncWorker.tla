----------------------------- MODULE SyncWorker -----------------------------
(****************************************************************************)
(* The polling loop of app/workers/sync_worker.py, one per process.  A      *)
(* worker alternates between the two queues: it claims up to MaxBatch due   *)
(* rows (FOR UPDATE SKIP LOCKED, status in_progress, commit), then works    *)
(* them off one by one, and only then turns to the other queue.  How one    *)
(* row is executed is in SyncExecutor and WebhookHandler; this module       *)
(* claims rows, commits outcomes, handles errors, and crashes.              *)
(****************************************************************************)
EXTENDS QuickBooks

CONSTANTS Workers,     \* worker processes
          MaxBatch,    \* _MAX_BATCH
          MaxCrashes   \* bound: processes killed

ASSUME SyncWorkerAssumption == MaxBatch \in Nat \ {0} /\ MaxCrashes \in Nat

VARIABLES phase,    \* the queue whose turn it is
          batch,    \* ids the worker has claimed and not finished
          work,     \* the row being executed and the session's objects
          crashes

workerVars == <<phase, batch, work, crashes>>

(* Where the execution of a row stands: waiting to send a request to        *)
(* QuickBooks (Calls), about to commit (CommitPoints, and "claim"), or in   *)
(* an except clause ("raised", "conflict").                                 *)
Calls == {"create", "query", "update", "reread", "repost", "delete", "void",
          "fetch"}

CommitPoints == {"skip", "insert", "write", "rewrite"}

Points ==
  Calls \cup CommitPoints \cup {"idle", "down", "claim", "raised", "conflict"}

Task == [at : Points, id : Nat, inv : Nat, loaded : Row, obj : Row]

Idle == [at |-> "idle", id |-> 0, inv |-> 0,
         loaded |-> Blank, obj |-> Blank]

WorkerTypeOK ==
  /\ phase \in [Workers -> {"jobs", "events"}]
  /\ batch \in [Workers -> SUBSET Nat]
  /\ work \in [Workers -> Task]
  /\ \A w \in Workers : work[w].inv \in {0} \cup DOMAIN invoices
  /\ crashes \in 0 .. MaxCrashes

WorkerInit ==
  /\ phase = [w \in Workers |-> "jobs"]
  /\ batch = [w \in Workers |-> {}]
  /\ work = [w \in Workers |-> Idle]
  /\ crashes = 0
------------------------------------------------------------------------------
(* The event loop is free: the worker sleeps, its next turn is the jobs'.   *)
Asleep(w) == work[w].at = "idle" /\ batch[w] = {} /\ phase[w] = "jobs"

(* Invoices whose row a worker has flushed and not yet committed: the token *)
(* refresh of an update conflict, held across the second request.           *)
LockedBy(v) == IF /\ work[v].at \in {"repost", "rewrite"}
                  /\ work[v].obj.token # work[v].loaded.token
               THEN {work[v].inv} ELSE {}

Locked == UNION {LockedBy(v) : v \in Workers}

LockedByOthers(w) == UNION {LockedBy(v) : v \in Workers \ {w}}

(* Mutant: a plain SELECT, without FOR UPDATE SKIP LOCKED.                  *)
SelectedUnlocked(q) == {}

(* Queue rows a worker has selected FOR UPDATE and not yet committed.       *)
Selected(q) == UNION {batch[v] : v \in {v \in Workers : work[v].at = "claim"
                                                      /\ phase[v] = q}}

(* Any full batch of the rows: the query has a LIMIT and no ORDER BY.       *)
Batches(rows) ==
  {b \in SUBSET rows : IF Cardinality(rows) <= MaxBatch
                       THEN b = rows ELSE Cardinality(b) = MaxBatch}

Other(q) == IF q = "jobs" THEN "events" ELSE "jobs"

(* SELECT ... FOR UPDATE SKIP LOCKED LIMIT; with no row, the batch is over. *)
Select(w, q, queue) ==
  LET rows == Due(queue) \ Selected(q) IN
    /\ phase[w] = q
    /\ work[w].at = "idle"
    /\ batch[w] = {}
    /\ \/ /\ rows = {}
          /\ phase' = [phase EXCEPT ![w] = Other(q)]
          /\ UNCHANGED <<batch, work>>
       \/ /\ rows # {}
          /\ \E ids \in Batches(rows) : batch' = [batch EXCEPT ![w] = ids]
          /\ work' = [work EXCEPT ![w].at = "claim"]
          /\ UNCHANGED phase
    /\ UNCHANGED <<storeVars, qboVars, crashes>>

PollJobs(w) == Select(w, "jobs", jobs)

PollEvents(w) == Select(w, "events", events)

(* The rows become in_progress and the commit releases their locks.         *)
Claimed(queue, ids) ==
  [k \in DOMAIN queue |->
    IF k \in ids THEN [queue[k] EXCEPT !.status = "in_progress"] ELSE queue[k]]

ClaimJobs(w) ==
  /\ phase[w] = "jobs"
  /\ work[w].at = "claim"
  /\ jobs' = Claimed(jobs, batch[w])
  /\ work' = [work EXCEPT ![w].at = "idle"]
  /\ UNCHANGED <<invoices, audit, events, qboVars, phase, batch, crashes>>

ClaimEvents(w) ==
  /\ phase[w] = "events"
  /\ work[w].at = "claim"
  /\ events' = Claimed(events, batch[w])
  /\ work' = [work EXCEPT ![w].at = "idle"]
  /\ UNCHANGED <<invoices, audit, jobs, qboVars, phase, batch, crashes>>
------------------------------------------------------------------------------
Move(w, task) == work' = [work EXCEPT ![w] = task]

Raise(w, what) == Move(w, [work[w] EXCEPT !.at = what])

(* The row is finished; after the last one the other queue is next.         *)
Finish(w) ==
  /\ batch' = [batch EXCEPT ![w] = @ \ {work[w].id}]
  /\ phase' = [phase EXCEPT ![w] =
       IF batch[w] # {work[w].id} THEN @
       ELSE Other(@)]
  /\ Move(w, Idle)

(* A request may fail without reaching QuickBooks (or be answered 5xx), and *)
(* a commit at the database: both raise inside the try of the row.          *)
AttemptFails(w) ==
  /\ work[w].at \in Calls \cup CommitPoints
  /\ NetworkFault
  /\ Raise(w, "raised")
  /\ UNCHANGED <<storeVars, qbo, notes, edits, phase, batch, crashes>>

(* The commit after a handler returned: its writes and the row's status.    *)
Persist(w) ==
  \/ /\ work[w].at = "skip"
     /\ UNCHANGED <<invoices, audit>>
  \/ /\ work[w].at \in {"write", "rewrite"}
     /\ SaveInvoice(work[w].inv, work[w].loaded, work[w].obj, LockedByOthers(w))
  \/ /\ work[w].at = "insert"
     /\ AddInvoice(work[w].obj)

CompleteJob(w) ==
  /\ phase[w] = "jobs"
  /\ Persist(w)
  /\ jobs' = [jobs EXCEPT ![work[w].id].status = "completed"]
  /\ Finish(w)
  /\ UNCHANGED <<events, qboVars, crashes>>

CompleteEvent(w) ==
  /\ phase[w] = "events"
  /\ Persist(w)
  /\ events' = [events EXCEPT ![work[w].id].status = "completed"]
  /\ Finish(w)
  /\ UNCHANGED <<jobs, qboVars, crashes>>

(* Mutant: a job that fails for good leaves its invoice as it is.           *)
RetryJobUnmarked(w) ==
  /\ phase[w] = "jobs"
  /\ work[w].at = "raised"
  /\ jobs' = [jobs EXCEPT ![work[w].id] =
       [Reattempt(@) EXCEPT !.error = "error"]]
  /\ Finish(w)
  /\ UNCHANGED <<invoices, audit, events, qboVars, crashes>>

(* except Exception: rollback drops every change of the session; the job is *)
(* rescheduled, or fails for good together with its invoice.                *)
RetryJob(w) ==
  LET j == work[w].id  failed == Reattempt(jobs[j]) IN
    /\ phase[w] = "jobs"
    /\ work[w].at = "raised"
    /\ jobs' = [jobs EXCEPT ![j] = [failed EXCEPT !.error = "error"]]
    /\ IF failed.status = "failed"
       THEN /\ work[w].inv \notin LockedByOthers(w)
            /\ invoices' = [invoices EXCEPT ![work[w].inv].sync = "failed"]
       ELSE UNCHANGED invoices
    /\ Finish(w)
    /\ UNCHANGED <<audit, events, qboVars, crashes>>

(* except ConflictError: rollback here too, and the job fails at once.      *)
AbortJob(w) ==
  /\ phase[w] = "jobs"
  /\ work[w].at = "conflict"
  /\ jobs' = [jobs EXCEPT ![work[w].id] =
       [@ EXCEPT !.attempts = MaxAttempts, !.status = "failed",
                 !.error = "conflict"]]
  /\ Finish(w)
  /\ UNCHANGED <<invoices, audit, events, qboVars, crashes>>

RetryEvent(w) ==
  /\ phase[w] = "events"
  /\ work[w].at = "raised"
  /\ events' = [events EXCEPT ![work[w].id] = Reattempt(@)]
  /\ Finish(w)
  /\ UNCHANGED <<invoices, audit, jobs, qboVars, crashes>>
------------------------------------------------------------------------------
(* The process dies, or an error escapes the batch (the commit of a claim   *)
(* or of an except clause fails): uncommitted work is rolled back, claimed  *)
(* rows stay in_progress.                                                   *)
Crash(w) ==
  /\ crashes < MaxCrashes
  /\ work[w].at # "down"
  /\ crashes' = crashes + 1
  /\ Move(w, [Idle EXCEPT !.at = "down"])
  /\ batch' = [batch EXCEPT ![w] = {}]
  /\ phase' = [phase EXCEPT ![w] = "jobs"]
  /\ UNCHANGED <<storeVars, qboVars>>

Restart(w) ==
  /\ work[w].at = "down"
  /\ Move(w, Idle)
  /\ UNCHANGED <<storeVars, qboVars, phase, batch, crashes>>

(* A row's backoff is over.                                                 *)
Wakes ==
  /\ \/ /\ \E j \in BackingOff(jobs) : jobs' = Elapse(jobs, j)
        /\ UNCHANGED events
     \/ /\ \E e \in BackingOff(events) : events' = Elapse(events, e)
        /\ UNCHANGED jobs
  /\ UNCHANGED <<invoices, audit, qboVars, workerVars>>

LoopStep(w) ==
  \/ PollJobs(w) \/ PollEvents(w) \/ ClaimJobs(w) \/ ClaimEvents(w)
  \/ CompleteJob(w) \/ RetryJob(w) \/ AbortJob(w)
  \/ CompleteEvent(w) \/ RetryEvent(w)
==============================================================================
