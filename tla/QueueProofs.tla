----------------------------- MODULE QueueProofs -----------------------------
(****************************************************************************)
(* Both queues implement WorkQueue, for every number of workers, attempts   *)
(* and crashes.  First what a step does to the rows a worker has taken,     *)
(* then what it does to the rows shown, then one step lemma per queue.      *)
(* From there, what a crash costs: serving a queue leaves no row behind,    *)
(* and a worker that dies holds MaxBatch rows at most.                      *)
(****************************************************************************)
EXTENDS SyncProofs, FiniteSetTheorems

Queues == {"jobs", "events"}
------------------------------------------------------------------------------
(* A worker that goes on with a row neither takes nor gives back any.       *)
LEMMA TakenStays ==
  ASSUME QueueInvariant, NEW w \in Workers, NEW task, Move(w, task),
         work[w].at # "claim", task.at # "claim", UNCHANGED <<phase, batch>>,
         NEW q \in Queues
  PROVE  UNCHANGED Taken(q)
<1>1. \A v \in Workers : work'[v] = IF v = w THEN task ELSE work[v]
  BY DEF Move, QueueInvariant, TypeOK, WorkerTypeOK
<1> QED BY <1>1 DEF Taken

(* Selecting rows takes none: the claim is not committed yet.               *)
LEMMA TakenSelect ==
  ASSUME QueueInvariant, NEW w \in Workers, NEW p \in Queues, NEW queue,
         Select(w, p, queue), NEW q \in Queues
  PROVE  UNCHANGED Taken(q)
<1>1. /\ work \in [Workers -> Task] /\ phase \in [Workers -> {"jobs", "events"}]
      /\ batch \in [Workers -> SUBSET Nat]
  BY DEF QueueInvariant, TypeOK, WorkerTypeOK
<1>2. batch[w] = {}
  BY DEF Select
<1>3. \A v \in Workers : v # w =>
        batch'[v] = batch[v] /\ phase'[v] = phase[v] /\ work'[v] = work[v]
  BY <1>1 DEF Select
<1>4. batch'[w] = {} \/ work'[w].at = "claim"
  BY <1>1, <1>2 DEF Select, Task
<1> QED BY <1>2, <1>3, <1>4 DEF Taken

(* The commit of a claim takes the rows selected, from one queue only.      *)
LEMMA TakenClaim ==
  ASSUME QueueInvariant, NEW w \in Workers, work[w].at = "claim",
         work' = [work EXCEPT ![w].at = "idle"], UNCHANGED <<phase, batch>>,
         NEW q \in Queues
  PROVE  /\ Taken(q)[w] = {}
         /\ phase[w] = q => Taken(q)' = [Taken(q) EXCEPT ![w] = batch[w]]
         /\ phase[w] # q => UNCHANGED Taken(q)
<1>1. work \in [Workers -> Task]
  BY DEF QueueInvariant, TypeOK, WorkerTypeOK
<1>2. \A v \in Workers : v # w => work'[v] = work[v]
  BY <1>1
<1>3. work'[w].at = "idle"
  BY <1>1 DEF Task
<1> QED BY <1>2, <1>3 DEF Taken

(* The outcome of a row gives that row back, and none of the other queue.   *)
LEMMA TakenFinish ==
  ASSUME QueueInvariant, NEW w \in Workers, Finish(w),
         work[w].at \notin {"idle", "down", "claim"}, NEW q \in Queues
  PROVE  /\ phase[w] = q => /\ work[w].id \in Taken(q)[w]
                            /\ Taken(q)' = [Taken(q) EXCEPT ![w] = @ \ {work[w].id}]
         /\ phase[w] # q => UNCHANGED Taken(q)
<1> DEFINE id == work[w].id
<1>1. /\ work \in [Workers -> Task] /\ phase \in [Workers -> {"jobs", "events"}]
      /\ batch \in [Workers -> SUBSET Nat]
  BY DEF QueueInvariant, TypeOK, WorkerTypeOK
<1>2. id \in batch[w]
  BY DEF QueueInvariant, WorksOnItsBatch
<1>3. \A v \in Workers : v # w =>
        batch'[v] = batch[v] /\ phase'[v] = phase[v] /\ work'[v] = work[v]
  BY <1>1 DEF Finish, Move
<1>4. /\ batch'[w] = batch[w] \ {id} /\ work'[w].at = "idle"
      /\ phase'[w] = phase[w] \/ batch'[w] = {}
  BY <1>1, <1>2 DEF Finish, Move, Idle
<1> QED BY <1>2, <1>3, <1>4 DEF Taken

(* A process that dies gives up everything it had taken.                    *)
LEMMA TakenCrash ==
  ASSUME QueueInvariant, NEW w \in Workers, Crash(w), NEW q \in Queues
  PROVE  Taken(q)' = [Taken(q) EXCEPT ![w] = {}]
<1>1. /\ work \in [Workers -> Task] /\ phase \in [Workers -> {"jobs", "events"}]
      /\ batch \in [Workers -> SUBSET Nat]
  BY DEF QueueInvariant, TypeOK, WorkerTypeOK
<1>2. batch'[w] = {}
  BY <1>1 DEF Crash
<1>3. \A v \in Workers : v # w =>
        batch'[v] = batch[v] /\ phase'[v] = phase[v] /\ work'[v] = work[v]
  BY <1>1 DEF Crash, Move
<1> QED BY <1>2, <1>3 DEF Taken

(* The steps between claim and outcome leave the tables and claims alone.   *)
LEMMA WorkingStays ==
  ASSUME QueueInvariant, NEW w \in Workers, NEW q \in Queues,
         ExecutorStep(w) \/ HandlerStep(w) \/ AttemptFails(w) \/ Restart(w)
  PROVE  UNCHANGED <<jobs, events, Taken(q)>>
<1>1. work[w] \in Task
  BY WorkType
<1>2. ASSUME NEW task, Move(w, task), task.at # "claim", work[w].at # "claim",
             UNCHANGED <<storeVars, phase, batch>>
      PROVE  UNCHANGED <<jobs, events, Taken(q)>>
  BY <1>2, TakenStays DEF storeVars
<1>3. ASSUME NEW at, at # "claim", Raise(w, at), work[w].at # "claim",
             UNCHANGED <<storeVars, phase, batch>>
      PROVE  UNCHANGED <<jobs, events, Taken(q)>>
  <2>1. [work[w] EXCEPT !.at = at].at # "claim"
    BY <1>1, <1>3 DEF Task
  <2> QED BY <1>2, <1>3, <2>1 DEF Raise
<1>4. ASSUME NEW at, at # "claim", NEW obj, work[w].at # "claim",
             Move(w, [work[w] EXCEPT !.at = at, !.obj = obj]),
             UNCHANGED <<storeVars, phase, batch>>
      PROVE  UNCHANGED <<jobs, events, Taken(q)>>
  <2>1. [work[w] EXCEPT !.at = at, !.obj = obj].at # "claim"
    BY <1>1, <1>4 DEF Task
  <2> QED BY <1>2, <1>4, <2>1
<1>5. ASSUME NEW commit, commit # "claim", NEW obj, Answered(w, commit, obj),
             work[w].at # "claim", UNCHANGED <<storeVars, phase, batch>>
      PROVE  UNCHANGED <<jobs, events, Taken(q)>>
  BY <1>3, <1>4, <1>5 DEF Answered
<1>6. CASE ExecutorStep(w)
  <2>1. UNCHANGED <<storeVars, phase, batch>>
    BY <1>6 DEF ExecutorStep, BeginJob, PostCreate, QueryByDocNumber, PostUpdate,
       PostDeleteOrVoid, Rejected, Reread, ExecutorFrame
  <2>2. CASE BeginJob(w)
    <3>1. \A job \in Job : \A row : Entry(job, row) # "claim"
      BY DEF Entry, Job
    <3>2. PICK j \in batch[w] :
            LET row == invoices[jobs[j].inv] IN
              Move(w, [at |-> Entry(jobs[j], row), id |-> j, inv |-> jobs[j].inv,
                       loaded |-> row, obj |-> row])
      BY <2>2 DEF BeginJob
    <3>3. jobs[j] \in Job
      BY <2>2, LenProperties
         DEF BeginJob, QueueInvariant, HoldsItsQueue, QueueOf, TypeOK, StoreTypeOK
    <3> QED BY <1>2, <2>1, <2>2, <3>1, <3>2, <3>3 DEF BeginJob
  <2>3. CASE PostCreate(w)
    BY <1>5, <2>1, <2>3 DEF PostCreate
  <2>4. CASE QueryByDocNumber(w)
    <3>1. \/ Move(w, [work[w] EXCEPT !.at = "create"])
          \/ \E obj : Move(w, [work[w] EXCEPT !.at = "write", !.obj = obj])
      BY <1>1, <2>4 DEF QueryByDocNumber, Task
    <3>2. work[w].at # "claim"
      BY <2>4 DEF QueryByDocNumber
    <3> QED BY <1>3, <1>4, <2>1, <3>1, <3>2 DEF Raise
  <2>5. CASE PostUpdate(w)
    BY <1>5, <2>1, <2>5 DEF PostUpdate
  <2>6. CASE PostDeleteOrVoid(w)
    BY <1>5, <2>1, <2>6 DEF PostDeleteOrVoid
  <2>7. CASE Rejected(w)
    BY <1>3, <2>1, <2>7 DEF Rejected
  <2>8. CASE Reread(w)
    <3>1. \/ Raise(w, "raised") \/ Raise(w, "conflict")
          \/ \E obj : Move(w, [work[w] EXCEPT !.at = "repost", !.obj = obj])
      <4>1. \A token : [work[w] EXCEPT !.at = "repost", !.obj.token = token]
              = [work[w] EXCEPT !.at = "repost", !.obj = [work[w].obj EXCEPT !.token = token]]
        BY <1>1 DEF Task, Row
      <4> QED BY <2>8, <4>1 DEF Reread
    <3>2. work[w].at # "claim"
      BY <2>8 DEF Reread
    <3> QED BY <1>3, <1>4, <2>1, <3>1, <3>2
  <2> QED BY <1>6, <2>2, <2>3, <2>4, <2>5, <2>6, <2>7, <2>8 DEF ExecutorStep
<1>7. CASE BeginEvent(w)
  <2>1. UNCHANGED <<storeVars, phase, batch>> /\ work[w].at # "claim"
    BY <1>7 DEF BeginEvent, HandlerFrame
  <2>2. \A e, i, at, obj : Begun(e, i, at, obj).at = at
    BY DEF Begun
  <2>3. \E e, i, obj, at : at # "claim" /\ Move(w, Begun(e, i, at, obj))
    <3>1. PICK e \in batch[w] :
            \/ BeginAmbiguous(w, e, Lookup(notes[e].ext))
            \/ BeginCreated(w, e, Lookup(notes[e].ext))
            \/ BeginUpdated(w, e, Lookup(notes[e].ext))
            \/ BeginDeleted(w, e, Lookup(notes[e].ext))
            \/ BeginVoided(w, e, Lookup(notes[e].ext))
      BY <1>7 DEF BeginEvent
    <3> QED BY <3>1 DEF BeginAmbiguous, BeginCreated, BeginUpdated, BeginDeleted,
               BeginVoided, Skipped
  <2> QED BY <1>2, <2>1, <2>2, <2>3
<1>8. CASE Fetch(w)
  <2>1. UNCHANGED <<storeVars, phase, batch>> /\ work[w].at # "claim"
    BY <1>8 DEF Fetch, HandlerFrame
  <2>2. \/ \E at : at # "claim" /\ Raise(w, at)
        \/ \E at, obj : at # "claim" /\ Move(w, [work[w] EXCEPT !.at = at, !.obj = obj])
        \/ \E task : task.at # "claim" /\ Move(w, task)
    <3> DEFINE n == notes[work[w].id]
               q1 == qbo[n.realm][n.ext]
    <3>1. CASE FetchMissing(w, n)
      BY <3>1 DEF FetchMissing
    <3>2. CASE FetchCreated(w, n, q1)
      BY <3>2 DEF FetchCreated, Raise
    <3>3. CASE FetchUpdated(w, n, q1)
      BY <1>1, <3>3 DEF FetchUpdated, Raise, Task
    <3> QED BY <1>8, <3>1, <3>2, <3>3 DEF Fetch
  <2> QED BY <1>2, <1>3, <1>4, <2>1, <2>2
<1>9. CASE AttemptFails(w)
  BY <1>3, <1>9 DEF AttemptFails, Calls, CommitPoints
<1>10. CASE Restart(w)
  BY <1>2, <1>10 DEF Restart, Idle
<1> QED BY <1>6, <1>7, <1>8, <1>9, <1>10 DEF HandlerStep
------------------------------------------------------------------------------
(* What a queue shows of one row.                                           *)
ShownRow(row) == [status |-> row.status, attempts |-> row.attempts]

(* A queue shows its own rows, one by one.                                  *)
LEMMA ShownRows ==
  ASSUME NEW queue
  PROVE  /\ DOMAIN Shown(queue) = DOMAIN queue
         /\ \A k \in DOMAIN queue : Shown(queue)[k] = ShownRow(queue[k])
BY DEF Shown, ShownRow

(* One row written is one row shown written.                                *)
LEMMA ShownExcept ==
  ASSUME NEW queue, NEW k \in DOMAIN queue, NEW row
  PROVE  Shown([queue EXCEPT ![k] = row])
           = [Shown(queue) EXCEPT ![k] = ShownRow(row)]
BY DEF Shown, ShownRow

(* Rows of either table keep their attempts when they are claimed.          *)
LEMMA ShownClaimed ==
  ASSUME NEW queue, NEW ids \in SUBSET DOMAIN queue,
         \A k \in DOMAIN queue : queue[k] \in Job \/ queue[k] \in Event
  PROVE  Shown(Claimed(queue, ids)) = [k \in DOMAIN Shown(queue) |->
           IF k \in ids THEN [Shown(queue)[k] EXCEPT !.status = "in_progress"]
           ELSE Shown(queue)[k]]
<1> DEFINE new == Claimed(queue, ids)
<1>1. \A k \in DOMAIN queue : k \in ids =>
        ShownRow(new[k]) = [ShownRow(queue[k]) EXCEPT !.status = "in_progress"]
  <2> SUFFICES ASSUME NEW k \in DOMAIN queue, k \in ids
               PROVE  ShownRow(new[k])
                        = [ShownRow(queue[k]) EXCEPT !.status = "in_progress"]
    OBVIOUS
  <2>1. new[k] = [queue[k] EXCEPT !.status = "in_progress"]
    BY ClaimedRows
  <2>2. new[k].status = "in_progress" /\ new[k].attempts = queue[k].attempts
    BY <2>1, InProgressJob, InProgressEvent
  <2> QED BY <2>2 DEF ShownRow
<1>2. \A k \in DOMAIN queue : k \notin ids => new[k] = queue[k]
  BY ClaimedRows
<1>3. DOMAIN new = DOMAIN queue
  BY ClaimedRows
<1>4. /\ Shown(new) = [k \in DOMAIN queue |-> ShownRow(new[k])]
      /\ Shown(queue) = [k \in DOMAIN queue |-> ShownRow(queue[k])]
  BY <1>3 DEF Shown, ShownRow
<1> HIDE DEF new
<1>5. Shown(new) = [k \in DOMAIN Shown(queue) |->
           IF k \in ids THEN [Shown(queue)[k] EXCEPT !.status = "in_progress"]
           ELSE Shown(queue)[k]]
  BY <1>1, <1>2, <1>4
<1> QED BY <1>5 DEF new

(* A backoff that ends is not shown.                                        *)
LEMMA ShownElapsed ==
  ASSUME NEW queue, NEW k \in DOMAIN queue, queue[k] \in Job \/ queue[k] \in Event
  PROVE  Shown(Elapse(queue, k)) = Shown(queue)
<1> DEFINE row == [queue[k] EXCEPT !.due = TRUE]
<1>1. ShownRow(row) = ShownRow(queue[k])
  BY DEF Job, Event, ShownRow
<1>2. Elapse(queue, k) = [queue EXCEPT ![k] = row]
  BY DEF Elapse
<1> HIDE DEF row
<1>3. Shown([queue EXCEPT ![k] = row]) = [Shown(queue) EXCEPT ![k] = ShownRow(row)]
  BY ShownExcept
<1>4. Shown(queue)[k] = ShownRow(queue[k])
  BY ShownRows
<1> DEFINE s == Shown(queue)
<1>5. s = [x \in DOMAIN s |-> s[x]]
  BY DEF Shown
<1> HIDE DEF s
<1>6. [s EXCEPT ![k] = s[k]] = s
  BY <1>5
<1> QED BY <1>1, <1>2, <1>3, <1>4, <1>6 DEF s

(* The three ways the worker settles a row are the three outcomes.          *)
IsOutcome(old, new) ==
  \/ new.status = "completed" /\ new.attempts = old.attempts
  \/ new.status = "failed" /\ new.attempts = MaxAttempts
  \/ /\ new.status = "pending" /\ new.attempts = old.attempts + 1
     /\ new.attempts < MaxAttempts

(* What is shown of a settled row is an outcome of what was shown before.   *)
LEMMA SettledShown ==
  ASSUME NEW old, NEW new, IsOutcome(old, new)
  PROVE  /\ ShownRow(new) \in JobQueue!Outcomes(ShownRow(old))
         /\ ShownRow(new) \in EventQueue!Outcomes(ShownRow(old))
<1>1. ShownRow(old).attempts = old.attempts
  BY DEF ShownRow
<1>2. \/ ShownRow(new) = [status |-> "completed", attempts |-> old.attempts]
      \/ ShownRow(new) = [status |-> "failed", attempts |-> MaxAttempts]
      \/ /\ ShownRow(new) = [status |-> "pending", attempts |-> new.attempts]
         /\ new.attempts \in {m \in {old.attempts + 1} : m < MaxAttempts}
  BY DEF IsOutcome, ShownRow
<1> QED BY <1>1, <1>2, Zenon DEF JobQueue!Outcomes, EventQueue!Outcomes

(* An exception settles a row that has an attempt left.                     *)
LEMMA ReattemptSettles ==
  ASSUME NEW row, row \in Job \/ row \in Event, row.attempts < MaxAttempts
  PROVE  IsOutcome(row, Reattempt(row))
<1>1. row.attempts \in Nat
  BY StoreAssumption DEF Job, Event
<1> DEFINE n == row.attempts + 1
           last == [row EXCEPT !.attempts = n, !.status = "failed"]
           next == [row EXCEPT !.attempts = n, !.status = "pending", !.due = FALSE]
<1>2. /\ last.status = "failed" /\ last.attempts = n
      /\ next.status = "pending" /\ next.attempts = n
  BY DEF Job, Event
<1>3. Reattempt(row) = IF n >= MaxAttempts THEN last ELSE next
  BY DEF Reattempt
<1> HIDE DEF last, next
<1> QED BY <1>1, <1>2, <1>3, StoreAssumption DEF IsOutcome
------------------------------------------------------------------------------
(* Steps of the API, the users and the endpoint take no row.                *)
LEMMA TakenIdle ==
  ASSUME UNCHANGED workerVars, NEW q PROVE UNCHANGED Taken(q)
BY DEF workerVars, Taken

(* The row a worker has in hand is one of the queue whose turn it is.       *)
LEMMA InHand ==
  ASSUME QueueInvariant, NEW w \in Workers,
         work[w].at \notin {"idle", "down", "claim"}
  PROVE  /\ phase[w] = "jobs" => work[w].id \in DOMAIN jobs
         /\ phase[w] = "events" => work[w].id \in DOMAIN events
BY DEF QueueInvariant, WorksOnItsBatch, HoldsItsQueue, QueueOf

(* The rows of both queues are typed, and a batch is of rows of its queue.  *)
LEMMA QueueRows ==
  ASSUME QueueInvariant
  PROVE  /\ \A k \in DOMAIN jobs : jobs[k] \in Job
         /\ \A k \in DOMAIN events : events[k] \in Event
         /\ \A w \in Workers :
              /\ phase[w] \in {"jobs", "events"}
              /\ phase[w] = "jobs" => batch[w] \subseteq DOMAIN jobs
              /\ phase[w] = "events" => batch[w] \subseteq DOMAIN events
BY LenProperties DEF QueueInvariant, HoldsItsQueue, QueueOf, TypeOK, StoreTypeOK,
   WorkerTypeOK

(* The outcome of a job settles it.                                         *)
LEMMA JobSettles ==
  ASSUME QueueInvariant, NEW w \in Workers, phase[w] = "jobs",
         work[w].at \notin {"idle", "down", "claim"},
         NEW row, IsOutcome(jobs[work[w].id], row),
         jobs' = [jobs EXCEPT ![work[w].id] = row], Finish(w)
  PROVE  JobQueue!Serve
<1> DEFINE id == work[w].id
<1>1. id \in DOMAIN jobs
  BY InHand
<1>2. id \in Taken("jobs")[w] /\ Taken("jobs")' = [Taken("jobs") EXCEPT ![w] = @ \ {id}]
  BY TakenFinish DEF Queues
<1>3. Shown(jobs)' = [Shown(jobs) EXCEPT ![id] = ShownRow(row)]
  BY <1>1, ShownExcept
<1>4. id \in DOMAIN Shown(jobs) /\ Shown(jobs)[id] = ShownRow(jobs[id])
  BY <1>1, ShownRows
<1>5. ShownRow(row) \in JobQueue!Outcomes(Shown(jobs)[id])
  BY <1>4, SettledShown
<1> HIDE DEF id
<1>6. JobQueue!Settle(w, id)
  BY <1>2, <1>3, <1>5 DEF JobQueue!Settle
<1> QED BY <1>4, <1>6 DEF JobQueue!Serve

(* The outcome of an event settles it.                                      *)
LEMMA EventSettles ==
  ASSUME QueueInvariant, NEW w \in Workers, phase[w] = "events",
         work[w].at \notin {"idle", "down", "claim"},
         NEW row, IsOutcome(events[work[w].id], row),
         events' = [events EXCEPT ![work[w].id] = row], Finish(w)
  PROVE  EventQueue!Serve
<1> DEFINE id == work[w].id
<1>1. id \in DOMAIN events
  BY InHand
<1>2. /\ id \in Taken("events")[w]
      /\ Taken("events")' = [Taken("events") EXCEPT ![w] = @ \ {id}]
  BY TakenFinish DEF Queues
<1>3. Shown(events)' = [Shown(events) EXCEPT ![id] = ShownRow(row)]
  BY <1>1, ShownExcept
<1>4. id \in DOMAIN Shown(events) /\ Shown(events)[id] = ShownRow(events[id])
  BY <1>1, ShownRows
<1>5. ShownRow(row) \in EventQueue!Outcomes(Shown(events)[id])
  BY <1>4, SettledShown
<1> HIDE DEF id
<1>6. EventQueue!Settle(w, id)
  BY <1>2, <1>3, <1>5 DEF EventQueue!Settle
<1> QED BY <1>4, <1>6 DEF EventQueue!Serve

(* The commit of a claim takes jobs that were pending.                      *)
LEMMA ClaimTakesJobs ==
  ASSUME QueueInvariant, NEW w \in Workers, ClaimJobs(w)
  PROVE  JobQueue!Serve
<1>1. batch[w] \in SUBSET DOMAIN jobs
  BY QueueRows DEF ClaimJobs
<1>2. /\ Taken("jobs")[w] = {} /\ Taken("jobs")' = [Taken("jobs") EXCEPT ![w] = batch[w]]
  BY TakenClaim DEF ClaimJobs, Queues
<1>3. \A k \in batch[w] : Shown(jobs)[k].status = "pending"
  <2>1. \A k \in batch[w] : jobs[k].status = "pending"
    BY DEF ClaimJobs, QueueInvariant, OneOwner, QueueOf
  <2> QED BY <1>1, <2>1 DEF Shown
<1>4. Shown(jobs)' = [k \in DOMAIN Shown(jobs) |->
        IF k \in batch[w] THEN [Shown(jobs)[k] EXCEPT !.status = "in_progress"]
        ELSE Shown(jobs)[k]]
  BY <1>1, QueueRows, ShownClaimed DEF ClaimJobs
<1>5. JobQueue!Take(w, batch[w])
  BY <1>2, <1>3, <1>4 DEF JobQueue!Take
<1>6. batch[w] \in SUBSET DOMAIN Shown(jobs)
  BY <1>1, ShownRows
<1> QED BY <1>5, <1>6 DEF JobQueue!Serve

(* The commit of a claim takes events that were pending.                    *)
LEMMA ClaimTakesEvents ==
  ASSUME QueueInvariant, NEW w \in Workers, ClaimEvents(w)
  PROVE  EventQueue!Serve
<1>1. batch[w] \in SUBSET DOMAIN events
  BY QueueRows DEF ClaimEvents
<1>2. /\ Taken("events")[w] = {}
      /\ Taken("events")' = [Taken("events") EXCEPT ![w] = batch[w]]
  BY TakenClaim DEF ClaimEvents, Queues
<1>3. \A k \in batch[w] : Shown(events)[k].status = "pending"
  <2>1. \A k \in batch[w] : events[k].status = "pending"
    BY DEF ClaimEvents, QueueInvariant, OneOwner, QueueOf
  <2> QED BY <1>1, <2>1 DEF Shown
<1>4. Shown(events)' = [k \in DOMAIN Shown(events) |->
        IF k \in batch[w] THEN [Shown(events)[k] EXCEPT !.status = "in_progress"]
        ELSE Shown(events)[k]]
  BY <1>1, QueueRows, ShownClaimed DEF ClaimEvents
<1>5. EventQueue!Take(w, batch[w])
  BY <1>2, <1>3, <1>4 DEF EventQueue!Take
<1>6. batch[w] \in SUBSET DOMAIN Shown(events)
  BY <1>1, ShownRows
<1> QED BY <1>5, <1>6 DEF EventQueue!Serve

(* One turn of the polling loop is one step of the job queue, or none.      *)
LEMMA LoopOnJobs ==
  ASSUME QueueInvariant, NEW w \in Workers, LoopStep(w)
  PROVE  JobQueue!Serve \/ UNCHANGED JobQueue!queueVars
<1>1. ASSUME UNCHANGED <<jobs, Taken("jobs")>>
      PROVE  UNCHANGED JobQueue!queueVars
  BY <1>1 DEF JobQueue!queueVars, Shown
<1>2. CASE PollJobs(w) \/ PollEvents(w)
  BY <1>1, <1>2, TakenSelect DEF PollJobs, PollEvents, Select, storeVars, Queues
<1>3. CASE ClaimJobs(w)
  BY <1>3, ClaimTakesJobs
<1>4. CASE ClaimEvents(w)
  BY <1>1, <1>4, TakenClaim DEF ClaimEvents, Queues
<1>5. CASE CompleteJob(w)
  <2> DEFINE row == [jobs[work[w].id] EXCEPT !.status = "completed"]
  <2>1. work[w].at \notin {"idle", "down", "claim"} /\ phase[w] = "jobs" /\ Finish(w)
    BY <1>5, PersistType DEF CompleteJob
  <2>2. IsOutcome(jobs[work[w].id], row)
    BY <2>1, MyJob DEF IsOutcome, Job
  <2>3. jobs' = [jobs EXCEPT ![work[w].id] = row]
    BY <1>5 DEF CompleteJob
  <2> QED BY <2>1, <2>2, <2>3, JobSettles
<1>6. CASE RetryJob(w)
  <2> DEFINE failed == Reattempt(jobs[work[w].id])
             row == [failed EXCEPT !.error = "error"]
  <2>1. work[w].at = "raised" /\ phase[w] = "jobs" /\ Finish(w)
    BY <1>6 DEF RetryJob
  <2>2. jobs' = [jobs EXCEPT ![work[w].id] = row]
    BY <1>6 DEF RetryJob
  <2>3. failed \in Job /\ IsOutcome(jobs[work[w].id], failed)
    BY <2>1, MyJob, ReattemptJob, ReattemptSettles
  <2> HIDE DEF failed
  <2>4. row.status = failed.status /\ row.attempts = failed.attempts
    BY <2>3 DEF Job
  <2>5. IsOutcome(jobs[work[w].id], row)
    BY <2>3, <2>4 DEF IsOutcome
  <2> QED BY <2>1, <2>2, <2>5, JobSettles
<1>7. CASE AbortJob(w)
  <2> DEFINE row == [jobs[work[w].id] EXCEPT !.attempts = MaxAttempts,
                       !.status = "failed", !.error = "conflict"]
  <2>1. work[w].at = "conflict" /\ phase[w] = "jobs" /\ Finish(w)
    BY <1>7 DEF AbortJob
  <2>2. jobs' = [jobs EXCEPT ![work[w].id] = row]
    BY <1>7 DEF AbortJob
  <2>3. IsOutcome(jobs[work[w].id], row)
    BY <2>1, MyJob DEF IsOutcome, Job
  <2> QED BY <2>1, <2>2, <2>3, JobSettles
<1>8. CASE CompleteEvent(w)
  BY <1>1, <1>8, PersistType, TakenFinish DEF CompleteEvent, Queues
<1>9. CASE RetryEvent(w)
  BY <1>1, <1>9, TakenFinish DEF RetryEvent, Queues
<1> QED BY <1>2, <1>3, <1>4, <1>5, <1>6, <1>7, <1>8, <1>9 DEF LoopStep

(* One turn of the polling loop is one step of the event queue, or none.    *)
LEMMA LoopOnEvents ==
  ASSUME QueueInvariant, NEW w \in Workers, LoopStep(w)
  PROVE  EventQueue!Serve \/ UNCHANGED EventQueue!queueVars
<1>1. ASSUME UNCHANGED <<events, Taken("events")>>
      PROVE  UNCHANGED EventQueue!queueVars
  BY <1>1 DEF EventQueue!queueVars, Shown
<1>2. CASE PollJobs(w) \/ PollEvents(w)
  BY <1>1, <1>2, TakenSelect DEF PollJobs, PollEvents, Select, storeVars, Queues
<1>3. CASE ClaimEvents(w)
  BY <1>3, ClaimTakesEvents
<1>4. CASE ClaimJobs(w)
  BY <1>1, <1>4, TakenClaim DEF ClaimJobs, Queues
<1>5. CASE CompleteEvent(w)
  <2> DEFINE row == [events[work[w].id] EXCEPT !.status = "completed"]
  <2>1. work[w].at \notin {"idle", "down", "claim"} /\ phase[w] = "events" /\ Finish(w)
    BY <1>5, PersistType DEF CompleteEvent
  <2>2. IsOutcome(events[work[w].id], row)
    BY <2>1, MyEvent DEF IsOutcome, Event
  <2>3. events' = [events EXCEPT ![work[w].id] = row]
    BY <1>5 DEF CompleteEvent
  <2> QED BY <2>1, <2>2, <2>3, EventSettles
<1>6. CASE RetryEvent(w)
  <2>1. work[w].at = "raised" /\ phase[w] = "events" /\ Finish(w)
    BY <1>6 DEF RetryEvent
  <2>2. events' = [events EXCEPT ![work[w].id] = Reattempt(events[work[w].id])]
    BY <1>6 DEF RetryEvent
  <2>3. IsOutcome(events[work[w].id], Reattempt(events[work[w].id]))
    BY <2>1, MyEvent, ReattemptSettles
  <2> QED BY <2>1, <2>2, <2>3, EventSettles
<1>7. CASE CompleteJob(w)
  BY <1>1, <1>7, PersistType, TakenFinish DEF CompleteJob, Queues
<1>8. CASE RetryJob(w)
  <2>1. work[w].at = "raised" /\ phase[w] = "jobs" /\ Finish(w) /\ UNCHANGED events
    BY <1>8 DEF RetryJob
  <2> QED BY <1>1, <2>1, TakenFinish DEF Queues
<1>9. CASE AbortJob(w)
  BY <1>1, <1>9, TakenFinish DEF AbortJob, Queues
<1> QED BY <1>2, <1>3, <1>4, <1>5, <1>6, <1>7, <1>8, <1>9 DEF LoopStep

(* A commit of the API adds one job, or none.                               *)
LEMMA ServiceAddsJobs ==
  ASSUME QueueInvariant, ServiceStep(Locked), UNCHANGED workerVars
  PROVE  /\ JobQueue!Serve \/ UNCHANGED JobQueue!queueVars
         /\ UNCHANGED EventQueue!queueVars
<1>1. UNCHANGED <<Taken("jobs"), Taken("events")>>
  BY TakenIdle
<1>2. UNCHANGED events /\ (UNCHANGED jobs \/ \E i, op : EnqueueJob(i, op))
  BY DEF ServiceStep, CreateInvoice, Commit, BeginUpdate, BeginDelete, BeginVoid,
         Begin, storeVars
<1>3. ASSUME NEW i, NEW op, EnqueueJob(i, op)
      PROVE  JobQueue!Serve
  <2> DEFINE k == Len(jobs) + 1
             row == [inv |-> i, op |-> op, status |-> "pending",
                     attempts |-> 0, due |-> TRUE, error |-> "none"]
  <2>1. jobs \in Seq(Job) /\ DOMAIN jobs = 1 .. Len(jobs) /\ Len(jobs) \in Nat
    BY LenProperties DEF QueueInvariant, TypeOK, StoreTypeOK
  <2>2. jobs' = Append(jobs, row)
    BY <1>3 DEF EnqueueJob
  <2>3. row.status = "pending" /\ row.attempts = 0
    OBVIOUS
  <2> HIDE DEF row
  <2>4. DOMAIN jobs' = 1 .. k /\ jobs'[k] = row /\ \A x \in DOMAIN jobs : jobs'[x] = jobs[x]
    BY <2>1, <2>2
  <2>5. k \notin DOMAIN jobs /\ DOMAIN jobs' = DOMAIN jobs \cup {k}
    BY <2>1, <2>4
  <2> HIDE DEF k
  <2>6. Shown(jobs)' = [x \in DOMAIN Shown(jobs) \cup {k} |->
          IF x = k THEN [status |-> "pending", attempts |-> 0] ELSE Shown(jobs)[x]]
    BY <2>3, <2>4, <2>5 DEF Shown
  <2>7. k \notin DOMAIN Shown(jobs) /\ k \in DOMAIN Shown(jobs)'
    BY <2>5, <2>6, ShownRows
  <2>8. JobQueue!Add(k)
    BY <1>1, <2>6, <2>7 DEF JobQueue!Add, JobQueue!New
  <2> QED BY <2>7, <2>8 DEF JobQueue!Serve
<1> QED BY <1>1, <1>2, <1>3 DEF JobQueue!queueVars, EventQueue!queueVars, Shown

(* The endpoint adds one event, or none: the loser of a race adds nothing.  *)
LEMMA EndpointAddsEvents ==
  ASSUME QueueInvariant, NEW w \in Workers, EndpointStep(w)
  PROVE  /\ UNCHANGED JobQueue!queueVars
         /\ EventQueue!Serve \/ UNCHANGED EventQueue!queueVars
<1>1. UNCHANGED <<jobs, Taken("jobs"), Taken("events")>>
  BY TakenIdle DEF EndpointStep, StoreEvent, CheckStored, storeVars
<1>2. \/ UNCHANGED events
      \/ intake[w] \notin DOMAIN events /\ events' = WithEvent(intake[w])
  BY DEF EndpointStep, StoreEvent, CheckStored, storeVars
<1>3. ASSUME NEW n, n \notin DOMAIN events, events' = WithEvent(n)
      PROVE  EventQueue!Serve
  <2>1. /\ DOMAIN events' = DOMAIN events \cup {n}
        /\ \A x \in DOMAIN events : events'[x] = events[x]
        /\ events'[n].status = "pending" /\ events'[n].attempts = 0
    BY <1>3 DEF WithEvent
  <2>2. Shown(events)' = [x \in DOMAIN Shown(events) \cup {n} |->
          IF x = n THEN [status |-> "pending", attempts |-> 0] ELSE Shown(events)[x]]
    BY <1>3, <2>1 DEF Shown
  <2>3. n \notin DOMAIN Shown(events) /\ n \in DOMAIN Shown(events)'
    BY <1>3, <2>2, ShownRows
  <2>4. EventQueue!Add(n)
    BY <1>1, <2>2, <2>3 DEF EventQueue!Add, EventQueue!New
  <2> QED BY <2>3, <2>4 DEF EventQueue!Serve
<1> QED BY <1>1, <1>2, <1>3 DEF JobQueue!queueVars, EventQueue!queueVars, Shown

(* A process that dies lets go of its rows in both queues.                  *)
LEMMA CrashIsDeath ==
  ASSUME QueueInvariant, NEW w \in Workers, Crash(w)
  PROVE  JobQueue!Next /\ EventQueue!Next
<1>1. UNCHANGED <<jobs, events>>
  BY DEF Crash, storeVars
<1>2. JobQueue!Die(w) /\ EventQueue!Die(w)
  BY <1>1, TakenCrash DEF JobQueue!Die, EventQueue!Die, Queues, Shown
<1> QED BY <1>2 DEF JobQueue!Next, EventQueue!Next

(* Every step but a crash serves each queue, or shows in neither.           *)
LEMMA ServesTheQueues ==
  ASSUME QueueInvariant, [Next]_vars, ~\E w \in Workers : Crash(w)
  PROVE  /\ JobQueue!Serve \/ UNCHANGED JobQueue!queueVars
         /\ EventQueue!Serve \/ UNCHANGED EventQueue!queueVars
<1> DEFINE Goal == /\ JobQueue!Serve \/ UNCHANGED JobQueue!queueVars
                   /\ EventQueue!Serve \/ UNCHANGED EventQueue!queueVars
<1> SUFFICES Goal
  OBVIOUS
<1>1. ASSUME UNCHANGED <<jobs, events, Taken("jobs"), Taken("events")>> PROVE Goal
  BY <1>1 DEF JobQueue!queueVars, EventQueue!queueVars, Shown
<1>2. ASSUME UNCHANGED <<jobs, events, workerVars>> PROVE Goal
  BY <1>1, <1>2, TakenIdle
<1> HIDE DEF Goal
<1>3. CASE ServiceStep(Locked) /\ UNCHANGED workerVars
  BY <1>3, ServiceAddsJobs DEF Goal
<1>4. ASSUME NEW w \in Workers, EndpointStep(w) PROVE Goal
  BY <1>4, EndpointAddsEvents DEF Goal
<1>5. ASSUME UNCHANGED storeVars, UNCHANGED workerVars PROVE Goal
  BY <1>2, <1>5 DEF storeVars
<1>6. ASSUME NEW w \in Workers, WorkerStep(w) PROVE Goal
  <2>1. CASE LoopStep(w)
    BY <2>1, LoopOnJobs, LoopOnEvents DEF Goal
  <2>2. CASE ExecutorStep(w) \/ HandlerStep(w)
    BY <1>1, <2>2, WorkingStays DEF Queues
  <2> QED BY <1>6, <2>1, <2>2 DEF WorkerStep
<1>7. ASSUME NEW w \in Workers, AttemptFails(w) \/ Restart(w) PROVE Goal
  BY <1>1, <1>7, WorkingStays DEF Queues
<1>9. CASE Wakes
  <2>1. UNCHANGED workerVars /\ UNCHANGED <<Taken("jobs"), Taken("events")>>
    BY <1>9, TakenIdle DEF Wakes
  <2>2. ASSUME NEW k \in BackingOff(jobs), jobs' = Elapse(jobs, k)
        PROVE  Shown(jobs)' = Shown(jobs)
    BY <2>2, QueueRows, ShownElapsed DEF BackingOff
  <2>3. ASSUME NEW k \in BackingOff(events), events' = Elapse(events, k)
        PROVE  Shown(events)' = Shown(events)
    BY <2>3, QueueRows, ShownElapsed DEF BackingOff
  <2>4. UNCHANGED <<Shown(jobs), Shown(events)>>
    BY <1>9, <2>2, <2>3 DEF Wakes, Shown
  <2> QED BY <2>1, <2>4 DEF Goal, JobQueue!queueVars, EventQueue!queueVars
<1>10. ASSUME NEW n, RepeatUnidentified(n) PROVE Goal
  BY <1>5, <1>10 DEF RepeatUnidentified
<1>11. CASE UNCHANGED vars
  <2>1. UNCHANGED storeVars /\ UNCHANGED workerVars
    BY <1>11 DEF vars
  <2> QED BY <1>5, <2>1
<1>12. CASE UserStep /\ UNCHANGED <<storeVars, workerVars, request, endpointVars>>
  <2>1. UNCHANGED storeVars /\ UNCHANGED workerVars
    BY <1>12
  <2> QED BY <1>5, <2>1
<1>13. CASE ServiceStep(Locked) /\ UNCHANGED <<qboVars, workerVars, endpointVars>>
  <2>1. ServiceStep(Locked) /\ UNCHANGED workerVars
    BY <1>13
  <2> QED BY <1>3, <2>1
<1> QED BY <1>4, <1>6, <1>7, <1>9, <1>10, <1>11, <1>12, <1>13 DEF Next

(* Every step of the service is a step of each queue, or shows in neither.  *)
LEMMA StepsOfTheQueues ==
  ASSUME QueueInvariant, [Next]_vars
  PROVE  /\ [JobQueue!Next]_(JobQueue!queueVars)
         /\ [EventQueue!Next]_(EventQueue!queueVars)
<1>1. ASSUME NEW w \in Workers, Crash(w) PROVE JobQueue!Next /\ EventQueue!Next
  BY <1>1, CrashIsDeath
<1>2. CASE ~\E w \in Workers : Crash(w)
  BY <1>2, ServesTheQueues DEF JobQueue!Next, EventQueue!Next
<1> QED BY <1>1, <1>2

(* Two empty queues to begin with.                                          *)
LEMMA EmptyQueues == Init => JobQueue!Init /\ EventQueue!Init
<1> SUFFICES ASSUME Init PROVE JobQueue!Init /\ EventQueue!Init
  OBVIOUS
<1>1. jobs = <<>> /\ events = <<>> /\ batch = [w \in Workers |-> {}]
  BY DEF Init, StoreInit, WorkerInit
<1>2. \A q : Taken(q) = [w \in Workers |-> {}]
  BY <1>1 DEF Taken
<1>3. /\ Shown(jobs) = [k \in {} |-> [status |-> "pending", attempts |-> 0]]
      /\ Shown(events) = [k \in {} |-> [status |-> "pending", attempts |-> 0]]
  BY <1>1 DEF Shown
<1> QED BY <1>2, <1>3 DEF JobQueue!Init, EventQueue!Init, JobQueue!New, EventQueue!New

(* sync_jobs is a WorkQueue: with any number of workers a job has one       *)
(* holder at a time, MaxAttempts attempts at most and one final outcome,    *)
(* and only a crash leaves it with no holder.                               *)
THEOREM JobsImplementQueue == Spec => JobsAreAQueue
BY EmptyQueues, StepsOfTheQueues, InvariantHolds, PTL
   DEF Spec, JobsAreAQueue, JobQueue!Spec

(* webhook_events is a WorkQueue too: of the processes that store one       *)
(* cloudevent_id at once, one adds the row and the others add nothing.      *)
THEOREM EventsImplementQueue == Spec => EventsAreAQueue
BY EmptyQueues, StepsOfTheQueues, InvariantHolds, PTL
   DEF Spec, EventsAreAQueue, EventQueue!Spec
------------------------------------------------------------------------------
(* The rows of a queue nobody has taken and nobody will take.               *)
Left(rows, held) ==
  {k \in DOMAIN rows :
    rows[k].status = "in_progress" /\ \A w \in Workers : k \notin held[w]}

(* In both queues they are the abandoned rows of the table: what a worker   *)
(* has selected and not claimed is pending still.                           *)
LEMMA LeftIsAbandoned ==
  QueueInvariant =>
    /\ Left(Shown(jobs), Taken("jobs")) = Abandoned(jobs, "jobs")
    /\ Left(Shown(events), Taken("events")) = Abandoned(events, "events")
<1> SUFFICES ASSUME QueueInvariant
             PROVE  /\ Left(Shown(jobs), Taken("jobs")) = Abandoned(jobs, "jobs")
                    /\ Left(Shown(events), Taken("events"))
                         = Abandoned(events, "events")
  OBVIOUS
<1>1. ASSUME NEW w \in Workers, work[w].at = "claim", NEW k \in batch[w]
      PROVE  /\ phase[w] = "jobs" => jobs[k].status # "in_progress"
             /\ phase[w] = "events" => events[k].status # "in_progress"
  BY <1>1 DEF QueueInvariant, OneOwner, QueueOf
<1>2. \A k \in DOMAIN jobs : k \in Left(Shown(jobs), Taken("jobs"))
                               <=> k \in Abandoned(jobs, "jobs")
  BY <1>1 DEF Left, Abandoned, Shown, Taken
<1>3. \A k \in DOMAIN events : k \in Left(Shown(events), Taken("events"))
                                 <=> k \in Abandoned(events, "events")
  BY <1>1 DEF Left, Abandoned, Shown, Taken
<1>4. /\ Left(Shown(jobs), Taken("jobs")) \subseteq DOMAIN jobs
      /\ Left(Shown(events), Taken("events")) \subseteq DOMAIN events
  BY ShownRows DEF Left
<1>5. /\ Abandoned(jobs, "jobs") \subseteq DOMAIN jobs
      /\ Abandoned(events, "events") \subseteq DOMAIN events
  BY DEF Abandoned
<1> QED BY <1>2, <1>3, <1>4, <1>5

(* Adding, taking and settling rows leaves none behind.                     *)
LEMMA ServingLeavesNone ==
  ASSUME NEW rows, NEW rowsN, NEW held, NEW heldN, DOMAIN held = Workers,
         \/ \E k : /\ rowsN = [x \in DOMAIN rows \cup {k} |->
                                 IF x = k THEN [status |-> "pending", attempts |-> 0]
                                 ELSE rows[x]]
                   /\ heldN = held
         \/ \E w \in Workers, ids \in SUBSET DOMAIN rows :
              /\ held[w] = {}
              /\ rowsN = [k \in DOMAIN rows |->
                   IF k \in ids THEN [rows[k] EXCEPT !.status = "in_progress"]
                   ELSE rows[k]]
              /\ heldN = [held EXCEPT ![w] = ids]
         \/ \E w \in Workers, k \in DOMAIN rows : \E outcome :
              /\ outcome.status # "in_progress"
              /\ heldN = [held EXCEPT ![w] = @ \ {k}]
              /\ rowsN = [rows EXCEPT ![k] = outcome]
         \/ rowsN = rows /\ heldN = held
  PROVE  Left(rowsN, heldN) \subseteq Left(rows, held)
<1> SUFFICES ASSUME NEW x \in Left(rowsN, heldN) PROVE x \in Left(rows, held)
  OBVIOUS
<1>1. /\ x \in DOMAIN rowsN /\ rowsN[x].status = "in_progress"
      /\ \A w \in Workers : x \notin heldN[w]
  BY DEF Left
<1>2. ASSUME NEW k, heldN = held,
             rowsN = [y \in DOMAIN rows \cup {k} |->
                        IF y = k THEN [status |-> "pending", attempts |-> 0]
                        ELSE rows[y]]
      PROVE  x \in Left(rows, held)
  BY <1>1, <1>2 DEF Left
<1>3. ASSUME NEW w \in Workers, NEW ids \in SUBSET DOMAIN rows, held[w] = {},
             rowsN = [k \in DOMAIN rows |->
               IF k \in ids THEN [rows[k] EXCEPT !.status = "in_progress"]
               ELSE rows[k]],
             heldN = [held EXCEPT ![w] = ids]
      PROVE  x \in Left(rows, held)
  <2>1. x \notin ids
    BY <1>1, <1>3
  <2>2. x \in DOMAIN rows /\ rowsN[x] = rows[x]
    BY <1>1, <1>3, <2>1
  <2>3. \A v \in Workers : x \notin held[v]
    BY <1>1, <1>3
  <2> QED BY <1>1, <2>2, <2>3 DEF Left
<1>4. ASSUME NEW w \in Workers, NEW k \in DOMAIN rows, NEW outcome,
             outcome.status # "in_progress",
             heldN = [held EXCEPT ![w] = @ \ {k}], rowsN = [rows EXCEPT ![k] = outcome]
      PROVE  x \in Left(rows, held)
  <2>1. x # k /\ x \in DOMAIN rows /\ rowsN[x] = rows[x]
    BY <1>1, <1>4
  <2>2. \A v \in Workers : x \notin held[v]
    BY <1>1, <1>4, <2>1
  <2> QED BY <1>1, <2>1, <2>2 DEF Left
<1> QED BY <1>2, <1>3, <1>4

(* So no step but a crash abandons a row of either queue.                   *)
LEMMA OnlyCrashesAbandon ==
  ASSUME QueueInvariant, QueueInvariant', [Next]_vars, ~\E w \in Workers : Crash(w)
  PROVE  /\ Abandoned(jobs, "jobs")' \subseteq Abandoned(jobs, "jobs")
         /\ Abandoned(events, "events")' \subseteq Abandoned(events, "events")
<1> DEFINE js == Shown(jobs)
           jh == Taken("jobs")
           es == Shown(events)
           eh == Taken("events")
<1>1. DOMAIN jh = Workers /\ DOMAIN eh = Workers
  BY DEF Taken
<1>2. /\ JobQueue!Serve \/ (js' = js /\ jh' = jh)
      /\ EventQueue!Serve \/ (es' = es /\ eh' = eh)
  BY ServesTheQueues DEF JobQueue!queueVars, EventQueue!queueVars
<1>3. /\ Left(js, jh) = Abandoned(jobs, "jobs")
      /\ Left(es, eh) = Abandoned(events, "events")
  BY LeftIsAbandoned
<1>4. (/\ Left(js, jh) = Abandoned(jobs, "jobs")
       /\ Left(es, eh) = Abandoned(events, "events"))'
  BY LeftIsAbandoned, PTL
<1>5. Left(js, jh)' = Left(js', jh') /\ Left(es, eh)' = Left(es', eh')
  BY DEF Left
<1>6. ASSUME JobQueue!Serve PROVE Left(js', jh') \subseteq Left(js, jh)
  <2> HIDE DEF js, jh
  <2>1. ASSUME NEW k, JobQueue!Add(k) PROVE Left(js', jh') \subseteq Left(js, jh)
    BY <1>1, <2>1, ServingLeavesNone DEF JobQueue!Add, JobQueue!New, js, jh
  <2>2. ASSUME NEW w \in Workers, NEW ids \in SUBSET DOMAIN js, JobQueue!Take(w, ids)
        PROVE  Left(js', jh') \subseteq Left(js, jh)
    BY <1>1, <2>2, ServingLeavesNone DEF JobQueue!Take, js, jh
  <2>3. ASSUME NEW w \in Workers, NEW k \in DOMAIN js, JobQueue!Settle(w, k)
        PROVE  Left(js', jh') \subseteq Left(js, jh)
    <3>1. PICK outcome \in JobQueue!Outcomes(js[k]) : js' = [js EXCEPT ![k] = outcome]
      BY <2>3 DEF JobQueue!Settle, js
    <3>2. outcome.status # "in_progress"
      BY <3>1 DEF JobQueue!Outcomes
    <3>3. jh' = [jh EXCEPT ![w] = @ \ {k}]
      BY <2>3 DEF JobQueue!Settle, jh
    <3>4. \E v \in Workers, x \in DOMAIN js : \E out :
            /\ out.status # "in_progress"
            /\ jh' = [jh EXCEPT ![v] = @ \ {x}]
            /\ js' = [js EXCEPT ![x] = out]
      BY <3>1, <3>2, <3>3, Zenon
    <3> QED BY <1>1, <3>4, ServingLeavesNone
  <2> QED BY <1>6, <2>1, <2>2, <2>3 DEF JobQueue!Serve, js
<1>7. ASSUME EventQueue!Serve PROVE Left(es', eh') \subseteq Left(es, eh)
  <2> HIDE DEF es, eh
  <2>1. ASSUME NEW k, EventQueue!Add(k) PROVE Left(es', eh') \subseteq Left(es, eh)
    BY <1>1, <2>1, ServingLeavesNone DEF EventQueue!Add, EventQueue!New, es, eh
  <2>2. ASSUME NEW w \in Workers, NEW ids \in SUBSET DOMAIN es, EventQueue!Take(w, ids)
        PROVE  Left(es', eh') \subseteq Left(es, eh)
    BY <1>1, <2>2, ServingLeavesNone DEF EventQueue!Take, es, eh
  <2>3. ASSUME NEW w \in Workers, NEW k \in DOMAIN es, EventQueue!Settle(w, k)
        PROVE  Left(es', eh') \subseteq Left(es, eh)
    <3>1. PICK outcome \in EventQueue!Outcomes(es[k]) : es' = [es EXCEPT ![k] = outcome]
      BY <2>3 DEF EventQueue!Settle, es
    <3>2. outcome.status # "in_progress"
      BY <3>1 DEF EventQueue!Outcomes
    <3>3. eh' = [eh EXCEPT ![w] = @ \ {k}]
      BY <2>3 DEF EventQueue!Settle, eh
    <3>4. \E v \in Workers, x \in DOMAIN es : \E out :
            /\ out.status # "in_progress"
            /\ eh' = [eh EXCEPT ![v] = @ \ {x}]
            /\ es' = [es EXCEPT ![x] = out]
      BY <3>1, <3>2, <3>3, Zenon
    <3> QED BY <1>1, <3>4, ServingLeavesNone
  <2> QED BY <1>7, <2>1, <2>2, <2>3 DEF EventQueue!Serve, es
<1>8. Left(js', jh') \subseteq Left(js, jh) /\ Left(es', eh') \subseteq Left(es, eh)
  BY <1>2, <1>6, <1>7
<1> HIDE DEF js, jh, es, eh
<1> QED BY <1>3, <1>4, <1>5, <1>8

(* A worker that dies abandons its batch, in the queue whose turn it was.   *)
LEMMA CrashAbandons ==
  ASSUME QueueInvariant, NEW w \in Workers, Crash(w)
  PROVE  /\ phase[w] \in Queues /\ crashes' = crashes + 1
         /\ phase[w] = "jobs" =>
              /\ Abandoned(jobs, "jobs")' \subseteq Abandoned(jobs, "jobs") \cup batch[w]
              /\ Abandoned(events, "events")' \subseteq Abandoned(events, "events")
         /\ phase[w] = "events" =>
              /\ Abandoned(jobs, "jobs")' \subseteq Abandoned(jobs, "jobs")
              /\ Abandoned(events, "events")'
                   \subseteq Abandoned(events, "events") \cup batch[w]
<1>1. /\ phase \in [Workers -> {"jobs", "events"}] /\ batch \in [Workers -> SUBSET Nat]
      /\ UNCHANGED <<jobs, events>> /\ crashes' = crashes + 1
      /\ phase' = [phase EXCEPT ![w] = "jobs"] /\ batch' = [batch EXCEPT ![w] = {}]
  BY DEF QueueInvariant, TypeOK, WorkerTypeOK, Crash, storeVars
<1>2. \A v \in Workers : v # w => phase'[v] = phase[v] /\ batch'[v] = batch[v]
  BY <1>1
<1>3. ASSUME NEW q \in Queues, NEW k, k \notin batch[w] \/ phase[w] # q,
             \A v \in Workers : phase'[v] = q => k \notin batch'[v]
      PROVE  \A v \in Workers : phase[v] = q => k \notin batch[v]
  BY <1>2, <1>3
<1> QED BY <1>1, <1>3 DEF Abandoned, Queues

(* What a worker holds is a batch, polled from a queue that is finite.      *)
BatchBound ==
  \A w \in Workers : IsFiniteSet(batch[w]) /\ Cardinality(batch[w]) <= MaxBatch

(* Both tables are finite, so what is abandoned in them can be counted.     *)
LEMMA QueuesFinite ==
  ASSUME QueueInvariant
  PROVE  /\ IsFiniteSet(DOMAIN jobs) /\ IsFiniteSet(DOMAIN events)
         /\ IsFiniteSet(Abandoned(jobs, "jobs"))
         /\ IsFiniteSet(Abandoned(events, "events"))
<1>1. /\ DOMAIN jobs = 1 .. Len(jobs) /\ Len(jobs) \in Nat
      /\ DOMAIN notes = 1 .. Len(notes) /\ Len(notes) \in Nat
      /\ DOMAIN events \subseteq DOMAIN notes
  BY LenProperties DEF QueueInvariant, TypeOK, StoreTypeOK, QuickBooksTypeOK
<1>2. IsFiniteSet(1 .. Len(jobs)) /\ IsFiniteSet(1 .. Len(notes))
  BY <1>1, FS_Interval
<1>3. IsFiniteSet(DOMAIN jobs) /\ IsFiniteSet(DOMAIN events)
  BY <1>1, <1>2, FS_Subset
<1>4. /\ Abandoned(jobs, "jobs") \subseteq DOMAIN jobs
      /\ Abandoned(events, "events") \subseteq DOMAIN events
  BY DEF Abandoned
<1> QED BY <1>3, <1>4, FS_Subset

(* A poll takes MaxBatch rows at most.                                      *)
LEMMA BatchSize ==
  ASSUME NEW rows, IsFiniteSet(rows), NEW ids \in Batches(rows)
  PROVE  IsFiniteSet(ids) /\ Cardinality(ids) <= MaxBatch
<1>1. ids \in SUBSET rows
  BY DEF Batches
<1>2. IsFiniteSet(ids) /\ Cardinality(ids) \in Nat
  BY <1>1, FS_Subset, FS_CardinalityType
<1>3. MaxBatch \in Nat
  BY SyncWorkerAssumption
<1> QED BY <1>2, <1>3 DEF Batches

(* Polling either queue.                                                    *)
LEMMA SelectBounds ==
  ASSUME QueueInvariant, BatchBound, NEW w \in Workers, NEW q, NEW queue,
         IsFiniteSet(DOMAIN queue), Select(w, q, queue)
  PROVE  BatchBound'
<1>1. batch \in [Workers -> SUBSET Nat]
  BY DEF QueueInvariant, TypeOK, WorkerTypeOK
<1>2. CASE UNCHANGED batch
  BY <1>2 DEF BatchBound
<1>3. ASSUME NEW ids \in Batches(Due(queue) \ Selected(q)),
             batch' = [batch EXCEPT ![w] = ids]
      PROVE  BatchBound'
  <2>1. Due(queue) \ Selected(q) \in SUBSET DOMAIN queue
    BY DEF Due
  <2>2. IsFiniteSet(Due(queue) \ Selected(q))
    BY <2>1, FS_Subset
  <2>3. IsFiniteSet(ids) /\ Cardinality(ids) <= MaxBatch
    BY <2>2, BatchSize
  <2>4. \A v \in Workers : batch'[v] = IF v = w THEN ids ELSE batch[v]
    BY <1>1, <1>3
  <2> QED BY <2>3, <2>4 DEF BatchBound
<1> QED BY <1>2, <1>3 DEF Select

(* Polls aside, a batch only shrinks.                                       *)
LEMMA ShrunkBatches ==
  ASSUME BatchBound, \A w \in Workers : batch'[w] \subseteq batch[w]
  PROVE  BatchBound'
<1> SUFFICES ASSUME NEW w \in Workers
             PROVE  IsFiniteSet(batch'[w]) /\ Cardinality(batch'[w]) <= MaxBatch
  BY DEF BatchBound
<1>1. IsFiniteSet(batch[w]) /\ Cardinality(batch[w]) <= MaxBatch
  BY DEF BatchBound
<1>2. IsFiniteSet(batch'[w]) /\ Cardinality(batch'[w]) <= Cardinality(batch[w])
  BY <1>1, FS_Subset
<1>3. Cardinality(batch'[w]) \in Nat /\ Cardinality(batch[w]) \in Nat
  BY <1>1, <1>2, FS_CardinalityType
<1> QED BY <1>1, <1>2, <1>3, SyncWorkerAssumption

(* Only the loop and a crash touch a batch, only a crash is counted.        *)
LEMMA BatchSteps ==
  ASSUME [Next]_vars
  PROVE  /\ \/ UNCHANGED batch
            \/ \E w \in Workers : LoopStep(w) \/ Crash(w)
         /\ crashes' = crashes \/ \E w \in Workers : Crash(w)
<1>1. ASSUME NEW w \in Workers,
             ExecutorStep(w) \/ HandlerStep(w) \/ AttemptFails(w) \/ Restart(w)
      PROVE  UNCHANGED <<batch, crashes>>
  BY <1>1 DEF ExecutorStep, BeginJob, PostCreate, QueryByDocNumber, PostUpdate,
     PostDeleteOrVoid, Rejected, Reread, ExecutorFrame, HandlerStep, BeginEvent, Fetch,
     HandlerFrame, AttemptFails, Restart
<1>2. ASSUME NEW w \in Workers, LoopStep(w) PROVE UNCHANGED crashes
  BY <1>2 DEF LoopStep, PollJobs, PollEvents, Select, ClaimJobs, ClaimEvents, CompleteJob,
     RetryJob, AbortJob, CompleteEvent, RetryEvent
<1>3. ASSUME UNCHANGED workerVars PROVE UNCHANGED <<batch, crashes>>
  BY <1>3 DEF workerVars
<1>4. ASSUME NEW w \in Workers, EndpointStep(w) PROVE UNCHANGED workerVars
  BY <1>4 DEF EndpointStep, StoreEvent, CheckStored
<1>5. ASSUME NEW n, RepeatUnidentified(n) PROVE UNCHANGED workerVars
  BY <1>5 DEF RepeatUnidentified
<1>6. ASSUME Wakes PROVE UNCHANGED workerVars
  BY <1>6 DEF Wakes
<1>7. ASSUME UNCHANGED vars PROVE UNCHANGED workerVars
  BY <1>7 DEF vars
<1> QED BY <1>1, <1>2, <1>3, <1>4, <1>5, <1>6, <1>7 DEF Next, WorkerStep

(* Every step keeps the batches within their bound.                         *)
LEMMA NextBatches ==
  ASSUME QueueInvariant, BatchBound, [Next]_vars
  PROVE  BatchBound'
<1>1. ASSUME UNCHANGED batch PROVE BatchBound'
  BY <1>1 DEF BatchBound
<1>2. batch \in [Workers -> SUBSET Nat]
  BY DEF QueueInvariant, TypeOK, WorkerTypeOK
<1>3. ASSUME NEW w \in Workers, Finish(w) \/ Crash(w) PROVE BatchBound'
  <2>1. \A v \in Workers : batch'[v] \subseteq batch[v]
    BY <1>2, <1>3 DEF Finish, Crash
  <2> QED BY <2>1, ShrunkBatches
<1>4. ASSUME NEW w \in Workers, LoopStep(w) PROVE BatchBound'
  <2>1. CASE PollJobs(w) \/ PollEvents(w)
    BY <2>1, QueuesFinite, SelectBounds DEF PollJobs, PollEvents
  <2>2. CASE ClaimJobs(w) \/ ClaimEvents(w)
    BY <1>1, <2>2 DEF ClaimJobs, ClaimEvents
  <2> QED BY <1>3, <1>4, <2>1, <2>2
          DEF LoopStep, CompleteJob, RetryJob, AbortJob, CompleteEvent, RetryEvent
<1> QED BY <1>1, <1>3, <1>4, BatchSteps

(* A set that grows by a batch at most.                                     *)
LEMMA GrownSet ==
  ASSUME NEW old, NEW ids, NEW new, IsFiniteSet(old), IsFiniteSet(ids),
         new \subseteq old \cup ids
  PROVE  /\ Cardinality(new) \in Nat /\ Cardinality(old) \in Nat
         /\ Cardinality(ids) \in Nat
         /\ Cardinality(new) <= Cardinality(old) + Cardinality(ids)
<1>1. /\ Cardinality(old) \in Nat /\ Cardinality(ids) \in Nat
      /\ IsFiniteSet(old \cap ids)
  BY FS_CardinalityType, FS_Intersection
<1>2. Cardinality(old \cap ids) \in Nat
  BY <1>1, FS_CardinalityType
<1>3. /\ IsFiniteSet(old \cup ids)
      /\ Cardinality(old \cup ids)
           = Cardinality(old) + Cardinality(ids) - Cardinality(old \cap ids)
  BY FS_Union
<1>4. IsFiniteSet(new) /\ Cardinality(new) <= Cardinality(old \cup ids)
  BY <1>3, FS_Subset
<1>5. Cardinality(new) \in Nat
  BY <1>4, FS_CardinalityType
<1> QED BY <1>1, <1>2, <1>3, <1>4, <1>5

(* The crashes counted so far account for everything abandoned: a batch     *)
(* each, whichever the queue.                                               *)
CrashInvariant == BatchBound /\ CrashCostsABatch

(* Every step keeps the account: a crash adds a batch at most to one queue. *)
LEMMA NextCrashes ==
  ASSUME QueueInvariant, QueueInvariant', CrashInvariant, [Next]_vars
  PROVE  CrashInvariant'
<1>1. BatchBound'
  BY NextBatches DEF CrashInvariant
<1> DEFINE js == Abandoned(jobs, "jobs")
           es == Abandoned(events, "events")
           jn == Abandoned(jobs, "jobs")'
           en == Abandoned(events, "events")'
           Goal == Cardinality(jn) + Cardinality(en) <= crashes' * MaxBatch
<1>2. IsFiniteSet(js) /\ IsFiniteSet(es) /\ IsFiniteSet({}) /\ Cardinality({}) = 0
  BY QueuesFinite, FS_EmptySet
<1>3. crashes \in Nat /\ MaxBatch \in Nat
  BY SyncWorkerAssumption DEF QueueInvariant, TypeOK, WorkerTypeOK
<1>4. Cardinality(js) + Cardinality(es) <= crashes * MaxBatch
  BY DEF CrashInvariant, CrashCostsABatch
<1>5. ASSUME ~\E w \in Workers : Crash(w) PROVE Goal
  <2>1. jn \subseteq js \cup {} /\ en \subseteq es \cup {}
    BY <1>5, OnlyCrashesAbandon
  <2>2. crashes' = crashes
    BY <1>5, BatchSteps
  <2> HIDE DEF js, es, jn, en
  <2>3. /\ Cardinality(jn) \in Nat /\ Cardinality(js) \in Nat
        /\ Cardinality(en) \in Nat /\ Cardinality(es) \in Nat
        /\ Cardinality(jn) <= Cardinality(js) /\ Cardinality(en) <= Cardinality(es)
    <3>1. /\ Cardinality(jn) <= Cardinality(js) + Cardinality({})
          /\ Cardinality(jn) \in Nat /\ Cardinality(js) \in Nat
      BY <1>2, <2>1, GrownSet
    <3>2. /\ Cardinality(en) <= Cardinality(es) + Cardinality({})
          /\ Cardinality(en) \in Nat /\ Cardinality(es) \in Nat
      BY <1>2, <2>1, GrownSet
    <3> QED BY <1>2, <3>1, <3>2
  <2> QED BY <1>3, <1>4, <2>2, <2>3
<1>6. ASSUME NEW w \in Workers, Crash(w) PROVE Goal
  <2> DEFINE ids == batch[w]
  <2>1. IsFiniteSet(ids) /\ Cardinality(ids) <= MaxBatch
    BY DEF CrashInvariant, BatchBound
  <2>2. /\ crashes' = crashes + 1
        /\ \/ jn \subseteq js \cup ids /\ en \subseteq es \cup {}
           \/ jn \subseteq js \cup {} /\ en \subseteq es \cup ids
    BY <1>6, CrashAbandons DEF Queues
  <2> HIDE DEF js, es, jn, en, ids
  <2>3. /\ Cardinality(jn) \in Nat /\ Cardinality(js) \in Nat
        /\ Cardinality(en) \in Nat /\ Cardinality(es) \in Nat
        /\ Cardinality(ids) \in Nat
        /\ Cardinality(jn) + Cardinality(en)
             <= Cardinality(js) + Cardinality(es) + Cardinality(ids)
    <3>1. CASE jn \subseteq js \cup ids /\ en \subseteq es \cup {}
      <4>1. /\ Cardinality(jn) <= Cardinality(js) + Cardinality(ids)
            /\ Cardinality(jn) \in Nat /\ Cardinality(js) \in Nat
            /\ Cardinality(ids) \in Nat
        BY <1>2, <2>1, <3>1, GrownSet
      <4>2. /\ Cardinality(en) <= Cardinality(es) + Cardinality({})
            /\ Cardinality(en) \in Nat /\ Cardinality(es) \in Nat
            /\ Cardinality({}) \in Nat
        BY <1>2, <2>1, <3>1, GrownSet
      <4> QED BY <1>2, <4>1, <4>2
    <3>2. CASE jn \subseteq js \cup {} /\ en \subseteq es \cup ids
      <4>1. /\ Cardinality(jn) <= Cardinality(js) + Cardinality({})
            /\ Cardinality(jn) \in Nat /\ Cardinality(js) \in Nat
            /\ Cardinality({}) \in Nat
        BY <1>2, <2>1, <3>2, GrownSet
      <4>2. /\ Cardinality(en) <= Cardinality(es) + Cardinality(ids)
            /\ Cardinality(en) \in Nat /\ Cardinality(es) \in Nat
            /\ Cardinality(ids) \in Nat
        BY <1>2, <2>1, <3>2, GrownSet
      <4> QED BY <1>2, <4>1, <4>2
    <3> QED BY <2>2, <3>1, <3>2
  <2>4. crashes' * MaxBatch = crashes * MaxBatch + MaxBatch /\ crashes * MaxBatch \in Nat
    BY <1>3, <2>2
  <2> QED BY <1>3, <1>4, <2>1, <2>3, <2>4
<1>7. Goal
  BY <1>5, <1>6, BatchSteps
<1> QED BY <1>1, <1>7 DEF CrashInvariant, CrashCostsABatch

(* Whatever the number of workers, a killed process costs one batch of rows *)
(* at most, of either queue; retries, failures, conflicts and the races of  *)
(* the polls leave none in_progress without a holder.                       *)
THEOREM CrashesCostTheirBatch == Spec => []CrashCostsABatch
<1>1. Init => CrashInvariant
  <2> SUFFICES ASSUME Init PROVE CrashInvariant
    OBVIOUS
  <2>1. /\ jobs = <<>> /\ events = <<>> /\ crashes = 0
        /\ batch = [w \in Workers |-> {}]
    BY DEF Init, StoreInit, WorkerInit
  <2>2. Abandoned(jobs, "jobs") = {} /\ Abandoned(events, "events") = {}
    BY <2>1 DEF Abandoned
  <2>3. IsFiniteSet({}) /\ Cardinality({}) = 0 /\ MaxBatch \in Nat
    BY FS_EmptySet, SyncWorkerAssumption
  <2>4. BatchBound
    BY <2>1, <2>3 DEF BatchBound
  <2>5. /\ Cardinality(Abandoned(jobs, "jobs")) = 0
        /\ Cardinality(Abandoned(events, "events")) = 0
    BY <2>2, <2>3
  <2>6. crashes * MaxBatch = 0
    BY <2>1, <2>3
  <2>7. CrashCostsABatch
    BY <2>5, <2>6 DEF CrashCostsABatch
  <2> QED BY <2>4, <2>7 DEF CrashInvariant
<1>2. QueueInvariant /\ QueueInvariant' /\ CrashInvariant /\ [Next]_vars
        => CrashInvariant'
  BY NextCrashes
<1>3. CrashInvariant => CrashCostsABatch
  BY DEF CrashInvariant
<1> QED BY <1>1, <1>2, <1>3, InvariantHolds, PTL DEF Spec
=============================================================================
