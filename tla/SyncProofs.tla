----------------------------- MODULE SyncProofs -----------------------------
(****************************************************************************)
(* Theorems about the whole service, for every number of workers, threads,  *)
(* realms and attempts and for every bound.  QueueInvariant is inductive:   *)
(* first what each kind of step does to the rows a worker holds, then one   *)
(* lemma per actor, then the theorems.                                      *)
(****************************************************************************)
EXTENDS SyncLemmas

(* The invariant but for the typing.                                        *)
Ownership ==
  OneOwner /\ HoldsItsQueue /\ WorksOnItsBatch /\ AttemptsLeft

(* The invariant but for what the endpoint has in hand.                     *)
CoreInvariant ==
  Ownership /\ StoreTypeOK /\ QuickBooksTypeOK /\ WorkerTypeOK /\ ServiceTypeOK

(* A step leaves every row that has its outcome as it is.                   *)
FinalRows ==
  /\ \A j \in DOMAIN jobs : ~Active(jobs[j]) => jobs'[j] = jobs[j]
  /\ \A e \in DOMAIN events : ~Active(events[e]) => events'[e] = events[e]
------------------------------------------------------------------------------
(* A worker that goes on with a row it holds, committing nothing, keeps     *)
(* every claim.                                                             *)
LEMMA TaskStep ==
  ASSUME QueueInvariant, NEW w \in Workers, NEW task \in Task, Move(w, task),
         work[w].at # "claim", task.at # "claim",
         task.inv \in {0} \cup DOMAIN invoices,
         task.at \notin {"idle", "down"} => task.id \in batch[w],
         task.at = "fetch" => phase[w] = "events",
         UNCHANGED <<storeVars, phase, batch, crashes>>
  PROVE  Ownership' /\ StoreTypeOK' /\ WorkerTypeOK'
<1>1. work \in [Workers -> Task] /\ work' = [work EXCEPT ![w] = task]
  BY DEF QueueInvariant, TypeOK, WorkerTypeOK, Move
<1>2. \A v \in Workers : work'[v] = IF v = w THEN task ELSE work[v]
  BY <1>1
<1>3. UNCHANGED <<invoices, audit, jobs, events, phase, batch, crashes>>
  BY DEF storeVars
<1>4. OneOwner'
  BY <1>2, <1>3 DEF QueueInvariant, OneOwner, QueueOf
<1>5. HoldsItsQueue' /\ AttemptsLeft'
  BY <1>3 DEF QueueInvariant, HoldsItsQueue, AttemptsLeft, QueueOf
<1>6. WorksOnItsBatch'
  BY <1>2, <1>3 DEF QueueInvariant, WorksOnItsBatch
<1>7. StoreTypeOK'
  BY <1>3 DEF QueueInvariant, TypeOK, StoreTypeOK
<1>8. WorkerTypeOK'
  BY <1>1, <1>2, <1>3 DEF QueueInvariant, TypeOK, WorkerTypeOK
<1> QED BY <1>4, <1>5, <1>6, <1>7, <1>8 DEF Ownership

(* Rows added to a queue, or woken, disturb no claim while statuses stay.   *)
LEMMA QueuesGrow ==
  ASSUME QueueInvariant, UNCHANGED workerVars, AttemptsLeft',
         DOMAIN invoices \subseteq DOMAIN invoices',
         DOMAIN jobs \subseteq DOMAIN jobs',
         \A j \in DOMAIN jobs : jobs'[j].status = jobs[j].status,
         DOMAIN events \subseteq DOMAIN events',
         \A e \in DOMAIN events : events'[e].status = events[e].status
  PROVE  Ownership' /\ WorkerTypeOK'
<1>1. UNCHANGED <<phase, batch, work, crashes>>
  BY DEF workerVars
<1>2. \A w \in Workers : batch[w] \subseteq DOMAIN QueueOf(w)
  BY DEF QueueInvariant, HoldsItsQueue
<1>3. \A w \in Workers : QueueOf(w) = IF phase[w] = "jobs" THEN jobs ELSE events
  BY DEF QueueOf
<1>4. \A w \in Workers : QueueOf(w)' = IF phase[w] = "jobs" THEN jobs' ELSE events'
  BY <1>1 DEF QueueOf
<1>5. \A w \in Workers : \A k \in batch[w] :
        /\ k \in DOMAIN QueueOf(w)'
        /\ QueueOf(w)'[k].status = QueueOf(w)[k].status
  BY <1>2, <1>3, <1>4
<1>6. OneOwner'
  BY <1>1, <1>5 DEF QueueInvariant, OneOwner
<1>7. HoldsItsQueue'
  BY <1>1, <1>5 DEF HoldsItsQueue
<1>8. WorksOnItsBatch'
  BY <1>1 DEF QueueInvariant, WorksOnItsBatch
<1>9. WorkerTypeOK'
  BY <1>1 DEF QueueInvariant, TypeOK, WorkerTypeOK
<1> QED BY <1>6, <1>7, <1>8, <1>9 DEF Ownership

(* The outcome of a job releases that job and no other claim.               *)
LEMMA FinishJob ==
  ASSUME QueueInvariant, NEW w \in Workers, phase[w] = "jobs",
         work[w].at \notin {"idle", "down", "claim"},
         NEW row \in Job, row.inv = jobs[work[w].id].inv,
         Active(row) => row.attempts < MaxAttempts,
         jobs' = [jobs EXCEPT ![work[w].id] = row],
         Finish(w), UNCHANGED <<events, crashes>>,
         DOMAIN invoices \subseteq DOMAIN invoices'
  PROVE  /\ Ownership' /\ WorkerTypeOK'
         /\ jobs' \in Seq(Job)
         /\ \A j \in DOMAIN jobs' : jobs'[j].inv \in DOMAIN invoices'
<1> DEFINE id == work[w].id
<1>1. id \in batch[w] /\ id \in DOMAIN jobs
  BY DEF QueueInvariant, WorksOnItsBatch, HoldsItsQueue, QueueOf
<1>2. jobs \in Seq(Job) /\ \A j \in DOMAIN jobs : jobs[j].inv \in DOMAIN invoices
  BY DEF QueueInvariant, TypeOK, StoreTypeOK
<1>3. /\ jobs' \in Seq(Job) /\ DOMAIN jobs' = DOMAIN jobs
      /\ \A j \in DOMAIN jobs : jobs'[j] = IF j = id THEN row ELSE jobs[j]
  BY <1>1, <1>2, SeqExcept
<1>4. \A j \in DOMAIN jobs' : jobs'[j].inv \in DOMAIN invoices'
  BY <1>2, <1>3
<1>5. /\ phase \in [Workers -> {"jobs", "events"}] /\ batch \in [Workers -> SUBSET Nat]
      /\ work \in [Workers -> Task]
      /\ \A v \in Workers : work[v].inv \in {0} \cup DOMAIN invoices
      /\ crashes \in 0 .. MaxCrashes
  BY DEF QueueInvariant, TypeOK, WorkerTypeOK
<1>6. \A v \in Workers :
        /\ batch'[v] = IF v = w THEN batch[w] \ {id} ELSE batch[v]
        /\ work'[v] = IF v = w THEN Idle ELSE work[v]
        /\ phase'[v] = phase[v] \/ batch'[v] = {}
  BY <1>5, <1>1 DEF Finish, Move
<1>7. WorkerTypeOK'
  <2>1. Idle \in Task /\ Idle.inv = 0
    BY BlankRow DEF Idle, Task, Points, CommitPoints
  <2>2. phase' \in [Workers -> {"jobs", "events"}]
    BY <1>5 DEF Finish, Other
  <2>3. batch' \in [Workers -> SUBSET Nat] /\ work' \in [Workers -> Task]
    BY <1>5, <2>1 DEF Finish, Move
  <2> QED BY <1>5, <1>6, <2>1, <2>2, <2>3 DEF WorkerTypeOK
<1>8. AttemptsLeft'
  BY <1>3 DEF QueueInvariant, AttemptsLeft
<1>9. \A v \in Workers : \A k \in batch'[v] :
        /\ v = w => k # id
        /\ k \in batch[v] /\ phase'[v] = phase[v]
  BY <1>6
<1>10. \A v \in Workers : v # w /\ phase[v] = phase[w] => id \notin batch[v]
  BY <1>1 DEF QueueInvariant, OneOwner
<1>11. HoldsItsQueue'
  BY <1>3, <1>9 DEF QueueInvariant, HoldsItsQueue, QueueOf
<1>12. \A v \in Workers : \A k \in batch'[v] : QueueOf(v)'[k] = QueueOf(v)[k]
  <2> SUFFICES ASSUME NEW v \in Workers, NEW k \in batch'[v]
               PROVE  QueueOf(v)'[k] = QueueOf(v)[k]
    OBVIOUS
  <2>1. k \in DOMAIN QueueOf(v) /\ phase'[v] = phase[v]
    BY <1>9 DEF QueueInvariant, HoldsItsQueue
  <2>2. phase[v] = "jobs" => k # id
    BY <1>9, <1>10
  <2> QED BY <2>1, <2>2, <1>3 DEF QueueOf
<1>13. OneOwner'
  <2>1. \A v \in Workers : v # w \/ work[v].at # "claim"
    OBVIOUS
  <2>2. \A v, u \in Workers :
          v # u /\ phase'[v] = phase'[u] => batch'[v] \cap batch'[u] = {}
    BY <1>9 DEF QueueInvariant, OneOwner
  <2>3. \A v \in Workers : \A k \in batch'[v] : QueueOf(v)'[k].status =
          IF work'[v].at = "claim" THEN "pending" ELSE "in_progress"
    BY <1>6, <1>9, <1>12 DEF QueueInvariant, OneOwner, Idle
  <2> QED BY <2>2, <2>3 DEF OneOwner
<1>14. WorksOnItsBatch'
  BY <1>6, <1>9 DEF QueueInvariant, WorksOnItsBatch, Idle
<1> QED BY <1>3, <1>4, <1>7, <1>8, <1>11, <1>13, <1>14 DEF Ownership

(* The outcome of an event releases that event and no other claim.          *)
LEMMA FinishEvent ==
  ASSUME QueueInvariant, NEW w \in Workers, phase[w] = "events",
         work[w].at \notin {"idle", "down", "claim"},
         NEW row \in Event, Active(row) => row.attempts < MaxAttempts,
         events' = [events EXCEPT ![work[w].id] = row],
         Finish(w), UNCHANGED <<jobs, crashes>>,
         DOMAIN invoices \subseteq DOMAIN invoices'
  PROVE  /\ Ownership' /\ WorkerTypeOK'
         /\ events' \in [DOMAIN events' -> Event] /\ DOMAIN events' = DOMAIN events
<1> DEFINE id == work[w].id
<1>1. id \in batch[w] /\ id \in DOMAIN events
  BY DEF QueueInvariant, WorksOnItsBatch, HoldsItsQueue, QueueOf
<1>2. events \in [DOMAIN events -> Event]
  BY DEF QueueInvariant, TypeOK, StoreTypeOK
<1>3. /\ events' \in [DOMAIN events' -> Event] /\ DOMAIN events' = DOMAIN events
      /\ \A e \in DOMAIN events : events'[e] = IF e = id THEN row ELSE events[e]
  BY <1>1, <1>2
<1>5. /\ phase \in [Workers -> {"jobs", "events"}] /\ batch \in [Workers -> SUBSET Nat]
      /\ work \in [Workers -> Task]
      /\ \A v \in Workers : work[v].inv \in {0} \cup DOMAIN invoices
      /\ crashes \in 0 .. MaxCrashes
  BY DEF QueueInvariant, TypeOK, WorkerTypeOK
<1>6. \A v \in Workers :
        /\ batch'[v] = IF v = w THEN batch[w] \ {id} ELSE batch[v]
        /\ work'[v] = IF v = w THEN Idle ELSE work[v]
        /\ phase'[v] = phase[v] \/ batch'[v] = {}
  BY <1>5, <1>1 DEF Finish, Move
<1>7. WorkerTypeOK'
  <2>1. Idle \in Task /\ Idle.inv = 0
    BY BlankRow DEF Idle, Task, Points, CommitPoints
  <2>2. phase' \in [Workers -> {"jobs", "events"}]
    BY <1>5 DEF Finish, Other
  <2>3. batch' \in [Workers -> SUBSET Nat] /\ work' \in [Workers -> Task]
    BY <1>5, <2>1 DEF Finish, Move
  <2> QED BY <1>5, <1>6, <2>1, <2>2, <2>3 DEF WorkerTypeOK
<1>8. AttemptsLeft'
  BY <1>3 DEF QueueInvariant, AttemptsLeft
<1>9. \A v \in Workers : \A k \in batch'[v] :
        /\ v = w => k # id
        /\ k \in batch[v] /\ phase'[v] = phase[v]
  BY <1>6
<1>10. \A v \in Workers : v # w /\ phase[v] = phase[w] => id \notin batch[v]
  BY <1>1 DEF QueueInvariant, OneOwner
<1>11. HoldsItsQueue'
  BY <1>3, <1>9 DEF QueueInvariant, HoldsItsQueue, QueueOf
<1>12. \A v \in Workers : \A k \in batch'[v] : QueueOf(v)'[k] = QueueOf(v)[k]
  <2> SUFFICES ASSUME NEW v \in Workers, NEW k \in batch'[v]
               PROVE  QueueOf(v)'[k] = QueueOf(v)[k]
    OBVIOUS
  <2>1. k \in DOMAIN QueueOf(v) /\ phase'[v] = phase[v] /\ phase[v] \in {"jobs", "events"}
    BY <1>5, <1>9 DEF QueueInvariant, HoldsItsQueue
  <2>2. phase[v] = "events" => k # id
    BY <1>9, <1>10
  <2> QED BY <2>1, <2>2, <1>3 DEF QueueOf
<1>13. OneOwner'
  <2>1. \A v, u \in Workers :
          v # u /\ phase'[v] = phase'[u] => batch'[v] \cap batch'[u] = {}
    BY <1>9 DEF QueueInvariant, OneOwner
  <2>2. \A v \in Workers : \A k \in batch'[v] : QueueOf(v)'[k].status =
          IF work'[v].at = "claim" THEN "pending" ELSE "in_progress"
    BY <1>6, <1>9, <1>12 DEF QueueInvariant, OneOwner, Idle
  <2> QED BY <2>1, <2>2 DEF OneOwner
<1>14. WorksOnItsBatch'
  BY <1>6, <1>9 DEF QueueInvariant, WorksOnItsBatch, Idle
<1> QED BY <1>3, <1>7, <1>8, <1>11, <1>13, <1>14 DEF Ownership

(* Queue rows are numbered.                                                 *)
LEMMA QueueDomains ==
  ASSUME TypeOK PROVE DOMAIN jobs \subseteq Nat /\ DOMAIN events \subseteq Nat
BY LenProperties DEF TypeOK, StoreTypeOK, QuickBooksTypeOK

(* Selecting due rows FOR UPDATE SKIP LOCKED takes only rows nobody holds.  *)
LEMMA SelectKeeps ==
  ASSUME QueueInvariant, NEW w \in Workers, NEW q \in {"jobs", "events"},
         NEW queue, queue = (IF q = "jobs" THEN jobs ELSE events),
         Select(w, q, queue)
  PROVE  Ownership' /\ WorkerTypeOK'
<1>1. /\ phase[w] = q /\ work[w].at = "idle" /\ batch[w] = {}
      /\ UNCHANGED <<invoices, audit, jobs, events, crashes>>
  BY DEF Select, storeVars
<1>2. /\ phase \in [Workers -> {"jobs", "events"}] /\ batch \in [Workers -> SUBSET Nat]
      /\ work \in [Workers -> Task]
      /\ \A v \in Workers : work[v].inv \in {0} \cup DOMAIN invoices
      /\ crashes \in 0 .. MaxCrashes
  BY DEF QueueInvariant, TypeOK, WorkerTypeOK
<1>3. AttemptsLeft'
  BY <1>1 DEF QueueInvariant, AttemptsLeft
<1>4. CASE /\ phase' = [phase EXCEPT ![w] = Other(q)]
           /\ UNCHANGED <<batch, work>>
  <2>1. WorkerTypeOK'
    BY <1>1, <1>2, <1>4 DEF WorkerTypeOK, Other
  <2>2. \A v \in Workers : \A k \in batch'[v] :
          v # w /\ phase'[v] = phase[v] /\ QueueOf(v)' = QueueOf(v)
    BY <1>1, <1>2, <1>4 DEF QueueOf
  <2>3. OneOwner'
    BY <1>4, <2>2 DEF QueueInvariant, OneOwner
  <2>4. HoldsItsQueue'
    BY <1>4, <2>2 DEF QueueInvariant, HoldsItsQueue
  <2>5. WorksOnItsBatch'
    BY <1>1, <1>2, <1>4 DEF QueueInvariant, WorksOnItsBatch
  <2> QED BY <1>3, <2>1, <2>3, <2>4, <2>5 DEF Ownership
<1>5. ASSUME NEW ids \in Batches(Due(queue) \ Selected(q)),
             batch' = [batch EXCEPT ![w] = ids],
             work' = [work EXCEPT ![w].at = "claim"],
             UNCHANGED phase
      PROVE  Ownership' /\ WorkerTypeOK'
  <2>1. /\ ids \subseteq DOMAIN queue
        /\ \A k \in ids : queue[k].status = "pending" /\ k \notin Selected(q)
    BY DEF Batches, Due
  <2>2. ids \subseteq Nat
    BY <2>1, QueueDomains DEF QueueInvariant
  <2>3. \A v \in Workers :
          /\ batch'[v] = IF v = w THEN ids ELSE batch[v]
          /\ v # w => work'[v] = work[v]
          /\ work'[w].at = "claim" /\ work'[w].inv = work[w].inv
          /\ QueueOf(v)' = QueueOf(v)
    BY <1>1, <1>2, <1>5 DEF QueueOf, Task
  <2>4. QueueOf(w) = queue
    BY <1>1 DEF QueueOf
  <2>5. WorkerTypeOK'
    <3>1. work' \in [Workers -> Task]
      BY <1>2, <1>5 DEF Task, Points, CommitPoints
    <3> QED BY <3>1, <1>1, <1>2, <1>5, <2>2, <2>3 DEF WorkerTypeOK
  <2>6. \A v \in Workers : v # w /\ phase[v] = phase[w] => batch[v] \cap ids = {}
    <3> SUFFICES ASSUME NEW v \in Workers, v # w, phase[v] = phase[w], NEW k \in ids,
                        k \in batch[v]
                 PROVE  FALSE
      OBVIOUS
    <3>1. work[v].at # "claim"
      BY <1>1, <2>1 DEF Selected
    <3>2. QueueOf(v)[k].status = "in_progress"
      BY <3>1 DEF QueueInvariant, OneOwner
    <3>3. QueueOf(v) = queue
      BY <1>1 DEF QueueOf
    <3> QED BY <3>2, <3>3, <2>1
  <2>7. OneOwner'
    BY <1>5, <2>1, <2>3, <2>4, <2>6 DEF QueueInvariant, OneOwner
  <2>8. HoldsItsQueue'
    BY <2>1, <2>3, <2>4 DEF QueueInvariant, HoldsItsQueue
  <2>9. WorksOnItsBatch'
    BY <1>5, <2>3 DEF QueueInvariant, WorksOnItsBatch
  <2> QED BY <1>3, <2>5, <2>7, <2>8, <2>9 DEF Ownership
<1> QED BY <1>4, <1>5 DEF Select

(* The claim touches the selected rows alone, and only their status.        *)
LEMMA ClaimedRows ==
  ASSUME NEW queue, NEW ids \in SUBSET DOMAIN queue
  PROVE  /\ DOMAIN Claimed(queue, ids) = DOMAIN queue
         /\ \A k \in DOMAIN queue : k \notin ids => Claimed(queue, ids)[k] = queue[k]
         /\ \A k \in ids : Claimed(queue, ids)[k] =
                             [queue[k] EXCEPT !.status = "in_progress"]
BY DEF Claimed

(* A claimed job is still a job, of the same invoice, with the same         *)
(* attempts.                                                                *)
LEMMA InProgressJob ==
  ASSUME NEW row \in Job
  PROVE  /\ [row EXCEPT !.status = "in_progress"] \in Job
         /\ [row EXCEPT !.status = "in_progress"].status = "in_progress"
         /\ [row EXCEPT !.status = "in_progress"].inv = row.inv
         /\ [row EXCEPT !.status = "in_progress"].attempts = row.attempts
BY DEF Job, QueueStates

(* A claimed event is still an event with the same attempts.                *)
LEMMA InProgressEvent ==
  ASSUME NEW row \in Event
  PROVE  /\ [row EXCEPT !.status = "in_progress"] \in Event
         /\ [row EXCEPT !.status = "in_progress"].status = "in_progress"
         /\ [row EXCEPT !.status = "in_progress"].attempts = row.attempts
BY DEF Event, QueueStates

(* Committing "in_progress" moves the claimer's rows and nobody else's.     *)
LEMMA ClaimKeeps ==
  ASSUME QueueInvariant, NEW w \in Workers, NEW q \in {"jobs", "events"},
         phase[w] = q, work[w].at = "claim",
         \A v \in Workers : phase[v] # q => QueueOf(v)' = QueueOf(v),
         \A v \in Workers : phase[v] = q =>
           /\ DOMAIN QueueOf(v)' = DOMAIN QueueOf(v)
           /\ \A k \in DOMAIN QueueOf(v) : k \notin batch[w] =>
                QueueOf(v)'[k] = QueueOf(v)[k]
           /\ \A k \in batch[w] : QueueOf(v)'[k].status = "in_progress",
         work' = [work EXCEPT ![w].at = "idle"],
         UNCHANGED <<phase, batch, crashes>>,
         UNCHANGED invoices
  PROVE  OneOwner' /\ HoldsItsQueue' /\ WorksOnItsBatch' /\ WorkerTypeOK'
<1>1. /\ work \in [Workers -> Task]
      /\ \A v \in Workers : work[v].inv \in {0} \cup DOMAIN invoices
  BY DEF QueueInvariant, TypeOK, WorkerTypeOK
<1>2. \A v \in Workers :
        /\ v # w => work'[v] = work[v]
        /\ work'[w].at = "idle" /\ work'[w].inv = work[w].inv
  BY <1>1 DEF Task
<1>3. work' \in [Workers -> Task]
  BY <1>1 DEF Task, Points, CommitPoints
<1>4. WorkerTypeOK'
  BY <1>1, <1>2, <1>3 DEF QueueInvariant, TypeOK, WorkerTypeOK
<1>5. HoldsItsQueue'
  BY DEF QueueInvariant, HoldsItsQueue
<1>6. WorksOnItsBatch'
  BY <1>2 DEF QueueInvariant, WorksOnItsBatch
<1>7. \A v, u \in Workers :
        v # u /\ phase'[v] = phase'[u] => batch'[v] \cap batch'[u] = {}
  BY DEF QueueInvariant, OneOwner
<1>8. ASSUME NEW v \in Workers, NEW k \in batch'[v]
      PROVE  QueueOf(v)'[k].status =
               IF work'[v].at = "claim" THEN "pending" ELSE "in_progress"
  <2>1. k \in batch[v] /\ k \in DOMAIN QueueOf(v)
    BY DEF QueueInvariant, HoldsItsQueue
  <2>2. CASE v = w
    BY <2>1, <2>2, <1>2
  <2>3. CASE v # w /\ phase[v] = q
    <3>1. k \notin batch[w]
      BY <2>1, <2>3 DEF QueueInvariant, OneOwner
    <3> QED BY <3>1, <2>1, <2>3, <1>2 DEF QueueInvariant, OneOwner
  <2>4. CASE v # w /\ phase[v] # q
    BY <2>1, <2>4, <1>2 DEF QueueInvariant, OneOwner
  <2> QED BY <2>2, <2>3, <2>4
<1>9. OneOwner'
  BY <1>7, <1>8 DEF OneOwner
<1> QED BY <1>4, <1>5, <1>6, <1>9

(* The commit of a claim of jobs keeps the parts of the invariant.          *)
LEMMA ClaimJobsKeeps ==
  ASSUME QueueInvariant, NEW w \in Workers, ClaimJobs(w)
  PROVE  Ownership' /\ WorkerTypeOK' /\ StoreTypeOK'
<1> DEFINE ids == batch[w]
<1>1. /\ phase[w] = "jobs" /\ work[w].at = "claim" /\ jobs' = Claimed(jobs, ids)
      /\ work' = [work EXCEPT ![w].at = "idle"]
      /\ UNCHANGED <<invoices, audit, events, phase, batch, crashes>>
  BY DEF ClaimJobs
<1>2. ids \subseteq DOMAIN jobs
  BY <1>1 DEF QueueInvariant, HoldsItsQueue, QueueOf
<1>3. jobs \in Seq(Job) /\ \A j \in DOMAIN jobs : jobs[j] \in Job
  BY LenProperties DEF QueueInvariant, TypeOK, StoreTypeOK
<1>4. /\ DOMAIN jobs' = DOMAIN jobs
      /\ \A j \in DOMAIN jobs : j \notin ids => jobs'[j] = jobs[j]
      /\ \A j \in ids : /\ jobs'[j] \in Job /\ jobs'[j].status = "in_progress"
                        /\ jobs'[j].inv = jobs[j].inv
                        /\ jobs'[j].attempts = jobs[j].attempts
  <2>1. /\ DOMAIN jobs' = DOMAIN jobs
        /\ \A j \in DOMAIN jobs : j \notin ids => jobs'[j] = jobs[j]
        /\ \A j \in ids : jobs'[j] = [jobs[j] EXCEPT !.status = "in_progress"]
    BY <1>1, <1>2, ClaimedRows
  <2>2. \A j \in ids : jobs[j] \in Job
    BY <1>2, <1>3
  <2>3. ASSUME NEW j \in ids
        PROVE  /\ jobs'[j] \in Job /\ jobs'[j].status = "in_progress"
               /\ jobs'[j].inv = jobs[j].inv
               /\ jobs'[j].attempts = jobs[j].attempts
    <3> DEFINE row == jobs[j]
    <3>1. row \in Job /\ jobs'[j] = [row EXCEPT !.status = "in_progress"]
      BY <2>1, <2>2
    <3> HIDE DEF row
    <3>2. /\ jobs'[j] \in Job /\ jobs'[j].status = "in_progress"
          /\ jobs'[j].inv = row.inv
          /\ jobs'[j].attempts = row.attempts
      BY <3>1, InProgressJob
    <3> QED BY <3>2 DEF row
  <2> QED BY <2>1, <2>3
<1>5. jobs' \in Seq(Job)
  <2>1. jobs' = [j \in DOMAIN jobs |-> jobs'[j]]
    BY <1>1 DEF Claimed
  <2>2. \A j \in DOMAIN jobs : jobs'[j] \in Job
    BY <1>3, <1>4
  <2> QED BY <2>1, <2>2, <1>3, <1>4, SeqMap
<1>6. StoreTypeOK'
  <2>1. \A j \in DOMAIN jobs' : jobs'[j].inv \in DOMAIN invoices'
    BY <1>1, <1>4 DEF QueueInvariant, TypeOK, StoreTypeOK
  <2> QED BY <2>1, <1>1, <1>5 DEF QueueInvariant, TypeOK, StoreTypeOK
<1>7. AttemptsLeft'
  <2>1. \A j \in ids : Active(jobs[j])
    BY <1>1 DEF QueueInvariant, OneOwner, QueueOf, Active
  <2>2. \A j \in DOMAIN jobs' : Active(jobs'[j]) => jobs'[j].attempts < MaxAttempts
    BY <2>1, <1>4 DEF QueueInvariant, AttemptsLeft
  <2> QED BY <2>2, <1>1 DEF QueueInvariant, AttemptsLeft
<1>8. OneOwner' /\ HoldsItsQueue' /\ WorksOnItsBatch' /\ WorkerTypeOK'
  <2>1. \A v \in Workers : phase[v] # "jobs" => QueueOf(v)' = QueueOf(v)
    BY <1>1 DEF QueueOf
  <2>2. \A v \in Workers : phase[v] = "jobs" =>
          /\ DOMAIN QueueOf(v)' = DOMAIN QueueOf(v)
          /\ \A k \in DOMAIN QueueOf(v) : k \notin batch[w] =>
               QueueOf(v)'[k] = QueueOf(v)[k]
          /\ \A k \in batch[w] : QueueOf(v)'[k].status = "in_progress"
    BY <1>1, <1>4 DEF QueueOf
  <2> QED BY <2>1, <2>2, <1>1, ClaimKeeps
<1> QED BY <1>6, <1>7, <1>8 DEF Ownership

(* The commit of a claim of events keeps the parts of the invariant.        *)
LEMMA ClaimEventsKeeps ==
  ASSUME QueueInvariant, NEW w \in Workers, ClaimEvents(w)
  PROVE  Ownership' /\ WorkerTypeOK' /\ StoreTypeOK' /\ DOMAIN events' = DOMAIN events
<1> DEFINE ids == batch[w]
<1>1. /\ phase[w] = "events" /\ work[w].at = "claim" /\ events' = Claimed(events, ids)
      /\ work' = [work EXCEPT ![w].at = "idle"]
      /\ UNCHANGED <<invoices, audit, jobs, phase, batch, crashes>>
  BY DEF ClaimEvents
<1>2. ids \subseteq DOMAIN events
  BY <1>1 DEF QueueInvariant, HoldsItsQueue, QueueOf
<1>3. \A e \in DOMAIN events : events[e] \in Event
  BY DEF QueueInvariant, TypeOK, StoreTypeOK
<1>4. /\ DOMAIN events' = DOMAIN events
      /\ \A e \in DOMAIN events : e \notin ids => events'[e] = events[e]
      /\ \A e \in ids : /\ events'[e] \in Event /\ events'[e].status = "in_progress"
                        /\ events'[e].attempts = events[e].attempts
  <2>1. /\ DOMAIN events' = DOMAIN events
        /\ \A e \in DOMAIN events : e \notin ids => events'[e] = events[e]
        /\ \A e \in ids : events'[e] = [events[e] EXCEPT !.status = "in_progress"]
    BY <1>1, <1>2, ClaimedRows
  <2>2. \A e \in ids : events[e] \in Event
    BY <1>2, <1>3
  <2>3. ASSUME NEW e \in ids
        PROVE  /\ events'[e] \in Event /\ events'[e].status = "in_progress"
               /\ events'[e].attempts = events[e].attempts
    <3> DEFINE row == events[e]
    <3>1. row \in Event /\ events'[e] = [row EXCEPT !.status = "in_progress"]
      BY <2>1, <2>2
    <3> HIDE DEF row
    <3>2. /\ events'[e] \in Event /\ events'[e].status = "in_progress"
          /\ events'[e].attempts = row.attempts
      BY <3>1, InProgressEvent
    <3> QED BY <3>2 DEF row
  <2> QED BY <2>1, <2>3
<1>5. events' \in [DOMAIN events' -> Event]
  <2>1. events' = [e \in DOMAIN events |-> events'[e]]
    BY <1>1 DEF Claimed
  <2> QED BY <2>1, <1>3, <1>4
<1>6. StoreTypeOK'
  BY <1>1, <1>5 DEF QueueInvariant, TypeOK, StoreTypeOK
<1>7. AttemptsLeft'
  <2>1. \A e \in ids : Active(events[e])
    BY <1>1 DEF QueueInvariant, OneOwner, QueueOf, Active
  <2>2. \A e \in DOMAIN events' : Active(events'[e]) => events'[e].attempts < MaxAttempts
    BY <2>1, <1>4 DEF QueueInvariant, AttemptsLeft
  <2> QED BY <2>2, <1>1 DEF QueueInvariant, AttemptsLeft
<1>8. OneOwner' /\ HoldsItsQueue' /\ WorksOnItsBatch' /\ WorkerTypeOK'
  <2>1. \A v \in Workers : phase[v] # "events" => QueueOf(v)' = QueueOf(v)
    BY <1>1 DEF QueueInvariant, TypeOK, WorkerTypeOK, QueueOf
  <2>2. \A v \in Workers : phase[v] = "events" =>
          /\ DOMAIN QueueOf(v)' = DOMAIN QueueOf(v)
          /\ \A k \in DOMAIN QueueOf(v) : k \notin batch[w] =>
               QueueOf(v)'[k] = QueueOf(v)[k]
          /\ \A k \in batch[w] : QueueOf(v)'[k].status = "in_progress"
    BY <1>1, <1>4 DEF QueueOf
  <2> QED BY <2>1, <2>2, <1>1, ClaimKeeps
<1> QED BY <1>4, <1>6, <1>7, <1>8 DEF Ownership

(* What a worker has in hand is typed.                                      *)
LEMMA WorkType ==
  ASSUME QueueInvariant, NEW w \in Workers
  PROVE  /\ work[w] \in Task /\ work[w].inv \in {0} \cup DOMAIN invoices
         /\ work[w].obj \in Row /\ work[w].loaded \in Row
         /\ work[w].inv \in Nat /\ work[w].id \in Nat
BY DEF QueueInvariant, TypeOK, WorkerTypeOK, Task

(* What is in the invoices table is typed.                                  *)
LEMMA RowType ==
  ASSUME QueueInvariant, NEW i \in DOMAIN invoices PROVE invoices[i] \in Row /\ i \in Nat
BY LenProperties DEF QueueInvariant, TypeOK, StoreTypeOK

(* The parts of the invariant, put together.                                *)
LEMMA InvariantSplits ==
  ASSUME Ownership', StoreTypeOK', QuickBooksTypeOK', WorkerTypeOK', ServiceTypeOK'
  PROVE  CoreInvariant'
BY DEF CoreInvariant

(* A step that no handler takes part in keeps the handlers typed.           *)
LEMMA ServiceIdle ==
  ASSUME QueueInvariant, UNCHANGED request, DOMAIN invoices \subseteq DOMAIN invoices'
  PROVE  ServiceTypeOK'
BY DEF QueueInvariant, TypeOK, ServiceTypeOK

(* A step QuickBooks takes no part in keeps it typed.                       *)
LEMMA QuickBooksIdle ==
  ASSUME QueueInvariant, UNCHANGED qboVars, DOMAIN events' \subseteq DOMAIN notes
  PROVE  QuickBooksTypeOK'
BY DEF QueueInvariant, TypeOK, QuickBooksTypeOK, qboVars

(* The count of network faults stays within its bound.                      *)
LEMMA FaultType ==
  ASSUME QueueInvariant, NetworkFault \/ UNCHANGED faults
  PROVE  faults' \in 0 .. MaxFaults
BY QuickBooksAssumption DEF QueueInvariant, TypeOK, QuickBooksTypeOK, NetworkFault

(* Moving on within a row, with or without a new object, keeps every claim. *)
LEMMA Continues ==
  ASSUME QueueInvariant, NEW w \in Workers, NEW at \in Points, NEW obj \in Row,
         work[w].at \notin {"idle", "down", "claim"}, at \notin {"claim", "fetch"},
         \/ Move(w, [work[w] EXCEPT !.at = at])
         \/ Move(w, [work[w] EXCEPT !.at = at, !.obj = obj]),
         UNCHANGED <<storeVars, phase, batch, crashes>>
  PROVE  Ownership' /\ StoreTypeOK' /\ WorkerTypeOK'
<1>1. work[w] \in Task /\ work[w].inv \in {0} \cup DOMAIN invoices
  BY WorkType
<1>2. work[w].id \in batch[w]
  BY DEF QueueInvariant, WorksOnItsBatch
<1>3. ASSUME NEW task \in Task, Move(w, task), task.at = at,
             task.id = work[w].id, task.inv = work[w].inv
      PROVE  Ownership' /\ StoreTypeOK' /\ WorkerTypeOK'
  BY <1>1, <1>2, <1>3, TaskStep
<1>4. CASE Move(w, [work[w] EXCEPT !.at = at])
  <2> DEFINE old == work[w]
             task == [old EXCEPT !.at = at]
  <2>1. old \in Task /\ Move(w, task)
    BY <1>1, <1>4
  <2> HIDE DEF old
  <2>2. task \in Task /\ task.at = at /\ task.id = old.id /\ task.inv = old.inv
    BY <2>1 DEF Task
  <2> HIDE DEF task
  <2> QED BY <1>3, <2>1, <2>2 DEF old
<1>5. CASE Move(w, [work[w] EXCEPT !.at = at, !.obj = obj])
  <2> DEFINE old == work[w]
             task == [old EXCEPT !.at = at, !.obj = obj]
  <2>1. old \in Task /\ Move(w, task)
    BY <1>1, <1>5
  <2> HIDE DEF old
  <2>2. task \in Task /\ task.at = at /\ task.id = old.id /\ task.inv = old.inv
    BY <2>1 DEF Task
  <2> HIDE DEF task
  <2> QED BY <1>3, <2>1, <2>2 DEF old
<1> QED BY <1>4, <1>5

(* Linking an invoice to QuickBooks gives a row.                            *)
LEMMA LinkedType ==
  ASSUME NEW obj \in Row, NEW e \in Nat, NEW token \in Nat
  PROVE  Linked(obj, e, token) \in Row
BY DEF Linked, Row, Statuses, SyncStatuses, Tokens

(* A request that reached QuickBooks keeps the invariant, answered or not.  *)
LEMMA AnsweredKeeps ==
  ASSUME QueueInvariant, NEW w \in Workers, NEW commit \in Points, NEW obj \in Row,
         work[w].at \notin {"idle", "down", "claim"}, commit \notin {"claim", "fetch"},
         Answered(w, commit, obj), ExecutorFrame, UNCHANGED request,
         qbo' \in [Realms -> Seq(QboInvoice)], notes' \in Seq(Note),
         DOMAIN notes \subseteq DOMAIN notes'
  PROVE  CoreInvariant'
<1>1. UNCHANGED <<storeVars, edits, phase, batch, crashes>>
  BY DEF ExecutorFrame
<1>2. Ownership' /\ StoreTypeOK' /\ WorkerTypeOK'
  <2>1. "raised" \in Points
    BY DEF Points, CommitPoints
  <2> QED BY <1>1, <2>1, Continues DEF Answered, Raise
<1>3. QuickBooksTypeOK'
  <2>1. faults' \in 0 .. MaxFaults
    BY FaultType DEF Answered, NoFault
  <2>2. UNCHANGED <<events, edits>>
    BY <1>1 DEF storeVars
  <2> QED BY <2>1, <2>2 DEF QueueInvariant, TypeOK, QuickBooksTypeOK
<1>4. ServiceTypeOK'
  BY <1>1, ServiceIdle DEF storeVars
<1> QED BY <1>2, <1>3, <1>4, InvariantSplits

(* A step of a worker that commits nothing keeps the invariant.             *)
LEMMA StaysKeeps ==
  ASSUME QueueInvariant, Ownership', WorkerTypeOK', UNCHANGED <<storeVars, qboVars, request>>
  PROVE  CoreInvariant'
<1>1. StoreTypeOK'
  BY DEF QueueInvariant, TypeOK, StoreTypeOK, storeVars
<1>2. QuickBooksTypeOK'
  BY DEF QueueInvariant, TypeOK, QuickBooksTypeOK, storeVars, qboVars
<1>3. ServiceTypeOK'
  BY ServiceIdle DEF storeVars
<1> QED BY <1>1, <1>2, <1>3, InvariantSplits

------------------------------------------------------------------------------
(* Every step of the executor keeps the invariant.                          *)
LEMMA ExecutorKeeps ==
  ASSUME QueueInvariant, NEW w \in Workers, ExecutorStep(w), UNCHANGED request
  PROVE  CoreInvariant'
<1> DEFINE t == work[w]
           r == t.obj.company
<1>1. /\ t \in Task /\ t.obj \in Row /\ t.inv \in Nat /\ r \in Realms
      /\ t.obj.content \in AllContents
  BY WorkType DEF Row
<1>2. QuickBooksTypeOK
  BY DEF QueueInvariant, TypeOK
<1>3. CASE BeginJob(w)
  <2>1. PICK j \in batch[w] :
          LET row == invoices[jobs[j].inv] IN
            Move(w, [at |-> Entry(jobs[j], row), id |-> j, inv |-> jobs[j].inv,
                     loaded |-> row, obj |-> row])
    BY <1>3 DEF BeginJob
  <2>2. phase[w] = "jobs" /\ t.at = "idle" /\ UNCHANGED <<storeVars, qboVars, phase, batch, crashes>>
    BY <1>3 DEF BeginJob
  <2>3. j \in DOMAIN jobs /\ jobs \in Seq(Job)
    BY <2>2 DEF QueueInvariant, HoldsItsQueue, QueueOf, TypeOK, StoreTypeOK
  <2>4. jobs[j] \in Job /\ jobs[j].inv \in DOMAIN invoices /\ j \in Nat
    BY <2>3, LenProperties DEF QueueInvariant, TypeOK, StoreTypeOK
  <2>5. invoices[jobs[j].inv] \in Row /\ jobs[j].inv \in Nat
    BY <2>4, RowType
  <2> DEFINE row == invoices[jobs[j].inv]
             at == Entry(jobs[j], row)
             task == [at |-> at, id |-> j, inv |-> jobs[j].inv, loaded |-> row, obj |-> row]
  <2>6. at \in Points \ {"claim", "fetch"}
    BY <2>4 DEF Entry, Points, CommitPoints, Calls, Job
  <2>7. task \in Task /\ task.at = at /\ task.id = j /\ task.inv = jobs[j].inv
    BY <2>4, <2>5, <2>6 DEF Task
  <2>8. Move(w, task)
    BY <2>1
  <2> HIDE DEF task, at
  <2>9. Ownership' /\ WorkerTypeOK'
    BY <2>2, <2>4, <2>6, <2>7, <2>8, TaskStep
  <2> QED BY <2>2, <2>9, StaysKeeps
<1>4. CASE PostCreate(w)
  <2>1. PICK sum \in Totals :
          /\ t.at = "create" /\ Insert(r, [t.obj.content EXCEPT !.total = sum], t.inv, TRUE)
          /\ Answered(w, "write", Linked(t.obj, Len(qbo[r]) + 1, 0)) /\ ExecutorFrame
    BY <1>4 DEF PostCreate
  <2>2a. [t.obj.content EXCEPT !.total = sum] \in AllContents
    BY <1>1, SummedContent DEF Row
  <2>2. Linked(t.obj, Len(qbo[r]) + 1, 0) \in Row
    <3>1. Len(qbo[r]) + 1 \in Nat
      BY <1>1, <1>2, LenProperties DEF QuickBooksTypeOK
    <3> QED BY <1>1, <3>1, LinkedType
  <2>3. qbo' \in [Realms -> Seq(QboInvoice)] /\ notes' \in Seq(Note) /\ DOMAIN notes \subseteq DOMAIN notes'
    BY <1>1, <1>2, <2>1, <2>2a, InsertType
  <2>4. "write" \in Points
    BY DEF Points, CommitPoints
  <2> QED BY <2>1, <2>2, <2>3, <2>4, AnsweredKeeps
<1>5. CASE QueryByDocNumber(w)
  <2>1. t.at = "query" /\ ExecutorFrame /\ UNCHANGED <<qbo, notes, faults>>
    BY <1>5 DEF QueryByDocNumber
  <2>2. UNCHANGED <<storeVars, qboVars, phase, batch, crashes>>
    BY <2>1 DEF ExecutorFrame, qboVars
  <2>3. \A e \in WithDocNumber(r, t.inv) : Linked(t.obj, e, qbo[r][e].token) \in Row
    <3>1. \A e \in DOMAIN qbo[r] : e \in Nat /\ qbo[r][e] \in QboInvoice
      BY <1>1, <1>2, LenProperties DEF QuickBooksTypeOK
    <3>2. \A e \in DOMAIN qbo[r] : qbo[r][e].token \in Nat
      BY <3>1 DEF QboInvoice
    <3> QED BY <1>1, <3>1, <3>2, LinkedType DEF WithDocNumber
  <2>4. \E at \in Points \ {"claim", "fetch"}, obj \in Row :
          \/ Move(w, [work[w] EXCEPT !.at = at])
          \/ Move(w, [work[w] EXCEPT !.at = at, !.obj = obj])
    <3>1. "create" \in Points \ {"claim", "fetch"} /\ "write" \in Points \ {"claim", "fetch"}
      BY DEF Points, CommitPoints, Calls
    <3> QED BY <1>1, <1>5, <2>3, <3>1 DEF QueryByDocNumber
  <2>5. Ownership' /\ WorkerTypeOK'
    BY <2>1, <2>2, <2>4, Continues
  <2> QED BY <2>2, <2>5, StaysKeeps
<1>6. CASE PostUpdate(w)
  <2> DEFINE e == t.obj.ext
             obj == [t.obj EXCEPT !.token = qbo[r][e].token + 1, !.sync = "complete"]
  <2>1. /\ t.at \in {"update", "repost"} /\ Accepts(r, e, "update", t.obj.token)
        /\ Overwrite(r, e, "update", Pushed(qbo[r][e].content, t.obj.content))
        /\ ExecutorFrame
        /\ \/ Answered(w, "write", obj)
           \/ Answered(w, "rewrite", obj)
    BY <1>6 DEF PostUpdate
  <2>2. e \in DOMAIN qbo[r]
    BY <2>1 DEF Accepts
  <2>3. qbo[r][e].token \in Nat /\ Pushed(qbo[r][e].content, t.obj.content) \in AllContents
    <3>1. qbo[r][e] \in QboInvoice
      BY <1>1, <1>2, <2>2, LenProperties DEF QuickBooksTypeOK
    <3> QED BY <1>1, <3>1, OverlayType DEF QboInvoice, Pushed
  <2>4. obj \in Row
    <3>1. qbo[r][e].token + 1 \in Tokens
      BY <2>3 DEF Tokens
    <3> QED BY <1>1, <3>1 DEF Row, SyncStatuses
  <2>5. qbo' \in [Realms -> Seq(QboInvoice)] /\ notes' \in Seq(Note) /\ DOMAIN notes \subseteq DOMAIN notes'
    BY <1>1, <1>2, <2>1, <2>2, <2>3, OverwriteType
  <2>6. "write" \in Points /\ "rewrite" \in Points
    BY DEF Points, CommitPoints
  <2> HIDE DEF obj, e
  <2> QED BY <2>1, <2>4, <2>5, <2>6, AnsweredKeeps
<1>7. CASE PostDeleteOrVoid(w)
  <2> DEFINE obj == [t.obj EXCEPT !.sync = "complete"]
  <2>1. /\ t.at \in {"delete", "void"} /\ Accepts(r, t.obj.ext, t.at, t.obj.token)
        /\ Overwrite(r, t.obj.ext, t.at, t.obj.content) /\ ExecutorFrame
        /\ Answered(w, "write", obj)
    BY <1>7 DEF PostDeleteOrVoid
  <2>2. t.obj.ext \in DOMAIN qbo[r]
    BY <2>1 DEF Accepts
  <2>3. obj \in Row
    BY <1>1 DEF Row, SyncStatuses
  <2>4. qbo' \in [Realms -> Seq(QboInvoice)] /\ notes' \in Seq(Note) /\ DOMAIN notes \subseteq DOMAIN notes'
    BY <1>1, <1>2, <2>1, <2>2, OverwriteType
  <2>5. "write" \in Points
    BY DEF Points, CommitPoints
  <2> HIDE DEF obj
  <2> QED BY <2>1, <2>3, <2>4, <2>5, AnsweredKeeps
<1>8. CASE Rejected(w)
  <2>1. /\ t.at \in {"update", "repost", "delete", "void"}
        /\ Raise(w, IF t.at = "update" THEN "reread" ELSE "raised")
        /\ UNCHANGED <<qbo, notes, faults>> /\ ExecutorFrame
    BY <1>8 DEF Rejected
  <2>2. UNCHANGED <<storeVars, qboVars, phase, batch, crashes>>
    BY <2>1 DEF ExecutorFrame, qboVars
  <2>3. \E at \in Points \ {"claim", "fetch"} : Move(w, [work[w] EXCEPT !.at = at])
    <3>1. "reread" \in Points \ {"claim", "fetch"} /\ "raised" \in Points \ {"claim", "fetch"}
      BY DEF Points, CommitPoints, Calls
    <3> QED BY <2>1, <3>1 DEF Raise
  <2>4. Ownership' /\ WorkerTypeOK'
    BY <1>1, <2>1, <2>2, <2>3, Continues
  <2> QED BY <2>2, <2>4, StaysKeeps
<1>9. CASE Reread(w)
  <2> DEFINE e == t.obj.ext
  <2>1. t.at = "reread" /\ UNCHANGED <<qbo, notes, faults>> /\ ExecutorFrame
    BY <1>9 DEF Reread
  <2>2. UNCHANGED <<storeVars, qboVars, phase, batch, crashes>>
    BY <2>1 DEF ExecutorFrame, qboVars
  <2>3. CASE \E at \in {"raised", "conflict"} : Raise(w, at)
    <3>1. {"raised", "conflict"} \subseteq Points \ {"claim", "fetch"}
      BY DEF Points, CommitPoints
    <3>2. Ownership' /\ WorkerTypeOK'
      BY <1>1, <2>1, <2>2, <2>3, <3>1, Continues DEF Raise
    <3> QED BY <2>2, <3>2, StaysKeeps
  <2>4. CASE /\ Readable(r, e)
             /\ Move(w, [t EXCEPT !.at = "repost", !.obj.token = qbo[r][e].token])
    <3> DEFINE obj == [t.obj EXCEPT !.token = qbo[r][e].token]
    <3>1. obj \in Row
      <4>1. qbo[r][e] \in QboInvoice
        BY <1>1, <1>2, <2>4, LenProperties DEF QuickBooksTypeOK, Readable
      <4>2. qbo[r][e].token \in Tokens
        BY <4>1 DEF QboInvoice, Tokens
      <4> QED BY <1>1, <4>2 DEF Row
    <3>2. [t EXCEPT !.at = "repost", !.obj.token = qbo[r][e].token]
            = [t EXCEPT !.at = "repost", !.obj = obj]
      BY <1>1 DEF Task, Row
    <3>3. Move(w, [work[w] EXCEPT !.at = "repost", !.obj = obj])
      BY <2>4, <3>2
    <3> HIDE DEF obj
    <3>4. Ownership' /\ WorkerTypeOK'
      <4>1. "repost" \in Points \ {"claim", "fetch"}
        BY DEF Points, CommitPoints, Calls
      <4> QED BY <2>1, <2>2, <3>1, <3>3, <4>1, Continues
    <3> QED BY <2>2, <3>4, StaysKeeps
  <2> QED BY <1>9, <2>3, <2>4 DEF Reread
<1> QED BY <1>3, <1>4, <1>5, <1>6, <1>7, <1>8, <1>9 DEF ExecutorStep

------------------------------------------------------------------------------
(* What the handler puts in the worker's hand is typed.                     *)
LEMMA BegunType ==
  ASSUME QueueInvariant, NEW e \in Nat, NEW i \in {0} \cup DOMAIN invoices,
         NEW at \in Points, NEW obj \in Row
  PROVE  /\ Begun(e, i, at, obj) \in Task /\ Begun(e, i, at, obj).at = at
         /\ Begun(e, i, at, obj).id = e /\ Begun(e, i, at, obj).inv = i
<1>1. i \in Nat /\ (i # 0 => invoices[i] \in Row)
  BY RowType
<1> QED BY <1>1, BlankRow DEF Begun, Task

(* Marking an invoice deleted or voided gives a row.                        *)
LEMMA MarkType ==
  ASSUME NEW row \in Row, NEW status \in Statuses
  PROVE  /\ [row EXCEPT !.status = status, !.sync = "complete"] \in Row
         /\ [row EXCEPT !.deleted = TRUE, !.status = status, !.sync = "complete"] \in Row
BY DEF Row, SyncStatuses

(* Every step of the webhook handler keeps the invariant.                   *)
LEMMA HandlerKeeps ==
  ASSUME QueueInvariant, NEW w \in Workers, HandlerStep(w), UNCHANGED request
  PROVE  CoreInvariant'
<1> DEFINE t == work[w]
<1>1. t \in Task /\ t.obj \in Row
  BY WorkType
<1>2. CASE BeginEvent(w)
  <2>1. /\ phase[w] = "events" /\ t.at = "idle"
        /\ UNCHANGED <<storeVars, qboVars, phase, batch, crashes>>
    BY <1>2 DEF BeginEvent, HandlerFrame
  <2>2. PICK e \in batch[w] :
          \/ BeginAmbiguous(w, e, Lookup(notes[e].ext))
          \/ BeginCreated(w, e, Lookup(notes[e].ext))
          \/ BeginUpdated(w, e, Lookup(notes[e].ext))
          \/ BeginDeleted(w, e, Lookup(notes[e].ext))
          \/ BeginVoided(w, e, Lookup(notes[e].ext))
    BY <1>2 DEF BeginEvent
  <2>3. e \in Nat
    BY DEF QueueInvariant, TypeOK, WorkerTypeOK
  <2> DEFINE found == Lookup(notes[e].ext)
  <2>4. \A i \in found : i \in DOMAIN invoices /\ invoices[i] \in Row
    BY RowType DEF Lookup
  <2>5. \E i \in {0} \cup DOMAIN invoices, at \in {"skip", "raised", "fetch", "write"},
           obj \in Row : Move(w, Begun(e, i, at, obj))
    <3> HIDE DEF found
    <3>1. CASE BeginAmbiguous(w, e, found)
      BY <3>1, BlankRow DEF BeginAmbiguous
    <3>2. CASE BeginCreated(w, e, found)
      BY <3>2, BlankRow DEF BeginCreated, Skipped
    <3>3. CASE BeginUpdated(w, e, found)
      BY <2>4, <3>3, BlankRow DEF BeginUpdated, Skipped
    <3>4. CASE BeginDeleted(w, e, found)
      <4>1. \A i \in found : [invoices[i] EXCEPT !.deleted = TRUE, !.status = "Deleted",
                                                 !.sync = "complete"] \in Row
        BY <2>4, MarkType DEF Statuses
      <4> QED BY <2>4, <3>4, <4>1, BlankRow DEF BeginDeleted, Skipped
    <3>5. CASE BeginVoided(w, e, found)
      <4>1. \A i \in found : [invoices[i] EXCEPT !.status = "Voided",
                                                 !.sync = "complete"] \in Row
        BY <2>4, MarkType DEF Statuses
      <4> QED BY <2>4, <3>5, <4>1, BlankRow DEF BeginVoided, Skipped
    <3> QED BY <2>2, <3>1, <3>2, <3>3, <3>4, <3>5 DEF found
  <2>6. PICK i \in {0} \cup DOMAIN invoices, at \in {"skip", "raised", "fetch", "write"},
             obj \in Row : Move(w, Begun(e, i, at, obj))
    BY <2>5
  <2> DEFINE task == Begun(e, i, at, obj)
  <2>7. at \in Points /\ at # "claim"
    BY DEF Points, CommitPoints, Calls
  <2>8. task \in Task /\ task.at = at /\ task.id = e /\ task.inv = i
    BY <2>3, <2>7, BegunType
  <2> HIDE DEF task
  <2>9. Move(w, task)
    BY <2>6 DEF task
  <2>10. Ownership' /\ WorkerTypeOK'
    BY <2>1, <2>7, <2>8, <2>9, TaskStep
  <2> QED BY <2>1, <2>10, StaysKeeps
<1>3. CASE Fetch(w)
  <2> DEFINE n == notes[t.id]
             q == qbo[n.realm][n.ext]
  <2>1. t.at = "fetch" /\ UNCHANGED <<storeVars, qboVars, phase, batch, crashes>>
    BY <1>3 DEF Fetch, HandlerFrame
  <2>2. n \in Note
    <3>1. t.id \in DOMAIN events
      BY <2>1 DEF QueueInvariant, WorksOnItsBatch, HoldsItsQueue, QueueOf
    <3>2. t.id \in DOMAIN notes /\ notes \in Seq(Note)
      BY <3>1 DEF QueueInvariant, TypeOK, QuickBooksTypeOK
    <3> QED BY <3>2, LenProperties
  <2>3. n.realm \in Realms /\ n.ext \in Nat
    BY <2>2 DEF Note
  <2>4. Readable(n.realm, n.ext) => q \in QboInvoice
    BY <2>3, LenProperties DEF Readable, QueueInvariant, TypeOK, QuickBooksTypeOK
  <2>5. Readable(n.realm, n.ext) => q.token \in Tokens /\ q.content \in AllContents
    BY <2>4 DEF QboInvoice, Tokens
  <2> DEFINE Goes == \E at \in {"skip", "raised", "insert", "write"}, obj \in Row :
                       \/ Move(w, [work[w] EXCEPT !.at = at])
                       \/ Move(w, [work[w] EXCEPT !.at = at, !.obj = obj])
             Refreshes == \E obj, loaded \in Row :
                            Move(w, [work[w] EXCEPT !.at = "write", !.obj = obj,
                                                    !.loaded = loaded])
  <2>6. Goes \/ Refreshes
    <3>1. CASE FetchMissing(w, n)
      BY <1>1, <3>1 DEF FetchMissing, Raise
    <3>2. CASE Readable(n.realm, n.ext) /\ FetchCreated(w, n, q)
      <4> DEFINE row == [company |-> n.realm, origin |-> "qbo", status |-> "Created",
                         deleted |-> FALSE, content |-> q.content, ext |-> n.ext,
                         token |-> q.token, sync |-> "complete"]
      <4>1. row \in Row
        BY <2>3, <2>5, <3>2 DEF Row, Statuses, SyncStatuses
      <4>2. \/ Move(w, [work[w] EXCEPT !.at = "insert", !.obj = row])
            \/ Move(w, [work[w] EXCEPT !.at = "skip"])
        BY <3>2 DEF FetchCreated
      <4> HIDE DEF row
      <4> QED BY <4>1, <4>2
    <3>3. CASE Readable(n.realm, n.ext) /\ FetchUpdated(w, n, q)
      <4>1. Refreshed(t.obj, q) \in Row
        <5>1. t.obj.content \in AllContents
          BY <1>1 DEF Row
        <5>2. Pulled(t.obj.content, q.content) \in AllContents
          BY <2>5, <3>3, <5>1, OverlayType DEF Pulled
        <5> QED BY <1>1, <2>5, <3>3, <5>2 DEF Refreshed, Row, SyncStatuses
      <4>2. Compared(t.loaded, q) \in Row
        <5>1. t.loaded \in Row /\ t.loaded.content \in AllContents
          BY <1>1 DEF Task, Row
        <5>2. [t.loaded.content EXCEPT !.due = NoDue] \in AllContents
          BY <5>1 DEF AllContents
        <5> QED BY <2>5, <3>3, <5>1, <5>2 DEF Compared, Row, AllContents
      <4>3. \/ Move(w, [work[w] EXCEPT !.at = "write", !.obj = Refreshed(t.obj, q),
                                      !.loaded = Compared(t.loaded, q)])
            \/ Move(w, [work[w] EXCEPT !.at = "skip"])
        BY <1>1, <3>3 DEF FetchUpdated, Task
      <4> QED BY <4>1, <4>2, <4>3
    <3> QED BY <1>3, <3>1, <3>2, <3>3 DEF Fetch
  <2>7. {"skip", "raised", "insert", "write"} \subseteq Points \ {"claim", "fetch"}
    BY DEF Points, CommitPoints
  <2>8. ASSUME Goes PROVE Ownership' /\ WorkerTypeOK'
    BY <2>1, <2>7, <2>8, Continues
  <2>9. ASSUME Refreshes PROVE Ownership' /\ WorkerTypeOK'
    <3>1. PICK obj, loaded \in Row :
            Move(w, [t EXCEPT !.at = "write", !.obj = obj, !.loaded = loaded])
      BY <2>9
    <3> DEFINE task == [t EXCEPT !.at = "write", !.obj = obj, !.loaded = loaded]
    <3>2. t \in Task /\ t.id \in batch[w] /\ t.inv \in {0} \cup DOMAIN invoices
      BY <2>1, WorkType DEF QueueInvariant, WorksOnItsBatch
    <3>3. Move(w, task)
      BY <3>1
    <3> HIDE DEF t
    <3>4. task \in Task /\ task.at = "write" /\ task.id = t.id /\ task.inv = t.inv
      BY <2>7, <3>2 DEF Task
    <3> HIDE DEF task
    <3>5. t.at # "claim"
      BY <2>1 DEF t
    <3> QED BY <2>1, <3>2, <3>3, <3>4, <3>5, TaskStep DEF t
  <2> HIDE DEF Goes, Refreshes
  <2>10. Ownership' /\ WorkerTypeOK'
    BY <2>6, <2>8, <2>9
  <2> QED BY <2>1, <2>10, StaysKeeps
<1> QED BY <1>2, <1>3 DEF HandlerStep

------------------------------------------------------------------------------
(* The commit of a handler's writes keeps the tables typed.                 *)
LEMMA PersistType ==
  ASSUME QueueInvariant, NEW w \in Workers, Persist(w)
  PROVE  /\ invoices' \in Seq(Row) /\ audit' \in Seq(Snapshot)
         /\ Len(audit') = Len(invoices')
         /\ DOMAIN invoices \subseteq DOMAIN invoices'
         /\ work[w].at \notin {"idle", "down", "claim"}
<1>1. invoices \in Seq(Row) /\ audit \in Seq(Snapshot) /\ Len(audit) = Len(invoices)
  BY DEF QueueInvariant, TypeOK, StoreTypeOK
<1>2. work[w].loaded \in Row /\ work[w].obj \in Row
  BY WorkType
<1>3. CASE work[w].at = "skip" /\ UNCHANGED <<invoices, audit>>
  BY <1>1, <1>3
<1>4. CASE /\ work[w].at \in {"write", "rewrite"}
           /\ SaveInvoice(work[w].inv, work[w].loaded, work[w].obj, LockedByOthers(w))
  BY <1>1, <1>2, <1>4, SaveInvoiceType
<1>5. CASE work[w].at = "insert" /\ AddInvoice(work[w].obj)
  BY <1>1, <1>2, <1>5, AddInvoiceType
<1> QED BY <1>3, <1>4, <1>5 DEF Persist

(* A job in hand has an attempt left.                                       *)
LEMMA MyJob ==
  ASSUME QueueInvariant, NEW w \in Workers, phase[w] = "jobs",
         work[w].at \notin {"idle", "down", "claim"}
  PROVE  /\ jobs[work[w].id] \in Job
         /\ jobs[work[w].id].attempts < MaxAttempts
<1>1. work[w].id \in batch[w] /\ work[w].id \in DOMAIN jobs
  BY DEF QueueInvariant, WorksOnItsBatch, HoldsItsQueue, QueueOf
<1>2. Active(jobs[work[w].id])
  BY <1>1 DEF QueueInvariant, OneOwner, QueueOf, Active
<1> QED BY <1>1, <1>2, LenProperties DEF QueueInvariant, TypeOK, StoreTypeOK, AttemptsLeft

(* An event in hand has an attempt left.                                    *)
LEMMA MyEvent ==
  ASSUME QueueInvariant, NEW w \in Workers, phase[w] = "events",
         work[w].at \notin {"idle", "down", "claim"}
  PROVE  /\ events[work[w].id] \in Event
         /\ events[work[w].id].attempts < MaxAttempts
<1>1. work[w].id \in batch[w] /\ work[w].id \in DOMAIN events
  BY DEF QueueInvariant, WorksOnItsBatch, HoldsItsQueue, QueueOf
<1>2. Active(events[work[w].id])
  BY <1>1 DEF QueueInvariant, OneOwner, QueueOf, Active
<1> QED BY <1>1, <1>2 DEF QueueInvariant, TypeOK, StoreTypeOK, AttemptsLeft

(* Completing a job, or noting its error, gives a job.                      *)
LEMMA OutcomeType ==
  ASSUME NEW row \in Job
  PROVE  /\ [row EXCEPT !.status = "completed"] \in Job
         /\ [row EXCEPT !.status = "completed"].inv = row.inv
         /\ ~Active([row EXCEPT !.status = "completed"])
         /\ [row EXCEPT !.error = "error"] \in Job
         /\ [row EXCEPT !.error = "error"].inv = row.inv
         /\ [row EXCEPT !.error = "error"].attempts = row.attempts
         /\ [row EXCEPT !.error = "error"].status = row.status
BY DEF Job, QueueStates, Active

(* A job given up because of a conflict is final.                           *)
LEMMA AbortedType ==
  ASSUME NEW row \in Job
  PROVE  LET aborted == [row EXCEPT !.attempts = MaxAttempts, !.status = "failed",
                                    !.error = "conflict"]
         IN  aborted \in Job /\ aborted.inv = row.inv /\ ~Active(aborted)
<1>1. MaxAttempts \in 0 .. MaxAttempts
  BY StoreAssumption
<1> QED BY <1>1 DEF Job, QueueStates, Active

(* Committing the outcome of a job keeps the invariant.                     *)
LEMMA JobsOutcomeKeeps ==
  ASSUME QueueInvariant, NEW w \in Workers, phase[w] = "jobs",
         work[w].at \notin {"idle", "down", "claim"},
         NEW row \in Job, row.inv = jobs[work[w].id].inv,
         Active(row) => row.attempts < MaxAttempts,
         jobs' = [jobs EXCEPT ![work[w].id] = row],
         Finish(w), UNCHANGED <<events, qboVars, crashes, request>>,
         invoices' \in Seq(Row), audit' \in Seq(Snapshot), Len(audit') = Len(invoices'),
         DOMAIN invoices \subseteq DOMAIN invoices'
  PROVE  CoreInvariant'
<1>1. /\ Ownership' /\ WorkerTypeOK' /\ jobs' \in Seq(Job)
      /\ \A j \in DOMAIN jobs' : jobs'[j].inv \in DOMAIN invoices'
  BY FinishJob
<1>2. StoreTypeOK'
  BY <1>1 DEF QueueInvariant, TypeOK, StoreTypeOK
<1>3. QuickBooksTypeOK'
  BY QuickBooksIdle DEF QueueInvariant, TypeOK, QuickBooksTypeOK
<1> QED BY <1>1, <1>2, <1>3, ServiceIdle, InvariantSplits

(* Committing the outcome of an event keeps the invariant.                  *)
LEMMA EventsOutcomeKeeps ==
  ASSUME QueueInvariant, NEW w \in Workers, phase[w] = "events",
         work[w].at \notin {"idle", "down", "claim"},
         NEW row \in Event, Active(row) => row.attempts < MaxAttempts,
         events' = [events EXCEPT ![work[w].id] = row],
         Finish(w), UNCHANGED <<jobs, qboVars, crashes, request>>,
         invoices' \in Seq(Row), audit' \in Seq(Snapshot), Len(audit') = Len(invoices'),
         DOMAIN invoices \subseteq DOMAIN invoices'
  PROVE  CoreInvariant'
<1>1. /\ Ownership' /\ WorkerTypeOK' /\ events' \in [DOMAIN events' -> Event]
      /\ DOMAIN events' = DOMAIN events
  BY FinishEvent
<1>2. StoreTypeOK'
  BY <1>1 DEF QueueInvariant, TypeOK, StoreTypeOK
<1>3. QuickBooksTypeOK'
  BY <1>1, QuickBooksIdle DEF QueueInvariant, TypeOK, QuickBooksTypeOK
<1> QED BY <1>1, <1>2, <1>3, ServiceIdle, InvariantSplits

(* Replacing one row of the invoices table keeps it typed.                  *)
LEMMA ReplaceRow ==
  ASSUME invoices \in Seq(Row), NEW i, NEW row, i \in DOMAIN invoices => row \in Row,
         invoices' = [invoices EXCEPT ![i] = row]
  PROVE  invoices' \in Seq(Row) /\ Len(invoices') = Len(invoices)
         /\ DOMAIN invoices' = DOMAIN invoices
BY SeqExcept

(* Every step of the polling loop keeps the invariant.                      *)
LEMMA LoopKeeps ==
  ASSUME QueueInvariant, NEW w \in Workers, LoopStep(w), UNCHANGED request
  PROVE  CoreInvariant'
<1> DEFINE t == work[w]
<1>1. invoices \in Seq(Row) /\ audit \in Seq(Snapshot) /\ Len(audit) = Len(invoices)
  BY DEF QueueInvariant, TypeOK, StoreTypeOK
<1>2. CASE PollJobs(w)
  <2>1. Select(w, "jobs", jobs)
    BY <1>2 DEF PollJobs
  <2>2. Ownership' /\ WorkerTypeOK'
    BY <2>1, SelectKeeps
  <2> QED BY <2>1, <2>2, StaysKeeps DEF Select
<1>3. CASE PollEvents(w)
  <2>1. Select(w, "events", events)
    BY <1>3 DEF PollEvents
  <2>2. Ownership' /\ WorkerTypeOK'
    BY <2>1, SelectKeeps
  <2> QED BY <2>1, <2>2, StaysKeeps DEF Select
<1>4. CASE ClaimJobs(w)
  <2>1. Ownership' /\ WorkerTypeOK' /\ StoreTypeOK'
    BY <1>4, ClaimJobsKeeps
  <2>2. UNCHANGED <<invoices, events, qboVars>>
    BY <1>4 DEF ClaimJobs
  <2>3. QuickBooksTypeOK'
    BY <2>2, QuickBooksIdle DEF QueueInvariant, TypeOK, QuickBooksTypeOK
  <2> QED BY <2>1, <2>2, <2>3, ServiceIdle, InvariantSplits
<1>5. CASE ClaimEvents(w)
  <2>1. Ownership' /\ WorkerTypeOK' /\ StoreTypeOK' /\ DOMAIN events' = DOMAIN events
    BY <1>5, ClaimEventsKeeps
  <2>2. UNCHANGED <<invoices, qboVars>>
    BY <1>5 DEF ClaimEvents
  <2>3. QuickBooksTypeOK'
    BY <2>1, <2>2, QuickBooksIdle DEF QueueInvariant, TypeOK, QuickBooksTypeOK
  <2> QED BY <2>1, <2>2, <2>3, ServiceIdle, InvariantSplits
<1>6. CASE CompleteJob(w)
  <2>1. /\ phase[w] = "jobs" /\ Persist(w) /\ Finish(w)
        /\ UNCHANGED <<events, qboVars, crashes, request>>
        /\ jobs' = [jobs EXCEPT ![t.id] = [jobs[t.id] EXCEPT !.status = "completed"]]
    BY <1>6 DEF CompleteJob
  <2>2. jobs[t.id] \in Job
    BY <2>1, PersistType, MyJob
  <2> DEFINE row == [jobs[t.id] EXCEPT !.status = "completed"]
  <2>3. row \in Job /\ row.inv = jobs[t.id].inv /\ ~Active(row)
    BY <2>2, OutcomeType
  <2>4. jobs' = [jobs EXCEPT ![t.id] = row]
    BY <2>1
  <2> HIDE DEF row
  <2> QED BY <2>1, <2>3, <2>4, PersistType, JobsOutcomeKeeps
<1>7. CASE RetryJob(w)
  <2> DEFINE failed == Reattempt(jobs[t.id])
             row == [failed EXCEPT !.error = "error"]
  <2>1. /\ phase[w] = "jobs" /\ t.at = "raised" /\ Finish(w)
        /\ UNCHANGED <<audit, events, qboVars, crashes, request>>
        /\ jobs' = [jobs EXCEPT ![t.id] = row]
        /\ \/ invoices' = [invoices EXCEPT ![t.inv].sync = "failed"]
           \/ UNCHANGED invoices
    BY <1>7 DEF RetryJob
  <2>2. jobs[t.id] \in Job /\ jobs[t.id].attempts < MaxAttempts
    BY <2>1, MyJob
  <2>3. /\ failed \in Job /\ failed.inv = jobs[t.id].inv
        /\ Active(failed) => failed.attempts < MaxAttempts
    BY <2>2, ReattemptJob
  <2> HIDE DEF failed
  <2>4. /\ row \in Job /\ row.inv = jobs[t.id].inv
        /\ Active(row) => row.attempts < MaxAttempts
    BY <2>3, OutcomeType DEF Active
  <2>5. invoices' \in Seq(Row) /\ Len(invoices') = Len(invoices)
        /\ DOMAIN invoices \subseteq DOMAIN invoices'
    <3>1. ASSUME NEW i \in DOMAIN invoices
          PROVE  [invoices[i] EXCEPT !.sync = "failed"] \in Row
      <4>1. invoices[i] \in Row
        BY RowType
      <4> QED BY <4>1 DEF Row, SyncStatuses
    <3>2. CASE invoices' = [invoices EXCEPT ![t.inv].sync = "failed"]
      <4> DEFINE marked == [invoices[t.inv] EXCEPT !.sync = "failed"]
      <4>1. invoices' = [invoices EXCEPT ![t.inv] = marked]
        BY <3>2
      <4>2. t.inv \in DOMAIN invoices => marked \in Row
        BY <3>1
      <4> HIDE DEF marked
      <4> QED BY <1>1, <4>1, <4>2, ReplaceRow
    <3>3. CASE UNCHANGED invoices
      BY <1>1, <3>3
    <3> QED BY <2>1, <3>2, <3>3
  <2> HIDE DEF row
  <2> QED BY <1>1, <2>1, <2>4, <2>5, JobsOutcomeKeeps
<1>8. CASE AbortJob(w)
  <2> DEFINE row == [jobs[t.id] EXCEPT !.attempts = MaxAttempts, !.status = "failed",
                                       !.error = "conflict"]
  <2>1. /\ phase[w] = "jobs" /\ t.at = "conflict" /\ Finish(w)
        /\ UNCHANGED <<invoices, audit, events, qboVars, crashes, request>>
        /\ jobs' = [jobs EXCEPT ![t.id] = row]
    BY <1>8 DEF AbortJob
  <2>2. jobs[t.id] \in Job
    BY <2>1, MyJob
  <2>3. row \in Job /\ row.inv = jobs[t.id].inv /\ ~Active(row)
    BY <2>2, AbortedType
  <2> HIDE DEF row
  <2> QED BY <1>1, <2>1, <2>3, JobsOutcomeKeeps
<1>9. CASE CompleteEvent(w)
  <2> DEFINE row == [events[t.id] EXCEPT !.status = "completed"]
  <2>1. /\ phase[w] = "events" /\ Persist(w) /\ Finish(w)
        /\ UNCHANGED <<jobs, qboVars, crashes, request>>
        /\ events' = [events EXCEPT ![t.id] = row]
    BY <1>9 DEF CompleteEvent
  <2>2. events[t.id] \in Event
    BY <2>1, PersistType, MyEvent
  <2>3. row \in Event /\ ~Active(row)
    BY <2>2 DEF Event, QueueStates, Active
  <2> HIDE DEF row
  <2> QED BY <2>1, <2>3, PersistType, EventsOutcomeKeeps
<1>10. CASE RetryEvent(w)
  <2> DEFINE row == Reattempt(events[t.id])
  <2>1. /\ phase[w] = "events" /\ t.at = "raised" /\ Finish(w)
        /\ UNCHANGED <<invoices, audit, jobs, qboVars, crashes, request>>
        /\ events' = [events EXCEPT ![t.id] = row]
    BY <1>10 DEF RetryEvent
  <2>2. events[t.id] \in Event /\ events[t.id].attempts < MaxAttempts
    BY <2>1, MyEvent
  <2>3. row \in Event /\ (Active(row) => row.attempts < MaxAttempts)
    BY <2>2, ReattemptEvent
  <2> HIDE DEF row
  <2> QED BY <1>1, <2>1, <2>3, EventsOutcomeKeeps
<1> QED BY <1>2, <1>3, <1>4, <1>5, <1>6, <1>7, <1>8, <1>9, <1>10 DEF LoopStep

------------------------------------------------------------------------------
(* A failed request, a crash and a restart keep the invariant.              *)
LEMMA FailureKeeps ==
  ASSUME QueueInvariant, NEW w \in Workers, UNCHANGED request,
         AttemptFails(w) \/ Crash(w) \/ Restart(w)
  PROVE  CoreInvariant'
<1> DEFINE t == work[w]
<1>1. t \in Task /\ t.obj \in Row
  BY WorkType
<1>2. CASE AttemptFails(w)
  <2>1. /\ t.at \in Calls \cup CommitPoints /\ NetworkFault /\ Move(w, [work[w] EXCEPT !.at = "raised"])
        /\ UNCHANGED <<storeVars, qbo, notes, edits, phase, batch, crashes>>
    BY <1>2 DEF AttemptFails, Raise
  <2>2. "raised" \in Points \ {"claim", "fetch"} /\ (Calls \cup CommitPoints) \cap {"idle", "down", "claim"} = {}
    BY DEF Points, CommitPoints, Calls
  <2>3. Ownership' /\ StoreTypeOK' /\ WorkerTypeOK'
    BY <1>1, <2>1, <2>2, Continues
  <2>4. QuickBooksTypeOK'
    BY <2>1, FaultType DEF QueueInvariant, TypeOK, QuickBooksTypeOK, storeVars
  <2> QED BY <2>1, <2>3, <2>4, ServiceIdle, InvariantSplits DEF storeVars
<1>3. CASE Crash(w)
  <2> DEFINE down == [Idle EXCEPT !.at = "down"]
  <2>1. /\ crashes < MaxCrashes /\ crashes' = crashes + 1
        /\ work' = [work EXCEPT ![w] = down]
        /\ batch' = [batch EXCEPT ![w] = {}] /\ phase' = [phase EXCEPT ![w] = "jobs"]
        /\ UNCHANGED <<storeVars, qboVars>>
    BY <1>3 DEF Crash, Move
  <2>2. down \in Task /\ down.at = "down" /\ down.inv = 0
    BY BlankRow DEF Idle, Task, Points, CommitPoints
  <2> HIDE DEF down
  <2>3. /\ phase \in [Workers -> {"jobs", "events"}] /\ batch \in [Workers -> SUBSET Nat]
        /\ work \in [Workers -> Task]
        /\ \A v \in Workers : work[v].inv \in {0} \cup DOMAIN invoices
        /\ crashes \in 0 .. MaxCrashes
    BY DEF QueueInvariant, TypeOK, WorkerTypeOK
  <2>4. \A v \in Workers :
          /\ batch'[v] = IF v = w THEN {} ELSE batch[v]
          /\ work'[v] = IF v = w THEN down ELSE work[v]
          /\ v # w => phase'[v] = phase[v]
    BY <2>1, <2>3
  <2>5. UNCHANGED <<invoices, audit, jobs, events>>
    BY <2>1 DEF storeVars
  <2>6. crashes' \in 0 .. MaxCrashes
    BY <2>1, <2>3, SyncWorkerAssumption
  <2>7. WorkerTypeOK'
    BY <2>1, <2>2, <2>3, <2>4, <2>5, <2>6 DEF WorkerTypeOK
  <2>8. \A v \in Workers : v # w => QueueOf(v)' = QueueOf(v)
    BY <2>4, <2>5 DEF QueueOf
  <2>9. OneOwner'
    BY <2>4, <2>8 DEF QueueInvariant, OneOwner
  <2>10. HoldsItsQueue' /\ WorksOnItsBatch' /\ AttemptsLeft'
    BY <2>2, <2>4, <2>5, <2>8
       DEF QueueInvariant, HoldsItsQueue, WorksOnItsBatch, AttemptsLeft
  <2> QED BY <2>1, <2>7, <2>9, <2>10, StaysKeeps DEF Ownership
<1>4. CASE Restart(w)
  <2>1. /\ t.at = "down" /\ Move(w, Idle)
        /\ UNCHANGED <<storeVars, qboVars, phase, batch, crashes>>
    BY <1>4 DEF Restart
  <2>2. Idle \in Task /\ Idle.at = "idle" /\ Idle.inv = 0
    BY BlankRow DEF Idle, Task, Points, CommitPoints
  <2>3. Ownership' /\ WorkerTypeOK'
    BY <2>1, <2>2, TaskStep
  <2> QED BY <2>1, <2>3, StaysKeeps
<1> QED BY <1>2, <1>3, <1>4

(* The end of a backoff changes nothing else of a job.                      *)
LEMMA ElapsedJob ==
  ASSUME NEW row \in Job
  PROVE  /\ [row EXCEPT !.due = TRUE] \in Job
         /\ [row EXCEPT !.due = TRUE].inv = row.inv
         /\ [row EXCEPT !.due = TRUE].status = row.status
         /\ [row EXCEPT !.due = TRUE].attempts = row.attempts
BY DEF Job

(* The end of a backoff changes nothing else of an event.                   *)
LEMMA ElapsedEvent ==
  ASSUME NEW row \in Event
  PROVE  /\ [row EXCEPT !.due = TRUE] \in Event
         /\ [row EXCEPT !.due = TRUE].status = row.status
         /\ [row EXCEPT !.due = TRUE].attempts = row.attempts
BY DEF Event

(* The end of a backoff keeps the invariant.                                *)
LEMMA WakesKeeps ==
  ASSUME QueueInvariant, Wakes, UNCHANGED request
  PROVE  CoreInvariant'
<1>1. UNCHANGED <<invoices, audit, qboVars, workerVars>>
  BY DEF Wakes
<1>2. ASSUME NEW j \in DOMAIN jobs, jobs' = Elapse(jobs, j), UNCHANGED events
      PROVE  CoreInvariant'
  <2> DEFINE row == [jobs[j] EXCEPT !.due = TRUE]
  <2>1. jobs \in Seq(Job) /\ \A k \in DOMAIN jobs : jobs[k] \in Job
    BY LenProperties DEF QueueInvariant, TypeOK, StoreTypeOK
  <2>2. jobs' = [jobs EXCEPT ![j] = row]
    BY <1>2 DEF Elapse
  <2>3. /\ row \in Job /\ row.inv = jobs[j].inv /\ row.status = jobs[j].status
        /\ row.attempts = jobs[j].attempts
    BY <2>1, ElapsedJob
  <2> HIDE DEF row
  <2>4. jobs' \in Seq(Job) /\ DOMAIN jobs' = DOMAIN jobs
    BY <2>1, <2>2, <2>3, SeqExcept
  <2>5. \A k \in DOMAIN jobs :
          /\ jobs'[k].inv = jobs[k].inv /\ jobs'[k].status = jobs[k].status
          /\ jobs'[k].attempts = jobs[k].attempts
    BY <2>1, <2>2, <2>3
  <2>6. StoreTypeOK'
    BY <1>1, <1>2, <2>4, <2>5 DEF QueueInvariant, TypeOK, StoreTypeOK
  <2>7. AttemptsLeft'
    BY <1>2, <2>4, <2>5 DEF QueueInvariant, AttemptsLeft, Active
  <2>8. Ownership' /\ WorkerTypeOK'
    BY <1>1, <1>2, <2>4, <2>5, <2>7, QueuesGrow
  <2>9. QuickBooksTypeOK'
    BY <1>1, <1>2, QuickBooksIdle DEF QueueInvariant, TypeOK, QuickBooksTypeOK
  <2> QED BY <1>1, <2>6, <2>8, <2>9, ServiceIdle, InvariantSplits
<1>3. ASSUME NEW e \in DOMAIN events, events' = Elapse(events, e), UNCHANGED jobs
      PROVE  CoreInvariant'
  <2> DEFINE row == [events[e] EXCEPT !.due = TRUE]
  <2>1. events \in [DOMAIN events -> Event]
    BY DEF QueueInvariant, TypeOK, StoreTypeOK
  <2>2. events' = [events EXCEPT ![e] = row]
    BY <1>3 DEF Elapse
  <2>3. row \in Event /\ row.status = events[e].status /\ row.attempts = events[e].attempts
    BY <2>1, ElapsedEvent
  <2> HIDE DEF row
  <2>4. events' \in [DOMAIN events' -> Event] /\ DOMAIN events' = DOMAIN events
    BY <2>1, <2>2, <2>3
  <2>5. \A k \in DOMAIN events :
          events'[k].status = events[k].status /\ events'[k].attempts = events[k].attempts
    BY <2>1, <2>2, <2>3
  <2>6. StoreTypeOK'
    BY <1>1, <1>3, <2>4 DEF QueueInvariant, TypeOK, StoreTypeOK
  <2>7. AttemptsLeft'
    BY <1>3, <2>4, <2>5 DEF QueueInvariant, AttemptsLeft, Active
  <2>8. Ownership' /\ WorkerTypeOK'
    BY <1>1, <1>3, <2>4, <2>5, <2>7, QueuesGrow
  <2>9. QuickBooksTypeOK'
    BY <1>1, <2>4, QuickBooksIdle DEF QueueInvariant, TypeOK, QuickBooksTypeOK
  <2> QED BY <1>1, <2>6, <2>8, <2>9, ServiceIdle, InvariantSplits
<1> QED BY <1>2, <1>3 DEF Wakes, BackingOff

(* An event that is stored keeps the invariant, whoever stored it first.    *)
LEMMA StoreEventKeeps ==
  ASSUME QueueInvariant, NEW w \in Workers, StoreEvent(w), UNCHANGED request
  PROVE  CoreInvariant'
<1> DEFINE n == intake[w]
           fresh == [status |-> "pending", attempts |-> 0, due |-> TRUE]
<1>1. /\ n # NoDelivery
      /\ events' = IF n \in DOMAIN events THEN events ELSE WithEvent(n)
      /\ UNCHANGED <<invoices, audit, jobs, qboVars, workerVars, request>>
  BY DEF StoreEvent, EndpointFree
<1>2. fresh \in Event /\ fresh.attempts < MaxAttempts
  BY StoreAssumption DEF Event, QueueStates
<1>3. WithEvent(n) = [e \in DOMAIN events \cup {n} |-> IF e = n THEN fresh ELSE events[e]]
  BY DEF WithEvent
<1> HIDE DEF fresh
<1>4. /\ events \in [DOMAIN events -> Event] /\ DOMAIN events \subseteq DOMAIN notes
      /\ n \in DOMAIN notes
  BY <1>1 DEF QueueInvariant, TypeOK, StoreTypeOK, QuickBooksTypeOK, EndpointTypeOK
<1>5. /\ events' \in [DOMAIN events' -> Event] /\ DOMAIN events' = DOMAIN events \cup {n}
      /\ \A e \in DOMAIN events : events'[e] = events[e]
      /\ n \notin DOMAIN events => events'[n] = fresh
  BY <1>1, <1>2, <1>3, <1>4
<1>6. StoreTypeOK'
  BY <1>1, <1>5 DEF QueueInvariant, TypeOK, StoreTypeOK
<1>7. AttemptsLeft'
  BY <1>1, <1>2, <1>5 DEF QueueInvariant, AttemptsLeft
<1>8. Ownership' /\ WorkerTypeOK'
  BY <1>1, <1>5, <1>7, QueuesGrow
<1>9. QuickBooksTypeOK'
  BY <1>1, <1>4, <1>5, QuickBooksIdle
<1> QED BY <1>1, <1>6, <1>8, <1>9, ServiceIdle, InvariantSplits

(* A step of anybody that touches no table, worker or handler, and adds at  *)
(* most notifications, keeps the invariant.                                 *)
LEMMA NotesKeep ==
  ASSUME QueueInvariant, UNCHANGED <<storeVars, qbo, edits, faults, workerVars, request>>,
         notes' \in Seq(Note), DOMAIN notes \subseteq DOMAIN notes'
  PROVE  CoreInvariant'
<1>1. UNCHANGED <<invoices, audit, jobs, events>>
  BY DEF storeVars
<1>2. AttemptsLeft' /\ StoreTypeOK' /\ QuickBooksTypeOK'
  BY <1>1 DEF QueueInvariant, AttemptsLeft, TypeOK, StoreTypeOK, QuickBooksTypeOK
<1>3. Ownership' /\ WorkerTypeOK'
  BY <1>1, <1>2, QueuesGrow
<1> QED BY <1>1, <1>2, <1>3, ServiceIdle, InvariantSplits

(* A repeated notification names the same invoice as the first.             *)
LEMMA RepeatKeeps ==
  ASSUME QueueInvariant, NEW n \in DOMAIN notes, RepeatUnidentified(n), UNCHANGED request
  PROVE  CoreInvariant'
<1>1. notes \in Seq(Note) /\ notes[n] \in Note
  BY LenProperties DEF QueueInvariant, TypeOK, QuickBooksTypeOK
<1>2. notes' = Append(notes, notes[n])
      /\ UNCHANGED <<storeVars, qbo, edits, faults, workerVars, request>>
  BY DEF RepeatUnidentified
<1>3. notes' \in Seq(Note) /\ DOMAIN notes \subseteq DOMAIN notes'
  BY <1>1, <1>2, SeqAppend, LenProperties
<1> QED BY <1>2, <1>3, NotesKeep

------------------------------------------------------------------------------
(* A write by a user of QuickBooks keeps the invariant.                     *)
LEMMA UserKeeps ==
  ASSUME QueueInvariant, UserStep, UNCHANGED <<storeVars, workerVars, request>>
  PROVE  CoreInvariant'
<1>1. QuickBooksTypeOK
  BY DEF QueueInvariant, TypeOK
<1>2. PICK r \in Realms : UserCreates(r) \/ UserWrites(r)
  BY DEF UserStep
<1>3. /\ qbo' \in [Realms -> Seq(QboInvoice)] /\ notes' \in Seq(Note)
      /\ DOMAIN notes \subseteq DOMAIN notes'
      /\ edits < MaxEdits /\ edits' = edits + 1 /\ UNCHANGED faults
  <2>1. CASE UserCreates(r)
    <3>1. \A content \in Contents : content \in AllContents
      BY StoreAssumption
    <3>2. NoLink \in Nat
      BY DEF NoLink
    <3> QED BY <1>1, <2>1, <3>1, <3>2, InsertType DEF UserCreates
  <2>2. CASE UserWrites(r)
    <3>1. PICK e \in DOMAIN qbo[r], op \in {"update", "void", "delete"} :
            \E content \in IF op = "update" THEN Contents \ {qbo[r][e].content}
                           ELSE {qbo[r][e].content} :
              Overwrite(r, e, op, content)
      BY <2>2 DEF UserWrites
    <3>2. qbo[r][e].content \in AllContents
      <4>1. qbo[r][e] \in QboInvoice
        BY <1>1, LenProperties DEF QuickBooksTypeOK
      <4> QED BY <4>1 DEF QboInvoice
    <3>3. PICK content \in AllContents : Overwrite(r, e, op, content)
      BY <3>1, <3>2, StoreAssumption
    <3> QED BY <1>1, <2>2, <3>3, OverwriteType DEF UserWrites
  <2> QED BY <1>2, <2>1, <2>2
<1>4. UNCHANGED <<invoices, audit, jobs, events>>
  BY DEF storeVars
<1>5. QuickBooksTypeOK'
  BY <1>1, <1>3, <1>4, QuickBooksAssumption DEF QuickBooksTypeOK
<1>6. StoreTypeOK'
  BY <1>4 DEF QueueInvariant, TypeOK, StoreTypeOK
<1>7. AttemptsLeft'
  BY <1>4 DEF QueueInvariant, AttemptsLeft
<1>8. Ownership' /\ WorkerTypeOK'
  BY <1>4, <1>7, QueuesGrow
<1> QED BY <1>4, <1>5, <1>6, <1>8, ServiceIdle, InvariantSplits

(* A commit of the API that enqueues a job keeps the invariant.             *)
LEMMA NewJobKeeps ==
  ASSUME QueueInvariant, NEW i \in Nat, NEW op \in {"create", "update", "delete", "void"},
         EnqueueJob(i, op), i \in DOMAIN invoices',
         invoices' \in Seq(Row), audit' \in Seq(Snapshot), Len(audit') = Len(invoices'),
         DOMAIN invoices \subseteq DOMAIN invoices', ServiceTypeOK',
         UNCHANGED <<events, qboVars, workerVars>>
  PROVE  CoreInvariant'
<1>1. jobs \in Seq(Job) /\ \A j \in DOMAIN jobs : jobs[j].inv \in DOMAIN invoices
  BY DEF QueueInvariant, TypeOK, StoreTypeOK
<1>2. DOMAIN jobs = 1 .. Len(jobs) /\ Len(jobs) \in Nat
  BY <1>1, LenProperties
<1>3. /\ jobs' \in Seq(Job) /\ DOMAIN jobs' = 1 .. Len(jobs) + 1
      /\ \A j \in DOMAIN jobs : jobs'[j] = jobs[j]
      /\ jobs'[Len(jobs) + 1].inv = i /\ jobs'[Len(jobs) + 1].attempts = 0
  BY <1>1, EnqueueType
<1>4. DOMAIN jobs' = DOMAIN jobs \cup {Len(jobs) + 1}
  BY <1>2, <1>3
<1>5. StoreTypeOK'
  BY <1>1, <1>3, <1>4 DEF QueueInvariant, TypeOK, StoreTypeOK
<1>6. AttemptsLeft'
  <2>1. 0 < MaxAttempts
    BY StoreAssumption
  <2>2. \A j \in DOMAIN jobs' : Active(jobs'[j]) => jobs'[j].attempts < MaxAttempts
    BY <1>3, <1>4, <2>1 DEF QueueInvariant, AttemptsLeft
  <2> QED BY <2>2 DEF QueueInvariant, AttemptsLeft
<1>7. Ownership' /\ WorkerTypeOK'
  BY <1>3, <1>4, <1>6, QueuesGrow
<1>8. QuickBooksTypeOK'
  BY QuickBooksIdle DEF QueueInvariant, TypeOK, QuickBooksTypeOK
<1> QED BY <1>5, <1>7, <1>8, InvariantSplits

(* A handler that loads an invoice keeps the invariant.                     *)
LEMMA BeginKeeps ==
  ASSUME QueueInvariant, NEW t \in Threads, NEW op \in {"update", "delete", "void"},
         NEW i \in DOMAIN invoices, NEW obj \in Row, Begin(t, op, i, obj),
         UNCHANGED <<qboVars, workerVars>>
  PROVE  CoreInvariant'
<1> DEFINE q == [op |-> op, inv |-> i, loaded |-> invoices[i], obj |-> obj]
<1>1. request' = [request EXCEPT ![t] = q] /\ UNCHANGED storeVars
  BY DEF Begin
<1>2. q \in Request /\ q.inv \in DOMAIN invoices
  BY RowType DEF Request
<1> HIDE DEF q
<1>3. UNCHANGED <<invoices, audit, jobs, events>>
  BY <1>1 DEF storeVars
<1>4. ServiceTypeOK'
  BY <1>1, <1>2, <1>3 DEF QueueInvariant, TypeOK, ServiceTypeOK
<1>5. StoreTypeOK'
  BY <1>3 DEF QueueInvariant, TypeOK, StoreTypeOK
<1>6. AttemptsLeft'
  BY <1>3 DEF QueueInvariant, AttemptsLeft
<1>7. Ownership' /\ WorkerTypeOK'
  BY <1>3, <1>6, QueuesGrow
<1>8. QuickBooksTypeOK'
  BY <1>3, QuickBooksIdle DEF QueueInvariant, TypeOK, QuickBooksTypeOK
<1> QED BY <1>4, <1>5, <1>7, <1>8, InvariantSplits

(* Every step of the API keeps the invariant.                               *)
LEMMA ServiceKeeps ==
  ASSUME QueueInvariant, ServiceStep(Locked), UNCHANGED <<qboVars, workerVars>>
  PROVE  CoreInvariant'
<1>1. /\ invoices \in Seq(Row) /\ audit \in Seq(Snapshot) /\ Len(audit) = Len(invoices)
      /\ request \in [Threads -> Request]
      /\ \A t \in Threads : request[t].op # "none" => request[t].inv \in DOMAIN invoices
  BY DEF QueueInvariant, TypeOK, StoreTypeOK, ServiceTypeOK
<1>2. ASSUME NEW company \in Realms, NEW content \in Contents,
             CreateInvoice(company, content)
      PROVE  CoreInvariant'
  <2> DEFINE row == [Blank EXCEPT !.company = company, !.content = content]
  <2>1. AddInvoice(row) /\ EnqueueJob(Len(invoices) + 1, "create")
        /\ UNCHANGED <<events, request>>
    BY <1>2 DEF CreateInvoice
  <2>2. row \in Row
    <3>1. content \in AllContents
      BY StoreAssumption
    <3> QED BY <3>1, BlankRow DEF Row
  <2> HIDE DEF row
  <2>3. /\ invoices' \in Seq(Row) /\ audit' \in Seq(Snapshot)
        /\ Len(audit') = Len(invoices') /\ DOMAIN invoices \subseteq DOMAIN invoices'
        /\ Len(invoices) + 1 \in DOMAIN invoices'
    BY <1>1, <2>1, <2>2, AddInvoiceType
  <2>4. Len(invoices) + 1 \in Nat
    BY <1>1, LenProperties
  <2>5. ServiceTypeOK'
    BY <2>1, <2>3, ServiceIdle
  <2> QED BY <2>1, <2>3, <2>4, <2>5, NewJobKeeps
<1>3. ASSUME NEW t \in Threads, Commit(t, Locked)
      PROVE  CoreInvariant'
  <2> DEFINE q == request[t]
  <2>1. /\ q.op # "none" /\ SaveInvoice(q.inv, q.loaded, q.obj, Locked)
        /\ EnqueueJob(q.inv, q.op) /\ request' = [request EXCEPT ![t] = NoRequest]
        /\ UNCHANGED events
    BY <1>3 DEF Commit
  <2>2. /\ q.inv \in Nat /\ q.loaded \in Row /\ q.obj \in Row
        /\ q.op \in {"create", "update", "delete", "void"} /\ q.inv \in DOMAIN invoices
    <3>1. q \in Request
      BY <1>1
    <3> QED BY <1>1, <2>1, <3>1 DEF Request
  <2>3. /\ invoices' \in Seq(Row) /\ audit' \in Seq(Snapshot)
        /\ Len(audit') = Len(invoices') /\ DOMAIN invoices' = DOMAIN invoices
    BY <1>1, <2>1, <2>2, SaveInvoiceType
  <2>4. ServiceTypeOK'
    <3>1. NoRequest \in Request /\ NoRequest.op = "none"
      BY BlankRow DEF NoRequest, Request
    <3> QED BY <1>1, <2>1, <2>3, <3>1 DEF ServiceTypeOK
  <2> HIDE DEF q
  <2> QED BY <2>1, <2>2, <2>3, <2>4, NewJobKeeps
<1>4. ASSUME NEW t \in Threads, NEW i \in DOMAIN invoices,
             BeginUpdate(t, i) \/ BeginDelete(t, i) \/ BeginVoid(t, i)
      PROVE  CoreInvariant'
  <2>1. invoices[i] \in Row
    BY RowType
  <2>2. CASE BeginUpdate(t, i)
    <3>1. ASSUME NEW content \in Contents, NEW status \in PutStatuses \cup {invoices[i].status}
          PROVE  [invoices[i] EXCEPT !.content = content, !.status = status,
                                     !.sync = "pending"] \in Row
      <4>1. status \in Statuses /\ content \in AllContents
        BY <2>1, InvoiceServiceAssumption, StoreAssumption DEF Row
      <4> QED BY <2>1, <4>1 DEF Row, SyncStatuses
    <3> QED BY <2>2, <3>1, BeginKeeps DEF BeginUpdate
  <2>3. CASE BeginDelete(t, i)
    <3>1. [invoices[i] EXCEPT !.deleted = TRUE, !.status = "Deleted",
                              !.sync = "pending"] \in Row
      BY <2>1 DEF Row, Statuses, SyncStatuses
    <3> QED BY <2>3, <3>1, BeginKeeps DEF BeginDelete
  <2>4. CASE BeginVoid(t, i)
    <3>1. [invoices[i] EXCEPT !.status = "Voided", !.sync = "pending"] \in Row
      BY <2>1 DEF Row, Statuses, SyncStatuses
    <3> QED BY <2>4, <3>1, BeginKeeps DEF BeginVoid
  <2> QED BY <1>4, <2>2, <2>3, <2>4
<1> QED BY <1>2, <1>3, <1>4 DEF ServiceStep

------------------------------------------------------------------------------
(* The empty database with idle workers satisfies the invariant.            *)
THEOREM InitInvariant == Init => QueueInvariant
<1> SUFFICES ASSUME Init PROVE QueueInvariant
  OBVIOUS
<1> USE DEF Init, StoreInit, QuickBooksInit, WorkerInit, ServiceInit, EndpointInit
<1>1. Blank \in Row /\ Idle \in Task /\ Idle.inv = 0 /\ Idle.at = "idle"
  BY BlankRow DEF Idle, Task, Points, CommitPoints
<1>2. StoreTypeOK
  BY DEF StoreTypeOK
<1>3. QuickBooksTypeOK
  BY QuickBooksAssumption DEF QuickBooksTypeOK
<1>4. WorkerTypeOK
  BY <1>1, SyncWorkerAssumption DEF WorkerTypeOK
<1>5. ServiceTypeOK
  BY <1>1 DEF ServiceTypeOK, NoRequest, Request
<1>6. OneOwner /\ HoldsItsQueue /\ AttemptsLeft
  BY DEF OneOwner, HoldsItsQueue, AttemptsLeft
<1>7. WorksOnItsBatch
  BY <1>1 DEF WorksOnItsBatch
<1>8. EndpointTypeOK
  BY WebhookEndpointAssumption DEF EndpointTypeOK
<1> QED BY <1>2, <1>3, <1>4, <1>5, <1>6, <1>7, <1>8 DEF QueueInvariant, TypeOK

(* No notification is ever taken back.                                      *)
LEMMA NotesGrow ==
  ASSUME QueueInvariant, [Next]_vars
  PROVE  DOMAIN notes \subseteq DOMAIN notes'
<1>1. notes \in Seq(Note)
  BY DEF QueueInvariant, TypeOK, QuickBooksTypeOK
<1>2. ASSUME NEW note, notes' = Append(notes, note)
      PROVE  DOMAIN notes \subseteq DOMAIN notes'
  BY <1>1, <1>2, LenProperties, AppendProperties
<1>3. ASSUME UNCHANGED notes PROVE DOMAIN notes \subseteq DOMAIN notes'
  BY <1>3
<1>4. ASSUME NEW r, NEW e, NEW op, NEW content, NEW doc, NEW known,
             Insert(r, content, doc, known) \/ Overwrite(r, e, op, content)
      PROVE  DOMAIN notes \subseteq DOMAIN notes'
  BY <1>2, <1>4 DEF Insert, Overwrite, Notify
<1>5. CASE UserStep
  BY <1>4, <1>5 DEF UserStep, UserCreates, UserWrites
<1>6. CASE \E n \in DOMAIN notes : RepeatUnidentified(n)
  BY <1>2, <1>6 DEF RepeatUnidentified
<1>7. ASSUME NEW w \in Workers, ExecutorStep(w)
      PROVE  DOMAIN notes \subseteq DOMAIN notes'
  <2>1. CASE BeginJob(w) \/ QueryByDocNumber(w) \/ Rejected(w) \/ Reread(w)
    BY <1>3, <2>1 DEF BeginJob, QueryByDocNumber, Rejected, Reread, qboVars
  <2>2. CASE PostCreate(w) \/ PostUpdate(w) \/ PostDeleteOrVoid(w)
    BY <1>4, <2>2 DEF PostCreate, PostUpdate, PostDeleteOrVoid
  <2> QED BY <1>7, <2>1, <2>2 DEF ExecutorStep
<1>8. ASSUME NEW w \in Workers, LoopStep(w) \/ HandlerStep(w)
      PROVE  UNCHANGED notes
  BY <1>8 DEF LoopStep, PollJobs, PollEvents, Select, ClaimJobs, ClaimEvents, CompleteJob,
     RetryJob, AbortJob, CompleteEvent, RetryEvent, HandlerStep, BeginEvent, Fetch,
     HandlerFrame, qboVars
<1>9. ASSUME NEW w \in Workers, EndpointStep(w) PROVE UNCHANGED notes
  BY <1>9 DEF EndpointStep, StoreEvent, CheckStored, qboVars
<1>10. ASSUME NEW w \in Workers, AttemptFails(w) \/ Crash(w) \/ Restart(w)
       PROVE  UNCHANGED notes
  BY <1>10 DEF AttemptFails, Crash, Restart, qboVars
<1>11. CASE Wakes \/ UNCHANGED <<qboVars>>
  BY <1>3, <1>11 DEF Wakes, qboVars
<1>12. CASE UNCHANGED vars
  BY <1>3, <1>12 DEF vars, qboVars
<1> QED BY <1>3, <1>5, <1>6, <1>7, <1>8, <1>9, <1>10, <1>11, <1>12 DEF Next, WorkerStep

(* A delivery in hand is of a notification that was sent.                   *)
LEMMA EndpointKeeps ==
  ASSUME QueueInvariant, [Next]_vars
  PROVE  EndpointTypeOK'
<1>1. DOMAIN notes \subseteq DOMAIN notes'
  BY NotesGrow
<1>2. intake \in [Workers -> {NoDelivery} \cup DOMAIN notes] /\ repeats \in 0 .. MaxRepeats
  BY DEF QueueInvariant, TypeOK, EndpointTypeOK
<1>3. ASSUME NEW w \in Workers, NEW n \in {NoDelivery} \cup DOMAIN notes,
             intake' = [intake EXCEPT ![w] = n], UNCHANGED repeats
      PROVE  EndpointTypeOK'
  BY <1>1, <1>2, <1>3 DEF EndpointTypeOK
<1>4. ASSUME NEW w \in Workers, EndpointStep(w) PROVE EndpointTypeOK'
  BY <1>3, <1>4 DEF EndpointStep, StoreEvent, CheckStored
<1>5. ASSUME NEW w \in Workers, LoseDelivery(w) PROVE EndpointTypeOK'
  BY <1>3, <1>5 DEF LoseDelivery
<1>6. ASSUME NEW n \in DOMAIN notes, RepeatUnidentified(n) PROVE EndpointTypeOK'
  BY <1>1, <1>2, <1>6, WebhookEndpointAssumption DEF RepeatUnidentified, EndpointTypeOK
<1>7. ASSUME UNCHANGED endpointVars PROVE EndpointTypeOK'
  BY <1>1, <1>2, <1>7 DEF EndpointTypeOK, endpointVars
<1> QED BY <1>4, <1>5, <1>6, <1>7 DEF Next, WorkerStep, vars

(* Every step of every actor keeps the invariant.                           *)
THEOREM NextInvariant == QueueInvariant /\ [Next]_vars => QueueInvariant'
<1> SUFFICES ASSUME QueueInvariant, [Next]_vars PROVE CoreInvariant'
  BY EndpointKeeps DEF CoreInvariant, Ownership, QueueInvariant, TypeOK
<1>1. CASE ServiceStep(Locked) /\ UNCHANGED <<qboVars, workerVars, endpointVars>>
  BY <1>1, ServiceKeeps
<1>2. CASE UserStep /\ UNCHANGED <<storeVars, workerVars, request, endpointVars>>
  BY <1>2, UserKeeps
<1>3. ASSUME NEW w \in Workers, EndpointStep(w), UNCHANGED request
      PROVE  CoreInvariant'
  <2>1. CASE StoreEvent(w)
    BY <1>3, <2>1, StoreEventKeeps
  <2>2. CASE \E n \in DOMAIN notes : CheckStored(w, n)
    <3>1. UNCHANGED <<storeVars, qbo, notes, edits, faults, workerVars, request>>
      BY <1>3, <2>2 DEF CheckStored, qboVars
    <3> QED BY <3>1, NotesKeep DEF QueueInvariant, TypeOK, QuickBooksTypeOK
  <2> QED BY <1>3, <2>1, <2>2 DEF EndpointStep
<1>4. CASE \E n \in DOMAIN notes : RepeatUnidentified(n) /\ UNCHANGED request
  BY <1>4, RepeatKeeps
<1>5. ASSUME NEW w \in Workers, WorkerStep(w)
      PROVE  CoreInvariant'
  BY <1>5, LoopKeeps, ExecutorKeeps, HandlerKeeps DEF WorkerStep
<1>6. ASSUME NEW w \in Workers, AttemptFails(w) \/ Crash(w) \/ Restart(w), UNCHANGED request
      PROVE  CoreInvariant'
  BY <1>6, FailureKeeps
<1>7. CASE Wakes /\ UNCHANGED <<request, endpointVars>>
  BY <1>7, WakesKeeps
<1>8. CASE UNCHANGED vars
  <2>1. UNCHANGED <<storeVars, qbo, notes, edits, faults, workerVars, request>>
    BY <1>8 DEF vars, qboVars, serviceVars
  <2> QED BY <2>1, NotesKeep DEF QueueInvariant, TypeOK, QuickBooksTypeOK
<1> QED BY <1>1, <1>2, <1>3, <1>4, <1>5, <1>6, <1>7, <1>8 DEF Next

(* The invariant holds for any number of workers, threads, realms, attempts *)
(* and any bounds.                                                          *)
THEOREM InvariantHolds == Spec => []QueueInvariant
BY InitInvariant, NextInvariant, PTL DEF Spec

(* Every variable keeps the shape the tables and the sessions have.         *)
THEOREM TypeCorrect == Spec => []TypeOK
<1>1. QueueInvariant => TypeOK
  BY DEF QueueInvariant
<1> QED BY <1>1, InvariantHolds, PTL

(* However many workers poll (FOR UPDATE SKIP LOCKED, then the commit of    *)
(* in_progress in sync_worker.py), no queue row ever has two owners.        *)
THEOREM OwnershipHolds == Spec => []OneOwner
<1>1. QueueInvariant => OneOwner
  BY DEF QueueInvariant
<1> QED BY <1>1, InvariantHolds, PTL

------------------------------------------------------------------------------
(* The outcome of the row in hand overwrites no outcome: the row was        *)
(* in_progress.                                                             *)
LEMMA OutcomeIsFinal ==
  ASSUME QueueInvariant, NEW w \in Workers, NEW row,
         work[w].at \notin {"idle", "down", "claim"},
         \/ /\ phase[w] = "jobs"
            /\ jobs' = [jobs EXCEPT ![work[w].id] = row] /\ UNCHANGED events
         \/ /\ phase[w] = "events"
            /\ events' = [events EXCEPT ![work[w].id] = row] /\ UNCHANGED jobs
  PROVE  FinalRows
<1>1. work[w].id \in batch[w]
  BY DEF QueueInvariant, WorksOnItsBatch
<1>2. QueueOf(w)[work[w].id].status = "in_progress"
  BY <1>1 DEF QueueInvariant, OneOwner
<1>3. Active(QueueOf(w)[work[w].id])
  BY <1>2 DEF Active
<1>4. jobs \in Seq(Job) /\ events \in [DOMAIN events -> Event]
  BY DEF QueueInvariant, TypeOK, StoreTypeOK
<1>5. CASE /\ phase[w] = "jobs"
           /\ jobs' = [jobs EXCEPT ![work[w].id] = row] /\ UNCHANGED events
  BY <1>3, <1>4, <1>5, LenProperties DEF QueueOf, FinalRows
<1>6. CASE /\ phase[w] = "events"
           /\ events' = [events EXCEPT ![work[w].id] = row] /\ UNCHANGED jobs
  BY <1>3, <1>4, <1>6 DEF QueueOf, FinalRows
<1> QED BY <1>5, <1>6

(* A claim overwrites no outcome: the rows it selected were pending.        *)
LEMMA ClaimIsFinal ==
  ASSUME QueueInvariant, NEW w \in Workers, ClaimJobs(w) \/ ClaimEvents(w)
  PROVE  FinalRows
<1>1. \A k \in batch[w] : Active(QueueOf(w)[k])
  BY DEF QueueInvariant, OneOwner, ClaimJobs, ClaimEvents, Active
<1>2. CASE ClaimJobs(w)
  BY <1>1, <1>2 DEF ClaimJobs, Claimed, QueueOf, FinalRows
<1>3. CASE ClaimEvents(w)
  BY <1>1, <1>3 DEF ClaimEvents, Claimed, QueueOf, FinalRows
<1> QED BY <1>2, <1>3

(* No step of the polling loop changes a row that has its outcome.          *)
LEMMA LoopIsFinal ==
  ASSUME QueueInvariant, NEW w \in Workers, LoopStep(w)
  PROVE  FinalRows
<1>1. CASE PollJobs(w) \/ PollEvents(w)
  BY <1>1 DEF PollJobs, PollEvents, Select, storeVars, FinalRows
<1>2. CASE ClaimJobs(w) \/ ClaimEvents(w)
  BY <1>2, ClaimIsFinal
<1>3. CASE CompleteJob(w)
  BY <1>3, PersistType, OutcomeIsFinal DEF CompleteJob
<1>4. CASE RetryJob(w)
  <2>1. /\ phase[w] = "jobs" /\ work[w].at = "raised" /\ UNCHANGED events
        /\ jobs' = [jobs EXCEPT ![work[w].id] =
                      [Reattempt(jobs[work[w].id]) EXCEPT !.error = "error"]]
    BY <1>4 DEF RetryJob
  <2> QED BY <2>1, OutcomeIsFinal
<1>5. CASE AbortJob(w)
  BY <1>5, OutcomeIsFinal DEF AbortJob
<1>6. CASE CompleteEvent(w)
  BY <1>6, PersistType, OutcomeIsFinal DEF CompleteEvent
<1>7. CASE RetryEvent(w)
  BY <1>7, OutcomeIsFinal DEF RetryEvent
<1> QED BY <1>1, <1>2, <1>3, <1>4, <1>5, <1>6, <1>7 DEF LoopStep

(* No step of the API changes a row that has its outcome.                   *)
LEMMA ServiceIsFinal ==
  ASSUME QueueInvariant, ServiceStep(Locked)
  PROVE  FinalRows
<1>1. jobs \in Seq(Job)
  BY DEF QueueInvariant, TypeOK, StoreTypeOK
<1>2. \/ \E row : jobs' = Append(jobs, row)
      \/ UNCHANGED jobs
  BY DEF ServiceStep, CreateInvoice, Commit, EnqueueJob, BeginUpdate, BeginDelete,
         BeginVoid, Begin, storeVars
<1>3. UNCHANGED events
  BY DEF ServiceStep, CreateInvoice, Commit, BeginUpdate, BeginDelete, BeginVoid,
         Begin, storeVars
<1>4. \A row : \A j \in DOMAIN jobs : Append(jobs, row)[j] = jobs[j]
  BY <1>1, LenProperties, AppendProperties
<1> QED BY <1>2, <1>3, <1>4 DEF FinalRows

(* Nor does any other step.                                                 *)
LEMMA NextFinal ==
  ASSUME QueueInvariant, [Next]_vars PROVE FinalRows \/ UNCHANGED vars
<1>1. ASSUME UNCHANGED <<jobs, events>> PROVE FinalRows
  BY <1>1 DEF FinalRows
<1>2. CASE ServiceStep(Locked)
  BY <1>2, ServiceIsFinal
<1>3. CASE UNCHANGED storeVars
  BY <1>1, <1>3 DEF storeVars
<1>4. ASSUME NEW w \in Workers, EndpointStep(w) PROVE FinalRows
  BY <1>1, <1>4 DEF EndpointStep, StoreEvent, WithEvent, CheckStored, storeVars, FinalRows
<1>5. ASSUME NEW w \in Workers, WorkerStep(w) PROVE FinalRows
  <2>1. CASE LoopStep(w)
    BY <2>1, LoopIsFinal
  <2>2. CASE ExecutorStep(w)
    BY <1>1, <2>2 DEF ExecutorStep, BeginJob, PostCreate, QueryByDocNumber, PostUpdate,
       PostDeleteOrVoid, Rejected, Reread, ExecutorFrame, storeVars
  <2>3. CASE HandlerStep(w)
    BY <1>1, <2>3 DEF HandlerStep, BeginEvent, Fetch, HandlerFrame, storeVars
  <2> QED BY <1>5, <2>1, <2>2, <2>3 DEF WorkerStep
<1>6. ASSUME NEW w \in Workers, AttemptFails(w) \/ Crash(w) \/ Restart(w) PROVE FinalRows
  BY <1>1, <1>6 DEF AttemptFails, Crash, Restart, storeVars
<1>7. CASE Wakes
  <2>1. jobs \in Seq(Job) /\ events \in [DOMAIN events -> Event]
    BY DEF QueueInvariant, TypeOK, StoreTypeOK
  <2>2. ASSUME NEW j \in BackingOff(jobs), jobs' = Elapse(jobs, j), UNCHANGED events
        PROVE  FinalRows
    BY <2>1, <2>2, LenProperties DEF BackingOff, Elapse, Active, FinalRows
  <2>3. ASSUME NEW e \in BackingOff(events), events' = Elapse(events, e), UNCHANGED jobs
        PROVE  FinalRows
    BY <2>1, <2>3 DEF BackingOff, Elapse, Active, FinalRows
  <2> QED BY <1>7, <2>2, <2>3 DEF Wakes
<1> QED BY <1>2, <1>3, <1>4, <1>5, <1>6, <1>7 DEF Next, RepeatUnidentified

(* A completed or failed row of sync_jobs or webhook_events is never        *)
(* executed, rescheduled or changed again, whatever the number of workers   *)
(* and crashes.                                                             *)
THEOREM OutcomesFinal == Spec => QueueTerminal
<1>1. QueueInvariant /\ [Next]_vars => [FinalRows]_vars
  BY NextFinal
<1> QED BY <1>1, InvariantHolds, PTL DEF Spec, QueueTerminal, FinalRows
==============================================================================
