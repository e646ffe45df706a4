---------------------------- MODULE CreateProofs ----------------------------
(****************************************************************************)
(* A create is never duplicated in QuickBooks, for any number of workers,   *)
(* edits, faults and crashes.  As long as no worker has begun the first     *)
(* attempt of a create job, QuickBooks holds nothing under its DocNumber;   *)
(* every later attempt looks there first, and only one worker looks.  The   *)
(* link a create job commits is to the invoice under that DocNumber.        *)
(****************************************************************************)
EXTENDS SessionProofs, QueueProofs

(* A job that may still have its first attempt.                             *)
Open(j) ==
  /\ jobs[j].attempts = 0
  /\ \/ jobs[j].status = "pending"
     \/ \E w \in Workers : j \in Taken("jobs")[w]

Untried(j) == jobs[j].op = "create" /\ Open(j) /\ \A w \in Workers : ~AtHand(w, j)

(* Documents in QuickBooks are under no DocNumber of this service, or under *)
(* that of an invoice it has a create job for.                              *)
KnownDocs ==
  \A r \in Realms : \A e \in DOMAIN qbo[r] :
    \/ qbo[r][e].doc = 0
    \/ \E j \in DOMAIN jobs : jobs[j].op = "create" /\ jobs[j].inv = qbo[r][e].doc

UntriedLeftNothing ==
  \A j \in DOMAIN jobs : Untried(j) =>
    \A r \in Realms : \A e \in DOMAIN qbo[r] : qbo[r][e].doc # jobs[j].inv

CreatesAreClear ==
  \A w \in Workers : work[w].at = "create" =>
    WithDocNumber(work[w].obj.company, work[w].inv) = {}

OneDoc ==
  \A r \in Realms : \A i \in Nat \ {0} : \A d, e \in WithDocNumber(r, i) : d = e

CreateInvariant == KnownDocs /\ UntriedLeftNothing /\ CreatesAreClear /\ OneDoc
------------------------------------------------------------------------------
(* No job has two holders.                                                  *)
LEMMA OneHolder ==
  ASSUME QueueInvariant, NEW v \in Workers, NEW w \in Workers, v # w,
         NEW j \in Taken("jobs")[v]
  PROVE  j \notin Taken("jobs")[w]
BY DEF Taken, QueueInvariant, OneOwner

(* What a worker has at hand it holds.                                      *)
LEMMA HandIsHeld ==
  ASSUME QueueInvariant, NEW w \in Workers, NEW j, AtHand(w, j)
  PROVE  /\ j \in Taken("jobs")[w] /\ j \in batch[w]
         /\ j \in DOMAIN jobs /\ jobs[j] \in Job
         /\ jobs[j].status = "in_progress"
BY JobInHand DEF AtHand, Free, Taken

(* The queue gives no job its first attempt back: WorkQueue's steps count   *)
(* every attempt that does not end in an outcome.                           *)
LEMMA OpenBack ==
  ASSUME QueueInvariant, [Next]_vars, NEW j \in DOMAIN jobs, Open(j)'
  PROVE  Open(j)
<1> DEFINE shown == Shown(jobs)
           held == Taken("jobs")
           Before == /\ shown[j].attempts = 0
                     /\ \/ shown[j].status = "pending"
                        \/ \E w \in Workers : j \in held[w]
<1>1. /\ DOMAIN shown = DOMAIN jobs /\ DOMAIN shown' = DOMAIN jobs'
      /\ \A k \in DOMAIN jobs : shown[k].attempts = jobs[k].attempts
                                /\ shown[k].status = jobs[k].status
      /\ \A k \in DOMAIN jobs' : shown'[k].attempts = jobs'[k].attempts
                                 /\ shown'[k].status = jobs'[k].status
  BY DEF Shown
<1>2. j \in DOMAIN jobs'
  BY NextJobsKeep DEF JobsKeep
<1>3. /\ shown'[j].attempts = 0
      /\ shown'[j].status = "pending" \/ \E w \in Workers : j \in held'[w]
  BY <1>1, <1>2 DEF Open
<1>4. SUFFICES Before
  BY <1>1 DEF Open
<1>5. /\ held = [w \in Workers |-> held[w]]
      /\ \A v, w \in Workers : \A k \in held[v] : v # w => k \notin held[w]
      /\ \A k \in DOMAIN jobs : shown[k].attempts \in Nat
  BY <1>1, OneHolder, QueueRows DEF Taken, Job
<1>6. JobQueue!Next \/ UNCHANGED JobQueue!queueVars
  BY StepsOfTheQueues
<1> HIDE DEF shown, held
<1>7. CASE UNCHANGED JobQueue!queueVars
  BY <1>3, <1>7 DEF JobQueue!queueVars, shown, held
<1>8. ASSUME NEW k, JobQueue!Add(k) PROVE Before
  BY <1>1, <1>3, <1>8 DEF JobQueue!Add, shown, held
<1>9. ASSUME NEW w \in Workers, NEW ids \in SUBSET DOMAIN Shown(jobs), JobQueue!Take(w, ids)
      PROVE  Before
  BY <1>1, <1>3, <1>5, <1>9 DEF JobQueue!Take, shown, held
<1>10. ASSUME NEW w \in Workers, NEW k \in DOMAIN Shown(jobs), JobQueue!Settle(w, k)
       PROVE  Before
  BY <1>1, <1>3, <1>5, <1>10, StoreAssumption
     DEF JobQueue!Settle, JobQueue!Outcomes, shown, held
<1>11. ASSUME NEW w \in Workers, JobQueue!Die(w) PROVE Before
  BY <1>1, <1>3, <1>5, <1>11 DEF JobQueue!Die, shown, held
<1> QED BY <1>6, <1>7, <1>8, <1>9, <1>10, <1>11 DEF JobQueue!Next, JobQueue!Serve
------------------------------------------------------------------------------
(* Between two requests of a job a worker keeps it at hand.                 *)
LEMMA WorkingHolds ==
  ASSUME QueueInvariant, NEW w \in Workers, NEW j, AtHand(w, j),
         ExecutorStep(w) \/ AttemptFails(w)
  PROVE  AtHand(w, j)'
<1> DEFINE t == work[w]
<1>1. t \in Task /\ work \in [Workers -> Task]
  BY WorkType DEF QueueInvariant, TypeOK, WorkerTypeOK
<1>2. UNCHANGED phase
  BY DEF ExecutorStep, AttemptFails, BeginJob, PostCreate, QueryByDocNumber, PostUpdate,
     PostDeleteOrVoid, Rejected, Reread, ExecutorFrame
<1>3. ASSUME NEW at, at \notin {"idle", "down", "claim"}, NEW obj,
             \/ Move(w, [t EXCEPT !.at = at])
             \/ Move(w, [t EXCEPT !.at = at, !.obj = obj])
      PROVE  AtHand(w, j)'
  <2>1. work'[w].at = at /\ work'[w].id = t.id
    BY <1>1, <1>3 DEF Move, Task
  <2> QED BY <1>2, <1>3, <2>1 DEF AtHand, Free
<1>4. ASSUME NEW at, at \notin {"idle", "down", "claim"}, NEW obj, Answered(w, at, obj)
      PROVE  AtHand(w, j)'
  BY <1>3, <1>4 DEF Answered, Raise
<1>5. CASE BeginJob(w)
  BY <1>5 DEF BeginJob, AtHand, Free
<1>6. CASE PostCreate(w) \/ PostUpdate(w) \/ PostDeleteOrVoid(w)
  BY <1>4, <1>6 DEF PostCreate, PostUpdate, PostDeleteOrVoid
<1>7. CASE QueryByDocNumber(w)
  <2>1. \/ Move(w, [t EXCEPT !.at = "create"])
        \/ \E obj : Move(w, [t EXCEPT !.at = "write", !.obj = obj])
    BY <1>1, <1>7 DEF QueryByDocNumber, Task
  <2> QED BY <1>3, <2>1
<1>8. CASE Rejected(w) \/ AttemptFails(w)
  BY <1>3, <1>8 DEF Rejected, AttemptFails, Raise
<1>9. CASE Reread(w)
  <2>1. \/ \E at \in {"raised", "conflict"} : Move(w, [t EXCEPT !.at = at])
        \/ \E obj : Move(w, [t EXCEPT !.at = "repost", !.obj = obj])
    BY <1>1, <1>9 DEF Reread, Raise, Task
  <2> QED BY <1>3, <2>1
<1> QED BY <1>5, <1>6, <1>7, <1>8, <1>9 DEF ExecutorStep

(* What a worker lets go of has no first attempt left: it has its outcome,  *)
(* an attempt more, or a status no poll selects.                            *)
LEMMA LetGo ==
  ASSUME QueueInvariant, [Next]_vars, NEW w \in Workers, NEW j, AtHand(w, j), Open(j)'
  PROVE  AtHand(w, j)'
<1>1. /\ j \in Taken("jobs")[w] /\ j \in batch[w] /\ j \in DOMAIN jobs /\ jobs[j] \in Job
      /\ jobs[j].status = "in_progress" /\ phase[w] = "jobs" /\ work[w].id = j
      /\ jobs \in Seq(Job)
  BY HandIsHeld DEF AtHand, Free, QueueInvariant, TypeOK, StoreTypeOK
<1>2. ASSUME UNCHANGED <<phase, work>> PROVE AtHand(w, j)'
  BY <1>2 DEF AtHand, Free
<1>3. ASSUME NEW v \in Workers, v # w,
             LoopStep(v) \/ ExecutorStep(v) \/ HandlerStep(v) \/ AttemptFails(v)
               \/ Crash(v) \/ Restart(v)
      PROVE  AtHand(w, j)'
  <2>1. work'[w] = work[w] /\ phase'[w] = phase[w]
    BY <1>3, OthersStay
  <2> QED BY <2>1 DEF AtHand, Free
<1>4. ASSUME Taken("jobs")' = [Taken("jobs") EXCEPT ![w] = @ \ {j}],
             jobs'[j].attempts > 0 \/ jobs'[j].status # "pending"
      PROVE  FALSE
  <2>1. \A x \in Workers : j \notin Taken("jobs")'[x]
    <3> DEFINE held == Taken("jobs")
    <3>1. /\ held = [x \in Workers |-> held[x]]
          /\ \A x \in Workers : x # w => j \notin held[x]
      BY <1>1, OneHolder DEF Taken
    <3> HIDE DEF held
    <3>2. held' = [held EXCEPT ![w] = @ \ {j}]
      BY <1>4 DEF held
    <3> QED BY <3>1, <3>2 DEF held
  <2> QED BY <1>4, <2>1 DEF Open
<1>5. CASE LoopStep(w)
  <2>1. CASE PollJobs(w) \/ PollEvents(w) \/ ClaimJobs(w) \/ ClaimEvents(w)
             \/ CompleteEvent(w) \/ RetryEvent(w)
    BY <1>1, <2>1 DEF PollJobs, PollEvents, Select, ClaimJobs, ClaimEvents, CompleteEvent,
       RetryEvent, AtHand, Free
  <2>2. ASSUME NEW row, row.attempts > 0 \/ row.status # "pending",
               jobs' = [jobs EXCEPT ![j] = row], Finish(w)
        PROVE  FALSE
    <3>1. Taken("jobs")' = [Taken("jobs") EXCEPT ![w] = @ \ {j}]
      BY <1>1, <2>2, TakenFinish DEF Queues, AtHand, Free
    <3>2. jobs'[j] = row
      BY <1>1, <2>2
    <3> QED BY <1>4, <2>2, <3>1, <3>2
  <2>3. /\ [jobs[j] EXCEPT !.status = "completed"].status = "completed"
        /\ [jobs[j] EXCEPT !.attempts = MaxAttempts, !.status = "failed",
                           !.error = "conflict"].status = "failed"
    BY <1>1 DEF Job
  <2>4. [Reattempt(jobs[j]) EXCEPT !.error = "error"].attempts > 0
    BY <1>1 DEF Job, Reattempt
  <2> QED BY <1>1, <1>5, <2>1, <2>2, <2>3, <2>4
          DEF LoopStep, CompleteJob, RetryJob, AbortJob
<1>6. CASE HandlerStep(w)
  BY <1>1, <1>6 DEF HandlerStep, BeginEvent, Fetch, QueueInvariant, WorksOnItsBatch
<1>7. CASE Crash(w)
  <2>1. UNCHANGED jobs
    BY <1>7 DEF Crash, storeVars
  <2>2. Taken("jobs")' = [Taken("jobs") EXCEPT ![w] = {}]
    BY <1>7, TakenCrash DEF Queues
  <2> QED BY <1>1, <2>1, <2>2, OneHolder DEF Open, Taken
<1>8. CASE Restart(w)
  BY <1>8 DEF Restart, AtHand, Free
<1>9. ASSUME NEW v \in Workers, EndpointStep(v) PROVE UNCHANGED <<phase, work>>
  BY <1>9 DEF EndpointStep, StoreEvent, CheckStored, workerVars
<1> QED BY <1>2, <1>3, <1>5, <1>6, <1>7, <1>8, <1>9, WorkingHolds
        DEF Next, WorkerStep, Wakes, RepeatUnidentified, vars, workerVars

(* No step makes a job untried again.                                       *)
LEMMA UntriedBack ==
  ASSUME QueueInvariant, [Next]_vars, NEW j \in DOMAIN jobs, Untried(j)'
  PROVE  Untried(j)
<1>1. jobs[j].op = "create"
  BY NextJobsKeep DEF Untried, JobsKeep
<1>2. Open(j)
  BY OpenBack DEF Untried
<1>3. ASSUME NEW w \in Workers, AtHand(w, j) PROVE FALSE
  BY <1>3, LetGo DEF Untried
<1> QED BY <1>1, <1>2, <1>3 DEF Untried
------------------------------------------------------------------------------
(* A create that is about to be sent is that of an invoice there is, and no *)
(* other worker executes one of the same invoice.                           *)
LEMMA CreateInHand ==
  ASSUME QueueInvariant, SessionInvariant, LinkInvariant, NEW w \in Workers, work[w].at = "create"
  PROVE  /\ AtHand(w, work[w].id) /\ work[w].id \in DOMAIN jobs
         /\ jobs[work[w].id].op = "create" /\ jobs[work[w].id].inv = work[w].inv
         /\ work[w].inv \in DOMAIN invoices /\ work[w].inv \in Nat \ {0}
         /\ \A v \in Workers :
              work[v].at = "create" /\ work[v].inv = work[w].inv => v = w
         /\ \A j \in DOMAIN jobs :
              jobs[j].op = "create" /\ jobs[j].inv = work[w].inv => j = work[w].id
<1>1. ASSUME NEW v \in Workers, work[v].at = "create" PROVE Creates(v)
  <2>1. ~Free(work[v]) /\ Shaped(v) /\ phase[v] \in {"jobs", "events"}
    BY <1>1 DEF Free, SessionInvariant, QueueInvariant, TypeOK, WorkerTypeOK
  <2> QED BY <1>1, <2>1 DEF Shaped, JobShape, EventShape, Creates
<1>2. work[w].inv \in DOMAIN invoices => work[w].inv \in Nat \ {0}
  BY LenProperties DEF QueueInvariant, TypeOK, StoreTypeOK
<1> QED BY <1>1, <1>2, OneCreator DEF Creates

(* What is newly under a DocNumber comes from the create about to be sent.  *)
LEMMA NewDoc ==
  ASSUME QueueInvariant, SessionInvariant, LinkInvariant, CreatesAreClear, [Next]_vars,
         NEW r \in Realms, NEW e \in DOMAIN qbo'[r], Added(r, e),
         NEW i \in Nat \ {0}, qbo'[r][e].doc = i
  PROVE  \E w \in Workers :
           /\ PostCreate(w) /\ work[w].at = "create" /\ work[w].inv = i
           /\ work[w].obj.company = r /\ WithDocNumber(r, i) = {}
BY DEF Added, PostCreate, CreatesAreClear

(* A document a query finds after a step was found before or is new.        *)
LEMMA FoundBefore ==
  ASSUME QueueInvariant, [Next]_vars, NEW r \in Realms, NEW i,
         NEW e \in WithDocNumber(r, i)'
  PROVE  e \in WithDocNumber(r, i) \/ (Added(r, e) /\ qbo'[r][e].doc = i)
BY NextDocs DEF WithDocNumber, DocsChange, Kept

(* Jobs and their invoices stay, so documents stay known.                   *)
LEMMA NextKnownDocs ==
  ASSUME QueueInvariant, SessionInvariant, LinkInvariant, CreateInvariant, [Next]_vars PROVE KnownDocs'
<1> SUFFICES ASSUME NEW r \in Realms, NEW e \in DOMAIN qbo'[r], qbo'[r][e].doc # 0
             PROVE  \E j \in DOMAIN jobs' :
                      jobs'[j].op = "create" /\ jobs'[j].inv = qbo'[r][e].doc
  BY DEF KnownDocs
<1>1. \E j \in DOMAIN jobs : jobs[j].op = "create" /\ jobs[j].inv = qbo'[r][e].doc
  <2>1. CASE Kept(r, e)
    BY <2>1 DEF Kept, CreateInvariant, KnownDocs
  <2>2. CASE Added(r, e)
    <3>1. PICK w \in Workers : work[w].at = "create" /\ qbo'[r][e].doc = work[w].inv
      BY <2>2 DEF Added, PostCreate
    <3> QED BY <3>1, CreateInHand
  <2> QED BY <2>1, <2>2, NextDocs DEF DocsChange
<1> QED BY <1>1, NextJobsKeep DEF JobsKeep

(* A job nobody tried leaves nothing behind: what is newly found is that of *)
(* a worker at its create job, and a new job is the first of its invoice.   *)
LEMMA NextUntried ==
  ASSUME QueueInvariant, SessionInvariant, LinkInvariant, CreateInvariant, [Next]_vars
  PROVE  UntriedLeftNothing'
<1> SUFFICES ASSUME NEW j \in DOMAIN jobs', Untried(j)', NEW r \in Realms,
                    NEW e \in DOMAIN qbo'[r], qbo'[r][e].doc = jobs'[j].inv
             PROVE  FALSE
  BY DEF UntriedLeftNothing
<1>1. Kept(r, e) \/ Added(r, e)
  BY NextDocs DEF DocsChange
<1>2. CASE j \in DOMAIN jobs
  <2>1. Untried(j) /\ jobs'[j].inv = jobs[j].inv
    BY <1>2, UntriedBack, NextJobsKeep DEF JobsKeep
  <2>2. jobs[j].inv \in Nat \ {0}
    BY <1>2, LenProperties DEF QueueInvariant, TypeOK, StoreTypeOK
  <2>3. CASE Kept(r, e)
    BY <1>2, <2>1, <2>3 DEF Kept, CreateInvariant, UntriedLeftNothing
  <2>4. CASE Added(r, e)
    <3>1. PICK w \in Workers : work[w].at = "create" /\ work[w].inv = jobs[j].inv
      BY <2>1, <2>2, <2>4, NewDoc DEF CreateInvariant
    <3>2. AtHand(w, j)
      BY <1>2, <2>1, <3>1, CreateInHand DEF Untried
    <3> QED BY <2>1, <3>2 DEF Untried
  <2> QED BY <1>1, <2>3, <2>4
<1>3. CASE j \notin DOMAIN jobs
  <2>1. jobs'[j].op = "create" /\ jobs'[j].inv # 0
    BY NextInvariant, LenProperties DEF Untried, QueueInvariant, TypeOK, StoreTypeOK
  <2>2. \A k \in DOMAIN jobs : jobs[k].op = "create" => jobs[k].inv # jobs'[j].inv
    BY <1>3, <2>1, NextOneCreate, NextJobsKeep DEF LinkInvariant, JobsKeep, OneCreate
  <2>3. CASE Kept(r, e)
    BY <2>1, <2>2, <2>3 DEF Kept, CreateInvariant, KnownDocs
  <2>4. CASE Added(r, e)
    <3>1. PICK w \in Workers : work[w].at = "create" /\ work[w].inv = jobs'[j].inv
      BY <2>1, <2>4 DEF Added, PostCreate
    <3> QED BY <2>2, <3>1, CreateInHand
  <2> QED BY <1>1, <2>3, <2>4
<1> QED BY <1>2, <1>3

(* A create still to be sent stays alone: nobody else creates its invoice,  *)
(* and who gets to a create has just looked, or never tried.                *)
LEMMA NextClear ==
  ASSUME QueueInvariant, SessionInvariant, LinkInvariant, CreateInvariant, [Next]_vars
  PROVE  CreatesAreClear'
<1> SUFFICES ASSUME NEW w \in Workers, work'[w].at = "create", NEW r, NEW i,
                    work'[w].obj.company = r, work'[w].inv = i
             PROVE  WithDocNumber(r, i)' = {}
  BY DEF CreatesAreClear
<1>1. Creates(w)'
  <2>1. ~Free(work'[w]) /\ Shaped(w)' /\ phase'[w] \in {"jobs", "events"}
    BY NextShaped, NextInvariant DEF Free, QueueInvariant, TypeOK, WorkerTypeOK
  <2> QED BY <2>1 DEF Shaped, JobShape, EventShape, Creates
<1>2. CASE work'[w] = work[w]
  <2>1. r \in Realms /\ i \in Nat \ {0} /\ WithDocNumber(r, i) = {}
    BY <1>2, WorkType, CreateInHand DEF Row, CreateInvariant, CreatesAreClear
  <2>2. ASSUME NEW e \in WithDocNumber(r, i)' PROVE FALSE
    <3>1. Added(r, e) /\ qbo'[r][e].doc = i /\ e \in DOMAIN qbo'[r]
      BY <2>1, <2>2, FoundBefore DEF WithDocNumber
    <3>2. PICK v \in Workers : PostCreate(v) /\ work[v].at = "create" /\ work[v].inv = i
      BY <2>1, <3>1, NewDoc DEF CreateInvariant
    <3>3. v = w
      BY <1>2, <3>2, CreateInHand
    <3>4. work[w] \in Task /\ work \in [Workers -> Task]
      BY WorkType DEF QueueInvariant, TypeOK, WorkerTypeOK
    <3>5. \E at \in {"write", "raised"} : \E obj :
            \/ work' = [work EXCEPT ![w] = [work[w] EXCEPT !.at = at]]
            \/ work' = [work EXCEPT ![w] = [work[w] EXCEPT !.at = at, !.obj = obj]]
      BY <3>2, <3>3 DEF PostCreate, Answered, Raise, Move
    <3>6. work'[w].at # "create"
      BY <3>4, <3>5 DEF Task
    <3> QED BY <3>6
  <2> QED BY <1>2, <2>2
<1>3. CASE Sends(w)
  <2>1. ~Takes(w, "write", Linked(work[w].obj, Len(qbo[work[w].obj.company]) + 1, 0))
        /\ \A at \in {"write", "rewrite", "repost"} : \A obj : ~Takes(w, at, obj)
    BY DEF Takes
  <2>2. ~Marks(w, "reread")
    BY DEF Marks
  <2>3. /\ WithDocNumber(work[w].obj.company, work[w].inv) = {} /\ UNCHANGED qbo
        /\ Marks(w, "create")
    BY <1>3, <2>1, <2>2 DEF Sends
  <2>4. work'[w].obj = work[w].obj /\ work'[w].inv = work[w].inv
    BY <2>3 DEF Marks
  <2> QED BY <2>3, <2>4 DEF WithDocNumber
<1>4. CASE UNCHANGED qbo /\ StartsJob(w) /\ jobs[work'[w].id].op = "create"
  <2> DEFINE j == work'[w].id
  <2>1. /\ UNCHANGED qbo /\ phase[w] = "jobs" /\ work[w].at = "idle"
        /\ j \in batch[w] /\ jobs[j].op = "create" /\ jobs[j].inv = i
    BY <1>4 DEF StartsJob
  <2>2. j \in DOMAIN jobs /\ j \in Taken("jobs")[w]
    BY <2>1 DEF Taken, QueueInvariant, HoldsItsQueue, QueueOf
  <2>3. jobs[j].attempts = 0
    <3>1. work'[w].at = Entry(jobs[j], work'[w].loaded)
      BY <1>4, StartedJob
    <3>2. jobs[j] \in Job
      BY <2>2, QueueRows
    <3> QED BY <2>1, <3>1, <3>2 DEF Entry, Job
  <2>4. ASSUME NEW v \in Workers, AtHand(v, j) PROVE FALSE
    <3>1. v # w
      BY <2>1, <2>4 DEF AtHand, Free
    <3> QED BY <2>2, <2>4, <3>1, HandIsHeld, OneHolder
  <2>5. Untried(j)
    BY <2>1, <2>2, <2>3, <2>4 DEF Untried, Open
  <2>6. r \in Realms
    BY NextInvariant DEF QueueInvariant, TypeOK, WorkerTypeOK, Task, Row
  <2>7. WithDocNumber(r, i) = {}
    BY <2>1, <2>2, <2>5, <2>6 DEF CreateInvariant, UntriedLeftNothing, WithDocNumber
  <2> QED BY <2>1, <2>7 DEF WithDocNumber
<1> QED BY <1>1, <1>2, <1>3, <1>4, CreatesBack

(* A create sent finds no invoice of its DocNumber, so none has two.        *)
LEMMA NextOneDoc ==
  ASSUME QueueInvariant, SessionInvariant, LinkInvariant, CreateInvariant, [Next]_vars PROVE OneDoc'
<1> SUFFICES ASSUME NEW r \in Realms, NEW i \in Nat \ {0},
                    NEW d \in WithDocNumber(r, i)', NEW e \in WithDocNumber(r, i)'
             PROVE  d = e
  BY DEF OneDoc
<1>1. CASE d \in WithDocNumber(r, i) /\ e \in WithDocNumber(r, i)
  BY <1>1 DEF CreateInvariant, OneDoc
<1>2. ASSUME NEW x \in WithDocNumber(r, i)', x \notin WithDocNumber(r, i)
      PROVE  x = Len(qbo[r]) + 1 /\ WithDocNumber(r, i) = {}
  <2>1. Added(r, x) /\ qbo'[r][x].doc = i /\ x \in DOMAIN qbo'[r]
    BY <1>2, FoundBefore DEF WithDocNumber
  <2> QED BY <2>1, NewDoc DEF Added, CreateInvariant
<1> QED BY <1>1, <1>2

(* A create whose response was lost is never repeated in QuickBooks: at     *)
(* most one invoice that is not deleted there bears the DocNumber of an     *)
(* invoice here, however many workers, faults and crashes there are.        *)
THEOREM CreatesAreSingle == Spec => []NoDuplicateInQbo
<1>1. Init => CreateInvariant
  BY DEF Init, StoreInit, QuickBooksInit, WorkerInit, Idle, CreateInvariant, KnownDocs,
     UntriedLeftNothing, CreatesAreClear, OneDoc, WithDocNumber
<1>2. /\ QueueInvariant /\ SessionInvariant /\ LinkInvariant /\ CreateInvariant
      /\ [Next]_vars
      => CreateInvariant'
  BY NextKnownDocs, NextUntried, NextClear, NextOneDoc DEF CreateInvariant
<1>3. QueueInvariant /\ CreateInvariant => NoDuplicateInQbo
  <2> SUFFICES ASSUME QueueInvariant, CreateInvariant, NEW r \in Realms,
                      NEW i \in DOMAIN invoices
               PROVE  Cardinality(WithDocNumber(r, i)) <= 1
    BY DEF NoDuplicateInQbo
  <2>1. \A d, e \in WithDocNumber(r, i) : d = e
    BY LenProperties DEF CreateInvariant, OneDoc, QueueInvariant, TypeOK, StoreTypeOK
  <2>2. WithDocNumber(r, i) = {} \/ \E d : WithDocNumber(r, i) = {d}
    BY <2>1
  <2>3. CASE WithDocNumber(r, i) = {}
    BY <2>3, FS_EmptySet
  <2>4. ASSUME NEW d, WithDocNumber(r, i) = {d}
        PROVE  Cardinality(WithDocNumber(r, i)) <= 1
    BY <2>4, FS_Singleton
  <2> QED BY <2>2, <2>3, <2>4
<1>4. /\ QueueInvariant /\ SessionInvariant /\ LinkInvariant /\ [Next]_vars
      => SessionInvariant' /\ LinkInvariant'
  BY NextSessions, NextLinkInvariant
<1> QED BY <1>1, <1>2, <1>3, <1>4, InitSessions, InitLinks, InvariantHolds, PTL DEF Spec
------------------------------------------------------------------------------
(* A link leads to the invoice that bears the DocNumber of the one here.    *)
HasDoc(r, e, i) == e \in DOMAIN qbo[r] /\ qbo[r][e].doc = i

LinkedDocs ==
  /\ \A i \in DOMAIN invoices : invoices[i].origin = "local" /\ HasLink(i) =>
       HasDoc(invoices[i].company, invoices[i].ext, i)
  /\ \A w \in Workers : Creates(w) /\ work[w].at = "write" =>
       HasDoc(work[w].obj.company, work[w].obj.ext, work[w].inv)
  /\ \A j \in DOMAIN jobs : jobs[j].op = "create" =>
       /\ invoices[jobs[j].inv].origin = "local"
       /\ jobs[j].status = "completed" => HasLink(jobs[j].inv)

(* The DocNumber of an invoice in QuickBooks never changes.                 *)
LEMMA DocStays ==
  ASSUME QueueInvariant, [Next]_vars, NEW r \in Realms, NEW e, NEW i, HasDoc(r, e, i)
  PROVE  HasDoc(r, e, i)'
BY NextDocs DEF HasDoc, DocsChange, Kept

(* The commit of a create job writes the link it got.                       *)
LEMMA CommittedLink ==
  ASSUME QueueInvariant, SessionInvariant, LinkInvariant, LinkedDocs, [Next]_vars,
         NEW w \in Workers, Creates(w), work[w].at = "write", NEW i \in DOMAIN invoices,
         work[w].inv = i, invoices'[i] = Merge(invoices[i], work[w].loaded, work[w].obj)
  PROVE  /\ invoices'[i].ext = work[w].obj.ext /\ invoices'[i].ext # NoLink
         /\ invoices'[i].company = work[w].obj.company
         /\ HasDoc(invoices[i].company, invoices[i].ext, i)'
<1>1. /\ ~Free(work[w]) /\ Shaped(w) /\ phase[w] = "jobs" /\ jobs[work[w].id].op = "create"
      /\ invoices[i].ext = NoLink
  BY DEF Creates, Free, SessionInvariant, LinkInvariant
<1>2. i # 0 /\ work[w].obj.company \in Realms
  BY LenProperties, WorkType DEF QueueInvariant, TypeOK, StoreTypeOK, Row
<1>3. work[w].loaded.ext = NoLink /\ work[w].obj.company = invoices[i].company
  BY <1>1, <1>2 DEF Shaped, JobShape, SameOwner
<1>4. HasDoc(work[w].obj.company, work[w].obj.ext, i)
  BY DEF LinkedDocs
<1>5. work[w].obj.ext # NoLink
  BY <1>2, <1>4, LenProperties
     DEF HasDoc, QueueInvariant, TypeOK, QuickBooksTypeOK, NoLink
<1>6. invoices'[i].ext = work[w].obj.ext /\ invoices'[i].company = invoices[i].company
  BY <1>1, <1>3 DEF Merge, Net
<1>7. HasDoc(invoices[i].company, invoices[i].ext, i)'
  <2>1. PICK r \in Realms, e \in Nat : r = work[w].obj.company /\ e = work[w].obj.ext
    BY <1>2, WorkType DEF Row
  <2>2. HasDoc(r, e, i)'
    BY <1>4, <2>1, DocStays
  <2> QED BY <1>3, <1>6, <2>1, <2>2
<1> QED BY <1>3, <1>5, <1>6, <1>7

(* Links and documents stay, and only the commit of a create adds a link.   *)
LEMMA NextLinkedDocs ==
  ASSUME QueueInvariant, SessionInvariant, LinkInvariant, PendingInvariant, LinkedDocs,
         [Next]_vars
  PROVE  LinkedDocs'
<1>1. ASSUME NEW i \in DOMAIN invoices', invoices'[i].origin = "local", HasLink(i)'
      PROVE  HasDoc(invoices[i].company, invoices[i].ext, i)'
  <2>1. CASE i \in DOMAIN invoices /\ invoices'[i].ext = invoices[i].ext
    <3>1. /\ invoices'[i].company = invoices[i].company
          /\ HasDoc(invoices[i].company, invoices[i].ext, i)
      BY <1>1, <2>1, NextOwnersKeep DEF OwnersKeep, LinkedDocs, HasLink
    <3>2. PICK r \in Realms : \E e : /\ r = invoices[i].company /\ e = invoices[i].ext
                                     /\ HasDoc(r, e, i)
      BY <2>1, <3>1, RowType DEF Row
    <3> QED BY <2>1, <3>1, <3>2, DocStays
  <2>2. ASSUME i \in DOMAIN invoices, NEW w \in Workers, SetsLink(w, i)
        PROVE  HasDoc(invoices[i].company, invoices[i].ext, i)'
    BY <2>2, CommittedLink DEF SetsLink, Saves
  <2>3. CASE i \notin DOMAIN invoices
    <3>1. NewRow /\ i = Len(invoices) + 1
      BY <1>1, <2>3, AddedIndex
    <3>2. ASSUME NEW company, NEW content,
                 invoices'[i] = [Blank EXCEPT !.company = company, !.content = content]
          PROVE  FALSE
      <4>1. [Blank EXCEPT !.company = company, !.content = content].ext = NoLink
        BY DEF Blank
      <4> QED BY <1>1, <3>2, <4>1 DEF HasLink
    <3>3. ASSUME NEW w \in Workers, work[w].at = "insert", invoices'[i] = work[w].obj
          PROVE  FALSE
      <4>1. Shaped(w) /\ ~Free(work[w]) /\ phase[w] \in {"jobs", "events"}
        BY <3>3 DEF SessionInvariant, Free, QueueInvariant, TypeOK, WorkerTypeOK
      <4> QED BY <1>1, <3>3, <4>1 DEF Shaped, JobShape, EventShape
    <3> QED BY <3>1, <3>2, <3>3 DEF NewRow
  <2> QED BY <2>1, <2>2, <2>3, NextLinks DEF LinksChange
<1>2. ASSUME NEW w \in Workers, Creates(w)', work'[w].at = "write"
      PROVE  HasDoc(work[w].obj.company, work[w].obj.ext, work[w].inv)'
  <2>1. work[w].obj \in Row /\ work[w].obj.company \in Realms
    BY WorkType DEF Row
  <2>2. CASE work'[w] = work[w] /\ Creates(w)
    <3>1. PICK r \in Realms : \E e, i :
            /\ r = work[w].obj.company /\ e = work[w].obj.ext /\ i = work[w].inv
            /\ HasDoc(r, e, i)
      BY <1>2, <2>1, <2>2 DEF LinkedDocs
    <3> QED BY <2>2, <3>1, DocStays
  <2>3. CASE Sends(w) /\ work[w].at = "create"
    <3>1. PICK r \in Realms : r = work[w].obj.company
      BY <2>1
    <3>2. /\ PostCreate(w)
          /\ Takes(w, "write", Linked(work[w].obj, Len(qbo[r]) + 1, 0))
      BY <1>2, <2>3, <3>1 DEF Sends, Marks, Takes
    <3>3. \E content, known : Insert(r, content, work[w].inv, known)
      BY <3>1, <3>2 DEF PostCreate
    <3>4. /\ Len(qbo[r]) + 1 \in DOMAIN qbo'[r]
          /\ qbo'[r][Len(qbo[r]) + 1].doc = work[w].inv
      BY <3>3, InsertDocs
    <3>5. /\ work'[w].inv = work[w].inv /\ work'[w].obj.company = r
          /\ work'[w].obj.ext = Len(qbo[r]) + 1
      BY <2>1, <3>1, <3>2 DEF Takes, Linked, Row
    <3> QED BY <3>4, <3>5 DEF HasDoc
  <2>4. CASE Sends(w) /\ work[w].at = "query"
    <3>1. PICK r \in Realms : r = work[w].obj.company
      BY <2>1
    <3>2. PICK d \in WithDocNumber(r, work[w].inv) :
            Takes(w, "write", Linked(work[w].obj, d, qbo[r][d].token)) /\ UNCHANGED qbo
      BY <1>2, <2>4, <3>1 DEF Sends, Marks, Takes
    <3>3. /\ work'[w].inv = work[w].inv /\ work'[w].obj.company = r
          /\ work'[w].obj.ext = d
      BY <2>1, <3>1, <3>2 DEF Takes, Linked, Row
    <3> QED BY <3>2, <3>3 DEF HasDoc, WithDocNumber
  <2> QED BY <1>2, <2>2, <2>3, <2>4, CreatesBack
<1>3. ASSUME NEW j \in DOMAIN jobs', jobs'[j].op = "create"
      PROVE  /\ invoices'[jobs'[j].inv].origin = "local"
             /\ jobs'[j].status = "completed" => HasLink(jobs[j].inv)'
  <2>1. CASE j \notin DOMAIN jobs
    BY <1>3, <2>1, NewCreate
  <2>2. CASE j \in DOMAIN jobs
    <3>1. /\ jobs[j].op = "create" /\ jobs'[j].inv = jobs[j].inv
          /\ jobs[j].inv \in DOMAIN invoices /\ jobs[j] \in Job
      BY <1>3, <2>2, NextJobsKeep, LenProperties
         DEF JobsKeep, QueueInvariant, TypeOK, StoreTypeOK
    <3>2. invoices'[jobs[j].inv].origin = "local"
      BY <2>2, <3>1, NextOwnersKeep DEF OwnersKeep, LinkedDocs
    <3>3. CASE jobs[j].status = "completed"
      BY <2>2, <3>1, <3>2, <3>3, LinksOnlyUnlinked DEF LinksStay, LinkedDocs, HasLink
    <3>4. ASSUME jobs'[j].status = "completed", jobs[j].status # "completed"
          PROVE  HasLink(jobs[j].inv)'
      <4>1. PICK w \in Workers : AtHand(w, j) /\ CompleteJob(w)
        BY <2>2, <3>1, <3>4, NextJobs DEF JobsStep, JobSteps, NewJob, Reattempt, Job
      <4>2. /\ ~Free(work[w]) /\ Shaped(w) /\ phase[w] = "jobs" /\ work[w].id = j
            /\ work[w].at # "skip"
        BY <4>1 DEF AtHand, SessionInvariant, PendingInvariant, NoneSkips
      <4>3. work[w].at = "write" /\ work[w].inv = jobs[j].inv
        BY <3>1, <4>1, <4>2 DEF CompleteJob, Persist, Shaped, JobShape
      <4>4. SaveInvoice(work[w].inv, work[w].loaded, work[w].obj, LockedByOthers(w))
        BY <4>1, <4>3 DEF CompleteJob, Persist
      <4>5. invoices'[jobs[j].inv] =
              Merge(invoices[jobs[j].inv], work[w].loaded, work[w].obj)
        BY <3>1, <4>3, <4>4, SavedRows
      <4>6. invoices'[jobs[j].inv].ext # NoLink
        BY <3>1, <4>2, <4>3, <4>5, CommittedLink DEF Creates
      <4> QED BY <3>1, <4>6 DEF HasLink
    <3> QED BY <3>2, <3>1, <3>3, <3>4
  <2> QED BY <2>1, <2>2
<1> QED BY <1>1, <1>2, <1>3 DEF LinkedDocs

(* A local invoice is linked exactly when its create job is completed, to   *)
(* the invoice QuickBooks holds under its own DocNumber, whatever responses *)
(* were lost and whoever crashed on the way.                                *)
THEOREM LinksMatch == Spec => []LinkMatchesJob
<1> DEFINE Inv == QueueInvariant /\ SessionInvariant /\ LinkInvariant
<1>1. Inv /\ [Next]_vars => SessionInvariant' /\ LinkInvariant'
  BY NextSessions, NextLinkInvariant
<1>2. Inv /\ PendingInvariant /\ [Next]_vars => PendingInvariant'
  BY NextPending
<1>3. Inv /\ PendingInvariant /\ LinkedDocs /\ [Next]_vars => LinkedDocs'
  BY NextLinkedDocs
<1>4. Init => LinkedDocs
  BY DEF Init, StoreInit, WorkerInit, Idle, LinkedDocs, Creates
<1>5. LinkInvariant /\ LinkedDocs => LinkMatchesJob
  BY DEF LinkInvariant, LinkedIsDone, LinkedDocs, LinkMatchesJob, JobsOf, HasDoc, Counterpart
<1> QED BY <1>1, <1>2, <1>3, <1>4, <1>5, InitSessions, InitLinks, InitPending,
           InvariantHolds, PTL DEF Spec
------------------------------------------------------------------------------
(* As long as nobody died, no job is abandoned.                             *)
LEMMA NoneAbandoned ==
  ASSUME QueueInvariant, CrashCostsABatch, crashes = 0
  PROVE  Abandoned(jobs, "jobs") = {}
<1> DEFINE m == Cardinality(Abandoned(jobs, "jobs"))
           n == Cardinality(Abandoned(events, "events"))
<1>1. /\ IsFiniteSet(Abandoned(jobs, "jobs"))
      /\ IsFiniteSet(Abandoned(events, "events"))
  BY QueuesFinite
<1>2. m \in Nat /\ n \in Nat
  BY <1>1, FS_CardinalityType
<1>3. crashes * MaxBatch = 0
  BY SyncWorkerAssumption
<1>4. m + n <= 0
  BY <1>3 DEF CrashCostsABatch
<1> HIDE DEF m, n
<1>5. m = 0
  BY <1>2, <1>4
<1> QED BY <1>1, <1>5, FS_EmptySet DEF m

(* An active job is still to run, or the batch it is of died.               *)
LEMMA ActiveRunsOrIsLost ==
  ASSUME QueueInvariant, CrashCostsABatch, NEW j \in DOMAIN jobs, Active(jobs[j])
  PROVE  StillToRun(j) \/ (crashes > 0 /\ j \in Abandoned(jobs, "jobs"))
<1>1. ASSUME ~StillToRun(j) PROVE j \in Abandoned(jobs, "jobs")
  BY <1>1 DEF Active, StillToRun, Abandoned
<1>2. crashes \in Nat
  BY SyncWorkerAssumption DEF QueueInvariant, TypeOK, WorkerTypeOK
<1> QED BY <1>1, <1>2, NoneAbandoned

(* An invoice shown as pending has a job that some worker will still run,   *)
(* or one given up because of a conflict, however sessions, retries and     *)
(* failures interleave; only a killed process may take the job with it.     *)
THEOREM NothingPendingIsForgotten == Spec => []PendingHasJob
<1> DEFINE Inv == QueueInvariant /\ SessionInvariant /\ LinkInvariant
<1>1. Inv /\ [Next]_vars => SessionInvariant' /\ LinkInvariant'
  BY NextSessions, NextLinkInvariant
<1>2. Inv /\ PendingInvariant /\ [Next]_vars => PendingInvariant'
  BY NextPending
<1>3. QueueInvariant /\ CrashCostsABatch /\ PendingInvariant => PendingHasJob
  BY ActiveRunsOrIsLost DEF PendingInvariant, PendingHasJob, Keeps, JobsOf
<1> QED BY <1>1, <1>2, <1>3, InitPending, InitSessions, InitLinks, InvariantHolds,
           CrashesCostTheirBatch, PTL DEF Spec
=============================================================================
