----------------------------- MODULE StepProofs -----------------------------
(****************************************************************************)
(* What one step of the whole service may do to the task of a worker, to a  *)
(* row of the invoices, to a job and to QuickBooks.  The proofs about       *)
(* sessions start from these facts instead of from the actions.             *)
(****************************************************************************)
EXTENDS SyncProofs

(* The worker has no session open.                                          *)
Free(task) == task.at \in {"idle", "down", "claim"}

(* The task of the worker moves on to a point, with the objects it has, or  *)
(* with another object.                                                     *)
Marks(w, at) ==
  /\ work'[w].at = at /\ work'[w].id = work[w].id /\ work'[w].inv = work[w].inv
  /\ work'[w].obj = work[w].obj /\ work'[w].loaded = work[w].loaded

Takes(w, at, obj) ==
  /\ work'[w].at = at /\ work'[w].id = work[w].id /\ work'[w].inv = work[w].inv
  /\ work'[w].obj = obj /\ work'[w].loaded = work[w].loaded

StartsJob(w) ==
  /\ phase[w] = "jobs" /\ work[w].at = "idle"
  /\ \E j \in batch[w] :
       LET row == invoices[jobs[j].inv] IN
         work'[w] = [at |-> Entry(jobs[j], row), id |-> j, inv |-> jobs[j].inv,
                     loaded |-> row, obj |-> row]

(* The handler that found invoice i for event e.                            *)
Finds(w, e, i) ==
  /\ Lookup(notes[e].ext) = {i}
  /\ work'[w].id = e /\ work'[w].inv = i /\ work'[w].loaded = invoices[i]
  /\ \/ /\ notes[e].op = "updated" /\ work'[w].at = "fetch"
        /\ work'[w].obj = invoices[i]
     \/ /\ notes[e].op = "deleted" /\ ~invoices[i].deleted /\ work'[w].at = "write"
        /\ work'[w].obj = [invoices[i] EXCEPT !.deleted = TRUE, !.status = "Deleted",
                                              !.sync = "complete"]
     \/ /\ notes[e].op = "voided" /\ ~VoidIsMoot(invoices[i]) /\ work'[w].at = "write"
        /\ work'[w].obj = [invoices[i] EXCEPT !.status = "Voided", !.sync = "complete"]

StartsEvent(w) ==
  /\ phase[w] = "events" /\ work[w].at = "idle"
  /\ \E e \in batch[w] :
       \/ \E at \in {"skip", "raised"} : work'[w] = Begun(e, 0, at, Blank)
       \/ /\ notes[e].op = "created" /\ Lookup(notes[e].ext) = {}
          /\ work'[w] = Begun(e, 0, "fetch", Blank)
       \/ \E i \in DOMAIN invoices : Finds(w, e, i)

(* One request more, for the outbound jobs ...                              *)
Sends(w) ==
  LET t == work[w]  r == t.obj.company  e == t.obj.ext IN
    \/ t.at = "update" /\ Marks(w, "reread") /\ UNCHANGED qbo
    \/ t.at = "query" /\ WithDocNumber(r, t.inv) = {} /\ Marks(w, "create") /\ UNCHANGED qbo
    \/ t.at = "create" /\ PostCreate(w)
         /\ Takes(w, "write", Linked(t.obj, Len(qbo[r]) + 1, 0))
    \/ t.at = "query" /\ UNCHANGED qbo
         /\ \E d \in WithDocNumber(r, t.inv) :
              Takes(w, "write", Linked(t.obj, d, qbo[r][d].token))
    \/ \E at \in {"write", "rewrite"} :
         /\ t.at = IF at = "write" THEN "update" ELSE "repost"
         /\ PostUpdate(w)
         /\ Takes(w, at, [t.obj EXCEPT !.token = qbo[r][e].token + 1,
                                       !.sync = "complete"])
    \/ t.at \in {"delete", "void"} /\ PostDeleteOrVoid(w)
         /\ Takes(w, "write", [t.obj EXCEPT !.sync = "complete"])
    \/ t.at = "reread" /\ Readable(r, e) /\ UNCHANGED qbo
         /\ Divergent(qbo[r][e].content, t.obj.content) = {}
         /\ Takes(w, "repost", [t.obj EXCEPT !.token = qbo[r][e].token])

(* ... and for the inbound events.                                          *)
Reads(w) ==
  LET t == work[w]  n == notes[t.id]  q == qbo[n.realm][n.ext] IN
    /\ t.at = "fetch" /\ UNCHANGED qbo
    /\ \/ Marks(w, "skip")
       \/ /\ n.op = "created" /\ Readable(n.realm, n.ext) /\ q.known
          /\ Takes(w, "insert",
                   [company |-> n.realm, origin |-> "qbo", status |-> "Created",
                    deleted |-> FALSE, content |-> q.content, ext |-> n.ext,
                    token |-> q.token, sync |-> "complete"])
       \/ /\ n.op = "updated" /\ Readable(n.realm, n.ext)
          /\ Newer(q.token, t.loaded.token)
          /\ work'[w].at = "write" /\ work'[w].id = t.id /\ work'[w].inv = t.inv
          /\ work'[w].obj = Refreshed(t.obj, q)
          /\ work'[w].loaded = Compared(t.loaded, q)

GoesOn(w) ==
  /\ work[w].at \in Calls /\ phase'[w] = phase[w]
  /\ Sends(w) \/ Reads(w) \/ \E at \in {"raised", "conflict"} : Marks(w, at)

(* A commit that fails leaves nothing but the except clause to run.         *)
Fails(w) ==
  /\ work[w].at \in CommitPoints /\ phase'[w] = phase[w]
  /\ Marks(w, "raised")
  /\ UNCHANGED <<storeVars, qbo, notes>>

TaskMoves(w) ==
  \/ work'[w] = work[w] /\ (Free(work[w]) \/ phase'[w] = phase[w])
  \/ Free(work'[w])
  \/ /\ phase'[w] = phase[w] /\ batch'[w] = batch[w] /\ UNCHANGED <<storeVars, notes>>
     /\ StartsJob(w) \/ StartsEvent(w)
     /\ UNCHANGED qbo
  \/ UNCHANGED storeVars /\ GoesOn(w)
  \/ Fails(w)
------------------------------------------------------------------------------
(* A worker's own steps leave the others' work alone.                       *)
LEMMA OthersStay ==
  ASSUME QueueInvariant, NEW v \in Workers, NEW w \in Workers, v # w,
         LoopStep(v) \/ ExecutorStep(v) \/ HandlerStep(v) \/ AttemptFails(v)
           \/ Crash(v) \/ Restart(v)
  PROVE  work'[w] = work[w] /\ phase'[w] = phase[w]
<1> DEFINE Goal == work'[w] = work[w] /\ phase'[w] = phase[w]
<1> SUFFICES Goal
  OBVIOUS
<1>1. ASSUME NEW task, Move(v, task), phase'[w] = phase[w] PROVE Goal
  BY <1>1 DEF Move, QueueInvariant, TypeOK, WorkerTypeOK
<1> HIDE DEF Goal
<1>2. CASE ExecutorStep(v) \/ AttemptFails(v)
  <2>1. UNCHANGED phase
    BY <1>2 DEF ExecutorStep, AttemptFails, BeginJob, PostCreate, QueryByDocNumber,
       PostUpdate, PostDeleteOrVoid, Rejected, Reread, ExecutorFrame
  <2>2. \E task : Move(v, task)
    BY <1>2 DEF ExecutorStep, AttemptFails, BeginJob, PostCreate, QueryByDocNumber,
       PostUpdate, PostDeleteOrVoid, Rejected, Reread, Answered, Raise
  <2> QED BY <1>1, <2>1, <2>2
<1>3. CASE HandlerStep(v)
  <2>1. UNCHANGED phase
    BY <1>3 DEF HandlerStep, BeginEvent, Fetch, HandlerFrame
  <2>2. \E task : Move(v, task)
    BY <1>3 DEF HandlerStep, BeginEvent, BeginAmbiguous, BeginCreated, BeginUpdated,
       BeginDeleted, BeginVoided, Fetch, FetchMissing, FetchCreated, FetchUpdated, Raise
  <2> QED BY <1>1, <2>1, <2>2
<1>4. CASE Crash(v) \/ Restart(v)
  BY <1>1, <1>4 DEF Crash, Restart, Goal, QueueInvariant, TypeOK, WorkerTypeOK
<1>5. CASE LoopStep(v)
  <2>1. ASSUME Finish(v) PROVE Goal
    BY <1>1, <2>1 DEF Finish, Goal, QueueInvariant, TypeOK, WorkerTypeOK
  <2>2. CASE PollJobs(v) \/ PollEvents(v) \/ ClaimJobs(v) \/ ClaimEvents(v)
    BY <2>2 DEF PollJobs, PollEvents, Select, ClaimJobs, ClaimEvents, Goal,
       QueueInvariant, TypeOK, WorkerTypeOK
  <2> QED BY <1>5, <2>1, <2>2
          DEF LoopStep, CompleteJob, RetryJob, AbortJob, CompleteEvent, RetryEvent
<1> QED BY <1>2, <1>3, <1>4, <1>5

(* A worker that marks where it stands, or takes an object, keeps the rest. *)
LEMMA MovedTask ==
  ASSUME QueueInvariant, NEW w \in Workers, NEW at, NEW obj
  PROVE  /\ Move(w, [work[w] EXCEPT !.at = at]) => Marks(w, at)
         /\ Move(w, [work[w] EXCEPT !.at = at, !.obj = obj]) => Takes(w, at, obj)
<1>1. work[w] \in Task /\ work \in [Workers -> Task]
  BY WorkType DEF QueueInvariant, TypeOK, WorkerTypeOK
<1> QED BY <1>1 DEF Move, Marks, Takes, Task

(* An answer is put on the object, or lost.                                 *)
LEMMA AnsweredTask ==
  ASSUME QueueInvariant, NEW w \in Workers, NEW at, NEW obj, Answered(w, at, obj)
  PROVE  Takes(w, at, obj) \/ Marks(w, "raised")
BY MovedTask DEF Answered, Raise

(* The requests of the executor.                                            *)
LEMMA ExecutorTask ==
  ASSUME QueueInvariant, NEW w \in Workers, ExecutorStep(w)
  PROVE  TaskMoves(w)
<1> DEFINE t == work[w]
           r == t.obj.company
           e == t.obj.ext
<1>1. t \in Task /\ t.obj \in Row /\ work \in [Workers -> Task]
  BY WorkType DEF QueueInvariant, TypeOK, WorkerTypeOK
<1>2. UNCHANGED storeVars /\ UNCHANGED <<phase, batch>>
  BY DEF ExecutorStep, BeginJob, PostCreate, QueryByDocNumber, PostUpdate,
     PostDeleteOrVoid, Rejected, Reread, ExecutorFrame
<1>3. CASE BeginJob(w)
  <2>1. StartsJob(w)
    BY <1>1, <1>3 DEF BeginJob, StartsJob, Move
  <2> QED BY <1>2, <1>3, <2>1 DEF TaskMoves, BeginJob, qboVars
<1>4. ASSUME t.at \in Calls, Sends(w) \/ \E at \in {"raised", "conflict"} : Marks(w, at)
      PROVE  TaskMoves(w)
  BY <1>2, <1>4 DEF TaskMoves, GoesOn
<1>5. CASE PostCreate(w)
  <2>1. t.at = "create" /\ Answered(w, "write", Linked(t.obj, Len(qbo[r]) + 1, 0))
    BY <1>5 DEF PostCreate
  <2> QED BY <1>4, <1>5, <2>1, AnsweredTask DEF Sends, Calls
<1>6. CASE QueryByDocNumber(w)
  <2>1. t.at = "query" /\ UNCHANGED qbo
    BY <1>6 DEF QueryByDocNumber
  <2>2. \/ WithDocNumber(r, t.inv) = {} /\ Move(w, [t EXCEPT !.at = "create"])
        \/ \E d \in WithDocNumber(r, t.inv) :
             Move(w, [t EXCEPT !.at = "write", !.obj = Linked(t.obj, d, qbo[r][d].token)])
    BY <1>1, <1>6 DEF QueryByDocNumber, Task
  <2>3. \/ WithDocNumber(r, t.inv) = {} /\ Marks(w, "create")
        \/ \E d \in WithDocNumber(r, t.inv) :
             Takes(w, "write", Linked(t.obj, d, qbo[r][d].token))
    BY <2>2, MovedTask
  <2> QED BY <1>4, <2>1, <2>3 DEF Sends, Calls
<1>7. CASE PostUpdate(w)
  <2>1. PICK at \in {"write", "rewrite"} :
          /\ t.at = IF at = "write" THEN "update" ELSE "repost"
          /\ Answered(w, at, [t.obj EXCEPT !.token = qbo[r][e].token + 1,
                                           !.sync = "complete"])
    BY <1>7 DEF PostUpdate
  <2> QED BY <1>4, <1>7, <2>1, AnsweredTask DEF Sends, Calls
<1>8. CASE PostDeleteOrVoid(w)
  <2>1. /\ t.at \in {"delete", "void"}
        /\ Answered(w, "write", [t.obj EXCEPT !.sync = "complete"])
    BY <1>8 DEF PostDeleteOrVoid
  <2> QED BY <1>4, <1>8, <2>1, AnsweredTask DEF Sends, Calls
<1>9. CASE Rejected(w)
  <2>1. /\ t.at \in Calls /\ UNCHANGED qbo
        /\ Raise(w, IF t.at = "update" THEN "reread" ELSE "raised")
    BY <1>9 DEF Rejected, Calls
  <2>2. \/ t.at = "update" /\ Marks(w, "reread")
        \/ Marks(w, "raised")
    BY <2>1, MovedTask DEF Raise
  <2> QED BY <1>4, <2>1, <2>2 DEF Sends
<1>10. CASE Reread(w)
  <2>1. t.at = "reread" /\ UNCHANGED qbo
    BY <1>10 DEF Reread
  <2>2. \A n : [t EXCEPT !.at = "repost", !.obj.token = n]
                 = [t EXCEPT !.at = "repost", !.obj = [t.obj EXCEPT !.token = n]]
    BY <1>1 DEF Task, Row
  <2>3. \/ \E at \in {"raised", "conflict"} : Move(w, [t EXCEPT !.at = at])
        \/ /\ Readable(r, e) /\ Divergent(qbo[r][e].content, t.obj.content) = {}
           /\ Move(w, [t EXCEPT !.at = "repost",
                                !.obj = [t.obj EXCEPT !.token = qbo[r][e].token]])
    BY <1>10, <2>2 DEF Reread, Raise
  <2>4. \/ \E at \in {"raised", "conflict"} : Marks(w, at)
        \/ /\ Readable(r, e) /\ Divergent(qbo[r][e].content, t.obj.content) = {}
           /\ Takes(w, "repost", [t.obj EXCEPT !.token = qbo[r][e].token])
    BY <2>3, MovedTask
  <2> QED BY <1>4, <1>10, <2>1, <2>4 DEF Sends, Calls
<1> QED BY <1>3, <1>5, <1>6, <1>7, <1>8, <1>9, <1>10 DEF ExecutorStep

(* The look-ups and reads of the handler.                                   *)
LEMMA HandlerTask ==
  ASSUME QueueInvariant, NEW w \in Workers, HandlerStep(w)
  PROVE  TaskMoves(w)
<1> DEFINE t == work[w]
<1>1. t \in Task /\ t.obj \in Row /\ work \in [Workers -> Task]
  BY WorkType DEF QueueInvariant, TypeOK, WorkerTypeOK
<1>2. UNCHANGED storeVars /\ UNCHANGED <<phase, batch, qbo, notes>>
  BY DEF HandlerStep, BeginEvent, Fetch, HandlerFrame, qboVars
<1>3. CASE BeginEvent(w)
  <2>1. PICK e \in batch[w] :
          \/ BeginAmbiguous(w, e, Lookup(notes[e].ext))
          \/ BeginCreated(w, e, Lookup(notes[e].ext))
          \/ BeginUpdated(w, e, Lookup(notes[e].ext))
          \/ BeginDeleted(w, e, Lookup(notes[e].ext))
          \/ BeginVoided(w, e, Lookup(notes[e].ext))
    BY <1>3 DEF BeginEvent
  <2> DEFINE found == Lookup(notes[e].ext)
             Moot == \/ \E at \in {"skip", "raised"} : work'[w] = Begun(e, 0, at, Blank)
                     \/ /\ notes[e].op = "created" /\ Lookup(notes[e].ext) = {}
                        /\ work'[w] = Begun(e, 0, "fetch", Blank)
             Goal == Moot \/ \E i \in DOMAIN invoices : Finds(w, e, i)
  <2>2. ASSUME NEW task, Move(w, task) PROVE work'[w] = task
    BY <1>1, <2>2 DEF Move
  <2>3. found \subseteq DOMAIN invoices /\ 0 \notin found
    BY LenProperties DEF Lookup, QueueInvariant, TypeOK, StoreTypeOK
  <2>4. \A i, at, obj :
          /\ Begun(e, i, at, obj).at = at /\ Begun(e, i, at, obj).id = e
          /\ Begun(e, i, at, obj).inv = i /\ Begun(e, i, at, obj).obj = obj
          /\ i # 0 => Begun(e, i, at, obj).loaded = invoices[i]
    BY DEF Begun
  <2>5. ASSUME BeginAmbiguous(w, e, found) PROVE Goal
    BY <2>2, <2>5 DEF BeginAmbiguous
  <2>6. ASSUME BeginCreated(w, e, found) PROVE Goal
    BY <2>2, <2>6 DEF BeginCreated, Skipped
  <2>7. ASSUME BeginUpdated(w, e, found) PROVE Goal
    <3>1. CASE found = {}
      BY <2>2, <2>7, <3>1 DEF BeginUpdated, Skipped
    <3>2. CASE found # {}
      <4>1. PICK i \in found : found = {i} /\ Move(w, Begun(e, i, "fetch", invoices[i]))
        BY <2>7, <3>2 DEF BeginUpdated
      <4>2. Finds(w, e, i)
        BY <2>2, <2>3, <2>4, <2>7, <4>1 DEF Finds, BeginUpdated
      <4> QED BY <2>3, <4>2
    <3> QED BY <3>1, <3>2
  <2>8. ASSUME BeginDeleted(w, e, found) PROVE Goal
    <3>1. CASE found = {}
      BY <2>2, <2>8, <3>1 DEF BeginDeleted, Skipped
    <3>2. CASE found # {}
      <4>1. PICK i \in found :
              /\ found = {i}
              /\ Move(w, IF invoices[i].deleted THEN Skipped(e)
                         ELSE Begun(e, i, "write",
                                [invoices[i] EXCEPT !.deleted = TRUE,
                                                    !.status = "Deleted",
                                                    !.sync = "complete"]))
        BY <2>8, <3>2 DEF BeginDeleted
      <4>2. CASE invoices[i].deleted
        BY <2>2, <4>1, <4>2 DEF Skipped
      <4>3. CASE ~invoices[i].deleted
        <5>1. Finds(w, e, i)
          BY <2>2, <2>3, <2>4, <2>8, <4>1, <4>3 DEF Finds, BeginDeleted
        <5> QED BY <2>3, <5>1
      <4> QED BY <4>2, <4>3
    <3> QED BY <3>1, <3>2
  <2>9. ASSUME BeginVoided(w, e, found) PROVE Goal
    <3>1. CASE found = {}
      BY <2>2, <2>9, <3>1 DEF BeginVoided, Skipped
    <3>2. CASE found # {}
      <4>1. PICK i \in found :
              /\ found = {i}
              /\ Move(w, IF VoidIsMoot(invoices[i]) THEN Skipped(e)
                         ELSE Begun(e, i, "write",
                                [invoices[i] EXCEPT !.status = "Voided",
                                                    !.sync = "complete"]))
        BY <2>9, <3>2 DEF BeginVoided
      <4>2. CASE VoidIsMoot(invoices[i])
        BY <2>2, <4>1, <4>2 DEF Skipped
      <4>3. CASE ~VoidIsMoot(invoices[i])
        <5>1. Finds(w, e, i)
          BY <2>2, <2>3, <2>4, <2>9, <4>1, <4>3 DEF Finds, BeginVoided
        <5> QED BY <2>3, <5>1
      <4> QED BY <4>2, <4>3
    <3> QED BY <3>1, <3>2
  <2>10. Goal
    BY <2>1, <2>5, <2>6, <2>7, <2>8, <2>9
  <2>11. StartsEvent(w)
    <3> HIDE DEF Goal
    <3>1. phase[w] = "events" /\ work[w].at = "idle"
      BY <1>3 DEF BeginEvent
    <3> QED BY <2>10, <3>1 DEF StartsEvent, Goal, Moot
  <2> QED BY <1>2, <2>11 DEF TaskMoves
<1>4. CASE Fetch(w)
  <2> DEFINE n == notes[t.id]
             q == qbo[n.realm][n.ext]
  <2>1. t.at = "fetch" /\ t.at \in Calls
    BY <1>4 DEF Fetch, Calls
  <2>2. CASE FetchMissing(w, n)
    BY <1>2, <2>1, <2>2, MovedTask DEF FetchMissing, Raise, TaskMoves, GoesOn
  <2>3. CASE Readable(n.realm, n.ext) /\ FetchCreated(w, n, q)
    <3> DEFINE obj == [company |-> n.realm, origin |-> "qbo", status |-> "Created",
                       deleted |-> FALSE, content |-> q.content, ext |-> n.ext,
                       token |-> q.token, sync |-> "complete"]
    <3>1. n.op = "created" /\ \/ ~q.known /\ Move(w, [t EXCEPT !.at = "skip"])
                              \/ q.known /\ Move(w, [t EXCEPT !.at = "insert", !.obj = obj])
      BY <2>3 DEF FetchCreated
    <3>2. Marks(w, "skip") \/ (q.known /\ Takes(w, "insert", obj))
      BY <3>1, MovedTask
    <3>3. Reads(w)
      BY <1>2, <2>1, <2>3, <3>1, <3>2 DEF Reads
    <3> QED BY <1>2, <2>1, <3>3 DEF TaskMoves, GoesOn
  <2>4. CASE Readable(n.realm, n.ext) /\ FetchUpdated(w, n, q)
    <3> DEFINE task == [t EXCEPT !.at = "write", !.obj = Refreshed(t.obj, q),
                                 !.loaded = Compared(t.loaded, q)]
    <3>1. /\ n.op = "updated"
          /\ \/ Move(w, [t EXCEPT !.at = "skip"])
             \/ Newer(q.token, t.loaded.token) /\ Move(w, task)
      BY <1>1, <2>4 DEF FetchUpdated, Task
    <3>2. CASE Move(w, [t EXCEPT !.at = "skip"])
      <4>1. Reads(w)
        BY <1>2, <2>1, <3>2, MovedTask DEF Reads
      <4> QED BY <1>2, <2>1, <4>1 DEF TaskMoves, GoesOn
    <3>3. CASE Newer(q.token, t.loaded.token) /\ Move(w, task)
      <4>1. /\ task.at = "write" /\ task.id = t.id /\ task.inv = t.inv
            /\ task.obj = Refreshed(t.obj, q) /\ task.loaded = Compared(t.loaded, q)
        BY <1>1 DEF Task
      <4>2. work'[w] = task
        BY <1>1, <3>3 DEF Move
      <4> HIDE DEF task
      <4>3. Reads(w)
        BY <1>2, <2>1, <2>4, <3>1, <3>3, <4>1, <4>2 DEF Reads
      <4> QED BY <1>2, <2>1, <4>3 DEF TaskMoves, GoesOn
    <3> QED BY <3>1, <3>2, <3>3
  <2> QED BY <1>4, <2>2, <2>3, <2>4 DEF Fetch
<1> QED BY <1>3, <1>4 DEF HandlerStep

(* The polling loop opens no session.                                       *)
LEMMA LoopTask ==
  ASSUME QueueInvariant, NEW w \in Workers, LoopStep(w)
  PROVE  TaskMoves(w)
<1>1. work[w] \in Task /\ work \in [Workers -> Task]
  BY WorkType DEF QueueInvariant, TypeOK, WorkerTypeOK
<1>2. CASE PollJobs(w) \/ PollEvents(w)
  BY <1>1, <1>2 DEF PollJobs, PollEvents, Select, TaskMoves, Free, Task
<1>3. CASE ClaimJobs(w) \/ ClaimEvents(w)
  BY <1>1, <1>3 DEF ClaimJobs, ClaimEvents, TaskMoves, Free, Task
<1>4. ASSUME Finish(w) PROVE TaskMoves(w)
  BY <1>1, <1>4 DEF Finish, Move, TaskMoves, Free, Idle
<1> QED BY <1>2, <1>3, <1>4
        DEF LoopStep, CompleteJob, RetryJob, AbortJob, CompleteEvent, RetryEvent

(* Whatever happens, the task of a worker makes one of these steps.         *)
LEMMA NextTask ==
  ASSUME QueueInvariant, [Next]_vars, NEW w \in Workers
  PROVE  TaskMoves(w)
<1>1. ASSUME UNCHANGED <<work, phase>> PROVE TaskMoves(w)
  BY <1>1 DEF TaskMoves
<1>2. ASSUME NEW v \in Workers,
             LoopStep(v) \/ ExecutorStep(v) \/ HandlerStep(v) \/ AttemptFails(v)
               \/ Crash(v) \/ Restart(v)
      PROVE  TaskMoves(w)
  <2>1. CASE v # w
    BY <1>2, <2>1, OthersStay DEF TaskMoves
  <2>2. CASE LoopStep(w) \/ ExecutorStep(w) \/ HandlerStep(w)
    BY <2>2, LoopTask, ExecutorTask, HandlerTask
  <2>3. CASE AttemptFails(w)
    BY <2>3, MovedTask DEF AttemptFails, Raise, TaskMoves, GoesOn, Fails
  <2>4. CASE Crash(w) \/ Restart(w)
    BY <2>4 DEF Crash, Restart, Move, TaskMoves, Free, Idle, QueueInvariant, TypeOK,
       WorkerTypeOK
  <2> QED BY <1>2, <2>1, <2>2, <2>3, <2>4
<1>3. ASSUME NEW v \in Workers, EndpointStep(v) PROVE UNCHANGED <<work, phase>>
  BY <1>3 DEF EndpointStep, StoreEvent, CheckStored, workerVars
<1> QED BY <1>1, <1>2, <1>3
        DEF Next, WorkerStep, Wakes, RepeatUnidentified, vars, workerVars
------------------------------------------------------------------------------
(* The worker executes the job.                                             *)
AtHand(w, j) == phase[w] = "jobs" /\ ~Free(work[w]) /\ work[w].id = j

(* What a step may do to a row of the invoices: the commit of a request, of *)
(* a session that ends well, or of a job that failed for good.              *)
Commits(t, i) ==
  LET q == request[t] IN
    /\ Commit(t, Locked) /\ q.op # "none" /\ q.inv = i
    /\ invoices'[i] = Merge(invoices[i], q.loaded, q.obj)
    /\ UNCHANGED <<qboVars, workerVars, endpointVars>>

Saves(w, i) ==
  LET t == work[w] IN
    /\ CompleteJob(w) \/ CompleteEvent(w)
    /\ t.at \in {"write", "rewrite"} /\ t.inv = i
    /\ invoices'[i] = Merge(invoices[i], t.loaded, t.obj)
    /\ UNCHANGED <<qboVars, request>>

GivesUp(w, i) ==
  /\ RetryJob(w) /\ work[w].inv = i
  /\ Reattempt(jobs[work[w].id]).status = "failed"
  /\ invoices'[i] = [invoices[i] EXCEPT !.sync = "failed"]
  /\ UNCHANGED <<qboVars, request>>

RowSteps(i) ==
  \/ invoices'[i] = invoices[i]
  \/ \E t \in Threads : Commits(t, i)
  \/ \E w \in Workers : Saves(w, i) \/ GivesUp(w, i)

(* A new row comes from the API or from an invoice of QuickBooks.           *)
NewRow ==
  LET i == Len(invoices) + 1 IN
    /\ DOMAIN invoices' = 1 .. i
    /\ \A k \in DOMAIN invoices : invoices'[k] = invoices[k]
    /\ \/ \E company \in Realms, content \in Contents :
            /\ CreateInvoice(company, content)
            /\ invoices'[i] = [Blank EXCEPT !.company = company, !.content = content]
            /\ UNCHANGED <<qboVars, workerVars>>
       \/ \E w \in Workers :
            /\ CompleteJob(w) \/ CompleteEvent(w)
            /\ work[w].at = "insert" /\ invoices'[i] = work[w].obj
            /\ UNCHANGED <<qboVars, request>>

RowsStep ==
  \/ DOMAIN invoices' = DOMAIN invoices /\ \A i \in DOMAIN invoices : RowSteps(i)
  \/ NewRow

(* What a step may do to a job: its claim, its being due, or the outcome    *)
(* the worker gives it that has it at hand.                                 *)
JobSteps(j) ==
  \/ jobs'[j] = jobs[j]
  \/ /\ jobs[j].status = "pending" /\ jobs'[j] = [jobs[j] EXCEPT !.due = TRUE]
     /\ UNCHANGED <<invoices, work>>
  \/ \E w \in Workers :
       /\ ClaimJobs(w) /\ phase[w] = "jobs" /\ j \in batch[w]
       /\ jobs'[j] = [jobs[j] EXCEPT !.status = "in_progress"]
  \/ \E w \in Workers :
       /\ AtHand(w, j) /\ Finish(w) /\ UNCHANGED <<qboVars, request>>
       /\ \/ CompleteJob(w) /\ jobs'[j] = [jobs[j] EXCEPT !.status = "completed"]
          \/ RetryJob(w)
             /\ jobs'[j] = [Reattempt(jobs[j]) EXCEPT !.error = "error"]
          \/ AbortJob(w)
             /\ jobs'[j] = [jobs[j] EXCEPT !.attempts = MaxAttempts,
                                           !.status = "failed", !.error = "conflict"]

NewJob(i, op) ==
  LET j == Len(jobs) + 1 IN
    /\ DOMAIN jobs' = 1 .. j
    /\ \A k \in DOMAIN jobs : jobs'[k] = jobs[k]
    /\ jobs'[j] = [inv |-> i, op |-> op, status |-> "pending", attempts |-> 0,
                   due |-> TRUE, error |-> "none"]
    /\ UNCHANGED <<qboVars, workerVars>>

JobsStep ==
  \/ DOMAIN jobs' = DOMAIN jobs /\ \A j \in DOMAIN jobs : JobSteps(j)
  \/ /\ NewJob(Len(invoices) + 1, "create")
     /\ \E company \in Realms, content \in Contents : CreateInvoice(company, content)
  \/ \E t \in Threads : /\ Commit(t, Locked) /\ request[t].op # "none"
                        /\ NewJob(request[t].inv, request[t].op)
------------------------------------------------------------------------------
(* A commit of one loaded row.                                              *)
LEMMA SavedRows ==
  ASSUME QueueInvariant, NEW i, NEW loaded, NEW obj, NEW locked,
         SaveInvoice(i, loaded, obj, locked)
  PROVE  /\ DOMAIN invoices' = DOMAIN invoices
         /\ \A k \in DOMAIN invoices :
              invoices'[k] = IF k = i THEN Merge(invoices[k], loaded, obj)
                             ELSE invoices[k]
BY DEF SaveInvoice

(* A row more.                                                              *)
LEMMA AddedRow ==
  ASSUME QueueInvariant, NEW row, AddInvoice(row)
  PROVE  LET i == Len(invoices) + 1 IN
           /\ DOMAIN invoices' = 1 .. i /\ invoices'[i] = row
           /\ \A k \in DOMAIN invoices : invoices'[k] = invoices[k]
<1>1. invoices \in Seq(Row)
  BY DEF QueueInvariant, TypeOK, StoreTypeOK
<1> QED BY <1>1, LenProperties, AppendProperties DEF AddInvoice

(* Only these steps change the invoices.                                    *)
LEMMA NextRows ==
  ASSUME QueueInvariant, [Next]_vars PROVE RowsStep
<1>1. ASSUME UNCHANGED invoices PROVE RowsStep
  BY <1>1 DEF RowsStep, RowSteps
<1>2. CASE ServiceStep(Locked) /\ UNCHANGED <<qboVars, workerVars, endpointVars>>
  <2>1. ASSUME NEW company \in Realms, NEW content \in Contents,
               CreateInvoice(company, content)
        PROVE  RowsStep
    BY <1>2, <2>1, AddedRow DEF CreateInvoice, RowsStep, NewRow
  <2>2. ASSUME NEW t \in Threads, Commit(t, Locked) PROVE RowsStep
    <3> DEFINE q == request[t]
    <3>1. SaveInvoice(q.inv, q.loaded, q.obj, Locked) /\ q.op # "none"
      BY <2>2 DEF Commit
    <3>2. \A k \in DOMAIN invoices : RowSteps(k)
      BY <1>2, <2>2, <3>1, SavedRows DEF RowSteps, Commits
    <3> QED BY <3>1, <3>2, SavedRows DEF RowsStep
  <2>3. CASE \E t \in Threads, i \in DOMAIN invoices :
               BeginUpdate(t, i) \/ BeginDelete(t, i) \/ BeginVoid(t, i)
    BY <1>1, <2>3 DEF BeginUpdate, BeginDelete, BeginVoid, Begin, storeVars
  <2> QED BY <1>2, <2>1, <2>2, <2>3 DEF ServiceStep
<1>3. ASSUME NEW w \in Workers, LoopStep(w), UNCHANGED request PROVE RowsStep
  <2>1. CASE PollJobs(w) \/ PollEvents(w) \/ ClaimJobs(w) \/ ClaimEvents(w)
             \/ AbortJob(w) \/ RetryEvent(w)
    BY <1>1, <2>1 DEF PollJobs, PollEvents, Select, ClaimJobs, ClaimEvents, AbortJob,
       RetryEvent, storeVars
  <2>2. ASSUME CompleteJob(w) \/ CompleteEvent(w) PROVE RowsStep
    <3>1. Persist(w) /\ UNCHANGED <<qboVars, request>>
      BY <1>3, <2>2 DEF CompleteJob, CompleteEvent
    <3>2. CASE work[w].at = "skip" /\ UNCHANGED <<invoices, audit>>
      BY <1>1, <3>2
    <3>3. CASE /\ work[w].at \in {"write", "rewrite"}
               /\ SaveInvoice(work[w].inv, work[w].loaded, work[w].obj, LockedByOthers(w))
      <4>1. \A k \in DOMAIN invoices : RowSteps(k)
        BY <2>2, <3>1, <3>3, SavedRows DEF RowSteps, Saves
      <4> QED BY <3>3, <4>1, SavedRows DEF RowsStep
    <3>4. CASE work[w].at = "insert" /\ AddInvoice(work[w].obj)
      BY <2>2, <3>1, <3>4, AddedRow DEF RowsStep, NewRow
    <3> QED BY <3>1, <3>2, <3>3, <3>4 DEF Persist
  <2>3. CASE RetryJob(w)
    <3>1. \/ UNCHANGED invoices
          \/ /\ Reattempt(jobs[work[w].id]).status = "failed"
             /\ invoices' = [invoices EXCEPT ![work[w].inv].sync = "failed"]
      BY <2>3 DEF RetryJob
    <3>2. UNCHANGED <<qboVars, request>>
      BY <1>3, <2>3 DEF RetryJob
    <3> QED BY <1>1, <2>3, <3>1, <3>2 DEF RowsStep, RowSteps, GivesUp
  <2> QED BY <1>3, <2>1, <2>2, <2>3 DEF LoopStep
<1>4. ASSUME NEW w \in Workers, EndpointStep(w) PROVE RowsStep
  BY <1>1, <1>4 DEF EndpointStep, StoreEvent, CheckStored, storeVars
<1>5. ASSUME NEW w \in Workers, ExecutorStep(w) PROVE RowsStep
  BY <1>1, <1>5 DEF ExecutorStep, BeginJob, PostCreate, QueryByDocNumber, PostUpdate,
     PostDeleteOrVoid, Rejected, Reread, ExecutorFrame, storeVars
<1>6. ASSUME NEW w \in Workers, HandlerStep(w) PROVE RowsStep
  BY <1>1, <1>6 DEF HandlerStep, BeginEvent, Fetch, HandlerFrame, storeVars
<1>7. ASSUME NEW w \in Workers, AttemptFails(w) \/ Crash(w) \/ Restart(w) PROVE RowsStep
  BY <1>1, <1>7 DEF AttemptFails, Crash, Restart, storeVars
<1>8. CASE UNCHANGED storeVars \/ Wakes \/ UNCHANGED vars
  BY <1>1, <1>8 DEF Wakes, vars, storeVars
<1> QED BY <1>2, <1>3, <1>4, <1>5, <1>6, <1>7, <1>8
        DEF Next, WorkerStep, RepeatUnidentified

(* A row that was not there is the last one.                                *)
LEMMA AddedIndex ==
  ASSUME QueueInvariant, [Next]_vars, NEW i \in DOMAIN invoices', i \notin DOMAIN invoices
  PROVE  NewRow /\ i = Len(invoices) + 1
<1>1. NewRow
  BY NextRows DEF RowsStep
<1>2. DOMAIN invoices' = 1 .. Len(invoices) + 1 /\ invoices \in Seq(Row)
  BY <1>1 DEF NewRow, QueueInvariant, TypeOK, StoreTypeOK
<1> QED BY <1>1, <1>2, LenProperties

(* A worker that gives a job its outcome has it at hand.                    *)
LEMMA JobAtHand ==
  ASSUME QueueInvariant, NEW w \in Workers, CompleteJob(w) \/ RetryJob(w) \/ AbortJob(w)
  PROVE  /\ AtHand(w, work[w].id) /\ Finish(w) /\ UNCHANGED qboVars
         /\ work[w].id \in DOMAIN jobs
<1>1. ~Free(work[w]) /\ phase[w] = "jobs"
  BY DEF CompleteJob, RetryJob, AbortJob, Persist, Free
<1>2. work[w].id \in batch[w]
  BY <1>1 DEF QueueInvariant, WorksOnItsBatch, Free
<1> QED BY <1>1, <1>2 DEF AtHand, CompleteJob, RetryJob, AbortJob, QueueInvariant,
        HoldsItsQueue, QueueOf

(* Only these steps change the jobs.                                        *)
LEMMA NextJobs ==
  ASSUME QueueInvariant, [Next]_vars PROVE JobsStep
<1>1. ASSUME UNCHANGED jobs PROVE JobsStep
  BY <1>1 DEF JobsStep, JobSteps
<1>2. jobs \in Seq(Job) /\ \A j \in DOMAIN jobs : jobs[j] \in Job
  BY LenProperties DEF QueueInvariant, TypeOK, StoreTypeOK
<1>3. ASSUME NEW i, NEW op, EnqueueJob(i, op), UNCHANGED <<qboVars, workerVars>>
      PROVE  NewJob(i, op)
  BY <1>2, <1>3, LenProperties, AppendProperties DEF EnqueueJob, NewJob
<1>4. CASE ServiceStep(Locked) /\ UNCHANGED <<qboVars, workerVars, endpointVars>>
  <2>1. CASE \E company \in Realms, content \in Contents : CreateInvoice(company, content)
    BY <1>3, <1>4, <2>1 DEF CreateInvoice, JobsStep
  <2>2. CASE \E t \in Threads : Commit(t, Locked)
    BY <1>3, <1>4, <2>2 DEF Commit, JobsStep
  <2>3. CASE \E t \in Threads, i \in DOMAIN invoices :
               BeginUpdate(t, i) \/ BeginDelete(t, i) \/ BeginVoid(t, i)
    BY <1>1, <2>3 DEF BeginUpdate, BeginDelete, BeginVoid, Begin, storeVars
  <2> QED BY <1>4, <2>1, <2>2, <2>3 DEF ServiceStep
<1>5. ASSUME NEW w \in Workers, LoopStep(w), UNCHANGED request PROVE JobsStep
  <2>1. CASE PollJobs(w) \/ PollEvents(w) \/ ClaimEvents(w) \/ CompleteEvent(w)
             \/ RetryEvent(w)
    BY <1>1, <2>1 DEF PollJobs, PollEvents, Select, ClaimEvents, CompleteEvent,
       RetryEvent, storeVars
  <2>2. CASE ClaimJobs(w)
    BY <2>2 DEF ClaimJobs, Claimed, JobsStep, JobSteps
  <2>3. CASE CompleteJob(w) \/ RetryJob(w) \/ AbortJob(w)
    <3> DEFINE j == work[w].id
    <3>1. AtHand(w, j) /\ Finish(w) /\ UNCHANGED <<qboVars, request>> /\ j \in DOMAIN jobs
      BY <1>5, <2>3, JobAtHand
    <3>2. DOMAIN jobs' = DOMAIN jobs /\ \A k \in DOMAIN jobs : k # j => jobs'[k] = jobs[k]
      BY <2>3 DEF CompleteJob, RetryJob, AbortJob
    <3>3. JobSteps(j)
      <4>1. CASE CompleteJob(w)
        BY <3>1, <4>1 DEF CompleteJob, JobSteps
      <4>2. CASE RetryJob(w)
        BY <3>1, <4>2 DEF RetryJob, JobSteps
      <4>3. CASE AbortJob(w)
        BY <3>1, <4>3 DEF AbortJob, JobSteps
      <4> QED BY <2>3, <4>1, <4>2, <4>3
    <3> HIDE DEF j
    <3>4. \A k \in DOMAIN jobs : JobSteps(k)
      BY <3>2, <3>3 DEF JobSteps
    <3> QED BY <3>2, <3>4 DEF JobsStep
  <2> QED BY <1>5, <2>1, <2>2, <2>3 DEF LoopStep
<1>6. ASSUME NEW w \in Workers, EndpointStep(w) PROVE JobsStep
  BY <1>1, <1>6 DEF EndpointStep, StoreEvent, CheckStored, storeVars
<1>7. ASSUME NEW w \in Workers, ExecutorStep(w) PROVE JobsStep
  BY <1>1, <1>7 DEF ExecutorStep, BeginJob, PostCreate, QueryByDocNumber, PostUpdate,
     PostDeleteOrVoid, Rejected, Reread, ExecutorFrame, storeVars
<1>8. ASSUME NEW w \in Workers, HandlerStep(w) PROVE JobsStep
  BY <1>1, <1>8 DEF HandlerStep, BeginEvent, Fetch, HandlerFrame, storeVars
<1>9. ASSUME NEW w \in Workers, AttemptFails(w) \/ Crash(w) \/ Restart(w) PROVE JobsStep
  BY <1>1, <1>9 DEF AttemptFails, Crash, Restart, storeVars
<1>10. CASE Wakes
  <2>1. UNCHANGED <<invoices, work>>
    BY <1>10 DEF Wakes, workerVars
  <2>2. \/ UNCHANGED jobs
        \/ \E j \in DOMAIN jobs : jobs[j].status = "pending" /\ jobs' = Elapse(jobs, j)
    BY <1>10 DEF Wakes, BackingOff
  <2> QED BY <1>1, <2>1, <2>2 DEF Elapse, JobsStep, JobSteps
<1>11. CASE UNCHANGED storeVars \/ UNCHANGED vars
  BY <1>1, <1>11 DEF vars, storeVars
<1> QED BY <1>4, <1>5, <1>6, <1>7, <1>8, <1>9, <1>10, <1>11
        DEF Next, WorkerStep, RepeatUnidentified
------------------------------------------------------------------------------
(* What a step may do to an invoice in QuickBooks: nothing, delete it for   *)
(* good, or another write, which takes its token one further and is only    *)
(* accepted before a void.                                                  *)
Kept(r, e) ==
  LET q == qbo[r][e]  p == qbo'[r][e] IN
    /\ e \in DOMAIN qbo[r] /\ e \in DOMAIN qbo'[r]
    /\ p.doc = q.doc
    /\ \/ p = q
       \/ /\ q.status # "Deleted" /\ p.status = "Deleted"
          /\ p.token = q.token /\ p.content = q.content
       \/ q.status = "Live" /\ p.status # "Deleted" /\ p.token = q.token + 1

(* An invoice more there, from one of its users or from the create of a     *)
(* worker.                                                                  *)
Added(r, e) ==
  /\ e = Len(qbo[r]) + 1
  /\ qbo'[r][e].token = 0
  /\ \/ qbo'[r][e].doc = 0
     \/ \E w \in Workers :
          /\ PostCreate(w) /\ work[w].obj.company = r
          /\ qbo'[r][e].doc = work[w].inv

DocsChange ==
  \A r \in Realms :
    /\ \A e \in DOMAIN qbo[r] : Kept(r, e)
    /\ \A e \in DOMAIN qbo'[r] : Kept(r, e) \/ Added(r, e)

(* What is in QuickBooks is typed.                                          *)
LEMMA QboRow ==
  ASSUME QueueInvariant, NEW r \in Realms, NEW e \in DOMAIN qbo[r]
  PROVE  /\ qbo[r][e] \in QboInvoice
         /\ qbo[r][e].token \in Nat /\ qbo[r][e].content \in AllContents
<1>1. qbo[r] \in Seq(QboInvoice)
  BY DEF QueueInvariant, TypeOK, QuickBooksTypeOK
<1>2. qbo[r][e] \in QboInvoice
  BY <1>1, LenProperties
<1> QED BY <1>2 DEF QboInvoice

(* An invoice added to QuickBooks leaves the others alone.                  *)
LEMMA InsertDocs ==
  ASSUME QueueInvariant, NEW r \in Realms, NEW content, NEW doc, NEW known,
         Insert(r, content, doc, known)
  PROVE  LET n == Len(qbo[r]) + 1 IN
           /\ \A s \in Realms : \A e \in DOMAIN qbo[s] : Kept(s, e)
           /\ \A s \in Realms : \A e \in DOMAIN qbo'[s] : Kept(s, e) \/ (s = r /\ e = n)
           /\ \A s \in Realms : \A e \in DOMAIN qbo[s] : qbo'[s][e] = qbo[s][e]
           /\ n \in DOMAIN qbo'[r] /\ n \in Nat \ {0} /\ n \notin DOMAIN qbo[r]
           /\ qbo'[r][n].status = "Live" /\ qbo'[r][n].token = 0
           /\ qbo'[r][n].content = content /\ qbo'[r][n].doc = doc
<1> DEFINE row == [status |-> "Live", token |-> 0, content |-> content,
                   doc |-> doc, known |-> known]
<1>1. qbo \in [Realms -> Seq(QboInvoice)] /\ qbo[r] \in Seq(QboInvoice)
  BY DEF QueueInvariant, TypeOK, QuickBooksTypeOK
<1>2. qbo' = [qbo EXCEPT ![r] = Append(qbo[r], row)]
  BY DEF Insert
<1> HIDE DEF row
<1>3. /\ \A e \in DOMAIN qbo[r] :
           e \in DOMAIN Append(qbo[r], row) /\ Append(qbo[r], row)[e] = qbo[r][e]
      /\ \A e \in DOMAIN Append(qbo[r], row) : e \in DOMAIN qbo[r] \/ e = Len(qbo[r]) + 1
      /\ Len(qbo[r]) + 1 \in DOMAIN Append(qbo[r], row)
      /\ Append(qbo[r], row)[Len(qbo[r]) + 1] = row
      /\ Len(qbo[r]) + 1 \in Nat \ {0} /\ Len(qbo[r]) + 1 \notin DOMAIN qbo[r]
  BY <1>1, LenProperties, AppendProperties
<1>4. \A s \in Realms : qbo'[s] = IF s = r THEN Append(qbo[r], row) ELSE qbo[s]
  BY <1>1, <1>2
<1>5. \A s \in Realms : \A e \in DOMAIN qbo[s] :
        e \in DOMAIN qbo'[s] /\ qbo'[s][e] = qbo[s][e]
  BY <1>3, <1>4
<1>6. \A s \in Realms : \A e \in DOMAIN qbo[s] : Kept(s, e)
  BY <1>5 DEF Kept
<1>7. \A s \in Realms : \A e \in DOMAIN qbo'[s] : Kept(s, e) \/ (s = r /\ e = Len(qbo[r]) + 1)
  BY <1>3, <1>4, <1>6
<1>8. /\ row.status = "Live" /\ row.token = 0 /\ row.content = content /\ row.doc = doc
  BY DEF row
<1> QED BY <1>3, <1>4, <1>5, <1>6, <1>7, <1>8

(* What a write makes of one invoice there; the others it leaves alone.     *)
LEMMA OverwriteDocs ==
  ASSUME QueueInvariant, NEW r \in Realms, NEW e \in DOMAIN qbo[r], NEW op,
         NEW content, NEW token, Accepts(r, e, op, token), Overwrite(r, e, op, content)
  PROVE  /\ \A s \in Realms : \A d \in DOMAIN qbo[s] : Kept(s, d)
         /\ \A s \in Realms : \A d \in DOMAIN qbo'[s] : Kept(s, d)
         /\ op = "update" => /\ qbo'[r][e].content = content
                             /\ qbo'[r][e].token = qbo[r][e].token + 1
                             /\ qbo'[r][e].status = "Live"
         /\ op = "void" => qbo'[r][e].status = "Voided"
         /\ op = "delete" => qbo'[r][e].status = "Deleted"
         /\ op \in {"update", "void", "delete"}
         /\ \A s \in Realms : \A d \in DOMAIN qbo[s] : <<s, d>> # <<r, e>> =>
              qbo'[s][d] = qbo[s][d]
<1> DEFINE now == qbo[r][e]
           updated == [now EXCEPT !.content = content, !.token = @ + 1]
           voided  == [now EXCEPT !.status = "Voided", !.content.total = Zero,
                                  !.token = @ + 1]
           deleted == [now EXCEPT !.status = "Deleted"]
<1>1. /\ qbo \in [Realms -> Seq(QboInvoice)] /\ qbo[r] \in Seq(QboInvoice)
      /\ now \in QboInvoice /\ now.status # "Deleted"
      /\ op # "delete" => now.status = "Live"
  BY LenProperties DEF QueueInvariant, TypeOK, QuickBooksTypeOK, Accepts
<1>2. ASSUME NEW row, qbo' = [qbo EXCEPT ![r] = [qbo[r] EXCEPT ![e] = row]],
             row.doc = now.doc,
             \/ row.status = "Deleted" /\ row.token = now.token
                  /\ row.content = now.content
             \/ now.status = "Live" /\ row.status # "Deleted" /\ row.token = now.token + 1
      PROVE  /\ \A s \in Realms : \A d \in DOMAIN qbo[s] : Kept(s, d)
             /\ \A s \in Realms : \A d \in DOMAIN qbo'[s] : Kept(s, d)
             /\ qbo'[r][e] = row
             /\ \A s \in Realms : \A d \in DOMAIN qbo[s] : <<s, d>> # <<r, e>> =>
                  qbo'[s][d] = qbo[s][d]
  <2>1. \A s \in Realms : qbo'[s] = IF s = r THEN [qbo[r] EXCEPT ![e] = row] ELSE qbo[s]
    BY <1>1, <1>2
  <2>2. \A x \in DOMAIN qbo[r] :
          [qbo[r] EXCEPT ![e] = row][x] = IF x = e THEN row ELSE qbo[r][x]
    BY <1>1
  <2>3. \A s \in Realms : DOMAIN qbo'[s] = DOMAIN qbo[s]
    BY <2>1
  <2>4. \A s \in Realms : \A d \in DOMAIN qbo[s] :
          IF s = r /\ d = e THEN qbo'[s][d] = row ELSE qbo'[s][d] = qbo[s][d]
    BY <2>1, <2>2
  <2> HIDE DEF now
  <2>5. \A s \in Realms : \A d \in DOMAIN qbo[s] : Kept(s, d)
    BY <1>1, <1>2, <2>3, <2>4 DEF Kept, now
  <2> QED BY <2>3, <2>4, <2>5
<1>3. /\ updated.doc = now.doc /\ voided.doc = now.doc /\ deleted.doc = now.doc
      /\ updated.token = now.token + 1 /\ voided.token = now.token + 1
      /\ updated.status = now.status /\ voided.status = "Voided"
      /\ deleted.status = "Deleted" /\ deleted.token = now.token
      /\ deleted.content = now.content /\ updated.content = content
  BY <1>1 DEF QboInvoice
<1>4. \/ /\ qbo' = [qbo EXCEPT ![r] = [qbo[r] EXCEPT ![e] = updated]]
         /\ op = "update"
      \/ /\ qbo' = [qbo EXCEPT ![r] = [qbo[r] EXCEPT ![e] = voided]]
         /\ op = "void"
      \/ /\ qbo' = [qbo EXCEPT ![r] = [qbo[r] EXCEPT ![e] = deleted]]
         /\ op = "delete"
  <2>1. CASE qbo' = [qbo EXCEPT ![r][e].content = content, ![r][e].token = @ + 1] /\ op = "update"
    BY <1>1, <2>1 DEF QboInvoice
  <2>2. CASE qbo' = [qbo EXCEPT ![r][e].status = "Voided", ![r][e].content.total = Zero,
                                ![r][e].token = @ + 1] /\ op = "void"
    BY <1>1, <2>2 DEF QboInvoice
  <2>3. CASE qbo' = [qbo EXCEPT ![r][e].status = "Deleted"] /\ op = "delete"
    BY <1>1, <2>3 DEF QboInvoice
  <2> QED BY <2>1, <2>2, <2>3 DEF Overwrite
<1> HIDE DEF now, updated, voided, deleted
<1>5. CASE op = "update" /\ qbo' = [qbo EXCEPT ![r] = [qbo[r] EXCEPT ![e] = updated]]
  BY <1>1, <1>2, <1>3, <1>5 DEF now
<1>6. CASE op = "void" /\ qbo' = [qbo EXCEPT ![r] = [qbo[r] EXCEPT ![e] = voided]]
  BY <1>1, <1>2, <1>3, <1>6
<1>7. CASE op = "delete" /\ qbo' = [qbo EXCEPT ![r] = [qbo[r] EXCEPT ![e] = deleted]]
  BY <1>1, <1>2, <1>3, <1>7
<1> QED BY <1>4, <1>5, <1>6, <1>7

(* Only these steps write to QuickBooks.                                    *)
LEMMA NextQbo ==
  ASSUME QueueInvariant, [Next]_vars
  PROVE  \/ UNCHANGED qbo
         \/ \E r \in Realms : UserCreates(r) \/ UserWrites(r)
         \/ \E w \in Workers : PostCreate(w) \/ PostUpdate(w) \/ PostDeleteOrVoid(w)
<1>1. ASSUME NEW w \in Workers, ExecutorStep(w)
      PROVE  UNCHANGED qbo \/ PostCreate(w) \/ PostUpdate(w) \/ PostDeleteOrVoid(w)
  BY <1>1 DEF ExecutorStep, BeginJob, QueryByDocNumber, Rejected, Reread, qboVars
<1>2. ASSUME NEW w \in Workers, LoopStep(w) \/ HandlerStep(w) PROVE UNCHANGED qbo
  BY <1>2 DEF LoopStep, PollJobs, PollEvents, Select, ClaimJobs, ClaimEvents, CompleteJob,
     RetryJob, AbortJob, CompleteEvent, RetryEvent, HandlerStep, BeginEvent, Fetch,
     HandlerFrame, qboVars
<1>3. ASSUME NEW w \in Workers,
             EndpointStep(w) \/ AttemptFails(w) \/ Crash(w) \/ Restart(w)
      PROVE  UNCHANGED qbo
  BY <1>3 DEF EndpointStep, StoreEvent, CheckStored, AttemptFails, Crash, Restart, qboVars
<1>4. ASSUME NEW n, RepeatUnidentified(n) PROVE UNCHANGED qbo
  BY <1>4 DEF RepeatUnidentified
<1>5. CASE UNCHANGED qboVars \/ Wakes \/ UNCHANGED vars
  BY <1>5 DEF Wakes, vars, qboVars
<1> QED BY <1>1, <1>2, <1>3, <1>4, <1>5 DEF Next, WorkerStep, UserStep

(* Whoever writes there, tokens never go back and deletes stay.             *)
LEMMA NextDocs ==
  ASSUME QueueInvariant, [Next]_vars PROVE DocsChange
<1>1. CASE UNCHANGED qbo
  BY <1>1 DEF DocsChange, Kept
<1>2. ASSUME NEW r \in Realms, UserCreates(r) PROVE DocsChange
  <2>1. PICK content, known : Insert(r, content, 0, known)
    BY <1>2 DEF UserCreates, NoLink
  <2> DEFINE n == Len(qbo[r]) + 1
  <2>2. qbo'[r][n].token = 0 /\ qbo'[r][n].doc = 0
    BY <2>1, InsertDocs
  <2> QED BY <2>1, <2>2, InsertDocs DEF DocsChange, Added
<1>3. ASSUME NEW r \in Realms, UserWrites(r) PROVE DocsChange
  <2>1. PICK e \in DOMAIN qbo[r], op \in {"update", "void", "delete"} :
          /\ Accepts(r, e, op, qbo[r][e].token)
          /\ \E content : Overwrite(r, e, op, content)
    BY <1>3 DEF UserWrites
  <2> QED BY <2>1, OverwriteDocs DEF DocsChange
<1>4. ASSUME NEW w \in Workers, PostCreate(w) PROVE DocsChange
  <2>1. PICK r \in Realms : \E content, known :
          r = work[w].obj.company /\ Insert(r, content, work[w].inv, known)
    BY <1>4, WorkType DEF PostCreate, Row
  <2>2. /\ qbo'[r][Len(qbo[r]) + 1].token = 0
        /\ qbo'[r][Len(qbo[r]) + 1].doc = work[w].inv
    BY <2>1, InsertDocs
  <2>3. Added(r, Len(qbo[r]) + 1)
    BY <1>4, <2>1, <2>2 DEF Added
  <2> QED BY <2>1, <2>3, InsertDocs DEF DocsChange
<1>5. ASSUME NEW w \in Workers, PostUpdate(w) \/ PostDeleteOrVoid(w) PROVE DocsChange
  <2> DEFINE r == work[w].obj.company
             e == work[w].obj.ext
  <2>1. r \in Realms
    BY WorkType DEF Row
  <2>2. PICK token, op, content : Accepts(r, e, op, token) /\ Overwrite(r, e, op, content)
    BY <1>5 DEF PostUpdate, PostDeleteOrVoid
  <2>3. e \in DOMAIN qbo[r]
    BY <2>2 DEF Accepts
  <2> QED BY <2>1, <2>2, <2>3, OverwriteDocs DEF DocsChange
<1> QED BY <1>1, <1>2, <1>3, <1>4, <1>5, NextQbo
==============================================================================
