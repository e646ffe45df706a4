--------------------------- MODULE AgreementProofs ---------------------------
(****************************************************************************)
(* Why the two sides agree once everything is worked off, with one worker   *)
(* and any number of threads, edits, jobs and deliveries in any order.      *)
(* What a row still lacks of QuickBooks' invoice, some notification that    *)
(* nobody has acted on yet tells: the last write to the invoice sent it,    *)
(* and it is only spent by the commit that brings the row up to date.       *)
(* And why the echoes of what the service pushed change nothing meanwhile,  *)
(* but where it has voided what the echo is about.                          *)
(****************************************************************************)
EXTENDS TokenProofs, FiniteSetTheorems

(* The notification may still be acted on.                                  *)
Unheard(n) == n \notin DOMAIN events \/ Active(events[n])

Hears(w, n) == phase[w] = "events" /\ ~Free(work[w]) /\ work[w].id = n

(* A worker that is on it will commit what it tells, or put it off because  *)
(* a call or a commit failed.                                               *)
OnIt(w, n) ==
  LET note == notes[n]  t == work[w] IN
    \/ t.at = "fetch"
    \/ /\ t.at = "write"
       /\ note.op = "updated" => t.obj.token = qbo[note.realm][note.ext].token
    \/ t.at = "raised" /\ faults > 0

(* The event of the notification failed for good.                           *)
Dropped(n) == n \in DOMAIN events /\ events[n].status = "failed"

(* A change of this kind to this invoice waits to be told, or calls that    *)
(* failed have used up the attempts at it.                                  *)
Waits(op, r, e) ==
  \E n \in DOMAIN notes :
    /\ notes[n] = [realm |-> r, ext |-> e, op |-> op]
    /\ \/ Unheard(n) /\ \A w \in Workers : Hears(w, n) => OnIt(w, n)
       \/ Dropped(n) /\ faults > 0

(* What an object linked to an invoice of QuickBooks does not know of it.   *)
Misses(op, row) ==
  LET q == qbo[row.company][row.ext] IN
    \/ op = "deleted" /\ q.status = "Deleted"
    \/ op = "voided" /\ q.status = "Voided"
    \/ op = "updated" /\ q.status = "Live" /\ row.token < q.token

Lacks(op, row) ==
  /\ Misses(op, row)
  /\ op = "deleted" => ~row.deleted
  /\ op = "voided" => ~VoidIsMoot(row)

Concerns(op, row) ==
  /\ op = "updated" => OnlyIn(row.company, row.ext)
  /\ op = "voided" => row.origin = "local"

(* The task is about to commit a row with a new link.                       *)
Links(w) == work[w].at = "insert" \/ (Creates(w) /\ work[w].at = "write")

(* A PUT that gives a status may take a void back.                          *)
Excused(op, i) == op = "voided" /\ GivenStatus(i)

Told(op) ==
  /\ \A i \in DOMAIN invoices : LET row == invoices[i] IN
       HasLink(i) /\ Sole(i) /\ ~Excused(op, i) /\ Concerns(op, row) /\ Lacks(op, row)
         => Waits(op, row.company, row.ext)
  /\ \A w \in Workers : LET row == work[w].obj IN
       Links(w) /\ Concerns(op, row) /\ Misses(op, row)
         => Waits(op, row.company, row.ext)

(* What is linked is linked to an invoice there is.                         *)
Known(row) == row.ext \in DOMAIN qbo[row.company]

LinksKnown ==
  /\ \A i \in DOMAIN invoices : HasLink(i) => Known(invoices[i])
  /\ \A w \in Workers : Links(w) => Known(work[w].obj)

Tellable == {"deleted", "voided", "updated"}

(* The types of what the arguments are about.                               *)
LEMMA Typed ==
  ASSUME QueueInvariant
  PROVE  /\ \A i \in DOMAIN invoices : /\ invoices[i] \in Row /\ i # 0
                                       /\ invoices[i].company \in Realms
                                       /\ invoices[i].token \in Tokens
         /\ \A w \in Workers : /\ work[w].obj \in Row /\ work[w].loaded \in Row
                               /\ work[w].obj.company \in Realms
                               /\ work[w].obj.token \in Tokens
                               /\ phase[w] \in {"jobs", "events"}
         /\ \A n \in DOMAIN notes : notes[n] \in Note /\ n \in Nat \ {0}
         /\ DOMAIN events \subseteq DOMAIN notes
         /\ \A n \in DOMAIN events : events[n] \in Event
         /\ faults \in Nat /\ notes \in Seq(Note)
<1>1. /\ invoices \in Seq(Row) /\ notes \in Seq(Note)
      /\ work \in [Workers -> Task] /\ phase \in [Workers -> {"jobs", "events"}]
      /\ events \in [DOMAIN events -> Event] /\ DOMAIN events \subseteq DOMAIN notes
      /\ faults \in 0 .. MaxFaults /\ MaxFaults \in Nat
  BY QuickBooksAssumption DEF QueueInvariant, TypeOK, StoreTypeOK, QuickBooksTypeOK, WorkerTypeOK
<1>2. \A i \in DOMAIN invoices : invoices[i] \in Row /\ i # 0
  BY <1>1, LenProperties
<1>3. \A w \in Workers : work[w].obj \in Row /\ work[w].loaded \in Row
  BY <1>1 DEF Task
<1>4. \A n \in DOMAIN notes : notes[n] \in Note /\ n \in Nat \ {0}
  BY <1>1, LenProperties
<1> QED BY <1>1, <1>2, <1>3, <1>4 DEF Row

(* The same of the rows after a step.                                       *)
LEMMA TypedRows ==
  ASSUME QueueInvariant, [Next]_vars
  PROVE  \A i \in DOMAIN invoices' :
           /\ invoices'[i] \in Row /\ invoices'[i].token \in Tokens
           /\ invoices'[i].company \in Realms /\ i # 0
<1>1. invoices' \in Seq(Row)
  BY NextInvariant DEF QueueInvariant, TypeOK, StoreTypeOK
<1>2. \A i \in DOMAIN invoices' : invoices'[i] \in Row /\ i # 0
  BY <1>1, LenProperties
<1> QED BY <1>2 DEF Row

(* A notification is spent only by the outcome of the worker that is on it. *)
LEMMA UnheardLasts ==
  ASSUME QueueInvariant, [Next]_vars, NEW n, Unheard(n)
  PROVE  \/ Unheard(n)'
         \/ \E w \in Workers :
              Hears(w, n) /\ (CompleteEvent(w) \/ RetryEvent(w)) /\ UNCHANGED request
<1> DEFINE Spent == \E w \in Workers :
             Hears(w, n) /\ (CompleteEvent(w) \/ RetryEvent(w)) /\ UNCHANGED request
<1>t. \A k \in DOMAIN events : events[k] \in Event
  BY Typed
<1>1. ASSUME UNCHANGED events PROVE Unheard(n)'
  BY <1>1 DEF Unheard, Active
<1>2. ASSUME NEW w \in Workers, CompleteEvent(w) \/ RetryEvent(w), UNCHANGED request
      PROVE  Unheard(n)' \/ Spent
  <2>1. ~Free(work[w]) /\ phase[w] = "events"
    BY <1>2 DEF CompleteEvent, RetryEvent, Persist, Free
  <2>2. CASE work[w].id = n
    BY <1>2, <2>1, <2>2 DEF Hears
  <2>3. CASE work[w].id # n
    <3>1. /\ DOMAIN events' = DOMAIN events
          /\ n \in DOMAIN events => events'[n] = events[n]
      BY <1>2, <2>3, <1>t DEF CompleteEvent, RetryEvent
    <3> QED BY <3>1 DEF Unheard, Active
  <2> QED BY <2>2, <2>3
<1>3. ASSUME NEW w \in Workers, ClaimEvents(w) PROVE Unheard(n)'
  <2>1. /\ DOMAIN events' = DOMAIN events
        /\ \A k \in DOMAIN events :
             events'[k] = events[k] \/ events'[k] = [events[k] EXCEPT !.status = "in_progress"]
    BY <1>3 DEF ClaimEvents, Claimed
  <2>2. \A k \in DOMAIN events : events'[k] = events[k] \/ events'[k].status = "in_progress"
    BY <2>1, <1>t DEF Event
  <2> QED BY <2>1, <2>2 DEF Unheard, Active
<1>4. ASSUME NEW w \in Workers, LoopStep(w), UNCHANGED request PROVE Unheard(n)' \/ Spent
  <2>1. ASSUME PollJobs(w) \/ PollEvents(w) \/ ClaimJobs(w) \/ CompleteJob(w)
                 \/ RetryJob(w) \/ AbortJob(w)
        PROVE  UNCHANGED events
    BY <2>1 DEF PollJobs, PollEvents, Select, ClaimJobs, CompleteJob, RetryJob, AbortJob,
       storeVars
  <2> QED BY <1>1, <1>2, <1>3, <1>4, <2>1 DEF LoopStep
<1>5. ASSUME NEW w \in Workers, StoreEvent(w) PROVE Unheard(n)'
  <2>1. events' = events \/ events' = WithEvent(intake[w])
    BY <1>5 DEF StoreEvent
  <2>2. CASE events' = WithEvent(intake[w])
    <3>1. ASSUME n \in DOMAIN events'
          PROVE  \/ events'[n].status = "pending"
                 \/ n \in DOMAIN events /\ events'[n] = events[n]
      BY <2>2, <3>1 DEF WithEvent
    <3> QED BY <3>1 DEF Unheard, Active
  <2> QED BY <1>1, <2>1, <2>2
<1>6. ASSUME Wakes PROVE Unheard(n)'
  <2>1. CASE UNCHANGED events
    BY <1>1, <2>1
  <2>2. CASE \E e \in BackingOff(events) : events' = Elapse(events, e)
    <3>1. PICK e \in DOMAIN events : events' = [events EXCEPT ![e].due = TRUE]
      BY <2>2 DEF BackingOff, Elapse
    <3>2. DOMAIN events' = DOMAIN events
          /\ \A k \in DOMAIN events : events'[k].status = events[k].status
      BY <3>1, <1>t DEF Event
    <3> QED BY <3>2 DEF Unheard, Active
  <2> QED BY <1>6, <2>1, <2>2 DEF Wakes
<1>7. ASSUME NEW w \in Workers,
             ExecutorStep(w) \/ HandlerStep(w) \/ AttemptFails(w) \/ Crash(w) \/ Restart(w)
               \/ \E k \in DOMAIN notes : CheckStored(w, k)
      PROVE  UNCHANGED events
  BY <1>7 DEF ExecutorStep, BeginJob, PostCreate, QueryByDocNumber, PostUpdate,
     PostDeleteOrVoid, Rejected, Reread, ExecutorFrame, HandlerStep, BeginEvent, Fetch,
     HandlerFrame, AttemptFails, Crash, Restart, CheckStored, storeVars
<1>8. ASSUME NEW k \in DOMAIN notes, RepeatUnidentified(k) PROVE UNCHANGED events
  BY <1>8 DEF RepeatUnidentified, storeVars
<1>9. ASSUME ServiceStep(Locked) PROVE UNCHANGED events
  BY <1>9 DEF ServiceStep, CreateInvoice, Commit, BeginUpdate, BeginDelete, BeginVoid, Begin,
     storeVars
<1>10. ASSUME UNCHANGED storeVars \/ UNCHANGED vars PROVE UNCHANGED events
  BY <1>10 DEF storeVars, vars
<1> HIDE DEF Spent
<1>11. Unheard(n)' \/ Spent
  BY <1>1, <1>4, <1>5, <1>6, <1>7, <1>8, <1>9, <1>10 DEF Next, WorkerStep, EndpointStep
<1> QED BY <1>11 DEF Spent

(* How a worker comes to be on a notification, and goes on with it.         *)
LEMMA HearsBack ==
  ASSUME QueueInvariant, SessionInvariant, [Next]_vars, NEW w \in Workers, NEW n,
         Hears(w, n)'
  PROVE  \/ Hears(w, n) /\ (work'[w] = work[w] \/ Fetch(w) \/ AttemptFails(w))
         \/ BeginEvent(w) /\ work'[w].id = n
<1>1. phase'[w] = "events" /\ ~Free(work'[w]) /\ work'[w].id = n
  BY DEF Hears
<1>2. ASSUME work'[w] = work[w], phase'[w] = phase[w] PROVE Hears(w, n)
  BY <1>1, <1>2 DEF Hears
<1>3. ASSUME LoopStep(w) PROVE FALSE
  <2>1. ASSUME PollJobs(w) \/ PollEvents(w) \/ ClaimJobs(w) \/ ClaimEvents(w) PROVE FALSE
    <3>1. work'[w].at \in {"claim", "idle"}
      BY <2>1 DEF PollJobs, PollEvents, Select, ClaimJobs, ClaimEvents, QueueInvariant,
         TypeOK, WorkerTypeOK, Task
    <3> QED BY <1>1, <3>1 DEF Free
  <2>2. ASSUME Finish(w) PROVE FALSE
    BY <1>1, <2>2 DEF Finish, Move, QueueInvariant, TypeOK, WorkerTypeOK, Idle, Free
  <2> QED BY <1>3, <2>1, <2>2 DEF LoopStep, CompleteJob, CompleteEvent, RetryJob, AbortJob,
          RetryEvent
<1>4. ASSUME ExecutorStep(w) PROVE FALSE
  <2>1. phase'[w] = phase[w]
    BY <1>4 DEF ExecutorStep, BeginJob, PostCreate, QueryByDocNumber, PostUpdate,
       PostDeleteOrVoid, Rejected, Reread, ExecutorFrame
  <2>2. ~BeginJob(w)
    BY <1>1, <2>1 DEF BeginJob
  <2>3. work[w].at \in {"create", "query", "update", "repost", "delete", "void", "reread"}
    BY <1>4, <2>2 DEF ExecutorStep, PostCreate, QueryByDocNumber, PostUpdate,
       PostDeleteOrVoid, Rejected, Reread
  <2>4. EventShape(work[w], notes[work[w].id])
    BY <1>1, <2>1, <2>3 DEF SessionInvariant, Shaped, Free
  <2> QED BY <2>3, <2>4 DEF EventShape
<1>5. ASSUME HandlerStep(w) \/ AttemptFails(w)
      PROVE  \/ Hears(w, n) /\ (Fetch(w) \/ AttemptFails(w))
             \/ BeginEvent(w) /\ work'[w].id = n
  <2>1. CASE BeginEvent(w)
    BY <1>1, <2>1
  <2>2. CASE Fetch(w) \/ AttemptFails(w)
    <3>1. phase'[w] = phase[w] /\ ~Free(work[w])
      BY <2>2 DEF Fetch, AttemptFails, HandlerFrame, Free, Calls, CommitPoints
    <3>2. work'[w].id = work[w].id
      <4>1. CASE AttemptFails(w)
        BY <4>1, MovedTask DEF AttemptFails, Raise, Marks
      <4>2. CASE Fetch(w)
        <5>1. \A at : Raise(w, at) => work'[w].id = work[w].id
          BY MovedTask DEF Raise, Marks
        <5>2. work[w] \in Task /\ work \in [Workers -> Task]
          BY DEF QueueInvariant, TypeOK, WorkerTypeOK
        <5>3. ASSUME NEW task, Move(w, task), task.id = work[w].id
              PROVE  work'[w].id = work[w].id
          BY <5>2, <5>3 DEF Move
        <5>4. ASSUME NEW k, NEW q, FetchCreated(w, k, q) PROVE work'[w].id = work[w].id
          BY <5>2, <5>4 DEF FetchCreated, Move, Task
        <5>5. ASSUME NEW k, NEW q, FetchUpdated(w, k, q) PROVE work'[w].id = work[w].id
          <6>1. CASE Newer(q.token, work[w].loaded.token)
            BY <5>2, <5>3, <5>5, <6>1 DEF FetchUpdated, Task
          <6>2. CASE ~Newer(q.token, work[w].loaded.token)
            BY <5>2, <5>3, <5>5, <6>2 DEF FetchUpdated, Task
          <6> QED BY <6>1, <6>2
        <5> QED BY <4>2, <5>1, <5>4, <5>5 DEF Fetch, FetchMissing
      <4> QED BY <2>2, <4>1, <4>2
    <3> QED BY <1>1, <2>2, <3>1, <3>2 DEF Hears
  <2> QED BY <1>5, <2>1, <2>2 DEF HandlerStep
<1>6. ASSUME Crash(w) \/ Restart(w) PROVE FALSE
  <2>1. work'[w].at \in {"down", "idle"}
    BY <1>6 DEF Crash, Restart, Move, QueueInvariant, TypeOK, WorkerTypeOK, Idle
  <2> QED BY <1>1, <2>1 DEF Free
<1>7. ASSUME NEW v \in Workers, v # w,
             LoopStep(v) \/ ExecutorStep(v) \/ HandlerStep(v) \/ AttemptFails(v)
               \/ Crash(v) \/ Restart(v)
      PROVE  Hears(w, n) /\ work'[w] = work[w]
  BY <1>2, <1>7, OthersStay
<1>8. ASSUME UNCHANGED workerVars PROVE Hears(w, n) /\ work'[w] = work[w]
  BY <1>2, <1>8 DEF workerVars
<1>9. ASSUME NEW v \in Workers, EndpointStep(v) PROVE UNCHANGED workerVars
  BY <1>9 DEF EndpointStep, StoreEvent, CheckStored
<1>10. ASSUME NEW k \in DOMAIN notes, RepeatUnidentified(k) PROVE UNCHANGED workerVars
  BY <1>10 DEF RepeatUnidentified
<1>11. ASSUME Wakes \/ UNCHANGED vars PROVE UNCHANGED workerVars
  BY <1>11 DEF Wakes, vars
<1> QED BY <1>3, <1>4, <1>5, <1>6, <1>7, <1>8, <1>9, <1>10, <1>11 DEF Next, WorkerStep

(* The write that changed an invoice sent a notification, which nobody has  *)
(* heard yet.                                                               *)
LEMMA ChangeIsTold ==
  ASSUME QueueInvariant, [Next]_vars, NEW r \in Realms, NEW e \in DOMAIN qbo[r],
         qbo'[r][e] # qbo[r][e], NEW op \in Tellable, Tells(op, qbo'[r][e].status)
  PROVE  Waits(op, r, e)'
<1>1. QueueInvariant'
  BY NextInvariant
<1>2. PICK s \in Realms, d \in Nat \ {0} : \E what : Writes(s, d, what)
  BY NextNotes
<1>3. PICK what : Writes(s, d, what)
  BY <1>2
<1>4. s = r /\ d = e /\ what # "created"
  BY <1>3 DEF Writes
<1>5. what = op
  BY <1>3, <1>4 DEF Writes, Tells, Tellable
<1>p. PICK n : n = Len(notes) + 1
  OBVIOUS
<1>6. /\ n \in DOMAIN notes' /\ n \notin DOMAIN notes
      /\ notes'[n] = [realm |-> r, ext |-> e, op |-> op]
  BY <1>p, <1>3, <1>4, <1>5, Typed, AppendProperties, LenProperties DEF Writes
<1>7. n \notin DOMAIN events'
  BY <1>3, <1>6, Typed DEF Writes, storeVars
<1>8. \A w \in Workers : ~Hears(w, n)'
  BY <1>1, <1>7 DEF Hears, Free, QueueInvariant, WorksOnItsBatch, HoldsItsQueue, QueueOf
<1>9. Unheard(n)'
  BY <1>7 DEF Unheard
<1> QED BY <1>6, <1>8, <1>9 DEF Waits

(* The fetch of an update that is news to the row takes QuickBooks' token.  *)
LEMMA FetchIsOnIt ==
  ASSUME QueueInvariant, NEW w \in Workers, Fetch(w), notes[work[w].id].op = "updated",
         LET n == notes[work[w].id]  q == qbo[n.realm][n.ext] IN
           /\ Readable(n.realm, n.ext) /\ Newer(q.token, work[w].loaded.token)
  PROVE  LET n == notes[work[w].id] IN
           /\ work'[w].at = "write" /\ work'[w].obj.token = qbo[n.realm][n.ext].token
           /\ UNCHANGED <<qbo, notes, faults>>
<1> DEFINE n == notes[work[w].id]
           q == qbo[n.realm][n.ext]
<1>1. work[w] \in Task /\ work \in [Workers -> Task] /\ work[w].obj \in Row
  BY WorkType DEF QueueInvariant, TypeOK, WorkerTypeOK
<1>2. FetchUpdated(w, n, q) /\ UNCHANGED <<qbo, notes, faults>>
  BY DEF Fetch, FetchMissing, FetchCreated, HandlerFrame, qboVars
<1>3. Refreshed(work[w].obj, q).token = q.token
  BY <1>1 DEF Refreshed, Row
<1>4. work'[w] = [work[w] EXCEPT !.at = "write", !.obj = Refreshed(work[w].obj, q),
                                 !.loaded = Compared(work[w].loaded, q)]
  BY <1>1, <1>2 DEF FetchUpdated, Move, Task
<1>5. work'[w].at = "write" /\ work'[w].obj = Refreshed(work[w].obj, q)
  BY <1>1, <1>4 DEF Task
<1> QED BY <1>2, <1>3, <1>5

(* A worker that begins an event the invoice lacks is on it.                *)
LEMMA BegunIsOnIt ==
  ASSUME QueueInvariant, NEW w \in Workers, BeginEvent(w), NEW i \in DOMAIN invoices,
         Lookup(notes[work'[w].id].ext) = {i},
         NEW op \in Tellable, notes[work'[w].id].op = op,
         op = "deleted" => ~invoices[i].deleted,
         op = "voided" => ~VoidIsMoot(invoices[i])
  PROVE  /\ work'[w].at = IF op = "updated" THEN "fetch" ELSE "write"
         /\ UNCHANGED <<qbo, notes, faults, storeVars>>
<1> DEFINE t == work'[w]
<1>1. UNCHANGED <<qbo, notes, faults, storeVars>>
  BY DEF BeginEvent, HandlerFrame, qboVars
<1>2. \A task : Move(w, task) => work'[w] = task
  BY DEF Move, QueueInvariant, TypeOK, WorkerTypeOK
<1>3. Cardinality({i}) = 1
  BY FS_Singleton
<1>4. PICK e \in batch[w] : LET found == Lookup(notes[e].ext) IN
       \/ BeginAmbiguous(w, e, found)
       \/ BeginCreated(w, e, found)
       \/ BeginUpdated(w, e, found)
       \/ BeginDeleted(w, e, found)
       \/ BeginVoided(w, e, found)
  BY DEF BeginEvent
<1> DEFINE found == Lookup(notes[e].ext)
<1>5. t.id = e
  <2>1. \A k, at, obj : Begun(e, k, at, obj).id = e /\ Skipped(e).id = e
    BY DEF Begun, Skipped
  <2>2. \E k, at, obj : t = Begun(e, k, at, obj)
    <3>1. CASE BeginAmbiguous(w, e, found)
      BY <1>2, <3>1 DEF BeginAmbiguous
    <3>2. CASE BeginCreated(w, e, found)
      <4>1. t = Skipped(e) \/ t = Begun(e, 0, "fetch", Blank)
        BY <1>2, <3>2 DEF BeginCreated
      <4> QED BY <4>1 DEF Skipped
    <3>3. CASE BeginUpdated(w, e, found)
      <4>1. t = Skipped(e) \/ \E k \in found : t = Begun(e, k, "fetch", invoices[k])
        BY <1>2, <3>3 DEF BeginUpdated
      <4> QED BY <4>1 DEF Skipped
    <3>4. CASE BeginDeleted(w, e, found)
      <4>1. \/ t = Skipped(e)
            \/ \E k \in found : t = Skipped(e) \/ t = Begun(e, k, "write",
                            [invoices[k] EXCEPT !.deleted = TRUE, !.status = "Deleted",
                                                !.sync = "complete"])
        BY <1>2, <3>4 DEF BeginDeleted
      <4> QED BY <4>1 DEF Skipped
    <3>5. CASE BeginVoided(w, e, found)
      <4>1. \/ t = Skipped(e)
            \/ \E k \in found : t = Skipped(e) \/ t = Begun(e, k, "write",
                            [invoices[k] EXCEPT !.status = "Voided", !.sync = "complete"])
        BY <1>2, <3>5 DEF BeginVoided
      <4> QED BY <4>1 DEF Skipped
    <3> QED BY <1>4, <3>1, <3>2, <3>3, <3>4, <3>5
  <2> QED BY <2>1, <2>2
<1>6. found = {i} /\ Cardinality(found) = 1 /\ notes[e].op = op /\ op # "created"
  BY <1>3, <1>5 DEF Tellable
<1>7. /\ op = "updated" => BeginUpdated(w, e, found)
      /\ op = "deleted" => BeginDeleted(w, e, found)
      /\ op = "voided" => BeginVoided(w, e, found)
  BY <1>4, <1>6 DEF BeginAmbiguous, BeginCreated, BeginUpdated, BeginDeleted, BeginVoided
<1>8. CASE op = "updated"
  <2>1. t = Begun(e, i, "fetch", invoices[i])
    BY <1>2, <1>6, <1>7, <1>8 DEF BeginUpdated
  <2> QED BY <1>1, <1>8, <2>1 DEF Begun
<1>9. CASE op \in {"deleted", "voided"}
  <2>1. \E obj : t = Begun(e, i, "write", obj)
    BY <1>2, <1>6, <1>7, <1>9 DEF BeginDeleted, BeginVoided
  <2> QED BY <1>1, <1>9, <2>1 DEF Begun
<1> QED BY <1>8, <1>9 DEF Tellable

(* The commit of a worker that is on a notification brings the only row it  *)
(* can concern up to date.                                                  *)
LEMMA CommitUpdates ==
  ASSUME QueueInvariant, SessionInvariant, TokenInvariant, [Next]_vars,
         NEW w \in Workers, NEW n, Hears(w, n), OnIt(w, n), CompleteEvent(w),
         UNCHANGED request, NEW i \in DOMAIN invoices, Lookup(notes[n].ext) = {i},
         NEW op \in Tellable, notes[n].op = op
  PROVE  /\ op = "deleted" => invoices'[i].deleted
         /\ op = "voided" => VoidIsMoot(invoices'[i])
         /\ op = "updated" =>
              invoices'[i].token = qbo[notes[n].realm][notes[n].ext].token
<1> DEFINE t == work[w]
           o == t.obj
           l == t.loaded
<1>1. t.at = "write" /\ ~Free(t) /\ t.id = n /\ phase[w] = "events"
  BY DEF CompleteEvent, Persist, OnIt, Hears
<1>2. /\ t.inv # 0 /\ l.ext = notes[n].ext
      /\ \/ op = "updated"
         \/ op = "deleted" /\ o.deleted /\ ~l.deleted
         \/ op = "voided" /\ o.status = "Voided" /\ l.status # "Voided"
  <2>1. EventShape(t, notes[n])
    BY <1>1 DEF SessionInvariant, Shaped
  <2> HIDE DEF t
  <2> QED BY <1>1, <2>1 DEF EventShape, Tellable
<1>3. t.inv \in DOMAIN invoices /\ invoices[t.inv].ext = l.ext
  BY <1>1, <1>2, WorkType DEF TokenInvariant, TaskReached, HasRow
<1>4. t.inv = i
  <2>1. t.inv \in Lookup(notes[n].ext)
    BY <1>2, <1>3 DEF Lookup
  <2> QED BY <2>1
<1>5. invoices'[i] = Merge(invoices[i], l, o)
  BY <1>1, <1>4, SavedRows DEF CompleteEvent, Persist
<1>6. Saves(w, i)
  BY <1>1, <1>4, <1>5 DEF Saves, CompleteEvent
<1>7. op = "deleted" => invoices'[i].deleted
  BY <1>2, <1>5 DEF Merge, Net
<1>8. op = "voided" => VoidIsMoot(invoices'[i])
  BY <1>2, <1>5 DEF Merge, Net, VoidIsMoot
<1>9. op = "updated" => invoices'[i].token = qbo[notes[n].realm][notes[n].ext].token
  BY <1>1, <1>6, SavedToken DEF OnIt
<1> QED BY <1>7, <1>8, <1>9

(* The commit of a PUT leaves its job, if only a status was given.          *)
LEMMA UpdateGives ==
  ASSUME QueueInvariant, NEW i, NEW t \in Threads, Commits(t, i),
         request[t].op = "update", NEW status \in PutStatuses
  PROVE  GivenStatus(i)'
<1>1. PICK n : n = Len(jobs) + 1
  OBVIOUS
<1>2. jobs \in Seq(Job) /\ jobs' = Append(jobs, [inv |-> i, op |-> "update",
             status |-> "pending", attempts |-> 0, due |-> TRUE, error |-> "none"])
  BY DEF Commits, Commit, EnqueueJob, QueueInvariant, TypeOK, StoreTypeOK
<1>3. n \in DOMAIN jobs' /\ jobs'[n] = [inv |-> i, op |-> "update",
             status |-> "pending", attempts |-> 0, due |-> TRUE, error |-> "none"]
  BY <1>1, <1>2, LenProperties, AppendProperties
<1> QED BY <1>3 DEF GivenStatus, JobsOf

(* Jobs stay, and so does what follows from one.                            *)
LEMMA GivenStays ==
  ASSUME QueueInvariant, [Next]_vars, NEW i PROVE GivenStatus(i) => GivenStatus(i)'
<1> SUFFICES ASSUME PutStatuses # {}, NEW j \in JobsOf(i), jobs[j].op = "update"
             PROVE  GivenStatus(i)'
  BY DEF GivenStatus
<1>1. j \in JobsOf(i)' /\ jobs'[j].op = "update"
  BY NextJobsKeep DEF JobsKeep, JobsOf
<1> QED BY <1>1 DEF GivenStatus

(* A void or a delete of a linked row is undone by no session, unless a PUT *)
(* may have given a status.                                                 *)
LEMMA MootStays ==
  ASSUME QueueInvariant, SessionInvariant, LinkInvariant, [Next]_vars,
         NEW i \in DOMAIN invoices, HasLink(i), VoidIsMoot(invoices[i]), ~GivenStatus(i)'
  PROVE  VoidIsMoot(invoices'[i])
<1>1. invoices[i].deleted => invoices'[i].deleted
  BY NextKeepsDeleted DEF DeletedStay
<1> SUFFICES ASSUME invoices[i].status = "Voided" PROVE VoidIsMoot(invoices'[i])
  BY <1>1 DEF VoidIsMoot
<1>2. ASSUME NEW t \in Threads, Commits(t, i) PROVE VoidIsMoot(invoices'[i])
  <2> DEFINE q == request[t]
  <2>1. /\ q.op \in {"update", "delete", "void"} /\ RequestShape(q)
        /\ invoices'[i] = Merge(invoices[i], q.loaded, q.obj)
    BY <1>2 DEF Commits, SessionInvariant, QueueInvariant, TypeOK, ServiceTypeOK, Request
  <2>3. q.op = "update" => q.obj.status \notin PutStatuses
    BY <1>2, UpdateGives
  <2> HIDE DEF q
  <2>2. \/ q.obj.status \in {q.loaded.status, "Voided"}
        \/ q.obj.deleted /\ ~q.loaded.deleted
    BY <2>1, <2>3 DEF RequestShape
  <2> QED BY <2>1, <2>2 DEF Merge, Net, VoidIsMoot
<1>3. ASSUME NEW w \in Workers, Saves(w, i) PROVE VoidIsMoot(invoices'[i])
  <2> DEFINE t == work[w]
  <2>1. /\ ~Free(t) /\ Shaped(w) /\ t.inv = i /\ t.at \in {"write", "rewrite"}
        /\ phase[w] \in {"jobs", "events"}
        /\ invoices'[i] = Merge(invoices[i], t.loaded, t.obj)
    BY <1>3, SavedTask, Typed DEF Saves
  <2>2. \/ t.obj.status \in {t.loaded.status, "Voided"}
        \/ t.obj.deleted /\ ~t.loaded.deleted
    <3>1. CASE phase[w] = "jobs"
      <4>1. ~Creates(w)
        BY <2>1 DEF LinkInvariant, HasLink
      <4>2. JobShape(t, jobs[t.id].op)
        BY <2>1, <3>1 DEF Shaped
      <4>3. ~(jobs[t.id].op = "create" /\ t.at = "write")
        BY <3>1, <4>1 DEF Creates
      <4> HIDE DEF t
      <4> QED BY <2>1, <4>2, <4>3 DEF JobShape
    <3>2. CASE phase[w] = "events"
      <4>1. EventShape(t, notes[t.id]) /\ t.at = "write"
        BY <2>1, <3>2 DEF Shaped, EventShape
      <4> HIDE DEF t
      <4> QED BY <4>1 DEF EventShape
    <3> QED BY <2>1, <3>1, <3>2
  <2> HIDE DEF t
  <2> QED BY <2>1, <2>2 DEF Merge, Net, VoidIsMoot
<1>4. ASSUME NEW w \in Workers, GivesUp(w, i) PROVE VoidIsMoot(invoices'[i])
  BY <1>4, RowType DEF GivesUp, Row, VoidIsMoot
<1> QED BY <1>2, <1>3, <1>4, NextRows DEF RowsStep, RowSteps, NewRow

(* Nothing but a write to QuickBooks makes a linked row lack something.     *)
LEMMA LackedBefore ==
  ASSUME QueueInvariant, SessionInvariant, LinkInvariant, TokenInvariant, [Next]_vars,
         NEW i \in DOMAIN invoices, HasLink(i), NEW op \in Tellable,
         Counterpart(i)' = Counterpart(i), Lacks(op, invoices[i])',
         op = "updated" => NoNamesake(i), ~Excused(op, i)'
  PROVE  Lacks(op, invoices[i])
<1> DEFINE row == invoices[i]
           new == invoices'[i]
           q   == qbo[row.company][row.ext]
<1>1. new.ext = row.ext /\ new.company = row.company
  BY LinksOnlyUnlinked, NextOwnersKeep DEF LinksStay, OwnersKeep
<1>2. qbo'[row.company][row.ext] = q
  BY <1>1 DEF Counterpart
<1>3. CASE op = "deleted"
  BY <1>1, <1>2, <1>3, NextKeepsDeleted DEF Lacks, Misses, DeletedStay
<1>4. CASE op = "voided"
  BY <1>1, <1>2, <1>4, MootStays DEF Lacks, Misses, Excused
<1>5. CASE op = "updated"
  <2>1. new.token >= row.token
    BY <1>5, NextTokensAdvance DEF TokensAdvance
  <2>2. q.status = "Live" /\ new.token < q.token
    BY <1>1, <1>2, <1>5 DEF Lacks, Misses
  <2>3. row.token \in Int /\ new.token \in Int /\ q.token \in Int
    <3>1. row.token \in Tokens /\ row.company \in Realms
      BY Typed
    <3>2. new.token \in Tokens
      BY TypedRows, NextOwnersKeep DEF OwnersKeep
    <3>3. row.ext \in DOMAIN qbo[row.company]
      BY <1>5 DEF TokenInvariant, RowsReached, Reached, NoNamesake
    <3> QED BY <3>1, <3>2, <3>3, QboRow DEF Tokens, NoToken
  <2>4. row.token < q.token
    <3> HIDE DEF row, new, q
    <3> QED BY <2>1, <2>2, <2>3
  <2> QED BY <1>5, <2>2, <2>4 DEF Lacks, Misses
<1> QED BY <1>3, <1>4, <1>5 DEF Tellable

(* No event is removed, and no outcome changes.                             *)
LEMMA EventsLast ==
  ASSUME QueueInvariant, [Next]_vars PROVE DOMAIN events \subseteq DOMAIN events'
<1>1. ASSUME NEW w \in Workers, LoopStep(w) PROVE DOMAIN events' = DOMAIN events
  BY <1>1 DEF LoopStep, PollJobs, PollEvents, Select, ClaimJobs, ClaimEvents, Claimed,
     CompleteJob, RetryJob, AbortJob, CompleteEvent, RetryEvent, storeVars
<1>2. ASSUME NEW w \in Workers,
             ExecutorStep(w) \/ HandlerStep(w) \/ AttemptFails(w) \/ Crash(w) \/ Restart(w)
               \/ \E k \in DOMAIN notes : CheckStored(w, k)
      PROVE  UNCHANGED events
  BY <1>2 DEF ExecutorStep, BeginJob, PostCreate, QueryByDocNumber, PostUpdate,
     PostDeleteOrVoid, Rejected, Reread, ExecutorFrame, HandlerStep, BeginEvent, Fetch,
     HandlerFrame, AttemptFails, Crash, Restart, CheckStored, storeVars
<1>3. ASSUME NEW w \in Workers, StoreEvent(w) PROVE DOMAIN events \subseteq DOMAIN events'
  BY <1>3 DEF StoreEvent, WithEvent
<1>4. ASSUME Wakes PROVE DOMAIN events' = DOMAIN events
  BY <1>4 DEF Wakes, Elapse
<1>5. ASSUME NEW k \in DOMAIN notes, RepeatUnidentified(k) PROVE UNCHANGED events
  BY <1>5 DEF RepeatUnidentified, storeVars
<1>6. ASSUME ServiceStep(Locked) PROVE UNCHANGED events
  BY <1>6 DEF ServiceStep, CreateInvoice, Commit, BeginUpdate, BeginDelete, BeginVoid, Begin,
     storeVars
<1>7. ASSUME UNCHANGED storeVars \/ UNCHANGED vars PROVE UNCHANGED events
  BY <1>7 DEF storeVars, vars
<1> QED BY <1>1, <1>2, <1>3, <1>4, <1>5, <1>6, <1>7 DEF Next, WorkerStep, EndpointStep

LEMMA DroppedStays ==
  ASSUME QueueInvariant, [Next]_vars, NEW n, Dropped(n) PROVE Dropped(n)'
<1>1. n \in DOMAIN events /\ ~Active(events[n])
  BY DEF Dropped, Active
<1>2. n \in DOMAIN events'
  BY <1>1, EventsLast
<1>3. events'[n] = events[n]
  BY <1>1, NextFinal DEF FinalRows, vars, storeVars
<1> QED BY <1>2, <1>3 DEF Dropped

(* Calls that failed stay failed.                                           *)
LEMMA FaultsGrow ==
  ASSUME QueueInvariant, [Next]_vars
  PROVE  faults \in Nat /\ (faults' = faults \/ faults' = faults + 1)
<1>1. faults \in Nat
  BY Typed
<1>2. ASSUME UNCHANGED qboVars PROVE faults' = faults
  BY <1>2 DEF qboVars
<1>3. ASSUME UserStep PROVE faults' = faults
  BY <1>3 DEF UserStep, UserCreates, UserWrites
<1>4. ASSUME NEW w \in Workers, LoopStep(w) PROVE UNCHANGED qboVars
  BY <1>4 DEF LoopStep, PollJobs, PollEvents, Select, ClaimJobs, ClaimEvents, CompleteJob,
     RetryJob, AbortJob, CompleteEvent, RetryEvent
<1>5. ASSUME NEW w \in Workers, ExecutorStep(w)
      PROVE  faults' = faults \/ faults' = faults + 1
  <2>1. ASSUME PostCreate(w) \/ PostUpdate(w) \/ PostDeleteOrVoid(w)
        PROVE  faults' = faults \/ faults' = faults + 1
    BY <2>1 DEF PostCreate, PostUpdate, PostDeleteOrVoid, Answered, NoFault, NetworkFault
  <2> QED BY <1>2, <1>5, <2>1 DEF ExecutorStep, BeginJob, QueryByDocNumber, Rejected, Reread
<1>6. ASSUME NEW w \in Workers, HandlerStep(w) \/ Crash(w) \/ Restart(w)
      PROVE  UNCHANGED qboVars
  BY <1>6 DEF HandlerStep, BeginEvent, Fetch, HandlerFrame, Crash, Restart
<1>7. ASSUME NEW w \in Workers, AttemptFails(w) PROVE faults' = faults + 1
  BY <1>7 DEF AttemptFails, NetworkFault
<1>8. ASSUME NEW w \in Workers, EndpointStep(w) PROVE UNCHANGED qboVars
  BY <1>8 DEF EndpointStep, StoreEvent, CheckStored
<1>9. ASSUME NEW n \in DOMAIN notes, RepeatUnidentified(n) PROVE faults' = faults
  BY <1>9 DEF RepeatUnidentified
<1>10. ASSUME Wakes \/ UNCHANGED vars PROVE UNCHANGED qboVars
  BY <1>10 DEF Wakes, vars
<1> QED BY <1>1, <1>2, <1>3, <1>4, <1>5, <1>6, <1>7, <1>8, <1>9, <1>10 DEF Next, WorkerStep

(* A worker that is on a notification puts it off, or uses it up.           *)
LEMMA PutOff ==
  ASSUME QueueInvariant, NEW w \in Workers, RetryEvent(w), NEW n, Hears(w, n)
  PROVE  Unheard(n)' \/ Dropped(n)'
<1>1. n \in batch[w] /\ n = work[w].id
  BY DEF Hears, Free, QueueInvariant, WorksOnItsBatch
<1>2. n \in DOMAIN events /\ events[n] \in Event
  BY <1>1, Typed DEF Hears, QueueInvariant, HoldsItsQueue, QueueOf
<1>3. DOMAIN events' = DOMAIN events /\ events'[n] = Reattempt(events[n])
  BY <1>1, <1>2 DEF RetryEvent
<1>4. Reattempt(events[n]).status \in {"pending", "failed"}
  BY <1>2 DEF Reattempt, Event
<1> QED BY <1>2, <1>3, <1>4 DEF Unheard, Dropped, Active

(* What a row lacks goes on waiting: no skip, no lost call and no death of  *)
(* the process spends the notification without bringing the row up to date, *)
(* unless it was tried in vain until its attempts were used up.             *)
LEMMA WaitsOn ==
  ASSUME QueueInvariant, SessionInvariant, TokenInvariant, NotesAreTrue, [Next]_vars,
         NEW solo, Workers = {solo}, NEW i \in DOMAIN invoices, HasLink(i), Sole(i),
         NEW op \in Tellable, Lacks(op, invoices[i]), Lacks(op, invoices[i])',
         Counterpart(i)' = Counterpart(i),
         invoices'[i].company = invoices[i].company, invoices'[i].ext = invoices[i].ext,
         Waits(op, invoices[i].company, invoices[i].ext)
  PROVE  Waits(op, invoices[i].company, invoices[i].ext)'
<1> DEFINE row == invoices[i]
           r   == row.company
           e   == row.ext
           q   == qbo[r][e]
<1>1. qbo'[r][e] = q
  BY DEF Counterpart
<1>2. PICK n \in DOMAIN notes :
         /\ notes[n] = [realm |-> r, ext |-> e, op |-> op]
         /\ \/ Unheard(n) /\ (Hears(solo, n) => OnIt(solo, n))
            \/ Dropped(n) /\ faults > 0
  BY DEF Waits
<1>f. faults \in Nat /\ faults' \in Nat /\ (faults > 0 => faults' > 0)
  BY FaultsGrow
<1>3. /\ notes[n].realm = r /\ notes[n].ext = e /\ notes[n].op = op
      /\ n \in DOMAIN notes' /\ notes'[n] = notes[n]
      /\ Lookup(notes[n].ext) = {i}
  BY <1>2, NextNotesLast DEF NotesLast, Sole
<1>4. CASE Dropped(n) /\ faults > 0
  <2>1. Dropped(n)'
    BY <1>4, DroppedStays
  <2> QED BY <1>2, <1>3, <1>4, <1>f, <2>1 DEF Waits
<1>5. CASE Unheard(n) /\ (Hears(solo, n) => OnIt(solo, n))
  <2>1. \/ Unheard(n)'
        \/ Dropped(n)' /\ faults' > 0
    <3> SUFFICES ASSUME Hears(solo, n), CompleteEvent(solo) \/ RetryEvent(solo),
                        UNCHANGED request
                 PROVE  Unheard(n)' \/ (Dropped(n)' /\ faults' > 0)
      BY <1>5, UnheardLasts
    <3>1. CASE CompleteEvent(solo)
      <4>1. OnIt(solo, n)
        BY <1>5
      <4>2. /\ op = "deleted" => invoices'[i].deleted
            /\ op = "voided" => VoidIsMoot(invoices'[i])
            /\ op = "updated" => invoices'[i].token = q.token
        BY <1>3, <3>1, <4>1, CommitUpdates
      <4>3. op = "updated" => invoices'[i].token \in Int
        BY TypedRows, NextOwnersKeep DEF OwnersKeep, Tokens, NoToken
      <4> QED BY <1>1, <4>2, <4>3 DEF Lacks, Misses, Tellable
    <3>2. CASE RetryEvent(solo)
      <4>1. faults > 0
        BY <1>5, <3>2 DEF OnIt, RetryEvent
      <4> QED BY <1>f, <3>2, <4>1, PutOff
    <3> QED BY <3>1, <3>2
  <2>2. ASSUME Hears(solo, n)' PROVE OnIt(solo, n)'
    <3>1. CASE Hears(solo, n) /\ work'[solo] = work[solo]
      BY <1>1, <1>3, <1>5, <1>f, <3>1 DEF OnIt
    <3>2. CASE Hears(solo, n) /\ Fetch(solo)
      <4>1. EventShape(work[solo], notes[n]) /\ work[solo].at = "fetch" /\ work[solo].id = n
            /\ HasRow(work[solo]) /\ work[solo].inv \in {0} \cup DOMAIN invoices
        BY <3>2, WorkType
           DEF Hears, Fetch, SessionInvariant, Shaped, TokenInvariant, TaskReached
      <4>2. op = "updated" /\ work[solo].inv # 0 /\ work[solo].loaded.ext = e
        BY <1>3, <4>1 DEF EventShape, Tellable
      <4>3. /\ work[solo].inv \in Lookup(e)
            /\ work[solo].loaded.token = invoices[work[solo].inv].token
        BY <4>1, <4>2 DEF HasRow, Lookup
      <4>4. work[solo].loaded.token = row.token
        BY <1>3, <4>3
      <4>5. q.status = "Live" /\ row.token < q.token
        BY <4>2 DEF Lacks, Misses
      <4>6. Readable(r, e) /\ Newer(q.token, work[solo].loaded.token)
        <5>1. e \in DOMAIN qbo[r]
          BY <1>3 DEF NotesAreTrue, IsTrue
        <5>2. row.token \in Int /\ q.token \in Int
          BY <5>1, Typed, QboRow DEF Tokens, NoToken
        <5> QED BY <4>4, <4>5, <5>1, <5>2 DEF Readable, Newer
      <4>7. work'[solo].at = "write" /\ work'[solo].obj.token = q.token
        BY <1>3, <3>2, <4>1, <4>2, <4>6, FetchIsOnIt
      <4> QED BY <1>1, <1>3, <4>7 DEF OnIt
    <3>3. CASE Hears(solo, n) /\ AttemptFails(solo)
      <4>1. faults' > 0
        BY <1>f, <3>3 DEF AttemptFails, NetworkFault
      <4>2. work'[solo].at = "raised"
        BY <3>3, MovedTask DEF AttemptFails, Raise, Marks
      <4> QED BY <4>1, <4>2 DEF OnIt
    <3>4. CASE BeginEvent(solo) /\ work'[solo].id = n
      <4>1. /\ op = "deleted" => ~row.deleted
            /\ op = "voided" => ~VoidIsMoot(row)
        BY DEF Lacks
      <4>2. work'[solo].at = IF op = "updated" THEN "fetch" ELSE "write"
        BY <1>3, <3>4, <4>1, BegunIsOnIt
      <4> QED BY <1>3, <4>2 DEF OnIt
    <3> QED BY <2>2, <3>1, <3>2, <3>3, <3>4, HearsBack
  <2> QED BY <1>2, <1>3, <2>1, <2>2 DEF Waits
<1> QED BY <1>2, <1>4, <1>5

(* Nor does a worker that is about to link a row spend it.                  *)
LEMMA WaitsThroughLink ==
  ASSUME QueueInvariant, SessionInvariant, [Next]_vars, NEW solo, Workers = {solo},
         Links(solo), NEW op \in Tellable, NEW r, NEW e, Waits(op, r, e)
  PROVE  Waits(op, r, e)'
<1>1. PICK n \in DOMAIN notes :
         /\ notes[n] = [realm |-> r, ext |-> e, op |-> op]
         /\ Unheard(n) \/ (Dropped(n) /\ faults > 0)
  BY DEF Waits
<1>2. ~Hears(solo, n)
  BY <1>1 DEF Hears, Links, Creates, SessionInvariant, Shaped, EventShape, Tellable
<1>3. Unheard(n)' \/ (Dropped(n)' /\ faults' > 0)
  BY <1>1, <1>2, UnheardLasts, DroppedStays, FaultsGrow
<1>4. ~Hears(solo, n)'
  BY <1>2, HearsBack DEF BeginEvent, Links, Creates
<1>5. n \in DOMAIN notes' /\ notes'[n] = notes[n]
  BY NextNotesLast DEF NotesLast
<1> QED BY <1>1, <1>3, <1>4, <1>5 DEF Waits
------------------------------------------------------------------------------
(* The row a worker links holds the task's link, company, origin and token. *)
RowLinked(w, i) ==
  LET o == work[w].obj IN
    /\ Links(w) /\ Free(work'[w]) /\ UNCHANGED qboVars
    /\ i = IF work[w].at = "insert" THEN Len(invoices) + 1 ELSE work[w].inv
    /\ invoices'[i].ext = o.ext /\ invoices'[i].company = o.company
    /\ invoices'[i].origin = o.origin /\ invoices'[i].token = o.token

(* Rows are linked by an insert or by the commit of a create job.           *)
LEMMA LinkedRow ==
  ASSUME QueueInvariant, SessionInvariant, LinkInvariant, TokenInvariant, [Next]_vars,
         NEW i \in DOMAIN invoices', invoices'[i].ext # NoLink,
         i \notin DOMAIN invoices \/ ~HasLink(i)
  PROVE  \E w \in Workers : RowLinked(w, i)
<1>1. CASE i \notin DOMAIN invoices
  <2>1. NewRow /\ i = Len(invoices) + 1
    BY <1>1, AddedIndex
  <2>2. ASSUME NEW company \in Realms, NEW content \in Contents,
               invoices'[i] = [Blank EXCEPT !.company = company, !.content = content]
        PROVE  FALSE
    BY <2>2 DEF Blank
  <2>3. PICK w \in Workers :
          /\ CompleteJob(w) \/ CompleteEvent(w)
          /\ work[w].at = "insert" /\ invoices'[i] = work[w].obj
          /\ UNCHANGED <<qboVars, request>>
    BY <2>1, <2>2 DEF NewRow
  <2>4. Free(work'[w])
    BY <2>3 DEF CompleteJob, CompleteEvent, Finish, Move, Idle, Free, QueueInvariant,
       TypeOK, WorkerTypeOK
  <2> QED BY <2>1, <2>3, <2>4 DEF RowLinked, Links
<1>2. CASE i \in DOMAIN invoices /\ ~HasLink(i)
  <2>1. PICK w \in Workers : SetsLink(w, i)
    BY <1>2, NextLinks DEF LinksChange, HasLink
  <2>2. Creates(w) /\ work[w].at = "write" /\ Saves(w, i) /\ Free(work'[w])
    BY <2>1 DEF SetsLink, Free, Idle
  <2>3. /\ invoices'[i].company = work[w].obj.company
        /\ invoices'[i].ext = work[w].obj.ext
        /\ invoices'[i].token = work[w].obj.token
    BY <1>2, <2>2, SavedToken
  <2>4. invoices'[i].origin = work[w].obj.origin
    <3>1. Shaped(w) /\ work[w].inv = i /\ i # 0 /\ ~Free(work[w]) /\ phase[w] = "jobs"
      BY <1>2, <2>2, SavedTask DEF Creates
    <3>2. SameOwner(i, work[w].loaded) /\ JobShape(work[w], jobs[work[w].id].op)
      BY <3>1 DEF Shaped
    <3>3. work[w].obj.origin = invoices[i].origin
      BY <3>2 DEF SameOwner, JobShape
    <3> QED BY <1>2, <3>3, NextOwnersKeep DEF OwnersKeep
  <2>5. UNCHANGED qboVars /\ work[w].inv = i
    BY <2>2 DEF Saves
  <2> QED BY <2>2, <2>3, <2>4, <2>5 DEF RowLinked, Links
<1> QED BY <1>1, <1>2

(* How a worker comes to be about to link a row, and goes on with it: the   *)
(* link is to an invoice that was there a moment ago, with its token.       *)
LEMMA LinksBack ==
  ASSUME QueueInvariant, SessionInvariant, [Next]_vars, NEW w \in Workers, Links(w)'
  PROVE  \/ Links(w) /\ work'[w] = work[w]
         \/ LET o == work'[w].obj  r == o.company  e == o.ext IN
              /\ UNCHANGED storeVars /\ e # NoLink
              /\ r \in Realms /\ e \in DOMAIN qbo'[r]
              /\ o.token = qbo'[r][e].token /\ qbo'[r][e].status # "Deleted"
              /\ \/ /\ Creates(w) /\ work[w].at = "create"
                    /\ e \notin DOMAIN qbo[r] /\ qbo'[r][e].status = "Live"
                 \/ Creates(w) /\ work[w].at = "query"
                 \/ /\ o.origin = "qbo" /\ work'[w].at = "insert"
                    /\ phase[w] = "events" /\ work[w].at = "fetch"
                    /\ notes[work[w].id].op = "created" /\ e = notes[work[w].id].ext
                    /\ r = notes[work[w].id].realm
<1> DEFINE t == work[w]
           s == work'[w]
           o == s.obj
           n == notes[t.id]
<1>1. ASSUME s.at = "insert"
      PROVE  \/ Links(w) /\ s = t
             \/ /\ UNCHANGED storeVars /\ phase[w] = "events" /\ t.at = "fetch"
                /\ o.company = n.realm /\ o.ext = n.ext /\ o.origin = "qbo"
                /\ o.token = qbo[n.realm][n.ext].token /\ UNCHANGED qbo
                /\ n.op = "created" /\ Readable(n.realm, n.ext)
  <2>1. CASE s = t
    BY <1>1, <2>1 DEF Links
  <2>2. CASE Free(s)
    BY <1>1, <2>2 DEF Free
  <2>3. CASE StartsJob(w) \/ StartsEvent(w)
    <3>1. s.at # "insert"
      BY <2>3, StartedJob, StartedEventRow DEF JobShape
    <3> QED BY <1>1, <3>1
  <2>4. CASE UNCHANGED storeVars /\ GoesOn(w)
    <3>1. ~Sends(w)
      BY <1>1, WorkType DEF Sends, Marks, Takes, Calls
    <3>2. Reads(w) /\ ~Free(t)
      BY <1>1, <2>4, <3>1 DEF GoesOn, Marks, Free, Calls
    <3>3. /\ t.at = "fetch" /\ UNCHANGED qbo
          /\ n.op = "created" /\ Readable(n.realm, n.ext)
          /\ Takes(w, "insert",
                   [company |-> n.realm, origin |-> "qbo", status |-> "Created",
                    deleted |-> FALSE, content |-> qbo[n.realm][n.ext].content,
                    ext |-> n.ext, token |-> qbo[n.realm][n.ext].token,
                    sync |-> "complete"])
      BY <1>1, <3>2 DEF Reads, Marks
    <3>4. phase[w] = "events"
      BY <3>3 DEF QueueInvariant, WorksOnItsBatch
    <3> QED BY <2>4, <3>3, <3>4 DEF Takes
  <2>5. ~Fails(w)
    BY <1>1 DEF Fails, Marks
  <2> QED BY <2>1, <2>2, <2>3, <2>4, <2>5, NextTask DEF TaskMoves
<1>2. ASSUME Creates(w)', s.at = "write"
      PROVE  \/ Links(w) /\ s = t
             \/ UNCHANGED storeVars /\ Creates(w) /\ t.at \in {"query", "create"} /\ Sends(w)
  <2>1. Creates(w)
    BY <1>2, CreatesBack
  <2>2. CASE s = t
    BY <1>2, <2>1, <2>2 DEF Links
  <2>3. CASE Free(s)
    BY <1>2, <2>3 DEF Free
  <2>4. CASE StartsJob(w) \/ StartsEvent(w)
    BY <2>1, <2>4 DEF StartsJob, StartsEvent, Creates
  <2>5. CASE UNCHANGED storeVars /\ GoesOn(w)
    BY <1>2, <2>2, <2>5, CreatesBack DEF StartsJob, Creates
  <2>6. ~Fails(w)
    BY <1>2 DEF Fails, Marks
  <2> QED BY <2>2, <2>3, <2>4, <2>5, <2>6, NextTask DEF TaskMoves
<1>3. ASSUME Creates(w), t.at = "create", Sends(w), s.at = "write"
      PROVE  /\ o.company \in Realms /\ o.ext \in DOMAIN qbo'[o.company] /\ o.ext # NoLink
             /\ o.token = qbo'[o.company][o.ext].token
             /\ qbo'[o.company][o.ext].status = "Live" /\ o.ext \notin DOMAIN qbo[o.company]
  <2>1. PICK r : r = t.obj.company
    OBVIOUS
  <2>2. PICK e : e = Len(qbo[r]) + 1
    OBVIOUS
  <2>3. PostCreate(w) /\ o = Linked(t.obj, e, 0)
    BY <1>3, <2>1, <2>2 DEF Sends, Marks, Takes
  <2>4. PICK sent : Insert(r, sent, t.inv, TRUE) /\ r \in Realms
    BY <2>1, <2>3, Typed DEF PostCreate
  <2>5. /\ e \in DOMAIN qbo'[r] /\ e \in Nat \ {0} /\ e \notin DOMAIN qbo[r]
        /\ qbo'[r][e].status = "Live" /\ qbo'[r][e].token = 0
    BY <2>2, <2>4, InsertDocs
  <2>6. o.company = r /\ o.ext = e /\ o.token = 0
    BY <2>1, <2>3, WorkType DEF Linked, Row
  <2> QED BY <2>4, <2>5, <2>6 DEF NoLink
<1>4. ASSUME Creates(w), t.at = "query", Sends(w), s.at = "write"
      PROVE  /\ o.company \in Realms /\ o.ext \in DOMAIN qbo'[o.company] /\ o.ext # NoLink
             /\ o.token = qbo'[o.company][o.ext].token
             /\ qbo'[o.company][o.ext].status # "Deleted"
  <2>1. PICK r : r = t.obj.company
    OBVIOUS
  <2>2. UNCHANGED qbo /\ \E d \in WithDocNumber(r, t.inv) :
                            s.obj = Linked(t.obj, d, qbo[r][d].token)
    BY <1>4, <2>1 DEF Sends, Marks, Takes
  <2>3. PICK d \in DOMAIN qbo[r] :
          s.obj = Linked(t.obj, d, qbo[r][d].token) /\ qbo[r][d].status # "Deleted"
    BY <2>2 DEF WithDocNumber
  <2>4. o.company = r /\ o.ext = d /\ o.token = qbo[r][d].token /\ r \in Realms
    BY <2>1, <2>3, Typed DEF Linked, Row
  <2>5. d # 0
    BY <2>4, LenProperties DEF QueueInvariant, TypeOK, QuickBooksTypeOK
  <2> QED BY <2>2, <2>3, <2>4, <2>5 DEF NoLink
<1>5. ASSUME n.op = "created", Readable(n.realm, n.ext), phase[w] = "events", t.at = "fetch"
      PROVE  n.realm \in Realms /\ n.ext # NoLink
  <2>1. t.id \in DOMAIN notes
    BY <1>5, AtWork DEF Free
  <2> QED BY <2>1, Typed DEF Note, NoLink
<1>6. s.at = "insert" \/ (Creates(w)' /\ s.at = "write")
  BY DEF Links
<1> HIDE DEF t, s, o, n
<1>7. CASE s.at = "insert"
  BY <1>1, <1>5, <1>7 DEF Readable, t, s, o, n
<1>8. CASE Creates(w)' /\ s.at = "write"
  BY <1>2, <1>3, <1>4, <1>8 DEF t, s, o
<1> QED BY <1>6, <1>7, <1>8

(* What the arguments below build on, with one worker.                      *)
SoloInvariant ==
  /\ QueueInvariant /\ SessionInvariant /\ LinkInvariant /\ PendingInvariant
  /\ TokenInvariant /\ ContentInvariant /\ LinksKnown

(* QuickBooks forgets no invoice.                                           *)
LEMMA KnownStays ==
  ASSUME QueueInvariant, [Next]_vars
  PROVE  /\ \A r \in Realms : DOMAIN qbo[r] \subseteq DOMAIN qbo'[r]
         /\ \A r \in Realms : \A e : OnlyIn(r, e)' => OnlyIn(r, e)
<1>1. \A r \in Realms : DOMAIN qbo[r] \subseteq DOMAIN qbo'[r]
  BY TokensGrow
<1> QED BY <1>1 DEF OnlyIn

(* No link leads nowhere.                                                   *)
LEMMA NextLinksKnown ==
  ASSUME SoloInvariant, [Next]_vars PROVE LinksKnown'
<1> USE DEF SoloInvariant
<1>1. ASSUME NEW i \in DOMAIN invoices', invoices'[i].ext # NoLink
      PROVE  invoices'[i].ext \in DOMAIN qbo'[invoices'[i].company]
  <2>1. CASE i \notin DOMAIN invoices \/ ~HasLink(i)
    <3>1. PICK w \in Workers : RowLinked(w, i)
      BY <1>1, <2>1, LinkedRow
    <3>2. Known(work[w].obj) /\ UNCHANGED qbo
      BY <3>1 DEF RowLinked, LinksKnown, qboVars
    <3> QED BY <3>1, <3>2 DEF RowLinked, Known
  <2>2. CASE i \in DOMAIN invoices /\ HasLink(i)
    <3>1. invoices'[i].ext = invoices[i].ext /\ invoices'[i].company = invoices[i].company
          /\ invoices[i].company \in Realms
      BY <2>2, Typed, LinksOnlyUnlinked, NextOwnersKeep DEF LinksStay, OwnersKeep
    <3> QED BY <2>2, <3>1, KnownStays DEF LinksKnown, Known
  <2> QED BY <2>1, <2>2
<1>2. ASSUME NEW w \in Workers, Links(w)'
      PROVE  work'[w].obj.ext \in DOMAIN qbo'[work'[w].obj.company]
  <2>1. CASE Links(w) /\ work'[w] = work[w]
    BY <2>1, KnownStays, Typed DEF LinksKnown, Known
  <2>2. CASE ~(Links(w) /\ work'[w] = work[w])
    BY <1>2, <2>2, LinksBack
  <2> QED BY <2>1, <2>2
<1> QED BY <1>1, <1>2 DEF LinksKnown, Known, HasLink

(* At the start nothing is there to lack anything.                          *)
LEMMA InitSolo == Init => SoloInvariant /\ \A op : Told(op)
<1> SUFFICES ASSUME Init PROVE SoloInvariant /\ \A op : Told(op)
  OBVIOUS
<1>1. /\ QueueInvariant /\ SessionInvariant /\ LinkInvariant /\ PendingInvariant
      /\ TokenInvariant
  BY InitInvariant, InitSessions, InitLinks, InitPending, InitTokens
<1>2. DOMAIN invoices = {} /\ DOMAIN notes = {} /\ \A w \in Workers : work[w] = Idle
  BY DEF Init, StoreInit, QuickBooksInit, WorkerInit
<1>3. ContentInvariant
  BY <1>2 DEF ContentInvariant, NotesAreTrue, TaskSays, Idle, Free
<1>4. \A w \in Workers : ~Links(w)
  BY <1>2 DEF Links, Idle
<1>5. LinksKnown /\ \A op : Told(op)
  BY <1>2, <1>4 DEF LinksKnown, Told
<1> QED BY <1>1, <1>3, <1>5 DEF SoloInvariant

(* Every step keeps them.                                                   *)
LEMMA NextSolo ==
  ASSUME SoloInvariant, [Next]_vars, NEW solo, Workers = {solo} PROVE SoloInvariant'
<1> USE DEF SoloInvariant
<1>1. QueueInvariant' /\ SessionInvariant' /\ LinkInvariant' /\ PendingInvariant'
  BY NextInvariant, NextSessions, NextLinkInvariant, NextPending
<1>2. TokenInvariant' /\ NotesAreTrue' /\ TaskSays(solo)'
  BY NextRowsReached, NextTaskReached, NextNotesAreTrue, NextTaskSays
     DEF TokenInvariant, ContentInvariant
<1>3. ContentInvariant'
  BY <1>2 DEF ContentInvariant
<1> QED BY <1>1, <1>2, <1>3, NextLinksKnown

(* What a row lacks stays announced, as long as no second try of a create   *)
(* passes a void by.                                                        *)
LEMMA NextTold ==
  ASSUME SoloInvariant, [Next]_vars, NEW solo, Workers = {solo}, NEW op \in Tellable,
         Told(op), op = "voided" => work[solo].at # "query"
  PROVE  Told(op)'
<1> USE DEF SoloInvariant
<1>1. ASSUME NEW i \in DOMAIN invoices', invoices'[i].ext # NoLink, Sole(i)',
             ~Excused(op, i)', Concerns(op, invoices[i])', Lacks(op, invoices[i])'
      PROVE  Waits(op, invoices[i].company, invoices[i].ext)'
  <2>1. CASE i \notin DOMAIN invoices \/ ~HasLink(i)
    <3>1. RowLinked(solo, i)
      BY <1>1, <2>1, LinkedRow
    <3>2. PICK o : o = work[solo].obj
      OBVIOUS
    <3>3. o.company \in Realms
      BY <3>2, Typed
    <3>4. /\ invoices'[i].ext = o.ext /\ invoices'[i].company = o.company
          /\ invoices'[i].origin = o.origin /\ invoices'[i].token = o.token
          /\ Links(solo) /\ UNCHANGED qbo
      BY <3>1, <3>2 DEF RowLinked, qboVars
    <3>5. Misses(op, o)
      BY <1>1, <3>4 DEF Lacks, Misses
    <3>6. Concerns(op, o)
      BY <1>1, <3>4 DEF Concerns, OnlyIn
    <3>7. Waits(op, o.company, o.ext)
      BY <3>2, <3>4, <3>5, <3>6 DEF Told
    <3>8. Waits(op, o.company, o.ext)'
      <4>1. PICK r : r = o.company
        OBVIOUS
      <4>2. PICK e : e = o.ext
        OBVIOUS
      <4>3. Waits(op, r, e)'
        BY <3>4, <3>7, <4>1, <4>2, WaitsThroughLink
      <4> QED BY <3>2, <3>4, <4>1, <4>2, <4>3 DEF Waits
    <3> QED BY <3>4, <3>8 DEF Waits
  <2>2. CASE i \in DOMAIN invoices /\ HasLink(i)
    <3> DEFINE row == invoices[i]
    <3>1. /\ invoices'[i].ext = row.ext /\ invoices'[i].company = row.company
          /\ invoices'[i].origin = row.origin /\ row.company \in Realms
      BY <2>2, Typed, LinksOnlyUnlinked, NextOwnersKeep DEF LinksStay, OwnersKeep
    <3>2. Sole(i)
      <4>1. ASSUME NEW k \in DOMAIN invoices, invoices[k].ext = row.ext PROVE k = i
        <5>1. k \in DOMAIN invoices' /\ invoices'[k].ext = row.ext
          BY <2>2, <4>1, LinksOnlyUnlinked, NextOwnersKeep DEF LinksStay, OwnersKeep, HasLink
        <5> QED BY <1>1, <3>1, <5>1 DEF Sole, Lookup
      <4> QED BY <2>2, <4>1 DEF Sole, Lookup
    <3>3. Concerns(op, row)
      BY <1>1, <3>1, KnownStays DEF Concerns
    <3>4. PICK r : r = row.company
      OBVIOUS
    <3>5. PICK e : e = row.ext
      OBVIOUS
    <3>6. e \in DOMAIN qbo[r] /\ r \in Realms
      BY <2>2, <3>1, <3>4, <3>5 DEF LinksKnown, Known
    <3>7. Waits(op, r, e)'
      <4>1. CASE qbo'[r][e] # qbo[r][e]
        <5>1. Tells(op, qbo'[r][e].status)
          BY <1>1, <3>1, <3>4, <3>5 DEF Lacks, Misses, Tells
        <5> QED BY <3>6, <4>1, <5>1, ChangeIsTold
      <4>2. CASE qbo'[r][e] = qbo[r][e]
        <5>1. Counterpart(i)' = Counterpart(i)
          BY <3>1, <3>4, <3>5, <4>2 DEF Counterpart
        <5>2. Lacks(op, row)
          BY <1>1, <2>2, <3>3, <5>1, LackedBefore DEF NoNamesake, Concerns
        <5>3. Waits(op, row.company, row.ext)
          BY <1>1, <2>2, <3>2, <3>3, <5>2, GivenStays DEF Told, Excused
        <5>4. NotesAreTrue
          BY DEF ContentInvariant
        <5>5. Waits(op, invoices[i].company, invoices[i].ext)'
          BY <1>1, <2>2, <3>1, <3>2, <5>1, <5>2, <5>3, <5>4, WaitsOn
        <5> QED BY <3>1, <3>4, <3>5, <5>5 DEF Waits
      <4> QED BY <4>1, <4>2
    <3> QED BY <3>1, <3>4, <3>5, <3>7 DEF Waits
  <2> QED BY <2>1, <2>2
<1>2. ASSUME Links(solo)', Concerns(op, work[solo].obj)', Misses(op, work[solo].obj)'
      PROVE  Waits(op, work[solo].obj.company, work[solo].obj.ext)'
  <2>1. PICK o : o = work'[solo].obj
    OBVIOUS
  <2>2. PICK r : r = o.company
    OBVIOUS
  <2>3. PICK e : e = o.ext
    OBVIOUS
  <2>4. Waits(op, r, e)'
    <3>1. CASE Links(solo) /\ work'[solo] = work[solo]
      <4>1. r \in Realms /\ e \in DOMAIN qbo[r]
        BY <2>1, <2>2, <2>3, <3>1, Typed DEF LinksKnown, Known
      <4>2. CASE qbo'[r][e] # qbo[r][e]
        <5>1. Tells(op, qbo'[r][e].status)
          BY <1>2, <2>1, <2>2, <2>3 DEF Misses, Tells
        <5> QED BY <4>1, <4>2, <5>1, ChangeIsTold
      <4>3. CASE qbo'[r][e] = qbo[r][e]
        <5>1. Misses(op, work[solo].obj)
          BY <1>2, <2>1, <2>2, <2>3, <3>1, <4>3 DEF Misses
        <5>2. Concerns(op, work[solo].obj)
          BY <1>2, <3>1, <4>1, <2>1, <2>2, KnownStays DEF Concerns
        <5>3. Waits(op, r, e)
          BY <2>1, <2>2, <2>3, <3>1, <5>1, <5>2 DEF Told
        <5> QED BY <3>1, <5>3, WaitsThroughLink
      <4> QED BY <4>2, <4>3
    <3>2. CASE ~(Links(solo) /\ work'[solo] = work[solo])
      <4>1. /\ r \in Realms /\ e \in DOMAIN qbo'[r]
            /\ o.token = qbo'[r][e].token /\ qbo'[r][e].status # "Deleted"
            /\ qbo'[r][e].status = "Live" \/ work[solo].at = "query" \/ o.origin = "qbo"
        BY <1>2, <2>1, <2>2, <2>3, <3>2, LinksBack
      <4>2. qbo'[r][e].token \in Nat
        <5>1. QueueInvariant' /\ qbo' \in [Realms -> Seq(QboInvoice)]
          BY NextInvariant DEF QueueInvariant, TypeOK, QuickBooksTypeOK
        <5>2. qbo'[r][e] \in QboInvoice
          BY <4>1, <5>1, LenProperties
        <5> QED BY <5>2 DEF QboInvoice
      <4>3. CASE op = "deleted"
        BY <1>2, <2>1, <2>2, <2>3, <4>1, <4>3 DEF Misses
      <4>4. CASE op = "updated"
        BY <1>2, <2>1, <2>2, <2>3, <4>1, <4>2, <4>4 DEF Misses
      <4>5. CASE op = "voided"
        BY <1>2, <2>1, <2>2, <2>3, <4>1, <4>5 DEF Misses, Concerns
      <4> QED BY <4>3, <4>4, <4>5 DEF Tellable
    <3> QED BY <3>1, <3>2
  <2> QED BY <2>1, <2>2, <2>3, <2>4 DEF Waits
<1> QED BY <1>1, <1>2 DEF Told, HasLink

(* When everything is worked off, nothing waits to be told, and what has    *)
(* not been told has used up its attempts.                                  *)
LEMMA QuietHasHeard ==
  ASSUME QueueInvariant, Quiet, NEW op, NEW r, NEW e, Waits(op, r, e)
  PROVE  /\ faults # 0
         /\ \E n \in DOMAIN events :
              notes[n] = [realm |-> r, ext |-> e, op |-> op] /\ events[n].status = "failed"
<1>1. faults \in Nat
  BY Typed
<1> QED BY <1>1 DEF Quiet, Waits, Unheard, Dropped

(* With one worker, whatever calls are lost and whatever becomes of jobs    *)
(* and sessions that the delete crosses, once everything has been worked    *)
(* off what QuickBooks deleted is deleted here, unless the commit of its    *)
(* event failed as often as it was tried.                                   *)
THEOREM DeletesMirrored ==
  ASSUME NEW solo, Workers = {solo}
  PROVE  Spec => []DeleteMirrored
<1>1. Init => SoloInvariant /\ Told("deleted")
  BY InitSolo
<1>2. SoloInvariant /\ Told("deleted") /\ [Next]_vars => SoloInvariant' /\ Told("deleted")'
  BY NextSolo, NextTold DEF Tellable
<1>3. SoloInvariant /\ Told("deleted") => DeleteMirrored
  <2> SUFFICES ASSUME Told("deleted"), Quiet, NEW i \in DOMAIN invoices, HasLink(i), Sole(i),
                      Counterpart(i).status = "Deleted", ~invoices[i].deleted,
                      QueueInvariant
               PROVE  GaveUp(i, "deleted")
    BY DEF DeleteMirrored, SoloInvariant
  <2>1. Lacks("deleted", invoices[i]) /\ Concerns("deleted", invoices[i])
    BY DEF Lacks, Misses, Counterpart, Concerns
  <2>2. Waits("deleted", invoices[i].company, invoices[i].ext)
    BY <2>1 DEF Told, Excused
  <2> QED BY <2>2, QuietHasHeard DEF GaveUp
<1> QED BY <1>1, <1>2, <1>3, PTL DEF Spec
------------------------------------------------------------------------------
(* Without a lost call, a job only falters when QuickBooks refuses it.      *)
LEMMA FailsForAReason ==
  ASSUME QueueInvariant, [Next]_vars, faults' = faults, NEW w \in Workers,
         phase[w] = "jobs", work'[w].at \in {"reread", "repost", "raised", "conflict"}
  PROVE  work'[w] = work[w] \/ Rejected(w) \/ Reread(w)
<1> DEFINE Odd == {"reread", "repost", "raised", "conflict"}
<1>w. work \in [Workers -> Task] /\ work[w] \in Task
  BY WorkType DEF QueueInvariant, TypeOK, WorkerTypeOK
<1>1. faults + 1 # faults
  BY FaultsGrow
<1>2. \A task : Move(w, task) => work'[w] = task
  BY <1>w DEF Move
<1>3. ASSUME LoopStep(w) PROVE work'[w].at \notin Odd
  <2>1. ASSUME PollJobs(w) \/ PollEvents(w) PROVE work'[w].at \in {"claim", "idle"}
    BY <1>w, <2>1 DEF PollJobs, PollEvents, Select, Task
  <2>2. ASSUME ClaimJobs(w) \/ ClaimEvents(w) PROVE work'[w].at = "idle"
    BY <1>w, <2>2 DEF ClaimJobs, ClaimEvents, Task
  <2>3. ASSUME Finish(w) PROVE work'[w].at = "idle"
    BY <1>2, <2>3 DEF Finish, Idle
  <2> QED BY <1>3, <2>1, <2>2, <2>3 DEF LoopStep, CompleteJob, CompleteEvent, RetryJob,
          AbortJob, RetryEvent
<1>4. ASSUME ExecutorStep(w) PROVE work'[w].at \notin Odd \/ Rejected(w) \/ Reread(w)
  <2>1. ASSUME BeginJob(w) PROVE work'[w].at \notin Odd
    <3>1. PICK j \in batch[w] : work'[w].at = Entry(jobs[j], invoices[jobs[j].inv])
      BY <1>2, <2>1 DEF BeginJob
    <3>2. jobs[j] \in Job
      BY <2>1, LenProperties DEF BeginJob, QueueInvariant, TypeOK, StoreTypeOK,
         HoldsItsQueue, QueueOf
    <3> QED BY <3>1, <3>2 DEF Entry, Job
  <2>2. ASSUME NEW at \in {"write", "rewrite"}, NEW obj, Answered(w, at, obj)
        PROVE  work'[w].at \notin Odd
    <3>1. Move(w, [work[w] EXCEPT !.at = at, !.obj = obj])
      BY <1>1, <2>2 DEF Answered, NetworkFault
    <3> QED BY <2>2, <3>1, MovedTask DEF Takes
  <2>3. ASSUME PostCreate(w) \/ PostUpdate(w) \/ PostDeleteOrVoid(w)
        PROVE  work'[w].at \notin Odd
    <3>1. \E at \in {"write", "rewrite"} : \E obj : Answered(w, at, obj)
      BY <2>3 DEF PostCreate, PostUpdate, PostDeleteOrVoid
    <3> QED BY <2>2, <3>1
  <2>4. ASSUME QueryByDocNumber(w) PROVE work'[w].at \notin Odd
    <3>1. CASE Move(w, [work[w] EXCEPT !.at = "create"])
      BY <1>2, <1>w, <3>1 DEF Task
    <3>2. ASSUME NEW e, Move(w, [work[w] EXCEPT !.at = "write",
                   !.obj = Linked(@, e, qbo[work[w].obj.company][e].token)])
          PROVE  work'[w].at = "write"
      BY <1>2, <1>w, <3>2 DEF Task
    <3> QED BY <2>4, <3>1, <3>2 DEF QueryByDocNumber
  <2> QED BY <1>4, <2>1, <2>3, <2>4 DEF ExecutorStep
<1>5. ~HandlerStep(w)
  BY DEF HandlerStep, BeginEvent, Fetch, QueueInvariant, WorksOnItsBatch
<1>6. ~AttemptFails(w)
  BY <1>1 DEF AttemptFails, NetworkFault
<1>7. ASSUME Crash(w) \/ Restart(w) PROVE work'[w].at \notin Odd
  BY <1>2, <1>7 DEF Crash, Restart, Idle
<1>8. ASSUME NEW v \in Workers, v # w,
             LoopStep(v) \/ ExecutorStep(v) \/ HandlerStep(v) \/ AttemptFails(v)
               \/ Crash(v) \/ Restart(v)
      PROVE  work'[w] = work[w]
  BY <1>8, OthersStay
<1>9. ASSUME UNCHANGED workerVars PROVE work'[w] = work[w]
  BY <1>9 DEF workerVars
<1>10. ASSUME NEW v \in Workers, EndpointStep(v) PROVE UNCHANGED workerVars
  BY <1>10 DEF EndpointStep, StoreEvent, CheckStored
<1>11. ASSUME NEW n \in DOMAIN notes, RepeatUnidentified(n) PROVE UNCHANGED workerVars
  BY <1>11 DEF RepeatUnidentified
<1>12. ASSUME Wakes \/ UNCHANGED vars PROVE UNCHANGED workerVars
  BY <1>12 DEF Wakes, vars
<1>13. work'[w].at \in Odd
  OBVIOUS
<1> HIDE DEF Odd
<1> QED BY <1>3, <1>4, <1>5, <1>6, <1>7, <1>8, <1>9, <1>10, <1>11, <1>12, <1>13
        DEF Next, WorkerStep
------------------------------------------------------------------------------
(* Without a lost call no create is tried twice.                            *)
FirstTries ==
  /\ \A j \in DOMAIN jobs : jobs[j].op = "create" => jobs[j].attempts = 0
  /\ \A w \in Workers :
       AtHand(w, work[w].id) /\ jobs[work[w].id].op = "create" =>
         work[w].at \in {"create", "write"}

(* A create job never falters, so it is not tried again.                    *)
LEMMA NextFirstTries ==
  ASSUME SoloInvariant, FirstTries, [Next]_vars, faults' = faults,
         NEW solo, Workers = {solo}
  PROVE  FirstTries'
<1> USE DEF SoloInvariant
<1> DEFINE t == work[solo]
           s == work'[solo]
<1>1. ASSUME NEW j \in DOMAIN jobs', jobs'[j].op = "create" PROVE jobs'[j].attempts = 0
  <2>1. ASSUME j \in DOMAIN jobs, JobSteps(j) PROVE jobs'[j].attempts = 0
    <3>1. jobs[j] \in Job /\ jobs[j].op = "create" /\ jobs[j].attempts = 0
      BY <1>1, <2>1, NextJobsKeep, LenProperties
         DEF JobsKeep, FirstTries, QueueInvariant, TypeOK, StoreTypeOK
    <3>2. ~(AtHand(solo, j) /\ (RetryJob(solo) \/ AbortJob(solo)))
      BY <3>1 DEF AtHand, FirstTries, RetryJob, AbortJob
    <3>3. \/ jobs'[j] = jobs[j] \/ jobs'[j] = [jobs[j] EXCEPT !.due = TRUE]
          \/ \E status \in QueueStates : jobs'[j] = [jobs[j] EXCEPT !.status = status]
      BY <2>1, <3>2 DEF JobSteps, QueueStates
    <3> QED BY <3>1, <3>3 DEF Job
  <2>2. j \in DOMAIN jobs \/ jobs'[j].attempts = 0
    <3>1. ASSUME NEW i, NEW op, NewJob(i, op) PROVE j \in DOMAIN jobs \/ jobs'[j].attempts = 0
      <4>1. DOMAIN jobs = 1 .. Len(jobs) /\ Len(jobs) \in Nat
        BY LenProperties DEF QueueInvariant, TypeOK, StoreTypeOK
      <4>2. j \in DOMAIN jobs \/ j = Len(jobs) + 1
        BY <3>1, <4>1 DEF NewJob
      <4> QED BY <3>1, <4>2 DEF NewJob
    <3> QED BY <3>1, NextJobs DEF JobsStep
  <2>3. ASSUME j \in DOMAIN jobs PROVE JobSteps(j) \/ jobs'[j] = jobs[j]
    BY <2>3, NextJobs DEF JobsStep, NewJob
  <2> QED BY <1>1, <2>1, <2>2, <2>3 DEF FirstTries
<1>2. ASSUME phase'[solo] = "jobs", ~Free(s), jobs'[s.id].op = "create"
      PROVE  s.at \in {"create", "write"}
  <2>1. phase'[solo] = "jobs" /\ ~Free(s)
    BY <1>2
  <2>2. ASSUME ~Free(t), phase[solo] = "jobs", s.id = t.id
        PROVE  t.id \in DOMAIN jobs /\ jobs[t.id].op = "create" /\ t.at \in {"create", "write"}
    <3>1. t.id \in DOMAIN jobs
      BY <2>2, AtWork
    <3>2. jobs[t.id].op = "create"
      BY <1>2, <2>2, <3>1, NextJobsKeep DEF JobsKeep
    <3> QED BY <2>2, <3>1, <3>2 DEF FirstTries, AtHand
  <2>3. CASE s = t /\ phase'[solo] = phase[solo]
    BY <2>1, <2>2, <2>3
  <2>4. CASE StartsJob(solo) /\ UNCHANGED storeVars
    <3>1. /\ s.id \in DOMAIN jobs /\ s.at = Entry(jobs[s.id], s.loaded)
      BY <2>4, StartedJob
    <3>2. jobs[s.id].op = "create" /\ jobs[s.id].attempts = 0
      BY <1>2, <2>4, <3>1 DEF FirstTries, storeVars
    <3>3. s.at # "skip"
      BY <2>1, NextPending DEF PendingInvariant, NoneSkips
    <3> HIDE DEF s
    <3> QED BY <3>1, <3>2, <3>3 DEF Entry
  <2>5. CASE StartsEvent(solo) /\ phase'[solo] = phase[solo]
    BY <2>1, <2>5 DEF StartsEvent
  <2>6. CASE GoesOn(solo)
    <3>1. t.at \in Calls /\ phase[solo] = "jobs" /\ ~Free(t)
      BY <2>1, <2>6 DEF GoesOn, Free, Calls
    <3>2. t.at # "fetch"
      BY <3>1 DEF QueueInvariant, WorksOnItsBatch
    <3>3. Sends(solo) \/ \E at \in {"raised", "conflict"} : Marks(solo, at)
      BY <2>6, <3>2 DEF GoesOn, Reads
    <3>4. s.id = t.id
      BY <3>3, SendsKeep DEF Marks
    <3>5. t.at = "create"
      BY <2>2, <3>1, <3>4 DEF Calls
    <3>6. ~Rejected(solo) /\ ~Reread(solo)
      BY <3>5 DEF Rejected, Reread
    <3>7. s.at \notin {"raised", "conflict"}
      <4> SUFFICES ASSUME s.at \in {"raised", "conflict"} PROVE FALSE
        OBVIOUS
      <4>1. s = t
        BY <3>1, <3>6, FailsForAReason
      <4> QED BY <3>5, <4>1
    <3> QED BY <3>3, <3>5, <3>7 DEF Sends, Takes, Marks
  <2>7. CASE Fails(solo)
    <3>1. t.at \in CommitPoints /\ s.at = "raised" /\ phase[solo] = "jobs"
      BY <2>1, <2>7 DEF Fails, Marks
    <3>2. s # t /\ ~Rejected(solo) /\ ~Reread(solo)
      BY <3>1 DEF CommitPoints, Rejected, Reread
    <3> QED BY <3>1, <3>2, FailsForAReason
  <2> HIDE DEF s, t
  <2> QED BY <2>1, <2>3, <2>4, <2>5, <2>6, <2>7, NextTask DEF TaskMoves, s, t
<1> QED BY <1>1, <1>2 DEF FirstTries, AtHand

(* Without a lost call no two rows of a company are linked to one invoice.  *)
OneRow ==
  /\ \A i, k \in DOMAIN invoices :
       /\ HasLink(i) /\ invoices[i].ext = invoices[k].ext
       /\ invoices[i].company = invoices[k].company
       => i = k
  /\ \A w \in Workers : LET o == work[w].obj IN
       Creates(w) /\ work[w].at = "write" =>
         \A i \in DOMAIN invoices : ~(invoices[i].company = o.company /\ invoices[i].ext = o.ext)
  /\ \A w \in Workers : LET n == notes[work[w].id] IN
       phase[w] = "events" /\ work[w].at \in {"fetch", "insert"} /\ n.op = "created" =>
         Lookup(n.ext) = {}

(* As long as a worker is at work, no row is linked.                        *)
LEMMA LinksRest ==
  ASSUME SoloInvariant, [Next]_vars, NEW solo, Workers = {solo}, ~Free(work'[solo]),
         NEW i \in DOMAIN invoices', invoices'[i].ext # NoLink
  PROVE  /\ i \in DOMAIN invoices /\ HasLink(i)
         /\ invoices'[i].ext = invoices[i].ext /\ invoices'[i].company = invoices[i].company
<1> USE DEF SoloInvariant
<1>1. i \in DOMAIN invoices /\ HasLink(i)
  BY LinkedRow DEF RowLinked
<1> QED BY <1>1, LinksOnlyUnlinked, NextOwnersKeep DEF LinksStay, OwnersKeep

(* A link is set to what is new, or to what no row was found to have.       *)
LEMMA NextOneRow ==
  ASSUME SoloInvariant, FirstTries, OneRow, [Next]_vars, NEW solo, Workers = {solo}
  PROVE  OneRow'
<1> USE DEF SoloInvariant
<1>1. ASSUME NEW i \in DOMAIN invoices', NEW k \in DOMAIN invoices',
             invoices'[i].ext # NoLink, invoices'[i].ext = invoices'[k].ext,
             invoices'[i].company = invoices'[k].company
      PROVE  i = k
  <2>1. ASSUME NEW j \in DOMAIN invoices', invoices'[j].ext # NoLink,
               j \notin DOMAIN invoices \/ ~HasLink(j)
        PROVE  RowLinked(solo, j)
    BY <2>1, LinkedRow
  <2>2. ASSUME NEW j \in DOMAIN invoices, HasLink(j)
        PROVE  invoices'[j].ext = invoices[j].ext /\ invoices'[j].company = invoices[j].company
    BY <2>2, LinksOnlyUnlinked, NextOwnersKeep DEF LinksStay, OwnersKeep
  <2>3. ASSUME NEW j \in DOMAIN invoices', RowLinked(solo, j), NEW m \in DOMAIN invoices,
               HasLink(m), invoices'[m].ext = invoices'[j].ext,
               invoices'[m].company = invoices'[j].company
        PROVE  FALSE
    <3>1. /\ invoices[m].ext = work[solo].obj.ext
          /\ invoices[m].company = work[solo].obj.company
      BY <2>2, <2>3 DEF RowLinked
    <3>2. work[solo].at = "insert"
      BY <2>3, <3>1 DEF RowLinked, Links, OneRow
    <3>3. phase[solo] = "events" /\ EventShape(work[solo], notes[work[solo].id])
      BY <3>2, Typed DEF SessionInvariant, Shaped, Free, JobShape
    <3>4. notes[work[solo].id].op = "created" /\ work[solo].obj.ext = notes[work[solo].id].ext
      BY <3>2, <3>3 DEF EventShape
    <3>5. Lookup(work[solo].obj.ext) = {}
      BY <3>2, <3>3, <3>4 DEF OneRow
    <3> QED BY <3>1, <3>5 DEF Lookup
  <2>4. CASE i \in DOMAIN invoices /\ HasLink(i) /\ k \in DOMAIN invoices /\ HasLink(k)
    BY <1>1, <2>2, <2>4 DEF OneRow
  <2>5. CASE RowLinked(solo, i) /\ RowLinked(solo, k)
    BY <2>5 DEF RowLinked
  <2> QED BY <1>1, <2>1, <2>3, <2>4, <2>5
<1>2. ASSUME Creates(solo)', work'[solo].at = "write", NEW i \in DOMAIN invoices',
             invoices'[i].company = work'[solo].obj.company,
             invoices'[i].ext = work'[solo].obj.ext
      PROVE  FALSE
  <2>1. Links(solo)' /\ ~Free(work'[solo])
    BY <1>2 DEF Links, Free
  <2>2. work'[solo].obj.ext # NoLink
    BY <2>1, <1>2, NextSolo DEF TokenInvariant, TaskReached
  <2>3. /\ i \in DOMAIN invoices /\ HasLink(i)
        /\ invoices[i].ext = work'[solo].obj.ext
        /\ invoices[i].company = work'[solo].obj.company
    BY <1>2, <2>1, <2>2, LinksRest
  <2>4. CASE Links(solo) /\ work'[solo] = work[solo]
    <3>1. Creates(solo)
      BY <1>2, <2>4 DEF Links
    <3> QED BY <1>2, <2>3, <2>4, <3>1 DEF OneRow
  <2>5. CASE ~(Links(solo) /\ work'[solo] = work[solo])
    <3>1. ~(Creates(solo) /\ work[solo].at = "query")
      BY DEF FirstTries, Creates, AtHand, Free
    <3>2. work'[solo].obj.ext \notin DOMAIN qbo[work'[solo].obj.company]
      BY <1>2, <2>1, <2>5, <3>1, LinksBack
    <3> QED BY <2>3, <3>2 DEF LinksKnown, Known
  <2> QED BY <2>4, <2>5
<1>3. ASSUME phase'[solo] = "events", work'[solo].at \in {"fetch", "insert"},
             notes'[work'[solo].id].op = "created"
      PROVE  Lookup(notes[work[solo].id].ext)' = {}
  <2> DEFINE t == work[solo]
             s == work'[solo]
  <2>1. ~Free(s)
    BY <1>3 DEF Free
  <2>2. ASSUME s.id \in DOMAIN notes, Lookup(notes[s.id].ext) = {}
        PROVE  Lookup(notes[work[solo].id].ext)' = {}
    <3>1. notes'[s.id] = notes[s.id] /\ notes[s.id].ext # NoLink
      BY <2>2, NextNotesLast, Typed DEF NotesLast, Note, NoLink
    <3>2. ASSUME NEW i \in DOMAIN invoices', invoices'[i].ext = notes[s.id].ext PROVE FALSE
      <4>1. i \in DOMAIN invoices /\ invoices[i].ext = notes[s.id].ext
        BY <2>1, <3>1, <3>2, LinksRest
      <4> QED BY <2>2, <4>1 DEF Lookup
    <3> QED BY <3>1, <3>2 DEF Lookup
  <2>3. ASSUME s.id = t.id, phase[solo] = "events", t.at \in {"fetch", "insert"}
        PROVE  s.id \in DOMAIN notes /\ Lookup(notes[s.id].ext) = {}
    <3>1. t.id \in DOMAIN notes
      BY <2>3, AtWork DEF Free
    <3>2. notes[t.id].op = "created"
      BY <1>3, <2>3, <3>1, NextNotesLast DEF NotesLast
    <3> QED BY <2>3, <3>1, <3>2 DEF OneRow
  <2>4. CASE s = t /\ phase'[solo] = phase[solo]
    BY <1>3, <2>2, <2>3, <2>4
  <2>5. CASE StartsJob(solo) /\ phase'[solo] = phase[solo]
    BY <1>3, <2>5 DEF StartsJob
  <2>6. CASE StartsEvent(solo)
    <3>1. PICK e \in batch[solo] :
             \/ \E at \in {"skip", "raised"} : s = Begun(e, 0, at, Blank)
             \/ /\ notes[e].op = "created" /\ Lookup(notes[e].ext) = {}
                /\ s = Begun(e, 0, "fetch", Blank)
             \/ \E i \in DOMAIN invoices : Finds(solo, e, i)
      BY <2>6 DEF StartsEvent
    <3>2. e \in DOMAIN notes
      BY <2>6 DEF StartsEvent, QueueInvariant, HoldsItsQueue, QueueOf, TypeOK, QuickBooksTypeOK
    <3>3. notes'[e] = notes[e]
      BY <3>2, NextNotesLast DEF NotesLast
    <3>4. \A at : Begun(e, 0, at, Blank).at = at /\ Begun(e, 0, at, Blank).id = e
      BY DEF Begun
    <3>5. \A i \in DOMAIN invoices : ~Finds(solo, e, i)
      BY <1>3, <3>3 DEF Finds
    <3>6. s.id = e /\ Lookup(notes[e].ext) = {}
      BY <1>3, <3>1, <3>4, <3>5
    <3> QED BY <2>2, <3>2, <3>6
  <2>7. CASE GoesOn(solo) /\ ~(s = t /\ phase'[solo] = phase[solo])
    <3>1. phase[solo] = "events" /\ t.at \in Calls
      BY <1>3, <2>7 DEF GoesOn
    <3>2. EventShape(t, notes[t.id])
      BY <3>1 DEF SessionInvariant, Shaped, Free, Calls
    <3>3. t.at = "fetch"
      BY <3>1, <3>2 DEF EventShape, Calls
    <3>4. s.id = t.id
      BY <2>7, SendsKeep DEF GoesOn, Reads, Marks, Takes
    <3> QED BY <2>2, <2>3, <3>1, <3>3, <3>4
  <2>8. ~Fails(solo)
    BY <1>3 DEF Fails, Marks
  <2> HIDE DEF s, t
  <2> QED BY <2>1, <2>4, <2>5, <2>6, <2>7, <2>8, NextTask DEF TaskMoves, s, t
<1> QED BY <1>1, <1>2, <1>3 DEF OneRow, HasLink

(* So the handler finds a linked row without a namesake by its id.          *)
LEMMA OnlyIsSole ==
  ASSUME SoloInvariant, OneRow, NEW i \in DOMAIN invoices, HasLink(i), NoNamesake(i)
  PROVE  Sole(i)
<1>1. ASSUME NEW k \in DOMAIN invoices, invoices[k].ext = invoices[i].ext PROVE k = i
  <2>1. invoices[k].ext \in DOMAIN qbo[invoices[k].company] /\ invoices[k].company \in Realms
    BY <1>1, Typed DEF SoloInvariant, LinksKnown, Known, HasLink
  <2>2. invoices[k].company = invoices[i].company
    BY <1>1, <2>1 DEF NoNamesake, OnlyIn
  <2> QED BY <1>1, <2>2 DEF OneRow
<1> QED BY <1>1 DEF Sole, Lookup
------------------------------------------------------------------------------
(* QuickBooks' invoice has gone on, or cannot be changed any more.          *)
Behind(row) ==
  OnlyIn(row.company, row.ext) =>
    LET q == qbo[row.company][row.ext] IN q.status # "Live" \/ row.token < q.token

(* Without a lost call, a job that QuickBooks refuses was behind.           *)
FailsBehind ==
  \A w \in Workers : LET t == work[w] IN
    /\ phase[w] = "jobs" /\ t.loaded.ext # NoLink
    /\ t.at \in {"reread", "repost", "raised", "conflict"}
    => Behind(t.loaded)

(* What is behind stays behind.                                             *)
LEMMA BehindStays ==
  ASSUME QueueInvariant, [Next]_vars, NEW row, row.company \in Realms, Known(row),
         row.token \in Tokens, Behind(row)
  PROVE  Behind(row)'
<1> DEFINE q == qbo[row.company][row.ext]
           p == qbo'[row.company][row.ext]
<1>1. /\ q.token \in Nat /\ p.token \in Nat /\ q.token <= p.token
      /\ q.status # "Live" => p.status # "Live"
  BY TokensGrow DEF Known
<1>2. row.token \in Int
  BY DEF Tokens, NoToken
<1>3. OnlyIn(row.company, row.ext)' => OnlyIn(row.company, row.ext)
  BY KnownStays
<1>4. ASSUME OnlyIn(row.company, row.ext) PROVE p.status # "Live" \/ row.token < p.token
  <2>1. q.status # "Live" \/ row.token < q.token
    BY <1>4 DEF Behind
  <2> HIDE DEF q, p
  <2> QED BY <1>1, <1>2, <2>1
<1> QED BY <1>3, <1>4 DEF Behind

(* A job's session has the link and the token of the row, which QuickBooks  *)
(* knows.                                                                   *)
LEMMA LoadedRow ==
  ASSUME SoloInvariant, NEW w \in Workers, ~Free(work[w]), phase[w] = "jobs"
  PROVE  LET t == work[w]  l == t.loaded IN
           /\ t.inv \in DOMAIN invoices /\ t.inv # 0 /\ t.inv = jobs[t.id].inv
           /\ l.company = invoices[t.inv].company /\ l.ext = invoices[t.inv].ext
           /\ l.token = invoices[t.inv].token
           /\ l.company \in Realms /\ l.token \in Tokens /\ JobShape(t, jobs[t.id].op)
           /\ l.ext # NoLink => Known(l) /\ Reached(l.company, l.ext, l.token)
<1> USE DEF SoloInvariant
<1> DEFINE t == work[w]
           l == t.loaded
<1>1. t.inv = jobs[t.id].inv /\ t.id \in DOMAIN jobs /\ JobShape(t, jobs[t.id].op)
      /\ (t.inv # 0 => SameOwner(t.inv, l))
  BY AtWork DEF SessionInvariant, Shaped
<1>2. t.inv \in DOMAIN invoices
  BY <1>1 DEF QueueInvariant, TypeOK, StoreTypeOK
<1>3. t.inv # 0 /\ invoices[t.inv].company \in Realms /\ invoices[t.inv].token \in Tokens
  BY <1>2, Typed
<1>4. l.token = invoices[t.inv].token /\ l.ext = invoices[t.inv].ext
  BY <1>3 DEF TokenInvariant, TaskReached, HasRow
<1>5. l.company = invoices[t.inv].company
  BY <1>1, <1>3 DEF SameOwner
<1>6. l.ext # NoLink => Known(l) /\ Reached(l.company, l.ext, l.token)
  BY <1>2, <1>4, <1>5 DEF LinksKnown, HasLink, Known, TokenInvariant, RowsReached
<1> QED BY <1>1, <1>2, <1>3, <1>4, <1>5, <1>6

(* QuickBooks refuses a job for a token that is not its own any more, or    *)
(* because the invoice is voided or deleted.                                *)
LEMMA NextFailsBehind ==
  ASSUME SoloInvariant, FailsBehind, [Next]_vars, faults' = faults,
         NEW solo, Workers = {solo}
  PROVE  FailsBehind'
<1> DEFINE t == work[solo]
           s == work'[solo]
<1> SUFFICES ASSUME phase'[solo] = "jobs", s.loaded.ext # NoLink,
                    s.at \in {"reread", "repost", "raised", "conflict"}
             PROVE  Behind(work[solo].loaded)'
  BY DEF FailsBehind
<1> USE DEF SoloInvariant
<1>1. phase[solo] = "jobs" /\ ~Free(s)
  BY NextTask DEF TaskMoves, GoesOn, Fails, StartsJob, Free
<1>2. s = t \/ Rejected(solo) \/ Reread(solo)
  BY <1>1, FailsForAReason
<1>3. ~Free(t) /\ s.loaded = t.loaded
  <2>1. CASE s = t
    BY <1>1, <2>1
  <2>2. CASE Rejected(solo) \/ Reread(solo)
    <3>1. PICK l : l = t.loaded
      OBVIOUS
    <3>2. \A task : Move(solo, task) => s = task
      BY DEF Move, QueueInvariant, TypeOK, WorkerTypeOK
    <3>3. PICK token : token = qbo[t.obj.company][t.obj.ext].token
      OBVIOUS
    <3>4. t \in Task
      BY WorkType
    <3>5. /\ \A at : [t EXCEPT !.at = at].loaded = l
          /\ [t EXCEPT !.at = "repost", !.obj.token = token].loaded = l
      BY <3>1, <3>4 DEF Task
    <3> QED BY <2>2, <3>1, <3>2, <3>3, <3>5 DEF Rejected, Reread, Raise, Free
  <2> QED BY <1>2, <2>1, <2>2
<1>4. PICK l : l = t.loaded
  OBVIOUS
<1>5. PICK o : o = t.obj
  OBVIOUS
<1>6. /\ l.company \in Realms /\ l.token \in Tokens /\ l.ext # NoLink
      /\ Known(l) /\ Reached(l.company, l.ext, l.token) /\ JobShape(t, jobs[t.id].op)
  BY <1>1, <1>3, <1>4, LoadedRow
<1>7. Behind(l)
  <2>1. CASE t.at \in {"reread", "repost", "raised", "conflict"}
    BY <1>1, <1>4, <1>6, <2>1 DEF FailsBehind
  <2>2. CASE t.at \notin {"reread", "repost", "raised", "conflict"}
    <3>1. Rejected(solo) /\ t.at \in {"update", "delete", "void"}
      BY <1>2, <2>2 DEF Rejected, Reread
    <3>2. o.company = l.company /\ o.ext = l.ext /\ o.token = l.token
      BY <1>4, <1>5, <1>6, <3>1 DEF JobShape
    <3>3. ~Accepts(l.company, l.ext, t.at, l.token)
      BY <1>5, <3>1, <3>2 DEF Rejected
    <3>4. OnlyIn(l.company, l.ext) =>
            l.ext \in DOMAIN qbo[l.company] /\ l.token <= qbo[l.company][l.ext].token
      BY <1>6 DEF Reached
    <3>5. /\ l.token \in Int
          /\ l.ext \in DOMAIN qbo[l.company] => qbo[l.company][l.ext].token \in Nat
      BY <1>6, QboRow DEF Tokens, NoToken
    <3> QED BY <3>3, <3>4, <3>5 DEF Accepts, Behind
  <2> QED BY <2>1, <2>2
<1>8. Behind(l)'
  BY <1>6, <1>7, BehindStays
<1> QED BY <1>3, <1>4, <1>8 DEF Behind
------------------------------------------------------------------------------
(* Without a lost call, a linked row none of whose jobs is left says what   *)
(* QuickBooks says, if it has its token.                                    *)
RowsAgree ==
  \A i \in DOMAIN invoices :
    HasLink(i) /\ (\A j \in JobsOf(i) : ~Active(jobs[j])) =>
      LET row == invoices[i] IN
        Says(row.origin, row.company, row.ext, row.token, row.content)

(* The last job of a row ends with a commit, or behind.                     *)
LEMMA LastJob ==
  ASSUME SoloInvariant, FailsBehind, [Next]_vars, NEW solo, Workers = {solo},
         NEW i \in DOMAIN invoices, HasLink(i), NEW j \in JobsOf(i), Active(jobs[j]),
         ~Active(jobs'[j])
  PROVE  Saves(solo, i) \/ (Behind(invoices[i]) /\ UNCHANGED qbo)
<1> USE DEF SoloInvariant
<1> DEFINE t == work[solo]
<1>1. j \in DOMAIN jobs /\ jobs[j].inv = i /\ jobs[j] \in Job
  BY LenProperties DEF JobsOf, QueueInvariant, TypeOK, StoreTypeOK
<1>2. JobSteps(j)
  BY <1>1, NextJobs DEF JobsStep, NewJob
<1>3. /\ AtHand(solo, j) /\ UNCHANGED <<qboVars, request>>
      /\ CompleteJob(solo) \/ RetryJob(solo) \/ AbortJob(solo)
  <2>1. /\ ~(jobs'[j] = [jobs[j] EXCEPT !.due = TRUE])
        /\ ~(jobs'[j] = [jobs[j] EXCEPT !.status = "in_progress"])
    BY <1>1 DEF Active, Job
  <2> QED BY <1>2, <2>1 DEF JobSteps
<1>4. ~Free(t) /\ phase[solo] = "jobs" /\ t.id = j
  BY <1>3 DEF AtHand
<1>5. /\ t.inv = i /\ t.loaded.company = invoices[i].company
      /\ t.loaded.ext = invoices[i].ext /\ t.loaded.token = invoices[i].token
      /\ JobShape(t, jobs[j].op)
  BY <1>1, <1>4, LoadedRow
<1>6. CASE CompleteJob(solo)
  <2>1. t.at \notin {"skip", "insert"}
    BY <1>4, <1>5 DEF PendingInvariant, NoneSkips, JobShape
  <2>2. t.at \in {"write", "rewrite"}
        /\ SaveInvoice(i, t.loaded, t.obj, LockedByOthers(solo))
    BY <1>5, <1>6, <2>1 DEF CompleteJob, Persist
  <2> QED BY <1>3, <1>5, <1>6, <2>2, SavedRows DEF Saves
<1>7. CASE RetryJob(solo) \/ AbortJob(solo)
  <2>1. t.at \in {"raised", "conflict"}
    BY <1>7 DEF RetryJob, AbortJob
  <2>2. Behind(t.loaded)
    BY <1>4, <1>5, <2>1 DEF FailsBehind, HasLink
  <2> QED BY <1>3, <1>5, <2>2 DEF Behind, qboVars
<1> QED BY <1>3, <1>6, <1>7

(* A token is taken over with its content, and content only changes with a  *)
(* job to push it.                                                          *)
LEMMA NextRowsAgree ==
  ASSUME SoloInvariant, FirstTries', FailsBehind, RowsAgree, [Next]_vars,
         NEW solo, Workers = {solo}
  PROVE  RowsAgree'
<1> USE DEF SoloInvariant
<1> SUFFICES ASSUME NEW i \in DOMAIN invoices', invoices'[i].ext # NoLink,
                    \A j \in JobsOf(i)' : ~Active(jobs'[j])
             PROVE  Says(invoices[i].origin, invoices[i].company, invoices[i].ext,
                         invoices[i].token, invoices[i].content)'
  BY DEF RowsAgree, HasLink
<1>1. CASE Saves(solo, i) /\ i \in DOMAIN invoices
  <2>1. ~CreateRetried(i)'
    <3> SUFFICES ASSUME NEW j \in JobsOf(i)', jobs'[j].op = "create", jobs'[j].attempts > 0
                 PROVE  FALSE
      BY DEF CreateRetried
    <3>1. j \in DOMAIN jobs'
      BY DEF JobsOf
    <3> QED BY <3>1 DEF FirstTries
  <2> QED BY <1>1, <2>1, SavedSays
<1>2. CASE i \notin DOMAIN invoices
  <2>1. PICK row : row = work[solo].obj
    OBVIOUS
  <2>2. NewRow /\ i = Len(invoices) + 1
    BY <1>2, AddedIndex
  <2>3. ASSUME NEW company, NEW content,
               invoices'[i] = [Blank EXCEPT !.company = company, !.content = content]
        PROVE  FALSE
    BY <2>3 DEF Blank
  <2>4. work[solo].at = "insert" /\ invoices'[i] = row
    BY <2>1, <2>2, <2>3 DEF NewRow
  <2>5. ~Free(work[solo]) /\ phase[solo] = "events"
    BY <2>4, Typed DEF Free, SessionInvariant, Shaped, JobShape
  <2>6. /\ row.company \in Realms /\ row.token \in Tokens
        /\ Reached(row.company, row.ext, row.token)
        /\ Says(row.origin, row.company, row.ext, row.token, row.content)
    BY <2>1, <2>4, <2>5, Typed
       DEF TokenInvariant, TaskReached, ContentInvariant, TaskSays, Retries
  <2>7. PICK r \in Realms, token \in Tokens, origin \in {"local", "qbo"} :
          r = row.company /\ token = row.token /\ origin = row.origin
    BY <2>1, <2>6, Typed DEF Row
  <2>8. Says(origin, r, row.ext, token, row.content)'
    BY <2>6, <2>7, SaysLasts
  <2> QED BY <2>4, <2>7, <2>8
<1>3. CASE i \in DOMAIN invoices /\ ~Saves(solo, i)
  <2>1. HasLink(i)
    BY <1>3, NextLinks DEF LinksChange, SetsLink, HasLink
  <2>2. /\ invoices'[i].company = invoices[i].company
        /\ invoices'[i].ext = invoices[i].ext /\ invoices'[i].token = invoices[i].token
        /\ invoices'[i].origin = invoices[i].origin
    BY <1>3, NextTokens, NextOwnersKeep DEF OwnersKeep
  <2>3. invoices'[i].content = invoices[i].content
    <3>1. ~\E u \in Threads : Commits(u, i)
      BY CommitWaits DEF JobsOf
    <3> QED BY <1>3, <3>1, NextContents
  <2>4. PICK row : row = invoices[i]
    OBVIOUS
  <2>5. /\ row.company \in Realms /\ row.token \in Tokens
        /\ Reached(row.company, row.ext, row.token) /\ Known(row)
    BY <1>3, <2>1, <2>4, Typed DEF TokenInvariant, RowsReached, LinksKnown
  <2>6. PICK r \in Realms, token \in Tokens, origin \in {"local", "qbo"} :
          r = row.company /\ token = row.token /\ origin = row.origin
    BY <1>3, <2>4, <2>5, Typed DEF Row
  <2>7. Says(origin, r, row.ext, token, row.content)'
    <3>1. CASE \A j \in JobsOf(i) : ~Active(jobs[j])
      <4>1. Says(origin, r, row.ext, token, row.content)
        BY <1>3, <2>1, <2>4, <2>6, <3>1 DEF RowsAgree
      <4> QED BY <2>5, <2>6, <4>1, SaysLasts
    <3>2. ASSUME NEW j \in JobsOf(i), Active(jobs[j])
          PROVE  Says(origin, r, row.ext, token, row.content)'
      <4>1. ~Active(jobs'[j])
        BY NextJobsKeep DEF JobsKeep, JobsOf
      <4>2. Behind(row)
        BY <1>3, <2>1, <2>4, <3>2, <4>1, LastJob
      <4>3. Behind(row)'
        BY <2>5, <4>2, BehindStays
      <4>4. token \in Int /\ QueueInvariant'
        BY NextInvariant DEF Tokens, NoToken
      <4>5. row.ext \in DOMAIN qbo'[r] => qbo'[r][row.ext].token \in Int
        <5>1. qbo' \in [Realms -> Seq(QboInvoice)]
          BY <4>4 DEF QueueInvariant, TypeOK, QuickBooksTypeOK
        <5>2. ASSUME row.ext \in DOMAIN qbo'[r] PROVE qbo'[r][row.ext] \in QboInvoice
          BY <5>1, <5>2, LenProperties
        <5> QED BY <5>2 DEF QboInvoice
      <4>6. row.ext \in DOMAIN qbo'[r]
        BY <2>5, <2>6, KnownStays DEF Known
      <4> QED BY <2>6, <4>3, <4>4, <4>5, <4>6 DEF Behind, Says
    <3> QED BY <3>1, <3>2
  <2> QED BY <2>2, <2>3, <2>4, <2>6, <2>7
<1> QED BY <1>1, <1>2, <1>3

(* What is kept as long as no call is lost.                                 *)
CleanInvariant ==
  FirstTries /\ OneRow /\ FailsBehind /\ RowsAgree /\ Told("updated")

(* At the start there is nothing to disagree.                               *)
LEMMA InitClean == Init => CleanInvariant
<1> SUFFICES ASSUME Init PROVE CleanInvariant
  OBVIOUS
<1>1. /\ DOMAIN invoices = {} /\ DOMAIN jobs = {}
      /\ \A w \in Workers : work[w] = Idle /\ phase[w] = "jobs"
  BY DEF Init, StoreInit, WorkerInit
<1>2. FirstTries /\ OneRow /\ FailsBehind /\ RowsAgree
  BY <1>1 DEF FirstTries, OneRow, FailsBehind, RowsAgree, Idle, AtHand, Free, Creates
<1> QED BY <1>2, InitSolo DEF CleanInvariant

(* No step but a call that fails breaks it.                                 *)
LEMMA NextClean ==
  ASSUME SoloInvariant, CleanInvariant, [Next]_vars, faults' = faults,
         NEW solo, Workers = {solo}
  PROVE  CleanInvariant'
<1>1. FirstTries' /\ OneRow' /\ FailsBehind'
  BY NextFirstTries, NextOneRow, NextFailsBehind DEF CleanInvariant
<1>2. RowsAgree'
  BY <1>1, NextRowsAgree DEF CleanInvariant
<1>3. Told("updated")'
  BY NextTold DEF CleanInvariant, Tellable
<1> QED BY <1>1, <1>2, <1>3 DEF CleanInvariant

(* With one worker and no lost calls, whatever people do on either side and *)
(* in whatever order it is worked off, and whenever the process dies, in    *)
(* the end the two sides say the same, but for the total as created.        *)
THEOREM SidesAgree ==
  ASSUME NEW solo, Workers = {solo}
  PROVE  Spec => []Agreement
<1> DEFINE Clean == faults = 0 => CleanInvariant
<1>1. Init => SoloInvariant /\ Clean
  BY InitSolo, InitClean
<1>2. SoloInvariant /\ [Next]_vars => SoloInvariant'
  BY NextSolo
<1>3. SoloInvariant /\ Clean /\ [Next]_vars => Clean'
  <2> SUFFICES ASSUME SoloInvariant, Clean, [Next]_vars, faults' = 0 PROVE CleanInvariant'
    OBVIOUS
  <2>1. faults = 0 /\ faults' = faults
    BY FaultsGrow DEF SoloInvariant
  <2> QED BY <2>1, NextClean
<1>4. SoloInvariant /\ Clean => Agreement
  <2> SUFFICES ASSUME SoloInvariant, CleanInvariant, Quiet, NEW i \in DOMAIN invoices,
                      HasLink(i), NoNamesake(i), Counterpart(i).status = "Live",
                      QueueInvariant, faults = 0
               PROVE  Alike(invoices[i].origin, invoices[i].token, invoices[i].content,
                            Counterpart(i).content)
                      /\ invoices[i].token = Counterpart(i).token
    BY DEF Agreement, Agrees, Alike, AsCreated, SoloInvariant
  <2> DEFINE row == invoices[i]
             q   == qbo[row.company][row.ext]
  <2>1. Sole(i)
    BY OnlyIsSole DEF CleanInvariant
  <2>2. ~(row.token < q.token)
    <3> SUFFICES ASSUME row.token < q.token PROVE FALSE
      OBVIOUS
    <3>1. Lacks("updated", row) /\ Concerns("updated", row)
      BY DEF Lacks, Misses, Counterpart, Concerns, NoNamesake
    <3> HIDE DEF row, q
    <3>2. Told("updated")
      BY DEF CleanInvariant
    <3>3. Waits("updated", row.company, row.ext)
      BY <2>1, <3>1, <3>2 DEF Told, Excused, row
    <3> QED BY <3>3, QuietHasHeard
  <2>3. row.token <= q.token
    BY DEF SoloInvariant, TokenInvariant, RowsReached, Reached, NoNamesake
  <2>4. row.token \in Int /\ q.token \in Int
    BY Typed, QboRow DEF SoloInvariant, Tokens, NoToken, LinksKnown, Known
  <2>5. row.token = q.token
    <3> HIDE DEF row, q
    <3> QED BY <2>2, <2>3, <2>4
  <2>6. Says(row.origin, row.company, row.ext, row.token, row.content)
    BY DEF CleanInvariant, RowsAgree, Quiet, JobsOf
  <2> QED BY <2>5, <2>6 DEF Says, NoNamesake, Counterpart
<1> QED BY <1>1, <1>2, <1>3, <1>4, PTL DEF Spec
------------------------------------------------------------------------------
(* What QuickBooks may say after a delete or a void was pushed, or told.     *)
After(op) == IF op = "delete" THEN {"Deleted"} ELSE {"Voided", "Deleted"}

Marked(row, op) == IF op = "delete" THEN row.deleted ELSE row.status = "Voided"

(* A delete or a void that a job is about to commit was accepted.           *)
Pushes ==
  \A w \in Workers : LET t == work[w]  l == t.loaded  op == jobs[t.id].op IN
    phase[w] = "jobs" /\ t.at = "write" /\ op \in {"delete", "void"} =>
      l.ext # NoLink /\ qbo[l.company][l.ext].status \in After(op)

(* A delete or a void here is still to be pushed, or known to QuickBooks.   *)
Unpushed(i, op) == \E j \in JobsOf(i) : jobs[j].op = op /\ jobs[j].status # "completed"

Shows(i, op) == HasLink(i) /\ (NoNamesake(i) => Counterpart(i).status \in After(op))

Granted(i, op) == op = "void" /\ GivenStatus(i)

StatusTold ==
  \A i \in DOMAIN invoices : \A op \in {"delete", "void"} :
    Marked(invoices[i], op) => Unpushed(i, op) \/ Shows(i, op) \/ Granted(i, op)

(* QuickBooks undoes neither.                                               *)
LEMMA GoneStays ==
  ASSUME QueueInvariant, [Next]_vars, NEW r \in Realms, NEW e \in DOMAIN qbo[r],
         NEW op, qbo[r][e].status \in After(op)
  PROVE  e \in DOMAIN qbo'[r] /\ qbo'[r][e].status \in After(op)
<1>1. Kept(r, e) /\ qbo[r][e].status \in {"Live", "Voided", "Deleted"}
  BY NextDocs, QboRow DEF DocsChange, QboInvoice
<1>2. QueueInvariant' /\ e \in DOMAIN qbo'[r]
  BY <1>1, NextInvariant DEF Kept
<1>3. qbo' \in [Realms -> Seq(QboInvoice)]
  BY <1>2 DEF QueueInvariant, TypeOK, QuickBooksTypeOK
<1>4. qbo'[r][e].status \in {"Live", "Voided", "Deleted"}
  <2>1. qbo'[r][e] \in QboInvoice
    BY <1>2, <1>3, LenProperties
  <2> QED BY <2>1 DEF QboInvoice
<1>5. qbo[r][e].status # "Live" => qbo'[r][e].status # "Live"
  BY TokensGrow
<1> QED BY <1>1, <1>2, <1>4, <1>5 DEF Kept, After

(* A job is at its commit because QuickBooks accepted it.                   *)
LEMMA NextPushes ==
  ASSUME SoloInvariant, Pushes, [Next]_vars, NEW w \in Workers, phase'[w] = "jobs",
         work'[w].at = "write", jobs'[work'[w].id].op \in {"delete", "void"}
  PROVE  LET l == work'[w].loaded IN
           l.ext # NoLink /\ qbo'[l.company][l.ext].status \in After(jobs'[work'[w].id].op)
<1> USE DEF SoloInvariant
<1>t. PICK t : t = work[w]
  OBVIOUS
<1>s. PICK s : s = work'[w]
  OBVIOUS
<1>l. PICK l : l = s.loaded
  OBVIOUS
<1>1. ASSUME ~Free(t), phase[w] = "jobs", s.id = t.id, s.loaded = t.loaded
      PROVE  /\ t.id \in DOMAIN jobs /\ jobs'[s.id].op = jobs[t.id].op
             /\ l.company \in Realms /\ (l.ext # NoLink => l.ext \in DOMAIN qbo[l.company])
             /\ JobShape(t, jobs[t.id].op)
  BY <1>t, <1>s, <1>l, <1>1, AtWork, LoadedRow, NextJobsKeep DEF JobsKeep, Known
<1>2. CASE s = t /\ phase'[w] = phase[w]
  <2>1. phase[w] = "jobs" /\ ~Free(t) /\ t.at = "write"
    BY <1>s, <1>2 DEF Free
  <2>2. jobs'[s.id].op = jobs[t.id].op /\ l.company \in Realms
        /\ (l.ext # NoLink => l.ext \in DOMAIN qbo[l.company])
    BY <1>1, <1>2, <2>1
  <2>3. l.ext # NoLink /\ qbo[l.company][l.ext].status \in After(jobs[t.id].op)
    BY <1>t, <1>s, <1>l, <1>2, <2>1, <2>2 DEF Pushes
  <2>4. qbo'[l.company][l.ext].status \in After(jobs[t.id].op)
    BY <2>2, <2>3, GoneStays
  <2> QED BY <1>s, <1>l, <2>2, <2>3, <2>4
<1>3. CASE Free(s)
  BY <1>s, <1>3 DEF Free
<1>4. CASE StartsJob(w) \/ (StartsEvent(w) /\ phase'[w] = phase[w])
  <2>1. StartsJob(w)
    BY <1>4 DEF StartsEvent
  <2>2. s.id \in DOMAIN jobs /\ s.at = Entry(jobs[s.id], s.loaded) /\ jobs[s.id] \in Job
    BY <1>s, <2>1, StartedJob, LenProperties DEF QueueInvariant, TypeOK, StoreTypeOK
  <2> QED BY <1>s, <2>2 DEF Entry, Job
<1>5. CASE GoesOn(w)
  <2>1. phase[w] = "jobs" /\ t.at \in Calls /\ ~Free(t) /\ t.at # "fetch"
    BY <1>t, <1>5 DEF GoesOn, Free, Calls, QueueInvariant, WorksOnItsBatch
  <2>2. Sends(w)
    BY <1>t, <1>5, <2>1 DEF GoesOn, Marks, Reads
  <2>3. /\ s.id = t.id /\ s.loaded = t.loaded /\ jobs'[s.id].op = jobs[t.id].op
        /\ JobShape(t, jobs[t.id].op) /\ l.company \in Realms
    BY <1>1, <1>s, <1>t, <2>1, <2>2, SendsKeep
  <2>4. t.at \in {"delete", "void"} /\ PostDeleteOrVoid(w)
    <3>1. t.at \in {"create", "query", "update", "delete", "void", "repost", "reread"}
      BY <2>1 DEF Calls
    <3>2. t.at \in {"delete", "void"}
      BY <1>s, <2>1, <2>3, <3>1 DEF JobShape, Calls
    <3> QED BY <1>t, <2>2, <3>2 DEF Sends
  <2>5. t.obj.company = l.company /\ t.obj.ext = l.ext /\ jobs[t.id].op = t.at
    BY <1>l, <2>3, <2>4 DEF JobShape
  <2>6. PICK content, token : /\ Accepts(l.company, l.ext, t.at, token)
                              /\ Overwrite(l.company, l.ext, t.at, content)
    BY <1>t, <2>4, <2>5 DEF PostDeleteOrVoid
  <2>7. l.ext \in DOMAIN qbo[l.company]
    BY <2>6 DEF Accepts
  <2>8. /\ t.at = "void" => qbo'[l.company][l.ext].status = "Voided"
        /\ t.at = "delete" => qbo'[l.company][l.ext].status = "Deleted"
    BY <2>3, <2>6, <2>7, OverwriteDocs
  <2>9. l.ext # NoLink
    BY <2>3, <2>7, LenProperties DEF QueueInvariant, TypeOK, QuickBooksTypeOK, NoLink
  <2> QED BY <1>s, <1>l, <2>3, <2>4, <2>5, <2>8, <2>9 DEF After
<1>6. ~Fails(w)
  BY DEF Fails, Marks
<1> QED BY <1>t, <1>s, <1>2, <1>3, <1>4, <1>5, <1>6, NextTask DEF TaskMoves

(* What QuickBooks shows it goes on showing.                                *)
LEMMA ShowsStays ==
  ASSUME SoloInvariant, [Next]_vars, NEW i \in DOMAIN invoices, NEW op, Shows(i, op)
  PROVE  Shows(i, op)'
<1> USE DEF SoloInvariant
<1>1. PICK r : r = invoices[i].company
  OBVIOUS
<1>2. PICK e : e = invoices[i].ext
  OBVIOUS
<1>3. /\ r \in Realms /\ e \in DOMAIN qbo[r] /\ e # NoLink
      /\ invoices'[i].company = r /\ invoices'[i].ext = e
  BY <1>1, <1>2, Typed, LinksOnlyUnlinked, NextOwnersKeep
     DEF Shows, HasLink, LinksKnown, Known, LinksStay, OwnersKeep
<1>4. ASSUME OnlyIn(r, e)' PROVE qbo'[r][e].status \in After(op)
  <2>1. OnlyIn(r, e)
    BY <1>3, <1>4, KnownStays
  <2>2. qbo[r][e].status \in After(op)
    BY <1>1, <1>2, <2>1 DEF Shows, NoNamesake, Counterpart
  <2> QED BY <1>3, <2>2, GoneStays
<1> QED BY <1>3, <1>4 DEF Shows, HasLink, NoNamesake, Counterpart, OnlyIn

(* A row is deleted or voided together with a job that will push it, or     *)
(* because QuickBooks or a PUT told so.                                     *)
LEMMA MarkedHere ==
  ASSUME SoloInvariant, [Next]_vars, NEW i \in DOMAIN invoices,
         NEW op \in {"delete", "void"}, ~Marked(invoices[i], op), Marked(invoices[i], op)',
         ~Granted(i, op)'
  PROVE  Unpushed(i, op)' \/ Shows(i, op)
<1> USE DEF SoloInvariant
<1>1. ASSUME NEW l, NEW o, invoices'[i] = Merge(invoices[i], l, o)
      PROVE  IF op = "delete" THEN o.deleted # l.deleted
             ELSE o.status = "Voided" /\ o.status # l.status
  BY <1>1 DEF Merge, Net, Marked
<1>2. ASSUME NEW t \in Threads, Commits(t, i) PROVE Unpushed(i, op)'
  <2>1. PICK q : q = request[t]
    OBVIOUS
  <2>2. /\ q.op \in {"update", "delete", "void"} /\ RequestShape(q)
        /\ invoices'[i] = Merge(invoices[i], q.loaded, q.obj)
    BY <1>2, <2>1 DEF Commits, SessionInvariant, QueueInvariant, TypeOK, ServiceTypeOK, Request
  <2>3. q.op = op
    <3>1. op = "void" /\ q.op = "update" => q.obj.status \notin PutStatuses
      BY <1>2, <2>1, UpdateGives DEF Granted
    <3> QED BY <1>1, <2>2, <3>1 DEF RequestShape
  <2>4. PICK n : n = Len(jobs) + 1
    OBVIOUS
  <2>5. jobs \in Seq(Job) /\ jobs' = Append(jobs, [inv |-> i, op |-> op, status |-> "pending",
                                   attempts |-> 0, due |-> TRUE, error |-> "none"])
    BY <1>2, <2>1, <2>3 DEF Commits, Commit, EnqueueJob, QueueInvariant, TypeOK, StoreTypeOK
  <2>6. n \in DOMAIN jobs' /\ jobs'[n] = [inv |-> i, op |-> op, status |-> "pending",
                                   attempts |-> 0, due |-> TRUE, error |-> "none"]
    BY <2>4, <2>5, LenProperties, AppendProperties
  <2> QED BY <2>6 DEF Unpushed, JobsOf
<1>3. ASSUME NEW w \in Workers, Saves(w, i) PROVE Shows(i, op)
  <2>1. PICK t : t = work[w]
    OBVIOUS
  <2>2. /\ ~Free(t) /\ t.inv = i /\ i # 0 /\ t.at \in {"write", "rewrite"}
        /\ phase[w] \in {"jobs", "events"}
        /\ phase[w] = "jobs" => JobShape(t, jobs[t.id].op)
        /\ phase[w] = "events" => EventShape(t, notes[t.id]) /\ t.id \in DOMAIN notes
        /\ t.loaded.ext = invoices[i].ext
        /\ invoices'[i] = Merge(invoices[i], t.loaded, t.obj)
    BY <1>3, <2>1, SavedTask, Typed, AtWork
       DEF Saves, Shaped, TokenInvariant, TaskReached, HasRow
  <2>3. phase[w] = "events"
    BY <1>1, <2>2 DEF JobShape
  <2>4. PICK n \in Note : n = notes[t.id] /\ IsTrue(n)
    BY <2>2, <2>3, Typed DEF ContentInvariant, NotesAreTrue
  <2>5. /\ n.op = IF op = "delete" THEN "deleted" ELSE "voided"
        /\ n.ext = invoices[i].ext /\ n.ext # NoLink /\ n.realm \in Realms
    BY <1>1, <2>2, <2>3, <2>4 DEF EventShape, Note, NoLink
  <2>6. n.ext \in DOMAIN qbo[n.realm] /\ qbo[n.realm][n.ext].status \in After(op)
    BY <2>4, <2>5, QboRow DEF IsTrue, After, QboInvoice
  <2>7. NoNamesake(i) => n.realm = invoices[i].company
    BY <2>5, <2>6 DEF NoNamesake, OnlyIn
  <2> QED BY <2>5, <2>6, <2>7 DEF Shows, HasLink, Counterpart
<1>4. ASSUME NEW w \in Workers, GivesUp(w, i) PROVE FALSE
  BY <1>4, RowType DEF GivesUp, Row, Marked
<1> QED BY <1>2, <1>3, <1>4, NextRows DEF RowsStep, RowSteps, NewRow

(* A job of a delete or a void is completed when QuickBooks shows it.       *)
LEMMA PushedShows ==
  ASSUME SoloInvariant, Pushes, [Next]_vars, NEW i \in DOMAIN invoices, NEW j \in JobsOf(i),
         NEW op \in {"delete", "void"}, jobs[j].op = op,
         jobs[j].status # "completed", jobs'[j].status = "completed"
  PROVE  Shows(i, op)
<1> USE DEF SoloInvariant
<1>1. j \in DOMAIN jobs /\ jobs[j].inv = i /\ jobs[j] \in Job
  BY LenProperties DEF JobsOf, QueueInvariant, TypeOK, StoreTypeOK
<1>2. JobSteps(j)
  BY <1>1, NextJobs DEF JobsStep, NewJob
<1>3. PICK w \in Workers : AtHand(w, j) /\ CompleteJob(w)
  <2>1. /\ jobs'[j] # [jobs[j] EXCEPT !.due = TRUE]
        /\ jobs'[j] # [jobs[j] EXCEPT !.status = "in_progress"]
        /\ jobs'[j] # [Reattempt(jobs[j]) EXCEPT !.error = "error"]
        /\ jobs'[j] # [jobs[j] EXCEPT !.attempts = MaxAttempts, !.status = "failed",
                                      !.error = "conflict"]
    BY <1>1 DEF Job, Reattempt
  <2> QED BY <1>2, <2>1 DEF JobSteps
<1>4. PICK t : t = work[w]
  OBVIOUS
<1>5. ~Free(t) /\ phase[w] = "jobs" /\ t.id = j
  BY <1>3, <1>4 DEF AtHand
<1>6. /\ t.inv = i /\ t.loaded.company = invoices[i].company
      /\ t.loaded.ext = invoices[i].ext /\ JobShape(t, op)
  BY <1>1, <1>4, <1>5, LoadedRow
<1>7. t.at = "write"
  <2>1. t.at \notin {"skip", "insert", "rewrite"}
    BY <1>4, <1>5, <1>6 DEF PendingInvariant, NoneSkips, JobShape
  <2> QED BY <1>3, <1>4, <2>1 DEF CompleteJob, Persist
<1> QED BY <1>4, <1>5, <1>6, <1>7 DEF Pushes, Shows, HasLink, Counterpart

(* What is deleted or voided here is so there, or some job failed or is     *)
(* left.                                                                    *)
LEMMA NextStatusTold ==
  ASSUME SoloInvariant, Pushes, StatusTold, [Next]_vars
  PROVE  StatusTold'
<1> USE DEF SoloInvariant
<1> SUFFICES ASSUME NEW i \in DOMAIN invoices', NEW op \in {"delete", "void"},
                    Marked(invoices[i], op)', ~Granted(i, op)'
             PROVE  Unpushed(i, op)' \/ Shows(i, op)'
  BY DEF StatusTold
<1>1. i \in DOMAIN invoices
  <2> SUFFICES ASSUME i \notin DOMAIN invoices PROVE FALSE
    OBVIOUS
  <2>1. NewRow /\ i = Len(invoices) + 1
    BY AddedIndex
  <2>2. ASSUME NEW company, NEW content,
               invoices'[i] = [Blank EXCEPT !.company = company, !.content = content]
        PROVE  FALSE
    BY <2>2 DEF Blank, Marked
  <2>3. ASSUME NEW w \in Workers, work[w].at = "insert", invoices'[i] = work[w].obj
        PROVE  FALSE
    <3>1. phase[w] = "events" /\ EventShape(work[w], notes[work[w].id])
      BY <2>3, Typed DEF Free, SessionInvariant, Shaped, JobShape
    <3> QED BY <2>3, <3>1 DEF EventShape, Marked
  <2> QED BY <2>1, <2>2, <2>3 DEF NewRow
<1>2. CASE ~Marked(invoices[i], op)
  BY <1>1, <1>2, MarkedHere, ShowsStays
<1>3. CASE Shows(i, op)
  BY <1>1, <1>3, ShowsStays
<1>4. CASE Unpushed(i, op)
  <2>1. PICK j \in JobsOf(i) : jobs[j].op = op /\ jobs[j].status # "completed"
    BY <1>4 DEF Unpushed
  <2>2. j \in JobsOf(i)' /\ jobs'[j].op = op
    BY <2>1, NextJobsKeep DEF JobsKeep, JobsOf
  <2>3. CASE jobs'[j].status # "completed"
    BY <2>1, <2>2, <2>3 DEF Unpushed
  <2>4. CASE jobs'[j].status = "completed"
    BY <1>1, <2>1, <2>4, PushedShows, ShowsStays
  <2> QED BY <2>3, <2>4
<1>5. ~Granted(i, op)
  BY GivenStays DEF Granted
<1> QED BY <1>1, <1>2, <1>3, <1>4, <1>5 DEF StatusTold

(* With one worker and no lost calls, once everything has been worked off   *)
(* and every job of a local invoice succeeded, both sides agree on whether  *)
(* it is deleted, and unless it is or a PUT may have given it a status, on  *)
(* whether it is void.                                                      *)
THEOREM StatusesAgree ==
  ASSUME NEW solo, Workers = {solo}
  PROVE  Spec => []StatusAgreement
<1> DEFINE Local == SoloInvariant /\ Pushes /\ StatusTold /\ Told("deleted")
           Clean == faults = 0 => FirstTries /\ OneRow /\ Told("voided")
<1>1. Init => Local /\ Clean
  <2> SUFFICES ASSUME Init PROVE Pushes /\ StatusTold /\ FirstTries /\ OneRow
    BY InitSolo
  <2>1. DOMAIN invoices = {} /\ \A w \in Workers : work[w] = Idle
    BY DEF Init, StoreInit, WorkerInit
  <2> QED BY <2>1, InitClean DEF CleanInvariant, Pushes, StatusTold, Idle
<1>2. Local /\ [Next]_vars => Local'
  <2> SUFFICES ASSUME Local, [Next]_vars PROVE Pushes' /\ StatusTold' /\ Told("deleted")'
    BY NextSolo
  <2> QED BY NextPushes, NextStatusTold, NextTold DEF Pushes, Tellable
<1>3. Local /\ Clean /\ [Next]_vars => Clean'
  <2> SUFFICES ASSUME Local, Clean, [Next]_vars, faults' = 0
               PROVE  FirstTries' /\ OneRow' /\ Told("voided")'
    OBVIOUS
  <2>1. faults = 0 /\ faults' = faults
    BY FaultsGrow DEF SoloInvariant
  <2>2. work[solo].at # "query"
    <3> SUFFICES ASSUME work[solo].at = "query" PROVE FALSE
      OBVIOUS
    <3>1. ~Free(work[solo]) /\ phase[solo] = "jobs"
      BY Typed DEF Free, SoloInvariant, SessionInvariant, Shaped, EventShape
    <3>2. jobs[work[solo].id].op = "create"
      BY <3>1 DEF SoloInvariant, SessionInvariant, Shaped, JobShape
    <3> QED BY <2>1, <3>1, <3>2 DEF FirstTries, AtHand
  <2> QED BY <2>1, <2>2, NextFirstTries, NextOneRow, NextTold DEF Tellable
<1>4. Local /\ Clean => StatusAgreement
  <2> SUFFICES ASSUME Local, Clean, Quiet, faults = 0, NEW i \in DOMAIN invoices,
                      HasLink(i), NoNamesake(i), invoices[i].origin = "local",
                      \A j \in JobsOf(i) : jobs[j].status = "completed", QueueInvariant
               PROVE  /\ invoices[i].deleted <=> Counterpart(i).status = "Deleted"
                      /\ ~GivenStatus(i) =>
                           /\ Counterpart(i).status = "Voided" => invoices[i].status = "Voided"
                           /\ invoices[i].status = "Voided" => Counterpart(i).status # "Live"
    BY DEF StatusAgreement, SoloInvariant
  <2>1. Sole(i)
    BY OnlyIsSole
  <2>2. ASSUME NEW op \in {"deleted", "voided"}, ~Excused(op, i)
        PROVE  ~Lacks(op, invoices[i])
    <3>1. Told(op) /\ Concerns(op, invoices[i])
      BY <2>2 DEF Concerns
    <3>2. ~Waits(op, invoices[i].company, invoices[i].ext)
      BY QuietHasHeard
    <3> QED BY <2>1, <2>2, <3>1, <3>2 DEF Told
  <2>3. ASSUME NEW op \in {"delete", "void"}, Marked(invoices[i], op), ~Granted(i, op)
        PROVE  Counterpart(i).status \in After(op)
    BY <2>3 DEF StatusTold, Unpushed, Shows
  <2>4. invoices[i].deleted => Counterpart(i).status = "Deleted"
    BY <2>3 DEF Marked, After, Granted
  <2>5. ~GivenStatus(i) /\ invoices[i].status = "Voided" => Counterpart(i).status # "Live"
    BY <2>3 DEF Marked, After, Granted
  <2>6. Counterpart(i).status = "Deleted" => invoices[i].deleted
    BY <2>2 DEF Lacks, Misses, Counterpart, Excused
  <2>7. ~GivenStatus(i) /\ Counterpart(i).status = "Voided" => invoices[i].status = "Voided"
    BY <2>2, <2>4 DEF Lacks, Misses, Counterpart, VoidIsMoot, Excused
  <2> QED BY <2>4, <2>5, <2>6, <2>7
<1> QED BY <1>1, <1>2, <1>3, <1>4, PTL DEF Spec
------------------------------------------------------------------------------
(* Nor are edits of QuickBooks users or deaths of processes taken back.     *)
LEMMA CountsGrow ==
  ASSUME QueueInvariant, [Next]_vars
  PROVE  /\ edits \in Nat /\ (edits' = edits \/ edits' = edits + 1)
         /\ crashes \in Nat /\ (crashes' = crashes \/ crashes' = crashes + 1)
<1> DEFINE Grow == /\ edits' = edits \/ edits' = edits + 1
                   /\ crashes' = crashes \/ crashes' = crashes + 1
<1>1. edits \in Nat /\ crashes \in Nat
  BY DEF QueueInvariant, TypeOK, QuickBooksTypeOK, WorkerTypeOK
<1>2. ASSUME UNCHANGED <<edits, crashes>> PROVE Grow
  BY <1>2
<1>3. ASSUME UserStep, UNCHANGED workerVars PROVE Grow
  BY <1>3 DEF UserStep, UserCreates, UserWrites, workerVars
<1>4. ASSUME NEW w \in Workers, LoopStep(w) \/ ExecutorStep(w) \/ HandlerStep(w)
      PROVE  UNCHANGED <<edits, crashes>>
  BY <1>4 DEF LoopStep, PollJobs, PollEvents, Select, ClaimJobs, ClaimEvents, CompleteJob,
     RetryJob, AbortJob, CompleteEvent, RetryEvent, ExecutorStep, BeginJob, PostCreate,
     QueryByDocNumber, PostUpdate, PostDeleteOrVoid, Rejected, Reread, ExecutorFrame,
     HandlerStep, BeginEvent, Fetch, HandlerFrame, qboVars
<1>5. ASSUME NEW w \in Workers, AttemptFails(w) \/ Crash(w) \/ Restart(w) PROVE Grow
  BY <1>5 DEF AttemptFails, Crash, Restart, qboVars
<1>6. ASSUME NEW w \in Workers, EndpointStep(w) PROVE UNCHANGED <<edits, crashes>>
  BY <1>6 DEF EndpointStep, StoreEvent, CheckStored, qboVars, workerVars
<1>7. ASSUME NEW n \in DOMAIN notes, RepeatUnidentified(n) PROVE UNCHANGED <<edits, crashes>>
  BY <1>7 DEF RepeatUnidentified, qboVars, workerVars
<1>8. ASSUME Wakes \/ UNCHANGED vars \/ UNCHANGED <<qboVars, workerVars>>
      PROVE  UNCHANGED <<edits, crashes>>
  BY <1>8 DEF Wakes, vars, qboVars, workerVars
<1> HIDE DEF Grow
<1>9. Grow
  BY <1>2, <1>3, <1>4, <1>5, <1>6, <1>7, <1>8 DEF Next, WorkerStep
<1> QED BY <1>1, <1>9 DEF Grow

(* A job about to commit what QuickBooks answered.                          *)
Saving(w) == phase[w] = "jobs" /\ work[w].at \in {"write", "rewrite"}

(* Only a failure or a crash keeps it from that commit.                     *)
LEMMA Committed ==
  ASSUME SoloInvariant, [Next]_vars, faults' = faults, crashes' = crashes,
         NEW w \in Workers, Saving(w)
  PROVE  \/ work'[w] = work[w] /\ phase'[w] = phase[w]
         \/ Saves(w, work[w].inv)
<1> USE DEF SoloInvariant
<1> DEFINE Goal == (work'[w] = work[w] /\ phase'[w] = phase[w]) \/ Saves(w, work[w].inv)
<1>1. phase[w] = "jobs" /\ work[w].at \in {"write", "rewrite"}
  BY DEF Saving
<1>2. ASSUME CompleteJob(w), UNCHANGED request PROVE Saves(w, work[w].inv)
  <2>1. PICK i : i = work[w].inv
    OBVIOUS
  <2>2. i \in DOMAIN invoices
    <3>1. ~Free(work[w])
      BY <1>1 DEF Free
    <3> QED BY <1>1, <2>1, <3>1, LoadedRow
  <2>3. SaveInvoice(i, work[w].loaded, work[w].obj, LockedByOthers(w))
    BY <1>1, <1>2, <2>1 DEF CompleteJob, Persist
  <2>4. invoices'[i] = Merge(invoices[i], work[w].loaded, work[w].obj)
    BY <2>2, <2>3, SavedRows
  <2> QED BY <1>1, <1>2, <2>1, <2>4 DEF Saves, CompleteJob
<1>3. ASSUME LoopStep(w), UNCHANGED request PROVE Goal
  BY <1>1, <1>2, <1>3 DEF LoopStep, PollJobs, PollEvents, Select, ClaimJobs, ClaimEvents,
     RetryJob, AbortJob, CompleteEvent, RetryEvent
<1>4. ~ExecutorStep(w) /\ ~HandlerStep(w) /\ ~Restart(w)
  BY <1>1 DEF ExecutorStep, BeginJob, PostCreate, QueryByDocNumber, PostUpdate,
     PostDeleteOrVoid, Rejected, Reread, HandlerStep, BeginEvent, Fetch, Restart
<1>5. ~Crash(w) /\ ~AttemptFails(w)
  BY CountsGrow, FaultsGrow DEF Crash, AttemptFails, NetworkFault
<1>6. ASSUME NEW v \in Workers, v # w,
             LoopStep(v) \/ ExecutorStep(v) \/ HandlerStep(v) \/ AttemptFails(v)
               \/ Crash(v) \/ Restart(v)
      PROVE  Goal
  BY <1>6, OthersStay
<1>7. ASSUME UNCHANGED workerVars PROVE Goal
  BY <1>7 DEF workerVars
<1>8. ASSUME NEW v \in Workers, EndpointStep(v) PROVE UNCHANGED workerVars
  BY <1>8 DEF EndpointStep, StoreEvent, CheckStored
<1>9. ASSUME NEW n \in DOMAIN notes, RepeatUnidentified(n) PROVE UNCHANGED workerVars
  BY <1>9 DEF RepeatUnidentified
<1>10. ASSUME Wakes \/ UNCHANGED vars PROVE UNCHANGED workerVars
  BY <1>10 DEF Wakes, vars
<1> HIDE DEF Goal
<1>11. Goal
  BY <1>3, <1>4, <1>5, <1>6, <1>7, <1>8, <1>9, <1>10 DEF Next, WorkerStep
<1> QED BY <1>11 DEF Goal
------------------------------------------------------------------------------
(* The row has the token QuickBooks has now.                                *)
UpToDate(row) ==
  OnlyIn(row.company, row.ext) =>
    LET q == qbo[row.company][row.ext] IN q.status # "Live" \/ row.token = q.token

Posts(w) == PostCreate(w) \/ PostUpdate(w) \/ PostDeleteOrVoid(w)

(* Unless a user of QuickBooks writes there, a job does.                    *)
LEMMA OwnWrite ==
  ASSUME QueueInvariant, [Next]_vars, edits' = edits
  PROVE  UNCHANGED qbo \/ \E w \in Workers : Posts(w)
<1>1. ~(\E r \in Realms : UserCreates(r) \/ UserWrites(r))
  BY CountsGrow DEF UserCreates, UserWrites
<1> QED BY <1>1, NextQbo DEF Posts

(* What this service writes there, it is about to save.                     *)
LEMMA OwnPush ==
  ASSUME SoloInvariant, [Next]_vars, faults' = faults, NEW w \in Workers, Posts(w)
  PROVE  LET t == work[w]  s == work'[w]  o == s.obj  r == o.company  e == o.ext IN
           /\ phase[w] = "jobs" /\ phase'[w] = "jobs" /\ UNCHANGED storeVars
           /\ ~Free(t) /\ ~Saving(w) /\ s.at \in {"write", "rewrite"} /\ s.inv = t.inv
           /\ r \in Realms /\ e \in DOMAIN qbo'[r]
           /\ qbo'[r][e].status # "Live" \/ o.token = qbo'[r][e].token
           /\ \A c \in Realms : \A d \in DOMAIN qbo'[c] :
                <<c, d>> # <<r, e>> => d \in DOMAIN qbo[c] /\ qbo'[c][d] = qbo[c][d]
           /\ e \in DOMAIN qbo[r] => t.loaded.company = r /\ t.loaded.ext = e
           /\ s.id = t.id /\ s.loaded = t.loaded
           /\ qbo'[r][e].status = "Voided" =>
                e \in DOMAIN qbo[r] /\ jobs[t.id].op = "void" /\ s.at = "write"
<1> USE DEF SoloInvariant
<1> DEFINE t == work[w]
           s == work'[w]
           r == t.obj.company
           e == t.obj.ext
<1>1. /\ t.at \in {"create", "update", "repost", "delete", "void"}
      /\ UNCHANGED storeVars /\ phase'[w] = phase[w]
  BY DEF Posts, PostCreate, PostUpdate, PostDeleteOrVoid, ExecutorFrame
<1>2. ~Free(t) /\ ~Saving(w)
  BY <1>1 DEF Free, Saving
<1>3. phase[w] = "jobs" /\ JobShape(t, jobs[t.id].op)
  BY <1>1, <1>2, Typed DEF SessionInvariant, Shaped, EventShape
<1>4. t.obj \in Row /\ r \in Realms
  BY Typed
<1> DEFINE Goal(o) ==
             /\ s.at \in {"write", "rewrite"} /\ s.inv = t.inv /\ s.obj = o
             /\ o.company = r /\ o.ext \in DOMAIN qbo'[r]
             /\ qbo'[r][o.ext].status # "Live" \/ o.token = qbo'[r][o.ext].token
             /\ \A c \in Realms : \A d \in DOMAIN qbo'[c] :
                  <<c, d>> # <<r, o.ext>> => d \in DOMAIN qbo[c] /\ qbo'[c][d] = qbo[c][d]
             /\ o.ext \in DOMAIN qbo[r] => t.loaded.company = r /\ t.loaded.ext = o.ext
             /\ s.id = t.id /\ s.loaded = t.loaded
             /\ qbo'[r][o.ext].status = "Voided" =>
                  o.ext \in DOMAIN qbo[r] /\ jobs[t.id].op = "void" /\ s.at = "write"
<1>5. ASSUME NEW at \in {"write", "rewrite"}, NEW o, Answered(w, at, o)
      PROVE  /\ s.at = at /\ s.inv = t.inv /\ s.obj = o
             /\ s.id = t.id /\ s.loaded = t.loaded
  <2>1. ~NetworkFault
    BY FaultsGrow DEF NetworkFault
  <2>2. Move(w, [work[w] EXCEPT !.at = at, !.obj = o])
    BY <1>5, <2>1 DEF Answered
  <2>3. Takes(w, at, o)
    BY <2>2, MovedTask
  <2> QED BY <2>3 DEF Takes
<1>6. ASSUME PostCreate(w) PROVE \E o : Goal(o)
  <2> DEFINE n == Len(qbo[r]) + 1
             o == Linked(t.obj, n, 0)
  <2>1. PICK sent : Insert(r, sent, t.inv, TRUE) /\ Answered(w, "write", o)
    BY <1>6 DEF PostCreate
  <2>2. s.at = "write" /\ s.inv = t.inv /\ s.obj = o /\ s.id = t.id /\ s.loaded = t.loaded
    BY <1>5, <2>1
  <2>3. o.company = r /\ o.ext = n /\ o.token = 0
    BY <1>4 DEF Linked, Row
  <2>4. /\ n \in DOMAIN qbo'[r] /\ qbo'[r][n].token = 0 /\ n \notin DOMAIN qbo[r]
        /\ qbo'[r][n].status = "Live"
        /\ \A c \in Realms : \A d \in DOMAIN qbo[c] : qbo'[c][d] = qbo[c][d]
        /\ \A c \in Realms : \A d \in DOMAIN qbo'[c] : Kept(c, d) \/ (c = r /\ d = n)
    <3> HIDE DEF r, o, t
    <3> QED BY <1>4, <2>1, InsertDocs
  <2> HIDE DEF n, o, r, s, t
  <2>5. Goal(o)
    BY <2>2, <2>3, <2>4 DEF Kept
  <2> QED BY <2>5
<1>7. ASSUME NEW op \in {"update", "void", "delete"}, NEW content, NEW o, NEW at \in {"write", "rewrite"},
             Accepts(r, e, op, t.obj.token), Overwrite(r, e, op, content),
             Answered(w, at, o), o.company = r, o.ext = e,
             op = "update" => o.token = qbo[r][e].token + 1, t.at # "create",
             op = "void" => t.at = "void" /\ at = "write"
      PROVE  Goal(o)
  <2>1. e \in DOMAIN qbo[r] /\ s.at = at /\ s.inv = t.inv /\ s.obj = o
        /\ s.id = t.id /\ s.loaded = t.loaded
    BY <1>5, <1>7 DEF Accepts
  <2>2. t.loaded.company = r /\ t.loaded.ext = e
    BY <1>1, <1>3, <1>7 DEF JobShape
  <2>3. /\ \A c \in Realms : \A d \in DOMAIN qbo'[c] : Kept(c, d)
        /\ op = "update" => qbo'[r][e].token = qbo[r][e].token + 1
        /\ op = "update" => qbo'[r][e].status = "Live"
        /\ op = "void" => qbo'[r][e].status = "Voided"
        /\ op = "delete" => qbo'[r][e].status = "Deleted"
        /\ \A c \in Realms : \A d \in DOMAIN qbo[c] : <<c, d>> # <<r, e>> =>
             qbo'[c][d] = qbo[c][d]
    BY <1>4, <1>7, <2>1, OverwriteDocs
  <2>4. e \in DOMAIN qbo'[r]
    BY <1>4, <2>1, KnownStays
  <2>5. qbo'[r][e].status = "Voided" => jobs[t.id].op = "void" /\ s.at = "write"
    BY <1>3, <1>7, <2>1, <2>3 DEF JobShape
  <2> HIDE DEF r, e, s, t
  <2> QED BY <1>7, <2>1, <2>2, <2>3, <2>4, <2>5 DEF Kept
<1>8. ASSUME PostUpdate(w) PROVE \E o : Goal(o)
  <2> DEFINE o == [t.obj EXCEPT !.token = qbo[r][e].token + 1, !.sync = "complete"]
  <2>1. PICK content : /\ Accepts(r, e, "update", t.obj.token)
                       /\ Overwrite(r, e, "update", content)
                       /\ \E at \in {"write", "rewrite"} : Answered(w, at, o)
    BY <1>8 DEF PostUpdate
  <2>2. o.company = r /\ o.ext = e /\ o.token = qbo[r][e].token + 1
    BY <1>4 DEF Row
  <2>3. t.at # "create"
    BY <1>8 DEF PostUpdate
  <2> HIDE DEF o, Goal
  <2> QED BY <1>7, <2>1, <2>2, <2>3
<1>9. ASSUME PostDeleteOrVoid(w) PROVE \E o : Goal(o)
  <2> DEFINE o == [t.obj EXCEPT !.sync = "complete"]
  <2>1. /\ t.at \in {"delete", "void"} /\ Accepts(r, e, t.at, t.obj.token)
        /\ Overwrite(r, e, t.at, t.obj.content) /\ Answered(w, "write", o)
    BY <1>9 DEF PostDeleteOrVoid
  <2>2. o.company = r /\ o.ext = e
    BY <1>4 DEF Row
  <2>3. /\ t.at \in {"update", "void", "delete"} /\ t.at # "update" /\ t.at # "create"
        /\ "write" \in {"write", "rewrite"}
    BY <2>1
  <2> HIDE DEF o, Goal
  <2> QED BY <1>7, <2>1, <2>2, <2>3
<1>10. PICK o : Goal(o)
  BY <1>6, <1>8, <1>9 DEF Posts
<1> QED BY <1>1, <1>2, <1>3, <1>4, <1>10
------------------------------------------------------------------------------
(* As long as nobody else writes there, QuickBooks has what this service    *)
(* has, or is about to save.                                                *)
OnlyOurs ==
  /\ \A r \in Realms : \A e \in DOMAIN qbo[r] :
       \/ \E i \in DOMAIN invoices : invoices[i].company = r /\ invoices[i].ext = e
       \/ \E w \in Workers : LET o == work[w].obj IN
            Saving(w) /\ o.company = r /\ o.ext = e
  /\ \A w \in Workers : Saving(w) => UpToDate(work[w].obj)
  /\ \A i \in DOMAIN invoices : HasLink(i) =>
       UpToDate(invoices[i]) \/ \E w \in Workers : Saving(w) /\ work[w].inv = i

(* Then an event has something to commit only where a void or a delete has  *)
(* been by now.                                                             *)
LEMMA OwnEcho ==
  ASSUME SoloInvariant, OneRow, OnlyOurs, NEW solo, Workers = {solo},
         phase[solo] = "events", work[solo].at \in {"write", "rewrite", "insert"}
  PROVE  LET n == notes[work[solo].id]  o == work[solo].obj IN
           /\ work[solo].at = "write"
           /\ OnlyIn(n.realm, n.ext) => qbo[n.realm][n.ext].status # "Live"
           /\ OnlyIn(o.company, o.ext) => qbo[o.company][o.ext].status # "Live"
<1> USE DEF SoloInvariant
<1> DEFINE t == work[solo]
           o == t.obj
           l == t.loaded
           n == notes[t.id]
<1>1. /\ ~Free(t) /\ EventShape(t, n) /\ t.at \in {"write", "insert"}
      /\ t.inv # 0 => t.inv \in DOMAIN invoices /\ SameOwner(t.inv, l)
  BY AtWork DEF SessionInvariant, Shaped, Free, EventShape
<1>2. n.realm \in Realms /\ n.ext \in Nat \ {0} /\ IsTrue(n)
  <2>1. t.id \in DOMAIN notes
    BY <1>1, AtWork
  <2>2. n \in Note
    BY <2>1, Typed
  <2> QED BY <2>1, <2>2 DEF Note, ContentInvariant, NotesAreTrue
<1>3. \A w \in Workers : ~Saving(w)
  BY DEF Saving
<1>4. t.at = "write"
  <2> SUFFICES ASSUME t.at = "insert" PROVE FALSE
    BY <1>1
  <2>1. n.op = "created"
    BY <1>1 DEF EventShape
  <2>2. Lookup(n.ext) = {}
    BY <2>1 DEF OneRow
  <2>3. \E i \in DOMAIN invoices : invoices[i].ext = n.ext
    BY <1>2, <1>3 DEF OnlyOurs, IsTrue
  <2> QED BY <2>2, <2>3 DEF Lookup
<1>5. OnlyIn(n.realm, n.ext) => qbo[n.realm][n.ext].status # "Live"
  <2>1. CASE n.op \in {"deleted", "voided"}
    BY <1>2, <2>1 DEF IsTrue
  <2>2. ASSUME n.op = "updated", OnlyIn(n.realm, n.ext),
               qbo[n.realm][n.ext].status = "Live"
        PROVE  FALSE
    <3> DEFINE q == qbo[n.realm][n.ext]
    <3>1. PICK i : i = t.inv
      OBVIOUS
    <3>2. /\ i \in DOMAIN invoices /\ i # 0 /\ l.ext = n.ext /\ Newer(o.token, l.token)
          /\ o.company = invoices[i].company /\ o.ext = n.ext
      BY <1>1, <1>4, <2>2, <3>1 DEF EventShape, SameOwner
    <3>3. invoices[i].token = l.token /\ invoices[i].ext = n.ext
      BY <1>1, <3>1, <3>2 DEF TokenInvariant, TaskReached, HasRow
    <3>4. HasLink(i) /\ Known(invoices[i]) /\ invoices[i].company \in Realms
      BY <1>2, <3>2, <3>3, Typed DEF HasLink, NoLink, LinksKnown
    <3>5. invoices[i].company = n.realm
      BY <2>2, <3>3, <3>4 DEF Known, OnlyIn
    <3>6. UpToDate(invoices[i])
      BY <1>3, <3>2, <3>4 DEF OnlyOurs
    <3>7. l.token = q.token
      BY <2>2, <3>3, <3>5, <3>6 DEF UpToDate
    <3>8. o.token <= q.token
      BY <1>1, <1>4, <2>2, <3>2, <3>5 DEF TokenInvariant, TaskReached, Reached
    <3>9. q.token \in Nat /\ o.token \in Int
      BY <1>2, QboRow, Typed DEF IsTrue, Tokens, NoToken
    <3>10. l.token = NoToken \/ o.token > l.token
      BY <3>2 DEF Newer
    <3> HIDE DEF q, o, l
    <3> QED BY <3>7, <3>8, <3>9, <3>10 DEF NoToken
  <2> QED BY <1>1, <1>4, <2>1, <2>2 DEF EventShape
<1>6. ASSUME OnlyIn(o.company, o.ext) PROVE qbo[o.company][o.ext].status # "Live"
  <2>1. o.ext = n.ext
    BY <1>1 DEF EventShape
  <2>2. n.realm = o.company
    BY <1>2, <1>6, <2>1 DEF IsTrue, OnlyIn
  <2> QED BY <1>5, <1>6, <2>1, <2>2
<1> QED BY <1>4, <1>5, <1>6

(* QuickBooks' invoices stay known: a session is saved, or goes on.         *)
LEMMA NextOursKnown ==
  ASSUME SoloInvariant, OnlyOurs, [Next]_vars, faults' = faults, edits' = edits,
         crashes' = crashes, NEW r \in Realms, NEW e \in DOMAIN qbo'[r]
  PROVE  \/ \E i \in DOMAIN invoices' : invoices'[i].company = r /\ invoices'[i].ext = e
         \/ \E w \in Workers :
              Saving(w)' /\ work'[w].obj.company = r /\ work'[w].obj.ext = e
<1> USE DEF SoloInvariant
<1>1. ASSUME NEW i \in DOMAIN invoices, e \in DOMAIN qbo[r],
             invoices[i].company = r, invoices[i].ext = e
      PROVE  i \in DOMAIN invoices' /\ invoices'[i].company = r /\ invoices'[i].ext = e
  <2>1. HasLink(i)
    BY <1>1, LenProperties DEF HasLink, NoLink, QueueInvariant, TypeOK, QuickBooksTypeOK
  <2> QED BY <1>1, <2>1, LinksOnlyUnlinked, NextOwnersKeep DEF LinksStay, OwnersKeep
<1>2. ASSUME NEW w \in Workers, Saving(w), work[w].obj.company = r, work[w].obj.ext = e
      PROVE  \/ Saving(w)' /\ work'[w].obj.company = r /\ work'[w].obj.ext = e
             \/ \E i \in DOMAIN invoices' : invoices'[i].company = r /\ invoices'[i].ext = e
  <2>1. CASE work'[w] = work[w] /\ phase'[w] = phase[w]
    BY <1>2, <2>1 DEF Saving
  <2>2. CASE Saves(w, work[w].inv)
    <3>1. PICK i : i = work[w].inv
      OBVIOUS
    <3>2. i \in DOMAIN invoices
      BY <1>2, <3>1, LoadedRow DEF Saving, Free
    <3>3. invoices'[i].company = r /\ invoices'[i].ext = e
      BY <1>2, <2>2, <3>1, <3>2, SavedToken
    <3> QED BY <3>2, <3>3, NextOwnersKeep DEF OwnersKeep
  <2> QED BY <1>2, <2>1, <2>2, Committed
<1>3. CASE e \in DOMAIN qbo[r]
  BY <1>1, <1>2, <1>3 DEF OnlyOurs
<1>4. CASE e \notin DOMAIN qbo[r]
  <2>1. PICK w \in Workers : Posts(w)
    BY <1>4, OwnWrite
  <2>2. phase'[w] = "jobs" /\ work'[w].at \in {"write", "rewrite"}
    BY <2>1, OwnPush
  <2>3. Saving(w)'
    BY <2>2 DEF Saving
  <2>4. work'[w].obj.company = r /\ work'[w].obj.ext = e
    BY <1>4, <2>1, OwnPush
  <2> QED BY <2>3, <2>4
<1> QED BY <1>3, <1>4

(* What QuickBooks answers a job is up to date, until it is committed.      *)
LEMMA NextSavesUpToDate ==
  ASSUME SoloInvariant, OnlyOurs, [Next]_vars, faults' = faults, edits' = edits,
         NEW solo, Workers = {solo}, Saving(solo)'
  PROVE  UpToDate(work[solo].obj)'
<1> USE DEF SoloInvariant
<1> DEFINE t == work[solo]
           s == work'[solo]
<1>1. phase'[solo] = "jobs" /\ s.at \in {"write", "rewrite"} /\ ~Free(s)
  BY DEF Saving, Free
<1>2. ASSUME Posts(solo) PROVE UpToDate(work[solo].obj)'
  <2>1. PICK o : o = s.obj
    OBVIOUS
  <2>2. qbo'[o.company][o.ext].status # "Live" \/ o.token = qbo'[o.company][o.ext].token
    BY <1>2, <2>1, OwnPush
  <2> QED BY <2>1, <2>2 DEF UpToDate
<1>3. ASSUME NEW o, s.obj = o, UNCHANGED qbo, UpToDate(o) PROVE UpToDate(work[solo].obj)'
  BY <1>3 DEF UpToDate, OnlyIn
<1>4. CASE UNCHANGED qbo /\ ~Posts(solo)
  <2>1. CASE s = t /\ phase'[solo] = phase[solo]
    <3>1. Saving(solo)
      BY <1>1, <2>1 DEF Saving
    <3>2. UpToDate(t.obj)
      BY <3>1 DEF OnlyOurs
    <3> QED BY <1>3, <1>4, <2>1, <3>2
  <2>2. CASE StartsJob(solo)
    <3>1. /\ s.id \in DOMAIN jobs /\ s.at = Entry(jobs[s.id], s.loaded)
      BY <2>2, StartedJob
    <3> HIDE DEF s
    <3>2. jobs[s.id] \in Job
      BY <3>1, LenProperties DEF QueueInvariant, TypeOK, StoreTypeOK
    <3>3. jobs[s.id].op \in {"create", "update", "delete", "void"}
      BY <3>2 DEF Job
    <3> QED BY <1>1, <3>1, <3>3 DEF Entry
  <2>3. CASE StartsEvent(solo) /\ phase'[solo] = phase[solo]
    BY <1>1, <2>3 DEF StartsEvent
  <2>4. CASE GoesOn(solo)
    <3>1. t.at \in Calls /\ phase[solo] = "jobs"
      BY <1>1, <2>4 DEF GoesOn
    <3>2. t.at # "fetch"
      BY <3>1 DEF QueueInvariant, WorksOnItsBatch
    <3>3. Sends(solo)
      BY <1>1, <2>4, <3>2 DEF GoesOn, Reads, Marks
    <3>4. PICK d : Takes(solo, "write", Linked(t.obj, d, qbo[t.obj.company][d].token))
      BY <1>1, <1>4, <3>3 DEF Sends, Posts, Marks, Takes
    <3> DEFINE o == Linked(t.obj, d, qbo[t.obj.company][d].token)
    <3>5. t.obj \in Row
      BY Typed
    <3>6. s.obj = o
      BY <3>4 DEF Takes
    <3>7. o.company = t.obj.company /\ o.ext = d /\ o.token = qbo[t.obj.company][d].token
      BY <3>5 DEF Linked, Row
    <3> HIDE DEF o
    <3>8. UpToDate(o)
      BY <3>7 DEF UpToDate
    <3> QED BY <1>3, <1>4, <3>6, <3>8
  <2>5. ~Fails(solo)
    BY <1>1 DEF Fails, Marks
  <2> HIDE DEF s, t
  <2> QED BY <1>1, <2>1, <2>2, <2>3, <2>4, <2>5, NextTask DEF TaskMoves, s, t
<1> QED BY <1>2, <1>4, OwnWrite DEF Posts

(* A linked row is up to date, or what it is behind of is being saved.      *)
LEMMA NextRowsUpToDate ==
  ASSUME SoloInvariant, OneRow, OnlyOurs, [Next]_vars, faults' = faults, edits' = edits,
         crashes' = crashes, NEW solo, Workers = {solo},
         NEW i \in DOMAIN invoices', invoices'[i].ext # NoLink
  PROVE  UpToDate(invoices[i])' \/ (Saving(solo)' /\ work'[solo].inv = i)
<1> USE DEF SoloInvariant
<1> DEFINE Goal == UpToDate(invoices[i])' \/ (Saving(solo)' /\ work'[solo].inv = i)
<1>1. ASSUME UNCHANGED qbo, NEW row, UpToDate(row), invoices'[i].company = row.company,
             invoices'[i].ext = row.ext, invoices'[i].token = row.token
      PROVE  UpToDate(invoices[i])'
  BY <1>1 DEF UpToDate, OnlyIn
<1>2. ASSUME ~Free(work[solo]), work[solo].at \in {"write", "rewrite", "insert"}
      PROVE  UpToDate(work[solo].obj)
  <2>1. CASE phase[solo] = "jobs"
    BY <1>2, <2>1 DEF SessionInvariant, Shaped, JobShape, Saving, OnlyOurs
  <2>2. CASE phase[solo] = "events"
    BY <1>2, <2>2, OwnEcho DEF UpToDate
  <2> QED BY <2>1, <2>2, Typed
<1>3. ASSUME RowLinked(solo, i) PROVE Goal
  <2>1. UNCHANGED qbo /\ ~Free(work[solo]) /\ work[solo].at \in {"write", "insert"}
    BY <1>3 DEF RowLinked, qboVars, Links, Free
  <2>2. PICK o : o = work[solo].obj
    OBVIOUS
  <2>3. invoices'[i].ext = o.ext /\ invoices'[i].company = o.company /\ invoices'[i].token = o.token
    BY <1>3, <2>2 DEF RowLinked
  <2> QED BY <1>1, <1>2, <2>1, <2>2, <2>3
<1>4. ASSUME i \in DOMAIN invoices, HasLink(i), Saves(solo, i) PROVE Goal
  <2>1. UNCHANGED qbo /\ ~Free(work[solo]) /\ work[solo].at \in {"write", "rewrite"}
    BY <1>4 DEF Saves, qboVars, Free
  <2>2. PICK o : o = work[solo].obj
    OBVIOUS
  <2>3. invoices'[i].ext = o.ext /\ invoices'[i].company = o.company /\ invoices'[i].token = o.token
    BY <1>4, <2>2, SavedToken
  <2> QED BY <1>1, <1>2, <2>1, <2>2, <2>3
<1>5. ASSUME i \in DOMAIN invoices, HasLink(i), ~Saves(solo, i) PROVE Goal
  <2>0. PICK row : row = invoices[i]
    OBVIOUS
  <2> DEFINE r == row.company
             e == row.ext
  <2>1. /\ invoices'[i].company = r /\ invoices'[i].ext = e
        /\ invoices'[i].token = row.token
    BY <1>5, <2>0, NextTokens
  <2>2. r \in Realms /\ e \in DOMAIN qbo[r]
    BY <1>5, <2>0, Typed DEF LinksKnown, Known
  <2>3. CASE ~Saving(solo) \/ work[solo].inv # i
    <3>1. UpToDate(row)
      BY <1>5, <2>0, <2>3 DEF OnlyOurs
    <3>2. CASE UNCHANGED qbo
      BY <1>1, <2>1, <3>1, <3>2
    <3>3. ASSUME Posts(solo) PROVE Goal
      <4>1. PICK o : o = work'[solo].obj
        OBVIOUS
      <4>2. PICK k : k = work[solo].inv
        OBVIOUS
      <4>3. /\ Saving(solo)' /\ work'[solo].inv = k /\ ~Free(work[solo]) /\ phase[solo] = "jobs"
            /\ \A c \in Realms : \A d \in DOMAIN qbo'[c] :
                 <<c, d>> # <<o.company, o.ext>> => d \in DOMAIN qbo[c] /\ qbo'[c][d] = qbo[c][d]
            /\ o.ext \in DOMAIN qbo[o.company] =>
                 work[solo].loaded.company = o.company /\ work[solo].loaded.ext = o.ext
        BY <3>3, <4>1, <4>2, OwnPush DEF Saving
      <4>4. CASE <<r, e>> = <<o.company, o.ext>>
        <5>1. r = o.company /\ e = o.ext
          BY <4>4
        <5>2. work[solo].loaded.company = r /\ work[solo].loaded.ext = e
          BY <2>2, <4>3, <5>1
        <5>3. k \in DOMAIN invoices /\ invoices[k].company = r /\ invoices[k].ext = e
          BY <4>2, <4>3, <5>2, LoadedRow
        <5>4. i = k
          BY <1>5, <2>0, <5>3 DEF OneRow
        <5> QED BY <4>3, <5>4
      <4>5. CASE <<r, e>> # <<o.company, o.ext>>
        <5>1. e \in DOMAIN qbo'[r]
          BY <2>2, KnownStays
        <5>2. qbo'[r][e] = qbo[r][e]
          BY <2>2, <4>3, <4>5, <5>1
        <5>3. OnlyIn(r, e)' => OnlyIn(r, e)
          BY <2>2, KnownStays
        <5> QED BY <2>1, <3>1, <5>2, <5>3 DEF UpToDate, OnlyIn
      <4> QED BY <4>4, <4>5
    <3> QED BY <3>2, <3>3, OwnWrite DEF Posts
  <2>4. CASE Saving(solo) /\ work[solo].inv = i
    BY <1>5, <2>4, Committed DEF Saving
  <2> QED BY <2>3, <2>4
<1>6. CASE i \in DOMAIN invoices /\ HasLink(i)
  BY <1>4, <1>5, <1>6
<1>7. CASE i \notin DOMAIN invoices \/ ~HasLink(i)
  <2>1. RowLinked(solo, i)
    BY <1>7, LinkedRow
  <2> QED BY <1>3, <2>1
<1> QED BY <1>6, <1>7

(* The invoice whose echo an event is about to commit is the row it found.  *)
LEMMA EchoRow ==
  ASSUME SoloInvariant, NEW w \in Workers, phase[w] = "events", work[w].at = "write",
         OnlyIn(notes[work[w].id].realm, notes[work[w].id].ext)
  PROVE  LET n == notes[work[w].id]  i == work[w].inv IN
           /\ EventShape(work[w], n) /\ n.realm \in Realms /\ n.ext \in DOMAIN qbo[n.realm]
           /\ i \in DOMAIN invoices /\ HasLink(i)
           /\ invoices[i].company = n.realm /\ invoices[i].ext = n.ext
<1> USE DEF SoloInvariant
<1> DEFINE t == work[w]
           n == notes[t.id]
<1>1. /\ ~Free(t) /\ EventShape(t, n) /\ t.inv # 0 /\ t.inv \in DOMAIN invoices
      /\ t.loaded.ext = n.ext
  BY AtWork DEF SessionInvariant, Shaped, Free, EventShape
<1>2. n.realm \in Realms /\ n.ext \in Nat \ {0} /\ n.ext \in DOMAIN qbo[n.realm]
  <2>1. t.id \in DOMAIN notes
    BY <1>1, AtWork
  <2>2. n \in Note
    BY <2>1, Typed
  <2> QED BY <2>1, <2>2 DEF Note, ContentInvariant, NotesAreTrue, IsTrue
<1>3. PICK i : i = t.inv
  OBVIOUS
<1>4. invoices[i].ext = n.ext
  BY <1>1, <1>3 DEF TokenInvariant, TaskReached, HasRow
<1>5. HasLink(i) /\ Known(invoices[i]) /\ invoices[i].company \in Realms
  BY <1>1, <1>2, <1>3, <1>4, Typed DEF HasLink, NoLink, LinksKnown
<1>6. invoices[i].company = n.realm
  BY <1>4, <1>5 DEF Known, OnlyIn
<1> QED BY <1>1, <1>2, <1>3, <1>4, <1>5, <1>6

(* An event has read an update where QuickBooks still answers, and as long  *)
(* as nobody else writes there nothing changes before it commits.           *)
ReadAlive ==
  \A w \in Workers : LET n == notes[work[w].id] IN
    phase[w] = "events" /\ work[w].at = "write" /\ n.op = "updated" =>
      qbo[n.realm][n.ext].status # "Deleted"

LEMMA NextReadAlive ==
  ASSUME SoloInvariant, ReadAlive, [Next]_vars, faults' = faults, edits' = edits,
         NEW solo, Workers = {solo}
  PROVE  ReadAlive'
<1> USE DEF SoloInvariant
<1> DEFINE t == work[solo]
           s == work'[solo]
<1> SUFFICES ASSUME phase'[solo] = "events", s.at = "write", notes'[s.id].op = "updated"
             PROVE  qbo'[notes'[s.id].realm][notes'[s.id].ext].status # "Deleted"
  BY DEF ReadAlive
<1>1. ~Posts(solo)
  BY OwnPush
<1>2. UNCHANGED qbo
  BY <1>1, OwnWrite
<1>3. TaskMoves(solo) /\ ~Free(s) /\ NotesLast
  BY NextTask, NextNotesLast DEF Free
<1>4. CASE s = t /\ phase'[solo] = phase[solo]
  <2>1. t.id \in DOMAIN notes
    BY <1>3, <1>4, AtWork
  <2>2. notes'[s.id] = notes[t.id]
    BY <1>3, <1>4, <2>1 DEF NotesLast
  <2> QED BY <1>2, <1>4, <2>2 DEF ReadAlive
<1>5. CASE StartsEvent(solo) /\ UNCHANGED notes
  <2>1. PICK e \in batch[solo] :
          \/ \E at \in {"skip", "raised"} : s = Begun(e, 0, at, Blank)
          \/ notes[e].op = "created" /\ s = Begun(e, 0, "fetch", Blank)
          \/ \E i \in DOMAIN invoices : Finds(solo, e, i)
    BY <1>5 DEF StartsEvent
  <2>2. PICK i \in DOMAIN invoices : Finds(solo, e, i)
    BY <2>1 DEF Begun
  <2> QED BY <1>5, <2>2 DEF Finds
<1>6. CASE GoesOn(solo)
  <2>1. phase[solo] = "events" /\ t.at \in Calls /\ ~Free(t)
    BY <1>6 DEF GoesOn, Calls, Free
  <2>2. t.id \in DOMAIN notes /\ t.at = "fetch"
    BY <2>1, AtWork DEF SessionInvariant, Shaped, EventShape, Calls
  <2>3. Reads(solo)
    BY <1>1, <1>6, <2>2 DEF GoesOn, Sends, Marks
  <2>4. s.id = t.id
    BY <2>3 DEF Reads, Marks, Takes
  <2>5. notes'[s.id] = notes[t.id]
    BY <1>3, <2>2, <2>4 DEF NotesLast
  <2>6. Readable(notes[t.id].realm, notes[t.id].ext)
    BY <2>3, <2>5 DEF Reads, Marks, Takes
  <2> QED BY <1>2, <2>5, <2>6 DEF Readable
<1>7. ~StartsJob(solo) \/ phase'[solo] # phase[solo]
  BY DEF StartsJob
<1>8. ~Fails(solo)
  BY DEF Fails, Marks
<1> QED BY <1>3, <1>4, <1>5, <1>6, <1>7, <1>8 DEF TaskMoves

(* As long as nobody else writes there, a job voided what is voided there.  *)
VoidJobOf(i) ==
  \E j \in JobsOf(i) : jobs[j].op = "void" /\ jobs[j].status = "completed"

VoidedHere(r, e) ==
  \/ \E i \in DOMAIN invoices :
       invoices[i].company = r /\ invoices[i].ext = e /\ VoidJobOf(i)
  \/ \E w \in Workers : LET l == work[w].loaded IN
       /\ Saving(w) /\ l.company = r /\ l.ext = e
       /\ jobs[work[w].id].op = "void"

VoidsOurs ==
  \A r \in Realms : \A e \in DOMAIN qbo[r] :
    qbo[r][e].status = "Voided" => VoidedHere(r, e)

(* What was voided by a job stays so: the row keeps its link, the job its   *)
(* outcome, and one about to be saved is saved.                             *)
LEMMA VoidedHereStays ==
  ASSUME SoloInvariant, [Next]_vars, faults' = faults, crashes' = crashes,
         NEW r \in Realms, NEW e \in DOMAIN qbo[r], VoidedHere(r, e)
  PROVE  VoidedHere(r, e)'
<1> USE DEF SoloInvariant
<1>1. e # NoLink /\ JobsKeep /\ OwnersKeep
  BY LenProperties, NextJobsKeep, NextOwnersKeep
     DEF NoLink, QueueInvariant, TypeOK, QuickBooksTypeOK
<1>2. ASSUME NEW i \in DOMAIN invoices, invoices[i].company = r, invoices[i].ext = e
      PROVE  i \in DOMAIN invoices' /\ invoices'[i].company = r /\ invoices'[i].ext = e
  <2>1. HasLink(i)
    BY <1>1, <1>2 DEF HasLink
  <2> QED BY <1>1, <1>2, <2>1, LinksOnlyUnlinked DEF LinksStay, OwnersKeep
<1>3. ASSUME NEW i \in DOMAIN invoices, invoices[i].company = r, invoices[i].ext = e,
             NEW j \in JobsOf(i), jobs[j].op = "void", jobs[j].status = "completed"
      PROVE  VoidedHere(r, e)'
  <2>1. j \in DOMAIN jobs /\ jobs[j].inv = i /\ ~Active(jobs[j])
    BY <1>3 DEF JobsOf, Active
  <2>2. j \in DOMAIN jobs' /\ jobs'[j] = jobs[j]
    BY <1>1, <2>1, DoneStays DEF JobsKeep
  <2> QED BY <1>2, <1>3, <2>1, <2>2 DEF VoidedHere, VoidJobOf, JobsOf
<1>4. ASSUME NEW w \in Workers, Saving(w), work[w].loaded.company = r,
             work[w].loaded.ext = e, jobs[work[w].id].op = "void"
      PROVE  VoidedHere(r, e)'
  <2> DEFINE j == work[w].id
             k == work[w].inv
  <2>1. ~Free(work[w]) /\ phase[w] = "jobs"
    BY <1>4 DEF Saving, Free
  <2>2. /\ j \in DOMAIN jobs /\ jobs[j] \in Job /\ k \in DOMAIN invoices /\ k = jobs[j].inv
        /\ invoices[k].company = r /\ invoices[k].ext = e
    BY <1>4, <2>1, AtWork, LoadedRow
  <2>3. j \in DOMAIN jobs' /\ jobs'[j].op = "void" /\ jobs'[j].inv = k
    BY <1>1, <1>4, <2>2 DEF JobsKeep
  <2>4. CASE work'[w] = work[w] /\ phase'[w] = phase[w]
    BY <1>4, <2>3, <2>4 DEF VoidedHere, Saving
  <2>5. CASE Saves(w, k)
    <3>1. CompleteJob(w)
      BY <2>1, <2>5 DEF Saves, CompleteEvent
    <3>2. jobs'[j].status = "completed"
      BY <2>2, <3>1 DEF CompleteJob, Job
    <3>3. k \in DOMAIN invoices' /\ invoices'[k].company = r /\ invoices'[k].ext = e
      BY <1>2, <2>2
    <3> HIDE DEF j, k
    <3> QED BY <2>3, <3>2, <3>3 DEF VoidedHere, VoidJobOf, JobsOf
  <2> QED BY <1>4, <2>4, <2>5, Committed
<1> QED BY <1>3, <1>4 DEF VoidedHere, VoidJobOf

LEMMA NextVoidsOurs ==
  ASSUME SoloInvariant, VoidsOurs, [Next]_vars, faults' = faults, edits' = edits,
         crashes' = crashes
  PROVE  VoidsOurs'
<1> USE DEF SoloInvariant
<1> SUFFICES ASSUME NEW r \in Realms, NEW e \in DOMAIN qbo'[r], qbo'[r][e].status = "Voided"
             PROVE  VoidedHere(r, e)'
  BY DEF VoidsOurs
<1>1. CASE e \in DOMAIN qbo[r] /\ qbo'[r][e] = qbo[r][e]
  BY <1>1, VoidedHereStays DEF VoidsOurs
<1>2. CASE ~(e \in DOMAIN qbo[r] /\ qbo'[r][e] = qbo[r][e])
  <2>1. PICK w \in Workers : Posts(w)
    BY <1>2, OwnWrite
  <2> DEFINE t == work[w]
             s == work'[w]
             o == s.obj
  <2>2. /\ phase'[w] = "jobs" /\ UNCHANGED storeVars
        /\ \A c \in Realms : \A d \in DOMAIN qbo'[c] :
             <<c, d>> # <<o.company, o.ext>> => d \in DOMAIN qbo[c] /\ qbo'[c][d] = qbo[c][d]
        /\ o.ext \in DOMAIN qbo[o.company] =>
             t.loaded.company = o.company /\ t.loaded.ext = o.ext
        /\ s.id = t.id /\ s.loaded = t.loaded
        /\ qbo'[o.company][o.ext].status = "Voided" =>
             o.ext \in DOMAIN qbo[o.company] /\ jobs[t.id].op = "void" /\ s.at = "write"
    BY <2>1, OwnPush
  <2> HIDE DEF t, s, o
  <2>3. o.company = r /\ o.ext = e
    BY <1>2, <2>2
  <2>4. s.at = "write" /\ s.loaded.company = r /\ s.loaded.ext = e /\ jobs'[s.id].op = "void"
    BY <2>2, <2>3 DEF storeVars
  <2> QED BY <2>2, <2>4 DEF VoidedHere, Saving, s
<1> QED BY <1>1, <1>2

(* With one worker, as long as no QuickBooks user wrote, no call failed and *)
(* no process died, the notification of a create this service pushed itself *)
(* changes nothing, and that of an update only where a job of this service  *)
(* has voided the invoice by then: the handler read what the void left.     *)
THEOREM EchoesAreAbsorbed ==
  ASSUME NEW solo, Workers = {solo}
  PROVE  Spec => []EchoAbsorbed
<1> DEFINE Clean == edits + faults + crashes = 0 =>
                      FirstTries /\ OneRow /\ OnlyOurs /\ ReadAlive /\ VoidsOurs
<1>1. Init => SoloInvariant /\ Clean
  <2> SUFFICES ASSUME Init PROVE OnlyOurs /\ ReadAlive /\ VoidsOurs
    BY InitSolo, InitClean DEF CleanInvariant
  <2>1. /\ DOMAIN invoices = {} /\ \A r \in Realms : DOMAIN qbo[r] = {}
        /\ \A w \in Workers : work[w] = Idle
    BY DEF Init, StoreInit, WorkerInit, QuickBooksInit
  <2> QED BY <2>1 DEF OnlyOurs, Saving, Idle, ReadAlive, VoidsOurs
<1>2. SoloInvariant /\ [Next]_vars => SoloInvariant'
  BY NextSolo
<1>3. SoloInvariant /\ Clean /\ [Next]_vars => Clean'
  <2> SUFFICES ASSUME SoloInvariant, Clean, [Next]_vars, edits' + faults' + crashes' = 0
               PROVE  FirstTries' /\ OneRow' /\ OnlyOurs' /\ ReadAlive' /\ VoidsOurs'
    OBVIOUS
  <2>1. /\ edits + faults + crashes = 0
        /\ edits' = edits /\ faults' = faults /\ crashes' = crashes
    BY FaultsGrow, CountsGrow DEF SoloInvariant
  <2>2. FirstTries' /\ OneRow'
    BY <2>1, NextFirstTries, NextOneRow
  <2>3. \A r \in Realms : \A e \in DOMAIN qbo'[r] :
          \/ \E i \in DOMAIN invoices' : invoices'[i].company = r /\ invoices'[i].ext = e
          \/ \E w \in Workers :
               Saving(w)' /\ work'[w].obj.company = r /\ work'[w].obj.ext = e
    BY <2>1, NextOursKnown
  <2>4. \A w \in Workers : Saving(w)' => UpToDate(work[w].obj)'
    BY <2>1, NextSavesUpToDate
  <2>5. \A i \in DOMAIN invoices' : invoices'[i].ext # NoLink =>
          UpToDate(invoices[i])' \/ (Saving(solo)' /\ work'[solo].inv = i)
    BY <2>1, NextRowsUpToDate
  <2>6. ReadAlive' /\ VoidsOurs'
    BY <2>1, NextReadAlive, NextVoidsOurs
  <2> QED BY <2>2, <2>3, <2>4, <2>5, <2>6 DEF OnlyOurs, HasLink
<1>4. SoloInvariant /\ Clean => EchoAbsorbed
  <2> SUFFICES ASSUME SoloInvariant, Clean, WritesEcho(solo)
               PROVE  LET i == work[solo].inv IN
                        /\ work[solo].at = "write" /\ HasLink(i)
                        /\ Counterpart(i).status = "Voided" /\ VoidJobOf(i)
    BY DEF EchoAbsorbed, VoidJobOf
  <2> DEFINE t == work[solo]
             n == notes[t.id]
             i == t.inv
             q == qbo[n.realm][n.ext]
  <2>1. /\ phase[solo] = "events" /\ t.at \in {"write", "insert"}
        /\ n.op \in {"created", "updated"} /\ OnlyIn(n.realm, n.ext)
        /\ FirstTries /\ OneRow /\ OnlyOurs /\ ReadAlive /\ VoidsOurs
    BY DEF WritesEcho
  <2>2. t.at = "write" /\ q.status # "Live"
    BY <2>1, OwnEcho
  <2>3. /\ EventShape(t, n) /\ n.realm \in Realms /\ n.ext \in DOMAIN qbo[n.realm]
        /\ i \in DOMAIN invoices /\ HasLink(i)
        /\ invoices[i].company = n.realm /\ invoices[i].ext = n.ext
    BY <2>1, <2>2, EchoRow
  <2>4. n.op = "updated"
    BY <2>1, <2>2, <2>3 DEF EventShape
  <2>5. q.status # "Deleted"
    BY <2>1, <2>2, <2>4 DEF ReadAlive
  <2>6. q.status = "Voided"
    BY <2>2, <2>3, <2>5, QboRow DEF QboInvoice, SoloInvariant
  <2>7. VoidedHere(n.realm, n.ext)
    BY <2>1, <2>3, <2>6 DEF VoidsOurs
  <2>8. PICK k \in DOMAIN invoices :
          invoices[k].company = n.realm /\ invoices[k].ext = n.ext /\ VoidJobOf(k)
    BY <2>1, <2>7 DEF VoidedHere, Saving
  <2>9. k = i
    BY <2>1, <2>3, <2>8 DEF OneRow
  <2> QED BY <2>2, <2>3, <2>6, <2>8, <2>9 DEF Counterpart
<1> QED BY <1>1, <1>2, <1>3, <1>4, PTL DEF Spec
------------------------------------------------------------------------------
(* With one worker and no failed calls, whatever is delivered again or in   *)
(* another order, no second row ever stands for one invoice of QuickBooks.  *)
THEOREM RowsAreSingle ==
  ASSUME NEW solo, Workers = {solo}
  PROVE  Spec => []SingleRow
<1> DEFINE Clean == faults = 0 => CleanInvariant
<1>1. Init => SoloInvariant /\ Clean
  BY InitSolo, InitClean
<1>2. SoloInvariant /\ [Next]_vars => SoloInvariant'
  BY NextSolo
<1>3. SoloInvariant /\ Clean /\ [Next]_vars => Clean'
  <2> SUFFICES ASSUME SoloInvariant, Clean, [Next]_vars, faults' = 0 PROVE CleanInvariant'
    OBVIOUS
  <2>1. faults = 0 /\ faults' = faults
    BY FaultsGrow DEF SoloInvariant
  <2> QED BY <2>1, NextClean
<1>4. SoloInvariant /\ Clean => SingleRow
  <2> SUFFICES ASSUME SoloInvariant, Clean, faults = 0, NEW i \in DOMAIN invoices,
                      NEW k \in DOMAIN invoices, HasLink(i), NoNamesake(i),
                      invoices[k].ext = invoices[i].ext
               PROVE  i = k
    BY DEF SingleRow
  <2>1. Sole(i)
    BY OnlyIsSole DEF CleanInvariant
  <2> QED BY <2>1 DEF Sole, Lookup
<1> QED BY <1>1, <1>2, <1>3, <1>4, PTL DEF Spec
==============================================================================
