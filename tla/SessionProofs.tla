---------------------------- MODULE SessionProofs ----------------------------
(****************************************************************************)
(* What overlapping sessions can and cannot undo, for any number of         *)
(* workers, threads, edits, faults and crashes.  A session writes the       *)
(* columns it changed, so the arguments are about what its object says next *)
(* to the one it loaded, from the load to the commit.                       *)
(****************************************************************************)
EXTENDS StepProofs

(* The executor's object: what was loaded, but for what the answer put on   *)
(* it.                                                                      *)
JobShape(t, op) ==
  LET o == t.obj  l == t.loaded IN
    /\ t.at \notin {"fetch", "insert"}
    /\ t.at \in {"create", "query"} => op = "create" /\ l.ext = NoLink
    /\ t.at \in {"update", "reread", "repost", "rewrite"} => op = "update"
    /\ t.at \in {"delete", "void"} => op = t.at
    /\ t.at = "skip" => op = "create" /\ l.ext # NoLink
    /\ o.company = l.company /\ o.origin = l.origin
    /\ o.deleted = l.deleted /\ o.content = l.content
    /\ t.at # "raised" =>
         /\ o.sync = IF t.at \in {"write", "rewrite"} THEN "complete" ELSE l.sync
         /\ IF op = "create" /\ t.at = "write"
            THEN o.status = "Open" /\ l.ext = NoLink
            ELSE o.status = l.status /\ o.ext = l.ext
         /\ op # "update" /\ ~(op = "create" /\ t.at = "write") => o.token = l.token
    /\ t.at \in {"update", "reread"} => o.token = l.token

(* The handler's object: a new invoice, or the one found with what the      *)
(* notification is about.                                                   *)
EventShape(t, n) ==
  LET o == t.obj  l == t.loaded IN
    /\ t.at \in {"fetch", "skip", "insert", "write", "raised", "conflict"}
    /\ t.inv # 0 => l.ext = n.ext
    /\ t.at \notin {"insert", "raised"} =>
         o.company = l.company /\ o.origin = l.origin /\ o.ext = l.ext
    /\ t.at = "fetch" =>
         /\ o = l
         /\ \/ n.op = "created" /\ t.inv = 0
            \/ n.op = "updated" /\ t.inv # 0
    /\ t.at = "insert" =>
         /\ n.op = "created" /\ t.inv = 0
         /\ o.company = n.realm /\ o.origin = "qbo" /\ o.ext = n.ext
         /\ o.status = "Created" /\ ~o.deleted /\ o.sync = "complete"
    /\ t.at = "write" =>
         /\ t.inv # 0 /\ o.sync = "complete"
         /\ \/ /\ n.op = "updated" /\ Newer(o.token, l.token)
               /\ o.status = l.status /\ o.deleted = l.deleted
            \/ /\ n.op = "deleted" /\ o.status = "Deleted" /\ o.deleted /\ ~l.deleted
               /\ o.token = l.token /\ o.content = l.content
            \/ /\ n.op = "voided" /\ o.status = "Voided" /\ o.deleted = l.deleted
               /\ o.token = l.token /\ o.content = l.content
               /\ l.status # "Voided" /\ ~l.deleted

(* The object of a handler of the API.                                      *)
RequestShape(q) ==
  LET o == q.obj  l == q.loaded IN q.op # "none" =>
    /\ o.company = l.company /\ o.origin = l.origin
    /\ o.ext = l.ext /\ o.token = l.token
    /\ o.sync = "pending"
    /\ q.op = "update" =>
         o.deleted = l.deleted /\ o.status \in PutStatuses \cup {l.status}
    /\ q.op = "delete" =>
         o.deleted /\ ~l.deleted /\ o.status = "Deleted" /\ o.content = l.content
    /\ q.op = "void" =>
         o.deleted = l.deleted /\ o.status = "Voided" /\ o.content = l.content

(* An invoice stays its company's, and local or not.                        *)
SameOwner(i, row) ==
  row.company = invoices[i].company /\ row.origin = invoices[i].origin

Shaped(w) ==
  LET t == work[w] IN
    ~Free(t) =>
      /\ phase[w] = "jobs" => t.inv = jobs[t.id].inv /\ JobShape(t, jobs[t.id].op)
      /\ phase[w] = "events" => EventShape(t, notes[t.id])
      /\ t.inv # 0 => SameOwner(t.inv, t.loaded)

SessionInvariant ==
  /\ \A w \in Workers : Shaped(w)
  /\ \A t \in Threads :
       /\ RequestShape(request[t])
       /\ request[t].op # "none" => SameOwner(request[t].inv, request[t].loaded)

DeletedStay ==
  \A i \in DOMAIN invoices : invoices[i].deleted => invoices'[i].deleted
------------------------------------------------------------------------------
(* What never changes of a row, a job and a notification.                   *)
OwnersKeep ==
  \A i \in DOMAIN invoices :
    /\ i \in DOMAIN invoices'
    /\ invoices'[i].company = invoices[i].company
    /\ invoices'[i].origin = invoices[i].origin

JobsKeep ==
  \A j \in DOMAIN jobs :
    j \in DOMAIN jobs' /\ jobs'[j].op = jobs[j].op /\ jobs'[j].inv = jobs[j].inv

NotesLast == \A n \in DOMAIN notes : n \in DOMAIN notes' /\ notes'[n] = notes[n]

(* No commit moves an invoice to another company or origin.                 *)
LEMMA NextOwnersKeep ==
  ASSUME QueueInvariant, [Next]_vars PROVE OwnersKeep
<1>1. invoices \in Seq(Row) /\ \A i \in DOMAIN invoices : invoices[i] \in Row
  BY RowType DEF QueueInvariant, TypeOK, StoreTypeOK
<1>2. CASE DOMAIN invoices' = DOMAIN invoices /\ \A i \in DOMAIN invoices : RowSteps(i)
  <2>1. ASSUME NEW i \in DOMAIN invoices
        PROVE  /\ invoices'[i].company = invoices[i].company
               /\ invoices'[i].origin = invoices[i].origin
    <3>1. CASE invoices'[i] = invoices[i]
      BY <3>1
    <3>2. ASSUME NEW loaded, NEW obj, invoices'[i] = Merge(invoices[i], loaded, obj)
          PROVE  /\ invoices'[i].company = invoices[i].company
                 /\ invoices'[i].origin = invoices[i].origin
      BY <3>2 DEF Merge
    <3>3. CASE invoices'[i] = [invoices[i] EXCEPT !.sync = "failed"]
      BY <1>1, <3>3 DEF Row
    <3> QED BY <1>2, <3>1, <3>2, <3>3 DEF RowSteps, Commits, Saves, GivesUp
  <2> QED BY <1>2, <2>1 DEF OwnersKeep
<1>3. CASE NewRow
  <2>1. Len(invoices) \in Nat /\ DOMAIN invoices = 1 .. Len(invoices)
    BY <1>1, LenProperties
  <2>2. /\ DOMAIN invoices' = 1 .. Len(invoices) + 1
        /\ \A k \in DOMAIN invoices : invoices'[k] = invoices[k]
    BY <1>3 DEF NewRow
  <2> QED BY <2>1, <2>2 DEF OwnersKeep
<1> QED BY <1>2, <1>3, NextRows DEF RowsStep

(* No step changes what a job is to do, nor to which invoice.               *)
LEMMA NextJobsKeep ==
  ASSUME QueueInvariant, [Next]_vars PROVE JobsKeep
<1>1. jobs \in Seq(Job) /\ \A j \in DOMAIN jobs : jobs[j] \in Job
  BY LenProperties DEF QueueInvariant, TypeOK, StoreTypeOK
<1>2. CASE DOMAIN jobs' = DOMAIN jobs /\ \A j \in DOMAIN jobs : JobSteps(j)
  <2>1. ASSUME NEW j \in DOMAIN jobs
        PROVE  jobs'[j].op = jobs[j].op /\ jobs'[j].inv = jobs[j].inv
    BY <1>1, <1>2 DEF JobSteps, Reattempt, Job
  <2> QED BY <1>2, <2>1 DEF JobsKeep
<1>3. ASSUME NEW i, NEW op, NewJob(i, op) PROVE JobsKeep
  BY <1>1, <1>3, LenProperties DEF NewJob, JobsKeep
<1> QED BY <1>2, <1>3, NextJobs DEF JobsStep

(* QuickBooks takes no notification back.                                   *)
LEMMA NextNotesLast ==
  ASSUME QueueInvariant, [Next]_vars PROVE NotesLast
<1>1. notes \in Seq(Note)
  BY DEF QueueInvariant, TypeOK, QuickBooksTypeOK
<1>2. ASSUME UNCHANGED notes PROVE NotesLast
  BY <1>2 DEF NotesLast
<1>3. ASSUME NEW note, notes' = Append(notes, note) PROVE NotesLast
  BY <1>1, <1>3, LenProperties, AppendProperties DEF NotesLast
<1>4. CASE UserStep
  <2>1. CASE \E r \in Realms : UserCreates(r)
    BY <1>3, <2>1 DEF UserCreates, Insert, Notify
  <2>2. CASE \E r \in Realms : UserWrites(r)
    BY <1>3, <2>2 DEF UserWrites, Overwrite, Notify
  <2> QED BY <1>4, <2>1, <2>2 DEF UserStep
<1>5. ASSUME NEW w \in Workers, ExecutorStep(w) PROVE NotesLast
  <2>1. CASE BeginJob(w) \/ QueryByDocNumber(w) \/ Rejected(w) \/ Reread(w)
    BY <1>2, <2>1 DEF BeginJob, QueryByDocNumber, Rejected, Reread, qboVars
  <2>2. CASE PostCreate(w) \/ PostUpdate(w) \/ PostDeleteOrVoid(w)
    BY <1>3, <2>2 DEF PostCreate, PostUpdate, PostDeleteOrVoid, Insert, Overwrite, Notify
  <2> QED BY <1>5, <2>1, <2>2 DEF ExecutorStep
<1>6. ASSUME NEW w \in Workers, LoopStep(w) \/ HandlerStep(w) PROVE UNCHANGED notes
  BY <1>6 DEF LoopStep, PollJobs, PollEvents, Select, ClaimJobs, ClaimEvents, CompleteJob,
     RetryJob, AbortJob, CompleteEvent, RetryEvent, HandlerStep, BeginEvent, Fetch,
     HandlerFrame, qboVars
<1>7. ASSUME NEW w \in Workers,
             EndpointStep(w) \/ AttemptFails(w) \/ Crash(w) \/ Restart(w)
      PROVE  UNCHANGED notes
  BY <1>7 DEF EndpointStep, StoreEvent, CheckStored, AttemptFails, Crash, Restart, qboVars
<1>8. ASSUME NEW n, RepeatUnidentified(n) PROVE NotesLast
  BY <1>3, <1>8 DEF RepeatUnidentified
<1>9. CASE Wakes \/ UNCHANGED vars \/ UNCHANGED qboVars
  BY <1>2, <1>9 DEF Wakes, vars, qboVars
<1> QED BY <1>2, <1>4, <1>5, <1>6, <1>7, <1>8, <1>9 DEF Next, WorkerStep

(* The row a worker works on is in its table.                               *)
LEMMA AtWork ==
  ASSUME QueueInvariant, NEW w \in Workers, ~Free(work[w])
  PROVE  /\ work[w].id \in batch[w]
         /\ phase[w] = "jobs" => work[w].id \in DOMAIN jobs /\ jobs[work[w].id] \in Job
         /\ phase[w] = "events" => work[w].id \in DOMAIN notes
                                   /\ work[w].id \in DOMAIN events
         /\ work[w].inv \in {0} \cup DOMAIN invoices
<1>1. work[w].id \in batch[w]
  BY DEF Free, QueueInvariant, WorksOnItsBatch
<1> QED BY <1>1, LenProperties
        DEF QueueInvariant, HoldsItsQueue, QueueOf, TypeOK, StoreTypeOK, QuickBooksTypeOK,
            WorkerTypeOK
------------------------------------------------------------------------------
(* A job is begun with what is in the table.                                *)
LEMMA StartedJob ==
  ASSUME QueueInvariant, NEW w \in Workers, StartsJob(w)
  PROVE  LET t == work'[w] IN
           /\ t.id \in DOMAIN jobs /\ t.inv = jobs[t.id].inv
           /\ t.inv \in DOMAIN invoices /\ t.inv # 0
           /\ t.loaded = invoices[t.inv] /\ t.obj = t.loaded
           /\ t.at = Entry(jobs[t.id], t.loaded)
           /\ JobShape(t, jobs[t.id].op)
<1> DEFINE t == work'[w]
<1>1. PICK j \in batch[w] :
        t = [at |-> Entry(jobs[j], invoices[jobs[j].inv]), id |-> j, inv |-> jobs[j].inv,
             loaded |-> invoices[jobs[j].inv], obj |-> invoices[jobs[j].inv]]
  BY DEF StartsJob
<1>2. j \in DOMAIN jobs /\ jobs[j] \in Job /\ jobs[j].inv \in DOMAIN invoices
  BY LenProperties DEF StartsJob, QueueInvariant, HoldsItsQueue, QueueOf, TypeOK, StoreTypeOK
<1>3. 0 \notin DOMAIN invoices
  BY LenProperties DEF QueueInvariant, TypeOK, StoreTypeOK
<1>4. /\ t.at = Entry(jobs[j], t.loaded) /\ t.id = j /\ t.inv = jobs[j].inv
      /\ t.loaded = invoices[t.inv] /\ t.obj = t.loaded
  BY <1>1
<1>5. JobShape(t, jobs[j].op)
  <2> HIDE DEF t
  <2> QED BY <1>2, <1>4 DEF JobShape, Entry, Job
<1> QED BY <1>2, <1>3, <1>4, <1>5

(* An event is begun with what is in the table, too.                        *)
LEMMA StartedEvent ==
  ASSUME QueueInvariant, NEW w \in Workers, StartsEvent(w)
  PROVE  LET t == work'[w] IN
           /\ EventShape(t, notes[t.id])
           /\ t.inv # 0 => t.inv \in DOMAIN invoices /\ t.loaded = invoices[t.inv]
<1> DEFINE t == work'[w]
<1>1. PICK e \in batch[w] :
         \/ \E at \in {"skip", "raised"} : t = Begun(e, 0, at, Blank)
         \/ notes[e].op = "created" /\ t = Begun(e, 0, "fetch", Blank)
         \/ \E i \in DOMAIN invoices : Finds(w, e, i)
  BY DEF StartsEvent
<1>2. CASE \/ \E at \in {"skip", "raised"} : t = Begun(e, 0, at, Blank)
           \/ notes[e].op = "created" /\ t = Begun(e, 0, "fetch", Blank)
  <2>1. /\ t.id = e /\ t.inv = 0 /\ t.loaded = Blank /\ t.obj = Blank
        /\ \/ t.at \in {"skip", "raised"}
           \/ t.at = "fetch" /\ notes[e].op = "created"
    BY <1>2 DEF Begun
  <2> QED BY <2>1 DEF EventShape
<1>3. ASSUME NEW i \in DOMAIN invoices, Finds(w, e, i)
      PROVE  /\ EventShape(t, notes[t.id]) /\ t.inv = i /\ t.loaded = invoices[i]
  <2>1. /\ t.id = e /\ t.inv = i /\ t.loaded = invoices[i] /\ i # 0
        /\ invoices[i].ext = notes[e].ext /\ invoices[i] \in Row
    BY <1>3, RowType, LenProperties DEF Finds, Lookup, QueueInvariant, TypeOK, StoreTypeOK
  <2> DEFINE deleted == [invoices[i] EXCEPT !.deleted = TRUE, !.status = "Deleted",
                                            !.sync = "complete"]
             voided  == [invoices[i] EXCEPT !.status = "Voided", !.sync = "complete"]
  <2>2. /\ deleted.company = invoices[i].company /\ deleted.origin = invoices[i].origin
        /\ deleted.ext = invoices[i].ext /\ deleted.sync = "complete" /\ deleted.deleted
        /\ deleted.status = "Deleted" /\ deleted.token = invoices[i].token
        /\ deleted.content = invoices[i].content
    BY <2>1 DEF Row
  <2>3. /\ voided.company = invoices[i].company /\ voided.origin = invoices[i].origin
        /\ voided.ext = invoices[i].ext /\ voided.sync = "complete"
        /\ voided.deleted = invoices[i].deleted
        /\ voided.status = "Voided" /\ voided.token = invoices[i].token
        /\ voided.content = invoices[i].content
    BY <2>1 DEF Row
  <2>4. \/ notes[e].op = "updated" /\ t.at = "fetch" /\ t.obj = invoices[i]
        \/ /\ notes[e].op = "deleted" /\ ~invoices[i].deleted /\ t.at = "write"
           /\ t.obj = deleted
        \/ /\ notes[e].op = "voided" /\ t.at = "write" /\ t.obj = voided
           /\ invoices[i].status # "Voided" /\ ~invoices[i].deleted
    BY <1>3 DEF Finds, VoidIsMoot
  <2> HIDE DEF t, deleted, voided
  <2>5. EventShape(t, notes[t.id])
    BY <2>1, <2>2, <2>3, <2>4 DEF EventShape
  <2> QED BY <2>1, <2>5
<1> QED
  <2>1. CASE \E i \in DOMAIN invoices : Finds(w, e, i)
    BY <1>3, <2>1
  <2>2. CASE ~\E i \in DOMAIN invoices : Finds(w, e, i)
    <3>1. t.inv = 0 /\ EventShape(t, notes[t.id])
      BY <1>1, <1>2, <2>2 DEF Begun
    <3> QED BY <3>1
  <2> QED BY <2>1, <2>2

(* A request answered leaves what was loaded.                               *)
LEMMA SendsKeep ==
  ASSUME NEW w \in Workers, Sends(w)
  PROVE  /\ work'[w].id = work[w].id /\ work'[w].inv = work[w].inv
         /\ work'[w].loaded = work[w].loaded
<1>1. ASSUME NEW at, Marks(w, at)
      PROVE  /\ work'[w].id = work[w].id /\ work'[w].inv = work[w].inv
             /\ work'[w].loaded = work[w].loaded
  BY <1>1 DEF Marks
<1>2. ASSUME NEW at, NEW obj, Takes(w, at, obj)
      PROVE  /\ work'[w].id = work[w].id /\ work'[w].inv = work[w].inv
             /\ work'[w].loaded = work[w].loaded
  BY <1>2 DEF Takes
<1> QED BY <1>1, <1>2 DEF Sends

(* What a requested step makes of a worker's object, for an outbound job.   *)
LEMMA SendsShaped ==
  ASSUME QueueInvariant, NEW w \in Workers, NEW op, JobShape(work[w], op),
         work[w].at \in Calls, Sends(w) \/ \E at \in {"raised", "conflict"} : Marks(w, at)
  PROVE  JobShape(work'[w], op)
<1> DEFINE t == work[w]
           s == work'[w]
           r == t.obj.company
           e == t.obj.ext
<1>1. t.obj \in Row /\ t.loaded \in Row
  BY WorkType
<1>2. ASSUME NEW at \in {"raised", "conflict", "reread", "create"}, Marks(w, at),
             at = "reread" => t.at = "update", at = "create" => t.at = "query"
      PROVE  JobShape(s, op)
  <2>1. s.at = at /\ s.obj = t.obj /\ s.loaded = t.loaded
    BY <1>2 DEF Marks
  <2> HIDE DEF s
  <2> QED BY <1>2, <2>1 DEF JobShape, Calls
<1>3. ASSUME NEW d, NEW token, t.at \in {"create", "query"},
             Takes(w, "write", Linked(t.obj, d, token))
      PROVE  JobShape(s, op)
  <2> DEFINE obj == Linked(t.obj, d, token)
  <2>1. /\ obj.company = t.obj.company /\ obj.origin = t.obj.origin
        /\ obj.deleted = t.obj.deleted /\ obj.content = t.obj.content
        /\ obj.sync = "complete" /\ obj.status = "Open"
    BY <1>1 DEF Linked, Row
  <2>2. s.at = "write" /\ s.obj = obj /\ s.loaded = t.loaded
    BY <1>3 DEF Takes
  <2> HIDE DEF s, obj
  <2> QED BY <1>3, <2>1, <2>2 DEF JobShape
<1>4. ASSUME NEW at, NEW token, Takes(w, at, [t.obj EXCEPT !.token = token, !.sync = "complete"]),
             \/ at = "write" /\ t.at = "update"
             \/ at = "rewrite" /\ t.at = "repost"
      PROVE  JobShape(s, op)
  <2> DEFINE obj == [t.obj EXCEPT !.token = token, !.sync = "complete"]
  <2>1. /\ obj.company = t.obj.company /\ obj.origin = t.obj.origin
        /\ obj.deleted = t.obj.deleted /\ obj.content = t.obj.content
        /\ obj.sync = "complete" /\ obj.status = t.obj.status /\ obj.ext = t.obj.ext
    BY <1>1 DEF Row
  <2>2. s.at = at /\ s.obj = obj /\ s.loaded = t.loaded
    BY <1>4 DEF Takes
  <2> HIDE DEF s, obj
  <2> QED BY <1>4, <2>1, <2>2 DEF JobShape
<1>5. ASSUME t.at \in {"delete", "void"}, Takes(w, "write", [t.obj EXCEPT !.sync = "complete"])
      PROVE  JobShape(s, op)
  <2> DEFINE obj == [t.obj EXCEPT !.sync = "complete"]
  <2>1. /\ obj.company = t.obj.company /\ obj.origin = t.obj.origin
        /\ obj.deleted = t.obj.deleted /\ obj.content = t.obj.content
        /\ obj.sync = "complete" /\ obj.status = t.obj.status /\ obj.ext = t.obj.ext
        /\ obj.token = t.obj.token
    BY <1>1 DEF Row
  <2>2. s.at = "write" /\ s.obj = obj /\ s.loaded = t.loaded
    BY <1>5 DEF Takes
  <2> HIDE DEF s, obj
  <2> QED BY <1>5, <2>1, <2>2 DEF JobShape
<1>6. ASSUME NEW token, t.at = "reread", Takes(w, "repost", [t.obj EXCEPT !.token = token])
      PROVE  JobShape(s, op)
  <2> DEFINE obj == [t.obj EXCEPT !.token = token]
  <2>1. /\ obj.company = t.obj.company /\ obj.origin = t.obj.origin
        /\ obj.deleted = t.obj.deleted /\ obj.content = t.obj.content
        /\ obj.sync = t.obj.sync /\ obj.status = t.obj.status /\ obj.ext = t.obj.ext
    BY <1>1 DEF Row
  <2>2. s.at = "repost" /\ s.obj = obj /\ s.loaded = t.loaded
    BY <1>6 DEF Takes
  <2> HIDE DEF s, obj
  <2> QED BY <1>6, <2>1, <2>2 DEF JobShape
<1> HIDE DEF s
<1>7. ASSUME Sends(w) PROVE JobShape(s, op)
  <2>1. CASE t.at = "update" /\ Marks(w, "reread")
    BY <1>2, <2>1
  <2>2. CASE t.at = "query" /\ Marks(w, "create")
    BY <1>2, <2>2
  <2>3. CASE t.at = "create" /\ Takes(w, "write", Linked(t.obj, Len(qbo[r]) + 1, 0))
    BY <1>3, <2>3
  <2>4. CASE t.at = "query" /\ \E d \in WithDocNumber(r, t.inv) :
               Takes(w, "write", Linked(t.obj, d, qbo[r][d].token))
    BY <1>3, <2>4
  <2>5. CASE \E at \in {"write", "rewrite"} :
               /\ t.at = IF at = "write" THEN "update" ELSE "repost"
               /\ Takes(w, at, [t.obj EXCEPT !.token = qbo[r][e].token + 1,
                                             !.sync = "complete"])
    BY <1>4, <2>5
  <2>6. CASE t.at \in {"delete", "void"} /\ Takes(w, "write", [t.obj EXCEPT !.sync = "complete"])
    BY <1>5, <2>6
  <2>7. CASE t.at = "reread" /\ Takes(w, "repost", [t.obj EXCEPT !.token = qbo[r][e].token])
    BY <1>6, <2>7
  <2> QED BY <1>7, <2>1, <2>2, <2>3, <2>4, <2>5, <2>6, <2>7 DEF Sends
<1> QED BY <1>2, <1>7 DEF s

(* And of the object of an inbound event.                                   *)
LEMMA ReadsShaped ==
  ASSUME QueueInvariant, NEW w \in Workers, EventShape(work[w], notes[work[w].id]),
         Reads(w) \/ \E at \in {"raised", "conflict"} : Marks(w, at), work[w].at \in Calls
  PROVE  /\ EventShape(work'[w], notes[work[w].id])
         /\ work'[w].id = work[w].id /\ work'[w].inv = work[w].inv
         /\ work'[w].loaded.company = work[w].loaded.company
         /\ work'[w].loaded.origin = work[w].loaded.origin
<1> DEFINE t == work[w]
           s == work'[w]
           n == notes[t.id]
           q == qbo[n.realm][n.ext]
<1>1. t.obj \in Row /\ t.loaded \in Row
  BY WorkType
<1>2. t.at = "fetch" /\ t.obj = t.loaded
  BY DEF EventShape, Calls
<1>3. ASSUME NEW at \in {"skip", "raised", "conflict"}, Marks(w, at)
      PROVE  /\ EventShape(s, n)
             /\ s.id = t.id /\ s.inv = t.inv /\ s.loaded = t.loaded
  <2>1. s.at = at /\ s.id = t.id /\ s.inv = t.inv /\ s.obj = t.obj /\ s.loaded = t.loaded
    BY <1>3 DEF Marks
  <2> HIDE DEF s
  <2> QED BY <1>2, <1>3, <2>1 DEF EventShape
<1>4. ASSUME n.op = "created",
             Takes(w, "insert",
                   [company |-> n.realm, origin |-> "qbo", status |-> "Created",
                    deleted |-> FALSE, content |-> q.content, ext |-> n.ext,
                    token |-> q.token, sync |-> "complete"])
      PROVE  /\ EventShape(s, n)
             /\ s.id = t.id /\ s.inv = t.inv /\ s.loaded = t.loaded
  <2>1. /\ s.at = "insert" /\ s.id = t.id /\ s.inv = t.inv /\ s.loaded = t.loaded
        /\ s.obj.company = n.realm /\ s.obj.origin = "qbo" /\ s.obj.status = "Created"
        /\ ~s.obj.deleted /\ s.obj.ext = n.ext /\ s.obj.sync = "complete"
    BY <1>4 DEF Takes
  <2>2. t.inv = 0
    BY <1>2, <1>4 DEF EventShape
  <2> HIDE DEF s
  <2> QED BY <1>2, <1>4, <2>1, <2>2 DEF EventShape
<1>5. ASSUME n.op = "updated", Newer(q.token, t.loaded.token),
             s.at = "write", s.id = t.id, s.inv = t.inv,
             s.obj = Refreshed(t.obj, q), s.loaded = Compared(t.loaded, q)
      PROVE  /\ EventShape(s, n)
             /\ s.loaded.company = t.loaded.company /\ s.loaded.origin = t.loaded.origin
  <2> DEFINE o == Refreshed(t.obj, q)
             l == Compared(t.loaded, q)
  <2>1. /\ o.company = t.obj.company /\ o.origin = t.obj.origin /\ o.ext = t.obj.ext
        /\ o.status = t.obj.status /\ o.deleted = t.obj.deleted
        /\ o.sync = "complete" /\ o.token = q.token
    BY <1>1 DEF Refreshed, Row
  <2>2. /\ l.company = t.loaded.company /\ l.origin = t.loaded.origin
        /\ l.ext = t.loaded.ext /\ l.status = t.loaded.status
        /\ l.deleted = t.loaded.deleted /\ l.token = t.loaded.token
    BY <1>1 DEF Compared, Row
  <2>3. t.inv # 0
    BY <1>2, <1>5 DEF EventShape
  <2> HIDE DEF s, o, l
  <2>4. s.obj = o /\ s.loaded = l
    BY <1>5 DEF o, l
  <2>5. Newer(o.token, l.token)
    BY <1>5, <2>1, <2>2
  <2> QED BY <1>2, <1>5, <2>1, <2>2, <2>3, <2>4, <2>5 DEF EventShape
<1> HIDE DEF s
<1>6. CASE Reads(w)
  BY <1>3, <1>4, <1>5, <1>6 DEF Reads, s, Takes
<1>7. CASE \E at \in {"raised", "conflict"} : Marks(w, at)
  BY <1>3, <1>7 DEF s
<1> QED BY <1>6, <1>7

(* Every worker's object keeps its shape through every step.                *)
LEMMA NextShaped ==
  ASSUME QueueInvariant, SessionInvariant, [Next]_vars, NEW w \in Workers
  PROVE  Shaped(w)'
<1> DEFINE t == work[w]
           s == work'[w]
<1>1. Shaped(w) /\ OwnersKeep /\ JobsKeep /\ NotesLast /\ QueueInvariant'
  BY NextOwnersKeep, NextJobsKeep, NextNotesLast, NextInvariant DEF SessionInvariant
<1>2. phase[w] \in {"jobs", "events"} /\ phase'[w] \in {"jobs", "events"}
  BY <1>1 DEF QueueInvariant, TypeOK, WorkerTypeOK
<1>3. CASE Free(s)
  BY <1>3 DEF Shaped
<1>4. ASSUME ~Free(t), phase'[w] = phase[w], s.id = t.id, s.inv = t.inv,
             phase[w] = "jobs" => JobShape(s, jobs[t.id].op),
             phase[w] = "events" => EventShape(s, notes[t.id]),
             s.loaded.company = t.loaded.company, s.loaded.origin = t.loaded.origin
      PROVE  Shaped(w)'
  <2>1. /\ phase[w] = "jobs" => t.id \in DOMAIN jobs /\ t.inv = jobs[t.id].inv
        /\ phase[w] = "events" => t.id \in DOMAIN notes
        /\ t.inv # 0 => t.inv \in DOMAIN invoices /\ SameOwner(t.inv, t.loaded)
    BY <1>1, <1>4, AtWork DEF Shaped
  <2>2. /\ phase[w] = "jobs" => /\ s.inv = jobs'[s.id].inv
                                /\ jobs'[s.id].op = jobs[t.id].op
        /\ phase[w] = "events" => notes'[s.id] = notes[t.id]
        /\ s.inv # 0 => /\ invoices'[s.inv].company = s.loaded.company
                        /\ invoices'[s.inv].origin = s.loaded.origin
    BY <1>1, <1>4, <2>1 DEF OwnersKeep, JobsKeep, NotesLast, SameOwner
  <2> HIDE DEF s
  <2> QED BY <1>4, <2>2 DEF Shaped, SameOwner, s
<1>5. CASE s = t /\ ~Free(t) /\ phase'[w] = phase[w]
  BY <1>1, <1>4, <1>5 DEF Shaped
<1>6. CASE phase'[w] = phase[w] /\ UNCHANGED <<storeVars, notes>> /\ StartsJob(w)
  <2>1. /\ s.id \in DOMAIN jobs /\ s.inv = jobs[s.id].inv /\ s.loaded = invoices[s.inv]
        /\ JobShape(s, jobs[s.id].op)
    BY <1>6, StartedJob
  <2>2. phase[w] = "jobs" /\ UNCHANGED <<invoices, jobs>>
    BY <1>6 DEF StartsJob, storeVars
  <2> HIDE DEF s
  <2> QED BY <1>6, <2>1, <2>2 DEF Shaped, SameOwner, s
<1>7. CASE phase'[w] = phase[w] /\ UNCHANGED <<storeVars, notes>> /\ StartsEvent(w)
  <2>1. /\ EventShape(s, notes[s.id])
        /\ s.inv # 0 => s.inv \in DOMAIN invoices /\ s.loaded = invoices[s.inv]
    BY <1>7, StartedEvent
  <2>2. phase[w] = "events" /\ UNCHANGED <<invoices, notes>>
    BY <1>7 DEF StartsEvent, storeVars
  <2> HIDE DEF s
  <2> QED BY <1>7, <2>1, <2>2 DEF Shaped, SameOwner, s
<1>8. CASE GoesOn(w)
  <2>1. ~Free(t) /\ t.at \in Calls /\ phase'[w] = phase[w]
    BY <1>8 DEF GoesOn, Free, Calls
  <2>2. CASE phase[w] = "jobs"
    <3>1. JobShape(t, jobs[t.id].op)
      BY <1>1, <2>1, <2>2 DEF Shaped
    <3>2. ~Reads(w)
      BY <3>1 DEF JobShape, Reads
    <3>3. Sends(w) \/ \E at \in {"raised", "conflict"} : Marks(w, at)
      BY <1>8, <3>2 DEF GoesOn
    <3>4. JobShape(s, jobs[t.id].op)
      BY <2>1, <3>1, <3>3, SendsShaped
    <3>5. s.id = t.id /\ s.inv = t.inv /\ s.loaded = t.loaded
      BY <3>3, SendsKeep DEF Marks
    <3> QED BY <1>4, <2>1, <2>2, <3>4, <3>5
  <2>3. CASE phase[w] = "events"
    <3>1. EventShape(t, notes[t.id])
      BY <1>1, <2>1, <2>3 DEF Shaped
    <3>2. ~Sends(w)
      BY <2>1, <3>1 DEF EventShape, Calls, Sends
    <3>3. Reads(w) \/ \E at \in {"raised", "conflict"} : Marks(w, at)
      BY <1>8, <3>2 DEF GoesOn
    <3> QED BY <1>4, <2>1, <2>3, <3>1, <3>3, ReadsShaped
  <2> QED BY <1>2, <2>2, <2>3
<1>9. CASE s = t /\ Free(t)
  BY <1>3, <1>9
<1>10. CASE Fails(w)
  <2>1. /\ ~Free(t) /\ phase'[w] = phase[w] /\ s.at = "raised"
        /\ s.id = t.id /\ s.inv = t.inv /\ s.loaded = t.loaded /\ s.obj = t.obj
    BY <1>10 DEF Fails, Free, CommitPoints, Marks
  <2>2. /\ phase[w] = "jobs" => JobShape(t, jobs[t.id].op)
        /\ phase[w] = "events" => EventShape(t, notes[t.id])
    BY <1>1, <2>1 DEF Shaped
  <2> HIDE DEF s
  <2>3. phase[w] = "jobs" => JobShape(s, jobs[t.id].op)
    BY <2>1, <2>2 DEF JobShape
  <2>4. phase[w] = "events" => EventShape(s, notes[t.id])
    BY <2>1, <2>2 DEF EventShape
  <2> QED BY <1>4, <2>1, <2>3, <2>4 DEF s
<1> HIDE DEF s
<1> QED BY <1>3, <1>5, <1>6, <1>7, <1>8, <1>9, <1>10, NextTask DEF TaskMoves, s
------------------------------------------------------------------------------
(* A handler of the API begins with what is in the table, or ends.          *)
LEMMA BegunRequest ==
  ASSUME QueueInvariant, NEW t \in Threads, NEW i \in DOMAIN invoices,
         BeginUpdate(t, i) \/ BeginDelete(t, i) \/ BeginVoid(t, i)
  PROVE  /\ UNCHANGED storeVars
         /\ \E q : /\ request' = [request EXCEPT ![t] = q]
                   /\ RequestShape(q) /\ q.inv = i /\ q.loaded = invoices[i]
<1> DEFINE row == invoices[i]
           deleted == [row EXCEPT !.deleted = TRUE, !.status = "Deleted",
                                  !.sync = "pending"]
           voided == [row EXCEPT !.status = "Voided", !.sync = "pending"]
<1>1. row \in Row
  BY RowType
<1>2. ASSUME NEW op \in {"update", "delete", "void"}, NEW obj, Begin(t, op, i, obj),
             obj.company = row.company, obj.origin = row.origin, obj.ext = row.ext,
             obj.token = row.token, obj.sync = "pending",
             op = "update" =>
               obj.deleted = row.deleted /\ obj.status \in PutStatuses \cup {row.status},
             op = "delete" =>
               obj.deleted /\ obj.status = "Deleted" /\ obj.content = row.content,
             op = "void" => /\ obj.deleted = row.deleted /\ obj.status = "Voided"
                            /\ obj.content = row.content
      PROVE  /\ UNCHANGED storeVars
             /\ \E q : /\ request' = [request EXCEPT ![t] = q]
                       /\ RequestShape(q) /\ q.inv = i /\ q.loaded = invoices[i]
  <2> DEFINE q == [op |-> op, inv |-> i, loaded |-> row, obj |-> obj]
  <2>1. q.op = op /\ q.inv = i /\ q.loaded = row /\ q.obj = obj
    OBVIOUS
  <2>2. UNCHANGED storeVars /\ request' = [request EXCEPT ![t] = q] /\ ~row.deleted
    BY <1>2 DEF Begin
  <2> HIDE DEF q
  <2>3. RequestShape(q)
    BY <1>2, <2>1, <2>2 DEF RequestShape
  <2> QED BY <2>1, <2>2, <2>3
<1>3. ASSUME BeginUpdate(t, i)
      PROVE  \E content, status : /\ status \in PutStatuses \cup {row.status}
               /\ Begin(t, "update", i, [row EXCEPT !.content = content, !.status = status,
                                                    !.sync = "pending"])
  BY <1>3 DEF BeginUpdate
<1>4. ASSUME NEW content, NEW status \in PutStatuses \cup {row.status},
             Begin(t, "update", i, [row EXCEPT !.content = content, !.status = status,
                                               !.sync = "pending"])
      PROVE  /\ UNCHANGED storeVars
             /\ \E q : /\ request' = [request EXCEPT ![t] = q]
                       /\ RequestShape(q) /\ q.inv = i /\ q.loaded = invoices[i]
  <2> DEFINE obj == [row EXCEPT !.content = content, !.status = status, !.sync = "pending"]
  <2>1. /\ obj.company = row.company /\ obj.origin = row.origin /\ obj.ext = row.ext
        /\ obj.token = row.token /\ obj.sync = "pending" /\ obj.deleted = row.deleted
        /\ obj.status = status
    BY <1>1 DEF Row
  <2>2. Begin(t, "update", i, obj)
    BY <1>4
  <2> HIDE DEF obj, row
  <2> QED BY <1>2, <2>1, <2>2
<1>5. CASE BeginDelete(t, i)
  <2>1. /\ deleted.company = row.company /\ deleted.origin = row.origin
        /\ deleted.ext = row.ext /\ deleted.token = row.token /\ deleted.sync = "pending"
        /\ deleted.deleted /\ deleted.status = "Deleted" /\ deleted.content = row.content
    BY <1>1 DEF Row
  <2>2. Begin(t, "delete", i, deleted)
    BY <1>5 DEF BeginDelete
  <2> HIDE DEF deleted, row
  <2> QED BY <1>2, <2>1, <2>2
<1>6. CASE BeginVoid(t, i)
  <2>1. /\ voided.company = row.company /\ voided.origin = row.origin
        /\ voided.ext = row.ext /\ voided.token = row.token /\ voided.sync = "pending"
        /\ voided.deleted = row.deleted /\ voided.status = "Voided"
        /\ voided.content = row.content
    BY <1>1 DEF Row
  <2>2. Begin(t, "void", i, voided)
    BY <1>6 DEF BeginVoid
  <2> HIDE DEF voided, row
  <2> QED BY <1>2, <2>1, <2>2
<1> QED BY <1>3, <1>4, <1>5, <1>6

(* A handler of the API stays where it is, ends, or loads its invoice.      *)
LEMMA NextRequests ==
  ASSUME QueueInvariant, [Next]_vars, NEW t \in Threads
  PROVE  \/ request'[t] = request[t]
         \/ request'[t] = NoRequest
         \/ /\ UNCHANGED storeVars
            /\ RequestShape(request'[t])
            /\ request'[t].inv \in DOMAIN invoices
            /\ request'[t].loaded = invoices[request'[t].inv]
<1>1. request \in [Threads -> Request]
  BY DEF QueueInvariant, TypeOK, ServiceTypeOK
<1>2. CASE ServiceStep(Locked)
  <2>1. CASE \E company \in Realms, content \in Contents : CreateInvoice(company, content)
    BY <2>1 DEF CreateInvoice
  <2>2. CASE \E u \in Threads : Commit(u, Locked)
    BY <1>1, <2>2 DEF Commit
  <2>3. ASSUME NEW u \in Threads, NEW i \in DOMAIN invoices,
               BeginUpdate(u, i) \/ BeginDelete(u, i) \/ BeginVoid(u, i)
        PROVE  \/ request'[t] = request[t]
               \/ /\ UNCHANGED storeVars
                  /\ RequestShape(request'[t])
                  /\ request'[t].inv \in DOMAIN invoices
                  /\ request'[t].loaded = invoices[request'[t].inv]
    <3>1. PICK q : /\ request' = [request EXCEPT ![u] = q] /\ RequestShape(q)
                   /\ q.inv = i /\ q.loaded = invoices[i]
      BY <2>3, BegunRequest
    <3>2. UNCHANGED storeVars
      BY <2>3, BegunRequest
    <3>3. request'[t] = IF t = u THEN q ELSE request[t]
      BY <1>1, <3>1
    <3> QED BY <3>1, <3>2, <3>3
  <2> QED BY <1>2, <2>1, <2>2, <2>3 DEF ServiceStep
<1>3. CASE UNCHANGED request
  BY <1>3
<1> QED BY <1>2, <1>3 DEF Next, WorkerStep, vars, serviceVars

(* The invariant is there to begin with, and every step keeps it.           *)
LEMMA InitSessions == Init => SessionInvariant
BY DEF Init, WorkerInit, ServiceInit, SessionInvariant, Shaped, Free, Idle, RequestShape,
   NoRequest

(* Every step keeps what each session's object says next to the one loaded. *)
LEMMA NextSessions ==
  ASSUME QueueInvariant, SessionInvariant, [Next]_vars PROVE SessionInvariant'
<1>1. ASSUME NEW t \in Threads
      PROVE  /\ RequestShape(request'[t])
             /\ request'[t].op # "none" => SameOwner(request[t].inv, request[t].loaded)'
  <2>1. CASE request'[t] = request[t]
    <3>1. /\ RequestShape(request[t])
          /\ request[t].op # "none" => /\ SameOwner(request[t].inv, request[t].loaded)
                                       /\ request[t].inv \in DOMAIN invoices
      BY DEF SessionInvariant, QueueInvariant, TypeOK, ServiceTypeOK
    <3> QED BY <2>1, <3>1, NextOwnersKeep DEF OwnersKeep, SameOwner
  <2>2. CASE request'[t] = NoRequest
    BY <2>2 DEF NoRequest, RequestShape
  <2>3. CASE /\ UNCHANGED storeVars /\ RequestShape(request'[t])
             /\ request'[t].inv \in DOMAIN invoices
             /\ request'[t].loaded = invoices[request'[t].inv]
    BY <2>3 DEF storeVars, SameOwner
  <2> QED BY <2>1, <2>2, <2>3, NextRequests
<1>2. \A t \in Threads : RequestShape(request[t])'
  BY <1>1 DEF RequestShape
<1> QED BY <1>1, <1>2, NextShaped DEF SessionInvariant
------------------------------------------------------------------------------
(* So no commit of a session takes a soft delete back.                      *)
LEMMA NextKeepsDeleted ==
  ASSUME QueueInvariant, SessionInvariant, [Next]_vars PROVE DeletedStay
<1> SUFFICES ASSUME NEW i \in DOMAIN invoices, invoices[i].deleted
             PROVE  invoices'[i].deleted
  BY DEF DeletedStay
<1>1. ASSUME NEW loaded, NEW obj, loaded.deleted = obj.deleted \/ obj.deleted = TRUE,
             invoices'[i] = Merge(invoices[i], loaded, obj)
      PROVE  invoices'[i].deleted
  BY <1>1 DEF Merge, Net
<1>2. ASSUME NEW t \in Threads, Commits(t, i) PROVE invoices'[i].deleted
  <2>1. request[t] \in Request /\ RequestShape(request[t]) /\ request[t].op # "none"
    BY <1>2 DEF Commits, QueueInvariant, TypeOK, ServiceTypeOK, SessionInvariant
  <2>2. request[t].obj.deleted \in BOOLEAN /\ request[t].op \in {"update", "delete", "void"}
    BY <2>1 DEF Request, Row
  <2>3. request[t].loaded.deleted = request[t].obj.deleted \/ request[t].obj.deleted = TRUE
    BY <2>1, <2>2 DEF RequestShape
  <2> QED BY <1>1, <1>2, <2>3 DEF Commits
<1>3. ASSUME NEW w \in Workers, Saves(w, i) PROVE invoices'[i].deleted
  <2>1. ~Free(work[w]) /\ Shaped(w) /\ phase[w] \in {"jobs", "events"}
    BY <1>3 DEF Saves, Free, SessionInvariant, QueueInvariant, TypeOK, WorkerTypeOK
  <2>2. work[w].obj \in Row
    BY WorkType
  <2>3. work[w].loaded.deleted = work[w].obj.deleted \/ work[w].obj.deleted = TRUE
    BY <1>3, <2>1, <2>2 DEF Saves, Shaped, JobShape, EventShape, Row
  <2> QED BY <1>1, <1>3, <2>3 DEF Saves
<1>4. ASSUME NEW w \in Workers, GivesUp(w, i) PROVE invoices'[i].deleted
  BY <1>4, RowType DEF GivesUp, Row
<1> QED BY <1>2, <1>3, <1>4, NextRows DEF RowsStep, RowSteps, NewRow

(* A soft delete is never undone: not by a handler that loaded the invoice  *)
(* before it, not by a job or an event in flight, not by a retry.           *)
THEOREM DeletesLast == Spec => NoResurrection
<1>1. QueueInvariant /\ SessionInvariant /\ [Next]_vars => SessionInvariant'
  BY NextSessions
<1>2. QueueInvariant /\ SessionInvariant /\ [Next]_vars => [DeletedStay]_vars
  BY NextKeepsDeleted
<1> QED BY <1>1, <1>2, InitSessions, InvariantHolds, PTL
        DEF Spec, NoResurrection, DeletedStay
------------------------------------------------------------------------------
(* The statuses DESIGN.md calls terminal.                                   *)
Closed == {"Voided", "Deleted"}

ClosedStay ==
  \A i \in DOMAIN invoices :
    /\ invoices[i].status \in {"Voided", "Deleted"}
    /\ invoices'[i].status \notin {"Voided", "Deleted"}
    => Reopens(i)

(* No commit reopens a closed invoice but the ones Reopens names.           *)
LEMMA NextKeepsClosed ==
  ASSUME QueueInvariant, SessionInvariant, [Next]_vars PROVE ClosedStay
<1> SUFFICES ASSUME NEW i \in DOMAIN invoices, invoices[i].status \in Closed,
                    invoices'[i].status \notin Closed
             PROVE  Reopens(i)
  BY DEF ClosedStay, Closed
<1>1. ASSUME NEW loaded, NEW obj, loaded.status = obj.status \/ obj.status \in Closed,
             invoices'[i] = Merge(invoices[i], loaded, obj)
      PROVE  FALSE
  BY <1>1 DEF Merge, Net
<1>2. ASSUME NEW t \in Threads, Commits(t, i) PROVE Reopens(i)
  <2>1. request[t] \in Request /\ RequestShape(request[t]) /\ request[t].op # "none"
    BY <1>2 DEF Commits, QueueInvariant, TypeOK, ServiceTypeOK, SessionInvariant
  <2>2. request'[t] = NoRequest /\ request[t].op \in {"update", "delete", "void"}
    BY <1>2, <2>1 DEF Commits, Commit, Request, QueueInvariant, TypeOK, ServiceTypeOK
  <2>3. CASE request[t].op = "update" /\ request[t].obj.status \in PutStatuses
    BY <1>2, <2>2, <2>3 DEF Reopens, Commits
  <2>4. CASE request[t].loaded.status = request[t].obj.status
             \/ request[t].obj.status \in Closed
    BY <1>1, <1>2, <2>4 DEF Commits
  <2> QED BY <2>1, <2>2, <2>3, <2>4 DEF RequestShape, Closed
<1>3. ASSUME NEW w \in Workers, Saves(w, i) PROVE Reopens(i)
  <2>1. ~Free(work[w]) /\ Shaped(w) /\ phase[w] \in {"jobs", "events"}
    BY <1>3 DEF Saves, Free, SessionInvariant, QueueInvariant, TypeOK, WorkerTypeOK
  <2>2. CASE phase[w] = "jobs" /\ work[w].at = "write" /\ jobs[work[w].id].op = "create"
    <3>1. work'[w] = Idle
      BY <1>3 DEF Saves, CompleteJob, CompleteEvent, Finish, Move, QueueInvariant, TypeOK,
         WorkerTypeOK
    <3> QED BY <1>3, <2>2, <3>1 DEF Saves, Reopens
  <2>3. CASE ~(phase[w] = "jobs" /\ work[w].at = "write" /\ jobs[work[w].id].op = "create")
    <3>1. work[w].loaded.status = work[w].obj.status \/ work[w].obj.status \in Closed
      BY <1>3, <2>1, <2>3 DEF Saves, Shaped, JobShape, EventShape, Closed
    <3> QED BY <1>1, <1>3, <3>1 DEF Saves
  <2> QED BY <2>2, <2>3
<1>4. ASSUME NEW w \in Workers, GivesUp(w, i) PROVE FALSE
  BY <1>4, RowType DEF GivesUp, Row
<1> QED BY <1>2, <1>3, <1>4, NextRows DEF RowsStep, RowSteps, NewRow

(* A void and a delete are overwritten by no session that loaded the        *)
(* invoice before them: not by an update that passed its guard then, not by *)
(* a job in flight nor by the echo of an earlier write.  What reopens is    *)
(* the link of a create, and a PUT that gives a status.                     *)
THEOREM ClosedLast == Spec => OnlyCreateReopens
<1>1. QueueInvariant /\ SessionInvariant /\ [Next]_vars => SessionInvariant'
  BY NextSessions
<1>2. QueueInvariant /\ SessionInvariant /\ [Next]_vars => [ClosedStay]_vars
  BY NextKeepsClosed
<1> QED BY <1>1, <1>2, InitSessions, InvariantHolds, PTL
        DEF Spec, OnlyCreateReopens, ClosedStay
------------------------------------------------------------------------------
(* A link to QuickBooks, once committed, is permanent.  Only the create job *)
(* of an invoice sets its link, there is one, and one worker at most        *)
(* executes it; every other session sends the column only if it changed it, *)
(* and none does.  At the end, what "pending" means: an invoice that shows  *)
(* it has a job that is still to run, or one a conflict ended.              *)

(* The worker executes a create job, and is to link its invoice.            *)
Creates(w) ==
  /\ phase[w] = "jobs"
  /\ work[w].at \in {"query", "create", "write"}
  /\ jobs[work[w].id].op = "create"

OneCreate ==
  \A j, k \in DOMAIN jobs :
    jobs[j].op = "create" /\ jobs[k].op = "create" /\ jobs[j].inv = jobs[k].inv
      => j = k

(* A linked invoice needs no create any more.                               *)
LinkedIsDone ==
  \A j \in DOMAIN jobs :
    jobs[j].op = "create" /\ HasLink(jobs[j].inv) => jobs[j].status = "completed"

(* Only the API enqueues creates, each with its own new invoice.            *)
CreatesAreLocal ==
  \A j \in DOMAIN jobs : jobs[j].op = "create" => invoices[jobs[j].inv].origin = "local"

LinkInvariant ==
  /\ OneCreate
  /\ LinkedIsDone
  /\ CreatesAreLocal
  /\ \A w \in Workers : Creates(w) => invoices[work[w].inv].ext = NoLink

LinksStay ==
  \A i \in DOMAIN invoices : HasLink(i) => invoices'[i].ext = invoices[i].ext

(* What a step may do to the links of the rows there are: set the one of    *)
(* the invoice whose create job is being committed.                         *)
SetsLink(w, i) == Creates(w) /\ work[w].at = "write" /\ Saves(w, i) /\ work'[w] = Idle

LinksChange ==
  \A i \in DOMAIN invoices :
    invoices'[i].ext = invoices[i].ext \/ \E w \in Workers : SetsLink(w, i)
------------------------------------------------------------------------------
(* No invoice gets a second create job: it comes with the invoice.          *)
LEMMA NextOneCreate ==
  ASSUME QueueInvariant, OneCreate, [Next]_vars PROVE OneCreate'
<1>1. JobsKeep
  BY NextJobsKeep
<1>2. CASE DOMAIN jobs' = DOMAIN jobs
  BY <1>1, <1>2 DEF OneCreate, JobsKeep
<1>3. ASSUME NEW i, NEW op, NewJob(i, op), op = "create" => i = Len(invoices) + 1
      PROVE  OneCreate'
  <2> DEFINE n == Len(jobs) + 1
  <2>1. /\ DOMAIN jobs' = 1 .. n /\ jobs'[n].op = op /\ jobs'[n].inv = i
        /\ \A k \in DOMAIN jobs : jobs'[k] = jobs[k]
    BY <1>3 DEF NewJob
  <2>2. /\ Len(jobs) \in Nat /\ DOMAIN jobs = 1 .. Len(jobs)
        /\ Len(invoices) \in Nat /\ DOMAIN invoices = 1 .. Len(invoices)
        /\ \A k \in DOMAIN jobs : jobs[k].inv \in DOMAIN invoices
    BY LenProperties DEF QueueInvariant, TypeOK, StoreTypeOK
  <2>3. \A k \in DOMAIN jobs' : k \in DOMAIN jobs \/ k = n
    BY <2>1, <2>2
  <2>4. op = "create" => \A k \in DOMAIN jobs : jobs[k].inv # i
    BY <1>3, <2>2
  <2> QED BY <2>1, <2>3, <2>4 DEF OneCreate
<1>4. \A t \in Threads : request[t].op # "none" => request[t].op # "create"
  BY DEF QueueInvariant, TypeOK, ServiceTypeOK, Request
<1> QED BY <1>2, <1>3, <1>4, NextJobs DEF JobsStep

(* Who is to link an invoice was before, or has just begun with the row as  *)
(* it is.                                                                   *)
LEMMA CreatesBack ==
  ASSUME QueueInvariant, SessionInvariant, [Next]_vars, NEW w \in Workers, Creates(w)'
  PROVE  \/ /\ Creates(w)
            /\ work'[w].id = work[w].id /\ work'[w].inv = work[w].inv
            /\ work'[w].loaded = work[w].loaded
            /\ \/ work'[w] = work[w]
               \/ work[w].at \in {"query", "create"} /\ Sends(w)
         \/ /\ UNCHANGED storeVars /\ UNCHANGED qbo /\ StartsJob(w)
            /\ jobs[work'[w].id].op = "create" /\ work'[w].inv \in DOMAIN invoices
            /\ work'[w].at \in {"query", "create"}
            /\ invoices[work'[w].inv].ext = NoLink
<1> DEFINE t == work[w]
           s == work'[w]
<1>1. s.at \in {"query", "create", "write"} /\ phase'[w] = "jobs" /\ ~Free(s)
  BY DEF Creates, Free
<1>2. QueueInvariant' /\ JobsKeep /\ Shaped(w)
  BY NextInvariant, NextJobsKeep DEF SessionInvariant
<1>3. jobs'[s.id].op = "create"
  BY DEF Creates
<1>4. CASE s = t /\ phase'[w] = phase[w]
  <2>1. t.id \in DOMAIN jobs
    BY <1>1, <1>4, AtWork
  <2> QED BY <1>1, <1>2, <1>3, <1>4, <2>1 DEF Creates, JobsKeep
<1>5. CASE phase'[w] = phase[w] /\ UNCHANGED storeVars /\ UNCHANGED qbo /\ StartsJob(w)
  <2>1. /\ s.id \in DOMAIN jobs /\ s.inv \in DOMAIN invoices
        /\ s.loaded = invoices[s.inv] /\ s.at = Entry(jobs[s.id], s.loaded)
    BY <1>5, StartedJob
  <2>2. jobs[s.id].op = "create" /\ jobs[s.id] \in Job
    BY <1>2, <1>3, <2>1, LenProperties DEF JobsKeep, QueueInvariant, TypeOK, StoreTypeOK
  <2> HIDE DEF s
  <2> QED BY <1>1, <1>5, <2>1, <2>2 DEF Entry, s
<1>6. CASE GoesOn(w)
  <2>1. /\ t.at \in Calls /\ ~Free(t) /\ phase[w] = "jobs"
        /\ Sends(w) \/ Reads(w) \/ \E at \in {"raised", "conflict"} : Marks(w, at)
    BY <1>1, <1>6 DEF GoesOn, Calls, Free
  <2>2. JobShape(t, jobs[t.id].op) /\ t.id \in DOMAIN jobs
    BY <1>2, <2>1, AtWork DEF Shaped
  <2>3. Sends(w)
    BY <1>1, <2>1, <2>2 DEF JobShape, Reads, Marks
  <2>4. s.id = t.id /\ s.inv = t.inv /\ s.loaded = t.loaded
    BY <2>3, SendsKeep
  <2>5. jobs[t.id].op = "create"
    BY <1>2, <1>3, <2>2, <2>4 DEF JobsKeep
  <2>6. t.at \in {"query", "create"}
    BY <2>1, <2>2, <2>5 DEF JobShape, Calls
  <2> QED BY <2>1, <2>3, <2>4, <2>5, <2>6 DEF Creates
<1>7. ~(phase'[w] = phase[w] /\ StartsEvent(w))
  BY <1>1 DEF StartsEvent
<1> QED
  <2> HIDE DEF s, t
  <2> QED BY <1>1, <1>4, <1>5, <1>6, <1>7, NextTask DEF TaskMoves, Fails, Marks, s, t
------------------------------------------------------------------------------
(* Only the commit of a create job sends the column.                        *)
LEMMA NextLinks ==
  ASSUME QueueInvariant, SessionInvariant, LinkInvariant, [Next]_vars
  PROVE  LinksChange
<1> SUFFICES ASSUME NEW i \in DOMAIN invoices, invoices'[i].ext # invoices[i].ext
             PROVE  \E w \in Workers : SetsLink(w, i)
  BY DEF LinksChange
<1>1. ASSUME NEW loaded, NEW obj, obj.ext = loaded.ext,
             invoices'[i] = Merge(invoices[i], loaded, obj)
      PROVE  FALSE
  BY <1>1 DEF Merge, Net
<1>2. ASSUME NEW t \in Threads, Commits(t, i) PROVE FALSE
  BY <1>1, <1>2 DEF Commits, SessionInvariant, RequestShape
<1>3. ASSUME NEW w \in Workers, Saves(w, i) PROVE SetsLink(w, i)
  <2>1. ~Free(work[w]) /\ Shaped(w) /\ phase[w] \in {"jobs", "events"}
    BY <1>3 DEF Saves, Free, SessionInvariant, QueueInvariant, TypeOK, WorkerTypeOK
  <2>2. work[w].obj.ext # work[w].loaded.ext
    BY <1>1, <1>3 DEF Saves
  <2>3. phase[w] = "jobs" /\ work[w].at = "write" /\ jobs[work[w].id].op = "create"
    BY <1>3, <2>1, <2>2 DEF Saves, Shaped, JobShape, EventShape
  <2>4. work'[w] = Idle
    BY <1>3 DEF Saves, CompleteJob, CompleteEvent, Finish, Move, QueueInvariant, TypeOK,
       WorkerTypeOK
  <2> QED BY <1>3, <2>3, <2>4 DEF SetsLink, Creates
<1>4. ASSUME NEW w \in Workers, GivesUp(w, i) PROVE FALSE
  BY <1>4, RowType DEF GivesUp, Row
<1> QED BY <1>2, <1>3, <1>4, NextRows DEF RowsStep, RowSteps, NewRow

(* What sets a link executes the invoice's create job, and finds none.      *)
LEMMA LinksOnlyUnlinked ==
  ASSUME QueueInvariant, SessionInvariant, LinkInvariant, [Next]_vars PROVE LinksStay
BY NextLinks DEF LinksStay, LinksChange, SetsLink, Saves, LinkInvariant, HasLink

(* A worker at a create job has it, and nobody else has one of the invoice. *)
LEMMA OneCreator ==
  ASSUME QueueInvariant, SessionInvariant, LinkInvariant, NEW w \in Workers, Creates(w)
  PROVE  /\ AtHand(w, work[w].id) /\ work[w].id \in DOMAIN jobs
         /\ jobs[work[w].id].inv = work[w].inv /\ work[w].inv \in DOMAIN invoices
         /\ \A v \in Workers : Creates(v) /\ work[v].inv = work[w].inv => v = w
         /\ \A j \in DOMAIN jobs :
              jobs[j].op = "create" /\ jobs[j].inv = work[w].inv => j = work[w].id
<1>1. \A v \in Workers : Creates(v) =>
        /\ AtHand(v, work[v].id) /\ work[v].id \in DOMAIN jobs /\ work[v].id \in batch[v]
        /\ jobs[work[v].id].inv = work[v].inv
  BY AtWork DEF Creates, AtHand, Free, SessionInvariant, Shaped
<1>2. work[w].inv \in DOMAIN invoices
  BY <1>1 DEF QueueInvariant, TypeOK, StoreTypeOK
<1>3. \A j \in DOMAIN jobs :
        jobs[j].op = "create" /\ jobs[j].inv = work[w].inv => j = work[w].id
  BY <1>1 DEF LinkInvariant, OneCreate, Creates
<1>4. ASSUME NEW v \in Workers, Creates(v), work[v].inv = work[w].inv PROVE v = w
  BY <1>1, <1>3, <1>4 DEF Creates, QueueInvariant, OneOwner
<1> QED BY <1>1, <1>2, <1>3, <1>4

(* A new create job is that of a new invoice, which is pending, not linked  *)
(* and local.                                                               *)
LEMMA NewCreate ==
  ASSUME QueueInvariant, [Next]_vars, NEW j \in DOMAIN jobs', j \notin DOMAIN jobs,
         jobs'[j].op = "create"
  PROVE  /\ jobs'[j].inv = Len(invoices) + 1 /\ jobs'[j].status = "pending"
         /\ invoices'[jobs'[j].inv].ext = NoLink
         /\ invoices'[jobs'[j].inv].origin = "local"
<1>1. /\ Len(jobs) \in Nat /\ DOMAIN jobs = 1 .. Len(jobs)
      /\ \A t \in Threads : request[t].op # "none" => request[t].op # "create"
  BY LenProperties DEF QueueInvariant, TypeOK, StoreTypeOK, ServiceTypeOK, Request
<1>2. ASSUME NEW i, NEW op, NewJob(i, op)
      PROVE  j = Len(jobs) + 1 /\ jobs'[j].op = op /\ jobs'[j].inv = i
             /\ jobs'[j].status = "pending"
  BY <1>1, <1>2 DEF NewJob
<1>3. PICK company \in Realms, content \in Contents :
        CreateInvoice(company, content) /\ NewJob(Len(invoices) + 1, "create")
  BY <1>1, <1>2, NextJobs DEF JobsStep
<1>4. invoices'[Len(invoices) + 1] = [Blank EXCEPT !.company = company, !.content = content]
  BY <1>3, AddedRow DEF CreateInvoice
<1>5. DOMAIN [Blank EXCEPT !.company = company, !.content = content] = DOMAIN Blank
      /\ [Blank EXCEPT !.company = company, !.content = content].ext = NoLink
      /\ [Blank EXCEPT !.company = company, !.content = content].origin = "local"
  BY DEF Blank
<1> QED BY <1>2, <1>3, <1>4, <1>5

(* The job a worker executes is in progress.                                *)
LEMMA JobInHand ==
  ASSUME QueueInvariant, NEW w \in Workers, NEW j, AtHand(w, j)
  PROVE  /\ j \in batch[w] /\ j \in DOMAIN jobs /\ jobs[j] \in Job
         /\ jobs[j].status = "in_progress"
<1>1. j \in batch[w]
  BY DEF AtHand, Free, QueueInvariant, WorksOnItsBatch
<1>2. j \in DOMAIN jobs /\ jobs[j].status = "in_progress"
  BY <1>1 DEF AtHand, Free, QueueInvariant, HoldsItsQueue, OneOwner, QueueOf
<1> QED BY <1>1, <1>2, LenProperties DEF QueueInvariant, TypeOK, StoreTypeOK

(* What is completed stays as it is.                                        *)
LEMMA DoneStays ==
  ASSUME QueueInvariant, [Next]_vars, NEW j \in DOMAIN jobs, ~Active(jobs[j])
  PROVE  jobs'[j] = jobs[j]
<1>1. jobs[j] \in Job /\ jobs[j].status \notin {"pending", "in_progress"}
  BY LenProperties DEF QueueInvariant, TypeOK, StoreTypeOK, Active
<1>2. \A w \in Workers : ~AtHand(w, j)
  BY <1>1, JobInHand
<1>3. \A w \in Workers : ClaimJobs(w) /\ phase[w] = "jobs" => j \notin batch[w]
  BY <1>1 DEF ClaimJobs, QueueInvariant, OneOwner, QueueOf
<1>4. CASE DOMAIN jobs' = DOMAIN jobs /\ \A k \in DOMAIN jobs : JobSteps(k)
  <2>1. JobSteps(j)
    BY <1>4
  <2> QED BY <1>1, <1>2, <1>3, <2>1 DEF JobSteps
<1> QED BY <1>4, NextJobs DEF JobsStep, NewJob

(* A create goes on undisturbed: no other worker executes the create job of *)
(* the same invoice, so nobody else can have set its link.                  *)
LEMMA NextLinkInvariant ==
  ASSUME QueueInvariant, SessionInvariant, LinkInvariant, [Next]_vars
  PROVE  LinkInvariant'
<1>1. ASSUME NEW w \in Workers, Creates(w)' PROVE invoices'[work'[w].inv].ext = NoLink
  <2>1. CASE UNCHANGED storeVars /\ invoices[work'[w].inv].ext = NoLink
    BY <2>1 DEF storeVars
  <2>2. CASE Creates(w) /\ work'[w].inv = work[w].inv
    <3>1. work[w].inv \in DOMAIN invoices /\ invoices[work[w].inv].ext = NoLink
      BY <2>2, OneCreator DEF LinkInvariant
    <3>2. ASSUME NEW v \in Workers, SetsLink(v, work[w].inv) PROVE FALSE
      <4>1. v = w
        BY <2>2, <3>2, OneCreator DEF SetsLink, Saves
      <4> QED BY <1>1, <3>2, <4>1 DEF SetsLink, Creates, Idle
    <3> QED BY <2>2, <3>1, <3>2, NextLinks DEF LinksChange
  <2> QED BY <1>1, <2>1, <2>2, CreatesBack
<1>2. ASSUME NEW j \in DOMAIN jobs', jobs'[j].op = "create", HasLink(jobs[j].inv)'
      PROVE  jobs'[j].status = "completed"
  <2>1. CASE j \in DOMAIN jobs
    <3> DEFINE i == jobs[j].inv
    <3>1. jobs[j].op = "create" /\ jobs'[j].inv = i /\ i \in DOMAIN invoices
      BY <1>2, <2>1, NextJobsKeep DEF JobsKeep, QueueInvariant, TypeOK, StoreTypeOK
    <3>2. CASE HasLink(i)
      <4>1. jobs[j].status = "completed"
        BY <2>1, <3>1, <3>2 DEF LinkInvariant, LinkedIsDone
      <4> QED BY <2>1, <4>1, DoneStays DEF Active
    <3>3. CASE ~HasLink(i)
      <4>1. PICK w \in Workers : SetsLink(w, i)
        BY <1>2, <3>1, <3>3, NextLinks DEF LinksChange, HasLink
      <4>2. work[w].id = j /\ phase[w] = "jobs"
        BY <2>1, <3>1, <4>1, OneCreator DEF SetsLink, Saves, Creates
      <4>3. CompleteJob(w)
        BY <4>1, <4>2 DEF SetsLink, Saves, CompleteEvent
      <4>4. jobs' = [jobs EXCEPT ![j] = [jobs[j] EXCEPT !.status = "completed"]]
        BY <4>2, <4>3 DEF CompleteJob
      <4>5. jobs \in Seq(Job) /\ jobs[j] \in Job
        BY <2>1, LenProperties DEF QueueInvariant, TypeOK, StoreTypeOK
      <4> QED BY <2>1, <4>4, <4>5 DEF Job
    <3> QED BY <3>2, <3>3
  <2>2. CASE j \notin DOMAIN jobs
    BY <1>2, <2>2, NewCreate DEF HasLink
  <2> QED BY <2>1, <2>2
<1>3. ASSUME NEW j \in DOMAIN jobs', jobs'[j].op = "create"
      PROVE  invoices'[jobs'[j].inv].origin = "local"
  <2>1. CASE j \notin DOMAIN jobs
    BY <1>3, <2>1, NewCreate
  <2>2. CASE j \in DOMAIN jobs
    <3>1. /\ jobs[j].op = "create" /\ jobs'[j].inv = jobs[j].inv
          /\ jobs[j].inv \in DOMAIN invoices
      BY <1>3, <2>2, NextJobsKeep DEF JobsKeep, QueueInvariant, TypeOK, StoreTypeOK
    <3> QED BY <2>2, <3>1, NextOwnersKeep DEF OwnersKeep, LinkInvariant, CreatesAreLocal
  <2> QED BY <2>1, <2>2
<1> QED BY <1>1, <1>2, <1>3, NextOneCreate DEF LinkInvariant, LinkedIsDone, CreatesAreLocal

(* No invoice and no job to begin with.                                     *)
LEMMA InitLinks == Init => LinkInvariant
BY DEF Init, StoreInit, WorkerInit, Idle, LinkInvariant, OneCreate, LinkedIsDone, Creates,
   CreatesAreLocal

(* A link is permanent: no commit of any session clears or changes it.      *)
THEOREM LinksLast == Spec => LinkPermanent
<1> DEFINE Inv == QueueInvariant /\ SessionInvariant /\ LinkInvariant
<1>1. Inv /\ [Next]_vars => SessionInvariant' /\ LinkInvariant'
  BY NextSessions, NextLinkInvariant
<1>2. Inv /\ [Next]_vars => [LinksStay]_vars
  BY LinksOnlyUnlinked
<1> QED BY <1>1, <1>2, InitSessions, InitLinks, InvariantHolds, PTL
        DEF Spec, LinkPermanent, LinksStay
------------------------------------------------------------------------------
(* What is pending is waited for.  No create job finds its invoice linked,  *)
(* so a job that ends well leaves the invoice complete.                     *)
NoneSkips == \A w \in Workers : phase[w] = "jobs" => work[w].at # "skip"

ConflictsAreFinal ==
  \A j \in DOMAIN jobs : jobs[j].error = "conflict" => ~Active(jobs[j])

(* The job still holds the invoice's "pending": whoever executes it saw it, *)
(* and will send "complete" over it.                                        *)
Keeps(j) ==
  \/ jobs[j].error = "conflict"
  \/ /\ Active(jobs[j])
     /\ \A w \in Workers : AtHand(w, j) => work[w].loaded.sync = "pending"

PendingInvariant ==
  /\ NoneSkips
  /\ ConflictsAreFinal
  /\ \A i \in DOMAIN invoices : invoices[i].sync = "pending" =>
       \E j \in DOMAIN jobs : jobs[j].inv = i /\ Keeps(j)

(* Who executes a job did before, or begins with the row as it is.          *)
LEMMA HandBack ==
  ASSUME QueueInvariant, SessionInvariant, [Next]_vars, NEW w \in Workers, NEW j,
         AtHand(w, j)'
  PROVE  \/ AtHand(w, j) /\ work'[w].loaded = work[w].loaded
         \/ /\ UNCHANGED storeVars /\ StartsJob(w) /\ work'[w].id = j
            /\ work'[w].loaded = invoices[jobs[j].inv]
<1> DEFINE t == work[w]
           s == work'[w]
<1>1. phase'[w] = "jobs" /\ ~Free(s) /\ s.id = j
  BY DEF AtHand, Free
<1>2. CASE s = t /\ phase'[w] = phase[w]
  BY <1>1, <1>2 DEF AtHand
<1>3. CASE UNCHANGED storeVars /\ StartsJob(w)
  BY <1>1, <1>3, StartedJob
<1>4. CASE GoesOn(w)
  <2>1. ~Free(t) /\ phase[w] = "jobs"
    BY <1>1, <1>4 DEF GoesOn, Free, Calls
  <2>2. ~Reads(w)
    BY <2>1 DEF SessionInvariant, Shaped, JobShape, Reads
  <2>3. s.id = t.id /\ s.loaded = t.loaded
    BY <1>4, <2>2, SendsKeep DEF GoesOn, Marks
  <2> QED BY <1>1, <2>1, <2>3 DEF AtHand
<1>5. ~(phase'[w] = phase[w] /\ StartsEvent(w))
  BY <1>1 DEF StartsEvent
<1>6. CASE Fails(w)
  <2>1. ~Free(t) /\ phase[w] = "jobs" /\ s.id = t.id /\ s.loaded = t.loaded
    BY <1>1, <1>6 DEF Fails, Free, CommitPoints, Marks
  <2> QED BY <1>1, <2>1 DEF AtHand
<1> HIDE DEF s, t
<1> QED BY <1>1, <1>2, <1>3, <1>4, <1>5, <1>6, NextTask DEF TaskMoves, s, t

(* Only a handler of the API makes an invoice pending again.                *)
LEMMA PendingBack ==
  ASSUME QueueInvariant, SessionInvariant, [Next]_vars, NEW i \in DOMAIN invoices,
         invoices'[i].sync = "pending"
  PROVE  /\ \A w \in Workers : ~GivesUp(w, i)
         /\ \A w \in Workers : Saves(w, i) => work[w].loaded.sync # "pending"
         /\ invoices[i].sync = "pending" \/ \E t \in Threads : Commits(t, i)
<1>1. ASSUME NEW w \in Workers, GivesUp(w, i) PROVE FALSE
  BY <1>1, RowType DEF GivesUp, Row
<1>2. ASSUME NEW w \in Workers, Saves(w, i)
      PROVE  work[w].loaded.sync # "pending" /\ invoices[i].sync = "pending"
  <2>1. ~Free(work[w]) /\ Shaped(w) /\ phase[w] \in {"jobs", "events"}
    BY <1>2 DEF Saves, Free, SessionInvariant, QueueInvariant, TypeOK, WorkerTypeOK
  <2>2. work[w].obj.sync = "complete"
    BY <1>2, <2>1 DEF Saves, Shaped, JobShape, EventShape
  <2>3. invoices'[i].sync = Net(invoices[i].sync, work[w].loaded.sync, work[w].obj.sync)
    BY <1>2 DEF Saves, Merge
  <2> QED BY <2>2, <2>3 DEF Net
<1>3. \/ invoices'[i] = invoices[i]
      \/ \E t \in Threads : Commits(t, i)
      \/ \E w \in Workers : Saves(w, i)
  BY <1>1, NextRows DEF RowsStep, RowSteps, NewRow
<1> QED BY <1>1, <1>2, <1>3

(* A job that holds the invoice's "pending" keeps it or takes it with it.   *)
LEMMA KeepsOn ==
  ASSUME QueueInvariant, SessionInvariant, PendingInvariant, [Next]_vars,
         NEW i \in DOMAIN invoices, invoices[i].sync = "pending",
         invoices'[i].sync = "pending",
         NEW j \in DOMAIN jobs, jobs[j].inv = i, Keeps(j)
  PROVE  Keeps(j)'
<1>1. jobs[j] \in Job
  BY LenProperties DEF QueueInvariant, TypeOK, StoreTypeOK
<1>2. CASE jobs[j].error = "conflict"
  BY <1>2, DoneStays DEF PendingInvariant, ConflictsAreFinal, Keeps
<1>3. CASE /\ Active(jobs[j])
           /\ \A w \in Workers : AtHand(w, j) => work[w].loaded.sync = "pending"
  <2>1. ASSUME NEW w \in Workers, AtHand(w, j)' PROVE work'[w].loaded.sync = "pending"
    BY <1>3, <2>1, HandBack
  <2>2. ASSUME NEW w \in Workers, AtHand(w, j), CompleteJob(w) PROVE FALSE
    <3>1. phase[w] = "jobs" /\ ~Free(work[w]) /\ Shaped(w) /\ work[w].id = j
      BY <2>2 DEF AtHand, SessionInvariant
    <3>2. work[w].at \in {"write", "rewrite"} /\ work[w].inv = i
      BY <2>2, <3>1 DEF CompleteJob, Persist, PendingInvariant, NoneSkips, Shaped, JobShape
    <3>3. SaveInvoice(work[w].inv, work[w].loaded, work[w].obj, LockedByOthers(w))
      BY <2>2, <3>2 DEF CompleteJob, Persist
    <3>4. invoices'[i] = Merge(invoices[i], work[w].loaded, work[w].obj)
      BY <3>2, <3>3, SavedRows
    <3>5. work[w].obj.sync = "complete" /\ work[w].loaded.sync = "pending"
      BY <1>3, <2>2, <3>1, <3>2 DEF Shaped, JobShape
    <3> QED BY <3>4, <3>5 DEF Merge, Net
  <2>3. ASSUME NEW w \in Workers, AtHand(w, j), RetryJob(w),
               jobs'[j] = [Reattempt(jobs[j]) EXCEPT !.error = "error"]
        PROVE  Active(jobs'[j])
    <3>1. work[w].id = j /\ work[w].inv = i
      BY <2>3 DEF AtHand, SessionInvariant, Shaped
    <3>2. Reattempt(jobs[j]).status = "failed" => invoices'[i].sync = "failed"
      <4>1. invoices[i] \in Row /\ invoices \in Seq(Row)
        BY RowType DEF QueueInvariant, TypeOK, StoreTypeOK
      <4>2. Reattempt(jobs[j]).status = "failed" =>
              invoices' = [invoices EXCEPT ![i] = [invoices[i] EXCEPT !.sync = "failed"]]
        BY <2>3, <3>1 DEF RetryJob
      <4> QED BY <4>1, <4>2 DEF Row
    <3> QED BY <1>1, <2>3, <3>2 DEF Reattempt, Active, Job
  <2>4. CASE JobSteps(j)
    <3>1. Active(jobs'[j]) \/ jobs'[j].error = "conflict"
      BY <1>1, <1>3, <2>2, <2>3, <2>4 DEF JobSteps, Active, Job
    <3> QED BY <2>1, <3>1 DEF Keeps
  <2>5. CASE jobs'[j] = jobs[j]
    BY <1>3, <2>1, <2>5 DEF Keeps
  <2> QED BY <2>4, <2>5, NextJobs DEF JobsStep, NewJob
<1> QED BY <1>2, <1>3 DEF Keeps

(* A job just enqueued holds the "pending" its commit wrote.                *)
LEMMA EnqueuedKeeps ==
  ASSUME QueueInvariant, [Next]_vars, NEW i, NEW op, EnqueueJob(i, op),
         UNCHANGED <<phase, work>>
  PROVE  \E j \in DOMAIN jobs' : jobs'[j].inv = i /\ Keeps(j)'
<1> DEFINE n == Len(jobs) + 1
           job == [inv |-> i, op |-> op, status |-> "pending", attempts |-> 0,
                   due |-> TRUE, error |-> "none"]
<1>1. jobs \in Seq(Job) /\ DOMAIN jobs = 1 .. Len(jobs) /\ Len(jobs) \in Nat
  BY LenProperties DEF QueueInvariant, TypeOK, StoreTypeOK
<1>2. n \in DOMAIN jobs' /\ jobs'[n] = job
  BY <1>1, LenProperties, AppendProperties DEF EnqueueJob
<1>3. \A w \in Workers : ~AtHand(w, n)
  BY <1>1, JobInHand
<1> QED BY <1>2, <1>3 DEF Keeps, Active, AtHand, Free

(* Every step keeps a job, or the commit of one, for what is pending.       *)
LEMMA NextPending ==
  ASSUME QueueInvariant, SessionInvariant, LinkInvariant, PendingInvariant, [Next]_vars
  PROVE  PendingInvariant'
<1>1. ASSUME NEW w \in Workers, phase'[w] = "jobs", work'[w].at = "skip" PROVE FALSE
  <2> DEFINE t == work[w]
             s == work'[w]
  <2>1. ~(s = t /\ phase'[w] = phase[w])
    BY <1>1 DEF PendingInvariant, NoneSkips
  <2>2. ~Free(s)
    BY <1>1 DEF Free
  <2>3. CASE StartsJob(w)
    <3>1. /\ s.id \in DOMAIN jobs /\ s.inv = jobs[s.id].inv /\ s.loaded = invoices[s.inv]
          /\ JobShape(s, jobs[s.id].op)
      BY <2>3, StartedJob
    <3>2. jobs[s.id].op = "create" /\ invoices[jobs[s.id].inv].ext # NoLink
      BY <1>1, <3>1 DEF JobShape
    <3>3. jobs[s.id].status = "completed"
      BY <3>1, <3>2 DEF LinkInvariant, LinkedIsDone, HasLink
    <3>4. s.id \in batch[w] /\ work[w].at = "idle" /\ phase[w] = "jobs"
      BY <2>3 DEF StartsJob
    <3>5. jobs[s.id].status = "in_progress"
      BY <3>4 DEF QueueInvariant, OneOwner, QueueOf
    <3> QED BY <3>3, <3>5
  <2>4. CASE GoesOn(w)
    <3>1. ~Free(t) /\ phase[w] = "jobs"
      BY <1>1, <2>4 DEF GoesOn, Free, Calls
    <3>2. ~Reads(w)
      BY <3>1 DEF SessionInvariant, Shaped, JobShape, Reads
    <3>3. Sends(w)
      BY <1>1, <2>4, <3>2 DEF GoesOn, Marks
    <3> QED BY <1>1, <3>3 DEF Sends, Marks, Takes
  <2>5. ~(phase'[w] = phase[w] /\ StartsEvent(w))
    BY <1>1 DEF StartsEvent
  <2>6. ~Fails(w)
    BY <1>1 DEF Fails, Marks
  <2> HIDE DEF s, t
  <2> QED BY <2>1, <2>2, <2>3, <2>4, <2>5, <2>6, NextTask DEF TaskMoves, s, t
<1>2. ASSUME NEW j \in DOMAIN jobs', jobs'[j].error = "conflict" PROVE ~Active(jobs'[j])
  <2>1. jobs \in Seq(Job) /\ \A k \in DOMAIN jobs : jobs[k] \in Job
    BY LenProperties DEF QueueInvariant, TypeOK, StoreTypeOK
  <2>2. CASE j \in DOMAIN jobs /\ JobSteps(j)
    <3>1. jobs'[j].status = "failed" \/ jobs[j].error = "conflict"
      BY <1>2, <2>1, <2>2 DEF JobSteps, Reattempt, Job
    <3>2. jobs[j].error = "conflict" => jobs'[j] = jobs[j] /\ ~Active(jobs[j])
      BY <2>2, DoneStays DEF PendingInvariant, ConflictsAreFinal
    <3> QED BY <3>1, <3>2 DEF Active
  <2>3. ASSUME NEW i, NEW op, NewJob(i, op) PROVE ~Active(jobs'[j])
    <3>1. j \in DOMAIN jobs /\ jobs'[j] = jobs[j]
      BY <1>2, <2>1, <2>3, LenProperties DEF NewJob
    <3> QED BY <1>2, <3>1 DEF PendingInvariant, ConflictsAreFinal
  <2> QED BY <2>2, <2>3, NextJobs DEF JobsStep
<1>3. ASSUME NEW i \in DOMAIN invoices', invoices'[i].sync = "pending"
      PROVE  \E j \in DOMAIN jobs' : jobs'[j].inv = i /\ Keeps(j)'
  <2>1. CASE i \in DOMAIN invoices /\ invoices[i].sync = "pending"
    <3>1. PICK j \in DOMAIN jobs : jobs[j].inv = i /\ Keeps(j)
      BY <2>1 DEF PendingInvariant
    <3> QED BY <1>3, <2>1, <3>1, KeepsOn, NextJobsKeep DEF JobsKeep
  <2>2. CASE i \in DOMAIN invoices /\ invoices[i].sync # "pending"
    <3>1. PICK t \in Threads : Commits(t, i)
      BY <1>3, <2>2, PendingBack
    <3>2. EnqueueJob(i, request[t].op) /\ UNCHANGED <<phase, work>>
      BY <3>1 DEF Commits, Commit, workerVars
    <3> QED BY <3>2, EnqueuedKeeps
  <2>3. CASE i \notin DOMAIN invoices
    <3>1. NewRow /\ i = Len(invoices) + 1
      BY <1>3, <2>3, AddedIndex
    <3>2. ASSUME NEW company \in Realms, NEW content \in Contents,
                 CreateInvoice(company, content), UNCHANGED <<qboVars, workerVars>>
          PROVE  \E j \in DOMAIN jobs' : jobs'[j].inv = i /\ Keeps(j)'
      <4>1. EnqueueJob(i, "create") /\ UNCHANGED <<phase, work>>
        BY <3>1, <3>2 DEF CreateInvoice, workerVars
      <4> QED BY <4>1, EnqueuedKeeps
    <3>3. ASSUME NEW w \in Workers, work[w].at = "insert", invoices'[i] = work[w].obj
          PROVE  FALSE
      <4>1. Shaped(w) /\ ~Free(work[w]) /\ phase[w] \in {"jobs", "events"}
        BY <3>3 DEF SessionInvariant, Free, QueueInvariant, TypeOK, WorkerTypeOK
      <4> QED BY <1>3, <3>3, <4>1 DEF Shaped, JobShape, EventShape
    <3> QED BY <3>1, <3>2, <3>3 DEF NewRow
  <2> QED BY <2>1, <2>2, <2>3
<1> QED BY <1>1, <1>2, <1>3 DEF PendingInvariant, NoneSkips, ConflictsAreFinal

(* To begin with there is no invoice.                                       *)
LEMMA InitPending == Init => PendingInvariant
BY DEF Init, StoreInit, WorkerInit, Idle, PendingInvariant, NoneSkips, ConflictsAreFinal
==============================================================================
