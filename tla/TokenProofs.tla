----------------------------- MODULE TokenProofs -----------------------------
(****************************************************************************)
(* What a SyncToken tells.  For any number of workers, edits, faults and    *)
(* crashes, the second try of an update overwrites nothing.  With one       *)
(* worker the token an invoice is stored with never goes back, and it comes *)
(* with the content QuickBooks has at that token.                           *)
(****************************************************************************)
EXTENDS SessionProofs

(* What a repost still knows of the invoice it read: there is a newer       *)
(* token, or nothing was written since the read that showed no difference.  *)
Fresh(t) ==
  LET r == t.obj.company  e == t.obj.ext IN
    /\ r \in Realms /\ e \in DOMAIN qbo[r]
    /\ t.obj.token <= qbo[r][e].token
    /\ t.obj.token = qbo[r][e].token =>
         Divergent(qbo[r][e].content, t.obj.content) = {}

RepostsAreFresh == \A w \in Workers : work[w].at = "repost" => Fresh(work[w])
------------------------------------------------------------------------------
(* No write to QuickBooks changes a content and keeps its token, and none   *)
(* revives an invoice.                                                      *)
LEMMA TokensGrow ==
  ASSUME QueueInvariant, [Next]_vars, NEW r \in Realms, NEW e \in DOMAIN qbo[r]
  PROVE  LET q == qbo[r][e]  p == qbo'[r][e] IN
           /\ e \in DOMAIN qbo'[r]
           /\ q.token \in Nat /\ p.token \in Nat /\ q.token <= p.token
           /\ p.token = q.token => p.content = q.content
           /\ q.status # "Live" => p.status # "Live"
<1>1. Kept(r, e) /\ qbo[r][e].token \in Nat
  BY NextDocs, QboRow DEF DocsChange
<1> QED BY <1>1 DEF Kept

(* A worker gets to a repost by the read of its token conflict alone.       *)
LEMMA OnlyRereadReposts ==
  ASSUME QueueInvariant, [Next]_vars, NEW v \in Workers, work'[v].at = "repost"
  PROVE  \/ work'[v] = work[v]
         \/ LET t == work[v]  r == t.obj.company  e == t.obj.ext IN
              /\ t.at = "reread" /\ Readable(r, e) /\ UNCHANGED qbo
              /\ Divergent(qbo[r][e].content, t.obj.content) = {}
              /\ Takes(v, "repost", [t.obj EXCEPT !.token = qbo[r][e].token])
<1>1. TaskMoves(v) /\ ~Free(work'[v])
  BY NextTask DEF Free
<1>2. CASE StartsJob(v)
  <2>1. /\ work'[v].id \in DOMAIN jobs
        /\ work'[v].at = Entry(jobs[work'[v].id], work'[v].loaded)
    BY <1>2, StartedJob
  <2>2. jobs[work'[v].id] \in Job
    BY <2>1, LenProperties DEF QueueInvariant, TypeOK, StoreTypeOK
  <2> QED BY <2>1, <2>2 DEF Entry, Job
<1>3. CASE StartsEvent(v)
  BY <1>3, StartedEvent DEF EventShape
<1>4. CASE GoesOn(v) \/ Fails(v)
  BY <1>4 DEF GoesOn, Fails, Sends, Reads, Marks, Takes
<1> QED BY <1>1, <1>2, <1>3, <1>4 DEF TaskMoves

(* A repost stays fresh, or finds a newer token; a new one has just read.   *)
LEMMA NextFresh ==
  ASSUME QueueInvariant, RepostsAreFresh, [Next]_vars PROVE RepostsAreFresh'
<1> SUFFICES ASSUME NEW v \in Workers, work'[v].at = "repost" PROVE Fresh(work[v])'
  BY DEF RepostsAreFresh
<1>1. work[v].obj \in Row /\ work[v].obj.token \in Int
  BY WorkType DEF Row, Tokens, NoToken
<1>2. CASE work'[v] = work[v]
  <2>1. PICK r \in Realms : \E e \in DOMAIN qbo[r] :
          /\ r = work[v].obj.company /\ e = work[v].obj.ext
          /\ work[v].obj.token <= qbo[r][e].token
          /\ work[v].obj.token = qbo[r][e].token =>
               Divergent(qbo[r][e].content, work[v].obj.content) = {}
    BY <1>2 DEF RepostsAreFresh, Fresh
  <2> DEFINE e == work[v].obj.ext
             q == qbo[r][e]
             p == qbo'[r][e]
             mine == work[v].obj.token
  <2>2. /\ e \in DOMAIN qbo'[r] /\ q.token \in Nat /\ p.token \in Nat
        /\ q.token <= p.token
        /\ p.token = q.token => p.content = q.content
    BY <2>1, TokensGrow
  <2>3. mine <= q.token /\ (mine = q.token => Divergent(q.content, work[v].obj.content) = {})
    BY <2>1
  <2> DEFINE before == q.token
             after == p.token
  <2>4. mine \in Int /\ before \in Int /\ after \in Int /\ mine <= before /\ before <= after
    BY <1>1, <2>2, <2>3
  <2>5. mine <= after /\ (mine = after => mine = before /\ after = before)
    <3> HIDE DEF mine, before, after
    <3> QED BY <2>4
  <2>6. mine = after => Divergent(p.content, work[v].obj.content) = {}
    <3> HIDE DEF p, q, mine
    <3> QED BY <2>2, <2>3, <2>5
  <2> QED BY <1>2, <2>1, <2>2, <2>5, <2>6 DEF Fresh
<1>3. ASSUME NEW r, NEW e, r = work[v].obj.company, e = work[v].obj.ext,
             Readable(r, e), UNCHANGED qbo,
             Divergent(qbo[r][e].content, work[v].obj.content) = {},
             Takes(v, "repost", [work[v].obj EXCEPT !.token = qbo[r][e].token])
      PROVE  Fresh(work[v])'
  <2> DEFINE t == work[v]
             obj == [t.obj EXCEPT !.token = qbo[r][e].token]
  <2>1. /\ obj.company = r /\ obj.ext = e /\ obj.token = qbo[r][e].token
        /\ obj.content = t.obj.content /\ r \in Realms
    BY <1>1, <1>3 DEF Row
  <2>2. e \in DOMAIN qbo[r] /\ qbo[r][e].token \in Nat
    BY <1>3, <2>1, QboRow DEF Readable
  <2>3. work'[v].obj = obj /\ qbo' = qbo /\ Divergent(qbo[r][e].content, t.obj.content) = {}
    BY <1>3 DEF Takes
  <2> HIDE DEF t, obj
  <2> QED BY <2>1, <2>2, <2>3 DEF Fresh
<1> QED BY <1>2, <1>3, OnlyRereadReposts

(* The second try of an update that QuickBooks refused for its token        *)
(* changes nothing there if it is accepted, whoever wrote in between and    *)
(* however often: no concurrent edit is overwritten on the way.             *)
THEOREM RepostsAreHarmless == Spec => []RepostChangesNothing
<1>1. Init => RepostsAreFresh
  BY DEF Init, WorkerInit, RepostsAreFresh, Idle
<1>2. QueueInvariant /\ RepostsAreFresh /\ [Next]_vars => RepostsAreFresh'
  BY NextFresh
<1>3. QueueInvariant /\ RepostsAreFresh => RepostChangesNothing
  <2> SUFFICES ASSUME QueueInvariant, RepostsAreFresh, NEW w \in Workers,
                      work[w].at = "repost",
                      Accepts(work[w].obj.company, work[w].obj.ext, "update",
                              work[w].obj.token)
               PROVE  LET q == qbo[work[w].obj.company][work[w].obj.ext] IN
                        Pushed(q.content, work[w].obj.content) = q.content
    BY DEF RepostChangesNothing
  <2> DEFINE q == qbo[work[w].obj.company][work[w].obj.ext]
  <2>1. /\ work[w].obj.company \in Realms
        /\ work[w].obj.ext \in DOMAIN qbo[work[w].obj.company]
        /\ Divergent(q.content, work[w].obj.content) = {}
    BY DEF RepostsAreFresh, Fresh, Accepts
  <2>2. q.content \in AllContents /\ work[w].obj.content \in AllContents
    BY <2>1, QboRow, WorkType DEF Row
  <2> QED BY <2>1, <2>2, RepostIsIdempotent
<1> QED BY <1>1, <1>2, <1>3, InvariantHolds, PTL DEF Spec
------------------------------------------------------------------------------
(* The token is none that QuickBooks has yet to give to the invoice.        *)
Reached(r, e, token) ==
  OnlyIn(r, e) => e \in DOMAIN qbo[r] /\ token <= qbo[r][e].token

RowsReached ==
  \A i \in DOMAIN invoices : LET row == invoices[i] IN
    IF HasLink(i) THEN Reached(row.company, row.ext, row.token) ELSE row.token = NoToken

(* The task has the token and the link of the row, which nobody else        *)
(* changes, and what QuickBooks answered is no older.                       *)
HasRow(t) ==
  t.inv # 0 => t.loaded.token = invoices[t.inv].token /\ t.loaded.ext = invoices[t.inv].ext

TaskReached(w) ==
  LET t == work[w]  o == t.obj IN ~Free(t) =>
    /\ HasRow(t)
    /\ t.at \in {"repost", "write", "rewrite"} /\ OnlyIn(o.company, o.ext) =>
         t.loaded.token <= o.token
    /\ t.at \in {"repost", "write", "rewrite", "insert"} =>
         o.ext # NoLink /\ Reached(o.company, o.ext, o.token)

TokenInvariant == RowsReached /\ \A w \in Workers : TaskReached(w)

TokensAdvance ==
  \A i \in DOMAIN invoices : NoNamesake(i) => invoices'[i].token >= invoices[i].token

(* QuickBooks never takes a token back.                                     *)
LEMMA ReachedStays ==
  ASSUME QueueInvariant, [Next]_vars, NEW r \in Realms, NEW e, NEW token \in Tokens,
         Reached(r, e, token)
  PROVE  Reached(r, e, token)'
<1>1. \A s \in Realms : e \in DOMAIN qbo[s] => e \in DOMAIN qbo'[s]
  BY TokensGrow
<1>2. OnlyIn(r, e)' => OnlyIn(r, e)
  BY <1>1 DEF OnlyIn
<1>3. token \in Int
  BY DEF Tokens, NoToken
<1>4. CASE ~OnlyIn(r, e)
  BY <1>2, <1>4 DEF Reached
<1>5. CASE OnlyIn(r, e)
  <2> DEFINE before == qbo[r][e].token
             after == qbo'[r][e].token
  <2>1. e \in DOMAIN qbo[r] /\ token <= before
    BY <1>5 DEF Reached
  <2>2. before \in Nat /\ after \in Nat /\ before <= after
    BY <2>1, TokensGrow
  <2>3. token <= after
    <3> HIDE DEF before, after
    <3> QED BY <1>3, <2>1, <2>2
  <2> QED BY <1>1, <2>1, <2>3 DEF Reached
<1> QED BY <1>4, <1>5

(* Only the session of a worker changes the link and the token of a row.    *)
LEMMA NextTokens ==
  ASSUME QueueInvariant, SessionInvariant, [Next]_vars, NEW i \in DOMAIN invoices
  PROVE  \/ /\ i \in DOMAIN invoices'
            /\ invoices'[i].company = invoices[i].company
            /\ invoices'[i].ext = invoices[i].ext
            /\ invoices'[i].token = invoices[i].token
         \/ \E w \in Workers : Saves(w, i)
<1>1. i \in DOMAIN invoices' /\ invoices'[i].company = invoices[i].company
  BY NextOwnersKeep DEF OwnersKeep
<1>2. ASSUME NEW t \in Threads, Commits(t, i)
      PROVE  invoices'[i].ext = invoices[i].ext /\ invoices'[i].token = invoices[i].token
  <2>1. \A current, loaded, obj : obj.ext = loaded.ext /\ obj.token = loaded.token =>
          /\ Merge(current, loaded, obj).ext = current.ext
          /\ Merge(current, loaded, obj).token = current.token
    BY DEF Merge, Net
  <2>2. /\ request[t].obj.ext = request[t].loaded.ext
        /\ request[t].obj.token = request[t].loaded.token
    BY <1>2 DEF Commits, SessionInvariant, RequestShape
  <2> QED BY <1>2, <2>1, <2>2 DEF Commits
<1>3. ASSUME NEW w \in Workers, GivesUp(w, i)
      PROVE  invoices'[i].ext = invoices[i].ext /\ invoices'[i].token = invoices[i].token
  BY <1>3, RowType DEF GivesUp, Row
<1>4. ASSUME NewRow
      PROVE  invoices'[i].ext = invoices[i].ext /\ invoices'[i].token = invoices[i].token
  BY <1>4 DEF NewRow
<1> QED BY <1>1, <1>2, <1>3, <1>4, NextRows DEF RowsStep, RowSteps

(* A worker that saves its session is done with it.                         *)
LEMMA SavedTask ==
  ASSUME QueueInvariant, SessionInvariant, NEW w \in Workers, NEW i \in DOMAIN invoices,
         Saves(w, i)
  PROVE  /\ Free(work'[w]) /\ ~Free(work[w]) /\ Shaped(w) /\ i # 0
         /\ work[w].inv = i /\ work[w].obj.company = invoices[i].company
         /\ work[w].obj.origin = invoices[i].origin
         /\ work[w].loaded.ext # NoLink => work[w].obj.ext = work[w].loaded.ext
<1>1. work'[w] = Idle /\ i # 0
  BY LenProperties DEF Saves, CompleteJob, CompleteEvent, Finish, Move, QueueInvariant,
     TypeOK, WorkerTypeOK, StoreTypeOK
<1>2. /\ ~Free(work[w]) /\ Shaped(w) /\ phase[w] \in {"jobs", "events"}
      /\ work[w].inv = i /\ work[w].at \in {"write", "rewrite"}
  BY DEF Saves, Free, SessionInvariant, QueueInvariant, TypeOK, WorkerTypeOK
<1>3. /\ SameOwner(i, work[w].loaded) /\ work[w].obj.company = work[w].loaded.company
      /\ work[w].obj.origin = work[w].loaded.origin
  BY <1>1, <1>2 DEF Shaped, JobShape, EventShape
<1>4. work[w].loaded.ext # NoLink => work[w].obj.ext = work[w].loaded.ext
  BY <1>2 DEF Shaped, JobShape, EventShape
<1> QED BY <1>1, <1>2, <1>3, <1>4 DEF SameOwner, Free, Idle

(* Its commit writes its link and its token, if it has those of the row.    *)
LEMMA SavedToken ==
  ASSUME QueueInvariant, SessionInvariant, TokenInvariant, NEW w \in Workers,
         NEW i \in DOMAIN invoices, Saves(w, i)
  PROVE  /\ invoices'[i].company = work[w].obj.company
         /\ invoices'[i].ext = work[w].obj.ext /\ work[w].obj.ext # NoLink
         /\ invoices'[i].token = work[w].obj.token
         /\ Reached(work[w].obj.company, work[w].obj.ext, work[w].obj.token)
         /\ NoNamesake(i) => invoices[i].token <= work[w].obj.token
<1> DEFINE t == work[w]
<1>1. /\ ~Free(t) /\ i # 0 /\ t.inv = i /\ t.at \in {"write", "rewrite"}
      /\ t.obj.company = invoices[i].company
      /\ t.loaded.ext # NoLink => t.obj.ext = t.loaded.ext
      /\ invoices'[i] = Merge(invoices[i], t.loaded, t.obj)
  BY SavedTask DEF Saves
<1>2. /\ t.loaded.token = invoices[i].token /\ t.loaded.ext = invoices[i].ext
      /\ OnlyIn(t.obj.company, t.obj.ext) => t.loaded.token <= t.obj.token
      /\ t.obj.ext # NoLink /\ Reached(t.obj.company, t.obj.ext, t.obj.token)
  BY <1>1 DEF TokenInvariant, TaskReached, HasRow
<1> HIDE DEF t
<1>3. /\ invoices'[i].company = t.obj.company
      /\ invoices'[i].ext = t.obj.ext /\ invoices'[i].token = t.obj.token
  BY <1>1, <1>2 DEF Merge, Net
<1>4. ASSUME NoNamesake(i) PROVE invoices[i].token <= t.obj.token
  <2>1. CASE HasLink(i)
    BY <1>1, <1>2, <1>4, <2>1 DEF NoNamesake, HasLink
  <2>2. CASE ~HasLink(i)
    <3>1. invoices[i].token = NoToken /\ t.obj.token \in Tokens
      BY <2>2, WorkType DEF TokenInvariant, RowsReached, Row, t
    <3> QED BY <3>1 DEF NoToken, Tokens
  <2> QED BY <2>1, <2>2
<1> QED BY <1>2, <1>3, <1>4 DEF t

(* So the rows have the tokens they had, or the answers that were saved.    *)
LEMMA NextRowsReached ==
  ASSUME QueueInvariant, SessionInvariant, TokenInvariant, [Next]_vars
  PROVE  RowsReached'
<1> SUFFICES ASSUME NEW i \in DOMAIN invoices'
             PROVE  IF HasLink(i)' THEN Reached(invoices[i].company, invoices[i].ext,
                                                invoices[i].token)'
                    ELSE invoices'[i].token = NoToken
  BY DEF RowsReached
<1>1. ASSUME NEW row, row.company \in Realms, row.token \in Tokens,
             Reached(row.company, row.ext, row.token),
             invoices'[i].company = row.company, invoices'[i].ext = row.ext,
             invoices'[i].token = row.token
      PROVE  Reached(invoices[i].company, invoices[i].ext, invoices[i].token)'
  <2>1. PICK r \in Realms, token \in Tokens :
          r = row.company /\ token = row.token /\ Reached(r, row.ext, token)
    BY <1>1
  <2>2. Reached(r, row.ext, token)'
    BY <2>1, ReachedStays
  <2> QED BY <1>1, <2>1, <2>2
<1>2. CASE /\ i \in DOMAIN invoices
           /\ invoices'[i].company = invoices[i].company
           /\ invoices'[i].ext = invoices[i].ext /\ invoices'[i].token = invoices[i].token
  <2>1. invoices[i].company \in Realms /\ invoices[i].token \in Tokens
    BY <1>2, RowType DEF Row
  <2>2. IF HasLink(i) THEN Reached(invoices[i].company, invoices[i].ext, invoices[i].token)
        ELSE invoices[i].token = NoToken
    BY <1>2 DEF TokenInvariant, RowsReached
  <2>3. PICK row : row = invoices[i]
    OBVIOUS
  <2> QED BY <1>1, <1>2, <2>1, <2>2, <2>3 DEF HasLink
<1>3. ASSUME i \in DOMAIN invoices, NEW w \in Workers, Saves(w, i)
      PROVE  /\ HasLink(i)'
             /\ Reached(invoices[i].company, invoices[i].ext, invoices[i].token)'
  <2>1. PICK row : row = work[w].obj
    OBVIOUS
  <2>2. row.company \in Realms /\ row.token \in Tokens
    BY <2>1, WorkType DEF Row
  <2> QED BY <1>1, <1>3, <2>1, <2>2, SavedToken DEF HasLink
<1>4. CASE i \notin DOMAIN invoices
  <2>1. NewRow /\ i = Len(invoices) + 1
    BY <1>4, AddedIndex
  <2>2. ASSUME NEW company, NEW content,
               invoices'[i] = [Blank EXCEPT !.company = company, !.content = content]
        PROVE  invoices'[i].ext = NoLink /\ invoices'[i].token = NoToken
    BY <2>2 DEF Blank
  <2>3. ASSUME NEW w \in Workers, work[w].at = "insert", invoices'[i] = work[w].obj
        PROVE  /\ HasLink(i)'
               /\ Reached(invoices[i].company, invoices[i].ext, invoices[i].token)'
    <3>1. PICK row : row = work[w].obj
      OBVIOUS
    <3>2. /\ row.company \in Realms /\ row.token \in Tokens
          /\ row.ext # NoLink /\ Reached(row.company, row.ext, row.token)
      BY <2>3, <3>1, WorkType DEF Row, TokenInvariant, TaskReached, Free
    <3> QED BY <1>1, <2>3, <3>1, <3>2 DEF HasLink
  <2> QED BY <2>1, <2>2, <2>3 DEF NewRow, HasLink
<1> QED BY <1>2, <1>3, <1>4, NextTokens

(* What an answer of QuickBooks puts on the object of a job.                *)
LEMMA SendsReached ==
  ASSUME QueueInvariant, SessionInvariant, TokenInvariant, [Next]_vars,
         NEW w \in Workers, work[w].at \in Calls, phase[w] = "jobs", Sends(w)
  PROVE  LET t == work[w]  s == work'[w] IN
           /\ s.at \in {"repost", "write", "rewrite"} =>
                /\ s.obj.ext # NoLink
                /\ Reached(t.obj.company, t.obj.ext, t.obj.token)'
                /\ OnlyIn(s.obj.company, s.obj.ext) => t.loaded.token <= s.obj.token
           /\ s.at # "insert"
<1> DEFINE t == work[w]
           s == work'[w]
           o == t.obj
           r == o.company
           e == o.ext
           Goal == /\ s.obj.ext # NoLink
                   /\ Reached(o.company, o.ext, o.token)'
                   /\ OnlyIn(s.obj.company, s.obj.ext) => t.loaded.token <= s.obj.token
<1>1. /\ ~Free(t) /\ Shaped(w) /\ t.inv = jobs[t.id].inv /\ JobShape(t, jobs[t.id].op)
      /\ t.inv \in DOMAIN invoices /\ t.inv # 0 /\ SameOwner(t.inv, t.loaded)
  <2>1. ~Free(t) /\ Shaped(w)
    BY DEF Free, Calls, SessionInvariant
  <2>2. t.inv \in DOMAIN invoices /\ t.inv # 0
    BY <2>1, AtWork, LenProperties DEF Shaped, QueueInvariant, TypeOK, StoreTypeOK
  <2> QED BY <2>1, <2>2 DEF Shaped
<1>2. /\ t.loaded.token = invoices[t.inv].token /\ t.loaded.ext = invoices[t.inv].ext
      /\ t.at = "repost" /\ OnlyIn(r, e) => t.loaded.token <= o.token
  BY <1>1 DEF TokenInvariant, TaskReached, HasRow
<1>3. /\ o \in Row /\ r \in Realms /\ o.token \in Int /\ t.loaded.token \in Int
      /\ r = invoices[t.inv].company
  BY <1>1, WorkType DEF Row, Tokens, NoToken, SameOwner, JobShape
<1>4. ASSUME NEW d \in DOMAIN qbo[r]
      PROVE  d \in Nat \ {0} /\ qbo[r][d].token \in Nat
  BY <1>3, <1>4, QboRow, LenProperties DEF QueueInvariant, TypeOK, QuickBooksTypeOK
<1>5. ASSUME NEW d \in DOMAIN qbo'[r], d \in Nat \ {0}, NEW token \in Int, NEW obj,
             obj.company = r, obj.ext = d, obj.token = token, s.obj = obj,
             qbo'[r][d].token \in Nat, token <= qbo'[r][d].token,
             OnlyIn(r, d) => t.loaded.token <= token
      PROVE  Goal
  BY <1>5 DEF Reached, NoLink
<1> HIDE DEF t, s, o, r, e, Goal
<1>6. ASSUME NEW d \in DOMAIN qbo'[r], d \in Nat \ {0}, NEW token \in Nat,
             t.at \in {"create", "query"},
             Takes(w, "write", Linked(o, d, token)),
             qbo'[r][d].token \in Nat, token <= qbo'[r][d].token
      PROVE  Goal
  <2>1. t.loaded.token = NoToken
    BY <1>1, <1>2, <1>6 DEF JobShape, TokenInvariant, RowsReached, HasLink
  <2> DEFINE obj == Linked(o, d, token)
  <2>2. obj.company = r /\ obj.ext = d /\ obj.token = token /\ s.obj = obj
    BY <1>3, <1>6 DEF Linked, Row, Takes, s, r
  <2>3. t.loaded.token <= token /\ token \in Int
    BY <2>1 DEF NoToken
  <2> HIDE DEF obj
  <2> QED BY <1>5, <1>6, <2>2, <2>3
<1>7. ASSUME t.at = "create", PostCreate(w),
             Takes(w, "write", Linked(o, Len(qbo[r]) + 1, 0))
      PROVE  Goal
  <2> DEFINE n == Len(qbo[r]) + 1
  <2>1. \E content, known : Insert(r, content, t.inv, known)
    BY <1>7 DEF PostCreate, r, o, t
  <2>2. n \in DOMAIN qbo'[r] /\ qbo'[r][n].token = 0
    BY <1>3, <2>1, InsertDocs
  <2>3. n \in Nat \ {0}
    BY <1>3, LenProperties DEF QueueInvariant, TypeOK, QuickBooksTypeOK
  <2>4. 0 \in Nat /\ 0 <= qbo'[r][n].token /\ qbo'[r][n].token \in Nat
    BY <2>2
  <2>5. Takes(w, "write", Linked(o, n, 0)) /\ t.at \in {"create", "query"}
    BY <1>7
  <2> HIDE DEF n
  <2> QED BY <1>6, <2>2, <2>3, <2>4, <2>5
<1>8. ASSUME t.at = "query", UNCHANGED qbo,
             \E d \in WithDocNumber(r, t.inv) : Takes(w, "write", Linked(o, d, qbo[r][d].token))
      PROVE  Goal
  <2>1. PICK d \in DOMAIN qbo[r] : Takes(w, "write", Linked(o, d, qbo[r][d].token))
    BY <1>8 DEF WithDocNumber
  <2>2. d \in DOMAIN qbo'[r] /\ qbo'[r][d].token = qbo[r][d].token
    BY <1>8
  <2>3. d \in Nat \ {0} /\ qbo[r][d].token \in Nat
    BY <1>4
  <2>4. qbo'[r][d].token \in Nat /\ qbo[r][d].token <= qbo'[r][d].token
    BY <2>2, <2>3
  <2> QED BY <1>6, <1>8, <2>1, <2>2, <2>3, <2>4
<1>9. ASSUME NEW at \in {"write", "rewrite"}, PostUpdate(w),
             t.at = IF at = "write" THEN "update" ELSE "repost",
             Takes(w, at, [o EXCEPT !.token = qbo[r][e].token + 1, !.sync = "complete"])
      PROVE  Goal
  <2> DEFINE token == qbo[r][e].token + 1
             obj == [o EXCEPT !.token = token, !.sync = "complete"]
  <2>1. Accepts(r, e, "update", o.token) /\ \E c : Overwrite(r, e, "update", c)
    BY <1>9 DEF PostUpdate, r, e, o, t
  <2>2. e \in DOMAIN qbo[r] /\ qbo[r][e].token = o.token
    BY <2>1 DEF Accepts
  <2>3. e \in DOMAIN qbo'[r] /\ qbo'[r][e].token = token
    <3>1. PICK c : Overwrite(r, e, "update", c)
      BY <2>1
    <3>2. qbo'[r][e].token = qbo[r][e].token + 1
      BY <1>3, <2>1, <2>2, <3>1, OverwriteDocs
    <3> QED BY <1>3, <2>2, <3>2, TokensGrow
  <2>4. OnlyIn(r, e) => t.loaded.token <= o.token
    <3>1. t.at = "update" => o.token = t.loaded.token
      BY <1>1 DEF JobShape, o
    <3> QED BY <1>2, <1>3, <1>9, <3>1
  <2>5. token \in Nat /\ (OnlyIn(r, e) => t.loaded.token <= token)
    BY <1>3, <1>4, <2>2, <2>4
  <2>6. obj.company = r /\ obj.ext = e /\ obj.token = token /\ s.obj = obj
    BY <1>3, <1>9 DEF Row, Takes, s, r, e
  <2>7. e \in Nat \ {0}
    BY <1>4, <2>2
  <2>8. token \in Int /\ token <= qbo'[r][e].token /\ qbo'[r][e].token \in Nat
    BY <2>3, <2>5
  <2> HIDE DEF token, obj
  <2> QED BY <1>5, <2>3, <2>5, <2>6, <2>7, <2>8
<1>10. ASSUME t.at \in {"delete", "void"}, PostDeleteOrVoid(w),
              Takes(w, "write", [o EXCEPT !.sync = "complete"])
       PROVE  Goal
  <2> DEFINE obj == [o EXCEPT !.sync = "complete"]
  <2>1. e \in DOMAIN qbo[r] /\ qbo[r][e].token = o.token
    BY <1>10 DEF PostDeleteOrVoid, Accepts, r, e, o, t
  <2>2. e \in DOMAIN qbo'[r] /\ qbo'[r][e].token \in Nat /\ o.token <= qbo'[r][e].token
    BY <1>3, <2>1, TokensGrow
  <2>3. o.token = t.loaded.token
    BY <1>1, <1>10 DEF JobShape, o
  <2>4. obj.company = r /\ obj.ext = e /\ obj.token = o.token /\ s.obj = obj
    BY <1>3, <1>10 DEF Row, Takes, s, r, e
  <2>5. e \in Nat \ {0}
    BY <1>4, <2>1
  <2>6. t.loaded.token <= o.token
    BY <1>3, <2>3
  <2> HIDE DEF obj
  <2> QED BY <1>3, <1>5, <2>2, <2>4, <2>5, <2>6
<1>11. ASSUME t.at = "reread", Readable(r, e), UNCHANGED qbo,
              Takes(w, "repost", [o EXCEPT !.token = qbo[r][e].token])
       PROVE  Goal
  <2> DEFINE token == qbo[r][e].token
             obj == [o EXCEPT !.token = token]
  <2>1. e \in DOMAIN qbo[r] /\ e \in DOMAIN qbo'[r] /\ qbo'[r][e].token = token
    BY <1>11 DEF Readable
  <2>2. e \in Nat \ {0} /\ token \in Nat
    BY <1>4, <2>1
  <2>3. obj.company = r /\ obj.ext = e /\ obj.token = token /\ s.obj = obj
    BY <1>3, <1>11 DEF Row, Takes, s, r, e
  <2>4. t.loaded.ext = e
    BY <1>1, <1>11 DEF JobShape, e, o
  <2>5. OnlyIn(r, e) => t.loaded.token <= token
    BY <1>1, <1>2, <1>3, <2>2, <2>4
       DEF TokenInvariant, RowsReached, Reached, HasLink, NoLink
  <2>6. token \in Int /\ token <= qbo'[r][e].token /\ qbo'[r][e].token \in Nat
    BY <2>1, <2>2
  <2> HIDE DEF token, obj
  <2> QED BY <1>5, <2>1, <2>2, <2>3, <2>5, <2>6
<1>12. s.at \in {"repost", "write", "rewrite"} => Goal
  <2>1. ASSUME NEW at, Marks(w, at), at \in {"reread", "create"}
        PROVE  s.at \notin {"repost", "write", "rewrite"}
    BY <2>1 DEF Marks, s
  <2> QED BY <1>7, <1>8, <1>9, <1>10, <1>11, <2>1 DEF Sends, t, o, r, e
<1>13. s.at # "insert"
  BY DEF Sends, Marks, Takes, s
<1> QED BY <1>12, <1>13 DEF Goal, t, s, o

(* What a read of QuickBooks puts on the object of an event.                *)
LEMMA ReadsReached ==
  ASSUME QueueInvariant, SessionInvariant, NEW w \in Workers, phase[w] = "events",
         Reads(w)
  PROVE  LET t == work[w]  s == work'[w] IN
           /\ s.at \notin {"repost", "rewrite"} /\ s.inv = t.inv
           /\ s.loaded.token = t.loaded.token /\ s.loaded.ext = t.loaded.ext
           /\ s.at \in {"write", "insert"} =>
                s.obj.ext # NoLink /\ Reached(t.obj.company, t.obj.ext, t.obj.token)'
           /\ s.at = "write" /\ OnlyIn(s.obj.company, s.obj.ext) =>
                t.loaded.token <= s.obj.token
<1> DEFINE t == work[w]
           s == work'[w]
           n == notes[t.id]
           q == qbo[n.realm][n.ext]
<1>1. /\ t.at = "fetch" /\ UNCHANGED qbo /\ EventShape(t, n) /\ n \in Note
  <2>1. ~Free(t) /\ t.at = "fetch" /\ UNCHANGED qbo
    BY DEF Reads, Free
  <2>2. Shaped(w) /\ t.id \in DOMAIN notes /\ notes \in Seq(Note)
    BY <2>1, AtWork DEF SessionInvariant, QueueInvariant, TypeOK, QuickBooksTypeOK
  <2> QED BY <2>1, <2>2, LenProperties DEF Shaped
<1>2. /\ t.obj = t.loaded /\ t.obj \in Row /\ t.loaded \in Row
      /\ (t.inv # 0 => t.loaded.ext = n.ext) /\ (n.op = "updated" => t.inv # 0)
      /\ n.ext \in Nat \ {0} /\ n.realm \in Realms
  BY <1>1, WorkType DEF EventShape, Note
<1>3. Readable(n.realm, n.ext) => n.ext \in DOMAIN qbo[n.realm] /\ q.token \in Nat
  BY <1>2, QboRow DEF Readable
<1>4. ASSUME NEW obj, Takes(w, "insert", obj), Readable(n.realm, n.ext),
             obj.company = n.realm, obj.ext = n.ext, obj.token = q.token
      PROVE  /\ s.at = "insert" /\ s.inv = t.inv /\ s.loaded = t.loaded
             /\ s.obj.ext # NoLink /\ Reached(t.obj.company, t.obj.ext, t.obj.token)'
  <2>1. s.obj = obj /\ qbo' = qbo
    BY <1>1, <1>4 DEF Takes
  <2>2. s.at = "insert" /\ s.inv = t.inv /\ s.loaded = t.loaded
    BY <1>4 DEF Takes
  <2> HIDE DEF n, q, t
  <2>3. n.ext \in DOMAIN qbo[n.realm] /\ q.token <= q.token
    BY <1>3, <1>4
  <2>4. s.obj.ext # NoLink
    BY <1>2, <1>4, <2>1 DEF NoLink
  <2> HIDE DEF s
  <2>5. Reached(t.obj.company, t.obj.ext, t.obj.token)'
    BY <1>4, <2>1, <2>3 DEF Reached, q, s, t
  <2> QED BY <2>2, <2>4, <2>5
<1>5. ASSUME n.op = "updated", Readable(n.realm, n.ext), Newer(q.token, t.loaded.token),
             s.at = "write", s.inv = t.inv, s.obj = Refreshed(t.obj, q),
             s.loaded = Compared(t.loaded, q)
      PROVE  /\ s.loaded.token = t.loaded.token /\ s.loaded.ext = t.loaded.ext
             /\ s.obj.ext # NoLink /\ Reached(t.obj.company, t.obj.ext, t.obj.token)'
             /\ t.loaded.token <= s.obj.token
  <2> DEFINE obj == Refreshed(t.obj, q)
             loaded == Compared(t.loaded, q)
  <2>1. /\ obj.company = t.obj.company /\ obj.ext = n.ext /\ obj.token = q.token
        /\ loaded.token = t.loaded.token /\ loaded.ext = t.loaded.ext
    BY <1>2, <1>5 DEF Refreshed, Compared, Row
  <2>2. OnlyIn(t.obj.company, n.ext) => t.obj.company = n.realm
    BY <1>2, <1>3, <1>5 DEF OnlyIn
  <2>3. t.loaded.token <= q.token /\ q.token <= q.token
    <3>1. q.token \in Nat /\ t.loaded.token \in Tokens
      BY <1>2, <1>3, <1>5 DEF Row
    <3>2. \A have \in Nat, local \in Tokens : Newer(have, local) => local <= have /\ have <= have
      BY DEF Newer, NoToken, Tokens
    <3> HIDE DEF q, t
    <3> QED BY <1>5, <3>1, <3>2
  <2>4. s.obj = obj /\ s.loaded = loaded /\ qbo' = qbo
    BY <1>1, <1>5
  <2> HIDE DEF obj, loaded, n
  <2> QED BY <1>2, <1>3, <1>5, <2>1, <2>2, <2>3, <2>4 DEF Reached, OnlyIn, NoLink
<1>6. ASSUME Marks(w, "skip")
      PROVE  s.at = "skip" /\ s.inv = t.inv /\ s.loaded = t.loaded
  BY <1>6 DEF Marks
<1>7. \/ Marks(w, "skip")
      \/ \E obj : /\ Takes(w, "insert", obj) /\ Readable(n.realm, n.ext)
                  /\ obj.company = n.realm /\ obj.ext = n.ext /\ obj.token = q.token
      \/ /\ n.op = "updated" /\ Readable(n.realm, n.ext) /\ Newer(q.token, t.loaded.token)
         /\ s.at = "write" /\ s.inv = t.inv /\ s.obj = Refreshed(t.obj, q)
         /\ s.loaded = Compared(t.loaded, q)
  <2> DEFINE obj == [company |-> n.realm, origin |-> "qbo", status |-> "Created",
                     deleted |-> FALSE, content |-> q.content, ext |-> n.ext,
                     token |-> q.token, sync |-> "complete"]
  <2>1. obj.company = n.realm /\ obj.ext = n.ext /\ obj.token = q.token
    OBVIOUS
  <2>2. \/ Marks(w, "skip")
        \/ Takes(w, "insert", obj) /\ Readable(n.realm, n.ext)
        \/ /\ n.op = "updated" /\ Readable(n.realm, n.ext) /\ Newer(q.token, t.loaded.token)
           /\ s.at = "write" /\ s.inv = t.inv /\ s.obj = Refreshed(t.obj, q)
           /\ s.loaded = Compared(t.loaded, q)
    BY DEF Reads
  <2> HIDE DEF s, t, n, q, obj
  <2> QED BY <2>1, <2>2
<1> HIDE DEF s, t, n, q
<1> QED BY <1>4, <1>5, <1>6, <1>7 DEF t, s

(* An event starts with the link, the token and the content of its invoice. *)
LEMMA StartedEventRow ==
  ASSUME QueueInvariant, NEW w \in Workers, StartsEvent(w)
  PROVE  LET t == work'[w] IN
           /\ t.at \in {"skip", "raised", "fetch", "write"}
           /\ t.inv # 0 => t.obj.content = t.loaded.content
           /\ t.at = "write" =>
                /\ t.inv # 0 /\ t.inv \in DOMAIN invoices /\ t.loaded = invoices[t.inv]
                /\ t.obj.company = t.loaded.company /\ t.obj.ext = t.loaded.ext
                /\ t.obj.token = t.loaded.token /\ HasLink(t.inv)
                /\ notes[t.id].op \in {"deleted", "voided"}
                /\ notes[t.id].ext = t.obj.ext /\ t.id \in DOMAIN notes
<1> DEFINE t == work'[w]
<1>1. PICK e \in batch[w] :
         \/ \E at \in {"skip", "raised"} : t = Begun(e, 0, at, Blank)
         \/ notes[e].op = "created" /\ t = Begun(e, 0, "fetch", Blank)
         \/ \E i \in DOMAIN invoices : Finds(w, e, i)
  BY DEF StartsEvent
<1>2. \A at : Begun(e, 0, at, Blank).at = at /\ Begun(e, 0, at, Blank).inv = 0
  BY DEF Begun
<1>3. e \in DOMAIN notes /\ notes[e] \in Note
  BY LenProperties DEF StartsEvent, QueueInvariant, HoldsItsQueue, QueueOf, TypeOK,
     QuickBooksTypeOK
<1>4. ASSUME NEW i \in DOMAIN invoices, Finds(w, e, i)
      PROVE  /\ t.at \in {"fetch", "write"} /\ t.obj.content = t.loaded.content
             /\ t.at = "write" =>
                  /\ t.inv = i /\ i # 0 /\ t.loaded = invoices[i] /\ HasLink(i)
                  /\ t.obj.company = invoices[i].company /\ t.obj.ext = invoices[i].ext
                  /\ t.obj.token = invoices[i].token
                  /\ t.id = e /\ notes[e].op \in {"deleted", "voided"}
                  /\ notes[e].ext = invoices[i].ext
  <2>1. /\ t.inv = i /\ t.loaded = invoices[i] /\ i # 0 /\ t.id = e
        /\ invoices[i].ext = notes[e].ext /\ invoices[i] \in Row
    BY <1>4, RowType, LenProperties DEF Finds, Lookup, QueueInvariant, TypeOK, StoreTypeOK
  <2> DEFINE deleted == [invoices[i] EXCEPT !.deleted = TRUE, !.status = "Deleted",
                                            !.sync = "complete"]
             voided  == [invoices[i] EXCEPT !.status = "Voided", !.sync = "complete"]
  <2>2. ASSUME NEW row \in {deleted, voided}
        PROVE  /\ row.company = invoices[i].company /\ row.ext = invoices[i].ext
               /\ row.token = invoices[i].token /\ row.content = invoices[i].content
    BY <2>1 DEF Row
  <2>3. \/ t.at = "fetch" /\ t.obj = invoices[i]
        \/ t.at = "write" /\ notes[e].op = "deleted" /\ t.obj = deleted
        \/ t.at = "write" /\ notes[e].op = "voided" /\ t.obj = voided
    BY <1>4 DEF Finds
  <2> HIDE DEF t, deleted, voided
  <2>4. HasLink(i)
    BY <1>3, <2>1 DEF HasLink, Note, NoLink
  <2> QED BY <2>1, <2>2, <2>3, <2>4
<1> HIDE DEF t
<1> QED BY <1>1, <1>2, <1>3, <1>4 DEF t

(* While a worker works on an invoice, only itself changes the link and the *)
(* token of it, if it is the only one.                                      *)
LEMMA OwnToken ==
  ASSUME QueueInvariant, SessionInvariant, [Next]_vars, NEW solo, Workers = {solo},
         ~Free(work'[solo]), NEW i \in DOMAIN invoices
  PROVE  /\ i \in DOMAIN invoices'
         /\ invoices'[i].ext = invoices[i].ext /\ invoices'[i].token = invoices[i].token
<1>1. \A w \in Workers : ~Saves(w, i)
  BY SavedTask
<1> QED BY <1>1, NextTokens

(* With one worker, what a task knows stays true until its commit.          *)
LEMMA NextTaskReached ==
  ASSUME QueueInvariant, SessionInvariant, TokenInvariant, [Next]_vars,
         NEW solo, Workers = {solo}
  PROVE  TaskReached(solo)'
<1> DEFINE t == work[solo]
           s == work'[solo]
<1> SUFFICES ASSUME ~Free(s) PROVE TaskReached(solo)'
  BY DEF TaskReached
<1>1. TaskMoves(solo) /\ solo \in Workers
  BY NextTask
<1>2. t.obj \in Row /\ t.inv \in {0} \cup DOMAIN invoices
  BY <1>1, WorkType DEF QueueInvariant, TypeOK, WorkerTypeOK
<1>3. \A i \in DOMAIN invoices :
        invoices'[i].ext = invoices[i].ext /\ invoices'[i].token = invoices[i].token
  BY OwnToken
<1>4. \A r \in Realms : \A e : OnlyIn(r, e)' => OnlyIn(r, e)
  BY TokensGrow DEF OnlyIn
<1>5. CASE s = t
  <2>1. TaskReached(solo) /\ ~Free(t)
    BY <1>1, <1>5 DEF TokenInvariant
  <2>2. HasRow(t)'
    BY <1>2, <1>3, <1>5, <2>1 DEF TaskReached, HasRow
  <2>3. PICK e : e = t.obj.ext
    OBVIOUS
  <2>4. PICK r \in Realms, token \in Tokens : r = t.obj.company /\ token = t.obj.token
    BY <1>2 DEF Row
  <2>5. Reached(r, e, token) => Reached(r, e, token)'
    BY ReachedStays
  <2>6. OnlyIn(r, e)' => OnlyIn(r, e)
    BY <1>4
  <2> QED BY <1>5, <2>1, <2>2, <2>3, <2>4, <2>5, <2>6 DEF TaskReached
<1>6. CASE UNCHANGED storeVars /\ StartsJob(solo)
  <2>1. /\ s.inv \in DOMAIN invoices /\ s.loaded = invoices[s.inv]
        /\ s.at = Entry(jobs[s.id], s.loaded) /\ jobs[s.id] \in Job
    BY <1>1, <1>6, StartedJob, LenProperties DEF QueueInvariant, TypeOK, StoreTypeOK
  <2>2. s.at \notin {"repost", "write", "rewrite", "insert"}
    BY <2>1 DEF Entry, Job
  <2>3. HasRow(t)'
    BY <1>6, <2>1 DEF HasRow, storeVars
  <2> QED BY <2>2, <2>3 DEF TaskReached
<1>7. CASE UNCHANGED <<storeVars, notes>> /\ StartsEvent(solo) /\ UNCHANGED qbo
  <2>1. /\ s.at \in {"skip", "raised", "fetch", "write"}
        /\ s.inv # 0 => s.loaded = invoices[s.inv]
        /\ s.at = "write" =>
             /\ s.inv # 0 /\ s.inv \in DOMAIN invoices
             /\ s.obj.company = s.loaded.company /\ s.obj.ext = s.loaded.ext
             /\ s.obj.token = s.loaded.token /\ HasLink(s.inv)
    BY <1>1, <1>7, StartedEvent, StartedEventRow
  <2>2. HasRow(t)'
    BY <1>7, <2>1 DEF HasRow, storeVars
  <2>3. s.at = "write" => /\ s.obj.ext # NoLink
                          /\ Reached(s.obj.company, s.obj.ext, s.obj.token)
                          /\ s.loaded.token <= s.obj.token
    <3> SUFFICES ASSUME s.at = "write"
                 PROVE  /\ s.obj.ext # NoLink
                        /\ Reached(s.obj.company, s.obj.ext, s.obj.token)
                        /\ s.loaded.token <= s.obj.token
      OBVIOUS
    <3>1. s.loaded = invoices[s.inv] /\ s.loaded.token \in Int
      BY <2>1, RowType DEF Row, Tokens, NoToken
    <3> QED BY <2>1, <3>1 DEF TokenInvariant, RowsReached, HasLink
  <2> QED BY <1>7, <2>1, <2>2, <2>3 DEF TaskReached, Reached, OnlyIn
<1>8. ASSUME UNCHANGED storeVars, t.at \in Calls, phase[solo] \in {"jobs", "events"},
             Sends(solo) \/ Reads(solo) \/ \E at \in {"raised", "conflict"} : Marks(solo, at)
      PROVE  TaskReached(solo)'
  <2>1. TaskReached(solo) /\ ~Free(t) /\ HasRow(t)
    BY <1>1, <1>8 DEF TokenInvariant, Free, Calls, TaskReached
  <2>2. ASSUME s.inv = t.inv, s.loaded.token = t.loaded.token, s.loaded.ext = t.loaded.ext
        PROVE  HasRow(t)'
    BY <1>8, <2>1, <2>2 DEF HasRow, storeVars
  <2>3. CASE \E at \in {"raised", "conflict"} : Marks(solo, at)
    <3>1. /\ s.at \in {"raised", "conflict"} /\ s.inv = t.inv /\ s.loaded = t.loaded
      BY <2>3 DEF Marks
    <3> QED BY <2>2, <3>1 DEF TaskReached
  <2>4. CASE phase[solo] = "jobs" /\ Sends(solo)
    <3>1. s.inv = t.inv /\ s.loaded = t.loaded
      BY <1>1, <2>4, SendsKeep
    <3>2. HasRow(t)'
      BY <2>2, <3>1
    <3>3. /\ s.at \in {"repost", "write", "rewrite"} =>
               /\ s.obj.ext # NoLink
               /\ Reached(t.obj.company, t.obj.ext, t.obj.token)'
               /\ OnlyIn(s.obj.company, s.obj.ext) => t.loaded.token <= s.obj.token
          /\ s.at # "insert"
      BY <1>1, <1>8, <2>4, SendsReached
    <3>4. s.obj.company \in Realms
      BY <1>1, <2>4, NextInvariant, WorkType
         DEF QueueInvariant, TypeOK, WorkerTypeOK, Task, Row
    <3> QED BY <1>4, <3>1, <3>2, <3>3, <3>4 DEF TaskReached
  <2>5. CASE phase[solo] = "events" /\ Reads(solo)
    <3>1. /\ s.at \notin {"repost", "rewrite"} /\ s.inv = t.inv /\ UNCHANGED qbo
          /\ s.loaded.token = t.loaded.token /\ s.loaded.ext = t.loaded.ext
          /\ s.at \in {"write", "insert"} =>
               s.obj.ext # NoLink /\ Reached(t.obj.company, t.obj.ext, t.obj.token)'
          /\ s.at = "write" /\ OnlyIn(s.obj.company, s.obj.ext) =>
               t.loaded.token <= s.obj.token
      BY <1>1, <2>5, ReadsReached DEF Reads
    <3> QED BY <2>2, <3>1 DEF TaskReached, OnlyIn
  <2>6. phase[solo] = "events" => ~Sends(solo)
    <3>1. phase[solo] = "events" => t.at = "fetch"
      BY <1>1, <1>8, <2>1 DEF SessionInvariant, Shaped, EventShape, Calls
    <3> QED BY <3>1 DEF Sends
  <2>7. phase[solo] = "jobs" => ~Reads(solo)
    BY <1>1, <1>8, <2>1 DEF SessionInvariant, Shaped, JobShape, Reads
  <2> QED BY <1>8, <2>3, <2>4, <2>5, <2>6, <2>7
<1>9. phase[solo] \in {"jobs", "events"}
  BY <1>1 DEF QueueInvariant, TypeOK, WorkerTypeOK
<1>10. CASE Fails(solo)
  <2>1. /\ ~Free(t) /\ UNCHANGED storeVars /\ s.at = "raised"
        /\ s.inv = t.inv /\ s.loaded = t.loaded
    BY <1>10 DEF Fails, Free, CommitPoints, Marks
  <2>2. TaskReached(solo) /\ HasRow(t)
    BY <1>1, <2>1 DEF TokenInvariant, TaskReached
  <2> QED BY <2>1, <2>2 DEF TaskReached, HasRow, storeVars
<1> QED BY <1>1, <1>5, <1>6, <1>7, <1>8, <1>9, <1>10 DEF TaskMoves, GoesOn

(* Nothing is stored and nobody works at the start.                         *)
LEMMA InitTokens == Init => TokenInvariant
BY DEF Init, StoreInit, WorkerInit, TokenInvariant, RowsReached, TaskReached, Idle, Free

(* So the stored token never goes back: a commit takes over what QuickBooks *)
(* answered, which is no older than what the row has still.                 *)
LEMMA NextTokensAdvance ==
  ASSUME QueueInvariant, SessionInvariant, TokenInvariant, [Next]_vars
  PROVE  TokensAdvance
<1> SUFFICES ASSUME NEW i \in DOMAIN invoices, NoNamesake(i)
             PROVE  invoices'[i].token >= invoices[i].token
  BY DEF TokensAdvance
<1>1. invoices[i].token \in Int
  BY RowType DEF Row, Tokens, NoToken
<1>2. CASE invoices'[i].token = invoices[i].token
  BY <1>1, <1>2
<1>3. ASSUME NEW w \in Workers, Saves(w, i)
      PROVE  invoices'[i].token >= invoices[i].token
  <2>1. invoices'[i].token = work[w].obj.token /\ invoices[i].token <= work[w].obj.token
    BY <1>3, SavedToken
  <2>2. work[w].obj.token \in Int
    BY WorkType DEF Row, Tokens, NoToken
  <2> QED BY <1>1, <2>1, <2>2
<1> QED BY <1>2, <1>3, NextTokens

(* With one worker, whatever the number of edits, faults and crashes, the   *)
(* stored SyncToken of an invoice without a namesake never goes back.       *)
THEOREM TokensLast ==
  ASSUME NEW solo, Workers = {solo}
  PROVE  Spec => TokenMonotone
<1>1. QueueInvariant /\ SessionInvariant /\ TokenInvariant /\ [Next]_vars => TokenInvariant'
  BY NextRowsReached, NextTaskReached DEF TokenInvariant
<1>2. QueueInvariant /\ SessionInvariant /\ TokenInvariant /\ [Next]_vars => TokensAdvance
  BY NextTokensAdvance
<1>3. QueueInvariant /\ SessionInvariant /\ [Next]_vars => SessionInvariant'
  BY NextSessions
<1>4. TokensAdvance =>
        \A i \in DOMAIN invoices : NoNamesake(i) => invoices'[i].token >= invoices[i].token
  BY DEF TokensAdvance
<1> QED BY <1>1, <1>2, <1>3, <1>4, InitTokens, InitSessions, InvariantHolds, PTL
        DEF Spec, TokenMonotone
------------------------------------------------------------------------------
(* What an object with this token says of QuickBooks' invoice: its due date *)
(* and, unless the token is the one a create returned, its total.           *)
Alike(origin, token, here, there) ==
  /\ SameDue(here, there)
  /\ (origin = "local" /\ token = 0) \/ here.total = there.total

(* Who has the invoice's current token has its content, too.                *)
Says(origin, r, e, token, content) ==
  OnlyIn(r, e) =>
    LET q == qbo[r][e] IN
      q.status = "Live" /\ token = q.token => Alike(origin, token, content, q.content)

(* What a notification tells of a delete or a void stays true.              *)
IsTrue(note) ==
  /\ note.ext \in DOMAIN qbo[note.realm]
  /\ note.op = "deleted" => qbo[note.realm][note.ext].status = "Deleted"
  /\ note.op = "voided" => qbo[note.realm][note.ext].status # "Live"

NotesAreTrue == \A n \in DOMAIN notes : IsTrue(notes[n])

(* The create was tried before: the token may be that of an invoice found   *)
(* by its DocNumber, and its content another.                               *)
Retries(w) ==
  phase[w] = "jobs" /\ jobs[work[w].id].op = "create" /\ jobs[work[w].id].attempts > 0

(* A job of the same invoice waits.                                         *)
OtherJob(w) ==
  \E j \in DOMAIN jobs :
    /\ jobs[j].inv = work[w].inv /\ Active(jobs[j])
    /\ phase[w] = "jobs" => j # work[w].id

(* The content that the commit of the task leaves in the row.               *)
Outcome(t) ==
  LET row == invoices[t.inv].content IN
    [total |-> Net(row.total, t.loaded.content.total, t.obj.content.total),
     due   |-> Net(row.due, t.loaded.content.due, t.obj.content.due)]

(* The task's object has the content of its token, and its commit writes    *)
(* this content, unless somebody else has enqueued a job for the invoice.   *)
TaskSays(w) ==
  LET t == work[w]  o == t.obj IN ~Free(t) =>
    /\ t.at = "query" => Retries(w)
    /\ t.at \in {"write", "rewrite", "insert"} =>
         Says(o.origin, o.company, o.ext, o.token, o.content) \/ Retries(w)
    /\ t.inv # 0 => Outcome(t) = o.content \/ OtherJob(w)

ContentInvariant == NotesAreTrue /\ \A w \in Workers : TaskSays(w)

(* Contents laid over each other are the same on both sides.                *)
LEMMA OverlaySays ==
  ASSUME NEW base \in AllContents, NEW given \in AllContents
  PROVE  \A origin, token :
           /\ Alike(origin, token, given, Overlay(base, given))
           /\ Alike(origin, token, Overlay(base, given), given)
           /\ Alike(origin, token, given, given)
BY DEF Overlay, Alike, SameDue

(* Whoever writes to QuickBooks, the answer that is still current says what *)
(* it said: a change of the content changes the token.                      *)
LEMMA SaysLasts ==
  ASSUME QueueInvariant, [Next]_vars, NEW r \in Realms, NEW e, NEW token \in Tokens,
         NEW content, NEW origin, Reached(r, e, token), Says(origin, r, e, token, content)
  PROVE  Says(origin, r, e, token, content)'
<1> DEFINE q == qbo[r][e]
           p == qbo'[r][e]
           before == q.token
           after == p.token
<1> SUFFICES ASSUME OnlyIn(r, e)', p.status = "Live", token = p.token
             PROVE  Alike(origin, token, content, p.content)
  BY DEF Says
<1>1. \A s \in Realms : e \in DOMAIN qbo[s] => e \in DOMAIN qbo'[s]
  BY TokensGrow
<1>2. OnlyIn(r, e)
  BY <1>1 DEF OnlyIn
<1>3. e \in DOMAIN qbo[r] /\ token <= before
  BY <1>2 DEF Reached
<1>4. /\ before \in Nat /\ after \in Nat /\ before <= after
      /\ after = before => p.content = q.content
      /\ q.status # "Live" => p.status # "Live"
  BY <1>3, TokensGrow
<1>5. token = before /\ after = before
  <2>1. token = after
    OBVIOUS
  <2> HIDE DEF before, after
  <2> QED BY <1>3, <1>4, <2>1 DEF Tokens, NoToken
<1>6. q.status = "Live" /\ p.content = q.content /\ token = q.token
  BY <1>4, <1>5
<1> QED BY <1>2, <1>6 DEF Says

(* A retried job stays one.                                                 *)
LEMMA TriesLast ==
  ASSUME QueueInvariant, [Next]_vars, NEW j \in DOMAIN jobs, jobs[j].attempts > 0
  PROVE  jobs'[j].attempts > 0
<1>1. jobs[j] \in Job /\ jobs[j].attempts \in Nat /\ MaxAttempts > 0
  <2>1. jobs[j] \in Job
    BY LenProperties DEF QueueInvariant, TypeOK, StoreTypeOK
  <2> QED BY <2>1, StoreAssumption DEF Job
<1>2. CASE jobs'[j] = jobs[j]
  BY <1>2
<1>3. CASE JobSteps(j)
  <2>1. [Reattempt(jobs[j]) EXCEPT !.error = "error"].attempts = jobs[j].attempts + 1
    BY <1>1 DEF Reattempt, Job
  <2>2. jobs'[j].attempts \in {jobs[j].attempts, jobs[j].attempts + 1, MaxAttempts}
    BY <1>1, <1>3, <2>1 DEF JobSteps, Job
  <2> QED BY <1>1, <2>2
<1> QED BY <1>2, <1>3, NextJobs DEF JobsStep, NewJob

(* While the only worker has its session open, no waiting job is finished.  *)
LEMMA WaitingStays ==
  ASSUME QueueInvariant, [Next]_vars, NEW solo, Workers = {solo}, ~Free(work'[solo]),
         NEW j \in DOMAIN jobs, Active(jobs[j])
  PROVE  Active(jobs'[j])
<1>1. jobs[j] \in Job
  BY LenProperties DEF QueueInvariant, TypeOK, StoreTypeOK
<1>2. ~Finish(solo)
  BY DEF Finish, Move, QueueInvariant, TypeOK, WorkerTypeOK, Idle, Free
<1>3. CASE jobs'[j] = jobs[j]
  BY <1>3
<1>4. CASE JobSteps(j)
  BY <1>1, <1>2, <1>4 DEF JobSteps, Active, Job
<1> QED BY <1>3, <1>4, NextJobs DEF JobsStep, NewJob

(* What the write a notification tells of left in QuickBooks.               *)
Tells(op, status) ==
  \/ op \in {"created", "updated"} /\ status = "Live"
  \/ op = "voided" /\ status = "Voided"
  \/ op = "deleted" /\ status = "Deleted"

(* A write to one invoice of QuickBooks, and the notification of it.        *)
Writes(r, e, op) ==
  /\ notes' = Append(notes, [realm |-> r, ext |-> e, op |-> op])
  /\ e \in DOMAIN qbo'[r] /\ (op = "created" => e \notin DOMAIN qbo[r])
  /\ Tells(op, qbo'[r][e].status)
  /\ \A s \in Realms : \A d \in DOMAIN qbo[s] :
       <<s, d>> # <<r, e>> => qbo'[s][d] = qbo[s][d]
  /\ UNCHANGED storeVars

(* Nothing is written to QuickBooks without a notification that tells of    *)
(* it; a notification may be repeated.                                      *)
LEMMA NextNotes ==
  ASSUME QueueInvariant, [Next]_vars
  PROVE  \/ UNCHANGED <<qbo, notes>>
         \/ \E r \in Realms, e \in Nat \ {0} : \E op : Writes(r, e, op)
         \/ \E n \in DOMAIN notes : notes' = Append(notes, notes[n]) /\ UNCHANGED qbo
                                    /\ UNCHANGED storeVars
<1> DEFINE Writing == \E r \in Realms, e \in Nat \ {0} : \E op : Writes(r, e, op)
<1>1. ASSUME NEW r \in Realms, NEW content, NEW doc, NEW known, UNCHANGED storeVars,
             Insert(r, content, doc, known)
      PROVE  Writing
  <2> DEFINE e == Len(qbo[r]) + 1
  <2>1. /\ \A s \in Realms : \A d \in DOMAIN qbo[s] : qbo'[s][d] = qbo[s][d]
        /\ e \in DOMAIN qbo'[r] /\ e \in Nat \ {0} /\ e \notin DOMAIN qbo[r]
        /\ qbo'[r][e].status = "Live"
        /\ notes' = Append(notes, [realm |-> r, ext |-> e, op |-> "created"])
    BY <1>1, InsertDocs DEF Insert, Notify
  <2> HIDE DEF e
  <2>2. Writes(r, e, "created")
    BY <1>1, <2>1 DEF Writes, Tells
  <2> QED BY <2>1, <2>2
<1>2. ASSUME NEW r \in Realms, NEW e, NEW op, NEW token, NEW content, UNCHANGED storeVars,
             Accepts(r, e, op, token), Overwrite(r, e, op, content)
      PROVE  Writing
  <2>1. e \in DOMAIN qbo[r] /\ e \in Nat \ {0}
    BY <1>2, LenProperties DEF Accepts, QueueInvariant, TypeOK, QuickBooksTypeOK
  <2>2. /\ op = "update" => qbo'[r][e].status = "Live"
        /\ op = "void" => qbo'[r][e].status = "Voided"
        /\ op = "delete" => qbo'[r][e].status = "Deleted"
        /\ e \in DOMAIN qbo'[r]
        /\ \A s \in Realms : \A d \in DOMAIN qbo[s] :
             <<s, d>> # <<r, e>> => qbo'[s][d] = qbo[s][d]
    BY <1>2, <2>1, OverwriteDocs, TokensGrow
  <2>3. ASSUME NEW what \in {"updated", "voided", "deleted"}, Notify(r, e, what),
               Tells(what, qbo'[r][e].status)
        PROVE  Writing
    <3>1. Writes(r, e, what)
      BY <1>2, <2>2, <2>3 DEF Notify, Writes
    <3> QED BY <2>1, <3>1
  <2> HIDE DEF Writing
  <2>4. \/ op = "update" /\ Notify(r, e, "updated")
        \/ op = "void" /\ Notify(r, e, "voided")
        \/ op = "delete" /\ Notify(r, e, "deleted")
    BY <1>2 DEF Overwrite
  <2> QED BY <2>2, <2>3, <2>4 DEF Tells
<1> HIDE DEF Writing
<1>3. ASSUME UserStep, UNCHANGED storeVars PROVE Writing
  <2>1. ASSUME NEW r \in Realms, UserCreates(r) PROVE Writing
    BY <1>1, <1>3, <2>1 DEF UserCreates
  <2>2. ASSUME NEW r \in Realms, UserWrites(r) PROVE Writing
    BY <1>2, <1>3, <2>2 DEF UserWrites
  <2> QED BY <1>3, <2>1, <2>2 DEF UserStep
<1>4. ASSUME NEW w \in Workers, ExecutorStep(w) PROVE Writing \/ UNCHANGED <<qbo, notes>>
  <2>1. work[w].obj.company \in Realms
    BY WorkType DEF Row
  <2>2. CASE BeginJob(w) \/ QueryByDocNumber(w) \/ Rejected(w) \/ Reread(w)
    BY <2>2 DEF BeginJob, QueryByDocNumber, Rejected, Reread, qboVars
  <2>3. CASE PostCreate(w)
    BY <1>1, <2>1, <2>3 DEF PostCreate, ExecutorFrame
  <2>4. CASE PostUpdate(w)
    BY <1>2, <2>1, <2>4 DEF PostUpdate, ExecutorFrame
  <2>5. CASE PostDeleteOrVoid(w)
    BY <1>2, <2>1, <2>5 DEF PostDeleteOrVoid, ExecutorFrame
  <2> QED BY <1>4, <2>2, <2>3, <2>4, <2>5 DEF ExecutorStep
<1>5. ASSUME NEW w \in Workers, LoopStep(w) \/ HandlerStep(w) PROVE UNCHANGED <<qbo, notes>>
  BY <1>5 DEF LoopStep, PollJobs, PollEvents, Select, ClaimJobs, ClaimEvents, CompleteJob,
     RetryJob, AbortJob, CompleteEvent, RetryEvent, HandlerStep, BeginEvent, Fetch,
     HandlerFrame, qboVars
<1>6. ASSUME NEW w \in Workers,
             EndpointStep(w) \/ AttemptFails(w) \/ Crash(w) \/ Restart(w)
      PROVE  UNCHANGED <<qbo, notes>>
  BY <1>6 DEF EndpointStep, StoreEvent, CheckStored, AttemptFails, Crash, Restart, qboVars
<1>7. ASSUME NEW n \in DOMAIN notes, RepeatUnidentified(n)
      PROVE  notes' = Append(notes, notes[n]) /\ UNCHANGED qbo /\ UNCHANGED storeVars
  BY <1>7 DEF RepeatUnidentified
<1>8. ASSUME Wakes \/ UNCHANGED vars \/ UNCHANGED qboVars PROVE UNCHANGED <<qbo, notes>>
  BY <1>8 DEF Wakes, vars, qboVars
<1>9. \/ Writing \/ UNCHANGED <<qbo, notes>>
      \/ \E n \in DOMAIN notes : notes' = Append(notes, notes[n]) /\ UNCHANGED qbo
                                 /\ UNCHANGED storeVars
  BY <1>3, <1>4, <1>5, <1>6, <1>7, <1>8 DEF Next, WorkerStep
<1> QED BY <1>9 DEF Writing

(* A notification comes with the write it tells of, or repeats another, and *)
(* what it tells of a delete or a void stays true.                          *)
LEMMA NextNotesAreTrue ==
  ASSUME QueueInvariant, NotesAreTrue, [Next]_vars PROVE NotesAreTrue'
<1>1. notes \in Seq(Note) /\ \A n \in DOMAIN notes : notes[n] \in Note
  BY LenProperties DEF QueueInvariant, TypeOK, QuickBooksTypeOK
<1> DEFINE Stays(note) ==
      /\ note.ext \in DOMAIN qbo'[note.realm]
      /\ note.op = "deleted" => qbo'[note.realm][note.ext].status = "Deleted"
      /\ note.op = "voided" => qbo'[note.realm][note.ext].status # "Live"
<1>2. ASSUME NEW note \in Note, IsTrue(note) PROVE Stays(note)
  <2>1. note.realm \in Realms /\ note.ext \in DOMAIN qbo[note.realm]
    BY <1>2 DEF Note, IsTrue
  <2>2. Kept(note.realm, note.ext)
    BY <2>1, NextDocs DEF DocsChange
  <2> QED BY <1>2, <2>1, <2>2, TokensGrow DEF IsTrue, Kept
<1>3. CASE UNCHANGED notes
  BY <1>1, <1>2, <1>3 DEF NotesAreTrue, IsTrue
<1>4. ASSUME NEW note, notes' = Append(notes, note), Stays(note)
      PROVE  NotesAreTrue'
  <2>1. \A n \in DOMAIN notes' : notes'[n] = note \/ (n \in DOMAIN notes /\ notes'[n] = notes[n])
    BY <1>1, <1>4, LenProperties, AppendProperties
  <2> QED BY <1>1, <1>2, <1>4, <2>1 DEF NotesAreTrue, IsTrue
<1>5. ASSUME NEW r \in Realms, NEW e, NEW op, Writes(r, e, op) PROVE NotesAreTrue'
  <2> DEFINE note == [realm |-> r, ext |-> e, op |-> op]
  <2>1. note.realm = r /\ note.ext = e /\ note.op = op /\ notes' = Append(notes, note)
    BY <1>5 DEF Writes
  <2> HIDE DEF note
  <2>2. Stays(note)
    BY <1>5, <2>1 DEF Writes, Tells
  <2> QED BY <1>4, <2>1, <2>2
<1>6. ASSUME NEW n \in DOMAIN notes, notes' = Append(notes, notes[n]) PROVE NotesAreTrue'
  <2>1. PICK note \in Note : note = notes[n] /\ IsTrue(note)
    BY <1>1, <1>6 DEF NotesAreTrue
  <2> QED BY <1>2, <1>4, <1>6, <2>1
<1> QED BY <1>3, <1>5, <1>6, NextNotes

(* The token of an answer comes with the content that was sent, but for a   *)
(* create that was found by its DocNumber.                                  *)
LEMMA SendsSay ==
  ASSUME QueueInvariant, SessionInvariant, LinkInvariant, [Next]_vars,
         NEW w \in Workers, TaskSays(w), work[w].at \in Calls, phase[w] = "jobs", Sends(w)
  PROVE  LET t == work[w]  s == work'[w] IN
           /\ s.at \notin {"query", "insert"} /\ s.obj.content = t.obj.content
           /\ s.at \in {"write", "rewrite"} =>
                Says(t.obj.origin, t.obj.company, t.obj.ext, t.obj.token, t.obj.content)'
                \/ Retries(w)
<1> DEFINE t == work[w]
           s == work'[w]
           o == t.obj
           r == o.company
           e == o.ext
           Goal == Says(o.origin, o.company, o.ext, o.token, o.content)' \/ Retries(w)
<1>1. /\ ~Free(t) /\ o \in Row /\ r \in Realms /\ o.content \in AllContents
  BY WorkType DEF Free, Calls, Row
<1>2. ASSUME NEW at, NEW obj, Takes(w, at, obj), obj.company = r,
             obj.origin = o.origin, obj.content = o.content, NEW d, obj.ext = d,
             LET p == qbo'[r][d] IN
               p.status = "Live" /\ obj.token = p.token
                 => Alike(o.origin, obj.token, o.content, p.content)
      PROVE  Says(o.origin, o.company, o.ext, o.token, o.content)'
  <2>1. s.obj = obj
    BY <1>2 DEF Takes
  <2> HIDE DEF r
  <2> QED BY <1>2, <2>1 DEF Says
<1>9. t.at = "create" => o.origin = "local"
  <2>1. Shaped(w) /\ t.id \in DOMAIN jobs /\ t.inv # 0
    <3>1. Shaped(w) /\ t.id \in DOMAIN jobs
      BY <1>1, AtWork DEF SessionInvariant
    <3> QED BY <1>1, <3>1, LenProperties DEF Shaped, QueueInvariant, TypeOK, StoreTypeOK
  <2> QED BY <1>1, <2>1 DEF Shaped, JobShape, SameOwner, LinkInvariant, CreatesAreLocal
<1> HIDE DEF t, s, o, r, e
<1>3. ASSUME t.at = "create", PostCreate(w),
             Takes(w, "write", Linked(o, Len(qbo[r]) + 1, 0))
      PROVE  Goal
  <2> DEFINE n == Len(qbo[r]) + 1
             obj == Linked(o, n, 0)
  <2>1. PICK sum \in Totals : Insert(r, [o.content EXCEPT !.total = sum], t.inv, TRUE)
    BY <1>3 DEF PostCreate, r, o, t
  <2>2. qbo'[r][n].content.due = o.content.due
    <3> DEFINE sent == [o.content EXCEPT !.total = sum]
    <3>1. sent.due = o.content.due /\ Insert(r, sent, t.inv, TRUE)
      BY <1>1, <2>1, SummedContent
    <3> HIDE DEF sent
    <3>2. qbo'[r][n].content = sent
      BY <1>1, <3>1, InsertDocs
    <3> QED BY <3>1, <3>2
  <2>3. /\ obj.company = r /\ obj.ext = n /\ obj.content = o.content
        /\ obj.origin = o.origin /\ obj.token = 0
    BY <1>1 DEF Linked, Row, r
  <2>4. Alike(o.origin, obj.token, o.content, qbo'[r][n].content)
    BY <1>3, <1>9, <2>2, <2>3 DEF Alike, SameDue
  <2> HIDE DEF n, obj
  <2> QED BY <1>2, <1>3, <2>3, <2>4 DEF obj, n
<1>4. t.at = "query" => Retries(w)
  BY <1>1 DEF TaskSays, t
<1>5. ASSUME NEW at \in {"write", "rewrite"}, PostUpdate(w),
             Takes(w, at, [o EXCEPT !.token = qbo[r][e].token + 1, !.sync = "complete"])
      PROVE  Goal
  <2> DEFINE obj == [o EXCEPT !.token = qbo[r][e].token + 1, !.sync = "complete"]
             there == qbo[r][e].content
  <2>1. Accepts(r, e, "update", o.token) /\ Overwrite(r, e, "update", Pushed(there, o.content))
    BY <1>5 DEF PostUpdate, r, e, o, t
  <2>2. e \in DOMAIN qbo[r]
    BY <2>1 DEF Accepts
  <2>3. there \in AllContents
    BY <1>1, <2>2, QboRow
  <2>4. qbo'[r][e].content = Pushed(there, o.content)
    <3> HIDE DEF there
    <3> QED BY <1>1, <2>1, <2>2, OverwriteDocs
  <2>5. Alike(o.origin, obj.token, o.content, qbo'[r][e].content)
    <3> HIDE DEF there
    <3> QED BY <1>1, <2>3, <2>4, OverlaySays DEF Pushed
  <2>6. obj.company = r /\ obj.ext = e /\ obj.content = o.content
    BY <1>1 DEF Row, r, e
  <2>7. obj.origin = o.origin
    BY <1>1 DEF Row
  <2> HIDE DEF obj, there
  <2> QED BY <1>2, <1>5, <2>5, <2>6, <2>7 DEF obj
<1>6. ASSUME PostDeleteOrVoid(w), t.at \in {"delete", "void"},
             Takes(w, "write", [o EXCEPT !.sync = "complete"])
      PROVE  Goal
  <2> DEFINE obj == [o EXCEPT !.sync = "complete"]
  <2>1. Accepts(r, e, t.at, o.token) /\ Overwrite(r, e, t.at, o.content)
    BY <1>6 DEF PostDeleteOrVoid, r, e, o, t
  <2>2. qbo'[r][e].status # "Live"
    <3>1. e \in DOMAIN qbo[r]
      BY <2>1 DEF Accepts
    <3> QED BY <1>1, <1>6, <2>1, <3>1, OverwriteDocs
  <2>3. /\ obj.company = r /\ obj.ext = e /\ obj.content = o.content
        /\ obj.origin = o.origin
    BY <1>1 DEF Row, r, e
  <2> HIDE DEF obj
  <2> QED BY <1>2, <1>6, <2>2, <2>3 DEF obj
<1>7. s.at \in {"write", "rewrite"} => Goal
  <2>1. ASSUME NEW at, Marks(w, at), at \in {"reread", "create"}
        PROVE  s.at \notin {"write", "rewrite"}
    BY <2>1 DEF Marks, s
  <2>2. ASSUME NEW obj, Takes(w, "repost", obj) PROVE s.at \notin {"write", "rewrite"}
    BY <2>2 DEF Takes, s
  <2> QED BY <1>3, <1>4, <1>5, <1>6, <2>1, <2>2 DEF Sends, t, o, r, e
<1>8. s.obj.content = o.content /\ s.at \notin {"query", "insert"}
  <2>1. \A n, token : Linked(o, n, token).content = o.content
    BY <1>1 DEF Linked, Row
  <2>2. \A n : /\ [o EXCEPT !.token = n, !.sync = "complete"].content = o.content
               /\ [o EXCEPT !.token = n].content = o.content
    BY <1>1 DEF Row
  <2>3. [o EXCEPT !.sync = "complete"].content = o.content
    BY <1>1 DEF Row
  <2>4. ASSUME NEW at, NEW obj, Takes(w, at, obj), obj.content = o.content,
               at \notin {"query", "insert"}
        PROVE  s.obj.content = o.content /\ s.at \notin {"query", "insert"}
    BY <2>4 DEF Takes, s
  <2>5. ASSUME NEW at \in {"reread", "create"}, Marks(w, at)
        PROVE  s.obj.content = o.content /\ s.at \notin {"query", "insert"}
    BY <2>5 DEF Marks, s, o, t
  <2>6. \/ \E at \in {"reread", "create"} : Marks(w, at)
        \/ \E d, token : Takes(w, "write", Linked(o, d, token))
        \/ \E at \in {"write", "rewrite"}, n \in {qbo[r][e].token + 1} :
             Takes(w, at, [o EXCEPT !.token = n, !.sync = "complete"])
        \/ Takes(w, "write", [o EXCEPT !.sync = "complete"])
        \/ \E n : Takes(w, "repost", [o EXCEPT !.token = n])
    BY DEF Sends, t, o, r, e
  <2>7. ASSUME NEW d, NEW token, Takes(w, "write", Linked(o, d, token))
        PROVE  s.obj.content = o.content /\ s.at \notin {"query", "insert"}
    BY <2>1, <2>4, <2>7
  <2>8. ASSUME NEW at \in {"write", "rewrite"}, NEW n,
               Takes(w, at, [o EXCEPT !.token = n, !.sync = "complete"])
        PROVE  s.obj.content = o.content /\ s.at \notin {"query", "insert"}
    BY <2>2, <2>4, <2>8
  <2>9. ASSUME NEW n, Takes(w, "repost", [o EXCEPT !.token = n])
        PROVE  s.obj.content = o.content /\ s.at \notin {"query", "insert"}
    <3>1. [o EXCEPT !.token = n].content = o.content
      BY <1>1 DEF Row
    <3> DEFINE obj == [o EXCEPT !.token = n]
    <3>2. Takes(w, "repost", obj) /\ obj.content = o.content
      BY <2>9, <3>1
    <3> HIDE DEF obj
    <3> QED BY <2>4, <3>2
  <2> QED BY <2>3, <2>4, <2>5, <2>6, <2>7, <2>8, <2>9
<1> QED BY <1>7, <1>8 DEF Goal, t, s, o

(* A read takes over the content with the token, and sends all of it that   *)
(* the row does not have.                                                   *)
LEMMA ReadsSay ==
  ASSUME QueueInvariant, SessionInvariant, NEW w \in Workers, TaskSays(w),
         phase[w] = "events", Reads(w)
  PROVE  LET t == work[w]  s == work'[w] IN
           /\ s.at # "query" /\ s.inv = t.inv /\ s.id = t.id
           /\ s.at \in {"write", "insert"} =>
                Says(t.obj.origin, t.obj.company, t.obj.ext, t.obj.token, t.obj.content)'
           /\ s.inv # 0 =>
                LET row == invoices[s.inv].content IN
                  \/ [total |-> Net(row.total, s.loaded.content.total, s.obj.content.total),
                      due |-> Net(row.due, s.loaded.content.due, s.obj.content.due)]
                       = s.obj.content
                  \/ OtherJob(w)
<1> DEFINE t == work[w]
           s == work'[w]
           n == notes[t.id]
           q == qbo[n.realm][n.ext]
           row == invoices[s.inv].content
           Wrote == [total |-> Net(row.total, s.loaded.content.total, s.obj.content.total),
                     due |-> Net(row.due, s.loaded.content.due, s.obj.content.due)]
           Told == Says(t.obj.origin, t.obj.company, t.obj.ext, t.obj.token, t.obj.content)'
<1>1. /\ ~Free(t) /\ t.at = "fetch" /\ UNCHANGED qbo /\ EventShape(t, n) /\ n \in Note
  <2>1. ~Free(t) /\ t.at = "fetch" /\ UNCHANGED qbo
    BY DEF Reads, Free
  <2>2. Shaped(w) /\ t.id \in DOMAIN notes /\ notes \in Seq(Note)
    BY <2>1, AtWork DEF SessionInvariant, QueueInvariant, TypeOK, QuickBooksTypeOK
  <2> QED BY <2>1, <2>2, LenProperties DEF Shaped
<1>2. /\ t.obj = t.loaded /\ t.obj \in Row /\ (t.inv # 0 => t.loaded.ext = n.ext)
      /\ (n.op = "updated" => t.inv # 0) /\ (n.op = "created" => t.inv = 0)
      /\ n.realm \in Realms /\ t.obj.content \in AllContents
  <2>1. t.obj \in Row
    BY WorkType
  <2> QED BY <1>1, <2>1 DEF EventShape, Note, Row
<1>3. Readable(n.realm, n.ext) => n.ext \in DOMAIN qbo[n.realm] /\ q.content \in AllContents
  BY <1>2, QboRow DEF Readable
<1>4. t.inv # 0 => Outcome(t) = t.obj.content \/ OtherJob(w)
  BY <1>1 DEF TaskSays
<1>5. CASE Marks(w, "skip")
  <2>1. /\ s.at = "skip" /\ s.inv = t.inv /\ s.id = t.id
        /\ s.loaded = t.loaded /\ s.obj = t.obj
    BY <1>5 DEF Marks
  <2> QED BY <1>4, <2>1 DEF Outcome
<1>6. ASSUME NEW obj, n.op = "created", Takes(w, "insert", obj), Readable(n.realm, n.ext),
             obj.company = n.realm, obj.ext = n.ext, obj.content = q.content
      PROVE  s.at = "insert" /\ s.inv = t.inv /\ s.id = t.id /\ t.inv = 0 /\ Told
  <2>1. s.at = "insert" /\ s.inv = t.inv /\ s.id = t.id /\ s.obj = obj /\ qbo' = qbo
    BY <1>1, <1>6 DEF Takes
  <2>2. Alike(obj.origin, obj.token, q.content, q.content)
    <3> HIDE DEF q
    <3> QED BY <1>3, <1>6, OverlaySays
  <2>3. t.inv = 0
    BY <1>2, <1>6
  <2> HIDE DEF n, q, t, s
  <2>4. Told
    BY <1>6, <2>1, <2>2 DEF Says, q, t, s
  <2> QED BY <2>1, <2>3, <2>4
<1>7. ASSUME n.op = "updated", Readable(n.realm, n.ext),
             s.at = "write", s.id = t.id, s.inv = t.inv, s.obj = Refreshed(t.obj, q),
             s.loaded = Compared(t.loaded, q)
      PROVE  Told /\ (Wrote = s.obj.content \/ OtherJob(w))
  <2> DEFINE obj == Refreshed(t.obj, q)
             loaded == Compared(t.loaded, q)
             here == t.obj.content
             there == q.content
  <2>1. /\ obj.company = t.obj.company /\ obj.ext = n.ext
        /\ obj.content = Pulled(here, there)
        /\ loaded.content.total = here.total
        /\ loaded.content.due = IF there.due = NoDue THEN here.due ELSE NoDue
    BY <1>2, <1>7 DEF Refreshed, Compared, Row, AllContents
  <2>2. OnlyIn(t.obj.company, n.ext) => t.obj.company = n.realm
    BY <1>2, <1>3, <1>7 DEF OnlyIn
  <2>3. s.obj = obj /\ s.loaded = loaded /\ qbo' = qbo
    BY <1>1, <1>7
  <2>4. Alike(obj.origin, obj.token, Pulled(here, there), there)
    <3> HIDE DEF here, there, obj
    <3> QED BY <1>2, <1>3, <1>7, OverlaySays DEF Pulled, here, there
  <2> HIDE DEF obj, loaded, n
  <2>5. Told
    BY <1>2, <2>1, <2>2, <2>3, <2>4 DEF Says, OnlyIn
  <2>6. ASSUME ~OtherJob(w) PROVE Wrote = s.obj.content
    <3>1. t.inv # 0
      BY <1>2, <1>7
    <3>2. Outcome(t) = here /\ row = invoices[t.inv].content
      BY <1>4, <1>7, <2>6, <3>1
    <3>3. row.total = here.total /\ row.due = here.due
      BY <1>2, <3>2 DEF Outcome, Net
    <3>4. s.obj.content = Pulled(here, there)
      BY <2>1, <2>3
    <3> HIDE DEF s, t, row
    <3> QED BY <2>1, <2>3, <3>3, <3>4 DEF Net, Pulled, Overlay
  <2> QED BY <2>5, <2>6
<1>8. \/ Marks(w, "skip")
      \/ \E obj : /\ n.op = "created" /\ Takes(w, "insert", obj) /\ Readable(n.realm, n.ext)
                  /\ obj.company = n.realm /\ obj.ext = n.ext /\ obj.content = q.content
      \/ /\ n.op = "updated" /\ Readable(n.realm, n.ext)
         /\ s.at = "write" /\ s.id = t.id /\ s.inv = t.inv /\ s.obj = Refreshed(t.obj, q)
         /\ s.loaded = Compared(t.loaded, q)
  <2> DEFINE obj == [company |-> n.realm, origin |-> "qbo", status |-> "Created",
                     deleted |-> FALSE, content |-> q.content, ext |-> n.ext,
                     token |-> q.token, sync |-> "complete"]
  <2>1. obj.company = n.realm /\ obj.ext = n.ext /\ obj.content = q.content
    OBVIOUS
  <2>2. \/ Marks(w, "skip")
        \/ n.op = "created" /\ Takes(w, "insert", obj) /\ Readable(n.realm, n.ext)
        \/ /\ n.op = "updated" /\ Readable(n.realm, n.ext)
           /\ s.at = "write" /\ s.id = t.id /\ s.inv = t.inv /\ s.obj = Refreshed(t.obj, q)
           /\ s.loaded = Compared(t.loaded, q)
    BY DEF Reads
  <2> HIDE DEF s, t, n, q, obj
  <2> QED BY <2>1, <2>2
<1> HIDE DEF n, q, Told, Wrote
<1>9. s.at # "query" /\ s.inv = t.inv /\ s.id = t.id
  BY <1>5, <1>6, <1>7, <1>8 DEF Marks
<1>10. s.at \in {"write", "insert"} => Told
  BY <1>5, <1>6, <1>7, <1>8 DEF Marks
<1>11. s.inv # 0 => Wrote = s.obj.content \/ OtherJob(w)
  <2>1. Marks(w, "skip") /\ s.inv # 0 => Outcome(t) = s.obj.content \/ OtherJob(w)
    BY <1>4 DEF Marks
  <2>2. Marks(w, "skip") => Outcome(t) = Wrote
    BY DEF Marks, Outcome, Wrote
  <2> QED BY <1>6, <1>7, <1>8, <2>1, <2>2
<1> QED BY <1>9, <1>10, <1>11 DEF Told, Wrote

(* The content of a row changes by the commit of a request, which enqueues  *)
(* a job, or of a worker.                                                   *)
LEMMA NextContents ==
  ASSUME QueueInvariant, [Next]_vars, NEW i \in DOMAIN invoices
  PROVE  \/ invoices'[i].content = invoices[i].content
         \/ \E t \in Threads : Commits(t, i)
         \/ \E w \in Workers : Saves(w, i)
<1>1. ASSUME NEW w \in Workers, GivesUp(w, i)
      PROVE  invoices'[i].content = invoices[i].content
  BY <1>1, RowType DEF GivesUp, Row
<1> QED BY <1>1, NextRows DEF RowsStep, RowSteps, NewRow

(* The commit of a request leaves the invoice a job that is still to run.   *)
LEMMA CommitWaits ==
  ASSUME QueueInvariant, NEW t \in Threads, NEW i, Commits(t, i)
  PROVE  \E j \in DOMAIN jobs' : j \notin DOMAIN jobs /\ jobs'[j].inv = i /\ Active(jobs'[j])
<1> DEFINE n == Len(jobs) + 1
           job == [inv |-> i, op |-> request[t].op, status |-> "pending", attempts |-> 0,
                   due |-> TRUE, error |-> "none"]
<1>1. jobs \in Seq(Job) /\ DOMAIN jobs = 1 .. Len(jobs) /\ Len(jobs) \in Nat
  BY LenProperties DEF QueueInvariant, TypeOK, StoreTypeOK
<1>2. n \in DOMAIN jobs' /\ jobs'[n] = job
  BY <1>1, LenProperties, AppendProperties DEF Commits, Commit, EnqueueJob
<1>3. job.inv = i /\ Active(job)
  BY DEF Active
<1> HIDE DEF job
<1> QED BY <1>1, <1>2, <1>3

(* With one worker, what its object says stays true until its commit.       *)
LEMMA NextTaskSays ==
  ASSUME QueueInvariant, SessionInvariant, LinkInvariant, TokenInvariant,
         ContentInvariant, [Next]_vars, NEW solo, Workers = {solo}
  PROVE  TaskSays(solo)'
<1> DEFINE t == work[solo]
           s == work'[solo]
<1> SUFFICES ASSUME ~Free(s) PROVE TaskSays(solo)'
  BY DEF TaskSays
<1>1. TaskMoves(solo) /\ solo \in Workers /\ JobsKeep
  BY NextTask, NextJobsKeep
<1>2. t.obj \in Row /\ t.loaded \in Row /\ t.inv \in {0} \cup DOMAIN invoices
  BY <1>1, WorkType DEF QueueInvariant, TypeOK, WorkerTypeOK
<1>3. TaskSays(solo) /\ TaskReached(solo)
  BY <1>1 DEF ContentInvariant, TokenInvariant
<1>4. CASE s = t /\ phase'[solo] = phase[solo]
  <2>1. ~Free(t)
    BY <1>4
  <2>2. phase[solo] = "jobs" => t.id \in DOMAIN jobs
    BY <1>1, <2>1, AtWork
  <2>3. Retries(solo) => Retries(solo)'
    BY <1>1, <1>4, <2>2, TriesLast DEF Retries, JobsKeep
  <2>4. ASSUME t.at \in {"write", "rewrite", "insert"},
               Says(t.obj.origin, t.obj.company, t.obj.ext, t.obj.token, t.obj.content)
        PROVE  Says(t.obj.origin, t.obj.company, t.obj.ext, t.obj.token, t.obj.content)'
    <3>1. PICK r \in Realms, token \in Tokens : r = t.obj.company /\ token = t.obj.token
      BY <1>2 DEF Row
    <3>2. PICK e : e = t.obj.ext
      OBVIOUS
    <3>3. PICK content, origin : content = t.obj.content /\ origin = t.obj.origin
      OBVIOUS
    <3>4. Says(origin, r, e, token, content)'
      BY <1>3, <2>1, <2>4, <3>1, <3>2, <3>3, SaysLasts DEF TaskReached
    <3> QED BY <1>4, <3>1, <3>2, <3>3, <3>4
  <2>5. OtherJob(solo) => OtherJob(solo)'
    BY <1>1, <1>4, WaitingStays DEF OtherJob, JobsKeep
  <2>6. t.inv # 0 => Outcome(t)' = Outcome(t) \/ OtherJob(solo)'
    <3> SUFFICES ASSUME t.inv # 0, invoices'[t.inv].content # invoices[t.inv].content
                 PROVE  OtherJob(solo)'
      BY <1>4 DEF Outcome
    <3>1. t.inv \in DOMAIN invoices
      BY <1>2
    <3>2. \A w \in Workers : ~Saves(w, t.inv)
      BY <3>1, SavedTask
    <3>3. PICK q \in Threads : Commits(q, t.inv)
      BY <3>1, <3>2, NextContents
    <3>4. PICK j \in DOMAIN jobs' :
            j \notin DOMAIN jobs /\ jobs'[j].inv = t.inv /\ Active(jobs'[j])
      BY <3>3, CommitWaits
    <3> QED BY <1>4, <2>2, <3>4 DEF OtherJob
  <2>7. t.obj.content' = t.obj.content
    BY <1>4
  <2> QED BY <1>3, <1>4, <2>1, <2>3, <2>4, <2>5, <2>6, <2>7 DEF TaskSays
<1>5. ASSUME s.inv # 0, s.loaded = invoices[s.inv], s.loaded \in Row,
             s.obj.content = s.loaded.content, UNCHANGED storeVars
      PROVE  Outcome(t)' = t.obj.content'
  <2>1. invoices'[s.inv].content = s.obj.content /\ s.obj.content \in AllContents
    BY <1>5 DEF Row, storeVars
  <2>2. s.obj.content = [total |-> s.obj.content.total, due |-> s.obj.content.due]
    BY <2>1 DEF AllContents
  <2> QED BY <1>5, <2>1, <2>2 DEF Outcome, Net
<1>6. CASE UNCHANGED storeVars /\ phase'[solo] = phase[solo] /\ StartsJob(solo)
  <2>1. /\ s.inv \in DOMAIN invoices /\ s.inv # 0 /\ s.loaded = invoices[s.inv]
        /\ s.obj = s.loaded /\ s.at = Entry(jobs[s.id], s.loaded) /\ jobs[s.id] \in Job
    BY <1>1, <1>6, StartedJob, LenProperties DEF QueueInvariant, TypeOK, StoreTypeOK
  <2>2. s.at \notin {"write", "rewrite", "insert"}
    BY <2>1 DEF Entry, Job
  <2>3. s.at = "query" => Retries(solo)'
    BY <1>6, <2>1 DEF Entry, Job, Retries, StartsJob, storeVars
  <2>4. Outcome(t)' = t.obj.content'
    BY <1>5, <1>6, <2>1, RowType
  <2> QED BY <2>2, <2>3, <2>4 DEF TaskSays
<1>7. CASE UNCHANGED <<storeVars, notes>> /\ StartsEvent(solo) /\ UNCHANGED qbo
  <2>1. /\ s.at \in {"skip", "raised", "fetch", "write"}
        /\ s.inv # 0 => /\ s.loaded = invoices[s.inv] /\ s.inv \in DOMAIN invoices
                        /\ s.obj.content = s.loaded.content
        /\ s.at = "write" =>
             /\ notes[s.id].op \in {"deleted", "voided"}
             /\ notes[s.id].ext = s.obj.ext /\ s.id \in DOMAIN notes
    BY <1>1, <1>7, StartedEvent, StartedEventRow
  <2>2. s.at = "write" => Says(t.obj.origin, t.obj.company, t.obj.ext, t.obj.token, t.obj.content)'
    <3> SUFFICES ASSUME s.at = "write"
                 PROVE  Says(t.obj.origin, t.obj.company, t.obj.ext, t.obj.token, t.obj.content)'
      OBVIOUS
    <3> DEFINE n == notes[s.id]
    <3>1. n.ext \in DOMAIN qbo[n.realm] /\ qbo[n.realm][n.ext].status # "Live"
      BY <2>1 DEF ContentInvariant, NotesAreTrue, IsTrue
    <3>2. n \in Note
      BY <2>1, LenProperties DEF QueueInvariant, TypeOK, QuickBooksTypeOK
    <3>3. n.ext = s.obj.ext /\ n.realm \in Realms /\ qbo' = qbo
      BY <1>7, <2>1, <3>2 DEF Note
    <3> HIDE DEF n
    <3> QED BY <3>1, <3>3 DEF Says, OnlyIn
  <2>3. s.inv # 0 => Outcome(t)' = t.obj.content'
    BY <1>5, <1>7, <2>1, RowType
  <2> QED BY <2>1, <2>2, <2>3 DEF TaskSays
<1>8. ASSUME UNCHANGED storeVars, t.at \in Calls, phase'[solo] = phase[solo],
             Sends(solo) \/ Reads(solo) \/ \E at \in {"raised", "conflict"} : Marks(solo, at)
      PROVE  TaskSays(solo)'
  <2>1. ~Free(t)
    BY <1>8 DEF Free, Calls
  <2>2. s.id = t.id => (Retries(solo) => Retries(solo)')
    BY <1>8 DEF Retries, storeVars
  <2>3. s.id = t.id /\ s.inv = t.inv => (OtherJob(solo) => OtherJob(solo)')
    BY <1>8 DEF OtherJob, storeVars
  <2>4. ASSUME s.id = t.id, s.inv = t.inv, s.loaded = t.loaded, s.obj.content = t.obj.content
        PROVE  s.inv # 0 => Outcome(t)' = t.obj.content' \/ OtherJob(solo)'
    <3>1. Outcome(t)' = Outcome(t)
      BY <1>8, <2>4 DEF Outcome, storeVars
    <3> QED BY <1>3, <2>1, <2>3, <2>4, <3>1 DEF TaskSays
  <2>5. CASE \E at \in {"raised", "conflict"} : Marks(solo, at)
    <3>1. /\ s.at \in {"raised", "conflict"} /\ s.id = t.id /\ s.inv = t.inv
          /\ s.loaded = t.loaded /\ s.obj.content = t.obj.content
      BY <2>5 DEF Marks
    <3> QED BY <2>4, <3>1 DEF TaskSays
  <2>6. CASE phase[solo] = "jobs" /\ Sends(solo)
    <3>1. s.id = t.id /\ s.inv = t.inv /\ s.loaded = t.loaded
      BY <1>1, <2>6, SendsKeep
    <3>2. /\ s.at \notin {"query", "insert"} /\ s.obj.content = t.obj.content
          /\ s.at \in {"write", "rewrite"} =>
               Says(t.obj.origin, t.obj.company, t.obj.ext, t.obj.token, t.obj.content)'
                 \/ Retries(solo)
      BY <1>1, <1>3, <1>8, <2>6, SendsSay
    <3> QED BY <2>2, <2>4, <3>1, <3>2 DEF TaskSays
  <2>7. CASE phase[solo] = "events" /\ Reads(solo)
    <3>1. /\ s.at # "query" /\ s.inv = t.inv /\ s.id = t.id
          /\ s.at \in {"write", "insert"} =>
               Says(t.obj.origin, t.obj.company, t.obj.ext, t.obj.token, t.obj.content)'
          /\ s.at # "rewrite"
      <4>1. s.at # "rewrite"
        BY <1>1, <2>7, ReadsReached
      <4> QED BY <1>1, <1>3, <2>7, <4>1, ReadsSay
    <3>2. s.inv # 0 => Outcome(t)' = t.obj.content' \/ OtherJob(solo)
      <4>1. s.inv # 0 =>
              LET row == invoices[s.inv].content IN
                \/ [total |-> Net(row.total, s.loaded.content.total, s.obj.content.total),
                    due |-> Net(row.due, s.loaded.content.due, s.obj.content.due)]
                     = s.obj.content
                \/ OtherJob(solo)
        BY <1>1, <1>3, <2>7, ReadsSay
      <4> QED BY <1>8, <4>1 DEF Outcome, storeVars
    <3> QED BY <2>3, <3>1, <3>2 DEF TaskSays
  <2>8. phase[solo] = "events" => ~Sends(solo)
    <3>1. phase[solo] = "events" => t.at = "fetch"
      BY <1>1, <1>8, <2>1 DEF SessionInvariant, Shaped, EventShape, Calls
    <3> QED BY <3>1 DEF Sends
  <2>9. phase[solo] = "jobs" => ~Reads(solo)
    BY <1>1, <1>8, <2>1 DEF SessionInvariant, Shaped, JobShape, Reads
  <2>10. phase[solo] \in {"jobs", "events"}
    BY <1>1 DEF QueueInvariant, TypeOK, WorkerTypeOK
  <2> QED BY <1>8, <2>5, <2>6, <2>7, <2>8, <2>9, <2>10
<1>9. CASE Fails(solo)
  <2>1. /\ ~Free(t) /\ UNCHANGED storeVars /\ phase'[solo] = phase[solo]
        /\ s.at = "raised" /\ s.id = t.id /\ s.inv = t.inv
        /\ s.loaded = t.loaded /\ s.obj = t.obj
    BY <1>9 DEF Fails, Free, CommitPoints, Marks
  <2>2. /\ OtherJob(solo) => OtherJob(solo)'
        /\ Outcome(t)' = Outcome(t) /\ t.obj.content' = t.obj.content
    BY <2>1 DEF OtherJob, Outcome, storeVars
  <2> QED BY <1>3, <2>1, <2>2 DEF TaskSays
<1> QED BY <1>1, <1>4, <1>6, <1>7, <1>8, <1>9 DEF TaskMoves, GoesOn

(* An invoice that is settled was, unless a worker has just saved it: what  *)
(* a request commits waits for its job, and a job without an outcome for    *)
(* the invoice fails or is left in conflict.                                *)
LEMMA SettledBefore ==
  ASSUME QueueInvariant, SessionInvariant, PendingInvariant, [Next]_vars,
         NEW i \in DOMAIN invoices, Settled(i)', \A w \in Workers : ~Saves(w, i)
  PROVE  Settled(i) /\ invoices'[i] = invoices[i]
<1>1. ASSUME NEW t \in Threads, Commits(t, i) PROVE FALSE
  BY <1>1, CommitWaits DEF Settled, JobsOf
<1>2. \A w \in Workers : ~GivesUp(w, i)
  BY RowType DEF GivesUp, Settled, Row
<1>3. invoices'[i] = invoices[i]
  BY <1>1, <1>2, NextRows DEF RowsStep, RowSteps, NewRow
<1>4. ASSUME NEW j \in JobsOf(i) PROVE ~Active(jobs[j]) /\ jobs[j].error # "conflict"
  <2>1. j \in DOMAIN jobs /\ jobs[j].inv = i /\ jobs[j] \in Job
    BY <1>4, LenProperties DEF JobsOf, QueueInvariant, TypeOK, StoreTypeOK
  <2>2. ~Active(jobs'[j]) /\ jobs'[j].error # "conflict"
    BY <2>1, NextJobsKeep DEF JobsKeep, Settled, JobsOf
  <2>3. ~Active(jobs[j]) => jobs'[j] = jobs[j]
    BY <2>1, DoneStays
  <2>4. jobs[j].error = "conflict" => ~Active(jobs[j])
    BY <2>1 DEF PendingInvariant, ConflictsAreFinal
  <2>5. ASSUME Active(jobs[j]), NEW w \in Workers, AtHand(w, j),
               CompleteJob(w) \/ (RetryJob(w) /\ Reattempt(jobs[j]).status = "failed"),
               UNCHANGED <<qboVars, request>>
        PROVE  FALSE
    <3>1. phase[w] = "jobs" /\ ~Free(work[w]) /\ Shaped(w) /\ work[w].id = j
      BY <2>5 DEF AtHand, SessionInvariant
    <3>2. work[w].inv = i
      BY <2>1, <3>1 DEF Shaped
    <3>3. CASE CompleteJob(w)
      <4>1. work[w].at \in {"write", "rewrite"}
        BY <3>1, <3>3 DEF CompleteJob, Persist, PendingInvariant, NoneSkips, Shaped, JobShape
      <4>2. SaveInvoice(i, work[w].loaded, work[w].obj, LockedByOthers(w))
        BY <3>2, <3>3, <4>1 DEF CompleteJob, Persist
      <4>3. Saves(w, i)
        BY <2>5, <3>2, <3>3, <4>1, <4>2, SavedRows DEF Saves
      <4> QED BY <4>3
    <3>4. CASE RetryJob(w) /\ Reattempt(jobs[j]).status = "failed"
      <4>1. invoices' = [invoices EXCEPT ![i] = [invoices[i] EXCEPT !.sync = "failed"]]
        BY <3>1, <3>2, <3>4 DEF RetryJob
      <4>2. GivesUp(w, i)
        BY <2>5, <3>1, <3>2, <3>4, <4>1 DEF GivesUp
      <4> QED BY <1>2, <4>2
    <3> QED BY <2>5, <3>3, <3>4
  <2>6. CASE Active(jobs[j])
    <3>1. CASE jobs'[j] = jobs[j]
      BY <2>2, <2>6, <3>1
    <3>2. CASE JobSteps(j)
      <4>1. ASSUME NEW w \in Workers, RetryJob(w), AtHand(w, j),
                   jobs'[j] = [Reattempt(jobs[j]) EXCEPT !.error = "error"]
            PROVE  Reattempt(jobs[j]).status = "failed"
        BY <2>1, <2>2, <4>1 DEF Reattempt, Active, Job
      <4>2. ~\E w \in Workers : /\ AtHand(w, j) /\ UNCHANGED <<qboVars, request>>
                                /\ \/ CompleteJob(w)
                                   \/ /\ RetryJob(w)
                                      /\ jobs'[j] = [Reattempt(jobs[j]) EXCEPT !.error = "error"]
        BY <2>5, <2>6, <4>1
      <4>3. \/ jobs'[j] = jobs[j]
            \/ jobs[j].status = "pending" /\ jobs'[j] = [jobs[j] EXCEPT !.due = TRUE]
            \/ jobs'[j] = [jobs[j] EXCEPT !.status = "in_progress"]
            \/ jobs'[j] = [jobs[j] EXCEPT !.attempts = MaxAttempts, !.status = "failed",
                                          !.error = "conflict"]
        BY <3>2, <4>2 DEF JobSteps
      <4> QED BY <2>1, <2>2, <2>6, <4>3 DEF Active, Job
    <3> QED BY <2>1, <3>1, <3>2, NextJobs DEF JobsStep, NewJob
  <2> QED BY <2>2, <2>3, <2>6
<1> QED BY <1>3, <1>4 DEF Settled, HasLink

(* The commit of a worker that settles an invoice writes the content that   *)
(* goes with the token.                                                     *)
LEMMA SavedSays ==
  ASSUME QueueInvariant, SessionInvariant, TokenInvariant, ContentInvariant, [Next]_vars,
         NEW w \in Workers, NEW i \in DOMAIN invoices, Saves(w, i),
         \A j \in JobsOf(i)' : ~Active(jobs'[j]), ~CreateRetried(i)'
  PROVE  Says(invoices[i].origin, invoices[i].company, invoices[i].ext, invoices[i].token,
              invoices[i].content)'
<1> DEFINE t == work[w]
           o == t.obj
<1>1. /\ ~Free(t) /\ t.inv = i /\ i # 0 /\ t.at \in {"write", "rewrite"} /\ Shaped(w)
      /\ phase[w] \in {"jobs", "events"}
  BY SavedTask DEF Saves, QueueInvariant, TypeOK, WorkerTypeOK
<1>2. /\ invoices'[i].company = o.company /\ invoices'[i].ext = o.ext
      /\ invoices'[i].token = o.token /\ invoices'[i].origin = o.origin
  <2>1. invoices'[i].origin = invoices[i].origin /\ o.origin = invoices[i].origin
    BY SavedTask, NextOwnersKeep DEF OwnersKeep
  <2> QED BY <2>1, SavedToken
<1>3. ~OtherJob(w)
  <2> SUFFICES ASSUME NEW j \in DOMAIN jobs, jobs[j].inv = i, Active(jobs[j]),
                      phase[w] = "jobs" => j # t.id
               PROVE  FALSE
    BY <1>1 DEF OtherJob
  <2>1. jobs'[j] = jobs[j] /\ j \in DOMAIN jobs'
    BY DEF Saves, CompleteJob, CompleteEvent
  <2> QED BY <2>1 DEF JobsOf
<1>4. invoices'[i].content = o.content
  <2>1. Outcome(t) = o.content
    BY <1>1, <1>3 DEF ContentInvariant, TaskSays
  <2>2. invoices'[i].content = Outcome(t)
    BY <1>1 DEF Saves, Merge, Outcome
  <2> QED BY <2>1, <2>2
<1>5. ~Retries(w)
  <2> SUFFICES ASSUME Retries(w) PROVE FALSE
    OBVIOUS
  <2>1. t.id \in DOMAIN jobs /\ jobs[t.id].inv = i /\ phase[w] = "jobs"
    BY <1>1, AtWork DEF Retries, Shaped
  <2> DEFINE j == t.id
  <2>2. j \in DOMAIN jobs' /\ jobs'[j].inv = i /\ jobs'[j].op = "create"
    BY <2>1, NextJobsKeep DEF JobsKeep, Retries
  <2>3. jobs'[j].attempts > 0
    BY <2>1, TriesLast DEF Retries
  <2> HIDE DEF j
  <2> QED BY <2>2, <2>3 DEF CreateRetried, JobsOf
<1>6. Says(o.origin, o.company, o.ext, o.token, o.content) /\ qbo' = qbo
  BY <1>1, <1>5 DEF ContentInvariant, TaskSays, Saves, qboVars
<1> QED BY <1>2, <1>4, <1>6 DEF Says, OnlyIn

(* So a settled invoice has the content of its token: the commit that       *)
(* settled it stored both.                                                  *)
RowsSay ==
  \A i \in DOMAIN invoices : Settled(i) /\ ~CreateRetried(i) =>
    LET row == invoices[i] IN Says(row.origin, row.company, row.ext, row.token, row.content)

(* Every step keeps what a settled row says of its token.                   *)
LEMMA NextRowsSay ==
  ASSUME QueueInvariant, SessionInvariant, PendingInvariant, TokenInvariant,
         ContentInvariant, RowsSay, [Next]_vars
  PROVE  RowsSay'
<1> SUFFICES ASSUME NEW i \in DOMAIN invoices', Settled(i)', ~CreateRetried(i)'
             PROVE  Says(invoices[i].origin, invoices[i].company, invoices[i].ext, invoices[i].token,
                         invoices[i].content)'
  BY DEF RowsSay
<1>1. ASSUME NEW row, row.company \in Realms, row.token \in Tokens,
             Reached(row.company, row.ext, row.token),
             Says(row.origin, row.company, row.ext, row.token, row.content), invoices'[i] = row
      PROVE  Says(invoices[i].origin, invoices[i].company, invoices[i].ext, invoices[i].token,
                  invoices[i].content)'
  <2>1. PICK r \in Realms, token \in Tokens : r = row.company /\ token = row.token
    BY <1>1
  <2>2. Says(row.origin, r, row.ext, token, row.content)'
    BY <1>1, <2>1, SaysLasts
  <2> QED BY <1>1, <2>1, <2>2
<1>2. CASE i \notin DOMAIN invoices
  <2>1. NewRow /\ i = Len(invoices) + 1
    BY <1>2, AddedIndex
  <2>2. ASSUME NEW company, NEW content,
               invoices'[i] = [Blank EXCEPT !.company = company, !.content = content]
        PROVE  FALSE
    <3>1. invoices'[i].ext = NoLink
      BY <2>2 DEF Blank
    <3> QED BY <3>1 DEF Settled, HasLink
  <2>3. ASSUME NEW w \in Workers, work[w].at = "insert", invoices'[i] = work[w].obj
        PROVE  Says(invoices[i].origin, invoices[i].company, invoices[i].ext, invoices[i].token,
                    invoices[i].content)'
    <3>1. PICK row : row = work[w].obj
      OBVIOUS
    <3>2. ~Free(work[w]) /\ Shaped(w) /\ phase[w] \in {"jobs", "events"}
      BY <2>3 DEF Free, SessionInvariant, QueueInvariant, TypeOK, WorkerTypeOK
    <3>3. ~Retries(w)
      BY <2>3, <3>2 DEF Retries, Shaped, JobShape
    <3>4. /\ row.company \in Realms /\ row.token \in Tokens
          /\ Reached(row.company, row.ext, row.token)
          /\ Says(row.origin, row.company, row.ext, row.token, row.content)
      BY <2>3, <3>1, <3>2, <3>3, WorkType
         DEF Row, TokenInvariant, TaskReached, ContentInvariant, TaskSays
    <3> QED BY <1>1, <2>3, <3>1, <3>4
  <2> QED BY <2>1, <2>2, <2>3 DEF NewRow
<1>3. CASE i \in DOMAIN invoices /\ \E w \in Workers : Saves(w, i)
  BY <1>3, SavedSays DEF Settled
<1>4. CASE i \in DOMAIN invoices /\ \A w \in Workers : ~Saves(w, i)
  <2>1. Settled(i) /\ invoices'[i] = invoices[i]
    BY <1>4, SettledBefore
  <2>2. ~CreateRetried(i)
    <3> SUFFICES ASSUME NEW j \in JobsOf(i), jobs[j].op = "create", jobs[j].attempts > 0
                 PROVE  FALSE
      BY DEF CreateRetried
    <3>1. j \in DOMAIN jobs /\ jobs[j].inv = i
      BY DEF JobsOf
    <3>2. /\ j \in DOMAIN jobs' /\ jobs'[j].inv = i /\ jobs'[j].op = "create"
          /\ jobs'[j].attempts > 0
      BY <3>1, NextJobsKeep, TriesLast DEF JobsKeep
    <3> QED BY <3>2 DEF CreateRetried, JobsOf
  <2>3. PICK row : row = invoices[i]
    OBVIOUS
  <2>4. /\ row.company \in Realms /\ row.token \in Tokens
        /\ Says(row.origin, row.company, row.ext, row.token, row.content)
        /\ Reached(row.company, row.ext, row.token)
    BY <1>4, <2>1, <2>2, <2>3, RowType
       DEF Row, RowsSay, TokenInvariant, RowsReached, Settled
  <2> QED BY <1>1, <2>1, <2>3, <2>4
<1> QED BY <1>2, <1>3, <1>4

(* With one worker, whatever QuickBooks users write and whatever calls are  *)
(* lost, a settled invoice without a namesake that has QuickBooks' current  *)
(* token says what QuickBooks says, but for a retried create.               *)
THEOREM TokensMeanContent ==
  ASSUME NEW solo, Workers = {solo}
  PROVE  Spec => []TokenMeansContent
<1> DEFINE Sessions == SessionInvariant /\ LinkInvariant /\ PendingInvariant
           Inv == Sessions /\ TokenInvariant /\ ContentInvariant /\ RowsSay
<1>1. Init => Inv
  BY InitSessions, InitLinks, InitPending, InitTokens
     DEF Init, StoreInit, QuickBooksInit, WorkerInit, ContentInvariant, NotesAreTrue,
         TaskSays, Idle, Free, RowsSay
<1>2. QueueInvariant /\ Sessions /\ [Next]_vars => Sessions'
  BY NextSessions, NextLinkInvariant, NextPending
<1>3. QueueInvariant /\ Inv /\ [Next]_vars => TokenInvariant' /\ ContentInvariant' /\ RowsSay'
  BY NextRowsReached, NextTaskReached, NextNotesAreTrue, NextTaskSays, NextRowsSay
     DEF TokenInvariant, ContentInvariant
<1>4. Inv => TokenMeansContent
  BY DEF RowsSay, TokenMeansContent, Says, Alike, Agrees, AsCreated, NoNamesake, Counterpart
<1> QED BY <1>1, <1>2, <1>3, <1>4, InvariantHolds, PTL DEF Spec
==============================================================================
