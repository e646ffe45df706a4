---------------------------- MODULE SyncExecutor ----------------------------
(****************************************************************************)
(* Outbound jobs (app/services/sync_executor.py): load the invoice, send    *)
(* one or more requests to QuickBooks, and put the answer on the session's  *)
(* invoice object, which SyncWorker's CompleteJob commits.  Other actors    *)
(* run between the load, each request and the commit.                       *)
(****************************************************************************)
EXTENDS SyncWorker

(* Everything but QuickBooks and this worker's task stays as it is.         *)
ExecutorFrame == UNCHANGED <<storeVars, edits, phase, batch, crashes>>

NoFault == UNCHANGED faults

(* Mutant: a retried create is not reconciled.                              *)
EntryBlind(job, row) ==
  IF job.op = "create" /\ row.ext # NoLink THEN "skip" ELSE job.op

(* The first request a job sends, if any.                                   *)
Entry(job, row) ==
  IF job.op # "create" THEN job.op
  ELSE IF row.ext # NoLink THEN "skip"
  ELSE IF job.attempts > 0 THEN "query" ELSE "create"

BeginJob(w) ==
  /\ phase[w] = "jobs"
  /\ work[w].at = "idle"
  /\ \E j \in batch[w] :
       LET row == invoices[jobs[j].inv] IN
         Move(w, [at |-> Entry(jobs[j], row), id |-> j, inv |-> jobs[j].inv,
                  loaded |-> row, obj |-> row])
  /\ UNCHANGED <<storeVars, qboVars, phase, batch, crashes>>

(* The request reached QuickBooks; its response comes back or is lost.      *)
Answered(w, commit, obj) ==
  \/ Move(w, [work[w] EXCEPT !.at = commit, !.obj = obj]) /\ NoFault
  \/ Raise(w, "raised") /\ NetworkFault

Linked(obj, e, token) ==
  [obj EXCEPT !.ext = e, !.token = token, !.status = "Open",
              !.sync = "complete"]
------------------------------------------------------------------------------
(* The request holds the line items and no total: QuickBooks shows their    *)
(* sum, which nothing ties to the total_amount of the row.                  *)
PostCreate(w) ==
  LET t == work[w]  r == t.obj.company IN
    /\ t.at = "create"
    /\ \E sum \in Totals : Insert(r, [t.obj.content EXCEPT !.total = sum], t.inv, TRUE)
    /\ Answered(w, "write", Linked(t.obj, Len(qbo[r]) + 1, 0))
    /\ ExecutorFrame

(* Retry of a create: link to what an earlier attempt left behind, if any.  *)
QueryByDocNumber(w) ==
  LET t == work[w]  r == t.obj.company  found == WithDocNumber(r, t.inv) IN
    /\ t.at = "query"
    /\ \/ /\ found = {}
          /\ Move(w, [t EXCEPT !.at = "create"])
       \/ \E e \in found :
            Move(w, [t EXCEPT !.at = "write",
                              !.obj = Linked(@, e, qbo[r][e].token)])
    /\ UNCHANGED <<qbo, notes, faults>>
    /\ ExecutorFrame

PostUpdate(w) ==
  LET t == work[w]  r == t.obj.company  e == t.obj.ext IN
    /\ t.at \in {"update", "repost"}
    /\ Accepts(r, e, "update", t.obj.token)
    /\ Overwrite(r, e, "update", Pushed(qbo[r][e].content, t.obj.content))
    /\ Answered(w, IF t.at = "update" THEN "write" ELSE "rewrite",
                [t.obj EXCEPT !.token = qbo[r][e].token + 1, !.sync = "complete"])
    /\ ExecutorFrame

(* Delete and void keep the token they sent, whatever QuickBooks returns.   *)
PostDeleteOrVoid(w) ==
  LET t == work[w] IN
    /\ t.at \in {"delete", "void"}
    /\ Accepts(t.obj.company, t.obj.ext, t.at, t.obj.token)
    /\ Overwrite(t.obj.company, t.obj.ext, t.at, t.obj.content)
    /\ Answered(w, "write", [t.obj EXCEPT !.sync = "complete"])
    /\ ExecutorFrame

(* A 400: the first update attempt looks closer, every other request raises. *)
Rejected(w) ==
  LET t == work[w]  op == IF t.at = "repost" THEN "update" ELSE t.at IN
    /\ t.at \in {"update", "repost", "delete", "void"}
    /\ ~Accepts(t.obj.company, t.obj.ext, op, t.obj.token)
    /\ Raise(w, IF t.at = "update" THEN "reread" ELSE "raised")
    /\ UNCHANGED <<qbo, notes, faults>>
    /\ ExecutorFrame

(* _handle_update_token_conflict: compare what QuickBooks has now with what *)
(* the update wanted; equal means refresh the token and send again.         *)
Reread(w) ==
  LET t == work[w]  r == t.obj.company  e == t.obj.ext IN
    /\ t.at = "reread"
    /\ \/ ~Readable(r, e) /\ Raise(w, "raised")
       \/ /\ Readable(r, e)
          /\ Divergent(qbo[r][e].content, t.obj.content) # {}
          /\ Raise(w, "conflict")
       \/ /\ Readable(r, e)
          /\ Divergent(qbo[r][e].content, t.obj.content) = {}
          /\ t.inv \notin LockedByOthers(w)
          /\ Move(w, [t EXCEPT !.at = "repost", !.obj.token = qbo[r][e].token])
    /\ UNCHANGED <<qbo, notes, faults>>
    /\ ExecutorFrame

ExecutorStep(w) ==
  \/ BeginJob(w) \/ PostCreate(w) \/ QueryByDocNumber(w) \/ PostUpdate(w)
  \/ PostDeleteOrVoid(w) \/ Rejected(w) \/ Reread(w)
==============================================================================
