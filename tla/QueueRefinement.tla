--------------------------- MODULE QueueRefinement ---------------------------
(****************************************************************************)
(* sync_jobs and webhook_events are each a WorkQueue.  Selecting rows FOR   *)
(* UPDATE and rolling them back is invisible there; the claim's commit      *)
(* takes them, the commit of an outcome settles one.                        *)
(****************************************************************************)
EXTENDS SyncProperties

Shown(queue) ==
  [k \in DOMAIN queue |->
    [status |-> queue[k].status, attempts |-> queue[k].attempts]]

(* The rows of queue q a worker has claimed and committed.                  *)
Taken(q) ==
  [w \in Workers |->
    IF phase[w] = q /\ work[w].at # "claim" THEN batch[w] ELSE {}]

JobQueue == INSTANCE WorkQueue
  WITH Holders <- Workers, rows <- Shown(jobs), held <- Taken("jobs")

EventQueue == INSTANCE WorkQueue
  WITH Holders <- Workers, rows <- Shown(events), held <- Taken("events")

(* The jobs are worked off as a queue promises: the polls, claims, retries, *)
(* conflicts and crashes of any number of workers never give a job two      *)
(* holders, an attempt too many, or a second outcome.                       *)
JobsAreAQueue == JobQueue!Spec

(* So are the inbound events, with the endpoint's racing deliveries of one  *)
(* cloudevent_id: the UNIQUE constraint lets each be added once.            *)
EventsAreAQueue == EventQueue!Spec
==============================================================================
