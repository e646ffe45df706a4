--------------------------- MODULE WebhookEndpoint ---------------------------
(****************************************************************************)
(* The webhook endpoint (app/api/webhooks.py).  Its handler is a coroutine  *)
(* without an await between its database calls, so in one process it runs   *)
(* only while the worker sleeps and no other delivery is in hand; in two    *)
(* processes the look for a stored cloudevent_id and the commit that stores *)
(* it may interleave, and the UNIQUE constraint decides.  A request with    *)
(* several events is a delivery of one after the other, each with a commit  *)
(* of its own.                                                              *)
(****************************************************************************)
EXTENDS SyncWorker

CONSTANT MaxRepeats   \* bound: repeated deliveries of an event without an id

ASSUME WebhookEndpointAssumption == MaxRepeats \in Nat

VARIABLES intake,   \* intake[w]: the notification process w is storing
          repeats

endpointVars == <<intake, repeats>>

NoDelivery == 0

EndpointTypeOK ==
  /\ intake \in [Workers -> {NoDelivery} \cup DOMAIN notes]
  /\ repeats \in 0 .. MaxRepeats

EndpointInit == intake = [w \in Workers |-> NoDelivery] /\ repeats = 0

EndpointFree(w) == intake[w] = NoDelivery
------------------------------------------------------------------------------
(* A delivery whose cloudevent_id is not stored yet; the others are dropped *)
(* here.  It may come late, out of order, more than once or never.          *)
CheckStored(w, n) ==
  /\ Asleep(w)
  /\ EndpointFree(w)
  /\ n \in DOMAIN notes \ DOMAIN events
  /\ intake' = [intake EXCEPT ![w] = n]
  /\ UNCHANGED <<storeVars, qboVars, workerVars, repeats>>

WithEvent(n) ==
  [e \in DOMAIN events \cup {n} |->
    IF e = n THEN [status |-> "pending", attempts |-> 0, due |-> TRUE]
             ELSE events[e]]

(* Mutant: no UNIQUE constraint; the second commit stores the event anew.   *)
StoreEventAgain(w) ==
  /\ ~EndpointFree(w)
  /\ events' = WithEvent(intake[w])
  /\ intake' = [intake EXCEPT ![w] = NoDelivery]
  /\ UNCHANGED <<invoices, audit, jobs, qboVars, workerVars, repeats>>

(* The commit; the loser of a race rolls back and counts as a duplicate.    *)
StoreEvent(w) ==
  /\ ~EndpointFree(w)
  /\ events' = IF intake[w] \in DOMAIN events THEN events ELSE WithEvent(intake[w])
  /\ intake' = [intake EXCEPT ![w] = NoDelivery]
  /\ UNCHANGED <<invoices, audit, jobs, qboVars, workerVars, repeats>>

(* An event without an id is stored with each delivery of it: a repeated    *)
(* one counts as a notification of its own.                                 *)
RepeatUnidentified(n) ==
  /\ repeats < MaxRepeats
  /\ repeats' = repeats + 1
  /\ notes' = Append(notes, notes[n])
  /\ UNCHANGED <<storeVars, qbo, edits, faults, workerVars, intake>>

(* The process dies with its delivery, which QuickBooks will send again.    *)
LoseDelivery(w) ==
  intake' = [intake EXCEPT ![w] = NoDelivery] /\ UNCHANGED repeats

EndpointStep(w) == StoreEvent(w) \/ \E n \in DOMAIN notes : CheckStored(w, n)
==============================================================================
