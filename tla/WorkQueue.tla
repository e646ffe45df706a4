------------------------------ MODULE WorkQueue ------------------------------
(****************************************************************************)
(* What each of the two queues promises, whatever is on it and however it   *)
(* is polled: a row waits until one holder takes it, is held by nobody else *)
(* until that holder settles it, and is settled at most MaxAttempts times,  *)
(* the last time for good.  Only the death of its holder leaves a row that  *)
(* nobody holds and nobody takes again.                                     *)
(****************************************************************************)
EXTENDS Integers

CONSTANTS Holders, MaxAttempts

VARIABLES rows,    \* function from row ids to status and attempts
          held     \* held[w]: the ids holder w has taken and not settled

queueVars == <<rows, held>>

New == [status |-> "pending", attempts |-> 0]

Init == rows = [k \in {} |-> New] /\ held = [w \in Holders |-> {}]
------------------------------------------------------------------------------
(* A row appears, under an id of its own.                                   *)
Add(k) ==
  /\ k \notin DOMAIN rows
  /\ rows' = [x \in DOMAIN rows \cup {k} |-> IF x = k THEN New ELSE rows[x]]
  /\ UNCHANGED held

Take(w, ids) ==
  /\ held[w] = {}
  /\ \A k \in ids : rows[k].status = "pending"
  /\ rows' = [k \in DOMAIN rows |->
       IF k \in ids THEN [rows[k] EXCEPT !.status = "in_progress"] ELSE rows[k]]
  /\ held' = [held EXCEPT ![w] = ids]

(* Done, to be tried again, or given up with the attempts used up.          *)
Outcomes(row) ==
  {[status |-> "completed", attempts |-> row.attempts],
   [status |-> "failed", attempts |-> MaxAttempts]}
  \cup {[status |-> "pending", attempts |-> n] :
          n \in {m \in {row.attempts + 1} : m < MaxAttempts}}

Settle(w, k) ==
  /\ k \in held[w]
  /\ held' = [held EXCEPT ![w] = @ \ {k}]
  /\ \E outcome \in Outcomes(rows[k]) : rows' = [rows EXCEPT ![k] = outcome]

Die(w) ==
  /\ held' = [held EXCEPT ![w] = {}]
  /\ UNCHANGED rows

Serve ==
  \/ \E k \in DOMAIN rows' : Add(k)
  \/ \E w \in Holders : \/ \E ids \in SUBSET DOMAIN rows : Take(w, ids)
                        \/ \E k \in DOMAIN rows : Settle(w, k)

Next == Serve \/ \E w \in Holders : Die(w)

Spec == Init /\ [][Next]_queueVars
==============================================================================
