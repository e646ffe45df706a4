---------------------------- MODULE AuditHistory ----------------------------
(****************************************************************************)
(* The claim about invoice_history needs to know every state a row has had. *)
(* "had" is a history variable: it follows the rows and nothing reads it,   *)
(* so it is kept out of the specification of the service.                   *)
(****************************************************************************)
EXTENDS Claims

VARIABLE had   \* had[i]: what a snapshot of row i would have shown so far

historyVars == <<vars, had>>

HistoryInit == Init /\ had = <<>>

Recorded ==
  [i \in DOMAIN invoices' |->
    (IF i \in DOMAIN had THEN had[i] ELSE {}) \cup {Snap(invoices'[i])}]

HistoryNext == Next /\ had' = Recorded

HistorySpec == HistoryInit /\ [][HistoryNext]_historyVars

(* DESIGN.md:179 says invoice_history makes every state reconstructable;    *)
(* the newest snapshot of an invoice two sessions wrote concurrently is a   *)
(* state its row has never been in.                                         *)
AuditMatches == \A i \in DOMAIN invoices : audit[i] \in had[i]
==============================================================================
