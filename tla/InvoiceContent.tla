---------------------------- MODULE InvoiceContent ----------------------------
(****************************************************************************)
(* The financial fields of an invoice and how they travel.  "total" is      *)
(* total_amount.  "due" is due_date, which either side may lack and which   *)
(* is then left out of what is sent or read; issue_date is sent, read and   *)
(* compared in the same way, but is never absent, so it is a "due" that is  *)
(* not NoDue.  Line items are not kept: only their sum shows, in QuickBooks *)
(* (SyncExecutor's PostCreate).                                             *)
(****************************************************************************)
CONSTANTS Totals, Dues,   \* amounts and due dates
          Zero,           \* the total QuickBooks shows for a voided invoice
          NoDue           \* due_date IS NULL, DueDate absent

AllContents == [total : Totals \cup {Zero}, due : Dues \cup {NoDue}]

Nothing == [total |-> Zero, due |-> NoDue]

(* What is given replaces what is there; a due date not given stays.        *)
Overlay(base, given) ==
  [total |-> given.total, due |-> IF given.due = NoDue THEN base.due ELSE given.due]

(* The sparse update of QuickBooks' content with an update's intent.        *)
Pushed(there, intended) == Overlay(there, intended)

(* The local content after an inbound update read QuickBooks' content.      *)
Pulled(here, read) == Overlay(here, read)

(* Mutant: the comparison overlooks the total.                              *)
DivergentDueOnly(read, intended) ==
  {f \in {"due"} : intended.due # NoDue /\ read.due # intended.due}

(* The fields in which QuickBooks differs from what an update intended.     *)
Divergent(read, intended) ==
  {f \in {"total", "due"} :
    read[f] # intended[f] /\ (f = "due" => intended.due # NoDue)}
===============================================================================
