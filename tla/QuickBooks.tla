----------------------------- MODULE QuickBooks -----------------------------
(****************************************************************************)
(* QuickBooks Online as the service sees it: invoices per realm, guarded by *)
(* a SyncToken that every accepted write increases, a webhook notification  *)
(* per write (also for the writes this service pushes), its own users, and  *)
(* a network that may lose a response or a whole call.                      *)
(*                                                                          *)
(* External: modelled from how app/integrations/quickbooks_client.py and    *)
(* its callers use it.  Invoice ids count up within each realm.             *)
(****************************************************************************)
EXTENDS Store

CONSTANTS MaxEdits,    \* bound: writes by users of QuickBooks
          MaxFaults    \* bound: calls and commits that fail

ASSUME QuickBooksAssumption == MaxEdits \in Nat /\ MaxFaults \in Nat

VARIABLES qbo,      \* qbo[r] is realm r's sequence of invoices
          notes,    \* every notification ever sent, in order; index = its id
          edits, faults

qboVars == <<qbo, notes, edits, faults>>

QboInvoice == [status : {"Live", "Voided", "Deleted"}, token : Nat,
               content : AllContents, doc : Nat, known : BOOLEAN]

Note == [realm : Realms, ext : Nat \ {0},
         op : {"created", "updated", "deleted", "voided"}]

QuickBooksTypeOK ==
  /\ qbo \in [Realms -> Seq(QboInvoice)]
  /\ notes \in Seq(Note)
  /\ DOMAIN events \subseteq DOMAIN notes
  /\ edits \in 0 .. MaxEdits
  /\ faults \in 0 .. MaxFaults

QuickBooksInit ==
  /\ qbo = [r \in Realms |-> <<>>]
  /\ notes = <<>>
  /\ edits = 0
  /\ faults = 0
------------------------------------------------------------------------------
Readable(r, e) == e \in DOMAIN qbo[r] /\ qbo[r][e].status # "Deleted"

(* The invoices a query by DocNumber returns; doc is the local invoice id,  *)
(* from which invoice_number is generated.                                  *)
WithDocNumber(r, doc) ==
  {e \in DOMAIN qbo[r] : qbo[r][e].doc = doc /\ qbo[r][e].status # "Deleted"}

(* A write is accepted on a current token; the others are answered 400.     *)
Accepts(r, e, op, token) ==
  /\ e \in DOMAIN qbo[r]
  /\ qbo[r][e].token = token
  /\ \/ qbo[r][e].status = "Live"
     \/ qbo[r][e].status = "Voided" /\ op = "delete"

Notify(r, e, op) == notes' = Append(notes, [realm |-> r, ext |-> e, op |-> op])

Insert(r, content, doc, known) ==
  /\ qbo' = [qbo EXCEPT ![r] =
       Append(@, [status |-> "Live", token |-> 0, content |-> content,
                  doc |-> doc, known |-> known])]
  /\ Notify(r, Len(qbo[r]) + 1, "created")

Overwrite(r, e, op, content) ==
  \/ /\ op = "update"
     /\ qbo' = [qbo EXCEPT ![r][e].content = content, ![r][e].token = @ + 1]
     /\ Notify(r, e, "updated")
  \/ /\ op = "void"
     /\ qbo' = [qbo EXCEPT ![r][e].status = "Voided", ![r][e].content.total = Zero,
                           ![r][e].token = @ + 1]
     /\ Notify(r, e, "voided")
  \/ /\ op = "delete"
     /\ qbo' = [qbo EXCEPT ![r][e].status = "Deleted"]
     /\ Notify(r, e, "deleted")

(* The network loses a response or a request, or the database a commit.     *)
NetworkFault == faults < MaxFaults /\ faults' = faults + 1
------------------------------------------------------------------------------
(* A user of QuickBooks adds an invoice; its customer may be one the local  *)
(* database does not know.                                                  *)
UserCreates(r) ==
  /\ edits < MaxEdits
  /\ edits' = edits + 1
  /\ \E content \in Contents, known \in BOOLEAN :
       Insert(r, content, NoLink, known)
  /\ UNCHANGED faults

(* A user of QuickBooks changes, voids or deletes an invoice.               *)
UserWrites(r) ==
  /\ edits < MaxEdits
  /\ edits' = edits + 1
  /\ \E e \in DOMAIN qbo[r], op \in {"update", "void", "delete"} :
       LET now == qbo[r][e].content IN
         /\ Accepts(r, e, op, qbo[r][e].token)
         /\ \E content \in IF op = "update" THEN Contents \ {now} ELSE {now} :
              Overwrite(r, e, op, content)
  /\ UNCHANGED faults

UserStep == \E r \in Realms : UserCreates(r) \/ UserWrites(r)
==============================================================================
