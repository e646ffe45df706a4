----------------------------- MODULE SyncLemmas -----------------------------
(****************************************************************************)
(* What the operators of InvoiceContent, Store, SyncWorker and QuickBooks   *)
(* return: what a push, a pull and the comparison with the intent do to     *)
(* contents, and the facts about typing SyncProofs is built from.           *)
(****************************************************************************)
EXTENDS QueueRefinement, TLAPS, SequenceTheorems
------------------------------------------------------------------------------
(* Laying one content over another gives a content.                         *)
LEMMA OverlayType ==
  ASSUME NEW base \in AllContents, NEW given \in AllContents
  PROVE  Overlay(base, given) \in AllContents
BY DEF AllContents, Overlay

(* An update that QuickBooks took is not divergent when it is read back: a  *)
(* retry after a lost response never sees a conflict with itself            *)
(* (_handle_update_token_conflict, _diff_against_intent).                   *)
THEOREM PushedIsWhatWasMeant ==
  ASSUME NEW there \in AllContents, NEW intended \in AllContents
  PROVE  Divergent(Pushed(there, intended), intended) = {}
BY DEF AllContents, Divergent, Pushed, Overlay

(* Where the comparison finds no difference, pushing again changes nothing: *)
(* the second try of an update overwrites no concurrent edit.               *)
THEOREM RepostIsIdempotent ==
  ASSUME NEW there \in AllContents, NEW intended \in AllContents,
         Divergent(there, intended) = {}
  PROVE  Pushed(there, intended) = there
<1>1. there.total = intended.total
  BY DEF Divergent
<1>2. intended.due # NoDue => there.due = intended.due
  BY DEF Divergent
<1>3. there = [total |-> there.total, due |-> there.due]
  BY DEF AllContents
<1> QED BY <1>1, <1>2, <1>3 DEF Pushed, Overlay

(* A push followed by the pull of its own echo leaves the local content as  *)
(* it was, but for a due date only QuickBooks had.                          *)
THEOREM EchoKeepsContent ==
  ASSUME NEW there \in AllContents, NEW here \in AllContents
  PROVE  LET after == Pulled(here, Pushed(there, here)) IN
           /\ after.total = here.total
           /\ here.due # NoDue => after = here
<1>1. here = [total |-> here.total, due |-> here.due]
  BY DEF AllContents
<1> QED BY <1>1 DEF Pulled, Pushed, Overlay
------------------------------------------------------------------------------
(* Replacing one element of a sequence keeps its type, domain and length.   *)
LEMMA SeqExcept ==
  ASSUME NEW S, NEW s \in Seq(S), NEW i, NEW e, i \in DOMAIN s => e \in S
  PROVE  /\ [s EXCEPT ![i] = e] \in Seq(S)
         /\ DOMAIN [s EXCEPT ![i] = e] = DOMAIN s
         /\ Len([s EXCEPT ![i] = e]) = Len(s)
<1>1. CASE i \in DOMAIN s
  BY <1>1, ExceptSeq, LenProperties
<1>2. CASE i \notin DOMAIN s
  <2>1. [s EXCEPT ![i] = e] = s
    BY <1>2, LenProperties
  <2> QED BY <2>1
<1> QED BY <1>1, <1>2

(* Appending an element keeps the earlier elements where they are.          *)
LEMMA SeqAppend ==
  ASSUME NEW S, NEW s \in Seq(S), NEW e \in S
  PROVE  /\ Append(s, e) \in Seq(S)
         /\ Len(Append(s, e)) = Len(s) + 1
         /\ DOMAIN Append(s, e) = 1 .. Len(s) + 1
         /\ \A k \in DOMAIN s : Append(s, e)[k] = s[k]
         /\ Append(s, e)[Len(s) + 1] = e
OBVIOUS

(* A function on the domain of a sequence is a sequence of that length.     *)
LEMMA SeqMap ==
  ASSUME NEW S, NEW s \in Seq(S), NEW t, DOMAIN t = DOMAIN s,
         t = [k \in DOMAIN s |-> t[k]], \A k \in DOMAIN s : t[k] \in S
  PROVE  t \in Seq(S) /\ Len(t) = Len(s)
<1>1. t \in [1 .. Len(s) -> S]
  BY LenProperties
<1>2. Len(s) \in Nat
  BY LenProperties
<1> QED BY <1>1, <1>2, SeqDef

(* The row create_invoice starts from is a row.                             *)
LEMMA BlankRow == Blank \in Row /\ Snap(Blank) \in Snapshot
BY StoreAssumption DEF Blank, Row, Snap, Snapshot, AllContents, Nothing, Tokens,
   Statuses, SyncStatuses, NoLink, NoToken

(* append_invoice_history copies a row into a snapshot.                     *)
LEMMA SnapType == ASSUME NEW row \in Row PROVE Snap(row) \in Snapshot
BY DEF Row, Snap, Snapshot

(* Merging the columns of a session into a row gives a row.                 *)
LEMMA MergeType ==
  ASSUME NEW current \in Row, NEW loaded \in Row, NEW obj \in Row
  PROVE  Merge(current, loaded, obj) \in Row
<1>1. Merge(current, loaded, obj).content \in AllContents
  BY DEF Row, Merge, Net, AllContents
<1> QED BY <1>1 DEF Row, Merge, Net

(* Saving a loaded invoice keeps both tables typed and adds no row.         *)
LEMMA SaveInvoiceType ==
  ASSUME invoices \in Seq(Row), audit \in Seq(Snapshot), Len(audit) = Len(invoices),
         NEW i, NEW loaded \in Row, NEW obj \in Row, NEW locked,
         SaveInvoice(i, loaded, obj, locked)
  PROVE  /\ invoices' \in Seq(Row)
         /\ audit' \in Seq(Snapshot)
         /\ Len(audit') = Len(invoices')
         /\ DOMAIN invoices' = DOMAIN invoices
<1>1. i \in DOMAIN invoices => Merge(invoices[i], loaded, obj) \in Row
  BY MergeType, LenProperties
<1>2. Snap(obj) \in Snapshot
  BY SnapType
<1> QED BY <1>1, <1>2, SeqExcept DEF SaveInvoice

(* Inserting an invoice keeps both tables typed and every index valid.      *)
LEMMA AddInvoiceType ==
  ASSUME invoices \in Seq(Row), audit \in Seq(Snapshot), Len(audit) = Len(invoices),
         NEW row \in Row, AddInvoice(row)
  PROVE  /\ invoices' \in Seq(Row)
         /\ audit' \in Seq(Snapshot)
         /\ Len(audit') = Len(invoices')
         /\ DOMAIN invoices \subseteq DOMAIN invoices'
         /\ Len(invoices) + 1 \in DOMAIN invoices'
BY SnapType, SeqAppend, LenProperties DEF AddInvoice

(* _enqueue_job adds one pending, unattempted job and touches no other.     *)
LEMMA EnqueueType ==
  ASSUME jobs \in Seq(Job), NEW i \in Nat,
         NEW op \in {"create", "update", "delete", "void"}, EnqueueJob(i, op)
  PROVE  /\ jobs' \in Seq(Job)
         /\ Len(jobs') = Len(jobs) + 1
         /\ DOMAIN jobs' = 1 .. Len(jobs) + 1
         /\ \A k \in DOMAIN jobs : jobs'[k] = jobs[k]
         /\ jobs'[Len(jobs) + 1].inv = i
         /\ jobs'[Len(jobs) + 1].status = "pending"
         /\ jobs'[Len(jobs) + 1].attempts = 0
<1> DEFINE row == [inv |-> i, op |-> op, status |-> "pending",
                   attempts |-> 0, due |-> TRUE, error |-> "none"]
<1>1. row \in Job
  BY StoreAssumption DEF Job, QueueStates
<1>2. jobs' = Append(jobs, row)
  BY DEF EnqueueJob
<1>3. row.inv = i /\ row.status = "pending" /\ row.attempts = 0
  OBVIOUS
<1> HIDE DEF row
<1> QED BY <1>1, <1>2, <1>3, SeqAppend

(* A job that fails is failed for good or has another attempt left.         *)
LEMMA ReattemptJob ==
  ASSUME NEW row \in Job, row.attempts < MaxAttempts
  PROVE  /\ Reattempt(row) \in Job
         /\ Reattempt(row).inv = row.inv
         /\ Active(Reattempt(row)) => Reattempt(row).attempts < MaxAttempts
<1> DEFINE n == row.attempts + 1
           last == [row EXCEPT !.attempts = n, !.status = "failed"]
           next == [row EXCEPT !.attempts = n, !.status = "pending", !.due = FALSE]
<1>1. n \in 0 .. MaxAttempts
  BY StoreAssumption DEF Job
<1>2. last \in Job /\ next \in Job
  BY <1>1 DEF Job, QueueStates
<1>3. /\ last.status = "failed" /\ last.inv = row.inv
      /\ next.attempts = n /\ next.inv = row.inv
  BY DEF Job
<1>4. Reattempt(row) = IF n >= MaxAttempts THEN last ELSE next
  BY DEF Reattempt
<1> HIDE DEF last, next
<1> QED BY <1>1, <1>2, <1>3, <1>4, StoreAssumption DEF Active

(* An event that fails is failed for good or has another attempt left.      *)
LEMMA ReattemptEvent ==
  ASSUME NEW row \in Event, row.attempts < MaxAttempts
  PROVE  /\ Reattempt(row) \in Event
         /\ Active(Reattempt(row)) => Reattempt(row).attempts < MaxAttempts
<1> DEFINE n == row.attempts + 1
           last == [row EXCEPT !.attempts = n, !.status = "failed"]
           next == [row EXCEPT !.attempts = n, !.status = "pending", !.due = FALSE]
<1>1. n \in 0 .. MaxAttempts
  BY StoreAssumption DEF Event
<1>2. last \in Event /\ next \in Event
  BY <1>1 DEF Event, QueueStates
<1>3. last.status = "failed" /\ next.attempts = n
  BY DEF Event
<1>4. Reattempt(row) = IF n >= MaxAttempts THEN last ELSE next
  BY DEF Reattempt
<1> HIDE DEF last, next
<1> QED BY <1>1, <1>2, <1>3, <1>4, StoreAssumption DEF Active
------------------------------------------------------------------------------
(* A notification names an invoice of its realm; none is taken back.        *)
LEMMA NotifyType ==
  ASSUME QuickBooksTypeOK, NEW r \in Realms, NEW e \in Nat \ {0},
         NEW op \in {"created", "updated", "deleted", "voided"}, Notify(r, e, op)
  PROVE  notes' \in Seq(Note) /\ DOMAIN notes \subseteq DOMAIN notes'
<1>1. [realm |-> r, ext |-> e, op |-> op] \in Note
  BY DEF Note
<1> QED BY <1>1, SeqAppend, LenProperties DEF QuickBooksTypeOK, Notify

(* What a create leaves in QuickBooks: the dates sent and the items' sum.   *)
LEMMA SummedContent ==
  ASSUME NEW content \in AllContents, NEW sum \in Totals
  PROVE  /\ [content EXCEPT !.total = sum] \in AllContents
         /\ [content EXCEPT !.total = sum].due = content.due
BY DEF AllContents

(* An invoice added to QuickBooks keeps its realms typed.                   *)
LEMMA InsertType ==
  ASSUME QuickBooksTypeOK, NEW r \in Realms, NEW content \in AllContents,
         NEW doc \in Nat, NEW known \in BOOLEAN, Insert(r, content, doc, known)
  PROVE  /\ qbo' \in [Realms -> Seq(QboInvoice)]
         /\ notes' \in Seq(Note) /\ DOMAIN notes \subseteq DOMAIN notes'
<1> DEFINE row == [status |-> "Live", token |-> 0, content |-> content,
                   doc |-> doc, known |-> known]
<1>1. row \in QboInvoice
  BY DEF QboInvoice
<1>2. Append(qbo[r], row) \in Seq(QboInvoice)
  BY <1>1, SeqAppend DEF QuickBooksTypeOK
<1>3. qbo' = [qbo EXCEPT ![r] = Append(@, row)] /\ Notify(r, Len(qbo[r]) + 1, "created")
  BY DEF Insert
<1>4. Len(qbo[r]) + 1 \in Nat \ {0}
  BY LenProperties DEF QuickBooksTypeOK
<1>5. notes' \in Seq(Note) /\ DOMAIN notes \subseteq DOMAIN notes'
  BY <1>3, <1>4, NotifyType
<1> HIDE DEF row
<1> QED BY <1>2, <1>3, <1>5 DEF QuickBooksTypeOK

(* What a write does to an invoice in QuickBooks is typed.                  *)
LEMMA QboRowType ==
  ASSUME NEW row \in QboInvoice, NEW content \in AllContents
  PROVE  /\ [row EXCEPT !.content = content, !.token = @ + 1] \in QboInvoice
         /\ [row EXCEPT !.status = "Voided", !.content.total = Zero, !.token = @ + 1]
              \in QboInvoice
         /\ [row EXCEPT !.status = "Deleted"] \in QboInvoice
<1>1. row.token + 1 \in Nat
  BY DEF QboInvoice
<1>2. \A n \in Nat :
        /\ [row EXCEPT !.content = content, !.token = n] \in QboInvoice
        /\ [row EXCEPT !.status = "Voided", !.content.total = Zero, !.token = n]
             \in QboInvoice
  <2>1. [row.content EXCEPT !.total = Zero] \in AllContents
    BY DEF QboInvoice, AllContents
  <2> QED BY <2>1 DEF QboInvoice
<1>3. [row EXCEPT !.status = "Deleted"] \in QboInvoice
  BY DEF QboInvoice
<1> QED BY <1>1, <1>2, <1>3

(* An accepted write to QuickBooks keeps its realms typed.                  *)
LEMMA OverwriteType ==
  ASSUME QuickBooksTypeOK, NEW r \in Realms, NEW e \in DOMAIN qbo[r],
         NEW op, NEW content \in AllContents, Overwrite(r, e, op, content)
  PROVE  /\ qbo' \in [Realms -> Seq(QboInvoice)]
         /\ notes' \in Seq(Note) /\ DOMAIN notes \subseteq DOMAIN notes'
<1> DEFINE now == qbo[r][e]
           updated == [now EXCEPT !.content = content, !.token = @ + 1]
           voided  == [now EXCEPT !.status = "Voided", !.content.total = Zero, !.token = @ + 1]
           deleted == [now EXCEPT !.status = "Deleted"]
<1>1. now \in QboInvoice /\ e \in Nat \ {0} /\ qbo[r] \in Seq(QboInvoice)
  BY LenProperties DEF QuickBooksTypeOK
<1>2. updated \in QboInvoice /\ voided \in QboInvoice /\ deleted \in QboInvoice
  BY <1>1, QboRowType
<1>3. \A row \in QboInvoice :
        [qbo EXCEPT ![r] = [qbo[r] EXCEPT ![e] = row]] \in [Realms -> Seq(QboInvoice)]
  BY <1>1, SeqExcept DEF QuickBooksTypeOK
<1>4. CASE /\ qbo' = [qbo EXCEPT ![r][e].content = content, ![r][e].token = @ + 1]
           /\ Notify(r, e, "updated")
  <2>1. qbo' = [qbo EXCEPT ![r] = [qbo[r] EXCEPT ![e] = updated]]
    BY <1>4, <1>1 DEF QuickBooksTypeOK, QboInvoice
  <2> QED BY <2>1, <1>1, <1>2, <1>3, <1>4, NotifyType
<1>5. CASE /\ qbo' = [qbo EXCEPT ![r][e].status = "Voided", ![r][e].content.total = Zero,
                                 ![r][e].token = @ + 1]
           /\ Notify(r, e, "voided")
  <2>1. qbo' = [qbo EXCEPT ![r] = [qbo[r] EXCEPT ![e] = voided]]
    BY <1>5, <1>1 DEF QuickBooksTypeOK, QboInvoice
  <2> QED BY <2>1, <1>1, <1>2, <1>3, <1>5, NotifyType
<1>6. CASE /\ qbo' = [qbo EXCEPT ![r][e].status = "Deleted"]
           /\ Notify(r, e, "deleted")
  <2>1. qbo' = [qbo EXCEPT ![r] = [qbo[r] EXCEPT ![e] = deleted]]
    BY <1>6, <1>1 DEF QuickBooksTypeOK, QboInvoice
  <2> QED BY <2>1, <1>1, <1>2, <1>3, <1>6, NotifyType
<1> QED BY <1>4, <1>5, <1>6 DEF Overwrite
==============================================================================
