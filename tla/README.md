# A verification of two-way-sync

two-way-sync keeps the invoices of a local Postgres database and of QuickBooks
Online (QBO) in step. Local edits go out through a job queue, edits made in
QBO come in as webhook notifications through an event queue, and a polling
worker works both queues off. This directory models that system in TLA+,
checks it with TLC and proves its safety properties with TLAPS.

Paths below are relative to the repository's `src/` tree.

## 1. Inventory

| component | state | operations | modelled |
|---|---|---|---|
| invoice API (`app/services/invoice_service.py`, `app/api/invoices.py`) | one SQLAlchemy session per request: the invoice as loaded, and as changed | create, update, delete, void | `InvoiceService` |
| webhook endpoint (`app/api/webhooks.py`) | the delivery a process has in hand between the look and the commit; adds `webhook_events` rows | look for a stored `cloudevent_id`, store the event, lose a race for it, store an event without an id | `WebhookEndpoint` |
| sync worker (`app/workers/sync_worker.py`, started by `app/main.py`) | the batch it has claimed, the row in hand, its session | poll, claim, commit an outcome, retry, abort, back off | `SyncWorker` |
| sync executor (`app/services/sync_executor.py`) | the session's invoice between two requests | push a create, update, delete or void; reconcile; resolve a token conflict by comparing with the intent | `SyncExecutor`, the comparison in `InvoiceContent` |
| webhook handler (`app/services/webhook_handler.py`) | the session's invoice during the re-fetch | apply created, updated, deleted, voided | `WebhookHandler` |
| database (`app/models/models.py`, `app/db/session.py`) | `invoices`, `sync_jobs`, `webhook_events` | per-column flush, row locks, commit | `Store`, contents in `InvoiceContent` |
| audit trail (`app/core/audit.py`) | `invoice_history`, `api_logs` | append a snapshot | newest snapshot only, in `Store` and `AuditHistory` |
| QBO and its client (`app/integrations/quickbooks_client.py`) | the invoices of every realm, notifications sent | one request each: create, query, update, read, delete, void | `QuickBooks` (external) and `SyncExecutor` |
| schemas (`app/schemas/schemas.py`) | none | validate bodies | only that a PUT may carry a status (`PutStatuses`) and clear the due date, and that total and items are independent |
| migrations, seed script, logging, configuration, clock | none at run time | | no: input and output only |

How they interact. The API writes an invoice row and its job in one commit.
The worker claims a batch of jobs, executes each through the executor, commits
after each, and then does the same with the events through the handler. Every
accepted write to QBO, the worker's own included, makes QBO send a
notification, which comes back through the endpoint as an event: the *echo*.
Nothing but the database and QBO is shared.

What is concurrent. API handlers are plain functions on a thread pool, so
several run at once and beside the worker. The worker is an asyncio task whose
batch functions block the event loop; the endpoint, an `async` handler on the
same loop, is served only while the worker of that process sleeps, and the
worker waits while a delivery is being stored. Several processes may run, each
with its own worker and its own endpoint, and two of them may store the same
`cloudevent_id` at once. Every request to QBO is a moment
in which anything else can happen, and so is the time between the load and the
commit of an API handler.

What makes each component correct.

- Queue: a row has one owner and a bounded number of attempts; an outcome is
  final; every row reaches one, unless its process is killed.
- Endpoint: one row per `cloudevent_id`, whoever races; the loser of a race
  neither adds a row nor resets the winner's.
- Executor: a lost response does not duplicate an invoice in QBO, and a link
  that was committed is never undone by another session; the second try of a
  refused update overwrites nobody.
- Handler: the SyncToken gate lets through what is newer and only that, so
  echoes change nothing, reordered notifications do no harm, and none, however
  often it is delivered, adds a second row for one invoice.
- API: the status and the soft delete a guard was about survive the sessions
  that checked it too early; what shows as pending is still to be pushed.
- Together: once everything is worked off, a linked invoice says what QBO says,
  as far as a push and a pull carry it, deletes and voids included.

`PROJECT.json` lists the hazards behind these, at their lines.

## 2. Modules

    InvoiceContent ── Store ── QuickBooks ── SyncWorker ──┬─ SyncExecutor ────┐
                        │                                 ├─ WebhookHandler ──┤
                        │                                 └─ WebhookEndpoint ─┤
                        └─ InvoiceService ────────────────────────────────────┤
                                                                         TwoWaySync
                                                                              │
                          WorkQueue ◄── QueueRefinement ◄────────────── SyncProperties
                                              │
                        ┌─────────────────────┴────────────┐
        ┌──────────── Claims                           SyncLemmas
        │               │                                  │
   AuditHistory   MCTwoWaySync                         SyncProofs
        │               │                                  │
        └───────┬───────┘                    ┌─────────────┴──────┐
          MCAuditHistory                 StepProofs          QueueProofs
                                             │                    │
                                       SessionProofs              │
                                             │                    │
                                             ├───────────► CreateProofs
                                        TokenProofs
                                             │
                                      AgreementProofs

| module | models | correspondence |
|---|---|---|
| `InvoiceContent` | the total and the due date | `Pushed` is the sparse update of `update_invoice`, `Pulled` what `_handle_updated` assigns, `Divergent` is `_diff_against_intent`. |
| `Store` | the tables | a row keeps what the program branches on. `Merge` is the flush of SQLAlchemy's unit of work: only columns the session changed are sent, so two overlapping sessions mix per column. `Reattempt` is the body of both generic `except` clauses. |
| `QuickBooks` | QBO, its users and the network | invoices per realm with a SyncToken; `notes` is every notification ever sent; `NetworkFault` spends one of `MaxFaults` on a call or a commit. |
| `InvoiceService` | the API | `Begin...` is the load and the guards, `Commit` the flush, history row and job. `CreateInvoice` reads no mutable row and is one step. |
| `SyncWorker` | the polling loop | `Select` is the `FOR UPDATE SKIP LOCKED` query and `Claim...` the commit of `in_progress`; `Complete...`, `RetryJob`, `AbortJob` and `RetryEvent` are the commits that end a row. `AttemptFails` is a request or a commit that raises inside the `try` of a row, `Crash` a process that dies or an error that escapes the batch. `work[w].at` says where the execution of a row stands. |
| `SyncExecutor` | outbound jobs | one action per request to QBO and answer. `PostCreate` sends no total: QBO shows any sum of the items. `Answered` puts the answer on the session's object or loses the response; `CompleteJob` commits. |
| `WebhookHandler` | inbound events | `Begin...` looks the invoice up, by QBO id alone as the code does, and takes the early returns; `Fetch` is the re-fetch and the gate; `CompleteEvent` commits. |
| `WebhookEndpoint` | deliveries | `CheckStored` is the look for the `cloudevent_id`, `StoreEvent` the commit decided by the UNIQUE constraint; `intake[w]` is the delivery process `w` holds in between; a crash loses it. |
| `TwoWaySync` | the whole | `Init`, `Next`, `WorkerStep`, the type invariant |
| `WorkQueue` | the abstract queue | rows are pending, in progress or have an outcome; a holder takes rows, settles one, or dies |
| `QueueRefinement` | how the tables implement it | `Shown` and `Taken` map a table and its workers to `WorkQueue`, for jobs and for events |
| `SyncProperties` | what holds | invariants, action properties, liveness, the inductive invariant of the queue |
| `Claims` | what the documents say and the code does not keep | one definition per claim |
| `AuditHistory` | the claim about `invoice_history` | a history variable beside the specification: every state each row has had |
| `MCTwoWaySync`, `MCAuditHistory` | | model values and symmetry for TLC |
| `SyncLemmas`, `...Proofs` | | lemmas and theorems, section 5 |

Operators whose comment begins with *Mutant* are not part of the model. They
are altered forms of a definition, a bug a programmer might plausibly make,
and exist to show that a property notices it.

### What is assumed of QBO

It is external and modelled from how `app/` and the mock in the repository use
it: invoice ids count up within each realm, so two realms have equal ids;
SyncTokens are numeric and grow with every accepted write; a stale token, an
unknown id, a deleted invoice, or an update or void of a voided one is
answered 400; a voided invoice shows zero amounts and can still be deleted;
reading a deleted invoice fails; a query by DocNumber finds an invoice an
earlier request left behind. A request either never arrives or is applied
before its sender gives up: it is never applied after the retry. Notifications
arrive at any later time, in any order, repeatedly or, where no fairness says
otherwise, never.

### What is abstracted

- Contents. `total` is `total_amount`. `due` is `due_date`, which may be absent:
  an absent due date is neither pushed (`sync_executor.py:141`) nor pulled
  (`webhook_handler.py:200`), so a date cleared on one side stays on the other.
  `issue_date` is pushed, pulled and compared in the same way
  and is never absent: it behaves as a `due` that is not `NoDue` does.
- A date read from QBO is assigned as a string, which never equals the date
  loaded, so the flush always sends it (`Compared`).
- Line items are not kept. A create sends them and no total
  (`quickbooks_client.py:46-66`), and nothing ties their sum to `total_amount`
  (`schemas.py:27-41`), so `PostCreate` lets QBO show any total. An update sends
  the total and no items. Until one of the two passes on a total the sides may
  therefore differ (`AsCreated`). Amounts have two decimals on both
  sides, where the half-cent tolerance of `_diff_against_intent` means equality.
- "Agrees" (`Agrees`) means: as far as a push and a pull carry it. Due dates are
  equal where both sides have one, and totals are equal but for an invoice
  created here that QBO holds as created.
- Several events in one request are one delivery after the other: the endpoint
  commits each on its own and does not give up the event loop in between.
- No durations: a row backs off for some time (`due = FALSE`) that ends
  (`Wakes`). Every row has a clock of its own. A new event is due at once:
  `webhook_events.scheduled_at` defaults to the database's `now()`, which is
  the program's naive UTC only where the database runs in UTC.
- Of the row locks, the one held across a request is modelled: the flush of a
  refreshed token before the second update request (`LockedBy`). The others
  are taken and released within one action.
- A commit that fails at the database inside the `try` of a row
  (`sync_worker.py:64`, `:138`) goes to the `except` clause and counts an
  attempt (`AttemptFails`), also after QBO accepted the request. One that fails
  elsewhere, the claim or an `except` clause, escapes the batch and is covered by
  `Crash`: uncommitted work is gone, claimed rows stay `in_progress`. A commit
  that succeeds while its acknowledgement is lost is not modelled.
- Provider and customer are left out, but for an inbound create whose customer
  the database does not know, which is dropped (`known`).

## 3. Runs

Every passing run explores all states within its bounds. `CHECK_DEADLOCK` is
off because the bounds let the system stop: users of the API and of QBO are
under no obligation to act.

| run | bounds | question |
|---|---|---|
| `core` | 1 worker, 2 realms, 1 content posted and 2 sums of QBO, 2 jobs, 1 QBO edit, 1 fault | do links, tokens and pending marks survive overlapping sessions, retries, failed commits and equal QBO ids? (1.6 million states) |
| `agree` | 1 worker, 1 API thread, 1 content posted and 2 sums of QBO, 3 jobs, 1 QBO edit, PUT may set `Voided` | do deletes and voids reach both sides, in whatever order the notifications came, and survive the sessions they cross? Are own echoes absorbed? (1.3 million) |
| `workers` | 2 processes with batches of one, 2 invoices, 2 jobs, 1 crash, 1 repeated event without an id | do both tables implement the abstract queue? Does only a crash strand rows? Is the invariant of the proofs true? (590 thousand) |
| `live` | 2 workers with batches of one, 1 job, 1 QBO edit, 1 fault, fairness | does every job and every notification reach an outcome? (37 thousand) |
| `converge` | 1 worker, 2 totals with and without a due date, 2 jobs, 1 QBO edit, fairness | do the two sides agree when everything is worked off, do they converge for good, and does the second try of an update overwrite nothing? (330 thousand) |

`MaxAttempts` is 2 where the code has 3: the first attempt, a retry and the
last failure all occur. `MaxBatch` is 10 as in the code, which is never full
with so few rows; batches of one in the two-worker runs show both a full batch
and rows left for the other worker. One invoice from the API and one from QBO
are enough for the per-invoice properties, since nothing but `Lookup` relates
two invoices; the second realm in `core` is there for that, and the second
invoice in `workers` lets two processes execute creates at once. Three jobs
let a create meet two later writes. No operator tells two totals, workers or
threads apart, which makes the symmetry reduction of `workers` sound. One API
thread overlaps the worker's sessions in every way; two can also cross each
other, and for that all properties of `agree` are proved for every number of
threads (§5). The API posts one content in `core`
and `agree`, which QBO may sum up to another total, so that an edit there finds
something to change; what only contents tell apart is left to `converge`, which
has two totals, with and without a due date, and no faults: that a lost response
costs no content but a retried create's is `TokensMeanContent`. The one job of `live` is the create
of an invoice of the API, or any write to one that a user of QBO created. In
`converge` one edit in QBO does not fall between the reread and the second
try of the same update; `RepostsAreHarmless` covers that for any number.

What the properties say:

- `core`: `NoDuplicateInQbo`, `LinkMatchesJob` and `LinkPermanent` about
  creates whose response or commit is lost, `TokenMonotone` about the token under
  per-column merging, `PendingHasJob` about invoices that would wait for ever:
  some job of theirs is still to be executed, was ended by a conflict, or was
  lost with the batch of a worker that died. What is said about tokens is said of
  invoices without a namesake, an invoice of another company with the same QBO
  id: the lookup takes such a company's events for one's own (`event_realm`), and
  its tokens are unrelated.
- `agree`: `StatusAgreement` (both sides agree on deletes and, where no PUT may
  have set the status, on voids),
  `DeleteMirrored` (what QBO deleted is deleted here in the end, whatever jobs
  the delete crossed and whatever calls failed, unless the commit of its event
  fails for good), `EchoAbsorbed` (the echo of a create or an update writes
  nothing, unless a void job of this service came first, and never adds a row),
  `SingleRow` (no order of deliveries gives two rows to one invoice of QBO;
  `RowsAreSingle` proves it for repeated deliveries too), and `NoResurrection` and
  `OnlyCreateReopens`: no stale session takes a delete or a void back, but for
  the commit of a create (see below) and that of a PUT whose body gives a
  status. `DeleteMirrored` asks that the lookup finds this invoice and no other
  (`Sole`); the rest follow from there being no namesake.
- `workers`: `OneOwner`, `QueueTerminal`, `CrashCostsABatch` (every
  `in_progress` row has a worker, but for one batch per crash),
  `QueueInvariant`, and the refinements `JobsAreAQueue` and `EventsAreAQueue`.
- `live`: `JobsSettle` and `EventsSettle`.
- `converge`: `TokenMeansContent` (the gate trusts the token, so a token must
  never be taken over without its content, but by a retried create),
  `Agreement` (once everything is worked off every linked invoice agrees with
  QBO, whatever its `sync_status`), `Converges`, and
  `RepostChangesNothing`: an update refused for its token and sent again after a
  comparison never changes what QBO holds, since its token is accepted only if
  nothing was written there since the read.

The refinement. `WorkQueue` says what a queue with several holders promises: a
row is added once, taken by one holder while pending, settled by its holder as
completed, failed or pending with one attempt more, and abandoned only if the
holder dies. `Shown` keeps status and attempts of each row and hides due dates
and errors; `Taken` counts a batch from the commit of its claim on, so that
selecting rows and rolling the selection back does not show. Both tables are
mapped, the events with the endpoint's racing deliveries as the additions.

Why most safety runs have one worker. With two, jobs of one invoice run in
parallel, and an older token or an older content may be committed last.
`DESIGN.md:245` knows this and leaves it open. `TokenMonotone` fails there, and
with it what rests on tokens. `NoDuplicateInQbo`, `LinkPermanent`,
`NoResurrection`, `OnlyCreateReopens`, `LinkMatchesJob`, `PendingHasJob`,
`RepostChangesNothing` and the queue do not depend on it, and are proved for any
number of workers.

### Claims the code does not keep

Each is a run that expects a violation, and an entry under `findings`.

| run | claim | what happens |
|---|---|---|
| `conflict_flagged` | a divergent update leaves the invoice flagged `conflict` (`DESIGN.md:162`, comment at `sync_worker.py:67`) | the rollback at `sync_worker.py:70` takes the flag and the history row back |
| `one_row` | own echoes are absorbed (`README.md:23`) | the echo of a create whose response was lost finds no linked row and inserts a second |
| `silent_overwrite` | neither side is silently overwritten (`DESIGN.md:17`) | an inbound update replaces a local edit still to be pushed; its job then pushes the replaced content |
| `void_then_delete` | a voided invoice may be deleted (`DESIGN.md:167`) | the void does not store the new SyncToken, so the delete is refused until it fails |
| `event_realm` | the realm routes an event to its company (`README.md:43`) | the lookup is by QBO id alone |
| `void_reordered` | webhooks may be reordered (`DESIGN.md:256`) | a void heard before the create of its invoice is dropped; the create then inserts an invoice that never becomes `Voided` |
| `audit_matches` | every state is reconstructable from the history (`DESIGN.md:179`) | the snapshot is the session's object; a delete by the API that overlaps the commit of a create leaves a newest snapshot, open and linked and not deleted, that the row has never been |

### Other limits met on the way

These have no run of their own. Where a property of the passing runs makes an
exception for one of them, the property is violated without that exception, and
with it shows that nothing else has the same effect.

- A claimed row stays `in_progress` for ever when its process dies: the poll
  selects only pending rows. `CrashCostsABatch` bounds the loss; liveness is
  checked without crashes.
- A void does not store the SyncToken QBO returns (`sync_executor.py:255`), so
  the late echo of an earlier update of the same invoice passes the gate
  (`webhook_handler.py:185`) and writes total 0, the token and a history row,
  though `README.md:23` says such echoes are absorbed. `EchoAbsorbed` excepts
  exactly this.
- A create linked by DocNumber (`sync_executor.py:127`) takes over the token
  QBO has by then but not the content, and the gate then holds back an edit
  made in QBO since the lost response; `DESIGN.md:158` calls the case handled.
  `TokenMeansContent` excepts it (`CreateRetried`); `Agreement` and its kin are
  stated without lost responses.
- The total of an invoice created here and the sum of its line items, which QBO
  shows, may differ for good (`quickbooks_client.py:51`), and so may a due date
  taken away on one side (`sync_executor.py:141`), though `DESIGN.md:7` wants no
  diverging records. `Agrees` excepts the two (`AsCreated`, `SameDue`).
- A create executed after a void or a delete of its invoice sets the status to
  `Open` (`sync_executor.py:87`), though `DESIGN.md:53` and `:257` call both
  terminal. `OnlyCreateReopens` excepts the commit of a create.
- With two workers the stored SyncToken goes back: one commits the token of its
  own answer (`sync_executor.py:155`) after the other applied the notification
  of a later edit. `TokenMonotone` is stated for one worker.
- The poll takes due jobs in no order, and no job waits for another of its
  invoice (`sync_worker.py:45`). With more due jobs than a batch holds, or while
  the create backs off, a delete may use its attempts up before the create is
  executed; the create then leaves an open invoice in QBO, deleted here and shown
  as complete, though `DESIGN.md:166` pairs the two. `StatusAgreement` asks for
  jobs that succeeded.
- An update that loaded the invoice before a concurrent void commits after it:
  nothing repeats the 409 guard. The void survives (`OnlyCreateReopens`), but
  the stale content is committed and pushed.
- An API delete racing an inbound void may leave a row with `is_deleted` set
  and the status `Voided`, and the echo of an earlier update may erase the
  `failed` mark of a later job. Both are why `StatusAgreement` is worded as it
  is: it asks for completed jobs, and for the void only of invoices not
  deleted.
- `sync_status` may read `complete` while a job is pending: setting `pending`
  on a row loaded as `pending` sends nothing, and the job that completes in
  between says `complete`. `Settled` looks at the jobs for that reason.
- A PUT may give the invoice any status; its update job does not push it, so the
  sides then differ on it. `StatusAgreement` excepts such invoices from what it
  says of voids (`GivenStatus`).
- What `_handle_updated` always writes, the dates it assigns as strings, may be
  over a concurrent edit of the API (`Compared`); `silent_overwrite` is the same
  loss without them.

## 4. Fairness

`FairSpec` assumes that
- a worker that is up takes its next step (`WF` on `WorkerStep`): the loop in
  `sync_worker` never ends, and every request has a timeout
  (`quickbooks_client.py:8-10`), after which it raises;
- a backoff ends (`WF` on `Wakes`): `scheduled_at` passes;
- an API handler that has loaded its invoice commits (`WF` on `Commit`);
- a process that has looked for a delivery stores it (`WF` on `StoreEvent`):
  the handler has no `await` in between;
- a notification QBO keeps sending is taken (`SF` on `CheckStored`). Strong
  fairness because the endpoint is served only while a worker sleeps, which
  happens again and again but not for good. A notification QBO drops for ever
  is not recovered by the service, and no property says so.

Users of the API and of QBO, network faults, crashes and restarts are not fair.

## 5. Proofs

Everything here holds for every number of threads, realms, contents, rows,
edits, faults, repeats and crashes, and but for the theorems marked below
for every number of workers, from the named assumptions on the constants only
(`StoreAssumption`, `QuickBooksAssumption`, `SyncWorkerAssumption`,
`InvoiceServiceAssumption`, `WebhookEndpointAssumption`). Seven theorems assume
one worker (`Workers = {solo}`), which is how `app/main.py` starts the service.

| theorem | module | statement |
|---|---|---|
| `TypeCorrect` | `SyncProofs` | `Spec => []TypeOK` |
| `OwnershipHolds` | `SyncProofs` | `Spec => []OneOwner` |
| `InvariantHolds` | `SyncProofs` | `Spec => []QueueInvariant` |
| `OutcomesFinal` | `SyncProofs` | `Spec => QueueTerminal` |
| `JobsImplementQueue`, `EventsImplementQueue` | `QueueProofs` | `Spec => JobsAreAQueue`, `Spec => EventsAreAQueue` |
| `CrashesCostTheirBatch` | `QueueProofs` | `Spec => []CrashCostsABatch` |
| `DeletesLast` | `SessionProofs` | `Spec => NoResurrection` |
| `ClosedLast` | `SessionProofs` | `Spec => OnlyCreateReopens` |
| `LinksLast` | `SessionProofs` | `Spec => LinkPermanent` |
| `NothingPendingIsForgotten` | `CreateProofs` | `Spec => []PendingHasJob` |
| `CreatesAreSingle` | `CreateProofs` | `Spec => []NoDuplicateInQbo` |
| `LinksMatch` | `CreateProofs` | `Spec => []LinkMatchesJob` |
| `RepostsAreHarmless` | `TokenProofs` | `Spec => []RepostChangesNothing` |
| `TokensLast` | `TokenProofs` | `Spec => TokenMonotone`, one worker |
| `TokensMeanContent` | `TokenProofs` | `Spec => []TokenMeansContent`, one worker |
| `DeletesMirrored` | `AgreementProofs` | `Spec => []DeleteMirrored`, one worker |
| `SidesAgree` | `AgreementProofs` | `Spec => []Agreement`, one worker |
| `StatusesAgree` | `AgreementProofs` | `Spec => []StatusAgreement`, one worker |
| `EchoesAreAbsorbed` | `AgreementProofs` | `Spec => []EchoAbsorbed`, one worker |
| `RowsAreSingle` | `AgreementProofs` | `Spec => []SingleRow`, one worker |
| `PushedIsWhatWasMeant`, `RepostIsIdempotent`, `EchoKeepsContent` | `SyncLemmas` | what a push, a comparison and a pull do to any two contents |

**Ownership.** `OneOwner` is not inductive alone. When a worker commits the
outcome of a row, the row leaves its batch; that this takes nothing from
another worker needs that the row in hand is one of the worker's own batch
(`WorksOnItsBatch`), and that the batch lies in the queue whose turn it is
(`HoldsItsQueue`), or two workers in different phases would be confused. That
an outcome keeps the row typed needs an attempt left to count
(`AttemptsLeft`), since `attempts` stays within `MaxAttempts`; and that a
claim takes only rows nobody owns follows from `OneOwner` itself: a pending
row is either locked by a worker about to claim it, or free. `QueueInvariant`
is the conjunction, and the run `workers` checks it too. `SyncLemmas` holds
the facts about sequences and operators; `SyncProofs` has one lemma per group
of actions, and `NextInvariant` puts them together. `OutcomesFinal` uses the
invariant: a row some worker executes is `in_progress`, hence not yet at its
outcome, so no step that changes a row changes one that has its outcome.

**Refinement.** From `QueueInvariant`, each step is a step of `WorkQueue` on
either table or leaves what is shown of it alone (`StepsOfTheQueues`): a claim
is a `Take`, each of the four outcomes a `Settle`, a crash a `Die`, a new job
or a stored event an `Add`. That the loser of a race for a `cloudevent_id`
shows nothing is where `EventsAreAQueue` would break without the UNIQUE
constraint.

**Crashes.** `CrashCostsABatch` is read off the refinement. Whatever is not a
crash serves both queues (`ServesTheQueues`), and `Add`, `Take` and `Settle`
leave no row without a holder (`ServingLeavesNone`). A crash adds the batch of
one worker to the rows of one queue (`CrashAbandons`), and what a poll takes is
`MaxBatch` rows at most (`BatchBound`), of tables that are finite.

**Steps.** The other proofs do not start from the actions. `StepProofs` says
once what a step may do: to the task of a worker (`NextTask`: it starts a job
or an event, sends a request, reads an answer, or ends), to a row of the
invoices (`NextRows`: a commit of the API, of a worker, a mark of failure, or a
new row), to a job (`NextJobs`), and to QBO (`NextDocs`).

**Sessions.** A flush writes a column only if the object differs from what was
loaded, so it is enough to follow the objects. `SessionInvariant` says for each
point of a job or an event, and of a request of the API, how its object differs
from the one loaded. No session clears `is_deleted` on its object, so none can
write it cleared (`DeletesLast`); none gives its object an open status, but a
create and a PUT that says so (`ClosedLast`).

**Links.** A create does set the link. `LinkInvariant` says that whoever holds
a link still to be committed executes the create job of that invoice and the
row has no link yet. This is kept because an invoice has one create job
(`OneCreate`), a job one owner (`QueueInvariant`), and a linked invoice no
create left to run (`LinkedIsDone`), so nobody else can set it in between.

**Pending.** An invoice that shows pending has a job that is active, and
whoever executes it has loaded the row as pending (`Keeps`), so that the
completion sends the change to "complete", and the last failure marks the row
as failed. That a completion could leave the column as it is, because the
session loaded something else, is excluded by the same clause; a create that
finds its invoice linked would complete without writing, and does not occur
(`NoneSkips`). An active job is pending, held by a worker, or abandoned
(`ActiveRunsOrIsLost`), and by `CrashCostsABatch` none is abandoned as long as
nobody died (`NoneAbandoned`).

**Creates.** The first attempt posts without looking, so it must be the first:
as long as no worker has begun a create job and it counts no attempt
(`Untried`), QBO holds nothing under its DocNumber (`UntriedLeftNothing`).
That a job never becomes untried again is read off `WorkQueue` (`OpenBack`),
whose steps count every attempt that does not end in an outcome, and off what
a worker lets go of (`LetGo`). A later attempt looks first, and what it found
absent stays absent until it posts (`CreatesAreClear`), because only this
worker executes this create. `OneDoc` then says that documents in QBO under one
DocNumber are equal. `LinkedDocs` adds that what a create is about to link to
bears the invoice's DocNumber, which no later write in QBO changes.

**Reposts.** The token sent by the second try of an update equals QBO's
current one only if nothing was written there since the read that showed no
difference (`RepostsAreFresh`); QBO's tokens never go back (`TokensGrow`), and
where the comparison finds no difference a push changes nothing
(`RepostIsIdempotent`).

**Tokens.** With one worker, nobody else writes the token or the link of the
row a task has loaded (`HasRow`), and what QBO answered is no older than what
was loaded (`TaskReached`); a stored token is one QBO has given out
(`RowsReached`). So the commit of an answer never takes the token back. What
is said of QBO's tokens is said of invoices without a namesake only.

**Contents.** An object that is about to be committed says what QBO says if its
token is still the current one (`Says`), unless it comes from a retried create,
and but for the total of an invoice that QBO holds as created (`Alike`);
a later write in QBO makes a new token, after which nothing is claimed
(`SaysLasts`). That the row then says so too needs that the flush sends the
columns concerned: what it leaves in the row is the object's content
(`Outcome`), or a handler of the API has committed meanwhile, and then its job
waits (`OtherJob`), and the invoice is not settled. `RowsSay` says this of rows
that are settled, from their commit on. A void or a delete heard late is no
exception because what a notification reports stays true (`NotesAreTrue`).

**Told.** Why does everything get across in the end? Because of what is still
under way. A linked row *lacks* a delete, a void or a newer token that QBO has
(`Lacks`); `Told` says that a notification of that kind then *waits*: it is in
no queue yet, or its event is still active and, if a worker has it in hand,
that worker is about to commit what it tells (`Waits`, `OnIt`). Every write to
QBO sends the notification it needs (`ChangeIsTold`), reading QBO puts the
worker on it (`FetchIsOnIt`, `BegunIsOnIt`), and the only step that spends it
is the commit that brings the row up to date (`CommitUpdates`), or a call or a
commit that fails once too often, which leaves the event failed (`Dropped`). The
hard
part is the row that is linked while the notification is already on its way: an
object about to be committed with a new link misses nothing that is not waiting
either (the second half of `Told`), because what it is linked to was read or
posted in the step that prepared it. The exceptions are a create linked by
DocNumber and a row inserted from QBO: the void of such an invoice may have been
heard already, before there was a row (`void_reordered`). So for voids `Told`
speaks of local invoices, and is kept as long as no create queries. `Quiet`
leaves nothing waiting but what was dropped (`QuietHasHeard`), so nothing else
is lacked: for deletes this is `DeletesMirrored`. A void that a PUT with a status
may have taken back is left out (`Excused`).

**Agreement.** Without lost calls the row has QBO's token by `Told`, and it
remains that a row with QBO's token has its content. `TokensMeanContent` says
so of rows shown as in sync; here `sync_status` may be `failed` or `pending`.
`RowsAgree` drops it: a row none of whose jobs is left says what QBO says if
the token is current. Its last job ended either with a commit, and then
`SavedSays` applies, or it was given up; without lost calls a job is
given up only because QBO refused it (`FailsForAReason`), and then the row is
behind QBO's token or QBO's invoice is gone (`FailsBehind`), so nothing is
claimed of it. That no create is tried twice (`FirstTries`) excludes the link
by DocNumber, and that no two rows are linked to one invoice (`OneRow`) makes the
handler's lookup find this one. They are inductive together as long as
`faults` stays 0 (`CleanInvariant`, `NextClean`). `RowsAreSingle` is read off the
same invariant: an event that is about to insert has found no row, and the one
worker links none meanwhile.

**Statuses.** What QBO deleted or voided gets here by `Told`. The other way,
a row that is deleted or voided here either has a delete or void job that is
not completed, or QBO shows it (`StatusTold`): an API delete enqueues such a
job, the job completes only when QBO accepted it (`Pushes`, `PushedShows`), an
inbound one is true (`NotesAreTrue`), and QBO undoes neither (`GoneStays`). A
`Voided` that a PUT may have given is left out (`Granted`).

**Echoes.** As long as nobody else writes in QBO, no call fails and no process
dies, every invoice there is one a row is linked to or one whose link is about
to be committed, and the row has its current token or is about to
(`OnlyOurs`): QBO changes only by a request of the one worker (`OwnPush`), which
then has nothing between the answer and the commit that could stop it
(`Committed`). So the echo of a create finds its row, and that of an update a
token that is not newer; what an event still has to commit is about an invoice
that is void or gone (`OwnEcho`). Gone it is not, because the handler has read
it and nothing was written since (`ReadAlive`); and what is void was voided by a
completed job of that row, or by one about to commit (`VoidsOurs`).

**What stays with TLC.** Liveness and ENABLED are beyond the prover:
`JobsSettle`, `EventsSettle` and `Converges` are only model-checked. The claims
of section 3 are refuted by TLC, which finds a behaviour for each. Every
invariant and every action property of the passing runs has a theorem; where it
assumes one worker, or no lost call, so does the run.

## 6. Plan

Done: the modules of section 2, the runs of section 3, the theorems of
section 5. The endpoint at the grain of its statements, the abstract queue and
its refinement, contents with a comparison of their own, and the proofs about
sessions, links, creates and reposts came second; the classification of steps,
and from it the proofs about voids, pending marks, the links' documents, tokens,
contents and crashes, came third; the agreement of the two sides, last.

Left, in this order.

1. Line items as state, once an update sends them: today only their sum at the
   create reaches QBO.
2. A property for the `failed` mark that an echo may erase, once a document
   says what the mark promises.
3. What holds of agreement with two workers, once `DESIGN.md:245` says in which
   order the jobs of one invoice run.

### Not modelled, and why

- `api_logs` and the older rows of `invoice_history`: append-only, read by
  nothing in the program.
- The durations of `_backoff`, the poll interval, request timeouts and clocks:
  no property speaks of time; a backoff that ends and a request that fails are
  events.
- Line items beyond their sum at a create, customers, providers and reference
  tables, but as said in section 2: nothing the properties speak of branches on
  them.
- A non-numeric SyncToken and an unknown operation: QBO and the endpoint do not
  produce them.
- Field validation of the schemas, logging, configuration: pure input and
  output. Migrations and the seed script: run once, by an operator, with the
  service stopped.
