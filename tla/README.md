# TLA+ models of tax-ocr

tax-ocr turns documents that customers upload (photos, PDFs, archives) into
classified invoices: a queue worker reads each file with two OCR engines, decides
the invoice, classifies its items, and hands what is uncertain to freelance
reviewers over LINE. The backend is one Go process (HTTP server, five queue
workers, background goroutines) over PostgreSQL, Redis (asynq) and MinIO. Almost
no handler opens a transaction and most errors in the background are dropped, so
the interesting questions are about *interleaved SQL statements*, *retries*,
*crashes* and *dropped errors*. The repository has no tests.

Paths below are relative to `src/backend/internal/` unless they begin with `src/`.

## 1. Inventory

| Component | State | Operations | Interacts with | Hard part | Correct when |
|---|---|---|---|---|---|
| Upload handlers (`api/document_handler.go`) | `document_imports`, `invoices` | uploadDocument, uploadZip, uploadFromLink | store, MinIO, asynq | row first, enqueue second; skipped files | no pending invoice is forgotten |
| Worker (`queue/worker.go`) | locals of a run; everything it writes | handleProcessInvoice | store, OCR, classification, dispatch | 5 goroutines, retries, errors dropped | decides each invoice once, items once, one original per vendor and number |
| Invoice store (`db/invoice_store.go`, migrations 006, 007, 029, 032) | `invoices`, `invoice_items` | create, update, find duplicate, verify, delete | everybody | CHECK and unique index refuse writes whose error is ignored | index and lookup agree |
| Invoice handlers (`api/invoice_handler.go`) | - | verify, reprocess, edit, delete, create | store, asynq | several statements each, beside the worker | what was confirmed is what is verified |
| Review queue (`db/hitl_store.go`) | `hitl_queue` | create, resolve, reject | worker, dispatch | cascades when items are deleted | an uncertain item without an entry has a named cause |
| Reviewer dispatch (`reviewer/service.go`, `db/reviewer_store.go`, `db/reward_store.go`) | `reviewers`, `reviewer_tasks`, `reward_config` | assign, expire, accept, complete | worker, LINE | checker, workers and reviewers race; list in memory | one holder per entry, paid once, nobody forgotten |
| Classification (`classify/service.go`, `db/rules_store.go`) | `classification_rules` | ClassifyWithDB, rule handlers | worker, OpenAI | AI answers become rules | learning never overrules a person; what is learned is repeated |
| OCR (`ocr/`) | configuration in memory | Extract, CrossVerify, UpdateConfig | worker, admin | reload while extracting; one engine fails | one extraction, one configuration |
| OCR configuration (`api/ocr_handler.go`) | `ocr_config` | save, reload, test | OCR service | save and reload are two steps | the service runs what the table enables |
| Archive (`archive/scheduler.go`, `db/archive_store.go`) | `archive_policies`, `archive_logs` | hourly round, restore | invoices | query or status refused; restored again archived | an old invoice is logged, and once per process |
| LINE webhook (`api/line_webhook.go`, `db/conversation_store.go`) | `conversations`, `messages` | one goroutine per event | LINE, uploads | find-or-create races, order | texts are kept and move forward |
| Vendors (`db/vendor_store.go`) | `vendors` | upsert by OCR, verify | worker, admin | upsert against verification | OCR never overwrites a verified vendor |
| Tenants and users (`db/tenant_store.go`) | `tenants`, `branches`, `users` | suspend, delete, restore | auth | an administrator may lock everybody out | no row refers to a deleted one |
| Setup and login (`api/auth_handler.go`) | tokens | setup, login, refresh, checkTenantStatus | tenants | setup races, stops halfway | one founder; no access after suspension or deactivation |
| Audit log (`api/audit_middleware.go`) | `audit_logs` | handler, background write | every write handler | written late, after a deletion | entries name users that exist |
| Rate limiter (`api/ratelimit.go`) | counters in memory | allow, cleanup | router | window boundary | at most twice the limit in any stretch of a window's length |
| Migrations (`db/migrate.go`) | `schema_migrations` | run, stamp | start of the process | two processes, a crash | each file applied once, in order, before serving |
| Admin client (`src/frontend/admin`) | tokens, queue of requests | refresh, logout | handlers | concurrent 401s | no request is stranded |
| LIFF client (`src/frontend/liff`) | selected branch | upload, status | handlers | - | - |

What is hard to test, line by line, is the list `hazards` of `PROJECT.json`, with
the properties that cover each entry or the reason why none does.

## 2. Modules

```
InvoicePipeline ── MCInvoicePipeline        ReviewerDispatch ── MCReviewerDispatch
      ├── InvoicePipelineProofs                  ├── ReviewerDispatchProofs
      └── InvoiceRegistry (INSTANCE)             └── ReviewTaskContract (INSTANCE)

TenantAccess ── MCTenantAccess              LineConversation ┐   (Proofs)
      └── TenantAccessProofs                Classification   │   (ServicesProofs)
                                            OcrEngines       │   (Proofs, MCOcrEngines)
                                            VendorRegistry   │   (Proofs)
                                            ArchiveLogs      ├── MCServices  (ServicesProofs)
                                            RateLimiter      │   (ServicesProofs)
                                            Migrations       │   (Proofs)
                                            AdminClient      ┘   (ServicesProofs)
```

`(Proofs)` marks a module whose theorems are in the module of its name with `Proofs`
behind it; `ServicesProofs` holds those of the four modules marked so.

### InvoicePipeline: from upload to decided invoice

A step is one SQL statement with the computation that follows it: PostgreSQL runs
a statement atomically, and none of these handlers opens a transaction.

| State | Code |
|---|---|
| `table` | `invoices`: status, vendor and number (what the unique index looks at), `duplicate_of`, where the amounts come from (`zero`, `ocr`, `human`), whether a human verified it |
| `items` | `invoice_items`, each with what became of its `hitl_queue` entry |
| `imports` | `document_imports.status` |
| `upload` | locals of an upload handler: files left, the file whose row exists and whose task does not |
| `task` | asynq tasks in Redis and their retry count |
| `run` | locals of `handleProcessInvoice` and the statement it is at |
| `request` | locals of a running `verifyInvoice` or `reprocessInvoice` |
| `excuse`, `unclean` | history variables, read by properties only |

| Actions | Code |
|---|---|
| `StartImport`, `CreateInvoice`, `SkipFile`, `EnqueueFile` | `api/document_handler.go:74-395` |
| `StartTask`, `Retried`, `Crash` | asynq as the worker is configured (`queue/worker.go:38-74`) |
| `ExtractFails`, `Extract`, `LookupDuplicate`, `WriteInvoice`, `ClearItems`, `SaveItem`, `QueueReview`, `FinishTask` | `queue/worker.go:220-407`, in this order |
| `ReadForVerify`, `UpdateInvoiceAmounts`, `VerifyInvoice`, `VerifyFails` | `api/invoice_handler.go:157-211` |
| `ResetForReprocess`, `EnqueueReprocess` | `api/invoice_handler.go:231-258` |
| `EditInvoice`, `DeleteInvoice`, `CreateByHand` | `api/invoice_handler.go:88-155, 260-304` |

The constraints of migrations 006 and 029 are `Admitted`; every update goes
through `Updated`, which leaves the table alone when the database refuses the row.
The status `invalid` is computed by `OcrStatus` and refused there, as in the code.

`AutoSpec` leaves out the handlers that change vendor and number by hand; `Spec` has
all actions. Where a property holds of `AutoSpec` only, it is because an
administrator may edit or delete an original that duplicates point at.

`InvoiceRegistry` is the abstract specification of the detection of duplicates: an invoice
is registered under its vendor and number once, in one step that also settles its
original for good - itself when nobody holds the key, the holder otherwise. The code does
this in two statements of runs that interleave, and repeats it after every retry.
`KeepsRegistry` is the refinement (of `AutoSpec`, when OCR reads a file always the same): an
invoice is registered when its row has a vendor and a number, and its original is the row
`duplicate_of` names or, without one, itself.

### ReviewerDispatch: from review entry to paid reviewer

| State | Code |
|---|---|
| `hitl`, `reviewers`, `tasks`, `rewards` | the tables `hitl_queue`, `reviewers`, `reviewer_tasks`, `reward_config` |
| `made` | how many tasks exist; a task's number stands for its `sent_at` |
| `assign` | locals of each running `AssignForHitl`: workers and the checker |
| `left` | the slice `expired` of `expireAndReassign` |
| `tx` | running transactions of `CompleteReviewerTask`, with their row locks |
| `excuse`, `late` | history variables |

| Actions | Code |
|---|---|
| `CreateHitlItem`, `GetRewardAmounts`, `NextReviewerRoundRobin`, `CreateReviewerTaskWithExpiry` | `reviewer/service.go:45-79` and the store functions of these names |
| `Overdue`, `ExpireOldTasks`, `LookAtExpired` | time, `db/reviewer_store.go:175-197`, `reviewer/service.go:97-118` |
| `AcceptReviewerTask`, `MarkCompleted`, `CreditReviewer`, `Commit`, `Rollback` | `db/reviewer_store.go:199-245` |
| `ResolveHitlItem`, `DeleteEntry`, `CreateReviewer`, `UpdateReviewer`, `UpdateRewardConfig`, `Crash` | `db/hitl_store.go`, the cascade of migration 017, `db/reviewer_store.go:46-85`, `db/reward_store.go:43-58` |

A transaction takes effect at its commit and holds its row locks until then;
statements that need a locked row wait. Every reason the worker gives has exactly
one task type, so the loop over task types of `AssignForHitl` runs once; the default
branch of `taskTypesForReason` cannot be reached from the worker. Errors of the push
over LINE change no state.

`ReviewTaskContract` is the abstract specification: what a reviewer is promised about
a task. A task has one holder and one reward for life, ends once, an accepted task is
never taken away, and the earnings rise by the reward in the step that completes it.
`KeepsContract` is the refinement, with the rows of `reviewer_tasks` as the mapping.

### TenantAccess: who may act

Tenants are identified by their tax number, which is unique; users by the identifier
their row will have, with the tenant it belongs to (`Home`), because no statement changes
it. The status `open` stands for `active` and `inactive`: the code tests for
`suspended` only. A token is a signed value with no record on the server; `tokens` holds
those somebody has and the clock has not ended, and `parseToken` accepts both kinds in
front of every handler.

| State | Code |
|---|---|
| `tenants`, `users` | the tables, reduced to status, trash and existence |
| `cited`, `held` | users and tenants that `audit_logs` or `document_imports` refer to, by a foreign key without a cascade; an upload names both in its form, and they need not belong together |
| `tokens` | unexpired JWTs |
| `req` | each request the server works on: setup, login or refresh, LINE login, a handler, the audit entry behind it |
| `founders` | history: who was created by setup |

| Actions | Code |
|---|---|
| `HasAnyUser`, `SetupTenant`, `SetupUser`, `SetupFails` | `setup` of `api/auth_handler.go`: three statements |
| `Login`, `Refresh`, `IssueToken`, `RefuseSuspended`, `LineLogin`, `LineLoginNew`, `CreateLineUser`, `Expire` | `login`, `refresh`, `lineLogin` |
| `CheckTenantStatus` | `authMiddleware` and `checkTenantStatus` |
| `CreateTenant` ... `PermanentDeleteTenant`, `CreateUser`, `UpdateUser`, `DeleteUser`, `UploadDocument`, `ReadOrRefuse` | the handlers and their statements in `db/tenant_store.go` |
| `WriteAudit`, `Crash` | the goroutine of `api/audit_middleware.go`; the end of the process |

An error of `GetTenant` passes the check, so a failing read (`"read"` in `Faults`) opens a
suspended tenant for one request; `LockedOut` is stated for a database that answers.
When the identifiers of a tenant are used up the insert fails, as it may at any time.

### The services around the pipeline

Eight components that meet the pipeline and each other only in a call or in a column
nobody else writes. Each is a module with its own variables and specification.

| Module | State and actors | Code |
|---|---|---|
| `LineConversation` | a goroutine per LINE event at its statement, `users` by the event that inserted them, `conversations` by age, an active branch or none; administrators who change accounts and branches, a crash | `api/line_webhook.go`, `db/conversation_store.go`, `GetOrCreateLiffUser` |
| `Classification` | `classification_rules` of one tenant by age, classifications in progress; people who create, change, delete and test rules | `classify/service.go`, `db/rules_store.go`, `api/rules_handler.go` |
| `OcrEngines` | `ocr_config`, the engines in memory, requests that save and then reload, a read that fails or is cut off (`rows.Err` is not asked, so it counts as a shorter table), extractions, a restart | `api/ocr_handler.go`, `ocr/service.go`, `cmd/main.go:66-135` |
| `VendorRegistry` | `vendors`, the tax number and the link of an invoice, runs of the worker between the three statements; people who make invoices with a number or without one, verify and correct | `db/vendor_store.go`, `queue/worker.go:295-309`, `api/invoice_handler.go:260-304` |
| `ArchiveLogs` | `archive_logs`, which invoices are old, the hourly pass of each process, `default_query_exec_mode` of the connection; a person who restores | `archive/scheduler.go`, `db/archive_store.go` |
| `RateLimiter` | a clock, the entry of each key, the clean-up | `api/ratelimit.go` |
| `Migrations` | what is in effect, what is recorded, processes of two versions | `db/migrate.go`, `cmd/migrate/main.go` |
| `AdminClient` | the storage of the browser, the calls, the queue behind a refresh | `src/frontend/admin/src/api/client.js`, `context/AuthContext.jsx` |

`AtStart`, `SetBranches`, `AgesChange` and the like are the other side of an interface: the
environment, people, time. `earlier` and `passedOver` (`LineConversation`: the inactive accounts of
its sender when an event looked for one), `stray` and `ran` (`OcrEngines`),
`cause` and `alone` (`VendorRegistry`), `learned` (`Classification`: the answer has become a rule
and no rule was written since) and `allowed` are history, for the properties.

`MCServices` checks all eight in one run. They share no variable, so their product would
only multiply states: the initial state chooses in `focus` which of them moves. Some are
seen in scenes, each a part of the instance: texts after a follow, or an image with a
login (LINE); two saves, or a save and an extraction (OCR); two tax numbers, or one with
two names (vendors). `ServicesSpec` carries over the fairness of `ClientSpec`; that of `ArchiveSpec` is used by
`doc_archive_query` alone, which is about that module.

## 3. Runs

| Run | Instance | Shows |
|---|---|---|
| `pipe_duplicates` | 2 files of a zip that are the same document, 2 tasks, 1 retry, 1 verifying administrator | `DuplicatesPointAtOriginals`, `DuplicatesAwaitAHuman`, `OriginalNeverDemoted`, `KeepsRegistry` |
| `pipe_rerun` | 1 file with 2 items read differently each time, 2 tasks, 1 retry, 1 reprocess | `TypeOK`, `RepeatedItemsOnlyIfUnclean`, `UnqueuedItemsHaveATask` |
| `pipe_live` | 1 file, or 1 invoice by hand instead, failing statements, 2 tasks, 1 retry, all handlers | `PendingIsAccountedFor`, `EventuallyDecided` |
| `dispatch_safety` | 2 entries, 1 reviewer, 1 worker, the checker, 2 clients and 2 amounts of reward up to 2 tasks; a third task while all rewards are the same and one client completes at a time | `TypeOK`, `OneTaskAtATime`, `AtMostOneTaskAfterResolve`, `EntriesAccountedFor`, `EarningsMatchTasks`, `KeepsContract` |
| `dispatch_live` | 1 entry, 2 reviewers, failing statements, 3 tasks | `UnansweredTasksMoveOn` |
| `access` | in three scenes: one tenant, two users, two requests (setup); one tenant with its trash, one user, two requests (deletion for good); two tenants with a user each, one request (acting on another tenant); failing writes | `TypeOK`, `OneFounderPerTenant`, `ReferencesResolve`, `LockedOutForGood`, `DeactivatedLosesAccess` |
| `services` | LINE: 5 events of one user; rules: 2 classifications, 2 rules, 2 keywords; OCR: 2 saves, 1 extraction; vendors: 2 runs, 2 tax numbers, 2 names; archive: 2 processes, 3 logs, a connection string that lets the query through; limiter: limit 2, window 2, 8 moments; migrations: 2 versions, 3 files; client: 3 calls, 3 tokens | the properties of each module, see below |
| `doc_invalid_lost`, `doc_verify_atomic`, `doc_next_person`, `doc_db_priority`, `doc_archive_query` | smallest that shows it | a sentence of the repository that the code does not keep |

What `services` says of each component:

| Component | Property | In words |
|---|---|---|
| LINE | `SecondAccountOnlyByRaceOrReturn`, `SecondConversationOnlyByRaceOrBlind` | find-or-create without a unique key doubles a row only when events overlap, when an account that was inactive during the lookup is activated again, or when a lookup of a conversation fails |
| LINE | `TextsAreKept` | a text is lost only by a failure of its own event, with the process, or without branch and conversation |
| LINE | `TextsMoveForward` | doubled conversations never make texts jump back to an older one |
| Rules | `LearningOnlyAdds` | no answer of the AI changes a rule that is there |
| Rules | `LearnedAnswerRepeats` | a learned answer is given again to the next item like it until a rule is written |
| OCR | `RunningMatchesTable`, `OneConfigPerExtraction` | what runs is what the table enables, up to named causes; an extraction never mixes two configurations |
| Vendors | `VerifiedInfoStands`, `LinkFollowsTaxNumber` | OCR never overwrites a verified vendor; link and tax number part only by named causes, a number given by hand among them, and meet again after each clean run |
| Archive | `OneOpenLogPerProcess` | only two processes can log an invoice twice |
| Limiter | `AtMostTwiceTheLimit` | the boundary of two windows lets through twice the limit and never more |
| Migrations | `FilesTakeEffectInOrder`, `ServesOnItsSchema` | once and in order, and nobody serves before its files are in effect |
| Client | `QueueHasItsRefresh`, `EveryCallSettles` | nobody waits for a refresh that is not there; every call ends |

**Bounds and why they are enough.** Duplicates are a matter of pairs: two invoices and
one key give every order of two lookups and two writes, and a third invoice only
repeats the second's role. Two tasks give two concurrent runs of one invoice, which is
what a reprocess adds. `Tasks` bounds the number of enqueues, `MaxRetry` the retries
(asynq's default of 25 repeats the second attempt), `NumItems` the items of a document:
two, so that a run can be cut between them. In the dispatch, two clients can complete one task at once
and a reward can differ between the sending and the completion (with two tasks); three tasks let an entry
be given, expire, be given again and expire again while another entry holds one; at
`MaxTasks` the insert fails, which the code treats like any failing insert. Amounts and
dates matter only as *whose* they are. A setup that races
needs two requests and two users of one tenant; a lock-out needs a second tenant to be
locked out as well. A find-or-create race needs two events, and one more event to find
the doubled rows. In the services two actors of each kind give every order of their
steps; three logs are archive, restore, archive; a horizon of seven moments holds three
windows of length two; three files let a version stop between two and the next go on;
of three calls one refreshes, one waits and one comes too late, and three tokens are the
first, its renewal, and the renewal after that expired. `MaxRules`, `MaxLogs`,
`MaxTokens`, `MaxByHand` and `Horizon` are bounds of the models. Symmetry is used in safety
runs only, over identifiers no definition distinguishes. `CHECK_DEADLOCK FALSE` everywhere: when all
files are uploaded and all requests served, the system really rests.

**Fairness.** `EnqueueFile`, `WorkerStep` and `RequestStep` are weakly fair: a handler
that began goes on, asynq delivers what is queued, and a worker's statements return.
Nothing is assumed of administrators, uploads or crashes. In the dispatch, the ticker of
`RunExpiryChecker` justifies weak fairness of the checker's steps; `ExpireOldTasks` is
strongly fair because it may have to wait for a locked row again and again, and
PostgreSQL serves waiters in turn; a transaction ends by commit or rollback.
`TenantAccess`: a request that has arrived is served to its end and tokens expire;
`DeactivatedLosesAccess` needs both. `ArchiveLogs`: the ticker starts passes for ever, and a
statement tried every hour does not fail every time (strong fairness of the SELECT, when the
driver sends it at all, and of the INSERT); `OldInvoicesAreArchived` is violated in spite of it. `AdminClient`: the server answers or the connection breaks; axios has no
timeout, so without this a call could hang for ever.

**Causes.** `PendingIsAccountedFor`, `EntriesAccountedFor` and the liveness properties
hold up to causes recorded in `excuse`, because the code has no recovery for them: a
lost enqueue, a refused or failed write, exhausted retries, an invoice made by hand; no
reviewer, a failed insert, a failed read, a crash of the checker. The properties say
that *nothing else* can strand an invoice or an entry.

### What the repository says and the code does not do

1. `doc_invalid_lost`: the status `invalid` of `queue/worker.go:269` is not one the CHECK
   of migration 006 admits. The update is refused as a whole, its error dropped: the
   document is reported as done and its invoice stays pending with no data.
2. `doc_verify_atomic`: "atomic: confirm + verify in one step"
   (`api/invoice_handler.go:178`) is two statements; a worker's write between them ends
   up verified.
3. `doc_next_person`: "if not accepted in X minutes, to the next person"
   (`src/tax-ocr-overview.md:294`): the round robin may pick the one who let it expire.
4. `doc_db_priority`: "DB takes priority over env vars" (`src/backend/cmd/main.go:66`): when no
   row of `ocr_config` is enabled with a key, the keys of the environment stay; an engine
   that was disabled runs again after a restart.
5. `doc_archive_query`: "returns invoice IDs whose created_at is older than activeDays and have
   not yet been archived" (`db/archive_store.go:110`). The query makes its second parameter a text
   (`$2 || ' days'`) and is given a Go int. pgx v5 refuses to encode that when it has the query
   described first, as it does by default, and the connection strings of
   `src/backend/cmd/main.go:24` and `src/infrastructure/.env.example:14` do not say otherwise: every
   pass fails and nothing is archived. With `default_query_exec_mode=simple_protocol` the query
   works; `OneOpenLogPerProcess` and the rest of the module are about that case too.

Seen while modelling, stated here and not as a run: the import of a zip is done after
its first file; a reprocess beside a first run may leave items twice and, when the
lookup of one falls before the write of the other, a duplicate verified without a
human; `archived` (invoices) and `rejected` (review entries) are statuses no migration
admits, so those two updates never succeed; two concurrent assignments may pick the
same reviewer; `archived` being refused, every archived invoice still shows its old status;
a logout while a refresh is under way puts a token back into the storage
(`client.js:52`); the rule test answers an error of the lookup as a match
(`api/rules_handler.go:143`); a LINE user whose account was deactivated gets a new one with
the next event, and two active ones when the first is activated again; a setup that stops after the tenant can only be repeated with another tax
number.

## 4. Proofs

TLC checks the instances above; the theorems hold for every value of the constants
that meets the assumptions of the module (`PipelineAssumption`, `DispatchAssumption`,
`AccessAssumption` and so on, which TLC evaluates in the runs). They only say what kind
of value each constant is, and that the placeholders (`Empty`, `NoInvoice`, `Nobody`...) are none of the real values.

`InvoicePipelineProofs`

- `TypeCorrect`: `TypeOK` is inductive as it stands. Besides types it says that a task or
  request in progress has an invoice and that a run at an item is at one that exists,
  without which the steps could write outside their tables.
- `OneOriginalPerKey` and the lemma `OriginalsUnique` are what the unique index gives, and no
  result of their own: the lookup proves nothing (another run may write in between), every
  write goes through `Updated`, and the index refuses the rest. The proofs below use it.
- `PendingAccounted`: `PendingIsAccountedFor` is inductive together with `TypeOK`. Each way
  to become pending has a successor that takes over responsibility (handler, then task),
  and each way to lose it records a cause; `WorkerAccounts`, `OthersAccount` and
  `CrashAccounts` show it for the three kinds of step.
- `ItemsOnce`, `ReviewsAreQueued`: the properties speak of the items alone, and need to know
  where the runs are. `OncePerLine` says of a clean invoice that at most one run is in its
  item loop and that this run is past every line there is an item of; `NeededWillQueue` that
  the task of an item that needs a human is queued again, given up, before its delete, or
  about to queue that very item. `OneMoreItem` and `ItemsStay` are the two kinds of step.
- `DuplicatesHaveOriginals`, `OriginalsStay` (of `AutoSpec`, under `StableReadings`): the lookup
  and the write are two statements, so `FoundIsOriginal` says that what a run found is still an
  original, another one, with the key the run read. That needs `RowsAreRead` (the key of a row
  is the one OCR reads of its file, or none yet) and `FilesAreNew` (no row is inserted
  twice). Then a write cannot demote: the row would be an original with the key of the
  original found, against `OneOriginalPerKey`. The theorems allow failing statements and
  reprocessing, which the run `pipe_duplicates` leaves out.
- `ImplementsRegistry`, on the same terms: only `WriteInvoice` is a step of the registry
  (`RegistryStep`: every other step is `Quiet` about the rows). `WriteRegisters` goes through
  its cases. A row with a key keeps it and its original, since a later lookup can only
  find the same one (`OneOriginalPerKey`). A row without a key that gets one is
  registered as a duplicate of the holder the lookup found (`FoundIsOriginal`), or, when
  the lookup found none or failed, as an original, and then the unique index has made
  sure that nobody holds the key (`HoldersAreOriginals`).
- `HumansDecideDuplicates` needs more, as the property says: no failing lookup and no
  reprocessing. `OneTaskEach` says that an invoice then has one task, `LookupStands` that what
  the run found agrees with the row when it writes: with a duplicate noted in the row
  the lookup finds its original, because nothing demoted it.

`ReviewerDispatchProofs`

- `TypeCorrect`: `TypeOK` is inductive as it stands. Its parts `Sent`, `Assigns` and
  `Completes` say that rows, calls and transactions refer to things that exist.
- `OneTaskPerEntry`: `OneTaskAtATime` says nothing of calls and of the checker's list, so it is
  not inductive. `OneOwner` is: a task that can still be completed, a call of
  `AssignForHitl` and an expired task on the list exclude each other for one entry, and
  each step passes the entry on from one to the next (`OneOwnerAssign`,
  `OneOwnerExpire`) or only lets owners go (`FewerOwners`). `AbsentUnowned` adds that nobody
  has an entry before it exists.
- `OneLateTask`: `LateIsLast` strengthens the bound: when a task was sent too late, the entry
  is not open any more and no call has it. `OneOwner` gives that the call that
  sent it was the only one, and no step opens an entry again.
- `NoEntryForgotten`: inductive with the types alone, entry by entry (`Accounted`).
- `EarningsAreTasks`: the sum in `EarningsMatchTasks` is a fold of the community modules.
  `Adds` describes what such a fold computes by a function over the subsets; `AddsUnique`,
  `WorthRecursive` and `WorthWithout` give, by the least counterexample in the order of
  strict subsets, that one more task adds its reward to the sum. With `LocksHeld` and the
  types the equation is inductive: the commit completes a task that was not completed before, because
  the lock kept it so, and pays for it; no other step completes a task, changes the
  reward of one that is, or pays (`EarnedStays`).
- `ImplementsContract`: `LocksHeld`, the invariant of the row locks (the task of a running
  transaction can still be completed and no other transaction is about it), makes the
  commit a step `Complete` of the contract; `LocksStep` shows that every statement that could
  end a task waits for the lock. `ContractStep` maps the other steps: the insert to
  `Send`, the checker's UPDATE to `Expire`, the cascade to `Drop`, the rest to stuttering.

`TenantAccessProofs`

- `TypeCorrect`: inductive as it stands; that a request past its lookup has a user or a tenant
  is what the later statements need.
- `ReferencesAlwaysResolve`: `ReferencesResolve` with the types is inductive: the foreign keys
  refuse what would break it, the cascade takes users along with their tenant, and
  `Removable` keeps the tenant of whoever is referred to, and a tenant that is referred to itself
  (`held`), which an upload may do for another tenant than its author's.
- `OneFounder`: the history variable alone is not inductive. `SetupOnce` adds that a request
  about to insert the founder of a tenant is the one that inserted the tenant and that no
  other request, and no founder, is about the same tenant (`NotPending`, `Finished`,
  `NeverAbsent`).
- `LockedOutStays`: `LockedOut` is preserved by every step (an action property):
  every action that could lift it needs a request past the check.

`LineConversationProofs`

- `TextsOnlyForward`: the invariant `Inv` relates each event to the conversations it can have
  seen: an event that began after another was over finds no conversation older than the
  one that other used, because the lookup takes the newest and conversations only grow.
  `MovesForward` says so from the moment the later event has its conversation.
- `AccountsOnlyByRaceOrReturn`, `ConversationsOnlyByRace`, `TextsStay`: `Effect` says what a step of one
  event can do to the rows of its sender, each action has a lemma that it does no more, and
  `FirstsInv` is kept by every `Effect`: an event about to insert an account has passed over
  every account of an event over before it began, because it was inactive (`Accounts`), one about to insert a conversation either
  has seen none from such an event or looked in vain because its lookup failed (`Rows`, `Unseen`),
  and whoever made a conversation has begun (`MadeByBegun`), so that it cannot be one that
  begins only now.

`MigrationsProofs`

- `FilesOnceInOrder`, `ServesMigrated`: `RecordIsTheSchema` says that without a database set up
  by hand the record is exactly what is in effect, an initial segment of the files, and
  `Behind` that a process at file n has everything before n in the record; the primary key of the record decides
  between two processes at one file.

`ServicesProofs`

- `LearnedIsRepeated` (`Classification`), by `LearnedInv`: while `learned` is set, the rule the
  answer became is the newest one, and the newest one decides whenever it matches
  (`NewestDecides`). `LearningKeepsRules` is an action property with the types.
- `LoggedOncePerProcess` (`ArchiveLogs`), by `TodoInv`: what a process still has to log has no open
  log of that process, because its SELECT saw none and it has one pass at a time.
- `LoginsAreLimited` (`RateLimiter`), by `KeyInv`: the last requests that got through, as many as
  the counter says, lie in the window that ends at `reset`, and as many as the limit
  before those lie before it (`InWindow`; `Outdated` says the same of a key with an old window
  or none). Hence two requests that are twice the limit apart in the order they got through are
  more than a window apart in time (`FarApart`), and no stretch holds more (`FewInAStretch`).
- `QueueIsServed` (`AdminClient`): `QueueInv` says the same without a cardinality: the flag is set
  exactly when some call refreshes, two calls that refresh are one, and the queue is the
  set of calls that wait.

`OcrEnginesProofs`

- `RunsTheTable`: `SaveIsFresh` says that a save that read the table and is still alone carries
  what the table enables now, if it read the table to its end.
- `ExtractsWithOneConfig`, by `UsesOne`: the engines are taken in one section under the lock, so the keys
  used are those of one configuration among those that ran meanwhile.

`VendorRegistryProofs`

- `LinkFollows`: `AloneIsAlone` and `Halfway` follow a run that is alone through its statements: after the link the
  invoice points where the run will write the tax number.
- `VerifiedStands`: an action property: `UpsertedVendor` leaves a verified row, and a verified
  row is known (`VerifiedIsKnown`), so whoever changes it is `VerifyVendor`.

Where a proof needs induction over data (`Smallest`, `Largest`, the sums of the dispatch) it
takes the least counterexample from `WFMin` in a well-founded order, numbers or strict subsets
of a finite set, which the library proves without an operator for a parameter.

Only model-checked: liveness, which needs fairness (`EventuallyDecided`,
`UnansweredTasksMoveOn`, `DeactivatedLosesAccess`, `EveryCallSettles`). Every other property of a passing run has a theorem. The type invariants
of the eight services are theorems only; those of the other three modules are checked too.
Counterexamples to the five sentences quoted above are TLC's.

## 5. Not modelled, and abstractions

- In the pipeline OCR and classification are free choices of outcome (reading, match, buyer
  check, sure or unsure): its properties hold for any answer. Their own modules say what
  the configuration and the rules do to that answer.
- The comparison of two readings (`ocr/crossverify.go`), the parsing of what OpenAI and Google
  Vision send (`ocr/gpt.go`, `ocr/vision.go`) and the scanned company documents
  (`ocr/company.go`) are functions of one answer with no state.
- `VendorRegistry` has no deletion of an invoice, which takes the link and the number away together;
  no statement deletes a vendor.
- `VendorRegistry` is not composed with `InvoicePipeline`: the three vendor statements of a run
  are modelled there, the order around them is that of the worker.
- Notifications, pushes over LINE and columns no property looks at are left out of a step.
- asynq starting a task again while its first run still goes on after its lease: two
  runs of one invoice are covered by reprocessing.
- An enqueue whose answer is lost counts as failed or as done.
- A crash stops the whole process, as in the code's single binary; an attempt cut by a
  crash counts as one of asynq's retries.
- `InvoicePipeline` and `ReviewerDispatch` meet in `CreateHitlItem`: the first ends when the
  entry is queued, the second begins there and receives deletions of items as `DeleteEntry`.
- Storage configuration: one row per tenant, written and read back whole, used by nothing.
- The LIFF application and the pages of the admin application: forms over the handlers.
- Containers and the Makefile: deployment.
- Components with status `not_modelled` or the rest of a `partly` one in `PROJECT.json`, where
  the note says what is missing.

## 6. What could follow

1. Abstract specifications of the services, with refinement proofs, as `InvoiceRegistry` is
   for the pipeline and `ReviewTaskContract` for the dispatch.
2. The agreement of two readings (`crossverify.go`) as an operator over small inputs.
3. `VendorRegistry` composed with the pipeline, so that duplicates and vendor links are seen
   in one run.
