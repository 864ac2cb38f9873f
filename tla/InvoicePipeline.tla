-------------------------- MODULE InvoicePipeline --------------------------
(***************************************************************************)
(* From the upload of a document to the decided invoice: the HTTP handlers *)
(* that create document imports and invoices, the asynq queue between them *)
(* and the worker, every database statement of handleProcessInvoice, and   *)
(* the handlers an administrator uses on an invoice meanwhile (verify,     *)
(* reprocess, edit, delete, create by hand).                               *)
(*                                                                         *)
(* A step is one SQL statement (PostgreSQL runs each one atomically, no    *)
(* handler here opens a transaction) with the local computation after it.  *)
(* One tenant: every query and the unique index are scoped to the tenant.  *)
(***************************************************************************)
EXTENDS Integers, FiniteSets

CONSTANTS
  Invoices,    \* the identifiers the invoices table may hand out
  Documents,   \* the identifiers of document imports
  DocOf,       \* the import an invoice is a file of; NoDocument: made by hand
  NoDocument,
  Vendors,     \* vendor tax numbers
  DocNos,      \* the vendors' own invoice numbers
  Empty,       \* a field that is NULL in the row or unread by OCR
  Readings,    \* for each invoice, the <<vendor, number>> pairs OCR may read
  Tasks,       \* identifiers of asynq tasks: bounds the number of enqueues
  Verifiers,   \* verify requests of administrators that may run at once
  Reprocessors,\* reprocess requests of administrators that may run at once
  NumItems,    \* line items OCR finds on a document
  MaxRetry,    \* asynq's retry limit for a task
  BuyerChecks, \* the outcomes of validateBuyer to consider (FALSE: invalid)
  Faults,      \* whether a statement may fail on its own
  NoInvoice

ASSUME PipelineAssumption ==
  /\ DocOf \in [Invoices -> Documents \cup {NoDocument}]
  /\ NoDocument \notin Documents
  /\ NoInvoice \notin Invoices
  /\ Empty \notin Vendors \cup DocNos
  /\ Readings \in [Invoices -> SUBSET ((Vendors \cup {Empty}) \X (DocNos \cup {Empty}))]
  /\ NumItems \in Nat
  /\ MaxRetry \in Nat
  /\ BuyerChecks \subseteq BOOLEAN
  /\ Faults \in BOOLEAN

VARIABLES
  table,    \* the invoices table
  items,    \* the invoice_items table, with the review entry of each item
  imports,  \* document_imports.status
  upload,   \* the upload handler of each import: files left, file being added
  task,     \* the asynq tasks in Redis
  run,      \* the worker's local variables while it executes a task
  request,  \* the verify or reprocess request each administrator is running
  excuse,   \* history: what may have kept an invoice from being decided
  unclean   \* history: invoices whose items were not cleared exclusively

vars == <<table, items, imports, upload, task, run, request, excuse, unclean>>

Users == Verifiers \cup Reprocessors

-----------------------------------------------------------------------------
(* The invoices table and the constraints its migrations put on it.        *)

Statuses == {"pending", "verified", "conflict"}

Row == [status : Statuses \cup {"absent", "deleted"},
        vendor : Vendors \cup {Empty}, docNo : DocNos \cup {Empty},
        dup : Invoices \cup {NoInvoice},
        amounts : {"zero", "ocr", "human"}, byHuman : BOOLEAN]

NoRow == [status |-> "absent", vendor |-> Empty, docNo |-> Empty,
          dup |-> NoInvoice, amounts |-> "zero", byHuman |-> FALSE]

Exists(i) == table[i].status \in Statuses

HasKey(row) == row.vendor # Empty /\ row.docNo # Empty

SameKey(row, other) == row.vendor = other.vendor /\ row.docNo = other.docNo

\* Rows that the partial unique index uq_invoices_vendor_doc_no covers.
Original(i) == Exists(i) /\ HasKey(table[i]) /\ table[i].dup = NoInvoice

\* Variant with a bug: migration 029 creates no unique index.
AdmittedWithoutIndex(i, row) ==
  /\ row.status \in Statuses
  /\ row.dup # NoInvoice => Exists(row.dup)

\* The constraints of migrations 006 and 029 a new version of a row must meet.
Admitted(i, row) ==
  /\ row.status \in Statuses
  /\ row.dup # NoInvoice => Exists(row.dup)
  /\ (HasKey(row) /\ row.dup = NoInvoice) =>
       \A j \in Invoices \ {i} : ~(Original(j) /\ SameKey(table[j], row))

\* UPDATE ... WHERE id = i: the table when the statement is done.
Updated(i, row) ==
  IF Exists(i) /\ Admitted(i, row) THEN [table EXCEPT ![i] = row] ELSE table

Refused(i, row) == Exists(i) /\ ~Admitted(i, row)

\* The row UpdateInvoiceData asks for: amounts are always overwritten,
\* vendor and number only by a value, duplicate_of is never cleared.
UpdateInvoiceData(i, status, vendor, docNo, dup, amounts) ==
  [table[i] EXCEPT !.status  = status,
                   !.vendor  = IF vendor # Empty THEN vendor ELSE @,
                   !.docNo   = IF docNo # Empty THEN docNo ELSE @,
                   !.dup     = IF dup # NoInvoice THEN dup ELSE @,
                   !.amounts = amounts]

\* UpdateInvoiceData(InvoiceUpdate{Status: status}), every other field zero.
StatusOnly(i, status) ==
  UpdateInvoiceData(i, status, Empty, Empty, NoInvoice, "zero")

\* Variant with a bug: the query lacks "duplicate_of IS NULL".
FindAnyInvoice(i, vendor, docNo) ==
  {j \in Invoices \ {i} : /\ Exists(j)
                          /\ table[j].vendor = vendor
                          /\ table[j].docNo = docNo}

\* Variant with a bug: the query lacks "id <> $4".
FindDuplicateOrSelf(i, vendor, docNo) ==
  {j \in Invoices : /\ Original(j)
                    /\ table[j].vendor = vendor
                    /\ table[j].docNo = docNo}

FindDuplicateInvoice(i, vendor, docNo) ==
  {j \in Invoices \ {i} : /\ Original(j)
                          /\ table[j].vendor = vendor
                          /\ table[j].docNo = docNo}

\* task and try tell which run inserted the item.
Item == [inv : Invoices, task : Tasks, try : 0..MaxRetry, pos : 1..NumItems,
         review : {"none", "needed", "queued", "lost"}]

\* Variant with a bug: items under review are kept.
UnreviewedItemsOf(i) == {x \in items : x.inv = i /\ x.review = "none"}

ItemsOf(i) == {x \in items : x.inv = i}

-----------------------------------------------------------------------------
(* Local state of the handlers and of the worker.                          *)

NoUpload == [left |-> {}, adding |-> NoInvoice]

IdleRun == [pc |-> "idle", vendor |-> Empty, docNo |-> Empty, status |-> "none",
            matched |-> FALSE, dup |-> NoInvoice, next |-> 1]

IdleRequest == [pc |-> "idle", inv |-> NoInvoice, amounts |-> "zero"]

FreeTask == [st |-> "free", inv |-> NoInvoice, tries |-> 0]

FilesOf(d) == {i \in Invoices : DocOf[i] = d}

\* The causes that may leave an invoice pending.
Causes == {"notEnqueued", "writeLost", "exhausted", "byHand"}

Blame(i, cause) == [excuse EXCEPT ![i] = @ \cup {cause}]

Outstanding(t) == task[t].st \in {"queued", "active"}

Upload == [left : SUBSET Invoices, adding : Invoices \cup {NoInvoice}]

Task == [st : {"free", "queued", "active", "done", "archived"},
         inv : Invoices \cup {NoInvoice}, tries : 0..MaxRetry]

Run == [pc : {"idle", "extract", "lookup", "write", "clear", "item", "review", "finish"},
        vendor : Vendors \cup {Empty}, docNo : DocNos \cup {Empty},
        status : {"none", "verified", "conflict", "invalid"},
        matched : BOOLEAN, dup : Invoices \cup {NoInvoice}, next : 1..(NumItems + 1)]

Request == [pc : {"idle", "amounts", "verify", "enqueue"},
            inv : Invoices \cup {NoInvoice}, amounts : {"zero", "ocr", "human"}]

\* A task and a request in progress are about an invoice, and the item a run
\* is working on is one of the items of the document.
HasInvoice(t) == task[t].st # "free" => task[t].inv \in Invoices
Pursues(u) == request[u].pc # "idle" => request[u].inv \in Invoices
InBounds(t) == run[t].pc \in {"item", "review"} => run[t].next <= NumItems

TypeOK ==
  /\ table \in [Invoices -> Row]
  /\ items \subseteq Item
  /\ imports \in [Documents -> {"none", "pending", "done"}]
  /\ upload \in [Documents -> Upload]
  /\ task \in [Tasks -> Task]
  /\ run \in [Tasks -> Run]
  /\ \A t \in Tasks : HasInvoice(t) /\ InBounds(t)
  /\ request \in [Users -> Request]
  /\ \A u \in Users : Pursues(u)
  /\ excuse \in [Invoices -> SUBSET Causes]
  /\ unclean \subseteq Invoices

Init ==
  /\ table = [i \in Invoices |-> NoRow]
  /\ items = {}
  /\ imports = [d \in Documents |-> "none"]
  /\ upload = [d \in Documents |-> NoUpload]
  /\ task = [t \in Tasks |-> FreeTask]
  /\ run = [t \in Tasks |-> IdleRun]
  /\ request = [u \in Users |-> IdleRequest]
  /\ excuse = [i \in Invoices |-> {}]
  /\ unclean = {}

-----------------------------------------------------------------------------
(* Upload handlers: one import row, then an invoice row and a task for     *)
(* each file. uploadDocument has one file, uploadZip several.              *)

StartImport(d) ==
  /\ imports[d] = "none"
  /\ imports' = [imports EXCEPT ![d] = "pending"]
  /\ upload' = [upload EXCEPT ![d].left = FilesOf(d)]
  /\ UNCHANGED <<table, items, task, run, request, excuse, unclean>>

CreateInvoice(d, i) ==
  /\ upload[d].adding = NoInvoice
  /\ i \in upload[d].left
  /\ table' = [table EXCEPT ![i] = [NoRow EXCEPT !.status = "pending"]]
  /\ upload' = [upload EXCEPT ![d] = [left |-> @.left \ {i}, adding |-> i]]
  /\ UNCHANGED <<items, imports, task, run, request, excuse, unclean>>

\* The file cannot be opened or stored, or its row cannot be inserted.
SkipFile(d, i) ==
  /\ upload[d].adding = NoInvoice
  /\ i \in upload[d].left
  /\ upload' = [upload EXCEPT ![d].left = @ \ {i}]
  /\ UNCHANGED <<table, items, imports, task, run, request, excuse, unclean>>

EnqueueProcessInvoice(i) ==
  \E t \in Tasks : /\ task[t].st = "free"
                   /\ task' = [task EXCEPT ![t] = [st |-> "queued", inv |-> i, tries |-> 0]]

\* A failing enqueue is logged (upload) or ignored (zip): the handler goes on.
EnqueueFile(d) ==
  LET i == upload[d].adding IN
  /\ i # NoInvoice
  /\ \/ EnqueueProcessInvoice(i) /\ UNCHANGED excuse
     \/ UNCHANGED task /\ excuse' = Blame(i, "notEnqueued")
  /\ upload' = [upload EXCEPT ![d].adding = NoInvoice]
  /\ UNCHANGED <<table, items, imports, run, request, unclean>>

UploadStep(d) ==
  \/ StartImport(d)
  \/ \E i \in Invoices : CreateInvoice(d, i) \/ SkipFile(d, i)
  \/ EnqueueFile(d)

-----------------------------------------------------------------------------
(* The worker: asynq hands a queued task to a goroutine, which runs        *)
(* handleProcessInvoice.                                                   *)

At(t, pc) == task[t].st = "active" /\ run[t].pc = pc

Goto(t, pc) == run' = [run EXCEPT ![t].pc = pc]

StartTask(t) ==
  /\ task[t].st = "queued"
  /\ task' = [task EXCEPT ![t].st = "active"]
  /\ Goto(t, "extract")
  /\ UNCHANGED <<table, items, imports, upload, request, excuse, unclean>>

\* Variants with a bug: the task is acknowledged before it is processed; an
\* attempt that dies is not counted.
RetriedNever(t) == [task[t] EXCEPT !.st = "done"]
RetriedForever(t) == [task[t] EXCEPT !.st = "queued"]

\* asynq's answer to a run that returned an error or died: queue the task
\* again, or archive it when its retries are used up.
Retried(t) ==
  IF task[t].tries < MaxRetry
    THEN [task[t] EXCEPT !.st = "queued", !.tries = @ + 1]
    ELSE [task[t] EXCEPT !.st = "archived"]

\* The download or the OCR failed: the invoice becomes a conflict with every
\* amount zero (an error of that update is ignored), and asynq retries.
ExtractFails(t) ==
  LET i == task[t].inv IN
  /\ At(t, "extract")
  /\ \/ table' = Updated(i, StatusOnly(i, "conflict"))
     \/ Faults /\ UNCHANGED table
  /\ task' = [task EXCEPT ![t] = Retried(t)]
  /\ run' = [run EXCEPT ![t] = IdleRun]
  /\ excuse' = IF Retried(t).st = "archived" THEN Blame(i, "exhausted") ELSE excuse
  /\ UNCHANGED <<items, imports, upload, request, unclean>>

OcrStatus(matched, buyerOk) ==
  CASE ~buyerOk -> "invalid"
    [] buyerOk /\ matched -> "verified"
    [] OTHER -> "conflict"

Extract(t) ==
  /\ At(t, "extract")
  /\ \E reading \in Readings[task[t].inv], matched \in BOOLEAN, buyerOk \in BuyerChecks :
       run' = [run EXCEPT ![t] = [@ EXCEPT !.pc = "lookup",
                                           !.vendor = reading[1], !.docNo = reading[2],
                                           !.matched = matched,
                                           !.status = OcrStatus(matched, buyerOk)]]
  /\ UNCHANGED <<table, items, imports, upload, task, request, excuse, unclean>>

\* Variant with a bug: the duplicate is linked, the status stays that of OCR.
LookupDuplicateKeepsStatus(t) ==
  LET found == FindDuplicateInvoice(task[t].inv, run[t].vendor, run[t].docNo) IN
  /\ At(t, "lookup")
  /\ \/ \E j \in found : run' = [run EXCEPT ![t] = [@ EXCEPT !.pc = "write", !.dup = j]]
     \/ (found = {} \/ Faults) /\ Goto(t, "write")
  /\ UNCHANGED <<table, items, imports, upload, task, request, excuse, unclean>>

\* An error of the query counts as "no duplicate".
LookupDuplicate(t) ==
  LET found == FindDuplicateInvoice(task[t].inv, run[t].vendor, run[t].docNo) IN
  /\ At(t, "lookup")
  /\ \/ \E j \in found :
          run' = [run EXCEPT ![t] = [@ EXCEPT !.pc = "write", !.dup = j, !.status = "conflict"]]
     \/ (found = {} \/ Faults) /\ Goto(t, "write")
  /\ UNCHANGED <<table, items, imports, upload, task, request, excuse, unclean>>

\* The error of UpdateInvoiceData is ignored.
WriteInvoice(t) ==
  LET i == task[t].inv
      row == UpdateInvoiceData(i, run[t].status, run[t].vendor, run[t].docNo, run[t].dup, "ocr")
  IN
  /\ At(t, "write")
  /\ \/ /\ table' = Updated(i, row)
        /\ excuse' = IF Refused(i, row) THEN Blame(i, "writeLost") ELSE excuse
     \/ Faults /\ UNCHANGED table /\ excuse' = Blame(i, "writeLost")
  /\ Goto(t, "clear")
  /\ UNCHANGED <<items, imports, upload, task, request, unclean>>

SavingItems(t) == task[t].st = "active" /\ run[t].pc \in {"item", "review"}

\* DeleteInvoiceItemsByInvoiceID; the reading is not used any more.
ClearItems(t) ==
  LET i == task[t].inv
      alone == \A s \in Tasks \ {t} : SavingItems(s) => task[s].inv # i
      after == IF run[t].dup # NoInvoice \/ NumItems = 0 THEN "finish" ELSE "item"
  IN
  /\ At(t, "clear")
  /\ \/ /\ items' = items \ ItemsOf(i)
        /\ unclean' = IF alone THEN unclean \ {i} ELSE unclean \cup {i}
     \/ Faults /\ UNCHANGED items /\ unclean' = unclean \cup {i}
  /\ run' = [run EXCEPT ![t] = [IdleRun EXCEPT !.pc = after, !.matched = run[t].matched]]
  /\ UNCHANGED <<table, imports, upload, task, request, excuse>>

\* Variant with a bug: one item too many.
PastItemOffByOne(t) ==
  run' = [run EXCEPT ![t].pc = IF run[t].next <= NumItems THEN "item" ELSE "finish",
                     ![t].next = @ + 1]

\* The run after the item at run[t].next is dealt with.
PastItem(t) ==
  run' = [run EXCEPT ![t].pc = IF run[t].next < NumItems THEN "item" ELSE "finish",
                     ![t].next = @ + 1]

NewItem(t, review) ==
  [inv |-> task[t].inv, task |-> t, try |-> task[t].tries, pos |-> run[t].next,
   review |-> review]

\* ClassifyWithDB, then CreateInvoiceItem; unsure: asset_type is pending.
SaveItem(t) ==
  LET i == task[t].inv IN
  /\ At(t, "item")
  /\ \/ /\ Exists(i)
        /\ \E unsure \in BOOLEAN :
             LET queue == unsure \/ ~run[t].matched IN
             /\ items' = items \cup {NewItem(t, IF queue THEN "needed" ELSE "none")}
             /\ IF queue THEN Goto(t, "review") ELSE PastItem(t)
     \/ (~Exists(i) \/ Faults) /\ PastItem(t) /\ UNCHANGED items
  /\ UNCHANGED <<table, imports, upload, task, request, excuse, unclean>>

\* CreateHitlItem for the item just saved, which may be gone by now. When the
\* insert fails the run goes on; "lost" remembers it in the item.
QueueReview(t) ==
  LET saved == NewItem(t, "needed") IN
  /\ At(t, "review")
  /\ \/ /\ saved \in items
        /\ \E outcome \in {"queued"} \cup (IF Faults THEN {"lost"} ELSE {}) :
             items' = (items \ {saved}) \cup {NewItem(t, outcome)}
     \/ saved \notin items /\ UNCHANGED items
  /\ PastItem(t)
  /\ UNCHANGED <<table, imports, upload, task, request, excuse, unclean>>

\* UpdateDocumentImportStatus(done), its error ignored; the run returns nil.
FinishTask(t) ==
  LET d == DocOf[task[t].inv] IN
  /\ At(t, "finish")
  /\ \/ imports' = IF d = NoDocument THEN imports ELSE [imports EXCEPT ![d] = "done"]
     \/ Faults /\ UNCHANGED imports
  /\ task' = [task EXCEPT ![t].st = "done"]
  /\ run' = [run EXCEPT ![t] = IdleRun]
  /\ UNCHANGED <<table, items, upload, request, excuse, unclean>>

WorkerStep(t) ==
  \/ StartTask(t) \/ ExtractFails(t) \/ Extract(t) \/ LookupDuplicate(t)
  \/ WriteInvoice(t) \/ ClearItems(t) \/ SaveItem(t) \/ QueueReview(t)
  \/ FinishTask(t)

-----------------------------------------------------------------------------
(* Handlers of an administrator that take several statements.              *)

\* verifyInvoice: read the row; amounts the wizard sends replace those read.
\* An error of the read is ignored and counts as a row of zeros.
ReadForVerify(u, i) ==
  /\ request[u].pc = "idle"
  /\ Exists(i)
  /\ \E amounts \in {"human", table[i].amounts} \cup (IF Faults THEN {"zero"} ELSE {}) :
       request' = [request EXCEPT ![u] = [pc |-> "amounts", inv |-> i, amounts |-> amounts]]
  /\ UNCHANGED <<table, items, imports, upload, task, run, excuse, unclean>>

UpdateInvoiceAmounts(u) ==
  LET i == request[u].inv IN
  /\ request[u].pc = "amounts"
  /\ table' = Updated(i, [table[i] EXCEPT !.amounts = request[u].amounts])
  /\ request' = [request EXCEPT ![u].pc = "verify"]
  /\ UNCHANGED <<items, imports, upload, task, run, excuse, unclean>>

VerifyInvoice(u) ==
  LET i == request[u].inv IN
  /\ request[u].pc = "verify"
  /\ table' = Updated(i, [table[i] EXCEPT !.status = "verified", !.byHuman = TRUE])
  /\ request' = [request EXCEPT ![u] = IdleRequest]
  /\ UNCHANGED <<items, imports, upload, task, run, excuse, unclean>>

\* A statement of verifyInvoice fails, or the client goes away: the request
\* ends there.
VerifyFails(u) ==
  /\ request[u].pc \in {"amounts", "verify"}
  /\ request' = [request EXCEPT ![u] = IdleRequest]
  /\ UNCHANGED <<table, items, imports, upload, task, run, excuse, unclean>>

\* reprocessInvoice: the row is pending with zero amounts before the enqueue;
\* an error of that update is ignored.
ResetForReprocess(u, i) ==
  /\ request[u].pc = "idle"
  /\ Exists(i)
  /\ \/ table' = Updated(i, StatusOnly(i, "pending"))
     \/ Faults /\ UNCHANGED table
  /\ request' = [request EXCEPT ![u] = [IdleRequest EXCEPT !.pc = "enqueue", !.inv = i]]
  /\ excuse' = [excuse EXCEPT ![i] = {}]
  /\ UNCHANGED <<items, imports, upload, task, run, unclean>>

\* Variant with a bug: no second task while the invoice has one in progress.
EnqueueReprocessOnce(u) ==
  LET i == request[u].inv IN
  /\ request[u].pc = "enqueue"
  /\ IF \E t \in Tasks : Outstanding(t) /\ task[t].inv = i
       THEN UNCHANGED task
       ELSE EnqueueProcessInvoice(i)
  /\ request' = [request EXCEPT ![u] = IdleRequest]
  /\ UNCHANGED <<table, items, imports, upload, run, excuse, unclean>>

EnqueueReprocess(u) ==
  LET i == request[u].inv IN
  /\ request[u].pc = "enqueue"
  /\ \/ EnqueueProcessInvoice(i) /\ UNCHANGED excuse
     \/ UNCHANGED task /\ excuse' = Blame(i, "notEnqueued")
  /\ request' = [request EXCEPT ![u] = IdleRequest]
  /\ UNCHANGED <<table, items, imports, upload, run, unclean>>

RequestStep(u) ==
  UpdateInvoiceAmounts(u) \/ VerifyInvoice(u) \/ VerifyFails(u) \/ EnqueueReprocess(u)

-----------------------------------------------------------------------------
(* Handlers of an administrator that are one statement.                    *)

\* updateInvoice (FullUpdateInvoice): key and amounts, never the status.
EditInvoice(i, vendor, docNo) ==
  LET row == [table[i] EXCEPT !.vendor = vendor, !.docNo = docNo, !.amounts = "human"] IN
  /\ Exists(i)
  /\ Admitted(i, row)
  /\ table' = Updated(i, row)
  /\ UNCHANGED <<items, imports, upload, task, run, request, excuse, unclean>>

\* The foreign key of duplicate_of refuses the delete of an original that has
\* duplicates; items (and their review entries) go with the row.
DeleteInvoice(i) ==
  /\ Exists(i)
  /\ \A j \in Invoices : Exists(j) => table[j].dup # i
  /\ table' = [table EXCEPT ![i] = [NoRow EXCEPT !.status = "deleted"]]
  /\ items' = items \ ItemsOf(i)
  /\ UNCHANGED <<imports, upload, task, run, request, excuse, unclean>>

\* POST /invoices: a row with a vendor but no number, and no task.
CreateByHand(i, vendor) ==
  /\ DocOf[i] = NoDocument
  /\ table[i].status = "absent"
  /\ table' = [table EXCEPT ![i] = [NoRow EXCEPT !.status = "pending", !.vendor = vendor,
                                                 !.amounts = "human"]]
  /\ excuse' = Blame(i, "byHand")
  /\ UNCHANGED <<items, imports, upload, task, run, request, unclean>>

-----------------------------------------------------------------------------
(* The process dies: requests are lost, running tasks go back to the queue *)
(* when their lease runs out (an attempt like any other for asynq).        *)

Crash ==
  LET cut == {upload[d].adding : d \in Documents}
               \cup {request[u].inv : u \in {v \in Users : request[v].pc = "enqueue"}}
      active == {t \in Tasks : task[t].st = "active"}
      dead == {task[t].inv : t \in {s \in active : Retried(s).st = "archived"}}
  IN
  /\ upload' = [d \in Documents |-> NoUpload]
  /\ request' = [u \in Users |-> IdleRequest]
  /\ run' = [t \in Tasks |-> IdleRun]
  /\ task' = [t \in Tasks |-> IF t \in active THEN Retried(t) ELSE task[t]]
  /\ excuse' = [i \in Invoices |-> excuse[i] \cup (IF i \in cut THEN {"notEnqueued"} ELSE {})
                                             \cup (IF i \in dead THEN {"exhausted"} ELSE {})]
  /\ UNCHANGED <<table, items, imports, unclean>>

\* Uploads, the worker, verification and reprocessing: nothing that edits
\* what identifies an invoice.
AutoNext ==
  \/ \E d \in Documents : UploadStep(d)
  \/ \E t \in Tasks : WorkerStep(t)
  \/ \E u \in Users : RequestStep(u)
  \/ \E u \in Verifiers, i \in Invoices : ReadForVerify(u, i)
  \/ \E u \in Reprocessors, i \in Invoices : ResetForReprocess(u, i)
  \/ Crash

ManualNext ==
  \E i \in Invoices :
    \/ \E vendor \in Vendors \cup {Empty}, docNo \in DocNos \cup {Empty} :
         EditInvoice(i, vendor, docNo)
    \/ DeleteInvoice(i)
    \/ \E vendor \in Vendors \cup {Empty} : CreateByHand(i, vendor)

Next == AutoNext \/ ManualNext

Fairness ==
  /\ \A d \in Documents : WF_vars(EnqueueFile(d))
  /\ \A t \in Tasks : WF_vars(WorkerStep(t))
  /\ \A u \in Users : WF_vars(RequestStep(u))

AutoSpec == Init /\ [][AutoNext]_vars
Spec == Init /\ [][Next]_vars
FairSpec == Spec /\ Fairness

-----------------------------------------------------------------------------
(* Properties of every behaviour.                                          *)

\* A retried, crashed or repeated run never leaves two items for the same
\* line of a document, unless the delete that opens its item loop failed or
\* another run of the invoice was in its own loop.
RepeatedItemsOnlyIfUnclean ==
  \A x, y \in items :
    x # y /\ x.inv = y.inv /\ x.pos = y.pos => x.inv \in unclean

\* A task that will still decide the invoice.
WillDecide(t) ==
  \/ task[t].st = "queued"
  \/ task[t].st = "active" /\ run[t].pc \in {"extract", "lookup", "write"}

\* The step that will enqueue a task for invoice i.
WillEnqueue(i) ==
  \/ \E d \in Documents : upload[d].adding = i
  \/ \E u \in Users : request[u].pc = "enqueue" /\ request[u].inv = i

\* No invoice is forgotten: while it is pending, somebody is still going to
\* decide it, or one of the named causes has occurred since it became pending.
PendingIsAccountedFor ==
  \A i \in Invoices :
    table[i].status = "pending" =>
      \/ excuse[i] # {}
      \/ WillEnqueue(i)
      \/ \E t \in Tasks : task[t].inv = i /\ WillDecide(t)

\* An item that needs a human and is not in the review queue still has its
\* task: the run is about to queue it, or will be repeated, unless the retries
\* are used up or the delete that should have removed the item failed.
UnqueuedItemsHaveATask ==
  \A x \in items :
    x.review = "needed" =>
      \/ Outstanding(x.task)
      \/ task[x.task].st = "archived"
      \/ x.inv \in unclean

\* Every pending invoice is decided, deleted, or stays behind for a named cause.
EventuallyDecided ==
  \A i \in Invoices :
    (table[i].status = "pending") ~> (table[i].status # "pending" \/ excuse[i] # {})

-----------------------------------------------------------------------------
(* Properties of AutoSpec when OCR reads a given file always the same.     *)

StableReadings == \A i \in Invoices : \A p, q \in Readings[i] : p = q

\* A duplicate points at an original with the same vendor and number: no
\* chains, no cycles, and every duplicated document keeps one original.
DuplicatesPointAtOriginals ==
  \A i \in Invoices :
    table[i].dup # NoInvoice =>
      Original(table[i].dup) /\ SameKey(table[i], table[table[i].dup])

\* A duplicate waits for a human: the pipeline itself never calls it verified
\* (worker.go:341, "flagged for admin review"). True as long as an invoice has
\* one task at a time and the lookup is answered; not when an invoice is
\* reprocessed while its first run is still between the lookup and the write.
DuplicatesAwaitAHuman ==
  \A i \in Invoices :
    table[i].dup # NoInvoice /\ table[i].status = "verified" => table[i].byHuman

\* The invoice that was the original first stays the original.
OriginalNeverDemoted ==
  [][\A i \in Invoices : Original(i) => Original(i)']_vars

\* A row as the registry sees it: registered when it has a vendor and a number.
Registry ==
  INSTANCE InvoiceRegistry
    WITH Keys <- Vendors \X DocNos, NoKey <- <<Empty, Empty>>,
         key <- [i \in Invoices |-> IF HasKey(table[i])
                                      THEN <<table[i].vendor, table[i].docNo>>
                                      ELSE <<Empty, Empty>>],
         original <- [i \in Invoices |-> IF HasKey(table[i]) /\ table[i].dup = NoInvoice
                                           THEN i ELSE table[i].dup]

\* The lookup and the write of any number of interleaved, failing and repeated
\* runs amount to one atomic registration of each invoice.
KeepsRegistry == Registry!Spec

-----------------------------------------------------------------------------
(* What comments and documents say of the program, and it does not do.     *)

\* invoice_handler.go:178, "atomic: confirm + verify in one step": the row
\* that becomes verified carries the amounts this request confirmed.
ConfirmAndVerifyAtomic ==
  [][\A u \in Verifiers :
       VerifyInvoice(u) /\ Exists(request[u].inv) =>
         table'[request[u].inv].amounts = request[u].amounts]_vars

\* The flow of tax-ocr-overview.md: OCR decides verified or conflict, the row
\* is updated, the import is done. A task that ran to its end has decided its
\* invoice.
FinishedTasksDecide ==
  \A t \in Tasks : task[t].st = "done" => table[task[t].inv].status # "pending"
=============================================================================
