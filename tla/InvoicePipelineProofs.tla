----------------------- MODULE InvoicePipelineProofs -----------------------
(***************************************************************************)
(* What holds of InvoicePipeline for every number of invoices, imports,    *)
(* tasks, administrators, items and retries, whatever OCR reads and        *)
(* whatever fails. TypeOK is inductive; PendingIsAccountedFor is inductive *)
(* together with it, and so is what the unique index keeps; those of       *)
(* the items follow from ItemsInv. Of AutoSpec, the properties of the      *)
(* duplicates follow from DuplicatesInv and, without reprocessing and      *)
(* failing statements, SingleInv.                                          *)
(***************************************************************************)
EXTENDS InvoicePipeline, TLAPS

-----------------------------------------------------------------------------
(* Types.                                                                  *)

\* What UpdateInvoiceData asks for is a row, up to the CHECK on its status.
LEMMA MergeType ==
  ASSUME NEW r \in Row, NEW status,
         NEW vendor \in Vendors \cup {Empty}, NEW docNo \in DocNos \cup {Empty},
         NEW dup \in Invoices \cup {NoInvoice}, NEW amounts \in {"zero", "ocr", "human"}
  PROVE  LET row == [r EXCEPT !.status  = status,
                              !.vendor  = IF vendor # Empty THEN vendor ELSE @,
                              !.docNo   = IF docNo # Empty THEN docNo ELSE @,
                              !.dup     = IF dup # NoInvoice THEN dup ELSE @,
                              !.amounts = amounts]
         IN  row.status \in Statuses => row \in Row
BY ZenonT(40) DEF Row

\* UPDATE keeps the table well typed when every row it lets through is one.
LEMMA UpdatedType ==
  ASSUME NEW i \in Invoices, NEW row, table \in [Invoices -> Row],
         row.status \in Statuses => row \in Row
  PROVE  Updated(i, row) \in [Invoices -> Row]
BY DEF Updated, Admitted

\* UpdateInvoiceData keeps the table well typed, whatever it is asked for.
LEMMA UpdateType ==
  ASSUME table \in [Invoices -> Row], NEW i \in Invoices, NEW status,
         NEW vendor \in Vendors \cup {Empty}, NEW docNo \in DocNos \cup {Empty},
         NEW dup \in Invoices \cup {NoInvoice}, NEW amounts \in {"zero", "ocr", "human"}
  PROVE  Updated(i, UpdateInvoiceData(i, status, vendor, docNo, dup, amounts)) \in [Invoices -> Row]
<1> DEFINE row == UpdateInvoiceData(i, status, vendor, docNo, dup, amounts)
<1> DEFINE r == table[i]
<1>1. r \in Row
  OBVIOUS
<1>2. row.status \in Statuses => row \in Row
  <2>1. row = [r EXCEPT !.status  = status,
                        !.vendor  = IF vendor # Empty THEN vendor ELSE @,
                        !.docNo   = IF docNo # Empty THEN docNo ELSE @,
                        !.dup     = IF dup # NoInvoice THEN dup ELSE @,
                        !.amounts = amounts]
    BY DEF UpdateInvoiceData
  <2> HIDE DEF r, row
  <2> QED
    BY <1>1, <2>1, ZenonT(40) DEF Row
<1> QED
  BY <1>2, UpdatedType

\* The status-only update of a failed OCR or of a reprocess request does too.
LEMMA StatusOnlyType ==
  ASSUME table \in [Invoices -> Row], NEW i \in Invoices, NEW status
  PROVE  Updated(i, StatusOnly(i, status)) \in [Invoices -> Row]
BY UpdateType DEF StatusOnly

-----------------------------------------------------------------------------
(* Every way a worker step changes its local variables yields a Run.       *)

\* The index of the next item is in range, and so is the one after it.
RunOK(r) == r \in Run /\ (r.pc \in {"item", "review"} => r.next <= NumItems)

\* A run that is between tasks, or restarts its local variables.
LEMMA IdleRunType ==
  ASSUME NumItems \in Nat, NEW pc \in {"idle", "item", "finish"}, NEW matched \in BOOLEAN,
         pc = "item" => NumItems # 0
  PROVE  RunOK([IdleRun EXCEPT !.pc = pc, !.matched = matched])
<1>1. 1 \in 1..(NumItems + 1) /\ (NumItems # 0 => 1 <= NumItems)
  OBVIOUS
<1>2. IdleRun \in Run /\ IdleRun.next = 1
  BY <1>1 DEF Run, IdleRun
<1> HIDE DEF IdleRun
<1>3. [IdleRun EXCEPT !.pc = pc, !.matched = matched] \in Run
  BY <1>2 DEF Run
<1>4. /\ [IdleRun EXCEPT !.pc = pc, !.matched = matched].pc = pc
      /\ [IdleRun EXCEPT !.pc = pc, !.matched = matched].next = 1
  BY <1>2 DEF Run
<1> QED
  BY <1>1, <1>3, <1>4 DEF RunOK

\* The local variables outside a task.
LEMMA IdleRunOK ==
  ASSUME NumItems \in Nat
  PROVE  RunOK(IdleRun)
<1>1. 1 \in 1..(NumItems + 1)
  OBVIOUS
<1> QED
  BY <1>1 DEF RunOK, Run, IdleRun

\* Moving on to another statement keeps the local variables well typed.
LEMMA GotoType ==
  ASSUME NEW r, RunOK(r), NEW pc \in {"extract", "lookup", "write", "clear"}
  PROVE  RunOK([r EXCEPT !.pc = pc])
BY DEF RunOK, Run

\* So does queueing the review of the item just saved.
LEMMA GotoReviewType ==
  ASSUME NEW r, RunOK(r), r.pc = "item"
  PROVE  RunOK([r EXCEPT !.pc = "review"])
BY DEF RunOK, Run

\* So does the result of OCR.
LEMMA ExtractType ==
  ASSUME NEW r, RunOK(r), NEW vendor \in Vendors \cup {Empty}, NEW docNo \in DocNos \cup {Empty},
         NEW matched \in BOOLEAN, NEW status \in {"verified", "conflict", "invalid"}
  PROVE  RunOK([r EXCEPT !.pc = "lookup", !.vendor = vendor, !.docNo = docNo,
                         !.matched = matched, !.status = status])
BY DEF RunOK, Run

\* So does the duplicate that was found.
LEMMA DuplicateType ==
  ASSUME NEW r, RunOK(r), NEW j \in Invoices
  PROVE  RunOK([r EXCEPT !.pc = "write", !.dup = j, !.status = "conflict"])
BY DEF RunOK, Run

\* So does moving past an item: the position after the last one is the end.
LEMMA PastItemType ==
  ASSUME NumItems \in Nat, NEW r, RunOK(r), r.pc \in {"item", "review"}
  PROVE  RunOK([r EXCEPT !.pc = IF r.next < NumItems THEN "item" ELSE "finish",
                         !.next = @ + 1])
<1> DEFINE pc == IF r.next < NumItems THEN "item" ELSE "finish"
           next == r.next + 1
<1>1. r \in Run /\ r.next \in 1..(NumItems + 1) /\ r.next <= NumItems
  BY DEF RunOK, Run
<1>2. next \in 1..(NumItems + 1) /\ (pc = "item" => next <= NumItems) /\ pc # "review"
  BY <1>1
<1>3. pc \in {"item", "finish"}
  OBVIOUS
<1> HIDE DEF pc, next
<1>4. [r EXCEPT !.pc = pc, !.next = next] \in Run
  BY <1>1, <1>2, <1>3 DEF Run
<1>5. /\ [r EXCEPT !.pc = pc, !.next = next].pc = pc
      /\ [r EXCEPT !.pc = pc, !.next = next].next = next
  BY <1>1 DEF Run
<1>6. RunOK([r EXCEPT !.pc = pc, !.next = next])
  BY <1>2, <1>3, <1>4, <1>5 DEF RunOK
<1> QED
  BY <1>6 DEF pc, next

\* What asynq makes of a failed attempt is a task.
LEMMA RetriedType ==
  ASSUME MaxRetry \in Nat, NEW t \in Tasks, task[t] \in Task, task[t].inv \in Invoices
  PROVE  /\ Retried(t) \in Task
         /\ Retried(t).inv = task[t].inv
<1> DEFINE r == task[t]
<1>1. r \in Task /\ r.tries \in 0..MaxRetry /\ r.inv \in Invoices
  BY DEF Task
<1>2. Retried(t) = IF r.tries < MaxRetry THEN [r EXCEPT !.st = "queued", !.tries = @ + 1]
                                         ELSE [r EXCEPT !.st = "archived"]
  BY DEF Retried
<1> HIDE DEF r
<1>3. CASE r.tries < MaxRetry
  <2>1. r.tries + 1 \in 0..MaxRetry
    BY <1>1, <1>3
  <2> QED
    BY <1>1, <1>2, <1>3, <2>1 DEF Task, r
<1>4. CASE ~(r.tries < MaxRetry)
  BY <1>1, <1>2, <1>4 DEF Task, r
<1> QED
  BY <1>3, <1>4
-----------------------------------------------------------------------------
(* The type invariant is inductive. Its parts in the form the steps use.   *)

\* What the type invariant says of one task and its run.
LEMMA TaskFacts ==
  ASSUME TypeOK, NEW t \in Tasks
  PROVE  /\ RunOK(run[t]) /\ run[t] \in Run
         /\ task[t] \in Task
         /\ task[t].st # "free" => task[t].inv \in Invoices
BY DEF TypeOK, RunOK, HasInvoice, InBounds

\* A step of one run keeps every run well typed when its own stays so.
LEMMA RunStep ==
  ASSUME TypeOK, NEW t \in Tasks, NEW r, RunOK(r), run' = [run EXCEPT ![t] = r]
  PROVE  run' \in [Tasks -> Run] /\ \A s \in Tasks : InBounds(s)'
<1>1. run \in [Tasks -> Run] /\ \A s \in Tasks : InBounds(s)
  BY DEF TypeOK
<1>2. r \in Run /\ (r.pc \in {"item", "review"} => r.next <= NumItems)
  BY DEF RunOK
<1> QED
  BY <1>1, <1>2 DEF InBounds

\* The step of one task keeps every task well typed when its own stays so.
LEMMA TaskStep ==
  ASSUME TypeOK, NEW t \in Tasks, NEW r \in Task, r.st # "free" => r.inv \in Invoices,
         task' = [task EXCEPT ![t] = r]
  PROVE  task' \in [Tasks -> Task] /\ \A s \in Tasks : HasInvoice(s)'
<1>1. task \in [Tasks -> Task] /\ \A s \in Tasks : HasInvoice(s)
  BY DEF TypeOK
<1> QED
  BY <1>1 DEF HasInvoice

\* Enqueueing a task for an invoice keeps the tasks well typed.
LEMMA EnqueueType ==
  ASSUME PipelineAssumption, TypeOK, NEW i \in Invoices, EnqueueProcessInvoice(i) \/ UNCHANGED task
  PROVE  task' \in [Tasks -> Task] /\ \A s \in Tasks : HasInvoice(s)'
<1>1. CASE EnqueueProcessInvoice(i)
  <2>1. [st |-> "queued", inv |-> i, tries |-> 0] \in Task
    BY DEF Task, PipelineAssumption
  <2> QED
    BY <1>1, <2>1, TaskStep DEF EnqueueProcessInvoice
<1> QED
  BY <1>1 DEF TypeOK, HasInvoice

\* Recording a cause keeps the history of causes well typed.
LEMMA BlameType ==
  ASSUME excuse \in [Invoices -> SUBSET Causes], NEW i \in Invoices, NEW cause \in Causes
  PROVE  Blame(i, cause) \in [Invoices -> SUBSET Causes]
BY DEF Blame

\* Every statement of a worker keeps the types.
LEMMA TypeStepWorker ==
  ASSUME PipelineAssumption, TypeOK, NEW t \in Tasks, WorkerStep(t)
  PROVE  TypeOK'
<1> DEFINE i == task[t].inv
<1>1. /\ RunOK(run[t]) /\ run[t] \in Run /\ task[t] \in Task
      /\ task[t].st # "free" => i \in Invoices
      /\ NumItems \in Nat /\ MaxRetry \in Nat
  BY TaskFacts DEF PipelineAssumption
<1>2. CASE StartTask(t)
  <2>1. run' \in [Tasks -> Run] /\ \A s \in Tasks : InBounds(s)'
    <3>1. RunOK([run[t] EXCEPT !.pc = "extract"])
      BY <1>1, GotoType
    <3> QED
      BY <1>2, <3>1, RunStep DEF StartTask, Goto
  <2>2. task' \in [Tasks -> Task] /\ \A s \in Tasks : HasInvoice(s)'
    <3>1. [task[t] EXCEPT !.st = "active"] \in Task /\ [task[t] EXCEPT !.st = "active"].inv \in Invoices
      BY <1>1, <1>2 DEF StartTask, Task
    <3> QED
      BY <1>2, <3>1, TaskStep DEF StartTask
  <2> QED
    BY <1>2, <2>1, <2>2 DEF StartTask, TypeOK, Pursues
<1>3. CASE ExtractFails(t)
  <2>1. i \in Invoices
    BY <1>1, <1>3 DEF ExtractFails, At
  <2>2. table' \in [Invoices -> Row]
    BY <1>3, <2>1, StatusOnlyType DEF ExtractFails, TypeOK
  <2>3. task' \in [Tasks -> Task] /\ \A s \in Tasks : HasInvoice(s)'
    BY <1>1, <1>3, <2>1, RetriedType, TaskStep DEF ExtractFails
  <2>4. run' \in [Tasks -> Run] /\ \A s \in Tasks : InBounds(s)'
    BY <1>1, <1>3, IdleRunOK, RunStep DEF ExtractFails
  <2>5. excuse' \in [Invoices -> SUBSET Causes]
    BY <1>3, <2>1, BlameType DEF ExtractFails, TypeOK, Causes
  <2> QED
    BY <1>3, <2>2, <2>3, <2>4, <2>5 DEF ExtractFails, TypeOK, Pursues
<1>4. CASE Extract(t)
  <2>1. i \in Invoices /\ Readings[i] \subseteq (Vendors \cup {Empty}) \X (DocNos \cup {Empty})
    BY <1>1, <1>4 DEF Extract, At, PipelineAssumption
  <2>2. PICK reading \in Readings[i], matched \in BOOLEAN, buyerOk \in BuyerChecks :
          run' = [run EXCEPT ![t] = [@ EXCEPT !.pc = "lookup",
                                              !.vendor = reading[1], !.docNo = reading[2],
                                              !.matched = matched,
                                              !.status = OcrStatus(matched, buyerOk)]]
    BY <1>4 DEF Extract
  <2>3. /\ reading[1] \in Vendors \cup {Empty} /\ reading[2] \in DocNos \cup {Empty}
        /\ OcrStatus(matched, buyerOk) \in {"verified", "conflict", "invalid"}
    BY <2>1 DEF OcrStatus, PipelineAssumption
  <2>4. RunOK([run[t] EXCEPT !.pc = "lookup", !.vendor = reading[1], !.docNo = reading[2],
                             !.matched = matched, !.status = OcrStatus(matched, buyerOk)])
    <3> DEFINE r == run[t]
               vendor == reading[1]
               docNo == reading[2]
               status == OcrStatus(matched, buyerOk)
    <3>1. RunOK(r) /\ vendor \in Vendors \cup {Empty} /\ docNo \in DocNos \cup {Empty}
          /\ matched \in BOOLEAN /\ status \in {"verified", "conflict", "invalid"}
      BY <1>1, <2>2, <2>3
    <3> HIDE DEF r, vendor, docNo, status
    <3>2. RunOK([r EXCEPT !.pc = "lookup", !.vendor = vendor, !.docNo = docNo,
                          !.matched = matched, !.status = status])
      BY <3>1, ExtractType, ZenonT(40)
    <3> QED
      BY <3>2 DEF r, vendor, docNo, status
  <2>5. run' \in [Tasks -> Run] /\ \A s \in Tasks : InBounds(s)'
    BY <2>2, <2>4, RunStep
  <2> QED
    BY <1>4, <2>5 DEF Extract, TypeOK, Pursues, HasInvoice
<1>5. CASE LookupDuplicate(t)
  <2>1. run' \in [Tasks -> Run] /\ \A s \in Tasks : InBounds(s)'
    <3>1. CASE Goto(t, "write")
      BY <1>1, <3>1, GotoType, RunStep DEF Goto
    <3>2. ASSUME NEW j \in Invoices,
                 run' = [run EXCEPT ![t] = [@ EXCEPT !.pc = "write", !.dup = j, !.status = "conflict"]]
          PROVE  run' \in [Tasks -> Run] /\ \A s \in Tasks : InBounds(s)'
      BY <1>1, <3>2, DuplicateType, RunStep
    <3> QED
      BY <1>5, <3>1, <3>2 DEF LookupDuplicate, FindDuplicateInvoice
  <2> QED
    BY <1>5, <2>1 DEF LookupDuplicate, TypeOK, Pursues, HasInvoice
<1>6. CASE WriteInvoice(t)
  <2>1. i \in Invoices
    BY <1>1, <1>6 DEF WriteInvoice, At
  <2>2. table' \in [Invoices -> Row]
    <3>1. /\ run[t].vendor \in Vendors \cup {Empty} /\ run[t].docNo \in DocNos \cup {Empty}
          /\ run[t].dup \in Invoices \cup {NoInvoice}
      BY <1>1 DEF Run
    <3>2. table \in [Invoices -> Row]
      BY DEF TypeOK
    <3>3. Updated(i, UpdateInvoiceData(i, run[t].status, run[t].vendor, run[t].docNo,
                                       run[t].dup, "ocr")) \in [Invoices -> Row]
      BY <2>1, <3>1, <3>2, UpdateType
    <3> QED
      BY <1>6, <3>2, <3>3 DEF WriteInvoice
  <2>3. excuse' \in [Invoices -> SUBSET Causes]
    BY <1>6, <2>1, BlameType DEF WriteInvoice, TypeOK, Causes
  <2>4. run' \in [Tasks -> Run] /\ \A s \in Tasks : InBounds(s)'
    BY <1>1, <1>6, GotoType, RunStep DEF WriteInvoice, Goto
  <2> QED
    BY <1>6, <2>2, <2>3, <2>4 DEF WriteInvoice, TypeOK, Pursues, HasInvoice
<1>7. CASE ClearItems(t)
  <2>1. i \in Invoices
    BY <1>1, <1>7 DEF ClearItems, At
  <2>2. run' \in [Tasks -> Run] /\ \A s \in Tasks : InBounds(s)'
    <3> DEFINE after == IF run[t].dup # NoInvoice \/ NumItems = 0 THEN "finish" ELSE "item"
    <3>1. RunOK([IdleRun EXCEPT !.pc = after, !.matched = run[t].matched])
      BY <1>1, IdleRunType DEF Run
    <3> QED
      BY <1>7, <3>1, RunStep DEF ClearItems
  <2>3. items' \subseteq Item /\ unclean' \subseteq Invoices
    BY <1>7, <2>1 DEF ClearItems, TypeOK
  <2> QED
    BY <1>7, <2>2, <2>3 DEF ClearItems, TypeOK, Pursues, HasInvoice
<1>8. ASSUME PastItem(t), run[t].pc \in {"item", "review"}
      PROVE  run' \in [Tasks -> Run] /\ \A s \in Tasks : InBounds(s)'
  <2> DEFINE r == [run[t] EXCEPT !.pc = IF run[t].next < NumItems THEN "item" ELSE "finish",
                                 !.next = @ + 1]
  <2>1. RunOK(r)
    BY <1>1, <1>8, PastItemType
  <2>2. run' = [run EXCEPT ![t] = r]
    BY <1>1, <1>8 DEF PastItem, TypeOK, Run
  <2> QED
    BY <2>1, <2>2, RunStep
<1>9. ASSUME NEW review \in {"none", "needed", "queued", "lost"},
             task[t].st = "active", run[t].pc \in {"item", "review"}
      PROVE  NewItem(t, review) \in Item
  <2>1. i \in Invoices /\ task[t].tries \in 0..MaxRetry /\ run[t].next \in 1..NumItems
    BY <1>1, <1>9 DEF Task, Run, RunOK
  <2> QED
    BY <2>1, <1>9 DEF NewItem, Item
<1>10. CASE SaveItem(t)
  <2>1. items' \subseteq Item
    BY <1>9, <1>10 DEF SaveItem, At, TypeOK
  <2>2. run' \in [Tasks -> Run] /\ \A s \in Tasks : InBounds(s)'
    <3>1. CASE PastItem(t)
      BY <1>8, <1>10, <3>1 DEF SaveItem, At
    <3>2. CASE Goto(t, "review")
      BY <1>1, <1>10, <3>2, GotoReviewType, RunStep DEF SaveItem, At, Goto
    <3> QED
      BY <1>10, <3>1, <3>2 DEF SaveItem
  <2> QED
    BY <1>10, <2>1, <2>2 DEF SaveItem, TypeOK, Pursues, HasInvoice
<1>11. CASE QueueReview(t)
  <2>1. items' \subseteq Item
    BY <1>9, <1>11 DEF QueueReview, At, TypeOK
  <2>2. run' \in [Tasks -> Run] /\ \A s \in Tasks : InBounds(s)'
    BY <1>8, <1>11 DEF QueueReview, At
  <2> QED
    BY <1>11, <2>1, <2>2 DEF QueueReview, TypeOK, Pursues, HasInvoice
<1>12. CASE FinishTask(t)
  <2>1. task' \in [Tasks -> Task] /\ \A s \in Tasks : HasInvoice(s)'
    <3>1. [task[t] EXCEPT !.st = "done"] \in Task /\ [task[t] EXCEPT !.st = "done"].inv \in Invoices
      BY <1>1, <1>12 DEF FinishTask, At, Task
    <3> QED
      BY <1>12, <3>1, TaskStep DEF FinishTask
  <2>2. run' \in [Tasks -> Run] /\ \A s \in Tasks : InBounds(s)'
    BY <1>1, <1>12, IdleRunOK, RunStep DEF FinishTask
  <2>3. imports' \in [Documents -> {"none", "pending", "done"}]
    BY <1>12 DEF FinishTask, TypeOK
  <2> QED
    BY <1>12, <2>1, <2>2, <2>3 DEF FinishTask, TypeOK, Pursues
<1> QED
  BY <1>2, <1>3, <1>4, <1>5, <1>6, <1>7, <1>10, <1>11, <1>12 DEF WorkerStep

\* Every statement of an upload handler keeps the types.
LEMMA TypeStepUpload ==
  ASSUME PipelineAssumption, TypeOK, NEW d \in Documents, UploadStep(d)
  PROVE  TypeOK'
<1> USE DEF TypeOK, InBounds, HasInvoice, Pursues
<1>1. CASE StartImport(d)
  BY <1>1 DEF StartImport, FilesOf, Upload
<1>2. ASSUME NEW i \in Invoices, CreateInvoice(d, i) PROVE TypeOK'
  <2>1. table' \in [Invoices -> Row]
    <3>1. [NoRow EXCEPT !.status = "pending"] \in Row
      BY DEF NoRow, Row, Statuses
    <3> QED
      BY <1>2, <3>1 DEF CreateInvoice
  <2>2. upload' \in [Documents -> Upload]
    BY <1>2 DEF CreateInvoice, Upload
  <2> QED
    BY <1>2, <2>1, <2>2 DEF CreateInvoice
<1>3. ASSUME NEW i \in Invoices, SkipFile(d, i) PROVE TypeOK'
  BY <1>3 DEF SkipFile, Upload
<1>4. CASE EnqueueFile(d)
  <2>1. upload[d].adding \in Invoices
    BY <1>4 DEF EnqueueFile, Upload
  <2>2. task' \in [Tasks -> Task] /\ \A s \in Tasks : HasInvoice(s)'
    BY <1>4, <2>1, EnqueueType DEF EnqueueFile
  <2>3. excuse' \in [Invoices -> SUBSET Causes]
    BY <1>4, <2>1, BlameType DEF EnqueueFile, Causes
  <2>4. upload' \in [Documents -> Upload]
    BY <1>4 DEF EnqueueFile, Upload
  <2> QED
    BY <1>4, <2>2, <2>3, <2>4 DEF EnqueueFile
<1> QED
  BY <1>1, <1>2, <1>3, <1>4 DEF UploadStep

\* Every statement of a verify or reprocess request keeps the types.
LEMMA TypeStepRequest ==
  ASSUME PipelineAssumption, TypeOK, NEW u \in Users,
         \/ RequestStep(u)
         \/ \E i \in Invoices : ReadForVerify(u, i) \/ ResetForReprocess(u, i)
  PROVE  TypeOK'
<1>1. /\ table \in [Invoices -> Row] /\ request \in [Users -> Request]
      /\ excuse \in [Invoices -> SUBSET Causes] /\ request[u] \in Request
      /\ request[u].pc # "idle" => request[u].inv \in Invoices
  BY DEF TypeOK, Pursues
<1>2. ASSUME NEW r \in Request, r.pc # "idle" => r.inv \in Invoices,
             request' = [request EXCEPT ![u] = r]
      PROVE  request' \in [Users -> Request] /\ \A v \in Users : Pursues(v)'
  BY <1>2 DEF TypeOK, Pursues
<1>3. IdleRequest \in Request /\ IdleRequest.pc = "idle"
  BY DEF IdleRequest, Request
<1>4. ASSUME NEW i \in Invoices, ReadForVerify(u, i) PROVE TypeOK'
  <2>1. table[i].amounts \in {"zero", "ocr", "human"}
    BY <1>1 DEF Row
  <2>2. PICK amounts \in {"zero", "ocr", "human"} :
          request' = [request EXCEPT ![u] = [pc |-> "amounts", inv |-> i, amounts |-> amounts]]
    BY <1>4, <2>1 DEF ReadForVerify
  <2>3. [pc |-> "amounts", inv |-> i, amounts |-> amounts] \in Request
    BY <2>2 DEF Request
  <2>4. request' \in [Users -> Request] /\ \A v \in Users : Pursues(v)'
    BY <1>2, <2>2, <2>3
  <2> QED
    BY <1>4, <2>4 DEF ReadForVerify, TypeOK, HasInvoice, InBounds
<1>5. ASSUME NEW i \in Invoices, ResetForReprocess(u, i) PROVE TypeOK'
  <2>1. table' \in [Invoices -> Row]
    <3>1. Updated(i, StatusOnly(i, "pending")) \in [Invoices -> Row]
      BY <1>1, StatusOnlyType
    <3>2. table' = table \/ table' = Updated(i, StatusOnly(i, "pending"))
      BY <1>5 DEF ResetForReprocess
    <3> QED
      BY <1>1, <3>1, <3>2
  <2>2. [IdleRequest EXCEPT !.pc = "enqueue", !.inv = i] \in Request
    BY DEF IdleRequest, Request
  <2>3. [IdleRequest EXCEPT !.pc = "enqueue", !.inv = i].inv = i
    BY DEF IdleRequest
  <2>4. request' \in [Users -> Request] /\ \A v \in Users : Pursues(v)'
    BY <1>2, <1>5, <2>2, <2>3 DEF ResetForReprocess
  <2> QED
    BY <1>1, <1>5, <2>1, <2>4 DEF ResetForReprocess, TypeOK, HasInvoice, InBounds, Causes
<1>6. CASE UpdateInvoiceAmounts(u)
  <2> DEFINE i == request[u].inv
             row == [table[i] EXCEPT !.amounts = request[u].amounts]
  <2>1. i \in Invoices /\ row \in Row
    <3>1. i \in Invoices /\ request[u].amounts \in {"zero", "ocr", "human"}
      BY <1>1, <1>6 DEF UpdateInvoiceAmounts, Request
    <3>2. table[i] \in Row
      BY <1>1, <3>1
    <3> QED
      BY <3>1, <3>2 DEF Row
  <2>2. table' \in [Invoices -> Row]
    BY <1>1, <1>6, <2>1, UpdatedType DEF UpdateInvoiceAmounts
  <2>3. /\ [request[u] EXCEPT !.pc = "verify"] \in Request
        /\ [request[u] EXCEPT !.pc = "verify"].inv = i
    BY <1>1 DEF Request
  <2>4. request' \in [Users -> Request] /\ \A v \in Users : Pursues(v)'
    BY <1>2, <1>6, <2>1, <2>3 DEF UpdateInvoiceAmounts
  <2> QED
    BY <1>6, <2>2, <2>4 DEF UpdateInvoiceAmounts, TypeOK, HasInvoice, InBounds
<1>7. CASE VerifyInvoice(u)
  <2> DEFINE i == request[u].inv
             row == [table[i] EXCEPT !.status = "verified", !.byHuman = TRUE]
  <2>1. i \in Invoices /\ row \in Row
    <3>1. i \in Invoices
      BY <1>1, <1>7 DEF VerifyInvoice
    <3>2. table[i] \in Row
      BY <1>1, <3>1
    <3> QED
      BY <3>1, <3>2 DEF Row, Statuses
  <2>2. table' \in [Invoices -> Row]
    BY <1>1, <1>7, <2>1, UpdatedType DEF VerifyInvoice
  <2>3. request' \in [Users -> Request] /\ \A v \in Users : Pursues(v)'
    BY <1>2, <1>3, <1>7 DEF VerifyInvoice
  <2> QED
    BY <1>7, <2>2, <2>3 DEF VerifyInvoice, TypeOK, HasInvoice, InBounds
<1>8. CASE EnqueueReprocess(u)
  <2>1. request[u].inv \in Invoices
    BY <1>1, <1>8 DEF EnqueueReprocess
  <2>2. task' \in [Tasks -> Task] /\ \A s \in Tasks : HasInvoice(s)'
    BY <1>8, <2>1, EnqueueType DEF EnqueueReprocess
  <2>3. excuse' \in [Invoices -> SUBSET Causes]
    BY <1>1, <1>8, <2>1, BlameType DEF EnqueueReprocess, Causes
  <2>4. request' \in [Users -> Request] /\ \A v \in Users : Pursues(v)'
    BY <1>2, <1>3, <1>8 DEF EnqueueReprocess
  <2> QED
    BY <1>8, <2>2, <2>3, <2>4 DEF EnqueueReprocess, TypeOK, InBounds
<1>9. CASE VerifyFails(u)
  <2>1. request' \in [Users -> Request] /\ \A v \in Users : Pursues(v)'
    BY <1>2, <1>3, <1>9 DEF VerifyFails
  <2> QED
    BY <1>9, <2>1 DEF VerifyFails, TypeOK, HasInvoice, InBounds
<1> QED
  BY <1>4, <1>5, <1>6, <1>7, <1>8, <1>9 DEF RequestStep

\* Every one-statement handler of an administrator keeps the types.
LEMMA TypeStepManual ==
  ASSUME PipelineAssumption, TypeOK, ManualNext
  PROVE  TypeOK'
<1>1. table \in [Invoices -> Row] /\ excuse \in [Invoices -> SUBSET Causes]
  BY DEF TypeOK
<1>2. ASSUME NEW i \in Invoices, NEW vendor \in Vendors \cup {Empty},
             NEW docNo \in DocNos \cup {Empty}, EditInvoice(i, vendor, docNo)
      PROVE  TypeOK'
  <2> DEFINE row == [table[i] EXCEPT !.vendor = vendor, !.docNo = docNo, !.amounts = "human"]
  <2>1. row \in Row
    <3>1. table[i] \in Row
      BY <1>1
    <3> QED
      BY <3>1 DEF Row
  <2>2. table' \in [Invoices -> Row]
    BY <1>1, <1>2, <2>1, UpdatedType DEF EditInvoice
  <2> QED
    BY <1>2, <2>2 DEF EditInvoice, TypeOK, HasInvoice, InBounds, Pursues
<1>3. ASSUME NEW i \in Invoices, DeleteInvoice(i) PROVE TypeOK'
  <2>1. [NoRow EXCEPT !.status = "deleted"] \in Row
    BY DEF NoRow, Row
  <2>2. table' \in [Invoices -> Row]
    BY <1>1, <1>3, <2>1 DEF DeleteInvoice
  <2> QED
    BY <1>3, <2>2 DEF DeleteInvoice, TypeOK, HasInvoice, InBounds, Pursues
<1>4. ASSUME NEW i \in Invoices, NEW vendor \in Vendors \cup {Empty}, CreateByHand(i, vendor)
      PROVE  TypeOK'
  <2>1. [NoRow EXCEPT !.status = "pending", !.vendor = vendor, !.amounts = "human"] \in Row
    BY DEF NoRow, Row, Statuses
  <2>2. table' \in [Invoices -> Row]
    BY <1>1, <1>4, <2>1 DEF CreateByHand
  <2>3. excuse' \in [Invoices -> SUBSET Causes]
    BY <1>1, <1>4, BlameType DEF CreateByHand, Causes
  <2> QED
    BY <1>4, <2>2, <2>3 DEF CreateByHand, TypeOK, HasInvoice, InBounds, Pursues
<1> QED
  BY <1>2, <1>3, <1>4 DEF ManualNext

\* A crash keeps the types.
LEMMA TypeStepCrash ==
  ASSUME PipelineAssumption, TypeOK, Crash
  PROVE  TypeOK'
<1>1. upload' \in [Documents -> Upload]
  BY DEF Crash, NoUpload, Upload
<1>2. IdleRequest \in Request /\ IdleRequest.pc = "idle"
  BY DEF IdleRequest, Request
<1>3. request' \in [Users -> Request] /\ \A u \in Users : Pursues(u)'
  BY <1>2 DEF Crash, Pursues
<1>4. RunOK(IdleRun)
  BY IdleRunOK DEF PipelineAssumption
<1>5. run' \in [Tasks -> Run] /\ \A t \in Tasks : InBounds(t)'
  BY <1>4 DEF Crash, InBounds, RunOK
<1>6. \A t \in Tasks : task[t].st = "active" => /\ Retried(t) \in Task
                                               /\ Retried(t).inv \in Invoices
  BY TaskFacts, RetriedType DEF PipelineAssumption
<1>7. task' \in [Tasks -> Task] /\ \A t \in Tasks : HasInvoice(t)'
  BY <1>6, TaskFacts DEF Crash, HasInvoice
<1>8. excuse' \in [Invoices -> SUBSET Causes]
  BY DEF Crash, TypeOK, Causes
<1> QED
  BY <1>1, <1>3, <1>5, <1>7, <1>8 DEF Crash, TypeOK

\* Every variable always has the values its tables, queues and local
\* variables may have: for any number of invoices, tasks, users and items.
THEOREM TypeCorrect == Spec => []TypeOK
<1>1. Init => TypeOK
  <2> SUFFICES ASSUME Init PROVE TypeOK
    OBVIOUS
  <2>1. /\ NoRow \in Row /\ NoUpload \in Upload
        /\ IdleRequest \in Request /\ IdleRequest.pc = "idle"
    BY DEF NoRow, Row, NoUpload, Upload, IdleRequest, Request
  <2>2. RunOK(IdleRun) /\ FreeTask \in Task /\ FreeTask.st = "free"
    BY PipelineAssumption, IdleRunOK DEF FreeTask, Task, PipelineAssumption
  <2> QED
    BY <2>1, <2>2 DEF Init, TypeOK, RunOK, HasInvoice, InBounds, Pursues
<1>2. TypeOK /\ [Next]_vars => TypeOK'
  <2> SUFFICES ASSUME TypeOK, [Next]_vars PROVE TypeOK'
    OBVIOUS
  <2>1. CASE UNCHANGED vars
    BY <2>1 DEF vars, TypeOK, HasInvoice, InBounds, Pursues
  <2>2. CASE AutoNext
    BY <2>2, PipelineAssumption, TypeStepUpload, TypeStepWorker, TypeStepRequest, TypeStepCrash
       DEF AutoNext, Users
  <2>3. CASE ManualNext
    BY <2>3, PipelineAssumption, TypeStepManual
  <2> QED
    BY <2>1, <2>2, <2>3 DEF Next
<1> QED
  BY <1>1, <1>2, PTL DEF Spec

-----------------------------------------------------------------------------
(* The unique index: what the invoices table keeps by its constraint alone,*)
(* and what the properties of the duplicates rest on.                      *)

OneOriginalPerKey ==
  \A i, j \in Invoices :
    Original(i) /\ Original(j) /\ SameKey(table[i], table[j]) => i = j

\* An UPDATE that the index admits keeps originals apart; a refused one
\* changes nothing.
LEMMA UpdatedUnique ==
  ASSUME table \in [Invoices -> Row], OneOriginalPerKey,
         NEW i \in Invoices, NEW row, table' = Updated(i, row)
  PROVE  OneOriginalPerKey'
<1>1. CASE table' = table
  BY <1>1 DEF OneOriginalPerKey, Original, Exists
<1>2. CASE table' # table
  <2>1. Admitted(i, row) /\ table' = [table EXCEPT ![i] = row]
    BY <1>2 DEF Updated
  <2>2. table'[i] = row /\ \A j \in Invoices \ {i} : table'[j] = table[j]
    BY <2>1
  <2>3. \A j \in Invoices \ {i} : Original(j)' = Original(j)
    BY <2>2 DEF Original, Exists
  <2>4. Original(i)' => \A j \in Invoices \ {i} : ~(Original(j) /\ SameKey(table[j], row))
    BY <2>1, <2>2 DEF Original, Admitted
  <2> QED
    BY <2>2, <2>3, <2>4 DEF OneOriginalPerKey, SameKey
<1> QED
  BY <1>1, <1>2

\* A row without a vendor or without a number is outside the index: putting
\* one in the table, or taking a row out, keeps originals apart.
LEMMA UnindexedUnique ==
  ASSUME table \in [Invoices -> Row], OneOriginalPerKey, NEW i \in Invoices, NEW row,
         row.docNo = Empty, table' = [table EXCEPT ![i] = row]
  PROVE  OneOriginalPerKey'
<1>1. table'[i] = row /\ \A j \in Invoices \ {i} : table'[j] = table[j]
  OBVIOUS
<1>2. ~Original(i)'
  BY <1>1 DEF Original, HasKey
<1>3. \A j \in Invoices \ {i} : Original(j)' = Original(j)
  BY <1>1 DEF Original, Exists
<1> QED
  BY <1>1, <1>2, <1>3 DEF OneOriginalPerKey

\* The steps that leave the invoices table alone.
LEMMA SameTableUnique ==
  ASSUME OneOriginalPerKey, UNCHANGED table
  PROVE  OneOriginalPerKey'
BY DEF OneOriginalPerKey, Original, Exists

\* Every UPDATE passes the index, and an INSERT has no number.
LEMMA OriginalsUnique == Spec => []OneOriginalPerKey
<1>1. Init => OneOriginalPerKey
  BY DEF Init, OneOriginalPerKey, Original, Exists, NoRow, Statuses
<1>2. TypeOK /\ OneOriginalPerKey /\ [Next]_vars => OneOriginalPerKey'
  <2> SUFFICES ASSUME TypeOK, OneOriginalPerKey, [Next]_vars PROVE OneOriginalPerKey'
    OBVIOUS
  <2>1. table \in [Invoices -> Row]
    BY DEF TypeOK
  <2>2. ASSUME UNCHANGED table PROVE OneOriginalPerKey'
    BY <2>2, SameTableUnique
  <2>3. NoRow.docNo = Empty /\ [NoRow EXCEPT !.status = "pending"].docNo = Empty
        /\ [NoRow EXCEPT !.status = "deleted"].docNo = Empty
    BY DEF NoRow
  <2>4. ASSUME NEW d \in Documents, UploadStep(d) PROVE OneOriginalPerKey'
    <3>1. ASSUME NEW i \in Invoices, CreateInvoice(d, i) PROVE OneOriginalPerKey'
      BY <2>1, <2>3, <3>1, UnindexedUnique DEF CreateInvoice
    <3> QED
      BY <2>2, <2>4, <3>1 DEF UploadStep, StartImport, SkipFile, EnqueueFile
  <2>5. ASSUME NEW t \in Tasks, WorkerStep(t) PROVE OneOriginalPerKey'
    <3>1. At(t, "extract") \/ At(t, "write") => task[t].inv \in Invoices
      BY TaskFacts DEF At
    <3>2. CASE ExtractFails(t)
      <4>1. table' = table \/ table' = Updated(task[t].inv, StatusOnly(task[t].inv, "conflict"))
        BY <3>2 DEF ExtractFails
      <4>2. task[t].inv \in Invoices
        BY <3>1, <3>2 DEF ExtractFails, At
      <4> QED
        BY <2>1, <2>2, <4>1, <4>2, UpdatedUnique
    <3>3. CASE WriteInvoice(t)
      BY <2>1, <2>2, <3>1, <3>3, UpdatedUnique DEF WriteInvoice
    <3> QED
      BY <2>2, <2>5, <3>2, <3>3
         DEF WorkerStep, StartTask, Extract, LookupDuplicate, ClearItems, SaveItem, QueueReview,
             FinishTask
  <2>6. ASSUME NEW u \in Users, RequestStep(u) PROVE OneOriginalPerKey'
    <3>1. request[u].pc # "idle" => request[u].inv \in Invoices
      BY DEF TypeOK, Pursues
    <3>2. CASE UpdateInvoiceAmounts(u)
      BY <2>1, <3>1, <3>2, UpdatedUnique DEF UpdateInvoiceAmounts
    <3>3. CASE VerifyInvoice(u)
      BY <2>1, <3>1, <3>3, UpdatedUnique DEF VerifyInvoice
    <3> QED
      BY <2>2, <2>6, <3>2, <3>3 DEF RequestStep, VerifyFails, EnqueueReprocess
  <2>7. ASSUME NEW u \in Users, NEW i \in Invoices, ReadForVerify(u, i) \/ ResetForReprocess(u, i)
        PROVE  OneOriginalPerKey'
    <3>1. table' = table \/ table' = Updated(i, StatusOnly(i, "pending"))
      BY <2>7 DEF ReadForVerify, ResetForReprocess
    <3> QED
      BY <2>1, <2>2, <3>1, UpdatedUnique
  <2>8. ASSUME ManualNext PROVE OneOriginalPerKey'
    <3>1. ASSUME NEW i \in Invoices, NEW vendor, NEW docNo, EditInvoice(i, vendor, docNo)
          PROVE  OneOriginalPerKey'
      BY <2>1, <3>1, UpdatedUnique DEF EditInvoice
    <3>2. ASSUME NEW i \in Invoices, DeleteInvoice(i) PROVE OneOriginalPerKey'
      BY <2>1, <2>3, <3>2, UnindexedUnique DEF DeleteInvoice
    <3>3. ASSUME NEW i \in Invoices, NEW vendor, CreateByHand(i, vendor) PROVE OneOriginalPerKey'
      <4>1. [NoRow EXCEPT !.status = "pending", !.vendor = vendor, !.amounts = "human"].docNo = Empty
        BY DEF NoRow
      <4> QED
        BY <2>1, <3>3, <4>1, UnindexedUnique DEF CreateByHand
    <3> QED
      BY <2>8, <3>1, <3>2, <3>3 DEF ManualNext
  <2> QED
    BY <2>2, <2>4, <2>5, <2>6, <2>7, <2>8 DEF Next, AutoNext, Crash, Users, vars
<1> QED
  BY <1>1, <1>2, TypeCorrect, PTL DEF Spec

-----------------------------------------------------------------------------
(* Pending invoices: somebody will decide them, or the cause is known.     *)

\* A task just queued will decide its invoice, and the others still will.
LEMMA QueuedAccounts ==
  ASSUME TypeOK, NEW i \in Invoices, EnqueueProcessInvoice(i), UNCHANGED run
  PROVE  /\ \E t \in Tasks : task'[t].inv = i /\ WillDecide(t)'
         /\ \A j \in Invoices : (\E t \in Tasks : task[t].inv = j /\ WillDecide(t))
              => \E t \in Tasks : task'[t].inv = j /\ WillDecide(t)'
<1>1. PICK t \in Tasks : /\ task[t].st = "free"
                         /\ task' = [task EXCEPT ![t] = [st |-> "queued", inv |-> i, tries |-> 0]]
  BY DEF EnqueueProcessInvoice
<1>2. /\ task'[t].st = "queued" /\ task'[t].inv = i
      /\ \A s \in Tasks \ {t} : task'[s] = task[s]
  BY <1>1 DEF TypeOK
<1>3. ~WillDecide(t)
  BY <1>1 DEF WillDecide
<1> QED
  BY <1>2, <1>3 DEF WillDecide

\* A worker step that leaves an invoice pending leaves it accounted for: it
\* goes on deciding, or gives up and the cause is recorded.
LEMMA WorkerAccounts ==
  ASSUME PipelineAssumption, TypeOK, PendingIsAccountedFor, NEW t \in Tasks, WorkerStep(t)
  PROVE  PendingIsAccountedFor'
<1> DEFINE own == task[t].inv
<1>1. /\ run[t] \in Run /\ task[t] \in Task /\ run \in [Tasks -> Run] /\ task \in [Tasks -> Task]
      /\ table \in [Invoices -> Row]
      /\ task[t].st # "free" => own \in Invoices
      /\ excuse \in [Invoices -> SUBSET Causes]
  BY TaskFacts DEF TypeOK
<1>2. UNCHANGED <<upload, request>>
  BY DEF WorkerStep, StartTask, ExtractFails, Extract, LookupDuplicate, WriteInvoice, ClearItems,
         SaveItem, QueueReview, FinishTask
<1>3. \A i \in Invoices : WillEnqueue(i)' = WillEnqueue(i)
  BY <1>2 DEF WillEnqueue
<1>4. \A s \in Tasks \ {t} : task'[s] = task[s] /\ run'[s] = run[s]
  BY <1>1 DEF WorkerStep, StartTask, ExtractFails, Extract, LookupDuplicate, WriteInvoice,
         ClearItems, SaveItem, QueueReview, FinishTask, Goto, PastItem
<1>5. \A s \in Tasks \ {t} : task'[s].inv = task[s].inv /\ WillDecide(s)' = WillDecide(s)
  BY <1>4 DEF WillDecide
<1>6. \A i \in Invoices : excuse[i] \subseteq excuse'[i]
  <2>1. excuse' = excuse \/ \E cause : excuse' = Blame(own, cause)
    BY DEF WorkerStep, StartTask, ExtractFails, Extract, LookupDuplicate, WriteInvoice,
           ClearItems, SaveItem, QueueReview, FinishTask
  <2> QED
    BY <1>1, <2>1 DEF Blame
<1>7. \A i \in Invoices : table'[i].status = "pending" => table[i].status = "pending"
  <2>1. CASE ExtractFails(t)
    <3>1. own \in Invoices /\ table[own] \in Row
      BY <1>1, <2>1 DEF ExtractFails, At
    <3>2. StatusOnly(own, "conflict").status = "conflict"
      BY <3>1 DEF StatusOnly, UpdateInvoiceData, Row
    <3> QED
      BY <1>1, <2>1, <3>1, <3>2 DEF ExtractFails, Updated
  <2>2. CASE WriteInvoice(t)
    <3> DEFINE row == UpdateInvoiceData(own, run[t].status, run[t].vendor, run[t].docNo, run[t].dup,
                                        "ocr")
    <3>1. own \in Invoices /\ table[own] \in Row /\ run[t].status # "pending"
      BY <1>1, <2>2 DEF WriteInvoice, At, Run
    <3>2. row.status = run[t].status
      BY <3>1 DEF UpdateInvoiceData, Row
    <3> HIDE DEF row
    <3>3. table' = Updated(own, row) \/ UNCHANGED table
      BY <2>2 DEF WriteInvoice, row
    <3> QED
      BY <1>1, <3>1, <3>2, <3>3 DEF Updated
  <2> QED
    BY <2>1, <2>2 DEF WorkerStep, StartTask, Extract, LookupDuplicate, ClearItems, SaveItem,
         QueueReview, FinishTask
<1>8. WillDecide(t) =>
        \/ WillDecide(t)' /\ task'[t].inv = own
        \/ excuse'[own] # {}
        \/ table'[own].status # "pending"
  <2>1. CASE StartTask(t)
    BY <1>1, <2>1 DEF StartTask, Goto, WillDecide, Task, Run
  <2>2. CASE ExtractFails(t)
    <3>1. own \in Invoices
      BY <1>1, <2>2 DEF ExtractFails, At
    <3>2. CASE Retried(t).st = "archived"
      BY <1>1, <2>2, <3>1, <3>2 DEF ExtractFails, Blame
    <3>3. CASE Retried(t).st # "archived"
      <4>1. Retried(t).st = "queued" /\ Retried(t).inv = own
        BY <1>1, <3>3 DEF Retried, Task
      <4> QED
        BY <1>1, <2>2, <4>1 DEF ExtractFails, WillDecide
    <3> QED
      BY <3>2, <3>3
  <2>3. CASE Extract(t)
    <3>1. run'[t].pc = "lookup" /\ task' = task
      <4>1. PICK reading, matched, buyerOk :
              run' = [run EXCEPT ![t] = [@ EXCEPT !.pc = "lookup",
                                                  !.vendor = reading[1], !.docNo = reading[2],
                                                  !.matched = matched,
                                                  !.status = OcrStatus(matched, buyerOk)]]
        BY <2>3 DEF Extract
      <4> QED
        BY <1>1, <2>3, <4>1 DEF Extract, Run
    <3> QED
      BY <2>3, <3>1 DEF Extract, At, WillDecide
  <2>4. CASE LookupDuplicate(t)
    <3>1. run'[t].pc = "write" /\ task' = task
      <4>1. CASE Goto(t, "write")
        BY <1>1, <2>4, <4>1 DEF LookupDuplicate, Goto, Run
      <4>2. ASSUME NEW j,
                   run' = [run EXCEPT ![t] = [@ EXCEPT !.pc = "write", !.dup = j, !.status = "conflict"]]
            PROVE  run'[t].pc = "write"
        BY <1>1, <4>2 DEF Run
      <4> QED
        BY <2>4, <4>1, <4>2 DEF LookupDuplicate
    <3> QED
      BY <2>4, <3>1 DEF LookupDuplicate, At, WillDecide
  <2>5. CASE WriteInvoice(t)
    <3> DEFINE row == UpdateInvoiceData(own, run[t].status, run[t].vendor, run[t].docNo, run[t].dup,
                                        "ocr")
    <3>1. own \in Invoices /\ table[own] \in Row /\ run[t].status # "pending"
      BY <1>1, <2>5 DEF WriteInvoice, At, Run
    <3>2. row.status = run[t].status
      BY <3>1 DEF UpdateInvoiceData, Row
    <3> HIDE DEF row
    <3>3. \/ table' = Updated(own, row)
             /\ excuse' = IF Refused(own, row) THEN Blame(own, "writeLost") ELSE excuse
          \/ excuse' = Blame(own, "writeLost")
      BY <2>5 DEF WriteInvoice, row
    <3>4. excuse' = Blame(own, "writeLost") => excuse'[own] # {}
      BY <1>1, <3>1 DEF Blame
    <3>5. CASE table' = Updated(own, row) /\ ~Refused(own, row)
      <4>1. CASE Exists(own)
        BY <1>1, <3>1, <3>2, <3>5, <4>1 DEF Updated, Refused
      <4>2. CASE ~Exists(own)
        BY <3>5, <4>2 DEF Updated, Exists, Statuses
      <4> QED
        BY <4>1, <4>2
    <3> QED
      BY <3>3, <3>4, <3>5
  <2> QED
    BY <2>1, <2>2, <2>3, <2>4, <2>5
       DEF WorkerStep, ClearItems, SaveItem, QueueReview, FinishTask, WillDecide, At
<1> QED
  BY <1>3, <1>5, <1>6, <1>7, <1>8 DEF PendingIsAccountedFor

\* No other actor makes a pending invoice lose what accounts for it, and a
\* crash, which loses requests and attempts, leaves its cause behind.
LEMMA OthersAccount ==
  ASSUME PipelineAssumption, TypeOK, PendingIsAccountedFor,
         \/ \E d \in Documents : UploadStep(d)
         \/ \E u \in Users : RequestStep(u)
         \/ \E u \in Users, i \in Invoices : ReadForVerify(u, i) \/ ResetForReprocess(u, i)
         \/ ManualNext
  PROVE  PendingIsAccountedFor'
<1> DEFINE Decided(i) == \E t \in Tasks : task[t].inv = i /\ WillDecide(t)
<1>1. table \in [Invoices -> Row] /\ excuse \in [Invoices -> SUBSET Causes]
      /\ upload \in [Documents -> Upload] /\ request \in [Users -> Request]
      /\ \A u \in Users : request[u].pc # "idle" => request[u].inv \in Invoices
  BY DEF TypeOK, Pursues
<1>2. ASSUME UNCHANGED <<task, run>> PROVE \A i \in Invoices : Decided(i)' = Decided(i)
  BY <1>2 DEF WillDecide
<1>3. ASSUME UNCHANGED <<upload, request>> PROVE \A i \in Invoices : WillEnqueue(i)' = WillEnqueue(i)
  BY <1>3 DEF WillEnqueue
<1>4. ASSUME NEW d \in Documents, UploadStep(d) PROVE PendingIsAccountedFor'
  <2>1. CASE StartImport(d)
    <3>1. \A i \in Invoices : WillEnqueue(i) => WillEnqueue(i)'
      BY <1>1, <2>1 DEF StartImport, WillEnqueue, Upload
    <3> QED
      BY <1>2, <2>1, <3>1 DEF StartImport, PendingIsAccountedFor
  <2>2. ASSUME NEW i \in Invoices, CreateInvoice(d, i) PROVE PendingIsAccountedFor'
    <3>1. /\ WillEnqueue(i)' /\ \A j \in Invoices : WillEnqueue(j) => WillEnqueue(j)'
          /\ \A j \in Invoices \ {i} : table'[j] = table[j]
      BY <1>1, <2>2 DEF CreateInvoice, WillEnqueue, Upload
    <3> QED
      BY <1>2, <2>2, <3>1 DEF CreateInvoice, PendingIsAccountedFor
  <2>3. ASSUME NEW i \in Invoices, SkipFile(d, i) PROVE PendingIsAccountedFor'
    <3>1. \A j \in Invoices : WillEnqueue(j) => WillEnqueue(j)'
      BY <1>1, <2>3 DEF SkipFile, WillEnqueue, Upload
    <3> QED
      BY <1>2, <2>3, <3>1 DEF SkipFile, PendingIsAccountedFor
  <2>4. CASE EnqueueFile(d)
    <3>0. PICK i \in Invoices : i = upload[d].adding
      BY <1>1, <2>4 DEF EnqueueFile, Upload
    <3>1. \A j \in Invoices \ {i} : WillEnqueue(j) => WillEnqueue(j)'
      BY <1>1, <2>4, <3>0 DEF EnqueueFile, WillEnqueue, Upload
    <3>2. CASE EnqueueProcessInvoice(i) /\ UNCHANGED excuse
      BY <2>4, <3>1, <3>2, QueuedAccounts DEF EnqueueFile, PendingIsAccountedFor
    <3>3. CASE UNCHANGED task /\ excuse' = Blame(i, "notEnqueued")
      <4>1. table' = table /\ run' = run
        BY <2>4 DEF EnqueueFile
      <4>2. excuse'[i] # {} /\ \A j \in Invoices \ {i} : excuse'[j] = excuse[j]
        BY <1>1, <3>3 DEF Blame
      <4> QED
        BY <1>2, <3>1, <3>3, <4>1, <4>2 DEF PendingIsAccountedFor
    <3> QED
      BY <2>4, <3>0, <3>2, <3>3 DEF EnqueueFile
  <2> QED
    BY <1>4, <2>1, <2>2, <2>3, <2>4 DEF UploadStep
<1>5. ASSUME NEW u \in Users, RequestStep(u) PROVE PendingIsAccountedFor'
  <2> DEFINE i == request[u].inv
  <2>1. CASE UpdateInvoiceAmounts(u)
    <3>1. i \in Invoices /\ \A j \in Invoices : WillEnqueue(j) => WillEnqueue(j)'
      BY <1>1, <2>1 DEF UpdateInvoiceAmounts, WillEnqueue, Request
    <3>2. \A j \in Invoices : table'[j].status = table[j].status
      BY <1>1, <2>1, <3>1 DEF UpdateInvoiceAmounts, Updated, Row
    <3> QED
      BY <1>2, <2>1, <3>1, <3>2 DEF UpdateInvoiceAmounts, PendingIsAccountedFor
  <2>2. CASE VerifyInvoice(u)
    <3>1. i \in Invoices /\ \A j \in Invoices : WillEnqueue(j) => WillEnqueue(j)'
      BY <1>1, <2>2 DEF VerifyInvoice, WillEnqueue, IdleRequest, Request
    <3>2. \A j \in Invoices : table'[j].status = "pending" => table[j].status = "pending"
      BY <1>1, <2>2, <3>1 DEF VerifyInvoice, Updated, Row
    <3> QED
      BY <1>2, <2>2, <3>1, <3>2 DEF VerifyInvoice, PendingIsAccountedFor
  <2>3. CASE EnqueueReprocess(u)
    <3>1. PICK j \in Invoices : j = i
      BY <1>1, <2>3 DEF EnqueueReprocess
    <3>2. \A k \in Invoices \ {j} : WillEnqueue(k) => WillEnqueue(k)'
      BY <1>1, <2>3, <3>1 DEF EnqueueReprocess, WillEnqueue, IdleRequest, Request
    <3>3. CASE EnqueueProcessInvoice(j) /\ UNCHANGED excuse
      BY <2>3, <3>2, <3>3, QueuedAccounts DEF EnqueueReprocess, PendingIsAccountedFor
    <3>4. CASE UNCHANGED task /\ excuse' = Blame(j, "notEnqueued")
      <4>1. table' = table /\ run' = run
        BY <2>3 DEF EnqueueReprocess
      <4>2. excuse'[j] # {} /\ \A k \in Invoices \ {j} : excuse'[k] = excuse[k]
        BY <1>1, <3>4 DEF Blame
      <4> QED
        BY <1>2, <3>2, <3>4, <4>1, <4>2 DEF PendingIsAccountedFor
    <3> QED
      BY <2>3, <3>1, <3>3, <3>4 DEF EnqueueReprocess
  <2>4. CASE VerifyFails(u)
    <3>1. \A j \in Invoices : WillEnqueue(j) => WillEnqueue(j)'
      BY <1>1, <2>4 DEF VerifyFails, WillEnqueue, IdleRequest, Request
    <3> QED
      BY <1>2, <2>4, <3>1 DEF VerifyFails, PendingIsAccountedFor
  <2> QED
    BY <1>5, <2>1, <2>2, <2>3, <2>4 DEF RequestStep
<1>6. ASSUME NEW u \in Users, NEW i \in Invoices, ReadForVerify(u, i) PROVE PendingIsAccountedFor'
  <2>1. \A v \in Users : request[v].pc = "enqueue" => request'[v] = request[v]
    BY <1>1, <1>6 DEF ReadForVerify
  <2>2. table' = table /\ upload' = upload /\ task' = task /\ run' = run /\ excuse' = excuse
    BY <1>6 DEF ReadForVerify
  <2>3. \A j \in Invoices : WillEnqueue(j) => WillEnqueue(j)'
    BY <2>1, <2>2 DEF WillEnqueue
  <2> QED
    BY <1>2, <2>2, <2>3 DEF PendingIsAccountedFor
<1>7. ASSUME NEW u \in Users, NEW i \in Invoices, ResetForReprocess(u, i)
      PROVE  PendingIsAccountedFor'
  <2>1. WillEnqueue(i)' /\ \A j \in Invoices : WillEnqueue(j) => WillEnqueue(j)'
    BY <1>1, <1>7 DEF ResetForReprocess, WillEnqueue, IdleRequest, Request
  <2>2. \A j \in Invoices \ {i} : table'[j] = table[j] /\ excuse'[j] = excuse[j]
    BY <1>1, <1>7 DEF ResetForReprocess, Updated
  <2>3. task' = task /\ run' = run
    BY <1>7 DEF ResetForReprocess
  <2> QED
    BY <1>2, <2>1, <2>2, <2>3 DEF PendingIsAccountedFor
<1>8. ASSUME ManualNext PROVE PendingIsAccountedFor'
  <2>1. ASSUME NEW i \in Invoices, NEW vendor, NEW docNo, EditInvoice(i, vendor, docNo)
        PROVE  PendingIsAccountedFor'
    <3>1. \A j \in Invoices : table'[j].status = table[j].status
      BY <1>1, <2>1 DEF EditInvoice, Updated, Row
    <3> QED
      BY <1>2, <1>3, <2>1, <3>1 DEF EditInvoice, PendingIsAccountedFor
  <2>2. ASSUME NEW i \in Invoices, DeleteInvoice(i) PROVE PendingIsAccountedFor'
    <3>1. \A j \in Invoices : table'[j].status = "pending" => table[j].status = "pending"
      BY <1>1, <2>2 DEF DeleteInvoice, NoRow
    <3> QED
      BY <1>2, <1>3, <2>2, <3>1 DEF DeleteInvoice, PendingIsAccountedFor
  <2>3. ASSUME NEW i \in Invoices, NEW vendor, CreateByHand(i, vendor) PROVE PendingIsAccountedFor'
    <3>1. excuse'[i] # {} /\ \A j \in Invoices \ {i} : table'[j] = table[j] /\ excuse'[j] = excuse[j]
      BY <1>1, <2>3 DEF CreateByHand, Blame
    <3> QED
      BY <1>2, <1>3, <2>3, <3>1 DEF CreateByHand, PendingIsAccountedFor
  <2> QED
    BY <1>8, <2>1, <2>2, <2>3 DEF ManualNext
<1> QED
  BY <1>4, <1>5, <1>6, <1>7, <1>8

\* What a crash interrupts is queued again or recorded as a cause.
LEMMA CrashAccounts ==
  ASSUME PipelineAssumption, TypeOK, PendingIsAccountedFor, Crash
  PROVE  PendingIsAccountedFor'
<1> SUFFICES ASSUME NEW i \in Invoices, table[i].status = "pending", excuse'[i] = {}
             PROVE  \E t \in Tasks : task'[t].inv = i /\ WillDecide(t)'
  BY DEF Crash, PendingIsAccountedFor
<1>1. /\ excuse[i] = {}
      /\ \A d \in Documents : upload[d].adding # i
      /\ \A u \in Users : request[u].pc = "enqueue" => request[u].inv # i
      /\ \A t \in Tasks : task[t].st = "active" /\ Retried(t).st = "archived" => task[t].inv # i
  BY DEF Crash
<1>2. PICK t \in Tasks : task[t].inv = i /\ WillDecide(t)
  BY <1>1 DEF PendingIsAccountedFor, WillEnqueue
<1>3. CASE task[t].st = "queued"
  <2>1. task'[t] = task[t]
    BY <1>3 DEF Crash
  <2> QED
    BY <1>2, <1>3, <2>1 DEF WillDecide
<1>4. CASE task[t].st = "active"
  <2>1. task'[t] = Retried(t) /\ Retried(t).st # "archived"
    BY <1>1, <1>2, <1>4 DEF Crash
  <2>2. Retried(t).st = "queued" /\ Retried(t).inv = i
    BY <1>2, <2>1, TaskFacts DEF Retried, Task
  <2> QED
    BY <2>1, <2>2 DEF WillDecide
<1> QED
  BY <1>2, <1>3, <1>4 DEF WillDecide

\* No pending invoice is forgotten without a cause, whatever fails, crashes or
\* interleaves: somebody is about to enqueue a task for it, or a task is on its
\* way, or a lost enqueue, a lost write, exhausted retries or its entry by hand
\* explains why not.
THEOREM PendingAccounted == Spec => []PendingIsAccountedFor
<1>1. Init => PendingIsAccountedFor
  BY DEF Init, PendingIsAccountedFor, NoRow
<1>2. TypeOK /\ PendingIsAccountedFor /\ [Next]_vars => PendingIsAccountedFor'
  <2> SUFFICES ASSUME TypeOK, PendingIsAccountedFor, [Next]_vars PROVE PendingIsAccountedFor'
    OBVIOUS
  <2>1. CASE UNCHANGED vars
    BY <2>1 DEF vars, PendingIsAccountedFor, WillEnqueue, WillDecide
  <2>2. ASSUME NEW t \in Tasks, WorkerStep(t) PROVE PendingIsAccountedFor'
    BY <2>2, PipelineAssumption, WorkerAccounts
  <2>3. CASE Crash
    BY <2>3, PipelineAssumption, CrashAccounts
  <2> QED
    BY <2>1, <2>2, <2>3, PipelineAssumption, OthersAccount DEF Next, AutoNext, Users
<1> QED
  BY <1>1, <1>2, TypeCorrect, PTL DEF Spec

-----------------------------------------------------------------------------
(* The items of an invoice and their review entries.                       *)

\* Items of an invoice that is clean: no line twice, one run at most that saves
\* more of them, and that run is past every line there is an item of.
Saves(t, i) == SavingItems(t) /\ task[t].inv = i

OncePerLine ==
  \A i \in Invoices \ unclean :
    /\ \A x, y \in ItemsOf(i) : x.pos = y.pos => x = y
    /\ \A s, t \in Tasks : Saves(s, i) /\ Saves(t, i) => s = t
    /\ \A t \in Tasks, x \in ItemsOf(i) :
         Saves(t, i) => x.pos <= run[t].next /\ (run[t].pc = "item" => x.pos < run[t].next)

\* The run of an item is about to queue its review, or will clear it away.
WillQueue(x) ==
  LET t == x.task
  IN  \/ task[t].st \in {"queued", "archived"}
      \/ /\ task[t].st = "active"
         /\ \/ run[t].pc \in {"extract", "lookup", "write", "clear"}
            \/ run[t].pc = "review" /\ x = NewItem(t, "needed")

NeededWillQueue ==
  \A x \in items :
    /\ task[x.task].st # "free" /\ task[x.task].inv = x.inv
    /\ x.review = "needed" /\ x.inv \notin unclean => WillQueue(x)

ItemsInv == OncePerLine /\ NeededWillQueue

LEMMA ItemTypes ==
  ASSUME TypeOK, NEW x \in items
  PROVE  x \in Item /\ x.inv \in Invoices /\ x.task \in Tasks /\ x.pos \in Nat
BY DEF TypeOK, Item

\* A step that saves no item and lets no run begin to.
LEMMA ItemsStay ==
  ASSUME TypeOK, ItemsInv, items' \subseteq items, unclean' = unclean,
         \A t \in Tasks : SavingItems(t)' =>
           /\ SavingItems(t) /\ task'[t].inv = task[t].inv /\ run'[t] = run[t],
         \A t \in Tasks : task[t].st # "free" =>
           task'[t].st # "free" /\ task'[t].inv = task[t].inv,
         \A x \in items : x.review = "needed" /\ WillQueue(x) => WillQueue(x)'
  PROVE  ItemsInv'
<1>1. ASSUME NEW i \in Invoices \ unclean
      PROVE  /\ \A x, y \in ItemsOf(i)' : x.pos = y.pos => x = y
             /\ \A s, t \in Tasks : Saves(s, i)' /\ Saves(t, i)' => s = t
             /\ \A t \in Tasks, x \in ItemsOf(i)' :
                  Saves(t, i)' => /\ x.pos <= run'[t].next
                                  /\ run'[t].pc = "item" => x.pos < run'[t].next
  <2>1. /\ ItemsOf(i)' \subseteq ItemsOf(i)
        /\ \A t \in Tasks : Saves(t, i)' => Saves(t, i) /\ run'[t] = run[t]
    BY DEF ItemsOf, Saves
  <2> QED
    BY <2>1 DEF ItemsInv, OncePerLine
<1>2. OncePerLine'
  BY <1>1 DEF OncePerLine
<1>3. NeededWillQueue'
  BY ItemTypes DEF ItemsInv, NeededWillQueue
<1> QED
  BY <1>2, <1>3 DEF ItemsInv

\* What a step of one task leaves alone.
LEMMA OthersRest ==
  ASSUME TypeOK, NEW t \in Tasks, WorkerStep(t)
  PROVE  /\ task \in [Tasks -> Task] /\ run \in [Tasks -> Run] /\ task[t].inv \in Invoices
         /\ task[t].st \in {"queued", "active"} /\ task'[t].st # "free"
         /\ task'[t].inv = task[t].inv
         /\ \A s \in Tasks \ {t} : /\ task'[s] = task[s] /\ run'[s] = run[s]
                                   /\ \A i : Saves(s, i)' = Saves(s, i)
                                   /\ NewItem(s, "needed")' = NewItem(s, "needed")
<1>1. task \in [Tasks -> Task] /\ run \in [Tasks -> Run]
  BY DEF TypeOK
<1>2. task[t].st \in {"queued", "active"}
  BY DEF WorkerStep, StartTask, ExtractFails, Extract, LookupDuplicate, WriteInvoice,
         ClearItems, SaveItem, QueueReview, FinishTask, At
<1>3. task[t] \in Task /\ task[t].inv \in Invoices
  BY <1>2, TaskFacts
<1>4. \A s \in Tasks \ {t} : task'[s] = task[s] /\ run'[s] = run[s]
  BY <1>1 DEF WorkerStep, StartTask, ExtractFails, Extract, LookupDuplicate, WriteInvoice,
         ClearItems, SaveItem, QueueReview, FinishTask, Goto, PastItem
<1>5. \A s \in Tasks \ {t} : /\ \A i : Saves(s, i)' = Saves(s, i)
                             /\ NewItem(s, "needed")' = NewItem(s, "needed")
  BY <1>4 DEF Saves, SavingItems, NewItem
<1>6. task'[t].st # "free" /\ task'[t].inv = task[t].inv
  <2>1. CASE ExtractFails(t)
    <3>1. Retried(t).st # "free" /\ Retried(t).inv = task[t].inv
      BY <1>3 DEF Retried, Task
    <3> QED
      BY <1>1, <2>1, <3>1 DEF ExtractFails
  <2>2. CASE StartTask(t) \/ FinishTask(t)
    BY <1>1, <1>3, <2>2 DEF StartTask, FinishTask, Task
  <2> QED
    BY <1>2, <2>1, <2>2 DEF WorkerStep, Extract, LookupDuplicate, WriteInvoice,
         ClearItems, SaveItem, QueueReview
<1> QED
  BY <1>1, <1>2, <1>3, <1>4, <1>5, <1>6

\* Up to the write of the invoice a run touches no item.
LEMMA EarlyItems ==
  ASSUME TypeOK, ItemsInv, NEW t \in Tasks, WorkerStep(t),
         StartTask(t) \/ ExtractFails(t) \/ Extract(t) \/ LookupDuplicate(t) \/ WriteInvoice(t)
  PROVE  ItemsInv'
<1>1. items' = items /\ unclean' = unclean
  BY DEF StartTask, ExtractFails, Extract, LookupDuplicate, WriteInvoice
<1>2. task \in [Tasks -> Task] /\ run \in [Tasks -> Run] /\ task[t] \in Task /\ run[t] \in Run
  BY DEF TypeOK
<1>3. \/ task'[t].st \in {"queued", "archived"}
      \/ task'[t].st = "active" /\ run'[t].pc \in {"extract", "lookup", "write", "clear"}
  <2>1. CASE StartTask(t)
    BY <1>2, <2>1 DEF StartTask, Goto, Task, Run
  <2>2. CASE ExtractFails(t)
    <3>1. Retried(t).st \in {"queued", "archived"}
      BY <1>2 DEF Retried, Task
    <3> QED
      BY <1>2, <2>2, <3>1 DEF ExtractFails
  <2>3. CASE Extract(t)
    <3>1. PICK reading, matched, buyerOk :
            run' = [run EXCEPT ![t] = [@ EXCEPT !.pc = "lookup",
                                                !.vendor = reading[1], !.docNo = reading[2],
                                                !.matched = matched,
                                                !.status = OcrStatus(matched, buyerOk)]]
      BY <2>3 DEF Extract
    <3>2. run'[t].pc = "lookup"
      BY <1>2, <3>1 DEF Run
    <3> QED
      BY <2>3, <3>2 DEF Extract, At
  <2>4. CASE LookupDuplicate(t)
    <3>1. CASE Goto(t, "write")
      BY <1>2, <2>4, <3>1 DEF LookupDuplicate, At, Goto, Run
    <3>2. ASSUME NEW j,
                 run' = [run EXCEPT ![t] = [@ EXCEPT !.pc = "write", !.dup = j, !.status = "conflict"]]
          PROVE  run'[t].pc = "write"
      BY <1>2, <3>2 DEF Run
    <3> QED
      BY <2>4, <3>1, <3>2 DEF LookupDuplicate, At
  <2>5. CASE WriteInvoice(t)
    BY <1>2, <2>5 DEF WriteInvoice, At, Goto, Run
  <2> QED
    BY <2>1, <2>2, <2>3, <2>4, <2>5
<1>4. \A s \in Tasks : SavingItems(s)' => SavingItems(s) /\ s # t
  BY <1>3, OthersRest DEF SavingItems
<1>5. \A x \in items : x.review = "needed" /\ WillQueue(x) => WillQueue(x)'
  BY <1>3, OthersRest, ItemTypes DEF WillQueue
<1> QED
  BY <1>1, <1>4, <1>5, OthersRest, ItemsStay

\* After the delete an invoice is clean only if it has no items left, and at most
\* this run to save new ones.
LEMMA ClearKeepsItems ==
  ASSUME TypeOK, ItemsInv, NEW t \in Tasks, WorkerStep(t), ClearItems(t)
  PROVE  ItemsInv'
<1> DEFINE own == task[t].inv
<1>1. /\ own \in Invoices /\ task' = task /\ items' \subseteq items
      /\ own \in unclean' \/ (ItemsOf(own)' = {} /\ \A s \in Tasks \ {t} : ~Saves(s, own))
      /\ \A i \in Invoices \ {own} : i \in unclean' <=> i \in unclean
  BY OthersRest DEF ClearItems, ItemsOf, Saves
<1>2. \A s \in Tasks \ {t} : run'[s] = run[s] /\ \A i : Saves(s, i)' = Saves(s, i)
  BY OthersRest
<1>3. ASSUME NEW i \in Invoices \ unclean'
      PROVE  /\ \A x, y \in ItemsOf(i)' : x.pos = y.pos => x = y
             /\ \A r, s \in Tasks : Saves(r, i)' /\ Saves(s, i)' => r = s
             /\ \A s \in Tasks, x \in ItemsOf(i)' :
                  Saves(s, i)' => /\ x.pos <= run'[s].next
                                  /\ run'[s].pc = "item" => x.pos < run'[s].next
  <2>1. CASE i = own
    BY <1>1, <1>2, <1>3, <2>1
  <2>2. CASE i # own
    <3>1. ItemsOf(i)' \subseteq ItemsOf(i) /\ i \in Invoices \ unclean /\ ~Saves(t, i)'
      BY <1>1, <1>3, <2>2 DEF ItemsOf, Saves
    <3> QED
      BY <1>2, <3>1 DEF ItemsInv, OncePerLine
  <2> QED
    BY <2>1, <2>2
<1>4. OncePerLine'
  BY <1>3 DEF OncePerLine
<1>5. ASSUME NEW x \in items'
      PROVE  /\ task'[x.task].st # "free" /\ task'[x.task].inv = x.inv
             /\ x.review = "needed" /\ x.inv \notin unclean' => WillQueue(x)'
  <2>1. /\ x \in items /\ task[x.task].st # "free" /\ task[x.task].inv = x.inv
        /\ x.review = "needed" /\ x.inv \notin unclean => WillQueue(x)
        /\ x.task \in Tasks /\ x.inv \in Invoices
    BY <1>1, ItemTypes DEF ItemsInv, NeededWillQueue
  <2>2. ASSUME x.review = "needed", x.inv \notin unclean' PROVE WillQueue(x)'
    <3>1. x.inv # own /\ x.inv \notin unclean
      BY <1>1, <2>1, <2>2 DEF ItemsOf
    <3>2. x.task # t
      BY <2>1, <3>1
    <3> QED
      BY <2>1, <2>2, <3>1, <3>2, OthersRest DEF WillQueue
  <2> QED
    BY <1>1, <2>1, <2>2
<1>6. NeededWillQueue'
  BY <1>5 DEF NeededWillQueue
<1> QED
  BY <1>4, <1>6 DEF ItemsInv

\* Past an item the position is one more, and there is another item or none.
LEMMA PastItemMoves ==
  ASSUME TypeOK, NEW t \in Tasks, PastItem(t)
  PROVE  /\ run'[t].pc \in {"item", "finish"} /\ run'[t].next = run[t].next + 1
         /\ run[t].next \in Nat
<1>1. run \in [Tasks -> Run] /\ run[t] \in Run /\ NumItems \in Nat
  BY PipelineAssumption DEF TypeOK
<1>2. run[t].next \in 1..(NumItems + 1)
  BY <1>1 DEF Run
<1>3. run'[t] = [run[t] EXCEPT !.pc = IF run[t].next < NumItems THEN "item" ELSE "finish",
                               !.next = @ + 1]
  BY <1>1 DEF PastItem
<1>4. /\ run'[t].pc = IF run[t].next < NumItems THEN "item" ELSE "finish"
      /\ run'[t].next = run[t].next + 1
  BY <1>1, <1>3 DEF Run
<1> QED
  BY <1>1, <1>2, <1>4

\* One more item, or the one at hand in another form, keeps every line single: of
\* what was there nothing has the position of the new item.
LEMMA OneMoreItem ==
  ASSUME TypeOK, ItemsInv, NEW t \in Tasks, WorkerStep(t), SavingItems(t),
         task' = task, unclean' = unclean,
         NEW old \in SUBSET items, NEW new \in SUBSET Item, items' = old \cup new,
         \A x \in new : x.inv = task[t].inv /\ x.pos = run[t].next /\ x.task = t,
         \A x, y \in new : x = y,
         task[t].inv \notin unclean =>
           \A x \in old, y \in new : x.inv = task[t].inv => x.pos # run[t].next,
         \/ run'[t].pc = "review" /\ run'[t].next = run[t].next
         \/ run'[t].pc \in {"item", "finish"} /\ run'[t].next = run[t].next + 1
  PROVE  OncePerLine'
<1> DEFINE own == task[t].inv
           p == run[t].next
<1>1. Saves(t, own) /\ own \in Invoices /\ p \in Nat /\ \A x \in items : x.pos \in Nat
  BY OthersRest, ItemTypes, PipelineAssumption DEF Saves, TypeOK, Run
<1>2. ASSUME NEW i \in Invoices \ unclean
      PROVE  /\ \A x, y \in ItemsOf(i)' : x.pos = y.pos => x = y
             /\ \A r, s \in Tasks : Saves(r, i)' /\ Saves(s, i)' => r = s
             /\ \A s \in Tasks, x \in ItemsOf(i)' :
                  Saves(s, i)' => /\ x.pos <= run'[s].next
                                  /\ run'[s].pc = "item" => x.pos < run'[s].next
  <2>1. \A s \in Tasks : Saves(s, i)' => Saves(s, i) /\ (s # t => run'[s] = run[s])
    BY OthersRest DEF Saves
  <2>2. \A r, s \in Tasks : Saves(r, i)' /\ Saves(s, i)' => r = s
    BY <2>1 DEF ItemsInv, OncePerLine
  <2>3. CASE i # own
    <3>1. ItemsOf(i)' \subseteq ItemsOf(i) /\ ~Saves(t, i)
      BY <2>3 DEF ItemsOf, Saves
    <3> QED
      BY <2>1, <2>2, <3>1 DEF ItemsInv, OncePerLine
  <2>4. CASE i = own
    <3>1. \A x \in ItemsOf(i)' : x \in new \/ (x \in ItemsOf(i) /\ x \in old)
      BY DEF ItemsOf
    <3>2. \A x, y \in ItemsOf(i)' : x.pos = y.pos => x = y
      BY <1>2, <2>4, <3>1 DEF ItemsInv, OncePerLine, ItemsOf
    <3>3. \A s \in Tasks : Saves(s, i)' => s = t
      BY <1>1, <1>2, <2>1, <2>4 DEF ItemsInv, OncePerLine
    <3>4. \A x \in ItemsOf(i)' : x.pos <= p /\ x.pos \in Nat
      BY <1>1, <1>2, <2>4, <3>1 DEF ItemsInv, OncePerLine
    <3>5. /\ \A x \in ItemsOf(i)' : x.pos <= run'[t].next
          /\ run'[t].pc = "item" => \A x \in ItemsOf(i)' : x.pos < run'[t].next
      BY <1>1, <3>4
    <3> QED
      BY <2>2, <3>2, <3>3, <3>5
  <2> QED
    BY <2>3, <2>4
<1> QED
  BY <1>2 DEF OncePerLine

LEMMA NewItemType ==
  ASSUME TypeOK, NEW t \in Tasks, task[t].st # "free", run[t].pc \in {"item", "review"},
         NEW review \in {"none", "needed", "queued", "lost"}
  PROVE  /\ NewItem(t, review) \in Item /\ NewItem(t, review).inv = task[t].inv
         /\ NewItem(t, review).pos = run[t].next /\ NewItem(t, review).task = t
         /\ NewItem(t, review).review = review
<1>1. task[t] \in Task /\ task[t].inv \in Invoices /\ run[t] \in Run /\ run[t].next <= NumItems
      /\ NumItems \in Nat
  BY TaskFacts, PipelineAssumption DEF RunOK
<1>2. task[t].tries \in 0..MaxRetry /\ run[t].next \in 1..NumItems
  BY <1>1 DEF Task, Run
<1> QED
  BY <1>1, <1>2 DEF NewItem, Item

LEMMA SaveKeepsItems ==
  ASSUME TypeOK, ItemsInv, NEW t \in Tasks, WorkerStep(t), SaveItem(t)
  PROVE  ItemsInv'
<1> DEFINE own == task[t].inv
           p == run[t].next
<1>1. /\ run[t].pc = "item" /\ task[t].st = "active" /\ task' = task /\ unclean' = unclean
      /\ SavingItems(t) /\ Saves(t, own) /\ own \in Invoices
      /\ run \in [Tasks -> Run] /\ run[t] \in Run /\ p \in Nat
  BY OthersRest, PipelineAssumption DEF SaveItem, At, SavingItems, Saves, Run
<1>2. \A x \in items : x.task = t /\ x.review = "needed" => x.inv = own /\ own \in unclean
  <2> SUFFICES ASSUME NEW x \in items, x.task = t, x.review = "needed"
               PROVE  x.inv = own /\ own \in unclean
    OBVIOUS
  <2>1. x.inv = own /\ (own \notin unclean => WillQueue(x))
    BY DEF ItemsInv, NeededWillQueue
  <2>2. ~WillQueue(x)
    BY <1>1 DEF WillQueue
  <2> QED
    BY <2>1, <2>2
<1>3. own \notin unclean => \A x \in items : x.inv = own => x.pos # p
  BY <1>1, ItemTypes DEF ItemsInv, OncePerLine, ItemsOf
<1>4. \A x \in items : x.task # t => (WillQueue(x)' <=> WillQueue(x))
  BY OthersRest, ItemTypes DEF WillQueue
<1>5. ASSUME Exists(own), NEW unsure \in BOOLEAN,
             items' = items \cup {NewItem(t, IF unsure \/ ~run[t].matched THEN "needed" ELSE "none")},
             IF unsure \/ ~run[t].matched THEN Goto(t, "review") ELSE PastItem(t)
      PROVE  ItemsInv'
  <2> DEFINE queue == unsure \/ ~run[t].matched
             new == NewItem(t, IF queue THEN "needed" ELSE "none")
  <2>1. /\ new \in Item /\ new.inv = own /\ new.pos = p /\ new.task = t
        /\ queue => new.review = "needed" /\ new = NewItem(t, "needed")
        /\ ~queue => new.review = "none"
    BY <1>1, NewItemType
  <2>2. \/ run'[t].pc = "review" /\ run'[t].next = p /\ queue
        \/ run'[t].pc \in {"item", "finish"} /\ run'[t].next = p + 1 /\ ~queue
    BY <1>1, <1>5, PastItemMoves DEF Goto, Run
  <2> HIDE DEF new, queue
  <2>3. items' = items \cup {new}
    BY <1>5 DEF new, queue
  <2>4. OncePerLine'
    <3> DEFINE news == {new}
    <3>1. /\ news \in SUBSET Item /\ items \in SUBSET items /\ items' = items \cup news
          /\ \A x \in news : x.inv = task[t].inv /\ x.pos = run[t].next /\ x.task = t
          /\ \A x, y \in news : x = y
      BY <2>1, <2>3
    <3>2. own \notin unclean =>
            \A x \in items, y \in news : x.inv = task[t].inv => x.pos # run[t].next
      BY <1>3
    <3> HIDE DEF news
    <3> QED
      BY <1>1, <2>2, <3>1, <3>2, OneMoreItem
  <2>5. NeededWillQueue'
    <3> SUFFICES ASSUME NEW x \in items'
                 PROVE  /\ task[x.task].st # "free" /\ task[x.task].inv = x.inv
                        /\ x.review = "needed" /\ x.inv \notin unclean => WillQueue(x)'
      BY <1>1 DEF NeededWillQueue
    <3>1. CASE x = new
      <4>1. queue => NewItem(t, "needed")' = NewItem(t, "needed")
        BY <1>1, <2>1, <2>2 DEF NewItem
      <4> QED
        BY <1>1, <2>1, <2>2, <3>1, <4>1 DEF WillQueue
    <3>2. CASE x \in items
      BY <1>2, <1>4, <3>2 DEF ItemsInv, NeededWillQueue
    <3> QED
      BY <2>3, <3>1, <3>2
  <2> QED
    BY <2>4, <2>5 DEF ItemsInv
<1>6. ASSUME PastItem(t), UNCHANGED items PROVE ItemsInv'
  <2>1. run'[t].pc \in {"item", "finish"} /\ run'[t].next = p + 1
    BY <1>6, PastItemMoves
  <2>2. items' = items \cup {}
    BY <1>6
  <2>3. OncePerLine'
    <3>1. {} \in SUBSET Item /\ items \in SUBSET items
      OBVIOUS
    <3> QED
      BY <1>1, <2>1, <2>2, <3>1, OneMoreItem
  <2>4. NeededWillQueue'
    BY <1>1, <1>2, <1>4, <1>6 DEF ItemsInv, NeededWillQueue
  <2> QED
    BY <2>3, <2>4 DEF ItemsInv
<1> QED
  BY <1>5, <1>6 DEF SaveItem

LEMMA QueueKeepsItems ==
  ASSUME TypeOK, ItemsInv, NEW t \in Tasks, WorkerStep(t), QueueReview(t)
  PROVE  ItemsInv'
<1> DEFINE own == task[t].inv
           p == run[t].next
           saved == NewItem(t, "needed")
<1>1. /\ run[t].pc = "review" /\ task[t].st = "active" /\ task' = task /\ unclean' = unclean
      /\ SavingItems(t) /\ Saves(t, own) /\ own \in Invoices /\ p \in Nat
      /\ run'[t].pc \in {"item", "finish"} /\ run'[t].next = p + 1
  BY OthersRest, PastItemMoves DEF QueueReview, At, SavingItems, Saves
<1>2. \A x \in items : x.task = t /\ x.review = "needed" /\ x # saved => own \in unclean /\ x.inv = own
  <2> SUFFICES ASSUME NEW x \in items, x.task = t, x.review = "needed", x # saved
               PROVE  x.inv = own /\ own \in unclean
    OBVIOUS
  <2>1. x.inv = own /\ (own \notin unclean => WillQueue(x))
    BY DEF ItemsInv, NeededWillQueue
  <2>2. ~WillQueue(x)
    BY <1>1 DEF WillQueue
  <2> QED
    BY <2>1, <2>2
<1>3. \A x \in items : x.task # t => (WillQueue(x)' <=> WillQueue(x))
  BY OthersRest, ItemTypes DEF WillQueue
<1>4. /\ saved \in Item /\ saved.inv = own /\ saved.pos = p
  BY <1>1, NewItemType
<1>5. ASSUME saved \in items, NEW outcome \in {"queued", "lost"},
             items' = (items \ {saved}) \cup {NewItem(t, outcome)}
      PROVE  ItemsInv'
  <2> DEFINE new == NewItem(t, outcome)
             old == items \ {saved}
  <2>1. /\ new \in Item /\ new.inv = own /\ new.pos = p /\ new.task = t /\ new.review # "needed"
    BY <1>1, <1>5, NewItemType
  <2>2. own \notin unclean => \A x \in old : x.inv = own => x.pos # p
    BY <1>1, <1>4, <1>5 DEF ItemsInv, OncePerLine, ItemsOf
  <2>3. items' = old \cup {new} /\ old \in SUBSET items
    BY <1>5
  <2> HIDE DEF new, old
  <2>4. OncePerLine'
    <3> DEFINE news == {new}
    <3>1. /\ news \in SUBSET Item /\ items' = old \cup news
          /\ \A x \in news : x.inv = task[t].inv /\ x.pos = run[t].next /\ x.task = t
          /\ \A x, y \in news : x = y
      BY <2>1, <2>3
    <3>2. own \notin unclean =>
            \A x \in old, y \in news : x.inv = task[t].inv => x.pos # run[t].next
      BY <2>2
    <3> HIDE DEF news
    <3> QED
      BY <1>1, <2>3, <3>1, <3>2, OneMoreItem
  <2>5. NeededWillQueue'
    <3> SUFFICES ASSUME NEW x \in items'
                 PROVE  /\ task[x.task].st # "free" /\ task[x.task].inv = x.inv
                        /\ x.review = "needed" /\ x.inv \notin unclean => WillQueue(x)'
      BY <1>1 DEF NeededWillQueue
    <3>1. CASE x = new
      BY <1>1, <2>1, <3>1
    <3>2. CASE x \in items /\ x # saved
      BY <1>2, <1>3, <3>2 DEF ItemsInv, NeededWillQueue
    <3> QED
      BY <2>3, <3>1, <3>2 DEF old
  <2> QED
    BY <2>4, <2>5 DEF ItemsInv
<1>6. ASSUME saved \notin items, UNCHANGED items PROVE ItemsInv'
  <2> DEFINE none == {}
  <2>1. items' = items \cup none /\ none \in SUBSET Item /\ items \in SUBSET items
    BY <1>6
  <2>2. OncePerLine'
    BY <1>1, <2>1, OneMoreItem
  <2>3. NeededWillQueue'
    BY <1>1, <1>2, <1>3, <1>6 DEF ItemsInv, NeededWillQueue
  <2> QED
    BY <2>2, <2>3 DEF ItemsInv
<1> QED
  BY <1>5, <1>6 DEF QueueReview

LEMMA FinishKeepsItems ==
  ASSUME TypeOK, ItemsInv, NEW t \in Tasks, WorkerStep(t), FinishTask(t)
  PROVE  ItemsInv'
<1>1. /\ run[t].pc = "finish" /\ task[t].st = "active" /\ items' = items /\ unclean' = unclean
      /\ task'[t].st = "done"
  BY OthersRest DEF FinishTask, At, Task
<1>2. \A x \in items : x.task = t => ~WillQueue(x)
  BY <1>1 DEF WillQueue
<1>3. \A x \in items : x.task # t => (WillQueue(x)' <=> WillQueue(x))
  BY OthersRest, ItemTypes DEF WillQueue
<1>4. \A s \in Tasks : SavingItems(s)' => SavingItems(s) /\ s # t
  BY <1>1, OthersRest DEF SavingItems
<1> QED
  BY <1>1, <1>2, <1>3, <1>4, OthersRest, ItemsStay

\* The handlers and a crash: no run begins to save items, no task loses its invoice.
LEMMA HandlersKeepItems ==
  ASSUME TypeOK, ItemsInv,
         \/ \E d \in Documents : UploadStep(d)
         \/ \E u \in Users : RequestStep(u)
         \/ \E u \in Users, i \in Invoices : ReadForVerify(u, i) \/ ResetForReprocess(u, i)
         \/ ManualNext
  PROVE  ItemsInv'
<1>1. run' = run /\ unclean' = unclean /\ items' \subseteq items
  BY DEF UploadStep, StartImport, CreateInvoice, SkipFile, EnqueueFile, RequestStep,
         UpdateInvoiceAmounts, VerifyInvoice, VerifyFails, EnqueueReprocess, ReadForVerify,
         ResetForReprocess, ManualNext, EditInvoice, DeleteInvoice, CreateByHand
<1>2. UNCHANGED task \/ \E i : EnqueueProcessInvoice(i)
  BY DEF UploadStep, StartImport, CreateInvoice, SkipFile, EnqueueFile, RequestStep,
         UpdateInvoiceAmounts, VerifyInvoice, VerifyFails, EnqueueReprocess, ReadForVerify,
         ResetForReprocess, ManualNext, EditInvoice, DeleteInvoice, CreateByHand
<1>3. task \in [Tasks -> Task]
  BY DEF TypeOK
<1>4. \A t \in Tasks : \/ task'[t] = task[t]
                       \/ task[t].st = "free" /\ task'[t].st = "queued"
  BY <1>2, <1>3 DEF EnqueueProcessInvoice
<1>5. \A t \in Tasks : SavingItems(t)' => SavingItems(t) /\ task'[t] = task[t]
  BY <1>1, <1>4 DEF SavingItems
<1>6. \A t \in Tasks : task[t].st # "free" => task'[t] = task[t]
  BY <1>4
<1>7. \A x \in items : WillQueue(x) => WillQueue(x)'
  BY <1>1, <1>6, ItemTypes DEF WillQueue, NewItem
<1> QED
  BY <1>1, <1>5, <1>6, <1>7, ItemsStay

LEMMA CrashKeepsItems ==
  ASSUME TypeOK, ItemsInv, Crash
  PROVE  ItemsInv'
<1>1. /\ items' = items /\ unclean' = unclean /\ run' = [t \in Tasks |-> IdleRun]
      /\ task' = [t \in Tasks |-> IF task[t].st = "active" THEN Retried(t) ELSE task[t]]
  BY DEF Crash
<1>2. \A t \in Tasks : ~SavingItems(t)'
  BY <1>1 DEF SavingItems, IdleRun
<1>3. ASSUME NEW t \in Tasks
      PROVE  /\ task'[t].inv = task[t].inv
             /\ task[t].st = "active" => task'[t].st \in {"queued", "archived"}
             /\ task[t].st # "active" => task'[t] = task[t]
  <2>1. task[t] \in Task
    BY DEF TypeOK
  <2>2. Retried(t).st \in {"queued", "archived"} /\ Retried(t).inv = task[t].inv
    BY <2>1 DEF Retried, Task
  <2> QED
    BY <1>1, <2>2
<1>4. \A x \in items : WillQueue(x) => WillQueue(x)'
  BY <1>3, ItemTypes DEF WillQueue
<1> QED
  BY <1>1, <1>2, <1>3, <1>4, ItemsStay

LEMMA ItemsStep ==
  ASSUME TypeOK, ItemsInv, [Next]_vars
  PROVE  ItemsInv'
<1>1. CASE UNCHANGED vars
  BY <1>1 DEF vars, ItemsInv, OncePerLine, NeededWillQueue, WillQueue, ItemsOf, Saves,
              SavingItems, NewItem
<1>2. ASSUME NEW t \in Tasks, WorkerStep(t) PROVE ItemsInv'
  BY <1>2, EarlyItems, ClearKeepsItems, SaveKeepsItems, QueueKeepsItems, FinishKeepsItems
     DEF WorkerStep
<1> QED
  BY <1>1, <1>2, HandlersKeepItems, CrashKeepsItems DEF Next, AutoNext, Users

LEMMA ItemsAlways == Spec => []ItemsInv
<1>1. Init => ItemsInv
  BY DEF Init, ItemsInv, OncePerLine, NeededWillQueue, ItemsOf, Saves, SavingItems, FreeTask
<1> QED
  BY <1>1, ItemsStep, TypeCorrect, PTL DEF Spec

\* handleProcessInvoice deletes the items before it saves them: no retry, crash or
\* second run leaves two items for one line, unless the delete failed or two runs
\* saved at once.
THEOREM ItemsOnce == Spec => []RepeatedItemsOnlyIfUnclean
<1>1. TypeOK /\ ItemsInv => RepeatedItemsOnlyIfUnclean
  BY ItemTypes DEF RepeatedItemsOnlyIfUnclean, ItemsInv, OncePerLine, ItemsOf
<1> QED
  BY <1>1, ItemsAlways, TypeCorrect, PTL

\* An item that needs a human gets its entry of the review queue, or its task is
\* run again, unless its retries are used up or the item is left over.
THEOREM ReviewsAreQueued == Spec => []UnqueuedItemsHaveATask
<1>1. ItemsInv => UnqueuedItemsHaveATask
  BY DEF UnqueuedItemsHaveATask, ItemsInv, NeededWillQueue, WillQueue, Outstanding
<1> QED
  BY <1>1, ItemsAlways, PTL

-----------------------------------------------------------------------------
(* Duplicates and their originals, while nobody edits or deletes an        *)
(* invoice and OCR reads a file always the same.                           *)

\* What OCR reads of a file identifies its invoice: the row of an invoice has no
\* key yet or the one that is read, and a run holds the one that is read.
HasRead(i, r) == <<r.vendor, r.docNo>> \in Readings[i]
Unread(r) == r.vendor = Empty /\ r.docNo = Empty

RowsAreRead ==
  \A i \in Invoices : /\ Exists(i) \/ table[i] = NoRow
                      /\ HasRead(i, table[i]) \/ Unread(table[i])

\* What FindDuplicateInvoice found stays an original until the row is written.
FoundIsOriginal ==
  \A t \in Tasks :
    /\ At(t, "lookup") \/ At(t, "write") => HasRead(task[t].inv, run[t])
    /\ run[t].dup # NoInvoice =>
         /\ At(t, "write") \/ At(t, "clear")
         /\ At(t, "write") => /\ run[t].dup # task[t].inv
                              /\ Original(run[t].dup) /\ SameKey(table[run[t].dup], run[t])

\* The row of a file is inserted once.
FilesAreNew ==
  \A d \in Documents :
    /\ upload[d].left \subseteq FilesOf(d) /\ upload[d].adding \in FilesOf(d) \cup {NoInvoice}
    /\ imports[d] = "none" => upload[d].left = {}
    /\ \A i \in FilesOf(d) : i \in upload[d].left \/ imports[d] = "none" =>
                               table[i].status = "absent"

DuplicatesInv == RowsAreRead /\ DuplicatesPointAtOriginals /\ FoundIsOriginal /\ FilesAreNew

\* A step that changes nothing of row i that identifies it, and one that does not
\* insert it.
Quiet(i) ==
  /\ table'[i].vendor = table[i].vendor /\ table'[i].docNo = table[i].docNo
  /\ table'[i].dup = table[i].dup
  /\ Exists(i) => Exists(i)'
  /\ Exists(i)' \/ table'[i] = table[i]

Uninserted(i) == table[i].status = "absent" => table'[i] = table[i]

\* An original stays one, with its vendor and number; a row stays in the table.
Keeps(i) ==
  /\ Original(i) => Original(i)' /\ SameKey(table'[i], table[i])
  /\ table'[i].status = "absent" => table[i].status = "absent"

LEMMA SameQuiet ==
  ASSUME UNCHANGED table
  PROVE  \A i \in Invoices : Quiet(i) /\ Uninserted(i)
BY DEF Quiet, Uninserted, Exists

LEMMA UpdatedRow ==
  ASSUME TypeOK, NEW i \in Invoices, NEW row, table' = Updated(i, row)
  PROVE  \/ table' = table
         \/ /\ Exists(i) /\ row.status \in Statuses /\ table'[i] = row
            /\ \A j \in Invoices \ {i} : table'[j] = table[j]
BY DEF TypeOK, Updated, Admitted

LEMMA UpdateQuiet ==
  ASSUME TypeOK, NEW i \in Invoices, NEW row, table' = Updated(i, row),
         row.vendor = table[i].vendor, row.docNo = table[i].docNo, row.dup = table[i].dup
  PROVE  \A j \in Invoices : Quiet(j) /\ Uninserted(j)
BY UpdatedRow, SameQuiet DEF Quiet, Uninserted, Exists, Statuses

LEMMA StatusQuiet ==
  ASSUME TypeOK, NEW i \in Invoices, NEW status, table' = Updated(i, StatusOnly(i, status))
  PROVE  \A j \in Invoices : Quiet(j) /\ Uninserted(j)
<1> DEFINE row == StatusOnly(i, status)
<1>1. table[i] \in Row
  BY DEF TypeOK
<1>2. row.vendor = table[i].vendor /\ row.docNo = table[i].docNo /\ row.dup = table[i].dup
  BY <1>1 DEF StatusOnly, UpdateInvoiceData, Row
<1> HIDE DEF row
<1> QED
  BY <1>2, UpdateQuiet DEF row

\* Only CreateInvoice inserts a row and only WriteInvoice identifies one.
LEMMA QuietSteps ==
  ASSUME TypeOK, DuplicatesInv, [AutoNext]_vars,
         \A t \in Tasks : ~WriteInvoice(t)
  PROVE  /\ \A i \in Invoices : Quiet(i)
         /\ (\A d \in Documents, i \in Invoices : ~CreateInvoice(d, i)) =>
              \A i \in Invoices : Uninserted(i)
<1> DEFINE Calm == \A i \in Invoices : Quiet(i) /\ Uninserted(i)
<1>1. UNCHANGED table => Calm
  BY SameQuiet
<1>2. ASSUME NEW d \in Documents, NEW i \in Invoices, CreateInvoice(d, i)
      PROVE  \A j \in Invoices : Quiet(j)
  <2>1. table[i] = NoRow
    BY <1>2 DEF CreateInvoice, DuplicatesInv, RowsAreRead, FilesAreNew, Exists, Statuses
  <2>2. table'[i] = [NoRow EXCEPT !.status = "pending"] /\ \A j \in Invoices \ {i} : table'[j] = table[j]
    BY <1>2 DEF CreateInvoice, TypeOK
  <2>3. Quiet(i)
    BY <2>1, <2>2 DEF Quiet, NoRow, Exists, Statuses
  <2> QED
    BY <2>2, <2>3 DEF Quiet, Exists
<1>3. ASSUME NEW t \in Tasks, ExtractFails(t) PROVE Calm
  <2>1. task[t].inv \in Invoices
    BY <1>3, TaskFacts DEF ExtractFails, At
  <2> QED
    BY <1>1, <1>3, <2>1, StatusQuiet DEF ExtractFails
<1>4. ASSUME NEW u \in Users, UpdateInvoiceAmounts(u) \/ VerifyInvoice(u) PROVE Calm
  <2> DEFINE i == request[u].inv
  <2>1. i \in Invoices /\ table[i] \in Row
    BY <1>4 DEF UpdateInvoiceAmounts, VerifyInvoice, TypeOK, Pursues
  <2>2. CASE UpdateInvoiceAmounts(u)
    <3> DEFINE row == [table[i] EXCEPT !.amounts = request[u].amounts]
    <3>1. row.vendor = table[i].vendor /\ row.docNo = table[i].docNo /\ row.dup = table[i].dup
      BY <2>1 DEF Row
    <3>2. table' = Updated(i, row)
      BY <2>2 DEF UpdateInvoiceAmounts
    <3> HIDE DEF row
    <3> QED
      BY <2>1, <3>1, <3>2, UpdateQuiet
  <2>3. CASE VerifyInvoice(u)
    <3> DEFINE row == [table[i] EXCEPT !.status = "verified", !.byHuman = TRUE]
    <3>1. row.vendor = table[i].vendor /\ row.docNo = table[i].docNo /\ row.dup = table[i].dup
      BY <2>1 DEF Row
    <3>2. table' = Updated(i, row)
      BY <2>3 DEF VerifyInvoice
    <3> HIDE DEF row
    <3> QED
      BY <2>1, <3>1, <3>2, UpdateQuiet
  <2> QED
    BY <1>4, <2>2, <2>3
<1>5. ASSUME NEW u \in Reprocessors, NEW i \in Invoices, ResetForReprocess(u, i) PROVE Calm
  BY <1>1, <1>5, StatusQuiet DEF ResetForReprocess
<1>6. \/ UNCHANGED table
      \/ \E d \in Documents, i \in Invoices : CreateInvoice(d, i)
      \/ \E t \in Tasks : ExtractFails(t)
      \/ \E u \in Users : UpdateInvoiceAmounts(u) \/ VerifyInvoice(u)
      \/ \E u \in Reprocessors, i \in Invoices : ResetForReprocess(u, i)
  BY DEF AutoNext, vars, UploadStep, StartImport, SkipFile, EnqueueFile, WorkerStep, StartTask,
         Extract, LookupDuplicate, ClearItems, SaveItem, QueueReview, FinishTask, RequestStep,
         VerifyFails, EnqueueReprocess, ReadForVerify, Crash
<1> QED
  BY <1>1, <1>2, <1>3, <1>4, <1>5, <1>6

\* A step that is quiet about every row keeps what the rows say.
LEMMA QuietKeepsRows ==
  ASSUME TypeOK, DuplicatesInv, \A i \in Invoices : Quiet(i)
  PROVE  /\ \A i \in Invoices : Keeps(i)
         /\ RowsAreRead' /\ DuplicatesPointAtOriginals'
<1>1. \A i \in Invoices : Keeps(i)
  BY DEF Quiet, Keeps, Original, HasKey, SameKey, Exists, Statuses
<1>2. RowsAreRead'
  BY DEF Quiet, DuplicatesInv, RowsAreRead, HasRead, Unread
<1>3. ASSUME NEW i \in Invoices, NEW j, j = table'[i].dup, j # NoInvoice
      PROVE  Original(j)' /\ SameKey(table'[i], table'[j])
  <2>1. j = table[i].dup /\ table'[i].vendor = table[i].vendor /\ table'[i].docNo = table[i].docNo
    BY <1>3 DEF Quiet
  <2>2. j \in Invoices /\ Original(j) /\ SameKey(table[i], table[j])
    BY <1>3, <2>1 DEF TypeOK, Row, DuplicatesInv, DuplicatesPointAtOriginals
  <2>3. Original(j)' /\ SameKey(table'[j], table[j])
    BY <1>1, <2>2 DEF Keeps
  <2> QED
    BY <2>1, <2>2, <2>3 DEF SameKey
<1> QED
  BY <1>1, <1>2, <1>3 DEF DuplicatesPointAtOriginals

\* Writing the row of an invoice: its key becomes, or already is, what was read,
\* and the original it points at is another one.
LEMMA WriteKeepsRows ==
  ASSUME StableReadings, TypeOK, OneOriginalPerKey, DuplicatesInv,
         NEW t \in Tasks, WriteInvoice(t), NEW i \in Invoices, i = task[t].inv
  PROVE  /\ \A j \in Invoices : Keeps(j) /\ Uninserted(j)
         /\ RowsAreRead' /\ DuplicatesPointAtOriginals'
<1> DEFINE r == run[t]
           row == UpdateInvoiceData(i, r.status, r.vendor, r.docNo, r.dup, "ocr")
<1>1. /\ r \in Run /\ table[i] \in Row /\ At(t, "write")
      /\ Readings[i] \in SUBSET ((Vendors \cup {Empty}) \X (DocNos \cup {Empty}))
  BY TaskFacts, PipelineAssumption DEF WriteInvoice, At, TypeOK
<1>2. table' = table \/ table' = Updated(i, row)
  BY DEF WriteInvoice
<1>3. CASE table' = table
  <2>1. \A j \in Invoices : Quiet(j) /\ Uninserted(j)
    BY <1>3, SameQuiet
  <2> QED
    BY <2>1, QuietKeepsRows
<1>4. CASE /\ Exists(i) /\ row.status \in Statuses /\ table'[i] = row
           /\ \A j \in Invoices \ {i} : table'[j] = table[j]
  <2>1. HasRead(i, r) /\ (HasRead(i, table[i]) \/ Unread(table[i]))
    BY <1>1 DEF DuplicatesInv, FoundIsOriginal, RowsAreRead
  <2>2. /\ row.vendor = IF r.vendor # Empty THEN r.vendor ELSE table[i].vendor
        /\ row.docNo = IF r.docNo # Empty THEN r.docNo ELSE table[i].docNo
        /\ row.dup = IF r.dup # NoInvoice THEN r.dup ELSE table[i].dup
    BY <1>1 DEF UpdateInvoiceData, Row
  <2>3. HasRead(i, table[i]) => table[i].vendor = r.vendor /\ table[i].docNo = r.docNo
    BY <1>1, <2>1 DEF HasRead, StableReadings
  <2>4. row.vendor = r.vendor /\ row.docNo = r.docNo
    BY <2>1, <2>2, <2>3 DEF Unread
  <2> HIDE DEF row
  <2>5. \A j \in Invoices : Uninserted(j)
    BY <1>4 DEF Uninserted, Exists, Statuses
  <2>6. \A j \in Invoices \ {i} : Keeps(j)
    BY <1>4 DEF Keeps, Original, Exists, SameKey
  <2>7. Keeps(i)
    <3> SUFFICES ASSUME Original(i) PROVE Original(i)' /\ SameKey(table'[i], table[i])
      BY <1>4 DEF Keeps, Statuses
    <3>1. table[i].vendor = r.vendor /\ table[i].docNo = r.docNo
      BY <2>1, <2>3 DEF Original, HasKey, Unread
    <3>2. r.dup = NoInvoice
      <4> SUFFICES ASSUME r.dup # NoInvoice PROVE FALSE
        OBVIOUS
      <4>1. r.dup # i /\ Original(r.dup) /\ SameKey(table[r.dup], r) /\ r.dup \in Invoices
        BY <1>1 DEF DuplicatesInv, FoundIsOriginal, Run
      <4> QED
        BY <1>1, <3>1, <4>1 DEF OneOriginalPerKey, SameKey
    <3> QED
      BY <1>1, <1>4, <2>2, <2>4, <3>1, <3>2 DEF Original, Exists, HasKey, SameKey
  <2>8. \A j \in Invoices : Keeps(j)
    BY <2>6, <2>7
  <2>9. RowsAreRead'
    <3>1. HasRead(i, row)
      BY <2>1, <2>4 DEF HasRead
    <3>2. Exists(i)' /\ \A j \in Invoices \ {i} : Exists(j) => Exists(j)'
      BY <1>4 DEF Exists
    <3> QED
      BY <1>4, <3>1, <3>2 DEF DuplicatesInv, RowsAreRead
  <2>10. ASSUME NEW j \in Invoices, NEW k, k = table'[j].dup, k # NoInvoice
         PROVE  Original(k)' /\ SameKey(table'[j], table'[k])
    <3>1. CASE j = i /\ r.dup # NoInvoice
      <4>1. k = r.dup /\ k \in Invoices /\ Original(k) /\ SameKey(table[k], r)
        BY <1>1, <1>4, <2>2, <2>10, <3>1 DEF DuplicatesInv, FoundIsOriginal, Run
      <4>2. Original(k)' /\ SameKey(table'[k], table[k])
        BY <2>8, <4>1 DEF Keeps
      <4> QED
        BY <1>4, <2>4, <3>1, <4>1, <4>2 DEF SameKey
    <3>2. CASE ~(j = i /\ r.dup # NoInvoice)
      <4>1. k = table[j].dup
        BY <1>4, <2>2, <2>10, <3>2
      <4>2. k \in Invoices /\ Original(k) /\ SameKey(table[j], table[k])
        BY <2>10, <4>1 DEF TypeOK, Row, DuplicatesInv, DuplicatesPointAtOriginals
      <4>3. Original(k)' /\ SameKey(table'[k], table[k])
        BY <2>8, <4>2 DEF Keeps
      <4>4. SameKey(table'[j], table[j])
        <5>1. CASE j = i
          <6>1. table[i].vendor # Empty
            BY <4>2, <5>1 DEF SameKey, Original, HasKey
          <6> QED
            BY <1>4, <2>1, <2>3, <2>4, <5>1, <6>1 DEF Unread, SameKey
        <5> QED
          BY <1>4, <5>1 DEF SameKey
      <4> QED
        BY <4>2, <4>3, <4>4 DEF SameKey
    <3> QED
      BY <3>1, <3>2
  <2>11. DuplicatesPointAtOriginals'
    BY <2>10 DEF DuplicatesPointAtOriginals
  <2> QED
    BY <2>5, <2>8, <2>9, <2>11
<1> QED
  BY <1>1, <1>2, <1>3, <1>4, UpdatedRow

\* The rows after a step of the pipeline.
LEMMA RowsStep ==
  ASSUME StableReadings, TypeOK, OneOriginalPerKey, DuplicatesInv, [AutoNext]_vars
  PROVE  /\ \A i \in Invoices : Keeps(i)
         /\ RowsAreRead' /\ DuplicatesPointAtOriginals'
         /\ (\A d \in Documents, i \in Invoices : ~CreateInvoice(d, i)) =>
              \A i \in Invoices : Uninserted(i)
<1>1. CASE \E t \in Tasks : WriteInvoice(t)
  <2>1. PICK t \in Tasks : WriteInvoice(t)
    BY <1>1
  <2>2. task[t].inv \in Invoices
    BY <2>1, TaskFacts DEF WriteInvoice, At
  <2> QED
    BY <2>1, <2>2, WriteKeepsRows
<1>2. CASE \A t \in Tasks : ~WriteInvoice(t)
  BY <1>2, QuietSteps, QuietKeepsRows
<1> QED
  BY <1>1, <1>2

\* Neither does a step insert the row of a file twice.
LEMMA FilesStep ==
  ASSUME TypeOK, FilesAreNew, [AutoNext]_vars,
         (\A d \in Documents, i \in Invoices : ~CreateInvoice(d, i)) =>
            \A i \in Invoices : Uninserted(i)
  PROVE  FilesAreNew'
<1> DEFINE FileNew(d) ==
      /\ upload[d].left \subseteq FilesOf(d) /\ upload[d].adding \in FilesOf(d) \cup {NoInvoice}
      /\ imports[d] = "none" => upload[d].left = {}
      /\ \A i \in FilesOf(d) : i \in upload[d].left \/ imports[d] = "none" =>
                                 table[i].status = "absent"
<1>1. /\ upload \in [Documents -> Upload] /\ imports \in [Documents -> {"none", "pending", "done"}]
      /\ table \in [Invoices -> Row] /\ NoDocument \notin Documents
      /\ \A d \in Documents : FileNew(d)
      /\ \A d \in Documents : FilesOf(d) \subseteq Invoices
      /\ \A d, e \in Documents, i \in Invoices : i \in FilesOf(d) \cap FilesOf(e) => d = e
  BY PipelineAssumption DEF TypeOK, FilesAreNew, FilesOf
<1>2. ASSUME NEW d \in Documents, NEW i \in Invoices, CreateInvoice(d, i) PROVE FilesAreNew'
  <2>1. /\ i \in FilesOf(d) /\ imports' = imports
        /\ upload'[d] = [left |-> upload[d].left \ {i}, adding |-> i]
        /\ \A e \in Documents \ {d} : upload'[e] = upload[e] /\ i \notin FilesOf(e)
        /\ \A j \in Invoices \ {i} : table'[j] = table[j]
    BY <1>1, <1>2 DEF CreateInvoice, Upload
  <2>2. imports[d] # "none"
    BY <1>1, <1>2 DEF CreateInvoice
  <2>3. FileNew(d)'
    BY <1>1, <2>1, <2>2 DEF FilesOf
  <2>4. \A e \in Documents \ {d} : FileNew(e)'
    BY <1>1, <2>1 DEF FilesOf
  <2> QED
    BY <2>3, <2>4 DEF FilesAreNew
<1>3. CASE \A d \in Documents, i \in Invoices : ~CreateInvoice(d, i)
  <2>1. \A i \in Invoices : table[i].status = "absent" => table'[i].status = "absent"
    BY <1>3 DEF Uninserted
  <2> DEFINE Shrinks(d) == /\ upload'[d].left \subseteq upload[d].left
                           /\ upload'[d].adding \in {upload[d].adding, NoInvoice}
                           /\ imports'[d] = "none" => imports[d] = "none"
  <2>2. ASSUME NEW d \in Documents, Shrinks(d) PROVE FileNew(d)'
    BY <1>1, <2>1, <2>2 DEF FilesOf
  <2>3. ASSUME NEW d \in Documents, StartImport(d) PROVE FilesAreNew'
    <3>1. /\ imports[d] = "none" /\ imports'[d] = "pending"
          /\ upload'[d].left = FilesOf(d) /\ upload'[d].adding = upload[d].adding
      BY <1>1, <2>3 DEF StartImport, Upload
    <3>2. FileNew(d)'
      BY <1>1, <2>1, <3>1 DEF FilesOf
    <3>3. \A e \in Documents \ {d} : upload'[e] = upload[e] /\ imports'[e] = imports[e]
      BY <1>1, <2>3 DEF StartImport
    <3> QED
      BY <2>2, <3>2, <3>3 DEF FilesAreNew
  <2>4. \/ \E d \in Documents : StartImport(d)
        \/ \E d \in Documents, i \in Invoices : SkipFile(d, i)
        \/ \E d \in Documents : EnqueueFile(d)
        \/ \E t \in Tasks : FinishTask(t)
        \/ Crash
        \/ UNCHANGED <<upload, imports>>
    BY <1>3 DEF AutoNext, vars, UploadStep, WorkerStep, StartTask, ExtractFails, WriteInvoice,
         Extract, LookupDuplicate, ClearItems, SaveItem, QueueReview, RequestStep,
         VerifyFails, EnqueueReprocess, ReadForVerify, UpdateInvoiceAmounts, VerifyInvoice,
         ResetForReprocess
  <2>5. ASSUME NEW d \in Documents, EnqueueFile(d) \/ \E i \in Invoices : SkipFile(d, i)
        PROVE  \A e \in Documents : Shrinks(e)
    BY <1>1, <2>5 DEF SkipFile, EnqueueFile, Upload
  <2>6. ASSUME NEW t \in Tasks, FinishTask(t) PROVE \A e \in Documents : Shrinks(e)
    BY <1>1, <2>6 DEF FinishTask
  <2>7. ASSUME Crash PROVE \A e \in Documents : Shrinks(e)
    BY <2>7 DEF Crash, NoUpload
  <2>8. ASSUME UNCHANGED <<upload, imports>> PROVE \A e \in Documents : Shrinks(e)
    BY <2>8
  <2>9. (\E d \in Documents : StartImport(d)) \/ \A e \in Documents : Shrinks(e)
    BY <2>4, <2>5, <2>6, <2>7, <2>8
  <2>10. ASSUME \A e \in Documents : Shrinks(e) PROVE FilesAreNew'
    BY <2>2, <2>10 DEF FilesAreNew
  <2> HIDE DEF Shrinks
  <2> QED
    BY <2>3, <2>9, <2>10
<1> QED
  BY <1>2, <1>3

\* A run that found an original still has it: nothing demotes an original, and
\* nobody else writes the local variables of the run.
LEMMA FoundStep ==
  ASSUME StableReadings, TypeOK, OneOriginalPerKey, DuplicatesInv, [AutoNext]_vars,
         \A i \in Invoices : Keeps(i)
  PROVE  FoundIsOriginal'
<1> DEFINE Found(t) ==
      /\ At(t, "lookup") \/ At(t, "write") => HasRead(task[t].inv, run[t])
      /\ run[t].dup # NoInvoice =>
           /\ At(t, "write") \/ At(t, "clear")
           /\ At(t, "write") => /\ run[t].dup # task[t].inv
                                /\ Original(run[t].dup) /\ SameKey(table[run[t].dup], run[t])
<1>1. /\ task \in [Tasks -> Task] /\ run \in [Tasks -> Run]
      /\ \A t \in Tasks : Found(t)
  BY DEF TypeOK, DuplicatesInv, FoundIsOriginal
<1>2. ASSUME NEW j \in Invoices, Original(j), NEW r, SameKey(table[j], r)
      PROVE  Original(j)' /\ SameKey(table'[j], r)
  BY <1>2 DEF Keeps, SameKey
<1>3. ASSUME NEW t \in Tasks, run'[t] = run[t],
             \/ task'[t] = task[t]
             \/ task[t].st = "free" /\ task'[t].st = "queued"
      PROVE  Found(t)'
  <2>1. CASE task'[t] = task[t]
    <3>1. run[t] \in Run
      BY <1>1
    <3>2. \A pc : At(t, pc)' <=> At(t, pc)
      BY <1>3, <2>1 DEF At
    <3>3. HasRead(task[t].inv, run[t])' <=> HasRead(task[t].inv, run[t])
      BY <1>3, <2>1 DEF HasRead
    <3>4. ASSUME run[t].dup # NoInvoice, At(t, "write")
          PROVE  /\ run'[t].dup # task'[t].inv
                 /\ Original(run[t].dup)' /\ SameKey(table[run[t].dup], run[t])'
      <4>1. PICK j \in Invoices : j = run[t].dup /\ j = run'[t].dup
        BY <1>3, <3>1, <3>4 DEF Run
      <4>2. Original(j)' /\ SameKey(table'[j], run[t])
        BY <1>1, <1>2, <3>4, <4>1
      <4>3. j # task[t].inv
        BY <1>1, <3>4, <4>1
      <4> QED
        BY <1>3, <2>1, <4>1, <4>2, <4>3 DEF Original, Exists
    <3> QED
      BY <1>1, <1>3, <2>1, <3>2, <3>3, <3>4
  <2>2. CASE task[t].st = "free" /\ task'[t].st = "queued"
    BY <1>1, <1>3, <2>2 DEF At
  <2> QED
    BY <1>3, <2>1, <2>2
<1>4. ASSUME NEW t \in Tasks, WorkerStep(t) PROVE Found(t)'
  <2>1. /\ run[t] \in Run /\ task[t] \in Task /\ task[t].inv \in Invoices /\ Found(t)
        /\ (task[t].st # "active" \/ run[t].pc \notin {"write", "clear"}) => run[t].dup = NoInvoice
    BY <1>1, <1>4, OthersRest DEF At
  <2>2. CASE ExtractFails(t) \/ FinishTask(t)
    <3>1. run'[t] = IdleRun
      BY <1>1, <2>2 DEF ExtractFails, FinishTask
    <3> QED
      BY <3>1 DEF IdleRun, At
  <2>3. CASE StartTask(t)
    <3>1. run[t].dup = NoInvoice /\ run' = [run EXCEPT ![t].pc = "extract"]
      BY <2>1, <2>3 DEF StartTask, Goto
    <3>2. run'[t].pc = "extract" /\ run'[t].dup = NoInvoice
      BY <1>1, <2>1, <3>1 DEF Run
    <3> QED
      BY <3>2 DEF At
  <2>4. CASE Extract(t)
    <3>1. PICK reading \in Readings[task[t].inv], matched \in BOOLEAN, buyerOk \in BuyerChecks :
            run' = [run EXCEPT ![t] = [@ EXCEPT !.pc = "lookup",
                                                !.vendor = reading[1], !.docNo = reading[2],
                                                !.matched = matched,
                                                !.status = OcrStatus(matched, buyerOk)]]
      BY <2>4 DEF Extract
    <3>2. run'[t].pc = "lookup" /\ run'[t].dup = NoInvoice
          /\ run'[t].vendor = reading[1] /\ run'[t].docNo = reading[2]
      BY <1>1, <2>1, <2>4, <3>1 DEF Extract, At, Run
    <3>3. reading = <<reading[1], reading[2]>>
      <4>1. Readings[task[t].inv] \subseteq (Vendors \cup {Empty}) \X (DocNos \cup {Empty})
        BY <2>1, PipelineAssumption
      <4>2. reading \in (Vendors \cup {Empty}) \X (DocNos \cup {Empty})
        BY <4>1
      <4> QED
        BY <4>2
    <3>4. task' = task
      BY <2>4 DEF Extract
    <3> QED
      BY <3>2, <3>3, <3>4 DEF At, HasRead
  <2>5. CASE LookupDuplicate(t)
    <3>1. task' = task /\ table' = table /\ At(t, "lookup")
      BY <2>5 DEF LookupDuplicate
    <3>2. run[t].dup = NoInvoice /\ HasRead(task[t].inv, run[t])
      BY <2>1, <3>1 DEF At
    <3>3. CASE Goto(t, "write")
      <4>1. run'[t].pc = "write" /\ run'[t].dup = NoInvoice
            /\ run'[t].vendor = run[t].vendor /\ run'[t].docNo = run[t].docNo
        BY <1>1, <2>1, <3>2, <3>3 DEF Goto, Run
      <4> QED
        BY <3>1, <3>2, <4>1 DEF At, HasRead
    <3>4. ASSUME NEW j \in FindDuplicateInvoice(task[t].inv, run[t].vendor, run[t].docNo),
                 run' = [run EXCEPT ![t] = [@ EXCEPT !.pc = "write", !.dup = j, !.status = "conflict"]]
          PROVE  Found(t)'
      <4>1. run'[t].pc = "write" /\ run'[t].dup = j
            /\ run'[t].vendor = run[t].vendor /\ run'[t].docNo = run[t].docNo
        BY <1>1, <2>1, <3>4 DEF Run
      <4>2. j # task[t].inv /\ Original(j) /\ SameKey(table[j], run[t])
        BY <3>4 DEF FindDuplicateInvoice, SameKey
      <4> QED
        BY <3>1, <3>2, <4>1, <4>2 DEF At, HasRead, Original, Exists, SameKey
    <3> QED
      BY <2>5, <3>3, <3>4 DEF LookupDuplicate
  <2>6. CASE WriteInvoice(t)
    <3>1. run'[t].pc = "clear" /\ task'[t].st = "active"
      BY <1>1, <2>1, <2>6 DEF WriteInvoice, Goto, Run, At
    <3> QED
      BY <3>1 DEF At
  <2>7. CASE ClearItems(t)
    <3>1. run'[t].dup = NoInvoice /\ run'[t].pc \in {"finish", "item"}
      BY <1>1, <2>7 DEF ClearItems, IdleRun
    <3> QED
      BY <3>1 DEF At
  <2>8. CASE SaveItem(t) \/ QueueReview(t)
    <3>1. run[t].dup = NoInvoice
      <4>1. run[t].pc \in {"item", "review"}
        BY <2>8 DEF SaveItem, QueueReview, At
      <4> QED
        BY <2>1, <4>1
    <3>2. PastItem(t) \/ Goto(t, "review")
      BY <2>8 DEF SaveItem, QueueReview
    <3>3. run'[t].dup = NoInvoice /\ run'[t].pc \in {"item", "finish", "review"}
      BY <1>1, <2>1, <3>1, <3>2 DEF PastItem, Goto, Run
    <3> QED
      BY <3>3 DEF At
  <2> QED
    BY <1>4, <2>2, <2>3, <2>4, <2>5, <2>6, <2>7, <2>8 DEF WorkerStep
<1>5. CASE \E t \in Tasks : WorkerStep(t)
  <2>1. PICK t \in Tasks : WorkerStep(t)
    BY <1>5
  <2>2. \A s \in Tasks \ {t} : task'[s] = task[s] /\ run'[s] = run[s]
    BY <2>1, OthersRest
  <2>3. \A s \in Tasks : Found(s)'
    BY <1>3, <1>4, <2>1, <2>2
  <2> QED
    BY <2>3 DEF FoundIsOriginal
<1>6. CASE Crash
  BY <1>6 DEF Crash, FoundIsOriginal, IdleRun, At
<1>7. CASE run' = run /\ (UNCHANGED task \/ \E i : EnqueueProcessInvoice(i))
  <2>1. \A t \in Tasks : \/ task'[t] = task[t]
                         \/ task[t].st = "free" /\ task'[t].st = "queued"
    BY <1>1, <1>7 DEF EnqueueProcessInvoice
  <2>2. \A t \in Tasks : Found(t)'
    BY <1>3, <1>7, <2>1
  <2> QED
    BY <2>2 DEF FoundIsOriginal
<1>8. \/ \E t \in Tasks : WorkerStep(t)
      \/ Crash
      \/ run' = run /\ (UNCHANGED task \/ \E i : EnqueueProcessInvoice(i))
  BY DEF AutoNext, vars, UploadStep, StartImport, CreateInvoice, SkipFile, EnqueueFile, RequestStep,
         UpdateInvoiceAmounts, VerifyInvoice, VerifyFails, EnqueueReprocess, ReadForVerify,
         ResetForReprocess
<1> QED
  BY <1>5, <1>6, <1>7, <1>8

LEMMA DuplicatesStep ==
  ASSUME StableReadings, TypeOK, OneOriginalPerKey, DuplicatesInv, [AutoNext]_vars
  PROVE  DuplicatesInv' /\ \A i \in Invoices : Keeps(i)
BY RowsStep, FilesStep, FoundStep DEF DuplicatesInv

LEMMA DuplicatesInit == Init => DuplicatesInv
<1> SUFFICES ASSUME Init PROVE DuplicatesInv
  OBVIOUS
<1>1. RowsAreRead /\ DuplicatesPointAtOriginals
  BY DEF Init, NoRow, RowsAreRead, Unread, DuplicatesPointAtOriginals
<1>2. FoundIsOriginal /\ FilesAreNew
  BY DEF Init, IdleRun, FreeTask, NoUpload, NoRow, FoundIsOriginal, At, FilesAreNew, FilesOf
<1> QED
  BY <1>1, <1>2 DEF DuplicatesInv

LEMMA AutoInvariants == AutoSpec => []TypeOK /\ []OneOriginalPerKey
<1>1. [AutoNext]_vars => [Next]_vars
  BY DEF Next
<1> QED
  BY <1>1, TypeCorrect, OriginalsUnique, PTL DEF AutoSpec, Spec

LEMMA DuplicatesAlways == StableReadings => (AutoSpec => []DuplicatesInv)
<1> SUFFICES ASSUME StableReadings PROVE AutoSpec => []DuplicatesInv
  OBVIOUS
<1>1. TypeOK /\ OneOriginalPerKey /\ DuplicatesInv /\ [AutoNext]_vars => DuplicatesInv'
  BY DuplicatesStep
<1> QED
  BY <1>1, DuplicatesInit, AutoInvariants, PTL DEF AutoSpec

\* As long as nobody edits or deletes invoices and OCR reads a file always the
\* same, a duplicate points at an original with its vendor and number: no chains
\* and no cycles, whatever fails, crashes, is retried or reprocessed.
THEOREM DuplicatesHaveOriginals == StableReadings => (AutoSpec => []DuplicatesPointAtOriginals)
<1>1. DuplicatesInv => DuplicatesPointAtOriginals
  BY DEF DuplicatesInv
<1> QED
  BY <1>1, DuplicatesAlways, PTL

\* On the same terms the document that was the original first stays it.
THEOREM OriginalsStay == StableReadings => (AutoSpec => OriginalNeverDemoted)
<1> SUFFICES ASSUME StableReadings PROVE AutoSpec => OriginalNeverDemoted
  OBVIOUS
<1>1. TypeOK /\ OneOriginalPerKey /\ DuplicatesInv /\ [AutoNext]_vars
        => [\A i \in Invoices : Original(i) => Original(i)']_vars
  BY DuplicatesStep DEF Keeps
<1> QED
  BY <1>1, DuplicatesAlways, AutoInvariants, PTL DEF AutoSpec, OriginalNeverDemoted

\* The refinement mapping: the key an invoice is registered under, and the
\* originals, which are the holders of the keys.
RegisteredKey(row) == IF HasKey(row) THEN <<row.vendor, row.docNo>> ELSE <<Empty, Empty>>
RegisteredOriginal(i, row) == IF HasKey(row) /\ row.dup = NoInvoice THEN i ELSE row.dup

LEMMA RegistryIdle ==
  ASSUME \A i \in Invoices : /\ RegisteredKey(table'[i]) = RegisteredKey(table[i])
                             /\ RegisteredOriginal(i, table'[i]) = RegisteredOriginal(i, table[i])
  PROVE  UNCHANGED Registry!vars
BY DEF Registry!vars, RegisteredKey, RegisteredOriginal

LEMMA HoldersAreOriginals ==
  ASSUME TypeOK, DuplicatesInv, NEW vendor \in Vendors, NEW docNo \in DocNos, NEW j
  PROVE  j \in Registry!Holders(<<vendor, docNo>>) <=>
           /\ j \in Invoices /\ Original(j)
           /\ table[j].vendor = vendor /\ table[j].docNo = docNo
<1> SUFFICES ASSUME j \in Invoices
             PROVE  j \in Registry!Holders(<<vendor, docNo>>) <=>
                      /\ Original(j)
                      /\ table[j].vendor = vendor /\ table[j].docNo = docNo
  BY DEF Registry!Holders
<1>1. table[j] \in Row /\ j # NoInvoice /\ Empty \notin Vendors /\ Empty \notin DocNos
  BY PipelineAssumption DEF TypeOK
<1>2. HasKey(table[j]) => Exists(j)
  BY DEF DuplicatesInv, RowsAreRead, HasKey, NoRow
<1>3. table[j].dup # j
  BY <1>1 DEF DuplicatesInv, DuplicatesPointAtOriginals, Original
<1>4. RegisteredKey(table[j]) = <<vendor, docNo>> <=>
        HasKey(table[j]) /\ table[j].vendor = vendor /\ table[j].docNo = docNo
  BY <1>1 DEF RegisteredKey, HasKey
<1>5. RegisteredOriginal(j, table[j]) = j <=> HasKey(table[j]) /\ table[j].dup = NoInvoice
  BY <1>3 DEF RegisteredOriginal
<1>6. j \in Registry!Holders(<<vendor, docNo>>) <=>
        RegisteredKey(table[j]) = <<vendor, docNo>> /\ RegisteredOriginal(j, table[j]) = j
  BY DEF Registry!Holders, RegisteredKey, RegisteredOriginal
<1> QED
  BY <1>2, <1>4, <1>5, <1>6 DEF Original

\* WriteInvoice registers its invoice, or leaves the registry as it is: the unique
\* index refuses a second original, the lookup found a holder, and an invoice that
\* is registered keeps its key and its original.
LEMMA WriteRegisters ==
  ASSUME StableReadings, TypeOK, OneOriginalPerKey, DuplicatesInv,
         NEW t \in Tasks, WriteInvoice(t)
  PROVE  [Registry!Next]_(Registry!vars)
<1> DEFINE i == task[t].inv
           r == run[t]
           row == UpdateInvoiceData(i, r.status, r.vendor, r.docNo, r.dup, "ocr")
<1>1. /\ r \in Run /\ i \in Invoices /\ table[i] \in Row /\ At(t, "write")
      /\ Readings[i] \in SUBSET ((Vendors \cup {Empty}) \X (DocNos \cup {Empty}))
      /\ Empty \notin Vendors /\ Empty \notin DocNos /\ i # NoInvoice
  BY TaskFacts, PipelineAssumption DEF WriteInvoice, At, TypeOK
<1>2. table' = table \/ table' = Updated(i, row)
  BY DEF WriteInvoice
<1>3. CASE table' = table
  BY <1>3, RegistryIdle
<1>4. CASE /\ table' # table /\ table' = Updated(i, row)
  <2>1. /\ Exists(i) /\ Admitted(i, row) /\ table'[i] = row
        /\ \A j \in Invoices \ {i} : table'[j] = table[j]
    BY <1>1, <1>4 DEF Updated, TypeOK
  <2>2. HasRead(i, r) /\ (HasRead(i, table[i]) \/ Unread(table[i]))
    BY <1>1 DEF DuplicatesInv, FoundIsOriginal, RowsAreRead
  <2>3. /\ row.vendor = IF r.vendor # Empty THEN r.vendor ELSE table[i].vendor
        /\ row.docNo = IF r.docNo # Empty THEN r.docNo ELSE table[i].docNo
        /\ row.dup = IF r.dup # NoInvoice THEN r.dup ELSE table[i].dup
    BY <1>1 DEF UpdateInvoiceData, Row
  <2>4. HasRead(i, table[i]) => SameKey(table[i], r)
    BY <1>1, <2>2 DEF HasRead, StableReadings, SameKey
  <2>5. SameKey(row, r)
    BY <2>2, <2>3, <2>4 DEF Unread, SameKey
  <2> HIDE DEF row
  <2>6. r.dup # NoInvoice =>
          r.dup \in Invoices \ {i} /\ Original(r.dup) /\ SameKey(table[r.dup], r)
    BY <1>1 DEF DuplicatesInv, FoundIsOriginal, Run
  <2>7. table[i].dup # NoInvoice =>
          /\ table[i].dup \in Invoices
          /\ Original(table[i].dup) /\ SameKey(table[i], table[table[i].dup])
    BY <1>1 DEF DuplicatesInv, DuplicatesPointAtOriginals, Row
  <2>8. CASE HasKey(table[i])
    <3>1. SameKey(row, table[i])
      BY <2>2, <2>4, <2>5, <2>8 DEF HasKey, Unread, SameKey
    <3>2. row.dup = table[i].dup
      <4>1. ASSUME r.dup # NoInvoice PROVE table[i].dup # NoInvoice
        BY <1>1, <2>1, <2>2, <2>4, <2>6, <2>8, <4>1
           DEF OneOriginalPerKey, Original, SameKey, HasKey, Unread
      <4>2. ASSUME r.dup # NoInvoice PROVE r.dup = table[i].dup
        BY <2>2, <2>4, <2>6, <2>7, <2>8, <4>1, <4>2
           DEF OneOriginalPerKey, SameKey, HasKey, Unread
      <4> QED
        BY <2>3, <4>2
    <3>3. /\ RegisteredKey(row) = RegisteredKey(table[i])
          /\ RegisteredOriginal(i, row) = RegisteredOriginal(i, table[i])
      BY <3>1, <3>2 DEF RegisteredKey, RegisteredOriginal, HasKey, SameKey
    <3> QED
      BY <2>1, <3>3, RegistryIdle
  <2>9. CASE ~HasKey(table[i])
    <3>1. table[i].dup = NoInvoice
      BY <2>7, <2>9 DEF Original, HasKey, SameKey
    <3>2. CASE ~HasKey(row)
      <4>1. row.dup = NoInvoice
        BY <2>3, <2>5, <2>6, <3>1, <3>2 DEF Original, HasKey, SameKey
      <4>2. /\ RegisteredKey(row) = RegisteredKey(table[i])
            /\ RegisteredOriginal(i, row) = RegisteredOriginal(i, table[i])
        BY <2>9, <3>1, <3>2, <4>1 DEF RegisteredKey, RegisteredOriginal
      <4> QED
        BY <2>1, <4>2, RegistryIdle
    <3>3. CASE HasKey(row)
      <4> DEFINE k == <<row.vendor, row.docNo>>
                 o == RegisteredOriginal(i, row)
      <4>1. row.vendor \in Vendors /\ row.docNo \in DocNos
        BY <1>1, <2>5, <3>3 DEF HasKey, SameKey, Run
      <4>2. Registry!Register(i, k, o)
        <5>1. RegisteredKey(table[i]) = <<Empty, Empty>> /\ RegisteredKey(row) = k
          BY <2>9, <3>3 DEF RegisteredKey
        <5> HIDE DEF k, o
        <5>2. \A j \in Invoices :
                /\ RegisteredKey(table'[j]) = IF j = i THEN k ELSE RegisteredKey(table[j])
                /\ RegisteredOriginal(j, table'[j]) =
                     IF j = i THEN o ELSE RegisteredOriginal(j, table[j])
          BY <2>1, <5>1 DEF o
        <5> QED
          BY <1>1, <5>1, <5>2 DEF Registry!Register, RegisteredKey, RegisteredOriginal
      <4>3. i \in Invoices /\ k \in Vendors \X DocNos
        BY <1>1, <4>1
      <4>4. ASSUME r.dup = NoInvoice PROVE Registry!RegisterOriginal(i, k)
        <5>1. o = i /\ row.dup = NoInvoice
          BY <2>3, <3>1, <3>3, <4>4 DEF RegisteredOriginal
        <5> HIDE DEF o
        <5>2. Registry!Holders(k) = {}
          <6> SUFFICES ASSUME NEW j \in Registry!Holders(k) PROVE FALSE
            OBVIOUS
          <6>1. j \in Invoices /\ Original(j) /\ SameKey(table[j], row)
            BY <4>1, HoldersAreOriginals DEF SameKey
          <6> QED
            BY <2>1, <2>9, <3>3, <5>1, <6>1 DEF Admitted, Original
        <5> HIDE DEF i, k
        <5> QED
          BY <4>2, <5>1, <5>2 DEF Registry!RegisterOriginal, Registry!Register
      <4>5. ASSUME r.dup # NoInvoice PROVE Registry!RegisterDuplicate(i, k)
        <5>1. o = r.dup
          BY <1>1, <2>3, <4>5 DEF RegisteredOriginal
        <5>2. o \in Registry!Holders(k)
          BY <2>5, <2>6, <4>1, <4>5, <5>1, HoldersAreOriginals DEF SameKey
        <5> HIDE DEF i, k, o
        <5> QED
          BY <4>2, <5>2 DEF Registry!RegisterDuplicate, Registry!Register
      <4>6. Registry!RegisterOriginal(i, k) \/ Registry!RegisterDuplicate(i, k)
        BY <4>4, <4>5
      <4> HIDE DEF i, k
      <4> QED
        BY <4>3, <4>6 DEF Registry!Next, Registry!RegisterOriginal, Registry!RegisterDuplicate,
                          Registry!Register
    <3> QED
      BY <3>2, <3>3
  <2> QED
    BY <2>8, <2>9
<1> QED
  BY <1>2, <1>3, <1>4

\* Every other step is quiet about the rows: the registry does not see it.
LEMMA RegistryStep ==
  ASSUME StableReadings, TypeOK, OneOriginalPerKey, DuplicatesInv, [AutoNext]_vars
  PROVE  [Registry!Next]_(Registry!vars)
<1>1. CASE \A t \in Tasks : ~WriteInvoice(t)
  <2>1. \A i \in Invoices : Quiet(i)
    BY <1>1, QuietSteps
  <2> QED
    BY <2>1, RegistryIdle DEF Quiet, RegisteredKey, RegisteredOriginal, HasKey
<1> QED
  BY <1>1, WriteRegisters

\* On the same terms the pipeline implements the registry: a lookup and a write that
\* are two statements of runs that interleave, fail and repeat settle the original
\* of an invoice as one step would, once and for good.
THEOREM ImplementsRegistry == StableReadings => (AutoSpec => KeepsRegistry)
<1> SUFFICES ASSUME StableReadings PROVE AutoSpec => KeepsRegistry
  OBVIOUS
<1>1. Init => Registry!Init
  BY DEF Init, Registry!Init, NoRow, HasKey
<1>2. TypeOK /\ OneOriginalPerKey /\ DuplicatesInv /\ [AutoNext]_vars
        => [Registry!Next]_(Registry!vars)
  BY RegistryStep
<1> QED
  BY <1>1, <1>2, DuplicatesAlways, AutoInvariants, PTL DEF AutoSpec, KeepsRegistry, Registry!Spec

\* Without reprocessing an invoice has one task.
OneTaskEach ==
  /\ \A s, t \in Tasks :
       task[s].st # "free" /\ task[t].st # "free" /\ task[s].inv = task[t].inv => s = t
  /\ \A t \in Tasks : task[t].st # "free" => table[task[t].inv].status # "absent"
  /\ \A d \in Documents :
       upload[d].adding # NoInvoice =>
         /\ table[upload[d].adding].status # "absent"
         /\ \A t \in Tasks : task[t].st # "free" => task[t].inv # upload[d].adding
  /\ \A u \in Users : request[u].pc # "enqueue"

\* What the run of an invoice found is what its row says, or will say.
LookupStands ==
  \A t \in Tasks :
    At(t, "write") => IF run[t].dup = NoInvoice THEN table[task[t].inv].dup = NoInvoice
                                                ELSE run[t].status # "verified"

SingleInv == OneTaskEach /\ LookupStands /\ DuplicatesAwaitAHuman

LEMMA OneTaskStep ==
  ASSUME TypeOK, FilesAreNew, OneTaskEach, Reprocessors = {}, [AutoNext]_vars,
         \A i \in Invoices : Keeps(i)
  PROVE  OneTaskEach'
<1>1. /\ upload \in [Documents -> Upload] /\ task \in [Tasks -> Task]
      /\ request \in [Users -> Request] /\ NoInvoice \notin Invoices
      /\ \A t \in Tasks : task[t].st # "free" => task[t].inv \in Invoices
      /\ \A d \in Documents : upload[d].adding # NoInvoice => upload[d].adding \in Invoices
      /\ \A d, e \in Documents :
           upload[d].adding # NoInvoice /\ upload[d].adding = upload[e].adding => d = e
      /\ \A d, e \in Documents, i \in Invoices : i \in FilesOf(d) \cap FilesOf(e) => d = e
  BY PipelineAssumption DEF TypeOK, HasInvoice, Upload, FilesAreNew, FilesOf
<1>2. \A i \in Invoices : table[i].status # "absent" => table'[i].status # "absent"
  BY DEF Keeps
<1>3. ASSUME \A t \in Tasks : task'[t].st # "free" => task[t].st # "free" /\ task'[t].inv = task[t].inv,
             \A d \in Documents : upload'[d].adding \in {upload[d].adding, NoInvoice},
             \A u \in Users : request'[u].pc # "enqueue"
      PROVE  OneTaskEach'
  BY <1>1, <1>2, <1>3 DEF OneTaskEach
<1>4. ASSUME NEW d \in Documents, NEW i \in Invoices, CreateInvoice(d, i) PROVE OneTaskEach'
  <2>1. /\ task' = task /\ request' = request /\ table[i].status = "absent"
        /\ upload'[d].adding = i /\ \A e \in Documents \ {d} : upload'[e] = upload[e]
    BY <1>1, <1>4 DEF CreateInvoice, FilesAreNew
  <2>2. table'[i].status # "absent"
    BY <1>4 DEF CreateInvoice, TypeOK, NoRow
  <2> QED
    BY <1>1, <1>2, <2>1, <2>2 DEF OneTaskEach
<1>5. ASSUME NEW d \in Documents, EnqueueFile(d) PROVE OneTaskEach'
  <2>1. /\ upload[d].adding # NoInvoice /\ upload'[d].adding = NoInvoice /\ request' = request
        /\ \A e \in Documents \ {d} : upload'[e] = upload[e]
    BY <1>1, <1>5 DEF EnqueueFile, Upload
  <2>2. CASE UNCHANGED task
    BY <1>3, <2>1, <2>2 DEF OneTaskEach
  <2>3. CASE EnqueueProcessInvoice(upload[d].adding)
    <3> DEFINE i == upload[d].adding
    <3>1. PICK t \in Tasks : /\ task'[t].st = "queued" /\ task'[t].inv = i
                             /\ \A s \in Tasks \ {t} : task'[s] = task[s]
      BY <1>1, <2>3 DEF EnqueueProcessInvoice
    <3>2. /\ i \in Invoices /\ table[i].status # "absent" /\ table'[i].status # "absent"
          /\ \A s \in Tasks : task[s].st # "free" => task[s].inv # i
          /\ \A e \in Documents \ {d} : upload[e].adding # i
      BY <1>1, <1>2, <2>1 DEF OneTaskEach
    <3> HIDE DEF i
    <3> QED
      BY <1>1, <1>2, <2>1, <3>1, <3>2 DEF OneTaskEach
  <2> QED
    BY <1>5, <2>2, <2>3 DEF EnqueueFile
<1>6. ASSUME NEW t \in Tasks, WorkerStep(t) PROVE OneTaskEach'
  <2>1. upload' = upload /\ request' = request
    BY <1>6 DEF WorkerStep, StartTask, ExtractFails, Extract, LookupDuplicate, WriteInvoice,
         ClearItems, SaveItem, QueueReview, FinishTask
  <2>2. \A s \in Tasks : task'[s].st # "free" => task[s].st # "free" /\ task'[s].inv = task[s].inv
    BY <1>6, OthersRest
  <2> QED
    BY <1>3, <2>1, <2>2 DEF OneTaskEach
<1>7. CASE Crash
  <2>1. \A t \in Tasks : task'[t].st # "free" => task[t].st # "free" /\ task'[t].inv = task[t].inv
    <3>1. \A t \in Tasks : Retried(t).inv = task[t].inv
      BY <1>1 DEF Retried, Task
    <3> QED
      BY <1>7, <3>1 DEF Crash
  <2> QED
    BY <1>3, <1>7, <2>1 DEF Crash, NoUpload, IdleRequest
<1>8. ASSUME UNCHANGED <<task, upload>>, \A u \in Users : request'[u].pc # "enqueue" PROVE OneTaskEach'
  BY <1>3, <1>8
<1>9. ASSUME NEW d \in Documents, StartImport(d) \/ \E i \in Invoices : SkipFile(d, i) PROVE OneTaskEach'
  <2>1. task' = task /\ request' = request /\ \A e \in Documents : upload'[e].adding = upload[e].adding
    BY <1>1, <1>9 DEF StartImport, SkipFile, Upload
  <2> QED
    BY <1>3, <2>1 DEF OneTaskEach
<1>10. ASSUME NEW u \in Users, RequestStep(u) \/ \E i \in Invoices : ReadForVerify(u, i) PROVE OneTaskEach'
  <2>1. request[u].pc # "enqueue" /\ \A v \in Users : request[v].pc # "enqueue"
    BY DEF OneTaskEach
  <2>2. UNCHANGED <<task, upload>>
    BY <1>10, <2>1 DEF RequestStep, UpdateInvoiceAmounts, VerifyInvoice, VerifyFails,
         EnqueueReprocess, ReadForVerify
  <2>3. request'[u].pc # "enqueue" /\ \A v \in Users \ {u} : request'[v] = request[v]
    BY <1>1, <1>10, <2>1 DEF RequestStep, UpdateInvoiceAmounts, VerifyInvoice, VerifyFails,
         EnqueueReprocess, ReadForVerify, IdleRequest, Request
  <2> QED
    BY <1>8, <2>1, <2>2, <2>3
<1>11. ASSUME UNCHANGED vars PROVE OneTaskEach'
  BY <1>8, <1>11 DEF vars, OneTaskEach
<1> QED
  BY <1>4, <1>5, <1>6, <1>7, <1>9, <1>10, <1>11 DEF AutoNext, UploadStep, Users

\* Of a step on one task the others notice nothing they rely on.
LEMMA LookupStep ==
  ASSUME StableReadings, TypeOK, DuplicatesInv, SingleInv, ~Faults, [AutoNext]_vars
  PROVE  LookupStands'
<1> DEFINE Stands(t) ==
      At(t, "write") => IF run[t].dup = NoInvoice THEN table[task[t].inv].dup = NoInvoice
                                                  ELSE run[t].status # "verified"
<1>1. /\ task \in [Tasks -> Task] /\ run \in [Tasks -> Run] /\ table \in [Invoices -> Row]
      /\ \A t \in Tasks : Stands(t) /\ (At(t, "write") => task[t].inv \in Invoices)
  BY TaskFacts DEF TypeOK, SingleInv, LookupStands, At
<1>2. ASSUME NEW t \in Tasks, At(t, "write") => run'[t] = run[t] /\ task'[t] = task[t],
             At(t, "write") => table'[task[t].inv].dup = table[task[t].inv].dup,
             At(t, "write")' => At(t, "write")
      PROVE  Stands(t)'
  BY <1>1, <1>2
<1>3. ASSUME NEW t \in Tasks, LookupDuplicate(t) PROVE Stands(t)'
  <2> DEFINE i == task[t].inv
             found == FindDuplicateInvoice(i, run[t].vendor, run[t].docNo)
  <2>1. /\ task' = task /\ table' = table /\ i \in Invoices /\ run[t].dup = NoInvoice
        /\ run[t] \in Run /\ HasRead(i, run[t])
    <3>1. At(t, "lookup")
      BY <1>3 DEF LookupDuplicate
    <3> QED
      BY <1>1, <1>3, <3>1, TaskFacts DEF LookupDuplicate, At, DuplicatesInv, FoundIsOriginal
  <2>2. ASSUME found = {}, Goto(t, "write") PROVE Stands(t)'
    <3>1. table[i].dup = NoInvoice
      <4> SUFFICES ASSUME table[i].dup # NoInvoice PROVE FALSE
        OBVIOUS
      <4>1. PICK j \in Invoices : j = table[i].dup
        BY <1>1, <2>1 DEF Row
      <4>2. Original(j) /\ SameKey(table[i], table[j]) /\ j # i
        BY <2>1, <4>1 DEF DuplicatesInv, DuplicatesPointAtOriginals, Original
      <4>3. HasRead(i, table[i])
        BY <2>1, <4>2 DEF DuplicatesInv, RowsAreRead, Unread, SameKey, Original, HasKey
      <4>4. table[i].vendor = run[t].vendor /\ table[i].docNo = run[t].docNo
        BY <2>1, <4>3 DEF HasRead, StableReadings
      <4>5. j \in found
        BY <4>2, <4>4 DEF FindDuplicateInvoice, SameKey
      <4> QED
        BY <2>2, <4>5
    <3>2. run'[t].dup = NoInvoice
      BY <1>1, <2>1, <2>2 DEF Goto, Run
    <3> QED
      BY <2>1, <3>1, <3>2
  <2>3. ASSUME NEW j \in found,
               run' = [run EXCEPT ![t] = [@ EXCEPT !.pc = "write", !.dup = j, !.status = "conflict"]]
        PROVE  Stands(t)'
    <3>1. run'[t].dup = j /\ run'[t].status = "conflict" /\ j # NoInvoice
      BY <1>1, <2>1, <2>3, PipelineAssumption DEF Run, FindDuplicateInvoice
    <3> QED
      BY <3>1
  <2> QED
    BY <1>3, <2>2, <2>3 DEF LookupDuplicate
<1>4. ASSUME NEW t \in Tasks, WorkerStep(t) PROVE LookupStands'
  <2>1. \A s \in Tasks \ {t} : task'[s] = task[s] /\ run'[s] = run[s]
    BY <1>4, OthersRest
  <2>2. \A s \in Tasks \ {t} : At(s, "write") => table'[task[s].inv].dup = table[task[s].inv].dup
    <3> SUFFICES ASSUME NEW s \in Tasks \ {t}, At(s, "write")
                 PROVE  table'[task[s].inv].dup = table[task[s].inv].dup
      OBVIOUS
    <3>1. CASE WriteInvoice(t)
      <4>1. task[t].inv # task[s].inv /\ task[t].inv \in Invoices
        BY <3>1, TaskFacts DEF SingleInv, OneTaskEach, WriteInvoice, At
      <4> QED
        BY <1>1, <3>1, <4>1, UpdatedRow DEF WriteInvoice
    <3>2. CASE ExtractFails(t)
      <4>1. task[t].inv \in Invoices
        BY <3>2, TaskFacts DEF ExtractFails, At
      <4> QED
        BY <1>1, <3>2, <4>1, StatusQuiet DEF ExtractFails, Quiet
    <3>3. CASE ~WriteInvoice(t) /\ ~ExtractFails(t)
      BY <1>4, <3>3 DEF WorkerStep, StartTask, Extract, LookupDuplicate, ClearItems, SaveItem,
         QueueReview, FinishTask
    <3> QED
      BY <3>1, <3>2, <3>3
  <2>3. \A s \in Tasks \ {t} : Stands(s)'
    BY <1>2, <2>1, <2>2 DEF At
  <2>4. Stands(t)'
    <3>1. CASE LookupDuplicate(t)
      BY <1>3, <3>1
    <3>2. CASE ~LookupDuplicate(t)
      <4>1. CASE ExtractFails(t) \/ FinishTask(t)
        BY <1>1, <4>1 DEF ExtractFails, FinishTask, IdleRun, At
      <4>2. CASE StartTask(t) \/ WriteInvoice(t)
        BY <1>1, <4>2 DEF StartTask, WriteInvoice, Goto, At, Run
      <4>3. CASE ClearItems(t)
        <5>1. run'[t].pc \in {"finish", "item"}
          BY <1>1, <4>3 DEF ClearItems, IdleRun
        <5> QED
          BY <5>1 DEF At
      <4>4. CASE Extract(t)
        <5>1. PICK reading \in Readings[task[t].inv], matched \in BOOLEAN, buyerOk \in BuyerChecks :
                run' = [run EXCEPT ![t] = [@ EXCEPT !.pc = "lookup",
                                                    !.vendor = reading[1], !.docNo = reading[2],
                                                    !.matched = matched,
                                                    !.status = OcrStatus(matched, buyerOk)]]
          BY <4>4 DEF Extract
        <5>2. run'[t].pc = "lookup"
          BY <1>1, <5>1 DEF Run
        <5> QED
          BY <5>2 DEF At
      <4>5. CASE SaveItem(t) \/ QueueReview(t)
        <5>1. PastItem(t) \/ Goto(t, "review")
          BY <4>5 DEF SaveItem, QueueReview
        <5> QED
          BY <1>1, <5>1 DEF PastItem, Goto, At, Run
      <4> QED
        BY <1>4, <3>2, <4>1, <4>2, <4>3, <4>4, <4>5 DEF WorkerStep
    <3> QED
      BY <3>1, <3>2
  <2> QED
    BY <2>3, <2>4 DEF LookupStands
<1>5. CASE \A t \in Tasks : ~WorkerStep(t)
  <2>1. \A i \in Invoices : table'[i].dup = table[i].dup
    BY <1>5, QuietSteps DEF WorkerStep, Quiet
  <2>2. CASE Crash
    BY <2>2 DEF Crash, LookupStands, At, IdleRun
  <2>3. CASE ~Crash
    <3>1. run' = run /\ (UNCHANGED task \/ \E i : EnqueueProcessInvoice(i))
      BY <1>5, <2>3 DEF AutoNext, vars, UploadStep, StartImport, CreateInvoice, SkipFile, EnqueueFile,
         RequestStep, UpdateInvoiceAmounts, VerifyInvoice, VerifyFails, EnqueueReprocess,
         ReadForVerify, ResetForReprocess
    <3>2. \A t \in Tasks : \/ task'[t] = task[t]
                           \/ task[t].st = "free" /\ task'[t].st = "queued"
      BY <1>1, <3>1 DEF EnqueueProcessInvoice
    <3>3. \A t \in Tasks : Stands(t)'
      BY <1>1, <1>2, <2>1, <3>1, <3>2 DEF At
    <3> QED
      BY <3>3 DEF LookupStands
  <2> QED
    BY <2>2, <2>3
<1> QED
  BY <1>4, <1>5

\* A duplicate is called verified by a human only.
LEMMA HumanStep ==
  ASSUME TypeOK, DuplicatesInv, SingleInv, [AutoNext]_vars
  PROVE  DuplicatesAwaitAHuman'
<1> DEFINE Awaits(i) == table[i].dup # NoInvoice /\ table[i].status = "verified" => table[i].byHuman
<1>1. table \in [Invoices -> Row] /\ \A i \in Invoices : Awaits(i)
  BY DEF TypeOK, SingleInv, DuplicatesAwaitAHuman
<1>2. ASSUME NEW i \in Invoices, NEW row, table' = Updated(i, row),
             row.dup # NoInvoice /\ row.status = "verified" => row.byHuman
      PROVE  DuplicatesAwaitAHuman'
  <2>1. \A j \in Invoices : Awaits(j)'
    BY <1>1, <1>2, UpdatedRow
  <2> QED
    BY <2>1 DEF DuplicatesAwaitAHuman
<1>3. ASSUME UNCHANGED table PROVE DuplicatesAwaitAHuman'
  BY <1>1, <1>3 DEF DuplicatesAwaitAHuman
<1>4. ASSUME NEW d \in Documents, NEW i \in Invoices, CreateInvoice(d, i) PROVE DuplicatesAwaitAHuman'
  <2>1. table'[i].dup = NoInvoice /\ \A j \in Invoices \ {i} : table'[j] = table[j]
    BY <1>1, <1>4 DEF CreateInvoice, NoRow
  <2> QED
    BY <1>1, <2>1 DEF DuplicatesAwaitAHuman
<1>5. ASSUME NEW i \in Invoices, NEW status \in {"pending", "conflict"},
             table' = Updated(i, StatusOnly(i, status))
      PROVE  DuplicatesAwaitAHuman'
  <2> DEFINE row == StatusOnly(i, status)
  <2>1. row.status # "verified"
    BY <1>1 DEF StatusOnly, UpdateInvoiceData, Row
  <2> HIDE DEF row
  <2> QED
    BY <1>2, <1>5, <2>1 DEF row
<1>6. ASSUME NEW t \in Tasks, WriteInvoice(t) PROVE DuplicatesAwaitAHuman'
  <2> DEFINE i == task[t].inv
             r == run[t]
             row == UpdateInvoiceData(i, r.status, r.vendor, r.docNo, r.dup, "ocr")
  <2>1. i \in Invoices /\ table[i] \in Row /\ At(t, "write")
    BY <1>1, <1>6, TaskFacts DEF WriteInvoice, At
  <2>2. row.status = r.status /\ row.dup = IF r.dup # NoInvoice THEN r.dup ELSE table[i].dup
    BY <2>1 DEF UpdateInvoiceData, Row
  <2>3. IF r.dup = NoInvoice THEN table[i].dup = NoInvoice ELSE r.status # "verified"
    BY <2>1 DEF SingleInv, LookupStands
  <2>4. table' = table \/ table' = Updated(i, row)
    BY <1>6 DEF WriteInvoice
  <2> HIDE DEF row
  <2> QED
    BY <1>2, <1>3, <2>1, <2>2, <2>3, <2>4
<1>7. ASSUME NEW t \in Tasks, ExtractFails(t) PROVE DuplicatesAwaitAHuman'
  <2>1. task[t].inv \in Invoices
    BY <1>7, TaskFacts DEF ExtractFails, At
  <2> QED
    BY <1>3, <1>5, <1>7, <2>1 DEF ExtractFails
<1>8. ASSUME NEW u \in Users, UpdateInvoiceAmounts(u) \/ VerifyInvoice(u) PROVE DuplicatesAwaitAHuman'
  <2> DEFINE i == request[u].inv
  <2>1. i \in Invoices /\ table[i] \in Row /\ Awaits(i)
    BY <1>1, <1>8 DEF UpdateInvoiceAmounts, VerifyInvoice, TypeOK, Pursues
  <2>2. CASE UpdateInvoiceAmounts(u)
    <3> DEFINE row == [table[i] EXCEPT !.amounts = request[u].amounts]
    <3>1. row.dup # NoInvoice /\ row.status = "verified" => row.byHuman
      BY <2>1 DEF Row
    <3>2. table' = Updated(i, row)
      BY <2>2 DEF UpdateInvoiceAmounts
    <3> HIDE DEF row
    <3> QED
      BY <1>2, <2>1, <3>1, <3>2
  <2>3. CASE VerifyInvoice(u)
    <3> DEFINE row == [table[i] EXCEPT !.status = "verified", !.byHuman = TRUE]
    <3>1. row.byHuman
      BY <2>1 DEF Row
    <3>2. table' = Updated(i, row)
      BY <2>3 DEF VerifyInvoice
    <3> HIDE DEF row
    <3> QED
      BY <1>2, <2>1, <3>1, <3>2
  <2> QED
    BY <1>8, <2>2, <2>3
<1>9. ASSUME NEW u \in Reprocessors, NEW i \in Invoices, ResetForReprocess(u, i) PROVE DuplicatesAwaitAHuman'
  BY <1>3, <1>5, <1>9 DEF ResetForReprocess
<1>10. \/ UNCHANGED table
       \/ \E d \in Documents, i \in Invoices : CreateInvoice(d, i)
       \/ \E t \in Tasks : ExtractFails(t) \/ WriteInvoice(t)
       \/ \E u \in Users : UpdateInvoiceAmounts(u) \/ VerifyInvoice(u)
       \/ \E u \in Reprocessors, i \in Invoices : ResetForReprocess(u, i)
  BY DEF AutoNext, vars, UploadStep, StartImport, SkipFile, EnqueueFile, WorkerStep, StartTask,
         Extract, LookupDuplicate, ClearItems, SaveItem, QueueReview, FinishTask, RequestStep,
         VerifyFails, EnqueueReprocess, ReadForVerify, Crash
<1> QED
  BY <1>3, <1>4, <1>6, <1>7, <1>8, <1>9, <1>10

\* On the same terms, and as long as every lookup is answered and no invoice is
\* reprocessed, nothing but a human calls a duplicate verified.
THEOREM HumansDecideDuplicates ==
  StableReadings /\ ~Faults /\ Reprocessors = {} => (AutoSpec => []DuplicatesAwaitAHuman)
<1> SUFFICES ASSUME StableReadings, ~Faults, Reprocessors = {}
             PROVE  AutoSpec => []DuplicatesAwaitAHuman
  OBVIOUS
<1>1. Init => SingleInv
  BY DEF Init, SingleInv, OneTaskEach, LookupStands, DuplicatesAwaitAHuman, At, FreeTask, NoUpload,
         NoRow, IdleRun, IdleRequest
<1>2. TypeOK /\ OneOriginalPerKey /\ DuplicatesInv /\ SingleInv /\ [AutoNext]_vars => SingleInv'
  <2> SUFFICES ASSUME TypeOK, OneOriginalPerKey, DuplicatesInv, SingleInv, [AutoNext]_vars
               PROVE  SingleInv'
    OBVIOUS
  <2>1. \A i \in Invoices : Keeps(i)
    BY DuplicatesStep
  <2>2. OneTaskEach'
    BY <2>1, OneTaskStep DEF DuplicatesInv, SingleInv
  <2> QED
    BY <2>2, LookupStep, HumanStep DEF SingleInv
<1>3. SingleInv => DuplicatesAwaitAHuman
  BY DEF SingleInv
<1> QED
  BY <1>1, <1>2, <1>3, DuplicatesAlways, AutoInvariants, PTL DEF AutoSpec
=============================================================================
