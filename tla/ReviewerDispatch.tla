------------------------- MODULE ReviewerDispatch -------------------------
(***************************************************************************)
(* From an entry of the human review queue to a paid freelance reviewer:   *)
(* AssignForHitl, called by the worker goroutines and by the expiry        *)
(* checker, the handlers through which reviewers accept and complete tasks *)
(* and administrators resolve entries, manage reviewers and set rewards.   *)
(*                                                                         *)
(* A step is one SQL statement; CompleteReviewerTask, the one transaction, *)
(* has a step per statement and takes effect at its commit.                *)
(***************************************************************************)
EXTENDS Integers, FiniteSets, FiniteSetsExt

CONSTANTS
  Entries,    \* identifiers of hitl_queue rows
  Reasons,    \* the reasons the worker gives
  Reviewers,
  Workers,    \* worker goroutines
  Checker,    \* the goroutine of RunExpiryChecker
  Clients,    \* requests to complete a task that may run at once
  Amounts,    \* what the reward configuration may say
  MaxTasks,   \* bound: how many reviewer tasks the model lets be inserted
  Faults,     \* whether a statement may fail on its own
  Nobody,
  NoEntry

ASSUME DispatchAssumption ==
  /\ Reasons \subseteq {"ocr_mismatch", "classification_needed"}
  /\ Checker \notin Workers
  /\ Nobody \notin Reviewers
  /\ NoEntry \notin Entries
  /\ Amounts \subseteq Nat \ {0}
  /\ MaxTasks \in Nat
  /\ Faults \in BOOLEAN

VARIABLES
  hitl,       \* the hitl_queue table
  reviewers,  \* the reviewers table
  tasks,      \* the reviewer_tasks table
  made,       \* how many tasks were inserted: tasks are numbered by sent_at
  rewards,    \* the reward_config table
  assign,     \* the calls of AssignForHitl in progress
  left,       \* expired tasks that expireAndReassign still has to look at
  tx,         \* the transactions of CompleteReviewerTask in progress
  excuse,     \* history: what kept an entry from being assigned
  late        \* history: tasks sent for an entry that was not pending

vars == <<hitl, reviewers, tasks, made, rewards, assign, left, tx, excuse, late>>

Assigners == Workers \cup {Checker}

TaskIds == 1..MaxTasks

TaskTypes == {"text_verification", "classification_verification"}

ReviewerTypes == {"text_verifier", "classification_verifier"}

reviewerTypeForTask ==
  [text_verification |-> "text_verifier",
   classification_verification |-> "classification_verifier"]

\* taskTypesForReason has one type for each reason the worker gives.
TaskTypeForReason(reason) ==
  IF reason = "ocr_mismatch" THEN "text_verification" ELSE "classification_verification"

Entry == [status : {"absent", "pending", "resolved", "deleted"}, reason : Reasons \cup {"none"}]

Reviewer == [status : {"absent", "active", "inactive"}, type : ReviewerTypes, earned : Nat]

\* due: expired_at is in the past. kept: the row is still there.
Task == [st : {"none", "sent", "accepted", "completed", "expired"},
         entry : Entries \cup {NoEntry}, reviewer : Reviewers \cup {Nobody},
         reward : Amounts \cup {0}, due : BOOLEAN, kept : BOOLEAN]

NoTask == [st |-> "none", entry |-> NoEntry, reviewer |-> Nobody, reward |-> 0,
           due |-> FALSE, kept |-> FALSE]

Assignment == [pc : {"idle", "rewards", "pick", "create"}, entry : Entries \cup {NoEntry},
               reward : Amounts \cup {0}, reviewer : Reviewers \cup {Nobody}]

IdleAssign == [pc |-> "idle", entry |-> NoEntry, reward |-> 0, reviewer |-> Nobody]

Transaction == [pc : {"idle", "marked", "credited"}, task : TaskIds \cup {0}]

IdleTx == [pc |-> "idle", task |-> 0]

Causes == {"noReviewer", "notCreated", "notRead", "crash"}

Blame(e, cause) == [excuse EXCEPT ![e] = @ \cup {cause}]

Live(n) == tasks[n].kept /\ tasks[n].st \in {"sent", "accepted"}

\* Row locks of the transactions that have not ended.
TaskLocked(n) == \E c \in Clients : tx[c].pc # "idle" /\ tx[c].task = n

ReviewerLocked(r) ==
  \E c \in Clients : tx[c].pc = "credited" /\ tasks[tx[c].task].reviewer = r

\* A task that was sent has an entry and a reviewer, a call in progress an
\* entry and, before its insert, a reviewer; a transaction is about a task.
Sent(n) ==
  /\ n <= made <=> tasks[n].st # "none"
  /\ n <= made => tasks[n].entry \in Entries /\ tasks[n].reviewer \in Reviewers
Assigns(a) ==
  /\ assign[a].pc # "idle" => assign[a].entry \in Entries
  /\ assign[a].pc = "create" => assign[a].reviewer \in Reviewers
Completes(c) == tx[c].pc # "idle" => tx[c].task \in 1..made

TypeOK ==
  /\ hitl \in [Entries -> Entry]
  /\ reviewers \in [Reviewers -> Reviewer]
  /\ tasks \in [TaskIds -> Task]
  /\ made \in 0..MaxTasks
  /\ \A n \in TaskIds : Sent(n)
  /\ rewards \in [TaskTypes -> Amounts]
  /\ assign \in [Assigners -> Assignment]
  /\ \A a \in Assigners : Assigns(a)
  /\ left \subseteq 1..made
  /\ tx \in [Clients -> Transaction]
  /\ \A c \in Clients : Completes(c)
  /\ excuse \in [Entries -> SUBSET Causes]
  /\ late \in [Entries -> Nat]

\* The seed of migration 019 is any amount; reviewers are added one by one.
Init ==
  /\ hitl = [e \in Entries |-> [status |-> "absent", reason |-> "none"]]
  /\ reviewers = [r \in Reviewers |-> [status |-> "absent", type |-> "text_verifier", earned |-> 0]]
  /\ tasks = [n \in TaskIds |-> NoTask]
  /\ made = 0
  /\ rewards \in [TaskTypes -> Amounts]
  /\ assign = [a \in Assigners |-> IdleAssign]
  /\ left = {}
  /\ tx = [c \in Clients |-> IdleTx]
  /\ excuse = [e \in Entries |-> {}]
  /\ late = [e \in Entries |-> 0]

-----------------------------------------------------------------------------
(* AssignForHitl: the amounts, a reviewer, the task. a is a worker or the  *)
(* checker; the entry it was given is not read again.                      *)

\* The worker inserts the entry of an item and passes it to AssignForHitl.
CreateHitlItem(w, e, reason) ==
  /\ assign[w].pc = "idle"
  /\ hitl[e].status = "absent"
  /\ hitl' = [hitl EXCEPT ![e] = [status |-> "pending", reason |-> reason]]
  /\ assign' = [assign EXCEPT ![w] = [IdleAssign EXCEPT !.pc = "rewards", !.entry = e]]
  /\ UNCHANGED <<reviewers, tasks, made, rewards, left, tx, excuse, late>>

\* An error is ignored: every amount of a nil map is zero.
GetRewardAmounts(a) ==
  LET taskType == TaskTypeForReason(hitl[assign[a].entry].reason) IN
  /\ assign[a].pc = "rewards"
  /\ \E amount \in {rewards[taskType]} \cup (IF Faults THEN {0} ELSE {}) :
       assign' = [assign EXCEPT ![a].pc = "pick", ![a].reward = amount]
  /\ UNCHANGED <<hitl, reviewers, tasks, made, rewards, left, tx, excuse, late>>

\* MAX(sent_at) of the reviewer's tasks; 0 stands for 1970-01-01.
LastSent(r) == Max({0} \cup {n \in 1..made : tasks[n].kept /\ tasks[n].reviewer = r})

Available(type) == {r \in Reviewers : reviewers[r].status = "active" /\ reviewers[r].type = type}

\* The rows ORDER BY ... LIMIT 1 may return.
NextInTurn(type) ==
  {r \in Available(type) : \A s \in Available(type) : LastSent(r) <= LastSent(s)}

\* Variant with a bug: "no rows" is not an error.
NextReviewerUnchecked(a) ==
  LET next == NextInTurn(reviewerTypeForTask[TaskTypeForReason(hitl[assign[a].entry].reason)])
  IN
  /\ assign[a].pc = "pick"
  /\ \E r \in IF next = {} THEN {Nobody} ELSE next :
       assign' = [assign EXCEPT ![a].pc = "create", ![a].reviewer = r]
  /\ UNCHANGED <<hitl, reviewers, tasks, made, rewards, left, tx, excuse, late>>

\* Without a reviewer the call gives up on the entry.
NextReviewerRoundRobin(a) ==
  LET e == assign[a].entry
      next == NextInTurn(reviewerTypeForTask[TaskTypeForReason(hitl[e].reason)])
  IN
  /\ assign[a].pc = "pick"
  /\ \/ /\ \E r \in next : assign' = [assign EXCEPT ![a].pc = "create", ![a].reviewer = r]
        /\ UNCHANGED excuse
     \/ /\ next = {} \/ Faults
        /\ assign' = [assign EXCEPT ![a] = IdleAssign]
        /\ excuse' = Blame(e, "noReviewer")
  /\ UNCHANGED <<hitl, reviewers, tasks, made, rewards, left, tx, late>>

\* The foreign key refuses a task whose entry is gone. At MaxTasks the insert
\* fails: the bound on tasks.
CreateReviewerTaskWithExpiry(a) ==
  LET e == assign[a].entry
      gone == hitl[e].status = "deleted"
  IN
  /\ assign[a].pc = "create"
  /\ \/ /\ ~gone /\ made < MaxTasks
        /\ made' = made + 1
        /\ tasks' = [tasks EXCEPT ![made + 1] =
                       [st |-> "sent", entry |-> e, reviewer |-> assign[a].reviewer,
                        reward |-> assign[a].reward, due |-> FALSE, kept |-> TRUE]]
        /\ late' = IF hitl[e].status = "pending" THEN late ELSE [late EXCEPT ![e] = @ + 1]
        /\ UNCHANGED excuse
     \/ /\ gone \/ made = MaxTasks \/ Faults
        /\ excuse' = Blame(e, "notCreated")
        /\ UNCHANGED <<tasks, made, late>>
  /\ assign' = [assign EXCEPT ![a] = IdleAssign]
  /\ UNCHANGED <<hitl, reviewers, rewards, left, tx>>

AssignForHitl(a) ==
  GetRewardAmounts(a) \/ NextReviewerRoundRobin(a) \/ CreateReviewerTaskWithExpiry(a)

-----------------------------------------------------------------------------
(* The expiry checker: one UPDATE, then a look at each task it returned.   *)

\* The 30 minutes of a task nobody accepted are over.
Overdue(n) ==
  /\ tasks[n].kept /\ tasks[n].st = "sent" /\ ~tasks[n].due
  /\ tasks' = [tasks EXCEPT ![n].due = TRUE]
  /\ UNCHANGED <<hitl, reviewers, made, rewards, assign, left, tx, excuse, late>>

\* Variants with a bug, in the WHERE of the UPDATE: every task not accepted;
\* every task not completed; only tasks of active reviewers.
OverdueOrExpired ==
  {n \in 1..made : tasks[n].kept /\ tasks[n].st \in {"sent", "expired"} /\ tasks[n].due}
OverdueOrAccepted ==
  {n \in 1..made : tasks[n].kept /\ tasks[n].st \in {"sent", "accepted"} /\ tasks[n].due}
OverdueOfActive ==
  {n \in 1..made : /\ tasks[n].kept /\ tasks[n].st = "sent" /\ tasks[n].due
                   /\ reviewers[tasks[n].reviewer].status = "active"}

OverdueTasks == {n \in 1..made : tasks[n].kept /\ tasks[n].st = "sent" /\ tasks[n].due}

EntriesOf(some) == {tasks[n].entry : n \in some}

\* The UPDATE waits for rows that are locked. When reading its result fails
\* halfway the rows are expired and some or all of the list is lost.
ExpireOldTasks ==
  /\ assign[Checker].pc = "idle" /\ left = {}
  /\ OverdueTasks # {}
  /\ \A n \in OverdueTasks : ~TaskLocked(n)
  /\ tasks' = [n \in TaskIds |->
                 IF n \in OverdueTasks THEN [tasks[n] EXCEPT !.st = "expired"] ELSE tasks[n]]
  /\ \E unread \in {{}} \cup (IF Faults THEN SUBSET OverdueTasks ELSE {}) :
       /\ left' = OverdueTasks \ unread
       /\ excuse' = [e \in Entries |->
                       IF e \in EntriesOf(unread) THEN excuse[e] \cup {"notRead"} ELSE excuse[e]]
  /\ UNCHANGED <<hitl, reviewers, made, rewards, assign, tx, late>>

\* Variants with a bug: the status of the entry is not looked at; "return"
\* instead of "continue" for an entry that is not pending.
LookAtExpiredBlindly(n) ==
  LET e == tasks[n].entry IN
  /\ assign[Checker].pc = "idle" /\ n \in left
  /\ left' = left \ {n}
  /\ assign' = [assign EXCEPT ![Checker] = [IdleAssign EXCEPT !.pc = "rewards", !.entry = e]]
  /\ UNCHANGED <<hitl, reviewers, tasks, made, rewards, tx, excuse, late>>
LookAtExpiredAndStop(n) ==
  LET e == tasks[n].entry IN
  /\ assign[Checker].pc = "idle" /\ n \in left
  /\ IF hitl[e].status = "pending"
       THEN /\ left' = left \ {n}
            /\ assign' = [assign EXCEPT ![Checker] = [IdleAssign EXCEPT !.pc = "rewards", !.entry = e]]
       ELSE left' = {} /\ UNCHANGED assign
  /\ UNCHANGED <<hitl, reviewers, tasks, made, rewards, tx, excuse, late>>

\* GetHitlItem; the entry is assigned again only while it is pending.
LookAtExpired(n) ==
  LET e == tasks[n].entry IN
  /\ assign[Checker].pc = "idle" /\ n \in left
  /\ left' = left \ {n}
  /\ \/ /\ hitl[e].status = "pending"
        /\ assign' = [assign EXCEPT ![Checker] = [IdleAssign EXCEPT !.pc = "rewards", !.entry = e]]
        /\ UNCHANGED excuse
     \/ /\ hitl[e].status # "pending"
        /\ UNCHANGED <<assign, excuse>>
     \/ /\ Faults
        /\ excuse' = Blame(e, "notRead")
        /\ UNCHANGED assign
  /\ UNCHANGED <<hitl, reviewers, tasks, made, rewards, tx, late>>

-----------------------------------------------------------------------------
(* Reviewers: accept and complete.                                         *)

AcceptReviewerTask(n) ==
  /\ tasks[n].kept /\ tasks[n].st = "sent" /\ ~TaskLocked(n)
  /\ tasks' = [tasks EXCEPT ![n].st = "accepted"]
  /\ UNCHANGED <<hitl, reviewers, made, rewards, assign, left, tx, excuse, late>>

\* Variant with a bug: the UPDATE has no condition on the status.
MarkCompletedAgain(c, n) ==
  /\ tx[c].pc = "idle"
  /\ tasks[n].kept /\ tasks[n].st # "none" /\ ~TaskLocked(n)
  /\ tx' = [tx EXCEPT ![c] = [pc |-> "marked", task |-> n]]
  /\ UNCHANGED <<hitl, reviewers, tasks, made, rewards, assign, left, excuse, late>>

\* First statement: the task, whose row stays locked until the end.
MarkCompleted(c, n) ==
  /\ tx[c].pc = "idle"
  /\ tasks[n].kept /\ tasks[n].st \in {"sent", "accepted"} /\ ~TaskLocked(n)
  /\ tx' = [tx EXCEPT ![c] = [pc |-> "marked", task |-> n]]
  /\ UNCHANGED <<hitl, reviewers, tasks, made, rewards, assign, left, excuse, late>>

\* Second statement: the earnings, likewise.
CreditReviewer(c) ==
  /\ tx[c].pc = "marked"
  /\ ~ReviewerLocked(tasks[tx[c].task].reviewer)
  /\ tx' = [tx EXCEPT ![c].pc = "credited"]
  /\ UNCHANGED <<hitl, reviewers, tasks, made, rewards, assign, left, excuse, late>>

\* Variant with a bug: the amount of the configuration, not the one of the task.
CommitTodaysReward(c) ==
  LET n == tx[c].task
      worth == rewards[TaskTypeForReason(hitl[tasks[n].entry].reason)]
  IN
  /\ tx[c].pc = "credited"
  /\ tasks' = [tasks EXCEPT ![n].st = "completed"]
  /\ reviewers' = [reviewers EXCEPT ![tasks[n].reviewer].earned = @ + worth]
  /\ tx' = [tx EXCEPT ![c] = IdleTx]
  /\ UNCHANGED <<hitl, made, rewards, assign, left, excuse, late>>

\* Third: both take effect.
Commit(c) ==
  LET n == tx[c].task IN
  /\ tx[c].pc = "credited"
  /\ tasks' = [tasks EXCEPT ![n].st = "completed"]
  /\ reviewers' = [reviewers EXCEPT ![tasks[n].reviewer].earned = @ + tasks[n].reward]
  /\ tx' = [tx EXCEPT ![c] = IdleTx]
  /\ UNCHANGED <<hitl, made, rewards, assign, left, excuse, late>>

\* An error or a client that goes away.
Rollback(c) ==
  /\ tx[c].pc # "idle"
  /\ tx' = [tx EXCEPT ![c] = IdleTx]
  /\ UNCHANGED <<hitl, reviewers, tasks, made, rewards, assign, left, excuse, late>>

CompleteReviewerTask(c) == CreditReviewer(c) \/ Commit(c) \/ Rollback(c)

-----------------------------------------------------------------------------
(* Administrators. Rejecting an entry changes nothing: 'rejected' is not a *)
(* status the CHECK of hitl_queue lets in.                                 *)

ResolveHitlItem(e) ==
  /\ hitl[e].status = "pending"
  /\ hitl' = [hitl EXCEPT ![e].status = "resolved"]
  /\ UNCHANGED <<reviewers, tasks, made, rewards, assign, left, tx, excuse, late>>

\* The item of the entry is deleted (the invoice is deleted, or processed
\* again): entry and tasks go with it, once their rows are not locked.
DeleteEntry(e) ==
  LET doomed == {n \in 1..made : tasks[n].kept /\ tasks[n].entry = e} IN
  /\ hitl[e].status \in {"pending", "resolved"}
  /\ \A n \in doomed : ~TaskLocked(n)
  /\ hitl' = [hitl EXCEPT ![e].status = "deleted"]
  /\ tasks' = [n \in TaskIds |-> IF n \in doomed THEN [tasks[n] EXCEPT !.kept = FALSE] ELSE tasks[n]]
  /\ UNCHANGED <<reviewers, made, rewards, assign, left, tx, excuse, late>>

CreateReviewer(r, type) ==
  /\ reviewers[r].status = "absent"
  /\ reviewers' = [reviewers EXCEPT ![r].status = "active", ![r].type = type]
  /\ UNCHANGED <<hitl, tasks, made, rewards, assign, left, tx, excuse, late>>

UpdateReviewer(r, type, status) ==
  /\ reviewers[r].status # "absent" /\ ~ReviewerLocked(r)
  /\ reviewers' = [reviewers EXCEPT ![r].status = status, ![r].type = type]
  /\ UNCHANGED <<hitl, tasks, made, rewards, assign, left, tx, excuse, late>>

UpdateRewardConfig(taskType, amount) ==
  /\ rewards' = [rewards EXCEPT ![taskType] = amount]
  /\ UNCHANGED <<hitl, reviewers, tasks, made, assign, left, tx, excuse, late>>

\* The process dies: calls in progress and the checker's list are lost, the
\* database rolls open transactions back.
Crash ==
  LET cut == {assign[a].entry : a \in {b \in Assigners : assign[b].pc # "idle"}}
               \cup EntriesOf(left)
  IN
  /\ assign' = [a \in Assigners |-> IdleAssign]
  /\ left' = {}
  /\ tx' = [c \in Clients |-> IdleTx]
  /\ excuse' = [e \in Entries |-> IF e \in cut THEN excuse[e] \cup {"crash"} ELSE excuse[e]]
  /\ UNCHANGED <<hitl, reviewers, tasks, made, rewards, late>>

Dispatch ==
  \/ \E w \in Workers, e \in Entries, reason \in Reasons : CreateHitlItem(w, e, reason)
  \/ \E a \in Assigners : AssignForHitl(a)
  \/ ExpireOldTasks
  \/ \E n \in TaskIds : Overdue(n) \/ LookAtExpired(n)

Review ==
  \/ \E n \in TaskIds : AcceptReviewerTask(n) \/ \E c \in Clients : MarkCompleted(c, n)
  \/ \E c \in Clients : CompleteReviewerTask(c)

Administer ==
  \/ \E e \in Entries : ResolveHitlItem(e) \/ DeleteEntry(e)
  \/ \E r \in Reviewers, type \in ReviewerTypes :
       \/ CreateReviewer(r, type)
       \/ \E status \in {"active", "inactive"} : UpdateReviewer(r, type, status)
  \/ \E taskType \in TaskTypes, amount \in Amounts : UpdateRewardConfig(taskType, amount)

Next == Dispatch \/ Review \/ Administer \/ Crash

\* Statements return; an UPDATE that waits for row locks gets them in turn.
Fairness ==
  /\ SF_vars(ExpireOldTasks)
  /\ WF_vars(\E n \in TaskIds : LookAtExpired(n))
  /\ WF_vars(AssignForHitl(Checker))
  /\ \A c \in Clients : WF_vars(CompleteReviewerTask(c))

Spec == Init /\ [][Next]_vars
FairSpec == Spec /\ Fairness

-----------------------------------------------------------------------------
(* Properties.                                                             *)

\* Nobody works on an entry that somebody else was given: an entry has at most
\* one task that can still be completed, although workers, the checker and
\* reviewers act at the same time.
OneTaskAtATime ==
  \A m, n \in TaskIds : Live(m) /\ Live(n) /\ tasks[m].entry = tasks[n].entry => m = n

\* Resolving an entry can at most be too late for one task: the call of
\* AssignForHitl that was in progress. After that none is sent any more.
AtMostOneTaskAfterResolve == \A e \in Entries : late[e] <= 1

\* Somebody has the entry: a reviewer, a call of AssignForHitl or the checker.
Attended(e) ==
  \/ \E n \in TaskIds : tasks[n].entry = e /\ tasks[n].st \in {"sent", "accepted", "completed"}
  \/ \E a \in Assigners : assign[a].pc # "idle" /\ assign[a].entry = e
  \/ e \in EntriesOf(left)

\* No pending entry is forgotten, unless one of the named causes occurred:
\* nobody assigns an entry again whose assignment failed once.
EntriesAccountedFor ==
  \A e \in Entries : hitl[e].status = "pending" => Attended(e) \/ excuse[e] # {}

\* A reviewer has earned what the tasks he completed were worth when they were
\* sent, also when requests to complete race, fail or are cut off.
EarningsMatchTasks ==
  \A r \in Reviewers :
    reviewers[r].earned =
      MapThenSumSet(LAMBDA n : tasks[n].reward,
                    {n \in TaskIds : tasks[n].st = "completed" /\ tasks[n].reviewer = r})

\* A task as the contract sees it: the row, or "dropped" when it was deleted.
Contract ==
  INSTANCE ReviewTaskContract
    WITH Tasks <- TaskIds, Rewards <- Amounts \cup {0},
         stage <- [n \in TaskIds |-> IF tasks[n].st # "none" /\ ~tasks[n].kept
                                       THEN "dropped" ELSE tasks[n].st],
         holder <- [n \in TaskIds |-> tasks[n].reviewer],
         reward <- [n \in TaskIds |-> tasks[n].reward],
         earned <- [r \in Reviewers |-> reviewers[r].earned]

\* The handlers, the checker and the three steps of the transaction keep what
\* reviewers are promised.
KeepsContract == Contract!Spec

\* A task nobody accepts in time gives way to another one, unless the entry is
\* not pending any more or one of the named causes occurred.
UnansweredTasksMoveOn ==
  \A n \in TaskIds, e \in Entries :
    (tasks[n].entry = e /\ tasks[n].st = "sent" /\ tasks[n].due) ~>
      \/ tasks[n].st \in {"accepted", "completed"}
      \/ hitl[e].status # "pending"
      \/ excuse[e] # {}
      \/ \E m \in (n + 1)..MaxTasks : tasks[m].entry = e

-----------------------------------------------------------------------------
(* What comments and documents say of the dispatch, and it does not do.    *)

TypeNeeded(e) == reviewerTypeForTask[TaskTypeForReason(hitl[e].reason)]

\* tax-ocr-overview.md:294, a task not accepted in X minutes goes to the next
\* person: with two reviewers at hand, not to the one who let it expire.
ExpiredGoesToSomebodyElse ==
  [][\A e \in Entries, n \in TaskIds :
       /\ NextReviewerRoundRobin(Checker) /\ assign[Checker].entry = e
       /\ assign'[Checker].pc = "create"
       /\ tasks[n].kept /\ tasks[n].st = "expired" /\ tasks[n].entry = e
       /\ Cardinality(Available(TypeNeeded(e))) > 1
       => assign'[Checker].reviewer # tasks[n].reviewer]_vars

============================================================================
