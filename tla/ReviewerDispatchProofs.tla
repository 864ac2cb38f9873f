---------------------- MODULE ReviewerDispatchProofs ----------------------
(***************************************************************************)
(* What holds of ReviewerDispatch for every number of entries, reviewers,  *)
(* workers, clients and tasks, whatever fails and whenever the process     *)
(* dies.                                                                   *)
(***************************************************************************)
EXTENDS ReviewerDispatch, FiniteSetTheorems, WellFoundedInduction, TLAPS

-----------------------------------------------------------------------------
(* Types.                                                                  *)

\* Identifiers of tasks are the numbers up to made, and MaxTasks bounds them.
LEMMA MadeTasks ==
  ASSUME TypeOK
  PROVE  made \in Nat /\ 1..made \subseteq TaskIds /\ TaskIds \subseteq Nat \ {0}
<1>1. MaxTasks \in Nat
  BY DispatchAssumption
<1>2. made \in 0..MaxTasks
  BY DEF TypeOK
<1> QED
  BY <1>1, <1>2 DEF TaskIds

\* One call of AssignForHitl goes on with record r: its locals stay well typed.
LEMMA AssignType ==
  ASSUME TypeOK, NEW a \in Assigners, NEW r \in Assignment,
         r.pc # "idle" => r.entry \in Entries,
         r.pc = "create" => r.reviewer \in Reviewers,
         assign' = [assign EXCEPT ![a] = r]
  PROVE  assign' \in [Assigners -> Assignment] /\ \A b \in Assigners : Assigns(b)'
BY DEF TypeOK, Assigns

\* One transaction goes on with record r: its locals stay well typed.
LEMMA TxType ==
  ASSUME TypeOK, NEW c \in Clients, NEW r \in Transaction,
         r.pc # "idle" => r.task \in 1..made,
         tx' = [tx EXCEPT ![c] = r], made' = made
  PROVE  tx' \in [Clients -> Transaction] /\ \A d \in Clients : Completes(d)'
BY DEF TypeOK, Completes

\* One row of reviewer_tasks is written: the table stays well typed when the
\* row keeps its entry and its reviewer.
LEMMA TaskType ==
  ASSUME TypeOK, NEW n \in 1..made, NEW t \in Task,
         t.st # "none", t.entry = tasks[n].entry, t.reviewer = tasks[n].reviewer,
         tasks' = [tasks EXCEPT ![n] = t], made' = made
  PROVE  tasks' \in [TaskIds -> Task] /\ \A m \in TaskIds : Sent(m)'
<1>1. tasks \in [TaskIds -> Task] /\ n \in TaskIds /\ n <= made
  BY MadeTasks DEF TypeOK
<1>2. tasks' \in [TaskIds -> Task] /\ tasks'[n] = t /\ \A m \in TaskIds \ {n} : tasks'[m] = tasks[m]
  BY <1>1
<1>3. Sent(n)'
  BY <1>1, <1>2 DEF TypeOK, Sent
<1>4. ASSUME NEW m \in TaskIds \ {n} PROVE Sent(m)'
  BY <1>2, <1>4 DEF TypeOK, Sent
<1> QED
  BY <1>2, <1>3, <1>4

\* A recorded cause keeps the type of the history.
LEMMA BlameType ==
  ASSUME TypeOK, NEW e \in Entries, NEW cause \in Causes, excuse' = Blame(e, cause)
  PROVE  excuse' \in [Entries -> SUBSET Causes]
BY DEF TypeOK, Blame

LEMMA IdleTypes ==
  /\ IdleAssign \in Assignment /\ IdleAssign.pc = "idle"
  /\ IdleTx \in Transaction /\ IdleTx.pc = "idle"
BY DEF IdleAssign, Assignment, IdleTx, Transaction

\* A call that was just given an entry is well typed.
LEMMA GivenType ==
  ASSUME NEW e \in Entries
  PROVE  LET r == [IdleAssign EXCEPT !.pc = "rewards", !.entry = e] IN
         r \in Assignment /\ r.pc = "rewards" /\ r.entry = e
BY DEF IdleAssign, Assignment

\* The round robin returns reviewers.
LEMMA NextAreReviewers ==
  ASSUME NEW type PROVE NextInTurn(type) \subseteq Reviewers
BY DEF NextInTurn, Available

LEMMA KnownTask ==
  ASSUME TypeOK, NEW n \in TaskIds, tasks[n].st # "none"
  PROVE  /\ n \in 1..made /\ tasks[n] \in Task
         /\ tasks[n].entry \in Entries /\ tasks[n].reviewer \in Reviewers
<1>1. n <= made /\ n \in Nat \ {0} /\ made \in Nat
  BY MadeTasks DEF TypeOK, Sent
<1> QED
  BY <1>1 DEF TypeOK, Sent

\* Every statement of AssignForHitl, and the insert it begins with, keeps the
\* types.
LEMMA TypeStepAssign ==
  ASSUME TypeOK, NEW a \in Assigners,
         \/ AssignForHitl(a)
         \/ \E e \in Entries, reason \in Reasons : CreateHitlItem(a, e, reason)
  PROVE  TypeOK'
<1> USE DEF Sent, Completes
<1>1. assign[a] \in Assignment /\ Assigns(a) /\ tasks \in [TaskIds -> Task] /\ made \in Nat
  BY MadeTasks DEF TypeOK
<1>2. ASSUME NEW e \in Entries, NEW reason \in Reasons, CreateHitlItem(a, e, reason)
      PROVE  TypeOK'
  <2>1. hitl' \in [Entries -> Entry]
    BY <1>2 DEF CreateHitlItem, TypeOK, Entry
  <2>2. assign' \in [Assigners -> Assignment] /\ \A b \in Assigners : Assigns(b)'
    BY <1>2, GivenType, AssignType, ZenonT(40) DEF CreateHitlItem
  <2> QED
    BY <1>2, <2>1, <2>2 DEF CreateHitlItem, TypeOK
<1>3. CASE GetRewardAmounts(a)
  <2>1. rewards[TaskTypeForReason(hitl[assign[a].entry].reason)] \in Amounts
    BY DEF TypeOK, TaskTypeForReason, TaskTypes
  <2>2. PICK amount \in Amounts \cup {0} :
          assign' = [assign EXCEPT ![a].pc = "pick", ![a].reward = amount]
    BY <1>3, <2>1 DEF GetRewardAmounts
  <2> DEFINE r == [assign[a] EXCEPT !.pc = "pick", !.reward = amount]
  <2>3. r \in Assignment /\ r.pc = "pick" /\ r.entry \in Entries
    BY <1>1, <1>3, <2>2 DEF GetRewardAmounts, Assigns, Assignment
  <2>4. assign' = [assign EXCEPT ![a] = r]
    BY <2>2 DEF TypeOK
  <2>5. assign' \in [Assigners -> Assignment] /\ \A b \in Assigners : Assigns(b)'
    BY <2>3, <2>4, AssignType
  <2> QED
    BY <1>3, <2>5 DEF GetRewardAmounts, TypeOK
<1>4. CASE NextReviewerRoundRobin(a)
  <2> DEFINE e == assign[a].entry
  <2>1. e \in Entries
    BY <1>1, <1>4 DEF NextReviewerRoundRobin, Assigns
  <2>2. assign' \in [Assigners -> Assignment] /\ \A b \in Assigners : Assigns(b)'
    <3>1. ASSUME NEW r \in Reviewers, assign' = [assign EXCEPT ![a].pc = "create", ![a].reviewer = r]
          PROVE  assign' \in [Assigners -> Assignment] /\ \A b \in Assigners : Assigns(b)'
      <4> DEFINE q == [assign[a] EXCEPT !.pc = "create", !.reviewer = r]
      <4>1. q \in Assignment /\ q.entry \in Entries /\ q.reviewer \in Reviewers
        BY <1>1, <2>1 DEF Assignment
      <4>2. assign' = [assign EXCEPT ![a] = q]
        BY <3>1 DEF TypeOK
      <4> QED
        BY <4>1, <4>2, AssignType
    <3>2. CASE assign' = [assign EXCEPT ![a] = IdleAssign]
      BY <3>2, IdleTypes, AssignType
    <3> QED
      BY <1>4, <3>1, <3>2, NextAreReviewers DEF NextReviewerRoundRobin
  <2>3. excuse' \in [Entries -> SUBSET Causes]
    BY <1>4, <2>1, BlameType DEF NextReviewerRoundRobin, TypeOK, Causes
  <2> QED
    BY <1>4, <2>2, <2>3 DEF NextReviewerRoundRobin, TypeOK
<1>5. CASE CreateReviewerTaskWithExpiry(a)
  <2> DEFINE e == assign[a].entry
             t == [st |-> "sent", entry |-> e, reviewer |-> assign[a].reviewer,
                   reward |-> assign[a].reward, due |-> FALSE, kept |-> TRUE]
  <2>1. e \in Entries /\ assign[a].reviewer \in Reviewers /\ assign[a].reward \in Amounts \cup {0}
    BY <1>1, <1>5 DEF CreateReviewerTaskWithExpiry, Assigns, Assignment
  <2>2. assign' \in [Assigners -> Assignment] /\ \A b \in Assigners : Assigns(b)'
    BY <1>5, IdleTypes, AssignType DEF CreateReviewerTaskWithExpiry
  <2>3. CASE made' = made + 1 /\ made < MaxTasks /\ tasks' = [tasks EXCEPT ![made + 1] = t]
    <3>1. made' \in 0..MaxTasks /\ made + 1 \in TaskIds
      BY <1>1, <2>3, DispatchAssumption DEF TaskIds
    <3>2. PICK k \in TaskIds : k = made + 1
      BY <3>1
    <3>3. /\ tasks' \in [TaskIds -> Task] /\ tasks'[k] = t
          /\ \A n \in TaskIds \ {k} : tasks'[n] = tasks[n]
      <4>1. t \in Task
        BY <2>1 DEF Task
      <4> QED
        BY <1>1, <2>3, <3>2, <4>1
    <3>4. Sent(k)'
      BY <1>1, <2>1, <2>3, <3>2, <3>3
    <3>5. ASSUME NEW n \in TaskIds \ {k} PROVE Sent(n)'
      <4>1. Sent(n) /\ n \in Nat /\ n # made + 1
        BY <3>2, MadeTasks DEF TypeOK
      <4>2. n <= made' <=> n <= made
        BY <1>1, <2>3, <4>1
      <4> QED
        BY <3>3, <4>1, <4>2
    <3>6. left' \subseteq 1..made' /\ \A c \in Clients : Completes(c)'
      <4>1. \A n \in 1..made : n \in 1..made'
        BY <1>1, <2>3
      <4>2. left' = left /\ tx' = tx
        BY <1>5 DEF CreateReviewerTaskWithExpiry
      <4> QED
        BY <4>1, <4>2 DEF TypeOK
    <3>7. late' \in [Entries -> Nat] /\ excuse' \in [Entries -> SUBSET Causes]
      <4>1. late' = late \/ late' = [late EXCEPT ![e] = @ + 1]
        BY <1>5 DEF CreateReviewerTaskWithExpiry
      <4>2. late \in [Entries -> Nat]
        BY DEF TypeOK
      <4>3. late' \in [Entries -> Nat]
        BY <2>1, <4>1, <4>2
      <4> QED
        BY <1>5, <2>1, <4>3, BlameType DEF CreateReviewerTaskWithExpiry, TypeOK, Causes
    <3>8. UNCHANGED <<hitl, reviewers, rewards, tx>>
      BY <1>5 DEF CreateReviewerTaskWithExpiry
    <3> QED
      BY <2>2, <3>1, <3>3, <3>4, <3>5, <3>6, <3>7, <3>8 DEF TypeOK
  <2>4. CASE excuse' = Blame(e, "notCreated") /\ UNCHANGED <<tasks, made, late>>
    <3>1. excuse' \in [Entries -> SUBSET Causes]
      BY <2>1, <2>4, BlameType DEF Causes
    <3> QED
      BY <1>5, <2>2, <2>4, <3>1 DEF CreateReviewerTaskWithExpiry, TypeOK
  <2> QED
    BY <1>5, <2>3, <2>4 DEF CreateReviewerTaskWithExpiry
<1> QED
  BY <1>2, <1>3, <1>4, <1>5 DEF AssignForHitl

\* Time, the UPDATE of the checker and its look at a task keep the types.
LEMMA TypeStepExpire ==
  ASSUME TypeOK,
         ExpireOldTasks \/ \E n \in TaskIds : Overdue(n) \/ LookAtExpired(n)
  PROVE  TypeOK'
<1> USE DEF Completes
<1>1. tasks \in [TaskIds -> Task] /\ made \in Nat /\ 1..made \subseteq TaskIds /\ Checker \in Assigners
  BY MadeTasks DEF TypeOK, Assigners
<1>2. ASSUME NEW n \in TaskIds, Overdue(n) PROVE TypeOK'
  <2>1. n \in 1..made /\ tasks[n] \in Task
    BY <1>2, KnownTask DEF Overdue
  <2> DEFINE t == [tasks[n] EXCEPT !.due = TRUE]
  <2>2. t \in Task /\ t.st # "none" /\ t.entry = tasks[n].entry /\ t.reviewer = tasks[n].reviewer
    BY <1>2, <2>1 DEF Overdue, Task
  <2>3. tasks' = [tasks EXCEPT ![n] = t] /\ made' = made
    BY <1>1, <1>2 DEF Overdue
  <2>4. tasks' \in [TaskIds -> Task] /\ \A m \in TaskIds : Sent(m)'
    BY <2>1, <2>2, <2>3, TaskType
  <2> QED
    BY <1>2, <2>4 DEF Overdue, TypeOK, Assigns
<1>3. ASSUME NEW n \in TaskIds, LookAtExpired(n) PROVE TypeOK'
  <2>1. n \in 1..made /\ tasks[n].entry \in Entries
    <3>1. n \in 1..made
      BY <1>3 DEF LookAtExpired, TypeOK
    <3>2. n <= made /\ Sent(n)
      BY <1>1, <3>1 DEF TypeOK
    <3> QED
      BY <3>1, <3>2 DEF Sent
  <2>2. assign' \in [Assigners -> Assignment] /\ \A b \in Assigners : Assigns(b)'
    <3>1. CASE UNCHANGED assign
      BY <3>1 DEF TypeOK, Assigns
    <3>2. CASE assign' = [assign EXCEPT ![Checker] = [IdleAssign EXCEPT !.pc = "rewards",
                                                                       !.entry = tasks[n].entry]]
      BY <1>1, <2>1, <3>2, GivenType, AssignType
    <3> QED
      BY <1>3, <3>1, <3>2 DEF LookAtExpired
  <2>3. excuse' \in [Entries -> SUBSET Causes]
    BY <1>3, <2>1, BlameType DEF LookAtExpired, TypeOK, Causes
  <2> QED
    BY <1>3, <2>2, <2>3 DEF LookAtExpired, TypeOK, Sent
<1>4. CASE ExpireOldTasks
  <2>1. tasks' \in [TaskIds -> Task] /\ \A n \in TaskIds : Sent(n)'
    <3>1. ASSUME NEW n \in TaskIds PROVE tasks'[n] \in Task /\ Sent(n)'
      <4>1. tasks[n] \in Task /\ Sent(n) /\ made' = made
        BY <1>1, <1>4 DEF ExpireOldTasks, TypeOK
      <4>2. CASE n \in OverdueTasks
        <5>1. tasks'[n] = [tasks[n] EXCEPT !.st = "expired"] /\ tasks[n].st = "sent"
          BY <1>4, <4>2 DEF ExpireOldTasks, OverdueTasks
        <5> QED
          BY <4>1, <5>1 DEF Sent, Task
      <4>3. CASE n \notin OverdueTasks
        BY <1>4, <4>1, <4>3 DEF ExpireOldTasks, Sent
      <4> QED
        BY <4>2, <4>3
    <3> QED
      BY <1>4, <3>1 DEF ExpireOldTasks
  <2>2. left' \subseteq 1..made
    BY <1>4 DEF ExpireOldTasks, OverdueTasks
  <2>3. excuse' \in [Entries -> SUBSET Causes]
    BY <1>4 DEF ExpireOldTasks, TypeOK, Causes
  <2> QED
    BY <1>4, <2>1, <2>2, <2>3 DEF ExpireOldTasks, TypeOK, Assigns
<1> QED
  BY <1>2, <1>3, <1>4

\* Accepting and completing keep the types; the one statement that pays adds
\* a number to a number.
LEMMA TypeStepReview ==
  ASSUME TypeOK, Review
  PROVE  TypeOK'
<1>1. ASSUME NEW n \in TaskIds, AcceptReviewerTask(n) PROVE TypeOK'
  <2>1. n \in 1..made /\ tasks[n] \in Task
    BY <1>1, KnownTask DEF AcceptReviewerTask
  <2> DEFINE t == [tasks[n] EXCEPT !.st = "accepted"]
  <2>2. t \in Task /\ t.st # "none" /\ t.entry = tasks[n].entry /\ t.reviewer = tasks[n].reviewer
    BY <2>1 DEF Task
  <2>3. tasks' = [tasks EXCEPT ![n] = t] /\ made' = made
    BY <1>1 DEF AcceptReviewerTask, TypeOK
  <2>4. tasks' \in [TaskIds -> Task] /\ \A m \in TaskIds : Sent(m)'
    BY <2>1, <2>2, <2>3, TaskType
  <2> QED
    BY <1>1, <2>4 DEF AcceptReviewerTask, TypeOK, Assigns, Completes
<1>2. ASSUME NEW n \in TaskIds, NEW c \in Clients, MarkCompleted(c, n) PROVE TypeOK'
  <2>1. n \in 1..made
    BY <1>2, KnownTask DEF MarkCompleted
  <2>2. [pc |-> "marked", task |-> n] \in Transaction
    BY DEF Transaction
  <2>3. tx' \in [Clients -> Transaction] /\ \A d \in Clients : Completes(d)'
    BY <1>2, <2>1, <2>2, TxType DEF MarkCompleted
  <2> QED
    BY <1>2, <2>3 DEF MarkCompleted, TypeOK, Sent, Assigns
<1>3. ASSUME NEW c \in Clients, CreditReviewer(c) PROVE TypeOK'
  <2> DEFINE r == [tx[c] EXCEPT !.pc = "credited"]
  <2>1. r \in Transaction /\ r.task \in 1..made
    BY <1>3 DEF CreditReviewer, TypeOK, Completes, Transaction
  <2>2. tx' = [tx EXCEPT ![c] = r] /\ made' = made
    BY <1>3 DEF CreditReviewer, TypeOK
  <2>3. tx' \in [Clients -> Transaction] /\ \A d \in Clients : Completes(d)'
    BY <2>1, <2>2, TxType
  <2> QED
    BY <1>3, <2>3 DEF CreditReviewer, TypeOK, Sent, Assigns
<1>4. ASSUME NEW c \in Clients, Commit(c) PROVE TypeOK'
  <2> DEFINE n == tx[c].task
             t == [tasks[n] EXCEPT !.st = "completed"]
             r == tasks[n].reviewer
  <2>1. n \in 1..made
    BY <1>4 DEF Commit, TypeOK, Completes
  <2>2. n \in TaskIds /\ n <= made
    BY <2>1, MadeTasks
  <2>3. tasks[n] \in Task /\ r \in Reviewers
    BY <2>2 DEF TypeOK, Sent
  <2>4. t \in Task /\ t.st # "none" /\ t.entry = tasks[n].entry /\ t.reviewer = tasks[n].reviewer
    BY <2>3 DEF Task
  <2>5. tasks' = [tasks EXCEPT ![n] = t] /\ made' = made
    BY <1>4, <2>2 DEF Commit, TypeOK
  <2>6. tasks' \in [TaskIds -> Task] /\ \A m \in TaskIds : Sent(m)'
    BY <2>1, <2>4, <2>5, TaskType
  <2>7. reviewers' \in [Reviewers -> Reviewer]
    <3>1. tasks[n].reward \in Nat
      BY <2>3, DispatchAssumption DEF Task
    <3>2. reviewers[r] \in Reviewer
      BY <2>3 DEF TypeOK
    <3>3. [reviewers[r] EXCEPT !.earned = @ + tasks[n].reward] \in Reviewer
      BY <3>1, <3>2 DEF Reviewer
    <3>4. reviewers' = [reviewers EXCEPT ![r] = [reviewers[r] EXCEPT !.earned = @ + tasks[n].reward]]
      BY <1>4, <2>3 DEF Commit, TypeOK
    <3> QED
      BY <3>3, <3>4 DEF TypeOK
  <2>8. tx' \in [Clients -> Transaction] /\ \A d \in Clients : Completes(d)'
    BY <1>4, IdleTypes, TxType DEF Commit
  <2> QED
    BY <1>4, <2>6, <2>7, <2>8 DEF Commit, TypeOK, Assigns
<1>5. ASSUME NEW c \in Clients, Rollback(c) PROVE TypeOK'
  <2>1. tx' \in [Clients -> Transaction] /\ \A d \in Clients : Completes(d)'
    BY <1>5, IdleTypes, TxType DEF Rollback
  <2> QED
    BY <1>5, <2>1 DEF Rollback, TypeOK, Sent, Assigns
<1> QED
  BY <1>1, <1>2, <1>3, <1>4, <1>5 DEF Review, CompleteReviewerTask

\* Administrators, and the end of the process, keep the types.
LEMMA TypeStepAdminister ==
  ASSUME TypeOK, Administer \/ Crash
  PROVE  TypeOK'
<1>1. ASSUME NEW e \in Entries, ResolveHitlItem(e) PROVE TypeOK'
  <2>1. hitl' \in [Entries -> Entry]
    BY <1>1 DEF ResolveHitlItem, TypeOK, Entry
  <2> QED
    BY <1>1, <2>1 DEF ResolveHitlItem, TypeOK, Sent, Assigns, Completes
<1>2. ASSUME NEW e \in Entries, DeleteEntry(e) PROVE TypeOK'
  <2>1. hitl' \in [Entries -> Entry]
    BY <1>2 DEF DeleteEntry, TypeOK, Entry
  <2>2. tasks' \in [TaskIds -> Task] /\ \A n \in TaskIds : Sent(n)'
    <3>1. ASSUME NEW n \in TaskIds PROVE tasks'[n] \in Task /\ Sent(n)'
      <4>1. tasks[n] \in Task /\ Sent(n) /\ made' = made
        BY <1>2 DEF DeleteEntry, TypeOK
      <4>2. tasks'[n] = [tasks[n] EXCEPT !.kept = FALSE] \/ tasks'[n] = tasks[n]
        BY <1>2 DEF DeleteEntry
      <4> QED
        BY <4>1, <4>2 DEF Sent, Task
    <3> QED
      BY <1>2, <3>1 DEF DeleteEntry
  <2> QED
    BY <1>2, <2>1, <2>2 DEF DeleteEntry, TypeOK, Assigns, Completes
<1>3. ASSUME NEW r \in Reviewers, NEW type \in ReviewerTypes, NEW status \in {"active", "inactive"},
             CreateReviewer(r, type) \/ UpdateReviewer(r, type, status)
      PROVE  TypeOK'
  <2>1. reviewers' \in [Reviewers -> Reviewer]
    BY <1>3 DEF CreateReviewer, UpdateReviewer, TypeOK, Reviewer
  <2> QED
    BY <1>3, <2>1 DEF CreateReviewer, UpdateReviewer, TypeOK, Sent, Assigns, Completes
<1>4. ASSUME NEW taskType \in TaskTypes, NEW amount \in Amounts, UpdateRewardConfig(taskType, amount)
      PROVE  TypeOK'
  BY <1>4 DEF UpdateRewardConfig, TypeOK, Sent, Assigns, Completes
<1>5. CASE Crash
  <2>1. assign' \in [Assigners -> Assignment] /\ \A a \in Assigners : Assigns(a)'
    BY <1>5, IdleTypes DEF Crash, Assigns
  <2>2. tx' \in [Clients -> Transaction] /\ \A c \in Clients : Completes(c)'
    BY <1>5, IdleTypes DEF Crash, Completes
  <2>3. excuse' \in [Entries -> SUBSET Causes] /\ left' \subseteq 1..made
    BY <1>5 DEF Crash, TypeOK, Causes
  <2> QED
    BY <1>5, <2>1, <2>2, <2>3 DEF Crash, TypeOK, Sent
<1> QED
  BY <1>1, <1>2, <1>3, <1>4, <1>5 DEF Administer

\* Every variable keeps its type: a task that was sent has an entry and a
\* reviewer, a call of AssignForHitl never inserts a task for nobody, and a
\* transaction never completes a task that does not exist.
THEOREM TypeCorrect == Spec => []TypeOK
<1>1. Init => TypeOK
  <2> SUFFICES ASSUME Init PROVE TypeOK
    OBVIOUS
  <2>1. made \in 0..MaxTasks /\ TaskIds \subseteq Nat \ {0}
    BY DispatchAssumption DEF Init, TaskIds
  <2>2. tasks \in [TaskIds -> Task] /\ \A n \in TaskIds : Sent(n)
    <3>1. NoTask \in Task /\ NoTask.st = "none"
      BY DEF NoTask, Task
    <3> QED
      BY <2>1, <3>1 DEF Init, Sent
  <2>3. assign \in [Assigners -> Assignment] /\ \A a \in Assigners : Assigns(a)
    BY IdleTypes DEF Init, Assigns
  <2>4. tx \in [Clients -> Transaction] /\ \A c \in Clients : Completes(c)
    BY IdleTypes DEF Init, Completes
  <2>5. hitl \in [Entries -> Entry] /\ reviewers \in [Reviewers -> Reviewer]
    BY DEF Init, Entry, Reviewer, ReviewerTypes
  <2> QED
    BY <2>1, <2>2, <2>3, <2>4, <2>5 DEF Init, TypeOK, Causes
<1>2. TypeOK /\ [Next]_vars => TypeOK'
  <2> SUFFICES ASSUME TypeOK, [Next]_vars PROVE TypeOK'
    OBVIOUS
  <2>1. CASE UNCHANGED vars
    BY <2>1 DEF vars, TypeOK, Sent, Assigns, Completes
  <2>2. CASE Dispatch
    BY <2>2, TypeStepAssign, TypeStepExpire DEF Dispatch, Assigners
  <2> QED
    BY <2>1, <2>2, TypeStepReview, TypeStepAdminister DEF Next
<1> QED
  BY <1>1, <1>2, PTL DEF Spec

-----------------------------------------------------------------------------
(* One task at a time.                                                     *)

Assigning(a, e) == assign[a].pc # "idle" /\ assign[a].entry = e

\* At most one of them has an entry: a task that can still be completed, a call
\* of AssignForHitl, an expired task the checker still has to look at. This is
\* what makes OneTaskAtATime inductive: an entry changes hands in one step.
OneOwner ==
  /\ OneTaskAtATime
  /\ \A a, b \in Assigners, e \in Entries : Assigning(a, e) /\ Assigning(b, e) => a = b
  /\ \A m, n \in left : tasks[m].entry = tasks[n].entry => m = n
  /\ \A a \in Assigners, n \in TaskIds : Live(n) => ~Assigning(a, tasks[n].entry)
  /\ \A a \in Assigners, n \in left : ~Assigning(a, tasks[n].entry)
  /\ \A m \in left, n \in TaskIds : Live(n) => tasks[m].entry # tasks[n].entry

\* An entry that does not exist yet has no owner.
AbsentUnowned ==
  /\ \A n \in TaskIds : tasks[n].st # "none" => hitl[tasks[n].entry].status # "absent"
  /\ \A a \in Assigners, e \in Entries : Assigning(a, e) => hitl[e].status # "absent"

\* A task keeps its entry while it goes on or ends, so owners only disappear.
LEMMA FewerOwners ==
  ASSUME TypeOK, OneOwner, AbsentUnowned, left' \subseteq left,
         \A n \in TaskIds : tasks'[n].entry = tasks[n].entry,
         \A n \in TaskIds : Live(n)' => Live(n),
         \A n \in TaskIds : tasks'[n].st # "none" => tasks[n].st # "none",
         \A a \in Assigners, e \in Entries : Assigning(a, e)' => Assigning(a, e),
         \A e \in Entries : hitl[e].status # "absent" => hitl'[e].status # "absent"
  PROVE  OneOwner' /\ AbsentUnowned'
<1>1. \A n \in TaskIds : tasks[n].st # "none" => tasks[n].entry \in Entries
  BY KnownTask
<1>2. \A n \in TaskIds : Live(n) => tasks[n].entry \in Entries
  BY <1>1 DEF Live
<1>3. left \subseteq TaskIds /\ \A n \in left : tasks[n].entry \in Entries
  <2>1. left \subseteq 1..made /\ 1..made \subseteq TaskIds
    BY MadeTasks DEF TypeOK
  <2>2. \A n \in 1..made : Sent(n) /\ n <= made
    BY <2>1, MadeTasks DEF TypeOK
  <2> QED
    BY <2>1, <2>2 DEF Sent
<1>4. OneTaskAtATime'
  BY DEF OneOwner, OneTaskAtATime
<1>5. AbsentUnowned'
  BY <1>1 DEF AbsentUnowned
<1> QED
  BY <1>2, <1>3, <1>4, <1>5 DEF OneOwner

\* The owner of an entry, when it exists, is one the program made for it.
LEMMA OwnersAreTyped ==
  ASSUME TypeOK
  PROVE  /\ left \subseteq TaskIds
         /\ \A n \in left : tasks[n].entry \in Entries
         /\ \A n \in TaskIds : Live(n) => tasks[n].entry \in Entries /\ tasks[n].st # "none"
         /\ \A a \in Assigners : assign[a].pc # "idle" => assign[a].entry \in Entries
<1>1. left \subseteq 1..made /\ 1..made \subseteq TaskIds
  BY MadeTasks DEF TypeOK
<1>2. \A n \in 1..made : Sent(n) /\ n <= made
  BY <1>1, MadeTasks DEF TypeOK
<1> QED
  BY <1>1, <1>2, KnownTask DEF Sent, Live, TypeOK, Assigns

\* AssignForHitl: the entry passes from the worker that inserts it to the call,
\* and from the call to the task it inserts, or is dropped.
LEMMA OneOwnerAssign ==
  ASSUME TypeOK, OneOwner, AbsentUnowned, NEW a \in Assigners,
         \/ AssignForHitl(a)
         \/ \E e \in Entries, reason \in Reasons : CreateHitlItem(a, e, reason)
  PROVE  OneOwner' /\ AbsentUnowned'
<1>1. assign \in [Assigners -> Assignment] /\ tasks \in [TaskIds -> Task] /\ hitl \in [Entries -> Entry]
  BY DEF TypeOK
<1>2. ASSUME NEW e \in Entries, NEW reason \in Reasons, CreateHitlItem(a, e, reason)
      PROVE  OneOwner' /\ AbsentUnowned'
  <2>1. /\ hitl[e].status = "absent" /\ hitl'[e].status = "pending"
        /\ \A f \in Entries \ {e} : hitl'[f] = hitl[f]
        /\ UNCHANGED <<tasks, left>>
    BY <1>1, <1>2 DEF CreateHitlItem
  <2>2. /\ \A b \in Assigners, f \in Entries : Assigning(b, f)' <=> Assigning(b, f) \/ (b = a /\ f = e)
        /\ assign[a].pc = "idle"
    <3>1. assign' = [assign EXCEPT ![a] = [IdleAssign EXCEPT !.pc = "rewards", !.entry = e]]
          /\ assign[a].pc = "idle"
      BY <1>2 DEF CreateHitlItem
    <3>2. assign'[a].pc = "rewards" /\ assign'[a].entry = e
          /\ \A b \in Assigners \ {a} : assign'[b] = assign[b]
      BY <1>1, <3>1, GivenType
    <3> QED
      BY <3>1, <3>2 DEF Assigning
  <2>3. /\ \A b \in Assigners : ~Assigning(b, e)
        /\ \A n \in TaskIds : tasks[n].st # "none" => tasks[n].entry # e
    BY <2>1 DEF AbsentUnowned
  <2>4. \A n \in left : tasks[n].st # "none"
    BY MadeTasks DEF TypeOK, Sent
  <2>5. \A n \in TaskIds : Live(n)' = Live(n)
    BY <2>1 DEF Live
  <2>6. OneTaskAtATime'
    BY <2>1, <2>5 DEF OneOwner, OneTaskAtATime
  <2>7. \A b, c \in Assigners, f \in Entries : Assigning(b, f)' /\ Assigning(c, f)' => b = c
    BY <2>2, <2>3 DEF OneOwner
  <2>8. \A b \in Assigners, n \in TaskIds : Live(n) => ~Assigning(b, tasks[n].entry)'
    BY <2>1, <2>2, <2>3, OwnersAreTyped DEF OneOwner
  <2>9. \A b \in Assigners, n \in left : ~Assigning(b, tasks[n].entry)'
    BY <2>1, <2>2, <2>3, <2>4, OwnersAreTyped DEF OneOwner
  <2>10. AbsentUnowned'
    BY <2>1, <2>2, KnownTask DEF AbsentUnowned
  <2> QED
    BY <2>1, <2>5, <2>6, <2>7, <2>8, <2>9, <2>10 DEF OneOwner
<1>3. ASSUME UNCHANGED <<hitl, tasks, left>>,
             \A b \in Assigners \ {a} : assign'[b] = assign[b],
             assign'[a].pc # "idle" => assign[a].pc # "idle" /\ assign'[a].entry = assign[a].entry
      PROVE  OneOwner' /\ AbsentUnowned'
  <2>1. \A b \in Assigners, f \in Entries : Assigning(b, f)' => Assigning(b, f)
    BY <1>3 DEF Assigning
  <2>2. \A n \in TaskIds : Live(n)' => Live(n)
    BY <1>3 DEF Live
  <2> QED
    BY <1>3, <2>1, <2>2, FewerOwners
<1>4. CASE GetRewardAmounts(a)
  <2>1. PICK amount : assign' = [assign EXCEPT ![a].pc = "pick", ![a].reward = amount]
    BY <1>4 DEF GetRewardAmounts
  <2>2. assign'[a].entry = assign[a].entry /\ \A b \in Assigners \ {a} : assign'[b] = assign[b]
    BY <1>1, <2>1 DEF Assignment
  <2> QED
    BY <1>3, <1>4, <2>2 DEF GetRewardAmounts
<1>5. CASE NextReviewerRoundRobin(a)
  <2>1. \A b \in Assigners \ {a} : assign'[b] = assign[b]
    BY <1>1, <1>5 DEF NextReviewerRoundRobin
  <2>2. assign'[a].pc # "idle" => assign'[a].entry = assign[a].entry
    BY <1>1, <1>5, IdleTypes DEF NextReviewerRoundRobin, Assignment
  <2> QED
    BY <1>3, <1>5, <2>1, <2>2 DEF NextReviewerRoundRobin
<1>6. CASE CreateReviewerTaskWithExpiry(a)
  <2>1. /\ assign'[a].pc = "idle" /\ \A b \in Assigners \ {a} : assign'[b] = assign[b]
        /\ UNCHANGED <<hitl, left>> /\ assign[a].pc # "idle"
    BY <1>1, <1>6, IdleTypes DEF CreateReviewerTaskWithExpiry
  <2>2. CASE UNCHANGED tasks
    BY <1>3, <2>1, <2>2
  <2>3. CASE ~UNCHANGED tasks
    <3> DEFINE e == assign[a].entry
    <3>1. e \in Entries
      BY <2>1, OwnersAreTyped
    <3>2. PICK k \in TaskIds : /\ k = made + 1
                               /\ \A n \in TaskIds \ {k} : tasks'[n] = tasks[n]
                               /\ tasks'[k].entry = e /\ tasks[k].st = "none"
      <4>1. made + 1 \in TaskIds
        BY <1>6, <2>3, MadeTasks, DispatchAssumption DEF CreateReviewerTaskWithExpiry, TaskIds
      <4>2. PICK k \in TaskIds : k = made + 1
        BY <4>1
      <4>3. tasks[k].st = "none"
        BY <4>2, MadeTasks DEF TypeOK, Sent
      <4>4. /\ \A n \in TaskIds \ {k} : tasks'[n] = tasks[n]
            /\ tasks'[k].entry = e
        BY <1>1, <1>6, <2>3, <4>2 DEF CreateReviewerTaskWithExpiry
      <4> QED
        BY <4>2, <4>3, <4>4
    <3>3. k \notin left /\ left' = left
      <4>1. k \notin 1..made
        BY <3>2, MadeTasks
      <4> QED
        BY <2>1, <4>1 DEF TypeOK
    <3>4. \A b \in Assigners, f \in Entries : Assigning(b, f)' => Assigning(b, f) /\ f # e
      BY <2>1 DEF Assigning, OneOwner
    <3>5. \A n \in TaskIds : Live(n)' => n = k \/ (Live(n) /\ tasks'[n] = tasks[n])
      BY <3>2 DEF Live
    <3>6. /\ \A n \in TaskIds : Live(n) => tasks[n].entry # e
          /\ \A n \in left : tasks[n].entry # e /\ tasks'[n] = tasks[n]
      BY <2>1, <3>1, <3>2, <3>3, OwnersAreTyped DEF OneOwner, Assigning
    <3>7. OneTaskAtATime'
      BY <3>2, <3>5, <3>6 DEF OneOwner, OneTaskAtATime
    <3>8. \A b, c \in Assigners, f \in Entries : Assigning(b, f)' /\ Assigning(c, f)' => b = c
      BY <3>4 DEF OneOwner
    <3>9. \A m, n \in left' : tasks'[m].entry = tasks'[n].entry => m = n
      BY <3>3, <3>6 DEF OneOwner
    <3>10. \A b \in Assigners, n \in TaskIds : Live(n)' => ~Assigning(b, tasks[n].entry)'
      BY <3>1, <3>2, <3>4, <3>5, OwnersAreTyped DEF OneOwner
    <3>11. \A b \in Assigners, n \in left' : ~Assigning(b, tasks[n].entry)'
      BY <3>3, <3>4, <3>6, OwnersAreTyped DEF OneOwner
    <3>12. \A m \in left', n \in TaskIds : Live(n)' => tasks'[m].entry # tasks'[n].entry
      BY <3>2, <3>3, <3>5, <3>6 DEF OneOwner
    <3>13. AbsentUnowned'
      <4>1. hitl[e].status # "absent"
        BY <2>1, <3>1 DEF AbsentUnowned, Assigning
      <4> QED
        BY <2>1, <3>2, <3>4, <4>1 DEF AbsentUnowned
    <3> QED
      BY <3>7, <3>8, <3>9, <3>10, <3>11, <3>12, <3>13 DEF OneOwner
  <2> QED
    BY <2>2, <2>3
<1> QED
  BY <1>2, <1>4, <1>5, <1>6 DEF AssignForHitl

\* The checker: an entry passes from the task that expires to the checker's
\* list, and from the list to a call of AssignForHitl, or is dropped.
LEMMA OneOwnerExpire ==
  ASSUME TypeOK, OneOwner, AbsentUnowned,
         ExpireOldTasks \/ \E n \in TaskIds : LookAtExpired(n)
  PROVE  OneOwner' /\ AbsentUnowned'
<1>1. assign \in [Assigners -> Assignment] /\ tasks \in [TaskIds -> Task] /\ Checker \in Assigners
  BY DEF TypeOK, Assigners
<1>2. ASSUME NEW n \in TaskIds, LookAtExpired(n) PROVE OneOwner' /\ AbsentUnowned'
  <2> DEFINE e == tasks[n].entry
  <2>1. /\ n \in left /\ left' = left \ {n} /\ UNCHANGED <<hitl, tasks>>
        /\ assign[Checker].pc = "idle" /\ e \in Entries
    BY <1>2, OwnersAreTyped DEF LookAtExpired
  <2>2. \A m \in TaskIds : Live(m)' = Live(m)
    BY <2>1 DEF Live
  <2>3. CASE UNCHANGED assign
    <3>1. \A b \in Assigners, f \in Entries : Assigning(b, f)' => Assigning(b, f)
      BY <2>3 DEF Assigning
    <3> QED
      BY <2>1, <2>2, <3>1, FewerOwners
  <2>4. CASE assign' = [assign EXCEPT ![Checker] = [IdleAssign EXCEPT !.pc = "rewards", !.entry = e]]
    <3>1. \A b \in Assigners, f \in Entries :
            Assigning(b, f)' => Assigning(b, f) \/ (b = Checker /\ f = e)
      <4>1. assign'[Checker].pc = "rewards" /\ assign'[Checker].entry = e
            /\ \A b \in Assigners \ {Checker} : assign'[b] = assign[b]
        BY <1>1, <2>1, <2>4, GivenType
      <4> QED
        BY <4>1 DEF Assigning
    <3>2. /\ \A b \in Assigners : ~Assigning(b, e)
          /\ \A m \in TaskIds : Live(m) => tasks[m].entry # e
          /\ \A m \in left' : tasks[m].entry # e
      BY <2>1 DEF OneOwner
    <3>3. OneTaskAtATime'
      BY <2>1, <2>2 DEF OneOwner, OneTaskAtATime
    <3>4. \A b, c \in Assigners, f \in Entries : Assigning(b, f)' /\ Assigning(c, f)' => b = c
      BY <3>1, <3>2 DEF OneOwner
    <3>5. \A b \in Assigners, m \in TaskIds : Live(m) => ~Assigning(b, tasks[m].entry)'
      BY <2>1, <3>1, <3>2, OwnersAreTyped DEF OneOwner
    <3>6. \A b \in Assigners, m \in left' : ~Assigning(b, tasks[m].entry)'
      BY <2>1, <3>1, <3>2, OwnersAreTyped DEF OneOwner
    <3>7. AbsentUnowned'
      <4>1. hitl[e].status # "absent"
        BY <1>1, <2>1, MadeTasks DEF AbsentUnowned, TypeOK, Sent
      <4> QED
        BY <2>1, <3>1, <4>1 DEF AbsentUnowned
    <3> QED
      BY <2>1, <2>2, <3>3, <3>4, <3>5, <3>6, <3>7 DEF OneOwner
  <2> QED
    BY <1>2, <2>3, <2>4 DEF LookAtExpired
<1>3. CASE ExpireOldTasks
  <2>1. /\ left = {} /\ left' \subseteq OverdueTasks /\ UNCHANGED <<hitl, assign>>
        /\ OverdueTasks \subseteq TaskIds
        /\ \A n \in OverdueTasks : Live(n)
        /\ \A n \in TaskIds : tasks'[n].entry = tasks[n].entry
        /\ \A n \in TaskIds : Live(n)' => Live(n) /\ n \notin OverdueTasks
        /\ \A n \in TaskIds : tasks'[n].st # "none" => tasks[n].st # "none"
    <3>1. /\ left = {} /\ left' \subseteq OverdueTasks /\ UNCHANGED <<hitl, assign>>
          /\ tasks' = [n \in TaskIds |->
                         IF n \in OverdueTasks THEN [tasks[n] EXCEPT !.st = "expired"] ELSE tasks[n]]
      BY <1>3 DEF ExpireOldTasks
    <3>2. OverdueTasks \subseteq TaskIds /\ \A n \in OverdueTasks : Live(n) /\ tasks[n].st = "sent"
      BY MadeTasks DEF OverdueTasks, Live
    <3>3. ASSUME NEW n \in TaskIds, n \in OverdueTasks
          PROVE  /\ tasks'[n].entry = tasks[n].entry
                 /\ tasks'[n].st = "expired"
      BY <1>1, <3>1, <3>3 DEF Task
    <3>4. ASSUME NEW n \in TaskIds, n \notin OverdueTasks PROVE tasks'[n] = tasks[n]
      BY <1>1, <3>1, <3>4
    <3> QED
      BY <3>1, <3>2, <3>3, <3>4 DEF Live
  <2>2. \A b \in Assigners, f \in Entries : Assigning(b, f)' = Assigning(b, f)
    BY <2>1 DEF Assigning
  <2>3. OneTaskAtATime'
    BY <2>1 DEF OneOwner, OneTaskAtATime
  <2>4. \A m, n \in left' : tasks'[m].entry = tasks'[n].entry => m = n
    BY <2>1 DEF OneOwner, OneTaskAtATime
  <2>5. \A b \in Assigners, n \in left' : ~Assigning(b, tasks[n].entry)'
    BY <2>1, <2>2, OwnersAreTyped DEF OneOwner
  <2>6. \A m \in left', n \in TaskIds : Live(n)' => tasks'[m].entry # tasks'[n].entry
    BY <2>1 DEF OneOwner, OneTaskAtATime
  <2>7. \A b \in Assigners, n \in TaskIds : Live(n)' => ~Assigning(b, tasks[n].entry)'
    BY <2>1, <2>2, OwnersAreTyped DEF OneOwner
  <2>8. AbsentUnowned'
    BY <2>1, <2>2 DEF AbsentUnowned
  <2> QED
    BY <2>1, <2>2, <2>3, <2>4, <2>5, <2>6, <2>7, <2>8 DEF OneOwner
<1> QED
  BY <1>2, <1>3

\* Reviewers, administrators, time and the end of the process give no entry a
\* new owner.
LEMMA OneOwnerOthers ==
  ASSUME TypeOK, OneOwner, AbsentUnowned,
         Review \/ Administer \/ Crash \/ \E n \in TaskIds : Overdue(n)
  PROVE  OneOwner' /\ AbsentUnowned'
<1>1. /\ assign \in [Assigners -> Assignment] /\ tasks \in [TaskIds -> Task]
      /\ hitl \in [Entries -> Entry]
  BY DEF TypeOK
<1>2. left' \subseteq left /\ \A a \in Assigners, e \in Entries : Assigning(a, e)' => Assigning(a, e)
  BY <1>1, IdleTypes
     DEF Review, AcceptReviewerTask, MarkCompleted, CompleteReviewerTask, CreditReviewer, Commit,
         Rollback, Administer, ResolveHitlItem, DeleteEntry, CreateReviewer, UpdateReviewer,
         UpdateRewardConfig, Crash, Overdue, Assigning
<1>3. \A e \in Entries : hitl[e].status # "absent" => hitl'[e].status # "absent"
  <2>1. ASSUME NEW f \in Entries, ResolveHitlItem(f) \/ DeleteEntry(f),
               NEW e \in Entries, hitl[e].status # "absent"
        PROVE  hitl'[e].status # "absent"
    BY <1>1, <2>1 DEF ResolveHitlItem, DeleteEntry, Entry
  <2> QED
    BY <2>1
       DEF Review, AcceptReviewerTask, MarkCompleted, CompleteReviewerTask, CreditReviewer, Commit,
           Rollback, Administer, CreateReviewer, UpdateReviewer, UpdateRewardConfig, Crash, Overdue
<1>4. ASSUME NEW n \in TaskIds
      PROVE  /\ tasks'[n].entry = tasks[n].entry
             /\ Live(n)' => Live(n)
             /\ tasks'[n].st # "none" => tasks[n].st # "none"
  <2>1. CASE UNCHANGED tasks
    BY <2>1 DEF Live
  <2>2. ASSUME NEW m \in TaskIds, Overdue(m) \/ AcceptReviewerTask(m)
        PROVE  /\ tasks'[n].entry = tasks[n].entry
               /\ Live(n)' => Live(n)
               /\ tasks'[n].st # "none" => tasks[n].st # "none"
    <3>1. CASE n # m
      BY <1>1, <2>2, <3>1 DEF Overdue, AcceptReviewerTask, Live
    <3>2. CASE n = m
      BY <1>1, <2>2, <3>2 DEF Overdue, AcceptReviewerTask, Live, Task
    <3> QED
      BY <3>1, <3>2
  <2>3. ASSUME NEW c \in Clients, Commit(c)
        PROVE  /\ tasks'[n].entry = tasks[n].entry
               /\ Live(n)' => Live(n)
               /\ tasks'[n].st # "none" => tasks[n].st # "none"
    <3>1. tasks[tx[c].task].st # "none" /\ tx[c].task \in TaskIds
      BY <2>3, MadeTasks DEF Commit, TypeOK, Completes, Sent
    <3>2. tasks' = [tasks EXCEPT ![tx[c].task].st = "completed"]
      BY <2>3 DEF Commit
    <3>3. CASE n # tx[c].task
      BY <1>1, <3>2, <3>3 DEF Live
    <3>4. CASE n = tx[c].task
      BY <1>1, <3>1, <3>2, <3>4 DEF Live, Task
    <3> QED
      BY <3>3, <3>4
  <2>4. ASSUME NEW e \in Entries, DeleteEntry(e)
        PROVE  /\ tasks'[n].entry = tasks[n].entry
               /\ Live(n)' => Live(n)
               /\ tasks'[n].st # "none" => tasks[n].st # "none"
    <3>1. tasks'[n] = [tasks[n] EXCEPT !.kept = FALSE] \/ tasks'[n] = tasks[n]
      BY <2>4 DEF DeleteEntry
    <3> QED
      BY <1>1, <3>1 DEF Live, Task
  <2> QED
    BY <2>1, <2>2, <2>3, <2>4
       DEF Review, MarkCompleted, CompleteReviewerTask, CreditReviewer, Rollback, Administer,
           ResolveHitlItem, CreateReviewer, UpdateReviewer, UpdateRewardConfig, Crash
<1> QED
  BY <1>2, <1>3, <1>4, FewerOwners

\* An entry is never owned twice, whatever workers, checker and clients do.
LEMMA OneOwnerAlways == Spec => [](OneOwner /\ AbsentUnowned)
<1>1. Init => OneOwner /\ AbsentUnowned
  BY DEF Init, OneOwner, AbsentUnowned, OneTaskAtATime, Live, Assigning, NoTask, IdleAssign
<1>2. TypeOK /\ OneOwner /\ AbsentUnowned /\ [Next]_vars => OneOwner' /\ AbsentUnowned'
  <2> SUFFICES ASSUME TypeOK, OneOwner, AbsentUnowned, [Next]_vars PROVE OneOwner' /\ AbsentUnowned'
    OBVIOUS
  <2>1. CASE UNCHANGED vars
    <3>1. /\ \A n \in TaskIds : Live(n)' = Live(n)
          /\ \A a \in Assigners, e \in Entries : Assigning(a, e)' = Assigning(a, e)
          /\ UNCHANGED <<left, tasks, hitl>>
      BY <2>1 DEF vars, Live, Assigning
    <3> QED
      BY <3>1, FewerOwners
  <2>2. CASE Dispatch
    BY <2>2, OneOwnerAssign, OneOwnerExpire, OneOwnerOthers DEF Dispatch, Assigners
  <2> QED
    BY <2>1, <2>2, OneOwnerOthers DEF Next
<1> QED
  BY <1>1, <1>2, TypeCorrect, PTL DEF Spec

\* An entry has at most one task that can still be completed, at any moment of
\* any interleaving of workers, checker, reviewers, deletions and crashes.
THEOREM OneTaskPerEntry == Spec => []OneTaskAtATime
<1>1. OneOwner => OneTaskAtATime
  BY DEF OneOwner
<1> QED
  BY <1>1, OneOwnerAlways, PTL

-----------------------------------------------------------------------------
(* At most one task after an entry is resolved.                            *)

\* The entries that a call of AssignForHitl may still be given.
Open(e) == hitl[e].status \in {"absent", "pending"}

\* The task sent too late used up the one call that had the entry, and an entry
\* that is not open is given to no call any more.
LateIsLast == \A e \in Entries :
  late[e] # 0 => late[e] = 1 /\ ~Open(e) /\ \A a \in Assigners : ~Assigning(a, e)

LEMMA LateStaysLast ==
  ASSUME LateIsLast, UNCHANGED late,
         \A e \in Entries : Open(e)' => Open(e),
         \A a \in Assigners, e \in Entries : Assigning(a, e)' => Assigning(a, e) \/ Open(e)
  PROVE  LateIsLast'
BY DEF LateIsLast

\* The one statement that sends a task too late ends the one call that could.
LEMMA LateCreate ==
  ASSUME TypeOK, OneOwner, AbsentUnowned, LateIsLast, NEW a \in Assigners,
         CreateReviewerTaskWithExpiry(a)
  PROVE  LateIsLast'
<1> DEFINE e == assign[a].entry
<1>1. /\ e \in Entries /\ Assigning(a, e) /\ UNCHANGED hitl
      /\ late \in [Entries -> Nat]
  BY OwnersAreTyped DEF CreateReviewerTaskWithExpiry, Assigning, TypeOK
<1>2. \A b \in Assigners, f \in Entries : Assigning(b, f)' => Assigning(b, f) /\ f # e
  <2>1. assign'[a].pc = "idle" /\ \A b \in Assigners \ {a} : assign'[b] = assign[b]
    BY IdleTypes DEF CreateReviewerTaskWithExpiry, TypeOK
  <2> QED
    BY <1>1, <2>1 DEF Assigning, OneOwner
<1>3. \A f \in Entries : Open(f)' = Open(f)
  BY <1>1 DEF Open
<1>4. CASE UNCHANGED late
  BY <1>2, <1>3, <1>4, LateStaysLast
<1>5. CASE late' # late
  <2>1. late' = [late EXCEPT ![e] = @ + 1] /\ ~Open(e)
    BY <1>1, <1>5 DEF CreateReviewerTaskWithExpiry, Open, AbsentUnowned
  <2>2. late[e] = 0
    BY <1>1 DEF LateIsLast
  <2>3. late'[e] = 1 /\ \A f \in Entries \ {e} : late'[f] = late[f]
    BY <1>1, <2>1, <2>2
  <2> QED
    BY <1>2, <1>3, <2>1, <2>3 DEF LateIsLast
<1> QED
  BY <1>4, <1>5

\* No step opens an entry again, and only open entries are given to a call.
LEMMA LateStep ==
  ASSUME TypeOK, OneOwner, AbsentUnowned, LateIsLast, Next
  PROVE  LateIsLast'
<1>1. /\ assign \in [Assigners -> Assignment] /\ hitl \in [Entries -> Entry]
      /\ Checker \in Assigners /\ Workers \subseteq Assigners
  BY DEF TypeOK, Assigners
<1>2. ASSUME NEW a \in Assigners, NEW e \in Entries, Open(e), UNCHANGED late,
             assign' = [assign EXCEPT ![a] = [IdleAssign EXCEPT !.pc = "rewards", !.entry = e]],
             \A f \in Entries : Open(f)' => Open(f)
      PROVE  LateIsLast'
  <2>1. assign'[a].entry = e /\ \A b \in Assigners \ {a} : assign'[b] = assign[b]
    BY <1>1, <1>2, GivenType
  <2>2. \A b \in Assigners, f \in Entries : Assigning(b, f)' => Assigning(b, f) \/ Open(f)
    BY <1>2, <2>1 DEF Assigning
  <2> QED
    BY <1>2, <2>2, LateStaysLast
<1>3. ASSUME UNCHANGED <<hitl, late>>, NEW a \in Assigners,
             \A b \in Assigners \ {a} : assign'[b] = assign[b],
             assign'[a].pc # "idle" => assign[a].pc # "idle" /\ assign'[a].entry = assign[a].entry
      PROVE  LateIsLast'
  <2>1. \A b \in Assigners, f \in Entries : Assigning(b, f)' => Assigning(b, f)
    BY <1>3 DEF Assigning
  <2>2. \A f \in Entries : Open(f)' => Open(f)
    BY <1>3 DEF Open
  <2> QED
    BY <1>3, <2>1, <2>2, LateStaysLast
<1>4. ASSUME NEW w \in Workers, NEW e \in Entries, NEW reason \in Reasons, CreateHitlItem(w, e, reason)
      PROVE  LateIsLast'
  <2>1. Open(e) /\ \A f \in Entries : Open(f)' => Open(f)
    BY <1>1, <1>4 DEF CreateHitlItem, Open
  <2> QED
    BY <1>1, <1>2, <1>4, <2>1 DEF CreateHitlItem
<1>5. ASSUME NEW a \in Assigners, GetRewardAmounts(a) PROVE LateIsLast'
  <2>1. PICK amount : assign' = [assign EXCEPT ![a].pc = "pick", ![a].reward = amount]
    BY <1>5 DEF GetRewardAmounts
  <2>2. assign'[a].entry = assign[a].entry /\ \A b \in Assigners \ {a} : assign'[b] = assign[b]
    BY <1>1, <2>1 DEF Assignment
  <2> QED
    BY <1>3, <1>5, <2>2 DEF GetRewardAmounts
<1>6. ASSUME NEW a \in Assigners, NextReviewerRoundRobin(a) PROVE LateIsLast'
  <2>1. \A b \in Assigners \ {a} : assign'[b] = assign[b]
    BY <1>1, <1>6 DEF NextReviewerRoundRobin
  <2>2. assign'[a].pc # "idle" => assign'[a].entry = assign[a].entry
    BY <1>1, <1>6, IdleTypes DEF NextReviewerRoundRobin, Assignment
  <2> QED
    BY <1>3, <1>6, <2>1, <2>2 DEF NextReviewerRoundRobin
<1>7. ASSUME NEW n \in TaskIds, LookAtExpired(n) PROVE LateIsLast'
  <2> DEFINE e == tasks[n].entry
  <2>1. e \in Entries /\ UNCHANGED <<hitl, late>> /\ \A f \in Entries : Open(f)' => Open(f)
    BY <1>7, OwnersAreTyped DEF LookAtExpired, Open
  <2>2. CASE UNCHANGED assign
    BY <1>1, <1>3, <2>1, <2>2
  <2>3. CASE /\ hitl[e].status = "pending"
             /\ assign' = [assign EXCEPT ![Checker] = [IdleAssign EXCEPT !.pc = "rewards", !.entry = e]]
    <3>1. Open(e)
      BY <2>3 DEF Open
    <3> QED
      BY <1>1, <1>2, <2>1, <2>3, <3>1
  <2> QED
    BY <1>7, <2>2, <2>3 DEF LookAtExpired
<1>8. ASSUME UNCHANGED late, UNCHANGED assign \/ Crash, \A f \in Entries : Open(f)' => Open(f)
      PROVE  LateIsLast'
  <2>1. \A b \in Assigners, f \in Entries : Assigning(b, f)' => Assigning(b, f)
    BY <1>8, IdleTypes DEF Crash, Assigning
  <2> QED
    BY <1>8, <2>1, LateStaysLast
<1>9. CASE ExpireOldTasks \/ Review \/ Administer \/ Crash \/ \E n \in TaskIds : Overdue(n)
  <2>1. UNCHANGED late /\ (UNCHANGED assign \/ Crash)
    BY <1>9
       DEF ExpireOldTasks, Review, AcceptReviewerTask, MarkCompleted, CompleteReviewerTask,
           CreditReviewer, Commit, Rollback, Administer, ResolveHitlItem, DeleteEntry, CreateReviewer,
           UpdateReviewer, UpdateRewardConfig, Crash, Overdue
  <2>2. ASSUME NEW e \in Entries, ResolveHitlItem(e) \/ DeleteEntry(e), NEW f \in Entries, Open(f)'
        PROVE  Open(f)
    BY <1>1, <2>2 DEF ResolveHitlItem, DeleteEntry, Entry, Open
  <2>3. \A f \in Entries : Open(f)' => Open(f)
    BY <1>9, <2>2
       DEF ExpireOldTasks, Review, AcceptReviewerTask, MarkCompleted, CompleteReviewerTask,
           CreditReviewer, Commit, Rollback, Administer, CreateReviewer, UpdateReviewer,
           UpdateRewardConfig, Crash, Overdue, Open
  <2> QED
    BY <1>8, <2>1, <2>3
<1> QED
  BY <1>4, <1>5, <1>6, <1>7, <1>9, LateCreate DEF Next, Dispatch, AssignForHitl

\* Resolving an entry comes too late for one task at most: a second one would
\* need a second call of AssignForHitl, and calls are given open entries only.
THEOREM OneLateTask == Spec => []AtMostOneTaskAfterResolve
<1>1. Init => LateIsLast
  BY DEF Init, LateIsLast
<1>2. TypeOK /\ OneOwner /\ AbsentUnowned /\ LateIsLast /\ [Next]_vars => LateIsLast'
  <2>1. LateIsLast /\ UNCHANGED vars => LateIsLast'
    BY DEF vars, LateIsLast, Open, Assigning
  <2> QED
    BY <2>1, LateStep
<1>3. TypeOK /\ LateIsLast => AtMostOneTaskAfterResolve
  BY DEF TypeOK, LateIsLast, AtMostOneTaskAfterResolve
<1> QED
  BY <1>1, <1>2, <1>3, TypeCorrect, OneOwnerAlways, PTL DEF Spec

-----------------------------------------------------------------------------
(* No entry is forgotten.                                                  *)

\* The invariant, entry by entry: it is inductive with the types alone.
Accounted(e) == hitl[e].status = "pending" => Attended(e) \/ excuse[e] # {}

\* What a step has to show: an entry that is pending afterwards and was pending
\* before keeps somebody who has it, or gets an excuse.
LEMMA StaysAccounted ==
  ASSUME NEW e \in Entries, Accounted(e),
         hitl'[e].status = "pending" => hitl[e].status = "pending",
         excuse[e] # {} => excuse'[e] # {},
         Attended(e) => Attended(e)' \/ excuse'[e] # {}
  PROVE  Accounted(e)'
BY DEF Accounted

\* Causes are recorded, never erased.
LEMMA BlameGrows ==
  ASSUME TypeOK, NEW f \in Entries, NEW cause, excuse' = Blame(f, cause)
  PROVE  excuse'[f] # {} /\ \A e \in Entries : excuse[e] # {} => excuse'[e] # {}
BY DEF TypeOK, Blame

\* A call of AssignForHitl hands its entry to the task it inserts, or says why.
LEMMA AccountedAssign ==
  ASSUME TypeOK, NEW a \in Assigners, AssignForHitl(a), NEW e \in Entries, Accounted(e)
  PROVE  Accounted(e)'
<1> DEFINE f == assign[a].entry
<1>1. /\ assign \in [Assigners -> Assignment] /\ tasks \in [TaskIds -> Task]
      /\ assign[a].pc # "idle" /\ f \in Entries
  BY OwnersAreTyped DEF TypeOK, AssignForHitl, GetRewardAmounts, NextReviewerRoundRobin,
                        CreateReviewerTaskWithExpiry
<1>2. UNCHANGED <<hitl, left>>
  BY DEF AssignForHitl, GetRewardAmounts, NextReviewerRoundRobin, CreateReviewerTaskWithExpiry
<1>3. \A b \in Assigners \ {a} : assign'[b] = assign[b]
  <2>1. CASE GetRewardAmounts(a)
    BY <1>1, <2>1 DEF GetRewardAmounts
  <2>2. CASE NextReviewerRoundRobin(a)
    BY <1>1, <2>2 DEF NextReviewerRoundRobin
  <2>3. CASE CreateReviewerTaskWithExpiry(a)
    BY <1>1, <2>3 DEF CreateReviewerTaskWithExpiry
  <2> QED
    BY <2>1, <2>2, <2>3 DEF AssignForHitl
<1>4. excuse[e] # {} => excuse'[e] # {}
  BY <1>1, BlameGrows
     DEF AssignForHitl, GetRewardAmounts, NextReviewerRoundRobin, CreateReviewerTaskWithExpiry
<1>5. CASE UNCHANGED tasks /\ assign'[a].pc # "idle" /\ assign'[a].entry = f
  <2>1. Attended(e) => Attended(e)'
    BY <1>2, <1>3, <1>5 DEF Attended, EntriesOf
  <2> QED
    BY <1>2, <1>4, <2>1, StaysAccounted
<1>6. CASE UNCHANGED tasks /\ excuse'[f] # {}
  <2>1. Attended(e) => Attended(e)' \/ e = f
    BY <1>2, <1>3, <1>6 DEF Attended, EntriesOf
  <2> QED
    BY <1>2, <1>4, <1>6, <2>1, StaysAccounted
<1>7. CASE CreateReviewerTaskWithExpiry(a) /\ tasks' # tasks
  <2>1. PICK k \in TaskIds : k = made + 1
    BY <1>7, MadeTasks, DispatchAssumption DEF CreateReviewerTaskWithExpiry, TaskIds
  <2>2. /\ tasks'[k].entry = f /\ tasks'[k].st = "sent"
        /\ \A n \in TaskIds \ {k} : tasks'[n] = tasks[n]
    BY <1>1, <1>7, <2>1 DEF CreateReviewerTaskWithExpiry
  <2>3. tasks[k].st = "none" /\ k \notin left
    BY <2>1, MadeTasks DEF TypeOK, Sent
  <2>4. EntriesOf(left)' = EntriesOf(left)
    BY <1>2, <2>2, <2>3, OwnersAreTyped DEF EntriesOf
  <2>5. Attended(e) => Attended(e)'
    BY <1>3, <2>2, <2>3, <2>4 DEF Attended
  <2> QED
    BY <1>2, <1>4, <2>5, StaysAccounted
<1>8. CASE GetRewardAmounts(a)
  <2>1. PICK amount : assign' = [assign EXCEPT ![a].pc = "pick", ![a].reward = amount]
    BY <1>8 DEF GetRewardAmounts
  <2>2. assign'[a].pc = "pick" /\ assign'[a].entry = f
    BY <1>1, <2>1 DEF Assignment
  <2> QED
    BY <1>5, <1>8, <2>2 DEF GetRewardAmounts
<1>9. CASE NextReviewerRoundRobin(a)
  <2>1. ASSUME NEW r, assign' = [assign EXCEPT ![a].pc = "create", ![a].reviewer = r]
        PROVE  assign'[a].pc = "create" /\ assign'[a].entry = f
    BY <1>1, <2>1 DEF Assignment
  <2>2. excuse' = Blame(f, "noReviewer") => excuse'[f] # {}
    BY <1>1, BlameGrows
  <2> QED
    BY <1>5, <1>6, <1>9, <2>1, <2>2 DEF NextReviewerRoundRobin
<1>10. CASE CreateReviewerTaskWithExpiry(a)
  <2>1. UNCHANGED tasks \/ tasks' # tasks
    OBVIOUS
  <2>2. excuse' = Blame(f, "notCreated") => excuse'[f] # {}
    BY <1>1, BlameGrows
  <2>3. CASE made' = made + 1 /\ tasks' = tasks
    <3>1. PICK k \in TaskIds : k = made + 1 /\ tasks'[k].st = "sent"
      BY <1>1, <1>10, <2>3, MadeTasks, DispatchAssumption DEF CreateReviewerTaskWithExpiry, TaskIds
    <3>2. tasks[k].st = "none"
      BY <3>1, MadeTasks DEF TypeOK, Sent
    <3> QED
      BY <2>3, <3>1, <3>2
  <2> QED
    BY <1>6, <1>7, <1>10, <2>1, <2>2, <2>3 DEF CreateReviewerTaskWithExpiry
<1> QED
  BY <1>8, <1>9, <1>10 DEF AssignForHitl

\* A new entry is in the hands of the worker that inserted it.
LEMMA AccountedCreate ==
  ASSUME TypeOK, NEW w \in Workers, NEW f \in Entries, NEW reason \in Reasons,
         CreateHitlItem(w, f, reason), NEW e \in Entries, Accounted(e)
  PROVE  Accounted(e)'
<1>1. /\ w \in Assigners /\ assign \in [Assigners -> Assignment] /\ hitl \in [Entries -> Entry]
      /\ UNCHANGED <<tasks, left, excuse>> /\ assign[w].pc = "idle"
  BY DEF CreateHitlItem, TypeOK, Assigners
<1>2. /\ assign'[w].pc = "rewards" /\ assign'[w].entry = f
      /\ \A b \in Assigners \ {w} : assign'[b] = assign[b]
  BY <1>1, GivenType DEF CreateHitlItem
<1>3. CASE e = f
  BY <1>1, <1>2, <1>3 DEF Accounted, Attended
<1>4. CASE e # f
  <2>1. hitl'[e] = hitl[e]
    BY <1>1, <1>4 DEF CreateHitlItem
  <2>2. Attended(e) => Attended(e)'
    BY <1>1, <1>2 DEF Attended, EntriesOf
  <2> QED
    BY <1>1, <2>1, <2>2, StaysAccounted
<1> QED
  BY <1>3, <1>4

\* The checker: a task that expires hands its entry to the list, the list hands
\* it to a call, or drops it because it is not pending.
LEMMA AccountedExpire ==
  ASSUME TypeOK, ExpireOldTasks \/ \E n \in TaskIds : LookAtExpired(n),
         NEW e \in Entries, Accounted(e)
  PROVE  Accounted(e)'
<1>1. /\ assign \in [Assigners -> Assignment] /\ tasks \in [TaskIds -> Task] /\ Checker \in Assigners
      /\ excuse \in [Entries -> SUBSET Causes] /\ UNCHANGED hitl
  BY DEF TypeOK, Assigners, ExpireOldTasks, LookAtExpired
<1>2. ASSUME NEW n \in TaskIds, LookAtExpired(n) PROVE Accounted(e)'
  <2> DEFINE f == tasks[n].entry
  <2>1. /\ n \in left /\ left' = left \ {n} /\ UNCHANGED tasks /\ assign[Checker].pc = "idle"
        /\ f \in Entries
    BY <1>2, OwnersAreTyped DEF LookAtExpired
  <2>2. excuse[e] # {} => excuse'[e] # {}
    BY <1>2, <2>1, BlameGrows DEF LookAtExpired
  <2>3. \A b \in Assigners \ {Checker} : assign'[b] = assign[b]
    BY <1>1, <1>2 DEF LookAtExpired
  <2>4. Attended(e) => Attended(e)' \/ e = f
    BY <2>1, <2>3 DEF Attended, EntriesOf
  <2>5. CASE assign' = [assign EXCEPT ![Checker] = [IdleAssign EXCEPT !.pc = "rewards", !.entry = f]]
    <3>1. assign'[Checker].pc = "rewards" /\ assign'[Checker].entry = f
      BY <1>1, <2>1, <2>5, GivenType
    <3>2. e = f => Attended(e)'
      BY <1>1, <3>1 DEF Attended
    <3> QED
      BY <1>1, <2>2, <2>4, <3>2, StaysAccounted
  <2>6. CASE hitl[f].status # "pending"
    <3>1. e = f => Accounted(e)'
      BY <1>1, <2>6 DEF Accounted
    <3> QED
      BY <1>1, <2>2, <2>4, <3>1, StaysAccounted
  <2>7. CASE excuse' = Blame(f, "notRead")
    <3>1. excuse'[f] # {}
      BY <2>1, <2>7, BlameGrows
    <3> QED
      BY <1>1, <2>2, <2>4, <3>1, StaysAccounted
  <2> QED
    BY <1>2, <2>5, <2>6, <2>7 DEF LookAtExpired
<1>3. CASE ExpireOldTasks
  <2>1. PICK unread \in SUBSET OverdueTasks :
          /\ left' = OverdueTasks \ unread
          /\ excuse' = [g \in Entries |->
                          IF g \in EntriesOf(unread) THEN excuse[g] \cup {"notRead"} ELSE excuse[g]]
    BY <1>3 DEF ExpireOldTasks
  <2>2. left = {} /\ UNCHANGED assign /\ OverdueTasks \subseteq TaskIds
    BY <1>3, MadeTasks DEF ExpireOldTasks, OverdueTasks
  <2>3. \A n \in TaskIds :
          /\ tasks'[n].entry = tasks[n].entry
          /\ n \notin OverdueTasks => tasks'[n] = tasks[n]
    <3>1. ASSUME NEW n \in TaskIds
          PROVE  /\ tasks'[n].entry = tasks[n].entry
                 /\ n \notin OverdueTasks => tasks'[n] = tasks[n]
      <4>1. tasks'[n] = IF n \in OverdueTasks THEN [tasks[n] EXCEPT !.st = "expired"] ELSE tasks[n]
        BY <1>3 DEF ExpireOldTasks
      <4> QED
        BY <1>1, <4>1 DEF Task
    <3> QED
      BY <3>1
  <2>4. excuse[e] # {} => excuse'[e] # {}
    BY <2>1
  <2>5. ASSUME NEW n \in TaskIds, n \in OverdueTasks, tasks[n].entry = e
        PROVE  Attended(e)' \/ excuse'[e] # {}
    <3>1. CASE n \in unread
      <4>1. e \in EntriesOf(unread)
        BY <2>5, <3>1 DEF EntriesOf
      <4> QED
        BY <2>1, <4>1
    <3>2. CASE n \in left'
      BY <2>3, <2>5, <3>2 DEF Attended, EntriesOf
    <3> QED
      BY <2>1, <2>5, <3>1, <3>2
  <2>6. Attended(e) => Attended(e)' \/ excuse'[e] # {}
    <3>1. SUFFICES ASSUME Attended(e) PROVE Attended(e)' \/ excuse'[e] # {}
      OBVIOUS
    <3>2. CASE \E a \in Assigners : assign[a].pc # "idle" /\ assign[a].entry = e
      BY <2>2, <3>2 DEF Attended
    <3>3. CASE \E n \in TaskIds : tasks[n].entry = e /\ tasks[n].st \in {"sent", "accepted", "completed"}
      <4>1. PICK n \in TaskIds : tasks[n].entry = e /\ tasks[n].st \in {"sent", "accepted", "completed"}
        BY <3>3
      <4>2. CASE n \notin OverdueTasks
        BY <2>3, <4>1, <4>2 DEF Attended
      <4> QED
        BY <2>5, <4>1, <4>2
    <3> QED
      BY <2>2, <3>1, <3>2, <3>3 DEF Attended, EntriesOf
  <2> QED
    BY <1>1, <2>4, <2>6, StaysAccounted
<1> QED
  BY <1>2, <1>3

\* A row that is written keeps its entry, and does not end otherwise than by
\* being completed: whoever had an entry still has it.
LEMMA AccountedRow ==
  ASSUME TypeOK, NEW n \in TaskIds, NEW t, t.entry = tasks[n].entry,
         t.st = tasks[n].st \/ t.st \in {"accepted", "completed"},
         tasks' = [tasks EXCEPT ![n] = t],
         UNCHANGED <<hitl, assign, left, excuse>>, NEW e \in Entries, Accounted(e)
  PROVE  Accounted(e)'
<1>1. /\ tasks'[n] = t /\ \A m \in TaskIds \ {n} : tasks'[m] = tasks[m]
      /\ left \subseteq TaskIds
  BY OwnersAreTyped DEF TypeOK
<1>2. Attended(e) => Attended(e)'
  BY <1>1 DEF Attended, EntriesOf
<1> QED
  BY <1>2, StaysAccounted

\* Reviewers take no entry away from where it is.
LEMMA AccountedReview ==
  ASSUME TypeOK, Review \/ \E n \in TaskIds : Overdue(n), NEW e \in Entries, Accounted(e)
  PROVE  Accounted(e)'
<1>1. tasks \in [TaskIds -> Task] /\ UNCHANGED <<hitl, assign, left, excuse>>
  BY DEF TypeOK, Review, AcceptReviewerTask, MarkCompleted, CompleteReviewerTask, CreditReviewer,
         Commit, Rollback, Overdue
<1>2. CASE UNCHANGED tasks
  <2>1. Attended(e) => Attended(e)'
    BY <1>1, <1>2 DEF Attended, EntriesOf
  <2> QED
    BY <1>1, <2>1, StaysAccounted
<1>3. ASSUME NEW n \in TaskIds, AcceptReviewerTask(n) PROVE Accounted(e)'
  <2> DEFINE t == [tasks[n] EXCEPT !.st = "accepted"]
  <2>1. t.entry = tasks[n].entry /\ t.st = "accepted" /\ tasks' = [tasks EXCEPT ![n] = t]
    BY <1>1, <1>3 DEF AcceptReviewerTask, Task
  <2> QED
    BY <1>1, <2>1, AccountedRow
<1>4. ASSUME NEW n \in TaskIds, Overdue(n) PROVE Accounted(e)'
  <2> DEFINE t == [tasks[n] EXCEPT !.due = TRUE]
  <2>1. t.entry = tasks[n].entry /\ t.st = tasks[n].st /\ tasks' = [tasks EXCEPT ![n] = t]
    BY <1>1, <1>4 DEF Overdue, Task
  <2> QED
    BY <1>1, <2>1, AccountedRow
<1>5. ASSUME NEW c \in Clients, Commit(c) PROVE Accounted(e)'
  <2> DEFINE n == tx[c].task
             t == [tasks[n] EXCEPT !.st = "completed"]
  <2>1. n \in TaskIds
    BY <1>5, MadeTasks DEF Commit, TypeOK, Completes
  <2>2. t.entry = tasks[n].entry /\ t.st = "completed" /\ tasks' = [tasks EXCEPT ![n] = t]
    BY <1>1, <1>5, <2>1 DEF Commit, Task
  <2> QED
    BY <1>1, <2>1, <2>2, AccountedRow
<1> QED
  BY <1>2, <1>3, <1>4, <1>5
     DEF Review, MarkCompleted, CompleteReviewerTask, CreditReviewer, Rollback

\* Administrators, and the end of the process: an entry that is still pending
\* keeps its task, and a crash is recorded for the entries it cuts off.
LEMMA AccountedAdminister ==
  ASSUME TypeOK, Administer \/ Crash, NEW e \in Entries, Accounted(e)
  PROVE  Accounted(e)'
<1>1. tasks \in [TaskIds -> Task] /\ hitl \in [Entries -> Entry] /\ left \subseteq TaskIds
      /\ excuse \in [Entries -> SUBSET Causes]
  BY OwnersAreTyped DEF TypeOK
<1>2. ASSUME NEW f \in Entries, ResolveHitlItem(f) \/ DeleteEntry(f) PROVE Accounted(e)'
  <2>1. hitl'[e].status = "pending" => hitl[e].status = "pending"
    BY <1>1, <1>2 DEF ResolveHitlItem, DeleteEntry, Entry
  <2>2. \A n \in TaskIds : tasks'[n].entry = tasks[n].entry /\ tasks'[n].st = tasks[n].st
    <3>1. ASSUME NEW n \in TaskIds
          PROVE  tasks'[n].entry = tasks[n].entry /\ tasks'[n].st = tasks[n].st
      <4>1. tasks'[n] = [tasks[n] EXCEPT !.kept = FALSE] \/ tasks'[n] = tasks[n]
        BY <1>2 DEF ResolveHitlItem, DeleteEntry
      <4> QED
        BY <1>1, <4>1 DEF Task
    <3> QED
      BY <3>1
  <2>3. UNCHANGED <<assign, left, excuse>>
    BY <1>2 DEF ResolveHitlItem, DeleteEntry
  <2>4. Attended(e) => Attended(e)'
    BY <1>1, <2>2, <2>3 DEF Attended, EntriesOf
  <2> QED
    BY <2>1, <2>3, <2>4, StaysAccounted
<1>3. CASE Crash
  <2>1. excuse[e] # {} => excuse'[e] # {}
    BY <1>1, <1>3 DEF Crash
  <2>2. ASSUME Attended(e) PROVE Attended(e)' \/ excuse'[e] # {}
    <3>1. CASE \E n \in TaskIds : tasks[n].entry = e /\ tasks[n].st \in {"sent", "accepted", "completed"}
      BY <1>3, <3>1 DEF Crash, Attended
    <3>2. CASE \/ \E a \in Assigners : assign[a].pc # "idle" /\ assign[a].entry = e
               \/ e \in EntriesOf(left)
      <4>1. e \in {assign[a].entry : a \in {b \in Assigners : assign[b].pc # "idle"}} \cup EntriesOf(left)
        BY <3>2
      <4>2. excuse'[e] = excuse[e] \cup {"crash"}
        BY <1>3, <4>1 DEF Crash
      <4> QED
        BY <4>2
    <3> QED
      BY <2>2, <3>1, <3>2 DEF Attended
  <2>3. UNCHANGED hitl
    BY <1>3 DEF Crash
  <2> QED
    BY <2>1, <2>2, <2>3, StaysAccounted
<1>4. CASE UNCHANGED <<hitl, tasks, assign, left, excuse>>
  BY <1>4 DEF Accounted, Attended, EntriesOf
<1> QED
  BY <1>2, <1>3, <1>4 DEF Administer, CreateReviewer, UpdateReviewer, UpdateRewardConfig

\* No pending entry is forgotten by the program: whatever happens, somebody has
\* it, or one of the named causes left it without anybody.
THEOREM NoEntryForgotten == Spec => []EntriesAccountedFor
<1> DEFINE Inv == \A e \in Entries : Accounted(e)
<1>1. Init => Inv
  BY DEF Init, Accounted
<1>2. TypeOK /\ Inv /\ [Next]_vars => Inv'
  <2> SUFFICES ASSUME TypeOK, [Next]_vars, NEW e \in Entries, Accounted(e) PROVE Accounted(e)'
    OBVIOUS
  <2>1. CASE UNCHANGED vars
    BY <2>1 DEF vars, Accounted, Attended, EntriesOf
  <2>2. CASE Dispatch
    BY <2>2, AccountedAssign, AccountedCreate, AccountedExpire, AccountedReview DEF Dispatch
  <2> QED
    BY <2>1, <2>2, AccountedReview, AccountedAdminister DEF Next
<1>3. Inv => EntriesAccountedFor
  BY DEF Accounted, EntriesAccountedFor
<1> QED
  BY <1>1, <1>2, <1>3, TypeCorrect, PTL DEF Spec

-----------------------------------------------------------------------------
(* The contract with the reviewers is kept.                                *)

\* The row lock of a transaction: until it ends its task can still be completed,
\* and no other transaction completes it.
Locks(c, n) == tx[c].pc # "idle" /\ tx[c].task = n

LocksHeld ==
  \A n \in TaskIds, c \in Clients :
    Locks(c, n) => Live(n) /\ \A d \in Clients : Locks(d, n) => c = d

\* Locks only disappear, and a locked task can still be completed.
LEMMA LocksStay ==
  ASSUME LocksHeld,
         \A n \in TaskIds, c \in Clients : Locks(c, n)' => Locks(c, n),
         \A n \in TaskIds, c \in Clients : Locks(c, n)' /\ Live(n) => Live(n)'
  PROVE  LocksHeld'
BY DEF LocksHeld

\* A transaction begins with a task that nobody locked; the statements that
\* would end a task wait for its lock; a commit ends its own task only.
LEMMA LocksStep ==
  ASSUME TypeOK, LocksHeld, Next
  PROVE  LocksHeld'
<1>1. /\ tasks \in [TaskIds -> Task] /\ tx \in [Clients -> Transaction]
      /\ \A n \in TaskIds : TaskLocked(n) <=> \E c \in Clients : Locks(c, n)
  BY DEF TypeOK, TaskLocked, Locks
<1>2. ASSUME UNCHANGED tasks,
             \A c \in Clients : tx'[c].pc # "idle" => tx[c].pc # "idle" /\ tx'[c].task = tx[c].task
      PROVE  LocksHeld'
  BY <1>2, LocksStay DEF Locks, Live
<1>3. ASSUME UNCHANGED tx, \A n \in TaskIds : Live(n) => Live(n)' \/ ~TaskLocked(n)
      PROVE  LocksHeld'
  <2>1. \A n \in TaskIds, c \in Clients : Locks(c, n)' = Locks(c, n)
    BY <1>3 DEF Locks
  <2> QED
    BY <1>1, <1>3, <2>1, LocksStay
<1>4. ASSUME NEW n \in TaskIds, Overdue(n) \/ AcceptReviewerTask(n) PROVE LocksHeld'
  <2>1. UNCHANGED tx
    BY <1>4 DEF Overdue, AcceptReviewerTask
  <2>2. \A m \in TaskIds \ {n} : tasks'[m] = tasks[m]
    BY <1>1, <1>4 DEF Overdue, AcceptReviewerTask
  <2>3. Live(n)'
    BY <1>1, <1>4 DEF Overdue, AcceptReviewerTask, Live, Task
  <2> QED
    BY <1>3, <2>1, <2>2, <2>3 DEF Live
<1>5. ASSUME NEW a \in Assigners, CreateReviewerTaskWithExpiry(a) PROVE LocksHeld'
  <2>1. UNCHANGED tx
    BY <1>5 DEF CreateReviewerTaskWithExpiry
  <2>2. CASE UNCHANGED tasks
    BY <1>2, <2>1, <2>2
  <2>3. CASE ~UNCHANGED tasks
    <3>1. PICK k \in TaskIds : k = made + 1
      BY <1>5, <2>3, MadeTasks, DispatchAssumption DEF CreateReviewerTaskWithExpiry, TaskIds
    <3>2. ~Live(k)
      BY <3>1, MadeTasks DEF TypeOK, Sent, Live
    <3>3. \A n \in TaskIds \ {k} : tasks'[n] = tasks[n]
      BY <1>1, <1>5, <2>3, <3>1 DEF CreateReviewerTaskWithExpiry
    <3> QED
      BY <1>3, <2>1, <3>2, <3>3 DEF Live
  <2> QED
    BY <2>2, <2>3
<1>6. CASE ExpireOldTasks
  <2>1. \A n \in TaskIds : TaskLocked(n) => tasks'[n] = tasks[n]
    BY <1>6 DEF ExpireOldTasks
  <2> QED
    BY <1>3, <1>6, <2>1 DEF ExpireOldTasks, Live
<1>7. ASSUME NEW e \in Entries, DeleteEntry(e) PROVE LocksHeld'
  <2>1. \A n \in TaskIds : TaskLocked(n) => tasks'[n] = tasks[n]
    BY <1>7 DEF DeleteEntry
  <2> QED
    BY <1>3, <1>7, <2>1 DEF DeleteEntry, Live
<1>8. ASSUME NEW c \in Clients, NEW k \in TaskIds, MarkCompleted(c, k) PROVE LocksHeld'
  <2>1. tx'[c] = [pc |-> "marked", task |-> k] /\ \A d \in Clients \ {c} : tx'[d] = tx[d]
    BY <1>1, <1>8 DEF MarkCompleted
  <2>2. \A n \in TaskIds, d \in Clients : Locks(d, n)' <=> IF d = c THEN n = k ELSE Locks(d, n)
    BY <2>1 DEF Locks
  <2>3. /\ \A n \in TaskIds : Live(n)' = Live(n)
        /\ Live(k) /\ \A d \in Clients : ~Locks(d, k)
    BY <1>1, <1>8 DEF MarkCompleted, Live
  <2> QED
    BY <2>2, <2>3 DEF LocksHeld
<1>9. ASSUME NEW c \in Clients, CreditReviewer(c) \/ Rollback(c) PROVE LocksHeld'
  <2>1. UNCHANGED tasks /\ \A d \in Clients \ {c} : tx'[d] = tx[d]
    BY <1>1, <1>9 DEF CreditReviewer, Rollback
  <2>2. tx'[c].pc # "idle" => tx[c].pc # "idle" /\ tx'[c].task = tx[c].task
    BY <1>1, <1>9, IdleTypes DEF CreditReviewer, Rollback, Transaction
  <2> QED
    BY <1>2, <2>1, <2>2
<1>10. ASSUME NEW c \in Clients, Commit(c) PROVE LocksHeld'
  <2>1. tx'[c].pc = "idle" /\ \A d \in Clients \ {c} : tx'[d] = tx[d]
    BY <1>1, <1>10, IdleTypes DEF Commit
  <2>2. \A n \in TaskIds, d \in Clients : Locks(d, n)' => Locks(d, n) /\ d # c
    BY <2>1 DEF Locks
  <2>3. \A n \in TaskIds : n # tx[c].task => tasks'[n] = tasks[n]
    BY <1>1, <1>10 DEF Commit
  <2>4. tx[c].pc # "idle"
    BY <1>10 DEF Commit
  <2>5. \A n \in TaskIds, d \in Clients : Locks(d, n)' => n # tx[c].task
    BY <2>2, <2>4 DEF LocksHeld, Locks
  <2>6. \A n \in TaskIds, d \in Clients : Locks(d, n)' /\ Live(n) => Live(n)'
    BY <2>3, <2>5 DEF Live
  <2> QED
    BY <2>2, <2>6, LocksStay
<1>11. CASE Crash
  BY <1>2, <1>11, IdleTypes DEF Crash
<1>12. CASE UNCHANGED <<tasks, tx>>
  BY <1>2, <1>12
<1> QED
  BY <1>4, <1>5, <1>6, <1>7, <1>8, <1>9, <1>10, <1>11, <1>12
     DEF Next, Dispatch, CreateHitlItem, AssignForHitl, GetRewardAmounts, NextReviewerRoundRobin,
         LookAtExpired, Review, CompleteReviewerTask, Administer, ResolveHitlItem, CreateReviewer,
         UpdateReviewer, UpdateRewardConfig

\* The stage of a task in the contract.
Stage(n) == IF tasks[n].st # "none" /\ ~tasks[n].kept THEN "dropped" ELSE tasks[n].st

\* A step of the contract, seen from the tables.
LEMMA ContractIdle ==
  ASSUME \A n \in TaskIds : /\ Stage(n)' = Stage(n)
                            /\ tasks'[n].reviewer = tasks[n].reviewer
                            /\ tasks'[n].reward = tasks[n].reward,
         \A r \in Reviewers : reviewers'[r].earned = reviewers[r].earned
  PROVE  UNCHANGED Contract!vars
BY DEF Contract!vars, Stage

\* The insert sends the task; a call that fails is none of the contract's business.
LEMMA ContractCreate ==
  ASSUME TypeOK, NEW a \in Assigners, CreateReviewerTaskWithExpiry(a)
  PROVE  [Contract!Next]_(Contract!vars)
<1>1. CASE UNCHANGED tasks
  BY <1>1, ContractIdle DEF CreateReviewerTaskWithExpiry, Stage
<1>2. CASE ~UNCHANGED tasks
  <2>1. PICK r \in Reviewers, amount \in Amounts \cup {0} :
          r = assign[a].reviewer /\ amount = assign[a].reward
    BY DEF CreateReviewerTaskWithExpiry, TypeOK, Assigns, Assignment
  <2>2. PICK k \in TaskIds : k = made + 1
    BY <1>2, MadeTasks, DispatchAssumption DEF CreateReviewerTaskWithExpiry, TaskIds
  <2>3. tasks[k].st = "none"
    BY <2>2, MadeTasks DEF TypeOK, Sent
  <2>4. /\ tasks'[k].st = "sent" /\ tasks'[k].kept
        /\ tasks'[k].reviewer = r /\ tasks'[k].reward = amount
        /\ \A n \in TaskIds \ {k} : tasks'[n] = tasks[n]
        /\ reviewers' = reviewers
    BY <1>2, <2>1, <2>2 DEF CreateReviewerTaskWithExpiry, TypeOK
  <2>5. Contract!Send(k, r, amount)
    BY <2>3, <2>4 DEF Contract!Send
  <2> QED
    BY <2>5 DEF Contract!Next
<1> QED
  BY <1>1, <1>2

\* The checker's UPDATE expires tasks that were sent and not accepted.
LEMMA ContractExpire ==
  ASSUME TypeOK, ExpireOldTasks
  PROVE  \E some \in SUBSET TaskIds : Contract!Expire(some)
<1>1. PICK some \in SUBSET TaskIds : some = OverdueTasks
  BY MadeTasks DEF OverdueTasks
<1>2. \A n \in some : tasks[n].st = "sent" /\ tasks[n].kept
  BY <1>1 DEF OverdueTasks
<1>3. ASSUME NEW n \in TaskIds
      PROVE  /\ tasks'[n].kept = tasks[n].kept /\ tasks'[n].reviewer = tasks[n].reviewer
             /\ tasks'[n].reward = tasks[n].reward
             /\ tasks'[n].st = IF n \in some THEN "expired" ELSE tasks[n].st
  <2>1. tasks[n] \in Task
    BY DEF TypeOK
  <2>2. tasks'[n] = IF n \in some THEN [tasks[n] EXCEPT !.st = "expired"] ELSE tasks[n]
    BY <1>1 DEF ExpireOldTasks
  <2> QED
    BY <2>1, <2>2 DEF Task
<1>4. reviewers' = reviewers
  BY DEF ExpireOldTasks
<1>5. Contract!Expire(some)
  BY <1>2, <1>3, <1>4 DEF Contract!Expire
<1> QED
  BY <1>5

\* Deleting an entry drops its tasks and takes no earnings back.
LEMMA ContractDrop ==
  ASSUME TypeOK, NEW e \in Entries, DeleteEntry(e)
  PROVE  \E gone \in SUBSET TaskIds : Contract!Drop(gone)
<1>1. PICK gone \in SUBSET TaskIds : gone = {n \in 1..made : tasks[n].kept /\ tasks[n].entry = e}
  BY MadeTasks
<1>2. \A n \in gone : tasks[n].st # "none" /\ tasks[n].kept
  <2>1. \A n \in gone : n <= made /\ Sent(n)
    BY <1>1, MadeTasks DEF TypeOK
  <2> QED
    BY <1>1, <2>1 DEF Sent
<1>3. ASSUME NEW n \in TaskIds
      PROVE  /\ tasks'[n].st = tasks[n].st /\ tasks'[n].reviewer = tasks[n].reviewer
             /\ tasks'[n].reward = tasks[n].reward
             /\ tasks'[n].kept = IF n \in gone THEN FALSE ELSE tasks[n].kept
  <2>1. tasks[n] \in Task
    BY DEF TypeOK
  <2>2. tasks'[n] = IF n \in gone THEN [tasks[n] EXCEPT !.kept = FALSE] ELSE tasks[n]
    BY <1>1 DEF DeleteEntry
  <2>3. CASE n \in gone
    BY <2>1, <2>2, <2>3 DEF Task
  <2>4. CASE n \notin gone
    BY <2>2, <2>4
  <2> QED
    BY <2>3, <2>4
<1>4. reviewers' = reviewers
  BY DEF DeleteEntry
<1>5. Contract!Drop(gone)
  BY <1>2, <1>3, <1>4 DEF Contract!Drop
<1> QED
  BY <1>5

\* Accepting is accepting.
LEMMA ContractAccept ==
  ASSUME TypeOK, NEW n \in TaskIds, AcceptReviewerTask(n)
  PROVE  Contract!Accept(n)
<1>1. tasks[n] \in Task /\ \A m \in TaskIds \ {n} : tasks'[m] = tasks[m]
  BY DEF TypeOK, AcceptReviewerTask
<1>2. tasks'[n] = [tasks[n] EXCEPT !.st = "accepted"] /\ reviewers' = reviewers
  BY DEF TypeOK, AcceptReviewerTask
<1>3. /\ tasks'[n].st = "accepted" /\ tasks'[n].kept = tasks[n].kept
      /\ tasks'[n].reviewer = tasks[n].reviewer /\ tasks'[n].reward = tasks[n].reward
  BY <1>1, <1>2 DEF Task
<1>4. tasks[n].st = "sent" /\ tasks[n].kept
  BY DEF AcceptReviewerTask
<1> QED
  BY <1>1, <1>2, <1>3, <1>4 DEF Contract!Accept

\* The commit is the step in which the task ends and is paid: the lock held
\* since the first statement guarantees it could still be completed.
LEMMA ContractComplete ==
  ASSUME TypeOK, LocksHeld, NEW c \in Clients, Commit(c)
  PROVE  \E n \in TaskIds : Contract!Complete(n)
<1>1. PICK n \in TaskIds : n = tx[c].task
  BY MadeTasks DEF Commit, TypeOK, Completes
<1>2. tasks[n] \in Task /\ \A m \in TaskIds \ {n} : tasks'[m] = tasks[m]
  BY <1>1 DEF TypeOK, Commit
<1>3. tasks[n].kept /\ tasks[n].st \in {"sent", "accepted"}
  BY <1>1 DEF Commit, LocksHeld, Locks, Live
<1>4. PICK r \in Reviewers : r = tasks[n].reviewer
  BY <1>3, KnownTask
<1>5. /\ tasks'[n].st = "completed" /\ tasks'[n].kept = tasks[n].kept
      /\ tasks'[n].reviewer = tasks[n].reviewer /\ tasks'[n].reward = tasks[n].reward
  <2>1. tasks'[n] = [tasks[n] EXCEPT !.st = "completed"]
    BY <1>1 DEF TypeOK, Commit
  <2> QED
    BY <1>2, <2>1 DEF Task
<1>6. /\ reviewers'[r].earned = reviewers[r].earned + tasks[n].reward
      /\ \A s \in Reviewers \ {r} : reviewers'[s] = reviewers[s]
  <2>1. reviewers \in [Reviewers -> Reviewer] /\ reviewers[r] \in Reviewer
    BY DEF TypeOK
  <2>2. reviewers' = [reviewers EXCEPT ![r].earned = @ + tasks[n].reward]
    BY <1>1, <1>4 DEF Commit
  <2> QED
    BY <2>1, <2>2 DEF Reviewer
<1>7. Contract!Complete(n)
  BY <1>2, <1>3, <1>4, <1>5, <1>6 DEF Contract!Complete
<1> QED
  BY <1>7

\* Every step of the program is a step of the contract or none of its business.
LEMMA ContractStep ==
  ASSUME TypeOK, LocksHeld, [Next]_vars
  PROVE  [Contract!Next]_(Contract!vars)
<1>1. CASE UNCHANGED <<tasks, reviewers>>
  BY <1>1, ContractIdle DEF Stage
<1>2. ASSUME NEW n \in TaskIds, Overdue(n) PROVE UNCHANGED Contract!vars
  <2>1. tasks[n] \in Task /\ reviewers' = reviewers /\ \A m \in TaskIds \ {n} : tasks'[m] = tasks[m]
    BY <1>2 DEF TypeOK, Overdue
  <2>2. tasks'[n] = [tasks[n] EXCEPT !.due = TRUE]
    BY <1>2 DEF TypeOK, Overdue
  <2>3. /\ tasks'[n].st = tasks[n].st /\ tasks'[n].kept = tasks[n].kept
        /\ tasks'[n].reviewer = tasks[n].reviewer /\ tasks'[n].reward = tasks[n].reward
    BY <2>1, <2>2 DEF Task
  <2> QED
    BY <2>1, <2>3, ContractIdle DEF Stage
<1>3. ASSUME NEW r \in Reviewers, NEW type \in ReviewerTypes, NEW status \in {"active", "inactive"},
             CreateReviewer(r, type) \/ UpdateReviewer(r, type, status)
      PROVE  UNCHANGED Contract!vars
  <2>1. tasks' = tasks /\ \A s \in Reviewers : reviewers'[s].earned = reviewers[s].earned
    BY <1>3 DEF CreateReviewer, UpdateReviewer, TypeOK, Reviewer
  <2> QED
    BY <2>1, ContractIdle DEF Stage
<1>4. ASSUME NEW n \in TaskIds, AcceptReviewerTask(n) PROVE Contract!Next
  BY <1>4, ContractAccept DEF Contract!Next
<1>5. ASSUME NEW c \in Clients, Commit(c) PROVE Contract!Next
  BY <1>5, ContractComplete DEF Contract!Next
<1>6. ASSUME NEW e \in Entries, DeleteEntry(e) PROVE Contract!Next
  BY <1>6, ContractDrop DEF Contract!Next
<1>7. ASSUME ExpireOldTasks PROVE Contract!Next
  BY <1>7, ContractExpire DEF Contract!Next
<1>8. CASE UNCHANGED vars
  BY <1>1, <1>8 DEF vars
<1> QED
  BY <1>1, <1>2, <1>3, <1>4, <1>5, <1>6, <1>7, <1>8, ContractCreate
     DEF Next, Dispatch, CreateHitlItem, AssignForHitl, GetRewardAmounts, NextReviewerRoundRobin,
         LookAtExpired, Review, MarkCompleted, CompleteReviewerTask, CreditReviewer, Rollback,
         Administer, ResolveHitlItem, UpdateRewardConfig, Crash

\* The program implements the contract: one holder and one reward for the life
\* of a task, one end, and payment in the step that completes it.
THEOREM ImplementsContract == Spec => KeepsContract
<1>1. Init => Contract!Init /\ LocksHeld
  <2>1. Init => LocksHeld
    BY IdleTypes DEF Init, LocksHeld, Locks
  <2>2. Init => Contract!Init
    BY DEF Init, Contract!Init, NoTask
  <2> QED
    BY <2>1, <2>2
<1>2. TypeOK /\ LocksHeld /\ [Next]_vars => LocksHeld'
  <2>1. LocksHeld /\ UNCHANGED vars => LocksHeld'
    BY DEF vars, LocksHeld, Locks, Live
  <2> QED
    BY <2>1, LocksStep
<1>3. TypeOK /\ LocksHeld /\ [Next]_vars => [Contract!Next]_(Contract!vars)
  BY ContractStep
<1> QED
  BY <1>1, <1>2, <1>3, TypeCorrect, PTL DEF Spec, KeepsContract, Contract!Spec

-----------------------------------------------------------------------------
(* Sums over sets of tasks.  Induction over a finite set is an argument by *)
(* the smallest counterexample.                                            *)

\* What the tasks of a set are worth together, and the fold behind it.
Worth(ts, S) == MapThenSumSet(LAMBDA n : ts[n].reward, S)

One(s) == CHOOSE x \in s : TRUE

Adds(g, ts, S) ==
  g = [s \in SUBSET S |-> IF s = {} THEN 0 ELSE ts[One(s)].reward + g[s \ {One(s)}]]

SameRewards(ts, us, S) == \A x \in S : ts[x].reward = us[x].reward

LEMMA WorthIsFold == ASSUME NEW ts, NEW S PROVE Worth(ts, S) = (CHOOSE g : Adds(g, ts, S))[S]
  BY DEF Worth, MapThenSumSet, MapThenFoldSet, Adds, One

\* Of some subsets of a finite set one has none of the others within it.
LEMMA SmallestSubset ==
  ASSUME NEW S, IsFiniteSet(S), NEW B \in SUBSET (SUBSET S), B # {}
  PROVE  \E s \in B : \A t \in SUBSET s : t \in B => t = s
<1>1. FiniteSubsetsOf(S) = SUBSET S
  BY FS_FiniteSubsetsOfFinite
<1>2. IsWellFoundedOn(StrictSubsetOrdering(S), SUBSET S)
  BY <1>1, FS_StrictSubsetOrderingWellFounded
<1>3. PICK s \in B : \A t \in B : <<t, s>> \notin StrictSubsetOrdering(S)
  BY <1>2, WFMin
<1>4. \A t \in SUBSET s : t \in B => t = s
  BY <1>3 DEF StrictSubsetOrdering
<1> QED
  BY <1>4

LEMMA OneIsIn == ASSUME NEW s, s # {} PROVE One(s) \in s /\ s \ {One(s)} \in SUBSET s /\ s \ {One(s)} # s
  BY DEF One

LEMMA AddsOne ==
  ASSUME NEW g, NEW ts, NEW S, Adds(g, ts, S), NEW s \in SUBSET S
  PROVE  g[s] = IF s = {} THEN 0 ELSE ts[One(s)].reward + g[s \ {One(s)}]
  BY Zenon DEF Adds

\* Two such folds agree where the rewards do.
LEMMA AddsUnique ==
  ASSUME NEW S, IsFiniteSet(S), NEW g, NEW h, NEW T, NEW U, S \subseteq T, S \subseteq U,
         NEW ts, NEW us, Adds(g, ts, T), Adds(h, us, U), SameRewards(ts, us, S)
  PROVE  g[S] = h[S]
<1> DEFINE B == {s \in SUBSET S : g[s] # h[s]}
<1>1. SUFFICES ASSUME B # {} PROVE FALSE
  BY DEF B
<1>2. PICK s \in B : \A t \in SUBSET s : t \in B => t = s
  <2> HIDE DEF B
  <2>1. B \in SUBSET (SUBSET S)
    BY DEF B
  <2> QED
    BY <1>1, <2>1, SmallestSubset
<1>3. s \in SUBSET S /\ s \in SUBSET T /\ s \in SUBSET U /\ g[s] # h[s]
  OBVIOUS
<1>4. g[s] = IF s = {} THEN 0 ELSE ts[One(s)].reward + g[s \ {One(s)}]
  <2>1. Adds(g, ts, T) /\ s \in SUBSET T
    BY <1>3
  <2> QED
    BY ONLY <2>1, AddsOne
<1>5. h[s] = IF s = {} THEN 0 ELSE us[One(s)].reward + h[s \ {One(s)}]
  <2>1. Adds(h, us, U) /\ s \in SUBSET U
    BY <1>3
  <2> QED
    BY ONLY <2>1, AddsOne
<1>6. s # {}
  BY <1>3, <1>4, <1>5
<1>7. One(s) \in S /\ g[s \ {One(s)}] = h[s \ {One(s)}]
  <2> DEFINE u == s \ {One(s)}
  <2>1. One(s) \in s /\ u \in SUBSET s /\ u # s
    BY <1>6, OneIsIn
  <2>2. u \notin B
    BY <1>2, <2>1
  <2> HIDE DEF u
  <2>3. u \in SUBSET S /\ One(s) \in S
    BY <1>3, <2>1
  <2>4. g[u] = h[u]
    BY <2>2, <2>3
  <2> QED
    BY <2>3, <2>4 DEF u
<1> QED
  BY <1>3, <1>4, <1>5, <1>6, <1>7 DEF SameRewards

\* There is such a fold for every finite set.
LEMMA AddsExists ==
  ASSUME NEW S, IsFiniteSet(S), NEW ts
  PROVE  \E g : Adds(g, ts, S)
<1> DEFINE B == {s \in SUBSET S : ~\E g : Adds(g, ts, s)}
<1>1. SUFFICES ASSUME B # {} PROVE FALSE
  BY DEF B
<1>2. PICK M \in B : \A t \in SUBSET M : t \in B => t = M
  <2> HIDE DEF B
  <2>1. B \in SUBSET (SUBSET S)
    BY DEF B
  <2> QED
    BY <1>1, <2>1, SmallestSubset
<1> DEFINE G(t) == CHOOSE g : Adds(g, ts, t)
           h == [s \in SUBSET M |-> IF s = {} THEN 0
                  ELSE ts[One(s)].reward + G(s \ {One(s)})[s \ {One(s)}]]
<1>3. M \in SUBSET S /\ ~\E g : Adds(g, ts, M)
  OBVIOUS
<1>4. \A t \in SUBSET M : t # M => Adds(G(t), ts, t)
  BY <1>2, <1>3
<1> HIDE DEF B, G
<1>5. ASSUME NEW s \in SUBSET M, s # {} PROVE h[s \ {One(s)}] = G(s \ {One(s)})[s \ {One(s)}]
  <2> DEFINE u == s \ {One(s)}
             v == u \ {One(u)}
  <2>1. u \in SUBSET M /\ u # M
    BY <1>5, OneIsIn
  <2>2. Adds(G(u), ts, u)
    BY <1>4, <2>1
  <2>3. G(u)[u] = IF u = {} THEN 0 ELSE ts[One(u)].reward + G(u)[v]
    <3>1. \A t \in SUBSET u : G(u)[t] = IF t = {} THEN 0
                                        ELSE ts[One(t)].reward + G(u)[t \ {One(t)}]
      BY <2>2, AddsOne
    <3>2. u \in SUBSET u
      OBVIOUS
    <3> HIDE DEF u
    <3> QED
      BY <3>1, <3>2
  <2>4. h[u] = IF u = {} THEN 0 ELSE ts[One(u)].reward + G(v)[v]
    BY <2>1
  <2>5. CASE u = {}
    BY <2>3, <2>4, <2>5
  <2>6. CASE u # {}
    <3>1. v \in SUBSET u /\ v # M /\ v \in SUBSET M /\ v \subseteq v
      BY <2>1, <2>6, OneIsIn
    <3>2. Adds(G(v), ts, v)
      BY <1>4, <3>1
    <3>3. IsFiniteSet(v) /\ SameRewards(ts, ts, v)
      BY <1>3, <3>1, FS_Subset DEF SameRewards
    <3> HIDE DEF u, v, h
    <3>4. G(u)[v] = G(v)[v]
      BY <2>2, <3>1, <3>2, <3>3, AddsUnique
    <3> QED
      BY <2>3, <2>4, <2>6, <3>4 DEF u
  <2> QED
    BY <2>5, <2>6
<1>6. Adds(h, ts, M)
  <2>1. \A s \in SUBSET M : (IF s = {} THEN 0 ELSE ts[One(s)].reward + G(s \ {One(s)})[s \ {One(s)}])
                            = (IF s = {} THEN 0 ELSE ts[One(s)].reward + h[s \ {One(s)}])
    BY <1>5
  <2> QED
    BY <2>1 DEF Adds
<1> QED
  BY <1>3, <1>6

LEMMA WorthAdds ==
  ASSUME NEW S, IsFiniteSet(S), NEW ts
  PROVE  \E g : Adds(g, ts, S) /\ Worth(ts, S) = g[S]
<1>1. Adds(CHOOSE g : Adds(g, ts, S), ts, S)
  BY AddsExists
<1> QED
  BY <1>1, WorthIsFold

\* What is worth what depends on the rewards alone.
LEMMA WorthSame ==
  ASSUME NEW S, IsFiniteSet(S), NEW ts, NEW us, SameRewards(ts, us, S)
  PROVE  Worth(ts, S) = Worth(us, S)
<1>1. PICK g : Adds(g, ts, S) /\ Worth(ts, S) = g[S]
  BY WorthAdds
<1>2. PICK h : Adds(h, us, S) /\ Worth(us, S) = h[S]
  BY WorthAdds
<1> QED
  BY <1>1, <1>2, AddsUnique

LEMMA WorthRecursive ==
  ASSUME NEW S, IsFiniteSet(S), NEW ts
  PROVE  Worth(ts, S) = IF S = {} THEN 0 ELSE ts[One(S)].reward + Worth(ts, S \ {One(S)})
<1>1. PICK g : Adds(g, ts, S) /\ Worth(ts, S) = g[S]
  BY WorthAdds
<1>2. g[S] = IF S = {} THEN 0 ELSE ts[One(S)].reward + g[S \ {One(S)}]
  BY <1>1, AddsOne
<1>3. CASE S = {}
  BY <1>1, <1>2, <1>3
<1>4. CASE S # {}
  <2> DEFINE u == S \ {One(S)}
  <2>1. IsFiniteSet(u) /\ u \subseteq S /\ u \subseteq u /\ SameRewards(ts, ts, u)
    BY FS_Subset DEF SameRewards
  <2> HIDE DEF u
  <2>2. PICK h : Adds(h, ts, u) /\ Worth(ts, u) = h[u]
    BY <2>1, WorthAdds
  <2>3. g[u] = h[u]
    BY <1>1, <2>1, <2>2, AddsUnique
  <2> QED
    BY <1>1, <1>2, <1>4, <2>2, <2>3 DEF u
<1> QED
  BY <1>3, <1>4

LEMMA WorthNat ==
  ASSUME NEW S, IsFiniteSet(S), NEW ts, \A x \in S : ts[x].reward \in Nat
  PROVE  Worth(ts, S) \in Nat
<1> DEFINE B == {s \in SUBSET S : Worth(ts, s) \notin Nat}
<1>1. SUFFICES ASSUME B # {} PROVE FALSE
  BY DEF B
<1>2. PICK s \in B : \A t \in SUBSET s : t \in B => t = s
  <2> HIDE DEF B
  <2>1. B \in SUBSET (SUBSET S)
    BY DEF B
  <2> QED
    BY <1>1, <2>1, SmallestSubset
<1>3. s \in SUBSET S /\ Worth(ts, s) \notin Nat /\ IsFiniteSet(s)
  BY FS_Subset
<1>4. Worth(ts, s) = IF s = {} THEN 0 ELSE ts[One(s)].reward + Worth(ts, s \ {One(s)})
  BY <1>3, WorthRecursive
<1>5. s # {}
  BY <1>3, <1>4
<1>6. Worth(ts, s \ {One(s)}) \in Nat /\ ts[One(s)].reward \in Nat
  BY <1>2, <1>3, <1>5, OneIsIn
<1> QED
  BY <1>3, <1>4, <1>5, <1>6

\* Any task of a set can be counted first.
LEMMA WorthWithout ==
  ASSUME NEW S, IsFiniteSet(S), NEW ts, \A x \in S : ts[x].reward \in Nat, NEW x \in S
  PROVE  Worth(ts, S) = ts[x].reward + Worth(ts, S \ {x})
<1> DEFINE B == {s \in SUBSET S : \E z \in s : Worth(ts, s) # ts[z].reward + Worth(ts, s \ {z})}
<1>1. SUFFICES ASSUME B # {} PROVE FALSE
  BY DEF B
<1>2. PICK s \in B : \A t \in SUBSET s : t \in B => t = s
  <2> HIDE DEF B
  <2>1. B \in SUBSET (SUBSET S)
    BY DEF B
  <2> QED
    BY <1>1, <2>1, SmallestSubset
<1>3. PICK z \in s : Worth(ts, s) # ts[z].reward + Worth(ts, s \ {z})
  OBVIOUS
<1> DEFINE y == One(s)
           r == s \ {y, z}
<1>4. s \in SUBSET S /\ IsFiniteSet(s) /\ y \in s
  BY <1>3, FS_Subset, OneIsIn
<1>5. Worth(ts, s) = ts[y].reward + Worth(ts, s \ {y})
  BY <1>3, <1>4, WorthRecursive
<1>6. y # z
  BY <1>3, <1>5
<1>7. \A t \in SUBSET s : t # s => \A w \in t : Worth(ts, t) = ts[w].reward + Worth(ts, t \ {w})
  BY <1>2, <1>4
<1> HIDE DEF B, y
<1>8. Worth(ts, s \ {y}) = ts[z].reward + Worth(ts, r)
  <2>1. s \ {y} \in SUBSET s /\ s \ {y} # s /\ z \in s \ {y} /\ (s \ {y}) \ {z} = r
    BY <1>3, <1>4, <1>6
  <2> QED
    BY <1>7, <2>1
<1>9. Worth(ts, s \ {z}) = ts[y].reward + Worth(ts, r)
  <2>1. s \ {z} \in SUBSET s /\ s \ {z} # s /\ y \in s \ {z} /\ (s \ {z}) \ {y} = r
    BY <1>3, <1>4, <1>6
  <2> QED
    BY <1>7, <2>1
<1>10. Worth(ts, r) \in Nat /\ ts[y].reward \in Nat /\ ts[z].reward \in Nat
  <2>1. r \in SUBSET S /\ IsFiniteSet(r)
    BY <1>4, FS_Subset
  <2> HIDE DEF r
  <2> QED
    BY <1>3, <1>4, <2>1, WorthNat
<1> HIDE DEF r
<1> QED
  BY <1>3, <1>5, <1>8, <1>9, <1>10

-----------------------------------------------------------------------------
(* What reviewers earned.                                                  *)

Done(r) == {n \in TaskIds : tasks[n].st = "completed" /\ tasks[n].reviewer = r}

Earned == \A r \in Reviewers : reviewers[r].earned = Worth(tasks, Done(r))

LEMMA EarnedMeansMatch == EarningsMatchTasks <=> Earned
  BY DEF EarningsMatchTasks, Earned, Worth, Done

LEMMA TasksAreFinite == IsFiniteSet(TaskIds) /\ \A S \in SUBSET TaskIds : IsFiniteSet(S)
<1>1. 1 \in Int /\ MaxTasks \in Int
  BY DispatchAssumption
<1>2. IsFiniteSet(1..MaxTasks)
  BY ONLY <1>1, FS_Interval, Zenon
<1> QED
  BY <1>2, FS_Subset DEF TaskIds

\* A step that completes no task and pays nobody.
LEMMA EarnedStays ==
  ASSUME Earned, \A r \in Reviewers : reviewers'[r].earned = reviewers[r].earned,
         \A n \in TaskIds :
           /\ tasks'[n].st = "completed" <=> tasks[n].st = "completed"
           /\ tasks[n].st = "completed" => /\ tasks'[n].reviewer = tasks[n].reviewer
                                          /\ tasks'[n].reward = tasks[n].reward
  PROVE  Earned'
<1> SUFFICES ASSUME NEW r \in Reviewers
             PROVE  reviewers'[r].earned = Worth(tasks', Done(r)')
  BY DEF Earned
<1>1. Done(r)' = Done(r)
  BY DEF Done
<1>2. IsFiniteSet(Done(r)) /\ SameRewards(tasks, tasks', Done(r))
  BY TasksAreFinite DEF Done, SameRewards
<1>3. Worth(tasks, Done(r)) = Worth(tasks', Done(r))
  BY <1>2, WorthSame
<1> QED
  BY <1>1, <1>3 DEF Earned

LEMMA RewardIsNat == ASSUME NEW t \in Task PROVE t.reward \in Nat
<1>1. t.reward \in Amounts \cup {0}
  BY DEF Task
<1>2. Amounts \subseteq Nat
  BY ONLY DispatchAssumption, Zenon DEF DispatchAssumption
<1>3. 0 \in Nat
  OBVIOUS
<1> QED
  BY <1>1, <1>2, <1>3

\* A commit pays for one task more, which was not completed before.
LEMMA EarnedCommit ==
  ASSUME TypeOK, LocksHeld, Earned, NEW c \in Clients, Commit(c)
  PROVE  Earned'
<1> DEFINE n == tx[c].task
           q == tasks[n].reviewer
<1>1. n \in TaskIds /\ tasks \in [TaskIds -> Task] /\ reviewers \in [Reviewers -> Reviewer]
      /\ tasks[n] \in Task
  BY MadeTasks DEF TypeOK, Commit, Completes
<1>2. Live(n)
  BY <1>1 DEF LocksHeld, Locks, Commit
<1>3. /\ tasks' = [tasks EXCEPT ![n].st = "completed"]
      /\ reviewers' = [reviewers EXCEPT ![q].earned = @ + tasks[n].reward]
  BY DEF Commit
<1>4. /\ tasks'[n].st = "completed" /\ tasks'[n].reviewer = q
      /\ tasks'[n].reward = tasks[n].reward /\ tasks[n].st # "completed"
      /\ \A m \in TaskIds \ {n} : tasks'[m] = tasks[m]
  BY <1>1, <1>2, <1>3 DEF Task, Live
<1> SUFFICES ASSUME NEW r \in Reviewers
             PROVE  reviewers'[r].earned = Worth(tasks', Done(r)')
  BY DEF Earned
<1>5. /\ IsFiniteSet(Done(r)) /\ IsFiniteSet(Done(r)') /\ n \notin Done(r)
      /\ SameRewards(tasks, tasks', Done(r))
  BY <1>4, TasksAreFinite DEF Done, SameRewards
<1>6. Worth(tasks, Done(r)) = Worth(tasks', Done(r))
  BY <1>5, WorthSame
<1>7. CASE r = q
  <2>1. Done(r)' = Done(r) \cup {n}
    BY <1>1, <1>4, <1>7 DEF Done
  <2>2. n \in Done(r)' /\ Done(r)' \ {n} = Done(r)
    BY <1>5, <2>1
  <2>3. \A m \in Done(r)' : tasks'[m].reward \in Nat
    <3>1. \A m \in TaskIds : tasks[m].reward \in Nat
      BY <1>1, RewardIsNat
    <3> QED
      BY <1>4, <3>1 DEF Done
  <2>4. Worth(tasks', Done(r)') = tasks'[n].reward + Worth(tasks', Done(r))
    <3> DEFINE D == Done(r)'
               ts == tasks'
    <3>1. IsFiniteSet(D) /\ n \in D /\ \A m \in D : ts[m].reward \in Nat
      BY <1>5, <2>2, <2>3
    <3> HIDE DEF D, ts
    <3>2. Worth(ts, D) = ts[n].reward + Worth(ts, D \ {n})
      BY <3>1, WorthWithout
    <3> QED
      BY <2>2, <3>2 DEF D, ts
  <2>5. reviewers'[r].earned = reviewers[r].earned + tasks[n].reward
    BY <1>1, <1>3, <1>7 DEF Reviewer
  <2>6. reviewers[r].earned \in Nat /\ tasks[n].reward \in Nat
    BY <1>1, RewardIsNat DEF Reviewer
  <2>7. reviewers[r].earned = Worth(tasks, Done(r))
    BY DEF Earned
  <2> HIDE DEF n, q
  <2> QED
    BY <1>4, <1>6, <2>4, <2>5, <2>6, <2>7
<1>8. CASE r # q
  <2>1. Done(r)' = Done(r)
    BY <1>1, <1>4, <1>8 DEF Done
  <2>2. reviewers'[r].earned = reviewers[r].earned
    BY <1>1, <1>3, <1>8
  <2> QED
    BY <1>6, <2>1, <2>2 DEF Earned
<1> QED
  BY <1>7, <1>8

LEMMA EarnedStep ==
  ASSUME TypeOK, LocksHeld, Earned, Next
  PROVE  Earned'
<1>1. tasks \in [TaskIds -> Task] /\ reviewers \in [Reviewers -> Reviewer]
  BY DEF TypeOK
<1>2. CASE UNCHANGED <<tasks, reviewers>>
  BY <1>2, EarnedStays
<1>3. ASSUME NEW n \in TaskIds, Overdue(n) \/ AcceptReviewerTask(n) PROVE Earned'
  <2>1. /\ UNCHANGED reviewers /\ \A m \in TaskIds \ {n} : tasks'[m] = tasks[m]
        /\ tasks[n].st # "completed"
    BY <1>1, <1>3 DEF Overdue, AcceptReviewerTask
  <2>2. tasks'[n].st # "completed"
    BY <1>1, <1>3 DEF Overdue, AcceptReviewerTask, Task
  <2> QED
    BY <2>1, <2>2, EarnedStays
<1>4. ASSUME NEW a \in Assigners, CreateReviewerTaskWithExpiry(a) PROVE Earned'
  <2>1. UNCHANGED reviewers
    BY <1>4 DEF CreateReviewerTaskWithExpiry
  <2>2. CASE UNCHANGED tasks
    BY <1>2, <2>1, <2>2
  <2>3. CASE ~UNCHANGED tasks
    <3>1. PICK k \in TaskIds : k = made + 1
      BY <1>4, <2>3, MadeTasks, DispatchAssumption DEF CreateReviewerTaskWithExpiry, TaskIds
    <3>2. tasks[k].st # "completed"
      BY <3>1, MadeTasks DEF TypeOK, Sent
    <3>3. tasks'[k].st = "sent" /\ \A n \in TaskIds \ {k} : tasks'[n] = tasks[n]
      BY <1>1, <1>4, <2>3, <3>1 DEF CreateReviewerTaskWithExpiry
    <3> QED
      BY <2>1, <3>2, <3>3, EarnedStays
  <2> QED
    BY <2>2, <2>3
<1>5. CASE ExpireOldTasks
  <2>1. UNCHANGED reviewers /\ \A n \in TaskIds :
          IF n \in OverdueTasks THEN tasks'[n] = [tasks[n] EXCEPT !.st = "expired"]
          ELSE tasks'[n] = tasks[n]
    BY <1>5 DEF ExpireOldTasks
  <2>2. ASSUME NEW n \in OverdueTasks, n \in TaskIds
        PROVE  tasks'[n].st # "completed" /\ tasks[n].st # "completed"
    <3>1. tasks[n] \in Task /\ tasks[n].st = "sent"
      BY <1>1, <2>2 DEF OverdueTasks
    <3> QED
      BY <2>1, <2>2, <3>1 DEF Task
  <2> QED
    BY <2>1, <2>2, EarnedStays
<1>6. ASSUME NEW e \in Entries, DeleteEntry(e) PROVE Earned'
  <2>1. UNCHANGED reviewers /\ \A n \in TaskIds :
          tasks'[n] = [tasks[n] EXCEPT !.kept = FALSE] \/ tasks'[n] = tasks[n]
    BY <1>6 DEF DeleteEntry
  <2>2. ASSUME NEW n \in TaskIds
        PROVE  /\ tasks'[n].st = tasks[n].st /\ tasks'[n].reviewer = tasks[n].reviewer
               /\ tasks'[n].reward = tasks[n].reward
    <3>1. tasks[n] \in Task
      BY <1>1
    <3> QED
      BY <2>1, <3>1 DEF Task
  <2> QED
    BY <2>1, <2>2, EarnedStays
<1>7. ASSUME NEW r \in Reviewers, NEW type \in ReviewerTypes,
             \/ CreateReviewer(r, type)
             \/ \E status \in {"active", "inactive"} : UpdateReviewer(r, type, status)
      PROVE  Earned'
  <2>1. UNCHANGED tasks /\ \E status : reviewers' =
          [reviewers EXCEPT ![r].status = status, ![r].type = type]
    BY <1>7 DEF CreateReviewer, UpdateReviewer
  <2>2. ASSUME NEW s \in Reviewers PROVE reviewers'[s].earned = reviewers[s].earned
    <3>1. reviewers[s] \in Reviewer
      BY <1>1
    <3> QED
      BY <1>1, <2>1, <3>1 DEF Reviewer
  <2> QED
    BY <2>1, <2>2, EarnedStays
<1> QED
  BY <1>2, <1>3, <1>4, <1>5, <1>6, <1>7, EarnedCommit
     DEF Next, Dispatch, CreateHitlItem, AssignForHitl, GetRewardAmounts, NextReviewerRoundRobin,
         LookAtExpired, Review, CompleteReviewerTask, Administer, ResolveHitlItem,
         UpdateRewardConfig, MarkCompleted, CreditReviewer, Rollback, Crash

\* CompleteReviewerTask pays once for each task that is completed, whatever races,
\* fails or is cut off, for every number of reviewers, requests and tasks.
THEOREM EarningsAreTasks == Spec => []EarningsMatchTasks
<1> DEFINE IInv == LocksHeld /\ Earned
<1>1. Init => IInv
  <2> SUFFICES ASSUME Init PROVE IInv
    OBVIOUS
  <2>1. LocksHeld
    BY IdleTypes DEF Init, LocksHeld, Locks
  <2>2. ASSUME NEW r \in Reviewers PROVE reviewers[r].earned = Worth(tasks, Done(r))
    <3>1. Done(r) = {} /\ reviewers[r].earned = 0
      BY DEF Init, Done, NoTask
    <3>2. Worth(tasks, {}) = 0
      BY FS_EmptySet, WorthRecursive
    <3> QED
      BY <3>1, <3>2
  <2> QED
    BY <2>1, <2>2 DEF Earned
<1>2. TypeOK /\ IInv /\ [Next]_vars => IInv'
  <2> SUFFICES ASSUME TypeOK, IInv, [Next]_vars PROVE IInv'
    OBVIOUS
  <2>1. CASE Next
    BY <2>1, LocksStep, EarnedStep
  <2>2. CASE UNCHANGED vars
    <3>1. LocksHeld'
      BY <2>2 DEF vars, LocksHeld, Locks, Live
    <3>2. Earned'
      BY <2>2, EarnedStays DEF vars
    <3> QED
      BY <3>1, <3>2
  <2> QED
    BY <2>1, <2>2
<1>3. IInv => EarningsMatchTasks
  BY EarnedMeansMatch
<1> QED
  BY <1>1, <1>2, <1>3, TypeCorrect, PTL DEF Spec
===========================================================================
