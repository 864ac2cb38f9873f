--------------------------- MODULE ServicesProofs ---------------------------
(***************************************************************************)
(* Proofs about four of the services around the pipeline: Classification,  *)
(* ArchiveLogs, RateLimiter and AdminClient.  They share no state, and     *)
(* each has its own specification and its own inductive invariant.         *)
(***************************************************************************)
EXTENDS Classification, ArchiveLogs, RateLimiter, AdminClient,
        FiniteSetTheorems, WellFoundedInduction, TLAPS

\* A set of numbers that is not empty has a smallest member.
LEMMA Smallest ==
  ASSUME NEW S \in SUBSET Nat, S # {}
  PROVE \E m \in S : \A n \in S : m <= n
<1>1. \E m \in S : \A n \in S : <<n, m>> \notin OpToRel(<, Nat)
  BY NatLessThanWellFounded, WFMin
<1>2. \A m, n \in S : <<n, m>> \notin OpToRel(<, Nat) => m <= n
  BY DEF OpToRel
<1> QED
  BY <1>1, <1>2

\* A set of numbers that has a bound, a largest one: what is nearest to the bound.
LEMMA Largest ==
  ASSUME NEW S \in SUBSET Nat, S # {}, NEW b \in Nat, \A n \in S : n <= b
  PROVE  \E m \in S : \A n \in S : n <= m
<1> DEFINE T == {b - n : n \in S}
<1>1. T \in SUBSET Nat /\ T # {}
  <2>1. \A n \in S : b - n \in Nat
    OBVIOUS
  <2>2. T \subseteq Nat
    BY <2>1, Zenon
  <2>3. PICK n \in S : TRUE
    OBVIOUS
  <2>4. b - n \in T
    OBVIOUS
  <2> QED
    BY <2>2, <2>4
<1>2. PICK d \in T : \A e \in T : d <= e
  BY <1>1, Smallest
<1>3. PICK m \in S : d = b - m
  OBVIOUS
<1>4. ASSUME NEW n \in S PROVE n <= m
  <2>1. b - n \in T
    OBVIOUS
  <2>2. b - m <= b - n
    BY <1>2, <1>3, <2>1
  <2> QED
    BY <2>2
<1> QED
  BY <1>4

-----------------------------------------------------------------------------
(* Classification.                                                         *)

\* What was learned and not written over is the newest rule.
LearnedInv ==
  \A r \in ClassifyRuns :
    classify[r].pc = "done" /\ classify[r].learned =>
      /\ Len(rules) \in 1..Len(rules)
      /\ rules[Len(rules)].keyword = classify[r].keyword
      /\ rules[Len(rules)].type = classify[r].answer

ClassificationInv == ClassificationTypeOK /\ LearnedInv

\* The newest rule decides whenever it matches, whatever rules there are beside it.
LEMMA NewestDecides ==
  ASSUME NEW t, Len(rules) \in 1..Len(rules), Matches(rules[Len(rules)], t)
  PROVE  RuleAnswer(t) = rules[Len(rules)].type
<1>1. Len(rules) \in MatchingRules(t) /\ \A j \in MatchingRules(t) : j <= Len(rules)
  BY DEF MatchingRules
<1>2. \A i \in MatchingRules(t) : (\A j \in MatchingRules(t) : j <= i) => i = Len(rules)
  BY <1>1 DEF MatchingRules
<1>3. DecidingRule(t) = Len(rules)
  BY <1>1, <1>2 DEF DecidingRule
<1> QED
  BY <1>1, <1>3 DEF RuleAnswer

LEMMA LearnedRepeats == ClassificationInv => LearnedAnswerRepeats
  BY NewestDecides DEF ClassificationInv, LearnedInv, LearnedAnswerRepeats, Matches

LEMMA IdleIsAState == /\ IdleClassify \in ClassifyState /\ ~IdleClassify.learned
                      /\ (CHOOSE t \in Items : TRUE) \in Items
  BY ClassificationAssumption DEF IdleClassify, ClassifyState

LEMMA ClassificationStarts == ClassificationInit => ClassificationInv
  BY IdleIsAState DEF ClassificationInit, ClassificationInv, ClassificationTypeOK, LearnedInv

-----------------------------------------------------------------------------
\* A step of a classification that writes no rule.
LEMMA ClassifyMoves ==
  ASSUME ClassificationInv, NEW r \in ClassifyRuns, NEW c \in ClassifyState,
         classify' = [classify EXCEPT ![r] = c], rules' = rules,
         c.pc = "done" => ~c.learned
  PROVE  ClassificationInv'
  BY DEF ClassificationInv, ClassificationTypeOK, LearnedInv

LEMMA RunMoves ==
  ASSUME ClassificationInv, NEW r \in ClassifyRuns, ClassifyStep(r), ~Learn(r)
  PROVE  ClassificationInv' /\ rules' = rules
<1>1. classify \in [ClassifyRuns -> ClassifyState] /\ classify[r] \in ClassifyState
  BY DEF ClassificationInv, ClassificationTypeOK
<1>2. ASSUME NEW t \in Items, NEW a \in {"asset", "expense", "other", "pending"},
             Answered(r, t, a), rules' = rules
      PROVE  ClassificationInv'
  <2> DEFINE c == [IdleClassify EXCEPT !.pc = "done", !.text = t, !.answer = a]
  <2>1. c \in ClassifyState /\ ~c.learned
    BY IdleIsAState DEF ClassifyState
  <2>2. classify' = [classify EXCEPT ![r] = c]
    BY <1>2 DEF Answered
  <2> HIDE DEF c
  <2> QED
    BY <1>2, <2>1, <2>2, ClassifyMoves
<1>3. ASSUME NEW t \in Items, StartClassify(r, t) PROVE ClassificationInv' /\ rules' = rules
  <2>1. rules' = rules /\ t \in Texts
    BY <1>3, ClassificationAssumption DEF StartClassify
  <2>2. CASE MatchingRules(t) # {} /\ Answered(r, t, RuleAnswer(t))
    <3>1. PICK j \in MatchingRules(t) : TRUE
      BY <2>2
    <3>2. \A i \in MatchingRules(t) : i \in 1..Len(rules) /\ i <= Len(rules)
      BY DEF MatchingRules
    <3>3. rules \in Seq(Rule)
      BY DEF ClassificationInv, ClassificationTypeOK
    <3>4. RuleAnswer(t) \in {"asset", "expense", "other", "pending"}
      <4>1. MatchingRules(t) \in SUBSET Nat /\ Len(rules) \in Nat
        BY <3>2, <3>3 DEF MatchingRules
      <4>2. \E i \in MatchingRules(t) : \A k \in MatchingRules(t) : k <= i
        BY <2>2, <3>2, <4>1, Largest
      <4>3. DecidingRule(t) \in MatchingRules(t)
        BY <4>2 DEF DecidingRule
      <4>4. rules[DecidingRule(t)] \in Rule
        BY <3>2, <3>3, <4>3
      <4> QED
        BY <2>2, <4>4 DEF RuleAnswer, Rule, AssetTypes
    <3> QED
      BY <1>2, <2>1, <2>2, <3>4
  <2>3. CASE Answered(r, t, BuiltIn[t])
    <3>1. BuiltIn[t] \in {"asset", "expense", "other", "pending"}
      BY <2>1, ClassificationAssumption
    <3> QED
      BY <1>2, <2>1, <2>3, <3>1
  <2>4. CASE classify' = [classify EXCEPT ![r] = [IdleClassify EXCEPT !.pc = "ai", !.text = t]]
    <3> DEFINE c == [IdleClassify EXCEPT !.pc = "ai", !.text = t]
    <3>1. c \in ClassifyState /\ c.pc = "ai"
      BY IdleIsAState DEF ClassifyState
    <3>2. classify' = [classify EXCEPT ![r] = c]
      BY <2>4
    <3> HIDE DEF c
    <3> QED
      BY <2>1, <3>1, <3>2, ClassifyMoves
  <2> QED
    BY <1>3, <2>1, <2>2, <2>3, <2>4 DEF StartClassify
<1>4. ASSUME NEW a \in AssetTypes \cup {"other", "pending"}, AnswerWithoutRule(r, a)
      PROVE  ClassificationInv' /\ rules' = rules
  <2>1. classify[r].text \in Items /\ a \in {"asset", "expense", "other", "pending"}
    BY <1>1 DEF ClassifyState, AssetTypes
  <2> QED
    BY <1>2, <1>4, <2>1 DEF AnswerWithoutRule
<1>5. ASSUME NEW a \in AssetTypes \cup {"other"}, NEW k \in Keywords, SureAnswer(r, a, k)
      PROVE  ClassificationInv' /\ rules' = rules
  <2> DEFINE c == [classify[r] EXCEPT !.pc = "learn", !.answer = a, !.keyword = k]
  <2>1. c \in ClassifyState /\ c.pc = "learn"
    BY <1>1 DEF ClassifyState, AssetTypes
  <2>2. classify' = [classify EXCEPT ![r] = c] /\ rules' = rules
    BY <1>1, <1>5 DEF SureAnswer
  <2> HIDE DEF c
  <2> QED
    BY <2>1, <2>2, ClassifyMoves
<1>6. CASE LearnFails(r)
  <2>1. classify[r].text \in Items /\ classify[r].answer \in {"asset", "expense", "other", "pending"}
    BY <1>1 DEF ClassifyState
  <2> QED
    BY <1>2, <1>6, <2>1 DEF LearnFails
<1>7. CASE NextItem(r)
  BY <1>7, IdleIsAState, ClassifyMoves DEF NextItem
<1> QED
  BY <1>3, <1>4, <1>5, <1>6, <1>7 DEF ClassifyStep

-----------------------------------------------------------------------------
\* After a write nothing counts as learned.
LEMMA WrittenTypes ==
  ASSUME ClassificationInv
  PROVE  /\ RulesWritten \in [ClassifyRuns -> ClassifyState]
         /\ \A r \in ClassifyRuns : /\ ~RulesWritten[r].learned
                                    /\ RulesWritten[r] = [classify[r] EXCEPT !.learned = FALSE]
<1>1. ASSUME NEW r \in ClassifyRuns
      PROVE  /\ [classify[r] EXCEPT !.learned = FALSE] \in ClassifyState
             /\ ~[classify[r] EXCEPT !.learned = FALSE].learned
  <2>1. classify[r] \in ClassifyState
    BY DEF ClassificationInv, ClassificationTypeOK
  <2> QED
    BY <2>1 DEF ClassifyState
<1> QED
  BY <1>1 DEF RulesWritten

LEMMA LearnKeeps ==
  ASSUME ClassificationInv, NEW r \in ClassifyRuns, Learn(r)
  PROVE  /\ ClassificationInv'
         /\ \A i \in 1..Len(rules) : i <= Len(rules') /\ rules'[i] = rules[i]
<1> DEFINE rule == [keyword |-> classify[r].keyword, type |-> classify[r].answer,
                    source |-> "ai"]
           c == [RulesWritten[r] EXCEPT !.pc = "done", !.learned = TRUE]
           N == Len(rules)
<1>1. /\ rules \in Seq(Rule) /\ N \in Nat /\ classify[r] \in ClassifyState
      /\ RulesWritten \in [ClassifyRuns -> ClassifyState]
      /\ RulesWritten[r] = [classify[r] EXCEPT !.learned = FALSE]
  BY WrittenTypes DEF ClassificationInv, ClassificationTypeOK
<1>2. /\ rule \in Rule /\ rule.keyword = classify[r].keyword /\ rule.type = classify[r].answer
  BY <1>1 DEF Learn, Rule, ClassifyState, AssetTypes
<1>3. /\ c \in ClassifyState /\ c.keyword = classify[r].keyword /\ c.answer = classify[r].answer
  BY <1>1 DEF ClassifyState
<1>4. rules' = Append(rules, rule) /\ classify' = [RulesWritten EXCEPT ![r] = c]
  BY <1>1 DEF Learn
<1> HIDE DEF rule, c
<1>5. /\ rules' \in Seq(Rule) /\ Len(rules') = N + 1 /\ rules'[N + 1] = rule
      /\ \A i \in 1..N : rules'[i] = rules[i]
  BY <1>1, <1>2, <1>4
<1>6. /\ classify' \in [ClassifyRuns -> ClassifyState] /\ classify'[r] = c
      /\ \A q \in ClassifyRuns \ {r} : ~classify'[q].learned
  BY <1>1, <1>3, <1>4, WrittenTypes
<1>7. N + 1 \in 1..(N + 1)
  BY <1>1
<1>8. LearnedInv'
  BY <1>2, <1>3, <1>5, <1>6, <1>7 DEF LearnedInv
<1>9. \A i \in 1..N : i <= Len(rules') /\ rules'[i] = rules[i]
  BY <1>1, <1>5
<1> QED
  BY <1>5, <1>6, <1>8, <1>9 DEF ClassificationInv, ClassificationTypeOK

\* What people do.
LEMMA PeopleKeep ==
  ASSUME ClassificationInv, rules' \in Seq(Rule), classify' = RulesWritten
  PROVE  ClassificationInv'
  BY WrittenTypes DEF ClassificationInv, ClassificationTypeOK, LearnedInv

LEMMA ClassificationInductive ==
  ClassificationInv /\ [ClassificationNext]_classificationVars => ClassificationInv'
<1> SUFFICES ASSUME ClassificationInv, [ClassificationNext]_classificationVars
             PROVE  ClassificationInv'
  OBVIOUS
<1>1. CASE UNCHANGED classificationVars
  BY <1>1 DEF ClassificationInv, ClassificationTypeOK, LearnedInv, classificationVars
<1>2. rules \in Seq(Rule)
  BY DEF ClassificationInv, ClassificationTypeOK
<1>3. ASSUME NEW rule \in Rule, CreateRule(rule) PROVE ClassificationInv'
  <2>1. rules' \in Seq(Rule) /\ classify' = RulesWritten
    BY <1>2, <1>3 DEF CreateRule
  <2> QED
    BY <2>1, PeopleKeep
<1>4. ASSUME NEW i \in 1..Len(rules), NEW k \in Keywords, NEW type \in AssetTypes,
             UpdateRule(i, k, type)
      PROVE  ClassificationInv'
  <2>1. rules[i] \in Rule
    BY <1>2
  <2>2. [rules[i] EXCEPT !.keyword = k, !.type = type] \in Rule
    BY <2>1 DEF Rule
  <2>3. rules' = [rules EXCEPT ![i] = [rules[i] EXCEPT !.keyword = k, !.type = type]]
        /\ classify' = RulesWritten
    BY <1>2, <1>4 DEF UpdateRule
  <2>4. rules' \in Seq(Rule)
    BY <1>2, <2>2, <2>3
  <2> QED
    BY <2>3, <2>4, PeopleKeep
<1>5. ASSUME NEW i \in 1..Len(rules), DeleteRule(i) PROVE ClassificationInv'
  <2>1. SubSeq(rules, 1, i - 1) \in Seq(Rule) /\ SubSeq(rules, i + 1, Len(rules)) \in Seq(Rule)
    BY <1>2
  <2>2. rules' \in Seq(Rule) /\ classify' = RulesWritten
    BY <1>5, <2>1 DEF DeleteRule
  <2> QED
    BY <2>2, PeopleKeep
<1> QED
  BY <1>1, <1>3, <1>4, <1>5, RunMoves, LearnKeeps DEF ClassificationNext

-----------------------------------------------------------------------------
\* The types of the variables, for every set of texts and every number of runs.
THEOREM ClassificationTypes == ClassificationSpec => []ClassificationTypeOK
<1>1. ClassificationInv => ClassificationTypeOK
  BY DEF ClassificationInv
<1> QED
  BY ClassificationStarts, ClassificationInductive, <1>1, PTL DEF ClassificationSpec

\* ClassifyWithDB after CreateRule: the newest rule decides, so that what was
\* learned is what the rules answer.
THEOREM LearnedIsRepeated == ClassificationSpec => []LearnedAnswerRepeats
  BY ClassificationStarts, ClassificationInductive, LearnedRepeats, PTL DEF ClassificationSpec

\* CreateRule from the AI only inserts: what a person wrote before stays.
THEOREM LearningKeepsRules == ClassificationSpec => LearningOnlyAdds
<1> DEFINE Adds == (\E r \in ClassifyRuns : ClassifyStep(r)) =>
                     \A i \in 1..Len(rules) : i <= Len(rules') /\ rules'[i] = rules[i]
<1>1. ClassificationInv /\ [ClassificationNext]_classificationVars => [Adds]_classificationVars
  <2> SUFFICES ASSUME ClassificationInv, NEW r \in ClassifyRuns, ClassifyStep(r)
               PROVE  \A i \in 1..Len(rules) : i <= Len(rules') /\ rules'[i] = rules[i]
    OBVIOUS
  <2>1. CASE Learn(r)
    BY <2>1, LearnKeeps
  <2>2. CASE ~Learn(r)
    BY <2>2, RunMoves
  <2> QED
    BY <2>1, <2>2
<1> QED
  BY ClassificationStarts, ClassificationInductive, <1>1, PTL
  DEF ClassificationSpec, LearningOnlyAdds

-----------------------------------------------------------------------------
(* ArchiveLogs.                                                            *)

\* What a process still has to log has no open log of that process.
TodoInv ==
  \A s \in Schedulers :
    /\ pass[s].pc # "log" => pass[s].todo = {}
    /\ \A i \in pass[s].todo : \A k \in OpenLogs(i) : logs[k].by # s

ArchiveInv == ArchiveTypeOK /\ TodoInv /\ OneOpenLogPerProcess

LEMMA ArchiveStarts == ArchiveInit => ArchiveInv
<1> SUFFICES ASSUME ArchiveInit PROVE ArchiveInv
  OBVIOUS
<1>1. IdlePass \in Pass /\ IdlePass.todo = {}
  BY DEF IdlePass, Pass
<1>2. \A i : OpenLogs(i) = {}
  BY DEF OpenLogs, ArchiveInit
<1> QED
  BY <1>1, <1>2 DEF ArchiveInit, ArchiveInv, ArchiveTypeOK, TodoInv, OneOpenLogPerProcess

\* A step of a pass that writes no log, for what the pass is after it.
LEMMA PassMoves ==
  ASSUME ArchiveInv, NEW s \in Schedulers, NEW p \in Pass,
         pass' = [pass EXCEPT ![s] = p], UNCHANGED <<aged, logs, execMode>>,
         p.pc # "log" => p.todo = {},
         \A i \in p.todo : \A k \in OpenLogs(i) : logs[k].by # s
  PROVE  ArchiveInv'
<1>1. pass \in [Schedulers -> Pass] /\ pass' \in [Schedulers -> Pass] /\ pass'[s] = p
      /\ \A t \in Schedulers \ {s} : pass'[t] = pass[t]
  BY DEF ArchiveInv, ArchiveTypeOK
<1>2. \A i : OpenLogs(i)' = OpenLogs(i)
  BY DEF OpenLogs
<1>3. TodoInv'
  <2> SUFFICES ASSUME NEW t \in Schedulers
               PROVE  /\ pass'[t].pc # "log" => pass'[t].todo = {}
                      /\ \A i \in pass'[t].todo : \A k \in OpenLogs(i) : logs[k].by # t
    BY <1>2 DEF TodoInv
  <2>1. CASE t = s
    BY <1>1, <2>1
  <2>2. CASE t # s
    BY <1>1, <2>2 DEF ArchiveInv, TodoInv
  <2> QED
    BY <2>1, <2>2
<1>4. OneOpenLogPerProcess'
  BY <1>2 DEF ArchiveInv, OneOpenLogPerProcess
<1> QED
  BY <1>1, <1>3, <1>4 DEF ArchiveInv, ArchiveTypeOK

LEMMA CreateKeeps ==
  ASSUME ArchiveInv, NEW s \in Schedulers, NEW i \in Archivable, CreateArchiveLog(s, i)
  PROVE  ArchiveInv'
<1> DEFINE log == [invoice |-> i, status |-> "archived", by |-> s]
           p == [pass[s] EXCEPT !.todo = @ \ {i}]
           N == Len(logs)
<1>1. /\ logs \in Seq(Log) /\ pass \in [Schedulers -> Pass] /\ pass[s] \in Pass
      /\ N \in Nat /\ i \in pass[s].todo /\ pass[s].pc = "log"
      /\ logs' = Append(logs, log) /\ pass' = [pass EXCEPT ![s].todo = @ \ {i}]
      /\ UNCHANGED <<aged, execMode>>
  BY DEF ArchiveInv, ArchiveTypeOK, CreateArchiveLog
<1>2. /\ p \in Pass /\ p.pc = "log" /\ p.todo = pass[s].todo \ {i}
      /\ pass' = [pass EXCEPT ![s] = p]
  BY <1>1 DEF Pass
<1>3. log \in Log /\ log.invoice = i /\ log.by = s
  BY DEF Log
<1> HIDE DEF log, p
<1>4. /\ logs' \in Seq(Log) /\ Len(logs') = N + 1 /\ logs'[N + 1] = log
      /\ \A k \in 1..N : logs'[k] = logs[k]
  BY <1>1, <1>3
<1>5. /\ pass' \in [Schedulers -> Pass] /\ pass'[s] = p
      /\ \A t \in Schedulers \ {s} : pass'[t] = pass[t]
  BY <1>1, <1>2
<1>6. ASSUME NEW j \in Archivable, NEW k \in OpenLogs(j)'
      PROVE  \/ k \in OpenLogs(j) /\ logs'[k] = logs[k]
             \/ k = N + 1 /\ j = i
  <2>1. k \in 1..(N + 1) /\ logs'[k].invoice = j /\ logs'[k].status = "archived"
    BY <1>4 DEF OpenLogs
  <2>2. CASE k = N + 1
    BY <1>3, <1>4, <2>1, <2>2
  <2>3. CASE k # N + 1
    <3>1. k \in 1..N
      BY <1>1, <2>1, <2>3
    <3> QED
      BY <1>4, <2>1, <3>1 DEF OpenLogs
  <2> QED
    BY <2>2, <2>3
<1>7. \A k \in OpenLogs(i) : logs[k].by # s /\ k # N + 1
  <2>1. \A k \in OpenLogs(i) : logs[k].by # s
    BY <1>1 DEF ArchiveInv, TodoInv
  <2>2. \A k \in OpenLogs(i) : k # N + 1
    BY <1>1 DEF OpenLogs
  <2> QED
    BY <2>1, <2>2
<1>8. TodoInv'
  <2> SUFFICES ASSUME NEW t \in Schedulers
               PROVE  /\ pass'[t].pc # "log" => pass'[t].todo = {}
                      /\ \A j \in pass'[t].todo : \A k \in OpenLogs(j)' : logs'[k].by # t
    BY DEF TodoInv
  <2>1. pass'[t].pc # "log" => pass'[t].todo = {}
    BY <1>2, <1>5 DEF ArchiveInv, TodoInv
  <2>2. ASSUME NEW j \in pass'[t].todo, NEW k \in OpenLogs(j)' PROVE logs'[k].by # t
    <3>1. j \in pass[t].todo /\ j \in Archivable /\ (t = s => j # i)
      BY <1>1, <1>2, <1>5, <2>2 DEF Pass
    <3> QED
      BY <1>3, <1>4, <1>6, <3>1 DEF ArchiveInv, TodoInv
  <2> QED
    BY <2>1, <2>2
<1>9. OneOpenLogPerProcess'
  <2> SUFFICES ASSUME NEW j \in Archivable, NEW k \in OpenLogs(j)', NEW l \in OpenLogs(j)',
                      logs'[k].by = logs'[l].by
               PROVE  k = l
    BY DEF OneOpenLogPerProcess
  <2> QED
    BY <1>3, <1>4, <1>6, <1>7 DEF ArchiveInv, OneOpenLogPerProcess
<1> QED
  BY <1>1, <1>4, <1>5, <1>8, <1>9 DEF ArchiveInv, ArchiveTypeOK

LEMMA RestoreKeeps ==
  ASSUME ArchiveInv, NEW r \in 1..Len(logs), RestoreArchive(r)
  PROVE  ArchiveInv'
<1>1. /\ logs \in Seq(Log) /\ logs' = [logs EXCEPT ![r].status = "restored"]
      /\ logs[r] \in Log /\ UNCHANGED <<aged, pass, execMode>>
  BY DEF ArchiveInv, ArchiveTypeOK, RestoreArchive
<1>2. [logs[r] EXCEPT !.status = "restored"] \in Log
  BY <1>1 DEF Log
<1>3. /\ logs' \in Seq(Log) /\ Len(logs') = Len(logs)
      /\ logs'[r] = [logs[r] EXCEPT !.status = "restored"]
      /\ \A k \in 1..Len(logs) : k # r => logs'[k] = logs[k]
  BY <1>1, <1>2
<1>4. \A k \in 1..Len(logs) : logs'[k].by = logs[k].by
  BY <1>1, <1>3 DEF Log
<1>5. logs'[r].status = "restored"
  BY <1>1, <1>3 DEF Log
<1>6. \A i : OpenLogs(i)' \subseteq OpenLogs(i) /\ OpenLogs(i) \subseteq 1..Len(logs)
  BY <1>3, <1>5 DEF OpenLogs
<1>7. TodoInv'
  BY <1>1, <1>4, <1>6 DEF ArchiveInv, TodoInv
<1>8. OneOpenLogPerProcess'
  BY <1>4, <1>6 DEF ArchiveInv, OneOpenLogPerProcess
<1> QED
  BY <1>1, <1>3, <1>7, <1>8 DEF ArchiveInv, ArchiveTypeOK

LEMMA PassKeeps ==
  ASSUME ArchiveInv, NEW s \in Schedulers, PassStep(s)
  PROVE  ArchiveInv'
<1>1. pass \in [Schedulers -> Pass] /\ pass[s] \in Pass /\ aged \subseteq Archivable
  BY DEF ArchiveInv, ArchiveTypeOK
<1>2. CASE RunOnce(s)
  <2>1. pass' = [pass EXCEPT ![s] = [pass[s] EXCEPT !.pc = "find"]]
        /\ UNCHANGED <<aged, logs, execMode>> /\ pass[s].todo = {}
    BY <1>1, <1>2 DEF RunOnce, ArchiveInv, TodoInv
  <2>2. [pass[s] EXCEPT !.pc = "find"] \in Pass /\ [pass[s] EXCEPT !.pc = "find"].todo = {}
    BY <1>1, <2>1 DEF Pass
  <2> QED
    BY <2>1, <2>2, PassMoves
<1>3. CASE Find(s)
  <2> DEFINE p == [pc |-> "log", todo |-> FindInvoicesToArchive]
  <2>1. p \in Pass /\ p.pc = "log" /\ \A i \in p.todo : OpenLogs(i) = {}
    BY <1>1 DEF Pass, FindInvoicesToArchive
  <2>2. pass' = [pass EXCEPT ![s] = p] /\ UNCHANGED <<aged, logs, execMode>>
    BY <1>3 DEF Find
  <2> HIDE DEF p
  <2> QED
    BY <2>1, <2>2, PassMoves
<1>4. CASE FindRefused(s) \/ PassEnds(s) \/ PassCutOff(s)
  <2>1. IdlePass \in Pass /\ IdlePass.todo = {}
    BY DEF IdlePass, Pass
  <2> QED
    BY <1>4, <2>1, PassMoves DEF FindRefused, PassEnds, PassCutOff
<1>5. ASSUME NEW i \in Archivable, CreateArchiveLogFails(s, i) PROVE ArchiveInv'
  <2> DEFINE p == [pass[s] EXCEPT !.todo = @ \ {i}]
  <2>1. /\ p \in Pass /\ p.pc = pass[s].pc /\ p.todo = pass[s].todo \ {i}
        /\ pass' = [pass EXCEPT ![s] = p] /\ UNCHANGED <<aged, logs, execMode>> /\ pass[s].pc = "log"
    BY <1>1, <1>5 DEF Pass, CreateArchiveLogFails
  <2> HIDE DEF p
  <2>2. \A j \in p.todo : \A k \in OpenLogs(j) : logs[k].by # s
    BY <2>1 DEF ArchiveInv, TodoInv
  <2> QED
    BY <2>1, <2>2, PassMoves
<1> QED
  BY <1>2, <1>3, <1>4, <1>5, CreateKeeps DEF PassStep

LEMMA ArchiveInductive == ArchiveInv /\ [ArchiveNext]_archiveVars => ArchiveInv'
<1> SUFFICES ASSUME ArchiveInv, [ArchiveNext]_archiveVars PROVE ArchiveInv'
  OBVIOUS
<1>1. CASE UNCHANGED archiveVars
  BY <1>1 DEF ArchiveInv, ArchiveTypeOK, TodoInv, OneOpenLogPerProcess, OpenLogs, archiveVars
<1>2. ASSUME NEW i \in Archivable, AgesChange(i) PROVE ArchiveInv'
  BY <1>2 DEF AgesChange, ArchiveInv, ArchiveTypeOK, TodoInv, OneOpenLogPerProcess, OpenLogs
<1> QED
  BY <1>1, <1>2, PassKeeps, RestoreKeeps DEF ArchiveNext

\* The types of the variables, for every number of processes and invoices.
THEOREM ArchiveTypes == ArchiveSpec => []ArchiveTypeOK
<1>1. ArchiveInv => ArchiveTypeOK
  BY DEF ArchiveInv
<1> QED
  BY ArchiveStarts, ArchiveInductive, <1>1, PTL DEF ArchiveSpec

\* archive/scheduler.go: the log alone keeps a process from archiving an invoice again, and
\* it does, wherever its passes fail or are cut off.
THEOREM LoggedOncePerProcess == ArchiveSpec => []OneOpenLogPerProcess
<1>1. ArchiveInv => OneOpenLogPerProcess
  BY DEF ArchiveInv
<1> QED
  BY ArchiveStarts, ArchiveInductive, <1>1, PTL DEF ArchiveSpec

-----------------------------------------------------------------------------
(* RateLimiter.                                                            *)

\* Of the times a key got through, the last c lie in the window that ends at r; as
\* many as the limit before those lie before that window, and what comes before
\* all these lies more than a window's length before it.
InWindow(times, c, r) ==
  /\ c <= Len(times) /\ Window <= r
  /\ \A n \in 1..Len(times) :
       /\ Len(times) < n + c => r <= times[n] + Window /\ times[n] <= r
       /\ n + c <= Len(times) => times[n] + Window < r
       /\ n + c + Limit <= Len(times) => times[n] + Window + Window < r

\* The same at time t, when the key has no window or an old one.
Outdated(times, t) ==
  \A n \in 1..Len(times) :
    /\ times[n] < t
    /\ n + Limit <= Len(times) => times[n] + Window < t

\* Attempts that are twice the limit apart are more than a window apart.
FarApart(times) ==
  \A n, p \in 1..Len(times) : n + Limit + Limit <= p => times[n] + Window < times[p]

KeyInv(k) ==
  /\ IF entries[k].count = 0 THEN Outdated(allowed[k], now)
     ELSE InWindow(allowed[k], entries[k].count, entries[k].reset)
  /\ FarApart(allowed[k])
  /\ \A n \in 1..Len(allowed[k]) : allowed[k][n] <= now

LimiterInv == LimiterTypeOK /\ \A k \in LimitKeys : KeyInv(k)

-----------------------------------------------------------------------------
\* A window that is over.
LEMMA WindowIsOver ==
  ASSUME NEW a \in Seq(Nat), NEW t \in Nat, NEW c \in Nat, NEW r \in Nat,
         c <= Limit, InWindow(a, c, r), r < t
  PROVE  Outdated(a, t)
<1> SUFFICES ASSUME NEW n \in 1..Len(a)
             PROVE  a[n] < t /\ (n + Limit <= Len(a) => a[n] + Window < t)
  BY DEF Outdated
<1>1. Limit \in Nat /\ Window \in Nat /\ Len(a) \in Nat /\ a[n] \in Nat /\ n \in Nat
  BY LimiterAssumption
<1>2. /\ Len(a) < n + c => r <= a[n] + Window /\ a[n] <= r
      /\ n + c <= Len(a) => a[n] + Window < r
  BY DEF InWindow
<1>3. a[n] <= r
  BY <1>1, <1>2
<1>4. n + Limit <= Len(a) => a[n] + Window < r
  BY <1>1, <1>2
<1> QED
  BY <1>1, <1>3, <1>4

\* The first attempt of a window.
LEMMA WindowBegins ==
  ASSUME NEW a \in Seq(Nat), NEW t \in Nat, Outdated(a, t)
  PROVE  /\ InWindow(Append(a, t), 1, t + Window)
         /\ \A n \in 1..Len(a) : n + Limit + Limit <= Len(a) + 1 => a[n] + Window < t
<1>1. Limit \in Nat /\ Window \in Nat /\ 1 <= Limit /\ Len(a) \in Nat
  BY LimiterAssumption
<1>2. Len(Append(a, t)) = Len(a) + 1
  OBVIOUS
<1>3. ASSUME NEW n \in 1..Len(a)
      PROVE  /\ a[n] \in Nat /\ a[n] < t /\ a[n] = Append(a, t)[n]
             /\ n + Limit <= Len(a) => a[n] + Window < t
  BY DEF Outdated
<1>4. ASSUME NEW n \in 1..(Len(a) + 1)
      PROVE  /\ Len(a) + 1 < n + 1
                 => t + Window <= Append(a, t)[n] + Window /\ Append(a, t)[n] <= t + Window
             /\ n + 1 <= Len(a) + 1 => Append(a, t)[n] + Window < t + Window
             /\ n + 1 + Limit <= Len(a) + 1 => Append(a, t)[n] + Window + Window < t + Window
  <2>1. CASE n = Len(a) + 1
    <3>1. Append(a, t)[n] = t
      BY <2>1
    <3> QED
      BY <1>1, <2>1, <3>1
  <2>2. CASE n # Len(a) + 1
    <3>1. n \in 1..Len(a)
      BY <1>1, <2>2
    <3>2. n + 1 + Limit <= Len(a) + 1 => n + Limit <= Len(a)
      BY <1>1
    <3> QED
      BY <1>1, <1>3, <3>1, <3>2
  <2> QED
    BY <2>1, <2>2
<1>5. 1 <= Len(a) + 1 /\ Window <= t + Window
  BY <1>1
<1>6. InWindow(Append(a, t), 1, t + Window)
  BY <1>2, <1>4, <1>5 DEF InWindow
<1>7. ASSUME NEW n \in 1..Len(a), n + Limit + Limit <= Len(a) + 1
      PROVE  a[n] + Window < t
  <2>1. n + Limit <= Len(a)
    BY <1>1, <1>7
  <2> QED
    BY <1>3, <2>1
<1> QED
  BY <1>6, <1>7

\* Another one in it.
LEMMA WindowGoesOn ==
  ASSUME NEW a \in Seq(Nat), NEW t \in Nat, NEW c \in Nat, NEW r \in Nat,
         c # 0, c < Limit, InWindow(a, c, r), t <= r,
         \A n \in 1..Len(a) : a[n] <= t
  PROVE  /\ InWindow(Append(a, t), c + 1, r)
         /\ \A n \in 1..Len(a) : n + Limit + Limit <= Len(a) + 1 => a[n] + Window < t
<1>1. Limit \in Nat /\ Window \in Nat /\ 1 <= Limit /\ Len(a) \in Nat
  BY LimiterAssumption
<1>2. Len(Append(a, t)) = Len(a) + 1 /\ c <= Len(a) /\ Window <= r
  BY DEF InWindow
<1>3. ASSUME NEW n \in 1..Len(a)
      PROVE  /\ a[n] \in Nat /\ a[n] <= t /\ a[n] = Append(a, t)[n]
             /\ Len(a) < n + c => r <= a[n] + Window /\ a[n] <= r
             /\ n + c <= Len(a) => a[n] + Window < r
             /\ n + c + Limit <= Len(a) => a[n] + Window + Window < r
  BY DEF InWindow
<1>4. r <= t + Window
  <2>1. Len(a) \in 1..Len(a) /\ Len(a) < Len(a) + c
    BY <1>1, <1>2
  <2>2. r <= a[Len(a)] + Window /\ a[Len(a)] <= t /\ a[Len(a)] \in Nat
    BY <1>3, <2>1
  <2> QED
    BY <1>1, <2>2
<1>5. ASSUME NEW n \in 1..(Len(a) + 1)
      PROVE  /\ Len(a) + 1 < n + (c + 1)
                 => r <= Append(a, t)[n] + Window /\ Append(a, t)[n] <= r
             /\ n + (c + 1) <= Len(a) + 1 => Append(a, t)[n] + Window < r
             /\ n + (c + 1) + Limit <= Len(a) + 1 => Append(a, t)[n] + Window + Window < r
  <2>1. CASE n = Len(a) + 1
    <3>1. Append(a, t)[n] = t
      BY <2>1
    <3> QED
      BY <1>1, <1>4, <2>1, <3>1
  <2>2. CASE n # Len(a) + 1
    <3>1. n \in 1..Len(a)
      BY <1>1, <2>2
    <3>2. /\ Len(a) + 1 < n + (c + 1) => Len(a) < n + c
          /\ n + (c + 1) <= Len(a) + 1 => n + c <= Len(a)
          /\ n + (c + 1) + Limit <= Len(a) + 1 => n + c + Limit <= Len(a)
      BY <1>1
    <3> QED
      BY <1>3, <3>1, <3>2
  <2> QED
    BY <2>1, <2>2
<1>6. c + 1 <= Len(a) + 1
  BY <1>1, <1>2
<1>7. InWindow(Append(a, t), c + 1, r)
  BY <1>2, <1>5, <1>6 DEF InWindow
<1>8. ASSUME NEW n \in 1..Len(a), n + Limit + Limit <= Len(a) + 1
      PROVE  a[n] + Window < t
  <2>1. n + c + Limit <= Len(a)
    BY <1>1, <1>8
  <2>2. a[n] + Window + Window < r /\ a[n] \in Nat
    BY <1>3, <2>1
  <2> QED
    BY <1>1, <1>4, <2>2
<1> QED
  BY <1>7, <1>8

\* What is far apart stays so.
LEMMA FarApartGrows ==
  ASSUME NEW a \in Seq(Nat), NEW t \in Nat, FarApart(a),
         \A n \in 1..Len(a) : n + Limit + Limit <= Len(a) + 1 => a[n] + Window < t
  PROVE  FarApart(Append(a, t))
<1>1. Limit \in Nat /\ 1 <= Limit /\ Len(a) \in Nat
  BY LimiterAssumption
<1>2. /\ Len(Append(a, t)) = Len(a) + 1
      /\ Append(a, t)[Len(a) + 1] = t /\ \A n \in 1..Len(a) : Append(a, t)[n] = a[n]
  OBVIOUS
<1>3. ASSUME NEW n \in 1..(Len(a) + 1), NEW p \in 1..(Len(a) + 1), n + Limit + Limit <= p
      PROVE  Append(a, t)[n] + Window < Append(a, t)[p]
  <2>1. n \in 1..Len(a)
    <3>1. n < p /\ p <= Len(a) + 1
      BY <1>1, <1>3
    <3> QED
      BY <1>1, <3>1
  <2>2. p = Len(a) + 1 \/ p \in 1..Len(a)
    BY <1>1
  <2> QED
    BY <1>2, <1>3, <2>1, <2>2 DEF FarApart
<1> QED
  BY <1>2, <1>3 DEF FarApart

\* In a stretch as long as a window there are less than all the places from the
\* first that lies in it to the one that is twice the limit behind.
LEMMA FewInAStretch ==
  ASSUME NEW a \in Seq(Nat), NEW start \in Nat, FarApart(a)
  PROVE  Cardinality({n \in 1..Len(a) : a[n] \in start..(start + Window)}) <= 2 * Limit
<1> DEFINE S == {n \in 1..Len(a) : a[n] \in start..(start + Window)}
<1>1. Limit \in Nat /\ Window \in Nat /\ 1 <= Limit /\ Len(a) \in Nat
  BY LimiterAssumption
<1>2. CASE S = {}
  <2>1. Cardinality(S) = 0
    BY <1>2, FS_EmptySet
  <2> QED
    BY <1>1, <2>1
<1>3. CASE S # {}
  <2>1. S \subseteq Nat
    BY <1>1
  <2>2. PICK m \in S : \A n \in S : m <= n
    BY <1>3, <2>1, Smallest
  <2>3. m \in Nat /\ m \in 1..Len(a) /\ a[m] \in Nat /\ start <= a[m]
    BY <1>1
  <2>4. ASSUME NEW n \in S PROVE n \in m..(m + 2 * Limit - 1)
    <3>1. n \in Nat /\ n \in 1..Len(a) /\ a[n] \in Nat /\ a[n] <= start + Window /\ m <= n
      BY <1>1, <2>2
    <3>2. ~(m + Limit + Limit <= n)
      BY <1>1, <2>3, <3>1 DEF FarApart
    <3> QED
      BY <1>1, <2>3, <3>1, <3>2
  <2>5. /\ IsFiniteSet(m..(m + 2 * Limit - 1))
        /\ Cardinality(m..(m + 2 * Limit - 1)) = 2 * Limit
    <3> DEFINE u == m + 2 * Limit - 1
    <3>1. m \in Int /\ u \in Int /\ m <= u /\ u - m + 1 = 2 * Limit
      BY <1>1, <2>3
    <3> HIDE DEF u
    <3>2. IsFiniteSet(m..u) /\ Cardinality(m..u) = IF m > u THEN 0 ELSE u - m + 1
      BY ONLY <3>1, FS_Interval, Zenon
    <3> QED
      BY <3>1, <3>2 DEF u
  <2>6. Cardinality(S) <= Cardinality(m..(m + 2 * Limit - 1))
    BY <2>4, <2>5, FS_Subset
  <2> QED
    BY <2>5, <2>6
<1> QED
  BY <1>2, <1>3

-----------------------------------------------------------------------------
LEMMA LimiterInvLimit == LimiterInv => AtMostTwiceTheLimit
<1> SUFFICES ASSUME LimiterInv, NEW k \in LimitKeys, NEW start \in 0..now
             PROVE  Cardinality({n \in 1..Len(allowed[k]) :
                                   allowed[k][n] \in start..(start + Window)}) <= 2 * Limit
  BY DEF AtMostTwiceTheLimit
<1>1. allowed[k] \in Seq(0..Horizon) /\ start \in Nat /\ FarApart(allowed[k])
  BY DEF LimiterInv, LimiterTypeOK, KeyInv
<1>2. allowed[k] \in Seq(Nat)
  BY <1>1, LimiterAssumption
<1> QED
  BY <1>1, <1>2, FewInAStretch

LEMMA LimiterStarts == LimiterInit => LimiterInv
<1> SUFFICES ASSUME LimiterInit PROVE LimiterInv
  OBVIOUS
<1>1. LimiterTypeOK
  <2>1. NoEntry \in [count : 0..Limit, reset : 0..(Horizon + Window)]
    BY LimiterAssumption DEF NoEntry
  <2>2. <<>> \in Seq(0..Horizon)
    OBVIOUS
  <2> QED
    BY <2>1, <2>2, LimiterAssumption DEF LimiterInit, LimiterTypeOK
<1>2. ASSUME NEW k \in LimitKeys PROVE KeyInv(k)
  <2>1. allowed[k] = <<>> /\ Len(allowed[k]) = 0 /\ entries[k].count = 0
    BY DEF LimiterInit, NoEntry
  <2> QED
    BY <2>1 DEF KeyInv, Outdated, FarApart
<1> QED
  BY <1>1, <1>2 DEF LimiterInv

\* The types of what belongs to one key.
LEMMA KeyTypes ==
  ASSUME LimiterInv, NEW k \in LimitKeys
  PROVE  /\ allowed[k] \in Seq(Nat) /\ Len(allowed[k]) \in Nat /\ now \in Nat
         /\ entries[k].count \in Nat /\ entries[k].count <= Limit /\ entries[k].reset \in Nat
         /\ \A n \in 1..Len(allowed[k]) : allowed[k][n] \in Nat /\ allowed[k][n] <= now
<1>1. /\ allowed[k] \in Seq(0..Horizon) /\ now \in 0..Horizon
      /\ entries[k] \in [count : 0..Limit, reset : 0..(Horizon + Window)]
  BY DEF LimiterInv, LimiterTypeOK
<1>2. allowed[k] \in Seq(Nat) /\ now \in Nat
  BY <1>1, LimiterAssumption
<1>3. entries[k].count \in 0..Limit /\ entries[k].reset \in 0..(Horizon + Window)
  BY <1>1
<1>4. /\ entries[k].count \in Nat /\ entries[k].count <= Limit /\ entries[k].reset \in Nat
  BY <1>3, LimiterAssumption
<1>5. \A n \in 1..Len(allowed[k]) : allowed[k][n] \in Nat /\ allowed[k][n] <= now
  BY <1>2 DEF LimiterInv, KeyInv
<1> QED
  BY <1>2, <1>4, <1>5

\* An attempt that is let through.
LEMMA LetThroughKeeps ==
  ASSUME LimiterInv, NEW k \in LimitKeys,
         NEW c \in Nat, NEW r \in Nat, c # 0, c <= Limit, r <= Horizon + Window,
         LetThrough(k, [count |-> c, reset |-> r]), InWindow(Append(allowed[k], now), c, r),
         \A n \in 1..Len(allowed[k]) :
           n + Limit + Limit <= Len(allowed[k]) + 1 => allowed[k][n] + Window < now
  PROVE  LimiterInv'
<1> DEFINE e == [count |-> c, reset |-> r]
<1>1. LimiterTypeOK'
  <2>1. e \in [count : 0..Limit, reset : 0..(Horizon + Window)]
    BY LimiterAssumption
  <2>2. Append(allowed[k], now) \in Seq(0..Horizon)
    BY DEF LimiterInv, LimiterTypeOK
  <2> QED
    BY <2>1, <2>2 DEF LimiterInv, LimiterTypeOK, LetThrough
<1>2. ASSUME NEW j \in LimitKeys, j # k PROVE KeyInv(j)'
  <2>1. allowed'[j] = allowed[j] /\ entries'[j] = entries[j] /\ now' = now
    BY <1>2 DEF LetThrough, LimiterInv, LimiterTypeOK
  <2> QED
    BY <2>1 DEF LimiterInv, KeyInv, Outdated, InWindow, FarApart
<1>3. KeyInv(k)'
  <2>1. allowed'[k] = Append(allowed[k], now) /\ entries'[k] = e /\ now' = now
    BY DEF LetThrough, LimiterInv, LimiterTypeOK
  <2>2. allowed[k] \in Seq(Nat) /\ now \in Nat
    BY KeyTypes
  <2>3. FarApart(Append(allowed[k], now))
    BY <2>2, FarApartGrows DEF LimiterInv, KeyInv
  <2>4. \A n \in 1..Len(Append(allowed[k], now)) : Append(allowed[k], now)[n] <= now
    BY <2>2, KeyTypes
  <2> QED
    <3>1. e.count = c /\ e.reset = r
      OBVIOUS
    <3> HIDE DEF e
    <3> QED
      BY <2>1, <2>3, <2>4, <3>1 DEF KeyInv, InWindow, FarApart
<1> QED
  BY <1>1, <1>2, <1>3 DEF LimiterInv

LEMMA AllowKeeps ==
  ASSUME LimiterInv, NEW k \in LimitKeys, AllowFirst(k) \/ AllowNext(k)
  PROVE  LimiterInv'
<1>1. /\ allowed[k] \in Seq(Nat) /\ Len(allowed[k]) \in Nat /\ now \in Nat
      /\ entries[k].count \in Nat /\ entries[k].count <= Limit /\ entries[k].reset \in Nat
      /\ \A n \in 1..Len(allowed[k]) : allowed[k][n] \in Nat /\ allowed[k][n] <= now
      /\ Limit \in Nat /\ 1 <= Limit /\ Window \in Nat /\ KeyInv(k)
      /\ entries[k].reset <= Horizon + Window /\ now <= Horizon /\ Horizon \in Nat
      /\ entries[k] \in [count : 0..Limit, reset : 0..(Horizon + Window)]
  BY KeyTypes, LimiterAssumption DEF LimiterInv, LimiterTypeOK
<1>2. CASE AllowFirst(k)
  <2>1. Outdated(allowed[k], now)
    BY <1>1, <1>2, WindowIsOver DEF AllowFirst, KeyInv
  <2>2. LetThrough(k, [count |-> 1, reset |-> now + Window]) /\ now + Window <= Horizon + Window
        /\ now + Window \in Nat
    BY <1>1, <1>2 DEF AllowFirst
  <2> QED
    <3>1. /\ InWindow(Append(allowed[k], now), 1, now + Window)
          /\ \A n \in 1..Len(allowed[k]) :
               n + Limit + Limit <= Len(allowed[k]) + 1 => allowed[k][n] + Window < now
      BY <1>1, <2>1, WindowBegins
    <3>2. 1 \in Nat /\ 1 # 0
      OBVIOUS
    <3> QED
      BY <1>1, <2>2, <3>1, <3>2, LetThroughKeeps
<1>3. CASE AllowNext(k)
  <2>1. /\ entries[k].count # 0 /\ now <= entries[k].reset /\ entries[k].count < Limit
        /\ LetThrough(k, [entries[k] EXCEPT !.count = @ + 1])
    BY <1>3 DEF AllowNext
  <2>2. [entries[k] EXCEPT !.count = @ + 1]
          = [count |-> entries[k].count + 1, reset |-> entries[k].reset]
    BY <1>1
  <2>3. entries[k].count + 1 \in Nat /\ entries[k].count + 1 # 0
        /\ entries[k].count + 1 <= Limit
    BY <1>1, <2>1
  <2>4. /\ InWindow(Append(allowed[k], now), entries[k].count + 1, entries[k].reset)
        /\ \A n \in 1..Len(allowed[k]) :
             n + Limit + Limit <= Len(allowed[k]) + 1 => allowed[k][n] + Window < now
    BY <1>1, <2>1, WindowGoesOn DEF KeyInv
  <2> QED
    BY <1>1, <2>1, <2>2, <2>3, <2>4, LetThroughKeeps
<1> QED
  BY <1>2, <1>3

LEMMA TickKeeps == LimiterInv /\ Tick => LimiterInv'
<1> SUFFICES ASSUME LimiterInv, Tick PROVE LimiterInv'
  OBVIOUS
<1>1. LimiterTypeOK'
  BY LimiterAssumption DEF LimiterInv, LimiterTypeOK, Tick
<1>2. ASSUME NEW k \in LimitKeys PROVE KeyInv(k)'
  <2>1. allowed' = allowed /\ entries' = entries /\ now' = now + 1 /\ KeyInv(k)
    BY DEF Tick, LimiterInv
  <2>2. /\ now \in Nat /\ Window \in Nat
        /\ \A n \in 1..Len(allowed[k]) : allowed[k][n] \in Nat /\ allowed[k][n] <= now
    BY KeyTypes, LimiterAssumption
  <2>3. Outdated(allowed[k], now) => Outdated(allowed[k], now + 1)
    BY <2>2 DEF Outdated
  <2>4. \A n \in 1..Len(allowed[k]) : allowed[k][n] <= now + 1
    BY <2>2
  <2> QED
    BY <2>1, <2>3, <2>4 DEF KeyInv, Outdated, InWindow, FarApart
<1> QED
  BY <1>1, <1>2 DEF LimiterInv

LEMMA CleanUpKeeps == LimiterInv /\ CleanUp => LimiterInv'
<1> SUFFICES ASSUME LimiterInv, CleanUp PROVE LimiterInv'
  OBVIOUS
<1>1. LimiterTypeOK'
  BY LimiterAssumption DEF LimiterInv, LimiterTypeOK, CleanUp, NoEntry
<1>2. ASSUME NEW k \in LimitKeys PROVE KeyInv(k)'
  <2>1. allowed' = allowed /\ now' = now /\ KeyInv(k)
        /\ entries'[k] = IF now > entries[k].reset THEN NoEntry ELSE entries[k]
    BY DEF CleanUp, LimiterInv
  <2>2. CASE now > entries[k].reset
    <3>1. Outdated(allowed[k], now)
      BY <2>1, <2>2, KeyTypes, WindowIsOver DEF KeyInv
    <3>2. entries'[k].count = 0
      BY <2>1, <2>2 DEF NoEntry
    <3> QED
      BY <2>1, <3>1, <3>2 DEF KeyInv, Outdated, FarApart
  <2>3. CASE ~(now > entries[k].reset)
    BY <2>1, <2>3 DEF KeyInv, Outdated, InWindow, FarApart
  <2> QED
    BY <2>2, <2>3
<1> QED
  BY <1>1, <1>2 DEF LimiterInv

LEMMA LimiterInductive == LimiterInv /\ [LimiterNext]_limiterVars => LimiterInv'
<1> SUFFICES ASSUME LimiterInv, [LimiterNext]_limiterVars PROVE LimiterInv'
  OBVIOUS
<1>1. CASE UNCHANGED limiterVars
  BY <1>1 DEF LimiterInv, LimiterTypeOK, KeyInv, Outdated, InWindow, FarApart, limiterVars
<1> QED
  BY <1>1, TickKeeps, AllowKeeps, CleanUpKeeps DEF LimiterNext

\* The types of the variables, for every limit, window and number of keys.
THEOREM LimiterTypes == LimiterSpec => []LimiterTypeOK
<1>1. LimiterInv => LimiterTypeOK
  BY DEF LimiterInv
<1> QED
  BY LimiterStarts, LimiterInductive, <1>1, PTL DEF LimiterSpec

\* rateLimiter.allow: two windows of a key can meet, three cannot.
THEOREM LoginsAreLimited == LimiterSpec => []AtMostTwiceTheLimit
  BY LimiterStarts, LimiterInductive, LimiterInvLimit, PTL DEF LimiterSpec

-----------------------------------------------------------------------------
(* AdminClient.                                                            *)

Refreshing == {c \in Calls : CallAt(c, "refreshing")}

(***************************************************************************)
(* QueueHasItsRefresh without the cardinality, which a step of one call    *)
(* is easier to compare with.                                              *)
(***************************************************************************)
QueueInv ==
  /\ refreshQueue = {c \in Calls : CallAt(c, "queued")}
  /\ isRefreshing \in BOOLEAN
  /\ isRefreshing <=> \E c \in Calls : CallAt(c, "refreshing")
  /\ \A c, d \in Calls : CallAt(c, "refreshing") /\ CallAt(d, "refreshing") => c = d
  /\ ~isRefreshing => refreshQueue = {}

ClientInv == ClientTypeOK /\ QueueInv

LEMMA ClientInvQueue == ClientInv => QueueHasItsRefresh
<1> SUFFICES ASSUME ClientInv
             PROVE  Cardinality(Refreshing) = IF isRefreshing THEN 1 ELSE 0
  BY DEF ClientInv, QueueInv, QueueHasItsRefresh, Refreshing
<1>1. CASE isRefreshing
  <2>1. PICK c \in Calls : CallAt(c, "refreshing")
    BY <1>1 DEF ClientInv, QueueInv
  <2>2. Refreshing = {c}
    BY <2>1 DEF ClientInv, QueueInv, Refreshing
  <2> QED
    BY <1>1, <2>2, FS_Singleton
<1>2. CASE ~isRefreshing
  <2>1. Refreshing = {}
    BY <1>2 DEF ClientInv, QueueInv, Refreshing
  <2> QED
    BY <1>2, <2>1, FS_EmptySet
<1> QED
  BY <1>1, <1>2 DEF ClientInv, QueueInv

LEMMA ClientStarts == ClientInit => ClientInv
<1> SUFFICES ASSUME ClientInit PROVE ClientInv
  OBVIOUS
<1>1. ClientTypeOK
  <2>1. \A c \in Calls : call[c] \in CallState
    BY ClientAssumption DEF ClientInit, CallState, NoToken
  <2>2. call \in [Calls -> CallState]
    BY <2>1 DEF ClientInit
  <2>3. issued \in 0..MaxTokens /\ live \subseteq 1..issued /\ token \in 0..issued
        /\ refreshToken \in BOOLEAN /\ isRefreshing \in BOOLEAN /\ leaving \in BOOLEAN
        /\ refreshQueue \subseteq Calls
    <3>1. issued = 0 \/ issued = 1
      BY DEF ClientInit
    <3>2. issued \in 0..MaxTokens /\ issued \in 0..issued
      BY <3>1, ClientAssumption
    <3> QED
      BY <3>2 DEF ClientInit
  <2> QED
    BY <2>2, <2>3 DEF ClientTypeOK
<1>2. QueueInv
  BY DEF ClientInit, QueueInv, CallAt
<1> QED
  BY <1>1, <1>2 DEF ClientInv

-----------------------------------------------------------------------------
\* A call that neither waited nor refreshed, and does not do so now.
LEMMA PlainCallStep ==
  ASSUME ClientInv, NEW c \in Calls, NEW s \in CallState, call' = [call EXCEPT ![c] = s],
         UNCHANGED <<isRefreshing, refreshQueue>>,
         call[c].pc \notin {"queued", "refreshing"}, s.pc \notin {"queued", "refreshing"}
  PROVE  QueueInv' /\ call' \in [Calls -> CallState]
<1>1. call \in [Calls -> CallState]
  BY DEF ClientInv, ClientTypeOK
<1>2. call' \in [Calls -> CallState] /\ call'[c] = s
      /\ \A d \in Calls \ {c} : call'[d] = call[d]
  BY <1>1
<1>3. \A d \in Calls : /\ CallAt(d, "queued")' <=> CallAt(d, "queued")
                       /\ CallAt(d, "refreshing")' <=> CallAt(d, "refreshing")
  BY <1>2 DEF CallAt
<1>4. QueueInv'
  BY <1>3 DEF ClientInv, QueueInv
<1> QED
  BY <1>2, <1>4

LEMMA PlainCallActions ==
  ASSUME ClientInv, NEW c \in Calls,
         \/ SendCall(c) \/ Succeeds(c) \/ LogsIn(c) \/ FailsOtherwise(c)
         \/ RefusedAgain(c) \/ NothingToRefresh(c)
  PROVE  ClientInv'
<1> USE ClientAssumption
<1>1. /\ call \in [Calls -> CallState] /\ call[c] \in CallState
      /\ issued \in 0..MaxTokens /\ live \subseteq 1..issued /\ token \in 0..issued
      /\ refreshToken \in BOOLEAN /\ isRefreshing \in BOOLEAN /\ leaving \in BOOLEAN
      /\ refreshQueue \subseteq Calls /\ token \in 0..MaxTokens
  BY DEF ClientInv, ClientTypeOK
<1>2. PICK s : s = call'[c]
  OBVIOUS
<1>3. /\ call' = [call EXCEPT ![c] = s] /\ s \in CallState
      /\ s.pc \notin {"queued", "refreshing"} /\ call[c].pc \notin {"queued", "refreshing"}
  <2>1. CASE SendCall(c)
    <3>1. call' = [call EXCEPT ![c] = Carrying(c, token)]
      BY <2>1 DEF SendCall
    <3>2. Carrying(c, token) = [call[c] EXCEPT !.pc = "sent", !.carries = token]
      BY DEF Carrying
    <3>3. Carrying(c, token) \in CallState /\ Carrying(c, token).pc = "sent"
      BY <1>1, <3>2 DEF CallState
    <3>4. s = Carrying(c, token)
      BY <1>1, <1>2, <3>1
    <3> QED
      BY <2>1, <3>1, <3>3, <3>4 DEF SendCall, CallAt
  <2>2. ASSUME NEW pc \in {"ok", "failed"}, call' = [call EXCEPT ![c].pc = pc],
               call[c].pc = "sent"
        PROVE  /\ call' = [call EXCEPT ![c] = s] /\ s \in CallState
               /\ s.pc \notin {"queued", "refreshing"}
               /\ call[c].pc \notin {"queued", "refreshing"}
    <3>1. s = [call[c] EXCEPT !.pc = pc]
      BY <1>1, <1>2, <2>2
    <3>2. s \in CallState /\ s.pc = pc
      BY <1>1, <3>1 DEF CallState
    <3> QED
      BY <2>2, <3>1, <3>2
  <2>3. CASE ~SendCall(c)
    <3>1. CASE Succeeds(c) \/ LogsIn(c)
      BY <3>1, <2>2 DEF Succeeds, LogsIn, CallAt
    <3>2. CASE FailsOtherwise(c) \/ RefusedAgain(c) \/ NothingToRefresh(c)
      BY <3>2, <2>2 DEF FailsOtherwise, RefusedAgain, NothingToRefresh, Refused401, CallAt
    <3> QED
      BY <2>3, <3>1, <3>2
  <2> QED
    BY <2>1, <2>3
<1>4. UNCHANGED <<isRefreshing, refreshQueue>>
  BY DEF SendCall, Succeeds, LogsIn, FailsOtherwise, RefusedAgain, NothingToRefresh
<1>5. QueueInv' /\ call' \in [Calls -> CallState]
  BY <1>3, <1>4, PlainCallStep
<1>6. /\ issued' \in 0..MaxTokens /\ live' \subseteq 1..issued' /\ token' \in 0..issued'
      /\ refreshToken' \in BOOLEAN /\ leaving' \in BOOLEAN
  <2>1. CASE SendCall(c) \/ Succeeds(c)
    BY <1>1, <2>1 DEF SendCall, Succeeds
  <2>2. CASE LogsIn(c)
    BY <1>1, <2>2 DEF LogsIn
  <2>3. CASE FailsOtherwise(c) \/ RefusedAgain(c)
    BY <1>1, <2>3 DEF FailsOtherwise, RefusedAgain, TokenAfterFailing, NoToken
  <2>4. CASE NothingToRefresh(c)
    BY <1>1, <2>4 DEF NothingToRefresh, NoToken
  <2> QED
    BY <2>1, <2>2, <2>3, <2>4
<1> QED
  BY <1>1, <1>4, <1>5, <1>6 DEF ClientInv, ClientTypeOK

\* A 401 that begins a refresh, and one that waits for it.
LEMMA RefreshActions ==
  ASSUME ClientInv, NEW c \in Calls, WaitForRefresh(c) \/ StartRefresh(c)
  PROVE  ClientInv'
<1>1. /\ call \in [Calls -> CallState] /\ call[c] \in CallState /\ call[c].pc = "sent"
  BY DEF ClientInv, ClientTypeOK, WaitForRefresh, StartRefresh, Refused401, CallAt
<1>2. CASE WaitForRefresh(c)
  <2>1. /\ call' = [call EXCEPT ![c].pc = "queued"] /\ isRefreshing /\ isRefreshing' = isRefreshing
        /\ refreshQueue' = refreshQueue \cup {c}
        /\ UNCHANGED <<issued, live, token, refreshToken, leaving>>
    BY <1>2 DEF WaitForRefresh
  <2>2. call'[c] = [call[c] EXCEPT !.pc = "queued"]
    BY <1>1, <2>1
  <2>3. call'[c] \in CallState /\ call'[c].pc = "queued"
    BY <1>1, <2>2 DEF CallState
  <2>4. call' \in [Calls -> CallState] /\ \A d \in Calls \ {c} : call'[d] = call[d]
    BY <1>1, <2>1, <2>3
  <2>5. QueueInv'
    BY <1>1, <2>1, <2>3, <2>4 DEF ClientInv, QueueInv, CallAt
  <2> QED
    BY <2>1, <2>4, <2>5 DEF ClientInv, ClientTypeOK
<1>3. CASE StartRefresh(c)
  <2>1. /\ call' = [call EXCEPT ![c].pc = "refreshing", ![c].retried = TRUE]
        /\ ~isRefreshing /\ isRefreshing' = TRUE
        /\ UNCHANGED <<issued, live, token, refreshToken, refreshQueue, leaving>>
    BY <1>3 DEF StartRefresh
  <2>2. call'[c] = [call[c] EXCEPT !.pc = "refreshing", !.retried = TRUE]
    BY <1>1, <2>1
  <2>3. call'[c] \in CallState /\ call'[c].pc = "refreshing"
    BY <1>1, <2>2 DEF CallState
  <2>4. call' \in [Calls -> CallState] /\ \A d \in Calls \ {c} : call'[d] = call[d]
    BY <1>1, <2>1, <2>3
  <2>5. QueueInv'
    BY <1>1, <2>1, <2>3, <2>4 DEF ClientInv, QueueInv, CallAt
  <2> QED
    BY <2>1, <2>4, <2>5 DEF ClientInv, ClientTypeOK
<1> QED
  BY <1>2, <1>3

\* However a refresh ends, and when the page is left, nobody waits any more.
LEMMA RefreshEnds ==
  ASSUME ClientInv, call' \in [Calls -> CallState], isRefreshing' = FALSE, refreshQueue' = {},
         \A d \in Calls : ~CallAt(d, "queued")' /\ ~CallAt(d, "refreshing")'
  PROVE  QueueInv'
  BY DEF QueueInv

LEMMA EndActions ==
  ASSUME ClientInv, NEW c \in Calls, Refreshed(c) \/ RefreshRefused(c)
  PROVE  ClientInv'
<1> USE ClientAssumption
<1>1. /\ call \in [Calls -> CallState]
      /\ issued \in 0..MaxTokens /\ live \subseteq 1..issued /\ token \in 0..issued
      /\ refreshToken \in BOOLEAN /\ leaving \in BOOLEAN
  BY DEF ClientInv, ClientTypeOK
<1>2. \A d \in Calls : CallAt(d, "queued") \/ CallAt(d, "refreshing") =>
                         d = c \/ d \in refreshQueue
  BY DEF ClientInv, QueueInv, Refreshed, RefreshRefused
<1>3. CASE Refreshed(c)
  <2>1. /\ call' = [d \in Calls |-> IF d = c \/ d \in refreshQueue
                                    THEN Carrying(d, issued + 1) ELSE call[d]]
        /\ issued < MaxTokens /\ issued' = issued + 1 /\ live' = live \cup {issued + 1}
        /\ token' = issued + 1 /\ refreshQueue' = {} /\ isRefreshing' = FALSE
        /\ UNCHANGED <<refreshToken, leaving>>
    BY <1>3 DEF Refreshed
  <2>2. issued + 1 \in 0..MaxTokens
    BY <1>1, <2>1
  <2>3. ASSUME NEW d \in Calls
        PROVE  Carrying(d, issued + 1) \in CallState /\ Carrying(d, issued + 1).pc = "sent"
    <3>1. call[d] \in CallState
      BY <1>1
    <3> QED
      BY <2>2, <3>1 DEF Carrying, CallState
  <2>4. call' \in [Calls -> CallState]
    BY <1>1, <2>1, <2>3
  <2>5. \A d \in Calls : ~CallAt(d, "queued")' /\ ~CallAt(d, "refreshing")'
    BY <1>2, <2>1, <2>3 DEF CallAt
  <2>6. QueueInv'
    BY <2>1, <2>4, <2>5, RefreshEnds
  <2>7. issued' \in 0..MaxTokens /\ live' \subseteq 1..issued' /\ token' \in 0..issued'
        /\ refreshQueue' \subseteq Calls /\ isRefreshing' \in BOOLEAN
    <3>1. issued \in Nat /\ live \subseteq 1..(issued + 1)
      BY <1>1
    <3>2. issued + 1 \in 0..(issued + 1) /\ issued + 1 \in 1..(issued + 1)
      BY <3>1
    <3> QED
      BY <2>1, <2>2, <3>1, <3>2
  <2> QED
    BY <1>1, <2>1, <2>4, <2>6, <2>7 DEF ClientInv, ClientTypeOK
<1>4. CASE RefreshRefused(c)
  <2>1. /\ call' = [d \in Calls |-> IF d = c \/ d \in refreshQueue
                                    THEN [call[d] EXCEPT !.pc = "failed"] ELSE call[d]]
        /\ refreshQueue' = {} /\ isRefreshing' = FALSE /\ token' = 0
        /\ refreshToken' = FALSE /\ leaving' = TRUE /\ UNCHANGED <<issued, live>>
    BY <1>4 DEF RefreshRefused, NoToken
  <2>2. ASSUME NEW d \in Calls
        PROVE  /\ [call[d] EXCEPT !.pc = "failed"] \in CallState
               /\ [call[d] EXCEPT !.pc = "failed"].pc = "failed"
    <3>1. call[d] \in CallState
      BY <1>1
    <3> QED
      BY <3>1 DEF CallState
  <2>3. call' \in [Calls -> CallState]
    BY <1>1, <2>1, <2>2
  <2>4. \A d \in Calls : ~CallAt(d, "queued")' /\ ~CallAt(d, "refreshing")'
    BY <1>2, <2>1, <2>2 DEF CallAt
  <2>5. QueueInv'
    BY <2>1, <2>3, <2>4, RefreshEnds
  <2>6. token' \in 0..issued' /\ refreshQueue' \subseteq Calls
    BY <1>1, <2>1
  <2> QED
    BY <1>1, <2>1, <2>3, <2>5, <2>6 DEF ClientInv, ClientTypeOK
<1> QED
  BY <1>3, <1>4

LEMMA LoadKeeps == ClientInv /\ LoadLoginPage => ClientInv'
<1> SUFFICES ASSUME ClientInv, LoadLoginPage PROVE ClientInv'
  OBVIOUS
<1>1. /\ call \in [Calls -> CallState]
      /\ call' = [c \in Calls |-> IF Settled(c) \/ CallAt(c, "new") THEN call[c]
                                  ELSE [call[c] EXCEPT !.pc = "gone"]]
      /\ refreshQueue' = {} /\ isRefreshing' = FALSE /\ leaving' = FALSE
      /\ UNCHANGED <<issued, live, token, refreshToken>>
  BY DEF ClientInv, ClientTypeOK, LoadLoginPage
<1>2. ASSUME NEW d \in Calls
      PROVE  /\ [call[d] EXCEPT !.pc = "gone"] \in CallState
             /\ [call[d] EXCEPT !.pc = "gone"].pc = "gone"
  <2>1. call[d] \in CallState
    BY <1>1
  <2> QED
    BY <2>1 DEF CallState
<1>3. call' \in [Calls -> CallState]
  BY <1>1, <1>2
<1>4. \A d \in Calls : ~CallAt(d, "queued")' /\ ~CallAt(d, "refreshing")'
  BY <1>1, <1>2 DEF CallAt, Settled
<1>5. QueueInv'
  BY <1>1, <1>3, <1>4, RefreshEnds
<1> QED
  BY <1>1, <1>3, <1>5 DEF ClientInv, ClientTypeOK

LEMMA ClientInductive == ClientInv /\ [ClientNext]_clientVars => ClientInv'
<1> SUFFICES ASSUME ClientInv, [ClientNext]_clientVars PROVE ClientInv'
  OBVIOUS
<1>1. CASE UNCHANGED clientVars
  BY <1>1 DEF ClientInv, ClientTypeOK, QueueInv, CallAt, clientVars
<1>2. CASE Logout
  <2>1. 0 \in 0..issued
    BY ClientAssumption DEF ClientInv, ClientTypeOK
  <2>2. ClientTypeOK'
    BY <1>2, <2>1 DEF Logout, ClientInv, ClientTypeOK, NoToken
  <2>3. QueueInv'
    BY <1>2 DEF Logout, ClientInv, QueueInv, CallAt
  <2> QED
    BY <2>2, <2>3 DEF ClientInv
<1>3. ASSUME NEW n \in live, TokenExpires(n) PROVE ClientInv'
  BY <1>3 DEF TokenExpires, ClientInv, ClientTypeOK, QueueInv, CallAt
<1> QED
  BY <1>1, <1>2, <1>3, PlainCallActions, RefreshActions, EndActions, LoadKeeps
  DEF ClientNext, Answer

-----------------------------------------------------------------------------
\* The types of the variables, for every number of calls and tokens.
THEOREM ClientTypes == ClientSpec => []ClientTypeOK
<1>1. ClientInv => ClientTypeOK
  BY DEF ClientInv
<1> QED
  BY ClientStarts, ClientInductive, <1>1, PTL DEF ClientSpec

\* The interceptor of client.js: isRefreshing stands for one refresh that is under
\* way, and no call is left in the queue without it.
THEOREM QueueIsServed == ClientSpec => []QueueHasItsRefresh
  BY ClientStarts, ClientInductive, ClientInvQueue, PTL DEF ClientSpec
=============================================================================
