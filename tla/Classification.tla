-------------------------- MODULE Classification --------------------------
(***************************************************************************)
(* How an item becomes an asset or an expense: the rules of its tenant,    *)
(* newest first, then the built-in keywords, then the AI, whose answer is  *)
(* kept as a rule when it is sure of it; and the people who write and      *)
(* change the rules meanwhile.                                             *)
(*                                                                         *)
(* Texts are descriptions and keywords alike; Within says which keyword a  *)
(* text contains when letters are compared without their case.  A step is  *)
(* one SQL statement, with the comparisons after it, or the call of the AI.*)
(***************************************************************************)
EXTENDS Naturals, Sequences

CONSTANTS
  Texts,
  Items,        \* the texts that are descriptions of items
  Keywords,     \* the texts that somebody may make a rule of
  Within,       \* pairs <<keyword, text>>
  BuiltIn,      \* what the built-in keywords make of a text
  ClassifyRuns, \* classifications that run at once
  MaxRules      \* bound: rules of the tenant

ASSUME ClassificationAssumption ==
  /\ Keywords \subseteq Texts /\ Items \subseteq Texts
  /\ Keywords # {} /\ Items # {}
  /\ Within \subseteq Keywords \X Texts
  /\ BuiltIn \in [Texts -> {"asset", "expense", "pending"}]
  /\ MaxRules \in Nat

VARIABLES
  rules,     \* rules of the tenant by created_at, the oldest first
  classify   \* the classifications

classificationVars == <<rules, classify>>

-----------------------------------------------------------------------------
AssetTypes == {"asset", "expense"}

Rule == [keyword : Keywords, type : AssetTypes, source : {"ai", "human"}]

\* "learned" is history: the answer has become a rule, and none has been written,
\* changed or deleted since.
ClassifyState == [pc : {"idle", "ai", "learn", "done"}, text : Items, keyword : Keywords,
                  answer : {"asset", "expense", "other", "pending"}, learned : BOOLEAN]

IdleClassify == [pc |-> "idle", text |-> CHOOSE t \in Items : TRUE,
                 keyword |-> CHOOSE k \in Keywords : TRUE, answer |-> "pending",
                 learned |-> FALSE]

\* Variant with a bug: the arguments of strings.Contains swapped.
MatchesSwapped(rule, t) == <<t, rule.keyword>> \in Within

Matches(rule, t) == <<rule.keyword, t>> \in Within

MatchingRules(t) == {i \in 1..Len(rules) : Matches(rules[i], t)}

\* ListRules returns the newest first, and the first that matches decides.
DecidingRule(t) ==
  CHOOSE i \in MatchingRules(t) : \A j \in MatchingRules(t) : j <= i

RuleAnswer(t) == IF MatchingRules(t) = {} THEN "pending" ELSE rules[DecidingRule(t)].type

\* UNIQUE (tenant_id, keyword), with the case of the letters.
KeywordTaken(k) == \E i \in 1..Len(rules) : rules[i].keyword = k

ClassificationInit ==
  /\ rules = <<>>
  /\ classify = [r \in ClassifyRuns |-> IdleClassify]

-----------------------------------------------------------------------------
(* Classifications.                                                        *)

Answered(r, t, answer) ==
  classify' = [classify EXCEPT ![r] = [IdleClassify EXCEPT !.pc = "done", !.text = t,
                                                           !.answer = answer]]

\* ClassifyWithDB up to the AI.  An error of ListRules means no rules.
StartClassify(r, t) ==
  /\ classify[r].pc = "idle"
  /\ \E failed \in BOOLEAN :
       IF ~failed /\ MatchingRules(t) # {} THEN Answered(r, t, RuleAnswer(t))
       ELSE IF BuiltIn[t] # "pending" THEN Answered(r, t, BuiltIn[t])
       ELSE classify' = [classify EXCEPT ![r] =
              [IdleClassify EXCEPT !.pc = "ai", !.text = t]]
  /\ UNCHANGED rules

\* No key, an error, or an answer it is not sure of: nothing is learned.
AnswerWithoutRule(r, type) ==
  /\ classify[r].pc = "ai"
  /\ Answered(r, classify[r].text, type)
  /\ UNCHANGED rules

\* A confidence of 0.8 or more, and a keyword: one of the text, or not.
SureAnswer(r, type, k) ==
  /\ classify[r].pc = "ai"
  /\ classify' = [classify EXCEPT ![r].pc = "learn", ![r].answer = type, ![r].keyword = k]
  /\ UNCHANGED rules

\* A write to the rules: what was learned before it may not be the newest any more.
RulesWritten == [r \in ClassifyRuns |-> [classify[r] EXCEPT !.learned = FALSE]]

\* Variant with a bug: the answer replaces the rule that has the keyword.
LearnOver(r) ==
  LET k == classify[r].keyword
      rule == [keyword |-> k, type |-> classify[r].answer, source |-> "ai"]
  IN  /\ classify[r].pc = "learn" /\ classify[r].answer \in AssetTypes
      /\ IF KeywordTaken(k)
         THEN rules' = [i \in 1..Len(rules) |-> IF rules[i].keyword = k THEN rule ELSE rules[i]]
         ELSE Len(rules) < MaxRules /\ rules' = Append(rules, rule)
      /\ classify' = [RulesWritten EXCEPT ![r].pc = "done", ![r].learned = TRUE]

\* CreateRule with source 'ai'.
Learn(r) ==
  LET k == classify[r].keyword
  IN  /\ classify[r].pc = "learn" /\ classify[r].answer \in AssetTypes
      /\ ~KeywordTaken(k) /\ Len(rules) < MaxRules
      /\ rules' = Append(rules, [keyword |-> k, type |-> classify[r].answer,
                                 source |-> "ai"])
      /\ classify' = [RulesWritten EXCEPT ![r].pc = "done", ![r].learned = TRUE]

\* Every error of CreateRule is dropped: a taken keyword, a type the CHECK
\* refuses, a failing statement.
LearnFails(r) ==
  /\ classify[r].pc = "learn"
  /\ Answered(r, classify[r].text, classify[r].answer)
  /\ UNCHANGED rules

\* The item is saved with the answer, and the worker takes the next one.
NextItem(r) ==
  /\ classify[r].pc = "done"
  /\ classify' = [classify EXCEPT ![r] = IdleClassify]
  /\ UNCHANGED rules

-----------------------------------------------------------------------------
(* People.                                                                 *)

\* createRule, and each line of importRules, which skips what is refused.
CreateRule(rule) ==
  /\ ~KeywordTaken(rule.keyword) /\ Len(rules) < MaxRules
  /\ rules' = Append(rules, rule)
  /\ classify' = RulesWritten

\* updateRule leaves the source and the place in the order.
UpdateRule(i, k, type) ==
  /\ rules[i].keyword = k \/ ~KeywordTaken(k)
  /\ rules' = [rules EXCEPT ![i].keyword = k, ![i].type = type]
  /\ classify' = RulesWritten

DeleteRule(i) ==
  /\ rules' = SubSeq(rules, 1, i - 1) \o SubSeq(rules, i + 1, Len(rules))
  /\ classify' = RulesWritten

-----------------------------------------------------------------------------
ClassifyStep(r) ==
  \/ \E t \in Items : StartClassify(r, t)
  \/ \E type \in AssetTypes \cup {"other", "pending"} : AnswerWithoutRule(r, type)
  \/ \E type \in AssetTypes \cup {"other"}, k \in Keywords : SureAnswer(r, type, k)
  \/ Learn(r) \/ LearnFails(r) \/ NextItem(r)

ClassificationNext ==
  \/ \E r \in ClassifyRuns : ClassifyStep(r)
  \/ \E rule \in Rule : CreateRule(rule)
  \/ \E i \in 1..Len(rules), k \in Keywords, type \in AssetTypes : UpdateRule(i, k, type)
  \/ \E i \in 1..Len(rules) : DeleteRule(i)

ClassificationSpec == ClassificationInit /\ [][ClassificationNext]_classificationVars

-----------------------------------------------------------------------------
(* Properties.                                                             *)

ClassificationTypeOK ==
  /\ rules \in Seq(Rule)
  /\ classify \in [ClassifyRuns -> ClassifyState]

\* Learning adds and never overrules: whatever the AI answers and however it
\* races with people and other items, the rules that are there stay as they are.
LearningOnlyAdds ==
  [][(\E r \in ClassifyRuns : ClassifyStep(r)) =>
       \A i \in 1..Len(rules) : i <= Len(rules') /\ rules'[i] = rules[i]]_classificationVars

\* What was learned from an item answers the next one like it, whoever wrote rules
\* before and whether they could be read or not: the rules give the same answer,
\* unless the keyword is not one of the description, until a rule is written.
LearnedAnswerRepeats ==
  \A r \in ClassifyRuns :
    /\ classify[r].pc = "done" /\ classify[r].learned
    /\ <<classify[r].keyword, classify[r].text>> \in Within
    => RuleAnswer(classify[r].text) = classify[r].answer
=============================================================================
