------------------------ MODULE ReviewTaskContract ------------------------
(***************************************************************************)
(* What a freelance reviewer is promised about the tasks sent to him: a    *)
(* task has one holder and one reward for life, ends once, and raises the  *)
(* holder's earnings by its reward in the very step that completes it.     *)
(* ReviewerDispatch, with its statements and transactions, implements it.  *)
(***************************************************************************)
EXTENDS Naturals

CONSTANTS
  Tasks,      \* identifiers of tasks
  Reviewers,
  Rewards,    \* what a task may pay
  Nobody      \* the holder of a task not sent yet

VARIABLES
  stage,      \* of each task
  holder,     \* of each task
  reward,     \* of each task
  earned      \* by each reviewer

vars == <<stage, holder, reward, earned>>

Stages == {"none", "sent", "accepted", "completed", "expired", "dropped"}

TypeOK ==
  /\ stage \in [Tasks -> Stages]
  /\ holder \in [Tasks -> Reviewers \cup {Nobody}]
  /\ reward \in [Tasks -> Rewards]
  /\ earned \in [Reviewers -> Nat]

Init ==
  /\ stage = [n \in Tasks |-> "none"]
  /\ holder = [n \in Tasks |-> Nobody]
  /\ reward = [n \in Tasks |-> 0]
  /\ earned = [r \in Reviewers |-> 0]

Send(n, r, amount) ==
  /\ stage[n] = "none"
  /\ stage' = [stage EXCEPT ![n] = "sent"]
  /\ holder' = [holder EXCEPT ![n] = r]
  /\ reward' = [reward EXCEPT ![n] = amount]
  /\ UNCHANGED earned

Accept(n) ==
  /\ stage[n] = "sent"
  /\ stage' = [stage EXCEPT ![n] = "accepted"]
  /\ UNCHANGED <<holder, reward, earned>>

Complete(n) ==
  /\ stage[n] \in {"sent", "accepted"}
  /\ stage' = [stage EXCEPT ![n] = "completed"]
  /\ earned' = [earned EXCEPT ![holder[n]] = @ + reward[n]]
  /\ UNCHANGED <<holder, reward>>

\* Tasks nobody accepted in time; an accepted task never expires.
Expire(late) ==
  /\ \A n \in late : stage[n] = "sent"
  /\ stage' = [n \in Tasks |-> IF n \in late THEN "expired" ELSE stage[n]]
  /\ UNCHANGED <<holder, reward, earned>>

\* The document of the tasks is gone: so are they, not what they paid.
Drop(gone) ==
  /\ \A n \in gone : stage[n] # "none"
  /\ stage' = [n \in Tasks |-> IF n \in gone THEN "dropped" ELSE stage[n]]
  /\ UNCHANGED <<holder, reward, earned>>

Next ==
  \/ \E n \in Tasks :
       \/ \E r \in Reviewers, amount \in Rewards : Send(n, r, amount)
       \/ Accept(n)
       \/ Complete(n)
  \/ \E some \in SUBSET Tasks : Expire(some) \/ Drop(some)

Spec == Init /\ [][Next]_vars
============================================================================
