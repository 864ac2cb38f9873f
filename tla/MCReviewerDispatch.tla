------------------------ MODULE MCReviewerDispatch ------------------------
(***************************************************************************)
(* ReviewerDispatch for TLC: the symmetry of entries, reviewers, workers   *)
(* and clients, and the part of a larger instance that safety is checked   *)
(* in: two tasks with every reward and completion, a third one when all    *)
(* rewards are the same and one client completes.  The reward of a type of *)
(* task that no reason calls for stays the same throughout.                *)
(***************************************************************************)
EXTENDS ReviewerDispatch, TLC

CONSTANT usual   \* one of the amounts

Symmetric ==
  Permutations(Entries) \cup Permutations(Reviewers)
    \cup Permutations(Workers) \cup Permutations(Clients)

UsualRewards ==
  /\ \A taskType \in TaskTypes : rewards[taskType] = usual
  /\ \A n \in 1..made : tasks[n].reward = usual

OneCompletes == \A c, d \in Clients : "idle" \in {tx[c].pc, tx[d].pc} \/ c = d

CalledFor == {TaskTypeForReason(reason) : reason \in Reasons}

InPart ==
  /\ \A taskType \in TaskTypes \ CalledFor : rewards[taskType] = usual
  /\ made <= 2 \/ (UsualRewards /\ OneCompletes)

MCInit ==
  /\ Init
  /\ \A taskType \in TaskTypes \ CalledFor : rewards[taskType] = usual

MCNext == Next /\ InPart'

MCSpec == MCInit /\ [][MCNext]_vars
============================================================================
