----------------------------- MODULE JobOutcome -----------------------------
(***************************************************************************)
(* What a multi-node job promises its user: it is assigned to a set of     *)
(* machines as a whole, every machine's rank ends on its own, and the job  *)
(* ends once, when all of them have, as its worst rank did ("A distributed *)
(* job is only as good as its worst rank", internal/store/tasks.go).       *)
(* The promise is given until somebody interferes: the user cancels or     *)
(* requeues the job, or the owner of a machine refuses a rank.             *)
(***************************************************************************)
CONSTANTS Nodes, Outcomes, Severe

VARIABLES
  state,     \* what squeue shows
  rank,      \* per machine: "none", "RUNNING", or how its rank ended
  disturbed  \* somebody interfered

vars == <<state, rank, disturbed>>

Assigned == {n \in Nodes : rank[n] # "none"}
Failures == {rank[n] : n \in Assigned} \ {"COMPLETED"}

\* The job's result: an out-of-memory or timed-out rank says more than one that
\* merely failed.
Results ==
  IF Failures = {} THEN {"COMPLETED"}
  ELSE IF Failures \cap Severe # {} THEN Failures \cap Severe
  ELSE Failures

Init ==
  /\ state = "PENDING"
  /\ rank = [n \in Nodes |-> "none"]
  /\ disturbed = FALSE

Assign ==
  /\ state = "PENDING" /\ Assigned = {}
  /\ \E S \in (SUBSET Nodes) \ {{}} : rank' = [n \in Nodes |-> IF n \in S THEN "RUNNING" ELSE "none"]
  /\ UNCHANGED <<state, disturbed>>

Start ==
  /\ state = "PENDING" /\ Assigned # {}
  /\ state' = "RUNNING"
  /\ UNCHANGED <<rank, disturbed>>

\* The assignment falls through as a whole.
Withdraw ==
  /\ state \in {"PENDING", "RUNNING"}
  /\ \A n \in Assigned : rank[n] = "RUNNING"
  /\ rank' = [n \in Nodes |-> "none"]
  /\ UNCHANGED <<state, disturbed>>

RankEnds(n) ==
  /\ state = "RUNNING" /\ rank[n] = "RUNNING"
  /\ \E o \in Outcomes : rank' = [rank EXCEPT ![n] = o]
  /\ UNCHANGED <<state, disturbed>>

End ==
  /\ state = "RUNNING" /\ Assigned # {}
  /\ \A n \in Assigned : rank[n] # "RUNNING"
  /\ state' \in Results
  /\ UNCHANGED <<rank, disturbed>>

Disturb == disturbed' = TRUE

Next ==
  \/ Assign \/ Start \/ Withdraw \/ End
  \/ \E n \in Nodes : RankEnds(n)
  \/ Disturb

Spec == Init /\ [][Next]_vars

=============================================================================
