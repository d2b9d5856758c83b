------------------------------- MODULE MCWork -------------------------------
(* Work on the machines, part by part: a gang, the order of a queue, the      *)
(* processes of one job.  `part` says which of them this behaviour is about;  *)
(* the variables of the others stay as they were at the beginning.            *)
EXTENDS GangJobs, FairShare, Confinement, TLC

VARIABLE part

\* FairShare: two people, one with the larger jobs; shares that change once.
MCCost == [p \in People |-> IF p = "ann" THEN 1 ELSE 2]
MCWaiting == [p \in People |-> 1]
By(on, fair, age, size, small) ==
  [enabled |-> on, fair |-> fair, age |-> age, size |-> size, favorSmall |-> small]
MCPolicies == {By(FALSE, 10, 2, 0, FALSE), By(TRUE, 10, 2, 0, FALSE), By(TRUE, 10, 2, 5, TRUE)}
MCShares(v) == [p \in People |-> IF p = "ann" /\ v = 1 THEN 3 ELSE 1]

-----------------------------------------------------------------------------

gangVars == <<state, tasks, pass, cancel, pending, run, done, todo, link, msg, fate, disturbed, lost,
              placements, faults>>
workVars == <<part, gangVars, fairVars, jobVars>>

WorkInit ==
  /\ part \in {"gang", "shares", "processes"}
  /\ Init /\ ShareInit /\ ConfinementInit
  /\ part = "shares" \/ policy = By(FALSE, 10, 2, 0, FALSE)
  /\ part = "processes" \/ (env = "bare" /\ limits = [mem |-> FALSE, procs |-> 0, wall |-> FALSE])

WorkNext ==
  \/ /\ part = "gang" /\ Next
     /\ UNCHANGED <<part, fairVars, jobVars>>
  \/ /\ part = "shares" /\ ShareNext
     /\ UNCHANGED <<part, gangVars, jobVars>>
  \/ /\ part = "processes" /\ ConfinementNext
     /\ UNCHANGED <<part, gangVars, fairVars>>

\* Each part keeps the fairness of its own specification.
WorkFairness ==
  /\ WF_gangVars(part = "gang" /\ (MarkGang \/ PlanFabric \/ LaunchRank))
  /\ WF_gangVars(part = "gang" /\ (CancelRows \/ CancelMark))
  /\ \A n \in Nodes :
       /\ WF_gangVars(part = "gang" /\ SendHeartbeat(n))
       /\ WF_gangVars(/\ part = "gang"
                      /\ \/ ReadReport(n) \/ ClearRows(n) \/ RequeueGang(n) \/ RecordRank(n)
                         \/ ReadOutcome(n) \/ FinishGang(n) \/ FinishSingle(n) \/ Reply(n))
       /\ WF_gangVars(part = "gang" /\ (ReceiveReply(n) \/ StartRank(n) \/ KillRank(n)))
  /\ WF_fairVars(part = "shares" /\ Pass)
  /\ WF_fairVars(part = "shares" /\ Keep("reader"))
  /\ WF_fairVars(part = "shares" /\ Drop)
  /\ WF_fairVars(part = "shares" /\ Tick)
  /\ WF_jobVars(part = "processes" /\ Move)
  /\ WF_jobVars(part = "processes" /\ checkAll)
  /\ WF_jobVars(part = "processes" /\ KillAfterGrace)
  /\ WF_jobVars(part = "processes" /\ Cleanup)
  /\ WF_jobVars(part = "processes" /\ SweepOrphanScratch)
  /\ WF_jobVars(part = "processes" /\ LauncherExits)
  /\ WF_jobVars(part = "processes" /\ NamespaceEnds)

WorkSpec == WorkInit /\ [][WorkNext]_workVars /\ WorkFairness

-----------------------------------------------------------------------------
(* What is checked *)

\* Every component's variables have their types (the records, rows and messages of the code).
WorkTypeOK ==
  /\ GangTypeOK
  /\ part = "shares" => FairTypeOK
  /\ part = "processes" => ConfinementTypeOK

=============================================================================
