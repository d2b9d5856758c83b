---------------------------- MODULE MCPlacement ----------------------------
(* What becomes of jobs: how they are handed in (Submissions), the passes    *)
(* that place a queue (Scheduling), and one job's record (JobControl).  They *)
(* share no state here: `part` says which of them this behaviour is about,   *)
(* and the others stay as they were.                                         *)
EXTENDS Scheduling, Submissions

VARIABLE part

\* Two machines, two accounts, a job that needs a whole machine, one on both.
MCKinds == {"cpu", "mem"}
Vec(cpus, mem) == [k \in MCKinds |-> IF k = "cpu" THEN cpus ELSE mem]
MCNodes == <<"n1", "n2">>
MCCap == [n \in {"n1", "n2"} |-> IF n = "n1" THEN Vec(2, 2) ELSE Vec(1, 3)]
MCUsers == {"ann", "bob"}
Asks(user, want, wall, deps, total, maxNodes) ==
  [user |-> user, want |-> want, wall |-> wall, deps |-> deps, total |-> total,
   maxNodes |-> maxNodes, list |-> {}, match |-> {"n1", "n2"}]
MCSpecs ==
  {Asks("ann", Vec(0, 1), 0, {}, Vec(0, 0), 0),
   Asks("bob", Vec(2, 0), 1, {}, Vec(0, 0), 0),
   Asks("bob", Vec(0, 0), 1, {[type |-> "afternotok", back |-> 1]}, Vec(2, 1), 2)}
None == -2
NothingSet == [running |-> None, submitted |-> None, wall |-> None,
               use |-> Vec(None, None), perJob |-> Vec(None, None)]
MCDefault == [NothingSet EXCEPT !.wall = 3, !.use = Vec(3, None), !.perJob = Vec(3, 3), !.submitted = 3]
MCOverride == [u \in MCUsers |-> IF u = "ann" THEN [NothingSet EXCEPT !.running = 2] ELSE NothingSet]
MCLimits == [NothingSet EXCEPT !.use = Vec(2, None)]

\* One job's record.
CONSTANTS Jobs, Nodes, NoNode, UserJobs, CancelJobs, HoldJobs, AdminNodes, OwnerNodes, Outcomes,
          MaxAttempts, MaxFaults
VARIABLES job, held, reg, pending, gone, giving, plan, marked, cancelling, requeueing,
          run, done, serial, todo, mood, link, msg, attempt, dropped, asked, faults
Record == INSTANCE JobControl

\* An array and a pipeline, each beside a script with inputs to upload.
MCCommands == {[c \in Clients |-> IF c = "x" THEN k ELSE "staged"] : k \in {"array", "pipeline"}}
MCStages == <<"r", "p", "q">>
MCPipelines == {[s \in {"p", "q", "r"} |-> CASE s = "p" -> {} [] s = "q" -> {"p"} [] s = "r" -> {"p", "q"}]}

jobVars == <<job, held, reg, pending, gone, giving, plan, marked, cancelling, requeueing,
             run, done, serial, todo, mood, link, msg, attempt, dropped, asked, faults>>

PlacementInit ==
  /\ part \in {"job", "scheduling", "submissions"}
  /\ Record!Init /\ Init /\ SubInit
  /\ part = "submissions" \/ cmd["x"].kind = "array"

PlacementNext ==
  \/ part = "job" /\ Record!Next /\ UNCHANGED <<part, vars, subVars>>
  \/ part = "scheduling" /\ Next /\ UNCHANGED <<part, jobVars, subVars>>
  \/ part = "submissions" /\ SubNext /\ UNCHANGED <<part, jobVars, vars>>

\* The record keeps the fairness of its own specification.
RecordFairness ==
  /\ SF_jobVars(part = "job" /\ Record!FindGone)
  /\ SF_jobVars(part = "job" /\ Record!FindAbandoned)
  /\ \A j \in Jobs :
       /\ WF_jobVars(part = "job" /\ (Record!GiveUp(j) \/ Record!ScheduleMark(j) \/ Record!ScheduleEnqueue(j)))
       /\ WF_jobVars(part = "job" /\ Record!Age(j))
  /\ \A n \in Nodes :
       /\ WF_jobVars(part = "job" /\ Record!ExpireNode(n))
       /\ WF_jobVars(/\ part = "job" /\ reg[n].silent < 2
                     /\ Record!SendHeartbeat(n) \/ Record!FallSilent(n))
       /\ WF_jobVars(/\ part = "job"
                     /\ \/ Record!HeartbeatArrives(n) \/ Record!ReadReport(n) \/ Record!WriteReport(n)
                        \/ Record!Reply(n) \/ \E j \in Jobs : Record!Reclaim(n, j))
       /\ SF_jobVars(part = "job" /\ Record!FindUnclaimed(n))
       /\ WF_jobVars(/\ part = "job"
                     /\ \/ Record!ReceiveReply(n) \/ Record!StartJob(n)
                        \/ Record!RefuseLaunch(n) \/ Record!KillJob(n))

PlacementSpec ==
  PlacementInit /\ [][PlacementNext]_<<part, jobVars, vars, subVars>> /\ RecordFairness

PlacementTypeOK == SchedTypeOK /\ SubmissionsTypeOK

\* A record without a process is resolved in the end; see JobControl.
RecordConverges == Record!RecordConverges

=============================================================================
