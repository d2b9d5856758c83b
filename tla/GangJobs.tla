------------------------------ MODULE GangJobs ------------------------------
(***************************************************************************)
(* The life of one multi-node ("gang") job: launchGang in the scheduling   *)
(* pass, one row per rank in the store's job_tasks, the ranks' reports in  *)
(* HandleHeartbeat, Cancel and Requeue.  The job's node column holds the   *)
(* names of all its machines, which is no machine's name: expiry, reclaim  *)
(* and giving up (see JobControl) never meet it, and a kill queued for     *)
(* that column goes to nobody.  Other jobs do not touch these records.     *)
(*                                                                         *)
(* Every store statement is atomic; the pass, the requests and the         *)
(* heartbeat handlers of the machines interleave between them.             *)
(*                                                                         *)
(* Definitions named ...Mutant are the code with one mistake in it; only   *)
(* they are for showing that a property depends on the code.               *)
(***************************************************************************)
EXTENDS Naturals, Sequences, FiniteSets

CONSTANTS
  Nodes,
  OwnerNodes,     \* nodes whose owner may refuse work
  Outcomes,       \* how a rank's process may end
  Severe,         \* the ones GangOutcome prefers: OUT_OF_MEMORY and TIMEOUT
  UserCancels,    \* whether the user may cancel the job, once
  UserRequeues,   \* whether the user may requeue it
  FabricFails,    \* whether the fabric may turn the placement down
  MaxPlacements,  \* bound: placements of the job
  MaxFaults       \* bound: crashes, restarts, lost messages, store errors, cancels

ASSUME GangAssumption ==
  /\ IsFiniteSet(Nodes) /\ OwnerNodes \subseteq Nodes
  /\ "FAILED" \in Outcomes
  /\ Outcomes \subseteq {"COMPLETED", "FAILED", "OUT_OF_MEMORY", "TIMEOUT"}
  /\ Severe = {"OUT_OF_MEMORY", "TIMEOUT"}
  /\ UserCancels \in BOOLEAN /\ UserRequeues \in BOOLEAN /\ FabricFails \in BOOLEAN
  /\ MaxPlacements \in Nat /\ MaxFaults \in Nat

VARIABLES
  \* the store
  state,      \* jobs.state
  tasks,      \* the job's rows in job_tasks, by rank
  \* the controller's memory
  pass,       \* the scheduling pass inside launchGang
  cancel,     \* the cancel request
  pending,    \* per node: actions waiting for its next heartbeat
  \* agents and the exchange with each
  run,        \* nodes on which the rank's process runs
  done,       \* per node: reports not acknowledged yet
  todo,       \* per node: actions received and not carried out yet
  link,       \* per node: where its exchange is
  msg,        \* per node: content of the exchange, and the handler's locals
  \* history and bounds
  fate,       \* per node: how its process ended, as the machine saw it
  disturbed,  \* a cancel, a requeue or a refusal has happened
  lost,       \* a fault took something nobody will send again
  placements,
  faults

store == <<state, tasks>>
memory == <<pass, cancel, pending>>
agents == <<run, done, todo>>
wire == <<link, msg>>
history == <<fate, disturbed, lost>>
vars == <<store, memory, agents, wire, history, placements, faults>>

-----------------------------------------------------------------------------
(* Values *)

RankStates == Outcomes \cup {"RUNNING", "CANCELLED"}
Terminal(s) == s \notin {"PENDING", "RUNNING"}

Task == [node: Nodes, st: RankStates]
Report == [st: RankStates, refused: BOOLEAN]
Steps == {"next", "clear", "requeue", "task", "outcome", "mark", "single"}

\* rows: what TasksFor returned; verdict: what GangOutcome returned
Msg == [reports: Seq(Report), step: Steps, rows: Seq(Task),
        verdict: RankStates \cup {"none"}, acked: BOOLEAN, actions: Seq({"launch", "kill"})]
NoMsg == [reports |-> <<>>, step |-> "next", rows |-> <<>>, verdict |-> "none",
          acked |-> FALSE, actions |-> <<>>]

NoPass == [step |-> "idle", ranks |-> <<>>]
NoCancel == [step |-> "idle", kills |-> {}]

NodesOf(rows) == {rows[i].node : i \in DOMAIN rows}
Unfinished(rows) == {rows[i].node : i \in {k \in DOMAIN rows : ~Terminal(rows[k].st)}}
RowOf(n) == {i \in DOMAIN tasks : tasks[i].node = n}

\* All-or-nothing allocations on at least two machines, rank 0 first.  One
\* machine's name in the node column is JobControl's subject.
Placements == {p \in UNION {[1..k -> Nodes] : k \in 2..Cardinality(Nodes)} :
                 \A a, b \in DOMAIN p : p[a] = p[b] => a = b}

GangTypeOK ==
  /\ state \in RankStates \cup {"PENDING"}
  /\ tasks \in Seq(Task)
  /\ pass \in [step: {"idle", "mark", "fabric", "launch"}, ranks: Seq(Nodes)]
  /\ cancel \in [step: {"idle", "rows", "mark"}, kills: SUBSET Nodes]
  /\ pending \in [Nodes -> Seq({"launch", "kill"})]
  /\ run \in SUBSET Nodes
  /\ done \in [Nodes -> Seq(Report)]
  /\ todo \in [Nodes -> Seq({"launch", "kill"})]
  /\ link \in [Nodes -> {"idle", "sent", "replied"}]
  /\ msg \in [Nodes -> Msg]
  /\ fate \in [Nodes -> RankStates \cup {"none"}]
  /\ disturbed \in BOOLEAN /\ lost \in BOOLEAN
  /\ placements \in Nat /\ faults \in Nat

Init ==
  /\ state = "PENDING" /\ tasks = <<>>
  /\ pass = NoPass /\ cancel = NoCancel
  /\ pending = [n \in Nodes |-> <<>>]
  /\ run = {}
  /\ done = [n \in Nodes |-> <<>>]
  /\ todo = [n \in Nodes |-> <<>>]
  /\ link = [n \in Nodes |-> "idle"]
  /\ msg = [n \in Nodes |-> NoMsg]
  /\ fate = [n \in Nodes |-> "none"]
  /\ disturbed = FALSE /\ lost = FALSE /\ placements = 0 /\ faults = 0

Fault == faults < MaxFaults /\ faults' = faults + 1

-----------------------------------------------------------------------------
(* launchGang, in the scheduling pass *)

\* CreateTasks is one transaction.  Rows left over from an earlier placement
\* hit the primary key: the job stays queued, "launch failed".
CreateTasks ==
  /\ pass = NoPass /\ state = "PENDING" /\ placements < MaxPlacements
  /\ tasks = <<>>
  /\ \E p \in Placements :
       /\ tasks' = [i \in DOMAIN p |-> [node |-> p[i], st |-> "RUNNING"]]
       /\ pass' = [step |-> "mark", ranks |-> p]
  /\ placements' = placements + 1
  /\ UNCHANGED <<state, cancel, pending, agents, wire, history, faults>>

MarkGang ==
  /\ pass.step = "mark"
  /\ state' = "RUNNING"
  /\ pass' = [pass EXCEPT !.step = "fabric"]
  /\ UNCHANGED <<tasks, cancel, pending, agents, wire, history, placements, faults>>

\* MarkRunning fails: the rows go.
MarkGangFails ==
  /\ pass.step = "mark" /\ Fault
  /\ tasks' = <<>>
  /\ pass' = NoPass
  /\ UNCHANGED <<state, cancel, pending, agents, wire, history, placements>>

PlanFabric ==
  /\ pass.step = "fabric"
  /\ pass' = [pass EXCEPT !.step = "launch"]
  /\ UNCHANGED <<store, cancel, pending, agents, wire, history, placements, faults>>

\* The fabric asked for cannot be had: the rows go, the record stays RUNNING.
PlanFabricFails ==
  /\ pass.step = "fabric" /\ FabricFails
  /\ tasks' = <<>>
  /\ pass' = NoPass
  /\ lost' = TRUE
  /\ UNCHANGED <<state, cancel, pending, agents, wire, fate, disturbed, placements, faults>>

\* One enqueue per rank.
LaunchRank ==
  /\ pass.step = "launch"
  /\ pending' = [pending EXCEPT ![Head(pass.ranks)] = Append(@, "launch")]
  /\ pass' = IF Len(pass.ranks) = 1 THEN NoPass ELSE [pass EXCEPT !.ranks = Tail(@)]
  /\ UNCHANGED <<store, cancel, agents, wire, history, placements, faults>>

-----------------------------------------------------------------------------
(* Requests from users *)

\* Cancel reads the task rows.  Without any it reads the job, which must not
\* have ended; with some it does not ask.
CancelRead ==
  /\ UserCancels /\ Fault /\ cancel = NoCancel /\ ~disturbed
  /\ tasks # <<>> \/ ~Terminal(state)
  /\ cancel' = IF tasks = <<>> THEN [step |-> "mark", kills |-> {}]
               ELSE [step |-> "rows", kills |-> Unfinished(tasks)]
  /\ disturbed' = TRUE
  /\ UNCHANGED <<store, pass, pending, agents, wire, fate, lost, placements>>

\* CancelTasks writes every unfinished row; a kill goes out per rank read.
CancelRows ==
  /\ cancel.step = "rows"
  /\ tasks' = [i \in DOMAIN tasks |->
                 IF Terminal(tasks[i].st) THEN tasks[i] ELSE [tasks[i] EXCEPT !.st = "CANCELLED"]]
  /\ pending' = [n \in Nodes |->
                   IF n \in cancel.kills THEN Append(pending[n], "kill") ELSE pending[n]]
  /\ cancel' = [step |-> "mark", kills |-> {}]
  /\ UNCHANGED <<state, pass, agents, wire, history, placements, faults>>

CancelMark ==
  /\ cancel.step = "mark"
  /\ state' = "CANCELLED"
  /\ cancel' = NoCancel
  /\ UNCHANGED <<tasks, pass, pending, agents, wire, history, placements, faults>>

\* Requeue: the kill goes to the node column, that is to nobody; the rows stay.
Requeue ==
  /\ UserRequeues /\ ~disturbed
  /\ state' = "PENDING"
  /\ disturbed' = TRUE
  /\ UNCHANGED <<tasks, memory, agents, wire, fate, lost, placements, faults>>

-----------------------------------------------------------------------------
(* HandleHeartbeat on the ranks' reports *)

SendHeartbeat(n) ==
  /\ link[n] = "idle" /\ todo[n] = <<>>
  /\ msg' = [msg EXCEPT ![n] = [NoMsg EXCEPT !.reports = done[n]]]
  /\ link' = [link EXCEPT ![n] = "sent"]
  /\ UNCHANGED <<store, memory, agents, history, placements, faults>>

At(n, step) == link[n] = "sent" /\ msg[n].step = step /\ msg[n].reports # <<>>
Goes(n, step) == msg' = [msg EXCEPT ![n].step = step]

\* The handler is done with the report at hand, with or without acknowledging it.
Settled(m, ack) == [NoMsg EXCEPT !.reports = Tail(m.reports), !.acked = m.acked \/ ack]
Settles(n, ack) == msg' = [msg EXCEPT ![n] = Settled(@, ack)]

\* The record and the task rows are read, and the handler branches on them.
ReadReport(n) ==
  /\ At(n, "next")
  /\ \/ /\ Terminal(state)
        /\ Settles(n, TRUE)
     \/ /\ ~Terminal(state) /\ Head(msg[n].reports).refused
        /\ Goes(n, "clear")
     \/ /\ ~Terminal(state) /\ ~Head(msg[n].reports).refused
        /\ msg' = [msg EXCEPT ![n].rows = tasks,
                              ![n].step = IF tasks = <<>> THEN "single" ELSE "task"]
  /\ UNCHANGED <<store, memory, agents, link, history, placements, faults>>

ClearRows(n) ==
  /\ At(n, "clear")
  /\ tasks' = <<>>
  /\ Goes(n, "requeue")
  /\ UNCHANGED <<state, memory, agents, link, history, placements, faults>>

RequeueGang(n) ==
  /\ At(n, "requeue")
  /\ state' = "PENDING"
  /\ Settles(n, TRUE)
  /\ UNCHANGED <<tasks, memory, agents, link, history, placements, faults>>

\* Mutant: the row is found by its node alone, not by ended_at = 0.
RecordRankMutant(n) ==
  /\ At(n, "task")
  /\ tasks' = [i \in DOMAIN tasks |-> [tasks[i] EXCEPT !.st = Head(msg[n].reports).st]]
  /\ Goes(n, "outcome")
  /\ UNCHANGED <<state, memory, agents, link, history, placements, faults>>

\* FinishTask: this node's unfinished row.  Without one the report cannot be
\* placed and is acknowledged.
RecordRank(n) ==
  /\ At(n, "task")
  /\ IF n \in Unfinished(tasks)
     THEN /\ tasks' = [i \in DOMAIN tasks |->
                         IF i \in RowOf(n) THEN [tasks[i] EXCEPT !.st = Head(msg[n].reports).st]
                         ELSE tasks[i]]
          /\ Goes(n, "outcome")
     ELSE UNCHANGED tasks /\ Settles(n, TRUE)
  /\ UNCHANGED <<state, memory, agents, link, history, placements, faults>>

FailedRows(rows) == {i \in DOMAIN rows : rows[i].st # "COMPLETED"}

\* The first failure in rank order, replaced by the last severe one.
Worst(rows) ==
  LET severe == {i \in DOMAIN rows : rows[i].st \in Severe}
      failed == FailedRows(rows)
  IN  IF failed = {} THEN "COMPLETED"
      ELSE IF severe # {} THEN rows[CHOOSE i \in severe : \A k \in severe : k <= i].st
      ELSE rows[CHOOSE i \in failed : \A k \in failed : i <= k].st

\* Mutant: whether GangOutcome says "done" is not looked at; its result is empty
\* as long as a rank is unfinished.
ReadOutcomeMutant(n) ==
  /\ At(n, "outcome")
  /\ msg' = [msg EXCEPT ![n].step = "mark",
                        ![n].verdict = IF Unfinished(tasks) # {} THEN "none" ELSE Worst(tasks)]
  /\ UNCHANGED <<store, memory, agents, link, history, placements, faults>>

\* GangOutcome: no rows, or one unfinished, and the job goes on.
ReadOutcome(n) ==
  /\ At(n, "outcome")
  /\ IF tasks = <<>> \/ Unfinished(tasks) # {} THEN Settles(n, TRUE)
     ELSE msg' = [msg EXCEPT ![n].step = "mark", ![n].verdict = Worst(tasks)]
  /\ UNCHANGED <<store, memory, agents, link, history, placements, faults>>

\* stopRemainingRanks goes by the rows as they were before this report.
Stopped(n) ==
  [k \in Nodes |-> IF msg[n].verdict # "COMPLETED" /\ k \in Unfinished(msg[n].rows)
                   THEN Append(pending[k], "kill") ELSE pending[k]]

FinishGang(n) ==
  /\ At(n, "mark")
  /\ state' = msg[n].verdict
  /\ pending' = Stopped(n)
  /\ Settles(n, TRUE)
  /\ UNCHANGED <<tasks, pass, cancel, agents, link, history, placements, faults>>

\* MarkFinished fails: logged, and the report is acknowledged all the same.
FinishGangFails(n) ==
  /\ At(n, "mark") /\ Fault
  /\ pending' = Stopped(n)
  /\ Settles(n, TRUE)
  /\ lost' = TRUE
  /\ UNCHANGED <<store, pass, cancel, agents, link, fate, disturbed, placements>>

\* Without task rows the report is taken for a single-node job's.
FinishSingle(n) ==
  /\ At(n, "single")
  /\ state' = Head(msg[n].reports).st
  /\ Settles(n, TRUE)
  /\ UNCHANGED <<tasks, memory, agents, link, history, placements, faults>>

\* The store fails elsewhere: a rank that cannot be recorded is acknowledged,
\* everything else is sent again.
ReportFails(n) ==
  /\ \E step \in {"requeue", "task", "outcome", "single"} : At(n, step)
  /\ Fault
  /\ Settles(n, msg[n].step = "task")
  /\ lost' = (lost \/ msg[n].step \in {"task", "outcome"})
  /\ UNCHANGED <<store, memory, agents, link, fate, disturbed, placements>>

Reply(n) ==
  /\ link[n] = "sent" /\ msg[n].reports = <<>>
  /\ msg' = [msg EXCEPT ![n].actions = pending[n]]
  /\ pending' = [pending EXCEPT ![n] = <<>>]
  /\ link' = [link EXCEPT ![n] = "replied"]
  /\ UNCHANGED <<store, pass, cancel, agents, history, placements, faults>>

-----------------------------------------------------------------------------
(* RunLoop and Supervise on each machine *)

\* Mutant: reports are dropped whether acknowledged or not.
ReceiveReplyMutant(n) ==
  /\ link[n] = "replied"
  /\ done' = [done EXCEPT ![n] = <<>>]
  /\ todo' = [todo EXCEPT ![n] = msg[n].actions]
  /\ link' = [link EXCEPT ![n] = "idle"]
  /\ msg' = [msg EXCEPT ![n] = NoMsg]
  /\ UNCHANGED <<store, memory, run, history, placements, faults>>

\* AckDone goes by job: every report of this job is dropped.
ReceiveReply(n) ==
  /\ link[n] = "replied"
  /\ done' = [done EXCEPT ![n] = IF msg[n].acked THEN <<>> ELSE @]
  /\ todo' = [todo EXCEPT ![n] = msg[n].actions]
  /\ link' = [link EXCEPT ![n] = "idle"]
  /\ msg' = [msg EXCEPT ![n] = NoMsg]
  /\ UNCHANGED <<store, memory, run, history, placements, faults>>

NextIs(n, kind) == link[n] = "idle" /\ todo[n] # <<>> /\ Head(todo[n]) = kind
Tell(n, st, refused) ==
  done' = [done EXCEPT ![n] = Append(@, [st |-> st, refused |-> refused])]
Takes(n) == todo' = [todo EXCEPT ![n] = Tail(@)]

RefuseLaunch(n) ==
  /\ n \in OwnerNodes /\ NextIs(n, "launch")
  /\ Tell(n, "FAILED", TRUE) /\ Takes(n)
  /\ disturbed' = TRUE
  /\ UNCHANGED <<store, memory, run, wire, fate, lost, placements, faults>>

StartRank(n) ==
  /\ NextIs(n, "launch")
  /\ run' = run \cup {n}
  /\ Takes(n)
  /\ UNCHANGED <<store, memory, done, wire, history, placements, faults>>

LaunchFails(n) ==
  /\ NextIs(n, "launch") /\ n \notin run
  /\ Tell(n, "FAILED", FALSE) /\ Takes(n)
  /\ fate' = [fate EXCEPT ![n] = "FAILED"]
  /\ UNCHANGED <<store, memory, run, wire, disturbed, lost, placements, faults>>

KillRank(n) ==
  /\ NextIs(n, "kill")
  /\ Takes(n)
  /\ run' = run \ {n}
  /\ IF n \in run THEN Tell(n, "CANCELLED", FALSE) /\ fate' = [fate EXCEPT ![n] = "CANCELLED"]
     ELSE UNCHANGED <<done, fate>>
  /\ UNCHANGED <<store, memory, wire, disturbed, lost, placements, faults>>

RankEnds(n, st) ==
  /\ n \in run
  /\ run' = run \ {n}
  /\ Tell(n, st, FALSE)
  /\ fate' = [fate EXCEPT ![n] = st]
  /\ UNCHANGED <<store, memory, todo, wire, disturbed, lost, placements, faults>>

-----------------------------------------------------------------------------
(* Faults *)

RequestLost(n) ==
  /\ link[n] = "sent" /\ msg[n].step = "next" /\ msg[n].reports = done[n] /\ ~msg[n].acked
  /\ Fault
  /\ link' = [link EXCEPT ![n] = "idle"]
  /\ msg' = [msg EXCEPT ![n] = NoMsg]
  /\ UNCHANGED <<store, memory, agents, history, placements>>

Launches(q) == \E i \in DOMAIN q : q[i] = "launch"

\* The actions go with the response.
ReplyLost(n) ==
  /\ link[n] = "replied" /\ Fault
  /\ link' = [link EXCEPT ![n] = "idle"]
  /\ msg' = [msg EXCEPT ![n] = NoMsg]
  /\ lost' = (lost \/ Launches(msg[n].actions))
  /\ UNCHANGED <<store, memory, agents, fate, disturbed, placements>>

\* expireNodes drops the queue of a node that went silent.
NodeExpires(n) ==
  /\ link[n] = "idle" /\ pending[n] # <<>> /\ Fault
  /\ pending' = [pending EXCEPT ![n] = <<>>]
  /\ lost' = (lost \/ Launches(pending[n]))
  /\ UNCHANGED <<store, pass, cancel, agents, wire, fate, disturbed, placements>>

AgentRestart(n) ==
  /\ link[n] = "idle" /\ Fault
  /\ run' = run \ {n}
  /\ done' = [done EXCEPT ![n] = <<>>]
  /\ todo' = [todo EXCEPT ![n] = <<>>]
  /\ lost' = (lost \/ n \in run \/ done[n] # <<>> \/ Launches(todo[n]))
  /\ UNCHANGED <<store, memory, wire, fate, disturbed, placements>>

ControllerRestart ==
  /\ Fault
  /\ pass' = NoPass /\ cancel' = NoCancel
  /\ pending' = [n \in Nodes |-> <<>>]
  /\ link' = [n \in Nodes |-> IF link[n] = "replied" THEN "replied" ELSE "idle"]
  /\ msg' = [n \in Nodes |-> IF link[n] = "replied" THEN msg[n] ELSE NoMsg]
  /\ lost' = (\/ lost \/ pass # NoPass
              \/ \E n \in Nodes : Launches(pending[n]) \/ msg[n].step \in {"outcome", "mark"})
  /\ UNCHANGED <<store, agents, fate, disturbed, placements>>

-----------------------------------------------------------------------------

PassStep ==
  \/ CreateTasks \/ MarkGang \/ MarkGangFails \/ PlanFabric \/ PlanFabricFails \/ LaunchRank

UserStep == CancelRead \/ CancelRows \/ CancelMark \/ Requeue

HeartbeatStep == \E n \in Nodes :
  \/ ReadReport(n) \/ ClearRows(n) \/ RequeueGang(n) \/ RecordRank(n) \/ ReadOutcome(n)
  \/ FinishGang(n) \/ FinishSingle(n) \/ Reply(n)

AgentStep == \E n \in Nodes :
  \/ SendHeartbeat(n) \/ ReceiveReply(n)
  \/ RefuseLaunch(n) \/ StartRank(n) \/ LaunchFails(n) \/ KillRank(n)
  \/ \E st \in Outcomes : RankEnds(n, st)

FaultStep ==
  \/ ControllerRestart
  \/ \E n \in Nodes : \/ FinishGangFails(n) \/ ReportFails(n) \/ RequestLost(n)
                      \/ ReplyLost(n) \/ NodeExpires(n) \/ AgentRestart(n)

Next == PassStep \/ UserStep \/ HeartbeatStep \/ AgentStep \/ FaultStep

Spec == Init /\ [][Next]_vars

\* The goroutines and agents keep running: a pass carries its placement out, an
\* exchange is carried to its end, and machines keep sending heartbeats.  A
\* process may run for ever.
Fairness ==
  /\ WF_vars(MarkGang \/ PlanFabric \/ LaunchRank)
  /\ WF_vars(CancelRows \/ CancelMark)
  /\ \A n \in Nodes :
       /\ WF_vars(SendHeartbeat(n))
       /\ WF_vars(\/ ReadReport(n) \/ ClearRows(n) \/ RequeueGang(n) \/ RecordRank(n)
                  \/ ReadOutcome(n) \/ FinishGang(n) \/ FinishSingle(n) \/ Reply(n))
       /\ WF_vars(ReceiveReply(n) \/ StartRank(n) \/ KillRank(n))

FairSpec == Spec /\ Fairness

-----------------------------------------------------------------------------
(* Properties *)

\* The job as its user sees it.
RankOf(n) ==
  IF n \in NodesOf(tasks) THEN tasks[CHOOSE i \in RowOf(n) : TRUE].st ELSE "none"

Outcome == INSTANCE JobOutcome WITH rank <- [n \in Nodes |-> RankOf(n)]

\* A gang is assigned as a whole, ends once, after all of its ranks, and as the
\* worst of them did, whatever order the machines report in and whatever is lost
\* or restarted in between (store/tasks.go GangOutcome).
KeepsPromise == Outcome!Spec

\* A result stands for what the machines saw: a gang is over only when every
\* process of it is, and COMPLETED only when every rank was (HandleHeartbeat: "A
\* gang job finishes only when every rank has").
EveryRankCounts ==
  Terminal(state) /\ ~disturbed =>
    /\ run = {}
    /\ \A n \in NodesOf(tasks) :
         /\ fate[n] # "none"
         /\ state = "COMPLETED" => fate[n] = "COMPLETED"

\* The same, however a rank was refused: a gang is COMPLETED only when the work of
\* every rank was done (controller.go schedule: "a partial allocation is useless").
WholeOrNothing ==
  state = "COMPLETED" =>
    tasks # <<>> /\ \A n \in NodesOf(tasks) : fate[n] = "COMPLETED"

\* Once every rank's process has ended, the job's end is recorded, unless a fault
\* took what nobody sends again.
GangRecorded ==
  (tasks # <<>> /\ \A n \in NodesOf(tasks) : fate[n] # "none" /\ n \notin run)
    ~> (Terminal(state) \/ lost \/ disturbed)

=============================================================================
