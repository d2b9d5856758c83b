----------------------------- MODULE JobControl -----------------------------
(***************************************************************************)
(* The life of a single-node job between one shome controller and the      *)
(* agents that dial out to it.  The controller keeps the durable record    *)
(* of every job (SQLite, internal/store) and, in memory only, a queue of   *)
(* actions per node.  Each agent repeats one exchange: it sends a          *)
(* heartbeat with what it runs and what ended, the controller records      *)
(* that and answers with the queued actions, the agent carries them out.   *)
(*                                                                         *)
(* Every store statement is atomic.  Handlers that run in different        *)
(* goroutines interleave: expiry, giving up, the scheduling pass, cancel   *)
(* and requeue requests, and the heartbeat handler are each split where    *)
(* they read the store and act later, without a guard, on what they read.  *)
(*                                                                         *)
(* Definitions named ...Mutant are the code with one mistake in it.  They  *)
(* show that a property depends on the code; nothing in the model uses     *)
(* them.                                                                   *)
(***************************************************************************)
EXTENDS Naturals, Sequences, FiniteSets

CONSTANTS
  Jobs, Nodes,
  NoNode,          \* the empty node column
  UserJobs,        \* jobs whose user may call scontrol requeue
  CancelJobs,      \* jobs whose user may cancel them, once
  HoldJobs,        \* jobs whose user may hold and release them
  AdminNodes,      \* nodes an admin drains and resumes
  OwnerNodes,      \* nodes whose owner has a yield policy (a.Owner # nil)
  Outcomes,        \* how the agent may see a process end
  MaxAttempts,     \* bound: placements of one job
  MaxFaults        \* bound: crashes, restarts, lost messages, store errors

ASSUME JobControlAssumption ==
  /\ NoNode \notin Nodes
  /\ UserJobs \subseteq Jobs /\ HoldJobs \subseteq Jobs
  /\ CancelJobs \subseteq Jobs /\ Outcomes \subseteq {"COMPLETED", "FAILED"}
  /\ AdminNodes \subseteq Nodes /\ OwnerNodes \subseteq Nodes
  /\ MaxAttempts \in Nat /\ MaxFaults \in Nat

VARIABLES
  \* the controller's store
  job,        \* per job: state, node, reason class, RUNNING for ClaimGrace
  held,       \* jobs held in the queue
  reg,        \* per node: registry state, reason class, how long silent
  \* the controller's memory
  pending,    \* per node: actions waiting for its next heartbeat
  gone,       \* nodes this tick found silent and has not expired yet
  giving,     \* jobs this tick gives up on and has not written yet
  plan,       \* what is left of the current scheduling pass
  marked,     \* the job this pass marked RUNNING and has not enqueued yet
  cancelling, \* cancel requests between their read and their write
  requeueing, \* requeue requests between their read and their write
  \* agents and the exchange with each
  run,        \* per node: jobs the agent supervises
  done,       \* per node: terminal reports not acknowledged yet
  serial,     \* per node: number of the agent's latest report
  todo,       \* per node: actions received and not carried out yet
  mood,       \* per node: the owner's disposition at the last heartbeat
  link,       \* per node: where its exchange is
  msg,        \* per node: content of the exchange
  \* history and bounds
  attempt,    \* per job: how often it was marked RUNNING
  dropped,    \* RUNNING jobs of which the last trace was lost
  asked,      \* jobs whose user asked for a cancel
  faults

store == <<job, held, reg>>
tick == <<gone, giving, plan, marked>>
requests == <<cancelling, requeueing>>
memory == <<pending, tick, requests>>
agents == <<run, done, serial, todo, mood>>
wire == <<link, msg>>
history == <<attempt, dropped, asked>>
vars == <<store, memory, agents, wire, history, faults>>

-----------------------------------------------------------------------------
(* Values *)

States == {"NONE", "PENDING", "RUNNING", "COMPLETED", "FAILED", "CANCELLED"}

\* TIMEOUT and OUT_OF_MEMORY travel exactly like FAILED.
Terminal(s) == s \in {"COMPLETED", "FAILED", "CANCELLED"}

JobRec == [state: States, node: Nodes \cup {NoNode},
           why: {"", "unreachable", "lost"}, old: BOOLEAN,
           requeue: BOOLEAN]   \* submitted with --requeue

\* silent: 0 seen recently, 1 beyond NodeTimeout, 2 beyond JobGrace
NodeRec == [state: {"UP", "DOWN", "DRAIN"}, why: {"", "owner", "admin", "missed"},
            silent: 0..2]

Action == [kind: {"launch", "kill"}, job: Jobs]
Launch(j) == [kind |-> "launch", job |-> j]
Kill(j) == [kind |-> "kill", job |-> j]

\* at: its place in the agent's list
Report == [job: Jobs, st: States, refused: BOOLEAN, at: Nat]
Oldest(rs) == {rep \in rs : \A other \in rs : rep.at <= other.at}

Moods == {"open", "closed", "full"}

\* got: what the handler has read of the record the oldest report names
\* lost: jobs it reclaims and has not written yet
Msg == [reports: SUBSET Report, claimed: SUBSET Jobs, drain: BOOLEAN,
        got: States \cup {"", "WRITTEN OFF"}, lost: SUBSET Jobs,
        acked: SUBSET Jobs, actions: Seq(Action)]
NoMsg == [reports |-> {}, claimed |-> {}, drain |-> FALSE, got |-> "", lost |-> {},
          acked |-> {}, actions |-> <<>>]

LaunchesIn(q) == {j \in Jobs : \E i \in DOMAIN q : q[i] = Launch(j)}
KillsIn(q) == {j \in Jobs : \E i \in DOMAIN q : q[i] = Kill(j)}
JobsIn(reports) == {rep.job : rep \in reports}

RunningOn(n) == {j \in Jobs : job[j].state = "RUNNING" /\ job[j].node = n}

TypeOK ==
  /\ job \in [Jobs -> JobRec]
  /\ held \in SUBSET Jobs
  /\ reg \in [Nodes -> NodeRec]
  /\ pending \in [Nodes -> Seq(Action)]
  /\ gone \in SUBSET Nodes /\ giving \in SUBSET Jobs
  /\ plan \in [Jobs -> Nodes \cup {NoNode}]
  /\ marked \in SUBSET Jobs
  /\ cancelling \in SUBSET CancelJobs /\ requeueing \in SUBSET UserJobs
  /\ run \in [Nodes -> SUBSET Jobs]
  /\ done \in [Nodes -> SUBSET Report]
  /\ serial \in [Nodes -> Nat]
  /\ todo \in [Nodes -> Seq(Action)]
  /\ mood \in [Nodes -> Moods]
  /\ link \in [Nodes -> {"idle", "sent", "handling", "reclaiming", "replied"}]
  /\ msg \in [Nodes -> Msg]
  /\ attempt \in [Jobs -> Nat]
  /\ dropped \in SUBSET Jobs /\ asked \in SUBSET Jobs
  /\ faults \in Nat

\* Every machine has just joined and nothing has been submitted.
Init ==
  /\ job = [j \in Jobs |-> [state |-> "NONE", node |-> NoNode, why |-> "", old |-> FALSE,
                          requeue |-> FALSE]]
  /\ held = {}
  /\ reg = [n \in Nodes |-> [state |-> "UP", why |-> "", silent |-> 0]]
  /\ pending = [n \in Nodes |-> <<>>]
  /\ plan = [j \in Jobs |-> NoNode]
  /\ gone = {} /\ giving = {} /\ marked = {} /\ cancelling = {} /\ requeueing = {}
  /\ run = [n \in Nodes |-> {}]
  /\ done = [n \in Nodes |-> {}]
  /\ serial = [n \in Nodes |-> 0]
  /\ todo = [n \in Nodes |-> <<>>]
  /\ mood = [n \in Nodes |-> "open"]
  /\ link = [n \in Nodes |-> "idle"]
  /\ msg = [n \in Nodes |-> NoMsg]
  /\ attempt = [j \in Jobs |-> 0]
  /\ dropped = {} /\ asked = {} /\ faults = 0

-----------------------------------------------------------------------------
(* The store's statements on one job record *)

MarkRunning(r, n) == [r EXCEPT !.state = "RUNNING", !.node = n, !.why = "", !.old = FALSE]
\* Mutant: the reason and state columns swapped in the UPDATE.
MarkFinishedMutant(r, st) == [r EXCEPT !.state = "FAILED", !.why = st, !.old = FALSE]
MarkFinished(r, st) == [r EXCEPT !.state = st, !.why = "", !.old = FALSE]
RequeueJob(r) == [r EXCEPT !.state = "PENDING", !.node = NoNode, !.why = "", !.old = FALSE]
WriteOff(r) == [r EXCEPT !.state = "FAILED", !.why = "lost", !.old = FALSE]

-----------------------------------------------------------------------------
(* Requests from users *)

Submit(j) ==
  /\ job[j].state = "NONE"
  /\ \E again \in BOOLEAN :
       job' = [job EXCEPT ![j].state = "PENDING", ![j].requeue = again]
  /\ UNCHANGED <<held, reg, memory, agents, wire, history, faults>>

\* Cancel up to its read of the record: a kill goes out to the recorded node.
CancelRead(j) ==
  /\ j \in CancelJobs \ asked
  /\ job[j].state \in {"PENDING", "RUNNING"}
  /\ cancelling' = cancelling \cup {j}
  /\ pending' = IF job[j].state = "RUNNING"
                THEN [pending EXCEPT ![job[j].node] = Append(@, Kill(j))]
                ELSE pending
  /\ asked' = asked \cup {j}
  /\ UNCHANGED <<store, tick, requeueing, agents, wire, attempt, dropped, faults>>

\* ... and its unguarded write.
CancelWrite(j) ==
  /\ j \in cancelling
  /\ cancelling' = cancelling \ {j}
  /\ job' = [job EXCEPT ![j] = MarkFinished(@, "CANCELLED")]
  /\ UNCHANGED <<held, reg, pending, tick, requeueing, agents, wire, history, faults>>

Hold(j) ==
  /\ j \in HoldJobs /\ job[j].state = "PENDING"
  /\ held' = held \cup {j}
  /\ UNCHANGED <<job, reg, memory, agents, wire, history, faults>>

Release(j) ==
  /\ j \in held /\ job[j].state = "PENDING"
  /\ held' = held \ {j}
  /\ UNCHANGED <<job, reg, memory, agents, wire, history, faults>>

\* Requeue, in two parts like Cancel.
RequeueRead(j) ==
  /\ j \in UserJobs \ requeueing /\ job[j].state # "NONE" /\ attempt[j] < MaxAttempts
  /\ requeueing' = requeueing \cup {j}
  /\ pending' = IF job[j].state = "RUNNING"
                THEN [pending EXCEPT ![job[j].node] = Append(@, Kill(j))]
                ELSE pending
  /\ UNCHANGED <<store, tick, cancelling, agents, wire, history, faults>>

RequeueWrite(j) ==
  /\ j \in requeueing
  /\ requeueing' = requeueing \ {j}
  /\ job' = [job EXCEPT ![j] = RequeueJob(@)]
  /\ UNCHANGED <<held, reg, pending, tick, cancelling, agents, wire, history, faults>>

-----------------------------------------------------------------------------
(* Requests from admins *)

DrainNode(n) ==
  /\ n \in AdminNodes
  /\ reg' = [reg EXCEPT ![n].state = "DRAIN", ![n].why = "admin"]
  /\ UNCHANGED <<job, held, memory, agents, wire, history, faults>>

ResumeNode(n) ==
  /\ n \in AdminNodes
  /\ reg' = [reg EXCEPT ![n].state = "UP", ![n].why = ""]
  /\ UNCHANGED <<job, held, memory, agents, wire, history, faults>>

-----------------------------------------------------------------------------
(* Controller.Run: expireNodes, then schedule, in one goroutine *)

BetweenPasses == tick = <<{}, {}, [j \in Jobs |-> NoNode], {}>>

\* ExpireNodes reads the nodes beyond NodeTimeout ...
FindGone ==
  /\ BetweenPasses
  /\ gone' = {n \in Nodes : reg[n].state = "UP" /\ reg[n].silent >= 1}
  /\ gone' # {}
  /\ UNCHANGED <<store, pending, giving, plan, marked, requests, agents, wire, history, faults>>

\* ... and each of them goes DOWN, has its jobs annotated (MarkJobsUnreachable)
\* and loses its queue.
ExpireNode(n) ==
  /\ n \in gone
  /\ gone' = gone \ {n}
  /\ reg' = [reg EXCEPT ![n].state = "DOWN", ![n].why = "missed"]
  /\ job' = [j \in Jobs |-> IF j \in RunningOn(n)
                            THEN [job[j] EXCEPT !.why = "unreachable"] ELSE job[j]]
  /\ pending' = [pending EXCEPT ![n] = <<>>]
  /\ dropped' = dropped \cup (LaunchesIn(pending[n]) \cap RunningOn(n))
  /\ UNCHANGED <<held, giving, plan, marked, requests, agents, wire, attempt, asked, faults>>

\* GiveUpOnLostJobs reads the jobs on nodes beyond JobGrace ...
FindAbandoned ==
  /\ BetweenPasses
  /\ giving' = {j \in Jobs : job[j].state = "RUNNING" /\ \E n \in Nodes :
                  job[j].node = n /\ reg[n].state = "DOWN" /\ reg[n].silent = 2}
  /\ giving' # {}
  /\ UNCHANGED <<store, pending, gone, plan, marked, requests, agents, wire, history, faults>>

\* Mutant: the requeue flag is not looked at.
GiveUpMutant(j) ==
  /\ j \in giving
  /\ giving' = giving \ {j}
  /\ job' = [job EXCEPT ![j] = RequeueJob(@)]
  /\ UNCHANGED <<held, reg, pending, gone, plan, marked, requests, agents, wire, history, faults>>

\* ... and writes them off, or requeues them, one by one.
GiveUp(j) ==
  /\ j \in giving
  /\ giving' = giving \ {j}
  /\ job' = [job EXCEPT ![j] = IF @.requeue THEN RequeueJob(@) ELSE WriteOff(@)]
  /\ UNCHANGED <<held, reg, pending, gone, plan, marked, requests, agents, wire, history, faults>>

\* What schedule reads: the queue, and the nodes that may take work.
Queue == {j \in Jobs : job[j].state = "PENDING" /\ j \notin held}
Candidates == {n \in Nodes : reg[n].state = "UP"}

\* The pass reads the store and decides.  Any choice of jobs and nodes stands
\* for what dependencies, limits, priorities and free capacity select.
SchedulePass ==
  /\ BetweenPasses
  /\ \E js \in SUBSET {j \in Queue : attempt[j] < MaxAttempts} \ {{}} :
       \E p \in [js -> Candidates] :
         plan' = [j \in Jobs |-> IF j \in js THEN p[j] ELSE NoNode]
  /\ UNCHANGED <<store, pending, gone, giving, marked, requests, agents, wire, history, faults>>

\* Its first step for a decision: MarkRunning, which checks nothing.
ScheduleMark(j) ==
  /\ plan[j] # NoNode /\ marked = {}
  /\ job' = [job EXCEPT ![j] = MarkRunning(@, plan[j])]
  /\ attempt' = [attempt EXCEPT ![j] = @ + 1]
  /\ dropped' = dropped \ {j}
  /\ marked' = {j}
  /\ UNCHANGED <<held, reg, pending, gone, giving, plan, requests, agents, wire, asked, faults>>

\* Its second: the launch is queued for the node.
ScheduleEnqueue(j) ==
  /\ j \in marked /\ plan[j] # NoNode
  /\ pending' = [pending EXCEPT ![plan[j]] = Append(@, Launch(j))]
  /\ plan' = [plan EXCEPT ![j] = NoNode]
  /\ marked' = marked \ {j}
  /\ UNCHANGED <<store, gone, giving, requests, agents, wire, history, faults>>

-----------------------------------------------------------------------------
(* RunLoop up to the request *)

\* The owner's policy is evaluated, then the report is put together.
SendHeartbeat(n) ==
  /\ link[n] = "idle" /\ todo[n] = <<>>
  /\ \E m \in IF n \in OwnerNodes THEN Moods ELSE {"open"} :
       /\ mood' = [mood EXCEPT ![n] = m]
       /\ msg' = [msg EXCEPT ![n] =
            [NoMsg EXCEPT !.reports = done[n],
                          !.claimed = run[n] \cup JobsIn(done[n]),
                          !.drain = m # "open"]]
  /\ link' = [link EXCEPT ![n] = "sent"]
  /\ UNCHANGED <<store, memory, run, done, serial, todo, history, faults>>

-----------------------------------------------------------------------------
(* HandleHeartbeat *)

\* The owner's word on this machine, then UpsertNode.
Heard(r, drain) ==
  IF drain THEN [state |-> "DRAIN", why |-> "owner", silent |-> 0]
  ELSE IF r.state = "DRAIN" /\ r.why # "owner" THEN [r EXCEPT !.silent = 0]
  ELSE [state |-> "UP", why |-> "", silent |-> 0]

\* Mutant: the note is only cleared on a record that is no longer RUNNING.
SeenMutant(r, n) == IF r.state # "RUNNING" /\ r.node = n THEN [r EXCEPT !.why = ""] ELSE r

\* ClearUnreachable
Seen(r, n) == IF r.state = "RUNNING" /\ r.node = n /\ r.why = "unreachable"
              THEN [r EXCEPT !.why = ""] ELSE r

HeartbeatArrives(n) ==
  /\ link[n] = "sent"
  /\ link' = [link EXCEPT ![n] = "handling"]
  /\ reg' = [reg EXCEPT ![n] = Heard(@, msg[n].drain)]
  /\ job' = [j \in Jobs |-> Seen(job[j], n)]
  /\ UNCHANGED <<held, memory, agents, msg, history, faults>>

\* What the handler makes of a record: one that was written off because node n
\* was lost may be corrected by n, and by n only.
Got(r, n) == IF Terminal(r.state) /\ r.node = n /\ r.why = "lost"
             THEN "WRITTEN OFF" ELSE r.state

Settle(m, rep) == [m EXCEPT !.reports = @ \ {rep}, !.acked = @ \cup {rep.job}, !.got = ""]
Skip(m, rep) == [m EXCEPT !.reports = @ \ {rep}, !.got = ""]

\* Mutant: a record that is terminal already is not recognised.
ReadReportMutant(n) ==
  /\ link[n] = "handling" /\ msg[n].got = ""
  /\ \E rep \in Oldest(msg[n].reports) :
       msg' = [msg EXCEPT ![n].got = Got(job[rep.job], n)]
  /\ UNCHANGED <<store, memory, agents, link, history, faults>>

\* For one terminal report, the record is read: one that is terminal already
\* needs nothing but the acknowledgement.
ReadReport(n) ==
  /\ link[n] = "handling" /\ msg[n].got = ""
  /\ \E rep \in Oldest(msg[n].reports) :
       msg' = IF Terminal(Got(job[rep.job], n))
              THEN [msg EXCEPT ![n] = Settle(@, rep)]
              ELSE [msg EXCEPT ![n].got = Got(job[rep.job], n)]
  /\ UNCHANGED <<store, memory, agents, link, history, faults>>

\* ... and then written: refused work goes back to the queue, the rest ends.
WriteReport(n) ==
  /\ link[n] = "handling" /\ msg[n].got # ""
  /\ \E rep \in Oldest(msg[n].reports) :
       /\ job' = [job EXCEPT ![rep.job] = IF rep.refused /\ msg[n].got # "WRITTEN OFF"
                                         THEN RequeueJob(@) ELSE MarkFinished(@, rep.st)]
       /\ msg' = [msg EXCEPT ![n] = Settle(@, rep)]
  /\ UNCHANGED <<held, reg, memory, agents, link, history, faults>>

\* Mutant: the claims are not consulted.
UnclaimedMutant(n) == {j \in RunningOn(n) : job[j].old}
\* Mutant: the grace is compared the wrong way round.
UnclaimedEarlyMutant(n) == {j \in RunningOn(n) : j \notin msg[n].claimed /\ ~job[j].old}

\* Jobs recorded as running on n that n does not claim.
Unclaimed(n) == {j \in RunningOn(n) : j \notin msg[n].claimed /\ job[j].old}

\* reclaimUnclaimed, at most every reclaimInterval: it reads ...
FindUnclaimed(n) ==
  /\ link[n] = "handling" /\ msg[n].reports = {} /\ Unclaimed(n) # {}
  /\ msg' = [msg EXCEPT ![n].lost = Unclaimed(n)]
  /\ link' = [link EXCEPT ![n] = "reclaiming"]
  /\ UNCHANGED <<store, memory, agents, history, faults>>

\* ... and writes the jobs one by one.
Reclaim(n, j) ==
  /\ link[n] = "reclaiming" /\ j \in msg[n].lost
  /\ job' = [job EXCEPT ![j] = IF @.requeue THEN RequeueJob(@) ELSE MarkFinished(@, "FAILED")]
  /\ msg' = [msg EXCEPT ![n].lost = @ \ {j}]
  /\ UNCHANGED <<held, reg, memory, agents, link, history, faults>>

\* The response takes the node's queue with it.
Reply(n) ==
  /\ link[n] \in {"handling", "reclaiming"} /\ msg[n].reports = {} /\ msg[n].lost = {}
  /\ msg' = [msg EXCEPT ![n].actions = pending[n]]
  /\ pending' = [pending EXCEPT ![n] = <<>>]
  /\ link' = [link EXCEPT ![n] = "replied"]
  /\ UNCHANGED <<store, tick, requests, agents, history, faults>>

-----------------------------------------------------------------------------
(* RunLoop from the response on *)

Unacked(rs, acked) == {rep \in rs : rep.job \notin acked}

\* AckDone, then the actions one by one.
ReceiveReply(n) ==
  /\ link[n] = "replied"
  /\ done' = [done EXCEPT ![n] = Unacked(@, msg[n].acked)]
  /\ serial' = [serial EXCEPT ![n] = IF done'[n] = {} THEN 0 ELSE @]
  /\ todo' = [todo EXCEPT ![n] = msg[n].actions]
  /\ link' = [link EXCEPT ![n] = "idle"]
  /\ msg' = [msg EXCEPT ![n] = NoMsg]
  /\ UNCHANGED <<store, memory, run, mood, history, faults>>

NextIs(n, kind) == link[n] = "idle" /\ todo[n] # <<>> /\ Head(todo[n]).kind = kind

\* a.done = append(a.done, ...)
Tell(n, j, st, refused) ==
  /\ serial' = [serial EXCEPT ![n] = @ + 1]
  /\ done' = [done EXCEPT ![n] = @ \cup
       {[job |-> j, st |-> st, refused |-> refused, at |-> serial[n] + 1]}]

RefuseLaunch(n) ==
  /\ NextIs(n, "launch") /\ mood[n] = "closed"
  /\ Tell(n, Head(todo[n]).job, "FAILED", TRUE)
  /\ todo' = [todo EXCEPT ![n] = Tail(@)]
  /\ UNCHANGED <<store, memory, run, mood, wire, history, faults>>

\* A launch of a job that runs here already changes nothing.
StartJob(n) ==
  /\ NextIs(n, "launch") /\ mood[n] # "closed"
  /\ run' = [run EXCEPT ![n] = @ \cup {Head(todo[n]).job}]
  /\ todo' = [todo EXCEPT ![n] = Tail(@)]
  /\ UNCHANGED <<store, memory, done, serial, mood, wire, history, faults>>

\* Mutant: a failed launch is logged and not reported.
LaunchFailsMutant(n) ==
  /\ NextIs(n, "launch") /\ mood[n] # "closed" /\ Head(todo[n]).job \notin run[n]
  /\ todo' = [todo EXCEPT ![n] = Tail(@)]
  /\ UNCHANGED <<store, memory, run, done, serial, mood, wire, history, faults>>

LaunchFails(n) ==
  /\ NextIs(n, "launch") /\ mood[n] # "closed" /\ Head(todo[n]).job \notin run[n]
  /\ Tell(n, Head(todo[n]).job, "FAILED", FALSE)
  /\ todo' = [todo EXCEPT ![n] = Tail(@)]
  /\ UNCHANGED <<store, memory, run, mood, wire, history, faults>>

KillJob(n) ==
  /\ NextIs(n, "kill")
  /\ LET j == Head(todo[n]).job IN
       IF j \in run[n]
       THEN /\ run' = [run EXCEPT ![n] = @ \ {j}]
            /\ Tell(n, j, "CANCELLED", FALSE)
       ELSE UNCHANGED <<run, done, serial>>
  /\ todo' = [todo EXCEPT ![n] = Tail(@)]
  /\ UNCHANGED <<store, memory, mood, wire, history, faults>>

\* checkAll: the process ended, or the agent killed it at a limit.
JobEnds(n, j, st) ==
  /\ j \in run[n]
  /\ run' = [run EXCEPT ![n] = @ \ {j}]
  /\ Tell(n, j, st, FALSE)
  /\ UNCHANGED <<store, memory, todo, mood, wire, history, faults>>

-----------------------------------------------------------------------------
(* Time and faults *)

\* Nothing was heard from n for NodeTimeout, then for JobGrace.
FallSilent(n) ==
  /\ link[n] = "idle" /\ reg[n].silent < 2
  /\ reg' = [reg EXCEPT ![n].silent = @ + 1]
  /\ UNCHANGED <<job, held, memory, agents, wire, history, faults>>

\* A job was RUNNING for ClaimGrace.  NodeTimeout is as long, so a launch
\* still queued by then is queued for a node that was silent all along.
Age(j) ==
  /\ job[j].state = "RUNNING" /\ ~job[j].old /\ j \notin marked
  /\ \A n \in Nodes : job[j].node = n /\ j \in LaunchesIn(pending[n]) => reg[n].silent >= 1
  /\ job' = [job EXCEPT ![j].old = TRUE]
  /\ UNCHANGED <<held, reg, memory, agents, wire, history, faults>>

Fault == faults < MaxFaults /\ faults' = faults + 1

\* The store fails to read the record: the handler takes the job for unknown
\* and acknowledges the report it could not place.
ReadReportFails(n) ==
  /\ link[n] = "handling" /\ msg[n].got = "" /\ Fault
  /\ \E rep \in Oldest(msg[n].reports) :
       /\ msg' = [msg EXCEPT ![n] = Settle(@, rep)]
       /\ dropped' = dropped \cup ({rep.job} \cap RunningOn(n))
  /\ UNCHANGED <<store, memory, agents, link, attempt, asked>>

\* The store refuses the write: the report is not acknowledged.
WriteReportFails(n) ==
  /\ link[n] = "handling" /\ msg[n].got # "" /\ Fault
  /\ \E rep \in Oldest(msg[n].reports) : msg' = [msg EXCEPT ![n] = Skip(@, rep)]
  /\ UNCHANGED <<store, memory, agents, link, history>>

RequestLost(n) ==
  /\ link[n] = "sent" /\ Fault
  /\ link' = [link EXCEPT ![n] = "idle"]
  /\ msg' = [msg EXCEPT ![n] = NoMsg]
  /\ UNCHANGED <<store, memory, agents, history>>

\* The controller has handed out its actions and the agent never sees them.
ReplyLost(n) ==
  /\ link[n] = "replied" /\ Fault
  /\ link' = [link EXCEPT ![n] = "idle"]
  /\ msg' = [msg EXCEPT ![n] = NoMsg]
  /\ dropped' = dropped \cup (LaunchesIn(msg[n].actions) \cap RunningOn(n))
  /\ UNCHANGED <<store, memory, agents, attempt, asked>>

\* The signal could not be sent: the kill is logged and forgotten.
KillFails(n) ==
  /\ NextIs(n, "kill") /\ Head(todo[n]).job \in run[n] /\ Fault
  /\ todo' = [todo EXCEPT ![n] = Tail(@)]
  /\ UNCHANGED <<store, memory, run, done, serial, mood, wire, history>>

\* The agent, or its machine, restarts with no memory of its jobs.
AgentRestart(n) ==
  /\ link[n] = "idle" /\ Fault
  /\ run' = [run EXCEPT ![n] = {}]
  /\ done' = [done EXCEPT ![n] = {}]
  /\ serial' = [serial EXCEPT ![n] = 0]
  /\ todo' = [todo EXCEPT ![n] = <<>>]
  /\ dropped' = dropped \cup (RunningOn(n) \cap
                  (run[n] \cup JobsIn(done[n]) \cup LaunchesIn(todo[n])))
  /\ UNCHANGED <<store, memory, mood, wire, attempt, asked>>

\* The controller restarts: its memory goes, the exchanges in hand break off.
ControllerRestart ==
  /\ Fault
  /\ pending' = [n \in Nodes |-> <<>>]
  /\ plan' = [j \in Jobs |-> NoNode]
  /\ gone' = {} /\ giving' = {} /\ marked' = {} /\ cancelling' = {} /\ requeueing' = {}
  /\ link' = [n \in Nodes |-> IF link[n] = "replied" THEN "replied" ELSE "idle"]
  /\ msg' = [n \in Nodes |-> IF link[n] = "replied" THEN msg[n] ELSE NoMsg]
  /\ dropped' = dropped \cup {j \in Jobs :
        \E n \in Nodes : j \in RunningOn(n) /\ (j \in LaunchesIn(pending[n]) \cup marked)}
  /\ UNCHANGED <<store, agents, attempt, asked>>

-----------------------------------------------------------------------------

UserStep == \E j \in Jobs :
  \/ Submit(j) \/ CancelRead(j) \/ CancelWrite(j)
  \/ Hold(j) \/ Release(j) \/ RequeueRead(j) \/ RequeueWrite(j)

AdminStep == \E n \in Nodes : DrainNode(n) \/ ResumeNode(n)

RunStep ==
  \/ FindGone \/ FindAbandoned \/ SchedulePass
  \/ \E j \in Jobs : GiveUp(j) \/ ScheduleMark(j) \/ ScheduleEnqueue(j)
  \/ \E n \in Nodes : ExpireNode(n)

HeartbeatStep == \E n \in Nodes :
  \/ HeartbeatArrives(n) \/ ReadReport(n) \/ WriteReport(n)
  \/ FindUnclaimed(n) \/ Reply(n)
  \/ \E j \in Jobs : Reclaim(n, j)

AgentStep == \E n \in Nodes :
  \/ SendHeartbeat(n) \/ ReceiveReply(n)
  \/ RefuseLaunch(n) \/ StartJob(n) \/ LaunchFails(n) \/ KillJob(n)
  \/ \E j \in Jobs, st \in Outcomes : JobEnds(n, j, st)

TimeStep == (\E n \in Nodes : FallSilent(n)) \/ (\E j \in Jobs : Age(j))

FaultStep ==
  \/ ControllerRestart
  \/ \E n \in Nodes : \/ RequestLost(n) \/ ReadReportFails(n) \/ WriteReportFails(n)
                      \/ ReplyLost(n) \/ KillFails(n) \/ AgentRestart(n)

Next == UserStep \/ AdminStep \/ RunStep \/ HeartbeatStep \/ AgentStep \/ TimeStep \/ FaultStep

Spec == Init /\ [][Next]_vars

\* The goroutines and agents keep running; every exchange is carried to its
\* end, and a node either heartbeats or is noticed to be silent.  A process may
\* run for ever, and a node silent beyond JobGrace may never come back.  Strong
\* fairness where the code looks again and again: a reclaim is only skipped for
\* reclaimInterval, and every tick expires nodes and then gives up on jobs.
Fairness ==
  /\ SF_vars(FindGone) /\ SF_vars(FindAbandoned)
  /\ \A j \in Jobs :
       WF_vars(GiveUp(j) \/ ScheduleMark(j) \/ ScheduleEnqueue(j)) /\ WF_vars(Age(j))
  /\ \A n \in Nodes :
       /\ WF_vars(ExpireNode(n))
       /\ WF_vars(reg[n].silent < 2 /\ (SendHeartbeat(n) \/ FallSilent(n)))
       /\ WF_vars(\/ HeartbeatArrives(n) \/ ReadReport(n) \/ WriteReport(n)
                  \/ Reply(n) \/ \E j \in Jobs : Reclaim(n, j))
       /\ SF_vars(FindUnclaimed(n))
       /\ WF_vars(ReceiveReply(n) \/ StartJob(n) \/ RefuseLaunch(n) \/ KillJob(n))

FairSpec == Spec /\ Fairness

-----------------------------------------------------------------------------
(* Properties *)

\* No job vanishes.  A job recorded as RUNNING on a node is somewhere between
\* the scheduling pass, the node's queue, the response, the agent's actions, its
\* processes and its unacknowledged reports, unless a crash or a lost response
\* took its last trace (controller.go schedule and HandleHeartbeat, client.go
\* RunLoop).
Accounted ==
  \A j \in Jobs : job[j].state = "RUNNING" => \E n \in Nodes :
    /\ job[j].node = n
    /\ j \in dropped \cup marked \cup run[n] \cup JobsIn(done[n])
             \cup LaunchesIn(pending[n]) \cup LaunchesIn(msg[n].actions) \cup LaunchesIn(todo[n])

\* A job nobody allowed to be repeated is placed once, whatever is lost or
\* restarted, and so never runs on two machines (job.go Requeue: "cannot be
\* safely restarted").  Machines with an owner policy can refuse a launch and
\* are the subject of OneMachine.
AtMostOnce ==
  OwnerNodes = {} => \A j \in Jobs \ UserJobs : ~job[j].requeue =>
    /\ attempt[j] <= 1
    /\ \A m, n \in Nodes : j \in run[m] /\ j \in run[n] => m = n

\* The same promise on machines whose owner may refuse work: job.go lets a job
\* run again only if its user passed --requeue.
OneMachine ==
  \A j \in Jobs \ UserJobs : ~job[j].requeue =>
    \A m, n \in Nodes : j \in run[m] /\ j \in run[n] => m = n

\* A job being reclaimed is not one its node still has, running or with a result
\* to report (reclaimUnclaimed: "A node that still has the job says so, and keeps
\* it").
ReclaimSparesLive ==
  \A n \in Nodes : msg[n].lost \cap (run[n] \cup JobsIn(done[n])) = {}

\* Some goroutine has read the record of j and is about to write it.
InHand(j) ==
  \/ plan[j] # NoNode
  \/ j \in cancelling \cup giving
  \/ \E n \in Nodes : \/ j \in msg[n].lost
                      \/ /\ msg[n].got \in {"PENDING", "RUNNING"}
                         /\ j \in JobsIn(Oldest(msg[n].reports))

\* A job that has ended is left alone: no goroutine picks its record up, and it
\* changes only through what was decided before the job ended, or when its user
\* requeues it, or when the node it was written off on reports what really
\* happened (HandleHeartbeat: "already recorded"; "is authoritative about its
\* outcome").
ResultStands == [][
  \A j \in Jobs : Terminal(job[j].state) =>
    /\ InHand(j)' => InHand(j)
    /\ job'[j].state # job[j].state =>
         \/ InHand(j) \/ j \in requeueing
         \/ \E n \in Nodes : /\ msg[n].got = "WRITTEN OFF"
                             /\ \E rep \in Oldest(msg[n].reports) \cap done[n] :
                                  rep.job = j /\ rep.st = job'[j].state ]_vars

\* squeue's "node unreachable" note stands only while the node is silent or still
\* counted as DOWN; a heartbeat takes it away.  An admin's resume or drain
\* changes the node's state on its own (MarkJobsUnreachable, ClearUnreachable).
NoteIsHonest ==
  \A j \in Jobs : job[j].state = "RUNNING" /\ job[j].why = "unreachable" =>
    \A n \in Nodes \ AdminNodes :
      job[j].node = n => reg[n].silent >= 1 \/ reg[n].state = "DOWN"

\* A job being reclaimed has no launch in the queue that the very same response
\* hands out (HandleHeartbeat: what the node "does not claim, has ceased to
\* exist").
LaunchedJobsStand ==
  \A n \in Nodes : msg[n].lost \cap LaunchesIn(pending[n]) = {}

\* A job its user never cancelled is never CANCELLED: a requeue puts it back in
\* the queue (controller.go Requeue).
CancelledOnlyByUser ==
  \A j \in Jobs : job[j].state = "CANCELLED" => j \in asked

\* Cancel stops a job wherever it is: a process of a cancelled job has its kill
\* on the way.
CancelReaches ==
  \A j \in Jobs, n \in Nodes : job[j].state = "CANCELLED" /\ j \in run[n] =>
    j \in KillsIn(pending[n]) \cup KillsIn(msg[n].actions) \cup KillsIn(todo[n])

\* A job recorded as RUNNING without a process there gets its process or leaves
\* RUNNING: nothing stays in the queue display for ever because of a lost
\* launch, a lost report or a machine that died.
RecordConverges ==
  \A j \in Jobs :
    (job[j].state = "RUNNING" /\ ~ \E n \in Nodes : job[j].node = n /\ j \in run[n])
      ~> (job[j].state # "RUNNING" \/ \E n \in Nodes : job[j].node = n /\ j \in run[n])

=============================================================================
