-------------------------- MODULE JobControlProofs --------------------------
(***************************************************************************)
(* Proofs about JobControl, for every set of jobs and nodes, every choice  *)
(* of users, admins and owners, and every bound: types; that a job is not  *)
(* placed twice; that no job recorded as RUNNING vanishes without a crash  *)
(* or a lost response; that the heartbeat handler reclaims no job that is  *)
(* alive and notes of a machine what is so; and that the record of a job   *)
(* that has ended is left alone.                                           *)
(***************************************************************************)
EXTENDS JobControl, TLAPS

-----------------------------------------------------------------------------
(* Type correctness *)

LEMMA StoreTypes ==
  \* The store's statements on a job record keep its type.
  ASSUME NEW r \in JobRec
  PROVE  /\ \A n \in Nodes : MarkRunning(r, n) \in JobRec
         /\ \A st \in States : MarkFinished(r, st) \in JobRec
         /\ RequeueJob(r) \in JobRec
         /\ WriteOff(r) \in JobRec
         /\ \A n \in Nodes : Seen(r, n) \in JobRec
<1>1. \A n \in Nodes : MarkRunning(r, n) \in JobRec
  BY DEF MarkRunning, JobRec, States
<1>2. \A st \in States : MarkFinished(r, st) \in JobRec
  BY DEF MarkFinished, JobRec
<1>3. RequeueJob(r) \in JobRec /\ WriteOff(r) \in JobRec
  BY DEF RequeueJob, WriteOff, JobRec, States
<1>4. \A n \in Nodes : Seen(r, n) \in JobRec
  BY DEF Seen, JobRec
<1> QED  BY <1>1, <1>2, <1>3, <1>4

LEMMA QueueTypes ==
  \* Queues of actions stay queues of actions.
  ASSUME NEW q \in Seq(Action)
  PROVE  /\ <<>> \in Seq(Action)
         /\ \A j \in Jobs : Append(q, Launch(j)) \in Seq(Action)
         /\ \A j \in Jobs : Append(q, Kill(j)) \in Seq(Action)
         /\ q # <<>> => Head(q) \in Action /\ Tail(q) \in Seq(Action)
<1>1. \A j \in Jobs : Launch(j) \in Action /\ Kill(j) \in Action
  BY DEF Launch, Kill, Action
<1> QED  BY <1>1

LEMMA NoMsgType == NoMsg \in Msg
BY QueueTypes DEF NoMsg, Msg

LEMMA NodeTypes ==
  \* Every value a registry row is given.
  ASSUME NEW r \in NodeRec
  PROVE  /\ \A drain \in BOOLEAN : Heard(r, drain) \in NodeRec
         /\ \A why \in {"", "owner", "admin", "missed"}, st \in {"UP", "DOWN", "DRAIN"} :
              [r EXCEPT !.state = st, !.why = why] \in NodeRec
         /\ r.silent < 2 => [r EXCEPT !.silent = @ + 1] \in NodeRec
<1>1. r.silent \in 0..2
  BY DEF NodeRec
<1>2. 0 \in 0..2 /\ (r.silent < 2 => r.silent + 1 \in 0..2)
  BY <1>1
<1> QED  BY <1>1, <1>2 DEF Heard, NodeRec

LEMMA TypeInit == Init => TypeOK
<1> SUFFICES ASSUME Init PROVE TypeOK
  OBVIOUS
<1>1. job \in [Jobs -> JobRec] /\ reg \in [Nodes -> NodeRec]
  <2>1. [state |-> "NONE", node |-> NoNode, why |-> "", old |-> FALSE, requeue |-> FALSE]
          \in JobRec
    BY DEF JobRec, States
  <2>2. [state |-> "UP", why |-> "", silent |-> 0] \in NodeRec
    BY DEF NodeRec
  <2> QED  BY <2>1, <2>2 DEF Init
<1>2. /\ pending \in [Nodes -> Seq(Action)] /\ todo \in [Nodes -> Seq(Action)]
      /\ msg \in [Nodes -> Msg]
  <2>1. <<>> \in Seq(Action)
    OBVIOUS
  <2> QED  BY <2>1, NoMsgType DEF Init
<1> QED  BY <1>1, <1>2 DEF Init, TypeOK, Moods

LEMMA TypeUser == ASSUME TypeOK, UserStep PROVE TypeOK'
<1> USE DEF TypeOK, store, tick, requests, memory, agents, wire, history
<1>1. PICK j \in Jobs : \/ Submit(j) \/ CancelRead(j) \/ CancelWrite(j)
                        \/ Hold(j) \/ Release(j) \/ RequeueRead(j) \/ RequeueWrite(j)
  BY Zenon DEF UserStep
<1>2. CASE Submit(j)
  <2>1. PICK again \in BOOLEAN :
          job' = [job EXCEPT ![j].state = "PENDING", ![j].requeue = again]
    BY <1>2 DEF Submit
  <2>2. [job[j] EXCEPT !.state = "PENDING", !.requeue = again] \in JobRec
    <3>1. job[j] \in JobRec
      OBVIOUS
    <3> QED  BY <3>1 DEF JobRec, States
  <2>3. job' = [job EXCEPT ![j] = [job[j] EXCEPT !.state = "PENDING", !.requeue = again]]
    BY <2>1
  <2> QED  BY <1>2, <2>2, <2>3 DEF Submit
<1>3. CASE CancelRead(j)
  <2>1. \A n \in Nodes : Append(pending[n], Kill(j)) \in Seq(Action)
    BY QueueTypes
  <2>2. pending' \in [Nodes -> Seq(Action)]
    BY <1>3, <2>1 DEF CancelRead
  <2> QED  BY <1>3, <2>2 DEF CancelRead
<1>4. CASE CancelWrite(j)
  <2>1. MarkFinished(job[j], "CANCELLED") \in JobRec
    BY StoreTypes DEF States
  <2> QED  BY <1>4, <2>1 DEF CancelWrite
<1>5. CASE Hold(j)
  BY <1>5 DEF Hold
<1>6. CASE Release(j)
  BY <1>6 DEF Release
<1>7. CASE RequeueRead(j)
  <2>1. \A n \in Nodes : Append(pending[n], Kill(j)) \in Seq(Action)
    BY QueueTypes
  <2>2. pending' \in [Nodes -> Seq(Action)]
    BY <1>7, <2>1 DEF RequeueRead
  <2> QED  BY <1>7, <2>2 DEF RequeueRead
<1>8. CASE RequeueWrite(j)
  <2>1. RequeueJob(job[j]) \in JobRec
    BY StoreTypes
  <2> QED  BY <1>8, <2>1 DEF RequeueWrite
<1> QED  BY <1>1, <1>2, <1>3, <1>4, <1>5, <1>6, <1>7, <1>8

LEMMA TypeAdmin == ASSUME TypeOK, AdminStep PROVE TypeOK'
<1>1. PICK n \in Nodes : DrainNode(n) \/ ResumeNode(n)
  BY DEF AdminStep
<1>2. reg[n] \in NodeRec
  BY DEF TypeOK
<1>3. reg' \in [Nodes -> NodeRec]
  <2>1. CASE DrainNode(n)
    <3>1. reg' = [reg EXCEPT ![n] = [reg[n] EXCEPT !.state = "DRAIN", !.why = "admin"]]
      BY <2>1 DEF DrainNode
    <3>2. [reg[n] EXCEPT !.state = "DRAIN", !.why = "admin"] \in NodeRec
      BY <1>2, NodeTypes
    <3> QED  BY <3>1, <3>2 DEF TypeOK
  <2>2. CASE ResumeNode(n)
    <3>1. reg' = [reg EXCEPT ![n] = [reg[n] EXCEPT !.state = "UP", !.why = ""]]
      BY <2>2, ZenonT(60) DEF ResumeNode
    <3>2. [reg[n] EXCEPT !.state = "UP", !.why = ""] \in NodeRec
      BY <1>2, NodeTypes
    <3> QED  BY <3>1, <3>2 DEF TypeOK
  <2> QED  BY <1>1, <2>1, <2>2
<1> QED  BY <1>1, <1>3 DEF DrainNode, ResumeNode, TypeOK, store, tick, requests, memory, agents, wire, history

LEMMA TypeRun == ASSUME TypeOK, RunStep PROVE TypeOK'
<1> USE DEF TypeOK, store, tick, requests, memory, agents, wire, history
<1>1. CASE SchedulePass
  <2>1. PICK js \in SUBSET {j \in Queue : attempt[j] < MaxAttempts} \ {{}} :
           \E p \in [js -> Candidates] :
             plan' = [j \in Jobs |-> IF j \in js THEN p[j] ELSE NoNode]
    BY <1>1 DEF SchedulePass
  <2>2. plan' \in [Jobs -> Nodes \cup {NoNode}]
    BY <2>1 DEF Candidates
  <2> QED  BY <1>1, <2>2 DEF SchedulePass
<1>2. ASSUME NEW j \in Jobs, GiveUp(j) PROVE TypeOK'
  <2>1. RequeueJob(job[j]) \in JobRec /\ WriteOff(job[j]) \in JobRec
    BY StoreTypes
  <2> QED  BY <1>2, <2>1 DEF GiveUp
<1>3. ASSUME NEW j \in Jobs, ScheduleMark(j) PROVE TypeOK'
  <2>1. MarkRunning(job[j], plan[j]) \in JobRec
    BY <1>3, StoreTypes DEF ScheduleMark
  <2> QED  BY <1>3, <2>1 DEF ScheduleMark
<1>4. ASSUME NEW j \in Jobs, ScheduleEnqueue(j) PROVE TypeOK'
  <2>1. Append(pending[plan[j]], Launch(j)) \in Seq(Action)
    BY <1>4, QueueTypes DEF ScheduleEnqueue
  <2> QED  BY <1>4, <2>1 DEF ScheduleEnqueue
<1>5. ASSUME NEW n \in Nodes, ExpireNode(n) PROVE TypeOK'
  <2>1. job' \in [Jobs -> JobRec]
    <3>1. \A j \in Jobs : job[j] \in JobRec /\ [job[j] EXCEPT !.why = "unreachable"] \in JobRec
      BY ZenonT(60) DEF JobRec
    <3>2. job' = [j \in Jobs |-> IF j \in RunningOn(n) THEN [job[j] EXCEPT !.why = "unreachable"] ELSE job[j]]
      BY <1>5 DEF ExpireNode
    <3> QED  BY <3>1, <3>2
  <2>2. reg' \in [Nodes -> NodeRec]
    BY <1>5, ZenonT(60) DEF ExpireNode, NodeRec
  <2>3. pending' \in [Nodes -> Seq(Action)]
    BY <1>5, QueueTypes DEF ExpireNode
  <2>4. dropped' \in SUBSET Jobs
    BY <1>5 DEF ExpireNode, RunningOn
  <2> QED  BY <1>5, <2>1, <2>2, <2>3, <2>4 DEF ExpireNode
<1>6. ASSUME FindGone \/ FindAbandoned PROVE TypeOK'
  BY <1>6 DEF FindGone, FindAbandoned
<1> QED  BY <1>1, <1>2, <1>3, <1>4, <1>5, <1>6, Zenon DEF RunStep

LEMMA MsgTypes ==
  \* What the handler does to the exchange keeps its type.
  ASSUME NEW m \in Msg, NEW rep \in Report
  PROVE  /\ Settle(m, rep) \in Msg /\ Skip(m, rep) \in Msg
         /\ \A g \in States \cup {"", "WRITTEN OFF"} : [m EXCEPT !.got = g] \in Msg
         /\ \A js \in SUBSET Jobs : [m EXCEPT !.lost = js] \in Msg
         /\ \A q \in Seq(Action) : [m EXCEPT !.actions = q] \in Msg
<1>1. rep.job \in Jobs
  BY DEF Report
<1>2. \A q \in Seq(Action) : [m EXCEPT !.actions = q] \in Msg
  BY DEF Msg
<1> QED  BY <1>1, <1>2 DEF Settle, Skip, Msg

LEMMA TypeHeartbeat == ASSUME TypeOK, HeartbeatStep PROVE TypeOK'
<1> USE DEF TypeOK, store, tick, requests, memory, agents, wire, history
<1>1. ASSUME NEW n \in Nodes, HeartbeatArrives(n) PROVE TypeOK'
  <2>1. job' \in [Jobs -> JobRec]
    BY <1>1, StoreTypes DEF HeartbeatArrives
  <2>2. Heard(reg[n], msg[n].drain) \in NodeRec
    <3>1. reg[n] \in NodeRec /\ msg[n].drain \in BOOLEAN
      BY DEF Msg
    <3> QED  BY <3>1, NodeTypes
  <2> QED  BY <1>1, <2>1, <2>2 DEF HeartbeatArrives
<1>0. ASSUME NEW n \in Nodes, NEW rep \in Oldest(msg[n].reports)
      PROVE  rep \in Report /\ rep.job \in Jobs /\ msg[n] \in Msg
  <2>1. msg[n] \in Msg /\ rep \in msg[n].reports
    BY <1>0 DEF Oldest
  <2> QED  BY <2>1 DEF Msg, Report
<1>2. ASSUME NEW n \in Nodes, ReadReport(n) PROVE TypeOK'
  <2>1. PICK rep \in Oldest(msg[n].reports) :
          msg' = IF Terminal(Got(job[rep.job], n))
                 THEN [msg EXCEPT ![n] = Settle(@, rep)]
                 ELSE [msg EXCEPT ![n] = [msg[n] EXCEPT !.got = Got(job[rep.job], n)]]
    BY <1>2 DEF ReadReport
  <2>2. Got(job[rep.job], n) \in States \cup {"", "WRITTEN OFF"}
    BY <1>0 DEF Got, JobRec
  <2>3. msg' \in [Nodes -> Msg]
    BY <1>0, <2>1, <2>2, MsgTypes
  <2> QED  BY <1>2, <2>3 DEF ReadReport
<1>3. ASSUME NEW n \in Nodes, WriteReport(n) PROVE TypeOK'
  <2>1. PICK rep \in Oldest(msg[n].reports) :
          /\ job' = [job EXCEPT ![rep.job] = IF rep.refused /\ msg[n].got # "WRITTEN OFF"
                                            THEN RequeueJob(@) ELSE MarkFinished(@, rep.st)]
          /\ msg' = [msg EXCEPT ![n] = Settle(@, rep)]
    BY <1>3 DEF WriteReport
  <2>2. rep.st \in States /\ job[rep.job] \in JobRec
    BY <1>0 DEF Report
  <2>3. job' \in [Jobs -> JobRec]
    BY <1>0, <2>1, <2>2, StoreTypes
  <2>4. msg' \in [Nodes -> Msg]
    BY <1>0, <2>1, MsgTypes
  <2> QED  BY <1>3, <2>3, <2>4 DEF WriteReport
<1>4. ASSUME NEW n \in Nodes, FindUnclaimed(n) PROVE TypeOK'
  <2>1. msg' = [msg EXCEPT ![n] = [msg[n] EXCEPT !.lost = Unclaimed(n)]]
    BY <1>4 DEF FindUnclaimed
  <2>2. [msg[n] EXCEPT !.lost = Unclaimed(n)] \in Msg
    BY ZenonT(60) DEF Msg, Unclaimed, RunningOn
  <2> QED  BY <1>4, <2>1, <2>2 DEF FindUnclaimed
<1>5. ASSUME NEW n \in Nodes, NEW j \in Jobs, Reclaim(n, j) PROVE TypeOK'
  <2>1. job' \in [Jobs -> JobRec]
    BY <1>5, StoreTypes DEF Reclaim, States
  <2>2. msg' = [msg EXCEPT ![n] = [msg[n] EXCEPT !.lost = @ \ {j}]]
    BY <1>5 DEF Reclaim
  <2>3. [msg[n] EXCEPT !.lost = @ \ {j}] \in Msg
    BY ZenonT(60) DEF Msg
  <2> QED  BY <1>5, <2>1, <2>2, <2>3 DEF Reclaim
<1>6. ASSUME NEW n \in Nodes, Reply(n) PROVE TypeOK'
  <2>1. msg' \in [Nodes -> Msg]
    <3>1. msg[n] \in Msg /\ pending[n] \in Seq(Action)
      OBVIOUS
    <3>2. [msg[n] EXCEPT !.actions = pending[n]] \in Msg
      BY <3>1 DEF Msg
    <3>3. msg' = [msg EXCEPT ![n] = [msg[n] EXCEPT !.actions = pending[n]]]
      BY <1>6 DEF Reply
    <3> QED  BY <3>2, <3>3
  <2>2. pending' \in [Nodes -> Seq(Action)]
    BY <1>6, QueueTypes DEF Reply
  <2> QED  BY <1>6, <2>1, <2>2 DEF Reply
<1> QED  BY <1>1, <1>2, <1>3, <1>4, <1>5, <1>6, Zenon DEF HeartbeatStep

LEMMA TellTypes ==
  \* A new report keeps the agent's list typed.
  ASSUME TypeOK, NEW n \in Nodes, NEW j \in Jobs, NEW st \in States,
         NEW refused \in BOOLEAN, Tell(n, j, st, refused)
  PROVE  done' \in [Nodes -> SUBSET Report] /\ serial' \in [Nodes -> Nat]
BY DEF Tell, TypeOK, Report

LEMMA TypeAgent == ASSUME TypeOK, AgentStep PROVE TypeOK'
<1> USE DEF TypeOK, store, tick, requests, memory, agents, wire, history
<1>0. ASSUME NEW n \in Nodes, todo[n] # <<>>
      PROVE  Head(todo[n]) \in Action /\ Head(todo[n]).job \in Jobs /\ Tail(todo[n]) \in Seq(Action)
  BY <1>0, QueueTypes DEF Action
<1>1. ASSUME NEW n \in Nodes, SendHeartbeat(n) PROVE TypeOK'
  <2>1. PICK m \in Moods :
          /\ mood' = [mood EXCEPT ![n] = m]
          /\ msg' = [msg EXCEPT ![n] =
               [NoMsg EXCEPT !.reports = done[n],
                             !.claimed = run[n] \cup JobsIn(done[n]),
                             !.drain = m # "open"]]
    BY <1>1 DEF SendHeartbeat, Moods
  <2>2. JobsIn(done[n]) \subseteq Jobs
    BY DEF JobsIn, Report
  <2>3. msg' \in [Nodes -> Msg]
    BY <2>1, <2>2, QueueTypes DEF Msg, NoMsg
  <2> QED  BY <1>1, <2>1, <2>3 DEF SendHeartbeat
<1>2. ASSUME NEW n \in Nodes, ReceiveReply(n) PROVE TypeOK'
  <2>1. Unacked(done[n], msg[n].acked) \in SUBSET Report
    BY DEF Unacked
  <2>2. done' \in [Nodes -> SUBSET Report] /\ serial' \in [Nodes -> Nat]
    BY <1>2, <2>1 DEF ReceiveReply
  <2>3. msg' \in [Nodes -> Msg]
    BY <1>2, QueueTypes DEF ReceiveReply, Msg, NoMsg
  <2>4. todo' \in [Nodes -> Seq(Action)]
    BY <1>2 DEF ReceiveReply, Msg
  <2> QED  BY <1>2, <2>2, <2>3, <2>4 DEF ReceiveReply
<1>3. ASSUME NEW n \in Nodes, RefuseLaunch(n) PROVE TypeOK'
  BY <1>0, <1>3, TellTypes DEF RefuseLaunch, NextIs, States
<1>4. ASSUME NEW n \in Nodes, StartJob(n) PROVE TypeOK'
  BY <1>0, <1>4 DEF StartJob, NextIs
<1>5. ASSUME NEW n \in Nodes, LaunchFails(n) PROVE TypeOK'
  BY <1>0, <1>5, TellTypes DEF LaunchFails, NextIs, States
<1>6. ASSUME NEW n \in Nodes, KillJob(n) PROVE TypeOK'
  <2>1. Head(todo[n]).job \in Jobs /\ Tail(todo[n]) \in Seq(Action)
    BY <1>0, <1>6 DEF KillJob, NextIs
  <2>2. /\ done' \in [Nodes -> SUBSET Report] /\ serial' \in [Nodes -> Nat]
        /\ run' \in [Nodes -> SUBSET Jobs]
    <3>1. CASE Head(todo[n]).job \in run[n]
      <4>1. Tell(n, Head(todo[n]).job, "CANCELLED", FALSE)
        BY <1>6, <3>1, Zenon DEF KillJob
      <4>2. run' = [run EXCEPT ![n] = @ \ {Head(todo[n]).job}]
        BY <1>6, <3>1, Zenon DEF KillJob
      <4>3. "CANCELLED" \in States
        BY DEF States
      <4> QED  BY <2>1, <4>1, <4>2, <4>3, TellTypes
    <3>2. CASE Head(todo[n]).job \notin run[n]
      BY <1>6, <3>2 DEF KillJob
    <3> QED  BY <3>1, <3>2
  <2> QED  BY <1>6, <2>1, <2>2 DEF KillJob
<1>7. ASSUME NEW n \in Nodes, NEW j \in Jobs, NEW st \in Outcomes, JobEnds(n, j, st)
      PROVE  TypeOK'
  <2>1. st \in States
    BY JobControlAssumption DEF States
  <2>2. Tell(n, j, st, FALSE)
    BY <1>7 DEF JobEnds
  <2>3. done' \in [Nodes -> SUBSET Report] /\ serial' \in [Nodes -> Nat]
    BY <2>1, <2>2, TellTypes
  <2> QED  BY <1>7, <2>3 DEF JobEnds
<1> QED  BY <1>1, <1>2, <1>3, <1>4, <1>5, <1>6, <1>7, Zenon DEF AgentStep

LEMMA TypeTime == ASSUME TypeOK, TimeStep PROVE TypeOK'
<1> USE DEF TypeOK, store, tick, requests, memory, agents, wire, history
<1>1. ASSUME NEW n \in Nodes, FallSilent(n) PROVE TypeOK'
  <2>1. [reg[n] EXCEPT !.silent = @ + 1] \in NodeRec
    BY <1>1, NodeTypes DEF FallSilent
  <2>2. reg' = [reg EXCEPT ![n] = [reg[n] EXCEPT !.silent = @ + 1]]
    BY <1>1 DEF FallSilent
  <2> QED  BY <1>1, <2>1, <2>2, SMTT(60) DEF FallSilent
<1>2. ASSUME NEW j \in Jobs, Age(j) PROVE TypeOK'
  BY <1>2, ZenonT(60) DEF Age, JobRec
<1> QED  BY <1>1, <1>2, Zenon DEF TimeStep

LEMMA TypeFault == ASSUME TypeOK, FaultStep PROVE TypeOK'
<1> USE DEF TypeOK, store, tick, requests, memory, agents, wire, history
<1>0. NoMsg \in Msg
  BY NoMsgType
<1>1. ASSUME ControllerRestart PROVE TypeOK'
  <2>1. pending' \in [Nodes -> Seq(Action)]
    BY <1>1, QueueTypes DEF ControllerRestart
  <2>2. msg' \in [Nodes -> Msg] /\ link' \in [Nodes -> {"idle", "sent", "handling", "reclaiming", "replied"}]
    BY <1>0, <1>1 DEF ControllerRestart
  <2> QED  BY <1>1, <2>1, <2>2 DEF ControllerRestart, Fault
<1>2. ASSUME NEW n \in Nodes, RequestLost(n) PROVE TypeOK'
  BY <1>0, <1>2 DEF RequestLost, Fault
<1>3. ASSUME NEW n \in Nodes, ReplyLost(n) PROVE TypeOK'
  BY <1>0, <1>3 DEF ReplyLost, Fault, RunningOn
<1>4. ASSUME NEW n \in Nodes, AgentRestart(n) PROVE TypeOK'
  BY <1>4, QueueTypes DEF AgentRestart, Fault, RunningOn
<1>5. ASSUME NEW n \in Nodes, KillFails(n) PROVE TypeOK'
  <2>1. Tail(todo[n]) \in Seq(Action)
    BY <1>5, QueueTypes DEF KillFails, NextIs
  <2> QED  BY <1>5, <2>1 DEF KillFails, Fault
<1>6. ASSUME NEW n \in Nodes, ReadReportFails(n) \/ WriteReportFails(n) PROVE TypeOK'
  <2>1. PICK rep \in Oldest(msg[n].reports) :
          \/ msg' = [msg EXCEPT ![n] = Settle(@, rep)]
          \/ msg' = [msg EXCEPT ![n] = Skip(@, rep)]
    BY <1>6 DEF ReadReportFails, WriteReportFails
  <2>2. msg[n] \in Msg /\ rep \in Report
    <3>1. msg[n] \in Msg /\ rep \in msg[n].reports
      BY DEF Oldest
    <3> QED  BY <3>1 DEF Msg
  <2>3. msg' \in [Nodes -> Msg]
    <3>1. Settle(msg[n], rep) \in Msg /\ Skip(msg[n], rep) \in Msg
      BY <2>2, MsgTypes
    <3>2. PICK m \in Msg : msg' = [msg EXCEPT ![n] = m]
      BY <2>1, <3>1
    <3> QED  BY <3>2
  <2>4. dropped' \in SUBSET Jobs
    <3>1. RunningOn(n) \subseteq Jobs
      BY DEF RunningOn
    <3>2. dropped' \subseteq dropped \cup RunningOn(n)
      BY <1>6 DEF ReadReportFails, WriteReportFails
    <3> QED  BY <3>1, <3>2
  <2>5. faults' \in Nat
    <3>1. faults' = faults + 1
      BY <1>6 DEF ReadReportFails, WriteReportFails, Fault
    <3> QED  BY <3>1
  <2> QED  BY <1>6, <2>3, <2>4, <2>5 DEF ReadReportFails, WriteReportFails
<1> QED  BY <1>1, <1>2, <1>3, <1>4, <1>5, <1>6, Zenon DEF FaultStep

LEMMA TypeStep == TypeOK /\ [Next]_vars => TypeOK'
<1>1. TypeOK /\ UNCHANGED vars => TypeOK'
  BY DEF TypeOK, vars, store, tick, requests, memory, agents, wire, history
<1>2. TypeOK /\ Next => TypeOK'
  BY TypeUser, TypeAdmin, TypeRun, TypeHeartbeat, TypeAgent, TypeTime, TypeFault, Zenon DEF Next
<1> QED  BY <1>1, <1>2

\* Every reachable state of the controller, its agents and the exchanges between
\* them has the types TypeOK names.
THEOREM TypeCorrect == Spec => []TypeOK
BY TypeInit, TypeStep, PTL DEF Spec

-----------------------------------------------------------------------------
(* A job nobody allowed to be repeated is placed once *)

\* The jobs this is about: no user requeue, no --requeue at submission.
Protected(j) == j \notin UserJobs /\ ~job[j].requeue

\* The jobs node n runs or is about to be told to run.
Handed(n) == run[n] \cup LaunchesIn(pending[n]) \cup LaunchesIn(msg[n].actions)
               \cup LaunchesIn(todo[n])

\* No owner refuses work, and what agents report is an ending.
NoRefusals ==
  \A n \in Nodes :
    /\ mood[n] = "open"
    /\ \A rep \in done[n] \cup msg[n].reports : Terminal(rep.st) /\ ~rep.refused

\* --requeue is chosen at submission, not before.
FlagUnset == \A j \in Jobs : job[j].state = "NONE" => ~job[j].requeue

\* Where a protected job stands: planned and never placed, or placed once, in
\* which case it is out of the queue for good and its launch and its process are
\* found nowhere but on the recorded node.
Placed(j) ==
  /\ attempt[j] <= 1
  /\ attempt[j] = 1 => job[j].state \notin {"NONE", "PENDING"}
  /\ plan[j] # NoNode /\ j \notin marked => attempt[j] = 0
  /\ j \in marked => attempt[j] = 1 /\ plan[j] = job[j].node
  /\ \A n \in Nodes : j \in Handed(n) => attempt[j] = 1 /\ job[j].node = n

PlacedInv ==
  /\ NoRefusals
  /\ FlagUnset
  /\ \A j \in Jobs : Protected(j) => Placed(j)

\* A step of no consequence to the placement of job j.
Kept(j) ==
  /\ job'[j].requeue = job[j].requeue
  /\ job'[j].state = "NONE" => job[j].state = "NONE"
  /\ Protected(j) =>
       /\ attempt'[j] = attempt[j]
       /\ job'[j].node = job[j].node
       /\ job'[j].state = job[j].state \/ job'[j].state \notin {"NONE", "PENDING"}
       /\ \/ plan'[j] = NoNode /\ j \notin marked'
          \/ plan'[j] = plan[j] /\ (j \in marked' <=> j \in marked)
       /\ \A n \in Nodes : j \in Handed(n)' => j \in Handed(n)

LEMMA Launches ==
  \* What the operations on queues do to the launches in them.
  ASSUME NEW q \in Seq(Action)
  PROVE  /\ LaunchesIn(<<>>) = {}
         /\ \A j \in Jobs : LaunchesIn(Append(q, Kill(j))) = LaunchesIn(q)
         /\ \A j \in Jobs : LaunchesIn(Append(q, Launch(j))) = LaunchesIn(q) \cup {j}
         /\ q # <<>> => LaunchesIn(Tail(q)) \subseteq LaunchesIn(q)
         /\ q # <<>> /\ Head(q).kind = "launch" => Head(q).job \in LaunchesIn(q)
<1>1. LaunchesIn(<<>>) = {}
  BY DEF LaunchesIn
<1>2. ASSUME NEW j \in Jobs PROVE LaunchesIn(Append(q, Kill(j))) = LaunchesIn(q)
  BY DEF LaunchesIn, Launch, Kill
<1>3. ASSUME NEW j \in Jobs PROVE LaunchesIn(Append(q, Launch(j))) = LaunchesIn(q) \cup {j}
  <2> DEFINE a == Append(q, Launch(j))
  <2>1. /\ DOMAIN a = 1..Len(q) + 1 /\ DOMAIN q = 1..Len(q)
        /\ a[Len(q) + 1] = Launch(j) /\ \A i \in 1..Len(q) : a[i] = q[i]
    OBVIOUS
  <2>2. j \in LaunchesIn(a)
    BY <2>1 DEF LaunchesIn
  <2>3. ASSUME NEW k \in LaunchesIn(q) PROVE k \in LaunchesIn(a)
    <3>1. PICK i \in 1..Len(q) : q[i] = Launch(k)
      BY <2>1 DEF LaunchesIn
    <3> QED  BY <2>1, <3>1 DEF LaunchesIn
  <2>4. ASSUME NEW k \in LaunchesIn(a) PROVE k \in LaunchesIn(q) \cup {j}
    <3>1. PICK i \in 1..Len(q) + 1 : a[i] = Launch(k)
      BY <2>1 DEF LaunchesIn
    <3>2. CASE i = Len(q) + 1
      BY <2>1, <3>1, <3>2 DEF Launch
    <3>3. CASE i \in 1..Len(q)
      BY <2>1, <3>1, <3>3 DEF LaunchesIn
    <3> QED  BY <3>2, <3>3
  <2> QED  BY <2>2, <2>3, <2>4
<1>4. q # <<>> => LaunchesIn(Tail(q)) \subseteq LaunchesIn(q)
  BY DEF LaunchesIn
<1>5. ASSUME q # <<>>, Head(q).kind = "launch" PROVE Head(q).job \in LaunchesIn(q)
  <2>1. Head(q) \in Action /\ Head(q) = q[1] /\ 1 \in DOMAIN q
    BY <1>5
  <2>2. Head(q) = Launch(Head(q).job) /\ Head(q).job \in Jobs
    BY <1>5, <2>1 DEF Action, Launch
  <2> QED  BY <2>1, <2>2 DEF LaunchesIn
<1> QED  BY <1>1, <1>2, <1>3, <1>4, <1>5

LEMMA StoreKeeps ==
  \* What the store's statements leave of a record.
  ASSUME NEW r \in JobRec
  PROVE  /\ \A n \in Nodes : /\ MarkRunning(r, n).requeue = r.requeue
                            /\ MarkRunning(r, n).node = n
                            /\ MarkRunning(r, n).state = "RUNNING"
         /\ \A st \in States : /\ MarkFinished(r, st).requeue = r.requeue
                             /\ MarkFinished(r, st).node = r.node
                             /\ MarkFinished(r, st).state = st
         /\ RequeueJob(r).requeue = r.requeue /\ RequeueJob(r).state = "PENDING"
         /\ /\ WriteOff(r).requeue = r.requeue /\ WriteOff(r).node = r.node
            /\ WriteOff(r).state = "FAILED"
         /\ \A n \in Nodes : /\ Seen(r, n).requeue = r.requeue
                            /\ Seen(r, n).node = r.node /\ Seen(r, n).state = r.state
<1>1. \A n \in Nodes : /\ MarkRunning(r, n).requeue = r.requeue
                     /\ MarkRunning(r, n).node = n /\ MarkRunning(r, n).state = "RUNNING"
  BY DEF MarkRunning, JobRec
<1>2. \A st \in States : /\ MarkFinished(r, st).requeue = r.requeue
                      /\ MarkFinished(r, st).node = r.node /\ MarkFinished(r, st).state = st
  BY DEF MarkFinished, JobRec
<1>3. RequeueJob(r).requeue = r.requeue /\ RequeueJob(r).state = "PENDING"
  BY DEF RequeueJob, JobRec
<1>4. WriteOff(r).requeue = r.requeue /\ WriteOff(r).node = r.node /\ WriteOff(r).state = "FAILED"
  BY DEF WriteOff, JobRec
<1>5. \A n \in Nodes : /\ Seen(r, n).requeue = r.requeue
                     /\ Seen(r, n).node = r.node /\ Seen(r, n).state = r.state
  BY DEF Seen, JobRec
<1> QED  BY <1>1, <1>2, <1>3, <1>4, <1>5

LEMMA KeptIsEnough ==
  \* A step that keeps every job's placement keeps the invariant.
  ASSUME PlacedInv, \A j \in Jobs : Kept(j), NoRefusals'
  PROVE  PlacedInv'
<1>1. FlagUnset'
  BY DEF PlacedInv, FlagUnset, Kept
<1>2. ASSUME NEW j \in Jobs, Protected(j)' PROVE Placed(j)'
  <2>1. Protected(j) /\ Placed(j) /\ Kept(j)
    BY <1>2 DEF PlacedInv, Kept, Protected
  <2> QED  BY <2>1 DEF Placed, Kept
<1> QED  BY <1>1, <1>2 DEF PlacedInv

LEMMA PlacedInit == ASSUME Init, OwnerNodes = {} PROVE PlacedInv
<1>1. NoRefusals
  BY DEF Init, NoRefusals, NoMsg
<1>2. FlagUnset
  BY DEF Init, FlagUnset
<1>3. LaunchesIn(<<>>) = {} /\ NoMsg.actions = <<>>
  BY DEF LaunchesIn, NoMsg
<1>4. \A n \in Nodes : Handed(n) = {}
  BY <1>3 DEF Init, Handed
<1>5. ASSUME NEW j \in Jobs PROVE Placed(j)
  <2>1. attempt[j] = 0 /\ j \notin marked
    BY DEF Init
  <2> QED  BY <1>4, <2>1 DEF Placed
<1> QED  BY <1>1, <1>2, <1>5 DEF PlacedInv

LEMMA PlacedUser == ASSUME TypeOK, PlacedInv, UserStep PROVE PlacedInv'
<1> USE DEF store, tick, requests, memory, agents, wire, history
<1>1. PICK i \in Jobs : \/ Submit(i) \/ CancelRead(i) \/ CancelWrite(i)
                        \/ Hold(i) \/ Release(i) \/ RequeueRead(i) \/ RequeueWrite(i)
  BY Zenon DEF UserStep
<1>2. job[i] \in JobRec /\ job \in [Jobs -> JobRec]
  BY DEF TypeOK
<1>3. ASSUME NEW q \in Seq(Action) PROVE LaunchesIn(Append(q, Kill(i))) = LaunchesIn(q)
  BY Launches
<1>4. NoRefusals'
  BY <1>1 DEF PlacedInv, NoRefusals, Submit, CancelRead, CancelWrite, Hold, Release,
     RequeueRead, RequeueWrite
<1>5. CASE Submit(i)
  <2>1. PICK again \in BOOLEAN :
          job' = [job EXCEPT ![i].state = "PENDING", ![i].requeue = again]
    BY <1>5 DEF Submit
  <2>2. /\ job' = [job EXCEPT ![i] = [job[i] EXCEPT !.state = "PENDING", !.requeue = again]]
        /\ job[i].state = "NONE" /\ ~job[i].requeue
    BY <1>5, <2>1 DEF Submit, PlacedInv, FlagUnset
  <2>3. /\ job'[i].state = "PENDING" /\ job'[i].node = job[i].node
        /\ \A j \in Jobs \ {i} : job'[j] = job[j]
    BY <1>2, <2>2 DEF JobRec
  <2>4. FlagUnset'
    BY <2>3 DEF PlacedInv, FlagUnset
  <2>5. \A n \in Nodes : Handed(n)' = Handed(n)
    BY <1>5 DEF Submit, Handed
  <2>6. ASSUME NEW j \in Jobs, Protected(j)' PROVE Placed(j)'
    <3>1. Protected(j) /\ Placed(j)
      BY <2>2, <2>3, <2>6 DEF PlacedInv, Protected
    <3>2. job'[j].node = job[j].node /\ (j # i => job'[j].state = job[j].state)
      BY <2>3
    <3>3. attempt[i] = 1 => i # j
      BY <2>2, <3>1 DEF Placed
    <3> QED  BY <1>5, <2>5, <3>1, <3>2, <3>3 DEF Placed, Submit
  <2> QED  BY <1>4, <2>4, <2>6 DEF PlacedInv
<1>6. CASE CancelRead(i)
  <2>1. \A n \in Nodes : LaunchesIn(pending'[n]) = LaunchesIn(pending[n])
    BY <1>3, <1>6 DEF CancelRead, TypeOK
  <2>2. \A j \in Jobs : Kept(j)
    BY <1>6, <2>1 DEF CancelRead, Kept, Handed
  <2> QED  BY <1>4, <2>2, KeptIsEnough
<1>7. CASE CancelWrite(i)
  <2>1. /\ job'[i].requeue = job[i].requeue /\ job'[i].node = job[i].node
        /\ job'[i].state = "CANCELLED" /\ \A j \in Jobs \ {i} : job'[j] = job[j]
    BY <1>2, <1>7, StoreKeeps DEF CancelWrite, States
  <2>2. \A j \in Jobs : Kept(j)
    BY <1>7, <2>1 DEF CancelWrite, Kept, Handed
  <2> QED  BY <1>4, <2>2, KeptIsEnough
<1>8. CASE Hold(i) \/ Release(i)
  <2>1. \A j \in Jobs : Kept(j)
    BY <1>8 DEF Hold, Release, Kept, Handed
  <2> QED  BY <1>4, <2>1, KeptIsEnough
<1>9. CASE RequeueRead(i)
  <2>1. \A n \in Nodes : LaunchesIn(pending'[n]) = LaunchesIn(pending[n])
    BY <1>3, <1>9 DEF RequeueRead, TypeOK
  <2>2. \A j \in Jobs : Kept(j)
    BY <1>9, <2>1 DEF RequeueRead, Kept, Handed
  <2> QED  BY <1>4, <2>2, KeptIsEnough
<1>10. CASE RequeueWrite(i)
  <2>1. /\ job'[i].requeue = job[i].requeue /\ job'[i].state = "PENDING"
        /\ i \in UserJobs /\ \A j \in Jobs \ {i} : job'[j] = job[j]
    BY <1>2, <1>10, StoreKeeps DEF RequeueWrite, TypeOK
  <2>2. \A j \in Jobs : Kept(j)
    BY <1>10, <2>1 DEF RequeueWrite, Kept, Handed, Protected
  <2> QED  BY <1>4, <2>2, KeptIsEnough
<1> QED  BY <1>1, <1>5, <1>6, <1>7, <1>8, <1>9, <1>10

LEMMA PlacedAdmin == ASSUME PlacedInv, AdminStep PROVE PlacedInv'
<1>1. \A j \in Jobs : Kept(j)
  BY DEF AdminStep, DrainNode, ResumeNode, Kept, Handed, store, tick, requests, memory, agents, wire, history
<1>2. NoRefusals'
  BY DEF AdminStep, DrainNode, ResumeNode, PlacedInv, NoRefusals, agents, wire
<1> QED  BY <1>1, <1>2, KeptIsEnough

LEMMA PlacedRun == ASSUME TypeOK, PlacedInv, RunStep PROVE PlacedInv'
<1> USE DEF store, tick, requests, memory, agents, wire, history
<1>0. /\ job \in [Jobs -> JobRec] /\ plan \in [Jobs -> Nodes \cup {NoNode}]
      /\ pending \in [Nodes -> Seq(Action)] /\ attempt \in [Jobs -> Nat]
      /\ NoNode \notin Nodes
  BY JobControlAssumption DEF TypeOK
<1>1. NoRefusals'
  BY DEF RunStep, PlacedInv, NoRefusals, SchedulePass, GiveUp, ScheduleMark,
         ScheduleEnqueue, ExpireNode, FindGone, FindAbandoned
<1>2. CASE SchedulePass
  <2>1. PICK js \in SUBSET {j \in Queue : attempt[j] < MaxAttempts} \ {{}} :
           \E p \in [js -> Candidates] :
             plan' = [j \in Jobs |-> IF j \in js THEN p[j] ELSE NoNode]
    BY <1>2 DEF SchedulePass
  <2>2. \A j \in Jobs : plan'[j] # NoNode => job[j].state = "PENDING"
    BY <2>1 DEF Queue
  <2>3. \A n \in Nodes : Handed(n)' = Handed(n)
    BY <1>2 DEF SchedulePass, Handed
  <2>4. ASSUME NEW j \in Jobs, Protected(j)' PROVE Placed(j)'
    <3>1. Placed(j) /\ marked = {} /\ job' = job
      BY <1>2, <2>4 DEF SchedulePass, BetweenPasses, PlacedInv, Protected
    <3>2. plan'[j] # NoNode => attempt[j] = 0
      BY <1>0, <2>2, <3>1 DEF Placed
    <3> QED  BY <1>2, <2>3, <3>1, <3>2 DEF SchedulePass, Placed
  <2> QED  BY <1>1, <1>2, <2>4 DEF SchedulePass, PlacedInv, FlagUnset
<1>3. ASSUME NEW i \in Jobs, GiveUp(i) PROVE PlacedInv'
  <2>1. /\ job'[i].requeue = job[i].requeue
        /\ Protected(i) => job'[i].node = job[i].node /\ job'[i].state = "FAILED"
        /\ job'[i].state # "NONE" /\ \A j \in Jobs \ {i} : job'[j] = job[j]
    BY <1>0, <1>3, StoreKeeps DEF GiveUp, Protected
  <2>2. \A j \in Jobs : Kept(j)
    BY <1>3, <2>1 DEF GiveUp, Kept, Handed
  <2> QED  BY <1>1, <2>2, KeptIsEnough
<1>4. ASSUME NEW i \in Jobs, ScheduleMark(i) PROVE PlacedInv'
  <2>1. /\ plan[i] \in Nodes /\ i \notin marked /\ marked' = {i} /\ plan' = plan
        /\ \A n \in Nodes : Handed(n)' = Handed(n)
    BY <1>0, <1>4 DEF ScheduleMark, Handed
  <2>2. /\ job'[i].requeue = job[i].requeue /\ job'[i].node = plan[i]
        /\ job'[i].state = "RUNNING" /\ \A j \in Jobs \ {i} : job'[j] = job[j]
    BY <1>0, <1>4, <2>1, StoreKeeps DEF ScheduleMark
  <2>3. attempt'[i] = attempt[i] + 1 /\ \A j \in Jobs \ {i} : attempt'[j] = attempt[j]
    BY <1>0, <1>4 DEF ScheduleMark
  <2>4. FlagUnset'
    BY <2>2 DEF PlacedInv, FlagUnset
  <2>5. ASSUME NEW j \in Jobs, Protected(j)' PROVE Placed(j)'
    <3>1. Placed(j)
      BY <2>2, <2>5 DEF PlacedInv, Protected
    <3>2. CASE j = i
      <4>1. attempt[i] = 0 /\ attempt'[i] = 1 /\ \A n \in Nodes : i \notin Handed(n)
        BY <1>0, <2>1, <2>3, <3>1, <3>2 DEF Placed
      <4> QED  BY <2>1, <2>2, <3>2, <4>1 DEF Placed
    <3>3. CASE j # i
      <4>1. j \notin marked
        BY <1>4 DEF ScheduleMark
      <4> QED  BY <2>1, <2>2, <2>3, <3>1, <3>3, <4>1 DEF Placed
    <3> QED  BY <3>2, <3>3
  <2> QED  BY <1>1, <2>4, <2>5 DEF PlacedInv
<1>5. ASSUME NEW i \in Jobs, ScheduleEnqueue(i) PROVE PlacedInv'
  <2>1. /\ plan[i] \in Nodes /\ i \in marked /\ marked' = marked \ {i} /\ job' = job
        /\ attempt' = attempt /\ plan'[i] = NoNode
        /\ \A j \in Jobs \ {i} : plan'[j] = plan[j]
    BY <1>0, <1>5 DEF ScheduleEnqueue
  <2>2. /\ LaunchesIn(pending'[plan[i]]) = LaunchesIn(pending[plan[i]]) \cup {i}
        /\ \A n \in Nodes \ {plan[i]} : pending'[n] = pending[n]
    BY <1>0, <1>5, <2>1, Launches DEF ScheduleEnqueue
  <2>3. ASSUME NEW j \in Jobs, NEW n \in Nodes, j \in Handed(n)'
        PROVE  j \in Handed(n) \/ (j = i /\ n = plan[i])
    BY <1>5, <2>2, <2>3 DEF ScheduleEnqueue, Handed
  <2>4. ASSUME NEW j \in Jobs, Protected(j)' PROVE Placed(j)'
    <3>1. Placed(j)
      BY <2>1, <2>4 DEF PlacedInv, Protected
    <3>2. \A n \in Nodes : j \in Handed(n)' => attempt[j] = 1 /\ job[j].node = n
      BY <2>1, <2>3, <3>1 DEF Placed
    <3>3. plan'[j] # NoNode => plan'[j] = plan[j] /\ j # i
      BY <2>1
    <3> QED  BY <2>1, <3>1, <3>2, <3>3 DEF Placed
  <2> QED  BY <1>1, <2>1, <2>4 DEF PlacedInv, FlagUnset
<1>6. ASSUME NEW m \in Nodes, ExpireNode(m) PROVE PlacedInv'
  <2>1. \A j \in Jobs : /\ job'[j].requeue = job[j].requeue
                       /\ job'[j].node = job[j].node /\ job'[j].state = job[j].state
    BY <1>0, <1>6 DEF ExpireNode, JobRec
  <2>2. \A n \in Nodes : Handed(n)' \subseteq Handed(n)
    BY <1>6, Launches DEF ExpireNode, Handed, LaunchesIn
  <2>3. \A j \in Jobs : Kept(j)
    BY <1>6, <2>1, <2>2 DEF ExpireNode, Kept
  <2> QED  BY <1>1, <2>3, KeptIsEnough
<1>7. CASE FindGone \/ FindAbandoned
  <2>1. \A j \in Jobs : Kept(j)
    BY <1>7 DEF FindGone, FindAbandoned, Kept, Handed
  <2> QED  BY <1>1, <2>1, KeptIsEnough
<1> QED  BY <1>2, <1>3, <1>4, <1>5, <1>6, <1>7, Zenon DEF RunStep

LEMMA MsgKeeps ==
  \* What the handler leaves of the exchange.
  ASSUME NEW m \in Msg, NEW rep \in Report
  PROVE  /\ \A s \in {Settle(m, rep), Skip(m, rep)} :
              /\ s.actions = m.actions /\ s.reports \subseteq m.reports
              /\ s.acked \subseteq m.acked \cup {rep.job}
         /\ Skip(m, rep).acked = m.acked
BY ZenonT(60) DEF Settle, Skip, Msg

LEMMA PlacedHeartbeat == ASSUME TypeOK, PlacedInv, HeartbeatStep PROVE PlacedInv'
<1> USE DEF store, tick, requests, memory, agents, wire, history
<1>0. /\ job \in [Jobs -> JobRec] /\ msg \in [Nodes -> Msg] /\ pending \in [Nodes -> Seq(Action)]
      /\ \A n \in Nodes : msg[n].reports \subseteq Report
  BY DEF TypeOK, Msg
<1>1. ASSUME NEW m \in Nodes, HeartbeatArrives(m) PROVE PlacedInv'
  <2>1. \A j \in Jobs : /\ job'[j].requeue = job[j].requeue
                       /\ job'[j].node = job[j].node /\ job'[j].state = job[j].state
    BY <1>0, <1>1, StoreKeeps DEF HeartbeatArrives
  <2>2. \A j \in Jobs : Kept(j)
    BY <1>1, <2>1 DEF HeartbeatArrives, Kept, Handed
  <2>3. NoRefusals'
    BY <1>1 DEF HeartbeatArrives, PlacedInv, NoRefusals
  <2> QED  BY <2>2, <2>3, KeptIsEnough
<1>2. ASSUME NEW m \in Nodes, ReadReport(m) PROVE PlacedInv'
  <2>1. \A n \in Nodes : /\ msg'[n].actions = msg[n].actions
                        /\ msg'[n].reports \subseteq msg[n].reports
    <3>1. PICK rep \in Oldest(msg[m].reports) :
            \/ msg' = [msg EXCEPT ![m] = Settle(@, rep)]
            \/ msg' = [msg EXCEPT ![m] = [msg[m] EXCEPT !.got = Got(job[rep.job], m)]]
      BY <1>2 DEF ReadReport
    <3>2. rep \in Report /\ msg[m] \in Msg
      BY <1>0 DEF Oldest
    <3>3. \A g : /\ [msg[m] EXCEPT !.got = g].actions = msg[m].actions
                 /\ [msg[m] EXCEPT !.got = g].reports = msg[m].reports
      BY <3>2 DEF Msg
    <3>4. /\ msg'[m].actions = msg[m].actions /\ msg'[m].reports \subseteq msg[m].reports
          /\ \A n \in Nodes \ {m} : msg'[n] = msg[n]
      <4>1. CASE msg' = [msg EXCEPT ![m] = Settle(@, rep)]
        BY <1>0, <3>2, <4>1, MsgKeeps
      <4>2. CASE msg' = [msg EXCEPT ![m] = [msg[m] EXCEPT !.got = Got(job[rep.job], m)]]
        BY <1>0, <3>3, <4>2
      <4> QED  BY <3>1, <4>1, <4>2
    <3> QED  BY <3>4
  <2>2. \A n \in Nodes : Handed(n)' = Handed(n)
    BY <1>2, <2>1 DEF ReadReport, Handed
  <2>3. \A j \in Jobs : Kept(j)
    BY <1>2, <2>2 DEF ReadReport, Kept
  <2>4. NoRefusals'
    BY <1>2, <2>1 DEF ReadReport, PlacedInv, NoRefusals
  <2> QED  BY <2>3, <2>4, KeptIsEnough
<1>3. ASSUME NEW m \in Nodes, WriteReport(m) PROVE PlacedInv'
  <2>1. PICK rep \in Oldest(msg[m].reports) :
          /\ job' = [job EXCEPT ![rep.job] = IF rep.refused /\ msg[m].got # "WRITTEN OFF"
                                            THEN RequeueJob(@) ELSE MarkFinished(@, rep.st)]
          /\ msg' = [msg EXCEPT ![m] = Settle(@, rep)]
    BY <1>3 DEF WriteReport
  <2>2. rep \in msg[m].reports
    BY DEF Oldest
  <2>3. Terminal(rep.st) /\ ~rep.refused
    BY <2>2 DEF PlacedInv, NoRefusals
  <2>4. rep \in Report /\ rep.st \in States /\ rep.job \in Jobs
    BY <1>0, <2>2 DEF Report
  <2>5. \A j \in Jobs :
          /\ job'[j].requeue = job[j].requeue
          /\ job'[j].node = job[j].node
          /\ job'[j].state = job[j].state \/ job'[j].state \notin {"NONE", "PENDING"}
    <3>1. \A j \in Jobs \ {rep.job} : job'[j] = job[j]
      BY <1>0, <2>1
    <3>2. job'[rep.job] = MarkFinished(job[rep.job], rep.st)
      BY <1>0, <2>1, <2>3, <2>4
    <3>3. job[rep.job] \in JobRec /\ rep.st \notin {"NONE", "PENDING"}
      BY <1>0, <2>3, <2>4 DEF Terminal
    <3> QED  BY <2>4, <3>1, <3>2, <3>3, StoreKeeps
  <2>6. \A n \in Nodes : /\ msg'[n].actions = msg[n].actions
                        /\ msg'[n].reports \subseteq msg[n].reports
    <3>1. msg'[m] = Settle(msg[m], rep) /\ \A n \in Nodes \ {m} : msg'[n] = msg[n]
      BY <1>0, <2>1
    <3>2. msg[m] \in Msg
      BY <1>0
    <3>3. msg'[m].actions = msg[m].actions /\ msg'[m].reports \subseteq msg[m].reports
      BY <2>4, <3>1, <3>2, MsgKeeps
    <3> QED  BY <3>1, <3>3
  <2>7. \A n \in Nodes : Handed(n)' = Handed(n)
    BY <1>3, <2>6 DEF WriteReport, Handed
  <2>8. \A j \in Jobs : Kept(j)
    BY <1>3, <2>5, <2>7 DEF WriteReport, Kept
  <2>9. NoRefusals'
    BY <1>3, <2>6 DEF WriteReport, PlacedInv, NoRefusals
  <2> QED  BY <2>8, <2>9, KeptIsEnough
<1>4. ASSUME NEW m \in Nodes, FindUnclaimed(m) PROVE PlacedInv'
  <2>1. \A n \in Nodes : /\ msg'[n].actions = msg[n].actions
                        /\ msg'[n].reports = msg[n].reports
    BY <1>0, <1>4 DEF FindUnclaimed, Msg
  <2>2. \A j \in Jobs : Kept(j)
    BY <1>4, <2>1 DEF FindUnclaimed, Kept, Handed
  <2>3. NoRefusals'
    BY <1>4, <2>1 DEF FindUnclaimed, PlacedInv, NoRefusals
  <2> QED  BY <2>2, <2>3, KeptIsEnough
<1>5. ASSUME NEW m \in Nodes, NEW i \in Jobs, Reclaim(m, i) PROVE PlacedInv'
  <2>1. \A j \in Jobs :
          /\ job'[j].requeue = job[j].requeue
          /\ job'[j].state = "NONE" => job[j].state = "NONE"
          /\ Protected(j) =>
               /\ job'[j].node = job[j].node
               /\ job'[j].state = job[j].state \/ job'[j].state \notin {"NONE", "PENDING"}
    BY <1>0, <1>5, StoreKeeps DEF Reclaim, Protected, States
  <2>2. \A n \in Nodes : /\ msg'[n].actions = msg[n].actions
                        /\ msg'[n].reports = msg[n].reports
    BY <1>0, <1>5 DEF Reclaim, Msg
  <2>3. \A j \in Jobs : Kept(j)
    BY <1>5, <2>1, <2>2 DEF Reclaim, Kept, Handed
  <2>4. NoRefusals'
    BY <1>5, <2>2 DEF Reclaim, PlacedInv, NoRefusals
  <2> QED  BY <2>3, <2>4, KeptIsEnough
<1>6. ASSUME NEW m \in Nodes, Reply(m) PROVE PlacedInv'
  <2>1. \A n \in Nodes : Handed(n)' \subseteq Handed(n)
    <3>1. /\ msg'[m].actions = pending[m] /\ pending'[m] = <<>>
          /\ \A n \in Nodes \ {m} : msg'[n] = msg[n] /\ pending'[n] = pending[n]
      BY <1>0, <1>6 DEF Reply, Msg
    <3>2. LaunchesIn(<<>>) = {}
      BY DEF LaunchesIn
    <3> QED  BY <1>6, <3>1, <3>2 DEF Reply, Handed
  <2>2. \A j \in Jobs : Kept(j)
    BY <1>6, <2>1 DEF Reply, Kept
  <2>3. \A n \in Nodes : msg'[n].reports = msg[n].reports
    BY <1>0, <1>6 DEF Reply, Msg
  <2>4. NoRefusals'
    BY <1>6, <2>3 DEF Reply, PlacedInv, NoRefusals
  <2> QED  BY <2>2, <2>4, KeptIsEnough
<1> QED  BY <1>1, <1>2, <1>3, <1>4, <1>5, <1>6, Zenon DEF HeartbeatStep

LEMMA TellKeeps ==
  \* A report that is an ending and no refusal.
  ASSUME TypeOK, NoRefusals, NEW m \in Nodes, NEW j \in Jobs, NEW st \in States,
         Terminal(st), Tell(m, j, st, FALSE), mood' = mood, msg' = msg
  PROVE  NoRefusals'
<1>1. \A n \in Nodes : \A rep \in done'[n] :
        rep \in done[n] \/ rep = [job |-> j, st |-> st, refused |-> FALSE, at |-> serial[m] + 1]
  BY DEF Tell, TypeOK
<1> QED  BY <1>1 DEF NoRefusals

LEMMA PlacedAgent ==
  ASSUME TypeOK, PlacedInv, OwnerNodes = {}, AgentStep
  PROVE  PlacedInv'
<1> USE DEF store, tick, requests, memory, agents, wire, history
<1>0. /\ run \in [Nodes -> SUBSET Jobs] /\ todo \in [Nodes -> Seq(Action)]
      /\ msg \in [Nodes -> Msg] /\ done \in [Nodes -> SUBSET Report]
      /\ NoRefusals /\ LaunchesIn(<<>>) = {} /\ NoMsg.actions = <<>> /\ NoMsg.reports = {}
  BY DEF TypeOK, PlacedInv, LaunchesIn, NoMsg
<1>1. ASSUME NEW m \in Nodes, SendHeartbeat(m) PROVE PlacedInv'
  <2>1. /\ msg'[m].reports = done[m] /\ msg'[m].actions = <<>> /\ mood'[m] = "open"
        /\ \A n \in Nodes \ {m} : msg'[n] = msg[n] /\ mood'[n] = mood[n]
    BY <1>0, <1>1 DEF SendHeartbeat, NoMsg, TypeOK
  <2>2. \A j \in Jobs : Kept(j)
    BY <1>0, <1>1, <2>1 DEF SendHeartbeat, Kept, Handed
  <2>3. NoRefusals'
    BY <1>0, <1>1, <2>1 DEF SendHeartbeat, NoRefusals
  <2> QED  BY <2>2, <2>3, KeptIsEnough
<1>2. ASSUME NEW m \in Nodes, ReceiveReply(m) PROVE PlacedInv'
  <2>1. /\ done'[m] \subseteq done[m] /\ msg'[m] = NoMsg /\ todo'[m] = msg[m].actions
        /\ \A n \in Nodes \ {m} : done'[n] = done[n] /\ msg'[n] = msg[n] /\ todo'[n] = todo[n]
    BY <1>0, <1>2 DEF ReceiveReply, Unacked
  <2>2. \A j \in Jobs : Kept(j)
    BY <1>0, <1>2, <2>1 DEF ReceiveReply, Kept, Handed
  <2>3. NoRefusals'
    BY <1>0, <1>2, <2>1 DEF ReceiveReply, NoRefusals
  <2> QED  BY <2>2, <2>3, KeptIsEnough
<1>3. ASSUME NEW m \in Nodes, todo[m] # <<>>, todo' = [todo EXCEPT ![m] = Tail(@)]
      PROVE  /\ LaunchesIn(todo'[m]) \subseteq LaunchesIn(todo[m])
             /\ \A n \in Nodes \ {m} : todo'[n] = todo[n]
             /\ Head(todo[m]).job \in Jobs
             /\ Head(todo[m]).kind = "launch" => Head(todo[m]).job \in LaunchesIn(todo[m])
  <2>1. todo[m] \in Seq(Action) /\ Head(todo[m]) \in Action
    BY <1>0, <1>3
  <2>2. todo'[m] = Tail(todo[m]) /\ \A n \in Nodes \ {m} : todo'[n] = todo[n]
    BY <1>0, <1>3
  <2>3. Head(todo[m]).job \in Jobs
    BY <2>1 DEF Action
  <2> QED  BY <1>3, <2>1, <2>2, <2>3, Launches
<1>4. ASSUME NEW m \in Nodes, RefuseLaunch(m) PROVE PlacedInv'
  BY <1>0, <1>4 DEF RefuseLaunch, NoRefusals
<1>5. ASSUME NEW m \in Nodes, StartJob(m) PROVE PlacedInv'
  <2>1. run'[m] \subseteq run[m] \cup LaunchesIn(todo[m])
    BY <1>0, <1>3, <1>5 DEF StartJob, NextIs
  <2>2. \A n \in Nodes : Handed(n)' \subseteq Handed(n)
    BY <1>0, <1>3, <1>5, <2>1 DEF StartJob, NextIs, Handed
  <2>3. \A j \in Jobs : Kept(j)
    BY <1>5, <2>2 DEF StartJob, Kept
  <2>4. NoRefusals'
    BY <1>0, <1>5 DEF StartJob, NoRefusals
  <2> QED  BY <2>3, <2>4, KeptIsEnough
<1>6. ASSUME NEW m \in Nodes, LaunchFails(m) PROVE PlacedInv'
  <2>1. \A n \in Nodes : Handed(n)' \subseteq Handed(n)
    BY <1>3, <1>6 DEF LaunchFails, NextIs, Handed
  <2>2. \A j \in Jobs : Kept(j)
    BY <1>6, <2>1 DEF LaunchFails, Kept
  <2>3. "FAILED" \in States /\ Terminal("FAILED")
    BY DEF States, Terminal
  <2>4. NoRefusals'
    BY <1>0, <1>3, <1>6, <2>3, TellKeeps DEF LaunchFails, NextIs
  <2> QED  BY <2>2, <2>4, KeptIsEnough
<1>7. ASSUME NEW m \in Nodes, KillJob(m) PROVE PlacedInv'
  <2>1. \A n \in Nodes : Handed(n)' \subseteq Handed(n)
    <3>1. /\ LaunchesIn(todo'[m]) \subseteq LaunchesIn(todo[m])
          /\ \A n \in Nodes \ {m} : todo'[n] = todo[n]
      BY <1>3, <1>7 DEF KillJob, NextIs
    <3>2. \A n \in Nodes : run'[n] \subseteq run[n]
      BY <1>0, <1>7 DEF KillJob
    <3> QED  BY <1>7, <3>1, <3>2 DEF KillJob, Handed
  <2>2. \A j \in Jobs : Kept(j)
    BY <1>7, <2>1 DEF KillJob, Kept
  <2>3. "CANCELLED" \in States /\ Terminal("CANCELLED") /\ Head(todo[m]).job \in Jobs
    BY <1>3, <1>7 DEF KillJob, NextIs, States, Terminal
  <2>4. NoRefusals'
    <3>1. CASE Head(todo[m]).job \in run[m]
      <4>1. Tell(m, Head(todo[m]).job, "CANCELLED", FALSE)
        BY <1>7, <3>1, Zenon DEF KillJob
      <4> QED  BY <1>0, <1>7, <2>3, <4>1, TellKeeps DEF KillJob
    <3>2. CASE Head(todo[m]).job \notin run[m]
      BY <1>0, <1>7, <3>2 DEF KillJob, NoRefusals
    <3> QED  BY <3>1, <3>2
  <2> QED  BY <2>2, <2>4, KeptIsEnough
<1>8. ASSUME NEW m \in Nodes, NEW i \in Jobs, NEW st \in Outcomes, JobEnds(m, i, st)
      PROVE  PlacedInv'
  <2>1. \A n \in Nodes : Handed(n)' \subseteq Handed(n)
    BY <1>0, <1>8 DEF JobEnds, Handed
  <2>2. \A j \in Jobs : Kept(j)
    BY <1>8, <2>1 DEF JobEnds, Kept
  <2>3. st \in States /\ Terminal(st)
    BY JobControlAssumption DEF States, Terminal
  <2>4. NoRefusals'
    BY <1>0, <1>8, <2>3, TellKeeps DEF JobEnds
  <2> QED  BY <2>2, <2>4, KeptIsEnough
<1> QED  BY <1>1, <1>2, <1>4, <1>5, <1>6, <1>7, <1>8, Zenon DEF AgentStep

LEMMA PlacedTime == ASSUME TypeOK, PlacedInv, TimeStep PROVE PlacedInv'
<1> USE DEF store, tick, requests, memory, agents, wire, history
<1>1. NoRefusals'
  BY DEF TimeStep, FallSilent, Age, PlacedInv, NoRefusals
<1>2. ASSUME NEW n \in Nodes, FallSilent(n) PROVE \A j \in Jobs : Kept(j)
  BY <1>2 DEF FallSilent, Kept, Handed
<1>3. ASSUME NEW i \in Jobs, Age(i) PROVE \A j \in Jobs : Kept(j)
  <2>1. \A j \in Jobs : /\ job'[j].requeue = job[j].requeue
                       /\ job'[j].node = job[j].node /\ job'[j].state = job[j].state
    BY <1>3 DEF Age, TypeOK, JobRec
  <2> QED  BY <1>3, <2>1 DEF Age, Kept, Handed
<1> QED  BY <1>1, <1>2, <1>3, KeptIsEnough, Zenon DEF TimeStep

LEMMA PlacedFault == ASSUME TypeOK, PlacedInv, FaultStep PROVE PlacedInv'
<1> USE DEF store, tick, requests, memory, agents, wire, history
<1>0. /\ msg \in [Nodes -> Msg] /\ LaunchesIn(<<>>) = {}
      /\ NoMsg.actions = <<>> /\ NoMsg.reports = {}
  BY DEF TypeOK, LaunchesIn, NoMsg
<1>1. ASSUME ControllerRestart PROVE (\A j \in Jobs : Kept(j)) /\ NoRefusals'
  <2>1. \A n \in Nodes : /\ msg'[n] \in {NoMsg, msg[n]} /\ pending'[n] = <<>>
                        /\ run' = run /\ todo' = todo
    BY <1>1 DEF ControllerRestart
  <2>2. \A n \in Nodes : Handed(n)' \subseteq Handed(n)
    BY <1>0, <2>1 DEF Handed
  <2>3. \A j \in Jobs : Kept(j)
    BY <1>1, <2>2 DEF ControllerRestart, Kept
  <2>4. NoRefusals'
    BY <1>0, <1>1, <2>1 DEF ControllerRestart, PlacedInv, NoRefusals
  <2> QED  BY <2>3, <2>4
<1>2. ASSUME NEW m \in Nodes, RequestLost(m) \/ ReplyLost(m)
      PROVE  (\A j \in Jobs : Kept(j)) /\ NoRefusals'
  <2>1. \A n \in Nodes : msg'[n] \in {NoMsg, msg[n]}
    BY <1>0, <1>2 DEF RequestLost, ReplyLost
  <2>2. \A n \in Nodes : Handed(n)' \subseteq Handed(n)
    BY <1>0, <1>2, <2>1 DEF RequestLost, ReplyLost, Handed
  <2>3. \A j \in Jobs : Kept(j)
    BY <1>2, <2>2 DEF RequestLost, ReplyLost, Kept
  <2>4. NoRefusals'
    BY <1>0, <1>2, <2>1 DEF RequestLost, ReplyLost, PlacedInv, NoRefusals
  <2> QED  BY <2>3, <2>4
<1>3. ASSUME NEW m \in Nodes, AgentRestart(m) PROVE (\A j \in Jobs : Kept(j)) /\ NoRefusals'
  <2>1. \A n \in Nodes : /\ run'[n] \in {{}, run[n]} /\ todo'[n] \in {<<>>, todo[n]}
                        /\ done'[n] \in {{}, done[n]}
    BY <1>3 DEF AgentRestart, TypeOK
  <2>2. \A n \in Nodes : Handed(n)' \subseteq Handed(n)
    BY <1>0, <1>3, <2>1 DEF AgentRestart, Handed
  <2>3. \A j \in Jobs : Kept(j)
    BY <1>3, <2>2 DEF AgentRestart, Kept
  <2>4. NoRefusals'
    BY <1>3, <2>1 DEF AgentRestart, PlacedInv, NoRefusals
  <2> QED  BY <2>3, <2>4
<1>4. ASSUME NEW m \in Nodes, KillFails(m) PROVE (\A j \in Jobs : Kept(j)) /\ NoRefusals'
  <2>1. todo[m] \in Seq(Action) /\ todo[m] # <<>> /\ todo' = [todo EXCEPT ![m] = Tail(@)]
    BY <1>4 DEF KillFails, NextIs, TypeOK
  <2>2. \A n \in Nodes : LaunchesIn(todo'[n]) \subseteq LaunchesIn(todo[n])
    BY <2>1, Launches DEF TypeOK
  <2>3. \A n \in Nodes : Handed(n)' \subseteq Handed(n)
    BY <1>4, <2>2 DEF KillFails, Handed
  <2>4. \A j \in Jobs : Kept(j)
    BY <1>4, <2>3 DEF KillFails, Kept
  <2>5. NoRefusals'
    BY <1>4 DEF KillFails, PlacedInv, NoRefusals
  <2> QED  BY <2>4, <2>5
<1>5. ASSUME NEW m \in Nodes, ReadReportFails(m) \/ WriteReportFails(m)
      PROVE  (\A j \in Jobs : Kept(j)) /\ NoRefusals'
  <2>1. PICK rep \in Oldest(msg[m].reports) :
          \/ msg' = [msg EXCEPT ![m] = Settle(@, rep)]
          \/ msg' = [msg EXCEPT ![m] = Skip(@, rep)]
    BY <1>5 DEF ReadReportFails, WriteReportFails
  <2>2. msg \in [Nodes -> Msg] /\ rep \in Report
    BY DEF TypeOK, Oldest, Msg
  <2>3. \A n \in Nodes : /\ msg'[n].actions = msg[n].actions
                        /\ msg'[n].reports \subseteq msg[n].reports
    BY <2>1, <2>2, MsgKeeps
  <2>4. \A j \in Jobs : Kept(j)
    BY <1>5, <2>3 DEF ReadReportFails, WriteReportFails, Kept, Handed
  <2>5. NoRefusals'
    BY <1>5, <2>3 DEF ReadReportFails, WriteReportFails, PlacedInv, NoRefusals
  <2> QED  BY <2>4, <2>5
<1> QED  BY <1>1, <1>2, <1>3, <1>4, <1>5, KeptIsEnough, Zenon DEF FaultStep

\* A job that nobody allowed to be repeated is marked RUNNING at most once and is
\* never on two machines, through every lost heartbeat and response, every
\* restart of the controller and of agents, every node given up on and every
\* reclaim (controller.go schedule, reclaimUnclaimed; nodes.go GiveUpOnLostJobs).
THEOREM AtMostOnceHolds == Spec => []AtMostOnce
<1> DEFINE Inv == TypeOK /\ (OwnerNodes = {} => PlacedInv)
<1>1. Init => Inv
  BY TypeInit, PlacedInit
<1>2. Inv /\ [Next]_vars => Inv'
  <2>1. TypeOK /\ [Next]_vars => TypeOK'
    BY TypeStep
  <2>2. ASSUME TypeOK, PlacedInv, OwnerNodes = {}, Next PROVE PlacedInv'
    BY <2>2, PlacedUser, PlacedAdmin, PlacedRun, PlacedHeartbeat, PlacedAgent, PlacedTime,
       PlacedFault, Zenon DEF Next
  <2>3. ASSUME PlacedInv, UNCHANGED vars PROVE PlacedInv'
    <3>1. \A j \in Jobs : Kept(j)
      BY <2>3 DEF Kept, Handed, vars, store, tick, requests, memory, agents, wire, history
    <3>2. NoRefusals'
      BY <2>3 DEF PlacedInv, NoRefusals, vars, agents, wire
    <3> QED  BY <2>3, <3>1, <3>2, KeptIsEnough
  <2> QED  BY <2>1, <2>2, <2>3
<1>3. Inv => AtMostOnce
  <2>1. ASSUME PlacedInv, NEW j \in Jobs \ UserJobs, ~job[j].requeue
        PROVE  attempt[j] <= 1 /\ \A m, n \in Nodes : j \in run[m] /\ j \in run[n] => m = n
    BY <2>1 DEF PlacedInv, Protected, Placed, Handed
  <2> QED  BY <2>1 DEF AtMostOnce
<1> QED  BY <1>1, <1>2, <1>3, PTL DEF Spec

-----------------------------------------------------------------------------
(* No job vanishes *)

\* What node n has of a job, or will have once it fetches its actions.
Coming(n) == LaunchesIn(pending[n]) \cup LaunchesIn(msg[n].actions)
Traces(n) == run[n] \cup JobsIn(done[n]) \cup Coming(n) \cup LaunchesIn(todo[n])

\* An exchange starts when the actions of the one before are carried out, and
\* the controller fills in the actions last.
Exchange ==
  \A n \in Nodes :
    /\ link[n] # "idle" => todo[n] = <<>>
    /\ link[n] # "replied" => msg[n].actions = <<>>

\* What agents report is an ending.
Endings == \A n \in Nodes : \A rep \in done[n] \cup msg[n].reports : Terminal(rep.st)

\* Where a RUNNING job is.  The report of an earlier run of it may be about to be
\* dropped by AckDone, which goes by the job alone: then the present run is still
\* on its way to the node.
Tracked(j) ==
  job[j].state = "RUNNING" =>
    LET n == job[j].node IN
      /\ n \in Nodes
      /\ j \in marked => plan[j] = n
      /\ j \in dropped \cup marked \cup Traces(n)
      /\ j \in msg[n].acked => j \in dropped \cup marked \cup Coming(n)

TraceInv ==
  /\ Exchange
  /\ Endings
  /\ \A j \in Jobs : Tracked(j)

\* A step that loses no trace of job j.
Carried(j) ==
  job'[j].state = "RUNNING" =>
    /\ job[j].state = "RUNNING"
    /\ job'[j].node = job[j].node
    /\ j \in marked' => j \in marked /\ plan'[j] = plan[j]
    /\ \A n \in Nodes : n = job[j].node =>
         /\ j \in dropped \cup marked \cup Traces(n) =>
              j \in dropped' \cup marked' \cup Traces(n)'
         /\ j \in msg'[n].acked /\ j \notin dropped' =>
              /\ j \in msg[n].acked
              /\ j \in dropped \cup marked \cup Coming(n) => j \in marked' \cup Coming(n)'

LEMMA CarriedIsEnough ==
  \* A step that loses no trace keeps the invariant.
  ASSUME TraceInv, \A j \in Jobs : Carried(j), Exchange', Endings'
  PROVE  TraceInv'
<1>1. ASSUME NEW j \in Jobs, job'[j].state = "RUNNING" PROVE Tracked(j)'
  <2>1. Tracked(j) /\ Carried(j)
    BY DEF TraceInv
  <2>2. /\ job[j].state = "RUNNING" /\ job'[j].node = job[j].node /\ job[j].node \in Nodes
    BY <1>1, <2>1 DEF Tracked, Carried
  <2> QED  BY <1>1, <2>1, <2>2 DEF Tracked, Carried
<1>2. \A j \in Jobs : Tracked(j)'
  BY <1>1 DEF Tracked
<1> QED  BY <1>2 DEF TraceInv

LEMMA TraceInit == Init => TraceInv
<1> SUFFICES ASSUME Init PROVE TraceInv
  OBVIOUS
<1>1. Exchange /\ Endings
  BY DEF Init, Exchange, Endings, NoMsg
<1>2. \A j \in Jobs : job[j].state # "RUNNING"
  BY DEF Init
<1> QED  BY <1>1, <1>2 DEF TraceInv, Tracked

LEMMA TailLaunches ==
  \* Carrying out the first action takes at most that launch off the list.
  ASSUME NEW q \in Seq(Action), q # <<>>
  PROVE  /\ \A j \in LaunchesIn(q) : j \in LaunchesIn(Tail(q)) \/ q[1] = Launch(j)
         /\ Head(q) = q[1] /\ q[1] \in Action
         /\ \A j \in Jobs : q[1] = Launch(j) => Head(q).kind = "launch" /\ Head(q).job = j
<1>1. /\ Head(q) = q[1] /\ q[1] \in Action
      /\ \A i \in 1..Len(q) : i # 1 => i - 1 \in 1..Len(Tail(q)) /\ Tail(q)[i - 1] = q[i]
      /\ DOMAIN q = 1..Len(q) /\ DOMAIN Tail(q) = 1..Len(Tail(q))
  OBVIOUS
<1>2. ASSUME NEW j \in LaunchesIn(q), q[1] # Launch(j) PROVE j \in LaunchesIn(Tail(q))
  <2>1. PICK i \in 1..Len(q) : q[i] = Launch(j)
    BY <1>1 DEF LaunchesIn
  <2>2. i - 1 \in DOMAIN Tail(q) /\ Tail(q)[i - 1] = Launch(j)
    BY <1>1, <1>2, <2>1
  <2> QED  BY <2>2 DEF LaunchesIn
<1>3. \A j \in Jobs : q[1] = Launch(j) => Head(q).kind = "launch" /\ Head(q).job = j
  BY <1>1 DEF Launch
<1> QED  BY <1>1, <1>2, <1>3

LEMMA TraceUser == ASSUME TypeOK, TraceInv, UserStep PROVE TraceInv'
<1> USE DEF store, tick, requests, memory, agents, wire, history
<1>1. PICK i \in Jobs : \/ Submit(i) \/ CancelRead(i) \/ CancelWrite(i)
                        \/ Hold(i) \/ Release(i) \/ RequeueRead(i) \/ RequeueWrite(i)
  BY Zenon DEF UserStep
<1>2. job[i] \in JobRec /\ job \in [Jobs -> JobRec] /\ pending \in [Nodes -> Seq(Action)]
  BY DEF TypeOK
<1>3. Exchange' /\ Endings'
  BY <1>1 DEF TraceInv, Exchange, Endings, Submit, CancelRead, CancelWrite, Hold, Release,
     RequeueRead, RequeueWrite
<1>4. \A j \in Jobs : job'[j].state = "RUNNING" => job'[j] = job[j]
  <2>1. CASE Submit(i)
    BY <1>2, <2>1 DEF Submit, JobRec
  <2>2. CASE CancelRead(i) \/ Hold(i) \/ Release(i) \/ RequeueRead(i)
    BY <2>2 DEF CancelRead, Hold, Release, RequeueRead
  <2>3. CASE CancelWrite(i)
    BY <1>2, <2>3, StoreKeeps DEF CancelWrite, States
  <2>4. CASE RequeueWrite(i)
    BY <1>2, <2>4, StoreKeeps DEF RequeueWrite
  <2> QED  BY <1>1, <2>1, <2>2, <2>3, <2>4
<1>5. \A n \in Nodes : LaunchesIn(pending'[n]) = LaunchesIn(pending[n])
  <2>1. \A q \in Seq(Action) : LaunchesIn(Append(q, Kill(i))) = LaunchesIn(q)
    BY Launches
  <2> QED  BY <1>1, <1>2, <2>1 DEF Submit, CancelRead, CancelWrite, Hold, Release,
     RequeueRead, RequeueWrite
<1>6. \A n \in Nodes : Traces(n)' = Traces(n) /\ Coming(n)' = Coming(n)
  BY <1>1, <1>5 DEF Traces, Coming, Submit, CancelRead, CancelWrite, Hold, Release,
     RequeueRead, RequeueWrite
<1>7. marked' = marked /\ plan' = plan /\ dropped' = dropped /\ msg' = msg
  BY <1>1 DEF Submit, CancelRead, CancelWrite, Hold, Release,
     RequeueRead, RequeueWrite
<1>8. \A j \in Jobs : Carried(j)
  BY <1>4, <1>6, <1>7 DEF Carried
<1> QED  BY <1>3, <1>8, CarriedIsEnough

LEMMA TraceAdmin == ASSUME TraceInv, AdminStep PROVE TraceInv'
<1>1. \A j \in Jobs : Carried(j)
  BY DEF AdminStep, DrainNode, ResumeNode, Carried, Traces, Coming, store, tick, requests, memory,
         agents, wire, history
<1>2. Exchange' /\ Endings'
  BY DEF AdminStep, DrainNode, ResumeNode, TraceInv, Exchange, Endings, agents, wire
<1> QED  BY <1>1, <1>2, CarriedIsEnough

LEMMA TraceRun == ASSUME TypeOK, TraceInv, RunStep PROVE TraceInv'
<1> USE DEF store, tick, requests, memory, agents, wire, history
<1>0. /\ job \in [Jobs -> JobRec] /\ plan \in [Jobs -> Nodes \cup {NoNode}]
      /\ pending \in [Nodes -> Seq(Action)] /\ NoNode \notin Nodes
  BY JobControlAssumption DEF TypeOK
<1>1. Exchange' /\ Endings'
  BY DEF RunStep, TraceInv, Exchange, Endings, SchedulePass, GiveUp, ScheduleMark,
         ScheduleEnqueue, ExpireNode, FindGone, FindAbandoned
<1>2. ASSUME SchedulePass PROVE TraceInv'
  <2>1. \A n \in Nodes : Traces(n)' = Traces(n) /\ Coming(n)' = Coming(n)
    BY <1>2 DEF SchedulePass, Traces, Coming
  <2>2. \A j \in Jobs : Carried(j)
    BY <1>2, <2>1 DEF SchedulePass, BetweenPasses, Carried
  <2> QED  BY <1>1, <2>2, CarriedIsEnough
<1>3. ASSUME NEW i \in Jobs, GiveUp(i) PROVE TraceInv'
  <2>1. \A j \in Jobs : job'[j].state = "RUNNING" => job'[j] = job[j]
    BY <1>0, <1>3, StoreKeeps DEF GiveUp
  <2>2. \A n \in Nodes : Traces(n)' = Traces(n) /\ Coming(n)' = Coming(n)
    BY <1>3 DEF GiveUp, Traces, Coming
  <2>3. \A j \in Jobs : Carried(j)
    BY <1>3, <2>1, <2>2 DEF GiveUp, Carried
  <2> QED  BY <1>1, <2>3, CarriedIsEnough
<1>4. ASSUME NEW i \in Jobs, ScheduleMark(i) PROVE TraceInv'
  <2>1. /\ plan[i] \in Nodes /\ plan' = plan /\ msg' = msg
        /\ marked = {} /\ marked' = {i} /\ dropped' = dropped \ {i}
        /\ \A n \in Nodes : Traces(n)' = Traces(n) /\ Coming(n)' = Coming(n)
    BY <1>0, <1>4 DEF ScheduleMark, Traces, Coming
  <2>2. job'[i].node = plan[i] /\ \A j \in Jobs \ {i} : job'[j] = job[j]
    BY <1>0, <1>4, <2>1, StoreKeeps DEF ScheduleMark
  <2>3. Tracked(i)'
    BY <2>1, <2>2 DEF Tracked
  <2>4. ASSUME NEW j \in Jobs \ {i} PROVE Tracked(j)'
    BY <2>1, <2>2 DEF TraceInv, Tracked
  <2> QED  BY <1>1, <2>3, <2>4 DEF TraceInv
<1>5. ASSUME NEW i \in Jobs, ScheduleEnqueue(i) PROVE TraceInv'
  <2>1. PICK m \in Nodes : m = plan[i]
    BY <1>0, <1>5 DEF ScheduleEnqueue
  <2>2. /\ marked' = marked \ {i} /\ job' = job /\ msg' = msg
        /\ dropped' = dropped /\ run' = run /\ done' = done /\ todo' = todo
        /\ \A j \in Jobs \ {i} : plan'[j] = plan[j]
    BY <1>0, <1>5 DEF ScheduleEnqueue
  <2>3. /\ LaunchesIn(pending'[m]) = LaunchesIn(pending[m]) \cup {i}
        /\ \A n \in Nodes \ {m} : pending'[n] = pending[n]
    BY <1>0, <1>5, <2>1, Launches DEF ScheduleEnqueue
  <2>4. i \in Coming(m)' /\ \A n \in Nodes : Coming(n) \subseteq Coming(n)'
    BY <2>2, <2>3 DEF Coming
  <2>5. i \in Traces(m)' /\ \A n \in Nodes : Traces(n) \subseteq Traces(n)'
    BY <2>2, <2>4 DEF Traces
  <2>6. ASSUME NEW j \in Jobs \ {i} PROVE Carried(j)
    BY <2>2, <2>4, <2>5 DEF Carried
  <2>7. job[i].state = "RUNNING" => job[i].node = m
    BY <1>5, <2>1 DEF ScheduleEnqueue, TraceInv, Tracked
  <2>8. Carried(i)
    BY <2>2, <2>4, <2>5, <2>7 DEF Carried
  <2> QED  BY <1>1, <2>6, <2>8, CarriedIsEnough
<1>6. ASSUME NEW m \in Nodes, ExpireNode(m) PROVE TraceInv'
  <2>1. /\ \A j \in Jobs : job'[j].state = job[j].state /\ job'[j].node = job[j].node
        /\ \A n \in Nodes \ {m} : pending'[n] = pending[n]
        /\ dropped' = dropped \cup (LaunchesIn(pending[m]) \cap RunningOn(m))
        /\ run' = run /\ done' = done /\ todo' = todo /\ msg' = msg
        /\ plan' = plan /\ marked' = marked
    BY <1>0, <1>6 DEF ExpireNode, JobRec
  <2>2. ASSUME NEW j \in Jobs, NEW n \in Nodes, job[j].state = "RUNNING", job[j].node = n
        PROVE  /\ j \in Traces(n) => j \in dropped' \cup Traces(n)'
               /\ j \in Coming(n) => j \in dropped' \cup Coming(n)'
    BY <2>1, <2>2 DEF Traces, Coming, RunningOn
  <2>3. \A j \in Jobs : Carried(j)
    BY <2>1, <2>2 DEF Carried
  <2> QED  BY <1>1, <2>3, CarriedIsEnough
<1>7. ASSUME FindGone \/ FindAbandoned PROVE TraceInv'
  <2>1. \A j \in Jobs : Carried(j)
    BY <1>7 DEF FindGone, FindAbandoned, Carried, Traces, Coming
  <2> QED  BY <1>1, <2>1, CarriedIsEnough
<1> QED  BY <1>2, <1>3, <1>4, <1>5, <1>6, <1>7, Zenon DEF RunStep

LEMMA TraceHeartbeat == ASSUME TypeOK, TraceInv, HeartbeatStep PROVE TraceInv'
<1> USE DEF store, tick, requests, memory, agents, wire, history
<1>0. /\ job \in [Jobs -> JobRec] /\ msg \in [Nodes -> Msg] /\ pending \in [Nodes -> Seq(Action)]
      /\ link \in [Nodes -> {"idle", "sent", "handling", "reclaiming", "replied"}]
      /\ Exchange /\ Endings /\ \A n \in Nodes : msg[n].reports \subseteq Report
  BY DEF TypeOK, Msg, TraceInv
<1>1. ASSUME NEW m \in Nodes, HeartbeatArrives(m) PROVE TraceInv'
  <2>1. \A j \in Jobs : job'[j].node = job[j].node /\ job'[j].state = job[j].state
    BY <1>0, <1>1, StoreKeeps DEF HeartbeatArrives
  <2>2. \A j \in Jobs : Carried(j)
    BY <1>1, <2>1 DEF HeartbeatArrives, Carried, Traces, Coming
  <2>3. Exchange' /\ Endings'
    BY <1>0, <1>1 DEF HeartbeatArrives, Exchange, Endings
  <2> QED  BY <2>2, <2>3, CarriedIsEnough
<1>2. ASSUME NEW m \in Nodes, ReadReport(m) PROVE TraceInv'
  <2>1. PICK rep \in Oldest(msg[m].reports) :
          msg' = IF Terminal(Got(job[rep.job], m))
                 THEN [msg EXCEPT ![m] = Settle(@, rep)]
                 ELSE [msg EXCEPT ![m] = [msg[m] EXCEPT !.got = Got(job[rep.job], m)]]
    BY <1>2 DEF ReadReport
  <2>2. rep \in Report /\ rep.job \in Jobs /\ msg[m] \in Msg
    BY <1>0 DEF Oldest, Report
  <2>3. \A n \in Nodes \ {m} : msg'[n] = msg[n]
    BY <1>0, <2>1
  <2>4. /\ msg'[m].actions = msg[m].actions /\ msg'[m].reports \subseteq msg[m].reports
        /\ \A j \in Jobs : j \in msg'[m].acked =>
              j \in msg[m].acked \/ job[j].state # "RUNNING"
    <3>1. CASE Terminal(Got(job[rep.job], m))
      <4>1. msg'[m] = Settle(msg[m], rep)
        BY <1>0, <2>1, <3>1
      <4>2. job[rep.job].state # "RUNNING"
        BY <3>1 DEF Got, Terminal
      <4> QED  BY <2>2, <4>1, <4>2, MsgKeeps
    <3>2. CASE ~Terminal(Got(job[rep.job], m))
      <4>1. msg'[m] = [msg[m] EXCEPT !.got = Got(job[rep.job], m)]
        BY <1>0, <2>1, <3>2
      <4> QED  BY <2>2, <4>1 DEF Msg
    <3> QED  BY <3>1, <3>2
  <2>5. \A n \in Nodes : Traces(n)' = Traces(n) /\ Coming(n)' = Coming(n)
    BY <1>2, <2>3, <2>4 DEF ReadReport, Traces, Coming
  <2>6. \A j \in Jobs : Carried(j)
    BY <1>2, <2>3, <2>4, <2>5 DEF ReadReport, Carried
  <2>7. Exchange' /\ Endings'
    BY <1>0, <1>2, <2>3, <2>4 DEF ReadReport, Exchange, Endings
  <2> QED  BY <2>6, <2>7, CarriedIsEnough
<1>3. ASSUME NEW m \in Nodes, WriteReport(m) PROVE TraceInv'
  <2>1. PICK rep \in Oldest(msg[m].reports) :
          /\ job' = [job EXCEPT ![rep.job] = IF rep.refused /\ msg[m].got # "WRITTEN OFF"
                                            THEN RequeueJob(@) ELSE MarkFinished(@, rep.st)]
          /\ msg' = [msg EXCEPT ![m] = Settle(@, rep)]
    BY <1>3 DEF WriteReport
  <2>2. rep \in msg[m].reports /\ msg[m] \in Msg
    BY <1>0 DEF Oldest
  <2>3. Terminal(rep.st) /\ rep \in Report /\ rep.st \in States /\ rep.job \in Jobs
    BY <1>0, <2>2 DEF Report, Endings
  <2>4. job'[rep.job].state # "RUNNING" /\ \A j \in Jobs \ {rep.job} : job'[j] = job[j]
    <3>1. job'[rep.job] \in {MarkFinished(job[rep.job], rep.st), RequeueJob(job[rep.job])}
      BY <1>0, <2>1, <2>3
    <3>2. job[rep.job] \in JobRec /\ rep.st # "RUNNING"
      BY <1>0, <2>3 DEF Terminal
    <3>3. /\ MarkFinished(job[rep.job], rep.st).state # "RUNNING"
          /\ RequeueJob(job[rep.job]).state # "RUNNING"
      BY <2>3, <3>2, StoreKeeps
    <3>4. \A j \in Jobs \ {rep.job} : job'[j] = job[j]
      BY <1>0, <2>1
    <3> QED  BY <3>1, <3>3, <3>4
  <2>5. \A n \in Nodes : /\ msg'[n].actions = msg[n].actions
                        /\ msg'[n].reports \subseteq msg[n].reports
                        /\ msg'[n].acked \subseteq msg[n].acked \cup {rep.job}
    <3>1. msg'[m] = Settle(msg[m], rep) /\ \A n \in Nodes \ {m} : msg'[n] = msg[n]
      BY <1>0, <2>1
    <3>2. /\ Settle(msg[m], rep).actions = msg[m].actions
          /\ Settle(msg[m], rep).reports \subseteq msg[m].reports
          /\ Settle(msg[m], rep).acked \subseteq msg[m].acked \cup {rep.job}
      BY <2>2, <2>3, MsgKeeps
    <3> QED  BY <3>1, <3>2
  <2>6. \A n \in Nodes : Traces(n)' = Traces(n) /\ Coming(n)' = Coming(n)
    BY <1>3, <2>5 DEF WriteReport, Traces, Coming
  <2>7. \A j \in Jobs : Carried(j)
    BY <1>3, <2>4, <2>5, <2>6 DEF WriteReport, Carried
  <2>8. Exchange' /\ Endings'
    BY <1>0, <1>3, <2>5 DEF WriteReport, Exchange, Endings
  <2> QED  BY <2>7, <2>8, CarriedIsEnough
<1>4. ASSUME NEW m \in Nodes, FindUnclaimed(m) PROVE TraceInv'
  <2>1. \A n \in Nodes : /\ msg'[n].actions = msg[n].actions
                        /\ msg'[n].reports = msg[n].reports /\ msg'[n].acked = msg[n].acked
    BY <1>0, <1>4 DEF FindUnclaimed, Msg
  <2>2. \A j \in Jobs : Carried(j)
    BY <1>4, <2>1 DEF FindUnclaimed, Carried, Traces, Coming
  <2>3. Exchange' /\ Endings'
    BY <1>0, <1>4, <2>1 DEF FindUnclaimed, Exchange, Endings
  <2> QED  BY <2>2, <2>3, CarriedIsEnough
<1>5. ASSUME NEW m \in Nodes, NEW i \in Jobs, Reclaim(m, i) PROVE TraceInv'
  <2>1. \A j \in Jobs : job'[j].state = "RUNNING" => job'[j] = job[j]
    BY <1>0, <1>5, StoreKeeps DEF Reclaim, States
  <2>2. \A n \in Nodes : /\ msg'[n].actions = msg[n].actions
                        /\ msg'[n].reports = msg[n].reports /\ msg'[n].acked = msg[n].acked
    BY <1>0, <1>5 DEF Reclaim, Msg
  <2>3. \A j \in Jobs : Carried(j)
    BY <1>5, <2>1, <2>2 DEF Reclaim, Carried, Traces, Coming
  <2>4. Exchange' /\ Endings'
    BY <1>0, <1>5, <2>2 DEF Reclaim, Exchange, Endings
  <2> QED  BY <2>3, <2>4, CarriedIsEnough
<1>6. ASSUME NEW m \in Nodes, Reply(m) PROVE TraceInv'
  <2>1. /\ msg'[m].actions = pending[m] /\ pending'[m] = <<>> /\ msg[m].actions = <<>>
        /\ \A n \in Nodes \ {m} : msg'[n] = msg[n] /\ pending'[n] = pending[n]
    BY <1>0, <1>6 DEF Reply, Msg, Exchange
  <2>2. \A n \in Nodes : msg'[n].reports = msg[n].reports /\ msg'[n].acked = msg[n].acked
    BY <1>0, <1>6 DEF Reply, Msg
  <2>3. LaunchesIn(<<>>) = {}
    BY DEF LaunchesIn
  <2>4. \A n \in Nodes : Coming(n)' = Coming(n)
    BY <2>1, <2>3 DEF Coming
  <2>5. \A n \in Nodes : Traces(n)' = Traces(n)
    BY <1>6, <2>4 DEF Reply, Traces
  <2>6. \A j \in Jobs : Carried(j)
    BY <1>6, <2>2, <2>4, <2>5 DEF Reply, Carried
  <2>7. Exchange' /\ Endings'
    BY <1>0, <1>6, <2>1, <2>2 DEF Reply, Exchange, Endings
  <2> QED  BY <2>6, <2>7, CarriedIsEnough
<1> QED  BY <1>1, <1>2, <1>3, <1>4, <1>5, <1>6, Zenon DEF HeartbeatStep

LEMMA TellTraces ==
  \* A new report is an ending, and a trace of its job.
  ASSUME TypeOK, Endings, NEW m \in Nodes, NEW j \in Jobs, NEW st \in States,
         NEW refused \in BOOLEAN, Terminal(st), Tell(m, j, st, refused), msg' = msg
  PROVE  /\ Endings'
         /\ j \in JobsIn(done'[m])
         /\ \A n \in Nodes : JobsIn(done[n]) \subseteq JobsIn(done'[n])
<1> DEFINE new == [job |-> j, st |-> st, refused |-> refused, at |-> serial[m] + 1]
<1>1. /\ done'[m] = done[m] \cup {new}
      /\ \A n \in Nodes \ {m} : done'[n] = done[n]
  BY DEF Tell, TypeOK
<1>2. Endings'
  BY <1>1 DEF Endings
<1>3. new \in done'[m] /\ new.job = j
  BY <1>1
<1>4. j \in JobsIn(done'[m])
  BY <1>3 DEF JobsIn
<1>5. \A n \in Nodes : JobsIn(done[n]) \subseteq JobsIn(done'[n])
  BY <1>1 DEF JobsIn
<1> QED  BY <1>2, <1>4, <1>5

LEMMA TraceAgent == ASSUME TypeOK, TraceInv, AgentStep PROVE TraceInv'
<1> USE DEF store, tick, requests, memory, agents, wire, history
<1>0. /\ run \in [Nodes -> SUBSET Jobs] /\ todo \in [Nodes -> Seq(Action)]
      /\ msg \in [Nodes -> Msg] /\ done \in [Nodes -> SUBSET Report]
      /\ link \in [Nodes -> {"idle", "sent", "handling", "reclaiming", "replied"}]
      /\ Exchange /\ Endings /\ LaunchesIn(<<>>) = {}
      /\ NoMsg.actions = <<>> /\ NoMsg.reports = {} /\ NoMsg.acked = {}
  BY DEF TypeOK, TraceInv, LaunchesIn, NoMsg
<1>1. ASSUME NEW m \in Nodes, SendHeartbeat(m) PROVE TraceInv'
  <2>1. /\ msg'[m].reports = done[m] /\ msg'[m].actions = <<>> /\ msg'[m].acked = {}
        /\ msg[m].actions = <<>> /\ \A n \in Nodes \ {m} : msg'[n] = msg[n]
    BY <1>0, <1>1 DEF SendHeartbeat, NoMsg, Exchange
  <2>2. \A n \in Nodes : Coming(n)' = Coming(n)
    BY <1>1, <2>1 DEF SendHeartbeat, Coming
  <2>3. \A n \in Nodes : Traces(n)' = Traces(n) /\ msg'[n].acked \subseteq msg[n].acked
    BY <1>1, <2>1, <2>2 DEF SendHeartbeat, Traces
  <2>4. \A j \in Jobs : Carried(j)
    BY <1>1, <2>2, <2>3 DEF SendHeartbeat, Carried
  <2>5. Exchange' /\ Endings'
    BY <1>0, <1>1, <2>1 DEF SendHeartbeat, Exchange, Endings
  <2> QED  BY <2>4, <2>5, CarriedIsEnough
<1>2. ASSUME NEW m \in Nodes, ReceiveReply(m) PROVE TraceInv'
  <2>1. /\ done'[m] = Unacked(done[m], msg[m].acked) /\ msg'[m] = NoMsg
        /\ todo'[m] = msg[m].actions /\ todo[m] = <<>>
        /\ \A n \in Nodes \ {m} : done'[n] = done[n] /\ msg'[n] = msg[n] /\ todo'[n] = todo[n]
        /\ job' = job /\ run' = run /\ pending' = pending /\ marked' = marked
        /\ plan' = plan /\ dropped' = dropped
    BY <1>0, <1>2 DEF ReceiveReply, Exchange
  <2>2. \A j \in JobsIn(done[m]) : j \in JobsIn(done'[m]) \/ j \in msg[m].acked
    BY <2>1 DEF JobsIn, Unacked
  <2>3. \A n \in Nodes \ {m} : Traces(n)' = Traces(n) /\ Coming(n)' = Coming(n)
    BY <2>1 DEF Traces, Coming
  <2>4. Coming(m) \subseteq Traces(m)'
    BY <2>1 DEF Traces, Coming
  <2>5. \A j \in Traces(m) : j \in Traces(m)' \/ j \in msg[m].acked
    BY <1>0, <2>1, <2>2, <2>4 DEF Traces
  <2>6. ASSUME NEW j \in Jobs, job[j].state = "RUNNING", job[j].node = m,
               j \in dropped \cup marked \cup Traces(m)
        PROVE  j \in dropped \cup marked \cup Traces(m)'
    BY <2>4, <2>5, <2>6 DEF TraceInv, Tracked
  <2>7. \A j \in Jobs : Carried(j)
    <3>1. SUFFICES ASSUME NEW j \in Jobs, job[j].state = "RUNNING" PROVE Carried(j)
      BY <2>1 DEF Carried
    <3>2. CASE job[j].node = m
      <4>1. j \notin msg'[m].acked
        BY <1>0, <2>1
      <4> QED  BY <2>1, <2>6, <3>1, <3>2, <4>1 DEF Carried
    <3>3. CASE job[j].node # m
      BY <2>1, <2>3, <3>3 DEF Carried
    <3> QED  BY <3>2, <3>3
  <2>8. Exchange' /\ Endings'
    BY <1>0, <1>2, <2>1 DEF ReceiveReply, Exchange, Endings, Unacked
  <2> QED  BY <2>7, <2>8, CarriedIsEnough
<1>3. ASSUME NEW m \in Nodes, todo[m] # <<>>, todo' = [todo EXCEPT ![m] = Tail(@)]
      PROVE  /\ \A j \in LaunchesIn(todo[m]) :
                  \/ j \in LaunchesIn(todo'[m])
                  \/ Head(todo[m]).kind = "launch" /\ Head(todo[m]).job = j
             /\ \A n \in Nodes \ {m} : todo'[n] = todo[n]
             /\ Head(todo[m]).job \in Jobs
  <2>1. todo[m] \in Seq(Action) /\ todo'[m] = Tail(todo[m])
    BY <1>0, <1>3
  <2>2. Head(todo[m]).job \in Jobs
    BY <1>3, <2>1, TailLaunches DEF Action
  <2>3. \A j \in LaunchesIn(todo[m]) : j \in Jobs
    BY DEF LaunchesIn
  <2> QED  BY <1>0, <1>3, <2>1, <2>2, <2>3, TailLaunches
<1>4. ASSUME NEW m \in Nodes, RefuseLaunch(m) PROVE TraceInv'
  <2> DEFINE i == Head(todo[m]).job
  <2>1. i \in Jobs /\ Tell(m, i, "FAILED", TRUE) /\ msg' = msg
    BY <1>3, <1>4 DEF RefuseLaunch, NextIs
  <2>2. "FAILED" \in States /\ Terminal("FAILED")
    BY DEF States, Terminal
  <2>3. Endings' /\ i \in JobsIn(done'[m]) /\ \A n \in Nodes : JobsIn(done[n]) \subseteq JobsIn(done'[n])
    <3> HIDE DEF i
    <3> QED  BY <1>0, <2>1, <2>2, TellTraces
  <2>4. \A n \in Nodes : LaunchesIn(todo[n]) \subseteq Traces(n)'
    BY <1>3, <1>4, <2>3, ZenonT(60) DEF RefuseLaunch, NextIs, Traces
  <2>5. \A n \in Nodes : Traces(n) \subseteq Traces(n)' /\ Coming(n)' = Coming(n)
    BY <1>4, <2>3, <2>4 DEF RefuseLaunch, Traces, Coming
  <2>6. \A j \in Jobs : Carried(j)
    BY <1>4, <2>5 DEF RefuseLaunch, Carried
  <2>7. Exchange'
    BY <1>0, <1>3, <1>4 DEF RefuseLaunch, NextIs, Exchange
  <2> QED  BY <2>3, <2>6, <2>7, CarriedIsEnough
<1>5. ASSUME NEW m \in Nodes, StartJob(m) PROVE TraceInv'
  <2>1. /\ Head(todo[m]).job \in run'[m] /\ \A n \in Nodes : run[n] \subseteq run'[n]
    BY <1>0, <1>5 DEF StartJob
  <2>2. \A n \in Nodes : LaunchesIn(todo[n]) \subseteq Traces(n)'
    BY <1>3, <1>5, <2>1, ZenonT(60) DEF StartJob, NextIs, Traces
  <2>3. \A n \in Nodes : Traces(n) \subseteq Traces(n)' /\ Coming(n)' = Coming(n)
    BY <1>5, <2>1, <2>2 DEF StartJob, Traces, Coming
  <2>4. \A j \in Jobs : Carried(j)
    BY <1>5, <2>3 DEF StartJob, Carried
  <2>5. Exchange' /\ Endings'
    BY <1>0, <1>3, <1>5 DEF StartJob, NextIs, Exchange, Endings
  <2> QED  BY <2>4, <2>5, CarriedIsEnough
<1>6. ASSUME NEW m \in Nodes, LaunchFails(m) PROVE TraceInv'
  <2> DEFINE i == Head(todo[m]).job
  <2>1. i \in Jobs /\ Tell(m, i, "FAILED", FALSE) /\ msg' = msg
    BY <1>3, <1>6 DEF LaunchFails, NextIs
  <2>2. "FAILED" \in States /\ Terminal("FAILED")
    BY DEF States, Terminal
  <2>3. Endings' /\ i \in JobsIn(done'[m]) /\ \A n \in Nodes : JobsIn(done[n]) \subseteq JobsIn(done'[n])
    <3> HIDE DEF i
    <3> QED  BY <1>0, <2>1, <2>2, TellTraces
  <2>4. \A n \in Nodes : LaunchesIn(todo[n]) \subseteq Traces(n)'
    BY <1>3, <1>6, <2>3 DEF LaunchFails, NextIs, Traces
  <2>5. \A n \in Nodes : Traces(n) \subseteq Traces(n)' /\ Coming(n)' = Coming(n)
    BY <1>6, <2>3, <2>4 DEF LaunchFails, Traces, Coming
  <2>6. \A j \in Jobs : Carried(j)
    BY <1>6, <2>5 DEF LaunchFails, Carried
  <2>7. Exchange'
    BY <1>0, <1>3, <1>6 DEF LaunchFails, NextIs, Exchange
  <2> QED  BY <2>3, <2>6, <2>7, CarriedIsEnough
<1>7. ASSUME NEW m \in Nodes, KillJob(m) PROVE TraceInv'
  <2> DEFINE i == Head(todo[m]).job
  <2>1. i \in Jobs /\ msg' = msg /\ \A n \in Nodes : LaunchesIn(todo[n]) \subseteq LaunchesIn(todo'[n])
    BY <1>3, <1>7 DEF KillJob, NextIs
  <2>2. "CANCELLED" \in States /\ Terminal("CANCELLED")
    BY DEF States, Terminal
  <2>3. Endings' /\ \A n \in Nodes : run[n] \cup JobsIn(done[n]) \subseteq run'[n] \cup JobsIn(done'[n])
    <3>1. CASE i \in run[m]
      <4>1. Tell(m, i, "CANCELLED", FALSE) /\ run' = [run EXCEPT ![m] = @ \ {i}]
        BY <1>7, <3>1, Zenon DEF KillJob
      <4>2. Endings' /\ i \in JobsIn(done'[m]) /\ \A n \in Nodes : JobsIn(done[n]) \subseteq JobsIn(done'[n])
        <5> HIDE DEF i
        <5> QED  BY <1>0, <2>1, <2>2, <4>1, TellTraces
      <4> QED  BY <1>0, <4>1, <4>2
    <3>2. CASE i \notin run[m]
      BY <1>0, <1>7, <3>2 DEF KillJob, Endings
    <3> QED  BY <3>1, <3>2
  <2>4. \A n \in Nodes : Traces(n) \subseteq Traces(n)' /\ Coming(n)' = Coming(n)
    BY <1>7, <2>1, <2>3 DEF KillJob, Traces, Coming
  <2>5. \A j \in Jobs : Carried(j)
    BY <1>7, <2>4 DEF KillJob, Carried
  <2>6. Exchange'
    BY <1>0, <1>3, <1>7 DEF KillJob, NextIs, Exchange
  <2> QED  BY <2>3, <2>5, <2>6, CarriedIsEnough
<1>8. ASSUME NEW m \in Nodes, NEW i \in Jobs, NEW st \in Outcomes, JobEnds(m, i, st)
      PROVE  TraceInv'
  <2>1. st \in States /\ Terminal(st)
    BY JobControlAssumption DEF States, Terminal
  <2>2. Tell(m, i, st, FALSE) /\ run' = [run EXCEPT ![m] = @ \ {i}] /\ msg' = msg
    BY <1>8 DEF JobEnds
  <2>3. Endings' /\ i \in JobsIn(done'[m]) /\ \A n \in Nodes : JobsIn(done[n]) \subseteq JobsIn(done'[n])
    BY <1>0, <2>1, <2>2, TellTraces
  <2>4. \A n \in Nodes : Traces(n) \subseteq Traces(n)' /\ Coming(n)' = Coming(n)
    BY <1>0, <1>8, <2>2, <2>3 DEF JobEnds, Traces, Coming
  <2>5. \A j \in Jobs : Carried(j)
    BY <1>8, <2>4 DEF JobEnds, Carried
  <2>6. Exchange'
    BY <1>0, <1>8 DEF JobEnds, Exchange
  <2> QED  BY <2>3, <2>5, <2>6, CarriedIsEnough
<1> QED  BY <1>1, <1>2, <1>4, <1>5, <1>6, <1>7, <1>8, Zenon DEF AgentStep

LEMMA TraceTime == ASSUME TypeOK, TraceInv, TimeStep PROVE TraceInv'
<1> USE DEF store, tick, requests, memory, agents, wire, history
<1>1. Exchange' /\ Endings'
  BY DEF TimeStep, FallSilent, Age, TraceInv, Exchange, Endings
<1>2. ASSUME NEW n \in Nodes, FallSilent(n) PROVE \A j \in Jobs : Carried(j)
  BY <1>2 DEF FallSilent, Carried, Traces, Coming
<1>3. ASSUME NEW i \in Jobs, Age(i) PROVE \A j \in Jobs : Carried(j)
  <2>1. \A j \in Jobs : job'[j].node = job[j].node /\ job'[j].state = job[j].state
    BY <1>3 DEF Age, TypeOK, JobRec
  <2> QED  BY <1>3, <2>1 DEF Age, Carried, Traces, Coming
<1> QED  BY <1>1, <1>2, <1>3, CarriedIsEnough, Zenon DEF TimeStep

LEMMA TraceFault == ASSUME TypeOK, TraceInv, FaultStep PROVE TraceInv'
<1> USE DEF store, tick, requests, memory, agents, wire, history
<1>0. /\ msg \in [Nodes -> Msg] /\ link \in [Nodes -> {"idle", "sent", "handling", "reclaiming", "replied"}]
      /\ Exchange /\ Endings /\ LaunchesIn(<<>>) = {} /\ JobsIn({}) = {}
      /\ NoMsg.actions = <<>> /\ NoMsg.reports = {} /\ NoMsg.acked = {}
  BY DEF TypeOK, TraceInv, LaunchesIn, NoMsg, JobsIn
<1>1. ASSUME ControllerRestart PROVE TraceInv'
  <2>1. /\ job' = job /\ run' = run /\ done' = done /\ todo' = todo /\ marked' = {}
        /\ \A n \in Nodes : /\ msg'[n].actions = msg[n].actions
                            /\ msg'[n].reports \subseteq msg[n].reports
                            /\ msg'[n].acked \subseteq msg[n].acked
                            /\ link'[n] # link[n] => link'[n] = "idle" /\ msg'[n].actions = <<>>
    BY <1>0, <1>1 DEF ControllerRestart, Exchange
  <2>2. ASSUME NEW j \in Jobs, NEW n \in Nodes, job[j].state = "RUNNING", job[j].node = n
        PROVE  /\ j \in marked \cup LaunchesIn(pending[n]) => j \in dropped'
               /\ j \in dropped => j \in dropped'
    BY <1>1, <2>2 DEF ControllerRestart, RunningOn
  <2>3. \A n \in Nodes : /\ Traces(n) \subseteq Traces(n)' \cup LaunchesIn(pending[n])
                        /\ Coming(n) \subseteq Coming(n)' \cup LaunchesIn(pending[n])
    BY <2>1 DEF Traces, Coming
  <2>4. \A j \in Jobs : Carried(j)
    BY <2>1, <2>2, <2>3 DEF Carried
  <2>5. Exchange' /\ Endings'
    BY <1>0, <2>1 DEF Exchange, Endings
  <2> QED  BY <2>4, <2>5, CarriedIsEnough
<1>2. ASSUME NEW m \in Nodes, RequestLost(m) PROVE TraceInv'
  <2>1. \A n \in Nodes : /\ msg'[n].actions = msg[n].actions
                        /\ msg'[n].reports \subseteq msg[n].reports
                        /\ msg'[n].acked \subseteq msg[n].acked
    BY <1>0, <1>2 DEF RequestLost, Exchange
  <2>2. \A j \in Jobs : Carried(j)
    BY <1>2, <2>1 DEF RequestLost, Carried, Traces, Coming
  <2>3. Exchange' /\ Endings'
    BY <1>0, <1>2, <2>1 DEF RequestLost, Exchange, Endings
  <2> QED  BY <2>2, <2>3, CarriedIsEnough
<1>3. ASSUME NEW m \in Nodes, ReplyLost(m) PROVE TraceInv'
  <2>1. /\ job' = job /\ run' = run /\ done' = done /\ todo' = todo /\ pending' = pending
        /\ plan' = plan /\ marked' = marked /\ msg'[m] = NoMsg
        /\ \A n \in Nodes \ {m} : msg'[n] = msg[n]
        /\ dropped' = dropped \cup (LaunchesIn(msg[m].actions) \cap RunningOn(m))
    BY <1>0, <1>3 DEF ReplyLost
  <2>2. ASSUME NEW j \in Jobs, NEW n \in Nodes, job[j].state = "RUNNING", job[j].node = n
        PROVE  /\ j \in Traces(n) => j \in dropped' \cup Traces(n)'
               /\ j \in Coming(n) => j \in dropped' \cup Coming(n)'
    BY <2>1, <2>2 DEF Traces, Coming, RunningOn
  <2>3. \A n \in Nodes : msg'[n].acked \subseteq msg[n].acked
    BY <1>0, <2>1
  <2>4. \A j \in Jobs : Carried(j)
    BY <2>1, <2>2, <2>3 DEF Carried
  <2>5. Exchange' /\ Endings'
    BY <1>0, <1>3, <2>1 DEF ReplyLost, Exchange, Endings
  <2> QED  BY <2>4, <2>5, CarriedIsEnough
<1>4. ASSUME NEW m \in Nodes, AgentRestart(m) PROVE TraceInv'
  <2>1. /\ job' = job /\ pending' = pending /\ msg' = msg /\ plan' = plan /\ marked' = marked
        /\ \A n \in Nodes \ {m} : run'[n] = run[n] /\ done'[n] = done[n] /\ todo'[n] = todo[n]
        /\ done'[m] = {} /\ todo'[m] = <<>>
        /\ dropped' = dropped \cup (RunningOn(m) \cap
                  (run[m] \cup JobsIn(done[m]) \cup LaunchesIn(todo[m])))
    BY <1>4 DEF AgentRestart, TypeOK
  <2>2. ASSUME NEW j \in Jobs, NEW n \in Nodes, job[j].state = "RUNNING", job[j].node = n
        PROVE  j \in Traces(n) => j \in dropped' \cup Traces(n)'
    BY <2>1, <2>2 DEF Traces, Coming, RunningOn
  <2>3. \A n \in Nodes : Coming(n)' = Coming(n)
    BY <2>1 DEF Coming
  <2>4. \A j \in Jobs : Carried(j)
    BY <2>1, <2>2, <2>3 DEF Carried
  <2>5. Exchange' /\ Endings'
    BY <1>0, <1>4, <2>1 DEF AgentRestart, Exchange, Endings
  <2> QED  BY <2>4, <2>5, CarriedIsEnough
<1>5. ASSUME NEW m \in Nodes, KillFails(m) PROVE TraceInv'
  <2>1. /\ todo[m] \in Seq(Action) /\ todo[m] # <<>> /\ Head(todo[m]).kind # "launch"
        /\ todo'[m] = Tail(todo[m]) /\ \A n \in Nodes \ {m} : todo'[n] = todo[n]
    BY <1>5 DEF KillFails, NextIs, TypeOK
  <2>2. ASSUME NEW n \in Nodes PROVE LaunchesIn(todo[n]) \subseteq LaunchesIn(todo'[n])
    <3>1. CASE n = m
      <4>1. \A j \in LaunchesIn(todo[m]) : j \in Jobs
        BY DEF LaunchesIn
      <4> QED  BY <2>1, <3>1, <4>1, TailLaunches
    <3>2. CASE n # m
      BY <2>1, <3>2
    <3> QED  BY <3>1, <3>2
  <2>3. \A n \in Nodes : Traces(n) \subseteq Traces(n)' /\ Coming(n)' = Coming(n)
    BY <1>5, <2>2 DEF KillFails, Traces, Coming
  <2>4. \A j \in Jobs : Carried(j)
    BY <1>5, <2>3 DEF KillFails, Carried
  <2>5. Exchange' /\ Endings'
    BY <1>0, <1>5, <2>1 DEF KillFails, NextIs, Exchange, Endings
  <2> QED  BY <2>4, <2>5, CarriedIsEnough
<1>6. ASSUME NEW m \in Nodes, ReadReportFails(m) PROVE TraceInv'
  <2>1. PICK rep \in Oldest(msg[m].reports) :
          /\ msg' = [msg EXCEPT ![m] = Settle(@, rep)]
          /\ dropped' = dropped \cup ({rep.job} \cap RunningOn(m))
    BY <1>6 DEF ReadReportFails
  <2>2. msg[m] \in Msg /\ rep \in Report /\ rep.job \in Jobs
    <3>1. msg[m] \in Msg /\ rep \in msg[m].reports
      BY <1>0 DEF Oldest
    <3> QED  BY <3>1 DEF Msg, Report
  <2>3. /\ msg'[m].actions = msg[m].actions /\ msg'[m].reports \subseteq msg[m].reports
        /\ msg'[m].acked \subseteq msg[m].acked \cup {rep.job}
        /\ \A n \in Nodes \ {m} : msg'[n] = msg[n]
    <3>1. msg'[m] = Settle(msg[m], rep) /\ \A n \in Nodes \ {m} : msg'[n] = msg[n]
      BY <1>0, <2>1
    <3> QED  BY <2>2, <3>1, MsgKeeps
  <2>4. \A n \in Nodes : Traces(n)' = Traces(n) /\ Coming(n)' = Coming(n)
    BY <1>6, <2>3 DEF ReadReportFails, Traces, Coming
  <2>5. job[rep.job].state = "RUNNING" /\ job[rep.job].node = m => rep.job \in dropped'
    BY <2>1, <2>2 DEF RunningOn
  <2>6. \A j \in Jobs : Carried(j)
    BY <1>6, <2>1, <2>3, <2>4, <2>5 DEF ReadReportFails, Carried
  <2>7. Exchange' /\ Endings'
    BY <1>0, <1>6, <2>3 DEF ReadReportFails, Exchange, Endings
  <2> QED  BY <2>6, <2>7, CarriedIsEnough
<1>7. ASSUME NEW m \in Nodes, WriteReportFails(m) PROVE TraceInv'
  <2>1. PICK rep \in Oldest(msg[m].reports) : msg' = [msg EXCEPT ![m] = Skip(@, rep)]
    BY <1>7 DEF WriteReportFails
  <2>2. msg[m] \in Msg /\ rep \in Report
    BY <1>0 DEF Oldest, Msg
  <2>3. \A n \in Nodes : /\ msg'[n].actions = msg[n].actions
                        /\ msg'[n].reports \subseteq msg[n].reports
                        /\ msg'[n].acked = msg[n].acked
    <3>1. msg'[m] = Skip(msg[m], rep) /\ \A n \in Nodes \ {m} : msg'[n] = msg[n]
      BY <1>0, <2>1
    <3> QED  BY <2>2, <3>1, MsgKeeps
  <2>4. \A j \in Jobs : Carried(j)
    BY <1>7, <2>3 DEF WriteReportFails, Carried, Traces, Coming
  <2>5. Exchange' /\ Endings'
    BY <1>0, <1>7, <2>3 DEF WriteReportFails, Exchange, Endings
  <2> QED  BY <2>4, <2>5, CarriedIsEnough
<1> QED  BY <1>1, <1>2, <1>3, <1>4, <1>5, <1>6, <1>7, Zenon DEF FaultStep

LEMMA TraceStep ==
  \* Every step of every actor.
  TypeOK /\ TraceInv /\ [Next]_vars => TraceInv'
<1>1. ASSUME TypeOK, TraceInv, Next PROVE TraceInv'
  BY <1>1, TraceUser, TraceAdmin, TraceRun, TraceHeartbeat, TraceAgent, TraceTime,
     TraceFault, Zenon DEF Next
<1>2. ASSUME TraceInv, UNCHANGED vars PROVE TraceInv'
  <2>1. \A j \in Jobs : Carried(j)
    BY <1>2 DEF Carried, Traces, Coming, vars, store, tick, requests, memory, agents, wire, history
  <2>2. Exchange' /\ Endings'
    BY <1>2 DEF TraceInv, Exchange, Endings, vars, agents, wire
  <2> QED  BY <1>2, <2>1, <2>2, CarriedIsEnough
<1> QED  BY <1>1, <1>2

\* A job recorded as RUNNING is always somewhere between the scheduling pass and
\* its node's unacknowledged reports, unless a crash or a lost response took its
\* last trace (controller.go schedule, HandleHeartbeat; client.go RunLoop; agent.go
\* AckDone).
THEOREM AccountedHolds == Spec => []Accounted
<1> DEFINE Inv == TypeOK /\ TraceInv
<1>1. Init => Inv
  BY TypeInit, TraceInit
<1>2. Inv /\ [Next]_vars => Inv'
  BY TypeStep, TraceStep
<1>3. Inv => Accounted
  <2>1. ASSUME TraceInv, NEW j \in Jobs, job[j].state = "RUNNING"
        PROVE  \E n \in Nodes : job[j].node = n /\ j \in dropped \cup marked \cup Traces(n)
    BY <2>1 DEF TraceInv, Tracked
  <2> QED  BY <2>1 DEF Accounted, Traces, Coming
<1> QED  BY <1>1, <1>2, <1>3, PTL DEF Spec

-----------------------------------------------------------------------------
(* Reclaims spare the living *)

\* From the moment a heartbeat is put together until it is answered, the node
\* gains no job that it has not claimed: actions are carried out between
\* exchanges only.
Claimed == \A n \in Nodes : link[n] \in {"sent", "handling", "reclaiming"} =>
             run[n] \cup JobsIn(done[n]) \subseteq msg[n].claimed

\* What the handler takes for lost was not claimed.
NotClaimed == \A n \in Nodes : msg[n].lost # {} =>
                link[n] = "reclaiming" /\ msg[n].lost \cap msg[n].claimed = {}

LEMMA ClaimsUntouched ==
  \* Steps that leave the agents and the exchanges alone.
  ASSUME Claimed, NotClaimed, UNCHANGED <<run, done, link, msg>>
  PROVE  Claimed' /\ NotClaimed'
BY DEF Claimed, NotClaimed

LEMMA ClaimsHeartbeat ==
  \* The handler keeps to the claims it was sent.
  ASSUME TypeOK, Claimed, NotClaimed, HeartbeatStep
  PROVE  Claimed' /\ NotClaimed'
<1> USE DEF agents
<1>0. msg \in [Nodes -> Msg] /\ link \in [Nodes -> {"idle", "sent", "handling", "reclaiming", "replied"}]
  BY DEF TypeOK
<1>1. ASSUME NEW m \in Nodes, HeartbeatArrives(m) PROVE Claimed' /\ NotClaimed'
  BY <1>0, <1>1 DEF HeartbeatArrives, Claimed, NotClaimed
<1>2. ASSUME NEW m \in Nodes, ReadReport(m) \/ WriteReport(m) PROVE Claimed' /\ NotClaimed'
  <2>1. PICK rep \in Oldest(msg[m].reports) :
          \/ msg' = [msg EXCEPT ![m] = Settle(@, rep)]
          \/ msg' = [msg EXCEPT ![m] = [msg[m] EXCEPT !.got = Got(job[rep.job], m)]]
    BY <1>2 DEF ReadReport, WriteReport
  <2>2. msg[m] \in Msg
    BY <1>0
  <2>3. \A x \in {Settle(msg[m], rep), [msg[m] EXCEPT !.got = Got(job[rep.job], m)]} :
          x.claimed = msg[m].claimed /\ x.lost = msg[m].lost
    BY <2>2 DEF Settle, Msg
  <2>4. \A n \in Nodes : msg'[n].claimed = msg[n].claimed /\ msg'[n].lost = msg[n].lost
    BY <1>0, <2>1, <2>3
  <2> QED  BY <1>2, <2>4 DEF ReadReport, WriteReport, Claimed, NotClaimed
<1>3. ASSUME NEW m \in Nodes, FindUnclaimed(m) PROVE Claimed' /\ NotClaimed'
  <2>1. /\ msg'[m].claimed = msg[m].claimed /\ msg'[m].lost = Unclaimed(m)
        /\ \A n \in Nodes \ {m} : msg'[n] = msg[n] /\ link'[n] = link[n]
        /\ link[m] = "handling" /\ link'[m] = "reclaiming"
    BY <1>0, <1>3 DEF FindUnclaimed, Msg
  <2>2. Unclaimed(m) \cap msg[m].claimed = {}
    BY DEF Unclaimed
  <2> QED  BY <1>3, <2>1, <2>2 DEF FindUnclaimed, Claimed, NotClaimed
<1>4. ASSUME NEW m \in Nodes, NEW j \in Jobs, Reclaim(m, j) PROVE Claimed' /\ NotClaimed'
  <2>1. /\ msg'[m].claimed = msg[m].claimed /\ msg'[m].lost \subseteq msg[m].lost
        /\ \A n \in Nodes \ {m} : msg'[n] = msg[n]
    BY <1>0, <1>4 DEF Reclaim, Msg
  <2> QED  BY <1>4, <2>1 DEF Reclaim, Claimed, NotClaimed
<1>5. ASSUME NEW m \in Nodes, Reply(m) PROVE Claimed' /\ NotClaimed'
  <2>1. /\ msg'[m].lost = {} /\ link'[m] = "replied"
        /\ \A n \in Nodes \ {m} : msg'[n] = msg[n] /\ link'[n] = link[n]
    BY <1>0, <1>5 DEF Reply, Msg
  <2> QED  BY <1>5, <2>1 DEF Reply, Claimed, NotClaimed
<1> QED  BY <1>1, <1>2, <1>3, <1>4, <1>5, Zenon DEF HeartbeatStep

LEMMA ClaimsAgent ==
  \* The agent claims what it has, and between exchanges only it gains more.
  ASSUME TypeOK, Claimed, NotClaimed, AgentStep
  PROVE  Claimed' /\ NotClaimed'
<1> USE DEF wire
<1>0. /\ msg \in [Nodes -> Msg] /\ run \in [Nodes -> SUBSET Jobs]
      /\ done \in [Nodes -> SUBSET Report] /\ NoMsg.lost = {}
      /\ link \in [Nodes -> {"idle", "sent", "handling", "reclaiming", "replied"}]
  BY DEF TypeOK, NoMsg
<1>1. ASSUME NEW m \in Nodes, SendHeartbeat(m) PROVE Claimed' /\ NotClaimed'
  <2>1. /\ msg'[m].claimed = run[m] \cup JobsIn(done[m]) /\ msg'[m].lost = {}
        /\ \A n \in Nodes \ {m} : msg'[n] = msg[n] /\ link'[n] = link[n]
        /\ run' = run /\ done' = done
    BY <1>0, <1>1 DEF SendHeartbeat, NoMsg
  <2> QED  BY <2>1 DEF Claimed, NotClaimed
<1>2. ASSUME NEW m \in Nodes, ReceiveReply(m) PROVE Claimed' /\ NotClaimed'
  <2>1. /\ msg'[m].lost = {} /\ link'[m] = "idle" /\ run' = run
        /\ \A n \in Nodes \ {m} : msg'[n] = msg[n] /\ link'[n] = link[n] /\ done'[n] = done[n]
    BY <1>0, <1>2 DEF ReceiveReply
  <2> QED  BY <2>1 DEF Claimed, NotClaimed
<1>3. ASSUME NEW m \in Nodes, RefuseLaunch(m) \/ StartJob(m) \/ LaunchFails(m) \/ KillJob(m)
      PROVE  Claimed' /\ NotClaimed'
  <2>1. link[m] = "idle"
    BY <1>3 DEF RefuseLaunch, StartJob, LaunchFails, KillJob, NextIs
  <2>2. /\ link' = link /\ msg' = msg
        /\ \A n \in Nodes \ {m} : run'[n] = run[n] /\ done'[n] = done[n]
    BY <1>0, <1>3 DEF RefuseLaunch, StartJob, LaunchFails, KillJob, Tell
  <2> QED  BY <2>1, <2>2 DEF Claimed, NotClaimed
<1>4. ASSUME NEW m \in Nodes, NEW j \in Jobs, NEW st \in Outcomes, JobEnds(m, j, st)
      PROVE  Claimed' /\ NotClaimed'
  <2>1. PICK new : new.job = j /\ done' = [done EXCEPT ![m] = @ \cup {new}]
    <3>1. [job |-> j, st |-> st, refused |-> FALSE, at |-> serial[m] + 1].job = j
      OBVIOUS
    <3> QED  BY <1>4, <3>1 DEF JobEnds, Tell
  <2>2. /\ run'[m] \cup JobsIn(done'[m]) = run[m] \cup JobsIn(done[m])
        /\ \A n \in Nodes \ {m} : run'[n] = run[n] /\ done'[n] = done[n]
    BY <1>0, <1>4, <2>1 DEF JobEnds, JobsIn
  <2> QED  BY <1>4, <2>2 DEF JobEnds, Claimed, NotClaimed
<1> QED  BY <1>1, <1>2, <1>3, <1>4, Zenon DEF AgentStep

LEMMA ClaimsFault ==
  \* A fault ends an exchange or forgets a report.
  ASSUME TypeOK, Claimed, NotClaimed, FaultStep
  PROVE  Claimed' /\ NotClaimed'
<1> USE DEF agents, wire
<1>0. /\ msg \in [Nodes -> Msg] /\ NoMsg.lost = {}
      /\ link \in [Nodes -> {"idle", "sent", "handling", "reclaiming", "replied"}]
  BY DEF TypeOK, NoMsg
<1>1. ASSUME ControllerRestart PROVE Claimed' /\ NotClaimed'
  <2>1. \A n \in Nodes : \/ /\ link'[n] = "replied" /\ link[n] = "replied"
                           /\ msg'[n] = msg[n]
                        \/ /\ link'[n] = "idle"
                           /\ msg'[n] = NoMsg
    BY <1>1 DEF ControllerRestart
  <2> QED  BY <1>0, <1>1, <2>1 DEF ControllerRestart, Claimed, NotClaimed
<1>2. ASSUME NEW m \in Nodes, RequestLost(m) \/ ReplyLost(m) PROVE Claimed' /\ NotClaimed'
  <2>1. /\ msg'[m].lost = {} /\ link'[m] = "idle" /\ run' = run /\ done' = done
        /\ \A n \in Nodes \ {m} : msg'[n] = msg[n] /\ link'[n] = link[n]
    BY <1>0, <1>2 DEF RequestLost, ReplyLost
  <2> QED  BY <2>1 DEF Claimed, NotClaimed
<1>3. ASSUME NEW m \in Nodes, ReadReportFails(m) \/ WriteReportFails(m)
      PROVE  Claimed' /\ NotClaimed'
  <2>1. PICK rep \in Oldest(msg[m].reports) : \/ msg' = [msg EXCEPT ![m] = Settle(@, rep)]
                                              \/ msg' = [msg EXCEPT ![m] = Skip(@, rep)]
    BY <1>3 DEF ReadReportFails, WriteReportFails
  <2>2. \A x \in {Settle(msg[m], rep), Skip(msg[m], rep)} :
          x.claimed = msg[m].claimed /\ x.lost = msg[m].lost
    <3>1. msg[m] \in Msg
      BY <1>0
    <3> QED  BY <3>1 DEF Settle, Skip, Msg
  <2>3. \A n \in Nodes : msg'[n].claimed = msg[n].claimed /\ msg'[n].lost = msg[n].lost
    BY <1>0, <2>1, <2>2
  <2> QED  BY <1>3, <2>3 DEF ReadReportFails, WriteReportFails, Claimed, NotClaimed
<1>4. ASSUME NEW m \in Nodes, AgentRestart(m) PROVE Claimed' /\ NotClaimed'
  <2>1. /\ link[m] = "idle" /\ link' = link /\ msg' = msg
        /\ \A n \in Nodes \ {m} : run'[n] = run[n] /\ done'[n] = done[n]
    BY <1>4 DEF AgentRestart
  <2> QED  BY <2>1 DEF Claimed, NotClaimed
<1>5. ASSUME NEW m \in Nodes, KillFails(m) PROVE Claimed' /\ NotClaimed'
  BY <1>5, ClaimsUntouched DEF KillFails
<1> QED  BY <1>1, <1>2, <1>3, <1>4, <1>5, Zenon DEF FaultStep

\* A reclaim never touches a job its node still runs or still has a result for,
\* whatever is lost, resent or restarted (controller.go reclaimUnclaimed; agent.go
\* ClaimedJobs).
THEOREM ReclaimSparesLiveHolds == Spec => []ReclaimSparesLive
<1> DEFINE Inv == TypeOK /\ Claimed /\ NotClaimed
<1>1. Init => Inv
  <2>1. Init => Claimed /\ NotClaimed
    <3>1. NoMsg.lost = {}
      BY DEF NoMsg
    <3> QED  BY <3>1 DEF Init, Claimed, NotClaimed
  <2> QED  BY <2>1, TypeInit
<1>2. Inv /\ [Next]_vars => Inv'
  <2>1. TypeOK /\ [Next]_vars => TypeOK'
    BY TypeStep
  <2>2. ASSUME Inv, UserStep \/ AdminStep \/ RunStep \/ TimeStep PROVE Claimed' /\ NotClaimed'
    <3>1. UNCHANGED <<run, done, link, msg>>
      BY <2>2 DEF UserStep, AdminStep, RunStep, TimeStep, Submit, CancelRead, CancelWrite, Hold,
         Release, RequeueRead, RequeueWrite, DrainNode, ResumeNode, FindGone, ExpireNode,
         FindAbandoned, GiveUp, SchedulePass, ScheduleMark, ScheduleEnqueue, FallSilent, Age,
         agents, wire
    <3> QED  BY <2>2, <3>1, ClaimsUntouched, SMTT(60)
  <2>3. ASSUME Inv, UNCHANGED vars PROVE Claimed' /\ NotClaimed'
    BY <2>3, ClaimsUntouched DEF vars, agents, wire
  <2> QED  BY <2>1, <2>2, <2>3, ClaimsHeartbeat, ClaimsAgent, ClaimsFault, Zenon DEF Next
<1>3. Inv => ReclaimSparesLive
  BY DEF Claimed, NotClaimed, ReclaimSparesLive
<1> QED  BY <1>1, <1>2, <1>3, PTL DEF Spec

-----------------------------------------------------------------------------
(* The note that a node is unreachable *)

\* A step after which an annotated job was annotated before, and its node is
\* still silent or DOWN if it was.
NoteKept ==
  \A j \in Jobs : job'[j].state = "RUNNING" /\ job'[j].why = "unreachable" =>
    /\ job[j].state = "RUNNING" /\ job[j].why = "unreachable" /\ job'[j].node = job[j].node
    /\ \A n \in Nodes \ AdminNodes :
         job[j].node = n /\ (reg[n].silent >= 1 \/ reg[n].state = "DOWN") =>
           reg'[n].silent >= 1 \/ reg'[n].state = "DOWN"

LEMMA NoteKeptIsEnough ==
  \* Such a step keeps the note honest.
  ASSUME NoteIsHonest, NoteKept
  PROVE  NoteIsHonest'
BY DEF NoteIsHonest, NoteKept

LEMMA NoteSteps ==
  \* What the store's statements do to the note.
  ASSUME NEW r \in JobRec
  PROVE  /\ \A n \in Nodes : MarkRunning(r, n).why = ""
         /\ \A st \in States : MarkFinished(r, st).why = ""
         /\ RequeueJob(r).why = "" /\ WriteOff(r).why = "lost"
BY DEF MarkRunning, MarkFinished, RequeueJob, WriteOff, JobRec

LEMMA NoteStep ==
  \* No step annotates a job whose node is heard.
  ASSUME TypeOK, NoteIsHonest, Next
  PROVE  NoteIsHonest'
<1> USE DEF store, tick, requests, memory, agents, wire, history
<1>0. job \in [Jobs -> JobRec] /\ reg \in [Nodes -> NodeRec] /\ msg \in [Nodes -> Msg]
  BY DEF TypeOK
<1>1. CASE UserStep
  <2>1. PICK j \in Jobs : \/ Submit(j) \/ CancelRead(j) \/ CancelWrite(j)
                          \/ Hold(j) \/ Release(j) \/ RequeueRead(j) \/ RequeueWrite(j)
    BY <1>1, Zenon DEF UserStep
  <2>2. /\ reg' = reg /\ \A i \in Jobs \ {j} : job'[i] = job[i]
        /\ job'[j].state # "RUNNING" \/ job'[j] = job[j]
    <3>1. CASE Submit(j)
      BY <1>0, <3>1 DEF Submit, JobRec
    <3>2. CASE CancelWrite(j)
      BY <1>0, <3>2, StoreKeeps DEF CancelWrite, States
    <3>3. CASE RequeueWrite(j)
      BY <1>0, <3>3, StoreKeeps DEF RequeueWrite
    <3> QED  BY <2>1, <3>1, <3>2, <3>3 DEF CancelRead, Hold, Release, RequeueRead
  <2>3. NoteKept
    BY <2>2 DEF NoteKept
  <2> QED  BY <2>3, NoteKeptIsEnough
<1>2. CASE AdminStep
  <2>1. job' = job /\ \A n \in Nodes \ AdminNodes : reg'[n] = reg[n]
    BY <1>0, <1>2 DEF AdminStep, DrainNode, ResumeNode
  <2> QED  BY <2>1, NoteKeptIsEnough DEF NoteKept
<1>3. CASE RunStep
  <2>1. ASSUME NEW m \in Nodes, ExpireNode(m) PROVE NoteIsHonest'
    <3>1. /\ reg'[m].state = "DOWN" /\ \A n \in Nodes \ {m} : reg'[n] = reg[n]
          /\ \A j \in Jobs : /\ job'[j].node = job[j].node /\ job'[j].state = job[j].state
                             /\ job[j].node # m => job'[j] = job[j]
      BY <1>0, <2>1 DEF ExpireNode, RunningOn, JobRec, NodeRec
    <3> QED  BY <3>1 DEF NoteIsHonest
  <2>2. ASSUME NEW j \in Jobs, GiveUp(j) \/ ScheduleMark(j) PROVE NoteIsHonest'
    <3>1. reg' = reg /\ \A i \in Jobs \ {j} : job'[i] = job[i]
      BY <1>0, <2>2 DEF GiveUp, ScheduleMark
    <3>2. job'[j].why \in {"", "lost"}
      <4>1. CASE GiveUp(j)
        BY <1>0, <4>1, NoteSteps DEF GiveUp
      <4>2. CASE ScheduleMark(j)
        <5>1. plan[j] \in Nodes
          BY <4>2, JobControlAssumption DEF ScheduleMark, TypeOK
        <5> QED  BY <1>0, <4>2, <5>1, NoteSteps DEF ScheduleMark
      <4> QED  BY <2>2, <4>1, <4>2
    <3> QED  BY <3>1, <3>2, NoteKeptIsEnough DEF NoteKept
  <2>3. ASSUME FindGone \/ FindAbandoned \/ SchedulePass \/ \E j \in Jobs : ScheduleEnqueue(j)
        PROVE  NoteIsHonest'
    <3>1. job' = job /\ reg' = reg
      BY <2>3 DEF FindGone, FindAbandoned, SchedulePass, ScheduleEnqueue
    <3> QED  BY <3>1, NoteKeptIsEnough DEF NoteKept
  <2> QED  BY <1>3, <2>1, <2>2, <2>3, Zenon DEF RunStep
<1>4. CASE HeartbeatStep
  <2>1. ASSUME NEW m \in Nodes, HeartbeatArrives(m) PROVE NoteIsHonest'
    <3>1. \A n \in Nodes \ {m} : reg'[n] = reg[n]
      BY <1>0, <2>1 DEF HeartbeatArrives
    <3>2. ASSUME NEW j \in Jobs, job'[j].state = "RUNNING", job'[j].why = "unreachable"
          PROVE  job'[j] = job[j] /\ job[j].node # m
      <4>1. job'[j] = Seen(job[j], m) /\ job[j] \in JobRec
        BY <1>0, <2>1 DEF HeartbeatArrives
      <4> QED  BY <3>2, <4>1 DEF Seen, JobRec
    <3> QED  BY <3>1, <3>2, NoteKeptIsEnough DEF NoteKept
  <2>2. ASSUME NEW m \in Nodes, WriteReport(m) PROVE NoteIsHonest'
    <3>1. PICK rep \in Oldest(msg[m].reports) :
            job' = [job EXCEPT ![rep.job] = IF rep.refused /\ msg[m].got # "WRITTEN OFF"
                                            THEN RequeueJob(@) ELSE MarkFinished(@, rep.st)]
      BY <2>2 DEF WriteReport
    <3>2. rep.job \in Jobs /\ rep.st \in States
      <4>1. msg[m] \in Msg /\ rep \in msg[m].reports
        BY <1>0 DEF Oldest
      <4> QED  BY <4>1 DEF Msg, Report
    <3>3. job'[rep.job].why = "" /\ \A i \in Jobs \ {rep.job} : job'[i] = job[i]
      BY <1>0, <3>1, <3>2, NoteSteps
    <3> QED  BY <2>2, <3>2, <3>3, NoteKeptIsEnough DEF WriteReport, NoteKept
  <2>3. ASSUME NEW m \in Nodes, NEW j \in Jobs, Reclaim(m, j) PROVE NoteIsHonest'
    <3>1. job'[j].why = "" /\ \A i \in Jobs \ {j} : job'[i] = job[i]
      BY <1>0, <2>3, NoteSteps DEF Reclaim, States
    <3> QED  BY <2>3, <3>1, NoteKeptIsEnough DEF Reclaim, NoteKept
  <2>4. ASSUME NEW m \in Nodes, ReadReport(m) \/ FindUnclaimed(m) \/ Reply(m) PROVE NoteIsHonest'
    <3>1. job' = job /\ reg' = reg
      BY <2>4, ZenonT(60) DEF ReadReport, FindUnclaimed, Reply
    <3> QED  BY <3>1, NoteKeptIsEnough DEF NoteKept
  <2> QED  BY <1>4, <2>1, <2>2, <2>3, <2>4, Zenon DEF HeartbeatStep
<1>5. CASE AgentStep \/ FaultStep
  <2>1. job' = job /\ reg' = reg
    BY <1>5 DEF AgentStep, FaultStep, SendHeartbeat, ReceiveReply, RefuseLaunch, StartJob,
       LaunchFails, KillJob, JobEnds, RequestLost, ReadReportFails, WriteReportFails, ReplyLost,
       KillFails, AgentRestart, ControllerRestart
  <2> QED  BY <2>1, NoteKeptIsEnough DEF NoteKept
<1>6. CASE TimeStep
  <2>1. ASSUME NEW m \in Nodes, FallSilent(m) PROVE NoteIsHonest'
    <3>1. /\ job' = job /\ reg'[m].silent >= 1 /\ \A n \in Nodes \ {m} : reg'[n] = reg[n]
      <4>1. reg[m].silent \in 0..2 /\ reg'[m] = [reg[m] EXCEPT !.silent = @ + 1] /\ reg[m] \in NodeRec
        BY <1>0, <2>1 DEF FallSilent, NodeRec
      <4>2. reg'[m].silent = reg[m].silent + 1
        BY <4>1 DEF NodeRec
      <4> QED  BY <1>0, <2>1, <4>1, <4>2 DEF FallSilent
    <3> QED  BY <3>1, NoteKeptIsEnough DEF NoteKept
  <2>2. ASSUME NEW j \in Jobs, Age(j) PROVE NoteIsHonest'
    <3>1. reg' = reg /\ \A i \in Jobs : /\ job'[i].state = job[i].state
                                        /\ job'[i].node = job[i].node /\ job'[i].why = job[i].why
      BY <1>0, <2>2 DEF Age, JobRec
    <3> QED  BY <3>1, NoteKeptIsEnough DEF NoteKept
  <2> QED  BY <1>6, <2>1, <2>2, Zenon DEF TimeStep
<1> QED  BY <1>1, <1>2, <1>3, <1>4, <1>5, <1>6, Zenon DEF Next

\* squeue never shows a job as unreachable whose node is heard and not counted as
\* DOWN, on every node whose state no admin sets by hand (nodes.go
\* MarkJobsUnreachable, ClearUnreachable; controller.go HandleHeartbeat).
THEOREM NoteIsHonestHolds == Spec => []NoteIsHonest
<1>1. Init => TypeOK /\ NoteIsHonest
  <2>1. ASSUME Init PROVE \A j \in Jobs : job[j].state # "RUNNING"
    BY <2>1 DEF Init
  <2>2. Init => NoteIsHonest
    BY <2>1 DEF NoteIsHonest
  <2> QED  BY <2>2, TypeInit
<1>2. TypeOK /\ NoteIsHonest /\ [Next]_vars => (TypeOK /\ NoteIsHonest)'
  <2>1. ASSUME NoteIsHonest, UNCHANGED vars PROVE NoteIsHonest'
    BY <2>1 DEF NoteIsHonest, vars, store
  <2> QED  BY <2>1, TypeStep, NoteStep
<1> QED  BY <1>1, <1>2, PTL DEF Spec

-----------------------------------------------------------------------------
(* Results stand *)

\* What is told of a job that was not submitted yet: nothing, anywhere.
Unknown(j) == ~InHand(j) /\ j \notin requeueing /\ \A n \in Nodes : j \notin Traces(n)
Known == \A j \in Jobs : job[j].state = "NONE" => Unknown(j)

\* Reports are numbered, so that one of them is the oldest.
Ordered ==
  \A n \in Nodes : \A rep \in done[n] :
    rep.at <= serial[n] /\ \A other \in done[n] : other.at = rep.at => other = rep

\* What the handler works on is what the agent keeps until it is acknowledged, and
\* what it has read of a record is one of the states in which it goes on to write.
Mail ==
  \A n \in Nodes :
    /\ link[n] = "idle" => msg[n].reports = {}
    /\ msg[n].reports \subseteq done[n]
    /\ msg[n].got \in {"", "PENDING", "RUNNING", "WRITTEN OFF"}

ResultInv == Known /\ Ordered /\ Mail

\* Why the record of a job that has ended may change.
Excused(j) ==
  \/ InHand(j) \/ j \in requeueing
  \/ \E n \in Nodes : /\ msg[n].got = "WRITTEN OFF"
                      /\ \E rep \in Oldest(msg[n].reports) \cap done[n] :
                           rep.job = j /\ rep.st = job'[j].state

\* A step that takes up job j only while it waits or runs.
Spared(j) ==
  /\ job'[j].state = "NONE" => job[j].state = "NONE"
  /\ job[j].state \notin {"PENDING", "RUNNING"} => (InHand(j)' => InHand(j))
  /\ job[j].state = "NONE" =>
       /\ j \in requeueing' => j \in requeueing
       /\ \A n \in Nodes : j \in Traces(n)' => j \in Traces(n)
  /\ Terminal(job[j].state) /\ job'[j].state # job[j].state => Excused(j)

LEMMA SparedIsEnough ==
  \* A step that spares every job keeps the invariant.
  ASSUME ResultInv, \A j \in Jobs : Spared(j), Ordered', Mail'
  PROVE  ResultInv'
<1>1. ASSUME NEW j \in Jobs, job'[j].state = "NONE" PROVE Unknown(j)'
  <2>1. Spared(j) /\ (job[j].state = "NONE" => Unknown(j))
    BY DEF ResultInv, Known
  <2>2. job[j].state = "NONE" /\ job[j].state \notin {"PENDING", "RUNNING"} /\ Unknown(j)
    BY <1>1, <2>1 DEF Spared
  <2> QED  BY <2>1, <2>2 DEF Spared, Unknown
<1> QED  BY <1>1 DEF ResultInv, Known

LEMMA OldestOne ==
  \* The handler works on one report at a time.
  ASSUME Ordered, Mail, NEW n \in Nodes,
         NEW rep \in Oldest(msg[n].reports), NEW other \in Oldest(msg[n].reports),
         done[n] \subseteq Report
  PROVE  other = rep /\ rep \in done[n]
<1>1. rep \in done[n] /\ other \in done[n] /\ rep.at <= other.at /\ other.at <= rep.at
  BY DEF Oldest, Mail
<1>2. rep.at \in Nat /\ other.at \in Nat
  BY <1>1 DEF Report
<1>3. rep.at = other.at
  BY <1>1, <1>2
<1> QED  BY <1>1, <1>3 DEF Ordered

LEMMA ResultInit == Init => ResultInv
<1> SUFFICES ASSUME Init PROVE ResultInv
  OBVIOUS
<1>1. LaunchesIn(<<>>) = {} /\ JobsIn({}) = {} /\ Oldest({}) = {}
  BY DEF LaunchesIn, JobsIn, Oldest
<1>2. NoMsg.actions = <<>> /\ NoMsg.reports = {} /\ NoMsg.lost = {} /\ NoMsg.got = ""
  BY DEF NoMsg
<1>3. \A n \in Nodes : Traces(n) = {}
  BY <1>1, <1>2 DEF Init, Traces, Coming
<1>4. \A j \in Jobs : ~InHand(j)
  BY <1>1, <1>2 DEF Init, InHand
<1>5. Known
  BY <1>3, <1>4 DEF Init, Known, Unknown
<1>6. Ordered /\ Mail
  BY <1>2 DEF Init, Ordered, Mail
<1> QED  BY <1>5, <1>6 DEF ResultInv

LEMMA ResultUser ==
  \* What users ask for takes up jobs that wait or run, and requeues.
  ASSUME TypeOK, ResultInv, UserStep
  PROVE  (\A j \in Jobs : Spared(j)) /\ Ordered' /\ Mail'
<1> USE DEF store, tick, requests, memory, agents, wire, history
<1>1. PICK i \in Jobs : \/ Submit(i) \/ CancelRead(i) \/ CancelWrite(i)
                        \/ Hold(i) \/ Release(i) \/ RequeueRead(i) \/ RequeueWrite(i)
  BY Zenon DEF UserStep
<1>2. job[i] \in JobRec /\ job \in [Jobs -> JobRec] /\ pending \in [Nodes -> Seq(Action)]
  BY DEF TypeOK
<1>3. Ordered' /\ Mail'
  BY <1>1 DEF ResultInv, Ordered, Mail, Submit, CancelRead, CancelWrite, Hold, Release,
     RequeueRead, RequeueWrite
<1>4. \A n \in Nodes : LaunchesIn(pending'[n]) = LaunchesIn(pending[n])
  <2>1. \A q \in Seq(Action) : LaunchesIn(Append(q, Kill(i))) = LaunchesIn(q)
    BY Launches
  <2> QED  BY <1>1, <1>2, <2>1 DEF Submit, CancelRead, CancelWrite, Hold, Release,
     RequeueRead, RequeueWrite
<1>5. /\ \A n \in Nodes : Traces(n)' = Traces(n)
      /\ plan' = plan /\ giving' = giving /\ msg' = msg
  BY <1>1, <1>4 DEF Traces, Coming, Submit, CancelRead, CancelWrite, Hold, Release,
     RequeueRead, RequeueWrite
<1>6. /\ \A j \in Jobs \ {i} : job'[j] = job[j]
      /\ \A j \in Jobs \ {i} : j \in cancelling' => j \in cancelling
      /\ \A j \in Jobs \ {i} : j \in requeueing' => j \in requeueing
  BY <1>1, <1>2 DEF Submit, CancelRead, CancelWrite, Hold, Release, RequeueRead, RequeueWrite
<1>7. /\ job'[i].state = "NONE" => job[i].state = "NONE"
      /\ Terminal(job[i].state) /\ job'[i].state # job[i].state => i \in cancelling \cup requeueing
  <2>1. CASE Submit(i)
    BY <1>2, <2>1 DEF Submit, JobRec, Terminal
  <2>2. CASE CancelRead(i) \/ Hold(i) \/ Release(i) \/ RequeueRead(i)
    BY <2>2 DEF CancelRead, Hold, Release, RequeueRead
  <2>3. CASE CancelWrite(i)
    BY <1>2, <2>3, StoreKeeps DEF CancelWrite, States
  <2>4. CASE RequeueWrite(i)
    BY <1>2, <2>4, StoreKeeps DEF RequeueWrite
  <2> QED  BY <1>1, <2>1, <2>2, <2>3, <2>4
<1>8. /\ i \in cancelling' => i \in cancelling \/ job[i].state \in {"PENDING", "RUNNING"}
      /\ i \in requeueing' => i \in requeueing \/ job[i].state # "NONE"
  BY <1>1 DEF Submit, CancelRead, CancelWrite, Hold, Release, RequeueRead, RequeueWrite
<1>9. \A j \in Jobs : Spared(j)
  BY <1>5, <1>6, <1>7, <1>8 DEF Spared, Excused, InHand
<1> QED  BY <1>3, <1>9

LEMMA ResultAdmin ==
  \* Admins touch machines only.
  ASSUME ResultInv, AdminStep
  PROVE  (\A j \in Jobs : Spared(j)) /\ Ordered' /\ Mail'
<1> USE DEF AdminStep, DrainNode, ResumeNode, store, tick, requests, memory, agents, wire, history
<1>1. UNCHANGED <<job, plan, giving, cancelling, requeueing, msg, pending, run, done, todo>>
  OBVIOUS
<1>2. \A j \in Jobs : Spared(j)
  BY <1>1 DEF Spared, InHand, Traces, Coming
<1>3. Ordered' /\ Mail'
  BY DEF ResultInv, Ordered, Mail
<1> QED  BY <1>2, <1>3

LEMMA ResultRun ==
  \* The controller's loop takes up what it read as waiting or running.
  ASSUME TypeOK, ResultInv, RunStep
  PROVE  (\A j \in Jobs : Spared(j)) /\ Ordered' /\ Mail'
<1> USE DEF store, tick, requests, memory, agents, wire, history
<1>0. /\ job \in [Jobs -> JobRec] /\ plan \in [Jobs -> Nodes \cup {NoNode}]
      /\ pending \in [Nodes -> Seq(Action)] /\ NoNode \notin Nodes
  BY JobControlAssumption DEF TypeOK
<1>1. Ordered' /\ Mail'
  BY DEF RunStep, ResultInv, Ordered, Mail, SchedulePass, GiveUp, ScheduleMark,
         ScheduleEnqueue, ExpireNode, FindGone, FindAbandoned
<1>2. ASSUME SchedulePass PROVE \A j \in Jobs : Spared(j)
  <2>1. \A n \in Nodes : Traces(n)' = Traces(n)
    BY <1>2 DEF SchedulePass, Traces, Coming
  <2>2. \A j \in Jobs : plan'[j] # NoNode => job[j].state = "PENDING"
    BY <1>2 DEF SchedulePass, Queue
  <2> QED  BY <1>2, <2>1, <2>2 DEF SchedulePass, Spared, InHand
<1>3. ASSUME NEW i \in Jobs, GiveUp(i) PROVE \A j \in Jobs : Spared(j)
  <2>1. job'[i].state # "NONE" /\ InHand(i) /\ \A j \in Jobs \ {i} : job'[j] = job[j]
    BY <1>0, <1>3, StoreKeeps DEF GiveUp, InHand
  <2>2. \A n \in Nodes : Traces(n)' = Traces(n)
    BY <1>3 DEF GiveUp, Traces, Coming
  <2>3. \A j \in Jobs : InHand(j)' => InHand(j)
    BY <1>3 DEF GiveUp, InHand
  <2> QED  BY <1>3, <2>1, <2>2, <2>3 DEF GiveUp, Spared, Excused
<1>4. ASSUME NEW i \in Jobs, ScheduleMark(i) PROVE \A j \in Jobs : Spared(j)
  <2>1. plan[i] \in Nodes
    BY <1>0, <1>4 DEF ScheduleMark
  <2>2. job'[i].state # "NONE" /\ InHand(i) /\ \A j \in Jobs \ {i} : job'[j] = job[j]
    BY <1>0, <1>4, <2>1, StoreKeeps DEF ScheduleMark, InHand
  <2>3. \A n \in Nodes : Traces(n)' = Traces(n)
    BY <1>4 DEF ScheduleMark, Traces, Coming
  <2>4. \A j \in Jobs : InHand(j)' => InHand(j)
    BY <1>4 DEF ScheduleMark, InHand
  <2> QED  BY <1>4, <2>2, <2>3, <2>4 DEF ScheduleMark, Spared, Excused
<1>5. ASSUME NEW i \in Jobs, ScheduleEnqueue(i) PROVE \A j \in Jobs : Spared(j)
  <2>1. plan[i] \in Nodes
    BY <1>0, <1>5 DEF ScheduleEnqueue
  <2>2. \A n \in Nodes : LaunchesIn(pending'[n]) \subseteq LaunchesIn(pending[n]) \cup {i}
    BY <1>0, <1>5, <2>1, Launches DEF ScheduleEnqueue
  <2>3. \A n \in Nodes : Traces(n)' \subseteq Traces(n) \cup {i}
    BY <1>5, <2>2 DEF ScheduleEnqueue, Traces, Coming
  <2>4. job[i].state # "NONE"
    BY <1>0, <2>1 DEF ResultInv, Known, Unknown, InHand
  <2>5. \A j \in Jobs : InHand(j)' => InHand(j)
    BY <1>0, <1>5 DEF ScheduleEnqueue, InHand
  <2> QED  BY <1>5, <2>3, <2>4, <2>5 DEF ScheduleEnqueue, Spared
<1>6. ASSUME NEW m \in Nodes, ExpireNode(m) PROVE \A j \in Jobs : Spared(j)
  <2>1. /\ \A j \in Jobs : job'[j].state = job[j].state
        /\ \A n \in Nodes : LaunchesIn(pending'[n]) \subseteq LaunchesIn(pending[n])
    <3>1. LaunchesIn(<<>>) = {}
      BY DEF LaunchesIn
    <3> QED  BY <1>0, <1>6, <3>1 DEF ExpireNode, JobRec
  <2>2. \A n \in Nodes : Traces(n)' \subseteq Traces(n)
    BY <1>6, <2>1 DEF ExpireNode, Traces, Coming
  <2>3. \A j \in Jobs : InHand(j)' => InHand(j)
    BY <1>6 DEF ExpireNode, InHand
  <2> QED  BY <1>6, <2>1, <2>2, <2>3 DEF ExpireNode, Spared
<1>7. ASSUME FindGone PROVE \A j \in Jobs : Spared(j)
  BY <1>7 DEF FindGone, Spared, InHand, Traces, Coming
<1>8. ASSUME FindAbandoned PROVE \A j \in Jobs : Spared(j)
  <2>1. \A j \in giving' : job[j].state = "RUNNING"
    BY <1>8 DEF FindAbandoned
  <2>2. \A n \in Nodes : Traces(n)' = Traces(n)
    BY <1>8 DEF FindAbandoned, Traces, Coming
  <2> QED  BY <1>8, <2>1, <2>2 DEF FindAbandoned, Spared, InHand
<1> QED  BY <1>1, <1>2, <1>3, <1>4, <1>5, <1>6, <1>7, <1>8, Zenon DEF RunStep

LEMMA HandsShrink ==
  \* The handler lets go of what it was at.
  ASSUME NEW n \in Nodes, \A k \in Nodes \ {n} : msg'[k] = msg[k],
         msg'[n].lost \subseteq msg[n].lost, msg'[n].got \notin {"PENDING", "RUNNING"},
         UNCHANGED <<plan, giving, cancelling>>
  PROVE  \A j \in Jobs : InHand(j)' => InHand(j)
BY DEF InHand

LEMMA ResultHeartbeat ==
  \* The handler goes by what it read of a record.
  ASSUME TypeOK, Endings, ResultInv, HeartbeatStep
  PROVE  (\A j \in Jobs : Spared(j)) /\ Ordered' /\ Mail'
<1> USE DEF store, tick, requests, memory, agents, wire, history
<1>0. /\ job \in [Jobs -> JobRec] /\ msg \in [Nodes -> Msg] /\ pending \in [Nodes -> Seq(Action)]
      /\ link \in [Nodes -> {"idle", "sent", "handling", "reclaiming", "replied"}]
      /\ \A n \in Nodes : msg[n].reports \subseteq Report /\ done[n] \subseteq Report
      /\ Known /\ Ordered /\ Mail
  BY DEF TypeOK, Msg, ResultInv
<1>a. ASSUME UNCHANGED <<run, done, todo, pending>>, NEW m \in Nodes,
             \A n \in Nodes \ {m} : msg'[n] = msg[n], msg'[m].actions = msg[m].actions
      PROVE  \A n \in Nodes : Traces(n)' = Traces(n)
  BY <1>a DEF Traces, Coming
<1>b. ASSUME UNCHANGED <<done, serial>>, NEW m \in Nodes, link[m] \in {"handling", "reclaiming"},
             \A n \in Nodes \ {m} : msg'[n] = msg[n] /\ link'[n] = link[n], link'[m] # "idle",
             msg'[m].reports \subseteq msg[m].reports,
             msg'[m].got \in {"", "PENDING", "RUNNING", "WRITTEN OFF"}
      PROVE  Ordered' /\ Mail'
  BY <1>0, <1>b DEF Ordered, Mail
<1>c. ASSUME NEW m \in Nodes, NEW rep \in Oldest(msg[m].reports)
      PROVE  /\ rep \in done[m] /\ rep \in msg[m].reports /\ rep \in Report /\ rep.job \in Jobs
             /\ Terminal(rep.st) /\ rep.st \in States /\ msg[m] \in Msg
             /\ job[rep.job].state # "NONE"
  <2>1. rep \in done[m] /\ rep \in msg[m].reports /\ rep \in Report
    BY <1>0 DEF Oldest, Mail
  <2>2. rep.job \in Jobs /\ rep.st \in States
    BY <2>1 DEF Report
  <2>3. rep.job \in Traces(m)
    BY <2>1 DEF Traces, JobsIn
  <2> QED  BY <1>0, <2>1, <2>2, <2>3 DEF Endings, Known, Unknown
<1>d. ASSUME NEW m \in Nodes, NEW rep \in Oldest(msg[m].reports),
             msg' = [msg EXCEPT ![m] = Settle(@, rep)]
      PROVE  /\ msg'[m].got = "" /\ msg'[m].lost = msg[m].lost
             /\ msg'[m].actions = msg[m].actions /\ msg'[m].reports \subseteq msg[m].reports
             /\ \A n \in Nodes \ {m} : msg'[n] = msg[n]
  <2>1. msg[m] \in Msg /\ msg'[m] = Settle(msg[m], rep)
    BY <1>0, <1>d
  <2> QED  BY <1>0, <1>d, <2>1 DEF Settle, Msg
<1>1. ASSUME NEW m \in Nodes, HeartbeatArrives(m)
      PROVE  (\A j \in Jobs : Spared(j)) /\ Ordered' /\ Mail'
  <2>1. \A j \in Jobs : job'[j].state = job[j].state
    BY <1>0, <1>1, StoreKeeps DEF HeartbeatArrives
  <2>2. \A n \in Nodes : Traces(n)' = Traces(n)
    BY <1>1 DEF HeartbeatArrives, Traces, Coming
  <2>3. \A j \in Jobs : Spared(j)
    BY <1>1, <2>1, <2>2 DEF HeartbeatArrives, Spared, InHand
  <2>4. Ordered' /\ Mail'
    BY <1>0, <1>1 DEF HeartbeatArrives, Ordered, Mail
  <2> QED  BY <2>3, <2>4
<1>2. ASSUME NEW m \in Nodes, ReadReport(m)
      PROVE  (\A j \in Jobs : Spared(j)) /\ Ordered' /\ Mail'
  <2>1. PICK rep \in Oldest(msg[m].reports) :
          msg' = IF Terminal(Got(job[rep.job], m))
                 THEN [msg EXCEPT ![m] = Settle(@, rep)]
                 ELSE [msg EXCEPT ![m] = [msg[m] EXCEPT !.got = Got(job[rep.job], m)]]
    BY <1>2 DEF ReadReport
  <2>2. CASE Terminal(Got(job[rep.job], m))
    <3>1. msg' = [msg EXCEPT ![m] = Settle(@, rep)]
      BY <2>1, <2>2
    <3>2. /\ msg'[m].got = "" /\ msg'[m].lost = msg[m].lost
          /\ msg'[m].actions = msg[m].actions /\ msg'[m].reports \subseteq msg[m].reports
          /\ \A n \in Nodes \ {m} : msg'[n] = msg[n]
      BY <1>d, <3>1
    <3>3. \A n \in Nodes : Traces(n)' = Traces(n)
      BY <1>2, <1>a, <3>2 DEF ReadReport
    <3>4. \A j \in Jobs : InHand(j)' => InHand(j)
      BY <1>2, <3>2, HandsShrink DEF ReadReport
    <3>5. \A j \in Jobs : Spared(j)
      BY <1>2, <3>3, <3>4 DEF ReadReport, Spared
    <3>6. Ordered' /\ Mail'
      BY <1>2, <1>b, <3>2 DEF ReadReport
    <3> QED  BY <3>5, <3>6
  <2>3. CASE ~Terminal(Got(job[rep.job], m))
    <3>1. msg'[m] = [msg[m] EXCEPT !.got = Got(job[rep.job], m)] /\ \A n \in Nodes \ {m} : msg'[n] = msg[n]
      BY <1>0, <2>1, <2>3
    <3>2. /\ msg'[m].got = Got(job[rep.job], m) /\ msg'[m].lost = msg[m].lost
          /\ msg'[m].actions = msg[m].actions /\ msg'[m].reports = msg[m].reports
      BY <1>c, <3>1 DEF Msg
    <3>3. \A n \in Nodes : Traces(n)' = Traces(n)
      BY <1>2, <1>a, <3>1, <3>2 DEF ReadReport
    <3>4. job[rep.job].state \in States /\ job[rep.job].state # "NONE"
      BY <1>0, <1>c DEF JobRec
    <3>5. /\ Got(job[rep.job], m) \in {"PENDING", "RUNNING", "WRITTEN OFF"}
          /\ Got(job[rep.job], m) # "WRITTEN OFF" => Got(job[rep.job], m) = job[rep.job].state
      BY <2>3, <3>4 DEF Got, Terminal, States
    <3>6. \A j \in JobsIn(Oldest(msg[m].reports)) : j = rep.job
      <4>1. ASSUME NEW other \in Oldest(msg[m].reports) PROVE other = rep
        <5>1. done[m] \subseteq Report
          BY <1>0
        <5> QED  BY <1>0, <5>1, OldestOne
      <4> QED  BY <4>1 DEF JobsIn
    <3>7. ASSUME NEW j \in Jobs, job[j].state \notin {"PENDING", "RUNNING"}, InHand(j)'
          PROVE  InHand(j)
      <4>1. j \in JobsIn(Oldest(msg[m].reports)) /\ msg'[m].got \in {"PENDING", "RUNNING"} => FALSE
        BY <3>2, <3>5, <3>6, <3>7
      <4> QED  BY <1>2, <3>1, <3>2, <3>7, <4>1 DEF ReadReport, InHand
    <3>8. \A j \in Jobs : Spared(j)
      BY <1>2, <3>3, <3>7 DEF ReadReport, Spared
    <3>9. Ordered' /\ Mail'
      BY <1>2, <1>b, <3>1, <3>2, <3>5 DEF ReadReport
    <3> QED  BY <3>8, <3>9
  <2> QED  BY <2>2, <2>3
<1>3. ASSUME NEW m \in Nodes, WriteReport(m)
      PROVE  (\A j \in Jobs : Spared(j)) /\ Ordered' /\ Mail'
  <2>1. PICK rep \in Oldest(msg[m].reports) :
          /\ job' = [job EXCEPT ![rep.job] = IF rep.refused /\ msg[m].got # "WRITTEN OFF"
                                            THEN RequeueJob(@) ELSE MarkFinished(@, rep.st)]
          /\ msg' = [msg EXCEPT ![m] = Settle(@, rep)]
    BY <1>3 DEF WriteReport
  <2>2. /\ msg'[m].got = "" /\ msg'[m].lost = msg[m].lost
        /\ msg'[m].actions = msg[m].actions /\ msg'[m].reports \subseteq msg[m].reports
        /\ \A n \in Nodes \ {m} : msg'[n] = msg[n]
    BY <1>d, <2>1
  <2>3. \A n \in Nodes : Traces(n)' = Traces(n)
    BY <1>3, <1>a, <2>2 DEF WriteReport
  <2>4. \A j \in Jobs : InHand(j)' => InHand(j)
    BY <1>3, <2>2, HandsShrink DEF WriteReport
  <2>5. \A j \in Jobs \ {rep.job} : job'[j] = job[j]
    BY <1>0, <2>1
  <2>6. /\ job'[rep.job].state # "NONE"
        /\ msg[m].got = "WRITTEN OFF" => job'[rep.job].state = rep.st
    <3>1. /\ job'[rep.job] \in {MarkFinished(job[rep.job], rep.st), RequeueJob(job[rep.job])}
          /\ msg[m].got = "WRITTEN OFF" => job'[rep.job] = MarkFinished(job[rep.job], rep.st)
      BY <1>0, <1>c, <2>1
    <3>2. job[rep.job] \in JobRec /\ rep.st # "NONE"
      BY <1>0, <1>c DEF Terminal
    <3>3. /\ MarkFinished(job[rep.job], rep.st).state = rep.st
          /\ RequeueJob(job[rep.job]).state = "PENDING"
      BY <1>c, <3>2, StoreKeeps
    <3> QED  BY <3>1, <3>2, <3>3
  <2>7. Excused(rep.job)
    <3>1. CASE msg[m].got = "WRITTEN OFF"
      BY <1>c, <2>6, <3>1 DEF Excused
    <3>2. CASE msg[m].got \in {"PENDING", "RUNNING"}
      <4>1. rep.job \in JobsIn(Oldest(msg[m].reports))
        BY DEF JobsIn
      <4> QED  BY <3>2, <4>1 DEF Excused, InHand
    <3>3. msg[m].got \in {"PENDING", "RUNNING", "WRITTEN OFF"}
      BY <1>0, <1>3 DEF WriteReport, Mail
    <3> QED  BY <3>1, <3>2, <3>3
  <2>8. \A j \in Jobs : Spared(j)
    BY <1>3, <2>3, <2>4, <2>5, <2>6, <2>7 DEF WriteReport, Spared
  <2>9. Ordered' /\ Mail'
    BY <1>3, <1>b, <2>2 DEF WriteReport
  <2> QED  BY <2>8, <2>9
<1>4. ASSUME NEW m \in Nodes, FindUnclaimed(m)
      PROVE  (\A j \in Jobs : Spared(j)) /\ Ordered' /\ Mail'
  <2>1. /\ msg'[m].lost = Unclaimed(m) /\ msg'[m].got = msg[m].got
        /\ msg'[m].actions = msg[m].actions /\ msg'[m].reports = msg[m].reports
        /\ \A n \in Nodes \ {m} : msg'[n] = msg[n] /\ link'[n] = link[n]
        /\ link[m] = "handling" /\ link'[m] = "reclaiming"
    BY <1>0, <1>4 DEF FindUnclaimed, Msg
  <2>2. \A j \in Unclaimed(m) : job[j].state = "RUNNING"
    BY DEF Unclaimed, RunningOn
  <2>3. \A n \in Nodes : Traces(n)' = Traces(n)
    BY <1>4, <1>a, <2>1 DEF FindUnclaimed
  <2>4. ASSUME NEW j \in Jobs, job[j].state \notin {"PENDING", "RUNNING"}, InHand(j)'
        PROVE  InHand(j)
    BY <1>4, <2>1, <2>2, <2>4 DEF FindUnclaimed, InHand
  <2>5. \A j \in Jobs : Spared(j)
    BY <1>4, <2>3, <2>4 DEF FindUnclaimed, Spared
  <2>6. msg[m].got \in {"", "PENDING", "RUNNING", "WRITTEN OFF"}
    BY <1>0 DEF Mail
  <2>7. Ordered' /\ Mail'
    BY <1>4, <1>b, <2>1, <2>6 DEF FindUnclaimed
  <2> QED  BY <2>5, <2>7
<1>5. ASSUME NEW m \in Nodes, NEW i \in Jobs, Reclaim(m, i)
      PROVE  (\A j \in Jobs : Spared(j)) /\ Ordered' /\ Mail'
  <2>1. /\ msg'[m].lost \subseteq msg[m].lost /\ msg'[m].got = msg[m].got
        /\ msg'[m].actions = msg[m].actions /\ msg'[m].reports = msg[m].reports
        /\ \A n \in Nodes \ {m} : msg'[n] = msg[n]
    BY <1>0, <1>5 DEF Reclaim, Msg
  <2>2. job'[i].state # "NONE" /\ \A j \in Jobs \ {i} : job'[j] = job[j]
    BY <1>0, <1>5, StoreKeeps DEF Reclaim, States
  <2>3. InHand(i)
    BY <1>5 DEF Reclaim, InHand
  <2>4. \A n \in Nodes : Traces(n)' = Traces(n)
    BY <1>5, <1>a, <2>1 DEF Reclaim
  <2>5. \A j \in Jobs : InHand(j)' => InHand(j)
    BY <1>5, <2>1 DEF Reclaim, InHand
  <2>6. \A j \in Jobs : Spared(j)
    BY <1>5, <2>2, <2>3, <2>4, <2>5 DEF Reclaim, Spared, Excused
  <2>7. msg[m].got \in {"", "PENDING", "RUNNING", "WRITTEN OFF"}
    BY <1>0 DEF Mail
  <2>8. Ordered' /\ Mail'
    BY <1>5, <1>b, <2>1, <2>7 DEF Reclaim
  <2> QED  BY <2>6, <2>8
<1>6. ASSUME NEW m \in Nodes, Reply(m)
      PROVE  (\A j \in Jobs : Spared(j)) /\ Ordered' /\ Mail'
  <2>1. /\ msg'[m].lost = msg[m].lost /\ msg'[m].got = msg[m].got
        /\ msg'[m].reports = msg[m].reports
        /\ msg'[m].actions = pending[m] /\ pending'[m] = <<>>
        /\ \A n \in Nodes \ {m} : msg'[n] = msg[n] /\ pending'[n] = pending[n] /\ link'[n] = link[n]
        /\ link'[m] = "replied" /\ link[m] \in {"handling", "reclaiming"}
    BY <1>0, <1>6 DEF Reply, Msg
  <2>2. LaunchesIn(<<>>) = {}
    BY DEF LaunchesIn
  <2>3. \A n \in Nodes : Coming(n)' \subseteq Coming(n)
    BY <2>1, <2>2 DEF Coming
  <2>4. \A n \in Nodes : Traces(n)' \subseteq Traces(n)
    BY <1>6, <2>3 DEF Reply, Traces
  <2>5. \A j \in Jobs : InHand(j)' => InHand(j)
    BY <1>6, <2>1 DEF Reply, InHand
  <2>6. \A j \in Jobs : Spared(j)
    BY <1>6, <2>4, <2>5 DEF Reply, Spared
  <2>7. msg[m].got \in {"", "PENDING", "RUNNING", "WRITTEN OFF"}
    BY <1>0 DEF Mail
  <2>8. Ordered' /\ Mail'
    BY <1>6, <1>b, <2>1, <2>7 DEF Reply
  <2> QED  BY <2>6, <2>8
<1> QED  BY <1>1, <1>2, <1>3, <1>4, <1>5, <1>6, Zenon DEF HeartbeatStep

LEMMA TellOrdered ==
  \* A new report gets the next number.
  ASSUME TypeOK, Ordered, Mail, NEW m \in Nodes, NEW j \in Jobs, NEW st \in States,
         NEW refused \in BOOLEAN, Tell(m, j, st, refused), UNCHANGED wire
  PROVE  /\ Ordered' /\ Mail'
         /\ \A n \in Nodes : JobsIn(done'[n]) \subseteq JobsIn(done[n]) \cup (IF n = m THEN {j} ELSE {})
<1> DEFINE new == [job |-> j, st |-> st, refused |-> refused, at |-> serial[m] + 1]
<1>1. /\ done'[m] = done[m] \cup {new} /\ serial'[m] = serial[m] + 1
      /\ \A n \in Nodes \ {m} : done'[n] = done[n] /\ serial'[n] = serial[n]
  BY DEF Tell, TypeOK
<1>2. serial[m] \in Nat /\ \A rep \in done[m] : rep.at \in Nat /\ rep.at <= serial[m]
  BY DEF TypeOK, Ordered, Report
<1>3. new.at = serial[m] + 1 /\ new.job = j
  OBVIOUS
<1> HIDE DEF new
<1>4. ASSUME NEW rep \in done'[m] PROVE rep.at <= serial'[m] /\ \A other \in done'[m] : other.at = rep.at => other = rep
  <2>1. rep.at <= serial'[m]
    BY <1>1, <1>2, <1>3
  <2>2. ASSUME NEW other \in done'[m], other.at = rep.at PROVE other = rep
    <3>1. CASE rep = new
      BY <1>1, <1>2, <1>3, <2>2, <3>1
    <3>2. CASE rep # new
      <4>1. rep \in done[m] /\ other # new
        BY <1>1, <1>2, <1>3, <2>2, <3>2
      <4> QED  BY <1>1, <2>2, <4>1 DEF Ordered
    <3> QED  BY <3>1, <3>2
  <2> QED  BY <2>1, <2>2
<1>5. Ordered'
  BY <1>1, <1>4 DEF Ordered
<1>6. Mail'
  BY <1>1 DEF Mail, wire
<1>7. \A n \in Nodes : JobsIn(done'[n]) \subseteq JobsIn(done[n]) \cup (IF n = m THEN {j} ELSE {})
  BY <1>1, <1>3 DEF JobsIn
<1> QED  BY <1>5, <1>6, <1>7

LEMMA TracesShrink ==
  \* A step of an agent, which finds all of its jobs at hand, leaves the rest alone.
  ASSUME UNCHANGED <<job, plan, giving, cancelling, requeueing, msg>>,
         \A n \in Nodes : Traces(n)' \subseteq Traces(n)
  PROVE  \A j \in Jobs : Spared(j)
BY DEF Spared, InHand

LEMMA ResultAgent ==
  \* Agents know of submitted jobs only, and number their reports.
  ASSUME TypeOK, ResultInv, AgentStep
  PROVE  (\A j \in Jobs : Spared(j)) /\ Ordered' /\ Mail'
<1> USE DEF store, tick, requests, memory, agents, wire, history
<1>0. /\ run \in [Nodes -> SUBSET Jobs] /\ todo \in [Nodes -> Seq(Action)]
      /\ msg \in [Nodes -> Msg] /\ done \in [Nodes -> SUBSET Report] /\ serial \in [Nodes -> Nat]
      /\ link \in [Nodes -> {"idle", "sent", "handling", "reclaiming", "replied"}]
      /\ Known /\ Ordered /\ Mail /\ LaunchesIn(<<>>) = {}
      /\ NoMsg.actions = <<>> /\ NoMsg.reports = {} /\ NoMsg.lost = {} /\ NoMsg.got = ""
  BY DEF TypeOK, ResultInv, LaunchesIn, NoMsg
<1>1. ASSUME NEW m \in Nodes, SendHeartbeat(m)
      PROVE  (\A j \in Jobs : Spared(j)) /\ Ordered' /\ Mail'
  <2>1. /\ msg'[m].reports = done[m] /\ msg'[m].actions = <<>> /\ msg'[m].lost = {}
        /\ msg'[m].got = "" /\ link'[m] = "sent"
        /\ \A n \in Nodes \ {m} : msg'[n] = msg[n] /\ link'[n] = link[n]
    BY <1>0, <1>1 DEF SendHeartbeat, NoMsg
  <2>2. \A n \in Nodes : Coming(n)' \subseteq Coming(n)
    BY <1>0, <1>1, <2>1 DEF SendHeartbeat, Coming
  <2>3. \A n \in Nodes : Traces(n)' \subseteq Traces(n)
    BY <1>1, <2>2 DEF SendHeartbeat, Traces
  <2>4. \A j \in Jobs : InHand(j)' => InHand(j)
    <3>1. msg'[m].lost \subseteq msg[m].lost /\ msg'[m].got \notin {"PENDING", "RUNNING"}
      BY <2>1
    <3> QED  BY <1>1, <2>1, <3>1, HandsShrink DEF SendHeartbeat
  <2>5. \A j \in Jobs : Spared(j)
    BY <1>1, <2>3, <2>4 DEF SendHeartbeat, Spared
  <2>6. Ordered' /\ Mail'
    BY <1>0, <1>1, <2>1, ZenonT(60) DEF SendHeartbeat, Ordered, Mail
  <2> QED  BY <2>5, <2>6
<1>2. ASSUME NEW m \in Nodes, ReceiveReply(m)
      PROVE  (\A j \in Jobs : Spared(j)) /\ Ordered' /\ Mail'
  <2>1. /\ done'[m] \subseteq done[m] /\ msg'[m] = NoMsg /\ todo'[m] = msg[m].actions
        /\ serial'[m] = serial[m] \/ done'[m] = {}
        /\ \A n \in Nodes \ {m} : /\ done'[n] = done[n] /\ msg'[n] = msg[n]
                                  /\ todo'[n] = todo[n] /\ serial'[n] = serial[n]
                                  /\ link'[n] = link[n]
    BY <1>0, <1>2 DEF ReceiveReply, Unacked
  <2>2. \A n \in Nodes : JobsIn(done'[n]) \subseteq JobsIn(done[n]) /\ Coming(n)' \subseteq Coming(n)
    BY <1>0, <1>2, <2>1, ZenonT(60) DEF ReceiveReply, JobsIn, Coming
  <2>3. \A n \in Nodes : LaunchesIn(todo'[n]) \subseteq LaunchesIn(todo[n]) \cup Coming(n)
    BY <2>1 DEF Coming
  <2>4. \A n \in Nodes : Traces(n)' \subseteq Traces(n)
    BY <1>2, <2>2, <2>3 DEF ReceiveReply, Traces
  <2>5. \A j \in Jobs : InHand(j)' => InHand(j)
    <3>1. msg'[m].lost \subseteq msg[m].lost /\ msg'[m].got \notin {"PENDING", "RUNNING"}
      BY <1>0, <2>1
    <3> QED  BY <1>2, <2>1, <3>1, HandsShrink DEF ReceiveReply
  <2>6. \A j \in Jobs : Spared(j)
    BY <1>2, <2>4, <2>5 DEF ReceiveReply, Spared
  <2>7. Ordered' /\ Mail'
    BY <1>0, <1>2, <2>1, ZenonT(60) DEF Ordered, Mail
  <2> QED  BY <2>6, <2>7
<1>3. ASSUME NEW m \in Nodes, todo[m] # <<>>, todo' = [todo EXCEPT ![m] = Tail(@)]
      PROVE  /\ \A n \in Nodes : LaunchesIn(todo'[n]) \subseteq LaunchesIn(todo[n])
             /\ Head(todo[m]).kind = "launch" => Head(todo[m]).job \in Traces(m)
             /\ Head(todo[m]).job \in Jobs
  <2>1. todo[m] \in Seq(Action) /\ todo'[m] = Tail(todo[m]) /\ \A n \in Nodes \ {m} : todo'[n] = todo[n]
    BY <1>0, <1>3
  <2>2. Head(todo[m]) \in Action
    BY <1>3, <2>1, QueueTypes
  <2>3. LaunchesIn(todo'[m]) \subseteq LaunchesIn(todo[m])
    BY <1>3, <2>1, Launches
  <2>4. Head(todo[m]).kind = "launch" => Head(todo[m]).job \in LaunchesIn(todo[m])
    BY <1>3, <2>1, Launches
  <2>5. Head(todo[m]).job \in Jobs
    BY <2>2 DEF Action
  <2>6. \A n \in Nodes : LaunchesIn(todo'[n]) \subseteq LaunchesIn(todo[n])
    BY <2>1, <2>3
  <2> QED  BY <2>4, <2>5, <2>6 DEF Traces
<1>4. ASSUME NEW m \in Nodes, NEW i \in Jobs, NEW st \in States, NEW refused \in BOOLEAN,
             Tell(m, i, st, refused), i \in Traces(m), UNCHANGED <<store, memory, wire>>,
             \A n \in Nodes : run'[n] \subseteq run[n] /\ LaunchesIn(todo'[n]) \subseteq LaunchesIn(todo[n])
      PROVE  (\A j \in Jobs : Spared(j)) /\ Ordered' /\ Mail'
  <2>1. /\ Ordered' /\ Mail'
        /\ \A n \in Nodes : JobsIn(done'[n]) \subseteq JobsIn(done[n]) \cup (IF n = m THEN {i} ELSE {})
    <3>1. UNCHANGED wire
      BY <1>4
    <3>2. Ordered /\ Mail
      BY <1>0
    <3> HIDE DEF wire
    <3> QED  BY <1>4, <3>1, <3>2, TellOrdered
  <2>2. \A n \in Nodes : Coming(n)' = Coming(n)
    BY <1>4 DEF Coming
  <2>3. \A n \in Nodes : Traces(n)' \subseteq Traces(n)
    BY <1>4, <2>1, <2>2 DEF Traces
  <2> QED  BY <1>4, <2>1, <2>3, TracesShrink
<1>5. ASSUME NEW m \in Nodes, RefuseLaunch(m)
      PROVE  (\A j \in Jobs : Spared(j)) /\ Ordered' /\ Mail'
  <2> DEFINE i == Head(todo[m]).job
  <2>1. i \in Jobs /\ i \in Traces(m) /\ \A n \in Nodes : LaunchesIn(todo'[n]) \subseteq LaunchesIn(todo[n])
    BY <1>3, <1>5 DEF RefuseLaunch, NextIs
  <2>2. Tell(m, i, "FAILED", TRUE) /\ UNCHANGED <<store, memory, wire, run>> /\ "FAILED" \in States
    BY <1>5 DEF RefuseLaunch, States
  <2> HIDE DEF i
  <2> QED  BY <1>4, <2>1, <2>2
<1>6. ASSUME NEW m \in Nodes, LaunchFails(m)
      PROVE  (\A j \in Jobs : Spared(j)) /\ Ordered' /\ Mail'
  <2> DEFINE i == Head(todo[m]).job
  <2>1. i \in Jobs /\ i \in Traces(m) /\ \A n \in Nodes : LaunchesIn(todo'[n]) \subseteq LaunchesIn(todo[n])
    BY <1>3, <1>6 DEF LaunchFails, NextIs
  <2>2. Tell(m, i, "FAILED", FALSE) /\ UNCHANGED <<store, memory, wire, run>> /\ "FAILED" \in States
    BY <1>6 DEF LaunchFails, States
  <2> HIDE DEF i
  <2> QED  BY <1>4, <2>1, <2>2
<1>7. ASSUME NEW m \in Nodes, StartJob(m)
      PROVE  (\A j \in Jobs : Spared(j)) /\ Ordered' /\ Mail'
  <2>1. /\ \A n \in Nodes : LaunchesIn(todo'[n]) \subseteq LaunchesIn(todo[n])
        /\ Head(todo[m]).job \in Traces(m)
    BY <1>3, <1>7 DEF StartJob, NextIs
  <2>2. \A n \in Nodes : run'[n] \subseteq Traces(n)
    BY <1>0, <1>7, <2>1 DEF StartJob, Traces
  <2>3. \A n \in Nodes : Traces(n)' \subseteq Traces(n)
    BY <1>7, <2>1, <2>2 DEF StartJob, Traces, Coming
  <2>4. Ordered' /\ Mail'
    BY <1>0, <1>7 DEF StartJob, Ordered, Mail
  <2> QED  BY <1>7, <2>3, <2>4, TracesShrink DEF StartJob
<1>8. ASSUME NEW m \in Nodes, KillJob(m)
      PROVE  (\A j \in Jobs : Spared(j)) /\ Ordered' /\ Mail'
  <2> DEFINE i == Head(todo[m]).job
  <2>1. i \in Jobs /\ \A n \in Nodes : LaunchesIn(todo'[n]) \subseteq LaunchesIn(todo[n])
    BY <1>3, <1>8 DEF KillJob, NextIs
  <2>2. UNCHANGED <<store, memory, wire>> /\ "CANCELLED" \in States
    BY <1>8 DEF KillJob, States
  <2>3. CASE i \in run[m]
    <3>1. Tell(m, i, "CANCELLED", FALSE) /\ run' = [run EXCEPT ![m] = @ \ {i}]
      BY <1>8, <2>3, Zenon DEF KillJob
    <3>2. i \in Traces(m) /\ \A n \in Nodes : run'[n] \subseteq run[n]
      BY <1>0, <2>3, <3>1 DEF Traces
    <3> HIDE DEF i
    <3> QED  BY <1>4, <2>1, <2>2, <3>1, <3>2
  <2>4. CASE i \notin run[m]
    <3>1. UNCHANGED <<run, done, serial>>
      BY <1>8, <2>4 DEF KillJob
    <3>2. \A n \in Nodes : Traces(n)' \subseteq Traces(n)
      BY <2>1, <2>2, <3>1 DEF Traces, Coming
    <3>3. Ordered' /\ Mail'
      BY <1>0, <2>2, <3>1 DEF Ordered, Mail
    <3> QED  BY <2>2, <3>2, <3>3, TracesShrink
  <2> QED  BY <2>3, <2>4
<1>9. ASSUME NEW m \in Nodes, NEW i \in Jobs, NEW st \in Outcomes, JobEnds(m, i, st)
      PROVE  (\A j \in Jobs : Spared(j)) /\ Ordered' /\ Mail'
  <2>1. st \in States /\ i \in Traces(m)
    BY <1>9, JobControlAssumption DEF States, JobEnds, Traces
  <2>2. /\ Tell(m, i, st, FALSE) /\ UNCHANGED <<store, memory, wire, todo>>
        /\ \A n \in Nodes : run'[n] \subseteq run[n]
    BY <1>0, <1>9 DEF JobEnds
  <2> QED  BY <1>4, <2>1, <2>2
<1> QED  BY <1>1, <1>2, <1>5, <1>6, <1>7, <1>8, <1>9, Zenon DEF AgentStep

LEMMA ResultTime ==
  \* Time ends no job.
  ASSUME TypeOK, ResultInv, TimeStep
  PROVE  (\A j \in Jobs : Spared(j)) /\ Ordered' /\ Mail'
<1> USE DEF store, tick, requests, memory, agents, wire, history
<1>1. Ordered' /\ Mail'
  BY DEF TimeStep, FallSilent, Age, ResultInv, Ordered, Mail
<1>2. UNCHANGED <<plan, giving, cancelling, requeueing, msg, pending, run, done, todo>>
  BY DEF TimeStep, FallSilent, Age
<1>3. \A j \in Jobs : job'[j].state = job[j].state
  <2>1. job \in [Jobs -> JobRec]
    BY DEF TypeOK
  <2>2. ASSUME NEW i \in Jobs, Age(i) PROVE \A j \in Jobs : job'[j].state = job[j].state
    BY <2>1, <2>2 DEF Age, JobRec
  <2>3. ASSUME NEW n \in Nodes, FallSilent(n) PROVE job' = job
    BY <2>3 DEF FallSilent
  <2> QED  BY <2>2, <2>3, Zenon DEF TimeStep
<1>4. \A j \in Jobs : Spared(j)
  BY <1>2, <1>3 DEF Spared, InHand, Traces, Coming
<1> QED  BY <1>1, <1>4

LEMMA ResultFault ==
  \* Crashes and losses take up nothing.
  ASSUME TypeOK, ResultInv, FaultStep
  PROVE  (\A j \in Jobs : Spared(j)) /\ Ordered' /\ Mail'
<1> USE DEF store, tick, requests, memory, agents, wire, history
<1>0. /\ msg \in [Nodes -> Msg] /\ todo \in [Nodes -> Seq(Action)]
      /\ link \in [Nodes -> {"idle", "sent", "handling", "reclaiming", "replied"}]
      /\ run \in [Nodes -> SUBSET Jobs] /\ done \in [Nodes -> SUBSET Report] /\ serial \in [Nodes -> Nat]
      /\ Known /\ Ordered /\ Mail /\ LaunchesIn(<<>>) = {} /\ JobsIn({}) = {}
      /\ NoMsg.actions = <<>> /\ NoMsg.reports = {} /\ NoMsg.lost = {} /\ NoMsg.got = ""
  BY DEF TypeOK, ResultInv, LaunchesIn, NoMsg, JobsIn
<1>1. ASSUME ControllerRestart PROVE (\A j \in Jobs : Spared(j)) /\ Ordered' /\ Mail'
  <2>1. /\ job' = job /\ run' = run /\ done' = done /\ todo' = todo /\ serial' = serial
        /\ requeueing' = {} /\ giving' = {} /\ cancelling' = {} /\ plan' = [j \in Jobs |-> NoNode]
        /\ \A n \in Nodes : /\ pending'[n] = <<>>
                            /\ \/ msg'[n] = msg[n] /\ link'[n] = "replied"
                               \/ msg'[n] = NoMsg
    BY <1>0, <1>1 DEF ControllerRestart
  <2>2. \A n \in Nodes : Coming(n)' \subseteq Coming(n)
    BY <1>0, <2>1 DEF Coming
  <2>3. \A n \in Nodes : Traces(n)' \subseteq Traces(n)
    BY <2>1, <2>2 DEF Traces
  <2>4. \A j \in Jobs : InHand(j)' => InHand(j)
    BY <1>0, <2>1 DEF InHand
  <2>5. \A j \in Jobs : Spared(j)
    BY <2>1, <2>3, <2>4 DEF Spared
  <2>6. Ordered' /\ Mail'
    BY <1>0, <2>1 DEF Ordered, Mail
  <2> QED  BY <2>5, <2>6
<1>2. ASSUME NEW m \in Nodes, RequestLost(m) \/ ReplyLost(m)
      PROVE  (\A j \in Jobs : Spared(j)) /\ Ordered' /\ Mail'
  <2>1. /\ job' = job /\ run' = run /\ done' = done /\ todo' = todo /\ serial' = serial
        /\ UNCHANGED <<plan, giving, cancelling, requeueing, pending>>
        /\ msg'[m] = NoMsg /\ \A n \in Nodes \ {m} : msg'[n] = msg[n] /\ link'[n] = link[n]
    BY <1>0, <1>2 DEF RequestLost, ReplyLost
  <2>2. \A n \in Nodes : Coming(n)' \subseteq Coming(n)
    BY <1>0, <2>1 DEF Coming
  <2>3. \A n \in Nodes : Traces(n)' \subseteq Traces(n)
    BY <2>1, <2>2 DEF Traces
  <2>4. \A j \in Jobs : InHand(j)' => InHand(j)
    <3>1. msg'[m].lost \subseteq msg[m].lost /\ msg'[m].got \notin {"PENDING", "RUNNING"}
      BY <1>0, <2>1
    <3> QED  BY <2>1, <3>1, HandsShrink
  <2>5. \A j \in Jobs : Spared(j)
    BY <2>1, <2>3, <2>4 DEF Spared
  <2>6. Ordered' /\ Mail'
    BY <1>0, <2>1 DEF Ordered, Mail
  <2> QED  BY <2>5, <2>6
<1>3. ASSUME NEW m \in Nodes, AgentRestart(m)
      PROVE  (\A j \in Jobs : Spared(j)) /\ Ordered' /\ Mail'
  <2>1. /\ UNCHANGED <<job, plan, giving, cancelling, requeueing, pending, msg, link>>
        /\ \A n \in Nodes \ {m} : /\ run'[n] = run[n] /\ done'[n] = done[n]
                                  /\ todo'[n] = todo[n] /\ serial'[n] = serial[n]
        /\ run'[m] = {} /\ done'[m] = {} /\ todo'[m] = <<>> /\ link[m] = "idle"
    BY <1>0, <1>3 DEF AgentRestart
  <2>2. \A n \in Nodes : Traces(n)' \subseteq Traces(n)
    BY <1>0, <2>1 DEF Traces, Coming
  <2>3. Ordered' /\ Mail'
    BY <1>0, <2>1 DEF Ordered, Mail
  <2> QED  BY <2>1, <2>2, <2>3, TracesShrink
<1>4. ASSUME NEW m \in Nodes, KillFails(m)
      PROVE  (\A j \in Jobs : Spared(j)) /\ Ordered' /\ Mail'
  <2>1. /\ UNCHANGED <<job, plan, giving, cancelling, requeueing, pending, msg, link, run, done, serial>>
        /\ todo[m] # <<>> /\ todo'[m] = Tail(todo[m]) /\ \A n \in Nodes \ {m} : todo'[n] = todo[n]
    BY <1>0, <1>4 DEF KillFails, NextIs
  <2>2. \A n \in Nodes : LaunchesIn(todo'[n]) \subseteq LaunchesIn(todo[n])
    BY <1>0, <2>1, Launches
  <2>3. \A n \in Nodes : Traces(n)' \subseteq Traces(n)
    BY <2>1, <2>2 DEF Traces, Coming
  <2>4. Ordered' /\ Mail'
    BY <1>0, <2>1 DEF Ordered, Mail
  <2> QED  BY <2>1, <2>3, <2>4, TracesShrink
<1>5. ASSUME NEW m \in Nodes, ReadReportFails(m) \/ WriteReportFails(m)
      PROVE  (\A j \in Jobs : Spared(j)) /\ Ordered' /\ Mail'
  <2>1. PICK rep \in Oldest(msg[m].reports) :
          msg' = [msg EXCEPT ![m] = Settle(@, rep)] \/ msg' = [msg EXCEPT ![m] = Skip(@, rep)]
    BY <1>5 DEF ReadReportFails, WriteReportFails
  <2>2. msg[m] \in Msg /\ msg'[m] \in {Settle(msg[m], rep), Skip(msg[m], rep)}
        /\ \A n \in Nodes \ {m} : msg'[n] = msg[n]
    BY <1>0, <2>1
  <2>3. /\ msg'[m].got = "" /\ msg'[m].lost = msg[m].lost
        /\ msg'[m].actions = msg[m].actions /\ msg'[m].reports \subseteq msg[m].reports
    BY <2>2, ZenonT(60) DEF Settle, Skip, Msg
  <2>4. /\ UNCHANGED <<job, plan, giving, cancelling, requeueing, pending, link, run, done, serial, todo>>
        /\ link[m] = "handling"
    BY <1>5 DEF ReadReportFails, WriteReportFails
  <2>5. \A n \in Nodes : Traces(n)' = Traces(n)
    BY <2>2, <2>3, <2>4 DEF Traces, Coming
  <2>6. \A j \in Jobs : InHand(j)' => InHand(j)
    BY <2>2, <2>3, <2>4, HandsShrink
  <2>7. \A j \in Jobs : Spared(j)
    BY <2>4, <2>5, <2>6 DEF Spared
  <2>8. Ordered' /\ Mail'
    BY <1>0, <2>2, <2>3, <2>4 DEF Ordered, Mail
  <2> QED  BY <2>7, <2>8
<1> QED  BY <1>1, <1>2, <1>3, <1>4, <1>5, Zenon DEF FaultStep

\* A job that has ended is left alone.  Nobody picks its record up, and it changes only
\* through what was in somebody's hands before it ended, when its user requeues it, or when
\* the machine it was written off on reports what became of it (HandleHeartbeat, Cancel,
\* Requeue, GiveUpOnLostJobs, reclaimUnclaimed, schedule).
THEOREM ResultStandsHolds == Spec => ResultStands
<1> DEFINE Inv == TypeOK /\ TraceInv /\ ResultInv
           Left == \A j \in Jobs : Terminal(job[j].state) =>
                     /\ InHand(j)' => InHand(j)
                     /\ job'[j].state # job[j].state =>
                          \/ InHand(j) \/ j \in requeueing
                          \/ \E n \in Nodes : /\ msg[n].got = "WRITTEN OFF"
                                              /\ \E rep \in Oldest(msg[n].reports) \cap done[n] :
                                                   rep.job = j /\ rep.st = job'[j].state
<1>1. Init => Inv
  BY TypeInit, TraceInit, ResultInit
<1>2. ASSUME Inv, [Next]_vars PROVE ResultInv' /\ \A j \in Jobs : Spared(j)
  <2>1. CASE Next
    <3>1. (\A j \in Jobs : Spared(j)) /\ Ordered' /\ Mail'
      BY <1>2, <2>1, ResultUser, ResultAdmin, ResultRun, ResultHeartbeat, ResultAgent, ResultTime,
         ResultFault, Zenon DEF Next, TraceInv
    <3> QED  BY <1>2, <3>1, SparedIsEnough
  <2>2. CASE UNCHANGED vars
    <3> USE DEF vars, store, tick, requests, memory, agents, wire, history
    <3>1. \A j \in Jobs : Spared(j)
      BY <2>2 DEF Spared, InHand, Traces, Coming
    <3>2. Ordered' /\ Mail'
      BY <1>2, <2>2 DEF ResultInv, Ordered, Mail
    <3> QED  BY <1>2, <3>1, <3>2, SparedIsEnough
  <2> QED  BY <1>2, <2>1, <2>2
<1>3. Inv /\ [Next]_vars => Inv'
  BY <1>2, TypeStep, TraceStep
<1>4. Inv /\ [Next]_vars => [Left]_vars
  BY <1>2 DEF Spared, Excused, Terminal
<1>5. ResultStands <=> [][Left]_vars
  BY DEF ResultStands
<1> HIDE DEF Inv, Left
<1> QED  BY <1>1, <1>3, <1>4, <1>5, PTL DEF Spec

=============================================================================
