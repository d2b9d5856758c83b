----------------------------- MODULE WorkProofs -----------------------------
(***************************************************************************)
(* Proofs about the work on the machines, for any machines, people, costs, *)
(* policies, shares, processes and limits: that a gang job implements      *)
(* JobOutcome and a recorded result stands for what every machine saw,     *)
(* what every variable of GangJobs, FairShare and Confinement holds, that  *)
(* replaced shares are not used for long, and the same of the behaviours   *)
(* in which one part at a time moves.                                      *)
(***************************************************************************)
EXTENDS MCWork, FiniteSetTheorems, WellFoundedInduction, SequenceTheorems, TLAPS

(* The first and the last of some ranks *)

LEMMA FirstOf ==
  \* Numbers have a smallest.
  ASSUME NEW S \in SUBSET Nat, S # {}
  PROVE  \E i \in S : \A k \in S : i <= k
<1>1. PICK i \in S : \A k \in S : <<k, i>> \notin OpToRel(<, Nat)
  BY NatLessThanWellFounded, WFMin, Zenon
<1>2. \A k \in S : ~(k < i)
  BY <1>1 DEF OpToRel
<1> QED  BY <1>2

LEMMA LastOf ==
  \* Numbers up to N have a greatest.
  ASSUME NEW N \in Nat, NEW S \in SUBSET (1..N), S # {}
  PROVE  \E i \in S : \A k \in S : k <= i
<1> DEFINE D == {m \in Nat : N - m \in S}
<1>1. \A k \in S : k \in Nat /\ N - k \in Nat /\ N - (N - k) = k
  OBVIOUS
<1>2. \A k \in S : N - k \in D
  BY <1>1
<1>3. D \in SUBSET Nat /\ D # {}
  BY <1>2
<1>4. PICK d \in D : \A e \in D : d <= e
  BY <1>3, FirstOf
<1>5. d \in Nat /\ N - d \in S
  OBVIOUS
<1>6. ASSUME NEW k \in S PROVE k <= N - d
  <2>1. d <= N - k
    BY <1>2, <1>4
  <2> QED  BY <1>1, <1>5, <2>1
<1> QED  BY <1>5, <1>6

LEMMA WorstTyped ==
  \* GangOutcome's result is that of a rank, the severe ones first.
  ASSUME NEW rows \in Seq(Task)
  PROVE  \/ /\ \A i \in DOMAIN rows : rows[i].st = "COMPLETED"
            /\ Worst(rows) = "COMPLETED"
         \/ \E i \in DOMAIN rows :
              /\ Worst(rows) = rows[i].st /\ rows[i].st # "COMPLETED"
              /\ (\E k \in DOMAIN rows : rows[k].st \in Severe) => rows[i].st \in Severe
<1> DEFINE severe == {i \in DOMAIN rows : rows[i].st \in Severe}
           failed == FailedRows(rows)
           first == CHOOSE i \in failed : \A k \in failed : i <= k
           last == CHOOSE i \in severe : \A k \in severe : k <= i
<1>1. DOMAIN rows = 1..Len(rows) /\ Len(rows) \in Nat
  OBVIOUS
<1>2. CASE failed = {}
  BY <1>2 DEF FailedRows, Worst
<1>3. CASE failed # {} /\ severe # {}
  <2>1. severe \in SUBSET (1..Len(rows))
    BY <1>1
  <2>2. last \in severe
    BY <1>1, <1>3, <2>1, LastOf
  <2>3. Worst(rows) = rows[last].st
    BY <1>3 DEF Worst
  <2>4. "COMPLETED" \notin Severe
    BY GangAssumption
  <2> HIDE DEF last
  <2> QED  BY <2>2, <2>3, <2>4
<1>4. CASE failed # {} /\ severe = {}
  <2>1. failed \in SUBSET Nat
    BY <1>1 DEF FailedRows
  <2>2. first \in failed
    BY <1>4, <2>1, FirstOf
  <2>3. Worst(rows) = rows[first].st
    BY <1>4 DEF Worst
  <2> QED  BY <1>4, <2>2, <2>3 DEF FailedRows
<1> QED  BY <1>2, <1>3, <1>4

-----------------------------------------------------------------------------
(* Types *)

Actions == {"launch", "kill"}
Passes == [step: {"idle", "mark", "fabric", "launch"}, ranks: Seq(Nodes)]
Cancels == [step: {"idle", "rows", "mark"}, kills: SUBSET Nodes]

\* A handler that is about to record a result has one.
Msgs == {m \in Msg : m.step = "mark" => m.verdict \in RankStates}

StoreTyped == state \in RankStates \cup {"PENDING"} /\ tasks \in Seq(Task)
MemoryTyped == pass \in Passes /\ cancel \in Cancels /\ pending \in [Nodes -> Seq(Actions)]
AgentsTyped ==
  run \in SUBSET Nodes /\ done \in [Nodes -> Seq(Report)] /\ todo \in [Nodes -> Seq(Actions)]
WireTyped == link \in [Nodes -> {"idle", "sent", "replied"}] /\ msg \in [Nodes -> Msgs]
RestTyped ==
  /\ fate \in [Nodes -> RankStates \cup {"none"}]
  /\ disturbed \in BOOLEAN /\ lost \in BOOLEAN
  /\ placements \in Nat /\ faults \in Nat

\* A pass in launchGang has ranks to launch.
HasRanks == pass.step # "idle" => pass.ranks # <<>>

Typed == StoreTyped /\ MemoryTyped /\ HasRanks /\ AgentsTyped /\ WireTyped /\ RestTyped

LEMMA TypedIsTypeOK == Typed => GangTypeOK
<1>1. WireTyped => msg \in [Nodes -> Msg]
  BY DEF WireTyped, Msgs
<1> QED
  BY <1>1 DEF Typed, StoreTyped, MemoryTyped, AgentsTyped, WireTyped, RestTyped, GangTypeOK,
              Actions, Passes, Cancels

LEMMA Queues ==
  \* A queue that is not empty: its head, and what is behind it.
  ASSUME NEW S, NEW q \in Seq(S), q # <<>>
  PROVE  /\ Head(q) \in S /\ Head(q) = q[1] /\ 1 \in DOMAIN q
         /\ Tail(q) \in Seq(S) /\ (Len(q) # 1 => Tail(q) # <<>>)
         /\ \A i \in DOMAIN Tail(q) : i + 1 \in DOMAIN q /\ Tail(q)[i] = q[i + 1]
<1>1. Len(q) \in Nat /\ Len(q) > 0 /\ DOMAIN q = 1..Len(q)
  OBVIOUS
<1>2. Tail(q) \in Seq(S) /\ Len(Tail(q)) = Len(q) - 1 /\ DOMAIN Tail(q) = 1..(Len(q) - 1)
  BY <1>1
<1>3. \A i \in 1..(Len(q) - 1) : Tail(q)[i] = q[i + 1]
  BY <1>1
<1>5. Len(q) # 1 => Tail(q) # <<>>
  <2> DEFINE t == Tail(q)
  <2>1. ASSUME NEW t0 \in Seq(S), t0 = <<>> PROVE Len(t0) = 0
    BY <2>1
  <2>2. t \in Seq(S) /\ Len(t) = Len(q) - 1
    BY <1>2
  <2> HIDE DEF t
  <2>3. t = <<>> => Len(t) = 0
    BY <2>1, <2>2
  <2>4. Len(q) # 1 => t # <<>>
    BY <1>1, <2>2, <2>3
  <2> QED  BY <2>4 DEF t
<1> QED  BY <1>1, <1>2, <1>3, <1>5

LEMMA RowsTyped ==
  \* Rows are ranks on machines.
  ASSUME NEW rows \in Seq(Task)
  PROVE  /\ DOMAIN rows = 1..Len(rows) /\ Len(rows) \in Nat
         /\ rows # <<>> <=> Len(rows) # 0
         /\ \A i \in DOMAIN rows : /\ rows[i] \in Task /\ rows[i].node \in Nodes /\ rows[i].st \in RankStates
                                  /\ \A st \in RankStates : [rows[i] EXCEPT !.st = st] \in Task
         /\ Unfinished(rows) \subseteq Nodes /\ NodesOf(rows) \subseteq Nodes
         /\ \A other \in [DOMAIN rows -> Task] : other \in Seq(Task)
<1>1. ASSUME NEW i \in DOMAIN rows
      PROVE  /\ rows[i] \in Task /\ rows[i].node \in Nodes /\ rows[i].st \in RankStates
             /\ \A st \in RankStates : [rows[i] EXCEPT !.st = st] \in Task
  <2>1. rows[i] \in Task
    OBVIOUS
  <2> QED  BY <2>1 DEF Task
<1>2. Unfinished(rows) \subseteq Nodes /\ NodesOf(rows) \subseteq Nodes
  BY <1>1 DEF Unfinished, NodesOf
<1> QED  BY <1>1, <1>2

LEMMA MsgTyped ==
  \* What becomes of an exchange.
  /\ NoMsg \in Msgs
  /\ \A q \in Seq(Report) : [NoMsg EXCEPT !.reports = q] \in Msgs
  /\ \A m \in Msgs : /\ m.reports \in Seq(Report) /\ m.rows \in Seq(Task) /\ m.actions \in Seq(Actions)
                     /\ m.step = "mark" => m.verdict \in RankStates
                     /\ \A x \in Steps \ {"mark"} : [m EXCEPT !.step = x] \in Msgs
                     /\ \A q \in Seq(Actions) : [m EXCEPT !.actions = q] \in Msgs
                     /\ \A x \in Steps \ {"mark"}, rows \in Seq(Task) :
                          [[m EXCEPT !.rows = rows] EXCEPT !.step = x] \in Msgs
                     /\ \A v \in RankStates : [[m EXCEPT !.step = "mark"] EXCEPT !.verdict = v] \in Msgs
                     /\ m.reports # <<>> => Head(m.reports) \in Report
                                            /\ \A ack \in BOOLEAN : Settled(m, ack) \in Msgs
<1>1. NoMsg \in Msgs /\ \A q \in Seq(Report) : [NoMsg EXCEPT !.reports = q] \in Msgs
  <2>1. NoMsg \in Msg /\ NoMsg.step = "next"
    BY DEF NoMsg, Msg, Steps
  <2>2. ASSUME NEW q \in Seq(Report) PROVE [NoMsg EXCEPT !.reports = q] \in Msgs
    BY <2>1 DEF Msg, Msgs
  <2> QED  BY <2>1, <2>2 DEF Msgs
<1>2. ASSUME NEW m \in Msgs
      PROVE  /\ m.reports \in Seq(Report) /\ m.rows \in Seq(Task) /\ m.actions \in Seq(Actions)
             /\ m.step = "mark" => m.verdict \in RankStates
             /\ \A x \in Steps \ {"mark"} : [m EXCEPT !.step = x] \in Msgs
             /\ \A q \in Seq(Actions) : [m EXCEPT !.actions = q] \in Msgs
  BY DEF Msg, Msgs, Actions
<1>3. ASSUME NEW m \in Msgs, NEW x \in Steps \ {"mark"}, NEW rows \in Seq(Task)
      PROVE  [[m EXCEPT !.rows = rows] EXCEPT !.step = x] \in Msgs
  BY DEF Msg, Msgs
<1>4. ASSUME NEW m \in Msgs, NEW v \in RankStates
      PROVE  [[m EXCEPT !.step = "mark"] EXCEPT !.verdict = v] \in Msgs
  BY DEF Msg, Msgs, Steps
<1>5. ASSUME NEW m \in Msgs, m.reports # <<>>
      PROVE  Head(m.reports) \in Report /\ \A ack \in BOOLEAN : Settled(m, ack) \in Msgs
  <2>1. Tail(m.reports) \in Seq(Report) /\ Head(m.reports) \in Report /\ m.acked \in BOOLEAN
    BY <1>5, Queues DEF Msg, Msgs
  <2>2. ASSUME NEW ack \in BOOLEAN PROVE Settled(m, ack) \in Msgs
    <3>1. Settled(m, ack) = [NoMsg EXCEPT !.reports = Tail(m.reports), !.acked = m.acked \/ ack]
      BY DEF Settled
    <3>2. (m.acked \/ ack) \in BOOLEAN /\ NoMsg.step = "next"
      BY DEF NoMsg
    <3> QED  BY <1>1, <2>1, <3>1, <3>2 DEF Msg, Msgs
  <2> QED  BY <2>1, <2>2
<1> QED  BY <1>1, <1>2, <1>3, <1>4, <1>5

LEMMA PassTypes ==
  \* The pass keeps the types.
  ASSUME Typed, PassStep
  PROVE  Typed'
<1>1. /\ UNCHANGED <<cancel, agents, wire, fate, disturbed>> /\ pass \in Passes
      /\ pass' \in Passes => NoPass \in Passes
      /\ pending \in [Nodes -> Seq(Actions)] /\ cancel \in Cancels
  BY DEF Typed, MemoryTyped, PassStep, CreateTasks, MarkGang, MarkGangFails, PlanFabric, PlanFabricFails,
         LaunchRank, history, Passes, NoPass
<1>2. AgentsTyped' /\ WireTyped'
  BY <1>1 DEF Typed, AgentsTyped, WireTyped, agents, wire
<1>3. RestTyped'
  <2>1. placements \in Nat /\ faults \in Nat /\ lost \in BOOLEAN
    BY DEF Typed, RestTyped
  <2>2. /\ placements' = placements \/ placements' = placements + 1
        /\ faults' = faults \/ faults' = faults + 1
        /\ lost' = lost \/ lost' = TRUE
    BY DEF PassStep, CreateTasks, MarkGang, MarkGangFails, PlanFabric, PlanFabricFails, LaunchRank,
           history, Fault
  <2>3. lost' \in BOOLEAN
    BY <2>1, <2>2
  <2>4. fate' \in [Nodes -> RankStates \cup {"none"}] /\ disturbed' \in BOOLEAN
    BY <1>1 DEF Typed, RestTyped
  <2> QED  BY <2>1, <2>2, <2>3, <2>4 DEF RestTyped
<1>4. StoreTyped'
  <2>1. CASE CreateTasks
    <3>1. PICK p \in Placements : tasks' = [i \in DOMAIN p |-> [node |-> p[i], st |-> "RUNNING"]]
      BY <2>1 DEF CreateTasks
    <3>2. PICK n \in 2..Cardinality(Nodes) : p \in [1..n -> Nodes]
      BY DEF Placements
    <3>3. n \in Nat
      BY GangAssumption, FS_CardinalityType
    <3>4. tasks' \in [1..n -> Task]
      BY <3>1, <3>2 DEF Task, RankStates
    <3>5. tasks' \in Seq(Task)
      BY <3>3, <3>4
    <3> QED  BY <2>1, <3>5 DEF CreateTasks, Typed, StoreTyped
  <2>2. CASE MarkGang
    BY <2>2 DEF MarkGang, Typed, StoreTyped, RankStates
  <2>4. CASE MarkGangFails \/ PlanFabricFails
    <3>1. <<>> \in Seq(Task)
      OBVIOUS
    <3> QED  BY <2>4, <3>1 DEF MarkGangFails, PlanFabricFails, Typed, StoreTyped
  <2>3. CASE PlanFabric \/ LaunchRank
    BY <2>3 DEF PlanFabric, LaunchRank, store, Typed, StoreTyped
  <2> QED  BY <2>1, <2>2, <2>3, <2>4 DEF PassStep
<1>5. pass' \in Passes /\ HasRanks'
  <2>1. CASE CreateTasks
    <3>1. PICK p \in Placements : pass' = [step |-> "mark", ranks |-> p]
      BY <2>1 DEF CreateTasks
    <3>2. PICK n \in 2..Cardinality(Nodes) : p \in [1..n -> Nodes]
      BY DEF Placements
    <3>3. n \in Nat
      BY GangAssumption, FS_CardinalityType
    <3>4. p \in Seq(Nodes) /\ p # <<>>
      BY <3>2, <3>3
    <3> QED  BY <3>1, <3>4 DEF Passes, HasRanks
  <2>2. CASE MarkGang \/ PlanFabric
    BY <1>1, <2>2 DEF MarkGang, PlanFabric, Passes, Typed, HasRanks
  <2>3. CASE MarkGangFails \/ PlanFabricFails
    <3>1. NoPass \in Passes /\ NoPass.step = "idle"
      BY DEF NoPass, Passes
    <3> QED  BY <2>3, <3>1 DEF MarkGangFails, PlanFabricFails, HasRanks
  <2>4. CASE LaunchRank
    <3>1. pass.ranks \in Seq(Nodes) /\ pass.ranks # <<>>
      BY <1>1, <2>4 DEF Passes, Typed, HasRanks, LaunchRank
    <3>2. CASE Len(pass.ranks) = 1
      BY <2>4, <3>2 DEF LaunchRank, NoPass, Passes, HasRanks
    <3>3. CASE Len(pass.ranks) # 1
      <4>1. Tail(pass.ranks) \in Seq(Nodes) /\ Tail(pass.ranks) # <<>>
        BY <3>1, <3>3, Queues
      <4>2. pass' = [pass EXCEPT !.ranks = Tail(pass.ranks)]
        BY <2>4, <3>3 DEF LaunchRank
      <4> QED  BY <1>1, <4>1, <4>2 DEF Passes, HasRanks
    <3> QED  BY <3>2, <3>3
  <2> QED  BY <2>1, <2>2, <2>3, <2>4 DEF PassStep
<1>6. pending' \in [Nodes -> Seq(Actions)]
  <2>1. CASE LaunchRank
    <3>1. Head(pass.ranks) \in Nodes
      BY <2>1 DEF Typed, MemoryTyped, HasRanks, Passes, LaunchRank
    <3>2. Append(pending[Head(pass.ranks)], "launch") \in Seq(Actions)
      BY <1>1, <3>1 DEF Actions
    <3> QED  BY <1>1, <2>1, <3>1, <3>2 DEF LaunchRank
  <2>2. CASE ~LaunchRank
    BY <1>1, <2>2 DEF PassStep, CreateTasks, MarkGang, MarkGangFails, PlanFabric, PlanFabricFails
  <2> QED  BY <2>1, <2>2
<1> QED  BY <1>1, <1>2, <1>3, <1>4, <1>5, <1>6 DEF Typed, MemoryTyped

LEMMA UserTypes ==
  \* The user's requests keep the types.
  ASSUME Typed, UserStep
  PROVE  Typed'
<1>1. /\ UNCHANGED <<pass, agents, wire, fate, lost, placements>> /\ cancel \in Cancels
      /\ pending \in [Nodes -> Seq(Actions)] /\ tasks \in Seq(Task)
      /\ disturbed \in BOOLEAN /\ faults \in Nat /\ state \in RankStates \cup {"PENDING"}
  BY DEF Typed, StoreTyped, MemoryTyped, RestTyped, UserStep, CancelRead, CancelRows, CancelMark, Requeue,
         memory, history
<1>2. AgentsTyped' /\ WireTyped' /\ HasRanks' /\ pass' \in Passes
  BY <1>1 DEF Typed, AgentsTyped, WireTyped, MemoryTyped, HasRanks, agents, wire
<1>3. RestTyped'
  <2>1. (disturbed' = disturbed \/ disturbed' = TRUE) /\ (faults' = faults \/ faults' = faults + 1)
    BY DEF UserStep, CancelRead, CancelRows, CancelMark, Requeue, history, Fault
  <2>2. disturbed' \in BOOLEAN
    BY <1>1, <2>1
  <2> QED  BY <1>1, <2>1, <2>2 DEF Typed, RestTyped
<1>4. CASE CancelRead
  <2>1. cancel' \in Cancels
    BY <1>1, <1>4, RowsTyped DEF CancelRead, Cancels
  <2> QED  BY <1>1, <1>2, <1>3, <1>4, <2>1 DEF CancelRead, store, Typed, StoreTyped, MemoryTyped
<1>5. CASE CancelRows
  <2>1. tasks' \in Seq(Task)
    <3>1. "CANCELLED" \in RankStates
      BY DEF RankStates
    <3>2. tasks' \in [DOMAIN tasks -> Task]
      BY <1>1, <1>5, <3>1, RowsTyped DEF CancelRows
    <3> QED  BY <1>1, <3>2, RowsTyped
  <2>2. pending' \in [Nodes -> Seq(Actions)]
    BY <1>1, <1>5 DEF CancelRows, Actions
  <2>3. cancel' \in Cancels
    BY <1>5 DEF CancelRows, Cancels
  <2> QED  BY <1>1, <1>2, <1>3, <1>5, <2>1, <2>2, <2>3 DEF CancelRows, Typed, StoreTyped, MemoryTyped
<1>6. CASE CancelMark \/ Requeue
  <2>1. cancel' \in Cancels
    BY <1>1, <1>6 DEF CancelMark, Requeue, NoCancel, Cancels, memory
  <2>2. state' \in RankStates \cup {"PENDING"} /\ UNCHANGED <<tasks, pending>>
    BY <1>6 DEF CancelMark, Requeue, RankStates, memory
  <2> QED  BY <1>1, <1>2, <1>3, <2>1, <2>2 DEF Typed, StoreTyped, MemoryTyped
<1> QED  BY <1>4, <1>5, <1>6 DEF UserStep

LEMMA HandlerTypes ==
  \* The handler of a heartbeat keeps the types, whether or not the store fails.
  ASSUME Typed, NEW n \in Nodes,
         \/ ReadReport(n) \/ ClearRows(n) \/ RequeueGang(n) \/ RecordRank(n) \/ ReadOutcome(n)
         \/ FinishGang(n) \/ FinishSingle(n) \/ Reply(n) \/ FinishGangFails(n) \/ ReportFails(n)
  PROVE  Typed'
<1>1. /\ UNCHANGED <<pass, cancel, agents, fate, disturbed, placements>>
      /\ pending \in [Nodes -> Seq(Actions)] /\ tasks \in Seq(Task) /\ msg \in [Nodes -> Msgs]
      /\ link \in [Nodes -> {"idle", "sent", "replied"}]
      /\ state \in RankStates \cup {"PENDING"} /\ lost \in BOOLEAN /\ faults \in Nat
      /\ msg[n] \in Msgs
  BY DEF Typed, StoreTyped, MemoryTyped, WireTyped, RestTyped, memory, history, ReadReport, ClearRows,
         RequeueGang, RecordRank, ReadOutcome, FinishGang, FinishSingle, Reply, FinishGangFails, ReportFails
<1>2. AgentsTyped' /\ HasRanks' /\ pass' \in Passes /\ cancel' \in Cancels
  BY <1>1 DEF Typed, AgentsTyped, MemoryTyped, HasRanks, agents
<1>3. RestTyped'
  <2>1. /\ lost' = lost \/ lost' = TRUE \/ lost' = (lost \/ msg[n].step \in {"task", "outcome"})
        /\ faults' = faults \/ faults' = faults + 1
    BY DEF history, ReadReport, ClearRows, RequeueGang, RecordRank, ReadOutcome, FinishGang,
           FinishSingle, Reply, FinishGangFails, ReportFails, Fault
  <2>2. lost' \in BOOLEAN
    BY <1>1, <2>1
  <2> QED  BY <1>1, <2>1, <2>2 DEF Typed, RestTyped
<1>4. ASSUME state' \in RankStates \cup {"PENDING"}, tasks' \in Seq(Task),
             pending' \in [Nodes -> Seq(Actions)], link' \in [Nodes -> {"idle", "sent", "replied"}],
             msg' \in [Nodes -> Msgs]
      PROVE  Typed'
  BY <1>2, <1>3, <1>4 DEF Typed, StoreTyped, MemoryTyped, WireTyped
<1>5. ASSUME NEW step \in Steps, At(n, step)
      PROVE  /\ Head(msg[n].reports) \in Report /\ Head(msg[n].reports).st \in RankStates
             /\ \A x \in Steps \ {"mark"} : Goes(n, x) => msg' \in [Nodes -> Msgs]
             /\ \A ack \in BOOLEAN : Settles(n, ack) => msg' \in [Nodes -> Msgs]
  <2>1. Head(msg[n].reports) \in Report /\ \A ack \in BOOLEAN : Settled(msg[n], ack) \in Msgs
    BY <1>1, <1>5, MsgTyped DEF At
  <2>2. ASSUME NEW x \in Steps \ {"mark"}, Goes(n, x) PROVE msg' \in [Nodes -> Msgs]
    <3>1. msg' = [msg EXCEPT ![n] = [msg[n] EXCEPT !.step = x]]
      BY <2>2 DEF Goes
    <3>2. [msg[n] EXCEPT !.step = x] \in Msgs
      BY <1>1, MsgTyped
    <3> QED  BY <1>1, <3>1, <3>2
  <2>3. ASSUME NEW ack \in BOOLEAN, Settles(n, ack) PROVE msg' \in [Nodes -> Msgs]
    <3>1. msg' = [msg EXCEPT ![n] = Settled(msg[n], ack)]
      BY <2>3 DEF Settles
    <3> QED  BY <1>1, <2>1, <3>1
  <2> QED  BY <2>1, <2>2, <2>3 DEF Report
<1>6. Stopped(n) \in [Nodes -> Seq(Actions)]
  BY <1>1 DEF Stopped, Actions
<1>7. CASE ReadReport(n)
  <2>1. UNCHANGED <<state, tasks, pending, link>> /\ At(n, "next")
    BY <1>7 DEF ReadReport, store, memory
  <2>2. CASE Settles(n, TRUE) \/ Goes(n, "clear")
    BY <1>1, <1>4, <1>5, <2>1, <2>2 DEF Steps
  <2>3. ASSUME NEW x \in {"single", "task"}, msg' = [msg EXCEPT ![n].rows = tasks, ![n].step = x]
        PROVE  Typed'
    <3>1. [[msg[n] EXCEPT !.rows = tasks] EXCEPT !.step = x] \in Msgs
      BY <1>1, MsgTyped DEF Steps
    <3>2. msg' = [msg EXCEPT ![n] = [[msg[n] EXCEPT !.rows = tasks] EXCEPT !.step = x]]
      BY <1>1, <2>3
    <3>3. msg' \in [Nodes -> Msgs]
      BY <1>1, <3>1, <3>2
    <3> QED  BY <1>1, <1>4, <2>1, <3>3
  <2> QED  BY <1>7, <2>2, <2>3 DEF ReadReport
<1>8. CASE ClearRows(n)
  <2>1. tasks' \in Seq(Task) /\ At(n, "clear") /\ Goes(n, "requeue") /\ UNCHANGED <<state, pending, link>>
    BY <1>8 DEF ClearRows, memory
  <2> QED  BY <1>1, <1>4, <1>5, <2>1 DEF Steps
<1>9. CASE RequeueGang(n)
  BY <1>1, <1>4, <1>5, <1>9 DEF RequeueGang, Steps, memory
<1>10. CASE RecordRank(n)
  <2>1. At(n, "task") /\ UNCHANGED <<state, pending, link>>
        /\ (Goes(n, "outcome") \/ Settles(n, TRUE))
    BY <1>10 DEF RecordRank, memory
  <2>2. Head(msg[n].reports).st \in RankStates
    BY <1>5, <2>1 DEF Steps
  <2>3. tasks' \in Seq(Task)
    <3>1. CASE n \in Unfinished(tasks)
      <4>1. tasks' \in [DOMAIN tasks -> Task]
        BY <1>1, <1>10, <2>2, <3>1, RowsTyped, SMTT(60) DEF RecordRank
      <4> QED  BY <1>1, <4>1, RowsTyped
    <3> QED  BY <1>1, <1>10, <3>1 DEF RecordRank
  <2> QED  BY <1>1, <1>4, <1>5, <2>1, <2>3 DEF Steps
<1>11. CASE ReadOutcome(n)
  <2>1. At(n, "outcome") /\ UNCHANGED <<state, tasks, pending, link>>
    BY <1>11 DEF ReadOutcome, store, memory
  <2>2. CASE tasks = <<>> \/ Unfinished(tasks) # {}
    BY <1>1, <1>4, <1>5, <1>11, <2>1, <2>2 DEF ReadOutcome, Steps
  <2>3. CASE ~(tasks = <<>> \/ Unfinished(tasks) # {})
    <3>1. Worst(tasks) \in RankStates
      <4>1. 1 \in DOMAIN tasks
        BY <1>1, <2>3, RowsTyped
      <4>2. Worst(tasks) = tasks[1].st \/ \E i \in DOMAIN tasks : Worst(tasks) = tasks[i].st
        BY <1>1, <4>1, WorstTyped
      <4> QED  BY <1>1, <4>1, <4>2, RowsTyped
    <3>2. [[msg[n] EXCEPT !.step = "mark"] EXCEPT !.verdict = Worst(tasks)] \in Msgs
      BY <1>1, <3>1, MsgTyped
    <3>3. msg' = [msg EXCEPT ![n] = [[msg[n] EXCEPT !.step = "mark"] EXCEPT !.verdict = Worst(tasks)]]
      BY <1>1, <1>11, <2>3 DEF ReadOutcome
    <3>4. msg' \in [Nodes -> Msgs]
      BY <1>1, <3>2, <3>3
    <3> QED  BY <1>1, <1>4, <2>1, <3>4
  <2> QED  BY <1>11, <2>2, <2>3 DEF ReadOutcome
<1>12. CASE FinishGang(n)
  <2>1. At(n, "mark") /\ Settles(n, TRUE) /\ UNCHANGED <<tasks, link>> /\ pending' = Stopped(n)
        /\ state' = msg[n].verdict
    BY <1>12 DEF FinishGang
  <2>2. msg[n].verdict \in RankStates
    BY <1>1, <2>1, MsgTyped DEF At
  <2> QED  BY <1>1, <1>4, <1>5, <1>6, <2>1, <2>2 DEF Steps
<1>13. CASE FinishSingle(n)
  <2>1. At(n, "single") /\ Settles(n, TRUE) /\ UNCHANGED <<tasks, pending, link>>
        /\ state' = Head(msg[n].reports).st
    BY <1>13 DEF FinishSingle, memory
  <2> QED  BY <1>1, <1>4, <1>5, <2>1 DEF Steps
<1>14. CASE FinishGangFails(n)
  <2>1. At(n, "mark") /\ Settles(n, TRUE) /\ UNCHANGED <<state, tasks, link>> /\ pending' = Stopped(n)
    BY <1>14 DEF FinishGangFails, store
  <2> QED  BY <1>1, <1>4, <1>5, <1>6, <2>1 DEF Steps
<1>15. CASE ReportFails(n)
  <2>1. PICK step \in {"requeue", "task", "outcome", "single"} : At(n, step)
    BY <1>15 DEF ReportFails
  <2>2. \E ack \in BOOLEAN : Settles(n, ack)
    BY <1>15 DEF ReportFails
  <2>3. UNCHANGED <<state, tasks, pending, link>>
    BY <1>15 DEF ReportFails, store, memory
  <2> QED  BY <1>1, <1>4, <1>5, <2>1, <2>2, <2>3 DEF Steps
<1>16. CASE Reply(n)
  <2>1. pending[n] \in Seq(Actions) /\ pending' = [pending EXCEPT ![n] = <<>>]
        /\ link' = [link EXCEPT ![n] = "replied"] /\ UNCHANGED <<state, tasks>>
    BY <1>1, <1>16 DEF Reply, store
  <2>2. [msg[n] EXCEPT !.actions = pending[n]] \in Msgs
    BY <1>1, <2>1, MsgTyped
  <2>3. msg' = [msg EXCEPT ![n] = [msg[n] EXCEPT !.actions = pending[n]]]
    BY <1>16 DEF Reply
  <2>4. msg' \in [Nodes -> Msgs]
    BY <1>1, <2>2, <2>3
  <2>5. pending' \in [Nodes -> Seq(Actions)] /\ link' \in [Nodes -> {"idle", "sent", "replied"}]
    BY <1>1, <2>1
  <2> QED  BY <1>1, <1>4, <2>1, <2>4, <2>5
<1> QED  BY <1>7, <1>8, <1>9, <1>10, <1>11, <1>12, <1>13, <1>14, <1>15, <1>16

LEMMA AgentTypes ==
  \* The agents keep the types.
  ASSUME Typed, NEW n \in Nodes,
         \/ SendHeartbeat(n) \/ ReceiveReply(n) \/ RefuseLaunch(n) \/ StartRank(n) \/ LaunchFails(n)
         \/ KillRank(n) \/ \E st \in Outcomes : RankEnds(n, st)
  PROVE  Typed'
<1>1. /\ UNCHANGED <<store, memory, lost, placements, faults>> /\ msg \in [Nodes -> Msgs]
      /\ link \in [Nodes -> {"idle", "sent", "replied"}]
      /\ run \in SUBSET Nodes /\ done \in [Nodes -> Seq(Report)] /\ todo \in [Nodes -> Seq(Actions)]
      /\ fate \in [Nodes -> RankStates \cup {"none"}] /\ disturbed \in BOOLEAN
  BY DEF Typed, AgentsTyped, WireTyped, RestTyped, history, SendHeartbeat, ReceiveReply, RefuseLaunch,
         StartRank, LaunchFails, KillRank, RankEnds
<1>2. StoreTyped' /\ MemoryTyped' /\ HasRanks'
  BY <1>1 DEF Typed, StoreTyped, MemoryTyped, HasRanks, store, memory
<1>3. ASSUME run' \in SUBSET Nodes, done' \in [Nodes -> Seq(Report)], todo' \in [Nodes -> Seq(Actions)],
             fate' \in [Nodes -> RankStates \cup {"none"}], disturbed' \in BOOLEAN,
             link' \in [Nodes -> {"idle", "sent", "replied"}], msg' \in [Nodes -> Msgs]
      PROVE  Typed'
  BY <1>1, <1>2, <1>3 DEF Typed, AgentsTyped, WireTyped, RestTyped
<1>4. "FAILED" \in RankStates /\ "CANCELLED" \in RankStates /\ Outcomes \subseteq RankStates
  BY GangAssumption DEF RankStates
<1>5. ASSUME NEW st \in RankStates, NEW refused \in BOOLEAN, Tell(n, st, refused)
      PROVE  done' \in [Nodes -> Seq(Report)]
  <2>1. [st |-> st, refused |-> refused] \in Report
    BY DEF Report
  <2>2. Append(done[n], [st |-> st, refused |-> refused]) \in Seq(Report)
    BY <1>1, <2>1
  <2> QED  BY <1>1, <1>5, <2>2 DEF Tell
<1>6. ASSUME todo[n] # <<>>, Takes(n) PROVE todo' \in [Nodes -> Seq(Actions)]
  <2>1. Tail(todo[n]) \in Seq(Actions)
    BY <1>1, <1>6, Queues
  <2> QED  BY <1>1, <1>6, <2>1 DEF Takes
<1>7. CASE SendHeartbeat(n)
  <2>1. UNCHANGED <<run, done, todo, fate, disturbed>> /\ link' \in [Nodes -> {"idle", "sent", "replied"}]
    BY <1>1, <1>7 DEF SendHeartbeat, agents, history
  <2>2. [NoMsg EXCEPT !.reports = done[n]] \in Msgs
    BY <1>1, MsgTyped
  <2>3. msg' \in [Nodes -> Msgs]
    BY <1>1, <1>7, <2>2 DEF SendHeartbeat
  <2> QED  BY <1>1, <1>3, <2>1, <2>3
<1>8. CASE ReceiveReply(n)
  <2>1. UNCHANGED <<run, fate, disturbed>> /\ link' \in [Nodes -> {"idle", "sent", "replied"}]
    BY <1>1, <1>8 DEF ReceiveReply, history
  <2>2. todo' \in [Nodes -> Seq(Actions)]
    <3>1. msg[n].actions \in Seq(Actions)
      BY <1>1, MsgTyped
    <3> QED  BY <1>1, <1>8, <3>1 DEF ReceiveReply
  <2>3. done' \in [Nodes -> Seq(Report)]
    BY <1>1, <1>8 DEF ReceiveReply
  <2>4. msg' \in [Nodes -> Msgs]
    BY <1>1, <1>8, MsgTyped DEF ReceiveReply
  <2> QED  BY <1>1, <1>3, <2>1, <2>2, <2>3, <2>4
<1>9. CASE RefuseLaunch(n) \/ LaunchFails(n)
  <2>1. UNCHANGED <<run, link, msg>> /\ Takes(n) /\ todo[n] # <<>>
        /\ (Tell(n, "FAILED", TRUE) \/ Tell(n, "FAILED", FALSE))
    BY <1>9 DEF RefuseLaunch, LaunchFails, wire, NextIs
  <2>2. fate' \in [Nodes -> RankStates \cup {"none"}] /\ disturbed' \in BOOLEAN
    BY <1>1, <1>4, <1>9 DEF RefuseLaunch, LaunchFails
  <2> QED  BY <1>1, <1>3, <1>4, <1>5, <1>6, <2>1, <2>2
<1>10. CASE StartRank(n)
  <2>1. UNCHANGED <<done, link, msg, fate, disturbed>> /\ Takes(n) /\ todo[n] # <<>> /\ run' \in SUBSET Nodes
    BY <1>1, <1>10 DEF StartRank, wire, NextIs, history
  <2> QED  BY <1>1, <1>3, <1>6, <2>1
<1>11. CASE KillRank(n)
  <2>1. UNCHANGED <<link, msg, disturbed>> /\ Takes(n) /\ todo[n] # <<>> /\ run' \in SUBSET Nodes
        /\ \/ UNCHANGED <<done, fate>>
           \/ Tell(n, "CANCELLED", FALSE) /\ fate' = [fate EXCEPT ![n] = "CANCELLED"]
    BY <1>1, <1>11 DEF KillRank, wire, NextIs
  <2>2. fate' \in [Nodes -> RankStates \cup {"none"}]
    BY <1>1, <1>4, <2>1
  <2> QED  BY <1>1, <1>3, <1>4, <1>5, <1>6, <2>1, <2>2
<1>12. ASSUME NEW st \in Outcomes, RankEnds(n, st) PROVE Typed'
  <2>1. UNCHANGED <<todo, link, msg, disturbed>> /\ run' \in SUBSET Nodes /\ Tell(n, st, FALSE)
        /\ fate' \in [Nodes -> RankStates \cup {"none"}]
    BY <1>1, <1>4, <1>12 DEF RankEnds, wire
  <2> QED  BY <1>1, <1>3, <1>4, <1>5, <2>1
<1> QED  BY <1>7, <1>8, <1>9, <1>10, <1>11, <1>12

LEMMA FaultTypes ==
  \* The faults that are no handler's keep the types.
  ASSUME Typed,
         \/ ControllerRestart
         \/ \E n \in Nodes : RequestLost(n) \/ ReplyLost(n) \/ NodeExpires(n) \/ AgentRestart(n)
  PROVE  Typed'
<1>1. /\ UNCHANGED <<store, fate, disturbed, placements>> /\ msg \in [Nodes -> Msgs]
      /\ link \in [Nodes -> {"idle", "sent", "replied"}] /\ faults \in Nat /\ lost \in BOOLEAN
      /\ pass \in Passes /\ cancel \in Cancels /\ pending \in [Nodes -> Seq(Actions)]
      /\ run \in SUBSET Nodes /\ done \in [Nodes -> Seq(Report)] /\ todo \in [Nodes -> Seq(Actions)]
      /\ NoMsg \in Msgs /\ HasRanks
  BY MsgTyped DEF Typed, AgentsTyped, WireTyped, RestTyped, MemoryTyped, history, ControllerRestart,
                  RequestLost, ReplyLost, NodeExpires, AgentRestart
<1>2. StoreTyped'
  BY <1>1 DEF Typed, StoreTyped, store
<1>3. RestTyped'
  <2>1. faults' = faults + 1
    BY DEF ControllerRestart, RequestLost, ReplyLost, NodeExpires, AgentRestart, Fault
  <2>2. lost' \in BOOLEAN
    BY <1>1 DEF history, ControllerRestart, RequestLost, ReplyLost, NodeExpires, AgentRestart
  <2> QED  BY <1>1, <2>1, <2>2 DEF Typed, RestTyped
<1>4. ASSUME pass' \in Passes, HasRanks', cancel' \in Cancels, pending' \in [Nodes -> Seq(Actions)],
             run' \in SUBSET Nodes, done' \in [Nodes -> Seq(Report)], todo' \in [Nodes -> Seq(Actions)],
             link' \in [Nodes -> {"idle", "sent", "replied"}], msg' \in [Nodes -> Msgs]
      PROVE  Typed'
  BY <1>2, <1>3, <1>4 DEF Typed, AgentsTyped, WireTyped, MemoryTyped
<1>5. CASE ControllerRestart
  <2>1. pass' \in Passes /\ HasRanks' /\ cancel' \in Cancels
    BY <1>5 DEF ControllerRestart, NoPass, NoCancel, HasRanks, Passes, Cancels
  <2>2. pending' \in [Nodes -> Seq(Actions)] /\ UNCHANGED agents
    BY <1>5 DEF ControllerRestart
  <2>3. link' \in [Nodes -> {"idle", "sent", "replied"}] /\ msg' \in [Nodes -> Msgs]
    BY <1>1, <1>5 DEF ControllerRestart
  <2> QED  BY <1>1, <1>4, <2>1, <2>2, <2>3 DEF agents
<1>6. ASSUME NEW n \in Nodes, RequestLost(n) \/ ReplyLost(n) PROVE Typed'
  <2>1. UNCHANGED <<pass, cancel, pending, run, done, todo>>
    BY <1>6 DEF RequestLost, ReplyLost, memory, agents
  <2>2. link' \in [Nodes -> {"idle", "sent", "replied"}] /\ msg' \in [Nodes -> Msgs]
    BY <1>1, <1>6 DEF RequestLost, ReplyLost
  <2> QED  BY <1>1, <1>4, <2>1, <2>2 DEF HasRanks
<1>7. ASSUME NEW n \in Nodes, NodeExpires(n) PROVE Typed'
  <2>1. UNCHANGED <<pass, cancel, run, done, todo, link, msg>> /\ pending' \in [Nodes -> Seq(Actions)]
    BY <1>1, <1>7 DEF NodeExpires, agents, wire
  <2> QED  BY <1>1, <1>4, <2>1 DEF HasRanks
<1>8. ASSUME NEW n \in Nodes, AgentRestart(n) PROVE Typed'
  <2>1. UNCHANGED <<pass, cancel, pending, link, msg>> /\ run' \in SUBSET Nodes
    BY <1>1, <1>8 DEF AgentRestart, memory, wire
  <2>2. done' \in [Nodes -> Seq(Report)] /\ todo' \in [Nodes -> Seq(Actions)]
    BY <1>1, <1>8 DEF AgentRestart
  <2> QED  BY <1>1, <1>4, <2>1, <2>2 DEF HasRanks
<1> QED  BY <1>5, <1>6, <1>7, <1>8

LEMMA TypedHolds == Spec => []Typed
<1>1. Init => Typed
  <2> SUFFICES ASSUME Init PROVE Typed
    OBVIOUS
  <2>1. StoreTyped /\ AgentsTyped
    BY DEF Init, StoreTyped, AgentsTyped
  <2>2. MemoryTyped /\ HasRanks
    BY DEF Init, MemoryTyped, HasRanks, NoPass, NoCancel, Passes, Cancels
  <2>3. WireTyped /\ RestTyped
    BY MsgTyped DEF Init, WireTyped, RestTyped
  <2> QED  BY <2>1, <2>2, <2>3 DEF Typed
<1>2. Typed /\ [Next]_vars => Typed'
  <2>1. ASSUME Typed, UNCHANGED vars PROVE Typed'
    BY <2>1 DEF vars, store, memory, agents, wire, history, Typed, StoreTyped, MemoryTyped, AgentsTyped,
                WireTyped, RestTyped, HasRanks
  <2> QED
    BY <2>1, PassTypes, UserTypes, HandlerTypes, AgentTypes, FaultTypes
       DEF Next, HeartbeatStep, AgentStep, FaultStep
<1> QED  BY <1>1, <1>2, PTL DEF Spec

\* Every variable keeps its type.
THEOREM GangTypeCorrect == Spec => []GangTypeOK
BY TypedHolds, TypedIsTypeOK, PTL

-----------------------------------------------------------------------------
(* The inductive invariant: where each rank is, as long as nobody interferes *)

\* Nothing of the job is at the machine or on its way there.
Quiet(n) ==
  /\ pending[n] = <<>> /\ todo[n] = <<>> /\ msg[n].actions = <<>>
  /\ n \notin run /\ fate[n] = "none" /\ done[n] = <<>>
  /\ msg[n].reports = <<>> /\ msg[n].step = "next"

\* One launch is on its way.
Called(n) ==
  /\ n \notin run /\ fate[n] = "none" /\ done[n] = <<>>
  /\ msg[n].reports = <<>> /\ msg[n].step = "next"
  /\ \/ pending[n] = <<"launch">> /\ todo[n] = <<>> /\ msg[n].actions = <<>>
     \/ pending[n] = <<>> /\ todo[n] = <<"launch">> /\ msg[n].actions = <<>>
     \/ pending[n] = <<>> /\ todo[n] = <<>> /\ msg[n].actions = <<"launch">>

\* The process runs.
AtWork(n) ==
  /\ pending[n] = <<>> /\ todo[n] = <<>> /\ msg[n].actions = <<>>
  /\ n \in run /\ fate[n] = "none" /\ done[n] = <<>>
  /\ msg[n].reports = <<>> /\ msg[n].step = "next"

\* It has ended, and that is what every report says; there may be kills on their way.
Kills(q) == \A i \in DOMAIN q : q[i] = "kill"
Says(q, st) == \A i \in DOMAIN q : q[i] = [st |-> st, refused |-> FALSE]
Over(n) ==
  /\ Kills(pending[n]) /\ Kills(todo[n]) /\ Kills(msg[n].actions)
  /\ n \notin run /\ fate[n] \in Outcomes
  /\ Says(done[n], fate[n]) /\ Says(msg[n].reports, fate[n])
  /\ msg[n].step \in {"next", "task", "outcome", "mark"}

Stages == \A n \in Nodes : Quiet(n) \/ Called(n) \/ AtWork(n) \/ Over(n)

\* Ranks are on different machines.
Apart == \A i, k \in DOMAIN tasks : tasks[i].node = tasks[k].node => i = k

\* The pass launches each rank once, and nothing has begun before.
PassKnows ==
  /\ pass.step = "mark" => state = "PENDING"
  /\ pass.step = "fabric" => state = "RUNNING"
  /\ pass.step = "launch" => state # "PENDING"
  /\ pass.step # "idle" =>
       /\ tasks # <<>>
       /\ \A a, b \in DOMAIN pass.ranks : pass.ranks[a] = pass.ranks[b] => a = b
       /\ \A a \in DOMAIN pass.ranks : pass.ranks[a] \in NodesOf(tasks) /\ Quiet(pass.ranks[a])
  /\ pass.step \in {"mark", "fabric"} => \A i \in DOMAIN tasks : tasks[i].st = "RUNNING"
  /\ state = "PENDING" \/ pass.step \in {"mark", "fabric"} => \A n \in Nodes : Quiet(n)

\* A rank that is recorded is over, and recorded as it ended.
Recorded ==
  /\ \A n \in Nodes \ NodesOf(tasks) : Quiet(n)
  /\ \A i \in DOMAIN tasks :
       Terminal(tasks[i].st) => Over(tasks[i].node) /\ tasks[i].st = fate[tasks[i].node]

AllOver == tasks # <<>> /\ \A i \in DOMAIN tasks : Terminal(tasks[i].st)

\* A result is that of ranks which have all ended; the ranks a handler would still stop
\* are ranks of the job.
ResultKnows ==
  /\ Terminal(state) => AllOver /\ state = Worst(tasks)
  /\ \A n \in Nodes :
       /\ msg[n].step = "mark" => AllOver /\ msg[n].verdict = Worst(tasks)
       /\ msg[n].step \in {"task", "outcome", "mark"} => Unfinished(msg[n].rows) \subseteq NodesOf(tasks)

Undisturbed == cancel = NoCancel /\ Stages /\ Apart /\ PassKnows /\ Recorded /\ ResultKnows

GangInv == ~disturbed => Undisturbed

LEMMA Kill ==
  \* Kills behind kills.
  ASSUME NEW q \in Seq(Actions), Kills(q)
  PROVE  /\ Kills(Append(q, "kill"))
         /\ q # <<>> => Head(q) = "kill" /\ Kills(Tail(q))
<1>1. Kills(Append(q, "kill"))
  <2>1. DOMAIN Append(q, "kill") = 1..(Len(q) + 1) /\ DOMAIN q = 1..Len(q)
    OBVIOUS
  <2>2. \A i \in 1..(Len(q) + 1) : Append(q, "kill")[i] = IF i = Len(q) + 1 THEN "kill" ELSE q[i]
    OBVIOUS
  <2> QED  BY <2>1, <2>2 DEF Kills
<1> QED  BY <1>1, Queues DEF Kills

LEMMA Saying ==
  \* Reports of one ending.
  ASSUME NEW q \in Seq(Report), NEW st \in RankStates, Says(q, st)
  PROVE  /\ Says(Append(q, [st |-> st, refused |-> FALSE]), st)
         /\ q # <<>> => Head(q) = [st |-> st, refused |-> FALSE] /\ Says(Tail(q), st)
<1>1. ASSUME NEW r \in Report, r = [st |-> st, refused |-> FALSE]
      PROVE  Says(Append(q, r), st)
  <2>1. DOMAIN Append(q, r) = 1..(Len(q) + 1) /\ DOMAIN q = 1..Len(q)
    OBVIOUS
  <2>2. \A i \in 1..(Len(q) + 1) : Append(q, r)[i] = IF i = Len(q) + 1 THEN r ELSE q[i]
    OBVIOUS
  <2>3. ASSUME NEW i \in 1..(Len(q) + 1) PROVE Append(q, r)[i] = r
    <3>1. \A k \in 1..Len(q) : q[k] = r
      BY <1>1, <2>1 DEF Says
    <3>2. i # Len(q) + 1 => i \in 1..Len(q)
      OBVIOUS
    <3> HIDE <1>1
    <3> QED  BY <2>2, <3>1, <3>2
  <2> QED  BY <1>1, <2>1, <2>3 DEF Says
<1>2. [st |-> st, refused |-> FALSE] \in Report
  BY DEF Report
<1>3. q # <<>> => Head(q) = [st |-> st, refused |-> FALSE] /\ Says(Tail(q), st)
  BY Queues DEF Says
<1> QED  BY <1>1, <1>2, <1>3

LEMMA Nothings ==
  \* An empty queue, and one that holds a launch.
  /\ Kills(<<>>) /\ \A st : Says(<<>>, st)
  /\ \A q : q = <<"launch">> => q # <<>> /\ Head(q) = "launch" /\ Tail(q) = <<>> /\ ~Kills(q)
  /\ Append(<<>>, "launch") = <<"launch">>
<1>1. Kills(<<>>) /\ \A st : Says(<<>>, st)
  BY DEF Kills, Says
<1>2. ASSUME NEW q, q = <<"launch">>
      PROVE  q # <<>> /\ Head(q) = "launch" /\ Tail(q) = <<>> /\ ~Kills(q)
  <2>1. q[1] = "launch" /\ 1 \in DOMAIN q /\ q # <<>> /\ Head(q) = "launch"
    BY <1>2
  <2>2. Tail(q) = <<>>
    BY <1>2
  <2> QED  BY <2>1, <2>2 DEF Kills
<1>3. Append(<<>>, "launch") = <<"launch">>
  OBVIOUS
<1> QED  BY <1>1, <1>2, <1>3

\* A step leaves everything at machine k as it is.
SameAt(k) ==
  /\ UNCHANGED <<pending[k], todo[k], done[k], msg[k], fate[k]>>
  /\ k \in run' <=> k \in run

Stage(k) == Quiet(k) \/ Called(k) \/ AtWork(k) \/ Over(k)

\* A step moves a rank on, and neither wakes it nor brings it back.
Moves(k) ==
  /\ Quiet(k) => Quiet(k)'
  /\ Over(k) => Over(k)' /\ fate'[k] = fate[k]
  /\ Stage(k)'

HandlerKnows(k) ==
  /\ msg[k].step = "mark" => AllOver /\ msg[k].verdict = Worst(tasks)
  /\ msg[k].step \in {"task", "outcome", "mark"} => Unfinished(msg[k].rows) \subseteq NodesOf(tasks)

LEMMA SameStage ==
  \* What is as it was is at the stage it was at.
  ASSUME NEW k, SameAt(k)
  PROVE  /\ Quiet(k)' <=> Quiet(k)
         /\ Over(k)' <=> Over(k)
         /\ Stage(k) => Moves(k)
BY DEF SameAt, Moves, Stage, Quiet, Called, AtWork, Over

LEMMA LocalIsEnough ==
  \* A step that moves ranks on and leaves the job alone.
  ASSUME Typed, Undisturbed, UNCHANGED store,
         UNCHANGED pass \/ pass' = NoPass, UNCHANGED cancel \/ cancel' = NoCancel,
         \A k \in Nodes : Moves(k) /\ HandlerKnows(k)'
  PROVE  Undisturbed'
<1>1. UNCHANGED <<state, tasks>>
  BY DEF store
<1>2. cancel' = NoCancel /\ Stages' /\ Apart'
  BY <1>1 DEF Undisturbed, Stages, Apart, Moves, Stage
<1>3. PassKnows'
  <2>1. pass.step # "idle" => \A a \in DOMAIN pass.ranks : pass.ranks[a] \in Nodes
    BY RowsTyped DEF Typed, StoreTyped, Undisturbed, PassKnows
  <2>2. CASE UNCHANGED pass
    BY <1>1, <2>1, <2>2 DEF Undisturbed, PassKnows, NodesOf, Moves
  <2>3. CASE pass' = NoPass
    BY <1>1, <2>3 DEF Undisturbed, PassKnows, NoPass, Moves
  <2> QED  BY <2>2, <2>3
<1>4. Recorded'
  <2>1. \A i \in DOMAIN tasks : tasks[i].node \in Nodes
    BY RowsTyped DEF Typed, StoreTyped
  <2> QED  BY <1>1, <2>1 DEF Undisturbed, Recorded, NodesOf, Moves
<1>5. ResultKnows'
  BY <1>1 DEF Undisturbed, ResultKnows, AllOver, HandlerKnows
<1> QED  BY <1>2, <1>3, <1>4, <1>5 DEF Undisturbed

LEMMA AtIsEnough ==
  \* The same, for a step at one machine.
  ASSUME Typed, Undisturbed, UNCHANGED <<store, pass, cancel>>, NEW n \in Nodes,
         \A k \in Nodes \ {n} : SameAt(k),
         Moves(n), HandlerKnows(n)'
  PROVE  Undisturbed'
<1>1. ASSUME NEW k \in Nodes \ {n} PROVE Moves(k) /\ HandlerKnows(k)'
  <2>1. Moves(k)
    BY <1>1, SameStage DEF Undisturbed, Stages, Stage
  <2>2. HandlerKnows(k)
    BY DEF Undisturbed, ResultKnows, HandlerKnows
  <2> QED  BY <2>1, <2>2, <1>1 DEF SameAt, HandlerKnows, AllOver, store
<1> QED  BY <1>1, LocalIsEnough

LEMMA AtTyped ==
  \* What a machine has.
  ASSUME Typed, NEW n \in Nodes
  PROVE  /\ pending[n] \in Seq(Actions) /\ todo[n] \in Seq(Actions) /\ msg[n].actions \in Seq(Actions)
         /\ done[n] \in Seq(Report) /\ msg[n].reports \in Seq(Report)
         /\ msg[n] \in Msgs /\ fate[n] \in RankStates \cup {"none"}
BY MsgTyped DEF Typed, MemoryTyped, AgentsTyped, WireTyped, RestTyped

LEMMA Others ==
  \* A step that changes what one machine has.
  ASSUME Typed, NEW n \in Nodes, NEW k \in Nodes \ {n},
         \/ UNCHANGED pending \/ \E v : pending' = [pending EXCEPT ![n] = v],
         \/ UNCHANGED todo \/ \E v : todo' = [todo EXCEPT ![n] = v],
         \/ UNCHANGED done \/ \E v : done' = [done EXCEPT ![n] = v],
         \/ UNCHANGED msg \/ \E v : msg' = [msg EXCEPT ![n] = v],
         \/ UNCHANGED fate \/ \E v : fate' = [fate EXCEPT ![n] = v],
         \/ UNCHANGED run \/ run' = run \ {n} \/ run' = run \cup {n}
  PROVE  SameAt(k)
BY DEF SameAt, Typed, MemoryTyped, AgentsTyped, WireTyped, RestTyped

LEMMA AgentsMove ==
  \* An agent and its process, undisturbed.
  ASSUME Typed, Undisturbed, NEW n \in Nodes,
         \/ SendHeartbeat(n) \/ ReceiveReply(n) \/ StartRank(n) \/ LaunchFails(n) \/ KillRank(n)
         \/ \E st \in Outcomes : RankEnds(n, st)
  PROVE  Undisturbed'
<1>1. UNCHANGED <<store, pass, cancel, pending>>
  BY DEF memory, SendHeartbeat, ReceiveReply, StartRank, LaunchFails, KillRank, RankEnds
<1>2. ASSUME NEW k \in Nodes \ {n} PROVE SameAt(k)
  BY <1>1, Others DEF SendHeartbeat, ReceiveReply, StartRank, LaunchFails, KillRank, RankEnds, Tell, Takes,
                      memory, agents, wire, history
<1>3. Stage(n) /\ HandlerKnows(n)
  BY DEF Undisturbed, Stages, Stage, ResultKnows, HandlerKnows
<1>4. /\ msg \in [Nodes -> Msgs] /\ done \in [Nodes -> Seq(Report)] /\ todo \in [Nodes -> Seq(Actions)]
      /\ fate \in [Nodes -> RankStates \cup {"none"}]
  BY DEF Typed, AgentsTyped, WireTyped, RestTyped
<1>5. "none" \notin Outcomes /\ Outcomes \subseteq RankStates /\ "FAILED" \in Outcomes
  BY GangAssumption DEF RankStates
<1>6. HandlerKnows(n)'
  <2>1. msg' = msg \/ msg' = [msg EXCEPT ![n] = [NoMsg EXCEPT !.reports = done[n]]]
          \/ msg' = [msg EXCEPT ![n] = NoMsg]
    BY DEF SendHeartbeat, ReceiveReply, StartRank, LaunchFails, KillRank, RankEnds, wire
  <2>2. msg' = msg \/ msg'[n].step = "next"
    BY <1>4, <2>1 DEF NoMsg
  <2> QED  BY <1>1, <1>3, <2>2 DEF HandlerKnows, AllOver, store
<1>7. CASE SendHeartbeat(n)
  <2>1. /\ UNCHANGED <<todo, run, done, fate>> /\ msg'[n].reports = done[n]
        /\ msg'[n].actions = <<>> /\ msg'[n].step = "next"
    BY <1>4, <1>7 DEF SendHeartbeat, agents, history, NoMsg
  <2>2. Moves(n)
    BY <1>1, <1>3, <2>1, Nothings DEF Moves, Stage, Quiet, Called, AtWork, Over
  <2> QED  BY <1>1, <1>2, <1>6, <2>2, AtIsEnough
<1>8. CASE ReceiveReply(n)
  <2>1. /\ UNCHANGED <<run, fate>> /\ (done'[n] = <<>> \/ done'[n] = done[n]) /\ todo'[n] = msg[n].actions
        /\ msg'[n].reports = <<>> /\ msg'[n].actions = <<>> /\ msg'[n].step = "next"
    BY <1>4, <1>8 DEF ReceiveReply, history, NoMsg
  <2>2. Moves(n)
    BY <1>1, <1>3, <2>1, Nothings DEF Moves, Stage, Quiet, Called, AtWork, Over
  <2> QED  BY <1>1, <1>2, <1>6, <2>2, AtIsEnough
<1>9. CASE StartRank(n) \/ LaunchFails(n)
  <2>1. /\ todo[n] # <<>> /\ Head(todo[n]) = "launch" /\ todo'[n] = Tail(todo[n]) /\ UNCHANGED msg
        /\ \/ run' = run \cup {n} /\ UNCHANGED <<done, fate>>
           \/ run' = run /\ n \notin run /\ fate'[n] = "FAILED"
              /\ done'[n] = Append(done[n], [st |-> "FAILED", refused |-> FALSE])
    BY <1>4, <1>9 DEF StartRank, LaunchFails, NextIs, Tell, Takes, wire, history
  <2>2. todo[n] = <<"launch">> /\ Called(n)
    BY <1>3, <2>1, AtTyped, Kill DEF Stage, Quiet, Called, AtWork, Over
  <2>3. todo'[n] = <<>> /\ pending[n] = <<>> /\ msg[n].actions = <<>> /\ ~Quiet(n) /\ ~Over(n)
    BY <2>1, <2>2, Nothings DEF Called, Quiet, Over
  <2>4. Stage(n)'
    <3>1. CASE run' = run \cup {n} /\ UNCHANGED <<done, fate>>
      BY <1>1, <2>1, <2>2, <2>3, <3>1 DEF Stage, AtWork, Called
    <3>2. CASE ~(run' = run \cup {n} /\ UNCHANGED <<done, fate>>)
      <4>1. done'[n] = Append(<<>>, [st |-> "FAILED", refused |-> FALSE]) /\ <<>> \in Seq(Report)
        BY <2>1, <2>2, <3>2 DEF Called
      <4>2. Says(done'[n], "FAILED")
        BY <1>5, <4>1, Saying, Nothings
      <4> QED  BY <1>1, <1>5, <2>1, <2>2, <2>3, <3>2, <4>2, Nothings DEF Stage, Over, Called
    <3> QED  BY <3>1, <3>2
  <2>5. Moves(n)
    BY <2>3, <2>4 DEF Moves
  <2> QED  BY <1>1, <1>2, <1>6, <2>5, AtIsEnough
<1>10. CASE KillRank(n)
  <2>1. /\ todo[n] # <<>> /\ Head(todo[n]) = "kill" /\ todo'[n] = Tail(todo[n]) /\ UNCHANGED msg
        /\ run' = run \ {n} /\ (n \notin run => UNCHANGED <<done, fate>>)
    BY <1>4, <1>10 DEF KillRank, NextIs, Takes, wire
  <2>2. Over(n) /\ n \notin run
    BY <1>3, <2>1, Nothings DEF Stage, Quiet, Called, AtWork, Over
  <2>3. Kills(Tail(todo[n]))
    BY <2>1, <2>2, AtTyped, Kill DEF Over
  <2>4. Over(n)' /\ ~Quiet(n)
    BY <1>1, <1>5, <2>1, <2>2, <2>3 DEF Over, Quiet
  <2>5. Moves(n)
    BY <2>1, <2>2, <2>4 DEF Moves, Stage
  <2> QED  BY <1>1, <1>2, <1>6, <2>5, AtIsEnough
<1>11. ASSUME NEW st \in Outcomes, RankEnds(n, st) PROVE Undisturbed'
  <2>1. /\ n \in run /\ run' = run \ {n} /\ UNCHANGED <<todo, msg>> /\ fate'[n] = st
        /\ done'[n] = Append(done[n], [st |-> st, refused |-> FALSE])
    BY <1>4, <1>11 DEF RankEnds, Tell, wire
  <2>2. AtWork(n) /\ ~Quiet(n) /\ ~Over(n)
    BY <1>3, <2>1 DEF Stage, Quiet, Called, AtWork, Over
  <2>3. Says(done'[n], st)
    <3>1. done'[n] = Append(<<>>, [st |-> st, refused |-> FALSE]) /\ <<>> \in Seq(Report)
      BY <2>1, <2>2 DEF AtWork
    <3> QED  BY <1>5, <3>1, Saying, Nothings
  <2>4. Over(n)'
    BY <1>1, <2>1, <2>2, <2>3, Nothings DEF Over, AtWork
  <2>5. Moves(n)
    BY <2>2, <2>4 DEF Moves, Stage
  <2> QED  BY <1>1, <1>2, <1>6, <2>5, AtIsEnough
<1> QED  BY <1>7, <1>8, <1>9, <1>10, <1>11

LEMMA Reporting ==
  \* A handler with a report at hand has it from a rank of the job that is over.
  ASSUME Typed, Undisturbed, NEW n \in Nodes, msg[n].reports # <<>>
  PROVE  /\ Over(n) /\ ~Quiet(n) /\ n \in NodesOf(tasks) /\ tasks # <<>>
         /\ Head(msg[n].reports) = [st |-> fate[n], refused |-> FALSE]
         /\ msg[n].step \in {"next", "task", "outcome", "mark"}
<1>1. Over(n)
  BY DEF Undisturbed, Stages, Quiet, Called, AtWork
<1>2. "none" \notin Outcomes /\ Outcomes \subseteq RankStates
  BY GangAssumption DEF RankStates
<1>3. ~Quiet(n) /\ n \in NodesOf(tasks)
  BY <1>1, <1>2 DEF Over, Quiet, Undisturbed, Recorded
<1>4. tasks # <<>>
  BY <1>3 DEF NodesOf
<1>5. Head(msg[n].reports) = [st |-> fate[n], refused |-> FALSE]
  BY <1>1, <1>2, AtTyped, Saying DEF Over
<1> QED  BY <1>1, <1>3, <1>4, <1>5 DEF Over

LEMMA Settling ==
  \* A handler done with a report leaves the rank over.
  ASSUME Typed, NEW n \in Nodes, NEW ack, Over(n), msg[n].reports # <<>>,
         msg' = [msg EXCEPT ![n] = Settled(@, ack)],
         UNCHANGED <<agents, fate>>, Kills(pending'[n])
  PROVE  Over(n)' /\ HandlerKnows(n)'
<1>1. msg'[n].reports = Tail(msg[n].reports) /\ msg'[n].step = "next" /\ msg'[n].actions = <<>>
  BY DEF Typed, WireTyped, Settled, NoMsg
<1>2. Says(Tail(msg[n].reports), fate[n])
  <2>1. fate[n] \in RankStates
    BY GangAssumption DEF Over, RankStates
  <2> QED  BY <2>1, AtTyped, Saying DEF Over
<1> QED  BY <1>1, <1>2, Nothings DEF Over, HandlerKnows, agents

LEMMA StopsOver ==
  \* When every rank is over, a handler stops only those.
  ASSUME Typed, Undisturbed, NEW n \in Nodes, msg[n].step = "mark", NEW k \in Nodes
  PROVE  Stopped(n)[k] = pending[k] \/ (Over(k) /\ Kills(Stopped(n)[k]))
<1>1. AllOver /\ Unfinished(msg[n].rows) \subseteq NodesOf(tasks)
  BY DEF Undisturbed, ResultKnows
<1>2. \A m \in NodesOf(tasks) : Over(m)
  BY <1>1 DEF AllOver, NodesOf, Undisturbed, Recorded
<1>3. \/ Stopped(n)[k] = pending[k]
      \/ k \in Unfinished(msg[n].rows) /\ Stopped(n)[k] = Append(pending[k], "kill")
  BY DEF Stopped
<1>4. pending[k] \in Seq(Actions) /\ (Over(k) => Kills(pending[k]))
  BY AtTyped DEF Over
<1> QED  BY <1>1, <1>2, <1>3, <1>4, Kill

LEMMA StopsMove ==
  \* A handler that has the result settles its report and stops other ranks.
  ASSUME Typed, Undisturbed, NEW n \in Nodes, msg[n].step = "mark", msg[n].reports # <<>>,
         pending' = Stopped(n), Settles(n, TRUE), UNCHANGED <<agents, fate, tasks>>, NEW k \in Nodes
  PROVE  Moves(k) /\ HandlerKnows(k)'
<1>1. Stopped(n)[k] = pending[k] \/ (Over(k) /\ Kills(Stopped(n)[k]))
  BY StopsOver
<1>2. CASE k = n
  <2>1. Over(n) /\ ~Quiet(n)
    BY Reporting
  <2>2. Kills(pending'[n])
    BY <1>1, <1>2, <2>1 DEF Over
  <2>3. Over(n)' /\ HandlerKnows(n)'
    BY <2>1, <2>2, Settling DEF Settles
  <2> QED  BY <1>2, <2>1, <2>3 DEF Moves, Stage
<1>3. CASE k # n
  <2>1. msg'[k] = msg[k]
    BY <1>3 DEF Settles, Typed, WireTyped
  <2>2. HandlerKnows(k)'
    BY <2>1 DEF HandlerKnows, AllOver, Undisturbed, ResultKnows
  <2>3. CASE pending'[k] = pending[k]
    BY <2>1, <2>2, <2>3, SameStage DEF SameAt, agents, Undisturbed, Stages, Stage
  <2>4. CASE Over(k) /\ Kills(pending'[k])
    <3>1. ~Quiet(k)
      BY <2>4, GangAssumption DEF Over, Quiet
    <3>2. Over(k)'
      BY <2>1, <2>4 DEF Over, agents
    <3> QED  BY <2>2, <3>1, <3>2 DEF Moves, Stage, agents
  <2> QED  BY <1>1, <2>2, <2>3, <2>4
<1> QED  BY <1>2, <1>3

LEMMA HandlerMoves ==
  \* A handler that leaves the job's record alone, undisturbed.
  ASSUME Typed, Undisturbed, NEW n \in Nodes,
         ReadReport(n) \/ ReadOutcome(n) \/ ReportFails(n) \/ Reply(n) \/ FinishGangFails(n)
  PROVE  Undisturbed'
<1>1. UNCHANGED <<store, pass, cancel, agents, fate>>
  BY DEF ReadReport, ReadOutcome, ReportFails, Reply, FinishGangFails, memory, history
<1>2. Stage(n) /\ HandlerKnows(n) /\ msg \in [Nodes -> Msgs] /\ pending \in [Nodes -> Seq(Actions)]
  BY DEF Undisturbed, Stages, Stage, ResultKnows, HandlerKnows, Typed, WireTyped, MemoryTyped
<1>3. ASSUME NEW ack, Settles(n, ack), msg[n].reports # <<>>, UNCHANGED pending PROVE Undisturbed'
  <2>1. \A k \in Nodes \ {n} : SameAt(k)
    BY <1>1, <1>3, Others DEF Settles, agents
  <2>2. Over(n) /\ ~Quiet(n)
    BY <1>3, Reporting
  <2>3. Over(n)' /\ HandlerKnows(n)'
    BY <1>1, <1>3, <2>2, Settling DEF Settles, Over
  <2> QED  BY <1>1, <2>1, <2>2, <2>3, AtIsEnough DEF Moves, Stage
<1>4. CASE ReadReport(n)
  <2>1. msg[n].reports # <<>> /\ UNCHANGED pending
    BY <1>4 DEF ReadReport, At, memory
  <2>2. ~Head(msg[n].reports).refused /\ tasks # <<>> /\ Over(n) /\ ~Quiet(n)
    <3>1. Head(msg[n].reports) = [st |-> fate[n], refused |-> FALSE]
      BY <2>1, Reporting
    <3> QED  BY <2>1, <3>1, Reporting
  <2>3. Settles(n, TRUE) \/ msg' = [msg EXCEPT ![n].rows = tasks, ![n].step = "task"]
    BY <1>4, <2>2 DEF ReadReport
  <2>4. CASE msg' = [msg EXCEPT ![n].rows = tasks, ![n].step = "task"]
    <3>1. \A k \in Nodes \ {n} : SameAt(k)
      BY <1>1, <1>2, <2>1, <2>4 DEF agents, SameAt
    <3>2. msg'[n].step = "task" /\ msg'[n].rows = tasks
          /\ msg'[n].reports = msg[n].reports /\ msg'[n].actions = msg[n].actions
      BY <1>2, <2>4 DEF Msgs, Msg
    <3>3. Over(n)' /\ HandlerKnows(n)'
      BY <1>1, <2>1, <2>2, <3>2 DEF Over, HandlerKnows, agents, store, Unfinished, NodesOf
    <3> QED  BY <1>1, <2>2, <3>1, <3>3, AtIsEnough DEF Moves, Stage
  <2> QED  BY <1>3, <2>1, <2>3, <2>4
<1>5. CASE ReadOutcome(n)
  <2>1. msg[n].reports # <<>> /\ UNCHANGED pending /\ msg[n].step = "outcome"
    BY <1>5 DEF ReadOutcome, At, memory
  <2>2. Over(n) /\ ~Quiet(n)
    BY <2>1, Reporting
  <2>3. CASE tasks # <<>> /\ Unfinished(tasks) = {}
             /\ msg' = [msg EXCEPT ![n].step = "mark", ![n].verdict = Worst(tasks)]
    <3>1. \A k \in Nodes \ {n} : SameAt(k)
      BY <1>1, <1>2, <2>1, <2>3 DEF agents, SameAt
    <3>2. msg'[n].step = "mark" /\ msg'[n].verdict = Worst(tasks) /\ msg'[n].rows = msg[n].rows
          /\ msg'[n].reports = msg[n].reports /\ msg'[n].actions = msg[n].actions
      BY <1>2, <2>3 DEF Msgs, Msg
    <3>3. AllOver
      BY <2>3 DEF AllOver, Unfinished
    <3>4. Over(n)' /\ HandlerKnows(n)'
      BY <1>1, <1>2, <2>1, <2>2, <3>2, <3>3 DEF Over, HandlerKnows, agents, store, AllOver
    <3> QED  BY <1>1, <2>2, <3>1, <3>4, AtIsEnough DEF Moves, Stage
  <2>4. Settles(n, TRUE) \/ ~(tasks = <<>> \/ Unfinished(tasks) # {})
    BY <1>5 DEF ReadOutcome
  <2> QED  BY <1>3, <1>5, <2>1, <2>3, <2>4 DEF ReadOutcome
<1>6. CASE ReportFails(n)
  BY <1>3, <1>6 DEF ReportFails, At, memory
<1>7. CASE Reply(n)
  <2>1. /\ UNCHANGED agents /\ msg'[n].actions = pending[n] /\ pending'[n] = <<>>
        /\ msg'[n].reports = msg[n].reports /\ msg'[n].step = msg[n].step
        /\ msg'[n].rows = msg[n].rows /\ msg'[n].verdict = msg[n].verdict
    BY <1>2, <1>7 DEF Reply, Msgs, Msg
  <2>2. \A k \in Nodes \ {n} : SameAt(k)
    BY <1>1, <1>2, <1>7 DEF Reply, SameAt, agents
  <2>3. Moves(n)
    BY <1>1, <1>2, <2>1, Nothings DEF Moves, Stage, Quiet, Called, AtWork, Over, agents
  <2>4. HandlerKnows(n)'
    BY <1>1, <1>2, <2>1 DEF HandlerKnows, store, AllOver
  <2> QED  BY <1>1, <2>2, <2>3, <2>4, AtIsEnough
<1>8. CASE FinishGangFails(n)
  <2>1. msg[n].step = "mark" /\ msg[n].reports # <<>> /\ pending' = Stopped(n) /\ Settles(n, TRUE)
    BY <1>8 DEF FinishGangFails, At
  <2>2. ASSUME NEW k \in Nodes PROVE Moves(k) /\ HandlerKnows(k)'
    BY <1>1, <2>1, StopsMove DEF store
  <2> QED  BY <1>1, <2>2, LocalIsEnough
<1> QED  BY <1>4, <1>5, <1>6, <1>7, <1>8

LEMMA FaultsMove ==
  \* A fault at one machine, undisturbed: what is lost there brings nothing back.
  ASSUME Typed, Undisturbed, NEW n \in Nodes,
         RequestLost(n) \/ ReplyLost(n) \/ NodeExpires(n) \/ AgentRestart(n)
  PROVE  Undisturbed'
<1>1. UNCHANGED <<store, pass, cancel, fate>>
  BY DEF RequestLost, ReplyLost, NodeExpires, AgentRestart, memory, history
<1>2. ASSUME NEW k \in Nodes \ {n} PROVE SameAt(k)
  BY Others DEF RequestLost, ReplyLost, NodeExpires, AgentRestart, memory, agents, wire, history
<1>3. Stage(n) /\ HandlerKnows(n)
  BY DEF Undisturbed, Stages, Stage, ResultKnows, HandlerKnows
<1>4. \/ msg' = msg
      \/ msg'[n].step = "next" /\ msg'[n].reports = <<>> /\ msg'[n].actions = <<>>
  <2>1. msg' = msg \/ msg' = [msg EXCEPT ![n] = NoMsg]
    BY DEF RequestLost, ReplyLost, NodeExpires, AgentRestart, wire
  <2>2. msg \in [Nodes -> Msgs]
    BY DEF Typed, WireTyped
  <2> QED  BY <2>1, <2>2 DEF NoMsg
<1>5. /\ UNCHANGED pending \/ pending'[n] = <<>>
      /\ UNCHANGED agents \/ (run' = run \ {n} /\ done'[n] = <<>> /\ todo'[n] = <<>>)
  BY DEF RequestLost, ReplyLost, NodeExpires, AgentRestart, memory, Typed, MemoryTyped, AgentsTyped
<1>6. HandlerKnows(n)'
  BY <1>1, <1>3, <1>4 DEF HandlerKnows, AllOver, store
<1>7. Moves(n)
  <2>1. CASE UNCHANGED agents
    BY <1>1, <1>3, <1>4, <1>5, <2>1, Nothings DEF Moves, Stage, Quiet, Called, AtWork, Over, agents
  <2>2. CASE run' = run \ {n} /\ done'[n] = <<>> /\ todo'[n] = <<>>
    BY <1>1, <1>3, <1>4, <1>5, <2>2, Nothings DEF Moves, Stage, Quiet, Called, AtWork, Over
  <2> QED  BY <1>5, <2>1, <2>2
<1> QED  BY <1>1, <1>2, <1>6, <1>7, AtIsEnough

LEMMA RestartMoves ==
  \* The controller comes back without its memory and its handlers.
  ASSUME Typed, Undisturbed, ControllerRestart
  PROVE  Undisturbed'
<1>1. UNCHANGED <<store, agents, fate>> /\ pass' = NoPass /\ cancel' = NoCancel
  BY DEF ControllerRestart
<1>2. ASSUME NEW k \in Nodes PROVE Moves(k) /\ HandlerKnows(k)'
  <2>1. pending'[k] = <<>> /\ (msg'[k] = msg[k] \/ msg'[k] = NoMsg)
    BY DEF ControllerRestart
  <2>2. \/ msg'[k] = msg[k]
        \/ msg'[k].step = "next" /\ msg'[k].reports = <<>> /\ msg'[k].actions = <<>>
    BY <2>1 DEF NoMsg
  <2>3. Stage(k) /\ HandlerKnows(k)
    BY DEF Undisturbed, Stages, Stage, ResultKnows, HandlerKnows
  <2>4. HandlerKnows(k)'
    BY <1>1, <2>2, <2>3 DEF HandlerKnows, AllOver, store
  <2>5. Moves(k)
    BY <1>1, <2>1, <2>2, <2>3, Nothings DEF Moves, Stage, Quiet, Called, AtWork, Over, agents
  <2> QED  BY <2>4, <2>5
<1> QED  BY <1>1, <1>2, LocalIsEnough

LEMMA RowIs ==
  \* Undisturbed, a machine with a rank has one row.
  ASSUME Undisturbed, NEW i \in DOMAIN tasks
  PROVE  RowOf(tasks[i].node) = {i}
BY DEF Undisturbed, Apart, RowOf

LEMMA RecordMoves ==
  \* A rank's end is recorded as the machine saw it.
  ASSUME Typed, Undisturbed, NEW n \in Nodes, RecordRank(n)
  PROVE  /\ Undisturbed'
         /\ \/ tasks' = tasks
            \/ \E i \in DOMAIN tasks :
                 /\ tasks[i].node = n /\ tasks[i].st = "RUNNING" /\ state = "RUNNING"
                 /\ tasks' = [tasks EXCEPT ![i].st = fate[n]]
<1>1. msg[n].reports # <<>> /\ msg[n].step = "task" /\ UNCHANGED <<state, memory, agents, fate>>
  BY DEF RecordRank, At, history
<1>2. /\ Over(n) /\ ~Quiet(n) /\ n \in NodesOf(tasks) /\ tasks # <<>>
      /\ Head(msg[n].reports).st = fate[n]
  <2>1. Head(msg[n].reports) = [st |-> fate[n], refused |-> FALSE]
    BY <1>1, Reporting
  <2> QED  BY <1>1, <2>1, Reporting
<1>3. CASE n \notin Unfinished(tasks)
  <2>1. UNCHANGED tasks /\ Settles(n, TRUE)
    BY <1>3 DEF RecordRank
  <2>2. \A k \in Nodes \ {n} : SameAt(k)
    BY <1>1, <2>1 DEF Settles, SameAt, memory, agents, Typed, WireTyped
  <2>3. Over(n)' /\ HandlerKnows(n)'
    BY <1>1, <1>2, <2>1, Settling DEF Settles, Over, memory
  <2> QED  BY <1>1, <1>2, <2>1, <2>2, <2>3, AtIsEnough DEF Moves, Stage, store, memory
<1>4. CASE n \in Unfinished(tasks)
  <2>1. PICK i \in DOMAIN tasks : tasks[i].node = n /\ ~Terminal(tasks[i].st)
    BY <1>4 DEF Unfinished
  <2>2. /\ tasks' = [tasks EXCEPT ![i].st = fate[n]]
        /\ msg' = [msg EXCEPT ![n].step = "outcome"]
    <3>1. tasks' = [k \in DOMAIN tasks |-> IF k \in RowOf(n) THEN [tasks[k] EXCEPT !.st = fate[n]] ELSE tasks[k]]
      BY <1>2, <1>4 DEF RecordRank
    <3>2. tasks \in Seq(Task) /\ RowOf(n) = {i}
      BY <2>1, RowIs DEF Typed, StoreTyped
    <3> QED  BY <1>4, <3>1, <3>2 DEF RecordRank, Goes
  <2>3. /\ DOMAIN tasks' = DOMAIN tasks /\ tasks'[i].node = n /\ tasks'[i].st = fate[n]
        /\ \A k \in DOMAIN tasks : k # i => tasks'[k] = tasks[k]
        /\ \A k \in DOMAIN tasks : tasks'[k].node = tasks[k].node
    <3>1. tasks[i] \in Task /\ tasks \in Seq(Task)
      BY RowsTyped DEF Typed, StoreTyped
    <3>2. tasks'[i] = [tasks[i] EXCEPT !.st = fate[n]] /\ DOMAIN tasks' = DOMAIN tasks
          /\ \A k \in DOMAIN tasks : k # i => tasks'[k] = tasks[k]
      BY <2>2, <3>1
    <3>3. tasks'[i].st = fate[n] /\ tasks'[i].node = tasks[i].node
      BY <3>1, <3>2 DEF Task
    <3> QED  BY <2>1, <3>2, <3>3
  <2>4. \A k \in Nodes : Stage(k) /\ HandlerKnows(k)
    BY DEF Undisturbed, Stages, Stage, ResultKnows, HandlerKnows
  <2>5. /\ \A k \in Nodes : (Quiet(k)' <=> Quiet(k)) /\ (Over(k)' <=> Over(k)) /\ Stage(k)'
        /\ \A k \in Nodes : /\ msg'[k].rows = msg[k].rows /\ msg'[k].verdict = msg[k].verdict
                            /\ k # n => msg'[k] = msg[k]
        /\ msg'[n].step = "outcome"
    <3>1. ASSUME NEW k \in Nodes
          PROVE  /\ msg'[k].rows = msg[k].rows /\ msg'[k].verdict = msg[k].verdict
                 /\ msg'[k].reports = msg[k].reports /\ msg'[k].actions = msg[k].actions
                 /\ k # n => msg'[k] = msg[k]
                 /\ k = n => msg'[k].step = "outcome"
      BY <2>2 DEF Typed, WireTyped, Msgs, Msg
    <3>2. ASSUME NEW k \in Nodes \ {n} PROVE SameAt(k)
      BY <1>1, <3>1 DEF SameAt, memory, agents
    <3>3. Quiet(n)' <=> FALSE
      BY <3>1 DEF Quiet
    <3>4. Over(n)'
      BY <1>1, <1>2, <3>1 DEF Over, memory, agents
    <3>5. ASSUME NEW k \in Nodes
          PROVE  (Quiet(k)' <=> Quiet(k)) /\ (Over(k)' <=> Over(k)) /\ Stage(k)'
      <4>1. CASE k = n
        BY <1>2, <3>3, <3>4, <4>1 DEF Stage
      <4>2. CASE k # n
        BY <2>4, <3>2, <4>2, SameStage DEF Moves
      <4> QED  BY <4>1, <4>2
    <3> QED  BY <3>1, <3>5
  <2>6. ~AllOver /\ ~Terminal(state) /\ state # "PENDING" /\ pass.step \notin {"mark", "fabric"}
    BY <1>2, <2>1 DEF AllOver, Undisturbed, ResultKnows, PassKnows
  <2>7. NodesOf(tasks') = NodesOf(tasks)
    BY <2>3 DEF NodesOf
  <2>8. Stages' /\ Apart' /\ cancel' = NoCancel
    <3>1. Apart'
      BY <2>3 DEF Undisturbed, Apart
    <3> QED  BY <1>1, <2>5, <3>1 DEF Undisturbed, Stages, Stage, memory
  <2>9. PassKnows'
    <3>1. pass' = pass /\ state' = state /\ tasks' # <<>>
      BY <1>1, <2>1, <2>3 DEF memory
    <3>2. pass.step # "idle" => \A a \in DOMAIN pass.ranks : pass.ranks[a] \in Nodes
      BY RowsTyped DEF Typed, StoreTyped, Undisturbed, PassKnows
    <3> QED  BY <2>5, <2>6, <2>7, <3>1, <3>2 DEF Undisturbed, PassKnows
  <2>10. Recorded'
    <3>1. \A k \in DOMAIN tasks : tasks[k].node \in Nodes
      BY RowsTyped DEF Typed, StoreTyped
    <3> QED  BY <1>1, <1>2, <2>1, <2>3, <2>5, <2>7, <3>1 DEF Undisturbed, Recorded
  <2>11. ResultKnows'
    <3>1. ASSUME NEW k \in Nodes
          PROVE  /\ msg'[k].step # "mark"
                 /\ msg'[k].step \in {"task", "outcome", "mark"} => Unfinished(msg'[k].rows) \subseteq NodesOf(tasks')
      BY <1>1, <2>5, <2>6, <2>7 DEF Undisturbed, ResultKnows
    <3> QED  BY <1>1, <2>6, <3>1 DEF ResultKnows
  <2>12. state = "RUNNING" /\ tasks[i].st = "RUNNING"
    <3>1. tasks[i].st \in RankStates /\ "PENDING" \notin RankStates
      BY RowsTyped, GangAssumption DEF Typed, StoreTyped, RankStates
    <3> QED  BY <2>1, <2>6, <3>1 DEF Terminal
  <2> QED  BY <2>1, <2>2, <2>8, <2>9, <2>10, <2>11, <2>12 DEF Undisturbed
<1> QED  BY <1>3, <1>4

LEMMA FinishMoves ==
  \* The result recorded is that of ranks which have all ended.
  ASSUME Typed, Undisturbed, NEW n \in Nodes, FinishGang(n)
  PROVE  /\ Undisturbed'
         /\ UNCHANGED tasks /\ AllOver /\ state' = Worst(tasks)
         /\ state = "RUNNING" \/ state = Worst(tasks)
<1>1. /\ msg[n].step = "mark" /\ msg[n].reports # <<>> /\ pending' = Stopped(n) /\ Settles(n, TRUE)
      /\ UNCHANGED <<tasks, pass, cancel, agents, fate>> /\ state' = msg[n].verdict
  BY DEF FinishGang, At, history
<1>2. /\ AllOver /\ state' = Worst(tasks) /\ msg[n].verdict \in RankStates
      /\ Terminal(state) => state = Worst(tasks)
  BY <1>1 DEF Undisturbed, ResultKnows, Typed, WireTyped, Msgs
<1>3. Over(n) /\ ~Quiet(n)
  BY <1>1, Reporting
<1>4. state # "PENDING" /\ pass.step \notin {"mark", "fabric"} /\ state' # "PENDING"
  <2>1. "PENDING" \notin RankStates
    BY GangAssumption DEF RankStates
  <2> QED  BY <1>1, <1>2, <1>3, <2>1 DEF Undisturbed, PassKnows
<1>5. \A k \in Nodes : Moves(k) /\ HandlerKnows(k)'
  BY <1>1, StopsMove
<1>6. cancel' = NoCancel /\ Stages' /\ Apart'
  BY <1>1, <1>5 DEF Undisturbed, Stages, Apart, Moves, Stage
<1>7. PassKnows'
  <2>1. pass.step # "idle" => \A a \in DOMAIN pass.ranks : pass.ranks[a] \in Nodes
    BY RowsTyped DEF Typed, StoreTyped, Undisturbed, PassKnows
  <2> QED  BY <1>1, <1>4, <1>5, <2>1 DEF Undisturbed, PassKnows, NodesOf, Moves
<1>8. Recorded'
  <2>1. \A i \in DOMAIN tasks : tasks[i].node \in Nodes
    BY RowsTyped DEF Typed, StoreTyped
  <2> QED  BY <1>1, <1>5, <2>1 DEF Undisturbed, Recorded, NodesOf, Moves
<1>9. ResultKnows'
  BY <1>1, <1>2, <1>5 DEF ResultKnows, AllOver, HandlerKnows
<1>10. state = "RUNNING" \/ state = Worst(tasks)
  BY <1>2, <1>4 DEF Terminal
<1> QED  BY <1>1, <1>2, <1>6, <1>7, <1>8, <1>9, <1>10 DEF Undisturbed

LEMMA PassMoves ==
  \* The scheduling pass, undisturbed: rows first, then the record, then a launch each.
  ASSUME Typed, Undisturbed, PassStep
  PROVE  Undisturbed'
<1>1. UNCHANGED <<cancel, agents, msg, fate>>
  BY DEF PassStep, CreateTasks, MarkGang, MarkGangFails, PlanFabric, PlanFabricFails, LaunchRank,
         wire, history
<1>2. \A k \in Nodes : Stage(k) /\ HandlerKnows(k)
  BY DEF Undisturbed, Stages, Stage, ResultKnows, HandlerKnows
<1>3. ASSUME UNCHANGED pending
      PROVE  \A k \in Nodes : (Quiet(k)' <=> Quiet(k)) /\ (Over(k)' <=> Over(k)) /\ Stage(k)'
  <2>1. ASSUME NEW k \in Nodes PROVE SameAt(k)
    BY <1>1, <1>3 DEF SameAt, agents
  <2> QED  BY <1>2, <2>1, SameStage DEF Moves
<1>4. ASSUME \A k \in Nodes : Quiet(k) PROVE \A k \in Nodes : msg[k].step = "next"
  BY <1>4 DEF Quiet
<1>5. CASE CreateTasks
  <2>1. state = "PENDING" /\ state' = state /\ UNCHANGED pending /\ \A k \in Nodes : Quiet(k)
    BY <1>5 DEF CreateTasks, Undisturbed, PassKnows
  <2>2. PICK p \in Placements : /\ tasks' = [i \in DOMAIN p |-> [node |-> p[i], st |-> "RUNNING"]]
                                /\ pass' = [step |-> "mark", ranks |-> p]
    BY <1>5 DEF CreateTasks
  <2>3. PICK m \in 2..Cardinality(Nodes) : p \in [1..m -> Nodes]
    BY DEF Placements
  <2>4. m \in Nat /\ m >= 2 /\ 1 \in 1..m
    BY <2>3, GangAssumption, FS_CardinalityType
  <2>5. \A a, b \in DOMAIN p : p[a] = p[b] => a = b
    BY DEF Placements
  <2>6. /\ DOMAIN tasks' = DOMAIN p /\ tasks' # <<>>
        /\ \A i \in DOMAIN p : tasks'[i].node = p[i] /\ tasks'[i].st = "RUNNING" /\ p[i] \in Nodes
    BY <2>2, <2>3, <2>4
  <2>7. Stages' /\ Apart' /\ cancel' = NoCancel
    BY <1>1, <1>3, <2>1, <2>5, <2>6 DEF Undisturbed, Stages, Stage, Apart
  <2>8. PassKnows'
    <3>1. pass'.step = "mark" /\ pass'.ranks = p
      BY <2>2
    <3>2. \A a \in DOMAIN p : p[a] \in NodesOf(tasks')
      BY <2>6 DEF NodesOf
    <3> QED  BY <1>3, <2>1, <2>5, <2>6, <3>1, <3>2 DEF PassKnows
  <2>9. Recorded' /\ ResultKnows'
    BY <1>1, <1>3, <1>4, <2>1, <2>6 DEF Recorded, ResultKnows, Terminal
  <2> QED  BY <2>7, <2>8, <2>9 DEF Undisturbed
<1>6. CASE MarkGang \/ PlanFabric
  <2>1. /\ pass.step \in {"mark", "fabric"} /\ UNCHANGED <<tasks, pending>>
        /\ \A k \in Nodes : Quiet(k)
        /\ state' = "RUNNING"
    BY <1>6 DEF MarkGang, PlanFabric, Undisturbed, PassKnows, store
  <2>2. pass'.ranks = pass.ranks /\ pass'.step \in {"fabric", "launch"}
    BY <1>6 DEF MarkGang, PlanFabric, Typed, MemoryTyped, Passes
  <2>3. Stages' /\ Apart' /\ cancel' = NoCancel
    BY <1>1, <1>3, <2>1 DEF Undisturbed, Stages, Stage, Apart
  <2>4. PassKnows'
    <3>1. \A a \in DOMAIN pass.ranks : pass.ranks[a] \in Nodes
      BY <2>1, RowsTyped DEF Typed, StoreTyped, Undisturbed, PassKnows
    <3> QED  BY <1>3, <2>1, <2>2, <3>1 DEF Undisturbed, PassKnows
  <2>5. Recorded' /\ ResultKnows'
    <3>1. \A i \in DOMAIN tasks : tasks[i].node \in Nodes /\ tasks[i].st = "RUNNING"
      BY <2>1, RowsTyped DEF Typed, StoreTyped, Undisturbed, PassKnows
    <3> QED  BY <1>1, <1>3, <1>4, <2>1, <3>1 DEF Recorded, ResultKnows, Terminal
  <2> QED  BY <2>3, <2>4, <2>5 DEF Undisturbed
<1>7. CASE MarkGangFails \/ PlanFabricFails
  <2>1. /\ pass' = NoPass /\ tasks' = <<>> /\ UNCHANGED <<state, pending>>
        /\ state \in {"PENDING", "RUNNING"} /\ \A k \in Nodes : Quiet(k)
    BY <1>7 DEF MarkGangFails, PlanFabricFails, Undisturbed, PassKnows
  <2>2. Stages' /\ Apart' /\ cancel' = NoCancel
    BY <1>1, <1>3, <2>1 DEF Undisturbed, Stages, Stage, Apart
  <2>3. PassKnows'
    BY <1>3, <2>1 DEF PassKnows, NoPass
  <2>4. Recorded' /\ ResultKnows'
    BY <1>1, <1>3, <1>4, <2>1 DEF Recorded, ResultKnows, Terminal
  <2> QED  BY <2>2, <2>3, <2>4 DEF Undisturbed
<1>8. CASE LaunchRank
  <2>1. /\ pass.ranks \in Seq(Nodes) /\ pass.ranks # <<>> /\ pass.step = "launch" /\ UNCHANGED store
        /\ pending' = [pending EXCEPT ![Head(pass.ranks)] = Append(@, "launch")]
    BY <1>8 DEF LaunchRank, Typed, MemoryTyped, HasRanks, Passes
  <2>2. PICK r \in Nodes : 1 \in DOMAIN pass.ranks /\ r = pass.ranks[1] /\ r = Head(pass.ranks)
    BY <2>1, Queues
  <2>3. r \in NodesOf(tasks) /\ Quiet(r)
    BY <2>1, <2>2 DEF Undisturbed, PassKnows
  <2>4. pending'[r] = <<"launch">> /\ \A k \in Nodes \ {r} : pending'[k] = pending[k]
    BY <2>1, <2>2, <2>3, Nothings DEF Typed, MemoryTyped, Quiet
  <2>5. Called(r)' /\ ~Over(r) /\ Stage(r)'
    <3>1. Called(r)'
      BY <1>1, <2>3, <2>4 DEF Called, Quiet, agents
    <3>2. ~Over(r)
      BY <2>3, GangAssumption DEF Quiet, Over
    <3> QED  BY <3>1, <3>2 DEF Stage
  <2>6. ASSUME NEW k \in Nodes \ {r}
        PROVE  (Quiet(k)' <=> Quiet(k)) /\ (Over(k)' <=> Over(k)) /\ Stage(k)'
    <3>1. SameAt(k)
      BY <1>1, <2>4 DEF SameAt, agents
    <3> QED  BY <1>2, <3>1, SameStage DEF Moves
  <2>7. Stages' /\ Apart' /\ cancel' = NoCancel
    <3>1. \A k \in Nodes : Stage(k)'
      BY <2>5, <2>6
    <3>2. Stages'
      BY <3>1 DEF Stages, Stage
    <3> QED  BY <1>1, <2>1, <3>2 DEF Undisturbed, Apart, store
  <2>8. PassKnows'
    <3>1. CASE pass' = NoPass
      BY <2>1, <3>1 DEF Undisturbed, PassKnows, NoPass, store
    <3>2. CASE pass' # NoPass
      <4>1. pass'.step = "launch" /\ pass'.ranks = Tail(pass.ranks)
        BY <1>8, <3>2 DEF LaunchRank, Typed, MemoryTyped, Passes
      <4>2. \A i \in DOMAIN Tail(pass.ranks) :
              i + 1 \in DOMAIN pass.ranks /\ Tail(pass.ranks)[i] = pass.ranks[i + 1]
        BY <2>1, Queues
      <4>3. \A a, b \in DOMAIN pass.ranks : pass.ranks[a] = pass.ranks[b] => a = b
        BY <2>1 DEF Undisturbed, PassKnows
      <4>4. \A i \in DOMAIN Tail(pass.ranks) : i \in Nat /\ i > 0
        BY <2>1
      <4>5. \A a, b \in DOMAIN pass'.ranks : pass'.ranks[a] = pass'.ranks[b] => a = b
        BY <4>1, <4>2, <4>3, <4>4
      <4>6. ASSUME NEW a \in DOMAIN pass'.ranks
            PROVE  \E m \in Nodes : m = pass'.ranks[a] /\ m \in NodesOf(tasks) /\ Quiet(m)'
        <5>1. pass'.ranks[a] = pass.ranks[a + 1] /\ a + 1 \in DOMAIN pass.ranks /\ a + 1 # 1
          BY <4>1, <4>2, <4>4
        <5>2. pass.ranks[a + 1] # r
          BY <2>2, <4>3, <5>1
        <5>3. pass.ranks[a + 1] \in NodesOf(tasks) /\ Quiet(pass.ranks[a + 1])
          BY <2>1, <5>1 DEF Undisturbed, PassKnows
        <5>4. pass.ranks[a + 1] \in Nodes
          BY <2>1, <5>1
        <5> QED  BY <2>6, <5>1, <5>2, <5>3, <5>4
      <4>7. UNCHANGED <<state, tasks>> /\ tasks # <<>> /\ state # "PENDING"
        BY <2>1 DEF Undisturbed, PassKnows, store
      <4> QED  BY <4>1, <4>5, <4>6, <4>7 DEF PassKnows
    <3> QED  BY <3>1, <3>2
  <2>9. Recorded'
    <3>1. \A i \in DOMAIN tasks : tasks[i].node \in Nodes
      BY RowsTyped DEF Typed, StoreTyped
    <3>2. \A i \in DOMAIN tasks : Terminal(tasks[i].st) => tasks[i].node # r
      BY <2>5 DEF Undisturbed, Recorded
    <3> QED  BY <1>1, <2>1, <2>3, <2>6, <3>1, <3>2 DEF Undisturbed, Recorded, NodesOf, store
  <2>10. ResultKnows'
    BY <1>1, <2>1 DEF Undisturbed, ResultKnows, AllOver, store
  <2> QED  BY <2>7, <2>8, <2>9, <2>10 DEF Undisturbed
<1> QED  BY <1>5, <1>6, <1>7, <1>8 DEF PassStep

LEMMA Disturbing ==
  \* Interference is not forgotten.
  ASSUME [Next]_vars
  PROVE  UNCHANGED disturbed \/ disturbed' = TRUE
<1>1. ASSUME Next PROVE UNCHANGED disturbed \/ disturbed' = TRUE
  <2>1. CASE PassStep
    BY <2>1 DEF PassStep, CreateTasks, MarkGang, MarkGangFails, PlanFabric, PlanFabricFails, LaunchRank, history
  <2>2. CASE UserStep
    BY <2>2 DEF UserStep, CancelRead, CancelRows, CancelMark, Requeue, history
  <2>3. CASE HeartbeatStep
    BY <2>3 DEF HeartbeatStep, ReadReport, ClearRows, RequeueGang, RecordRank, ReadOutcome, FinishGang,
                FinishSingle, Reply, history
  <2>4. CASE AgentStep
    BY <2>4 DEF AgentStep, SendHeartbeat, ReceiveReply, RefuseLaunch, StartRank, LaunchFails, KillRank,
                RankEnds, history
  <2>5. CASE FaultStep
    BY <2>5 DEF FaultStep, ControllerRestart, FinishGangFails, ReportFails, RequestLost, ReplyLost,
                NodeExpires, AgentRestart, history
  <2> QED  BY <1>1, <2>1, <2>2, <2>3, <2>4, <2>5 DEF Next
<1>2. ASSUME UNCHANGED vars PROVE UNCHANGED disturbed
  BY <1>2 DEF vars, history
<1> QED  BY <1>1, <1>2

LEMMA NeverHere ==
  \* Undisturbed, nothing is cancelled and no report leads to another placement.
  ASSUME Typed, Undisturbed
  PROVE  /\ ~CancelRows /\ ~CancelMark
         /\ \A n \in Nodes : ~ClearRows(n) /\ ~RequeueGang(n) /\ ~FinishSingle(n)
<1>1. cancel.step = "idle"
  BY DEF Undisturbed, NoCancel
<1>2. ASSUME NEW n \in Nodes, msg[n].reports # <<>> PROVE msg[n].step \notin {"clear", "requeue", "single"}
  BY <1>2, Reporting
<1> QED  BY <1>1, <1>2 DEF CancelRows, CancelMark, ClearRows, RequeueGang, FinishSingle, At

LEMMA Kept ==
  \* Nobody interferes: the invariant is kept.
  ASSUME Typed, Undisturbed, Next, ~disturbed'
  PROVE  Undisturbed'
<1>1. CASE PassStep
  BY <1>1, PassMoves
<1>2. CASE UserStep
  BY <1>2, NeverHere DEF UserStep, CancelRead, Requeue
<1>3. CASE HeartbeatStep
  BY <1>3, NeverHere, HandlerMoves, RecordMoves, FinishMoves DEF HeartbeatStep
<1>4. CASE AgentStep
  <2>1. ASSUME NEW n \in Nodes PROVE ~RefuseLaunch(n)
    BY DEF RefuseLaunch
  <2> QED  BY <1>4, <2>1, AgentsMove DEF AgentStep
<1>5. CASE FaultStep
  BY <1>5, RestartMoves, HandlerMoves, FaultsMove DEF FaultStep
<1> QED  BY <1>1, <1>2, <1>3, <1>4, <1>5 DEF Next

LEMMA InvHolds == Spec => []GangInv
<1>1. Init => GangInv
  <2> SUFFICES ASSUME Init PROVE Undisturbed
    BY DEF GangInv
  <2>1. \A n \in Nodes : Quiet(n)
    BY DEF Init, Quiet, NoMsg
  <2>2. \A n \in Nodes : msg[n].step = "next"
    BY DEF Init, NoMsg
  <2>3. DOMAIN tasks = {} /\ state = "PENDING" /\ pass.step = "idle" /\ cancel = NoCancel
    BY DEF Init, NoPass
  <2> QED  BY <2>1, <2>2, <2>3 DEF Undisturbed, Stages, Apart, PassKnows, Recorded, ResultKnows, Terminal
<1>2. Typed /\ GangInv /\ [Next]_vars => GangInv'
  <2> SUFFICES ASSUME Typed, GangInv, [Next]_vars, ~disturbed' PROVE Undisturbed'
    BY DEF GangInv
  <2>1. Undisturbed
    BY Disturbing DEF GangInv
  <2>2. CASE Next
    BY <2>1, <2>2, Kept
  <2>3. CASE UNCHANGED vars
    <3>1. \A k \in Nodes : Moves(k) /\ HandlerKnows(k)'
      <4>1. ASSUME NEW k \in Nodes PROVE SameAt(k)
        BY <2>3 DEF SameAt, vars, memory, agents, wire, history
      <4>2. \A k \in Nodes : Stage(k) /\ HandlerKnows(k)
        BY <2>1 DEF Undisturbed, Stages, Stage, ResultKnows, HandlerKnows
      <4>3. UNCHANGED <<msg, tasks>>
        BY <2>3 DEF vars, wire, store
      <4> QED  BY <4>1, <4>2, <4>3, SameStage DEF HandlerKnows, AllOver
    <3> QED  BY <2>1, <2>3, <3>1, LocalIsEnough DEF vars, memory
  <2> QED  BY <2>2, <2>3
<1> QED  BY <1>1, <1>2, TypedHolds, PTL DEF Spec

\* A recorded result stands for what every machine saw: no process is left, each rank has
\* ended, and a COMPLETED gang has none that did not (GangOutcome waits for every row).
THEOREM EveryRankCountsHolds == Spec => []EveryRankCounts
<1>1. Typed /\ GangInv => EveryRankCounts
  <2> SUFFICES ASSUME Typed, Undisturbed, Terminal(state)
               PROVE  /\ run = {}
                      /\ \A n \in NodesOf(tasks) :
                           fate[n] # "none" /\ (state = "COMPLETED" => fate[n] = "COMPLETED")
    BY DEF GangInv, EveryRankCounts
  <2>1. AllOver /\ state = Worst(tasks) /\ "none" \notin Outcomes
    BY GangAssumption DEF Undisturbed, ResultKnows
  <2>2. \A i \in DOMAIN tasks : Over(tasks[i].node) /\ tasks[i].st = fate[tasks[i].node]
    BY <2>1 DEF AllOver, Undisturbed, Recorded
  <2>3. run = {}
    <3>1. \A n \in Nodes : Quiet(n) \/ Over(n)
      BY <2>2 DEF NodesOf, Undisturbed, Recorded
    <3> QED  BY <3>1 DEF Quiet, Over, Typed, AgentsTyped
  <2>4. state = "COMPLETED" => \A i \in DOMAIN tasks : tasks[i].st = "COMPLETED"
    BY <2>1, WorstTyped DEF Typed, StoreTyped
  <2> QED  BY <2>1, <2>2, <2>3, <2>4 DEF NodesOf, Over
<1> QED  BY <1>1, TypedHolds, InvHolds, PTL

-----------------------------------------------------------------------------
(* The detailed job implements JobOutcome *)

\* What the rows say of machine n.
RankIn(rows, n) ==
  IF n \in NodesOf(rows) THEN rows[CHOOSE i \in {i \in DOMAIN rows : rows[i].node = n} : TRUE].st ELSE "none"

Ranks == [n \in Nodes |-> RankOf(n)]

LEMMA RanksAreRows ==
  \* The rows of machines that differ say what each row says.
  ASSUME NEW rows, \A i, k \in DOMAIN rows : rows[i].node = rows[k].node => i = k
  PROVE  /\ \A i \in DOMAIN rows : RankIn(rows, rows[i].node) = rows[i].st
         /\ \A n : n \notin NodesOf(rows) => RankIn(rows, n) = "none"
<1>1. ASSUME NEW i \in DOMAIN rows PROVE RankIn(rows, rows[i].node) = rows[i].st
  <2>1. {k \in DOMAIN rows : rows[k].node = rows[i].node} = {i}
    OBVIOUS
  <2>2. (CHOOSE k \in {i} : TRUE) = i
    OBVIOUS
  <2>3. rows[i].node \in NodesOf(rows)
    BY DEF NodesOf
  <2> QED  BY <2>1, <2>2, <2>3 DEF RankIn
<1> QED  BY <1>1 DEF RankIn

LEMMA RanksNow ==
  \* RankOf by the rows, before and after a step.
  /\ Ranks = [n \in Nodes |-> RankIn(tasks, n)]
  /\ Ranks' = [n \in Nodes |-> RankIn(tasks', n)]
BY DEF Ranks, RankOf, RankIn, RowOf

LEMMA AssignedRanks ==
  \* The machines assigned are those with a row.
  ASSUME Typed, Undisturbed
  PROVE  /\ Outcome!Assigned = NodesOf(tasks)
         /\ \A i \in DOMAIN tasks : tasks[i].node \in Nodes /\ Ranks[tasks[i].node] = tasks[i].st
         /\ \A n \in Nodes \ NodesOf(tasks) : Ranks[n] = "none"
<1>1. \A i \in DOMAIN tasks : tasks[i].node \in Nodes /\ tasks[i].st \in RankStates
  BY RowsTyped DEF Typed, StoreTyped
<1>2. \A i \in DOMAIN tasks : Ranks[tasks[i].node] = tasks[i].st
  BY <1>1, RanksNow, RanksAreRows DEF Undisturbed, Apart
<1>3. \A n \in Nodes \ NodesOf(tasks) : Ranks[n] = "none"
  BY RanksNow, RanksAreRows DEF Undisturbed, Apart
<1>4. "none" \notin RankStates
  BY GangAssumption DEF RankStates
<1>5. Outcome!Assigned = {n \in Nodes : Ranks[n] # "none"}
  BY DEF Outcome!Assigned, Ranks
<1> QED  BY <1>1, <1>2, <1>3, <1>4, <1>5 DEF NodesOf

LEMMA SomeRow ==
  \* Rows name machines.
  ASSUME Typed, tasks # <<>>
  PROVE  NodesOf(tasks) # {}
<1>1. Len(tasks) \in Nat /\ Len(tasks) # 0 /\ DOMAIN tasks = 1..Len(tasks)
  BY RowsTyped DEF Typed, StoreTyped
<1>2. tasks[1].node \in NodesOf(tasks)
  BY <1>1 DEF NodesOf
<1> QED  BY <1>2

LEMMA WorstIsResult ==
  \* GangOutcome's result is one the promise allows.
  ASSUME Typed, Undisturbed
  PROVE  Worst(tasks) \in Outcome!Results
<1> DEFINE F == {Ranks[n] : n \in NodesOf(tasks)} \ {"COMPLETED"}
<1>1. Outcome!Failures = F
  BY AssignedRanks DEF Outcome!Failures, Ranks, NodesOf
<1>2. F = {tasks[i].st : i \in DOMAIN tasks} \ {"COMPLETED"}
  BY AssignedRanks DEF NodesOf
<1>3. /\ F = {} => Worst(tasks) = "COMPLETED"
      /\ F # {} => Worst(tasks) \in F
      /\ F \cap Severe # {} => Worst(tasks) \in F \cap Severe
  <2>1. \/ /\ \A i \in DOMAIN tasks : tasks[i].st = "COMPLETED"
           /\ Worst(tasks) = "COMPLETED"
        \/ \E i \in DOMAIN tasks :
             /\ Worst(tasks) = tasks[i].st /\ tasks[i].st # "COMPLETED"
             /\ (\E k \in DOMAIN tasks : tasks[k].st \in Severe) => tasks[i].st \in Severe
    BY WorstTyped DEF Typed, StoreTyped
  <2>2. CASE \A i \in DOMAIN tasks : tasks[i].st = "COMPLETED"
    BY <1>2, <2>1, <2>2
  <2>3. CASE ~(\A i \in DOMAIN tasks : tasks[i].st = "COMPLETED")
    <3>1. PICK i \in DOMAIN tasks :
            /\ Worst(tasks) = tasks[i].st /\ tasks[i].st # "COMPLETED"
            /\ (\E k \in DOMAIN tasks : tasks[k].st \in Severe) => tasks[i].st \in Severe
      BY <2>1, <2>3
    <3>2. Worst(tasks) \in F
      BY <1>2, <3>1
    <3>3. F \cap Severe # {} => \E k \in DOMAIN tasks : tasks[k].st \in Severe
      BY <1>2
    <3> QED  BY <3>1, <3>2, <3>3
  <2> QED  BY <2>2, <2>3
<1> HIDE DEF F
<1> QED  BY <1>1, <1>3 DEF Outcome!Results

LEMMA PassMaps ==
  \* The pass assigns, starts or withdraws the job as a whole.
  ASSUME Typed, Undisturbed, Undisturbed', UNCHANGED disturbed, PassStep
  PROVE  Outcome!Next \/ UNCHANGED Outcome!vars
<1>1. CASE CreateTasks
  <2>1. PICK p \in Placements : tasks' = [i \in DOMAIN p |-> [node |-> p[i], st |-> "RUNNING"]]
    BY <1>1 DEF CreateTasks
  <2>2. PICK m \in 2..Cardinality(Nodes) : p \in [1..m -> Nodes]
    BY DEF Placements
  <2>3. m \in Nat /\ m >= 2 /\ 1 \in 1..m
    BY <2>2, GangAssumption, FS_CardinalityType
  <2>4. DOMAIN tasks' = 1..m /\ \A i \in 1..m : tasks'[i].node \in Nodes /\ tasks'[i].st = "RUNNING"
    BY <2>1, <2>2
  <2>5. NodesOf(tasks') \in (SUBSET Nodes) \ {{}}
    <3>1. NodesOf(tasks') \subseteq Nodes
      BY <2>4 DEF NodesOf
    <3>2. tasks'[1].node \in NodesOf(tasks')
      BY <2>3, <2>4 DEF NodesOf
    <3>3. NodesOf(tasks') # {}
      BY <3>2
    <3> QED  BY <3>1, <3>3
  <2>6. Ranks' = [n \in Nodes |-> IF n \in NodesOf(tasks') THEN "RUNNING" ELSE "none"]
    <3>1. \A i \in DOMAIN tasks' : RankIn(tasks', tasks'[i].node) = "RUNNING"
      BY <2>4, RanksAreRows DEF Undisturbed, Apart
    <3>2. ASSUME NEW n \in Nodes
          PROVE  RankIn(tasks', n) = IF n \in NodesOf(tasks') THEN "RUNNING" ELSE "none"
      BY <3>1, RanksAreRows DEF Undisturbed, Apart, NodesOf
    <3> QED  BY <3>2, RanksNow
  <2>7. state = "PENDING" /\ state' = state /\ Outcome!Assigned = {}
    BY <1>1, AssignedRanks DEF CreateTasks, NodesOf
  <2>8. Outcome!Assign
    BY <2>5, <2>6, <2>7 DEF Outcome!Assign, Ranks
  <2> QED  BY <2>8 DEF Outcome!Next
<1>2. CASE MarkGang
  <2>1. state = "PENDING" /\ state' = "RUNNING" /\ Ranks' = Ranks /\ tasks # <<>>
    BY <1>2, RanksNow DEF MarkGang, Undisturbed, PassKnows
  <2>2. Outcome!Assigned # {}
    BY <2>1, SomeRow, AssignedRanks
  <2> QED  BY <2>1, <2>2 DEF Outcome!Next, Outcome!Start, Ranks
<1>3. CASE MarkGangFails \/ PlanFabricFails
  <2>1. state \in {"PENDING", "RUNNING"} /\ tasks' = <<>> /\ UNCHANGED state
        /\ \A i \in DOMAIN tasks : tasks[i].st = "RUNNING"
    BY <1>3 DEF MarkGangFails, PlanFabricFails, Undisturbed, PassKnows
  <2>2. \A n \in Outcome!Assigned : Ranks[n] = "RUNNING"
    BY <2>1, AssignedRanks DEF NodesOf
  <2>3. Ranks' = [n \in Nodes |-> "none"]
    BY <2>1, RanksNow DEF RankIn, NodesOf
  <2> QED  BY <2>1, <2>2, <2>3 DEF Outcome!Next, Outcome!Withdraw, Ranks
<1>4. CASE PlanFabric \/ LaunchRank
  <2>1. UNCHANGED store
    BY <1>4 DEF PlanFabric, LaunchRank
  <2>2. Ranks' = Ranks
    BY <2>1, RanksNow DEF store
  <2> QED  BY <2>1, <2>2 DEF Outcome!vars, store, Ranks
<1> QED  BY <1>1, <1>2, <1>3, <1>4 DEF PassStep

LEMMA RecordMaps ==
  \* FinishTask ends one rank.
  ASSUME Typed, Undisturbed, Undisturbed', UNCHANGED disturbed, NEW n \in Nodes, RecordRank(n)
  PROVE  Outcome!Next \/ UNCHANGED Outcome!vars
<1>1. UNCHANGED state
  BY DEF RecordRank
<1>2. CASE tasks' = tasks
  <2>1. Ranks' = Ranks
    BY <1>2, RanksNow
  <2> QED  BY <1>1, <2>1 DEF Outcome!vars, Ranks
<1>3. CASE tasks' # tasks
  <2>1. PICK i \in DOMAIN tasks :
          /\ tasks[i].node = n /\ tasks[i].st = "RUNNING" /\ state = "RUNNING"
          /\ tasks' = [tasks EXCEPT ![i].st = fate[n]]
    BY <1>3, RecordMoves
  <2>2. fate[n] \in Outcomes
    BY Reporting DEF RecordRank, At, Over
  <2>3. /\ DOMAIN tasks' = DOMAIN tasks /\ tasks'[i].st = fate[n]
        /\ \A k \in DOMAIN tasks : tasks'[k].node = tasks[k].node /\ (k # i => tasks'[k] = tasks[k])
    <3>1. tasks[i] \in Task /\ tasks \in Seq(Task)
      BY RowsTyped DEF Typed, StoreTyped
    <3>2. tasks'[i] = [tasks[i] EXCEPT !.st = fate[n]] /\ DOMAIN tasks' = DOMAIN tasks
          /\ \A k \in DOMAIN tasks : k # i => tasks'[k] = tasks[k]
      BY <2>1, <3>1
    <3>3. tasks'[i].st = fate[n] /\ tasks'[i].node = tasks[i].node
      BY <3>1, <3>2 DEF Task
    <3> QED  BY <2>1, <3>2, <3>3
  <2>4. Ranks[n] = "RUNNING"
    BY <2>1, AssignedRanks
  <2>5. Ranks' = [Ranks EXCEPT ![n] = fate[n]]
    <3>1. ASSUME NEW k \in Nodes PROVE RankIn(tasks', k) = IF k = n THEN fate[n] ELSE RankIn(tasks, k)
      <4>1. CASE k \notin NodesOf(tasks)
        <5>1. k \notin NodesOf(tasks')
          BY <2>3, <4>1 DEF NodesOf
        <5> QED  BY <2>1, <4>1, <5>1 DEF RankIn, NodesOf
      <4>2. CASE k \in NodesOf(tasks)
        <5>1. PICK a \in DOMAIN tasks : tasks[a].node = k
          BY <4>2 DEF NodesOf
        <5>2. RankIn(tasks, k) = tasks[a].st /\ RankIn(tasks', k) = tasks'[a].st
          <6>1. RankIn(tasks, tasks[a].node) = tasks[a].st
            BY RanksAreRows DEF Undisturbed, Apart
          <6>2. RankIn(tasks', tasks'[a].node) = tasks'[a].st
            BY <2>3, RanksAreRows DEF Undisturbed, Apart
          <6> QED  BY <2>3, <5>1, <6>1, <6>2
        <5>3. k = n <=> a = i
          BY <2>1, <5>1 DEF Undisturbed, Apart
        <5> QED  BY <2>3, <5>2, <5>3
      <4> QED  BY <4>1, <4>2
    <3>2. Ranks \in [Nodes -> {Ranks[k] : k \in Nodes}] /\ \A k \in Nodes : Ranks[k] = RankIn(tasks, k)
      BY RanksNow
    <3> QED  BY <3>1, <3>2, RanksNow
  <2>6. Outcome!RankEnds(n)
    BY <1>1, <2>1, <2>2, <2>4, <2>5 DEF Outcome!RankEnds, Ranks
  <2> QED  BY <2>6 DEF Outcome!Next
<1> QED  BY <1>2, <1>3

LEMMA FinishMaps ==
  \* MarkFinished ends the job, once.
  ASSUME Typed, Undisturbed, UNCHANGED disturbed, NEW n \in Nodes, FinishGang(n)
  PROVE  Outcome!Next \/ UNCHANGED Outcome!vars
<1>1. UNCHANGED tasks /\ AllOver /\ state' = Worst(tasks) /\ (state = "RUNNING" \/ state = Worst(tasks))
  BY FinishMoves
<1>2. Ranks' = Ranks
  BY <1>1, RanksNow
<1>3. CASE state = Worst(tasks)
  BY <1>1, <1>2, <1>3 DEF Outcome!vars, Ranks
<1>4. CASE state = "RUNNING"
  <2>1. Outcome!Assigned # {} /\ \A m \in Outcome!Assigned : Ranks[m] # "RUNNING"
    <3>1. Outcome!Assigned = NodesOf(tasks) /\ NodesOf(tasks) # {}
      BY <1>1, SomeRow, AssignedRanks DEF AllOver
    <3>2. \A i \in DOMAIN tasks : Ranks[tasks[i].node] # "RUNNING"
      BY <1>1, AssignedRanks DEF AllOver, Terminal
    <3> QED  BY <3>1, <3>2 DEF NodesOf
  <2>2. state' \in Outcome!Results
    BY <1>1, WorstIsResult
  <2> QED  BY <1>2, <1>4, <2>1, <2>2 DEF Outcome!Next, Outcome!End, Ranks
<1> QED  BY <1>1, <1>3, <1>4

LEMMA StepMaps ==
  \* Every step is one that JobOutcome allows, or none that it can see.
  ASSUME Typed, GangInv, GangInv', [Next]_vars
  PROVE  Outcome!Next \/ UNCHANGED Outcome!vars
<1>1. CASE disturbed' = TRUE
  BY <1>1 DEF Outcome!Next, Outcome!Disturb
<1>2. ASSUME UNCHANGED <<store, disturbed>> PROVE UNCHANGED Outcome!vars
  <2>1. Ranks' = Ranks
    BY <1>2, RanksNow DEF store
  <2> QED  BY <1>2, <2>1 DEF Outcome!vars, store, Ranks
<1>3. CASE ~(disturbed' = TRUE)
  <2>1. UNCHANGED disturbed /\ ~disturbed /\ ~disturbed'
    BY <1>3, Disturbing DEF Typed, RestTyped
  <2>2. Undisturbed /\ Undisturbed'
    BY <2>1 DEF GangInv
  <2>3. CASE PassStep
    BY <2>1, <2>2, <2>3, PassMaps
  <2>4. CASE UserStep
    BY <2>2, <2>1, <2>4, NeverHere DEF UserStep, CancelRead, Requeue
  <2>5. CASE HeartbeatStep
    <3>1. PICK n \in Nodes :
            \/ ReadReport(n) \/ ClearRows(n) \/ RequeueGang(n) \/ RecordRank(n) \/ ReadOutcome(n)
            \/ FinishGang(n) \/ FinishSingle(n) \/ Reply(n)
      BY <2>5 DEF HeartbeatStep
    <3>2. CASE RecordRank(n)
      BY <2>1, <2>2, <3>2, RecordMaps
    <3>3. CASE FinishGang(n)
      BY <2>1, <2>2, <3>3, FinishMaps
    <3>4. CASE ReadReport(n) \/ ReadOutcome(n) \/ Reply(n)
      <4>1. UNCHANGED store
        BY <3>4 DEF ReadReport, ReadOutcome, Reply
      <4> QED  BY <1>2, <2>1, <4>1
    <3> QED  BY <2>2, <3>1, <3>2, <3>3, <3>4, NeverHere
  <2>6. CASE AgentStep
    <3>1. UNCHANGED store
      BY <2>6 DEF AgentStep, SendHeartbeat, ReceiveReply, RefuseLaunch, StartRank, LaunchFails, KillRank, RankEnds
    <3> QED  BY <1>2, <2>1, <3>1
  <2>7. CASE FaultStep
    <3>1. UNCHANGED store
      BY <2>7 DEF FaultStep, ControllerRestart, FinishGangFails, ReportFails, RequestLost, ReplyLost,
                  NodeExpires, AgentRestart
    <3> QED  BY <1>2, <2>1, <3>1
  <2>8. CASE UNCHANGED vars
    BY <1>2, <2>8 DEF vars, history
  <2> QED  BY <2>3, <2>4, <2>5, <2>6, <2>7, <2>8 DEF Next
<1> QED  BY <1>1, <1>3

\* The job its user sees is the one that was promised: assigned as a whole, over once and
\* only after all of its ranks, and as the worst of them was (store/tasks.go GangOutcome,
\* FinishTask), whatever order reports come in and whatever is lost or restarted.
THEOREM KeepsPromiseHolds == Spec => KeepsPromise
<1>1. Init => Outcome!Init
  <2> SUFFICES ASSUME Init PROVE Outcome!Init
    OBVIOUS
  <2>1. Ranks = [n \in Nodes |-> "none"]
    BY RanksNow DEF Init, RankIn, NodesOf
  <2> QED  BY <2>1 DEF Init, Outcome!Init, Ranks
<1>2. Typed /\ GangInv /\ GangInv' /\ [Next]_vars => [Outcome!Next]_(Outcome!vars)
  BY StepMaps
<1> QED  BY <1>1, <1>2, TypedHolds, InvHolds, PTL DEF Spec, KeepsPromise, Outcome!Spec

-----------------------------------------------------------------------------
(* Numbers, sums and the best of some *)

LEMMA Least ==
  \* Numbers that meet a condition have a smallest one.
  ASSUME NEW S \in SUBSET Nat, S # {}
  PROVE  \E i \in S : \A k \in 0..(i - 1) : k \notin S
<1>1. PICK i \in S : \A k \in S : i <= k
  BY FirstOf
<1>2. \A k \in S : ~(k <= i - 1)
  BY <1>1
<1> QED  BY <1>2

LEMMA Best ==
  \* Of some numbers in a row, one is the greatest, and the first that is.
  ASSUME NEW n \in Nat \ {0}, NEW f \in [1..n -> Int]
  PROVE  \E i \in 1..n : \A k \in 1..n \ {i} : f[i] > f[k] \/ (f[i] = f[k] /\ i < k)
<1> DEFINE Of(m, i) == \A k \in 1..m \ {i} : f[i] > f[k] \/ (f[i] = f[k] /\ i < k)
           Bad == {m \in 1..n : \A i \in 1..m : ~Of(m, i)}
<1>1. SUFFICES ASSUME Bad # {} PROVE FALSE
  <2>1. n \in 1..n
    OBVIOUS
  <2> QED  BY <1>1, <2>1
<1>2. Bad \in SUBSET Nat
  OBVIOUS
<1>3. PICK m \in Bad : \A k \in 0..(m - 1) : k \notin Bad
  BY <1>1, <1>2, Least
<1>4. m \in 1..n /\ m \in Int
  OBVIOUS
<1>5. CASE m = 1
  <2>1. Of(1, 1)
    OBVIOUS
  <2> QED  BY <1>5, <2>1
<1>6. CASE m # 1
  <2>1. m - 1 \in 1..n /\ m - 1 \in 0..(m - 1)
    BY <1>4, <1>6
  <2>2. m - 1 \notin Bad
    BY <1>3, <2>1
  <2>3. PICK i \in 1..(m - 1) : Of(m - 1, i)
    BY <2>1, <2>2
  <2>4. f[i] \in Int /\ f[m] \in Int /\ i \in 1..m /\ i < m
    BY <1>4, <2>1
  <2>5. 1..m = 1..(m - 1) \cup {m}
    BY <1>4
  <2>6. CASE f[i] >= f[m]
    <3>1. Of(m, i)
      BY <2>3, <2>4, <2>5, <2>6
    <3> QED  BY <1>3, <2>4, <3>1
  <2>7. CASE f[i] < f[m]
    <3>1. ASSUME NEW k \in 1..(m - 1) PROVE f[m] > f[k]
      <4>1. f[k] \in Int
        BY <1>4
      <4> QED  BY <2>3, <2>4, <2>7, <4>1, SMTT(60)
    <3>2. Of(m, m)
      BY <2>5, <3>1
    <3> QED  BY <1>3, <1>4, <3>2
  <2> QED  BY <2>4, <2>6, <2>7
<1> QED  BY <1>5, <1>6

LEMMA Quotient ==
  \* A quotient of natural numbers.
  ASSUME NEW x \in Nat, NEW y \in Nat \ {0}
  PROVE  x \div y \in Nat
OBVIOUS

LEMMA HalfToTyped ==
  \* The curve is one between 1 and 0 (HalfTo, by its recursion).
  HalfTo \in [Nat -> 0..1000]
<1> DEFINE P == 0..1000
           By100(x) == (1000 * (200 - x)) \div 200
           Step(f, x) == IF x < 100 THEN By100(x) ELSE f[x - 100] \div 2
           To(f, n) == f \in [Nat -> P] /\ \A x \in 0..n : f[x] = Step(f, x)
           Bad == {n \in Nat : \A f \in [Nat -> P] : ~To(f, n)}
<1>1. \A x \in Nat : x < 100 => By100(x) \in P
  OBVIOUS
<1>2. \A v \in P : v \div 2 \in P
  OBVIOUS
<1> HIDE DEF By100
<1>3. ASSUME NEW f \in [Nat -> P], NEW x \in Nat PROVE Step(f, x) \in P
  <2>1. x >= 100 => x - 100 \in Nat
    OBVIOUS
  <2>2. x >= 100 => f[x - 100] \in P
    BY <2>1, SMTT(60)
  <2>3. x >= 100 => f[x - 100] \div 2 \in P
    BY <1>2, <2>2, SMTT(60)
  <2> QED  BY <1>1, <2>3, SMTT(60)
<1> HIDE DEF P
<1>4. Bad = {}
  <2>1. SUFFICES ASSUME Bad # {} PROVE FALSE
    BY <2>1
  <2>2. PICK n \in Bad : \A k \in 0..(n - 1) : k \notin Bad
    <3>1. Bad \in SUBSET Nat
      OBVIOUS
    <3> QED  BY <2>1, <3>1, Least
  <2>3. n \in Nat
    OBVIOUS
  <2>4. \E f \in [Nat -> P] : n # 0 => To(f, n - 1)
    <3>1. CASE n = 0
      <4>1. [x \in Nat |-> 0] \in [Nat -> P]
        BY DEF P
      <4> QED  BY <3>1, <4>1
    <3>2. CASE n # 0
      <4>1. n - 1 \in Nat /\ n - 1 \in 0..(n - 1)
        BY <2>3, <3>2
      <4> QED  BY <2>2, <4>1
    <3> QED  BY <3>1, <3>2
  <2>5. PICK f \in [Nat -> P] : n # 0 => To(f, n - 1)
    BY <2>4
  <2> DEFINE g == [x \in Nat |-> Step(f, x)]
  <2>6. g \in [Nat -> P]
    BY <1>3
  <2>7. ASSUME NEW x \in 0..n PROVE g[x] = Step(g, x)
    <3>1. x \in Nat /\ g[x] = Step(f, x)
      OBVIOUS
    <3>2. CASE x < 100
      BY <3>1, <3>2
    <3>3. CASE x >= 100
      <4>1. x - 100 \in Nat /\ x - 100 \in 0..(n - 1) /\ n # 0
        BY <2>3, <3>3
      <4>2. f[x - 100] = Step(f, x - 100) /\ g[x - 100] = Step(f, x - 100)
        BY <2>5, <4>1
      <4> QED  BY <3>1, <3>3, <4>2
    <3> QED  BY <3>1, <3>2, <3>3
  <2> QED  BY <2>2, <2>6, <2>7
<1>5. ASSUME NEW f \in [Nat -> P], NEW g \in [Nat -> P], NEW m \in Nat, NEW n \in Nat,
             To(f, m), To(g, n), NEW x \in 0..m, x \in 0..n
      PROVE  f[x] = g[x]
  <2> DEFINE Differ == {y \in 0..x : f[y] # g[y]}
  <2>1. SUFFICES ASSUME Differ # {} PROVE FALSE
    BY <1>5, <2>1
  <2>2. PICK y \in Differ : \A k \in 0..(y - 1) : k \notin Differ
    <3>1. Differ \in SUBSET Nat
      OBVIOUS
    <3> QED  BY <2>1, <3>1, Least
  <2>3. y \in 0..m /\ y \in 0..n /\ y \in Nat
    BY <1>5
  <2>4. f[y] = Step(f, y) /\ g[y] = Step(g, y)
    BY <1>5, <2>3
  <2>5. y >= 100 => y - 100 \in 0..(y - 1) /\ y - 100 \in 0..x
    BY <2>3
  <2>6. y >= 100 => f[y - 100] = g[y - 100]
    BY <2>2, <2>5
  <2> QED  BY <2>2, <2>3, <2>4, <2>6
<1> DEFINE to == [n \in Nat |-> CHOOSE f \in [Nat -> P] : To(f, n)]
           h == [x \in Nat |-> to[x][x]]
<1>6. ASSUME NEW n \in Nat PROVE to[n] \in [Nat -> P] /\ To(to[n], n)
  <2>1. \E f \in [Nat -> P] : To(f, n)
    BY <1>4, ZenonT(60)
  <2>2. to[n] = CHOOSE f \in [Nat -> P] : To(f, n)
    OBVIOUS
  <2> HIDE DEF To, to
  <2> QED  BY <2>1, <2>2
<1> HIDE DEF to
<1>7. h \in [Nat -> P]
  BY <1>6
<1>8. ASSUME NEW x \in Nat PROVE h[x] = Step(h, x)
  <2>1. h[x] = Step(to[x], x)
    <3>1. x \in 0..x
      OBVIOUS
    <3>2. To(to[x], x)
      BY <1>6
    <3>3. h[x] = to[x][x]
      OBVIOUS
    <3> QED  BY <3>1, <3>2, <3>3
  <2>2. CASE x < 100
    BY <2>1, <2>2
  <2>3. CASE x >= 100
    <3>1. x - 100 \in Nat /\ x - 100 \in 0..x /\ x - 100 \in 0..(x - 100)
      BY <2>3
    <3>2. To(to[x], x) /\ To(to[x - 100], x - 100) /\ to[x] \in [Nat -> P] /\ to[x - 100] \in [Nat -> P]
      BY <1>6, <3>1
    <3> HIDE DEF To
    <3>3. to[x][x - 100] = to[x - 100][x - 100]
      BY <1>5, <3>1, <3>2
    <3>4. h[x - 100] = to[x - 100][x - 100]
      BY <3>1
    <3> QED  BY <2>1, <2>3, <3>1, <3>3, <3>4
  <2> QED  BY <2>2, <2>3
<1>9. h = [x \in Nat |-> Step(h, x)]
  BY <1>8
<1> HIDE DEF h
<1> DEFINE Rec(f) == f = [x \in Nat |-> IF x < 100 THEN (1000 * (200 - x)) \div 200 ELSE f[x - 100] \div 2]
<1>10. Rec(h)
  BY <1>9 DEF By100
<1>11. HalfTo = CHOOSE f : Rec(f)
  BY DEF HalfTo
<1>12. Rec(HalfTo)
  BY <1>10, <1>11
<1> QED
  <2> DEFINE Off == {x \in Nat : HalfTo[x] \notin P}
  <2>1. \A x \in Nat : HalfTo[x] = Step(HalfTo, x)
    BY <1>12 DEF By100
  <2>2. HalfTo = [x \in Nat |-> HalfTo[x]]
    BY <1>12
  <2>3. Off = {}
    <3>1. SUFFICES ASSUME Off # {} PROVE FALSE
      BY <3>1
    <3>2. PICK x \in Off : \A k \in 0..(x - 1) : k \notin Off
      <4>1. Off \in SUBSET Nat
        OBVIOUS
      <4> QED  BY <3>1, <4>1, Least
    <3>3. x >= 100 => x - 100 \in 0..(x - 1) /\ x - 100 \in Nat
      OBVIOUS
    <3>4. x >= 100 => HalfTo[x - 100] \in P
      BY <3>2, <3>3
    <3>5. x \in Nat
      OBVIOUS
    <3>6. x >= 100 => HalfTo[x - 100] \div 2 \in P
      BY <1>2, <3>4
    <3>7. Step(HalfTo, x) \in P
      BY <1>1, <3>5, <3>6
    <3> QED  BY <2>1, <3>2, <3>7
  <2> QED  BY <2>2, <2>3, ZenonT(60) DEF P

-----------------------------------------------------------------------------
(* Standings *)

LEMMA TotalTyped ==
  \* A sum of natural numbers is one, and no less than any of them.
  ASSUME NEW f \in [People -> Nat]
  PROVE  Total(f) \in Nat /\ \A p \in People : f[p] <= Total(f)
<1> DEFINE x(s) == CHOOSE p \in s : TRUE
           Step(g, s) == IF s = {} THEN 0 ELSE f[x(s)] + g[s \ {x(s)}]
           Rec(g) == g = [s \in SUBSET People |-> Step(g, s)]
           N == Cardinality(People)
           Fine(g, s) == g[s] = Step(g, s)
           Small(n) == {s \in SUBSET People : Cardinality(s) <= n}
           Bad == {n \in Nat : \A g \in [SUBSET People -> Nat] : ~(\A s \in Small(n) : Fine(g, s))}
<1>1. IsFiniteSet(People)
  BY ShareAssumption
<1>2. N \in Nat /\ \A s \in SUBSET People : Cardinality(s) \in Nat /\ Cardinality(s) <= N
  BY <1>1, FS_CardinalityType, FS_Subset
<1>3. ASSUME NEW s \in SUBSET People, s # {}
      PROVE  /\ x(s) \in s /\ x(s) \in People /\ f[x(s)] \in Nat
             /\ s \ {x(s)} \in SUBSET People /\ Cardinality(s \ {x(s)}) = Cardinality(s) - 1
  <2>1. x(s) \in s
    BY <1>3
  <2>2. IsFiniteSet(s)
    BY <1>1, FS_Subset
  <2> HIDE DEF x
  <2>3. Cardinality(s \ {x(s)}) = Cardinality(s) - 1
    BY <2>1, <2>2, FS_RemoveElement
  <2> QED  BY <2>1, <2>3
<1> HIDE DEF x
<1>4. ASSUME NEW g \in [SUBSET People -> Nat], NEW s \in SUBSET People PROVE Step(g, s) \in Nat
  BY <1>3
<1>5. \A n \in Nat : n \notin Bad
  <2>1. SUFFICES ASSUME Bad # {} PROVE FALSE
    BY <2>1
  <2>2. PICK n \in Bad : \A k \in 0..(n - 1) : k \notin Bad
    <3>1. Bad \in SUBSET Nat
      OBVIOUS
    <3> QED  BY <2>1, <3>1, Least
  <2>3. n \in Nat
    OBVIOUS
  <2>4. \E g \in [SUBSET People -> Nat] : n # 0 => \A s \in Small(n - 1) : Fine(g, s)
    <3>1. CASE n = 0
      <4>1. [s \in SUBSET People |-> 0] \in [SUBSET People -> Nat]
        OBVIOUS
      <4> QED  BY <3>1, <4>1
    <3>2. CASE n # 0
      <4>1. n - 1 \in Nat /\ n - 1 \in 0..(n - 1)
        BY <2>3, <3>2
      <4>2. n - 1 \notin Bad
        BY <2>2, <4>1
      <4> QED  BY <4>1, <4>2
    <3> QED  BY <3>1, <3>2
  <2>5. PICK g \in [SUBSET People -> Nat] : n # 0 => \A s \in Small(n - 1) : Fine(g, s)
    BY <2>4
  <2> DEFINE h == [s \in SUBSET People |-> Step(g, s)]
  <2>6. h \in [SUBSET People -> Nat]
    BY <1>4
  <2>7. ASSUME NEW s \in Small(n) PROVE Fine(h, s)
    <3>1. s \in SUBSET People /\ h[s] = Step(g, s) /\ Cardinality(s) <= n /\ Cardinality(s) \in Nat
      BY <1>2
    <3>2. CASE s = {}
      BY <3>1, <3>2
    <3>3. CASE s # {}
      <4> DEFINE r == s \ {x(s)}
      <4>1. r \in SUBSET People /\ Cardinality(r) = Cardinality(s) - 1 /\ Cardinality(r) \in Nat
        BY <1>2, <1>3, <3>1, <3>3
      <4>2. n # 0 /\ Cardinality(r) <= n - 1
        BY <2>3, <3>1, <4>1
      <4> HIDE DEF r
      <4>3. g[r] = Step(g, r) /\ h[r] = Step(g, r)
        BY <2>5, <4>1, <4>2
      <4>4. h[s] = f[x(s)] + g[r]
        BY <3>1, <3>3 DEF r
      <4>5. Step(h, s) = f[x(s)] + h[r]
        BY <3>3 DEF r
      <4> QED  BY <4>3, <4>4, <4>5
    <3> QED  BY <3>2, <3>3
  <2> QED  BY <2>2, <2>6, <2>7
<1>6. \E g : Rec(g)
  <2>1. PICK g \in [SUBSET People -> Nat] : \A s \in Small(N) : Fine(g, s)
    BY <1>2, <1>5
  <2>2. \A s \in SUBSET People : g[s] = Step(g, s)
    BY <1>2, <2>1
  <2>3. Rec(g)
    BY <2>2
  <2> QED  BY <2>3
<1> DEFINE it == CHOOSE g : Rec(g)
<1>7. Rec(it)
  BY <1>6
<1>8. Total(f) = it[People]
  BY Zenon DEF Total, MapThenSumSet, MapThenFoldSet, x
<1> HIDE DEF it
<1>9. ASSUME NEW s \in SUBSET People PROVE it[s] \in Nat /\ \A p \in s : f[p] <= it[s]
  <2> DEFINE Sound(r) == it[r] \in Nat /\ \A p \in r : f[p] <= it[r]
             Off == {n \in Nat : \E r \in SUBSET People : Cardinality(r) = n /\ ~Sound(r)}
  <2>1. SUFFICES ASSUME Off # {} PROVE FALSE
    <3>1. Cardinality(s) \notin Off
      BY <2>1
    <3> QED  BY <1>2, <3>1
  <2>2. PICK n \in Off : \A k \in 0..(n - 1) : k \notin Off
    <3>1. Off \in SUBSET Nat
      OBVIOUS
    <3> QED  BY <2>1, <3>1, Least
  <2>3. PICK r \in SUBSET People : Cardinality(r) = n /\ ~Sound(r)
    BY <2>2
  <2>4. it[r] = Step(it, r)
    BY <1>7
  <2>5. r # {}
    BY <2>3, <2>4
  <2> DEFINE q == r \ {x(r)}
  <2>6. /\ x(r) \in r /\ f[x(r)] \in Nat /\ q \in SUBSET People /\ Cardinality(q) = n - 1
    BY <1>3, <2>3, <2>5
  <2>7. n \in Nat /\ Cardinality(q) \in Nat
    BY <1>2, <2>6
  <2>8. n - 1 \in 0..(n - 1) /\ n - 1 \in Nat
    BY <2>6, <2>7
  <2>9. Sound(q)
    BY <2>2, <2>6, <2>8
  <2>10. it[r] = f[x(r)] + it[q]
    BY <2>4, <2>5
  <2>11. \A p \in r : p = x(r) \/ p \in q
    OBVIOUS
  <2>12. \A p \in r : f[p] \in Nat
    OBVIOUS
  <2> HIDE DEF q
  <2> QED  BY <2>3, <2>6, <2>9, <2>10, <2>11, <2>12
<1> QED  BY <1>8, <1>9

Jobs == [who: People, age: 0..MaxAge]

LEMMA FactorsTyped ==
  \* Everybody's standing is between nothing and one (FairFactor).
  ASSUME usage \in [People -> Nat], NEW v \in Versions
  PROVE  SharesFor(v) \in [People -> 0..1000]
<1>1. SharesAt(v) \in [People -> Nat \ {0}] /\ SharesAt(v) \in [People -> Nat]
  BY ShareAssumption
<1> DEFINE used == Total(usage)
           shares == Total(SharesAt(v))
<1>2. used \in Nat /\ \A p \in People : usage[p] <= used
  BY TotalTyped
<1>3. shares \in Nat
  BY <1>1, TotalTyped
<1> HIDE DEF used, shares
<1>4. ASSUME NEW p \in People PROVE FairFactor(usage[p], used, SharesAt(v)[p], shares) \in 0..1000
  <2> DEFINE share == SharesAt(v)[p]
             u == usage[p]
  <2>1. share \in Nat \ {0} /\ u \in Nat /\ u <= used
    BY <1>1, <1>2
  <2> HIDE DEF share, u
  <2>2. CASE u = 0
    BY <2>2, SMTT(60) DEF FairFactor, u
  <2>3. CASE u # 0
    <3>1. used * share \in Nat \ {0} /\ 100 * u * shares \in Nat
      BY <1>2, <1>3, <2>1, <2>3
    <3>2. (100 * u * shares) \div (used * share) \in Nat
      BY <3>1, Quotient
    <3>3. HalfTo[(100 * u * shares) \div (used * share)] \in 0..1000
      BY <3>2, HalfToTyped, SMTT(60)
    <3> QED  BY <2>3, <3>3, ZenonT(60) DEF FairFactor, u, share
  <2> QED  BY <2>2, <2>3
<1> QED  BY <1>4 DEF SharesFor, used, shares

LEMMA BiggestTyped ==
  \* The biggest of the jobs that wait is one of them.
  ASSUME line \in Seq(Jobs), line # <<>>
  PROVE  Biggest \in Nat \ {0}
<1> DEFINE n == Len(line)
           f == [i \in 1..n |-> Cost[line[i].who]]
<1>1. n \in Nat \ {0} /\ DOMAIN line = 1..n
  OBVIOUS
<1>2. ASSUME NEW i \in 1..n PROVE f[i] \in Nat \ {0}
  <2>1. line[i] \in Jobs
    BY <1>1
  <2>2. line[i].who \in People
    BY <2>1 DEF Jobs
  <2> QED  BY <2>2, ShareAssumption
<1>3. f \in [1..n -> Int]
  <2>1. \A i \in 1..n : f[i] \in Int
    BY <1>2
  <2> QED  BY <2>1
<1>4. {Cost[line[i].who] : i \in DOMAIN line} = {f[i] : i \in 1..n}
  BY <1>1
<1> HIDE DEF f
<1>5. PICK i \in 1..n : \A k \in 1..n \ {i} : f[i] > f[k] \/ (f[i] = f[k] /\ i < k)
  BY <1>1, <1>3, Best
<1>6. \A k \in 1..n : f[i] >= f[k]
  BY <1>3, <1>5
<1>7. \E m \in {f[k] : k \in 1..n} : \A y \in {f[k] : k \in 1..n} : m >= y
  BY <1>5, <1>6
<1>8. Biggest \in {f[k] : k \in 1..n}
  BY <1>4, <1>7 DEF Biggest, Max
<1> QED  BY <1>2, <1>8

LEMMA ScoreTyped ==
  \* A priority is a number.
  ASSUME line \in Seq(Jobs), line # <<>>, policy \in Policies, validPriority(policy), policy.enabled,
         NEW factor \in [People -> Int], NEW j \in Jobs
  PROVE  Score(j, factor) \in Int
<1>1. j.who \in People /\ j.age \in 0..MaxAge
  BY DEF Jobs
<1>2. policy \in [enabled: BOOLEAN, fair: Int, age: Int, size: Int, favorSmall: BOOLEAN]
  BY ShareAssumption
<1>3. policy.fair \in Nat /\ policy.age \in Nat /\ policy.size \in Nat
      /\ policy.fair + policy.age + policy.size \in Nat \ {0}
  BY <1>2 DEF validPriority
<1>4. MaxAge \in Nat \ {0} /\ Cost[j.who] \in Nat \ {0}
  BY <1>1, ShareAssumption
<1>5. Age(j) \in Int
  <2>1. 1000 * j.age \in Nat
    BY <1>1, <1>4
  <2> QED  BY <1>4, <2>1, Quotient DEF Age
<1>6. SizeOf(j) \in Int
  <2>1. Biggest \in Nat \ {0} /\ 1000 * Cost[j.who] \in Nat
    BY <1>4, BiggestTyped
  <2>2. (1000 * Cost[j.who]) \div Biggest \in Nat
    BY <2>1, Quotient
  <2> QED  BY <2>2 DEF SizeOf
<1>7. factor[j.who] \in Int
  BY <1>1
<1> DEFINE above == policy.fair * factor[j.who] + policy.age * Age(j) + policy.size * SizeOf(j)
           below == policy.fair + policy.age + policy.size
<1>8. above \in Int /\ below \in Nat \ {0}
  BY <1>3, <1>5, <1>6, <1>7, SMTT(60)
<1>9. above \div below \in Int
  <2> HIDE DEF above, below
  <2> QED  BY <1>8
<1> QED  BY <1>9 DEF Score

LEMMA FactorsAreNumbers ==
  \* Standings can be calculated with.
  \A f \in [People -> 0..1000] : f \in [People -> Int]
OBVIOUS

LEMMA FirstTyped ==
  \* The job that comes first is one of those that wait (Order).
  ASSUME line \in Seq(Jobs), line # <<>>, policy \in Policies, validPriority(policy),
         NEW factor \in [People -> 0..1000]
  PROVE  First(factor) \in DOMAIN line
<1> DEFINE n == Len(line)
           f == [i \in 1..n |-> Score(line[i], factor)]
<1>1. n \in Nat \ {0} /\ DOMAIN line = 1..n /\ 1 \in 1..n
  OBVIOUS
<1>2. CASE ~policy.enabled
  BY <1>1, <1>2 DEF First
<1>3. CASE policy.enabled
  <2>1. f \in [1..n -> Int]
    <3>1. ASSUME NEW i \in 1..n PROVE Score(line[i], factor) \in Int
      <4>1. line[i] \in Jobs
        BY <1>1
      <4>2. factor \in [People -> Int]
        BY FactorsAreNumbers, ZenonT(60)
      <4> QED  BY <1>3, <4>1, <4>2, ScoreTyped
    <3> QED  BY <3>1
  <2>2. \E i \in 1..n : \A k \in 1..n \ {i} : f[i] > f[k] \/ (f[i] = f[k] /\ i < k)
    <3> HIDE DEF f
    <3> QED  BY <1>1, <2>1, Best
  <2>3. \E i \in DOMAIN line : \A k \in DOMAIN line \ {i} :
          \/ Score(line[i], factor) > Score(line[k], factor)
          \/ Score(line[i], factor) = Score(line[k], factor) /\ i < k
    BY <1>1, <2>2
  <2> QED  BY <1>3, <2>3 DEF First
<1> QED  BY <1>2, <1>3

Mine(l, p) == {i \in DOMAIN l : l[i].who = p}

LEMMA MineFinite ==
  \* A person's places in the line.
  ASSUME NEW l \in Seq(Jobs), NEW p
  PROVE  IsFiniteSet(Mine(l, p)) /\ Cardinality(Mine(l, p)) \in Nat
<1>1. IsFiniteSet(1..Len(l))
  BY FS_Interval
<1>2. Mine(l, p) \in SUBSET (1..Len(l))
  BY DEF Mine
<1>3. IsFiniteSet(Mine(l, p))
  BY <1>1, <1>2, FS_Subset
<1> QED  BY <1>3, FS_CardinalityType

LEMMA BeginTyped ==
  \* A job that starts leaves the line, and the others move up.
  ASSUME line \in Seq(Jobs), line # <<>>, policy \in Policies, validPriority(policy),
         NEW factor \in [People -> 0..1000], Begin(factor)
  PROVE  /\ line' \in Seq(Jobs) /\ slot' \in [who: People, left: Nat \ {0}]
         /\ \A p \in People : Cardinality(Mine(line', p)) <= Cardinality(Mine(line, p))
<1> DEFINE i == First(factor)
           n == Len(line) - 1
           from(k) == IF k < i THEN k ELSE k + 1
<1>1. i \in DOMAIN line
  BY FirstTyped
<1>2. n \in Nat /\ DOMAIN line = 1..(n + 1) /\ i \in 1..(n + 1)
  BY <1>1
<1>3. slot' = [who |-> line[i].who, left |-> Length] /\ line' = [k \in 1..n |-> line[from(k)]]
  <2>1. line' = [k \in 1..n |-> IF k < i THEN line[k] ELSE line[k + 1]]
    BY DEF Begin
  <2>2. slot' = [who |-> line[i].who, left |-> Length]
    BY DEF Begin
  <2>3. \A k \in 1..n : (IF k < i THEN line[k] ELSE line[k + 1]) = line[from(k)]
    OBVIOUS
  <2> QED  BY <2>1, <2>2, <2>3
<1> HIDE DEF i
<1>4. \A k \in 1..n : from(k) \in 1..(n + 1)
  BY <1>2
<1>5. \A j, k \in 1..n : j # k => from(j) # from(k)
  BY <1>2
<1>6. slot' \in [who: People, left: Nat \ {0}]
  <2>1. line[i] \in Jobs
    BY <1>2
  <2>2. line[i].who \in People
    BY <2>1 DEF Jobs
  <2> QED  BY <1>3, <2>2, ShareAssumption
<1> HIDE DEF n, from
<1>7. line' \in Seq(Jobs)
  <2>1. \A k \in 1..n : line[from(k)] \in Jobs
    BY <1>2, <1>4
  <2> QED  BY <1>2, <1>3, <2>1
<1>8. ASSUME NEW p \in People PROVE Cardinality(Mine(line', p)) <= Cardinality(Mine(line, p))
  <2> DEFINE S == Mine(line', p)
             T == Mine(line, p)
             g == [k \in S |-> from(k)]
  <2>1. DOMAIN line' = 1..n
    BY <1>3
  <2>2. \A k \in S : k \in 1..n /\ line[from(k)].who = p /\ from(k) \in T
    BY <1>2, <1>3, <1>4, <2>1 DEF Mine
  <2>3. g \in [S -> T] /\ \A j, k \in S : g[j] = g[k] => j = k
    BY <1>5, <2>2
  <2>4. g \in Injection(S, T)
    <3> HIDE DEF g, S, T
    <3> QED  BY <2>3 DEF Injection, IsInjective
  <2>5. IsFiniteSet(T)
    BY MineFinite
  <2> HIDE DEF g, S, T
  <2>6. Cardinality(S) <= Cardinality(T)
    BY <2>4, <2>5, FS_Injection
  <2> QED  BY <2>6 DEF S, T
<1> QED  BY <1>6, <1>7, <1>8

-----------------------------------------------------------------------------
(* The inductive invariant of FairShare *)

UsageTyped == usage \in [People -> Nat] /\ \A p \in People : usage[p] <= 2 * Cost[p]
LineTyped == line \in Seq(Jobs) /\ \A p \in People : Cardinality(Mine(line, p)) <= Waiting[p]
SlotTyped ==
  slot \in [who: People \cup {Nobody}, left: Nat] /\ (slot.who = Nobody <=> slot.left = 0)
PolicyTyped == policy \in Policies /\ validPriority(policy)
SharesTyped ==
  /\ version \in Versions /\ cached \in Standing /\ busy \in [Readers -> Standing]
  /\ dropping \in BOOLEAN /\ since \in [Versions -> 0..TTL] /\ lag \in 0..TTL

\* The shares in force were not replaced; what is kept was worked out by shares that were not
\* replaced before, and no tick passes while something is being worked out.
Recent ==
  /\ \A v \in Versions : v >= version => since[v] = 0
  /\ cached.on => since[cached.of] <= cached.age
  /\ \A r \in Readers : busy[r].on => since[busy[r].of] = 0
  /\ lag < TTL

ShareInv == UsageTyped /\ LineTyped /\ SlotTyped /\ PolicyTyped /\ SharesTyped /\ Recent

LEMMA ShareInvIsTypeOK ==
  \* The invariant covers every conjunct of the types.
  ShareInv => FairTypeOK
BY DEF ShareInv, UsageTyped, LineTyped, SlotTyped, PolicyTyped, SharesTyped, FairTypeOK, Jobs, Mine

LEMMA NoneTyped ==
  \* No standings are standings, too.
  None \in Standing
<1>1. 0 \in 0..TTL /\ 0 \in Versions
  BY ShareAssumption DEF Versions
<1>2. [p \in People |-> 1000] \in [People -> 0..1000]
  OBVIOUS
<1> QED  BY <1>1, <1>2 DEF None, Standing

LEMMA ShareInitInv ==
  \* Nothing is kept and nobody waits.
  ShareInit => ShareInv
<1> SUFFICES ASSUME ShareInit PROVE ShareInv
  OBVIOUS
<1>1. UsageTyped
  <2>1. \A p \in People : Cost[p] \in Nat \ {0}
    BY ShareAssumption
  <2> QED  BY <2>1 DEF ShareInit, UsageTyped
<1>2. LineTyped
  <2>1. line = <<>> /\ line \in Seq(Jobs)
    BY DEF ShareInit
  <2>2. \A p \in People : Mine(line, p) = {}
    BY <2>1 DEF Mine
  <2>3. \A p \in People : Waiting[p] \in Nat
    BY ShareAssumption
  <2>4. \A p \in People : Cardinality(Mine(line, p)) = 0
    BY <2>2, FS_EmptySet
  <2>5. \A p \in People : Cardinality(Mine(line, p)) <= Waiting[p]
    BY <2>3, <2>4
  <2> QED  BY <2>1, <2>5 DEF LineTyped
<1>3. SlotTyped /\ PolicyTyped
  BY DEF ShareInit, SlotTyped, PolicyTyped
<1>4. 0 \in 0..TTL /\ 0 \in Versions /\ 0 < TTL /\ \A v \in Versions : v \in Nat
  BY ShareAssumption DEF Versions
<1>5. SharesTyped
  BY <1>4, NoneTyped DEF ShareInit, SharesTyped
<1>6. Recent
  BY <1>4 DEF ShareInit, Recent, None
<1> QED  BY <1>1, <1>2, <1>3, <1>5, <1>6 DEF ShareInv

LEMMA LineMoves ==
  \* Jobs are submitted, wait, and start.
  ASSUME ShareInv, ShareNext
  PROVE  LineTyped' /\ SlotTyped'
<1>1. LineTyped /\ SlotTyped /\ PolicyTyped /\ SharesTyped
  BY DEF ShareInv
<1>2. ASSUME NEW factor \in [People -> 0..1000], Wanted("pass"), Begin(factor)
      PROVE  LineTyped' /\ SlotTyped'
  <2>1. line \in Seq(Jobs) /\ line # <<>> /\ policy \in Policies /\ validPriority(policy)
    BY <1>1, <1>2 DEF LineTyped, PolicyTyped, Wanted
  <2>2. /\ line' \in Seq(Jobs) /\ slot' \in [who: People, left: Nat \ {0}]
        /\ \A p \in People : Cardinality(Mine(line', p)) <= Cardinality(Mine(line, p))
    BY <1>2, <2>1, BeginTyped, ZenonT(60)
  <2>3. SlotTyped'
    BY <2>2, ShareAssumption DEF SlotTyped
  <2>4. ASSUME NEW p \in People PROVE Cardinality(Mine(line', p)) <= Waiting[p]
    <3>1. Cardinality(Mine(line, p)) \in Nat /\ Cardinality(Mine(line', p)) \in Nat
      BY <2>1, <2>2, MineFinite
    <3>2. Waiting[p] \in Nat
      BY ShareAssumption
    <3> QED  BY <1>1, <2>2, <3>1, <3>2 DEF LineTyped
  <2> QED  BY <2>2, <2>3, <2>4 DEF LineTyped
<1>3. ASSUME NEW p \in People, Submit(p) PROVE LineTyped' /\ SlotTyped'
  <2> DEFINE n == Len(line)
             j == [who |-> p, age |-> 0]
  <2>1. j \in Jobs
    <3>1. 0 \in 0..MaxAge
      BY ShareAssumption
    <3> QED  BY <3>1 DEF Jobs
  <2>2. line \in Seq(Jobs) /\ n \in Nat /\ DOMAIN line = 1..n
    BY <1>1 DEF LineTyped
  <2>3. line' = Append(line, j) /\ slot' = slot /\ Cardinality(Mine(line, p)) < Waiting[p]
    BY <1>3 DEF Submit, Mine
  <2>4. /\ line' \in Seq(Jobs) /\ DOMAIN line' = 1..n \cup {n + 1} /\ n + 1 \notin DOMAIN line
        /\ line'[n + 1].who = p /\ \A i \in 1..n : line'[i] = line[i]
    <3> HIDE DEF j
    <3>1. line' \in Seq(Jobs) /\ Len(line') = n + 1 /\ DOMAIN line' = 1..(n + 1)
          /\ line'[n + 1] = j /\ \A i \in 1..n : line'[i] = line[i]
      BY <2>1, <2>2, <2>3
    <3>2. 1..(n + 1) = 1..n \cup {n + 1} /\ n + 1 \notin 1..n
      BY <2>2
    <3> QED  BY <2>2, <3>1, <3>2 DEF j
  <2>5. ASSUME NEW q \in People PROVE Cardinality(Mine(line', q)) <= Waiting[q]
    <3>1. IsFiniteSet(Mine(line, q)) /\ Cardinality(Mine(line, q)) \in Nat
      BY <2>2, MineFinite
    <3>2. Cardinality(Mine(line, q)) <= Waiting[q] /\ Waiting[q] \in Nat
      BY <1>1, ShareAssumption DEF LineTyped
    <3>3. CASE q = p
      <4>1. Mine(line', q) = Mine(line, q) \cup {n + 1} /\ n + 1 \notin Mine(line, q)
        BY <2>2, <2>4, <3>3 DEF Mine
      <4>2. Cardinality(Mine(line', q)) = Cardinality(Mine(line, q)) + 1
        BY <3>1, <4>1, FS_AddElement
      <4> QED  BY <2>3, <3>1, <3>2, <3>3, <4>2
    <3>4. CASE q # p
      <4>1. Mine(line', q) = Mine(line, q)
        BY <2>2, <2>4, <3>4 DEF Mine
      <4> QED  BY <3>2, <4>1
    <3> QED  BY <3>3, <3>4
  <2> QED  BY <1>1, <2>3, <2>4, <2>5 DEF LineTyped, SlotTyped
<1>4. CASE Tick
  <2> DEFINE n == Len(line)
  <2>1. line \in Seq(Jobs) /\ n \in Nat /\ DOMAIN line = 1..n
    BY <1>1 DEF LineTyped
  <2>2. line' = [i \in 1..n |-> [line[i] EXCEPT !.age = Older(@, MaxAge)]]
    BY <1>4, <2>1 DEF Tick
  <2>3. ASSUME NEW i \in 1..n PROVE line'[i] \in Jobs /\ line'[i].who = line[i].who
    <3>1. line[i] \in Jobs
      BY <2>1
    <3>2. line[i].who \in People /\ line[i].age \in 0..MaxAge
          /\ line[i] = [who |-> line[i].who, age |-> line[i].age]
      BY <3>1 DEF Jobs
    <3>3. Older(line[i].age, MaxAge) \in 0..MaxAge
      BY <3>2, ShareAssumption DEF Older
    <3>4. line'[i] = [line[i] EXCEPT !.age = Older(@, MaxAge)]
      BY <2>2
    <3>5. line'[i] = [who |-> line[i].who, age |-> Older(line[i].age, MaxAge)]
      BY <3>2, <3>4
    <3> QED  BY <3>2, <3>3, <3>5 DEF Jobs
  <2>4. line' \in Seq(Jobs) /\ DOMAIN line' = 1..n
    BY <2>1, <2>2, <2>3
  <2>5. \A p \in People : Mine(line', p) = Mine(line, p)
    BY <2>1, <2>3, <2>4 DEF Mine
  <2>6. SlotTyped'
    <3>1. slot.who \in People \cup {Nobody} /\ slot.left \in Nat
          /\ slot = [who |-> slot.who, left |-> slot.left] /\ (slot.who = Nobody <=> slot.left = 0)
      BY <1>1 DEF SlotTyped
    <3>2. CASE slot.left <= 1
      BY <1>4, <3>2 DEF Tick, SlotTyped
    <3>3. CASE slot.left > 1
      <4>1. slot' = [slot EXCEPT !.left = @ - 1]
        BY <1>4, <3>1, <3>3 DEF Tick
      <4>2. slot' = [who |-> slot.who, left |-> slot.left - 1]
        BY <3>1, <4>1
      <4> QED  BY <3>1, <3>3, <4>2 DEF SlotTyped
    <3> QED  BY <3>1, <3>2, <3>3
  <2> QED  BY <1>1, <2>4, <2>5, <2>6 DEF LineTyped
<1>5. ASSUME NEW r \in Readers, UseKept(r) PROVE LineTyped' /\ SlotTyped'
  <2>1. CASE r = "pass"
    <3>1. cached.factor \in [People -> 0..1000]
      BY <1>1 DEF SharesTyped, Standing
    <3>2. Wanted("pass") /\ Begin(cached.factor)
      BY <1>5, <2>1 DEF UseKept
    <3> QED  BY <1>2, <3>1, <3>2
  <2>2. CASE r # "pass"
    BY <1>1, <1>5, <2>2 DEF UseKept, LineTyped, SlotTyped
  <2> QED  BY <2>1, <2>2
<1>6. ASSUME NEW r \in Readers, Keep(r) PROVE LineTyped' /\ SlotTyped'
  <2>1. CASE r = "pass" /\ Wanted(r)
    <3>1. busy[r].factor \in [People -> 0..1000]
      BY <1>1 DEF SharesTyped, Standing
    <3>2. Wanted("pass") /\ Begin(busy[r].factor)
      BY <1>6, <2>1 DEF Keep
    <3> QED  BY <1>2, <3>1, <3>2
  <2>2. CASE ~(r = "pass" /\ Wanted(r))
    BY <1>1, <1>6, <2>2 DEF Keep, LineTyped, SlotTyped
  <2> QED  BY <2>1, <2>2
<1>7. CASE InOrder
  <2>1. None.factor \in [People -> 0..1000]
    BY NoneTyped DEF Standing
  <2> QED  BY <1>2, <1>7, <2>1 DEF InOrder
<1>8. ASSUME line' = line, slot' = slot PROVE LineTyped' /\ SlotTyped'
  BY <1>1, <1>8 DEF LineTyped, SlotTyped
<1>9. CASE (\E r \in Readers : Read(r)) \/ SetUserShares \/ EditByHand \/ Drop
  BY <1>8, <1>9 DEF Read, SetUserShares, EditByHand, Change, Drop
<1> QED  BY <1>3, <1>4, <1>5, <1>6, <1>7, <1>9 DEF ShareNext

LEMMA UsageMoves ==
  \* Usage fades and grows by what runs.
  ASSUME ShareInv, ShareNext
  PROVE  UsageTyped' /\ PolicyTyped'
<1>1. UsageTyped /\ PolicyTyped
  BY DEF ShareInv
<1>2. policy' = policy
  BY DEF ShareNext, Submit, Tick, UseKept, Read, Keep, InOrder, SetUserShares, EditByHand, Change, Drop
<1>3. PolicyTyped'
  BY <1>1, <1>2 DEF PolicyTyped
<1>4. CASE Tick
  <2>1. ASSUME NEW p \in People
        PROVE  /\ Decay(usage[p]) + Consumed(p) \in Nat
               /\ Decay(usage[p]) + Consumed(p) <= 2 * Cost[p]
    <3>1. Cost[p] \in Nat \ {0} /\ usage[p] \in Nat /\ usage[p] <= 2 * Cost[p]
      BY <1>1, ShareAssumption DEF UsageTyped
    <3>2. Consumed(p) \in Nat /\ Consumed(p) <= Cost[p]
      BY <3>1 DEF Consumed
    <3>3. usage[p] \div 2 \in Nat /\ usage[p] \div 2 <= Cost[p]
      BY <3>1
    <3> QED  BY <3>1, <3>2, <3>3 DEF Decay
  <2>2. usage' = [p \in People |-> Decay(usage[p]) + Consumed(p)]
    BY <1>4 DEF Tick
  <2> QED  BY <1>3, <2>1, <2>2 DEF UsageTyped
<1>5. CASE ~Tick
  <2>1. usage' = usage
    BY <1>5 DEF ShareNext, Submit, UseKept, Read, Keep, InOrder, SetUserShares, EditByHand, Change, Drop
  <2> QED  BY <1>1, <1>3, <2>1 DEF UsageTyped
<1> QED  BY <1>4, <1>5

LEMMA CacheMoves ==
  \* Standings are worked out, kept, used, and dropped.
  ASSUME ShareInv, ShareNext
  PROVE  SharesTyped' /\ Recent'
<1>1. UsageTyped /\ SharesTyped /\ Recent
  BY DEF ShareInv
<1>2. TTL \in Nat \ {0} /\ MaxChanges \in Nat /\ Versions = 0..MaxChanges
  BY ShareAssumption DEF Versions
<1>3. /\ version \in Versions /\ version \in Nat /\ cached \in Standing /\ dropping \in BOOLEAN
      /\ lag \in 0..TTL /\ lag < TTL
      /\ cached.of \in Versions /\ cached.age \in 0..TTL /\ cached.on \in BOOLEAN
  <2>1. version \in Versions /\ cached \in Standing /\ dropping \in BOOLEAN /\ lag \in 0..TTL
    BY <1>1 DEF SharesTyped
  <2>2. version \in Nat /\ lag < TTL
    BY <1>1, <1>2, <2>1 DEF Recent
  <2>3. cached.of \in Versions /\ cached.age \in 0..TTL /\ cached.on \in BOOLEAN
    BY <2>1 DEF Standing
  <2> QED  BY <2>1, <2>2, <2>3
<1>4. ASSUME NEW v \in Versions PROVE since[v] \in 0..TTL /\ v \in Nat
  BY <1>1, <1>2 DEF SharesTyped
<1>5. ASSUME NEW r \in Readers PROVE busy[r] \in Standing /\ busy[r].of \in Versions
  BY <1>1 DEF SharesTyped, Standing
<1>6. ASSUME UNCHANGED <<version, cached, busy, dropping, since>>, lag' = lag
      PROVE  SharesTyped' /\ Recent'
  BY <1>1, <1>6 DEF SharesTyped, Recent
<1>7. CASE (\E p \in People : Submit(p)) \/ InOrder
  BY <1>6, <1>7 DEF Submit, InOrder
<1>8. CASE Tick
  <2>1. /\ cached' = [cached EXCEPT !.age = IF cached.on THEN Older(@, TTL) ELSE 0]
        /\ since' = [v \in Versions |-> IF v < version THEN Older(since[v], TTL) ELSE 0]
        /\ version' = version /\ busy' = busy /\ dropping' = dropping /\ lag' = lag
        /\ \A r \in Readers : ~busy[r].on
    BY <1>8 DEF Tick
  <2>2. /\ cached'.on = cached.on /\ cached'.of = cached.of /\ cached'.key = cached.key
        /\ cached'.factor = cached.factor
        /\ cached'.age = (IF cached.on THEN Older(cached.age, TTL) ELSE 0)
    BY <1>3, <2>1 DEF Standing
  <2>3. Older(cached.age, TTL) \in 0..TTL /\ 0 \in 0..TTL
    BY <1>2, <1>3 DEF Older
  <2>4. cached' \in Standing
    <3>1. cached' = [on |-> cached'.on, age |-> cached'.age, key |-> cached'.key, of |-> cached'.of,
                     factor |-> cached'.factor]
      BY <1>3, <2>1 DEF Standing
    <3>2. cached'.age \in 0..TTL
      BY <2>2, <2>3
    <3> QED  BY <1>3, <2>2, <3>1, <3>2 DEF Standing
  <2>5. ASSUME NEW v \in Versions
        PROVE  since'[v] = (IF v < version THEN Older(since[v], TTL) ELSE 0) /\ since'[v] \in 0..TTL
    <3>1. Older(since[v], TTL) \in 0..TTL
      BY <1>2, <1>4 DEF Older
    <3> QED  BY <2>1, <2>3, <3>1
  <2>6. SharesTyped'
    BY <1>1, <2>1, <2>4, <2>5 DEF SharesTyped
  <2>7. ASSUME cached.on PROVE since'[cached.of] <= Older(cached.age, TTL)
    <3>1. since[cached.of] <= cached.age
      BY <1>1, <2>7 DEF Recent
    <3> QED  BY <1>2, <1>3, <1>4, <2>5, <3>1, SMTT(60) DEF Older
  <2>8. \A v \in Versions : v >= version => since'[v] = 0
    BY <1>3, <1>4, <2>5
  <2> QED  BY <1>3, <2>1, <2>2, <2>6, <2>7, <2>8 DEF Recent
<1>9. ASSUME NEW r \in Readers, UseKept(r) PROVE SharesTyped' /\ Recent'
  <2>1. /\ version' = version /\ cached' = cached /\ busy' = busy /\ dropping' = dropping /\ since' = since
        /\ lag' = since[cached.of] /\ cached.on /\ cached.age < TTL
    BY <1>9 DEF UseKept, Fresh
  <2>2. lag' \in 0..TTL /\ lag' < TTL
    <3>1. since[cached.of] <= cached.age
      BY <1>1, <2>1 DEF Recent
    <3> QED  BY <1>2, <1>3, <1>4, <2>1, <3>1
  <2> QED  BY <1>1, <2>1, <2>2 DEF SharesTyped, Recent
<1>10. ASSUME NEW r \in Readers, Read(r) PROVE SharesTyped' /\ Recent'
  <2> DEFINE s == [on |-> TRUE, age |-> 0, key |-> version, of |-> version, factor |-> SharesFor(version)]
  <2>1. /\ version' = version /\ cached' = cached /\ dropping' = dropping /\ since' = since /\ lag' = lag
        /\ busy' = [busy EXCEPT ![r] = s]
    BY <1>10 DEF Read
  <2>2. s \in Standing
    <3>1. SharesFor(version) \in [People -> 0..1000]
      BY <1>1, <1>3, FactorsTyped, SMTT(60) DEF UsageTyped
    <3>2. 0 \in 0..TTL
      BY <1>2
    <3> QED  BY <1>3, <3>1, <3>2 DEF Standing
  <2>3. s.of = version /\ since[version] = 0
    BY <1>1, <1>3 DEF Recent
  <2> HIDE DEF s
  <2>4. busy' \in [Readers -> Standing] /\ \A q \in Readers : busy'[q] = IF q = r THEN s ELSE busy[q]
    BY <1>1, <2>1, <2>2 DEF SharesTyped
  <2> QED  BY <1>1, <2>1, <2>3, <2>4 DEF SharesTyped, Recent
<1>11. ASSUME NEW r \in Readers, Keep(r) PROVE SharesTyped' /\ Recent'
  <2>1. /\ version' = version /\ dropping' = dropping /\ since' = since
        /\ cached' = busy[r] /\ busy' = [busy EXCEPT ![r] = None] /\ lag' = since[busy[r].of]
        /\ busy[r].on
    BY <1>11 DEF Keep
  <2>2. since[busy[r].of] = 0 /\ 0 \in 0..TTL /\ 0 < TTL
    BY <1>1, <1>2, <2>1 DEF Recent
  <2>3. busy' \in [Readers -> Standing] /\ \A q \in Readers : busy'[q] = IF q = r THEN None ELSE busy[q]
    BY <1>1, <2>1, NoneTyped DEF SharesTyped
  <2>4. cached' \in Standing /\ cached'.age \in Nat
    <3>1. cached' \in Standing
      BY <1>5, <2>1
    <3>2. cached'.age \in 0..TTL
      BY <3>1 DEF Standing
    <3> QED  BY <1>2, <3>1, <3>2
  <2>5. SharesTyped'
    BY <1>1, <2>1, <2>2, <2>3, <2>4 DEF SharesTyped
  <2>6. ~None.on
    BY DEF None
  <2> QED  BY <1>1, <2>1, <2>2, <2>3, <2>4, <2>5, <2>6 DEF Recent
<1>12. ASSUME NEW api \in BOOLEAN, Change(api) PROVE SharesTyped' /\ Recent'
  <2> DEFINE Held(same, s) == IF same /\ s.on /\ s.key = version THEN [s EXCEPT !.key = version + 1] ELSE s
  <2>1. /\ version < MaxChanges /\ version' = version + 1 /\ dropping' = api
        /\ since' = since /\ lag' = lag
    BY <1>12 DEF Change
  <2>2. PICK same \in BOOLEAN : /\ cached' = Held(same, cached)
                                /\ busy' = [r \in Readers |-> Held(same, busy[r])]
    BY <1>12 DEF Change
  <2>3. version + 1 \in Versions
    BY <1>2, <1>3, <2>1
  <2>4. ASSUME NEW s \in Standing
        PROVE  /\ Held(same, s) \in Standing /\ Held(same, s).on = s.on
               /\ Held(same, s).of = s.of /\ Held(same, s).age = s.age
    BY <2>3 DEF Standing
  <2> HIDE DEF Held
  <2>5. SharesTyped'
    BY <1>1, <1>3, <1>5, <2>1, <2>2, <2>3, <2>4 DEF SharesTyped
  <2>6. \A v \in Versions : v >= version' => since'[v] = 0
    BY <1>1, <1>3, <1>4, <2>1 DEF Recent
  <2>7. cached'.on => since'[cached'.of] <= cached'.age
    BY <1>1, <1>3, <2>1, <2>2, <2>4 DEF Recent
  <2>8. \A r \in Readers : busy'[r].on => since'[busy'[r].of] = 0
    BY <1>1, <1>5, <2>1, <2>2, <2>4 DEF Recent
  <2> QED  BY <1>3, <2>1, <2>5, <2>6, <2>7, <2>8 DEF Recent
<1>13. CASE SetUserShares \/ EditByHand
  BY <1>12, <1>13 DEF SetUserShares, EditByHand
<1>14. CASE Drop
  <2>1. /\ version' = version /\ busy' = busy /\ since' = since /\ lag' = lag
        /\ cached' = None /\ dropping' = FALSE
    BY <1>14 DEF Drop
  <2>2. ~None.on
    BY DEF None
  <2> QED  BY <1>1, <2>1, <2>2, NoneTyped DEF SharesTyped, Recent
<1> QED  BY <1>7, <1>8, <1>9, <1>10, <1>11, <1>13, <1>14 DEF ShareNext

LEMMA ShareStep ==
  \* Every step keeps the invariant.
  ShareInv /\ [ShareNext]_fairVars => ShareInv'
<1>1. CASE UNCHANGED fairVars
  BY <1>1 DEF fairVars, ShareInv, UsageTyped, LineTyped, Mine, SlotTyped, PolicyTyped, SharesTyped, Recent
<1> QED  BY <1>1, UsageMoves, LineMoves, CacheMoves DEF ShareInv

\* Every variable of FairShare keeps its type: standings and priorities can be worked out in every
\* state, and nobody has more jobs in the line than may wait (Shares, Score, Order).
THEOREM FairTypeCorrect == FairShareSpec => []FairTypeOK
<1>1. ShareInv => FairTypeOK
  BY ShareInvIsTypeOK
<1> QED  BY <1>1, ShareInitInv, ShareStep, PTL DEF FairShareSpec

\* Shares that were replaced are not used for as long as standings are kept, however a change
\* meets a computation outside the lock (Shares, SetUserShares).
THEOREM StandingsAreRecentHolds == FairShareSpec => []StandingsAreRecent
<1>1. ShareInv => StandingsAreRecent
  BY DEF ShareInv, Recent, StandingsAreRecent
<1> QED  BY <1>1, ShareInitInv, ShareStep, PTL DEF FairShareSpec

-----------------------------------------------------------------------------
(* Confinement *)

LEMMA EndTyped ==
  \* Processes that end leave everything they were in.
  ASSUME ConfinementTypeOK, NEW ps, NEW how \in {"exited", "failed", "killed"}, End(ps, how)
  PROVE  /\ proc' \in [Procs -> {"none", "alive", "exited", "failed", "killed"}]
         /\ mem' \in [Procs -> 0..(Limit + 1)]
         /\ ingroup' \subseteq Alive' /\ incgroup' \subseteq Alive' /\ astray' \subseteq Alive'
         /\ code' \in {"none", "0", "1", "137", "-1"} /\ (astray' # {} => astray # {})
<1>1. /\ proc' = [p \in Procs |-> IF p \in ps \cap Alive THEN how ELSE proc[p]]
      /\ mem' = [p \in Procs |-> IF p \in ps THEN 0 ELSE mem[p]]
      /\ ingroup' = ingroup \ ps /\ incgroup' = incgroup \ ps /\ astray' = astray \ ps
  BY DEF End
<1>2. \A p \in Alive : p \notin ps => p \in Alive'
  BY <1>1 DEF Alive
<1>3. proc' \in [Procs -> {"none", "alive", "exited", "failed", "killed"}]
  BY <1>1 DEF ConfinementTypeOK
<1>4. mem' \in [Procs -> 0..(Limit + 1)]
  <2>1. 0 \in 0..(Limit + 1)
    BY ConfinementAssumption
  <2> QED  BY <1>1, <2>1 DEF ConfinementTypeOK
<1>5. code' \in {"none", "0", "1", "137", "-1"}
  BY DEF End, ConfinementTypeOK
<1> QED  BY <1>1, <1>2, <1>3, <1>4, <1>5 DEF ConfinementTypeOK

LEMMA ConfinementInitTyped ==
  \* Nothing runs.
  ConfinementInit => ConfinementTypeOK
<1> SUFFICES ASSUME ConfinementInit PROVE ConfinementTypeOK
  OBVIOUS
<1>1. 0 \in 0..(Limit + 1)
  BY ConfinementAssumption
<1>2. Cardinality(Procs) \in Nat /\ 2 <= Cardinality(Procs)
  <2>1. IsFiniteSet(Procs)
    BY ConfinementAssumption, FS_AddElement DEF Procs
  <2>2. {Script} \in SUBSET Procs /\ {Script} \cup {Launcher} \in SUBSET Procs /\ Script # Launcher
    BY ConfinementAssumption DEF Procs
  <2>3. IsFiniteSet({Script}) /\ Cardinality({Script}) = 1
    BY FS_Singleton
  <2>4. Cardinality({Script} \cup {Launcher}) = 2
    BY <2>2, <2>3, FS_AddElement
  <2> QED  BY <2>1, <2>2, <2>4, FS_Subset, FS_CardinalityType
<1>3. limits \in [mem: BOOLEAN, procs: 0..Cardinality(Procs), wall: BOOLEAN]
  <2>1. {0, 2} \subseteq 0..Cardinality(Procs)
    BY <1>2
  <2> QED  BY <2>1 DEF ConfinementInit
<1> QED  BY <1>1, <1>3 DEF ConfinementInit, ConfinementTypeOK, Environments

LEMMA ConfinementStep ==
  \* Every step of the job, the kernel and the agent keeps the types.
  ASSUME ConfinementTypeOK, ConfinementNext
  PROVE  ConfinementTypeOK'
<1> USE DEF ConfinementTypeOK
<1>1. CASE Prepare
  BY <1>1 DEF Prepare, Alive
<1>2. CASE Launch
  <2>1. Launcher \in Procs /\ proc' = [proc EXCEPT ![Launcher] = "alive"]
    BY <1>2 DEF Launch, Procs
  <2>2. \A p \in Alive : p \in Alive'
    BY <2>1 DEF Alive
  <2>3. Launcher \in Alive'
    BY <2>1 DEF Alive
  <2>4. proc' \in [Procs -> {"none", "alive", "exited", "failed", "killed"}]
    BY <2>1
  <2> QED  BY <1>2, <2>2, <2>3, <2>4 DEF Launch, Leader
<1>3. CASE Move
  BY <1>3 DEF Move, Alive
<1>4. ASSUME NEW p \in Procs, NEW k \in Kids, Fork(p, k) PROVE ConfinementTypeOK'
  <2>1. k \in Procs /\ proc' = [proc EXCEPT ![k] = "alive"]
    BY <1>4 DEF Fork, Procs
  <2>2. (\A q \in Alive : q \in Alive') /\ k \in Alive'
    BY <2>1 DEF Alive
  <2>3. proc' \in [Procs -> {"none", "alive", "exited", "failed", "killed"}]
    BY <2>1
  <2>4. ingroup' \subseteq ingroup \cup {k} /\ incgroup' \subseteq incgroup \cup {k}
        /\ astray' \subseteq astray \cup {k} /\ (astray' # {} => astray # {})
    BY <1>4 DEF Fork
  <2>5. UNCHANGED <<env, limits, cgroup, phase, mem, code, said, due>>
    BY <1>4 DEF Fork
  <2> QED  BY <2>2, <2>3, <2>4, <2>5
<1>5. ASSUME NEW k \in Kids, Leave(k) PROVE ConfinementTypeOK'
  <2>1. Alive' = Alive
    BY <1>5 DEF Leave, Alive
  <2> QED  BY <1>5, <2>1 DEF Leave
<1>6. ASSUME NEW p \in Procs, Grow(p) PROVE ConfinementTypeOK'
  <2>1. UNCHANGED <<env, limits, cgroup, phase, said, due>>
    BY <1>6 DEF Grow
  <2>2. CASE \E q \in incgroup \ {Launcher} : End({q}, "killed")
    BY <2>1, <2>2, EndTyped
  <2>3. CASE mem' = [mem EXCEPT ![p] = @ + 1] /\ UNCHANGED <<proc, ingroup, incgroup, code, astray>>
    <3>1. mem[p] + 1 \in 0..(Limit + 1)
      BY <1>6, ConfinementAssumption DEF Grow
    <3>2. mem' \in [Procs -> 0..(Limit + 1)] /\ Alive' = Alive
      BY <2>3, <3>1 DEF Alive
    <3> QED  BY <2>1, <2>3, <3>2
  <2> QED  BY <1>6, <2>2, <2>3 DEF Grow
<1>7. ASSUME NEW p \in Procs, Exit(p) PROVE ConfinementTypeOK'
  <2>1. PICK how \in {"exited", "failed"} : End({p}, how)
    BY <1>7 DEF Exit
  <2>2. UNCHANGED <<env, limits, cgroup, phase, said, due>>
    BY <1>7 DEF Exit
  <2> QED  BY <2>1, <2>2, EndTyped
<1>8. CASE LauncherExits
  <2>1. /\ proc' = [proc EXCEPT ![Launcher] = "exited"] /\ Launcher \in Procs
        /\ ingroup' = ingroup \ {Launcher} /\ incgroup' = incgroup \ {Launcher}
        /\ env \in {"bare", "cgroup", "bwrap"}
        /\ code' \in {"0", "137", "1"}
        /\ UNCHANGED <<env, limits, cgroup, phase, mem, said, due, astray>>
    BY <1>8 DEF LauncherExits, Procs, Namespaced
  <2>2. \A q \in Alive : q # Launcher => q \in Alive'
    BY <2>1 DEF Alive
  <2>3. proc' \in [Procs -> {"none", "alive", "exited", "failed", "killed"}]
    BY <2>1
  <2> QED  BY <2>1, <2>2, <2>3
<1>9. CASE NamespaceEnds
  BY <1>9, EndTyped DEF NamespaceEnds
<1>10. CASE checkAll
  <2>1. UNCHANGED <<env, limits, cgroup>> /\ phase' = "reported"
        /\ said' \in {"COMPLETED", "FAILED", "OUT_OF_MEMORY", "TIMEOUT"} /\ due' \in BOOLEAN
    BY <1>10 DEF checkAll, Reported, Verdict
  <2>2. CASE \E ps, how : how \in {"failed", "killed"} /\ End(ps, how)
    BY <2>1, <2>2, EndTyped
  <2>3. CASE LeftAlone /\ UNCHANGED <<proc, mem, ingroup, incgroup, code>>
    <3>1. Alive' = Alive
      BY <2>3 DEF Alive
    <3> QED  BY <2>1, <2>3, <3>1 DEF LeftAlone
  <2> QED  BY <1>10, <2>2, <2>3 DEF checkAll
<1>11. CASE KillAfterGrace
  BY <1>11, EndTyped, ZenonT(60) DEF KillAfterGrace
<1>12. CASE Cleanup
  BY <1>12, EndTyped DEF Cleanup
<1>13. CASE AgentDies
  <2>1. UNCHANGED <<env, limits, cgroup, said>> /\ phase' = "lost" /\ due' = FALSE
    BY <1>13 DEF AgentDies
  <2>2. CASE End({Launcher}, "killed")
    BY <2>1, <2>2, EndTyped
  <2>3. CASE LeftAlone /\ UNCHANGED <<proc, mem, ingroup, incgroup, code>>
    <3>1. Alive' = Alive
      BY <2>3 DEF Alive
    <3> QED  BY <2>1, <2>3, <3>1 DEF LeftAlone
  <2> QED  BY <1>13, <2>2, <2>3 DEF AgentDies
<1>14. CASE SweepOrphanScratch
  BY <1>14 DEF SweepOrphanScratch, Alive
<1> QED  BY <1>1, <1>2, <1>3, <1>4, <1>5, <1>6, <1>7, <1>8, <1>9, <1>10, <1>11, <1>12, <1>13, <1>14
         DEF ConfinementNext

LEMMA ConfinementStays ==
  \* The same of a step in which the job does nothing.
  ConfinementTypeOK /\ [ConfinementNext]_jobVars => ConfinementTypeOK'
<1>1. CASE UNCHANGED jobVars
  BY <1>1 DEF jobVars, ConfinementTypeOK, Alive
<1> QED  BY <1>1, ConfinementStep

\* What a process is in is alive: no group, cgroup or list of strays holds a process that ended,
\* whoever ended it, and only a Mac has strays (End, checkAll, Cleanup).
THEOREM ConfinementTypeCorrect == ConfinementSpec => []ConfinementTypeOK
BY ConfinementInitTyped, ConfinementStays, PTL DEF ConfinementSpec

-----------------------------------------------------------------------------
(* One part at a time *)

LEMMA PartsMove ==
  \* A step of WorkSpec is one of each part, or none.
  [WorkNext]_workVars => [Next]_vars /\ [ShareNext]_fairVars /\ [ConfinementNext]_jobVars
<1>1. UNCHANGED gangVars <=> UNCHANGED vars
  BY DEF gangVars, vars, store, memory, agents, wire, history
<1> QED  BY <1>1 DEF WorkNext, workVars

\* The types of every part, in the behaviours the run is about.
THEOREM WorkTypeCorrect == WorkSpec => []WorkTypeOK
<1>1. WorkInit => Init /\ ShareInv /\ ConfinementTypeOK
  BY ShareInitInv, ConfinementInitTyped DEF WorkInit
<1>2. ShareInv => FairTypeOK
  BY ShareInvIsTypeOK
<1>3. GangTypeOK /\ FairTypeOK /\ ConfinementTypeOK => WorkTypeOK
  BY DEF WorkTypeOK
<1>4. WorkSpec => Spec
  BY <1>1, PartsMove, PTL DEF WorkSpec, Spec
<1>5. WorkSpec => []ShareInv
  BY <1>1, PartsMove, ShareStep, PTL DEF WorkSpec
<1>6. WorkSpec => []ConfinementTypeOK
  BY <1>1, PartsMove, ConfinementStays, PTL DEF WorkSpec
<1> QED  BY <1>2, <1>3, <1>4, <1>5, <1>6, GangTypeCorrect, PTL

=============================================================================
