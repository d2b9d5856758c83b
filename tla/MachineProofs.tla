--------------------------- MODULE MachineProofs ---------------------------
(***************************************************************************)
(* Proofs about what an agent does on its machine: that a move deletes a   *)
(* file only after its destination has it, for any machines and any number *)
(* of transfers, as long as no number is taken for another transfer; that  *)
(* no clean-up takes the container of a job that runs, nor leaves one that *)
(* nobody will ever look for; and that srun tells the truth about its job, *)
(* for any machines, output, sizes and faults.                             *)
(***************************************************************************)
EXTENDS Transfers, Machine, Streams, TLAPS

(*-------------------------------------------------------------------------*)
(* File transfer                                                           *)
(*-------------------------------------------------------------------------*)
(* Queues of actions and lists of results *)

In(q) == {q[i] : i \in DOMAIN q}

LEMMA QueueIs ==
  \* What the operations on a sequence do to what is in it.
  ASSUME NEW S, NEW q \in Seq(S)
  PROVE  /\ <<>> \in Seq(S) /\ In(<<>>) = {}
         /\ \A x \in S : Append(q, x) \in Seq(S) /\ In(Append(q, x)) = In(q) \cup {x}
         /\ q # <<>> => /\ Head(q) \in S /\ Head(q) \in In(q)
                        /\ Tail(q) \in Seq(S) /\ In(Tail(q)) \subseteq In(q)
         /\ In(q) \subseteq S
<1>1. <<>> \in Seq(S) /\ In(<<>>) = {}
  BY DEF In
<1>2. ASSUME NEW x \in S PROVE Append(q, x) \in Seq(S) /\ In(Append(q, x)) = In(q) \cup {x}
  <2>1. /\ Append(q, x) \in Seq(S) /\ DOMAIN Append(q, x) = 1..(Len(q) + 1) /\ DOMAIN q = 1..Len(q)
        /\ Append(q, x)[Len(q) + 1] = x /\ \A i \in 1..Len(q) : Append(q, x)[i] = q[i]
        /\ Len(q) \in Nat
    OBVIOUS
  <2>2. In(Append(q, x)) \subseteq In(q) \cup {x}
    BY <2>1 DEF In
  <2>3. x \in In(Append(q, x))
    BY <2>1 DEF In
  <2>4. In(q) \subseteq In(Append(q, x))
    BY <2>1 DEF In
  <2> QED  BY <2>1, <2>2, <2>3, <2>4
<1>3. ASSUME q # <<>>
      PROVE  Head(q) \in S /\ Head(q) \in In(q) /\ Tail(q) \in Seq(S) /\ In(Tail(q)) \subseteq In(q)
  <2>1. /\ Head(q) = q[1] /\ 1 \in DOMAIN q /\ Tail(q) \in Seq(S) /\ Head(q) \in S
        /\ DOMAIN q = 1..Len(q) /\ DOMAIN Tail(q) = 1..(Len(q) - 1) /\ Len(q) \in Nat
        /\ \A i \in 1..(Len(q) - 1) : Tail(q)[i] = q[i + 1]
    BY <1>3
  <2>2. In(Tail(q)) \subseteq In(q)
    BY <2>1 DEF In
  <2> QED  BY <2>1, <2>2 DEF In
<1>4. In(q) \subseteq S
  BY DEF In
<1> QED  BY <1>1, <1>2, <1>3, <1>4

-----------------------------------------------------------------------------
(* Types *)

LEMMA NoTransferTyped == NoTransfer \in TransferRec
BY TransfersAssumption DEF NoTransfer, TransferRec

LEMMA EnqueuedIs ==
  \* One action more for one machine.
  ASSUME NEW q \in [Places -> Seq(Action)], NEW n, NEW kind \in Kinds,
         NEW i \in Numbers, NEW name \in Numbers
  PROVE  /\ Enqueued(q, n, kind, i, name) \in [Places -> Seq(Action)]
         /\ \A m \in Places : In(Enqueued(q, n, kind, i, name)[m]) \subseteq
              In(q[m]) \cup {[kind |-> kind, id |-> i, name |-> name]}
<1> DEFINE a == [kind |-> kind, id |-> i, name |-> name]
<1>1. a \in Action
  BY DEF Action
<1>2. Enqueued(q, n, kind, i, name) = [q EXCEPT ![n] = Append(q[n], a)]
  BY DEF Enqueued
<1> HIDE DEF a
<1>3. /\ Enqueued(q, n, kind, i, name) \in [Places -> Seq(Action)]
      /\ \A m \in Places : In(Enqueued(q, n, kind, i, name)[m]) \subseteq In(q[m]) \cup {a}
  <2>1. CASE n \in Places
    BY <1>1, <1>2, <2>1, QueueIs
  <2>2. CASE n \notin Places
    BY <1>2, <2>2
  <2> QED  BY <2>1, <2>2
<1> QED  BY <1>3 DEF a

LEMMA CarriedIs ==
  \* The first action is taken off the list, and its result is kept.
  ASSUME TransfersTypeOK, NEW n \in Places, todo[n] # <<>>, NEW ok \in BOOLEAN, Carried(n, ok)
  PROVE  LET a == Head(todo[n])
             r == [kind |-> a.kind, id |-> a.id, name |-> a.name, ok |-> ok]
         IN  /\ a \in Action /\ a \in In(todo[n])
             /\ todo' \in [Places -> Seq(Action)] /\ results' \in [Places -> Seq(Result)]
             /\ \A m \in Places : In(todo'[m]) \subseteq In(todo[m])
             /\ \A m \in Places : m # n => results'[m] = results[m]
             /\ In(results'[n]) = In(results[n]) \cup {r}
<1> DEFINE a == Head(todo[n])
           r == [kind |-> a.kind, id |-> a.id, name |-> a.name, ok |-> ok]
<1>1. todo \in [Places -> Seq(Action)] /\ results \in [Places -> Seq(Result)]
  BY DEF TransfersTypeOK
<1>2. /\ a \in Action /\ a \in In(todo[n]) /\ Tail(todo[n]) \in Seq(Action)
      /\ In(Tail(todo[n])) \subseteq In(todo[n])
  BY <1>1, QueueIs
<1>3. r \in Result
  BY <1>2 DEF Action, Result
<1>4. todo' = [todo EXCEPT ![n] = Tail(todo[n])] /\ results' = [results EXCEPT ![n] = Append(results[n], r)]
  BY DEF Carried
<1> HIDE DEF r
<1>5. Append(results[n], r) \in Seq(Result) /\ In(Append(results[n], r)) = In(results[n]) \cup {r}
  BY <1>1, <1>3, QueueIs
<1>6. todo' \in [Places -> Seq(Action)] /\ \A m \in Places : In(todo'[m]) \subseteq In(todo[m])
  BY <1>1, <1>2, <1>4
<1>7. /\ results' \in [Places -> Seq(Result)] /\ \A m \in Places : m # n => results'[m] = results[m]
      /\ In(results'[n]) = In(results[n]) \cup {r}
  BY <1>1, <1>4, <1>5
<1> QED  BY <1>2, <1>6, <1>7 DEF r

-----------------------------------------------------------------------------
(* The invariant *)

Ask(a) == a.kind = "remove" /\ a.name \in moves
Told(r) == r.kind = "recv" /\ r.ok

\* Names are given one after the other, numbers never ahead of them; a move is
\* between machines.
Numbering ==
  /\ next <= names /\ moves \subseteq 1..names
  /\ \A i \in Numbers : xfer[i] # NoTransfer =>
       /\ xfer[i].state # "none" /\ xfer[i].name \in 1..names
       /\ xfer[i].move => xfer[i].from \in Places /\ xfer[i].to \in Places
  /\ \A n \in Places : \A a \in In(queue[n]) \cup In(todo[n]) : a.name <= names

\* Until a number is taken for another transfer, the destination of a move has stored
\* the file as soon as anyone is told to delete the original, or reports to have
\* received it.
Backed ==
  ~mixed =>
    \A n \in Places :
      /\ \A a \in In(queue[n]) \cup In(todo[n]) : Ask(a) => got[a.name] # 0
      /\ \A r \in In(results[n]) : Told(r) => got[r.name] # 0

MoveInv == TransfersTypeOK /\ Numbering /\ Backed

LEMMA MoveStarts == TransfersInit => MoveInv
<1> SUFFICES ASSUME TransfersInit PROVE MoveInv
  OBVIOUS
<1>1. \A n \in Places : Empty[n] = <<>> /\ Empty \in [Places -> Seq(Action)] /\ Empty \in [Places -> Seq(Result)]
  BY DEF Empty
<1>2. In(<<>>) = {}
  BY DEF In
<1>3. TransfersTypeOK
  <2>1. /\ todo \in [Places -> Seq(Action)] /\ queue \in [Places -> Seq(Action)]
        /\ results \in [Places -> Seq(Result)]
    BY <1>1 DEF TransfersInit, Empty
  <2>2. xfer \in [Numbers -> TransferRec]
    BY NoTransferTyped DEF TransfersInit
  <2>3. /\ disk \in [Places -> 0..MaxVersions] /\ said \in [Places -> -1..MaxVersions]
        /\ next \in 0..MaxTransfers /\ blob \in [Numbers -> 0..MaxVersions]
        /\ handling \subseteq Places /\ dirty \subseteq Places /\ noted \subseteq Behind /\ unsaid \subseteq Places
    BY TransfersAssumption DEF TransfersInit
  <2>5. onList \in [Places -> BOOLEAN] /\ usage \in [Places -> BOOLEAN] /\ mixed \in BOOLEAN
    BY DEF TransfersInit
  <2>4. /\ names \in 0..MaxTransfers /\ moves \subseteq Numbers
        /\ got \in [Numbers -> 0..MaxVersions]
        /\ versions \in 0..MaxVersions /\ lost \in 0..MaxLost /\ restarts \in 0..MaxRestarts
    BY TransfersAssumption DEF TransfersInit
  <2> QED  BY <2>1, <2>2, <2>3, <2>4, <2>5 DEF TransfersTypeOK
<1>4. Numbering
  BY <1>1, <1>2 DEF TransfersInit, Numbering
<1>5. Backed
  BY <1>1, <1>2 DEF TransfersInit, Backed
<1> QED  BY <1>3, <1>4, <1>5 DEF MoveInv

\* A transfer is the same afterwards, in a state perhaps, or forgotten.
Follows(i) ==
  \/ xfer'[i] = NoTransfer
  \/ /\ xfer[i] # NoTransfer /\ xfer'[i].state # "none" /\ xfer'[i].name = xfer[i].name
     /\ xfer'[i].move = xfer[i].move /\ xfer'[i].from = xfer[i].from /\ xfer'[i].to = xfer[i].to

LEMMA Kept ==
  \* What a step that names no transfer has to show for the invariant: transfers
  \* are the same or forgotten, and what is new to a queue or a list of results
  \* keeps the promise.
  ASSUME Numbering, Backed, names' = names, moves' = moves, next' <= names, mixed => mixed',
         \A i \in Numbers : got[i] # 0 => got'[i] # 0,
         \A i \in Numbers : Follows(i),
         \A m \in Places : \A a \in In(queue'[m]) \cup In(todo'[m]) :
           \/ a \in In(queue[m]) \cup In(todo[m])
           \/ a.name <= names /\ (~mixed' /\ Ask(a) => got'[a.name] # 0),
         \A m \in Places : \A r \in In(results'[m]) :
           r \in In(results[m]) \/ (~mixed' /\ Told(r) => got'[r.name] # 0),
         TransfersTypeOK
  PROVE  Numbering' /\ Backed'
<1>0. /\ \A m \in Places : \A a \in In(queue[m]) \cup In(todo[m]) : a.name \in Numbers
      /\ \A m \in Places : \A r \in In(results[m]) : r.name \in Numbers
  <2>1. /\ \A m \in Places : queue[m] \in Seq(Action) /\ todo[m] \in Seq(Action) /\ results[m] \in Seq(Result)
    BY DEF TransfersTypeOK
  <2>2. \A m \in Places : In(queue[m]) \subseteq Action /\ In(todo[m]) \subseteq Action /\ In(results[m]) \subseteq Result
    BY <2>1, QueueIs
  <2> QED  BY <2>2 DEF Action, Result
<1>1. Numbering'
  BY DEF Numbering, Follows
<1>2. Backed'
  BY <1>0 DEF Backed, Ask, Told
<1> QED  BY <1>1, <1>2

-----------------------------------------------------------------------------
(* Every action keeps it *)

AgentsTyped ==
  /\ disk \in [Places -> 0..MaxVersions] /\ said \in [Places -> -1..MaxVersions] /\ dirty \subseteq Places
  /\ todo \in [Places -> Seq(Action)] /\ results \in [Places -> Seq(Result)]
RelayTyped ==
  /\ xfer \in [Numbers -> TransferRec] /\ next \in 0..MaxTransfers /\ blob \in [Numbers -> 0..MaxVersions]
  /\ queue \in [Places -> Seq(Action)] /\ handling \subseteq Places
IndexTyped == onList \in [Places -> BOOLEAN] /\ usage \in [Places -> BOOLEAN] /\ noted \subseteq Behind
HistoryTyped ==
  /\ names \in 0..MaxTransfers /\ moves \subseteq Numbers
  /\ got \in [Numbers -> 0..MaxVersions] /\ unsaid \subseteq Places
  /\ versions \in 0..MaxVersions /\ lost \in 0..MaxLost /\ restarts \in 0..MaxRestarts
DoubtTyped == mixed \in BOOLEAN

LEMMA TypeParts ==
  TransfersTypeOK <=> AgentsTyped /\ RelayTyped /\ IndexTyped /\ HistoryTyped /\ DoubtTyped
BY DEF TransfersTypeOK, AgentsTyped, RelayTyped, IndexTyped, HistoryTyped, DoubtTyped

LEMMA TypePartsNext ==
  TransfersTypeOK' <=> AgentsTyped' /\ RelayTyped' /\ IndexTyped' /\ HistoryTyped' /\ DoubtTyped'
BY DEF TransfersTypeOK, AgentsTyped, RelayTyped, IndexTyped, HistoryTyped, DoubtTyped

LEMMA Unmoved ==
  \* A step that leaves the relay, what machines are to do and what was seen alone,
  \* and at most drops results.
  ASSUME TransfersTypeOK, Numbering, Backed, UNCHANGED <<xfer, next, queue, todo, names, moves, got, mixed>>,
         \A m \in Places : In(results'[m]) \subseteq In(results[m])
  PROVE  Numbering' /\ Backed'
<1>1. next <= names
  BY DEF Numbering
<1>2. \A i \in Numbers : xfer[i] # NoTransfer => xfer[i].state # "none"
  BY DEF Numbering
<1>3. \A i \in Numbers : Follows(i)
  BY <1>2 DEF Follows
<1> QED  BY <1>1, <1>3, Kept

LEMMA WriteKeeps == ASSUME MoveInv, NEW n \in Places, Write(n) PROVE MoveInv'
<1>1. AgentsTyped /\ RelayTyped /\ IndexTyped /\ HistoryTyped /\ DoubtTyped /\ TransfersTypeOK /\ Numbering /\ Backed
  BY TypeParts DEF MoveInv
<1>2. UNCHANGED <<todo, results, dirty, said, relayVars, indexVars, names, moves, got, mixed, unsaid, lost, restarts>>
  BY DEF Write
<1>3. RelayTyped' /\ IndexTyped' /\ DoubtTyped'
  BY <1>1, <1>2 DEF RelayTyped, IndexTyped, DoubtTyped, relayVars, indexVars
<1>4. AgentsTyped' /\ HistoryTyped'
  BY <1>1, TransfersAssumption DEF AgentsTyped, HistoryTyped, Write
<1>5. Numbering' /\ Backed'
  BY <1>1, <1>2, Unmoved DEF relayVars
<1> QED  BY <1>3, <1>4, <1>5, TypePartsNext DEF MoveInv

LEMMA DeleteKeeps == ASSUME MoveInv, NEW n \in Places, Delete(n) PROVE MoveInv'
<1>1. AgentsTyped /\ RelayTyped /\ IndexTyped /\ HistoryTyped /\ DoubtTyped /\ TransfersTypeOK /\ Numbering /\ Backed
  BY TypeParts DEF MoveInv
<1>2. UNCHANGED <<todo, results, dirty, said, relayVars, indexVars, xferHistory>>
  BY DEF Delete
<1>3. RelayTyped' /\ IndexTyped' /\ DoubtTyped' /\ HistoryTyped'
  BY <1>1, <1>2 DEF RelayTyped, IndexTyped, DoubtTyped, HistoryTyped, relayVars, indexVars, xferHistory
<1>4. AgentsTyped'
  BY <1>1, TransfersAssumption DEF AgentsTyped, Delete
<1>5. Numbering' /\ Backed'
  BY <1>1, <1>2, Unmoved DEF relayVars, xferHistory
<1> QED  BY <1>3, <1>4, <1>5, TypePartsNext DEF MoveInv

LEMMA RequestKeeps ==
  \* A name that is not in use yet is nobody's promise.
  ASSUME MoveInv,
         NEW from \in Places \cup {Here}, NEW to \in Places \cup {Here}, NEW move \in BOOLEAN,
         move => from \in Places /\ to \in Places,
         NEW state \in {"sending", "staged"}, NEW n \in Places, NEW kind \in Kinds,
         kind = "remove" => ~move,
         BeginTransfer(from, to, move, state, n, kind),
         UNCHANGED <<diskVars, handling, indexVars, got, mixed, unsaid, lost, restarts>>,
         blob' \in [Numbers -> 0..MaxVersions], versions' \in 0..MaxVersions
  PROVE  MoveInv'
<1>1. AgentsTyped /\ RelayTyped /\ IndexTyped /\ HistoryTyped /\ DoubtTyped /\ TransfersTypeOK /\ Numbering /\ Backed /\ next <= names
  BY TypeParts DEF MoveInv, Numbering
<1> DEFINE a == [kind |-> kind, id |-> next + 1, name |-> names + 1]
<1> DEFINE t == [state |-> state, from |-> from, to |-> to, move |-> move, name |-> names + 1]
<1>2. /\ next + 1 \in Numbers /\ names + 1 \in Numbers
      /\ names' = names + 1 /\ next' = next + 1
      /\ moves' \subseteq moves \cup {names + 1} /\ moves' \subseteq Numbers
      /\ move => moves' = moves \cup {names + 1}
      /\ ~move => moves' = moves
      /\ xfer' \in [Numbers -> TransferRec]
      /\ xfer' = [xfer EXCEPT ![next + 1] = t]
      /\ queue' \in [Places -> Seq(Action)]
      /\ \A m \in Places : In(queue'[m]) \subseteq In(queue[m]) \cup {a}
  <2>1. /\ next \in 0..MaxTransfers /\ names \in 0..MaxTransfers /\ names < MaxTransfers
        /\ xfer \in [Numbers -> TransferRec] /\ queue \in [Places -> Seq(Action)]
        /\ moves \subseteq Numbers
    BY <1>1 DEF RelayTyped, HistoryTyped, BeginTransfer
  <2>2. next + 1 \in Numbers /\ names + 1 \in Numbers /\ names + 1 \in 0..MaxTransfers
    BY <1>1, <2>1, TransfersAssumption DEF Numbers
  <2>3. t \in TransferRec
    BY <2>2 DEF TransferRec
  <2>4. xfer' = [xfer EXCEPT ![next + 1] = t]
    BY DEF BeginTransfer
  <2>5. a \in Action
    BY <2>2 DEF Action
  <2>6. queue' = [queue EXCEPT ![n] = Append(queue[n], a)]
    BY DEF BeginTransfer, Enqueued
  <2>7. /\ names' = names + 1 /\ next' = next + 1
        /\ moves' = IF move THEN moves \cup {names + 1} ELSE moves
    BY DEF BeginTransfer
  <2> HIDE DEF a, t
  <2>8. queue' \in [Places -> Seq(Action)] /\ \A m \in Places : In(queue'[m]) \subseteq In(queue[m]) \cup {a}
    BY <2>1, <2>5, <2>6, QueueIs
  <2>9. xfer' \in [Numbers -> TransferRec]
    BY <2>1, <2>3, <2>4
  <2> QED  BY <2>1, <2>2, <2>4, <2>7, <2>8, <2>9
<1>3. AgentsTyped' /\ IndexTyped' /\ DoubtTyped'
  BY <1>1 DEF AgentsTyped, IndexTyped, DoubtTyped, diskVars, indexVars
<1>4. RelayTyped' /\ HistoryTyped'
  <2>1. next' \in 0..MaxTransfers /\ names' \in 0..MaxTransfers
    BY <1>1, <1>2, TransfersAssumption DEF RelayTyped, HistoryTyped, Numbers
  <2>2. UNCHANGED <<handling, got, unsaid, lost, restarts>>
    OBVIOUS
  <2> QED  BY <1>1, <1>2, <2>1, <2>2 DEF RelayTyped, HistoryTyped
<1>5. Numbering'
  <2>1. names \in Nat /\ next \in Nat
    BY <1>1, TransfersAssumption DEF HistoryTyped, RelayTyped
  <2>2. next' <= names' /\ moves' \subseteq 1..names'
    BY <1>1, <1>2, <2>1, SMTT(60) DEF Numbering
  <2>3. \A i \in Numbers : xfer'[i] # NoTransfer =>
          /\ xfer'[i].state # "none" /\ xfer'[i].name \in 1..names'
          /\ xfer'[i].move => xfer'[i].from \in Places /\ xfer'[i].to \in Places
    <3> SUFFICES ASSUME NEW i \in Numbers, xfer'[i] # NoTransfer
                 PROVE  /\ xfer'[i].state # "none" /\ xfer'[i].name \in 1..names'
                        /\ xfer'[i].move => xfer'[i].from \in Places /\ xfer'[i].to \in Places
      OBVIOUS
    <3>1. CASE i = next + 1
      <4>1. xfer'[i] = t
        BY <1>1, <1>2, <3>1 DEF RelayTyped
      <4>2. t.state # "none" /\ t.name \in 1..names' /\ (t.move => t.from \in Places /\ t.to \in Places)
        BY <1>2, <2>1
      <4> QED  BY <4>1, <4>2
    <3>2. CASE i # next + 1
      <4>1. xfer'[i] = xfer[i]
        BY <1>1, <1>2, <3>2 DEF RelayTyped
      <4> QED  BY <1>1, <1>2, <2>1, <4>1 DEF Numbering
    <3> QED  BY <3>1, <3>2
  <2>4. \A m \in Places : \A b \in In(queue'[m]) \cup In(todo'[m]) : b.name <= names'
    <3> SUFFICES ASSUME NEW m \in Places, NEW b \in In(queue'[m]) \cup In(todo'[m]) PROVE b.name <= names'
      OBVIOUS
    <3>1. b = a \/ b \in In(queue[m]) \cup In(todo[m])
      BY <1>2 DEF diskVars
    <3>2. CASE b = a
      BY <1>2, <2>1, <3>2
    <3>3. CASE b \in In(queue[m]) \cup In(todo[m])
      <4>1. b \in Action
        BY <1>1, <3>3, QueueIs DEF AgentsTyped, RelayTyped
      <4>2. b.name \in Nat /\ b.name <= names
        BY <1>1, <3>3, <4>1 DEF Numbering, Action, Numbers
      <4> QED  BY <1>2, <2>1, <4>2
    <3> QED  BY <3>1, <3>2, <3>3
  <2> QED  BY <2>2, <2>3, <2>4 DEF Numbering
<1>6. Backed'
  <2> SUFFICES ASSUME ~mixed'
               PROVE  \A m \in Places :
                        /\ \A b \in In(queue'[m]) \cup In(todo'[m]) : Ask(b)' => got'[b.name] # 0
                        /\ \A r \in In(results'[m]) : Told(r) => got'[r.name] # 0
    BY DEF Backed, Told
  <2>1. ~mixed /\ got' = got /\ results' = results /\ todo' = todo
    BY DEF diskVars
  <2>2. ASSUME NEW m \in Places, NEW b \in In(queue'[m]) \cup In(todo'[m]), Ask(b)' PROVE got'[b.name] # 0
    <3>1. b = a \/ b \in In(queue[m]) \cup In(todo[m])
      BY <1>2, <2>1
    <3>2. names \in Nat /\ moves \subseteq 1..names
      BY <1>1, TransfersAssumption DEF HistoryTyped, Numbering
    <3>3. CASE b = a
      BY <1>2, <2>2, <3>2, <3>3 DEF Ask
    <3>4. CASE b \in In(queue[m]) \cup In(todo[m])
      <4>1. b \in Action
        BY <1>1, <3>4, QueueIs DEF AgentsTyped, RelayTyped
      <4>2. b.name \in Nat /\ b.name <= names
        BY <1>1, <3>4, <4>1 DEF Numbering, Action, Numbers
      <4>3. Ask(b)
        BY <1>2, <2>2, <3>2, <4>2 DEF Ask
      <4> QED  BY <1>1, <2>1, <3>4, <4>3 DEF Backed
    <3> QED  BY <3>1, <3>3, <3>4
  <2> QED  BY <1>1, <2>1, <2>2 DEF Backed
<1> QED  BY <1>3, <1>4, <1>5, <1>6, TypePartsNext DEF MoveInv

LEMMA RequestsKeep ==
  \* Whatever is asked for gets a new name.
  ASSUME MoveInv, NEW n \in Places,
         \/ \E to \in Places, move \in BOOLEAN : StartTransfer(n, to, move)
         \/ StartFetch(n) \/ QueueFileRemove(n) \/ StageUpload(n)
  PROVE  MoveInv'
<1>1. AgentsTyped /\ RelayTyped /\ IndexTyped /\ HistoryTyped /\ DoubtTyped /\ TransfersTypeOK /\ Numbering /\ Backed
  BY TypeParts DEF MoveInv
<1>2. Here \in Places \cup {Here} /\ n \in Places \cup {Here} /\ "send" \in Kinds /\ "recv" \in Kinds /\ "remove" \in Kinds
      /\ "sending" \in {"sending", "staged"} /\ "staged" \in {"sending", "staged"} /\ FALSE \in BOOLEAN
  BY DEF Kinds
<1>3. blob \in [Numbers -> 0..MaxVersions] /\ versions \in 0..MaxVersions
  BY <1>1 DEF RelayTyped, HistoryTyped
<1>4. ASSUME NEW to \in Places, NEW move \in BOOLEAN, StartTransfer(n, to, move) PROVE MoveInv'
  <2>1. /\ BeginTransfer(n, to, move, "sending", n, "send")
        /\ UNCHANGED <<diskVars, blob, handling, indexVars, got, mixed, unsaid, versions, lost, restarts>>
    BY <1>4 DEF StartTransfer
  <2>2. UNCHANGED <<diskVars, handling, indexVars, got, mixed, unsaid, lost, restarts>>
        /\ blob' \in [Numbers -> 0..MaxVersions] /\ versions' \in 0..MaxVersions
    BY <1>3, <2>1
  <2>3. to \in Places \cup {Here}
    OBVIOUS
  <2> QED  BY <1>2, <2>1, <2>2, <2>3, RequestKeeps
<1>5. ASSUME StartFetch(n) PROVE MoveInv'
  <2>1. /\ BeginTransfer(n, Here, FALSE, "sending", n, "send")
        /\ UNCHANGED <<diskVars, blob, handling, indexVars, got, mixed, unsaid, versions, lost, restarts>>
    BY <1>5 DEF StartFetch
  <2>2. UNCHANGED <<diskVars, handling, indexVars, got, mixed, unsaid, lost, restarts>>
        /\ blob' \in [Numbers -> 0..MaxVersions] /\ versions' \in 0..MaxVersions
    BY <1>3, <2>1
  <2> QED  BY <1>2, <2>1, <2>2, RequestKeeps
<1>6. ASSUME QueueFileRemove(n) PROVE MoveInv'
  <2>1. /\ BeginTransfer(n, Here, FALSE, "sending", n, "remove")
        /\ UNCHANGED <<diskVars, blob, handling, indexVars, got, mixed, unsaid, versions, lost, restarts>>
    BY <1>6 DEF QueueFileRemove
  <2>2. UNCHANGED <<diskVars, handling, indexVars, got, mixed, unsaid, lost, restarts>>
        /\ blob' \in [Numbers -> 0..MaxVersions] /\ versions' \in 0..MaxVersions
    BY <1>3, <2>1
  <2> QED  BY <1>2, <2>1, <2>2, RequestKeeps
<1>7. ASSUME StageUpload(n) PROVE MoveInv'
  <2>1. /\ BeginTransfer(Here, n, FALSE, "staged", n, "recv")
        /\ UNCHANGED <<diskVars, handling, indexVars, got, mixed, unsaid, lost, restarts>>
    BY <1>7 DEF StageUpload
  <2>2. versions' \in 0..MaxVersions /\ blob' = [blob EXCEPT ![next'] = versions']
    BY <1>3, <1>7, TransfersAssumption DEF StageUpload
  <2>3. blob' \in [Numbers -> 0..MaxVersions]
    BY <1>3, <2>2
  <2> QED  BY <1>2, <2>1, <2>2, <2>3, RequestKeeps
<1> QED  BY <1>4, <1>5, <1>6, <1>7

LEMMA FinishFetchKeeps == ASSUME MoveInv, NEW i \in Numbers, FinishFetch(i) PROVE MoveInv'
<1>1. AgentsTyped /\ RelayTyped /\ IndexTyped /\ HistoryTyped /\ DoubtTyped /\ TransfersTypeOK /\ Numbering /\ Backed
  BY TypeParts DEF MoveInv
<1>2. /\ xfer[i].state = "staged"
      /\ xfer' = [xfer EXCEPT ![i] = [xfer[i] EXCEPT !.state = "done"]] /\ blob' = [blob EXCEPT ![i] = 0]
      /\ UNCHANGED <<diskVars, next, queue, handling, indexVars, xferHistory>>
  BY DEF FinishFetch
<1>3. AgentsTyped' /\ IndexTyped' /\ DoubtTyped' /\ HistoryTyped'
  BY <1>1, <1>2 DEF AgentsTyped, IndexTyped, DoubtTyped, HistoryTyped, diskVars, indexVars, xferHistory
<1>4. xfer \in [Numbers -> TransferRec] /\ xfer[i] \in TransferRec
  BY <1>1 DEF RelayTyped
<1>5. [xfer[i] EXCEPT !.state = "done"] \in TransferRec
  BY <1>4 DEF TransferRec
<1>6. RelayTyped'
  BY <1>1, <1>2, <1>4, <1>5, TransfersAssumption DEF RelayTyped
<1>7. xfer[i] # NoTransfer
  BY <1>2 DEF NoTransfer
<1>8. ASSUME NEW j \in Numbers PROVE Follows(j)
  <2>1. CASE j = i
    BY <1>2, <1>4, <1>7, <2>1 DEF TransferRec, Follows
  <2>2. CASE j # i
    BY <1>1, <1>2, <1>4, <2>2 DEF Numbering, Follows
  <2> QED  BY <2>1, <2>2
<1>9. Numbering' /\ Backed'
  <2>1. next' <= names
    BY <1>1, <1>2 DEF Numbering
  <2>2. UNCHANGED <<queue, todo, results, names, moves, got, mixed>>
    BY <1>2 DEF diskVars, xferHistory
  <2> QED  BY <1>1, <1>8, <2>1, <2>2, Kept
<1> QED  BY <1>3, <1>6, <1>9, TypePartsNext DEF MoveInv

LEMMA expireTransferKeeps == ASSUME MoveInv, NEW i \in Numbers, expireTransfer(i) PROVE MoveInv'
<1>1. AgentsTyped /\ RelayTyped /\ IndexTyped /\ HistoryTyped /\ DoubtTyped /\ TransfersTypeOK /\ Numbering /\ Backed
  BY TypeParts DEF MoveInv
<1>2. /\ xfer' = [xfer EXCEPT ![i] = NoTransfer]
      /\ blob' = IF xfer[i].state = "done" THEN blob ELSE [blob EXCEPT ![i] = 0]
      /\ UNCHANGED <<diskVars, next, queue, handling, indexVars, xferHistory>>
  BY DEF expireTransfer
<1>3. AgentsTyped' /\ IndexTyped' /\ DoubtTyped' /\ HistoryTyped'
  BY <1>1, <1>2 DEF AgentsTyped, IndexTyped, DoubtTyped, HistoryTyped, diskVars, indexVars, xferHistory
<1>4. RelayTyped'
  BY <1>1, <1>2, NoTransferTyped, TransfersAssumption DEF RelayTyped
<1>5. ASSUME NEW j \in Numbers PROVE Follows(j)
  BY <1>1, <1>2 DEF RelayTyped, Numbering, Follows
<1>6. Numbering' /\ Backed'
  <2>1. next' <= names
    BY <1>1, <1>2 DEF Numbering
  <2>2. UNCHANGED <<queue, todo, results, names, moves, got, mixed>>
    BY <1>2 DEF diskVars, xferHistory
  <2> QED  BY <1>1, <1>5, <2>1, <2>2, Kept
<1> QED  BY <1>3, <1>4, <1>6, TypePartsNext DEF MoveInv

LEMMA Passed ==
  \* Where a request goes on or ends, the transfer keeps its parties and its name.
  ASSUME MoveInv, NEW i \in Numbers, xfer[i].state # "none", NEW state \in {"staged", "done", "failed"},
         xfer' = [xfer EXCEPT ![i].state = state]
  PROVE  xfer' \in [Numbers -> TransferRec] /\ \A j \in Numbers : Follows(j)
<1>1. xfer \in [Numbers -> TransferRec] /\ xfer[i] \in TransferRec /\ Numbering
  BY DEF MoveInv, TransfersTypeOK
<1>2. xfer' = [xfer EXCEPT ![i] = [xfer[i] EXCEPT !.state = state]]
  OBVIOUS
<1>3. [xfer[i] EXCEPT !.state = state] \in TransferRec
  BY <1>1 DEF TransferRec
<1>4. xfer[i] # NoTransfer
  BY DEF NoTransfer
<1>5. ASSUME NEW j \in Numbers PROVE Follows(j)
  <2>1. CASE j = i
    BY <1>1, <1>2, <1>4, <2>1 DEF TransferRec, Follows
  <2>2. CASE j # i
    BY <1>1, <1>2, <2>2 DEF Numbering, Follows
  <2> QED  BY <2>1, <2>2
<1> QED  BY <1>1, <1>2, <1>3, <1>5

LEMMA SendFileKeeps == ASSUME MoveInv, NEW n \in Places, SendFile(n) PROVE MoveInv'
<1>1. AgentsTyped /\ RelayTyped /\ IndexTyped /\ HistoryTyped /\ DoubtTyped /\ TransfersTypeOK /\ Numbering /\ Backed
  BY TypeParts DEF MoveInv
<1> DEFINE a == Head(todo[n])
<1> DEFINE ok == disk[n] # 0 /\ transferFor(a.id, n, "sending")
<1> DEFINE r == [kind |-> a.kind, id |-> a.id, name |-> a.name, ok |-> ok]
<1>2. /\ todo[n] # <<>> /\ a.kind = "send" /\ Carried(n, ok) /\ ok \in BOOLEAN
      /\ UNCHANGED <<disk, dirty, said, next, handling, indexVars, names, moves, got, unsaid, versions, lost, restarts>>
  BY DEF SendFile, First
<1>3. /\ ok => StageTransfer(a.id, disk[n]) /\ mixed' = (mixed \/ a.name # xfer[a.id].name)
      /\ ~ok => UNCHANGED <<xfer, blob, queue, mixed>>
  BY DEF SendFile
<1>4. /\ a \in Action /\ a \in In(todo[n])
      /\ todo' \in [Places -> Seq(Action)] /\ results' \in [Places -> Seq(Result)]
      /\ \A m \in Places : In(todo'[m]) \subseteq In(todo[m])
      /\ \A m \in Places : m # n => results'[m] = results[m]
      /\ In(results'[n]) = In(results[n]) \cup {r}
  <2> HIDE DEF ok
  <2> QED  BY <1>1, <1>2, CarriedIs
<1>5. AgentsTyped' /\ IndexTyped' /\ HistoryTyped'
  BY <1>1, <1>2, <1>4 DEF AgentsTyped, IndexTyped, HistoryTyped, indexVars
<1>6. DoubtTyped'
  BY <1>1, <1>2, <1>3 DEF DoubtTyped
<1>7. /\ xfer' \in [Numbers -> TransferRec] /\ \A j \in Numbers : Follows(j)
      /\ blob' \in [Numbers -> 0..MaxVersions] /\ queue' \in [Places -> Seq(Action)]
      /\ \A m \in Places : \A b \in In(queue'[m]) : b \in In(queue[m]) \/ (b.name <= names /\ ~Ask(b))
  <2>1. CASE ~ok
    <3>1. UNCHANGED <<xfer, blob, queue>>
      BY <1>3, <2>1
    <3>2. ASSUME NEW j \in Numbers PROVE Follows(j)
      BY <1>1, <3>1 DEF Follows, Numbering
    <3> QED  BY <1>1, <3>1, <3>2 DEF RelayTyped
  <2>2. CASE ok
    <3>1. a.id \in Numbers /\ disk[n] \in 0..MaxVersions
      BY <1>1, <1>4 DEF Action, AgentsTyped
    <3>2. xfer[a.id].state = "sending"
      BY <2>2 DEF transferFor
    <3>3. /\ xfer' = [xfer EXCEPT ![a.id].state = "staged"]
          /\ blob' = [blob EXCEPT ![a.id] = disk[n]]
          /\ queue' = IF xfer[a.id].to = Here THEN queue
                      ELSE Enqueued(queue, xfer[a.id].to, "recv", a.id, xfer[a.id].name)
      BY <1>3, <2>2 DEF StageTransfer
    <3>4. xfer' \in [Numbers -> TransferRec] /\ \A j \in Numbers : Follows(j)
      <4> HIDE DEF a, ok, r
      <4> QED  BY <3>1, <3>2, <3>3, Passed
    <3>5. blob' \in [Numbers -> 0..MaxVersions]
      BY <1>1, <3>1, <3>3 DEF RelayTyped
    <3>6. xfer[a.id].name \in Numbers /\ xfer[a.id].name <= names
      BY <1>1, <3>1, <3>2, TransfersAssumption DEF Numbering, Numbers, NoTransfer, HistoryTyped
    <3>7. /\ queue' \in [Places -> Seq(Action)]
          /\ \A m \in Places : \A b \in In(queue'[m]) : b \in In(queue[m]) \/ (b.name <= names /\ ~Ask(b))
      <4>1. CASE xfer[a.id].to = Here
        BY <1>1, <3>3, <4>1 DEF RelayTyped
      <4>2. CASE xfer[a.id].to # Here
        <5> DEFINE c == [kind |-> "recv", id |-> a.id, name |-> xfer[a.id].name]
        <5>1. queue \in [Places -> Seq(Action)] /\ "recv" \in Kinds
              /\ queue' = Enqueued(queue, xfer[a.id].to, "recv", a.id, xfer[a.id].name)
          BY <1>1, <3>3, <4>2, SMTT(60) DEF RelayTyped, Kinds
        <5>2. queue' \in [Places -> Seq(Action)] /\ \A m \in Places : In(queue'[m]) \subseteq In(queue[m]) \cup {c}
          BY <3>1, <3>6, <5>1, EnqueuedIs
        <5>3. c.name <= names /\ ~Ask(c)
          BY <3>6 DEF Ask
        <5> HIDE DEF c
        <5> QED  BY <5>2, <5>3
      <4> QED  BY <4>1, <4>2
    <3> QED  BY <3>4, <3>5, <3>7
  <2> QED  BY <2>1, <2>2
<1>8. RelayTyped'
  BY <1>1, <1>2, <1>7 DEF RelayTyped
<1>9. Numbering' /\ Backed'
  <2>1. next' <= names
    BY <1>1, <1>2 DEF Numbering
  <2>6. mixed => mixed'
    <3> HIDE DEF ok, a
    <3> QED  BY <1>3
  <2>2. \A m \in Places : \A b \in In(queue'[m]) \cup In(todo'[m]) :
          \/ b \in In(queue[m]) \cup In(todo[m])
          \/ b.name <= names /\ (~mixed' /\ Ask(b) => got'[b.name] # 0)
    BY <1>4, <1>7
  <2>3. ~Told(r)
    BY <1>2 DEF Told
  <2>4. \A m \in Places : \A x \in In(results'[m]) : x \in In(results[m]) \/ ~Told(x)
    <3> HIDE DEF r
    <3> QED  BY <1>4, <2>3
  <2>5. \A i \in Numbers : got[i] # 0 => got'[i] # 0
    BY <1>2
  <2> HIDE DEF r, ok, a
  <2> QED  BY <1>1, <1>2, <1>7, <2>1, <2>2, <2>4, <2>5, <2>6, Kept
<1> QED  BY <1>5, <1>6, <1>8, <1>9, TypePartsNext DEF MoveInv

LEMMA RelayFailsKeeps == ASSUME MoveInv, NEW n \in Places, RelayFails(n) PROVE MoveInv'
<1>1. AgentsTyped /\ RelayTyped /\ IndexTyped /\ HistoryTyped /\ DoubtTyped /\ TransfersTypeOK /\ Numbering /\ Backed
  BY TypeParts DEF MoveInv
<1> DEFINE a == Head(todo[n])
<1> DEFINE r == [kind |-> a.kind, id |-> a.id, name |-> a.name, ok |-> FALSE]
<1>2. /\ todo[n] # <<>> /\ Carried(n, FALSE) /\ transferFor(a.id, n, "sending")
      /\ xfer' = [xfer EXCEPT ![a.id].state = "failed"] /\ lost < MaxLost /\ lost' = lost + 1
      /\ UNCHANGED <<disk, dirty, said, next, blob, queue, handling, indexVars,
                     names, moves, got, mixed, unsaid, versions, restarts>>
  BY DEF RelayFails, First
<1>4. /\ a \in Action /\ a \in In(todo[n])
      /\ todo' \in [Places -> Seq(Action)] /\ results' \in [Places -> Seq(Result)]
      /\ \A m \in Places : In(todo'[m]) \subseteq In(todo[m])
      /\ \A m \in Places : m # n => results'[m] = results[m]
      /\ In(results'[n]) = In(results[n]) \cup {r}
  BY <1>1, <1>2, CarriedIs
<1>5. AgentsTyped' /\ IndexTyped' /\ DoubtTyped'
  BY <1>1, <1>2, <1>4 DEF AgentsTyped, IndexTyped, DoubtTyped, indexVars
<1>6. HistoryTyped'
  BY <1>1, <1>2, TransfersAssumption DEF HistoryTyped
<1>7. xfer' \in [Numbers -> TransferRec] /\ \A j \in Numbers : Follows(j)
  <2>1. a.id \in Numbers /\ xfer[a.id].state # "none"
    BY <1>2, <1>4 DEF Action, transferFor
  <2> HIDE DEF a, r
  <2> QED  BY <1>2, <2>1, Passed
<1>8. RelayTyped'
  BY <1>1, <1>2, <1>7 DEF RelayTyped
<1>9. Numbering' /\ Backed'
  <2>1. next' <= names
    BY <1>1, <1>2 DEF Numbering
  <2>2. ~Told(r)
    BY DEF Told
  <2>3. \A m \in Places : \A x \in In(results'[m]) : x \in In(results[m]) \/ ~Told(x)
    <3> HIDE DEF r
    <3> QED  BY <1>4, <2>2
  <2>4. \A m \in Places : \A b \in In(queue'[m]) \cup In(todo'[m]) : b \in In(queue[m]) \cup In(todo[m])
    BY <1>2, <1>4
  <2>5. UNCHANGED <<names, moves, got, mixed>>
    BY <1>2
  <2> HIDE DEF r, a
  <2> QED  BY <1>1, <1>7, <2>1, <2>3, <2>4, <2>5, Kept
<1> QED  BY <1>5, <1>6, <1>8, <1>9, TypePartsNext DEF MoveInv

LEMMA RecvFileKeeps ==
  \* What a machine reports to have received, it has stored.
  ASSUME MoveInv, NEW n \in Places, RecvFile(n) PROVE MoveInv'
<1>1. AgentsTyped /\ RelayTyped /\ IndexTyped /\ HistoryTyped /\ DoubtTyped /\ TransfersTypeOK /\ Numbering /\ Backed
  BY TypeParts DEF MoveInv
<1> DEFINE a == Head(todo[n])
<1> DEFINE ok == OpenTransfer(a.id, n)
<1> DEFINE r == [kind |-> a.kind, id |-> a.id, name |-> a.name, ok |-> ok]
<1>2. /\ todo[n] # <<>> /\ Carried(n, ok)
      /\ UNCHANGED <<said, relayVars, indexVars, names, moves, unsaid, versions, lost, restarts>>
  BY DEF RecvFile, First
<1>3. ok \in BOOLEAN
  BY DEF OpenTransfer, transferFor
<1>4. /\ ok => /\ Put(n, blob[a.id])
                /\ got' = [got EXCEPT ![xfer[a.id].name] = blob[a.id]]
                /\ mixed' = (mixed \/ a.name # xfer[a.id].name)
      /\ ~ok => UNCHANGED <<disk, dirty, got, mixed>>
  BY DEF RecvFile
<1>5. /\ a \in Action /\ a \in In(todo[n])
      /\ todo' \in [Places -> Seq(Action)] /\ results' \in [Places -> Seq(Result)]
      /\ \A m \in Places : In(todo'[m]) \subseteq In(todo[m])
      /\ \A m \in Places : m # n => results'[m] = results[m]
      /\ In(results'[n]) = In(results[n]) \cup {r}
  <2> HIDE DEF ok
  <2> QED  BY <1>1, <1>2, <1>3, CarriedIs
<1>6. a.id \in Numbers /\ blob[a.id] \in 0..MaxVersions
  BY <1>1, <1>5 DEF Action, RelayTyped
<1>7. AgentsTyped' /\ got' \in [Numbers -> 0..MaxVersions]
  <2>1. CASE ok
    BY <1>1, <1>2, <1>4, <1>5, <1>6, <2>1 DEF AgentsTyped, Put, HistoryTyped
  <2>2. CASE ~ok
    BY <1>1, <1>2, <1>4, <1>5, <2>2 DEF AgentsTyped, HistoryTyped
  <2> QED  BY <2>1, <2>2
<1>8. RelayTyped' /\ IndexTyped' /\ HistoryTyped'
  BY <1>1, <1>2, <1>7 DEF RelayTyped, IndexTyped, HistoryTyped, relayVars, indexVars
<1>9. (mixed => mixed') /\ DoubtTyped'
  <2> HIDE DEF ok, a
  <2> QED  BY <1>1, <1>3, <1>4 DEF DoubtTyped
<1>10. \A i \in Numbers : got[i] # 0 => got'[i] # 0
  <2>1. CASE ok
    <3>1. blob[a.id] # 0 /\ got' = [got EXCEPT ![xfer[a.id].name] = blob[a.id]]
      BY <1>4, <2>1 DEF OpenTransfer
    <3> QED  BY <1>1, <3>1 DEF HistoryTyped
  <2>2. CASE ~ok
    BY <1>4, <2>2
  <2> QED  BY <2>1, <2>2
<1>11. ~mixed' /\ Told(r) => got'[r.name] # 0
  <2> SUFFICES ASSUME ~mixed', Told(r) PROVE got'[r.name] # 0
    OBVIOUS
  <2>1. ok
    BY DEF Told
  <2>2. blob[a.id] # 0 /\ got' = [got EXCEPT ![xfer[a.id].name] = blob[a.id]]
    BY <1>4, <2>1 DEF OpenTransfer
  <2>3. a.name = xfer[a.id].name
    <3> HIDE DEF a, ok
    <3> QED  BY <1>4, <2>1
  <2>4. r.name = a.name /\ a.name \in Numbers
    BY <1>5 DEF Action
  <2> QED  BY <1>1, <2>2, <2>3, <2>4 DEF HistoryTyped
<1>12. Numbering' /\ Backed'
  <2>1. next' <= names /\ \A i \in Numbers : xfer[i] # NoTransfer => xfer[i].state # "none"
    BY <1>1, <1>2 DEF Numbering, relayVars
  <2>2. \A i \in Numbers : Follows(i)
    BY <1>2, <2>1 DEF Follows, relayVars
  <2>3. \A m \in Places : \A x \in In(results'[m]) :
          x \in In(results[m]) \/ (~mixed' /\ Told(x) => got'[x.name] # 0)
    <3> HIDE DEF r
    <3> QED  BY <1>5, <1>11
  <2>4. \A m \in Places : \A b \in In(queue'[m]) \cup In(todo'[m]) : b \in In(queue[m]) \cup In(todo[m])
    BY <1>2, <1>5 DEF relayVars
  <2>5. UNCHANGED <<names, moves>>
    BY <1>2
  <2> HIDE DEF r, ok, a
  <2> QED  BY <1>1, <1>9, <1>10, <2>1, <2>2, <2>3, <2>4, <2>5, Kept
<1> QED  BY <1>7, <1>8, <1>9, <1>12, TypePartsNext DEF MoveInv

LEMMA RemoveFileKeeps == ASSUME MoveInv, NEW n \in Places, RemoveFile(n) PROVE MoveInv'
<1>1. AgentsTyped /\ RelayTyped /\ IndexTyped /\ HistoryTyped /\ DoubtTyped /\ TransfersTypeOK /\ Numbering /\ Backed
  BY TypeParts DEF MoveInv
<1> DEFINE a == Head(todo[n])
<1> DEFINE ok == disk[n] # 0
<1> DEFINE r == [kind |-> a.kind, id |-> a.id, name |-> a.name, ok |-> ok]
<1>2. /\ todo[n] # <<>> /\ a.kind = "remove" /\ Carried(n, ok) /\ ok \in BOOLEAN /\ RemoveHere(n)
      /\ UNCHANGED <<said, relayVars, indexVars, xferHistory>>
  BY DEF RemoveFile, First
<1>3. /\ a \in Action /\ a \in In(todo[n])
      /\ todo' \in [Places -> Seq(Action)] /\ results' \in [Places -> Seq(Result)]
      /\ \A m \in Places : In(todo'[m]) \subseteq In(todo[m])
      /\ \A m \in Places : m # n => results'[m] = results[m]
      /\ In(results'[n]) = In(results[n]) \cup {r}
  <2> HIDE DEF ok
  <2> QED  BY <1>1, <1>2, CarriedIs
<1>4. AgentsTyped'
  <2>1. disk' = [disk EXCEPT ![n] = 0] /\ (dirty' = dirty \/ dirty' = dirty \cup {n}) /\ said' = said
    BY <1>2 DEF RemoveHere
  <2>2. disk' \in [Places -> 0..MaxVersions] /\ dirty' \subseteq Places
    BY <1>1, <2>1, TransfersAssumption DEF AgentsTyped
  <2> QED  BY <1>1, <1>3, <2>1, <2>2 DEF AgentsTyped
<1>5. RelayTyped' /\ IndexTyped' /\ HistoryTyped' /\ DoubtTyped'
  BY <1>1, <1>2 DEF RelayTyped, IndexTyped, HistoryTyped, DoubtTyped, relayVars, indexVars, xferHistory
<1>6. Numbering' /\ Backed'
  <2>1. next' <= names /\ \A i \in Numbers : xfer[i] # NoTransfer => xfer[i].state # "none"
    BY <1>1, <1>2 DEF Numbering, relayVars
  <2>2. \A i \in Numbers : Follows(i)
    BY <1>2, <2>1 DEF Follows, relayVars
  <2>3. ~Told(r)
    BY <1>2 DEF Told
  <2>4. \A m \in Places : \A x \in In(results'[m]) : x \in In(results[m]) \/ ~Told(x)
    <3> HIDE DEF r
    <3> QED  BY <1>3, <2>3
  <2>5. \A m \in Places : \A b \in In(queue'[m]) \cup In(todo'[m]) : b \in In(queue[m]) \cup In(todo[m])
    BY <1>2, <1>3 DEF relayVars
  <2>6. UNCHANGED <<names, moves, got, mixed>>
    BY <1>2 DEF xferHistory
  <2> HIDE DEF r, ok, a
  <2> QED  BY <1>1, <2>1, <2>2, <2>4, <2>5, <2>6, Kept
<1> QED  BY <1>4, <1>5, <1>6, TypePartsNext DEF MoveInv

LEMMA HeartbeatKeeps ==
  ASSUME MoveInv, NEW n \in Places, NEW measured \in BOOLEAN, Heartbeat(n, measured) PROVE MoveInv'
<1>1. AgentsTyped /\ RelayTyped /\ IndexTyped /\ HistoryTyped /\ DoubtTyped /\ TransfersTypeOK /\ Numbering /\ Backed
  BY TypeParts DEF MoveInv
<1>2. /\ handling' = handling \cup {n} /\ Measured(n, measured)
      /\ UNCHANGED <<disk, todo, results, xfer, next, blob, queue, noted, names, moves, got, mixed, versions, lost, restarts>>
  BY DEF Heartbeat
<1>3. /\ said' = [said EXCEPT ![n] = disk[n]] \/ said' = said
      /\ usage' = [usage EXCEPT ![n] = disk[n] # 0] \/ usage' = usage
      /\ onList' = [onList EXCEPT ![n] = disk[n] # 0] \/ onList' = onList
      /\ unsaid' = unsaid \cup {n} \/ unsaid' = unsaid \ {n} \/ unsaid' = unsaid
  BY DEF Heartbeat, RecordNodeUsage, ReplaceNodeFiles
<1>4. dirty' \subseteq Places
  BY <1>1, <1>2 DEF Measured, AgentsTyped
<1>5. said' \in [Places -> -1..MaxVersions]
  <2>1. said' = [said EXCEPT ![n] = disk[n]] \/ said' = said
    BY <1>3
  <2>2. said \in [Places -> -1..MaxVersions] /\ disk[n] \in -1..MaxVersions
    BY <1>1, TransfersAssumption DEF AgentsTyped
  <2> QED  BY <2>1, <2>2
<1>6. AgentsTyped' /\ RelayTyped' /\ DoubtTyped'
  BY <1>1, <1>2, <1>4, <1>5 DEF AgentsTyped, RelayTyped, DoubtTyped
<1>7. IndexTyped'
  BY <1>1, <1>2, <1>3 DEF IndexTyped
<1>8. HistoryTyped'
  BY <1>1, <1>2, <1>3 DEF HistoryTyped
<1>9. Numbering' /\ Backed'
  BY <1>1, <1>2, Unmoved
<1> QED  BY <1>6, <1>7, <1>8, <1>9, TypePartsNext DEF MoveInv

LEMMA HeartbeatLostKeeps ==
  ASSUME MoveInv, NEW n \in Places, NEW measured \in BOOLEAN, HeartbeatLost(n, measured) PROVE MoveInv'
<1>1. AgentsTyped /\ RelayTyped /\ IndexTyped /\ HistoryTyped /\ DoubtTyped /\ TransfersTypeOK /\ Numbering /\ Backed
  BY TypeParts DEF MoveInv
<1>2. /\ lost < MaxLost /\ lost' = lost + 1
      /\ results' = [results EXCEPT ![n] = <<>>] /\ Measured(n, measured)
      /\ said' = [said EXCEPT ![n] = disk[n]] \/ said' = said
      /\ unsaid' = unsaid \cup {n} \/ unsaid' = unsaid
      /\ UNCHANGED <<disk, todo, relayVars, indexVars, names, moves, got, mixed, versions, restarts>>
  BY DEF HeartbeatLost
<1>3. <<>> \in Seq(Result) /\ In(<<>>) = {}
  BY DEF In
<1>4. results' \in [Places -> Seq(Result)] /\ \A m \in Places : In(results'[m]) \subseteq In(results[m])
  BY <1>1, <1>2, <1>3 DEF AgentsTyped
<1>5. dirty' \subseteq Places
  BY <1>1, <1>2 DEF Measured, AgentsTyped
<1>6. said' \in [Places -> -1..MaxVersions]
  BY <1>1, <1>2 DEF AgentsTyped
<1>7. AgentsTyped' /\ RelayTyped' /\ IndexTyped' /\ DoubtTyped'
  BY <1>1, <1>2, <1>4, <1>5, <1>6 DEF AgentsTyped, RelayTyped, IndexTyped, DoubtTyped, relayVars, indexVars
<1>8. HistoryTyped'
  BY <1>1, <1>2, TransfersAssumption DEF HistoryTyped
<1>9. Numbering' /\ Backed'
  BY <1>1, <1>2, <1>4, Unmoved DEF relayVars
<1> QED  BY <1>7, <1>8, <1>9, TypePartsNext DEF MoveInv

LEMMA RespondKeeps ==
  \* What was queued for a machine is now with the machine, or with nobody.
  ASSUME MoveInv, NEW n \in Places, NEW arrives \in BOOLEAN, Respond(n, arrives) PROVE MoveInv'
<1>1. AgentsTyped /\ RelayTyped /\ IndexTyped /\ HistoryTyped /\ DoubtTyped /\ TransfersTypeOK /\ Numbering /\ Backed
  BY TypeParts DEF MoveInv
<1>2. /\ handling' = handling \ {n} /\ queue' = [queue EXCEPT ![n] = <<>>]
      /\ UNCHANGED <<disk, results, dirty, said, xfer, next, blob, indexVars,
                     names, moves, got, mixed, unsaid, versions, restarts>>
  BY DEF Respond
<1>3. /\ todo' = [todo EXCEPT ![n] = queue[n]] \/ todo' = todo
      /\ lost' = lost \/ (lost < MaxLost /\ lost' = lost + 1)
  BY DEF Respond
<1>4. <<>> \in Seq(Action) /\ In(<<>>) = {}
  BY DEF In
<1>5. /\ queue' \in [Places -> Seq(Action)] /\ todo' \in [Places -> Seq(Action)]
      /\ \A m \in Places : In(queue'[m]) \cup In(todo'[m]) \subseteq In(queue[m]) \cup In(todo[m])
  BY <1>1, <1>2, <1>3, <1>4 DEF AgentsTyped, RelayTyped
<1>6. AgentsTyped' /\ RelayTyped' /\ IndexTyped' /\ DoubtTyped'
  BY <1>1, <1>2, <1>5 DEF AgentsTyped, RelayTyped, IndexTyped, DoubtTyped, indexVars
<1>7. HistoryTyped'
  BY <1>1, <1>2, <1>3, TransfersAssumption DEF HistoryTyped
<1>8. Numbering' /\ Backed'
  <2>1. next' <= names /\ \A i \in Numbers : xfer[i] # NoTransfer => xfer[i].state # "none"
    BY <1>1, <1>2 DEF Numbering
  <2>2. \A i \in Numbers : Follows(i)
    BY <1>2, <2>1 DEF Follows
  <2> QED  BY <1>1, <1>2, <1>5, <2>1, <2>2, Kept
<1> QED  BY <1>6, <1>7, <1>8, TypePartsNext DEF MoveInv

LEMMA CatchUpKeeps == ASSUME MoveInv, NEW n \in Places, CatchUp(n) PROVE MoveInv'
<1>1. AgentsTyped /\ RelayTyped /\ IndexTyped /\ HistoryTyped /\ DoubtTyped /\ TransfersTypeOK /\ Numbering /\ Backed
  BY TypeParts DEF MoveInv
<1>2. /\ noted' = noted \ {n} /\ UNCHANGED <<diskVars, relayVars, onList, usage, xferHistory>>
  BY DEF CatchUp
<1>3. AgentsTyped' /\ RelayTyped' /\ HistoryTyped' /\ DoubtTyped' /\ IndexTyped'
  BY <1>1, <1>2 DEF AgentsTyped, RelayTyped, HistoryTyped, DoubtTyped, IndexTyped, diskVars, relayVars, xferHistory
<1>4. Numbering' /\ Backed'
  BY <1>1, <1>2, Unmoved DEF diskVars, relayVars, xferHistory
<1> QED  BY <1>3, <1>4, TypePartsNext DEF MoveInv

LEMMA AgentRestartsKeeps == ASSUME MoveInv, NEW n \in Places, AgentRestarts(n) PROVE MoveInv'
<1>1. AgentsTyped /\ RelayTyped /\ IndexTyped /\ HistoryTyped /\ DoubtTyped /\ TransfersTypeOK /\ Numbering /\ Backed
  BY TypeParts DEF MoveInv
<1>2. /\ lost < MaxLost /\ lost' = lost + 1
      /\ todo' = [todo EXCEPT ![n] = <<>>] /\ results' = [results EXCEPT ![n] = <<>>]
      /\ dirty' = dirty \cup {n} /\ said' = [said EXCEPT ![n] = -1]
      /\ UNCHANGED <<disk, relayVars, indexVars, names, moves, got, mixed, unsaid, versions, restarts>>
  BY DEF AgentRestarts
<1>3. <<>> \in Seq(Action) /\ <<>> \in Seq(Result) /\ In(<<>>) = {}
  BY DEF In
<1>4. /\ results' \in [Places -> Seq(Result)] /\ \A m \in Places : In(results'[m]) \subseteq In(results[m])
      /\ todo' \in [Places -> Seq(Action)] /\ \A m \in Places : In(todo'[m]) \subseteq In(todo[m])
  BY <1>1, <1>2, <1>3 DEF AgentsTyped
<1>5. said' \in [Places -> -1..MaxVersions]
  BY <1>1, <1>2, TransfersAssumption DEF AgentsTyped
<1>6. AgentsTyped' /\ RelayTyped' /\ IndexTyped' /\ DoubtTyped'
  BY <1>1, <1>2, <1>4, <1>5 DEF AgentsTyped, RelayTyped, IndexTyped, DoubtTyped, relayVars, indexVars
<1>7. HistoryTyped'
  BY <1>1, <1>2, TransfersAssumption DEF HistoryTyped
<1>8. Numbering' /\ Backed'
  <2>1. next' <= names /\ \A i \in Numbers : xfer[i] # NoTransfer => xfer[i].state # "none"
    BY <1>1, <1>2 DEF Numbering, relayVars
  <2>2. \A i \in Numbers : Follows(i)
    BY <1>2, <2>1 DEF Follows, relayVars
  <2>3. UNCHANGED <<queue, names, moves, got, mixed>>
    BY <1>2 DEF relayVars
  <2> QED  BY <1>1, <1>4, <2>1, <2>2, <2>3, Kept
<1> QED  BY <1>6, <1>7, <1>8, TypePartsNext DEF MoveInv

LEMMA RestartKeeps ==
  \* Numbers begin again, names do not.
  ASSUME MoveInv, Restart PROVE MoveInv'
<1>1. AgentsTyped /\ RelayTyped /\ IndexTyped /\ HistoryTyped /\ DoubtTyped /\ TransfersTypeOK /\ Numbering /\ Backed
  BY TypeParts DEF MoveInv
<1>2. /\ restarts < MaxRestarts /\ restarts' = restarts + 1
      /\ xfer' = [i \in Numbers |-> NoTransfer] /\ next' = 0
      /\ queue' = [n \in Places |-> <<>>] /\ handling' = {} /\ noted' = {}
      /\ results' = [n \in Places |-> IF n \in handling THEN <<>> ELSE results[n]]
      /\ UNCHANGED <<disk, todo, dirty, said, blob, onList, usage, names, moves, got, mixed, unsaid, versions, lost>>
  BY DEF Restart, Empty
<1>3. <<>> \in Seq(Action) /\ <<>> \in Seq(Result) /\ In(<<>>) = {}
  BY DEF In
<1>4. /\ results' \in [Places -> Seq(Result)] /\ \A m \in Places : In(results'[m]) \subseteq In(results[m])
      /\ queue' \in [Places -> Seq(Action)] /\ \A m \in Places : In(queue'[m]) \subseteq In(queue[m])
  BY <1>1, <1>2, <1>3 DEF AgentsTyped
<1>5. AgentsTyped' /\ IndexTyped' /\ DoubtTyped'
  BY <1>1, <1>2, <1>4 DEF AgentsTyped, IndexTyped, DoubtTyped
<1>6. RelayTyped' /\ HistoryTyped'
  BY <1>1, <1>2, <1>4, NoTransferTyped, TransfersAssumption DEF RelayTyped, HistoryTyped
<1>7. Numbering' /\ Backed'
  <2>1. next' <= names
    BY <1>1, <1>2, TransfersAssumption DEF HistoryTyped
  <2>2. \A i \in Numbers : Follows(i)
    BY <1>2 DEF Follows
  <2> QED  BY <1>1, <1>2, <1>4, <2>1, <2>2, Kept
<1> QED  BY <1>5, <1>6, <1>7, TypePartsNext DEF MoveInv

LEMMA NoteTyped ==
  ASSUME IndexTyped, HistoryTyped, NEW n \in Places, NEW there \in BOOLEAN,
         Note(n, there) \/ UNCHANGED <<onList, noted, unsaid>>
  PROVE  onList' \in [Places -> BOOLEAN] /\ noted' \subseteq Behind /\ unsaid' \subseteq Places
<1>1. /\ onList' = [onList EXCEPT ![n] = there] \/ onList' = onList
      /\ noted' = noted \/ (n \in Behind /\ noted' = noted \cup {n})
      /\ unsaid' = unsaid \/ unsaid' = unsaid \cup {n}
  BY DEF Note
<1> QED  BY <1>1 DEF IndexTyped, HistoryTyped

LEMMA Ended ==
  \* A transfer that is over, or failed, keeps its parties and its name.
  ASSUME MoveInv, NEW i \in Numbers, xfer[i] # NoTransfer, failTransfer(i) \/ finishTransfer(i)
  PROVE  xfer' \in [Numbers -> TransferRec] /\ \A j \in Numbers : Follows(j)
<1>1. xfer[i].state # "none"
  BY DEF MoveInv, Numbering
<1>2. (\E state \in {"staged", "done", "failed"} : xfer' = [xfer EXCEPT ![i].state = state])
  <2>1. CASE finishTransfer(i)
    BY <2>1 DEF finishTransfer
  <2>2. CASE failTransfer(i)
    <3>1. CASE xfer[i].state = "done"
      BY <2>2, <3>1 DEF failTransfer
    <3>2. CASE xfer[i].state # "done"
      BY <2>2, <3>2 DEF failTransfer
    <3> QED  BY <3>1, <3>2
  <2> QED  BY <2>1, <2>2
<1>3. PICK state \in {"staged", "done", "failed"} : xfer' = [xfer EXCEPT ![i].state = state]
  BY <1>2
<1> QED  BY <1>1, <1>3, Passed

LEMMA ApplyKeeps ==
  \* The source is told to delete the file on the word of the destination.
  ASSUME MoveInv, NEW n \in Places, ApplyTransferResult(n) PROVE MoveInv'
<1>1. AgentsTyped /\ RelayTyped /\ IndexTyped /\ HistoryTyped /\ DoubtTyped /\ TransfersTypeOK /\ Numbering /\ Backed
  BY TypeParts DEF MoveInv
<1> DEFINE r == Head(results[n])
           t == xfer[r.id]
           c == [kind |-> "remove", id |-> r.id, name |-> t.name]
<1>2. /\ results[n] # <<>> /\ results' = [results EXCEPT ![n] = Tail(results[n])]
      /\ UNCHANGED <<disk, todo, dirty, said, next, handling, usage, names, moves, got, versions, lost, restarts>>
  BY SMTT(60) DEF ApplyTransferResult
<1>3. mixed' = (mixed \/ (t # NoTransfer /\ t.name # r.name))
  BY DEF ApplyTransferResult
<1>4. /\ r \in Result /\ r \in In(results[n]) /\ Tail(results[n]) \in Seq(Result)
      /\ In(Tail(results[n])) \subseteq In(results[n])
  BY <1>1, <1>2, QueueIs DEF AgentsTyped
<1>5. r.id \in Numbers /\ r.name \in Numbers /\ t \in TransferRec
  BY <1>1, <1>4 DEF Result, RelayTyped
<1>6. results' \in [Places -> Seq(Result)] /\ \A m \in Places : In(results'[m]) \subseteq In(results[m])
  <2> HIDE DEF r, t, c
  <2> QED  BY <1>1, <1>2, <1>4 DEF AgentsTyped
<1>7. t # NoTransfer =>
        /\ t.name \in Numbers /\ t.name <= names /\ t.state # "none"
        /\ t.move => t.from \in Places /\ t.to \in Places
  <2>1. t # NoTransfer =>
          t.name \in 1..names /\ t.state # "none" /\ (t.move => t.from \in Places /\ t.to \in Places)
    <3> HIDE DEF r
    <3> QED  BY <1>1, <1>5 DEF Numbering
  <2>2. names \in 0..MaxTransfers /\ MaxTransfers \in Nat
    BY <1>1, TransfersAssumption DEF HistoryTyped
  <2> HIDE DEF r, t
  <2> QED  BY <2>1, <2>2 DEF Numbers
<1>8. \A i \in Numbers : xfer[i] # NoTransfer => xfer[i].state # "none"
  BY <1>1 DEF Numbering
\* What a branch does to the transfers, the queues and the listing.
<1> DEFINE Fine ==
      /\ xfer' \in [Numbers -> TransferRec] /\ \A j \in Numbers : Follows(j)
      /\ blob' \in [Numbers -> 0..MaxVersions]
      /\ queue' \in [Places -> Seq(Action)]
      /\ \A m \in Places : \A b \in In(queue'[m]) :
           \/ b \in In(queue[m])
           \/ b = c /\ t # NoTransfer /\ Told(r)
      /\ onList' \in [Places -> BOOLEAN] /\ noted' \subseteq Behind /\ unsaid' \subseteq Places
<1> DEFINE Still == UNCHANGED <<onList, noted, unsaid>>
<1>9. /\ UNCHANGED xfer => xfer' \in [Numbers -> TransferRec] /\ \A j \in Numbers : Follows(j)
      /\ UNCHANGED blob \/ blob' = [blob EXCEPT ![r.id] = 0] => blob' \in [Numbers -> 0..MaxVersions]
      /\ UNCHANGED queue => queue' \in [Places -> Seq(Action)] /\ \A m \in Places : In(queue'[m]) = In(queue[m])
      /\ Still => onList' \in [Places -> BOOLEAN] /\ noted' \subseteq Behind /\ unsaid' \subseteq Places
  <2>1. UNCHANGED xfer => xfer' \in [Numbers -> TransferRec] /\ \A j \in Numbers : Follows(j)
    BY <1>1, <1>8 DEF RelayTyped, Follows
  <2>2. UNCHANGED blob \/ blob' = [blob EXCEPT ![r.id] = 0] => blob' \in [Numbers -> 0..MaxVersions]
    BY <1>1, TransfersAssumption, SMTT(60) DEF RelayTyped
  <2>3. UNCHANGED queue => queue' \in [Places -> Seq(Action)] /\ \A m \in Places : In(queue'[m]) = In(queue[m])
    BY <1>1 DEF RelayTyped
  <2>4. Still => onList' \in [Places -> BOOLEAN] /\ noted' \subseteq Behind /\ unsaid' \subseteq Places
    BY <1>1, SMTT(60) DEF IndexTyped, HistoryTyped
  <2> QED  BY <2>1, <2>2, <2>3, <2>4
<1>10. Fine
  <2>1. CASE t = NoTransfer /\ UNCHANGED <<xfer, blob, queue, onList, noted, unsaid>>
    BY <1>9, <2>1
  <2>2. CASE /\ t # NoTransfer /\ ~r.ok
             /\ failTransfer(r.id) /\ blob' = [blob EXCEPT ![r.id] = 0]
             /\ UNCHANGED <<queue, onList, noted, unsaid>>
    <3>1. xfer' \in [Numbers -> TransferRec] /\ \A j \in Numbers : Follows(j)
      BY <1>5, <2>2, Ended
    <3> HIDE DEF r, t, c
    <3> QED  BY <1>9, <2>2, <3>1
  <2>3. CASE /\ t # NoTransfer /\ r.ok /\ r.kind # "remove" /\ RemovesSource(r, t)
             /\ queue' = Enqueued(queue, t.from, "remove", r.id, t.name)
             /\ IF r.kind = "recv" THEN Note(t.to, TRUE) ELSE UNCHANGED <<onList, noted, unsaid>>
             /\ UNCHANGED <<xfer, blob>>
    <3>1. Told(r) /\ t.move /\ t.to \in Places /\ t.name \in Numbers
      BY <1>7, <2>3 DEF RemovesSource, Told
    <3>2. onList' \in [Places -> BOOLEAN] /\ noted' \subseteq Behind /\ unsaid' \subseteq Places
      <4> TRUE \in BOOLEAN /\ (Note(t.to, TRUE) \/ UNCHANGED <<onList, noted, unsaid>>)
        BY <2>3
      <4> HIDE DEF r, t, c
      <4> QED  BY <1>1, <3>1, NoteTyped
    <3>3. queue' \in [Places -> Seq(Action)] /\ \A m \in Places : In(queue'[m]) \subseteq In(queue[m]) \cup {c}
      <4>1. queue \in [Places -> Seq(Action)] /\ "remove" \in Kinds
        BY <1>1 DEF RelayTyped, Kinds
      <4> HIDE DEF r, t
      <4> QED  BY <1>5, <2>3, <3>1, <4>1, EnqueuedIs
    <3> HIDE DEF r, t, c
    <3> QED  BY <1>9, <2>3, <3>1, <3>2, <3>3
  <2>4. CASE /\ t # NoTransfer /\ r.ok /\ r.kind = "recv" /\ ~t.move
             /\ IF t.to = Here THEN UNCHANGED <<onList, noted, unsaid>> ELSE Note(t.to, TRUE)
             /\ finishTransfer(r.id) /\ blob' = [blob EXCEPT ![r.id] = 0]
             /\ UNCHANGED queue
    <3>1. xfer' \in [Numbers -> TransferRec] /\ \A j \in Numbers : Follows(j)
      BY <1>5, <2>4, Ended
    <3>2. onList' \in [Places -> BOOLEAN] /\ noted' \subseteq Behind /\ unsaid' \subseteq Places
      <4>1. CASE t.to = Here
        BY <1>9, <2>4, <4>1
      <4>2. CASE t.to # Here
        <5> t.to \in Places /\ TRUE \in BOOLEAN /\ Note(t.to, TRUE)
          BY <1>5, <2>4, <4>2 DEF TransferRec
        <5> HIDE DEF r, t, c
        <5> QED  BY <1>1, NoteTyped
      <4> QED  BY <4>1, <4>2
    <3> HIDE DEF r, t, c
    <3> QED  BY <1>9, <2>4, <3>1, <3>2
  <2>5. CASE /\ t # NoTransfer /\ r.ok /\ r.kind = "remove"
             /\ IF t.from = Here THEN UNCHANGED <<onList, noted, unsaid>> ELSE Note(t.from, FALSE)
             /\ finishTransfer(r.id) /\ blob' = [blob EXCEPT ![r.id] = 0]
             /\ UNCHANGED queue
    <3>1. xfer' \in [Numbers -> TransferRec] /\ \A j \in Numbers : Follows(j)
      BY <1>5, <2>5, Ended
    <3>2. onList' \in [Places -> BOOLEAN] /\ noted' \subseteq Behind /\ unsaid' \subseteq Places
      <4>1. CASE t.from = Here
        BY <1>9, <2>5, <4>1
      <4>2. CASE t.from # Here
        <5> t.from \in Places /\ FALSE \in BOOLEAN /\ Note(t.from, FALSE)
          BY <1>5, <2>5, <4>2 DEF TransferRec
        <5> HIDE DEF r, t, c
        <5> QED  BY <1>1, NoteTyped
      <4> QED  BY <4>1, <4>2
    <3> HIDE DEF r, t, c
    <3> QED  BY <1>9, <2>5, <3>1, <3>2
  <2>6. CASE /\ t # NoTransfer /\ r.ok /\ r.kind = "send" /\ ~RemovesSource(r, t)
             /\ UNCHANGED <<xfer, blob, queue, onList, noted, unsaid>>
    BY <1>9, <2>6
  <2> HIDE DEF Fine
  <2> QED  BY <2>1, <2>2, <2>3, <2>4, <2>5, <2>6 DEF ApplyTransferResult
<1>11. AgentsTyped' /\ RelayTyped' /\ IndexTyped' /\ HistoryTyped'
  <2>1. AgentsTyped' /\ RelayTyped'
    BY <1>1, <1>2, <1>6, <1>10 DEF AgentsTyped, RelayTyped
  <2>2. IndexTyped' /\ HistoryTyped'
    BY <1>1, <1>2, <1>10 DEF IndexTyped, HistoryTyped
  <2> QED  BY <2>1, <2>2
<1>12. DoubtTyped' /\ (mixed => mixed')
  <2> HIDE DEF r, t
  <2> QED  BY <1>1, <1>3 DEF DoubtTyped
<1>13. t # NoTransfer /\ Told(r) => c.name <= names /\ (~mixed' /\ Ask(c) => got'[c.name] # 0)
  <2> SUFFICES ASSUME t # NoTransfer, Told(r), ~mixed' PROVE got'[t.name] # 0
    BY <1>7
  <2>1. ~mixed /\ t.name = r.name
    <3> HIDE DEF r, t
    <3> QED  BY <1>3
  <2>2. got[r.name] # 0
    BY <1>1, <1>4, <2>1 DEF Backed
  <2> QED  BY <1>2, <2>1, <2>2
<1>14. Numbering' /\ Backed'
  <2>1. next' <= names
    BY <1>1, <1>2 DEF Numbering
  <2>2. \A m \in Places : \A b \in In(queue'[m]) \cup In(todo'[m]) :
          \/ b \in In(queue[m]) \cup In(todo[m])
          \/ b.name <= names /\ (~mixed' /\ Ask(b) => got'[b.name] # 0)
    <3>1. /\ \A m \in Places : \A b \in In(queue'[m]) :
                \/ b \in In(queue[m])
                \/ b = c /\ t # NoTransfer /\ Told(r)
          /\ todo' = todo
      BY <1>2, <1>10
    <3> HIDE DEF r, t, c
    <3> QED  BY <1>13, <3>1
  <2>3. \A i \in Numbers : Follows(i)
    BY <1>10
  <2> HIDE DEF Fine, Still, r, t, c
  <2> QED  BY <1>1, <1>2, <1>6, <1>12, <2>1, <2>2, <2>3, Kept
<1> QED  BY <1>11, <1>12, <1>14, TypePartsNext DEF MoveInv

-----------------------------------------------------------------------------
(* The theorems *)

LEMMA MoveKeeps == MoveInv /\ [TransfersNext]_xferVars => MoveInv'
<1> SUFFICES ASSUME MoveInv, [TransfersNext]_xferVars PROVE MoveInv'
  OBVIOUS
<1>1. CASE UNCHANGED xferVars
  <2>1. AgentsTyped /\ RelayTyped /\ IndexTyped /\ HistoryTyped /\ DoubtTyped /\ TransfersTypeOK /\ Numbering /\ Backed
    BY TypeParts DEF MoveInv
  <2>2. UNCHANGED <<disk, todo, results, dirty, said>> /\ UNCHANGED <<xfer, next, blob, queue, handling>>
        /\ UNCHANGED <<onList, usage, noted>> /\ UNCHANGED <<names, moves, got, unsaid, versions, lost, restarts>>
        /\ UNCHANGED mixed
    BY <1>1 DEF xferVars, diskVars, relayVars, indexVars, xferHistory
  <2>3. AgentsTyped' /\ RelayTyped' /\ IndexTyped' /\ HistoryTyped' /\ DoubtTyped'
    BY <2>1, <2>2 DEF AgentsTyped, RelayTyped, IndexTyped, HistoryTyped, DoubtTyped
  <2>4. Numbering' /\ Backed'
    BY <2>1, <2>2, Unmoved
  <2> QED  BY <2>3, <2>4, TypePartsNext DEF MoveInv
<1>2. ASSUME NEW n \in Places, Write(n) \/ Delete(n) PROVE MoveInv'
  BY <1>2, WriteKeeps, DeleteKeeps
<1>3. ASSUME NEW n \in Places,
             \/ StartFetch(n) \/ QueueFileRemove(n) \/ StageUpload(n)
             \/ \E to \in Places, move \in BOOLEAN : StartTransfer(n, to, move)
      PROVE  MoveInv'
  BY <1>3, RequestsKeep
<1>4. ASSUME NEW n \in Places, perform(n) \/ RelayFails(n) PROVE MoveInv'
  BY <1>4, SendFileKeeps, RecvFileKeeps, RemoveFileKeeps, RelayFailsKeeps DEF perform
<1>5. ASSUME NEW n \in Places, HandleHeartbeat(n) \/ Respond(n, FALSE) PROVE MoveInv'
  <2>1. TRUE \in BOOLEAN /\ FALSE \in BOOLEAN
    OBVIOUS
  <2> QED  BY <1>5, <2>1, ApplyKeeps, RespondKeeps DEF HandleHeartbeat
<1>6. ASSUME NEW n \in Places, NEW measured \in BOOLEAN, Heartbeat(n, measured) \/ HeartbeatLost(n, measured)
      PROVE  MoveInv'
  BY <1>6, HeartbeatKeeps, HeartbeatLostKeeps
<1>7. ASSUME NEW n \in Places, CatchUp(n) \/ AgentRestarts(n) PROVE MoveInv'
  BY <1>7, CatchUpKeeps, AgentRestartsKeeps
<1>8. ASSUME NEW i \in Numbers, FinishFetch(i) \/ expireTransfer(i) PROVE MoveInv'
  BY <1>8, FinishFetchKeeps, expireTransferKeeps
<1> QED  BY <1>1, <1>2, <1>3, <1>4, <1>5, <1>6, <1>7, <1>8, RestartKeeps DEF TransfersNext

LEMMA MoveInvHolds == TransfersSpec => []MoveInv
BY MoveStarts, MoveKeeps, PTL DEF TransfersSpec

\* The variables keep their types: a listing is told only of machines there are, a
\* number is never given beyond the last name.
THEOREM TransfersTypeCorrect == TransfersSpec => []TransfersTypeOK
<1>1. MoveInv => TransfersTypeOK
  BY DEF MoveInv
<1> QED  BY <1>1, MoveInvHolds, PTL

\* The original of a moved file is deleted only after its destination has stored the
\* file, whatever is lost, restarted or reordered, as long as no number is taken for
\* another transfer (ApplyTransferResults).
THEOREM MoveArrivesFirstHolds == TransfersSpec => MoveArrivesFirst
<1>1. ASSUME MoveInv, NEW n \in Places, Moving(n) PROVE Arrived(n) \/ mixed
  <2>1. todo[n] # <<>> /\ Head(todo[n]).kind = "remove" /\ Head(todo[n]).name \in moves
    BY <1>1 DEF Moving, RemoveFile, First
  <2>2. todo[n] \in Seq(Action) /\ Backed
    BY <1>1 DEF MoveInv, TransfersTypeOK
  <2>3. Head(todo[n]) \in In(todo[n])
    BY <2>1, <2>2, QueueIs
  <2> QED  BY <2>1, <2>2, <2>3 DEF Backed, Ask, Arrived
<1>2. MoveInv => [\A n \in Places : Moving(n) => Arrived(n) \/ mixed]_xferVars
  BY <1>1
<1> QED  BY <1>2, MoveInvHolds, PTL DEF MoveArrivesFirst

(*-------------------------------------------------------------------------*)
(* Machine clean-up                                                        *)
(*-------------------------------------------------------------------------*)

JobBoxes == Tasks \X (1..MaxRuns)

\* There, and not among those whose last stop failed.
Loose(b) == box[b] # "none" /\ b \notin missed

\* A run that the agent remembers.
Mine(j, r) ==
  task[j].run = r \/ (task[j].step = "started" /\ task[j].nth = r) \/ task[j].fin = r

Serving == life \in {"up", "closing"}

\* The daemon, its pid file and nuke.
LifeSays ==
  /\ life # "down" => pid = "current"
  /\ command \notin {"none", "stop"} => life = "down"
  /\ life = "down" => known = {}
  /\ life = "down" /\ command \in {"none", "stop"} => ~Sweeping
  /\ ~Serving => \A j \in Tasks : task[j] = Forgotten(task[j].nth, task[j].scratch)

\* A number whose runs come one after the other: a container of its that is there is the one
\* the agent remembers, by the name it has for it.
JobSays(j) ==
  /\ task[j].step # "idle" => task[j].nth # 0
  /\ j \notin again =>
       /\ task[j].step # "idle" => task[j].run = 0 /\ task[j].fin = 0 /\ ~task[j].done /\ ~task[j].due
       /\ task[j].step = "started" => task[j].reg = task[j].nth
       /\ task[j].run # 0 => /\ task[j].fin = task[j].run /\ task[j].reg = task[j].run
                             /\ ~task[j].done /\ ~task[j].due
       /\ task[j].fin # 0 => task[j].reg = task[j].fin /\ (task[j].run = task[j].fin \/ task[j].done)
       /\ Serving => \A r \in 1..MaxRuns : Loose(<<j, r>>) => Mine(j, r)

\* Sessions are noted, and what else was there has been found or stopped.
OthersSay ==
  /\ Serving => \A b \in Shells \cup {Older} : Loose(b) => b \in known
  /\ life = "starting" /\ Sweeping => \A b \in Boxes : Loose(b) => b \in found \cup known \cup {Other}
  /\ command = "sweep" => \A b \in Boxes : Loose(b) => b \in found \cup {Other}
  /\ command \in {"check", "removed"} => \A b \in Boxes : Loose(b) => b = Other

MachineInv == MachineTypeOK /\ LifeSays /\ OthersSay /\ \A j \in Tasks : JobSays(j)

LEMMA BoxesAre ==
  \* The containers are told apart by their names.
  /\ JobBoxes \subseteq Boxes /\ Shells \subseteq Boxes /\ Other \in Boxes /\ Older \in Boxes
  /\ \A b \in Boxes : b \in JobBoxes \/ b \in Shells \cup {Other, Older}
  /\ \A b \in Shells \cup {Other, Older} : b \notin JobBoxes
  /\ Other \notin Shells /\ Older \notin Shells /\ Other # Older
  /\ <<"none", 0>> \notin Boxes
BY MachineAssumption DEF Boxes, JobBoxes, Shells, Other, Older

LEMMA MemoryIs ==
  \* What the agent remembers of a number.
  ASSUME MachineTypeOK, NEW j \in Tasks
  PROVE  /\ task[j] \in Memory /\ task[j].step \in {"idle", "prepared", "started"}
         /\ task[j].nth \in 0..MaxRuns /\ task[j].run \in 0..MaxRuns /\ task[j].fin \in 0..MaxRuns
         /\ task[j].reg \in 0..MaxRuns /\ task[j].scratch \in BOOLEAN /\ task[j].done \in BOOLEAN
         /\ task[j].killing \in BOOLEAN /\ task[j].due \in BOOLEAN
<1>1. task[j] \in Memory
  BY DEF MachineTypeOK
<1> QED  BY <1>1 DEF Memory

LEMMA SetIs ==
  \* One number at a time.
  ASSUME MachineTypeOK, NEW j \in Tasks, NEW t \in Memory, Set(j, t)
  PROVE  task' \in [Tasks -> Memory] /\ task'[j] = t /\ \A i \in Tasks : i # j => task'[i] = task[i]
BY DEF Set, MachineTypeOK

LEMMA ForgottenIs ==
  \* An agent that has just started.
  ASSUME NEW n \in 0..MaxRuns, NEW s \in BOOLEAN
  PROVE  /\ Forgotten(n, s) \in Memory /\ Forgotten(n, s).step = "idle" /\ Forgotten(n, s).nth = n
         /\ Forgotten(n, s).run = 0 /\ Forgotten(n, s).fin = 0 /\ Forgotten(n, s).reg = 0
         /\ Forgotten(n, s).scratch = s /\ ~Forgotten(n, s).done /\ ~Forgotten(n, s).due
<1>1. 0 \in 0..MaxRuns
  BY MachineAssumption
<1> QED  BY <1>1 DEF Forgotten, Memory

LEMMA RegisteredIs ==
  \* The registry has one name for a number, or none.
  ASSUME MachineTypeOK, NEW j \in Tasks
  PROVE  /\ Registered(j) \subseteq JobBoxes
         /\ \A b \in Registered(j) : b = <<j, task[j].reg>> /\ task[j].reg # 0
         /\ task[j].reg # 0 => <<j, task[j].reg>> \in Registered(j)
<1>1. task[j].reg \in 0..MaxRuns /\ MaxRuns \in Nat
  BY MemoryIs, MachineAssumption
<1> QED  BY <1>1 DEF Registered, JobBoxes

LEMMA TroubleIs ==
  \* Trouble is bounded.
  ASSUME MachineTypeOK, Trouble
  PROVE  trouble' \in 0..MaxTrouble
<1>1. trouble \in 0..MaxTrouble /\ MaxTrouble \in Nat
  BY MachineAssumption DEF MachineTypeOK
<1> QED  BY <1>1 DEF Trouble

LEMMA LostIs ==
  \* The history keeps what is still there.
  ASSUME MachineTypeOK, NEW bs \in SUBSET Boxes, Lost(bs),
         \A b \in Boxes : box'[b] = box[b] \/ box'[b] = "none"
  PROVE  /\ missed' \subseteq Boxes
         /\ \A b \in Boxes : Loose(b)' => Loose(b)
         /\ \A b \in bs : ~Loose(b)'
BY DEF Lost, Loose, MachineTypeOK

LEMMA SignalIs ==
  \* A signal reaches the container by the registry's name, or nothing.
  ASSUME MachineTypeOK, NEW j \in Tasks, SignalBox(j)
  PROVE  /\ box' \in [Boxes -> {"none", "starting", "up"}]
         /\ \A b \in Boxes : box'[b] = box[b] \/ (box'[b] = "none" /\ b \in Registered(j))
         /\ trouble' \in 0..MaxTrouble
         /\ trouble' # trouble => box' = box
<1>1. box \in [Boxes -> {"none", "starting", "up"}] /\ trouble \in 0..MaxTrouble
  BY DEF MachineTypeOK
<1>2. CASE box' = box /\ trouble' = trouble
  BY <1>1, <1>2
<1>3. ASSUME NEW b \in Registered(j), stopContainer(b)
      PROVE  /\ box' \in [Boxes -> {"none", "starting", "up"}]
             /\ \A c \in Boxes : box'[c] = box[c] \/ (box'[c] = "none" /\ c \in Registered(j))
             /\ trouble' \in 0..MaxTrouble
             /\ trouble' # trouble => box' = box
  <2>1. CASE box' = [box EXCEPT ![b] = IF @ = "up" THEN "none" ELSE @] /\ trouble' = trouble
    BY <1>1, <1>3, <2>1
  <2>2. CASE Trouble /\ box' = box
    BY <1>1, <2>2, TroubleIs
  <2> QED  BY <1>3, <2>1, <2>2 DEF stopContainer
<1> QED  BY <1>2, <1>3 DEF SignalBox

LEMMA SweepIs ==
  \* A sweep stops what it found and nobody answers for.
  ASSUME MachineTypeOK, Sweeping, SweepOrphanIsolation
  PROVE  /\ found' = NotSweeping /\ missed' \subseteq Boxes /\ trouble' \in 0..MaxTrouble
         /\ box' \in [Boxes -> {"none", "starting", "up"}]
         /\ \A b \in Boxes : box'[b] = box[b] \/ (box'[b] = "none" /\ b \in Doomed)
         /\ \A b \in Boxes : Loose(b)' => Loose(b) /\ b \notin Doomed
<1>1. /\ box \in [Boxes -> {"none", "starting", "up"}] /\ trouble \in 0..MaxTrouble
      /\ Doomed \in SUBSET Boxes
  BY DEF MachineTypeOK, Sweeping, Doomed
<1>2. found' = NotSweeping /\ Lost(Doomed)
  BY DEF SweepOrphanIsolation
<1>3. /\ box' \in [Boxes -> {"none", "starting", "up"}] /\ trouble' \in 0..MaxTrouble
      /\ \A b \in Boxes : box'[b] = box[b] \/ (box'[b] = "none" /\ b \in Doomed)
  <2>1. CASE box' = [b \in Boxes |-> IF b \in Doomed THEN "none" ELSE box[b]] /\ trouble' = trouble
    BY <1>1, <2>1
  <2>2. CASE Trouble /\ box' = box
    BY <1>1, <2>2, TroubleIs
  <2> QED  BY <2>1, <2>2 DEF SweepOrphanIsolation
<1>4. \A b \in Boxes : box'[b] = box[b] \/ box'[b] = "none"
  BY <1>3
<1>5. missed' \subseteq Boxes /\ (\A b \in Boxes : Loose(b)' => Loose(b)) /\ \A b \in Doomed : ~Loose(b)'
  BY <1>1, <1>2, <1>4, LostIs
<1> QED  BY <1>2, <1>3, <1>5

LEMMA ListIs ==
  \* What is there is found, or is only starting.
  ASSUME MachineTypeOK, ListBoxes, box' = box
  PROVE  /\ found' \in SUBSET Boxes /\ found' # NotSweeping /\ missed' \subseteq Boxes
         /\ \A b \in Boxes : Loose(b)' => Loose(b) /\ b \in found' \cup known
<1>1. box \in [Boxes -> {"none", "starting", "up"}] /\ missed \subseteq Boxes
  BY DEF MachineTypeOK
<1>2. found' = Up /\ Up \subseteq Boxes /\ <<"none", 0>> \notin Boxes
  BY BoxesAre DEF ListBoxes, Up
<1>3. found' # NotSweeping
  BY <1>2 DEF NotSweeping
<1>4. missed' = missed \cup ({b \in Boxes : box[b] = "starting"} \ known)
  BY DEF ListBoxes
<1> QED  BY <1>1, <1>2, <1>3, <1>4 DEF Up, Loose


LEMMA MachineParts ==
  \* What the invariant says of a number.
  ASSUME MachineInv, NEW j \in Tasks
  PROVE  MachineTypeOK /\ LifeSays /\ OthersSay /\ JobSays(j)
BY DEF MachineInv

LEMMA BoxOfJob ==
  \* A job's container carries its number.
  ASSUME NEW j \in Tasks, NEW r \in 1..MaxRuns
  PROVE  /\ <<j, r>> \in JobBoxes /\ <<j, r>> \in Boxes /\ <<j, r>> \notin Shells \cup {Other, Older}
         /\ \A i, q : <<i, q>> = <<j, r>> => i = j /\ q = r
<1>1. <<j, r>> \in JobBoxes
  BY DEF JobBoxes
<1> QED  BY <1>1, BoxesAre

\* Nothing is stopped but containers of j, and only while j does not run.
Spared(j) ==
  /\ \A b \in Boxes : box[b] = "up" /\ box'[b] = "none" => b \in Registered(j)
  /\ \/ (\A b \in Boxes : box[b] = "up" => box'[b] # "none") /\ (task[j].scratch => task'[j].scratch)
     \/ j \notin again => task[j].run = 0 \/ task'[j].run = 0

LEMMA JobStepKeeps ==
  \* What happens to one number leaves the others, and the rest of the machine.
  ASSUME MachineInv, NEW j \in Tasks, Serving,
         life' = life, pid' = pid, command' = command, found' = found, known' = known, starts' = starts,
         task' \in [Tasks -> Memory], \A i \in Tasks : i # j => task'[i] = task[i],
         box' \in [Boxes -> {"none", "starting", "up"}],
         missed' \subseteq Boxes, again \subseteq again', again' \subseteq Tasks, trouble' \in 0..MaxTrouble,
         \A b \in Boxes : Loose(b)' => Loose(b) \/ \E r \in 1..MaxRuns : b = <<j, r>>,
         JobSays(j)', Spared(j)
  PROVE  MachineInv' /\ SparesTheLiving
<1>1. MachineTypeOK /\ LifeSays /\ OthersSay
  BY DEF MachineInv
<1>2. MachineTypeOK'
  BY <1>1 DEF MachineTypeOK
<1>3. life # "down" /\ life # "starting" /\ Serving'
  BY DEF Serving
<1>4. LifeSays'
  BY <1>1, <1>3 DEF LifeSays
<1>5. ASSUME NEW i \in Tasks, i # j PROVE JobSays(i)'
  <2>1. JobSays(i) /\ task'[i] = task[i] /\ (i \notin again' => i \notin again)
    BY <1>5, MachineParts
  <2>2. \A r \in 1..MaxRuns : Loose(<<i, r>>)' => Loose(<<i, r>>)
    BY <1>5, BoxOfJob
  <2>3. Serving /\ Serving'
    BY <1>3
  <2>4. \A r \in 1..MaxRuns : Mine(i, r) => Mine(i, r)'
    BY <2>1 DEF Mine
  <2> QED  BY <2>1, <2>2, <2>3, <2>4 DEF JobSays
<1>6. \A b \in Shells \cup {Older} : Loose(b)' => b \in known'
  <2> SUFFICES ASSUME NEW b \in Shells \cup {Older}, Loose(b)' PROVE b \in known
    OBVIOUS
  <2>1. b \in Boxes /\ Loose(b)
    BY BoxesAre, BoxOfJob
  <2> QED  BY <1>1, <2>1 DEF OthersSay
<1>7. command' \notin {"sweep", "check", "removed"}
  BY <1>1, <1>3 DEF LifeSays
<1>8. OthersSay'
  BY <1>3, <1>6, <1>7 DEF OthersSay
<1>9. ASSUME NEW b \in Boxes, InUse(b), InUse(b)', b \in JobBoxes
      PROVE  \E i \in Tasks \ again : \E r \in 1..MaxRuns : b = <<i, r>> /\ task[i].run = r /\ task'[i].run = r
  <2>1. b \notin known \cup {Other} /\ b \notin known' \cup {Other}
    BY <1>1, <1>9, BoxesAre DEF MachineTypeOK
  <2>2. PICK i \in Tasks \ again, r \in 1..MaxRuns : b = <<i, r>> /\ task[i].run = r
    BY <1>9, <2>1 DEF InUse
  <2>3. PICK k \in Tasks \ again', q \in 1..MaxRuns : b = <<k, q>> /\ task'[k].run = q
    BY <1>9, <2>1 DEF InUse
  <2>4. k = i /\ q = r
    BY <2>2, <2>3, BoxOfJob
  <2> QED  BY <2>2, <2>3, <2>4
<1>10. ASSUME NEW b \in Boxes, box[b] = "up", box'[b] = "none", InUse(b), InUse(b)' PROVE FALSE
  <2>1. b \in Registered(j) /\ b \in JobBoxes
    BY <1>1, <1>10, RegisteredIs DEF Spared
  <2>2. PICK i \in Tasks \ again, r \in 1..MaxRuns : b = <<i, r>> /\ task[i].run = r /\ task'[i].run = r
    BY <1>9, <1>10, <2>1
  <2>3. b = <<j, task[j].reg>>
    BY <1>1, <2>1, RegisteredIs
  <2>4. i = j
    BY <2>2, <2>3
  <2> QED  BY <1>10, <2>2, <2>4 DEF Spared
<1>11. ASSUME NEW i \in Tasks, NEW r \in 1..MaxRuns, InUse(<<i, r>>), InUse(<<i, r>>)', task[i].scratch,
              ~task'[i].scratch
       PROVE  FALSE
  <2>1. i = j
    BY <1>11
  <2> DEFINE b == <<i, r>>
  <2>2. b \in Boxes /\ b \in JobBoxes /\ InUse(b) /\ InUse(b)'
    BY <1>11, BoxOfJob
  <2> HIDE DEF b
  <2>3. PICK k \in Tasks \ again, q \in 1..MaxRuns : b = <<k, q>> /\ task[k].run = q /\ task'[k].run = q
    BY <1>9, <2>2
  <2>4. k = i
    BY <2>3, BoxOfJob DEF b
  <2> QED  BY <1>11, <2>1, <2>3, <2>4 DEF Spared
<1>12. SparesTheLiving
  BY <1>10, <1>11 DEF SparesTheLiving
<1>13. \A i \in Tasks : JobSays(i)'
  BY <1>5
<1> QED  BY <1>2, <1>4, <1>8, <1>12, <1>13 DEF MachineInv


LEMMA Wakes ==
  \* Only an agent that serves has launches in progress and containers to signal.
  ASSUME MachineInv, NEW j \in Tasks, life = "up" \/ (DaemonLives /\ (task[j].step # "idle" \/ task[j].due))
  PROVE  Serving
<1>1. LifeSays /\ MachineTypeOK
  BY DEF MachineInv
<1>2. CASE life = "starting"
  <2>1. task[j] = Forgotten(task[j].nth, task[j].scratch)
    BY <1>1, <1>2 DEF LifeSays, Serving
  <2>2. task[j].nth \in 0..MaxRuns /\ task[j].scratch \in BOOLEAN
    BY <1>1, MemoryIs
  <2>3. task[j].step = "idle" /\ ~task[j].due
    BY <2>1, <2>2, ForgottenIs
  <2> QED  BY <1>2, <2>3
<1> QED  BY <1>1, <1>2 DEF MachineTypeOK, DaemonLives, Serving

LEMMA PrepareKeeps ==
  \* A number runs, or runs again too soon.
  ASSUME MachineInv, NEW j \in Tasks, Prepare(j)
  PROVE  MachineInv' /\ SparesTheLiving
<1> DEFINE t == [task[j] EXCEPT !.step = "prepared", !.nth = @ + 1, !.scratch = TRUE]
<1>1. /\ MachineTypeOK /\ JobSays(j) /\ life = "up" /\ task[j].step = "idle" /\ task[j].nth < MaxRuns
      /\ task[j].run = 0 /\ Set(j, t)
      /\ UNCHANGED <<life, pid, command, box, found, known, missed, starts>>
  BY MachineParts DEF Prepare
<1>2. task[j] \in Memory /\ task[j].nth \in 0..MaxRuns /\ MaxRuns \in Nat
  BY <1>1, MemoryIs, MachineAssumption
<1>3. task[j].nth + 1 \in 0..MaxRuns
  BY <1>1, <1>2
<1>4. /\ t \in Memory /\ t.step = "prepared" /\ t.run = task[j].run /\ t.fin = task[j].fin
      /\ t.done = task[j].done /\ t.due = task[j].due /\ t.scratch = TRUE /\ t.nth = task[j].nth + 1
  BY <1>2, <1>3 DEF Memory
<1> HIDE DEF t
<1>5. task' \in [Tasks -> Memory] /\ task'[j] = t /\ \A i \in Tasks : i # j => task'[i] = task[i]
  BY <1>1, <1>4, SetIs
<1>6. /\ again \subseteq again' /\ again' \subseteq Tasks /\ trouble' \in 0..MaxTrouble
      /\ j \notin again' => j \notin again /\ task[j].fin = 0 /\ ~task[j].done /\ ~task[j].due
  <2>1. CASE task[j].fin # 0 \/ task[j].done \/ task[j].due
    BY <1>1, <2>1, TroubleIs DEF Prepare, MachineTypeOK
  <2>2. CASE ~(task[j].fin # 0 \/ task[j].done \/ task[j].due)
    BY <1>1, <2>2 DEF Prepare, MachineTypeOK
  <2> QED  BY <2>1, <2>2
<1>7. \A b \in Boxes : Loose(b)' => Loose(b)
  BY <1>1 DEF Loose
<1>8. Serving
  BY <1>1 DEF Serving
<1>9. JobSays(j)'
  <2> SUFFICES ASSUME j \notin again' PROVE JobSays(j)'
    BY <1>2, <1>4, <1>5 DEF JobSays
  <2>1. \A r \in 1..MaxRuns : ~Loose(<<j, r>>)
    <3>1. \A r \in 1..MaxRuns : ~Mine(j, r)
      BY <1>1, <1>6 DEF Mine
    <3> QED  BY <1>1, <1>6, <1>8, <3>1 DEF JobSays
  <2>2. \A r \in 1..MaxRuns : ~Loose(<<j, r>>)'
    BY <1>7, <2>1, BoxOfJob
  <2> QED  BY <1>1, <1>2, <1>4, <1>5, <1>6, <2>2 DEF JobSays
<1>10. Spared(j)
  BY <1>1, <1>4, <1>5 DEF Spared
<1>11. box' \in [Boxes -> {"none", "starting", "up"}] /\ missed' \subseteq Boxes
  BY <1>1 DEF MachineTypeOK
<1> QED  BY <1>1, <1>5, <1>6, <1>7, <1>8, <1>9, <1>10, <1>11, JobStepKeeps

LEMMA LaunchKeeps ==
  \* The launcher is started, and its container named.
  ASSUME MachineInv, NEW j \in Tasks, launchContainer(j)
  PROVE  MachineInv' /\ SparesTheLiving
<1> DEFINE t == [task[j] EXCEPT !.step = "started", !.reg = task[j].nth]
<1>1. /\ MachineTypeOK /\ JobSays(j) /\ DaemonLives /\ task[j].step = "prepared" /\ Set(j, t)
      /\ box' = [box EXCEPT ![<<j, task[j].nth>>] = "starting"]
      /\ UNCHANGED <<life, pid, command, found, known, missed, again, starts, trouble>>
  BY MachineParts DEF launchContainer
<1>2. task[j] \in Memory /\ task[j].nth \in 0..MaxRuns
  BY <1>1, MemoryIs
<1>3. /\ t \in Memory /\ t.step = "started" /\ t.run = task[j].run /\ t.fin = task[j].fin
      /\ t.done = task[j].done /\ t.due = task[j].due /\ t.scratch = task[j].scratch
      /\ t.reg = task[j].nth /\ t.nth = task[j].nth
  BY <1>2 DEF Memory
<1> HIDE DEF t
<1>4. task' \in [Tasks -> Memory] /\ task'[j] = t /\ \A i \in Tasks : i # j => task'[i] = task[i]
  BY <1>1, <1>3, SetIs
<1>5. Serving
  BY <1>1, Wakes
<1>6. /\ box' \in [Boxes -> {"none", "starting", "up"}]
      /\ \A b \in Boxes : box'[b] = box[b] \/ (b = <<j, task[j].nth>> /\ box'[b] = "starting")
  BY <1>1 DEF MachineTypeOK
<1>7. \A b \in Boxes : Loose(b)' => Loose(b) \/ b = <<j, task[j].nth>>
  BY <1>1, <1>6 DEF Loose
<1>8. task[j].nth \in 1..MaxRuns
  BY <1>1, <1>2, MachineAssumption DEF JobSays
<1>9. JobSays(j)'
  <2>1. CASE j \in again
    BY <1>1, <1>3, <1>4, <2>1 DEF JobSays
  <2>2. CASE j \notin again
    <3>1. task[j].run = 0 /\ task[j].fin = 0 /\ ~task[j].done /\ ~task[j].due
      BY <1>1, <2>2 DEF JobSays
    <3>2. \A r \in 1..MaxRuns : Loose(<<j, r>>)' => r = task[j].nth
      <4>1. \A r \in 1..MaxRuns : ~Loose(<<j, r>>)
        BY <1>1, <1>5, <2>2, <3>1 DEF JobSays, Mine
      <4> QED  BY <1>7, <4>1, BoxOfJob
    <3>3. \A r \in 1..MaxRuns : Loose(<<j, r>>)' => Mine(j, r)'
      BY <1>3, <1>4, <3>2 DEF Mine
    <3> QED  BY <1>1, <1>3, <1>4, <3>1, <3>3 DEF JobSays
  <2> QED  BY <2>1, <2>2
<1>10. Spared(j)
  BY <1>3, <1>4, <1>6 DEF Spared
<1>11. missed' \subseteq Boxes /\ again \subseteq again' /\ again' \subseteq Tasks /\ trouble' \in 0..MaxTrouble
  BY <1>1 DEF MachineTypeOK
<1>12. /\ life' = life /\ pid' = pid /\ command' = command /\ found' = found /\ known' = known
       /\ starts' = starts
  BY <1>1
<1>13. \A b \in Boxes : Loose(b)' => Loose(b) \/ \E r \in 1..MaxRuns : b = <<j, r>>
  BY <1>7, <1>8
<1> QED  BY <1>4, <1>5, <1>6, <1>9, <1>10, <1>11, <1>12, <1>13, JobStepKeeps

LEMMA LaunchedKeeps ==
  \* The launch has been noted.
  ASSUME MachineInv, NEW j \in Tasks, Launched(j)
  PROVE  MachineInv' /\ SparesTheLiving
<1> DEFINE t == [task[j] EXCEPT !.step = "idle", !.run = task[j].nth, !.fin = task[j].nth, !.killing = FALSE]
<1>1. /\ MachineTypeOK /\ JobSays(j) /\ DaemonLives /\ task[j].step = "started" /\ Set(j, t)
      /\ UNCHANGED <<life, pid, command, box, found, known, missed, again, starts, trouble>>
  BY MachineParts DEF Launched
<1>2. task[j] \in Memory /\ task[j].nth \in 0..MaxRuns
  BY <1>1, MemoryIs
<1>3. /\ t \in Memory /\ t.step = "idle" /\ t.run = task[j].nth /\ t.fin = task[j].nth
      /\ t.done = task[j].done /\ t.due = task[j].due /\ t.scratch = task[j].scratch
      /\ t.reg = task[j].reg /\ t.nth = task[j].nth
  BY <1>2 DEF Memory
<1> HIDE DEF t
<1>4. task' \in [Tasks -> Memory] /\ task'[j] = t /\ \A i \in Tasks : i # j => task'[i] = task[i]
  BY <1>1, <1>3, SetIs
<1>5. Serving
  BY <1>1, Wakes
<1>6. \A b \in Boxes : Loose(b)' => Loose(b)
  BY <1>1 DEF Loose
<1>7. JobSays(j)'
  <2>1. CASE j \in again
    BY <1>1, <1>3, <1>4, <2>1 DEF JobSays
  <2>2. CASE j \notin again
    <3>1. task[j].run = 0 /\ task[j].fin = 0 /\ ~task[j].done /\ ~task[j].due /\ task[j].reg = task[j].nth
      BY <1>1, <2>2 DEF JobSays
    <3>2. \A r \in 1..MaxRuns : Loose(<<j, r>>)' => r = task[j].nth
      <4>1. \A r \in 1..MaxRuns : Loose(<<j, r>>) => r = task[j].nth
        BY <1>1, <1>5, <2>2, <3>1 DEF JobSays, Mine
      <4> QED  BY <1>6, <4>1, BoxOfJob
    <3>3. \A r \in 1..MaxRuns : Loose(<<j, r>>)' => Mine(j, r)'
      BY <1>3, <1>4, <3>2 DEF Mine
    <3> QED  BY <1>1, <1>3, <1>4, <3>1, <3>3 DEF JobSays
  <2> QED  BY <2>1, <2>2
<1>8. Spared(j)
  BY <1>1, <1>3, <1>4 DEF Spared
<1>9. /\ box' \in [Boxes -> {"none", "starting", "up"}]
      /\ missed' \subseteq Boxes /\ again \subseteq again' /\ again' \subseteq Tasks /\ trouble' \in 0..MaxTrouble
  BY <1>1 DEF MachineTypeOK
<1>10. /\ life' = life /\ pid' = pid /\ command' = command /\ found' = found /\ known' = known
       /\ starts' = starts
  BY <1>1
<1> QED  BY <1>4, <1>5, <1>6, <1>7, <1>8, <1>9, <1>10, JobStepKeeps

LEMMA ReportSays ==
  \* A run that is reported awaits its acknowledgement.
  ASSUME MachineInv, NEW j \in Tasks, Serving, life' = life, again' = again, task[j].run # 0,
         task'[j].step = task[j].step, task'[j].nth = task[j].nth, task'[j].run = 0,
         task'[j].fin = task[j].fin, task'[j].reg = task[j].reg, task'[j].done,
         \A b \in Boxes : Loose(b)' => Loose(b)
  PROVE  JobSays(j)'
<1>1. MachineTypeOK /\ JobSays(j)
  BY MachineParts
<1>2. CASE j \in again
  BY <1>1, <1>2 DEF JobSays
<1>3. CASE j \notin again
  <2>1. task[j].step = "idle" /\ task[j].fin = task[j].run /\ task[j].reg = task[j].run
    BY <1>1, <1>3 DEF JobSays
  <2>2. \A r \in 1..MaxRuns : Loose(<<j, r>>) => Mine(j, r)'
    BY <1>1, <1>3, <2>1 DEF JobSays, Mine
  <2>3. \A r \in 1..MaxRuns : Loose(<<j, r>>)' => Mine(j, r)'
    BY <2>2, BoxOfJob
  <2> QED  BY <1>1, <2>1, <2>3 DEF JobSays
<1> QED  BY <1>2, <1>3

LEMMA ReportedIs ==
  \* A report changes what is remembered, and no names.
  ASSUME NEW m \in Memory, NEW d \in BOOLEAN
  PROVE  LET t == [Reported(m) EXCEPT !.due = d] IN
         /\ t \in Memory /\ t.step = m.step /\ t.nth = m.nth /\ t.run = 0 /\ t.fin = m.fin
         /\ t.reg = m.reg /\ t.scratch = m.scratch /\ t.done
<1>1. 0 \in 0..MaxRuns
  BY MachineAssumption
<1> QED  BY <1>1 DEF Reported, Memory

LEMMA ExitedKeeps ==
  \* A run has ended by itself.
  ASSUME MachineInv, NEW j \in Tasks, Exited(j)
  PROVE  MachineInv' /\ SparesTheLiving
<1> DEFINE t == Reported(task[j])
<1>1. /\ MachineTypeOK /\ JobSays(j) /\ life = "up" /\ task[j].run # 0 /\ Set(j, t)
      /\ UNCHANGED <<life, pid, command, box, found, known, missed, again, starts, trouble>>
  BY MachineParts DEF Exited
<1>2. task[j] \in Memory /\ 0 \in 0..MaxRuns
  BY <1>1, MemoryIs, MachineAssumption
<1>3. /\ t \in Memory /\ t.step = task[j].step /\ t.run = 0 /\ t.fin = task[j].fin
      /\ t.done /\ t.scratch = task[j].scratch
      /\ t.reg = task[j].reg /\ t.nth = task[j].nth
  BY <1>2 DEF Memory, Reported
<1> HIDE DEF t
<1>4. task' \in [Tasks -> Memory] /\ task'[j] = t /\ \A i \in Tasks : i # j => task'[i] = task[i]
  BY <1>1, <1>3, SetIs
<1>5. Serving
  BY <1>1 DEF Serving
<1>6. \A b \in Boxes : Loose(b)' => Loose(b)
  BY <1>1 DEF Loose
<1>7. JobSays(j)'
  BY <1>1, <1>3, <1>4, <1>5, <1>6, ReportSays
<1>8. Spared(j)
  BY <1>1, <1>3, <1>4 DEF Spared
<1>9. /\ box' \in [Boxes -> {"none", "starting", "up"}]
      /\ missed' \subseteq Boxes /\ again \subseteq again' /\ again' \subseteq Tasks /\ trouble' \in 0..MaxTrouble
  BY <1>1 DEF MachineTypeOK
<1>10. /\ life' = life /\ pid' = pid /\ command' = command /\ found' = found /\ known' = known
       /\ starts' = starts
  BY <1>1
<1> QED  BY <1>4, <1>5, <1>6, <1>7, <1>8, <1>9, <1>10, JobStepKeeps

LEMMA SignalLost ==
  \* A signal makes nothing loose.
  ASSUME MachineTypeOK, NEW j \in Tasks, SignalBox(j), Lost({})
  PROVE  missed' \subseteq Boxes /\ \A b \in Boxes : Loose(b)' => Loose(b)
<1>1. \A b \in Boxes : box'[b] = box[b] \/ box'[b] = "none"
  BY SignalIs
<1>2. {} \in SUBSET Boxes
  OBVIOUS
<1> QED  BY <1>1, <1>2, LostIs

LEMMA LimitKeeps ==
  \* A run is stopped at its limit.
  ASSUME MachineInv, NEW j \in Tasks, NEW delayed \in BOOLEAN, LimitReached(j, delayed)
  PROVE  MachineInv' /\ SparesTheLiving
<1> DEFINE t == [Reported(task[j]) EXCEPT !.due = task[j].due \/ delayed]
<1>1. /\ MachineTypeOK /\ JobSays(j) /\ life = "up" /\ task[j].run # 0 /\ Set(j, t)
      /\ SignalBox(j) /\ Lost({})
      /\ UNCHANGED <<life, pid, command, found, known, again, starts>>
  BY MachineParts DEF LimitReached
<1>2. task[j] \in Memory /\ task[j].due \in BOOLEAN
  BY <1>1, MemoryIs
<1>3. /\ t \in Memory /\ t.step = task[j].step /\ t.run = 0 /\ t.fin = task[j].fin
      /\ t.done /\ t.scratch = task[j].scratch
      /\ t.reg = task[j].reg /\ t.nth = task[j].nth
  <2> DEFINE d == task[j].due \/ delayed
  <2>1. d \in BOOLEAN
    OBVIOUS
  <2> HIDE DEF d
  <2>2. t = [Reported(task[j]) EXCEPT !.due = d]
    BY DEF d
  <2> QED  BY <1>2, <2>1, <2>2, ReportedIs
<1> HIDE DEF t
<1>4. task' \in [Tasks -> Memory] /\ task'[j] = t /\ \A i \in Tasks : i # j => task'[i] = task[i]
  BY <1>1, <1>3, SetIs
<1>5. Serving
  BY <1>1 DEF Serving
<1>6. missed' \subseteq Boxes /\ \A b \in Boxes : Loose(b)' => Loose(b)
  BY <1>1, SignalLost
<1>7. JobSays(j)'
  BY <1>1, <1>3, <1>4, <1>5, <1>6, ReportSays
<1>8. /\ box' \in [Boxes -> {"none", "starting", "up"}] /\ trouble' \in 0..MaxTrouble
      /\ \A b \in Boxes : box'[b] = box[b] \/ (box'[b] = "none" /\ b \in Registered(j))
  BY <1>1, SignalIs
<1>9. Spared(j)
  BY <1>3, <1>4, <1>8 DEF Spared
<1>10. again \subseteq again' /\ again' \subseteq Tasks
  BY <1>1 DEF MachineTypeOK
<1>11. /\ life' = life /\ pid' = pid /\ command' = command /\ found' = found /\ known' = known
       /\ starts' = starts
  BY <1>1
<1> QED  BY <1>4, <1>5, <1>6, <1>7, <1>8, <1>9, <1>10, <1>11, JobStepKeeps

LEMMA KillKeeps ==
  \* A run is killed, or stays as it was and marked.
  ASSUME MachineInv, NEW j \in Tasks, Kill(j)
  PROVE  MachineInv' /\ SparesTheLiving
<1>1. /\ MachineTypeOK /\ JobSays(j) /\ life = "up" /\ task[j].run # 0
      /\ SignalBox(j) /\ Lost({})
      /\ UNCHANGED <<life, pid, command, found, known, again, starts>>
  BY MachineParts DEF Kill
<1>2. task[j] \in Memory
  BY <1>1, MemoryIs
<1>3. Serving
  BY <1>1 DEF Serving
<1>4. missed' \subseteq Boxes /\ \A b \in Boxes : Loose(b)' => Loose(b)
  BY <1>1, SignalLost
<1>5. /\ box' \in [Boxes -> {"none", "starting", "up"}] /\ trouble' \in 0..MaxTrouble
      /\ \A b \in Boxes : box'[b] = box[b] \/ (box'[b] = "none" /\ b \in Registered(j))
      /\ trouble' # trouble => box' = box
  BY <1>1, SignalIs
<1>6. again \subseteq again' /\ again' \subseteq Tasks
  BY <1>1 DEF MachineTypeOK
<1>7. /\ life' = life /\ pid' = pid /\ command' = command /\ found' = found /\ known' = known
      /\ starts' = starts /\ again' = again
  BY <1>1
<1>8. CASE trouble' = trouble
  <2> DEFINE t == [Reported(task[j]) EXCEPT !.due = TRUE]
  <2>1. Set(j, t)
    BY <1>8 DEF Kill
  <2>2. /\ t \in Memory /\ t.step = task[j].step /\ t.run = 0 /\ t.fin = task[j].fin
        /\ t.done /\ t.scratch = task[j].scratch
        /\ t.reg = task[j].reg /\ t.nth = task[j].nth
    BY <1>2, ReportedIs
  <2> HIDE DEF t
  <2>3. task' \in [Tasks -> Memory] /\ task'[j] = t /\ \A i \in Tasks : i # j => task'[i] = task[i]
    BY <1>1, <2>1, <2>2, SetIs
  <2>4. JobSays(j)'
    BY <1>1, <1>3, <1>4, <1>7, <2>2, <2>3, ReportSays
  <2>5. Spared(j)
    BY <1>5, <2>2, <2>3 DEF Spared
  <2> QED  BY <1>3, <1>4, <1>5, <1>6, <1>7, <2>3, <2>4, <2>5, JobStepKeeps
<1>9. CASE trouble' # trouble
  <2> DEFINE t == [task[j] EXCEPT !.killing = TRUE]
  <2>1. Set(j, t)
    BY <1>9 DEF Kill
  <2>2. /\ t \in Memory /\ t.step = task[j].step /\ t.run = task[j].run /\ t.fin = task[j].fin
        /\ t.done = task[j].done /\ t.due = task[j].due /\ t.scratch = task[j].scratch
        /\ t.reg = task[j].reg /\ t.nth = task[j].nth
    BY <1>2 DEF Memory
  <2> HIDE DEF t
  <2>3. task' \in [Tasks -> Memory] /\ task'[j] = t /\ \A i \in Tasks : i # j => task'[i] = task[i]
    BY <1>1, <2>1, <2>2, SetIs
  <2>4. JobSays(j)'
    <3>1. \A r \in 1..MaxRuns : Mine(j, r) => Mine(j, r)'
      BY <2>2, <2>3 DEF Mine
    <3>2. \A r \in 1..MaxRuns : Loose(<<j, r>>)' => Loose(<<j, r>>)
      BY <1>4, BoxOfJob
    <3> QED  BY <1>1, <1>3, <1>7, <2>2, <2>3, <3>1, <3>2 DEF JobSays
  <2>5. Spared(j)
    BY <1>5, <1>9, <2>2, <2>3 DEF Spared
  <2> QED  BY <1>3, <1>4, <1>5, <1>6, <1>7, <2>3, <2>4, <2>5, JobStepKeeps
<1> QED  BY <1>8, <1>9

LEMMA KillAgainKeeps ==
  \* The KILL that was due hits the run it was meant for, or nothing.
  ASSUME MachineInv, NEW j \in Tasks, KillAgain(j)
  PROVE  MachineInv' /\ SparesTheLiving
<1> DEFINE t == [task[j] EXCEPT !.due = FALSE]
<1>1. /\ MachineTypeOK /\ JobSays(j) /\ DaemonLives /\ task[j].due /\ Set(j, t)
      /\ SignalBox(j) /\ Lost({})
      /\ UNCHANGED <<life, pid, command, found, known, again, starts>>
  BY MachineParts DEF KillAgain
<1>2. task[j] \in Memory
  BY <1>1, MemoryIs
<1>3. /\ t \in Memory /\ t.step = task[j].step /\ t.run = task[j].run /\ t.fin = task[j].fin
      /\ t.done = task[j].done /\ t.scratch = task[j].scratch /\ ~t.due
      /\ t.reg = task[j].reg /\ t.nth = task[j].nth
  BY <1>2 DEF Memory
<1> HIDE DEF t
<1>4. task' \in [Tasks -> Memory] /\ task'[j] = t /\ \A i \in Tasks : i # j => task'[i] = task[i]
  BY <1>1, <1>3, SetIs
<1>5. Serving
  BY <1>1, Wakes
<1>6. missed' \subseteq Boxes /\ \A b \in Boxes : Loose(b)' => Loose(b)
  BY <1>1, SignalLost
<1>7. /\ box' \in [Boxes -> {"none", "starting", "up"}] /\ trouble' \in 0..MaxTrouble
      /\ \A b \in Boxes : box'[b] = box[b] \/ (box'[b] = "none" /\ b \in Registered(j))
  BY <1>1, SignalIs
<1>8. /\ life' = life /\ pid' = pid /\ command' = command /\ found' = found /\ known' = known
      /\ starts' = starts /\ again' = again
  BY <1>1
<1>9. JobSays(j)'
  <2>1. \A r \in 1..MaxRuns : Mine(j, r) => Mine(j, r)'
    BY <1>3, <1>4 DEF Mine
  <2>2. \A r \in 1..MaxRuns : Loose(<<j, r>>)' => Loose(<<j, r>>)
    BY <1>6, BoxOfJob
  <2> QED  BY <1>1, <1>3, <1>4, <1>5, <1>8, <2>1, <2>2 DEF JobSays
<1>10. Spared(j)
  <2>1. j \notin again => task[j].run = 0
    BY <1>1 DEF JobSays
  <2> QED  BY <1>7, <2>1 DEF Spared
<1>11. again \subseteq again' /\ again' \subseteq Tasks
  BY <1>1 DEF MachineTypeOK
<1> QED  BY <1>4, <1>5, <1>6, <1>7, <1>8, <1>9, <1>10, <1>11, JobStepKeeps

LEMMA CleanupIs ==
  \* What cleaning up after a run leaves.
  ASSUME MachineTypeOK, NEW j \in Tasks, NEW t \in Memory, Cleanup(j, t)
  PROVE  /\ task' \in [Tasks -> Memory] /\ \A i \in Tasks : i # j => task'[i] = task[i]
         /\ task'[j].step = t.step /\ task'[j].nth = t.nth /\ task'[j].run = t.run /\ task'[j].fin = t.fin
         /\ task'[j].done = t.done /\ task'[j].due = t.due
         /\ box' \in [Boxes -> {"none", "starting", "up"}] /\ trouble' \in 0..MaxTrouble
         /\ \A b \in Boxes : box'[b] = box[b] \/ (box'[b] = "none" /\ b \in Registered(j))
         /\ missed' \subseteq Boxes
         /\ \A b \in Boxes : Loose(b)' => Loose(b) /\ b \notin Registered(j)
<1>1. Registered(j) \in SUBSET Boxes
  BY RegisteredIs, BoxesAre
<1>2. CASE Set(j, [t EXCEPT !.scratch = FALSE, !.reg = 0]) /\ SignalBox(j) /\ Lost(Registered(j))
  <2> DEFINE u == [t EXCEPT !.scratch = FALSE, !.reg = 0]
  <2>1. 0 \in 0..MaxRuns
    BY MachineAssumption
  <2>2. /\ u \in Memory /\ u.step = t.step /\ u.nth = t.nth /\ u.run = t.run /\ u.fin = t.fin
        /\ u.done = t.done /\ u.due = t.due
    BY <2>1 DEF Memory
  <2>3. Set(j, u)
    BY <1>2
  <2> HIDE DEF u
  <2>4. task' \in [Tasks -> Memory] /\ task'[j] = u /\ \A i \in Tasks : i # j => task'[i] = task[i]
    BY <2>2, <2>3, SetIs
  <2>5. /\ box' \in [Boxes -> {"none", "starting", "up"}] /\ trouble' \in 0..MaxTrouble
        /\ \A b \in Boxes : box'[b] = box[b] \/ (box'[b] = "none" /\ b \in Registered(j))
    BY <1>2, SignalIs
  <2>6. \A b \in Boxes : box'[b] = box[b] \/ box'[b] = "none"
    BY <2>5
  <2>7. /\ missed' \subseteq Boxes /\ \A b \in Boxes : Loose(b)' => Loose(b)
        /\ \A b \in Registered(j) : ~Loose(b)'
    BY <1>1, <1>2, <2>6, LostIs
  <2> QED  BY <2>2, <2>4, <2>5, <2>7
<1>3. CASE Set(j, t) /\ Trouble /\ UNCHANGED box /\ Lost(Registered(j))
  <2>1. task' \in [Tasks -> Memory] /\ task'[j] = t /\ \A i \in Tasks : i # j => task'[i] = task[i]
    BY <1>3, SetIs
  <2>2. /\ box' \in [Boxes -> {"none", "starting", "up"}] /\ box' = box
    BY <1>3 DEF MachineTypeOK
  <2>3. trouble' \in 0..MaxTrouble
    BY <1>3, TroubleIs
  <2>4. \A b \in Boxes : box'[b] = box[b] \/ box'[b] = "none"
    BY <2>2
  <2>5. /\ missed' \subseteq Boxes /\ \A b \in Boxes : Loose(b)' => Loose(b)
        /\ \A b \in Registered(j) : ~Loose(b)'
    BY <1>1, <1>3, <2>4, LostIs
  <2> QED  BY <2>1, <2>2, <2>3, <2>5
<1> QED  BY <1>2, <1>3 DEF Cleanup

LEMMA LaunchFailsKeeps ==
  \* A launch that fails is cleaned up after at once.
  ASSUME MachineInv, NEW j \in Tasks, LaunchFails(j)
  PROVE  MachineInv' /\ SparesTheLiving
<1> DEFINE t == [task[j] EXCEPT !.step = "idle", !.done = TRUE]
<1>1. /\ MachineTypeOK /\ JobSays(j) /\ DaemonLives /\ task[j].step = "prepared" /\ Cleanup(j, t)
      /\ UNCHANGED <<life, pid, command, found, known, again, starts>>
  BY MachineParts DEF LaunchFails
<1>2. task[j] \in Memory
  BY <1>1, MemoryIs
<1>3. t \in Memory /\ t.step = "idle" /\ t.run = task[j].run /\ t.fin = task[j].fin /\ t.done
  BY <1>2 DEF Memory
<1> HIDE DEF t
<1>4. Serving
  BY <1>1, Wakes
<1>5. /\ task' \in [Tasks -> Memory] /\ \A i \in Tasks : i # j => task'[i] = task[i]
      /\ task'[j].step = t.step /\ task'[j].run = t.run /\ task'[j].fin = t.fin /\ task'[j].done = t.done
      /\ box' \in [Boxes -> {"none", "starting", "up"}] /\ trouble' \in 0..MaxTrouble
      /\ \A b \in Boxes : box'[b] = box[b] \/ (box'[b] = "none" /\ b \in Registered(j))
      /\ missed' \subseteq Boxes
      /\ \A b \in Boxes : Loose(b)' => Loose(b) /\ b \notin Registered(j)
  BY <1>1, <1>3, CleanupIs
<1>6. j \notin again => task[j].run = 0 /\ task[j].fin = 0
  BY <1>1 DEF JobSays
<1>7. JobSays(j)'
  <2>1. CASE j \in again
    BY <1>1, <1>3, <1>5, <2>1 DEF JobSays
  <2>2. CASE j \notin again
    <3>1. \A r \in 1..MaxRuns : ~Loose(<<j, r>>)
      BY <1>1, <1>4, <1>6, <2>2 DEF JobSays, Mine
    <3>2. \A r \in 1..MaxRuns : ~Loose(<<j, r>>)'
      BY <1>5, <3>1, BoxOfJob
    <3> QED  BY <1>1, <1>3, <1>5, <1>6, <2>2, <3>2 DEF JobSays
  <2> QED  BY <2>1, <2>2
<1>8. Spared(j)
  BY <1>5, <1>6 DEF Spared
<1>9. /\ life' = life /\ pid' = pid /\ command' = command /\ found' = found /\ known' = known
      /\ starts' = starts /\ again \subseteq again'
  BY <1>1
<1>10. again' \subseteq Tasks
  BY <1>1 DEF MachineTypeOK
<1> QED  BY <1>4, <1>5, <1>7, <1>8, <1>9, <1>10, JobStepKeeps

LEMMA ForgetKeeps ==
  \* A run is forgotten when its report has been acknowledged, and cleaned up after.
  ASSUME MachineInv, NEW j \in Tasks, ForgetFinished(j)
  PROVE  MachineInv' /\ SparesTheLiving
<1>1. /\ MachineTypeOK /\ JobSays(j) /\ life = "up" /\ task[j].done /\ task[j].step = "idle"
      /\ UNCHANGED <<life, pid, command, found, known, again, starts>>
  BY MachineParts DEF ForgetFinished
<1>2. task[j] \in Memory /\ 0 \in 0..MaxRuns
  BY <1>1, MemoryIs, MachineAssumption
<1>3. Serving
  BY <1>1 DEF Serving
<1>4. /\ life' = life /\ pid' = pid /\ command' = command /\ found' = found /\ known' = known
      /\ starts' = starts /\ again' = again
  BY <1>1
<1>5. again' \subseteq Tasks
  BY <1>1 DEF MachineTypeOK
<1>6. j \notin again => task[j].run = 0
  BY <1>1 DEF JobSays
<1>7. CASE task[j].fin = 0
  <2> DEFINE t == [task[j] EXCEPT !.done = FALSE]
  <2>1. Set(j, t) /\ UNCHANGED <<box, missed, trouble>>
    BY <1>7 DEF ForgetFinished
  <2>2. /\ t \in Memory /\ t.step = task[j].step /\ t.run = task[j].run /\ t.fin = task[j].fin
        /\ ~t.done /\ t.due = task[j].due /\ t.scratch = task[j].scratch
        /\ t.reg = task[j].reg /\ t.nth = task[j].nth
    BY <1>2 DEF Memory
  <2> HIDE DEF t
  <2>3. task' \in [Tasks -> Memory] /\ task'[j] = t /\ \A i \in Tasks : i # j => task'[i] = task[i]
    BY <1>1, <2>1, <2>2, SetIs
  <2>4. \A b \in Boxes : Loose(b)' => Loose(b)
    BY <2>1 DEF Loose
  <2>5. JobSays(j)'
    <3>1. \A r \in 1..MaxRuns : Mine(j, r) => Mine(j, r)'
      BY <2>2, <2>3 DEF Mine
    <3>2. \A r \in 1..MaxRuns : Loose(<<j, r>>)' => Loose(<<j, r>>)
      BY <2>4, BoxOfJob
    <3> QED  BY <1>1, <1>3, <1>4, <1>6, <1>7, <2>2, <2>3, <3>1, <3>2 DEF JobSays
  <2>6. Spared(j)
    BY <2>1, <2>2, <2>3 DEF Spared
  <2>7. box' \in [Boxes -> {"none", "starting", "up"}] /\ missed' \subseteq Boxes /\ trouble' \in 0..MaxTrouble
    BY <1>1, <2>1 DEF MachineTypeOK
  <2> QED  BY <1>3, <1>4, <1>5, <2>3, <2>4, <2>5, <2>6, <2>7, JobStepKeeps
<1>8. CASE task[j].fin # 0
  <2> DEFINE t == [task[j] EXCEPT !.done = FALSE, !.fin = 0]
  <2>1. Cleanup(j, t)
    BY <1>8 DEF ForgetFinished
  <2>2. t \in Memory /\ t.step = "idle" /\ t.run = task[j].run /\ t.fin = 0 /\ ~t.done
    BY <1>1, <1>2 DEF Memory
  <2> HIDE DEF t
  <2>3. /\ task' \in [Tasks -> Memory] /\ \A i \in Tasks : i # j => task'[i] = task[i]
        /\ task'[j].step = t.step /\ task'[j].run = t.run /\ task'[j].fin = t.fin /\ task'[j].done = t.done
        /\ box' \in [Boxes -> {"none", "starting", "up"}] /\ trouble' \in 0..MaxTrouble
        /\ \A b \in Boxes : box'[b] = box[b] \/ (box'[b] = "none" /\ b \in Registered(j))
        /\ missed' \subseteq Boxes
        /\ \A b \in Boxes : Loose(b)' => Loose(b) /\ b \notin Registered(j)
    BY <1>1, <2>1, <2>2, CleanupIs
  <2>4. JobSays(j)'
    <3>1. CASE j \in again
      BY <1>4, <2>2, <2>3, <3>1 DEF JobSays
    <3>2. CASE j \notin again
      <4>1. ASSUME NEW r \in 1..MaxRuns, Loose(<<j, r>>)' PROVE FALSE
        <5>1. Loose(<<j, r>>) /\ <<j, r>> \notin Registered(j)
          BY <2>3, <4>1, BoxOfJob
        <5>2. task[j].fin = r
          BY <1>1, <1>3, <1>6, <3>2, <5>1 DEF JobSays, Mine
        <5>3. task[j].reg = r /\ r # 0
          BY <1>1, <1>8, <3>2, <5>2 DEF JobSays
        <5> QED  BY <1>1, <5>1, <5>3, RegisteredIs
      <4> QED  BY <1>6, <2>2, <2>3, <3>2, <4>1 DEF JobSays
    <3> QED  BY <3>1, <3>2
  <2>5. Spared(j)
    BY <1>6, <2>3 DEF Spared
  <2>6. \A b \in Boxes : Loose(b)' => Loose(b)
    BY <2>3
  <2> QED  BY <1>3, <1>4, <1>5, <2>3, <2>4, <2>5, <2>6, JobStepKeeps
<1> QED  BY <1>7, <1>8

LEMMA JobsStay ==
  \* What the agent remembers is as true after a step that starts no container of a job.
  ASSUME MachineInv, Serving' => Serving, again' = again, task' = task,
         \A b \in JobBoxes : Loose(b)' => Loose(b)
  PROVE  \A j \in Tasks : JobSays(j)'
<1> SUFFICES ASSUME NEW j \in Tasks PROVE JobSays(j)'
  OBVIOUS
<1>1. JobSays(j)
  BY MachineParts
<1>2. \A r \in 1..MaxRuns : Loose(<<j, r>>)' => Loose(<<j, r>>)
  BY BoxOfJob
<1>3. \A r \in 1..MaxRuns : Mine(j, r) => Mine(j, r)'
  BY DEF Mine
<1> QED  BY <1>1, <1>2, <1>3 DEF JobSays

LEMMA ForgottenSays ==
  \* An agent that does not serve remembers nothing that could be wrong.
  ASSUME NEW j \in Tasks, ~Serving', NEW n \in 0..MaxRuns, NEW s \in BOOLEAN, task'[j] = Forgotten(n, s)
  PROVE  JobSays(j)' /\ task'[j] = Forgotten(task'[j].nth, task'[j].scratch)
<1>1. task'[j].step = "idle" /\ task'[j].run = 0 /\ task'[j].fin = 0 /\ task'[j].nth = n /\ task'[j].scratch = s
  BY ForgottenIs
<1> QED  BY <1>1 DEF JobSays

LEMMA DownIdle ==
  \* Nothing is in use of an agent that is not up, but sessions.
  ASSUME MachineInv, life # "up", NEW b, InUse(b)
  PROVE  b \in known \cup {Other}
BY DEF InUse

LEMMA Unscratched ==
  \* No scratch goes that is in use.
  ASSUME MachineInv, life # "up", NEW j \in Tasks, NEW r \in 1..MaxRuns
  PROVE  ~InUse(<<j, r>>)
<1> DEFINE b == <<j, r>>
<1>1. b \notin Shells \cup {Other}
  BY BoxOfJob
<1>2. known \subseteq Shells
  BY DEF MachineInv, MachineTypeOK
<1> HIDE DEF b
<1>3. ~InUse(b)
  BY <1>1, <1>2, DownIdle
<1> QED  BY <1>3 DEF b

LEMMA QuietStep ==
  \* A step that stops nothing and removes no scratch spares the living.
  ASSUME task' = task, \A b \in Boxes : box[b] = "up" => box'[b] # "none" \/ Ends(b)
  PROVE  SparesTheLiving
BY DEF SparesTheLiving

LEMMA ComesUpKeeps ==
  \* A container comes up.
  ASSUME MachineInv, NEW b \in Boxes, ComesUp(b)
  PROVE  MachineInv' /\ SparesTheLiving
<1>1. /\ box[b] = "starting" /\ box' = [box EXCEPT ![b] = "up"]
      /\ UNCHANGED <<life, pid, command, found, task, known, missed, again, starts, trouble>>
  BY DEF ComesUp
<1>2. MachineTypeOK /\ LifeSays /\ OthersSay
  BY DEF MachineInv
<1>3. MachineTypeOK' /\ \A c \in Boxes : box'[c] = box[c] \/ (box[c] # "none" /\ box'[c] = "up")
  BY <1>1, <1>2 DEF MachineTypeOK
<1>4. \A c \in Boxes : Loose(c)' => Loose(c)
  BY <1>1, <1>3 DEF Loose
<1>5. LifeSays'
  BY <1>1, <1>2 DEF LifeSays, Serving, Sweeping
<1>6. OthersSay'
  BY <1>1, <1>2, <1>4, BoxesAre DEF OthersSay, Serving, Sweeping
<1>7. Serving' => Serving
  BY <1>1 DEF Serving
<1>8. \A j \in Tasks : JobSays(j)'
  BY <1>1, <1>4, <1>7, BoxesAre, JobsStay
<1>9. \A c \in Boxes : box[c] = "up" => box'[c] # "none" \/ Ends(c)
  BY <1>3
<1>10. SparesTheLiving
  BY <1>1, <1>9, QuietStep
<1> QED  BY <1>3, <1>5, <1>6, <1>8, <1>10 DEF MachineInv

LEMMA EndsKeeps ==
  \* What runs in a container ends.
  ASSUME MachineInv, NEW b \in Boxes, Ends(b)
  PROVE  MachineInv' /\ SparesTheLiving
<1>1. /\ box' = [box EXCEPT ![b] = "none"] /\ Lost({})
      /\ UNCHANGED <<life, pid, command, found, task, known, again, starts, trouble>>
  BY DEF Ends
<1>2. MachineTypeOK /\ LifeSays /\ OthersSay
  BY DEF MachineInv
<1>3. box' \in [Boxes -> {"none", "starting", "up"}] /\ \A c \in Boxes : c # b => box'[c] = box[c]
  BY <1>1, <1>2 DEF MachineTypeOK
<1>4. \A c \in Boxes : box'[c] = box[c] \/ box'[c] = "none"
  BY <1>1, <1>2 DEF MachineTypeOK
<1>5. {} \in SUBSET Boxes
  OBVIOUS
<1>6. missed' \subseteq Boxes /\ \A c \in Boxes : Loose(c)' => Loose(c)
  BY <1>1, <1>2, <1>4, <1>5, LostIs
<1>7. MachineTypeOK'
  BY <1>1, <1>2, <1>3, <1>6 DEF MachineTypeOK
<1>8. LifeSays'
  BY <1>1, <1>2 DEF LifeSays, Serving, Sweeping
<1>9. OthersSay'
  BY <1>1, <1>2, <1>6, BoxesAre DEF OthersSay, Serving, Sweeping
<1>10. Serving' => Serving
  BY <1>1 DEF Serving
<1>11. \A j \in Tasks : JobSays(j)'
  BY <1>1, <1>6, <1>10, BoxesAre, JobsStay
<1>12. \A c \in Boxes : box[c] = "up" => box'[c] # "none" \/ Ends(c)
  BY <1>3
<1>13. SparesTheLiving
  BY <1>1, <1>12, QuietStep
<1> QED  BY <1>7, <1>8, <1>9, <1>11, <1>13 DEF MachineInv

LEMMA LoginKeeps ==
  \* A session is noted before its container is there.
  ASSUME MachineInv, NEW s \in Shells, Login(s)
  PROVE  MachineInv' /\ SparesTheLiving
<1>1. /\ life \in {"starting", "up"} /\ box[s] = "none"
      /\ known' = known \cup {s} /\ box' = [box EXCEPT ![s] = "starting"]
      /\ UNCHANGED <<life, pid, command, found, task, missed, again, starts, trouble>>
  BY DEF Login, ShellCommand
<1>2. MachineTypeOK /\ LifeSays /\ OthersSay
  BY DEF MachineInv
<1>3. s \in Boxes /\ s \notin JobBoxes
  BY BoxesAre
<1>4. MachineTypeOK' /\ \A c \in Boxes : c # s => box'[c] = box[c]
  BY <1>1, <1>2, <1>3 DEF MachineTypeOK
<1>5. \A c \in Boxes : Loose(c)' => Loose(c) \/ c = s
  BY <1>1, <1>4 DEF Loose
<1>6. command \in {"none", "stop"}
  BY <1>1, <1>2 DEF LifeSays
<1>7. LifeSays'
  BY <1>1, <1>2 DEF LifeSays, Serving, Sweeping
<1>8. Serving' = Serving /\ Sweeping' = Sweeping
  BY <1>1 DEF Serving, Sweeping
<1>9. OthersSay'
  BY <1>1, <1>2, <1>5, <1>6, <1>8, BoxesAre DEF OthersSay
<1>10. \A j \in Tasks : JobSays(j)'
  BY <1>1, <1>3, <1>5, <1>8, BoxesAre, JobsStay
<1>11. \A c \in Boxes : box[c] = "up" => box'[c] # "none" \/ Ends(c)
  BY <1>1, <1>4
<1>12. SparesTheLiving
  BY <1>1, <1>11, QuietStep
<1> QED  BY <1>4, <1>7, <1>9, <1>10, <1>12 DEF MachineInv

LEMMA StopIsolationKeeps ==
  \* A session is stopped when it is no longer noted.
  ASSUME MachineInv, NEW s \in Shells, StopIsolation(s)
  PROVE  MachineInv' /\ SparesTheLiving
<1>1. /\ life # "down" /\ known' = known \ {s} /\ stopContainer(s) /\ Lost({s})
      /\ UNCHANGED <<life, pid, command, found, task, again, starts>>
  BY DEF StopIsolation, DaemonLives
<1>2. MachineTypeOK /\ LifeSays /\ OthersSay
  BY DEF MachineInv
<1>3. s \in Boxes /\ s \notin JobBoxes /\ s # Other /\ {s} \in SUBSET Boxes
  BY BoxesAre
<1>4. /\ box' \in [Boxes -> {"none", "starting", "up"}] /\ trouble' \in 0..MaxTrouble
      /\ \A c \in Boxes : box'[c] = box[c] \/ (c = s /\ box'[c] = "none")
  <2>1. CASE box' = [box EXCEPT ![s] = IF @ = "up" THEN "none" ELSE @] /\ trouble' = trouble
    BY <1>2, <1>3, <2>1 DEF MachineTypeOK
  <2>2. CASE Trouble /\ box' = box
    BY <1>2, <2>2, TroubleIs DEF MachineTypeOK
  <2> QED  BY <1>1, <2>1, <2>2 DEF stopContainer
<1>5. \A c \in Boxes : box'[c] = box[c] \/ box'[c] = "none"
  BY <1>4
<1>6. missed' \subseteq Boxes /\ \A c \in Boxes : Loose(c)' => Loose(c) /\ c # s
  <2>1. /\ missed' \subseteq Boxes /\ \A c \in Boxes : Loose(c)' => Loose(c)
        /\ \A c \in {s} : ~Loose(c)'
    BY <1>1, <1>2, <1>3, <1>5, LostIs
  <2> QED  BY <2>1
<1>7. MachineTypeOK'
  BY <1>1, <1>2, <1>4, <1>6 DEF MachineTypeOK
<1>8. LifeSays'
  BY <1>1, <1>2 DEF LifeSays, Serving, Sweeping
<1>9. Serving' = Serving /\ Sweeping' = Sweeping
  BY <1>1 DEF Serving, Sweeping
<1>10. command \in {"none", "stop"}
  BY <1>1, <1>2 DEF LifeSays
<1>11. OthersSay'
  BY <1>1, <1>2, <1>6, <1>9, <1>10, BoxesAre DEF OthersSay
<1>12. \A j \in Tasks : JobSays(j)'
  BY <1>1, <1>6, <1>9, BoxesAre, JobsStay
<1>13. ~InUse(s)'
  <2>1. s \notin known' \cup {Other}
    BY <1>1, <1>3
  <2>2. \A j \in Tasks : \A r \in 1..MaxRuns : s # <<j, r>>
    BY <1>3, BoxOfJob
  <2> QED  BY <2>1, <2>2 DEF InUse
<1>14. SparesTheLiving
  BY <1>1, <1>4, <1>13 DEF SparesTheLiving
<1> QED  BY <1>7, <1>8, <1>11, <1>12, <1>14 DEF MachineInv

LEMMA StillKeeps ==
  \* A step that neither starts nor stops a container, nor touches a number.
  ASSUME MachineInv, UNCHANGED <<box, task, again>>, Serving' => Serving,
         MachineTypeOK', LifeSays', OthersSay', \A b \in Boxes : Loose(b)' => Loose(b)
  PROVE  MachineInv' /\ SparesTheLiving
<1>1. MachineTypeOK
  BY DEF MachineInv
<1>2. \A j \in Tasks : JobSays(j)'
  BY BoxesAre, JobsStay
<1>3. \A b \in Boxes : box[b] = "up" => box'[b] # "none" \/ Ends(b)
  BY <1>1 DEF MachineTypeOK
<1>4. SparesTheLiving
  BY <1>3, QuietStep
<1> QED  BY <1>2, <1>4 DEF MachineInv

LEMMA StartKeeps ==
  \* up starts a daemon where none lives.
  ASSUME MachineInv, Start
  PROVE  MachineInv' /\ SparesTheLiving
<1>1. /\ pid # "current" /\ command = "none" /\ starts < MaxStarts
      /\ starts' = starts + 1 /\ life' = "starting" /\ pid' = "current"
      /\ UNCHANGED <<command, box, found, task, known, missed, again, trouble>>
  BY DEF Start, Status, WritePID
<1>2. MachineTypeOK /\ LifeSays /\ OthersSay
  BY DEF MachineInv
<1>3. life = "down" /\ ~Sweeping
  BY <1>1, <1>2 DEF LifeSays
<1>4. starts' \in 0..MaxStarts
  BY <1>1, <1>2, MachineAssumption DEF MachineTypeOK
<1>5. MachineTypeOK'
  BY <1>1, <1>2, <1>4 DEF MachineTypeOK
<1>6. ~Serving /\ ~Serving' /\ ~Sweeping'
  BY <1>1, <1>3 DEF Serving, Sweeping
<1>7. LifeSays'
  BY <1>1, <1>2, <1>6 DEF LifeSays
<1>8. OthersSay'
  BY <1>1, <1>6 DEF OthersSay
<1>9. \A b \in Boxes : Loose(b)' => Loose(b)
  BY <1>1 DEF Loose
<1> QED  BY <1>1, <1>5, <1>6, <1>7, <1>8, <1>9, StillKeeps

LEMMA ListKeeps ==
  \* What a sweep finds is found.
  ASSUME MachineInv, ListBoxes, UNCHANGED <<life, pid, command, box, task, known, again, starts, trouble>>,
         life # "down" \/ command = "check"
  PROVE  MachineInv' /\ SparesTheLiving
<1>1. MachineTypeOK /\ LifeSays /\ OthersSay
  BY DEF MachineInv
<1>2. /\ found' \in SUBSET Boxes /\ found' # NotSweeping /\ missed' \subseteq Boxes
      /\ \A b \in Boxes : Loose(b)' => Loose(b) /\ b \in found' \cup known
  BY <1>1, ListIs
<1>3. MachineTypeOK'
  BY <1>1, <1>2 DEF MachineTypeOK
<1>4. Serving' = Serving
  BY DEF Serving
<1>5. LifeSays'
  BY <1>1, <1>4 DEF LifeSays
<1>6. command # "sweep"
  BY <1>1 DEF LifeSays
<1>7. OthersSay'
  BY <1>1, <1>2, <1>4, <1>6, BoxesAre DEF OthersSay
<1>8. \A b \in Boxes : Loose(b)' => Loose(b)
  BY <1>2
<1> QED  BY <1>3, <1>4, <1>5, <1>7, <1>8, StillKeeps

LEMMA NukeKeeps ==
  \* nuke asks, the daemon is told to go, and has gone.
  ASSUME MachineInv, Nuke \/ Terminated \/ Stopped
  PROVE  MachineInv' /\ SparesTheLiving
<1>1. MachineTypeOK /\ LifeSays /\ OthersSay
  BY DEF MachineInv
<1>2. /\ UNCHANGED <<box, found, task, known, missed, again, starts, trouble>>
      /\ \/ command = "none" /\ command' = "stop" /\ life' = life /\ pid' = pid
         \/ life = "up" /\ command \in {"none", "stop"} /\ life' = "closing" /\ command' = command /\ pid' = pid
         \/ command = "stop" /\ pid # "current" /\ command' = "remove" /\ pid' = "none" /\ life' = life
  BY DEF Nuke, Terminated, Stopped, Status
<1>3. MachineTypeOK'
  BY <1>1, <1>2 DEF MachineTypeOK
<1>4. (Serving' <=> Serving) /\ (Sweeping' <=> Sweeping)
  BY <1>2 DEF Serving, Sweeping
<1>5. LifeSays'
  BY <1>1, <1>2, <1>4 DEF LifeSays
<1>6. \A b \in Boxes : Loose(b)' <=> Loose(b)
  BY <1>2 DEF Loose
<1>7. life' = "starting" => life = "starting"
  BY <1>2
<1>8. OthersSay'
  BY <1>1, <1>2, <1>4, <1>6, <1>7, BoxesAre DEF OthersSay
<1> QED  BY <1>2, <1>3, <1>4, <1>5, <1>6, <1>8, StillKeeps

LEMMA SweptScratch ==
  \* A directory is removed, and nothing else of a number.
  ASSUME NEW n \in 0..MaxRuns, NEW s \in BOOLEAN
  PROVE  [Forgotten(n, s) EXCEPT !.scratch = FALSE] = Forgotten(n, FALSE)
<1> DEFINE u == Forgotten(n, s)  v == [u EXCEPT !.scratch = FALSE]  w == Forgotten(n, FALSE)
<1>1. /\ u \in Memory /\ u.step = "idle" /\ u.nth = n /\ u.run = 0 /\ u.fin = 0 /\ u.reg = 0
      /\ u.done = FALSE /\ u.killing = FALSE /\ u.due = FALSE
  <2>1. u \in Memory
    BY ForgottenIs
  <2> QED  BY <2>1 DEF Forgotten
<1>2. /\ w \in Memory /\ w.step = "idle" /\ w.nth = n /\ w.run = 0 /\ w.fin = 0 /\ w.reg = 0
      /\ w.scratch = FALSE /\ w.done = FALSE /\ w.killing = FALSE /\ w.due = FALSE
  <2>1. w \in Memory
    BY ForgottenIs
  <2> QED  BY <2>1 DEF Forgotten
<1> HIDE DEF u, w
<1>3. /\ v \in Memory /\ v.step = u.step /\ v.nth = u.nth /\ v.run = u.run /\ v.fin = u.fin
      /\ v.reg = u.reg /\ v.scratch = FALSE /\ v.done = u.done /\ v.killing = u.killing /\ v.due = u.due
  BY <1>1 DEF Memory
<1> HIDE DEF v
<1>4. v = w
  BY <1>1, <1>2, <1>3 DEF Memory
<1> QED  BY <1>4 DEF u, v, w

LEMMA SweptTasks ==
  \* The directories of numbers an agent does not remember.
  ASSUME MachineInv, ~Serving,
         task' = [j \in Tasks |-> [task[j] EXCEPT !.scratch = FALSE]]
  PROVE  /\ task' \in [Tasks -> Memory]
         /\ \A j \in Tasks : task[j].nth \in 0..MaxRuns /\ task'[j] = Forgotten(task[j].nth, FALSE)
<1>1. MachineTypeOK /\ LifeSays
  BY DEF MachineInv
<1>2. ASSUME NEW j \in Tasks
      PROVE  task[j].nth \in 0..MaxRuns /\ [task[j] EXCEPT !.scratch = FALSE] = Forgotten(task[j].nth, FALSE)
  <2> DEFINE n == task[j].nth  s == task[j].scratch
  <2>1. n \in 0..MaxRuns /\ s \in BOOLEAN
    BY <1>1, MemoryIs
  <2>2. task[j] = Forgotten(n, s)
    BY <1>1 DEF LifeSays
  <2> HIDE DEF n, s
  <2>3. [task[j] EXCEPT !.scratch = FALSE] = Forgotten(n, FALSE)
    BY <2>1, <2>2, SweptScratch
  <2> QED  BY <2>1, <2>3 DEF n
<1>3. \A j \in Tasks : Forgotten(task[j].nth, FALSE) \in Memory
  BY <1>2, ForgottenIs
<1> QED  BY <1>2, <1>3

LEMMA SweepScratchKeeps ==
  \* An agent serves once what it does not know has been stopped.
  ASSUME MachineInv, SweepOrphanScratch
  PROVE  MachineInv' /\ SparesTheLiving
<1>1. /\ life = "starting" /\ Sweeping /\ life' = "up" /\ SweepOrphanIsolation /\ OrphanScratch
      /\ UNCHANGED <<pid, command, known, again, starts>>
  BY DEF SweepOrphanScratch
<1>2. MachineTypeOK /\ LifeSays /\ OthersSay
  BY DEF MachineInv
<1>3. ~Serving /\ Serving'
  BY <1>1 DEF Serving
<1>4. \A j \in Tasks : j \notin RunningTasks
  <2> SUFFICES ASSUME NEW j \in Tasks PROVE task[j].run = 0
    BY DEF RunningTasks
  <2>1. task[j] = Forgotten(task[j].nth, task[j].scratch)
    BY <1>2, <1>3 DEF LifeSays
  <2>2. task[j].nth \in 0..MaxRuns /\ task[j].scratch \in BOOLEAN
    BY <1>2, MemoryIs
  <2> QED  BY <2>1, <2>2, ForgottenIs
<1>5. task' = [j \in Tasks |-> [task[j] EXCEPT !.scratch = FALSE]]
  BY <1>1, <1>4 DEF OrphanScratch
<1>6. /\ task' \in [Tasks -> Memory]
      /\ \A j \in Tasks : task[j].nth \in 0..MaxRuns /\ task'[j] = Forgotten(task[j].nth, FALSE)
  BY <1>3, <1>5, SweptTasks
<1>7. /\ found' = NotSweeping /\ missed' \subseteq Boxes /\ trouble' \in 0..MaxTrouble
      /\ box' \in [Boxes -> {"none", "starting", "up"}]
      /\ \A b \in Boxes : box'[b] = box[b] \/ (box'[b] = "none" /\ b \in Doomed)
      /\ \A b \in Boxes : Loose(b)' => Loose(b) /\ b \notin Doomed
  BY <1>1, <1>2, SweepIs
<1>8. MachineTypeOK'
  BY <1>1, <1>2, <1>6, <1>7 DEF MachineTypeOK
<1>9. LifeSays'
  BY <1>1, <1>2, <1>3 DEF LifeSays
<1>10. \A b \in Boxes : Loose(b)' => b \in known' \cup {Other}
  BY <1>1, <1>2, <1>7 DEF OthersSay, Doomed
<1>11. command' \in {"none", "stop"}
  BY <1>1, <1>2 DEF LifeSays
<1>12. OthersSay'
  BY <1>1, <1>10, <1>11, BoxesAre DEF OthersSay
<1>13. ASSUME NEW j \in Tasks PROVE JobSays(j)'
  <2>1. task'[j].step = "idle" /\ task'[j].run = 0 /\ task'[j].fin = 0
    <3>1. task[j].nth \in 0..MaxRuns /\ task'[j] = Forgotten(task[j].nth, FALSE)
      BY <1>6
    <3> QED  BY <3>1, ForgottenIs
  <2>2. \A r \in 1..MaxRuns : ~Loose(<<j, r>>)'
    <3>1. known' \subseteq Shells
      BY <1>1, <1>2 DEF MachineTypeOK
    <3> QED  BY <1>10, <3>1, BoxOfJob
  <2> QED  BY <2>1, <2>2 DEF JobSays
<1>14. \A b \in Boxes : box[b] = "up" /\ box'[b] = "none" => ~InUse(b)
  <2> SUFFICES ASSUME NEW b \in Boxes, box[b] = "up", box'[b] = "none", InUse(b) PROVE FALSE
    OBVIOUS
  <2>1. b \in Doomed
    BY <1>7
  <2>2. b \in known \cup {Other}
    BY <1>1, DownIdle
  <2> QED  BY <2>1, <2>2 DEF Doomed
<1>15. \A j \in Tasks : \A r \in 1..MaxRuns : ~InUse(<<j, r>>)
  BY <1>1, Unscratched
<1>16. SparesTheLiving
  BY <1>14, <1>15 DEF SparesTheLiving
<1> QED  BY <1>8, <1>9, <1>12, <1>13, <1>16 DEF MachineInv

LEMMA GoneKeeps ==
  \* What a daemon remembered goes with it; what it ran does not.
  ASSUME MachineInv, MemoryGone, life # "down", UNCHANGED <<command, again, starts>>,
         pid' \in {"none", "current", "stale"}, trouble' \in 0..MaxTrouble,
         missed' \subseteq Boxes, box' \in [Boxes -> {"none", "starting", "up"}],
         \A b \in Boxes : box[b] = "up" /\ box'[b] = "none" => b # Other
  PROVE  MachineInv' /\ SparesTheLiving
<1>1. MachineTypeOK /\ LifeSays
  BY DEF MachineInv
<1>2. /\ task' = [j \in Tasks |-> Forgotten(task[j].nth, task[j].scratch)]
      /\ known' = {} /\ found' = NotSweeping /\ life' = "down"
  BY DEF MemoryGone
<1>3. \A j \in Tasks : task[j].nth \in 0..MaxRuns /\ task[j].scratch \in BOOLEAN
  BY <1>1, MemoryIs
<1>4. \A j \in Tasks : Forgotten(task[j].nth, task[j].scratch) \in Memory
  BY <1>3, ForgottenIs
<1>5. task' \in [Tasks -> Memory]
  BY <1>2, <1>4
<1>6. MachineTypeOK'
  BY <1>1, <1>2, <1>5 DEF MachineTypeOK
<1>7. ~Serving' /\ ~Sweeping'
  BY <1>2 DEF Serving, Sweeping
<1>8. ASSUME NEW j \in Tasks
      PROVE  JobSays(j)' /\ task'[j] = Forgotten(task'[j].nth, task'[j].scratch)
                /\ task'[j].scratch = task[j].scratch
  <2> DEFINE n == task[j].nth  s == task[j].scratch
  <2>1. n \in 0..MaxRuns /\ s \in BOOLEAN /\ task'[j] = Forgotten(n, s) /\ s = task[j].scratch
    BY <1>2, <1>3
  <2> HIDE DEF n, s
  <2>2. task'[j].scratch = s
    BY <2>1, ForgottenIs
  <2> QED  BY <1>7, <2>1, <2>2, ForgottenSays
<1>9. LifeSays'
  BY <1>1, <1>2, <1>7, <1>8 DEF LifeSays
<1>10. command' \in {"none", "stop"}
  BY <1>1 DEF LifeSays
<1>11. OthersSay'
  BY <1>2, <1>7, <1>10 DEF OthersSay
<1>12. \A b : InUse(b)' => b = Other
  BY <1>2 DEF InUse
<1>13. SparesTheLiving
  BY <1>8, <1>12 DEF SparesTheLiving
<1> QED  BY <1>6, <1>8, <1>9, <1>11, <1>13 DEF MachineInv

LEMMA DaemonGoesKeeps ==
  \* A daemon exits, or crashes.
  ASSUME MachineInv, DaemonExits \/ DaemonCrashes
  PROVE  MachineInv' /\ SparesTheLiving
<1>1. MachineTypeOK
  BY DEF MachineInv
<1>2. CASE DaemonExits
  <2>1. /\ life = "closing" /\ MemoryGone /\ ClearPID /\ UNCHANGED <<command, again, starts>>
        /\ \/ Sweeping /\ SweepOrphanIsolation
           \/ UNCHANGED <<box, missed, trouble>>
    BY <1>2 DEF DaemonExits
  <2>2. pid' \in {"none", "current", "stale"}
    BY <1>1, <2>1 DEF ClearPID, MachineTypeOK
  <2>3. /\ trouble' \in 0..MaxTrouble /\ missed' \subseteq Boxes
        /\ box' \in [Boxes -> {"none", "starting", "up"}]
        /\ \A b \in Boxes : box[b] = "up" /\ box'[b] = "none" => b # Other
    <3>1. CASE Sweeping /\ SweepOrphanIsolation
      <4>1. /\ missed' \subseteq Boxes /\ trouble' \in 0..MaxTrouble
            /\ box' \in [Boxes -> {"none", "starting", "up"}]
            /\ \A b \in Boxes : box'[b] = box[b] \/ (box'[b] = "none" /\ b \in Doomed)
        BY <1>1, <3>1, SweepIs
      <4> QED  BY <4>1 DEF Doomed
    <3>2. CASE UNCHANGED <<box, missed, trouble>>
      BY <1>1, <3>2 DEF MachineTypeOK
    <3> QED  BY <2>1, <3>1, <3>2
  <2> QED  BY <2>1, <2>2, <2>3, GoneKeeps
<1>3. CASE DaemonCrashes
  <2>1. /\ life # "down" /\ Trouble /\ MemoryGone /\ pid' = "stale"
        /\ UNCHANGED <<command, box, missed, again, starts>>
    BY <1>3 DEF DaemonCrashes, DaemonLives
  <2>2. /\ trouble' \in 0..MaxTrouble /\ missed' \subseteq Boxes
        /\ box' \in [Boxes -> {"none", "starting", "up"}]
        /\ \A b \in Boxes : box[b] = "up" /\ box'[b] = "none" => b # Other
    BY <1>1, <2>1, TroubleIs DEF MachineTypeOK
  <2> QED  BY <2>1, <2>2, GoneKeeps
<1> QED  BY <1>2, <1>3

LEMMA RemoveKeeps ==
  \* nuke removes the state directory, then finds what runs.
  ASSUME MachineInv, RemoveState
  PROVE  MachineInv' /\ SparesTheLiving
<1>1. /\ command = "remove" /\ task' = [j \in Tasks |-> [task[j] EXCEPT !.scratch = FALSE]]
      /\ ListBoxes /\ command' = "sweep"
      /\ UNCHANGED <<life, pid, box, known, again, starts, trouble>>
  BY DEF RemoveState
<1>2. MachineTypeOK /\ LifeSays
  BY DEF MachineInv
<1>3. life = "down" /\ known = {}
  BY <1>1, <1>2 DEF LifeSays
<1>4. ~Serving /\ ~Serving'
  BY <1>1, <1>3 DEF Serving
<1>5. /\ task' \in [Tasks -> Memory]
      /\ \A j \in Tasks : task[j].nth \in 0..MaxRuns /\ task'[j] = Forgotten(task[j].nth, FALSE)
  BY <1>1, <1>4, SweptTasks
<1>6. /\ found' \in SUBSET Boxes /\ missed' \subseteq Boxes
      /\ \A b \in Boxes : Loose(b)' => b \in found' \cup known
  BY <1>1, <1>2, ListIs
<1>7. MachineTypeOK'
  BY <1>1, <1>2, <1>5, <1>6 DEF MachineTypeOK
<1>8. \A j \in Tasks : JobSays(j)' /\ task'[j] = Forgotten(task'[j].nth, task'[j].scratch)
  BY <1>4, <1>5, ForgottenSays
<1>9. LifeSays'
  BY <1>1, <1>3, <1>8 DEF LifeSays
<1>10. OthersSay'
  BY <1>1, <1>3, <1>4, <1>6 DEF OthersSay
<1>11. \A j \in Tasks : \A r \in 1..MaxRuns : ~InUse(<<j, r>>)
  BY <1>3, Unscratched
<1>12. \A b \in Boxes : box[b] = "up" => box'[b] # "none"
  BY <1>1
<1>13. SparesTheLiving
  BY <1>11, <1>12 DEF SparesTheLiving
<1> QED  BY <1>7, <1>8, <1>9, <1>10, <1>13 DEF MachineInv

LEMMA NukeSweepKeeps ==
  \* nuke stops what it found, twice.
  ASSUME MachineInv, SweepRemoves \/ CheckResidue
  PROVE  MachineInv' /\ SparesTheLiving
<1>1. /\ Sweeping /\ SweepOrphanIsolation /\ command \in {"sweep", "check"}
      /\ command' \in {"check", "residue", "removed"} /\ (command' = "check" => command = "sweep")
      /\ UNCHANGED <<life, pid, task, known, again, starts>>
  BY DEF SweepRemoves, CheckResidue
<1>2. MachineTypeOK /\ LifeSays /\ OthersSay
  BY DEF MachineInv
<1>3. life = "down" /\ known = {}
  BY <1>1, <1>2 DEF LifeSays
<1>4. ~Serving /\ ~Serving'
  BY <1>1, <1>3 DEF Serving
<1>5. /\ found' = NotSweeping /\ missed' \subseteq Boxes /\ trouble' \in 0..MaxTrouble
      /\ box' \in [Boxes -> {"none", "starting", "up"}]
      /\ \A b \in Boxes : box'[b] = box[b] \/ (box'[b] = "none" /\ b \in Doomed)
      /\ \A b \in Boxes : Loose(b)' => Loose(b) /\ b \notin Doomed
  BY <1>1, <1>2, SweepIs
<1>6. MachineTypeOK'
  BY <1>1, <1>2, <1>5 DEF MachineTypeOK
<1>7. LifeSays'
  BY <1>1, <1>2, <1>3, <1>4 DEF LifeSays
<1>8. \A b \in Boxes : Loose(b)' => b = Other
  BY <1>1, <1>2, <1>3, <1>5 DEF OthersSay, Doomed
<1>9. OthersSay'
  BY <1>1, <1>3, <1>4, <1>8 DEF OthersSay
<1>10. \A j \in Tasks : JobSays(j)'
  BY <1>1, <1>4, <1>5, BoxesAre, JobsStay
<1>11. \A b \in Boxes : box[b] = "up" /\ box'[b] = "none" => ~InUse(b)
  <2> SUFFICES ASSUME NEW b \in Boxes, box[b] = "up", box'[b] = "none", InUse(b) PROVE FALSE
    OBVIOUS
  <2>1. b \in Doomed
    BY <1>5
  <2>2. b \in known \cup {Other}
    BY <1>3, DownIdle
  <2> QED  BY <2>1, <2>2 DEF Doomed
<1>12. SparesTheLiving
  BY <1>1, <1>11 DEF SparesTheLiving
<1> QED  BY <1>6, <1>7, <1>9, <1>10, <1>12 DEF MachineInv

LEMMA MachineSafe ==
  \* The invariant says what is asked of every state.
  ASSUME MachineInv
  PROVE  NothingLeftBehind
<1> SUFFICES ASSUME NEW b \in Boxes, box[b] = "up", ~LeftBehindKnowingly(b)
             PROVE  /\ life = "up" => Answered(b)
                    /\ command = "removed" => b = Other
  BY DEF NothingLeftBehind
<1>1. MachineTypeOK /\ OthersSay
  BY DEF MachineInv
<1>2. Loose(b) /\ b \notin missed
  BY DEF Loose, LeftBehindKnowingly
<1>3. command = "removed" => b = Other
  BY <1>1, <1>2 DEF OthersSay
<1>4. ASSUME life = "up" PROVE Answered(b)
  <2>1. Serving
    BY <1>4 DEF Serving
  <2>2. CASE b \in Shells \cup {Other, Older}
    BY <1>1, <1>2, <2>1, <2>2 DEF OthersSay, Answered
  <2>3. CASE b \in JobBoxes
    <3>1. PICK j \in Tasks, r \in 1..MaxRuns : b = <<j, r>>
      BY <2>3 DEF JobBoxes
    <3>2. JobSays(j) /\ j \notin again
      BY <3>1, MachineParts DEF LeftBehindKnowingly
    <3>3. Mine(j, r)
      BY <1>2, <2>1, <3>1, <3>2 DEF JobSays
    <3>4. \/ task[j].run = r \/ (task[j].step = "started" /\ task[j].nth = r)
          \/ task[j].fin = r /\ task[j].reg = r /\ task[j].done
      BY <3>2, <3>3 DEF JobSays, Mine
    <3> QED  BY <3>1, <3>4 DEF Answered
  <2> QED  BY <2>2, <2>3, BoxesAre
<1> QED  BY <1>3, <1>4

LEMMA MachineStarts ==
  \* Nothing of this installation's runs at first.
  ASSUME MachineInit
  PROVE  MachineInv
<1>1. MachineTypeOK
  <2>1. 0 \in 0..MaxRuns /\ 0 \in 0..MaxStarts /\ 0 \in 0..MaxTrouble
    BY MachineAssumption
  <2>2. Forgotten(0, FALSE) \in Memory
    BY <2>1, ForgottenIs
  <2>3. task \in [Tasks -> Memory]
    BY <2>2 DEF MachineInit
  <2>4. box \in [Boxes -> {"none", "starting", "up"}]
    BY DEF MachineInit
  <2> QED  BY <2>1, <2>3, <2>4 DEF MachineInit, MachineTypeOK
<1>2. ~Serving
  BY DEF MachineInit, Serving
<1>3. \A j \in Tasks : task[j].nth = 0 /\ task[j].scratch = FALSE /\ task[j].step = "idle"
        /\ task[j].run = 0 /\ task[j].fin = 0 /\ task[j] = Forgotten(0, FALSE)
  <2>1. 0 \in 0..MaxRuns
    BY MachineAssumption
  <2> QED  BY <2>1, ForgottenIs DEF MachineInit
<1>4. LifeSays
  BY <1>3 DEF MachineInit, LifeSays, Sweeping
<1>5. OthersSay
  BY <1>2 DEF MachineInit, OthersSay
<1>6. \A j \in Tasks : JobSays(j)
  BY <1>2, <1>3 DEF JobSays
<1> QED  BY <1>1, <1>4, <1>5, <1>6 DEF MachineInv

LEMMA MachineStep ==
  \* Every step keeps the invariant and spares the living.
  ASSUME MachineInv, MachineNext
  PROVE  MachineInv' /\ SparesTheLiving
<1>1. CASE \E b \in Boxes : ComesUp(b) \/ Ends(b)
  BY <1>1, ComesUpKeeps, EndsKeeps
<1>2. ASSUME NEW j \in Tasks,
             \/ Prepare(j) \/ launchContainer(j) \/ Launched(j) \/ LaunchFails(j)
             \/ \E delayed \in BOOLEAN : LimitReached(j, delayed)
             \/ Exited(j) \/ Kill(j) \/ KillAgain(j) \/ ForgetFinished(j)
      PROVE  MachineInv' /\ SparesTheLiving
  BY <1>2, PrepareKeeps, LaunchKeeps, LaunchedKeeps, LaunchFailsKeeps, LimitKeeps, ExitedKeeps, KillKeeps,
     KillAgainKeeps, ForgetKeeps
<1>3. CASE \E s \in Shells : Login(s) \/ StopIsolation(s)
  BY <1>3, LoginKeeps, StopIsolationKeeps
<1>4. CASE SweepBegins \/ ReleaseBegins \/ CheckLists
  BY <1>4, ListKeeps DEF SweepBegins, ReleaseBegins, CheckLists
<1>5. CASE Start \/ SweepOrphanScratch \/ Terminated \/ DaemonExits \/ DaemonCrashes
  BY <1>5, StartKeeps, SweepScratchKeeps, NukeKeeps, DaemonGoesKeeps
<1>6. CASE Nuke \/ Stopped \/ RemoveState \/ SweepRemoves \/ CheckResidue
  BY <1>6, NukeKeeps, RemoveKeeps, NukeSweepKeeps
<1> QED  BY <1>1, <1>2, <1>3, <1>4, <1>5, <1>6 DEF MachineNext

LEMMA MachineStays ==
  \* So does a step of another part.
  ASSUME MachineInv, UNCHANGED machineVars
  PROVE  MachineInv'
<1>1. /\ life' = life /\ pid' = pid /\ command' = command /\ box' = box /\ found' = found /\ task' = task
      /\ known' = known /\ missed' = missed /\ again' = again /\ starts' = starts /\ trouble' = trouble
  BY DEF machineVars
<1>2. MachineTypeOK /\ LifeSays /\ OthersSay
  BY DEF MachineInv
<1>3. MachineTypeOK'
  BY <1>1, <1>2 DEF MachineTypeOK
<1>4. LifeSays'
  BY <1>1, <1>2 DEF LifeSays, Serving, Sweeping
<1>5. \A b \in Boxes : Loose(b)' => Loose(b)
  BY <1>1 DEF Loose
<1>6. OthersSay'
  BY <1>1, <1>2, <1>5, BoxesAre DEF OthersSay, Serving, Sweeping
<1>7. Serving' => Serving
  BY <1>1 DEF Serving
<1> QED  BY <1>1, <1>3, <1>4, <1>5, <1>6, <1>7, StillKeeps

\* The machine's variables have their types: what an agent remembers of a number, what
\* the runtime has, and how far nuke has got.
THEOREM MachineTypeCorrect == MachineSpec => []MachineTypeOK
<1>1. MachineInit => MachineInv
  BY MachineStarts
<1>2. MachineInv /\ [MachineNext]_machineVars => MachineInv'
  BY MachineStep, MachineStays
<1>3. MachineInv => MachineTypeOK
  BY DEF MachineInv
<1> QED  BY <1>1, <1>2, <1>3, PTL DEF MachineSpec

\* Every step leaves nothing behind, and spares the living: sweeps, the cleaning up after
\* a run, a KILL that was due and nuke stop what nobody answers for and nothing else.
THEOREM MachineTidyHolds == MachineSpec => MachineTidy
<1>1. MachineInit => MachineInv
  BY MachineStarts
<1>2. MachineInv /\ [MachineNext]_machineVars => MachineInv'
  BY MachineStep, MachineStays
<1>3. MachineInv /\ MachineInv' /\ [MachineNext]_machineVars => [NothingLeftBehind' /\ SparesTheLiving]_machineVars
  <2>1. MachineInv' => NothingLeftBehind'
    BY MachineSafe, PTL
  <2> QED  BY <2>1, MachineStep
<1> QED  BY <1>1, <1>2, <1>3, PTL DEF MachineSpec, MachineTidy

(*-------------------------------------------------------------------------*)
(* Streams                                                                 *)
(*-------------------------------------------------------------------------*)

Early == srun \in {"start", "submitting", "submitted"}

\* The session's window is never ahead of the person's.
SizesSay == sess.ver <= sess.size /\ sess.size <= window.size

\* One machine relays, and srun has shown what it has sent.
PipesSay ==
  /\ srun = "start" => ~sess.there /\ rec.state = "none"
  /\ rec.state = "none" => \A n \in Runners : run[n].proc = "none" /\ run[n].relay = "none"
  /\ \A n \in Runners : run[n].sent <= run[n].wrote /\ (run[n].relay = "connecting" => run[n].sent = 0)
  /\ sess.there /\ ~sess.node => shown = 0 /\ \A n \in Runners : run[n].relay # "open"
  /\ Early => shown = 0 /\ ~sess.client
  /\ \A n, m \in Runners : run[n].relay = "open" /\ run[m].relay = "open" => n = m
  /\ \A n \in Runners : run[n].relay = "open" /\ (Early \/ srun = "attached") => shown = run[n].sent

\* A status of 0 is some run's.
StatusSays ==
  /\ \A n \in Runners : run[n].proc = "exited" /\ run[n].code = 0 => run[n].well
  /\ (sess.exited /\ sess.code = 0) \/ rec.ok \/ result = "ok" => \E n \in Runners : run[n].well
  /\ result # "none" => srun = "done"

AllSent(n) == run[n].proc = "exited" /\ run[n].sent = run[n].wrote
NothingRan == \A n \in Runners : run[n].proc = "none"

\* Of a run from which nothing is missing.
RunSays(n) ==
  IF run[n].proc = "none" THEN run[n].relay = "none"
  ELSE /\ run[n].proc # "dead" /\ run[n].relay \notin {"none", "broken"}
       /\ rec.node = n /\ rec.state \in {"running", "over"} /\ shown = run[n].sent
       /\ run[n].relay = "closed" => AllSent(n)

\* As long as nothing is missing there is one run, srun has shown what it has sent, and
\* the session is there until the run has ended and all has been sent.
WholeSays ==
  ~cut =>
    /\ \A n \in Runners : RunSays(n)
    /\ NothingRan => shown = 0 /\ ~rec.ok
    /\ srun # "start" /\ ~(sess.there /\ sess.open) =>
         (\E n \in Runners : AllSent(n)) \/ (NothingRan /\ rec.state = "over")
    /\ sess.there => srun \in {"submitting", "submitted", "attached"} /\ (sess.client => srun = "attached")
    /\ result = "ok" => ~NothingRan

StreamsInv == StreamsTypeOK /\ SizesSay /\ PipesSay /\ StatusSays /\ WholeSays

LEMMA RunIs ==
  \* A machine's run.
  ASSUME StreamsTypeOK, NEW n \in Runners
  PROVE  /\ run[n] \in OneRun /\ run[n].proc \in {"none", "running", "exited", "dead"}
         /\ run[n].wrote \in 0..MaxOutput /\ run[n].sent \in 0..MaxOutput
         /\ run[n].relay \in {"none", "connecting", "open", "broken", "closed"} /\ run[n].due \in BOOLEAN
         /\ run[n].code \in 0..1 /\ run[n].size \in 0..MaxResizes /\ run[n].ver \in 0..MaxResizes
         /\ run[n].well \in BOOLEAN
<1>1. run[n] \in OneRun
  BY DEF StreamsTypeOK
<1> QED  BY <1>1 DEF OneRun

LEMMA SessIs ==
  \* The session, and the job's record.
  ASSUME StreamsTypeOK
  PROVE  /\ sess.there \in BOOLEAN /\ sess.bound \in BOOLEAN /\ sess.client \in BOOLEAN
         /\ sess.node \in BOOLEAN /\ sess.open \in BOOLEAN /\ sess.exited \in BOOLEAN
         /\ sess.code \in 0..1 /\ sess.size \in 0..MaxResizes /\ sess.ver \in 0..MaxResizes
         /\ rec.state \in {"none", "pending", "running", "over"} /\ rec.node \in Runners \cup {"nowhere"}
         /\ rec.ok \in BOOLEAN /\ rec.code \in 0..1
<1>1. sess \in OneSession /\ rec \in OneJob
  BY DEF StreamsTypeOK
<1> QED  BY <1>1 DEF OneSession, OneJob

LEMMA NoSessionIs ==
  \* No session.
  /\ NoSession \in OneSession /\ ~NoSession.there /\ ~NoSession.client /\ ~NoSession.exited
  /\ ~NoSession.node /\ ~NoSession.open
  /\ NoSession.size = 0 /\ NoSession.ver = 0
<1>1. 0 \in 0..MaxResizes /\ 0 \in 0..1
  BY StreamsAssumption
<1> QED  BY <1>1 DEF NoSession, OneSession

LEMMA RunSet ==
  \* One machine's run at a time.
  ASSUME StreamsTypeOK, NEW n \in Runners, NEW t \in OneRun, run' = [run EXCEPT ![n] = t]
  PROVE  run' \in [Runners -> OneRun] /\ run'[n] = t /\ \A m \in Runners : m # n => run'[m] = run[m]
BY DEF StreamsTypeOK

LEMMA NewStreamKeeps ==
  \* The session is made before the job.
  ASSUME StreamsInv, NewStream
  PROVE  StreamsInv'
<1>1. /\ srun = "start" /\ srun' = "submitting" /\ rec' = rec /\ run' = run /\ reaping' = reaping
      /\ shown' = shown /\ window' = window /\ result' = result /\ cut' = cut /\ unsent' = unsent
      /\ faults' = faults
  BY DEF NewStream
<1>2. StreamsTypeOK /\ SizesSay /\ PipesSay /\ StatusSays /\ WholeSays
  BY DEF StreamsInv
<1>3. /\ sess' \in OneSession /\ sess'.there /\ sess'.open /\ ~sess'.client /\ ~sess'.exited /\ ~sess'.node
      /\ sess'.size = 0 /\ sess'.ver = 0
  <2>1. NoSession \in OneSession
    BY NoSessionIs
  <2>2. sess' = [NoSession EXCEPT !.there = TRUE, !.open = TRUE]
    BY DEF NewStream
  <2>3. sess' \in OneSession /\ sess'.there /\ sess'.open /\ sess'.size = NoSession.size /\ sess'.ver = NoSession.ver
    BY <2>1, <2>2 DEF OneSession
  <2>4. sess'.client = NoSession.client /\ sess'.exited = NoSession.exited /\ sess'.node = NoSession.node
    BY <2>1, <2>2 DEF OneSession
  <2> QED  BY <2>3, <2>4, NoSessionIs
<1>4. StreamsTypeOK'
  BY <1>1, <1>2, <1>3 DEF StreamsTypeOK
<1>5. SizesSay'
  BY <1>1, <1>2, <1>3, SessIs DEF SizesSay, StreamsTypeOK
<1>6. PipesSay'
  BY <1>1, <1>2, <1>3 DEF PipesSay, Early
<1>7. StatusSays'
  BY <1>1, <1>2, <1>3 DEF StatusSays
<1>8. WholeSays'
  BY <1>1, <1>2, <1>3 DEF WholeSays, RunSays, AllSent, NothingRan
<1> QED  BY <1>4, <1>5, <1>6, <1>7, <1>8 DEF StreamsInv

LEMMA SubmitKeeps ==
  \* The job is queued, or ends before it has run.
  ASSUME StreamsInv, SubmitJob \/ \E code \in 0..1 : NeverStarts(code)
  PROVE  StreamsInv'
<1>1. /\ sess' = sess /\ srun' = srun /\ run' = run /\ reaping' = reaping
      /\ shown' = shown /\ window' = window /\ result' = result /\ cut' = cut /\ unsent' = unsent
      /\ faults' = faults
  BY DEF SubmitJob, NeverStarts
<1>2. StreamsTypeOK /\ SizesSay /\ PipesSay /\ StatusSays /\ WholeSays
  BY DEF StreamsInv
<1>3. /\ rec' \in OneJob /\ (rec'.ok => rec.ok)
      /\ \/ srun = "submitting" /\ rec.state = "none" /\ rec'.state = "pending"
         \/ rec.state = "pending" /\ rec'.state = "over" /\ ~rec'.ok
  BY <1>2 DEF SubmitJob, NeverStarts, StreamsTypeOK, OneJob
<1>4. StreamsTypeOK'
  BY <1>1, <1>2, <1>3 DEF StreamsTypeOK
<1>5. SizesSay'
  BY <1>1, <1>2 DEF SizesSay
<1>6. PipesSay'
  BY <1>1, <1>2, <1>3 DEF PipesSay, Early
<1>7. StatusSays'
  BY <1>1, <1>2, <1>3 DEF StatusSays
<1>8. WholeSays'
  <2>1. ASSUME ~cut PROVE NothingRan
    BY <1>2, <1>3, <2>1 DEF WholeSays, RunSays, NothingRan
  <2> QED  BY <1>1, <1>2, <1>3, <2>1 DEF WholeSays, RunSays, AllSent, NothingRan, PipesSay
<1> QED  BY <1>4, <1>5, <1>6, <1>7, <1>8 DEF StreamsInv

LEMMA LaunchRunKeeps ==
  \* A run starts where none is.
  ASSUME StreamsInv, NEW n \in Runners, LaunchRun(n)
  PROVE  StreamsInv'
<1> DEFINE t == [NoRun EXCEPT !.proc = "running", !.relay = "connecting", !.well = run[n].well]
<1>1. /\ sess' = sess /\ srun' = srun /\ reaping' = reaping
      /\ shown' = shown /\ window' = window /\ result' = result /\ cut' = cut /\ unsent' = unsent
      /\ faults' = faults
      /\ rec.state = "pending" /\ run' = [run EXCEPT ![n] = t]
  BY DEF LaunchRun
<1>2. StreamsTypeOK /\ SizesSay /\ PipesSay /\ StatusSays /\ WholeSays
  BY DEF StreamsInv
<1>3. rec' \in OneJob /\ rec'.state = "running" /\ rec'.node = n /\ rec'.ok = rec.ok
  BY <1>2 DEF LaunchRun, StreamsTypeOK, OneJob
<1>4. /\ t \in OneRun /\ t.proc = "running" /\ t.relay = "connecting" /\ t.sent = 0 /\ t.wrote = 0
      /\ t.well = run[n].well
  <2> DEFINE w == run[n].well
  <2>1. 0 \in 0..MaxOutput /\ 0 \in 0..MaxResizes /\ w \in BOOLEAN
    BY <1>2, RunIs, StreamsAssumption
  <2>2. t = [NoRun EXCEPT !.proc = "running", !.relay = "connecting", !.well = w]
    OBVIOUS
  <2> HIDE DEF t, w
  <2>3. NoRun \in OneRun /\ NoRun.sent = 0 /\ NoRun.wrote = 0
    BY <2>1 DEF NoRun, OneRun
  <2>4. t \in OneRun /\ t.proc = "running" /\ t.relay = "connecting" /\ t.sent = 0 /\ t.wrote = 0
    BY <2>1, <2>2, <2>3 DEF OneRun
  <2>5. t.well = w
    BY <2>1, <2>2, <2>3 DEF OneRun
  <2> QED  BY <2>4, <2>5 DEF w
<1> HIDE DEF t
<1>5. run' \in [Runners -> OneRun] /\ run'[n] = t /\ \A m \in Runners : m # n => run'[m] = run[m]
  BY <1>1, <1>2, <1>4, RunSet
<1>6. StreamsTypeOK'
  BY <1>1, <1>2, <1>3, <1>5 DEF StreamsTypeOK
<1>7. SizesSay'
  BY <1>1, <1>2 DEF SizesSay
<1>8. PipesSay'
  BY <1>1, <1>2, <1>3, <1>4, <1>5 DEF PipesSay, Early
<1>9. StatusSays'
  BY <1>1, <1>2, <1>3, <1>4, <1>5 DEF StatusSays
<1>10. WholeSays'
  <2> SUFFICES ASSUME ~cut PROVE WholeSays'
    BY <1>1 DEF WholeSays
  <2>1. NothingRan
    BY <1>1, <1>2 DEF WholeSays, RunSays, NothingRan
  <2>2. ~NothingRan'
    BY <1>4, <1>5 DEF NothingRan
  <2>3. \A m \in Runners : ~AllSent(m)
    BY <2>1 DEF AllSent, NothingRan
  <2>4. srun # "start"
    BY <1>1, <1>2 DEF PipesSay
  <2>5. \A m \in Runners : RunSays(m)'
    BY <1>1, <1>2, <1>3, <1>4, <1>5, <2>1 DEF RunSays, NothingRan, WholeSays, AllSent
  <2> QED  BY <1>1, <1>2, <2>1, <2>2, <2>3, <2>4, <2>5 DEF WholeSays
<1> QED  BY <1>6, <1>7, <1>8, <1>9, <1>10 DEF StreamsInv


LEMMA FaultIs ==
  \* Faults are bounded.
  ASSUME StreamsTypeOK, Fault
  PROVE  faults' \in 0..MaxFaults
<1>1. faults \in 0..MaxFaults /\ MaxFaults \in Nat
  BY StreamsAssumption DEF StreamsTypeOK
<1> QED  BY <1>1 DEF Fault

LEMMA FinishIs ==
  \* The first status stays, and the pipe is closed.
  ASSUME StreamsTypeOK, NEW code \in 0..1, FinishStream(code)
  PROVE  /\ sess' \in OneSession /\ sess'.there = sess.there /\ sess'.client = sess.client
         /\ sess'.node = sess.node /\ sess'.size = sess.size /\ sess'.ver = sess.ver
         /\ sess.there => ~sess'.open
         /\ sess'.open => sess.open
         /\ sess'.exited /\ sess'.code = 0 => (sess.exited /\ sess.code = 0) \/ code = 0
<1>1. sess \in OneSession
  BY DEF StreamsTypeOK
<1>2. CASE ~sess.there
  BY <1>1, <1>2 DEF FinishStream
<1>3. CASE sess.there
  <2> DEFINE c == IF sess.exited THEN sess.code ELSE code
  <2>1. c \in 0..1 /\ (c = 0 => (sess.exited /\ sess.code = 0) \/ code = 0)
    BY SessIs
  <2>2. sess' = [sess EXCEPT !.exited = TRUE, !.code = c, !.open = FALSE]
    BY <1>3 DEF FinishStream
  <2> HIDE DEF c
  <2>3. /\ sess' \in OneSession /\ sess'.there = sess.there /\ sess'.client = sess.client
        /\ sess'.node = sess.node /\ sess'.size = sess.size /\ sess'.ver = sess.ver
        /\ ~sess'.open /\ sess'.code = c
    BY <1>1, <2>1, <2>2 DEF OneSession
  <2> QED  BY <2>1, <2>3
<1> QED  BY <1>2, <1>3

LEMMA OutputKeeps ==
  \* A run writes.
  ASSUME StreamsInv, NEW n \in Runners, WriteChunk(n)
  PROVE  StreamsInv'
<1>1. /\ sess' = sess /\ rec' = rec /\ srun' = srun /\ reaping' = reaping
      /\ shown' = shown /\ window' = window /\ result' = result /\ cut' = cut /\ unsent' = unsent
      /\ faults' = faults
      /\ run[n].proc = "running" /\ run[n].wrote < MaxOutput
  BY DEF WriteChunk
<1>2. StreamsTypeOK /\ SizesSay /\ PipesSay /\ StatusSays /\ WholeSays
  BY DEF StreamsInv
<1>3. /\ run' \in [Runners -> OneRun] /\ \A m \in Runners : m # n => run'[m] = run[m]
      /\ run'[n].proc = "running" /\ run'[n].sent = run[n].sent /\ run'[n].relay = run[n].relay
      /\ run'[n].code = run[n].code /\ run'[n].wrote = run[n].wrote + 1
  <2> DEFINE t == [run[n] EXCEPT !.wrote = @ + 1]
  <2>1. run' = [run EXCEPT ![n] = t]
    BY DEF WriteChunk
  <2>2. run[n].wrote + 1 \in 0..MaxOutput /\ run[n] \in OneRun
    BY <1>1, <1>2, RunIs, StreamsAssumption
  <2>3. /\ t \in OneRun /\ t.proc = run[n].proc /\ t.sent = run[n].sent /\ t.relay = run[n].relay
        /\ t.code = run[n].code /\ t.wrote = run[n].wrote + 1
    BY <2>2 DEF OneRun
  <2> HIDE DEF t
  <2> QED  BY <1>1, <1>2, <2>1, <2>3, RunSet
<1>4. \A m \in Runners : run'[m].well = run[m].well
  BY <1>2, RunIs DEF WriteChunk, StreamsTypeOK, OneRun
<1>5. StreamsTypeOK'
  BY <1>1, <1>2, <1>3 DEF StreamsTypeOK
<1>6. SizesSay'
  BY <1>1, <1>2 DEF SizesSay
<1>7. PipesSay'
  <2>1. run[n].sent \in Nat /\ run[n].wrote \in Nat
    BY <1>2, RunIs
  <2> QED  BY <1>1, <1>2, <1>3, <2>1 DEF PipesSay, Early
<1>8. StatusSays'
  BY <1>1, <1>2, <1>3, <1>4 DEF StatusSays
<1>9. WholeSays'
  <2>1. \A m \in Runners : (AllSent(m)' <=> AllSent(m)) /\ (run'[m].proc = "none" <=> run[m].proc = "none")
    BY <1>1, <1>3 DEF AllSent
  <2>2. NothingRan' <=> NothingRan
    BY <2>1 DEF NothingRan
  <2>3. \A m \in Runners : RunSays(m) => RunSays(m)'
    BY <1>1, <1>3, <2>1 DEF RunSays
  <2> QED  BY <1>1, <1>2, <2>1, <2>2, <2>3 DEF WholeSays
<1> QED  BY <1>5, <1>6, <1>7, <1>8, <1>9 DEF StreamsInv

LEMMA ExitKeeps ==
  \* A run ends.
  ASSUME StreamsInv, NEW n \in Runners, NEW code \in 0..1, ProcessExits(n, code)
  PROVE  StreamsInv'
<1>1. /\ sess' = sess /\ rec' = rec /\ srun' = srun /\ reaping' = reaping
      /\ shown' = shown /\ window' = window /\ result' = result /\ cut' = cut /\ unsent' = unsent
      /\ faults' = faults
      /\ run[n].proc = "running"
  BY DEF ProcessExits
<1>2. StreamsTypeOK /\ SizesSay /\ PipesSay /\ StatusSays /\ WholeSays
  BY DEF StreamsInv
<1>3. /\ run' \in [Runners -> OneRun] /\ \A m \in Runners : m # n => run'[m] = run[m]
      /\ run'[n].proc = "exited" /\ run'[n].sent = run[n].sent /\ run'[n].relay = run[n].relay
      /\ run'[n].wrote = run[n].wrote
      /\ run[n].well \/ code = 0 => run'[n].well
      /\ run'[n].code = code
  <2> DEFINE w == run[n].well \/ code = 0
             t == [run[n] EXCEPT !.proc = "exited", !.code = code, !.due = TRUE, !.well = w]
  <2>1. run' = [run EXCEPT ![n] = t]
    BY DEF ProcessExits
  <2>2. w \in BOOLEAN /\ run[n] \in OneRun /\ (run[n].well \/ code = 0 => w)
    BY <1>2, RunIs
  <2> HIDE DEF w
  <2>3. /\ t \in OneRun /\ t.proc = "exited" /\ t.sent = run[n].sent /\ t.relay = run[n].relay
        /\ t.code = code /\ t.wrote = run[n].wrote
    BY <2>2 DEF OneRun
  <2>4. t.well = w
    BY <2>2 DEF OneRun
  <2> HIDE DEF t
  <2> QED  BY <1>1, <1>2, <2>1, <2>2, <2>3, <2>4, RunSet
<1>4. StreamsTypeOK'
  BY <1>1, <1>2, <1>3 DEF StreamsTypeOK
<1>5. SizesSay'
  BY <1>1, <1>2 DEF SizesSay
<1>6. PipesSay'
  BY <1>1, <1>2, <1>3 DEF PipesSay, Early
<1>7. StatusSays'
  BY <1>1, <1>2, <1>3 DEF StatusSays
<1>8. WholeSays'
  <2>1. \A m \in Runners : (AllSent(m) => AllSent(m)') /\ (run'[m].proc = "none" <=> run[m].proc = "none")
    BY <1>1, <1>3 DEF AllSent
  <2>2. NothingRan' <=> NothingRan
    BY <2>1 DEF NothingRan
  <2>3. \A m \in Runners : RunSays(m) => RunSays(m)'
    BY <1>1, <1>3, <2>1 DEF RunSays, AllSent
  <2> QED  BY <1>1, <1>2, <2>1, <2>2, <2>3 DEF WholeSays
<1> QED  BY <1>4, <1>5, <1>6, <1>7, <1>8 DEF StreamsInv

LEMMA DiesKeeps ==
  \* A machine is lost.
  ASSUME StreamsInv, NEW n \in Runners, NodeDies(n)
  PROVE  StreamsInv'
<1>1. /\ sess' = sess /\ rec' = rec /\ srun' = srun /\ reaping' = reaping
      /\ shown' = shown /\ window' = window /\ result' = result /\ cut' = TRUE /\ unsent' = unsent
      /\ run[n].proc \in {"running", "exited"} /\ Fault
  BY DEF NodeDies
<1>2. StreamsTypeOK /\ SizesSay /\ PipesSay /\ StatusSays /\ WholeSays
  BY DEF StreamsInv
<1>3. /\ run' \in [Runners -> OneRun] /\ \A m \in Runners : m # n => run'[m] = run[m]
      /\ run'[n].proc = "dead" /\ run'[n].sent = run[n].sent /\ run'[n].relay \in {"broken", "closed"}
      /\ run'[n].wrote = run[n].wrote
      /\ run[n].well => run'[n].well
  <2> DEFINE t == [run[n] EXCEPT !.proc = "dead", !.due = FALSE,
                                 !.relay = IF @ = "open" THEN "broken" ELSE "closed"]
  <2>1. run' = [run EXCEPT ![n] = t]
    BY DEF NodeDies
  <2>2. run[n] \in OneRun
    BY <1>2, RunIs
  <2>3. /\ t \in OneRun /\ t.proc = "dead" /\ t.sent = run[n].sent /\ t.relay \in {"broken", "closed"}
        /\ t.wrote = run[n].wrote
    BY <2>2 DEF OneRun
  <2>4. t.well = run[n].well
    BY <2>2 DEF OneRun
  <2> HIDE DEF t
  <2> QED  BY <1>1, <1>2, <2>1, <2>2, <2>3, <2>4, RunSet
<1>4. StreamsTypeOK'
  BY <1>1, <1>2, <1>3, FaultIs DEF StreamsTypeOK
<1>5. SizesSay'
  BY <1>1, <1>2 DEF SizesSay
<1>6. PipesSay'
  BY <1>1, <1>2, <1>3 DEF PipesSay, Early
<1>7. StatusSays'
  BY <1>1, <1>2, <1>3 DEF StatusSays
<1>8. WholeSays'
  BY <1>1 DEF WholeSays
<1> QED  BY <1>4, <1>5, <1>6, <1>7, <1>8 DEF StreamsInv

LEMMA QuietRunKeeps ==
  \* A status that is lost, or a window size that arrives.
  ASSUME StreamsInv, NEW n \in Runners, StreamExitLost(n) \/ followSize(n)
  PROVE  StreamsInv'
<1>1. /\ sess' = sess /\ rec' = rec /\ srun' = srun /\ reaping' = reaping
      /\ shown' = shown /\ window' = window /\ result' = result /\ cut' = cut /\ unsent' = unsent
      /\ Fault \/ faults' = faults
  BY DEF StreamExitLost, followSize
<1>2. StreamsTypeOK /\ SizesSay /\ PipesSay /\ StatusSays /\ WholeSays
  BY DEF StreamsInv
<1>3. /\ run' \in [Runners -> OneRun] /\ \A m \in Runners : m # n => run'[m] = run[m]
      /\ run'[n].proc = run[n].proc /\ run'[n].sent = run[n].sent /\ run'[n].relay = run[n].relay
      /\ run'[n].wrote = run[n].wrote /\ run'[n].code = run[n].code
      /\ run'[n].well = run[n].well
  <2>1. run[n] \in OneRun
    BY <1>2, RunIs
  <2>2. CASE StreamExitLost(n)
    <3> DEFINE t == [run[n] EXCEPT !.due = FALSE]
    <3>1. run' = [run EXCEPT ![n] = t]
      BY <2>2 DEF StreamExitLost
    <3>2. /\ t \in OneRun /\ t.proc = run[n].proc /\ t.sent = run[n].sent /\ t.relay = run[n].relay
          /\ t.wrote = run[n].wrote /\ t.code = run[n].code
      BY <2>1 DEF OneRun
    <3>3. t.well = run[n].well
      BY <2>1 DEF OneRun
    <3> HIDE DEF t
    <3> QED  BY <1>2, <3>1, <3>2, <3>3, RunSet
  <2>3. CASE followSize(n)
    <3> DEFINE t == [run[n] EXCEPT !.size = sess.size, !.ver = sess.ver]
    <3>1. run' = [run EXCEPT ![n] = t]
      BY <2>3 DEF followSize
    <3>2. sess.size \in 0..MaxResizes /\ sess.ver \in 0..MaxResizes
      BY <1>2, SessIs
    <3>3. /\ t \in OneRun /\ t.proc = run[n].proc /\ t.sent = run[n].sent /\ t.relay = run[n].relay
          /\ t.wrote = run[n].wrote /\ t.code = run[n].code
      BY <2>1, <3>2 DEF OneRun
    <3>4. t.well = run[n].well
      BY <2>1 DEF OneRun
    <3> HIDE DEF t
    <3> QED  BY <1>2, <3>1, <3>3, <3>4, RunSet
  <2> QED  BY <2>2, <2>3
<1>4. StreamsTypeOK'
  BY <1>1, <1>2, <1>3, FaultIs DEF StreamsTypeOK
<1>5. SizesSay'
  BY <1>1, <1>2 DEF SizesSay
<1>6. PipesSay'
  BY <1>1, <1>2, <1>3 DEF PipesSay, Early
<1>7. StatusSays'
  BY <1>1, <1>2, <1>3 DEF StatusSays
<1>8. WholeSays'
  <2>1. \A m \in Runners : (AllSent(m)' <=> AllSent(m)) /\ (run'[m].proc = "none" <=> run[m].proc = "none")
    BY <1>3 DEF AllSent
  <2>2. NothingRan' <=> NothingRan
    BY <2>1 DEF NothingRan
  <2>3. \A m \in Runners : RunSays(m) => RunSays(m)'
    BY <1>1, <1>3, <2>1 DEF RunSays
  <2> QED  BY <1>1, <1>2, <2>1, <2>2, <2>3 DEF WholeSays
<1> QED  BY <1>4, <1>5, <1>6, <1>7, <1>8 DEF StreamsInv

LEMMA ReportKeeps ==
  \* The controller hears of the end of a run, or of its machine.
  ASSUME StreamsInv, NEW n \in Runners, ReportFinished(n) \/ expireNodes(n)
  PROVE  StreamsInv'
<1>1. /\ sess' = sess /\ srun' = srun /\ run' = run /\ reaping' = reaping
      /\ shown' = shown /\ window' = window /\ result' = result /\ cut' = cut /\ unsent' = unsent
      /\ faults' = faults /\ rec.state = "running" /\ rec.node = n
  BY DEF ReportFinished, expireNodes
<1>2. StreamsTypeOK /\ SizesSay /\ PipesSay /\ StatusSays /\ WholeSays
  BY DEF StreamsInv
<1>3. /\ rec' \in OneJob /\ rec'.state \in {"pending", "over"}
      /\ \/ /\ run[n].proc = "exited" /\ rec'.state = "over" /\ rec'.node = n /\ (rec'.ok => run[n].code = 0)
         \/ run[n].proc = "dead" /\ (rec'.ok => rec.ok)
  <2>1. rec \in OneJob /\ run[n].code \in 0..1
    BY <1>2, RunIs DEF StreamsTypeOK
  <2>2. CASE ReportFinished(n)
    <3> DEFINE k == (run[n].code = 0)
    <3>1. /\ run[n].proc = "exited"
          /\ rec' = [rec EXCEPT !.state = "over", !.ok = k, !.code = run[n].code]
      BY <2>2 DEF ReportFinished
    <3>2. k \in BOOLEAN /\ (k => run[n].code = 0)
      OBVIOUS
    <3> HIDE DEF k
    <3>3. rec' \in OneJob /\ rec'.state = "over" /\ rec'.node = rec.node
      BY <2>1, <3>1, <3>2 DEF OneJob
    <3>4. rec'.ok = k
      BY <2>1, <3>1, <3>2 DEF OneJob
    <3> QED  BY <1>1, <3>1, <3>2, <3>3, <3>4
  <2>3. CASE expireNodes(n)
    <3>1. /\ run[n].proc = "dead"
          /\ \/ rec' = [rec EXCEPT !.state = "pending", !.node = "nowhere"]
             \/ rec' = [rec EXCEPT !.state = "over", !.ok = FALSE, !.code = 1]
      BY <2>3 DEF expireNodes
    <3>2. CASE rec' = [rec EXCEPT !.state = "pending", !.node = "nowhere"]
      <4>1. rec' \in OneJob /\ rec'.state = "pending"
        BY <2>1, <3>2 DEF OneJob
      <4>2. rec'.ok = rec.ok
        BY <2>1, <3>2 DEF OneJob
      <4> QED  BY <3>1, <4>1, <4>2
    <3>3. CASE rec' = [rec EXCEPT !.state = "over", !.ok = FALSE, !.code = 1]
      <4> DEFINE k == FALSE  c == 1
      <4>1. k \in BOOLEAN /\ c \in 0..1 /\ ~k /\ rec' = [rec EXCEPT !.state = "over", !.ok = k, !.code = c]
        BY <3>3
      <4> HIDE DEF k, c
      <4>2. rec' \in OneJob /\ rec'.state = "over"
        BY <2>1, <4>1 DEF OneJob
      <4>3. rec'.ok = k
        BY <2>1, <4>1 DEF OneJob
      <4> QED  BY <3>1, <4>1, <4>2, <4>3
    <3> QED  BY <3>1, <3>2, <3>3
  <2> QED  BY <2>2, <2>3
<1>4. StreamsTypeOK'
  BY <1>1, <1>2, <1>3 DEF StreamsTypeOK
<1>5. SizesSay'
  BY <1>1, <1>2 DEF SizesSay
<1>6. PipesSay'
  BY <1>1, <1>2, <1>3 DEF PipesSay, Early
<1>7. StatusSays'
  BY <1>1, <1>2, <1>3 DEF StatusSays
<1>8. WholeSays'
  <2> SUFFICES ASSUME ~cut PROVE WholeSays'
    BY <1>1 DEF WholeSays
  <2>1. run[n].proc = "exited" /\ rec'.state = "over" /\ rec'.node = n
    BY <1>2, <1>3 DEF WholeSays, RunSays
  <2>2. ~NothingRan /\ ~NothingRan'
    BY <1>1, <2>1 DEF NothingRan
  <2>3. \A m \in Runners : RunSays(m)'
    BY <1>1, <1>2, <2>1 DEF WholeSays, RunSays, AllSent
  <2>4. \A m \in Runners : AllSent(m)' <=> AllSent(m)
    BY <1>1 DEF AllSent
  <2> QED  BY <1>1, <1>2, <2>2, <2>3, <2>4 DEF WholeSays
<1> QED  BY <1>4, <1>5, <1>6, <1>7, <1>8 DEF StreamsInv


LEMMA BindKeeps ==
  \* The session is bound to the job.
  ASSUME StreamsInv, bindStream
  PROVE  StreamsInv'
<1>1. /\ srun = "submitting" /\ srun' = "submitted" /\ rec' = rec /\ run' = run /\ reaping' = reaping
      /\ shown' = shown /\ window' = window /\ result' = result /\ cut' = cut /\ unsent' = unsent
      /\ faults' = faults /\ rec.state # "none"
  BY DEF bindStream
<1>2. StreamsTypeOK /\ SizesSay /\ PipesSay /\ StatusSays /\ WholeSays
  BY DEF StreamsInv
<1>3. /\ sess' \in OneSession /\ sess'.there = sess.there /\ sess'.open = sess.open
      /\ sess'.client = sess.client /\ sess'.exited = sess.exited /\ sess'.node = sess.node
      /\ sess'.size = sess.size /\ sess'.ver = sess.ver /\ sess'.code = sess.code
  <2> DEFINE b == sess.there
  <2>1. sess \in OneSession /\ b \in BOOLEAN
    BY <1>2, SessIs DEF StreamsTypeOK
  <2>2. sess' = [sess EXCEPT !.bound = b]
    BY DEF bindStream
  <2> HIDE DEF b
  <2>3. sess' \in OneSession /\ sess'.size = sess.size /\ sess'.ver = sess.ver /\ sess'.code = sess.code
    BY <2>1, <2>2 DEF OneSession
  <2>4. /\ sess'.there = sess.there /\ sess'.open = sess.open
        /\ sess'.client = sess.client /\ sess'.exited = sess.exited /\ sess'.node = sess.node
    BY <2>1, <2>2 DEF OneSession
  <2> QED  BY <2>3, <2>4
<1>4. StreamsTypeOK'
  BY <1>1, <1>2, <1>3 DEF StreamsTypeOK
<1>5. SizesSay'
  BY <1>1, <1>2, <1>3 DEF SizesSay
<1>6. PipesSay'
  BY <1>1, <1>2, <1>3 DEF PipesSay, Early
<1>7. StatusSays'
  BY <1>1, <1>2, <1>3 DEF StatusSays
<1>8. WholeSays'
  <2>1. \A m \in Runners : (AllSent(m)' <=> AllSent(m)) /\ (RunSays(m)' <=> RunSays(m))
    BY <1>1 DEF RunSays, AllSent
  <2>2. NothingRan' <=> NothingRan
    BY <1>1 DEF NothingRan
  <2> QED  BY <1>1, <1>2, <1>3, <2>1, <2>2 DEF WholeSays
<1> QED  BY <1>4, <1>5, <1>6, <1>7, <1>8 DEF StreamsInv

LEMMA StreamOutKeeps ==
  \* A machine asks for the session's pipe.
  ASSUME StreamsInv, NEW n \in Runners, agentStreamOut(n)
  PROVE  StreamsInv'
<1>1. /\ rec' = rec /\ srun' = srun /\ reaping' = reaping
      /\ shown' = shown /\ window' = window /\ result' = result /\ unsent' = unsent
      /\ faults' = faults /\ run[n].relay = "connecting"
  BY DEF agentStreamOut
<1>2. StreamsTypeOK /\ SizesSay /\ PipesSay /\ StatusSays /\ WholeSays
  BY DEF StreamsInv
<1>3. /\ sess' \in OneSession /\ sess'.there = sess.there /\ sess'.open = sess.open
      /\ sess'.client = sess.client /\ sess'.exited = sess.exited
      /\ sess'.size = sess.size /\ sess'.ver = sess.ver /\ sess'.code = sess.code
      /\ \/ sess.there /\ ~sess.node /\ sess'.node /\ cut' = cut /\ run' = [run EXCEPT ![n].relay = "open"]
         \/ sess' = sess /\ cut' = TRUE /\ run' = [run EXCEPT ![n].relay = "closed"]
  <2>1. sess \in OneSession /\ cut \in BOOLEAN
    BY <1>2 DEF StreamsTypeOK
  <2>2. CASE streamBelongsTo(n) /\ AttachNode
    <3>1. /\ sess.there /\ ~sess.node /\ sess' = [sess EXCEPT !.node = TRUE] /\ (cut' <=> cut)
          /\ run' = [run EXCEPT ![n].relay = "open"] /\ cut' \in BOOLEAN
      BY <2>1, <2>2 DEF agentStreamOut, AttachNode
    <3>2. sess' \in OneSession /\ sess'.size = sess.size /\ sess'.ver = sess.ver /\ sess'.code = sess.code
      BY <2>1, <3>1 DEF OneSession
    <3>3. /\ sess'.there = sess.there /\ sess'.open = sess.open
          /\ sess'.client = sess.client /\ sess'.exited = sess.exited /\ sess'.node
      BY <2>1, <3>1 DEF OneSession
    <3>4. cut' = cut
      BY <2>1, <3>1
    <3> QED  BY <3>1, <3>2, <3>3, <3>4
  <2>3. CASE ~(streamBelongsTo(n) /\ AttachNode)
    <3>1. sess' = sess /\ cut' /\ cut' \in BOOLEAN /\ run' = [run EXCEPT ![n].relay = "closed"]
      BY <2>1, <2>3 DEF agentStreamOut
    <3> QED  BY <2>1, <3>1
  <2> QED  BY <2>2, <2>3
<1>4. /\ run' \in [Runners -> OneRun] /\ \A m \in Runners : m # n => run'[m] = run[m]
      /\ run'[n].proc = run[n].proc /\ run'[n].sent = run[n].sent
      /\ run'[n].wrote = run[n].wrote /\ run'[n].code = run[n].code
      /\ run'[n].well = run[n].well
      /\ \/ run'[n].relay = "open" /\ sess.there /\ ~sess.node /\ sess'.node /\ cut' = cut
         \/ run'[n].relay = "closed" /\ sess' = sess /\ cut' = TRUE
  <2>1. run[n] \in OneRun
    BY <1>2, RunIs
  <2>2. ASSUME NEW r \in {"open", "closed"}, run' = [run EXCEPT ![n].relay = r]
        PROVE  /\ run' \in [Runners -> OneRun] /\ \A m \in Runners : m # n => run'[m] = run[m]
               /\ run'[n].proc = run[n].proc /\ run'[n].sent = run[n].sent
               /\ run'[n].wrote = run[n].wrote /\ run'[n].code = run[n].code
               /\ run'[n].well = run[n].well /\ run'[n].relay = r
    <3> DEFINE t == [run[n] EXCEPT !.relay = r]
    <3>1. run' = [run EXCEPT ![n] = t]
      BY <2>2
    <3>2. /\ t \in OneRun /\ t.proc = run[n].proc /\ t.sent = run[n].sent /\ t.relay = r
          /\ t.wrote = run[n].wrote /\ t.code = run[n].code
      BY <2>1 DEF OneRun
    <3>3. t.well = run[n].well
      BY <2>1 DEF OneRun
    <3> HIDE DEF t
    <3> QED  BY <1>2, <3>1, <3>2, <3>3, RunSet
  <2> QED  BY <1>3, <2>2
<1>5. StreamsTypeOK'
  BY <1>1, <1>2, <1>3, <1>4 DEF StreamsTypeOK
<1>6. SizesSay'
  BY <1>1, <1>2, <1>3 DEF SizesSay
<1>7. PipesSay'
  BY <1>1, <1>2, <1>3, <1>4 DEF PipesSay, Early
<1>8. StatusSays'
  BY <1>1, <1>2, <1>3, <1>4 DEF StatusSays
<1>9. WholeSays'
  <2> SUFFICES ASSUME ~cut' PROVE WholeSays'
    BY DEF WholeSays
  <2>1. ~cut /\ run'[n].relay = "open"
    BY <1>4
  <2>2. \A m \in Runners : (AllSent(m)' <=> AllSent(m)) /\ (run'[m].proc = "none" <=> run[m].proc = "none")
    BY <1>4 DEF AllSent
  <2>3. NothingRan' <=> NothingRan
    BY <2>2 DEF NothingRan
  <2>4. \A m \in Runners : RunSays(m) => RunSays(m)'
    BY <1>1, <1>4, <2>1, <2>2 DEF RunSays
  <2> QED  BY <1>1, <1>2, <1>3, <2>1, <2>2, <2>3, <2>4 DEF WholeSays
<1> QED  BY <1>5, <1>6, <1>7, <1>8, <1>9 DEF StreamsInv

LEMMA RelayKeeps ==
  \* A chunk is relayed, and shown.
  ASSUME StreamsInv, NEW n \in Runners, relayOutput(n)
  PROVE  StreamsInv'
<1>1. /\ sess' = sess /\ rec' = rec /\ srun' = srun /\ reaping' = reaping
      /\ shown' = shown + 1 /\ window' = window /\ result' = result /\ cut' = cut /\ unsent' = unsent
      /\ faults' = faults
      /\ run[n].relay = "open" /\ run[n].sent < run[n].wrote /\ sess.there /\ sess.open /\ srun = "attached"
  BY DEF relayOutput
<1>2. StreamsTypeOK /\ SizesSay /\ PipesSay /\ StatusSays /\ WholeSays
  BY DEF StreamsInv
<1>3. run[n].sent \in Nat /\ run[n].wrote \in 0..MaxOutput /\ run[n].sent + 1 \in 0..MaxOutput
  BY <1>1, <1>2, RunIs, StreamsAssumption
<1>4. /\ run' \in [Runners -> OneRun] /\ \A m \in Runners : m # n => run'[m] = run[m]
      /\ run'[n].proc = run[n].proc /\ run'[n].sent = run[n].sent + 1 /\ run'[n].relay = run[n].relay
      /\ run'[n].code = run[n].code /\ run'[n].wrote = run[n].wrote
      /\ run'[n].well = run[n].well
  <2> DEFINE t == [run[n] EXCEPT !.sent = @ + 1]
  <2>1. run' = [run EXCEPT ![n] = t]
    BY DEF relayOutput
  <2>2. run[n] \in OneRun
    BY <1>2, RunIs
  <2>3. /\ t \in OneRun /\ t.proc = run[n].proc /\ t.sent = run[n].sent + 1 /\ t.relay = run[n].relay
        /\ t.code = run[n].code /\ t.wrote = run[n].wrote
    BY <1>3, <2>2 DEF OneRun
  <2>4. t.well = run[n].well
    BY <2>2 DEF OneRun
  <2> HIDE DEF t
  <2> QED  BY <1>1, <1>2, <2>1, <2>3, <2>4, RunSet
<1>5. shown = run[n].sent /\ sess.node
  BY <1>1, <1>2 DEF PipesSay
<1>6. StreamsTypeOK'
  BY <1>1, <1>2, <1>3, <1>4, <1>5 DEF StreamsTypeOK
<1>7. SizesSay'
  BY <1>1, <1>2 DEF SizesSay
<1>8. PipesSay'
  <2>1. \A m \in Runners : run'[m].sent <= run'[m].wrote /\ (run'[m].relay = "connecting" => run'[m].sent = 0)
    BY <1>1, <1>2, <1>3, <1>4 DEF PipesSay
  <2>2. \A m \in Runners : run'[m].relay = "open" => m = n
    BY <1>1, <1>2, <1>4 DEF PipesSay
  <2>3. srun' # "start" /\ ~Early' /\ sess'.node /\ rec'.state # "none"
    BY <1>1, <1>2, <1>5 DEF PipesSay, Early
  <2>4. shown' = run'[n].sent
    BY <1>1, <1>4, <1>5
  <2> QED  BY <2>1, <2>2, <2>3, <2>4 DEF PipesSay
<1>9. StatusSays'
  BY <1>1, <1>2, <1>4 DEF StatusSays
<1>10. WholeSays'
  <2> SUFFICES ASSUME ~cut PROVE WholeSays'
    BY <1>1 DEF WholeSays
  <2>1. \A m \in Runners : RunSays(m)
    BY <1>2 DEF WholeSays
  <2>2. run[n].proc # "none" /\ run[n].proc # "dead" /\ rec.node = n /\ rec.state \in {"running", "over"}
    BY <1>1, <2>1 DEF RunSays
  <2>3. \A m \in Runners : m # n => run[m].proc = "none" /\ run[m].relay = "none"
    BY <2>1, <2>2 DEF RunSays
  <2>4. \A m \in Runners : RunSays(m)'
    BY <1>1, <1>4, <1>5, <2>2, <2>3 DEF RunSays
  <2>5. ~NothingRan' /\ ~NothingRan
    BY <1>4, <2>2 DEF NothingRan
  <2> QED  BY <1>1, <1>2, <2>4, <2>5 DEF WholeSays
<1> QED  BY <1>6, <1>7, <1>8, <1>9, <1>10 DEF StreamsInv

LEMMA RelayEndsKeeps ==
  \* A relay ends, and takes the pipe with it.
  ASSUME StreamsInv, NEW n \in Runners, RelayEnds(n)
  PROVE  StreamsInv'
<1>1. /\ rec' = rec /\ srun' = srun /\ reaping' = reaping
      /\ shown' = shown /\ window' = window /\ result' = result /\ cut' = cut /\ unsent' = unsent
      /\ faults' = faults
      /\ \/ run[n].relay = "open" /\ AllSent(n)
         \/ run[n].relay = "open" /\ run[n].sent < run[n].wrote /\ ~(sess.there /\ sess.open)
         \/ run[n].relay = "broken"
  BY DEF RelayEnds, Drained, AllSent
<1>2. StreamsTypeOK /\ SizesSay /\ PipesSay /\ StatusSays /\ WholeSays
  BY DEF StreamsInv
<1>3. /\ sess' \in OneSession /\ sess'.there = sess.there /\ ~sess'.open
      /\ sess'.client = sess.client /\ sess'.exited = sess.exited /\ sess'.node = sess.node
      /\ sess'.size = sess.size /\ sess'.ver = sess.ver /\ sess'.code = sess.code
  <2>1. sess \in OneSession /\ sess' = [sess EXCEPT !.open = FALSE]
    BY <1>2 DEF StreamsTypeOK, RelayEnds
  <2>2. sess' \in OneSession /\ sess'.size = sess.size /\ sess'.ver = sess.ver /\ sess'.code = sess.code
    BY <2>1 DEF OneSession
  <2>3. /\ sess'.there = sess.there /\ ~sess'.open
        /\ sess'.client = sess.client /\ sess'.exited = sess.exited /\ sess'.node = sess.node
    BY <2>1 DEF OneSession
  <2> QED  BY <2>2, <2>3
<1>4. /\ run' \in [Runners -> OneRun] /\ \A m \in Runners : m # n => run'[m] = run[m]
      /\ run'[n].proc = run[n].proc /\ run'[n].sent = run[n].sent /\ run'[n].relay = "closed"
      /\ run'[n].wrote = run[n].wrote /\ run'[n].code = run[n].code
      /\ run'[n].well = run[n].well
  <2> DEFINE t == [run[n] EXCEPT !.relay = "closed"]
  <2>1. run' = [run EXCEPT ![n] = t]
    BY DEF RelayEnds
  <2>2. run[n] \in OneRun
    BY <1>2, RunIs
  <2>3. /\ t \in OneRun /\ t.proc = run[n].proc /\ t.sent = run[n].sent /\ t.relay = "closed"
        /\ t.code = run[n].code /\ t.wrote = run[n].wrote
    BY <2>2 DEF OneRun
  <2>4. t.well = run[n].well
    BY <2>2 DEF OneRun
  <2> HIDE DEF t
  <2> QED  BY <1>1, <1>2, <2>1, <2>3, <2>4, RunSet
<1>5. StreamsTypeOK'
  BY <1>1, <1>2, <1>3, <1>4 DEF StreamsTypeOK
<1>6. SizesSay'
  BY <1>1, <1>2, <1>3 DEF SizesSay
<1>7. PipesSay'
  BY <1>1, <1>2, <1>3, <1>4 DEF PipesSay, Early
<1>8. StatusSays'
  BY <1>1, <1>2, <1>3, <1>4 DEF StatusSays
<1>9. WholeSays'
  <2> SUFFICES ASSUME ~cut PROVE WholeSays'
    BY <1>1 DEF WholeSays
  <2>1. \A m \in Runners : RunSays(m)
    BY <1>2 DEF WholeSays
  <2>2. /\ run[n].relay = "open" /\ run[n].proc \notin {"none", "dead"}
        /\ rec.node = n /\ rec.state \in {"running", "over"}
    BY <1>1, <2>1 DEF RunSays
  <2>3. \A m \in Runners : m # n => run[m].proc = "none" /\ run[m].relay = "none"
    BY <2>1, <2>2 DEF RunSays
  <2>4. ~NothingRan' /\ ~NothingRan
    BY <1>4, <2>2 DEF NothingRan
  <2>5. AllSent(n)
    <3>1. CASE run[n].sent < run[n].wrote /\ ~(sess.there /\ sess.open)
      <4>1. srun # "start"
        BY <1>2, <2>2 DEF PipesSay
      <4>2. PICK m \in Runners : AllSent(m)
        BY <1>2, <2>4, <3>1, <4>1 DEF WholeSays
      <4> QED  BY <2>3, <4>2 DEF AllSent
    <3> QED  BY <1>1, <2>2, <3>1
  <2>6. AllSent(n)'
    BY <1>4, <2>5 DEF AllSent
  <2>7. \A m \in Runners : RunSays(m)'
    BY <1>1, <1>4, <2>1, <2>2, <2>6 DEF RunSays
  <2> QED  BY <1>1, <1>2, <1>3, <2>4, <2>6, <2>7 DEF WholeSays
<1> QED  BY <1>5, <1>6, <1>7, <1>8, <1>9 DEF StreamsInv

LEMMA StatusKeeps ==
  \* The status of a run arrives, or is too late.
  ASSUME StreamsInv, NEW n \in Runners, agentStreamExit(n)
  PROVE  StreamsInv'
<1>1. /\ rec' = rec /\ srun' = srun /\ reaping' = reaping
      /\ shown' = shown /\ window' = window /\ result' = result /\ unsent' = unsent
      /\ faults' = faults /\ run[n].proc = "exited"
      /\ \/ FinishStream(run[n].code) /\ cut' = (cut \/ OutputMissing(n))
         \/ sess' = sess /\ cut' = cut
  BY DEF agentStreamExit
<1>2. StreamsTypeOK /\ SizesSay /\ PipesSay /\ StatusSays /\ WholeSays
  BY DEF StreamsInv
<1>3. /\ run' \in [Runners -> OneRun] /\ \A m \in Runners : m # n => run'[m] = run[m]
      /\ run'[n].proc = run[n].proc /\ run'[n].sent = run[n].sent /\ run'[n].relay = run[n].relay
      /\ run'[n].wrote = run[n].wrote /\ run'[n].code = run[n].code
      /\ run'[n].well = run[n].well
  <2> DEFINE t == [run[n] EXCEPT !.due = FALSE]
  <2>1. run' = [run EXCEPT ![n] = t]
    BY DEF agentStreamExit
  <2>2. run[n] \in OneRun
    BY <1>2, RunIs
  <2>3. /\ t \in OneRun /\ t.proc = run[n].proc /\ t.sent = run[n].sent /\ t.relay = run[n].relay
        /\ t.code = run[n].code /\ t.wrote = run[n].wrote
    BY <2>2 DEF OneRun
  <2>4. t.well = run[n].well
    BY <2>2 DEF OneRun
  <2> HIDE DEF t
  <2> QED  BY <1>1, <1>2, <2>1, <2>3, <2>4, RunSet
<1>4. /\ sess' \in OneSession /\ sess'.there = sess.there
      /\ sess'.client = sess.client /\ sess'.node = sess.node
      /\ sess'.size = sess.size /\ sess'.ver = sess.ver
      /\ sess'.exited /\ sess'.code = 0 => (sess.exited /\ sess.code = 0) \/ run[n].code = 0
      /\ sess'.open => sess.open
  <2> DEFINE c == run[n].code
  <2>1. CASE FinishStream(c)
    <3>1. c \in 0..1
      BY <1>2, RunIs
    <3> HIDE DEF c
    <3>2. /\ sess' \in OneSession /\ sess'.there = sess.there /\ sess'.client = sess.client
          /\ sess'.node = sess.node /\ sess'.size = sess.size /\ sess'.ver = sess.ver
          /\ sess'.open => sess.open
          /\ sess'.exited /\ sess'.code = 0 => (sess.exited /\ sess.code = 0) \/ c = 0
      BY <1>2, <2>1, <3>1, FinishIs
    <3> QED  BY <3>2 DEF c
  <2>2. CASE sess' = sess
    BY <1>2, <2>2 DEF StreamsTypeOK
  <2> QED  BY <1>1, <2>1, <2>2
<1>5. cut' \in BOOLEAN /\ (cut => cut')
  BY <1>1, <1>2 DEF StreamsTypeOK, OutputMissing
<1>6. StreamsTypeOK'
  BY <1>1, <1>2, <1>3, <1>4, <1>5 DEF StreamsTypeOK
<1>7. SizesSay'
  BY <1>1, <1>2, <1>4 DEF SizesSay
<1>8. PipesSay'
  BY <1>1, <1>2, <1>3, <1>4 DEF PipesSay, Early
<1>9. StatusSays'
  BY <1>1, <1>2, <1>3, <1>4 DEF StatusSays
<1>10. WholeSays'
  <2> SUFFICES ASSUME ~cut' PROVE WholeSays'
    BY DEF WholeSays
  <2>1. ~cut /\ \A m \in Runners : RunSays(m)
    BY <1>2, <1>5 DEF WholeSays
  <2>2. \A m \in Runners : (AllSent(m)' <=> AllSent(m)) /\ (run'[m].proc = "none" <=> run[m].proc = "none")
    BY <1>3 DEF AllSent
  <2>3. NothingRan' <=> NothingRan
    BY <2>2 DEF NothingRan
  <2>4. \A m \in Runners : RunSays(m)'
    BY <1>1, <1>3, <2>1, <2>2 DEF RunSays
  <2>5. ~NothingRan
    BY <1>1 DEF NothingRan
  <2>6. CASE sess' = sess
    BY <1>1, <1>2, <2>1, <2>2, <2>3, <2>4, <2>5, <2>6 DEF WholeSays
  <2>7. CASE ~OutputMissing(n)
    <3>1. run[n].sent \in Nat /\ run[n].wrote \in Nat /\ run[n].sent <= run[n].wrote
      BY <1>2, RunIs DEF PipesSay
    <3>2. run[n].relay \in {"connecting", "open", "closed"}
      BY <1>1, <1>2, <2>1, RunIs DEF RunSays
    <3>3. AllSent(n)
      BY <1>1, <2>1, <2>7, <3>1, <3>2 DEF OutputMissing, RunSays, AllSent
    <3> QED  BY <1>1, <1>2, <1>4, <2>1, <2>2, <2>3, <2>4, <2>5, <3>3 DEF WholeSays
  <2> QED  BY <1>1, <2>6, <2>7
<1> QED  BY <1>6, <1>7, <1>8, <1>9, <1>10 DEF StreamsInv


LEMMA RunsStay ==
  \* What is true of runs while nothing happens to them, to the record or to what was shown.
  ASSUME run' = run, rec' = rec, shown' = shown
  PROVE  /\ NothingRan' <=> NothingRan
         /\ \A n \in Runners : (AllSent(n)' <=> AllSent(n)) /\ (RunSays(n)' <=> RunSays(n))
<1>1. \A n \in Runners : AllSent(n)' <=> AllSent(n)
  BY DEF AllSent
<1> QED  BY <1>1 DEF NothingRan, RunSays

LEMMA WindowsKeep ==
  \* A pass lists the session, or the person's window changes.
  ASSUME StreamsInv, ListOrphans \/ Resize \/ ResizeLost
  PROVE  StreamsInv'
<1>1. /\ sess' = sess /\ rec' = rec /\ run' = run /\ srun' = srun
      /\ shown' = shown /\ result' = result /\ cut' = cut
      /\ Fault \/ faults' = faults
  BY DEF ListOrphans, Resize, ResizeLost
<1>2. StreamsTypeOK /\ SizesSay /\ PipesSay /\ StatusSays /\ WholeSays
  BY DEF StreamsInv
<1>3. /\ window' \in [size : 0..MaxResizes, moved : BOOLEAN] /\ window'.size \in {window.size, window.size + 1}
      /\ reaping' \in BOOLEAN /\ unsent' \in BOOLEAN
  <2>1. /\ window \in [size : 0..MaxResizes, moved : BOOLEAN]
        /\ window.size \in 0..MaxResizes /\ MaxResizes \in Nat
    BY <1>2, StreamsAssumption DEF StreamsTypeOK
  <2>2. CASE ListOrphans
    BY <1>2, <2>1, <2>2 DEF ListOrphans, StreamsTypeOK
  <2>3. CASE Resize
    BY <1>2, <2>1, <2>3 DEF Resize, StreamsTypeOK
  <2>4. CASE ResizeLost
    BY <1>2, <2>1, <2>4 DEF ResizeLost, StreamsTypeOK
  <2> QED  BY <2>2, <2>3, <2>4
<1>4. StreamsTypeOK'
  BY <1>1, <1>2, <1>3, FaultIs DEF StreamsTypeOK
<1>5. SizesSay'
  <2>1. window.size \in Nat /\ sess.size \in Nat
    BY <1>2, SessIs DEF StreamsTypeOK
  <2> QED  BY <1>1, <1>2, <1>3, <2>1 DEF SizesSay
<1>6. PipesSay'
  BY <1>1, <1>2 DEF PipesSay, Early
<1>7. StatusSays'
  BY <1>1, <1>2 DEF StatusSays
<1>8. WholeSays'
  BY <1>1, <1>2, RunsStay DEF WholeSays
<1> QED  BY <1>4, <1>5, <1>6, <1>7, <1>8 DEF StreamsInv

LEMMA ResizeKeeps ==
  \* The session learns the size of the window.
  ASSUME StreamsInv, srunResize
  PROVE  StreamsInv'
<1>1. /\ rec' = rec /\ run' = run /\ srun' = srun /\ reaping' = reaping
      /\ shown' = shown /\ result' = result /\ cut' = cut /\ unsent' = unsent /\ faults' = faults
      /\ window' = [window EXCEPT !.moved = FALSE] /\ SetStreamSize
  BY DEF srunResize, streamResize
<1>2. StreamsTypeOK /\ SizesSay /\ PipesSay /\ StatusSays /\ WholeSays
  BY DEF StreamsInv
<1>3. window' \in [size : 0..MaxResizes, moved : BOOLEAN] /\ window'.size = window.size
  BY <1>1, <1>2 DEF StreamsTypeOK
<1>4. /\ sess.size \in 0..MaxResizes /\ sess.ver \in 0..MaxResizes /\ window.size \in 0..MaxResizes
      /\ MaxResizes \in Nat
  BY <1>2, SessIs, StreamsAssumption DEF StreamsTypeOK
<1>5. /\ sess' \in OneSession /\ sess'.there = sess.there /\ sess'.open = sess.open
      /\ sess'.client = sess.client /\ sess'.exited = sess.exited /\ sess'.node = sess.node
      /\ sess'.code = sess.code
      /\ \/ sess'.size = sess.size /\ sess'.ver = sess.ver
         \/ sess'.size = window.size /\ sess'.ver = sess.ver + 1 /\ sess.size # window.size
  <2>1. CASE sess.size = window.size
    BY <1>1, <1>2, <2>1 DEF SetStreamSize, StreamsTypeOK
  <2>2. CASE sess.size # window.size
    <3> DEFINE w == window.size  v == sess.ver + 1
    <3>1. w \in 0..MaxResizes /\ v \in 0..MaxResizes
      BY <1>2, <1>4, <2>2 DEF SizesSay
    <3>2. sess \in OneSession /\ sess' = [sess EXCEPT !.size = w, !.ver = v]
      BY <1>1, <1>2, <2>2 DEF SetStreamSize, StreamsTypeOK
    <3> HIDE DEF w, v
    <3>3. sess' \in OneSession /\ sess'.size = w /\ sess'.ver = v /\ sess'.code = sess.code
      BY <3>1, <3>2 DEF OneSession
    <3>4. /\ sess'.there = sess.there /\ sess'.open = sess.open
          /\ sess'.client = sess.client /\ sess'.exited = sess.exited /\ sess'.node = sess.node
      BY <3>1, <3>2 DEF OneSession
    <3> QED  BY <2>2, <3>3, <3>4 DEF w, v
  <2> QED  BY <2>1, <2>2
<1>6. StreamsTypeOK'
  BY <1>1, <1>2, <1>3, <1>5 DEF StreamsTypeOK
<1>7. SizesSay'
  BY <1>2, <1>3, <1>4, <1>5 DEF SizesSay
<1>8. PipesSay'
  BY <1>1, <1>2, <1>5 DEF PipesSay, Early
<1>9. StatusSays'
  BY <1>1, <1>2, <1>5 DEF StatusSays
<1>10. WholeSays'
  BY <1>1, <1>2, <1>5, RunsStay DEF WholeSays
<1> QED  BY <1>6, <1>7, <1>8, <1>9, <1>10 DEF StreamsInv

LEMMA ReapKeeps ==
  \* A session of a job that is over is ended by the controller.
  ASSUME StreamsInv, reapOrphanStreams
  PROVE  StreamsInv'
<1>1. /\ rec' = rec /\ run' = run /\ srun' = srun /\ reaping' = FALSE
      /\ shown' = shown /\ window' = window /\ result' = result /\ unsent' = unsent
      /\ faults' = faults
      /\ \/ /\ rec.state = "over" /\ FinishStream(OrphanCode)
            /\ cut' = (cut \/ \E n \in Runners : run[n].relay \in {"connecting", "open"})
         \/ sess' = sess /\ cut' = cut
  BY DEF reapOrphanStreams
<1>2. StreamsTypeOK /\ SizesSay /\ PipesSay /\ StatusSays /\ WholeSays
  BY DEF StreamsInv
<1>3. CASE sess' = sess /\ cut' = cut
  <2>1. StreamsTypeOK'
    BY <1>1, <1>2, <1>3 DEF StreamsTypeOK
  <2>2. SizesSay'
    BY <1>1, <1>2, <1>3 DEF SizesSay
  <2>3. PipesSay'
    BY <1>1, <1>2, <1>3 DEF PipesSay, Early
  <2>4. StatusSays'
    BY <1>1, <1>2, <1>3 DEF StatusSays
  <2>5. WholeSays'
    BY <1>1, <1>2, <1>3, RunsStay DEF WholeSays
  <2> QED  BY <2>1, <2>2, <2>3, <2>4, <2>5 DEF StreamsInv
<1>4. CASE /\ rec.state = "over" /\ FinishStream(OrphanCode)
           /\ cut' = (cut \/ \E n \in Runners : run[n].relay \in {"connecting", "open"})
  <2> DEFINE c == OrphanCode
  <2>1. c \in 0..1 /\ c # 0 /\ FinishStream(c)
    BY <1>2, <1>4, SessIs DEF OrphanCode
  <2> HIDE DEF c
  <2>2. /\ sess' \in OneSession /\ sess'.there = sess.there /\ sess'.client = sess.client
        /\ sess'.node = sess.node /\ sess'.size = sess.size /\ sess'.ver = sess.ver
        /\ sess'.open => sess.open
        /\ sess'.exited /\ sess'.code = 0 => sess.exited /\ sess.code = 0
    BY <1>2, <2>1, FinishIs
  <2>3. cut' \in BOOLEAN
    BY <1>4
  <2>4. StreamsTypeOK'
    BY <1>1, <1>2, <2>2, <2>3 DEF StreamsTypeOK
  <2>5. SizesSay'
    BY <1>1, <1>2, <2>2 DEF SizesSay
  <2>6. PipesSay'
    BY <1>1, <1>2, <2>2 DEF PipesSay, Early
  <2>7. StatusSays'
    BY <1>1, <1>2, <2>2 DEF StatusSays
  <2>8. WholeSays'
    <3> SUFFICES ASSUME ~cut' PROVE WholeSays'
      BY DEF WholeSays
    <3>1. ~cut /\ \A n \in Runners : run[n].relay \notin {"connecting", "open"}
      BY <1>4
    <3>2. \A n \in Runners : RunSays(n)
      BY <1>2, <3>1 DEF WholeSays
    <3>3. \A n \in Runners : run[n].proc = "none" \/ AllSent(n)
      BY <1>2, <3>1, <3>2, RunIs DEF RunSays
    <3>4. (\E n \in Runners : AllSent(n)) \/ NothingRan
      BY <3>3 DEF NothingRan
    <3>5. (\E n \in Runners : AllSent(n)') \/ (NothingRan' /\ rec'.state = "over")
      BY <1>1, <1>4, <3>4, RunsStay
    <3> QED  BY <1>1, <1>2, <2>2, <3>1, <3>5, RunsStay DEF WholeSays
  <2> QED  BY <2>4, <2>5, <2>6, <2>7, <2>8 DEF StreamsInv
<1> QED  BY <1>1, <1>3, <1>4

LEMMA BreaksKeeps ==
  \* The session expires, srun's connection breaks, or the controller starts again.
  ASSUME StreamsInv, expireStream \/ ClientBreaks \/ ControllerRestarts
  PROVE  StreamsInv'
<1>1. /\ rec' = rec /\ shown' = shown /\ window' = window /\ unsent' = unsent /\ Fault /\ cut' = TRUE
      /\ \/ srun = "submitted" /\ srun' = "submitted" /\ sess' = NoSession
         \/ srun = "attached" /\ srun' = "finishing" /\ sess' = sess
         \/ /\ sess' = NoSession
            /\ srun' = CASE srun = "submitting" -> "done" [] srun = "attached" -> "finishing" [] OTHER -> srun
  BY DEF expireStream, ClientBreaks, ControllerRestarts, CloseStream
<1>2. StreamsTypeOK /\ SizesSay /\ PipesSay /\ StatusSays /\ WholeSays
  BY DEF StreamsInv
<1>3. /\ sess' \in OneSession /\ (sess' = sess \/ sess' = NoSession) /\ reaping' \in BOOLEAN
      /\ result' = result \/ (result' = "unknown" /\ srun = "submitting" /\ srun' = "done")
      /\ srun' = srun \/ (srun = "submitting" /\ srun' = "done") \/ (srun = "attached" /\ srun' = "finishing")
  <2>1. sess \in OneSession /\ NoSession \in OneSession /\ reaping \in BOOLEAN
    BY <1>2, NoSessionIs DEF StreamsTypeOK
  <2>2. CASE expireStream
    BY <2>1, <2>2 DEF expireStream, CloseStream
  <2>3. CASE ClientBreaks
    BY <2>1, <2>3 DEF ClientBreaks
  <2>4. CASE ControllerRestarts
    <3>1. sess' = NoSession /\ reaping' = FALSE /\ result' = IF srun = "submitting" THEN "unknown" ELSE result
      BY <2>4 DEF ControllerRestarts
    <3>2. srun' = CASE srun = "submitting" -> "done" [] srun = "attached" -> "finishing" [] OTHER -> srun
      BY <2>4 DEF ControllerRestarts
    <3>3. CASE srun = "submitting"
      BY <2>1, <3>1, <3>2, <3>3
    <3>4. CASE srun = "attached"
      BY <2>1, <3>1, <3>2, <3>4
    <3>5. CASE srun # "submitting" /\ srun # "attached"
      BY <2>1, <3>1, <3>2, <3>5
    <3> QED  BY <3>3, <3>4, <3>5
  <2> QED  BY <2>2, <2>3, <2>4
<1>4. /\ run' \in [Runners -> OneRun]
      /\ \A n \in Runners :
           /\ run'[n].proc = run[n].proc /\ run'[n].sent = run[n].sent
           /\ run'[n].wrote = run[n].wrote /\ run'[n].code = run[n].code
           /\ run'[n].well = run[n].well
           /\ run'[n].relay = run[n].relay \/ (run[n].relay = "open" /\ run'[n].relay = "broken")
  <2>1. CASE run' = run
    BY <1>2, <1>3, <2>1 DEF StreamsTypeOK
  <2>2. CASE run' = [n \in Runners |-> IF run[n].relay = "open" THEN [run[n] EXCEPT !.relay = "broken"] ELSE run[n]]
    <3>1. ASSUME NEW n \in Runners
          PROVE  /\ run'[n] \in OneRun
                 /\ run'[n].proc = run[n].proc /\ run'[n].sent = run[n].sent
                 /\ run'[n].wrote = run[n].wrote /\ run'[n].code = run[n].code
                 /\ run'[n].well = run[n].well
                 /\ run'[n].relay = run[n].relay \/ (run[n].relay = "open" /\ run'[n].relay = "broken")
                 /\ run'[n].relay # "open"
      <4> DEFINE t == [run[n] EXCEPT !.relay = "broken"]
      <4>1. run[n] \in OneRun /\ run'[n] = IF run[n].relay = "open" THEN t ELSE run[n]
        BY <1>2, <2>2, RunIs
      <4>2. /\ t \in OneRun /\ t.proc = run[n].proc /\ t.sent = run[n].sent /\ t.relay = "broken"
            /\ t.wrote = run[n].wrote /\ t.code = run[n].code
        BY <4>1 DEF OneRun
      <4>3. t.well = run[n].well
        BY <4>1 DEF OneRun
      <4> HIDE DEF t
      <4> QED  BY <4>1, <4>2, <4>3
    <3> QED  BY <2>2, <3>1
  <2> QED  BY <2>1, <2>2 DEF expireStream, ClientBreaks, ControllerRestarts
<1>5. srun' \in {"start", "submitting", "submitted", "attached", "finishing", "done"} /\ result' \in {"none", "ok", "failed", "unknown"}
  BY <1>2, <1>3 DEF StreamsTypeOK
<1>6. StreamsTypeOK'
  BY <1>1, <1>2, <1>3, <1>4, <1>5, FaultIs DEF StreamsTypeOK
<1>7. SizesSay'
  <2>1. window.size \in 0..MaxResizes
    BY <1>2 DEF StreamsTypeOK
  <2> QED  BY <1>1, <1>2, <1>3, <2>1, NoSessionIs DEF SizesSay
<1>8. ~sess'.there \/ sess' = sess
  BY <1>3, NoSessionIs
<1>9. ~sess'.client \/ sess' = sess
  BY <1>3, NoSessionIs
<1>10. PipesSay'
  <2>1. srun' = "start" => srun = "start"
    BY <1>3
  <2>2. Early' => Early /\ ~sess'.client
    BY <1>2, <1>3, <1>9 DEF Early, PipesSay
  <2>3. \A n \in Runners : run'[n].relay = "open" => run[n].relay = "open"
    BY <1>4
  <2>4. Early' \/ srun' = "attached" => Early \/ srun = "attached"
    BY <1>3, <2>2
  <2>5. \A n \in Runners : run'[n].relay \in {"connecting", "none"} => run[n].relay = run'[n].relay
    BY <1>4
  <2>6. /\ srun' = "start" => ~sess'.there /\ rec'.state = "none"
        /\ rec'.state = "none" => \A n \in Runners : run'[n].proc = "none" /\ run'[n].relay = "none"
    BY <1>1, <1>2, <1>4, <1>8, <2>1 DEF PipesSay
  <2>7. \A n \in Runners : run'[n].sent <= run'[n].wrote /\ (run'[n].relay = "connecting" => run'[n].sent = 0)
    BY <1>2, <1>4, <2>5 DEF PipesSay
  <2>8. sess'.there /\ ~sess'.node => shown' = 0 /\ \A n \in Runners : run'[n].relay # "open"
    BY <1>1, <1>2, <1>8, <2>3 DEF PipesSay
  <2>9. Early' => shown' = 0 /\ ~sess'.client
    BY <1>1, <1>2, <2>2 DEF PipesSay
  <2>10. \A n, m \in Runners : run'[n].relay = "open" /\ run'[m].relay = "open" => n = m
    BY <1>2, <2>3 DEF PipesSay
  <2>11. \A n \in Runners : run'[n].relay = "open" /\ (Early' \/ srun' = "attached") => shown' = run'[n].sent
    BY <1>1, <1>2, <1>4, <2>3, <2>4 DEF PipesSay
  <2> QED  BY <2>6, <2>7, <2>8, <2>9, <2>10, <2>11 DEF PipesSay
<1>11. StatusSays'
  <2>1. sess'.exited => sess' = sess
    BY <1>3, NoSessionIs
  <2>2. result' = "ok" => result = "ok"
    BY <1>3
  <2>3. result' # "none" => srun' = "done"
    BY <1>2, <1>3 DEF StatusSays
  <2> QED  BY <1>1, <1>2, <1>4, <2>1, <2>2, <2>3 DEF StatusSays
<1>12. WholeSays'
  BY <1>1 DEF WholeSays
<1> QED  BY <1>6, <1>7, <1>10, <1>11, <1>12 DEF StreamsInv


LEMMA LeavesKeeps ==
  \* srun leaves a session that is no longer there, with what was stored of the output.
  ASSUME StreamsInv, rec' = rec, run' = run, reaping' = reaping, window' = window, result' = result,
         cut' = cut, unsent' = unsent, faults' = faults,
         srun \in {"submitted", "attached"}, srun' = "finishing", srunArchived,
         sess' \in OneSession, sess' = sess \/ sess' = NoSession, ~sess'.there, ~(sess.there /\ sess.open)
  PROVE  StreamsInv'
<1>1. StreamsTypeOK /\ SizesSay /\ PipesSay /\ StatusSays /\ WholeSays
  BY DEF StreamsInv
<1>2. /\ shown' \in 0..MaxOutput
      /\ shown' = shown \/ \E n \in Runners : run[n].proc = "exited" /\ shown = 0 /\ shown' = run[n].wrote
  BY <1>1, RunIs DEF srunArchived, StreamsTypeOK
<1>3. StreamsTypeOK'
  BY <1>1, <1>2 DEF StreamsTypeOK
<1>4. SizesSay'
  <2>1. window.size \in 0..MaxResizes
    BY <1>1 DEF StreamsTypeOK
  <2> QED  BY <1>1, <2>1, NoSessionIs DEF SizesSay
<1>5. PipesSay'
  BY <1>1 DEF PipesSay, Early
<1>6. StatusSays'
  <2>1. sess'.exited => sess' = sess
    BY NoSessionIs
  <2> QED  BY <1>1, <2>1 DEF StatusSays
<1>7. WholeSays'
  <2> SUFFICES ASSUME ~cut PROVE WholeSays'
    BY DEF WholeSays
  <2>1. /\ \A n \in Runners : RunSays(n)
        /\ NothingRan => shown = 0 /\ ~rec.ok
        /\ (\E n \in Runners : AllSent(n)) \/ (NothingRan /\ rec.state = "over")
        /\ result = "ok" => ~NothingRan
    BY <1>1 DEF WholeSays
  <2>2. \A n \in Runners : AllSent(n)' <=> AllSent(n)
    BY DEF AllSent
  <2>3. NothingRan' <=> NothingRan
    BY DEF NothingRan
  <2>4. ASSUME NEW n \in Runners, run[n].proc # "none" PROVE AllSent(n)
    <3>1. PICK m \in Runners : AllSent(m)
      BY <2>1, <2>4 DEF NothingRan
    <3>2. rec.node = n /\ rec.node = m
      BY <2>1, <2>4, <3>1 DEF RunSays, AllSent
    <3> QED  BY <3>1, <3>2
  <2>5. ASSUME NEW n \in Runners, run[n].proc # "none" PROVE shown' = run[n].sent
    <3>1. CASE shown' = shown
      BY <2>1, <2>5, <3>1 DEF RunSays
    <3>2. ASSUME NEW m \in Runners, run[m].proc = "exited", shown' = run[m].wrote PROVE shown' = run[n].sent
      <4>1. rec.node = n /\ rec.node = m
        BY <2>1, <2>5, <3>2 DEF RunSays
      <4>2. AllSent(n)
        BY <2>4, <2>5
      <4> QED  BY <3>2, <4>1, <4>2 DEF AllSent
    <3> QED  BY <1>2, <3>1, <3>2
  <2>6. \A n \in Runners : RunSays(n)'
    BY <2>1, <2>2, <2>5 DEF RunSays
  <2>7. NothingRan' => shown' = 0 /\ ~rec'.ok
    BY <1>2, <2>1, <2>3 DEF NothingRan
  <2> QED  BY <2>1, <2>2, <2>3, <2>6, <2>7 DEF WholeSays
<1> QED  BY <1>3, <1>4, <1>5, <1>6, <1>7 DEF StreamsInv

LEMMA AttachKeeps ==
  \* srun attaches, or there is nothing to attach to.
  ASSUME StreamsInv, srunStream
  PROVE  StreamsInv'
<1>1. /\ rec' = rec /\ run' = run /\ reaping' = reaping /\ window' = window /\ result' = result
      /\ cut' = cut /\ unsent' = unsent /\ faults' = faults /\ srun = "submitted"
  BY DEF srunStream
<1>2. StreamsTypeOK /\ SizesSay /\ PipesSay /\ StatusSays /\ WholeSays
  BY DEF StreamsInv
<1>3. ~sess.client
  BY <1>1, <1>2 DEF PipesSay, Early
<1>4. CASE AttachClient
  <2>1. sess.there /\ sess' = [sess EXCEPT !.client = TRUE] /\ srun' = "attached" /\ shown' = shown
    BY <1>4 DEF srunStream, AttachClient
  <2>2. sess \in OneSession
    BY <1>2 DEF StreamsTypeOK
  <2>3. /\ sess' \in OneSession /\ sess'.size = sess.size /\ sess'.ver = sess.ver /\ sess'.code = sess.code
    BY <2>1, <2>2 DEF OneSession
  <2>4. /\ sess'.there = sess.there /\ sess'.open = sess.open
        /\ sess'.exited = sess.exited /\ sess'.node = sess.node
    BY <2>1, <2>2 DEF OneSession
  <2>5. StreamsTypeOK'
    BY <1>1, <1>2, <2>1, <2>3 DEF StreamsTypeOK
  <2>6. SizesSay'
    BY <1>1, <1>2, <2>3 DEF SizesSay
  <2>7. PipesSay'
    BY <1>1, <1>2, <2>1, <2>4 DEF PipesSay, Early
  <2>8. StatusSays'
    BY <1>1, <1>2, <2>1, <2>3, <2>4 DEF StatusSays
  <2>9. WholeSays'
    BY <1>1, <1>2, <2>1, <2>4, RunsStay DEF WholeSays
  <2> QED  BY <2>5, <2>6, <2>7, <2>8, <2>9 DEF StreamsInv
<1>5. CASE ~AttachClient
  <2>1. ~sess.there /\ sess' = sess /\ srun' = "finishing" /\ srunArchived
    BY <1>3, <1>5 DEF srunStream, AttachClient
  <2>2. sess \in OneSession
    BY <1>2 DEF StreamsTypeOK
  <2> QED  BY <1>1, <2>1, <2>2, LeavesKeeps
<1> QED  BY <1>4, <1>5

LEMMA DropKeeps ==
  \* The session is taken down when nobody is attached to it any more.
  ASSUME StreamsInv, sess' = NoSession, rec' = rec, run' = run, reaping' = reaping, srun' = srun,
         shown' = shown, window' = window, result' = result, cut' = cut, unsent' = unsent, faults' = faults,
         sess.there, sess.client, srun # "attached"
  PROVE  StreamsInv'
<1>1. StreamsTypeOK /\ SizesSay /\ PipesSay /\ StatusSays /\ WholeSays
  BY DEF StreamsInv
<1>2. StreamsTypeOK'
  BY <1>1, NoSessionIs DEF StreamsTypeOK
<1>3. SizesSay'
  <2>1. window.size \in 0..MaxResizes
    BY <1>1 DEF StreamsTypeOK
  <2> QED  BY <2>1, NoSessionIs DEF SizesSay
<1>4. PipesSay'
  BY <1>1, NoSessionIs DEF PipesSay, Early
<1>5. StatusSays'
  BY <1>1, NoSessionIs DEF StatusSays
<1>6. cut
  BY <1>1 DEF WholeSays
<1>7. WholeSays'
  BY <1>6 DEF WholeSays
<1> QED  BY <1>2, <1>3, <1>4, <1>5, <1>7 DEF StreamsInv

LEMMA PipeEndsKeeps ==
  \* The end of the output, and a connection that is gone when it is written to.
  ASSUME StreamsInv, streamOut \/ \E n \in Runners : WriteFails(n)
  PROVE  StreamsInv'
<1>1. CASE streamOut
  <2>1. /\ rec' = rec /\ run' = run /\ reaping' = reaping /\ window' = window /\ result' = result
        /\ cut' = cut /\ unsent' = unsent /\ faults' = faults
        /\ sess.there /\ sess.client /\ ~sess.open /\ sess' = NoSession
        /\ \/ srun = "attached" /\ srun' = "finishing" /\ srunArchived
           \/ srun # "attached" /\ srun' = srun /\ shown' = shown
    BY <1>1 DEF streamOut, CloseStream
  <2>2. sess' \in OneSession /\ ~sess'.there
    BY <2>1, NoSessionIs
  <2> QED  BY <2>1, <2>2, LeavesKeeps, DropKeeps
<1>2. CASE \E n \in Runners : WriteFails(n)
  <2>1. /\ sess' = NoSession /\ rec' = rec /\ run' = run /\ reaping' = reaping /\ srun' = srun
        /\ shown' = shown /\ window' = window /\ result' = result /\ cut' = cut /\ unsent' = unsent
        /\ faults' = faults /\ sess.there /\ sess.client /\ srun # "attached"
    BY <1>2 DEF WriteFails, CloseStream
  <2> QED  BY <2>1, DropKeeps
<1> QED  BY <1>1, <1>2

LEMMA FinishKeeps ==
  \* srun reports what became of the job, or gives up.
  ASSUME StreamsInv, srunFinish \/ Deadline
  PROVE  StreamsInv'
<1>1. /\ sess' = sess /\ rec' = rec /\ run' = run /\ reaping' = reaping /\ window' = window
      /\ shown' = shown /\ cut' = cut /\ unsent' = unsent /\ faults' = faults
      /\ srun = "finishing" /\ srun' = "done"
      /\ result' \in {"ok", "failed", "unknown"}
      /\ result' = "ok" => \/ sess.there /\ sess.exited /\ sess.code = 0
                           \/ ~(sess.there /\ sess.exited) /\ rec.ok
  BY DEF srunFinish, Deadline, Says, streamStatus
<1>2. StreamsTypeOK /\ SizesSay /\ PipesSay /\ StatusSays /\ WholeSays
  BY DEF StreamsInv
<1>3. StreamsTypeOK'
  BY <1>1, <1>2 DEF StreamsTypeOK
<1>4. SizesSay'
  BY <1>1, <1>2 DEF SizesSay
<1>5. PipesSay'
  BY <1>1, <1>2 DEF PipesSay, Early
<1>6. StatusSays'
  BY <1>1, <1>2 DEF StatusSays
<1>7. WholeSays'
  <2> SUFFICES ASSUME ~cut PROVE WholeSays'
    BY <1>1 DEF WholeSays
  <2>1. ~sess.there
    BY <1>1, <1>2 DEF WholeSays
  <2>2. result' = "ok" => rec.ok
    BY <1>1, <2>1
  <2> QED  BY <1>1, <1>2, <2>1, <2>2, RunsStay DEF WholeSays
<1> QED  BY <1>3, <1>4, <1>5, <1>6, <1>7 DEF StreamsInv

LEMMA StreamsStarts ==
  \* No session, and no job.
  ASSUME StreamsInit
  PROVE  StreamsInv
<1>1. NoRun \in OneRun /\ NoRun.proc = "none" /\ NoRun.relay = "none" /\ NoRun.sent = 0 /\ NoRun.wrote = 0
  <2>1. 0 \in 0..MaxOutput /\ 0 \in 0..MaxResizes
    BY StreamsAssumption
  <2> QED  BY <2>1 DEF NoRun, OneRun
<1>2. /\ sess = NoSession /\ rec = [state |-> "none", node |-> "nowhere", ok |-> FALSE, code |-> 0]
      /\ run = [n \in Runners |-> NoRun] /\ reaping = FALSE
      /\ srun = "start" /\ shown = 0 /\ window = [size |-> 0, moved |-> TRUE]
      /\ result = "none" /\ cut = FALSE /\ unsent = FALSE /\ faults = 0
  BY DEF StreamsInit
<1>3. StreamsTypeOK
  <2>1. 0 \in 0..MaxOutput /\ 0 \in 0..MaxResizes /\ 0 \in 0..MaxFaults /\ 0 \in 0..1
    BY StreamsAssumption
  <2>2. rec \in OneJob
    BY <1>2 DEF OneJob
  <2>3. run \in [Runners -> OneRun]
    BY <1>1, <1>2
  <2>4. window \in [size : 0..MaxResizes, moved : BOOLEAN]
    BY <1>2, <2>1
  <2> QED  BY <1>2, <2>1, <2>2, <2>3, <2>4, NoSessionIs DEF StreamsTypeOK
<1>4. SizesSay
  BY <1>2, NoSessionIs DEF SizesSay
<1>5. ~rec.ok /\ rec.state = "none"
  BY <1>2
<1>6. \A n \in Runners : run[n].proc = "none" /\ run[n].relay = "none" /\ run[n].sent = 0 /\ run[n].wrote = 0
  BY <1>1, <1>2
<1>7. PipesSay
  BY <1>2, <1>5, <1>6, NoSessionIs DEF PipesSay, Early
<1>8. StatusSays
  BY <1>2, <1>5, <1>6, NoSessionIs DEF StatusSays
<1>9. WholeSays
  BY <1>2, <1>5, <1>6, NoSessionIs DEF WholeSays, RunSays, NothingRan, AllSent
<1> QED  BY <1>3, <1>4, <1>7, <1>8, <1>9 DEF StreamsInv

LEMMA StreamsStays ==
  \* Nothing changes in a step of another part.
  ASSUME StreamsInv, UNCHANGED streamVars
  PROVE  StreamsInv'
<1>1. /\ sess' = sess /\ rec' = rec /\ run' = run /\ reaping' = reaping /\ srun' = srun /\ shown' = shown
      /\ window' = window /\ result' = result /\ cut' = cut /\ unsent' = unsent /\ faults' = faults
  BY DEF streamVars
<1>2. StreamsTypeOK /\ SizesSay /\ PipesSay /\ StatusSays /\ WholeSays
  BY DEF StreamsInv
<1>3. StreamsTypeOK'
  BY <1>1, <1>2 DEF StreamsTypeOK
<1>4. SizesSay'
  BY <1>1, <1>2 DEF SizesSay
<1>5. PipesSay'
  BY <1>1, <1>2 DEF PipesSay, Early
<1>6. StatusSays'
  BY <1>1, <1>2 DEF StatusSays
<1>7. WholeSays'
  BY <1>1, <1>2, RunsStay DEF WholeSays
<1> QED  BY <1>3, <1>4, <1>5, <1>6, <1>7 DEF StreamsInv

LEMMA StreamsStep ==
  \* Every step keeps the invariant.
  ASSUME StreamsInv, StreamsNext
  PROVE  StreamsInv'
<1>1. CASE Submitting \/ SessionPasses \/ expireStream \/ ControllerRestarts
  BY <1>1, NewStreamKeeps, SubmitKeeps, BindKeeps, WindowsKeep, ReapKeeps, BreaksKeeps
     DEF Submitting, SessionPasses
<1>2. CASE Finishing \/ ClientBreaks \/ Deadline \/ Resize \/ srunResize \/ ResizeLost
  BY <1>2, AttachKeeps, PipeEndsKeeps, FinishKeeps, BreaksKeeps, WindowsKeep, ResizeKeeps DEF Finishing
<1>3. CASE \E code \in 0..1 : NeverStarts(code)
  BY <1>3, SubmitKeeps
<1>4. ASSUME NEW n \in Runners,
             \/ LaunchRun(n) \/ WriteChunk(n) \/ ReportFinished(n) \/ NodeDies(n) \/ expireNodes(n)
             \/ \E code \in 0..1 : ProcessExits(n, code)
             \/ Relaying(n) \/ WriteFails(n) \/ StreamExitLost(n) \/ followSize(n)
      PROVE  StreamsInv'
  BY <1>4, LaunchRunKeeps, OutputKeeps, ReportKeeps, DiesKeeps, ExitKeeps, StreamOutKeeps, RelayKeeps,
     RelayEndsKeeps, StatusKeeps, PipeEndsKeeps, QuietRunKeeps DEF Relaying
<1> QED  BY <1>1, <1>2, <1>3, <1>4 DEF StreamsNext

LEMMA StreamsSafe ==
  \* The invariant says what srun may report.
  ASSUME StreamsInv
  PROVE  SrunTellsTheTruth
<1>1. StatusSays /\ WholeSays
  BY DEF StreamsInv
<1> SUFFICES ASSUME result = "ok"
             PROVE  /\ \E n \in Runners : run[n].well
                    /\ cut \/ \E n \in Runners : run[n].proc = "exited" /\ shown = run[n].wrote
  BY DEF SrunTellsTheTruth
<1>2. \E n \in Runners : run[n].well
  BY <1>1 DEF StatusSays
<1>3. ASSUME ~cut PROVE \E n \in Runners : run[n].proc = "exited" /\ shown = run[n].wrote
  <2>1. srun = "done" /\ ~NothingRan /\ ~sess.there
    BY <1>1, <1>3 DEF StatusSays, WholeSays
  <2>2. PICK n \in Runners : AllSent(n)
    BY <1>1, <1>3, <2>1 DEF WholeSays
  <2>3. shown = run[n].sent
    BY <1>1, <1>3, <2>2 DEF WholeSays, RunSays, AllSent
  <2> QED  BY <2>2, <2>3 DEF AllSent
<1> QED  BY <1>2, <1>3

\* The session's variables have their types: srun shows no more than one run can write, and
\* the window's versions are bounded by the changes of the window (agentStreamOut,
\* SetStreamSize).
THEOREM StreamsTypeCorrect == StreamsSpec => []StreamsTypeOK
<1>1. StreamsInit => StreamsInv
  BY StreamsStarts
<1>2. StreamsInv /\ [StreamsNext]_streamVars => StreamsInv'
  BY StreamsStep, StreamsStays
<1>3. StreamsInv => StreamsTypeOK
  BY DEF StreamsInv
<1> QED  BY <1>1, <1>2, <1>3, PTL DEF StreamsSpec

\* srun reports success only if a run of the job ended with status 0, and has by then shown
\* all that was written, unless something broke or the status overtook the output
\* (srunFinish, reapOrphanStreams).
THEOREM SrunTellsTheTruthHolds == StreamsSpec => []SrunTellsTheTruth
<1>1. StreamsInit => StreamsInv
  BY StreamsStarts
<1>2. StreamsInv /\ [StreamsNext]_streamVars => StreamsInv'
  BY StreamsStep, StreamsStays
<1>3. StreamsInv => SrunTellsTheTruth
  BY StreamsSafe
<1> QED  BY <1>1, <1>2, <1>3, PTL DEF StreamsSpec

=============================================================================
