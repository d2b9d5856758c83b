----------------------------- MODULE Transfers -----------------------------
(***************************************************************************)
(* Moving a person's files between machines.  The controller relays: the   *)
(* machine that has the file uploads it, the one that should have it       *)
(* downloads it, and a move then has the first one delete it.  Actions go  *)
(* out with the response to a heartbeat and are carried out one after the  *)
(* other before the next heartbeat, which brings their results.  The       *)
(* listing the controller keeps is built from what machines report, and    *)
(* from the transfers it arranged.                                         *)
(*                                                                         *)
(* Every machine holds at most one version of one path; 0 is no file.  A   *)
(* transfer has the number the controller gives it, which begins again     *)
(* with every start of the controller, and a name that is not used twice,  *)
(* which exists for the properties only.  What the account may store is    *)
(* left out.                                                               *)
(***************************************************************************)
EXTENDS Integers, Sequences

CONSTANTS
  Places,       \* machines
  Here,         \* the person's own computer
  Behind,       \* machines whose clock is well behind the controller's
  MaxTransfers, MaxVersions, \* bounds: transfers, and versions written
  MaxLost,      \* bound: heartbeats that fail, and agents that restart
  MaxRestarts   \* bound: restarts of the controller

ASSUME TransfersAssumption ==
  /\ MaxTransfers \in Nat /\ MaxVersions \in Nat /\ MaxLost \in Nat /\ MaxRestarts \in Nat
  /\ Behind \subseteq Places

VARIABLES
  \* machines
  disk,         \* the version each machine holds
  todo,         \* actions of the last response still to be carried out
  results,      \* what has been carried out and not been reported
  dirty,        \* machines that must measure before their next report
  said,         \* the version in the last report handed over, or -1
  \* the controller
  xfer,         \* transfers by number
  next,         \* the last number given
  blob,         \* the relayed copy by number
  queue,        \* actions for each machine
  handling,     \* machines whose heartbeat is being handled
  onList, usage, \* whether the file of a machine is listed, and counted
  noted,        \* machines whose clock has not reached the time of the last note
  \* history and bounds
  names,        \* names given to transfers
  moves,        \* names of moves
  got,          \* by name: the version the destination stored, or 0
  mixed,        \* a number was taken for another transfer
  unsaid,       \* machines whose last report the listing does not show
  versions, lost, restarts

diskVars == <<disk, todo, results, dirty, said>>
relayVars == <<xfer, next, blob, queue, handling>>
indexVars == <<onList, usage, noted>>
xferHistory == <<names, moves, got, mixed, unsaid, versions, lost, restarts>>
xferVars == <<diskVars, relayVars, indexVars, xferHistory>>

Numbers == 1..MaxTransfers
NoTransfer == [state |-> "none", from |-> Here, to |-> Here, move |-> FALSE, name |-> 0]
Kinds == {"send", "recv", "remove"}
Action == [kind: Kinds, id: Numbers, name: Numbers]
Result == [kind: Kinds, id: Numbers, name: Numbers, ok: BOOLEAN]
TransferRec ==
  [state: {"none", "sending", "staged", "done", "failed"}, from: Places \cup {Here},
   to: Places \cup {Here}, move: BOOLEAN, name: 0..MaxTransfers]

TransfersTypeOK ==
  /\ disk \in [Places -> 0..MaxVersions] /\ said \in [Places -> -1..MaxVersions]
  /\ todo \in [Places -> Seq(Action)] /\ queue \in [Places -> Seq(Action)]
  /\ results \in [Places -> Seq(Result)]
  /\ xfer \in [Numbers -> TransferRec]
  /\ next \in 0..MaxTransfers /\ blob \in [Numbers -> 0..MaxVersions]
  /\ handling \subseteq Places /\ dirty \subseteq Places /\ noted \subseteq Behind /\ unsaid \subseteq Places
  /\ onList \in [Places -> BOOLEAN] /\ usage \in [Places -> BOOLEAN]
  /\ names \in 0..MaxTransfers /\ moves \subseteq Numbers
  /\ got \in [Numbers -> 0..MaxVersions] /\ mixed \in BOOLEAN
  /\ versions \in 0..MaxVersions /\ lost \in 0..MaxLost /\ restarts \in 0..MaxRestarts

Empty == [n \in Places |-> <<>>]

TransfersInit ==
  /\ disk = [n \in Places |-> 0] /\ said = [n \in Places |-> -1]
  /\ todo = Empty /\ results = Empty /\ dirty = {} /\ queue = Empty /\ handling = {}
  /\ xfer = [i \in Numbers |-> NoTransfer] /\ next = 0 /\ blob = [i \in Numbers |-> 0]
  /\ onList = [n \in Places |-> FALSE] /\ usage = [n \in Places |-> FALSE] /\ noted = {}
  /\ names = 0 /\ moves = {} /\ got = [i \in Numbers |-> 0] /\ mixed = FALSE /\ unsaid = {}
  /\ versions = 0 /\ lost = 0 /\ restarts = 0

Enqueued(q, n, kind, i, name) == [q EXCEPT ![n] = Append(@, [kind |-> kind, id |-> i, name |-> name])]

-----------------------------------------------------------------------------
(* Programs and requests *)

\* A program of the account writes the file, or deletes it.
Write(n) ==
  /\ versions < MaxVersions /\ versions' = versions + 1
  /\ disk' = [disk EXCEPT ![n] = versions + 1]
  /\ UNCHANGED <<todo, results, dirty, said, relayVars, indexVars, names, moves, got, mixed, unsaid, lost, restarts>>

Delete(n) ==
  /\ disk[n] # 0 /\ disk' = [disk EXCEPT ![n] = 0]
  /\ UNCHANGED <<todo, results, dirty, said, relayVars, indexVars, xferHistory>>

\* Mutant: the transfer is filed under the number given last.
BeginTransferMutant(from, to, move, state, n, kind) ==
  /\ names < MaxTransfers /\ names' = names + 1
  /\ moves' = IF move THEN moves \cup {names + 1} ELSE moves
  /\ next' = next + 1
  /\ xfer' = [xfer EXCEPT ![next] =
                [state |-> state, from |-> from, to |-> to, move |-> move, name |-> names + 1]]
  /\ queue' = Enqueued(queue, n, kind, next, names + 1)

\* A transfer gets the next number, and the first machine its action.
BeginTransfer(from, to, move, state, n, kind) ==
  /\ names < MaxTransfers /\ names' = names + 1
  /\ moves' = IF move THEN moves \cup {names + 1} ELSE moves
  /\ next' = next + 1
  /\ xfer' = [xfer EXCEPT ![next + 1] =
                [state |-> state, from |-> from, to |-> to, move |-> move, name |-> names + 1]]
  /\ queue' = Enqueued(queue, n, kind, next + 1, names + 1)

\* What may be moved is what is listed.
FindUserFile(n) == onList[n]

StartTransfer(from, to, move) ==
  /\ from # to /\ FindUserFile(from)
  /\ BeginTransfer(from, to, move, "sending", from, "send")
  /\ UNCHANGED <<diskVars, blob, handling, indexVars, got, mixed, unsaid, versions, lost, restarts>>

StartFetch(from) ==
  /\ FindUserFile(from)
  /\ BeginTransfer(from, Here, FALSE, "sending", from, "send")
  /\ UNCHANGED <<diskVars, blob, handling, indexVars, got, mixed, unsaid, versions, lost, restarts>>

QueueFileRemove(n) ==
  /\ BeginTransfer(n, Here, FALSE, "sending", n, "remove")
  /\ UNCHANGED <<diskVars, blob, handling, indexVars, got, mixed, unsaid, versions, lost, restarts>>

StageUpload(to) ==
  /\ versions < MaxVersions /\ versions' = versions + 1
  /\ BeginTransfer(Here, to, FALSE, "staged", to, "recv")
  /\ blob' = [blob EXCEPT ![next'] = versions']
  /\ UNCHANGED <<diskVars, handling, indexVars, got, mixed, unsaid, lost, restarts>>

\* The person's computer collects what was staged for it.
FinishFetch(i) ==
  /\ xfer[i].state = "staged" /\ xfer[i].to = Here
  /\ xfer' = [xfer EXCEPT ![i].state = "done"] /\ blob' = [blob EXCEPT ![i] = 0]
  /\ UNCHANGED <<diskVars, next, queue, handling, indexVars, xferHistory>>

\* After half an hour a transfer is failed, if it has not ended, and forgotten.
expireTransfer(i) ==
  /\ xfer[i].state # "none"
  /\ xfer' = [xfer EXCEPT ![i] = NoTransfer]
  /\ blob' = IF xfer[i].state = "done" THEN blob ELSE [blob EXCEPT ![i] = 0]
  /\ UNCHANGED <<diskVars, next, queue, handling, indexVars, xferHistory>>

-----------------------------------------------------------------------------
(* What a machine carries out *)

First(n, kind) == n \notin handling /\ todo[n] # <<>> /\ Head(todo[n]).kind = kind

Carried(n, ok) ==
  LET a == Head(todo[n])
  IN  /\ todo' = [todo EXCEPT ![n] = Tail(@)]
      /\ results' = [results EXCEPT ![n] =
           Append(@, [kind |-> a.kind, id |-> a.id, name |-> a.name, ok |-> ok])]

\* transferFor: the machine must be a party to the transfer, in the right state.
transferFor(i, n, want) ==
  xfer[i].state = want /\ n = (IF want = "staged" THEN xfer[i].to ELSE xfer[i].from)

\* What was uploaded waits here, and the machine it is for is told.
StageTransfer(i, version) ==
  /\ xfer' = [xfer EXCEPT ![i].state = "staged"]
  /\ blob' = [blob EXCEPT ![i] = version]
  /\ queue' = IF xfer[i].to = Here THEN queue
              ELSE Enqueued(queue, xfer[i].to, "recv", i, xfer[i].name)

SendFile(n) ==
  /\ First(n, "send")
  /\ LET a == Head(todo[n])
         ok == disk[n] # 0 /\ transferFor(a.id, n, "sending")
     IN  /\ Carried(n, ok)
         /\ IF ok
            THEN StageTransfer(a.id, disk[n]) /\ mixed' = (mixed \/ a.name # xfer[a.id].name)
            ELSE UNCHANGED <<xfer, blob, queue, mixed>>
  /\ UNCHANGED <<disk, dirty, said, next, handling, indexVars, names, moves, got, unsaid, versions, lost, restarts>>

\* The relay breaks: the controller fails the transfer, and so does the machine.
RelayFails(n) ==
  /\ First(n, "send") /\ lost < MaxLost /\ lost' = lost + 1
  /\ LET i == Head(todo[n]).id
     IN  /\ transferFor(i, n, "sending")
         /\ Carried(n, FALSE)
         /\ xfer' = [xfer EXCEPT ![i].state = "failed"]
  /\ UNCHANGED <<disk, dirty, said, next, blob, queue, handling, indexVars,
                 names, moves, got, mixed, unsaid, versions, restarts>>

OpenTransfer(i, n) == transferFor(i, n, "staged") /\ blob[i] # 0

\* A new version takes the place of the old one at once, or not at all.
Put(n, version) == disk' = [disk EXCEPT ![n] = version] /\ dirty' = dirty \cup {n}
RemoveHere(n) ==
  /\ disk' = [disk EXCEPT ![n] = 0]
  /\ dirty' = IF disk[n] = 0 THEN dirty ELSE dirty \cup {n}

RecvFile(n) ==
  /\ First(n, "recv")
  /\ LET a == Head(todo[n])
         ok == OpenTransfer(a.id, n)
     IN  /\ Carried(n, ok)
         /\ IF ok
            THEN /\ Put(n, blob[a.id])
                 /\ got' = [got EXCEPT ![xfer[a.id].name] = blob[a.id]]
                 /\ mixed' = (mixed \/ a.name # xfer[a.id].name)
            ELSE UNCHANGED <<disk, dirty, got, mixed>>
  /\ UNCHANGED <<said, relayVars, indexVars, names, moves, unsaid, versions, lost, restarts>>

RemoveFile(n) ==
  /\ First(n, "remove")
  /\ Carried(n, disk[n] # 0)
  /\ RemoveHere(n)
  /\ UNCHANGED <<said, relayVars, indexVars, xferHistory>>

-----------------------------------------------------------------------------
(* Heartbeats *)

\* Mutant: a machine that holds nothing any more does not say so.
NewsMutant(n, measured) == measured /\ disk[n] \notin {0, said[n]}

\* StorageReport: a listing that is not the one handed over last.  It counts as
\* handed over from then on, whatever becomes of the heartbeat.
News(n, measured) == measured /\ disk[n] # said[n]
Idle(n, measured) == n \notin handling /\ todo[n] = <<>> /\ (n \in dirty => measured)
Measured(n, measured) == dirty' = IF measured THEN dirty \ {n} ELSE dirty

RecordNodeUsage(n) == usage' = [usage EXCEPT ![n] = disk[n] # 0]
ReplaceNodeFiles(n) == onList' = [onList EXCEPT ![n] = disk[n] # 0]

\* The heartbeat arrives: applyStorageReport holds the listing back, but not the
\* usage, if the machine's clock says it was measured before the last note.
Heartbeat(n, measured) ==
  /\ Idle(n, measured) /\ (News(n, measured) \/ n \in dirty \/ results[n] # <<>> \/ queue[n] # <<>>)
  /\ handling' = handling \cup {n} /\ Measured(n, measured)
  /\ IF News(n, measured)
     THEN /\ said' = [said EXCEPT ![n] = disk[n]]
          /\ RecordNodeUsage(n)
          /\ IF n \in noted
             THEN unsaid' = unsaid \cup {n} /\ UNCHANGED onList
             ELSE unsaid' = unsaid \ {n} /\ ReplaceNodeFiles(n)
     ELSE UNCHANGED <<said, usage, onList, unsaid>>
  /\ UNCHANGED <<disk, todo, results, xfer, next, blob, queue, noted,
                 names, moves, got, mixed, versions, lost, restarts>>

\* The results it took along are gone with it.
HeartbeatLost(n, measured) ==
  /\ Idle(n, measured) /\ lost < MaxLost /\ lost' = lost + 1
  /\ News(n, measured) \/ results[n] # <<>>
  /\ results' = [results EXCEPT ![n] = <<>>] /\ Measured(n, measured)
  /\ said' = IF News(n, measured) THEN [said EXCEPT ![n] = disk[n]] ELSE said
  /\ unsaid' = IF News(n, measured) THEN unsaid \cup {n} ELSE unsaid
  /\ UNCHANGED <<disk, todo, relayVars, indexVars, names, moves, got, mixed, versions, restarts>>

\* NoteUserFile and ForgetUserFile: the listing is told of a file directly.
Note(n, there) ==
  /\ onList' = [onList EXCEPT ![n] = there]
  /\ noted' = IF n \in Behind THEN noted \cup {n} ELSE noted
  /\ unsaid' = IF said[n] # -1 /\ there # (said[n] # 0) THEN unsaid \cup {n} ELSE unsaid

failTransfer(i) == xfer' = [xfer EXCEPT ![i].state = IF @ = "done" THEN @ ELSE "failed"]
finishTransfer(i) == xfer' = [xfer EXCEPT ![i].state = "done"]

\* Mutant: the original goes as soon as it has been sent.
RemovesSourceMutant(r, t) == t.move /\ r.kind \in {"send", "recv"}

\* The source is deleted once the destination has the file.
RemovesSource(r, t) == t.move /\ r.kind = "recv"

\* Nothing is asked about who reports.
ApplyTransferResult(n) ==
  /\ n \in handling /\ results[n] # <<>>
  /\ results' = [results EXCEPT ![n] = Tail(@)]
  /\ LET r == Head(results[n])
         t == xfer[r.id]
     IN  /\ mixed' = (mixed \/ (t # NoTransfer /\ t.name # r.name))
         /\ \/ t = NoTransfer /\ UNCHANGED <<xfer, blob, queue, onList, noted, unsaid>>
            \/ /\ t # NoTransfer /\ ~r.ok
               /\ failTransfer(r.id) /\ blob' = [blob EXCEPT ![r.id] = 0]
               /\ UNCHANGED <<queue, onList, noted, unsaid>>
            \/ /\ t # NoTransfer /\ r.ok /\ r.kind # "remove" /\ RemovesSource(r, t)
               /\ queue' = Enqueued(queue, t.from, "remove", r.id, t.name)
               /\ IF r.kind = "recv" THEN Note(t.to, TRUE) ELSE UNCHANGED <<onList, noted, unsaid>>
               /\ UNCHANGED <<xfer, blob>>
            \/ /\ t # NoTransfer /\ r.ok /\ r.kind = "recv" /\ ~t.move
               /\ IF t.to = Here THEN UNCHANGED <<onList, noted, unsaid>> ELSE Note(t.to, TRUE)
               /\ finishTransfer(r.id) /\ blob' = [blob EXCEPT ![r.id] = 0]
               /\ UNCHANGED queue
            \/ /\ t # NoTransfer /\ r.ok /\ r.kind = "remove"
               /\ IF t.from = Here THEN UNCHANGED <<onList, noted, unsaid>> ELSE Note(t.from, FALSE)
               /\ finishTransfer(r.id) /\ blob' = [blob EXCEPT ![r.id] = 0]
               /\ UNCHANGED queue
            \/ /\ t # NoTransfer /\ r.ok /\ r.kind = "send" /\ ~RemovesSource(r, t)
               /\ UNCHANGED <<xfer, blob, queue, onList, noted, unsaid>>
  /\ UNCHANGED <<disk, todo, dirty, said, next, handling, usage, names, moves, got, versions, lost, restarts>>

\* The actions leave the queue with the response, whether or not it arrives.
Respond(n, arrives) ==
  /\ n \in handling /\ results[n] = <<>>
  /\ handling' = handling \ {n}
  /\ queue' = [queue EXCEPT ![n] = <<>>]
  /\ IF arrives THEN todo' = [todo EXCEPT ![n] = queue[n]] /\ UNCHANGED lost
     ELSE lost < MaxLost /\ lost' = lost + 1 /\ UNCHANGED todo
  /\ UNCHANGED <<disk, results, dirty, said, xfer, next, blob, indexVars,
                 names, moves, got, mixed, unsaid, versions, restarts>>

\* The machine's clock passes the time of the last note.
CatchUp(n) ==
  /\ n \in noted /\ noted' = noted \ {n}
  /\ UNCHANGED <<diskVars, relayVars, onList, usage, xferHistory>>

\* An agent forgets what it was to do, what it did and what it said.
AgentRestarts(n) ==
  /\ n \notin handling /\ lost < MaxLost /\ lost' = lost + 1
  /\ todo' = [todo EXCEPT ![n] = <<>>] /\ results' = [results EXCEPT ![n] = <<>>]
  /\ dirty' = dirty \cup {n} /\ said' = [said EXCEPT ![n] = -1]
  /\ UNCHANGED <<disk, relayVars, indexVars, names, moves, got, mixed, unsaid, versions, restarts>>

\* The controller forgets every transfer, and counts from the beginning; what
\* machines have been told stays with them.
Restart ==
  /\ restarts < MaxRestarts /\ restarts' = restarts + 1
  /\ xfer' = [i \in Numbers |-> NoTransfer] /\ next' = 0
  /\ queue' = Empty /\ handling' = {} /\ noted' = {}
  /\ results' = [n \in Places |-> IF n \in handling THEN <<>> ELSE results[n]]
  /\ UNCHANGED <<disk, todo, dirty, said, blob, onList, usage, names, moves, got, mixed, unsaid, versions, lost>>

-----------------------------------------------------------------------------

perform(n) == SendFile(n) \/ RecvFile(n) \/ RemoveFile(n)
HandleHeartbeat(n) == ApplyTransferResult(n) \/ Respond(n, TRUE)

TransfersNext ==
  \/ \E n \in Places :
       \/ Write(n) \/ Delete(n) \/ StartFetch(n) \/ QueueFileRemove(n) \/ StageUpload(n)
       \/ \E to \in Places, move \in BOOLEAN : StartTransfer(n, to, move)
       \/ perform(n) \/ RelayFails(n) \/ HandleHeartbeat(n) \/ Respond(n, FALSE)
       \/ \E measured \in BOOLEAN : Heartbeat(n, measured) \/ HeartbeatLost(n, measured)
       \/ CatchUp(n) \/ AgentRestarts(n)
  \/ \E i \in Numbers : FinishFetch(i) \/ expireTransfer(i)
  \/ Restart

TransfersSpec == TransfersInit /\ [][TransfersNext]_xferVars

\* Machines carry out what they are told, go on reporting, and measure every
\* twenty seconds; the controller finishes a heartbeat it has begun; clocks go on.
TransfersFairSpec ==
  /\ TransfersSpec
  /\ \A n \in Places :
       /\ WF_xferVars(perform(n)) /\ WF_xferVars(HandleHeartbeat(n))
       /\ WF_xferVars(Heartbeat(n, TRUE)) /\ WF_xferVars(CatchUp(n))

-----------------------------------------------------------------------------
(* Properties *)

Moving(n) == RemoveFile(n) /\ disk[n] # 0 /\ Head(todo[n]).name \in moves
Arrived(n) == got[Head(todo[n]).name] # 0

\* When a machine deletes a file because a move told it to, the destination of that
\* move has stored the file (ApplyTransferResults: "Delete the source only once the
\* destination has it.  The other order would lose the file whenever the second
\* hop failed").  Here: as long as no number was taken for another transfer.
MoveArrivesFirst == [][\A n \in Places : Moving(n) => Arrived(n) \/ mixed]_xferVars

\* The same without that condition, which "the agents involved have forgotten the
\* action" (struct transfers) would make unnecessary.
MoveNeverLosesTheFile == [][\A n \in Places : Moving(n) => Arrived(n)]_xferVars

\* Again and again what is listed and counted for a machine is what it holds, but
\* for a machine whose last report was lost or held back, or came before a note it
\* contradicts: it does not repeat itself until something changes (StorageReport,
\* applyStorageReport).
ListingSettles ==
  \A n \in Places : []<>(\/ onList[n] = (disk[n] # 0) /\ usage[n] = (disk[n] # 0)
                         \/ n \in unsaid)

=============================================================================
