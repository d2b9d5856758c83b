------------------------------ MODULE Streams ------------------------------
(***************************************************************************)
(* An interactive job: srun waits at a terminal, the controller holds a    *)
(* session with a pipe in each direction, and the machine that runs the    *)
(* job relays what it writes.  Output, input, window sizes and the exit    *)
(* status are requests of their own and arrive in any order.               *)
(*                                                                         *)
(* One session and its job are followed, which may be run again on another *)
(* machine.  A pipe holds nothing: a chunk is written when it is read.     *)
(***************************************************************************)
EXTENDS Naturals, FiniteSets

CONSTANTS
  Runners,     \* machines
  MaxOutput,   \* bound: chunks a run writes
  MaxResizes,  \* bound: changes of the window
  MaxFaults    \* bound: broken connections, dead machines, restarts

VARIABLES
  sess,        \* the session: who is attached, the pipe, the exit, the window
  rec,         \* the job's record: state, machine, and the outcome
  run,         \* per machine: the process and its relay; history: a run ended with status 0
  reaping,     \* a pass has listed the session and not yet looked at the job
  srun,        \* what the person's srun is doing
  shown,       \* chunks it has shown
  window,      \* the person's window, and whether it has changed since srun looked
  result,      \* what srun reports
  cut,         \* history: why part of the output may be missing
  unsent,      \* history: a window size was not delivered
  faults

ASSUME StreamsAssumption ==
  /\ "nowhere" \notin Runners
  /\ MaxOutput \in Nat /\ MaxResizes \in Nat /\ MaxFaults \in Nat

streamVars == <<sess, rec, run, reaping, srun, shown, window, result, cut, unsent, faults>>

NoSession == [there |-> FALSE, bound |-> FALSE, client |-> FALSE, node |-> FALSE, open |-> FALSE,
              exited |-> FALSE, code |-> 0, size |-> 0, ver |-> 0]
NoRun == [proc |-> "none", wrote |-> 0, sent |-> 0, relay |-> "none", due |-> FALSE, code |-> 0,
          size |-> 0, ver |-> 0, well |-> FALSE]

OneSession ==
  [there : BOOLEAN, bound : BOOLEAN, client : BOOLEAN, node : BOOLEAN, open : BOOLEAN,
   exited : BOOLEAN, code : 0..1, size : 0..MaxResizes, ver : 0..MaxResizes]
OneRun ==
  [proc : {"none", "running", "exited", "dead"}, wrote : 0..MaxOutput, sent : 0..MaxOutput,
   relay : {"none", "connecting", "open", "broken", "closed"}, due : BOOLEAN,
   code : 0..1, size : 0..MaxResizes, ver : 0..MaxResizes, well : BOOLEAN]
OneJob == [state : {"none", "pending", "running", "over"}, node : Runners \cup {"nowhere"},
           ok : BOOLEAN, code : 0..1]

StreamsTypeOK ==
  /\ sess \in OneSession /\ rec \in OneJob /\ run \in [Runners -> OneRun]
  /\ reaping \in BOOLEAN /\ cut \in BOOLEAN /\ unsent \in BOOLEAN
  /\ srun \in {"start", "submitting", "submitted", "attached", "finishing", "done"}
  /\ shown \in 0..MaxOutput        \* one run's output at most
  /\ window \in [size: 0..MaxResizes, moved: BOOLEAN]
  /\ result \in {"none", "ok", "failed", "unknown"} /\ faults \in 0..MaxFaults

StreamsInit ==
  /\ sess = NoSession /\ rec = [state |-> "none", node |-> "nowhere", ok |-> FALSE, code |-> 0]
  /\ run = [n \in Runners |-> NoRun] /\ reaping = FALSE
  /\ srun = "start" /\ shown = 0 /\ window = [size |-> 0, moved |-> TRUE]
  /\ result = "none" /\ cut = FALSE /\ unsent = FALSE /\ faults = 0

Fault == faults < MaxFaults /\ faults' = faults + 1

-----------------------------------------------------------------------------
(* Submission: the session first, since the job's specification names it *)

NewStream ==
  /\ srun = "start"
  /\ sess' = [NoSession EXCEPT !.there = TRUE, !.open = TRUE]
  /\ srun' = "submitting"
  /\ UNCHANGED <<rec, run, reaping, shown, window, result, cut, unsent, faults>>

SubmitJob ==
  /\ srun = "submitting" /\ rec.state = "none"
  /\ rec' = [rec EXCEPT !.state = "pending"]
  /\ UNCHANGED <<sess, run, reaping, srun, shown, window, result, cut, unsent, faults>>

\* The job may be running by now.
bindStream ==
  /\ srun = "submitting" /\ rec.state # "none"
  /\ sess' = [sess EXCEPT !.bound = sess.there]
  /\ srun' = "submitted"
  /\ UNCHANGED <<rec, run, reaping, shown, window, result, cut, unsent, faults>>

-----------------------------------------------------------------------------
(* The job, as far as the session sees it *)

\* The machine may have had the job before, and come back.
LaunchRun(n) ==
  /\ rec.state = "pending"
  /\ run[n].proc = "none" \/ (run[n].proc = "dead" /\ run[n].relay = "closed")
  /\ rec' = [rec EXCEPT !.state = "running", !.node = n]
  /\ run' = [run EXCEPT ![n] = [NoRun EXCEPT !.proc = "running", !.relay = "connecting",
                                          !.well = run[n].well]]
  /\ UNCHANGED <<sess, reaping, srun, shown, window, result, cut, unsent, faults>>

\* A launch that fails, or a job cancelled before it starts: the recorded code may be 0.
NeverStarts(code) ==
  /\ rec.state = "pending"
  /\ rec' = [rec EXCEPT !.state = "over", !.ok = FALSE, !.code = code]
  /\ UNCHANGED <<sess, run, reaping, srun, shown, window, result, cut, unsent, faults>>

WriteChunk(n) ==
  /\ run[n].proc = "running" /\ run[n].wrote < MaxOutput
  /\ run' = [run EXCEPT ![n].wrote = @ + 1]
  /\ UNCHANGED <<sess, rec, reaping, srun, shown, window, result, cut, unsent, faults>>

ProcessExits(n, code) ==
  /\ run[n].proc = "running"
  /\ run' = [run EXCEPT ![n].proc = "exited", ![n].code = code, ![n].due = TRUE,
                        ![n].well = @ \/ code = 0]
  /\ UNCHANGED <<sess, rec, reaping, srun, shown, window, result, cut, unsent, faults>>

\* The end of the job arrives with a heartbeat.
ReportFinished(n) ==
  /\ run[n].proc = "exited" /\ rec.state = "running" /\ rec.node = n
  /\ rec' = [rec EXCEPT !.state = "over", !.ok = (run[n].code = 0), !.code = run[n].code]
  /\ UNCHANGED <<sess, run, reaping, srun, shown, window, result, cut, unsent, faults>>

\* The machine is lost, and its job goes back to the queue, or is over with it.
NodeDies(n) ==
  /\ run[n].proc \in {"running", "exited"} /\ Fault
  /\ run' = [run EXCEPT ![n].proc = "dead", ![n].due = FALSE,
                        ![n].relay = IF @ = "open" THEN "broken" ELSE "closed"]
  /\ cut' = TRUE
  /\ UNCHANGED <<sess, rec, reaping, srun, shown, window, result, unsent>>

expireNodes(n) ==
  /\ run[n].proc = "dead" /\ rec.state = "running" /\ rec.node = n
  /\ \E requeue \in BOOLEAN :
       rec' = IF requeue THEN [rec EXCEPT !.state = "pending", !.node = "nowhere"]
              ELSE [rec EXCEPT !.state = "over", !.ok = FALSE, !.code = 1]
  /\ UNCHANGED <<sess, run, reaping, srun, shown, window, result, cut, unsent, faults>>

-----------------------------------------------------------------------------
(* The machine's side *)

\* The session must be there and bound, and the job recorded on this machine alone.
streamBelongsTo(n) == sess.there /\ sess.bound /\ rec.node = n

\* One machine, once.
AttachNode == sess.there /\ ~sess.node

\* The machine's request for the output: refused if another run had the session.
agentStreamOut(n) ==
  /\ run[n].relay = "connecting"
  /\ LET may == streamBelongsTo(n) /\ AttachNode
     IN  /\ sess' = IF may THEN [sess EXCEPT !.node = TRUE] ELSE sess
         /\ run' = [run EXCEPT ![n].relay = IF may THEN "open" ELSE "closed"]
         /\ cut' = (cut \/ ~may)
  /\ UNCHANGED <<rec, reaping, srun, shown, window, result, unsent, faults>>

\* A chunk goes through when srun reads it.
relayOutput(n) ==
  /\ run[n].relay = "open" /\ run[n].sent < run[n].wrote
  /\ sess.there /\ sess.open /\ srun = "attached"
  /\ run' = [run EXCEPT ![n].sent = @ + 1] /\ shown' = shown + 1
  /\ UNCHANGED <<sess, rec, reaping, srun, window, result, cut, unsent, faults>>

\* After the process has ended the file is read once more, to its end.
Drained(n) == run[n].proc = "exited" /\ run[n].sent = run[n].wrote

\* The relay ends: all has been sent, the connection is gone, or so is the pipe.
RelayEnds(n) ==
  /\ \/ run[n].relay = "open" /\ Drained(n)
     \/ run[n].relay = "open" /\ run[n].sent < run[n].wrote /\ ~(sess.there /\ sess.open)
     \/ run[n].relay = "broken"
  /\ run' = [run EXCEPT ![n].relay = "closed"]
  /\ sess' = [sess EXCEPT !.open = FALSE]
  /\ UNCHANGED <<rec, reaping, srun, shown, window, result, cut, unsent, faults>>

\* The first status stays; closing the pipe is what ends srun's reading.
FinishStream(code) ==
  sess' = IF ~sess.there THEN sess
          ELSE [sess EXCEPT !.exited = TRUE, !.code = IF sess.exited THEN @ ELSE code, !.open = FALSE]

OutputMissing(n) == run[n].relay \in {"connecting", "open"} /\ run[n].sent < run[n].wrote

\* The status is a request of its own, and may overtake the output.
agentStreamExit(n) ==
  /\ run[n].proc = "exited" /\ run[n].due
  /\ run' = [run EXCEPT ![n].due = FALSE]
  /\ IF streamBelongsTo(n)
     THEN FinishStream(run[n].code) /\ cut' = (cut \/ OutputMissing(n))
     ELSE UNCHANGED <<sess, cut>>
  /\ UNCHANGED <<rec, reaping, srun, shown, window, result, unsent, faults>>

\* It does not arrive within ten seconds, and is not sent again.
StreamExitLost(n) ==
  /\ run[n].due /\ Fault /\ run' = [run EXCEPT ![n].due = FALSE]
  /\ UNCHANGED <<sess, rec, reaping, srun, shown, window, result, cut, unsent>>

-----------------------------------------------------------------------------
(* The controller's own endings *)

Orphan == sess.there /\ sess.bound /\ ~sess.node /\ ~sess.exited

ListOrphans ==
  /\ ~reaping /\ Orphan /\ reaping' = TRUE
  /\ UNCHANGED <<sess, rec, run, srun, shown, window, result, cut, unsent, faults>>

\* A job no machine reported on did not succeed.
OrphanCode == IF rec.code = 0 THEN 1 ELSE rec.code

\* The machine may have attached since the session was listed.
reapOrphanStreams ==
  /\ reaping /\ reaping' = FALSE
  /\ IF rec.state = "over"
     THEN /\ FinishStream(OrphanCode)
          /\ cut' = (cut \/ \E n \in Runners : run[n].relay \in {"connecting", "open"})
     ELSE UNCHANGED <<sess, cut>>
  /\ UNCHANGED <<rec, run, srun, shown, window, result, unsent, faults>>

CloseStream == sess' = NoSession

\* Five minutes after it was made, if nobody has attached.
expireStream ==
  /\ srun = "submitted" /\ Fault
  /\ sess.there /\ ~sess.client /\ ~sess.node
  /\ CloseStream /\ cut' = TRUE
  /\ UNCHANGED <<rec, run, reaping, srun, shown, window, result, unsent>>

\* Every session is lost with the controller, and every connection.
ControllerRestarts ==
  /\ Fault
  /\ sess' = NoSession /\ reaping' = FALSE /\ cut' = TRUE
  /\ run' = [n \in Runners |-> IF run[n].relay = "open" THEN [run[n] EXCEPT !.relay = "broken"] ELSE run[n]]
  /\ srun' = CASE srun = "submitting" -> "done" [] srun = "attached" -> "finishing" [] OTHER -> srun
  /\ result' = IF srun = "submitting" THEN "unknown" ELSE result
  /\ UNCHANGED <<rec, shown, window, unsent>>

-----------------------------------------------------------------------------
(* srun *)

\* What was stored of the output, looked at when nothing came through the session.
srunArchived ==
  \/ shown' = shown
  \/ shown = 0 /\ rec.state = "over" /\ \E n \in Runners : run[n].proc = "exited" /\ shown' = run[n].wrote

\* One terminal, once.
AttachClient == sess.there /\ ~sess.client

srunStream ==
  /\ srun = "submitted"
  /\ IF AttachClient
     THEN sess' = [sess EXCEPT !.client = TRUE] /\ srun' = "attached" /\ UNCHANGED shown
     ELSE srun' = "finishing" /\ srunArchived /\ UNCHANGED sess
  /\ UNCHANGED <<rec, run, reaping, window, result, cut, unsent, faults>>

\* The end of the output: the session is taken down before srun's request ends.
streamOut ==
  /\ sess.there /\ sess.client /\ ~sess.open
  /\ CloseStream
  /\ IF srun = "attached" THEN srun' = "finishing" /\ srunArchived ELSE UNCHANGED <<srun, shown>>
  /\ UNCHANGED <<rec, run, reaping, window, result, cut, unsent, faults>>

\* srun's connection breaks; the controller notices when it writes to it.
ClientBreaks ==
  /\ srun = "attached" /\ Fault
  /\ srun' = "finishing" /\ cut' = TRUE
  /\ UNCHANGED <<sess, rec, run, reaping, shown, window, result, unsent>>

WriteFails(n) ==
  /\ run[n].relay = "open" /\ run[n].sent < run[n].wrote
  /\ sess.there /\ sess.client /\ sess.open /\ srun # "attached"
  /\ CloseStream
  /\ UNCHANGED <<rec, run, reaping, srun, shown, window, result, cut, unsent, faults>>

Says(code) == srun' = "done" /\ result' = IF code = 0 THEN "ok" ELSE "failed"

streamStatus == sess.there /\ sess.exited

\* The session's status if there is one, and the job's record otherwise.
srunFinish ==
  /\ srun = "finishing"
  /\ \/ streamStatus /\ Says(sess.code)
     \/ ~streamStatus /\ rec.state = "over" /\ Says(IF rec.ok THEN 0 ELSE 1)
  /\ UNCHANGED <<sess, rec, run, reaping, shown, window, cut, unsent, faults>>

\* Thirty seconds without either: srun ends as if all had gone well.
Deadline ==
  /\ srun = "finishing" /\ rec.state # "over"
  /\ srun' = "done" /\ result' = "unknown"
  /\ UNCHANGED <<sess, rec, run, reaping, shown, window, cut, unsent, faults>>

-----------------------------------------------------------------------------
(* The window *)

Resize ==
  /\ srun = "attached" /\ window.size < MaxResizes
  /\ window' = [size |-> window.size + 1, moved |-> TRUE]
  /\ UNCHANGED <<sess, rec, run, reaping, srun, shown, result, cut, unsent, faults>>

\* Mutant: the size is stored and nobody is woken.
SetStreamSizeMutant == sess' = [sess EXCEPT !.size = window.size]

\* A size that is the same as before wakes nobody.
SetStreamSize ==
  sess' = IF sess.size = window.size THEN sess
          ELSE [sess EXCEPT !.size = window.size, !.ver = @ + 1]

streamResize == sess.there /\ SetStreamSize

srunResize ==
  /\ srun = "attached" /\ window.moved
  /\ window' = [window EXCEPT !.moved = FALSE]
  /\ streamResize
  /\ UNCHANGED <<rec, run, reaping, srun, shown, result, cut, unsent, faults>>

\* Best effort: the next change tries again.
ResizeLost ==
  /\ srun = "attached" /\ window.moved /\ Fault
  /\ window' = [window EXCEPT !.moved = FALSE] /\ unsent' = TRUE
  /\ UNCHANGED <<sess, rec, run, reaping, srun, shown, result, cut>>

\* A machine is answered when there is a size newer than the one it has.
WatchStreamSize(since) == sess.ver > since

agentStreamSize(n) == streamBelongsTo(n) /\ WatchStreamSize(run[n].ver)

followSize(n) ==
  /\ run[n].proc = "running" /\ agentStreamSize(n)
  /\ run' = [run EXCEPT ![n].size = sess.size, ![n].ver = sess.ver]
  /\ UNCHANGED <<sess, rec, reaping, srun, shown, window, result, cut, unsent, faults>>

-----------------------------------------------------------------------------

Submitting == NewStream \/ SubmitJob \/ bindStream
Relaying(n) == agentStreamOut(n) \/ relayOutput(n) \/ RelayEnds(n) \/ agentStreamExit(n)
SessionPasses == ListOrphans \/ reapOrphanStreams
Finishing == srunStream \/ streamOut \/ srunFinish

StreamsNext ==
  \/ Submitting \/ SessionPasses \/ expireStream \/ ControllerRestarts
  \/ Finishing \/ ClientBreaks \/ Deadline \/ Resize \/ srunResize \/ ResizeLost
  \/ \E code \in 0..1 : NeverStarts(code)
  \/ \E n \in Runners :
       \/ LaunchRun(n) \/ WriteChunk(n) \/ ReportFinished(n) \/ NodeDies(n) \/ expireNodes(n)
       \/ \E code \in 0..1 : ProcessExits(n, code)
       \/ Relaying(n) \/ WriteFails(n) \/ StreamExitLost(n) \/ followSize(n)

StreamsSpec == StreamsInit /\ [][StreamsNext]_streamVars

\* srun and the relays carry on, the controller's pass comes round every tick, and
\* a machine asks for the window again.
StreamsFairSpec ==
  /\ StreamsSpec
  /\ WF_streamVars(Submitting) /\ WF_streamVars(SessionPasses) /\ WF_streamVars(Finishing)
  /\ WF_streamVars(srunResize)
  /\ \A n \in Runners : WF_streamVars(Relaying(n)) /\ WF_streamVars(followSize(n))

-----------------------------------------------------------------------------
(* Properties *)

\* srun reports success only if a run of the job ended with status 0 (srunFinish,
\* reapOrphanStreams: "a job that ended without running did not succeed, whatever
\* its recorded code says"), and has by then shown all that was written, unless
\* something broke or the status overtook the output; but for the thirty seconds
\* after which it gives up.
SrunTellsTheTruth ==
  result = "ok" => /\ \E n \in Runners : run[n].well
                   /\ cut \/ \E n \in Runners : run[n].proc = "exited" /\ shown = run[n].wrote

\* When the job is over srun ends, whatever became of the session: a machine that
\* never attached, one that died attached, a restart (reapOrphanStreams: the client
\* "sat reading a stream nothing would ever be written to").
SessionEnds == (rec.state = "over" /\ srun # "start") ~> (srun = "done")

\* Again and again the job's terminal has the size of the person's window, as long
\* as both are there and no report of a size was lost (WatchStreamSize: "without
\* missing a change that lands between polls").
WindowFollows ==
  \A n \in Runners :
    []<>(\/ run[n].proc # "running" \/ rec.node # n \/ srun # "attached" \/ ~sess.there
         \/ run[n].size = window.size \/ unsent)

=============================================================================
