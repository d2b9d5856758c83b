------------------------------ MODULE Machine ------------------------------
(***************************************************************************)
(* What an installation leaves running on a machine, and who may stop it.  *)
(* A job or a login session runs in a container that outlives the process  *)
(* that started it and can only be stopped by its name.  The daemon keeps  *)
(* the names in memory; a sweep finds the rest by what they are called.    *)
(*                                                                         *)
(* The machine is the controller's own (RunController): its daemon serves  *)
(* logins and runs an agent.  One person types up, down and nuke, and      *)
(* waits for each.  A job may be sent here again before its last run has   *)
(* been acknowledged, since a job keeps its number when it is requeued.    *)
(***************************************************************************)
EXTENDS Naturals, FiniteSets

CONSTANTS
  Tasks,      \* numbers of jobs
  MaxRuns,    \* bound: runs of one number
  Logins,     \* login sessions
  MaxStarts,  \* bound: times the daemon is started
  MaxTrouble  \* bound: crashes, failed stops and removals, runs that overtake an acknowledgement

VARIABLES
  life,       \* the daemon: down, starting, up, closing
  pid,        \* the pid file: none, current, or stale
  command,    \* nuke, and how far it has got
  box,        \* the containers, as the runtime has them
  found,      \* a sweep in progress: the containers it has found
  task,       \* per number: the agent's memory of it, and its scratch
  known,      \* sessions noted as live
  missed,     \* history: containers whose last stop failed, or came before they were up
  again,      \* history: numbers that ran again before their last run was acknowledged
  starts, trouble

machineVars == <<life, pid, command, box, found, task, known, missed, again, starts, trouble>>

Shells == Logins \X {0}
Other == <<"other", 0>>    \* another installation's
Older == <<"older", 0>>    \* without a tag, or without a name and running an image of shome's
Boxes == (Tasks \X (1..MaxRuns)) \cup Shells \cup {Other, Older}
NotSweeping == {<<"none", 0>>}

\* Login sessions are not called like the others, or like no sweep.
ASSUME MachineAssumption ==
  /\ Logins \cap {"other", "older", "none"} = {}
  /\ MaxRuns \in Nat /\ MaxStarts \in Nat /\ MaxTrouble \in Nat

\* What an agent that has just started remembers of a number.
Forgotten(nth, scratch) ==
  [step |-> "idle", nth |-> nth, run |-> 0, fin |-> 0, reg |-> 0, scratch |-> scratch,
   done |-> FALSE, killing |-> FALSE, due |-> FALSE]
Memory ==
  [step : {"idle", "prepared", "started"}, nth : 0..MaxRuns, run : 0..MaxRuns, fin : 0..MaxRuns,
   reg : 0..MaxRuns, scratch : BOOLEAN, done : BOOLEAN, killing : BOOLEAN, due : BOOLEAN]

MachineTypeOK ==
  /\ life \in {"down", "starting", "up", "closing"} /\ pid \in {"none", "current", "stale"}
  /\ command \in {"none", "stop", "remove", "sweep", "check", "removed", "residue"}
  /\ box \in [Boxes -> {"none", "starting", "up"}]
  /\ found \in {NotSweeping} \cup SUBSET Boxes
  /\ task \in [Tasks -> Memory]
  /\ known \subseteq Shells /\ missed \subseteq Boxes /\ again \subseteq Tasks
  /\ starts \in 0..MaxStarts /\ trouble \in 0..MaxTrouble

MachineInit ==
  /\ life = "down" /\ pid = "none" /\ command = "none"
  /\ box = [b \in Boxes |-> IF b \in {Other, Older} THEN "up" ELSE "none"]
  /\ found = NotSweeping /\ task = [j \in Tasks |-> Forgotten(0, FALSE)]
  /\ known = {} /\ missed = {} /\ again = {} /\ starts = 0 /\ trouble = 0

Trouble == trouble < MaxTrouble /\ trouble' = trouble + 1
Set(j, t) == task' = [task EXCEPT ![j] = t]
DaemonLives == life # "down"

-----------------------------------------------------------------------------
(* The runtime *)

ComesUp(b) ==
  /\ box[b] = "starting" /\ box' = [box EXCEPT ![b] = "up"]
  /\ UNCHANGED <<life, pid, command, found, task, known, missed, again, starts, trouble>>

\* The history keeps what is still there of the containers nobody has a name for.
Lost(bs) == missed' = {b \in missed \cup bs : box'[b] # "none"}

\* --rm: a container is gone once what runs in it has ended.
Ends(b) ==
  /\ b \notin {Other, Older} /\ box[b] = "up" /\ box' = [box EXCEPT ![b] = "none"] /\ Lost({})
  /\ UNCHANGED <<life, pid, command, found, task, known, again, starts, trouble>>

\* "Not found" is success: a container that is not up yet comes up afterwards.
stopContainer(b) ==
  \/ box' = [box EXCEPT ![b] = IF @ = "up" THEN "none" ELSE @] /\ UNCHANGED trouble
  \/ box[b] = "up" /\ Trouble /\ UNCHANGED box

\* By the name the registry holds for the number, whichever run that is.
Registered(j) == {<<j, r>> : r \in {task[j].reg} \ {0}}
SignalBox(j) ==
  \/ Registered(j) = {} /\ UNCHANGED <<box, trouble>>
  \/ \E b \in Registered(j) : stopContainer(b)

-----------------------------------------------------------------------------
(* Jobs *)

\* One directory for the number; the last run's may still be there.
Prepare(j) ==
  /\ life = "up" /\ task[j].step = "idle" /\ task[j].nth < MaxRuns
  /\ task[j].run = 0                       \* otherwise the launch is a duplicate
  /\ Set(j, [task[j] EXCEPT !.step = "prepared", !.nth = @ + 1, !.scratch = TRUE])
  /\ IF task[j].fin # 0 \/ task[j].done \/ task[j].due
     THEN Trouble /\ again' = again \cup {j}
     ELSE UNCHANGED <<again, trouble>>
  /\ UNCHANGED <<life, pid, command, box, found, known, missed, starts>>

\* The name is put in the registry when the launcher has been started.
launchContainer(j) ==
  /\ DaemonLives /\ task[j].step = "prepared"
  /\ box' = [box EXCEPT ![<<j, task[j].nth>>] = "starting"]
  /\ Set(j, [task[j] EXCEPT !.step = "started", !.reg = task[j].nth])
  /\ UNCHANGED <<life, pid, command, found, known, missed, again, starts, trouble>>

Launched(j) ==
  /\ DaemonLives /\ task[j].step = "started"
  /\ Set(j, [task[j] EXCEPT !.step = "idle", !.run = task[j].nth, !.fin = task[j].nth, !.killing = FALSE])
  /\ UNCHANGED <<life, pid, command, box, found, known, missed, again, starts, trouble>>

\* Mutant: only the scratch.
CleanupMutant(j, t) ==
  /\ Set(j, [t EXCEPT !.scratch = FALSE, !.reg = 0])
  /\ UNCHANGED <<box, trouble>> /\ Lost({})

\* The scratch, then the container by the registry's name, which is then forgotten
\* whether or not it stopped; while a scratch that stays keeps container and name.
Cleanup(j, t) ==
  \/ Set(j, [t EXCEPT !.scratch = FALSE, !.reg = 0]) /\ SignalBox(j) /\ Lost(Registered(j))
  \/ Set(j, t) /\ Trouble /\ UNCHANGED box /\ Lost(Registered(j))

LaunchFails(j) ==
  /\ DaemonLives /\ task[j].step = "prepared"
  /\ Cleanup(j, [task[j] EXCEPT !.step = "idle", !.done = TRUE])
  /\ UNCHANGED <<life, pid, command, found, known, again, starts>>

\* report: no longer run, and due to be reported.
Reported(t) == [t EXCEPT !.run = 0, !.done = TRUE, !.killing = FALSE]

\* checkAll: a memory or process limit (KILL), or the time limit (TERM, and KILL later);
\* reported whether or not the signal could be sent.
LimitReached(j, delayed) ==
  /\ life = "up" /\ task[j].run # 0 /\ ~task[j].killing /\ box[<<j, task[j].run>>] = "up"
  /\ SignalBox(j) /\ Lost({})
  /\ Set(j, [Reported(task[j]) EXCEPT !.due = task[j].due \/ delayed])
  /\ UNCHANGED <<life, pid, command, found, known, again, starts>>

Exited(j) ==
  /\ life = "up" /\ task[j].run # 0 /\ box[<<j, task[j].run>>] = "none"
  /\ Set(j, Reported(task[j]))
  /\ UNCHANGED <<life, pid, command, box, found, known, missed, again, starts, trouble>>

\* A kill whose signal fails leaves the job as it was, marked.
Kill(j) ==
  /\ life = "up" /\ task[j].run # 0
  /\ SignalBox(j) /\ Lost({})
  /\ IF trouble' = trouble THEN Set(j, [Reported(task[j]) EXCEPT !.due = TRUE])
     ELSE Set(j, [task[j] EXCEPT !.killing = TRUE])
  /\ UNCHANGED <<life, pid, command, found, known, again, starts>>

\* Two or three seconds later, whatever holds the number by then.
KillAgain(j) ==
  /\ DaemonLives /\ task[j].due
  /\ SignalBox(j) /\ Lost({})
  /\ Set(j, [task[j] EXCEPT !.due = FALSE])
  /\ UNCHANGED <<life, pid, command, found, known, again, starts>>

\* The acknowledgement of a report: the working files go, if they are remembered.
ForgetFinished(j) ==
  /\ life = "up" /\ task[j].done /\ task[j].step = "idle"
  /\ IF task[j].fin = 0 THEN Set(j, [task[j] EXCEPT !.done = FALSE]) /\ UNCHANGED <<box, missed, trouble>>
     ELSE Cleanup(j, [task[j] EXCEPT !.done = FALSE, !.fin = 0])
  /\ UNCHANGED <<life, pid, command, found, known, again, starts>>

-----------------------------------------------------------------------------
(* Login sessions *)

\* Noted before anything is started.
ShellCommand(s) == known' = known \cup {s}

\* The login node listens before the agent has swept.
Login(s) ==
  /\ life \in {"starting", "up"} /\ box[s] = "none"
  /\ ShellCommand(s) /\ box' = [box EXCEPT ![s] = "starting"]
  /\ UNCHANGED <<life, pid, command, found, task, missed, again, starts, trouble>>

\* cleanup, when the person leaves or the daemon closes.
StopIsolation(s) ==
  /\ DaemonLives /\ s \in known
  /\ known' = known \ {s} /\ stopContainer(s) /\ Lost({s})
  /\ UNCHANGED <<life, pid, command, found, task, again, starts>>

-----------------------------------------------------------------------------
(* Sweeping *)

Up == {b \in Boxes : box[b] = "up"}
RunningTasks == {j \in Tasks : task[j].run # 0}

\* Found now; a container that is still starting is not there to be found.
ListBoxes ==
  /\ found' = Up
  /\ missed' = missed \cup ({b \in Boxes : box[b] = "starting"} \ known)

\* Containers without a tag are an older shome's; another tag is another installation's.
\* What is live is asked after the containers were found.
Doomed == found \ ({Other} \cup known)

\* The stops may fail.
SweepOrphanIsolation ==
  /\ found' = NotSweeping
  /\ \/ box' = [b \in Boxes |-> IF b \in Doomed THEN "none" ELSE box[b]] /\ UNCHANGED trouble
     \/ Trouble /\ UNCHANGED box
  /\ Lost(Doomed)

Sweeping == found # NotSweeping

-----------------------------------------------------------------------------
(* The daemon *)

\* A pid file left by a process that has gone counts as none.
Status == pid = "current"

WritePID == pid' = "current"
ClearPID == pid' = IF pid = "current" THEN "none" ELSE pid
\* up: the pid file is written before anything else.
Start ==
  /\ ~Status /\ command = "none" /\ starts < MaxStarts
  /\ starts' = starts + 1 /\ life' = "starting" /\ WritePID
  /\ UNCHANGED <<command, box, found, task, known, missed, again, trouble>>

SweepBegins ==
  /\ life = "starting" /\ ~Sweeping /\ ListBoxes
  /\ UNCHANGED <<life, pid, command, box, task, known, again, starts, trouble>>

\* The directories of jobs that do not run.
OrphanScratch ==
  task' = [j \in Tasks |-> IF j \in RunningTasks THEN task[j] ELSE [task[j] EXCEPT !.scratch = FALSE]]

\* Nothing runs yet, so every directory is left over.  Containers come first.
SweepOrphanScratch ==
  /\ life = "starting" /\ Sweeping /\ life' = "up"
  /\ SweepOrphanIsolation
  /\ OrphanScratch
  /\ UNCHANGED <<pid, command, known, again, starts>>

\* SIGTERM, from down, restart or nuke.
Terminated ==
  /\ Status /\ life = "up" /\ command \in {"none", "stop"} /\ life' = "closing"
  /\ UNCHANGED <<pid, command, box, found, task, known, missed, again, starts, trouble>>

\* Only if something is registered as running; a launch in progress is not.
ReleaseBegins ==
  /\ life = "closing" /\ ~Sweeping /\ RunningTasks # {} /\ ListBoxes
  /\ UNCHANGED <<life, pid, command, box, task, known, again, starts, trouble>>

MemoryGone ==
  /\ task' = [j \in Tasks |-> Forgotten(task[j].nth, task[j].scratch)]
  /\ known' = {} /\ found' = NotSweeping /\ life' = "down"

\* The process ends; launchers and containers do not.
DaemonExits ==
  /\ life = "closing" /\ MemoryGone /\ ClearPID
  /\ IF Sweeping THEN SweepOrphanIsolation ELSE RunningTasks = {} /\ UNCHANGED <<box, missed, trouble>>
  /\ UNCHANGED <<command, again, starts>>

DaemonCrashes ==
  /\ DaemonLives /\ Trouble /\ MemoryGone /\ pid' = "stale"
  /\ UNCHANGED <<command, box, missed, again, starts>>

-----------------------------------------------------------------------------
(* nuke --confirm *)

Nuke ==
  /\ command = "none" /\ life \in {"down", "up"} /\ command' = "stop"
  /\ UNCHANGED <<life, pid, box, found, task, known, missed, again, starts, trouble>>

\* Nothing is removed before the daemon has gone.
Stopped ==
  /\ command = "stop" /\ ~Status
  /\ command' = "remove" /\ pid' = "none"
  /\ UNCHANGED <<life, box, found, task, known, missed, again, starts, trouble>>

\* The state directory and all that is in it; then what the runtime has is found.
RemoveState ==
  /\ command = "remove"
  /\ task' = [j \in Tasks |-> [task[j] EXCEPT !.scratch = FALSE]]
  /\ ListBoxes /\ command' = "sweep"
  /\ UNCHANGED <<life, pid, box, known, again, starts, trouble>>

SweepRemoves ==
  /\ command = "sweep" /\ Sweeping /\ SweepOrphanIsolation /\ command' = "check"
  /\ UNCHANGED <<life, pid, task, known, again, starts>>

\* The check sweeps once more, and calls what it then stopped residue.
CheckLists ==
  /\ command = "check" /\ ~Sweeping /\ ListBoxes
  /\ UNCHANGED <<life, pid, command, box, task, known, again, starts, trouble>>

CheckResidue ==
  /\ command = "check" /\ Sweeping /\ SweepOrphanIsolation
  /\ command' = IF trouble' = trouble /\ Doomed # {} THEN "residue" ELSE "removed"
  /\ UNCHANGED <<life, pid, task, known, again, starts>>

-----------------------------------------------------------------------------

MachineNext ==
  \/ \E b \in Boxes : ComesUp(b) \/ Ends(b)
  \/ \E j \in Tasks :
       \/ Prepare(j) \/ launchContainer(j) \/ Launched(j) \/ LaunchFails(j)
       \/ \E delayed \in BOOLEAN : LimitReached(j, delayed)
       \/ Exited(j) \/ Kill(j) \/ KillAgain(j) \/ ForgetFinished(j)
  \/ \E s \in Shells : Login(s) \/ StopIsolation(s)
  \/ Start \/ SweepBegins \/ SweepOrphanScratch \/ Terminated \/ ReleaseBegins \/ DaemonExits \/ DaemonCrashes
  \/ Nuke \/ Stopped \/ RemoveState \/ SweepRemoves \/ CheckLists \/ CheckResidue

MachineSpec == MachineInit /\ [][MachineNext]_machineVars

-----------------------------------------------------------------------------
(* Properties *)

\* A job's container is answered for while the job runs, is being launched, or awaits
\* the acknowledgement that cleans up after it; a session's while it is noted.
Answered(b) ==
  \/ b \in known \cup {Other}
  \/ \E j \in Tasks : \E r \in 1..MaxRuns :
       /\ b = <<j, r>>
       /\ \/ task[j].run = r \/ (task[j].step = "started" /\ task[j].nth = r)
          \/ task[j].fin = r /\ task[j].reg = r /\ task[j].done

LeftBehindKnowingly(b) == b \in missed \/ \E j \in again : \E r \in 1..MaxRuns : b = <<j, r>>

\* While the daemon is up, every container of this installation that is up is answered
\* for, and once nuke has said that all is removed there is none; but for containers
\* whose stop failed or came before they were up, and numbers that ran again too soon
\* (SweepOrphanIsolation: "the runtime does not stop a container when its launcher goes
\* away"; Cleanup: "leave no residue").
NothingLeftBehind ==
  \A b \in Boxes :
    box[b] = "up" /\ ~LeftBehindKnowingly(b) =>
      /\ life = "up" => Answered(b)
      /\ command = "removed" => b = Other

InUse(b) ==
  \/ b \in known \cup {Other}
  \/ life = "up" /\ \E j \in Tasks \ again : \E r \in 1..MaxRuns : b = <<j, r>> /\ task[j].run = r

\* No step stops a container that is in use before it and after it, or removes its
\* scratch: not a sweep, not the cleaning up after an earlier run, not a KILL that was
\* due; nor is anything of another installation's stopped (SweepOrphanIsolation:
\* "whose running jobs are no more ours to stop than anybody else's").
SparesTheLiving ==
  /\ \A b \in Boxes :
       box[b] = "up" /\ box'[b] = "none" /\ ~Ends(b) => ~(InUse(b) /\ InUse(b)')
  /\ \A j \in Tasks : \A r \in 1..MaxRuns :
       InUse(<<j, r>>) /\ InUse(<<j, r>>)' /\ task[j].scratch => task'[j].scratch

\* Every step leaves nothing behind and spares the living.
MachineTidy == [][NothingLeftBehind' /\ SparesTheLiving]_machineVars

=============================================================================
