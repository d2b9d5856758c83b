---------------------------- MODULE Confinement ----------------------------
(***************************************************************************)
(* A job as processes: what starts them, how the node sees and stops them. *)
(* On Linux bubblewrap launches the job in a namespace that ends with the  *)
(* launcher, beside a cgroup where the machine allows one; on a Mac a job  *)
(* that needs the GPU runs natively, as a process group and nothing more.  *)
(*                                                                         *)
(* One job.  The launcher starts the script, and the script or a native    *)
(* job anything else.  A process that has grown stays so.                  *)
(***************************************************************************)
EXTENDS Naturals, FiniteSets, FiniteSetsExt

CONSTANTS
  Kids,   \* processes the job may start, the script among them
  Limit   \* the memory limit; a process may use one more, a job as much per process

VARIABLES
  env,      \* what the machine offers: see Environments
  limits,   \* the limits of the job: on memory, on processes, on time
  cgroup,   \* the job's cgroup: none, made but without limit and accounts, or full
  phase,    \* the agent, with the job
  proc,     \* the processes
  mem,      \* what each uses
  ingroup, incgroup, \* the processes in the job's process group, in its cgroup
  code,     \* the launcher's exit code
  said,     \* what was reported
  due,      \* asked to stop, with the kill to follow
  astray    \* history: native processes that left the group, or outlived launcher or agent

jobVars == <<env, limits, cgroup, phase, proc, mem, ingroup, incgroup, code, said, due, astray>>

Script == "script"
Launcher == "launcher"
\* The script is one of the processes the launcher starts.
ASSUME ConfinementAssumption ==
  IsFiniteSet(Kids) /\ Script \in Kids /\ Launcher \notin Kids /\ Limit \in Nat

Procs == Kids \cup {Launcher}
Alive == {p \in Procs : proc[p] = "alive"}

ConfinementTypeOK ==
  /\ env \in {"cgroup", "bwrap", "bare", "native"}
  /\ limits \in [mem: BOOLEAN, procs: 0..Cardinality(Procs), wall: BOOLEAN]
  /\ cgroup \in {"none", "made", "full"}
  /\ phase \in {"idle", "prepared", "started", "running", "reported", "lost", "cleaned"}
  /\ proc \in [Procs -> {"none", "alive", "exited", "failed", "killed"}]
  /\ mem \in [Procs -> 0..(Limit + 1)] /\ ingroup \subseteq Alive /\ incgroup \subseteq Alive
  /\ code \in {"none", "0", "1", "137", "-1"}
  /\ said \in {"none", "COMPLETED", "FAILED", "OUT_OF_MEMORY", "TIMEOUT"}
  /\ due \in BOOLEAN /\ astray \subseteq Alive
  /\ (cgroup # "none" => env = "cgroup") /\ (astray # {} => env = "native")

\* A delegated cgroup or none, with bubblewrap; neither; a Mac.
Environments == {"cgroup", "bwrap", "bare", "native"}
Namespaced == env \in {"cgroup", "bwrap"}

ConfinementInit ==
  /\ env \in Environments /\ limits \in [mem: BOOLEAN, procs: {0, 2}, wall: BOOLEAN]
  /\ cgroup = "none" /\ phase = "idle" /\ proc = [p \in Procs |-> "none"]
  /\ mem = [p \in Procs |-> 0] /\ ingroup = {} /\ incgroup = {}
  /\ code = "none" /\ said = "none" /\ due = FALSE /\ astray = {}

-----------------------------------------------------------------------------
(* Processes *)

Used(s) == MapThenSumSet(LAMBDA p : mem[p], s)

\* A cgroup is one the kernel may not have given a memory controller to; the job goes on without.
Prepare ==
  /\ phase = "idle" /\ phase' = "prepared"
  /\ cgroup' \in IF env = "cgroup" THEN {"none", "made", "full"} ELSE {"none"}
  /\ UNCHANGED <<env, limits, proc, mem, ingroup, incgroup, code, said, due, astray>>

\* On either system the job leads a process group of its own, to be signalled and sampled whole.
Leader == {Launcher}

Launch ==
  /\ phase = "prepared" /\ phase' = "started"
  /\ proc' = [proc EXCEPT ![Launcher] = "alive"] /\ ingroup' = Leader
  /\ UNCHANGED <<env, limits, cgroup, mem, incgroup, code, said, due, astray>>

\* The launcher is put in the cgroup; whatever it has started by then is not.
Move ==
  /\ phase = "started" /\ phase' = "running"
  /\ incgroup' = IF cgroup # "none" /\ Launcher \in Alive THEN {Launcher} ELSE {}
  /\ UNCHANGED <<env, limits, cgroup, proc, mem, ingroup, code, said, due, astray>>

\* A child is where its parent is.
Fork(p, k) ==
  /\ p \in Alive /\ proc[k] = "none" /\ env # "bare"
  /\ Namespaced => (p = Launcher <=> k = Script)
  /\ proc' = [proc EXCEPT ![k] = "alive"]
  /\ ingroup' = IF p \in ingroup THEN ingroup \cup {k} ELSE ingroup
  /\ incgroup' = IF p \in incgroup THEN incgroup \cup {k} ELSE incgroup
  /\ astray' = IF p \in astray THEN astray \cup {k} ELSE astray
  /\ UNCHANGED <<env, limits, cgroup, phase, mem, code, said, due>>

\* A process makes a session of its own.
Leave(k) ==
  /\ k \in ingroup /\ ingroup' = ingroup \ {k}
  /\ astray' = IF env = "native" THEN astray \cup {k} ELSE astray
  /\ UNCHANGED <<env, limits, cgroup, phase, proc, mem, incgroup, code, said, due>>

\* How each of ps ends; a launcher that is killed leaves no code of its own.
End(ps, how) ==
  /\ proc' = [p \in Procs |-> IF p \in ps \cap Alive THEN how ELSE proc[p]]
  /\ mem' = [p \in Procs |-> IF p \in ps THEN 0 ELSE mem[p]]
  /\ ingroup' = ingroup \ ps /\ incgroup' = incgroup \ ps /\ astray' = astray \ ps
  /\ code' = IF Launcher \notin ps \cap Alive THEN code
             ELSE CASE how = "exited" -> "0" [] how = "failed" -> "1" [] OTHER -> "-1"

\* More memory, unless the kernel holds the cgroup to its limit: then the largest is killed.
Grow(p) ==
  /\ p \in Alive /\ mem[p] <= Limit /\ (Namespaced => p # Launcher) /\ env # "bare"
  /\ phase \in {"started", "running"} \* nobody looks at it any more
  /\ IF cgroup = "full" /\ limits.mem /\ p \in incgroup /\ Used(incgroup) >= Limit
     THEN \E q \in incgroup \ {Launcher} :
            (\A o \in incgroup : mem[o] <= mem[q]) /\ End({q}, "killed")
     ELSE mem' = [mem EXCEPT ![p] = @ + 1] /\ UNCHANGED <<proc, ingroup, incgroup, code, astray>>
  /\ UNCHANGED <<env, limits, cgroup, phase, said, due>>

\* A process ends by itself; bubblewrap waits for the script.
Exit(p) ==
  /\ p \in Alive /\ (p = Launcher => env = "native")
  /\ \E how \in {"exited", "failed"} : End({p}, how)
  /\ UNCHANGED <<env, limits, cgroup, phase, said, due>>

\* The script has ended, and bubblewrap with it; without bubblewrap it is /bin/false that ran.
LauncherExits ==
  /\ Launcher \in Alive
  /\ env = "bare" \/ (Namespaced /\ proc[Script] \notin {"none", "alive"})
  /\ proc' = [proc EXCEPT ![Launcher] = "exited"]
  /\ ingroup' = ingroup \ {Launcher} /\ incgroup' = incgroup \ {Launcher}
  /\ code' = CASE proc[Script] = "exited" -> "0" [] proc[Script] = "killed" -> "137" [] OTHER -> "1"
  /\ UNCHANGED <<env, limits, cgroup, phase, mem, said, due, astray>>

\* A namespace goes when its launcher does.
NamespaceEnds ==
  /\ Namespaced /\ Launcher \notin Alive /\ Alive # {} /\ End(Alive, "killed")
  /\ UNCHANGED <<env, limits, cgroup, phase, said, due>>

-----------------------------------------------------------------------------
(* The agent *)

\* Mutant: the process that was started is signalled, not its group.
SignalledMutant == {Launcher}

Signalled == ingroup

\* The processes a sample is of: the cgroup's, if it can be read, or the group's.
Sampled == IF cgroup = "full" THEN incgroup ELSE ingroup

\* One round of the supervisor, for the first thing it finds.
TooMany == limits.procs > 0 /\ Cardinality(Sampled) > limits.procs
TooMuch == limits.mem /\ Used(Sampled) > Limit
Reported(st) == phase' = "reported" /\ said' = st

\* Nobody will signal what still runs.
LeftAlone == astray' = IF env = "native" THEN astray \cup Alive ELSE astray

Verdict ==
  CASE code = "0" -> "COMPLETED"
    [] code = "137" /\ limits.mem -> "OUT_OF_MEMORY"
    [] OTHER -> "FAILED"

checkAll ==
  /\ phase = "running"
  /\ \/ TooMany /\ End(Signalled, "killed") /\ Reported("FAILED") /\ due' = due
     \/ ~TooMany /\ TooMuch /\ End(Signalled, "killed") /\ Reported("OUT_OF_MEMORY") /\ due' = due
     \/ /\ ~TooMany /\ ~TooMuch /\ limits.wall /\ Reported("TIMEOUT") /\ due' = TRUE
        /\ \E ps \in SUBSET Signalled : End(ps, "failed") \* those that mind it
     \/ /\ ~TooMany /\ ~TooMuch /\ code # "none" /\ Reported(Verdict) /\ LeftAlone
        /\ UNCHANGED <<proc, mem, ingroup, incgroup, code, due>>
  /\ UNCHANGED <<env, limits, cgroup>>

\* The grace is over.
KillAfterGrace ==
  /\ due /\ due' = FALSE /\ End(Signalled, "killed")
  /\ UNCHANGED <<env, limits, cgroup, phase, said>>

\* The result was acknowledged: the cgroup is emptied and removed, and the directory.
Cleanup ==
  /\ phase = "reported" /\ phase' = "cleaned" /\ End(incgroup, "killed") /\ cgroup' = "none"
  /\ UNCHANGED <<env, limits, said, due>>

\* The agent dies: bubblewrap goes with its parent, a native job does not.
AgentDies ==
  /\ phase \in {"started", "running", "reported"} /\ phase' = "lost" /\ due' = FALSE
  /\ IF Namespaced THEN End({Launcher}, "killed")
     ELSE LeftAlone /\ UNCHANGED <<proc, mem, ingroup, incgroup, code>>
  /\ UNCHANGED <<env, limits, cgroup, said>>

\* The next agent removes the directory; the cgroup stays.
SweepOrphanScratch ==
  /\ phase = "lost" /\ phase' = "cleaned"
  /\ UNCHANGED <<env, limits, cgroup, proc, mem, ingroup, incgroup, code, said, due, astray>>

ConfinementNext ==
  \/ Prepare \/ Launch \/ Move
  \/ \E p \in Procs, k \in Kids : Fork(p, k)
  \/ \E k \in Kids : Leave(k)
  \/ \E p \in Procs : Grow(p)
  \/ \E p \in Procs : Exit(p)
  \/ LauncherExits \/ NamespaceEnds \/ checkAll \/ KillAfterGrace \/ Cleanup
  \/ AgentDies \/ SweepOrphanScratch

\* The supervisor looks again and again, reports are acknowledged, the kernel ends what is to end.
ConfinementFairness ==
  /\ WF_jobVars(Move) /\ WF_jobVars(checkAll) /\ WF_jobVars(KillAfterGrace) /\ WF_jobVars(Cleanup)
  /\ WF_jobVars(SweepOrphanScratch) /\ WF_jobVars(LauncherExits) /\ WF_jobVars(NamespaceEnds)

ConfinementSpec == ConfinementInit /\ [][ConfinementNext]_jobVars /\ ConfinementFairness

-----------------------------------------------------------------------------

AboveLimit == phase = "running" /\ limits.mem /\ Used(Alive) > Limit

\* A process the node does not look at: it left the group, or was started before its launcher was
\* put in the cgroup.
Unseen == \E p \in Alive : mem[p] > 0 /\ p \notin IF cgroup = "full" THEN incgroup ELSE ingroup

\* A job does not stay above its memory, whichever way the machine holds it, and when its
\* directory is gone its processes are, except native ones that left the group or outlived the
\* launcher or the agent (checkAll, Signal, Cleanup).
StaysConfined ==
  /\ []<>(AboveLimit => Unseen)
  /\ phase = "cleaned" ~> Alive \subseteq astray

=============================================================================
