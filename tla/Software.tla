------------------------------ MODULE Software ------------------------------
(***************************************************************************)
(* Which programs a job finds that runs on the machine itself and not in a *)
(* container: the base commands of the cluster, from whatever the owner    *)
(* has installed them with.  shome looks through the trees it knows, in    *)
(* order, and keeps those that provide something none before them does;    *)
(* the sandbox lets the job read the trees kept, and their directories are *)
(* on its PATH before the system's, whose developer commands may be stubs  *)
(* that only offer to install the real ones.  On a machine where shome may *)
(* use the package manager it installs what is missing.                    *)
(***************************************************************************)
EXTENDS Integers, Sequences

CONSTANTS
  Trees,        \* the trees shome knows, in order
  Packages,     \* the base packages
  Provides,     \* the commands of each package
  MaxChanges    \* bound: what the owner installs and removes

ASSUME SoftwareAssumption == MaxChanges \in Nat /\ Trees \in Seq({Trees[i] : i \in DOMAIN Trees})

VARIABLES
  kind,         \* whether the machine is a Mac; it runs Linux if not
  has,          \* the commands each tree has
  system,       \* the commands the system directories really have
  stubs,        \* and those they have stubs of
  sandbox,      \* what a job was given: the trees on its PATH, or that there is none
  began,        \* history: what the trees had when it began
  said,         \* what the last attempt to install came to
  changes

softwareVars == <<kind, has, system, stubs, sandbox, began, said, changes>>

Commands == UNION {Provides[p] : p \in Packages}
AllTrees == {Trees[i] : i \in DOMAIN Trees}
NoJob == [on |-> FALSE, path |-> {}]

SoftwareTypeOK ==
  /\ kind \in {"mac", "linux"}
  /\ has \in [AllTrees -> SUBSET Commands] /\ system \subseteq Commands /\ stubs \subseteq Commands \ system
  /\ sandbox \in [on: BOOLEAN, path: SUBSET AllTrees] /\ began \in [AllTrees -> SUBSET Commands]
  /\ said \in {"nothing", "complete", "incomplete"} /\ changes \in 0..MaxChanges

SoftwareInit ==
  /\ kind \in {"mac", "linux"} /\ has = [t \in AllTrees |-> {}]
  /\ system \in SUBSET Commands /\ stubs \in SUBSET (Commands \ system) /\ (kind = "linux" => stubs = {})
  /\ sandbox = NoJob /\ began = has /\ said = "nothing" /\ changes = 0

-----------------------------------------------------------------------------

\* There are trees to look through on a Mac only.
candidateTrees == IF kind = "mac" THEN Trees ELSE <<>>

\* A directory that has a program which is not a stub.
findIn(t, c) == c \in has[t]

\* Each command is claimed by the first tree that has it, and a tree that claims none is left out.
Claims(i, c) == findIn(candidateTrees[i], c) /\ \A k \in 1..(i - 1) : ~findIn(candidateTrees[k], c)
MachineSoftware == {candidateTrees[i] : i \in {i \in DOMAIN candidateTrees : \E c \in Commands : Claims(i, c)}}

\* What a shell finds along a PATH: the trees come first, then the system's directories.
Lookup(path, c) ==
  CASE \E t \in path : findIn(t, c) -> "tree"
    [] (\A t \in path : ~findIn(t, c)) /\ c \in system -> "system"
    [] (\A t \in path : ~findIn(t, c)) /\ c \in stubs -> "stub"
    [] OTHER -> "nothing"

\* The commands a package manager would be asked for, and the packages that have them.
MissingBaseCommands == Commands \ system
packagesFor(missing) == {p \in Packages : Provides[p] \cap missing # {}}

-----------------------------------------------------------------------------

\* A job begins: its PATH, and what it may read, are made then.
SandboxBegins ==
  /\ ~sandbox.on /\ sandbox' = [on |-> TRUE, path |-> MachineSoftware] /\ began' = has
  /\ UNCHANGED <<kind, has, system, stubs, said, changes>>

SandboxEnds ==
  /\ sandbox.on /\ sandbox' = NoJob
  /\ UNCHANGED <<kind, has, system, stubs, began, said, changes>>

\* The owner installs a command, or removes one.
Install(t, c) ==
  /\ changes < MaxChanges /\ changes' = changes + 1 /\ kind = "mac" /\ c \notin has[t]
  /\ has' = [has EXCEPT ![t] = @ \cup {c}]
  /\ UNCHANGED <<kind, system, stubs, sandbox, began, said>>

Uninstall(t, c) ==
  /\ changes < MaxChanges /\ changes' = changes + 1 /\ c \in has[t]
  /\ has' = [has EXCEPT ![t] = @ \ {c}]
  /\ UNCHANGED <<kind, system, stubs, sandbox, began, said>>

\* What a package manager installs, all of it or some; what is missing then is said.
Provision ==
  /\ kind = "linux" /\ packagesFor(MissingBaseCommands) # {}
  /\ \E done \in SUBSET packagesFor(MissingBaseCommands) :
       /\ system' = system \cup UNION {Provides[p] : p \in done} /\ stubs' = stubs \ system'
       /\ said' = IF system' = Commands THEN "complete" ELSE "incomplete"
  /\ UNCHANGED <<kind, has, sandbox, began, changes>>

SoftwareNext ==
  \/ SandboxBegins
  \/ SandboxEnds
  \/ \E t \in AllTrees, c \in Commands : Install(t, c)
  \/ \E t \in AllTrees, c \in Commands : Uninstall(t, c)
  \/ Provision

SoftwareSpec == SoftwareInit /\ [][SoftwareNext]_softwareVars

-----------------------------------------------------------------------------

\* A job finds every base command that some tree really had when it began, in a tree that it may read
\* and never as the system's stub, for as long as the tree that provided it keeps it
\* (machineSoftware, Session.Path).
CommandsAreFound ==
  sandbox.on => \A c \in Commands, i \in DOMAIN Trees :
    /\ c \in began[Trees[i]] /\ \A k \in 1..(i - 1) : c \notin began[Trees[k]]
    /\ c \in has[Trees[i]]
    => Lookup(sandbox.path, c) = "tree"

=============================================================================
