---------------------------- MODULE MCOperators ----------------------------
(* What people do to a cluster that runs, part by part: a job with its user,  *)
(* an admin and the owner all at it; the tools of an installation while it is *)
(* upgraded; the software an owner installs and removes.  `part` says which   *)
(* of them this behaviour is about; the variables of the others stay as they  *)
(* were at the beginning.                                                     *)
EXTENDS JobControl, Tools, Software, TLC

VARIABLE part

\* The trees of a Mac, and three packages.
MCTrees == <<"xcode", "brew", "local">>
MCPackages == {"certs", "git", "ps"}
MCProvides == [p \in MCPackages |->
  CASE p = "certs" -> {} [] p = "git" -> {"git"} [] p = "ps" -> {"ps", "top"}]

-----------------------------------------------------------------------------

controlVars == <<job, held, reg, gone, giving, plan, marked, cancelling, requeueing, pending,
                 run, done, serial, todo, mood, link, msg, attempt, dropped, asked, faults>>
allVars == <<part, controlVars, toolVars, softwareVars>>

OperatorsInit ==
  /\ part \in {"jobs", "tools", "software"}
  /\ Init /\ ToolsInit /\ SoftwareInit
  /\ part = "software" \/ (kind = "linux" /\ system = {} /\ stubs = {})

OperatorsNext ==
  \/ part = "jobs" /\ Next /\ UNCHANGED <<part, toolVars, softwareVars>>
  \/ part = "tools" /\ ToolsNext /\ UNCHANGED <<part, controlVars, softwareVars>>
  \/ part = "software" /\ SoftwareNext /\ UNCHANGED <<part, controlVars, toolVars>>

OperatorsSpec == OperatorsInit /\ [][OperatorsNext]_allVars

-----------------------------------------------------------------------------
(* What is checked, beside ResultStands *)

\* The tools in place are whole, and a job finds the commands its node promises (copyExecutable,
\* MachineSoftware).
ToolsFound == ToolsTypeOK /\ ToolsStayWhole /\ SoftwareTypeOK /\ CommandsAreFound

=============================================================================
