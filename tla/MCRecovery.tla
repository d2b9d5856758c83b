----------------------------- MODULE MCRecovery -----------------------------
(* What failures leave behind, part by part: the jobs of machines that crash, *)
(* the daemons of one machine, the files a command moves.  `part` says which  *)
(* of them this behaviour is about; the variables of the others stay as they  *)
(* were at the beginning.                                                     *)
EXTENDS JobControl, Daemons, FileCommands, TLC

VARIABLE part

-----------------------------------------------------------------------------

controlVars == <<job, held, reg, gone, giving, plan, marked, cancelling, requeueing, pending,
                 run, done, serial, todo, mood, link, msg, attempt, dropped, asked, faults>>
allVars == <<part, controlVars, daemonVars, fileVars>>

RecoveryInit ==
  /\ part \in {"jobs", "daemons", "files"}
  /\ Init /\ DaemonsInit /\ FilesInit

RecoveryNext ==
  \/ /\ part = "jobs" /\ Next
     /\ UNCHANGED <<part, daemonVars, fileVars>>
  \/ /\ part = "daemons" /\ DaemonsNext
     /\ UNCHANGED <<part, controlVars, fileVars>>
  \/ /\ part = "files" /\ FilesNext
     /\ UNCHANGED <<part, controlVars, daemonVars>>

RecoverySpec == RecoveryInit /\ [][RecoveryNext]_allVars

SymmetricNodes == Permutations(Nodes)

-----------------------------------------------------------------------------
(* What is checked, beside the properties of JobControl *)

\* The variables of the other parts have their types.
RestTypeOK == DaemonsTypeOK /\ FilesTypeOK

=============================================================================
