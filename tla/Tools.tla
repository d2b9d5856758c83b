------------------------------- MODULE Tools -------------------------------
(***************************************************************************)
(* The directory of commands that sessions and jobs of a machine have on   *)
(* their PATH: shome itself, the Slurm names, which are links to it, uv,   *)
(* and the startup file.  The daemon prepares it when it starts, and every *)
(* login session and job prepares it again, each for itself and without a  *)
(* lock.  A file is copied beside its place, under one fixed name, and     *)
(* renamed; the startup file is written in place.                          *)
(*                                                                         *)
(* A file has two blocks; a block holds the version that was written to    *)
(* it, or 0.  A name stands for a file until another takes it: whoever has *)
(* a file open goes on writing to it whatever its name is by then.         *)
(***************************************************************************)
EXTENDS Integers, Sequences

CONSTANTS
  Installers,   \* processes that prepare the directory
  MaxInstalls, MaxUpgrades, MaxDeaths \* bounds

ASSUME ToolsAssumption == MaxInstalls \in Nat /\ MaxUpgrades \in Nat /\ MaxDeaths \in Nat

VARIABLES
  self,         \* the version that is installed from; 0 when there is none for these sessions
  content,      \* the blocks of each file there ever was
  place, beside, \* by name: the file in its place, and the one beside it; 0 is none
  rcfile,       \* the startup file
  target,       \* what the Slurm names lead to
  inst,         \* what each installer is doing
  twice,        \* history: two have been copying the same name at once
  settled,      \* history: one has prepared the directory, alone, and nothing has happened since
  installs, upgrades, deaths

toolVars == <<self, content, place, beside, rcfile, target, inst, twice, settled, installs, upgrades, deaths>>

Names == {"shome", "uv"}
Steps == {"idle", "compare", "open", "first", "second", "rename", "rc", "rcfull", "link", "relink"}
Away == [pc |-> "idle", name |-> "shome", fd |-> 0, src |-> 0, alone |-> FALSE]

ToolsTypeOK ==
  /\ self \in 0..MaxUpgrades /\ \A i \in DOMAIN content : content[i] \in (0..MaxUpgrades) \X (0..MaxUpgrades)
  /\ place \in [Names -> 0..Len(content)] /\ beside \in [Names -> 0..Len(content)]
  /\ rcfile \in {"none", "part", "full"} /\ target \in {"none", "other", "shome"}
  /\ inst \in [Installers -> [pc: Steps, name: Names, fd: 0..Len(content), src: 0..MaxUpgrades, alone: BOOLEAN]]
  /\ twice \in BOOLEAN /\ settled \in BOOLEAN
  /\ installs \in 0..MaxInstalls /\ upgrades \in 0..MaxUpgrades /\ deaths \in 0..MaxDeaths
  /\ \A n \in Names : place[n] # 0 => place[n] # beside[n]

ToolsInit ==
  /\ self = 0 /\ content = <<>> /\ rcfile = "none" /\ target = "other"
  /\ place = [n \in Names |-> 0] /\ beside = [n \in Names |-> 0]
  /\ inst = [a \in Installers |-> Away] /\ twice = FALSE /\ settled = FALSE
  /\ installs = 0 /\ upgrades = 0 /\ deaths = 0

Whole(f) == content[f][1] = content[f][2] /\ content[f][1] # 0
Active == {a \in Installers : inst[a].pc # "idle"}
Go(a, pc) == inst' = [inst EXCEPT ![a].pc = pc]
\* An installer that ends, in an error or not.
End(a) == inst' = [inst EXCEPT ![a] = Away]

-----------------------------------------------------------------------------

\* Another version is put where the directory is installed from.
Upgrade ==
  /\ upgrades < MaxUpgrades /\ upgrades' = upgrades + 1 /\ self' = self + 1
  /\ inst' = [a \in Installers |-> [inst[a] EXCEPT !.alone = FALSE]] /\ settled' = FALSE
  /\ UNCHANGED <<content, place, beside, rcfile, target, twice, installs, deaths>>

\* The daemon starts, a session or a job does, or `admin env install` is run.
BeginInstall(a, name) ==
  /\ inst[a].pc = "idle" /\ installs < MaxInstalls /\ installs' = installs + 1
  /\ inst' = [i \in Installers |->
       IF i = a THEN [Away EXCEPT !.pc = "compare", !.name = name, !.alone = Active = {}]
       ELSE [inst[i] EXCEPT !.alone = FALSE]]
  /\ twice' = (twice \/ \E i \in Active : inst[i].name = name) /\ settled' = FALSE
  /\ UNCHANGED <<self, content, place, beside, rcfile, target, upgrades, deaths>>

\* Without a build of shome for these sessions there is nothing to prepare.
EnsureLinuxTools(a) ==
  /\ inst[a].pc = "compare" /\ self = 0 /\ End(a)
  /\ UNCHANGED <<self, content, place, beside, rcfile, target, twice, settled, installs, upgrades, deaths>>

\* Mutant: any file of that name will do.
sameFileMutant(f) == f # 0

\* The same size and the same contents.
sameFile(f) == f # 0 /\ content[f] = <<self, self>>

\* Of uv it is enough that there is one.
uvPresent(f) == f # 0

\* What is there already is left alone.
EnsureManaged(a) ==
  /\ inst[a].pc = "compare" /\ inst[a].name = "shome" /\ self # 0
  /\ Go(a, IF sameFile(place["shome"]) THEN "rc" ELSE "open")
  /\ UNCHANGED <<self, content, place, beside, rcfile, target, twice, settled, installs, upgrades, deaths>>

\* Whether it is the present one is not asked.
ensureUV(a) ==
  /\ inst[a].pc = "compare" /\ inst[a].name = "uv" /\ self # 0
  /\ IF uvPresent(place["uv"]) THEN End(a) ELSE Go(a, "open")
  /\ UNCHANGED <<self, content, place, beside, rcfile, target, twice, settled, installs, upgrades, deaths>>

\* The copy is begun: a file left beside is emptied, and taken.
Open(a) ==
  LET n == inst[a].name
      fresh == beside[n] = 0
      f == IF fresh THEN Len(content) + 1 ELSE beside[n] IN
  /\ inst[a].pc = "open"
  /\ content' = IF fresh THEN Append(content, <<0, 0>>) ELSE [content EXCEPT ![f] = <<0, 0>>]
  /\ beside' = [beside EXCEPT ![n] = f]
  /\ inst' = [inst EXCEPT ![a] = [@ EXCEPT !.pc = "first", !.fd = f, !.src = self]]
  /\ UNCHANGED <<self, place, rcfile, target, twice, settled, installs, upgrades, deaths>>

\* One block after the other, of what was opened.
Copy(a) ==
  LET i == inst[a] IN
  /\ i.pc \in {"first", "second"}
  /\ content' = [content EXCEPT ![i.fd][IF i.pc = "first" THEN 1 ELSE 2] = i.src]
  /\ Go(a, IF i.pc = "first" THEN "second" ELSE "rename")
  /\ UNCHANGED <<self, place, beside, rcfile, target, twice, settled, installs, upgrades, deaths>>

\* Whatever file is beside takes the place; when there is none any more, that is an error.
Rename(a) ==
  LET n == inst[a].name IN
  /\ inst[a].pc = "rename"
  /\ IF beside[n] # 0
       THEN /\ place' = [place EXCEPT ![n] = beside[n]] /\ beside' = [beside EXCEPT ![n] = 0]
            /\ IF n = "shome" THEN Go(a, "rc") ELSE End(a)
       ELSE End(a) /\ UNCHANGED <<place, beside>>
  /\ UNCHANGED <<self, content, rcfile, target, twice, settled, installs, upgrades, deaths>>

\* The startup file is emptied and written again, every time.
WriteRC(a) ==
  /\ inst[a].pc \in {"rc", "rcfull"}
  /\ rcfile' = IF inst[a].pc = "rc" THEN "part" ELSE "full"
  /\ Go(a, IF inst[a].pc = "rc" THEN "rcfull" ELSE "link")
  /\ UNCHANGED <<self, content, place, beside, target, twice, settled, installs, upgrades, deaths>>

Done(a) == End(a) /\ settled' = inst[a].alone

\* A name that leads elsewhere is removed first, and one that somebody else has made is an error.
ensureShims(a) ==
  /\ \/ /\ inst[a].pc = "link" /\ target = "shome" /\ Done(a) /\ UNCHANGED target
     \/ /\ inst[a].pc = "link" /\ target # "shome" /\ target' = "none" /\ Go(a, "relink") /\ UNCHANGED settled
     \/ /\ inst[a].pc = "relink" /\ target = "none" /\ target' = "shome" /\ Done(a)
     \/ /\ inst[a].pc = "relink" /\ target # "none" /\ End(a) /\ UNCHANGED <<target, settled>>
  /\ UNCHANGED <<self, content, place, beside, rcfile, twice, installs, upgrades, deaths>>

\* The process dies between two steps.
Die(a) ==
  /\ a \in Active /\ deaths < MaxDeaths /\ deaths' = deaths + 1 /\ End(a)
  /\ UNCHANGED <<self, content, place, beside, rcfile, target, twice, settled, installs, upgrades>>

ToolsNext ==
  \/ Upgrade
  \/ \E a \in Installers, n \in Names : BeginInstall(a, n)
  \/ \E a \in Installers : EnsureLinuxTools(a)
  \/ \E a \in Installers : EnsureManaged(a)
  \/ \E a \in Installers : ensureUV(a)
  \/ \E a \in Installers : Open(a)
  \/ \E a \in Installers : Copy(a)
  \/ \E a \in Installers : Rename(a)
  \/ \E a \in Installers : WriteRC(a)
  \/ \E a \in Installers : ensureShims(a)
  \/ \E a \in Installers : Die(a)

ToolsSpec == ToolsInit /\ [][ToolsNext]_toolVars

-----------------------------------------------------------------------------

\* A command that is in its place is whole, whatever died in the middle of a copy and whatever was
\* left beside it (copyExecutable), as long as no two have copied it at once; and an installer that
\* ran alone to its end leaves the present version, the links and the startup file, even where two
\* that met, or one that died, had left something else (sameFile, ensureShims).
ToolsStayWhole ==
  /\ ~twice => \A n \in Names : place[n] # 0 => Whole(place[n])
  /\ settled => place["shome"] # 0 /\ content[place["shome"]] = <<self, self>> /\ target = "shome" /\ rcfile = "full"

=============================================================================
