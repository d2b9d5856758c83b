---------------------------- MODULE OwnerPolicy ----------------------------
(***************************************************************************)
(* The owner's control over one machine: the policy file node.yaml and the *)
(* pause file, which the owner and the "shome config" command write while  *)
(* the agent's loop reads them; the decision the loop takes from them and  *)
(* from what the sensor shows; and what it then does to the jobs that run. *)
(*                                                                         *)
(* A policy is the set of its rules (the yield triggers and the required   *)
(* conditions, each an action for a signal) and the set of the windows of  *)
(* its schedule.  The time of the week is one more reading of the sensor.  *)
(***************************************************************************)
EXTENDS Naturals, FiniteSets

CONSTANTS
  Jobs,
  Containers,   \* those of Jobs that run in a container
  Signals,      \* what the sensor can show
  Policies,     \* what the owner may write
  Days, DayLen, \* the week: 7 days of 24 * 60 minutes in the code
  MaxEdits      \* bound: changes of the policy file and of the pause file

VARIABLES
  file,    \* node.yaml: whether it is there, what it says, its modification time
  writing, \* what "config set" is about to write over the truncated file
  pause,   \* whether the pause file is there
  mgr,     \* the Manager's memory: policy, loadedAt, invalid
  eval,    \* the evaluation under way and the time it has seen on the file
  own,     \* the action in force
  proc,    \* per job: "absent", "running" or "stopped"
  slow,    \* jobs whose priority is lowered
  edits

files == <<file, writing, pause, edits>>
ownerVars == <<files, mgr, eval, own, proc, slow>>

Actions == {"run", "drain", "throttle", "suspend"}

severity(a) == CASE a = "run" -> 0 [] a = "drain" -> 1 [] a = "throttle" -> 2 [] a = "suspend" -> 3

NoRules == [rules |-> {}, hours |-> {}]
Broken == [rules |-> {}, hours |-> {"broken"}]   \* does not parse, or does not validate
NoPolicy == [rules |-> {}, hours |-> {"none"}]   \* a nil policy

Times == 0..(Days * DayLen - 1)

\* The windows that parseWindow accepts.
Windows == [days: SUBSET (0..(Days - 1)), allDay: BOOLEAN, start: 0..(DayLen - 1), end: 0..(DayLen - 1)]

\* The policies the owner may write are those that Validate accepts: the rules ask for
\* something, and the hours are windows.  None of them is a missing or a broken one.
ASSUME OwnerAssumption ==
  /\ Days \in Nat \ {0} /\ DayLen \in Nat \ {0}
  /\ \A p \in Policies : /\ \A r \in p.rules : r.do \in Actions \ {"run"}
                         /\ p.hours \subseteq Windows
  /\ NoPolicy \notin Policies /\ Broken \notin Policies

OwnerTypeOK ==
  /\ file \in [there: BOOLEAN, says: Policies \cup {NoRules, Broken}, stamp: Nat]
  /\ writing \in Policies \cup {NoPolicy, Broken}
  /\ pause \in BOOLEAN /\ edits \in Nat
  /\ mgr \in [policy: Policies \cup {NoRules, NoPolicy}, at: Nat, invalid: BOOLEAN, blanked: BOOLEAN]
  /\ eval \in [step: {"stat", "read", "decide"}, at: Nat]
  /\ own \in Actions
  /\ proc \in [Jobs -> {"absent", "running", "stopped"}]
  /\ slow \subseteq Jobs

-----------------------------------------------------------------------------
(* Decide *)

\* Mutant: the hours after midnight are looked up under the new day.
ContainsMutant(w, t) ==
  LET day == t \div DayLen
      mins == t % DayLen
  IN  IF w.allDay THEN day \in w.days
      ELSE IF w.start <= w.end THEN day \in w.days /\ w.start <= mins /\ mins < w.end
      ELSE day \in w.days /\ (mins >= w.start \/ mins < w.end)

\* A window that ends before it starts runs past midnight: its second part belongs
\* to the day before.
Contains(w, t) ==
  LET day == t \div DayLen
      mins == t % DayLen
      yesterday == (day + Days - 1) % Days
  IN  IF w.allDay THEN day \in w.days
      ELSE IF w.start <= w.end THEN day \in w.days /\ w.start <= mins /\ mins < w.end
      ELSE \/ mins >= w.start /\ day \in w.days
           \/ mins < w.start /\ mins < w.end /\ yesterday \in w.days

inAnyWindow(hours, t) == \E w \in hours : Contains(w, t)

Considered(p, sees, t) ==
  {"run"} \cup {r.do : r \in {r \in p.rules : r.on \in sees}}
          \cup (IF p.hours # {} /\ ~inAnyWindow(p.hours, t) THEN {"suspend"} ELSE {})

Decide(p, sees, t) ==
  IF p = NoPolicy THEN "run"
  ELSE CHOOSE a \in Considered(p, sees, t) :
         \A b \in Considered(p, sees, t) : severity(b) <= severity(a)

-----------------------------------------------------------------------------

OwnerInit ==
  /\ file = [there |-> FALSE, says |-> NoRules, stamp |-> 0]
  /\ writing = NoPolicy /\ pause = FALSE /\ edits = 0
  /\ mgr = [policy |-> NoPolicy, at |-> 0, invalid |-> FALSE, blanked |-> FALSE]
  /\ eval = [step |-> "stat", at |-> 0]
  /\ own = "run"
  /\ proc = [j \in Jobs |-> "absent"] /\ slow = {}

(* The owner *)

Edit == edits < MaxEdits /\ edits' = edits + 1
Agent == <<mgr, eval, own, proc, slow>>
Holds(p) == file' = [there |-> TRUE, says |-> p, stamp |-> file.stamp + 1]

\* An editor that replaces the file, or "shome contribute" that makes one.
ReplaceFile(p) ==
  /\ writing = NoPolicy /\ Edit /\ Holds(p)
  /\ UNCHANGED <<writing, pause, Agent>>

\* os.WriteFile truncates, and then writes.  The truncated file is a policy
\* without rules to whoever reads it.  The schedule is saved as it is given,
\* valid or not.
SaveConfig(p) ==
  /\ writing = NoPolicy /\ Edit /\ Holds(NoRules) /\ writing' = p
  /\ UNCHANGED <<pause, Agent>>

FinishSave ==
  /\ writing # NoPolicy /\ Holds(writing) /\ writing' = NoPolicy
  /\ UNCHANGED <<pause, edits, Agent>>

\* The file is moved away; put back, it has the modification time it had.
MoveFile ==
  /\ writing = NoPolicy /\ file.stamp > 0 /\ Edit
  /\ file' = [file EXCEPT !.there = ~@]
  /\ UNCHANGED <<writing, pause, Agent>>

Pause == ~pause /\ Edit /\ pause' = TRUE /\ UNCHANGED <<file, writing, Agent>>
Resume == pause /\ Edit /\ pause' = FALSE /\ UNCHANGED <<file, writing, Agent>>

(* The agent's loop *)

Stat ==
  /\ eval.step = "stat"
  /\ IF ~file.there
     THEN /\ mgr' = [mgr EXCEPT !.policy = NoPolicy, !.invalid = FALSE, !.blanked = TRUE]
          /\ eval' = [eval EXCEPT !.step = "decide"]
     ELSE /\ eval' = [step |-> IF mgr.at = file.stamp THEN "decide" ELSE "read", at |-> file.stamp]
          /\ UNCHANGED mgr
  /\ UNCHANGED <<files, own, proc, slow>>

\* What is read is remembered under the time seen before it was read.  A file that
\* cannot be honoured leaves the last policy in place, and suspends.
ReadPolicy ==
  /\ eval.step = "read"
  /\ IF ~file.there THEN UNCHANGED mgr
     ELSE IF file.says = Broken THEN mgr' = [mgr EXCEPT !.invalid = TRUE, !.at = eval.at, !.blanked = FALSE]
     ELSE mgr' = [policy |-> file.says, at |-> eval.at, invalid |-> FALSE, blanked |-> FALSE]
  /\ eval' = [eval EXCEPT !.step = "decide"]
  /\ UNCHANGED <<files, own, proc, slow>>

\* Mutant: a pause is one rule among others, and lets running work finish.
EvaluateMutant(sees, t) ==
  IF pause THEN "drain"
  ELSE IF mgr.invalid THEN "suspend" ELSE Decide(mgr.policy, sees, t)

Evaluate(sees, t) ==
  IF pause \/ mgr.invalid THEN "suspend" ELSE Decide(mgr.policy, sees, t)

\* The sensor shows any of the signals, each read on its own; away from macOS, none.
Readings == SUBSET Signals

Alive == {j \in Jobs : proc[j] # "absent"}
\* A container can be neither stopped nor continued, and lowering the priority of
\* its launcher does nothing to it.
Signalled == Alive \ Containers

Signal(to) == proc' = [j \in Jobs |-> IF j \in Signalled THEN to ELSE proc[j]]
Throttle(on) == slow' = IF on THEN slow \cup Signalled ELSE slow \ Signalled

\* Nothing is done unless the action changes.
ApplyOwnerPolicy ==
  /\ eval.step = "decide"
  /\ \E sees \in Readings, t \in Times : own' = Evaluate(sees, t)
  /\ CASE own' = own -> UNCHANGED <<proc, slow>>
       [] own' # own /\ own' = "suspend" -> Signal("stopped") /\ UNCHANGED slow
       [] OTHER -> Signal("running") /\ Throttle(own' = "throttle")
  /\ eval' = [eval EXCEPT !.step = "stat"]
  /\ UNCHANGED <<files, mgr>>

\* Mutant: a machine whose owner took it back still takes what was sent to it.
OwnerAllowsNewWorkMutant == own \in {"run", "throttle", "suspend"}

OwnerAllowsNewWork == own \in {"run", "throttle"}

\* The answer to a heartbeat is carried out by the same loop, between two evaluations.
Launch(j) ==
  /\ eval.step = "stat" /\ proc[j] = "absent"
  /\ OwnerAllowsNewWork
  /\ proc' = [proc EXCEPT ![j] = "running"]
  /\ UNCHANGED <<files, mgr, eval, own, slow>>

WorkEnds(j) ==
  /\ proc[j] # "absent"
  /\ proc' = [proc EXCEPT ![j] = "absent"] /\ slow' = slow \ {j}
  /\ UNCHANGED <<files, mgr, eval, own>>

Tick == Stat \/ ReadPolicy \/ ApplyOwnerPolicy

OwnerNext ==
  \/ \E p \in Policies \cup {Broken} : ReplaceFile(p) \/ SaveConfig(p)
  \/ FinishSave \/ MoveFile \/ Pause \/ Resume
  \/ Stat \/ ReadPolicy \/ ApplyOwnerPolicy
  \/ \E j \in Jobs : Launch(j) \/ WorkEnds(j)

OwnerSpec == OwnerInit /\ [][OwnerNext]_ownerVars

\* The loop of the agent goes on, whatever the controller does.
OwnerFairSpec == OwnerSpec /\ WF_ownerVars(Tick)

-----------------------------------------------------------------------------
(* Properties *)

\* Once the Manager holds the file's modification time it holds what the file says,
\* however the edits fall between its Stat and its ReadFile (reloadPolicy), unless
\* the file was away in between: put back with the time it had, it is not read again.
NoEditMissed ==
  (file.there /\ mgr.at = file.stamp /\ ~mgr.blanked) =>
    IF file.says = Broken THEN mgr.invalid ELSE mgr.policy = file.says /\ ~mgr.invalid

\* While the owner's word is "suspend" no job runs but those in a container, which
\* the backend cannot stop (ApplyOwnerPolicy, OwnerAllowsNewWork; Suspend: "stop the
\* work but keep it resident, ready to continue").
SuspendStops == own = "suspend" => \A j \in Jobs \ Containers : proc[j] # "running"

\* What the owner wrote is what is decided on, and what is decided is done to every
\* job that can be signalled.
JobsYield == NoEditMissed /\ SuspendStops

\* A pause that is left in force stops the work, whatever the policy says and
\* whatever is done to it meanwhile (Evaluate).
PauseStopsWork == <>[]pause => <>[](\A j \in Jobs \ Containers : proc[j] # "running")

\* The days on which a window opens and the time for which it stays open, counted
\* from when it opens.
OpenedAt(w) == {d * DayLen + (IF w.allDay THEN 0 ELSE w.start) : d \in w.days}
StaysOpen(w) == IF w.allDay THEN DayLen ELSE (w.end + DayLen - w.start) % DayLen
Open(w, t) ==
  \E from \in OpenedAt(w), k \in 0..DayLen : k < StaysOpen(w) /\ (from + k) % (Days * DayLen) = t

\* Whatever the policy loaded, the time of the week and the signals: the machine
\* works only while a window that was opened, the day before perhaps, is still open
\* and no rule says otherwise, and the most protective rule wins (Decide).
DecidesForTheOwner ==
  mgr.policy # NoPolicy =>
    \A sees \in Readings, t \in Times :
      LET d == Decide(mgr.policy, sees, t)
          rules == {r.do : r \in {r \in mgr.policy.rules : r.on \in sees}}
          closed == mgr.policy.hours # {} /\ \A w \in mgr.policy.hours : ~Open(w, t)
      IN  /\ d = "suspend" <=> closed \/ "suspend" \in rules
          /\ d = "throttle" => "throttle" \in rules
          /\ d = "drain" => rules = {"drain"}
          /\ d = "run" => rules = {}

=============================================================================
