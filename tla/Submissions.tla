---------------------------- MODULE Submissions ----------------------------
(***************************************************************************)
(* Handing in work: sbatch with an array or with inputs to upload, and     *)
(* `shome pipeline run`, which turns a graph of stages into jobs that      *)
(* depend on each other.  A command is several requests, and the           *)
(* controller's handler several statements, none of them in a transaction; *)
(* the client may be interrupted, which cancels its request wherever it    *)
(* has got to, and the controller may restart.                             *)
(*                                                                         *)
(* Every command is of one account.  The scheduler is the part of it that  *)
(* looks at what a submission wrote: held or not, and which dependencies.  *)
(***************************************************************************)
EXTENDS Integers, FiniteSets, Sequences, SequencesExt

CONSTANTS
  Clients,       \* sbatch and pipeline commands, each runs once
  Commands,      \* which command each of them is: "array", "staged" or "pipeline"
  StageNames,    \* a pipeline's stages, in the order of the file
  Pipelines,     \* pipeline files: for each stage, those it comes after
  Tasks,         \* an array's tasks
  Limit,         \* the account's max-submitted-jobs
  MaxBreaks      \* bound: interrupted clients, restarts, uploads that fail, cancellations

VARIABLES
  rows,      \* the jobs table
  cmd,       \* per client: its command, up to what it has been told
  handler,   \* per client: the request the controller works on for it
  after,     \* the pipeline file: what each stage comes after
  inputs,    \* archives in place, by job
  ran,       \* history: jobs whose script has run
  over,      \* history: two submissions were counted against the limit at once
  breaks

subVars == <<rows, cmd, handler, after, inputs, ran, over, breaks>>

Stages == Range(StageNames)
Graphs == [Stages -> SUBSET Stages]

ASSUME SubmissionsAssumption ==
  /\ StageNames \in Seq(Stages) \ {<<>>} /\ "" \notin Stages
  /\ \A i, j \in DOMAIN StageNames : StageNames[i] = StageNames[j] => i = j
  /\ Pipelines \subseteq Graphs /\ Commands \subseteq [Clients -> {"array", "staged", "pipeline"}]
  /\ Tasks \in Nat \ {0} /\ Limit \in Nat /\ MaxBreaks \in Nat

Ids == DOMAIN rows
Queued == {i \in Ids : rows[i].state \in {"PENDING", "RUNNING"}}
RowsOf(c) == {i \in Ids : rows[i].by = c}

-----------------------------------------------------------------------------
(* What is submitted: the options, the array, the graph                    *)

\* Options given; "" is one that is not.  --nodelist takes several.
Given == [time : {"", "1h", "2h"}, nodelist : SUBSET {"m", "n"}]

parseOpts(spec, opts) ==
  [time |-> IF opts.time = "" THEN spec.time ELSE opts.time,
   nodelist |-> spec.nodelist \cup opts.nodelist]

\* The command line, the script's directives, the command line again.
Options(line, script) ==
  parseOpts(parseOpts(parseOpts([time |-> "", nodelist |-> {}], line), script), line)

MaxArrayTasks == 3
Parts == {[lo |-> lo, hi |-> hi, step |-> step] : lo \in 0..2, hi \in 0..5, step \in 1..2}
Failed == {-1}
Expanded(p) == {i \in p.lo..p.hi : (i - p.lo) % p.step = 0}

ParseArray(parts) ==
  LET tasks == UNION {Expanded(p) : p \in parts}
  IN  IF \/ \E p \in parts : p.hi < p.lo \/ (p.hi - p.lo) \div p.step > MaxArrayTasks
         \/ Cardinality(tasks) > MaxArrayTasks
      THEN Failed ELSE tasks

\* Depth first: the stages on the way (grey, in the order of `path`) and those done with
\* (black).  A stage found again on the way to itself closes a cycle.  Which white stage
\* comes first only decides which cycle is reported.
Visit(deps, s) ==
  LET n == Last(s.path)
      white == Stages \ Range(s.done)
      open == IF s.path = <<>> THEN white ELSE deps[n] \ Range(s.done)
      d == CHOOSE x \in open : TRUE
  IN  IF s.found \/ white = {} THEN s
      ELSE IF open = {} THEN [path |-> Front(s.path), done |-> Append(s.done, n), found |-> FALSE]
      ELSE IF d \in Range(s.path) THEN [s EXCEPT !.found = TRUE]
      ELSE [s EXCEPT !.path = Append(@, d)]

\* Every stage is entered once and left once.
findCycle(deps) ==
  LET search[k \in Nat] ==
        IF k = 0 THEN [path |-> <<>>, done |-> <<>>, found |-> FALSE] ELSE Visit(deps, search[k - 1])
  IN  search[2 * Len(StageNames)].found

Parse(deps) == (\A n \in Stages : deps[n] \subseteq Stages \ {n}) /\ ~findCycle(deps)

\* Round after round, in the file's order, the stages whose prerequisites are placed;
\* there is a round for each stage at the most.
Look(deps, placed, n) ==
  IF n \in Range(placed) \/ ~(deps[n] \subseteq Range(placed)) THEN placed ELSE Append(placed, n)

Order(deps) ==
  LET looked[k \in Nat] ==
        IF k = 0 THEN <<>>
        ELSE Look(deps, looked[k - 1], StageNames[((k - 1) % Len(StageNames)) + 1])
  IN  looked[Len(StageNames) * Len(StageNames)]

\* Mutant: afterok with the first number only.
DependencyExprMutant(deps, n, ids) ==
  LET known == {ids[d] : d \in deps[n] \cap DOMAIN ids} IN IF known = {} THEN {} ELSE {Min(known)}

\* What a stage waits for, by the numbers its prerequisites were given.
DependencyExpr(deps, n, ids) == {ids[d] : d \in deps[n] \cap DOMAIN ids}

Acyclic(deps) == \E f \in [Stages -> 1..Len(StageNames)] : \A n \in Stages : \A d \in deps[n] : f[d] < f[n]

-----------------------------------------------------------------------------
(* State *)

NoJob == 0
Ready == [kind |-> "", step |-> "ready", id |-> NoJob, ids |-> <<>>, said |-> "", alive |-> TRUE]
NoRequest == [at |-> "none", todo |-> <<>>, first |-> NoJob, held |-> FALSE]

States == {"PENDING", "RUNNING", "COMPLETED", "FAILED", "CANCELLED"}
Row == [by: Clients, stage: Stages \cup {""}, array: Nat, after: SUBSET Nat, held: BOOLEAN, state: States]
Command == [kind: {"array", "staged", "pipeline"}, id: Nat, ids: Seq(Nat), alive: BOOLEAN,
            step: {"ready", "submit", "upload", "saving", "release", "giveup", "over"},
            said: {"", "submitted", "refused", "held"}]
Wanted == [stage: Stages \cup {""}, after: SUBSET Nat]
Request == [at: {"none", "count", "insert", "link", "hold"}, first: Nat, held: BOOLEAN, todo: Seq(Wanted)]

\* Whatever names a job names one that was submitted.
SubmissionsTypeOK ==
  /\ rows \in Seq(Row) /\ cmd \in [Clients -> Command] /\ handler \in [Clients -> Request]
  /\ \A i \in Ids : rows[i].array \in Ids \cup {NoJob} /\ rows[i].after \subseteq Ids
  /\ \A c \in Clients :
       /\ cmd[c].id \in Ids \cup {NoJob} /\ Range(cmd[c].ids) \subseteq Ids
       /\ handler[c].first \in Ids \cup {NoJob}
       /\ \A k \in DOMAIN handler[c].todo : handler[c].todo[k].after \subseteq Ids
  /\ after \in Graphs /\ inputs \cup ran \subseteq Ids
  /\ over \in BOOLEAN /\ breaks \in 0..MaxBreaks

SubInit ==
  /\ rows = <<>> /\ handler = [c \in Clients |-> NoRequest]
  /\ cmd \in {[c \in Clients |-> [Ready EXCEPT !.kind = k[c]]] : k \in Commands}
  /\ after \in {g \in Pipelines : Parse(g)}
  /\ inputs = {} /\ ran = {} /\ over = FALSE /\ breaks = 0

-----------------------------------------------------------------------------
(* The submit handler *)

Submitting(c) == handler[c].at # "none"
Goes(c, at) == handler' = [handler EXCEPT ![c].at = at]

\* The request is over; `said` is what the client hears, if it is still there.
Answered(c, said, id) ==
  /\ handler' = [handler EXCEPT ![c] = NoRequest]
  /\ cmd' = IF ~cmd[c].alive THEN cmd
            ELSE [cmd EXCEPT ![c] =
              IF said # "submitted" THEN [@ EXCEPT !.step = "over", !.said = said]
              ELSE IF cmd[c].kind = "staged" THEN [@ EXCEPT !.step = "upload", !.id = id]
              ELSE IF cmd[c].kind = "pipeline" /\ Len(cmd[c].ids) + 1 < Len(StageNames)
                   THEN [@ EXCEPT !.step = "ready", !.ids = Append(cmd[c].ids, id)]
              ELSE [@ EXCEPT !.step = "over", !.said = said, !.id = id, !.ids = Append(cmd[c].ids, id)]]

\* Queued and running jobs, and those this would add.
CountQueued(c) ==
  /\ handler[c].at = "count"
  /\ IF Cardinality(Queued) + Len(handler[c].todo) > Limit
     THEN Answered(c, "refused", NoJob) /\ UNCHANGED over
     ELSE /\ Goes(c, "insert") /\ UNCHANGED cmd
          /\ over' = (over \/ \E d \in Clients \ {c} : handler[d].at \in {"insert", "link"})
  /\ UNCHANGED <<rows, after, inputs, ran, breaks>>

\* One row; the next statement, if any, is about it.
SubmitRow(c) ==
  /\ handler[c].at = "insert"
  /\ LET h == handler[c]
         i == Len(rows) + 1
     IN  /\ rows' = Append(rows, [by |-> c, stage |-> Head(h.todo).stage, array |-> 0,
                                  after |-> Head(h.todo).after, held |-> FALSE, state |-> "PENDING"])
         /\ IF cmd[c].kind = "array"
            THEN /\ handler' = [handler EXCEPT ![c].at = "link", ![c].todo = Tail(@),
                                               ![c].first = IF @ = NoJob THEN i ELSE @]
                 /\ UNCHANGED cmd
            ELSE IF h.held THEN handler' = [handler EXCEPT ![c].at = "hold", ![c].first = i] /\ UNCHANGED cmd
            ELSE Answered(c, "submitted", i)
  /\ UNCHANGED <<after, inputs, ran, over, breaks>>

SetArrayJob(c) ==
  /\ handler[c].at = "link"
  /\ \E i \in RowsOf(c) : /\ \A j \in RowsOf(c) : j <= i
                      /\ rows' = [rows EXCEPT ![i].array = handler[c].first]
  /\ IF handler[c].todo = <<>> THEN Answered(c, "submitted", handler[c].first)
     ELSE Goes(c, "insert") /\ UNCHANGED cmd
  /\ UNCHANGED <<after, inputs, ran, over, breaks>>

\* Only a pending job can be held; what comes of it is not looked at.
SetHeld(c) ==
  /\ handler[c].at = "hold"
  /\ LET i == handler[c].first
     IN  /\ rows' = [rows EXCEPT ![i].held = (@ \/ rows[i].state = "PENDING")]
         /\ Answered(c, "submitted", i)
  /\ UNCHANGED <<after, inputs, ran, over, breaks>>

\* The client has gone and its request is cancelled: the statement fails, and so do
\* the ones after it.
Cancelled(c) ==
  /\ Submitting(c) /\ ~cmd[c].alive
  /\ handler' = [handler EXCEPT ![c] = NoRequest]
  /\ UNCHANGED <<rows, cmd, after, inputs, ran, over, breaks>>

-----------------------------------------------------------------------------
(* The commands *)

Post(c, todo, held) ==
  /\ cmd[c].alive /\ cmd[c].step = "ready" /\ ~Submitting(c)
  /\ cmd' = [cmd EXCEPT ![c].step = "submit"]
  /\ handler' = [handler EXCEPT ![c] = [at |-> "count", todo |-> todo, first |-> NoJob, held |-> held]]
  /\ UNCHANGED <<rows, after, inputs, ran, over, breaks>>

Plain == [stage |-> "", after |-> {}]
sbatch(c) ==
  \/ cmd[c].kind = "array" /\ Post(c, [t \in 1..Tasks |-> Plain], FALSE)
  \/ cmd[c].kind = "staged" /\ Post(c, <<Plain>>, TRUE)

\* Stage by stage, each with the numbers of those before it; stops at a refusal.
runPipeline(c) ==
  LET order == Order(after)
      given == {order[k] : k \in 1..Len(cmd[c].ids)}
      ids == [n \in given |-> cmd[c].ids[CHOOSE k \in 1..Len(cmd[c].ids) : order[k] = n]]
      n == order[Len(cmd[c].ids) + 1]
  IN  /\ cmd[c].kind = "pipeline" /\ Len(cmd[c].ids) < Len(order)
      /\ Post(c, <<[stage |-> n, after |-> DependencyExpr(after, n, ids)]>>, FALSE)

Step(c, from, to) == cmd[c].alive /\ cmd[c].step = from /\ cmd' = [cmd EXCEPT ![c].step = to]

\* The archive is taken only while the job is pending.
uploadStageIn(c) ==
  /\ Step(c, "upload", IF rows[cmd[c].id].state = "PENDING" THEN "saving" ELSE "giveup")
  /\ UNCHANGED <<rows, handler, after, inputs, ran, over, breaks>>

\* In place all at once.
SaveStage(c) ==
  /\ Step(c, "saving", "release") /\ inputs' = inputs \cup {cmd[c].id}
  /\ UNCHANGED <<rows, handler, after, ran, over, breaks>>

UploadFails(c) ==
  /\ breaks < MaxBreaks /\ breaks' = breaks + 1 /\ Step(c, "saving", "giveup")
  /\ UNCHANGED <<rows, handler, after, inputs, ran, over>>

\* Without its inputs the job is cancelled; if it has ended there is nothing to cancel
\* and the command says it could not.
giveUp(c) ==
  LET i == cmd[c].id
  IN  /\ cmd[c].alive /\ cmd[c].step = "giveup"
      /\ cmd' = [cmd EXCEPT ![c].step = "over", ![c].said = IF i \in Queued THEN "refused" ELSE "held"]
      /\ rows' = [rows EXCEPT ![i].state = IF i \in Queued THEN "CANCELLED" ELSE @]
      /\ UNCHANGED <<handler, after, inputs, ran, over, breaks>>

\* Only a pending job can be released.
Release(c) ==
  LET i == cmd[c].id
      ok == rows[i].state = "PENDING"
  IN  /\ cmd[c].alive /\ cmd[c].step = "release"
      /\ rows' = [rows EXCEPT ![i].held = (@ /\ ~ok)]
      /\ cmd' = [cmd EXCEPT ![c].step = "over", ![c].said = IF ok THEN "submitted" ELSE "held"]
      /\ UNCHANGED <<handler, after, inputs, ran, over, breaks>>

-----------------------------------------------------------------------------
(* What becomes of the jobs *)

AllDone(i) == \A d \in rows[i].after : rows[d].state = "COMPLETED"
NeverMet(i) == \E d \in rows[i].after : rows[d].state \in {"FAILED", "CANCELLED"}
Staged(i) == cmd[rows[i].by].kind = "staged"

Place(i) ==
  /\ rows[i].state = "PENDING" /\ ~rows[i].held /\ ~NeverMet(i) /\ AllDone(i)
  /\ rows' = [rows EXCEPT ![i].state = "RUNNING"]
  /\ UNCHANGED <<cmd, handler, after, inputs, ran, over, breaks>>

\* Mutant: the job is deleted.
CancelDependentMutant(i) ==
  /\ rows[i].state = "PENDING" /\ ~rows[i].held /\ NeverMet(i)
  /\ rows' = RemoveAt(rows, i)
  /\ UNCHANGED <<cmd, handler, after, inputs, ran, over, breaks>>

CancelDependent(i) ==
  /\ rows[i].state = "PENDING" /\ ~rows[i].held /\ NeverMet(i)
  /\ rows' = [rows EXCEPT ![i].state = "CANCELLED"]
  /\ UNCHANGED <<cmd, handler, after, inputs, ran, over, breaks>>

\* The machine fetches the inputs first; without them the job fails and never ran.
Launch(i) ==
  /\ rows[i].state = "RUNNING"
  /\ IF Staged(i) /\ i \notin inputs
     THEN rows' = [rows EXCEPT ![i].state = "FAILED"] /\ UNCHANGED ran
     ELSE \E s \in {"COMPLETED", "FAILED"} : rows' = [rows EXCEPT ![i].state = s] /\ ran' = ran \cup {i}
  /\ UNCHANGED <<cmd, handler, after, inputs, over, breaks>>

ArrayTasks(i) == {j \in Ids : rows[j].array = i}

\* scancel with a number the user was told, or saw in squeue.
scancel(i) ==
  /\ breaks < MaxBreaks /\ breaks' = breaks + 1
  /\ LET these == IF ArrayTasks(i) = {} THEN {i} ELSE ArrayTasks(i)
     IN  /\ these \cap Queued # {}
         /\ rows' = [j \in Ids |-> IF j \in these \cap Queued THEN [rows[j] EXCEPT !.state = "CANCELLED"]
                                   ELSE rows[j]]
  /\ UNCHANGED <<cmd, handler, after, inputs, ran, over>>

\* Ctrl-C, or the ssh session is gone.
Interrupt(c) ==
  /\ breaks < MaxBreaks /\ breaks' = breaks + 1
  /\ cmd[c].alive /\ cmd[c].step # "over" /\ cmd' = [cmd EXCEPT ![c].alive = FALSE]
  /\ UNCHANGED <<rows, handler, after, inputs, ran, over>>

\* The requests are gone and the commands that waited for them end in an error.
Restart ==
  /\ breaks < MaxBreaks /\ breaks' = breaks + 1
  /\ handler' = [c \in Clients |-> NoRequest]
  /\ cmd' = [c \in Clients |-> IF cmd[c].step \in {"ready", "over"} THEN cmd[c] ELSE [cmd[c] EXCEPT !.alive = FALSE]]
  /\ UNCHANGED <<rows, after, inputs, ran, over>>

SubNext ==
  \/ \E c \in Clients :
       \/ CountQueued(c) \/ SubmitRow(c) \/ SetArrayJob(c) \/ SetHeld(c) \/ Cancelled(c)
       \/ sbatch(c) \/ runPipeline(c) \/ uploadStageIn(c) \/ SaveStage(c) \/ UploadFails(c)
       \/ giveUp(c) \/ Release(c) \/ Interrupt(c)
  \/ \E i \in Ids : Place(i) \/ CancelDependent(i) \/ Launch(i) \/ scancel(i)
  \/ Restart

SubSpec == SubInit /\ [][SubNext]_subVars

-----------------------------------------------------------------------------
(* Properties *)

\* The command line decides where the script says something else, except that
\* machines add up; an array is what its parts name and never too large; a pipeline
\* is refused exactly when no order of its stages would do.
Understood ==
  /\ \A line, script \in Given :
       LET o == Options(line, script)
       IN  /\ o.time = (IF line.time # "" THEN line.time ELSE script.time)
           /\ o.nodelist = line.nodelist \cup script.nodelist
  /\ \A p, q \in Parts :
       LET union == {i \in 0..5 : \E r \in {p, q} : i >= r.lo /\ i <= r.hi /\ (i - r.lo) % r.step = 0}
           down == \E r \in {p, q} : r.hi < r.lo
       IN  ParseArray({p, q}) = IF down \/ Cardinality(union) > MaxArrayTasks THEN Failed ELSE union
  /\ \A g \in Graphs : Parse(g) <=> Acyclic(g)

\* The account is never over its limit, unless two submissions were counted at once.
LimitHolds == over \/ Cardinality(Queued) <= Limit

\* An array that was announced is whole and one number stands for it.
ArrayIsWhole ==
  \A c \in Clients : cmd[c].kind = "array" /\ cmd[c].said = "submitted" =>
    Cardinality(RowsOf(c)) = Tasks /\ RowsOf(c) = ArrayTasks(cmd[c].id)

\* No stage runs unless every stage it comes after has completed.
StagesInOrder ==
  \A i \in ran : rows[i].stage # "" =>
    \A n \in after[rows[i].stage] :
      \E j \in RowsOf(rows[i].by) : rows[j].stage = n /\ rows[j].state = "COMPLETED"

\* A script with inputs runs with them, and a job that was announced is released:
\* a command that ends leaves no job of its own waiting to be found, unless it said
\* so.
InputsFirst ==
  /\ \A i \in ran : Staged(i) => i \in inputs
  /\ \A c \in Clients : cmd[c].kind = "staged" /\ cmd[c].step = "over" /\ cmd[c].said # "held" =>
       \A i \in RowsOf(c) : rows[i].state = "PENDING" => ~rows[i].held /\ i \in inputs

\* What was submitted is what was asked for.  (Understood does not change with the
\* state, and is asked before the first row.)
SubmittedAsAsked == (rows = <<>> => Understood) /\ LimitHolds /\ ArrayIsWhole /\ StagesInOrder /\ InputsFirst

=============================================================================
