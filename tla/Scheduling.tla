----------------------------- MODULE Scheduling -----------------------------
(***************************************************************************)
(* The scheduling pass (Controller.schedule): the queue in submission      *)
(* order, dependencies, the limits of accounts and of the cluster, the     *)
(* placement of aggregate requests and of single-node jobs, backfill.      *)
(* Submission is there with the checks it makes, and so are machines that  *)
(* are drained and come back.  A pass takes one job of its list at a time; *)
(* users submit, jobs end and machines change between its steps.           *)
(*                                                                         *)
(* How a placed job reaches its machine, and what may go wrong there, is   *)
(* in JobControl and GangJobs; here a placed job runs and ends.  Fair      *)
(* share is off, as it is by default: the queue is in submission order.    *)
(***************************************************************************)
EXTENDS Planner

CONSTANTS
  Users,
  Specs,         \* what users ask for
  Default,       \* per-account limits of the cluster's configuration
  Override,      \* per user: the limits an admin set for the account
  ClusterLimits, \* what all accounts together may have
  Depth,         \* reservations per pass
  MaxJobs,       \* bound: submissions
  MaxTime,       \* bound: the clock
  MaxFlips       \* bound: changes of a machine's state

VARIABLES
  jobs,   \* the jobs table, by id
  now,    \* the clock
  up,     \* nodes that are up
  flips,
  pass,   \* the pass under way
  backfill, \* whether the admin turned backfill on
  promise   \* history: what the last pass that found agreement reserved first, and for whom

vars == <<jobs, now, up, flips, pass, backfill, promise>>

\* What can be asked for: nothing below zero.  Limits are numbers; see Layered.
Requests ==
  [user: Users, want: Amounts, wall: Nat, total: Amounts, maxNodes: Nat,
   deps: SUBSET [type: {"afterany", "afterok", "afternotok"}, back: Nat],
   list: SUBSET STRING, match: SUBSET Fleet]
Limits == [running: Int, submitted: Int, wall: Int, use: Vectors, perJob: Vectors]

ASSUME SchedulingAssumption ==
  /\ Specs \subseteq Requests
  /\ Default \in Limits /\ ClusterLimits \in Limits /\ Override \in [Users -> Limits]

-----------------------------------------------------------------------------
(* Limits (internal/qos): -1 stands for no limit *)

\* A layer that says nothing about a limit leaves it to the next one.
Unset == -2
Pick(a, b) == IF b # Unset THEN b ELSE IF a # Unset THEN a ELSE -1

Layered(def, own) ==
  [running |-> Pick(def.running, own.running), submitted |-> Pick(def.submitted, own.submitted),
   wall |-> Pick(def.wall, own.wall),
   use |-> [k \in Kinds |-> Pick(def.use[k], own.use[k])],
   perJob |-> [k \in Kinds |-> Pick(def.perJob[k], own.perJob[k])]]

Effective(user) == Layered(Default, Override[user])
NoLimits == [running |-> Unset, submitted |-> Unset, wall |-> Unset,
             use |-> [k \in Kinds |-> Unset], perJob |-> [k \in Kinds |-> Unset]]
Cluster == Layered(NoLimits, ClusterLimits)

Exceeds(n, limit) == limit >= 0 /\ n > limit

\* Usage of running jobs: their number and what each asked for per node.
Running == {i \in DOMAIN jobs : jobs[i].state = "RUNNING"}
Active == {i \in DOMAIN jobs : jobs[i].state \in {"PENDING", "RUNNING"}}
Of(user) == {i \in DOMAIN jobs : jobs[i].spec.user = user}

UsageOf(ids) ==
  [jobs |-> Cardinality(ids),
   want |-> [k \in Kinds |-> SumFunction([i \in ids |-> jobs[i].spec.want[k]])]]

Adding(usage, spec) == [jobs |-> usage.jobs + 1, want |-> Plus(usage.want, spec.want)]

OverLimit(usage, limits) ==
  \/ Exceeds(usage.jobs, limits.running)
  \/ \E k \in Kinds : Exceeds(usage.want[k], limits.use[k])

\* CheckSubmit: the account's ceilings hold for aggregates too, the cluster's only
\* for what is asked of one node.
CheckSubmit(spec) ==
  LET mine == Effective(spec.user)
  IN  /\ \A k \in Kinds : /\ ~Exceeds(spec.want[k], mine.perJob[k])
                          /\ ~Exceeds(spec.total[k], mine.perJob[k])
                          /\ ~Exceeds(spec.want[k], Cluster.perJob[k])
      /\ \A e \in {mine, Cluster} : e.wall > 0 => spec.wall <= e.wall
      /\ ~Exceeds(Cardinality(Active) + 1, Cluster.submitted)
      /\ ~Exceeds(Cardinality(Active \cap Of(spec.user)) + 1, mine.submitted)

\* ApplyQoS: a job without a time limit gets the account's.
ApplyQoS(spec) ==
  LET wall == Effective(spec.user).wall
  IN  IF spec.wall = 0 /\ wall > 0 THEN [spec EXCEPT !.wall = wall] ELSE spec

\* ImpossibleRequest: names, constraint and each kind of resource are looked for
\* on any machine, registered ones that are down included.
Possible(spec) ==
  /\ spec.list = {} \/ spec.list \cap Fleet # {}
  /\ spec.match # {}
  /\ \A k \in Kinds : \E n \in Fleet : spec.want[k] <= Cap[n][k]

-----------------------------------------------------------------------------

\* todo: the jobs that are still to be looked at in this step, kept: those that stay
\* in the pass.  mine, all: the usage admission counts with, per account and in all.
\* live: the running jobs whose ends are looked at.  agreed: whether they are those
\* that were counted as used.  held: per node, when it is promised to a waiting job.
\* starts: what was decided, pairs <<job, node>>.  blocked: a job waits in front.
Idle == [step |-> "idle", todo |-> {}, kept |-> {}, used |-> [n \in Fleet |-> Zero],
         up |-> {}, mine |-> {}, all |-> [jobs |-> 0, want |-> Zero],
         live |-> {}, agreed |-> TRUE, held |-> [n \in Fleet |-> -1], first |-> 0, starts |-> {}, blocked |-> FALSE]

NoPromise == [id |-> 0, node |-> Head(NodeOrder), at |-> 0]

Init ==
  /\ jobs = <<>> /\ now = 1 /\ up = Fleet /\ flips = 0
  /\ pass = Idle /\ backfill \in BOOLEAN /\ promise = NoPromise

Terminal(s) == s \notin {"PENDING", "RUNNING"}
Ends(job) == IF job.spec.wall > 0 THEN job.since + job.spec.wall ELSE 0

\* A job waits, or runs on its nodes; a single-node job on one.
Waits(i) == jobs[i].state = "PENDING"
On(n) == {i \in Running : jobs[i].at = {n}}

-----------------------------------------------------------------------------
(* Users, machines, the clock.  What a pass does not read any more may as  *)
(* well happen after it: the queue and the machines' states are read at    *)
(* its beginning, the jobs' states not after BeginPlan.                    *)

\* A dependency names a job by how many submissions ago it was.
Submit(spec) ==
  /\ pass = Idle /\ Len(jobs) < MaxJobs
  /\ Possible(spec) /\ CheckSubmit(spec)
  /\ jobs' = Append(jobs, [spec |-> ApplyQoS(spec), state |-> "PENDING", at |-> {},
                           shares |-> <<>>, since |-> 0])
  /\ UNCHANGED <<now, up, flips, pass, backfill, promise>>

Cancel(i) ==
  /\ pass = Idle /\ Waits(i)
  /\ jobs' = [jobs EXCEPT ![i].state = "CANCELLED"]
  /\ UNCHANGED <<now, up, flips, pass, backfill, promise>>

End(i, s) ==
  /\ pass.step # "plan" /\ i \in Running
  /\ jobs' = [jobs EXCEPT ![i].state = s]
  /\ UNCHANGED <<now, up, flips, pass, backfill, promise>>

\* A machine is drained, or comes back.
Flip(n) ==
  /\ pass = Idle /\ flips < MaxFlips
  /\ up' = IF n \in up THEN up \ {n} ELSE up \cup {n}
  /\ flips' = flips + 1
  /\ promise' = NoPromise
  /\ UNCHANGED <<jobs, now, pass, backfill>>

\* The agent ends a job that is over its time limit.
Tick ==
  /\ pass = Idle /\ now < MaxTime
  /\ \A i \in Running : Ends(jobs[i]) = 0 \/ Ends(jobs[i]) > now
  /\ now' = now + 1
  /\ UNCHANGED <<jobs, up, flips, pass, backfill, promise>>

-----------------------------------------------------------------------------
(* The pass *)

Queue == {i \in DOMAIN jobs : Waits(i)}

\* NodeStates: what running single-node jobs occupy.  The node column of a job on
\* several nodes is no node's name.
Used == [n \in Fleet |-> [k \in Kinds |-> SumFunction([i \in On(n) |-> Charge(jobs[i].spec)[k]])]]

Begin ==
  /\ pass = Idle /\ Queue # {}
  /\ pass' = [Idle EXCEPT !.step = "deps", !.todo = Queue, !.used = Used, !.up = up]
  /\ UNCHANGED <<jobs, now, up, flips, backfill, promise>>

\* Jobs are looked at in the order in which they were submitted.
Foremost == Min(pass.todo)

\* The pass has looked at the foremost job, and keeps it or not.
Take(keep) ==
  [pass EXCEPT !.todo = @ \ {Foremost}, !.kept = IF keep THEN @ \cup {Foremost} ELSE @]

At(step) == pass.step = step /\ pass.todo # {}
Over(step) == pass.step = step /\ pass.todo = {}

Met(dep, i) ==
  /\ i - dep.back \in DOMAIN jobs
  /\ LET s == jobs[i - dep.back].state
     IN  /\ Terminal(s)
         /\ dep.type = "afterok" => s = "COMPLETED"
         /\ dep.type = "afternotok" => s # "COMPLETED"

\* It can never be met: the job it names is not there, or ended the wrong way.
Never(dep, i) ==
  \/ i - dep.back \notin DOMAIN jobs
  \/ Terminal(jobs[i - dep.back].state) /\ ~Met(dep, i)

\* Mutant: a prerequisite has only to have ended.
CheckDependenciesMutant ==
  /\ At("deps")
  /\ LET i == Foremost
     IN  pass' = Take(\A d \in jobs[i].spec.deps :
                              i - d.back \in DOMAIN jobs /\ Terminal(jobs[i - d.back].state))
  /\ UNCHANGED <<jobs, now, up, flips, backfill, promise>>

CheckDependencies ==
  /\ At("deps")
  /\ LET i == Foremost
         met == \A d \in jobs[i].spec.deps : Met(d, i)
         never == \E d \in jobs[i].spec.deps : Never(d, i)
     IN  /\ pass' = Take(met)
         /\ jobs' = IF ~met /\ never THEN [jobs EXCEPT ![i].state = "CANCELLED"] ELSE jobs
  /\ UNCHANGED <<now, up, flips, backfill, promise>>

\* admitForQoS reads the cluster's usage first ...
BeginAdmission ==
  /\ Over("deps")
  /\ pass' = [pass EXCEPT !.step = "qos", !.todo = pass.kept, !.kept = {}, !.all = UsageOf(Running)]
  /\ UNCHANGED <<jobs, now, up, flips, backfill, promise>>

\* Mutant: what this pass admits is not added to the account's usage.
AdmitMutant ==
  /\ At("qos")
  /\ LET spec == jobs[Foremost].spec
         all == Adding(pass.all, spec)
         ok == /\ ~OverLimit(Adding(UsageOf(Running \cap Of(spec.user)), spec), Effective(spec.user))
               /\ ~OverLimit(all, Cluster)
     IN  pass' = [Take(ok) EXCEPT !.all = IF ok THEN all ELSE @]
  /\ UNCHANGED <<jobs, now, up, flips, backfill, promise>>

\* ... and an account's when its first job comes up; both count what this pass
\* has admitted.
Admit ==
  /\ At("qos")
  /\ LET spec == jobs[Foremost].spec
         known == {m \in pass.mine : m.user = spec.user}
         usage == IF known = {} THEN UsageOf(Running \cap Of(spec.user))
                  ELSE (CHOOSE m \in known : TRUE).usage
         mine == Adding(usage, spec)
         all == Adding(pass.all, spec)
         ok == ~OverLimit(mine, Effective(spec.user)) /\ ~OverLimit(all, Cluster)
     IN  pass' = [Take(ok) EXCEPT
                    !.all = IF ok THEN all ELSE @,
                    !.mine = (@ \ known) \cup {[user |-> spec.user, usage |-> IF ok THEN mine ELSE usage]}]
  /\ UNCHANGED <<jobs, now, up, flips, backfill, promise>>

BeginGangs ==
  /\ Over("qos")
  /\ pass' = [pass EXCEPT !.step = "gangs", !.todo = pass.kept, !.kept = {}]
  /\ UNCHANGED <<jobs, now, up, flips, backfill, promise>>

Start(i, at, shares) ==
  [jobs EXCEPT ![i].state = "RUNNING", ![i].at = at, ![i].shares = shares, ![i].since = now]

\* Aggregate requests are served first, all or nothing, and what they take is
\* reserved for the rest of the pass.  They do not look at reservations.
PlaceGang ==
  /\ At("gangs")
  /\ LET i == Foremost
         spec == jobs[i].spec
         placements == SolveAggregate(spec, pass.used, pass.up)
     IN  \/ /\ ~Aggregated(spec)
            /\ pass' = Take(TRUE)
            /\ UNCHANGED <<jobs, promise>>
         \/ /\ Aggregated(spec) /\ placements = {}
            /\ pass' = Take(FALSE)
            /\ UNCHANGED <<jobs, promise>>
         \/ \E p \in placements :
              /\ Aggregated(spec)
              /\ jobs' = Start(i, p.nodes, p.shares)
              /\ pass' = [Take(FALSE) EXCEPT
                            !.used = [n \in Fleet |->
                               IF n \in p.nodes THEN Plus(@[n], p.shares[n]) ELSE @[n]]]
              /\ promise' = NoPromise
  /\ UNCHANGED <<now, up, flips, backfill>>

First == IF pass.kept = {} THEN 0 ELSE Min(pass.kept)

\* What runs where, as read before jobs are placed, some time after what is used.
\* The promise stands while its job is first in line.
BeginPlan ==
  /\ Over("gangs")
  /\ pass' = [pass EXCEPT !.step = "plan", !.todo = pass.kept, !.kept = {},
                          !.live = IF backfill THEN Running ELSE {},
                          !.agreed = pass.used = Used,
                          !.first = First]
  /\ promise' = IF First = promise.id THEN promise ELSE NoPromise
  /\ UNCHANGED <<jobs, now, up, flips, backfill>>

Live(n) == {[id |-> i, spec |-> jobs[i].spec, ends |-> Ends(jobs[i])] :
              i \in {r \in pass.live : jobs[r].at = {n}}}

Reservations == Cardinality({n \in Fleet : pass.held[n] # -1})

\* The reservation a job that cannot start gets, if any: pairs <<node, time>>.
Offer(spec) ==
  IF backfill /\ Reservations < Depth
  THEN Reservation(spec, pass.used, pass.held, pass.up, [n \in Fleet |-> Live(n)], now)
  ELSE {}

\* The job would still be there when the machine is promised to another.
Outlasts(spec, n) == n = promise.node /\ ~EndsBefore(spec, now, promise.at)

\* PlanWith, one job of the queue.
PlanJob ==
  /\ At("plan")
  /\ LET i == Foremost
         spec == jobs[i].spec
         room == PlaceFor(spec, pass.used, pass.held, pass.up, now)
     IN  \/ /\ pass.blocked
            /\ pass' = Take(FALSE)
            /\ UNCHANGED promise
         \/ \E n \in room :
              /\ ~pass.blocked
              /\ pass' = [Take(FALSE) EXCEPT !.used[n] = Plus(@, Charge(spec)), !.starts = @ \cup {<<i, n>>}]
              /\ promise' = IF i = promise.id \/ (~pass.agreed /\ Outlasts(spec, n))
                            THEN NoPromise ELSE promise
         \/ /\ ~pass.blocked /\ room = {} /\ Offer(spec) = {}
            /\ pass' = [Take(FALSE) EXCEPT !.blocked = ~backfill]
            /\ UNCHANGED promise
         \/ \E o \in Offer(spec) :
              /\ ~pass.blocked /\ room = {}
              /\ pass' = [Take(FALSE) EXCEPT !.held[o[1]] = o[2]]
              /\ promise' = IF i = pass.first /\ pass.agreed THEN [id |-> i, node |-> o[1], at |-> o[2]]
                            ELSE promise
  /\ UNCHANGED <<jobs, now, up, flips, backfill>>

\* The decisions are carried out in the order they were made: MarkRunning.
Carry ==
  /\ Over("plan")
  /\ \E d \in pass.starts :
       /\ \A e \in pass.starts : d[1] <= e[1]
       /\ jobs' = Start(d[1], {d[2]}, <<>>)
       /\ pass' = [pass EXCEPT !.starts = @ \ {d}]
  /\ UNCHANGED <<now, up, flips, backfill, promise>>

Done ==
  /\ Over("plan") /\ pass.starts = {}
  /\ pass' = Idle
  /\ UNCHANGED <<jobs, now, up, flips, backfill, promise>>

PassStep ==
  \/ Begin \/ CheckDependencies \/ BeginAdmission \/ Admit \/ BeginGangs \/ PlaceGang
  \/ BeginPlan \/ PlanJob \/ Carry \/ Done

Next ==
  \/ \E spec \in Specs : Submit(spec)
  \/ \E i \in DOMAIN jobs : Cancel(i) \/ \E s \in {"COMPLETED", "FAILED"} : End(i, s)
  \/ \E n \in Fleet : Flip(n)
  \/ Tick
  \/ PassStep

Spec == Init /\ [][Next]_vars

-----------------------------------------------------------------------------
(* Properties *)

Steps == {"idle", "deps", "qos", "gangs", "plan"}
JobStates == {"PENDING", "RUNNING", "COMPLETED", "FAILED", "CANCELLED"}

SchedTypeOK ==
  /\ \A i \in DOMAIN jobs : jobs[i].state \in JobStates /\ jobs[i].at \subseteq Fleet /\ jobs[i].since \in Nat
  /\ now \in Nat /\ up \in SUBSET Fleet /\ flips \in Nat /\ backfill \in BOOLEAN
  /\ pass.step \in Steps /\ pass.todo \cup pass.kept \subseteq DOMAIN jobs
  /\ pass.used \in [Fleet -> Vectors] /\ pass.held \in [Fleet -> Nat \cup {-1}]
  /\ pass.starts \subseteq (DOMAIN jobs) \X Fleet
  /\ promise \in [id: Nat, node: Fleet, at: Nat]

\* No machine is given more single-node work than it has room for, over any number
\* of passes and whatever ends, is drained or comes back in between (NodeStates,
\* PlanWith).
CapacityKept ==
  \A n \in Fleet, k \in Kinds :
    SumFunction([i \in {j \in On(n) : ~Aggregated(jobs[j].spec)} |-> Charge(jobs[i].spec)[k]])
      <= Cap[n][k]

\* What an account and the cluster have running stays within their limits, though
\* a pass admits many jobs on figures read before any of them runs (admitForQoS).
LimitsKept ==
  /\ \A u \in Users : ~OverLimit(UsageOf(Running \cap Of(u)), Effective(u))
  /\ ~OverLimit(UsageOf(Running), Cluster)

\* A gang gets exactly what was asked for in all, on no more machines than allowed,
\* and on none that it could do without as things are when it is placed
\* (SolveAggregate: "Fewest nodes first, deliberately"), if no machine is charged more
\* than it has, which single-node gangs can bring about: see NodeStates.
GangsAreWhole ==
  [][\A i \in DOMAIN jobs :
       LET job == jobs'[i]
           at == job.at
       IN  /\ Waits(i) /\ job.state = "RUNNING" /\ Aggregated(job.spec)
           /\ \A n \in pass.up : AtMost(pass.used[n], Cap[n])
           => /\ \A k \in Kinds : SumFunction([n \in at |-> job.shares[n][k]]) = job.spec.total[k]
              /\ job.spec.maxNodes > 0 => Cardinality(at) <= job.spec.maxNodes
              /\ \A n \in at : ~Covered(job.spec.total, at \ {n}, pass.used)]_vars

\* A job starts only when its prerequisites have ended as it asked (depsSatisfied),
\* however long after they were looked at it is started.
DependenciesKept ==
  [][\A i \in DOMAIN jobs :
       Waits(i) /\ jobs'[i].state = "RUNNING" => \A d \in jobs[i].spec.deps : Met(d, i)]_vars

\* What backfill starts early does not set back the job that is first in line: its
\* reservation never moves to a later time and is never lost, over any number of
\* passes that found what is used and what is running in agreement (PlanWith,
\* endsBefore: "the whole safety property of backfill").
HeadKeepsItsPlace ==
  [][\A i \in DOMAIN jobs :
       /\ At("plan") /\ pass # pass' /\ i = Foremost
       /\ i = pass.first /\ i = promise.id /\ pass.agreed
       => \/ \E d \in pass'.starts : d[1] = i
          \/ \E n \in Fleet : pass.held[n] = -1 /\ pass'.held[n] \in 0..promise.at]_vars

=============================================================================
