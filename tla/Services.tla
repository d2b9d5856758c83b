------------------------------ MODULE Services ------------------------------
(***************************************************************************)
(* Services: jobs the controller keeps running.  A pass lists the services *)
(* once, and then looks at each of them as it was in that list: a service  *)
(* that should run and whose job is over gets a new job, which is recorded *)
(* in a second statement.  Stopping and deleting a service are requests of *)
(* several statements, on the service as it was when the request read it.  *)
(*                                                                         *)
(* Time is counted in steps of the back-off (ten seconds in the code) and  *)
(* only as long as a back-off can last.                                    *)
(***************************************************************************)
EXTENDS Naturals, FiniteSets

CONSTANTS
  Services, SvcJobs,
  NoJob,
  MaxWait,     \* bound of the back-off, in steps (six in the code)
  MaxCalls,    \* bound: requests on services
  MaxCuts      \* bound: passes cut off by a restart

VARIABLES
  record,    \* services: there, desired, job, restarts, and the steps since the last start
  live,      \* jobs that are not over
  svcOf,     \* per job: the service it was submitted for, or NoJob
  listed,    \* the pass: the services still to look at, as they were listed
  fresh,     \* the pass: the job just submitted and not yet recorded, or NoJob
  call,      \* per service: the request under way, and the job it read
  stray,     \* history: jobs that a stop, a delete or a restart missed
  calls, cuts

svcVars == <<record, live, svcOf, listed, fresh, call, stray, calls, cuts>>

Absent == [there |-> FALSE, desired |-> "running", job |-> NoJob, restarts |-> 0, age |-> MaxWait]
NoCall == [do |-> "none", step |-> "idle", job |-> NoJob]

\* NoJob names no job.
ASSUME ServicesAssumption == NoJob \notin SvcJobs /\ MaxWait \in Nat

Record == [there: BOOLEAN, desired: {"running", "stopped"}, job: SvcJobs \cup {NoJob},
           restarts: 0..MaxWait, age: 0..MaxWait]

ServicesTypeOK ==
  /\ record \in [Services -> Record] /\ live \subseteq SvcJobs
  /\ svcOf \in [SvcJobs -> Services \cup {NoJob}]
  /\ DOMAIN listed \subseteq Services /\ \A s \in DOMAIN listed : listed[s] \in Record
  /\ fresh \in SvcJobs \cup {NoJob}
  /\ call \in [Services -> [do: {"none", "stop", "delete"},
                            step: {"idle", "set", "cancel", "remove"}, job: SvcJobs \cup {NoJob}]]
  /\ stray \subseteq SvcJobs /\ calls \in Nat /\ cuts \in Nat

Nothing == [s \in {} |-> Absent]

ServicesInit ==
  /\ record = [s \in Services |-> Absent] /\ live = {} /\ svcOf = [j \in SvcJobs |-> NoJob]
  /\ listed = Nothing /\ fresh = NoJob
  /\ call = [s \in Services |-> NoCall] /\ stray = {} /\ calls = 0 /\ cuts = 0

\* Identifiers are never used twice; a job that is over and that nothing names
\* any more gives its place to a new one.
Unused(j) ==
  /\ j \notin live /\ j # fresh
  /\ \A s \in Services : j \notin {record[s].job, call[s].job}
  /\ \A s \in DOMAIN listed : j # listed[s].job

Called == calls < MaxCalls /\ calls' = calls + 1

-----------------------------------------------------------------------------
(* The pass *)

Running(s) == record[s].there /\ record[s].desired = "running"

List ==
  /\ listed = Nothing /\ fresh = NoJob
  /\ \E s \in Services : record[s].there
  /\ listed' = [s \in {t \in Services : record[t].there} |-> record[s]]
  /\ UNCHANGED <<record, live, svcOf, fresh, call, stray, calls, cuts>>

\* Mutant: a service that was stopped is started too.
WantsJobMutant(svc) == svc.job \notin live /\ svc.age >= svc.restarts

\* Mutant: a service that had a job once is taken to have one.
WantsJobOnceMutant(svc) == svc.desired = "running" /\ svc.job = NoJob

\* A service that should run, whose job is over and whose back-off has passed.
WantsJob(svc) ==
  /\ svc.desired = "running"
  /\ svc.job \notin live
  /\ svc.age >= svc.restarts

Without(s) == [t \in DOMAIN listed \ {s} |-> listed[t]]

Skip(s) ==
  /\ fresh = NoJob /\ s \in DOMAIN listed /\ ~WantsJob(listed[s])
  /\ listed' = Without(s)
  /\ UNCHANGED <<record, live, svcOf, fresh, call, stray, calls, cuts>>

Submit(s, j) ==
  /\ fresh = NoJob /\ s \in DOMAIN listed /\ WantsJob(listed[s])
  /\ Unused(j)
  /\ live' = live \cup {j} /\ svcOf' = [svcOf EXCEPT ![j] = s]
  /\ fresh' = j /\ stray' = stray \ {j}
  /\ UNCHANGED <<record, listed, call, calls, cuts>>

\* The row is written by name, whatever has become of it since it was listed.
\* The job is missed by a stop or a delete that came in between, or that read the
\* service before.
SetServiceJob(s) ==
  /\ fresh # NoJob /\ svcOf[fresh] = s
  /\ record' = IF record[s].there
               THEN [record EXCEPT ![s].job = fresh, ![s].age = 0,
                       ![s].restarts = IF @ < MaxWait THEN @ + 1 ELSE @]
               ELSE record
  /\ LET missed == listed[s].desired = "running" /\ (~Running(s) \/ call[s] # NoCall)
     IN  stray' = IF missed THEN stray \cup {fresh} ELSE stray
  /\ fresh' = NoJob /\ listed' = Without(s)
  /\ UNCHANGED <<live, svcOf, call, calls, cuts>>

\* The controller restarts, or the statement that records the job fails.
CutOff ==
  /\ listed # Nothing /\ cuts < MaxCuts /\ cuts' = cuts + 1
  /\ listed' = Nothing /\ fresh' = NoJob
  /\ stray' = IF fresh = NoJob THEN stray ELSE stray \cup {fresh}
  /\ UNCHANGED <<record, live, svcOf, call, calls>>

-----------------------------------------------------------------------------
(* Requests *)

createService(s) ==
  /\ ~record[s].there /\ call[s] = NoCall /\ Called
  /\ record' = [record EXCEPT ![s] = [Absent EXCEPT !.there = TRUE]]
  /\ UNCHANGED <<live, svcOf, listed, fresh, call, stray, cuts>>

startService(s) ==
  /\ record[s].there /\ call[s] = NoCall /\ Called
  /\ record' = [record EXCEPT ![s].desired = "running"]
  /\ UNCHANGED <<live, svcOf, listed, fresh, call, stray, cuts>>

serviceForUser(s, do) ==
  /\ record[s].there /\ call[s] = NoCall /\ Called
  /\ call' = [call EXCEPT ![s] = [do |-> do, step |-> IF do = "stop" THEN "set" ELSE "cancel",
                                  job |-> record[s].job]]
  /\ UNCHANGED <<record, live, svcOf, listed, fresh, stray, cuts>>

SetServiceDesired(s) ==
  /\ call[s].step = "set"
  /\ record' = [record EXCEPT ![s].desired = "stopped"]
  /\ call' = [call EXCEPT ![s].step = "cancel"]
  /\ UNCHANGED <<live, svcOf, listed, fresh, stray, calls, cuts>>

\* A job that is over already is an error nobody looks at.
Cancel(s) ==
  /\ call[s].step = "cancel"
  /\ live' = live \ {call[s].job}
  /\ call' = [call EXCEPT ![s] = IF call[s].do = "stop" THEN NoCall
                                 ELSE [@ EXCEPT !.step = "remove"]]
  /\ UNCHANGED <<record, svcOf, listed, fresh, stray, calls, cuts>>

DeleteService(s) ==
  /\ call[s].step = "remove"
  /\ record' = [record EXCEPT ![s] = Absent]
  /\ call' = [call EXCEPT ![s] = NoCall]
  /\ UNCHANGED <<live, svcOf, listed, fresh, stray, calls, cuts>>

-----------------------------------------------------------------------------

\* A job of a service ends like any other job.
JobEnds(j) ==
  /\ j \in live /\ live' = live \ {j}
  /\ UNCHANGED <<record, svcOf, listed, fresh, call, stray, calls, cuts>>

Wait ==
  /\ \E s \in Services : record[s].there /\ record[s].age < MaxWait
  /\ record' = [s \in Services |-> IF record[s].there /\ record[s].age < MaxWait
                                   THEN [record[s] EXCEPT !.age = @ + 1] ELSE record[s]]
  /\ UNCHANGED <<live, svcOf, listed, fresh, call, stray, calls, cuts>>

reconcileServices ==
  \/ List
  \/ \E s \in Services : Skip(s) \/ SetServiceJob(s) \/ \E j \in SvcJobs : Submit(s, j)

CarryOn(s) == SetServiceDesired(s) \/ Cancel(s) \/ DeleteService(s)

serviceRequest(s) ==
  \/ createService(s) \/ startService(s)
  \/ \E do \in {"stop", "delete"} : serviceForUser(s, do)
  \/ CarryOn(s)

ServicesNext ==
  \/ reconcileServices \/ CutOff \/ Wait
  \/ \E s \in Services : serviceRequest(s)
  \/ \E j \in SvcJobs : JobEnds(j)

ServicesSpec == ServicesInit /\ [][ServicesNext]_svcVars

\* The controller's loop comes round every tick, time passes, and a request that
\* was begun is carried out.
ServicesFairSpec ==
  /\ ServicesSpec
  /\ WF_svcVars(reconcileServices) /\ WF_svcVars(Wait)
  /\ \A s \in Services : WF_svcVars(CarryOn(s))

-----------------------------------------------------------------------------
(* Properties *)

\* A job that was started for a service and is still live is the one the service's
\* record names, so that stopping the service stops it; but for a job just
\* submitted, one whose recording a restart cut off, one that a pass started from
\* a list older than the stop, and one recorded while a stop or a delete was
\* working from an older reading (deleteService: "deleting the record alone would
\* orphan it").  A stopped or deleted service therefore has no other live job.
NoJobLeftBehind ==
  \A j \in live \ (stray \cup {fresh}) :
    LET s == svcOf[j] IN record[s].there /\ record[s].job = j
                         /\ (Running(s) \/ call[s].do = "stop")

\* A service that should run and has no live job gets one again, or is stopped or
\* deleted, however often its job dies and whatever the pass was doing
\* (reconcileServices).
ServiceComesBack ==
  \A s \in Services : (Running(s) /\ record[s].job \notin live) ~>
                        (~Running(s) \/ \E j \in live : svcOf[j] = s)

=============================================================================
