----------------------------- MODULE MCCluster -----------------------------
(* The parts of the cluster that share no state with each other, one after   *)
(* the other: `part` says which of them this behaviour is about, and the     *)
(* variables of the others stay as they were at the beginning.               *)
EXTENDS Membership, OwnerPolicy, Accounts, Services, Transfers, Settings, Streams, Machine, Integers, Sequences, TLC

VARIABLE part

\* Membership: one machine that is invited twice.  Accounts: one person with one key,
\* two codes and one session.  Services: one service and three jobs for it.  Transfers:
\* two machines, the clock of one of them behind.  Settings: the four files, two admins.

\* OwnerPolicy: a job of each kind, two policies, weeks of three short days.
Window(days, allDay, start, end) == [days |-> days, allDay |-> allDay, start |-> start, end |-> end]
MCPolicies ==
  {[rules |-> {[on |-> "input", do |-> "throttle"], [on |-> "battery", do |-> "drain"]}, hours |-> {}],
   [rules |-> {[on |-> "battery", do |-> "suspend"]},
    hours |-> {Window({0}, FALSE, 2, 1), Window({2}, TRUE, 0, 0)}]}

\* Streams: one machine, which runs the job a second time.  Machine: one number that runs
\* twice, one login session.

-----------------------------------------------------------------------------

all == <<part, memberVars, ownerVars, accountVars, svcVars, xferVars, streamVars, machineVars, settingsVars>>

Init ==
  /\ part \in {"membership", "owner", "accounts", "services", "transfers",
             "streams", "machine", "settings"}
  /\ MemberInit /\ OwnerInit /\ AccountsInit
  /\ ServicesInit /\ TransfersInit /\ StreamsInit /\ MachineInit /\ SettingsInit
  /\ part = "settings" \/ kind = "qos"

Next ==
  \/ /\ part = "membership" /\ MemberNext
     /\ UNCHANGED <<part, ownerVars, accountVars, svcVars, xferVars, streamVars, machineVars, settingsVars>>
  \/ /\ part = "owner" /\ OwnerNext
     /\ UNCHANGED <<part, memberVars, accountVars, svcVars, xferVars, streamVars, machineVars, settingsVars>>
  \/ /\ part = "accounts" /\ AccountsNext
     /\ UNCHANGED <<part, memberVars, ownerVars, svcVars, xferVars, streamVars, machineVars, settingsVars>>
  \/ /\ part = "services" /\ ServicesNext
     /\ UNCHANGED <<part, memberVars, ownerVars, accountVars, xferVars, streamVars, machineVars, settingsVars>>
  \/ /\ part = "transfers" /\ TransfersNext
     /\ UNCHANGED <<part, memberVars, ownerVars, accountVars, svcVars, streamVars, machineVars, settingsVars>>
  \/ /\ part = "streams" /\ StreamsNext
     /\ UNCHANGED <<part, memberVars, ownerVars, accountVars, svcVars, xferVars, machineVars, settingsVars>>
  \/ /\ part = "machine" /\ MachineNext
     /\ UNCHANGED <<part, memberVars, ownerVars, accountVars, svcVars, xferVars, streamVars, settingsVars>>
  \/ /\ part = "settings" /\ SettingsNext
     /\ UNCHANGED <<part, memberVars, ownerVars, accountVars, svcVars, xferVars, streamVars, machineVars>>

Spec == Init /\ [][Next]_all

\* Each part keeps the fairness of its own specification.
FairSpec ==
  /\ Spec
  /\ \A m \in Machines :
       /\ WF_memberVars(part = "membership" /\ SendBeat(m))
       /\ WF_memberVars(part = "membership" /\ BeatStep(m))
       /\ WF_memberVars(part = "membership" /\ RemovalStep(m))
       /\ WF_memberVars(part = "membership" /\ MarkDown(m))
  /\ WF_ownerVars(part = "owner" /\ Tick)
  /\ \A s \in Sessions :
       /\ WF_accountVars(part = "accounts" /\ watchAuthorization(s))
       /\ WF_accountVars(part = "accounts" /\ cleanup(s))
       /\ WF_accountVars(part = "accounts" /\ CredentialExpires(s))
  /\ WF_svcVars(part = "services" /\ reconcileServices)
  /\ WF_svcVars(part = "services" /\ Wait)
  /\ \A s \in Services : WF_svcVars(part = "services" /\ CarryOn(s))
  /\ \A n \in Places :
       /\ WF_xferVars(part = "transfers" /\ perform(n))
       /\ WF_xferVars(part = "transfers" /\ HandleHeartbeat(n))
       /\ WF_xferVars(part = "transfers" /\ Heartbeat(n, TRUE))
       /\ WF_xferVars(part = "transfers" /\ CatchUp(n))
  /\ WF_streamVars(part = "streams" /\ Submitting)
  /\ WF_streamVars(part = "streams" /\ SessionPasses)
  /\ WF_streamVars(part = "streams" /\ Finishing)
  /\ WF_streamVars(part = "streams" /\ srunResize)
  /\ \A n \in Runners :
       /\ WF_streamVars(part = "streams" /\ Relaying(n))
       /\ WF_streamVars(part = "streams" /\ followSize(n))

-----------------------------------------------------------------------------
(* What is checked *)

ClusterTypeOK == MemberTypeOK /\ OwnerTypeOK
                 /\ AccountsTypeOK /\ ServicesTypeOK
                 /\ TransfersTypeOK /\ StreamsTypeOK
                 /\ MachineTypeOK /\ SettingsTypeOK

\* A machine that was removed stops taking part, and its owner's drain prevails (RemoveNode,
\* UpsertNode).
RemovalHolds == RemovedStops /\ OwnerPrevails

\* srun says of its job what became of it, its session ends, and the window keeps its size
\* (OrphanCode, FinishStream, SetStreamSize).
SessionsBehave == []SrunTellsTheTruth /\ SessionEnds /\ WindowFollows

=============================================================================
