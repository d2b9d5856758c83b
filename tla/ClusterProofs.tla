---------------------------- MODULE ClusterProofs ----------------------------
(***************************************************************************)
(* Proofs about the parts of the cluster that share no state: that a token *)
(* buys one identity and a removed machine stays out; that no edit of the  *)
(* owner's is missed and the jobs yield; that an account signed out        *)
(* everywhere stays out; that no job of a service is left behind by those  *)
(* who would stop it; that a setting, once accepted, stands.  Each for any *)
(* machines, policies, accounts, services, admins and bounds, after the    *)
(* types of its variables; and the types of all of them together.          *)
(***************************************************************************)
EXTENDS MCCluster, MachineProofs

(*-------------------------------------------------------------------------*)
(* Membership                                                              *)
(*-------------------------------------------------------------------------*)

(* Types *)

Beats == [step: {"idle", "check", "owner", "lift", "upsert", "queue", "reply"},
          says: {"run", "drain"}, known: BOOLEAN, stop: BOOLEAN]
Joins == [step: {"idle", "redeem", "unforget", "reply"}, tok: Tokens]

RowsTyped ==
  /\ row \in [Machines -> {"none", "UP", "DOWN", "DRAIN"}]
  /\ why \in [Machines -> {"nobody", "owner", "admin"}]

TokensTyped ==
  /\ token \in [Tokens -> {"none", "fresh", "used", "expired"}]
  /\ bought \in [Tokens -> Nat]

SetsTyped ==
  /\ forgotten \subseteq Machines /\ stops \subseteq Machines /\ silent \subseteq Machines
  /\ cert \subseteq Machines /\ agent \subseteq Machines /\ overtaken \subseteq Machines

BoundsTyped == admin \in Nat /\ owner \in Nat /\ mishaps \in Nat

MemberTyped ==
  /\ RowsTyped /\ TokensTyped /\ SetsTyped /\ BoundsTyped
  /\ beat \in [Machines -> Beats] /\ join \in [Machines -> Joins]
  /\ removal \in [Machines -> {"idle", "forget", "clear"}]
  /\ mind \in [Machines -> {"run", "drain"}]

LEMMA MemberTypedIsTypeOK == MemberTyped <=> MemberTypeOK
BY DEF MemberTyped, RowsTyped, TokensTyped, SetsTyped, BoundsTyped, MemberTypeOK, Beats, Joins

BeatSteps == {"idle", "check", "owner", "lift", "upsert", "queue", "reply"}

LEMMA BeatsTyped ==
  \* How a heartbeat goes on.
  /\ Quiet \in Beats /\ Quiet.step = "idle"
  /\ \A b \in Beats, x \in BeatSteps : [b EXCEPT !.step = x] \in Beats
  /\ \A b \in Beats : [b EXCEPT !.step = "reply", !.known = FALSE] \in Beats
  /\ \A b \in Beats, s \in BOOLEAN : [b EXCEPT !.step = "reply", !.stop = s] \in Beats
  /\ \A d \in {"run", "drain"} : [Quiet EXCEPT !.step = "check", !.says = d] \in Beats
BY DEF Beats, Quiet, BeatSteps

LEMMA JoinsTyped ==
  \* How a join goes on.
  /\ NoJoin \in Joins
  /\ \A j \in Joins, x \in {"idle", "redeem", "unforget", "reply"} : [j EXCEPT !.step = x] \in Joins
  /\ \A t \in Tokens : [step |-> "redeem", tok |-> t] \in Joins
  /\ \A j \in Joins : j.tok \in Tokens
<1>1. (CHOOSE t \in Tokens : TRUE) \in Tokens
  BY MemberAssumption
<1> QED  BY <1>1 DEF NoJoin, Joins

-----------------------------------------------------------------------------
(* The inductive invariant *)

TokensOnce ==
  \A t \in Tokens : bought[t] <= 1 /\ (token[t] \in {"none", "fresh"} => bought[t] = 0)

Past == {"owner", "lift", "upsert"}

\* Where a removal is on record or about to be, a row there is, or that a heartbeat
\* is about to make, is the doing of a heartbeat that was past its check.
Overtaken ==
  \A m \in Machines :
    (m \in forgotten \/ removal[m] = "forget") /\ (row[m] # "none" \/ beat[m].step \in Past)
      => m \in overtaken

MemberInv == MemberTyped /\ TokensOnce /\ Overtaken

LEMMA TokensKeep ==
  \* Tokens and joins.
  ASSUME MemberInv
  PROVE  /\ \A t \in Tokens : CreateJoinToken(t) \/ TokenExpires(t) => MemberInv'
         /\ \A m \in Machines : \A t \in Tokens : JoinAsk(m, t) => MemberInv'
         /\ \A m \in Machines : JoinStep(m) => MemberInv'
<1> USE DEF MemberInv
<1>1. ASSUME NEW t \in Tokens, CreateJoinToken(t) \/ TokenExpires(t) PROVE MemberInv'
  <2>1. UNCHANGED <<row, why, forgotten, memory, machine, bought, overtaken, admin, owner>>
    BY <1>1 DEF CreateJoinToken, TokenExpires
  <2>2. mishaps' \in Nat
    BY <1>1 DEF CreateJoinToken, TokenExpires, Mishap, MemberTyped, BoundsTyped
  <2>3. TokensTyped'
    BY <1>1, <2>1 DEF CreateJoinToken, TokenExpires, MemberTyped, TokensTyped
  <2>4. MemberTyped'
    BY <2>1, <2>2, <2>3 DEF memory, machine, MemberTyped, RowsTyped, SetsTyped, BoundsTyped
  <2>5. TokensOnce'
    BY <1>1, <2>1 DEF CreateJoinToken, TokenExpires, TokensOnce, MemberTyped, TokensTyped
  <2>6. Overtaken'
    BY <2>1 DEF memory, Overtaken
  <2> QED  BY <2>4, <2>5, <2>6
<1>2. ASSUME NEW m \in Machines, NEW t \in Tokens, JoinAsk(m, t) PROVE MemberInv'
  <2>1. UNCHANGED <<store, stops, beat, removal, silent, machine, bought, overtaken, admin, owner>>
    BY <1>2 DEF JoinAsk
  <2>2. mishaps' \in Nat
    BY <1>2 DEF JoinAsk, Mishap, MemberTyped, BoundsTyped
  <2>3. join' \in [Machines -> Joins]
    BY <1>2, JoinsTyped DEF JoinAsk, MemberTyped
  <2>4. MemberTyped'
    BY <2>1, <2>2, <2>3 DEF store, machine, MemberTyped, RowsTyped, TokensTyped, SetsTyped, BoundsTyped
  <2> QED  BY <2>1, <2>4 DEF store, TokensOnce, Overtaken
<1>3. ASSUME NEW m \in Machines, RedeemJoinToken(m) PROVE MemberInv'
  <2>1. UNCHANGED <<row, why, forgotten, stops, beat, removal, silent, machine, overtaken, admin, owner, mishaps>>
    BY <1>3 DEF RedeemJoinToken
  <2>2. join[m] \in Joins /\ join[m].tok \in Tokens
    BY JoinsTyped DEF MemberTyped
  <2>3. join' \in [Machines -> Joins]
    <3>1. [join[m] EXCEPT !.step = "unforget"] \in Joins
      BY <2>2, JoinsTyped
    <3> QED  BY <1>3, <3>1, JoinsTyped DEF RedeemJoinToken, MemberTyped
  <2>4. TokensTyped'
    BY <1>3, <2>2 DEF RedeemJoinToken, MemberTyped, TokensTyped
  <2>5. MemberTyped'
    BY <2>1, <2>3, <2>4 DEF machine, MemberTyped, RowsTyped, SetsTyped, BoundsTyped
  <2>6. TokensOnce'
    BY <1>3, <2>2 DEF RedeemJoinToken, TokensOnce, MemberTyped, TokensTyped
  <2>7. Overtaken'
    BY <2>1 DEF Overtaken
  <2> QED  BY <2>5, <2>6, <2>7
<1>4. ASSUME NEW m \in Machines, UnforgetNode(m) \/ Joined(m) PROVE MemberInv'
  <2>1. UNCHANGED <<token, row, why, stops, beat, removal, silent, mind, bought, overtaken, admin, owner>>
    BY <1>4 DEF UnforgetNode, Joined, store, machine
  <2>2. forgotten' \subseteq forgotten /\ mishaps' \in Nat /\ cert' \subseteq Machines /\ agent' \subseteq Machines
    BY <1>4 DEF UnforgetNode, Joined, store, machine, Mishap, MemberTyped, BoundsTyped, SetsTyped
  <2>3. join' \in [Machines -> Joins]
    <3>1. [join[m] EXCEPT !.step = "reply"] \in Joins
      BY JoinsTyped DEF MemberTyped
    <3> QED  BY <1>4, <3>1, JoinsTyped DEF UnforgetNode, Joined, MemberTyped
  <2>4. MemberTyped'
    BY <2>1, <2>2, <2>3 DEF MemberTyped, RowsTyped, TokensTyped, SetsTyped, BoundsTyped
  <2> QED  BY <2>1, <2>2, <2>4 DEF TokensOnce, Overtaken
<1> QED  BY <1>1, <1>2, <1>3, <1>4 DEF JoinStep

LEMMA AgentsKeep ==
  \* Agents, and what their owners decide.
  ASSUME MemberInv, NEW m \in Machines,
         StartAgent(m) \/ AgentDies(m) \/ Wipe(m) \/ OwnerDecides(m) \/ FindSilent(m)
  PROVE  MemberInv'
<1> USE DEF MemberInv
<1>1. UNCHANGED <<store, stops, beat, join, removal, bought, overtaken, admin>>
  BY DEF StartAgent, AgentDies, Wipe, OwnerDecides, FindSilent, memory
<1>2. cert' \subseteq Machines /\ agent' \subseteq Machines /\ silent' \subseteq Machines
  BY DEF StartAgent, AgentDies, Wipe, OwnerDecides, FindSilent, memory, machine, MemberTyped, SetsTyped
<1>3. owner' \in Nat /\ mishaps' \in Nat
  BY DEF StartAgent, AgentDies, Wipe, OwnerDecides, FindSilent, Mishap, MemberTyped, BoundsTyped
<1>4. mind' \in [Machines -> {"run", "drain"}]
  BY DEF StartAgent, AgentDies, Wipe, OwnerDecides, FindSilent, machine, MemberTyped
<1>5. MemberTyped'
  BY <1>1, <1>2, <1>3, <1>4 DEF store, MemberTyped, RowsTyped, TokensTyped, SetsTyped, BoundsTyped
<1> QED  BY <1>1, <1>5 DEF store, TokensOnce, Overtaken

LEMMA BeatSent ==
  \* A heartbeat leaves the agent.
  ASSUME MemberInv, NEW m \in Machines, SendBeat(m)
  PROVE  MemberInv'
<1> USE DEF MemberInv
<1>1. UNCHANGED <<row, why, stops, overtaken, Handler>>
  BY DEF SendBeat
<1>2. [Quiet EXCEPT !.step = "check", !.says = mind[m]] \in Beats
  BY BeatsTyped DEF MemberTyped
<1>3. beat' \in [Machines -> Beats]
  BY <1>2 DEF SendBeat, MemberTyped
<1>4. \A x \in Machines : beat'[x].step \in Past => beat'[x] = beat[x]
  BY DEF SendBeat, MemberTyped, Past, Quiet
<1>5. MemberTyped'
  BY <1>1, <1>3 DEF Handler, machine, MemberTyped, RowsTyped, TokensTyped, SetsTyped, BoundsTyped
<1> QED  BY <1>1, <1>4, <1>5 DEF Handler, TokensOnce, Overtaken

LEMMA BeatChecked ==
  \* The handler looks whether the machine was removed.
  ASSUME MemberInv, NEW m \in Machines, CheckForgotten(m)
  PROVE  MemberInv'
<1> USE DEF MemberInv
<1>1. UNCHANGED <<row, why, stops, Handler>>
  BY DEF CheckForgotten
<1>2. beat[m] \in Beats /\ BeatSteps = {"idle", "check", "owner", "lift", "upsert", "queue", "reply"}
  BY DEF MemberTyped, BeatSteps
<1>3. CASE m \in forgotten
  <2>1. beat' = [beat EXCEPT ![m] = [beat[m] EXCEPT !.step = "reply", !.known = FALSE]] /\ overtaken' = overtaken
    BY <1>3 DEF CheckForgotten
  <2>2. beat' \in [Machines -> Beats]
    BY <1>2, <2>1, BeatsTyped DEF MemberTyped
  <2>3. [beat[m] EXCEPT !.step = "reply", !.known = FALSE].step = "reply"
    BY <1>2 DEF Beats
  <2>4. \A x \in Machines : beat'[x].step \in Past => beat'[x] = beat[x]
    BY <2>1, <2>3 DEF MemberTyped, Past
  <2>5. MemberTyped'
    BY <1>1, <2>1, <2>2 DEF Handler, machine, MemberTyped, RowsTyped, TokensTyped, SetsTyped, BoundsTyped
  <2> QED  BY <1>1, <2>1, <2>4, <2>5 DEF Handler, TokensOnce, Overtaken
<1>4. CASE m \notin forgotten
  <2>1. beat' = [beat EXCEPT ![m] = [beat[m] EXCEPT !.step = "owner"]]
        /\ overtaken' = IF removal[m] = "forget" THEN overtaken \cup {m} ELSE overtaken
    BY <1>4 DEF CheckForgotten, Goes
  <2>2. beat' \in [Machines -> Beats]
    BY <1>2, <2>1, BeatsTyped DEF MemberTyped
  <2>3. \A x \in Machines : x # m => beat'[x] = beat[x]
    BY <2>1 DEF MemberTyped
  <2>4. MemberTyped'
    BY <1>1, <2>1, <2>2 DEF Handler, machine, MemberTyped, RowsTyped, TokensTyped, SetsTyped, BoundsTyped
  <2>5. TokensOnce'
    BY <1>1 DEF Handler, TokensOnce
  <2>6. Overtaken'
    BY <1>1, <1>4, <2>1, <2>3 DEF Handler, Overtaken
  <2> QED  BY <2>4, <2>5, <2>6
<1> QED  BY <1>3, <1>4

LEMMA BeatRecorded ==
  \* The owner's word, and the row.
  ASSUME MemberInv, NEW m \in Machines,
         OwnerDrains(m) \/ OwnerRuns(m) \/ Lift(m) \/ UpsertNode(m)
  PROVE  MemberInv'
<1> USE DEF MemberInv
<1>1. UNCHANGED <<stops, overtaken, Handler>> /\ beat[m].step \in Past
  BY DEF OwnerDrains, OwnerRuns, Lift, UpsertNode, Past
<1>2. \E x \in {"lift", "upsert", "queue"} : Goes(m, x)
  BY DEF OwnerDrains, OwnerRuns, Lift, UpsertNode
<1>3. RowsTyped' /\ \A x \in Machines : x # m => row'[x] = row[x]
  BY DEF OwnerDrains, OwnerRuns, Lift, UpsertNode, SetState, MemberTyped, RowsTyped
<1>4. beat' \in [Machines -> Beats] /\ \A x \in Machines : x # m => beat'[x] = beat[x]
  <2>1. PICK x \in {"lift", "upsert", "queue"} : beat' = [beat EXCEPT ![m] = [beat[m] EXCEPT !.step = x]]
    BY <1>2 DEF Goes
  <2>2. beat[m] \in Beats /\ x \in BeatSteps
    BY DEF MemberTyped, BeatSteps
  <2> QED  BY <2>1, <2>2, BeatsTyped DEF MemberTyped
<1>5. MemberTyped'
  BY <1>1, <1>3, <1>4 DEF Handler, machine, MemberTyped, TokensTyped, SetsTyped, BoundsTyped
<1> QED  BY <1>1, <1>3, <1>4, <1>5 DEF Handler, TokensOnce, Overtaken

LEMMA BeatAnswered ==
  \* The actions go out with the answer, and the agent acts on it.
  ASSUME MemberInv, NEW m \in Machines, TakeActions(m) \/ ReceiveReply(m)
  PROVE  MemberInv'
<1> USE DEF MemberInv
<1>1. UNCHANGED <<token, row, why, forgotten, join, removal, silent, cert, mind, bought, overtaken, admin, owner>>
  BY DEF TakeActions, ReceiveReply, Handler, store, machine
<1>2. stops' \subseteq Machines /\ agent' \subseteq Machines /\ mishaps' \in Nat
  BY DEF TakeActions, ReceiveReply, Handler, machine, Mishap, MemberTyped, SetsTyped, BoundsTyped
<1>3. beat[m] \in Beats /\ (m \in stops) \in BOOLEAN
  BY DEF MemberTyped
<1>4. \E b \in Beats : b.step \notin Past /\ beat' = [beat EXCEPT ![m] = b]
  <2>1. CASE TakeActions(m)
    <3>1. beat' = [beat EXCEPT ![m] = [beat[m] EXCEPT !.step = "reply", !.stop = m \in stops]]
      BY <2>1 DEF TakeActions
    <3>2. [beat[m] EXCEPT !.step = "reply", !.stop = m \in stops] \in Beats
      BY <1>3, BeatsTyped
    <3>3. [beat[m] EXCEPT !.step = "reply", !.stop = m \in stops].step = "reply"
      BY <1>3 DEF Beats
    <3> QED  BY <3>1, <3>2, <3>3 DEF Past
  <2>2. CASE ReceiveReply(m)
    BY <2>2, BeatsTyped DEF ReceiveReply, Past
  <2> QED  BY <2>1, <2>2
<1>5. beat' \in [Machines -> Beats] /\ \A x \in Machines : beat'[x].step \in Past => beat'[x] = beat[x]
  BY <1>4 DEF MemberTyped
<1>6. MemberTyped'
  BY <1>1, <1>2, <1>5 DEF MemberTyped, RowsTyped, TokensTyped, SetsTyped, BoundsTyped
<1> QED  BY <1>1, <1>5, <1>6 DEF TokensOnce, Overtaken

LEMMA AdminsKeep ==
  \* The tick marks a machine, an admin speaks of it.
  ASSUME MemberInv, NEW m \in Machines,
         MarkDown(m) \/ DrainNode(m) \/ ResumeNode(m) \/ StopNode(m)
  PROVE  MemberInv'
<1> USE DEF MemberInv
<1>1. UNCHANGED <<token, forgotten, beat, join, removal, machine, bought, overtaken, owner, mishaps>>
  BY DEF MarkDown, DrainNode, ResumeNode, StopNode, Request
<1>2. silent' \subseteq Machines /\ stops' \subseteq Machines /\ admin' \in Nat
  <2>1. CASE MarkDown(m)
    BY <2>1 DEF MarkDown, MemberTyped, SetsTyped, BoundsTyped
  <2>2. CASE DrainNode(m) \/ ResumeNode(m) \/ StopNode(m)
    <3>1. silent' = silent /\ stops' \subseteq stops \cup {m} /\ admin' = admin + 1
      BY <2>2 DEF DrainNode, ResumeNode, StopNode, Request, Admin, Asks
    <3> QED  BY <3>1 DEF MemberTyped, SetsTyped, BoundsTyped
  <2> QED  BY <2>1, <2>2
<1>3. RowsTyped'
  BY DEF MarkDown, DrainNode, ResumeNode, StopNode, SetState, MemberTyped, RowsTyped
<1>4. \A x \in Machines : row[x] = "none" => row'[x] = "none"
  BY DEF MarkDown, DrainNode, ResumeNode, StopNode, Admin, SetState, MemberTyped, RowsTyped
<1>5. MemberTyped'
  BY <1>1, <1>2, <1>3 DEF machine, MemberTyped, TokensTyped, SetsTyped, BoundsTyped
<1> QED  BY <1>1, <1>4, <1>5 DEF TokensOnce, Overtaken

LEMMA RemovalsKeep ==
  \* A machine is removed.
  ASSUME MemberInv, NEW m \in Machines, Remove(m) \/ RemovalStep(m)
  PROVE  MemberInv'
<1> USE DEF MemberInv
<1>1. UNCHANGED <<token, beat, join, silent, machine, bought, owner, mishaps>>
  BY DEF Remove, RemovalStep, ForgetNode, ClearActions, Request
<1>2. /\ forgotten' \subseteq Machines /\ stops' \subseteq Machines /\ overtaken' \subseteq Machines
      /\ admin' \in Nat /\ removal' \in [Machines -> {"idle", "forget", "clear"}] /\ RowsTyped'
  <2>1. CASE Remove(m)
    <3>1. /\ UNCHANGED <<forgotten, stops>> /\ overtaken' \subseteq overtaken \cup {m} /\ admin' = admin + 1
          /\ removal' = [removal EXCEPT ![m] = "forget"] /\ SetState(m, "none", "nobody")
      BY <2>1 DEF Remove, Admin, Asks
    <3>2. RowsTyped'
      BY <3>1 DEF SetState, MemberTyped, RowsTyped
    <3>3. admin' \in Nat
      BY <3>1 DEF MemberTyped, BoundsTyped
    <3> QED  BY <3>1, <3>2, <3>3 DEF MemberTyped, SetsTyped
  <2>2. CASE RemovalStep(m)
    <3>1. /\ UNCHANGED <<row, why, overtaken, admin>> /\ stops' \subseteq stops /\ forgotten' \subseteq forgotten \cup {m}
          /\ \E x \in {"clear", "idle"} : removal' = [removal EXCEPT ![m] = x]
      BY <2>2 DEF RemovalStep, ForgetNode, ClearActions
    <3> QED  BY <3>1 DEF MemberTyped, SetsTyped, BoundsTyped, RowsTyped
  <2> QED  BY <2>1, <2>2
<1>3. MemberTyped'
  BY <1>1, <1>2 DEF machine, MemberTyped, TokensTyped, SetsTyped, BoundsTyped
<1>4. TokensOnce'
  BY <1>1 DEF TokensOnce
<1>5. CASE Remove(m)
  <2>1. \A x \in Machines \ {m} : /\ row'[x] = row[x] /\ removal'[x] = removal[x]
                                 /\ (x \in overtaken => x \in overtaken')
    BY <1>5 DEF Remove, SetState, MemberTyped, RowsTyped
  <2>2. row'[m] = "none" /\ (beat[m].step \in Past => m \in overtaken') /\ UNCHANGED forgotten
    BY <1>5 DEF Remove, SetState, MemberTyped, RowsTyped, Past
  <2>3. Overtaken'
    BY <1>1, <2>1, <2>2 DEF Overtaken
  <2> QED  BY <1>3, <1>4, <2>3
<1>6. CASE ForgetNode(m) \/ ClearActions(m)
  <2>1. /\ \A x \in Machines : \/ x \in forgotten' \/ removal'[x] = "forget"
                              => \/ x \in forgotten \/ removal[x] = "forget"
        /\ UNCHANGED <<row, overtaken>>
    BY <1>6 DEF ForgetNode, ClearActions, MemberTyped
  <2>2. Overtaken'
    BY <1>1, <2>1 DEF Overtaken
  <2> QED  BY <1>3, <1>4, <2>2
<1> QED  BY <1>5, <1>6 DEF RemovalStep

LEMMA MemberStarts == MemberInit => MemberInv
<1> SUFFICES ASSUME MemberInit PROVE MemberInv
  OBVIOUS
<1>1. MemberTyped
  BY BeatsTyped, JoinsTyped DEF MemberInit, MemberTyped, RowsTyped, TokensTyped, SetsTyped, BoundsTyped
<1>2. TokensOnce
  BY DEF MemberInit, TokensOnce
<1>3. Overtaken
  BY BeatsTyped DEF MemberInit, Overtaken, Past
<1> QED  BY <1>1, <1>2, <1>3 DEF MemberInv

LEMMA MemberStep == MemberInv /\ [MemberNext]_memberVars => MemberInv'
<1> SUFFICES ASSUME MemberInv, [MemberNext]_memberVars PROVE MemberInv'
  OBVIOUS
<1>1. CASE UNCHANGED memberVars
  BY <1>1 DEF memberVars, store, memory, machine, MemberInv, MemberTyped, RowsTyped, TokensTyped, SetsTyped,
              BoundsTyped, TokensOnce, Overtaken
<1>2. ASSUME NEW m \in Machines, StartAgent(m) \/ AgentDies(m) \/ Wipe(m) \/ OwnerDecides(m) \/ FindSilent(m)
      PROVE  MemberInv'
  BY <1>2, AgentsKeep
<1>3. ASSUME NEW m \in Machines, SendBeat(m) \/ BeatStep(m) PROVE MemberInv'
  BY <1>3, BeatSent, BeatChecked, BeatRecorded, BeatAnswered DEF BeatStep
<1>4. ASSUME NEW m \in Machines, MarkDown(m) \/ AdminStep(m) \/ RemovalStep(m) PROVE MemberInv'
  BY <1>4, AdminsKeep, RemovalsKeep DEF AdminStep
<1> QED  BY <1>1, <1>2, <1>3, <1>4, TokensKeep DEF MemberNext

LEMMA MemberInvHolds == MemberSpec => []MemberInv
BY MemberStarts, MemberStep, PTL DEF MemberSpec

\* Every variable keeps its type.
THEOREM MemberTypeCorrect == MemberSpec => []MemberTypeOK
<1>1. MemberInv => MemberTypeOK
  BY MemberTypedIsTypeOK DEF MemberInv
<1> QED  BY <1>1, MemberInvHolds, PTL

\* A token lets one machine in, however many try it at once, and a removed machine is
\* brought back by no heartbeat but one that was past its check (RedeemJoinToken,
\* CheckForgotten, RemoveNode).
THEOREM JoinsHoldAlways == MemberSpec => []JoinsHold
<1>1. MemberInv => JoinsHold
  BY DEF MemberInv, MemberTyped, SetsTyped, TokensOnce, Overtaken, JoinsHold, TokenBuysOne, RemovedStaysOut
<1> QED  BY <1>1, MemberInvHolds, PTL

(*-------------------------------------------------------------------------*)
(* The owner's policy                                                      *)
(*-------------------------------------------------------------------------*)

(* Types *)

PolicyFiles == [there: BOOLEAN, says: Policies \cup {NoRules, Broken}, stamp: Nat]
Managers == [policy: Policies \cup {NoRules, NoPolicy}, at: Nat, invalid: BOOLEAN, blanked: BOOLEAN]
Evals == [step: {"stat", "read", "decide"}, at: Nat]

PolicyFileTyped ==
  /\ file \in PolicyFiles /\ edits \in Nat
  /\ writing \in Policies \cup {NoPolicy, Broken}
  /\ pause \in BOOLEAN

JobsTyped ==
  /\ proc \in [Jobs -> {"absent", "running", "stopped"}]
  /\ slow \subseteq Jobs

AgentTyped == mgr \in Managers /\ eval \in Evals /\ own \in Actions /\ JobsTyped

OwnerTyped == PolicyFileTyped /\ AgentTyped

LEMMA OwnerTypedIsTypeOK == OwnerTyped <=> OwnerTypeOK
BY DEF OwnerTyped, PolicyFileTyped, AgentTyped, JobsTyped, OwnerTypeOK, PolicyFiles, Managers, Evals

LEMMA ManagersTyped ==
  \* What becomes of the Manager's memory when the file is away or read.
  /\ \A m \in Managers :
       LET n == [m EXCEPT !.policy = NoPolicy, !.invalid = FALSE, !.blanked = TRUE]
       IN  n \in Managers /\ n.at = m.at /\ n.blanked = TRUE
  /\ \A p \in Policies \cup {NoRules}, at \in Nat :
       LET n == [policy |-> p, at |-> at, invalid |-> FALSE, blanked |-> FALSE]
       IN  n \in Managers /\ n.at = at /\ n.invalid = FALSE /\ n.policy = p
<1> USE DEF Managers
<1>1. ASSUME NEW m \in Managers
      PROVE  LET n == [m EXCEPT !.policy = NoPolicy, !.invalid = FALSE, !.blanked = TRUE]
             IN  n \in Managers /\ n.at = m.at /\ n.blanked = TRUE
  OBVIOUS
<1>2. ASSUME NEW p \in Policies \cup {NoRules}, NEW at \in Nat
      PROVE  LET n == [policy |-> p, at |-> at, invalid |-> FALSE, blanked |-> FALSE]
             IN  n \in Managers /\ n.at = at /\ n.invalid = FALSE /\ n.policy = p
  OBVIOUS
<1> QED  BY <1>1, <1>2

LEMMA EvalsTyped ==
  \* How the evaluation goes on.
  /\ \A e \in Evals, x \in {"stat", "decide"} :
       [e EXCEPT !.step = x] \in Evals /\ [e EXCEPT !.step = x].at = e.at
  /\ \A x \in {"read", "decide"}, at \in Nat : [step |-> x, at |-> at] \in Evals
BY DEF Evals

LEMMA Severities ==
  /\ severity("run") = 0 /\ severity("drain") = 1
  /\ severity("throttle") = 2 /\ severity("suspend") = 3
BY DEF severity

LEMMA DecideWorst ==
  \* Some action is the most severe of those that are considered.
  ASSUME NEW p \in Policies \cup {NoRules}, NEW sees, NEW t
  PROVE  /\ Considered(p, sees, t) \subseteq Actions
         /\ Decide(p, sees, t) \in Considered(p, sees, t)
         /\ \A b \in Considered(p, sees, t) : severity(b) <= severity(Decide(p, sees, t))
<1> DEFINE C == Considered(p, sees, t)
<1>1. p # NoPolicy /\ \A r \in p.rules : r.do \in Actions
  <2>1. CASE p = NoRules
    <3>1. NoRules # NoPolicy
      <4>1. NoRules.hours = {} /\ NoPolicy.hours = {"none"}
        BY DEF NoRules, NoPolicy
      <4> QED  BY <4>1
    <3> QED  BY <2>1, <3>1 DEF NoRules
  <2>2. CASE p \in Policies
    BY <2>2, OwnerAssumption
  <2> QED  BY <2>1, <2>2
<1>2. C \subseteq Actions /\ "run" \in C
  BY <1>1 DEF Considered, Actions
<1>3. \E a \in C : \A b \in C : severity(b) <= severity(a)
  <2> HIDE DEF C
  <2>1. CASE "suspend" \in C
    BY <1>2, <2>1, Severities DEF Actions
  <2>2. CASE "suspend" \notin C /\ "throttle" \in C
    BY <1>2, <2>2, Severities DEF Actions
  <2>3. CASE C \subseteq {"run", "drain"} /\ "drain" \in C
    BY <2>3, Severities
  <2>4. CASE C = {"run"}
    BY <2>4, Severities
  <2> QED  BY <1>2, <2>1, <2>2, <2>3, <2>4 DEF Actions
<1>4. Decide(p, sees, t) = CHOOSE a \in C : \A b \in C : severity(b) <= severity(a)
  BY <1>1 DEF Decide
<1> HIDE DEF C
<1>5. Decide(p, sees, t) \in C /\ \A b \in C : severity(b) <= severity(Decide(p, sees, t))
  BY <1>3, <1>4
<1> QED  BY <1>2, <1>5 DEF C

LEMMA DecideTyped ==
  ASSUME NEW p \in Policies \cup {NoRules, NoPolicy}, NEW sees, NEW t
  PROVE  Decide(p, sees, t) \in Actions
<1>1. CASE p = NoPolicy
  BY <1>1 DEF Decide, Actions
<1>2. CASE p # NoPolicy
  BY <1>2, DecideWorst
<1> QED  BY <1>1, <1>2

-----------------------------------------------------------------------------
(* The hours of the week *)

LEMMA DayAndTime ==
  \* A time of the week is a time of a day of the week.
  ASSUME NEW t \in Times
  PROVE  /\ t \div DayLen \in 0..(Days - 1) /\ t % DayLen \in 0..(DayLen - 1)
         /\ t = (t \div DayLen) * DayLen + (t % DayLen)
<1> DEFINE d == t \div DayLen
<1>1. t \in Nat /\ t < Days * DayLen /\ DayLen \in Nat \ {0} /\ Days \in Nat \ {0}
  BY OwnerAssumption DEF Times
<1>2. d \in Nat /\ t % DayLen \in 0..(DayLen - 1) /\ t = d * DayLen + (t % DayLen)
  BY <1>1
<1>3. d < Days
  <2> SUFFICES ASSUME d >= Days PROVE FALSE
    BY <1>1, <1>2
  <2>1. d * DayLen >= Days * DayLen
    BY <1>1, <1>2
  <2> QED  BY <1>1, <1>2, <2>1
<1> QED  BY <1>1, <1>2, <1>3

LEMMA OneDay ==
  \* Two days with the same time are the same day.
  ASSUME NEW L \in Nat \ {0}, NEW p \in Nat, NEW q \in Nat, NEW m \in 0..(L - 1), NEW n \in 0..(L - 1),
         p * L + m = q * L + n
  PROVE  p = q /\ m = n
<1>1. ASSUME NEW x \in Nat, NEW y \in Nat, NEW a \in 0..(L - 1), NEW b \in 0..(L - 1),
             x * L + a = y * L + b
      PROVE  ~(x < y)
  <2> SUFFICES ASSUME x < y PROVE FALSE
    OBVIOUS
  <2> DEFINE k == y - x - 1
  <2>1. k * L \in Nat /\ y * L = x * L + L + k * L
    OBVIOUS
  <2> HIDE DEF k
  <2> QED  BY <1>1, <2>1
<1>2. ~(p < q)
  BY <1>1
<1>3. ~(q < p)
  BY <1>1
<1> QED  BY <1>2, <1>3

LEMMA Lands ==
  \* The times of the week repeat after its last day.
  ASSUME NEW d \in 0..Days, NEW m \in 0..(DayLen - 1), NEW t \in Times
  PROVE  (d * DayLen + m) % (Days * DayLen) = t
           <=> t \div DayLen = (IF d = Days THEN 0 ELSE d) /\ t % DayLen = m
<1> DEFINE L == DayLen
           W == Days * DayLen
           e == IF d = Days THEN 0 ELSE d
<1>1. L \in Nat \ {0} /\ Days \in Nat \ {0} /\ W \in Nat \ {0}
  BY OwnerAssumption
<1>2. e \in 0..(Days - 1) /\ m < W /\ e * L + m \in 0..(W - 1)
  <2>1. e \in 0..(Days - 1)
    BY <1>1
  <2>2. (e + 1) * L <= Days * L /\ (e + 1) * L = e * L + L /\ e * L \in Nat
    BY <1>1, <2>1
  <2> QED  BY <1>1, <2>1, <2>2
<1>3. (d * L + m) % W = e * L + m
  <2>1. CASE d = Days
    <3>1. (1 * W + m) % W = m
      BY <1>1, <1>2
    <3> QED  BY <1>1, <2>1, <3>1
  <2>2. CASE d # Days
    <3>1. (0 * W + (e * L + m)) % W = e * L + m
      BY <1>1, <1>2
    <3>2. 0 * W + (e * L + m) = d * L + m
      BY <1>1, <1>2, <2>2
    <3> QED  BY <3>1, <3>2, <2>2
  <2> QED  BY <2>1, <2>2
<1>4. t \div L \in Nat /\ t % L \in 0..(L - 1) /\ t = (t \div L) * L + (t % L)
  BY DayAndTime
<1>5. e * L + m = t <=> t \div L = e /\ t % L = m
  <2>1. ASSUME e * L + m = t PROVE t \div L = e /\ t % L = m
    <3>1. e * L + m = (t \div L) * L + (t % L)
      BY <1>4, <2>1
    <3>2. e \in Nat
      BY <1>2
    <3> HIDE DEF e
    <3> QED  BY <1>1, <1>4, <3>1, <3>2, OneDay
  <2>2. ASSUME t \div L = e, t % L = m PROVE e * L + m = t
    BY <1>4, <2>2
  <2> QED  BY <2>1, <2>2
<1> QED  BY <1>3, <1>5

LEMMA ContainsIsOpen ==
  \* A time is in a window when the window has been opened and is still open.
  ASSUME NEW w \in Windows, NEW t \in Times
  PROVE  Contains(w, t) <=> Open(w, t)
<1> DEFINE L == DayLen
           day == t \div L
           mins == t % L
           s == IF w.allDay THEN 0 ELSE w.start
<1>1. L \in Nat \ {0} /\ Days \in Nat \ {0}
  BY OwnerAssumption
<1>2. day \in 0..(Days - 1) /\ mins \in 0..(L - 1)
  BY DayAndTime
<1>3. /\ w.days \subseteq 0..(Days - 1) /\ w.allDay \in BOOLEAN
      /\ w.start \in 0..(L - 1) /\ w.end \in 0..(L - 1) /\ s \in 0..(L - 1)
  BY <1>1 DEF Windows
<1>4. Open(w, t) <=> \E d \in w.days, k \in 0..L : k < StaysOpen(w) /\ (d * L + s + k) % (Days * L) = t
  BY DEF Open, OpenedAt
<1>5. ASSUME NEW d \in w.days, NEW k \in 0..L
      PROVE  /\ s + k < L => ((d * L + s + k) % (Days * L) = t <=> day = d /\ mins = s + k)
             /\ s + k >= L /\ s + k < 2 * L =>
                  ((d * L + s + k) % (Days * L) = t
                     <=> day = (IF d + 1 = Days THEN 0 ELSE d + 1) /\ mins = s + k - L)
  <2>1. d \in 0..(Days - 1) /\ d \in 0..Days /\ d + 1 \in 0..Days /\ d # Days
    BY <1>1, <1>3
  <2>2. ASSUME s + k < L PROVE (d * L + s + k) % (Days * L) = t <=> day = d /\ mins = s + k
    <3>1. s + k \in 0..(L - 1) /\ d * L + s + k = d * L + (s + k)
      BY <1>1, <1>3, <2>1, <2>2
    <3> QED  BY <2>1, <3>1, Lands
  <2>3. ASSUME s + k >= L, s + k < 2 * L
        PROVE  (d * L + s + k) % (Days * L) = t
                 <=> day = (IF d + 1 = Days THEN 0 ELSE d + 1) /\ mins = s + k - L
    <3>1. s + k - L \in 0..(L - 1) /\ d * L + s + k = (d + 1) * L + (s + k - L)
      BY <1>1, <1>3, <2>1, <2>3
    <3> QED  BY <2>1, <3>1, Lands
  <2> QED  BY <2>2, <2>3
<1>6. CASE w.allDay
  <2>1. Contains(w, t) <=> day \in w.days
    BY <1>6 DEF Contains
  <2>2. StaysOpen(w) = L /\ s = 0
    BY <1>6 DEF StaysOpen
  <2>3. ASSUME day \in w.days PROVE Open(w, t)
    BY <1>1, <1>2, <1>4, <1>5, <2>2, <2>3
  <2>4. ASSUME Open(w, t) PROVE day \in w.days
    BY <1>1, <1>2, <1>4, <1>5, <2>2, <2>4
  <2> QED  BY <2>1, <2>3, <2>4
<1>7. CASE ~w.allDay /\ w.start <= w.end
  <2>1. Contains(w, t) <=> day \in w.days /\ w.start <= mins /\ mins < w.end
    BY <1>7 DEF Contains
  <2>2. StaysOpen(w) = w.end - w.start /\ s = w.start
    <3>1. (1 * L + (w.end - w.start)) % L = w.end - w.start
      BY <1>1, <1>3, <1>7
    <3>2. 1 * L + (w.end - w.start) = w.end + L - w.start
      BY <1>1, <1>3
    <3> QED  BY <1>7, <3>1, <3>2 DEF StaysOpen
  <2>3. ASSUME day \in w.days, w.start <= mins, mins < w.end PROVE Open(w, t)
    <3>1. mins - w.start \in 0..L /\ mins - w.start < StaysOpen(w) /\ s + (mins - w.start) = mins
      BY <1>1, <1>2, <1>3, <2>2, <2>3
    <3> QED  BY <1>1, <1>2, <1>4, <1>5, <2>3, <3>1
  <2>4. ASSUME Open(w, t) PROVE day \in w.days /\ w.start <= mins /\ mins < w.end
    <3>1. PICK d \in w.days, k \in 0..L : k < StaysOpen(w) /\ (d * L + s + k) % (Days * L) = t
      BY <1>4, <2>4
    <3>2. s + k < L /\ s <= s + k /\ s + k < w.end
      BY <1>1, <1>3, <2>2, <3>1
    <3> QED  BY <1>5, <2>2, <3>1, <3>2
  <2> QED  BY <2>1, <2>3, <2>4
<1>8. CASE ~w.allDay /\ ~(w.start <= w.end)
  <2> DEFINE yesterday == (day + Days - 1) % Days
  <2>1. Contains(w, t) <=> \/ mins >= w.start /\ day \in w.days
                           \/ mins < w.start /\ mins < w.end /\ yesterday \in w.days
    BY <1>8 DEF Contains
  <2>2. StaysOpen(w) = w.end + L - w.start /\ s = w.start
    <3>1. (0 * L + (w.end + L - w.start)) % L = w.end + L - w.start
      BY <1>1, <1>3, <1>8
    <3> QED  BY <1>1, <1>3, <1>8, <3>1 DEF StaysOpen
  <2>3. yesterday \in 0..(Days - 1) /\ day = (IF yesterday + 1 = Days THEN 0 ELSE yesterday + 1)
    <3>1. CASE day = 0
      <4>1. (0 * Days + (Days - 1)) % Days = Days - 1
        BY <1>1
      <4> QED  BY <1>1, <3>1, <4>1
    <3>2. CASE day # 0
      <4>1. (1 * Days + (day - 1)) % Days = day - 1
        BY <1>1, <1>2, <3>2
      <4> QED  BY <1>1, <1>2, <3>2, <4>1
    <3> QED  BY <3>1, <3>2
  <2>4. ASSUME mins >= w.start, day \in w.days PROVE Open(w, t)
    <3>1. mins - w.start \in 0..L /\ mins - w.start < StaysOpen(w) /\ s + (mins - w.start) = mins
      BY <1>1, <1>2, <1>3, <1>8, <2>2, <2>4
    <3> QED  BY <1>1, <1>2, <1>4, <1>5, <2>4, <3>1
  <2>5. ASSUME mins < w.start, mins < w.end, yesterday \in w.days PROVE Open(w, t)
    <3> DEFINE k == mins + L - w.start
    <3>1. /\ k \in 0..L /\ k < StaysOpen(w) /\ s + k - L = mins
          /\ s + k >= L /\ s + k < 2 * L
      BY <1>1, <1>2, <1>3, <1>8, <2>2, <2>5
    <3> HIDE DEF k, yesterday, mins, day, s
    <3>2. (yesterday * L + s + k) % (Days * L) = t
      BY <1>5, <2>3, <2>5, <3>1
    <3> QED  BY <1>4, <2>5, <3>1, <3>2
  <2>6. ASSUME Open(w, t)
        PROVE  \/ mins >= w.start /\ day \in w.days
               \/ mins < w.start /\ mins < w.end /\ yesterday \in w.days
    <3>1. PICK d \in w.days, k \in 0..L : k < StaysOpen(w) /\ (d * L + s + k) % (Days * L) = t
      BY <1>4, <2>6
    <3>2. CASE s + k < L
      BY <1>1, <1>3, <1>5, <2>2, <3>1, <3>2
    <3>3. CASE s + k >= L
      <4>1. s + k < 2 * L /\ s + k - L < w.end
        BY <1>1, <1>3, <2>2, <3>1
      <4>2. day = (IF d + 1 = Days THEN 0 ELSE d + 1) /\ mins = s + k - L
        BY <1>5, <3>1, <3>3, <4>1
      <4>3. d = yesterday
        BY <1>1, <1>2, <1>3, <2>3, <4>2
      <4> QED  BY <1>1, <1>2, <1>3, <1>8, <4>1, <4>2, <4>3
    <3> QED  BY <1>1, <1>3, <3>2, <3>3
  <2> QED  BY <2>1, <2>4, <2>5, <2>6
<1> QED  BY <1>3, <1>6, <1>7, <1>8

-----------------------------------------------------------------------------
(* The inductive invariant *)

Loaded == IF file.says = Broken THEN mgr.invalid ELSE mgr.policy = file.says /\ ~mgr.invalid

\* The times that were seen are times the file has had, and what was loaded under
\* the time it has now is what it says now.
Remembers ==
  /\ mgr.at <= file.stamp /\ eval.at <= file.stamp
  /\ file.there => file.stamp > 0
  /\ file.stamp > 0 /\ mgr.at = file.stamp /\ ~mgr.blanked => Loaded

OwnerInv == OwnerTyped /\ Remembers /\ SuspendStops

LEMMA OwnersKeep ==
  \* What the owner does to the files.
  ASSUME OwnerInv,
         \/ \E p \in Policies \cup {Broken} : ReplaceFile(p) \/ SaveConfig(p)
         \/ FinishSave \/ MoveFile \/ Pause \/ Resume
  PROVE  OwnerInv'
<1> USE DEF OwnerInv
<1>1. ASSUME NEW p \in Policies \cup {NoRules, Broken}, Holds(p), UNCHANGED Agent,
             edits' \in Nat, writing' \in Policies \cup {NoPolicy, Broken}, UNCHANGED pause
      PROVE  OwnerInv'
  <2>1. file' \in PolicyFiles /\ file'.stamp = file.stamp + 1 /\ file.stamp \in Nat
    BY <1>1 DEF Holds, PolicyFiles, OwnerTyped, PolicyFileTyped
  <2>2. OwnerTyped'
    BY <1>1, <2>1 DEF Agent, OwnerTyped, PolicyFileTyped, AgentTyped, JobsTyped
  <2>3. mgr.at \in Nat /\ eval.at \in Nat
    BY DEF OwnerTyped, AgentTyped, Managers, Evals
  <2>4. Remembers'
    BY <1>1, <2>1, <2>3 DEF Agent, Remembers
  <2> QED  BY <1>1, <2>2, <2>4 DEF Agent, SuspendStops
<1>2. ASSUME NEW p \in Policies \cup {Broken}, ReplaceFile(p) \/ SaveConfig(p) PROVE OwnerInv'
  <2>1. edits' \in Nat /\ writing' \in Policies \cup {NoPolicy, Broken}
    BY <1>2 DEF ReplaceFile, SaveConfig, Edit, OwnerTyped, PolicyFileTyped
  <2>2. UNCHANGED <<Agent, pause>> /\ \E q \in Policies \cup {NoRules, Broken} : Holds(q)
    BY <1>2 DEF ReplaceFile, SaveConfig
  <2> QED  BY <1>1, <2>1, <2>2
<1>3. CASE FinishSave
  <2>1. edits' \in Nat /\ writing' \in Policies \cup {NoPolicy, Broken}
        /\ writing \in Policies \cup {NoRules, Broken}
    BY <1>3 DEF FinishSave, OwnerTyped, PolicyFileTyped
  <2> QED  BY <1>1, <1>3, <2>1 DEF FinishSave
<1>4. CASE MoveFile
  <2>1. file' \in PolicyFiles /\ file'.stamp = file.stamp /\ file'.says = file.says /\ file.stamp > 0
    BY <1>4 DEF MoveFile, PolicyFiles, OwnerTyped, PolicyFileTyped
  <2>2. OwnerTyped'
    BY <1>4, <2>1 DEF MoveFile, Edit, Agent, OwnerTyped, PolicyFileTyped, AgentTyped, JobsTyped
  <2>3. Remembers'
    BY <1>4, <2>1 DEF MoveFile, Agent, Remembers, Loaded
  <2> QED  BY <1>4, <2>2, <2>3 DEF MoveFile, Agent, SuspendStops
<1>5. CASE Pause \/ Resume
  <2>1. UNCHANGED <<file, writing, Agent>> /\ pause' \in BOOLEAN
    BY <1>5 DEF Pause, Resume
  <2>2. edits' \in Nat
    BY <1>5 DEF Pause, Resume, Edit, OwnerTyped, PolicyFileTyped
  <2>3. OwnerTyped'
    BY <2>1, <2>2 DEF Agent, OwnerTyped, PolicyFileTyped, AgentTyped, JobsTyped
  <2> QED  BY <2>1, <2>3 DEF Agent, Remembers, Loaded, SuspendStops
<1> QED  BY <1>2, <1>3, <1>4, <1>5

LEMMA LoadsKeep ==
  \* The loop looks at the file and reads it.
  ASSUME OwnerInv, Stat \/ ReadPolicy
  PROVE  OwnerInv'
<1> USE DEF OwnerInv
<1>1. /\ mgr \in Managers /\ eval \in Evals /\ file \in PolicyFiles
      /\ UNCHANGED <<file, writing, pause, edits, own, proc, slow>>
  BY DEF OwnerTyped, PolicyFileTyped, AgentTyped, Stat, ReadPolicy, files
<1>2. file.stamp \in Nat /\ eval.at \in Nat /\ mgr.at \in Nat
  BY <1>1 DEF PolicyFiles, Evals, Managers
<1>3. ASSUME mgr' \in Managers, eval' \in Evals, Remembers' PROVE OwnerInv'
  BY <1>1, <1>3 DEF OwnerTyped, PolicyFileTyped, AgentTyped, JobsTyped, SuspendStops
<1>4. CASE Stat /\ ~file.there
  <2>1. mgr' \in Managers /\ mgr'.at = mgr.at /\ mgr'.blanked = TRUE
    <3>1. mgr' = [mgr EXCEPT !.policy = NoPolicy, !.invalid = FALSE, !.blanked = TRUE]
      BY <1>4 DEF Stat
    <3> QED  BY ONLY <1>1, <3>1, ManagersTyped
  <2>2. eval' \in Evals /\ eval'.at = eval.at
    BY <1>1, <1>4, EvalsTyped DEF Stat
  <2>3. Remembers'
    BY <1>1, <1>2, <2>1, <2>2 DEF Remembers
  <2> QED  BY <1>3, <2>1, <2>2, <2>3
<1>5. CASE Stat /\ file.there
  <2>1. UNCHANGED mgr
    BY <1>5 DEF Stat
  <2>2. eval' \in Evals /\ eval'.at = file.stamp
    BY <1>1, <1>2, <1>5, EvalsTyped DEF Stat
  <2>3. Remembers'
    BY <1>1, <1>2, <2>1, <2>2 DEF Remembers, Loaded
  <2> QED  BY <1>1, <1>3, <2>1, <2>2, <2>3
<1>6. CASE ReadPolicy
  <2>1. eval' \in Evals /\ eval'.at = eval.at
    BY <1>1, <1>6, EvalsTyped DEF ReadPolicy
  <2>2. CASE ~file.there
    <3>1. UNCHANGED mgr
      BY <1>6, <2>2 DEF ReadPolicy
    <3>2. Remembers'
      BY <1>1, <1>2, <2>1, <3>1 DEF Remembers, Loaded
    <3> QED  BY <1>1, <1>3, <2>1, <3>1, <3>2
  <2>3. CASE file.there /\ file.says = Broken
    <3>1. mgr' \in Managers /\ mgr'.at = eval.at /\ mgr'.invalid = TRUE
      <4>1. mgr' = [mgr EXCEPT !.invalid = TRUE, !.at = eval.at, !.blanked = FALSE]
        BY <1>6, <2>3 DEF ReadPolicy
      <4> QED  BY ONLY <1>1, <1>2, <4>1 DEF Managers
    <3>2. Remembers'
      BY <1>1, <1>2, <2>1, <2>3, <3>1 DEF Remembers, Loaded
    <3> QED  BY <1>3, <2>1, <3>1, <3>2
  <2>4. CASE file.there /\ file.says # Broken
    <3>1. file.says \in Policies \cup {NoRules}
      BY <1>1, <2>4 DEF PolicyFiles
    <3>2. mgr' \in Managers /\ mgr'.at = eval.at /\ mgr'.invalid = FALSE /\ mgr'.policy = file.says
      <4>1. mgr' = [policy |-> file.says, at |-> eval.at, invalid |-> FALSE, blanked |-> FALSE]
        BY <1>6, <2>4 DEF ReadPolicy
      <4> QED  BY ONLY <1>2, <3>1, <4>1, ManagersTyped
    <3>3. Remembers'
      BY <1>1, <1>2, <2>1, <2>4, <3>2 DEF Remembers, Loaded
    <3> QED  BY <1>3, <2>1, <3>2, <3>3
  <2> QED  BY <2>2, <2>3, <2>4
<1> QED  BY <1>4, <1>5, <1>6

LEMMA DecisionsKeep ==
  \* The loop decides, and does it to the jobs.
  ASSUME OwnerInv, ApplyOwnerPolicy
  PROVE  OwnerInv'
<1> USE DEF OwnerInv
<1>1. eval' \in Evals /\ eval'.at = eval.at /\ UNCHANGED <<file, writing, pause, edits, mgr>>
  BY DEF ApplyOwnerPolicy, files, OwnerTyped, AgentTyped, Evals
<1>2. own' \in Actions
  <2>1. PICK sees \in Readings, t \in Times : own' = Evaluate(sees, t)
    BY DEF ApplyOwnerPolicy
  <2>2. mgr.policy \in Policies \cup {NoRules, NoPolicy}
    BY DEF OwnerTyped, AgentTyped, Managers
  <2>3. Decide(mgr.policy, sees, t) \in Actions
    BY <2>2, DecideTyped
  <2> QED  BY <2>1, <2>3 DEF Evaluate, Actions
<1>3. \/ UNCHANGED <<proc, slow>> /\ own' = own
      \/ Signal("stopped") /\ UNCHANGED slow
      \/ Signal("running") /\ Throttle(own' = "throttle") /\ own' # "suspend"
  BY DEF ApplyOwnerPolicy
<1>4. JobsTyped'
  BY <1>3 DEF Signal, Throttle, Signalled, Alive, OwnerTyped, AgentTyped, JobsTyped
<1>5. OwnerTyped'
  BY <1>1, <1>2, <1>4 DEF OwnerTyped, PolicyFileTyped, AgentTyped
<1>6. Remembers'
  BY <1>1 DEF Remembers, Loaded
<1>7. SuspendStops'
  <2>1. CASE Signal("stopped")
    BY <2>1 DEF Signal, Signalled, Alive, SuspendStops
  <2> QED  BY <1>3, <2>1 DEF SuspendStops
<1> QED  BY <1>5, <1>6, <1>7

LEMMA JobsKeep ==
  \* A job starts or ends.
  ASSUME OwnerInv, NEW j \in Jobs, Launch(j) \/ WorkEnds(j)
  PROVE  OwnerInv'
<1> USE DEF OwnerInv
<1>1. UNCHANGED <<file, writing, pause, edits, mgr, eval, own>>
  BY DEF Launch, WorkEnds, files
<1>2. JobsTyped'
  BY DEF Launch, WorkEnds, OwnerTyped, AgentTyped, JobsTyped
<1>3. OwnerTyped'
  BY <1>1, <1>2 DEF OwnerTyped, PolicyFileTyped, AgentTyped
<1>4. Remembers'
  BY <1>1 DEF Remembers, Loaded
<1>5. SuspendStops'
  <2>1. CASE Launch(j)
    BY <1>1, <2>1 DEF Launch, OwnerAllowsNewWork, SuspendStops
  <2>2. CASE WorkEnds(j)
    BY <1>1, <2>2 DEF WorkEnds, SuspendStops, OwnerTyped, AgentTyped, JobsTyped
  <2> QED  BY <2>1, <2>2
<1> QED  BY <1>3, <1>4, <1>5

LEMMA OwnerStarts == OwnerInit => OwnerInv
<1> SUFFICES ASSUME OwnerInit PROVE OwnerInv
  OBVIOUS
<1>1. PolicyFileTyped
  BY DEF OwnerInit, PolicyFileTyped, PolicyFiles
<1>2. AgentTyped
  BY DEF OwnerInit, AgentTyped, JobsTyped, Managers, Evals, Actions
<1> QED  BY <1>1, <1>2 DEF OwnerInit, OwnerInv, OwnerTyped, Remembers, SuspendStops

LEMMA OwnerStep == OwnerInv /\ [OwnerNext]_ownerVars => OwnerInv'
<1> SUFFICES ASSUME OwnerInv, [OwnerNext]_ownerVars PROVE OwnerInv'
  OBVIOUS
<1>1. CASE UNCHANGED ownerVars
  BY <1>1 DEF ownerVars, files, OwnerInv, OwnerTyped, PolicyFileTyped, AgentTyped, JobsTyped, Remembers, Loaded, SuspendStops
<1>2. CASE OwnerNext
  BY <1>2, OwnersKeep, LoadsKeep, DecisionsKeep, JobsKeep DEF OwnerNext
<1> QED  BY <1>1, <1>2

LEMMA OwnerInvHolds == OwnerSpec => []OwnerInv
BY OwnerStarts, OwnerStep, PTL DEF OwnerSpec

\* Every variable keeps its type.
THEOREM OwnerTypeCorrect == OwnerSpec => []OwnerTypeOK
<1>1. OwnerInv => OwnerTypeOK
  BY OwnerTypedIsTypeOK DEF OwnerInv
<1> QED  BY <1>1, OwnerInvHolds, PTL

\* Whatever falls between its Stat and its ReadFile the Manager holds what the file
\* says once it holds the file's time, and a suspension leaves no job running that
\* can be stopped (reloadPolicy, ApplyOwnerPolicy).
THEOREM JobsYieldHolds == OwnerSpec => []JobsYield
<1>1. OwnerInv => JobsYield
  BY DEF OwnerInv, Remembers, Loaded, JobsYield, NoEditMissed
<1> QED  BY <1>1, OwnerInvHolds, PTL

\* The machine works only while a window that was opened, the day before perhaps, is
\* still open and no rule in force says otherwise, and the most protective rule wins,
\* for any hours and a week of any length (Decide, window.contains).
THEOREM DecidesForTheOwnerHolds == OwnerSpec => []DecidesForTheOwner
<1>1. ASSUME OwnerInv PROVE DecidesForTheOwner
  <2> SUFFICES ASSUME mgr.policy # NoPolicy, NEW sees \in Readings, NEW t \in Times
               PROVE  LET d == Decide(mgr.policy, sees, t)
                          rules == {r.do : r \in {r \in mgr.policy.rules : r.on \in sees}}
                          closed == mgr.policy.hours # {} /\ \A w \in mgr.policy.hours : ~Open(w, t)
                      IN  /\ d = "suspend" <=> closed \/ "suspend" \in rules
                          /\ d = "throttle" => "throttle" \in rules
                          /\ d = "drain" => rules = {"drain"}
                          /\ d = "run" => rules = {}
    BY DEF DecidesForTheOwner
  <2> DEFINE p == mgr.policy
             d == Decide(p, sees, t)
             rules == {r.do : r \in {r \in p.rules : r.on \in sees}}
             closed == p.hours # {} /\ \A w \in p.hours : ~Open(w, t)
             C == Considered(p, sees, t)
  <2>1. p \in Policies \cup {NoRules}
    BY <1>1 DEF OwnerInv, OwnerTyped, AgentTyped, Managers
  <2>2. rules \subseteq {"drain", "throttle", "suspend"} /\ p.hours \subseteq Windows
    <3>1. CASE p = NoRules
      BY <3>1 DEF NoRules
    <3>2. CASE p \in Policies
      BY <3>2, OwnerAssumption DEF Actions
    <3> QED  BY <2>1, <3>1, <3>2
  <2>3. C = {"run"} \cup rules \cup (IF closed THEN {"suspend"} ELSE {})
    <3>1. inAnyWindow(p.hours, t) <=> \E w \in p.hours : Open(w, t)
      BY <2>2, ContainsIsOpen DEF inAnyWindow
    <3> QED  BY <3>1 DEF Considered
  <2>4. d \in C /\ \A b \in C : severity(b) <= severity(d)
    BY <2>1, DecideWorst
  <2> HIDE DEF p, d, rules, closed, C
  <2>5. d = "suspend" <=> closed \/ "suspend" \in rules
    <3>1. d = "suspend" => closed \/ "suspend" \in rules
      BY <2>3, <2>4
    <3>2. "suspend" \in C => severity("suspend") <= severity(d)
      BY <2>4
    <3>3. d \in {"run", "drain", "throttle", "suspend"}
      BY <2>2, <2>3, <2>4
    <3>4. "suspend" \in C => d = "suspend"
      BY <3>2, <3>3, Severities
    <3> QED  BY <2>3, <3>1, <3>4
  <2>6. d = "throttle" => "throttle" \in rules
    BY <2>3, <2>4
  <2>7. ASSUME d = "drain" PROVE rules = {"drain"}
    <3>1. "drain" \in rules
      BY <2>3, <2>4, <2>7
    <3>2. \A b \in rules : b = "drain"
      BY <2>2, <2>3, <2>4, <2>7, Severities
    <3> QED  BY <3>1, <3>2
  <2>8. d = "run" => rules = {}
    BY <2>2, <2>3, <2>4, Severities
  <2> QED  BY <2>5, <2>6, <2>7, <2>8 DEF p, d, rules, closed
<1> QED  BY <1>1, OwnerInvHolds, PTL

(*-------------------------------------------------------------------------*)
(* Accounts                                                                *)
(*-------------------------------------------------------------------------*)

(* Types *)

Steps == {"idle", "redeemed", "adding", "named", "accepted", "open", "closing"}
Conns == [step: Steps, user: Users \cup {Nobody}, key: Keys \cup {NoKey}]
Stages == {"idle", "keys", "codes", "tokens", "close"}
Requests == [step: Stages, what: {"none", "signout", "suspend", "delete"}, key: Keys \cup {NoKey}]
EnrollCodes == [state: {"none", "open", "spent"}, user: Users \cup {Nobody}]

StoreTyped ==
  /\ account \in [Users -> {"none", "active", "disabled"}]
  /\ keyOf \in [Keys -> Users \cup {Nobody}]
  /\ code \in [Codes -> EnrollCodes] /\ cred \in [Sessions -> Users \cup {Nobody}]

RestTyped ==
  /\ adding \in [Keys -> Users \cup {Nobody}]
  /\ out \subseteq Users /\ early \in [Users -> SUBSET Keys]
  /\ asked \in Nat /\ crashes \in Nat

AccountsTyped ==
  /\ StoreTyped /\ RestTyped
  /\ conn \in [Sessions -> Conns] /\ request \in [Users -> Requests]

LEMMA AccountsTypedIsTypeOK == AccountsTyped <=> AccountsTypeOK
BY DEF AccountsTyped, StoreTyped, RestTyped, AccountsTypeOK, Conns, Steps, Stages, Requests, EnrollCodes

LEMMA ConnsTyped ==
  \* A session is at a step, for an account, with a key.
  /\ Gone \in Conns
  /\ \A c \in Conns : /\ c.step \in Steps /\ c.user \in Users \cup {Nobody} /\ c.key \in Keys \cup {NoKey}
                      /\ \A x \in Steps : [c EXCEPT !.step = x] \in Conns
  /\ \A x \in Steps, v \in Users \cup {Nobody}, k \in Keys \cup {NoKey} :
       [step |-> x, user |-> v, key |-> k] \in Conns
<1>1. Gone \in Conns
  BY DEF Gone, Conns, Steps
<1>2. ASSUME NEW c \in Conns
      PROVE  /\ c.step \in Steps /\ c.user \in Users \cup {Nobody} /\ c.key \in Keys \cup {NoKey}
             /\ \A x \in Steps : [c EXCEPT !.step = x] \in Conns
  BY DEF Conns
<1> QED  BY <1>1, <1>2 DEF Conns

LEMMA RequestsTyped ==
  \* A request is at a stage, for something, about a key.
  /\ NoRequest \in Requests
  /\ \A r \in Requests, y \in Stages : [r EXCEPT !.step = y] \in Requests
  /\ \A y \in Stages, what \in {"signout", "suspend", "delete"}, k \in Keys \cup {NoKey} :
       [step |-> y, what |-> what, key |-> k] \in Requests
<1>1. NoRequest \in Requests
  BY DEF NoRequest, Requests, Stages
<1>2. ASSUME NEW r \in Requests, NEW y \in Stages PROVE [r EXCEPT !.step = y] \in Requests
  BY DEF Requests
<1> QED  BY <1>1, <1>2 DEF Requests

LEMMA ConnStepTyped ==
  \* A session goes on, comes or goes.
  ASSUME AccountsTyped, NEW s \in Sessions,
         \/ \E x \in Steps : To(s, x)
         \/ \E x \in Steps, v \in Users \cup {Nobody}, k \in Keys \cup {NoKey} : Comes(s, x, v, k)
         \/ conn' = [conn EXCEPT ![s] = Gone]
         \/ conn' = conn
  PROVE  conn' \in [Sessions -> Conns]
<1>1. conn[s] \in Conns
  BY DEF AccountsTyped
<1>2. CASE \E x \in Steps : To(s, x)
  <2>1. PICK x \in Steps : conn' = [conn EXCEPT ![s] = [conn[s] EXCEPT !.step = x]]
    BY <1>2 DEF To
  <2>2. [conn[s] EXCEPT !.step = x] \in Conns
    BY <1>1, ConnsTyped
  <2> QED  BY <2>1, <2>2 DEF AccountsTyped
<1>3. CASE \E x \in Steps, v \in Users \cup {Nobody}, k \in Keys \cup {NoKey} : Comes(s, x, v, k)
  BY <1>3, ConnsTyped DEF Comes, AccountsTyped
<1>4. CASE conn' = [conn EXCEPT ![s] = Gone] \/ conn' = conn
  BY <1>4, ConnsTyped DEF AccountsTyped
<1> QED  BY <1>2, <1>3, <1>4

LEMMA RequestStepTyped ==
  \* A request begins, goes on or ends.
  ASSUME AccountsTyped, NEW u \in Users,
         \/ \E y \in Stages : Step(u, y)
         \/ \E y \in Stages, what \in {"signout", "suspend", "delete"}, k \in Keys \cup {NoKey} :
              Begin(u, what, k, y)
         \/ End(u)
  PROVE  request' \in [Users -> Requests]
<1>1. request[u] \in Requests
  BY DEF AccountsTyped
<1>2. CASE \E y \in Stages : Step(u, y)
  <2>1. PICK y \in Stages : request' = [request EXCEPT ![u] = [request[u] EXCEPT !.step = y]]
    BY <1>2 DEF Step
  <2>2. [request[u] EXCEPT !.step = y] \in Requests
    BY <1>1, RequestsTyped
  <2> QED  BY <2>1, <2>2 DEF AccountsTyped
<1>3. CASE \E y \in Stages, what \in {"signout", "suspend", "delete"}, k \in Keys \cup {NoKey} :
             Begin(u, what, k, y)
  BY <1>3, RequestsTyped DEF Begin, AccountsTyped
<1>4. CASE End(u)
  BY <1>4, RequestsTyped DEF End, AccountsTyped
<1> QED  BY <1>2, <1>3, <1>4

LEMMA CodesTyped ==
  \* A code is made, redeemed, cancelled or expires.
  ASSUME AccountsTyped
  PROVE  /\ \A c \in Codes, u \in Users :
              [code EXCEPT ![c] = [state |-> "open", user |-> u]] \in [Codes -> EnrollCodes]
         /\ \A c \in Codes : [code EXCEPT ![c].state = "spent"] \in [Codes -> EnrollCodes]
         /\ \A u \in Users : [c \in Codes |-> IF code[c].user = u THEN [code[c] EXCEPT !.state = "spent"]
                                              ELSE code[c]] \in [Codes -> EnrollCodes]
<1>1. \A c \in Codes : code[c] \in EnrollCodes
  BY DEF AccountsTyped, StoreTyped
<1>2. \A r \in EnrollCodes : [r EXCEPT !.state = "spent"] \in EnrollCodes
  BY DEF EnrollCodes
<1>3. \A u \in Users : [state |-> "open", user |-> u] \in EnrollCodes
  BY DEF EnrollCodes
<1> QED  BY <1>1, <1>2, <1>3 DEF AccountsTyped, StoreTyped

-----------------------------------------------------------------------------
(* The inductive invariant *)

\* Whatever may still register a key for an account that is signed out was already
\* past its code when the codes were spent.
StayOut ==
  /\ \A s \in Sessions : conn[s].step = "redeemed" => conn[s].key \in Keys
  /\ \A u \in out :
       /\ \A k \in Keys : keyOf[k] = u \/ adding[k] = u => k \in early[u]
       /\ \A c \in Codes : code[c].user = u => code[c].state # "open"
       /\ \A s \in Sessions :
            conn[s].step = "redeemed" /\ conn[s].user = u => conn[s].key \in early[u]

AccountsInv == AccountsTyped /\ StayOut

LEMMA Untouched ==
  \* What changes nothing the invariant speaks of but the step of sessions, and
  \* redeems no code, keeps it.
  ASSUME StayOut, AccountsTyped, out' = out, early' = early, code' = code,
         \A k \in Keys : (keyOf'[k] = keyOf[k] \/ keyOf'[k] = Nobody)
                         /\ (adding'[k] = adding[k] \/ adding'[k] = Nobody),
         \A s \in Sessions : conn'[s].step = "redeemed" => conn'[s] = conn[s]
  PROVE  StayOut'
<1>1. Nobody \notin out
  BY AccountsAssumption DEF AccountsTyped, RestTyped
<1> QED  BY <1>1 DEF StayOut

LEMMA KeysAndCodesKeep ==
  \* Accounts, codes and keys.
  ASSUME AccountsInv, NEW u \in Users
  PROVE  /\ CreateUser(u) \/ Unquarantine(u) => AccountsInv'
         /\ \A c \in Codes : CreateEnrollCode(u, c) => AccountsInv'
         /\ \A k \in Keys : AddUserKey(u, k) => AccountsInv'
<1> USE DEF AccountsInv
<1>1. ASSUME CreateUser(u) \/ Unquarantine(u) PROVE AccountsInv'
  <2>1. AccountsTyped'
    BY <1>1 DEF CreateUser, Unquarantine, Asked, AccountsTyped, StoreTyped, RestTyped
  <2> QED  BY <1>1, <2>1 DEF CreateUser, Unquarantine, StayOut
<1>2. ASSUME NEW c \in Codes, CreateEnrollCode(u, c) PROVE AccountsInv'
  <2>1. code' \in [Codes -> EnrollCodes]
    BY <1>2, CodesTyped DEF CreateEnrollCode
  <2>2. AccountsTyped'
    BY <1>2, <2>1 DEF CreateEnrollCode, Asked, AccountsTyped, StoreTyped, RestTyped
  <2>3. \A d \in Codes : d # c => code'[d] = code[d]
    BY <1>2 DEF CreateEnrollCode, AccountsTyped, StoreTyped
  <2>4. code'[c].user = u /\ u \notin out'
    BY <1>2 DEF CreateEnrollCode, AccountsTyped, StoreTyped
  <2>5. StayOut'
    BY <1>2, <2>3, <2>4 DEF CreateEnrollCode, StayOut
  <2> QED  BY <2>2, <2>5
<1>3. ASSUME NEW k \in Keys, AddUserKey(u, k) PROVE AccountsInv'
  <2>1. AccountsTyped'
    BY <1>3 DEF AddUserKey, Asked, accountStore, AccountsTyped, StoreTyped, RestTyped
  <2>2. \A v \in out' : v \in out /\ v # u
    BY <1>3 DEF AddUserKey
  <2>3. \A x \in Keys : adding'[x] = adding[x] \/ adding'[x] = u
    BY <1>3 DEF AddUserKey, AccountsTyped, RestTyped
  <2>4. StayOut'
    BY <1>3, <2>2, <2>3 DEF AddUserKey, accountStore, StayOut
  <2> QED  BY <2>1, <2>4
<1> QED  BY <1>1, <1>2, <1>3

LEMMA CodeEndsKeeps ==
  \* A code expires or is cancelled.
  ASSUME AccountsInv, NEW c \in Codes, CodeEnds(c)
  PROVE  AccountsInv'
<1> USE DEF AccountsInv
<1>1. code' \in [Codes -> EnrollCodes]
  BY CodesTyped DEF CodeEnds
<1>2. AccountsTyped'
  BY <1>1 DEF CodeEnds, accountHistory, AccountsTyped, StoreTyped, RestTyped
<1>3. \A d \in Codes : d # c => code'[d] = code[d]
  BY DEF CodeEnds, AccountsTyped, StoreTyped
<1>4. code'[c].state = "spent"
  BY DEF CodeEnds, AccountsTyped, StoreTyped
<1>5. StayOut'
  BY <1>3, <1>4 DEF CodeEnds, accountHistory, StayOut
<1> QED  BY <1>2, <1>5

LEMMA RegistrationKeeps ==
  \* A key is registered, by its owner or with a code.
  ASSUME AccountsInv
  PROVE  /\ \A k \in Keys : InsertKey(k) => AccountsInv'
         /\ \A s \in Sessions : EnrollKey(s) => AccountsInv'
<1> USE DEF AccountsInv
<1>1. ASSUME NEW k \in Keys, InsertKey(k) PROVE AccountsInv'
  <2>1. \A s \in Sessions : /\ conn'[s] \in Conns
                            /\ conn'[s].step = "redeemed" => conn'[s] = conn[s]
    <3> SUFFICES ASSUME NEW s \in Sessions
                 PROVE  conn'[s] \in Conns /\ (conn'[s].step = "redeemed" => conn'[s] = conn[s])
      OBVIOUS
    <3>1. conn[s] \in Conns
      BY DEF AccountsTyped
    <3>2. \/ conn'[s] = conn[s] \/ conn'[s] = Gone
          \/ conn'[s] = [conn[s] EXCEPT !.step = "named"]
      BY <1>1 DEF InsertKey
    <3>3. Gone.step = "idle" /\ "named" \in Steps
      BY DEF Gone, Steps
    <3>4. [conn[s] EXCEPT !.step = "named"].step = "named"
      BY <3>1 DEF Conns
    <3> QED  BY <3>1, <3>2, <3>3, <3>4, ConnsTyped
  <2>2. conn' \in [Sessions -> Conns]
    BY <1>1, <2>1 DEF InsertKey
  <2>3. AccountsTyped'
    BY <1>1, <2>2 DEF InsertKey, accountHistory, AccountsTyped, StoreTyped, RestTyped
  <2>4. \A x \in Keys : /\ keyOf'[x] = keyOf[x] \/ keyOf'[x] = adding[x]
                        /\ adding'[x] = adding[x] \/ adding'[x] = Nobody
    BY <1>1 DEF InsertKey, AccountsTyped, StoreTyped, RestTyped
  <2>5. Nobody \notin out
    BY AccountsAssumption DEF AccountsTyped, RestTyped
  <2>6. StayOut'
    BY <1>1, <2>1, <2>4, <2>5 DEF InsertKey, accountHistory, StayOut
  <2> QED  BY <2>3, <2>6
<1>2. ASSUME NEW s \in Sessions, EnrollKey(s) PROVE AccountsInv'
  <2>1. conn[s] \in Conns /\ "adding" \in Steps
    BY DEF AccountsTyped, Steps
  <2>2. conn' \in [Sessions -> Conns]
    BY <1>2, <2>1, ConnStepTyped DEF EnrollKey
  <2>3. conn[s].user \in Users \cup {Nobody}
    BY <2>1, ConnsTyped
  <2>4. AccountsTyped'
    BY <1>2, <2>2, <2>3 DEF EnrollKey, accountStore, accountHistory, AccountsTyped, StoreTyped, RestTyped
  <2>5. \A t \in Sessions : t # s => conn'[t] = conn[t]
    BY <1>2 DEF EnrollKey, To, AccountsTyped
  <2>6. conn'[s].step # "redeemed"
    BY <1>2, <2>1 DEF EnrollKey, To, AccountsTyped, Conns, Gone
  <2>7. \A x \in Keys : \/ adding'[x] = adding[x]
                        \/ adding'[x] = conn[s].user /\ x = conn[s].key
    BY <1>2 DEF EnrollKey, AccountsTyped, RestTyped
  <2>8. conn[s].step = "redeemed"
    BY <1>2 DEF EnrollKey
  <2>9. StayOut'
    BY <1>2, <2>5, <2>6, <2>7, <2>8 DEF EnrollKey, accountStore, accountHistory, StayOut
  <2> QED  BY <2>4, <2>9
<1> QED  BY <1>1, <1>2

LEMMA LoginsKeep ==
  \* Logging in and out, and a restart.
  ASSUME AccountsInv, NEW s \in Sessions
  PROVE  /\ handle(s) => AccountsInv'
         /\ watchAuthorization(s) \/ CredentialExpires(s) => AccountsInv'
<1> USE DEF AccountsInv
<1>c. conn[s] \in Conns
  BY DEF AccountsTyped
<1>1. ASSUME NEW k \in Keys, authPublicKey(s, k) PROVE AccountsInv'
  <2>1. keyOf[k] \in Users \cup {Nobody} /\ "accepted" \in Steps
    BY DEF AccountsTyped, StoreTyped, Steps
  <2>2. conn' \in [Sessions -> Conns]
    BY <1>1, <2>1, ConnStepTyped DEF authPublicKey
  <2>3. AccountsTyped'
    BY <1>1, <2>2 DEF authPublicKey, accountStore, accountHistory, AccountsTyped, StoreTyped, RestTyped
  <2>4. \A t \in Sessions : conn'[t].step = "redeemed" => conn'[t] = conn[t]
    BY <1>1 DEF authPublicKey, Comes, AccountsTyped
  <2> QED  BY <1>1, <2>3, <2>4, Untouched DEF authPublicKey, accountStore, accountHistory
<1>2. ASSUME NEW u \in Users, authCertificate(s, u) PROVE AccountsInv'
  <2>1. u \in Users \cup {Nobody} /\ NoKey \in Keys \cup {NoKey} /\ "accepted" \in Steps
    BY DEF Steps
  <2>2. conn' \in [Sessions -> Conns]
    BY <1>2, <2>1, ConnStepTyped DEF authCertificate
  <2>3. AccountsTyped'
    BY <1>2, <2>2 DEF authCertificate, accountStore, accountHistory, AccountsTyped, StoreTyped, RestTyped
  <2>4. \A t \in Sessions : conn'[t].step = "redeemed" => conn'[t] = conn[t]
    BY <1>2 DEF authCertificate, Comes, AccountsTyped
  <2> QED  BY <1>2, <2>3, <2>4, Untouched DEF authCertificate, accountStore, accountHistory
<1>3. ASSUME NEW k \in Keys, NEW c \in Codes, RedeemEnrollCode(s, k, c) PROVE AccountsInv'
  <2>1. code[c].user \in Users \cup {Nobody} /\ "redeemed" \in Steps /\ code[c].state = "open"
    BY <1>3 DEF RedeemEnrollCode, AccountsTyped, StoreTyped, EnrollCodes, Steps
  <2>2. conn' \in [Sessions -> Conns]
    BY <1>3, <2>1, ConnStepTyped DEF RedeemEnrollCode
  <2>3. code' \in [Codes -> EnrollCodes]
    BY <1>3, CodesTyped DEF RedeemEnrollCode
  <2>4. AccountsTyped'
    BY <1>3, <2>2, <2>3 DEF RedeemEnrollCode, accountHistory, AccountsTyped, StoreTyped, RestTyped
  <2>5. code[c].user \notin out
    BY <2>1 DEF StayOut
  <2>6. \A t \in Sessions : conn'[t] = conn[t] \/ (conn'[t].user = code[c].user /\ conn'[t].key = k)
    BY <1>3 DEF RedeemEnrollCode, Comes, AccountsTyped
  <2>7. \A d \in Codes : code'[d] = code[d] \/ code'[d].state = "spent"
    BY <1>3 DEF RedeemEnrollCode, AccountsTyped, StoreTyped
  <2>8. StayOut'
    BY <1>3, <2>5, <2>6, <2>7 DEF RedeemEnrollCode, accountHistory, StayOut
  <2> QED  BY <2>4, <2>8
<1>4. ASSUME Enrolled(s) \/ Register(s) \/ watchAuthorization(s) \/ Leave(s) PROVE AccountsInv'
  <2>1. {"accepted", "open", "closing"} \subseteq Steps
    BY DEF Steps
  <2>2. (\E x \in {"accepted", "open", "closing"} : To(s, x)) \/ conn' = [conn EXCEPT ![s] = Gone]
    BY <1>4 DEF Enrolled, Register, watchAuthorization, Leave
  <2>3. conn' \in [Sessions -> Conns]
    BY <2>1, <2>2, ConnStepTyped
  <2>4. UNCHANGED <<accountStore, adding, request, accountHistory>>
    BY <1>4 DEF Enrolled, Register, watchAuthorization, Leave
  <2>5. AccountsTyped'
    BY <2>3, <2>4 DEF accountStore, accountHistory, AccountsTyped, StoreTyped, RestTyped
  <2>6. \A t \in Sessions : conn'[t].step = "redeemed" => conn'[t] = conn[t]
    BY <2>2, <1>c DEF To, Gone, AccountsTyped, Conns
  <2> QED  BY <2>4, <2>5, <2>6, Untouched DEF accountStore, accountHistory
<1>5. ASSUME StartShell(s) \/ cleanup(s) \/ CredentialExpires(s) PROVE AccountsInv'
  <2>1. conn' = conn \/ conn' = [conn EXCEPT ![s] = Gone]
    BY <1>5 DEF StartShell, cleanup, CredentialExpires
  <2>2. conn' \in [Sessions -> Conns]
    BY <2>1, ConnStepTyped
  <2>3. conn[s].user \in Users \cup {Nobody}
    BY <1>c, ConnsTyped
  <2>4. UNCHANGED <<account, keyOf, code, adding, request, accountHistory>>
    BY <1>5 DEF StartShell, cleanup, CredentialExpires
  <2>5. cred' \in [Sessions -> Users \cup {Nobody}]
    BY <1>5, <2>3 DEF StartShell, cleanup, CredentialExpires, AccountsTyped, StoreTyped
  <2>6. AccountsTyped'
    BY <2>2, <2>4, <2>5 DEF accountHistory, AccountsTyped, StoreTyped, RestTyped
  <2>7. \A t \in Sessions : conn'[t].step = "redeemed" => conn'[t] = conn[t]
    BY <2>1 DEF Gone, AccountsTyped
  <2> QED  BY <2>4, <2>6, <2>7, Untouched DEF accountHistory
<1>6. ASSUME EnrollKey(s) PROVE AccountsInv'
  BY <1>6, RegistrationKeeps
<1> QED  BY <1>1, <1>2, <1>3, <1>4, <1>5, <1>6 DEF handle, authEnroll

LEMMA SignOutsKeep ==
  \* The requests that withdraw access.
  ASSUME AccountsInv, NEW u \in Users
  PROVE  Unenroll(u) \/ quarantine(u) \/ delUser(u) => AccountsInv'
<1> USE DEF AccountsInv
<1>g. {"idle", "keys", "codes", "tokens", "close"} = Stages /\ NoKey \in Keys \cup {NoKey}
  BY DEF Stages
<1>1. ASSUME NEW k \in Keys \cup {NoKey}, SignOut(u, k) PROVE AccountsInv'
  <2>1. request' \in [Users -> Requests]
    BY <1>1, <1>g, RequestStepTyped DEF SignOut
  <2>2. AccountsTyped'
    BY <1>1, <2>1 DEF SignOut, Asked, AccountsTyped, StoreTyped, RestTyped
  <2> QED  BY <1>1, <2>2, Untouched DEF SignOut, Asked
<1>2. ASSUME InvalidateEnrollCodes(u) PROVE AccountsInv'
  <2>1. request' \in [Users -> Requests]
    BY <1>2, <1>g, RequestStepTyped DEF InvalidateEnrollCodes
  <2>2. code' \in [Codes -> EnrollCodes]
    BY <1>2, CodesTyped DEF InvalidateEnrollCodes
  <2>3. KeysOf(u) \cup Enrolling(u) \in SUBSET Keys
    BY DEF KeysOf, Enrolling
  <2>4. out' \subseteq Users /\ early' \in [Users -> SUBSET Keys]
    BY <1>2, <2>3 DEF InvalidateEnrollCodes, SignedOut, AccountsTyped, RestTyped
  <2>5. AccountsTyped'
    BY <1>2, <2>1, <2>2, <2>4 DEF InvalidateEnrollCodes, AccountsTyped, StoreTyped, RestTyped
  <2>6. \A c \in Codes : /\ code'[c].user = code[c].user
                         /\ code'[c] = code[c] \/ code'[c].state = "spent"
                         /\ code[c].user = u => code'[c].state = "spent"
    <3> SUFFICES ASSUME NEW c \in Codes
                 PROVE  /\ code'[c].user = code[c].user
                        /\ code'[c] = code[c] \/ code'[c].state = "spent"
                        /\ code[c].user = u => code'[c].state = "spent"
      OBVIOUS
    <3>1. code[c] \in EnrollCodes
      BY DEF AccountsTyped, StoreTyped
    <3>2. code'[c] = IF code[c].user = u THEN [code[c] EXCEPT !.state = "spent"] ELSE code[c]
      BY <1>2 DEF InvalidateEnrollCodes
    <3> QED  BY <3>1, <3>2 DEF EnrollCodes
  <2>7. \A v \in out' : v # u => v \in out /\ early'[v] = early[v]
    BY <1>2 DEF InvalidateEnrollCodes, SignedOut, AccountsTyped, RestTyped
  <2>8. u \in out' => \/ u \in out /\ early'[u] = early[u]
                     \/ early'[u] = KeysOf(u) \cup Enrolling(u)
    BY <1>2 DEF InvalidateEnrollCodes, SignedOut, AccountsTyped, RestTyped
  <2>9. UNCHANGED <<keyOf, adding, conn>>
    BY <1>2 DEF InvalidateEnrollCodes
  <2>10. ASSUME NEW v \in out', v # u
         PROVE  /\ \A k \in Keys : keyOf'[k] = v \/ adding'[k] = v => k \in early'[v]
                /\ \A c \in Codes : code'[c].user = v => code'[c].state # "open"
                /\ \A s \in Sessions : conn'[s].step = "redeemed" /\ conn'[s].user = v => conn'[s].key \in early'[v]
    BY <2>10, <2>6, <2>7, <2>9 DEF StayOut
  <2>11. ASSUME u \in out'
         PROVE  /\ \A k \in Keys : keyOf'[k] = u \/ adding'[k] = u => k \in early'[u]
                /\ \A c \in Codes : code'[c].user = u => code'[c].state # "open"
                /\ \A s \in Sessions : conn'[s].step = "redeemed" /\ conn'[s].user = u => conn'[s].key \in early'[u]
    <3>1. \A c \in Codes : code'[c].user = u => code'[c].state # "open"
      BY <2>6
    <3>2. CASE u \in out /\ early'[u] = early[u]
      BY <3>1, <3>2, <2>9 DEF StayOut
    <3>3. CASE early'[u] = KeysOf(u) \cup Enrolling(u)
      <4>1. \A s \in Sessions : conn[s].step = "redeemed" => conn[s].key \in Keys
        BY DEF StayOut
      <4> QED  BY <3>1, <3>3, <4>1, <2>9 DEF KeysOf, Enrolling
    <3> QED  BY <2>11, <2>8, <3>2, <3>3
  <2>12. StayOut'
    BY <2>9, <2>10, <2>11 DEF StayOut
  <2> QED  BY <2>5, <2>12
<1>3. ASSUME DeleteSessionTokensFor(u) PROVE AccountsInv'
  <2>1. request' \in [Users -> Requests]
    BY <1>3, <1>g, RequestStepTyped DEF DeleteSessionTokensFor
  <2>2. AccountsTyped'
    BY <1>3, <2>1 DEF DeleteSessionTokensFor, accountHistory, AccountsTyped, StoreTyped, RestTyped
  <2> QED  BY <1>3, <2>2, Untouched DEF DeleteSessionTokensFor, accountHistory
<1>4. ASSUME CloseSessionsFor(u) PROVE AccountsInv'
  <2>1. request' \in [Users -> Requests]
    BY <1>4, RequestStepTyped DEF CloseSessionsFor
  <2>2. \A s \in Sessions : /\ conn'[s] \in Conns
                            /\ conn'[s].step = "redeemed" => conn'[s] = conn[s]
    <3> SUFFICES ASSUME NEW s \in Sessions
                 PROVE  conn'[s] \in Conns /\ (conn'[s].step = "redeemed" => conn'[s] = conn[s])
      OBVIOUS
    <3>1. conn[s] \in Conns /\ "closing" \in Steps
      BY DEF AccountsTyped, Steps
    <3>2. conn'[s] = conn[s] \/ conn'[s] = [conn[s] EXCEPT !.step = "closing"]
      BY <1>4 DEF CloseSessionsFor
    <3>3. [conn[s] EXCEPT !.step = "closing"].step = "closing"
      BY <3>1 DEF Conns
    <3> QED  BY <3>1, <3>2, <3>3, ConnsTyped
  <2>3. conn' \in [Sessions -> Conns]
    BY <1>4, <2>2 DEF CloseSessionsFor
  <2>4. AccountsTyped'
    BY <1>4, <2>1, <2>3 DEF CloseSessionsFor, accountStore, accountHistory, AccountsTyped, StoreTyped, RestTyped
  <2> QED  BY <1>4, <2>2, <2>4, Untouched DEF CloseSessionsFor, accountStore, accountHistory
<1>5. ASSUME Quarantine(u) \/ DeleteUser(u) PROVE AccountsInv'
  <2>1. request' \in [Users -> Requests]
    BY <1>5, <1>g, RequestStepTyped DEF Quarantine, DeleteUser
  <2>2. account' \in [Users -> {"none", "active", "disabled"}] /\ asked' \in Nat
    BY <1>5 DEF Quarantine, DeleteUser, Asked, AccountsTyped, StoreTyped, RestTyped
  <2>3. UNCHANGED <<keyOf, code, cred, adding, conn, out, early, crashes>>
    BY <1>5 DEF Quarantine, DeleteUser
  <2>4. AccountsTyped'
    BY <2>1, <2>2, <2>3 DEF AccountsTyped, StoreTyped, RestTyped
  <2> QED  BY <2>3, <2>4, Untouched
<1>6. ASSUME DeleteUserKeys(u) \/ GiveUp(u) PROVE AccountsInv'
  <2>1. request' \in [Users -> Requests]
    BY <1>6, RequestStepTyped DEF DeleteUserKeys, GiveUp
  <2>2. UNCHANGED <<account, code, cred, adding, conn, accountHistory>>
    BY <1>6 DEF DeleteUserKeys, GiveUp, accountStore
  <2>3. \A k \in Keys : keyOf'[k] = keyOf[k] \/ keyOf'[k] = Nobody
    BY <1>6 DEF DeleteUserKeys, GiveUp, accountStore
  <2>4. keyOf' \in [Keys -> Users \cup {Nobody}]
    BY <1>6 DEF DeleteUserKeys, GiveUp, accountStore, AccountsTyped, StoreTyped
  <2>5. AccountsTyped'
    BY <2>1, <2>2, <2>4 DEF accountHistory, AccountsTyped, StoreTyped, RestTyped
  <2> QED  BY <2>2, <2>3, <2>5, Untouched DEF accountHistory
<1> QED
  BY <1>1, <1>2, <1>3, <1>4, <1>5, <1>6 DEF Unenroll, quarantine, delUser

LEMMA AccountsStarts == AccountsInit => AccountsInv
<1> SUFFICES ASSUME AccountsInit PROVE AccountsInv
  OBVIOUS
<1>1. AccountsTyped
  BY ConnsTyped, RequestsTyped DEF AccountsInit, AccountsTyped, StoreTyped, RestTyped, EnrollCodes
<1> QED  BY <1>1 DEF AccountsInit, AccountsInv, StayOut, Gone

LEMMA AccountsStep == AccountsInv /\ [AccountsNext]_accountVars => AccountsInv'
<1> SUFFICES ASSUME AccountsInv, [AccountsNext]_accountVars PROVE AccountsInv'
  OBVIOUS
<1>1. CASE UNCHANGED accountVars
  BY <1>1 DEF accountVars, accountStore, accountHistory, AccountsInv, AccountsTyped, StoreTyped, RestTyped, StayOut
<1>2. CASE Crash
  <2>1. AccountsTyped'
    BY <1>2, ConnsTyped, RequestsTyped DEF Crash, accountStore, AccountsInv, AccountsTyped, StoreTyped, RestTyped
  <2>2. Nobody \notin out
    BY AccountsAssumption DEF AccountsInv, AccountsTyped, RestTyped
  <2>3. \A s \in Sessions : conn'[s].step # "redeemed"
    BY <1>2 DEF Crash, Gone
  <2>4. StayOut'
    BY <1>2, <2>2, <2>3 DEF Crash, accountStore, AccountsInv, StayOut
  <2> QED  BY <2>1, <2>4 DEF AccountsInv
<1>3. ASSUME NEW u \in Users,
             \/ CreateUser(u) \/ Unquarantine(u) \/ Unenroll(u) \/ quarantine(u) \/ delUser(u)
             \/ \E c \in Codes : CreateEnrollCode(u, c)
             \/ \E k \in Keys : AddUserKey(u, k)
      PROVE  AccountsInv'
  BY <1>3, KeysAndCodesKeep, SignOutsKeep
<1>4. ASSUME NEW c \in Codes, CodeEnds(c) PROVE AccountsInv'
  BY <1>4, CodeEndsKeeps
<1>5. ASSUME NEW s \in Sessions, handle(s) \/ watchAuthorization(s) \/ CredentialExpires(s)
      PROVE  AccountsInv'
  BY <1>5, LoginsKeep
<1> QED  BY <1>1, <1>2, <1>3, <1>4, <1>5, RegistrationKeeps DEF AccountsNext

LEMMA AccountsInvHolds == AccountsSpec => []AccountsInv
BY AccountsStarts, AccountsStep, PTL DEF AccountsSpec

\* Every variable keeps its type.
THEOREM AccountsTypeCorrect == AccountsSpec => []AccountsTypeOK
<1>1. AccountsInv => AccountsTypeOK
  BY AccountsTypedIsTypeOK DEF AccountsInv
<1> QED  BY <1>1, AccountsInvHolds, PTL

\* No code of an account that was signed out everywhere is good, and no key of it is
\* registered but those past their code by then (Unenroll).
THEOREM SignOutHoldsAlways == AccountsSpec => []SignOutHolds
<1>1. AccountsInv => SignOutHolds
  BY DEF AccountsInv, StayOut, SignOutHolds, KeysOf
<1> QED  BY <1>1, AccountsInvHolds, PTL

(*-------------------------------------------------------------------------*)
(* Services                                                                *)
(*-------------------------------------------------------------------------*)

LEMMA RecordsWritten ==
  \* The fields the operations write keep the type of a record.
  ASSUME NEW r \in Record, NEW j \in SvcJobs \cup {NoJob}
  PROVE  /\ Absent \in Record /\ [Absent EXCEPT !.there = TRUE] \in Record
         /\ [r EXCEPT !.desired = "running"] \in Record
         /\ [r EXCEPT !.desired = "stopped"] \in Record
         /\ [r EXCEPT !.job = j, !.age = 0,
               !.restarts = IF @ < MaxWait THEN @ + 1 ELSE @] \in Record
         /\ r.age < MaxWait => [r EXCEPT !.age = @ + 1] \in Record
<1>0. 0 \in 0..MaxWait /\ MaxWait \in 0..MaxWait
  BY ServicesAssumption
<1>1. Absent \in Record /\ [Absent EXCEPT !.there = TRUE] \in Record
  <2>1. Absent \in Record
    BY <1>0 DEF Record, Absent
  <2>2. [Absent EXCEPT !.there = TRUE] \in Record
    BY <2>1 DEF Record
  <2> QED  BY <2>1, <2>2
<1>2. [r EXCEPT !.desired = "running"] \in Record /\ [r EXCEPT !.desired = "stopped"] \in Record
  BY DEF Record
<1>3. r.age < MaxWait => [r EXCEPT !.age = @ + 1] \in Record
  BY ServicesAssumption DEF Record
<1>4. 0 \in 0..MaxWait /\ (IF r.restarts < MaxWait THEN r.restarts + 1 ELSE r.restarts) \in 0..MaxWait
  BY ServicesAssumption DEF Record
<1>5. [r EXCEPT !.job = j, !.age = 0,
         !.restarts = IF @ < MaxWait THEN @ + 1 ELSE @] \in Record
  BY <1>4 DEF Record
<1> QED  BY <1>1, <1>2, <1>3, <1>5

-----------------------------------------------------------------------------
(* Types *)

LEMMA TypesKept ==
  \* Every step keeps every variable's type.
  ASSUME ServicesTypeOK, [ServicesNext]_svcVars
  PROVE  ServicesTypeOK'
<1> USE DEF ServicesTypeOK
<1>1. CASE UNCHANGED svcVars
  BY <1>1 DEF svcVars
<1>2. CASE List
  BY <1>2 DEF List
<1>3. ASSUME NEW s \in Services, Skip(s) PROVE ServicesTypeOK'
  BY <1>3 DEF Skip, Without
<1>4. ASSUME NEW s \in Services, SetServiceJob(s) PROVE ServicesTypeOK'
  <2>1. record' \in [Services -> Record]
    BY <1>4, RecordsWritten, ZenonT(60) DEF SetServiceJob
  <2> QED  BY <1>4, <2>1 DEF SetServiceJob, Without
<1>5. ASSUME NEW s \in Services, NEW j \in SvcJobs, Submit(s, j) PROVE ServicesTypeOK'
  BY <1>5 DEF Submit
<1>6. CASE CutOff
  BY <1>6 DEF CutOff, Nothing
<1>7. CASE Wait
  <2>1. record' \in [Services -> Record]
    BY <1>7, RecordsWritten DEF Wait
  <2> QED  BY <1>7, <2>1 DEF Wait
<1>8. ASSUME NEW s \in Services, createService(s) \/ startService(s) PROVE ServicesTypeOK'
  <2>1. [Absent EXCEPT !.there = TRUE] \in Record /\ [record[s] EXCEPT !.desired = "running"] \in Record
    BY RecordsWritten
  <2>2. record' \in [Services -> Record]
    BY <1>8, <2>1 DEF createService, startService
  <2> QED  BY <1>8, <2>2 DEF createService, startService, Called
<1>9. ASSUME NEW s \in Services, NEW do \in {"stop", "delete"}, serviceForUser(s, do)
      PROVE ServicesTypeOK'
  <2>1. record[s].job \in SvcJobs \cup {NoJob}
    BY DEF Record
  <2> QED  BY <1>9, <2>1 DEF serviceForUser, Called
<1>10. ASSUME NEW s \in Services, SetServiceDesired(s) PROVE ServicesTypeOK'
  <2>1. record' \in [Services -> Record]
    BY <1>10, RecordsWritten DEF SetServiceDesired
  <2> QED  BY <1>10, <2>1 DEF SetServiceDesired
<1>11. ASSUME NEW s \in Services, Cancel(s) PROVE ServicesTypeOK'
  BY <1>11 DEF Cancel, NoCall
<1>12. ASSUME NEW s \in Services, DeleteService(s) PROVE ServicesTypeOK'
  <2>1. record' \in [Services -> Record]
    BY <1>12, RecordsWritten DEF DeleteService
  <2> QED  BY <1>12, <2>1 DEF DeleteService, NoCall
<1>13. ASSUME NEW j \in SvcJobs, JobEnds(j) PROVE ServicesTypeOK'
  BY <1>13 DEF JobEnds
<1> QED
  BY <1>1, <1>2, <1>3, <1>4, <1>5, <1>6, <1>7, <1>8, <1>9, <1>10, <1>11, <1>12, <1>13
     DEF ServicesNext, reconcileServices, serviceRequest, CarryOn

LEMMA ServicesStarts == ServicesInit => ServicesTypeOK
<1> SUFFICES ASSUME ServicesInit PROVE ServicesTypeOK
  OBVIOUS
<1>1. Absent \in Record
  BY ServicesAssumption DEF Record, Absent
<1> QED  BY <1>1 DEF ServicesInit, ServicesTypeOK, Nothing, NoCall

\* Every variable keeps its type.
THEOREM ServicesTypeCorrect == ServicesSpec => []ServicesTypeOK
<1>1. ServicesTypeOK /\ [ServicesNext]_svcVars => ServicesTypeOK'
  BY TypesKept
<1> QED  BY <1>1, ServicesStarts, PTL DEF ServicesSpec

-----------------------------------------------------------------------------
(* Who stops a service stops its job *)

\* The job just submitted is for a service the pass is still at, which was to run
\* when it was listed and whose job was over then, and is over still.
FreshOne ==
  fresh # NoJob =>
    LET s == svcOf[fresh]
    IN  s \in DOMAIN listed /\ listed[s].desired = "running" /\ listed[s].job \notin live

\* Only the pass records jobs: a service it has still to look at names the job it
\* was listed with, or none.
ListedJobs == \A s \in DOMAIN listed : record[s].job \in {listed[s].job, NoJob}

\* A request works from the job that is recorded, or the recorded one is known to
\* have been missed.
CallsKnow ==
  \A s \in Services :
    /\ call[s] # NoCall => record[s].job \in {call[s].job} \cup stray
    /\ call[s] # NoCall => call[s].step # "idle"
    /\ call[s] # NoCall => call[s].do # "none"
    /\ call[s].step = "remove" => call[s].do = "delete" /\ call[s].job \notin live
    /\ call[s].do = "stop" => call[s].step \in {"set", "cancel"}
    /\ call[s].do = "delete" => call[s].step \in {"cancel", "remove"}

\* A live job was submitted for some service.
Somebodys == \A j \in live : svcOf[j] \in Services

LeftInv == FreshOne /\ ListedJobs /\ CallsKnow /\ Somebodys /\ NoJobLeftBehind

LEMMA PassLeavesNone ==
  \* The pass, cut off or not.
  ASSUME ServicesTypeOK, LeftInv, reconcileServices \/ CutOff \/ Wait
  PROVE  LeftInv'
<1> USE DEF ServicesTypeOK, LeftInv, FreshOne, ListedJobs, CallsKnow, Somebodys, NoJobLeftBehind, Running
<1>1. CASE List
  BY <1>1 DEF List
<1>2. ASSUME NEW s \in Services, Skip(s) PROVE LeftInv'
  BY <1>2 DEF Skip, Without
<1>3. ASSUME NEW s \in Services, SetServiceJob(s) PROVE LeftInv'
  <2>1. FreshOne'
    BY <1>3 DEF SetServiceJob
  <2>2. \A t \in Services \ {s} : record'[t] = record[t]
    BY <1>3 DEF SetServiceJob
  <2>3. ListedJobs' /\ svcOf' = svcOf /\ live' = live /\ call' = call /\ fresh' = NoJob
    BY <1>3, <2>2 DEF SetServiceJob, Without
  <2>4. stray \subseteq stray' /\ stray' \subseteq stray \cup {fresh}
    BY <1>3 DEF SetServiceJob
  <2>5. ~Running(s) \/ call[s] # NoCall => fresh \in stray'
    BY <1>3 DEF SetServiceJob
  <2>6. /\ record[s].there => record'[s].job = fresh /\ record'[s].there
                               /\ record'[s].desired = record[s].desired
        /\ ~record[s].there => record'[s] = record[s]
    BY <1>3 DEF SetServiceJob, Record
  <2>7. CallsKnow'
    BY <2>2, <2>3, <2>4, <2>5, <2>6
  <2>8. ASSUME NEW j \in live, j \notin stray', svcOf[j] = s
        PROVE  record'[s].there /\ record'[s].job = j /\ Running(s)'
    <3>1. CASE j = fresh
      BY <2>5, <2>6, <2>8, <3>1
    <3>2. CASE j # fresh
      <4>1. record[s].job = j /\ s \in DOMAIN listed /\ listed[s].job \notin live
        BY <1>3, <2>4, <2>8, <3>2 DEF SetServiceJob
      <4> QED  BY <2>8, <4>1, ServicesAssumption
    <3> QED  BY <3>1, <3>2
  <2>9. ASSUME NEW j \in live, j \notin stray', svcOf[j] # s
        PROVE  LET t == svcOf[j] IN record'[t].there /\ record'[t].job = j
                                    /\ (Running(t)' \/ call'[t].do = "stop")
    <3>1. j # fresh /\ svcOf[j] \in Services
      BY <1>3, <2>9 DEF SetServiceJob
    <3>2. j \notin stray \cup {fresh}
      BY <2>4, <2>9, <3>1
    <3> QED  BY <1>3, <2>3, <2>9, <3>2 DEF SetServiceJob
  <2>10. NoJobLeftBehind'
    BY <2>3, <2>8, <2>9
  <2> QED  BY <2>1, <2>3, <2>7, <2>10, <1>3
<1>4. ASSUME NEW s \in Services, NEW j \in SvcJobs, Submit(s, j) PROVE LeftInv'
  BY <1>4, ServicesAssumption DEF Submit, Unused, WantsJob
<1>5. CASE CutOff
  BY <1>5 DEF CutOff, Nothing
<1>6. CASE Wait
  <2>1. \A s \in Services : record'[s].there = record[s].there
          /\ record'[s].desired = record[s].desired /\ record'[s].job = record[s].job
    BY <1>6 DEF Wait, Record
  <2> QED  BY <1>6, <2>1 DEF Wait
<1> QED
  BY <1>1, <1>2, <1>3, <1>4, <1>5, <1>6 DEF reconcileServices

LEMMA RequestsLeaveNone ==
  \* The requests on a service, step by step.
  ASSUME ServicesTypeOK, LeftInv, NEW s \in Services, serviceRequest(s)
  PROVE  LeftInv'
<1> USE DEF ServicesTypeOK, LeftInv, FreshOne, ListedJobs, CallsKnow, Somebodys, NoJobLeftBehind, Running
<1>1. CASE createService(s)
  BY <1>1 DEF createService, Absent
<1>2. CASE startService(s)
  BY <1>2 DEF startService
<1>3. ASSUME NEW do \in {"stop", "delete"}, serviceForUser(s, do) PROVE LeftInv'
  <2>1. /\ call[s] = NoCall /\ call'[s] # NoCall
        /\ call'[s].do = do /\ call'[s].job = record[s].job
        /\ call'[s].step = (IF do = "stop" THEN "set" ELSE "cancel")
        /\ \A t \in Services \ {s} : call'[t] = call[t]
    BY <1>3 DEF serviceForUser, NoCall
  <2>2. CallsKnow'
    BY <1>3, <2>1 DEF serviceForUser, NoCall
  <2>3. NoJobLeftBehind'
    BY <1>3, <2>1 DEF serviceForUser, NoCall
  <2> QED  BY <1>3, <2>2, <2>3 DEF serviceForUser
<1>4. CASE SetServiceDesired(s)
  <2>1. /\ call[s].do = "stop" /\ call'[s].do = "stop" /\ call'[s].step = "cancel"
        /\ call'[s].job = call[s].job /\ call[s] # NoCall
        /\ \A t \in Services \ {s} : call'[t] = call[t]
    BY <1>4 DEF SetServiceDesired, NoCall
  <2>2. /\ record'[s].there = record[s].there /\ record'[s].job = record[s].job
        /\ \A t \in Services \ {s} : record'[t] = record[t]
    BY <1>4 DEF SetServiceDesired, Record
  <2>3. CallsKnow'
    BY <1>4, <2>1, <2>2 DEF SetServiceDesired, NoCall
  <2>4. NoJobLeftBehind'
    BY <1>4, <2>1, <2>2 DEF SetServiceDesired
  <2> QED  BY <1>4, <2>2, <2>3, <2>4 DEF SetServiceDesired
<1>5. CASE Cancel(s)
  BY <1>5 DEF Cancel, NoCall
<1>6. CASE DeleteService(s)
  BY <1>6 DEF DeleteService, NoCall, Absent
<1> QED
  BY <1>1, <1>2, <1>3, <1>4, <1>5, <1>6 DEF serviceRequest, CarryOn

\* A job that was started for a service is the one its record names, so that a stop
\* or a delete reaches it, but for those a race or a restart made strays.
THEOREM NoJobLeftBehindHolds == ServicesSpec => []NoJobLeftBehind
<1>1. ServicesInit => LeftInv
  BY DEF ServicesInit, LeftInv, FreshOne, ListedJobs, CallsKnow, Somebodys, NoJobLeftBehind, Nothing, NoCall
<1>2. ServicesTypeOK /\ LeftInv /\ [ServicesNext]_svcVars => LeftInv'
  <2>1. ASSUME LeftInv, UNCHANGED svcVars PROVE LeftInv'
    BY <2>1 DEF svcVars, LeftInv, FreshOne, ListedJobs, CallsKnow, Somebodys, NoJobLeftBehind, Running
  <2>2. ASSUME ServicesTypeOK, LeftInv, NEW j \in SvcJobs, JobEnds(j) PROVE LeftInv'
    BY <2>2 DEF JobEnds, LeftInv, FreshOne, ListedJobs, CallsKnow, Somebodys, NoJobLeftBehind, Running
  <2> QED  BY <2>1, <2>2, PassLeavesNone, RequestsLeaveNone DEF ServicesNext
<1>3. LeftInv => NoJobLeftBehind
  BY DEF LeftInv
<1> QED  BY <1>1, <1>2, <1>3, ServicesTypeCorrect, PTL DEF ServicesSpec

(*-------------------------------------------------------------------------*)
(* Settings                                                                *)
(*-------------------------------------------------------------------------*)

(* Settings: types *)

LEMMA LeavesAre ==
  \* The sections divide the settings.
  /\ Leaves = {"a1", "a2", "b"}
  /\ \A l \in Leaves : Section(l) \subseteq Leaves /\ l \in Section(l)
  /\ MapLeaves \subseteq Leaves
BY DEF Leaves, Section, MapLeaves

AnyLeaf == Leaves \cup {""}

LEMMA DocsChange ==
  \* A setting that is changed is one of a document.
  ASSUME NEW d \in Docs, NEW n \in 0..MaxOrders
  PROVE  /\ \A l \in Leaves : [d EXCEPT ![l] = n] \in Docs
         /\ \A l \in AnyLeaf : Applied(d, l, n) \in Docs
BY DEF Docs, Applied, Leaves, AnyLeaf

LEMMA UnsetTyped ==
  \* The default and a file cut short are documents.
  Unset \in Docs /\ [l \in Leaves |-> Off] \in Docs /\ NoCommand \in Command
  /\ Missing \in Contents /\ Unparsable \in Contents /\ Cut \in Contents
<1>1. 0 \in 0..MaxOrders
  BY SettingsAssumption
<1>2. Unset \in Docs /\ [l \in Leaves |-> Off] \in Docs
  BY <1>1 DEF Unset, Docs
<1> QED
  BY <1>1, <1>2 DEF NoCommand, Command, Missing, Unparsable, Cut, Contents, Whole

LEMMA CommandTyped ==
  \* The parts of a command under way.
  ASSUME SettingsTypeOK, NEW r \in Admins
  PROVE  /\ req[r] \in Command /\ req[r].n \in 0..MaxOrders /\ req[r].doc \in Docs
         /\ req[r].leaf \in AnyLeaf /\ req[r].shared \in BOOLEAN /\ req[r].met \in BOOLEAN
         /\ req[r].step \in {"idle", "fetch", "cfg", "save", "opened", "rename"}
         /\ req[r].way \in {"", "fetched", "request", "inplace", "command"}
         /\ req[r].at \in {"", "tmp", "disk"}
<1>1. req[r] \in Command
  BY DEF SettingsTypeOK
<1> QED  BY <1>1 DEF Command, AnyLeaf

\* What a command of r is for x, another one, when r is handed doc.
LEMMA ReturnsTo ==
  \* Whoever has read the settings goes on with them; the others may see a change in a map.
  ASSUME SettingsTypeOK, NEW r, NEW d \in Docs, NEW kept \in BOOLEAN, Returns(r, d, kept)
  PROVE  /\ req' \in [Admins -> Command]
         /\ r \in Admins => req'[r] = Answer(r, d)
         /\ \A x \in Admins : x # r =>
              /\ req'[x].step = req[x].step /\ req'[x].way = req[x].way /\ req'[x].leaf = req[x].leaf
              /\ req'[x].n = req[x].n /\ req'[x].met = req[x].met /\ req'[x].at = req[x].at
              /\ (req'[x].shared <=> kept /\ req[x].shared)
              /\ ~(kept /\ InPlace(r, d)) => req'[x].doc = req[x].doc
              /\ ~req[x].shared \/ (kept /\ ~InPlace(r, d)) => req'[x] = req[x]
<1> DEFINE Another(x) ==
      IF ~kept THEN [req[x] EXCEPT !.shared = FALSE]
      ELSE IF req[x].shared /\ InPlace(r, d) THEN [req[x] EXCEPT !.doc[req[r].leaf] = req[r].n]
      ELSE req[x]
<1>1. req' = [x \in Admins |-> IF x = r THEN Answer(r, d) ELSE Another(x)]
  BY DEF Returns
<1>2. ASSUME NEW x \in Admins
      PROVE  /\ Another(x) \in Command
             /\ Another(x).step = req[x].step /\ Another(x).way = req[x].way /\ Another(x).leaf = req[x].leaf
             /\ Another(x).n = req[x].n /\ Another(x).met = req[x].met /\ Another(x).at = req[x].at
             /\ (Another(x).shared <=> kept /\ req[x].shared)
             /\ ~(kept /\ InPlace(r, d)) => Another(x).doc = req[x].doc
             /\ ~req[x].shared \/ (kept /\ ~InPlace(r, d)) => Another(x) = req[x]
  <2>1. req[x] \in Command /\ req[x].doc \in Docs /\ req[x].shared \in BOOLEAN
    BY CommandTyped
  <2>2. CASE ~kept
    BY <2>1, <2>2 DEF Command
  <2>3. CASE kept /\ req[x].shared /\ InPlace(r, d)
    <3>1. r \in Admins /\ req[r].n \in 0..MaxOrders
      BY <2>3, CommandTyped DEF InPlace
    <3> DEFINE e == [req[x].doc EXCEPT ![req[r].leaf] = req[r].n]
    <3>2. e \in Docs
      BY <2>1, <3>1 DEF Docs
    <3>3. Another(x) = [req[x] EXCEPT !.doc = e]
      BY <2>3
    <3> HIDE DEF e
    <3> QED  BY <2>1, <2>3, <3>2, <3>3 DEF Command
  <2>4. CASE kept /\ ~(req[x].shared /\ InPlace(r, d))
    BY <2>1, <2>4
  <2> QED  BY <2>2, <2>3, <2>4
<1>3. r \in Admins => Answer(r, d) \in Command
  <2> SUFFICES ASSUME r \in Admins PROVE Answer(r, d) \in Command
    OBVIOUS
  <2>1. /\ req[r] \in Command /\ req[r].n \in 0..MaxOrders /\ req[r].doc \in Docs
        /\ req[r].leaf \in AnyLeaf
    BY CommandTyped
  <2>2. Applied(d, req[r].leaf, req[r].n) \in Docs
    BY <2>1, DocsChange
  <2>3. Replaced(d, req[r]) \in Docs
    BY <2>1 DEF Replaced, Docs
  <2>4. HasMap(d) \in BOOLEAN
    BY DEF HasMap
  <2> QED  BY <2>1, <2>2, <2>3, <2>4 DEF Answer, Command
<1> HIDE DEF Another
<1> QED  BY <1>1, <1>2, <1>3

LEMMA MarkedTyped ==
  \* A document that is marked is one.
  ASSUME SettingsTypeOK, NEW r, NEW d \in Docs
  PROVE  Marked(r, d) \in Docs
<1>1. CASE InPlace(r, d)
  <2>1. r \in Admins /\ req[r].n \in 0..MaxOrders
    BY <1>1, CommandTyped DEF InPlace
  <2> QED  BY <1>1, <2>1 DEF Marked, Docs
<1> QED  BY <1>1 DEF Marked

LEMMA ContentIs ==
  \* A file is missing, does not parse, or is a document.
  ASSUME NEW c \in Contents
  PROVE  /\ c.doc \in Docs /\ c.is \in {"missing", "broken", "whole"}
         /\ (c.is = "missing" => c = Missing) /\ (c.is = "broken" => c = Unparsable)
         /\ (c.is = "whole" => c = Whole(c.doc))
<1>1. Unset \in Docs
  BY UnsetTyped
<1> QED  BY <1>1 DEF Contents, Missing, Unparsable, Whole

LEMMA WholeIs ==
  \* A document is what a file can hold.
  ASSUME NEW d \in Docs
  PROVE  Whole(d) \in Contents /\ Whole(d).is = "whole" /\ Whole(d).doc = d
         /\ Whole(d) # Unparsable /\ Whole(d) # Missing
BY DEF Contents, Whole, Missing, Unparsable

LEMMA MetTyped ==
  \* Something comes between: nothing else about the commands changes.
  ASSUME SettingsTypeOK
  PROVE  /\ Met \in [Admins -> Command]
         /\ \A x \in Admins : Met[x] = IF req[x].step = "idle" THEN req[x] ELSE [req[x] EXCEPT !.met = TRUE]
<1>1. \A x \in Admins : Met[x] = IF req[x].step = "idle" THEN req[x] ELSE [req[x] EXCEPT !.met = TRUE]
  BY DEF Met, UnderWay
<1>2. ASSUME NEW x \in Admins PROVE Met[x] \in Command
  BY <1>1, CommandTyped DEF Command
<1>3. Met = [x \in Admins |-> Met[x]]
  BY DEF Met
<1> QED  BY <1>1, <1>2, <1>3

LEMMA StandsTyped ==
  \* The last change is a document, what is spoilt a setting.
  ASSUME NEW c, NEW now \in Docs, NEW excused, Stands(c, now, excused)
  PROVE  last' \in Docs /\ spoilt' \subseteq Leaves
BY DEF Stands

LEMMA DiskTyped ==
  \* The file changes.
  ASSUME SettingsTypeOK, NEW c \in Contents, DiskChanges(c)
  PROVE  /\ saved' \in Contents /\ cache' \in [doc : Docs, read : BOOLEAN, current : BOOLEAN]
         /\ getting' \in [who : Admins \cup {NoOne, Pass}, changed : BOOLEAN]
         /\ saved' = c /\ cache'.doc = cache.doc /\ cache'.read = cache.read /\ ~cache'.current
         /\ getting'.who = getting.who
<1>1. cache \in [doc : Docs, read : BOOLEAN, current : BOOLEAN]
      /\ getting \in [who : Admins \cup {NoOne, Pass}, changed : BOOLEAN]
  BY DEF SettingsTypeOK
<1>2. saved' = c /\ cache' = [cache EXCEPT !.current = FALSE]
      /\ getting' = [getting EXCEPT !.changed = (getting.who # NoOne)]
  BY DEF DiskChanges
<1> QED  BY <1>1, <1>2

LEMMA AcceptTyped ==
  \* What is accepted is a document.
  ASSUME SettingsTypeOK, NEW r \in Admins
  PROVE  Accept(r) \in Docs
BY CommandTyped, DocsChange DEF Accept, SettingsTypeOK

LEMMA BeginTyped ==
  \* A command begins.
  ASSUME SettingsTypeOK, NEW r \in Admins, NEW leaf \in AnyLeaf,
         NEW way \in {"fetched", "request", "inplace", "command"}, BeginCommand(r, leaf, way)
  PROVE  /\ SettingsTypeOK' /\ req[r].step = "idle"
         /\ \A x \in Admins : x # r => req'[x] = Met[x]
         /\ req'[r] = [step |-> CASE way = "fetched" -> "fetch" [] way = "command" -> "save" [] OTHER -> "cfg",
                       way |-> way, leaf |-> leaf, n |-> orders + 1, shared |-> FALSE,
                       met |-> UnderWay # {}, at |-> "",
                       doc |-> IF way = "command" THEN Applied(saved.doc, leaf, orders + 1) ELSE Unset]
<1> DEFINE new == [step |-> CASE way = "fetched" -> "fetch" [] way = "command" -> "save" [] OTHER -> "cfg",
                   way |-> way, leaf |-> leaf, n |-> orders + 1, shared |-> FALSE,
                   met |-> UnderWay # {}, at |-> "",
                   doc |-> IF way = "command" THEN Applied(saved.doc, leaf, orders + 1) ELSE Unset]
<1>1. orders + 1 \in 0..MaxOrders /\ orders' = orders + 1 /\ req[r].step = "idle"
  <2>1. orders < MaxOrders /\ orders' = orders + 1 /\ r \notin UnderWay
    BY DEF BeginCommand
  <2>2. orders \in 0..MaxOrders /\ MaxOrders \in Nat
    BY SettingsAssumption DEF SettingsTypeOK
  <2>3. orders + 1 \in 0..MaxOrders
    BY <2>1, <2>2
  <2> QED  BY <2>1, <2>3 DEF UnderWay
<1>2. saved.doc \in Docs
  BY ContentIs DEF SettingsTypeOK
<1>3. Applied(saved.doc, leaf, orders + 1) \in Docs
  BY <1>1, <1>2, DocsChange
<1>4. new \in Command
  BY <1>1, <1>3, UnsetTyped DEF Command, AnyLeaf
<1>5. req' = [Met EXCEPT ![r] = new]
  BY DEF BeginCommand
<1> HIDE DEF new
<1>6. Met \in [Admins -> Command]
  BY MetTyped
<1>7. req' \in [Admins -> Command] /\ req'[r] = new /\ \A x \in Admins : x # r => req'[x] = Met[x]
  BY <1>4, <1>5, <1>6
<1>8. UNCHANGED <<kind, saved, tmp, cache, getting, spoils, last, spoilt, stale>>
  BY DEF BeginCommand
<1>9. SettingsTypeOK'
  BY <1>1, <1>7, <1>8 DEF SettingsTypeOK
<1> QED  BY <1>1, <1>7, <1>9 DEF new

\* The commands, by what they change.
CanBegin(r, leaf, way) ==
  /\ leaf \in AnyLeaf /\ way \in {"fetched", "request", "inplace", "command"}
  /\ BeginCommand(r, leaf, way)
  /\ way = "fetched" => leaf \in Leaves /\ Section(leaf) \cap MapLeaves = {} /\ kind \in {"qos", "priority"}
  /\ way = "request" => kind = "cluster"
  /\ way = "inplace" => leaf \in MapLeaves
  /\ way = "command" => kind = "node" \/ saved # Unparsable

LEMMA CommandsBegin ==
  \* Each command, by what it changes.
  ASSUME NEW r \in Admins, NEW leaf \in AnyLeaf,
         \/ qosSet(r, leaf) \/ prioritySet(r, leaf) \/ setNodeName(r, leaf) \/ SetValue(r, leaf)
         \/ upController(r, leaf) \/ SetUserShares(r) \/ setClusterName(r)
  PROVE  \E l, way : CanBegin(r, l, way)
<1>1. CASE qosSet(r, leaf)
  <2>1. CanBegin(r, leaf, "fetched")
    BY <1>1 DEF qosSet, CanBegin, MapLeaves, Leaves, AnyLeaf
  <2> QED  BY <2>1
<1>2. CASE prioritySet(r, leaf)
  <2>1. CanBegin(r, leaf, "fetched")
    BY <1>2 DEF prioritySet, CanBegin, MapLeaves, Leaves, AnyLeaf, Section
  <2> QED  BY <2>1
<1>3. CASE setNodeName(r, leaf)
  <2>1. CanBegin(r, leaf, "inplace")
    BY <1>3 DEF setNodeName, CanBegin, MapLeaves, Leaves, AnyLeaf
  <2> QED  BY <2>1
<1>4. CASE SetValue(r, leaf)
  <2>1. CanBegin(r, leaf, "command")
    BY <1>4 DEF SetValue, CanBegin
  <2> QED  BY <2>1
<1>5. CASE upController(r, leaf)
  <2>1. CanBegin(r, leaf, "command")
    BY <1>5 DEF upController, CanBegin
  <2> QED  BY <2>1
<1>6. CASE SetUserShares(r)
  <2>1. CanBegin(r, "b", "inplace")
    BY <1>6 DEF SetUserShares, CanBegin, MapLeaves, Leaves, AnyLeaf
  <2> QED  BY <2>1
<1>7. CASE setClusterName(r)
  <2>1. CanBegin(r, "b", "request")
    BY <1>7 DEF setClusterName, CanBegin, Leaves, AnyLeaf
  <2> QED  BY <2>1
<1> QED  BY <1>1, <1>2, <1>3, <1>4, <1>5, <1>6, <1>7

LEMMA StatTyped ==
  \* Whoever wants the settings looks whether the file has changed.
  ASSUME SettingsTypeOK, NEW r \in Admins \cup {Pass}, StatFile(r)
  PROVE  SettingsTypeOK'
<1>1. cache \in [doc : Docs, read : BOOLEAN, current : BOOLEAN] /\ cache.doc \in Docs
  BY DEF SettingsTypeOK
<1>2. UNCHANGED <<kind, saved, tmp, orders, spoils, last, spoilt, stale>>
  BY DEF StatFile
<1>3. CASE Known
  <2>1. Returns(r, cache.doc, TRUE) /\ getting' = getting
        /\ cache' = [cache EXCEPT !.read = TRUE, !.doc = Marked(r, cache.doc)]
    BY <1>3 DEF StatFile
  <2>2. req' \in [Admins -> Command]
    BY <1>1, <2>1, ReturnsTo
  <2>3. Marked(r, cache.doc) \in Docs
    BY <1>1, MarkedTyped
  <2>4. cache' \in [doc : Docs, read : BOOLEAN, current : BOOLEAN]
    BY <1>1, <2>1, <2>3
  <2> QED  BY <1>2, <2>1, <2>2, <2>4 DEF SettingsTypeOK
<1>4. CASE ~Known
  <2>1. getting' = [who |-> r, changed |-> FALSE] /\ req' = req /\ cache' = cache
    BY <1>4 DEF StatFile
  <2>2. getting' \in [who : Admins \cup {NoOne, Pass}, changed : BOOLEAN]
    BY <2>1
  <2> QED  BY <1>2, <2>1, <2>2 DEF SettingsTypeOK
<1> QED  BY <1>3, <1>4

LEMMA LoadTyped ==
  \* Whoever looked reads the file.
  ASSUME SettingsTypeOK, NEW r \in Admins \cup {Pass}, Load(r)
  PROVE  SettingsTypeOK'
<1>1. cache \in [doc : Docs, read : BOOLEAN, current : BOOLEAN] /\ cache.doc \in Docs
  BY DEF SettingsTypeOK
<1>2. saved.doc \in Docs /\ getting.changed \in BOOLEAN
  BY ContentIs DEF SettingsTypeOK
<1>3. UNCHANGED <<kind, saved, tmp, orders, spoils, last, spoilt>> /\ getting' = NotGetting
  BY DEF Load
<1>4. NotGetting \in [who : Admins \cup {NoOne, Pass}, changed : BOOLEAN]
  BY DEF NotGetting
<1>5. CASE saved.is = "broken"
  <2>1. /\ cache' = [cache EXCEPT !.read = TRUE, !.doc = Marked(r, cache.doc)]
        /\ Returns(r, cache.doc, TRUE) /\ stale' = stale
    BY <1>5 DEF Load
  <2>2. req' \in [Admins -> Command]
    BY <1>1, <2>1, ReturnsTo
  <2>3. Marked(r, cache.doc) \in Docs
    BY <1>1, MarkedTyped
  <2>4. cache' \in [doc : Docs, read : BOOLEAN, current : BOOLEAN]
    BY <1>1, <2>1, <2>3
  <2> QED  BY <1>3, <1>4, <2>1, <2>2, <2>4 DEF SettingsTypeOK
<1>6. CASE saved.is # "broken"
  <2>1. /\ cache' = [doc |-> Marked(r, saved.doc), read |-> TRUE, current |-> ~getting.changed]
        /\ Returns(r, saved.doc, FALSE) /\ stale' = FALSE
    BY <1>6 DEF Load
  <2>2. req' \in [Admins -> Command]
    BY <1>2, <2>1, ReturnsTo
  <2>3. Marked(r, saved.doc) \in Docs
    BY <1>2, MarkedTyped
  <2>4. cache' \in [doc : Docs, read : BOOLEAN, current : BOOLEAN]
    BY <1>2, <2>1, <2>3
  <2> QED  BY <1>3, <1>4, <2>1, <2>2, <2>4 DEF SettingsTypeOK
<1> QED  BY <1>5, <1>6

LEMMA OpenTyped ==
  \* The file to be written, or the temporary one, is cut short.
  ASSUME SettingsTypeOK, NEW r \in Admins, OpenFile(r)
  PROVE  SettingsTypeOK'
<1> DEFINE c == [req[r] EXCEPT !.step = "opened", !.at = IF ByRename THEN "tmp" ELSE "disk"]
<1>1. c \in Command
  BY CommandTyped DEF Command
<1>2. req' = [req EXCEPT ![r] = c]
  BY DEF OpenFile
<1> HIDE DEF c
<1>3. req' \in [Admins -> Command]
  BY <1>1, <1>2 DEF SettingsTypeOK
<1>4. UNCHANGED <<kind, orders, spoils, last, spoilt, stale>>
  BY DEF OpenFile
<1>5. CASE ByRename
  <2>1. tmp' = Cut /\ saved' = saved /\ cache' = cache /\ getting' = getting
    BY <1>5 DEF OpenFile
  <2> QED  BY <1>3, <1>4, <2>1, UnsetTyped DEF SettingsTypeOK
<1>6. CASE ~ByRename
  <2>1. DiskChanges(Cut) /\ tmp' = tmp
    BY <1>6 DEF OpenFile
  <2>2. /\ saved' \in Contents /\ cache' \in [doc : Docs, read : BOOLEAN, current : BOOLEAN]
        /\ getting' \in [who : Admins \cup {NoOne, Pass}, changed : BOOLEAN]
    BY <2>1, UnsetTyped, DiskTyped
  <2> QED  BY <1>3, <1>4, <2>1, <2>2 DEF SettingsTypeOK
<1> QED  BY <1>5, <1>6

LEMMA WriteTyped ==
  \* The content is written.
  ASSUME SettingsTypeOK, NEW r \in Admins, WriteFile(r)
  PROVE  SettingsTypeOK'
<1> DEFINE c == IF ByRename THEN [req[r] EXCEPT !.step = "rename"] ELSE NoCommand
<1>1. c \in Command
  BY CommandTyped, UnsetTyped, ZenonT(60) DEF Command
<1>2. req' = [req EXCEPT ![r] = c]
  BY DEF WriteFile
<1> HIDE DEF c
<1>3. req' \in [Admins -> Command]
  BY <1>1, <1>2 DEF SettingsTypeOK
<1>4. UNCHANGED <<kind, orders, spoils, stale>>
  BY DEF WriteFile
<1>5. PICK d \in Content(r) :
        IF req[r].at = "tmp"
        THEN tmp' = d /\ UNCHANGED <<saved, cache, getting, last, spoilt>>
        ELSE /\ DiskChanges(d) /\ UNCHANGED tmp
             /\ Stands(d, IF ByRename THEN last ELSE Accept(r), Excused(r))
  BY DEF WriteFile
<1>6. d \in Contents
  BY <1>5, CommandTyped, WholeIs, UnsetTyped DEF Content
<1>7. CASE req[r].at = "tmp"
  BY <1>3, <1>4, <1>5, <1>6, <1>7 DEF SettingsTypeOK
<1>8. CASE req[r].at # "tmp"
  <2>1. /\ saved' \in Contents /\ cache' \in [doc : Docs, read : BOOLEAN, current : BOOLEAN]
        /\ getting' \in [who : Admins \cup {NoOne, Pass}, changed : BOOLEAN]
    BY <1>5, <1>6, <1>8, DiskTyped
  <2>2. (IF ByRename THEN last ELSE Accept(r)) \in Docs
    BY AcceptTyped DEF SettingsTypeOK
  <2>3. last' \in Docs /\ spoilt' \subseteq Leaves
    BY <1>5, <1>8, <2>2, StandsTyped
  <2> QED  BY <1>3, <1>4, <1>5, <1>8, <2>1, <2>3 DEF SettingsTypeOK
<1> QED  BY <1>7, <1>8

\* What becomes of the others when r renames the temporary file.
RenamedFor(x) ==
  IF req[x].step = "opened" /\ req[x].at = "tmp" /\ tmp # Missing
  THEN [req[x] EXCEPT !.at = "disk"] ELSE req[x]

LEMMA RenameTyped ==
  \* The temporary file takes the place of the other.
  ASSUME SettingsTypeOK, NEW r \in Admins, Rename(r)
  PROVE  /\ SettingsTypeOK' /\ req'[r] = NoCommand
         /\ \A x \in Admins : x # r => req'[x] = RenamedFor(x)
<1>1. req' = [x \in Admins |-> IF x = r THEN NoCommand ELSE RenamedFor(x)]
  BY DEF Rename, RenamedFor
<1>2. \A x \in Admins : RenamedFor(x) \in Command
  BY CommandTyped, ZenonT(60) DEF Command, RenamedFor
<1>3. req' \in [Admins -> Command] /\ req'[r] = NoCommand
      /\ \A x \in Admins : x # r => req'[x] = RenamedFor(x)
  BY <1>1, <1>2, UnsetTyped
<1>4. UNCHANGED <<kind, orders, spoils>>
  BY DEF Rename
<1>5. CASE tmp = Missing
  <2>1. UNCHANGED <<saved, tmp, cache, getting, last, spoilt>> /\ stale' \in BOOLEAN
    BY <1>5, CommandTyped DEF Rename, StaysBehind, SettingsTypeOK
  <2> QED  BY <1>3, <1>4, <2>1 DEF SettingsTypeOK
<1>6. CASE tmp # Missing
  <2>1. DiskChanges(tmp) /\ tmp' = Missing /\ Stands(tmp, Accept(r), Excused(r)) /\ stale' = stale
    BY <1>6 DEF Rename
  <2>2. tmp \in Contents
    BY DEF SettingsTypeOK
  <2>3. /\ saved' \in Contents /\ cache' \in [doc : Docs, read : BOOLEAN, current : BOOLEAN]
        /\ getting' \in [who : Admins \cup {NoOne, Pass}, changed : BOOLEAN]
    BY <2>1, <2>2, DiskTyped
  <2>4. last' \in Docs /\ spoilt' \subseteq Leaves
    BY <2>1, AcceptTyped, StandsTyped
  <2> QED  BY <1>3, <1>4, <2>1, <2>3, <2>4, UnsetTyped DEF SettingsTypeOK
<1> QED  BY <1>3, <1>5, <1>6

LEMMA SpoilsTyped ==
  \* A mishap more.
  ASSUME SettingsTypeOK, spoils < MaxSpoils, spoils' = spoils + 1
  PROVE  spoils' \in 0..MaxSpoils
<1>1. MaxSpoils \in Nat /\ spoils \in 0..MaxSpoils
  BY SettingsAssumption DEF SettingsTypeOK
<1> QED  BY <1>1

LEMMA FailTyped ==
  \* The disk is full.
  ASSUME SettingsTypeOK, NEW r \in Admins, SaveFails(r)
  PROVE  SettingsTypeOK'
<1>1. spoils' \in 0..MaxSpoils
  BY SpoilsTyped DEF SaveFails
<1>2. req' \in [Admins -> Command]
  BY UnsetTyped DEF SaveFails, SettingsTypeOK
<1>3. UNCHANGED <<kind, saved, tmp, cache, getting, orders>> /\ stale' \in BOOLEAN
  BY CommandTyped DEF SaveFails, StaysBehind, SettingsTypeOK
<1>4. last' \in Docs /\ spoilt' \subseteq Leaves
  <2>1. (IF kind = "node" THEN Accept(r) ELSE last) \in Docs
    BY AcceptTyped DEF SettingsTypeOK
  <2>2. CASE req[r].at = "disk"
    BY <2>1, <2>2, StandsTyped DEF SaveFails
  <2>3. CASE req[r].at # "disk"
    BY <2>3 DEF SaveFails, SettingsTypeOK
  <2> QED  BY <2>2, <2>3
<1> QED  BY <1>1, <1>2, <1>3, <1>4 DEF SettingsTypeOK

LEMMA CrashTyped ==
  \* Everything under way is gone.
  ASSUME SettingsTypeOK, ControllerCrashes
  PROVE  SettingsTypeOK'
<1>1. spoils' \in 0..MaxSpoils
  BY SpoilsTyped DEF ControllerCrashes
<1>2. NotRead \in [doc : Docs, read : BOOLEAN, current : BOOLEAN]
      /\ NotGetting \in [who : Admins \cup {NoOne, Pass}, changed : BOOLEAN]
  BY UnsetTyped DEF NotRead, NotGetting
<1>3. [r \in Admins |-> NoCommand] \in [Admins -> Command]
  BY UnsetTyped
<1>4. spoilt' \subseteq Leaves
  BY DEF ControllerCrashes
<1> QED  BY <1>1, <1>2, <1>3, <1>4 DEF ControllerCrashes, SettingsTypeOK

LEMMA EditTyped ==
  \* Somebody edits the file.
  ASSUME SettingsTypeOK, EditBroken \/ \E leaf \in Leaves : EditByHand(leaf)
  PROVE  SettingsTypeOK'
<1>1. req' \in [Admins -> Command]
  BY MetTyped DEF EditBroken, EditByHand
<1>2. CASE EditBroken
  <2>1. DiskChanges(Unparsable) /\ Stands(Unparsable, last, TRUE)
        /\ UNCHANGED <<kind, tmp, orders, stale>>
    BY <1>2 DEF EditBroken
  <2>2. spoils' \in 0..MaxSpoils
    BY <1>2, SpoilsTyped DEF EditBroken
  <2>3. /\ saved' \in Contents /\ cache' \in [doc : Docs, read : BOOLEAN, current : BOOLEAN]
        /\ getting' \in [who : Admins \cup {NoOne, Pass}, changed : BOOLEAN]
    BY <2>1, UnsetTyped, DiskTyped
  <2>4. last' \in Docs /\ spoilt' \subseteq Leaves
    BY <2>1, StandsTyped DEF SettingsTypeOK
  <2> QED  BY <1>1, <2>1, <2>2, <2>3, <2>4 DEF SettingsTypeOK
<1>3. ASSUME NEW leaf \in Leaves, EditByHand(leaf) PROVE SettingsTypeOK'
  <2> DEFINE doc == [saved.doc EXCEPT ![leaf] = orders + 1]
             now == [last EXCEPT ![leaf] = orders + 1]
  <2>1. orders + 1 \in 0..MaxOrders /\ orders' = orders + 1
    <3>1. orders < MaxOrders /\ orders' = orders + 1
      BY <1>3 DEF EditByHand
    <3>2. orders \in 0..MaxOrders /\ MaxOrders \in Nat
      BY SettingsAssumption DEF SettingsTypeOK
    <3> QED  BY <3>1, <3>2
  <2>2. doc \in Docs /\ now \in Docs
    BY <2>1, ContentIs, DocsChange DEF SettingsTypeOK
  <2>3. DiskChanges(Whole(doc)) /\ Stands(Whole(doc), now, UnderWay # {})
        /\ UNCHANGED <<kind, tmp, spoils, stale>>
    BY <1>3 DEF EditByHand
  <2> HIDE DEF doc, now
  <2>4. /\ saved' \in Contents /\ cache' \in [doc : Docs, read : BOOLEAN, current : BOOLEAN]
        /\ getting' \in [who : Admins \cup {NoOne, Pass}, changed : BOOLEAN]
    BY <2>2, <2>3, WholeIs, DiskTyped
  <2>5. last' \in Docs /\ spoilt' \subseteq Leaves
    BY <2>2, <2>3, StandsTyped
  <2> QED  BY <1>1, <2>1, <2>3, <2>4, <2>5 DEF SettingsTypeOK
<1> QED  BY <1>2, <1>3

-----------------------------------------------------------------------------
(* Settings: what stands *)

Late == {"save", "opened", "rename"}

\* x has changed l in the map the controller holds and not saved it yet.
MarksIt(x, l) == req[x].way = "inplace" /\ req[x].shared /\ req[x].step \in Late /\ req[x].leaf = l
Differs(l) == l \in MapLeaves /\ (stale \/ \E x \in Admins : MarksIt(x, l))
Cutting == \E x \in Admins : req[x].step = "opened" /\ req[x].at = "disk"

\* What is in force is what was last accepted, but where it is spoilt.
FileSays ==
  \/ Cutting
  \/ saved.is # "broken" /\ \A l \in Leaves \ spoilt : saved.doc[l] = last[l]
  \/ saved.is = "broken" /\ \A l \in Leaves \ spoilt : cache.doc[l] = last[l] \/ Differs(l)

\* What the controller takes for up to date is, but for the maps.
CacheSays ==
  /\ cache.current => saved.is = "whole" /\ \A l \in Leaves : cache.doc[l] = saved.doc[l] \/ Differs(l)
  /\ saved.is = "missing" =>
       cache.doc = Unset /\ getting.who = NoOne /\ ~stale /\ \A x \in Admins : ~req[x].shared
  /\ kind = "node" => cache.doc = Unset
  /\ stale => ByRename

GettingSays == getting.who # NoOne => Reads(getting.who)

\* The controller goes on with what it holds, a failed change in it.
Stuck == stale /\ (saved.is = "broken" \/ (cache.read /\ cache.current /\ getting.who = NoOne))

\* r's command is the only one and nothing came between: it will write what it should.
Alone(r) ==
  /\ UnderWay = {r}
  /\ (req[r].step = "cfg" /\ req[r].way = "fetched") =>
       \A l \in Section(req[r].leaf) \ spoilt : req[r].doc[l] = Accept(r)[l]
  /\ req[r].step \in Late => Stuck \/ \A l \in Leaves \ spoilt : req[r].doc[l] = Accept(r)[l]
  /\ req[r].step = "opened" => /\ req[r].at = (IF ByRename THEN "tmp" ELSE "disk")
                               /\ IF ByRename THEN tmp = Cut ELSE saved = Cut
  /\ req[r].step = "rename" => tmp = Whole(req[r].doc)

\* How a command goes.
InOrder(r) ==
  /\ req[r].step = "idle" => req[r] = NoCommand
  /\ req[r].step = "rename" => ByRename
  /\ req[r].step \in {"fetch", "cfg"} =>
       req[r].way \in {"fetched", "request", "inplace"} /\ ~req[r].shared /\ kind # "node"
  /\ req[r].step = "fetch" => req[r].way = "fetched"
  /\ req[r].way = "fetched" => req[r].leaf \in Leaves /\ Section(req[r].leaf) \cap MapLeaves = {}
  /\ req[r].way = "inplace" => req[r].leaf \in MapLeaves
  /\ req[r].step \in {"fetch", "cfg", "save"} => req[r].at = ""

Sound(r) == InOrder(r) /\ (req[r].step # "idle" /\ ~req[r].met => Alone(r))

SettingsInv ==
  SettingsTypeOK /\ FileSays /\ CacheSays /\ GettingSays /\ \A r \in Admins : Sound(r)

LEMMA KindKept ==
  \* A behaviour is about one file.
  ASSUME kind' = kind
  PROVE  MapLeaves' = MapLeaves /\ (ByRename' <=> ByRename) /\ Cut' = Cut
BY DEF MapLeaves, ByRename, Cut

LEMMA MapsAre ==
  \* The files with a map are those renamed into place.
  /\ MapLeaves # {} => ByRename
  /\ kind = "node" => MapLeaves = {} /\ ~ByRename
BY DEF MapLeaves, ByRename

LEMMA SaysKept ==
  \* What neither touches the file nor what was read leaves what they say.
  ASSUME FileSays, CacheSays,
         kind' = kind, saved' = saved, cache' = cache, last' = last, spoilt' = spoilt,
         Cutting => Cutting', \A l \in MapLeaves : Differs(l) => Differs(l)', stale' => ByRename,
         saved.is = "missing" =>
           getting'.who = NoOne /\ ~stale' /\ \A x \in Admins : ~req'[x].shared
  PROVE  FileSays' /\ CacheSays'
<1>1. MapLeaves' = MapLeaves /\ (ByRename' <=> ByRename)
  BY KindKept
<1>2. \A l \in Leaves : Differs(l) => Differs(l)'
  BY DEF Differs
<1>3. FileSays'
  BY <1>2 DEF FileSays
<1>4. CacheSays'
  BY <1>1, <1>2 DEF CacheSays
<1> QED  BY <1>3, <1>4

LEMMA StandsSays ==
  \* What is accepted is what is in force, but where it is spoilt.
  ASSUME NEW c, NEW now, NEW excused, Stands(c, now, excused),
         excused \/ c = Unparsable \/ \A l \in Leaves \ spoilt : InForce(c)[l] = now[l]
  PROVE  \A l \in Leaves \ spoilt' : InForce(c)[l] = last'[l]
BY DEF Stands

LEMMA FileSaysNow ==
  \* So the file says it, or what does not parse leaves it in force.
  ASSUME NEW c \in Contents, saved' = c, cache'.doc = cache.doc,
         \A l \in Leaves \ spoilt' : InForce(c)[l] = last'[l]
  PROVE  FileSays'
<1>1. CASE c.is = "whole"
  BY <1>1 DEF FileSays, InForce
<1>2. CASE c.is = "missing"
  BY <1>2, ContentIs DEF FileSays, InForce, Missing
<1>3. CASE c.is = "broken"
  <2>1. c # Missing
    BY <1>3 DEF Missing
  <2> QED  BY <1>3, <2>1 DEF FileSays, InForce
<1> QED  BY <1>1, <1>2, <1>3, ContentIs

LEMMA CacheSaysNow ==
  \* When the file changes, the controller has not read it.
  ASSUME SettingsTypeOK, CacheSays, NEW c \in Contents, c # Missing, DiskChanges(c),
         kind' = kind, stale' = stale
  PROVE  CacheSays'
<1>1. /\ saved' = c /\ cache'.doc = cache.doc /\ ~cache'.current
      /\ c.is # "missing" /\ (ByRename' <=> ByRename)
  BY DiskTyped, ContentIs, KindKept
<1> QED  BY <1>1 DEF CacheSays

LEMMA OthersSound ==
  \* Another's command was met by that of r, and is still in order.
  ASSUME SettingsTypeOK, NEW r \in Admins, req[r].step # "idle", NEW x \in Admins, x # r, Sound(x), kind' = kind,
         req[x].step = "idle" => req'[x] = req[x],
         req'[x].step = req[x].step, req'[x].way = req[x].way, req'[x].leaf = req[x].leaf,
         req'[x].met = req[x].met, req'[x].shared => req[x].shared,
         req'[x].at = req[x].at \/ req[x].step = "opened"
  PROVE  Sound(x)'
<1>1. MapLeaves' = MapLeaves /\ (ByRename' <=> ByRename)
  BY KindKept
<1>2. InOrder(x)'
  BY <1>1 DEF Sound, InOrder
<1>3. req[x].step # "idle" => req[x].met
  BY DEF Sound, Alone, UnderWay
<1> QED  BY <1>2, <1>3 DEF Sound

LEMMA NoCommandIs ==
  \* Nothing under way.
  NoCommand.step = "idle" /\ NoCommand.way \notin {"fetched", "inplace"} /\ ~NoCommand.shared
BY DEF NoCommand

LEMMA IdleSound ==
  \* Nothing under way is in order.
  ASSUME NEW x \in Admins, req'[x] = NoCommand
  PROVE  Sound(x)'
<1>1. req'[x].step = "idle" /\ req'[x].way \notin {"fetched", "inplace"}
  BY NoCommandIs
<1> QED  BY <1>1 DEF Sound, InOrder

LEMMA GettingKept ==
  \* Whoever reads goes on reading.
  ASSUME SettingsTypeOK, GettingSays, kind' = kind, getting'.who = getting.who,
         \A x \in Admins : req[x].step \in {"fetch", "cfg"} => req'[x].step = req[x].step
  PROVE  GettingSays'
BY DEF GettingSays, Reads, SettingsTypeOK


LEMMA InvParts ==
  \* What the invariant says of a command.
  ASSUME SettingsInv, NEW r \in Admins
  PROVE  /\ SettingsTypeOK /\ FileSays /\ CacheSays /\ GettingSays /\ InOrder(r) /\ Sound(r)
         /\ req[r].step # "idle" /\ ~req[r].met => Alone(r)
BY DEF SettingsInv, Sound

LEMMA BeginKeeps ==
  \* A command begins: it is the only one, or it has met another.
  ASSUME SettingsInv, NEW r \in Admins, NEW leaf, NEW way, CanBegin(r, leaf, way)
  PROVE  SettingsInv'
<1> DEFINE new == [step |-> CASE way = "fetched" -> "fetch" [] way = "command" -> "save" [] OTHER -> "cfg",
                   way |-> way, leaf |-> leaf, n |-> orders + 1, shared |-> FALSE,
                   met |-> UnderWay # {}, at |-> "",
                   doc |-> IF way = "command" THEN Applied(saved.doc, leaf, orders + 1) ELSE Unset]
<1>1. /\ SettingsTypeOK /\ FileSays /\ CacheSays /\ GettingSays
      /\ leaf \in AnyLeaf /\ way \in {"fetched", "request", "inplace", "command"}
      /\ BeginCommand(r, leaf, way)
  BY DEF SettingsInv, CanBegin
<1>2. /\ SettingsTypeOK' /\ req[r].step = "idle" /\ req'[r] = new
      /\ \A x \in Admins : x # r => req'[x] = Met[x]
  BY <1>1, BeginTyped
<1>3. /\ kind' = kind /\ saved' = saved /\ tmp' = tmp /\ cache' = cache /\ getting' = getting
      /\ last' = last /\ spoilt' = spoilt /\ stale' = stale
  BY <1>1 DEF BeginCommand
<1>4. /\ new.way = way /\ new.leaf = leaf /\ new.n = orders + 1 /\ new.shared = FALSE
      /\ new.met = (UnderWay # {}) /\ new.at = ""
      /\ new.step \in {"fetch", "cfg", "save"}
      /\ (new.step = "fetch" <=> way = "fetched") /\ (new.step = "save" <=> way = "command")
      /\ way = "command" => new.doc = Applied(saved.doc, leaf, orders + 1)
  BY <1>1
<1> HIDE DEF new
<1>5. \A x \in Admins : Met[x] = IF req[x].step = "idle" THEN req[x] ELSE [req[x] EXCEPT !.met = TRUE]
  BY <1>1, MetTyped
<1>6. ASSUME NEW x \in Admins, x # r
      PROVE  /\ req[x].step = "idle" => req'[x] = req[x]
             /\ req[x].step # "idle" => req'[x].met
             /\ req'[x].step = req[x].step /\ req'[x].way = req[x].way /\ req'[x].leaf = req[x].leaf
             /\ req'[x].shared = req[x].shared /\ req'[x].at = req[x].at
  <2>1. req[x] \in Command /\ req'[x] = Met[x]
    BY <1>1, <1>2, <1>6, CommandTyped
  <2>2. CASE req[x].step = "idle"
    <3>1. req'[x] = req[x]
      BY <1>5, <2>1, <2>2
    <3> QED  BY <2>2, <3>1
  <2>3. CASE req[x].step # "idle"
    <3>1. req'[x] = [req[x] EXCEPT !.met = TRUE]
      BY <1>5, <2>1, <2>3
    <3> QED  BY <2>1, <2>3, <3>1 DEF Command
  <2> QED  BY <2>2, <2>3
<1>7. Cutting => Cutting'
  BY <1>2, <1>6 DEF Cutting
<1>8. \A l \in MapLeaves : Differs(l) => Differs(l)'
  <2>1. ASSUME NEW x \in Admins, NEW l, MarksIt(x, l) PROVE MarksIt(x, l)'
    <3>1. x # r
      BY <1>2, <2>1 DEF MarksIt, Late
    <3> QED  BY <1>6, <2>1, <3>1 DEF MarksIt
  <2> QED  BY <1>3, <2>1, KindKept DEF Differs
<1>9. FileSays' /\ CacheSays'
  <2>1. stale' => ByRename
    BY <1>1, <1>3 DEF CacheSays
  <2>2. saved.is = "missing" =>
           getting'.who = NoOne /\ ~stale' /\ \A x \in Admins : ~req'[x].shared
    BY <1>1, <1>2, <1>3, <1>4, <1>6 DEF CacheSays
  <2> QED  BY <1>1, <1>3, <1>7, <1>8, <2>1, <2>2, SaysKept
<1>10. GettingSays'
  BY <1>1, <1>2, <1>3, <1>6, GettingKept
<1>11. ASSUME NEW x \in Admins, x # r PROVE Sound(x)'
  <2>1. InOrder(x)
    BY InvParts
  <2>2. InOrder(x)'
    BY <1>3, <1>6, <1>11, <2>1, KindKept DEF InOrder
  <2> QED  BY <1>6, <1>11, <2>2 DEF Sound
<1>12. InOrder(r)'
  <2>1. /\ way = "fetched" => leaf \in Leaves /\ Section(leaf) \cap MapLeaves = {} /\ kind \in {"qos", "priority"}
        /\ way = "request" => kind = "cluster"
        /\ way = "inplace" => leaf \in MapLeaves
    BY DEF CanBegin
  <2>2. way = "inplace" => kind # "node"
    BY <2>1, MapsAre
  <2> QED  BY <1>1, <1>2, <1>3, <1>4, <2>1, <2>2, KindKept DEF InOrder
<1>13. ASSUME UnderWay = {} PROVE Alone(r)'
  <2>1. UnderWay' = {r}
    BY <1>2, <1>4, <1>6, <1>13 DEF UnderWay
  <2>2. ASSUME way = "command" PROVE \A l \in Leaves \ spoilt : saved.doc[l] = last[l]
    <3>1. ~Cutting
      BY <1>13 DEF Cutting, UnderWay
    <3>2. CASE saved.is # "broken"
      BY <1>1, <3>1, <3>2 DEF FileSays
    <3>3. CASE saved.is = "broken"
      <4>1. saved = Unparsable
        BY <1>1, <3>3, ContentIs DEF SettingsTypeOK
      <4>2. kind = "node"
        BY <2>2, <4>1 DEF CanBegin
      <4>3. cache.doc = Unset /\ saved.doc = Unset
        BY <1>1, <4>1, <4>2 DEF CacheSays, Unparsable
      <4>4. \A l \in Leaves : ~Differs(l)
        BY <4>2, MapsAre DEF Differs
      <4> QED  BY <1>1, <3>1, <3>3, <4>3, <4>4 DEF FileSays
    <3> QED  BY <3>2, <3>3
  <2>3. req'[r].step = "save" => \A l \in Leaves \ spoilt' : req'[r].doc[l] = Accept(r)'[l]
    <3> SUFFICES ASSUME way = "command" PROVE \A l \in Leaves \ spoilt : new.doc[l] = Accept(r)'[l]
      BY <1>2, <1>3, <1>4
    <3>1. Accept(r)' = Applied(last, leaf, orders + 1)
      BY <1>2, <1>3, <1>4 DEF Accept
    <3>2. saved.doc \in Docs /\ last \in Docs
      BY <1>1, ContentIs DEF SettingsTypeOK
    <3>3. \A l \in Leaves \ spoilt :
            Applied(saved.doc, leaf, orders + 1)[l] = Applied(last, leaf, orders + 1)[l]
      BY <2>2, <3>2 DEF Applied, Docs
    <3> QED  BY <1>4, <3>1, <3>3
  <2>4. req'[r].step \in {"fetch", "cfg", "save"} /\ ~(req'[r].step = "cfg" /\ req'[r].way = "fetched")
    BY <1>2, <1>4
  <2> QED  BY <2>1, <2>3, <2>4 DEF Alone, Late
<1>14. Sound(r)'
  BY <1>2, <1>4, <1>12, <1>13 DEF Sound
<1> QED  BY <1>2, <1>9, <1>10, <1>11, <1>14 DEF SettingsInv


LEMMA AnswerIs ==
  \* What r has once it was handed d.
  ASSUME SettingsTypeOK, NEW r \in Admins, NEW d \in Docs
  PROVE  /\ Answer(r, d).way = req[r].way /\ Answer(r, d).leaf = req[r].leaf
         /\ Answer(r, d).n = req[r].n /\ Answer(r, d).met = req[r].met /\ Answer(r, d).at = req[r].at
         /\ req[r].step = "fetch" =>
              /\ Answer(r, d).step = "cfg" /\ Answer(r, d).shared = req[r].shared
              /\ Answer(r, d).doc = Applied(d, req[r].leaf, req[r].n)
         /\ req[r].step # "fetch" =>
              /\ Answer(r, d).step = "save" /\ Answer(r, d).shared = HasMap(d)
              /\ req[r].way = "fetched" => Answer(r, d).doc = Replaced(d, req[r])
              /\ req[r].way # "fetched" => Answer(r, d).doc = Applied(d, req[r].leaf, req[r].n)
<1>1. req[r] \in Command
  BY CommandTyped
<1> QED  BY <1>1 DEF Answer, Command

LEMMA MarkIs ==
  \* Only the one setting is marked, and it differs once its command has been handed the map.
  ASSUME SettingsInv, NEW r, NEW d \in Docs, NEW kept \in BOOLEAN, Reads(r), Returns(r, d, kept), kind' = kind
  PROVE  /\ InPlace(r, d) => req[r].step = "cfg" /\ HasMap(d)
         /\ \A l \in Leaves : Marked(r, d)[l] = d[l] \/ Differs(l)'
<1>1. SettingsTypeOK
  BY DEF SettingsInv
<1> SUFFICES ASSUME InPlace(r, d)
             PROVE  /\ req[r].step = "cfg" /\ HasMap(d)
                    /\ \A l \in Leaves : Marked(r, d)[l] = d[l] \/ Differs(l)'
  BY DEF Marked
<1>2. r \in Admins /\ req[r].way = "inplace" /\ HasMap(d)
  BY DEF InPlace
<1>3. InOrder(r)
  BY <1>2, InvParts
<1>4. req[r].step = "cfg" /\ req[r].leaf \in MapLeaves
  BY <1>2, <1>3, SettingsAssumption DEF InOrder, Reads
<1>5. req'[r] = Answer(r, d)
  BY <1>1, <1>2, ReturnsTo
<1>6. \A l \in MapLeaves : l = req[r].leaf => MarksIt(r, l)'
  BY <1>1, <1>2, <1>4, <1>5, AnswerIs DEF MarksIt, Late
<1>7. \A l \in MapLeaves : l = req[r].leaf => Differs(l)'
  BY <1>2, <1>4, <1>6, KindKept DEF Differs
<1>8. \A l \in Leaves : l # req[r].leaf => Marked(r, d)[l] = d[l]
  BY DEF Marked, Docs
<1> QED  BY <1>2, <1>4, <1>7, <1>8

LEMMA ReadSound ==
  \* Whoever was handed what was last accepted will write that, but for its own change.
  ASSUME SettingsInv, NEW r \in Admins, NEW d \in Docs, NEW kept \in BOOLEAN, Reads(r), Returns(r, d, kept),
         kind' = kind, last' = last, spoilt' = spoilt,
         UnderWay = {r} => \A l \in Leaves \ spoilt : d[l] = last[l] \/ (Differs(l) /\ Stuck')
  PROVE  Sound(r)'
<1> DEFINE t == req[r]
           a == req'[r]
<1>1. /\ SettingsTypeOK /\ InOrder(r) /\ t.step \in {"fetch", "cfg"} /\ a = Answer(r, d)
      /\ t.step # "idle" /\ ~t.met => Alone(r)
  BY InvParts, ReturnsTo, SettingsAssumption DEF Reads
<1>2. /\ a.way = t.way /\ a.leaf = t.leaf /\ a.n = t.n /\ a.met = t.met /\ a.at = t.at
      /\ t.step = "fetch" => a.step = "cfg" /\ a.shared = t.shared /\ a.doc = Applied(d, t.leaf, t.n)
      /\ t.step = "cfg" =>
           /\ a.step = "save"
           /\ t.way = "fetched" => a.doc = Replaced(d, t)
           /\ t.way # "fetched" => a.doc = Applied(d, t.leaf, t.n)
  BY <1>1, AnswerIs
<1>3. MapLeaves' = MapLeaves /\ Accept(r)' = Accept(r) /\ Accept(r) = Applied(last, t.leaf, t.n)
  BY <1>2, KindKept DEF Accept
<1>4. InOrder(r)'
  BY <1>1, <1>2, <1>3 DEF InOrder
<1>5. ASSUME ~a.met PROVE Alone(r)'
  <2>1. Alone(r) /\ UnderWay = {r}
    BY <1>1, <1>2, <1>5 DEF Alone
  <2>2. UnderWay' = {r}
    <3>1. \A x \in Admins : x # r => req'[x].step = req[x].step
      BY <1>1, ReturnsTo
    <3> QED  BY <1>1, <1>2, <2>1, <3>1 DEF UnderWay
  <2>3. \A l \in Leaves \ spoilt : d[l] = last[l] \/ (Differs(l) /\ Stuck')
    BY <2>1
  <2>4. d \in Docs /\ last \in Docs
    BY <1>1 DEF SettingsTypeOK
  <2>5. \A l \in Leaves \ spoilt :
          Applied(d, t.leaf, t.n)[l] = Accept(r)[l] \/ (Differs(l) /\ Stuck')
    BY <1>3, <2>3, <2>4 DEF Applied, Docs
  <2>6. CASE t.step = "fetch"
    <3>1. Section(t.leaf) \cap MapLeaves = {} /\ Section(t.leaf) \subseteq Leaves
      BY <1>1, <2>6, LeavesAre DEF InOrder
    <3>2. \A l \in Section(t.leaf) \ spoilt : a.doc[l] = Accept(r)[l]
      BY <1>2, <2>5, <2>6, <3>1 DEF Differs
    <3> QED  BY <1>2, <1>3, <2>2, <2>6, <3>2 DEF Alone, Late
  <2>7. CASE t.step = "cfg"
    <3>1. CASE t.way = "fetched"
      <4>1. /\ t.leaf \in Leaves /\ Section(t.leaf) \subseteq Leaves
            /\ \A l \in Section(t.leaf) \ spoilt : t.doc[l] = Accept(r)[l]
        BY <1>1, <2>1, <2>7, <3>1, LeavesAre DEF InOrder, Alone
      <4>2. \A l \in Leaves : a.doc[l] = IF l \in Section(t.leaf) THEN t.doc[l] ELSE d[l]
        BY <1>2, <2>7, <3>1 DEF Replaced
      <4>3. \A l \in Leaves : l \notin Section(t.leaf) => Accept(r)[l] = last[l]
        BY <1>3, <2>4, <4>1, LeavesAre, ZenonT(60) DEF Applied, Docs
      <4>4. \A l \in Leaves \ spoilt : a.doc[l] = Accept(r)[l] \/ Stuck'
        BY <2>3, <4>1, <4>2, <4>3
      <4> QED  BY <1>2, <1>3, <2>2, <2>7, <4>4 DEF Alone, Late
    <3>2. CASE t.way # "fetched"
      <4>1. \A l \in Leaves \ spoilt : a.doc[l] = Accept(r)[l] \/ Stuck'
        BY <1>2, <2>5, <2>7, <3>2
      <4> QED  BY <1>2, <1>3, <2>2, <2>7, <4>1 DEF Alone, Late
    <3> QED  BY <3>1, <3>2
  <2> QED  BY <1>1, <2>6, <2>7
<1> QED  BY <1>4, <1>5 DEF Sound


LEMMA OthersKeep ==
  \* Another's command goes on as it was.
  ASSUME SettingsTypeOK, NEW r, NEW d \in Docs, NEW kept \in BOOLEAN, Returns(r, d, kept), NEW x \in Admins, x # r
  PROVE  /\ req'[x].step = req[x].step /\ req'[x].way = req[x].way /\ req'[x].leaf = req[x].leaf
         /\ req'[x].n = req[x].n /\ req'[x].met = req[x].met /\ req'[x].at = req[x].at
         /\ (req'[x].shared <=> kept /\ req[x].shared)
         /\ ~(kept /\ InPlace(r, d)) => req'[x].doc = req[x].doc
         /\ ~req[x].shared => req'[x] = req[x]
<1>1. \A y \in Admins : y # r =>
              /\ req'[y].step = req[y].step /\ req'[y].way = req[y].way /\ req'[y].leaf = req[y].leaf
              /\ req'[y].n = req[y].n /\ req'[y].met = req[y].met /\ req'[y].at = req[y].at
              /\ (req'[y].shared <=> kept /\ req[y].shared)
              /\ ~(kept /\ InPlace(r, d)) => req'[y].doc = req[y].doc
              /\ ~req[y].shared \/ (kept /\ ~InPlace(r, d)) => req'[y] = req[y]
  BY ReturnsTo
<1> QED  BY <1>1

LEMMA OthersRead ==
  \* The commands of the others have been met, unless it is the pass that reads.
  ASSUME SettingsInv, NEW r, NEW d \in Docs, NEW kept \in BOOLEAN, Reads(r), Returns(r, d, kept),
         kind' = kind, saved' = saved, tmp' = tmp, last' = last, spoilt' = spoilt,
         r = Pass => ~InPlace(r, d) /\ (Stuck => Stuck'), NEW x \in Admins, x # r
  PROVE  Sound(x)'
<1>1. SettingsTypeOK /\ Sound(x) /\ InOrder(x) /\ (req[x].step # "idle" /\ ~req[x].met => Alone(x))
  BY InvParts
<1>2. /\ req'[x].step = req[x].step /\ req'[x].way = req[x].way /\ req'[x].leaf = req[x].leaf
      /\ req'[x].n = req[x].n /\ req'[x].met = req[x].met /\ req'[x].at = req[x].at
      /\ (req'[x].shared <=> kept /\ req[x].shared)
      /\ ~(kept /\ InPlace(r, d)) => req'[x].doc = req[x].doc
      /\ ~req[x].shared => req'[x] = req[x]
  BY <1>1, ReturnsTo
<1>3. req[x].step = "idle" => req'[x] = req[x]
  BY <1>1, <1>2, NoCommandIs DEF InOrder
<1>4. CASE r \in Admins
  <2>1. req[r].step # "idle"
    BY <1>4, SettingsAssumption DEF Reads
  <2> QED  BY <1>1, <1>2, <1>3, <1>4, <2>1, OthersSound
<1>5. CASE r = Pass
  <2>1. req'[x].doc = req[x].doc /\ (Stuck => Stuck')
    BY <1>2, <1>5
  <2>2. Accept(x)' = Accept(x) /\ MapLeaves' = MapLeaves /\ Cut' = Cut /\ (ByRename' <=> ByRename)
    BY <1>2, KindKept DEF Accept
  <2>3. InOrder(x)'
    BY <1>1, <1>2, <1>3, <2>2 DEF InOrder
  <2>4. UnderWay' = UnderWay
    <3>1. \A y \in Admins : req'[y].step = req[y].step
      BY <1>1, <1>5, ReturnsTo, SettingsAssumption
    <3> QED  BY <3>1 DEF UnderWay
  <2>5. Alone(x) => Alone(x)'
    BY <1>2, <2>1, <2>2, <2>4 DEF Alone
  <2> QED  BY <1>1, <1>2, <2>3, <2>5 DEF Sound
<1> QED  BY <1>4, <1>5 DEF Reads

LEMMA DiffersStays ==
  \* What differs stays so while the controller's map does.
  ASSUME SettingsInv, NEW r, NEW d \in Docs, NEW kept \in BOOLEAN, Reads(r), Returns(r, d, kept),
         kind' = kind, stale' = stale
  PROVE  kept => \A l \in Leaves : Differs(l) => Differs(l)'
<1>1. SettingsTypeOK
  BY DEF SettingsInv
<1>2. ASSUME NEW x \in Admins, x # r
      PROVE  /\ req'[x].step = req[x].step /\ req'[x].way = req[x].way /\ req'[x].leaf = req[x].leaf
             /\ (req'[x].shared <=> kept /\ req[x].shared)
  <2>1. req'[x].step = req[x].step /\ req'[x].way = req[x].way /\ req'[x].leaf = req[x].leaf
    BY <1>1, <1>2, OthersKeep, Z3
  <2>2. (req'[x].shared <=> kept /\ req[x].shared)
    BY <1>1, <1>2, OthersKeep
  <2> QED BY <2>1, <2>2
<1>3. ASSUME NEW x \in Admins, NEW l, MarksIt(x, l), kept PROVE MarksIt(x, l)'
  <2>1. x # r
    BY <1>3, SettingsAssumption DEF MarksIt, Late, Reads
  <2> QED  BY <1>2, <1>3, <2>1 DEF MarksIt
<1> QED  BY <1>3, KindKept DEF Differs

LEMMA CuttingStays ==
  \* A file that was cut short is not written by reading.
  ASSUME SettingsInv, NEW r, NEW d \in Docs, NEW kept \in BOOLEAN, Reads(r), Returns(r, d, kept)
  PROVE  Cutting <=> Cutting'
<1> SettingsTypeOK
  BY DEF SettingsInv
<1>1. ASSUME NEW x \in Admins, x # r PROVE req'[x].step = req[x].step /\ req'[x].at = req[x].at
  BY <1>1, OthersKeep
<1>2. r \in Admins => req[r].step # "opened" /\ req'[r].step # "opened"
  <2> SUFFICES ASSUME r \in Admins PROVE req[r].step # "opened" /\ req'[r].step # "opened"
    OBVIOUS
  <2>1. req'[r] = Answer(r, d) /\ req[r].step \in {"fetch", "cfg"}
    BY ReturnsTo, SettingsAssumption DEF SettingsInv, Reads
  <2> QED  BY <2>1, AnswerIs DEF SettingsInv
<1> QED  BY <1>1, <1>2 DEF Cutting

LEMMA AnswerShares ==
  \* Nobody is handed a map that is not there.
  ASSUME SettingsInv, NEW r, NEW d \in Docs, NEW kept \in BOOLEAN, Reads(r), Returns(r, d, kept),
         ~HasMap(d), \A x \in Admins : ~req[x].shared
  PROVE  \A x \in Admins : ~req'[x].shared
<1> SettingsTypeOK
  BY DEF SettingsInv
<1>1. \A x \in Admins : x # r => ~req'[x].shared
  BY ReturnsTo
<1>2. r \in Admins => ~req'[r].shared
  BY ReturnsTo, AnswerIs
<1> QED  BY <1>1, <1>2

LEMMA GoesOnKeeps ==
  \* Whoever goes on with what the controller holds.
  ASSUME SettingsInv, NEW r \in Admins \cup {Pass}, Reads(r), SettingsTypeOK',
         Known \/ saved.is = "broken", getting'.who = NoOne, getting.who = NoOne \/ saved.is = "broken",
         Returns(r, cache.doc, TRUE), cache' = [cache EXCEPT !.read = TRUE, !.doc = Marked(r, cache.doc)],
         UNCHANGED <<kind, saved, tmp, orders, spoils, last, spoilt, stale>>
  PROVE  SettingsInv'
<1>1. /\ SettingsTypeOK /\ FileSays /\ CacheSays /\ GettingSays
      /\ kind' = kind /\ saved' = saved /\ tmp' = tmp /\ last' = last /\ spoilt' = spoilt /\ stale' = stale
  BY DEF SettingsInv
<1>2. cache.doc \in Docs /\ cache \in [doc : Docs, read : BOOLEAN, current : BOOLEAN]
  BY <1>1 DEF SettingsTypeOK
<1>3. cache'.read /\ cache'.current = cache.current /\ cache'.doc = Marked(r, cache.doc)
  BY <1>2
<1>4. \A l \in Leaves : Differs(l) => Differs(l)'
  BY <1>1, <1>2, DiffersStays
<1>5. /\ InPlace(r, cache.doc) => r # Pass /\ HasMap(cache.doc)
      /\ \A l \in Leaves : cache'.doc[l] = cache.doc[l] \/ Differs(l)'
  BY <1>1, <1>2, <1>3, MarkIs, SettingsAssumption DEF InPlace
<1>6. Cutting <=> Cutting'
  BY <1>1, <1>2, CuttingStays
<1>7. FileSays'
  BY <1>1, <1>4, <1>5, <1>6 DEF FileSays
<1>8. CacheSays'
  <2>1. saved.is = "missing" => /\ cache'.doc = Unset /\ ~stale /\ \A x \in Admins : ~req'[x].shared
    <3> SUFFICES ASSUME saved.is = "missing"
                 PROVE  cache'.doc = Unset /\ ~stale /\ \A x \in Admins : ~req'[x].shared
      OBVIOUS
    <3>1. cache.doc = Unset /\ ~stale /\ \A x \in Admins : ~req[x].shared
      BY <1>1 DEF CacheSays
    <3>2. ~HasMap(cache.doc)
      BY <3>1, LeavesAre DEF HasMap, Unset
    <3>3. cache'.doc = Unset
      BY <1>3, <1>5, <3>1, <3>2 DEF Marked
    <3> QED  BY <1>1, <1>2, <3>1, <3>2, <3>3, AnswerShares
  <2>2. kind # "node"
    <3>1. r \in Admins => InOrder(r) /\ req[r].step \in {"fetch", "cfg"}
      BY InvParts, SettingsAssumption DEF Reads
    <3> QED  BY <3>1 DEF InOrder, Reads
  <2> QED  BY <1>1, <1>3, <1>4, <1>5, <2>1, <2>2, KindKept DEF CacheSays
<1>9. GettingSays'
  BY DEF GettingSays
<1>10. Stuck <=> stale' /\ (saved.is = "broken" \/ (cache.read /\ cache.current))
  BY <1>1 DEF Stuck
<1>11. ASSUME NEW x \in Admins, x # r PROVE Sound(x)'
  <2>1. Stuck => Stuck'
    BY <1>1, <1>3 DEF Stuck
  <2> QED  BY <1>1, <1>2, <1>5, <1>11, <2>1, OthersRead
<1>12. r \in Admins => Sound(r)'
  <2> SUFFICES ASSUME r \in Admins PROVE Sound(r)'
    OBVIOUS
  <2>1. ASSUME UnderWay = {r}, NEW l \in Leaves \ spoilt PROVE cache.doc[l] = last[l] \/ (Differs(l) /\ Stuck')
    <3>1. req[r].step \in {"fetch", "cfg"} /\ ~Cutting /\ \A x \in Admins : ~MarksIt(x, l)
      BY <2>1, SettingsAssumption DEF Reads, Cutting, MarksIt, Late, UnderWay
    <3>2. Differs(l) => stale
      BY <3>1 DEF Differs
    <3>3. CASE saved.is = "broken"
      <4>1. cache.doc[l] = last[l] \/ Differs(l)
        BY <1>1, <3>1, <3>3 DEF FileSays
      <4>2. Differs(l) => Stuck'
        BY <1>1, <3>2, <3>3 DEF Stuck
      <4> QED  BY <4>1, <4>2
    <3>4. CASE saved.is # "broken"
      <4>1. saved.doc[l] = last[l]
        BY <1>1, <3>1, <3>4 DEF FileSays
      <4>2. CASE saved = Missing
        BY <1>1, <4>1, <4>2 DEF CacheSays, Missing
      <4>3. CASE cache.read /\ cache.current
        <5>1. cache.doc[l] = saved.doc[l] \/ Differs(l)
          BY <1>1, <4>3 DEF CacheSays
        <5>2. Differs(l) => Stuck'
          BY <1>1, <1>3, <3>2, <4>3 DEF Stuck
        <5> QED  BY <4>1, <5>1, <5>2
      <4> QED  BY <3>4, <4>2, <4>3 DEF Known
    <3> QED  BY <3>3, <3>4
  <2> QED  BY <1>1, <1>2, <2>1, ReadSound
<1> QED  BY <1>7, <1>8, <1>9, <1>11, <1>12 DEF SettingsInv


LEMMA StatKeeps ==
  \* Whoever looks goes on with what the controller holds, or will read the file.
  ASSUME SettingsInv, NEW r \in Admins \cup {Pass}, StatFile(r)
  PROVE  SettingsInv'
<1>1. SettingsTypeOK /\ SettingsTypeOK' /\ FileSays /\ CacheSays
  BY StatTyped DEF SettingsInv
<1>2. /\ Reads(r) /\ getting.who = NoOne
      /\ UNCHANGED <<kind, saved, tmp, orders, spoils, last, spoilt, stale>>
  BY DEF StatFile
<1>3. CASE Known
  BY <1>1, <1>2, <1>3, GoesOnKeeps DEF StatFile
<1>4. CASE ~Known
  <2>1. getting' = [who |-> r, changed |-> FALSE] /\ req' = req /\ cache' = cache
    BY <1>4 DEF StatFile
  <2>2. /\ kind' = kind /\ saved' = saved /\ tmp' = tmp /\ last' = last /\ spoilt' = spoilt /\ stale' = stale
        /\ getting'.who = r
    BY <1>2, <2>1
  <2>3. saved.is # "missing" /\ ~(cache.read /\ cache.current)
    BY <1>1, <1>4, ContentIs DEF Known, SettingsTypeOK
  <2>4. MapLeaves' = MapLeaves /\ Cut' = Cut /\ (ByRename' <=> ByRename) /\ UnderWay' = UnderWay
    BY <2>1, <2>2, KindKept DEF UnderWay
  <2>5. \A l \in Leaves : Differs(l) <=> Differs(l)'
    BY <2>1, <2>2, <2>4 DEF Differs, MarksIt
  <2>6. FileSays' /\ CacheSays'
    BY <1>1, <2>1, <2>2, <2>3, <2>4, <2>5 DEF FileSays, CacheSays, Cutting
  <2>7. GettingSays'
    BY <1>2, <2>1, <2>2 DEF GettingSays, Reads
  <2>8. ASSUME NEW x \in Admins PROVE Sound(x)'
    <3>1. Sound(x)
      BY InvParts
    <3>2. InOrder(x) => InOrder(x)'
      BY <2>1, <2>2, <2>4 DEF InOrder
    <3>3. Stuck => Stuck'
      BY <2>1, <2>2, <2>3 DEF Stuck
    <3>4. Accept(x)' = Accept(x)
      BY <2>1, <2>2 DEF Accept
    <3>5. Alone(x) => Alone(x)'
      BY <2>1, <2>2, <2>4, <3>3, <3>4 DEF Alone
    <3> QED  BY <2>1, <3>1, <3>2, <3>5 DEF Sound
  <2> QED  BY <1>1, <2>6, <2>7, <2>8 DEF SettingsInv
<1> QED  BY <1>3, <1>4

LEMMA LoadKeeps ==
  \* Whoever reads has what the file says, or what was in force if it does not parse.
  ASSUME SettingsInv, NEW r \in Admins \cup {Pass}, Load(r)
  PROVE  SettingsInv'
<1>1. SettingsTypeOK /\ SettingsTypeOK' /\ FileSays /\ CacheSays /\ GettingSays
  BY LoadTyped DEF SettingsInv
<1>2. /\ getting.who = r /\ getting' = NotGetting /\ r # NoOne
      /\ kind' = kind /\ saved' = saved /\ tmp' = tmp /\ orders' = orders /\ spoils' = spoils
      /\ last' = last /\ spoilt' = spoilt
  BY SettingsAssumption DEF Load, Pass, NoOne
<1>3. Reads(r) /\ getting'.who = NoOne /\ saved.is # "missing"
  BY <1>1, <1>2 DEF GettingSays, CacheSays, NotGetting
<1>4. CASE saved.is = "broken"
  <2>1. /\ cache' = [cache EXCEPT !.read = TRUE, !.doc = Marked(r, cache.doc)]
        /\ Returns(r, cache.doc, TRUE) /\ stale' = stale
    BY <1>4 DEF Load
  <2> QED  BY <1>1, <1>2, <1>3, <1>4, <2>1, GoesOnKeeps
<1>5. CASE saved.is # "broken"
  <2> DEFINE d == saved.doc
             kept == FALSE
  <2>1. /\ cache' = [doc |-> Marked(r, d), read |-> TRUE, current |-> ~getting.changed]
        /\ Returns(r, d, kept) /\ stale' = FALSE
    BY <1>5 DEF Load
  <2>2. d \in Docs /\ kept \in BOOLEAN /\ saved.is = "whole" /\ cache'.doc = Marked(r, d) /\ ~kept
    BY <1>1, <1>3, <1>5, <2>1, ContentIs DEF SettingsTypeOK
  <2>3. saved'.doc = d
    BY <1>2
  <2> HIDE DEF d, kept
  <2>4. \A l \in Leaves : cache'.doc[l] = d[l] \/ Differs(l)'
    BY <1>2, <1>3, <2>1, <2>2, MarkIs
  <2>5. Cutting <=> Cutting'
    BY <1>3, <2>1, <2>2, CuttingStays
  <2>6. FileSays'
    BY <1>1, <1>2, <1>5, <2>5 DEF FileSays
  <2>7. kind # "node"
    <3>1. r \in Admins => InOrder(r) /\ req[r].step \in {"fetch", "cfg"}
      BY <1>3, InvParts, SettingsAssumption DEF Reads
    <3> QED  BY <1>3, <3>1 DEF InOrder, Reads
  <2>8. CacheSays'
    BY <1>2, <2>1, <2>2, <2>3, <2>4, <2>7 DEF CacheSays
  <2>9. GettingSays'
    BY <1>3 DEF GettingSays
  <2>10. ~Stuck \/ r # Pass
    BY <1>2, <1>5 DEF Stuck
  <2>11. ASSUME NEW x \in Admins, x # r PROVE Sound(x)'
    <3>1. r = Pass => ~InPlace(r, d) /\ (Stuck => Stuck')
      BY <2>10, SettingsAssumption DEF InPlace
    <3> QED  BY <1>2, <1>3, <2>1, <2>2, <2>11, <3>1, OthersRead
  <2>12. r \in Admins => Sound(r)'
    <3> SUFFICES ASSUME r \in Admins PROVE Sound(r)'
      OBVIOUS
    <3>1. ASSUME UnderWay = {r} PROVE \A l \in Leaves \ spoilt : d[l] = last[l]
      <4>1. ~Cutting
        BY <1>3, <3>1, SettingsAssumption DEF Reads, Cutting, UnderWay
      <4> QED  BY <1>1, <1>5, <4>1 DEF FileSays, d
    <3> QED  BY <1>2, <1>3, <2>1, <2>2, <3>1, ReadSound
  <2> QED  BY <1>1, <2>6, <2>8, <2>9, <2>11, <2>12 DEF SettingsInv
<1> QED  BY <1>4, <1>5


LEMMA WritingInOrder ==
  \* A command that writes is the one that was to.
  ASSUME NEW r \in Admins, InOrder(r), kind' = kind, req'[r].step \in {"opened", "rename"},
         req'[r].step = "rename" => ByRename, req'[r].way = req[r].way, req'[r].leaf = req[r].leaf
  PROVE  InOrder(r)'
<1>1. MapLeaves' = MapLeaves /\ (ByRename' <=> ByRename)
  BY KindKept
<1>2. req'[r].step \notin {"idle", "fetch", "cfg", "save"}
  OBVIOUS
<1> QED  BY <1>1, <1>2 DEF InOrder

LEMMA OpenKeeps ==
  \* The file to be written, or the temporary one, is cut short.
  ASSUME SettingsInv, NEW r \in Admins, OpenFile(r)
  PROVE  SettingsInv'
<1> DEFINE c == [req[r] EXCEPT !.step = "opened", !.at = IF ByRename THEN "tmp" ELSE "disk"]
<1>1. /\ SettingsTypeOK /\ SettingsTypeOK' /\ FileSays /\ CacheSays /\ GettingSays
      /\ InOrder(r) /\ (req[r].step # "idle" /\ ~req[r].met => Alone(r))
      /\ req[r] \in Command
  BY OpenTyped, InvParts, CommandTyped
<1>2. /\ req[r].step = "save" /\ req' = [req EXCEPT ![r] = c]
      /\ kind' = kind /\ last' = last /\ spoilt' = spoilt /\ stale' = stale
  BY DEF OpenFile
<1>3. /\ c.step = "opened" /\ c.at = (IF ByRename THEN "tmp" ELSE "disk") /\ c.way = req[r].way
      /\ c.leaf = req[r].leaf /\ c.n = req[r].n /\ c.doc = req[r].doc /\ c.shared = req[r].shared
      /\ c.met = req[r].met
  BY <1>1 DEF Command
<1> HIDE DEF c
<1>4. req'[r] = c /\ \A x \in Admins : x # r => req'[x] = req[x]
  BY <1>1, <1>2 DEF SettingsTypeOK
<1>5. MapLeaves' = MapLeaves /\ Cut' = Cut /\ (ByRename' <=> ByRename)
  BY <1>2, KindKept
<1>6. UnderWay' = UnderWay
  BY <1>2, <1>3, <1>4 DEF UnderWay
<1>7. ASSUME NEW x \in Admins, x # r PROVE Sound(x)'
  <2>1. Sound(x) /\ req[r].step # "idle" /\ req'[x] = req[x]
    BY <1>2, <1>4, <1>7, InvParts
  <2> QED  BY <1>1, <1>2, <1>7, <2>1, OthersSound
<1>8. InOrder(r)'
  BY <1>1, <1>2, <1>3, <1>4, WritingInOrder
<1>9. Accept(r)' = Accept(r)
  BY <1>2, <1>3, <1>4 DEF Accept
<1>10. CASE ByRename
  <2>1. tmp' = Cut /\ saved' = saved /\ cache' = cache /\ getting' = getting
    BY <1>10 DEF OpenFile
  <2>2. Cutting => Cutting'
    BY <1>2, <1>4 DEF Cutting
  <2>3. \A l \in MapLeaves : Differs(l) => Differs(l)'
    <3>1. ASSUME NEW x \in Admins, NEW l, MarksIt(x, l) PROVE MarksIt(x, l)'
      BY <1>3, <1>4, <3>1 DEF MarksIt, Late
    <3> QED  BY <1>2, <1>5, <3>1 DEF Differs
  <2>4. FileSays' /\ CacheSays'
    <3>1. saved.is = "missing" =>
            getting'.who = NoOne /\ ~stale' /\ \A x \in Admins : ~req'[x].shared
      BY <1>1, <1>2, <1>3, <1>4, <2>1 DEF CacheSays
    <3>2. stale' => ByRename
      BY <1>10
    <3> QED  BY <1>1, <1>2, <2>1, <2>2, <2>3, <3>1, <3>2, SaysKept
  <2>5. GettingSays'
    BY <1>1, <1>2, <1>4, <2>1, GettingKept
  <2>6. ASSUME ~req[r].met PROVE Alone(r)'
    <3>1. Alone(r)
      BY <1>1, <1>2, <2>6
    <3>2. Stuck <=> Stuck'
      BY <1>2, <2>1 DEF Stuck
    <3> QED  BY <1>2, <1>3, <1>4, <1>5, <1>6, <1>9, <1>10, <2>1, <3>1, <3>2 DEF Alone, Late
  <2> QED  BY <1>1, <1>3, <1>4, <1>7, <1>8, <2>4, <2>5, <2>6 DEF SettingsInv, Sound
<1>11. CASE ~ByRename
  <2>1. DiskChanges(Cut) /\ tmp' = tmp /\ Cut \in Contents /\ Cut # Missing
    BY <1>11, UnsetTyped DEF OpenFile, Cut, Missing, Unparsable, Whole
  <2>2. saved' = Cut /\ getting'.who = getting.who
    BY <1>1, <2>1, DiskTyped
  <2>3. Cutting'
    BY <1>3, <1>4, <1>11 DEF Cutting
  <2>4. FileSays' /\ CacheSays'
    BY <1>1, <1>2, <2>1, <2>3, CacheSaysNow DEF FileSays
  <2>5. GettingSays'
    BY <1>1, <1>2, <1>4, <2>2, GettingKept
  <2>6. ASSUME ~req[r].met PROVE Alone(r)'
    <3>1. Alone(r) /\ ~Stuck
      BY <1>1, <1>2, <1>11, <2>6 DEF CacheSays, Stuck
    <3> QED  BY <1>2, <1>3, <1>4, <1>5, <1>6, <1>9, <1>11, <2>2, <3>1 DEF Alone, Late
  <2> QED  BY <1>1, <1>3, <1>4, <1>7, <1>8, <2>4, <2>5, <2>6 DEF SettingsInv, Sound
<1> QED  BY <1>10, <1>11

LEMMA OneFewer ==
  \* A command ends or goes on, the others are as they were.
  ASSUME SettingsInv, NEW r \in Admins, req[r].step # "idle", kind' = kind,
         \A x \in Admins : x # r => req'[x] = req[x]
  PROVE  \A x \in Admins : x # r => Sound(x)'
<1> SUFFICES ASSUME NEW x \in Admins, x # r PROVE Sound(x)'
  OBVIOUS
<1>1. Sound(x) /\ SettingsTypeOK /\ req'[x] = req[x]
  BY InvParts
<1> QED  BY <1>1, OthersSound

LEMMA SettingWriteKeeps ==
  \* The content is written, where the open file is now.
  ASSUME SettingsInv, NEW r \in Admins, WriteFile(r)
  PROVE  SettingsInv'
<1> DEFINE c == IF ByRename THEN [req[r] EXCEPT !.step = "rename"] ELSE NoCommand
<1>1. /\ SettingsTypeOK /\ SettingsTypeOK' /\ FileSays /\ CacheSays /\ GettingSays
      /\ InOrder(r) /\ (req[r].step # "idle" /\ ~req[r].met => Alone(r))
      /\ req[r] \in Command
  BY WriteTyped, InvParts, CommandTyped
<1>2. /\ req[r].step = "opened" /\ req' = [req EXCEPT ![r] = c]
      /\ kind' = kind /\ stale' = stale
  BY DEF WriteFile
<1>3. /\ ByRename => /\ c.step = "rename" /\ c.at = req[r].at /\ c.way = req[r].way
                     /\ c.leaf = req[r].leaf /\ c.n = req[r].n /\ c.doc = req[r].doc
                     /\ c.shared = req[r].shared /\ c.met = req[r].met
      /\ ~ByRename => c = NoCommand
  BY <1>1 DEF Command
<1> HIDE DEF c
<1>4. req'[r] = c /\ \A x \in Admins : x # r => req'[x] = req[x]
  BY <1>1, <1>2 DEF SettingsTypeOK
<1>5. MapLeaves' = MapLeaves /\ Cut' = Cut /\ (ByRename' <=> ByRename)
  BY <1>2, KindKept
<1>6. \A x \in Admins : x # r => Sound(x)'
  BY <1>2, <1>4, OneFewer
<1>7. ByRename => InOrder(r)'
  BY <1>1, <1>2, <1>3, <1>4, WritingInOrder
<1>8. ~ByRename => Sound(r)'
  BY <1>3, <1>4, IdleSound
<1>9. PICK d \in Content(r) :
        IF req[r].at = "tmp"
        THEN tmp' = d /\ UNCHANGED <<saved, cache, getting, last, spoilt>>
        ELSE /\ DiskChanges(d) /\ UNCHANGED tmp
             /\ Stands(d, IF ByRename THEN last ELSE Accept(r), Excused(r))
  BY DEF WriteFile
<1>10. CASE req[r].at = "tmp"
  <2>1. /\ tmp' = d /\ saved' = saved /\ cache' = cache /\ getting' = getting /\ last' = last
        /\ spoilt' = spoilt
    BY <1>9, <1>10
  <2>2. Cutting => Cutting'
    BY <1>4, <1>10 DEF Cutting
  <2>3. \A l \in MapLeaves : Differs(l) => Differs(l)'
    <3> SUFFICES ASSUME ByRename PROVE \A l \in MapLeaves : Differs(l) => Differs(l)'
      BY MapsAre
    <3>1. ASSUME NEW x \in Admins, NEW l, MarksIt(x, l) PROVE MarksIt(x, l)'
      BY <1>3, <1>4, <3>1 DEF MarksIt, Late
    <3> QED  BY <1>2, <1>5, <3>1 DEF Differs
  <2>4. FileSays' /\ CacheSays'
    <3>1. saved.is = "missing" =>
            getting'.who = NoOne /\ ~stale' /\ \A x \in Admins : ~req'[x].shared
      BY <1>1, <1>2, <1>3, <1>4, <2>1, NoCommandIs DEF CacheSays
    <3>2. stale' => ByRename
      BY <1>1, <1>2 DEF CacheSays
    <3> QED  BY <1>1, <1>2, <2>1, <2>2, <2>3, <3>1, <3>2, SaysKept
  <2>5. GettingSays'
    BY <1>1, <1>2, <1>4, <2>1, GettingKept
  <2>6. ASSUME ByRename, ~req[r].met PROVE Alone(r)'
    <3>1. Alone(r)
      BY <1>1, <1>2, <2>6
    <3>2. Stuck <=> Stuck'
      BY <1>2, <2>1 DEF Stuck
    <3>3. Accept(r)' = Accept(r)
      BY <1>2, <1>3, <1>4, <2>1, <2>6 DEF Accept
    <3>4. UnderWay' = UnderWay
      BY <1>2, <1>3, <1>4, <2>6 DEF UnderWay
    <3>5. d = Whole(req[r].doc)
      BY <1>2, <1>9, <1>10, <2>6, <3>1 DEF Content, Alone
    <3> QED  BY <1>2, <1>3, <1>4, <1>5, <2>1, <2>6, <3>1, <3>2, <3>3, <3>4, <3>5 DEF Alone, Late
  <2> QED  BY <1>1, <1>3, <1>4, <1>6, <1>7, <1>8, <2>4, <2>5, <2>6 DEF SettingsInv, Sound
<1>11. CASE req[r].at # "tmp"
  <2> DEFINE now == IF ByRename THEN last ELSE Accept(r)
  <2>1. DiskChanges(d) /\ Stands(d, now, Excused(r)) /\ tmp' = tmp
    BY <1>9, <1>11
  <2>2. d \in Contents /\ d # Missing
    <3>1. d = Whole(req[r].doc) \/ d = Unparsable
      BY <1>9 DEF Content
    <3>2. Unparsable # Missing
      BY DEF Unparsable, Missing
    <3> QED  BY <1>1, <3>1, <3>2, CommandTyped, WholeIs, UnsetTyped
  <2>3. saved' = d /\ cache'.doc = cache.doc /\ getting'.who = getting.who
    BY <1>1, <2>1, <2>2, DiskTyped
  <2>4. ASSUME ~Excused(r), d # Unparsable
        PROVE  \A l \in Leaves \ spoilt : InForce(d)[l] = now[l]
    <3>1. Alone(r) /\ ~Stuck
      BY <1>1, <1>2, <2>4 DEF Excused, Stuck
    <3>2. ~ByRename
      BY <1>2, <1>11, <3>1 DEF Alone
    <3>3. d = Whole(req[r].doc)
      BY <1>9, <2>4 DEF Content
    <3>4. InForce(d) = req[r].doc
      BY <3>3 DEF InForce, Whole
    <3> QED  BY <1>2, <3>1, <3>2, <3>4 DEF Alone, Late
  <2> HIDE DEF now
  <2>5. \A l \in Leaves \ spoilt' : InForce(d)[l] = last'[l]
    BY <2>1, <2>4, StandsSays
  <2>6. FileSays' /\ CacheSays'
    BY <1>1, <1>2, <2>1, <2>2, <2>3, <2>5, FileSaysNow, CacheSaysNow
  <2>7. GettingSays'
    BY <1>1, <1>2, <1>4, <2>3, GettingKept
  <2>8. ByRename => req[r].met
    BY <1>1, <1>2, <1>11 DEF Alone
  <2>9. Sound(r)'
    BY <1>3, <1>4, <1>7, <1>8, <2>8 DEF Sound
  <2> QED  BY <1>1, <1>6, <2>6, <2>7, <2>9 DEF SettingsInv
<1> QED  BY <1>10, <1>11


LEMMA BehindKeeps ==
  \* A change that fails stays in the map, where it differs.
  ASSUME SettingsInv, NEW r \in Admins, StaysBehind(r), req'[r] = NoCommand,
         kind' = kind, saved' = saved, cache' = cache, getting' = getting,
         \A x \in Admins : x # r => req'[x] = req[x]
  PROVE  /\ \A l \in Leaves : Differs(l) => Differs(l)'
         /\ CacheSays'
<1>1. SettingsTypeOK /\ CacheSays /\ InOrder(r)
  BY InvParts
<1>2. MapLeaves' = MapLeaves /\ (ByRename' <=> ByRename)
  BY KindKept
<1>3. stale' = (stale \/ (req[r].way = "inplace" /\ req[r].shared))
  BY DEF StaysBehind
<1>4. ASSUME NEW x \in Admins, NEW l, MarksIt(x, l) PROVE stale' \/ MarksIt(x, l)'
  BY <1>3, <1>4 DEF MarksIt
<1>5. \A l \in Leaves : Differs(l) => Differs(l)'
  BY <1>2, <1>3, <1>4 DEF Differs
<1>6. stale' => ByRename
  BY <1>1, <1>3, MapsAre DEF CacheSays, InOrder
<1>7. saved.is = "missing" => ~stale' /\ \A x \in Admins : ~req'[x].shared
  BY <1>1, <1>3, NoCommandIs DEF CacheSays
<1> QED  BY <1>1, <1>2, <1>5, <1>6, <1>7 DEF CacheSays

LEMMA RenameKeeps ==
  \* The temporary file takes the place of the other.
  ASSUME SettingsInv, NEW r \in Admins, Rename(r)
  PROVE  SettingsInv'
<1>1. /\ SettingsTypeOK /\ SettingsTypeOK' /\ FileSays /\ CacheSays /\ GettingSays
      /\ InOrder(r) /\ (req[r].step # "idle" /\ ~req[r].met => Alone(r))
      /\ req'[r] = NoCommand /\ \A x \in Admins : x # r => req'[x] = RenamedFor(x)
  BY RenameTyped, InvParts
<1>2. req[r].step = "rename" /\ kind' = kind /\ ByRename
  BY <1>1 DEF Rename, InOrder
<1>3. Sound(r)'
  BY <1>1, IdleSound
<1>4. CASE tmp = Missing
  <2>1. StaysBehind(r) /\ UNCHANGED <<saved, tmp, cache, getting, last, spoilt>>
    BY <1>4 DEF Rename
  <2>2. \A x \in Admins : x # r => req'[x] = req[x]
    BY <1>1, <1>4 DEF RenamedFor
  <2>3. (\A l \in Leaves : Differs(l) => Differs(l)') /\ CacheSays'
    BY <1>1, <1>2, <2>1, <2>2, BehindKeeps
  <2>4. Cutting => Cutting'
    BY <1>2, <2>2 DEF Cutting
  <2>5. FileSays'
    BY <1>1, <2>1, <2>3, <2>4 DEF FileSays
  <2>6. GettingSays'
    BY <1>1, <1>2, <2>1, <2>2, GettingKept
  <2>7. \A x \in Admins : x # r => Sound(x)'
    BY <1>2, <2>2, OneFewer
  <2> QED  BY <1>1, <1>3, <2>3, <2>5, <2>6, <2>7 DEF SettingsInv
<1>5. CASE tmp # Missing
  <2>1. DiskChanges(tmp) /\ Stands(tmp, Accept(r), Excused(r)) /\ stale' = stale
    BY <1>5 DEF Rename
  <2>2. tmp \in Contents
    BY <1>1 DEF SettingsTypeOK
  <2>3. saved' = tmp /\ cache'.doc = cache.doc /\ getting'.who = getting.who
    BY <1>1, <2>1, <2>2, DiskTyped
  <2>4. ASSUME ~Excused(r), tmp # Unparsable
        PROVE  \A l \in Leaves \ spoilt : InForce(tmp)[l] = Accept(r)[l]
    <3>1. Alone(r) /\ ~Stuck
      BY <1>1, <1>2, <2>4 DEF Excused, Stuck
    <3>2. tmp = Whole(req[r].doc)
      BY <1>2, <3>1 DEF Alone
    <3>3. InForce(tmp) = req[r].doc
      BY <3>2 DEF InForce, Whole
    <3> QED  BY <1>2, <3>1, <3>3 DEF Alone, Late
  <2>5. \A l \in Leaves \ spoilt' : InForce(tmp)[l] = last'[l]
    BY <2>1, <2>4, StandsSays
  <2>6. FileSays'
    BY <2>2, <2>3, <2>5, FileSaysNow
  <2>7. CacheSays'
    BY <1>1, <1>2, <1>5, <2>1, <2>2, CacheSaysNow
  <2>8. ASSUME NEW x \in Admins, x # r
        PROVE  /\ req'[x].step = req[x].step /\ req'[x].way = req[x].way /\ req'[x].leaf = req[x].leaf
               /\ req'[x].met = req[x].met /\ req'[x].shared = req[x].shared
               /\ req'[x].at = req[x].at \/ req[x].step = "opened"
               /\ req[x].step # "opened" => req'[x] = req[x]
    <3>1. req[x] \in Command /\ req'[x] = RenamedFor(x)
      BY <1>1, <2>8, CommandTyped
    <3>2. CASE req[x].step = "opened" /\ req[x].at = "tmp"
      <4>1. req'[x] = [req[x] EXCEPT !.at = "disk"]
        BY <1>5, <3>1, <3>2 DEF RenamedFor
      <4> QED  BY <3>1, <3>2, <4>1 DEF Command
    <3>3. CASE ~(req[x].step = "opened" /\ req[x].at = "tmp")
      BY <3>1, <3>3 DEF RenamedFor
    <3> QED  BY <3>2, <3>3
  <2>9. ASSUME NEW x \in Admins, x # r PROVE Sound(x)'
    <3>1. Sound(x) /\ req[r].step # "idle"
      BY <1>2, InvParts
    <3>2. /\ req[x].step = "idle" => req'[x] = req[x]
          /\ req'[x].step = req[x].step /\ req'[x].way = req[x].way /\ req'[x].leaf = req[x].leaf
          /\ req'[x].met = req[x].met /\ (req'[x].shared => req[x].shared)
          /\ req'[x].at = req[x].at \/ req[x].step = "opened"
      BY <2>8, <2>9
    <3> QED  BY <1>1, <1>2, <2>9, <3>1, <3>2, OthersSound
  <2>10. GettingSays'
    <3>1. \A x \in Admins : req[x].step \in {"fetch", "cfg"} => req'[x].step = req[x].step
      BY <1>2, <2>8
    <3> QED  BY <1>1, <1>2, <2>3, <3>1, GettingKept
  <2> QED  BY <1>1, <1>3, <2>6, <2>7, <2>9, <2>10 DEF SettingsInv
<1> QED  BY <1>4, <1>5

LEMMA FailKeeps ==
  \* The disk is full.
  ASSUME SettingsInv, NEW r \in Admins, SaveFails(r)
  PROVE  SettingsInv'
<1>1. SettingsTypeOK /\ SettingsTypeOK' /\ FileSays /\ CacheSays /\ GettingSays
  BY FailTyped, InvParts
<1>2. /\ req[r].step \in {"save", "opened"} /\ StaysBehind(r) /\ req' = [req EXCEPT ![r] = NoCommand]
      /\ kind' = kind /\ saved' = saved /\ cache' = cache /\ getting' = getting
  BY DEF SaveFails
<1>3. req'[r] = NoCommand /\ \A x \in Admins : x # r => req'[x] = req[x]
  BY <1>1, <1>2 DEF SettingsTypeOK
<1>4. Sound(r)'
  BY <1>3, IdleSound
<1>5. \A x \in Admins : x # r => Sound(x)'
  BY <1>2, <1>3, OneFewer
<1>6. (\A l \in Leaves : Differs(l) => Differs(l)') /\ CacheSays'
  BY <1>2, <1>3, BehindKeeps
<1>7. GettingSays'
  <2>1. \A x \in Admins : req[x].step \in {"fetch", "cfg"} => req'[x].step = req[x].step
    BY <1>2, <1>3
  <2> QED  BY <1>1, <1>2, <2>1, GettingKept
<1>8. FileSays'
  <2>1. CASE req[r].at = "disk"
    <3> DEFINE now == IF kind = "node" THEN Accept(r) ELSE last
    <3>1. Stands(saved, now, TRUE)
      BY <2>1 DEF SaveFails
    <3> HIDE DEF now
    <3>2. \A l \in Leaves \ spoilt' : InForce(saved)[l] = last'[l]
      BY <3>1, StandsSays
    <3>3. saved \in Contents /\ saved' = saved /\ cache'.doc = cache.doc
      BY <1>1, <1>2 DEF SettingsTypeOK
    <3> QED  BY <3>2, <3>3, FileSaysNow
  <2>2. CASE req[r].at # "disk"
    <3>1. last' = last /\ spoilt' = spoilt
      BY <2>2 DEF SaveFails
    <3>2. Cutting => Cutting'
      BY <1>3, <2>2 DEF Cutting
    <3> QED  BY <1>1, <1>2, <1>6, <3>1, <3>2 DEF FileSays
  <2> QED  BY <2>1, <2>2
<1> QED  BY <1>1, <1>4, <1>5, <1>6, <1>7, <1>8 DEF SettingsInv

LEMMA CrashKeeps ==
  \* Everything under way is gone, and what the controller had read.
  ASSUME SettingsInv, ControllerCrashes
  PROVE  SettingsInv'
<1>1. SettingsTypeOK /\ SettingsTypeOK' /\ FileSays /\ saved \in Contents
  BY CrashTyped DEF SettingsInv, SettingsTypeOK
<1>2. /\ cache' = NotRead /\ getting' = NotGetting /\ ~stale' /\ saved' = saved /\ last' = last
      /\ \A x \in Admins : req'[x] = NoCommand
  BY DEF ControllerCrashes
<1>3. cache'.doc = Unset /\ ~cache'.current /\ getting'.who = NoOne
  BY <1>2 DEF NotRead, NotGetting
<1>4. CacheSays' /\ GettingSays' /\ \A x \in Admins : Sound(x)'
  BY <1>2, <1>3, NoCommandIs, IdleSound DEF CacheSays, GettingSays
<1>5. FileSays'
  <2> DEFINE f == IF saved.is = "whole" THEN saved.doc ELSE Unset
  <2>1. spoilt' = {l \in Leaves : /\ f[l] # last[l]
                                  /\ \/ l \in spoilt \/ saved = Unparsable
                                     \/ \E r \in UnderWay : req[r].at = "disk"}
    BY DEF ControllerCrashes
  <2>2. saved.is # "broken" => f = saved.doc
    BY <1>1, ContentIs DEF Missing
  <2>3. saved.is = "broken" => saved = Unparsable /\ f = Unset
    BY <1>1, ContentIs
  <2> HIDE DEF f
  <2>4. Cutting => \E r \in UnderWay : req[r].at = "disk"
    BY DEF Cutting, UnderWay
  <2>5. \A l \in Leaves \ spoilt' : f[l] = last[l]
    BY <1>1, <2>1, <2>2, <2>3, <2>4 DEF FileSays
  <2> QED  BY <1>2, <1>3, <2>2, <2>3, <2>5 DEF FileSays
<1> QED  BY <1>1, <1>4, <1>5 DEF SettingsInv

LEMMA EditKeeps ==
  \* Somebody edits the file: what is under way has met that.
  ASSUME SettingsInv, EditBroken \/ \E leaf \in Leaves : EditByHand(leaf)
  PROVE  SettingsInv'
<1>1. SettingsTypeOK /\ SettingsTypeOK' /\ FileSays /\ CacheSays /\ GettingSays
  BY EditTyped DEF SettingsInv
<1>2. req' = Met /\ kind' = kind /\ stale' = stale /\ saved # Unparsable
  BY DEF EditBroken, EditByHand
<1>3. PICK c \in Contents, now \in Docs, excused \in BOOLEAN :
        /\ c # Missing /\ DiskChanges(c) /\ Stands(c, now, excused)
        /\ excused \/ c = Unparsable \/ \A l \in Leaves \ spoilt : InForce(c)[l] = now[l]
  <2>1. CASE EditBroken
    <3>1. DiskChanges(Unparsable) /\ Stands(Unparsable, last, TRUE) /\ Unparsable # Missing
      BY <2>1 DEF EditBroken, Unparsable, Missing
    <3> QED  BY <1>1, <3>1, UnsetTyped DEF SettingsTypeOK
  <2>2. ASSUME NEW leaf \in Leaves, EditByHand(leaf)
        PROVE  \E c \in Contents, now \in Docs, excused \in BOOLEAN :
                 /\ c # Missing /\ DiskChanges(c) /\ Stands(c, now, excused)
                 /\ excused \/ c = Unparsable \/ \A l \in Leaves \ spoilt : InForce(c)[l] = now[l]
    <3> DEFINE doc == [saved.doc EXCEPT ![leaf] = orders + 1]
               now == [last EXCEPT ![leaf] = orders + 1]
               exc == UnderWay # {}
    <3>1. orders + 1 \in 0..MaxOrders
      <4>1. orders < MaxOrders
        BY <2>2 DEF EditByHand
      <4>2. orders \in 0..MaxOrders /\ MaxOrders \in Nat
        BY <1>1, SettingsAssumption DEF SettingsTypeOK
      <4> QED  BY <4>1, <4>2
    <3>2. doc \in Docs /\ now \in Docs /\ saved.doc \in Docs /\ last \in Docs
      BY <1>1, <3>1, ContentIs, DocsChange DEF SettingsTypeOK
    <3>3. DiskChanges(Whole(doc)) /\ Stands(Whole(doc), now, exc)
      BY <2>2 DEF EditByHand
    <3>4. ASSUME ~exc PROVE \A l \in Leaves \ spoilt : doc[l] = now[l]
      <4>1. ~Cutting
        BY <3>4 DEF Cutting, UnderWay
      <4>2. saved.is # "broken"
        BY <1>1, <1>2, ContentIs DEF SettingsTypeOK
      <4>3. \A l \in Leaves \ spoilt : saved.doc[l] = last[l]
        BY <1>1, <4>1, <4>2 DEF FileSays
      <4> QED  BY <3>2, <4>3 DEF Docs
    <3>5. exc \in BOOLEAN
      OBVIOUS
    <3> HIDE DEF doc, now, exc
    <3>6. /\ Whole(doc) \in Contents /\ Whole(doc) # Missing /\ InForce(Whole(doc)) = doc
      BY <3>2, WholeIs DEF InForce
    <3>7. exc \/ \A l \in Leaves \ spoilt : InForce(Whole(doc))[l] = now[l]
      BY <3>4, <3>6
    <3> QED  BY <3>2, <3>3, <3>5, <3>6, <3>7
  <2> QED  BY <2>1, <2>2
<1>4. saved' = c /\ cache'.doc = cache.doc /\ getting'.who = getting.who
  BY <1>1, <1>3, DiskTyped
<1>5. \A l \in Leaves \ spoilt' : InForce(c)[l] = last'[l]
  BY <1>3, StandsSays
<1>6. FileSays' /\ CacheSays'
  BY <1>1, <1>2, <1>3, <1>4, <1>5, FileSaysNow, CacheSaysNow
<1>7. ASSUME NEW x \in Admins
      PROVE  /\ req[x].step = "idle" => req'[x] = req[x]
             /\ req[x].step # "idle" => req'[x].met
             /\ req'[x].step = req[x].step /\ req'[x].way = req[x].way /\ req'[x].leaf = req[x].leaf
             /\ req'[x].shared = req[x].shared /\ req'[x].at = req[x].at
  <2>1. /\ req[x] \in Command
        /\ req'[x] = IF req[x].step = "idle" THEN req[x] ELSE [req[x] EXCEPT !.met = TRUE]
    BY <1>1, <1>2, CommandTyped, MetTyped
  <2>2. CASE req[x].step = "idle"
    BY <2>1, <2>2
  <2>3. CASE req[x].step # "idle"
    <3>1. req'[x] = [req[x] EXCEPT !.met = TRUE]
      BY <2>1, <2>3
    <3> QED  BY <2>1, <2>3, <3>1 DEF Command
  <2> QED  BY <2>2, <2>3
<1>8. ASSUME NEW x \in Admins PROVE Sound(x)'
  <2>1. InOrder(x) => InOrder(x)'
    BY <1>2, <1>7, KindKept DEF InOrder
  <2> QED  BY <1>7, <2>1, InvParts DEF Sound
<1>9. GettingSays'
  BY <1>1, <1>2, <1>4, <1>7, GettingKept
<1> QED  BY <1>1, <1>6, <1>8, <1>9 DEF SettingsInv

LEMMA SettingsStart ==
  \* It holds before anything has been set.
  ASSUME SettingsInit
  PROVE  SettingsInv
<1>1. SettingsTypeOK
  <2>1. Unset \in Docs /\ Whole(Unset) \in Contents /\ Missing \in Contents /\ NoCommand \in Command
    BY UnsetTyped, WholeIs
  <2>2. NotRead \in [doc : Docs, read : BOOLEAN, current : BOOLEAN]
        /\ NotGetting \in [who : Admins \cup {NoOne, Pass}, changed : BOOLEAN]
    BY <2>1 DEF NotRead, NotGetting
  <2>3. 0 \in 0..MaxOrders /\ 0 \in 0..MaxSpoils
    BY SettingsAssumption
  <2> QED  BY <2>1, <2>2, <2>3 DEF SettingsInit, SettingsTypeOK
<1>2. /\ saved.doc = Unset /\ saved.is # "broken" /\ last = Unset /\ ~stale
      /\ cache.doc = Unset /\ ~cache.current /\ getting.who = NoOne
      /\ \A x \in Admins : req[x] = NoCommand
  BY DEF SettingsInit, Whole, Missing, NotRead, NotGetting
<1>3. FileSays /\ CacheSays /\ GettingSays
  BY <1>2, NoCommandIs DEF FileSays, CacheSays, GettingSays
<1>4. \A x \in Admins : Sound(x)
  <2>1. \A x \in Admins : req[x] = NoCommand /\ req[x].step = "idle" /\ req[x].way \notin {"fetched", "inplace"}
    BY <1>2, NoCommandIs
  <2> QED  BY <2>1 DEF Sound, InOrder
<1> QED  BY <1>1, <1>3, <1>4 DEF SettingsInv

LEMMA SettingsStep ==
  \* Every step keeps it.
  ASSUME SettingsInv, [SettingsNext]_settingsVars
  PROVE  SettingsInv'
<1>1. CASE \E r \in Admins, leaf \in Leaves \cup {""} :
             \/ qosSet(r, leaf) \/ prioritySet(r, leaf) \/ setNodeName(r, leaf) \/ SetValue(r, leaf)
             \/ upController(r, leaf)
  <2>1. PICK r \in Admins, leaf \in AnyLeaf :
          \/ qosSet(r, leaf) \/ prioritySet(r, leaf) \/ setNodeName(r, leaf) \/ SetValue(r, leaf)
          \/ upController(r, leaf)
    BY <1>1 DEF AnyLeaf
  <2>2. PICK l, way : CanBegin(r, l, way)
    BY <2>1, CommandsBegin
  <2> QED  BY <2>2, BeginKeeps
<1>2. ASSUME NEW r \in Admins, SetUserShares(r) \/ setClusterName(r) PROVE SettingsInv'
  <2>1. PICK leaf \in AnyLeaf : TRUE
    BY DEF AnyLeaf
  <2>2. PICK l, way : CanBegin(r, l, way)
    BY <1>2, <2>1, CommandsBegin
  <2> QED  BY <2>2, BeginKeeps
<1>3. ASSUME NEW r \in Admins \cup {Pass}, StatFile(r) \/ Load(r) PROVE SettingsInv'
  BY <1>3, StatKeeps, LoadKeeps
<1>4. ASSUME NEW r \in Admins, OpenFile(r) \/ WriteFile(r) \/ Rename(r) \/ SaveFails(r) PROVE SettingsInv'
  BY <1>4, OpenKeeps, SettingWriteKeeps, RenameKeeps, FailKeeps
<1>5. CASE ControllerCrashes
  BY <1>5, CrashKeeps
<1>6. CASE EditBroken \/ \E leaf \in Leaves : EditByHand(leaf)
  BY <1>6, EditKeeps
<1>7. CASE UNCHANGED settingsVars
  <2>1. /\ kind' = kind /\ saved' = saved /\ tmp' = tmp /\ cache' = cache /\ getting' = getting
        /\ req' = req /\ orders' = orders /\ spoils' = spoils /\ last' = last /\ spoilt' = spoilt
        /\ stale' = stale
    BY <1>7 DEF settingsVars
  <2>2. SettingsTypeOK => SettingsTypeOK'
    BY <2>1 DEF SettingsTypeOK
  <2>3. FileSays => FileSays'
    BY <2>1 DEF FileSays, Differs, MarksIt, Cutting, MapLeaves
  <2>4. CacheSays => CacheSays'
    BY <2>1 DEF CacheSays, Differs, MarksIt, MapLeaves, ByRename
  <2>5. GettingSays => GettingSays'
    BY <2>1 DEF GettingSays, Reads
  <2>6. ASSUME NEW x \in Admins PROVE Sound(x) => Sound(x)'
    <3>1. InOrder(x) => InOrder(x)'
      BY <2>1, KindKept DEF InOrder
    <3>2. Stuck' = Stuck /\ Accept(x)' = Accept(x) /\ UnderWay' = UnderWay
      BY <2>1 DEF Stuck, Accept, UnderWay
    <3>3. Alone(x) => Alone(x)'
      BY <2>1, <3>2, KindKept DEF Alone
    <3> QED  BY <2>1, <3>1, <3>3 DEF Sound
  <2> QED  BY <2>2, <2>3, <2>4, <2>5, <2>6 DEF SettingsInv
<1> QED  BY <1>1, <1>2, <1>3, <1>4, <1>5, <1>6, <1>7 DEF SettingsNext

LEMMA SettingsSafe ==
  \* With nothing under way, the file says what stands.
  ASSUME SettingsInv
  PROVE  SettingsStand
<1> SUFFICES ASSUME UnderWay = {}
             PROVE  /\ saved.is # "broken" => \A l \in Leaves \ spoilt : saved.doc[l] = last[l]
                    /\ (cache.read /\ cache.current /\ getting.who = NoOne /\ ~stale /\ saved.is = "whole") =>
                         cache.doc = saved.doc
  BY DEF SettingsStand
<1>1. \A x \in Admins : req[x].step = "idle"
  BY DEF UnderWay
<1>2. ~Cutting /\ \A l \in Leaves : Differs(l) => stale
  BY <1>1 DEF Cutting, Differs, MarksIt, Late
<1>3. saved.is # "broken" => \A l \in Leaves \ spoilt : saved.doc[l] = last[l]
  BY <1>2 DEF SettingsInv, FileSays
<1>4. cache.doc \in Docs /\ saved.doc \in Docs
  BY ContentIs DEF SettingsInv, SettingsTypeOK
<1>5. ASSUME cache.current, ~stale PROVE cache.doc = saved.doc
  <2>1. \A l \in Leaves : cache.doc[l] = saved.doc[l]
    BY <1>2, <1>5 DEF SettingsInv, CacheSays
  <2> QED  BY <1>4, <2>1 DEF Docs
<1> QED  BY <1>3, <1>5

\* What is under way in the settings, and what was read, are always something the
\* commands and the controller can have.
THEOREM SettingsTypeCorrect == SettingsSpec => []SettingsTypeOK
<1>1. SettingsInv => SettingsTypeOK
  BY DEF SettingsInv
<1> QED  BY <1>1, SettingsStart, SettingsStep, PTL DEF SettingsSpec

\* Whoever changes settings, in whatever order and through whatever fails, a setting
\* nothing came between stands in the file, and the controller knows it.
THEOREM SettingsStandHolds == SettingsSpec => []SettingsStand
BY SettingsStart, SettingsStep, SettingsSafe, PTL DEF SettingsSpec

(*-------------------------------------------------------------------------*)
(* All of them together                                                    *)
(*-------------------------------------------------------------------------*)

\* What is invariant of each part; Services needs no more than its types here.
EachPart ==
  /\ MemberInv /\ OwnerInv /\ AccountsInv /\ ServicesTypeOK
  /\ MoveInv /\ StreamsInv /\ MachineInv /\ SettingsInv

LEMMA EachPartStarts == Init => EachPart
BY MemberStarts, OwnerStarts, AccountsStarts, ServicesStarts, MoveStarts, StreamsStarts, MachineStarts,
   SettingsStart
   DEF Init, EachPart

LEMMA EachPartStep ==
  \* Each part steps by its own rules or stays as it is.
  EachPart /\ [Next]_all => EachPart'
<1> SUFFICES ASSUME EachPart, [Next]_all PROVE EachPart'
  OBVIOUS
<1>1. /\ [MemberNext]_memberVars /\ [OwnerNext]_ownerVars /\ [AccountsNext]_accountVars
      /\ [ServicesNext]_svcVars /\ [TransfersNext]_xferVars /\ [StreamsNext]_streamVars
      /\ [MachineNext]_machineVars /\ [SettingsNext]_settingsVars
  BY DEF Next, all
<1>2. MemberInv' /\ OwnerInv' /\ AccountsInv' /\ ServicesTypeOK'
  BY <1>1, MemberStep, OwnerStep, AccountsStep, TypesKept DEF EachPart
<1>3. MoveInv' /\ StreamsInv' /\ MachineInv' /\ SettingsInv'
  BY <1>1, MoveKeeps, StreamsStep, StreamsStays, MachineStep, MachineStays, SettingsStep DEF EachPart
<1> QED  BY <1>2, <1>3 DEF EachPart

\* Every variable of every part keeps its type.
THEOREM ClusterTypeCorrect == Spec => []ClusterTypeOK
<1>1. EachPart => ClusterTypeOK
  BY MemberTypedIsTypeOK, OwnerTypedIsTypeOK, AccountsTypedIsTypeOK
     DEF EachPart, ClusterTypeOK, MemberInv, OwnerInv, AccountsInv, MoveInv, StreamsInv, MachineInv, SettingsInv
<1> QED  BY <1>1, EachPartStarts, EachPartStep, PTL DEF Spec

=============================================================================
