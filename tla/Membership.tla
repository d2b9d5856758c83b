----------------------------- MODULE Membership -----------------------------
(***************************************************************************)
(* Which machines belong to the cluster: join tokens and the identity they *)
(* buy, the registry row a heartbeat makes, expiry, the admin's drain,     *)
(* resume, stop and forget, and the owner's word that a heartbeat carries. *)
(*                                                                         *)
(* A machine is known by one name.  Every statement on the store is        *)
(* atomic; the handlers of heartbeats, joins and requests and the tick of  *)
(* the controller interleave between them.  A machine has one heartbeat    *)
(* and one join under way at a time.                                       *)
(***************************************************************************)
EXTENDS Naturals, FiniteSets

CONSTANTS
  Machines,
  Tokens,
  MaxAdmin,     \* bound: requests of admins
  MaxOwner,     \* bound: changes of the owners' minds
  MaxMishaps    \* bound: crashes, lost messages, expired tokens, wiped machines

VARIABLES
  \* the store
  token,      \* join_tokens: "none", "fresh", "used" or "expired"
  row,        \* nodes.state, "none" without a row
  why,        \* nodes.reason: whose drain it is
  forgotten,  \* forgotten_nodes
  \* the controller
  stops,      \* machines for which a stop is queued
  beat,       \* per machine: the heartbeat under way, at the agent or in the handler
  join,       \* per machine: the join under way
  removal,    \* per machine: the RemoveNode under way
  silent,     \* machines the tick found silent and has not marked yet
  \* the machines
  cert,       \* those with an identity on disk
  agent,      \* those whose agent runs
  mind,       \* per machine: the owner's disposition
  \* history and bounds
  bought,     \* per token: identities issued for it
  overtaken,  \* machines removed while a heartbeat was past its check
  admin, owner, mishaps

\* There is some token to ask with.
ASSUME MemberAssumption == Tokens # {}

store == <<token, row, why, forgotten>>
memory == <<stops, beat, join, removal, silent>>
machine == <<cert, agent, mind>>
memberVars == <<store, memory, machine, bought, overtaken, admin, owner, mishaps>>

Quiet == [step |-> "idle", says |-> "run", known |-> TRUE, stop |-> FALSE]
NoJoin == [step |-> "idle", tok |-> CHOOSE t \in Tokens : TRUE]

MemberTypeOK ==
  /\ token \in [Tokens -> {"none", "fresh", "used", "expired"}]
  /\ row \in [Machines -> {"none", "UP", "DOWN", "DRAIN"}]
  /\ why \in [Machines -> {"nobody", "owner", "admin"}]
  /\ forgotten \subseteq Machines /\ stops \subseteq Machines /\ silent \subseteq Machines
  /\ beat \in [Machines -> [step: {"idle", "check", "owner", "lift", "upsert", "queue", "reply"},
                            says: {"run", "drain"}, known: BOOLEAN, stop: BOOLEAN]]
  /\ join \in [Machines -> [step: {"idle", "redeem", "unforget", "reply"}, tok: Tokens]]
  /\ removal \in [Machines -> {"idle", "forget", "clear"}]
  /\ cert \subseteq Machines /\ agent \subseteq Machines
  /\ mind \in [Machines -> {"run", "drain"}]
  /\ bought \in [Tokens -> Nat] /\ overtaken \subseteq Machines
  /\ admin \in Nat /\ owner \in Nat /\ mishaps \in Nat

MemberInit ==
  /\ token = [t \in Tokens |-> "none"]
  /\ row = [m \in Machines |-> "none"] /\ why = [m \in Machines |-> "nobody"]
  /\ forgotten = {} /\ stops = {} /\ silent = {}
  /\ beat = [m \in Machines |-> Quiet] /\ join = [m \in Machines |-> NoJoin]
  /\ removal = [m \in Machines |-> "idle"]
  /\ cert = {} /\ agent = {} /\ mind = [m \in Machines |-> "run"]
  /\ bought = [t \in Tokens |-> 0] /\ overtaken = {}
  /\ admin = 0 /\ owner = 0 /\ mishaps = 0

Asks == admin < MaxAdmin /\ admin' = admin + 1
Mishap == mishaps < MaxMishaps /\ mishaps' = mishaps + 1

SetState(m, s, r) == row' = [row EXCEPT ![m] = s] /\ why' = [why EXCEPT ![m] = r]

-----------------------------------------------------------------------------
(* Joining *)

CreateJoinToken(t) ==
  /\ token[t] = "none"
  /\ token' = [token EXCEPT ![t] = "fresh"]
  /\ UNCHANGED <<row, why, forgotten, memory, machine, bought, overtaken, admin, owner, mishaps>>

TokenExpires(t) ==
  /\ token[t] = "fresh" /\ Mishap
  /\ token' = [token EXCEPT ![t] = "expired"]
  /\ UNCHANGED <<row, why, forgotten, memory, machine, bought, overtaken, admin, owner>>

\* RunAgent asks only for a machine without an identity on disk.  The token may
\* have been used, by another machine as well.
JoinAsk(m, t) ==
  /\ m \notin cert /\ m \notin agent /\ join[m].step = "idle" /\ token[t] # "none"
  /\ IF token[t] = "fresh" THEN UNCHANGED mishaps ELSE Mishap
  /\ join' = [join EXCEPT ![m] = [step |-> "redeem", tok |-> t]]
  /\ UNCHANGED <<store, stops, beat, removal, silent, machine, bought, overtaken, admin, owner>>

\* One UPDATE marks the token and says whether it was still good; the certificate
\* is issued then.
RedeemJoinToken(m) ==
  /\ join[m].step = "redeem"
  /\ LET t == join[m].tok
     IN  IF token[t] = "fresh"
         THEN /\ token' = [token EXCEPT ![t] = "used"]
              /\ bought' = [bought EXCEPT ![t] = @ + 1]
              /\ join' = [join EXCEPT ![m].step = "unforget"]
         ELSE join' = [join EXCEPT ![m] = NoJoin] /\ UNCHANGED <<token, bought>>
  /\ UNCHANGED <<row, why, forgotten, stops, beat, removal, silent, machine, overtaken,
                 admin, owner, mishaps>>

UnforgetNode(m) ==
  /\ join[m].step = "unforget"
  /\ forgotten' = forgotten \ {m}
  /\ join' = [join EXCEPT ![m].step = "reply"]
  /\ UNCHANGED <<token, row, why, stops, beat, removal, silent, machine, bought, overtaken,
                 admin, owner, mishaps>>

\* The identity is saved and the agent starts, or the response is lost and the
\* token is gone.
Joined(m) ==
  /\ join[m].step = "reply"
  /\ join' = [join EXCEPT ![m] = NoJoin]
  /\ \/ cert' = cert \cup {m} /\ agent' = agent \cup {m} /\ UNCHANGED mishaps
     \/ Mishap /\ UNCHANGED <<cert, agent>>
  /\ UNCHANGED <<store, stops, beat, removal, silent, mind, bought, overtaken, admin, owner>>

\* "shome up", or "shome join" on a machine that has an identity: any token given
\* is ignored.
StartAgent(m) ==
  /\ m \in cert \ agent
  /\ agent' = agent \cup {m}
  /\ UNCHANGED <<store, memory, cert, mind, bought, overtaken, admin, owner, mishaps>>

\* The process goes away; an exchange under way is left to the controller.
AgentDies(m) ==
  /\ m \in agent /\ Mishap
  /\ agent' = agent \ {m}
  /\ UNCHANGED <<store, memory, cert, mind, bought, overtaken, admin, owner>>

\* "shome nuke" takes the identity away; what it tells the controller is Remove.
Wipe(m) ==
  /\ m \in cert \ agent /\ Mishap
  /\ cert' = cert \ {m}
  /\ UNCHANGED <<store, memory, agent, mind, bought, overtaken, admin, owner>>

-----------------------------------------------------------------------------
(* HandleHeartbeat *)

OwnerDecides(m) ==
  /\ owner < MaxOwner /\ owner' = owner + 1
  /\ mind' = [mind EXCEPT ![m] = IF @ = "run" THEN "drain" ELSE "run"]
  /\ UNCHANGED <<store, memory, cert, agent, bought, overtaken, admin, mishaps>>

Goes(m, step) == beat' = [beat EXCEPT ![m].step = step]
Handler == <<token, forgotten, join, removal, silent, machine, bought, admin, owner, mishaps>>

SendBeat(m) ==
  /\ m \in agent /\ beat[m].step = "idle"
  /\ beat' = [beat EXCEPT ![m] = [Quiet EXCEPT !.step = "check", !.says = mind[m]]]
  /\ UNCHANGED <<row, why, stops, overtaken, Handler>>

\* Mutant: a machine that was removed is not told apart.
CheckForgottenMutant(m) ==
  /\ beat[m].step = "check"
  /\ Goes(m, "owner")
  /\ UNCHANGED <<row, why, stops, overtaken, Handler>>

CheckForgotten(m) ==
  /\ beat[m].step = "check"
  /\ IF m \in forgotten
     THEN beat' = [beat EXCEPT ![m].step = "reply", ![m].known = FALSE] /\ UNCHANGED overtaken
     ELSE /\ Goes(m, "owner")
          /\ overtaken' = IF removal[m] = "forget" THEN overtaken \cup {m} ELSE overtaken
  /\ UNCHANGED <<row, why, stops, Handler>>

\* The owner's drain overwrites whatever the row says, an admin's drain included.
OwnerDrains(m) ==
  /\ beat[m].step = "owner" /\ beat[m].says = "drain"
  /\ IF row[m] = "none" THEN UNCHANGED <<row, why>> ELSE SetState(m, "DRAIN", "owner")
  /\ Goes(m, "upsert")
  /\ UNCHANGED <<stops, overtaken, Handler>>

\* Only a drain of the owner's is lifted; the row is read first, written then.
OwnerRuns(m) ==
  /\ beat[m].step = "owner" /\ beat[m].says = "run"
  /\ Goes(m, IF row[m] = "DRAIN" /\ why[m] = "owner" THEN "lift" ELSE "upsert")
  /\ UNCHANGED <<row, why, stops, overtaken, Handler>>

Lift(m) ==
  /\ beat[m].step = "lift"
  /\ IF row[m] = "none" THEN UNCHANGED <<row, why>> ELSE SetState(m, "UP", "nobody")
  /\ Goes(m, "upsert")
  /\ UNCHANGED <<stops, overtaken, Handler>>

\* Mutant: a node that reports is up.
UpsertNodeMutant(m) ==
  /\ beat[m].step = "upsert"
  /\ SetState(m, "UP", "nobody")
  /\ Goes(m, "queue")
  /\ UNCHANGED <<stops, overtaken, Handler>>

\* A drained node stays drained.
UpsertNode(m) ==
  /\ beat[m].step = "upsert"
  /\ IF row[m] = "DRAIN" THEN UNCHANGED <<row, why>> ELSE SetState(m, "UP", "nobody")
  /\ Goes(m, "queue")
  /\ UNCHANGED <<stops, overtaken, Handler>>

TakeActions(m) ==
  /\ beat[m].step = "queue"
  /\ beat' = [beat EXCEPT ![m].step = "reply", ![m].stop = m \in stops]
  /\ stops' = stops \ {m}
  /\ UNCHANGED <<row, why, overtaken, Handler>>

\* An agent that is not known any more, or asked to stop, stops.
ReceiveReply(m) ==
  /\ beat[m].step = "reply"
  /\ beat' = [beat EXCEPT ![m] = Quiet]
  /\ \/ /\ agent' = IF beat[m].known /\ ~beat[m].stop THEN agent ELSE agent \ {m}
        /\ UNCHANGED mishaps
     \/ Mishap /\ UNCHANGED agent
  /\ UNCHANGED <<store, stops, join, removal, silent, cert, mind, bought, overtaken, admin, owner>>

-----------------------------------------------------------------------------
(* The tick and the admin *)

\* ExpireNodes selects, then marks, whatever has become of the rows.
FindSilent(m) ==
  /\ row[m] = "UP" /\ m \notin silent
  /\ IF m \notin agent THEN UNCHANGED mishaps ELSE Mishap
  /\ silent' = silent \cup {m}
  /\ UNCHANGED <<store, stops, beat, join, removal, machine, bought, overtaken, admin, owner>>

\* expireNodes drops the actions of the node it marks.
MarkDown(m) ==
  /\ m \in silent
  /\ IF row[m] = "none" THEN UNCHANGED <<row, why>> ELSE SetState(m, "DOWN", "nobody")
  /\ silent' = silent \ {m}
  /\ stops' = stops \ {m}
  /\ UNCHANGED <<token, forgotten, beat, join, removal, machine, bought, overtaken,
                 admin, owner, mishaps>>

Admin(m) == row[m] # "none" /\ Asks
Request == <<token, beat, join, silent, machine, bought, owner, mishaps>>

DrainNode(m) ==
  /\ Admin(m) /\ SetState(m, "DRAIN", "admin")
  /\ UNCHANGED <<forgotten, stops, removal, overtaken, Request>>

ResumeNode(m) ==
  /\ Admin(m) /\ SetState(m, "UP", "nobody")
  /\ UNCHANGED <<forgotten, stops, removal, overtaken, Request>>

StopNode(m) ==
  /\ Admin(m) /\ SetState(m, "DRAIN", "admin")
  /\ stops' = stops \cup {m}
  /\ UNCHANGED <<forgotten, removal, overtaken, Request>>

\* RemoveNode, for an admin or for the machine itself: three steps.
Remove(m) ==
  /\ removal[m] = "idle" /\ Admin(m)
  /\ SetState(m, "none", "nobody")
  /\ removal' = [removal EXCEPT ![m] = "forget"]
  /\ overtaken' = IF beat[m].step \in {"owner", "lift", "upsert"} THEN overtaken \cup {m} ELSE overtaken \ {m}
  /\ UNCHANGED <<forgotten, stops, Request>>

ForgetNode(m) ==
  /\ removal[m] = "forget"
  /\ forgotten' = forgotten \cup {m}
  /\ removal' = [removal EXCEPT ![m] = "clear"]
  /\ UNCHANGED <<row, why, stops, overtaken, admin, Request>>

ClearActions(m) ==
  /\ removal[m] = "clear"
  /\ stops' = stops \ {m}
  /\ removal' = [removal EXCEPT ![m] = "idle"]
  /\ UNCHANGED <<row, why, forgotten, overtaken, admin, Request>>

-----------------------------------------------------------------------------

JoinStep(m) == RedeemJoinToken(m) \/ UnforgetNode(m) \/ Joined(m)

BeatStep(m) ==
  \/ CheckForgotten(m) \/ OwnerDrains(m) \/ OwnerRuns(m) \/ Lift(m) \/ UpsertNode(m)
  \/ TakeActions(m) \/ ReceiveReply(m)

AdminStep(m) == DrainNode(m) \/ ResumeNode(m) \/ StopNode(m) \/ Remove(m)
RemovalStep(m) == ForgetNode(m) \/ ClearActions(m)

MemberNext ==
  \/ \E t \in Tokens : CreateJoinToken(t) \/ TokenExpires(t)
  \/ \E m \in Machines :
       \/ \E t \in Tokens : JoinAsk(m, t)
       \/ JoinStep(m)
       \/ StartAgent(m) \/ AgentDies(m) \/ Wipe(m) \/ OwnerDecides(m)
       \/ SendBeat(m) \/ BeatStep(m)
       \/ FindSilent(m) \/ MarkDown(m)
       \/ AdminStep(m) \/ RemovalStep(m)

MemberSpec == MemberInit /\ [][MemberNext]_memberVars

\* Handlers are carried to their end, and an agent that runs sends heartbeats.
Fairness ==
  \A m \in Machines :
    /\ WF_memberVars(SendBeat(m))
    /\ WF_memberVars(BeatStep(m))
    /\ WF_memberVars(RemovalStep(m))
    /\ WF_memberVars(MarkDown(m))

MemberFairSpec == MemberSpec /\ Fairness

-----------------------------------------------------------------------------
(* Properties *)

\* A join token buys one identity at the most, however many machines try it at
\* once and however often it is tried (RedeemJoinToken: "two agents racing with
\* the same token cannot both succeed").
TokenBuysOne == \A t \in Tokens : bought[t] <= 1

\* A removed machine is in the registry again only through a heartbeat that was
\* past its check when the removal was recorded; none sent later brings it back,
\* over any number of restarts and expiries (HandleHeartbeat, RemoveNode).
RemovedStaysOut == \A m \in forgotten : row[m] # "none" => m \in overtaken

\* Who is in the cluster got in with a token of its own, and who was put out is out.
JoinsHold == TokenBuysOne /\ RemovedStaysOut

\* The agent of a removed machine stops, whatever is lost on the way, unless the
\* machine is taken in again (RunLoop on Known = false).
RemovedStops == \A m \in Machines : (m \in forgotten /\ m \in agent) ~> (m \notin agent \/ m \notin forgotten)

\* When the owner has taken the machine back and its agent says so, no admin keeps
\* it open for new work (HandleHeartbeat: "A cluster admin can drain a node, but
\* cannot un-drain one whose owner has taken it back").
OwnerPrevails ==
  \A m \in Machines : <>[](mind[m] = "drain" /\ m \in agent) => <>[](row[m] # "UP")

=============================================================================
