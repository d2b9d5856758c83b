------------------------------ MODULE Daemons ------------------------------
(***************************************************************************)
(* The daemons of one machine and how a command finds one of them.  A      *)
(* controller holds a port, for the agents, and the control socket of its  *)
(* root; an agent holds the control socket of its root, and forwards what  *)
(* comes to it.  A file in the owner's home, one for each kind, points to  *)
(* a root.  A socket file outlives the process that is killed, and is      *)
(* removed by the next one that finds nobody answering on it; a pointer    *)
(* outlives it too.                                                        *)
(***************************************************************************)
EXTENDS Integers, FiniteSets

CONSTANTS
  Daemons,      \* processes; one runs once
  Roots, Ports, \* what they are started with
  Default,      \* the platform's root
  MaxKills,     \* bound
  None

ASSUME DaemonsAssumption ==
  /\ None \notin Daemons \cup Roots \cup Ports
  /\ Default \in Roots /\ MaxKills \in Nat

VARIABLES
  proc,         \* each process: how far it is, and what it was started with
  sock,         \* by root: whose socket the file there is
  pointer, nodePointer, \* the roots pointed to
  lastCtl, lastNode,    \* history: who wrote each of them last, while it runs
  left,         \* history: roots of controllers that were killed
  met,          \* history: roots where two that no port keeps apart found the same dead socket
  crossed,      \* history: a pointer was written while another controller was removing its own
  kills

daemonVars == <<proc, sock, pointer, nodePointer, lastCtl, lastNode, left, met, crossed, kills>>

Steps == {"new", "bind", "probe", "stale", "listen", "point", "up", "clear", "remove", "unlink", "close", "gone"}
New == [pc |-> "new", kind |-> "agent", root |-> Default, port |-> None, explicit |-> FALSE, listens |-> FALSE]

DaemonsTypeOK ==
  /\ proc \in [Daemons -> [pc: Steps, kind: {"controller", "agent"}, root: Roots, port: Ports \cup {None},
                           explicit: BOOLEAN, listens: BOOLEAN]]
  /\ sock \in [Roots -> Daemons \cup {None}]
  /\ {pointer, nodePointer} \subseteq Roots \cup {None} /\ {lastCtl, lastNode} \subseteq Daemons \cup {None}
  /\ left \subseteq Roots /\ met \subseteq Roots /\ crossed \in BOOLEAN /\ kills \in 0..MaxKills
  /\ \A d, e \in Daemons : d # e /\ proc[d].port # None => proc[d].port # proc[e].port

DaemonsInit ==
  /\ proc = [d \in Daemons |-> New] /\ sock = [r \in Roots |-> None]
  /\ pointer = None /\ nodePointer = None /\ lastCtl = None /\ lastNode = None
  /\ left = {} /\ met = {} /\ crossed = FALSE /\ kills = 0

Go(d, pc) == proc' = [proc EXCEPT ![d].pc = pc]
Gone(d) == proc' = [proc EXCEPT ![d] = [New EXCEPT !.pc = "gone"]]
\* Processes that have not begun are all alike.
Fresh == CHOOSE d \in Daemons \cup {None} : IF d = None THEN \A e \in Daemons : proc[e].pc # "new" ELSE proc[d].pc = "new"
Forget(d) == lastCtl' = (IF lastCtl = d THEN None ELSE lastCtl) /\ lastNode' = (IF lastNode = d THEN None ELSE lastNode)
\* A socket that is in its file and that somebody listens on is answered.
Answers(r) == sock[r] # None /\ proc[sock[r]].listens
\* Without its socket an agent runs all the same, and a controller does not.
Fails(d) == IF proc[d].kind = "agent" THEN Go(d, "up") ELSE Gone(d)

-----------------------------------------------------------------------------
(* Finding a daemon *)

\* The controller's pointer counts for as long as there is a socket where it leads.
readControllerPointer == IF pointer # None /\ sock[pointer] # None THEN pointer ELSE None

DefaultRoot ==
  CASE readControllerPointer # None -> readControllerPointer
    [] readControllerPointer = None /\ nodePointer # None -> nodePointer
    [] OTHER -> Default

\* Whom a command reaches.
client == IF Answers(DefaultRoot) THEN sock[DefaultRoot] ELSE None

-----------------------------------------------------------------------------
(* Starting *)

\* Mutant: the port is taken only when the controller is ready to serve the agents.
RunControllerMutant(d, root, port, explicit) ==
  /\ d = Fresh
  /\ proc' = [proc EXCEPT ![d] =
       [New EXCEPT !.pc = "probe", !.kind = "controller", !.root = root, !.port = port, !.explicit = explicit]]
  /\ UNCHANGED <<sock, pointer, nodePointer, lastCtl, lastNode, left, met, crossed, kills>>

\* A controller is started, with a root that it was told in the environment or otherwise.
RunController(d, root, port, explicit) ==
  /\ d = Fresh
  /\ proc' = [proc EXCEPT ![d] = IF \E e \in Daemons : proc[e].port = port
                THEN [New EXCEPT !.pc = "gone"]
                ELSE [New EXCEPT !.pc = "probe", !.kind = "controller", !.root = root, !.port = port, !.explicit = explicit]]
  /\ UNCHANGED <<sock, pointer, nodePointer, lastCtl, lastNode, left, met, crossed, kills>>

\* An agent leaves its pointer first.
RunAgent(d, root, explicit) ==
  /\ d = Fresh
  /\ proc' = [proc EXCEPT ![d] = [New EXCEPT !.pc = "probe", !.root = root]]
  /\ IF explicit THEN UNCHANGED <<nodePointer, lastNode>> ELSE nodePointer' = root /\ lastNode' = d
  /\ UNCHANGED <<sock, pointer, lastCtl, left, met, crossed, kills>>

\* A process that a port keeps away from another never meets it.
Apart(d, e) == proc[d].kind = "controller" /\ proc[e].kind = "controller" /\ proc[d].port = proc[e].port

\* Mutant: a file that is there is in the way, whoever answers on it.
SocketListenerMutant(d) ==
  LET r == proc[d].root IN
  /\ proc[d].pc = "probe"
  /\ Go(d, IF sock[r] = None THEN "listen" ELSE "stale")
  /\ UNCHANGED <<sock, pointer, nodePointer, lastCtl, lastNode, left, met, crossed, kills>>

\* Is somebody answering on the socket?  If so, this is the second.
SocketListener(d) ==
  LET r == proc[d].root IN
  /\ proc[d].pc = "probe"
  /\ IF Answers(r) THEN Fails(d) ELSE Go(d, IF sock[r] = None THEN "listen" ELSE "stale")
  /\ met' = IF ~Answers(r) /\ sock[r] # None
                /\ \E e \in Daemons : proc[e].pc = "stale" /\ proc[e].root = r /\ ~Apart(d, e)
              THEN met \cup {r} ELSE met
  /\ UNCHANGED <<sock, pointer, nodePointer, lastCtl, lastNode, left, crossed, kills>>

\* Whatever is there now is removed.
RemoveStale(d) ==
  /\ proc[d].pc = "stale" /\ sock' = [sock EXCEPT ![proc[d].root] = None] /\ Go(d, "listen")
  /\ UNCHANGED <<pointer, nodePointer, lastCtl, lastNode, left, met, crossed, kills>>

Listen(d) ==
  LET r == proc[d].root IN
  /\ proc[d].pc = "listen"
  /\ IF sock[r] # None THEN Fails(d) /\ UNCHANGED sock
     ELSE /\ sock' = [sock EXCEPT ![r] = d]
          /\ proc' = [proc EXCEPT ![d].listens = TRUE, ![d].pc = IF proc[d].kind = "agent" THEN "up" ELSE "point"]
  /\ UNCHANGED <<pointer, nodePointer, lastCtl, lastNode, left, met, crossed, kills>>

\* A controller that was told its root in the environment leaves the pointer alone.
WriteControllerPointer(d) ==
  /\ proc[d].pc = "point" /\ proc' = [proc EXCEPT ![d].pc = "up", ![d].explicit = FALSE]
  /\ IF proc[d].explicit THEN UNCHANGED <<pointer, lastCtl, crossed>>
     ELSE /\ pointer' = proc[d].root /\ lastCtl' = d
          /\ crossed' = (crossed \/ \E e \in Daemons : proc[e].pc = "remove")
  /\ UNCHANGED <<sock, nodePointer, lastNode, left, met, kills>>

-----------------------------------------------------------------------------
(* Stopping *)

shutdown(d) ==
  /\ proc[d].pc = "up" /\ Go(d, IF proc[d].kind = "agent" THEN "unlink" ELSE "clear")
  /\ UNCHANGED <<sock, pointer, nodePointer, lastCtl, lastNode, left, met, crossed, kills>>

\* The pointer is read, and removed if it named this root.
ClearControllerPointer(d) ==
  /\ \/ proc[d].pc = "clear" /\ Go(d, IF pointer = proc[d].root THEN "remove" ELSE "unlink") /\ UNCHANGED pointer
     \/ proc[d].pc = "remove" /\ Go(d, "unlink") /\ pointer' = None
  /\ UNCHANGED <<sock, nodePointer, lastCtl, lastNode, left, met, crossed, kills>>

\* Closing the listener removes the file by its name.
Close(d) ==
  LET r == proc[d].root IN
  /\ proc[d].pc = "unlink"
  /\ sock' = IF proc[d].listens THEN [sock EXCEPT ![r] = None] ELSE sock
  /\ proc' = [proc EXCEPT ![d].pc = "close", ![d].listens = FALSE]
  /\ UNCHANGED <<pointer, nodePointer, lastCtl, lastNode, left, met, crossed, kills>>

\* The port is given back last.
Exit(d) ==
  /\ proc[d].pc = "close" /\ Gone(d) /\ Forget(d)
  /\ UNCHANGED <<sock, pointer, nodePointer, left, met, crossed, kills>>

\* The process is killed.
Crash(d) ==
  /\ proc[d].pc \notin {"new", "gone"} /\ kills < MaxKills /\ kills' = kills + 1 /\ Gone(d) /\ Forget(d)
  /\ left' = IF proc[d].kind = "controller" THEN left \cup {proc[d].root} ELSE left
  /\ UNCHANGED <<sock, pointer, nodePointer, met, crossed>>

DaemonsNext ==
  \/ \E d \in Daemons, r \in Roots, p \in Ports, x \in BOOLEAN : RunController(d, r, p, x)
  \/ \E d \in Daemons, r \in Roots, x \in BOOLEAN : RunAgent(d, r, x)
  \/ \E d \in Daemons : SocketListener(d)
  \/ \E d \in Daemons : RemoveStale(d)
  \/ \E d \in Daemons : Listen(d)
  \/ \E d \in Daemons : WriteControllerPointer(d)
  \/ \E d \in Daemons : shutdown(d)
  \/ \E d \in Daemons : ClearControllerPointer(d)
  \/ \E d \in Daemons : Close(d)
  \/ \E d \in Daemons : Exit(d)
  \/ \E d \in Daemons : Crash(d)

DaemonsSpec == DaemonsInit /\ [][DaemonsNext]_daemonVars

-----------------------------------------------------------------------------

Up(d) == proc[d].pc = "up" /\ proc[d].listens /\ proc[d].root \notin met

\* A daemon that listens is the one its socket leads to, so that no two controllers share a root and
\* none is left running but out of reach; the controller that last left its pointer is the one the
\* commands reach while it is up; and when the controllers have stopped, the agent that last left its
\* own, unless what is left of the other pointer names a controller that was killed (SocketListener,
\* ClearControllerPointer, DefaultRoot).  Two daemons that find the same dead socket at once, and a
\* pointer written while another is being removed, are the exceptions.
CommandsArrive ==
  /\ \A d \in Daemons : Up(d) => sock[proc[d].root] = d
  /\ lastCtl # None /\ Up(lastCtl) /\ ~crossed => client = lastCtl
  /\ /\ lastNode # None /\ Up(lastNode) /\ pointer \notin left
     /\ \A d \in Daemons : proc[d].kind = "controller" => proc[d].pc = "gone"
     => client = lastNode

=============================================================================
