--------------------------- MODULE RecoveryProofs ---------------------------
(***************************************************************************)
(* Proofs about what failures leave behind: the daemons of one machine,    *)
(* for any processes, roots and ports, and the commands on files, for any  *)
(* directory and any number of commands and failures.  The jobs' own are   *)
(* in JobControlProofs.                                                    *)
(***************************************************************************)
EXTENDS MCRecovery, TLAPS

-----------------------------------------------------------------------------
(* The daemons of one machine: the invariant *)

\* What a process is started with, and how far it may be with it.
Process == [pc: Steps, kind: {"controller", "agent"}, root: Roots, port: Ports \cup {None},
            explicit: BOOLEAN, listens: BOOLEAN]

ProcsTyped == proc \in [Daemons -> Process]
PortsApart == \A d, e \in Daemons : d # e /\ proc[d].port # None => proc[d].port # proc[e].port
FilesTyped ==
  /\ sock \in [Roots -> Daemons \cup {None}]
  /\ pointer \in Roots \cup {None} /\ nodePointer \in Roots \cup {None}
  /\ lastCtl \in Daemons \cup {None} /\ lastNode \in Daemons \cup {None}
PastTyped == left \subseteq Roots /\ met \subseteq Roots /\ crossed \in BOOLEAN /\ kills \in 0..MaxKills

\* A process that runs has what it was started with: a controller its port, which no other has, and
\* its socket from then on until it closes it.
Listening == {"point", "up", "clear", "remove", "unlink"}
Started(d) ==
  /\ proc[d].kind = "controller" =>
       /\ proc[d].port # None /\ proc[d].pc \notin {"new", "gone"}
       /\ proc[d].pc \in Listening => proc[d].listens
  /\ proc[d].pc \in {"point", "clear", "remove"} => proc[d].kind = "controller"
  /\ proc[d].listens => proc[d].pc \in Listening

\* Its socket is where it listens, and one that is about to remove a dead socket is alone there.
Alone(d) ==
  \A e \in Daemons : proc[e].root = proc[d].root => ~proc[e].listens /\ (proc[e].pc = "stale" => e = d)
Reached(d) ==
  proc[d].root \notin met =>
    /\ proc[d].listens => sock[proc[d].root] = d
    /\ proc[d].pc = "stale" => sock[proc[d].root] # None /\ Alone(d)

\* Who last wrote the pointer runs, and while it is up the pointer names its root.
Pointed ==
  lastCtl # None =>
    /\ proc[lastCtl].kind = "controller" /\ proc[lastCtl].pc \in {"up", "clear", "remove", "unlink", "close"}
    /\ proc[lastCtl].pc = "up" /\ proc[lastCtl].root \notin met /\ ~crossed =>
         pointer = proc[lastCtl].root /\ \A e \in Daemons : proc[e].pc # "remove"

NodePointed ==
  lastNode # None => /\ nodePointer = proc[lastNode].root /\ proc[lastNode].kind = "agent"
                     /\ proc[lastNode].pc \notin {"new", "gone"}

\* A pointer that no killed controller has left is some running controller's to remove.
Owner(c) == proc[c].kind = "controller" /\ proc[c].root = pointer /\ proc[c].pc \in {"up", "clear", "remove"}
Owned == pointer # None /\ pointer \notin left => \E c \in Daemons : Owner(c)

DaemonsInv ==
  /\ ProcsTyped /\ PortsApart /\ FilesTyped /\ PastTyped
  /\ (\A d \in Daemons : Started(d)) /\ (\A d \in Daemons : Reached(d))
  /\ Pointed /\ NodePointed /\ Owned

LEMMA DaemonsTypeParts ==
  \* The parts of the invariant that are about types are the type invariant.
  ProcsTyped /\ PortsApart /\ FilesTyped /\ PastTyped <=> DaemonsTypeOK
BY DEF ProcsTyped, PortsApart, FilesTyped, PastTyped, DaemonsTypeOK, Process

-----------------------------------------------------------------------------
(* Steps of one process *)

LEMMA NewIsProcess ==
  \* A process that has not begun, or has ended.
  /\ New \in Process /\ [New EXCEPT !.pc = "gone"] \in Process
  /\ [New EXCEPT !.pc = "gone"].pc = "gone" /\ [New EXCEPT !.pc = "gone"].kind = "agent"
  /\ [New EXCEPT !.pc = "gone"].port = None /\ ~[New EXCEPT !.pc = "gone"].listens
BY DaemonsAssumption DEF New, Process, Steps

LEMMA Goes ==
  \* A process that goes on keeps what it was started with.
  ASSUME ProcsTyped, NEW d \in Daemons, NEW pc \in Steps, Go(d, pc)
  PROVE  /\ ProcsTyped' /\ proc'[d].pc = pc /\ proc'[d].kind = proc[d].kind
         /\ proc'[d].root = proc[d].root /\ proc'[d].port = proc[d].port
         /\ proc'[d].listens = proc[d].listens
         /\ \A e \in Daemons \ {d} : proc'[e] = proc[e]
BY DEF ProcsTyped, Process, Go

LEMMA Ends ==
  \* A process that ends has nothing.
  ASSUME ProcsTyped, NEW d \in Daemons, Gone(d)
  PROVE  /\ ProcsTyped' /\ proc'[d].pc = "gone" /\ proc'[d].kind = "agent" /\ proc'[d].port = None
         /\ ~proc'[d].listens
         /\ \A e \in Daemons \ {d} : proc'[e] = proc[e]
BY NewIsProcess DEF ProcsTyped, Gone

LEMMA FreshIsNew ==
  \* The process that begins next has not begun.
  ASSUME NEW d \in Daemons, d = Fresh
  PROVE  proc[d].pc = "new"
<1> DEFINE P(e) == IF e = None THEN \A x \in Daemons : proc[x].pc # "new" ELSE proc[e].pc = "new"
<1>1. \E e \in Daemons \cup {None} : P(e)
  BY DaemonsAssumption
<1>2. Fresh = CHOOSE e \in Daemons \cup {None} : P(e)
  BY DEF Fresh
<1>3. P(Fresh)
  <2> HIDE DEF P
  <2> QED  BY <1>1, <1>2
<1> QED  BY <1>3, DaemonsAssumption

-----------------------------------------------------------------------------
(* Starting *)

LEMMA RunControllerKeeps ==
  \* A controller that finds the port taken ends, and the other has the port alone.
  ASSUME DaemonsInv, NEW d \in Daemons, NEW root \in Roots, NEW port \in Ports, NEW explicit \in BOOLEAN,
         RunController(d, root, port, explicit)
  PROVE  DaemonsInv'
<1> DEFINE x == IF \E e \in Daemons : proc[e].port = port THEN [New EXCEPT !.pc = "gone"]
                ELSE [New EXCEPT !.pc = "probe", !.kind = "controller", !.root = root, !.port = port,
                                 !.explicit = explicit]
<1>1. proc[d].pc = "new" /\ proc' = [proc EXCEPT ![d] = x]
  BY FreshIsNew DEF RunController
<1>2. /\ x \in Process /\ x.pc \in {"probe", "gone"} /\ (x.kind = "controller" => x.pc = "probe" /\ x.port # None)
      /\ ~x.listens /\ (x.port # None => x.port = port /\ \A e \in Daemons : proc[e].port # port)
  BY DaemonsAssumption DEF New, Process, Steps
<1> HIDE DEF x
<1>3. ProcsTyped' /\ proc'[d] = x /\ \A e \in Daemons \ {d} : proc'[e] = proc[e]
  BY <1>1, <1>2 DEF DaemonsInv, ProcsTyped
<1>4. UNCHANGED <<sock, pointer, nodePointer, lastCtl, lastNode, left, met, crossed, kills>>
  BY DEF RunController
<1>5. PortsApart'
  BY <1>2, <1>3 DEF DaemonsInv, PortsApart
<1>6. FilesTyped' /\ PastTyped'
  BY <1>4 DEF DaemonsInv, FilesTyped, PastTyped
<1>7. ASSUME NEW e \in Daemons PROVE Started(e)'
  BY <1>2, <1>3 DEF DaemonsInv, Started, Listening
<1>8. ASSUME NEW e \in Daemons PROVE Reached(e)'
  BY <1>2, <1>3, <1>4 DEF DaemonsInv, Reached, Alone
<1>9. Pointed'
  BY <1>1, <1>2, <1>3, <1>4 DEF DaemonsInv, FilesTyped, Pointed
<1>10. NodePointed'
  BY <1>1, <1>3, <1>4 DEF DaemonsInv, FilesTyped, NodePointed
<1>11. Owned'
  BY <1>1, <1>3, <1>4 DEF DaemonsInv, Owned, Owner
<1> QED  BY <1>3, <1>5, <1>6, <1>7, <1>8, <1>9, <1>10, <1>11 DEF DaemonsInv

LEMMA RunAgentKeeps ==
  \* An agent leaves its pointer before it has a socket.
  ASSUME DaemonsInv, NEW d \in Daemons, NEW root \in Roots, NEW explicit \in BOOLEAN,
         RunAgent(d, root, explicit)
  PROVE  DaemonsInv'
<1> DEFINE x == [New EXCEPT !.pc = "probe", !.root = root]
<1>1. proc[d].pc = "new" /\ proc' = [proc EXCEPT ![d] = x]
  BY FreshIsNew DEF RunAgent
<1>2. x \in Process /\ x.pc = "probe" /\ x.kind = "agent" /\ ~x.listens /\ x.port = None /\ x.root = root
  BY DaemonsAssumption DEF New, Process, Steps
<1> HIDE DEF x
<1>3. ProcsTyped' /\ proc'[d] = x /\ \A e \in Daemons \ {d} : proc'[e] = proc[e]
  BY <1>1, <1>2 DEF DaemonsInv, ProcsTyped
<1>4. UNCHANGED <<sock, pointer, lastCtl, left, met, crossed, kills>>
  BY DEF RunAgent
<1>5. PortsApart'
  BY <1>2, <1>3 DEF DaemonsInv, PortsApart
<1>6. FilesTyped' /\ PastTyped'
  BY <1>4 DEF DaemonsInv, FilesTyped, PastTyped, RunAgent
<1>7. ASSUME NEW e \in Daemons PROVE Started(e)'
  BY <1>2, <1>3 DEF DaemonsInv, Started, Listening
<1>8. ASSUME NEW e \in Daemons PROVE Reached(e)'
  BY <1>2, <1>3, <1>4 DEF DaemonsInv, Reached, Alone
<1>9. Pointed'
  BY <1>1, <1>2, <1>3, <1>4 DEF DaemonsInv, FilesTyped, Pointed
<1>10. NodePointed'
  <2>1. UNCHANGED <<nodePointer, lastNode>> \/ (nodePointer' = root /\ lastNode' = d)
    BY DEF RunAgent
  <2>2. CASE UNCHANGED <<nodePointer, lastNode>>
    BY <1>1, <1>3, <2>2 DEF DaemonsInv, FilesTyped, NodePointed
  <2>3. CASE nodePointer' = root /\ lastNode' = d
    BY <1>2, <1>3, <2>3 DEF NodePointed
  <2> QED  BY <2>1, <2>2, <2>3
<1>11. Owned'
  BY <1>1, <1>3, <1>4 DEF DaemonsInv, Owned, Owner
<1> QED  BY <1>3, <1>5, <1>6, <1>7, <1>8, <1>9, <1>10, <1>11 DEF DaemonsInv

-----------------------------------------------------------------------------
(* Listening *)

LEMMA FailsKeeps ==
  \* Without its socket a daemon carries on as an agent, or not at all.
  ASSUME DaemonsInv, NEW d \in Daemons, proc[d].pc \in {"probe", "listen"}, Fails(d),
         UNCHANGED <<sock, pointer, nodePointer, lastCtl, lastNode, left, crossed, kills>>,
         met \subseteq met', met' \subseteq Roots
  PROVE  DaemonsInv'
<1>1. /\ ProcsTyped' /\ proc'[d].pc \in {"up", "gone"} /\ proc'[d].kind = "agent" /\ ~proc'[d].listens
      /\ proc'[d].port \in {proc[d].port, None}
      /\ proc[d].kind = "agent" => proc'[d].pc = "up" /\ proc'[d].root = proc[d].root
      /\ proc'[d].pc = "up" => proc'[d].root = proc[d].root
      /\ \A e \in Daemons \ {d} : proc'[e] = proc[e]
  <2>1. CASE proc[d].kind = "agent"
    <3>1. Go(d, "up") /\ "up" \in Steps
      BY <2>1 DEF Fails, Steps
    <3>2. ~proc[d].listens
      BY DEF DaemonsInv, Started, Listening
    <3> QED  BY <2>1, <3>1, <3>2, Goes DEF DaemonsInv
  <2>2. CASE proc[d].kind # "agent"
    <3>1. Gone(d)
      BY <2>2 DEF Fails
    <3> QED  BY <2>2, <3>1, Ends DEF DaemonsInv
  <2> QED  BY <2>1, <2>2
<1>2. PortsApart'
  BY <1>1 DEF DaemonsInv, PortsApart
<1>3. FilesTyped' /\ PastTyped'
  BY DEF DaemonsInv, FilesTyped, PastTyped
<1>4. ASSUME NEW e \in Daemons PROVE Started(e)'
  BY <1>1 DEF DaemonsInv, Started, Listening
<1>5. ASSUME NEW e \in Daemons PROVE Reached(e)'
  BY <1>1 DEF DaemonsInv, Reached, Alone
<1>6. Pointed'
  BY <1>1 DEF DaemonsInv, FilesTyped, Pointed
<1>7. NodePointed'
  BY <1>1 DEF DaemonsInv, FilesTyped, NodePointed
<1>8. Owned'
  BY <1>1 DEF DaemonsInv, Owned, Owner
<1> QED  BY <1>1, <1>2, <1>3, <1>4, <1>5, <1>6, <1>7, <1>8 DEF DaemonsInv

LEMMA SocketListenerKeeps ==
  \* Where nobody answers and a socket is left, two that find it are noted.
  ASSUME DaemonsInv, NEW d \in Daemons, SocketListener(d)
  PROVE  DaemonsInv'
<1> DEFINE r == proc[d].root
<1>1. /\ proc[d].pc = "probe" /\ r \in Roots
      /\ UNCHANGED <<sock, pointer, nodePointer, lastCtl, lastNode, left, crossed, kills>>
  BY DEF SocketListener, DaemonsInv, ProcsTyped, Process
<1>2. met \subseteq met' /\ met' \subseteq Roots
  BY <1>1 DEF SocketListener, DaemonsInv, PastTyped
<1>3. CASE Answers(r)
  <2>1. Fails(d)
    BY <1>3 DEF SocketListener
  <2> QED  BY <1>1, <1>2, <2>1, FailsKeeps
<1>4. CASE ~Answers(r)
  <2> DEFINE pc == IF sock[r] = None THEN "listen" ELSE "stale"
  <2>1. Go(d, pc) /\ pc \in Steps /\ pc \in {"listen", "stale"} /\ (pc = "stale" => sock[r] # None)
    BY <1>4 DEF SocketListener, Steps
  <2> HIDE DEF pc
  <2>2. /\ ProcsTyped' /\ proc'[d].pc = pc /\ proc'[d].kind = proc[d].kind
        /\ proc'[d].root = r /\ proc'[d].port = proc[d].port /\ proc'[d].listens = proc[d].listens
        /\ \A e \in Daemons \ {d} : proc'[e] = proc[e]
    BY <2>1, Goes DEF DaemonsInv
  <2>3. \A e \in Daemons : e # d => ~Apart(d, e)
    BY DEF Apart, DaemonsInv, PortsApart, Started
  <2>4. ASSUME pc = "stale", r \notin met', NEW e \in Daemons, proc[e].root = r
        PROVE  ~proc[e].listens /\ proc[e].pc # "stale"
    <3>1. sock[r] # None /\ r \notin met
      BY <1>2, <2>1, <2>4
    <3>2. ~proc[e].listens
      BY <1>4, <2>4, <3>1 DEF DaemonsInv, Reached, Alone, Answers
    <3>3. proc[e].pc # "stale"
      <4>1. r \in met' \/ ~\E x \in Daemons : proc[x].pc = "stale" /\ proc[x].root = r /\ ~Apart(d, x)
        BY <1>4, <3>1 DEF SocketListener
      <4> QED  BY <1>1, <2>3, <2>4, <4>1
    <3> QED  BY <3>2, <3>3
  <2>5. ~proc[d].listens
    BY <1>1 DEF DaemonsInv, Started, Listening
  <2>6. PortsApart'
    BY <2>2 DEF DaemonsInv, PortsApart
  <2>7. FilesTyped' /\ PastTyped'
    BY <1>1, <1>2 DEF DaemonsInv, FilesTyped, PastTyped
  <2>8. ASSUME NEW e \in Daemons PROVE Started(e)'
    BY <1>1, <2>1, <2>2 DEF DaemonsInv, Started, Listening
  <2>9. ASSUME NEW e \in Daemons PROVE Reached(e)'
    <3> SUFFICES ASSUME proc'[e].root \notin met'
                 PROVE  /\ proc'[e].listens => sock'[proc'[e].root] = e
                        /\ proc'[e].pc = "stale" => sock'[proc'[e].root] # None
                        /\ proc'[e].pc = "stale" =>
                             \A x \in Daemons : proc'[x].root = proc'[e].root =>
                               ~proc'[x].listens /\ (proc'[x].pc = "stale" => x = e)
      BY DEF Reached, Alone
    <3>1. proc'[e].root = proc[e].root /\ proc[e].root \notin met /\ proc'[e].listens = proc[e].listens
      BY <1>2, <2>2
    <3>2. proc'[e].listens => sock'[proc'[e].root] = e
      BY <1>1, <3>1 DEF DaemonsInv, Reached, Alone
    <3>3. ASSUME proc'[e].pc = "stale", NEW x \in Daemons, proc'[x].root = proc'[e].root
          PROVE  ~proc'[x].listens /\ (proc'[x].pc = "stale" => x = e)
      <4>1. proc'[x].root = proc[x].root /\ proc'[x].listens = proc[x].listens
        BY <2>2
      <4>2. CASE e = d
        BY <2>2, <2>4, <3>3, <4>1, <4>2
      <4>3. CASE e # d
        <5>1. proc[e].pc = "stale" /\ ~proc[x].listens /\ (proc[x].pc = "stale" => x = e)
          BY <2>2, <3>1, <3>3, <4>1, <4>3 DEF DaemonsInv, Reached, Alone
        <5>2. ~(x = d /\ proc'[x].pc = "stale")
          BY <2>2, <2>4, <3>1, <3>3, <4>1, <5>1
        <5> QED  BY <2>2, <4>1, <5>1, <5>2
      <4> QED  BY <4>2, <4>3
    <3>4. proc'[e].pc = "stale" => sock'[proc'[e].root] # None
      BY <1>1, <2>1, <2>2, <3>1 DEF DaemonsInv, Reached
    <3> QED  BY <3>2, <3>3, <3>4
  <2>10. Pointed'
    BY <1>1, <1>2, <2>1, <2>2 DEF DaemonsInv, FilesTyped, Pointed
  <2>11. NodePointed'
    BY <1>1, <2>1, <2>2 DEF DaemonsInv, FilesTyped, NodePointed
  <2>12. Owned'
    BY <1>1, <2>2 DEF DaemonsInv, Owned, Owner
  <2> QED  BY <2>2, <2>6, <2>7, <2>8, <2>9, <2>10, <2>11, <2>12 DEF DaemonsInv
<1> QED  BY <1>3, <1>4

LEMMA RemoveStaleKeeps ==
  \* One that is alone with a dead socket removes nobody's.
  ASSUME DaemonsInv, NEW d \in Daemons, RemoveStale(d)
  PROVE  DaemonsInv'
<1> DEFINE r == proc[d].root
<1>1. /\ proc[d].pc = "stale" /\ r \in Roots /\ sock' = [sock EXCEPT ![r] = None]
      /\ UNCHANGED <<pointer, nodePointer, lastCtl, lastNode, left, met, crossed, kills>>
  BY DEF RemoveStale, DaemonsInv, ProcsTyped, Process
<1>2. /\ ProcsTyped' /\ proc'[d].pc = "listen" /\ proc'[d].kind = proc[d].kind
      /\ proc'[d].root = r /\ proc'[d].port = proc[d].port /\ proc'[d].listens = proc[d].listens
      /\ \A e \in Daemons \ {d} : proc'[e] = proc[e]
  <2>1. Go(d, "listen") /\ "listen" \in Steps
    BY DEF RemoveStale, Steps
  <2> QED  BY <2>1, Goes DEF DaemonsInv
<1>3. PortsApart'
  BY <1>2 DEF DaemonsInv, PortsApart
<1>4. FilesTyped' /\ PastTyped'
  BY <1>1 DEF DaemonsInv, FilesTyped, PastTyped
<1>5. ASSUME NEW e \in Daemons PROVE Started(e)'
  BY <1>1, <1>2 DEF DaemonsInv, Started, Listening
<1>6. ASSUME NEW e \in Daemons PROVE Reached(e)'
  <2>1. proc[e].root = r /\ r \notin met => ~proc[e].listens
    BY <1>1 DEF DaemonsInv, Reached, Alone
  <2>2. proc[e].root # r => sock'[proc[e].root] = sock[proc[e].root]
    BY <1>1 DEF DaemonsInv, FilesTyped, ProcsTyped, Process
  <2> QED  BY <1>1, <1>2, <2>1, <2>2 DEF DaemonsInv, Reached, Alone
<1>7. Pointed'
  BY <1>1, <1>2 DEF DaemonsInv, FilesTyped, Pointed
<1>8. NodePointed'
  BY <1>1, <1>2 DEF DaemonsInv, FilesTyped, NodePointed
<1>9. Owned'
  BY <1>1, <1>2 DEF DaemonsInv, Owned, Owner
<1> QED  BY <1>2, <1>3, <1>4, <1>5, <1>6, <1>7, <1>8, <1>9 DEF DaemonsInv

LEMMA ListenKeeps ==
  \* A socket is made where none is, and nobody is about to remove it.
  ASSUME DaemonsInv, NEW d \in Daemons, Listen(d)
  PROVE  DaemonsInv'
<1> DEFINE r == proc[d].root
<1>1. /\ proc[d].pc = "listen" /\ r \in Roots
      /\ UNCHANGED <<pointer, nodePointer, lastCtl, lastNode, left, met, crossed, kills>>
  BY DEF Listen, DaemonsInv, ProcsTyped, Process
<1>2. CASE sock[r] # None
  <2>1. Fails(d) /\ UNCHANGED sock /\ met \subseteq met' /\ met' \subseteq Roots
    BY <1>1, <1>2 DEF Listen, DaemonsInv, PastTyped
  <2> QED  BY <1>1, <2>1, FailsKeeps
<1>3. CASE sock[r] = None
  <2> DEFINE pc == IF proc[d].kind = "agent" THEN "up" ELSE "point"
  <2>1. sock' = [sock EXCEPT ![r] = d] /\ proc' = [proc EXCEPT ![d].listens = TRUE, ![d].pc = pc]
    BY <1>3 DEF Listen
  <2>2. pc \in Steps /\ pc \in Listening /\ (pc = "point" => proc[d].kind = "controller") /\ pc \notin {"stale", "clear", "remove"}
        /\ (pc = "up" => proc[d].kind = "agent")
    BY DEF Steps, Listening, DaemonsInv, ProcsTyped, Process
  <2> HIDE DEF pc
  <2>3. /\ ProcsTyped' /\ proc'[d].pc = pc /\ proc'[d].kind = proc[d].kind
        /\ proc'[d].root = r /\ proc'[d].port = proc[d].port /\ proc'[d].listens
        /\ \A e \in Daemons \ {d} : proc'[e] = proc[e]
    BY <2>1, <2>2 DEF DaemonsInv, ProcsTyped, Process
  <2>4. PortsApart'
    BY <2>3 DEF DaemonsInv, PortsApart
  <2>5. FilesTyped' /\ PastTyped'
    BY <1>1, <2>1 DEF DaemonsInv, FilesTyped, PastTyped
  <2>6. ASSUME NEW e \in Daemons PROVE Started(e)'
    BY <1>1, <2>2, <2>3 DEF DaemonsInv, Started, Listening
  <2>7. ASSUME NEW e \in Daemons PROVE Reached(e)'
    <3>1. sock'[r] = d /\ (proc[e].root # r => sock'[proc[e].root] = sock[proc[e].root])
      BY <1>1, <2>1 DEF DaemonsInv, FilesTyped, ProcsTyped, Process
    <3>2. e # d /\ proc[e].root = r /\ r \notin met => ~proc[e].listens
      BY <1>3, DaemonsAssumption DEF DaemonsInv, Reached, Alone
    <3>3. e # d /\ proc[e].root = r /\ r \notin met => proc[e].pc # "stale"
      BY <1>3 DEF DaemonsInv, Reached
    <3> QED  BY <1>1, <2>2, <2>3, <3>1, <3>2, <3>3 DEF DaemonsInv, Reached, Alone
  <2>8. Pointed'
    BY <1>1, <2>2, <2>3 DEF DaemonsInv, FilesTyped, Pointed
  <2>9. NodePointed'
    BY <1>1, <2>2, <2>3 DEF DaemonsInv, FilesTyped, NodePointed, Listening
  <2>10. Owned'
    BY <1>1, <2>3 DEF DaemonsInv, Owned, Owner
  <2> QED  BY <2>3, <2>4, <2>5, <2>6, <2>7, <2>8, <2>9, <2>10 DEF DaemonsInv
<1> QED  BY <1>2, <1>3

-----------------------------------------------------------------------------
(* The pointer, and stopping *)

LEMMA WriteControllerPointerKeeps ==
  \* The controller that leaves its pointer is up, and nobody but one that is noted removes it.
  ASSUME DaemonsInv, NEW d \in Daemons, WriteControllerPointer(d)
  PROVE  DaemonsInv'
<1>0. proc' = [proc EXCEPT ![d].pc = "up", ![d].explicit = FALSE]
  BY DEF WriteControllerPointer
<1>1. /\ proc[d].pc = "point"
      /\ proc[d].kind = "controller" /\ proc[d].root \in Roots /\ crossed \in BOOLEAN
      /\ UNCHANGED <<sock, nodePointer, lastNode, left, met, kills>>
  BY DEF WriteControllerPointer, DaemonsInv, Started, ProcsTyped, Process, PastTyped
<1>2. /\ ProcsTyped' /\ proc'[d].pc = "up" /\ proc'[d].kind = proc[d].kind
      /\ proc'[d].root = proc[d].root /\ proc'[d].port = proc[d].port /\ proc'[d].listens = proc[d].listens
      /\ \A e \in Daemons \ {d} : proc'[e] = proc[e]
  BY <1>0, ZenonT(60) DEF DaemonsInv, ProcsTyped, Process, Steps
<1>3. \/ UNCHANGED <<pointer, lastCtl, crossed>>
      \/ /\ pointer' = proc[d].root /\ lastCtl' = d
         /\ crossed' = (crossed \/ \E e \in Daemons : proc[e].pc = "remove")
  BY DEF WriteControllerPointer
<1>4. PortsApart'
  BY <1>2 DEF DaemonsInv, PortsApart
<1>5. FilesTyped' /\ PastTyped'
  BY <1>1, <1>3 DEF DaemonsInv, FilesTyped, PastTyped
<1>6. ASSUME NEW e \in Daemons PROVE Started(e)'
  BY <1>1, <1>2 DEF DaemonsInv, Started, Listening
<1>7. ASSUME NEW e \in Daemons PROVE Reached(e)'
  BY <1>1, <1>2 DEF DaemonsInv, Reached, Alone
<1>8. Pointed'
  <2>1. CASE UNCHANGED <<pointer, lastCtl, crossed>>
    BY <1>1, <1>2, <2>1 DEF DaemonsInv, FilesTyped, Pointed
  <2>2. CASE pointer' = proc[d].root /\ lastCtl' = d
             /\ crossed' = (crossed \/ \E e \in Daemons : proc[e].pc = "remove")
    BY <1>1, <1>2, <2>2 DEF Pointed
  <2> QED  BY <1>3, <2>1, <2>2
<1>9. NodePointed'
  BY <1>1, <1>2 DEF DaemonsInv, FilesTyped, NodePointed
<1>10. Owned'
  <2>1. CASE UNCHANGED pointer
    BY <1>1, <1>2, <2>1 DEF DaemonsInv, Owned, Owner
  <2>2. CASE pointer' = proc[d].root
    BY <1>1, <1>2, <2>2 DEF Owned, Owner
  <2> QED  BY <1>3, <2>1, <2>2
<1> QED  BY <1>2, <1>4, <1>5, <1>6, <1>7, <1>8, <1>9, <1>10 DEF DaemonsInv

LEMMA shutdownKeeps ==
  \* One that stops has its socket still.
  ASSUME DaemonsInv, NEW d \in Daemons, shutdown(d)
  PROVE  DaemonsInv'
<1> DEFINE pc == IF proc[d].kind = "agent" THEN "unlink" ELSE "clear"
<1>1. /\ proc[d].pc = "up" /\ Go(d, pc) /\ pc \in Steps
      /\ UNCHANGED <<sock, pointer, nodePointer, lastCtl, lastNode, left, met, crossed, kills>>
  BY DEF shutdown, Steps
<1>2. (pc = "unlink" /\ proc[d].kind = "agent") \/ (pc = "clear" /\ proc[d].kind = "controller")
  BY DEF DaemonsInv, ProcsTyped, Process
<1> HIDE DEF pc
<1>3. /\ ProcsTyped' /\ proc'[d].pc = pc /\ proc'[d].kind = proc[d].kind
      /\ proc'[d].root = proc[d].root /\ proc'[d].port = proc[d].port /\ proc'[d].listens = proc[d].listens
      /\ \A e \in Daemons \ {d} : proc'[e] = proc[e]
  BY <1>1, Goes DEF DaemonsInv
<1>4. PortsApart'
  BY <1>3 DEF DaemonsInv, PortsApart
<1>5. FilesTyped' /\ PastTyped'
  BY <1>1 DEF DaemonsInv, FilesTyped, PastTyped
<1>6. ASSUME NEW e \in Daemons PROVE Started(e)'
  BY <1>1, <1>2, <1>3 DEF DaemonsInv, Started, Listening
<1>7. ASSUME NEW e \in Daemons PROVE Reached(e)'
  BY <1>1, <1>2, <1>3 DEF DaemonsInv, Reached, Alone
<1>8. Pointed'
  BY <1>1, <1>2, <1>3 DEF DaemonsInv, FilesTyped, Pointed
<1>9. NodePointed'
  BY <1>1, <1>2, <1>3 DEF DaemonsInv, FilesTyped, NodePointed
<1>10. Owned'
  <2>1. ASSUME NEW c \in Daemons, Owner(c) PROVE Owner(c)'
    BY <1>1, <1>2, <1>3, <2>1 DEF Owner
  <2> QED  BY <1>1, <2>1 DEF DaemonsInv, Owned
<1> QED  BY <1>3, <1>4, <1>5, <1>6, <1>7, <1>8, <1>9, <1>10 DEF DaemonsInv

LEMMA ClearControllerPointerKeeps ==
  \* A controller removes the pointer of no other at its root: there is none.
  ASSUME DaemonsInv, NEW d \in Daemons, ClearControllerPointer(d)
  PROVE  DaemonsInv'
<1>1. UNCHANGED <<sock, nodePointer, lastCtl, lastNode, left, met, crossed, kills>>
  BY DEF ClearControllerPointer
<1>2. PICK pc \in {"remove", "unlink"} :
        /\ Go(d, pc)
        /\ \/ proc[d].pc = "clear" /\ (pc = "remove" <=> pointer = proc[d].root) /\ pointer' = pointer
           \/ proc[d].pc = "remove" /\ pc = "unlink" /\ pointer' = None
  BY DEF ClearControllerPointer
<1>3. /\ ProcsTyped' /\ proc'[d].pc = pc /\ proc'[d].kind = proc[d].kind
      /\ proc'[d].root = proc[d].root /\ proc'[d].port = proc[d].port /\ proc'[d].listens = proc[d].listens
      /\ \A e \in Daemons \ {d} : proc'[e] = proc[e]
  <2>1. pc \in Steps
    BY DEF Steps
  <2> QED  BY <1>2, <2>1, Goes DEF DaemonsInv
<1>4. proc[d].kind = "controller" /\ proc[d].listens
  BY <1>2 DEF DaemonsInv, Started, Listening
<1>5. PortsApart'
  BY <1>3 DEF DaemonsInv, PortsApart
<1>6. FilesTyped' /\ PastTyped'
  BY <1>1, <1>2 DEF DaemonsInv, FilesTyped, PastTyped
<1>7. ASSUME NEW e \in Daemons PROVE Started(e)'
  BY <1>2, <1>3, <1>4, ZenonT(60) DEF DaemonsInv, Started, Listening
<1>8. ASSUME NEW e \in Daemons PROVE Reached(e)'
  BY <1>1, <1>2, <1>3 DEF DaemonsInv, Reached, Alone
<1>9. Pointed'
  <2> SUFFICES ASSUME lastCtl # None
               PROVE  /\ proc'[lastCtl].kind = "controller"
                      /\ proc'[lastCtl].pc \in {"up", "clear", "remove", "unlink", "close"}
                      /\ proc'[lastCtl].pc = "up" /\ proc'[lastCtl].root \notin met /\ ~crossed =>
                           pointer' = proc'[lastCtl].root /\ \A e \in Daemons : proc'[e].pc # "remove"
    BY <1>1 DEF Pointed
  <2>1. lastCtl \in Daemons /\ proc[lastCtl].kind = "controller"
        /\ proc[lastCtl].pc \in {"up", "clear", "remove", "unlink", "close"}
    BY DEF DaemonsInv, FilesTyped, Pointed
  <2>2. proc'[lastCtl].kind = "controller" /\ proc'[lastCtl].pc \in {"up", "clear", "remove", "unlink", "close"}
    BY <1>2, <1>3, <2>1
  <2>3. ASSUME proc'[lastCtl].pc = "up", proc'[lastCtl].root \notin met, ~crossed
        PROVE  pointer' = proc'[lastCtl].root /\ \A e \in Daemons : proc'[e].pc # "remove"
    <3>1. lastCtl # d /\ proc'[lastCtl] = proc[lastCtl]
      BY <1>2, <1>3, <2>1, <2>3
    <3>2. pointer = proc[lastCtl].root /\ \A e \in Daemons : proc[e].pc # "remove"
      BY <2>3, <3>1 DEF DaemonsInv, Pointed
    <3>3. proc[lastCtl].listens
      BY <2>1, <2>3, <3>1 DEF DaemonsInv, Started, Listening
    <3>4. proc[d].root # proc[lastCtl].root
      BY <1>4, <2>1, <2>3, <3>1, <3>3 DEF DaemonsInv, Reached
    <3> QED  BY <1>2, <1>3, <3>1, <3>2, <3>4
  <2> QED  BY <2>2, <2>3
<1>10. NodePointed'
  BY <1>1, <1>2, <1>3, <1>4 DEF DaemonsInv, FilesTyped, NodePointed
<1>11. Owned'
  <2>1. CASE proc[d].pc = "clear"
    <3>1. UNCHANGED pointer
      BY <1>2, <2>1
    <3>2. ASSUME NEW c \in Daemons, Owner(c) PROVE Owner(c)'
      BY <1>2, <1>3, <2>1, <3>1, <3>2 DEF Owner
    <3> QED  BY <1>1, <3>1, <3>2 DEF DaemonsInv, Owned
  <2>2. CASE proc[d].pc = "remove"
    BY <1>2, <2>2 DEF Owned
  <2> QED  BY <1>2, <2>1, <2>2
<1> QED  BY <1>3, <1>5, <1>6, <1>7, <1>8, <1>9, <1>10, <1>11 DEF DaemonsInv

LEMMA CloseKeeps ==
  \* One that listens removes its own socket, and no other listens there.
  ASSUME DaemonsInv, NEW d \in Daemons, Close(d)
  PROVE  DaemonsInv'
<1> DEFINE r == proc[d].root
<1>0. proc' = [proc EXCEPT ![d].pc = "close", ![d].listens = FALSE]
  BY DEF Close
<1>1. /\ proc[d].pc = "unlink" /\ r \in Roots
      /\ UNCHANGED <<pointer, nodePointer, lastCtl, lastNode, left, met, crossed, kills>>
  BY DEF Close, DaemonsInv, ProcsTyped, Process
<1>2. /\ ProcsTyped' /\ proc'[d].pc = "close" /\ proc'[d].kind = proc[d].kind
      /\ proc'[d].root = r /\ proc'[d].port = proc[d].port /\ ~proc'[d].listens
      /\ \A e \in Daemons \ {d} : proc'[e] = proc[e]
  BY <1>0 DEF DaemonsInv, ProcsTyped, Process, Steps
<1>3. \/ sock' = sock
      \/ proc[d].listens /\ sock' = [sock EXCEPT ![r] = None]
  BY DEF Close
<1>4. PortsApart'
  BY <1>2 DEF DaemonsInv, PortsApart
<1>5. FilesTyped' /\ PastTyped'
  BY <1>1, <1>3 DEF DaemonsInv, FilesTyped, PastTyped
<1>6. ASSUME NEW e \in Daemons PROVE Started(e)'
  BY <1>1, <1>2 DEF DaemonsInv, Started, Listening
<1>7. ASSUME NEW e \in Daemons PROVE Reached(e)'
  <2>1. CASE sock' = sock
    BY <1>1, <1>2, <2>1 DEF DaemonsInv, Reached, Alone
  <2>2. CASE proc[d].listens /\ sock' = [sock EXCEPT ![r] = None]
    <3>1. e # d /\ proc[e].root = r /\ r \notin met => ~proc[e].listens
      BY <2>2 DEF DaemonsInv, Reached
    <3>2. proc[e].root = r /\ r \notin met => proc[e].pc # "stale"
      BY <2>2 DEF DaemonsInv, Reached, Alone
    <3>3. proc[e].root # r => sock'[proc[e].root] = sock[proc[e].root]
      BY <2>2 DEF DaemonsInv, FilesTyped, ProcsTyped, Process
    <3> QED  BY <1>1, <1>2, <3>1, <3>2, <3>3 DEF DaemonsInv, Reached, Alone
  <2> QED  BY <1>3, <2>1, <2>2
<1>8. Pointed'
  BY <1>1, <1>2 DEF DaemonsInv, FilesTyped, Pointed
<1>9. NodePointed'
  BY <1>1, <1>2 DEF DaemonsInv, FilesTyped, NodePointed
<1>10. Owned'
  BY <1>1, <1>2 DEF DaemonsInv, Owned, Owner
<1> QED  BY <1>2, <1>4, <1>5, <1>6, <1>7, <1>8, <1>9, <1>10 DEF DaemonsInv

LEMMA GoneKeeps ==
  \* A process that ends is nobody who wrote a pointer, and its own is in nobody's way.
  ASSUME DaemonsInv, NEW d \in Daemons, Gone(d), Forget(d),
         UNCHANGED <<sock, pointer, nodePointer, met, crossed>>, kills' \in 0..MaxKills,
         left' \in {left, left \cup {proc[d].root}},
         proc[d].kind = "controller" => proc[d].pc = "close" \/ left' = left \cup {proc[d].root}
  PROVE  DaemonsInv'
<1>1. /\ ProcsTyped' /\ proc'[d].pc = "gone" /\ proc'[d].kind = "agent" /\ proc'[d].port = None
      /\ ~proc'[d].listens /\ proc[d].root \in Roots
      /\ \A e \in Daemons \ {d} : proc'[e] = proc[e]
  BY Ends DEF DaemonsInv, ProcsTyped, Process
<1>2. /\ lastCtl' \in {lastCtl, None} \ {d} /\ lastNode' \in {lastNode, None} \ {d}
  BY DaemonsAssumption DEF Forget
<1>3. PortsApart'
  BY <1>1 DEF DaemonsInv, PortsApart
<1>4. FilesTyped' /\ PastTyped'
  BY <1>1, <1>2 DEF DaemonsInv, FilesTyped, PastTyped
<1>5. ASSUME NEW e \in Daemons PROVE Started(e)'
  BY <1>1 DEF DaemonsInv, Started, Listening
<1>6. ASSUME NEW e \in Daemons PROVE Reached(e)'
  BY <1>1 DEF DaemonsInv, Reached, Alone
<1>7. Pointed'
  <2>1. lastCtl' # None => lastCtl' = lastCtl /\ lastCtl \in Daemons \ {d}
    BY <1>2 DEF DaemonsInv, FilesTyped
  <2> QED  BY <1>1, <2>1 DEF DaemonsInv, Pointed
<1>8. NodePointed'
  <2>1. lastNode' # None => lastNode' = lastNode /\ lastNode \in Daemons \ {d}
    BY <1>2 DEF DaemonsInv, FilesTyped
  <2> QED  BY <1>1, <2>1 DEF DaemonsInv, NodePointed
<1>9. Owned'
  <2> SUFFICES ASSUME pointer # None, pointer \notin left'
               PROVE  \E c \in Daemons : Owner(c)'
    BY DEF Owned
  <2>1. PICK c \in Daemons : Owner(c)
    BY DEF DaemonsInv, Owned
  <2>2. c # d
    BY <2>1 DEF Owner
  <2>3. Owner(c)'
    BY <1>1, <2>1, <2>2 DEF Owner
  <2> QED  BY <2>3
<1> QED  BY <1>1, <1>3, <1>4, <1>5, <1>6, <1>7, <1>8, <1>9 DEF DaemonsInv

-----------------------------------------------------------------------------
(* The theorems *)

LEMMA DaemonsInitInv ==
  \* Nobody has begun, and there are no files.
  DaemonsInit => DaemonsInv
<1> SUFFICES ASSUME DaemonsInit PROVE DaemonsInv
  OBVIOUS
<1>1. ProcsTyped /\ \A d \in Daemons : proc[d] = New
  BY NewIsProcess DEF DaemonsInit, ProcsTyped
<1>2. New.pc = "new" /\ New.kind = "agent" /\ New.port = None /\ ~New.listens
  BY DEF New
<1>3. PortsApart
  BY <1>1, <1>2 DEF PortsApart
<1>4. FilesTyped /\ PastTyped
  <2>1. FilesTyped
    BY DEF DaemonsInit, FilesTyped
  <2>2. 0 \in 0..MaxKills
    BY DaemonsAssumption
  <2> QED  BY <2>1, <2>2 DEF DaemonsInit, PastTyped
<1>5. ASSUME NEW d \in Daemons PROVE Started(d) /\ Reached(d)
  BY <1>1, <1>2 DEF Started, Reached, Listening
<1>6. Pointed /\ NodePointed /\ Owned
  BY DEF DaemonsInit, Pointed, NodePointed, Owned
<1> QED  BY <1>1, <1>3, <1>4, <1>5, <1>6 DEF DaemonsInv

LEMMA DaemonsStepInv ==
  \* Every step keeps the invariant.
  ASSUME DaemonsInv, [DaemonsNext]_daemonVars
  PROVE  DaemonsInv'
<1>1. CASE UNCHANGED daemonVars
  BY <1>1 DEF daemonVars, DaemonsInv, ProcsTyped, PortsApart, FilesTyped, PastTyped, Started, Reached, Alone,
     Pointed, NodePointed, Owned, Owner
<1>2. ASSUME NEW d \in Daemons, NEW r \in Roots, NEW p \in Ports, NEW x \in BOOLEAN, RunController(d, r, p, x)
      PROVE  DaemonsInv'
  BY <1>2, RunControllerKeeps
<1>3. ASSUME NEW d \in Daemons, NEW r \in Roots, NEW x \in BOOLEAN, RunAgent(d, r, x) PROVE DaemonsInv'
  BY <1>3, RunAgentKeeps
<1>4. ASSUME NEW d \in Daemons, Exit(d) PROVE DaemonsInv'
  BY <1>4, GoneKeeps DEF Exit, DaemonsInv, PastTyped
<1>5. ASSUME NEW d \in Daemons, Crash(d) PROVE DaemonsInv'
  <2>1. kills' \in 0..MaxKills
    BY <1>5, DaemonsAssumption DEF Crash, DaemonsInv, PastTyped
  <2> QED  BY <1>5, <2>1, GoneKeeps DEF Crash
<1>6. ASSUME NEW d \in Daemons,
             \/ SocketListener(d) \/ RemoveStale(d) \/ Listen(d) \/ WriteControllerPointer(d)
             \/ shutdown(d) \/ ClearControllerPointer(d) \/ Close(d)
      PROVE  DaemonsInv'
  BY <1>6, SocketListenerKeeps, RemoveStaleKeeps, ListenKeeps, WriteControllerPointerKeeps, shutdownKeeps,
     ClearControllerPointerKeeps, CloseKeeps
<1> QED  BY <1>1, <1>2, <1>3, <1>4, <1>5, <1>6 DEF DaemonsNext

LEMMA DaemonsInvHolds == DaemonsSpec => []DaemonsInv
BY DaemonsInitInv, DaemonsStepInv, PTL DEF DaemonsSpec

\* The daemons' variables have their types, and no two daemons have one port
\* (RunController: the listener for the agents).
THEOREM DaemonsTypeCorrect == DaemonsSpec => []DaemonsTypeOK
<1>1. DaemonsInv => DaemonsTypeOK
  BY DaemonsTypeParts DEF DaemonsInv
<1> QED  BY <1>1, DaemonsInvHolds, PTL

\* However many processes are started, stopped and killed at whatever roots and ports, a command
\* reaches the daemon it is meant for (DefaultRoot, SocketListener, ClearControllerPointer).
THEOREM CommandsArriveHolds == DaemonsSpec => []CommandsArrive
<1>1. ASSUME DaemonsInv PROVE CommandsArrive
  <2>1. ASSUME NEW d \in Daemons, Up(d) PROVE sock[proc[d].root] = d
    BY <1>1, <2>1 DEF DaemonsInv, Reached, Up
  <2>2. ASSUME NEW d \in Daemons, Up(d), DefaultRoot = proc[d].root PROVE client = d
    BY <2>1, <2>2, DaemonsAssumption DEF client, Answers, Up
  <2>3. ASSUME lastCtl # None, Up(lastCtl), ~crossed PROVE client = lastCtl
    <3>1. lastCtl \in Daemons /\ pointer = proc[lastCtl].root /\ proc[lastCtl].root \in Roots
      BY <1>1, <2>3 DEF DaemonsInv, FilesTyped, ProcsTyped, Process, Pointed, Up
    <3>2. DefaultRoot = proc[lastCtl].root
      BY <2>1, <2>3, <3>1, DaemonsAssumption DEF DefaultRoot, readControllerPointer
    <3> QED  BY <2>2, <2>3, <3>1, <3>2
  <2>4. ASSUME lastNode # None, Up(lastNode), pointer \notin left,
               \A d \in Daemons : proc[d].kind = "controller" => proc[d].pc = "gone"
        PROVE  client = lastNode
    <3>1. lastNode \in Daemons /\ nodePointer = proc[lastNode].root /\ nodePointer \in Roots
      BY <1>1, <2>4 DEF DaemonsInv, FilesTyped, ProcsTyped, Process, NodePointed
    <3>2. pointer = None
      BY <1>1, <2>4 DEF DaemonsInv, Owned, Owner
    <3>3. DefaultRoot = proc[lastNode].root
      BY <3>1, <3>2, DaemonsAssumption DEF DefaultRoot, readControllerPointer
    <3> QED  BY <2>2, <2>4, <3>1, <3>3
  <2> QED  BY <2>1, <2>3, <2>4 DEF CommandsArrive
<1> QED  BY <1>1, DaemonsInvHolds, PTL

-----------------------------------------------------------------------------
(* File commands: the invariant *)

Versions == 0..MaxWrites
Command == [verb: Verbs, up: BOOLEAN, tree: BOOLEAN, listed: SUBSET All, todo: SUBSET All,
            got: [All -> Versions], on: Nat, phase: Phases]
Moving == [up: BOOLEAN, path: All, ver: Versions, state: {"sending", "staged", "done", "failed"}]
Asked == [remove: SUBSET All, from: Command, id: Nat]

SidesTyped == here \in [All -> Versions] /\ there \in [All -> Versions] /\ index \in [All -> Versions]
CommandTyped == cmd \in Command /\ cmd.on <= Len(moving)
QueueTyped ==
  /\ moving \in Seq(Moving) /\ inbox \in Seq(Asked)
  /\ \A k \in DOMAIN inbox : inbox[k].id <= Len(moving)
CountsTyped == calm \in BOOLEAN /\ writes \in Versions /\ commands \in 0..MaxCommands /\ breaks \in 0..MaxBreaks

\* Nothing holds a version that was not written yet.
Written ==
  /\ \A p \in All : here[p] <= writes /\ there[p] <= writes /\ index[p] <= writes /\ cmd.got[p] <= writes
  /\ \A i \in DOMAIN moving : moving[i].ver <= writes
  /\ \A k \in DOMAIN inbox, p \in All : inbox[k].from.got[p] <= writes

\* The machine is asked for each transfer once, in the order they were begun.
InOrder == \A j, k \in DOMAIN inbox : j < k /\ inbox[j].id # 0 /\ inbox[k].id # 0 => inbox[j].id < inbox[k].id

\* The machine has sent nothing of what it is still asked to send.
Unsent == \A k \in DOMAIN inbox : LET i == inbox[k].id IN i # 0 /\ ~moving[i].up => moving[i].state = "sending"

\* What stands before the k-th brings no file to the machine.
NoneBefore(k) == \A j \in DOMAIN inbox : j < k /\ inbox[j].id # 0 => ~moving[inbox[j].id].up
NoneComes == NoneBefore(Len(inbox) + 1)

\* What was got of the source's files is what they held, or they have been written since.
Source == IF cmd.up THEN here ELSE there
Target == IF cmd.up THEN there ELSE here
NoNewer(c, side) == \A p \in All : c.got[p] # 0 /\ side[p] # 0 => c.got[p] <= side[p]
Complete(c) == \A p \in c.listed \ c.todo : c.got[p] # 0

\* The transfer a command waits for.
Waits ==
  cmd.phase \in {"wait", "fetch"} =>
    /\ cmd.on # 0 /\ Status.up = cmd.up
    /\ Status.state \in {"staged", "done"} =>
         /\ Status.ver # 0
         /\ Source[Status.path] # 0 => Status.ver <= Source[Status.path]
         /\ ~cmd.up => NoneComes
    /\ Status.state = "sending" => ~cmd.up /\ inbox # <<>> /\ inbox[Len(inbox)].id = cmd.on
    /\ cmd.phase = "wait" /\ ~cmd.up => Status.state # "done"
    /\ cmd.phase = "fetch" => ~cmd.up /\ Status.state = "staged"
    /\ cmd.up /\ Status.state = "done" => cmd.got[Status.path] = Status.ver

\* The command so far.
Carried ==
  ~Idle =>
    /\ NoNewer(cmd, Source) /\ (cmd.verb # "sync" => Complete(cmd))
    /\ ~cmd.up /\ (\E p \in All : cmd.got[p] # 0) => NoneComes
    /\ cmd.phase = "remove" => cmd.verb = "mv" /\ cmd.todo = {}
    /\ cmd.phase \in {"next", "remove"} /\ cmd.on # 0 => Status.state = "done"

\* What is to be removed at a move's end has been got, and nothing older comes before it.
Removable(k) ==
  LET c == inbox[k].from IN
  c.listed # {} => NoNewer(c, there) /\ (\A p \in c.listed : c.got[p] # 0) /\ NoneBefore(k)

\* A sync that nothing has come between has brought everything but what it has still to do.
Same(p) == Source[p] # 0 => Target[p] # 0 /\ Size(Target[p]) = Size(Source[p])
Synced ==
  cmd.verb = "sync" /\ calm /\ cmd.phase # "failed" =>
    /\ \A p \in (Paths \ Links) \ cmd.todo : Same(p)
    /\ cmd.phase = "done" => cmd.todo = {}
    /\ cmd.phase \in {"wait", "fetch"} =>
         /\ Status.path \in Paths \/ cmd.up
         /\ Status.state \in {"staged", "done"} => Status.ver = Source[Status.path]
         /\ cmd.up /\ Status.state = "done" => there[Status.path] = Status.ver

FilesInv ==
  /\ SidesTyped /\ CommandTyped /\ QueueTyped /\ CountsTyped
  /\ Written /\ InOrder /\ Unsent /\ Waits /\ Carried /\ (\A k \in DOMAIN inbox : Removable(k)) /\ Synced
  /\ MoveLosesNothing

-----------------------------------------------------------------------------
(* Steps of the command *)

LEMMA CommandIs ==
  \* The fields a step changes, and those it leaves.
  ASSUME CommandTyped, NEW x \in Phases
  PROVE  LET c == [cmd EXCEPT !.phase = x] IN
         /\ c \in Command /\ c.phase = x /\ c.verb = cmd.verb /\ c.up = cmd.up /\ c.tree = cmd.tree
         /\ c.listed = cmd.listed /\ c.todo = cmd.todo /\ c.got = cmd.got /\ c.on = cmd.on
BY DEF CommandTyped, Command

LEMMA StatusTyped ==
  \* The transfer that is waited for is one of those begun.
  ASSUME CommandTyped, QueueTyped, cmd.on # 0
  PROVE  cmd.on \in DOMAIN moving /\ Status \in Moving
BY DEF CommandTyped, Command, QueueTyped, Status

LEMMA FailKeeps ==
  \* A command that fails promises nothing.
  ASSUME FilesInv, Fail, breaks' \in 0..MaxBreaks,
         UNCHANGED <<here, there, index, moving, inbox, moved, calm, writes, commands>>
  PROVE  FilesInv'
<1>1. /\ cmd' \in Command /\ cmd'.phase = "failed" /\ cmd'.got = cmd.got /\ cmd'.on = cmd.on
  BY CommandIs DEF FilesInv, Fail, Phases
<1>2. SidesTyped' /\ CountsTyped'
  BY DEF FilesInv, SidesTyped, CountsTyped
<1>3. QueueTyped' /\ InOrder' /\ Unsent'
  BY DEF FilesInv, QueueTyped, InOrder, Unsent
<1>4. ASSUME NEW k \in DOMAIN inbox' PROVE Removable(k)'
  BY DEF FilesInv, Removable, NoNewer, NoneBefore
<1>5. CommandTyped' /\ MoveLosesNothing'
  BY <1>1 DEF FilesInv, CommandTyped, MoveLosesNothing
<1>6. Written'
  BY <1>1 DEF FilesInv, Written
<1>7. Waits' /\ Carried' /\ Synced'
  BY <1>1 DEF Waits, Carried, Synced, Idle
<1> QED  BY <1>2, <1>3, <1>4, <1>5, <1>6, <1>7 DEF FilesInv

LEMMA StartKeeps ==
  \* A command that begins has got nothing; a sync leaves what is the same on both sides.
  ASSUME FilesInv, NEW verb \in {"cp", "mv", "sync"}, NEW up \in BOOLEAN, NEW tree \in BOOLEAN,
         NEW listed \in SUBSET All, NEW rest \in SUBSET All, NEW phase \in {"next", "done"},
         Start(verb, up, tree, listed, rest, phase),
         verb # "sync" => rest = listed /\ phase = "next",
         verb = "sync" => rest = missingOrChanged(up) /\ (phase = "done" => rest = {})
  PROVE  FilesInv'
<1>1. /\ cmd' = [verb |-> verb, up |-> up, tree |-> tree, listed |-> listed, todo |-> rest,
                 got |-> [p \in All |-> 0], on |-> 0, phase |-> phase]
      /\ calm' = (inbox = <<>> /\ Present(index, Beside) = {} /\ \A p \in Paths : index[p] = there[p])
      /\ UNCHANGED <<here, there, index, moving, inbox, moved, writes, breaks>>
      /\ commands < MaxCommands /\ commands' = commands + 1
  BY DEF Start
<1>2. cmd' \in Command /\ cmd'.on = 0
  <2>1. [p \in All |-> 0] \in [All -> Versions]
    BY FilesAssumption DEF Versions
  <2> QED  BY <1>1, <2>1 DEF Command, Verbs, Phases
<1>3. /\ cmd'.phase = phase /\ cmd'.verb = verb /\ cmd'.up = up /\ cmd'.listed = listed /\ cmd'.todo = rest
      /\ \A p \in All : cmd'.got[p] = 0
  BY <1>1
<1>4. SidesTyped' /\ QueueTyped' /\ InOrder' /\ Unsent'
  BY <1>1 DEF FilesInv, SidesTyped, QueueTyped, InOrder, Unsent
<1>5. CommandTyped'
  BY <1>1, <1>2 DEF FilesInv, QueueTyped, CommandTyped
<1>6. CountsTyped'
  <2>1. commands' \in 0..MaxCommands
    BY <1>1, FilesAssumption DEF FilesInv, CountsTyped
  <2> QED  BY <1>1, <2>1 DEF FilesInv, CountsTyped
<1>7. Written'
  BY <1>1, <1>3 DEF FilesInv, Written, CountsTyped, Versions
<1>8. Waits'
  BY <1>3 DEF Waits
<1>9. Carried'
  BY <1>2, <1>3 DEF Carried, NoNewer, Complete
<1>10. ASSUME NEW k \in DOMAIN inbox' PROVE Removable(k)'
  BY <1>1 DEF FilesInv, Removable, NoNewer, NoneBefore
<1>11. Synced'
  <2> SUFFICES ASSUME verb = "sync", calm', NEW p \in (Paths \ Links) \ rest PROVE Same(p)'
    BY <1>3 DEF Synced
  <2>1. p \in All /\ index[p] = there[p] /\ p \notin missingOrChanged(up)
    BY <1>1 DEF All
  <2>2. CASE up
    BY <1>1, <1>3, <2>1, <2>2
       DEF Same, Source, Target, missingOrChanged, syncSide, localTree, fsIndex, Present, SizeAt
  <2>3. CASE ~up
    BY <1>1, <1>3, <2>1, <2>3
       DEF Same, Source, Target, missingOrChanged, syncSide, localTree, fsIndex, Present, SizeAt
  <2> QED  BY <2>2, <2>3
<1>12. MoveLosesNothing'
  BY <1>1 DEF FilesInv, MoveLosesNothing
<1> QED  BY <1>4, <1>5, <1>6, <1>7, <1>8, <1>9, <1>10, <1>11, <1>12 DEF FilesInv

LEMMA ListedTyped ==
  \* What is listed are paths.
  \A up \in BOOLEAN : syncSide(up) \in SUBSET All /\ missingOrChanged(up) \in SUBSET All
BY DEF syncSide, missingOrChanged, localTree, fsIndex, Present, All

LEMMA AskedKeeps ==
  \* What is asked of the machine comes after all it was asked before.
  ASSUME FilesInv, NEW x \in Asked, inbox' = Append(inbox, x), UNCHANGED <<moving, there>>,
         x.id = 0, \A p \in All : x.from.got[p] <= writes, writes' = writes,
         x.from.listed # {} => NoNewer(x.from, there) /\ (\A p \in x.from.listed : x.from.got[p] # 0) /\ NoneComes
  PROVE  /\ QueueTyped' /\ InOrder' /\ Unsent' /\ (\A k \in DOMAIN inbox' : Removable(k)')
         /\ (NoneComes => NoneComes')
         /\ \A k \in DOMAIN inbox', p \in All : inbox'[k].from.got[p] <= writes'
<1>1. /\ inbox \in Seq(Asked) /\ inbox' \in Seq(Asked) /\ Len(inbox') = Len(inbox) + 1 /\ inbox'[Len(inbox) + 1] = x
      /\ \A k \in DOMAIN inbox : inbox'[k] = inbox[k]
      /\ DOMAIN inbox = 1..Len(inbox) /\ DOMAIN inbox' = 1..(Len(inbox) + 1) /\ Len(inbox) \in Nat
  BY DEF FilesInv, QueueTyped
<1>2. QueueTyped'
  BY <1>1 DEF FilesInv, QueueTyped, Asked
<1>3. InOrder'
  BY <1>1 DEF FilesInv, InOrder
<1>4. ASSUME NEW k \in DOMAIN inbox' PROVE Removable(k)'
  <2>1. CASE k \in DOMAIN inbox
    <3>1. Removable(k) /\ inbox'[k] = inbox[k]
      BY <1>1, <2>1 DEF FilesInv
    <3>2. NoneBefore(k) => NoneBefore(k)'
      BY <1>1, <2>1 DEF NoneBefore
    <3> QED  BY <3>1, <3>2 DEF Removable, NoNewer
  <2>2. CASE k = Len(inbox) + 1
    <3>1. NoneComes => NoneBefore(k)'
      BY <1>1, <2>2 DEF NoneComes, NoneBefore
    <3> QED  BY <1>1, <2>2, <3>1 DEF Removable, NoNewer
  <2> QED  BY <1>1, <2>1, <2>2
<1>5. NoneComes => NoneComes'
  BY <1>1 DEF NoneComes, NoneBefore
<1>6. Unsent'
  BY <1>1 DEF FilesInv, Unsent
<1>7. \A k \in DOMAIN inbox', p \in All : inbox'[k].from.got[p] <= writes'
  BY <1>1 DEF FilesInv, Written
<1> QED  BY <1>2, <1>3, <1>4, <1>5, <1>6, <1>7

LEMMA fsRmKeeps ==
  \* A removal that was asked for by itself stands for no command.
  ASSUME FilesInv, NEW tree \in BOOLEAN, NEW p \in Paths, fsRm(tree, p)
  PROVE  FilesInv'
<1> DEFINE x == [remove |-> IF tree THEN Paths ELSE {p}, from |-> NoCommand, id |-> 0]
<1>1. /\ Idle /\ commands < MaxCommands /\ commands' = commands + 1 /\ inbox' = Append(inbox, x)
      /\ UNCHANGED <<here, there, index, cmd, moving, moved, calm, writes, breaks>>
  BY DEF fsRm
<1>2. x \in Asked /\ x.from.listed = {} /\ x.id = 0 /\ x.from = NoCommand
  <2>1. NoCommand \in Command
    <3>1. [q \in All |-> 0] \in [All -> Versions]
      BY FilesAssumption DEF Versions
    <3> QED  BY <3>1 DEF NoCommand, Command, Verbs, Phases
  <2> QED  BY <2>1 DEF Asked, All, NoCommand
<1> HIDE DEF x
<1>3. /\ QueueTyped' /\ InOrder' /\ Unsent' /\ (\A k \in DOMAIN inbox' : Removable(k)')
      /\ \A k \in DOMAIN inbox', q \in All : inbox'[k].from.got[q] <= writes'
  <2>1. \A q \in All : x.from.got[q] <= writes
    BY <1>2 DEF NoCommand, FilesInv, CountsTyped, Versions
  <2> QED  BY <1>1, <1>2, <2>1, AskedKeeps
<1>4. CountsTyped'
  <2>1. commands' \in 0..MaxCommands
    BY <1>1, FilesAssumption DEF FilesInv, CountsTyped
  <2> QED  BY <1>1, <2>1 DEF FilesInv, CountsTyped
<1>5. SidesTyped' /\ CommandTyped'
  BY <1>1 DEF FilesInv, SidesTyped, CommandTyped
<1>6. Written' /\ MoveLosesNothing'
  BY <1>1, <1>3 DEF FilesInv, Written, MoveLosesNothing
<1>7. Waits' /\ Carried'
  BY <1>1 DEF Idle, Waits, Carried
<1>8. Synced'
  BY <1>1 DEF FilesInv, Synced, Same, Source, Target, Status, Idle
<1> QED  BY <1>3, <1>4, <1>5, <1>6, <1>7, <1>8 DEF FilesInv

LEMMA NewTransferKeeps ==
  \* A transfer that begins is the last the machine is asked for.
  ASSUME FilesInv, cmd.phase = "next", NEW p \in cmd.todo, NEW ver \in Versions, NEW state \in {"sending", "staged"},
         NewTransfer(p, ver, state),
         UNCHANGED <<here, there, index, moved, calm, writes, commands, breaks>>,
         IF cmd.up THEN state = "staged" /\ ver = here[p] /\ ver # 0
                   ELSE state = "sending" /\ ver = 0 /\ (cmd.verb = "sync" => p \in Paths)
  PROVE  FilesInv'
<1> DEFINE t == [up |-> cmd.up, path |-> p, ver |-> ver, state |-> state]
           n == Len(moving) + 1
           x == [remove |-> {}, from |-> NoCommand, id |-> n]
<1>1. /\ moving' = Append(moving, t) /\ inbox' = Append(inbox, x) /\ cmd' = [cmd EXCEPT !.on = n, !.phase = "wait"]
  BY DEF NewTransfer
<1>2. /\ p \in All /\ t \in Moving /\ cmd \in Command /\ n \in Nat /\ n # 0
  BY DEF FilesInv, CommandTyped, QueueTyped, Command, Moving
<1>3. x \in Asked /\ x.id = n /\ x.from.listed = {} /\ \A q \in All : x.from.got[q] = 0
  <2>1. NoCommand \in Command
    <3>1. [q \in All |-> 0] \in [All -> Versions]
      BY FilesAssumption DEF Versions
    <3> QED  BY <3>1 DEF NoCommand, Command, Verbs, Phases
  <2> QED  BY <1>2, <2>1 DEF Asked, NoCommand
<1>4. t.up = cmd.up /\ t.path = p /\ t.ver = ver /\ t.state = state
  OBVIOUS
<1>5. /\ cmd' \in Command /\ cmd'.phase = "wait" /\ cmd'.on = n /\ cmd'.verb = cmd.verb /\ cmd'.up = cmd.up
      /\ cmd'.listed = cmd.listed /\ cmd'.todo = cmd.todo /\ cmd'.got = cmd.got
  BY <1>1, <1>2 DEF Command, Phases
<1> HIDE DEF t, x
<1>6. /\ inbox \in Seq(Asked) /\ inbox' \in Seq(Asked) /\ Len(inbox') = Len(inbox) + 1 /\ inbox'[Len(inbox) + 1] = x
      /\ \A k \in DOMAIN inbox : inbox'[k] = inbox[k]
      /\ DOMAIN inbox = 1..Len(inbox) /\ DOMAIN inbox' = 1..(Len(inbox) + 1) /\ Len(inbox) \in Nat
  BY <1>1, <1>3 DEF FilesInv, QueueTyped
<1>7. /\ moving \in Seq(Moving) /\ moving' \in Seq(Moving) /\ Len(moving') = n /\ moving'[n] = t
      /\ \A k \in DOMAIN moving : moving'[k] = moving[k]
      /\ DOMAIN moving = 1..Len(moving) /\ DOMAIN moving' = 1..n /\ Len(moving) \in Nat
  BY <1>1, <1>2 DEF FilesInv, QueueTyped
<1>8. \A k \in DOMAIN inbox : inbox[k].id \in Nat /\ inbox[k].id <= Len(moving) /\ (inbox[k].id # 0 => inbox[k].id \in DOMAIN moving)
  <2>1. ASSUME NEW k \in DOMAIN inbox
        PROVE  inbox[k].id \in Nat /\ inbox[k].id <= Len(moving) /\ (inbox[k].id # 0 => inbox[k].id \in DOMAIN moving)
    <3>1. inbox[k].id <= Len(moving)
      BY DEF FilesInv, QueueTyped
    <3>2. inbox[k] \in Asked
      BY <1>6
    <3>3. inbox[k].id \in Nat
      BY <3>2 DEF Asked
    <3> QED  BY <1>7, <3>1, <3>3
  <2> QED  BY <2>1
<1> HIDE DEF n
<1>9. SidesTyped' /\ CountsTyped' /\ MoveLosesNothing'
  BY DEF FilesInv, SidesTyped, CountsTyped, MoveLosesNothing
<1>10. CommandTyped'
  BY <1>2, <1>5, <1>7 DEF CommandTyped
<1>11. QueueTyped'
  <2>1. ASSUME NEW k \in DOMAIN inbox' PROVE inbox'[k].id <= Len(moving')
    BY <1>3, <1>6, <1>7, <1>8 DEF n
  <2> QED  BY <1>6, <1>7, <2>1 DEF QueueTyped
<1>12. Written'
  <2>1. ASSUME NEW i \in DOMAIN moving' PROVE moving'[i].ver <= writes
    <3>1. ver <= writes
      BY <1>2 DEF FilesInv, Written, CountsTyped, Versions
    <3>2. CASE i \in DOMAIN moving
      BY <1>7, <3>2 DEF FilesInv, Written
    <3>3. CASE i = n
      BY <1>4, <1>7, <3>1, <3>3
    <3> QED  BY <1>7, <3>2, <3>3 DEF n
  <2>2. ASSUME NEW k \in DOMAIN inbox', NEW q \in All PROVE inbox'[k].from.got[q] <= writes
    BY <1>3, <1>6 DEF FilesInv, Written, CountsTyped, Versions
  <2> QED  BY <1>5, <2>1, <2>2 DEF FilesInv, Written
<1>13. InOrder'
  BY <1>3, <1>6, <1>8 DEF FilesInv, InOrder, n
<1>20. Unsent'
  <2> SUFFICES ASSUME NEW k \in DOMAIN inbox', inbox'[k].id # 0, ~moving'[inbox'[k].id].up
               PROVE  moving'[inbox'[k].id].state = "sending"
    BY DEF Unsent
  <2>1. CASE k \in DOMAIN inbox
    BY <1>6, <1>7, <1>8, <2>1 DEF FilesInv, Unsent
  <2>2. CASE k = Len(inbox) + 1
    BY <1>3, <1>4, <1>6, <1>7, <2>2
  <2> QED  BY <1>6, <2>1, <2>2
<1>14. \A k \in Nat : NoneBefore(k) /\ (k <= Len(inbox) + 1 \/ ~cmd.up) => NoneBefore(k)'
  <2> SUFFICES ASSUME NEW k \in Nat, NoneBefore(k), k <= Len(inbox) + 1 \/ ~cmd.up,
                      NEW j \in DOMAIN inbox', j < k, inbox'[j].id # 0
               PROVE  ~moving'[inbox'[j].id].up
    BY DEF NoneBefore
  <2>1. CASE j \in DOMAIN inbox
    BY <1>6, <1>7, <1>8, <2>1 DEF NoneBefore
  <2>2. CASE j = Len(inbox) + 1
    BY <1>3, <1>4, <1>6, <1>7, <2>2
  <2> QED  BY <1>6, <2>1, <2>2
<1>15. ASSUME NEW k \in DOMAIN inbox' PROVE Removable(k)'
  <2>1. CASE k \in DOMAIN inbox
    BY <1>6, <1>14, <2>1 DEF FilesInv, Removable, NoNewer
  <2>2. CASE k = Len(inbox) + 1
    BY <1>3, <1>6, <2>2 DEF Removable
  <2> QED  BY <1>6, <2>1, <2>2
<1>16. Status' = t
  BY <1>5, <1>7 DEF Status
<1>17. Waits'
  BY <1>2, <1>3, <1>4, <1>5, <1>6, <1>16 DEF Waits, Source, FilesInv, SidesTyped, Versions
<1>18. Carried'
  <2>1. NoNewer(cmd, Source) /\ (cmd.verb # "sync" => Complete(cmd))
        /\ (~cmd.up /\ (\E q \in All : cmd.got[q] # 0) => NoneComes)
    BY DEF FilesInv, Carried, Idle
  <2>2. ~cmd.up /\ NoneComes => NoneComes'
    <3> SUFFICES ASSUME ~cmd.up, NoneComes, NEW j \in DOMAIN inbox', inbox'[j].id # 0
                 PROVE  ~moving'[inbox'[j].id].up
      BY DEF NoneComes, NoneBefore
    <3>1. CASE j \in DOMAIN inbox
      BY <1>6, <1>7, <1>8, <3>1 DEF NoneComes, NoneBefore
    <3>2. CASE j = Len(inbox) + 1
      BY <1>3, <1>4, <1>6, <1>7, <3>2
    <3> QED  BY <1>6, <3>1, <3>2
  <2> QED  BY <1>5, <2>1, <2>2 DEF Carried, NoNewer, Complete, Source
<1>19. Synced'
  <2> SUFFICES ASSUME cmd.verb = "sync", calm
               PROVE  /\ \A q \in (Paths \ Links) \ cmd.todo : Same(q)'
                      /\ p \in Paths \/ cmd.up
                      /\ state = "staged" => ver = Source[p]
    BY <1>4, <1>5, <1>16 DEF Synced, Source
  <2> QED  BY <1>5 DEF FilesInv, Synced, Same, Source, Target
<1> QED  BY <1>9, <1>10, <1>11, <1>12, <1>13, <1>15, <1>17, <1>18, <1>19, <1>20 DEF FilesInv

LEMMA OneFileKeeps ==
  \* One file of the command, up or down.
  ASSUME FilesInv, NEW p \in All, fsUploadOne(p) \/ fsDownloadOne(p)
  PROVE  FilesInv'
<1>1. breaks \in 0..MaxBreaks /\ here[p] \in Versions /\ 0 \in Versions /\ cmd.up \in BOOLEAN
  BY FilesAssumption DEF FilesInv, CountsTyped, SidesTyped, CommandTyped, Command, Versions
<1>2. Break => breaks' \in 0..MaxBreaks
  BY <1>1, FilesAssumption DEF Break
<1>3. CASE Fail /\ (Break \/ UNCHANGED breaks)
           /\ UNCHANGED <<here, there, index, moving, inbox, moved, calm, writes, commands>>
  BY <1>1, <1>2, <1>3, FailKeeps
<1>4. CASE fsUploadOne(p) /\ here[p] # 0 /\ NewTransfer(p, here[p], "staged") /\ UNCHANGED breaks
  <2>1. cmd.phase = "next" /\ cmd.up /\ p \in cmd.todo
        /\ UNCHANGED <<here, there, index, moved, calm, writes, commands, breaks>>
    BY <1>4 DEF fsUploadOne
  <2> QED  BY <1>1, <1>4, <2>1, NewTransferKeeps
<1>5. CASE fsDownloadOne(p) /\ Fetchable(p) /\ NewTransfer(p, 0, "sending")
  <2>1. cmd.phase = "next" /\ ~cmd.up /\ p \in cmd.todo
        /\ UNCHANGED <<here, there, index, moved, calm, writes, commands, breaks>>
        /\ (cmd.verb = "sync" => p \in Paths)
    BY <1>5 DEF fsDownloadOne, Fetchable, InDirectory
  <2> QED  BY <1>1, <1>5, <2>1, NewTransferKeeps
<1> QED  BY <1>3, <1>4, <1>5 DEF fsUploadOne, fsDownloadOne

LEMMA waitTransferKeeps ==
  \* What the machine has taken is what was read.
  ASSUME FilesInv, waitTransfer
  PROVE  FilesInv'
<1> DEFINE t == Status
<1>1. /\ cmd.phase = "wait" /\ cmd.up /\ t.state = "done" /\ cmd' = [cmd EXCEPT !.todo = @ \ {t.path}, !.phase = "next"]
      /\ UNCHANGED <<here, there, index, moving, inbox, moved, calm, writes, commands, breaks>>
  BY DEF waitTransfer
<1>2. cmd \in Command /\ cmd.on # 0 /\ t \in Moving
  BY <1>1, StatusTyped DEF FilesInv, CommandTyped, Waits
<1>3. /\ cmd' \in Command /\ cmd'.phase = "next" /\ cmd'.on = cmd.on /\ cmd'.verb = cmd.verb /\ cmd'.up = cmd.up
      /\ cmd'.listed = cmd.listed /\ cmd'.todo = cmd.todo \ {t.path} /\ cmd'.got = cmd.got
  BY <1>1, <1>2 DEF Command, Phases
<1>4. SidesTyped' /\ QueueTyped' /\ CountsTyped' /\ InOrder' /\ Unsent' /\ MoveLosesNothing'
  BY <1>1 DEF FilesInv, SidesTyped, QueueTyped, CountsTyped, InOrder, Unsent, MoveLosesNothing
<1>5. CommandTyped' /\ Written'
  BY <1>1, <1>3 DEF FilesInv, CommandTyped, Written
<1>6. ASSUME NEW k \in DOMAIN inbox' PROVE Removable(k)'
  BY <1>1 DEF FilesInv, Removable, NoNewer, NoneBefore
<1>7. Waits'
  BY <1>3 DEF Waits
<1>8. t.ver # 0 /\ cmd.got[t.path] = t.ver
  BY <1>1 DEF FilesInv, Waits
<1>9. Carried'
  <2>1. NoNewer(cmd, Source) /\ (cmd.verb # "sync" => Complete(cmd))
    BY <1>1 DEF FilesInv, Carried, Idle
  <2>2. Status' = t
    BY <1>1, <1>3 DEF Status
  <2>3. cmd.verb # "sync" => Complete(cmd)'
    BY <1>3, <1>8, <2>1 DEF Complete
  <2> QED  BY <1>1, <1>3, <2>1, <2>2, <2>3 DEF Carried, NoNewer, Source
<1>10. Synced'
  <2> SUFFICES ASSUME cmd.verb = "sync", calm, NEW p \in (Paths \ Links) \ (cmd.todo \ {t.path}) PROVE Same(p)
    BY <1>1, <1>3 DEF Synced, Same, Source, Target
  <2>1. CASE p \notin cmd.todo
    BY <1>1, <2>1 DEF FilesInv, Synced
  <2>2. CASE p = t.path
    BY <1>1, <2>2 DEF FilesInv, Synced, Same, Source, Target
  <2> QED  BY <2>1, <2>2
<1> QED  BY <1>4, <1>5, <1>6, <1>7, <1>9, <1>10 DEF FilesInv

LEMMA waitStagedKeeps ==
  \* What the machine has sent is there to be fetched.
  ASSUME FilesInv, waitStaged
  PROVE  FilesInv'
<1>1. /\ cmd.phase = "wait" /\ ~cmd.up /\ Status.state = "staged" /\ cmd' = [cmd EXCEPT !.phase = "fetch"]
      /\ UNCHANGED <<here, there, index, moving, inbox, moved, calm, writes, commands, breaks>>
  BY DEF waitStaged
<1>2. /\ cmd' \in Command /\ cmd'.phase = "fetch" /\ cmd'.on = cmd.on /\ cmd'.verb = cmd.verb /\ cmd'.up = cmd.up
      /\ cmd'.listed = cmd.listed /\ cmd'.todo = cmd.todo /\ cmd'.got = cmd.got
  BY <1>1, CommandIs DEF FilesInv, Phases
<1>3. SidesTyped' /\ QueueTyped' /\ CountsTyped' /\ InOrder' /\ Unsent' /\ MoveLosesNothing'
  BY <1>1 DEF FilesInv, SidesTyped, QueueTyped, CountsTyped, InOrder, Unsent, MoveLosesNothing
<1>4. CommandTyped' /\ Written'
  BY <1>1, <1>2 DEF FilesInv, CommandTyped, Written
<1>5. ASSUME NEW k \in DOMAIN inbox' PROVE Removable(k)'
  BY <1>1 DEF FilesInv, Removable, NoNewer, NoneBefore
<1>6. Status' = Status /\ UNCHANGED <<Source, Target, NoneComes>>
  BY <1>1, <1>2 DEF Status, Source, Target, NoneComes, NoneBefore
<1>7. Waits'
  BY <1>1, <1>2, <1>6 DEF FilesInv, Waits
<1>8. Carried'
  BY <1>1, <1>2, <1>6 DEF FilesInv, Carried, Idle, NoNewer, Complete
<1>9. Synced'
  BY <1>1, <1>2, <1>6 DEF FilesInv, Synced, Same
<1> QED  BY <1>3, <1>4, <1>5, <1>7, <1>8, <1>9 DEF FilesInv

LEMMA IdsTyped ==
  \* The machine is asked for transfers that were begun.
  ASSUME QueueTyped, NEW j \in DOMAIN inbox
  PROVE  inbox[j].id \in Nat /\ (inbox[j].id # 0 => inbox[j].id \in DOMAIN moving)
<1>1. inbox[j].id <= Len(moving) /\ inbox[j] \in Asked /\ DOMAIN moving = 1..Len(moving) /\ Len(moving) \in Nat
  BY DEF QueueTyped
<1>2. inbox[j].id \in Nat
  BY <1>1 DEF Asked
<1> QED  BY <1>1, <1>2

LEMMA Settles ==
  \* A transfer whose state changes is the same transfer.
  ASSUME moving \in Seq(Moving), NEW i \in DOMAIN moving, NEW x \in {"sending", "staged", "done", "failed"},
         moving' = [moving EXCEPT ![i].state = x]
  PROVE  /\ moving' \in Seq(Moving) /\ Len(moving') = Len(moving) /\ DOMAIN moving' = DOMAIN moving
         /\ moving'[i].state = x /\ (\A j \in DOMAIN moving \ {i} : moving'[j] = moving[j])
         /\ \A j \in DOMAIN moving : moving'[j].up = moving[j].up /\ moving'[j].ver = moving[j].ver
                                    /\ moving'[j].path = moving[j].path
<1> DEFINE m == [moving[i] EXCEPT !.state = x]
<1>1. moving' = [moving EXCEPT ![i] = m] /\ moving[i] \in Moving
  OBVIOUS
<1>2. /\ m \in Moving /\ m.state = x /\ m.up = moving[i].up /\ m.ver = moving[i].ver
      /\ m.path = moving[i].path
  BY <1>1 DEF Moving
<1> HIDE DEF m
<1> QED  BY <1>1, <1>2

LEMMA RenameKeeps ==
  \* What was fetched is what the machine sent.
  ASSUME FilesInv, Rename
  PROVE  FilesInv'
<1> DEFINE t == Status
<1>1. /\ cmd.phase = "fetch"
      /\ here' = IF InDirectory(t.path) THEN [here EXCEPT ![t.path] = t.ver] ELSE here
      /\ moving' = [moving EXCEPT ![cmd.on].state = "done"]
      /\ cmd' = [cmd EXCEPT !.todo = @ \ {t.path}, !.got[t.path] = t.ver, !.phase = "next"]
      /\ UNCHANGED <<there, index, inbox, moved, calm, writes, commands, breaks>>
  BY DEF Rename, Delivered
<1>2. /\ ~cmd.up /\ cmd.on # 0 /\ t.state = "staged" /\ t.up = cmd.up /\ t.ver # 0 /\ NoneComes
      /\ there[t.path] # 0 => t.ver <= there[t.path]
  BY <1>1 DEF FilesInv, Waits, Source
<1>3. cmd \in Command /\ cmd.on \in DOMAIN moving /\ t \in Moving /\ moving \in Seq(Moving)
  BY <1>2, StatusTyped DEF FilesInv, CommandTyped, QueueTyped
<1>4. t.path \in All /\ t.ver \in Versions /\ t.ver <= writes
  BY <1>3 DEF Moving, FilesInv, Written, Status
<1>5. /\ cmd' \in Command /\ cmd'.phase = "next" /\ cmd'.on = cmd.on /\ cmd'.verb = cmd.verb /\ cmd'.up = cmd.up
      /\ cmd'.listed = cmd.listed /\ cmd'.todo = cmd.todo \ {t.path}
      /\ cmd'.got = [cmd.got EXCEPT ![t.path] = t.ver]
  BY <1>1, <1>3, <1>4 DEF Command, Phases
<1>6. /\ moving' \in Seq(Moving) /\ Len(moving') = Len(moving) /\ DOMAIN moving' = DOMAIN moving
      /\ moving'[cmd.on].state = "done"
      /\ \A i \in DOMAIN moving : moving'[i].up = moving[i].up /\ moving'[i].ver = moving[i].ver
      /\ \A i \in DOMAIN moving \ {cmd.on} : moving'[i] = moving[i]
  BY <1>1, <1>3, Settles
<1>7. here' \in [All -> Versions] /\ \A p \in All : here'[p] = IF p = t.path /\ p \in Paths THEN t.ver ELSE here[p]
  BY <1>1, <1>4 DEF FilesInv, SidesTyped, InDirectory
<1>8. cmd.got \in [All -> Versions] /\ \A p \in All : cmd'.got[p] = IF p = t.path THEN t.ver ELSE cmd.got[p]
  BY <1>3, <1>4, <1>5 DEF Command
<1>9. SidesTyped' /\ CountsTyped' /\ InOrder' /\ MoveLosesNothing'
  BY <1>1, <1>7 DEF FilesInv, SidesTyped, CountsTyped, InOrder, MoveLosesNothing
<1>10. QueueTyped' /\ CommandTyped'
  BY <1>1, <1>5, <1>6 DEF FilesInv, QueueTyped, CommandTyped
<1>11. Written'
  <2>1. \A p \in All : here'[p] <= writes /\ cmd'.got[p] <= writes
    BY <1>4, <1>7, <1>8 DEF FilesInv, Written
  <2> QED  BY <1>1, <1>6, <2>1 DEF FilesInv, Written
<1>0. \A j \in DOMAIN inbox : inbox[j].id # 0 => inbox[j].id \in DOMAIN moving
  BY IdsTyped DEF FilesInv
<1>12. \A k \in Nat : NoneBefore(k) => NoneBefore(k)'
  BY <1>0, <1>1, <1>6 DEF NoneBefore
<1>17. Unsent'
  BY <1>0, <1>1, <1>2, <1>6 DEF FilesInv, Unsent, Status
<1>13. ASSUME NEW k \in DOMAIN inbox' PROVE Removable(k)'
  <2>1. k \in Nat /\ k \in DOMAIN inbox
    BY <1>1 DEF FilesInv, QueueTyped
  <2> QED  BY <1>1, <1>12, <2>1 DEF FilesInv, Removable, NoNewer
<1>14. Waits'
  BY <1>5 DEF Waits
<1>15. Carried'
  <2>1. NoNewer(cmd, there) /\ (cmd.verb # "sync" => Complete(cmd))
    BY <1>1, <1>2 DEF FilesInv, Carried, Idle, Source
  <2>2. NoNewer(cmd, there)'
    BY <1>1, <1>2, <1>8, <2>1 DEF NoNewer
  <2>3. cmd.verb # "sync" => Complete(cmd)'
    <3> SUFFICES ASSUME cmd.verb # "sync", NEW p \in cmd.listed \ (cmd.todo \ {t.path}) PROVE cmd'.got[p] # 0
      BY <1>5 DEF Complete
    <3>1. p \in All
      BY <1>3 DEF Command
    <3> QED  BY <1>2, <1>8, <2>1, <3>1 DEF Complete
  <2>4. NoneComes'
    <3>1. Len(inbox) + 1 \in Nat /\ Len(inbox') = Len(inbox)
      BY <1>1 DEF FilesInv, QueueTyped
    <3> QED  BY <1>2, <1>12, <3>1 DEF NoneComes
  <2>5. Status'.state = "done"
    BY <1>5, <1>6 DEF Status
  <2> QED  BY <1>2, <1>5, <2>2, <2>3, <2>4, <2>5 DEF Carried, Source
<1>16. Synced'
  <2> SUFFICES ASSUME cmd.verb = "sync", calm, NEW p \in (Paths \ Links) \ (cmd.todo \ {t.path}),
                      there[p] # 0
               PROVE  here'[p] # 0 /\ Size(here'[p]) = Size(there[p])
    BY <1>1, <1>2, <1>5 DEF Synced, Same, Source, Target
  <2>1. p \in All
    BY DEF All
  <2>2. CASE p = t.path
    <3>1. t.ver = there[t.path]
      BY <1>1, <1>2 DEF FilesInv, Synced, Source
    <3> QED  BY <1>7, <2>1, <2>2, <3>1
  <2>3. CASE p # t.path
    <3>1. Same(p)
      BY <1>1, <2>3 DEF FilesInv, Synced
    <3> QED  BY <1>2, <1>7, <2>1, <2>3, <3>1 DEF Same, Source, Target
  <2> QED  BY <2>2, <2>3
<1> QED  BY <1>9, <1>10, <1>11, <1>13, <1>14, <1>15, <1>16, <1>17 DEF FilesInv

LEMMA EveryFileThereKeeps ==
  \* The last file was brought.
  ASSUME FilesInv, EveryFileThere
  PROVE  FilesInv'
<1> DEFINE x == IF cmd.verb = "mv" THEN "remove" ELSE "done"
<1>1. /\ cmd.phase = "next" /\ cmd.todo = {} /\ cmd' = [cmd EXCEPT !.phase = x]
      /\ UNCHANGED <<here, there, index, moving, inbox, moved, calm, writes, commands, breaks>>
      /\ x \in {"remove", "done"} /\ (x = "remove" => cmd.verb = "mv") /\ x \in Phases
  BY DEF EveryFileThere, Phases
<1> HIDE DEF x
<1>2. /\ cmd' \in Command /\ cmd'.phase = x /\ cmd'.on = cmd.on /\ cmd'.verb = cmd.verb /\ cmd'.up = cmd.up
      /\ cmd'.listed = cmd.listed /\ cmd'.todo = cmd.todo /\ cmd'.got = cmd.got
  BY <1>1, CommandIs DEF FilesInv
<1>3. SidesTyped' /\ QueueTyped' /\ CountsTyped' /\ InOrder' /\ Unsent' /\ MoveLosesNothing'
  BY <1>1 DEF FilesInv, SidesTyped, QueueTyped, CountsTyped, InOrder, Unsent, MoveLosesNothing
<1>4. CommandTyped' /\ Written'
  BY <1>1, <1>2 DEF FilesInv, CommandTyped, Written
<1>5. ASSUME NEW k \in DOMAIN inbox' PROVE Removable(k)'
  BY <1>1 DEF FilesInv, Removable, NoNewer, NoneBefore
<1>6. Status' = Status /\ UNCHANGED <<Source, Target, NoneComes>>
  BY <1>1, <1>2 DEF Status, Source, Target, NoneComes, NoneBefore
<1>7. Waits'
  BY <1>1, <1>2 DEF Waits
<1>8. Carried'
  BY <1>1, <1>2, <1>6 DEF FilesInv, Carried, Idle, NoNewer, Complete
<1>9. Synced'
  BY <1>1, <1>2, <1>6 DEF FilesInv, Synced, Same
<1> QED  BY <1>3, <1>4, <1>5, <1>7, <1>8, <1>9 DEF FilesInv

LEMMA LostIs ==
  \* What was listed and got is not lost.
  ASSUME NEW side \in [All -> Versions], NEW S \in SUBSET All, NEW c \in Command,
         \A p \in S : side[p] # 0, NoNewer(c, side), \A p \in c.listed : c.got[p] # 0
  PROVE  \A g \in Lost(side, S, c) : g.listed => g.got # 0 /\ g.got <= g.ver
<1> SUFFICES ASSUME NEW g \in Lost(side, S, c), g.listed PROVE g.got # 0 /\ g.got <= g.ver
  OBVIOUS
<1>1. PICK p \in S : g = [path |-> p, ver |-> side[p], listed |-> p \in c.listed, got |-> c.got[p]]
  BY DEF Lost
<1>2. g.ver = side[p] /\ g.got = c.got[p] /\ p \in c.listed
  BY <1>1
<1> QED  BY <1>2 DEF NoNewer

LEMMA RemoveLocalKeeps ==
  \* A move up removes what it has brought.
  ASSUME FilesInv, RemoveLocal
  PROVE  FilesInv'
<1> DEFINE present == Present(here, IF cmd.tree THEN Paths ELSE cmd.listed)
<1>1. PICK S \in SUBSET present :
        /\ here' = Cleared(here, S) /\ moved' = moved \cup Lost(here, S, cmd)
        /\ \/ cmd' = [cmd EXCEPT !.phase = "done"] /\ UNCHANGED breaks
           \/ Fail /\ Break
  BY DEF RemoveLocal
<1>2. cmd.phase = "remove" /\ cmd.up /\ UNCHANGED <<there, index, moving, inbox, calm, writes, commands>>
  BY DEF RemoveLocal
<1>3. cmd \in Command /\ S \in SUBSET All /\ here \in [All -> Versions] /\ \A p \in S : here[p] # 0
  <2>1. cmd.listed \in SUBSET All /\ cmd \in Command
    BY DEF FilesInv, CommandTyped, Command
  <2> QED  BY <1>1, <2>1 DEF FilesInv, SidesTyped, Present, All
<1>4. cmd.verb = "mv" /\ NoNewer(cmd, here) /\ \A p \in cmd.listed : cmd.got[p] # 0
  BY <1>2 DEF FilesInv, Carried, Idle, Complete, Source
<1>5. MoveLosesNothing'
  <2>1. \A g \in Lost(here, S, cmd) : g.listed => g.got # 0 /\ g.got <= g.ver
    BY <1>3, <1>4, LostIs
  <2> QED  BY <1>1, <2>1 DEF FilesInv, MoveLosesNothing
<1>6. here' \in [All -> Versions] /\ \A p \in All : here'[p] <= writes
  <2>1. \A p \in All : here'[p] \in {0, here[p]} /\ 0 <= writes
    BY <1>1, <1>3 DEF Cleared, FilesInv, CountsTyped, Versions
  <2>2. 0 \in Versions
    BY FilesAssumption DEF Versions
  <2> QED  BY <1>1, <1>3, <2>1, <2>2 DEF Cleared, FilesInv, Written
<1>7. PICK x \in {"done", "failed"} : cmd' = [cmd EXCEPT !.phase = x] /\ breaks' \in 0..MaxBreaks
  <2>1. breaks \in 0..MaxBreaks
    BY DEF FilesInv, CountsTyped
  <2> QED  BY <1>1, <2>1, FilesAssumption DEF Fail, Break
<1>8. /\ cmd' \in Command /\ cmd'.phase = x /\ cmd'.on = cmd.on /\ cmd'.verb = cmd.verb /\ cmd'.got = cmd.got
  BY <1>7, CommandIs DEF FilesInv, Phases
<1>9. SidesTyped' /\ QueueTyped' /\ InOrder' /\ Unsent' /\ CommandTyped'
  BY <1>2, <1>6, <1>8 DEF FilesInv, SidesTyped, QueueTyped, InOrder, Unsent, CommandTyped
<1>10. CountsTyped'
  BY <1>2, <1>7 DEF FilesInv, CountsTyped
<1>11. Written'
  BY <1>2, <1>6, <1>8 DEF FilesInv, Written
<1>12. ASSUME NEW k \in DOMAIN inbox' PROVE Removable(k)'
  BY <1>2 DEF FilesInv, Removable, NoNewer, NoneBefore
<1>13. Waits' /\ Carried' /\ Synced'
  BY <1>4, <1>8 DEF Waits, Carried, Synced, Idle
<1> QED  BY <1>5, <1>9, <1>10, <1>11, <1>12, <1>13 DEF FilesInv

LEMMA RemoveRemoteKeeps ==
  \* A move down asks for the removal of what it has fetched, when nothing older is to come.
  ASSUME FilesInv, RemoveRemote
  PROVE  FilesInv'
<1> DEFINE x == [remove |-> IF cmd.tree THEN Paths ELSE cmd.listed, from |-> cmd, id |-> 0]
<1>1. /\ cmd.phase = "remove" /\ ~cmd.up /\ inbox' = Append(inbox, x) /\ cmd' = [cmd EXCEPT !.phase = "done"]
      /\ UNCHANGED <<here, there, index, moving, moved, calm, writes, commands, breaks>>
  BY DEF RemoveRemote
<1>2. x \in Asked /\ x.id = 0 /\ x.from = cmd
  <2>1. cmd \in Command /\ cmd.listed \in SUBSET All
    BY DEF FilesInv, CommandTyped, Command
  <2> QED  BY <2>1 DEF Asked, All
<1> HIDE DEF x
<1>3. /\ cmd.verb = "mv" /\ NoNewer(cmd, there) /\ (\A p \in cmd.listed : cmd.got[p] # 0)
      /\ (\E p \in All : cmd.got[p] # 0) => NoneComes
  BY <1>1 DEF FilesInv, Carried, Idle, Complete, Source
<1>4. cmd.listed # {} => NoneComes
  BY <1>3 DEF FilesInv, CommandTyped, Command
<1>5. /\ QueueTyped' /\ InOrder' /\ Unsent' /\ (\A k \in DOMAIN inbox' : Removable(k)')
      /\ \A k \in DOMAIN inbox', p \in All : inbox'[k].from.got[p] <= writes'
  <2>1. \A p \in All : x.from.got[p] <= writes
    BY <1>2 DEF FilesInv, Written
  <2> QED  BY <1>1, <1>2, <1>3, <1>4, <2>1, AskedKeeps
<1>6. /\ cmd' \in Command /\ cmd'.phase = "done" /\ cmd'.on = cmd.on /\ cmd'.verb = cmd.verb /\ cmd'.got = cmd.got
  BY <1>1, CommandIs DEF FilesInv, Phases
<1>7. SidesTyped' /\ CountsTyped' /\ CommandTyped' /\ MoveLosesNothing'
  BY <1>1, <1>6 DEF FilesInv, SidesTyped, CountsTyped, CommandTyped, MoveLosesNothing
<1>8. Written'
  BY <1>1, <1>5, <1>6 DEF FilesInv, Written
<1>9. Waits' /\ Carried' /\ Synced'
  BY <1>3, <1>6 DEF Waits, Carried, Synced, Idle
<1> QED  BY <1>5, <1>7, <1>8, <1>9 DEF FilesInv

-----------------------------------------------------------------------------
(* Steps of the machine *)

LEMMA Taken ==
  \* The machine takes up what it was asked first; the rest keeps its order.
  ASSUME FilesInv, inbox # <<>>, inbox' = Tail(inbox), moving' \in Seq(Moving), Len(moving') = Len(moving),
         \A i \in DOMAIN moving : moving'[i].up = moving[i].up
  PROVE  /\ 1 \in DOMAIN inbox /\ inbox[1] = First /\ First \in Asked
         /\ \A k \in DOMAIN inbox' : k + 1 \in DOMAIN inbox /\ inbox'[k] = inbox[k + 1] /\ k \in Nat /\ k # 0
         /\ Len(inbox) \in Nat /\ Len(inbox) \in DOMAIN inbox
         /\ Len(inbox) # 1 => inbox' # <<>> /\ inbox'[Len(inbox')] = inbox[Len(inbox)]
         /\ QueueTyped' /\ InOrder'
         /\ \A k \in DOMAIN inbox' : NoneBefore(k + 1) => NoneBefore(k)'
         /\ NoneComes => NoneComes'
         /\ \A k \in DOMAIN inbox', p \in All : inbox'[k].from.got[p] <= writes
         /\ Len(inbox) = 1 => NoneComes'
<1>1. /\ inbox \in Seq(Asked) /\ inbox' \in Seq(Asked) /\ Len(inbox') = Len(inbox) - 1
      /\ Len(inbox) \in Nat /\ Len(inbox) # 0
      /\ DOMAIN inbox = 1..Len(inbox) /\ DOMAIN inbox' = 1..(Len(inbox) - 1)
      /\ \A k \in 1..(Len(inbox) - 1) : inbox'[k] = inbox[k + 1]
      /\ inbox[1] = First
  BY DEF FilesInv, QueueTyped, First
<1>2. \A k \in DOMAIN inbox' : k + 1 \in DOMAIN inbox /\ inbox'[k] = inbox[k + 1] /\ k \in Nat /\ k # 0
  BY <1>1
<1>3. 1 \in DOMAIN inbox /\ First \in Asked /\ Len(inbox) \in DOMAIN inbox
  BY <1>1
<1>4. Len(inbox) # 1 => inbox' # <<>> /\ inbox'[Len(inbox')] = inbox[Len(inbox)]
  BY <1>1, SMTT(60)
<1>5. QueueTyped'
  <2>1. \A k \in DOMAIN inbox' : inbox'[k].id <= Len(moving')
    BY <1>2 DEF FilesInv, QueueTyped
  <2> QED  BY <1>1, <2>1 DEF QueueTyped
<1>6. InOrder'
  BY <1>2 DEF FilesInv, InOrder
<1>7. \A j \in DOMAIN inbox : inbox[j].id # 0 => inbox[j].id \in DOMAIN moving
  BY IdsTyped DEF FilesInv
<1>8. ASSUME NEW k \in DOMAIN inbox', NoneBefore(k + 1) PROVE NoneBefore(k)'
  <2> SUFFICES ASSUME NEW j \in DOMAIN inbox', j < k, inbox'[j].id # 0 PROVE ~moving'[inbox'[j].id].up
    BY DEF NoneBefore
  <2>1. j + 1 \in DOMAIN inbox /\ j + 1 < k + 1 /\ inbox'[j] = inbox[j + 1]
    BY <1>2
  <2> QED  BY <1>7, <1>8, <2>1 DEF NoneBefore
<1>9. ASSUME NoneComes PROVE NoneComes'
  <2> SUFFICES ASSUME NEW j \in DOMAIN inbox', inbox'[j].id # 0 PROVE ~moving'[inbox'[j].id].up
    BY DEF NoneComes, NoneBefore
  <2>1. j + 1 \in DOMAIN inbox /\ j + 1 < Len(inbox) + 1 /\ inbox'[j] = inbox[j + 1]
    BY <1>1
  <2> QED  BY <1>7, <1>9, <2>1 DEF NoneComes, NoneBefore
<1>10. \A k \in DOMAIN inbox', p \in All : inbox'[k].from.got[p] <= writes
  BY <1>2 DEF FilesInv, Written
<1>11. Len(inbox) = 1 => NoneComes'
  BY <1>1 DEF NoneComes, NoneBefore
<1> QED  BY <1>1, <1>2, <1>3, <1>4, <1>5, <1>6, <1>8, <1>9, <1>10, <1>11

LEMMA FirstIs ==
  \* What the machine is asked first, and what it is asked later.
  ASSUME FilesInv, inbox # <<>>, First.id # 0
  PROVE  /\ First.id \in DOMAIN moving /\ moving[First.id] \in Moving
         /\ \A k \in DOMAIN inbox : k # 1 => inbox[k].id = 0 \/ inbox[k].id > First.id
         /\ \A k \in DOMAIN inbox : inbox[k].id \in Nat /\ (inbox[k].id # 0 => inbox[k].id \in DOMAIN moving)
         /\ moving[First.id].up => ~NoneComes /\ \A k \in Nat : k > 1 => ~NoneBefore(k)
         /\ ~moving[First.id].up => moving[First.id].state = "sending"
<1>1. /\ inbox \in Seq(Asked) /\ Len(inbox) \in Nat /\ DOMAIN inbox = 1..Len(inbox)
      /\ 1 \in DOMAIN inbox /\ inbox[1] = First /\ moving \in Seq(Moving)
  BY DEF FilesInv, QueueTyped, First
<1>2. \A k \in DOMAIN inbox : inbox[k].id \in Nat /\ (inbox[k].id # 0 => inbox[k].id \in DOMAIN moving)
  BY IdsTyped DEF FilesInv
<1>3. First.id \in DOMAIN moving /\ moving[First.id] \in Moving
  BY <1>1, <1>2
<1>4. \A k \in DOMAIN inbox : k # 1 => inbox[k].id = 0 \/ inbox[k].id > First.id
  <2> SUFFICES ASSUME NEW k \in DOMAIN inbox, k # 1, inbox[k].id # 0 PROVE inbox[1].id < inbox[k].id
    BY <1>1, <1>2
  <2>1. 1 < k
    BY <1>1
  <2> QED  BY <1>1, <2>1 DEF FilesInv, InOrder
<1>5. ASSUME moving[First.id].up PROVE ~NoneComes /\ \A k \in Nat : k > 1 => ~NoneBefore(k)
  BY <1>1, <1>5 DEF NoneComes, NoneBefore
<1>6. ASSUME ~moving[First.id].up PROVE moving[First.id].state = "sending"
  BY <1>1, <1>6 DEF FilesInv, Unsent
<1> QED  BY <1>2, <1>3, <1>4, <1>5, <1>6

LEMMA MineIs ==
  \* A command waits for the transfer the machine is asked for, or has nothing to do with it.
  ASSUME FilesInv, NEW i \in DOMAIN moving, moving[i].state \in {"sending", "staged"}, Mine(i)
  PROVE  /\ cmd.on = i /\ Status = moving[i] /\ cmd.phase \in {"wait", "fetch"} /\ moving[i].up = cmd.up
         /\ cmd.up => cmd.phase = "wait"
<1>1. cmd.on = i /\ ~Idle /\ Status = moving[i] /\ cmd.phase \in Phases
  BY DEF Mine, Status, FilesInv, CommandTyped, Command
<1>2. i # 0
  BY DEF FilesInv, QueueTyped
<1>3. cmd.phase \in {"wait", "fetch"}
  BY <1>1, <1>2 DEF FilesInv, Carried, Idle, Phases
<1> QED  BY <1>1, <1>3 DEF FilesInv, Waits

LEMMA ReceiveKeeps ==
  \* Only the command that waits for the file may have got others of this machine's.
  ASSUME FilesInv, Receive
  PROVE  FilesInv'
<1> DEFINE i == First.id
           t == moving[i]
<1>1. inbox # <<>> /\ i # 0 /\ t.up /\ t.state = "staged" /\ inbox' = Tail(inbox) /\ UNCHANGED <<here, moved, writes, commands>>
  BY DEF Receive
<1>2. /\ i \in DOMAIN moving /\ t \in Moving /\ ~NoneComes /\ (\A k \in Nat : k > 1 => ~NoneBefore(k))
      /\ \A k \in DOMAIN inbox : k # 1 => inbox[k].id # i
  BY <1>1, FirstIs
<1>3. t.path \in All /\ t.ver \in Versions /\ t.ver <= writes
  BY <1>2 DEF Moving, FilesInv, Written
<1>4. PICK x \in {"done", "failed"} :
        /\ moving' = [moving EXCEPT ![i].state = x]
        /\ there' \in {there, [there EXCEPT ![t.path] = t.ver]}
        /\ index' \in {index, [index EXCEPT ![t.path] = t.ver]}
        /\ x = "done" => there' = [there EXCEPT ![t.path] = t.ver]
        /\ breaks' = breaks \/ Break
  BY DEF Receive
<1>5. /\ cmd' = IF Mine(i) /\ there'[t.path] = t.ver THEN [cmd EXCEPT !.got[t.path] = t.ver] ELSE cmd
      /\ calm' = (calm /\ Mine(i))
  BY DEF Receive
<1>6. breaks' \in 0..MaxBreaks /\ calm' \in BOOLEAN
  BY <1>4, <1>5, FilesAssumption DEF FilesInv, CountsTyped, Break
<1>7. /\ there' \in [All -> Versions] /\ index' \in [All -> Versions]
      /\ \A p \in All : /\ there'[p] = there[p] \/ (p = t.path /\ there'[p] = t.ver)
                        /\ index'[p] = index[p] \/ (p = t.path /\ index'[p] = t.ver)
      /\ x = "done" => there'[t.path] = t.ver
  BY <1>3, <1>4 DEF FilesInv, SidesTyped
<1>8. /\ moving' \in Seq(Moving) /\ Len(moving') = Len(moving) /\ DOMAIN moving' = DOMAIN moving
      /\ moving'[i].state = x /\ (\A j \in DOMAIN moving \ {i} : moving'[j] = moving[j])
      /\ \A j \in DOMAIN moving : moving'[j].up = moving[j].up /\ moving'[j].ver = moving[j].ver
                                 /\ moving'[j].path = moving[j].path
  <2>1. moving \in Seq(Moving) /\ x \in {"sending", "staged", "done", "failed"}
    BY DEF FilesInv, QueueTyped
  <2> QED  BY <1>2, <1>4, <2>1, Settles
<1>9. /\ \A k \in DOMAIN inbox' : k + 1 \in DOMAIN inbox /\ inbox'[k] = inbox[k + 1] /\ k \in Nat /\ k # 0
      /\ Len(inbox) # 1 => inbox' # <<>> /\ inbox'[Len(inbox')] = inbox[Len(inbox)]
      /\ QueueTyped' /\ InOrder' /\ 1 \in DOMAIN inbox /\ inbox[1] = First
      /\ \A k \in DOMAIN inbox', p \in All : inbox'[k].from.got[p] <= writes
  BY <1>1, <1>8, Taken
<1>10. Mine(i) => cmd.on = i /\ Status = t /\ cmd.phase = "wait" /\ cmd.up
  BY <1>1, <1>2, MineIs
<1>11. Mine(i) => t.ver # 0 /\ (here[t.path] # 0 => t.ver <= here[t.path]) /\ (cmd.verb = "sync" /\ calm => t.ver = here[t.path])
  BY <1>1, <1>10 DEF FilesInv, Waits, Synced, Source
<1>12. /\ cmd' \in Command /\ cmd'.phase = cmd.phase /\ cmd'.on = cmd.on /\ cmd'.verb = cmd.verb /\ cmd'.up = cmd.up
       /\ cmd'.listed = cmd.listed /\ cmd'.todo = cmd.todo
       /\ \A p \in All : cmd'.got[p] = cmd.got[p] \/ (p = t.path /\ Mine(i) /\ cmd'.got[p] = t.ver)
       /\ Mine(i) /\ there'[t.path] = t.ver => cmd'.got[t.path] = t.ver
       /\ ~Mine(i) => cmd' = cmd
  <2>1. cmd \in Command /\ cmd.got \in [All -> Versions]
    BY DEF FilesInv, CommandTyped, Command
  <2> QED  BY <1>3, <1>5, <2>1 DEF Command
<1> HIDE DEF i, t
<1>13. SidesTyped' /\ CountsTyped' /\ MoveLosesNothing'
  BY <1>1, <1>6, <1>7 DEF FilesInv, SidesTyped, CountsTyped, MoveLosesNothing
<1>14. CommandTyped'
  BY <1>8, <1>12 DEF FilesInv, CommandTyped
<1>15. Written'
  <2>1. \A p \in All : there'[p] <= writes /\ index'[p] <= writes /\ cmd'.got[p] <= writes
    BY <1>3, <1>7, <1>12 DEF FilesInv, Written
  <2> QED  BY <1>1, <1>8, <1>9, <2>1 DEF FilesInv, Written
<1>16. ASSUME NEW k \in DOMAIN inbox' PROVE Removable(k)'
  <2>1. inbox[k + 1].from.listed = {}
    BY <1>2, <1>9 DEF FilesInv, Removable
  <2> QED  BY <1>9, <2>1 DEF Removable
<1>17. Unsent'
  <2> SUFFICES ASSUME NEW k \in DOMAIN inbox', inbox'[k].id # 0, ~moving'[inbox'[k].id].up
               PROVE  moving'[inbox'[k].id].state = "sending"
    BY DEF Unsent
  <2>1. k + 1 \in DOMAIN inbox /\ inbox'[k] = inbox[k + 1] /\ k + 1 # 1
    BY <1>9
  <2>2. inbox[k + 1].id \in DOMAIN moving /\ inbox[k + 1].id # i
    BY <1>2, <2>1, IdsTyped DEF FilesInv
  <2> QED  BY <1>8, <2>1, <2>2 DEF FilesInv, Unsent
<1>18. cmd.on # 0 => cmd.on \in DOMAIN moving
  BY StatusTyped DEF FilesInv
<1>19. Waits'
  <2>1. CASE Mine(i)
    <3>1. Status' = moving'[i] /\ cmd.phase = "wait" /\ cmd.up
      BY <1>10, <1>12, <2>1 DEF Status
    <3>2. Status'.ver = t.ver /\ Status'.up /\ Status'.path = t.path /\ Status'.state = x
      BY <1>1, <1>2, <1>8, <3>1 DEF t
    <3>3. i # 0
      BY <1>1
    <3> QED  BY <1>1, <1>7, <1>10, <1>11, <1>12, <2>1, <3>1, <3>2, <3>3 DEF Waits, Source
  <2>2. CASE ~Mine(i)
    <3> SUFFICES ASSUME cmd.phase \in {"wait", "fetch"} PROVE Waits'
      BY <1>12 DEF Waits
    <3>1. cmd.on # i /\ cmd.on # 0 /\ Status' = Status
      BY <1>8, <1>12, <1>18, <2>2 DEF Status, Mine, Idle, FilesInv, Waits
    <3>2. Status.state = "sending" => Len(inbox) # 1
      BY <1>9, <3>1 DEF FilesInv, Waits, i
    <3> QED  BY <1>1, <1>2, <1>9, <1>12, <2>2, <3>1, <3>2 DEF FilesInv, Waits, Source
  <2> QED  BY <2>1, <2>2
<1>20. Carried'
  <2> SUFFICES ASSUME ~Idle PROVE Carried'
    BY <1>12 DEF Carried, Idle
  <2>1. /\ NoNewer(cmd, Source) /\ (cmd.verb # "sync" => Complete(cmd))
        /\ (~cmd.up => \A p \in All : cmd.got[p] = 0)
        /\ cmd.phase = "remove" => cmd.verb = "mv" /\ cmd.todo = {}
        /\ cmd.phase \in {"next", "remove"} /\ cmd.on # 0 => Status.state = "done"
    BY <1>2 DEF FilesInv, Carried
  <2>2. ~cmd.up => \A p \in All : cmd'.got[p] = 0
    BY <1>10, <1>12, <2>1
  <2>3. NoNewer(cmd, Source)'
    BY <1>1, <1>10, <1>11, <1>12, <2>1, <2>2 DEF NoNewer, Source
  <2>4. cmd.verb # "sync" => Complete(cmd)'
    <3> SUFFICES ASSUME cmd.verb # "sync", NEW p \in cmd.listed \ cmd.todo PROVE cmd'.got[p] # 0
      BY <1>12 DEF Complete
    <3>1. p \in All /\ cmd.got[p] # 0
      BY <2>1 DEF FilesInv, CommandTyped, Command, Complete
    <3> QED  BY <1>11, <1>12, <3>1
  <2>5. cmd.phase \in {"next", "remove"} /\ cmd.on # 0 => Status'.state = "done"
    BY <1>1, <1>8, <1>12, <1>18, <2>1 DEF Status, t
  <2> QED  BY <1>12, <2>1, <2>2, <2>3, <2>4, <2>5 DEF Carried, Idle
<1>21. Synced'
  <2> SUFFICES ASSUME cmd.verb = "sync", calm, Mine(i) PROVE Synced'
    BY <1>5, <1>12 DEF Synced, i
  <2>1. cmd.phase = "wait" /\ cmd.up /\ t.ver = here[t.path] /\ t.ver # 0
    BY <1>10, <1>11
  <2>2. Status'.ver = t.ver /\ Status'.up /\ Status'.path = t.path /\ Status'.state = x
    BY <1>1, <1>2, <1>8, <1>10, <1>12 DEF t, Status
  <2>3. ASSUME NEW p \in (Paths \ Links) \ cmd.todo, here[p] # 0
        PROVE  there'[p] # 0 /\ Size(there'[p]) = Size(here[p])
    <3>1. p \in All /\ Same(p)
      BY <2>1 DEF All, FilesInv, Synced
    <3> QED  BY <1>7, <2>1, <2>3, <3>1 DEF Same, Source, Target
  <2> QED  BY <1>1, <1>7, <1>12, <2>1, <2>2, <2>3 DEF Synced, Same, Source, Target
<1> QED  BY <1>9, <1>13, <1>14, <1>15, <1>16, <1>17, <1>19, <1>20, <1>21 DEF FilesInv

LEMMA SendKeeps ==
  \* What the machine sends is what it holds, and it was asked for nothing since.
  ASSUME FilesInv, Send
  PROVE  FilesInv'
<1> DEFINE i == First.id
           t == moving[i]
           m == IF there[t.path] = 0 THEN [t EXCEPT !.state = "failed"]
                ELSE [t EXCEPT !.state = "staged", !.ver = there[t.path]]
<1>1. /\ inbox # <<>> /\ i # 0 /\ ~t.up /\ inbox' = Tail(inbox) /\ moving' = [moving EXCEPT ![i] = m]
      /\ UNCHANGED <<here, there, index, cmd, moved, calm, writes, commands, breaks>>
  BY DEF Send
<1>2. /\ i \in DOMAIN moving /\ t \in Moving /\ t.state = "sending"
      /\ \A k \in DOMAIN inbox : k # 1 => inbox[k].id # i
  BY <1>1, FirstIs
<1>3. t.path \in All /\ there[t.path] \in Versions /\ there[t.path] <= writes
  BY <1>2 DEF Moving, FilesInv, SidesTyped, Written
<1>4. /\ m \in Moving /\ m.up = t.up /\ m.path = t.path /\ m.state \in {"failed", "staged"}
      /\ m.state = "staged" => m.ver = there[t.path] /\ m.ver # 0
      /\ m.ver \in {t.ver, there[t.path]}
  BY <1>2, <1>3 DEF Moving
<1> HIDE DEF m
<1>5. /\ moving' \in Seq(Moving) /\ Len(moving') = Len(moving) /\ DOMAIN moving' = DOMAIN moving
      /\ moving'[i] = m /\ (\A j \in DOMAIN moving \ {i} : moving'[j] = moving[j])
      /\ \A j \in DOMAIN moving : moving'[j].up = moving[j].up
  <2>1. moving \in Seq(Moving)
    BY DEF FilesInv, QueueTyped
  <2> QED  BY <1>1, <1>2, <1>4, <2>1
<1>6. /\ \A k \in DOMAIN inbox' : k + 1 \in DOMAIN inbox /\ inbox'[k] = inbox[k + 1] /\ k \in Nat /\ k # 0
      /\ Len(inbox) # 1 => inbox' # <<>> /\ inbox'[Len(inbox')] = inbox[Len(inbox)]
      /\ QueueTyped' /\ InOrder' /\ 1 \in DOMAIN inbox /\ inbox[1] = First
      /\ \A k \in DOMAIN inbox' : NoneBefore(k + 1) => NoneBefore(k)'
      /\ NoneComes => NoneComes'
      /\ \A k \in DOMAIN inbox', p \in All : inbox'[k].from.got[p] <= writes
      /\ Len(inbox) = 1 => NoneComes'
      /\ Len(inbox) \in DOMAIN inbox
  BY <1>1, <1>5, Taken
<1> HIDE DEF t
<1>7. SidesTyped' /\ CountsTyped' /\ MoveLosesNothing' /\ CommandTyped'
  BY <1>1, <1>5 DEF FilesInv, SidesTyped, CountsTyped, MoveLosesNothing, CommandTyped
<1>8. Written'
  <2>1. \A j \in DOMAIN moving' : moving'[j].ver <= writes
    BY <1>2, <1>3, <1>4, <1>5 DEF FilesInv, Written, t
  <2> QED  BY <1>1, <1>6, <2>1 DEF FilesInv, Written
<1>9. ASSUME NEW k \in DOMAIN inbox' PROVE Removable(k)'
  BY <1>1, <1>6 DEF FilesInv, Removable, NoNewer
<1>10. Unsent'
  <2> SUFFICES ASSUME NEW k \in DOMAIN inbox', inbox'[k].id # 0, ~moving'[inbox'[k].id].up
               PROVE  moving'[inbox'[k].id].state = "sending"
    BY DEF Unsent
  <2>1. k + 1 \in DOMAIN inbox /\ inbox'[k] = inbox[k + 1] /\ k + 1 # 1
    BY <1>6
  <2>2. inbox[k + 1].id \in DOMAIN moving /\ inbox[k + 1].id # i
    BY <1>2, <2>1, IdsTyped DEF FilesInv
  <2> QED  BY <1>5, <2>1, <2>2 DEF FilesInv, Unsent
<1>11. cmd.on # 0 => cmd.on \in DOMAIN moving
  BY StatusTyped DEF FilesInv
<1>12. cmd.on # 0 /\ cmd.on # i => Status' = Status
  BY <1>1, <1>5, <1>11 DEF Status
<1>13. Waits'
  <2> SUFFICES ASSUME cmd.phase \in {"wait", "fetch"} PROVE Waits'
    BY <1>1 DEF Waits
  <2>1. CASE cmd.on = i
    <3>1. /\ Status = t /\ ~cmd.up /\ inbox[Len(inbox)].id = i /\ cmd.phase = "wait" /\ Status' = m
      BY <1>1, <1>2, <1>5, <2>1 DEF Status, t, FilesInv, Waits
    <3>2. NoneComes'
      BY <1>2, <1>6, <3>1
    <3> QED  BY <1>1, <1>3, <1>4, <2>1, <3>1, <3>2 DEF Waits, Source, FilesInv, SidesTyped, Versions
  <2>2. CASE cmd.on # i
    <3>1. cmd.on # 0 /\ (Status.state = "sending" => Len(inbox) # 1)
      BY <1>6, <2>2 DEF FilesInv, Waits, i
    <3> QED  BY <1>1, <1>6, <1>12, <2>2, <3>1 DEF FilesInv, Waits, Source
  <2> QED  BY <2>1, <2>2
<1>14. Carried'
  <2> SUFFICES ASSUME ~Idle PROVE Carried'
    BY <1>1 DEF Carried, Idle
  <2>1. cmd.phase \in {"next", "remove"} /\ cmd.on # 0 => Status'.state = "done"
    BY <1>2, <1>12 DEF FilesInv, Carried, Status, t
  <2> QED  BY <1>1, <1>6, <2>1 DEF FilesInv, Carried, NoNewer, Complete, Source, Idle
<1>15. Synced'
  <2> SUFFICES ASSUME cmd.verb = "sync", calm, cmd.phase # "failed" PROVE Synced'
    BY <1>1 DEF Synced
  <2>1. \A p \in (Paths \ Links) \ cmd.todo : Same(p)'
    BY <1>1 DEF FilesInv, Synced, Same, Source, Target
  <2>2. ASSUME cmd.phase \in {"wait", "fetch"}
        PROVE  /\ Status'.path \in Paths \/ cmd.up
               /\ Status'.state \in {"staged", "done"} => Status'.ver = Source[Status'.path]
               /\ cmd.up /\ Status'.state = "done" => there[Status'.path] = Status'.ver
    <3>1. CASE cmd.on = i
      <4>1. Status = t /\ ~cmd.up /\ Status' = m
        BY <1>1, <1>2, <1>5, <2>2, <3>1 DEF Status, t, FilesInv, Waits
      <4> QED  BY <1>4, <2>2, <4>1 DEF FilesInv, Synced, Source
    <3>2. CASE cmd.on # i
      <4>1. Status' = Status
        BY <1>12, <2>2, <3>2 DEF FilesInv, Waits
      <4> QED  BY <2>2, <4>1 DEF FilesInv, Synced, Source
    <3> QED  BY <3>1, <3>2
  <2> QED  BY <1>1, <2>1, <2>2 DEF FilesInv, Synced, Source
<1> QED  BY <1>6, <1>7, <1>8, <1>9, <1>10, <1>13, <1>14, <1>15 DEF FilesInv

LEMMA RemoveKeeps ==
  \* What a move removes on the machine has been got.
  ASSUME FilesInv, Remove
  PROVE  FilesInv'
<1> DEFINE S == Present(there, First.remove)
           c == First.from
<1>1. /\ inbox # <<>> /\ First.id = 0 /\ inbox' = Tail(inbox)
      /\ there' = Cleared(there, S) /\ moved' = moved \cup Lost(there, S, c)
      /\ index' \in {index, Cleared(index, First.remove)}
      /\ calm' = FALSE
      /\ UNCHANGED <<here, cmd, moving, writes, commands, breaks>>
  BY DEF Remove
<1>2. /\ 1 \in DOMAIN inbox /\ inbox[1] = First /\ First \in Asked
      /\ \A k \in DOMAIN inbox' : k + 1 \in DOMAIN inbox /\ inbox'[k] = inbox[k + 1] /\ k \in Nat /\ k # 0
      /\ Len(inbox) # 1 => inbox' # <<>> /\ inbox'[Len(inbox')] = inbox[Len(inbox)]
      /\ QueueTyped' /\ InOrder'
      /\ \A k \in DOMAIN inbox' : NoneBefore(k + 1) => NoneBefore(k)'
      /\ NoneComes => NoneComes'
      /\ \A k \in DOMAIN inbox', p \in All : inbox'[k].from.got[p] <= writes
  <2>1. moving' \in Seq(Moving) /\ Len(moving') = Len(moving)
    BY <1>1 DEF FilesInv, QueueTyped
  <2> QED  BY <1>1, <2>1, Taken
<1>3. c \in Command /\ First.remove \in SUBSET All /\ S \in SUBSET All /\ \A p \in S : there[p] # 0
  BY <1>2 DEF Asked, Present
<1>4. there \in [All -> Versions] /\ index \in [All -> Versions] /\ 0 \in Versions
  BY FilesAssumption DEF FilesInv, SidesTyped, Versions
<1>5. MoveLosesNothing'
  <2>1. CASE c.listed = {}
    <3>1. ASSUME NEW g \in Lost(there, S, c) PROVE ~g.listed
      <4>1. PICK p \in S : g = [path |-> p, ver |-> there[p], listed |-> p \in c.listed, got |-> c.got[p]]
        BY DEF Lost
      <4> QED  BY <2>1, <4>1
    <3> QED  BY <1>1, <3>1 DEF FilesInv, MoveLosesNothing
  <2>2. CASE c.listed # {}
    <3>1. NoNewer(c, there) /\ \A p \in c.listed : c.got[p] # 0
      BY <1>2, <2>2 DEF FilesInv, Removable
    <3>2. \A g \in Lost(there, S, c) : g.listed => g.got # 0 /\ g.got <= g.ver
      BY <1>3, <1>4, <3>1, LostIs
    <3> QED  BY <1>1, <3>2 DEF FilesInv, MoveLosesNothing
  <2> QED  BY <2>1, <2>2
<1> HIDE DEF S, c
<1>6. /\ there' \in [All -> Versions] /\ index' \in [All -> Versions]
      /\ \A p \in All : there'[p] \in {0, there[p]} /\ index'[p] \in {0, index[p]}
  BY <1>1, <1>3, <1>4 DEF Cleared
<1>7. SidesTyped' /\ CountsTyped' /\ CommandTyped'
  BY <1>1, <1>6 DEF FilesInv, SidesTyped, CountsTyped, CommandTyped
<1>8. Written'
  <2>1. 0 <= writes
    BY DEF FilesInv, CountsTyped, Versions
  <2>2. \A p \in All : there'[p] <= writes /\ index'[p] <= writes
    BY <1>6, <2>1 DEF FilesInv, Written
  <2> QED  BY <1>1, <1>2, <2>2 DEF FilesInv, Written
<1>9. ASSUME NEW k \in DOMAIN inbox' PROVE Removable(k)'
  <2>1. Removable(k + 1) /\ inbox'[k] = inbox[k + 1] /\ (NoneBefore(k + 1) => NoneBefore(k)')
    BY <1>2 DEF FilesInv
  <2>2. NoNewer(inbox[k + 1].from, there) => NoNewer(inbox[k + 1].from, there')
    BY <1>6 DEF NoNewer
  <2> QED  BY <2>1, <2>2 DEF Removable
<1>10. Unsent'
  BY <1>1, <1>2 DEF FilesInv, Unsent
<1>11. Status' = Status /\ cmd.up \in BOOLEAN
  BY <1>1 DEF Status, FilesInv, CommandTyped, Command
<1>12. Waits'
  <2> SUFFICES ASSUME cmd.phase \in {"wait", "fetch"} PROVE Waits'
    BY <1>1 DEF Waits
  <2>1. Status.state = "sending" => Len(inbox) # 1
    BY <1>1, <1>2 DEF FilesInv, Waits
  <2>2. Status \in Moving
    BY StatusTyped DEF FilesInv, Waits
  <2>3. Status.state \in {"staged", "done"} => (Source[Status.path] # 0 => Status.ver <= Source[Status.path])'
    BY <1>1, <1>6, <1>11, <2>2 DEF FilesInv, Waits, Source, Moving
  <2> QED  BY <1>1, <1>2, <1>11, <2>1, <2>3 DEF FilesInv, Waits
<1>13. Carried'
  <2>1. ~Idle => NoNewer(cmd, Source)'
    BY <1>1, <1>6 DEF FilesInv, Carried, NoNewer, Source
  <2> QED  BY <1>1, <1>2, <1>11, <2>1 DEF FilesInv, Carried, Complete, Idle
<1>14. Synced'
  BY <1>1 DEF Synced
<1> QED  BY <1>2, <1>5, <1>7, <1>8, <1>9, <1>10, <1>12, <1>13, <1>14 DEF FilesInv

LEMMA SidesKeep ==
  \* Files that are written or deleted by others are newer than what was got, or gone.
  ASSUME FilesInv, SidesTyped', CountsTyped', writes <= writes',
         \A p \in All : /\ here'[p] <= writes' /\ there'[p] <= writes' /\ index'[p] <= writes'
                        /\ here'[p] \in {0, here[p]} \/ here'[p] > writes
                        /\ there'[p] \in {0, there[p]} \/ there'[p] > writes,
         calm' = FALSE \/ UNCHANGED <<here, there, calm>>,
         UNCHANGED <<cmd, moving, inbox, moved>>
  PROVE  FilesInv'
<1>1. CommandTyped' /\ QueueTyped' /\ InOrder' /\ Unsent' /\ MoveLosesNothing'
  BY DEF FilesInv, CommandTyped, QueueTyped, InOrder, Unsent, MoveLosesNothing
<1>2. cmd \in Command /\ writes \in Nat /\ writes' \in Nat /\ Status' = Status /\ NoneComes' = NoneComes
  BY DEF FilesInv, CommandTyped, CountsTyped, Versions, Status, NoneComes, NoneBefore
<1>3. \A p \in All : here'[p] \in Nat /\ there'[p] \in Nat /\ cmd.got[p] \in Nat /\ cmd.got[p] <= writes
  BY <1>2 DEF FilesInv, SidesTyped, Written, Versions, Command
<1>4. Written'
  <2>1. \A p \in All : cmd'.got[p] <= writes'
    BY <1>2, <1>3
  <2>2. ASSUME NEW j \in DOMAIN moving' PROVE moving'[j].ver <= writes'
    <3>1. moving[j].ver <= writes /\ moving[j] \in Moving
      BY DEF FilesInv, Written, QueueTyped
    <3>2. moving[j].ver \in Nat
      BY <3>1 DEF Moving, Versions
    <3> QED  BY <1>2, <3>1, <3>2
  <2>3. ASSUME NEW k \in DOMAIN inbox', NEW p \in All PROVE inbox'[k].from.got[p] <= writes'
    <3>1. inbox[k].from.got[p] <= writes /\ inbox[k] \in Asked
      BY DEF FilesInv, Written, QueueTyped
    <3>2. inbox[k].from.got[p] \in Nat
      BY <3>1 DEF Asked, Command, Versions
    <3> QED  BY <1>2, <3>1, <3>2
  <2> QED  BY <2>1, <2>2, <2>3 DEF Written
<1>5. ASSUME NEW k \in DOMAIN inbox' PROVE Removable(k)'
  <2>0. Removable(k) /\ inbox[k] \in Asked /\ \A p \in All : inbox[k].from.got[p] <= writes
    BY DEF FilesInv, QueueTyped, Written
  <2>1. inbox[k].from \in Command /\ \A p \in All : inbox[k].from.got[p] <= writes
    BY <2>0 DEF Asked
  <2>2. NoNewer(inbox[k].from, there) => NoNewer(inbox[k].from, there')
    <3> SUFFICES ASSUME NoNewer(inbox[k].from, there), NEW p \in All, inbox[k].from.got[p] # 0, there'[p] # 0
                 PROVE  inbox[k].from.got[p] <= there'[p]
      BY DEF NoNewer
    <3>1. inbox[k].from.got[p] \in Nat
      BY <2>1 DEF Command, Versions
    <3> QED  BY <1>2, <1>3, <2>1, <3>1 DEF NoNewer
  <2> QED  BY <2>0, <2>2 DEF Removable, NoneBefore
<1>6. \A p \in All : Source'[p] = Source[p] \/ Source'[p] = 0 \/ Source'[p] > writes
  BY DEF Source
<1>7. Waits'
  <2> SUFFICES ASSUME cmd.phase \in {"wait", "fetch"} PROVE Waits'
    BY DEF Waits
  <2>1. Status \in Moving /\ Status.ver <= writes
    BY StatusTyped DEF FilesInv, Waits, Written, Status
  <2>2. Status.path \in All /\ Status.ver \in Nat /\ Source'[Status.path] \in Nat
    BY <1>3, <2>1 DEF Moving, Versions, Source
  <2>3. Status.state \in {"staged", "done"} /\ Source'[Status.path] # 0 => Status.ver <= Source'[Status.path]
    BY <1>2, <1>6, <2>1, <2>2 DEF FilesInv, Waits
  <2> QED  BY <1>2, <2>3 DEF FilesInv, Waits
<1>8. Carried'
  <2>1. ~Idle => NoNewer(cmd, Source)'
    <3> SUFFICES ASSUME ~Idle, NEW p \in All, cmd.got[p] # 0, Source'[p] # 0 PROVE cmd.got[p] <= Source'[p]
      BY DEF NoNewer
    <3>1. Source'[p] \in Nat
      BY <1>3 DEF Source
    <3> QED  BY <1>2, <1>3, <1>6, <3>1 DEF FilesInv, Carried, NoNewer
  <2> QED  BY <1>2, <2>1 DEF FilesInv, Carried, Complete, Idle
<1>9. Synced'
  BY <1>2 DEF FilesInv, Synced, Same, Source, Target
<1> QED  BY <1>1, <1>4, <1>5, <1>7, <1>8, <1>9 DEF FilesInv

LEMMA OutsideKeeps ==
  \* Files that are written or deleted by others, and a listing that comes.
  ASSUME FilesInv, NEW p \in All, Write(p) \/ Delete(p) \/ Refresh
  PROVE  FilesInv'
<1>1. /\ here \in [All -> Versions] /\ there \in [All -> Versions] /\ index \in [All -> Versions]
      /\ writes \in Nat /\ writes <= MaxWrites /\ 0 \in Versions /\ CountsTyped
      /\ \A q \in All : here[q] <= writes /\ there[q] <= writes /\ index[q] <= writes
  BY FilesAssumption DEF FilesInv, SidesTyped, CountsTyped, Versions, Written
<1>2. CASE Write(p)
  <2>1. /\ writes' = writes + 1 /\ writes < MaxWrites /\ calm' = FALSE
        /\ here' \in {here, [here EXCEPT ![p] = writes + 1]} /\ there' \in {there, [there EXCEPT ![p] = writes + 1]}
        /\ UNCHANGED <<index, cmd, moving, inbox, moved, commands, breaks>>
    BY <1>2 DEF Write
  <2>2. writes' \in Versions
    BY <1>1, <2>1, FilesAssumption DEF Versions
  <2>3. SidesTyped' /\ CountsTyped'
    <3>1. here' \in [All -> Versions] /\ there' \in [All -> Versions]
      BY <1>1, <2>1, <2>2
    <3>2. CountsTyped'
      BY <1>1, <2>1, <2>2 DEF CountsTyped
    <3> QED  BY <1>1, <2>1, <3>1, <3>2 DEF SidesTyped
  <2>4. \A q \in All : /\ here'[q] = here[q] \/ here'[q] = writes + 1
                       /\ there'[q] = there[q] \/ there'[q] = writes + 1
    BY <1>1, <2>1
  <2>5. \A q \in All : here[q] \in Nat /\ there[q] \in Nat /\ index[q] \in Nat
    BY <1>1 DEF Versions
  <2>6. \A q \in All : /\ here'[q] <= writes' /\ there'[q] <= writes' /\ index'[q] <= writes'
                       /\ here'[q] \in {0, here[q]} \/ here'[q] > writes
                       /\ there'[q] \in {0, there[q]} \/ there'[q] > writes
    BY <1>1, <2>1, <2>4, <2>5
  <2>7. writes <= writes' /\ UNCHANGED <<cmd, moving, inbox, moved>> /\ calm' = FALSE
    BY <1>1, <2>1
  <2> QED  BY <2>3, <2>6, <2>7, SidesKeep
<1>3. CASE Delete(p)
  <2>1. /\ calm' = FALSE /\ here' \in {here, [here EXCEPT ![p] = 0]} /\ there' \in {there, [there EXCEPT ![p] = 0]}
        /\ UNCHANGED <<index, cmd, moving, inbox, moved, writes, commands, breaks>>
    BY <1>3 DEF Delete
  <2>2. \A q \in All : here'[q] \in {0, here[q]} /\ there'[q] \in {0, there[q]}
    BY <1>1, <2>1
  <2>3. SidesTyped' /\ CountsTyped' /\ writes <= writes'
    <3>1. here' \in [All -> Versions] /\ there' \in [All -> Versions]
      BY <1>1, <2>1
    <3>2. calm' = FALSE /\ writes' = writes /\ commands' = commands /\ breaks' = breaks
      BY <2>1
    <3>3. CountsTyped' /\ writes <= writes'
      <4>1. calm' \in BOOLEAN
        BY <3>2
      <4> QED  BY <1>1, <3>2, <4>1 DEF CountsTyped
    <3> QED  BY <1>1, <2>1, <3>1, <3>3 DEF SidesTyped
  <2>4. \A q \in All : here'[q] <= writes' /\ there'[q] <= writes' /\ index'[q] <= writes'
    BY <1>1, <2>1, <2>2
  <2> QED  BY <2>1, <2>2, <2>3, <2>4, SidesKeep
<1>4. CASE Refresh
  <2>1. /\ UNCHANGED <<here, there, cmd, moving, inbox, moved, calm, writes, commands, breaks>>
        /\ \E S \in SUBSET All : index' = [q \in All |-> IF q \in S THEN there[q] ELSE 0]
    BY <1>4 DEF Refresh, Present
  <2>2. index' \in [All -> Versions] /\ \A q \in All : index'[q] \in {0, there[q]}
    BY <1>1, <2>1
  <2>3. SidesTyped' /\ CountsTyped' /\ writes <= writes'
    BY <1>1, <2>1, <2>2 DEF SidesTyped, CountsTyped
  <2>4. \A q \in All : /\ here'[q] <= writes' /\ there'[q] <= writes' /\ index'[q] <= writes'
                       /\ here'[q] \in {0, here[q]} /\ there'[q] \in {0, there[q]}
    BY <1>1, <2>1, <2>2
  <2> QED  BY <2>1, <2>3, <2>4, SidesKeep
<1> QED  BY <1>2, <1>3, <1>4

LEMMA EndsKeep ==
  \* A command that gives up, or is interrupted.
  ASSUME FilesInv, GivesUp \/ Interrupt
  PROVE  FilesInv'
<1>1. breaks' \in 0..MaxBreaks
  BY FilesAssumption DEF FilesInv, CountsTyped, GivesUp, Interrupt, Break
<1> QED  BY <1>1, FailKeeps DEF GivesUp, Interrupt

LEMMA BeginsKeep ==
  \* A command that begins.
  ASSUME FilesInv, NEW up \in BOOLEAN, NEW verb \in {"cp", "mv"}, NEW p \in All,
         CopyTree(up, verb) \/ CopyOne(up, verb, p) \/ fsSync(up)
  PROVE  FilesInv'
<1>1. CASE CopyTree(up, verb)
  BY <1>1, ListedTyped, StartKeeps DEF CopyTree
<1>2. CASE CopyOne(up, verb, p)
  BY <1>2, StartKeeps DEF CopyOne
<1>3. CASE fsSync(up)
  <2> DEFINE rest == missingOrChanged(up)
             phase == IF rest = {} THEN "done" ELSE "next"
  <2>1. Start("sync", up, TRUE, syncSide(up), rest, phase) /\ phase \in {"next", "done"} /\ (phase = "done" => rest = {})
    BY <1>3 DEF fsSync
  <2>2. syncSide(up) \in SUBSET All /\ rest \in SUBSET All
    BY ListedTyped
  <2> HIDE DEF phase
  <2> QED  BY <2>1, <2>2, StartKeeps
<1> QED  BY <1>1, <1>2, <1>3

LEMMA FilesInitInv ==
  \* Nothing was begun.
  FilesInit => FilesInv
<1> SUFFICES ASSUME FilesInit PROVE FilesInv
  OBVIOUS
<1>1. /\ here = [p \in All |-> 0] /\ there = [p \in All |-> 0] /\ index = [p \in All |-> 0]
      /\ cmd = NoCommand /\ moving = <<>> /\ inbox = <<>> /\ moved = {} /\ calm = FALSE
      /\ writes = 0 /\ commands = 0 /\ breaks = 0
  BY DEF FilesInit
<1>2. 0 \in Versions /\ [p \in All |-> 0] \in [All -> Versions]
  BY FilesAssumption DEF Versions
<1>3. /\ NoCommand \in Command /\ NoCommand.on = 0 /\ NoCommand.phase = "none" /\ NoCommand.verb = "none"
      /\ \A p \in All : NoCommand.got[p] = 0
  BY <1>2 DEF NoCommand, Command, Verbs, Phases
<1>4. SidesTyped
  BY <1>1, <1>2 DEF SidesTyped
<1>5. CommandTyped /\ QueueTyped
  BY <1>1, <1>3 DEF CommandTyped, QueueTyped
<1>6. CountsTyped
  <2>1. 0 \in 0..MaxCommands /\ 0 \in 0..MaxBreaks
    BY FilesAssumption
  <2> QED  BY <1>1, <1>2, <2>1 DEF CountsTyped
<1>7. Written /\ InOrder /\ Unsent /\ MoveLosesNothing /\ \A k \in DOMAIN inbox : Removable(k)
  BY <1>1, <1>3 DEF Written, InOrder, Unsent, MoveLosesNothing
<1>8. Waits /\ Carried /\ Synced
  BY <1>1, <1>3 DEF Waits, Carried, Synced, Idle
<1> QED  BY <1>4, <1>5, <1>6, <1>7, <1>8 DEF FilesInv

LEMMA FilesStep ==
  \* Every step keeps the invariant.
  FilesInv /\ [FilesNext]_fileVars => FilesInv'
<1> SUFFICES ASSUME FilesInv, [FilesNext]_fileVars PROVE FilesInv'
  OBVIOUS
<1>1. ASSUME NEW up \in BOOLEAN, NEW verb \in {"cp", "mv"}, CopyTree(up, verb) PROVE FilesInv'
  BY <1>1, ListedTyped, StartKeeps DEF CopyTree
<1>2. ASSUME NEW up \in BOOLEAN, NEW verb \in {"cp", "mv"}, NEW p \in All, CopyOne(up, verb, p) PROVE FilesInv'
  BY <1>2, BeginsKeep
<1>3. ASSUME NEW up \in BOOLEAN, fsSync(up) PROVE FilesInv'
  <2>1. PICK p \in All : TRUE
    BY <1>3 DEF fsSync, syncSide, localTree, fsIndex, Present, All
  <2> QED  BY <1>3, <2>1, BeginsKeep
<1>4. ASSUME NEW p \in Paths, NEW tree \in BOOLEAN, fsRm(tree, p) PROVE FilesInv'
  BY <1>4, fsRmKeeps
<1>5. ASSUME NEW p \in All, fsUploadOne(p) \/ fsDownloadOne(p) PROVE FilesInv'
  BY <1>5, OneFileKeeps
<1>6. CASE waitTransfer \/ waitStaged \/ Rename
  BY <1>6, waitTransferKeeps, waitStagedKeeps, RenameKeeps
<1>7. CASE GivesUp \/ Interrupt
  BY <1>7, EndsKeep
<1>8. CASE EveryFileThere \/ RemoveLocal \/ RemoveRemote
  BY <1>8, EveryFileThereKeeps, RemoveLocalKeeps, RemoveRemoteKeeps
<1>9. CASE Receive \/ Send \/ Remove
  BY <1>9, ReceiveKeeps, SendKeeps, RemoveKeeps
<1>10. ASSUME NEW p \in All, Write(p) \/ Delete(p) PROVE FilesInv'
  BY <1>10, OutsideKeeps
<1>11. CASE Refresh
  <2>1. PICK p \in All : TRUE
    <3>1. index \in [All -> Versions] /\ index' # index /\ \E S : index' = [p \in All |-> IF p \in S THEN there[p] ELSE 0]
      BY <1>11 DEF Refresh, FilesInv, SidesTyped
    <3> QED  BY <3>1
  <2> QED  BY <1>11, <2>1, OutsideKeeps
<1>12. CASE UNCHANGED fileVars
  <2>1. SidesTyped' /\ CountsTyped' /\ writes <= writes'
    BY <1>12 DEF fileVars, FilesInv, SidesTyped, CountsTyped, Versions
  <2>2. \A p \in All : /\ here'[p] <= writes' /\ there'[p] <= writes' /\ index'[p] <= writes'
                       /\ here'[p] \in {0, here[p]} /\ there'[p] \in {0, there[p]}
    BY <1>12 DEF fileVars, FilesInv, Written
  <2>3. UNCHANGED <<here, there, calm, cmd, moving, inbox, moved>>
    BY <1>12 DEF fileVars
  <2> QED  BY <2>1, <2>2, <2>3, SidesKeep
<1> QED  BY <1>1, <1>2, <1>3, <1>4, <1>5, <1>6, <1>7, <1>8, <1>9, <1>10, <1>11, <1>12 DEF FilesNext

LEMMA FilesInvImplies ==
  \* What the invariant says of the types and of the files.
  FilesInv => FilesTypeOK /\ FilesKept
<1> SUFFICES ASSUME FilesInv PROVE FilesTypeOK /\ FilesKept
  OBVIOUS
<1>1. \A i \in DOMAIN moving : moving[i] \in Moving
  BY DEF FilesInv, QueueTyped
<1>2. cmd.on \in 0..Len(moving) /\ cmd \in Command
  BY DEF FilesInv, CommandTyped, QueueTyped, Command
<1>3. cmd \in [verb: Verbs, up: BOOLEAN, tree: BOOLEAN, listed: SUBSET All, todo: SUBSET All,
               got: [All -> Versions], on: 0..Len(moving), phase: Phases]
  BY <1>2 DEF Command
<1>4. cmd.phase \in {"wait", "fetch"} => cmd.on \in DOMAIN moving /\ moving[cmd.on].up = cmd.up
  BY StatusTyped DEF FilesInv, Waits, Status
<1>5. FilesTypeOK
  BY <1>1, <1>3, <1>4 DEF FilesTypeOK, FilesInv, SidesTyped, CountsTyped, Versions, Moving
<1>6. SyncMatches
  <2> SUFFICES ASSUME cmd.verb = "sync", cmd.phase = "done", calm, NEW p \in Paths \ Links PROVE Same(p)
    BY DEF SyncMatches, Same, Source, Target
  <2> QED  BY DEF FilesInv, Synced
<1> QED  BY <1>5, <1>6 DEF FilesInv, FilesKept

-----------------------------------------------------------------------------

\* The types hold for every directory, every number of commands and every failure (cmd/shome/fs.go).
THEOREM FilesTypeCorrect == FilesSpec => []FilesTypeOK
<1>1. FilesInv => FilesTypeOK
  BY FilesInvImplies
<1> QED  BY <1>1, FilesInitInv, FilesStep, PTL DEF FilesSpec

\* A move never removes a listed file that was not copied, and a sync that says both sides match is
\* right (cmd/shome/fs.go moveUp, moveDown, sync).
THEOREM FilesKeptHolds == FilesSpec => []FilesKept
<1>1. FilesInv => FilesKept
  BY FilesInvImplies
<1> QED  BY <1>1, FilesInitInv, FilesStep, PTL DEF FilesSpec

-----------------------------------------------------------------------------
(* The two together, each with the variables the run gives it *)

LEMMA RecoveryStep ==
  \* Both invariants are kept by the steps of every part.
  DaemonsInv /\ FilesInv /\ [RecoveryNext]_allVars => DaemonsInv' /\ FilesInv'
<1> SUFFICES ASSUME DaemonsInv, FilesInv, [RecoveryNext]_allVars PROVE DaemonsInv' /\ FilesInv'
  OBVIOUS
<1>1. [DaemonsNext]_daemonVars /\ [FilesNext]_fileVars
  BY DEF RecoveryNext, allVars
<1> QED  BY <1>1, DaemonsStepInv, FilesStep

\* Whatever part the run is about, the variables of the daemons and of the file commands have their
\* types (cmd/shome/up.go, cmd/shome/fs.go).
THEOREM RestTypeCorrect == RecoverySpec => []RestTypeOK
<1>1. RecoveryInit => DaemonsInv /\ FilesInv
  BY DaemonsInitInv, FilesInitInv DEF RecoveryInit
<1>2. DaemonsInv /\ FilesInv => RestTypeOK
  BY DaemonsTypeParts, FilesInvImplies DEF RestTypeOK, DaemonsInv
<1> QED  BY <1>1, <1>2, RecoveryStep, PTL DEF RecoverySpec
=============================================================================
