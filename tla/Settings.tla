------------------------------ MODULE Settings ------------------------------
(***************************************************************************)
(* The cluster's settings files: qos.yaml, priority.yaml, cluster.yaml and *)
(* node.json.  The controller keeps what it last read of the first three   *)
(* and reads again when the file has changed.  Settings are changed by     *)
(* requests to the controller, by commands that rewrite the file, and by   *)
(* hand; nothing is locked between reading and writing.                    *)
(*                                                                         *)
(* A behaviour is about one of the files.  It has two settings in one      *)
(* section and one in another, which a request rewrites as a whole; a      *)
(* value is the number of the order that set it, 0 the default, Off        *)
(* a setting an empty file does not make.                                  *)
(***************************************************************************)
EXTENDS Integers, FiniteSets

CONSTANTS
  Files,      \* the files considered
  Admins,
  MaxOrders,  \* bound: changes, edits by hand included
  MaxSpoils   \* bound: crashes, full disks, edits that do not parse

VARIABLES
  kind,     \* the file this behaviour is about
  saved,    \* its content
  tmp,      \* the temporary file next to it
  cache,    \* what the controller has read, and whether the file is still the one it read
  getting,  \* who reads the file, and whether it has changed since its stamp was taken
  req,      \* per admin: the command under way
  orders, spoils,
  last,     \* history: per setting, the last change that was accepted
  spoilt,   \* history: settings lost to a command that something else came between
  stale     \* history: the map the controller holds was changed and not saved

settingsVars == <<kind, saved, tmp, cache, getting, req, orders, spoils, last, spoilt, stale>>

Leaves == {"a1", "a2", "b"}
Section(l) == IF l = "b" THEN {"b"} ELSE {"a1", "a2"}
Off == -1
Docs == [Leaves -> (0..MaxOrders) \cup {Off}]
Unset == [l \in Leaves |-> 0]
NoOne == "noone"
Pass == "pass"             \* the scheduling pass, which only reads

\* The files a cluster has; NoOne and the pass are not admins.
ASSUME SettingsAssumption ==
  /\ Files \subseteq {"qos", "priority", "cluster", "node"} /\ NoOne \notin Admins /\ Pass \notin Admins
  /\ MaxOrders \in Nat /\ MaxSpoils \in Nat

Missing == [is |-> "missing", doc |-> Unset]
Unparsable == [is |-> "broken", doc |-> Unset]
Whole(d) == [is |-> "whole", doc |-> d]

\* A file cut short parses: it sets nothing.  Only node.json does not.
Cut == IF kind = "node" THEN Unparsable ELSE Whole([l \in Leaves |-> Off])

NoCommand == [step |-> "idle", way |-> "", leaf |-> "", n |-> 0, doc |-> Unset, shared |-> FALSE,
              met |-> FALSE, at |-> ""]
Command ==
  [step : {"idle", "fetch", "cfg", "save", "opened", "rename"}, n : 0..MaxOrders, doc : Docs,
   way : {"", "fetched", "request", "inplace", "command"}, leaf : Leaves \cup {""},
   shared : BOOLEAN, met : BOOLEAN, at : {"", "tmp", "disk"}]
Contents == {Missing, Unparsable} \cup {Whole(d) : d \in Docs}
UnderWay == {r \in Admins : req[r].step # "idle"}

SettingsTypeOK ==
  /\ kind \in Files
  /\ saved \in Contents /\ tmp \in Contents
  /\ cache \in [doc : Docs, read : BOOLEAN, current : BOOLEAN]
  /\ getting \in [who : Admins \cup {NoOne, Pass}, changed : BOOLEAN]
  /\ req \in [Admins -> Command]
  /\ orders \in 0..MaxOrders /\ spoils \in 0..MaxSpoils
  /\ last \in Docs /\ spoilt \subseteq Leaves /\ stale \in BOOLEAN

NotRead == [doc |-> Unset, read |-> FALSE, current |-> FALSE]
NotGetting == [who |-> NoOne, changed |-> FALSE]

SettingsInit ==
  /\ kind \in Files
  /\ saved = IF kind = "node" THEN Whole(Unset) ELSE Missing   \* up has written node.json
  /\ tmp = Missing /\ cache = NotRead /\ getting = NotGetting
  /\ req = [r \in Admins |-> NoCommand]
  /\ orders = 0 /\ spoils = 0 /\ last = Unset /\ spoilt = {} /\ stale = FALSE

-----------------------------------------------------------------------------
(* Reading: the stamp first (modification time and size), then the content *)

\* Every change of the file, whoever makes it.
DiskChanges(c) ==
  /\ saved' = c /\ cache' = [cache EXCEPT !.current = FALSE]
  /\ getting' = [getting EXCEPT !.changed = (getting.who # NoOne)]

\* Something came between in the commands under way.
Met == [x \in Admins |-> IF x \in UnderWay THEN [req[x] EXCEPT !.met = TRUE] ELSE req[x]]

\* The values kept in a map, which the controller hands out without copying.
MapLeaves == IF kind = "priority" THEN {"b"} ELSE IF kind = "cluster" THEN {"a1", "a2"} ELSE {}
HasMap(doc) == \E l \in MapLeaves : doc[l] > 0

\* SetUserShares and setNodeName write into the map they were handed.
InPlace(r, doc) == r \in Admins /\ req[r].way = "inplace" /\ HasMap(doc)
Marked(r, doc) == IF InPlace(r, doc) THEN [doc EXCEPT ![req[r].leaf] = req[r].n] ELSE doc

\* One setting changed, the others as they are.
Applied(doc, leaf, n) == IF leaf = "" THEN doc ELSE [doc EXCEPT ![leaf] = n]

\* A section as the client sends it back, the other one from what is in force.
Replaced(doc, t) == [l \in Leaves |-> IF l \in Section(t.leaf) THEN t.doc[l] ELSE doc[l]]

Answer(r, doc) ==
  LET t == req[r]
  IN  IF t.step = "fetch"
      THEN [t EXCEPT !.step = "cfg", !.doc = Applied(doc, t.leaf, t.n)]
      ELSE [t EXCEPT !.step = "save", !.shared = HasMap(doc),
              !.doc = IF t.way = "fetched" THEN Replaced(doc, t) ELSE Applied(doc, t.leaf, t.n)]

\* r has the settings; kept says they are in the maps others were handed before.
Returns(r, doc, kept) ==
  req' = [x \in Admins |->
    IF x = r THEN Answer(r, doc)
    ELSE IF ~kept THEN [req[x] EXCEPT !.shared = FALSE]
    ELSE IF req[x].shared /\ InPlace(r, doc) THEN [req[x] EXCEPT !.doc[req[r].leaf] = req[r].n]
    ELSE req[x]]

Reads(r) == (r = Pass /\ kind # "node") \/ (r \in Admins /\ req[r].step \in {"fetch", "cfg"})

\* A file that is not there leaves what is in force.
Known == saved = Missing \/ (cache.read /\ cache.current)

StatFile(r) ==
  /\ getting.who = NoOne /\ Reads(r)
  /\ IF Known
     THEN /\ Returns(r, cache.doc, TRUE) /\ UNCHANGED getting
          /\ cache' = [cache EXCEPT !.read = TRUE, !.doc = Marked(r, cache.doc)]
     ELSE getting' = [who |-> r, changed |-> FALSE] /\ UNCHANGED <<req, cache>>
  /\ UNCHANGED <<kind, saved, tmp, orders, spoils, last, spoilt, stale>>

\* Mutant: what does not parse is taken for the default.
LoadMutant(r) ==
  /\ getting.who = r /\ getting' = NotGetting
  /\ LET doc == IF saved.is = "broken" THEN Unset ELSE saved.doc
     IN  /\ cache' = [doc |-> Marked(r, doc), read |-> TRUE, current |-> ~getting.changed]
         /\ Returns(r, doc, FALSE) /\ stale' = FALSE
  /\ UNCHANGED <<kind, saved, tmp, orders, spoils, last, spoilt>>

\* What does not parse leaves what is in force; after a start that is the default.
Load(r) ==
  /\ getting.who = r /\ getting' = NotGetting
  /\ IF saved.is = "broken"
     THEN /\ cache' = [cache EXCEPT !.read = TRUE, !.doc = Marked(r, cache.doc)]
          /\ Returns(r, cache.doc, TRUE) /\ UNCHANGED stale
     ELSE /\ cache' = [doc |-> Marked(r, saved.doc), read |-> TRUE, current |-> ~getting.changed]
          /\ Returns(r, saved.doc, FALSE) /\ stale' = FALSE
  /\ UNCHANGED <<kind, saved, tmp, orders, spoils, last, spoilt>>

-----------------------------------------------------------------------------
(* What stands: the last change that was accepted                          *)

\* What is in force once the file holds c.
InForce(c) == IF c.is = "whole" THEN c.doc ELSE IF c = Missing THEN Unset ELSE cache.doc

\* The file holds c and `now` is accepted; `excused` says the rest may not stand.
Stands(c, now, excused) ==
  /\ last' = now
  /\ spoilt' = {l \in Leaves : InForce(c)[l] # now[l] /\ (l \in spoilt \/ excused \/ c = Unparsable)}

Accept(r) == Applied(last, req[r].leaf, req[r].n)
Excused(r) == req[r].met \/ stale

BeginCommand(r, leaf, way) ==
  /\ r \notin UnderWay /\ orders < MaxOrders /\ orders' = orders + 1
  /\ req' = [Met EXCEPT ![r] =
       [step |-> CASE way = "fetched" -> "fetch" [] way = "command" -> "save" [] OTHER -> "cfg",
        way |-> way, leaf |-> leaf, n |-> orders + 1, shared |-> FALSE,
        met |-> UnderWay # {}, at |-> "",
        doc |-> IF way = "command" THEN Applied(saved.doc, leaf, orders + 1) ELSE Unset]]
  /\ UNCHANGED <<kind, saved, tmp, cache, getting, spoils, last, spoilt, stale>>

\* Fetches a section, changes it, and sends it back whole.
qosSet(r, leaf) == kind = "qos" /\ leaf # "" /\ BeginCommand(r, leaf, "fetched")
prioritySet(r, leaf) == kind = "priority" /\ leaf \in {"a1", "a2"} /\ BeginCommand(r, leaf, "fetched")

SetUserShares(r) == kind = "priority" /\ BeginCommand(r, "b", "inplace")
setNodeName(r, leaf) == kind = "cluster" /\ leaf \in {"a1", "a2"} /\ BeginCommand(r, leaf, "inplace")
setClusterName(r) == kind = "cluster" /\ BeginCommand(r, "b", "request")

\* Works on the file itself, and refuses one that does not parse.  Whatever it sets,
\* `shome admin config` rewrites cluster.yaml along with node.json.
SetValue(r, leaf) ==
  /\ \/ kind = "node" /\ leaf # ""
     \/ kind = "cluster" /\ leaf \in {"b", ""}
  /\ saved # Unparsable /\ BeginCommand(r, leaf, "command")

\* Starts with what the file says wherever it was told nothing else, and writes that
\* down; a file it cannot read says nothing.
upController(r, leaf) == kind = "node" /\ BeginCommand(r, leaf, "command")

ByRename == kind \in {"priority", "cluster"}

\* Writing a file cuts it short first.
OpenFile(r) ==
  /\ req[r].step = "save"
  /\ req' = [req EXCEPT ![r].step = "opened", ![r].at = IF ByRename THEN "tmp" ELSE "disk"]
  /\ IF ByRename THEN tmp' = Cut /\ UNCHANGED <<saved, cache, getting>>
     ELSE DiskChanges(Cut) /\ UNCHANGED tmp
  /\ UNCHANGED <<kind, orders, spoils, last, spoilt, stale>>

\* Written over another's content, the longer of the two shows through.
Content(r) ==
  {Whole(req[r].doc)} \cup
  (IF (IF req[r].at = "tmp" THEN tmp ELSE saved) # Cut THEN {Unparsable} ELSE {})

\* The write goes where the open file is now: another may have renamed it.
WriteFile(r) ==
  /\ req[r].step = "opened"
  /\ \E c \in Content(r) :
       IF req[r].at = "tmp"
       THEN tmp' = c /\ UNCHANGED <<saved, cache, getting, last, spoilt>>
       ELSE /\ DiskChanges(c) /\ UNCHANGED tmp
            /\ Stands(c, IF ByRename THEN last ELSE Accept(r), Excused(r))
  /\ req' = [req EXCEPT ![r] = IF ByRename THEN [req[r] EXCEPT !.step = "rename"] ELSE NoCommand]
  /\ UNCHANGED <<kind, orders, spoils, stale>>

\* A change that fails stays in the map it was written into.
StaysBehind(r) == stale' = (stale \/ (req[r].way = "inplace" /\ req[r].shared))

Rename(r) ==
  /\ req[r].step = "rename"
  /\ IF tmp = Missing
     THEN StaysBehind(r) /\ UNCHANGED <<saved, tmp, cache, getting, last, spoilt>>
     ELSE /\ DiskChanges(tmp) /\ tmp' = Missing
          /\ Stands(tmp, Accept(r), Excused(r)) /\ UNCHANGED stale
  /\ req' = [x \in Admins |->
       IF x = r THEN NoCommand
       ELSE IF req[x].step = "opened" /\ req[x].at = "tmp" /\ tmp # Missing
            THEN [req[x] EXCEPT !.at = "disk"] ELSE req[x]]
  /\ UNCHANGED <<kind, orders, spoils>>

\* The disk is full.  SaveConfig does not say so.
SaveFails(r) ==
  /\ spoils < MaxSpoils /\ spoils' = spoils + 1
  /\ req[r].step \in {"save", "opened"}
  /\ IF req[r].at = "disk"
     THEN Stands(saved, IF kind = "node" THEN Accept(r) ELSE last, TRUE)
     ELSE UNCHANGED <<last, spoilt>>
  /\ StaysBehind(r) /\ req' = [req EXCEPT ![r] = NoCommand]
  /\ UNCHANGED <<kind, saved, tmp, cache, getting, orders>>

-----------------------------------------------------------------------------
(* The controller's machine, and the editor                                *)

\* Everything under way is gone, and what the controller had read.
ControllerCrashes ==
  /\ spoils < MaxSpoils /\ spoils' = spoils + 1
  /\ cache' = NotRead /\ getting' = NotGetting /\ stale' = FALSE
  /\ req' = [r \in Admins |-> NoCommand] /\ last' = last
  /\ spoilt' = {l \in Leaves : /\ (IF saved.is = "whole" THEN saved.doc ELSE Unset)[l] # last[l]
                               /\ \/ l \in spoilt \/ saved = Unparsable
                                  \/ \E r \in UnderWay : req[r].at = "disk"}
  /\ UNCHANGED <<kind, saved, tmp, orders>>

EditByHand(leaf) ==
  /\ orders < MaxOrders /\ orders' = orders + 1 /\ saved # Unparsable
  /\ LET doc == [saved.doc EXCEPT ![leaf] = orders + 1]
     IN  /\ DiskChanges(Whole(doc))
         /\ Stands(Whole(doc), [last EXCEPT ![leaf] = orders + 1], UnderWay # {})
  /\ req' = Met
  /\ UNCHANGED <<kind, tmp, spoils, stale>>

\* A typo.
EditBroken ==
  /\ spoils < MaxSpoils /\ spoils' = spoils + 1 /\ saved # Unparsable
  /\ DiskChanges(Unparsable) /\ Stands(Unparsable, last, TRUE) /\ req' = Met
  /\ UNCHANGED <<kind, tmp, orders, stale>>

SettingsNext ==
  \/ \E r \in Admins, leaf \in Leaves \cup {""} :
       \/ qosSet(r, leaf) \/ prioritySet(r, leaf) \/ setNodeName(r, leaf) \/ SetValue(r, leaf)
       \/ upController(r, leaf)
  \/ \E r \in Admins : SetUserShares(r) \/ setClusterName(r)
  \/ \E r \in Admins \cup {Pass} : StatFile(r) \/ Load(r)
  \/ \E r \in Admins : OpenFile(r) \/ WriteFile(r) \/ Rename(r) \/ SaveFails(r)
  \/ ControllerCrashes
  \/ \E leaf \in Leaves : EditByHand(leaf)
  \/ EditBroken

SettingsSpec == SettingsInit /\ [][SettingsNext]_settingsVars

-----------------------------------------------------------------------------

\* With nothing under way, the file says what was last accepted for every
\* setting but those lost to a command that something came between (or to a crash
\* or a full disk where the file is written in place, or to a failed change left in
\* the map): no other setting is touched by changing one, and a file that does not
\* parse takes nothing that was in force with it.  And what the controller takes
\* for up to date is.
SettingsStand ==
  UnderWay = {} =>
    /\ saved.is # "broken" => \A l \in Leaves \ spoilt : saved.doc[l] = last[l]
    /\ (cache.read /\ cache.current /\ getting.who = NoOne /\ ~stale /\ saved.is = "whole") =>
         cache.doc = saved.doc

=============================================================================
