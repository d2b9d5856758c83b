---------------------------- MODULE FileCommands ----------------------------
(***************************************************************************)
(* `shome fs cp`, `mv`, `sync` and `rm` for a directory on the person's    *)
(* own computer (here) and on a machine (there).  A command lists its      *)
(* source, transfers one file after the other, stops at the first that     *)
(* fails, and a move removes the source at the end.  A machine cannot be   *)
(* dialled: its side is listed from the controller's index, and what it    *)
(* is asked waits in its queue, in order.                                  *)
(*                                                                         *)
(* Files are versions, numbered as they are written; 0 is no file.  One    *)
(* transfer is three steps at most: Transfers has it in detail.  The       *)
(* order in which a command takes the files is left open.                  *)
(***************************************************************************)
EXTENDS Integers, FiniteSets, Sequences

CONSTANTS
  Paths,        \* the paths of the directory, the same here and there
  Beside,       \* files on the machine next to the directory, whose names begin with its name
  Links,        \* paths that are symbolic links here
  IndexCap,     \* how many files a listing holds
  MaxWrites, MaxCommands, MaxBreaks \* bounds: versions, commands, failures

ASSUME FilesAssumption == MaxWrites \in Nat /\ MaxCommands \in Nat /\ MaxBreaks \in Nat

VARIABLES
  here, there,  \* the version each side holds of each path
  index,        \* the version of each path in the controller's listing of the machine
  cmd,          \* the command being run, or the last one
  moving,       \* the transfers, by number
  inbox,        \* what the machine has been asked: numbers of transfers, and removals
  moved,        \* history: what the moves removed
  calm,         \* history: since the command began from a true listing, it alone changed files
  writes, commands, breaks

fileVars == <<here, there, index, cmd, moving, inbox, moved, calm, writes, commands, breaks>>

All == Paths \cup Beside
Size(v) == v % 2  \* two versions may have the same size
Present(side, S) == {p \in S : side[p] # 0}

Phases == {"none", "next", "wait", "fetch", "remove", "done", "failed"}
Verbs == {"none", "cp", "mv", "sync"}
NoCommand == [verb |-> "none", up |-> TRUE, tree |-> FALSE, listed |-> {}, todo |-> {},
              got |-> [p \in All |-> 0], on |-> 0, phase |-> "none"]

FilesTypeOK ==
  /\ here \in [All -> 0..MaxWrites] /\ there \in [All -> 0..MaxWrites] /\ index \in [All -> 0..MaxWrites]
  /\ cmd \in [verb: Verbs, up: BOOLEAN, tree: BOOLEAN, listed: SUBSET All, todo: SUBSET All,
              got: [All -> 0..MaxWrites], on: 0..Len(moving), phase: Phases]
  /\ \A i \in DOMAIN moving : moving[i] \in
       [up: BOOLEAN, path: All, ver: 0..MaxWrites, state: {"sending", "staged", "done", "failed"}]
  /\ calm \in BOOLEAN /\ writes \in 0..MaxWrites /\ commands \in 0..MaxCommands /\ breaks \in 0..MaxBreaks
  /\ cmd.phase \in {"wait", "fetch"} => cmd.on \in DOMAIN moving /\ moving[cmd.on].up = cmd.up

FilesInit ==
  /\ here = [p \in All |-> 0] /\ there = [p \in All |-> 0] /\ index = [p \in All |-> 0]
  /\ cmd = NoCommand /\ moving = <<>> /\ inbox = <<>> /\ moved = {} /\ calm = FALSE
  /\ writes = 0 /\ commands = 0 /\ breaks = 0

Break == breaks < MaxBreaks /\ breaks' = breaks + 1
Idle == cmd.phase \in {"none", "done", "failed"}

-----------------------------------------------------------------------------
(* Listing the two sides *)

\* Regular files of the person's directory: links are skipped.
localTree == Present(here, Paths \ Links)
\* What the index has under a prefix, files beside the directory included.
fsIndex == Present(index, All)
syncSide(local) == IF local THEN localTree ELSE fsIndex

\* A listing compares sizes, the machine's as the index has them.
SizeAt(local, p) == Size(IF local THEN here[p] ELSE index[p])

missingOrChanged(up) ==
  {p \in syncSide(up) : p \notin syncSide(~up) \/ SizeAt(up, p) # SizeAt(~up, p)}

Start(verb, up, tree, listed, todo, phase) ==
  /\ Idle /\ commands < MaxCommands /\ commands' = commands + 1
  /\ cmd' = [verb |-> verb, up |-> up, tree |-> tree, listed |-> listed, todo |-> todo,
             got |-> [p \in All |-> 0], on |-> 0, phase |-> phase]
  /\ calm' = (inbox = <<>> /\ Present(index, Beside) = {} /\ \A p \in Paths : index[p] = there[p])
  /\ UNCHANGED <<here, there, index, moving, inbox, moved, writes, breaks>>

\* A directory that holds no files is refused.
CopyTree(up, verb) ==
  /\ syncSide(up) # {}
  /\ Start(verb, up, TRUE, syncSide(up), syncSide(up), "next")

\* A name that the listing has as a file's.
IsFile(up, p) == IF up THEN here[p] # 0 ELSE p \in fsIndex

\* One file, by its name: a link is followed.
CopyOne(up, verb, p) ==
  /\ IsFile(up, p)
  /\ Start(verb, up, FALSE, {p}, {p}, "next")

fsSync(up) ==
  LET todo == missingOrChanged(up) IN
  /\ syncSide(up) # {}
  /\ Start("sync", up, TRUE, syncSide(up), todo, IF todo = {} THEN "done" ELSE "next")

\* Asking for a removal is all that `rm` does.
fsRm(tree, p) ==
  /\ Idle /\ commands < MaxCommands /\ commands' = commands + 1
  /\ inbox' = Append(inbox, [remove |-> IF tree THEN Paths ELSE {p}, from |-> NoCommand, id |-> 0])
  /\ UNCHANGED <<here, there, index, cmd, moving, moved, calm, writes, breaks>>

-----------------------------------------------------------------------------
(* One file of the command *)

Fail == cmd' = [cmd EXCEPT !.phase = "failed"]
NewTransfer(p, ver, state) ==
  /\ moving' = Append(moving, [up |-> cmd.up, path |-> p, ver |-> ver, state |-> state])
  /\ inbox' = Append(inbox, [remove |-> {}, from |-> NoCommand, id |-> Len(moving) + 1])
  /\ cmd' = [cmd EXCEPT !.on = Len(moving) + 1, !.phase = "wait"]

\* The file is read as it is now; one that has gone, or that the controller does not
\* take, ends the command.
fsUploadOne(p) ==
  /\ cmd.phase = "next" /\ cmd.up /\ p \in cmd.todo
  /\ \/ /\ here[p] # 0 /\ NewTransfer(p, here[p], "staged") /\ UNCHANGED breaks
     \/ /\ here[p] = 0 /\ Fail /\ UNCHANGED <<moving, inbox, breaks>>
     \/ /\ here[p] # 0 /\ Break /\ Fail /\ UNCHANGED <<moving, inbox>>
  /\ UNCHANGED <<here, there, index, moved, calm, writes, commands>>

\* A sync makes the name out of the directory and the rest, which for a file beside the
\* directory is no file at all; here such a file lands under a name of its own.
InDirectory(p) == p \in Paths

\* What is fetched is what the index has under that name.
Fetchable(p) == index[p] # 0 /\ (cmd.verb = "sync" => InDirectory(p))

fsDownloadOne(p) ==
  /\ cmd.phase = "next" /\ ~cmd.up /\ p \in cmd.todo
  /\ IF Fetchable(p)
       THEN NewTransfer(p, 0, "sending")
       ELSE Fail /\ UNCHANGED <<moving, inbox>>
  /\ UNCHANGED <<here, there, index, moved, calm, writes, commands, breaks>>

\* What the controller says of the transfer that is waited for.
Status == moving[cmd.on]

\* Mutant: a copy that the controller holds counts as one that arrived.
waitTransferMutant ==
  LET t == Status IN
  /\ cmd.phase = "wait" /\ cmd.up /\ t.state \in {"staged", "done"}
  /\ cmd' = [cmd EXCEPT !.todo = @ \ {t.path}, !.phase = "next"]
  /\ UNCHANGED <<here, there, index, moving, inbox, moved, calm, writes, commands, breaks>>

\* The upload has been written by the machine.
waitTransfer ==
  LET t == Status IN
  /\ cmd.phase = "wait" /\ cmd.up /\ t.state = "done"
  /\ cmd' = [cmd EXCEPT !.todo = @ \ {t.path}, !.phase = "next"]
  /\ UNCHANGED <<here, there, index, moving, inbox, moved, calm, writes, commands, breaks>>

\* The machine has sent the file: it is written beside its place.
waitStaged ==
  /\ cmd.phase = "wait" /\ ~cmd.up /\ Status.state = "staged"
  /\ cmd' = [cmd EXCEPT !.phase = "fetch"]
  /\ UNCHANGED <<here, there, index, moving, inbox, moved, calm, writes, commands, breaks>>

\* Once the person has all of it, the relayed copy goes.
Delivered == [moving EXCEPT ![cmd.on].state = "done"]

\* All of it came, and it is renamed into place.
Rename ==
  LET t == Status IN
  /\ cmd.phase = "fetch"
  /\ here' = IF InDirectory(t.path) THEN [here EXCEPT ![t.path] = t.ver] ELSE here
  /\ moving' = Delivered
  /\ cmd' = [cmd EXCEPT !.todo = @ \ {t.path}, !.got[t.path] = t.ver, !.phase = "next"]
  /\ UNCHANGED <<there, index, inbox, moved, calm, writes, commands, breaks>>

\* The transfer failed, nothing came of it for ten minutes, or the connection broke:
\* in each case the command ends.
GivesUp ==
  /\ cmd.phase \in {"wait", "fetch"} /\ Fail
  /\ IF cmd.phase = "wait" /\ Status.state = "failed" THEN UNCHANGED breaks ELSE Break
  /\ UNCHANGED <<here, there, index, moving, inbox, moved, calm, writes, commands>>

\* The person interrupts the command.
Interrupt ==
  /\ ~Idle /\ cmd.phase \notin {"wait", "fetch"} /\ Break /\ Fail
  /\ UNCHANGED <<here, there, index, moving, inbox, moved, calm, writes, commands>>

-----------------------------------------------------------------------------
(* The end of the command *)

Lost(side, S, c) == {[path |-> p, ver |-> side[p], listed |-> p \in c.listed, got |-> c.got[p]] : p \in S}
Cleared(side, S) == [p \in All |-> IF p \in S THEN 0 ELSE side[p]]

EveryFileThere ==
  /\ cmd.phase = "next" /\ cmd.todo = {}
  /\ cmd' = [cmd EXCEPT !.phase = IF cmd.verb = "mv" THEN "remove" ELSE "done"]
  /\ UNCHANGED <<here, there, index, moving, inbox, moved, calm, writes, commands, breaks>>

\* A directory is removed with everything that is in it by now, or a part of that.
RemoveLocal ==
  LET present == Present(here, IF cmd.tree THEN Paths ELSE cmd.listed) IN
  /\ cmd.phase = "remove" /\ cmd.up
  /\ \E S \in SUBSET present :
       /\ here' = Cleared(here, S) /\ moved' = moved \cup Lost(here, S, cmd)
       /\ IF S = present THEN cmd' = [cmd EXCEPT !.phase = "done"] /\ UNCHANGED breaks
                         ELSE Fail /\ Break
  /\ UNCHANGED <<there, index, moving, inbox, calm, writes, commands>>

\* The machine is asked, and the command says it is done.
RemoveRemote ==
  /\ cmd.phase = "remove" /\ ~cmd.up
  /\ inbox' = Append(inbox, [remove |-> IF cmd.tree THEN Paths ELSE cmd.listed, from |-> cmd, id |-> 0])
  /\ cmd' = [cmd EXCEPT !.phase = "done"]
  /\ UNCHANGED <<here, there, index, moving, moved, calm, writes, commands, breaks>>

-----------------------------------------------------------------------------
(* The machine *)

First == Head(inbox)
\* A change that is not the command's, or comes when it has ended, ends the calm.
Mine(id) == ~Idle /\ cmd.on = id

\* The machine takes the file; its word of that may be lost, and the transfer expires.
Receive ==
  LET t == moving[First.id] IN
  /\ inbox # <<>> /\ First.id # 0 /\ t.up /\ t.state = "staged" /\ inbox' = Tail(inbox)
  /\ \/ /\ there' = [there EXCEPT ![t.path] = t.ver] /\ index' = [index EXCEPT ![t.path] = t.ver]
        /\ moving' = [moving EXCEPT ![First.id].state = "done"] /\ UNCHANGED breaks
     \/ /\ there' = [there EXCEPT ![t.path] = t.ver]
        /\ moving' = [moving EXCEPT ![First.id].state = "failed"] /\ Break /\ UNCHANGED index
     \/ /\ moving' = [moving EXCEPT ![First.id].state = "failed"] /\ Break /\ UNCHANGED <<there, index>>
  /\ cmd' = IF Mine(First.id) /\ there'[t.path] = t.ver THEN [cmd EXCEPT !.got[t.path] = t.ver] ELSE cmd
  /\ calm' = (calm /\ Mine(First.id))
  /\ UNCHANGED <<here, moved, writes, commands>>

\* The machine sends the file, as it is by now.
Send ==
  LET t == moving[First.id] IN
  /\ inbox # <<>> /\ First.id # 0 /\ ~t.up /\ inbox' = Tail(inbox)
  /\ moving' = [moving EXCEPT ![First.id] =
       IF there[t.path] = 0 THEN [t EXCEPT !.state = "failed"]
       ELSE [t EXCEPT !.state = "staged", !.ver = there[t.path]]]
  /\ UNCHANGED <<here, there, index, cmd, moved, calm, writes, commands, breaks>>

\* The directory is removed with everything that is in it by now.
Remove ==
  LET S == Present(there, First.remove) IN
  /\ inbox # <<>> /\ First.id = 0 /\ inbox' = Tail(inbox)
  /\ there' = Cleared(there, S) /\ moved' = moved \cup Lost(there, S, First.from)
  /\ index' = IF First.remove = Paths THEN index ELSE Cleared(index, First.remove)
  /\ calm' = FALSE
  /\ UNCHANGED <<here, cmd, moving, writes, commands, breaks>>

\* Programs write files on either side, or delete them.
Write(p) ==
  /\ writes < MaxWrites /\ writes' = writes + 1 /\ calm' = FALSE
  /\ \/ p \in Paths /\ here' = [here EXCEPT ![p] = writes + 1] /\ UNCHANGED there
     \/ there' = [there EXCEPT ![p] = writes + 1] /\ UNCHANGED here
  /\ UNCHANGED <<index, cmd, moving, inbox, moved, commands, breaks>>

Delete(p) ==
  /\ calm' = FALSE
  /\ \/ here[p] # 0 /\ here' = [here EXCEPT ![p] = 0] /\ UNCHANGED there
     \/ there[p] # 0 /\ there' = [there EXCEPT ![p] = 0] /\ UNCHANGED here
  /\ UNCHANGED <<index, cmd, moving, inbox, moved, writes, commands, breaks>>

\* The machine reports what it holds; a listing that is too long is cut.
Refresh ==
  LET files == Present(there, All)
      n == IF Cardinality(files) < IndexCap THEN Cardinality(files) ELSE IndexCap IN
  /\ \E S \in SUBSET files : Cardinality(S) = n /\ index' = [p \in All |-> IF p \in S THEN there[p] ELSE 0]
  /\ index' # index
  /\ UNCHANGED <<here, there, cmd, moving, inbox, moved, calm, writes, commands, breaks>>

FilesNext ==
  \/ \E up \in BOOLEAN, verb \in {"cp", "mv"} : CopyTree(up, verb)
  \/ \E up \in BOOLEAN, verb \in {"cp", "mv"}, p \in All : CopyOne(up, verb, p)
  \/ \E up \in BOOLEAN : fsSync(up)
  \/ \E p \in Paths, tree \in BOOLEAN : fsRm(tree, p)
  \/ \E p \in All : fsUploadOne(p)
  \/ \E p \in All : fsDownloadOne(p)
  \/ waitTransfer
  \/ waitStaged
  \/ Rename
  \/ GivesUp
  \/ Interrupt
  \/ EveryFileThere
  \/ RemoveLocal
  \/ RemoveRemote
  \/ Receive
  \/ Send
  \/ Remove
  \/ \E p \in All : Write(p)
  \/ \E p \in All : Delete(p)
  \/ Refresh

FilesSpec == FilesInit /\ [][FilesNext]_fileVars

-----------------------------------------------------------------------------

\* What a move removes without having copied is a file its listing did not show (a link, one that
\* the index did not have, one made meanwhile) or a version written after the copy was read:
\* waitTransfer and waitStaged hold the removal back until every listed file is on the other side.
MoveLosesNothing == \A g \in moved : g.listed => g.got # 0 /\ g.got <= g.ver

\* A sync that says the destination now matches leaves no file of the source missing or of another
\* size there, as long as it began from a true listing and nothing else changed a file since.
SyncMatches ==
  cmd.verb = "sync" /\ cmd.phase = "done" /\ calm =>
    \A p \in Paths \ Links :
      IF cmd.up THEN here[p] # 0 => there[p] # 0 /\ Size(there[p]) = Size(here[p])
                ELSE there[p] # 0 => here[p] # 0 /\ Size(here[p]) = Size(there[p])

\* What a command says it has done to the files is so (cmd/shome/fs.go moveUp, moveDown, sync).
FilesKept == MoveLosesNothing /\ SyncMatches

=============================================================================
