-------------------------- MODULE OperatorsProofs --------------------------
(***************************************************************************)
(* Proofs about what people do to a cluster that runs: the directory of    *)
(* commands, however many processes prepare it and die over it, and the    *)
(* software of a machine, whatever its owner installs and removes.         *)
(***************************************************************************)
EXTENDS MCOperators, TLAPS

-----------------------------------------------------------------------------
(* The tools: the invariant *)

Editions == 0..MaxUpgrades
Installer == [pc: Steps, name: Names, fd: Nat, src: Editions, alone: BOOLEAN]

\* What has been installed from is as many versions as there were upgrades.
CountsTyped ==
  /\ self = upgrades /\ upgrades \in Editions /\ installs \in 0..MaxInstalls /\ deaths \in 0..MaxDeaths
  /\ twice \in BOOLEAN /\ settled \in BOOLEAN
  /\ rcfile \in {"none", "part", "full"} /\ target \in {"none", "other", "shome"}
BlocksTyped == content \in Seq(Editions \X Editions)
NamesTyped == place \in [Names -> 0..Len(content)] /\ beside \in [Names -> 0..Len(content)]
InstTyped == inst \in [Installers -> Installer] /\ \A a \in Installers : inst[a].fd <= Len(content)

\* A file has one name at most.
Apart ==
  /\ \A n \in Names : place[n] # 0 => place[n] # beside[n]
  /\ \A n, m \in Names : n # m =>
       /\ place[n] # 0 => place[n] # place[m] /\ place[n] # beside[m]
       /\ beside[n] # 0 => beside[n] # beside[m]

\* How far an installer is.
Copying == {"first", "second", "rename"}
Finishing == {"rc", "rcfull", "link", "relink"}
Begun(a) ==
  /\ inst[a].pc \in Copying => inst[a].src # 0 /\ inst[a].fd # 0
  /\ inst[a].pc \in Copying \cup Finishing \cup {"open"} => self # 0
  /\ inst[a].pc \in Finishing => inst[a].name = "shome"

\* One that nobody has met over its name has the file beside to itself.
Sure(a) == ~twice \/ inst[a].alone
Copies(a) ==
  Sure(a) =>
    /\ \A b \in Active : b # a /\ a \in Active => inst[b].name # inst[a].name
    /\ inst[a].pc \in Copying => beside[inst[a].name] = inst[a].fd
    /\ inst[a].pc \in {"second", "rename"} => content[inst[a].fd][1] = inst[a].src
    /\ inst[a].pc = "rename" => content[inst[a].fd][2] = inst[a].src

\* What one that is alone has brought about so far.
Present == place["shome"] # 0 /\ content[place["shome"]] = <<self, self>>
Prepares(a) ==
  inst[a].alone =>
    /\ Active = {a}
    /\ inst[a].pc \in Copying => inst[a].src = self
    /\ inst[a].pc \in Finishing => Present
    /\ inst[a].pc \in {"link", "relink"} => rcfile = "full"
    /\ inst[a].pc = "relink" => target = "none"

ToolsInv ==
  /\ CountsTyped /\ BlocksTyped /\ NamesTyped /\ InstTyped /\ Apart
  /\ \A a \in Installers : Begun(a) /\ Copies(a) /\ Prepares(a)
  /\ ~twice => \A n \in Names : place[n] # 0 => Whole(place[n])
  /\ settled => Active = {} /\ Present /\ target = "shome" /\ rcfile = "full"

-----------------------------------------------------------------------------
(* The tools: the steps *)

LEMMA AwayIs ==
  \* One that has not begun.
  Away \in Installer /\ Away.pc = "idle" /\ Away.fd = 0 /\ ~Away.alone
<1>1. 0 \in Editions
  BY ToolsAssumption DEF Editions
<1> QED  BY <1>1 DEF Away, Installer, Steps, Names

LEMMA OneStep ==
  \* A step of one installer; what the others do with their files stays.
  ASSUME ToolsInv, NEW a \in Installers, inst[a].pc # "idle", NEW r \in Installer,
         inst' = [inst EXCEPT ![a] = r], r.fd <= Len(content'), Len(content) <= Len(content'),
         r = Away \/ (r.name = inst[a].name /\ r.pc # "idle"), r.alone => inst[a].alone,
         self' = self, twice' = twice,
         CountsTyped', BlocksTyped', NamesTyped', Apart',
         \A b \in Installers : b # a /\ ~twice /\ inst[b].pc \in Copying =>
           content'[inst[b].fd] = content[inst[b].fd] /\ beside'[inst[b].name] = beside[inst[b].name],
         r.pc \in Copying => r.src # 0 /\ r.fd # 0,
         r.pc \in Finishing => r.name = "shome",
         r.pc \in Copying \cup Finishing \cup {"open"} => self # 0,
         Sure(a) /\ r.pc \in Copying => beside'[r.name] = r.fd,
         Sure(a) /\ r.pc \in {"second", "rename"} => content'[r.fd][1] = r.src,
         Sure(a) /\ r.pc = "rename" => content'[r.fd][2] = r.src,
         r.alone => /\ r.pc \in Copying => r.src = self
                    /\ r.pc \in Finishing => Present'
                    /\ r.pc \in {"link", "relink"} => rcfile' = "full"
                    /\ r.pc = "relink" => target' = "none",
         ~twice => \A n \in Names : place'[n] # 0 => Whole(place[n])',
         settled' => r = Away /\ inst[a].alone /\ Present' /\ target' = "shome" /\ rcfile' = "full"
  PROVE  ToolsInv'
<1>1. /\ inst \in [Installers -> Installer] /\ inst' \in [Installers -> Installer] /\ inst'[a] = r
      /\ \A b \in Installers : b # a => inst'[b] = inst[b]
  BY DEF ToolsInv, InstTyped
<1>2. InstTyped'
  <2>1. ASSUME NEW b \in Installers PROVE inst'[b].fd <= Len(content')
    <3>1. CASE b = a
      BY <1>1, <3>1
    <3>2. CASE b # a
      <4>1. inst[b].fd <= Len(content) /\ inst[b].fd \in Nat /\ Len(content) \in Nat /\ Len(content') \in Nat
        BY <1>1 DEF ToolsInv, InstTyped, Installer, BlocksTyped
      <4> QED  BY <1>1, <3>2, <4>1
    <3> QED  BY <3>1, <3>2
  <2> QED  BY <1>1, <2>1 DEF InstTyped
<1>3. a \in Active /\ \A b \in Active' : b \in Active /\ (b # a \/ r # Away) /\ inst'[b].name = inst[b].name
  BY <1>1, AwayIs DEF Active
<1>4. Active' \subseteq Active /\ (r = Away => a \notin Active')
  BY <1>3
<1>5. ASSUME NEW b \in Installers, b # a PROVE Begun(b)' /\ Copies(b)' /\ Prepares(b)'
  <2>1. ~inst[b].alone /\ inst'[b] = inst[b]
    BY <1>1, <1>3, <1>5 DEF ToolsInv, Prepares
  <2>2. Begun(b)'
    BY <2>1 DEF ToolsInv, Begun
  <2>3. Copies(b)'
    BY <1>3, <1>5, <2>1 DEF ToolsInv, Copies, Sure, Copying
  <2> QED  BY <2>1, <2>2, <2>3 DEF Prepares
<1>6. Begun(a)'
  BY <1>1 DEF Begun
<1>7. Copies(a)'
  BY <1>1, <1>3 DEF ToolsInv, Copies, Sure
<1>8. Prepares(a)'
  <2>1. r.alone => Active = {a} /\ r # Away
    BY AwayIs DEF ToolsInv, Prepares
  <2>2. r # Away => a \in Active'
    BY <1>1 DEF Active
  <2> QED  BY <1>1, <1>4, <2>1, <2>2 DEF Prepares
<1>9. settled' => Active' = {} /\ Present' /\ target' = "shome" /\ rcfile' = "full"
  BY <1>4 DEF ToolsInv, Prepares
<1> QED  BY <1>2, <1>5, <1>6, <1>7, <1>8, <1>9 DEF ToolsInv

LEMMA FilesAre ==
  \* What the invariant says of the files, and of the installer that takes a step.
  ASSUME ToolsInv, NEW a \in Installers
  PROVE  /\ Len(content) \in Nat /\ DOMAIN content = 1..Len(content) /\ content \in Seq(Editions \X Editions)
         /\ place \in [Names -> 0..Len(content)] /\ beside \in [Names -> 0..Len(content)]
         /\ inst \in [Installers -> Installer] /\ inst[a].name \in Names /\ inst[a].pc \in Steps
         /\ inst[a].fd \in 0..Len(content) /\ inst[a].src \in Editions /\ inst[a].alone \in BOOLEAN /\ self \in Editions
         /\ settled => \A b \in Installers : inst[b].pc = "idle"
<1>1. inst[a] \in Installer /\ content \in Seq(Editions \X Editions) /\ inst[a].fd <= Len(content)
  BY DEF ToolsInv, InstTyped, BlocksTyped
<1>2. /\ inst[a].name \in Names /\ inst[a].pc \in Steps /\ inst[a].src \in Editions /\ inst[a].alone \in BOOLEAN
      /\ inst[a].fd \in Nat
  BY <1>1 DEF Installer
<1> QED  BY <1>1, <1>2 DEF ToolsInv, InstTyped, NamesTyped, CountsTyped, Active

LEMMA GoIs ==
  \* One that goes on.
  ASSUME ToolsInv, NEW a \in Installers, NEW x \in Steps
  PROVE  LET r == [inst[a] EXCEPT !.pc = x] IN
         /\ r \in Installer /\ r.pc = x /\ r.name = inst[a].name /\ r.fd = inst[a].fd /\ r.src = inst[a].src
         /\ r.alone = inst[a].alone
         /\ Go(a, x) => inst' = [inst EXCEPT ![a] = r]
BY DEF ToolsInv, InstTyped, Installer, Go

LEMMA EndKeeps ==
  \* One that ends, its work done or not.
  ASSUME ToolsInv, NEW a \in Installers, inst[a].pc # "idle", End(a), deaths' \in 0..MaxDeaths,
         UNCHANGED <<self, content, place, beside, rcfile, twice, installs, upgrades>>,
         target' \in {"none", "other", "shome"}, settled' \in BOOLEAN,
         settled' => inst[a].alone /\ Present /\ target' = "shome" /\ rcfile = "full"
  PROVE  ToolsInv'
<1>1. inst' = [inst EXCEPT ![a] = Away]
  BY DEF End
<1>2. CountsTyped' /\ BlocksTyped' /\ NamesTyped' /\ Apart'
  BY DEF ToolsInv, CountsTyped, BlocksTyped, NamesTyped, Apart
<1>3. Present' = Present /\ \A n \in Names : Whole(place[n])' = Whole(place[n])
  BY DEF Present, Whole
<1>4. Away.fd <= Len(content') /\ Len(content) <= Len(content') /\ Away \in Installer
  BY FilesAre, AwayIs
<1>5. Away.pc = "idle" /\ ~Away.alone /\ Away.pc \notin Copying \cup Finishing \cup {"open"}
  BY AwayIs DEF Copying, Finishing
<1>6. /\ ~twice => \A n \in Names : place'[n] # 0 => Whole(place[n])'
      /\ settled' => Away = Away /\ inst[a].alone /\ Present' /\ target' = "shome" /\ rcfile' = "full"
  BY <1>3 DEF ToolsInv
<1> QED  BY <1>1, <1>2, <1>4, <1>5, <1>6, OneStep

LEMMA CompareKeeps ==
  \* What is there already is left alone; what is not is copied.
  ASSUME ToolsInv, NEW a \in Installers, EnsureLinuxTools(a) \/ EnsureManaged(a) \/ ensureUV(a)
  PROVE  ToolsInv'
<1>1. /\ inst[a].pc = "compare"
      /\ UNCHANGED <<self, content, place, beside, rcfile, target, twice, settled, installs, upgrades, deaths>>
  BY DEF EnsureLinuxTools, EnsureManaged, ensureUV
<1>2. ~settled /\ deaths \in 0..MaxDeaths /\ settled \in BOOLEAN /\ target \in {"none", "other", "shome"}
  BY <1>1, FilesAre DEF ToolsInv, CountsTyped
<1>3. CASE End(a)
  BY <1>1, <1>2, <1>3, EndKeeps
<1>4. ASSUME NEW x \in {"rc", "open"}, Go(a, x), self # 0,
             x = "rc" => inst[a].name = "shome" /\ sameFile(place["shome"])
      PROVE  ToolsInv'
  <2> DEFINE r == [inst[a] EXCEPT !.pc = x]
  <2>1. /\ r \in Installer /\ r.pc = x /\ r.name = inst[a].name /\ r.fd = inst[a].fd /\ r.src = inst[a].src
        /\ r.alone = inst[a].alone /\ inst' = [inst EXCEPT ![a] = r]
    <3>1. x \in Steps
      BY <1>4 DEF Steps
    <3> QED  BY <1>4, <3>1, GoIs
  <2> HIDE DEF r
  <2>2. CountsTyped' /\ BlocksTyped' /\ NamesTyped' /\ Apart'
    BY <1>1 DEF ToolsInv, CountsTyped, BlocksTyped, NamesTyped, Apart
  <2>3. (x = "rc" => Present') /\ \A n \in Names : Whole(place[n])' = Whole(place[n])
    BY <1>1, <1>4 DEF Present, Whole, sameFile
  <2>4. r.fd <= Len(content') /\ Len(content) <= Len(content')
    BY <1>1, <2>1, FilesAre
  <2> QED  BY <1>1, <1>2, <1>4, <2>1, <2>2, <2>3, <2>4, OneStep DEF ToolsInv, Copying, Finishing
<1> QED  BY <1>3, <1>4 DEF EnsureLinuxTools, EnsureManaged, ensureUV

LEMMA OpenKeeps ==
  \* The file beside is emptied, or is one that nothing leads to yet.
  ASSUME ToolsInv, NEW a \in Installers, Open(a)
  PROVE  ToolsInv'
<1> DEFINE n == inst[a].name
           fresh == beside[n] = 0
           f == IF fresh THEN Len(content) + 1 ELSE beside[n]
           r == [inst[a] EXCEPT !.pc = "first", !.fd = f, !.src = self]
<1>1. /\ inst[a].pc = "open" /\ beside' = [beside EXCEPT ![n] = f] /\ inst' = [inst EXCEPT ![a] = r]
      /\ content' = IF fresh THEN Append(content, <<0, 0>>) ELSE [content EXCEPT ![f] = <<0, 0>>]
      /\ UNCHANGED <<self, place, rcfile, target, twice, settled, installs, upgrades, deaths>>
  BY DEF Open
<1>2. /\ Len(content) \in Nat /\ DOMAIN content = 1..Len(content) /\ content \in Seq(Editions \X Editions)
      /\ place \in [Names -> 0..Len(content)] /\ beside \in [Names -> 0..Len(content)] /\ n \in Names
      /\ self \in Editions /\ ~settled /\ inst[a] \in Installer
  BY <1>1, FilesAre DEF ToolsInv, InstTyped
<1>3. f \in Nat /\ f # 0 /\ f <= Len(content) + 1 /\ (~fresh => f \in DOMAIN content /\ f = beside[n]) /\ (fresh => f = Len(content) + 1)
  BY <1>2
<1>4. r \in Installer /\ r.pc = "first" /\ r.name = n /\ r.fd = f /\ r.src = self /\ r.alone = inst[a].alone
  BY <1>2, <1>3 DEF Installer, Steps
<1>5. /\ content' \in Seq(Editions \X Editions) /\ Len(content') \in Nat /\ Len(content) <= Len(content') /\ f <= Len(content')
      /\ \A g \in DOMAIN content : g # f => content'[g] = content[g]
  <2>1. <<0, 0>> \in Editions \X Editions
    BY ToolsAssumption DEF Editions
  <2>2. CASE fresh
    BY <1>1, <1>2, <1>3, <2>1, <2>2
  <2>3. CASE ~fresh
    BY <1>1, <1>2, <1>3, <2>1, <2>3
  <2> QED  BY <2>2, <2>3
<1> HIDE DEF f, r, fresh, n
<1>6. beside'[n] = f /\ \A m \in Names : m # n => beside'[m] = beside[m]
  BY <1>1, <1>2
<1>7. CountsTyped' /\ BlocksTyped' /\ NamesTyped'
  <2>1. place' \in [Names -> 0..Len(content')] /\ beside' \in [Names -> 0..Len(content')]
    BY <1>1, <1>2, <1>3, <1>5
  <2> QED  BY <1>1, <1>5, <2>1 DEF ToolsInv, CountsTyped, BlocksTyped, NamesTyped
<1>8. \A m \in Names : place[m] # f /\ (m # n => beside[m] # f)
  BY <1>2, <1>3 DEF ToolsInv, Apart, fresh
<1>9. Apart'
  BY <1>1, <1>2, <1>6, <1>8 DEF ToolsInv, Apart
<1>10. ASSUME NEW b \in Installers, b # a, ~twice, inst[b].pc \in Copying
       PROVE  content'[inst[b].fd] = content[inst[b].fd] /\ beside'[inst[b].name] = beside[inst[b].name]
  <2>1. inst[b].name # n /\ inst[b].name \in Names /\ beside[inst[b].name] = inst[b].fd /\ inst[b].fd # 0
    BY <1>1, <1>10, FilesAre DEF ToolsInv, Copies, Sure, Begun, Active, Copying, n
  <2>2. inst[b].fd \in DOMAIN content /\ inst[b].fd # f
    BY <1>2, <1>8, <2>1, FilesAre
  <2> QED  BY <1>5, <1>6, <2>1, <2>2
<1>11. ~twice => \A m \in Names : place'[m] # 0 => Whole(place[m])'
  BY <1>1, <1>2, <1>5, <1>8 DEF ToolsInv, Whole
<1>12. self # 0
  BY <1>1 DEF ToolsInv, Begun
<1>13. r.fd <= Len(content') /\ r.name = inst[a].name /\ r.pc # "idle" /\ r.pc \notin Finishing /\ r.pc \notin {"second", "rename"}
  BY <1>4, <1>5 DEF Finishing, n
<1>14. /\ inst[a].pc # "idle" /\ ~settled' /\ inst' = [inst EXCEPT ![a] = r] /\ self' = self /\ twice' = twice
       /\ beside'[r.name] = r.fd /\ r.src # 0 /\ r.fd # 0 /\ r.src = self /\ (r.alone => inst[a].alone)
       /\ r.pc \notin {"link", "relink"}
  BY <1>1, <1>2, <1>3, <1>4, <1>6, <1>12
<1> QED  BY <1>4, <1>5, <1>7, <1>9, <1>10, <1>11, <1>12, <1>13, <1>14, OneStep

LEMMA CopyKeeps ==
  \* A block is written to the file that was opened.
  ASSUME ToolsInv, NEW a \in Installers, Copy(a)
  PROVE  ToolsInv'
<1> DEFINE i == inst[a]
           k == IF i.pc = "first" THEN 1 ELSE 2
           x == IF i.pc = "first" THEN "second" ELSE "rename"
           r == [i EXCEPT !.pc = x]
           m == [content[i.fd] EXCEPT ![k] = i.src]
<1>1. /\ i.pc \in {"first", "second"} /\ content' = [content EXCEPT ![i.fd] = m] /\ Go(a, x)
      /\ UNCHANGED <<self, place, beside, rcfile, target, twice, settled, installs, upgrades, deaths>>
  BY DEF Copy
<1>2. x \in {"second", "rename"} /\ x \in Steps /\ x \in Copying /\ x \notin Finishing
  BY DEF Steps, Copying, Finishing
<1>3. /\ r \in Installer /\ r.pc = x /\ r.name = i.name /\ r.fd = i.fd /\ r.src = i.src
      /\ r.alone = i.alone /\ inst' = [inst EXCEPT ![a] = r]
  <2> HIDE DEF x
  <2> QED  BY <1>1, <1>2, GoIs
<1>4. /\ Len(content) \in Nat /\ DOMAIN content = 1..Len(content) /\ content \in Seq(Editions \X Editions)
      /\ place \in [Names -> 0..Len(content)] /\ beside \in [Names -> 0..Len(content)] /\ i.name \in Names
      /\ self \in Editions /\ ~settled /\ i.src \in Editions /\ i.fd \in 0..Len(content)
  BY <1>1, FilesAre
<1>5. i.fd # 0 /\ i.src # 0 /\ self # 0 /\ (i.alone => i.src = self) /\ i.pc \in Copying /\ (Sure(a) => beside[i.name] = i.fd)
  BY <1>1 DEF ToolsInv, Begun, Prepares, Copies, Copying
<1>6. i.fd \in DOMAIN content /\ content[i.fd] \in Editions \X Editions
  BY <1>4, <1>5
<1>7. /\ m \in Editions \X Editions
      /\ i.pc = "first" => m[1] = i.src
      /\ i.pc = "second" => m[2] = i.src /\ m[1] = content[i.fd][1]
  BY <1>1, <1>4, <1>6
<1>8. /\ content' \in Seq(Editions \X Editions) /\ Len(content') = Len(content)
      /\ content'[i.fd] = m /\ \A g \in DOMAIN content : g # i.fd => content'[g] = content[g]
  <2> HIDE DEF m
  <2> QED  BY <1>1, <1>4, <1>6, <1>7
<1>9. /\ Sure(a) => content'[i.fd][1] = i.src
      /\ Sure(a) /\ x = "rename" => content'[i.fd][2] = i.src
  BY <1>1, <1>7, <1>8 DEF ToolsInv, Copies
<1> HIDE DEF m, r, x, i
<1>10. CountsTyped' /\ BlocksTyped' /\ NamesTyped' /\ Apart'
  BY <1>1, <1>8 DEF ToolsInv, CountsTyped, BlocksTyped, NamesTyped, Apart
<1>11. ~twice => \A n \in Names : place[n] # i.fd /\ (n # i.name => beside[n] # i.fd)
  BY <1>4, <1>5 DEF ToolsInv, Apart, Sure
<1>12. ASSUME NEW b \in Installers, b # a, ~twice, inst[b].pc \in Copying
       PROVE  content'[inst[b].fd] = content[inst[b].fd] /\ beside'[inst[b].name] = beside[inst[b].name]
  <2>1. inst[b].name # i.name /\ inst[b].name \in Names /\ beside[inst[b].name] = inst[b].fd /\ inst[b].fd # 0
    BY <1>1, <1>12, FilesAre DEF ToolsInv, Copies, Sure, Begun, Active, Copying, i
  <2>2. inst[b].fd \in DOMAIN content /\ inst[b].fd # i.fd
    BY <1>4, <1>11, <1>12, <2>1, FilesAre
  <2> QED  BY <1>1, <1>8, <2>2
<1>13. ~twice => \A n \in Names : place'[n] # 0 => Whole(place[n])'
  BY <1>1, <1>4, <1>8, <1>11 DEF ToolsInv, Whole
<1>14. r.fd <= Len(content') /\ Len(content) <= Len(content') /\ r.pc # "idle" /\ r.name = inst[a].name /\ inst[a].pc # "idle"
  BY <1>1, <1>2, <1>3, <1>4, <1>8 DEF i
<1>15. /\ Sure(a) /\ r.pc \in Copying => beside'[r.name] = r.fd
       /\ Sure(a) /\ r.pc \in {"second", "rename"} => content'[r.fd][1] = r.src
       /\ Sure(a) /\ r.pc = "rename" => content'[r.fd][2] = r.src
       /\ r.alone => r.src = self
       /\ r.pc \notin Finishing /\ ~settled' /\ r.src # 0 /\ r.fd # 0
  BY <1>1, <1>2, <1>3, <1>4, <1>5, <1>9
<1>16. r.pc \notin {"link", "relink"} /\ (r.alone => inst[a].alone)
  BY <1>2, <1>3 DEF i
<1> QED  BY <1>1, <1>3, <1>5, <1>10, <1>12, <1>13, <1>14, <1>15, <1>16, OneStep

LEMMA ToolRenameKeeps ==
  \* What takes the place is whole, unless two have met over it.
  ASSUME ToolsInv, NEW a \in Installers, Rename(a)
  PROVE  ToolsInv'
<1> DEFINE i == inst[a]
           n == i.name
           f == beside[n]
<1>1. i.pc = "rename" /\ UNCHANGED <<self, content, rcfile, target, twice, settled, installs, upgrades, deaths>>
  BY DEF Rename
<1>2. /\ Len(content) \in Nat /\ DOMAIN content = 1..Len(content) /\ content \in Seq(Editions \X Editions)
      /\ place \in [Names -> 0..Len(content)] /\ beside \in [Names -> 0..Len(content)] /\ n \in Names
      /\ self \in Editions /\ ~settled /\ settled \in BOOLEAN /\ i.src \in Editions /\ i.fd \in 0..Len(content)
      /\ deaths \in 0..MaxDeaths /\ target \in {"none", "other", "shome"}
  BY <1>1, FilesAre DEF ToolsInv, CountsTyped
<1>3. CASE f = 0
  <2>1. End(a) /\ UNCHANGED <<place, beside>>
    BY <1>3 DEF Rename
  <2> QED  BY <1>1, <1>2, <2>1, EndKeeps
<1>4. CASE f # 0
  <2>1. /\ place' = [place EXCEPT ![n] = f] /\ beside' = [beside EXCEPT ![n] = 0]
        /\ IF n = "shome" THEN Go(a, "rc") ELSE End(a)
    BY <1>4 DEF Rename
  <2>2. PICK r \in Installer : /\ inst' = [inst EXCEPT ![a] = r] /\ r.fd <= Len(content)
                               /\ r = Away \/ (r.name = n /\ r.pc = "rc" /\ n = "shome" /\ r.alone = i.alone)
    <3>1. CASE n = "shome"
      <4> DEFINE q == [inst[a] EXCEPT !.pc = "rc"]
      <4>1. "rc" \in Steps
        BY DEF Steps
      <4>2. q \in Installer /\ q.pc = "rc" /\ q.name = n /\ q.fd = i.fd /\ q.alone = i.alone /\ inst' = [inst EXCEPT ![a] = q]
        BY <2>1, <3>1, <4>1, GoIs
      <4> HIDE DEF q
      <4>3. q.fd <= Len(content)
        BY <1>2, <4>2
      <4> QED  BY <3>1, <4>2, <4>3
    <3>2. CASE n # "shome"
      BY <1>2, <2>1, <3>2, AwayIs DEF End
    <3> QED  BY <3>1, <3>2
  <2>3. /\ place'[n] = f /\ beside'[n] = 0
        /\ \A m \in Names : m # n => place'[m] = place[m] /\ beside'[m] = beside[m]
    BY <1>2, <2>1
  <2>4. /\ i.src # 0 /\ self # 0 /\ (i.alone => i.src = self) /\ f \in DOMAIN content
        /\ Sure(a) => f = i.fd /\ content[f][1] = i.src /\ content[f][2] = i.src
    BY <1>1, <1>2, <1>4 DEF ToolsInv, Begun, Prepares, Copies, Copying
  <2>5. i.alone => content[f] = <<self, self>>
    <3>1. content[f] \in Editions \X Editions
      BY <1>2, <2>4
    <3> QED  BY <2>4, <3>1 DEF Sure
  <2>6. CountsTyped' /\ BlocksTyped' /\ NamesTyped'
    <3>1. place' \in [Names -> 0..Len(content')] /\ beside' \in [Names -> 0..Len(content')]
      BY <1>1, <1>2, <2>1
    <3> QED  BY <1>1, <3>1 DEF ToolsInv, CountsTyped, BlocksTyped, NamesTyped
  <2>7. Apart'
    <3>1. f = beside[n] /\ f # 0
      BY <1>4
    <3> HIDE DEF f
    <3>2. ASSUME NEW m \in Names, place'[m] # 0 PROVE place'[m] # beside'[m]
      BY <2>3, <3>1, <3>2 DEF ToolsInv, Apart
    <3>3. ASSUME NEW m \in Names, NEW o \in Names, m # o
          PROVE  /\ place'[m] # 0 => place'[m] # place'[o] /\ place'[m] # beside'[o]
                 /\ beside'[m] # 0 => beside'[m] # beside'[o]
      <4>1. /\ place[m] # 0 => place[m] # place[o] /\ place[m] # beside[o]
            /\ beside[m] # 0 => beside[m] # beside[o]
            /\ place[o] # 0 => place[o] # place[m] /\ place[o] # beside[m]
        BY <3>3 DEF ToolsInv, Apart
      <4>2. CASE m = n
        BY <2>3, <3>1, <3>3, <4>1, <4>2
      <4>3. CASE o = n
        BY <2>3, <3>1, <3>3, <4>1, <4>3
      <4> QED  BY <2>3, <4>1, <4>2, <4>3
    <3> QED  BY <3>2, <3>3 DEF Apart
  <2>8. ASSUME NEW b \in Installers, b # a, ~twice, inst[b].pc \in Copying
        PROVE  content'[inst[b].fd] = content[inst[b].fd] /\ beside'[inst[b].name] = beside[inst[b].name]
    <3>1. inst[b].name # n /\ inst[b].name \in Names
      BY <1>1, <2>8, FilesAre DEF ToolsInv, Copies, Sure, Active, Copying
    <3> QED  BY <1>1, <2>3, <3>1
  <2>9. ~twice => \A m \in Names : place'[m] # 0 => Whole(place[m])'
    <3> SUFFICES ASSUME ~twice, NEW m \in Names, place'[m] # 0 PROVE Whole(place'[m])
      BY <1>1 DEF Whole
    <3>1. CASE m = n
      BY <2>3, <2>4, <3>1 DEF Whole, Sure
    <3>2. CASE m # n
      BY <2>3, <3>2 DEF ToolsInv
    <3> QED  BY <3>1, <3>2
  <2>10. r.pc \notin Copying /\ r.pc \notin {"link", "relink", "open"} /\ (r.pc \in Finishing => r.name = "shome")
         /\ (r.alone => i.alone /\ n = "shome") /\ (r = Away \/ (r.name = n /\ r.pc # "idle"))
    BY <2>2, AwayIs DEF Copying, Finishing
  <2>11. r.alone => Present'
    BY <1>1, <1>4, <2>3, <2>5, <2>10 DEF Present
  <2>12. inst[a].pc # "idle" /\ ~settled' /\ Len(content) <= Len(content') /\ r.fd <= Len(content') /\ r.pc \notin {"second", "rename"}
    BY <1>1, <1>2, <2>2, <2>10 DEF Copying
  <2> HIDE DEF f
  <2> QED  BY <1>1, <2>2, <2>4, <2>6, <2>7, <2>8, <2>9, <2>10, <2>11, <2>12, OneStep
<1> QED  BY <1>3, <1>4

LEMMA FinishKeeps ==
  \* The startup file is written, and a name that leads elsewhere goes.
  ASSUME ToolsInv, NEW a \in Installers,
         \/ WriteRC(a)
         \/ /\ inst[a].pc = "link" /\ target' = "none" /\ Go(a, "relink")
            /\ UNCHANGED <<self, content, place, beside, rcfile, twice, settled, installs, upgrades, deaths>>
  PROVE  ToolsInv'
<1> DEFINE i == inst[a]
<1>1. PICK x \in Finishing \ {"rc"} :
        /\ Go(a, x) /\ i.pc \in Finishing
        /\ UNCHANGED <<self, content, place, beside, twice, settled, installs, upgrades, deaths>>
        /\ rcfile' \in {"none", "part", "full"} /\ target' \in {"none", "other", "shome"}
        /\ x = "link" => rcfile' = "full"
        /\ x = "relink" => i.pc = "link" /\ rcfile' = rcfile /\ target' = "none"
  <2>1. CASE WriteRC(a) /\ i.pc = "rc"
    <3>1. Go(a, "rcfull") /\ rcfile' = "part" /\ target' = target
          /\ UNCHANGED <<self, content, place, beside, twice, settled, installs, upgrades, deaths>>
      BY <2>1 DEF WriteRC
    <3> QED  BY <2>1, <3>1 DEF Finishing, ToolsInv, CountsTyped
  <2>2. CASE WriteRC(a) /\ i.pc = "rcfull"
    <3>1. Go(a, "link") /\ rcfile' = "full" /\ target' = target
          /\ UNCHANGED <<self, content, place, beside, twice, settled, installs, upgrades, deaths>>
      BY <2>2 DEF WriteRC
    <3> QED  BY <2>2, <3>1 DEF Finishing, ToolsInv, CountsTyped
  <2>3. CASE ~WriteRC(a)
    BY <2>3 DEF Finishing, ToolsInv, CountsTyped
  <2> QED  BY <2>1, <2>2, <2>3 DEF WriteRC
<1> DEFINE r == [i EXCEPT !.pc = x]
<1>2. /\ r \in Installer /\ r.pc = x /\ r.name = i.name /\ r.fd = i.fd /\ r.alone = i.alone
      /\ inst' = [inst EXCEPT ![a] = r]
  <2>1. x \in Steps
    BY DEF Steps, Finishing
  <2> QED  BY <1>1, <2>1, GoIs
<1> HIDE DEF r
<1>3. CountsTyped' /\ BlocksTyped' /\ NamesTyped' /\ Apart'
  BY <1>1 DEF ToolsInv, CountsTyped, BlocksTyped, NamesTyped, Apart
<1>4. /\ i.name = "shome" /\ self # 0 /\ (i.alone => Present) /\ (i.alone /\ i.pc = "link" => rcfile = "full")
  BY <1>1 DEF ToolsInv, Begun, Prepares
<1>5. Present' = Present /\ (~twice => \A n \in Names : place'[n] # 0 => Whole(place[n])')
  BY <1>1 DEF Present, Whole, ToolsInv
<1>6. r.pc \notin Copying /\ r.pc # "idle" /\ r.pc \notin {"second", "rename"} /\ inst[a].pc # "idle"
  BY <1>1, <1>2 DEF Copying, Finishing
<1>7. r.fd <= Len(content') /\ Len(content) <= Len(content') /\ ~settled'
  BY <1>1, <1>2, <1>6, FilesAre
<1>8. /\ r.alone => inst[a].alone /\ Present'
      /\ r.alone /\ r.pc \in {"link", "relink"} => rcfile' = "full"
      /\ r.alone /\ r.pc = "relink" => target' = "none"
      /\ r.name = inst[a].name /\ r.name = "shome"
  BY <1>1, <1>2, <1>4, <1>5
<1> QED  BY <1>1, <1>2, <1>3, <1>4, <1>5, <1>6, <1>7, <1>8, OneStep

LEMMA ensureShimsKeeps ==
  \* One that comes to its end alone has prepared everything.
  ASSUME ToolsInv, NEW a \in Installers, ensureShims(a)
  PROVE  ToolsInv'
<1>1. /\ inst[a].pc \in {"link", "relink"}
      /\ UNCHANGED <<self, content, place, beside, rcfile, twice, installs, upgrades, deaths>>
  BY DEF ensureShims
<1>2. /\ deaths \in 0..MaxDeaths /\ settled \in BOOLEAN /\ target \in {"none", "other", "shome"} /\ inst[a].alone \in BOOLEAN
      /\ ~settled /\ (inst[a].alone => Present /\ rcfile = "full")
  BY <1>1, FilesAre DEF ToolsInv, CountsTyped, Prepares, Finishing
<1>3. CASE target' = "shome" /\ Done(a)
  BY <1>1, <1>2, <1>3, EndKeeps DEF Done
<1>4. CASE End(a) /\ UNCHANGED <<target, settled>>
  BY <1>1, <1>2, <1>4, EndKeeps
<1>5. CASE inst[a].pc = "link" /\ target' = "none" /\ Go(a, "relink") /\ UNCHANGED settled
  BY <1>1, <1>5, FinishKeeps
<1> QED  BY <1>3, <1>4, <1>5 DEF ensureShims

LEMMA DieKeeps ==
  \* One that dies leaves what it has done.
  ASSUME ToolsInv, NEW a \in Installers, Die(a)
  PROVE  ToolsInv'
<1>1. /\ inst[a].pc # "idle" /\ End(a) /\ UNCHANGED <<self, content, place, beside, rcfile, target, twice, settled, installs, upgrades>>
      /\ deaths < MaxDeaths /\ deaths' = deaths + 1
  BY DEF Die, Active
<1>2. deaths' \in 0..MaxDeaths /\ ~settled /\ settled \in BOOLEAN /\ target \in {"none", "other", "shome"}
  BY <1>1, FilesAre, ToolsAssumption DEF ToolsInv, CountsTyped
<1> QED  BY <1>1, <1>2, EndKeeps

LEMMA MetKeeps ==
  \* Whatever comes between, those that are at it are alone no more, and go on as they were.
  ASSUME ToolsInv, NEW A \in SUBSET Installers, inst' \in [Installers -> Installer],
         \A b \in Installers \ A : /\ inst'[b].pc = inst[b].pc /\ inst'[b].name = inst[b].name /\ inst'[b].fd = inst[b].fd
                                   /\ inst'[b].src = inst[b].src /\ ~inst'[b].alone,
         \A b \in A : inst[b].pc = "idle" /\ inst'[b].pc = "compare" /\ inst'[b].fd = 0
                      /\ (inst'[b].alone => Active' = A /\ A = {b}),
         \A b, c \in Active' : b # c /\ ~twice' => inst'[b].name # inst'[c].name,
         CountsTyped', UNCHANGED <<content, place, beside, rcfile, target>>, self # 0 => self' # 0,
         twice => twice', ~settled'
  PROVE  ToolsInv'
<1>1. BlocksTyped' /\ NamesTyped' /\ Apart'
  BY DEF ToolsInv, BlocksTyped, NamesTyped, Apart
<1>2. InstTyped'
  <2>1. ASSUME NEW b \in Installers PROVE inst'[b].fd <= Len(content')
    BY FilesAre DEF ToolsInv, InstTyped
  <2> QED  BY <2>1 DEF InstTyped
<1>3. ASSUME NEW b \in Installers PROVE Begun(b)' /\ Copies(b)' /\ Prepares(b)'
  <2>1. Begun(b)'
    BY DEF ToolsInv, Begun, Copying, Finishing
  <2>2. CASE b \in A
    BY <2>1, <2>2 DEF Copies, Prepares, Sure, Copying, Finishing
  <2>3. CASE b \notin A
    BY <2>1, <2>3 DEF ToolsInv, Copies, Prepares, Sure
  <2> QED  BY <2>2, <2>3
<1>4. twice' \/ \A n \in Names : place'[n] # 0 => Whole(place[n])'
  BY DEF ToolsInv, Whole, CountsTyped
<1> QED  BY <1>1, <1>2, <1>3, <1>4 DEF ToolsInv

LEMMA UpgradeKeeps ==
  \* Another version to install from.
  ASSUME ToolsInv, Upgrade
  PROVE  ToolsInv'
<1>1. /\ upgrades < MaxUpgrades /\ upgrades' = upgrades + 1 /\ self' = self + 1 /\ settled' = FALSE
      /\ inst' = [a \in Installers |-> [inst[a] EXCEPT !.alone = FALSE]]
      /\ UNCHANGED <<content, place, beside, rcfile, target, twice, installs, deaths>>
  BY DEF Upgrade
<1>2. ASSUME NEW b \in Installers
      PROVE  /\ inst'[b] \in Installer /\ inst'[b].pc = inst[b].pc /\ inst'[b].name = inst[b].name /\ inst'[b].fd = inst[b].fd
             /\ inst'[b].src = inst[b].src /\ ~inst'[b].alone
  BY <1>1 DEF ToolsInv, InstTyped, Installer
<1>3. CountsTyped' /\ (self # 0 => self' # 0)
  <2>1. upgrades' \in Editions /\ self' = upgrades' /\ self' # 0
    BY <1>1, ToolsAssumption DEF ToolsInv, CountsTyped, Editions
  <2> QED  BY <1>1, <2>1 DEF ToolsInv, CountsTyped
<1>4. ASSUME NEW b \in Active', NEW c \in Active', b # c, ~twice' PROVE inst'[b].name # inst'[c].name
  <2>1. b \in Active /\ c \in Active
    BY <1>2 DEF Active
  <2> QED  BY <1>1, <1>2, <1>4, <2>1 DEF ToolsInv, Copies, Sure, Active
<1>5. inst' \in [Installers -> Installer]
  BY <1>1, <1>2
<1> DEFINE A == {}
<1>6. /\ A \in SUBSET Installers /\ A = {}
      /\ UNCHANGED <<content, place, beside, rcfile, target>> /\ twice' = twice /\ ~settled'
  BY <1>1
<1> HIDE DEF A
<1> QED  BY <1>2, <1>3, <1>4, <1>5, <1>6, MetKeeps

LEMMA BeginInstallKeeps ==
  \* One that begins is alone only if nobody else is at it.
  ASSUME ToolsInv, NEW a \in Installers, NEW name \in Names, BeginInstall(a, name)
  PROVE  ToolsInv'
<1> DEFINE r == [Away EXCEPT !.pc = "compare", !.name = name, !.alone = Active = {}]
<1>1. /\ inst[a].pc = "idle" /\ installs < MaxInstalls /\ installs' = installs + 1 /\ settled' = FALSE
      /\ inst' = [b \in Installers |-> IF b = a THEN r ELSE [inst[b] EXCEPT !.alone = FALSE]]
      /\ twice' = (twice \/ \E b \in Active : inst[b].name = name)
      /\ UNCHANGED <<self, content, place, beside, rcfile, target, upgrades, deaths>>
  BY DEF BeginInstall
<1>2. /\ r \in Installer /\ r.pc = "compare" /\ r.name = name /\ r.fd = 0 /\ (r.alone => Active = {})
  BY AwayIs DEF Away, Installer, Steps, Names
<1> HIDE DEF r
<1>3. ASSUME NEW b \in Installers \ {a}
      PROVE  /\ inst'[b] \in Installer /\ inst'[b].pc = inst[b].pc /\ inst'[b].name = inst[b].name /\ inst'[b].fd = inst[b].fd
             /\ inst'[b].src = inst[b].src /\ ~inst'[b].alone
  <2>1. inst[b] \in Installer /\ inst'[b] = [inst[b] EXCEPT !.alone = FALSE]
    BY <1>1 DEF ToolsInv, InstTyped
  <2> QED  BY <2>1 DEF Installer
<1>4. inst'[a] = r /\ inst' \in [Installers -> Installer]
  BY <1>1, <1>2, <1>3
<1>5. CountsTyped'
  <2>1. installs' \in 0..MaxInstalls /\ twice' \in BOOLEAN
    BY <1>1, ToolsAssumption DEF ToolsInv, CountsTyped
  <2> QED  BY <1>1, <2>1 DEF ToolsInv, CountsTyped
<1>6. Active' = Active \cup {a} /\ a \notin Active
  BY <1>1, <1>2, <1>3, <1>4 DEF Active
<1>7. ASSUME NEW b \in Active', NEW c \in Active', b # c, ~twice' PROVE inst'[b].name # inst'[c].name
  <2>1. CASE b # a /\ c # a
    <3>1. b \in Active /\ c \in Active /\ b \in Installers /\ c \in Installers
      BY <1>6, <2>1 DEF Active
    <3>2. ~twice /\ inst[b].name # inst[c].name
      BY <1>1, <1>7, <3>1 DEF ToolsInv, Copies, Sure
    <3> QED  BY <1>3, <2>1, <3>1, <3>2
  <2>2. CASE b = a \/ c = a
    <3>1. b \in Installers /\ c \in Installers /\ (b # a => b \in Active) /\ (c # a => c \in Active)
      BY <1>6 DEF Active
    <3> QED  BY <1>1, <1>2, <1>3, <1>4, <1>7, <2>2, <3>1
  <2> QED  BY <2>1, <2>2
<1>8. inst'[a].pc = "compare" /\ inst'[a].fd = 0 /\ (inst'[a].alone => Active' = {a})
  BY <1>2, <1>4, <1>6
<1> DEFINE A == {a}
<1>9. /\ A \in SUBSET Installers /\ A = {a} /\ inst[a].pc = "idle"
      /\ UNCHANGED <<content, place, beside, rcfile, target>> /\ (twice => twice') /\ ~settled' /\ self' = self
  BY <1>1
<1> HIDE DEF A
<1> QED  BY <1>3, <1>4, <1>5, <1>7, <1>8, <1>9, MetKeeps, ZenonT(60)

LEMMA ToolsInitInv ==
  \* Nothing has been installed.
  ToolsInit => ToolsInv
<1> SUFFICES ASSUME ToolsInit PROVE ToolsInv
  OBVIOUS
<1>1. /\ self = 0 /\ content = <<>> /\ rcfile = "none" /\ target = "other"
      /\ place = [n \in Names |-> 0] /\ beside = [n \in Names |-> 0]
      /\ inst = [a \in Installers |-> Away] /\ twice = FALSE /\ settled = FALSE
      /\ installs = 0 /\ upgrades = 0 /\ deaths = 0
  BY DEF ToolsInit
<1>2. CountsTyped
  <2>1. 0 \in Editions /\ 0 \in 0..MaxInstalls /\ 0 \in 0..MaxDeaths
    BY ToolsAssumption DEF Editions
  <2> QED  BY <1>1, <2>1 DEF CountsTyped
<1>3. BlocksTyped /\ NamesTyped /\ Apart
  BY <1>1 DEF BlocksTyped, NamesTyped, Apart
<1>4. InstTyped
  BY <1>1, AwayIs DEF InstTyped
<1>5. ASSUME NEW a \in Installers PROVE Begun(a) /\ Copies(a) /\ Prepares(a)
  BY <1>1, AwayIs DEF Begun, Copies, Prepares, Copying, Finishing, Active
<1> QED  BY <1>1, <1>2, <1>3, <1>4, <1>5 DEF ToolsInv

LEMMA ToolsStep ==
  \* Every step keeps the invariant.
  ToolsInv /\ [ToolsNext]_toolVars => ToolsInv'
<1> SUFFICES ASSUME ToolsInv, [ToolsNext]_toolVars PROVE ToolsInv'
  OBVIOUS
<1>1. CASE Upgrade
  BY <1>1, UpgradeKeeps
<1>2. ASSUME NEW a \in Installers, NEW n \in Names, BeginInstall(a, n) PROVE ToolsInv'
  BY <1>2, BeginInstallKeeps
<1>3. ASSUME NEW a \in Installers, EnsureLinuxTools(a) \/ EnsureManaged(a) \/ ensureUV(a) PROVE ToolsInv'
  BY <1>3, CompareKeeps
<1>4. ASSUME NEW a \in Installers, Open(a) \/ Copy(a) \/ Rename(a) PROVE ToolsInv'
  BY <1>4, OpenKeeps, CopyKeeps, ToolRenameKeeps
<1>5. ASSUME NEW a \in Installers, WriteRC(a) \/ ensureShims(a) \/ Die(a) PROVE ToolsInv'
  BY <1>5, FinishKeeps, ensureShimsKeeps, DieKeeps
<1>6. CASE UNCHANGED toolVars
  BY <1>6 DEF toolVars, ToolsInv, CountsTyped, BlocksTyped, NamesTyped, InstTyped, Apart, Begun, Copies, Prepares,
              Sure, Active, Present, Whole
<1> QED  BY <1>1, <1>2, <1>3, <1>4, <1>5, <1>6 DEF ToolsNext

LEMMA ToolsInvImplies ==
  \* What the invariant says of the types and of the tools.
  ToolsInv => ToolsTypeOK /\ ToolsStayWhole
<1> SUFFICES ASSUME ToolsInv PROVE ToolsTypeOK /\ ToolsStayWhole
  OBVIOUS
<1>1. \A j \in DOMAIN content : content[j] \in Editions \X Editions
  BY DEF ToolsInv, BlocksTyped
<1>2. inst \in [Installers -> [pc: Steps, name: Names, fd: 0..Len(content), src: Editions, alone: BOOLEAN]]
  <2>1. ASSUME NEW a \in Installers
        PROVE  inst[a] \in [pc: Steps, name: Names, fd: 0..Len(content), src: Editions, alone: BOOLEAN]
    <3>1. inst[a] \in Installer /\ inst[a].fd \in 0..Len(content)
      BY FilesAre DEF ToolsInv, InstTyped
    <3> QED  BY <3>1 DEF Installer
  <2>2. inst \in [Installers -> Installer]
    BY DEF ToolsInv, InstTyped
  <2> QED  BY <2>1, <2>2
<1>3. ToolsTypeOK
  BY <1>1, <1>2 DEF ToolsTypeOK, ToolsInv, CountsTyped, NamesTyped, Apart, Editions
<1> QED  BY <1>3 DEF ToolsInv, ToolsStayWhole, Present

\* The variables of the tools have their types, however many processes prepare the directory, whatever
\* they are upgraded from and wherever they die (internal/userenv/tools.go).
THEOREM ToolsTypeCorrect == ToolsSpec => []ToolsTypeOK
<1>1. ToolsInv => ToolsTypeOK
  BY ToolsInvImplies
<1> QED  BY <1>1, ToolsInitInv, ToolsStep, PTL DEF ToolsSpec

\* A tool in its place is whole as long as no two have copied it at once, and one that came to its end
\* alone has put the present version there (copyExecutable, sameFile, ensureShims).
THEOREM ToolsStayWholeHolds == ToolsSpec => []ToolsStayWhole
<1>1. ToolsInv => ToolsStayWhole
  BY ToolsInvImplies
<1> QED  BY <1>1, ToolsInitInv, ToolsStep, PTL DEF ToolsSpec

-----------------------------------------------------------------------------
(* The software of a machine *)

\* The first tree that has a command is one of those kept.
First(i, c, had) == c \in had[Trees[i]] /\ \A k \in 1..(i - 1) : c \notin had[Trees[k]]
SoftwareInv ==
  /\ SoftwareTypeOK
  /\ kind = "linux" => \A t \in AllTrees : has[t] = {} /\ began[t] = {}
  /\ sandbox.on => \A c \in Commands, i \in DOMAIN Trees : First(i, c, began) => Trees[i] \in sandbox.path

LEMMA TreesAre ==
  \* The trees in their order.
  /\ Trees \in Seq(AllTrees) /\ DOMAIN Trees = 1..Len(Trees) /\ Len(Trees) \in Nat
  /\ \A i \in DOMAIN Trees : Trees[i] \in AllTrees /\ i \in Nat /\ \A k \in 1..(i - 1) : k \in DOMAIN Trees
BY SoftwareAssumption DEF AllTrees

LEMMA KeptIsWhatIsFirst ==
  \* What machineSoftware keeps, on a Mac.
  ASSUME SoftwareTypeOK
  PROVE  /\ MachineSoftware \in SUBSET AllTrees
         /\ kind = "mac" => \A c \in Commands, i \in DOMAIN Trees : First(i, c, has) => Trees[i] \in MachineSoftware
<1>1. candidateTrees \in {Trees, <<>>} /\ (kind = "mac" => candidateTrees = Trees)
  BY DEF candidateTrees
<1>2. MachineSoftware \in SUBSET AllTrees
  <2> SUFFICES ASSUME NEW i \in DOMAIN candidateTrees PROVE candidateTrees[i] \in AllTrees
    BY DEF MachineSoftware
  <2> QED  BY <1>1, TreesAre
<1>3. ASSUME kind = "mac", NEW c \in Commands, NEW i \in DOMAIN Trees, First(i, c, has) PROVE Trees[i] \in MachineSoftware
  <2>1. Claims(i, c)
    BY <1>1, <1>3 DEF Claims, First, findIn
  <2> QED  BY <1>1, <1>3, <2>1 DEF MachineSoftware
<1> QED  BY <1>2, <1>3

LEMMA SoftwareInitInv ==
  \* There is no job, and the trees have nothing.
  SoftwareInit => SoftwareInv
<1> SUFFICES ASSUME SoftwareInit PROVE SoftwareInv
  OBVIOUS
<1>1. 0 \in 0..MaxChanges /\ NoJob \in [on: BOOLEAN, path: SUBSET AllTrees] /\ ~NoJob.on
  BY SoftwareAssumption DEF NoJob
<1> QED  BY <1>1 DEF SoftwareInit, SoftwareInv, SoftwareTypeOK

LEMMA SoftwareStep ==
  \* What is installed or removed later does not change what a job was given.
  SoftwareInv /\ [SoftwareNext]_softwareVars => SoftwareInv'
<1> SUFFICES ASSUME SoftwareInv, [SoftwareNext]_softwareVars PROVE SoftwareInv'
  OBVIOUS
<1>0. SoftwareTypeOK
  BY DEF SoftwareInv
<1>1. CASE SandboxBegins
  <2>1. /\ sandbox' = [on |-> TRUE, path |-> MachineSoftware] /\ began' = has
        /\ UNCHANGED <<kind, has, system, stubs, said, changes>>
    BY <1>1 DEF SandboxBegins
  <2>2. MachineSoftware \in SUBSET AllTrees
    BY <1>0, KeptIsWhatIsFirst
  <2>3. SoftwareTypeOK'
    BY <1>0, <2>1, <2>2 DEF SoftwareTypeOK
  <2>4. ASSUME NEW c \in Commands, NEW i \in DOMAIN Trees, First(i, c, has) PROVE Trees[i] \in MachineSoftware
    <3>1. kind = "mac"
      BY <1>0, <2>4, TreesAre DEF SoftwareInv, SoftwareTypeOK, First
    <3> QED  BY <1>0, <2>4, <3>1, KeptIsWhatIsFirst
  <2>5. sandbox'.path = MachineSoftware /\ (kind' = "linux" => \A t \in AllTrees : has'[t] = {} /\ began'[t] = {})
    BY <2>1 DEF SoftwareInv
  <2> QED  BY <2>1, <2>3, <2>4, <2>5 DEF SoftwareInv, First
<1>2. CASE SandboxEnds
  <2>1. sandbox' = NoJob /\ UNCHANGED <<kind, has, system, stubs, began, said, changes>>
    BY <1>2 DEF SandboxEnds
  <2>2. NoJob \in [on: BOOLEAN, path: SUBSET AllTrees] /\ ~NoJob.on
    BY DEF NoJob
  <2>3. SoftwareTypeOK'
    BY <1>0, <2>1, <2>2 DEF SoftwareTypeOK
  <2> QED  BY <2>1, <2>2, <2>3 DEF SoftwareInv
<1>3. ASSUME NEW t \in AllTrees, NEW c \in Commands, Install(t, c) \/ Uninstall(t, c) PROVE SoftwareInv'
  <2>1. /\ changes < MaxChanges /\ changes' = changes + 1
        /\ \/ kind = "mac" /\ has' = [has EXCEPT ![t] = @ \cup {c}]
           \/ c \in has[t] /\ has' = [has EXCEPT ![t] = @ \ {c}]
        /\ UNCHANGED <<kind, system, stubs, sandbox, began, said>>
    BY <1>3 DEF Install, Uninstall
  <2>2. changes' \in 0..MaxChanges
    BY <1>0, <2>1, SoftwareAssumption DEF SoftwareTypeOK
  <2>3. has' \in [AllTrees -> SUBSET Commands]
    BY <1>0, <2>1 DEF SoftwareTypeOK
  <2>4. SoftwareTypeOK'
    BY <1>0, <2>1, <2>2, <2>3 DEF SoftwareTypeOK
  <2>5. kind' = "linux" => \A u \in AllTrees : has'[u] = {} /\ began'[u] = {}
    BY <1>0, <2>1 DEF SoftwareInv, SoftwareTypeOK
  <2> QED  BY <2>1, <2>4, <2>5 DEF SoftwareInv, First
<1>4. CASE Provision
  <2>1. PICK installed \in SUBSET packagesFor(MissingBaseCommands) :
          /\ system' = system \cup UNION {Provides[p] : p \in installed} /\ stubs' = stubs \ system'
          /\ said' = IF system' = Commands THEN "complete" ELSE "incomplete"
    BY <1>4 DEF Provision
  <2>2. UNCHANGED <<kind, has, sandbox, began, changes>>
    BY <1>4 DEF Provision
  <2>3. UNION {Provides[p] : p \in installed} \subseteq Commands
    BY DEF packagesFor, Commands
  <2>4. SoftwareTypeOK'
    BY <1>0, <2>1, <2>2, <2>3 DEF SoftwareTypeOK
  <2> QED  BY <2>2, <2>4 DEF SoftwareInv, First
<1>5. CASE UNCHANGED softwareVars
  BY <1>5 DEF softwareVars, SoftwareInv, SoftwareTypeOK, First
<1> QED  BY <1>1, <1>2, <1>3, <1>4, <1>5 DEF SoftwareNext

LEMMA SoftwareInvImplies ==
  \* What the invariant says of the commands a job finds.
  SoftwareInv => CommandsAreFound
<1> SUFFICES ASSUME SoftwareInv, sandbox.on, NEW c \in Commands, NEW i \in DOMAIN Trees, First(i, c, began), c \in has[Trees[i]]
             PROVE  Lookup(sandbox.path, c) = "tree"
  BY DEF CommandsAreFound, First
<1>1. \E t \in sandbox.path : findIn(t, c)
  BY DEF SoftwareInv, findIn
<1> QED  BY <1>1 DEF Lookup

\* The variables of the software have their types, whatever trees and packages there are
\* (internal/userenv/native.go).
THEOREM SoftwareTypeCorrect == SoftwareSpec => []SoftwareTypeOK
<1>1. SoftwareInv => SoftwareTypeOK
  BY DEF SoftwareInv
<1> QED  BY <1>1, SoftwareInitInv, SoftwareStep, PTL DEF SoftwareSpec

\* Whatever the owner installs and removes, a job finds a command in the trees it was given for as long
\* as the tree that provided it keeps it (machineSoftware, Session.Path).
THEOREM CommandsAreFoundHolds == SoftwareSpec => []CommandsAreFound
<1> QED  BY SoftwareInvImplies, SoftwareInitInv, SoftwareStep, PTL DEF SoftwareSpec

-----------------------------------------------------------------------------
(* The two together, each with the variables the run gives it *)

LEMMA OperatorsStep ==
  \* Both invariants are kept by the steps of every part.
  ToolsInv /\ SoftwareInv /\ [OperatorsNext]_allVars => ToolsInv' /\ SoftwareInv'
<1> SUFFICES ASSUME ToolsInv, SoftwareInv, [OperatorsNext]_allVars PROVE ToolsInv' /\ SoftwareInv'
  OBVIOUS
<1>1. [ToolsNext]_toolVars /\ [SoftwareNext]_softwareVars
  BY DEF OperatorsNext, allVars
<1> QED  BY <1>1, ToolsStep, SoftwareStep

\* Whatever part a behaviour is about, the tools are whole and the commands are found
\* (copyExecutable, machineSoftware).
THEOREM ToolsFoundHolds == OperatorsSpec => []ToolsFound
<1>1. OperatorsInit => ToolsInv /\ SoftwareInv
  BY ToolsInitInv, SoftwareInitInv DEF OperatorsInit
<1>2. ToolsInv /\ SoftwareInv => ToolsFound
  BY ToolsInvImplies, SoftwareInvImplies DEF ToolsFound, SoftwareInv
<1> QED  BY <1>1, <1>2, OperatorsStep, PTL DEF OperatorsSpec
=============================================================================
