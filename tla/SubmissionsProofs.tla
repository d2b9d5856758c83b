------------------------- MODULE SubmissionsProofs -------------------------
(***************************************************************************)
(* Proofs that what was submitted is what was asked for, for any clients,  *)
(* arrays, pipelines and limits, and that the passes and what is handed in *)
(* keep their types while they take turns.  The search for a cycle and the *)
(* order of the stages are functions of a number of steps here: that there *)
(* are such functions, and what they come to, is the first part and the    *)
(* last but one.                                                           *)
(***************************************************************************)
EXTENDS MCPlacement, SchedulingProofs, SequenceTheorems

-----------------------------------------------------------------------------
(* Steps taken one after the other *)

LEMMA FromNowOn ==
  \* What holds of 0 and of the next number holds of all.
  ASSUME NEW S, 0 \in S, \A n \in Nat : n \in S => n + 1 \in S
  PROVE  Nat \subseteq S
<1> SUFFICES ASSUME Nat \ S # {} PROVE FALSE
  OBVIOUS
<1>1. PICK n \in Nat \ S : \A m \in Nat \ S : n <= m
  BY FirstOf
<1>2. n - 1 \in Nat /\ n - 1 \in S
  BY <1>1
<1> QED  BY <1>1, <1>2

IsRun(g, base, step) == g = [k \in Nat |-> IF k = 0 THEN base ELSE step[<<g[k - 1], k>>]]

LEMMA RunExists ==
  \* There is a function that takes a step for each number.
  ASSUME NEW base, NEW step
  PROVE  \E g : IsRun(g, base, step)
<1> DEFINE Value(h, k) == IF k = 0 THEN base ELSE step[<<h[k - 1], k>>]
           Is(h, n) == h = [k \in 0..n |-> Value(h, k)]
           H(n) == CHOOSE h : Is(h, n)
           Has == {n \in Nat : \E h : Is(h, n)}
<1>1. 0 \in Has
  <2> DEFINE h == [k \in 0..0 |-> base]
  <2>1. \A k \in 0..0 : Value(h, k) = base
    OBVIOUS
  <2>2. Is(h, 0)
    <3> HIDE DEF Value
    <3> QED  BY <2>1
  <2> QED  BY <2>2
<1>2. ASSUME NEW n \in Nat, n \in Has PROVE n + 1 \in Has
  <2>1. PICK h : Is(h, n)
    BY <1>2
  <2> DEFINE g == [k \in 0..(n + 1) |-> Value(h, k)]
  <2>2. \A k \in 0..n : g[k] = h[k]
    <3> HIDE DEF Value
    <3> QED  BY <2>1
  <2>3. ASSUME NEW k \in 0..(n + 1) PROVE Value(g, k) = Value(h, k)
    <3>1. k # 0 => k - 1 \in 0..n
      BY <2>3
    <3>2. k # 0 => g[k - 1] = h[k - 1]
      <4> HIDE DEF g
      <4> QED  BY <3>1, <2>2
    <3> HIDE DEF g
    <3> QED  BY <3>2
  <2>4. Is(g, n + 1)
    <3> HIDE DEF Value
    <3> QED  BY <2>3
  <2> HIDE DEF g, Is
  <2> QED  BY <2>4
<1>3. Nat \subseteq Has
  <2> HIDE DEF Has
  <2> QED  BY <1>1, <1>2, FromNowOn
<1>4. ASSUME NEW n \in Nat, NEW k \in 0..n PROVE H(n)[k] = Value(H(n), k)
  <2>1. Is(H(n), n)
    <3>1. \E h : Is(h, n)
      BY <1>3
    <3> HIDE DEF Is
    <3> QED  BY <3>1
  <2>2. PICK h : h = H(n) /\ Is(h, n)
    <3> HIDE DEF Is
    <3> QED  BY <2>1
  <2>3. h[k] = Value(h, k)
    <3> HIDE DEF Value
    <3> QED  BY <2>2
  <2> QED  BY <2>2, <2>3
<1> HIDE DEF H
<1>5. ASSUME NEW k \in Nat, NEW m \in Nat, NEW n \in Nat, k <= m, k <= n PROVE H(m)[k] = H(n)[k]
  <2> DEFINE Same == {i \in Nat : i <= m /\ i <= n => H(m)[i] = H(n)[i]}
  <2>1. 0 \in Same
    <3>1. H(m)[0] = Value(H(m), 0) /\ H(n)[0] = Value(H(n), 0)
      <4>1. 0 \in 0..m /\ 0 \in 0..n
        OBVIOUS
      <4> HIDE DEF Value
      <4> QED  BY <1>4, <4>1
    <3> QED  BY <3>1
  <2>2. ASSUME NEW i \in Nat, i \in Same PROVE i + 1 \in Same
    <3>1. SUFFICES ASSUME i + 1 <= m, i + 1 <= n PROVE H(m)[i + 1] = H(n)[i + 1]
      OBVIOUS
    <3>2. i + 1 \in 0..m /\ i + 1 \in 0..n /\ i + 1 # 0 /\ (i + 1) - 1 = i
      BY <3>1
    <3>3. H(m)[i] = H(n)[i]
      BY <2>2, <3>1
    <3>4. Value(H(m), i + 1) = Value(H(n), i + 1)
      BY <3>2, <3>3
    <3>5. H(m)[i + 1] = Value(H(m), i + 1) /\ H(n)[i + 1] = Value(H(n), i + 1)
      <4> HIDE DEF Value
      <4> QED  BY <1>4, <3>2
    <3> QED  BY <3>4, <3>5
  <2>3. Nat \subseteq Same
    <3> HIDE DEF Same
    <3> QED  BY <2>1, <2>2, FromNowOn
  <2> QED  BY <1>5, <2>3
<1> DEFINE g == [k \in Nat |-> H(k)[k]]
<1>6. ASSUME NEW k \in Nat PROVE g[k] = Value(g, k)
  <2>1. k \in 0..k /\ g[k] = Value(H(k), k)
    <3> HIDE DEF Value
    <3> QED  BY <1>4
  <2>2. k # 0 => k - 1 \in Nat /\ g[k - 1] = H(k)[k - 1]
    BY <1>5
  <2> HIDE DEF g
  <2> QED  BY <2>1, <2>2
<1>7. g = [k \in Nat |-> Value(g, k)]
  <2> HIDE DEF Value
  <2> QED  BY <1>6
<1>8. IsRun(g, base, step)
  BY <1>7 DEF IsRun
<1> HIDE DEF g
<1> QED  BY <1>8

-----------------------------------------------------------------------------
(* The constants *)

LEMMA NamesAre ==
  \* A pipeline has stages.
  /\ StageNames \in Seq(Stages) /\ Len(StageNames) \in Nat \ {0} /\ "" \notin Stages
  /\ \A k \in 1..Len(StageNames) : StageNames[k] \in Stages
<1>1. StageNames \in Seq(Stages) \ {<<>>} /\ "" \notin Stages
  BY SubmissionsAssumption, Zenon
<1>2. StageNames \in Seq(Stages) /\ StageNames # <<>> /\ "" \notin Stages
  BY <1>1, Zenon
<1> HIDE DEF Stages
<1>3. Len(StageNames) \in Nat /\ Len(StageNames) # 0
  BY <1>2, EmptySeq
<1>4. ASSUME StageNames \in Seq(Stages) PROVE \A k \in 1..Len(StageNames) : StageNames[k] \in Stages
  BY <1>4
<1> QED  BY <1>2, <1>3, <1>4, Zenon

LEMMA NumbersAre ==
  \* The others are numbers.
  Tasks \in Nat /\ Tasks > 0 /\ Limit \in Nat /\ MaxBreaks \in Nat
<1>1. Tasks \in Nat \ {0} /\ Limit \in Nat /\ MaxBreaks \in Nat
  BY SubmissionsAssumption, Zenon
<1> QED  BY <1>1

LEMMA Turn ==
  \* Each step of a round is about a stage.
  ASSUME NEW k \in Nat
  PROVE  StageNames[(k % Len(StageNames)) + 1] \in Stages
<1>1. PICK n \in Nat \ {0} : n = Len(StageNames)
  BY NamesAre
<1>2. k % n \in 0..(n - 1)
  OBVIOUS
<1>3. (k % n) + 1 \in 1..n
  BY <1>2
<1> QED  BY <1>1, <1>3, NamesAre

-----------------------------------------------------------------------------
(* The order of the stages *)

\* The stages of `s` come after those they wait for, each once.
InOrder(g, s) ==
  /\ s \in Seq(Stages)
  /\ \A i, j \in 1..Len(s) : s[i] = s[j] => i = j
  /\ \A k \in 1..Len(s) : \A n \in g[s[k]] : \E j \in 1..(k - 1) : s[j] = n

LEMMA LookKeeps ==
  \* A stage is placed after those it waits for, and once.
  ASSUME NEW g, NEW s, InOrder(g, s), NEW n \in Stages
  PROVE  InOrder(g, Look(g, s, n))
<1>1. CASE n \in Range(s) \/ ~(g[n] \subseteq Range(s))
  BY <1>1 DEF Look
<1>2. CASE n \notin Range(s) /\ g[n] \subseteq Range(s)
  <2> DEFINE t == Append(s, n)
             m == Len(s)
  <2>1. s \in Seq(Stages) /\ m \in Nat
    BY DEF InOrder
  <2>2. /\ t \in Seq(Stages) /\ Len(t) = m + 1 /\ t[m + 1] = n
        /\ \A k \in 1..m : t[k] = s[k]
    BY <2>1
  <2>3. Range(s) = {s[k] : k \in 1..m}
    BY <2>1 DEF Range
  <2> HIDE DEF t, m
  <2>4. \A k \in 1..(m + 1) : k \in 1..m \/ k = m + 1
    BY <2>1
  <2>5. \A i, j \in 1..(m + 1) : t[i] = t[j] => i = j
    <3>1. \A i, j \in 1..m : s[i] = s[j] => i = j
      BY DEF InOrder, m
    <3> QED  BY <1>2, <2>2, <2>3, <2>4, <3>1
  <2>6. ASSUME NEW k \in 1..(m + 1), NEW d \in g[t[k]] PROVE \E j \in 1..(k - 1) : t[j] = d
    <3>1. CASE k \in 1..m
      <4>1. PICK j \in 1..(k - 1) : s[j] = d
        BY <2>2, <2>6, <3>1 DEF InOrder, m
      <4>2. j \in 1..m
        BY <2>1, <3>1
      <4> QED  BY <2>2, <4>1, <4>2
    <3>2. CASE k = m + 1
      <4>1. PICK j \in 1..m : s[j] = d
        BY <1>2, <2>2, <2>3, <2>6, <3>2
      <4>2. (m + 1) - 1 = m
        BY <2>1
      <4> QED  BY <2>2, <3>2, <4>1, <4>2
    <3> QED  BY <2>4, <3>1, <3>2
  <2>7. Look(g, s, n) = t
    BY <1>2 DEF Look, t
  <2> QED  BY <2>2, <2>5, <2>6, <2>7 DEF InOrder
<1> QED  BY <1>1, <1>2

LEMMA LookedIs ==
  \* The stages are looked at one after the other.
  ASSUME NEW g \in Graphs
  PROVE  \E looked :
           /\ looked = [k \in Nat |-> IF k = 0 THEN <<>>
                                      ELSE Look(g, looked[k - 1], StageNames[((k - 1) % Len(StageNames)) + 1])]
           /\ Order(g) = looked[Len(StageNames) * Len(StageNames)]
<1> DEFINE N == Len(StageNames)
           A == Seq(Stages)
           step == [x \in A \X Nat |-> Look(g, x[1], StageNames[((x[2] - 1) % N) + 1])]
           Is(f) == f = [k \in Nat |-> IF k = 0 THEN <<>> ELSE Look(g, f[k - 1], StageNames[((k - 1) % N) + 1])]
<1>1. PICK f : f = [k \in Nat |-> IF k = 0 THEN <<>> ELSE step[<<f[k - 1], k>>]]
  <2> HIDE DEF step
  <2>1. \E f : IsRun(f, <<>>, step)
    BY RunExists, Zenon
  <2> QED  BY <2>1, Zenon DEF IsRun
<1>2. \A k \in Nat : f[k + 1] = step[<<f[k], k + 1>>]
  <2> HIDE DEF step
  <2>1. \A k \in Nat : k + 1 \in Nat /\ k + 1 # 0 /\ (k + 1) - 1 = k
    OBVIOUS
  <2> QED  BY <1>1, <2>1
<1>3. ASSUME NEW k \in Nat, f[k] \in A PROVE f[k + 1] = Look(g, f[k], StageNames[(k % N) + 1]) /\ f[k + 1] \in A
  <2>1. StageNames[(k % N) + 1] \in Stages
    BY Turn
  <2>2. <<f[k], k + 1>> \in A \X Nat /\ (k + 1) - 1 = k
    BY <1>3
  <2>3. step[<<f[k], k + 1>>] = Look(g, f[k], StageNames[(k % N) + 1])
    BY <2>2
  <2>4. f[k + 1] = Look(g, f[k], StageNames[(k % N) + 1])
    <3> HIDE DEF step
    <3> QED  BY <1>2, <2>3
  <2> QED  BY <1>3, <2>1, <2>4 DEF Look
<1>4. \A k \in Nat : f[k] \in A
  <2> DEFINE Good == {k \in Nat : f[k] \in A}
  <2>1. f[0] = <<>>
    <3> HIDE DEF step
    <3> QED  BY <1>1
  <2>2. 0 \in Good
    <3>1. <<>> \in A
      OBVIOUS
    <3> QED  BY <2>1, <3>1, Zenon
  <2>3. \A k \in Nat : k \in Good => k + 1 \in Good
    <3> HIDE DEF A, N, step
    <3> QED  BY <1>3
  <2>4. Nat \subseteq Good
    <3> HIDE DEF Good
    <3> QED  BY <2>2, <2>3, FromNowOn
  <2> QED  BY <2>4
<1>5. Is(f)
  <2>1. ASSUME NEW k \in Nat, k # 0
        PROVE  step[<<f[k - 1], k>>] = Look(g, f[k - 1], StageNames[((k - 1) % N) + 1])
    <3>1. k - 1 \in Nat /\ <<f[k - 1], k>> \in A \X Nat
      BY <1>4, <2>1
    <3> QED  BY <3>1
  <2> HIDE DEF step, N
  <2> QED  BY <1>1, <2>1
<1> DEFINE looked == CHOOSE f1 : Is(f1)
<1>6. Is(looked)
  <2> HIDE DEF Is
  <2> QED  BY <1>5
<1>7. Order(g) = looked[N * N]
  BY DEF Order
<1> HIDE DEF looked
<1> QED  BY <1>6, <1>7

LEMMA OrderPlaces ==
  \* Stages in an order in which each of them comes after those it waits for.
  ASSUME NEW g \in Graphs
  PROVE  InOrder(g, Order(g))
<1> DEFINE N == Len(StageNames)
<1>1. PICK looked : /\ looked = [k \in Nat |-> IF k = 0 THEN <<>>
                                   ELSE Look(g, looked[k - 1], StageNames[((k - 1) % N) + 1])]
                    /\ Order(g) = looked[N * N]
  BY LookedIs
<1> DEFINE Good == {k \in Nat : InOrder(g, looked[k])}
<1>2. 0 \in Good
  <2>1. looked[0] = <<>>
    BY <1>1
  <2>2. InOrder(g, <<>>)
    BY DEF InOrder
  <2> QED  BY <2>1, <2>2, Zenon
<1>3. ASSUME NEW k \in Nat, k \in Good PROVE k + 1 \in Good
  <2>1. k + 1 \in Nat /\ k + 1 # 0 /\ (k + 1) - 1 = k
    OBVIOUS
  <2>2. looked[k + 1] = Look(g, looked[k], StageNames[(k % N) + 1])
    <3> HIDE DEF N
    <3> QED  BY <1>1, <2>1
  <2> QED  BY <1>3, <2>2, Turn, LookKeeps
<1>4. Nat \subseteq Good
  <2> HIDE DEF Good
  <2> QED  BY <1>2, <1>3, FromNowOn
<1>5. N * N \in Nat
  <2>1. N \in Nat
    BY NamesAre
  <2> HIDE DEF N
  <2> QED  BY <2>1
<1> QED  BY <1>1, <1>4, <1>5

-----------------------------------------------------------------------------
(* The inductive invariant *)

\* What a request is, and what its command does meanwhile.
RequestSays(c) ==
  /\ handler[c].at # "none" => cmd[c].step = "submit"
  /\ handler[c].at \in {"count", "insert"} => handler[c].todo # <<>>
  /\ handler[c].at = "link" => cmd[c].kind = "array"
  /\ handler[c].at = "hold" => cmd[c].kind = "staged"
  /\ handler[c].at \in {"count", "insert", "link"} => (handler[c].held <=> cmd[c].kind = "staged")
  /\ cmd[c].said # "" => cmd[c].step = "over"
  /\ cmd[c].step \in {"upload", "saving", "release", "giveup"} => cmd[c].kind = "staged"

\* A request that was counted has room for all it still adds, and is alone in that.
CountedIn(c) == handler[c].at \in {"insert", "link"}
LimitSays ==
  ~over => /\ Cardinality(Queued) <= Limit
           /\ \A c \in Clients : CountedIn(c) => /\ Cardinality(Queued) + Len(handler[c].todo) <= Limit
                                               /\ \A d \in Clients : CountedIn(d) => d = c

\* The rows of an array that is handed in, and those it still adds, are its tasks; they
\* carry the number of the first, except the newest until the next statement.
ArraySays(c) ==
  cmd[c].kind = "array" =>
    /\ cmd[c].step = "ready" \/ handler[c].at = "count" => RowsOf(c) = {}
    /\ handler[c].at = "count" => Len(handler[c].todo) = Tasks /\ handler[c].first = NoJob
    /\ handler[c].at \in {"insert", "link"} =>
         /\ Cardinality(RowsOf(c)) + Len(handler[c].todo) = Tasks
         /\ IF RowsOf(c) = {} THEN handler[c].first = NoJob /\ handler[c].at # "link"
            ELSE handler[c].first \in RowsOf(c)
         /\ \A j \in RowsOf(c) : \/ rows[j].array = handler[c].first
                                 \/ handler[c].at = "link" /\ \A i \in RowsOf(c) : i <= j
    /\ cmd[c].said = "submitted" =>
         /\ Cardinality(RowsOf(c)) = Tasks /\ cmd[c].id \in RowsOf(c)
         /\ \A j \in RowsOf(c) : rows[j].array = cmd[c].id
LinksSay == \A j \in Ids : rows[j].array # NoJob => rows[rows[j].array].by = rows[j].by

\* The numbers a pipeline was told are of its first stages, and it asks for the next.
PipelineSays(c) ==
  cmd[c].kind = "pipeline" =>
    /\ \A k \in DOMAIN cmd[c].ids : k <= Len(Order(after)) /\ rows[cmd[c].ids[k]].by = c
                                    /\ rows[cmd[c].ids[k]].stage = Order(after)[k]
    /\ handler[c].at \in {"count", "insert"} =>
         Len(cmd[c].ids) < Len(Order(after)) /\ handler[c].todo[1].stage = Order(after)[Len(cmd[c].ids) + 1]

\* A stage that is asked for, or in the table, waits for a row of each stage it comes after.
WaitsFor(c, stage, ids) ==
  stage # "" => \A n \in after[stage] : \E j \in ids : rows[j].by = c /\ rows[j].stage = n
StagesSay ==
  /\ \A i \in Ids : WaitsFor(rows[i].by, rows[i].stage, rows[i].after)
  /\ \A c \in Clients : \A k \in DOMAIN handler[c].todo :
       WaitsFor(c, handler[c].todo[k].stage, handler[c].todo[k].after)
  /\ \A i \in Ids : i \in ran \/ rows[i].state = "RUNNING" => AllDone(i)

\* A script with inputs has one row, which is released once its inputs are in place.
StagedSays(c) ==
  cmd[c].kind = "staged" =>
    /\ cmd[c].step = "ready" \/ handler[c].at \in {"count", "insert"} => RowsOf(c) = {}
    /\ handler[c].at = "hold" => RowsOf(c) = {handler[c].first}
    /\ cmd[c].step \in {"upload", "saving", "release", "giveup"} => RowsOf(c) = {cmd[c].id}
    /\ cmd[c].step = "release" => cmd[c].id \in inputs
    /\ cmd[c].step = "over" /\ cmd[c].said # "held" =>
         \A i \in RowsOf(c) : rows[i].state = "PENDING" => ~rows[i].held /\ i \in inputs
InputsSay == \A i \in ran : Staged(i) => i \in inputs

Says(c) == RequestSays(c) /\ ArraySays(c) /\ PipelineSays(c) /\ StagedSays(c)
HandedInv ==
  /\ SubmissionsTypeOK /\ LimitSays /\ LinksSay /\ StagesSay /\ InputsSay
  /\ \A c \in Clients : Says(c)

-----------------------------------------------------------------------------
(* Rows, commands and requests *)

LEMMA RowsAre ==
  \* Jobs have numbers from 1 on.
  ASSUME rows \in Seq(Row)
  PROVE  /\ Len(rows) \in Nat /\ Ids = 1..Len(rows) /\ Ids \subseteq Nat /\ NoJob \notin Ids
         /\ IsFiniteSet(Ids) /\ \A i \in Ids : rows[i] \in Row
<1>1. Len(rows) \in Nat /\ Ids = 1..Len(rows)
  BY DEF Ids
<1>2. IsFiniteSet(1..Len(rows))
  BY <1>1, FS_Interval
<1> QED  BY <1>1, <1>2 DEF NoJob

LEMMA RowIs ==
  \* What a row holds.
  ASSUME NEW r \in Row
  PROVE  /\ r.by \in Clients /\ r.stage \in Stages \cup {""} /\ r.array \in Nat /\ r.after \subseteq Nat
         /\ r.held \in BOOLEAN /\ r.state \in States
BY DEF Row

LEMMA RowSet ==
  \* One row is updated.
  ASSUME rows \in Seq(Row), NEW i \in Ids, NEW r \in Row, rows' = [rows EXCEPT ![i] = r]
  PROVE  /\ rows' \in Seq(Row) /\ Ids' = Ids /\ rows'[i] = r
         /\ \A j \in Ids : j # i => rows'[j] = rows[j]
BY RowsAre DEF Ids

LEMMA RowAdded ==
  \* One row is added.
  ASSUME rows \in Seq(Row), NEW r \in Row, rows' = Append(rows, r)
  PROVE  /\ rows' \in Seq(Row) /\ Ids' = Ids \cup {Len(rows) + 1} /\ rows'[Len(rows) + 1] = r
         /\ Len(rows) + 1 \notin Ids /\ Len(rows) + 1 \in Nat
         /\ \A j \in Ids : rows'[j] = rows[j] /\ j < Len(rows) + 1
<1>1. Len(rows) \in Nat /\ Ids = 1..Len(rows)
  BY RowsAre
<1>2. rows' \in Seq(Row) /\ Len(rows') = Len(rows) + 1 /\ Ids' = 1..(Len(rows) + 1)
  BY <1>1 DEF Ids
<1>3. rows'[Len(rows) + 1] = r /\ \A j \in 1..Len(rows) : rows'[j] = rows[j]
  BY <1>1
<1>4. 1..(Len(rows) + 1) = 1..Len(rows) \cup {Len(rows) + 1}
  BY <1>1
<1> QED  BY <1>1, <1>2, <1>3, <1>4

LEMMA CommandIs ==
  \* What a command and its request hold.
  ASSUME SubmissionsTypeOK, NEW c \in Clients
  PROVE  /\ cmd[c] \in Command /\ handler[c] \in Request
         /\ cmd[c].kind \in {"array", "staged", "pipeline"} /\ cmd[c].id \in Nat /\ cmd[c].ids \in Seq(Nat)
         /\ cmd[c].alive \in BOOLEAN
         /\ cmd[c].step \in {"ready", "submit", "upload", "saving", "release", "giveup", "over"}
         /\ cmd[c].said \in {"", "submitted", "refused", "held"}
         /\ handler[c].at \in {"none", "count", "insert", "link", "hold"}
         /\ handler[c].first \in Nat /\ handler[c].held \in BOOLEAN /\ handler[c].todo \in Seq(Wanted)
<1>1. cmd[c] \in Command /\ handler[c] \in Request
  BY DEF SubmissionsTypeOK
<1>2. /\ cmd[c].kind \in {"array", "staged", "pipeline"} /\ cmd[c].id \in Nat /\ cmd[c].ids \in Seq(Nat)
      /\ cmd[c].alive \in BOOLEAN
      /\ cmd[c].step \in {"ready", "submit", "upload", "saving", "release", "giveup", "over"}
      /\ cmd[c].said \in {"", "submitted", "refused", "held"}
  BY <1>1 DEF Command
<1>3. /\ handler[c].at \in {"none", "count", "insert", "link", "hold"}
      /\ handler[c].first \in Nat /\ handler[c].held \in BOOLEAN /\ handler[c].todo \in Seq(Wanted)
  BY <1>1 DEF Request
<1> QED  BY <1>1, <1>2, <1>3

LEMMA NothingAsked ==
  \* No request.
  /\ NoRequest \in Request /\ NoRequest.at = "none" /\ NoRequest.first = NoJob
  /\ DOMAIN NoRequest.todo = {} /\ Len(NoRequest.todo) = 0
BY DEF NoRequest, Request, NoJob

LEMMA QueuedAre ==
  \* Sets of rows can be counted.
  ASSUME rows \in Seq(Row)
  PROVE  /\ Queued \subseteq Ids /\ IsFiniteSet(Queued) /\ Cardinality(Queued) \in Nat
         /\ \A c : RowsOf(c) \subseteq Ids /\ IsFiniteSet(RowsOf(c)) /\ Cardinality(RowsOf(c)) \in Nat
<1>1. IsFiniteSet(Ids)
  BY RowsAre
<1>2. Queued \subseteq Ids /\ \A c : RowsOf(c) \subseteq Ids
  BY DEF Queued, RowsOf
<1> QED  BY <1>1, <1>2, FS_Subset, FS_CardinalityType

-----------------------------------------------------------------------------
(* What a step leaves as it was *)

\* Jobs stay what they were handed in as; those that have run have run, and what starts
\* is a job whose prerequisites are done.
Goon ==
  /\ rows' \in Seq(Row) /\ Ids \subseteq Ids' /\ after' = after
  /\ \A i \in Ids :
       /\ rows'[i].by = rows[i].by /\ rows'[i].stage = rows[i].stage /\ rows'[i].after = rows[i].after
       /\ rows[i].state = "COMPLETED" => rows'[i].state = "COMPLETED"
       /\ rows'[i].state = "RUNNING" => rows[i].state = "RUNNING" \/ AllDone(i)

\* ... after a step.
WaitsThen(c, stage, ids) ==
  stage # "" => \A n \in after'[stage] : \E j \in ids : rows'[j].by = c /\ rows'[j].stage = n

LEMMA GoonKeeps ==
  \* What is done stays done, and what waits for rows waits for them.
  ASSUME Goon
  PROVE  /\ \A i \in Ids : rows[i].after \subseteq Ids /\ AllDone(i) => AllDone(i)'
         /\ \A c, stage, ids : ids \subseteq Ids /\ WaitsFor(c, stage, ids) => WaitsThen(c, stage, ids)
<1>1. ASSUME NEW i \in Ids, rows[i].after \subseteq Ids, AllDone(i) PROVE AllDone(i)'
  BY <1>1 DEF Goon, AllDone
<1>2. ASSUME NEW c, NEW stage, NEW ids, ids \subseteq Ids, WaitsFor(c, stage, ids)
      PROVE  WaitsThen(c, stage, ids)
  BY <1>2 DEF Goon, WaitsFor, WaitsThen
<1> QED  BY <1>1, <1>2

\* No job comes, none that had ended is queued.
Same ==
  /\ Ids' = Ids
  /\ \A i \in Ids : /\ rows'[i].array = rows[i].array
                    /\ rows'[i].state = "PENDING" => rows[i].state = "PENDING"
                    /\ rows'[i].state \in {"PENDING", "RUNNING"} => rows[i].state \in {"PENDING", "RUNNING"}

LEMMA SameKeeps ==
  \* The rows of a command are the same, and no more are queued.
  ASSUME rows \in Seq(Row), \A i \in Ids : rows[i].array \in Ids \cup {NoJob}, LinksSay, Goon, Same
  PROVE  /\ \A c : RowsOf(c)' = RowsOf(c)
         /\ Cardinality(Queued') \in Nat /\ Cardinality(Queued') <= Cardinality(Queued)
         /\ LinksSay'
         /\ \A i \in Ids' : rows'[i].array \in Ids' \cup {NoJob}
<1>1. ASSUME NEW c PROVE RowsOf(c)' = RowsOf(c)
  BY DEF RowsOf, Goon, Same
<1>2. Queued' \subseteq Queued
  BY DEF Queued, Same
<1>3. Cardinality(Queued') \in Nat /\ Cardinality(Queued') <= Cardinality(Queued)
  BY <1>2, QueuedAre, FS_Subset, FS_CardinalityType
<1>4. LinksSay'
  BY DEF LinksSay, Goon, Same
<1> QED  BY <1>1, <1>3, <1>4 DEF Same

\* The rows of a command are as it knows them.
Spares(c) ==
  /\ RowsOf(c)' = RowsOf(c) /\ after' = after /\ inputs \subseteq inputs'
  /\ \A i \in RowsOf(c) :
       /\ rows'[i].by = rows[i].by /\ rows'[i].stage = rows[i].stage /\ rows'[i].array = rows[i].array
       /\ rows'[i].state = "PENDING" => rows[i].state = "PENDING" /\ (rows'[i].held => rows[i].held)

LEMMA SparedSays ==
  \* What a command knows it still knows.
  ASSUME NEW c \in Clients, SubmissionsTypeOK, Says(c), Spares(c), cmd'[c] = cmd[c], handler'[c] = handler[c]
  PROVE  Says(c)'
<1>1. RequestSays(c)'
  BY DEF Says, RequestSays
<1>2. ArraySays(c)'
  <2>1. Cardinality(RowsOf(c)') = Cardinality(RowsOf(c)) /\ RowsOf(c)' = RowsOf(c)
    BY DEF Spares
  <2>2. \A j \in RowsOf(c) : rows'[j].array = rows[j].array
    BY DEF Spares
  <2> QED  BY <2>1, <2>2 DEF Says, ArraySays
<1>3. PipelineSays(c)'
  <2>1. SUFFICES ASSUME cmd[c].kind = "pipeline" PROVE PipelineSays(c)'
    BY DEF PipelineSays
  <2>2. Order(after)' = Order(after)
    BY DEF Spares
  <2>3. ASSUME NEW k \in DOMAIN cmd[c].ids
        PROVE  rows'[cmd[c].ids[k]].by = rows[cmd[c].ids[k]].by /\ rows'[cmd[c].ids[k]].stage = rows[cmd[c].ids[k]].stage
    <3>1. cmd[c].ids[k] \in Ids /\ rows[cmd[c].ids[k]].by = c
      BY <2>1, <2>3, CommandIs DEF Says, PipelineSays, SubmissionsTypeOK, Range
    <3> QED  BY <3>1 DEF Spares, RowsOf
  <2> QED  BY <2>1, <2>2, <2>3 DEF Says, PipelineSays
<1>4. StagedSays(c)'
  <2>1. RowsOf(c)' = RowsOf(c) /\ inputs \subseteq inputs'
    BY DEF Spares
  <2>2. \A i \in RowsOf(c) : rows'[i].state = "PENDING" => rows[i].state = "PENDING" /\ (rows'[i].held => rows[i].held)
    BY DEF Spares
  <2> QED  BY <2>1, <2>2 DEF Says, StagedSays
<1> QED  BY <1>1, <1>2, <1>3, <1>4 DEF Says

LEMMA SameSpares ==
  \* Steps of other jobs, and of the jobs themselves.
  ASSUME rows \in Seq(Row), \A i \in Ids : rows[i].array \in Ids \cup {NoJob}, LinksSay, Goon, Same,
         inputs \subseteq inputs', NEW c,
         \A i \in RowsOf(c) : rows'[i].state = "PENDING" => (rows'[i].held => rows[i].held)
  PROVE  Spares(c)
<1>1. RowsOf(c)' = RowsOf(c)
  BY SameKeeps
<1> QED  BY <1>1 DEF Spares, Goon, Same, RowsOf

LEMMA RowsStay ==
  \* The table is not touched.
  ASSUME rows \in Seq(Row), rows' = rows, after' = after
  PROVE  Goon /\ Same /\ \A c : inputs \subseteq inputs' => Spares(c)
<1>1. Goon /\ Same
  BY DEF Goon, Same, Ids
<1>2. \A c : inputs \subseteq inputs' => Spares(c)
  BY DEF Spares, RowsOf, Ids
<1> QED  BY <1>1, <1>2

LEMMA LimitStays ==
  \* No more are queued, and no request begins to add.
  ASSUME LimitSays, SubmissionsTypeOK, over' = over,
         Cardinality(Queued') \in Nat, Cardinality(Queued') <= Cardinality(Queued),
         \A c \in Clients : handler'[c].at \in {"insert", "link"} =>
                              CountedIn(c) /\ handler'[c].todo = handler[c].todo
  PROVE  LimitSays'
<1> SUFFICES ASSUME ~over PROVE LimitSays'
  BY DEF LimitSays
<1>1. Cardinality(Queued) \in Nat /\ Cardinality(Queued) <= Limit
  BY QueuedAre DEF LimitSays, SubmissionsTypeOK
<1>2. Cardinality(Queued') <= Limit
  BY <1>1, NumbersAre
<1>3. ASSUME NEW c \in Clients, handler'[c].at \in {"insert", "link"}
      PROVE  /\ Cardinality(Queued') + Len(handler'[c].todo) <= Limit
             /\ \A d \in Clients : handler'[d].at \in {"insert", "link"} => d = c
  <2>1. handler'[c].todo = handler[c].todo /\ CountedIn(c)
    BY <1>3
  <2>2. Len(handler[c].todo) \in Nat /\ Cardinality(Queued) + Len(handler[c].todo) <= Limit
    <3>1. handler[c].todo \in Seq(Wanted)
      BY CommandIs
    <3> QED  BY <2>1, <3>1 DEF LimitSays
  <2>3. Cardinality(Queued') + Len(handler[c].todo) <= Limit
    BY <1>1, <2>2, NumbersAre
  <2>4. \A d \in Clients : handler'[d].at \in {"insert", "link"} => d = c
    BY <2>1 DEF LimitSays, CountedIn
  <2> QED  BY <2>1, <2>3, <2>4
<1> QED  BY <1>2, <1>3 DEF LimitSays, CountedIn

-----------------------------------------------------------------------------
(* What a step makes anew *)

\* The jobs a command knows of.
Named(c) ==
  /\ cmd[c].id \in Ids \cup {NoJob} /\ Range(cmd[c].ids) \subseteq Ids
  /\ handler[c].first \in Ids \cup {NoJob}
  /\ \A k \in DOMAIN handler[c].todo : handler[c].todo[k].after \subseteq Ids
TodoWaits(c) ==
  \A k \in DOMAIN handler[c].todo : WaitsFor(c, handler[c].todo[k].stage, handler[c].todo[k].after)

LEMMA TodoIs ==
  \* What is still to do.
  ASSUME NEW t \in Seq(Wanted)
  PROVE  /\ Len(t) \in Nat /\ DOMAIN t = 1..Len(t)
         /\ \A k \in DOMAIN t : /\ t[k] \in Wanted /\ t[k].stage \in Stages \cup {""}
                                /\ t[k].after \subseteq Nat
         /\ t # <<>> =>
              /\ Len(t) > 0 /\ Head(t) = t[1] /\ 1 \in DOMAIN t
              /\ Tail(t) \in Seq(Wanted) /\ Len(Tail(t)) = Len(t) - 1
              /\ \A k \in DOMAIN Tail(t) : k + 1 \in DOMAIN t /\ Tail(t)[k] = t[k + 1]
<1>1. Len(t) \in Nat /\ DOMAIN t = 1..Len(t)
  OBVIOUS
<1>2. ASSUME NEW k \in DOMAIN t PROVE t[k] \in Wanted /\ t[k].stage \in Stages \cup {""} /\ t[k].after \subseteq Nat
  <2>1. t[k] \in Wanted
    BY <1>1, <1>2
  <2> QED  BY <2>1 DEF Wanted
<1>3. ASSUME t # <<>>
      PROVE  /\ Len(t) > 0 /\ Head(t) = t[1] /\ 1 \in DOMAIN t
             /\ Tail(t) \in Seq(Wanted) /\ Len(Tail(t)) = Len(t) - 1
             /\ \A k \in DOMAIN Tail(t) : k + 1 \in DOMAIN t /\ Tail(t)[k] = t[k + 1]
  <2>1. Len(t) > 0
    BY <1>1, <1>3, EmptySeq
  <2>2. Tail(t) \in Seq(Wanted) /\ Len(Tail(t)) = Len(t) - 1
    BY <1>3, HeadTailProperties
  <2>3. \A k \in 1..(Len(t) - 1) : Tail(t)[k] = t[k + 1]
    BY <1>3, HeadTailProperties
  <2>4. DOMAIN Tail(t) = 1..(Len(t) - 1) /\ \A k \in 1..(Len(t) - 1) : k + 1 \in 1..Len(t)
    BY <1>1, <2>1, <2>2
  <2> QED  BY <1>1, <2>1, <2>2, <2>3, <2>4
<1> QED  BY <1>1, <1>2, <1>3

LEMMA WaitsStay ==
  \* What is asked for still waits for rows.
  ASSUME Goon, SubmissionsTypeOK, StagesSay, NEW c \in Clients, handler'[c].todo = handler[c].todo
  PROVE  TodoWaits(c)' /\ \A k \in DOMAIN handler'[c].todo : handler'[c].todo[k].after \subseteq Ids'
<1>1. ASSUME NEW k \in DOMAIN handler[c].todo
      PROVE  /\ handler[c].todo[k].after \subseteq Ids
             /\ WaitsThen(c, handler[c].todo[k].stage, handler[c].todo[k].after)
  <2>1. handler[c].todo[k].after \subseteq Ids
    BY DEF SubmissionsTypeOK
  <2>2. WaitsFor(c, handler[c].todo[k].stage, handler[c].todo[k].after)
    BY DEF StagesSay
  <2> QED  BY <2>1, <2>2, GoonKeeps
<1>2. Ids \subseteq Ids'
  BY DEF Goon
<1>3. \A k \in DOMAIN handler'[c].todo :
        /\ handler'[c].todo[k].after \subseteq Ids'
        /\ WaitsThen(c, handler'[c].todo[k].stage, handler'[c].todo[k].after)
  BY <1>1, <1>2
<1> QED  BY <1>3 DEF TodoWaits, WaitsFor, WaitsThen

LEMMA TailWaits ==
  \* ... and what is left of it.
  ASSUME Goon, SubmissionsTypeOK, StagesSay, NEW c \in Clients, handler[c].todo # <<>>,
         handler'[c].todo = Tail(handler[c].todo)
  PROVE  TodoWaits(c)' /\ \A k \in DOMAIN handler'[c].todo : handler'[c].todo[k].after \subseteq Ids'
<1>1. ASSUME NEW k \in DOMAIN handler[c].todo
      PROVE  /\ handler[c].todo[k].after \subseteq Ids
             /\ WaitsThen(c, handler[c].todo[k].stage, handler[c].todo[k].after)
  <2>1. handler[c].todo[k].after \subseteq Ids
    BY DEF SubmissionsTypeOK
  <2>2. WaitsFor(c, handler[c].todo[k].stage, handler[c].todo[k].after)
    BY DEF StagesSay
  <2> QED  BY <2>1, <2>2, GoonKeeps
<1>2. \A k \in DOMAIN handler'[c].todo : k + 1 \in DOMAIN handler[c].todo /\ handler'[c].todo[k] = handler[c].todo[k + 1]
  <2>1. handler[c].todo \in Seq(Wanted)
    BY CommandIs
  <2> QED  BY <2>1, TodoIs
<1>3. Ids \subseteq Ids'
  BY DEF Goon
<1>4. \A k \in DOMAIN handler'[c].todo :
        /\ handler'[c].todo[k].after \subseteq Ids'
        /\ WaitsThen(c, handler'[c].todo[k].stage, handler'[c].todo[k].after)
  BY <1>1, <1>2, <1>3
<1> QED  BY <1>4 DEF TodoWaits, WaitsFor, WaitsThen

LEMMA SparedNames ==
  \* What a command knows of is still there.
  ASSUME Goon, SubmissionsTypeOK, StagesSay, NEW c \in Clients, cmd'[c] = cmd[c], handler'[c] = handler[c]
  PROVE  Named(c)' /\ TodoWaits(c)'
<1>1. Ids \subseteq Ids'
  BY DEF Goon
<1>2. TodoWaits(c)' /\ \A k \in DOMAIN handler'[c].todo : handler'[c].todo[k].after \subseteq Ids'
  BY WaitsStay
<1>3. /\ cmd[c].id \in Ids \cup {NoJob} /\ Range(cmd[c].ids) \subseteq Ids
      /\ handler[c].first \in Ids \cup {NoJob}
  BY DEF SubmissionsTypeOK
<1> QED  BY <1>1, <1>2, <1>3 DEF Named

\* All that is said of a command holds of it after the step.
Renewed(c) == Named(c)' /\ TodoWaits(c)' /\ Says(c)' /\ cmd'[c].kind = cmd[c].kind

LEMMA StepKeeps ==
  \* A step that goes on, and makes anew what it does not spare, preserves the invariant.
  ASSUME HandedInv, Goon, inputs \subseteq inputs', inputs' \cup ran' \subseteq Ids',
         \A i \in ran' \ ran : i \in Ids /\ rows[i].state = "RUNNING" /\ (Staged(i) => i \in inputs),
         cmd' \in [Clients -> Command], handler' \in [Clients -> Request],
         over' \in BOOLEAN, breaks' \in 0..MaxBreaks,
         \A i \in Ids' : rows'[i].array \in Ids' \cup {NoJob} /\ rows'[i].after \subseteq Ids',
         \A i \in Ids' \ Ids : rows'[i].state = "PENDING"
                               /\ WaitsThen(rows'[i].by, rows'[i].stage, rows'[i].after),
         LinksSay', LimitSays',
         \A c \in Clients : (cmd'[c] = cmd[c] /\ handler'[c] = handler[c] /\ Spares(c)) \/ Renewed(c)
  PROVE  HandedInv'
<1> USE DEF HandedInv
<1>1. ASSUME NEW c \in Clients PROVE Named(c)' /\ TodoWaits(c)' /\ Says(c)' /\ cmd'[c].kind = cmd[c].kind
  <2>1. CASE Renewed(c)
    BY <2>1 DEF Renewed
  <2>2. CASE cmd'[c] = cmd[c] /\ handler'[c] = handler[c] /\ Spares(c)
    BY <2>2, SparedNames, SparedSays
  <2> QED  BY <2>1, <2>2
<1>2. SubmissionsTypeOK'
  <2>1. \A c \in Clients :
          /\ cmd'[c].id \in Ids' \cup {NoJob} /\ Range(cmd'[c].ids) \subseteq Ids'
          /\ handler'[c].first \in Ids' \cup {NoJob}
          /\ \A k \in DOMAIN handler'[c].todo : handler'[c].todo[k].after \subseteq Ids'
    BY <1>1 DEF Named
  <2>2. rows' \in Seq(Row) /\ after' \in Graphs
    BY DEF Goon, SubmissionsTypeOK
  <2> QED  BY <2>1, <2>2 DEF SubmissionsTypeOK
<1>3. StagesSay'
  <2>1. ASSUME NEW i \in Ids' PROVE WaitsThen(rows'[i].by, rows'[i].stage, rows'[i].after)
    <3>1. CASE i \in Ids
      <4>1. WaitsFor(rows[i].by, rows[i].stage, rows[i].after) /\ rows[i].after \subseteq Ids
        BY <3>1 DEF StagesSay, SubmissionsTypeOK
      <4>2. WaitsThen(rows[i].by, rows[i].stage, rows[i].after)
        BY <4>1, GoonKeeps
      <4> QED  BY <3>1, <4>2 DEF Goon
    <3> QED  BY <3>1
  <2>2. ASSUME NEW i \in Ids', i \in ran' \/ rows'[i].state = "RUNNING" PROVE AllDone(i)'
    <3>1. i \in Ids
      BY <2>2 DEF SubmissionsTypeOK
    <3>2. AllDone(i) /\ rows[i].after \subseteq Ids
      BY <2>2, <3>1 DEF StagesSay, SubmissionsTypeOK, Goon
    <3> QED  BY <3>1, <3>2, GoonKeeps
  <2>3. \A c \in Clients : \A k \in DOMAIN handler'[c].todo :
          WaitsThen(c, handler'[c].todo[k].stage, handler'[c].todo[k].after)
    BY <1>1 DEF TodoWaits, WaitsFor, WaitsThen
  <2> QED  BY <2>1, <2>2, <2>3 DEF StagesSay, WaitsFor, WaitsThen
<1>4. InputsSay'
  <2>1. ASSUME NEW i \in ran', Staged(i)' PROVE i \in inputs'
    <3>1. i \in Ids
      BY DEF SubmissionsTypeOK
    <3>2. rows[i].by \in Clients
      BY <3>1, RowsAre, RowIs DEF SubmissionsTypeOK
    <3>3. Staged(i)
      BY <1>1, <2>1, <3>1, <3>2 DEF Staged, Goon
    <3> QED  BY <3>1, <3>3 DEF InputsSay
  <2> QED  BY <2>1 DEF InputsSay
<1>5. \A c \in Clients : Says(c)'
  BY <1>1
<1> QED  BY <1>2, <1>3, <1>4, <1>5

-----------------------------------------------------------------------------
(* What becomes of the jobs *)

LEMMA JobStep ==
  \* A step of the jobs alone.
  ASSUME HandedInv, Goon, Same, cmd' = cmd, handler' = handler, inputs' = inputs, over' = over,
         breaks' \in 0..MaxBreaks, ran' \subseteq Ids,
         \A i \in ran' \ ran : rows[i].state = "RUNNING" /\ (Staged(i) => i \in inputs),
         \A i \in Ids : rows'[i].held = rows[i].held
  PROVE  HandedInv'
<1>1. SubmissionsTypeOK /\ LimitSays /\ LinksSay
  BY DEF HandedInv
<1>2. rows \in Seq(Row) /\ (\A i \in Ids : rows[i].array \in Ids \cup {NoJob} /\ rows[i].after \subseteq Ids)
  BY <1>1 DEF SubmissionsTypeOK
<1>3. /\ Cardinality(Queued') \in Nat /\ Cardinality(Queued') <= Cardinality(Queued)
      /\ LinksSay' /\ \A i \in Ids' : rows'[i].array \in Ids' \cup {NoJob}
  BY <1>1, <1>2, SameKeeps
<1>4. LimitSays'
  BY <1>1, <1>3, LimitStays DEF CountedIn
<1>5. \A c \in Clients : Spares(c)
  BY <1>1, <1>2, SameSpares DEF RowsOf
<1>6. Ids' = Ids /\ \A i \in Ids' : rows'[i].after \subseteq Ids'
  BY <1>2 DEF Goon, Same
<1>7. inputs' \cup ran' \subseteq Ids' /\ cmd' \in [Clients -> Command] /\ handler' \in [Clients -> Request]
      /\ over' \in BOOLEAN
  BY <1>1, <1>6 DEF SubmissionsTypeOK
<1> QED  BY <1>3, <1>4, <1>5, <1>6, <1>7, StepKeeps

LEMMA StateWritten ==
  \* A row's state is updated.
  ASSUME rows \in Seq(Row), NEW i \in Ids, NEW s \in States, rows' = [rows EXCEPT ![i].state = s]
  PROVE  /\ rows' \in Seq(Row) /\ Ids' = Ids /\ rows'[i].state = s
         /\ \A j \in Ids : /\ rows'[j].by = rows[j].by /\ rows'[j].stage = rows[j].stage
                           /\ rows'[j].array = rows[j].array /\ rows'[j].after = rows[j].after
                           /\ rows'[j].held = rows[j].held
                           /\ j # i => rows'[j].state = rows[j].state
<1> DEFINE r == [rows[i] EXCEPT !.state = s]
<1>1. rows[i] \in Row
  BY RowsAre
<1>2. /\ r \in Row /\ r.by = rows[i].by /\ r.stage = rows[i].stage /\ r.array = rows[i].array
      /\ r.after = rows[i].after /\ r.held = rows[i].held /\ r.state = s
  BY <1>1 DEF Row
<1>3. rows' = [rows EXCEPT ![i] = r]
  OBVIOUS
<1> HIDE DEF r
<1>4. rows' \in Seq(Row) /\ Ids' = Ids /\ rows'[i] = r /\ \A j \in Ids : j # i => rows'[j] = rows[j]
  BY <1>2, <1>3, RowSet
<1> QED  BY <1>2, <1>4

LEMMA JobsAre ==
  \* What the steps of the jobs start from.
  ASSUME HandedInv
  PROVE  /\ SubmissionsTypeOK /\ rows \in Seq(Row) /\ after \in Graphs /\ breaks \in 0..MaxBreaks /\ ran \subseteq Ids
         /\ \A i \in Ids : rows[i].array \in Ids \cup {NoJob} /\ rows[i].after \subseteq Ids
BY DEF HandedInv, SubmissionsTypeOK

LEMMA StateGoes ==
  \* A queued job starts, or ends.
  ASSUME rows \in Seq(Row), NEW i \in Ids, NEW s \in States \ {"PENDING"},
         rows' = [rows EXCEPT ![i].state = s], after' = after, rows[i].state \in {"PENDING", "RUNNING"},
         s = "RUNNING" => AllDone(i)
  PROVE  Goon /\ Same /\ \A j \in Ids : rows'[j].held = rows[j].held
<1>1. /\ rows' \in Seq(Row) /\ Ids' = Ids /\ rows'[i].state = s
      /\ \A j \in Ids : /\ rows'[j].by = rows[j].by /\ rows'[j].stage = rows[j].stage
                        /\ rows'[j].array = rows[j].array /\ rows'[j].after = rows[j].after
                        /\ rows'[j].held = rows[j].held
                        /\ j # i => rows'[j].state = rows[j].state
  <2>1. s \in States
    OBVIOUS
  <2> QED  BY <2>1, StateWritten
<1> QED  BY <1>1 DEF Goon, Same

LEMMA PlaceSays ==
  \* A job starts when its prerequisites are done.
  ASSUME HandedInv, NEW i \in Ids, Place(i)
  PROVE  HandedInv'
<1>1. rows \in Seq(Row) /\ breaks \in 0..MaxBreaks /\ ran \subseteq Ids
  BY JobsAre
<1>2. rows' = [rows EXCEPT ![i].state = "RUNNING"] /\ rows[i].state = "PENDING" /\ AllDone(i)
      /\ UNCHANGED <<cmd, handler, after, inputs, ran, over, breaks>>
  BY DEF Place
<1>3. Goon /\ Same /\ \A j \in Ids : rows'[j].held = rows[j].held
  <2>1. "RUNNING" \in States \ {"PENDING"}
    BY DEF States
  <2> QED  BY <1>1, <1>2, <2>1, StateGoes
<1> QED  BY <1>1, <1>2, <1>3, JobStep

LEMMA CancelDependentSays ==
  \* A job that can never start is cancelled.
  ASSUME HandedInv, NEW i \in Ids, CancelDependent(i)
  PROVE  HandedInv'
<1>1. rows \in Seq(Row) /\ breaks \in 0..MaxBreaks /\ ran \subseteq Ids
  BY JobsAre
<1>2. rows' = [rows EXCEPT ![i].state = "CANCELLED"] /\ rows[i].state = "PENDING"
      /\ UNCHANGED <<cmd, handler, after, inputs, ran, over, breaks>>
  BY DEF CancelDependent
<1>3. Goon /\ Same /\ \A j \in Ids : rows'[j].held = rows[j].held
  <2>1. "CANCELLED" \in States \ {"PENDING"} /\ "CANCELLED" # "RUNNING"
    BY DEF States
  <2> QED  BY <1>1, <1>2, <2>1, StateGoes
<1> QED  BY <1>1, <1>2, <1>3, JobStep

LEMMA LaunchSays ==
  \* A job runs, with its inputs.
  ASSUME HandedInv, NEW i \in Ids, Launch(i)
  PROVE  HandedInv'
<1>1. rows \in Seq(Row) /\ breaks \in 0..MaxBreaks /\ ran \subseteq Ids
  BY JobsAre
<1>2. PICK s \in {"COMPLETED", "FAILED"} : rows' = [rows EXCEPT ![i].state = s]
  BY DEF Launch
<1>3. rows[i].state = "RUNNING" /\ UNCHANGED <<cmd, handler, after, inputs, over, breaks>>
      /\ (ran' = ran \/ (ran' = ran \cup {i} /\ (Staged(i) => i \in inputs)))
  BY DEF Launch
<1>4. Goon /\ Same /\ \A j \in Ids : rows'[j].held = rows[j].held
  BY <1>1, <1>2, <1>3, StateGoes DEF States
<1>5. ran' \subseteq Ids /\ \A j \in ran' \ ran : rows[j].state = "RUNNING" /\ (Staged(j) => j \in inputs)
  BY <1>1, <1>3
<1> QED  BY <1>1, <1>3, <1>4, <1>5, JobStep

LEMMA MoreBreaks ==
  \* One more thing went wrong.
  ASSUME breaks \in 0..MaxBreaks, breaks < MaxBreaks, breaks' = breaks + 1
  PROVE  breaks' \in 0..MaxBreaks
BY NumbersAre

LEMMA scancelSays ==
  \* A job, or an array, is cancelled.
  ASSUME HandedInv, NEW i \in Ids, scancel(i)
  PROVE  HandedInv'
<1>1. rows \in Seq(Row) /\ breaks \in 0..MaxBreaks /\ ran \subseteq Ids
  BY JobsAre
<1> DEFINE these == IF ArrayTasks(i) = {} THEN {i} ELSE ArrayTasks(i)
           hit == these \cap Queued
<1>2. /\ rows' = [j \in Ids |-> IF j \in hit THEN [rows[j] EXCEPT !.state = "CANCELLED"] ELSE rows[j]]
      /\ UNCHANGED <<cmd, handler, after, inputs, ran, over>>
      /\ breaks < MaxBreaks /\ breaks' = breaks + 1
  BY DEF scancel
<1>3. hit \subseteq Queued
  OBVIOUS
<1> HIDE DEF hit
<1>4. ASSUME NEW j \in Ids
      PROVE  /\ rows'[j] \in Row /\ rows'[j].by = rows[j].by /\ rows'[j].stage = rows[j].stage
             /\ rows'[j].array = rows[j].array /\ rows'[j].after = rows[j].after /\ rows'[j].held = rows[j].held
             /\ rows'[j].state = IF j \in hit THEN "CANCELLED" ELSE rows[j].state
  <2>1. rows[j] \in Row
    BY <1>1, RowsAre
  <2> DEFINE r == [rows[j] EXCEPT !.state = "CANCELLED"]
  <2>2. /\ r \in Row /\ r.by = rows[j].by /\ r.stage = rows[j].stage /\ r.array = rows[j].array
        /\ r.after = rows[j].after /\ r.held = rows[j].held /\ r.state = "CANCELLED"
    BY <2>1 DEF Row, States
  <2>3. rows'[j] = IF j \in hit THEN r ELSE rows[j]
    BY <1>2
  <2> HIDE DEF r
  <2> QED  BY <2>1, <2>2, <2>3
<1>5. rows' \in Seq(Row) /\ Ids' = Ids
  <2>1. Len(rows) \in Nat /\ Ids = 1..Len(rows)
    BY <1>1, RowsAre
  <2>2. DOMAIN rows' = Ids /\ rows' \in [1..Len(rows) -> Row]
    BY <1>2, <1>4, <2>1
  <2>3. rows' \in Seq(Row)
    BY <2>1, <2>2, IsASeq
  <2> QED  BY <2>2, <2>3 DEF Ids
<1>6. Goon /\ Same
  <2>1. \A j \in hit : rows[j].state \in {"PENDING", "RUNNING"}
    BY <1>3 DEF Queued
  <2> QED  BY <1>2, <1>4, <1>5, <2>1 DEF Goon, Same
<1>7. breaks' \in 0..MaxBreaks
  BY <1>1, <1>2, MoreBreaks
<1> QED  BY <1>1, <1>2, <1>4, <1>6, <1>7, JobStep

-----------------------------------------------------------------------------
(* The handler *)

\* How a command goes on after an answer.
Outcome(c, said, id) ==
  /\ cmd'[c].kind = cmd[c].kind
  /\ \/ cmd'[c] = cmd[c]
     \/ /\ said # "submitted" /\ cmd'[c].step = "over" /\ cmd'[c].said = said
        /\ cmd'[c].id = cmd[c].id /\ cmd'[c].ids = cmd[c].ids
     \/ /\ said = "submitted" /\ cmd[c].kind = "staged" /\ cmd'[c].step = "upload" /\ cmd'[c].said = cmd[c].said
        /\ cmd'[c].id = id /\ cmd'[c].ids = cmd[c].ids
     \/ /\ said = "submitted" /\ cmd[c].kind = "pipeline" /\ cmd'[c].step = "ready" /\ cmd'[c].said = cmd[c].said
        /\ cmd'[c].id = cmd[c].id /\ cmd'[c].ids = Append(cmd[c].ids, id)
     \/ /\ said = "submitted" /\ cmd[c].kind # "staged" /\ cmd'[c].step = "over" /\ cmd'[c].said = said
        /\ cmd'[c].id = id /\ cmd'[c].ids = Append(cmd[c].ids, id)

LEMMA CommandSet ==
  \* One command goes on.
  ASSUME SubmissionsTypeOK, NEW c \in Clients, NEW r \in Command, cmd' = [cmd EXCEPT ![c] = r]
  PROVE  /\ cmd' \in [Clients -> Command] /\ cmd'[c] = r
         /\ \A d \in Clients : d # c => cmd'[d] = cmd[d]
<1>1. cmd \in [Clients -> Command]
  BY DEF SubmissionsTypeOK
<1> QED  BY <1>1

LEMMA RequestSet ==
  \* One request goes on.
  ASSUME SubmissionsTypeOK, NEW c \in Clients, NEW r \in Request, handler' = [handler EXCEPT ![c] = r]
  PROVE  /\ handler' \in [Clients -> Request] /\ handler'[c] = r
         /\ \A d \in Clients : d # c => handler'[d] = handler[d]
<1>1. handler \in [Clients -> Request]
  BY DEF SubmissionsTypeOK
<1> QED  BY <1>1

LEMMA AnsweredSets ==
  \* The request is over, and the client goes on if it is still there.
  ASSUME SubmissionsTypeOK, NEW c \in Clients, NEW said \in {"submitted", "refused"}, NEW id \in Nat,
         Answered(c, said, id)
  PROVE  /\ handler' \in [Clients -> Request] /\ cmd' \in [Clients -> Command]
         /\ handler'[c] = NoRequest
         /\ \A d \in Clients : d # c => handler'[d] = handler[d] /\ cmd'[d] = cmd[d]
         /\ Outcome(c, said, id)
<1>1. /\ handler' \in [Clients -> Request] /\ handler'[c] = NoRequest
      /\ \A d \in Clients : d # c => handler'[d] = handler[d]
  <2>1. handler' = [handler EXCEPT ![c] = NoRequest]
    BY DEF Answered
  <2> QED  BY <2>1, NothingAsked, RequestSet
<1>2. cmd[c] \in Command /\ cmd[c].ids \in Seq(Nat) /\ Append(cmd[c].ids, id) \in Seq(Nat)
  <2>1. cmd[c] \in Command /\ cmd[c].ids \in Seq(Nat)
    BY CommandIs
  <2> QED  BY <2>1
<1> DEFINE more == Append(cmd[c].ids, id)
           told == [cmd[c] EXCEPT !.step = "over", !.said = said]
           upload == [cmd[c] EXCEPT !.step = "upload", !.id = id]
           again == [cmd[c] EXCEPT !.step = "ready", !.ids = more]
           over1 == [cmd[c] EXCEPT !.step = "over", !.said = said, !.id = id, !.ids = more]
<1>3. CASE ~cmd[c].alive
  <2>1. cmd' = cmd
    BY <1>3 DEF Answered
  <2> QED  BY <1>1, <2>1 DEF Outcome, SubmissionsTypeOK
<1>4. CASE cmd[c].alive /\ said # "submitted"
  <2>1. cmd' = [cmd EXCEPT ![c] = told]
    BY <1>4 DEF Answered
  <2>2. told \in Command /\ told.kind = cmd[c].kind /\ told.step = "over" /\ told.said = said
        /\ told.id = cmd[c].id /\ told.ids = cmd[c].ids
    BY <1>2 DEF Command
  <2> HIDE DEF told
  <2>3. cmd' \in [Clients -> Command] /\ cmd'[c] = told /\ \A d \in Clients : d # c => cmd'[d] = cmd[d]
    BY <2>1, <2>2, CommandSet
  <2> QED  BY <1>1, <1>4, <2>2, <2>3 DEF Outcome
<1>5. CASE cmd[c].alive /\ said = "submitted" /\ cmd[c].kind = "staged"
  <2>1. cmd' = [cmd EXCEPT ![c] = upload]
    BY <1>5 DEF Answered
  <2>2. upload \in Command /\ upload.kind = cmd[c].kind /\ upload.step = "upload" /\ upload.said = cmd[c].said
        /\ upload.id = id /\ upload.ids = cmd[c].ids
    BY <1>2 DEF Command
  <2> HIDE DEF upload
  <2>3. cmd' \in [Clients -> Command] /\ cmd'[c] = upload /\ \A d \in Clients : d # c => cmd'[d] = cmd[d]
    BY <2>1, <2>2, CommandSet
  <2> QED  BY <1>1, <1>5, <2>2, <2>3 DEF Outcome
<1>6. CASE cmd[c].alive /\ said = "submitted" /\ cmd[c].kind = "pipeline" /\ Len(cmd[c].ids) + 1 < Len(StageNames)
  <2>1. cmd' = [cmd EXCEPT ![c] = again]
    BY <1>6 DEF Answered
  <2>2. again \in Command /\ again.kind = cmd[c].kind /\ again.step = "ready" /\ again.said = cmd[c].said
        /\ again.id = cmd[c].id /\ again.ids = Append(cmd[c].ids, id)
    BY <1>2 DEF Command
  <2> HIDE DEF again
  <2>3. cmd' \in [Clients -> Command] /\ cmd'[c] = again /\ \A d \in Clients : d # c => cmd'[d] = cmd[d]
    BY <2>1, <2>2, CommandSet
  <2> QED  BY <1>1, <1>6, <2>2, <2>3 DEF Outcome
<1>7. CASE /\ cmd[c].alive /\ said = "submitted" /\ cmd[c].kind # "staged"
           /\ ~(cmd[c].kind = "pipeline" /\ Len(cmd[c].ids) + 1 < Len(StageNames))
  <2>1. cmd' = [cmd EXCEPT ![c] = over1]
    BY <1>7 DEF Answered
  <2>2. over1 \in Command /\ over1.kind = cmd[c].kind /\ over1.step = "over" /\ over1.said = said
        /\ over1.id = id /\ over1.ids = Append(cmd[c].ids, id)
    BY <1>2 DEF Command
  <2> HIDE DEF over1
  <2>3. cmd' \in [Clients -> Command] /\ cmd'[c] = over1 /\ \A d \in Clients : d # c => cmd'[d] = cmd[d]
    BY <2>1, <2>2, CommandSet
  <2> QED  BY <1>1, <1>7, <2>2, <2>3 DEF Outcome
<1> QED  BY <1>3, <1>4, <1>5, <1>6, <1>7

LEMMA AppendedIn ==
  \* One more number.
  ASSUME NEW s \in Seq(Nat), NEW i \in Nat
  PROVE  /\ Append(s, i) \in Seq(Nat) /\ DOMAIN s = 1..Len(s) /\ Len(s) \in Nat
         /\ DOMAIN Append(s, i) = 1..(Len(s) + 1)
         /\ Append(s, i)[Len(s) + 1] = i /\ \A k \in 1..Len(s) : Append(s, i)[k] = s[k]
         /\ Range(Append(s, i)) = Range(s) \cup {i}
         /\ \A k \in 1..(Len(s) + 1) : k \in 1..Len(s) \/ k = Len(s) + 1
<1>1. /\ Append(s, i) \in Seq(Nat) /\ DOMAIN s = 1..Len(s) /\ Len(s) \in Nat
      /\ Append(s, i)[Len(s) + 1] = i /\ \A k \in 1..Len(s) : Append(s, i)[k] = s[k]
      /\ DOMAIN Append(s, i) = 1..(Len(s) + 1)
  OBVIOUS
<1>2. \A k \in 1..(Len(s) + 1) : k \in 1..Len(s) \/ k = Len(s) + 1
  BY <1>1
<1>3. 1..(Len(s) + 1) = 1..Len(s) \cup {Len(s) + 1}
  BY <1>1
<1>4. Range(Append(s, i)) = Range(s) \cup {i}
  BY <1>1, <1>3 DEF Range
<1> QED  BY <1>1, <1>2, <1>4

LEMMA ClientStep ==
  \* A step about one command.
  ASSUME HandedInv, NEW c \in Clients, Goon, inputs \subseteq inputs', inputs' \subseteq Ids', ran' = ran,
         cmd' \in [Clients -> Command], handler' \in [Clients -> Request],
         over' \in BOOLEAN, breaks' \in 0..MaxBreaks,
         \A i \in Ids' : rows'[i].array \in Ids' \cup {NoJob} /\ rows'[i].after \subseteq Ids',
         \A i \in Ids' \ Ids : rows'[i].state = "PENDING"
                               /\ WaitsThen(rows'[i].by, rows'[i].stage, rows'[i].after),
         LinksSay', LimitSays',
         \A d \in Clients : d # c => cmd'[d] = cmd[d] /\ handler'[d] = handler[d] /\ Spares(d),
         Renewed(c)
  PROVE  HandedInv'
<1>1. ran' \subseteq Ids' /\ ran' \ ran = {}
  BY JobsAre DEF Goon
<1>2. \A d \in Clients : (cmd'[d] = cmd[d] /\ handler'[d] = handler[d] /\ Spares(d)) \/ Renewed(d)
  OBVIOUS
<1>3. inputs' \cup ran' \subseteq Ids'
  BY <1>1
<1>4. \A i \in ran' \ ran : i \in Ids /\ rows[i].state = "RUNNING" /\ (Staged(i) => i \in inputs)
  BY <1>1
<1> QED  BY <1>2, <1>3, <1>4, StepKeeps

LEMMA QuietStep ==
  \* ... that does not touch the table.
  ASSUME HandedInv, NEW c \in Clients, rows' = rows, after' = after, inputs \subseteq inputs', inputs' \subseteq Ids,
         ran' = ran, cmd' \in [Clients -> Command], handler' \in [Clients -> Request],
         over' \in BOOLEAN, breaks' \in 0..MaxBreaks, LimitSays',
         \A d \in Clients : d # c => cmd'[d] = cmd[d] /\ handler'[d] = handler[d],
         Renewed(c)
  PROVE  HandedInv'
<1>1. rows \in Seq(Row) /\ \A i \in Ids : rows[i].array \in Ids \cup {NoJob} /\ rows[i].after \subseteq Ids
  BY JobsAre
<1>2. Goon /\ Same /\ \A d : Spares(d)
  BY <1>1, RowsStay
<1>3. Ids' = Ids
  BY DEF Ids
<1>4. LinksSay'
  BY <1>3 DEF HandedInv, LinksSay
<1> QED  BY <1>1, <1>2, <1>3, <1>4, ClientStep

LEMMA InvGives ==
  \* What the steps of a command start from.
  ASSUME HandedInv, NEW c \in Clients
  PROVE  /\ SubmissionsTypeOK /\ LimitSays /\ LinksSay /\ StagesSay /\ Says(c)
         /\ RequestSays(c) /\ ArraySays(c) /\ PipelineSays(c) /\ StagedSays(c)
         /\ rows \in Seq(Row) /\ after \in Graphs /\ inputs \subseteq Ids /\ ran \subseteq Ids
         /\ over \in BOOLEAN /\ breaks \in 0..MaxBreaks
         /\ cmd \in [Clients -> Command] /\ handler \in [Clients -> Request]
         /\ cmd[c].id \in Ids \cup {NoJob} /\ Range(cmd[c].ids) \subseteq Ids
         /\ handler[c].first \in Ids \cup {NoJob}
BY DEF HandedInv, Says, SubmissionsTypeOK

LEMMA SilentWaits ==
  \* Nothing is asked.
  ASSUME NEW c, handler'[c] = NoRequest
  PROVE  /\ TodoWaits(c)' /\ handler'[c].at = "none" /\ handler'[c].first = NoJob
         /\ \A k \in DOMAIN handler'[c].todo : handler'[c].todo[k].after \subseteq Ids'
BY NothingAsked DEF TodoWaits

LEMMA PipelineStays ==
  \* The numbers a pipeline was told.
  ASSUME SubmissionsTypeOK, Goon, NEW c \in Clients, PipelineSays(c), cmd'[c].kind = cmd[c].kind, cmd'[c].ids = cmd[c].ids,
         handler'[c].at = "none"
  PROVE  PipelineSays(c)'
<1>1. SUFFICES ASSUME cmd[c].kind = "pipeline" PROVE PipelineSays(c)'
  BY DEF PipelineSays
<1>2. Order(after)' = Order(after)
  BY DEF Goon
<1>3. ASSUME NEW k \in DOMAIN cmd[c].ids
      PROVE  /\ k <= Len(Order(after)) /\ rows'[cmd[c].ids[k]].by = c
             /\ rows'[cmd[c].ids[k]].stage = Order(after)[k]
  <2>1. cmd[c].ids[k] \in Ids
    BY CommandIs DEF SubmissionsTypeOK, Range
  <2> QED  BY <1>1, <2>1 DEF PipelineSays, Goon
<1> QED  BY <1>2, <1>3 DEF PipelineSays

LEMMA CancelledSays ==
  \* The request of a client that has gone is over.
  ASSUME HandedInv, NEW c \in Clients, Cancelled(c)
  PROVE  HandedInv'
<1> USE InvGives
<1>1. /\ handler[c].at # "none" /\ handler' = [handler EXCEPT ![c] = NoRequest]
      /\ rows' = rows /\ cmd' = cmd /\ after' = after /\ inputs' = inputs /\ ran' = ran /\ over' = over /\ breaks' = breaks
  BY DEF Cancelled, Submitting
<1>2. /\ handler' \in [Clients -> Request] /\ handler'[c] = NoRequest
      /\ \A d \in Clients : d # c => handler'[d] = handler[d]
  BY <1>1, NothingAsked, RequestSet
<1>3. TodoWaits(c)' /\ handler'[c].at = "none" /\ handler'[c].first = NoJob
      /\ \A k \in DOMAIN handler'[c].todo : handler'[c].todo[k].after \subseteq Ids'
  BY <1>2, SilentWaits
<1>4. LimitSays'
  <2>1. Cardinality(Queued') \in Nat /\ Cardinality(Queued') <= Cardinality(Queued)
    BY <1>1, QueuedAre DEF Queued, Ids
  <2> QED  BY <1>1, <1>2, <1>3, <2>1, LimitStays DEF CountedIn
<1>5. Ids' = Ids /\ RowsOf(c)' = RowsOf(c)
  BY <1>1 DEF Ids, RowsOf
<1>6. cmd[c].step = "submit"
  BY <1>1 DEF RequestSays
<1>7. Named(c)'
  BY <1>1, <1>3, <1>5 DEF Named
<1>8. RequestSays(c)'
  BY <1>1, <1>3 DEF RequestSays
<1>9. ArraySays(c)'
  BY <1>1, <1>3, <1>5, <1>6 DEF ArraySays, RequestSays
<1>10. PipelineSays(c)'
  BY <1>1, <1>3 DEF PipelineSays
<1>11. StagedSays(c)'
  BY <1>1, <1>3, <1>5, <1>6 DEF StagedSays
<1> QED  BY <1>1, <1>2, <1>3, <1>4, <1>7, <1>8, <1>9, <1>10, <1>11, QuietStep DEF Renewed, Says

LEMMA CountQueuedSays ==
  \* A submission is counted against the limit.
  ASSUME HandedInv, NEW c \in Clients, CountQueued(c)
  PROVE  HandedInv'
<1> USE InvGives
<1>1. /\ handler[c].at = "count" /\ cmd[c].step = "submit" /\ cmd[c].said = ""
      /\ rows' = rows /\ after' = after /\ inputs' = inputs /\ ran' = ran /\ breaks' = breaks
  BY DEF CountQueued, RequestSays
<1>2. Ids' = Ids /\ RowsOf(c)' = RowsOf(c) /\ Queued' = Queued
  BY <1>1 DEF Ids, RowsOf, Queued
<1>3. Cardinality(Queued) \in Nat /\ handler[c].todo \in Seq(Wanted) /\ Len(handler[c].todo) \in Nat
  BY QueuedAre, CommandIs, TodoIs
<1>4. CASE Answered(c, "refused", NoJob) /\ over' = over
  <2>1. /\ handler' \in [Clients -> Request] /\ cmd' \in [Clients -> Command]
        /\ handler'[c] = NoRequest
        /\ \A d \in Clients : d # c => handler'[d] = handler[d] /\ cmd'[d] = cmd[d]
        /\ Outcome(c, "refused", NoJob)
    BY <1>4, AnsweredSets DEF NoJob
  <2>2. TodoWaits(c)' /\ handler'[c].at = "none" /\ handler'[c].first = NoJob
        /\ \A k \in DOMAIN handler'[c].todo : handler'[c].todo[k].after \subseteq Ids'
    BY <2>1, SilentWaits
  <2>3. LimitSays'
    <3>1. Cardinality(Queued') \in Nat /\ Cardinality(Queued') <= Cardinality(Queued)
      BY <1>2, <1>3
    <3> QED  BY <1>4, <2>1, <2>2, <3>1, LimitStays DEF CountedIn
  <2>4. /\ cmd'[c].kind = cmd[c].kind /\ cmd'[c].id = cmd[c].id /\ cmd'[c].ids = cmd[c].ids
        /\ cmd'[c].step \in {"submit", "over"} /\ cmd'[c].said \in {"", "refused"}
        /\ (cmd'[c].said # "" => cmd'[c].step = "over")
    BY <1>1, <2>1 DEF Outcome
  <2>5. Named(c)'
    BY <1>2, <2>2, <2>4 DEF Named
  <2>6. RequestSays(c)'
    BY <2>2, <2>4 DEF RequestSays
  <2>7. ArraySays(c)'
    BY <2>2, <2>4 DEF ArraySays
  <2>8. PipelineSays(c)'
    BY <1>1, <2>2, <2>4, RowsStay, PipelineStays
  <2>9. StagedSays(c)'
    BY <1>1, <1>2, <2>2, <2>4 DEF StagedSays
  <2> QED  BY <1>1, <1>4, <2>1, <2>2, <2>3, <2>4, <2>5, <2>6, <2>7, <2>8, <2>9, QuietStep DEF Renewed, Says
<1>5. CASE /\ ~(Cardinality(Queued) + Len(handler[c].todo) > Limit)
           /\ Goes(c, "insert") /\ cmd' = cmd
           /\ over' = (over \/ \E d \in Clients \ {c} : handler[d].at \in {"insert", "link"})
  <2> DEFINE r == [handler[c] EXCEPT !.at = "insert"]
  <2>1. handler' = [handler EXCEPT ![c] = r]
    BY <1>5 DEF Goes
  <2>2. /\ r \in Request /\ r.at = "insert" /\ r.first = handler[c].first
        /\ r.held = handler[c].held /\ r.todo = handler[c].todo
    BY DEF Request
  <2> HIDE DEF r
  <2>3. /\ handler' \in [Clients -> Request] /\ handler'[c] = r
        /\ \A d \in Clients : d # c => handler'[d] = handler[d]
    BY <2>1, <2>2, RequestSet
  <2>4. LimitSays'
    <3>1. SUFFICES ASSUME ~over' PROVE LimitSays'
      BY DEF LimitSays
    <3>2. ~over /\ \A d \in Clients \ {c} : ~(handler[d].at \in {"insert", "link"})
      BY <1>5, <3>1
    <3>3. \A d \in Clients : handler'[d].at \in {"insert", "link"} => d = c
      BY <2>3, <3>2
    <3>4. Cardinality(Queued') <= Limit /\ Cardinality(Queued') + Len(handler'[c].todo) <= Limit
      <4>1. Cardinality(Queued) <= Limit
        BY <3>2 DEF LimitSays
      <4>2. Cardinality(Queued) + Len(handler[c].todo) <= Limit
        BY <1>3, <1>5, NumbersAre
      <4> QED  BY <1>2, <2>2, <2>3, <4>1, <4>2
    <3> QED  BY <3>3, <3>4 DEF LimitSays, CountedIn
  <2>5. TodoWaits(c)' /\ \A k \in DOMAIN handler'[c].todo : handler'[c].todo[k].after \subseteq Ids'
    <3>1. Goon
      BY <1>1, RowsStay
    <3> QED  BY <2>2, <2>3, <3>1, WaitsStay
  <2>6. Named(c)'
    BY <1>2, <1>5, <2>2, <2>3, <2>5 DEF Named
  <2>7. RequestSays(c)'
    BY <1>1, <1>5, <2>2, <2>3 DEF RequestSays
  <2>8. ArraySays(c)'
    <3>1. SUFFICES ASSUME cmd[c].kind = "array" PROVE ArraySays(c)'
      BY <1>5 DEF ArraySays
    <3>2. RowsOf(c) = {} /\ Len(handler[c].todo) = Tasks /\ handler[c].first = NoJob
      BY <1>1, <3>1 DEF ArraySays
    <3>3. Cardinality(RowsOf(c)') + Len(handler'[c].todo) = Tasks
      BY <1>2, <1>3, <2>2, <2>3, <3>2, FS_EmptySet
    <3> QED  BY <1>1, <1>2, <1>5, <2>2, <2>3, <3>2, <3>3 DEF ArraySays
  <2>9. PipelineSays(c)'
    BY <1>1, <1>5, <2>2, <2>3 DEF PipelineSays
  <2>10. StagedSays(c)'
    BY <1>1, <1>2, <1>5, <2>2, <2>3 DEF StagedSays
  <2>11. over' \in BOOLEAN
    BY <1>5
  <2> QED  BY <1>1, <1>5, <2>3, <2>4, <2>5, <2>6, <2>7, <2>8, <2>9, <2>10, <2>11, QuietStep DEF Renewed, Says
<1> QED  BY <1>4, <1>5 DEF CountQueued

LEMMA RowMarked ==
  \* A row gets another mark, or another number to stand for it.
  ASSUME rows \in Seq(Row), NEW i \in Ids, NEW kept \in BOOLEAN, NEW array \in Nat,
         rows' = [rows EXCEPT ![i] = [rows[i] EXCEPT !.held = kept, !.array = array]], after' = after
  PROVE  /\ Goon /\ Ids' = Ids /\ Queued' = Queued /\ \A c : RowsOf(c)' = RowsOf(c)
         /\ rows'[i].held = kept /\ rows'[i].array = array /\ rows'[i].state = rows[i].state
         /\ \A j \in Ids : j # i => rows'[j] = rows[j]
         /\ \A j \in Ids : rows'[j].by = rows[j].by /\ rows'[j].after = rows[j].after
<1> DEFINE r == [rows[i] EXCEPT !.held = kept, !.array = array]
<1>1. rows[i] \in Row
  BY RowsAre
<1>2. /\ r \in Row /\ r.by = rows[i].by /\ r.stage = rows[i].stage /\ r.array = array
      /\ r.after = rows[i].after /\ r.held = kept /\ r.state = rows[i].state
  BY <1>1 DEF Row
<1>3. rows' = [rows EXCEPT ![i] = r]
  OBVIOUS
<1> HIDE DEF r
<1>4. rows' \in Seq(Row) /\ Ids' = Ids /\ rows'[i] = r /\ \A j \in Ids : j # i => rows'[j] = rows[j]
  BY <1>2, <1>3, RowSet
<1>5. Goon
  BY <1>2, <1>4 DEF Goon
<1>6. \A j \in Ids : rows'[j].by = rows[j].by /\ rows'[j].state = rows[j].state /\ rows'[j].after = rows[j].after
  BY <1>2, <1>4
<1>7. Queued' = Queued
  BY <1>4, <1>6 DEF Queued
<1>8. ASSUME NEW c PROVE RowsOf(c)' = RowsOf(c)
  BY <1>4, <1>6 DEF RowsOf
<1> QED  BY <1>2, <1>4, <1>5, <1>6, <1>7, <1>8

LEMMA MarkSpares ==
  \* ... one that is not of this command.
  ASSUME rows \in Seq(Row), NEW i \in Ids, NEW d, i \notin RowsOf(d), RowsOf(d)' = RowsOf(d), after' = after,
         inputs' = inputs, \A j \in Ids : j # i => rows'[j] = rows[j]
  PROVE  Spares(d)
BY DEF Spares, RowsOf

LEMMA SetHeldSays ==
  \* A submitted job is held until its inputs are in place.
  ASSUME HandedInv, NEW c \in Clients, SetHeld(c)
  PROVE  HandedInv'
<1> USE InvGives
<1> DEFINE i == handler[c].first
           kept == rows[i].held \/ rows[i].state = "PENDING"
<1>1. /\ handler[c].at = "hold" /\ cmd[c].step = "submit" /\ cmd[c].said = "" /\ cmd[c].kind = "staged"
      /\ RowsOf(c) = {i}
      /\ after' = after /\ inputs' = inputs /\ ran' = ran /\ over' = over /\ breaks' = breaks
      /\ Answered(c, "submitted", i)
      /\ rows' = [rows EXCEPT ![i].held = kept]
  BY DEF SetHeld, RequestSays, StagedSays
<1>2. i \in Ids /\ i \in Nat
  BY <1>1, RowsAre DEF RowsOf
<1>3. rows[i].array \in Nat /\ rows[i] \in Row
  BY <1>2, RowsAre, RowIs
<1>4. rows' = [rows EXCEPT ![i] = [rows[i] EXCEPT !.held = kept, !.array = rows[i].array]]
  <2>1. [rows[i] EXCEPT !.held = kept] = [rows[i] EXCEPT !.held = kept, !.array = rows[i].array]
    BY <1>3 DEF Row
  <2> QED  BY <1>1, <2>1
<1>5. kept \in BOOLEAN
  <2>1. rows[i].held \in BOOLEAN
    BY <1>3, RowIs
  <2> QED  BY <2>1
<1> HIDE DEF kept
<1>6. /\ Goon /\ Ids' = Ids /\ Queued' = Queued /\ \A d : RowsOf(d)' = RowsOf(d)
      /\ rows'[i].array = rows[i].array
      /\ \A j \in Ids : j # i => rows'[j] = rows[j]
      /\ \A j \in Ids : rows'[j].by = rows[j].by /\ rows'[j].after = rows[j].after
  <2> HIDE DEF i
  <2> DEFINE array == rows[i].array
  <2>1. array \in Nat /\ rows' = [rows EXCEPT ![i] = [rows[i] EXCEPT !.held = kept, !.array = array]]
    BY <1>3, <1>4
  <2> HIDE DEF array
  <2>2. /\ Goon /\ Ids' = Ids /\ Queued' = Queued /\ \A d : RowsOf(d)' = RowsOf(d)
        /\ rows'[i].array = array
        /\ \A j \in Ids : j # i => rows'[j] = rows[j]
        /\ \A j \in Ids : rows'[j].by = rows[j].by /\ rows'[j].after = rows[j].after
    BY <1>1, <1>2, <1>5, <2>1, RowMarked, ZenonT(60)
  <2> QED  BY <2>2 DEF array
<1>7. \A j \in Ids : rows'[j].array = rows[j].array
  BY <1>6
<1>8. LinksSay' /\ \A j \in Ids' : rows'[j].array \in Ids' \cup {NoJob} /\ rows'[j].after \subseteq Ids'
  <2>1. \A j \in Ids : rows[j].array \in Ids \cup {NoJob} /\ rows[j].after \subseteq Ids
    BY JobsAre
  <2> QED  BY <1>6, <1>7, <2>1 DEF LinksSay
<1>9. /\ handler' \in [Clients -> Request] /\ cmd' \in [Clients -> Command]
      /\ handler'[c] = NoRequest
      /\ \A d \in Clients : d # c => handler'[d] = handler[d] /\ cmd'[d] = cmd[d]
      /\ Outcome(c, "submitted", i)
  BY <1>1, <1>2, AnsweredSets
<1>10. TodoWaits(c)' /\ handler'[c].at = "none" /\ handler'[c].first = NoJob
       /\ \A k \in DOMAIN handler'[c].todo : handler'[c].todo[k].after \subseteq Ids'
  BY <1>9, SilentWaits
<1>11. LimitSays'
  <2>1. Cardinality(Queued') \in Nat /\ Cardinality(Queued') <= Cardinality(Queued)
    BY <1>6, QueuedAre
  <2> QED  BY <1>1, <1>9, <1>10, <2>1, LimitStays DEF CountedIn
<1>12. ASSUME NEW d \in Clients, d # c PROVE Spares(d)
  <2>1. i \notin RowsOf(d)
    BY <1>1, <1>12 DEF RowsOf
  <2> QED  BY <1>1, <1>2, <1>6, <2>1, MarkSpares
<1>13. /\ cmd'[c].kind = "staged" /\ cmd'[c].ids = cmd[c].ids /\ cmd'[c].said = ""
       /\ \/ cmd'[c].step = "submit" /\ cmd'[c].id = cmd[c].id
          \/ cmd'[c].step = "upload" /\ cmd'[c].id = i
  <2> HIDE DEF i
  <2> QED  BY <1>1, <1>9 DEF Outcome
<1>14. Named(c)'
  BY <1>2, <1>6, <1>10, <1>13 DEF Named
<1>15. RequestSays(c)'
  BY <1>10, <1>13 DEF RequestSays
<1>16. ArraySays(c)' /\ PipelineSays(c)'
  BY <1>13 DEF ArraySays, PipelineSays
<1>17. StagedSays(c)'
  BY <1>1, <1>6, <1>10, <1>13 DEF StagedSays
<1>18. Renewed(c)
  BY <1>1, <1>10, <1>13, <1>14, <1>15, <1>16, <1>17 DEF Renewed, Says
<1>19. inputs' \subseteq Ids' /\ Ids' \ Ids = {}
  BY <1>1, <1>6
<1> QED  BY <1>1, <1>6, <1>8, <1>9, <1>11, <1>12, <1>18, <1>19, ClientStep

LEMMA SetArrayJobSays ==
  \* A task of an array carries the number of the first.
  ASSUME HandedInv, NEW c \in Clients, SetArrayJob(c)
  PROVE  HandedInv'
<1> USE InvGives
<1> DEFINE first == handler[c].first
<1>1. PICK i \in RowsOf(c) : /\ \A j \in RowsOf(c) : j <= i
                             /\ rows' = [rows EXCEPT ![i].array = first]
  BY DEF SetArrayJob
<1>2. /\ handler[c].at = "link" /\ cmd[c].step = "submit" /\ cmd[c].said = "" /\ cmd[c].kind = "array"
      /\ after' = after /\ inputs' = inputs /\ ran' = ran /\ over' = over /\ breaks' = breaks
  BY DEF SetArrayJob, RequestSays
<1>3. /\ Cardinality(RowsOf(c)) + Len(handler[c].todo) = Tasks
      /\ first \in RowsOf(c)
      /\ \A j \in RowsOf(c) : rows[j].array = first \/ \A k \in RowsOf(c) : k <= j
  BY <1>1, <1>2 DEF ArraySays
<1>4. i \in Ids /\ first \in Ids /\ first \in Nat /\ RowsOf(c) \subseteq Nat
  BY <1>1, <1>3, RowsAre DEF RowsOf
<1>5. rows[i].held \in BOOLEAN /\ rows[i] \in Row
  BY <1>4, RowsAre, RowIs
<1> HIDE DEF first
<1>6. rows' = [rows EXCEPT ![i] = [rows[i] EXCEPT !.held = rows[i].held, !.array = first]]
  <2>1. [rows[i] EXCEPT !.array = first] = [rows[i] EXCEPT !.held = rows[i].held, !.array = first]
    BY <1>5 DEF Row
  <2> QED  BY <1>1, <2>1
<1>7. /\ Goon /\ Ids' = Ids /\ Queued' = Queued /\ \A d : RowsOf(d)' = RowsOf(d)
      /\ rows'[i].array = first
      /\ \A j \in Ids : j # i => rows'[j] = rows[j]
      /\ \A j \in Ids : rows'[j].by = rows[j].by /\ rows'[j].after = rows[j].after
  BY <1>2, <1>4, <1>5, <1>6, RowMarked
<1>8. LinksSay' /\ \A j \in Ids' : rows'[j].array \in Ids' \cup {NoJob} /\ rows'[j].after \subseteq Ids'
  <2>1. \A j \in Ids : rows[j].array \in Ids \cup {NoJob} /\ rows[j].after \subseteq Ids
    BY JobsAre
  <2>2. \A j \in Ids' : rows'[j].array \in Ids' \cup {NoJob} /\ rows'[j].after \subseteq Ids'
    BY <1>4, <1>7, <2>1
  <2>3. rows[first].by = rows[i].by
    BY <1>1, <1>3 DEF RowsOf
  <2>4. ASSUME NEW j \in Ids, rows'[j].array # NoJob PROVE rows'[rows'[j].array].by = rows'[j].by
    <3>1. CASE j = i
      BY <1>4, <1>7, <2>3, <3>1
    <3>2. CASE j # i
      BY <1>7, <2>1, <2>4, <3>2 DEF LinksSay
    <3> QED  BY <3>1, <3>2
  <2> QED  BY <1>7, <2>2, <2>4 DEF LinksSay
<1>9. ASSUME NEW d \in Clients, d # c PROVE Spares(d)
  <2>1. i \notin RowsOf(d)
    BY <1>1, <1>9 DEF RowsOf
  <2> QED  BY <1>2, <1>4, <1>7, <2>1, MarkSpares
<1>10. \A j \in RowsOf(c) : rows'[j].array = first
  <2>1. ASSUME NEW j \in RowsOf(c), j # i PROVE rows[j].array = first
    <3>1. j \in Nat /\ i \in Nat /\ j <= i
      BY <1>1, <1>4
    <3>2. ~(i <= j)
      BY <2>1, <3>1
    <3> QED  BY <1>1, <1>3, <3>2
  <2>2. \A j \in RowsOf(c) : j \in Ids
    BY DEF RowsOf
  <2> QED  BY <1>7, <2>1, <2>2
<1>11. Cardinality(Queued') \in Nat /\ Cardinality(Queued') <= Cardinality(Queued)
  BY <1>7, QueuedAre
<1>12. inputs' \subseteq Ids' /\ Ids' \ Ids = {}
  BY <1>2, <1>7
<1>13. CASE handler[c].todo = <<>> /\ Answered(c, "submitted", handler[c].first)
  <2>1. /\ handler' \in [Clients -> Request] /\ cmd' \in [Clients -> Command]
        /\ handler'[c] = NoRequest
        /\ \A d \in Clients : d # c => handler'[d] = handler[d] /\ cmd'[d] = cmd[d]
        /\ Outcome(c, "submitted", first)
    BY <1>4, <1>13, AnsweredSets DEF first
  <2>2. TodoWaits(c)' /\ handler'[c].at = "none" /\ handler'[c].first = NoJob
        /\ \A k \in DOMAIN handler'[c].todo : handler'[c].todo[k].after \subseteq Ids'
    BY <2>1, SilentWaits
  <2>3. LimitSays'
    BY <1>2, <1>11, <2>1, <2>2, LimitStays DEF CountedIn
  <2>4. /\ cmd'[c].kind = "array"
        /\ \/ cmd'[c].step = "submit" /\ cmd'[c].id = cmd[c].id /\ cmd'[c].ids = cmd[c].ids /\ cmd'[c].said = ""
           \/ cmd'[c].step = "over" /\ cmd'[c].id = first /\ cmd'[c].ids = Append(cmd[c].ids, first)
              /\ cmd'[c].said = "submitted"
    BY <1>2, <2>1 DEF Outcome
  <2>5. Named(c)'
    <3>1. cmd[c].ids \in Seq(Nat)
      BY CommandIs
    <3>2. Range(cmd'[c].ids) \subseteq Ids'
      <4>1. Range(Append(cmd[c].ids, first)) = Range(cmd[c].ids) \cup {first}
        BY <1>4, <3>1, AppendedIn
      <4> QED  BY <1>4, <1>7, <2>4, <4>1
    <3> QED  BY <1>4, <1>7, <2>2, <2>4, <3>2 DEF Named
  <2>6. RequestSays(c)'
    BY <2>2, <2>4 DEF RequestSays
  <2>7. PipelineSays(c)' /\ StagedSays(c)'
    BY <2>4 DEF PipelineSays, StagedSays
  <2>8. ArraySays(c)'
    <3>1. Cardinality(RowsOf(c)) = Tasks
      <4>1. Cardinality(RowsOf(c)) \in Nat /\ Len(handler[c].todo) = 0
        <5>1. ASSUME NEW s, s = <<>> PROVE Len(s) = 0
          BY <5>1
        <5> QED  BY <1>13, <5>1, QueuedAre, Zenon
      <4> QED  BY <1>3, <4>1
    <3> QED  BY <1>3, <1>7, <1>10, <2>2, <2>4, <3>1 DEF ArraySays
  <2>9. Renewed(c)
    BY <1>2, <2>2, <2>4, <2>5, <2>6, <2>7, <2>8 DEF Renewed, Says
  <2> QED  BY <1>2, <1>7, <1>8, <1>9, <1>12, <2>1, <2>3, <2>9, ClientStep
<1>14. CASE handler[c].todo # <<>> /\ Goes(c, "insert") /\ cmd' = cmd
  <2> DEFINE r == [handler[c] EXCEPT !.at = "insert"]
  <2>1. handler' = [handler EXCEPT ![c] = r]
    BY <1>14 DEF Goes
  <2>2. handler[c] \in Request
    BY CommandIs
  <2>3. /\ r \in Request /\ r.at = "insert" /\ r.first = handler[c].first
        /\ r.held = handler[c].held /\ r.todo = handler[c].todo
    BY <2>2 DEF Request
  <2> HIDE DEF r
  <2>4. /\ handler' \in [Clients -> Request] /\ handler'[c] = r
        /\ \A d \in Clients : d # c => handler'[d] = handler[d]
    BY <2>1, <2>3, RequestSet
  <2>5. LimitSays'
    BY <1>2, <1>11, <2>3, <2>4, LimitStays DEF CountedIn
  <2>6. TodoWaits(c)' /\ \A k \in DOMAIN handler'[c].todo : handler'[c].todo[k].after \subseteq Ids'
    BY <1>7, <2>3, <2>4, WaitsStay
  <2>7. Named(c)'
    BY <1>7, <1>14, <2>3, <2>4, <2>6 DEF Named
  <2>8. RequestSays(c)'
    BY <1>2, <1>14, <2>3, <2>4 DEF RequestSays
  <2>9. PipelineSays(c)' /\ StagedSays(c)'
    BY <1>2, <1>14 DEF PipelineSays, StagedSays
  <2>10. ArraySays(c)'
    BY <1>2, <1>3, <1>7, <1>10, <1>14, <2>3, <2>4 DEF ArraySays, first
  <2>11. Renewed(c)
    BY <1>14, <2>6, <2>7, <2>8, <2>9, <2>10 DEF Renewed, Says
  <2> QED  BY <1>2, <1>7, <1>8, <1>9, <1>12, <1>14, <2>4, <2>5, <2>11, ClientStep
<1> QED  BY <1>13, <1>14 DEF SetArrayJob

LEMMA RowSubmitted ==
  \* A row is written for the first thing to do.
  ASSUME HandedInv, NEW c \in Clients, SubmitRow(c)
  PROVE  /\ handler[c].at = "insert" /\ handler[c].todo # <<>> /\ cmd[c].step = "submit" /\ cmd[c].said = ""
         /\ after' = after /\ inputs' = inputs /\ ran' = ran /\ over' = over /\ breaks' = breaks
         /\ rows' \in Seq(Row) /\ Goon
         /\ Len(rows) + 1 \in Nat \ Ids /\ Ids' = Ids \cup {Len(rows) + 1}
         /\ \A j \in Ids : rows'[j] = rows[j] /\ j < Len(rows) + 1
         /\ rows'[Len(rows) + 1].by = c /\ rows'[Len(rows) + 1].array = NoJob
         /\ rows'[Len(rows) + 1].stage = handler[c].todo[1].stage
         /\ rows'[Len(rows) + 1].after = handler[c].todo[1].after
         /\ rows'[Len(rows) + 1].state = "PENDING"
         /\ RowsOf(c)' = RowsOf(c) \cup {Len(rows) + 1}
         /\ \A d : d # c => RowsOf(d)' = RowsOf(d) /\ Spares(d)
         /\ Queued' = Queued \cup {Len(rows) + 1}
         /\ Cardinality(Queued') = Cardinality(Queued) + 1 /\ Cardinality(Queued) \in Nat
         /\ Cardinality(RowsOf(c)') = Cardinality(RowsOf(c)) + 1 /\ Cardinality(RowsOf(c)) \in Nat
<1> USE InvGives
<1> DEFINE i == Len(rows) + 1
           r == [by |-> c, stage |-> Head(handler[c].todo).stage, array |-> 0,
                 after |-> Head(handler[c].todo).after, held |-> FALSE, state |-> "PENDING"]
<1>1. /\ handler[c].at = "insert" /\ handler[c].todo # <<>> /\ cmd[c].step = "submit" /\ cmd[c].said = ""
      /\ after' = after /\ inputs' = inputs /\ ran' = ran /\ over' = over /\ breaks' = breaks
      /\ rows' = Append(rows, r)
  BY DEF SubmitRow, RequestSays
<1>2. /\ Head(handler[c].todo) = handler[c].todo[1]
      /\ handler[c].todo[1].stage \in Stages \cup {""} /\ handler[c].todo[1].after \subseteq Nat
  <2>1. handler[c].todo \in Seq(Wanted)
    BY CommandIs
  <2> QED  BY <1>1, <2>1, TodoIs
<1>3. /\ r \in Row /\ r.by = c /\ r.stage = handler[c].todo[1].stage /\ r.array = NoJob
      /\ r.after = handler[c].todo[1].after /\ r.state = "PENDING"
  BY <1>2 DEF Row, States, NoJob
<1> HIDE DEF r
<1>4. /\ rows' \in Seq(Row) /\ Ids' = Ids \cup {i} /\ rows'[i] = r /\ i \notin Ids /\ i \in Nat
      /\ \A j \in Ids : rows'[j] = rows[j] /\ j < i
  BY <1>1, <1>3, RowAdded
<1> HIDE DEF i
<1>5. RowsOf(c)' = RowsOf(c) \cup {i} /\ i \notin RowsOf(c)
  BY <1>3, <1>4 DEF RowsOf
<1>6. Queued' = Queued \cup {i} /\ i \notin Queued
  BY <1>3, <1>4 DEF Queued
<1>7. ASSUME NEW d, d # c PROVE RowsOf(d)' = RowsOf(d)
  BY <1>3, <1>4, <1>7 DEF RowsOf
<1>8. ASSUME NEW d, d # c PROVE Spares(d)
  BY <1>1, <1>4, <1>7, <1>8 DEF Spares, RowsOf
<1>9. Goon
  BY <1>1, <1>4 DEF Goon
<1>10. /\ Cardinality(Queued \cup {i}) = Cardinality(Queued) + 1 /\ Cardinality(Queued) \in Nat
       /\ Cardinality(RowsOf(c) \cup {i}) = Cardinality(RowsOf(c)) + 1 /\ Cardinality(RowsOf(c)) \in Nat
  BY <1>5, <1>6, QueuedAre, FS_AddElement
<1> QED  BY <1>1, <1>3, <1>4, <1>5, <1>6, <1>7, <1>8, <1>9, <1>10 DEF i

LEMMA OneLess ==
  \* One more in the table is one less to do.
  ASSUME NEW q \in Nat, NEW n \in Nat, n > 0, NEW m \in Nat
  PROVE  /\ q + n <= m => q + 1 <= m /\ (q + 1) + (n - 1) <= m
         /\ q + n = m => (q + 1) + (n - 1) = m
OBVIOUS

LEMMA SubmitRowSays ==
  \* The controller writes one row, and goes on with what is to do about it.
  ASSUME HandedInv, NEW c \in Clients, SubmitRow(c)
  PROVE  HandedInv'
<1> USE InvGives
<1> DEFINE i == Len(rows) + 1
<1>1. /\ handler[c].at = "insert" /\ handler[c].todo # <<>> /\ cmd[c].step = "submit" /\ cmd[c].said = ""
      /\ after' = after /\ inputs' = inputs /\ ran' = ran /\ over' = over /\ breaks' = breaks
      /\ rows' \in Seq(Row) /\ Goon
      /\ i \in Nat \ Ids /\ Ids' = Ids \cup {i}
      /\ \A j \in Ids : rows'[j] = rows[j] /\ j < i
      /\ rows'[i].by = c /\ rows'[i].array = NoJob
      /\ rows'[i].stage = handler[c].todo[1].stage
      /\ rows'[i].after = handler[c].todo[1].after
      /\ rows'[i].state = "PENDING"
      /\ RowsOf(c)' = RowsOf(c) \cup {i}
      /\ \A d : d # c => RowsOf(d)' = RowsOf(d) /\ Spares(d)
      /\ Queued' = Queued \cup {i}
      /\ Cardinality(Queued') = Cardinality(Queued) + 1 /\ Cardinality(Queued) \in Nat
      /\ Cardinality(RowsOf(c)') = Cardinality(RowsOf(c)) + 1 /\ Cardinality(RowsOf(c)) \in Nat
  BY RowSubmitted
<1>2. /\ handler[c].todo \in Seq(Wanted) /\ Len(handler[c].todo) \in Nat /\ Len(handler[c].todo) > 0
      /\ 1 \in DOMAIN handler[c].todo
      /\ Tail(handler[c].todo) \in Seq(Wanted) /\ Len(Tail(handler[c].todo)) = Len(handler[c].todo) - 1
  <2>1. handler[c].todo \in Seq(Wanted)
    BY CommandIs
  <2> QED  BY <1>1, <2>1, TodoIs
<1>3. WaitsThen(c, handler[c].todo[1].stage, handler[c].todo[1].after) /\ handler[c].todo[1].after \subseteq Ids
  <2>1. handler[c].todo[1].after \subseteq Ids
    BY <1>2 DEF SubmissionsTypeOK
  <2>2. WaitsFor(c, handler[c].todo[1].stage, handler[c].todo[1].after)
    BY <1>2 DEF StagesSay
  <2> QED  BY <1>1, <2>1, <2>2, GoonKeeps
<1> HIDE DEF i
<1>4. \A j \in Ids' \ Ids : rows'[j].state = "PENDING"
                            /\ WaitsThen(rows'[j].by, rows'[j].stage, rows'[j].after)
  BY <1>1, <1>3
<1>5. /\ LinksSay'
      /\ \A j \in Ids' : rows'[j].array \in Ids' \cup {NoJob} /\ rows'[j].after \subseteq Ids'
  <2>1. \A j \in Ids : rows[j].array \in Ids \cup {NoJob} /\ rows[j].after \subseteq Ids
    BY JobsAre
  <2>2. NoJob \notin Ids
    BY RowsAre
  <2>3. /\ Ids' = Ids \cup {i} /\ \A j \in Ids : rows'[j] = rows[j]
        /\ rows'[i].array = NoJob /\ rows'[i].after \subseteq Ids
    BY <1>1, <1>3
  <2>4. \A j \in Ids' : rows'[j].array \in Ids' \cup {NoJob} /\ rows'[j].after \subseteq Ids'
    BY <2>1, <2>3
  <2>5. ASSUME NEW j \in Ids', rows'[j].array # NoJob PROVE rows'[rows'[j].array].by = rows'[j].by
    <3>1. j \in Ids /\ rows[j].array \in Ids /\ rows[j].array # NoJob
      BY <2>1, <2>3, <2>5
    <3> QED  BY <2>3, <3>1 DEF LinksSay
  <2> QED  BY <2>4, <2>5 DEF LinksSay
<1>6. inputs' \subseteq Ids'
  BY <1>1
<1>7. ~over => /\ Cardinality(Queued) + Len(handler[c].todo) <= Limit
               /\ \A d \in Clients : CountedIn(d) => d = c
  BY <1>1 DEF LimitSays, CountedIn
<1>12. ~over => /\ Cardinality(Queued') <= Limit
                /\ Cardinality(Queued') + Len(Tail(handler[c].todo)) <= Limit
  <2>1. SUFFICES ASSUME ~over PROVE /\ Cardinality(Queued') <= Limit
                                    /\ Cardinality(Queued') + Len(Tail(handler[c].todo)) <= Limit
    OBVIOUS
  <2>2. /\ Cardinality(Queued) + 1 <= Limit
        /\ (Cardinality(Queued) + 1) + (Len(handler[c].todo) - 1) <= Limit
    <3>1. Cardinality(Queued) \in Nat
      BY <1>1
    <3> QED  BY <1>2, <1>7, <2>1, <3>1, NumbersAre, OneLess
  <2>3. Cardinality(Queued') = Cardinality(Queued) + 1
    BY <1>1
  <2> QED  BY <1>2, <2>2, <2>3
<1>13. handler[c] \in Request /\ i \in Nat
  BY <1>1, CommandIs
<1>8. CASE cmd[c].kind = "array"
  <2> DEFINE f == IF handler[c].first = NoJob THEN i ELSE handler[c].first
             r == [handler[c] EXCEPT !.at = "link", !.todo = Tail(handler[c].todo), !.first = f]
  <2>1. handler' = [handler EXCEPT ![c] = r] /\ cmd' = cmd
    BY <1>8 DEF SubmitRow, i
  <2>2. f \in Nat /\ f \in Ids'
    BY <1>1, RowsAre
  <2> HIDE DEF f
  <2>3. r \in Request /\ r.at = "link" /\ r.first = f /\ r.todo = Tail(handler[c].todo) /\ r.held = handler[c].held
    BY <1>2, <2>2, CommandIs DEF Request
  <2> HIDE DEF r
  <2>4. /\ handler' \in [Clients -> Request] /\ handler'[c] = r
        /\ \A d \in Clients : d # c => handler'[d] = handler[d]
    BY <2>1, <2>3, RequestSet
  <2>5. TodoWaits(c)' /\ \A k \in DOMAIN handler'[c].todo : handler'[c].todo[k].after \subseteq Ids'
    BY <1>1, <2>3, <2>4, TailWaits
  <2>6. LimitSays'
    <3>1. SUFFICES ASSUME ~over PROVE LimitSays'
      BY <1>1 DEF LimitSays
    <3>2. \A d \in Clients : handler'[d].at \in {"insert", "link"} => d = c
      BY <1>7, <2>4, <3>1 DEF CountedIn
    <3>3. Cardinality(Queued') + Len(handler'[c].todo) <= Limit /\ Cardinality(Queued') <= Limit
      BY <1>12, <2>3, <2>4, <3>1
    <3> QED  BY <3>2, <3>3 DEF LimitSays, CountedIn
  <2>7. Named(c)'
    BY <1>1, <2>1, <2>2, <2>3, <2>4, <2>5 DEF Named
  <2>8. RequestSays(c)'
    BY <1>1, <1>8, <2>1, <2>3, <2>4 DEF RequestSays
  <2>9. PipelineSays(c)' /\ StagedSays(c)'
    BY <1>8, <2>1 DEF PipelineSays, StagedSays
  <2>10. ArraySays(c)'
    <3>1. /\ Cardinality(RowsOf(c)) + Len(handler[c].todo) = Tasks
          /\ IF RowsOf(c) = {} THEN handler[c].first = NoJob ELSE handler[c].first \in RowsOf(c)
          /\ \A j \in RowsOf(c) : rows[j].array = handler[c].first
      BY <1>1, <1>8 DEF ArraySays
    <3>2. RowsOf(c) \subseteq Ids /\ NoJob \notin Ids /\ Ids \subseteq Nat
      BY QueuedAre, RowsAre
    <3>3. f \in RowsOf(c)' /\ \A j \in RowsOf(c) : rows'[j].array = f
      BY <1>1, <3>1, <3>2 DEF f
    <3>4. \A j \in RowsOf(c)' : rows'[j].array = f \/ \A k \in RowsOf(c)' : k <= j
      <4>1. \A k \in RowsOf(c)' : k <= i
        <5>1. RowsOf(c)' = RowsOf(c) \cup {i} /\ \A j \in Ids : j < i
          BY <1>1
        <5>2. \A j \in Ids : j <= i
          BY <1>13, <3>2, <5>1
        <5>3. i <= i
          BY <1>13
        <5> QED  BY <3>2, <5>1, <5>2, <5>3
      <4> QED  BY <1>1, <3>3, <4>1
    <3>5. Cardinality(RowsOf(c)') + Len(r.todo) = Tasks
      <4>1. Cardinality(RowsOf(c)') = Cardinality(RowsOf(c)) + 1 /\ Cardinality(RowsOf(c)) \in Nat
        BY <1>1
      <4>2. (Cardinality(RowsOf(c)) + 1) + (Len(handler[c].todo) - 1) = Tasks
        <5> DEFINE a == Cardinality(RowsOf(c))
                   b == Len(handler[c].todo)
        <5>1. a \in Nat /\ b \in Nat /\ b > 0 /\ a + b = Tasks
          BY <1>2, <3>1, <4>1
        <5> HIDE DEF a, b
        <5>2. (a + 1) + (b - 1) = Tasks
          BY <5>1
        <5> QED  BY <5>2 DEF a, b
      <4> QED  BY <1>2, <2>3, <4>1, <4>2
    <3> QED  BY <1>1, <2>1, <2>3, <2>4, <3>3, <3>4, <3>5 DEF ArraySays
  <2>11. Renewed(c)
    BY <2>1, <2>5, <2>7, <2>8, <2>9, <2>10 DEF Renewed, Says
  <2> QED  BY <1>1, <1>4, <1>5, <1>6, <2>1, <2>4, <2>6, <2>11, ClientStep
<1>9. CASE cmd[c].kind = "staged"
  <2> DEFINE r == [handler[c] EXCEPT !.at = "hold", !.first = i]
  <2>1. handler' = [handler EXCEPT ![c] = r] /\ cmd' = cmd
    BY <1>1, <1>9 DEF SubmitRow, i, RequestSays
  <2>2. r \in Request /\ r.at = "hold" /\ r.first = i /\ r.todo = handler[c].todo
    BY <1>13 DEF Request
  <2> HIDE DEF r
  <2>3. /\ handler' \in [Clients -> Request] /\ handler'[c] = r
        /\ \A d \in Clients : d # c => handler'[d] = handler[d]
    BY <2>1, <2>2, RequestSet
  <2>4. TodoWaits(c)' /\ \A k \in DOMAIN handler'[c].todo : handler'[c].todo[k].after \subseteq Ids'
    BY <1>1, <2>2, <2>3, WaitsStay, ZenonT(60)
  <2>5. LimitSays'
    <3>1. SUFFICES ASSUME ~over PROVE LimitSays'
      BY <1>1 DEF LimitSays
    <3>2. \A d \in Clients : handler'[d].at \notin {"insert", "link"}
      BY <1>7, <2>2, <2>3, <3>1 DEF CountedIn
    <3>3. Cardinality(Queued') <= Limit
      BY <1>12, <3>1
    <3> QED  BY <3>2, <3>3 DEF LimitSays, CountedIn
  <2>6. Named(c)'
    BY <1>1, <2>1, <2>2, <2>3, <2>4 DEF Named
  <2>7. RequestSays(c)'
    BY <1>1, <1>9, <2>1, <2>2, <2>3 DEF RequestSays
  <2>8. PipelineSays(c)' /\ ArraySays(c)'
    BY <1>9, <2>1 DEF PipelineSays, ArraySays
  <2>9. StagedSays(c)'
    BY <1>1, <1>9, <2>1, <2>2, <2>3 DEF StagedSays
  <2>10. Renewed(c)
    BY <2>1, <2>4, <2>6, <2>7, <2>8, <2>9 DEF Renewed, Says
  <2> QED  BY <1>1, <1>4, <1>5, <1>6, <2>1, <2>3, <2>5, <2>10, ClientStep
<1>10. CASE cmd[c].kind = "pipeline"
  <2>1. Answered(c, "submitted", i)
    BY <1>1, <1>10 DEF SubmitRow, i, RequestSays
  <2>2. /\ handler' \in [Clients -> Request] /\ cmd' \in [Clients -> Command]
        /\ handler'[c] = NoRequest
        /\ \A d \in Clients : d # c => handler'[d] = handler[d] /\ cmd'[d] = cmd[d]
        /\ Outcome(c, "submitted", i)
    BY <1>1, <2>1, AnsweredSets
  <2>3. TodoWaits(c)' /\ handler'[c].at = "none" /\ handler'[c].first = NoJob
        /\ \A k \in DOMAIN handler'[c].todo : handler'[c].todo[k].after \subseteq Ids'
    BY <2>2, SilentWaits
  <2>4. LimitSays'
    <3>1. SUFFICES ASSUME ~over PROVE LimitSays'
      BY <1>1 DEF LimitSays
    <3>2. \A d \in Clients : handler'[d].at \notin {"insert", "link"}
      BY <1>7, <2>2, <2>3, <3>1 DEF CountedIn
    <3>3. Cardinality(Queued') <= Limit
      BY <1>12, <3>1
    <3> QED  BY <3>2, <3>3 DEF LimitSays, CountedIn
  <2>5. /\ cmd'[c].kind = "pipeline"
        /\ cmd'[c].id = cmd[c].id \/ cmd'[c].id = i
        /\ cmd'[c].ids = cmd[c].ids \/ cmd'[c].ids = Append(cmd[c].ids, i)
        /\ cmd'[c].step \in {"submit", "ready", "over"} /\ (cmd'[c].said # "" => cmd'[c].step = "over")
    BY <1>1, <1>10, <2>2 DEF Outcome
  <2>6. cmd[c].ids \in Seq(Nat) /\ i \in Nat
    BY <1>1, CommandIs
  <2>7. Named(c)'
    <3>1. Range(cmd'[c].ids) \subseteq Ids'
      <4>1. Range(Append(cmd[c].ids, i)) = Range(cmd[c].ids) \cup {i}
        BY <2>6, AppendedIn
      <4> QED  BY <1>1, <2>5, <4>1
    <3> QED  BY <1>1, <2>3, <2>5, <3>1 DEF Named
  <2>8. RequestSays(c)'
    BY <2>3, <2>5 DEF RequestSays
  <2>9. ArraySays(c)' /\ StagedSays(c)'
    BY <2>5 DEF ArraySays, StagedSays
  <2>10. PipelineSays(c)'
    <3>1. Order(after)' = Order(after)
      BY <1>1
    <3>2. ASSUME NEW k \in DOMAIN cmd[c].ids
          PROVE  /\ k <= Len(Order(after)) /\ rows'[cmd[c].ids[k]].by = c
                 /\ rows'[cmd[c].ids[k]].stage = Order(after)[k]
      <4>1. cmd[c].ids[k] \in Ids
        BY <2>6 DEF SubmissionsTypeOK, Range
      <4>2. rows'[cmd[c].ids[k]] = rows[cmd[c].ids[k]]
        BY <1>1, <4>1
      <4> QED  BY <1>10, <4>2 DEF PipelineSays
    <3>3. /\ Len(cmd[c].ids) < Len(Order(after))
          /\ handler[c].todo[1].stage = Order(after)[Len(cmd[c].ids) + 1]
      BY <1>1, <1>10 DEF PipelineSays
    <3>4. Len(cmd[c].ids) \in Nat /\ Len(Order(after)) \in Nat
      <4>1. Order(after) \in Seq(Stages)
        BY OrderPlaces DEF InOrder
      <4> QED  BY <2>6, <4>1
    <3>5. CASE cmd'[c].ids = cmd[c].ids
      BY <2>3, <3>1, <3>2, <3>5 DEF PipelineSays
    <3>6. CASE cmd'[c].ids = Append(cmd[c].ids, i)
      <4> DEFINE s == Append(cmd[c].ids, i)
                 n == Len(cmd[c].ids)
      <4>1. DOMAIN s = 1..(n + 1) /\ s[n + 1] = i /\ DOMAIN cmd[c].ids = 1..n
            /\ (\A k \in 1..n : s[k] = cmd[c].ids[k]) /\ \A k \in 1..(n + 1) : k \in 1..n \/ k = n + 1
        BY <2>6, AppendedIn
      <4> HIDE DEF s
      <4>2. n + 1 <= Len(Order(after))
        BY <3>3, <3>4
      <4> HIDE DEF n
      <4>3. ASSUME NEW k \in DOMAIN s
            PROVE  k <= Len(Order(after)) /\ rows'[s[k]].by = c /\ rows'[s[k]].stage = Order(after)[k]
        <5>1. CASE k \in 1..n
          BY <3>2, <4>1, <5>1
        <5>2. CASE k = n + 1
          BY <1>1, <3>3, <4>1, <4>2, <5>2 DEF n
        <5> QED  BY <4>1, <5>1, <5>2
      <4> QED  BY <2>3, <3>1, <3>6, <4>3 DEF PipelineSays, s
    <3> QED  BY <2>5, <3>5, <3>6
  <2>11. Renewed(c)
    BY <1>10, <2>3, <2>5, <2>7, <2>8, <2>9, <2>10 DEF Renewed, Says
  <2> QED  BY <1>1, <1>4, <1>5, <1>6, <2>2, <2>4, <2>11, ClientStep
<1>11. cmd[c].kind \in {"array", "staged", "pipeline"}
  BY CommandIs
<1> QED  BY <1>8, <1>9, <1>10, <1>11

-----------------------------------------------------------------------------
(* The commands *)

LEMMA PostSays ==
  \* A command asks.
  ASSUME HandedInv, NEW c \in Clients, NEW t \in Seq(Wanted), NEW kept \in BOOLEAN, t # <<>>,
         Post(c, t, kept),
         \A k \in DOMAIN t : t[k].after \subseteq Ids /\ WaitsFor(c, t[k].stage, t[k].after),
         kept <=> cmd[c].kind = "staged", cmd[c].kind = "array" => Len(t) = Tasks,
         cmd[c].kind = "pipeline" => /\ Len(cmd[c].ids) < Len(Order(after))
                                     /\ t[1].stage = Order(after)[Len(cmd[c].ids) + 1]
  PROVE  HandedInv'
<1> USE InvGives
<1> DEFINE r == [at |-> "count", todo |-> t, first |-> NoJob, held |-> kept]
           q == [cmd[c] EXCEPT !.step = "submit"]
<1>1. /\ cmd[c].step = "ready" /\ cmd[c].said = "" /\ handler[c].at = "none"
      /\ rows' = rows /\ after' = after /\ inputs' = inputs /\ ran' = ran /\ over' = over /\ breaks' = breaks
      /\ cmd' = [cmd EXCEPT ![c] = q] /\ handler' = [handler EXCEPT ![c] = r]
  BY DEF Post, Submitting, RequestSays
<1>2. r \in Request /\ r.at = "count" /\ r.todo = t /\ r.first = NoJob /\ r.held = kept
  BY DEF Request, NoJob
<1>3. cmd[c] \in Command
  BY CommandIs
<1>4. /\ q \in Command /\ q.step = "submit" /\ q.kind = cmd[c].kind /\ q.id = cmd[c].id /\ q.ids = cmd[c].ids
      /\ q.said = cmd[c].said
  BY <1>3 DEF Command
<1> HIDE DEF r, q
<1>5. /\ handler' \in [Clients -> Request] /\ handler'[c] = r
      /\ cmd' \in [Clients -> Command] /\ cmd'[c] = q
      /\ \A d \in Clients : d # c => cmd'[d] = cmd[d] /\ handler'[d] = handler[d]
  BY <1>1, <1>2, <1>4, RequestSet, CommandSet
<1>6. Ids' = Ids /\ RowsOf(c)' = RowsOf(c) /\ Queued' = Queued
  BY <1>1 DEF Ids, RowsOf, Queued
<1>7. LimitSays'
  <2>1. Cardinality(Queued') \in Nat /\ Cardinality(Queued') <= Cardinality(Queued)
    BY <1>6, QueuedAre
  <2> QED  BY <1>1, <1>2, <1>5, <2>1, LimitStays DEF CountedIn
<1>8. TodoWaits(c)' /\ \A k \in DOMAIN handler'[c].todo : handler'[c].todo[k].after \subseteq Ids'
  <2>1. Goon
    BY <1>1, RowsStay
  <2>2. \A k \in DOMAIN t : WaitsThen(c, t[k].stage, t[k].after)
    BY <2>1, GoonKeeps
  <2>3. \A k \in DOMAIN handler'[c].todo :
          WaitsThen(c, handler'[c].todo[k].stage, handler'[c].todo[k].after)
    BY <1>2, <1>5, <2>2
  <2> QED  BY <1>2, <1>5, <1>6, <2>3 DEF TodoWaits, WaitsFor, WaitsThen
<1>9. Named(c)'
  BY <1>2, <1>4, <1>5, <1>6, <1>8 DEF Named
<1>10. RequestSays(c)'
  BY <1>1, <1>2, <1>4, <1>5 DEF RequestSays
<1>11. ArraySays(c)'
  BY <1>1, <1>2, <1>4, <1>5, <1>6 DEF ArraySays
<1>12. PipelineSays(c)'
  <2>1. SUFFICES ASSUME cmd[c].kind = "pipeline" PROVE PipelineSays(c)'
    BY <1>4, <1>5 DEF PipelineSays
  <2>2. Order(after)' = Order(after) /\ rows' = rows /\ cmd'[c].ids = cmd[c].ids /\ handler'[c].todo = t
    BY <1>1, <1>2, <1>4, <1>5
  <2>3. \A k \in DOMAIN cmd[c].ids :
          /\ k <= Len(Order(after)) /\ rows[cmd[c].ids[k]].by = c
          /\ rows[cmd[c].ids[k]].stage = Order(after)[k]
    BY <2>1 DEF PipelineSays
  <2> QED  BY <2>1, <2>2, <2>3 DEF PipelineSays
<1>13. StagedSays(c)'
  BY <1>1, <1>2, <1>4, <1>5, <1>6 DEF StagedSays
<1>14. Renewed(c)
  BY <1>4, <1>5, <1>8, <1>9, <1>10, <1>11, <1>12, <1>13 DEF Renewed, Says
<1> QED  BY <1>1, <1>5, <1>7, <1>14, QuietStep

LEMMA OneIs ==
  \* A sequence of one.
  ASSUME NEW S, NEW w \in S
  PROVE  <<w>> \in Seq(S) /\ <<w>> # <<>> /\ <<w>>[1] = w /\ \A k \in DOMAIN <<w>> : <<w>>[k] = w
<1>1. <<w>> \in Seq(S) /\ Len(<<w>>) = 1 /\ <<w>>[1] = w /\ DOMAIN <<w>> = {1}
  OBVIOUS
<1>2. <<w>> # <<>>
  BY <1>1, EmptySeq
<1> QED  BY <1>1, <1>2

LEMMA AllAre ==
  \* A sequence is a function on the first numbers.
  ASSUME NEW S, NEW n \in Nat, NEW t \in [1..n -> S]
  PROVE  t \in Seq(S) /\ Len(t) = n /\ DOMAIN t = 1..n
BY IsASeq, LenProperties

LEMMA sbatchSays ==
  \* sbatch asks for an array, or for a job to be held.
  ASSUME HandedInv, NEW c \in Clients, sbatch(c)
  PROVE  HandedInv'
<1>1. Plain \in Wanted /\ Plain.stage = "" /\ Plain.after = {}
  BY DEF Plain, Wanted
<1>2. \A t \in Seq(Wanted) : (\A k \in DOMAIN t : t[k] = Plain) =>
        \A k \in DOMAIN t : t[k].after \subseteq Ids /\ WaitsFor(c, t[k].stage, t[k].after)
  BY <1>1 DEF WaitsFor
<1>3. CASE cmd[c].kind = "array" /\ Post(c, [t \in 1..Tasks |-> Plain], FALSE)
  <2> DEFINE t == [i \in 1..Tasks |-> Plain]
  <2>1. t \in Seq(Wanted) /\ Len(t) = Tasks /\ \A k \in DOMAIN t : t[k] = Plain
    <3>1. t \in [1..Tasks -> Wanted] /\ \A k \in 1..Tasks : t[k] = Plain
      BY <1>1
    <3> HIDE DEF t
    <3> QED  BY <3>1, NumbersAre, AllAre
  <2>2. t # <<>>
    <3>1. Len(t) # 0
      BY <2>1, NumbersAre
    <3> HIDE DEF t
    <3> QED  BY <2>1, <3>1, EmptySeq
  <2>3. Post(c, t, FALSE)
    BY <1>3
  <2> HIDE DEF t
  <2>4. \A k \in DOMAIN t : t[k].after \subseteq Ids /\ WaitsFor(c, t[k].stage, t[k].after)
    BY <1>2, <2>1
  <2> QED  BY <1>3, <2>1, <2>2, <2>3, <2>4, PostSays
<1>4. CASE cmd[c].kind = "staged" /\ Post(c, <<Plain>>, TRUE)
  <2> DEFINE t == <<Plain>>
  <2>1. t \in Seq(Wanted) /\ t # <<>> /\ \A k \in DOMAIN t : t[k] = Plain
    BY <1>1, OneIs
  <2>2. Post(c, t, TRUE)
    BY <1>4
  <2> HIDE DEF t
  <2>3. \A k \in DOMAIN t : t[k].after \subseteq Ids /\ WaitsFor(c, t[k].stage, t[k].after)
    BY <1>2, <2>1
  <2> QED  BY <1>4, <2>1, <2>2, <2>3, PostSays
<1> QED  BY <1>3, <1>4 DEF sbatch

LEMMA runPipelineSays ==
  \* The next stage is asked for, after those it comes after.
  ASSUME HandedInv, NEW c \in Clients, runPipeline(c)
  PROVE  HandedInv'
<1> USE InvGives
<1> DEFINE order == Order(after)
           m == Len(cmd[c].ids)
           given == {order[k] : k \in 1..m}
           ids == [n \in given |-> cmd[c].ids[CHOOSE k \in 1..m : order[k] = n]]
           next == order[m + 1]
           w == [stage |-> next, after |-> DependencyExpr(after, next, ids)]
           t == <<w>>
<1>1. cmd[c].kind = "pipeline" /\ m < Len(order) /\ Post(c, t, FALSE)
  BY DEF runPipeline
<1>2. /\ order \in Seq(Stages) /\ Len(order) \in Nat
      /\ \A k \in 1..Len(order) : \A n \in after[order[k]] : \E j \in 1..(k - 1) : order[j] = n
  <2>1. after \in Graphs
    BY DEF SubmissionsTypeOK
  <2>2. InOrder(after, order)
    BY <2>1, OrderPlaces, Zenon
  <2> HIDE DEF order, given, ids, next, w, t
  <2>3. order \in Seq(Stages) /\ Len(order) \in Nat
    BY <2>2 DEF InOrder
  <2> QED  BY <2>2, <2>3, Zenon DEF InOrder
<1>3. cmd[c].ids \in Seq(Nat) /\ m \in Nat /\ DOMAIN cmd[c].ids = 1..m
  <2>1. cmd[c].ids \in Seq(Nat)
    BY CommandIs
  <2> QED  BY <2>1
<1>4. m + 1 \in 1..Len(order) /\ (m + 1) - 1 = m /\ next \in Stages
  BY <1>1, <1>2, <1>3
<1>5. ASSUME NEW k \in 1..m
      PROVE  cmd[c].ids[k] \in Ids /\ rows[cmd[c].ids[k]].by = c /\ rows[cmd[c].ids[k]].stage = order[k]
  <2>1. cmd[c].ids[k] \in Range(cmd[c].ids)
    BY <1>3 DEF Range
  <2> QED  BY <1>1, <1>3, <2>1 DEF PipelineSays
<1> HIDE DEF order, m
<1>6. ASSUME NEW n \in given PROVE ids[n] \in Ids /\ rows[ids[n]].by = c /\ rows[ids[n]].stage = n
  <2>1. \E k \in 1..m : order[k] = n
    OBVIOUS
  <2> DEFINE k == CHOOSE i \in 1..m : order[i] = n
  <2>2. k \in 1..m /\ order[k] = n
    BY <2>1
  <2>3. ids[n] = cmd[c].ids[k]
    OBVIOUS
  <2> HIDE DEF k, ids
  <2> QED  BY <1>5, <2>2, <2>3
<1>7. DOMAIN ids = given
  OBVIOUS
<1>8. \A n \in after[next] : n \in given
  BY <1>2, <1>4
<1> HIDE DEF ids, given
<1> DEFINE waits == DependencyExpr(after, next, ids)
<1>9. waits \subseteq Ids /\ \A n \in after[next] : ids[n] \in waits
  BY <1>6, <1>7, <1>8 DEF DependencyExpr
<1>10. WaitsFor(c, next, waits)
  BY <1>6, <1>8, <1>9 DEF WaitsFor
<1>11. w.stage = next /\ w.after = waits
  OBVIOUS
<1> HIDE DEF waits, next
<1>12. waits \in SUBSET Nat
  BY <1>9, RowsAre
<1>13. w \in Wanted
  BY <1>4, <1>11, <1>12 DEF Wanted, waits
<1> HIDE DEF w
<1>14. t \in Seq(Wanted) /\ t # <<>> /\ t[1] = w /\ \A k \in DOMAIN t : t[k] = w
  BY <1>13, OneIs
<1> HIDE DEF t
<1>15. \A k \in DOMAIN t : t[k].after \subseteq Ids /\ WaitsFor(c, t[k].stage, t[k].after)
  BY <1>9, <1>10, <1>11, <1>14
<1>16. Len(cmd[c].ids) < Len(Order(after)) /\ t[1].stage = Order(after)[Len(cmd[c].ids) + 1]
  BY <1>1, <1>11, <1>14 DEF next, order, m
<1> QED  BY <1>1, <1>14, <1>15, <1>16, PostSays

LEMMA StagedIs ==
  \* What is known of a command that is past its submission.
  ASSUME HandedInv, NEW c \in Clients, cmd[c].step \in {"upload", "saving", "release", "giveup"}
  PROVE  /\ cmd[c].kind = "staged" /\ handler[c].at = "none" /\ cmd[c].said = ""
         /\ RowsOf(c) = {cmd[c].id} /\ cmd[c].id \in Ids
<1> USE InvGives
<1>1. cmd[c].kind = "staged" /\ handler[c].at = "none" /\ cmd[c].said = ""
  BY CommandIs DEF RequestSays
<1>2. RowsOf(c) = {cmd[c].id}
  BY <1>1 DEF StagedSays
<1> QED  BY <1>1, <1>2 DEF RowsOf

LEMMA StagedGoesOn ==
  \* ... one step further.
  ASSUME HandedInv, NEW c \in Clients, cmd[c].step \in {"upload", "saving"},
         NEW s \in {"saving", "release", "giveup"}, cmd' = [cmd EXCEPT ![c].step = s],
         rows' = rows, handler' = handler, after' = after, ran' = ran, over' = over,
         breaks' \in 0..MaxBreaks, inputs \subseteq inputs', inputs' \subseteq Ids,
         s = "release" => cmd[c].id \in inputs'
  PROVE  HandedInv'
<1> USE InvGives
<1> DEFINE q == [cmd[c] EXCEPT !.step = s]
<1>1. /\ cmd[c].kind = "staged" /\ handler[c].at = "none" /\ cmd[c].said = ""
      /\ RowsOf(c) = {cmd[c].id} /\ cmd[c].id \in Ids
  BY StagedIs
<1>2. cmd[c] \in Command
  BY CommandIs
<1>3. q \in Command /\ q.step = s /\ q.kind = "staged" /\ q.id = cmd[c].id /\ q.ids = cmd[c].ids /\ q.said = ""
  BY <1>1, <1>2 DEF Command
<1>4. cmd' = [cmd EXCEPT ![c] = q]
  OBVIOUS
<1> HIDE DEF q
<1>5. cmd' \in [Clients -> Command] /\ cmd'[c] = q /\ \A d \in Clients : d # c => cmd'[d] = cmd[d]
  BY <1>3, <1>4, CommandSet
<1>6. Ids' = Ids /\ RowsOf(c)' = RowsOf(c) /\ Queued' = Queued
  BY DEF Ids, RowsOf, Queued
<1>7. LimitSays'
  <2>1. Cardinality(Queued') \in Nat /\ Cardinality(Queued') <= Cardinality(Queued)
    BY <1>6, QueuedAre
  <2> QED  BY <2>1, LimitStays DEF CountedIn
<1>8. TodoWaits(c)' /\ \A k \in DOMAIN handler'[c].todo : handler'[c].todo[k].after \subseteq Ids'
  BY RowsStay, WaitsStay
<1>9. Named(c)'
  BY <1>1, <1>3, <1>5, <1>6, <1>8 DEF Named
<1>10. RequestSays(c)'
  BY <1>1, <1>3, <1>5 DEF RequestSays
<1>11. ArraySays(c)' /\ PipelineSays(c)'
  BY <1>3, <1>5 DEF ArraySays, PipelineSays
<1>12. StagedSays(c)'
  BY <1>1, <1>3, <1>5, <1>6 DEF StagedSays
<1>13. Renewed(c)
  BY <1>1, <1>3, <1>5, <1>8, <1>9, <1>10, <1>11, <1>12 DEF Renewed, Says
<1>14. handler' \in [Clients -> Request] /\ over' \in BOOLEAN
  OBVIOUS
<1> QED  BY <1>5, <1>7, <1>13, <1>14, QuietStep

LEMMA uploadStageInSays ==
  \* The archive is offered.
  ASSUME HandedInv, NEW c \in Clients, uploadStageIn(c)
  PROVE  HandedInv'
<1> USE InvGives
<1> DEFINE s == IF rows[cmd[c].id].state = "PENDING" THEN "saving" ELSE "giveup"
<1>1. cmd[c].step = "upload" /\ cmd' = [cmd EXCEPT ![c].step = s]
      /\ UNCHANGED <<rows, handler, after, inputs, ran, over, breaks>>
  BY DEF uploadStageIn, Step
<1>2. s \in {"saving", "release", "giveup"} /\ s # "release"
  OBVIOUS
<1> HIDE DEF s
<1> QED  BY <1>1, <1>2, StagedGoesOn

LEMMA SaveStageSays ==
  \* The archive is in place.
  ASSUME HandedInv, NEW c \in Clients, SaveStage(c)
  PROVE  HandedInv'
<1> USE InvGives
<1>1. cmd[c].step = "saving" /\ cmd' = [cmd EXCEPT ![c].step = "release"] /\ inputs' = inputs \cup {cmd[c].id}
      /\ UNCHANGED <<rows, handler, after, ran, over, breaks>>
  BY DEF SaveStage, Step
<1>2. cmd[c].id \in Ids
  BY <1>1, StagedIs
<1> QED  BY <1>1, <1>2, StagedGoesOn

LEMMA UploadFailsSays ==
  \* The archive does not arrive.
  ASSUME HandedInv, NEW c \in Clients, UploadFails(c)
  PROVE  HandedInv'
<1> USE InvGives
<1>1. cmd[c].step = "saving" /\ cmd' = [cmd EXCEPT ![c].step = "giveup"] /\ breaks' \in 0..MaxBreaks
      /\ UNCHANGED <<rows, handler, after, inputs, ran, over>>
  BY MoreBreaks DEF UploadFails, Step
<1> QED  BY <1>1, StagedGoesOn

LEMMA StagedEnds ==
  \* The command is over and has said what became of the job.
  ASSUME HandedInv, NEW c \in Clients, cmd[c].step \in {"giveup", "release"},
         NEW said \in {"submitted", "refused", "held"},
         cmd' = [cmd EXCEPT ![c] = [cmd[c] EXCEPT !.step = "over", !.said = said]],
         handler' = handler, after' = after, inputs' = inputs, ran' = ran, over' = over, breaks' = breaks,
         Goon, Ids' = Ids, Cardinality(Queued') \in Nat, Cardinality(Queued') <= Cardinality(Queued),
         \A d : RowsOf(d)' = RowsOf(d), \A d \in Clients : d # c => Spares(d),
         \A j \in Ids : rows'[j].array = rows[j].array,
         said # "held" => (rows'[cmd[c].id].state = "PENDING" => ~rows'[cmd[c].id].held /\ cmd[c].id \in inputs)
  PROVE  HandedInv'
<1> USE InvGives
<1> DEFINE q == [cmd[c] EXCEPT !.step = "over", !.said = said]
<1>1. /\ cmd[c].kind = "staged" /\ handler[c].at = "none"
      /\ RowsOf(c) = {cmd[c].id} /\ cmd[c].id \in Ids
  BY StagedIs
<1>2. cmd[c] \in Command
  BY CommandIs
<1>3. q \in Command /\ q.step = "over" /\ q.kind = "staged" /\ q.id = cmd[c].id /\ q.ids = cmd[c].ids /\ q.said = said
  BY <1>1, <1>2 DEF Command
<1> HIDE DEF q
<1>4. cmd' \in [Clients -> Command] /\ cmd'[c] = q /\ \A d \in Clients : d # c => cmd'[d] = cmd[d]
  <2>1. cmd' = [cmd EXCEPT ![c] = q]
    BY DEF q
  <2> QED  BY <1>3, <2>1, CommandSet
<1>5. LimitSays'
  BY LimitStays DEF CountedIn
<1>6. LinksSay' /\ \A j \in Ids' : rows'[j].array \in Ids' \cup {NoJob} /\ rows'[j].after \subseteq Ids'
  <2>1. \A j \in Ids : rows[j].array \in Ids \cup {NoJob} /\ rows[j].after \subseteq Ids
    BY JobsAre
  <2>2. \A j \in Ids : rows'[j].by = rows[j].by /\ rows'[j].after = rows[j].after
    BY DEF Goon
  <2>3. \A j \in Ids' : rows'[j].array \in Ids' \cup {NoJob} /\ rows'[j].after \subseteq Ids'
    BY <2>1, <2>2
  <2> QED  BY <2>1, <2>2, <2>3 DEF LinksSay
<1>7. TodoWaits(c)' /\ \A k \in DOMAIN handler'[c].todo : handler'[c].todo[k].after \subseteq Ids'
  BY WaitsStay
<1>8. Named(c)'
  BY <1>1, <1>3, <1>4, <1>7 DEF Named
<1>9. RequestSays(c)'
  BY <1>1, <1>3, <1>4 DEF RequestSays
<1>10. ArraySays(c)' /\ PipelineSays(c)'
  BY <1>3, <1>4 DEF ArraySays, PipelineSays
<1>11. StagedSays(c)'
  BY <1>1, <1>3, <1>4 DEF StagedSays
<1>12. Renewed(c)
  BY <1>1, <1>3, <1>4, <1>7, <1>8, <1>9, <1>10, <1>11 DEF Renewed, Says
<1>13. handler' \in [Clients -> Request] /\ over' \in BOOLEAN /\ breaks' \in 0..MaxBreaks /\ inputs' \subseteq Ids'
       /\ Ids' \ Ids = {}
  BY SMTT(60)
<1> QED  BY <1>4, <1>5, <1>6, <1>12, <1>13, ClientStep

LEMMA giveUpSays ==
  \* Without its inputs the job is cancelled.
  ASSUME HandedInv, NEW c \in Clients, giveUp(c)
  PROVE  HandedInv'
<1> USE InvGives
<1> DEFINE i == cmd[c].id
           s == IF i \in Queued THEN "CANCELLED" ELSE rows[i].state
           said == IF i \in Queued THEN "refused" ELSE "held"
<1>1. /\ cmd[c].step = "giveup" /\ cmd' = [cmd EXCEPT ![c].step = "over", ![c].said = said]
      /\ rows' = [rows EXCEPT ![i].state = s]
      /\ UNCHANGED <<handler, after, inputs, ran, over, breaks>>
  BY DEF giveUp
<1>2. RowsOf(c) = {i} /\ i \in Ids
  BY <1>1, StagedIs
<1>3. rows[i].state \in States
  BY <1>2, RowsAre, RowIs
<1>4. s \in States /\ (s = rows[i].state \/ s = "CANCELLED") /\ said \in {"submitted", "refused", "held"}
  BY <1>3 DEF States
<1>5. cmd' = [cmd EXCEPT ![c] = [cmd[c] EXCEPT !.step = "over", !.said = said]]
  BY <1>1
<1>6. said # "held" => s = "CANCELLED"
  OBVIOUS
<1> HIDE DEF i, s, said
<1>7. /\ rows' \in Seq(Row) /\ Ids' = Ids /\ rows'[i].state = s
      /\ \A j \in Ids : /\ rows'[j].by = rows[j].by /\ rows'[j].stage = rows[j].stage
                        /\ rows'[j].array = rows[j].array /\ rows'[j].after = rows[j].after
                        /\ rows'[j].held = rows[j].held
                        /\ j # i => rows'[j].state = rows[j].state
  BY <1>1, <1>2, <1>4, StateWritten
<1>8. rows[i].state = "COMPLETED" => s = "COMPLETED"
  BY <1>2 DEF s, Queued
<1>9. Goon
  BY <1>1, <1>4, <1>7, <1>8 DEF Goon
<1>10. Same
  BY <1>4, <1>7 DEF Same
<1>11. \A j \in Ids : rows[j].array \in Ids \cup {NoJob}
  BY JobsAre
<1>12. /\ \A d : RowsOf(d)' = RowsOf(d)
       /\ Cardinality(Queued') \in Nat /\ Cardinality(Queued') <= Cardinality(Queued)
  BY <1>9, <1>10, <1>11, SameKeeps
<1>13. \A d : Spares(d)
  BY <1>1, <1>7, <1>9, <1>10, <1>11, SameSpares DEF RowsOf
<1>14. said # "held" => (rows'[i].state = "PENDING" => ~rows'[i].held /\ i \in inputs)
  BY <1>6, <1>7, SMTT(60)
<1> QED  BY <1>1, <1>4, <1>5, <1>7, <1>9, <1>12, <1>13, <1>14, StagedEnds DEF i

LEMMA ReleaseSays ==
  \* The job may start: its inputs are in place.
  ASSUME HandedInv, NEW c \in Clients, Release(c)
  PROVE  HandedInv'
<1> USE InvGives
<1> DEFINE i == cmd[c].id
           ok == rows[i].state = "PENDING"
           kept == rows[i].held /\ ~ok
           said == IF ok THEN "submitted" ELSE "held"
<1>1. /\ cmd[c].step = "release" /\ cmd' = [cmd EXCEPT ![c].step = "over", ![c].said = said]
      /\ rows' = [rows EXCEPT ![i].held = kept]
      /\ UNCHANGED <<handler, after, inputs, ran, over, breaks>>
  BY DEF Release
<1>2. RowsOf(c) = {i} /\ i \in Ids /\ i \in inputs
  BY <1>1, StagedIs DEF StagedSays
<1>3. rows[i].array \in Nat /\ rows[i] \in Row /\ rows[i].held \in BOOLEAN
  BY <1>2, RowsAre, RowIs
<1>4. rows' = [rows EXCEPT ![i] = [rows[i] EXCEPT !.held = kept, !.array = rows[i].array]]
  <2>1. [rows[i] EXCEPT !.held = kept] = [rows[i] EXCEPT !.held = kept, !.array = rows[i].array]
    BY <1>3 DEF Row
  <2> QED  BY <1>1, <2>1
<1>5. kept \in BOOLEAN /\ said \in {"submitted", "refused", "held"} /\ (said # "held" => ~kept)
  BY <1>3
<1>6. cmd' = [cmd EXCEPT ![c] = [cmd[c] EXCEPT !.step = "over", !.said = said]]
  BY <1>1
<1> HIDE DEF kept, said, i
<1>7. /\ Goon /\ Ids' = Ids /\ Queued' = Queued /\ \A d : RowsOf(d)' = RowsOf(d)
      /\ rows'[i].array = rows[i].array /\ rows'[i].held = kept
      /\ \A j \in Ids : j # i => rows'[j] = rows[j]
  <2> DEFINE array == rows[i].array
  <2>1. array \in Nat /\ rows' = [rows EXCEPT ![i] = [rows[i] EXCEPT !.held = kept, !.array = array]]
    BY <1>3, <1>4
  <2> HIDE DEF array
  <2>2. /\ Goon /\ Ids' = Ids /\ Queued' = Queued /\ \A d : RowsOf(d)' = RowsOf(d)
        /\ rows'[i].array = array /\ rows'[i].held = kept
        /\ \A j \in Ids : j # i => rows'[j] = rows[j]
    <3>1. kept \in BOOLEAN /\ after' = after /\ i \in Ids /\ rows \in Seq(Row)
      BY <1>1, <1>2, <1>5
    <3> QED  BY <2>1, <3>1, RowMarked
  <2> QED  BY <2>2 DEF array
<1>8. Cardinality(Queued') \in Nat /\ Cardinality(Queued') <= Cardinality(Queued)
  BY <1>7, QueuedAre
<1>9. ASSUME NEW d \in Clients, d # c PROVE Spares(d)
  <2>1. i \notin RowsOf(d)
    BY <1>2, <1>9 DEF RowsOf
  <2> QED  BY <1>1, <1>2, <1>7, <2>1, MarkSpares
<1>10. \A j \in Ids : rows'[j].array = rows[j].array
  BY <1>7
<1>11. said # "held" => (rows'[i].state = "PENDING" => ~rows'[i].held /\ i \in inputs)
  BY <1>2, <1>5, <1>7
<1> QED  BY <1>1, <1>5, <1>6, <1>7, <1>8, <1>9, <1>10, <1>11, StagedEnds DEF i

LEMMA LeftRenewed ==
  \* A client that goes away, or whose request is gone, leaves what it was told.
  ASSUME HandedInv, NEW c \in Clients, rows' = rows, after' = after, inputs' = inputs,
         cmd'[c].kind = cmd[c].kind, cmd'[c].step = cmd[c].step, cmd'[c].said = cmd[c].said,
         cmd'[c].id = cmd[c].id, cmd'[c].ids = cmd[c].ids,
         handler'[c] = handler[c] \/ handler'[c] = NoRequest
  PROVE  Renewed(c)
<1> USE InvGives
<1>1. Ids' = Ids /\ RowsOf(c)' = RowsOf(c) /\ Goon
  BY RowsStay DEF Ids, RowsOf
<1>2. TodoWaits(c)' /\ \A k \in DOMAIN handler'[c].todo : handler'[c].todo[k].after \subseteq Ids'
  BY <1>1, SilentWaits, WaitsStay
<1>3. handler'[c] = handler[c] \/ (handler'[c].at = "none" /\ handler'[c].first = NoJob)
  BY NothingAsked
<1>4. Named(c)'
  BY <1>1, <1>2, <1>3 DEF Named
<1>5. RequestSays(c)'
  BY <1>3 DEF RequestSays
<1>6. ArraySays(c)'
  BY <1>1, <1>3 DEF ArraySays
<1>7. PipelineSays(c)'
  <2>1. CASE handler'[c].at = "none"
    BY <1>1, <2>1, PipelineStays
  <2>2. CASE handler'[c] = handler[c]
    <3>1. SUFFICES ASSUME cmd[c].kind = "pipeline" PROVE PipelineSays(c)'
      BY DEF PipelineSays
    <3>2. Order(after)' = Order(after)
      OBVIOUS
    <3> QED  BY <2>2, <3>1, <3>2 DEF PipelineSays
  <2> QED  BY <1>3, <2>1, <2>2
<1>8. StagedSays(c)'
  BY <1>1, <1>3 DEF StagedSays
<1> QED  BY <1>2, <1>4, <1>5, <1>6, <1>7, <1>8 DEF Renewed, Says

LEMMA GoneIs ==
  \* A command whose client has gone.
  ASSUME NEW r \in Command
  PROVE  /\ [r EXCEPT !.alive = FALSE] \in Command
         /\ [r EXCEPT !.alive = FALSE].kind = r.kind /\ [r EXCEPT !.alive = FALSE].step = r.step
         /\ [r EXCEPT !.alive = FALSE].said = r.said /\ [r EXCEPT !.alive = FALSE].id = r.id
         /\ [r EXCEPT !.alive = FALSE].ids = r.ids
BY DEF Command

LEMMA InterruptSays ==
  \* The client is gone; its request is not, yet.
  ASSUME HandedInv, NEW c \in Clients, Interrupt(c)
  PROVE  HandedInv'
<1> USE InvGives
<1> DEFINE q == [cmd[c] EXCEPT !.alive = FALSE]
<1>1. /\ cmd' = [cmd EXCEPT ![c] = q] /\ breaks' \in 0..MaxBreaks
      /\ UNCHANGED <<rows, handler, after, inputs, ran, over>>
  BY MoreBreaks DEF Interrupt
<1>2. cmd[c] \in Command
  BY CommandIs
<1>3. q \in Command /\ q.kind = cmd[c].kind /\ q.step = cmd[c].step /\ q.said = cmd[c].said
      /\ q.id = cmd[c].id /\ q.ids = cmd[c].ids
  BY <1>2, GoneIs
<1> HIDE DEF q
<1>4. cmd' \in [Clients -> Command] /\ cmd'[c] = q /\ \A d \in Clients : d # c => cmd'[d] = cmd[d]
  BY <1>1, <1>3, CommandSet
<1>5. Renewed(c)
  BY <1>1, <1>3, <1>4, LeftRenewed
<1>6. LimitSays'
  <2>1. Cardinality(Queued') \in Nat /\ Cardinality(Queued') <= Cardinality(Queued)
    BY <1>1, QueuedAre DEF Queued, Ids
  <2> QED  BY <1>1, <2>1, LimitStays DEF CountedIn
<1>7. handler' \in [Clients -> Request] /\ over' \in BOOLEAN /\ inputs' \subseteq Ids
  BY <1>1
<1> QED  BY <1>1, <1>4, <1>5, <1>6, <1>7, QuietStep

LEMMA RestartSays ==
  \* The controller forgets the requests it worked on.
  ASSUME HandedInv, Restart
  PROVE  HandedInv'
<1>1. /\ SubmissionsTypeOK /\ LimitSays /\ LinksSay /\ rows \in Seq(Row) /\ cmd \in [Clients -> Command]
      /\ over \in BOOLEAN /\ inputs \subseteq Ids
  BY DEF HandedInv, SubmissionsTypeOK
<1>2. /\ handler' = [c \in Clients |-> NoRequest]
      /\ cmd' = [c \in Clients |-> IF cmd[c].step \in {"ready", "over"} THEN cmd[c] ELSE [cmd[c] EXCEPT !.alive = FALSE]]
      /\ breaks' \in 0..MaxBreaks
      /\ UNCHANGED <<rows, after, inputs, ran, over>>
  BY MoreBreaks, JobsAre DEF Restart
<1>3. ASSUME NEW c \in Clients
      PROVE  /\ handler'[c] = NoRequest /\ cmd'[c] \in Command
             /\ cmd'[c].kind = cmd[c].kind /\ cmd'[c].step = cmd[c].step /\ cmd'[c].said = cmd[c].said
             /\ cmd'[c].id = cmd[c].id /\ cmd'[c].ids = cmd[c].ids
  <2>1. cmd[c] \in Command
    BY <1>1
  <2>2. handler'[c] = NoRequest /\ cmd'[c] \in {cmd[c], [cmd[c] EXCEPT !.alive = FALSE]}
    BY <1>2
  <2> QED  BY <2>1, <2>2, GoneIs
<1>4. handler' \in [Clients -> Request] /\ cmd' \in [Clients -> Command]
  BY <1>2, <1>3, NothingAsked
<1>5. \A c \in Clients : Renewed(c)
  BY <1>2, <1>3, LeftRenewed
<1>6. LimitSays'
  <2>1. Cardinality(Queued') \in Nat /\ Cardinality(Queued') <= Cardinality(Queued)
    BY <1>1, <1>2, QueuedAre DEF Queued, Ids
  <2>2. \A c \in Clients : handler'[c].at = "none"
    BY <1>3, NothingAsked
  <2> QED  BY <1>1, <1>2, <2>1, <2>2, LimitStays
<1>7. Goon /\ Ids' = Ids
  BY <1>1, <1>2, RowsStay DEF Ids
<1>8. LinksSay' /\ \A i \in Ids' : rows'[i].array \in Ids' \cup {NoJob} /\ rows'[i].after \subseteq Ids'
  BY <1>2, <1>7, JobsAre DEF HandedInv, LinksSay
<1>9. inputs \subseteq inputs' /\ inputs' \cup ran' \subseteq Ids' /\ ran' \ ran = {} /\ Ids' \ Ids = {} /\ over' \in BOOLEAN
  BY <1>1, <1>2, <1>7, JobsAre
<1> QED  BY <1>2, <1>4, <1>5, <1>6, <1>7, <1>8, <1>9, StepKeeps

-----------------------------------------------------------------------------
(* The first state, every step, and what the invariant means *)

LEMMA NoneYet ==
  \* The empty sequence.
  ASSUME NEW s, s = <<>>
  PROVE  /\ DOMAIN s = {} /\ Len(s) = 0 /\ Range(s) = {} /\ \A S : s \in Seq(S)
BY DEF Range

LEMMA HandedStart ==
  \* At first nothing has been handed in.
  ASSUME SubInit
  PROVE  HandedInv
<1>1. /\ rows \in Seq(Row) /\ Ids = {}
  <2>1. rows = <<>>
    BY DEF SubInit
  <2> QED  BY <2>1, NoneYet, Zenon DEF Ids
<1>2. PICK k \in Commands : cmd = [c \in Clients |-> [Ready EXCEPT !.kind = k[c]]]
  BY DEF SubInit
<1>3. k \in [Clients -> {"array", "staged", "pipeline"}]
  <2>1. Commands \subseteq [Clients -> {"array", "staged", "pipeline"}]
    BY SubmissionsAssumption, Zenon
  <2> QED  BY <2>1
<1>4. ASSUME NEW c \in Clients
      PROVE  /\ cmd[c] \in Command /\ cmd[c].step = "ready" /\ cmd[c].said = "" /\ cmd[c].id = NoJob
             /\ DOMAIN cmd[c].ids = {} /\ Range(cmd[c].ids) = {}
  <2> DEFINE e == <<>>
  <2>1. e \in Seq(Nat) /\ DOMAIN e = {} /\ Range(e) = {}
    BY NoneYet, Zenon
  <2> HIDE DEF e
  <2> DEFINE r == [kind |-> k[c], step |-> "ready", id |-> NoJob, ids |-> e, said |-> "", alive |-> TRUE]
  <2>2. r \in Command /\ r.step = "ready" /\ r.said = "" /\ r.id = NoJob /\ r.ids = e
    BY <1>3, <2>1 DEF Command, NoJob
  <2>3. cmd[c] = r
    BY <1>2 DEF Ready, e
  <2> QED  BY <2>1, <2>2, <2>3
<1>5. cmd \in [Clients -> Command]
  BY <1>2, <1>4
<1>6. ASSUME NEW c \in Clients
      PROVE  /\ handler[c] \in Request /\ handler[c].at = "none" /\ handler[c].first = NoJob
             /\ DOMAIN handler[c].todo = {}
  BY NothingAsked DEF SubInit
<1>7. handler \in [Clients -> Request]
  BY <1>6 DEF SubInit
<1>8. /\ inputs = {} /\ ran = {} /\ over = FALSE /\ breaks \in 0..MaxBreaks /\ after \in Graphs
  <2>1. inputs = {} /\ ran = {} /\ over = FALSE /\ breaks = 0 /\ after \in Pipelines
    BY DEF SubInit
  <2>2. Pipelines \subseteq Graphs
    BY SubmissionsAssumption, Zenon
  <2> QED  BY <2>1, <2>2, NumbersAre
<1>9. SubmissionsTypeOK
  BY <1>1, <1>4, <1>5, <1>6, <1>7, <1>8 DEF SubmissionsTypeOK
<1>10. LimitSays
  <2>1. Queued = {} /\ Cardinality(Queued) = 0
    BY <1>1, FS_EmptySet DEF Queued
  <2> QED  BY <1>6, <2>1, NumbersAre DEF LimitSays, CountedIn
<1>11. LinksSay /\ InputsSay /\ StagesSay
  BY <1>1, <1>6, <1>8 DEF LinksSay, InputsSay, StagesSay
<1>12. ASSUME NEW c \in Clients PROVE Says(c)
  <2>1. RowsOf(c) = {}
    BY <1>1 DEF RowsOf
  <2>2. RequestSays(c)
    BY <1>4, <1>6 DEF RequestSays
  <2>3. ArraySays(c)
    BY <1>4, <1>6, <2>1 DEF ArraySays
  <2>4. PipelineSays(c)
    BY <1>4, <1>6 DEF PipelineSays
  <2>5. StagedSays(c)
    BY <1>4, <1>6, <2>1 DEF StagedSays
  <2> QED  BY <2>2, <2>3, <2>4, <2>5 DEF Says
<1> QED  BY <1>9, <1>10, <1>11, <1>12 DEF HandedInv

LEMMA HandedStep ==
  \* Every step preserves the invariant.
  ASSUME HandedInv, [SubNext]_subVars
  PROVE  HandedInv'
<1>1. ASSUME NEW c \in Clients,
             \/ CountQueued(c) \/ SubmitRow(c) \/ SetArrayJob(c) \/ SetHeld(c) \/ Cancelled(c)
             \/ sbatch(c) \/ runPipeline(c) \/ uploadStageIn(c) \/ SaveStage(c) \/ UploadFails(c)
             \/ giveUp(c) \/ Release(c) \/ Interrupt(c)
      PROVE  HandedInv'
  BY <1>1, CountQueuedSays, SubmitRowSays, SetArrayJobSays, SetHeldSays, CancelledSays, sbatchSays,
     runPipelineSays, uploadStageInSays, SaveStageSays, UploadFailsSays, giveUpSays, ReleaseSays, InterruptSays
<1>2. ASSUME NEW i \in Ids, Place(i) \/ CancelDependent(i) \/ Launch(i) \/ scancel(i) PROVE HandedInv'
  BY <1>2, PlaceSays, CancelDependentSays, LaunchSays, scancelSays
<1>3. CASE Restart
  BY <1>3, RestartSays
<1>4. CASE UNCHANGED subVars
  <2>1. /\ rows' = rows /\ cmd' = cmd /\ handler' = handler /\ after' = after /\ inputs' = inputs /\ ran' = ran
        /\ over' = over /\ breaks' = breaks
    BY <1>4 DEF subVars
  <2>2. rows \in Seq(Row) /\ breaks \in 0..MaxBreaks /\ ran \subseteq Ids
    BY JobsAre
  <2>3. Goon /\ Same
    BY <2>1, <2>2, RowsStay
  <2>4. \A i \in ran' \ ran : rows[i].state = "RUNNING" /\ (Staged(i) => i \in inputs)
    BY <2>1
  <2> QED  BY <2>1, <2>2, <2>3, <2>4, JobStep
<1> QED  BY <1>1, <1>2, <1>3, <1>4 DEF SubNext

LEMMA HandedMeans ==
  \* What the invariant says of what was submitted.
  ASSUME HandedInv
  PROVE  SubmissionsTypeOK /\ LimitHolds /\ ArrayIsWhole /\ StagesInOrder /\ InputsFirst
<1>1. SubmissionsTypeOK /\ LimitHolds
  BY DEF HandedInv, LimitSays, LimitHolds
<1>2. ArrayIsWhole
  <2>1. SUFFICES ASSUME NEW c \in Clients, cmd[c].kind = "array", cmd[c].said = "submitted"
                 PROVE  Cardinality(RowsOf(c)) = Tasks /\ RowsOf(c) = ArrayTasks(cmd[c].id)
    BY DEF ArrayIsWhole
  <2>2. /\ Cardinality(RowsOf(c)) = Tasks /\ cmd[c].id \in RowsOf(c)
        /\ \A j \in RowsOf(c) : rows[j].array = cmd[c].id
    BY <2>1, InvGives DEF ArraySays
  <2>3. NoJob \notin Ids /\ RowsOf(c) \subseteq Ids
    BY <1>1, RowsAre, QueuedAre DEF SubmissionsTypeOK
  <2>4. \A j \in Ids : rows[j].array = cmd[c].id => rows[j].by = c
    BY <2>2, <2>3 DEF HandedInv, LinksSay, RowsOf
  <2> QED  BY <2>2, <2>3, <2>4 DEF ArrayTasks, RowsOf
<1>3. StagesInOrder
  <2>1. SUFFICES ASSUME NEW i \in ran, rows[i].stage # "", NEW n \in after[rows[i].stage]
                 PROVE  \E j \in RowsOf(rows[i].by) : rows[j].stage = n /\ rows[j].state = "COMPLETED"
    BY DEF StagesInOrder
  <2>2. i \in Ids /\ rows[i].after \subseteq Ids
    BY <1>1 DEF SubmissionsTypeOK
  <2>3. PICK j \in rows[i].after : rows[j].by = rows[i].by /\ rows[j].stage = n
    BY <2>1, <2>2 DEF HandedInv, StagesSay, WaitsFor
  <2>4. rows[j].state = "COMPLETED"
    BY <2>2 DEF HandedInv, StagesSay, AllDone
  <2> QED  BY <2>2, <2>3, <2>4 DEF RowsOf
<1>4. InputsFirst
  BY InvGives DEF HandedInv, InputsSay, StagedSays, InputsFirst
<1> QED  BY <1>1, <1>2, <1>3, <1>4

-----------------------------------------------------------------------------
(* What is understood: options and arrays *)

LEMMA OptionsAre ==
  \* The command line comes last.
  ASSUME NEW line \in Given, NEW script \in Given
  PROVE  /\ Options(line, script).time = (IF line.time # "" THEN line.time ELSE script.time)
         /\ Options(line, script).nodelist = line.nodelist \cup script.nodelist
<1>1. Options(line, script).time = (IF line.time # "" THEN line.time ELSE script.time)
  BY DEF Options, parseOpts
<1>2. Options(line, script).nodelist = ((({} \cup line.nodelist) \cup script.nodelist) \cup line.nodelist)
  BY DEF Options, parseOpts
<1> QED  BY <1>1, <1>2

LEMMA FourAre ==
  \* A set that four numbers are in has four elements at least.
  ASSUME NEW S, IsFiniteSet(S), NEW a \in Int, a \in S, a + 1 \in S, a + 2 \in S, a + 3 \in S
  PROVE  Cardinality(S) \in Nat /\ Cardinality(S) > 3
<1> DEFINE T1 == {a}
           T2 == T1 \cup {a + 1}
           T3 == T2 \cup {a + 2}
           T4 == T3 \cup {a + 3}
<1>2. IsFiniteSet(T1) /\ Cardinality(T1) = 1
  BY FS_Singleton
<1>3. a + 1 \notin T1 /\ a + 2 \notin T2 /\ a + 3 \notin T3 /\ T4 \subseteq S
  OBVIOUS
<1> HIDE DEF T1
<1>4. IsFiniteSet(T2) /\ Cardinality(T2) = 2
  BY <1>2, <1>3, FS_AddElement
<1> HIDE DEF T2
<1>5. IsFiniteSet(T3) /\ Cardinality(T3) = 3
  BY <1>3, <1>4, FS_AddElement
<1> HIDE DEF T3
<1>6. IsFiniteSet(T4) /\ Cardinality(T4) = 4
  BY <1>3, <1>5, FS_AddElement
<1> HIDE DEF T4
<1>7. Cardinality(S) \in Nat /\ Cardinality(T4) <= Cardinality(S)
  BY <1>3, FS_Subset, FS_CardinalityType
<1> QED  BY <1>6, <1>7

LEMMA ArrayIsRead ==
  \* An array is what its parts name, and refused when it is too large.
  ASSUME NEW p \in Parts, NEW q \in Parts
  PROVE  LET union == {i \in 0..5 : \E r \in {p, q} : i >= r.lo /\ i <= r.hi /\ (i - r.lo) % r.step = 0}
             down == \E r \in {p, q} : r.hi < r.lo
         IN  ParseArray({p, q}) = IF down \/ Cardinality(union) > MaxArrayTasks THEN Failed ELSE union
<1> DEFINE union == {i \in 0..5 : \E r \in {p, q} : i >= r.lo /\ i <= r.hi /\ (i - r.lo) % r.step = 0}
           down == \E r \in {p, q} : r.hi < r.lo
           tasks == UNION {Expanded(r) : r \in {p, q}}
           long == \E r \in {p, q} : (r.hi - r.lo) \div r.step > MaxArrayTasks
<1>1. \A r \in {p, q} : r.lo \in 0..2 /\ r.hi \in 0..5 /\ r.step \in 1..2
  BY DEF Parts
<1>2. tasks = union
  <2>1. ASSUME NEW r \in {p, q} PROVE Expanded(r) = {i \in 0..5 : i >= r.lo /\ i <= r.hi /\ (i - r.lo) % r.step = 0}
    <3>1. PICK lo \in 0..2, hi \in 0..5 : r.lo = lo /\ r.hi = hi
      BY <1>1
    <3>2. \A i : i \in lo..hi <=> i \in 0..5 /\ i >= lo /\ i <= hi
      BY <3>1
    <3> QED  BY <3>1, <3>2 DEF Expanded
  <2>2. tasks = UNION {{i \in 0..5 : i >= r.lo /\ i <= r.hi /\ (i - r.lo) % r.step = 0} : r \in {p, q}}
    BY <2>1
  <2> QED  BY <2>2
<1>3. IsFiniteSet(union)
  <2>1. IsFiniteSet(0..5)
    <3>1. 0 \in Int /\ 5 \in Int
      OBVIOUS
    <3> QED  BY <3>1, FS_Interval, Zenon
  <2>2. union \subseteq 0..5
    OBVIOUS
  <2> HIDE DEF union
  <2> QED  BY <2>1, <2>2, FS_Subset
<1>4. ASSUME long, ~down PROVE Cardinality(union) > 3
  <2>1. PICK r \in {p, q} : (r.hi - r.lo) \div r.step > 3
    BY <1>4 DEF MaxArrayTasks
  <2>2. PICK lo \in 0..2, hi \in 0..5, step \in 1..2 : r.lo = lo /\ r.hi = hi /\ r.step = step
    BY <1>1
  <2>3. step = 1 /\ hi >= lo + 4
    <3>1. (hi - lo) \div step > 3 /\ hi >= lo
      BY <1>4, <2>1, <2>2
    <3>2. CASE step = 1
      <4>1. (hi - lo) \div 1 > 3
        BY <3>1, <3>2
      <4> QED  BY <3>2, <4>1
    <3>3. CASE step = 2
      <4>1. (hi - lo) \div 2 > 3
        BY <3>1, <3>3
      <4> QED  BY <4>1
    <3> QED  BY <3>2, <3>3
  <2>4. \A i \in lo..(lo + 3) : i \in union
    <3>1. ASSUME NEW i \in lo..(lo + 3) PROVE i \in 0..5 /\ i >= lo /\ i <= hi /\ (i - lo) % 1 = 0
      BY <2>3
    <3> QED  BY <2>2, <2>3, <3>1
  <2>5. lo \in union /\ lo + 1 \in union /\ lo + 2 \in union /\ lo + 3 \in union
    <3> HIDE DEF union
    <3> QED  BY <2>4
  <2> HIDE DEF union
  <2> QED  BY <1>3, <2>5, FourAre
<1>5. ParseArray({p, q}) = IF down \/ long \/ Cardinality(tasks) > MaxArrayTasks THEN Failed ELSE tasks
  <2> HIDE DEF tasks
  <2>1. (\E r \in {p, q} : r.hi < r.lo \/ (r.hi - r.lo) \div r.step > MaxArrayTasks) <=> down \/ long
    OBVIOUS
  <2> HIDE DEF down, long
  <2>2. tasks = UNION {Expanded(r) : r \in {p, q}}
    BY DEF tasks
  <2> QED  BY <2>1, <2>2, Zenon DEF ParseArray
<1> HIDE DEF tasks, union, down, long
<1>6. ParseArray({p, q}) = IF down \/ Cardinality(union) > MaxArrayTasks THEN Failed ELSE union
  BY <1>2, <1>4, <1>5 DEF MaxArrayTasks
<1> QED  BY <1>6 DEF union, down

-----------------------------------------------------------------------------
(* What is understood: the graph of a pipeline *)

Searches == [path: Seq(Stages), done: Seq(Stages), found: BOOLEAN]

\* Each stage of the way comes before the one it was entered from.
Chain(g, p) ==
  /\ p \in Seq(Stages)
  /\ \A i, j \in 1..Len(p) : p[i] = p[j] => i = j
  /\ \A i \in 1..Len(p) : i + 1 \in 1..Len(p) => p[i + 1] \in g[p[i]]

\* A search: a way, the stages done with, and a cycle if one was found.
Searched(g, s) ==
  /\ s \in Searches /\ Chain(g, s.path) /\ InOrder(g, s.done)
  /\ Range(s.path) \cap Range(s.done) = {}
  /\ s.found => s.path # <<>> /\ \E i \in 1..Len(s.path) : s.path[i] \in g[Last(s.path)]

Taken(s) == 2 * Len(s.done) + Len(s.path)
SearchOver(s) == s.found \/ Stages \subseteq Range(s.done)

LEMMA RangeIs ==
  \* What is in a sequence has a place in it.
  ASSUME NEW S, NEW s \in Seq(S)
  PROVE  Range(s) = {s[k] : k \in 1..Len(s)} /\ Len(s) \in Nat
BY DEF Range

LEMMA RangeAppended ==
  \* One more is in it.
  ASSUME NEW S, NEW s \in Seq(S), NEW d \in S
  PROVE  Range(Append(s, d)) = Range(s) \cup {d}
<1> DEFINE m == Len(s)
           q == Append(s, d)
<1>1. m \in Nat /\ q \in Seq(S) /\ Len(q) = m + 1 /\ q[m + 1] = d /\ \A k \in 1..m : q[k] = s[k]
  OBVIOUS
<1>2. Range(s) = {s[k] : k \in 1..m} /\ Range(q) = {q[k] : k \in 1..(m + 1)}
  BY <1>1, RangeIs
<1> HIDE DEF q, m
<1>3. m + 1 \in 1..(m + 1) /\ (\A k \in 1..m : k \in 1..(m + 1)) /\ \A k \in 1..(m + 1) : k \in 1..m \/ k = m + 1
  BY <1>1
<1>4. Range(q) = Range(s) \cup {d}
  BY <1>1, <1>2, <1>3
<1> QED  BY <1>4 DEF q

LEMMA ChainGrows ==
  \* A stage is entered from the last one of the way.
  ASSUME NEW g, NEW p, Chain(g, p), NEW d \in Stages \ Range(p), p = <<>> \/ d \in g[Last(p)]
  PROVE  Chain(g, Append(p, d)) /\ Len(Append(p, d)) = Len(p) + 1
         /\ Range(Append(p, d)) = Range(p) \cup {d}
<1> DEFINE q == Append(p, d)
           m == Len(p)
<1>1. p \in Seq(Stages) /\ m \in Nat
  BY DEF Chain
<1>2. q \in Seq(Stages) /\ Len(q) = m + 1 /\ q[m + 1] = d /\ \A k \in 1..m : q[k] = p[k]
  BY <1>1
<1>3. Range(p) = {p[k] : k \in 1..m}
  BY <1>1, RangeIs
<1>4. m # 0 => p[m] = Last(p) /\ d \in g[p[m]]
  <2>1. m # 0 => p # <<>>
    BY EmptySeq
  <2> QED  BY <2>1 DEF Last
<1>5. \A i, j \in 1..m : p[i] = p[j] => i = j
  BY DEF Chain
<1>6. \A i \in 1..m : i + 1 \in 1..m => p[i + 1] \in g[p[i]]
  BY DEF Chain
<1> HIDE DEF q, m
<1>7. \A k \in 1..(m + 1) : k \in 1..m \/ k = m + 1
  BY <1>1
<1>8. \A i, j \in 1..(m + 1) : q[i] = q[j] => i = j
  BY <1>2, <1>3, <1>5, <1>7
<1>9. ASSUME NEW i \in 1..(m + 1), i + 1 \in 1..(m + 1) PROVE q[i + 1] \in g[q[i]]
  <2>1. i \in 1..m /\ m # 0
    BY <1>1, <1>9
  <2>2. CASE i + 1 \in 1..m
    BY <1>2, <1>6, <2>1, <2>2
  <2>3. CASE i + 1 = m + 1
    <3>1. i = m
      BY <1>1, <2>1, <2>3
    <3> QED  BY <1>2, <1>4, <2>1, <2>3, <3>1
  <2> QED  BY <1>1, <1>9, <2>2, <2>3
<1>10. Range(Append(p, d)) = Range(p) \cup {d}
  BY <1>1, RangeAppended
<1>11. Chain(g, q)
  BY <1>2, <1>8, <1>9 DEF Chain
<1> QED  BY <1>2, <1>10, <1>11 DEF q, m

LEMMA ChainShrinks ==
  \* The last stage of the way is left.
  ASSUME NEW g, NEW p, Chain(g, p), p # <<>>
  PROVE  /\ Chain(g, Front(p)) /\ Len(Front(p)) = Len(p) - 1
         /\ Range(Front(p)) = Range(p) \ {Last(p)} /\ Last(p) \in Range(p) /\ Last(p) \in Stages
<1> DEFINE q == Front(p)
           m == Len(p)
<1>1. p \in Seq(Stages) /\ m \in Nat
  BY DEF Chain
<1>2. m # 0
  BY <1>1, EmptySeq
<1>3. m - 1 \in Nat /\ \A k \in 1..(m - 1) : k \in 1..m /\ k # m
  BY <1>1, <1>2
<1>4. q \in Seq(Stages) /\ Len(q) = m - 1 /\ \A k \in 1..(m - 1) : q[k] = p[k]
  <2>1. \A k \in 1..(m - 1) : p[k] \in Stages
    BY <1>1, <1>3
  <2>2. q = SubSeq(p, 1, m - 1)
    BY DEF Front
  <2> HIDE DEF q, m
  <2>3. 1 \in Int /\ m - 1 \in Int
    BY <1>1
  <2>4. /\ q \in Seq(Stages) /\ Len(q) = IF 1 <= m - 1 THEN (m - 1) - 1 + 1 ELSE 0
        /\ \A k \in 1..((m - 1) - 1 + 1) : q[k] = p[1 + k - 1]
    BY <2>1, <2>2, <2>3, SubSeqProperties
  <2>5. (m - 1) - 1 + 1 = m - 1 /\ \A k \in 1..(m - 1) : 1 + k - 1 = k
    BY <1>1
  <2>6. Len(q) = m - 1
    BY <1>1, <1>2, <2>4
  <2> QED  BY <2>4, <2>5, <2>6
<1>5. Last(p) = p[m] /\ m \in 1..m
  BY <1>1, <1>2 DEF Last
<1>6. Range(p) = {p[k] : k \in 1..m} /\ Range(q) = {q[k] : k \in 1..(m - 1)}
  BY <1>1, <1>4, RangeIs
<1>7. \A i, j \in 1..m : p[i] = p[j] => i = j
  BY DEF Chain
<1>8. \A i \in 1..m : i + 1 \in 1..m => p[i + 1] \in g[p[i]]
  BY DEF Chain
<1>9. p[m] \in Stages
  BY <1>1, <1>5
<1> HIDE DEF q, m
<1>10. Chain(g, q)
  BY <1>3, <1>4, <1>7, <1>8 DEF Chain
<1>11. \A k \in 1..m : k = m \/ k \in 1..(m - 1)
  BY <1>1
<1>12. Range(q) = Range(p) \ {p[m]}
  BY <1>3, <1>4, <1>5, <1>6, <1>7, <1>11
<1>13. p[m] \in Range(p)
  BY <1>5, <1>6
<1> QED  BY <1>4, <1>5, <1>9, <1>10, <1>12, <1>13 DEF q, m

LEMMA Further ==
  \* A stage entered is a step, a stage left another.
  ASSUME NEW s, NEW t, NEW a \in Nat, NEW b \in Nat, Len(s.done) = a, Len(s.path) = b,
         \/ Len(t.done) = a /\ Len(t.path) = b + 1
         \/ Len(t.done) = a + 1 /\ Len(t.path) = b - 1
  PROVE  Taken(t) = Taken(s) + 1
<1>1. Taken(s) = 2 * a + b
  BY DEF Taken
<1>2. CASE Len(t.done) = a /\ Len(t.path) = b + 1
  <2>1. Taken(t) = 2 * a + (b + 1)
    BY <1>2 DEF Taken
  <2> QED  BY <1>1, <2>1
<1>3. CASE Len(t.done) = a + 1 /\ Len(t.path) = b - 1
  <2>1. Taken(t) = 2 * (a + 1) + (b - 1)
    BY <1>3 DEF Taken
  <2> QED  BY <1>1, <2>1
<1> QED  BY <1>2, <1>3

LEMMA SearchIs ==
  \* What a step changes of a search.
  ASSUME NEW s \in Searches
  PROVE  /\ \A x : [s EXCEPT !.path = x] = [path |-> x, done |-> s.done, found |-> s.found]
         /\ \A x : [s EXCEPT !.found = x] = [path |-> s.path, done |-> s.done, found |-> x]
<1>2. ASSUME NEW x PROVE [s EXCEPT !.path = x] = [path |-> x, done |-> s.done, found |-> s.found]
  BY DEF Searches
<1>3. ASSUME NEW x PROVE [s EXCEPT !.found = x] = [path |-> s.path, done |-> s.done, found |-> x]
  BY DEF Searches
<1> QED  BY <1>2, <1>3, Zenon

LEMMA VisitKeeps ==
  \* A search stays one, and every step of it takes it further.
  ASSUME NEW g \in Graphs, NEW s, Searched(g, s)
  PROVE  /\ Searched(g, Visit(g, s))
         /\ SearchOver(s) => Visit(g, s) = s
         /\ ~SearchOver(s) => Visit(g, s).found \/ Taken(Visit(g, s)) = Taken(s) + 1
<1> DEFINE n == Last(s.path)
           white == Stages \ Range(s.done)
           open == IF s.path = <<>> THEN white ELSE g[n] \ Range(s.done)
           d == CHOOSE x \in open : TRUE
<1>1. Visit(g, s) = IF s.found \/ white = {} THEN s
                    ELSE IF open = {} THEN [path |-> Front(s.path), done |-> Append(s.done, n), found |-> FALSE]
                    ELSE IF d \in Range(s.path) THEN [s EXCEPT !.found = TRUE]
                    ELSE [s EXCEPT !.path = Append(@, d)]
  BY DEF Visit
<1>2. SearchOver(s) <=> s.found \/ white = {}
  BY DEF SearchOver
<1>3. CASE SearchOver(s)
  BY <1>1, <1>2, <1>3
<1>4. CASE ~SearchOver(s)
  <2>1. s \in Searches /\ s.found = FALSE
    BY <1>2, <1>4 DEF Searched, Searches
  <2>2. s.path \in Seq(Stages) /\ s.done \in Seq(Stages)
    BY DEF Searched, Searches
  <2>3. Len(s.path) \in Nat /\ Len(s.done) \in Nat
    BY <2>2
  <2>4. CASE open = {}
    <3>1. s.path # <<>>
      BY <1>2, <1>4, <2>4
    <3>2. /\ Chain(g, Front(s.path)) /\ Len(Front(s.path)) = Len(s.path) - 1
          /\ Range(Front(s.path)) = Range(s.path) \ {n} /\ n \in Range(s.path) /\ n \in Stages
      BY <3>1, ChainShrinks DEF Searched
    <3>3. g[n] \subseteq Range(s.done) /\ n \notin Range(s.done)
      BY <2>4, <3>1, <3>2 DEF Searched
    <3>4. InOrder(g, Append(s.done, n))
      <4>1. Look(g, s.done, n) = Append(s.done, n)
        BY <3>3 DEF Look
      <4> QED  BY <3>2, <4>1, LookKeeps, ZenonT(60) DEF Searched
    <3>5. Append(s.done, n) \in Seq(Stages) /\ Len(Append(s.done, n)) = Len(s.done) + 1
      BY <2>2, <3>2
    <3>6. Range(Append(s.done, n)) = Range(s.done) \cup {n}
      BY <2>2, <3>2, RangeAppended
    <3> DEFINE t == [path |-> Front(s.path), done |-> Append(s.done, n), found |-> FALSE]
    <3>7. Visit(g, s) = t
      <4> HIDE DEF white, open, d, n
      <4> QED  BY <1>1, <1>2, <1>4, <2>4
    <3>8. t \in Searches /\ t.path = Front(s.path) /\ t.done = Append(s.done, n) /\ ~t.found
      BY <3>2, <3>5 DEF Searches, Chain
    <3> HIDE DEF t, n
    <3>9. Range(t.path) \cap Range(t.done) = {}
      BY <3>2, <3>6, <3>8 DEF Searched
    <3>10. Searched(g, t)
      BY <3>2, <3>4, <3>8, <3>9 DEF Searched
    <3>11. Taken(t) = Taken(s) + 1
      <4>1. Len(t.path) = Len(s.path) - 1 /\ Len(t.done) = Len(s.done) + 1
        BY <3>2, <3>5, <3>8
      <4> QED  BY <2>3, <4>1, Further
    <3> QED  BY <1>4, <3>7, <3>10, <3>11
  <2>5. CASE open # {}
    <3>1. d \in open
      BY <2>5
    <3>2. d \in Stages \ Range(s.done) /\ (s.path = <<>> \/ d \in g[n])
      <4>1. CASE s.path = <<>>
        BY <3>1, <4>1
      <4>2. CASE s.path # <<>>
        <5>1. n \in Stages
          BY <4>2, ChainShrinks DEF Searched
        <5>2. g[n] \subseteq Stages
          BY <5>1 DEF Graphs
        <5> QED  BY <3>1, <4>2, <5>2
      <4> QED  BY <4>1, <4>2
    <3> HIDE DEF d, open, white
    <3>3. CASE d \in Range(s.path)
      <4>1. s.path # <<>> /\ \E i \in 1..Len(s.path) : s.path[i] = d
        <5>1. PICK i \in 1..Len(s.path) : s.path[i] = d
          BY <2>2, <3>3, RangeIs
        <5>2. s.path # <<>>
          BY <2>2, <5>1, EmptySeq
        <5> QED  BY <5>1, <5>2
      <4> DEFINE t == [path |-> s.path, done |-> s.done, found |-> TRUE]
      <4>2. Visit(g, s) = t
        <5>1. [s EXCEPT !.found = TRUE] = t
          BY <2>1, SearchIs
        <5>2. Visit(g, s) = [s EXCEPT !.found = TRUE]
          <6> HIDE DEF n
          <6> QED  BY <1>1, <1>2, <1>4, <2>5, <3>3
        <5> QED  BY <5>1, <5>2
      <4>3. t \in Searches /\ t.path = s.path /\ t.done = s.done /\ t.found
        BY <2>2 DEF Searches
      <4> HIDE DEF t
      <4>4. Searched(g, t)
        BY <3>2, <4>1, <4>3 DEF Searched
      <4> QED  BY <1>4, <4>2, <4>3, <4>4
    <3>4. CASE d \notin Range(s.path)
      <4> DEFINE t == [path |-> Append(s.path, d), done |-> s.done, found |-> FALSE]
      <4>1. Visit(g, s) = t
        <5>1. [s EXCEPT !.path = Append(s.path, d)] = t
          BY <2>1, SearchIs
        <5>2. Visit(g, s) = [s EXCEPT !.path = Append(s.path, d)]
          <6> HIDE DEF n
          <6> QED  BY <1>1, <1>2, <1>4, <2>5, <3>4
        <5> QED  BY <5>1, <5>2
      <4>2. /\ Chain(g, Append(s.path, d)) /\ Len(Append(s.path, d)) = Len(s.path) + 1
            /\ Range(Append(s.path, d)) = Range(s.path) \cup {d}
        BY <3>2, <3>4, ChainGrows DEF Searched
      <4>3. t \in Searches /\ t.path = Append(s.path, d) /\ t.done = s.done /\ ~t.found
        BY <2>2, <4>2 DEF Searches, Chain
      <4> HIDE DEF t
      <4>4. Range(t.path) \cap Range(t.done) = {}
        BY <3>2, <4>2, <4>3 DEF Searched
      <4>5. Searched(g, t)
        BY <4>2, <4>3, <4>4 DEF Searched
      <4>6. Taken(t) = Taken(s) + 1
        <5>1. Len(t.path) = Len(s.path) + 1 /\ Len(t.done) = Len(s.done)
          BY <4>2, <4>3
        <5> QED  BY <2>3, <5>1, Further
      <4> QED  BY <1>4, <4>1, <4>5, <4>6
    <3> QED  BY <3>3, <3>4
  <2> QED  BY <2>4, <2>5
<1> QED  BY <1>3, <1>4

LEMMA StagesAre ==
  \* There are no more stages than names.
  IsFiniteSet(Stages) /\ Cardinality(Stages) \in Nat /\ Cardinality(Stages) <= Len(StageNames)
<1> DEFINE N == Len(StageNames)
<1>1. N \in Nat /\ StageNames \in Seq(Stages)
  BY NamesAre
<1>2. StageNames \in [1..N -> Stages]
  BY <1>1
<1>3. \A n \in Stages : \E k \in 1..N : StageNames[k] = n
  <2>1. Range(StageNames) = {StageNames[k] : k \in 1..N}
    BY <1>1, RangeIs
  <2>2. Stages = Range(StageNames)
    BY DEF Stages
  <2> HIDE DEF N, Stages
  <2> QED  BY <2>1, <2>2
<1> HIDE DEF Stages
<1>4. StageNames \in Surjection(1..N, Stages)
  BY <1>2, <1>3 DEF Surjection
<1>5. IsFiniteSet(1..N) /\ Cardinality(1..N) = N
  <2> HIDE DEF N
  <2>1. 1 \in Int /\ N \in Int /\ (1 > N => N = 0) /\ N - 1 + 1 = N
    BY <1>1
  <2>2. IsFiniteSet(1..N) /\ Cardinality(1..N) = IF 1 > N THEN 0 ELSE N - 1 + 1
    BY <2>1, FS_Interval, Zenon
  <2> QED  BY <2>1, <2>2
<1> HIDE DEF N
<1>6. IsFiniteSet(Stages) /\ Cardinality(Stages) <= N
  BY <1>4, <1>5, FS_Surjection
<1> QED  BY <1>6, FS_CardinalityType DEF N

LEMMA NoMoreThanThere ==
  \* The stages of a search are no more than there are; when those done with are as
  \* many, they are all.
  ASSUME NEW g, NEW s, Searched(g, s)
  PROVE  /\ Len(s.done) \in Nat /\ Len(s.path) \in Nat
         /\ Len(s.done) + Len(s.path) <= Cardinality(Stages)
         /\ Len(s.done) = Cardinality(Stages) => Stages \subseteq Range(s.done)
<1> DEFINE a == Len(s.done)
           b == Len(s.path)
           C == Cardinality(Stages)
           h == [k \in 1..(a + b) |-> IF k <= a THEN s.done[k] ELSE s.path[k - a]]
<1>1. s.done \in Seq(Stages) /\ s.path \in Seq(Stages)
  BY DEF Searched, Searches
<1>2. a \in Nat /\ b \in Nat
  BY <1>1
<1>3. /\ \A k \in 1..a : s.done[k] \in Stages
      /\ \A k \in 1..b : s.path[k] \in Stages
  BY <1>1
<1>4. /\ \A i, j \in 1..a : s.done[i] = s.done[j] => i = j
      /\ \A i, j \in 1..b : s.path[i] = s.path[j] => i = j
  BY DEF Searched, Chain, InOrder
<1>5. \A i \in 1..a, j \in 1..b : s.done[i] # s.path[j]
  <2>1. Range(s.done) = {s.done[k] : k \in 1..a} /\ Range(s.path) = {s.path[k] : k \in 1..b}
    BY <1>1, RangeIs
  <2> HIDE DEF a, b
  <2> QED  BY <2>1 DEF Searched
<1> HIDE DEF a, b, C
<1>6. \A k \in 1..(a + b) : (k <= a => k \in 1..a) /\ (~(k <= a) => k - a \in 1..b)
  BY <1>2
<1>7. h \in [1..(a + b) -> Stages]
  BY <1>3, <1>6
<1>8. \A i, j \in 1..(a + b) : h[i] = h[j] => i = j
  <2>1. SUFFICES ASSUME NEW i \in 1..(a + b), NEW j \in 1..(a + b), h[i] = h[j] PROVE i = j
    OBVIOUS
  <2>2. CASE i <= a /\ j <= a
    BY <1>4, <1>6, <2>1, <2>2
  <2>3. CASE ~(i <= a) /\ ~(j <= a)
    <3>1. i - a \in 1..b /\ j - a \in 1..b /\ s.path[i - a] = s.path[j - a]
      BY <1>6, <2>1, <2>3
    <3>2. i - a = j - a
      BY <1>4, <3>1
    <3> QED  BY <1>2, <3>2
  <2>4. ~(i <= a /\ ~(j <= a)) /\ ~(j <= a /\ ~(i <= a))
    BY <1>5, <1>6, <2>1
  <2> QED  BY <2>2, <2>3, <2>4
<1> HIDE DEF h
<1>9. h \in Injection(1..(a + b), Stages)
  BY <1>7, <1>8 DEF Injection, IsInjective
<1>10. Cardinality(1..(a + b)) = a + b /\ Cardinality(1..a) = a
  <2>1. ASSUME NEW n \in Nat PROVE Cardinality(1..n) = n
    <3>1. 1 \in Int /\ n \in Int /\ (1 > n => n = 0) /\ n - 1 + 1 = n
      OBVIOUS
    <3>2. Cardinality(1..n) = IF 1 > n THEN 0 ELSE n - 1 + 1
      BY <3>1, FS_Interval, Zenon
    <3> QED  BY <3>1, <3>2
  <2>2. a + b \in Nat
    BY <1>2
  <2> QED  BY <1>2, <2>1, <2>2
<1>11. a + b <= C
  <2>1. Cardinality(1..(a + b)) <= C
    BY <1>9, StagesAre, FS_Injection DEF C
  <2> QED  BY <1>10, <2>1
<1>12. a = C => Stages \subseteq Range(s.done)
  <2>1. s.done \in [1..a -> Stages]
    BY <1>1 DEF a
  <2>2. s.done \in Injection(1..a, Stages)
    BY <1>4, <2>1 DEF Injection, IsInjective
  <2>3. a = C => s.done \in Surjection(1..a, Stages)
    BY <1>10, <2>2, StagesAre, FS_Injection DEF C
  <2>4. Range(s.done) = {s.done[k] : k \in 1..a}
    BY <1>1, RangeIs DEF a
  <2> QED  BY <2>3, <2>4 DEF Surjection
<1> QED  BY <1>2, <1>11, <1>12 DEF a, b, C

LEMMA SearchGoes ==
  \* The search is one step after the other.
  ASSUME NEW g \in Graphs
  PROVE  \E search :
           /\ search = [k \in Nat |-> IF k = 0 THEN [path |-> <<>>, done |-> <<>>, found |-> FALSE]
                                      ELSE Visit(g, search[k - 1])]
           /\ findCycle(g) = search[2 * Len(StageNames)].found
           /\ \A k \in Nat : Searched(g, search[k])
<1> DEFINE A == {s \in Searches : Searched(g, s)}
           none == [path |-> <<>>, done |-> <<>>, found |-> FALSE]
           step == [x \in A \X Nat |-> Visit(g, x[1])]
           Is(f) == f = [k \in Nat |-> IF k = 0 THEN none ELSE Visit(g, f[k - 1])]
<1>1. PICK f : f = [k \in Nat |-> IF k = 0 THEN none ELSE step[<<f[k - 1], k>>]]
  <2> HIDE DEF step, none
  <2>1. \E f : IsRun(f, none, step)
    BY RunExists, Zenon
  <2> QED  BY <2>1, Zenon DEF IsRun
<1>2. \A k \in Nat : f[k + 1] = step[<<f[k], k + 1>>]
  <2> HIDE DEF step, none
  <2>1. \A k \in Nat : k + 1 \in Nat /\ k + 1 # 0 /\ (k + 1) - 1 = k
    OBVIOUS
  <2> QED  BY <1>1, <2>1
<1>3. ASSUME NEW s \in A PROVE Visit(g, s) \in A
  BY <1>3, VisitKeeps DEF Searched
<1>4. ASSUME NEW k \in Nat, f[k] \in A PROVE f[k + 1] \in A
  <2>1. step[<<f[k], k + 1>>] = Visit(g, f[k])
    <3> HIDE DEF A
    <3>1. <<f[k], k + 1>> \in A \X Nat
      BY <1>4
    <3> QED  BY <3>1
  <2> HIDE DEF A, step
  <2> QED  BY <1>2, <1>3, <1>4, <2>1
<1>5. none \in A
  <2>1. none \in Searches
    BY DEF Searches
  <2>2. Chain(g, <<>>) /\ InOrder(g, <<>>) /\ Range(<<>>) = {}
    BY DEF Chain, InOrder, Range
  <2>3. none.path = <<>> /\ none.done = <<>> /\ ~none.found
    OBVIOUS
  <2> HIDE DEF none
  <2>4. Searched(g, none)
    BY <2>1, <2>2, <2>3, Zenon DEF Searched
  <2> QED  BY <2>1, <2>4
<1>6. \A k \in Nat : f[k] \in A
  <2> HIDE DEF A, none, step
  <2> DEFINE Good == {k \in Nat : f[k] \in A}
  <2>1. 0 \in Good
    BY <1>1, <1>5
  <2>2. \A k \in Nat : k \in Good => k + 1 \in Good
    BY <1>4
  <2>3. Nat \subseteq Good
    <3> HIDE DEF Good
    <3> QED  BY <2>1, <2>2, FromNowOn
  <2> QED  BY <2>3
<1>7. Is(f)
  <2>1. ASSUME NEW k \in Nat, k # 0
        PROVE  step[<<f[k - 1], k>>] = Visit(g, f[k - 1])
    <3>1. <<f[k - 1], k>> \in A \X Nat
      <4> HIDE DEF A
      <4> QED  BY <1>6, <2>1
    <3> HIDE DEF A
    <3> QED  BY <3>1
  <2> HIDE DEF step, none
  <2> QED  BY <1>1, <2>1
<1> DEFINE search == CHOOSE f1 : Is(f1)
<1>8. Is(search)
  <2> HIDE DEF Is
  <2> QED  BY <1>7
<1>9. findCycle(g) = search[2 * Len(StageNames)].found
  BY DEF findCycle
<1> HIDE DEF search, none
<1>10. \A k \in Nat : search[k + 1] = Visit(g, search[k])
  <2>1. \A k \in Nat : k + 1 \in Nat /\ k + 1 # 0 /\ (k + 1) - 1 = k
    OBVIOUS
  <2> QED  BY <1>8, <2>1
<1>11. \A k \in Nat : search[k] \in A
  <2> HIDE DEF A
  <2> DEFINE Good == {k \in Nat : search[k] \in A}
  <2>1. 0 \in Good
    BY <1>8, <1>5
  <2>2. \A k \in Nat : k \in Good => k + 1 \in Good
    BY <1>3, <1>10
  <2>3. Nat \subseteq Good
    <3> HIDE DEF Good
    <3> QED  BY <2>1, <2>2, FromNowOn
  <2> QED  BY <2>3
<1>12. \A k \in Nat : Searched(g, search[k])
  BY <1>11
<1> QED  BY <1>8, <1>9, <1>12 DEF none

LEMMA SearchEnds ==
  \* In the end a cycle was found, or every stage is done with.
  ASSUME NEW g \in Graphs
  PROVE  \E s : Searched(g, s) /\ SearchOver(s) /\ (findCycle(g) <=> s.found)
<1> DEFINE N == Len(StageNames)
           none == [path |-> <<>>, done |-> <<>>, found |-> FALSE]
<1>1. PICK search : /\ search = [k \in Nat |-> IF k = 0 THEN none ELSE Visit(g, search[k - 1])]
                    /\ findCycle(g) = search[2 * N].found
                    /\ \A k \in Nat : Searched(g, search[k])
  BY SearchGoes
<1> HIDE DEF none
<1>2. \A k \in Nat : search[k + 1] = Visit(g, search[k])
  <2>1. \A k \in Nat : k + 1 \in Nat /\ k + 1 # 0 /\ (k + 1) - 1 = k
    OBVIOUS
  <2> QED  BY <1>1, <2>1
<1>3. ASSUME NEW s, Searched(g, s) PROVE Taken(s) \in Nat
  <2>1. PICK a \in Nat, b \in Nat : Len(s.done) = a /\ Len(s.path) = b
    BY <1>3, NoMoreThanThere
  <2>2. Taken(s) = 2 * a + b
    BY <2>1 DEF Taken
  <2> QED  BY <2>2
<1> DEFINE Good == {k \in Nat : SearchOver(search[k]) \/ Taken(search[k]) >= k}
<1>4. 0 \in Good
  BY <1>1, <1>3
<1>5. ASSUME NEW k \in Nat, k \in Good PROVE k + 1 \in Good
  <2>1. Searched(g, search[k]) /\ Searched(g, search[k + 1]) /\ search[k + 1] = Visit(g, search[k])
    BY <1>1, <1>2
  <2>2. CASE SearchOver(search[k])
    <3>1. SearchOver(search[k + 1])
      BY <2>1, <2>2, VisitKeeps
    <3> QED  BY <3>1
  <2>3. CASE ~SearchOver(search[k])
    <3>1. search[k + 1].found \/ Taken(search[k + 1]) = Taken(search[k]) + 1
      BY <2>1, <2>3, VisitKeeps
    <3>2. Taken(search[k]) >= k /\ Taken(search[k]) \in Nat
      BY <1>3, <1>5, <2>1, <2>3
    <3>3. search[k + 1].found => SearchOver(search[k + 1])
      BY DEF SearchOver
    <3> QED  BY <3>1, <3>2, <3>3
  <2> QED  BY <2>2, <2>3
<1>6. Nat \subseteq Good
  <2> HIDE DEF Good
  <2> QED  BY <1>4, <1>5, FromNowOn
<1>7. N \in Nat /\ Cardinality(Stages) \in Nat /\ Cardinality(Stages) <= N
  BY NamesAre, StagesAre
<1> HIDE DEF N
<1>8. PICK n \in Nat : n = 2 * N
  BY <1>7
<1>9. PICK s : s = search[n] /\ Searched(g, s) /\ (SearchOver(s) \/ Taken(s) >= n)
  BY <1>1, <1>6
<1>10. SearchOver(s)
  <2>1. CASE Taken(s) >= n
    <3>1. PICK a \in Nat, b \in Nat : Len(s.done) = a /\ Len(s.path) = b
      BY <1>9, NoMoreThanThere
    <3>2. a + b <= Cardinality(Stages) /\ (a = Cardinality(Stages) => Stages \subseteq Range(s.done))
      BY <1>9, <3>1, NoMoreThanThere
    <3>3. Taken(s) = 2 * a + b
      BY <3>1 DEF Taken
    <3>4. PICK c \in Nat : c = Cardinality(Stages)
      BY <1>7
    <3>5. 2 * a + b >= 2 * N /\ a + b <= c /\ c <= N
      BY <1>7, <1>8, <2>1, <3>2, <3>3, <3>4
    <3>6. a = c
      BY <1>7, <3>5
    <3> QED  BY <3>2, <3>4, <3>6 DEF SearchOver
  <2> QED  BY <1>9, <2>1
<1>11. findCycle(g) <=> s.found
  BY <1>1, <1>8, <1>9
<1> QED  BY <1>9, <1>10, <1>11

LEMMA ParseIs ==
  \* A pipeline is refused exactly when no order of its stages would do.
  ASSUME NEW g \in Graphs
  PROVE  Parse(g) <=> Acyclic(g)
<1> DEFINE N == Len(StageNames)
<1>1. PICK s : Searched(g, s) /\ SearchOver(s) /\ (findCycle(g) <=> s.found)
  BY SearchEnds
<1>2. \A n \in Stages : g[n] \subseteq Stages
  BY DEF Graphs
<1>3. N \in Nat
  BY NamesAre
<1>4. s.done \in Seq(Stages) /\ s.path \in Seq(Stages)
  BY <1>1 DEF Searched, Searches
<1>5. ASSUME Parse(g) PROVE Acyclic(g)
  <2> DEFINE m == Len(s.done)
             f == [n \in Stages |-> CHOOSE k \in 1..m : s.done[k] = n]
  <2>1. Stages \subseteq Range(s.done)
    BY <1>1, <1>5 DEF Parse, SearchOver
  <2>2. Range(s.done) = {s.done[k] : k \in 1..m} /\ m \in Nat
    BY <1>4, RangeIs
  <2>3. m <= N
    <3>1. PICK a \in Nat, b \in Nat, c \in Nat : m = a /\ Len(s.path) = b /\ Cardinality(Stages) = c
      BY <1>1, NoMoreThanThere, StagesAre
    <3>2. a + b <= c /\ c <= N
      BY <1>1, <3>1, NoMoreThanThere, StagesAre
    <3> HIDE DEF N
    <3> QED  BY <1>3, <3>1, <3>2
  <2>4. InOrder(g, s.done)
    BY <1>1 DEF Searched
  <2>5. ASSUME NEW n \in Stages PROVE f[n] \in 1..m /\ s.done[f[n]] = n
    <3>1. \E k \in 1..m : s.done[k] = n
      <4> HIDE DEF m
      <4> QED  BY <2>1, <2>2
    <3> HIDE DEF m
    <3> QED  BY <3>1
  <2> HIDE DEF f
  <2>6. ASSUME NEW n \in Stages, NEW d \in g[n] PROVE f[d] < f[n]
    <3>1. d \in Stages
      BY <1>2
    <3>2. \E j \in 1..(f[n] - 1) : s.done[j] = d
      <4>1. f[n] \in 1..m /\ s.done[f[n]] = n
        BY <2>5
      <4> QED  BY <2>4, <4>1 DEF InOrder
    <3>3. PICK j \in 1..(f[n] - 1) : s.done[j] = d
      BY <3>2
    <3>4. f[n] \in 1..m /\ f[d] \in 1..m /\ s.done[f[d]] = d
      BY <2>5, <3>1
    <3>5. j \in 1..m
      <4> HIDE DEF m
      <4> QED  BY <2>2, <3>3, <3>4
    <3>6. j = f[d]
      BY <2>4, <3>3, <3>4, <3>5 DEF InOrder
    <3> HIDE DEF m
    <3> QED  BY <2>2, <3>3, <3>4, <3>6
  <2>7. f \in [Stages -> 1..N]
    <3>1. f = [n \in Stages |-> f[n]]
      BY DEF f
    <3>2. \A n \in Stages : f[n] \in 1..N
      <4> HIDE DEF m, N
      <4> QED  BY <1>3, <2>2, <2>3, <2>5
    <3> HIDE DEF m, N
    <3> QED  BY <3>1, <3>2
  <2> QED  BY <2>6, <2>7 DEF Acyclic
<1>6. ASSUME Acyclic(g) PROVE Parse(g)
  <2>1. PICK f \in [Stages -> 1..N] : \A n \in Stages : \A d \in g[n] : f[d] < f[n]
    BY <1>6 DEF Acyclic
  <2> HIDE DEF N
  <2>2. \A n \in Stages : f[n] \in Nat
    BY <1>3, <2>1
  <2>3. \A n \in Stages : n \notin g[n]
    BY <2>1, <2>2
  <2>4. ~s.found
    <3> SUFFICES ASSUME s.found PROVE FALSE
      OBVIOUS
    <3> DEFINE p == s.path
               b == Len(p)
    <3>1. PICK i \in 1..b : p[i] \in g[Last(p)]
      BY <1>1 DEF Searched
    <3>2. b \in Nat /\ \A k \in 1..b : p[k] \in Stages
      BY <1>4
    <3>3. Last(p) = p[b]
      BY DEF Last
    <3>4. \A k \in 1..b : k + 1 \in 1..b => p[k + 1] \in g[p[k]]
      BY <1>1 DEF Searched, Chain
    <3> HIDE DEF p, b
    <3> DEFINE Down == {k \in Nat : i + k <= b => f[p[i + k]] <= f[p[i]]}
    <3>5. 0 \in Down
      <4>1. i + 0 = i /\ f[p[i]] \in Nat
        BY <2>2, <3>2
      <4> QED  BY <4>1
    <3>6. ASSUME NEW k \in Nat, k \in Down PROVE k + 1 \in Down
      <4>1. SUFFICES ASSUME i + (k + 1) <= b PROVE f[p[i + (k + 1)]] <= f[p[i]]
        OBVIOUS
      <4>2. i + k \in 1..b /\ i + (k + 1) \in 1..b /\ i + (k + 1) = (i + k) + 1 /\ i + k <= b
        BY <3>2, <4>1
      <4>3. p[i + (k + 1)] \in g[p[i + k]] /\ p[i + k] \in Stages /\ p[i + (k + 1)] \in Stages /\ p[i] \in Stages
        BY <3>2, <3>4, <4>2
      <4>4. f[p[i + (k + 1)]] < f[p[i + k]] /\ f[p[i + k]] <= f[p[i]]
        BY <2>1, <3>6, <4>2, <4>3
      <4>5. f[p[i + (k + 1)]] \in Nat /\ f[p[i + k]] \in Nat /\ f[p[i]] \in Nat
        BY <2>2, <4>3
      <4> QED  BY <4>4, <4>5
    <3>7. Nat \subseteq Down
      <4> HIDE DEF Down
      <4> QED  BY <3>5, <3>6, FromNowOn
    <3>8. b - i \in Nat /\ i + (b - i) = b /\ b \in 1..b
      BY <3>2
    <3>9. f[p[b]] <= f[p[i]]
      BY <3>7, <3>8
    <3>10. f[p[i]] < f[p[b]]
      BY <2>1, <3>1, <3>2, <3>3, <3>8
    <3> QED  BY <2>2, <3>2, <3>8, <3>9, <3>10
  <2> QED  BY <1>1, <1>2, <2>3, <2>4 DEF Parse
<1> QED  BY <1>5, <1>6

LEMMA UnderstoodIs ==
  \* What is asked is understood.
  Understood
<1>1. \A line, script \in Given :
        LET o == Options(line, script)
        IN  /\ o.time = (IF line.time # "" THEN line.time ELSE script.time)
            /\ o.nodelist = line.nodelist \cup script.nodelist
  BY OptionsAre
<1>2. \A p, q \in Parts :
        LET union == {i \in 0..5 : \E r \in {p, q} : i >= r.lo /\ i <= r.hi /\ (i - r.lo) % r.step = 0}
            down == \E r \in {p, q} : r.hi < r.lo
        IN  ParseArray({p, q}) = IF down \/ Cardinality(union) > MaxArrayTasks THEN Failed ELSE union
  BY ArrayIsRead, Zenon
<1>3. \A g \in Graphs : Parse(g) <=> Acyclic(g)
  BY ParseIs, Zenon
<1> QED  BY <1>1, <1>2, <1>3, Zenon DEF Understood

-----------------------------------------------------------------------------
(* The theorems *)

LEMMA HandedHolds == SubSpec => []HandedInv
  \* The invariant holds in every state.
<1>1. SubInit => HandedInv
  BY HandedStart
<1>2. HandedInv /\ [SubNext]_subVars => HandedInv'
  BY HandedStep
<1> QED  BY <1>1, <1>2, PTL DEF SubSpec

\* The tables hold what their columns are for, and whatever names a job names one
\* that was submitted (SubmitRow, SetArrayJob).
THEOREM SubmissionsTypeCorrect == SubSpec => []SubmissionsTypeOK
<1>1. HandedInv => SubmissionsTypeOK
  BY HandedMeans
<1> QED  BY <1>1, HandedHolds, PTL

\* Whatever the clients, the arrays and the pipelines, and wherever a request breaks
\* off: what was submitted is what was asked for (ParseArray, findCycle, runPipeline,
\* SetHeld, Release).
THEOREM SubmittedAsAskedHolds == SubSpec => []SubmittedAsAsked
<1>1. HandedInv => SubmittedAsAsked
  BY HandedMeans, UnderstoodIs DEF SubmittedAsAsked
<1> QED  BY <1>1, HandedHolds, PTL

\* The passes and what is handed in keep the types of their tables while they and one
\* job's record take turns.
THEOREM PlacementTypeCorrect == PlacementSpec => []PlacementTypeOK
<1> DEFINE Inv == SchedInv /\ HandedInv
           Turns == PlacementInit /\ [][PlacementNext]_<<part, jobVars, vars, subVars>>
<1>1. PlacementInit => Inv
  BY SchedInit, HandedStart DEF PlacementInit
<1>2. Inv /\ [PlacementNext]_<<part, jobVars, vars, subVars>> => Inv'
  <2>1. SUFFICES ASSUME Inv, [PlacementNext]_<<part, jobVars, vars, subVars>> PROVE Inv'
    OBVIOUS
  <2>2. ([Next]_vars /\ [SubNext]_subVars)
    BY <2>1, Zenon DEF PlacementNext
  <2> QED  BY <2>1, <2>2, SchedStep, HandedStep
<1>3. Inv => PlacementTypeOK
  BY HandedMeans, SchedInvIsTypeOK DEF PlacementTypeOK
<1>4. PlacementSpec => Turns
  BY DEF PlacementSpec
<1> HIDE DEF Inv
<1> QED  BY <1>1, <1>2, <1>3, <1>4, PTL

=============================================================================
