------------------------------ MODULE Planner ------------------------------
(***************************************************************************)
(* The scheduler's pure part (internal/sched): which machine has room for  *)
(* a job, when a machine will have room, and which set of machines serves  *)
(* a request that none of them can serve alone.                            *)
(*                                                                         *)
(* Amounts are vectors over the kinds of resources, one of which is "cpu". *)
(* A job's spec is a record: user, want (a vector), wall (time limit, 0    *)
(* for none), deps, total (an aggregate vector), maxNodes (0 for no        *)
(* bound), list (the names in its --nodelist) and match (the nodes that    *)
(* satisfy its --constraint).                                              *)
(***************************************************************************)
EXTENDS Integers, Sequences, FiniteSets, FiniteSetsExt, SequencesExt

CONSTANTS
  Kinds,       \* kinds of resources
  NodeOrder,   \* the nodes in the order the store lists them
  Cap          \* per node: its capacity, a vector

Fleet == {NodeOrder[i] : i \in DOMAIN NodeOrder}
Vectors == [Kinds -> Int]
Amounts == [Kinds -> Nat]
Zero == [k \in Kinds |-> 0]
Plus(a, b) == [k \in Kinds |-> a[k] + b[k]]
Minus(a, b) == [k \in Kinds |-> a[k] - b[k]]
AtMost(a, b) == \A k \in Kinds : a[k] <= b[k]
AtLeast0(n) == IF n < 0 THEN 0 ELSE n
Least(a, b) == IF a < b THEN a ELSE b

\* There is a machine, and machines have CPUs.
ASSUME PlannerAssumption ==
  /\ NodeOrder \in Seq(Fleet) /\ NodeOrder # <<>>
  /\ "cpu" \in Kinds /\ Cap \in [Fleet -> Amounts]

\* What a job occupies on its node: a CPU at the least.
Charge(spec) == [spec.want EXCEPT !["cpu"] = IF @ = 0 THEN 1 ELSE @]

Aggregated(spec) == spec.total # Zero

-----------------------------------------------------------------------------
(* One node *)

\* used: per node, what is taken of it.  ups: the nodes that are not drained.
Free(used, n) == Minus(Cap[n], used[n])

Listed(spec, n) == spec.list = {} \/ n \in spec.list

FitsEmpty(spec, n) == Listed(spec, n) /\ n \in spec.match /\ AtMost(Charge(spec), Cap[n])

\* Mutant: the capacity is compared, not what is free of it.
FitsMutant(spec, n, used) == FitsEmpty(spec, n)

Fits(spec, n, used) == FitsEmpty(spec, n) /\ AtMost(Charge(spec), Free(used, n))

\* Mutant: any time limit will do.
EndsBeforeMutant(spec, now, until) == spec.wall > 0

EndsBefore(spec, now, until) == spec.wall > 0 /\ now + spec.wall <= until

\* held: per node, when it is promised to a waiting job; -1 for not at all.
MayUse(spec, n, held, now) == held[n] = -1 \/ EndsBefore(spec, now, held[n])

\* The first node in store order with room nobody waits for: at most one.
PlaceFor(spec, used, held, up, now) ==
  LET room(n) == n \in up /\ Fits(spec, n, used) /\ MayUse(spec, n, held, now)
      first(i) == \A j \in 1..(i - 1) : ~room(NodeOrder[j])
  IN  {NodeOrder[i] : i \in {i \in DOMAIN NodeOrder : room(NodeOrder[i]) /\ first(i)}}

\* What is still taken of n once every job in ended is gone.  live: jobs on the
\* node, records with spec and ends (0 for no time limit).
TakenAfter(used, n, ended) ==
  [k \in Kinds |-> AtLeast0(used[n][k] - MapThenSumSet(LAMBDA r : Charge(r.spec)[k], ended))]

Ending(live, t) == {r \in live : r.ends # 0 /\ r.ends <= t}

\* The times at which enough running jobs have run into their limits.
FreesUpTimes(spec, n, used, live, now) ==
  IF Fits(spec, n, used) THEN {now}
  ELSE {IF t < now THEN now ELSE t : t \in
          {r.ends : r \in {q \in live :
             /\ q.ends # 0
             /\ Fits(spec, n, [used EXCEPT ![n] = TakenAfter(used, n, Ending(live, q.ends))])}}}

\* Where and when a waiting job could start: pairs <<node, time>>, at most one.
\* Nodes that are promised already are not offered again.
Reservation(spec, used, held, up, live, now) ==
  LET offers == {n \in up : held[n] = -1 /\ FitsEmpty(spec, n)
                            /\ FreesUpTimes(spec, n, used, live[n], now) # {}}
      at(n) == Min(FreesUpTimes(spec, n, used, live[n], now))
      rank(n) == CHOOSE i \in DOMAIN NodeOrder : NodeOrder[i] = n
      sooner(m, n) == at(m) < at(n) \/ (at(m) = at(n) /\ rank(m) < rank(n))
  IN  {<<n, at(n)>> : n \in {o \in offers : \A m \in offers : ~sooner(m, o)}}

-----------------------------------------------------------------------------
(* Several nodes: SolveAggregate *)

Satisfied(need) == AtMost(need, Zero)

\* How much of what is asked for a node has free.  Kinds count alike here.
Contribution(req, n, used) ==
  MapThenSumSet(LAMBDA k : Free(used, n)[k], {k \in Kinds : req[k] > 0})

\* Greedy, by descending contribution: take nodes until the need is met.
Greedy(req, max, order, used) ==
  FoldLeft(LAMBDA acc, n :
             IF \/ Satisfied(acc.need)
                \/ (max > 0 /\ Len(acc.chosen) >= max)
                \/ Contribution(req, n, used) = 0
             THEN acc
             ELSE [chosen |-> Append(acc.chosen, n), need |-> Minus(acc.need, Free(used, n))],
           [chosen |-> <<>>, need |-> req], order)

Covered(req, ns, used) ==
  Satisfied([k \in Kinds |-> req[k] - MapThenSumSet(LAMBDA n : Free(used, n)[k], ns)])

\* Mutant: no minimality pass.
NeededMutant(req, chosen, used) == ToSet(chosen)

\* Minimality: front to back, drop every node the others make up for.
Needed(req, chosen, used) ==
  FoldLeft(LAMBDA kept, n : IF Covered(req, kept \ {n}, used) THEN kept \ {n} ELSE kept,
           ToSet(chosen), chosen)

\* Each node's share: what the nodes before it leave of the request, as far as it
\* has it free.
Shares(req, chosen, kept, used) ==
  LET before(n) == {m \in kept : \E i, j \in DOMAIN chosen : chosen[i] = m /\ chosen[j] = n /\ i < j}
  IN  [n \in kept |-> [k \in Kinds |->
         Least(AtLeast0(req[k] - SumFunction([m \in before(n) |-> Free(used, m)[k]])), Free(used, n)[k])]]

\* The orders the sort may produce: ties are in no particular order.
Descending(req, ns, used) ==
  {o \in [1..Cardinality(ns) -> ns] :
     /\ ToSet(o) = ns
     /\ \A i \in 1..Cardinality(ns) - 1 :
          Contribution(req, o[i], used) >= Contribution(req, o[i + 1], used)}

\* The placements SolveAggregate may return: none when the request cannot be met.
SolveAggregate(spec, used, up) ==
  LET solved == {g \in {Greedy(spec.total, spec.maxNodes, o, used) :
                         o \in Descending(spec.total, spec.match \cap up, used)} : Satisfied(g.need)}
      placement(chosen, kept) == [nodes |-> kept, shares |-> Shares(spec.total, chosen, kept, used)]
  IN  {placement(g.chosen, Needed(spec.total, g.chosen, used)) : g \in solved}

=============================================================================
