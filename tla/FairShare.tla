----------------------------- MODULE FairShare -----------------------------
(***************************************************************************)
(* The order of the queue when the machine is full: every account's past   *)
(* usage, halved with time, gives it a standing, and a standing, the wait  *)
(* and the size of a job give the job its priority.  Standings are kept    *)
(* for a few seconds, and are worked out outside the lock that guards      *)
(* them: an admin may change the shares meanwhile.                         *)
(*                                                                         *)
(* One machine with room for one job.  Time goes in ticks, which are long: *)
(* a pass is made before the next tick when there is a job to start, and   *)
(* nobody works out standings for as long as a tick.  Usage is halved by   *)
(* every tick; standings and priorities are in thousandths.                *)
(***************************************************************************)
EXTENDS Integers, Sequences, FiniteSets, FiniteSetsExt

CONSTANTS
  People, Nobody,
  Cost,         \* what a job of each person uses in a tick
  Length,       \* how many ticks it runs
  Waiting,      \* bound: how many jobs of each person wait at a time
  Policies,     \* the policies considered
  SharesAt(_),  \* the shares by the number of times they were changed
  MaxAge, TTL,  \* in ticks: when waiting counts in full, how long standings are kept
  MaxChanges    \* bound: changes of the shares

VARIABLES
  policy,       \* the policy in force
  usage,        \* what each person has used
  line,         \* the jobs that wait, as they were submitted
  slot,         \* whose job runs, and for how long
  version,      \* how often the shares were changed
  cached,       \* the standings kept
  busy,         \* the standings that are being worked out, by whom
  dropping,     \* a change was saved, and the standings are to be dropped
  since,        \* history: ticks since a version of the shares was replaced
  lag           \* history: the same, of the standings used last

fairVars == <<policy, usage, line, slot, version, cached, busy, dropping, since, lag>>

Versions == 0..MaxChanges

\* Everybody has shares (SharesOf), jobs use something, run and wait for a while.
ASSUME ShareAssumption ==
  /\ IsFiniteSet(People) /\ Nobody \notin People
  /\ Cost \in [People -> Nat \ {0}] /\ Waiting \in [People -> Nat]
  /\ Length \in Nat \ {0} /\ MaxAge \in Nat \ {0} /\ TTL \in Nat \ {0} /\ MaxChanges \in Nat
  /\ \A c \in Policies : c \in [enabled: BOOLEAN, fair: Int, age: Int, size: Int, favorSmall: BOOLEAN]
  /\ \A v \in Versions : SharesAt(v) \in [People -> Nat \ {0}]

Readers == {"pass", "reader"} \* a scheduling pass, somebody who asks for the standings
None == [on |-> FALSE, age |-> 0, key |-> 0, of |-> 0, factor |-> [p \in People |-> 1000]]
Standing == [on: BOOLEAN, age: 0..TTL, key: Versions, of: Versions, factor: [People -> 0..1000]]

FairTypeOK ==
  /\ policy \in Policies /\ usage \in [People -> Nat]
  /\ line \in Seq([who: People, age: 0..MaxAge])
  /\ \A p \in People : Cardinality({i \in DOMAIN line : line[i].who = p}) <= Waiting[p]
  /\ slot \in [who: People \cup {Nobody}, left: Nat] /\ (slot.who = Nobody <=> slot.left = 0)
  /\ version \in Versions /\ cached \in Standing /\ busy \in [Readers -> Standing]
  /\ dropping \in BOOLEAN /\ since \in [Versions -> 0..TTL] /\ lag \in 0..TTL
  /\ \A p \in People : usage[p] <= 2 * Cost[p]

\* A policy that is in force scores jobs by something.
validPriority(c) == c.fair >= 0 /\ c.age >= 0 /\ c.size >= 0 /\ (c.enabled => c.fair + c.age + c.size > 0)

ShareInit ==
  /\ policy \in {c \in Policies : validPriority(c)} /\ usage = [p \in People |-> 0] /\ line = <<>>
  /\ slot = [who |-> Nobody, left |-> 0] /\ version = 0 /\ cached = None
  /\ busy = [r \in Readers |-> None] /\ dropping = FALSE
  /\ since = [v \in Versions |-> 0] /\ lag = 0

-----------------------------------------------------------------------------
(* Standings *)

Total(f) == MapThenSumSet(LAMBDA p : f[p], People)

\* 2^-x for x in hundredths, in thousandths: halved for every whole part, a line between.
HalfTo[x \in Nat] == IF x < 100 THEN (1000 * (200 - x)) \div 200 ELSE HalfTo[x - 100] \div 2

\* Mutant: the account that used its share has the better standing.
FairFactorMutant(used, total, share, shares) ==
  IF used = 0 THEN 0 ELSE 1000 - HalfTo[(100 * used * shares) \div (total * share)]

\* How much less than its share an account has used: 1 when nothing, a half when exactly that.
FairFactor(used, total, share, shares) ==
  IF used = 0 THEN 1000 ELSE HalfTo[(100 * used * shares) \div (total * share)]

SharesFor(v) == [p \in People |->
  FairFactor(usage[p], Total(usage), SharesAt(v)[p], Total(SharesAt(v)))]

-----------------------------------------------------------------------------
(* Priorities *)

Age(j) == (1000 * j.age) \div MaxAge
Biggest == Max({Cost[line[i].who] : i \in DOMAIN line})
SizeOf(j) ==
  LET part == (1000 * Cost[j.who]) \div Biggest IN IF policy.favorSmall THEN 1000 - part ELSE part

Score(j, factor) ==
  (policy.fair * factor[j.who] + policy.age * Age(j) + policy.size * SizeOf(j))
    \div (policy.fair + policy.age + policy.size)

\* The job that comes first: the best priority, then the one submitted first; submission order
\* when priorities are off.
First(factor) ==
  IF ~policy.enabled THEN 1
  ELSE CHOOSE i \in DOMAIN line : \A k \in DOMAIN line \ {i} :
         \/ Score(line[i], factor) > Score(line[k], factor)
         \/ Score(line[i], factor) = Score(line[k], factor) /\ i < k

\* The pass starts the job that comes first.
Begin(factor) ==
  LET i == First(factor) IN
  /\ slot' = [who |-> line[i].who, left |-> Length]
  /\ line' = [k \in 1..(Len(line) - 1) |-> IF k < i THEN line[k] ELSE line[k + 1]]

-----------------------------------------------------------------------------
(* Steps *)

Submit(p) ==
  /\ Cardinality({i \in DOMAIN line : line[i].who = p}) < Waiting[p]
  /\ line' = Append(line, [who |-> p, age |-> 0])
  /\ UNCHANGED <<policy, usage, slot, version, cached, busy, dropping, since, lag>>

\* There is a job to start; somebody who asks may do so at any time.
Wanted(r) == r = "pass" => slot.who = Nobody /\ line # <<>>

Older(a, max) == IF a < max THEN a + 1 ELSE max
Consumed(p) == IF slot.who = p THEN Cost[p] ELSE 0
Decay(used) == used \div 2

\* Time passes: jobs get older, usage counts for less, and the job that runs nears its end.
Tick ==
  /\ (\A r \in Readers : ~busy[r].on) /\ ~Wanted("pass")
  /\ usage' = [p \in People |-> Decay(usage[p]) + Consumed(p)]
  /\ line' = [i \in DOMAIN line |-> [line[i] EXCEPT !.age = Older(@, MaxAge)]]
  /\ slot' = IF slot.left <= 1 THEN [who |-> Nobody, left |-> 0] ELSE [slot EXCEPT !.left = @ - 1]
  /\ cached' = [cached EXCEPT !.age = IF cached.on THEN Older(@, TTL) ELSE 0]
  /\ since' = [v \in Versions |-> IF v < version THEN Older(since[v], TTL) ELSE 0]
  /\ UNCHANGED <<policy, version, busy, dropping, lag>>

\* Mutant: standings are good as long as the policy is the same.
FreshMutant == cached.on /\ cached.key = version

Fresh == cached.on /\ cached.age < TTL /\ cached.key = version

\* The standings kept are good enough.
UseKept(r) ==
  /\ policy.enabled /\ Wanted(r) /\ ~busy[r].on /\ Fresh /\ lag' = since[cached.of]
  /\ IF r = "pass" THEN Begin(cached.factor) ELSE UNCHANGED <<line, slot>>
  /\ UNCHANGED <<policy, usage, version, cached, busy, dropping, since>>

\* They are not: the shares are taken as they are now, and the history is read.
Read(r) ==
  /\ policy.enabled /\ Wanted(r) /\ ~busy[r].on /\ ~Fresh
  /\ busy' = [busy EXCEPT ![r] = [on |-> TRUE, age |-> 0, key |-> version, of |-> version,
                                  factor |-> SharesFor(version)]]
  /\ UNCHANGED <<policy, usage, line, slot, version, cached, dropping, since, lag>>

\* The new standings are kept, and used.
Keep(r) ==
  /\ busy[r].on /\ cached' = busy[r] /\ busy' = [busy EXCEPT ![r] = None]
  /\ lag' = since[busy[r].of]
  /\ IF r = "pass" /\ Wanted(r) THEN Begin(busy[r].factor) ELSE UNCHANGED <<line, slot>>
  /\ UNCHANGED <<policy, usage, version, dropping, since>>

\* Submission order needs no standings.
InOrder ==
  /\ ~policy.enabled /\ Wanted("pass") /\ Begin(None.factor)
  /\ UNCHANGED <<policy, usage, version, cached, busy, dropping, since, lag>>

\* The shares change.  Somebody who holds the very map that is changed holds the new shares from
\* then on, without having worked out anything by them.
Change(api) ==
  /\ version < MaxChanges /\ ~dropping /\ version' = version + 1 /\ dropping' = api
  /\ \E same \in IF api THEN BOOLEAN ELSE {FALSE} :
       LET Held(s) == IF same /\ s.on /\ s.key = version THEN [s EXCEPT !.key = version + 1] ELSE s IN
       /\ cached' = Held(cached) /\ busy' = [r \in Readers |-> Held(busy[r])]
  /\ UNCHANGED <<policy, usage, line, slot, since, lag>>

SetUserShares == Change(TRUE)   \* by command
EditByHand == Change(FALSE)     \* in the file

\* The last thing the command does.
Drop ==
  /\ dropping /\ dropping' = FALSE /\ cached' = None
  /\ UNCHANGED <<policy, usage, line, slot, version, busy, since, lag>>

ShareNext ==
  \/ \E p \in People : Submit(p)
  \/ Tick
  \/ \E r \in Readers : UseKept(r)
  \/ \E r \in Readers : Read(r)
  \/ \E r \in Readers : Keep(r)
  \/ InOrder
  \/ SetUserShares
  \/ EditByHand
  \/ Drop

Pass == UseKept("pass") \/ Read("pass") \/ Keep("pass") \/ InOrder

\* Passes run again and again, what has begun ends, and time goes on.
FairShareFairness ==
  /\ WF_fairVars(Pass) /\ WF_fairVars(Keep("reader")) /\ WF_fairVars(Drop) /\ WF_fairVars(Tick)

FairShareSpec == ShareInit /\ [][ShareNext]_fairVars /\ FairShareFairness

-----------------------------------------------------------------------------

\* Whoever waits gets a turn, whatever the others submit: usage fades while one waits, so the
\* standing of a person who is passed over rises above that of those who run (FairFactor, Order).
EveryoneGetsATurn ==
  \A p \in People : (\E i \in DOMAIN line : line[i].who = p) ~> slot.who = p

\* Nobody is ordered or shown by shares that were replaced longer ago than standings are kept, not
\* even when the change came while the standings were being worked out (Shares, SetUserShares).
StandingsAreRecent == lag < TTL

=============================================================================
