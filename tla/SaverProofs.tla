---------------------------- MODULE SaverProofs ----------------------------
(***************************************************************************)
(* Proofs about Saver for every number of saves, shards and entries, every *)
(* layout of the shards over directories, and every order of the calls,    *)
(* the failures, the deaths, the loss of power and the reader.             *)
(***************************************************************************)
EXTENDS Saver, FiniteSetTheorems, WellFoundedInduction, TLAPS

\* Where the loop of a call is.
AtInv ==
    \A s \in Savers :
        /\ pc[s] # "undo" => at[s] \in Shards
        /\ pc[s] \in {"check", "fill"} => at[s] = 1

\* Which temporary names a call still has.
TempsInv ==
    \A s \in Savers, k \in Shards :
        <<s, k>> \in temps =>
            /\ pc[s] \notin {"check", "dirs", "returned", "raised"}
            /\ pc[s] = "make" => k < at[s]
            /\ pc[s] \in {"rename", "undo", "cutShort"} => at[s] <= k

Working == {"check", "make", "fill", "sync", "rename", "dirs", "undo"}

\* What a call has written and synced when it has come so far.
WrittenInv ==
    \A s \in Savers :
        /\ pc[s] \in Working => ~lost
        /\ pc[s] = "make" => \A k \in Shards : k < at[s] => <<s, k>> \in head
        /\ pc[s] \in {"fill", "sync", "rename", "dirs"}
              => \A k \in Shards : <<s, k>> \in head
        /\ pc[s] \in {"check", "make", "fill"}
              => \A e \in Entries : task[s][e] = "done" => <<s, e>> \in filled
        /\ pc[s] \in {"sync", "rename", "dirs"}
              => \A e \in Entries : <<s, e>> \in filled
        /\ pc[s] = "sync"
              => /\ fsync[s]
                 /\ \A k \in Shards : k < at[s] => <<s, k>> \in durable
        /\ pc[s] \in {"rename", "dirs"} /\ fsync[s]
              => \A k \in Shards : <<s, k>> \in durable

\* A save that has published a shard has written all of them, and synced them
\* when it should; only a loss of power can take from it what it did not sync.
Finished(s) ==
    /\ fsync[s] => \A k \in Shards : <<s, k>> \in durable
    /\ (lost => fsync[s]) => \A k \in Shards : Whole(<<s, k>>)

\* Only such saves are, or can come to be, under a final name.
PublishedInv ==
    \A k \in Shards :
        /\ final[k] \in past[k]
        /\ \A s \in past[k] : s \in Savers => Finished(s)

\* What the directories that a call has synced say from then on.
Settled(s, k) == past[k] \subseteq Savers /\ (final[k] = s => past[k] = {s})
DirsInv ==
    \A s \in Savers :
        /\ pc[s] # "dirs" => toSync[s] = AllDirs
        /\ pc[s] = "rename"
              => \A k \in Shards : k < at[s] => final[k] \in Savers
        /\ pc[s] = "dirs"
              => \A k \in Shards :
                    /\ final[k] \in Savers
                    /\ Dir[k] \notin toSync[s] => Settled(s, k)
        /\ pc[s] = "returned" /\ fsync[s] => \A k \in Shards : Settled(s, k)

\* What the reader has opened was under a final name.
ReaderInv ==
    /\ \A i \in 1 .. Len(seen) :
          seen[i][1] \in Savers => Finished(seen[i][1])
    /\ verdict = "accepted" => Accepts(seen)

SInv == TypeOK /\ AtInv /\ TempsInv /\ WrittenInv /\ PublishedInv /\ DirsInv
        /\ ReaderInv

-----------------------------------------------------------------------------
(* The plan: PlanShards is a recursive function, so that it has a value is *)
(* itself to be proved, from a least number without one.                   *)

\* A set of numbers that is not empty has a least one: < is well-founded.
LEMMA LeastNumber ==
  ASSUME NEW S \in SUBSET Nat, S # {}
  PROVE  \E x \in S : \A y \in S : x <= y
<1>1. \A y, z \in Nat : y < z => <<y, z>> \in OpToRel(<, Nat)
  BY Zenon DEF OpToRel
<1>2. \E x \in S : \A y \in S : ~(<<y, x>> \in OpToRel(<, Nat))
  BY NatLessThanWellFounded, WFMin
<1>3. \E x \in S : \A y \in S : ~(y < x)
  BY <1>1, <1>2, Zenon
<1>4. QED
  BY <1>3

EmptyPlan(size, n) ==
    [shard |-> [i \in DOMAIN size |-> 0],
     begin |-> [i \in DOMAIN size |-> 0],
     load  |-> [k \in 1 .. n |-> 0]]

PlanStep(size, plan, i) ==
    LET k == Emptiest(plan.load) IN
    [shard |-> [plan.shard EXCEPT ![i] = k],
     begin |-> [plan.begin EXCEPT ![i] = plan.load[k]],
     load  |-> [plan.load EXCEPT ![k] = @ + size[i]]]

\* f holds the plans after the first m entries, and before.
Plans(size, n, f, m) ==
    f = [r \in 0 .. m |-> IF r = 0 THEN EmptyPlan(size, n)
                          ELSE PlanStep(size, f[r - 1], Nth(size, r - 1))]

LEMMA PlansExist ==
  ASSUME NEW size, NEW n, NEW m \in Nat
  PROVE  \E f : Plans(size, n, f, m)
<1> DEFINE Bad == {x \in Nat : ~\E f : Plans(size, n, f, x)}
<1>1. SUFFICES ASSUME Bad # {} PROVE FALSE
  OBVIOUS
<1>2. PICK x \in Bad : \A y \in Bad : x <= y
  BY <1>1, LeastNumber
<1>3. CASE x = 0
  <2> DEFINE f == [r \in 0 .. 0 |-> EmptyPlan(size, n)]
  <2>1. f = [r \in 0 .. 0 |-> IF r = 0 THEN EmptyPlan(size, n)
                              ELSE PlanStep(size, f[r - 1], Nth(size, r - 1))]
    OBVIOUS
  <2>2. Plans(size, n, f, 0)
    BY <2>1 DEF Plans
  <2>3. QED
    BY <1>2, <1>3, <2>2
<1>4. CASE x # 0
  <2>1. x \in Nat /\ x - 1 \in Nat /\ ~(x <= x - 1)
    BY <1>2, <1>4
  <2>2. PICK g : Plans(size, n, g, x - 1)
    BY <1>2, <2>1
  <2>3. \A r \in 0 .. x - 1 :
           g[r] = IF r = 0 THEN EmptyPlan(size, n)
                  ELSE PlanStep(size, g[r - 1], Nth(size, r - 1))
    BY <2>2 DEF Plans
  <2> DEFINE f == [r \in 0 .. x |->
                     IF r < x THEN g[r]
                     ELSE PlanStep(size, g[x - 1], Nth(size, x - 1))]
             Goal(r) == IF r = 0 THEN EmptyPlan(size, n)
                        ELSE PlanStep(size, f[r - 1], Nth(size, r - 1))
  <2>4. ASSUME NEW r \in 0 .. x PROVE f[r] = Goal(r)
    <3>1. CASE r = 0
      <4>1. r < x /\ r \in 0 .. x - 1
        BY <2>1, <3>1, <1>4
      <4>2. QED
        BY <2>3, <3>1, <4>1
    <3>2. CASE r # 0
      <4>1. r - 1 \in 0 .. x /\ r - 1 < x /\ f[r - 1] = g[r - 1]
        BY <2>1, <3>2
      <4>2. CASE r < x
        <5>1. r \in 0 .. x - 1
          BY <2>1, <4>2
        <5>2. f[r] = g[r]
          BY <4>2
        <5>3. g[r] = PlanStep(size, g[r - 1], Nth(size, r - 1))
          BY <2>3, <3>2, <5>1
        <5>4. QED
          BY <3>2, <4>1, <5>2, <5>3
      <4>3. CASE ~(r < x)
        <5>1. r = x
          BY <2>1, <4>3
        <5>2. f[r] = PlanStep(size, g[x - 1], Nth(size, x - 1))
          BY <4>3
        <5>3. QED
          BY <3>2, <4>1, <5>1, <5>2
      <4>4. QED
        BY <4>2, <4>3
    <3>3. QED
      BY <3>1, <3>2
  <2>5. f = [r \in 0 .. x |-> Goal(r)]
    <3>1. f = [r \in 0 .. x |-> f[r]]
      OBVIOUS
    <3> HIDE DEF f
    <3>2. QED
      BY <2>4, <3>1
  <2>6. Plans(size, n, f, x)
    <3> HIDE DEF f
    <3>1. QED
      BY <2>5 DEF Plans
  <2>7. QED
    <3> HIDE DEF f
    <3>1. QED
      BY <1>2, <2>6
<1>5. QED
  BY <1>3, <1>4

-----------------------------------------------------------------------------
(* What a plan says.                                                       *)

\* How many entries come before an entry
Rank(size, i) == Cardinality({j \in DOMAIN size : Before(size, j, i)})

LEMMA RankOfEntry ==
  ASSUME NEW size \in Seq(Nat), NEW i \in DOMAIN size
  PROVE  Rank(size, i) \in 0 .. Len(size) - 1
<1> DEFINE A == {j \in DOMAIN size : Before(size, j, i)}
<1>1. /\ DOMAIN size = 1 .. Len(size) /\ Len(size) \in Nat
      /\ size[i] \in Nat /\ i \in Nat
  OBVIOUS
<1>2. IsFiniteSet(DOMAIN size) /\ Cardinality(DOMAIN size) = Len(size)
  <2>1. Len(size) \in Int /\ 1 \in Int /\ DOMAIN size = 1 .. Len(size)
    BY <1>1
  <2>2. /\ IsFiniteSet(1 .. Len(size))
        /\ Cardinality(1 .. Len(size)) = IF 1 > Len(size) THEN 0
                                         ELSE Len(size) - 1 + 1
    BY <2>1, FS_Interval
  <2>3. Cardinality(1 .. Len(size)) = Len(size)
    BY <1>1, <2>2
  <2>4. QED
    BY <2>1, <2>2, <2>3
<1>3. i \notin A /\ A \in SUBSET DOMAIN size
  BY <1>1 DEF Before
<1>4. Cardinality(A) <= Len(size) /\ Cardinality(A) # Len(size)
  BY <1>2, <1>3, FS_Subset
<1>5. Cardinality(A) \in Nat
  BY <1>2, <1>3, FS_Subset, FS_CardinalityType
<1> HIDE DEF A
<1>6. Cardinality(A) \in 0 .. Len(size) - 1
  BY <1>1, <1>4, <1>5
<1>7. QED
  BY <1>6 DEF Rank, A

LEMMA RanksDiffer ==
  ASSUME NEW size \in Seq(Nat), NEW i \in DOMAIN size, NEW j \in DOMAIN size,
         Before(size, i, j)
  PROVE  Rank(size, i) # Rank(size, j)
<1> DEFINE A == {x \in DOMAIN size : Before(size, x, i)}
           B == {x \in DOMAIN size : Before(size, x, j)}
<1>1. /\ DOMAIN size = 1 .. Len(size) /\ Len(size) \in Nat
      /\ \A x \in DOMAIN size : size[x] \in Nat /\ x \in Nat
  OBVIOUS
<1>2. IsFiniteSet(DOMAIN size)
  BY <1>1, FS_Interval
<1>3. A \in SUBSET B /\ i \in B /\ i \notin A /\ B \in SUBSET DOMAIN size
  BY <1>1 DEF Before
<1>4. IsFiniteSet(B)
  BY <1>2, <1>3, FS_Subset
<1>5. Cardinality(A) # Cardinality(B)
  BY <1>3, <1>4, FS_Subset
<1>6. QED
  BY <1>5 DEF Rank

\* The entry with r others before it is there.
LEMMA NthHasRank ==
  ASSUME NEW size \in Seq(Nat), NEW r \in 0 .. Len(size) - 1
  PROVE  Nth(size, r) \in DOMAIN size /\ Rank(size, Nth(size, r)) = r
<1> DEFINE D == DOMAIN size
           T == 0 .. Len(size) - 1
           f == [i \in D |-> Rank(size, i)]
<1>1. D = 1 .. Len(size) /\ Len(size) \in Nat
      /\ \A x \in D : size[x] \in Nat /\ x \in Nat
  OBVIOUS
<1>2. IsFiniteSet(D) /\ Cardinality(D) = Len(size)
  BY SMTT(30), <1>1, FS_Interval
<1>3. IsFiniteSet(T) /\ Cardinality(T) = Len(size)
  <2>1. 0 \in Int /\ Len(size) - 1 \in Int
    BY <1>1
  <2>2. /\ IsFiniteSet(T)
        /\ Cardinality(T) = IF 0 > Len(size) - 1 THEN 0
                            ELSE Len(size) - 1 - 0 + 1
    BY <2>1, FS_Interval
  <2>3. QED
    BY <1>1, <2>2
<1>4. \A i, j \in D : i # j => Before(size, i, j) \/ Before(size, j, i)
  BY <1>1 DEF Before
<1>5. \A i, j \in D : i # j => Rank(size, i) # Rank(size, j)
  BY <1>4, RanksDiffer
<1>6. f \in Injection(D, T)
  <2>1. f \in [D -> T]
    BY RankOfEntry
  <2>2. QED
    BY <1>5, <2>1 DEF Injection, IsInjective
<1>7. f \in Surjection(D, T)
  BY <1>2, <1>3, <1>6, FS_Injection
<1>8. PICK i \in D : f[i] = r
  BY <1>7 DEF Surjection
<1>9. \E x \in D : Rank(size, x) = r
  BY <1>8
<1>10. QED
  BY <1>9 DEF Nth, Rank

LEMMA EmptiestShard ==
  ASSUME NEW n \in Nat \ {0}, NEW load \in [1 .. n -> Nat]
  PROVE  Emptiest(load) \in 1 .. n
<1> DEFINE lows == {load[k] : k \in 1 .. n}
<1>1. lows \in SUBSET Nat /\ lows # {}
  <2>1. 1 \in 1 .. n
    OBVIOUS
  <2>2. QED
    BY <2>1
<1>2. PICK m \in lows : \A x \in lows : m <= x
  BY <1>1, LeastNumber
<1> DEFINE first == {k \in 1 .. n : load[k] = m}
<1>3. first \in SUBSET Nat /\ first # {}
  BY <1>2
<1>4. PICK k \in first : \A x \in first : k <= x
  BY <1>3, LeastNumber
<1>5. \A j \in 1 .. n : load[k] < load[j] \/ (load[k] = load[j] /\ k <= j)
  <2>1. SUFFICES ASSUME NEW j \in 1 .. n, ~(load[k] < load[j])
                 PROVE  load[k] = load[j] /\ k <= j
    OBVIOUS
  <2>2. load[k] = m /\ load[j] \in lows /\ load[j] \in Nat /\ m \in Nat
    BY <1>1, <1>2, <1>4
  <2>3. load[j] = m
    <3>1. m <= load[j] /\ ~(m < load[j])
      BY <1>2, <2>1, <2>2
    <3>2. QED
      BY <2>2, <3>1
  <2>4. QED
    BY <1>4, <2>2, <2>3
<1>6. k \in 1 .. n /\ DOMAIN load = 1 .. n
  BY <1>4
<1>7. QED
  BY <1>5, <1>6 DEF Emptiest

\* Two entries of a shard lie apart.
Apart(size, plan, i, j) ==
    \/ plan.begin[i] + size[i] <= plan.begin[j]
    \/ plan.begin[j] + size[j] <= plan.begin[i]

\* The plan is right about the first r entries.
Good(size, n, plan, r) ==
    /\ plan.shard \in [DOMAIN size -> Nat]
    /\ plan.begin \in [DOMAIN size -> Nat]
    /\ plan.load \in [1 .. n -> Nat]
    /\ \A i \in DOMAIN size : Rank(size, i) < r =>
          /\ plan.shard[i] \in 1 .. n
          /\ plan.begin[i] + size[i] <= plan.load[plan.shard[i]]
    /\ \A i, j \in DOMAIN size :
          /\ Rank(size, i) < r /\ Rank(size, j) < r /\ i # j
          /\ plan.shard[i] = plan.shard[j]
          => Apart(size, plan, i, j)

LEMMA StepIsGood ==
  ASSUME NEW size \in Seq(Nat), NEW n \in Nat \ {0},
         NEW r \in 0 .. Len(size) - 1, NEW plan, Good(size, n, plan, r)
  PROVE  Good(size, n, PlanStep(size, plan, Nth(size, r)), r + 1)
<1> DEFINE e == Nth(size, r)
           k == Emptiest(plan.load)
           new == PlanStep(size, plan, e)
           D == DOMAIN size
<1>1. e \in D /\ Rank(size, e) = r /\ r \in Nat
  BY NthHasRank
<1>2. \A i \in D : size[i] \in Nat /\ Rank(size, i) \in Nat
  BY RankOfEntry
<1>3. /\ plan.shard \in [D -> Nat] /\ plan.begin \in [D -> Nat]
      /\ plan.load \in [1 .. n -> Nat]
  BY DEF Good
<1>4. k \in 1 .. n
  BY <1>3, EmptiestShard
<1>5. /\ new.shard = [plan.shard EXCEPT ![e] = k]
      /\ new.begin = [plan.begin EXCEPT ![e] = plan.load[k]]
      /\ new.load = [plan.load EXCEPT ![k] = plan.load[k] + size[e]]
  BY DEF PlanStep
<1> HIDE DEF e, k, new
<1>6. plan.load[k] \in Nat /\ plan.load[k] + size[e] \in Nat
  <2>1. plan.load[k] \in Nat
    BY <1>3, <1>4
  <2>2. size[e] \in Nat
    BY <1>1, <1>2
  <2>3. QED
    BY <2>1, <2>2
<1>7. /\ new.shard \in [D -> Nat] /\ new.begin \in [D -> Nat]
      /\ new.load \in [1 .. n -> Nat]
  <2>1. k \in Nat
    BY <1>4
  <2> HIDE DEF D
  <2>2. new.shard \in [D -> Nat]
    BY <1>3, <1>5, <2>1
  <2>3. new.begin \in [D -> Nat]
    BY <1>3, <1>5, <1>6
  <2>4. new.load \in [1 .. n -> Nat]
    BY <1>3, <1>5, <1>6
  <2>5. QED
    BY <2>2, <2>3, <2>4
<1>8. /\ new.shard[e] = k /\ new.begin[e] = plan.load[k]
      /\ new.load[k] = plan.load[k] + size[e]
      /\ \A x \in 1 .. n : plan.load[x] <= new.load[x]
      /\ \A i \in D : i # e => /\ new.shard[i] = plan.shard[i]
                               /\ new.begin[i] = plan.begin[i]
  <2> HIDE DEF D
  <2>1. new.shard[e] = k /\ new.begin[e] = plan.load[k]
    BY <1>1, <1>3, <1>5
  <2>2. new.load[k] = plan.load[k] + size[e]
    BY <1>3, <1>4, <1>5
  <2>3. \A i \in D : i # e => /\ new.shard[i] = plan.shard[i]
                             /\ new.begin[i] = plan.begin[i]
    BY <1>3, <1>5
  <2>4. ASSUME NEW x \in 1 .. n PROVE plan.load[x] <= new.load[x]
    <3>1. plan.load[x] \in Nat
      BY <1>3
    <3>2. CASE x # k
      BY <1>3, <1>5, <3>1, <3>2
    <3>3. CASE x = k
      <4>1. plan.load[k] \in Nat /\ size[e] \in Nat
        BY <1>1, <1>2, <1>6
      <4>2. plan.load[k] <= plan.load[k] + size[e]
        BY <4>1
      <4>3. QED
        BY <2>2, <3>3, <4>2
    <3>4. QED
      BY <3>2, <3>3
  <2>5. QED
    BY <2>1, <2>2, <2>3, <2>4
<1>9. ASSUME NEW i \in D, Rank(size, i) < r + 1, i # e
      PROVE  /\ Rank(size, i) < r /\ plan.shard[i] \in 1 .. n
             /\ plan.begin[i] + size[i] <= plan.load[plan.shard[i]]
  <2>1. Rank(size, i) # r
    <3>1. Before(size, i, e) \/ Before(size, e, i)
      BY <1>1, <1>2, <1>9 DEF Before
    <3>2. QED
      BY <1>1, <1>9, <3>1, RanksDiffer
  <2>2. Rank(size, i) < r
    BY <1>1, <1>2, <1>9, <2>1
  <2>3. QED
    BY <2>2 DEF Good
<1>10. ASSUME NEW i \in D, Rank(size, i) < r + 1
       PROVE  /\ new.shard[i] \in 1 .. n
              /\ new.begin[i] + size[i] <= new.load[new.shard[i]]
  <2>1. CASE i = e
    <3>1. new.begin[i] + size[i] = new.load[new.shard[i]]
      BY <1>8, <2>1
    <3>2. new.load[new.shard[i]] \in Nat
      BY <1>6, <1>8, <2>1
    <3>3. new.load[new.shard[i]] <= new.load[new.shard[i]]
      BY <3>2
    <3>4. QED
      BY <1>4, <1>8, <2>1, <3>1, <3>3
  <2>2. CASE i # e
    <3>1. /\ plan.shard[i] \in 1 .. n
          /\ plan.begin[i] + size[i] <= plan.load[plan.shard[i]]
      BY <1>9, <1>10, <2>2
    <3>2. plan.load[plan.shard[i]] <= new.load[plan.shard[i]]
      BY <1>8, <3>1
    <3>3. plan.load[plan.shard[i]] \in Nat /\ new.load[plan.shard[i]] \in Nat
      BY <1>3, <1>7, <3>1
    <3>4. plan.begin[i] \in Nat /\ size[i] \in Nat
      BY <1>2, <1>3
    <3>5. plan.begin[i] + size[i] <= new.load[plan.shard[i]]
      <4>1. \A a, b, c, d \in Nat : a + b <= c /\ c <= d => a + b <= d
        OBVIOUS
      <4>2. QED
        BY <3>1, <3>2, <3>3, <3>4, <4>1, Zenon
    <3>6. new.shard[i] = plan.shard[i] /\ new.begin[i] = plan.begin[i]
      BY <1>8, <2>2
    <3>7. QED
      BY <3>1, <3>5, <3>6
  <2>3. QED
    BY <2>1, <2>2
<1>11. ASSUME NEW i \in D, Rank(size, i) < r + 1, i # e, new.shard[i] = k
       PROVE  new.begin[i] + size[i] <= new.begin[e]
  BY <1>8, <1>9, <1>11
<1>12. ASSUME NEW i \in D, NEW j \in D, i # j, Rank(size, i) < r + 1,
              Rank(size, j) < r + 1, new.shard[i] = new.shard[j]
       PROVE  Apart(size, new, i, j)
  <2>1. CASE i = e
    BY <1>8, <1>11, <1>12, <2>1 DEF Apart
  <2>2. CASE j = e
    BY <1>8, <1>11, <1>12, <2>2 DEF Apart
  <2>3. CASE i # e /\ j # e
    <3>1. Apart(size, plan, i, j)
      BY <1>8, <1>9, <1>12, <2>3 DEF Good
    <3>2. QED
      BY <1>8, <2>3, <3>1 DEF Apart
  <2>4. QED
    BY <2>1, <2>2, <2>3
<1>13. Good(size, n, new, r + 1)
  BY <1>7, <1>10, <1>12 DEF Good
<1>14. QED
  BY <1>13 DEF new, e

LEMMA PlanIsGood ==
  ASSUME NEW size \in Seq(Nat), NEW n \in Nat \ {0}
  PROVE  Good(size, n, PlanShards(size, n), Len(size))
<1> DEFINE P == CHOOSE f : Plans(size, n, f, Len(size))
<1>1. Len(size) \in Nat
  OBVIOUS
<1>2. Plans(size, n, P, Len(size))
  BY <1>1, PlansExist
<1>3. PlanShards(size, n) = P[Len(size)]
  BY DEF PlanShards, Plans, EmptyPlan, PlanStep
<1> HIDE DEF P
<1>4. \A r \in 0 .. Len(size) :
         P[r] = IF r = 0 THEN EmptyPlan(size, n)
                ELSE PlanStep(size, P[r - 1], Nth(size, r - 1))
  BY <1>2 DEF Plans
<1> DEFINE Bad == {r \in 0 .. Len(size) : ~Good(size, n, P[r], r)}
<1>5. ASSUME Bad # {} PROVE FALSE
  <2>1. PICK r \in Bad : \A q \in Bad : r <= q
    <3>1. Bad \in SUBSET Nat
      BY <1>1
    <3>2. QED
      BY <1>5, <3>1, LeastNumber
  <2>2. CASE r = 0
    <3>1. P[0] = EmptyPlan(size, n)
      BY <1>1, <1>4
    <3>2. \A i \in DOMAIN size : ~(Rank(size, i) < 0)
      BY RankOfEntry
    <3>3. Good(size, n, EmptyPlan(size, n), 0)
      BY <3>2 DEF Good, EmptyPlan
    <3>4. QED
      BY <2>1, <2>2, <3>1, <3>3
  <2>3. CASE r # 0
    <3>1. /\ r - 1 \in 0 .. Len(size) - 1 /\ r - 1 \in 0 .. Len(size)
          /\ r \in 0 .. Len(size) /\ ~(r <= r - 1) /\ r = (r - 1) + 1
      BY <1>1, <2>1, <2>3
    <3>2. Good(size, n, P[r - 1], r - 1)
      BY <2>1, <3>1
    <3>3. P[r] = PlanStep(size, P[r - 1], Nth(size, r - 1))
      BY <1>4, <2>3, <3>1
    <3>4. Good(size, n, P[r], r)
      BY <3>1, <3>2, <3>3, StepIsGood
    <3>5. QED
      BY <2>1, <3>4
  <2>4. QED
    BY <2>2, <2>3
<1>6. QED
  BY <1>1, <1>3, <1>5

\* plan_shards places every tensor of a save in one of its shards, and no two
\* tensors of a shard share a byte.
THEOREM PlanIsAPartition ==
  ASSUME NEW size \in Seq(Nat), NEW n \in Nat \ {0}
  PROVE  /\ DOMAIN PlanShards(size, n).shard = DOMAIN size
         /\ \A i \in DOMAIN size :
               \E k \in 1 .. n :
                  /\ i \in EntriesOf(PlanShards(size, n), k)
                  /\ PlanShards(size, n).begin[i] + size[i]
                        <= PlanShards(size, n).load[k]
         /\ \A k \in 1 .. n : \A i, j \in EntriesOf(PlanShards(size, n), k) :
               i # j => Apart(size, PlanShards(size, n), i, j)
<1> DEFINE plan == PlanShards(size, n)
<1>1. Good(size, n, plan, Len(size))
  BY PlanIsGood
<1>2. \A i \in DOMAIN size : Rank(size, i) < Len(size)
  BY RankOfEntry
<1> HIDE DEF plan
<1>3. DOMAIN plan.shard = DOMAIN size
  BY <1>1 DEF Good
<1>4. \A i \in DOMAIN size :
         /\ plan.shard[i] \in 1 .. n
         /\ plan.begin[i] + size[i] <= plan.load[plan.shard[i]]
  BY <1>1, <1>2 DEF Good
<1>5. \A i \in DOMAIN size : i \in EntriesOf(plan, plan.shard[i])
  BY <1>3 DEF EntriesOf
<1>6. \A k \in 1 .. n : \A i, j \in EntriesOf(plan, k) :
         i # j => Apart(size, plan, i, j)
  BY <1>1, <1>2, <1>3 DEF Good, EntriesOf
<1>7. QED
  BY <1>3, <1>4, <1>5, <1>6 DEF plan

-----------------------------------------------------------------------------
(* Each operation keeps the invariant.                                     *)

Points == {"check", "make", "fill", "sync", "rename", "dirs",
           "undo", "returned", "raised", "cutShort", "dead"}

\* One round of a loop over the shards.
LEMMA LoopRound ==
  ASSUME TypeOK, AtInv, NEW s \in Savers, NEW phase \in Points \ {"undo"},
         NEW next \in Points, Loop(s, phase, next)
  PROVE  /\ at[s] \in Shards /\ pc[s] = phase
         /\ at' \in [Savers -> 1 .. NumShards + 1]
         /\ pc' \in [Savers -> Points]
         /\ \A r \in Savers : r # s => pc'[r] = pc[r] /\ at'[r] = at[r]
         /\ \/ at[s] < NumShards /\ pc'[s] = phase /\ at'[s] = at[s] + 1
            \/ at[s] = NumShards /\ pc'[s] = next /\ at'[s] = 1
<1>1. at[s] \in Shards /\ NumShards \in Nat /\ pc[s] = phase
  BY SaverAssumption DEF AtInv, Loop
<1>2. /\ pc \in [Savers -> Points] /\ at \in [Savers -> 1 .. NumShards + 1]
  BY DEF TypeOK, Points
<1>3. /\ at' = [at EXCEPT ![s] = IF at[s] < NumShards THEN at[s] + 1 ELSE 1]
      /\ pc' = IF at[s] < NumShards THEN pc ELSE [pc EXCEPT ![s] = next]
  BY DEF Loop
<1>4. at' \in [Savers -> 1 .. NumShards + 1]
  <2>1. (IF at[s] < NumShards THEN at[s] + 1 ELSE 1) \in 1 .. NumShards + 1
    BY <1>1 DEF Shards
  <2>2. QED
    BY <1>2, <1>3, <2>1
<1>5. QED
  BY <1>1, <1>2, <1>3, <1>4 DEF Shards

LEMMA PlanEntries ==
  \A k \in Shards : EntriesOf(Plan, k) \subseteq Entries
<1>1. DOMAIN Plan.shard = Entries
  BY SaverAssumption, PlanIsAPartition DEF Plan, Entries
<1>2. QED
  BY <1>1 DEF EntriesOf

\* A call of write_shards.
LEMMA SaveSInv ==
  ASSUME SInv, NEW s \in Savers, Save(s)
  PROVE  SInv'
<1> USE SaverAssumption DEF options, call, disk, reader, Goes, Ends, Loop, Shards,
                            Working
<1>1. CASE CheckSpace(s)
  <2>1. TypeOK'
    BY <1>1 DEF SInv, CheckSpace, TypeOK, Saves, Files, Untouched, AllDirs
  <2>2. AtInv'
    BY <1>1 DEF SInv, CheckSpace, TypeOK, AtInv
  <2>3. TempsInv'
    BY <1>1 DEF SInv, CheckSpace, TypeOK, TempsInv
  <2>4. WrittenInv'
    <3>1. at[s] = 1 /\ \A k \in Shards : ~(k < at[s])
      BY <1>1 DEF SInv, AtInv, CheckSpace
    <3>2. QED
      BY ZenonT(60), <1>1, <3>1 DEF SInv, TypeOK, WrittenInv, CheckSpace
  <2>5. PublishedInv'
    BY <1>1 DEF SInv, CheckSpace, TypeOK, PublishedInv, Finished, Whole
  <2>6. DirsInv'
    BY <1>1 DEF SInv, CheckSpace, TypeOK, DirsInv, Settled
  <2>7. ReaderInv'
    BY <1>1 DEF SInv, CheckSpace, TypeOK, ReaderInv, Finished, Whole, Accepts
  <2>8. QED
    BY <2>1, <2>2, <2>3, <2>4, <2>5, <2>6, <2>7 DEF SInv
<1>2. CASE MakeShard(s)
  <2>1. /\ at[s] \in Shards /\ pc[s] = "make"
        /\ at' \in [Savers -> 1 .. NumShards + 1]
        /\ pc' \in [Savers -> Points]
        /\ \A r \in Savers : r # s => pc'[r] = pc[r] /\ at'[r] = at[r]
        /\ \/ at[s] < NumShards /\ pc'[s] = "make" /\ at'[s] = at[s] + 1
           \/ at[s] = NumShards /\ pc'[s] = "fill" /\ at'[s] = 1
    BY <1>2, LoopRound DEF SInv, MakeShard, Points
  <2>2. <<s, at[s]>> \in Files
    BY <2>1 DEF Files, Saves
  <2>3. TypeOK'
    BY <1>2, <2>1, <2>2 DEF SInv, MakeShard, TypeOK, Points
  <2>4. AtInv'
    BY <1>2 DEF SInv, MakeShard, TypeOK, AtInv
  <2>5. TempsInv'
    BY <1>2 DEF SInv, MakeShard, TypeOK, TempsInv
  <2>6. WrittenInv'
    BY <1>2 DEF SInv, MakeShard, TypeOK, WrittenInv
  <2>7. PublishedInv'
    BY <1>2 DEF SInv, MakeShard, TypeOK, PublishedInv, Finished, Whole
  <2>8. DirsInv'
    BY <1>2 DEF SInv, MakeShard, TypeOK, DirsInv, Settled
  <2>9. ReaderInv'
    BY <1>2 DEF SInv, MakeShard, TypeOK, ReaderInv, Finished, Whole, Accepts
  <2>10. QED
    BY <2>3, <2>4, <2>5, <2>6, <2>7, <2>8, <2>9 DEF SInv
<1>3. CASE MakeRaises(s)
  <2>1. TypeOK'
    <3>1. <<s, at[s]>> \in Files
      BY <1>3 DEF SInv, MakeRaises, AtInv, Files, Saves
    <3>2. temps' \subseteq Files
      BY <1>3, <3>1 DEF SInv, TypeOK, MakeRaises
    <3>3. at' \in [Savers -> 1 .. NumShards + 1]
      BY <1>3 DEF SInv, TypeOK, MakeRaises
    <3>4. QED
      BY <1>3, <3>2, <3>3 DEF SInv, TypeOK, MakeRaises
  <2>2. AtInv'
    BY <1>3 DEF SInv, MakeRaises, TypeOK, AtInv
  <2>3. TempsInv'
    BY <1>3 DEF SInv, MakeRaises, TypeOK, TempsInv
  <2>4. WrittenInv'
    BY <1>3 DEF SInv, MakeRaises, TypeOK, WrittenInv
  <2>5. PublishedInv'
    BY <1>3 DEF SInv, MakeRaises, TypeOK, PublishedInv, Finished, Whole
  <2>6. DirsInv'
    BY <1>3 DEF SInv, MakeRaises, TypeOK, DirsInv, Settled
  <2>7. ReaderInv'
    BY <1>3 DEF SInv, MakeRaises, TypeOK, ReaderInv, Finished, Whole, Accepts
  <2>8. QED
    BY <2>1, <2>2, <2>3, <2>4, <2>5, <2>6, <2>7 DEF SInv
<1>4. CASE \E e \in Entries : FillEntry(s, e)
  <2>1. PICK e \in Entries : FillEntry(s, e)
    BY <1>4
  <2>2. PICK how \in {"done", "failed"} :
           /\ task' = [task EXCEPT ![s][e] = how]
           /\ how = "done" => <<s, e>> \in filled'
    BY <2>1 DEF FillEntry
  <2>3. /\ filled \subseteq filled' /\ filled' \subseteq filled \cup {<<s, e>>}
        /\ pc[s] = "fill"
        /\ UNCHANGED <<fsync, pooled, pc, at, toSync, temps, final, past, head,
                       durable, lost, seen, verdict>>
    BY <2>1 DEF FillEntry
  <2>4. TypeOK'
    <3>1. task' \in [Savers -> [Entries -> {"todo", "done", "failed"}]]
      BY <2>2 DEF SInv, TypeOK
    <3>2. filled' \subseteq Saves \X Entries
      BY <2>3 DEF SInv, TypeOK, Saves
    <3>3. QED
      BY <2>3, <3>1, <3>2 DEF SInv, TypeOK
  <2>5. AtInv'
    BY <1>4, <2>1 DEF SInv, FillEntry, TypeOK, AtInv
  <2>6. TempsInv'
    BY <1>4, <2>1 DEF SInv, FillEntry, TypeOK, TempsInv
  <2>7. WrittenInv'
    <3>1. \A r \in Savers, x \in Entries :
             task'[r][x] = IF r = s /\ x = e THEN how ELSE task[r][x]
      BY <2>2 DEF SInv, TypeOK
    <3>2. ASSUME NEW r \in Savers, pc[r] \in {"check", "make", "fill"},
                 NEW x \in Entries, task'[r][x] = "done"
          PROVE  <<r, x>> \in filled'
      <4>1. CASE r = s /\ x = e
        BY <2>2, <3>1, <3>2, <4>1
      <4>2. CASE ~(r = s /\ x = e)
        BY <2>3, <3>1, <3>2, <4>2 DEF SInv, WrittenInv
      <4>3. QED
        BY <4>1, <4>2
    <3>3. QED
      BY <2>3, <3>2 DEF SInv, WrittenInv
  <2>8. PublishedInv'
    BY <1>4, <2>1 DEF SInv, FillEntry, TypeOK, PublishedInv, Finished, Whole
  <2>9. DirsInv'
    BY <1>4, <2>1 DEF SInv, FillEntry, TypeOK, DirsInv, Settled
  <2>10. ReaderInv'
    BY <1>4, <2>1 DEF SInv, FillEntry, TypeOK, ReaderInv, Finished, Whole,
       Accepts
  <2>11. QED
    BY <2>4, <2>5, <2>6, <2>7, <2>8, <2>9, <2>10 DEF SInv
<1>5. CASE EndFill(s)
  <2>1. /\ pc[s] = "fill" /\ at[s] = 1 /\ toSync[s] = AllDirs
        /\ UNCHANGED <<fsync, pooled, at, task, toSync, temps, final, past, head,
                       filled, durable, lost, seen, verdict>>
        /\ \/ pc' = [pc EXCEPT ![s] = "undo"]
           \/ /\ \A e \in Entries : task[s][e] = "done"
              /\ pc' = [pc EXCEPT ![s] = IF fsync[s] THEN "sync" ELSE "rename"]
    BY <1>5 DEF SInv, EndFill, AtInv, DirsInv, FillOver, AnyFailed, TypeOK
  <2>2. PICK how \in {"undo", "sync", "rename"} :
           /\ pc' = [pc EXCEPT ![s] = how]
           /\ how = "sync" => fsync[s]
           /\ how = "rename" => ~fsync[s]
           /\ how # "undo" => \A e \in Entries : task[s][e] = "done"
    BY <2>1 DEF SInv, TypeOK
  <2>3. /\ pc'[s] = how
        /\ \A r \in Savers : r # s => pc'[r] = pc[r]
    BY <2>2 DEF SInv, TypeOK
  <2>4. TypeOK'
    BY <2>1, <2>2 DEF SInv, TypeOK
  <2>5. AtInv'
    BY <1>5 DEF SInv, EndFill, TypeOK, AtInv
  <2>6. TempsInv'
    <3>1. \A k \in Shards : at[s] <= k
      BY <2>1
    <3>2. QED
      BY <2>1, <2>3, <3>1 DEF SInv, TempsInv
  <2>7. WrittenInv'
    <3>1. \A k \in Shards : ~(k < at[s])
      BY <2>1
    <3>2. QED
      BY <2>1, <2>2, <2>3, <3>1 DEF SInv, WrittenInv
  <2>8. PublishedInv'
    BY <1>5 DEF SInv, EndFill, TypeOK, PublishedInv, Finished, Whole
  <2>9. DirsInv'
    <3>1. \A k \in Shards : ~(k < at[s])
      BY <2>1
    <3>2. AllDirs' = AllDirs
      BY DEF AllDirs
    <3>3. QED
      BY <2>1, <2>3, <3>1, <3>2 DEF SInv, DirsInv, Settled
  <2>10. ReaderInv'
    BY <1>5 DEF SInv, EndFill, TypeOK, ReaderInv, Finished, Whole, Accepts
  <2>11. QED
    BY <2>4, <2>5, <2>6, <2>7, <2>8, <2>9, <2>10 DEF SInv
<1>6. CASE SyncShard(s)
  <2>1. /\ at[s] \in Shards /\ pc[s] = "sync"
        /\ at' \in [Savers -> 1 .. NumShards + 1]
        /\ pc' \in [Savers -> Points]
        /\ \A r \in Savers : r # s => pc'[r] = pc[r] /\ at'[r] = at[r]
        /\ \/ at[s] < NumShards /\ pc'[s] = "sync" /\ at'[s] = at[s] + 1
           \/ at[s] = NumShards /\ pc'[s] = "rename" /\ at'[s] = 1
    BY <1>6, LoopRound DEF SInv, SyncShard, Points
  <2>2. <<s, at[s]>> \in Files
    BY <2>1 DEF Files, Saves
  <2>3. TypeOK'
    BY <1>6, <2>1, <2>2 DEF SInv, SyncShard, TypeOK, Points
  <2>4. AtInv'
    BY <1>6 DEF SInv, SyncShard, TypeOK, AtInv
  <2>5. TempsInv'
    BY <1>6 DEF SInv, SyncShard, TypeOK, TempsInv
  <2>6. WrittenInv'
    BY <1>6 DEF SInv, SyncShard, TypeOK, WrittenInv
  <2>7. PublishedInv'
    BY <1>6 DEF SInv, SyncShard, TypeOK, PublishedInv, Finished, Whole
  <2>8. DirsInv'
    BY <1>6 DEF SInv, SyncShard, TypeOK, DirsInv, Settled
  <2>9. ReaderInv'
    BY <1>6 DEF SInv, SyncShard, TypeOK, ReaderInv, Finished, Whole, Accepts
  <2>10. QED
    BY <2>3, <2>4, <2>5, <2>6, <2>7, <2>8, <2>9 DEF SInv
<1>7. CASE Publish(s)
  <2>1. /\ at[s] \in Shards /\ pc[s] = "rename"
        /\ at' \in [Savers -> 1 .. NumShards + 1]
        /\ pc' \in [Savers -> Points]
        /\ \A r \in Savers : r # s => pc'[r] = pc[r] /\ at'[r] = at[r]
        /\ \/ at[s] < NumShards /\ pc'[s] = "rename" /\ at'[s] = at[s] + 1
           \/ at[s] = NumShards /\ pc'[s] = "dirs" /\ at'[s] = 1
    BY <1>7, LoopRound DEF SInv, Publish, Points
  <2>2. <<s, at[s]>> \in Files
    BY <2>1 DEF Files, Saves
  <2>3. /\ UNCHANGED <<fsync, pooled, task, toSync, head, filled, durable, lost,
                       seen, verdict>>
        /\ temps' = temps \ {<<s, at[s]>>}
        /\ final' = [final EXCEPT ![at[s]] = s]
        /\ past' = [past EXCEPT ![at[s]] = past[at[s]] \cup {s}]
    BY <1>7 DEF Publish
  <2>4. \A k \in Shards : /\ final'[k] = IF k = at[s] THEN s ELSE final[k]
                          /\ past'[k] = IF k = at[s] THEN past[k] \cup {s}
                                        ELSE past[k]
    BY <2>1, <2>3 DEF SInv, TypeOK
  <2>5. Finished(s)
    <3>1. /\ ~lost /\ \A k \in Shards : <<s, k>> \in head
          /\ \A e \in Entries : <<s, e>> \in filled
          /\ fsync[s] => \A k \in Shards : <<s, k>> \in durable
      BY <2>1 DEF SInv, WrittenInv
    <3>2. \A k \in Shards : Whole(<<s, k>>)
      BY <3>1, PlanEntries DEF Whole
    <3>3. QED
      BY <3>1, <3>2 DEF Finished
  <2>6. \A r \in Savers : Finished(r)' <=> Finished(r)
    BY <2>3 DEF Finished, Whole
  <2>7. TypeOK'
    <3>1. /\ final' \in [Shards -> Saves \cup {NoFile}]
          /\ past' \in [Shards -> SUBSET (Saves \cup {NoFile})]
      BY <2>1, <2>3 DEF SInv, TypeOK, Saves
    <3>2. QED
      BY <2>1, <2>3, <3>1 DEF SInv, TypeOK, Points
  <2>8. AtInv'
    BY <1>7 DEF SInv, Publish, TypeOK, AtInv
  <2>9. TempsInv'
    BY <1>7 DEF SInv, Publish, TypeOK, TempsInv
  <2>10. WrittenInv'
    BY <1>7 DEF SInv, Publish, TypeOK, WrittenInv
  <2>11. PublishedInv'
    <3>1. \A k \in Shards : final'[k] \in past'[k]
      BY <2>4 DEF SInv, PublishedInv
    <3>2. \A k \in Shards : \A r \in past'[k] : r \in Savers => Finished(r)
      BY ZenonT(60), <2>4, <2>5 DEF SInv, PublishedInv
    <3>3. QED
      BY <2>6, <3>1, <3>2 DEF PublishedInv
  <2>12. DirsInv'
    <3>1. \A k \in Shards : final[k] \in Savers => final'[k] \in Savers
      BY <2>4
    <3>2. ASSUME NEW r \in Savers, r # s, NEW k \in Shards, Settled(r, k)
          PROVE  Settled(r, k)'
      <4>1. past[k] \subseteq Savers /\ (final[k] = r => past[k] = {r})
        BY <3>2 DEF Settled
      <4>2. CASE k = at[s]
        <5>1. final'[k] = s /\ past'[k] = past[k] \cup {s} /\ final'[k] # r
          BY <2>4, <3>2, <4>2
        <5>2. past'[k] \subseteq Savers
          BY <4>1, <5>1
        <5>3. QED
          BY <5>1, <5>2 DEF Settled
      <4>3. CASE k # at[s]
        BY <2>4, <3>2, <4>1, <4>3 DEF Settled
      <4>4. QED
        BY <4>2, <4>3
    <3>3. ASSUME NEW r \in Savers, r # s
          PROVE  /\ pc'[r] # "dirs" => toSync'[r] = AllDirs
                 /\ pc'[r] = "rename" => \A k \in Shards :
                       k < at'[r] => final'[k] \in Savers
                 /\ pc'[r] = "dirs" => \A k \in Shards :
                       /\ final'[k] \in Savers
                       /\ Dir[k] \notin toSync'[r] => Settled(r, k)'
                 /\ pc'[r] = "returned" /\ fsync'[r]
                       => \A k \in Shards : Settled(r, k)'
      BY <2>1, <2>3, <3>1, <3>2, <3>3 DEF SInv, DirsInv
    <3>4. /\ toSync'[s] = AllDirs /\ pc'[s] \in {"rename", "dirs"}
          /\ \A k \in Shards : Dir[k] \in toSync'[s]
      BY <2>1, <2>3 DEF SInv, DirsInv, AllDirs
    <3>5. \A k \in Shards : k <= at[s] => final'[k] \in Savers
      <4>1. \A k \in Shards : k < at[s] => final[k] \in Savers
        BY <2>1 DEF SInv, DirsInv
      <4>2. \A k \in Shards : k <= at[s] => k < at[s] \/ k = at[s]
        BY <2>1
      <4>3. QED
        BY <2>4, <4>1, <4>2
    <3>6. pc'[s] = "rename" =>
             \A k \in Shards : k < at'[s] => final'[k] \in Savers
      BY <2>1, <3>5
    <3>7. pc'[s] = "dirs" => \A k \in Shards : final'[k] \in Savers
      BY <2>1, <3>5
    <3>8. AllDirs' = AllDirs
      BY DEF AllDirs
    <3>9. QED
      BY <3>3, <3>4, <3>6, <3>7, <3>8 DEF DirsInv
  <2>13. ReaderInv'
    BY <2>3, <2>6 DEF SInv, TypeOK, ReaderInv, Accepts, Files, Saves
  <2>14. QED
    BY <2>7, <2>8, <2>9, <2>10, <2>11, <2>12, <2>13 DEF SInv
<1>8. CASE LateRaise(s)
  <2>1. TypeOK'
    <3>1. at' \in [Savers -> 1 .. NumShards + 1]
      BY <1>8 DEF SInv, TypeOK, LateRaise
    <3>2. QED
      BY <1>8, <3>1 DEF SInv, TypeOK, LateRaise
  <2>2. AtInv'
    BY <1>8 DEF SInv, LateRaise, TypeOK, AtInv
  <2>3. TempsInv'
    BY <1>8 DEF SInv, LateRaise, TypeOK, TempsInv
  <2>4. WrittenInv'
    BY <1>8 DEF SInv, LateRaise, TypeOK, WrittenInv
  <2>5. PublishedInv'
    BY <1>8 DEF SInv, LateRaise, TypeOK, PublishedInv, Finished, Whole
  <2>6. DirsInv'
    BY <1>8 DEF SInv, LateRaise, TypeOK, DirsInv, Settled
  <2>7. ReaderInv'
    BY <1>8 DEF SInv, LateRaise, TypeOK, ReaderInv, Finished, Whole, Accepts
  <2>8. QED
    BY <2>1, <2>2, <2>3, <2>4, <2>5, <2>6, <2>7 DEF SInv
<1>9. CASE SyncDir(s)
  <2>1. TypeOK'
    BY <1>9 DEF SInv, SyncDir, TypeOK, Saves, Files, Untouched, AllDirs
  <2>2. AtInv'
    BY <1>9 DEF SInv, SyncDir, TypeOK, AtInv
  <2>3. TempsInv'
    BY <1>9 DEF SInv, SyncDir, TypeOK, TempsInv
  <2>4. WrittenInv'
    BY <1>9 DEF SInv, SyncDir, TypeOK, WrittenInv
  <2>5. PublishedInv'
    BY <1>9 DEF SInv, SyncDir, TypeOK, PublishedInv, Finished, Whole
  <2>6. DirsInv'
    BY <1>9 DEF SInv, SyncDir, TypeOK, DirsInv, Settled
  <2>7. ReaderInv'
    BY <1>9 DEF SInv, SyncDir, TypeOK, ReaderInv, Finished, Whole, Accepts
  <2>8. QED
    BY <2>1, <2>2, <2>3, <2>4, <2>5, <2>6, <2>7 DEF SInv
<1>10. CASE SyncDirRaises(s)
  <2>1. TypeOK'
    BY <1>10 DEF SInv, SyncDirRaises, TypeOK, Saves, Files, Untouched, AllDirs
  <2>2. AtInv'
    BY <1>10 DEF SInv, SyncDirRaises, TypeOK, AtInv
  <2>3. TempsInv'
    BY <1>10 DEF SInv, SyncDirRaises, TypeOK, TempsInv
  <2>4. WrittenInv'
    BY <1>10 DEF SInv, SyncDirRaises, TypeOK, WrittenInv
  <2>5. PublishedInv'
    BY <1>10 DEF SInv, SyncDirRaises, TypeOK, PublishedInv, Finished, Whole
  <2>6. DirsInv'
    BY <1>10 DEF SInv, SyncDirRaises, TypeOK, DirsInv, Settled
  <2>7. ReaderInv'
    BY <1>10 DEF SInv, SyncDirRaises, TypeOK, ReaderInv, Finished, Whole,
       Accepts
  <2>8. QED
    BY <2>1, <2>2, <2>3, <2>4, <2>5, <2>6, <2>7 DEF SInv
<1>11. CASE Return(s)
  <2>1. TypeOK'
    BY <1>11 DEF SInv, Return, TypeOK, Saves, Files, Untouched, AllDirs
  <2>2. AtInv'
    BY <1>11 DEF SInv, Return, TypeOK, AtInv
  <2>3. TempsInv'
    BY <1>11 DEF SInv, Return, TypeOK, TempsInv
  <2>4. WrittenInv'
    BY <1>11 DEF SInv, Return, TypeOK, WrittenInv
  <2>5. PublishedInv'
    BY <1>11 DEF SInv, Return, TypeOK, PublishedInv, Finished, Whole
  <2>6. DirsInv'
    <3>1. /\ pc[s] = "dirs" /\ fsync[s] => toSync[s] = {}
          /\ pc'[s] = "returned" /\ toSync'[s] = AllDirs
          /\ \A r \in Savers : r # s => /\ pc'[r] = pc[r] /\ at'[r] = at[r]
                                        /\ toSync'[r] = toSync[r]
          /\ UNCHANGED <<final, past, fsync>>
      BY <1>11 DEF SInv, TypeOK, Return, DirsOver
    <3>2. fsync[s] => \A k \in Shards : Settled(s, k)
      BY <3>1, <1>11 DEF SInv, DirsInv, Return
    <3>3. AllDirs' = AllDirs /\ \A r, k : Settled(r, k)' <=> Settled(r, k)
      BY <3>1 DEF AllDirs, Settled
    <3>4. QED
      BY <3>1, <3>2, <3>3 DEF SInv, DirsInv
  <2>7. ReaderInv'
    BY <1>11 DEF SInv, Return, TypeOK, ReaderInv, Finished, Whole, Accepts
  <2>8. QED
    BY <2>1, <2>2, <2>3, <2>4, <2>5, <2>6, <2>7 DEF SInv
<1>12. CASE Unlink(s)
  <2>1. TypeOK'
    <3>1. at' \in [Savers -> 1 .. NumShards + 1]
      BY <1>12 DEF SInv, TypeOK, Unlink, UndoOver
    <3>2. QED
      BY <1>12, <3>1 DEF SInv, TypeOK, Unlink
  <2>2. AtInv'
    BY <1>12 DEF SInv, Unlink, TypeOK, AtInv
  <2>3. TempsInv'
    BY <1>12 DEF SInv, Unlink, TypeOK, TempsInv
  <2>4. WrittenInv'
    BY <1>12 DEF SInv, Unlink, TypeOK, WrittenInv
  <2>5. PublishedInv'
    BY <1>12 DEF SInv, Unlink, TypeOK, PublishedInv, Finished, Whole
  <2>6. DirsInv'
    BY <1>12 DEF SInv, Unlink, TypeOK, DirsInv, Settled
  <2>7. ReaderInv'
    BY <1>12 DEF SInv, Unlink, TypeOK, ReaderInv, Finished, Whole, Accepts
  <2>8. QED
    BY <2>1, <2>2, <2>3, <2>4, <2>5, <2>6, <2>7 DEF SInv
<1>13. CASE Raise(s)
  <2>1. TypeOK'
    BY <1>13 DEF SInv, Raise, TypeOK, Saves, Files, Untouched, AllDirs
  <2>2. AtInv'
    BY <1>13 DEF SInv, Raise, TypeOK, AtInv
  <2>3. TempsInv'
    <3>1. \A k \in Shards : <<s, k>> \notin temps
      <4>1. at[s] \in Nat /\ NumShards \in Nat /\ at[s] > NumShards
        BY <1>13 DEF SInv, TypeOK, Raise, UndoOver
      <4>2. \A k \in Shards : ~(at[s] <= k)
        BY <4>1
      <4>3. QED
        BY <1>13, <4>2 DEF SInv, TempsInv, Raise
    <3>2. QED
      BY <1>13, <3>1 DEF SInv, TypeOK, TempsInv, Raise
  <2>4. WrittenInv'
    BY <1>13 DEF SInv, Raise, TypeOK, WrittenInv
  <2>5. PublishedInv'
    BY <1>13 DEF SInv, Raise, TypeOK, PublishedInv, Finished, Whole
  <2>6. DirsInv'
    BY <1>13 DEF SInv, Raise, TypeOK, DirsInv, Settled
  <2>7. ReaderInv'
    BY <1>13 DEF SInv, Raise, TypeOK, ReaderInv, Finished, Whole, Accepts
  <2>8. QED
    BY <2>1, <2>2, <2>3, <2>4, <2>5, <2>6, <2>7 DEF SInv
<1>14. CASE UnlinkRaises(s)
  <2>1. TypeOK'
    BY <1>14 DEF SInv, UnlinkRaises, TypeOK, Saves, Files, Untouched, AllDirs
  <2>2. AtInv'
    <3>1. /\ at[s] \in 1 .. NumShards + 1 /\ NumShards \in Nat
          /\ ~(at[s] > NumShards) /\ at' = at
          /\ pc' = [pc EXCEPT ![s] = "cutShort"]
      BY <1>14 DEF SInv, UnlinkRaises, UndoOver, TypeOK
    <3>2. at[s] \in Shards
      BY <3>1
    <3>3. QED
      BY <3>1, <3>2 DEF SInv, TypeOK, AtInv
  <2>3. TempsInv'
    BY <1>14 DEF SInv, UnlinkRaises, TypeOK, TempsInv
  <2>4. WrittenInv'
    BY <1>14 DEF SInv, UnlinkRaises, TypeOK, WrittenInv
  <2>5. PublishedInv'
    BY <1>14 DEF SInv, UnlinkRaises, TypeOK, PublishedInv, Finished, Whole
  <2>6. DirsInv'
    BY <1>14 DEF SInv, UnlinkRaises, TypeOK, DirsInv, Settled
  <2>7. ReaderInv'
    BY <1>14 DEF SInv, UnlinkRaises, TypeOK, ReaderInv, Finished, Whole,
       Accepts
  <2>8. QED
    BY <2>1, <2>2, <2>3, <2>4, <2>5, <2>6, <2>7 DEF SInv
<1>15. QED
  BY <1>1, <1>2, <1>3, <1>4, <1>5, <1>6, <1>7, <1>8, <1>9, <1>10, <1>11,
     <1>12, <1>13, <1>14 DEF Save

\* The process of a call dies.
LEMMA DieSInv ==
  ASSUME SInv, NEW s \in Savers, Die(s)
  PROVE  SInv'
<1> USE SaverAssumption DEF options, reader, disk, Ends, Shards, Working
<1>1. TypeOK'
  BY DEF SInv, Die, TypeOK, Saves, Files, Untouched, AllDirs
<1>2. AtInv' /\ TempsInv'
  BY DEF SInv, Die, TypeOK, AtInv, TempsInv
<1>3. WrittenInv'
  BY DEF SInv, Die, TypeOK, WrittenInv
<1>4. PublishedInv'
  BY DEF SInv, Die, TypeOK, PublishedInv, Finished, Whole
<1>5. DirsInv'
  BY DEF SInv, Die, TypeOK, DirsInv, Settled
<1>6. ReaderInv'
  BY DEF SInv, Die, TypeOK, ReaderInv, Finished, Whole, Accepts
<1>7. QED
  BY <1>1, <1>2, <1>3, <1>4, <1>5, <1>6 DEF SInv

\* The machine loses power: what a finished save needs was synced.
LEMMA PowerLossSInv ==
  ASSUME SInv, PowerLoss
  PROVE  SInv'
<1>1. /\ lost' = TRUE /\ seen' = <<>> /\ verdict' = "none"
      /\ pc' = [s \in Savers |-> IF Over(s) THEN pc[s] ELSE "dead"]
      /\ at' = [s \in Savers |-> IF Over(s) THEN at[s] ELSE 1]
      /\ task' = [s \in Savers |-> Untouched]
      /\ toSync' = [s \in Savers |-> AllDirs]
      /\ UNCHANGED <<fsync, pooled, temps, durable>>
  BY DEF PowerLoss, options
<1>2. PICK gone \in SUBSET (head \ durable) :
         /\ filled' = {x \in filled : <<x[1], Plan.shard[x[2]]>> \notin gone}
         /\ head' \in {head, head \ gone}
  BY DEF PowerLoss
<1>3. /\ final' \in [Shards -> Saves \cup {NoFile}]
      /\ past' = [k \in Shards |-> {final'[k]}]
      /\ \A k \in Shards : final'[k] \in past[k]
  BY DEF PowerLoss, SInv, TypeOK
<1>4. /\ \A s \in Savers :
            /\ pc'[s] \in {"returned", "raised", "cutShort", "dead"}
            /\ pc'[s] # "dead" => pc'[s] = pc[s]
      /\ \A k \in Shards : past'[k] = {final'[k]}
  BY <1>1, <1>3 DEF Over
<1>5. TypeOK'
  <2>1. pc' \in [Savers -> Points]
    BY <1>1 DEF SInv, TypeOK, Over, Points
  <2>2. at' \in [Savers -> 1 .. NumShards + 1]
    <3>1. NumShards \in Nat /\ 1 \in 1 .. NumShards + 1
      BY SaverAssumption
    <3>2. at \in [Savers -> 1 .. NumShards + 1]
      BY DEF SInv, TypeOK
    <3>3. QED
      BY <1>1, <3>1, <3>2
  <2>3. task' \in [Savers -> [Entries -> {"todo", "done", "failed"}]]
    BY <1>1 DEF Untouched
  <2>4. toSync' \in [Savers -> SUBSET AllDirs]
    BY <1>1
  <2>5. /\ filled' \subseteq Saves \X Entries /\ head' \subseteq Files
        /\ past' \in [Shards -> SUBSET (Saves \cup {NoFile})]
    BY <1>2, <1>3 DEF SInv, TypeOK
  <2>6. seen' \in Seq(Files)
    BY <1>1
  <2>7. QED
    BY <1>1, <1>3, <2>1, <2>2, <2>3, <2>4, <2>5, <2>6 DEF SInv, TypeOK, Points
<1>6. AtInv'
  <2>1. 1 \in Shards
    BY SaverAssumption DEF Shards
  <2>2. ASSUME NEW s \in Savers PROVE at'[s] \in Shards
    <3>1. CASE Over(s)
      <4>1. pc[s] # "undo"
        BY <3>1 DEF Over
      <4>2. QED
        BY <1>1, <3>1, <4>1 DEF SInv, AtInv
    <3>2. CASE ~Over(s)
      BY <1>1, <2>1, <3>2
    <3>3. QED
      BY <3>1, <3>2
  <2>3. QED
    BY <1>4, <2>2 DEF AtInv
<1>7. TempsInv'
  BY <1>1, <1>4 DEF SInv, TempsInv
<1>8. WrittenInv'
  BY <1>4 DEF WrittenInv, Working
<1>9. ASSUME NEW s \in Savers, Finished(s) PROVE Finished(s)'
  <2>1. SUFFICES ASSUME fsync[s], NEW k \in Shards PROVE Whole(<<s, k>>)'
    BY <1>1, <1>9 DEF Finished
  <2>2. <<s, k>> \in durable /\ Whole(<<s, k>>) /\ s # Old
    BY <1>9, <2>1, SaverAssumption DEF Finished
  <2>3. <<s, k>> \notin gone
    BY <2>2
  <2>4. <<s, k>> \in head'
    BY <1>2, <2>2, <2>3 DEF Whole
  <2>5. ASSUME NEW e \in EntriesOf(Plan, k) PROVE <<s, e>> \in filled'
    <3>1. <<s, e>> \in filled
      BY <2>2 DEF Whole
    <3>2. Plan.shard[e] = k
      BY DEF EntriesOf
    <3>3. QED
      BY <1>2, <2>3, <3>1, <3>2
  <2>6. QED
    BY <2>4, <2>5 DEF Whole
<1>10. PublishedInv'
  BY <1>3, <1>4, <1>9 DEF SInv, PublishedInv
<1>11. DirsInv'
  BY <1>1, <1>3, <1>4 DEF SInv, DirsInv, Settled, AllDirs
<1>12. ReaderInv'
  BY <1>1 DEF ReaderInv
<1>13. QED
  BY <1>5, <1>6, <1>7, <1>8, <1>10, <1>11, <1>12 DEF SInv

\* A reader opens one more file, ...
LEMMA OpenSInv ==
  ASSUME SInv, NEW k \in Shards, Open(k)
  PROVE  SInv'
<1> DEFINE f == <<final[k], k>>
<1>1. /\ verdict = "none" /\ f \in Files /\ seen' = Append(seen, f)
      /\ seen \in Seq(Files)
      /\ UNCHANGED <<fsync, pooled, pc, at, task, toSync, temps, final, past,
                     head, filled, durable, lost, verdict>>
  BY DEF Open, SInv, TypeOK, Files, options, call, disk
<1>2. f[1] \in Savers => Finished(f[1])
  BY DEF SInv, PublishedInv
<1>3. \A s \in Savers : Finished(s)' <=> Finished(s)
  BY <1>1 DEF Finished, Whole
<1>4. seen' \in Seq(Files)
  BY <1>1
<1>5. ReaderInv'
  <2>1. \A i \in 1 .. Len(seen') : i \in 1 .. Len(seen) \/ i = Len(seen) + 1
    BY <1>1
  <2>2. /\ \A i \in 1 .. Len(seen) : seen'[i] = seen[i]
        /\ seen'[Len(seen) + 1] = f
    BY <1>1
  <2>3. \A i \in 1 .. Len(seen') :
           seen'[i][1] \in Savers => Finished(seen'[i][1])
    BY <1>2, <2>1, <2>2 DEF SInv, ReaderInv
  <2>4. QED
    BY <1>1, <1>3, <2>3 DEF ReaderInv
<1>6. TypeOK'
  BY <1>1, <1>4 DEF SInv, TypeOK
<1>7. AtInv' /\ TempsInv' /\ WrittenInv'
  BY <1>1 DEF SInv, AtInv, TempsInv, WrittenInv
<1>8. PublishedInv'
  BY <1>1, <1>3 DEF SInv, PublishedInv
<1>9. DirsInv'
  BY <1>1 DEF SInv, DirsInv, Settled, AllDirs
<1>10. QED
  BY <1>5, <1>6, <1>7, <1>8, <1>9 DEF SInv

\* ... or judges those it has.
LEMMA ValidateSInv ==
  ASSUME SInv, validate_shard_set
  PROVE  SInv'
<1>1. /\ verdict' \in {"accepted", "refused"}
      /\ verdict' = "accepted" => Accepts(seen)
      /\ UNCHANGED <<fsync, pooled, pc, at, task, toSync, temps, final, past,
                     head, filled, durable, lost, seen>>
  BY DEF validate_shard_set, options, call, disk
<1>2. \A s \in Savers : Finished(s)' <=> Finished(s)
  BY <1>1 DEF Finished, Whole
<1>3. TypeOK'
  BY <1>1 DEF SInv, TypeOK
<1>4. AtInv' /\ TempsInv' /\ WrittenInv'
  BY <1>1 DEF SInv, AtInv, TempsInv, WrittenInv
<1>5. PublishedInv'
  BY <1>1, <1>2 DEF SInv, PublishedInv
<1>6. DirsInv'
  BY <1>1 DEF SInv, DirsInv, Settled, AllDirs
<1>7. ReaderInv'
  <2>1. Accepts(seen)' <=> Accepts(seen)
    BY <1>1 DEF Accepts
  <2>2. \A i \in 1 .. Len(seen') :
           seen'[i][1] \in Savers => Finished(seen'[i][1])
    BY <1>1 DEF SInv, ReaderInv
  <2>3. QED
    BY <1>1, <1>2, <2>1, <2>2 DEF ReaderInv
<1>8. QED
  BY <1>3, <1>4, <1>5, <1>6, <1>7 DEF SInv

LEMMA InitSInv == Init => SInv
<1> SUFFICES ASSUME Init PROVE SInv
  OBVIOUS
<1>1. /\ fsync \in [Savers -> BOOLEAN] /\ pooled \in BOOLEAN
      /\ pc = [s \in Savers |-> "check"] /\ at = [s \in Savers |-> 1]
      /\ task = [s \in Savers |-> Untouched]
      /\ toSync = [s \in Savers |-> AllDirs]
      /\ temps = {} /\ head = {} /\ filled = {} /\ durable = {}
      /\ lost = FALSE /\ seen = <<>> /\ verdict = "none"
  BY DEF Init
<1>2. PICK first \in {Old, NoFile} : /\ final = [k \in Shards |-> first]
                                     /\ past = [k \in Shards |-> {first}]
  BY DEF Init
<1>3. 1 \in Shards /\ 1 \in 1 .. NumShards + 1
  BY SaverAssumption DEF Shards
<1>4. TypeOK
  <2>1. /\ task \in [Savers -> [Entries -> {"todo", "done", "failed"}]]
        /\ at \in [Savers -> 1 .. NumShards + 1]
        /\ toSync \in [Savers -> SUBSET AllDirs]
        /\ pc \in [Savers -> Points]
    BY <1>1, <1>3 DEF Untouched, Points
  <2>2. /\ final \in [Shards -> Saves \cup {NoFile}]
        /\ past \in [Shards -> SUBSET (Saves \cup {NoFile})]
    BY <1>2 DEF Saves
  <2>3. seen \in Seq(Files)
    BY <1>1
  <2>4. QED
    BY <1>1, <2>1, <2>2, <2>3 DEF TypeOK, Points
<1>5. AtInv /\ TempsInv
  BY <1>1, <1>3 DEF AtInv, TempsInv
<1>6. WrittenInv
  <2>1. \A s \in Savers, e \in Entries : task[s][e] = "todo"
    BY <1>1 DEF Untouched
  <2>2. QED
    BY <1>1, <2>1 DEF WrittenInv
<1>7. PublishedInv
  BY <1>2, SaverAssumption DEF PublishedInv
<1>8. DirsInv
  BY <1>1 DEF DirsInv
<1>9. ReaderInv
  BY <1>1 DEF ReaderInv
<1>10. QED
  BY <1>4, <1>5, <1>6, <1>7, <1>8, <1>9 DEF SInv

LEMMA NextSInv ==
  ASSUME SInv, [Next]_vars
  PROVE  SInv'
<1>1. CASE Next
  <2>1. CASE \E s \in Savers : Save(s) \/ Die(s)
    BY <2>1, SaveSInv, DieSInv
  <2>2. CASE PowerLoss
    BY <2>2, PowerLossSInv
  <2>3. CASE \E k \in Shards : Open(k)
    BY <2>3, OpenSInv
  <2>4. CASE validate_shard_set
    BY <2>4, ValidateSInv
  <2>5. QED
    BY <1>1, <2>1, <2>2, <2>3, <2>4 DEF Next
<1>2. CASE UNCHANGED vars
  <2>1. UNCHANGED <<fsync, pooled, pc, at, task, toSync, temps, final, past,
                    head, filled, durable, lost, seen, verdict>>
    BY <1>2 DEF vars, options, call, disk, reader
  <2>2. TypeOK' /\ AtInv' /\ TempsInv' /\ WrittenInv'
    BY <2>1 DEF SInv, TypeOK, AtInv, TempsInv, WrittenInv
  <2>3. PublishedInv' /\ DirsInv' /\ ReaderInv'
    BY <2>1 DEF SInv, PublishedInv, DirsInv, ReaderInv, Finished, Whole,
       Settled, AllDirs, Accepts
  <2>4. QED
    BY <2>2, <2>3 DEF SInv
<1>3. QED
  BY <1>1, <1>2

\* The invariant holds in every reachable state.
LEMMA SaverInductive == Spec => []SInv
<1>1. Init => SInv
  BY InitSInv
<1>2. SInv /\ [Next]_vars => SInv'
  BY NextSInv
<1>3. QED
  BY <1>1, <1>2, PTL DEF Spec

-----------------------------------------------------------------------------
(* The theorems.                                                           *)

\* The variables keep their types.
THEOREM SaverTypes == Spec => []TypeOK
<1>1. SInv => TypeOK
  BY DEF SInv
<1>2. QED
  BY <1>1, SaverInductive, PTL

\* write_shards leaves no temporary file behind when it returns or raises, in
\* whatever call it failed (saver.py, the except of write_shards).
THEOREM NothingLeftBehind == Spec => []NoLitter
<1>1. SInv => NoLitter
  BY DEF SInv, TempsInv, NoLitter
<1>2. QED
  BY <1>1, SaverInductive, PTL

\* A set of files that validate_shard_set accepts is one save, and whole,
\* whenever each of them was opened and whatever else was saved meanwhile;
\* after a loss of power too when that save used fsync.
THEOREM AcceptedSetsAreWhole == Spec => []AcceptedIsWhole
<1>1. ASSUME SInv, verdict = "accepted"
      PROVE  \E s \in Saves :
                /\ seen = [k \in Shards |-> <<s, k>>]
                /\ (lost => s = Old \/ fsync[s])
                      => \A k \in Shards : Whole(<<s, k>>)
  <2> DEFINE s == seen[1][1]
  <2>1. /\ seen \in Seq(Files) /\ Len(seen) = NumShards
        /\ \A i \in Shards : seen[i][2] = i /\ seen[i][1] = s
    BY <1>1 DEF SInv, TypeOK, ReaderInv, Accepts
  <2>2. 1 \in Shards /\ Shards = 1 .. Len(seen)
    BY <2>1, SaverAssumption DEF Shards
  <2>3. \A i \in Shards : seen[i] \in Files
    BY <2>1, <2>2
  <2>4. s \in Saves /\ \A i \in Shards : seen[i] = <<s, i>>
    BY <2>1, <2>2, <2>3 DEF Files
  <2>5. seen = [k \in Shards |-> <<s, k>>]
    <3>1. seen = [k \in Shards |-> seen[k]]
      BY <2>1, <2>2
    <3> HIDE DEF s
    <3>2. QED
      BY <2>4, <3>1
  <2>6. s \in Savers => Finished(s)
    BY <1>1, <2>2 DEF SInv, ReaderInv
  <2> HIDE DEF s
  <2>7. ASSUME lost => s = Old \/ fsync[s], NEW k \in Shards
        PROVE  Whole(<<s, k>>)
    <3>1. CASE s = Old
      BY <3>1 DEF Whole
    <3>2. CASE s # Old
      BY <2>4, <2>6, <2>7, <3>2 DEF Saves, Finished
    <3>3. QED
      BY <3>1, <3>2
  <2>8. QED
    BY <2>4, <2>5, <2>7
<1>2. SInv => AcceptedIsWhole
  BY <1>1 DEF AcceptedIsWhole
<1>3. QED
  BY <1>2, SaverInductive, PTL

\* Once a save with fsync has returned, no loss of power brings back what it
\* replaced: the directories were synced after the renames, and the files
\* before them.
THEOREM ReturnedIsDurable == Spec => []SavedIsDurable
<1>1. ASSUME SInv, NEW s \in Savers, pc[s] = "returned", fsync[s],
             NEW k \in Shards
      PROVE  /\ past[k] \subseteq Savers
             /\ final[k] = s => past[k] = {s}
             /\ \A r \in past[k] :
                   fsync[r] => <<r, k>> \in durable /\ Whole(<<r, k>>)
  <2>1. Settled(s, k)
    BY <1>1 DEF SInv, DirsInv
  <2>2. \A r \in past[k] : r \in Savers /\ Finished(r)
    BY <1>1, <2>1 DEF SInv, PublishedInv, Settled
  <2>3. QED
    BY <2>1, <2>2 DEF Settled, Finished
<1>2. SInv => SavedIsDurable
  BY <1>1 DEF SavedIsDurable
<1>3. QED
  BY <1>2, SaverInductive, PTL

=============================================================================
