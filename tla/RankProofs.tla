----------------------------- MODULE RankProofs -----------------------------
(***************************************************************************)
(* Proofs about RankBuffers for every group of ranks, every set of files   *)
(* and tensors, every program (that leaves no push of a rank to itself     *)
(* without a wait, UseAssumption) and every pace of the ranks, their       *)
(* devices and the reads.                                                  *)
(***************************************************************************)
EXTENDS RankBuffers, FiniteSetTheorems, SequenceTheorems,
        WellFoundedInduction, TLAPS

-----------------------------------------------------------------------------
(* The inductive invariant.                                                *)

Collectives == [kind : {"broadcast", "scatter", "push", "run"}, root : Ranks,
                names : Seq(Tensors), members : SUBSET Ranks, tag : Nat]
Operations == [op : {"clone", "join"}, item : Collectives]

\* The types of the variables
HostTypes ==
    /\ program \in Programs /\ cached \in BOOLEAN /\ drains \in BOOLEAN
    /\ step \in [Ranks -> Nat] /\ items \in [Ranks -> Seq(Collectives)]
    /\ phase \in [Ranks -> {"idle", "issue", "sync", "raised", "closed"}]
    /\ tag \in [Ranks -> [SetOf(Files) -> Nat]]
    /\ shuffled \in [Ranks -> SUBSET Tensors] /\ taken \in [Ranks -> SUBSET Tensors]
    /\ \A r \in Ranks :
          /\ step[r] \in 1 .. Len(program) + 1
          /\ phase[r] \in {"issue", "sync"} => step[r] <= Len(program)
          /\ phase[r] = "closed" => step[r] > Len(program)
DeviceTypes ==
    /\ stream \in [Ranks -> Seq(Operations)] /\ staged \in [Ranks -> BOOLEAN]
    /\ landed \in SUBSET Tensors /\ buffer \in [SetOf(Files) -> {"live", "freed"}]
    /\ out \in [Ranks -> [Tensors -> {"none", "good", "bad"}]]

\* What a rank has counted and cached is what its calls so far say.
TakenInv ==
    \A r \in Ranks :
        /\ taken[r] = Took(r, program, step[r] - 1)
        /\ shuffled[r] \subseteq Kept(r, program, step[r] - 1)

\* A buffer is freed when its owner has taken all of it, or closed.
FreedInv ==
    \A f \in SetOf(Files) :
        buffer[f] = "freed" <=>
            Contents[f] \subseteq taken[Owner[f]] \/ phase[Owner[f]] = "closed"

\* A collective is about tensors of its call, which its root owns, and a rank
\* issues what it takes part in.
GoodItem(r, call, item) ==
    /\ SetOf(item.names) \subseteq SetOf(call.names)
    /\ \A t \in SetOf(item.names) : Home(t) = item.root
    /\ {r, item.root} \subseteq item.members
    /\ item.kind = "run" => call.kind = "iter"
    /\ item.kind = "broadcast" =>
          \/ call.kind = "broadcast" /\ SetOf(item.names) = {call.names[1]}
          \/ \A t \in SetOf(item.names) : Bytes(t) = 0
    /\ Local(item) => OwnPush(r, call)
ItemsInv ==
    \A r \in Ranks : phase[r] \in {"issue", "sync"} =>
        \A i \in 1 .. Len(items[r]) : GoodItem(r, Call(r), items[r][i])

\* A clone that is queued will find its bytes, and a collective has the clone
\* it needs before it, unless that has run; a get_tensor that comes too late
\* for its file is excused.
Excused(item) ==
    item.kind = "broadcast" /\ \A t \in SetOf(item.names) : AskedLate(t)
GoodClone(r, item) ==
    /\ item.root = r /\ SetOf(item.names) \subseteq landed
    /\ \A t \in SetOf(item.names) : Home(t) = r
    /\ \/ Excused(item)
       \/ \A t \in SetOf(item.names) : Bytes(t) = 0 \/ buffer[Frame[t].file] = "live"
GoodAt(r, s, i) ==
    /\ {r, s[i].item.root} \subseteq s[i].item.members
    /\ s[i].op = "clone" => GoodClone(r, s[i].item)
    /\ s[i].op = "join" /\ s[i].item.root = r =>
          IF i = 1 THEN staged[r] \/ Excused(s[1].item)
          ELSE s[i - 1].op = "clone" /\ s[i - 1].item = s[i].item
StreamInv ==
    \A r \in Ranks : \A i \in 1 .. Len(stream[r]) : GoodAt(r, stream[r], i)

\* So is every copy that was made.
GoodInv == StreamInv /\ CorrectTensors

\* Outside a call only a push of a rank to itself leaves work in its stream,
\* and in a call that waits there is something left to issue, or none.
QuietInv ==
    \A r \in Ranks : stream[r] # <<>> =>
        /\ phase[r] = "idle" => Unwaited(r, program, step[r] - 1)
        /\ phase[r] = "issue" =>
              \/ Call(r).kind = "iter" \/ OwnPush(r, Call(r))
              \/ /\ Unwaited(r, program, step[r] - 1)
                 /\ Waits(r, program, step[r]) => items[r] # <<>>

RInv == /\ HostTypes /\ DeviceTypes /\ TakenInv /\ FreedInv /\ ItemsInv
        /\ QuietInv /\ GoodInv

-----------------------------------------------------------------------------
(* What the headers and a program say.                                     *)

LEMMA FileFacts ==
  /\ Files \in Seq(SetOf(Files))
  /\ \A f \in SetOf(Files) :
        /\ Owner[f] \in Ranks /\ Contents[f] \subseteq Tensors
        /\ Contents[f] # {}
        /\ \A t \in Contents[f] : Frame[t].file = f /\ Home(t) = Owner[f]
  /\ \A t \in Tensors :
        /\ Frame[t].file \in SetOf(Files) /\ t \in Contents[Frame[t].file]
        /\ Home(t) \in Ranks
BY FileAssumption DEF Tensors, Home

LEMMA CallFacts ==
  ASSUME NEW p \in Programs, NEW k \in 1 .. Len(p)
  PROVE  /\ p[k] \in Calls /\ p[k].kind \in Kinds
         /\ p[k].to \in Ranks /\ p[k].upto \in Nat
         /\ p[k].names \in Seq(Tensors) /\ p[k].names # <<>>
         /\ p[k].names[1] \in SetOf(p[k].names)
         /\ SetOf(p[k].names) \subseteq Tensors
         /\ p[k].kind \in {"broadcast", "scatter", "push"} =>
               SetOf(p[k].names) = {p[k].names[1]}
<1> DEFINE C == [kind : Kinds, names : Seq(Tensors), to : Ranks, upto : Nat]
<1>0. p \in Seq(C) /\ DOMAIN p = 1 .. Len(p)
  <2>1. p \in Seq(C)
    BY ProgramAssumption
  <2> HIDE DEF C
  <2>2. QED
    BY <2>1
<1>1. /\ p[k].names # <<>>
      /\ p[k].kind \in {"broadcast", "scatter", "push"} => Len(p[k].names) = 1
  <2> HIDE DEF C
  <2>1. k \in DOMAIN p
    BY <1>0
  <2>2. QED
    BY <2>1, ProgramAssumption
<1>2. p[k] \in C
  <2> HIDE DEF C
  <2>1. QED
    BY <1>0
<1>3. p[k].names \in Seq(Tensors) /\ p[k].names # <<>>
  BY <1>1, <1>2
<1>4. /\ DOMAIN p[k].names = 1 .. Len(p[k].names) /\ 1 \in DOMAIN p[k].names
      /\ \A i \in DOMAIN p[k].names : p[k].names[i] \in Tensors
  BY <1>3
<1>5. p[k] \in SetOf(p) /\ p[k] \in Calls
  <2> HIDE DEF C
  <2>1. QED
    BY <1>0 DEF SetOf, Calls
<1>6. /\ p[k].names[1] \in SetOf(p[k].names)
      /\ SetOf(p[k].names) \subseteq Tensors
      /\ Len(p[k].names) = 1 => SetOf(p[k].names) = {p[k].names[1]}
  BY <1>4 DEF SetOf
<1>7. QED
  BY <1>1, <1>2, <1>3, <1>5, <1>6

\* What is in a sequence
LEMMA SetOfSeq ==
  ASSUME NEW T, NEW s \in Seq(T)
  PROVE  /\ SetOf(s) \subseteq T
         /\ \A i \in 1 .. Len(s) : s[i] \in SetOf(s)
         /\ \A x \in SetOf(s) : \E i \in 1 .. Len(s) : x = s[i]
         /\ s # <<>> => s[1] \in SetOf(s) /\ Len(s) >= 1
         /\ SetOf(s) # {} => s # <<>>
         /\ \A x : Append(s, x) = s \o <<x>>
         /\ \A x \in T : SetOf(Append(s, x)) = SetOf(s) \cup {x}
<1>1. DOMAIN s = 1 .. Len(s) /\ Len(s) \in Nat /\ \A i \in 1 .. Len(s) : s[i] \in T
  OBVIOUS
<1>2. s # <<>> => Len(s) >= 1
  BY <1>1
<1>3. ASSUME NEW x \in T PROVE SetOf(Append(s, x)) = SetOf(s) \cup {x}
  <2>1. /\ DOMAIN Append(s, x) = 1 .. Len(s) + 1
        /\ \A i \in 1 .. Len(s) : Append(s, x)[i] = s[i]
        /\ Append(s, x)[Len(s) + 1] = x
    OBVIOUS
  <2>2. \A i \in 1 .. Len(s) + 1 : i \in 1 .. Len(s) \/ i = Len(s) + 1
    BY <1>1
  <2>3. 1 .. Len(s) \subseteq 1 .. Len(s) + 1 /\ Len(s) + 1 \in 1 .. Len(s) + 1
    BY <1>1
  <2> HIDE <1>1
  <2>4. DOMAIN s = 1 .. Len(s)
    BY <1>1
  <2>5. QED
    BY <2>1, <2>2, <2>3, <2>4 DEF SetOf
<1>4. \A x : Append(s, x) = s \o <<x>>
  OBVIOUS
<1>5. SetOf(s) # {} => s # <<>>
  BY DEF SetOf
<1>6. QED
  BY SMTT(30), <1>1, <1>2, <1>3, <1>4, <1>5 DEF SetOf

\* A set of numbers that is not empty has a least one: < is well-founded.
LEMMA LeastNumber ==
  ASSUME NEW S \in SUBSET Nat, S # {}
  PROVE  \E x \in S : \A y \in S : x <= y
<1>1. \A y, z \in Nat : y < z => <<y, z>> \in OpToRel(<, Nat)
  BY Zenon DEF OpToRel
<1>2. \E x \in S : \A y \in S : ~(<<y, x>> \in OpToRel(<, Nat))
  BY NatLessThanWellFounded, WFMin
<1>3. \E x \in S : \A y \in S : ~(y < x)
  BY <1>1, <1>2, Zenon
<1>4. QED
  BY <1>3

\* Induction up to n, about the numbers for which something holds.
LEMMA Induction ==
  ASSUME NEW n \in Nat, NEW B \in SUBSET (0 .. n), 0 \in B,
         \A k \in 1 .. n : k - 1 \in B => k \in B
  PROVE  B = 0 .. n
<1> DEFINE Bad == (0 .. n) \ B
<1>1. SUFFICES ASSUME Bad # {} PROVE FALSE
  OBVIOUS
<1>2. PICK x \in Bad : \A y \in Bad : x <= y
  <2>1. Bad \in SUBSET Nat
    OBVIOUS
  <2> HIDE DEF Bad
  <2>2. QED
    BY <1>1, <2>1, LeastNumber
<1>3. x # 0 /\ x \in 1 .. n /\ x - 1 \in 0 .. n /\ ~(x <= x - 1)
  BY <1>2
<1>4. QED
  BY <1>2, <1>3

\* f has the values, in V, of the recursion with the steps g from v to n.
Follows(f, V, v, n, g) ==
    /\ f \in [0 .. n -> V]
    /\ \A k \in 0 .. n : f[k] = IF k = 0 THEN v ELSE g[<<f[k - 1], k>>]

\* A recursive function whose steps stay in V has a value.
LEMMA Recursion ==
  ASSUME NEW V, NEW v \in V, NEW n \in Nat, NEW g \in [V \X (1 .. n) -> V]
  PROVE  \E f : Follows(f, V, v, n, g)
<1> DEFINE Good(f, m) == \A k \in 0 .. m : f[k] = IF k = 0 THEN v ELSE g[<<f[k - 1], k>>]
           B == {m \in 0 .. n : \E f \in [0 .. m -> V] : Good(f, m)}
<1>1. 0 \in B
  <2> DEFINE z == [k \in 0 .. 0 |-> v]
  <2>1. z \in [0 .. 0 -> V] /\ Good(z, 0)
    OBVIOUS
  <2> HIDE DEF z, Good
  <2>2. QED
    BY <2>1
<1>2. ASSUME NEW m \in 1 .. n, m - 1 \in B PROVE m \in B
  <2>1. PICK f \in [0 .. m - 1 -> V] : Good(f, m - 1)
    BY <1>2
  <2>2. m - 1 \in 0 .. m - 1 /\ m \in 0 .. n /\ m # 0 /\ ~(m <= m - 1)
    OBVIOUS
  <2>3. f[m - 1] \in V /\ <<f[m - 1], m>> \in V \X (1 .. n)
    BY <2>1, <2>2
  <2> DEFINE h == [k \in 0 .. m |-> IF k = m THEN g[<<f[m - 1], m>>] ELSE f[k]]
  <2>4. \A k \in 0 .. m : k = m \/ k \in 0 .. m - 1
    OBVIOUS
  <2>5. h \in [0 .. m -> V]
    BY <2>1, <2>3, <2>4
  <2>6. h[m] = g[<<f[m - 1], m>>] /\ \A k \in 0 .. m - 1 : h[k] = f[k]
    BY <2>2
  <2> HIDE DEF h
  <2>7. ASSUME NEW k \in 0 .. m PROVE h[k] = IF k = 0 THEN v ELSE g[<<h[k - 1], k>>]
    <3>1. CASE k = m
      BY <2>2, <2>6, <3>1
    <3>2. CASE k \in 0 .. m - 1
      <4>1. k = 0 \/ k - 1 \in 0 .. m - 1
        BY <3>2
      <4>2. f[k] = IF k = 0 THEN v ELSE g[<<f[k - 1], k>>]
        BY <2>1, <3>2
      <4>3. QED
        BY <2>6, <3>2, <4>1, <4>2
    <3>3. QED
      BY <2>4, <3>1, <3>2
  <2>8. QED
    BY <2>2, <2>5, <2>7
<1>3. B = 0 .. n
  <2> HIDE DEF Good
  <2>1. QED
    BY <1>1, <1>2, Induction
<1>4. n \in B
  BY <1>3
<1>5. QED
  BY <1>4 DEF Follows

\* Among keeps what is in S.
LEMMA AmongFacts ==
  ASSUME NEW T, NEW s \in Seq(T), NEW S
  PROVE  Among(s, S) \in Seq(T) /\ SetOf(Among(s, S)) = SetOf(s) \cap S
<1> DEFINE n == Len(s)
           Step(q, k) == IF s[k] \in S THEN Append(q, s[k]) ELSE q
           g == [x \in Seq(T) \X (1 .. n) |-> Step(x[1], x[2])]
           P(U) == U = [k \in 0 .. n |-> IF k = 0 THEN <<>> ELSE Step(U[k - 1], k)]
           W == CHOOSE U : P(U)
<1>1. n \in Nat /\ DOMAIN s = 1 .. n /\ \A k \in 1 .. n : s[k] \in T
  OBVIOUS
<1>2. \A q \in Seq(T), k \in 1 .. n : Step(q, k) \in Seq(T)
  BY <1>1
<1>3. \A q \in Seq(T), k \in 1 .. n : g[<<q, k>>] = Step(q, k)
  OBVIOUS
<1>4. g \in [Seq(T) \X (1 .. n) -> Seq(T)]
  <2> HIDE DEF Step
  <2>1. QED
    BY <1>2
<1>5. Among(s, S) = W[n]
  BY DEF Among
<1> HIDE DEF Step, g
<1>6. PICK f \in [0 .. n -> Seq(T)] :
         \A k \in 0 .. n : f[k] = IF k = 0 THEN <<>> ELSE g[<<f[k - 1], k>>]
  <2> DEFINE V == Seq(T)
             v == <<>>
  <2>1. v \in V
    OBVIOUS
  <2>2. n \in Nat /\ g \in [V \X (1 .. n) -> V]
    BY <1>1, <1>4
  <2> HIDE DEF n, V, v
  <2>3. \E f : Follows(f, V, v, n, g)
    BY <2>1, <2>2, Recursion
  <2>4. QED
    BY <2>3 DEF V, v, Follows
<1> HIDE DEF n
<1>7. \A k \in 0 .. n : f[k] = IF k = 0 THEN <<>> ELSE Step(f[k - 1], k)
  <2>1. \A k \in 0 .. n : k # 0 => k \in 1 .. n /\ k - 1 \in 0 .. n
    BY <1>1
  <2>2. \A k \in 0 .. n : k # 0 => g[<<f[k - 1], k>>] = Step(f[k - 1], k)
    BY <1>3, <1>6, <2>1
  <2>3. QED
    BY <1>6, <2>2
<1>8. P(f)
  <2>1. f = [k \in 0 .. n |-> f[k]]
    BY <1>6
  <2>2. QED
    BY <1>7, <2>1
<1>9. P(W)
  <2> HIDE DEF P
  <2>1. QED
    BY <1>8
<1> HIDE DEF W
<1>10. W \in [0 .. n -> Seq(T)] /\ \A k \in 0 .. n : W[k] = IF k = 0 THEN <<>> ELSE Step(W[k - 1], k)
  <2> DEFINE B == {k \in 0 .. n : W[k] = f[k]}
  <2>1. \A k \in 0 .. n : W[k] = IF k = 0 THEN <<>> ELSE Step(W[k - 1], k)
    BY <1>9
  <2>2. 0 \in B
    <3>1. 0 \in 0 .. n
      BY <1>1
    <3>2. W[0] = <<>> /\ f[0] = <<>>
      BY <1>7, <2>1, <3>1
    <3>3. QED
      BY <3>1, <3>2
  <2>3. ASSUME NEW k \in 1 .. n, k - 1 \in B PROVE k \in B
    <3>1. k \in 0 .. n /\ k # 0
      BY <1>1
    <3>2. QED
      BY <1>7, <2>1, <2>3, <3>1
  <2>4. B = 0 .. n
    BY <1>1, <2>2, <2>3, Induction
  <2>5. \A k \in 0 .. n : W[k] \in Seq(T)
    BY <1>6, <2>4
  <2>6. DOMAIN W = 0 .. n /\ W = [k \in 0 .. n |-> W[k]]
    BY <1>9
  <2>7. QED
    BY <2>1, <2>5, <2>6
<1> DEFINE C == {k \in 0 .. n : SetOf(W[k]) = {s[j] : j \in 1 .. k} \cap S}
<1>11. 0 \in C
  <2>1. W[0] = <<>> /\ SetOf(<<>>) = {} /\ 1 .. 0 = {} /\ 0 \in 0 .. n
    BY <1>1, <1>10 DEF SetOf
  <2>2. QED
    BY <2>1
<1>12. ASSUME NEW k \in 1 .. n, k - 1 \in C PROVE k \in C
  <2>1. /\ k \in 0 .. n /\ k # 0 /\ k - 1 \in 0 .. n /\ s[k] \in T
        /\ 1 .. k = (1 .. k - 1) \cup {k}
    BY <1>1
  <2>2. W[k] = Step(W[k - 1], k) /\ W[k - 1] \in Seq(T)
    BY <1>10, <2>1
  <2>3. {s[j] : j \in 1 .. k} = {s[j] : j \in 1 .. k - 1} \cup {s[k]}
    BY <2>1
  <2>4. SetOf(Append(W[k - 1], s[k])) = SetOf(W[k - 1]) \cup {s[k]}
    BY <2>1, <2>2, SetOfSeq
  <2>5. SetOf(W[k - 1]) = {s[j] : j \in 1 .. k - 1} \cap S
    BY <1>12
  <2>6. QED
    BY <2>1, <2>2, <2>3, <2>4, <2>5 DEF Step
<1>13. C = 0 .. n
  BY <1>1, <1>11, <1>12, Induction
<1>14. n \in 0 .. n /\ SetOf(W[n]) = {s[j] : j \in 1 .. n} \cap S
  <2>1. n \in 0 .. n
    BY <1>1
  <2>2. n \in C
    BY <1>13, <2>1
  <2>3. QED
    BY <2>1, <2>2
<1>15. SetOf(s) = {s[j] : j \in 1 .. n}
  BY <1>1 DEF SetOf
<1>16. QED
  BY <1>5, <1>10, <1>14, <1>15

\* A run has tensors of one file only, and an empty tensor is one of its own.
GoodRuns(names) ==
    {run \in Seq(Tensors) :
        /\ run # <<>> /\ SetOf(run) \subseteq SetOf(names)
        /\ \A t \in SetOf(run) : Frame[t].file = Frame[run[1]].file
        /\ Bytes(run[1]) = 0 => SetOf(run) = {run[1]}}

\* One step of _broadcast_runs
Extended(r, runs, t) ==
    IF runs = <<>> \/ Splits(r, runs[Len(runs)], t) THEN Append(runs, <<t>>)
    ELSE [runs EXCEPT ![Len(runs)] = Append(@, t)]

LEMMA ExtendedRuns ==
  ASSUME NEW r, NEW names \in Seq(Tensors), NEW runs \in Seq(GoodRuns(names)),
         NEW t \in SetOf(names)
  PROVE  Extended(r, runs, t) \in Seq(GoodRuns(names))
<1> DEFINE G == GoodRuns(names)
<1>1. t \in Tensors
  BY SetOfSeq
<1>2. <<t>> \in G
  <2>1. <<t>> \in Seq(Tensors) /\ <<t>> # <<>> /\ SetOf(<<t>>) = {t} /\ <<t>>[1] = t
    BY <1>1 DEF SetOf
  <2>2. QED
    BY <2>1 DEF GoodRuns
<1>3. CASE runs = <<>> \/ Splits(r, runs[Len(runs)], t)
  <2>1. Append(runs, <<t>>) \in Seq(G)
    <3> HIDE DEF G
    <3>1. runs \in Seq(G)
      BY DEF G
    <3>2. QED
      BY <1>2, <3>1
  <2>2. QED
    BY <1>3, <2>1 DEF Extended
<1>4. CASE runs # <<>> /\ ~Splits(r, runs[Len(runs)], t)
  <2> DEFINE n == Len(runs)
             last == runs[n]
             new == Append(last, t)
  <2>1. runs \in Seq(G) /\ n \in 1 .. n /\ runs \in [1 .. n -> G]
    <3> HIDE DEF G
    <3>1. runs \in Seq(G)
      BY DEF G
    <3>2. QED
      BY <1>4, <3>1
  <2>2. last \in G
    <3> HIDE DEF G, n
    <3>1. QED
      BY <2>1
  <2>3. /\ last \in Seq(Tensors) /\ last # <<>>
        /\ SetOf(last) \subseteq SetOf(names)
        /\ \A u \in SetOf(last) : Frame[u].file = Frame[last[1]].file
        /\ Bytes(last[1]) = 0 => SetOf(last) = {last[1]}
    BY <2>2 DEF GoodRuns
  <2>4. Frame[last[Len(last)]].file = Frame[t].file /\ ~(Bytes(last[Len(last)]) = 0)
    BY <1>4 DEF Splits
  <2> HIDE DEF last, G
  <2>5. /\ Len(last) \in 1 .. Len(last) /\ last[Len(last)] \in SetOf(last)
        /\ new[1] = last[1] /\ new \in Seq(Tensors) /\ new # <<>>
        /\ SetOf(new) = SetOf(last) \cup {t}
    <3>1. Len(last) \in 1 .. Len(last)
      BY <2>3
    <3>2. new[1] = last[1] /\ new \in Seq(Tensors) /\ new # <<>>
      BY <1>1, <2>3, <3>1
    <3>3. QED
      BY <1>1, <2>3, <3>1, <3>2, SetOfSeq
  <2>6. new \in G
    <3>1. Frame[last[1]].file = Frame[t].file
      BY <2>3, <2>4, <2>5
    <3>2. ~(Bytes(last[1]) = 0)
      BY <2>3, <2>4, <2>5, Zenon
    <3> HIDE DEF new
    <3>3. QED
      BY <2>3, <2>5, <3>1, <3>2 DEF GoodRuns, G
  <2>7. [runs EXCEPT ![n] = new] \in Seq(G)
    <3> HIDE DEF new
    <3>1. QED
      BY <2>1, <2>6, ExceptSeq
  <2>8. Extended(r, runs, t) = [runs EXCEPT ![n] = new]
    BY <1>4 DEF Extended, last
  <2>9. QED
    BY <2>7, <2>8 DEF G
<1>5. QED
  BY <1>3, <1>4

\* _broadcast_runs forms runs of its names, each within a file.
LEMMA RunsFacts ==
  ASSUME NEW r, NEW names \in Seq(Tensors)
  PROVE  Runs(r, names) \in Seq(GoodRuns(names))
<1> DEFINE n == Len(names)
           V == Seq(GoodRuns(names))
           Step(runs, k) == Extended(r, runs, names[k])
           g == [x \in V \X (1 .. n) |-> Step(x[1], x[2])]
           P(U) == U = [k \in 0 .. n |-> IF k = 0 THEN <<>> ELSE Step(U[k - 1], k)]
           W == CHOOSE U : P(U)
<1>1. n \in Nat /\ \A k \in 1 .. n : names[k] \in SetOf(names)
  BY SetOfSeq
<1>2. <<>> \in V
  OBVIOUS
<1>3. Runs(r, names) = W[n]
  BY DEF Runs, Extended
<1>4. \A runs \in V, k \in 1 .. n : Step(runs, k) \in V
  <2> HIDE DEF n
  <2>1. QED
    BY <1>1, ExtendedRuns
<1> HIDE DEF V, Step
<1>5. \A runs \in V, k \in 1 .. n : g[<<runs, k>>] = Step(runs, k)
  OBVIOUS
<1>6. g \in [V \X (1 .. n) -> V]
  BY <1>4
<1> HIDE DEF n, g
<1>7. PICK f : Follows(f, V, <<>>, n, g)
  <2> DEFINE v == <<>>
  <2>1. v \in V
    BY <1>2
  <2> HIDE DEF v
  <2>2. \E f : Follows(f, V, v, n, g)
    BY <1>1, <1>6, <2>1, Recursion
  <2>3. QED
    BY <2>2 DEF v
<1>8. \A k \in 0 .. n : k # 0 => k \in 1 .. n /\ k - 1 \in 0 .. n
  BY <1>1
<1>9. P(f)
  <2>1. f \in [0 .. n -> V]
        /\ \A k \in 0 .. n : f[k] = IF k = 0 THEN <<>> ELSE g[<<f[k - 1], k>>]
    BY <1>7 DEF Follows
  <2>2. \A k \in 0 .. n : k # 0 => g[<<f[k - 1], k>>] = Step(f[k - 1], k)
    BY <1>5, <1>8, <2>1
  <2>3. \A k \in 0 .. n : f[k] = IF k = 0 THEN <<>> ELSE Step(f[k - 1], k)
    BY <2>1, <2>2
  <2>4. f = [k \in 0 .. n |-> f[k]]
    BY <2>1
  <2>5. QED
    BY <2>3, <2>4
<1>10. P(W)
  <2> HIDE DEF P
  <2>1. QED
    BY <1>9
<1> HIDE DEF W
<1>11. \A k \in 0 .. n : W[k] = IF k = 0 THEN <<>> ELSE Step(W[k - 1], k)
  BY <1>10
<1> DEFINE B == {k \in 0 .. n : W[k] \in V}
<1>12. 0 \in B
  <2>1. 0 \in 0 .. n
    BY <1>1
  <2>2. QED
    BY <1>2, <1>11, <2>1
<1>13. ASSUME NEW k \in 1 .. n, k - 1 \in B PROVE k \in B
  <2>1. k \in 0 .. n /\ k # 0
    BY <1>1
  <2>2. QED
    BY <1>4, <1>11, <1>13, <2>1
<1>14. B = 0 .. n
  BY <1>1, <1>12, <1>13, Induction
<1>15. n \in 0 .. n
  BY <1>1
<1>16. W[n] \in V
  BY <1>14, <1>15
<1>17. QED
  BY <1>3, <1>16 DEF V

\* What a collective is about, and who takes part
LEMMA CollectiveType ==
  ASSUME NEW kind \in {"broadcast", "scatter", "push", "run"},
         NEW names \in Seq(Tensors), names # <<>>,
         NEW members \in SUBSET Ranks, NEW id \in Nat
  PROVE  /\ Collective(kind, names, members, id) \in Collectives
         /\ Collective(kind, names, members, id).kind = kind
         /\ Collective(kind, names, members, id).root = Home(names[1])
         /\ Collective(kind, names, members, id).names = names
         /\ Collective(kind, names, members, id).members = members
<1>1. names[1] \in Tensors
  BY SetOfSeq
<1>2. Home(names[1]) \in Ranks
  BY <1>1, FileFacts
<1>3. QED
  BY <1>2 DEF Collective, Collectives

\* A function on the places of a sequence is a sequence.
LEMMA MapSeq ==
  ASSUME NEW T, NEW s \in Seq(T), NEW U, NEW m, DOMAIN m = DOMAIN s,
         \A i \in DOMAIN s : m[i] \in U, m = [i \in DOMAIN s |-> m[i]]
  PROVE  m \in Seq(U) /\ Len(m) = Len(s)
<1>1. DOMAIN s = 1 .. Len(s) /\ Len(s) \in Nat
  OBVIOUS
<1>2. m \in [1 .. Len(s) -> U]
  BY <1>1
<1>3. QED
  BY <1>1, <1>2

\* The files a multi-column call concerns, each with its names
LEMMA MultiFacts ==
  ASSUME NEW names \in Seq(Tensors), names # <<>>
  PROVE  /\ FilesIn(names) \in Seq(SetOf(Files)) /\ FilesIn(names) # <<>>
         /\ \A f \in SetOf(FilesIn(names)) :
               /\ Among(names, Contents[f]) \in Seq(Tensors)
               /\ Among(names, Contents[f]) # <<>>
               /\ SetOf(Among(names, Contents[f])) = SetOf(names) \cap Contents[f]
<1> DEFINE S == {f \in SetOf(Files) : SetOf(names) \cap Contents[f] # {}}
<1>1. /\ FilesIn(names) \in Seq(SetOf(Files))
      /\ SetOf(FilesIn(names)) = SetOf(Files) \cap S
  BY FileFacts, AmongFacts DEF FilesIn
<1>2. \A f : /\ Among(names, Contents[f]) \in Seq(Tensors)
             /\ SetOf(Among(names, Contents[f])) = SetOf(names) \cap Contents[f]
  BY AmongFacts
<1>3. names[1] \in SetOf(names) /\ names[1] \in Tensors
  BY SetOfSeq
<1>4. Frame[names[1]].file \in SetOf(Files) \cap S
  BY <1>3, FileFacts
<1>5. FilesIn(names) # <<>>
  BY SMTT(30), <1>1, <1>4, SetOfSeq
<1>6. \A f \in SetOf(FilesIn(names)) : SetOf(Among(names, Contents[f])) # {}
  BY <1>1, <1>2
<1>7. \A f \in SetOf(FilesIn(names)) : Among(names, Contents[f]) # <<>>
  BY <1>2, <1>6, SetOfSeq
<1>8. QED
  BY <1>1, <1>2, <1>5, <1>7

\* The runs that an iteration takes
LEMMA RunsOfFacts ==
  ASSUME NEW r \in Ranks, NEW p \in Programs, NEW k \in 1 .. Len(p),
         p[k].kind = "iter"
  PROVE  RunsOf[r][p[k]] \in Seq(GoodRuns(p[k].names))
<1> DEFINE call == p[k]
           runs == Runs(r, call.names)
           m == IF call.upto < Len(runs) THEN call.upto ELSE Len(runs)
<1>1. call \in Calls /\ call.names \in Seq(Tensors) /\ call.upto \in Nat
  BY CallFacts
<1>2. runs \in Seq(GoodRuns(call.names))
  BY <1>1, RunsFacts
<1>3. RunsOf[r][call] = SubSeq(runs, 1, m)
  BY <1>1 DEF RunsOf
<1> HIDE DEF runs, call
<1>4. m \in 0 .. Len(runs)
  BY <1>1, <1>2
<1>5. SubSeq(runs, 1, m) \in Seq(GoodRuns(call.names))
  <2> HIDE DEF m
  <2>1. QED
    BY <1>2, <1>4
<1>6. QED
  BY <1>3, <1>5 DEF call

\* The collectives of a call are well formed, and a call that waits has one.
LEMMA ItemsFacts ==
  ASSUME NEW r \in Ranks, NEW p \in Programs, NEW k \in 1 .. Len(p),
         tag \in [Ranks -> [SetOf(Files) -> Nat]]
  PROVE  /\ Items(r, p[k]) \in Seq(Collectives)
         /\ \A i \in 1 .. Len(Items(r, p[k])) : GoodItem(r, p[k], Items(r, p[k])[i])
         /\ Waits(r, p, k) /\ shuffled[r] \subseteq Kept(r, p, k - 1)
               => p[k].kind = "iter" \/ Items(r, p[k]) # <<>>
<1> DEFINE call == p[k]
           names == p[k].names
           t == names[1]
<1>1. /\ call.kind \in Kinds /\ call.to \in Ranks
      /\ names \in Seq(Tensors) /\ names # <<>> /\ t \in SetOf(names)
      /\ SetOf(names) \subseteq Tensors /\ t \in Tensors /\ Home(t) \in Ranks
      /\ call.kind \in {"broadcast", "scatter", "push"} => SetOf(names) = {t}
  BY CallFacts, FileFacts
<1> HIDE DEF call, names, t
<1>2. ASSUME NEW e \in Collectives, GoodItem(r, call, e)
      PROVE  /\ <<e>> \in Seq(Collectives) /\ <<e>> # <<>>
             /\ \A i \in 1 .. Len(<<e>>) : GoodItem(r, call, <<e>>[i])
  BY <1>2
<1>3. <<>> \in Seq(Collectives) /\ \A i \in 1 .. Len(<<>>) : GoodItem(r, call, <<>>[i])
  OBVIOUS
<1>4. CASE call.kind \in {"broadcast", "scatter"}
  <2> DEFINE e == Collective(call.kind, names, Ranks, 0)
  <2>1. /\ e \in Collectives /\ e.kind = call.kind /\ e.root = Home(t)
        /\ e.names = names /\ e.members = Ranks
    BY <1>1, <1>4, CollectiveType DEF t
  <2>2. Items(r, call) = IF t \in shuffled[r] THEN <<>> ELSE <<e>>
    BY <1>4 DEF Items, names, t, call
  <2> HIDE DEF e
  <2>3. GoodItem(r, call, e)
    <3>1. ~Local(e)
      BY <1>4, <2>1 DEF Local
    <3>2. QED
      BY <1>1, <1>4, <2>1, <3>1 DEF GoodItem, names, call, t
  <2>4. Waits(r, p, k) /\ shuffled[r] \subseteq Kept(r, p, k - 1) => t \notin shuffled[r]
    BY <1>4 DEF Waits, names, t, call
  <2>5. QED
    BY <1>2, <1>3, <2>1, <2>2, <2>3, <2>4 DEF call
<1>5. CASE call.kind = "push"
  <2> DEFINE id == tag[r][Frame[t].file]
             members == {call.to, Home(t)}
             e == Collective("push", names, members, id)
  <2>1. id \in Nat /\ members \in SUBSET Ranks
    BY <1>1, FileFacts
  <2>2. /\ e \in Collectives /\ e.kind = "push" /\ e.root = Home(t)
        /\ e.names = names /\ e.members = {call.to, Home(t)}
    <3> HIDE DEF members, id
    <3>1. /\ e \in Collectives /\ e.kind = "push" /\ e.root = Home(names[1])
          /\ e.names = names /\ e.members = members
      BY <1>1, <2>1, CollectiveType
    <3>2. QED
      BY <3>1 DEF t, members
  <2>3. Items(r, call) = IF TakesPart(r, call) THEN <<e>> ELSE <<>>
    BY <1>5 DEF Items, names, t, call
  <2> HIDE DEF e
  <2>4. ASSUME TakesPart(r, call) PROVE GoodItem(r, call, e)
    <3>1. r \in e.members
      BY <2>2, <2>4 DEF TakesPart, t, names, call
    <3>2. Local(e) => call.to = Home(t)
      <4>1. Cardinality(e.members) = 1 => \E x : e.members = {x}
        <5>1. IsFiniteSet({call.to} \cup {Home(t)})
          BY FS_Singleton, FS_AddElement
        <5>2. {call.to} \cup {Home(t)} = e.members
          BY <2>2
        <5>3. QED
          BY <5>1, <5>2, FS_Singleton
      <4>2. QED
        BY <2>2, <4>1 DEF Local
    <3>3. Local(e) => OwnPush(r, call)
      BY <1>5, <2>2, <3>1, <3>2 DEF OwnPush, t, names, call
    <3>4. QED
      BY <1>1, <1>5, <2>2, <3>1, <3>3 DEF GoodItem, names, call
  <2>5. Waits(r, p, k) => TakesPart(r, call)
    BY <1>5 DEF Waits, call
  <2>6. QED
    BY <1>2, <1>3, <2>2, <2>3, <2>4, <2>5 DEF call
<1>6. CASE call.kind = "multi"
  <2> DEFINE fs == FilesIn(names)
             e(i) == Collective("scatter", Among(names, Contents[fs[i]]), Ranks, 0)
             m == [i \in DOMAIN fs |-> e(i)]
  <2>1. Items(r, call) = m
    BY <1>6 DEF Items, names, call
  <2>2. /\ fs \in Seq(SetOf(Files)) /\ fs # <<>>
        /\ \A f \in SetOf(fs) :
              /\ Among(names, Contents[f]) \in Seq(Tensors)
              /\ Among(names, Contents[f]) # <<>>
              /\ SetOf(Among(names, Contents[f])) = SetOf(names) \cap Contents[f]
    BY <1>1, MultiFacts
  <2> HIDE DEF fs
  <2>3. /\ DOMAIN fs = 1 .. Len(fs) /\ Len(fs) >= 1
        /\ \A i \in DOMAIN fs : fs[i] \in SetOf(fs) /\ fs[i] \in SetOf(Files)
    BY <2>2, SetOfSeq
  <2>4. ASSUME NEW i \in DOMAIN fs
        PROVE  e(i) \in Collectives /\ GoodItem(r, call, e(i))
    <3> DEFINE ns == Among(names, Contents[fs[i]])
    <3>1. /\ ns \in Seq(Tensors) /\ ns # <<>>
          /\ SetOf(ns) = SetOf(names) \cap Contents[fs[i]]
      BY <2>2, <2>3
    <3> HIDE DEF ns
    <3>2. /\ e(i) \in Collectives /\ e(i).kind = "scatter"
          /\ e(i).root = Home(ns[1])
          /\ e(i).names = ns /\ e(i).members = Ranks
      BY <3>1, CollectiveType DEF ns
    <3> HIDE DEF e
    <3>3. ns[1] \in SetOf(ns)
      BY <3>1, SetOfSeq
    <3>4. \A u \in SetOf(ns) : Home(u) = Owner[fs[i]]
      BY <2>3, <3>1, FileFacts
    <3>5. ns[1] \in Tensors /\ Home(ns[1]) \in Ranks
      BY <1>1, <3>1, <3>3, FileFacts
    <3>6. ~Local(e(i))
      BY <3>2 DEF Local
    <3>7. QED
      BY <3>1, <3>2, <3>3, <3>4, <3>5, <3>6 DEF GoodItem, names, call
  <2> HIDE DEF e
  <2>5. m \in Seq(Collectives) /\ Len(m) = Len(fs)
    <3>1. fs \in Seq(SetOf(Files)) /\ DOMAIN m = DOMAIN fs
      BY <2>2
    <3>2. \A i \in DOMAIN fs : m[i] \in Collectives
      BY <2>4
    <3>3. m = [i \in DOMAIN fs |-> m[i]]
      OBVIOUS
    <3> HIDE DEF m
    <3>4. QED
      BY <3>1, <3>2, <3>3, MapSeq
  <2>6. \A i \in 1 .. Len(m) : GoodItem(r, call, m[i])
    BY <2>3, <2>4, <2>5
  <2>7. m # <<>>
    BY <2>3, <2>5
  <2>8. QED
    BY <2>1, <2>5, <2>6, <2>7 DEF call
<1>7. CASE call.kind = "iter"
  <2> DEFINE S == {run \in SetOf(RunsOf[r][call]) : Bytes(run[1]) = 0 => run[1] \notin shuffled[r]}
             open == Among(RunsOf[r][call], S)
             kind(i) == IF Bytes(open[i][1]) = 0 THEN "broadcast" ELSE "run"
             e(i) == Collective(kind(i), open[i], Ranks, 0)
             m == [i \in DOMAIN open |-> e(i)]
  <2>1. Items(r, call) = m
    BY <1>7 DEF Items
  <2>2. RunsOf[r][call] \in Seq(GoodRuns(names))
    BY <1>7, RunsOfFacts DEF names, call
  <2> HIDE DEF S
  <2>3. open \in Seq(GoodRuns(names))
    BY <2>2, AmongFacts
  <2> HIDE DEF open
  <2>4. DOMAIN open = 1 .. Len(open) /\ \A i \in DOMAIN open : open[i] \in GoodRuns(names)
    BY <2>3
  <2>5. ASSUME NEW i \in DOMAIN open
        PROVE  e(i) \in Collectives /\ GoodItem(r, call, e(i))
    <3> DEFINE ns == open[i]
    <3>1. /\ ns \in Seq(Tensors) /\ ns # <<>> /\ SetOf(ns) \subseteq SetOf(names)
          /\ \A u \in SetOf(ns) : Frame[u].file = Frame[ns[1]].file
          /\ Bytes(ns[1]) = 0 => SetOf(ns) = {ns[1]}
      BY <2>4 DEF GoodRuns
    <3>2. /\ kind(i) \in {"broadcast", "run"}
          /\ kind(i) = "broadcast" => Bytes(ns[1]) = 0
      OBVIOUS
    <3> HIDE DEF ns, kind
    <3>3. /\ e(i) \in Collectives /\ e(i).kind = kind(i)
          /\ e(i).root = Home(ns[1])
          /\ e(i).names = ns /\ e(i).members = Ranks
      BY <3>1, <3>2, CollectiveType DEF ns
    <3> HIDE DEF e
    <3>4. \A u \in SetOf(ns) : Home(u) = Home(ns[1])
      BY <3>1 DEF Home
    <3>5. ns[1] \in Tensors /\ Home(ns[1]) \in Ranks
      BY <3>1, SetOfSeq, FileFacts
    <3>6. ~Local(e(i))
      BY <3>2, <3>3 DEF Local
    <3>7. e(i).kind = "broadcast" => \A u \in SetOf(ns) : Bytes(u) = 0
      BY <3>1, <3>2, <3>3
    <3>8. QED
      BY <1>7, <3>1, <3>2, <3>3, <3>4, <3>5, <3>6, <3>7 DEF GoodItem, names, call
  <2> HIDE DEF e
  <2>6. m \in Seq(Collectives) /\ Len(m) = Len(open)
    BY <2>3, <2>5, MapSeq
  <2>7. \A i \in 1 .. Len(m) : GoodItem(r, call, m[i])
    BY <2>4, <2>5, <2>6
  <2>8. QED
    BY <1>7, <2>1, <2>6, <2>7 DEF call
<1>8. QED
  BY <1>1, <1>4, <1>5, <1>6, <1>7 DEF Kinds

-----------------------------------------------------------------------------
(* Steps.                                                                  *)

\* A part of the invariant holds on while the variables it is about do.
LEMMA StillHolds ==
  /\ HostTypes /\ UNCHANGED <<options, host>> => HostTypes'
  /\ DeviceTypes /\ UNCHANGED device => DeviceTypes'
  /\ TakenInv /\ UNCHANGED <<program, step, taken, shuffled>> => TakenInv'
  /\ FreedInv /\ UNCHANGED <<buffer, taken, phase>> => FreedInv'
  /\ ItemsInv /\ UNCHANGED <<program, step, phase, items>> => ItemsInv'
  /\ StreamInv /\ UNCHANGED <<program, step, stream, staged, landed, buffer>> => StreamInv'
  /\ QuietInv /\ UNCHANGED <<stream, phase, program, step, items>> => QuietInv'
  /\ GoodInv /\ UNCHANGED <<program, step, stream, staged, landed, buffer, out>> => GoodInv'
<1>1. HostTypes /\ UNCHANGED <<options, host>> => HostTypes'
  BY DEF HostTypes, options, host
<1>2. DeviceTypes /\ UNCHANGED device => DeviceTypes'
  BY DEF DeviceTypes, device
<1>3. TakenInv /\ UNCHANGED <<program, step, taken, shuffled>> => TakenInv'
  BY DEF TakenInv
<1>4. FreedInv /\ UNCHANGED <<buffer, taken, phase>> => FreedInv'
  BY DEF FreedInv
<1>5. ItemsInv /\ UNCHANGED <<program, step, phase, items>> => ItemsInv'
  BY DEF ItemsInv, Call
<1>6. StreamInv /\ UNCHANGED <<program, step, stream, staged, landed, buffer>> => StreamInv'
  <2> SUFFICES ASSUME StreamInv, UNCHANGED <<program, step, stream, staged, landed, buffer>>
               PROVE  StreamInv'
    OBVIOUS
  <2>1. \A x : Excused(x)' = Excused(x)
    BY DEF Excused, AskedLate
  <2>2. ASSUME NEW r \in Ranks, NEW i \in 1 .. Len(stream[r])
        PROVE  GoodAt(r, stream[r], i)'
    <3>1. GoodAt(r, stream[r], i)
      BY DEF StreamInv
    <3>2. QED
      BY <2>1, <3>1 DEF GoodAt, GoodClone
  <2>3. QED
    BY <2>2 DEF StreamInv
<1>7. QuietInv /\ UNCHANGED <<stream, phase, program, step, items>> => QuietInv'
  BY DEF QuietInv, Call
<1>8. GoodInv /\ UNCHANGED <<program, step, stream, staged, landed, buffer, out>> => GoodInv'
  BY <1>6 DEF GoodInv, CorrectTensors, AskedLate
<1>9. QED
  BY <1>1, <1>2, <1>3, <1>4, <1>5, <1>6, <1>7, <1>8

\* An owner that has come to a late get_tensor has come to it for good.
LEMMA StillLate ==
  ASSUME NEW t \in Tensors, HostTypes, UNCHANGED program,
         \A q \in Ranks : step'[q] \in {step[q], step[q] + 1}
  PROVE  AskedLate(t) => AskedLate(t)'
<1> SUFFICES ASSUME AskedLate(t) PROVE AskedLate(t)'
  OBVIOUS
<1>1. PICK k \in DOMAIN program :
         k <= step[Home(t)] /\ AsksLate(program, k) /\ program[k].names[1] = t
  BY DEF AskedLate
<1>2. program \in Programs /\ DOMAIN program = 1 .. Len(program)
  BY ProgramAssumption DEF HostTypes
<1>3. Home(t) \in Ranks /\ step[Home(t)] \in Nat /\ k \in Nat
  BY <1>1, <1>2, FileFacts DEF HostTypes
<1>4. k <= step'[Home(t)]
  BY <1>1, <1>3
<1>5. QED
  BY <1>1, <1>4 DEF AskedLate

\* A call begins with well-formed collectives.
LEMMA BeginRInv ==
  ASSUME NEW r \in Ranks, RInv, Begin(r)
  PROVE  RInv'
<1>1. /\ phase[r] = "idle" /\ step[r] <= Len(program)
      /\ items' = [items EXCEPT ![r] = Items(r, Call(r))]
      /\ phase' = [phase EXCEPT ![r] = "issue"]
      /\ UNCHANGED <<program, cached, drains, step, shuffled, taken, device>>
  BY DEF Begin, options
<1>2. HostTypes /\ DeviceTypes /\ TakenInv /\ FreedInv /\ ItemsInv /\ QuietInv
      /\ GoodInv
  BY DEF RInv
<1>3. /\ program \in Programs /\ step[r] \in 1 .. Len(program)
      /\ tag \in [Ranks -> [SetOf(Files) -> Nat]]
      /\ items \in [Ranks -> Seq(Collectives)]
      /\ phase \in [Ranks -> {"idle", "issue", "sync", "raised", "closed"}]
  BY <1>1, <1>2 DEF HostTypes
<1>4. /\ Items(r, Call(r)) \in Seq(Collectives)
      /\ \A i \in 1 .. Len(Items(r, Call(r))) : GoodItem(r, Call(r), Items(r, Call(r))[i])
      /\ Waits(r, program, step[r]) /\ shuffled[r] \subseteq Kept(r, program, step[r] - 1)
            => Call(r).kind = "iter" \/ Items(r, Call(r)) # <<>>
  BY <1>3, ItemsFacts DEF Call
<1>5. /\ items'[r] = Items(r, Call(r)) /\ phase'[r] = "issue"
      /\ \A q \in Ranks : q # r => items'[q] = items[q] /\ phase'[q] = phase[q]
      /\ \A q \in Ranks : Call(q)' = Call(q) /\ step'[q] = step[q]
  BY <1>1, <1>3 DEF Call
<1>6. HostTypes'
  <2>1. items' \in [Ranks -> Seq(Collectives)]
        /\ phase' \in [Ranks -> {"idle", "issue", "sync", "raised", "closed"}]
    BY <1>1, <1>3, <1>4
  <2>2. tag' \in [Ranks -> [SetOf(Files) -> Nat]]
    <3>1. CASE tag' = tag
      BY <1>3, <3>1
    <3>2. CASE tag' # tag
      <4> DEFINE f == Frame[Call(r).names[1]].file
      <4>1. tag' = [tag EXCEPT ![r][f] = @ + 1]
        BY <3>2 DEF Begin
      <4>2. tag[r] \in [SetOf(Files) -> Nat] /\ f \in SetOf(Files)
        BY <1>3, CallFacts, FileFacts DEF Call
      <4> HIDE DEF f
      <4>3. tag' = [tag EXCEPT ![r] = [tag[r] EXCEPT ![f] = tag[r][f] + 1]]
        BY <4>1
      <4>4. [tag[r] EXCEPT ![f] = tag[r][f] + 1] \in [SetOf(Files) -> Nat]
        BY <4>2
      <4>5. QED
        BY <1>3, <4>3, <4>4
    <3>3. QED
      BY <3>1, <3>2
  <2>3. QED
    BY <1>1, <1>2, <1>5, <2>1, <2>2 DEF HostTypes
<1>7. DeviceTypes' /\ TakenInv' /\ GoodInv'
  BY <1>1, <1>2, StillHolds DEF device
<1>8. FreedInv'
  <2>1. \A q \in Ranks : phase'[q] = "closed" <=> phase[q] = "closed"
    BY <1>1, <1>5
  <2>2. QED
    BY <1>1, <1>2, <2>1, FileFacts DEF FreedInv, device
<1>9. ItemsInv'
  BY <1>2, <1>4, <1>5 DEF ItemsInv
<1>10. QuietInv'
  <2>1. stream' = stream /\ program' = program
    BY <1>1 DEF device
  <2>2. stream[r] # <<>> => Unwaited(r, program, step[r] - 1)
    BY <1>1, <1>2 DEF QuietInv
  <2>3. shuffled[r] \subseteq Kept(r, program, step[r] - 1)
    BY <1>2 DEF TakenInv
  <2>4. QED
    BY <1>2, <1>4, <1>5, <2>1, <2>2, <2>3 DEF QuietInv
<1>11. QED
  BY <1>6, <1>7, <1>8, <1>9, <1>10 DEF RInv

\* What a collective copies is not freed: the call would have raised, or is a
\* get_tensor that comes too late.
LEMMA AskedIsLive ==
  ASSUME NEW r \in Ranks, HostTypes, TakenInv, FreedInv, DeviceTypes,
         phase[r] = "issue",
         NEW item, GoodItem(r, Call(r), item), r = item.root, ~Gone(r, item),
         NEW t \in SetOf(item.names)
  PROVE  Excused(item) \/ Bytes(t) = 0 \/ buffer[Frame[t].file] = "live"
<1> DEFINE f == Frame[t].file
           k == step[r]
<1>1. program \in Programs /\ k \in 1 .. Len(program)
  BY DEF HostTypes
<1>2. DOMAIN program = 1 .. Len(program)
  BY <1>1, ProgramAssumption
<1>3. t \in SetOf(Call(r).names) /\ t \in Tensors /\ Home(t) = r
  BY <1>1, CallFacts DEF Call, GoodItem
<1>4. f \in SetOf(Files) /\ t \in Contents[f] /\ Owner[f] = r
  BY <1>3, FileFacts DEF Home
<1>5. CASE item.kind # "broadcast"
  <2>1. ~(buffer[f] = "freed")
    BY <1>5 DEF Gone
  <2>2. QED
    BY <1>4, <2>1 DEF DeviceTypes
<1>6. CASE /\ item.kind = "broadcast" /\ Call(r).kind = "broadcast"
           /\ SetOf(item.names) = {Call(r).names[1]}
  <2>1. taken[r] = Took(r, program, k - 1) /\ phase[r] # "closed"
    BY DEF TakenInv
  <2>2. program[k].kind = "broadcast" /\ t = program[k].names[1] /\ k \in DOMAIN program
    BY <1>1, <1>2, <1>6 DEF Call
  <2>3. k \in Int /\ k <= step[Home(t)] /\ SetOf(item.names) = {t}
    BY <1>1, <1>3, <1>6
  <2> HIDE DEF k
  <2>4. CASE Contents[f] \subseteq Took(Owner[f], program, k - 1)
    <3>1. AsksLate(program, k)
      BY <2>2, <2>4 DEF AsksLate
    <3>2. AskedLate(t)
      BY <2>2, <2>3, <3>1 DEF AskedLate
    <3>3. QED
      BY <1>6, <2>3, <3>2 DEF Excused
  <2>5. CASE ~(Contents[f] \subseteq Took(Owner[f], program, k - 1))
    <3>1. ~(buffer[f] = "freed")
      BY <1>4, <2>1, <2>5 DEF FreedInv
    <3>2. QED
      BY <1>4, <3>1 DEF DeviceTypes
  <2>6. QED
    BY <2>4, <2>5
<1>7. CASE \A u \in SetOf(item.names) : Bytes(u) = 0
  BY <1>7
<1>8. QED
  BY <1>5, <1>6, <1>7 DEF GoodItem

\* A stream with a good operation at its end is good.
LEMMA GrownStream ==
  ASSUME NEW r \in Ranks, NEW s \in Seq(Operations), NEW op \in Operations,
         \A i \in 1 .. Len(s) : GoodAt(r, s, i),
         {r, op.item.root} \subseteq op.item.members,
         op.op = "clone" => GoodClone(r, op.item),
         op.op = "join" /\ op.item.root = r =>
            s # <<>> /\ s[Len(s)].op = "clone" /\ s[Len(s)].item = op.item
  PROVE  /\ Append(s, op) \in Seq(Operations)
         /\ \A i \in 1 .. Len(Append(s, op)) : GoodAt(r, Append(s, op), i)
<1> DEFINE n == Len(s)
           u == Append(s, op)
<1>1. /\ u \in Seq(Operations) /\ n \in Nat /\ Len(u) = n + 1 /\ u[n + 1] = op
      /\ \A i \in 1 .. n : u[i] = s[i]
      /\ s # <<>> => n \in 1 .. n
  OBVIOUS
<1>2. \A i \in 1 .. n + 1 : i = n + 1 \/ (i \in 1 .. n /\ (i = 1 \/ i - 1 \in 1 .. n))
  BY <1>1
<1> HIDE DEF u, n
<1>3. ASSUME NEW i \in 1 .. n PROVE GoodAt(r, u, i)
  <2>1. GoodAt(r, s, i) /\ u[i] = s[i] /\ (i # 1 => u[i - 1] = s[i - 1])
    BY <1>1, <1>2, <1>3 DEF n
  <2>2. QED
    BY <2>1 DEF GoodAt
<1>4. GoodAt(r, u, n + 1)
  <2>1. op.op = "join" /\ op.item.root = r =>
           n + 1 # 1 /\ u[n + 1 - 1].op = "clone" /\ u[n + 1 - 1].item = op.item
    BY <1>1 DEF n
  <2>2. QED
    BY <1>1, <2>1 DEF GoodAt
<1>5. QED
  BY <1>1, <1>2, <1>3, <1>4 DEF u

\* The owner waited for the bytes, and has not freed them.
LEMMA IssueRInv ==
  ASSUME NEW r \in Ranks, RInv, Issue(r)
  PROVE  RInv'
<1> DEFINE item == Head(items[r])
           clone == [op |-> "clone", item |-> item]
           join == [op |-> "join", item |-> item]
           s == stream[r]
           t == IF r = item.root THEN Append(s, clone) ELSE s
           u == IF Local(item) THEN t ELSE Append(t, join)
<1>1. HostTypes /\ DeviceTypes /\ TakenInv /\ FreedInv /\ ItemsInv /\ QuietInv
      /\ GoodInv
  BY DEF RInv
<1>2. /\ program \in Programs /\ items \in [Ranks -> Seq(Collectives)]
      /\ phase \in [Ranks -> {"idle", "issue", "sync", "raised", "closed"}]
      /\ stream \in [Ranks -> Seq(Operations)]
  BY <1>1 DEF HostTypes, DeviceTypes
<1>3. /\ phase[r] = "issue" /\ items[r] # <<>> /\ ~Gone(r, item)
      /\ r = item.root => SetOf(item.names) \subseteq landed
      /\ items' = [items EXCEPT ![r] = Tail(@)]
      /\ UNCHANGED <<program, cached, drains, step, tag, shuffled, taken, staged,
                     landed, buffer, out>>
  BY DEF Issue, Awaited, options
<1>4. /\ item \in Collectives /\ Tail(items[r]) \in Seq(Collectives)
      /\ Len(Tail(items[r])) = Len(items[r]) - 1
      /\ \A i \in 1 .. Len(Tail(items[r])) :
            Tail(items[r])[i] = items[r][i + 1] /\ i + 1 \in 1 .. Len(items[r])
      /\ 1 \in 1 .. Len(items[r]) /\ item = items[r][1]
  <2>1. items[r] \in Seq(Collectives)
    BY <1>2
  <2>2. QED
    BY <1>3, <2>1
<1>5. GoodItem(r, Call(r), item)
  BY <1>1, <1>3, <1>4 DEF ItemsInv
<1>6. s \in Seq(Operations) /\ clone \in Operations /\ join \in Operations
  BY <1>2, <1>4 DEF Operations
<1>7. stream' = [stream EXCEPT ![r] = u]
  <2>1. stream' = [stream EXCEPT ![r] =
                     @ \o (IF r = item.root THEN <<clone>> ELSE <<>>)
                       \o (IF Local(item) THEN <<>> ELSE <<join>>)]
    BY DEF Issue
  <2>2. t \in Seq(Operations) /\ t = s \o (IF r = item.root THEN <<clone>> ELSE <<>>)
    <3> HIDE DEF item, clone, join, s
    <3>1. QED
      BY <1>6
  <2>3. u = t \o (IF Local(item) THEN <<>> ELSE <<join>>)
    <3>1. t \in Seq(Operations)
      BY <2>2
    <3> HIDE DEF item, clone, join, s, t
    <3>2. Append(t, join) = t \o <<join>> /\ t = t \o <<>>
      BY <1>6, <3>1
    <3>3. QED
      BY <3>2
  <2> HIDE DEF item, clone, join, t, u
  <2>4. QED
    BY <2>1, <2>2, <2>3
<1>8. phase' = [phase EXCEPT ![r] = IF Blocks(item) THEN "sync" ELSE "issue"]
  BY DEF Issue
<1> HIDE DEF clone, join
<1>9. /\ clone.op = "clone" /\ clone.item = item
      /\ join.op = "join" /\ join.item = item
  BY DEF clone, join
<1> HIDE DEF item
<1>10. {r, item.root} \subseteq item.members
  BY <1>5 DEF GoodItem
<1>11. ASSUME r = item.root PROVE GoodClone(r, item)
  <2>1. ASSUME NEW x \in SetOf(item.names)
        PROVE  /\ Home(x) = r
               /\ Excused(item) \/ Bytes(x) = 0 \/ buffer[Frame[x].file] = "live"
    <3>1. Home(x) = r
      BY <1>5, <1>11 DEF GoodItem
    <3>2. QED
      BY <1>1, <1>3, <1>5, <1>11, <3>1, AskedIsLive
  <2>2. QED
    BY <1>3, <1>11, <2>1 DEF GoodClone
<1> HIDE DEF s
<1>12. /\ t \in Seq(Operations)
       /\ r = item.root =>
             t # <<>> /\ t[Len(t)].op = "clone" /\ t[Len(t)].item = item
  BY <1>6, <1>9
<1>13. u \in Seq(Operations)
  <2> HIDE DEF t
  <2>1. QED
    BY <1>6, <1>12
<1>14. \A i \in 1 .. Len(u) : GoodAt(r, u, i)
  <2>1. \A i \in 1 .. Len(s) : GoodAt(r, s, i)
    BY <1>1 DEF GoodInv, StreamInv, s
  <2>2. \A i \in 1 .. Len(t) : GoodAt(r, t, i)
    <3>1. CASE r = item.root
      <4>1. \A i \in 1 .. Len(Append(s, clone)) : GoodAt(r, Append(s, clone), i)
        BY <1>6, <1>9, <1>10, <1>11, <2>1, <3>1, GrownStream
      <4>2. QED
        BY <3>1, <4>1
    <3>2. CASE r # item.root
      BY <2>1, <3>2
    <3>3. QED
      BY <3>1, <3>2
  <2> HIDE DEF t
  <2>3. CASE Local(item)
    BY <2>2, <2>3
  <2>4. CASE ~Local(item)
    <3>1. \A i \in 1 .. Len(Append(t, join)) : GoodAt(r, Append(t, join), i)
      BY <1>6, <1>9, <1>10, <1>12, <2>2, GrownStream
    <3>2. QED
      BY <2>4, <3>1
  <2>5. QED
    BY <2>3, <2>4
<1> HIDE DEF t, u
<1>15. /\ stream'[r] = u /\ items'[r] = Tail(items[r])
       /\ phase'[r] = IF Blocks(item) THEN "sync" ELSE "issue"
       /\ \A q \in Ranks : q # r =>
             stream'[q] = stream[q] /\ items'[q] = items[q] /\ phase'[q] = phase[q]
       /\ \A q \in Ranks : Call(q)' = Call(q) /\ step'[q] = step[q]
  BY <1>2, <1>3, <1>7, <1>8 DEF Call
<1>16. HostTypes'
  <2>1. items' \in [Ranks -> Seq(Collectives)]
        /\ phase' \in [Ranks -> {"idle", "issue", "sync", "raised", "closed"}]
    BY <1>2, <1>3, <1>4, <1>8
  <2>2. \A q \in Ranks :
           /\ phase'[q] \in {"issue", "sync"} => phase[q] \in {"issue", "sync"}
           /\ phase'[q] = "closed" => phase[q] = "closed"
    BY <1>3, <1>15
  <2>3. QED
    BY <1>1, <1>3, <2>1, <2>2 DEF HostTypes
<1>17. DeviceTypes'
  <2>1. stream' \in [Ranks -> Seq(Operations)]
    BY <1>2, <1>7, <1>13
  <2>2. QED
    BY <1>1, <1>3, <2>1 DEF DeviceTypes
<1>18. TakenInv'
  BY <1>1, <1>3, StillHolds
<1>19. FreedInv'
  <2>1. \A q \in Ranks : phase'[q] = "closed" <=> phase[q] = "closed"
    BY <1>3, <1>15
  <2>2. QED
    BY <1>1, <1>3, <2>1, FileFacts DEF FreedInv
<1>20. ItemsInv'
  <2>1. \A i \in 1 .. Len(items'[r]) : GoodItem(r, Call(r), items'[r][i])
    BY <1>1, <1>3, <1>4, <1>15 DEF ItemsInv
  <2>2. QED
    BY <1>1, <1>15, <2>1 DEF ItemsInv
<1>21. GoodInv'
  <2>1. StreamInv /\ CorrectTensors
    BY <1>1 DEF GoodInv
  <2>2. ASSUME NEW q \in Ranks, NEW i \in 1 .. Len(stream'[q])
        PROVE  GoodAt(q, stream'[q], i)
    BY <1>14, <1>15, <2>1 DEF StreamInv
  <2>3. /\ \A x : AskedLate(x)' = AskedLate(x)
        /\ \A x : Excused(x)' = Excused(x)
    BY <1>3 DEF AskedLate, Excused
  <2>4. \A q, v, i : GoodAt(q, v, i) = GoodAt(q, v, i)'
    BY <1>3, <2>3 DEF GoodAt, GoodClone
  <2>5. StreamInv'
    BY SMTT(30), <2>2, <2>4 DEF StreamInv, GoodAt, GoodClone
  <2>6. QED
    BY <1>3, <2>1, <2>3, <2>5 DEF GoodInv, CorrectTensors
<1>22. QuietInv'
  <2>1. phase'[r] = "issue" => Call(r).kind = "iter" \/ OwnPush(r, Call(r))
    BY <1>5, <1>15 DEF Blocks, GoodItem
  <2>2. phase'[r] # "idle"
    BY <1>15
  <2>3. ASSUME NEW q \in Ranks, stream'[q] # <<>>
        PROVE  /\ phase'[q] = "idle" => Unwaited(q, program, step[q] - 1)
               /\ phase'[q] = "issue" =>
                     \/ Call(q).kind = "iter" \/ OwnPush(q, Call(q))
                     \/ /\ Unwaited(q, program, step[q] - 1)
                        /\ Waits(q, program, step[q]) => items'[q] # <<>>
    BY <1>1, <1>15, <2>1, <2>2, <2>3 DEF QuietInv
  <2>4. QED
    BY <1>3, <1>15, <2>3 DEF QuietInv
<1>23. QED
  BY <1>16, <1>17, <1>18, <1>19, <1>20, <1>21, <1>22 DEF RInv

\* A call that raises leaves its rank with nothing to issue.
LEMMA RaiseRInv ==
  ASSUME NEW r \in Ranks, RInv, Raise(r)
  PROVE  RInv'
<1>1. /\ phase[r] = "issue"
      /\ phase' = [phase EXCEPT ![r] = "raised"]
      /\ items' = [items EXCEPT ![r] = <<>>]
      /\ UNCHANGED <<program, cached, drains, step, tag, shuffled, taken, device>>
  BY DEF Raise, options
<1>2. HostTypes /\ DeviceTypes /\ TakenInv /\ FreedInv /\ ItemsInv /\ QuietInv
      /\ GoodInv
  BY DEF RInv
<1>3. /\ phase \in [Ranks -> {"idle", "issue", "sync", "raised", "closed"}]
      /\ items \in [Ranks -> Seq(Collectives)]
  BY <1>2 DEF HostTypes
<1>4. /\ phase'[r] = "raised" /\ items'[r] = <<>>
      /\ \A q \in Ranks : q # r => phase'[q] = phase[q] /\ items'[q] = items[q]
      /\ \A q \in Ranks : Call(q)' = Call(q)
  BY <1>1, <1>3 DEF Call
<1>5. HostTypes'
  <2>1. /\ phase' \in [Ranks -> {"idle", "issue", "sync", "raised", "closed"}]
        /\ items' \in [Ranks -> Seq(Collectives)]
    BY <1>1, <1>3
  <2>2. \A q \in Ranks :
           /\ phase'[q] \in {"issue", "sync"} => phase[q] \in {"issue", "sync"}
           /\ phase'[q] = "closed" => phase[q] = "closed"
    BY <1>4
  <2>3. QED
    BY <1>1, <1>2, <2>1, <2>2 DEF HostTypes
<1>6. DeviceTypes' /\ TakenInv' /\ GoodInv'
  BY <1>1, <1>2, StillHolds DEF device
<1>7. FreedInv'
  <2>1. \A q \in Ranks : phase'[q] = "closed" <=> phase[q] = "closed"
    BY <1>1, <1>4
  <2>2. QED
    BY <1>1, <1>2, <2>1, FileFacts DEF FreedInv, device
<1>8. ItemsInv'
  BY <1>1, <1>2, <1>4 DEF ItemsInv
<1>9. QuietInv'
  <2>1. stream' = stream
    BY <1>1 DEF device
  <2>2. QED
    BY <1>1, <1>2, <1>4, <2>1 DEF QuietInv
<1>10. QED
  BY <1>5, <1>6, <1>7, <1>8, <1>9 DEF RInv

\* A rank that has waited has an empty stream.
LEMMA SynchronizeRInv ==
  ASSUME NEW r \in Ranks, RInv, Synchronize(r)
  PROVE  RInv'
<1>1. /\ phase[r] = "sync" /\ stream[r] = <<>>
      /\ phase' = [phase EXCEPT ![r] = "issue"]
      /\ UNCHANGED <<program, cached, drains, step, items, tag, shuffled, taken, device>>
  BY DEF Synchronize, options
<1>2. HostTypes /\ DeviceTypes /\ TakenInv /\ FreedInv /\ ItemsInv /\ QuietInv
      /\ GoodInv
  BY DEF RInv
<1>3. phase \in [Ranks -> {"idle", "issue", "sync", "raised", "closed"}]
  BY <1>2 DEF HostTypes
<1>4. /\ phase'[r] = "issue" /\ \A q \in Ranks : q # r => phase'[q] = phase[q]
      /\ \A q \in Ranks : Call(q)' = Call(q)
  BY <1>1, <1>3 DEF Call
<1>5. HostTypes'
  <2>1. phase' \in [Ranks -> {"idle", "issue", "sync", "raised", "closed"}]
    BY <1>1, <1>3
  <2>2. \A q \in Ranks :
           /\ phase'[q] \in {"issue", "sync"} => phase[q] \in {"issue", "sync"}
           /\ phase'[q] = "closed" => phase[q] = "closed"
    BY <1>1, <1>4
  <2>3. QED
    BY <1>1, <1>2, <2>1, <2>2 DEF HostTypes
<1>6. DeviceTypes' /\ TakenInv' /\ GoodInv'
  BY <1>1, <1>2, StillHolds DEF device
<1>7. FreedInv'
  <2>1. \A q \in Ranks : phase'[q] = "closed" <=> phase[q] = "closed"
    BY <1>1, <1>4
  <2>2. QED
    BY <1>1, <1>2, <2>1, FileFacts DEF FreedInv, device
<1>8. ItemsInv'
  BY <1>1, <1>2, <1>4 DEF ItemsInv
<1>9. QuietInv'
  <2>1. stream' = stream
    BY <1>1 DEF device
  <2>2. QED
    BY <1>1, <1>2, <1>4, <2>1 DEF QuietInv
<1>10. QED
  BY <1>5, <1>6, <1>7, <1>8, <1>9 DEF RInv

LEMMA TookNext ==
  ASSUME NEW r, NEW p, NEW k \in Nat \ {0}
  PROVE  /\ Took(r, p, k) = Took(r, p, k - 1) \cup Counts(r, p[k])
         /\ Kept(r, p, k) = Kept(r, p, k - 1) \cup Fetched(r, p[k])
<1>1. \A j : j \in 1 .. k <=> j \in 1 .. k - 1 \/ j = k
  OBVIOUS
<1>2. QED
  BY <1>1 DEF Took, Kept

\* What a call counts and caches is among the tensors.
LEMMA CountsFacts ==
  ASSUME NEW r \in Ranks, NEW p \in Programs, NEW k \in 1 .. Len(p)
  PROVE  Counts(r, p[k]) \subseteq Tensors /\ Fetched(r, p[k]) \subseteq Tensors
<1>1. /\ p[k].kind \in Kinds /\ SetOf(p[k].names) \subseteq Tensors
      /\ p[k].names[1] \in Tensors
  BY CallFacts
<1>2. Counts(r, p[k]) \subseteq Tensors
  BY <1>1 DEF Counts, Kinds
<1>3. Fetched(r, p[k]) \subseteq Tensors
  BY <1>1 DEF Fetched, Kinds
<1>4. QED
  BY <1>2, <1>3

\* Work that is in the stream of a rank when its call returns was left by a
\* push to itself.
LEMMA LeftByOwnPush ==
  ASSUME NEW r \in Ranks, HostTypes, QuietInv,
         phase[r] = "issue", items[r] = <<>>, stream[r] # <<>>,
         DrainsAtEnd(Call(r)) => stream[r] = <<>>
  PROVE  Unwaited(r, program, step[r])
<1> DEFINE k == step[r]
<1>1. k \in Nat \ {0}
  BY DEF HostTypes
<1>2. Call(r).kind # "iter"
  BY DEF DrainsAtEnd
<1>3. CASE OwnPush(r, Call(r))
  <2>1. k \in 1 .. k /\ \A i \in k + 1 .. k : FALSE
    BY <1>1
  <2>2. OwnPush(r, program[k])
    BY <1>3 DEF Call
  <2> HIDE DEF k
  <2>3. Unwaited(r, program, k)
    BY <2>1, <2>2 DEF Unwaited
  <2>4. QED
    BY <2>3 DEF k
<1>4. CASE ~OwnPush(r, Call(r))
  <2>1. Unwaited(r, program, k - 1) /\ ~Waits(r, program, k)
    BY <1>2, <1>4 DEF QuietInv
  <2> HIDE DEF k
  <2>2. PICK j \in 1 .. k - 1 :
           OwnPush(r, program[j]) /\ \A i \in j + 1 .. k - 1 : ~Waits(r, program, i)
    BY <2>1 DEF Unwaited
  <2>3. j \in 1 .. k /\ \A i \in j + 1 .. k : i \in j + 1 .. k - 1 \/ i = k
    BY <1>1
  <2>4. \A i \in j + 1 .. k : ~Waits(r, program, i)
    BY <2>1, <2>2, <2>3
  <2>5. Unwaited(r, program, k)
    BY <2>2, <2>3, <2>4 DEF Unwaited
  <2>6. QED
    BY <2>5 DEF k
<1>5. QED
  BY <1>3, <1>4

\* No clone is queued for a buffer that a rank frees.
LEMMA FreesQuietly ==
  ASSUME NEW r \in Ranks, RInv, Return(r),
         NEW f \in SetOf(Files), Owner[f] = r, buffer[f] = "live",
         Contents[f] \subseteq taken[r] \cup Counts(r, Call(r))
  PROVE  stream[r] = <<>>
<1> DEFINE k == step[r]
<1>1. HostTypes /\ TakenInv /\ FreedInv /\ QuietInv
  BY DEF RInv
<1>2. phase[r] = "issue" /\ items[r] = <<>> /\ DrainsAtEnd(Call(r)) => stream[r] = <<>>
  BY DEF Return
<1>3. /\ program \in Programs /\ k \in 1 .. Len(program) /\ k \in Nat \ {0}
      /\ taken[r] = Took(r, program, k - 1)
  BY <1>1, <1>2 DEF Return, HostTypes, TakenInv
<1>4. ~(Contents[f] \subseteq Took(r, program, k - 1))
  BY <1>1, <1>3 DEF FreedInv
<1>5. Contents[f] \subseteq Took(r, program, k)
  BY <1>3, TookNext DEF Call
<1>6. Frees(r, program, k, f)
  BY <1>4, <1>5 DEF Frees
<1>7. k \in DOMAIN program
  BY <1>3, ProgramAssumption
<1>8. ~Unwaited(r, program, k)
  <2> HIDE DEF k
  <2>1. QED
    BY <1>3, <1>6, <1>7, UseAssumption
<1>9. QED
  BY <1>1, <1>2, <1>8, LeftByOwnPush DEF Return

\* A call is accounted for, and only quiet buffers are freed.
LEMMA ReturnRInv ==
  ASSUME NEW r \in Ranks, RInv, Return(r)
  PROVE  RInv'
<1> DEFINE k == step[r]
           names == taken[r] \cup Counts(r, Call(r))
<1>1. HostTypes /\ DeviceTypes /\ TakenInv /\ FreedInv /\ ItemsInv /\ QuietInv
      /\ GoodInv
  BY DEF RInv
<1>2. /\ phase[r] = "issue" /\ items[r] = <<>>
      /\ DrainsAtEnd(Call(r)) => stream[r] = <<>>
      /\ taken' = [taken EXCEPT ![r] = names]
      /\ phase' = [phase EXCEPT ![r] = "idle"]
      /\ step' = [step EXCEPT ![r] = @ + 1]
      /\ UNCHANGED <<program, cached, drains, items, tag, stream, staged, landed, out>>
  BY DEF Return, options
<1>3. /\ program \in Programs /\ k \in 1 .. Len(program) /\ k \in Nat \ {0}
      /\ k <= Len(program) /\ Len(program) \in Nat
      /\ phase \in [Ranks -> {"idle", "issue", "sync", "raised", "closed"}]
      /\ step \in [Ranks -> Nat]
      /\ taken \in [Ranks -> SUBSET Tensors] /\ shuffled \in [Ranks -> SUBSET Tensors]
      /\ buffer \in [SetOf(Files) -> {"live", "freed"}]
  <2>1. program \in Programs /\ Len(program) \in Nat
    BY <1>1, ProgramAssumption DEF HostTypes
  <2>2. QED
    BY <1>1, <1>2, <2>1 DEF HostTypes, DeviceTypes
<1>4. Counts(r, Call(r)) \subseteq Tensors /\ Fetched(r, Call(r)) \subseteq Tensors
  BY <1>3, CountsFacts DEF Call
<1>5. /\ shuffled' \in [Ranks -> SUBSET Tensors]
      /\ shuffled'[r] \subseteq shuffled[r] \cup Fetched(r, Call(r))
      /\ \A q \in Ranks : q # r => shuffled'[q] = shuffled[q]
  <2>1. shuffled' = IF cached
                    THEN [shuffled EXCEPT ![r] = @ \cup Fetched(r, Call(r))]
                    ELSE shuffled
    BY DEF Return
  <2>2. QED
    BY <1>3, <1>4, <2>1
<1>6. /\ taken'[r] = names /\ phase'[r] = "idle" /\ step'[r] = k + 1
      /\ \A q \in Ranks : q # r =>
            taken'[q] = taken[q] /\ phase'[q] = phase[q] /\ step'[q] = step[q]
      /\ \A q \in Ranks : q # r => Call(q)' = Call(q)
  BY <1>2, <1>3 DEF Call
<1>7. /\ buffer' \in [SetOf(Files) -> {"live", "freed"}]
      /\ \A f \in SetOf(Files) :
            buffer'[f] = IF Owner[f] = r /\ Contents[f] \subseteq names THEN "freed"
                         ELSE buffer[f]
  <2>1. buffer' = [f \in SetOf(Files) |->
                     IF f \in {g \in Freed(r, names) : Owner[g] = r} THEN "freed"
                     ELSE buffer[f]]
    BY DEF Return, Free
  <2>2. QED
    BY <1>3, <2>1 DEF Freed, AllTaken
<1>8. HostTypes'
  <2>1. /\ taken' \in [Ranks -> SUBSET Tensors]
        /\ phase' \in [Ranks -> {"idle", "issue", "sync", "raised", "closed"}]
        /\ step' \in [Ranks -> Nat]
    BY <1>2, <1>3, <1>4
  <2>2. step'[r] \in 1 .. Len(program) + 1
    BY <1>3, <1>6
  <2>3. ASSUME NEW q \in Ranks
        PROVE  /\ step'[q] \in 1 .. Len(program) + 1
               /\ phase'[q] \in {"issue", "sync"} => step'[q] <= Len(program)
               /\ phase'[q] = "closed" => step'[q] > Len(program)
    <3>1. CASE q = r
      BY <1>6, <2>2, <3>1
    <3>2. CASE q # r
      BY <1>1, <1>6, <3>2 DEF HostTypes
    <3>3. QED
      BY <3>1, <3>2
  <2>4. QED
    BY <1>1, <1>2, <1>5, <2>1, <2>3 DEF HostTypes
<1>9. DeviceTypes'
  BY <1>1, <1>2, <1>7 DEF DeviceTypes
<1>10. TakenInv'
  <2>1. taken'[r] = Took(r, program, k)
    BY <1>1, <1>3, <1>6, TookNext DEF TakenInv, Call
  <2>2. shuffled'[r] \subseteq Kept(r, program, k)
    BY <1>1, <1>3, <1>5, TookNext DEF TakenInv, Call
  <2>3. step'[r] - 1 = k
    BY <1>3, <1>6
  <2> HIDE DEF k
  <2>4. QED
    BY <1>1, <1>2, <1>5, <1>6, <2>1, <2>2, <2>3 DEF TakenInv
<1>11. FreedInv'
  <2>1. ASSUME NEW f \in SetOf(Files)
        PROVE  buffer'[f] = "freed" <=>
                  Contents[f] \subseteq taken'[Owner[f]] \/ phase'[Owner[f]] = "closed"
    <3>1. Owner[f] \in Ranks
      BY FileFacts
    <3>2. buffer[f] = "freed" <=>
             Contents[f] \subseteq taken[Owner[f]] \/ phase[Owner[f]] = "closed"
      BY <1>1 DEF FreedInv
    <3>3. CASE Owner[f] = r
      BY <1>2, <1>6, <1>7, <3>2, <3>3
    <3>4. CASE Owner[f] # r
      BY <1>6, <1>7, <3>1, <3>2, <3>4
    <3>5. QED
      BY <3>3, <3>4
  <2>2. QED
    BY <2>1 DEF FreedInv
<1>12. ItemsInv'
  BY <1>1, <1>2, <1>6 DEF ItemsInv
<1>13. GoodInv'
  <2> StreamInv /\ CorrectTensors
    BY <1>1 DEF GoodInv
  <2> \A t \in Tensors : AskedLate(t) => AskedLate(t)'
    BY <1>1, <1>2, <1>3, <1>6, StillLate
  <2> \A x \in Collectives : Excused(x) => Excused(x)'
    BY SetOfSeq DEF Excused, Collectives
  <2>1. ASSUME NEW q \in Ranks, NEW x \in Collectives, GoodClone(q, x), stream[q] # <<>>
        PROVE  GoodClone(q, x)'
    <3>1. ASSUME ~Excused(x), NEW t \in SetOf(x.names), Bytes(t) # 0
          PROVE  buffer'[Frame[t].file] = "live"
      <4> DEFINE f == Frame[t].file
      <4>1. t \in Tensors /\ Home(t) = q /\ buffer[f] = "live"
        BY <2>1, <3>1, SetOfSeq DEF GoodClone, Collectives
      <4>2. f \in SetOf(Files) /\ Owner[f] = q
        BY <4>1, FileFacts DEF Home
      <4>3. ~(Owner[f] = r /\ Contents[f] \subseteq names)
        <5> HIDE DEF f
        <5>1. QED
          BY <2>1, <4>1, <4>2, FreesQuietly
      <4>4. QED
        BY <1>7, <4>1, <4>2, <4>3
    <3>2. QED
      BY <1>2, <2>1, <3>1 DEF GoodClone
  <2>2. ASSUME NEW q \in Ranks, NEW i \in 1 .. Len(stream[q])
        PROVE  GoodAt(q, stream[q], i)'
    <3>1. stream[q][i].item \in Collectives /\ stream[q] # <<>>
      <4>1. stream[q] \in Seq(Operations)
        BY <1>1 DEF DeviceTypes
      <4>2. stream[q][i] \in Operations /\ stream[q] # <<>>
        BY <4>1
      <4>3. QED
        BY <4>2 DEF Operations
    <3>2. GoodAt(q, stream[q], i)
      BY DEF StreamInv
    <3>3. GoodClone(q, stream[q][i].item) => GoodClone(q, stream[q][i].item)'
      BY <1>2, <2>1, <3>1
    <3>4. QED
      BY <1>2, <3>1, <3>2, <3>3 DEF GoodAt
  <2>3. StreamInv'
    BY <1>2, <2>2 DEF StreamInv
  <2>4. QED
    BY <1>2, <2>3 DEF GoodInv, CorrectTensors
<1>14. QuietInv'
  <2>1. stream[r] # <<>> => Unwaited(r, program, k)
    BY <1>1, <1>2, LeftByOwnPush
  <2>2. step'[r] - 1 = k
    BY <1>3, <1>6
  <2> HIDE DEF k
  <2>3. QED
    BY <1>1, <1>2, <1>6, <2>1, <2>2 DEF QuietInv
<1>15. QED
  BY <1>8, <1>9, <1>10, <1>11, <1>12, <1>13, <1>14 DEF RInv

\* A rank that closes has waited for what it queued.
LEMMA CloseRInv ==
  ASSUME NEW r \in Ranks, RInv, Close(r)
  PROVE  RInv'
<1>1. HostTypes /\ DeviceTypes /\ TakenInv /\ FreedInv /\ ItemsInv /\ QuietInv
      /\ GoodInv
  BY DEF RInv
<1>2. /\ phase[r] = "idle" /\ step[r] > Len(program)
      /\ phase' = [phase EXCEPT ![r] = "closed"]
      /\ UNCHANGED <<program, cached, drains, step, items, tag, shuffled, taken,
                     stream, staged, landed, out>>
  BY DEF Close, options
<1>3. /\ program \in Programs /\ Len(program) \in Nat /\ DOMAIN program = 1 .. Len(program)
      /\ step[r] - 1 = Len(program)
      /\ phase \in [Ranks -> {"idle", "issue", "sync", "raised", "closed"}]
      /\ buffer \in [SetOf(Files) -> {"live", "freed"}]
  <2>1. program \in Programs /\ Len(program) \in Nat /\ DOMAIN program = 1 .. Len(program)
    BY <1>1, ProgramAssumption DEF HostTypes
  <2>2. QED
    BY <1>1, <1>2, <2>1 DEF HostTypes, DeviceTypes
<1>4. stream[r] = <<>>
  <2>1. ~Unwaited(r, program, Len(program))
    <3>1. CASE Len(program) = 0
      <4>1. 1 .. Len(program) = {}
        BY <3>1
      <4>2. QED
        BY <4>1 DEF Unwaited
    <3>2. CASE Len(program) # 0
      <4>1. Len(program) \in DOMAIN program
        BY <1>3, <3>2
      <4>2. QED
        BY <1>3, <4>1, UseAssumption
    <3>3. QED
      BY <3>1, <3>2
  <2>2. QED
    BY <1>1, <1>2, <1>3, <2>1 DEF QuietInv
<1>5. /\ phase'[r] = "closed" /\ \A q \in Ranks : q # r => phase'[q] = phase[q]
      /\ \A q \in Ranks : Call(q)' = Call(q)
  BY <1>2, <1>3 DEF Call
<1>6. /\ buffer' \in [SetOf(Files) -> {"live", "freed"}]
      /\ \A f \in SetOf(Files) :
            buffer'[f] = IF Owner[f] = r THEN "freed" ELSE buffer[f]
  <2>1. buffer' = [f \in SetOf(Files) |->
                     IF f \in {g \in SetOf(Files) : Owner[g] = r} THEN "freed"
                     ELSE buffer[f]]
    BY DEF Close, Free
  <2>2. QED
    BY <1>3, <2>1
<1>7. HostTypes'
  <2>1. phase' \in [Ranks -> {"idle", "issue", "sync", "raised", "closed"}]
    BY <1>2, <1>3
  <2>2. QED
    BY <1>1, <1>2, <1>5, <2>1 DEF HostTypes
<1>8. DeviceTypes'
  BY <1>1, <1>2, <1>6 DEF DeviceTypes
<1>9. TakenInv'
  BY <1>1, <1>2, StillHolds
<1>10. FreedInv'
  <2>1. \A f \in SetOf(Files) : Owner[f] \in Ranks
    BY FileFacts
  <2>2. QED
    BY <1>1, <1>2, <1>5, <1>6, <2>1 DEF FreedInv
<1>11. ItemsInv'
  BY <1>1, <1>2, <1>5 DEF ItemsInv
<1>12. GoodInv'
  <2> StreamInv /\ CorrectTensors
    BY <1>1 DEF GoodInv
  <2> \A t \in Tensors : AskedLate(t) => AskedLate(t)'
    BY <1>2 DEF AskedLate
  <2> \A x \in Collectives : Excused(x) => Excused(x)'
    BY SetOfSeq DEF Excused, Collectives
  <2>1. ASSUME NEW q \in Ranks, q # r, NEW x \in Collectives, GoodClone(q, x)
        PROVE  GoodClone(q, x)'
    <3>1. ASSUME ~Excused(x), NEW t \in SetOf(x.names), Bytes(t) # 0
          PROVE  buffer'[Frame[t].file] = "live"
      <4>1. t \in Tensors /\ Home(t) = q /\ buffer[Frame[t].file] = "live"
        BY <2>1, <3>1, SetOfSeq DEF GoodClone, Collectives
      <4>2. Frame[t].file \in SetOf(Files) /\ Owner[Frame[t].file] = q
        BY <4>1, FileFacts DEF Home
      <4>3. QED
        BY <1>6, <2>1, <4>1, <4>2
    <3>2. QED
      BY <1>2, <2>1, <3>1 DEF GoodClone
  <2>2. ASSUME NEW q \in Ranks, NEW i \in 1 .. Len(stream[q])
        PROVE  GoodAt(q, stream[q], i)'
    <3>1. stream[q][i].item \in Collectives /\ q # r
      <4>1. stream[q] \in Seq(Operations)
        BY <1>1 DEF DeviceTypes
      <4>2. stream[q][i] \in Operations /\ stream[q] # <<>>
        BY <4>1
      <4>3. QED
        BY <1>4, <4>2 DEF Operations
    <3>2. GoodAt(q, stream[q], i)
      BY DEF StreamInv
    <3>3. GoodClone(q, stream[q][i].item) => GoodClone(q, stream[q][i].item)'
      BY <1>2, <2>1, <3>1
    <3>4. QED
      BY <1>2, <3>1, <3>2, <3>3 DEF GoodAt
  <2>3. StreamInv'
    BY <1>2, <2>2 DEF StreamInv
  <2>4. QED
    BY <1>2, <2>3 DEF GoodInv, CorrectTensors
<1>13. QuietInv'
  BY <1>1, <1>2, <1>4, <1>5 DEF QuietInv
<1>14. QED
  BY <1>7, <1>8, <1>9, <1>10, <1>11, <1>12, <1>13 DEF RInv

\* The rest of a stream is good when the device is through with its head.
LEMMA ShorterStream ==
  ASSUME NEW r \in Ranks, NEW s \in Seq(Operations), s # <<>>,
         \A i \in 1 .. Len(s) : GoodAt(r, s, i),
         UNCHANGED <<program, step, landed, buffer>>,
         s[1].op = "clone" => staged'[r] \/ Excused(s[1].item)
  PROVE  /\ Tail(s) \in Seq(Operations)
         /\ \A u : u = Tail(s) => \A i \in 1 .. Len(u) : GoodAt(r, u, i)'
<1>1. /\ Tail(s) \in Seq(Operations) /\ Len(s) \in Nat /\ Len(Tail(s)) = Len(s) - 1
      /\ \A i \in 1 .. Len(s) - 1 : Tail(s)[i] = s[i + 1]
  OBVIOUS
<1>2. ASSUME NEW i \in 1 .. Len(s) - 1 PROVE GoodAt(r, Tail(s), i)'
  <2>1. i + 1 \in 1 .. Len(s) /\ i + 1 # 1 /\ (i + 1) - 1 = i
        /\ (i # 1 => i - 1 \in 1 .. Len(s) - 1 /\ (i - 1) + 1 = i)
    BY <1>1
  <2>2. GoodAt(r, s, i + 1)
    BY <2>1
  <2>3. Tail(s)[i] = s[i + 1] /\ (i # 1 => Tail(s)[i - 1] = s[i])
    BY <1>1, <2>1
  <2>4. s[i + 1].op = "join" /\ s[i + 1].item.root = r =>
           s[i].op = "clone" /\ s[i].item = s[i + 1].item
    BY <2>1, <2>2 DEF GoodAt
  <2>5. s[i + 1].op = "clone" => GoodClone(r, s[i + 1].item)
        /\ {r, s[i + 1].item.root} \subseteq s[i + 1].item.members
    BY <2>2 DEF GoodAt
  <2>6. {r, s[i + 1].item.root} \subseteq s[i + 1].item.members
    BY <2>2 DEF GoodAt
  <2> DEFINE u == Tail(s)
  <2> \A x : Excused(x)' = Excused(x)
    BY DEF Excused, AskedLate
  <2>7. u[i].op = "clone" => GoodClone(r, u[i].item)'
    BY <2>3, <2>5 DEF GoodClone
  <2>8. u[i].op = "join" /\ u[i].item.root = r =>
           IF i = 1 THEN staged'[r] \/ Excused(u[1].item)'
           ELSE u[i - 1].op = "clone" /\ u[i - 1].item = u[i].item
    BY <2>3, <2>4
  <2>9. {r, u[i].item.root} \subseteq u[i].item.members
    BY <2>3, <2>6
  <2> HIDE DEF u
  <2>10. GoodAt(r, u, i)'
    BY <2>7, <2>8, <2>9 DEF GoodAt
  <2>11. QED
    BY <2>10 DEF u
<1>3. QED
  BY <1>1, <1>2

\* A clone finds its bytes.
LEMMA CloneRInv ==
  ASSUME NEW r \in Ranks, RInv, Clone(r)
  PROVE  RInv'
<1> DEFINE item == Head(stream[r]).item
           good == \A t \in SetOf(item.names) :
                      \/ Bytes(t) = 0
                      \/ t \in landed /\ buffer[Frame[t].file] = "live"
<1>1. HostTypes /\ DeviceTypes /\ TakenInv /\ FreedInv /\ ItemsInv /\ QuietInv
      /\ GoodInv
  BY DEF RInv
<1>2. /\ stream[r] # <<>> /\ Head(stream[r]).op = "clone"
      /\ staged' = [staged EXCEPT ![r] = good]
      /\ out' = IF Local(item)
                THEN [out EXCEPT ![r][item.names[1]] = IF good THEN "good" ELSE "bad"]
                ELSE out
      /\ stream' = [stream EXCEPT ![r] = Tail(@)]
      /\ UNCHANGED <<options, host, landed, buffer>>
  BY DEF Clone
<1>3. /\ stream \in [Ranks -> Seq(Operations)] /\ staged \in [Ranks -> BOOLEAN]
      /\ out \in [Ranks -> [Tensors -> {"none", "good", "bad"}]]
      /\ stream[r] \in Seq(Operations)
  BY <1>1 DEF DeviceTypes
<1>4. 1 \in 1 .. Len(stream[r]) /\ Head(stream[r]) = stream[r][1]
  BY <1>2, <1>3
<1>5. good \/ Excused(item)
  <2>1. GoodClone(r, item)
    BY <1>1, <1>2, <1>4 DEF GoodInv, StreamInv, GoodAt
  <2> HIDE DEF item
  <2>2. QED
    BY <2>1 DEF GoodClone
<1> HIDE DEF item
<1>6. good \in BOOLEAN
  BY Zenon
<1> HIDE DEF good
<1>7. /\ staged' \in [Ranks -> BOOLEAN] /\ staged'[r] = good
      /\ \A q \in Ranks : q # r => staged'[q] = staged[q]
  BY <1>2, <1>3, <1>6
<1>8. /\ out' \in [Ranks -> [Tensors -> {"none", "good", "bad"}]]
      /\ CorrectTensors => CorrectTensors'
  <2> \A t \in Tensors : AskedLate(t)' = AskedLate(t)
    BY <1>2 DEF AskedLate, options, host
  <2>1. CASE Local(item)
    <3> DEFINE t == item.names[1]
               v == IF good THEN "good" ELSE "bad"
    <3>1. out' = [out EXCEPT ![r][t] = v]
      BY <1>2, <2>1
    <3>2. out[r] \in [Tensors -> {"none", "good", "bad"}] /\ v \in {"good", "bad"}
      BY <1>3
    <3>3. v # "bad"
      BY <1>5, <2>1 DEF Excused, Local
    <3> HIDE DEF t, v
    <3>4. /\ [out[r] EXCEPT ![t] = v] \in [Tensors -> {"none", "good", "bad"}]
          /\ \A u \in Tensors :
                [out[r] EXCEPT ![t] = v][u] = v \/ [out[r] EXCEPT ![t] = v][u] = out[r][u]
      BY <3>2
    <3>5. /\ out' \in [Ranks -> [Tensors -> {"none", "good", "bad"}]]
          /\ \A q \in Ranks, u \in Tensors : out'[q][u] = v \/ out'[q][u] = out[q][u]
      BY <1>3, <3>1, <3>4
    <3>6. QED
      BY <3>3, <3>5 DEF CorrectTensors
  <2>2. CASE ~Local(item)
    BY <1>2, <1>3, <2>2 DEF CorrectTensors
  <2>3. QED
    BY <2>1, <2>2
<1>9. /\ stream' \in [Ranks -> Seq(Operations)] /\ stream'[r] = Tail(stream[r])
      /\ \A q \in Ranks : q # r => stream'[q] = stream[q]
  <2>1. Tail(stream[r]) \in Seq(Operations)
    BY <1>2, <1>3
  <2>2. QED
    BY <1>2, <1>3, <2>1
<1>10. HostTypes' /\ TakenInv' /\ FreedInv' /\ ItemsInv'
  BY <1>1, <1>2, StillHolds DEF options, host
<1>11. DeviceTypes'
  BY <1>1, <1>2, <1>7, <1>8, <1>9 DEF DeviceTypes
<1>12. GoodInv'
  <2>1. StreamInv /\ CorrectTensors /\ UNCHANGED <<program, step>>
    BY <1>1, <1>2 DEF GoodInv, options, host
  <2> \A x : Excused(x)' = Excused(x)
    BY <2>1 DEF Excused, AskedLate
  <2>2. PICK u : /\ u = Tail(stream[r])
                 /\ \A i \in 1 .. Len(u) : GoodAt(r, u, i)'
    <3>1. PICK s : s = stream[r]
      OBVIOUS
    <3>2. /\ s \in Seq(Operations) /\ s # <<>>
          /\ \A i \in 1 .. Len(s) : GoodAt(r, s, i)
      BY <1>2, <1>3, <2>1, <3>1 DEF StreamInv
    <3>3. staged'[r] \/ Excused(s[1].item)
      BY <1>4, <1>5, <1>7, <3>1 DEF item
    <3>4. /\ Tail(s) \in Seq(Operations)
          /\ \A u : u = Tail(s) => \A i \in 1 .. Len(u) : GoodAt(r, u, i)'
      BY <1>2, <2>1, <3>2, <3>3, ShorterStream
    <3>5. QED
      BY <3>1, <3>4
  <2>3. ASSUME NEW q \in Ranks, q # r, NEW i \in 1 .. Len(stream[q])
        PROVE  GoodAt(q, stream[q], i)'
    <3>1. GoodAt(q, stream[q], i) /\ stream'[q] = stream[q] /\ staged'[q] = staged[q]
      BY <1>7, <1>9, <2>1, <2>3 DEF StreamInv
    <3>2. QED
      BY <1>2, <3>1 DEF GoodAt, GoodClone
  <2>4. ASSUME NEW i \in 1 .. Len(stream'[r]) PROVE GoodAt(r, stream[r], i)'
    <3>1. GoodAt(r, u, i)' /\ u = stream'[r]
      BY <1>9, <2>2
    <3>2. QED
      BY <3>1 DEF GoodAt
  <2>5. StreamInv'
    BY <1>9, <2>3, <2>4 DEF StreamInv
  <2>6. QED
    BY <1>8, <2>1, <2>5 DEF GoodInv
<1>13. QuietInv'
  <2>1. \A q \in Ranks : stream'[q] # <<>> => stream[q] # <<>>
    BY <1>2, <1>9
  <2>2. /\ UNCHANGED <<phase, program, step, items>>
        /\ \A q \in Ranks : Call(q)' = Call(q)
    BY <1>2 DEF host, options, Call
  <2>3. QED
    BY <1>1, <2>1, <2>2 DEF QuietInv
<1>14. QED
  BY <1>10, <1>11, <1>12, <1>13 DEF RInv

\* A collective finds the clone that its root made.
LEMMA JoinRInv ==
  ASSUME RInv, JoinAny
  PROVE  RInv'
<1>1. HostTypes /\ DeviceTypes /\ TakenInv /\ FreedInv /\ ItemsInv /\ QuietInv
      /\ GoodInv
  BY DEF RInv
<1>2. PICK q \in Ranks : stream[q] # <<>> /\ Join(Head(stream[q]).item)
  BY DEF JoinAny
<1>3. PICK item : item = Head(stream[q]).item
  OBVIOUS
<1>4. /\ \A r \in item.members : AtHead(r, item)
      /\ stream' = [r \in Ranks |->
                      IF r \in item.members THEN Tail(stream[r]) ELSE stream[r]]
      /\ out' = [r \in Ranks |-> [t \in Tensors |->
                   IF /\ r \in item.members /\ t \in SetOf(item.names)
                      /\ item.kind = "push" => r # item.root
                   THEN IF staged[item.root] THEN "good" ELSE "bad"
                   ELSE out[r][t]]]
      /\ UNCHANGED <<options, host, staged, landed, buffer>>
  BY <1>2, <1>3 DEF Join
<1>5. /\ stream \in [Ranks -> Seq(Operations)]
      /\ out \in [Ranks -> [Tensors -> {"none", "good", "bad"}]]
  BY <1>1 DEF DeviceTypes
<1>6. \A r \in Ranks :
         /\ stream[r] \in Seq(Operations)
         /\ stream[r] # <<>> =>
               /\ 1 \in 1 .. Len(stream[r]) /\ Head(stream[r]) = stream[r][1]
               /\ Head(stream[r]) \in Operations
  BY <1>5
<1>7. item \in Collectives
  BY <1>2, <1>3, <1>6 DEF Operations
<1>8. item.members \subseteq Ranks
  BY <1>7 DEF Collectives
<1>9. \A r \in item.members :
         /\ stream[r] # <<>> /\ stream[r][1].op = "join" /\ stream[r][1].item = item
         /\ 1 \in 1 .. Len(stream[r])
  BY <1>4, <1>6, <1>8 DEF AtHead
<1>10. out' \in [Ranks -> [Tensors -> {"none", "good", "bad"}]]
  BY <1>4, <1>5
<1>11. \A r \in Ranks :
          /\ stream'[r] = IF r \in item.members THEN Tail(stream[r]) ELSE stream[r]
          /\ stream'[r] \in Seq(Operations)
          /\ stream'[r] # <<>> => stream[r] # <<>>
  <2>1. \A r \in item.members : Tail(stream[r]) \in Seq(Operations)
    BY <1>6, <1>8, <1>9
  <2>2. QED
    BY <1>4, <1>6, <1>8, <1>9, <2>1
<1>12. /\ StreamInv /\ CorrectTensors /\ UNCHANGED <<program, step>>
       /\ \A x : Excused(x)' = Excused(x)
       /\ \A t \in Tensors : AskedLate(t)' = AskedLate(t)
  <2>1. StreamInv /\ CorrectTensors /\ UNCHANGED <<program, step>>
    BY <1>1, <1>4 DEF GoodInv, options, host
  <2>2. QED
    BY <2>1 DEF Excused, AskedLate
<1>13. CorrectTensors'
  <2>1. item.root \in item.members
    BY <1>2, <1>3, <1>6, <1>12 DEF StreamInv, GoodAt
  <2>2. staged[item.root] \/ Excused(item)
    <3>1. GoodAt(item.root, stream[item.root], 1)
      BY <1>8, <1>9, <1>12, <2>1 DEF StreamInv
    <3>2. QED
      BY <1>9, <2>1, <3>1 DEF GoodAt
  <2>3. \A r \in Ranks, t \in Tensors :
           \/ out'[r][t] = out[r][t]
           \/ out'[r][t] = "good"
           \/ t \in SetOf(item.names) /\ ~staged[item.root]
    BY <1>4
  <2>4. ASSUME NEW r \in Ranks, NEW t \in Tensors, out'[r][t] = "bad"
        PROVE  AskedLate(t)
    <3>1. out[r][t] = "bad" \/ (t \in SetOf(item.names) /\ Excused(item))
      BY <2>2, <2>3, <2>4
    <3>2. QED
      BY <1>12, <3>1 DEF CorrectTensors, Excused
  <2>5. QED
    BY <1>12, <2>4 DEF CorrectTensors
<1>14. ASSUME NEW r \in Ranks
       PROVE  \A i \in 1 .. Len(stream'[r]) : GoodAt(r, stream[r], i)'
  <2>1. CASE r \in item.members
    <3>1. PICK s : s = stream[r]
      OBVIOUS
    <3>2. /\ s \in Seq(Operations) /\ s # <<>> /\ s[1].op = "join"
          /\ \A i \in 1 .. Len(s) : GoodAt(r, s, i)
      BY <1>6, <1>9, <1>12, <2>1, <3>1 DEF StreamInv
    <3>3. /\ Tail(s) \in Seq(Operations)
          /\ \A u : u = Tail(s) => \A i \in 1 .. Len(u) : GoodAt(r, u, i)'
      BY <1>4, <1>12, <3>2, ShorterStream
    <3>4. stream'[r] = Tail(s)
      BY <1>4, <2>1, <3>1
    <3>5. QED
      BY <3>3, <3>4 DEF GoodAt
  <2>2. CASE r \notin item.members
    <3>1. stream'[r] = stream[r] /\ staged' = staged
      BY <1>4, <2>2
    <3>2. \A i \in 1 .. Len(stream[r]) : GoodAt(r, stream[r], i)
      BY <1>12 DEF StreamInv
    <3>3. ASSUME NEW i \in 1 .. Len(stream[r]) PROVE GoodAt(r, stream[r], i)'
      <4>1. GoodAt(r, stream[r], i)
        BY <3>2
      <4>2. landed' = landed /\ buffer' = buffer
        BY <1>4
      <4>3. QED
        BY <1>12, <3>1, <4>1, <4>2 DEF GoodAt, GoodClone
    <3>4. QED
      BY <3>1, <3>3
  <2>3. QED
    BY <2>1, <2>2
<1>15. HostTypes' /\ TakenInv' /\ FreedInv' /\ ItemsInv'
  BY <1>1, <1>4, StillHolds DEF options, host
<1>16. DeviceTypes'
  <2>1. stream' \in [Ranks -> Seq(Operations)]
    BY <1>4, <1>11
  <2>2. QED
    BY <1>1, <1>4, <1>10, <2>1 DEF DeviceTypes
<1>17. GoodInv'
  <2>1. StreamInv'
    BY <1>14 DEF StreamInv
  <2>2. QED
    BY <1>13, <2>1 DEF GoodInv
<1>18. QuietInv'
  <2>1. /\ UNCHANGED <<phase, program, step, items>>
        /\ \A r \in Ranks : Call(r)' = Call(r)
    BY <1>4 DEF host, options, Call
  <2>2. QED
    BY <1>1, <1>11, <2>1 DEF QuietInv
<1>19. QED
  BY <1>15, <1>16, <1>17, <1>18 DEF RInv

\* More bytes land.
LEMMA LandRInv ==
  ASSUME NEW t \in Tensors, RInv, Land(t)
  PROVE  RInv'
<1>1. HostTypes /\ DeviceTypes /\ TakenInv /\ FreedInv /\ ItemsInv /\ QuietInv
      /\ GoodInv
  BY DEF RInv
<1>2. /\ landed' = landed \cup {t}
      /\ UNCHANGED <<options, host, stream, staged, buffer, out>>
  BY DEF Land
<1>3. HostTypes' /\ TakenInv' /\ FreedInv' /\ ItemsInv' /\ QuietInv'
  BY <1>1, <1>2, StillHolds DEF options, host
<1>4. DeviceTypes'
  BY <1>1, <1>2 DEF DeviceTypes
<1>5. GoodInv'
  <2>1. StreamInv /\ CorrectTensors /\ UNCHANGED <<program, step>>
    BY <1>1, <1>2 DEF GoodInv, options, host
  <2>2. /\ \A x : Excused(x)' = Excused(x)
        /\ \A x \in Tensors : AskedLate(x)' = AskedLate(x)
    BY <2>1 DEF Excused, AskedLate
  <2>3. ASSUME NEW r \in Ranks, NEW i \in 1 .. Len(stream[r])
        PROVE  GoodAt(r, stream[r], i)'
    <3>1. GoodAt(r, stream[r], i)
      BY <2>1 DEF StreamInv
    <3>2. QED
      BY <1>2, <2>2, <3>1 DEF GoodAt, GoodClone
  <2>4. StreamInv'
    BY <1>2, <2>3 DEF StreamInv
  <2>5. QED
    BY <1>2, <2>1, <2>2, <2>4 DEF GoodInv, CorrectTensors
<1>6. QED
  BY <1>3, <1>4, <1>5 DEF RInv

LEMMA InitRInv == Init => RInv
<1> SUFFICES ASSUME Init PROVE RInv
  OBVIOUS
<1>1. program \in Programs /\ Len(program) \in Nat
  BY ProgramAssumption DEF Init
<1>2. HostTypes
  <2>1. \A r \in Ranks : step[r] = 1 /\ phase[r] = "idle"
    BY DEF Init
  <2>2. 1 \in 1 .. Len(program) + 1
    BY <1>1
  <2>3. QED
    BY <1>1, <2>1, <2>2 DEF Init, HostTypes
<1>3. DeviceTypes
  BY DEF Init, DeviceTypes
<1>4. TakenInv
  BY DEF Init, TakenInv, Took
<1>5. FreedInv
  BY SMTT(30), FileFacts DEF Init, FreedInv
<1>6. ItemsInv
  BY DEF Init, ItemsInv
<1>7. GoodInv
  BY DEF Init, GoodInv, StreamInv, CorrectTensors
<1>8. QuietInv
  BY DEF Init, QuietInv
<1>9. QED
  BY <1>2, <1>3, <1>4, <1>5, <1>6, <1>7, <1>8 DEF RInv

LEMMA NextRInv == RInv /\ [Next]_vars => RInv'
<1> SUFFICES ASSUME RInv, [Next]_vars PROVE RInv'
  OBVIOUS
<1>1. ASSUME NEW r \in Ranks, Rank(r) PROVE RInv'
  BY <1>1, BeginRInv, IssueRInv, RaiseRInv, SynchronizeRInv, ReturnRInv, CloseRInv DEF Rank
<1>2. CASE UNCHANGED vars
  BY <1>2, StillHolds DEF RInv, vars, options, host, device
<1>3. QED
  BY <1>1, <1>2, CloneRInv, JoinRInv, LandRInv DEF Next

LEMMA AlwaysRInv == Spec => []RInv
<1>1. Init => RInv
  BY InitRInv
<1>2. RInv /\ [Next]_vars => RInv'
  BY NextRInv
<1>3. QED
  BY <1>1, <1>2, PTL DEF Spec

-----------------------------------------------------------------------------
(* What the ranks can rely on.                                             *)

\* Every tensor that a rank was given has the bytes of the file, whatever the
\* pace of the ranks, the devices and the reads: the clone of a collective ran
\* after the bytes had landed and before its owner freed the buffer, at the
\* end of a call or in close, though most runs are not drained one by one.
\* The one exception is a tensor that get_tensor is asked for after its owner
\* freed the file, and from this call on; every other call raises then.
THEOREM GoodCopies == Spec => []CorrectTensors
<1>1. RInv => CorrectTensors
  BY DEF RInv, GoodInv
<1>2. QED
  BY <1>1, AlwaysRInv, PTL

\* auto_mem_delete does not forget a file: when its owner was given every
\* tensor of it, in any mixture of get_tensor, get_sharded, pushes to itself
\* and get_multi_cols over several files or of one tensor, its buffer is freed.
\* Of the other calls the owner counts too few names (CountsAll).
THEOREM FreedInTime == Spec => [](CountsAll(program) => FreedWhenTaken)
<1>1. ASSUME RInv, CountsAll(program), NEW f \in SetOf(Files), AllGiven(f)
      PROVE  buffer[f] = "freed"
  <2> DEFINE r == Owner[f]
             k == step[r] - 1
  <2>1. r \in Ranks /\ Contents[f] \subseteq Tensors
    BY FileFacts
  <2>2. /\ program \in Programs /\ step[r] \in 1 .. Len(program) + 1
        /\ taken[r] = Took(r, program, k) /\ FreedInv
    BY <1>1, <2>1 DEF RInv, HostTypes, TakenInv
  <2>3. Len(program) \in Nat /\ DOMAIN program = 1 .. Len(program)
    BY <2>2, ProgramAssumption
  <2>4. ASSUME NEW t \in Contents[f] PROVE t \in Took(r, program, k)
    <3>1. PICK j \in 1 .. k : program[j].kind # "iter" /\ t \in SetOf(program[j].names)
      BY <1>1, <2>4 DEF AllGiven, Given
    <3>2. j \in 1 .. Len(program) /\ j \in DOMAIN program
      BY <2>2, <2>3
    <3> DEFINE call == program[j]
    <3>3. /\ call.kind \in Kinds /\ call.names \in Seq(Tensors) /\ call.names # <<>>
          /\ call.kind \in {"broadcast", "scatter", "push"} =>
                SetOf(call.names) = {call.names[1]}
      BY <2>2, <3>2, CallFacts
    <3>4. /\ call.kind = "multi" => Len(FilesIn(call.names)) > 1 \/ Len(call.names) = 1
          /\ call.kind = "push" => call.to = Home(call.names[1])
      BY <1>1, <3>2 DEF CountsAll
    <3>5. Home(t) = r
      BY <2>4, FileFacts
    <3>6. t \in Counts(r, call)
      <4> HIDE DEF call
      <4>1. call.kind # "iter" /\ t \in SetOf(call.names)
        BY <3>1 DEF call
      <4>2. CASE call.kind \in {"broadcast", "scatter"}
        BY <3>3, <4>1, <4>2 DEF Counts
      <4>3. CASE call.kind = "push"
        BY <3>3, <3>4, <3>5, <4>1, <4>3 DEF Counts
      <4>4. CASE call.kind = "multi" /\ Len(call.names) = 1
        <5>1. SetOf(call.names) = {call.names[1]}
          BY <3>3, <4>4 DEF SetOf
        <5>2. QED
          BY <4>1, <4>4, <5>1 DEF Counts
      <4>5. CASE call.kind = "multi" /\ Len(FilesIn(call.names)) > 1
        <5>1. FilesIn(call.names) \in Seq(SetOf(Files))
          BY <3>3, MultiFacts
        <5>2. Len(FilesIn(call.names)) \in Nat
          BY <5>1, LenProperties
        <5>3. \A n \in Nat : n > 1 => n # 1
          OBVIOUS
        <5>4. Len(FilesIn(call.names)) # 1
          BY <4>5, <5>2, <5>3
        <5>5. Counts(r, call) = SetOf(call.names)
          BY <4>5, <5>4 DEF Counts
        <5>6. QED
          BY <4>1, <5>5
      <4>6. QED
        BY <3>3, <3>4, <4>1, <4>2, <4>3, <4>4, <4>5 DEF Kinds
    <3>7. QED
      BY <3>6 DEF Took
  <2>5. Contents[f] \subseteq taken[r]
    BY <2>2, <2>4
  <2>6. QED
    BY <2>2, <2>5 DEF FreedInv
<1>2. RInv => (CountsAll(program) => FreedWhenTaken)
  BY <1>1 DEF FreedWhenTaken
<1>3. QED
  BY <1>2, AlwaysRInv, PTL

\* auto_mem_delete frees no buffer with a tensor in it that its owner was never
\* given, whatever the program: every name a rank counts is one of a call it
\* has returned from, and not of an iteration.
THEOREM NotFreedTooSoon == Spec => []KeptUntilTaken
<1>1. ASSUME RInv, NEW f \in SetOf(Files), buffer[f] = "freed",
             phase[Owner[f]] # "closed"
      PROVE  AllGiven(f)
  <2> DEFINE r == Owner[f]
             k == step[r] - 1
  <2>1. r \in Ranks
    BY FileFacts
  <2>2. /\ program \in Programs /\ step[r] \in 1 .. Len(program) + 1
        /\ taken[r] = Took(r, program, k) /\ FreedInv
    BY <1>1, <2>1 DEF RInv, HostTypes, TakenInv
  <2>3. Len(program) \in Nat
    BY <2>2, ProgramAssumption
  <2>4. Contents[f] \subseteq Took(r, program, k)
    BY <1>1, <2>2 DEF FreedInv
  <2>5. ASSUME NEW t \in Contents[f] PROVE Given(r, t)
    <3>1. PICK j \in 1 .. k : t \in Counts(r, program[j])
      BY <2>4, <2>5 DEF Took
    <3>2. j \in 1 .. Len(program)
      BY <2>2, <2>3
    <3> DEFINE call == program[j]
    <3>3. call.kind \in Kinds /\ call.names[1] \in SetOf(call.names)
      BY <2>2, <3>2, CallFacts
    <3>4. call.kind # "iter" /\ t \in SetOf(call.names)
      <4> HIDE DEF call
      <4>1. t \in Counts(r, call)
        BY <3>1 DEF call
      <4>2. QED
        BY <3>3, <4>1 DEF Counts, Kinds
    <3>5. QED
      BY <3>4 DEF Given
  <2>6. QED
    BY <2>5 DEF AllGiven
<1>2. RInv => KeptUntilTaken
  BY <1>1 DEF KeptUntilTaken
<1>3. QED
  BY <1>2, AlwaysRInv, PTL

=============================================================================
