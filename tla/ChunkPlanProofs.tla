-------------------------- MODULE ChunkPlanProofs --------------------------
(***************************************************************************)
(* Facts of what ChunkPlan computes, for every file: sums of sizes, the    *)
(* pieces a file is cut into and the ranges they read, the statistics of   *)
(* the files with what they are charged, fit_queue_size as the inverse of  *)
(* plan_file_budgets (src/fastsafetensors/_planner.py:354-363), and the    *)
(* experts of the ranks.                                                   *)
(***************************************************************************)
EXTENDS ChunkPlan, FiniteSetTheorems, SequenceTheorems,
        WellFoundedInduction, TLAPS

-----------------------------------------------------------------------------
(* Recursive functions over the naturals.                                  *)

\* A set of numbers that is not empty has a least one: < is well-founded.
LEMMA LeastNumber ==
  ASSUME NEW S \in SUBSET Nat, S # {}
  PROVE  \E x \in S : \A y \in S : x <= y
<1>1. \A y, z \in Nat : y < z => <<y, z>> \in OpToRel(<, Nat)
  BY Zenon DEF OpToRel
<1>2. \E x \in S : \A y \in S : ~(<<y, x>> \in OpToRel(<, Nat))
  BY NatLessThanWellFounded, WFMin
<1>3. \E x \in S : \A y \in S : ~(y < x)
  BY <1>1, <1>2, Zenon
<1>4. QED
  BY <1>3

\* Induction up to n, about the numbers for which something holds.
LEMMA Induction ==
  ASSUME NEW n \in Nat, NEW B \in SUBSET (0 .. n), 0 \in B,
         \A k \in 1 .. n : k - 1 \in B => k \in B
  PROVE  B = 0 .. n
<1> DEFINE Bad == (0 .. n) \ B
<1>1. SUFFICES ASSUME Bad # {} PROVE FALSE
  OBVIOUS
<1>2. PICK x \in Bad : \A y \in Bad : x <= y
  <2>1. Bad \in SUBSET Nat
    OBVIOUS
  <2> HIDE DEF Bad
  <2>2. QED
    BY <1>1, <2>1, LeastNumber
<1>3. x # 0 /\ x \in 1 .. n /\ x - 1 \in 0 .. n /\ ~(x <= x - 1)
  BY <1>2
<1>4. QED
  BY <1>2, <1>3

\* f has the values, in V, of the recursion with the steps g from v to n.
Follows(f, V, v, n, g) ==
    /\ f \in [0 .. n -> V]
    /\ \A k \in 0 .. n : f[k] = IF k = 0 THEN v ELSE g[<<f[k - 1], k>>]

\* A recursive function whose steps stay in V has a value.
LEMMA Recursion ==
  ASSUME NEW V, NEW v \in V, NEW n \in Nat, NEW g \in [V \X (1 .. n) -> V]
  PROVE  \E f : Follows(f, V, v, n, g)
<1> DEFINE Good(f, m) == \A k \in 0 .. m : f[k] = IF k = 0 THEN v ELSE g[<<f[k - 1], k>>]
           B == {m \in 0 .. n : \E f \in [0 .. m -> V] : Good(f, m)}
<1>1. 0 \in B
  <2> DEFINE z == [k \in 0 .. 0 |-> v]
  <2>1. z \in [0 .. 0 -> V] /\ Good(z, 0)
    OBVIOUS
  <2> HIDE DEF z, Good
  <2>2. QED
    BY <2>1
<1>2. ASSUME NEW m \in 1 .. n, m - 1 \in B PROVE m \in B
  <2>1. PICK f \in [0 .. m - 1 -> V] : Good(f, m - 1)
    BY <1>2
  <2>2. m - 1 \in 0 .. m - 1 /\ m \in 0 .. n /\ m # 0 /\ ~(m <= m - 1)
    OBVIOUS
  <2>3. f[m - 1] \in V /\ <<f[m - 1], m>> \in V \X (1 .. n)
    BY <2>1, <2>2
  <2> DEFINE h == [k \in 0 .. m |-> IF k = m THEN g[<<f[m - 1], m>>] ELSE f[k]]
  <2>4. \A k \in 0 .. m : k = m \/ k \in 0 .. m - 1
    OBVIOUS
  <2>5. h \in [0 .. m -> V]
    BY <2>1, <2>3, <2>4
  <2>6. h[m] = g[<<f[m - 1], m>>] /\ \A k \in 0 .. m - 1 : h[k] = f[k]
    BY <2>2
  <2> HIDE DEF h
  <2>7. ASSUME NEW k \in 0 .. m PROVE h[k] = IF k = 0 THEN v ELSE g[<<h[k - 1], k>>]
    <3>1. CASE k = m
      BY <2>2, <2>6, <3>1
    <3>2. CASE k \in 0 .. m - 1
      <4>1. k = 0 \/ k - 1 \in 0 .. m - 1
        BY <3>2
      <4>2. f[k] = IF k = 0 THEN v ELSE g[<<f[k - 1], k>>]
        BY <2>1, <3>2
      <4>3. QED
        BY <2>6, <3>2, <4>1, <4>2
    <3>3. QED
      BY <2>4, <3>1, <3>2
  <2>8. QED
    BY <2>2, <2>5, <2>7
<1>3. B = 0 .. n
  <2> HIDE DEF Good
  <2>1. QED
    BY <1>1, <1>2, Induction
<1>4. n \in B
  BY SMTT(30), <1>3
<1>5. QED
  BY <1>4 DEF Follows

-----------------------------------------------------------------------------
(* Sums.                                                                   *)

\* A function from 1 .. n is a sequence of length n.
LEMMA SeqOfFun ==
  ASSUME NEW T, NEW n \in Nat, NEW f \in [1 .. n -> T]
  PROVE  f \in Seq(T) /\ Len(f) = n
OBVIOUS

\* The sums of the first numbers follow one another.
LEMMA SumFacts ==
  ASSUME NEW s \in Seq(Nat)
  PROVE  /\ SumTo(s, 0) = 0
         /\ \A k \in 1 .. Len(s) : SumTo(s, k) = SumTo(s, k - 1) + s[k]
         /\ \A k \in 0 .. Len(s) : SumTo(s, k) \in Nat
<1> DEFINE n == Len(s)
           g == [x \in Nat \X (1 .. n) |-> x[1] + s[x[2]]]
           P(U) == U = [k \in 0 .. n |-> IF k = 0 THEN 0 ELSE U[k - 1] + s[k]]
           W == CHOOSE U : P(U)
<1>1. n \in Nat /\ 0 \in 0 .. n /\ \A k \in 1 .. n : s[k] \in Nat
  OBVIOUS
<1>2. \A x \in Nat, k \in 1 .. n : g[<<x, k>>] = x + s[k]
  OBVIOUS
<1>3. g \in [Nat \X (1 .. n) -> Nat]
  BY <1>1
<1>4. \A k : SumTo(s, k) = W[k]
  BY DEF SumTo
<1> HIDE DEF g
<1>5. PICK f : Follows(f, Nat, 0, n, g)
  <2> HIDE DEF n
  <2>1. QED
    BY <1>1, <1>3, Recursion
<1> HIDE DEF n
<1>6. \A k \in 0 .. n : f[k] \in Nat
  BY <1>5 DEF Follows
<1>7. \A k \in 0 .. n : k # 0 => k \in 1 .. n /\ k - 1 \in 0 .. n
  BY <1>1
<1>8. P(f)
  <2>1. \A k \in 0 .. n : f[k] = IF k = 0 THEN 0 ELSE f[k - 1] + s[k]
    BY <1>2, <1>5, <1>6, <1>7 DEF Follows
  <2>2. f = [k \in 0 .. n |-> f[k]]
    BY <1>5 DEF Follows
  <2>3. QED
    BY <2>1, <2>2
<1>9. P(W)
  <2> HIDE DEF P
  <2>1. QED
    BY <1>8
<1> HIDE DEF W
<1>10. \A k \in 0 .. n : W[k] = IF k = 0 THEN 0 ELSE W[k - 1] + s[k]
  BY <1>9
<1>11. /\ W[0] = 0
       /\ \A k \in 1 .. n : k \in 0 .. n /\ W[k] = W[k - 1] + s[k]
  BY <1>1, <1>10
<1> HIDE DEF P
<1> DEFINE B == {k \in 0 .. n : W[k] \in Nat}
<1>12. B = 0 .. n
  <2>1. 0 \in B
    BY <1>1, <1>11
  <2>2. \A k \in 1 .. n : k - 1 \in B => k \in B
    BY <1>1, <1>11
  <2>3. QED
    BY <1>1, <2>1, <2>2, Induction
<1>13. QED
  BY <1>4, <1>11, <1>12 DEF n

\* No sum is less than that of fewer numbers.
LEMMA SumMonotone ==
  ASSUME NEW s \in Seq(Nat), NEW n \in 0 .. Len(s), NEW m \in 0 .. n
  PROVE  SumTo(s, m) <= SumTo(s, n)
<1> DEFINE B == {k \in 0 .. n : m <= k => SumTo(s, m) <= SumTo(s, k)}
<1>1. n \in Nat /\ m \in Nat /\ \A k \in 0 .. n : k \in 0 .. Len(s)
  OBVIOUS
<1>2. \A k \in 0 .. n : SumTo(s, k) \in Nat
  BY <1>1, SumFacts
<1>3. 0 \in B
  <2>1. m <= 0 => m = 0
    BY <1>1
  <2>2. QED
    BY <1>1, <1>2, <2>1
<1>4. ASSUME NEW k \in 1 .. n, k - 1 \in B PROVE k \in B
  <2>1. /\ k \in 0 .. n /\ k - 1 \in 0 .. n /\ k \in 1 .. Len(s)
        /\ m <= k => m = k \/ m <= k - 1
    BY <1>1
  <2>2. SumTo(s, k) = SumTo(s, k - 1) + s[k] /\ s[k] \in Nat
    BY <2>1, SumFacts
  <2>3. SumTo(s, k - 1) <= SumTo(s, k)
    BY <1>2, <2>1, <2>2
  <2>4. m <= k - 1 => SumTo(s, m) <= SumTo(s, k - 1)
    BY <1>4
  <2>5. SumTo(s, m) \in Nat /\ SumTo(s, k - 1) \in Nat /\ SumTo(s, k) \in Nat
    BY <1>1, <1>2, <2>1
  <2>6. m <= k => SumTo(s, m) <= SumTo(s, k)
    <3>1. CASE m = k
      BY <2>5, <3>1
    <3>2. CASE m <= k - 1
      BY <2>3, <2>4, <2>5, <3>2
    <3>3. QED
      BY <2>1, <3>1, <3>2
  <2>7. QED
    BY <2>1, <2>6
<1>5. B = 0 .. n
  BY <1>1, <1>3, <1>4, Induction
<1>6. QED
  BY <1>1, <1>5

\* Sums of numbers one of which is never less than the other
LEMMA SumOrdered ==
  ASSUME NEW s \in Seq(Nat), NEW t \in Seq(Nat), NEW n \in 0 .. Len(s), n <= Len(t),
         \A k \in 1 .. n : s[k] <= t[k]
  PROVE  /\ SumTo(s, n) <= SumTo(t, n)
         /\ (\E k \in 1 .. n : s[k] # t[k]) => SumTo(s, n) < SumTo(t, n)
<1> DEFINE B == {k \in 0 .. n : /\ SumTo(s, k) <= SumTo(t, k)
                                /\ (\E j \in 1 .. k : s[j] # t[j]) =>
                                      SumTo(s, k) < SumTo(t, k)}
<1>1. n \in Nat /\ n \in 0 .. n /\ \A k \in 0 .. n : k \in 0 .. Len(s) /\ k \in 0 .. Len(t)
  OBVIOUS
<1>2. 0 \in B
  BY SumFacts
<1>3. ASSUME NEW k \in 1 .. n, k - 1 \in B PROVE k \in B
  <2>1. /\ k \in 0 .. n /\ k - 1 \in 0 .. n /\ k \in 1 .. Len(s) /\ k \in 1 .. Len(t)
        /\ \A j \in 1 .. k : j = k \/ j \in 1 .. k - 1
    BY <1>1
  <2>2. /\ SumTo(s, k) = SumTo(s, k - 1) + s[k] /\ s[k] \in Nat
        /\ SumTo(t, k) = SumTo(t, k - 1) + t[k] /\ t[k] \in Nat
    <3>1. SumTo(s, k) = SumTo(s, k - 1) + s[k]
      BY <2>1, SumFacts
    <3>2. SumTo(t, k) = SumTo(t, k - 1) + t[k]
      BY <2>1, SumFacts
    <3>3. QED
      BY <2>1, <3>1, <3>2
  <2>3. SumTo(s, k - 1) \in Nat /\ SumTo(t, k - 1) \in Nat
    BY <1>1, <2>1, SumFacts
  <2>4. s[k] <= t[k] /\ SumTo(s, k - 1) <= SumTo(t, k - 1)
    BY <1>3
  <2> HIDE DEF B
  <2>5. SumTo(s, k) <= SumTo(t, k)
    <3>1. \A a, b, c, d \in Nat : a <= c /\ b <= d => a + b <= c + d
      OBVIOUS
    <3>2. QED
      BY <2>2, <2>3, <2>4, <3>1
  <2>6. ASSUME NEW j \in 1 .. k, s[j] # t[j] PROVE SumTo(s, k) < SumTo(t, k)
    <3>1. CASE j = k
      <4>1. \A a, b, c, d \in Nat : a <= c /\ b <= d /\ b # d => a + b < c + d
        OBVIOUS
      <4>2. QED
        BY <2>2, <2>3, <2>4, <2>6, <3>1, <4>1
    <3>2. CASE j \in 1 .. k - 1
      <4>1. SumTo(s, k - 1) < SumTo(t, k - 1)
        BY <1>3, <2>6, <3>2 DEF B
      <4>2. \A a, b, c, d \in Nat : a < c /\ b <= d => a + b < c + d
        OBVIOUS
      <4>3. QED
        BY <2>2, <2>3, <2>4, <4>1, <4>2
    <3>3. QED
      BY <2>1, <3>1, <3>2
  <2>7. QED
    BY <2>1, <2>5, <2>6 DEF B
<1>4. B = 0 .. n
  BY <1>1, <1>2, <1>3, Induction
<1>5. n \in B
  BY <1>1, <1>4
<1>6. QED
  BY <1>5

\* Sums of the same numbers
LEMMA SumSame ==
  ASSUME NEW s \in Seq(Nat), NEW t \in Seq(Nat), NEW n \in 0 .. Len(s), n <= Len(t),
         \A k \in 1 .. n : s[k] = t[k]
  PROVE  SumTo(s, n) = SumTo(t, n)
<1>1. n \in 0 .. Len(t) /\ \A k \in 1 .. n : k \in 1 .. Len(s) /\ k \in 1 .. Len(t)
  OBVIOUS
<1>2. \A k \in 1 .. n : s[k] \in Nat /\ s[k] <= t[k] /\ t[k] <= s[k]
  BY <1>1
<1>3. n <= Len(s)
  OBVIOUS
<1>4. SumTo(s, n) <= SumTo(t, n) /\ SumTo(t, n) <= SumTo(s, n)
  BY <1>1, <1>2, <1>3, SumOrdered
<1>5. SumTo(s, n) \in Nat /\ SumTo(t, n) \in Nat
  BY <1>1, SumFacts
<1>6. QED
  BY <1>4, <1>5

\* A number is no more than a sum that has it.
LEMMA SumHas ==
  ASSUME NEW s \in Seq(Nat), NEW n \in 0 .. Len(s), NEW k \in 1 .. n
  PROVE  s[k] <= SumTo(s, n)
<1>1. k \in 1 .. Len(s) /\ k \in 0 .. n /\ k - 1 \in 0 .. Len(s) /\ k \in 0 .. Len(s)
  OBVIOUS
<1>2. /\ SumTo(s, k) = SumTo(s, k - 1) + s[k] /\ SumTo(s, k - 1) \in Nat
      /\ s[k] \in Nat /\ SumTo(s, n) \in Nat /\ SumTo(s, k) \in Nat
  BY <1>1, SumFacts
<1>3. SumTo(s, k) <= SumTo(s, n)
  BY <1>1, SumMonotone
<1>4. QED
  BY <1>2, <1>3

\* Numbers that are nothing add nothing.
LEMMA SumNothing ==
  ASSUME NEW s \in Seq(Nat), NEW m \in 0 .. Len(s), NEW n \in m .. Len(s),
         \A k \in m + 1 .. n : s[k] = 0
  PROVE  SumTo(s, n) = SumTo(s, m)
<1> DEFINE B == {k \in 0 .. n : m <= k => SumTo(s, k) = SumTo(s, m)}
<1>1. n \in Nat /\ m \in Nat /\ m <= n /\ \A k \in 0 .. n : k \in 0 .. Len(s)
  OBVIOUS
<1>2. 0 \in B
  <2>1. m <= 0 => m = 0
    BY <1>1
  <2>2. QED
    BY <1>1, <2>1
<1>3. ASSUME NEW k \in 1 .. n, k - 1 \in B PROVE k \in B
  <2>1. /\ k \in 0 .. n /\ k - 1 \in 0 .. n /\ k \in 1 .. Len(s)
        /\ m <= k => m = k \/ (m <= k - 1 /\ k \in m + 1 .. n)
    <3>1. k \in 0 .. n /\ k - 1 \in 0 .. n /\ k \in 1 .. Len(s)
      BY <1>1
    <3>2. m <= k => m = k \/ m + 1 <= k
      BY <1>1
    <3>3. QED
      BY <1>1, <3>1, <3>2
  <2>2. SumTo(s, k) = SumTo(s, k - 1) + s[k] /\ SumTo(s, k - 1) \in Nat
    BY <1>1, <2>1, SumFacts
  <2>3. CASE m <= k - 1 /\ k \in m + 1 .. n
    <3>1. s[k] = 0 /\ SumTo(s, k - 1) = SumTo(s, m)
      BY <1>3, <2>3
    <3>2. QED
      BY <2>1, <2>2, <3>1
  <2>4. QED
    BY <2>1, <2>3
<1>4. B = 0 .. n
  BY <1>1, <1>2, <1>3, Induction
<1>5. n \in B
  BY <1>1, <1>4
<1>6. QED
  BY <1>1, <1>5

\* The sum of sums, number by number
LEMMA SumAdded ==
  ASSUME NEW s \in Seq(Nat), NEW t \in Seq(Nat), NEW u \in Seq(Nat), NEW n \in Nat,
         n <= Len(s), n <= Len(t), n <= Len(u),
         \A k \in 1 .. n : u[k] = s[k] + t[k]
  PROVE  SumTo(u, n) = SumTo(s, n) + SumTo(t, n)
<1> DEFINE B == {k \in 0 .. n : SumTo(u, k) = SumTo(s, k) + SumTo(t, k)}
<1>1. \A k \in 0 .. n : k \in 0 .. Len(s) /\ k \in 0 .. Len(t) /\ k \in 0 .. Len(u)
  OBVIOUS
<1>2. \A k \in 0 .. n : SumTo(s, k) \in Nat /\ SumTo(t, k) \in Nat
  BY <1>1, SumFacts
<1>3. 0 \in B
  <2>1. SumTo(u, 0) = 0 /\ SumTo(s, 0) = 0 /\ SumTo(t, 0) = 0 /\ 0 \in 0 .. n
    BY SumFacts
  <2>2. QED
    BY <2>1
<1>4. ASSUME NEW k \in 1 .. n, k - 1 \in B PROVE k \in B
  <2>1. /\ k \in 0 .. n /\ k - 1 \in 0 .. n
        /\ k \in 1 .. Len(s) /\ k \in 1 .. Len(t) /\ k \in 1 .. Len(u)
    BY <1>1
  <2>2. SumTo(s, k) = SumTo(s, k - 1) + s[k]
    BY <2>1, SumFacts
  <2>3. SumTo(t, k) = SumTo(t, k - 1) + t[k]
    BY <2>1, SumFacts
  <2>4. SumTo(u, k) = SumTo(u, k - 1) + u[k]
    BY <2>1, SumFacts
  <2>5. /\ SumTo(u, k - 1) = SumTo(s, k - 1) + SumTo(t, k - 1)
        /\ u[k] = s[k] + t[k] /\ s[k] \in Nat /\ t[k] \in Nat
        /\ SumTo(s, k - 1) \in Nat /\ SumTo(t, k - 1) \in Nat
    <3>1. SumTo(u, k - 1) = SumTo(s, k - 1) + SumTo(t, k - 1)
      BY <1>4
    <3> HIDE DEF B
    <3>2. u[k] = s[k] + t[k] /\ s[k] \in Nat /\ t[k] \in Nat
      <4>1. \A j \in 1 .. Len(s) : s[j] \in Nat
        OBVIOUS
      <4>2. \A j \in 1 .. Len(t) : t[j] \in Nat
        OBVIOUS
      <4>3. QED
        BY <2>1, <4>1, <4>2
    <3>3. SumTo(s, k - 1) \in Nat /\ SumTo(t, k - 1) \in Nat
      BY <1>2, <2>1
    <3>4. QED
      BY <3>1, <3>2, <3>3
  <2> HIDE DEF B

  <2>7. SumTo(u, k) = SumTo(s, k) + SumTo(t, k)
    <3> DEFINE a == SumTo(s, k - 1)
               b == SumTo(t, k - 1)
               c == s[k]
               d == t[k]
    <3>1. a \in Nat /\ b \in Nat /\ c \in Nat /\ d \in Nat
      BY <2>5
    <3>2. SumTo(u, k) = (a + b) + (c + d)
      BY <2>4, <2>5
    <3>3. SumTo(s, k) = a + c /\ SumTo(t, k) = b + d
      BY <2>2, <2>3
    <3> HIDE DEF a, b, c, d
    <3>4. (a + b) + (c + d) = (a + c) + (b + d)
      BY <3>1
    <3>5. QED
      BY <3>2, <3>3, <3>4
  <2>8. QED
    BY <2>1, <2>7 DEF B
<1>5. B = 0 .. n
  BY <1>3, <1>4, Induction
<1>6. n \in B
  BY SMTT(30), <1>5
<1>7. QED
  BY <1>6

\* A table has one sum, by rows or by columns.
LEMMA SumSwapped ==
  ASSUME NEW m \in Nat, NEW n \in Nat, NEW f \in [1 .. m -> [1 .. n -> Nat]]
  PROVE  Total([j \in 1 .. m |-> Total(f[j])])
           = Total([r \in 1 .. n |-> Total([j \in 1 .. m |-> f[j][r]])])
<1> DEFINE rows == [j \in 1 .. m |-> Total(f[j])]
           col(r) == [j \in 1 .. m |-> f[j][r]]
           part(k) == [r \in 1 .. n |-> SumTo(col(r), k)]
           B == {k \in 0 .. m : SumTo(rows, k) = Total(part(k))}
<1>1. \A j \in 1 .. m : f[j] \in Seq(Nat) /\ Len(f[j]) = n /\ Total(f[j]) \in Nat
  <2>1. \A j \in 1 .. m : f[j] \in [1 .. n -> Nat]
    OBVIOUS
  <2>2. \A j \in 1 .. m : f[j] \in Seq(Nat) /\ Len(f[j]) = n
    BY <2>1, SeqOfFun
  <2>3. n \in 0 .. n
    OBVIOUS
  <2>4. QED
    BY <2>2, <2>3, SumFacts DEF Total
<1>2. rows \in Seq(Nat) /\ Len(rows) = m
  <2>1. rows \in [1 .. m -> Nat]
    BY <1>1
  <2> HIDE DEF rows
  <2>2. QED
    BY <2>1, SeqOfFun
<1>3. \A r \in 1 .. n : col(r) \in Seq(Nat) /\ Len(col(r)) = m
  <2> TAKE r \in 1 .. n
  <2>1. col(r) \in [1 .. m -> Nat]
    OBVIOUS
  <2> HIDE DEF col
  <2>2. QED
    BY <2>1, SeqOfFun
<1>4. \A j \in 1 .. m : rows[j] = Total(f[j])
  OBVIOUS
<1>5. \A r \in 1 .. n : \A j \in 1 .. m : col(r)[j] = f[j][r]
  OBVIOUS
<1> HIDE DEF rows, col
<1>6. \A k \in 0 .. m : part(k) \in Seq(Nat) /\ Len(part(k)) = n
  <2> TAKE k \in 0 .. m
  <2>1. \A r \in 1 .. n : SumTo(col(r), k) \in Nat
    BY <1>3, SumFacts
  <2>2. part(k) \in [1 .. n -> Nat]
    BY <2>1
  <2> HIDE DEF part
  <2>3. QED
    BY <2>2, SeqOfFun
<1>7. \A k \in 0 .. m : \A r \in 1 .. n : part(k)[r] = SumTo(col(r), k)
  OBVIOUS
<1> HIDE DEF part
<1>8. 0 \in B
  <2>1. 0 \in 0 .. m /\ n \in 0 .. n /\ 0 \in 0 .. n
    OBVIOUS
  <2>2. \A r \in 1 .. n : part(0)[r] = 0
    BY <1>3, <1>7, <2>1, SumFacts
  <2>3. part(0) \in Seq(Nat) /\ Len(part(0)) = n
    BY <1>6, <2>1
  <2>4. \A r \in 0 + 1 .. n : part(0)[r] = 0
    BY <2>2
  <2>5. n \in 0 .. Len(part(0)) /\ 0 \in 0 .. Len(part(0))
    BY <2>3
  <2>6. SumTo(part(0), n) = SumTo(part(0), 0)
    BY <2>3, <2>4, <2>5, SumNothing
  <2>7. SumTo(part(0), 0) = 0 /\ SumTo(rows, 0) = 0
    BY <1>2, <2>3, SumFacts
  <2>8. QED
    BY <2>1, <2>3, <2>6, <2>7 DEF Total
<1>9. ASSUME NEW k \in 1 .. m, k - 1 \in B PROVE k \in B
  <2>1. k \in 0 .. m /\ k - 1 \in 0 .. m
    OBVIOUS
  <2>2. SumTo(rows, k) = SumTo(rows, k - 1) + rows[k]
    BY <1>2, SumFacts
  <2>3. ASSUME NEW r \in 1 .. n PROVE part(k)[r] = part(k - 1)[r] + f[k][r]
    <3>1. SumTo(col(r), k) = SumTo(col(r), k - 1) + col(r)[k]
      BY <1>3, SumFacts
    <3>2. QED
      BY <1>5, <1>7, <2>1, <3>1
  <2>4. /\ part(k) \in Seq(Nat) /\ Len(part(k)) = n
        /\ part(k - 1) \in Seq(Nat) /\ Len(part(k - 1)) = n
        /\ f[k] \in Seq(Nat) /\ Len(f[k]) = n
    BY <1>1, <1>6, <2>1
  <2>5. SumTo(part(k), n) = SumTo(part(k - 1), n) + SumTo(f[k], n)
    <3>1. n <= n
      OBVIOUS
    <3>2. QED
      BY <2>3, <2>4, <3>1, SumAdded
  <2>6. SumTo(rows, k - 1) = Total(part(k - 1))
    BY <1>9
  <2>7. QED
    BY <1>4, <2>1, <2>2, <2>4, <2>5, <2>6 DEF Total
<1>10. B = 0 .. m
  BY <1>8, <1>9, Induction
<1>11. SumTo(rows, m) = Total(part(m))
  <2>1. m \in B
    BY <1>10
  <2>2. QED
    BY <2>1
<1>12. part(m) = [r \in 1 .. n |-> Total([j \in 1 .. m |-> f[j][r]])]
  <2>1. \A r \in 1 .. n : SumTo(col(r), m) = Total(col(r))
    BY <1>3 DEF Total
  <2>2. QED
    BY <2>1 DEF part, col
<1>13. Total(rows) = SumTo(rows, m)
  BY <1>2 DEF Total
<1>14. QED
  BY <1>11, <1>12, <1>13 DEF rows

-----------------------------------------------------------------------------
(* Sequences in a sequence, one after the other.                           *)

JoinedTo(ss, n) ==
    LET Upto[k \in 0 .. Len(ss)] == IF k = 0 THEN <<>> ELSE Upto[k - 1] \o ss[k]
    IN  Upto[n]

\* The first of them are joined one by one.
LEMMA JoinFacts ==
  ASSUME NEW T, NEW ss \in Seq(Seq(T))
  PROVE  /\ Joined(ss) = JoinedTo(ss, Len(ss))
         /\ JoinedTo(ss, 0) = <<>>
         /\ \A k \in 1 .. Len(ss) : JoinedTo(ss, k) = JoinedTo(ss, k - 1) \o ss[k]
         /\ \A k \in 0 .. Len(ss) : JoinedTo(ss, k) \in Seq(T)
<1> DEFINE n == Len(ss)
           V == Seq(T)
           v == <<>>
           g == [x \in V \X (1 .. n) |-> x[1] \o ss[x[2]]]
           P(U) == U = [k \in 0 .. n |-> IF k = 0 THEN <<>> ELSE U[k - 1] \o ss[k]]
           W == CHOOSE U : P(U)
<1>1. n \in Nat /\ 0 \in 0 .. n /\ v \in V /\ \A k \in 1 .. n : ss[k] \in V
  OBVIOUS
<1>2. \A q \in V, k \in 1 .. n : q \o ss[k] \in V
  BY <1>1
<1>3. \A q \in V, k \in 1 .. n : g[<<q, k>>] = q \o ss[k]
  OBVIOUS
<1>4. g \in [V \X (1 .. n) -> V]
  <2> HIDE DEF V, n
  <2>1. QED
    BY <1>2
<1>5. \A k : JoinedTo(ss, k) = W[k]
  BY DEF JoinedTo
<1>6. Joined(ss) = JoinedTo(ss, Len(ss))
  BY DEF Joined, JoinedTo
<1> HIDE DEF g, V
<1>7. PICK f : Follows(f, V, v, n, g)
  <2> HIDE DEF n, v
  <2>1. QED
    BY <1>1, <1>4, Recursion
<1> HIDE DEF n
<1>8. \A k \in 0 .. n : f[k] \in V
  BY <1>7 DEF Follows
<1>9. \A k \in 0 .. n : k # 0 => k \in 1 .. n /\ k - 1 \in 0 .. n
  BY <1>1
<1>10. P(f)
  <2>1. \A k \in 0 .. n : f[k] = IF k = 0 THEN <<>> ELSE f[k - 1] \o ss[k]
    BY <1>3, <1>7, <1>8, <1>9 DEF Follows
  <2>2. f = [k \in 0 .. n |-> f[k]]
    BY <1>7 DEF Follows
  <2>3. QED
    BY <2>1, <2>2
<1>11. P(W)
  <2> HIDE DEF P
  <2>1. QED
    BY <1>10
<1> HIDE DEF W
<1>12. \A k \in 0 .. n : W[k] = IF k = 0 THEN <<>> ELSE W[k - 1] \o ss[k]
  BY <1>11
<1>13. /\ W[0] = <<>>
       /\ \A k \in 1 .. n : k \in 0 .. n /\ W[k] = W[k - 1] \o ss[k]
  <2>1. \A k \in 1 .. n : k \in 0 .. n /\ k # 0
    BY <1>1
  <2>2. QED
    BY <1>1, <1>12, <2>1
<1> HIDE DEF P
<1> DEFINE B == {k \in 0 .. n : W[k] \in V}
<1>14. B = 0 .. n
  <2>1. 0 \in B
    BY <1>1, <1>13
  <2>2. \A k \in 1 .. n : k - 1 \in B => k \in B
    BY <1>2, <1>13
  <2>3. QED
    BY <1>1, <2>1, <2>2, Induction
<1>15. QED
  BY <1>5, <1>6, <1>13, <1>14 DEF n, V

\* Where an element comes from
LEMMA JoinedAt ==
  ASSUME NEW T, NEW ss \in Seq(Seq(T)), NEW n \in 0 .. Len(ss),
         NEW b \in 1 .. Len(JoinedTo(ss, n))
  PROVE  \E i \in 1 .. n :
            /\ b - Len(JoinedTo(ss, i - 1)) \in 1 .. Len(ss[i])
            /\ JoinedTo(ss, n)[b] = ss[i][b - Len(JoinedTo(ss, i - 1))]
<1> DEFINE At(k, c, i) == /\ c - Len(JoinedTo(ss, i - 1)) \in 1 .. Len(ss[i])
                          /\ JoinedTo(ss, k)[c] = ss[i][c - Len(JoinedTo(ss, i - 1))]
           B == {k \in 0 .. n : \A c \in 1 .. Len(JoinedTo(ss, k)) :
                                  \E i \in 1 .. k : At(k, c, i)}
<1>1. n \in Nat /\ \A k \in 0 .. n : k \in 0 .. Len(ss) /\ JoinedTo(ss, k) \in Seq(T)
  <2>1. n \in Nat /\ \A k \in 0 .. n : k \in 0 .. Len(ss)
    OBVIOUS
  <2>2. QED
    BY <2>1, JoinFacts
<1>2. 0 \in B
  <2>1. JoinedTo(ss, 0) = <<>>
    BY JoinFacts
  <2>2. 1 .. Len(JoinedTo(ss, 0)) = {}
    BY <2>1
  <2> HIDE DEF At
  <2>3. 0 \in 0 .. n
    BY <1>1
  <2>4. QED
    BY <2>2, <2>3
<1>3. ASSUME NEW k \in 1 .. n, k - 1 \in B PROVE k \in B
  <2>1. /\ k \in 0 .. n /\ k - 1 \in 0 .. n /\ k \in 1 .. Len(ss) /\ k \in 1 .. k
        /\ ss[k] \in Seq(T) /\ 1 .. k - 1 \subseteq 1 .. k
    BY <1>1
  <2>2. JoinedTo(ss, k) = JoinedTo(ss, k - 1) \o ss[k]
    BY <2>1, JoinFacts
  <2> DEFINE old == JoinedTo(ss, k - 1)
             new == JoinedTo(ss, k)
  <2>3. old \in Seq(T) /\ ss[k] \in Seq(T) /\ new = old \o ss[k]
    BY <1>1, <2>1, <2>2
  <2>4. ASSUME NEW c \in 1 .. Len(new) PROVE \E i \in 1 .. k : At(k, c, i)
    <3> HIDE DEF old, new
    <3>1. CASE c <= Len(old)
      <4>1. c \in 1 .. Len(old) /\ new[c] = old[c]
        BY <2>3, <3>1
      <4>2. PICK i \in 1 .. k - 1 : At(k - 1, c, i)
        BY <1>3, <4>1 DEF old
      <4>3. At(k, c, i)
        BY <4>1, <4>2 DEF old, new
      <4> HIDE DEF At
      <4>4. QED
        BY <2>1, <4>3
    <3>2. CASE ~(c <= Len(old))
      <4>1. c - Len(old) \in 1 .. Len(ss[k]) /\ new[c] = ss[k][c - Len(old)]
        BY <2>3, <3>2
      <4>2. At(k, c, k)
        BY <4>1 DEF old, new
      <4> HIDE DEF At
      <4>3. QED
        BY <2>1, <4>2
    <3>3. QED
      BY <3>1, <3>2
  <2> HIDE DEF At
  <2>5. QED
    BY <2>1, <2>4
<1>4. B = 0 .. n
  <2> HIDE DEF At
  <2>1. QED
    BY <1>1, <1>2, <1>3, Induction
<1> HIDE DEF At
<1>5. n \in 0 .. n
  BY <1>1
<1>6. n \in B
  BY <1>4, <1>5
<1>7. QED
  BY <1>6 DEF At

\* What is joined first stays in its place.
LEMMA JoinedPrefix ==
  ASSUME NEW T, NEW ss \in Seq(Seq(T)), NEW n \in 0 .. Len(ss), NEW m \in 0 .. n
  PROVE  /\ Len(JoinedTo(ss, m)) <= Len(JoinedTo(ss, n))
         /\ \A b \in 1 .. Len(JoinedTo(ss, m)) :
               JoinedTo(ss, n)[b] = JoinedTo(ss, m)[b]
<1> DEFINE Pre(k) == /\ Len(JoinedTo(ss, m)) <= Len(JoinedTo(ss, k))
                     /\ \A b \in 1 .. Len(JoinedTo(ss, m)) :
                           JoinedTo(ss, k)[b] = JoinedTo(ss, m)[b]
           B == {k \in 0 .. n : m <= k => Pre(k)}
<1>1. /\ n \in Nat /\ m \in Nat
      /\ \A k \in 0 .. n : k \in 0 .. Len(ss) /\ JoinedTo(ss, k) \in Seq(T)
  <2>1. n \in Nat /\ m \in Nat /\ \A k \in 0 .. n : k \in 0 .. Len(ss)
    OBVIOUS
  <2>2. QED
    BY <2>1, JoinFacts
<1>2. Pre(m)
  <2>1. JoinedTo(ss, m) \in Seq(T)
    BY <1>1
  <2>2. Len(JoinedTo(ss, m)) \in Nat
    BY <2>1
  <2>3. QED
    BY <2>2
<1>3. 0 \in B
  <2>1. m <= 0 => m = 0
    BY <1>1
  <2> HIDE DEF Pre
  <2>2. QED
    BY <1>1, <1>2, <2>1
<1>4. ASSUME NEW k \in 1 .. n, k - 1 \in B PROVE k \in B
  <2>1. /\ k \in 0 .. n /\ k - 1 \in 0 .. n /\ k \in 1 .. Len(ss)
        /\ ss[k] \in Seq(T)
        /\ m <= k => m = k \/ m <= k - 1
    BY <1>1
  <2>2. JoinedTo(ss, k) = JoinedTo(ss, k - 1) \o ss[k]
    BY <2>1, JoinFacts
  <2>3. ASSUME m <= k - 1 PROVE Pre(k)
    <3>1. Pre(k - 1)
      <4> HIDE DEF Pre
      <4>1. QED
        BY <1>4, <2>3
    <3>2. \A x, y, z : x \in Seq(T) /\ y \in Seq(T) /\ z = x \o y =>
             Len(x) <= Len(z) /\ \A b \in 1 .. Len(x) : z[b] = x[b]
      OBVIOUS
    <3>3. /\ JoinedTo(ss, k - 1) \in Seq(T) /\ JoinedTo(ss, m) \in Seq(T)
          /\ JoinedTo(ss, k) \in Seq(T)
      BY <1>1, <2>1, <2>3
    <3>4. Len(JoinedTo(ss, k - 1)) \in Nat /\ Len(JoinedTo(ss, m)) \in Nat /\ Len(JoinedTo(ss, k)) \in Nat
      BY <3>3
    <3>5. /\ Len(JoinedTo(ss, k - 1)) <= Len(JoinedTo(ss, k))
          /\ \A b \in 1 .. Len(JoinedTo(ss, k - 1)) : JoinedTo(ss, k)[b] = JoinedTo(ss, k - 1)[b]
      BY ZenonT(60), <2>1, <2>2, <3>2, <3>3
    <3>6. \A b \in 1 .. Len(JoinedTo(ss, m)) : b \in 1 .. Len(JoinedTo(ss, k - 1))
      BY <3>1, <3>4
    <3>7. QED
      BY <3>1, <3>4, <3>5, <3>6
  <2> HIDE DEF Pre
  <2>4. QED
    BY <1>2, <2>1, <2>3
<1>5. B = 0 .. n
  <2> HIDE DEF Pre
  <2>1. QED
    BY <1>1, <1>3, <1>4, Induction
<1>6. n \in B
  BY <1>1, <1>5
<1>7. QED
  BY <1>1, <1>6

\* The sum of two sequences
LEMMA SumCat ==
  ASSUME NEW s \in Seq(Nat), NEW t \in Seq(Nat)
  PROVE  Total(s \o t) = Total(s) + Total(t)
<1> DEFINE u == s \o t
           m == Len(s)
           n == Len(t)
           B == {k \in 0 .. n : SumTo(u, m + k) = SumTo(s, m) + SumTo(t, k)}
<1>1. /\ u \in Seq(Nat) /\ Len(u) = m + n /\ m \in Nat /\ n \in Nat
      /\ \A k \in 1 .. m : u[k] = s[k]
      /\ \A k \in 1 .. n : u[m + k] = t[k] /\ t[k] \in Nat
  OBVIOUS
<1>2. m = Len(s) /\ n = Len(t)
  OBVIOUS
<1> HIDE DEF u, m, n
<1>3. SumTo(s, m) \in Nat /\ \A k \in 0 .. n : SumTo(t, k) \in Nat
  <2>1. m \in 0 .. Len(s)
    BY <1>1, <1>2
  <2>2. QED
    BY <1>2, <2>1, SumFacts
<1>4. SumTo(u, m) = SumTo(s, m)
  <2>1. m \in 0 .. Len(u) /\ m <= Len(s)
    BY <1>1, <1>2
  <2>2. QED
    BY <1>1, <2>1, SumSame
<1>5. 0 \in B
  <2>1. SumTo(t, 0) = 0 /\ 0 \in 0 .. n /\ m + 0 = m
    BY <1>1, SumFacts
  <2>2. QED
    BY <1>3, <1>4, <2>1
<1>6. ASSUME NEW k \in 1 .. n, k - 1 \in B PROVE k \in B
  <2>1. /\ k \in 0 .. n /\ k - 1 \in 0 .. n /\ m + k \in 1 .. Len(u)
        /\ (m + k) - 1 = m + (k - 1)
    BY <1>1
  <2>2. SumTo(u, m + k) = SumTo(u, (m + k) - 1) + u[m + k]
    BY <1>1, <2>1, SumFacts
  <2>3. SumTo(t, k) = SumTo(t, k - 1) + t[k]
    BY <1>2, SumFacts
  <2>4. SumTo(u, m + (k - 1)) = SumTo(s, m) + SumTo(t, k - 1)
    BY <1>6
  <2> HIDE DEF B
  <2> DEFINE a == SumTo(s, m)
             b == SumTo(t, k - 1)
             c == t[k]
  <2>5. a \in Nat /\ b \in Nat /\ c \in Nat
    BY <1>1, <1>3, <2>1
  <2>6. SumTo(u, m + k) = (a + b) + c
    BY <1>1, <2>1, <2>2, <2>4
  <2>7. SumTo(t, k) = b + c
    BY <2>3
  <2> HIDE DEF a, b, c
  <2>8. (a + b) + c = a + (b + c)
    BY <2>5
  <2>9. SumTo(u, m + k) = SumTo(s, m) + SumTo(t, k)
    BY <2>6, <2>7, <2>8 DEF a
  <2>10. QED
    BY <2>1, <2>9 DEF B
<1>7. B = 0 .. n
  BY <1>1, <1>5, <1>6, Induction
<1>8. n \in B
  <2>1. n \in 0 .. n
    BY <1>1
  <2>2. QED
    BY <1>7, <2>1
<1>9. Total(u) = SumTo(s, m) + SumTo(t, n)
  BY <1>1, <1>8 DEF Total
<1>10. QED
  BY <1>2, <1>9 DEF Total, u

\* The sum of a part, from the sums of what comes before its ends
LEMMA SumPart ==
  ASSUME NEW s \in Seq(Nat), NEW a \in 0 .. Len(s), NEW b \in a .. Len(s),
         NEW t \in Seq(Nat), Len(t) = b - a, \A k \in 1 .. b - a : t[k] = s[a + k]
  PROVE  /\ \A k \in 0 .. b - a : SumTo(s, a + k) = SumTo(s, a) + SumTo(t, k)
         /\ SumTo(s, b) = SumTo(s, a) + Total(t)
<1> DEFINE n == b - a
           B == {k \in 0 .. n : SumTo(s, a + k) = SumTo(s, a) + SumTo(t, k)}
<1>1. /\ a \in Nat /\ b \in Nat /\ n \in Nat /\ n = Len(t) /\ a + n = b
      /\ \A k \in 1 .. n : t[k] = s[a + k] /\ t[k] \in Nat
      /\ \A k \in 0 .. n : a + k \in 0 .. Len(s)
      /\ \A k \in 1 .. n : /\ a + k \in 1 .. Len(s) /\ (a + k) - 1 = a + (k - 1)
                           /\ k \in 0 .. n /\ k - 1 \in 0 .. n
  BY SMTT(30)
<1> HIDE DEF n
<1>2. SumTo(s, a) \in Nat /\ \A k \in 0 .. n : SumTo(t, k) \in Nat
  BY <1>1, SumFacts
<1>3. 0 \in B
  <2>1. SumTo(t, 0) = 0 /\ 0 \in 0 .. n /\ a + 0 = a
    BY <1>1, SumFacts
  <2>2. QED
    BY <1>2, <2>1
<1>4. ASSUME NEW k \in 1 .. n, k - 1 \in B PROVE k \in B
  <2>1. SumTo(s, a + k) = SumTo(s, (a + k) - 1) + s[a + k]
    BY <1>1, SumFacts
  <2>2. SumTo(t, k) = SumTo(t, k - 1) + t[k]
    BY <1>1, SumFacts
  <2>3. SumTo(s, a + (k - 1)) = SumTo(s, a) + SumTo(t, k - 1)
    BY <1>4
  <2> DEFINE x == SumTo(s, a)
             y == SumTo(t, k - 1)
             z == t[k]
  <2>4. x \in Nat /\ y \in Nat /\ z \in Nat
    BY <1>1, <1>2
  <2>5. SumTo(s, a + k) = (x + y) + z
    BY <1>1, <2>1, <2>3
  <2>6. SumTo(t, k) = y + z
    BY <2>2
  <2> HIDE DEF x, y, z
  <2>7. (x + y) + z = x + (y + z)
    BY <2>4
  <2>8. SumTo(s, a + k) = SumTo(s, a) + SumTo(t, k)
    BY <2>5, <2>6, <2>7 DEF x
  <2>9. QED
    BY <1>1, <2>8
<1>5. B = 0 .. n
  BY <1>1, <1>3, <1>4, Induction
<1>6. \A k \in 0 .. n : SumTo(s, a + k) = SumTo(s, a) + SumTo(t, k)
  BY <1>5
<1>7. n \in 0 .. n
  BY <1>1
<1>8. QED
  BY <1>1, <1>6, <1>7 DEF Total, n

\* c[0], c[1], ..., c[n] are places in 0 .. m, from 0 on, in their order.
Rises(c, n, m) ==
    /\ c \in [0 .. n -> 0 .. m] /\ c[0] = 0
    /\ \A k \in 1 .. n : c[k - 1] <= c[k]

\* The first n of y are the sums of the parts of s that end at c.
SumsOfParts(s, c, y, n) ==
    \A k \in 1 .. n : SumTo(s, c[k]) = SumTo(s, c[k - 1]) + y[k]

\* The sums of the parts add up to the whole.
LEMMA SumParted ==
  ASSUME NEW s \in Seq(Nat), NEW y \in Seq(Nat), NEW n \in 0 .. Len(y),
         NEW c, Rises(c, n, Len(s)), SumsOfParts(s, c, y, n)
  PROVE  SumTo(y, n) = SumTo(s, c[n])
<1> DEFINE B == {k \in 0 .. n : SumTo(y, k) = SumTo(s, c[k])}
<1>1. /\ n \in Nat
      /\ \A k \in 1 .. n : /\ k \in 1 .. Len(y) /\ k \in 0 .. n /\ k - 1 \in 0 .. n
  OBVIOUS
<1>2. 0 \in B
  <2>1. SumTo(y, 0) = 0 /\ SumTo(s, 0) = 0 /\ 0 \in 0 .. n
    BY <1>1, SumFacts
  <2>2. QED
    BY <2>1 DEF Rises
<1>3. ASSUME NEW k \in 1 .. n, k - 1 \in B PROVE k \in B
  <2>1. SumTo(y, k) = SumTo(y, k - 1) + y[k]
    BY <1>1, SumFacts
  <2>2. SumTo(y, k - 1) = SumTo(s, c[k - 1])
    BY <1>3
  <2>3. QED
    BY <1>1, <2>1, <2>2 DEF SumsOfParts
<1>4. B = 0 .. n
  BY <1>1, <1>2, <1>3, Induction
<1>5. n \in B
  <2>1. n \in 0 .. n
    BY <1>1
  <2>2. QED
    BY <1>4, <2>1
<1>6. QED
  BY <1>5

\* The parts, one after the other, are the whole.
LEMMA JoinedParts ==
  ASSUME NEW T, NEW s \in Seq(T), NEW ss \in Seq(Seq(T)), NEW n \in 0 .. Len(ss),
         NEW c, Rises(c, n, Len(s)),
         \A k \in 1 .. n : ss[k] = SubSeq(s, c[k - 1] + 1, c[k])
  PROVE  JoinedTo(ss, n) = SubSeq(s, 1, c[n])
<1> DEFINE B == {k \in 0 .. n : JoinedTo(ss, k) = SubSeq(s, 1, c[k])}
<1>1. /\ n \in Nat
      /\ \A k \in 1 .. n : /\ k \in 1 .. Len(ss) /\ k \in 0 .. n /\ k - 1 \in 0 .. n
      /\ \A k \in 0 .. n : c[k] \in 0 .. Len(s)
  BY DEF Rises
<1>2. 0 \in B
  <2>1. 0 \in 0 .. n /\ c[0] = 0
    BY <1>1 DEF Rises
  <2>4. JoinedTo(ss, 0) = <<>>
    BY JoinFacts
  <2>2. SubSeq(s, 1, 0) = <<>>
    BY SubSeqEmpty
  <2>3. QED
    BY <2>1, <2>2, <2>4
<1>3. ASSUME NEW k \in 1 .. n, k - 1 \in B PROVE k \in B
  <2>1. JoinedTo(ss, k) = JoinedTo(ss, k - 1) \o ss[k]
    BY <1>1, JoinFacts
  <2>2. JoinedTo(ss, k - 1) = SubSeq(s, 1, c[k - 1])
    BY <1>3
  <2> DEFINE p == c[k - 1]
             q == c[k]
  <2>3. p \in 0 .. Len(s) /\ q \in p .. Len(s) /\ 1 \in 1 .. Len(s) + 1
    <3>1. p \in 0 .. Len(s) /\ q \in 0 .. Len(s) /\ p <= q
      BY <1>1 DEF Rises
    <3> HIDE DEF p, q
    <3>2. Len(s) \in Nat
      OBVIOUS
    <3>3. QED
      BY <3>1, <3>2
  <2>4. JoinedTo(ss, k) = SubSeq(s, 1, p) \o SubSeq(s, p + 1, q)
    BY <2>1, <2>2, Zenon
  <2> HIDE DEF p, q
  <2>5. SubSeq(s, 1, p) \o SubSeq(s, p + 1, q) = SubSeq(s, 1, q)
    <3>1. p \in 1 - 1 .. Len(s)
      BY <2>3
    <3>2. QED
      BY <2>3, <3>1, ConcatAdjacentSubSeq
  <2>6. JoinedTo(ss, k) = SubSeq(s, 1, c[k])
    BY <2>4, <2>5, Zenon DEF q
  <2>7. QED
    BY <1>1, <2>6
<1>4. B = 0 .. n
  BY <1>1, <1>2, <1>3, Induction
<1>5. n \in B
  <2>1. n \in 0 .. n
    BY <1>1
  <2>2. QED
    BY <1>4, <2>1
<1>6. QED
  BY <1>5

\* The sum of what is joined is the sum of the sums.
LEMMA SumJoined ==
  ASSUME NEW xx \in Seq(Seq(Nat)), NEW y \in Seq(Nat), NEW n \in 0 .. Len(xx), n <= Len(y),
         \A k \in 1 .. n : y[k] = Total(xx[k])
  PROVE  Total(JoinedTo(xx, n)) = SumTo(y, n)
<1> DEFINE B == {k \in 0 .. n : Total(JoinedTo(xx, k)) = SumTo(y, k)}
<1>1. /\ n \in Nat
      /\ \A k \in 1 .. n : /\ k \in 1 .. Len(xx) /\ k \in 1 .. Len(y)
                           /\ k \in 0 .. n /\ k - 1 \in 0 .. n /\ k - 1 \in 0 .. Len(xx)
                           /\ xx[k] \in Seq(Nat)
  OBVIOUS
<1>2. 0 \in B
  <2>1. JoinedTo(xx, 0) = <<>>
    BY JoinFacts
  <2>2. <<>> \in Seq(Nat) /\ Len(<<>>) = 0
    OBVIOUS
  <2>3. Total(<<>>) = 0
    BY <2>2, SumFacts DEF Total
  <2>4. SumTo(y, 0) = 0 /\ 0 \in 0 .. n
    BY <1>1, SumFacts
  <2>5. QED
    BY <2>1, <2>3, <2>4
<1>3. ASSUME NEW k \in 1 .. n, k - 1 \in B PROVE k \in B
  <2>1. JoinedTo(xx, k) = JoinedTo(xx, k - 1) \o xx[k]
    BY <1>1, JoinFacts
  <2>2. JoinedTo(xx, k - 1) \in Seq(Nat)
    BY <1>1, JoinFacts
  <2>3. Total(JoinedTo(xx, k)) = Total(JoinedTo(xx, k - 1)) + Total(xx[k])
    BY <1>1, <2>1, <2>2, SumCat
  <2>4. SumTo(y, k) = SumTo(y, k - 1) + y[k]
    BY <1>1, SumFacts
  <2>5. Total(JoinedTo(xx, k - 1)) = SumTo(y, k - 1)
    BY <1>3
  <2>6. QED
    BY <1>1, <2>3, <2>4, <2>5
<1>4. B = 0 .. n
  BY <1>1, <1>2, <1>3, Induction
<1>5. n \in B
  <2>1. n \in 0 .. n
    BY <1>1
  <2>2. QED
    BY <1>4, <2>1
<1>6. QED
  BY <1>5

\* Element b of the first n of ss, joined, and of xx, joined, come from the same place.
Paired(ss, xx, n, b) ==
    \E i \in 1 .. n : \E o \in 1 .. Len(ss[i]) :
        JoinedTo(ss, n)[b] = ss[i][o] /\ JoinedTo(xx, n)[b] = xx[i][o]

\* Sequences of the same lengths, joined, keep their elements side by side.
LEMMA JoinedPair ==
  ASSUME NEW T, NEW U, NEW ss \in Seq(Seq(T)), NEW xx \in Seq(Seq(U)),
         NEW n \in 0 .. Len(ss), n <= Len(xx),
         \A k \in 1 .. n : Len(xx[k]) = Len(ss[k])
  PROVE  /\ Len(JoinedTo(xx, n)) = Len(JoinedTo(ss, n))
         /\ \A b \in 1 .. Len(JoinedTo(ss, n)) : Paired(ss, xx, n, b)
<1> DEFINE P(k) == /\ Len(JoinedTo(xx, k)) = Len(JoinedTo(ss, k))
                   /\ \A b \in 1 .. Len(JoinedTo(ss, k)) : Paired(ss, xx, k, b)
           B == {k \in 0 .. n : P(k)}
<1>1. /\ n \in Nat
      /\ \A k \in 1 .. n : /\ k \in 1 .. Len(xx) /\ k \in 1 .. Len(ss)
                           /\ k \in 0 .. n /\ k - 1 \in 0 .. n
                           /\ k - 1 \in 0 .. Len(xx) /\ k - 1 \in 0 .. Len(ss)
                           /\ xx[k] \in Seq(U) /\ ss[k] \in Seq(T)
                           /\ k \in 1 .. k /\ 1 .. k - 1 \subseteq 1 .. k
  OBVIOUS
<1>2. 0 \in B
  <2>1. JoinedTo(xx, 0) = <<>>
    BY JoinFacts
  <2>2. JoinedTo(ss, 0) = <<>>
    BY JoinFacts
  <2>3. 1 .. Len(JoinedTo(ss, 0)) = {}
    BY <2>2
  <2>4. P(0)
    BY <2>1, <2>2, <2>3
  <2> HIDE DEF P
  <2>5. 0 \in 0 .. n
    BY <1>1
  <2>6. QED
    BY <2>4, <2>5
<1>3. ASSUME NEW k \in 1 .. n, k - 1 \in B PROVE k \in B
  <2> DEFINE s == JoinedTo(ss, k - 1)
             x == JoinedTo(xx, k - 1)
             u == ss[k]
             v == xx[k]
             su == JoinedTo(ss, k)
             xv == JoinedTo(xx, k)
  <2>1. su = s \o u
    BY <1>1, JoinFacts
  <2>2. xv = x \o v
    BY <1>1, JoinFacts
  <2>3. s \in Seq(T) /\ u \in Seq(T)
    BY <1>1, JoinFacts
  <2>4. x \in Seq(U) /\ v \in Seq(U)
    BY <1>1, JoinFacts
  <2>5. Len(x) = Len(s) /\ Len(v) = Len(u) /\ \A b \in 1 .. Len(s) : Paired(ss, xx, k - 1, b)
    <3>1. P(k - 1)
      <4> HIDE DEF P
      <4>1. QED
        BY <1>3
    <3>2. QED
      BY <3>1
  <2> HIDE DEF s, x, u, v, su, xv
  <2>6. Len(xv) = Len(su) /\ Len(su) = Len(s) + Len(u)
    <3>1. Len(su) = Len(s) + Len(u)
      BY <2>1, <2>3
    <3>2. Len(xv) = Len(x) + Len(v)
      BY <2>2, <2>4
    <3>3. QED
      BY <2>5, <3>1, <3>2
  <2>7. ASSUME NEW b \in 1 .. Len(su) PROVE Paired(ss, xx, k, b)
    <3>1. CASE b <= Len(s)
      <4>1. b \in 1 .. Len(s) /\ su[b] = s[b]
        BY <2>1, <2>3, <3>1
      <4>2. xv[b] = x[b]
        BY <2>2, <2>4, <2>5, <4>1
      <4>3. PICK i \in 1 .. k - 1 : \E o \in 1 .. Len(ss[i]) : s[b] = ss[i][o] /\ x[b] = xx[i][o]
        BY <2>5, <4>1, Zenon DEF Paired, s, x
      <4>4. i \in 1 .. k
        BY <1>1
      <4>5. \E o \in 1 .. Len(ss[i]) : su[b] = ss[i][o] /\ xv[b] = xx[i][o]
        BY <4>1, <4>2, <4>3, Zenon
      <4>6. QED
        BY <4>4, <4>5, Zenon DEF Paired, su, xv
    <3>2. CASE ~(b <= Len(s))
      <4>1. b - Len(s) \in 1 .. Len(u) /\ su[b] = u[b - Len(s)]
        BY SMTT(30), <2>1, <2>3, <3>2
      <4>2. xv[b] = v[b - Len(s)]
        <5>1. ~(b <= Len(x)) /\ b \in 1 .. Len(x) + Len(v)
          BY <2>3, <2>5, <2>6, <3>2
        <5>2. xv[b] = v[b - Len(x)]
          BY <2>2, <2>4, <5>1
        <5>3. QED
          BY <2>5, <5>2
      <4>3. QED
        BY <1>1, <4>1, <4>2, Zenon DEF Paired, su, xv, u, v
    <3>3. QED
      BY <3>1, <3>2
  <2>8. P(k)
    BY <2>6, <2>7 DEF su, xv
  <2> HIDE DEF P
  <2>9. QED
    BY <1>1, <2>8
<1>4. B = 0 .. n
  <2> HIDE DEF P
  <2>1. QED
    BY <1>1, <1>2, <1>3, Induction
<1> HIDE DEF P
<1>5. n \in B
  <2>1. n \in 0 .. n
    BY <1>1
  <2>2. QED
    BY <1>4, <2>1
<1>6. QED
  BY <1>5 DEF P

\* Numbers that are at most c each
LEMMA SumBounded ==
  ASSUME NEW s \in Seq(Nat), NEW n \in 0 .. Len(s), NEW c \in Nat,
         \A k \in 1 .. n : s[k] <= c
  PROVE  SumTo(s, n) <= n * c
<1> DEFINE B == {k \in 0 .. n : SumTo(s, k) <= k * c}
<1>1. /\ n \in Nat
      /\ \A k \in 1 .. n : /\ k \in 1 .. Len(s) /\ s[k] \in Nat /\ k \in Nat
                           /\ k \in 0 .. n /\ k - 1 \in 0 .. n /\ k - 1 \in 0 .. Len(s)
  OBVIOUS
<1>2. 0 \in B
  <2>1. SumTo(s, 0) = 0 /\ 0 \in 0 .. n /\ 0 * c = 0
    BY <1>1, SumFacts
  <2>2. QED
    BY <2>1
<1>3. ASSUME NEW k \in 1 .. n, k - 1 \in B PROVE k \in B
  <2>1. SumTo(s, k) = SumTo(s, k - 1) + s[k] /\ SumTo(s, k - 1) \in Nat
    BY <1>1, SumFacts
  <2>2. SumTo(s, k - 1) <= (k - 1) * c
    BY <1>3
  <2>3. (k - 1) * c + c = k * c /\ (k - 1) * c \in Int
    <3>1. k \in Nat
      BY <1>1
    <3>2. QED
      BY <3>1, SMT
  <2> DEFINE a == SumTo(s, k - 1)
             x == (k - 1) * c
             y == k * c
  <2>4. a \in Nat /\ x \in Int /\ a <= x /\ y = x + c /\ SumTo(s, k) = a + s[k]
    BY <2>1, <2>2, <2>3
  <2>5. s[k] <= c /\ s[k] \in Nat
    BY <1>1
  <2> HIDE DEF a, x, y
  <2>6. SumTo(s, k) <= y
    BY <2>4, <2>5
  <2>7. QED
    BY <1>1, <2>6 DEF y
<1>4. B = 0 .. n
  BY <1>1, <1>2, <1>3, Induction
<1>5. n \in B
  <2>1. n \in 0 .. n
    BY <1>1
  <2>2. QED
    BY <1>4, <2>1
<1>6. QED
  BY <1>5

\* One of some numbers is the highest.
LEMMA Highest ==
  ASSUME NEW n \in Nat \ {0}, NEW f \in [1 .. n -> Nat]
  PROVE  \E k \in 1 .. n : \A j \in 1 .. n : f[j] <= f[k]
<1> DEFINE Top == {m \in Nat : \A k \in 1 .. n : f[k] <= m}
<1>1. f \in Seq(Nat) /\ Len(f) = n
  BY SeqOfFun
<1>2. n \in 0 .. Len(f)
  BY <1>1
<1>3. SumTo(f, n) \in Nat /\ \A k \in 1 .. n : f[k] <= SumTo(f, n)
  BY <1>1, <1>2, SumFacts, SumHas
<1>4. Top \in SUBSET Nat /\ Top # {}
  BY <1>3
<1>5. PICK m \in Top : \A x \in Top : m <= x
  <2> HIDE DEF Top
  <2>1. QED
    BY <1>4, LeastNumber
<1>6. \E k \in 1 .. n : f[k] = m
  <2> SUFFICES ASSUME \A k \in 1 .. n : f[k] # m PROVE FALSE
    OBVIOUS
  <2>1. \A k \in 1 .. n : f[k] <= m - 1
    BY <1>5
  <2>2. 1 \in 1 .. n
    OBVIOUS
  <2>3. m - 1 \in Nat
    BY <1>5, <2>1, <2>2
  <2>4. m - 1 \in Top
    BY <2>1, <2>3
  <2>5. ~(m <= m - 1)
    BY <1>5
  <2> HIDE DEF Top
  <2>6. QED
    BY <1>5, <2>4, <2>5
<1>7. QED
  BY <1>5, <1>6

-----------------------------------------------------------------------------
(* The elements of a sequence that are in a set.                           *)

AmongTo(s, S, n) ==
    LET Upto[k \in 0 .. Len(s)] ==
            IF k = 0 THEN <<>>
            ELSE IF s[k] \in S THEN Append(Upto[k - 1], s[k]) ELSE Upto[k - 1]
    IN  Upto[n]

\* They are taken one by one.
LEMMA AmongFacts ==
  ASSUME NEW T, NEW s \in Seq(T), NEW S
  PROVE  /\ Among(s, S) = AmongTo(s, S, Len(s))
         /\ AmongTo(s, S, 0) = <<>>
         /\ \A k \in 1 .. Len(s) : s[k] \in S =>
              AmongTo(s, S, k) = Append(AmongTo(s, S, k - 1), s[k])
         /\ \A k \in 1 .. Len(s) : s[k] \notin S => AmongTo(s, S, k) = AmongTo(s, S, k - 1)
         /\ \A k \in 0 .. Len(s) : AmongTo(s, S, k) \in Seq(T)
<1> DEFINE n == Len(s)
           V == Seq(T)
           v == <<>>
           Add(q, k) == IF s[k] \in S THEN Append(q, s[k]) ELSE q
           g == [x \in V \X (1 .. n) |-> Add(x[1], x[2])]
           P(U) == U = [k \in 0 .. n |->
                          IF k = 0 THEN <<>>
                          ELSE IF s[k] \in S THEN Append(U[k - 1], s[k]) ELSE U[k - 1]]
           W == CHOOSE U : P(U)
<1>1. n \in Nat /\ 0 \in 0 .. n /\ v \in V /\ \A k \in 1 .. n : s[k] \in T
  OBVIOUS
<1>2. \A q \in V, k \in 1 .. n : Add(q, k) \in V
  BY <1>1
<1>3. \A q \in V, k \in 1 .. n : g[<<q, k>>] = Add(q, k)
  OBVIOUS
<1>4. g \in [V \X (1 .. n) -> V]
  <2> HIDE DEF V, n, Add
  <2>1. QED
    BY <1>2
<1>5. \A k : AmongTo(s, S, k) = W[k]
  BY DEF AmongTo
<1>6. Among(s, S) = AmongTo(s, S, Len(s))
  BY DEF Among, AmongTo
<1> HIDE DEF g, V
<1>7. PICK f : Follows(f, V, v, n, g)
  <2> HIDE DEF n, v
  <2>1. QED
    BY <1>1, <1>4, Recursion
<1> HIDE DEF n
<1>8. \A k \in 0 .. n : f[k] \in V
  BY <1>7 DEF Follows
<1>9. \A k \in 0 .. n : k # 0 => k \in 1 .. n /\ k - 1 \in 0 .. n
  BY <1>1
<1>10. P(f)
  <2>1. \A k \in 0 .. n : f[k] = IF k = 0 THEN <<>> ELSE Add(f[k - 1], k)
    <3> HIDE DEF Add
    <3>1. QED
      BY <1>3, <1>7, <1>8, <1>9 DEF Follows
  <2>2. f = [k \in 0 .. n |-> f[k]]
    BY <1>7 DEF Follows
  <2>3. QED
    BY <2>1, <2>2
<1>11. P(W)
  <2> HIDE DEF P
  <2>1. QED
    BY <1>10
<1> HIDE DEF W
<1>12. \A k \in 0 .. n : W[k] = IF k = 0 THEN <<>> ELSE Add(W[k - 1], k)
  BY <1>11
<1>13. /\ W[0] = <<>>
       /\ \A k \in 1 .. n : k \in 0 .. n /\ W[k] = Add(W[k - 1], k)
  <2>1. \A k \in 1 .. n : k \in 0 .. n /\ k # 0
    BY <1>1
  <2> HIDE DEF Add
  <2>2. QED
    BY <1>1, <1>12, <2>1
<1> HIDE DEF P
<1> DEFINE B == {k \in 0 .. n : W[k] \in V}
<1>14. B = 0 .. n
  <2> HIDE DEF Add
  <2>1. 0 \in B
    BY <1>1, <1>13
  <2>2. \A k \in 1 .. n : k - 1 \in B => k \in B
    BY <1>2, <1>13
  <2>3. QED
    BY <1>1, <2>1, <2>2, Induction
<1>15. QED
  BY <1>5, <1>6, <1>13, <1>14 DEF n, V

\* Whatever pairs of s are related in their order, those of q are.
OrderKept(s, q, R) ==
    (\A i, j \in DOMAIN s : i < j => <<s[i], s[j]>> \in R)
        => \A i, j \in DOMAIN q : i < j => <<q[i], q[j]>> \in R

\* They are the elements of s that are in S, in the order that they have in s.
LEMMA AmongHas ==
  ASSUME NEW T, NEW s \in Seq(T), NEW S, NEW R
  PROVE  /\ Among(s, S) \in Seq(T)
         /\ \A j \in DOMAIN Among(s, S) :
              Among(s, S)[j] \in S /\ \E i \in DOMAIN s : Among(s, S)[j] = s[i]
         /\ \A i \in DOMAIN s : s[i] \in S => \E j \in DOMAIN Among(s, S) : Among(s, S)[j] = s[i]
         /\ OrderKept(s, Among(s, S), R)
<1> DEFINE n == Len(s)
           w(k) == AmongTo(s, S, k)
           From(k) == \A j \in 1 .. Len(w(k)) : w(k)[j] \in S /\ \E i \in 1 .. k : w(k)[j] = s[i]
           All(k) == \A i \in 1 .. k : s[i] \in S => \E j \in 1 .. Len(w(k)) : w(k)[j] = s[i]
           Ord(k) == (\A i, j \in 1 .. n : i < j => <<s[i], s[j]>> \in R)
                        => \A i, j \in 1 .. Len(w(k)) : i < j => <<w(k)[i], w(k)[j]>> \in R
           B == {k \in 0 .. n : From(k) /\ All(k) /\ Ord(k)}
<1>1. /\ n \in Nat
      /\ \A k \in 0 .. n : w(k) \in Seq(T)
      /\ \A k \in 1 .. n : /\ w(k) = IF s[k] \in S THEN Append(w(k - 1), s[k]) ELSE w(k - 1)
                           /\ s[k] \in T /\ k \in 0 .. n /\ k - 1 \in 0 .. n /\ k \in 1 .. k
                           /\ \A i \in 1 .. k - 1 : i \in 1 .. k /\ i \in 1 .. n /\ i < k
                           /\ \A i \in 1 .. k : i = k \/ i \in 1 .. k - 1
  <2>1. \A k \in 0 .. n : w(k) \in Seq(T)
    BY AmongFacts
  <2>2. ASSUME NEW k \in 1 .. n
        PROVE  w(k) = IF s[k] \in S THEN Append(w(k - 1), s[k]) ELSE w(k - 1)
    <3>1. k \in 1 .. Len(s)
      OBVIOUS
    <3> HIDE DEF n
    <3>2. s[k] \notin S => AmongTo(s, S, k) = AmongTo(s, S, k - 1)
      BY <3>1, AmongFacts
    <3>3. s[k] \in S => AmongTo(s, S, k) = Append(AmongTo(s, S, k - 1), s[k])
      BY <3>1, AmongFacts
    <3>4. QED
      BY <3>2, <3>3
  <2> HIDE DEF w
  <2>3. QED
    BY <2>1, <2>2
<1>2. 0 \in B
  <2>1. w(0) = <<>>
    BY AmongFacts
  <2>2. 1 .. Len(w(0)) = {} /\ 1 .. 0 = {} /\ 0 \in 0 .. n
    BY <1>1, <2>1
  <2> HIDE DEF w, n
  <2>3. QED
    BY <2>2
<1>3. ASSUME NEW k \in 1 .. n, k - 1 \in B PROVE k \in B
  <2> DEFINE x == w(k - 1)
             y == w(k)
             e == s[k]
             m == Len(x)
  <2>1. x \in Seq(T) /\ m \in Nat /\ e \in T /\ y = IF e \in S THEN Append(x, e) ELSE x
    BY <1>1
  <2>2. /\ \A j \in 1 .. m : x[j] \in S /\ \E i \in 1 .. k - 1 : x[j] = s[i]
        /\ \A i \in 1 .. k - 1 : s[i] \in S => \E j \in 1 .. m : x[j] = s[i]
        /\ (\A i, j \in 1 .. n : i < j => <<s[i], s[j]>> \in R)
              => \A i, j \in 1 .. m : i < j => <<x[i], x[j]>> \in R
    <3>1. From(k - 1) /\ All(k - 1) /\ Ord(k - 1)
      <4> HIDE DEF From, All, Ord
      <4>1. QED
        BY <1>3
    <3>2. QED
      BY <3>1
  <2>3. CASE e \notin S
    <3>1. y = x
      BY <2>1, <2>3
    <3>2. From(k)
      BY <1>1, <2>2, <3>1
    <3>3. All(k)
      BY <1>1, <2>2, <2>3, <3>1
    <3>4. Ord(k)
      BY <2>2, <3>1
    <3> HIDE DEF From, All, Ord
    <3>5. QED
      BY <1>1, <3>2, <3>3, <3>4
  <2>4. CASE e \in S
    <3>1. /\ Len(y) = m + 1 /\ y[m + 1] = e /\ m + 1 \in 1 .. m + 1
          /\ \A j \in 1 .. m : y[j] = x[j] /\ j \in 1 .. m + 1
          /\ \A j \in 1 .. m + 1 : j = m + 1 \/ j \in 1 .. m
      <4> HIDE DEF x, e, y
      <4>1. y = Append(x, e)
        BY <2>1, <2>4
      <4>2. m = Len(x)
        OBVIOUS
      <4> HIDE DEF m
      <4>3. Len(y) = m + 1 /\ y[m + 1] = e /\ \A j \in 1 .. m : y[j] = x[j]
        BY <2>1, <4>1, <4>2, AppendProperties
      <4>4. QED
        BY <2>1, <4>3
    <3> HIDE DEF x, y, m, w
    <3>2. \A j \in 1 .. Len(y) : y[j] \in S /\ \E i \in 1 .. k : y[j] = s[i]
      <4>1. ASSUME NEW j \in 1 .. m PROVE y[j] \in S /\ \E i \in 1 .. k : y[j] = s[i]
        BY ZenonT(60), <1>1, <2>2, <3>1
      <4>2. y[m + 1] \in S /\ \E i \in 1 .. k : y[m + 1] = s[i]
        BY <1>1, <2>4, <3>1
      <4>3. QED
        BY <3>1, <4>1, <4>2
    <3>3. \A i \in 1 .. k : s[i] \in S => \E j \in 1 .. Len(y) : y[j] = s[i]
      <4>1. ASSUME NEW i \in 1 .. k - 1, s[i] \in S PROVE \E j \in 1 .. Len(y) : y[j] = s[i]
        <5>1. PICK j \in 1 .. m : x[j] = s[i]
          BY <2>2, <4>1
        <5>2. j \in 1 .. Len(y) /\ y[j] = s[i]
          BY <3>1, <5>1
        <5>3. QED
          BY <5>2
      <4>2. \E j \in 1 .. Len(y) : y[j] = s[k]
        BY <3>1
      <4>3. QED
        BY <1>1, <4>1, <4>2
    <3>4. ASSUME \A i, j \in 1 .. n : i < j => <<s[i], s[j]>> \in R,
                 NEW i \in 1 .. Len(y), NEW j \in 1 .. Len(y), i < j
          PROVE  <<y[i], y[j]>> \in R
      <4>1. i \in 1 .. m
        BY <2>1, <3>1, <3>4
      <4>2. CASE j \in 1 .. m
        BY <2>2, <3>1, <3>4, <4>1, <4>2
      <4>3. CASE j = m + 1
        <5>1. PICK h \in 1 .. k - 1 : x[i] = s[h]
          BY <2>2, <4>1
        <5>2. h \in 1 .. n /\ k \in 1 .. n /\ h < k
          BY <1>1
        <5>3. <<s[h], s[k]>> \in R
          BY <3>4, <5>2
        <5>4. QED
          BY <3>1, <4>1, <4>3, <5>1, <5>3
      <4>4. QED
        BY <3>1, <4>2, <4>3
    <3>5. From(k) /\ All(k) /\ Ord(k)
      BY <3>2, <3>3, <3>4 DEF y
    <3> HIDE DEF From, All, Ord
    <3>6. QED
      BY <1>1, <3>5
  <2>5. QED
    BY <2>3, <2>4
<1>4. B = 0 .. n
  <2> HIDE DEF From, All, Ord
  <2>1. QED
    BY <1>1, <1>2, <1>3, Induction
<1>5. From(n) /\ All(n) /\ Ord(n)
  <2>1. n \in 0 .. n
    BY <1>1
  <2> HIDE DEF From, All, Ord
  <2>2. QED
    BY <1>4, <2>1
<1>6. Among(s, S) = w(n)
  BY AmongFacts
<1>7. /\ w(n) \in Seq(T) /\ DOMAIN w(n) = 1 .. Len(w(n)) /\ DOMAIN s = 1 .. n
  <2>1. n \in 0 .. n
    BY <1>1
  <2>2. w(n) \in Seq(T)
    BY <1>1, <2>1
  <2> HIDE DEF w
  <2>3. QED
    BY <2>2
<1>8. QED
  <2> DEFINE q == w(n)
  <2> HIDE DEF w
  <2>1. From(n) /\ All(n) /\ Ord(n)
    BY <1>5
  <2>2. QED
    BY <1>6, <1>7, <2>1 DEF OrderKept

-----------------------------------------------------------------------------
(* The pieces that a sequence is cut into.                                 *)

\* b holds the ends of pieces that cover 1 .. n, one after the other, each of
\* which goes on until a cut.
Tiles(b, n, cuts) ==
    /\ b \in Seq(Nat \X Nat)
    /\ n = 0 => b = <<>>
    /\ n > 0 => b # <<>> /\ b[1][1] = 1 /\ b[Len(b)][2] = n
    /\ \A j \in 1 .. Len(b) : 1 <= b[j][1] /\ b[j][1] <= b[j][2] /\ b[j][2] <= n
    /\ \A j \in 2 .. Len(b) : b[j][1] = b[j - 1][2] + 1 /\ <<b[j - 1][1], b[j][1]>> \in cuts
    /\ \A j \in 1 .. Len(b) : \A k \in Nat :
          b[j][1] < k /\ k <= b[j][2] => <<b[j][1], k>> \notin cuts

ExtendedBounds(b, k, cuts) ==
    IF b = <<>> \/ <<b[Len(b)][1], k>> \in cuts
    THEN Append(b, <<k, k>>)
    ELSE [b EXCEPT ![Len(b)] = <<@[1], k>>]

\* One more place joins the last piece, or begins one.
LEMMA TilesExtended ==
  ASSUME NEW k \in Nat \ {0}, NEW cuts, NEW b, Tiles(b, k - 1, cuts)
  PROVE  Tiles(ExtendedBounds(b, k, cuts), k, cuts)
<1> DEFINE c == ExtendedBounds(b, k, cuts)
           m == Len(b)
           P == Nat \X Nat
<1>1. b \in Seq(P) /\ m \in Nat /\ k - 1 \in Nat /\ k > 0 /\ (b # <<>> <=> m > 0)
  BY DEF Tiles
<1>2. /\ k - 1 = 0 => b = <<>>
      /\ k - 1 > 0 => b # <<>> /\ b[1][1] = 1 /\ b[m][2] = k - 1
      /\ \A j \in 1 .. m : 1 <= b[j][1] /\ b[j][1] <= b[j][2] /\ b[j][2] <= k - 1
      /\ \A j \in 2 .. m : b[j][1] = b[j - 1][2] + 1 /\ <<b[j - 1][1], b[j][1]>> \in cuts
      /\ \A j \in 1 .. m : \A i \in Nat :
            b[j][1] < i /\ i <= b[j][2] => <<b[j][1], i>> \notin cuts
  BY DEF Tiles
<1>3. \A j \in 1 .. m : b[j] \in P /\ b[j][1] \in Nat /\ b[j][2] \in Nat
  <2>1. \A j \in 1 .. m : b[j] \in P
    BY <1>1
  <2>2. QED
    BY <2>1
<1> HIDE DEF m
<1>4. CASE b = <<>> \/ <<b[m][1], k>> \in cuts
  <2>1. c = Append(b, <<k, k>>)
    BY <1>4 DEF ExtendedBounds, m
  <2>2. <<k, k>> \in P
    BY <1>1
  <2>3. /\ c \in Seq(P) /\ c # <<>> /\ Len(c) = m + 1
        /\ \A j \in 1 .. m : c[j] = b[j]
        /\ c[m + 1] = <<k, k>>
    <3> HIDE DEF P, c
    <3>1. QED
      BY <1>1, <2>1, <2>2, AppendProperties DEF m
  <2> HIDE DEF c
  <2>4. c[m + 1][1] = k /\ c[m + 1][2] = k
    BY <2>3
  <2>5. \A j \in 1 .. m + 1 : j = m + 1 \/ (j \in 1 .. m /\ c[j] = b[j])
    BY SMTT(30), <1>1, <2>3
  <2>6. c[1][1] = 1 /\ c[Len(c)][2] = k
    <3>1. CASE m = 0
      <4>1. b = <<>> /\ ~(k - 1 > 0)
        BY <1>1, <1>2, <3>1
      <4>2. QED
        BY <1>1, <2>3, <2>4, <3>1, <4>1
    <3>2. CASE m > 0
      <4>1. k - 1 > 0 /\ 1 \in 1 .. m
        BY <1>1, <1>2, <3>2
      <4>2. QED
        BY <1>2, <2>3, <2>4, <4>1
    <3>3. QED
      BY <1>1, <3>1, <3>2
  <2>7. \A j \in 1 .. Len(c) : 1 <= c[j][1] /\ c[j][1] <= c[j][2] /\ c[j][2] <= k
    <3>1. ASSUME NEW j \in 1 .. m PROVE 1 <= c[j][1] /\ c[j][1] <= c[j][2] /\ c[j][2] <= k
      <4>1. 1 <= b[j][1] /\ b[j][1] <= b[j][2] /\ b[j][2] <= k - 1 /\ b[j][2] \in Nat
        BY <1>2, <1>3
      <4>2. c[j] = b[j]
        BY <2>3
      <4>3. k \in Int
        BY <1>1
      <4>4. b[j][2] <= k
        BY <4>1, <4>3
      <4>5. QED
        BY <4>1, <4>2, <4>4
    <3>2. QED
      BY <1>1, <2>3, <2>4, <2>5, <3>1
  <2>8. \A j \in 2 .. Len(c) : c[j][1] = c[j - 1][2] + 1 /\ <<c[j - 1][1], c[j][1]>> \in cuts
    <3>1. ASSUME NEW j \in 2 .. m
          PROVE  c[j][1] = c[j - 1][2] + 1 /\ <<c[j - 1][1], c[j][1]>> \in cuts
      <4>1. c[j] = b[j] /\ c[j - 1] = b[j - 1]
        BY SMTT(30), <1>1, <2>3
      <4>2. QED
        BY <1>2, <4>1
    <3>2. ASSUME m + 1 \in 2 .. m + 1
          PROVE  c[m + 1][1] = c[m][2] + 1 /\ <<c[m][1], c[m + 1][1]>> \in cuts
      <4>1. m \in 1 .. m /\ b # <<>> /\ c[m] = b[m]
        BY <1>1, <2>3, <3>2
      <4>2. k - 1 > 0 /\ b[m][2] = k - 1
        BY <1>1, <1>2, <4>1
      <4>3. QED
        BY <1>1, <1>4, <2>4, <4>1, <4>2
    <3>3. \A j \in 2 .. m + 1 : j \in 2 .. m \/ (j = m + 1 /\ j - 1 = m /\ m + 1 \in 2 .. m + 1)
      BY <1>1
    <3>4. QED
      BY <2>3, <3>1, <3>2, <3>3
  <2>9. \A j \in 1 .. Len(c) : \A i \in Nat :
            c[j][1] < i /\ i <= c[j][2] => <<c[j][1], i>> \notin cuts
    <3>1. ASSUME NEW i \in Nat, k < i, i <= k PROVE FALSE
      BY <1>1, <3>1
    <3>2. ASSUME NEW j \in 1 .. m + 1, NEW i \in Nat, c[j][1] < i, i <= c[j][2]
          PROVE  <<c[j][1], i>> \notin cuts
      <4>1. CASE j = m + 1
        BY <2>4, <3>1, <3>2, <4>1
      <4>2. CASE j \in 1 .. m /\ c[j] = b[j]
        BY <1>2, <3>2, <4>2
      <4>3. QED
        BY <2>5, <4>1, <4>2
    <3>3. QED
      BY <2>3, <3>2
  <2>10. QED
    BY <1>1, <2>3, <2>6, <2>7, <2>8, <2>9 DEF Tiles, c
<1>5. CASE ~(b = <<>> \/ <<b[m][1], k>> \in cuts)
  <2> DEFINE e == <<b[m][1], k>>
  <2>1. c = [b EXCEPT ![m] = e]
    BY <1>5 DEF ExtendedBounds, m
  <2>2. m \in 1 .. m /\ b # <<>> /\ k - 1 > 0 /\ b[m][2] = k - 1
    BY <1>1, <1>2, <1>5
  <2>3. e \in P
    BY <1>1, <1>3, <2>2
  <2>4. e[1] = b[m][1] /\ e[2] = k
    OBVIOUS
  <2>5. /\ c \in Seq(P) /\ Len(c) = m
        /\ \A j \in 1 .. m : c[j] = IF j = m THEN e ELSE b[j]
    <3> HIDE DEF P, c, e
    <3>1. QED
      BY <1>1, <2>1, <2>2, <2>3, ExceptSeq DEF m
  <2> HIDE DEF c, e
  <2>6. /\ c # <<>>
        /\ c[m][1] = b[m][1] /\ c[m][2] = k
        /\ \A j \in 1 .. m : c[j][1] = b[j][1]
        /\ \A j \in 1 .. m : j = m \/ (j < m /\ c[j] = b[j])
    <3>1. c # <<>> /\ c[m] = e
      BY <1>1, <2>2, <2>5
    <3>2. \A j \in 1 .. m : j = m \/ (j < m /\ c[j] = b[j])
      <4>1. \A j \in 1 .. m : j = m \/ j < m
        BY <1>1
      <4>2. QED
        BY <2>5, <4>1
    <3>3. QED
      BY <2>2, <2>4, <3>1, <3>2
  <2>7. c[1][1] = 1 /\ c[Len(c)][2] = k
    BY <1>1, <1>2, <2>2, <2>5, <2>6
  <2>8. \A j \in 1 .. Len(c) : 1 <= c[j][1] /\ c[j][1] <= c[j][2] /\ c[j][2] <= k
    <3>1. ASSUME NEW j \in 1 .. m PROVE 1 <= c[j][1] /\ c[j][1] <= c[j][2] /\ c[j][2] <= k
      <4>1. 1 <= b[j][1] /\ b[j][1] <= b[j][2] /\ b[j][2] <= k - 1
            /\ b[j][1] \in Nat /\ b[j][2] \in Nat
        BY <1>2, <1>3
      <4>2. CASE j = m
        <5>1. b[j][1] <= k
          BY <1>1, <4>1
        <5>2. QED
          BY <2>6, <4>1, <4>2, <5>1, <1>1
      <4>3. CASE c[j] = b[j]
        BY <1>1, <4>1, <4>3
      <4>4. QED
        BY <2>6, <4>2, <4>3
    <3>2. QED
      BY <2>5, <3>1
  <2>9. \A j \in 2 .. Len(c) : c[j][1] = c[j - 1][2] + 1 /\ <<c[j - 1][1], c[j][1]>> \in cuts
    <3>1. ASSUME NEW j \in 2 .. m
          PROVE  c[j][1] = c[j - 1][2] + 1 /\ <<c[j - 1][1], c[j][1]>> \in cuts
      <4>1. c[j - 1] = b[j - 1] /\ c[j][1] = b[j][1]
        BY <1>1, <2>6
      <4>2. QED
        BY <1>2, <4>1
    <3>2. QED
      BY <2>5, <3>1
  <2>10. \A j \in 1 .. Len(c) : \A i \in Nat :
            c[j][1] < i /\ i <= c[j][2] => <<c[j][1], i>> \notin cuts
    <3>1. ASSUME NEW i \in Nat, c[m][1] < i, i <= c[m][2] PROVE <<c[m][1], i>> \notin cuts
      <4>1. b[m][1] < i /\ (i = k \/ i <= k - 1)
        BY <1>1, <2>6, <3>1
      <4>2. QED
        BY <1>2, <1>5, <2>2, <2>6, <4>1
    <3>2. QED
      BY <1>2, <2>5, <2>6, <3>1
  <2>11. QED
    BY <1>1, <2>5, <2>6, <2>7, <2>8, <2>9, <2>10 DEF Tiles, c
<1>6. QED
  BY <1>4, <1>5

\* Bounds computes such pieces.
LEMMA BoundsTile ==
  ASSUME NEW n \in Nat, NEW cuts
  PROVE  Tiles(Bounds(n, cuts), n, cuts)
<1> DEFINE V == Seq(Nat \X Nat)
           v == <<>>
           Ext(b, k) == ExtendedBounds(b, k, cuts)
           g == [x \in V \X (1 .. n) |-> Ext(x[1], x[2])]
           P(U) == U = [k \in 0 .. n |-> IF k = 0 THEN <<>> ELSE Ext(U[k - 1], k)]
           W == CHOOSE U : P(U)
<1>1. n \in Nat /\ 0 \in 0 .. n /\ v \in V
  OBVIOUS
<1>2. \A q \in V, k \in 1 .. n : Ext(q, k) \in V
  <2> SUFFICES ASSUME NEW q \in V, NEW k \in 1 .. n PROVE Ext(q, k) \in V
    OBVIOUS
  <2>1. <<k, k>> \in Nat \X Nat
    OBVIOUS
  <2>2. Append(q, <<k, k>>) \in V
    BY <2>1
  <2>3. ASSUME q # <<>> PROVE [q EXCEPT ![Len(q)] = <<q[Len(q)][1], k>>] \in V
    <3>1. Len(q) \in 1 .. Len(q)
      BY <2>3
    <3>2. q[Len(q)] \in Nat \X Nat
      BY <3>1
    <3>3. <<q[Len(q)][1], k>> \in Nat \X Nat
      BY <3>2
    <3>4. QED
      BY <3>1, <3>3, ExceptSeq
  <2> HIDE DEF V
  <2>4. QED
    BY <2>2, <2>3 DEF ExtendedBounds
<1>3. \A q \in V, k \in 1 .. n : g[<<q, k>>] = Ext(q, k)
  OBVIOUS
<1>4. g \in [V \X (1 .. n) -> V]
  <2> HIDE DEF V, Ext
  <2>1. QED
    BY <1>2
<1>5. Bounds(n, cuts) = W[n]
  BY DEF Bounds, ExtendedBounds
<1> HIDE DEF g, V, Ext
<1>7. PICK f : Follows(f, V, v, n, g)
  <2> HIDE DEF v
  <2>1. QED
    BY <1>1, <1>4, Recursion
<1>8. \A k \in 0 .. n : f[k] \in V
  BY <1>7 DEF Follows
<1>9. \A k \in 0 .. n : k # 0 => k \in 1 .. n /\ k - 1 \in 0 .. n
  BY <1>1
<1>10. P(f)
  <2>1. \A k \in 0 .. n : f[k] = IF k = 0 THEN <<>> ELSE Ext(f[k - 1], k)
    BY <1>3, <1>7, <1>8, <1>9 DEF Follows
  <2>2. f = [k \in 0 .. n |-> f[k]]
    BY <1>7 DEF Follows
  <2>3. QED
    BY <2>1, <2>2
<1>11. P(W)
  <2> HIDE DEF P
  <2>1. QED
    BY <1>10
<1> HIDE DEF W
<1>12. \A k \in 0 .. n : W[k] = IF k = 0 THEN <<>> ELSE Ext(W[k - 1], k)
  BY <1>11
<1> HIDE DEF P
<1> DEFINE B == {k \in 0 .. n : Tiles(W[k], k, cuts)}
<1>14. B = 0 .. n
  <2>1. 0 \in B
    <3>1. W[0] = <<>>
      BY <1>1, <1>12
    <3>2. Tiles(<<>>, 0, cuts)
      BY DEF Tiles
    <3>3. QED
      BY <1>1, <3>1, <3>2
  <2>2. \A k \in 1 .. n : k - 1 \in B => k \in B
    <3> SUFFICES ASSUME NEW k \in 1 .. n, k - 1 \in B PROVE k \in B
      OBVIOUS
    <3>1. k \in Nat \ {0} /\ k \in 0 .. n /\ k # 0
      BY <1>1
    <3>2. W[k] = ExtendedBounds(W[k - 1], k, cuts)
      BY <1>12, <3>1 DEF Ext
    <3>3. Tiles(W[k - 1], k - 1, cuts)
      OBVIOUS
    <3>4. Tiles(W[k], k, cuts)
      BY <3>1, <3>2, <3>3, TilesExtended
    <3>5. QED
      BY <3>1, <3>4
  <2>3. QED
    BY <1>1, <2>1, <2>2, Induction
<1>15. n \in B
  <2>1. n \in 0 .. n
    BY <1>1
  <2>2. QED
    BY <1>14, <2>1
<1>16. QED
  BY <1>5, <1>15

\* Every place is in some piece.
LEMMA TilesCover ==
  ASSUME NEW n \in Nat, NEW cuts, NEW b, Tiles(b, n, cuts), NEW i \in 1 .. n
  PROVE  \E j \in 1 .. Len(b) : b[j][1] <= i /\ i <= b[j][2]
<1> DEFINE S == {j \in 1 .. Len(b) : i <= b[j][2]}
<1>1. /\ b \in Seq(Nat \X Nat) /\ n > 0 /\ b # <<>> /\ b[1][1] = 1 /\ b[Len(b)][2] = n
      /\ \A j \in 2 .. Len(b) : b[j][1] = b[j - 1][2] + 1
  <2>1. n > 0
    OBVIOUS
  <2>2. b \in Seq(Nat \X Nat) /\ b # <<>> /\ b[1][1] = 1 /\ b[Len(b)][2] = n
    BY <2>1 DEF Tiles
  <2>3. \A j \in 2 .. Len(b) : b[j][1] = b[j - 1][2] + 1
    BY Zenon DEF Tiles
  <2>4. QED
    BY <2>1, <2>2, <2>3
<1>2. \A j \in 1 .. Len(b) : b[j][1] \in Nat /\ b[j][2] \in Nat
  <2>1. \A j \in 1 .. Len(b) : b[j] \in Nat \X Nat
    BY <1>1
  <2>2. QED
    BY <2>1
<1>3. S \in SUBSET Nat /\ S # {}
  <2>1. Len(b) \in 1 .. Len(b)
    BY <1>1
  <2>2. Len(b) \in S
    BY <1>1, <2>1
  <2>3. QED
    BY <2>2
<1>4. PICK j \in S : \A k \in S : j <= k
  <2> HIDE DEF S
  <2>1. QED
    BY <1>3, LeastNumber
<1>5. CASE j = 1
  BY <1>1, <1>5
<1>6. CASE j # 1
  <2>1. j \in 2 .. Len(b) /\ j - 1 \in 1 .. Len(b) /\ ~(j <= j - 1)
    BY <1>6
  <2>2. ~(i <= b[j - 1][2])
    BY <1>4, <2>1
  <2>3. b[j][1] <= i
    <3>1. b[j][1] = b[j - 1][2] + 1 /\ b[j - 1][2] \in Nat /\ i \in Nat
      BY SMTT(30), <1>1, <1>2, <2>1
    <3>2. QED
      BY <2>2, <3>1
  <2>4. QED
    BY <2>3
<1>7. QED
  BY <1>5, <1>6

\* p holds the pieces of s that begin and end at the places of b.
CutInto(T, s, b, p) ==
    /\ p \in Seq(Seq(T)) /\ Len(p) = Len(b) /\ DOMAIN p = 1 .. Len(b)
    /\ \A j \in 1 .. Len(b) :
         /\ p[j] \in Seq(T) /\ p[j] # <<>> /\ p[j] = SubSeq(s, b[j][1], b[j][2])
         /\ Len(p[j]) = (b[j][2] - b[j][1]) + 1
         /\ b[j][1] \in 1 .. Len(s) /\ b[j][2] \in b[j][1] .. Len(s)
         /\ p[j][1] = s[b[j][1]] /\ p[j][Len(p[j])] = s[b[j][2]]
         /\ \A k \in 1 .. Len(p[j]) :
               (b[j][1] + k) - 1 \in b[j][1] .. b[j][2] /\ p[j][k] = s[(b[j][1] + k) - 1]

\* A piece holds the tensors between its ends.
LEMMA PieceFacts ==
  ASSUME NEW T, NEW s \in Seq(T), NEW cuts, NEW b, b = Bounds(Len(s), cuts),
         NEW p, p = Pieces(s, cuts)
  PROVE  Tiles(b, Len(s), cuts) /\ CutInto(T, s, b, p)
<1>1. Tiles(b, Len(s), cuts)
  BY BoundsTile
<1>2. b \in Seq(Nat \X Nat) /\ Len(b) \in Nat /\ DOMAIN b = 1 .. Len(b)
  BY <1>1 DEF Tiles
<1>3. p = [j \in 1 .. Len(b) |-> SubSeq(s, b[j][1], b[j][2])]
  BY <1>2 DEF Pieces
<1>4. ASSUME NEW j \in 1 .. Len(b)
      PROVE  /\ p[j] \in Seq(T) /\ p[j] # <<>> /\ p[j] = SubSeq(s, b[j][1], b[j][2])
             /\ Len(p[j]) = (b[j][2] - b[j][1]) + 1
             /\ b[j][1] \in 1 .. Len(s) /\ b[j][2] \in b[j][1] .. Len(s)
             /\ p[j][1] = s[b[j][1]] /\ p[j][Len(p[j])] = s[b[j][2]]
             /\ \A k \in 1 .. Len(p[j]) :
                    (b[j][1] + k) - 1 \in b[j][1] .. b[j][2] /\ p[j][k] = s[(b[j][1] + k) - 1]
  <2> DEFINE x == b[j][1]
             y == b[j][2]
             q == p[j]
  <2>1. x \in Nat /\ y \in Nat /\ 1 <= x /\ x <= y /\ y <= Len(s) /\ Len(s) \in Nat
    <3>1. b[j] \in Nat \X Nat
      BY <1>2
    <3>2. 1 <= x /\ x <= y /\ y <= Len(s)
      BY <1>1 DEF Tiles
    <3>3. QED
      BY <3>1, <3>2
  <2>2. q = SubSeq(s, x, y)
    BY <1>3
  <2> HIDE DEF x, y, q
  <2>3. \A i \in x .. y : s[i] \in T
    BY <2>1
  <2>4. q \in Seq(T) /\ Len(q) = (y - x) + 1 /\ \A k \in 1 .. (y - x) + 1 : q[k] = s[(x + k) - 1]
    <3>1. x \in Int /\ y \in Int /\ (y - x) + 1 = y - x + 1
      BY <2>1
    <3>2. /\ SubSeq(s, x, y) \in Seq(T)
          /\ Len(SubSeq(s, x, y)) = IF x <= y THEN y - x + 1 ELSE 0
      BY <2>3, <3>1, SubSeqProperties
    <3>3. \A k \in 1 .. y - x + 1 : SubSeq(s, x, y)[k] = s[x + k - 1]
      BY <2>3, <3>1, SubSeqProperties
    <3>4. QED
      BY <2>1, <2>2, <3>1, <3>2, <3>3
  <2>5. 1 \in 1 .. Len(q) /\ Len(q) \in 1 .. Len(q) /\ q # <<>>
        /\ (x + 1) - 1 = x /\ (x + Len(q)) - 1 = y
    BY <2>1, <2>4
  <2>6. q[1] = s[x] /\ q[Len(q)] = s[y]
    BY <2>4, <2>5
  <2>7. \A k \in 1 .. Len(q) : (x + k) - 1 \in x .. y /\ q[k] = s[(x + k) - 1]
    BY <2>1, <2>4
  <2>8. x \in 1 .. Len(s) /\ y \in x .. Len(s)
    BY <2>1
  <2>9. QED
    BY <2>2, <2>4, <2>5, <2>6, <2>7, <2>8 DEF x, y, q
<1>5. p \in Seq(Seq(T)) /\ Len(p) = Len(b) /\ DOMAIN p = 1 .. Len(b)
  <2>1. p \in [1 .. Len(b) -> Seq(T)]
    BY <1>3, <1>4
  <2>2. QED
    BY <1>2, <2>1, SeqOfFun
<1>6. QED
  BY <1>1, <1>4, <1>5 DEF CutInto

\* The places where the pieces end, from 0 on
Ends(b) == [j \in 0 .. Len(b) |-> IF j = 0 THEN 0 ELSE b[j][2]]

\* The ends of the pieces rise.
LEMMA EndsRise ==
  ASSUME NEW n \in Nat, NEW cuts, NEW b, Tiles(b, n, cuts)
  PROVE  /\ Rises(Ends(b), Len(b), n) /\ Len(b) \in Nat
         /\ Ends(b)[Len(b)] = n
         /\ \A j \in 1 .. Len(b) : Ends(b)[j - 1] + 1 = b[j][1] /\ Ends(b)[j] = b[j][2]
<1>1. /\ b \in Seq(Nat \X Nat) /\ Len(b) \in Nat
      /\ n = 0 => b = <<>>
      /\ n > 0 => b # <<>> /\ b[1][1] = 1 /\ b[Len(b)][2] = n
      /\ \A j \in 1 .. Len(b) : 1 <= b[j][1] /\ b[j][1] <= b[j][2] /\ b[j][2] <= n
      /\ \A j \in 2 .. Len(b) : b[j][1] = b[j - 1][2] + 1
  <2>1. \A j \in 2 .. Len(b) : b[j][1] = b[j - 1][2] + 1
    BY Zenon DEF Tiles
  <2>2. b \in Seq(Nat \X Nat)
    BY DEF Tiles
  <2>3. QED
    BY <2>1, <2>2 DEF Tiles
<1>2. \A j \in 1 .. Len(b) : b[j][1] \in Nat /\ b[j][2] \in Nat
  <2>1. \A j \in 1 .. Len(b) : b[j] \in Nat \X Nat
    BY <1>1
  <2>2. QED
    BY <2>1
<1> DEFINE e == Ends(b)
<1>3. e[0] = 0 /\ \A j \in 1 .. Len(b) : e[j] = b[j][2]
  BY <1>1 DEF Ends
<1>4. e \in [0 .. Len(b) -> 0 .. n]
  <2>1. \A j \in 0 .. Len(b) : j = 0 \/ j \in 1 .. Len(b)
    BY <1>1
  <2>2. \A j \in 1 .. Len(b) : b[j][2] \in 0 .. n
    BY <1>1, <1>2
  <2>3. QED
    BY <2>1, <2>2 DEF Ends
<1> HIDE DEF e
<1>5. ASSUME NEW j \in 1 .. Len(b) PROVE e[j - 1] + 1 = b[j][1] /\ e[j - 1] <= e[j]
  <2>1. CASE j = 1
    <3>1. n > 0
      BY <1>1, <2>1
    <3>2. QED
      BY <1>1, <1>2, <1>3, <2>1, <3>1
  <2>2. CASE j # 1
    <3>1. j \in 2 .. Len(b) /\ j - 1 \in 1 .. Len(b)
      BY <2>2
    <3>2. e[j - 1] = b[j - 1][2]
      BY <1>3, <3>1
    <3>3. b[j][1] = b[j - 1][2] + 1
      BY <1>1, <3>1
    <3>4. e[j] = b[j][2] /\ b[j][1] <= b[j][2]
      BY <1>1, <1>3
    <3>5. b[j - 1][2] \in Nat /\ b[j][1] \in Nat /\ b[j][2] \in Nat
      BY <1>2, <3>1
    <3>6. \A x, y, z \in Nat : y = x + 1 /\ y <= z => x + 1 = y /\ x <= z
      OBVIOUS
    <3>7. QED
      BY <3>2, <3>3, <3>4, <3>5, <3>6
  <2>3. QED
    BY <2>1, <2>2
<1>6. e[Len(b)] = n
  <2>1. CASE n = 0
    <3>1. Len(b) = 0
      BY <1>1, <2>1
    <3>2. QED
      BY <1>3, <2>1, <3>1
  <2>2. CASE n > 0
    <3>1. Len(b) \in 1 .. Len(b)
      BY <1>1, <2>2
    <3>2. QED
      BY <1>1, <1>3, <2>2, <3>1
  <2>3. QED
    BY <2>1, <2>2
<1>7. QED
  BY <1>1, <1>3, <1>4, <1>5, <1>6 DEF Rises, e

-----------------------------------------------------------------------------
(* Byte ranges and chunks.                                                 *)

\* s holds tensors one after the other in their file.
Frames(s) ==
    /\ s \in Seq(TensorFrames)
    /\ \A i \in DOMAIN s : s[i].start <= s[i].stop
    /\ \A i, j \in DOMAIN s : i < j => s[i].stop <= s[j].start

\* The offsets of a tensor are natural numbers in their order.
LEMMA FrameTypes ==
  ASSUME NEW s, Frames(s), NEW i \in DOMAIN s
  PROVE  /\ s[i] \in TensorFrames /\ s[i].start \in Nat /\ s[i].stop \in Nat
         /\ Bytes(s[i]) \in Nat /\ s[i].stays \in BOOLEAN /\ s[i].start <= s[i].stop
<1>1. s[i] \in TensorFrames /\ s[i].start <= s[i].stop
  BY DEF Frames
<1>2. s[i].start \in Nat /\ s[i].stop \in Nat /\ s[i].stays \in BOOLEAN
  BY <1>1 DEF TensorFrames
<1>3. QED
  BY <1>1, <1>2 DEF Bytes

\* Tensors begin, and end, in their order.
LEMMA FramesInOrder ==
  ASSUME NEW s, Frames(s), NEW i \in DOMAIN s, NEW j \in DOMAIN s, i <= j
  PROVE  s[i].start <= s[j].start /\ s[i].stop <= s[j].stop
<1>1. /\ s[i].start \in Nat /\ s[i].stop \in Nat /\ s[j].start \in Nat /\ s[j].stop \in Nat
      /\ s[i].start <= s[i].stop /\ s[j].start <= s[j].stop
  BY FrameTypes
<1>2. s \in Seq(TensorFrames) /\ i \in Nat /\ j \in Nat
  <2>1. s \in Seq(TensorFrames)
    BY DEF Frames
  <2>2. QED
    BY <2>1
<1>3. CASE i = j
  BY <1>1, <1>3
<1>4. CASE i < j
  <2>1. s[i].stop <= s[j].start
    BY <1>4 DEF Frames
  <2>2. QED
    BY <1>1, <2>1
<1>5. QED
  BY <1>2, <1>3, <1>4

\* Some of the tensors are still one after the other.
LEMMA FramesAmong ==
  ASSUME NEW s, Frames(s), NEW S
  PROVE  Frames(Among(s, S))
<1> DEFINE q == Among(s, S)
           R == {c \in TensorFrames \X TensorFrames : c[1].stop <= c[2].start}
<1>1. s \in Seq(TensorFrames)
  BY DEF Frames
<1>2. /\ q \in Seq(TensorFrames)
      /\ \A j \in DOMAIN q : q[j] \in S /\ \E i \in DOMAIN s : q[j] = s[i]
      /\ OrderKept(s, q, R)
  BY <1>1, AmongHas
<1> HIDE DEF q
<1>3. \A x, y \in TensorFrames : <<x, y>> \in R <=> x.stop <= y.start
  OBVIOUS
<1>4. \A i \in DOMAIN s : s[i] \in TensorFrames
  BY <1>1
<1>5. \A j \in DOMAIN q : q[j] \in TensorFrames
  BY <1>2
<1> HIDE DEF R
<1>6. \A i, j \in DOMAIN s : i < j => <<s[i], s[j]>> \in R
  BY <1>3, <1>4 DEF Frames
<1>7. \A i, j \in DOMAIN q : i < j => <<q[i], q[j]>> \in R
  BY <1>2, <1>6 DEF OrderKept
<1>8. \A i, j \in DOMAIN q : i < j => q[i].stop <= q[j].start
  BY <1>3, <1>5, <1>7
<1>9. \A j \in DOMAIN q : q[j].start <= q[j].stop
  BY <1>2 DEF Frames
<1>10. QED
  BY <1>2, <1>8, <1>9 DEF Frames, q

\* So are the tensors of a part of them.
LEMMA FramesPart ==
  ASSUME NEW s, Frames(s), NEW x \in 1 .. Len(s), NEW p, p \in Seq(TensorFrames),
         \A k \in 1 .. Len(p) : (x + k) - 1 \in 1 .. Len(s) /\ p[k] = s[(x + k) - 1]
  PROVE  Frames(p)
<1>1. s \in Seq(TensorFrames) /\ DOMAIN s = 1 .. Len(s) /\ DOMAIN p = 1 .. Len(p)
  <2>1. s \in Seq(TensorFrames)
    BY DEF Frames
  <2>2. QED
    BY <2>1
<1>2. \A k \in DOMAIN p : p[k].start <= p[k].stop
  BY <1>1 DEF Frames
<1>3. ASSUME NEW i \in DOMAIN p, NEW j \in DOMAIN p, i < j PROVE p[i].stop <= p[j].start
  <2>1. (x + i) - 1 < (x + j) - 1
    BY <1>1, <1>3
  <2>2. p[i] = s[(x + i) - 1] /\ p[j] = s[(x + j) - 1]
        /\ (x + i) - 1 \in DOMAIN s /\ (x + j) - 1 \in DOMAIN s
    BY <1>1
  <2> DEFINE a == (x + i) - 1
             b == (x + j) - 1
  <2> HIDE DEF a, b
  <2>3. p[i] = s[a] /\ p[j] = s[b] /\ a \in DOMAIN s /\ b \in DOMAIN s /\ a < b
    BY <2>1, <2>2 DEF a, b
  <2>4. QED
    BY <2>3 DEF Frames
<1>4. QED
  BY <1>2, <1>3 DEF Frames

\* What is read for names: every tensor with bytes lies in a range, the ranges
\* are apart, and they span no more than some first tensors of names do.
LEMMA RangeFacts ==
  ASSUME NEW names, Frames(names), NEW gap \in Nat, NEW r, r = ByteRanges(names, gap)
  PROVE  /\ r \in Seq(Nat \X Nat)
         /\ \A k \in DOMAIN names : Bytes(names[k]) > 0 =>
              \E n \in DOMAIN r : InRange(names[k], r[n])
         /\ \A n \in DOMAIN r : n > 1 => r[n - 1][2] + gap < r[n][1]
         /\ r # <<>> => /\ names # <<>> /\ r[1][1] <= r[Len(r)][2]
                        /\ \E j \in DOMAIN names :
                              /\ Bytes(names[j]) > 0
                              /\ r[Len(r)][2] - r[1][1] <= names[j].stop - names[1].start
<1> DEFINE S == {names[k] : k \in {k \in DOMAIN names : Bytes(names[k]) > 0}}
           full == Among(names, S)
           cuts == {c \in (DOMAIN full) \X (DOMAIN full) :
                       c[1] < c[2] /\ Apart(full, c[2], gap)}
           b == Bounds(Len(full), cuts)
           runs == Pieces(full, cuts)
<1>1. r = [n \in DOMAIN runs |-> <<runs[n][1].start, runs[n][Len(runs[n])].stop>>]
  BY Zenon DEF ByteRanges
<1>2. names \in Seq(TensorFrames) /\ DOMAIN names = 1 .. Len(names) /\ Len(names) \in Nat
  <2>1. names \in Seq(TensorFrames)
    BY DEF Frames
  <2>2. QED
    BY <2>1
<1>3. Frames(full)
  BY FramesAmong
<1>4. full \in Seq(TensorFrames) /\ DOMAIN full = 1 .. Len(full) /\ Len(full) \in Nat
  <2>1. full \in Seq(TensorFrames)
    BY <1>3 DEF Frames
  <2> HIDE DEF full
  <2>2. QED
    BY <2>1
<1>5. /\ \A j \in DOMAIN full : full[j] \in S /\ \E i \in DOMAIN names : full[j] = names[i]
      /\ \A i \in DOMAIN names : names[i] \in S => \E j \in DOMAIN full : full[j] = names[i]
  <2> HIDE DEF S
  <2> DEFINE T == TensorFrames
  <2>1. names \in Seq(T)
    BY <1>2
  <2> HIDE DEF T
  <2>2. /\ full \in Seq(T)
        /\ \A j \in DOMAIN full : full[j] \in S /\ \E i \in DOMAIN names : full[j] = names[i]
        /\ \A i \in DOMAIN names : names[i] \in S => \E j \in DOMAIN full : full[j] = names[i]
        /\ OrderKept(names, full, {})
    BY <2>1, AmongHas
  <2>3. QED
    BY <2>2
<1>6. \A j \in DOMAIN full : \E i \in DOMAIN names : full[j] = names[i] /\ Bytes(names[i]) > 0
  <2>1. \A x \in S : \E i \in DOMAIN names : x = names[i] /\ Bytes(names[i]) > 0
    OBVIOUS
  <2> HIDE DEF S, full
  <2>2. QED
    BY <1>5, <2>1
<1>7. \A i \in DOMAIN names : Bytes(names[i]) > 0 => \E j \in DOMAIN full : full[j] = names[i]
  <2>1. \A i \in DOMAIN names : Bytes(names[i]) > 0 => names[i] \in S
    OBVIOUS
  <2> HIDE DEF S, full
  <2>2. QED
    BY <1>5, <2>1
<1> HIDE DEF S, full
<1>8. /\ Tiles(b, Len(full), cuts) /\ DOMAIN runs = 1 .. Len(b) /\ Len(b) \in Nat
      /\ \A n \in 1 .. Len(b) :
           /\ b[n][1] \in 1 .. Len(full) /\ b[n][2] \in b[n][1] .. Len(full)
           /\ runs[n][1] = full[b[n][1]] /\ runs[n][Len(runs[n])] = full[b[n][2]]
  <2>1. Tiles(b, Len(full), cuts)
    BY <1>4, BoundsTile
  <2>2. Len(b) \in Nat
    BY <2>1, <1>4, EndsRise
  <2> HIDE DEF cuts
  <2> DEFINE bb == b
             rr == runs
  <2>3. bb = Bounds(Len(full), cuts) /\ rr = Pieces(full, cuts)
    OBVIOUS
  <2> HIDE DEF bb, rr
  <2>4. /\ DOMAIN rr = 1 .. Len(bb)
        /\ \A n \in 1 .. Len(bb) :
           /\ bb[n][1] \in 1 .. Len(full) /\ bb[n][2] \in bb[n][1] .. Len(full)
           /\ rr[n][1] = full[bb[n][1]] /\ rr[n][Len(rr[n])] = full[bb[n][2]]
    <3>1. CutInto(TensorFrames, full, bb, rr)
      BY <1>4, <2>3, PieceFacts
    <3>2. QED
      BY <3>1, Zenon DEF CutInto
  <2>5. QED
    BY <2>1, <2>2, <2>4 DEF bb, rr
<1>9. \A c \in Nat \X Nat : c \in cuts => full[c[2]].start - full[c[2] - 1].stop > gap
  BY DEF Apart
<1> HIDE DEF b, runs, cuts
<1>10. \A n \in 1 .. Len(b) : r[n] = <<full[b[n][1]].start, full[b[n][2]].stop>>
  BY <1>1, <1>8
<1>11. \A j \in 1 .. Len(full) : full[j].start \in Nat /\ full[j].stop \in Nat
  BY <1>3, <1>4, FrameTypes
<1>12. r \in Seq(Nat \X Nat) /\ Len(r) = Len(b) /\ DOMAIN r = 1 .. Len(b)
  <2>1. \A n \in 1 .. Len(b) : b[n][1] \in 1 .. Len(full) /\ b[n][2] \in 1 .. Len(full)
    BY <1>4, <1>8
  <2>2. \A n \in 1 .. Len(b) : r[n] \in Nat \X Nat
    <3> SUFFICES ASSUME NEW n \in 1 .. Len(b) PROVE r[n] \in Nat \X Nat
      OBVIOUS
    <3>1. full[b[n][1]].start \in Nat /\ full[b[n][2]].stop \in Nat
      BY <1>11, <2>1
    <3>2. r[n] = <<full[b[n][1]].start, full[b[n][2]].stop>>
      BY <1>10
    <3> DEFINE u == full[b[n][1]].start
               v == full[b[n][2]].stop
    <3> HIDE DEF u, v
    <3>3. r[n] = <<u, v>> /\ u \in Nat /\ v \in Nat
      BY <3>1, <3>2 DEF u, v
    <3>4. QED
      BY <3>3
  <2>3. DOMAIN r = 1 .. Len(b) /\ r = [n \in 1 .. Len(b) |-> r[n]]
    BY <1>1, <1>8
  <2>4. r \in [1 .. Len(b) -> Nat \X Nat]
    BY <2>2, <2>3
  <2>5. QED
    BY <1>8, <2>3, <2>4, SeqOfFun
<1>13. \A n \in 1 .. Len(b) : r[n][1] = full[b[n][1]].start /\ r[n][2] = full[b[n][2]].stop
  BY <1>10
<1>14. ASSUME NEW k \in DOMAIN names, Bytes(names[k]) > 0
       PROVE  \E n \in DOMAIN r : InRange(names[k], r[n])
  <2>1. PICK j \in 1 .. Len(full) : full[j] = names[k]
    BY <1>4, <1>7, <1>14
  <2>2. PICK n \in 1 .. Len(b) : b[n][1] <= j /\ j <= b[n][2]
    BY <1>4, <1>8, TilesCover
  <2>3. b[n][1] \in DOMAIN full /\ b[n][2] \in DOMAIN full /\ j \in DOMAIN full
    BY <1>4, <1>8
  <2>4. full[b[n][1]].start <= full[j].start /\ full[j].stop <= full[b[n][2]].stop
    BY <1>3, <2>2, <2>3, FramesInOrder
  <2>5. InRange(names[k], r[n])
    BY <1>13, <2>1, <2>4 DEF InRange
  <2>6. QED
    BY <1>12, <2>5
<1>15. ASSUME NEW n \in DOMAIN r, n > 1 PROVE r[n - 1][2] + gap < r[n][1]
  <2>1. n \in 2 .. Len(b) /\ n - 1 \in 1 .. Len(b) /\ n \in 1 .. Len(b)
    BY SMTT(30), <1>8, <1>12, <1>15
  <2>2. b[n][1] = b[n - 1][2] + 1 /\ <<b[n - 1][1], b[n][1]>> \in cuts
    BY <1>8, <2>1 DEF Tiles
  <2> DEFINE u == b[n - 1][2]
             v == b[n][1]
  <2>3. u \in 1 .. Len(full) /\ v \in 1 .. Len(full) /\ b[n - 1][1] \in Nat
    BY <1>4, <1>8, <2>1
  <2>4. v - 1 = u
    BY <2>2, <2>3
  <2>5. full[v].start - full[u].stop > gap
    <3>1. <<b[n - 1][1], v>> \in Nat \X Nat
      BY <2>3
    <3>2. full[v].start - full[v - 1].stop > gap
      BY <1>9, <2>2, <3>1
    <3>3. QED
      BY <2>4, <3>2
  <2>6. r[n - 1][2] = full[u].stop /\ r[n][1] = full[v].start
    BY <1>13, <2>1
  <2> HIDE DEF u, v
  <2>7. full[u].stop \in Nat /\ full[v].start \in Nat
    BY <1>11, <2>3
  <2>8. QED
    BY <2>5, <2>6, <2>7
<1>16. ASSUME r # <<>>
       PROVE  /\ names # <<>> /\ r[1][1] <= r[Len(r)][2]
              /\ \E j \in DOMAIN names :
                   /\ Bytes(names[j]) > 0
                   /\ r[Len(r)][2] - r[1][1] <= names[j].stop - names[1].start
  <2>1. Len(b) > 0 /\ Len(b) \in 1 .. Len(b) /\ 1 \in 1 .. Len(b)
    BY <1>8, <1>12, <1>16
  <2>2. Len(full) > 0
    BY <1>4, <1>8, <2>1
  <2>3. b[1][1] = 1 /\ b[Len(b)][2] = Len(full)
    BY <1>8, <2>2 DEF Tiles
  <2> DEFINE m == Len(full)
  <2>4. r[1][1] = full[1].start /\ r[Len(r)][2] = full[m].stop
    BY <1>12, <1>13, <2>1, <2>3
  <2>5. 1 \in DOMAIN full /\ m \in DOMAIN full /\ 1 <= m
    BY <1>4, <2>2
  <2> HIDE DEF m
  <2>6. PICK i \in DOMAIN names : full[1] = names[i]
    BY <1>6, <2>5
  <2>7. PICK j \in DOMAIN names : full[m] = names[j] /\ Bytes(names[j]) > 0
    BY <1>6, <2>5
  <2>8. 1 \in DOMAIN names /\ 1 <= i /\ names # <<>>
    BY <1>2
  <2>9. names[1].start <= names[i].start
    BY <2>8, FramesInOrder
  <2>10. full[1].stop <= full[m].stop /\ full[1].start <= full[1].stop
    BY <1>3, <2>5, FramesInOrder, FrameTypes
  <2>11. /\ full[1].start \in Nat /\ full[1].stop \in Nat /\ full[m].stop \in Nat
         /\ names[1].start \in Nat /\ names[i].start \in Nat /\ names[j].stop \in Nat
    BY <1>3, <2>5, <2>8, FrameTypes
  <2>12. r[1][1] <= r[Len(r)][2]
    BY <2>4, <2>10, <2>11
  <2>13. r[Len(r)][2] - r[1][1] <= names[j].stop - names[1].start
    BY <2>4, <2>6, <2>7, <2>9, <2>11
  <2>14. QED
    BY <2>7, <2>8, <2>12, <2>13
<1>17. QED
  BY <1>12, <1>14, <1>15, <1>16

\* The largest tensor is one of them and no other is larger.
LEMMA LargestFacts ==
  ASSUME NEW s, Frames(s)
  PROVE  /\ LargestOf(s) \in Nat
         /\ \A k \in DOMAIN s : Bytes(s[k]) <= LargestOf(s)
         /\ s = <<>> => LargestOf(s) = 0
         /\ s # <<>> => \E k \in DOMAIN s : LargestOf(s) = Bytes(s[k])
<1>1. s \in Seq(TensorFrames) /\ DOMAIN s = 1 .. Len(s) /\ Len(s) \in Nat
  <2>1. s \in Seq(TensorFrames)
    BY DEF Frames
  <2>2. QED
    BY <2>1
<1>2. \A k \in DOMAIN s : Bytes(s[k]) \in Nat
  BY FrameTypes
<1>3. CASE s = <<>>
  <2>1. LargestOf(s) = 0
    BY <1>3 DEF LargestOf
  <2>2. QED
    BY <1>1, <1>3, <2>1
<1>4. CASE s # <<>>
  <2> DEFINE f == [k \in 1 .. Len(s) |-> Bytes(s[k])]
             n == Len(s)
  <2>1. f \in [1 .. n -> Nat] /\ \A k \in 1 .. n : f[k] = Bytes(s[k])
    BY <1>1, <1>2
  <2>2. n \in Nat \ {0}
    BY <1>1, <1>4
  <2> HIDE DEF f
  <2>3. \E k \in 1 .. n : \A j \in 1 .. n : f[j] <= f[k]
    <3> HIDE DEF n
    <3>1. QED
      BY <2>1, <2>2, Highest
  <2>5. \E k \in DOMAIN s : \A j \in DOMAIN s : Bytes(s[j]) <= Bytes(s[k])
    BY <1>1, <2>1, <2>3
  <2> DEFINE c == CHOOSE k \in DOMAIN s : \A j \in DOMAIN s : Bytes(s[j]) <= Bytes(s[k])
  <2>6. c \in DOMAIN s /\ \A j \in DOMAIN s : Bytes(s[j]) <= Bytes(s[c])
    BY <2>5
  <2>7. LargestOf(s) = Bytes(s[c])
    BY <1>4 DEF LargestOf
  <2> HIDE DEF c
  <2>8. QED
    BY <1>2, <1>4, <2>6, <2>7
<1>5. QED
  BY <1>3, <1>4

\* What plan_chunks makes of kept, with at most max bytes each
ChunkGood(c, kept, max, gap) ==
    /\ c.names # <<>> /\ Frames(c.names) /\ c.ranges \in Seq(Nat \X Nat)
    /\ \A k \in DOMAIN c.names : Bytes(c.names[k]) > 0 =>
         \E n \in DOMAIN c.ranges : InRange(c.names[k], c.ranges[n])
    /\ \A n \in DOMAIN c.ranges : n > 1 => c.ranges[n - 1][2] + gap < c.ranges[n][1]
    /\ Span(c) \in Nat /\ Span(c) <= max
    /\ c.ranges # <<>> => LargestOf(kept) > 0

\* e are the places where the chunks end.
ChunksOf(chunks, e, kept, max, gap) ==
    /\ DOMAIN chunks = 1 .. Len(chunks) /\ Len(chunks) \in Nat
    /\ Rises(e, Len(chunks), Len(kept)) /\ e[Len(chunks)] = Len(kept)
    /\ \A j \in 1 .. Len(chunks) :
         /\ chunks[j].names = SubSeq(kept, e[j - 1] + 1, e[j])
         /\ ChunkGood(chunks[j], kept, max, gap)

\* The chunks hold the kept tensors in their order, none spans more than it may.
LEMMA ChunkFacts ==
  ASSUME NEW kept, Frames(kept), NEW max \in Nat, NEW gap \in Nat, LargestOf(kept) <= max,
         NEW chunks, chunks = PlanChunks(kept, max, gap)
  PROVE  \E e : ChunksOf(chunks, e, kept, max, gap)
<1> DEFINE cuts == {c \in (DOMAIN kept) \X (DOMAIN kept) : TooFar(kept, c[1], c[2], max)}
           b == Bounds(Len(kept), cuts)
           p == Pieces(kept, cuts)
           e == Ends(b)
<1>1. chunks = [n \in DOMAIN p |-> [names |-> p[n], ranges |-> ByteRanges(p[n], gap)]]
  BY Zenon DEF PlanChunks
<1>2. kept \in Seq(TensorFrames) /\ DOMAIN kept = 1 .. Len(kept) /\ Len(kept) \in Nat
  <2>1. kept \in Seq(TensorFrames)
    BY DEF Frames
  <2>2. QED
    BY <2>1
<1>3. \A i, k \in DOMAIN kept : <<i, k>> \notin cuts => ~(kept[k].stop - kept[i].start > max)
  BY DEF TooFar
<1> HIDE DEF cuts
<1>4. Tiles(b, Len(kept), cuts) /\ CutInto(TensorFrames, kept, b, p)
  <2> DEFINE bb == b
             pp == p
  <2>1. bb = Bounds(Len(kept), cuts) /\ pp = Pieces(kept, cuts)
    OBVIOUS
  <2> HIDE DEF bb, pp
  <2>2. Tiles(bb, Len(kept), cuts) /\ CutInto(TensorFrames, kept, bb, pp)
    BY <1>2, <2>1, PieceFacts
  <2>3. QED
    BY <2>2 DEF bb, pp
<1> HIDE DEF b, p
<1>5. /\ Rises(e, Len(b), Len(kept)) /\ Len(b) \in Nat /\ e[Len(b)] = Len(kept)
      /\ \A j \in 1 .. Len(b) : e[j - 1] + 1 = b[j][1] /\ e[j] = b[j][2]
  BY <1>2, <1>4, EndsRise
<1> HIDE DEF e
<1>6. DOMAIN p = 1 .. Len(b)
  BY <1>4 DEF CutInto
<1>7. DOMAIN chunks = 1 .. Len(b) /\ Len(chunks) = Len(b)
  <2>1. DOMAIN chunks = 1 .. Len(b)
    BY <1>1, <1>6
  <2>2. chunks = [n \in 1 .. Len(b) |-> chunks[n]]
    BY <1>1, <1>6
  <2>3. QED
    BY <1>5, <2>1, <2>2
<1>8. ASSUME NEW j \in 1 .. Len(b)
      PROVE  /\ chunks[j].names = SubSeq(kept, e[j - 1] + 1, e[j])
             /\ ChunkGood(chunks[j], kept, max, gap)
  <2> DEFINE q == p[j]
             x == b[j][1]
             y == b[j][2]
             r == ByteRanges(q, gap)
             c == chunks[j]
  <2>1. c.names = q /\ c.ranges = r
    BY <1>1, <1>6
  <2>2. /\ q \in Seq(TensorFrames) /\ q # <<>> /\ q = SubSeq(kept, x, y)
        /\ Len(q) = (y - x) + 1 /\ x \in 1 .. Len(kept) /\ y \in x .. Len(kept)
        /\ \A k \in 1 .. Len(q) : (x + k) - 1 \in x .. y /\ q[k] = kept[(x + k) - 1]
    BY <1>4 DEF CutInto
  <2>3. \A k \in Nat : x < k /\ k <= y => <<x, k>> \notin cuts
    BY <1>4, Zenon DEF Tiles
  <2>4. q = SubSeq(kept, e[j - 1] + 1, e[j])
    BY <1>5, <2>2
  <2> HIDE DEF q, x, y, c
  <2>5. \A k \in 1 .. Len(q) : (x + k) - 1 \in 1 .. Len(kept)
    BY <1>2, <2>2
  <2>6. Frames(q)
    BY <2>2, <2>5, FramesPart
  <2>7. ASSUME NEW i \in x .. y
        PROVE  i \in 1 .. Len(kept) /\ kept[i].stop - kept[x].start <= max
    <3>1. /\ i \in DOMAIN kept /\ x \in DOMAIN kept /\ i \in 1 .. Len(kept)
          /\ i \in Nat /\ x \in Nat /\ y \in Nat /\ x <= i /\ i <= y
      BY <1>2, <2>2
    <3>2. kept[i].stop \in Nat /\ kept[x].start \in Nat /\ kept[x].stop \in Nat
      BY <3>1, FrameTypes
    <3>3. CASE i = x
      <4>1. Bytes(kept[x]) <= max
        <5>1. Bytes(kept[x]) <= LargestOf(kept) /\ LargestOf(kept) \in Nat
          BY <3>1, LargestFacts
        <5>2. Bytes(kept[x]) \in Nat
          BY <3>1, FrameTypes
        <5>3. QED
          BY <5>1, <5>2
      <4>2. QED
        BY <3>1, <3>3, <4>1 DEF Bytes
    <3>4. CASE x < i
      <4>1. <<x, i>> \notin cuts
        BY <2>3, <3>1, <3>4
      <4>2. ~(kept[i].stop - kept[x].start > max)
        BY <1>3, <3>1, <4>1
      <4>3. QED
        BY <3>1, <3>2, <4>2
    <3>5. QED
      BY <3>1, <3>3, <3>4
  <2>8. /\ r \in Seq(Nat \X Nat)
        /\ \A k \in DOMAIN q : Bytes(q[k]) > 0 => \E n \in DOMAIN r : InRange(q[k], r[n])
        /\ \A n \in DOMAIN r : n > 1 => r[n - 1][2] + gap < r[n][1]
        /\ r # <<>> => /\ q # <<>> /\ r[1][1] <= r[Len(r)][2]
                       /\ \E k \in DOMAIN q :
                             /\ Bytes(q[k]) > 0
                             /\ r[Len(r)][2] - r[1][1] <= q[k].stop - q[1].start
    BY <2>6, RangeFacts
  <2> HIDE DEF r
  <2>9. Span(c) = IF r = <<>> THEN 0 ELSE r[Len(r)][2] - r[1][1]
    BY <2>1 DEF Span
  <2>10. ASSUME r # <<>>
         PROVE  /\ r[Len(r)][2] - r[1][1] \in Nat /\ r[Len(r)][2] - r[1][1] <= max
                /\ LargestOf(kept) > 0
    <3>1. PICK k \in DOMAIN q : /\ Bytes(q[k]) > 0
                                /\ r[Len(r)][2] - r[1][1] <= q[k].stop - q[1].start
      BY <2>8, <2>10
    <3>2. /\ k \in 1 .. Len(q) /\ 1 \in 1 .. Len(q) /\ (x + 1) - 1 = x
          /\ Len(r) \in 1 .. Len(r) /\ 1 \in 1 .. Len(r)
      <4>1. r \in Seq(Nat \X Nat)
        BY <2>8
      <4>2. Len(r) \in Nat \ {0}
        BY <2>10, <4>1
      <4>3. Len(r) \in 1 .. Len(r) /\ 1 \in 1 .. Len(r)
        BY <4>2
      <4>4. k \in 1 .. Len(q) /\ Len(q) \in Nat
        BY <2>2
      <4>5. 1 \in 1 .. Len(q)
        BY <4>4
      <4>6. (x + 1) - 1 = x
        BY <2>2
      <4>7. QED
        BY <4>3, <4>4, <4>5, <4>6
    <3>3. q[1] = kept[x]
      BY <2>2, <3>2
    <3> DEFINE i == (x + k) - 1
    <3>4. q[k] = kept[i] /\ i \in x .. y
      BY <2>2, <3>2
    <3> HIDE DEF i
    <3>5. kept[i].stop - kept[x].start <= max /\ i \in DOMAIN kept /\ x \in DOMAIN kept
      BY <1>2, <2>2, <2>7, <3>4
    <3>6. kept[i].stop \in Nat /\ kept[x].start \in Nat
      BY <3>5, FrameTypes
    <3> DEFINE u == r[1][1]
               v == r[Len(r)][2]
    <3>7. u \in Nat /\ v \in Nat
      <4>1. r[1] \in Nat \X Nat /\ r[Len(r)] \in Nat \X Nat
        BY SMTT(30), <2>8, <3>2
      <4>2. QED
        BY <4>1
    <3>8. u <= v /\ v - u <= kept[i].stop - kept[x].start
      BY <2>8, <2>10, <3>1, <3>3, <3>4
    <3> HIDE DEF u, v
    <3>9. v - u \in Nat /\ v - u <= max
      BY <3>5, <3>6, <3>7, <3>8
    <3>10. LargestOf(kept) > 0
      <4>1. Bytes(kept[i]) > 0 /\ Bytes(kept[i]) <= LargestOf(kept)
        BY <3>1, <3>4, <3>5, LargestFacts
      <4>2. Bytes(kept[i]) \in Nat /\ LargestOf(kept) \in Nat
        BY <3>5, FrameTypes, LargestFacts
      <4>3. QED
        BY <4>1, <4>2
    <3>11. QED
      BY <3>9, <3>10 DEF u, v
  <2>11. Span(c) \in Nat /\ Span(c) <= max
    BY <2>9, <2>10
  <2>12. ChunkGood(c, kept, max, gap)
    BY <2>1, <2>2, <2>6, <2>8, <2>10, <2>11 DEF ChunkGood
  <2>13. QED
    BY <2>1, <2>4, <2>12 DEF c
<1>9. ChunksOf(chunks, e, kept, max, gap)
  BY <1>5, <1>7, <1>8 DEF ChunksOf
<1>10. QED
  BY <1>9

-----------------------------------------------------------------------------
(* Arithmetic.                                                             *)

\* Division that rounds down is the inverse of multiplication.
LEMMA FloorDivision ==
    ASSUME NEW a \in Int, NEW b \in Nat \ {0}, NEW c \in Int
    PROVE  c <= a \div b <=> c * b <= a
  BY SMT

\* The bound of the plan on the largest tensor l, solved for the depth d
LEMMA Inversion ==
    ASSUME NEW d \in Nat \ {0}, NEW m \in Nat \ {0}, NEW l \in Nat \ {0},
           NEW o \in Nat, NEW c \in Nat, NEW room \in Int
    PROVE  /\ (room - d * o) \div (d * m + c) \in Int
           /\ l <= (room - d * o) \div (d * m + c)
                <=> d <= (room - c * l) \div (m * l + o)
  <1> DEFINE left == room - d * o
             eff == d * m + c
             right == room - c * l
             each == m * l + o
  <1>1. left \in Int /\ eff \in Nat \ {0} /\ right \in Int /\ each \in Nat \ {0}
    <2>1. \A a \in Nat \ {0}, b \in Nat \ {0} : a * b \in Nat \ {0}
      BY SMT
    <2>2. d * m \in Nat \ {0} /\ m * l \in Nat \ {0}
      BY <2>1
    <2>3. d * o \in Nat /\ c * l \in Nat
      BY SMT
    <2> QED BY <2>2, <2>3
  <1>2. l * eff <= left <=> d * each <= right
    BY SMT
  <1> HIDE DEF left, eff, right, each
  <1>3. left \div eff \in Int
    BY <1>1
  <1>4. l <= left \div eff <=> l * eff <= left
    BY <1>1, FloorDivision
  <1>5. d <= right \div each <=> d * each <= right
    BY <1>1, FloorDivision
  <1> QED BY <1>2, <1>3, <1>4, <1>5 DEF left, eff, right, each

\* A set of integers that a finite set indexes has a least element.
LEMMA LeastOf ==
    ASSUME NEW S, IsFiniteSet(S), S # {}, S \subseteq Int
    PROVE  \E x \in S : \A y \in S : x <= y
  <1> DEFINE Below(x) == {y \in S : y < x}
             downs == {Below(x) : x \in S}
             R == StrictSubsetOrdering(S)
             F == FiniteSubsetsOf(S)
  <1>1. downs \subseteq F /\ downs # {}
    <2>1. F = SUBSET S
      BY FS_FiniteSubsetsOfFinite
    <2>2. \A x \in S : Below(x) \in SUBSET S
      OBVIOUS
    <2> HIDE DEF Below, F
    <2>3. downs \subseteq F
      BY <2>1, <2>2
    <2>4. downs # {}
      OBVIOUS
    <2> QED BY <2>3, <2>4
  <1>2. IsWellFoundedOn(R, F)
    BY FS_StrictSubsetOrderingWellFounded
  <1>3. PICK D \in downs : \A E \in downs : ~ (<<E, D>> \in R)
    <2> HIDE DEF downs, R, F
    <2> QED BY <1>1, <1>2, WFMin
  <1>4. PICK x \in S : D = Below(x)
    OBVIOUS
  <1>5. ASSUME NEW y \in S, y < x PROVE FALSE
    <2>1. y \in Int /\ x \in Int
      OBVIOUS
    <2>2. y \in Below(x) /\ y \notin Below(y)
      BY <1>5, <2>1
    <2>3. ASSUME NEW z \in Below(y) PROVE z \in Below(x)
      BY <1>5, <2>1, <2>3
    <2>4. <<Below(y), Below(x)>> \in R
      <3>1. Below(y) \in SUBSET S /\ Below(x) \in SUBSET S
        OBVIOUS
      <3>2. Below(y) \subseteq Below(x) /\ Below(y) # Below(x)
        BY <2>2, <2>3
      <3> QED BY <3>1, <3>2, Zenon DEF StrictSubsetOrdering
    <2> QED BY <2>4, <1>3, <1>4
  <1> QED BY <1>5

-----------------------------------------------------------------------------
(* Statistics of the files, and what they are charged.                     *)

\* The sizes of the tensors of a file, and of those that stay
LEMMA SizesFacts ==
  ASSUME NEW s, Frames(s)
  PROVE  /\ s \in Seq(TensorFrames) /\ DOMAIN s = 1 .. Len(s) /\ Len(s) \in Nat
         /\ Sizes(s) \in Seq(Nat) /\ Len(Sizes(s)) = Len(s)
         /\ StayingSizes(s) \in Seq(Nat) /\ Len(StayingSizes(s)) = Len(s)
         /\ \A k \in 1 .. Len(s) :
              /\ Sizes(s)[k] = Bytes(s[k]) /\ Bytes(s[k]) \in Nat
              /\ StayingSizes(s)[k] = IF s[k].stays THEN Bytes(s[k]) ELSE 0
<1>1. s \in Seq(TensorFrames) /\ DOMAIN s = 1 .. Len(s) /\ Len(s) \in Nat
  <2>1. s \in Seq(TensorFrames)
    BY DEF Frames
  <2>2. QED
    BY <2>1
<1>2. \A k \in 1 .. Len(s) : Bytes(s[k]) \in Nat
  BY <1>1, FrameTypes
<1> DEFINE a == Sizes(s)
           b == StayingSizes(s)
<1>3. /\ a = [k \in 1 .. Len(s) |-> Bytes(s[k])]
      /\ b = [k \in 1 .. Len(s) |-> IF s[k].stays THEN Bytes(s[k]) ELSE 0]
  BY <1>1, Zenon DEF Sizes, StayingSizes
<1> HIDE DEF a, b
<1>4. a \in [1 .. Len(s) -> Nat]
  BY <1>2, <1>3
<1>5. b \in [1 .. Len(s) -> Nat]
  <2>1. \A k \in 1 .. Len(s) : (IF s[k].stays THEN Bytes(s[k]) ELSE 0) \in Nat
    BY <1>2
  <2>2. QED
    BY <1>3, <2>1
<1>6. a \in Seq(Nat) /\ Len(a) = Len(s) /\ b \in Seq(Nat) /\ Len(b) = Len(s)
  BY <1>1, <1>4, <1>5, SeqOfFun
<1>7. QED
  BY <1>1, <1>2, <1>3, <1>6 DEF a, b

\* A file: what stays is part of what is kept, and all of it only if every
\* tensor with bytes stays.
LEMMA FileStatsFacts ==
  ASSUME NEW s, Frames(s), NEW st, st = FileStats(s)
  PROVE  /\ st.kept \in Nat /\ st.largest \in Nat /\ st.resident \in Nat
         /\ st.resident = Total(StayingSizes(s)) /\ st.largest = LargestOf(s)
         /\ st.largest > 0 <=> st.kept > 0
         /\ st.resident <= st.kept
         /\ ~(st.resident < st.kept) =>
               \A k \in DOMAIN s : Bytes(s[k]) > 0 => s[k].stays
<1> DEFINE a == Sizes(s)
           b == StayingSizes(s)
           n == Len(s)
<1>1. /\ st.kept = SumTo(a, n) /\ st.largest = LargestOf(s) /\ st.resident = SumTo(b, n)
      /\ st.resident = Total(StayingSizes(s))
  BY SizesFacts DEF FileStats, Total
<1>2. /\ n \in Nat /\ DOMAIN s = 1 .. n
      /\ a \in Seq(Nat) /\ Len(a) = n /\ b \in Seq(Nat) /\ Len(b) = n
      /\ \A k \in 1 .. n : /\ a[k] = Bytes(s[k]) /\ Bytes(s[k]) \in Nat
                           /\ b[k] = IF s[k].stays THEN Bytes(s[k]) ELSE 0
  BY SizesFacts
<1> HIDE DEF a, b, n
<1>3. n \in 0 .. Len(a) /\ n \in 0 .. Len(b) /\ n <= Len(a) /\ n <= Len(b)
  BY <1>2
<1>4. SumTo(a, n) \in Nat /\ SumTo(b, n) \in Nat
  BY <1>2, <1>3, SumFacts
<1>5. LargestOf(s) \in Nat
  BY LargestFacts
<1>6. LargestOf(s) > 0 => SumTo(a, n) > 0
  <2> SUFFICES ASSUME LargestOf(s) > 0 PROVE SumTo(a, n) > 0
    OBVIOUS
  <2>1. PICK k \in 1 .. n : LargestOf(s) = Bytes(s[k])
    BY <1>2, LargestFacts
  <2>2. a[k] <= SumTo(a, n)
    BY <1>2, <1>3, SumHas
  <2>3. QED
    BY <1>2, <1>4, <2>1, <2>2
<1>7. SumTo(a, n) > 0 => LargestOf(s) > 0
  <2> SUFFICES ASSUME ~(LargestOf(s) > 0) PROVE ~(SumTo(a, n) > 0)
    OBVIOUS
  <2>1. \A k \in 1 .. n : a[k] = 0
    <3> SUFFICES ASSUME NEW k \in 1 .. n PROVE a[k] = 0
      OBVIOUS
    <3>1. Bytes(s[k]) <= LargestOf(s)
      BY <1>2, LargestFacts
    <3>2. QED
      BY <1>2, <1>5, <3>1
  <2>2. SumTo(a, n) = SumTo(a, 0)
    <3>1. 0 \in 0 .. Len(a) /\ n \in 0 .. Len(a) /\ \A k \in 0 + 1 .. n : a[k] = 0
      BY <1>2, <1>3, <2>1
    <3>2. QED
      BY <1>2, <3>1, SumNothing
  <2>3. QED
    BY <1>2, <2>2, SumFacts
<1>8. ASSUME ~(SumTo(b, n) < SumTo(a, n)), NEW k \in 1 .. n, Bytes(s[k]) > 0
      PROVE  s[k].stays
  <2>1. \A i \in 1 .. n : b[i] <= a[i]
    BY <1>2
  <2>2. (\E i \in 1 .. n : b[i] # a[i]) => SumTo(b, n) < SumTo(a, n)
    BY <1>2, <1>3, <2>1, SumOrdered
  <2>3. b[k] = a[k]
    BY <1>8, <2>2
  <2>4. QED
    BY <1>2, <1>8, <2>3
<1>9. SumTo(b, n) <= SumTo(a, n)
  <2>1. \A i \in 1 .. n : b[i] <= a[i]
    BY SMTT(30), <1>2
  <2>2. QED
    BY <1>2, <1>3, <2>1, SumOrdered
<1>10. QED
  BY <1>1, <1>2, <1>4, <1>5, <1>6, <1>7, <1>8, <1>9

\* The end of the group of a file is the file or behind it, and no file up to
\* there has a later one.
LEMMA GroupEndFacts ==
  ASSUME NEW n \in Nat, NEW i \in 1 .. n, NEW group \in Nat \ {0}
  PROVE  /\ GroupEnd(i, group, n) \in i .. n
         /\ \A j \in 1 .. GroupEnd(i, group, n) :
               GroupEnd(j, group, n) <= GroupEnd(i, group, n)
<1> DEFINE q(j) == (j - 1) \div group
           End(j) == (q(j) + 1) * group
<1>1. \A a \in Nat : a \div group \in Nat
  BY SMT
<1>2. \A j \in 1 .. n : j - 1 \in Nat /\ q(j) \in Nat /\ j \in Nat
  BY <1>1
<1>3. \A a, c \in Nat : c <= a \div group <=> c * group <= a
  BY FloorDivision
<1>4. \A a \in Nat : a * group \in Nat
  BY SMT
<1>5. \A a, c \in Nat : a <= c => (a + 1) * group <= (c + 1) * group
  BY SMT
<1>6. \A j \in 1 .. n : \A c \in Nat : c <= q(j) <=> c * group <= j - 1
  BY <1>2, <1>3
<1> HIDE DEF q
<1>7. \A j \in 1 .. n : q(j) + 1 \in Nat /\ ~(q(j) + 1 <= q(j))
  BY <1>2
<1>8. \A j \in 1 .. n : End(j) \in Nat /\ ~(End(j) <= j - 1)
  BY <1>4, <1>6, <1>7
<1>9. ASSUME NEW j \in 1 .. n, j <= End(i) PROVE End(j) <= End(i)
  <2>1. ~(End(i) <= j - 1)
    <3>1. End(i) \in Nat /\ j \in Nat
      BY <1>2, <1>8
    <3> HIDE DEF End
    <3>2. QED
      BY <1>9, <3>1
  <2>2. ~(q(i) + 1 <= q(j))
    BY <1>6, <1>7, <2>1
  <2>3. q(j) <= q(i)
    BY <1>2, <2>2
  <2>4. QED
    BY <1>2, <1>5, <2>3
<1>10. \A j \in 1 .. n : GroupEnd(j, group, n) = Lesser(End(j), n)
  BY DEF GroupEnd, q
<1> HIDE DEF End
<1>11. \A j \in 1 .. n : j <= End(j)
  BY <1>2, <1>8
<1>12. GroupEnd(i, group, n) \in i .. n
  BY <1>8, <1>10, <1>11 DEF Lesser
<1>13. ASSUME NEW j \in 1 .. GroupEnd(i, group, n)
       PROVE  GroupEnd(j, group, n) <= GroupEnd(i, group, n)
  <2>1. j \in 1 .. n /\ j <= End(i)
    BY <1>8, <1>10, <1>12 DEF Lesser
  <2>2. End(j) <= End(i) /\ End(j) \in Nat /\ End(i) \in Nat
    BY <1>8, <1>9, <2>1
  <2>3. QED
    BY <1>10, <2>1, <2>2 DEF Lesser
<1>14. QED
  BY <1>12, <1>13

\* Statistics of files, one after the other
StatsGood(stats) ==
    /\ DOMAIN stats = 1 .. Len(stats) /\ Len(stats) \in Nat
    /\ \A i \in DOMAIN stats :
         /\ stats[i].kept \in Nat /\ stats[i].largest \in Nat /\ stats[i].resident \in Nat
         /\ stats[i].largest > 0 <=> stats[i].kept > 0
         /\ stats[i].resident <= stats[i].kept

Residents(stats) == [j \in DOMAIN stats |-> stats[j].resident]

\* A file is charged what is resident up to the end of its group, or nothing.
LEMMA ChargeFacts ==
  ASSUME NEW stats, StatsGood(stats), NEW p, p.group \in Nat \ {0}
  PROVE  /\ DOMAIN stats = 1 .. Len(stats) /\ Len(stats) \in Nat
         /\ Residents(stats) \in Seq(Nat) /\ Len(Residents(stats)) = Len(stats)
         /\ \A i \in 1 .. Len(stats) : Residents(stats)[i] = stats[i].resident
         /\ \A i \in 1 .. Len(stats) :
              /\ GroupEnd(i, p.group, Len(stats)) \in i .. Len(stats)
              /\ Charge(stats, p)[i] \in Nat
              /\ Charge(stats, p)[i] =
                   IF p.accumulate
                   THEN SumTo(Residents(stats), GroupEnd(i, p.group, Len(stats))) ELSE 0
<1> DEFINE n == Len(stats)
           res == Residents(stats)
<1>1. DOMAIN stats = 1 .. n /\ n \in Nat /\ \A i \in 1 .. n : stats[i].resident \in Nat
  BY DEF StatsGood
<1>2. res = [j \in 1 .. n |-> stats[j].resident]
  BY <1>1, Zenon DEF Residents
<1> HIDE DEF res
<1>3. res \in Seq(Nat) /\ Len(res) = n
  <2>1. res \in [1 .. n -> Nat]
    BY <1>1, <1>2
  <2>2. QED
    BY <1>1, <2>1, SeqOfFun
<1> HIDE DEF n
<1>4. ASSUME NEW i \in 1 .. n
      PROVE  /\ GroupEnd(i, p.group, n) \in i .. n
             /\ Charge(stats, p)[i] \in Nat
             /\ Charge(stats, p)[i] =
                  IF p.accumulate THEN SumTo(res, GroupEnd(i, p.group, n)) ELSE 0
  <2>1. GroupEnd(i, p.group, n) \in i .. n
    BY <1>1, GroupEndFacts
  <2>2. Charge(stats, p)[i] = IF p.accumulate THEN SumTo(res, GroupEnd(i, p.group, n)) ELSE 0
    <3>1. CASE p.accumulate
      <4>1. Charge(stats, p) = GroupResident(stats, p.group)
        BY <3>1 DEF Charge
      <4>2. GroupResident(stats, p.group)[i] = SumTo(res, GroupEnd(i, p.group, n))
        BY <1>1, Zenon DEF GroupResident, res, Residents, n
      <4>3. QED
        BY <3>1, <4>1, <4>2
    <3>2. CASE ~p.accumulate
      <4>1. Charge(stats, p) = [j \in DOMAIN stats |-> 0]
        BY <3>2 DEF Charge
      <4>2. QED
        BY <1>1, <3>2, <4>1
    <3>3. QED
      BY <3>1, <3>2
  <2>3. SumTo(res, GroupEnd(i, p.group, n)) \in Nat
    <3>1. GroupEnd(i, p.group, n) \in 0 .. Len(res)
      BY <1>1, <1>3, <2>1
    <3>2. QED
      BY <1>3, <3>1, SumFacts
  <2>4. QED
    BY <2>1, <2>2, <2>3
<1>5. QED
  BY <1>1, <1>2, <1>3, <1>4 DEF n, res

\* What is charged are natural numbers; a file without bytes is charged nothing
\* or the same as one with some (the last of them in or before its group).
SumsHold(stats, charge) ==
    /\ \A i \in DOMAIN stats :
         /\ charge[i] \in Nat
         /\ stats[i].kept \in Nat /\ stats[i].largest \in Nat
         /\ stats[i].largest > 0 <=> stats[i].kept > 0
         /\ stats[i].largest = 0 =>
              \/ charge[i] = 0
              \/ \E j \in DOMAIN stats : stats[j].largest > 0 /\ charge[j] = charge[i]

\* Statistics of files are charged so.
LEMMA SumsOfFiles ==
  ASSUME NEW stats, StatsGood(stats), NEW p, p.group \in Nat \ {0}
  PROVE  SumsHold(stats, Charge(stats, p))
<1> DEFINE n == Len(stats)
           res == Residents(stats)
           End(i) == GroupEnd(i, p.group, n)
           charge == Charge(stats, p)
<1>1. /\ DOMAIN stats = 1 .. n /\ n \in Nat
      /\ res \in Seq(Nat) /\ Len(res) = n
      /\ \A i \in 1 .. n : res[i] = stats[i].resident
      /\ \A i \in 1 .. n : /\ End(i) \in i .. n /\ charge[i] \in Nat
                           /\ charge[i] = IF p.accumulate THEN SumTo(res, End(i)) ELSE 0
  BY ChargeFacts
<1>2. \A i \in 1 .. n : /\ stats[i].kept \in Nat /\ stats[i].largest \in Nat
                        /\ stats[i].resident \in Nat /\ stats[i].resident <= stats[i].kept
                        /\ stats[i].largest > 0 <=> stats[i].kept > 0
  BY <1>1 DEF StatsGood
<1> HIDE DEF n, res, charge
<1>3. \A i \in 1 .. n : \A j \in 1 .. End(i) : End(j) <= End(i)
  BY <1>1, GroupEndFacts
<1> HIDE DEF End
<1>4. ASSUME NEW i \in 1 .. n, charge[i] # 0
      PROVE  \E j \in 1 .. n : stats[j].largest > 0 /\ charge[j] = charge[i]
  <2> DEFINE e == End(i)
             Has == {j \in 1 .. e : res[j] > 0}
             Left == {m \in Nat : \E j \in Has : m = e - j}
  <2>1. e \in i .. n /\ e \in 0 .. n /\ p.accumulate /\ charge[i] = SumTo(res, e)
    BY <1>1, <1>4
  <2> HIDE DEF e
  <2>2. Has # {}
    <3> SUFFICES ASSUME Has = {} PROVE FALSE
      OBVIOUS
    <3>1. \A j \in 0 + 1 .. e : res[j] = 0
      <4> SUFFICES ASSUME NEW j \in 1 .. e PROVE res[j] = 0
        OBVIOUS
      <4>1. j \in 1 .. n /\ ~(res[j] > 0)
        <5>1. j \notin Has
          OBVIOUS
        <5>2. j \in 1 .. n
          BY <1>1, <2>1
        <5>3. QED
          BY <5>1, <5>2
      <4>2. res[j] \in Nat
        BY <1>1, <1>2, <4>1
      <4>3. QED
        BY <4>1, <4>2
    <3>2. 0 \in 0 .. Len(res) /\ e \in 0 .. Len(res)
      BY <1>1, <2>1
    <3>3. SumTo(res, e) = SumTo(res, 0)
      BY <1>1, <3>1, <3>2, SumNothing
    <3>4. QED
      BY <1>1, <1>4, <2>1, <3>3, SumFacts
  <2>3. \A j \in Has : e - j \in Left
    BY <2>1
  <2>4. PICK m \in Left : \A k \in Left : m <= k
    <3>1. Left \in SUBSET Nat /\ Left # {}
      BY <2>2, <2>3
    <3> HIDE DEF Left
    <3>2. QED
      BY <3>1, LeastNumber
  <2>5. PICK j \in Has : m = e - j
    OBVIOUS
  <2>6. j \in 1 .. e /\ j \in 1 .. n /\ res[j] > 0 /\ e \in Nat /\ j \in Nat /\ e <= n
    BY <1>1, <2>1
  <2>7. ASSUME NEW k \in j + 1 .. e PROVE res[k] = 0
    <3>1. k \in 1 .. e /\ k \in 1 .. n /\ ~(e - j <= e - k)
      <4>1. j \in Nat /\ e \in Nat /\ e <= n /\ k \in j + 1 .. e
        BY <2>6
      <4> HIDE DEF Has, Left
      <4>2. k \in Nat /\ j < k /\ k <= e /\ 1 <= k
        BY <4>1
      <4>3. n \in Nat
        BY <1>1
      <4>4. k \in 1 .. e /\ k \in 1 .. n
        BY <4>1, <4>2, <4>3
      <4>5. ~(e - j <= e - k)
        BY <4>1, <4>2
      <4>6. QED
        BY <4>4, <4>5
    <3>2. k \notin Has
      <4> HIDE DEF Has, Left
      <4>1. QED
        BY <2>3, <2>4, <2>5, <3>1
    <3>3. res[k] \in Nat
      BY <1>1, <1>2, <3>1
    <3>4. QED
      BY <3>1, <3>2, <3>3
  <2> HIDE DEF Has, Left
  <2>8. End(j) \in j .. n /\ End(j) <= e
    <3>1. End(j) \in j .. n
      BY <1>1, <2>6
    <3>2. End(j) <= e
      BY <1>3, <2>6 DEF e
    <3>3. QED
      BY <3>1, <3>2
  <2>9. SumTo(res, e) = SumTo(res, End(j))
    <3>1. SumTo(res, e) = SumTo(res, j)
      <4>1. j \in 0 .. Len(res) /\ e \in j .. Len(res)
        BY <1>1, <2>6
      <4>2. QED
        BY <1>1, <2>7, <4>1, SumNothing
    <3>2. SumTo(res, End(j)) = SumTo(res, j)
      <4>1. j \in 0 .. Len(res) /\ End(j) \in j .. Len(res)
        BY <1>1, <2>6, <2>8
      <4>2. \A k \in j + 1 .. End(j) : k \in j + 1 .. e
        BY <2>6, <2>8
      <4>3. QED
        BY <1>1, <2>7, <4>1, <4>2, SumNothing
    <3>3. QED
      BY <3>1, <3>2
  <2>10. charge[j] = charge[i]
    BY <1>1, <2>1, <2>6, <2>9
  <2>11. stats[j].largest > 0
    <3>1. stats[j].resident > 0 /\ stats[j].resident <= stats[j].kept
          /\ stats[j].resident \in Nat /\ stats[j].kept \in Nat
      BY <1>1, <1>2, <2>6
    <3>2. stats[j].kept > 0
      BY <3>1
    <3>3. QED
      BY <1>2, <2>6, <3>2
  <2>12. QED
    BY <2>6, <2>10, <2>11
<1>5. QED
  BY <1>1, <1>2, <1>4 DEF SumsHold, charge

-----------------------------------------------------------------------------
(* One file.                                                               *)

FitParams == [budget : Int, cap : Nat, accumulate : BOOLEAN,
              multiplier : Nat \ {0}, overhead : Nat, group : Nat \ {0},
              clone : BOOLEAN]

\* A file with something to load fits exactly up to its depth limit.
LEMMA FileFits ==
    ASSUME NEW st, st.kept \in Nat, st.largest \in Nat, st.kept > 0,
           st.largest > 0, NEW charge \in Nat,
           NEW p \in FitParams, NEW depth \in Nat \ {0}
    PROVE  FileBudget(st, charge, depth, p) >= st.largest
             <=> p.cap >= st.largest /\ depth <= DepthLimit(st, charge, p)
  <1> DEFINE quotient == (p.budget - charge - depth * p.overhead)
                             \div EffectiveDepth(depth, p)
  <1>1. p.cap \in Nat /\ st.largest \in Nat \ {0}
    BY DEF FitParams
  <1>2. /\ quotient \in Int
        /\ st.largest <= quotient <=> depth <= DepthLimit(st, charge, p)
    <2>1. /\ p.multiplier \in Nat \ {0} /\ p.overhead \in Nat
          /\ Clones(p) \in Nat /\ p.budget - charge \in Int
      BY DEF FitParams, Clones
    <2> QED BY <1>1, <2>1, Inversion DEF EffectiveDepth, DepthLimit
  <1>3. FileBudget(st, charge, depth, p) = Lesser(quotient, p.cap)
    BY DEF FileBudget
  <1>4. Lesser(quotient, p.cap) >= st.largest
          <=> quotient >= st.largest /\ p.cap >= st.largest
    <2> HIDE DEF quotient
    <2> QED BY <1>1, <1>2 DEF Lesser
  <1> HIDE DEF quotient
  <1> QED BY <1>1, <1>2, <1>3, <1>4

\* A file with nothing to load fits if what is charged for it is covered.
LEMMA EmptyFits ==
    ASSUME NEW st, st.kept = 0, st.largest = 0, NEW charge \in Nat,
           NEW p \in FitParams, NEW depth \in Nat \ {0}, charge <= p.budget
    PROVE  FileBudget(st, charge, depth, p) >= st.largest
  <1> DEFINE eff == EffectiveDepth(depth, p)
             room == p.budget - charge
  <1>1. eff \in Nat \ {0}
    <2>1. \A a \in Nat \ {0}, b \in Nat \ {0}, d \in Nat : a * b + d \in Nat \ {0}
      BY SMT
    <2> QED BY <2>1 DEF EffectiveDepth, Clones, FitParams
  <1>2. room \in Nat
    BY DEF FitParams
  <1>3. room \div eff \in Nat
    <2>1. \A a \in Nat, b \in Nat \ {0} : a \div b \in Nat
      BY SMT
    <2> QED BY <1>1, <1>2, <2>1
  <1>4. FileBudget(st, charge, depth, p) = Lesser(room \div eff, p.cap)
    BY <1>2 DEF FileBudget
  <1> QED
    <2> HIDE DEF room, eff
    <2> QED BY <1>3, <1>4 DEF Lesser, FitParams
-----------------------------------------------------------------------------
(* All files.                                                              *)

\* A plan is feasible up to the least of the depth limits.
LEMMA FeasibleUpto ==
    ASSUME NEW stats, NEW p \in FitParams, SumsHold(stats, Charge(stats, p)),
           NEW depth \in Nat \ {0}
    PROVE  Feasible(stats, depth, p) <=>
             /\ p.budget > 0
             /\ \A i \in DOMAIN stats : stats[i].largest > 0 =>
                  /\ p.cap >= stats[i].largest
                  /\ depth <= DepthLimit(stats[i], Charge(stats, p)[i], p)
  <1> DEFINE charge == Charge(stats, p)
             Fits(i) == FileBudget(stats[i], charge[i], depth, p) >= stats[i].largest
             Bounded(i) == /\ p.cap >= stats[i].largest
                           /\ depth <= DepthLimit(stats[i], charge[i], p)
  <1>1. Feasible(stats, depth, p) <=> p.budget > 0 /\ \A i \in DOMAIN stats : Fits(i)
    BY DEF Feasible, PlanFileBudgets
  <1>2. ASSUME NEW i \in DOMAIN stats, stats[i].largest > 0
        PROVE  Fits(i) <=> Bounded(i)
    <2>1. /\ stats[i].kept \in Nat /\ stats[i].largest \in Nat
          /\ stats[i].kept > 0 /\ charge[i] \in Nat
      BY <1>2 DEF SumsHold
    <2> HIDE DEF charge
    <2> QED BY <1>2, <2>1, FileFits
  <1>3. ASSUME NEW i \in DOMAIN stats, stats[i].largest > 0, Bounded(i)
        PROVE  charge[i] <= p.budget
    <2>1. /\ stats[i].largest \in Nat \ {0} /\ charge[i] \in Nat /\ p.budget \in Int
          /\ p.multiplier \in Nat \ {0} /\ p.overhead \in Nat /\ Clones(p) \in Nat
      BY <1>3 DEF SumsHold, FitParams, Clones
    <2> DEFINE each == p.multiplier * stats[i].largest + p.overhead
               room == p.budget - charge[i] - Clones(p) * stats[i].largest
    <2>2. each \in Nat \ {0} /\ room \in Int /\ room <= p.budget - charge[i]
      <3>1. \A a \in Nat \ {0}, b \in Nat \ {0} : a * b \in Nat \ {0}
        BY SMT
      <3>2. \A a \in Nat, b \in Nat \ {0} : a * b \in Nat
        BY SMT
      <3>3. /\ p.multiplier * stats[i].largest \in Nat \ {0}
            /\ Clones(p) * stats[i].largest \in Nat
        BY <2>1, <3>1, <3>2
      <3> QED BY <2>1, <3>3
    <2>3. depth <= room \div each
      BY <1>3 DEF DepthLimit
    <2>4. depth * each \in Nat
      <3> HIDE DEF each
      <3> QED BY <2>2
    <2> HIDE DEF each, room
    <2>5. depth * each <= room
      BY <2>2, <2>3, FloorDivision
    <2> QED BY <2>1, <2>2, <2>4, <2>5
  <1>4. ASSUME NEW i \in DOMAIN stats, ~(stats[i].largest > 0), p.budget > 0,
               \A j \in DOMAIN stats : stats[j].largest > 0 => Bounded(j)
        PROVE  Fits(i)
    <2>1. stats[i].kept = 0 /\ stats[i].largest = 0 /\ charge[i] \in Nat
      BY <1>4 DEF SumsHold
    <2>2. charge[i] <= p.budget
      <3>1. CASE charge[i] = 0
        BY <1>4, <3>1 DEF FitParams
      <3>2. CASE \E j \in DOMAIN stats : stats[j].largest > 0 /\ charge[j] = charge[i]
        <4> PICK j \in DOMAIN stats : stats[j].largest > 0 /\ charge[j] = charge[i]
          BY <3>2
        <4> QED BY <1>3, <1>4
      <3> QED BY <2>1, <3>1, <3>2 DEF SumsHold
    <2> HIDE DEF charge
    <2> QED BY <2>1, <2>2, EmptyFits
  <1> QED
    <2> HIDE DEF Fits, Bounded, charge
    <2> QED BY <1>1, <1>2, <1>4 DEF Bounded, charge

\* The depth limits of the files with something to load have a least one.
LEMMA LeastLimit ==
    ASSUME NEW stats, IsFiniteSet(DOMAIN stats), NEW p \in FitParams,
           SumsHold(stats, Charge(stats, p))
    PROVE  LET loaded == {i \in DOMAIN stats : stats[i].largest > 0}
               limits == {DepthLimit(stats[i], Charge(stats, p)[i], p) : i \in loaded}
           IN  loaded # {} => /\ limits \subseteq Int
                              /\ \E c \in limits : \A d \in limits : c <= d
  <1> DEFINE loaded == {i \in DOMAIN stats : stats[i].largest > 0}
             limits == {DepthLimit(stats[i], Charge(stats, p)[i], p) : i \in loaded}
  <1> SUFFICES ASSUME loaded # {}
               PROVE  /\ limits \subseteq Int
                      /\ \E c \in limits : \A d \in limits : c <= d
    OBVIOUS
  <1> DEFINE Limit(i) == DepthLimit(stats[i], Charge(stats, p)[i], p)
             f == [i \in loaded |-> Limit(i)]
  <1>1. IsFiniteSet(loaded)
    BY FS_Subset
  <1>2. ASSUME NEW i \in loaded PROVE Limit(i) \in Int
    <2>1. /\ stats[i].largest \in Nat \ {0} /\ Charge(stats, p)[i] \in Nat
          /\ p.budget \in Int /\ p.multiplier \in Nat \ {0} /\ p.overhead \in Nat
          /\ Clones(p) \in Nat
      BY DEF SumsHold, FitParams, Clones
    <2>2. \A a \in Nat \ {0}, b \in Nat \ {0}, c \in Nat : a * b + c \in Nat \ {0}
      BY SMT
    <2>3. \A a \in Nat, b \in Nat \ {0} : a * b \in Nat
      BY SMT
    <2>4. \A a \in Int, b \in Nat \ {0} : a \div b \in Int
      BY SMT
    <2> DEFINE each == p.multiplier * stats[i].largest + p.overhead
               room == p.budget - Charge(stats, p)[i] - Clones(p) * stats[i].largest
    <2>5. each \in Nat \ {0}
      BY <2>1, <2>2
    <2>6. room \in Int
      <3>1. Clones(p) * stats[i].largest \in Nat
        BY <2>1, <2>3
      <3> QED BY <2>1, <3>1
    <2>7. Limit(i) = room \div each
      BY DEF DepthLimit
    <2> HIDE DEF each, room, Limit
    <2> QED BY <2>4, <2>5, <2>6, <2>7
  <1> HIDE DEF Limit
  <1>3. limits = {Limit(i) : i \in loaded}
    BY DEF Limit
  <1>4. IsFiniteSet(limits)
    <2>1. f \in Surjection(loaded, limits)
      <3> HIDE DEF loaded, limits
      <3> QED BY <1>3 DEF Surjection
    <2> HIDE DEF loaded, limits, f
    <2> QED BY <1>1, <2>1, FS_Surjection
  <1>5. limits \subseteq Int /\ limits # {}
    BY <1>2, <1>3
  <1> HIDE DEF limits
  <1> QED BY <1>4, <1>5, LeastOf

\* fit_queue_size inverts plan_file_budgets.
LEMMA FitQueueSizeInverts ==
    ASSUME NEW stats, IsFiniteSet(DOMAIN stats), NEW p \in FitParams,
           SumsHold(stats, Charge(stats, p)), NEW requested \in Int
    PROVE  LET fitted == FitQueueSize(requested, stats, p)
               Plans(q) == Feasible(stats, LoadDepth(q, p.group), p)
           IN  /\ fitted = {} => ~Plans(-1)
               /\ \A q \in fitted : /\ fitted = {q} /\ q \in Int
                                    /\ Plans(q)
                                    /\ q < requested => ~Plans(q + 1)
  <1> DEFINE fitted == FitQueueSize(requested, stats, p)
             Plans(q) == Feasible(stats, LoadDepth(q, p.group), p)
             loaded == {i \in DOMAIN stats : stats[i].largest > 0}
             charge == Charge(stats, p)
             limits == {DepthLimit(stats[i], charge[i], p) : i \in loaded}
             cap == CHOOSE c \in limits : \A d \in limits : c <= d
             base == cap - Receives(p.group)
             hopeless == p.budget <= 0 \/ \E i \in loaded : p.cap < stats[i].largest
  <1> SUFFICES /\ fitted = {} => ~Plans(-1)
               /\ \A q \in fitted : /\ fitted = {q} /\ q \in Int
                                    /\ Plans(q)
                                    /\ q < requested => ~Plans(q + 1)
    OBVIOUS
  <1>1. fitted = IF hopeless THEN {}
                 ELSE IF loaded = {} THEN {requested}
                 ELSE IF base < 1 THEN {}
                 ELSE {Lesser(requested, QueueSizeOf(base))}
    BY Zenon DEF FitQueueSize
  <1>2. p.budget \in Int /\ p.cap \in Nat /\ Receives(p.group) \in {0, 1}
        /\ \A i \in DOMAIN stats : stats[i].largest \in Nat
    BY DEF FitParams, Receives, SumsHold
  <1>3. ASSUME NEW q \in Int
        PROVE  /\ LoadDepth(q, p.group) \in Nat \ {0}
               /\ Plans(q) <=>
                    /\ ~hopeless
                    /\ \A d \in limits : LoadDepth(q, p.group) <= d
    <2>1. LoadDepth(q, p.group) \in Nat \ {0}
      BY <1>2 DEF LoadDepth, PipelineDepth
    <2>2. Plans(q) <=>
             /\ p.budget > 0
             /\ \A i \in DOMAIN stats : stats[i].largest > 0 =>
                  /\ p.cap >= stats[i].largest
                  /\ LoadDepth(q, p.group) <= DepthLimit(stats[i], charge[i], p)
      BY <2>1, FeasibleUpto
    <2> HIDE DEF Plans, charge
    <2> QED BY <1>2, <2>1, <2>2
  <1>4. CASE hopeless
    <2> HIDE DEF Plans, fitted, limits, hopeless
    <2> QED BY <1>1, <1>3, <1>4
  <1>5. CASE ~hopeless /\ loaded = {}
    <2>1. limits = {}
      BY <1>5
    <2> HIDE DEF Plans, fitted, limits, hopeless, loaded
    <2> QED BY <1>1, <1>3, <1>5, <2>1
  <1>6. CASE ~hopeless /\ loaded # {}
    <2>1. limits \subseteq Int /\ \E c \in limits : \A d \in limits : c <= d
      BY <1>6, LeastLimit
    <2>2. cap \in limits /\ \A d \in limits : cap <= d
      <3> HIDE DEF limits
      <3> QED BY <2>1
    <2> HIDE DEF Plans, fitted, limits, hopeless, loaded, cap
    <2>3. cap \in Int /\ base \in Int
      <3>1. cap \in Int
        BY <2>1, <2>2, Zenon
      <3> QED BY <1>2, <3>1
    <2>4. ASSUME NEW q \in Int PROVE Plans(q) <=> PipelineDepth(q) <= base
      <3>1. LoadDepth(q, p.group) \in Nat /\ PipelineDepth(q) \in Int
            /\ LoadDepth(q, p.group) = PipelineDepth(q) + Receives(p.group)
        BY <1>2 DEF LoadDepth, PipelineDepth
      <3>2. (\A d \in limits : LoadDepth(q, p.group) <= d)
              <=> LoadDepth(q, p.group) <= cap
        BY <2>1, <2>2, <2>3, <3>1
      <3>3. LoadDepth(q, p.group) <= cap <=> PipelineDepth(q) <= base
        BY <1>2, <2>3, <3>1
      <3> QED BY <1>3, <1>6, <3>2, <3>3
    <2> HIDE DEF base
    <2>5. CASE base < 1
      <3>1. ~Plans(-1)
        BY <2>3, <2>4, <2>5 DEF PipelineDepth
      <3> QED BY <1>1, <1>6, <2>5, <3>1
    <2>6. CASE base >= 1
      <3> DEFINE q == Lesser(requested, QueueSizeOf(base))
      <3>1. fitted = {q}
        BY <1>1, <1>6, <2>3, <2>6
      <3>2. /\ q \in Int /\ PipelineDepth(q) <= base
            /\ q < requested => PipelineDepth(q + 1) = base + 1
        BY <2>3, <2>6 DEF Lesser, QueueSizeOf, PipelineDepth
      <3> HIDE DEF q
      <3>3. Plans(q)
        BY <2>4, <3>2
      <3>4. q < requested => ~Plans(q + 1)
        BY <2>3, <2>4, <3>2
      <3> QED BY <3>1, <3>2, <3>3, <3>4
    <2> QED BY <2>3, <2>5, <2>6
  <1> QED BY <1>4, <1>5, <1>6

-----------------------------------------------------------------------------
(* The experts of the ranks.                                               *)

\* The first expert of a rank, and of the one after the last
StartOf(experts, size, rank) ==
    rank * (experts \div size) + Lesser(rank, experts % size)

\* The ranks divide the experts, one after the other.
LEMMA StartFacts ==
  ASSUME NEW e \in Nat, NEW n \in Nat \ {0}
  PROVE  /\ StartOf(e, n, 0) = 0 /\ StartOf(e, n, n) = e
         /\ \A r \in 0 .. n : StartOf(e, n, r) \in Nat
         /\ \A r \in 0 .. n : \A q \in 0 .. r : StartOf(e, n, q) <= StartOf(e, n, r)
         /\ \A r \in 0 .. n - 1 :
              OwnedExperts(e, n, r) = StartOf(e, n, r) .. StartOf(e, n, r + 1) - 1
<1> DEFINE base == e \div n
           rem == e % n
<1>1. base \in Nat /\ rem \in 0 .. n - 1 /\ e = n * base + rem
  BY SMT
<1>2. \A r : StartOf(e, n, r) = r * base + Lesser(r, rem)
  BY DEF StartOf
<1>3. \A r \in 0 .. n - 1 : OwnedExperts(e, n, r) =
          StartOf(e, n, r) .. StartOf(e, n, r) + (base + (IF r < rem THEN 1 ELSE 0)) - 1
  BY Zenon DEF OwnedExperts, Remainder, StartOf
<1> HIDE DEF base, rem
<1>4. \A r \in 0 .. n : r * base \in Nat
  BY <1>1, SMT
<1>5. StartOf(e, n, 0) = 0
  <2>1. 0 * base = 0
    BY <1>1, SMT
  <2>2. QED
    BY <1>1, <1>2, <2>1 DEF Lesser
<1>6. StartOf(e, n, n) = e
  <2> DEFINE y == n * base
  <2>1. y \in Nat /\ e = y + rem /\ StartOf(e, n, n) = y + Lesser(n, rem)
    BY <1>1, <1>2, <1>4
  <2> HIDE DEF y
  <2>2. QED
    BY <1>1, <2>1 DEF Lesser
<1>7. \A r \in 0 .. n : StartOf(e, n, r) \in Nat
  <2> SUFFICES ASSUME NEW r \in 0 .. n PROVE StartOf(e, n, r) \in Nat
    OBVIOUS
  <2> DEFINE y == r * base
  <2>1. y \in Nat /\ StartOf(e, n, r) = y + Lesser(r, rem)
    BY <1>2, <1>4
  <2> HIDE DEF y
  <2>2. QED
    BY <1>1, <2>1 DEF Lesser
<1>8. \A r \in 0 .. n : \A q \in 0 .. r : StartOf(e, n, q) <= StartOf(e, n, r)
  <2> SUFFICES ASSUME NEW r \in 0 .. n, NEW q \in 0 .. r
               PROVE  StartOf(e, n, q) <= StartOf(e, n, r)
    OBVIOUS
  <2> DEFINE y == r * base
             z == q * base
  <2>1. q \in 0 .. n
    OBVIOUS
  <2>2. /\ y \in Nat /\ StartOf(e, n, r) = y + Lesser(r, rem)
        /\ z \in Nat /\ StartOf(e, n, q) = z + Lesser(q, rem)
    BY <1>2, <1>4, <2>1
  <2>3. z <= y
    <3>1. \A a \in Nat, b \in Nat, c \in Nat : a <= b => a * c <= b * c
      BY SMT
    <3>2. q \in Nat /\ r \in Nat /\ q <= r
      OBVIOUS
    <3>3. QED
      BY <1>1, <3>1, <3>2
  <2> HIDE DEF y, z
  <2>4. QED
    BY <1>1, <2>2, <2>3 DEF Lesser
<1>9. ASSUME NEW r \in 0 .. n - 1
      PROVE  OwnedExperts(e, n, r) = StartOf(e, n, r) .. StartOf(e, n, r + 1) - 1
  <2> DEFINE y == r * base
             z == (r + 1) * base
  <2>1. z = y + base /\ y \in Nat
    <3>1. r \in Nat /\ r \in 0 .. n
      OBVIOUS
    <3>2. (r + 1) * base = r * base + base
      BY <1>1, <3>1, SMT
    <3>3. QED
      BY <1>4, <3>1, <3>2
  <2>2. /\ StartOf(e, n, r) = y + Lesser(r, rem)
        /\ StartOf(e, n, r + 1) = z + Lesser(r + 1, rem)
    BY <1>2
  <2> HIDE DEF y, z
  <2> DEFINE u == StartOf(e, n, r)
             c == base + (IF r < rem THEN 1 ELSE 0)
  <2>3. OwnedExperts(e, n, r) = u .. u + c - 1
    BY <1>3
  <2>4. u + c = StartOf(e, n, r + 1) /\ u \in Int /\ c \in Int
    BY <1>1, <2>1, <2>2 DEF Lesser
  <2> DEFINE v == StartOf(e, n, r + 1)
  <2> HIDE DEF u, c, v
  <2>5. u + (c - 1) = v - 1
    BY <2>4 DEF v
  <2>6. QED
    BY <2>3, <2>5 DEF u, v
<1>10. QED
  BY <1>5, <1>6, <1>7, <1>8, <1>9

\* An expert has one owner.
LEMMA OneOwner ==
  ASSUME NEW e \in Nat, NEW n \in Nat \ {0}, NEW x \in 0 .. e - 1
  PROVE  Cardinality({r \in 0 .. n - 1 : x \in OwnedExperts(e, n, r)}) = 1
<1> DEFINE St(r) == StartOf(e, n, r)
           S == {r \in 0 .. n - 1 : x < St(r + 1)}
<1>1. /\ St(0) = 0 /\ St(n) = e
      /\ \A r \in 0 .. n : St(r) \in Nat
      /\ \A r \in 0 .. n : \A q \in 0 .. r : St(q) <= St(r)
      /\ \A r \in 0 .. n - 1 : OwnedExperts(e, n, r) = St(r) .. St(r + 1) - 1
  BY StartFacts
<1> HIDE DEF St
<1>2. S \in SUBSET Nat /\ S # {}
  <2>1. n - 1 \in 0 .. n - 1 /\ (n - 1) + 1 = n /\ x < e
    OBVIOUS
  <2>2. n - 1 \in S
    BY <1>1, <2>1
  <2>3. \A r \in S : r \in Nat
    OBVIOUS
  <2> HIDE DEF S
  <2>4. QED
    BY <2>2, <2>3
<1>3. PICK o \in S : \A r \in S : o <= r
  <2> HIDE DEF S
  <2>1. QED
    BY <1>2, LeastNumber
<1>4. o \in 0 .. n - 1 /\ x < St(o + 1) /\ o \in 0 .. n /\ o + 1 \in 0 .. n
  BY <1>3
<1>5. St(o) <= x
  <2>1. CASE o = 0
    BY <1>1, <2>1
  <2>2. CASE o # 0
    <3>1. o - 1 \in 0 .. n - 1 /\ (o - 1) + 1 = o /\ ~(o <= o - 1)
      BY <1>4, <2>2
    <3>2. o - 1 \notin S
      <4> HIDE DEF S
      <4>1. QED
        BY <1>3, <3>1
    <3>3. ~(x < St(o))
      BY <3>1, <3>2
    <3>4. St(o) \in Nat
      BY <1>1, <1>4
    <3>5. QED
      BY <3>3, <3>4
  <2>3. QED
    BY <2>1, <2>2
<1>6. ASSUME NEW r \in 0 .. n - 1 PROVE x \in OwnedExperts(e, n, r) <=> r = o
  <2>1. /\ r \in 0 .. n /\ r + 1 \in 0 .. n /\ St(r) \in Nat /\ St(r + 1) \in Nat
        /\ St(o) \in Nat /\ St(o + 1) \in Nat
    BY <1>1, <1>4
  <2>2. x \in OwnedExperts(e, n, r) <=> St(r) <= x /\ x < St(r + 1)
    <3>1. OwnedExperts(e, n, r) = St(r) .. St(r + 1) - 1
      BY <1>1
    <3>2. QED
      BY <2>1, <3>1
  <2>3. CASE r < o
    <3>1. r + 1 \in 0 .. o
      BY <1>4, <2>3
    <3>2. St(r + 1) <= St(o)
      BY <1>1, <1>4, <3>1
    <3>3. QED
      BY <1>5, <2>1, <2>2, <2>3, <3>2
  <2>4. CASE o < r
    <3>1. o + 1 \in 0 .. r
      BY <1>4, <2>4
    <3>2. St(o + 1) <= St(r)
      BY <1>1, <2>1, <3>1
    <3>3. QED
      BY <1>4, <2>1, <2>2, <2>4, <3>2
  <2>5. CASE r = o
    BY <1>4, <1>5, <2>2, <2>5
  <2>6. QED
    BY <1>4, <2>3, <2>4, <2>5
<1>7. {r \in 0 .. n - 1 : x \in OwnedExperts(e, n, r)} = {o}
  BY <1>4, <1>6
<1>8. QED
  BY <1>7, FS_Singleton

=============================================================================
