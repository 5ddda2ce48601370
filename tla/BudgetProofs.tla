---------------------------- MODULE BudgetProofs ----------------------------
(***************************************************************************)
(* Proofs about BudgetedLoad for every set of loads that it admits: the    *)
(* queue size a load runs with is the deepest that can be planned, its     *)
(* batches deliver each rank's share, and what it holds is within the      *)
(* budget.  They stand on the facts of ChunkPlanProofs.                    *)
(***************************************************************************)
EXTENDS BudgetedLoad, ChunkPlanProofs

-----------------------------------------------------------------------------
(* A load.                                                                 *)

\* The tensors of a file come one after the other.
LEMMA FileFrames ==
  ASSUME NEW l \in Loads, NEW f \in DOMAIN l.files
  PROVE  Frames(l.files[f]) /\ DOMAIN l.files = 1 .. Len(l.files) /\ Len(l.files) \in Nat
<1> DEFINE s == l.files[f]
           n == Len(s)
<1>1. l.files \in Seq(Seq(TensorFrames))
  BY LoadsAssumption
<1>2. \A k \in DOMAIN s : /\ s[k].start <= s[k].stop
                          /\ s[k].start = IF k = 1 THEN 0 ELSE s[k - 1].stop
  BY LoadsAssumption
<1>3. s \in Seq(TensorFrames) /\ DOMAIN l.files = 1 .. Len(l.files) /\ Len(l.files) \in Nat
  BY <1>1
<1> HIDE DEF s
<1>4. DOMAIN s = 1 .. n /\ n \in Nat /\ \A k \in 1 .. n : s[k] \in TensorFrames
  BY <1>3
<1>5. \A k \in 1 .. n : s[k].start \in Nat /\ s[k].stop \in Nat
  BY <1>4 DEF TensorFrames
<1>6. ASSUME NEW i \in 1 .. n PROVE \A j \in 1 .. n : i < j => s[i].stop <= s[j].start
  <2> DEFINE B == {j \in 0 .. n : i < j => s[i].stop <= s[j].start}
  <2>1. 0 \in B
    <3>1. 0 \in 0 .. n /\ ~(i < 0)
      BY <1>4
    <3>2. QED
      BY <3>1
  <2>2. ASSUME NEW j \in 1 .. n, j - 1 \in B PROVE j \in B
    <3>1. j \in 0 .. n /\ j - 1 \in 0 .. n /\ j \in DOMAIN s
      BY <1>4
    <3>2. ASSUME i < j PROVE s[i].stop <= s[j].start
      <4>1. j # 1 /\ j - 1 \in 1 .. n /\ (j - 1 = i \/ i < j - 1)
        BY <1>4, <3>2
      <4>2. s[j].start = s[j - 1].stop /\ s[j - 1].start <= s[j - 1].stop
        BY <1>2, <1>4, <3>1, <4>1
      <4>3. CASE j - 1 = i
        BY <1>5, <4>1, <4>2, <4>3
      <4>4. CASE i < j - 1
        <5>1. s[i].stop <= s[j - 1].start
          BY <2>2, <4>4
        <5>2. s[i].stop \in Nat /\ s[j - 1].start \in Nat /\ s[j - 1].stop \in Nat
          BY <1>5, <4>1
        <5>3. QED
          BY <4>2, <5>1, <5>2
      <4>5. QED
        BY <4>1, <4>3, <4>4
    <3>3. QED
      BY <3>1, <3>2
  <2>3. B = 0 .. n
    BY <1>4, <2>1, <2>2, Induction
  <2>4. \A j \in 1 .. n : j \in 0 .. n
    BY <1>4
  <2>5. QED
    BY <2>3, <2>4
<1>7. QED
  BY <1>2, <1>3, <1>4, <1>6 DEF Frames, s

\* So do those that the filter keeps, and their statistics are in order.
LEMMA KeptFrames ==
  ASSUME NEW l \in Loads, NEW f \in DOMAIN l.files
  PROVE  Frames(Kept(l, l.files[f])) /\ Stats(l)[f] = FileStats(Kept(l, l.files[f]))
<1>1. Frames(l.files[f])
  BY FileFrames
<1>2. Frames(Kept(l, l.files[f]))
  BY <1>1, FramesAmong DEF Kept
<1>3. Stats(l)[f] = FileStats(Kept(l, l.files[f]))
  BY DEF Stats
<1>4. QED
  BY <1>2, <1>3

\* The statistics of a load are those of its files.
LEMMA StatsOfLoad ==
  ASSUME NEW l \in Loads
  PROVE  /\ StatsGood(Stats(l)) /\ DOMAIN Stats(l) = DOMAIN l.files
         /\ DOMAIN l.files = 1 .. Len(l.files) /\ Len(l.files) \in Nat
         /\ Len(Stats(l)) = Len(l.files)
<1>1. DOMAIN l.files = 1 .. Len(l.files) /\ Len(l.files) \in Nat
  <2>1. l.files \in Seq(Seq(TensorFrames))
    BY LoadsAssumption
  <2>2. QED
    BY <2>1
<1>2. DOMAIN Stats(l) = DOMAIN l.files
  BY DEF Stats
<1>3. Len(Stats(l)) = Len(l.files)
  <2>1. Stats(l) = [i \in 1 .. Len(l.files) |-> Stats(l)[i]]
    BY <1>1, Zenon DEF Stats
  <2>2. QED
    BY <1>1, <2>1
<1>4. ASSUME NEW i \in DOMAIN l.files
      PROVE  /\ Stats(l)[i].kept \in Nat /\ Stats(l)[i].largest \in Nat
             /\ Stats(l)[i].resident \in Nat
             /\ Stats(l)[i].largest > 0 <=> Stats(l)[i].kept > 0
             /\ Stats(l)[i].resident <= Stats(l)[i].kept
  <2> DEFINE s == Kept(l, l.files[i])
             st == Stats(l)[i]
  <2>1. Frames(s) /\ st = FileStats(s)
    BY KeptFrames
  <2> HIDE DEF s, st
  <2>2. /\ st.kept \in Nat /\ st.largest \in Nat /\ st.resident \in Nat
        /\ st.largest > 0 <=> st.kept > 0
        /\ st.resident <= st.kept
    BY <2>1, FileStatsFacts
  <2>3. QED
    BY <2>2 DEF st
<1>5. QED
  BY <1>1, <1>2, <1>3, <1>4 DEF StatsGood

\* The parameters of the fit plan are of their types.
LEMMA ParamsOfLoad ==
  ASSUME NEW l \in Loads
  PROVE  /\ Params(l) \in FitParams /\ Params(l).group = l.group
         /\ l.group \in Nat \ {0} /\ l.queue \in Int /\ l.cap \in Nat
         /\ Params(l).accumulate = l.accumulate
  BY LoadsAssumption DEF Params, FitParams, NeedsClone

\* What fit_queue_size says of a load, and what Clamped makes of it
LEMMA ClampInverts ==
    ASSUME NEW l \in Loads
    PROVE  LET Plans(q) == Feasible(Stats(l), LoadDepth(q, l.group), Params(l))
           IN  /\ Clamped(l) \in Int
               /\ ~Plans(Clamped(l)) => ~Plans(-1)
               /\ Plans(Clamped(l)) /\ Clamped(l) < l.queue => ~Plans(Clamped(l) + 1)
  <1> DEFINE Plans(q) == Feasible(Stats(l), LoadDepth(q, l.group), Params(l))
             fitted == FitQueueSize(l.queue, Stats(l), Params(l))
  <1> SUFFICES /\ Clamped(l) \in Int
               /\ ~Plans(Clamped(l)) => ~Plans(-1)
               /\ Plans(Clamped(l)) /\ Clamped(l) < l.queue => ~Plans(Clamped(l) + 1)
    OBVIOUS
  <1>1. IsFiniteSet(DOMAIN Stats(l)) /\ SumsHold(Stats(l), Charge(Stats(l), Params(l)))
    <2>1. /\ StatsGood(Stats(l)) /\ DOMAIN Stats(l) = 1 .. Len(l.files)
          /\ Len(l.files) \in Nat
      BY StatsOfLoad
    <2>2. Params(l).group \in Nat \ {0}
      BY ParamsOfLoad
    <2>3. IsFiniteSet(1 .. Len(l.files))
      BY <2>1, FS_Interval
    <2> QED BY <2>1, <2>2, <2>3, SumsOfFiles
  <1>2. Params(l) \in FitParams /\ Params(l).group = l.group /\ l.queue \in Int
    BY ParamsOfLoad
  <1>3. /\ fitted = {} => ~Plans(-1)
        /\ \A q \in fitted : /\ fitted = {q} /\ q \in Int
                             /\ Plans(q)
                             /\ q < l.queue => ~Plans(q + 1)
    BY <1>1, <1>2, FitQueueSizeInverts
  <1>4. Clamped(l) = IF fitted = {} THEN -1 ELSE CHOOSE q \in fitted : TRUE
    BY DEF Clamped
  <1> HIDE DEF fitted, Plans
  <1>5. CASE fitted = {}
    BY <1>3, <1>4, <1>5
  <1>6. CASE fitted # {}
    <2>1. PICK q \in fitted : q = Clamped(l)
      BY <1>4, <1>6
    <2>2. q \in Int /\ Plans(q) /\ (q < l.queue => ~Plans(q + 1))
      BY <1>3, Zenon
    <2> QED BY <2>1, <2>2, Zenon
  <1> QED BY <1>5, <1>6

\* What a file with something to load may use, with what is charged for it
LEMMA BudgetOfFile ==
  ASSUME NEW l \in Loads, NEW i \in DOMAIN l.files, NEW p, p = Params(l),
         NEW d, d = Depth(l), NEW b, b = PlanFileBudgets(Stats(l), d, p)[i]
  PROVE  /\ d \in Nat \ {0} /\ EffectiveDepth(d, p) \in Nat \ {0} /\ b \in Int
         /\ Charge(Stats(l), p)[i] \in Nat /\ p.budget \in Int /\ p.overhead \in Nat
         /\ Stats(l)[i].kept > 0 =>
              b * EffectiveDepth(d, p) <= (p.budget - Charge(Stats(l), p)[i]) - d * p.overhead
<1> DEFINE st == Stats(l)[i]
           charge == Charge(Stats(l), p)[i]
           pad == IF st.kept > 0 THEN d * p.overhead ELSE 0
           eff == EffectiveDepth(d, p)
           room == p.budget - charge - pad
<1>1. /\ p \in FitParams /\ p.group = l.group /\ l.group \in Nat \ {0}
  BY ParamsOfLoad
<1>2. /\ p.budget \in Int /\ p.overhead \in Nat /\ p.multiplier \in Nat \ {0}
      /\ p.cap \in Nat /\ Clones(p) \in Nat
  BY <1>1 DEF FitParams, Clones
<1>3. d \in Nat \ {0}
  <2>1. Clamped(l) \in Int
    BY ClampInverts
  <2>2. PipelineDepth(Clamped(l)) \in Nat \ {0}
    BY <2>1 DEF PipelineDepth
  <2>3. QED
    BY <2>2 DEF Depth, LoadDepth, Receives
<1>4. eff \in Nat \ {0}
  <2>1. \A a \in Nat \ {0}, c \in Nat \ {0}, e \in Nat : a * c + e \in Nat \ {0}
    BY SMT
  <2>2. QED
    BY <1>2, <1>3, <2>1 DEF EffectiveDepth
<1>5. charge \in Nat
  <2>1. StatsGood(Stats(l)) /\ i \in 1 .. Len(Stats(l))
    BY StatsOfLoad
  <2>2. p.group \in Nat \ {0}
    BY <1>1
  <2>3. QED
    BY <2>1, <2>2, ChargeFacts
<1>6. d * p.overhead \in Nat
  <2>1. \A a \in Nat, c \in Nat : a * c \in Nat
    BY SMT
  <2>2. QED
    BY <1>2, <1>3, <2>1
<1>7. room \in Int
  BY <1>2, <1>5, <1>6
<1>8. b = Lesser(room \div eff, p.cap)
  BY StatsOfLoad DEF PlanFileBudgets, FileBudget
<1> HIDE DEF eff, charge, st
<1>9. room \div eff \in Int
  <2> HIDE DEF room
  <2>1. QED
    BY <1>4, <1>7
<1>10. b \in Int /\ b <= room \div eff
  <2> HIDE DEF room
  <2>1. QED
    BY <1>2, <1>8, <1>9 DEF Lesser
<1>11. b * eff <= room
  <2> HIDE DEF room
  <2>1. QED
    BY <1>4, <1>7, <1>10, FloorDivision
<1>12. st.kept > 0 => room = (p.budget - charge) - d * p.overhead
  BY <1>2, <1>5
<1>13. QED
  BY <1>2, <1>3, <1>4, <1>5, <1>10, <1>11, <1>12 DEF eff, charge, st

\* A load that is planned gives every file a budget that its tensors fit.
LEMMA PlanFits ==
  ASSUME NEW l \in Loads, Plannable(l), NEW i \in DOMAIN l.files
  PROVE  Budgets(l)[i] \in Nat /\ LargestOf(Kept(l, l.files[i])) <= Budgets(l)[i]
<1> DEFINE s == Kept(l, l.files[i])
<1>1. Frames(s) /\ Stats(l)[i] = FileStats(s)
  BY KeptFrames
<1>2. LargestOf(s) \in Nat /\ Stats(l)[i].largest = LargestOf(s)
  BY <1>1, LargestFacts, FileStatsFacts
<1> HIDE DEF s
<1>3. CASE ~l.limited
  <2>1. Budgets(l)[i] = l.cap
    BY <1>3 DEF Budgets
  <2>2. LargestOf(s) <= l.cap
    BY <1>3 DEF Plannable, Divides, s
  <2>3. QED
    BY <1>2, <2>1, <2>2, ParamsOfLoad DEF s
<1>4. CASE l.limited
  <2> DEFINE p == Params(l)
             b == PlanFileBudgets(Stats(l), Depth(l), p)[i]
  <2>1. Budgets(l)[i] = b
    BY <1>4 DEF Budgets
  <2>2. b >= Stats(l)[i].largest
    <3>1. Feasible(Stats(l), Depth(l), p)
      BY <1>4 DEF Plannable
    <3>2. i \in DOMAIN Stats(l)
      BY StatsOfLoad
    <3>3. QED
      BY <3>1, <3>2 DEF Feasible
  <2>3. b \in Int
    BY BudgetOfFile
  <2> HIDE DEF b
  <2>4. QED
    BY <1>2, <2>1, <2>2, <2>3 DEF s
<1>5. QED
  BY <1>3, <1>4

-----------------------------------------------------------------------------
(* The chunk-batches of a load.                                            *)

FileAt(l, g, r) == (g - 1) * l.group + r
FileChunks(l, bs, i) == PlanChunks(Kept(l, l.files[i]), bs[i], l.mergeGap)

\* Chunk j of file i with its tensors tagged, or no chunk
ChunkAt(l, bs, i, j) ==
    IF i \in DOMAIN l.files /\ j <= Len(FileChunks(l, bs, i))
    THEN [names |-> Tagged(i, FileChunks(l, bs, i)[j].names),
          ranges |-> FileChunks(l, bs, i)[j].ranges]
    ELSE NoChunk
ChunkSet == [names : Seq(Nat \X TensorFrames), ranges : Seq(Nat \X Nat)]
BatchSet(l) == [1 .. l.group -> ChunkSet]

\* A number of files, and one past it, in groups
LEMMA Places ==
  ASSUME NEW d \in Nat \ {0}, NEW a \in Nat, NEW c \in 0 .. d - 1, NEW x, x = a * d + c
  PROVE  x \in Nat /\ x \div d = a /\ x % d = c
<1>1. a * d \in Nat /\ (a + 1) * d = a * d + d
  BY SMT
<1> DEFINE y == a * d
<1>2. y \in Nat /\ x = y + c /\ (a + 1) * d = y + d
  BY <1>1
<1>3. x \in Nat
  BY <1>2
<1>4. a <= x \div d <=> a * d <= x
  BY <1>3, FloorDivision
<1>5. a + 1 <= x \div d <=> (a + 1) * d <= x
  BY <1>3, FloorDivision
<1>6. x \div d \in Int
  BY <1>3
<1>7. a * d = y
  OBVIOUS
<1> HIDE DEF y
<1>8. a <= x \div d /\ ~(a + 1 <= x \div d)
  BY <1>2, <1>4, <1>5, <1>7
<1>9. x \div d = a
  BY <1>6, <1>8
<1>10. x = d * (x \div d) + (x % d) /\ x % d \in 0 .. d - 1
  BY <1>3
<1>11. x % d = c
  <2>1. d * (x \div d) = y
    BY <1>7, <1>9, SMT
  <2>2. QED
    BY <1>2, <1>10, <2>1
<1>12. QED
  BY <1>3, <1>9, <1>11

\* The place of a file in its group
LEMMA FileAtFacts ==
  ASSUME NEW l \in Loads, NEW g \in Nat \ {0}, NEW r \in 1 .. l.group, NEW i, i = FileAt(l, g, r)
  PROVE  /\ i \in Nat \ {0} /\ (i - 1) \div l.group = g - 1 /\ (i - 1) % l.group = r - 1
<1>1. l.group \in Nat \ {0}
  BY ParamsOfLoad
<1>2. g - 1 \in Nat /\ r - 1 \in 0 .. l.group - 1
  BY <1>1
<1>3. (g - 1) * l.group \in Nat
  <2>1. \A a \in Nat, c \in Nat : a * c \in Nat
    BY SMT
  <2>2. QED
    BY <1>1, <1>2, <2>1
<1> DEFINE y == (g - 1) * l.group
<1>4. i = y + r /\ y \in Nat
  BY <1>3 DEF FileAt
<1>5. i - 1 = y + (r - 1) /\ i \in Nat \ {0}
  <2> HIDE DEF y
  <2>1. QED
    BY <1>1, <1>4
<1>6. i - 1 = (g - 1) * l.group + (r - 1)
  BY <1>5
<1> DEFINE x == i - 1
           a == g - 1
           c == r - 1
           d == l.group
<1>7. d \in Nat \ {0} /\ a \in Nat /\ c \in 0 .. d - 1 /\ x = a * d + c
  BY <1>1, <1>2, <1>6
<1>8. x \div d = a /\ x % d = c
  <2> HIDE DEF a, c, d, x
  <2>1. QED
    BY <1>7, Places
<1>9. QED
  BY <1>5, <1>8

\* Every file has a place.
LEMMA FileHasPlace ==
  ASSUME NEW l \in Loads, NEW i \in DOMAIN l.files,
         NEW g, g = (i - 1) \div l.group + 1, NEW r, r = ((i - 1) % l.group) + 1
  PROVE  g \in 1 .. Groups(l) /\ r \in 1 .. l.group /\ FileAt(l, g, r) = i
<1> DEFINE d == l.group
           n == Len(l.files)
           q == (i - 1) \div d
<1>1. d \in Nat \ {0} /\ n \in Nat /\ i \in 1 .. n
  BY ParamsOfLoad, StatsOfLoad
<1> HIDE DEF d, n
<1>2. i - 1 \in Nat
  BY <1>1
<1>3. q \in Nat /\ i - 1 = d * q + ((i - 1) % d) /\ (i - 1) % d \in 0 .. d - 1
  BY <1>1, <1>2
<1>4. r \in 1 .. d /\ g = q + 1
  BY <1>1, <1>3 DEF d
<1>5. d * q = q * d /\ q * d \in Nat
  <2> HIDE DEF q
  <2>1. QED
    BY <1>1, <1>3, SMT
<1>6. FileAt(l, g, r) = i
  <2>1. FileAt(l, g, r) = (g - 1) * d + r
    BY DEF FileAt, d
  <2>2. g - 1 = q
    BY <1>3, <1>4
  <2>3. r = ((i - 1) % d) + 1
    BY DEF d
  <2> DEFINE y == q * d
             z == (i - 1) % d
  <2>4. /\ FileAt(l, g, r) = y + r /\ i - 1 = y + z /\ y \in Nat
        /\ r = z + 1 /\ z \in Nat /\ i \in Nat
    BY <1>1, <1>3, <1>5, <2>1, <2>2, <2>3
  <2> DEFINE f == FileAt(l, g, r)
  <2>5. f = y + r /\ i - 1 = y + z /\ y \in Nat /\ r = z + 1 /\ z \in Nat /\ i \in Nat
    BY <2>4
  <2> HIDE DEF y, q, z, f
  <2>6. f = i
    BY <2>5
  <2>7. QED
    BY <2>6 DEF f
<1>7. g <= Groups(l)
  <2>1. Groups(l) = (n + d - 1) \div d
    BY DEF Groups, n, d
  <2>2. n + d - 1 \in Int
    BY <1>1
  <2>3. g \in Int
    BY <1>3, <1>4
  <2>4. g <= (n + d - 1) \div d <=> g * d <= n + d - 1
    BY <1>1, <2>2, <2>3, FloorDivision
  <2>5. g * d = q * d + d
    <3> HIDE DEF q
    <3>1. QED
      BY <1>1, <1>3, <1>4, SMT
  <2> DEFINE y == q * d
  <2>6. y \in Nat /\ i - 1 = y + ((i - 1) % d) /\ g * d = y + d
    BY <1>3, <1>5, <2>5
  <2> HIDE DEF y, q
  <2>7. g * d <= n + d - 1
    BY <1>1, <1>3, <2>6
  <2>8. QED
    BY <2>1, <2>4, <2>7
<1>8. g \in 1 .. Groups(l)
  <2>1. Groups(l) \in Int
    <3>1. Groups(l) = (n + d - 1) \div d /\ n + d - 1 \in Int
      BY <1>1 DEF Groups, n, d
    <3>2. QED
      BY <1>1, <3>1
  <2>2. QED
    BY <1>3, <1>4, <1>7, <2>1
<1>9. QED
  BY <1>4, <1>6, <1>8 DEF d

\* The chunks of a file that is planned
LEMMA ChunksOfFile ==
  ASSUME NEW l \in Loads, Plannable(l), NEW i \in DOMAIN l.files, NEW bs, bs = Budgets(l)
  PROVE  /\ Frames(Kept(l, l.files[i])) /\ bs[i] \in Nat
         /\ \E e : ChunksOf(FileChunks(l, bs, i), e, Kept(l, l.files[i]), bs[i], l.mergeGap)
<1> DEFINE K == Kept(l, l.files[i])
           m == bs[i]
           chunks == FileChunks(l, bs, i)
           gap == l.mergeGap
<1>1. Frames(K)
  BY KeptFrames
<1>2. m \in Nat /\ LargestOf(K) <= m
  BY PlanFits
<1>3. gap \in Nat
  BY LoadsAssumption
<1>4. chunks = PlanChunks(K, m, gap)
  BY DEF FileChunks
<1> HIDE DEF K, m, chunks, gap
<1>5. \E e : ChunksOf(chunks, e, K, m, gap)
  BY <1>1, <1>2, <1>3, <1>4, ChunkFacts
<1>6. QED
  BY <1>1, <1>2, <1>5 DEF K, m, chunks, gap

\* A part of a sequence has its elements.
LEMMA PartHas ==
  ASSUME NEW T, NEW s \in Seq(T), NEW a \in 1 .. Len(s) + 1, NEW b \in a - 1 .. Len(s)
  PROVE  /\ SubSeq(s, a, b) \in Seq(T) /\ Len(SubSeq(s, a, b)) = (b - a) + 1
         /\ \A k \in 1 .. (b - a) + 1 : /\ SubSeq(s, a, b)[k] = s[(a + k) - 1]
                                        /\ (a + k) - 1 \in 1 .. Len(s)
<1>1. Len(s) \in Nat
  OBVIOUS
<1>2. QED
  BY <1>1

\* Tags do not change the order.
LEMMA TaggedFacts ==
  ASSUME NEW s \in Seq(TensorFrames), NEW i \in Nat
  PROVE  /\ Tagged(i, s) \in Seq(Nat \X TensorFrames) /\ Len(Tagged(i, s)) = Len(s)
         /\ DOMAIN Tagged(i, s) = 1 .. Len(s) /\ DOMAIN s = 1 .. Len(s) /\ Len(s) \in Nat
         /\ \A k \in 1 .. Len(s) : Tagged(i, s)[k] = <<i, s[k]>>
<1> DEFINE n == Len(s)
           t == Tagged(i, s)
<1>1. DOMAIN s = 1 .. n /\ n \in Nat /\ \A k \in 1 .. n : s[k] \in TensorFrames
  OBVIOUS
<1> HIDE DEF n
<1>2. t = [k \in 1 .. n |-> <<i, s[k]>>]
  BY <1>1 DEF Tagged
<1>3. t \in [1 .. n -> Nat \X TensorFrames]
  BY <1>1, <1>2
<1>4. \A k \in 1 .. n : t[k] = <<i, s[k]>>
  BY <1>2
<1> HIDE DEF t
<1>5. t \in Seq(Nat \X TensorFrames) /\ Len(t) = n
  BY <1>1, <1>3, SeqOfFun
<1>6. DOMAIN t = 1 .. n
  BY <1>3
<1>7. QED
  BY <1>1, <1>4, <1>5, <1>6 DEF t, n

\* chunk is some part of file i, and is read as planned.
OfFile(l, bs, i, chunk) ==
    /\ i \in DOMAIN l.files /\ chunk.names # <<>> /\ chunk.names[1][1] = i
    /\ \A k \in DOMAIN chunk.names :
         /\ chunk.names[k][1] = i
         /\ \E m \in DOMAIN Kept(l, l.files[i]) : chunk.names[k][2] = Kept(l, l.files[i])[m]
         /\ Bytes(chunk.names[k][2]) > 0 =>
              \E n \in DOMAIN chunk.ranges : InRange(chunk.names[k][2], chunk.ranges[n])
    /\ \A n \in DOMAIN chunk.ranges : n > 1 =>
         chunk.ranges[n - 1][2] + l.mergeGap < chunk.ranges[n][1]
    /\ Span(chunk) \in Nat /\ Span(chunk) <= bs[i] /\ bs[i] \in Nat
    /\ chunk.ranges # <<>> => LargestOf(Kept(l, l.files[i])) > 0

\* A chunk that is planned is some part of its file, or there is none.
LEMMA ChunkAtFacts ==
  ASSUME NEW l \in Loads, Plannable(l), NEW i \in Nat \ {0}, NEW j \in Nat \ {0},
         NEW bs, bs = Budgets(l), NEW x, x = ChunkAt(l, bs, i, j)
  PROVE  x \in ChunkSet /\ (x = NoChunk \/ OfFile(l, bs, i, x))
<1>1. CASE ~(i \in DOMAIN l.files /\ j <= Len(FileChunks(l, bs, i)))
  <2>1. x = NoChunk
    BY <1>1 DEF ChunkAt
  <2>2. <<>> \in Seq(Nat \X TensorFrames) /\ <<>> \in Seq(Nat \X Nat)
    OBVIOUS
  <2>3. QED
    BY <2>1, <2>2 DEF NoChunk, ChunkSet
<1>2. CASE i \in DOMAIN l.files /\ j <= Len(FileChunks(l, bs, i))
  <2> DEFINE K == Kept(l, l.files[i])
             m == bs[i]
             chunks == FileChunks(l, bs, i)
             c == chunks[j]
             gap == l.mergeGap
             s == c.names
             t == Tagged(i, s)
  <2>1. Frames(K) /\ m \in Nat
    BY <1>2, ChunksOfFile
  <2>2. PICK e : ChunksOf(chunks, e, K, m, gap)
    BY <1>2, ChunksOfFile
  <2>3. x = [names |-> t, ranges |-> c.ranges]
    BY <1>2 DEF ChunkAt
  <2>4. K \in Seq(TensorFrames)
    BY <2>1 DEF Frames
  <2> HIDE DEF K, m, gap
  <2>5. j \in 1 .. Len(chunks)
    <3>1. Len(chunks) \in Nat
      BY <2>2, Zenon DEF ChunksOf
    <3>2. QED
      BY <1>2, <3>1
  <2>6. ChunkGood(c, K, m, gap) /\ s = SubSeq(K, e[j - 1] + 1, e[j]) /\ Rises(e, Len(chunks), Len(K))
    BY <2>2, <2>5, Zenon DEF ChunksOf
  <2> HIDE DEF chunks
  <2>7. e[j - 1] \in 0 .. Len(K) /\ e[j] \in e[j - 1] .. Len(K)
    <3>1. j - 1 \in 0 .. Len(chunks) /\ j \in 0 .. Len(chunks)
      BY <2>5
    <3>2. e[j - 1] \in 0 .. Len(K) /\ e[j] \in 0 .. Len(K) /\ e[j - 1] <= e[j]
      BY <2>5, <2>6, <3>1 DEF Rises
    <3>3. Len(K) \in Nat
      BY <2>4
    <3>4. QED
      BY <3>2, <3>3
  <2>8. \A k \in DOMAIN s : \E n \in DOMAIN K : s[k] = K[n]
    <3> DEFINE a == e[j - 1]
               b == e[j]
    <3>1. a \in 0 .. Len(K) /\ b \in a .. Len(K) /\ s = SubSeq(K, a + 1, b) /\ Len(K) \in Nat
      BY <2>4, <2>6, <2>7
    <3> HIDE DEF a, b, s
    <3>2. a + 1 \in 1 .. Len(K) + 1 /\ b \in (a + 1) - 1 .. Len(K)
      BY <3>1
    <3>3. /\ s \in Seq(TensorFrames) /\ Len(s) = (b - (a + 1)) + 1
          /\ \A k \in 1 .. (b - (a + 1)) + 1 :
               s[k] = K[((a + 1) + k) - 1] /\ ((a + 1) + k) - 1 \in 1 .. Len(K)
      BY <2>4, <3>1, <3>2, PartHas
    <3>4. DOMAIN s = 1 .. (b - (a + 1)) + 1 /\ DOMAIN K = 1 .. Len(K)
      BY <2>4, <3>3
    <3>5. QED
      BY <3>3, <3>4
  <2>9. /\ s # <<>> /\ s \in Seq(TensorFrames) /\ c.ranges \in Seq(Nat \X Nat)
        /\ \A k \in DOMAIN s : Bytes(s[k]) > 0 => \E n \in DOMAIN c.ranges : InRange(s[k], c.ranges[n])
        /\ \A n \in DOMAIN c.ranges : n > 1 => c.ranges[n - 1][2] + gap < c.ranges[n][1]
        /\ Span(c) \in Nat /\ Span(c) <= m
        /\ c.ranges # <<>> => LargestOf(K) > 0
    BY <2>6, Zenon DEF ChunkGood, Frames
  <2>10. /\ t \in Seq(Nat \X TensorFrames) /\ DOMAIN t = 1 .. Len(s)
         /\ DOMAIN s = 1 .. Len(s) /\ Len(s) \in Nat
         /\ \A k \in 1 .. Len(s) : t[k] = <<i, s[k]>>
    <3>1. i \in Nat
      OBVIOUS
    <3>2. s \in Seq(TensorFrames)
      BY <2>9
    <3>3. t = Tagged(i, s)
      OBVIOUS
    <3> HIDE DEF c, s, t
    <3>4. /\ Tagged(i, s) \in Seq(Nat \X TensorFrames) /\ Len(Tagged(i, s)) = Len(s)
          /\ DOMAIN Tagged(i, s) = 1 .. Len(s) /\ DOMAIN s = 1 .. Len(s) /\ Len(s) \in Nat
      BY <3>1, <3>2, TaggedFacts
    <3>5. \A k \in 1 .. Len(s) : Tagged(i, s)[k] = <<i, s[k]>>
      BY <3>1, <3>2, TaggedFacts
    <3>6. QED
      BY <3>3, <3>4, <3>5
  <2>11. x.names = t /\ x.ranges = c.ranges /\ x \in ChunkSet
    <3> HIDE DEF c, t
    <3>1. QED
      BY <2>3, <2>9, <2>10 DEF ChunkSet
  <2>12. Span(x) = Span(c)
    <3> HIDE DEF c, t
    <3>1. QED
      BY <2>11 DEF Span
  <2> HIDE DEF c, s, t
  <2>13. 1 \in 1 .. Len(s)
    BY <2>9, <2>10
  <2>14. \A k \in 1 .. Len(s) : t[k][1] = i /\ t[k][2] = s[k]
    BY <2>10
  <2>15. t # <<>> /\ t[1][1] = i
    BY <2>10, <2>13, <2>14
  <2>16. \A k \in DOMAIN t :
            /\ t[k][1] = i
            /\ \E n \in DOMAIN K : t[k][2] = K[n]
            /\ Bytes(t[k][2]) > 0 => \E n \in DOMAIN c.ranges : InRange(t[k][2], c.ranges[n])
    BY <2>8, <2>9, <2>10, <2>14
  <2>17. OfFile(l, bs, i, x)
    BY <1>2, <2>1, <2>9, <2>11, <2>12, <2>15, <2>16, Zenon DEF OfFile, K, m, gap
  <2>18. QED
    BY <2>11, <2>17
<1>3. QED
  BY <1>1, <1>2

\* The batches of a group hold its chunks and nothing else.
LEMMA GroupFacts ==
  ASSUME NEW l \in Loads, Plannable(l), NEW bs, bs = Budgets(l),
         NEW g \in 1 .. Groups(l), NEW gb, gb = GroupBatches(l, bs, g)
  PROVE  /\ gb \in Seq(BatchSet(l)) /\ Len(gb) \in Nat
         /\ \A j \in 1 .. Len(gb) : \A r \in 1 .. l.group :
              gb[j][r] = ChunkAt(l, bs, FileAt(l, g, r), j)
         /\ \A r \in 1 .. l.group : FileAt(l, g, r) \in DOMAIN l.files =>
              Len(FileChunks(l, bs, FileAt(l, g, r))) <= Len(gb)
<1> DEFINE d == l.group
           chunks == [r \in 1 .. d |->
                        IF FileAt(l, g, r) \in DOMAIN l.files
                        THEN FileChunks(l, bs, FileAt(l, g, r)) ELSE <<>>]
           lens == [r \in 1 .. d |-> Len(chunks[r])]
           ls == {Len(chunks[r]) : r \in 1 .. d}
           most == CHOOSE n \in ls : \A r \in 1 .. d : Len(chunks[r]) <= n
           Row(j) == [r \in 1 .. d |-> ChunkAt(l, bs, FileAt(l, g, r), j)]
<1>1. d \in Nat \ {0} /\ g \in Nat \ {0}
  <2>1. Groups(l) \in Int
    <3>1. Len(l.files) \in Nat /\ l.group \in Nat \ {0}
      BY StatsOfLoad, ParamsOfLoad
    <3>2. Groups(l) = (Len(l.files) + l.group - 1) \div l.group /\ Len(l.files) + l.group - 1 \in Int
      BY <3>1 DEF Groups
    <3>3. QED
      BY <3>1, <3>2
  <2>2. QED
    BY <2>1, ParamsOfLoad
<1>2. \A r \in 1 .. d : Len(chunks[r]) \in Nat
  <2> SUFFICES ASSUME NEW r \in 1 .. d PROVE Len(chunks[r]) \in Nat
    BY Zenon
  <2>1. CASE FileAt(l, g, r) \in DOMAIN l.files
    <3> DEFINE i == FileAt(l, g, r)
    <3>1. PICK e : ChunksOf(FileChunks(l, bs, i), e, Kept(l, l.files[i]), bs[i], l.mergeGap)
      BY <2>1, ChunksOfFile
    <3>2. Len(FileChunks(l, bs, i)) \in Nat
      BY <3>1, Zenon DEF ChunksOf
    <3>3. chunks[r] = FileChunks(l, bs, i)
      BY <2>1
    <3>4. QED
      BY <3>2, <3>3
  <2>2. CASE FileAt(l, g, r) \notin DOMAIN l.files
    <3>1. chunks[r] = <<>>
      BY <2>2
    <3>2. QED
      BY <3>1
  <2>3. QED
    BY <2>1, <2>2
<1>3. most \in ls /\ \A r \in 1 .. d : Len(chunks[r]) <= most
  <2> HIDE DEF chunks
  <2>1. lens \in [1 .. d -> Nat]
    BY <1>2
  <2>2. PICK k \in 1 .. d : \A r \in 1 .. d : lens[r] <= lens[k]
    <3> HIDE DEF d, lens
    <3>1. QED
      BY <1>1, <2>1, Highest
  <2>3. lens[k] \in ls /\ \A r \in 1 .. d : Len(chunks[r]) <= lens[k]
    BY <2>2
  <2> HIDE DEF lens, ls
  <2>4. QED
    BY <2>3
<1>4. most \in Nat
  <2> HIDE DEF chunks, most
  <2>1. QED
    BY <1>2, <1>3
<1>5. gb = [j \in 1 .. most |-> Row(j)]
  <2> DEFINE file(r) == (g - 1) * l.group + r
             cs == [r \in 1 .. l.group |->
                     IF file(r) \in DOMAIN l.files
                     THEN PlanChunks(Kept(l, l.files[file(r)]), bs[file(r)], l.mergeGap)
                     ELSE <<>>]
             m == CHOOSE n \in {Len(cs[r]) : r \in 1 .. l.group} :
                    \A r \in 1 .. l.group : Len(cs[r]) <= n
             Old(j, r) == IF j <= Len(cs[r])
                          THEN [names |-> Tagged(file(r), cs[r][j].names),
                                ranges |-> cs[r][j].ranges]
                          ELSE NoChunk
  <2>1. gb = [j \in 1 .. m |-> [r \in 1 .. l.group |-> Old(j, r)]]
    BY Zenon DEF GroupBatches
  <2>2. cs = chunks
    BY Zenon DEF FileAt, FileChunks
  <2>3. m = most
    <3> HIDE DEF cs, chunks
    <3>1. QED
      BY <2>2, Zenon
  <2>4. ASSUME NEW j \in 1 .. most PROVE [r \in 1 .. l.group |-> Old(j, r)] = Row(j)
    <3>1. ASSUME NEW r \in 1 .. d PROVE Old(j, r) = ChunkAt(l, bs, FileAt(l, g, r), j)
      <4> DEFINE i == FileAt(l, g, r)
      <4>1. file(r) = i
        BY DEF FileAt
      <4>2. CASE i \in DOMAIN l.files
        <5>1. cs[r] = FileChunks(l, bs, i)
          BY <2>2, <4>2
        <5> HIDE DEF cs, file, i
        <5>2. QED
          BY <4>1, <4>2, <5>1, Zenon DEF ChunkAt, i
      <4>3. CASE i \notin DOMAIN l.files
        <5>1. cs[r] = <<>>
          BY <2>2, <4>3
        <5>2. j \in Nat \ {0}
          BY <1>4
        <5>3. ~(j <= Len(cs[r]))
          <6> HIDE DEF cs
          <6>1. QED
            BY <5>1, <5>2
        <5>4. Old(j, r) = NoChunk
          BY <5>3, Zenon
        <5> HIDE DEF Old, i
        <5>5. QED
          BY <4>3, <5>4 DEF ChunkAt, i
      <4>4. QED
        BY <4>2, <4>3
    <3> HIDE DEF Old
    <3>2. QED
      BY <3>1
  <2> HIDE DEF most, chunks, m, Old, cs
  <2>5. QED
    BY <2>1, <2>3, <2>4
<1> HIDE DEF most
<1>6. ASSUME NEW j \in 1 .. most PROVE Row(j) \in BatchSet(l)
  <2>1. ASSUME NEW r \in 1 .. d PROVE ChunkAt(l, bs, FileAt(l, g, r), j) \in ChunkSet
    <3> DEFINE i == FileAt(l, g, r)
               x == ChunkAt(l, bs, i, j)
    <3>1. i \in Nat \ {0}
      BY <1>1, FileAtFacts
    <3>2. j \in Nat \ {0}
      BY <1>4
    <3> HIDE DEF i, x
    <3>3. x \in ChunkSet
      BY <3>1, <3>2, ChunkAtFacts DEF x
    <3>4. QED
      BY <3>3 DEF i, x
  <2>2. QED
    BY <2>1 DEF BatchSet
<1> HIDE DEF chunks
<1>7. gb \in [1 .. most -> BatchSet(l)]
  <2> HIDE DEF Row
  <2>1. QED
    BY <1>5, <1>6
<1>8. gb \in Seq(BatchSet(l)) /\ Len(gb) = most
  BY <1>4, <1>7, SeqOfFun
<1>9. \A j \in 1 .. Len(gb) : \A r \in 1 .. d : gb[j][r] = ChunkAt(l, bs, FileAt(l, g, r), j)
  <2> SUFFICES ASSUME NEW j \in 1 .. Len(gb), NEW r \in 1 .. d
               PROVE  gb[j][r] = ChunkAt(l, bs, FileAt(l, g, r), j)
    BY Zenon
  <2>1. gb[j] = Row(j)
    BY <1>5, <1>8
  <2>2. QED
    BY <2>1, Zenon
<1>10. \A r \in 1 .. d : FileAt(l, g, r) \in DOMAIN l.files =>
          Len(FileChunks(l, bs, FileAt(l, g, r))) <= Len(gb)
  <2>1. \A r \in 1 .. d : FileAt(l, g, r) \in DOMAIN l.files =>
          chunks[r] = FileChunks(l, bs, FileAt(l, g, r))
    BY Zenon DEF chunks
  <2>2. QED
    BY <1>3, <1>8, <2>1
<1>11. QED
  BY <1>4, <1>8, <1>9, <1>10

GroupList(l, bs) == [g \in 1 .. Groups(l) |-> GroupBatches(l, bs, g)]
\* The batches of the first g groups
Off(l, bs, g) == Len(JoinedTo(GroupList(l, bs), g))

\* The batches of a load are those of its groups, one after the other.
LEMMA GroupListFacts ==
  ASSUME NEW l \in Loads, Plannable(l), NEW bs, bs = Budgets(l)
  PROVE  /\ GroupList(l, bs) \in Seq(Seq(BatchSet(l))) /\ Len(GroupList(l, bs)) = Groups(l)
         /\ Groups(l) \in Nat /\ Batches(l, bs) = JoinedTo(GroupList(l, bs), Groups(l))
         /\ Batches(l, bs) \in Seq(BatchSet(l))
         /\ \A g \in 1 .. Groups(l) : GroupList(l, bs)[g] = GroupBatches(l, bs, g)
<1> DEFINE ss == GroupList(l, bs)
           n == Groups(l)
           T == BatchSet(l)
<1>1. n \in Nat
  <2>1. Len(l.files) \in Nat /\ l.group \in Nat \ {0}
    BY StatsOfLoad, ParamsOfLoad
  <2>2. n = (Len(l.files) + l.group - 1) \div l.group /\ Len(l.files) + l.group - 1 \in Nat
    BY <2>1 DEF Groups
  <2> DEFINE a == Len(l.files) + l.group - 1
             d == l.group
  <2>3. a \in Nat /\ d \in Nat \ {0} /\ n = a \div d
    BY <2>1, <2>2
  <2> HIDE DEF a, d, n
  <2>4. QED
    BY <2>3
<1>2. \A g \in 1 .. n : GroupBatches(l, bs, g) \in Seq(T)
  BY GroupFacts
<1>3. Batches(l, bs) = Joined(ss)
  BY Zenon DEF Batches, GroupList
<1>4. \A g \in 1 .. n : ss[g] = GroupBatches(l, bs, g)
  BY DEF GroupList
<1> HIDE DEF n, T
<1>5. ss \in [1 .. n -> Seq(T)]
  BY <1>2 DEF GroupList, n
<1> HIDE DEF ss
<1>6. ss \in Seq(Seq(T)) /\ Len(ss) = n
  BY <1>1, <1>5, SeqOfFun
<1>7. Joined(ss) = JoinedTo(ss, n) /\ JoinedTo(ss, n) \in Seq(T)
  <2>1. n \in 0 .. Len(ss)
    BY <1>1, <1>6
  <2>2. QED
    BY <1>6, <2>1, JoinFacts
<1>8. QED
  BY <1>1, <1>3, <1>4, <1>6, <1>7 DEF ss, n, T

\* The batches of a group come after those of the groups before it.
LEMMA OffFacts ==
  ASSUME NEW l \in Loads, Plannable(l), NEW bs, bs = Budgets(l)
  PROVE  /\ Off(l, bs, 0) = 0 /\ Off(l, bs, Groups(l)) = Len(Batches(l, bs))
         /\ \A g \in 0 .. Groups(l) : Off(l, bs, g) \in Nat
         /\ \A g \in 1 .. Groups(l) :
              Off(l, bs, g) = Off(l, bs, g - 1) + Len(GroupBatches(l, bs, g))
         /\ \A g \in 0 .. Groups(l) : \A h \in 0 .. g : Off(l, bs, h) <= Off(l, bs, g)
<1> DEFINE ss == GroupList(l, bs)
           n == Groups(l)
           T == BatchSet(l)
<1>1. /\ ss \in Seq(Seq(T)) /\ Len(ss) = n /\ n \in Nat
      /\ Batches(l, bs) = JoinedTo(ss, n)
      /\ \A g \in 1 .. n : ss[g] = GroupBatches(l, bs, g)
  BY GroupListFacts
<1>2. \A g \in 0 .. n : Off(l, bs, g) = Len(JoinedTo(ss, g))
  BY DEF Off
<1> HIDE DEF ss, n, T
<1>3. /\ JoinedTo(ss, 0) = <<>>
      /\ \A k \in 1 .. n : JoinedTo(ss, k) = JoinedTo(ss, k - 1) \o ss[k]
      /\ \A k \in 0 .. n : JoinedTo(ss, k) \in Seq(T)
  BY <1>1, JoinFacts
<1>4. 0 \in 0 .. n /\ n \in 0 .. n /\ \A k \in 1 .. n : k \in 0 .. n /\ k - 1 \in 0 .. n
  BY <1>1
<1>5. Off(l, bs, 0) = 0 /\ Off(l, bs, n) = Len(Batches(l, bs))
  BY <1>1, <1>2, <1>3, <1>4
<1>6. \A g \in 0 .. n : Off(l, bs, g) \in Nat
  <2> SUFFICES ASSUME NEW g \in 0 .. n PROVE Off(l, bs, g) \in Nat
    OBVIOUS
  <2>1. JoinedTo(ss, g) \in Seq(T)
    BY <1>3
  <2>2. Len(JoinedTo(ss, g)) \in Nat
    BY <2>1
  <2>3. QED
    BY <1>2, <2>2
<1>7. \A g \in 1 .. n : Off(l, bs, g) = Off(l, bs, g - 1) + Len(GroupBatches(l, bs, g))
  <2> SUFFICES ASSUME NEW g \in 1 .. n
               PROVE  Off(l, bs, g) = Off(l, bs, g - 1) + Len(GroupBatches(l, bs, g))
    BY Zenon
  <2>1. JoinedTo(ss, g - 1) \in Seq(T) /\ ss[g] \in Seq(T)
    <3>1. g - 1 \in 0 .. n
      BY <1>4
    <3>2. JoinedTo(ss, g - 1) \in Seq(T)
      BY Zenon, <1>3, <3>1
    <3>3. g \in DOMAIN ss /\ ss \in Seq(Seq(T))
      BY <1>1
    <3>4. ss[g] \in Seq(T)
      BY <3>3
    <3>5. QED
      BY <3>2, <3>4
  <2>2. Len(JoinedTo(ss, g)) = Len(JoinedTo(ss, g - 1)) + Len(ss[g])
    <3> DEFINE x == JoinedTo(ss, g - 1)
               y == ss[g]
    <3>1. JoinedTo(ss, g) = x \o y
      BY <1>3
    <3>2. x \in Seq(T) /\ y \in Seq(T)
      BY <2>1
    <3> HIDE DEF x, y
    <3>3. Len(x \o y) = Len(x) + Len(y)
      BY <3>2
    <3>4. QED
      BY <3>1, <3>3 DEF x, y
  <2>3. QED
    BY <1>1, <1>2, <1>4, <2>2
<1>8. \A g \in 0 .. n : \A h \in 0 .. g : Off(l, bs, h) <= Off(l, bs, g)
  <2> SUFFICES ASSUME NEW g \in 0 .. n, NEW h \in 0 .. g
               PROVE  Off(l, bs, h) <= Off(l, bs, g)
    BY Zenon
  <2>1. h \in 0 .. n /\ g \in 0 .. Len(ss)
    BY <1>1
  <2>2. Len(JoinedTo(ss, h)) <= Len(JoinedTo(ss, g))
    BY <1>1, <2>1, JoinedPrefix
  <2>3. QED
    BY <1>2, <2>1, <2>2
<1>9. QED
  BY <1>5, <1>6, <1>7, <1>8 DEF n

\* Batch j of group g is where it should be.
PlaceOf(l, bs, b, g, j) ==
    /\ g \in 1 .. Groups(l) /\ j \in 1 .. Len(GroupBatches(l, bs, g))
    /\ b = Off(l, bs, g - 1) + j
    /\ \A r \in 1 .. l.group : Batches(l, bs)[b][r] = ChunkAt(l, bs, FileAt(l, g, r), j)

\* Every batch is some batch of some group.
LEMMA BatchHasPlace ==
  ASSUME NEW l \in Loads, Plannable(l), NEW bs, bs = Budgets(l),
         NEW b \in 1 .. Len(Batches(l, bs))
  PROVE  \E g, j : PlaceOf(l, bs, b, g, j)
<1> DEFINE ss == GroupList(l, bs)
           n == Groups(l)
           T == BatchSet(l)
<1>1. /\ ss \in Seq(Seq(T)) /\ Len(ss) = n /\ n \in Nat
      /\ Batches(l, bs) = JoinedTo(ss, n)
      /\ \A g \in 1 .. n : ss[g] = GroupBatches(l, bs, g)
  BY GroupListFacts
<1>2. \A g \in 0 .. n : Off(l, bs, g) = Len(JoinedTo(ss, g))
  BY DEF Off
<1>3. \A g \in 0 .. n : Off(l, bs, g) \in Nat
  BY OffFacts
<1> HIDE DEF ss, n, T
<1>4. n \in 0 .. Len(ss) /\ b \in 1 .. Len(JoinedTo(ss, n))
  BY <1>1
<1>5. PICK g \in 1 .. n : /\ b - Len(JoinedTo(ss, g - 1)) \in 1 .. Len(ss[g])
                          /\ JoinedTo(ss, n)[b] = ss[g][b - Len(JoinedTo(ss, g - 1))]
  BY <1>1, <1>4, JoinedAt
<1> DEFINE o == Off(l, bs, g - 1)
           j == b - o
<1>6. g - 1 \in 0 .. n
  BY <1>1
<1>7. o = Len(JoinedTo(ss, g - 1)) /\ o \in Nat
  BY <1>2, <1>3, <1>6
<1>8. j \in 1 .. Len(GroupBatches(l, bs, g)) /\ Batches(l, bs)[b] = GroupBatches(l, bs, g)[j]
  BY <1>1, <1>5, <1>7
<1>9. b = o + j
  BY <1>7
<1>10. \A r \in 1 .. l.group : GroupBatches(l, bs, g)[j][r] = ChunkAt(l, bs, FileAt(l, g, r), j)
  BY <1>8, GroupFacts DEF n
<1> HIDE DEF j
<1>11. PlaceOf(l, bs, b, g, j)
  BY <1>8, <1>9, <1>10, Zenon DEF PlaceOf, n
<1>12. QED
  BY <1>11

\* The group of a file, and its rank there
GroupOf(l, i) == (i - 1) \div l.group + 1
Rank(l, i) == ((i - 1) % l.group) + 1

\* What batch b holds of file i
NamesOf(l, bs, i, b) ==
    LET names == Batches(l, bs)[b][Rank(l, i)].names
    IN  IF names # <<>> /\ names[1][1] = i THEN names ELSE <<>>

\* What the batches hold of a file
LEMMA NamesAt ==
  ASSUME NEW l \in Loads, Plannable(l), NEW bs, bs = Budgets(l), NEW i \in DOMAIN l.files,
         NEW b, NEW g, NEW j, PlaceOf(l, bs, b, g, j)
  PROVE  /\ g = GroupOf(l, i) /\ j <= Len(FileChunks(l, bs, i)) =>
              NamesOf(l, bs, i, b) = Tagged(i, FileChunks(l, bs, i)[j].names)
         /\ ~(g = GroupOf(l, i) /\ j <= Len(FileChunks(l, bs, i))) => NamesOf(l, bs, i, b) = <<>>
<1> DEFINE r == Rank(l, i)
           h == GroupOf(l, i)
           f == FileAt(l, g, r)
           x == ChunkAt(l, bs, f, j)
           m == Len(FileChunks(l, bs, i))
<1>1. h \in 1 .. Groups(l) /\ r \in 1 .. l.group /\ FileAt(l, h, r) = i
  BY FileHasPlace DEF GroupOf, Rank
<1>2. Groups(l) \in Nat
  BY GroupListFacts
<1>3. g \in 1 .. Groups(l) /\ j \in 1 .. Len(GroupBatches(l, bs, g)) /\ Batches(l, bs)[b][r] = x
  BY <1>1, Zenon DEF PlaceOf
<1> HIDE DEF r, h
<1>4. g \in Nat \ {0}
  BY <1>2, <1>3
<1>5. j \in Nat \ {0}
  BY <1>3, GroupFacts
<1>6. f \in Nat \ {0} /\ (f - 1) \div l.group = g - 1 /\ (i - 1) \div l.group = h - 1
  <2>1. f \in Nat \ {0} /\ (f - 1) \div l.group = g - 1
    BY <1>1, <1>4, FileAtFacts
  <2>2. h \in Nat \ {0}
    BY <1>1, <1>2
  <2>3. (i - 1) \div l.group = h - 1
    BY <1>1, <2>2, FileAtFacts
  <2>4. QED
    BY <2>1, <2>3
<1>7. g # h => f # i
  <2> SUFFICES ASSUME f = i PROVE g = h
    BY Zenon
  <2>1. g - 1 = h - 1
    BY <1>6
  <2>2. QED
    BY <1>1, <1>2, <1>4, <2>1
<1>8. g = h => f = i
  BY <1>1
<1> HIDE DEF f
<1>9. x = NoChunk \/ OfFile(l, bs, f, x)
  BY <1>5, <1>6, ChunkAtFacts
<1>10. CASE g = h /\ j <= m
  <2>1. x.names = Tagged(i, FileChunks(l, bs, i)[j].names)
    BY <1>8, <1>10 DEF ChunkAt
  <2>2. x # NoChunk
    <3>1. i \in DOMAIN l.files /\ j \in 1 .. m /\ m \in Nat
      <4>1. PICK e : ChunksOf(FileChunks(l, bs, i), e, Kept(l, l.files[i]), bs[i], l.mergeGap)
        BY ChunksOfFile
      <4>2. m \in Nat
        BY <4>1, Zenon DEF ChunksOf
      <4>3. QED
        BY <1>5, <1>10, <4>2
    <3> DEFINE c == FileChunks(l, bs, i)[j]
               s == c.names
    <3>2. PICK e : ChunksOf(FileChunks(l, bs, i), e, Kept(l, l.files[i]), bs[i], l.mergeGap)
      BY ChunksOfFile
    <3>3. ChunkGood(c, Kept(l, l.files[i]), bs[i], l.mergeGap)
      BY <3>1, <3>2, Zenon DEF ChunksOf
    <3>4. s # <<>> /\ s \in Seq(TensorFrames)
      BY <3>3, Zenon DEF ChunkGood, Frames
    <3>5. i \in Nat
      BY <1>6, <1>8, <1>10
    <3> HIDE DEF c, s
    <3>6. Len(Tagged(i, s)) = Len(s) /\ Tagged(i, s) \in Seq(Nat \X TensorFrames)
      BY <3>4, <3>5, TaggedFacts
    <3>7. Tagged(i, s) # <<>>
      BY <3>4, <3>6
    <3>8. x.names # <<>>
      BY <2>1, <3>7 DEF c, s
    <3>9. QED
      BY <3>8 DEF NoChunk
  <2>3. x.names # <<>> /\ x.names[1][1] = f
    BY <1>9, <2>2, Zenon DEF OfFile
  <2>4. NamesOf(l, bs, i, b) = x.names
    BY <1>3, <1>8, <1>10, <2>3 DEF NamesOf, r
  <2>5. QED
    BY <1>10, <2>1, <2>4 DEF h, m
<1>11. CASE ~(g = h /\ j <= m)
  <2>1. ~(x.names # <<>> /\ x.names[1][1] = i)
    <3>1. CASE x = NoChunk
      BY <3>1 DEF NoChunk
    <3>2. CASE g # h /\ OfFile(l, bs, f, x)
      <4>1. x.names[1][1] = f
        BY <3>2, Zenon DEF OfFile
      <4>2. QED
        BY <1>7, <3>2, <4>1
    <3>3. CASE g = h /\ ~(j <= m)
      <4>1. f = i /\ ~(j <= Len(FileChunks(l, bs, f)))
        BY <1>8, <3>3
      <4>2. x = NoChunk
        BY <4>1 DEF ChunkAt
      <4>3. QED
        BY <4>2 DEF NoChunk
    <3>4. QED
      BY <1>9, <1>11, <3>1, <3>2, <3>3
  <2>2. NamesOf(l, bs, i, b) = <<>>
    BY <1>3, <2>1 DEF NamesOf, r
  <2>3. QED
    BY <1>11, <2>2 DEF h, m
<1>12. QED
  BY <1>10, <1>11

\* A part of the tags is the tags of the part.
LEMMA TaggedPart ==
  ASSUME NEW s \in Seq(TensorFrames), NEW i \in Nat, NEW a \in 0 .. Len(s), NEW b \in a .. Len(s)
  PROVE  Tagged(i, SubSeq(s, a + 1, b)) = SubSeq(Tagged(i, s), a + 1, b)
<1> DEFINE p == SubSeq(s, a + 1, b)
           t == Tagged(i, s)
           n == b - a
           q == SubSeq(t, a + 1, b)
           u == Tagged(i, p)
<1>1. a + 1 \in 1 .. Len(s) + 1 /\ b \in (a + 1) - 1 .. Len(s) /\ Len(s) \in Nat /\ n \in Nat
  OBVIOUS
<1>2. /\ p \in Seq(TensorFrames) /\ Len(p) = (b - (a + 1)) + 1
      /\ \A k \in 1 .. (b - (a + 1)) + 1 : /\ p[k] = s[((a + 1) + k) - 1]
                                           /\ ((a + 1) + k) - 1 \in 1 .. Len(s)
  BY <1>1, PartHas
<1>3. /\ t \in Seq(Nat \X TensorFrames) /\ Len(t) = Len(s)
      /\ \A k \in 1 .. Len(s) : t[k] = <<i, s[k]>>
  BY TaggedFacts
<1> HIDE DEF t
<1>4. /\ q \in Seq(Nat \X TensorFrames) /\ Len(q) = (b - (a + 1)) + 1
      /\ \A k \in 1 .. (b - (a + 1)) + 1 : /\ q[k] = t[((a + 1) + k) - 1]
                                           /\ ((a + 1) + k) - 1 \in 1 .. Len(t)
  BY <1>1, <1>3, PartHas
<1> HIDE DEF p, q, n
<1>5. /\ u \in Seq(Nat \X TensorFrames) /\ Len(u) = Len(p)
      /\ \A k \in 1 .. Len(p) : u[k] = <<i, p[k]>>
  BY <1>2, TaggedFacts
<1> HIDE DEF u
<1>6. Len(u) = Len(q) /\ \A k \in 1 .. Len(u) : u[k] = q[k]
  BY <1>2, <1>3, <1>4, <1>5
<1>7. u = q
  BY <1>4, <1>5, <1>6
<1>8. QED
  BY <1>7 DEF u, q, p, t

\* In batch b of n the tensors of a file are cut at c: before it begin the
\* chunks of its group, with o, there is nothing, and after its last, m, all.
CutAt(e, o, m, n, k) ==
    [b \in 0 .. n |-> IF b <= o THEN 0 ELSE IF b - o <= m THEN e[b - o] ELSE k]
CutPlaces(c, e, o, m, n) ==
    /\ \A b \in 1 .. n : b <= o \/ o + m < b => c[b] = c[b - 1]
    /\ \A j \in 1 .. m : c[o + j] = e[j] /\ c[(o + j) - 1] = e[j - 1]

\* The cuts of a file are places in it, in their order.
LEMMA CutRises ==
  ASSUME NEW o \in Nat, NEW m \in Nat, NEW n \in Nat, o + m <= n, NEW k \in Nat,
         NEW e, Rises(e, m, k), e[m] = k, NEW c, c = CutAt(e, o, m, n, k)
  PROVE  Rises(c, n, k) /\ c[n] = k /\ CutPlaces(c, e, o, m, n)
<1>1. /\ e \in [0 .. m -> 0 .. k] /\ e[0] = 0 /\ \A j \in 1 .. m : e[j - 1] <= e[j]
      /\ \A j \in 0 .. m : e[j] \in 0 .. k
  BY DEF Rises
<1>2. DOMAIN c = 0 .. n
  BY DEF CutAt
<1>3. \A b \in 0 .. n : /\ b <= o => c[b] = 0
                        /\ o < b /\ b - o <= m => c[b] = e[b - o]
                        /\ o + m < b => c[b] = k
  BY DEF CutAt
<1>4. \A b \in 0 .. n : c[b] \in 0 .. k
  <2> SUFFICES ASSUME NEW b \in 0 .. n PROVE c[b] \in 0 .. k
    OBVIOUS
  <2>1. CASE b <= o
    BY <1>3, <2>1
  <2>2. CASE o < b /\ b - o <= m
    <3>1. b - o \in 0 .. m
      BY <2>2
    <3>2. QED
      BY <1>1, <1>3, <2>2, <3>1
  <2>3. CASE o + m < b
    BY <1>3, <2>3
  <2>4. QED
    BY <2>1, <2>2, <2>3
<1>5. c \in [0 .. n -> 0 .. k]
  <2>1. c = [b \in 0 .. n |-> c[b]]
    BY Zenon DEF CutAt
  <2>2. QED
    BY <1>4, <2>1
<1>6. \A b \in 0 .. n : o <= b /\ b - o <= m => c[b] = e[b - o]
  <2> SUFFICES ASSUME NEW b \in 0 .. n, o <= b, b - o <= m PROVE c[b] = e[b - o]
    OBVIOUS
  <2>1. CASE b = o
    <3>1. b - o = 0 /\ c[b] = 0
      BY <1>3, <2>1
    <3>2. QED
      BY <1>1, <3>1
  <2>2. QED
    BY <1>3, <2>1
<1>7. \A b \in 0 .. n : o + m <= b => c[b] = k
  <2> SUFFICES ASSUME NEW b \in 0 .. n, o + m <= b PROVE c[b] = k
    OBVIOUS
  <2>1. CASE b = o + m
    <3>1. b - o = m
      BY <2>1
    <3>2. c[b] = e[b - o]
      BY <1>6, <2>1
    <3>3. QED
      BY <3>1, <3>2
  <2>2. QED
    BY <1>3, <2>1
<1>8. \A b \in 1 .. n : b <= o \/ o + m < b => c[b] = c[b - 1]
  <2> SUFFICES ASSUME NEW b \in 1 .. n, b <= o \/ o + m < b PROVE c[b] = c[b - 1]
    OBVIOUS
  <2>1. b - 1 \in 0 .. n /\ b \in 0 .. n
    OBVIOUS
  <2>2. CASE b <= o
    BY <1>3, <2>1, <2>2
  <2>3. CASE o + m < b
    BY <1>7, <2>1, <2>3
  <2>4. QED
    BY <2>2, <2>3
<1>9. \A j \in 1 .. m : c[o + j] = e[j] /\ c[(o + j) - 1] = e[j - 1]
  <2> SUFFICES ASSUME NEW j \in 1 .. m PROVE c[o + j] = e[j] /\ c[(o + j) - 1] = e[j - 1]
    OBVIOUS
  <2>1. /\ o + j \in 0 .. n /\ (o + j) - 1 \in 0 .. n
        /\ (o + j) - o = j /\ ((o + j) - 1) - o = j - 1
        /\ o <= o + j /\ o <= (o + j) - 1 /\ j <= m /\ j - 1 <= m
    OBVIOUS
  <2>2. QED
    BY <1>6, <2>1
<1>10. \A b \in 1 .. n : c[b - 1] <= c[b]
  <2> SUFFICES ASSUME NEW b \in 1 .. n PROVE c[b - 1] <= c[b]
    OBVIOUS
  <2>1. c[b - 1] \in 0 .. k /\ c[b] \in 0 .. k
    BY <1>4
  <2>2. CASE b <= o \/ o + m < b
    BY <1>8, <2>1, <2>2
  <2>3. CASE ~(b <= o \/ o + m < b)
    <3> DEFINE j == b - o
    <3>1. j \in 1 .. m /\ b = o + j
      BY <2>3
    <3> HIDE DEF j
    <3>2. QED
      BY <1>1, <1>9, <3>1
  <2>4. QED
    BY <2>2, <2>3
<1>11. c[0] = 0 /\ c[n] = k
  BY <1>3, <1>7
<1>12. QED
  BY <1>5, <1>8, <1>9, <1>10, <1>11 DEF Rises, CutPlaces

\* c cuts the kept tensors of file i, K, into what the batches 1 .. n hold of them.
CutsShare(l, bs, i, K, n, c) ==
    /\ Rises(c, n, Len(K)) /\ c[n] = Len(K)
    /\ \A b \in 1 .. n : NamesOf(l, bs, i, b) = SubSeq(Tagged(i, K), c[b - 1] + 1, c[b])

\* The batches hold the kept tensors of a file, in their order, in chunks.
LEMMA Delivered ==
  ASSUME NEW l \in Loads, Plannable(l), NEW bs, bs = Budgets(l), NEW i \in DOMAIN l.files,
         NEW K, K = Kept(l, l.files[i]), NEW n, n = Len(Batches(l, bs))
  PROVE  /\ K \in Seq(TensorFrames) /\ i \in Nat /\ n \in Nat
         /\ \E c : CutsShare(l, bs, i, K, n, c)
<1> DEFINE chunks == FileChunks(l, bs, i)
           m == Len(chunks)
           h == GroupOf(l, i)
           o == Off(l, bs, h - 1)
           k == Len(K)
           T == Tagged(i, K)
<1>1. K \in Seq(TensorFrames) /\ i \in Nat /\ n \in Nat
  <2>1. Frames(K)
    BY KeptFrames
  <2>2. i \in 1 .. Len(l.files) /\ Len(l.files) \in Nat
    BY StatsOfLoad
  <2>3. Batches(l, bs) \in Seq(BatchSet(l))
    BY GroupListFacts
  <2>4. QED
    BY <2>1, <2>2, <2>3 DEF Frames
<1>2. PICK e : ChunksOf(chunks, e, K, bs[i], l.mergeGap)
  BY ChunksOfFile
<1>3. /\ m \in Nat /\ Rises(e, m, k) /\ e[m] = k
      /\ \A j \in 1 .. m : chunks[j].names = SubSeq(K, e[j - 1] + 1, e[j])
  BY <1>2, Zenon DEF ChunksOf
<1>4. /\ h \in 1 .. Groups(l) /\ Rank(l, i) \in 1 .. l.group
      /\ FileAt(l, h, Rank(l, i)) = i /\ Groups(l) \in Nat
  BY FileHasPlace, GroupListFacts DEF GroupOf, Rank
<1>5. k \in Nat
  BY <1>1
<1> HIDE DEF h
<1>6. /\ o \in Nat /\ Off(l, bs, h) \in Nat
      /\ Off(l, bs, h) = o + Len(GroupBatches(l, bs, h)) /\ Off(l, bs, h) <= n
      /\ m <= Len(GroupBatches(l, bs, h)) /\ Len(GroupBatches(l, bs, h)) \in Nat
  <2>1. h - 1 \in 0 .. Groups(l) /\ h \in 0 .. Groups(l) /\ Groups(l) \in 0 .. Groups(l)
    BY <1>4
  <2>2. o \in Nat /\ Off(l, bs, h) \in Nat /\ Off(l, bs, h) = o + Len(GroupBatches(l, bs, h))
    BY <1>4, <2>1, OffFacts
  <2>3. Off(l, bs, h) <= n
    BY <2>1, OffFacts
  <2>4. m <= Len(GroupBatches(l, bs, h)) /\ Len(GroupBatches(l, bs, h)) \in Nat
    BY <1>4, GroupFacts
  <2>5. QED
    BY <2>2, <2>3, <2>4
<1> HIDE DEF o, m
<1>7. o + m <= n
  BY <1>1, <1>3, <1>6
<1> DEFINE c == CutAt(e, o, m, n, k)
<1> HIDE DEF c, k
<1>8. /\ Rises(c, n, k) /\ c[n] = k
      /\ \A b \in 1 .. n : b <= o \/ o + m < b => c[b] = c[b - 1]
      /\ \A j \in 1 .. m : c[o + j] = e[j] /\ c[(o + j) - 1] = e[j - 1]
  <2>1. c = CutAt(e, o, m, n, k)
    BY DEF c
  <2>2. Rises(e, m, k) /\ e[m] = k /\ o \in Nat /\ m \in Nat /\ n \in Nat /\ k \in Nat /\ o + m <= n
    BY <1>1, <1>3, <1>5, <1>6, <1>7 DEF k
  <2>3. Rises(c, n, k)
    BY <2>1, <2>2, CutRises
  <2>4. c[n] = k
    BY <2>1, <2>2, CutRises
  <2>5. CutPlaces(c, e, o, m, n)
    BY <2>1, <2>2, CutRises
  <2>6. QED
    BY <2>3, <2>4, <2>5, Zenon DEF CutPlaces
<1>9. T \in Seq(Nat \X TensorFrames) /\ Len(T) = k
  BY <1>1, TaggedFacts DEF k
<1>10. ASSUME NEW b \in 1 .. n PROVE NamesOf(l, bs, i, b) = SubSeq(T, c[b - 1] + 1, c[b])
  <2>1. PICK g, j : PlaceOf(l, bs, b, g, j)
    BY BatchHasPlace
  <2>2. /\ g = h /\ j <= m => NamesOf(l, bs, i, b) = Tagged(i, chunks[j].names)
        /\ ~(g = h /\ j <= m) => NamesOf(l, bs, i, b) = <<>>
    BY <2>1, NamesAt DEF h, m
  <2>3. /\ g \in 1 .. Groups(l) /\ j \in 1 .. Len(GroupBatches(l, bs, g))
        /\ b = Off(l, bs, g - 1) + j
    BY <2>1, Zenon DEF PlaceOf
  <2>4. c[b - 1] \in 0 .. k /\ c[b] \in c[b - 1] .. k
    <3>1. b - 1 \in 0 .. n /\ b \in 0 .. n
      BY <1>1
    <3>2. c[b - 1] \in 0 .. k /\ c[b] \in 0 .. k /\ c[b - 1] <= c[b]
      BY <1>8, <3>1 DEF Rises
    <3>3. QED
      BY <1>5, <3>2
  <2>5. CASE g = h /\ j <= m
    <3>1. j \in 1 .. m /\ b = o + j
      <4>1. j \in Nat \ {0}
        BY <2>3, GroupFacts
      <4>2. QED
        BY <1>3, <2>3, <2>5, <4>1 DEF o
    <3>2. c[b] = e[j] /\ c[b - 1] = e[j - 1]
      BY <1>8, <3>1
    <3>3. chunks[j].names = SubSeq(K, c[b - 1] + 1, c[b])
      BY <1>3, <3>1, <3>2
    <3> DEFINE x == c[b - 1]
               y == c[b]
    <3>4. x \in 0 .. Len(K) /\ y \in x .. Len(K)
      BY <2>4 DEF k
    <3> HIDE DEF x, y, T
    <3>5. Tagged(i, SubSeq(K, x + 1, y)) = SubSeq(T, x + 1, y)
      BY <1>1, <3>4, TaggedPart DEF T
    <3>6. QED
      BY <2>2, <2>5, <3>3, <3>5 DEF x, y
  <2>6. CASE ~(g = h /\ j <= m)
    <3>1. b <= o \/ o + m < b
      <4> DEFINE u == Off(l, bs, g - 1)
                 v == Off(l, bs, g)
                 lg == Len(GroupBatches(l, bs, g))
      <4>1. g - 1 \in 0 .. Groups(l) /\ g \in 0 .. Groups(l) /\ h \in 0 .. Groups(l)
            /\ h - 1 \in 0 .. Groups(l)
        BY <1>4, <2>3
      <4>2. u \in Nat /\ v \in Nat /\ v = u + lg
        BY <2>3, <4>1, OffFacts
      <4>3. lg \in Nat /\ j \in 1 .. lg /\ b = u + j
        BY <2>3, GroupFacts
      <4>4. CASE g < h
        <5>1. g \in 0 .. h - 1
          BY <1>4, <2>3, <4>4
        <5>2. v <= o
          BY <4>1, <5>1, OffFacts DEF o
        <5> HIDE DEF u, v, lg
        <5>3. QED
          BY <1>6, <4>2, <4>3, <5>2
      <4>5. CASE h < g
        <5>1. h \in 0 .. g - 1
          BY <1>4, <2>3, <4>5
        <5>2. Off(l, bs, h) <= u
          BY <4>1, <5>1, OffFacts
        <5> HIDE DEF u, v, lg
        <5>3. QED
          BY <1>3, <1>6, <4>2, <4>3, <5>2
      <4>6. CASE g = h /\ m < j
        <5>1. u = o
          BY <4>6 DEF o
        <5> HIDE DEF u, v, lg
        <5>2. QED
          BY <1>3, <1>6, <4>2, <4>3, <4>6, <5>1
      <4>7. g < h \/ h < g \/ (g = h /\ m < j)
        <5> HIDE DEF lg
        <5>1. QED
          BY <1>3, <1>4, <2>3, <2>6, <4>3
      <4>8. QED
        BY <4>4, <4>5, <4>6, <4>7
    <3>2. c[b] = c[b - 1]
      BY <1>8, <3>1
    <3> DEFINE y == c[b]
    <3>3. y \in 0 .. Len(T)
      BY <1>9, <2>4, <3>2
    <3> HIDE DEF y, T
    <3>4. SubSeq(T, y + 1, y) = <<>>
      <4>1. T \in Seq(Nat \X TensorFrames) /\ y + 1 \in 1 .. Len(T) + 1 /\ y \in (y + 1) - 1 .. Len(T)
        BY <1>9, <3>3
      <4>2. /\ SubSeq(T, y + 1, y) \in Seq(Nat \X TensorFrames)
            /\ Len(SubSeq(T, y + 1, y)) = (y - (y + 1)) + 1
        BY SMTT(30), <4>1, PartHas
      <4>3. (y - (y + 1)) + 1 = 0
        BY <3>3, <1>9
      <4>4. QED
        BY <4>2, <4>3
    <3>5. QED
      BY <2>2, <2>6, <3>2, <3>4 DEF y
  <2>7. QED
    BY <2>5, <2>6
<1>11. CutsShare(l, bs, i, K, n, c)
  <2>1. \A b \in 1 .. n : NamesOf(l, bs, i, b) = SubSeq(Tagged(i, K), c[b - 1] + 1, c[b])
    BY Zenon, <1>10 DEF T
  <2>2. QED
    BY Zenon, <1>8, <2>1 DEF CutsShare, k
<1>12. QED
  BY Zenon, <1>1, <1>11

\* So one after the other they are the kept tensors of the file.
LEMMA ShareDelivered ==
  ASSUME NEW l \in Loads, Plannable(l), NEW bs, bs = Budgets(l), NEW i \in DOMAIN l.files,
         NEW bb, bb = Batches(l, bs)
  PROVE  Joined([b \in DOMAIN bb |-> NamesOf(l, bs, i, b)]) = Tagged(i, Kept(l, l.files[i]))
<1> DEFINE K == Kept(l, l.files[i])
           n == Len(bb)
           T == Tagged(i, K)
           ss == [b \in 1 .. n |-> NamesOf(l, bs, i, b)]
           U == Nat \X TensorFrames
<1>1. K \in Seq(TensorFrames) /\ i \in Nat /\ n \in Nat
  BY Delivered
<1>2. PICK c : /\ Rises(c, n, Len(K)) /\ c[n] = Len(K)
               /\ \A b \in 1 .. n : NamesOf(l, bs, i, b) = SubSeq(T, c[b - 1] + 1, c[b])
  <2>1. K = Kept(l, l.files[i]) /\ n = Len(Batches(l, bs)) /\ T = Tagged(i, K)
    OBVIOUS
  <2> HIDE DEF K, n, T
  <2>2. PICK c : CutsShare(l, bs, i, K, n, c)
    BY <2>1, Delivered
  <2>3. Rises(c, n, Len(K)) /\ c[n] = Len(K)
    BY Zenon, <2>2 DEF CutsShare
  <2>4. \A b \in 1 .. n : NamesOf(l, bs, i, b) = SubSeq(T, c[b - 1] + 1, c[b])
    BY Zenon, <2>1, <2>2 DEF CutsShare
  <2>5. QED
    BY Zenon, <2>3, <2>4
<1>3. DOMAIN bb = 1 .. n
  <2>1. bb \in Seq(BatchSet(l))
    BY GroupListFacts
  <2>2. QED
    BY <2>1
<1> HIDE DEF K, n
<1>4. T \in Seq(U) /\ Len(T) = Len(K) /\ Len(K) \in Nat
  BY <1>1, TaggedFacts
<1> HIDE DEF T
<1>5. \A b \in 1 .. n : NamesOf(l, bs, i, b) \in Seq(U)
  <2> SUFFICES ASSUME NEW b \in 1 .. n PROVE NamesOf(l, bs, i, b) \in Seq(U)
    OBVIOUS
  <2> DEFINE x == c[b - 1]
             y == c[b]
  <2>1. x \in 0 .. Len(T) /\ y \in x .. Len(T)
    <3>1. b - 1 \in 0 .. n /\ b \in 0 .. n
      BY <1>1
    <3>2. c[b - 1] \in 0 .. Len(T) /\ c[b] \in 0 .. Len(T) /\ c[b - 1] <= c[b]
      BY <1>2, <1>4, <3>1 DEF Rises
    <3>3. QED
      BY <1>4, <3>2
  <2>2. NamesOf(l, bs, i, b) = SubSeq(T, x + 1, y)
    BY <1>2
  <2> HIDE DEF x, y, U
  <2>3. x + 1 \in 1 .. Len(T) + 1 /\ y \in (x + 1) - 1 .. Len(T)
    BY <1>4, <2>1
  <2>4. SubSeq(T, x + 1, y) \in Seq(U)
    BY <1>4, <2>3, PartHas
  <2>5. QED
    BY <2>2, <2>4
<1> HIDE DEF U
<1>6. ss \in [1 .. n -> Seq(U)] /\ \A b \in 1 .. n : ss[b] = SubSeq(T, c[b - 1] + 1, c[b])
  BY <1>2, <1>5
<1> HIDE DEF ss
<1>7. ss \in Seq(Seq(U)) /\ Len(ss) = n
  BY <1>1, <1>6, SeqOfFun
<1>8. n \in 0 .. Len(ss)
  BY <1>1, <1>7
<1>9. JoinedTo(ss, n) = SubSeq(T, 1, c[n])
  <2>1. Rises(c, n, Len(T))
    BY <1>2, <1>4
  <2>2. T \in Seq(U) /\ ss \in Seq(Seq(U)) /\ n \in 0 .. Len(ss)
    BY <1>4, <1>7, <1>8
  <2>3. \A k \in 1 .. n : ss[k] = SubSeq(T, c[k - 1] + 1, c[k])
    BY <1>6
  <2>4. QED
    BY <2>1, <2>2, <2>3, JoinedParts
<1>10. SubSeq(T, 1, Len(T)) = T
  BY <1>4
<1>11. Joined(ss) = JoinedTo(ss, n)
  BY <1>7, JoinFacts
<1>12. Joined(ss) = T
  BY <1>2, <1>4, <1>9, <1>10, <1>11
<1>13. [b \in DOMAIN bb |-> NamesOf(l, bs, i, b)] = ss
  BY <1>3 DEF ss
<1>14. QED
  BY <1>12, <1>13 DEF T, K

-----------------------------------------------------------------------------
(* The specification.                                                      *)

\* Loading is planned or refused once, self.queue_size clamped with it, and the
\* plan stays as it is.
PlanInv ==
    /\ load \in Loads
    /\ phase \in {"new", "refused", "loading"}
    /\ phase # "new" => size = QueueSize(load)
    /\ phase = "refused" => ~Plannable(load)
    /\ phase = "loading" => /\ Plannable(load) /\ budgets = Budgets(load)
                            /\ batches = Batches(load, budgets)

\* A step of a load keeps to its plan.
LEMMA PlanStep == PlanInv /\ [Next]_vars => PlanInv'
<1> SUFFICES ASSUME PlanInv, [Next]_vars PROVE PlanInv'
  OBVIOUS
<1>1. CASE CreateBatches
  <2>1. /\ load' = load /\ size' = QueueSize(load)
        /\ Plannable(load) => /\ phase' = "loading" /\ budgets' = Budgets(load)
                              /\ batches' = Batches(load, Budgets(load))
        /\ ~Plannable(load) => phase' = "refused"
    BY <1>1, Zenon DEF CreateBatches
  <2>2. /\ QueueSize(load)' = QueueSize(load) /\ Plannable(load)' = Plannable(load)
        /\ Budgets(load)' = Budgets(load)
    BY <2>1, Zenon
  <2>3. Plannable(load) => Batches(load, budgets)' = Batches(load, Budgets(load))
    BY <2>1, Zenon
  <2>4. QED
    BY <2>1, <2>2, <2>3, Zenon DEF PlanInv
<1>2. CASE UNCHANGED <<plan, phase>>
  <2>1. /\ load' = load /\ size' = size /\ phase' = phase
        /\ budgets' = budgets /\ batches' = batches
    BY <1>2 DEF plan
  <2>2. /\ QueueSize(load)' = QueueSize(load) /\ Plannable(load)' = Plannable(load)
        /\ Budgets(load)' = Budgets(load) /\ Batches(load, budgets)' = Batches(load, budgets)
    BY <2>1, Zenon
  <2>3. QED
    BY <2>1, <2>2, Zenon DEF PlanInv
<1>3. CASE CopyBatch
  BY <1>2, <1>3, Zenon DEF CopyBatch
<1>4. CASE \E n \in 1 .. load.runTensors : GetTensor(n)
  BY <1>2, <1>4, Zenon DEF GetTensor
<1>5. CASE Yield
  BY <1>2, <1>5, Zenon DEF Yield
<1>6. CASE CloseBatch
  BY <1>2, <1>6, Zenon DEF CloseBatch
<1>7. CASE UNCHANGED vars
  BY <1>2, <1>7, Zenon DEF vars
<1>8. QED
  BY <1>1, <1>3, <1>4, <1>5, <1>6, <1>7, Zenon DEF Next

\* In every reachable state a load follows its plan.
LEMMA PlanInvHolds == Spec => []PlanInv
<1>1. Init => PlanInv
  BY DEF Init, PlanInv
<1>2. QED
  BY <1>1, PlanStep, PTL DEF Spec

\* In every reachable state the clamped queue size of a budgeted load can be
\* planned and the next deeper one cannot; a load that is refused could not be
\* planned serially either.
THEOREM FitExact == Spec => []FitIsExact
<1>1. PlanInv => FitIsExact
  <2> DEFINE Plans(q) == Feasible(Stats(load), LoadDepth(q, load.group), Params(load))
  <2> SUFFICES ASSUME PlanInv, phase # "new", load.limited
               PROVE  /\ phase = "refused" => ~Plans(-1)
                      /\ phase = "loading" => Plans(size)
                      /\ phase = "loading" /\ size < load.queue => ~Plans(size + 1)
    BY Zenon DEF FitIsExact
  <2>1. load \in Loads /\ size = Clamped(load)
    BY DEF PlanInv, QueueSize
  <2>2. Plannable(load) <=> Plans(size)
    BY <2>1 DEF Plannable, Depth
  <2>3. /\ ~Plans(size) => ~Plans(-1)
        /\ Plans(size) /\ size < load.queue => ~Plans(size + 1)
    BY <2>1, ClampInverts
  <2> HIDE DEF Plans
  <2>4. QED
    BY <2>2, <2>3 DEF PlanInv
<1>2. QED
  BY <1>1, PlanInvHolds, PTL

\* A chunk of a batch in its place
LEMMA ChunkOfBatch ==
  ASSUME NEW l \in Loads, Plannable(l), NEW bs, bs = Budgets(l),
         NEW b, NEW g, NEW j, PlaceOf(l, bs, b, g, j), NEW r \in 1 .. l.group
  PROVE  LET x == Batches(l, bs)[b][r]
         IN  /\ x = ChunkAt(l, bs, FileAt(l, g, r), j) /\ x \in ChunkSet
             /\ FileAt(l, g, r) \in Nat \ {0} /\ g \in Nat \ {0} /\ j \in Nat \ {0}
             /\ x = NoChunk \/ OfFile(l, bs, FileAt(l, g, r), x)
<1> DEFINE f == FileAt(l, g, r)
           x == Batches(l, bs)[b][r]
<1>1. Groups(l) \in Nat
  BY GroupListFacts
<1>2. g \in 1 .. Groups(l) /\ j \in 1 .. Len(GroupBatches(l, bs, g)) /\ x = ChunkAt(l, bs, f, j)
  BY Zenon DEF PlaceOf
<1>3. g \in Nat \ {0} /\ j \in Nat \ {0}
  BY <1>1, <1>2, GroupFacts
<1>4. f \in Nat \ {0}
  BY <1>3, FileAtFacts
<1> HIDE DEF f, x
<1>5. x \in ChunkSet /\ (x = NoChunk \/ OfFile(l, bs, f, x))
  BY <1>2, <1>3, <1>4, ChunkAtFacts
<1>6. QED
  BY <1>2, <1>3, <1>4, <1>5 DEF f, x

\* In every reachable state of a load the chunk-batches deliver the tensors of
\* this rank's share of every file once and in order, read what they hold, and
\* stay within their budgets; every expert has one owner.
THEOREM ReadsItsShareHolds == Spec => []ReadsItsShare
<1>1. PlanInv => ReadsItsShare
  <2> SUFFICES ASSUME PlanInv, phase = "loading" PROVE ReadsItsShare
    BY Zenon DEF ReadsItsShare
  <2>1. /\ load \in Loads /\ Plannable(load) /\ budgets = Budgets(load)
        /\ batches = Batches(load, budgets)
    BY Zenon DEF PlanInv
  <2>2. ASSUME NEW i \in DOMAIN load.files
        PROVE  LET share == Share(i)
               IN  [k \in DOMAIN share |-> share[k][2]] = Kept(load, load.files[i])
    <3> DEFINE K == Kept(load, load.files[i])
               T == Tagged(i, K)
    <3>1. Share(i) = Joined([b \in DOMAIN batches |-> NamesOf(load, budgets, i, b)])
      BY <2>1, Zenon DEF Share, NamesOf, RankOf, Rank
    <3>2. Share(i) = T
      BY <2>1, <3>1, ShareDelivered
    <3>3. K \in Seq(TensorFrames) /\ i \in Nat
      BY <2>1, Delivered
    <3> HIDE DEF K
    <3>4. /\ DOMAIN T = 1 .. Len(K) /\ DOMAIN K = 1 .. Len(K)
          /\ \A k \in 1 .. Len(K) : T[k] = <<i, K[k]>>
      BY <3>3, TaggedFacts
    <3> HIDE DEF T
    <3>5. [k \in DOMAIN T |-> T[k][2]] = K
      <4>1. \A k \in 1 .. Len(K) : T[k][2] = K[k]
        BY <3>4
      <4>2. K = [k \in 1 .. Len(K) |-> K[k]]
        BY <3>3
      <4>3. QED
        BY <3>4, <4>1, <4>2
    <3>6. QED
      BY <3>2, <3>5 DEF K
  <2>3. ASSUME NEW b \in DOMAIN batches, NEW r \in 1 .. load.group
        PROVE  LET chunk == batches[b][r] IN
               /\ \A k \in DOMAIN chunk.names :
                    Bytes(chunk.names[k][2]) > 0 =>
                      \E n \in DOMAIN chunk.ranges :
                          InRange(chunk.names[k][2], chunk.ranges[n])
               /\ \A n \in DOMAIN chunk.ranges : n > 1 =>
                    chunk.ranges[n - 1][2] + load.mergeGap < chunk.ranges[n][1]
               /\ chunk.names # <<>> => Span(chunk) <= budgets[chunk.names[1][1]]
    <3> DEFINE x == batches[b][r]
    <3>1. b \in 1 .. Len(Batches(load, budgets))
      <4>1. batches \in Seq(BatchSet(load))
        BY <2>1, GroupListFacts
      <4>2. QED
        BY <2>1, <4>1
    <3>2. PICK g, j : PlaceOf(load, budgets, b, g, j)
      BY <2>1, <3>1, BatchHasPlace
    <3> DEFINE f == FileAt(load, g, r)
    <3>3. x = NoChunk \/ OfFile(load, budgets, f, x)
      BY <2>1, <3>2, ChunkOfBatch
    <3> HIDE DEF x, f
    <3>4. CASE x = NoChunk
      <4>1. x.names = <<>> /\ x.ranges = <<>> /\ DOMAIN <<>> = {}
        BY <3>4 DEF NoChunk
      <4>2. QED
        BY <4>1 DEF x
    <3>5. CASE OfFile(load, budgets, f, x)
      BY <3>5, Zenon DEF OfFile, x
    <3>6. QED
      BY <3>3, <3>4, <3>5
  <2>4. ASSUME NEW i \in DOMAIN load.files, NEW k \in DOMAIN load.files[i]
        PROVE  LET t == load.files[i][k]
                   keepers == {r \in 0 .. load.ep.size - 1 :
                                 Keep(t, load.ep.experts, load.ep.size, r)}
               IN  IF t.expert = -1 THEN keepers = 0 .. load.ep.size - 1
                   ELSE Cardinality(keepers) = 1
    <3> DEFINE t == load.files[i][k]
               e == load.ep.experts
               n == load.ep.size
               keepers == {r \in 0 .. n - 1 : Keep(t, e, n, r)}
    <3>1. e \in Nat /\ n \in Nat \ {0} /\ t.expert \in -1 .. e - 1
      BY <2>1, LoadsAssumption
    <3> HIDE DEF t, e, n
    <3>2. CASE t.expert = -1
      <4>1. keepers = 0 .. n - 1
        BY <3>2 DEF Keep
      <4>2. QED
        BY <3>2, <4>1 DEF t, e, n
    <3>3. CASE t.expert # -1
      <4>1. keepers = {r \in 0 .. n - 1 : t.expert \in OwnedExperts(e, n, r)}
        BY <3>3 DEF Keep
      <4>2. t.expert \in 0 .. e - 1
        BY <3>1, <3>3
      <4> HIDE DEF keepers
      <4>3. Cardinality(keepers) = 1
        BY <3>1, <4>1, <4>2, OneOwner
      <4>4. QED
        BY <3>3, <4>3 DEF t, e, n, keepers
    <3>4. QED
      BY <3>2, <3>3
  <2>5. QED
    BY <2>2, <2>3, <2>4, Zenon DEF ReadsItsShare
<1>2. QED
  BY <1>1, PlanInvHolds, PTL

-----------------------------------------------------------------------------
(* What stays of the tensors of a batch, and of a group.                   *)

StayOf(key) == IF key[2].stays THEN Bytes(key[2]) ELSE 0
StaySizes(keys) == [k \in DOMAIN keys |-> StayOf(keys[k])]

\* The sizes of the tensors that stay are natural numbers.
LEMMA StaySizesFacts ==
  ASSUME NEW T, NEW s \in Seq(T), \A k \in 1 .. Len(s) : Bytes(s[k][2]) \in Nat
  PROVE  /\ StaySizes(s) \in Seq(Nat) /\ Len(StaySizes(s)) = Len(s) /\ Len(s) \in Nat
         /\ \A k \in 1 .. Len(s) : StaySizes(s)[k] = StayOf(s[k]) /\ StayOf(s[k]) \in Nat
<1> DEFINE n == Len(s)
           x == StaySizes(s)
<1>1. DOMAIN s = 1 .. n /\ n \in Nat
  OBVIOUS
<1> HIDE DEF n
<1>2. \A k \in 1 .. n : StayOf(s[k]) \in Nat
  BY DEF StayOf, n
<1>3. x = [k \in 1 .. n |-> StayOf(s[k])]
  BY <1>1 DEF StaySizes
<1>4. x \in [1 .. n -> Nat] /\ \A k \in 1 .. n : x[k] = StayOf(s[k])
  BY <1>2, <1>3
<1> HIDE DEF x
<1>5. x \in Seq(Nat) /\ Len(x) = n
  BY <1>1, <1>4, SeqOfFun
<1>6. QED
  BY <1>1, <1>2, <1>4, <1>5 DEF x, n

\* Tags change nothing of it.
LEMMA TaggedStays ==
  ASSUME NEW s \in Seq(TensorFrames), NEW i \in Nat
  PROVE  StaySizes(Tagged(i, s)) = StayingSizes(s)
<1>1. /\ DOMAIN Tagged(i, s) = 1 .. Len(s) /\ DOMAIN s = 1 .. Len(s)
      /\ \A k \in 1 .. Len(s) : Tagged(i, s)[k] = <<i, s[k]>>
  BY TaggedFacts
<1> DEFINE t == Tagged(i, s)
<1> HIDE DEF t
<1>2. \A k \in 1 .. Len(s) : StayOf(t[k]) = IF s[k].stays THEN Bytes(s[k]) ELSE 0
  BY <1>1 DEF StayOf, t
<1>3. StaySizes(t) = [k \in 1 .. Len(s) |-> StayOf(t[k])]
  BY <1>1 DEF StaySizes, t
<1>4. StayingSizes(s) = [k \in 1 .. Len(s) |-> IF s[k].stays THEN Bytes(s[k]) ELSE 0]
  BY <1>1 DEF StayingSizes
<1>5. QED
  BY <1>2, <1>3, <1>4 DEF t

\* What stays of chunk j of file i
StaysOfChunk(l, bs, i, j) == Total(StaySizes(ChunkAt(l, bs, i, j).names))
\* ... and of the first n
ColumnOf(l, bs, i, n) == [j \in 1 .. n |-> StaysOfChunk(l, bs, i, j)]

\* Of no tensors nothing stays.
LEMMA NoStays ==
  /\ Total(StaySizes(<<>>)) = 0 /\ StaySizes(<<>>) = <<>>
  /\ Total(<<>>) = 0
<1>1. StaySizes(<<>>) = <<>>
  BY DEF StaySizes
<1>2. <<>> \in Seq(Nat) /\ Len(<<>>) = 0
  OBVIOUS
<1>3. Total(<<>>) = 0
  BY <1>2, SumFacts DEF Total
<1>4. QED
  BY <1>1, <1>3

\* Column by column: what stays of a file is what stays of its chunks.
LEMMA FileColumn ==
  ASSUME NEW l \in Loads, Plannable(l), NEW bs, bs = Budgets(l), NEW i \in DOMAIN l.files,
         NEW n \in Nat, Len(FileChunks(l, bs, i)) <= n, NEW y, y = ColumnOf(l, bs, i, n)
  PROVE  y \in [1 .. n -> Nat] /\ Total(y) = Stats(l)[i].resident
<1> DEFINE K == Kept(l, l.files[i])
           chunks == FileChunks(l, bs, i)
           m == Len(chunks)
           k == Len(K)
           s == StayingSizes(K)
<1>1. Frames(K) /\ Stats(l)[i] = FileStats(K)
  BY KeptFrames
<1>2. i \in Nat
  BY Delivered
<1>3. PICK e : ChunksOf(chunks, e, K, bs[i], l.mergeGap)
  BY ChunksOfFile
<1> HIDE DEF K
<1>4. K \in Seq(TensorFrames) /\ k \in Nat /\ s \in Seq(Nat) /\ Len(s) = k
      /\ Stats(l)[i].resident = Total(s)
      /\ \A q \in 1 .. k : s[q] = IF K[q].stays THEN Bytes(K[q]) ELSE 0
  BY <1>1, SizesFacts, FileStatsFacts
<1> HIDE DEF s
<1>5. /\ m \in Nat /\ Rises(e, m, k) /\ e[m] = k
      /\ \A j \in 1 .. m : /\ chunks[j].names = SubSeq(K, e[j - 1] + 1, e[j])
                           /\ Frames(chunks[j].names)
  BY <1>3, Zenon DEF ChunksOf, ChunkGood
<1> HIDE DEF m, k
<1> DEFINE c == CutAt(e, 0, m, n, k)
<1> HIDE DEF c
<1>6. Rises(c, n, k) /\ c[n] = k /\ CutPlaces(c, e, 0, m, n)
  <2>1. c = CutAt(e, 0, m, n, k) /\ 0 + m <= n /\ m <= n
    BY <1>5 DEF c, m
  <2>2. Rises(e, m, k) /\ e[m] = k /\ m \in Nat /\ k \in Nat /\ 0 \in Nat
    BY <1>4, <1>5 DEF k
  <2>3. Rises(c, n, k)
    BY <2>1, <2>2, CutRises
  <2>4. c[n] = k
    BY <2>1, <2>2, CutRises
  <2>5. CutPlaces(c, e, 0, m, n)
    BY <2>1, <2>2, CutRises
  <2>6. QED
    BY <2>3, <2>4, <2>5
<1>7. \A j \in 1 .. n : m < j => c[j] = c[j - 1]
  <2>1. \A j \in 1 .. n : j <= 0 \/ 0 + m < j => c[j] = c[j - 1]
    BY <1>6, Zenon DEF CutPlaces
  <2>2. QED
    BY <1>5, <2>1
<1>8. \A j \in 1 .. m : c[j] = e[j] /\ c[j - 1] = e[j - 1]
  <2>1. \A j \in 1 .. m : c[0 + j] = e[j] /\ c[(0 + j) - 1] = e[j - 1]
    BY <1>6, Zenon DEF CutPlaces
  <2>2. QED
    BY <1>5, <2>1
<1>9. ASSUME NEW j \in 1 .. n
      PROVE  y[j] \in Nat /\ SumTo(s, c[j]) = SumTo(s, c[j - 1]) + y[j]
  <2>1. /\ c[j - 1] \in 0 .. Len(s) /\ c[j] \in c[j - 1] .. Len(s)
        /\ j - 1 \in 0 .. n /\ j \in Nat \ {0}
    <3>1. j - 1 \in 0 .. n /\ j \in 0 .. n /\ j \in Nat \ {0}
      OBVIOUS
    <3>2. c[j - 1] \in 0 .. k /\ c[j] \in 0 .. k /\ c[j - 1] <= c[j]
      BY <1>6, <3>1 DEF Rises
    <3>3. k \in Nat /\ Len(s) = k
      BY <1>4 DEF k
    <3>4. QED
      BY <3>1, <3>2, <3>3
  <2>2. y[j] = StaysOfChunk(l, bs, i, j)
    BY DEF ColumnOf
  <2>3. CASE j <= m
    <3> DEFINE p == chunks[j].names
               t == StayingSizes(p)
               a == c[j - 1]
               b == c[j]
    <3>1. j \in 1 .. m
      BY <1>5, <2>1, <2>3
    <3>2. p = SubSeq(K, a + 1, b) /\ Frames(p)
      BY <1>5, <1>8, <3>1
    <3>3. ChunkAt(l, bs, i, j).names = Tagged(i, p)
      BY <2>3 DEF ChunkAt, m
    <3> HIDE DEF p, a, b, chunks
    <3>4. /\ p \in Seq(TensorFrames) /\ t \in Seq(Nat) /\ Len(t) = Len(p)
          /\ \A q \in 1 .. Len(p) : t[q] = IF p[q].stays THEN Bytes(p[q]) ELSE 0
      BY <3>2, SizesFacts
    <3>5. y[j] = Total(t)
      BY <1>2, <2>2, <3>3, <3>4, TaggedStays DEF StaysOfChunk
    <3> HIDE DEF t
    <3>6. a \in 0 .. Len(K) /\ b \in a .. Len(K) /\ a \in 0 .. Len(s) /\ b \in a .. Len(s)
      BY <1>4, <2>1 DEF a, b, k
    <3>7. /\ a + 1 \in 1 .. Len(K) + 1 /\ b \in (a + 1) - 1 .. Len(K)
          /\ (b - (a + 1)) + 1 = b - a
      BY <3>6
    <3>8. /\ Len(p) = b - a
          /\ \A q \in 1 .. b - a : p[q] = K[((a + 1) + q) - 1] /\ ((a + 1) + q) - 1 \in 1 .. Len(K)
      <4>1. /\ Len(p) = (b - (a + 1)) + 1
            /\ \A q \in 1 .. (b - (a + 1)) + 1 :
                  p[q] = K[((a + 1) + q) - 1] /\ ((a + 1) + q) - 1 \in 1 .. Len(K)
        BY <1>4, <3>2, <3>7, PartHas
      <4>2. QED
        BY <3>7, <4>1
    <3>9. \A q \in 1 .. b - a : t[q] = s[a + q]
      <4> SUFFICES ASSUME NEW q \in 1 .. b - a PROVE t[q] = s[a + q]
        OBVIOUS
      <4>1. ((a + 1) + q) - 1 = a + q
        BY <3>6
      <4>2. p[q] = K[a + q] /\ a + q \in 1 .. k
        BY <3>8, <4>1 DEF k
      <4>3. s[a + q] = IF K[a + q].stays THEN Bytes(K[a + q]) ELSE 0
        BY <1>4, <4>2 DEF k
      <4>4. t[q] = IF p[q].stays THEN Bytes(p[q]) ELSE 0
        BY <3>4, <3>8
      <4>5. QED
        BY <4>2, <4>3, <4>4
    <3>10. SumTo(s, b) = SumTo(s, a) + Total(t)
      <4>1. Len(t) = b - a
        BY <3>4, <3>8
      <4>2. QED
        BY <1>4, <3>4, <3>6, <3>9, <4>1, SumPart
    <3>11. Total(t) \in Nat
      BY <3>4, SumFacts DEF Total
    <3>12. QED
      BY <3>5, <3>10, <3>11 DEF a, b
  <2>4. CASE ~(j <= m)
    <3>1. ChunkAt(l, bs, i, j) = NoChunk
      BY <2>4 DEF ChunkAt, m
    <3>2. y[j] = 0
      BY <2>2, <3>1, NoStays DEF StaysOfChunk, NoChunk
    <3>3. c[j] = c[j - 1]
      BY <1>5, <1>7, <2>1, <2>4
    <3>4. SumTo(s, c[j - 1]) \in Nat
      BY <1>4, <2>1, SumFacts
    <3>5. QED
      BY <3>2, <3>3, <3>4
  <2>5. QED
    BY <2>3, <2>4
<1>10. y \in [1 .. n -> Nat]
  BY <1>9 DEF ColumnOf
<1>11. y \in Seq(Nat) /\ Len(y) = n
  BY <1>10, SeqOfFun
<1> HIDE DEF chunks
<1>12. SumTo(y, n) = SumTo(s, c[n])
  <2>1. n \in 0 .. Len(y) /\ Rises(c, n, Len(s))
    BY <1>4, <1>6, <1>11 DEF k
  <2>2. SumsOfParts(s, c, y, n)
    BY <1>9 DEF SumsOfParts
  <2>3. s \in Seq(Nat) /\ y \in Seq(Nat)
    BY <1>4, <1>11
  <2>4. QED
    BY <2>1, <2>2, <2>3, SumParted
<1>13. QED
  BY <1>4, <1>6, <1>10, <1>11, <1>12 DEF Total, k

\* Past the files nothing stays.
LEMMA NoColumn ==
  ASSUME NEW l \in Loads, NEW bs, NEW i \in Nat, i \notin DOMAIN l.files, NEW n \in Nat,
         NEW y, y = ColumnOf(l, bs, i, n)
  PROVE  y \in [1 .. n -> Nat] /\ Total(y) = 0
<1>1. \A j \in 1 .. n : y[j] = 0
  <2> SUFFICES ASSUME NEW j \in 1 .. n PROVE y[j] = 0
    OBVIOUS
  <2>1. ChunkAt(l, bs, i, j) = NoChunk
    BY DEF ChunkAt
  <2>2. y[j] = StaysOfChunk(l, bs, i, j)
    BY DEF ColumnOf
  <2>3. QED
    BY <2>1, <2>2, NoStays DEF StaysOfChunk, NoChunk
<1>2. y \in [1 .. n -> Nat]
  BY <1>1 DEF ColumnOf
<1>3. y \in Seq(Nat) /\ Len(y) = n
  BY <1>2, SeqOfFun
<1>4. SumTo(y, n) = SumTo(y, 0) /\ SumTo(y, 0) = 0
  <2>1. 0 \in 0 .. Len(y) /\ n \in 0 .. Len(y) /\ \A j \in 0 + 1 .. n : y[j] = 0
    BY <1>1, <1>3
  <2>2. SumTo(y, n) = SumTo(y, 0)
    BY <1>3, <2>1, SumNothing
  <2>3. QED
    BY <1>3, <2>2, SumFacts
<1>5. QED
  BY <1>2, <1>3, <1>4 DEF Total

\* The tensors of a batch, rank by rank
NamesRow(l, bb, b) == [r \in 1 .. l.group |-> bb[b][r].names]
KeysOf(l, bb, b) == Joined(NamesRow(l, bb, b))

\* A tensor of a file of group g, as it is in a batch
KeyGood(l, bs, g, key) ==
    /\ key[1] \in DOMAIN l.files /\ (key[1] - 1) \div l.group = g - 1
    /\ \E m \in DOMAIN Kept(l, l.files[key[1]]) : key[2] = Kept(l, l.files[key[1]])[m]
    /\ Bytes(key[2]) \in Nat /\ bs[key[1]] \in Nat /\ Bytes(key[2]) <= bs[key[1]]
    /\ Bytes(key[2]) > 0 => Stats(l)[key[1]].kept > 0

\* The tensors of a chunk of a batch are of a file of its group.
LEMMA NameFacts ==
  ASSUME NEW l \in Loads, Plannable(l), NEW bs, bs = Budgets(l),
         NEW b, NEW g, NEW j, PlaceOf(l, bs, b, g, j), NEW r \in 1 .. l.group,
         NEW s, s = Batches(l, bs)[b][r].names
  PROVE  /\ s \in Seq(Nat \X TensorFrames) /\ Len(s) \in Nat
         /\ \A k \in 1 .. Len(s) : KeyGood(l, bs, g, s[k])
<1> DEFINE x == Batches(l, bs)[b][r]
           f == FileAt(l, g, r)
<1>1. /\ x \in ChunkSet /\ g \in Nat \ {0}
      /\ x = NoChunk \/ OfFile(l, bs, f, x)
  BY ChunkOfBatch
<1>2. f \in Nat \ {0} /\ (f - 1) \div l.group = g - 1
  BY <1>1, FileAtFacts
<1> HIDE DEF x, f
<1>3. s = x.names /\ s \in Seq(Nat \X TensorFrames)
  BY <1>1 DEF ChunkSet, x
<1>4. Len(s) \in Nat /\ DOMAIN s = 1 .. Len(s)
  BY <1>3
<1>5. CASE x = NoChunk
  <2>1. s = <<>>
    BY <1>3, <1>5 DEF NoChunk
  <2>2. 1 .. Len(s) = {}
    BY <2>1
  <2>3. QED
    BY <1>3, <1>4, <2>2
<1>6. CASE OfFile(l, bs, f, x)
  <2> DEFINE K == Kept(l, l.files[f])
  <2>1. /\ f \in DOMAIN l.files /\ bs[f] \in Nat
        /\ \A k \in DOMAIN s : s[k][1] = f /\ \E m \in DOMAIN K : s[k][2] = K[m]
    BY <1>3, <1>6, Zenon DEF OfFile
  <2>2. Frames(K) /\ LargestOf(K) <= bs[f] /\ Stats(l)[f] = FileStats(K)
    BY <2>1, KeptFrames, PlanFits
  <2> HIDE DEF K
  <2>3. LargestOf(K) \in Nat /\ (LargestOf(K) > 0 => Stats(l)[f].kept > 0)
    BY <2>2, LargestFacts, FileStatsFacts
  <2>4. ASSUME NEW k \in 1 .. Len(s) PROVE KeyGood(l, bs, g, s[k])
    <3>1. s[k][1] = f
      BY <1>4, <2>1
    <3>2. PICK m \in DOMAIN K : s[k][2] = K[m]
      BY <1>4, <2>1
    <3>3. Bytes(K[m]) \in Nat /\ Bytes(K[m]) <= LargestOf(K)
      BY <2>2, FrameTypes, LargestFacts
    <3>4. /\ Bytes(s[k][2]) \in Nat /\ Bytes(s[k][2]) <= bs[f]
          /\ Bytes(s[k][2]) > 0 => Stats(l)[f].kept > 0
      BY <2>1, <2>2, <2>3, <3>2, <3>3
    <3>5. \E q \in DOMAIN Kept(l, l.files[f]) : s[k][2] = Kept(l, l.files[f])[q]
      BY <3>2 DEF K
    <3>6. QED
      BY <1>2, <2>1, <3>1, <3>4, <3>5, Zenon DEF KeyGood
  <2>5. QED
    BY <1>3, <1>4, <2>4
<1>7. QED
  BY <1>1, <1>5, <1>6

\* The tensors of a batch, and what stays of them
LEMMA KeysFacts ==
  ASSUME NEW l \in Loads, Plannable(l), NEW bs, bs = Budgets(l),
         NEW b, NEW g, NEW j, PlaceOf(l, bs, b, g, j),
         NEW ks, ks = KeysOf(l, Batches(l, bs), b),
         NEW y, y = [r \in 1 .. l.group |-> StaysOfChunk(l, bs, FileAt(l, g, r), j)]
  PROVE  /\ ks \in Seq(Nat \X TensorFrames) /\ Len(ks) \in Nat
         /\ \A k \in 1 .. Len(ks) : KeyGood(l, bs, g, ks[k])
         /\ StaySizes(ks) \in Seq(Nat)
         /\ y \in [1 .. l.group -> Nat] /\ Total(StaySizes(ks)) = Total(y)
<1> DEFINE n == l.group
           bb == Batches(l, bs)
           ss == NamesRow(l, bb, b)
           U == Nat \X TensorFrames
           xx == [r \in 1 .. n |-> StaySizes(ss[r])]
<1>1. n \in Nat \ {0}
  BY ParamsOfLoad
<1>2. \A r \in 1 .. n : /\ ss[r] = bb[b][r].names /\ ss[r] \in Seq(U) /\ Len(ss[r]) \in Nat
                        /\ \A k \in 1 .. Len(ss[r]) : KeyGood(l, bs, g, ss[r][k])
  <2> SUFFICES ASSUME NEW r \in 1 .. n
               PROVE  /\ ss[r] = bb[b][r].names /\ ss[r] \in Seq(U) /\ Len(ss[r]) \in Nat
                      /\ \A k \in 1 .. Len(ss[r]) : KeyGood(l, bs, g, ss[r][k])
    OBVIOUS
  <2>1. ss[r] = bb[b][r].names
    BY DEF NamesRow
  <2> HIDE DEF ss
  <2>2. QED
    BY <2>1, NameFacts
<1>3. \A r \in 1 .. n : ss[r] = ChunkAt(l, bs, FileAt(l, g, r), j).names
  BY ChunkOfBatch DEF NamesRow
<1>4. ks = Joined(ss)
  BY DEF KeysOf
<1>5. ss = [r \in 1 .. n |-> ss[r]]
  BY DEF NamesRow
<1> HIDE DEF ss, U
<1>6. ss \in [1 .. n -> Seq(U)]
  BY <1>2, <1>5
<1>7. ss \in Seq(Seq(U)) /\ Len(ss) = n
  <2> HIDE DEF n
  <2>1. QED
    BY <1>1, <1>6, SeqOfFun
<1>8. n \in 0 .. Len(ss)
  BY <1>1, <1>7
<1>9. ks = JoinedTo(ss, n) /\ ks \in Seq(U)
  BY <1>4, <1>7, <1>8, JoinFacts
<1>10. Len(ks) \in Nat
  BY <1>9
<1>11. ASSUME NEW k \in 1 .. Len(ks) PROVE KeyGood(l, bs, g, ks[k])
  <2>1. PICK r \in 1 .. n : /\ k - Len(JoinedTo(ss, r - 1)) \in 1 .. Len(ss[r])
                            /\ JoinedTo(ss, n)[k] = ss[r][k - Len(JoinedTo(ss, r - 1))]
    <3> HIDE DEF n
    <3>1. k \in 1 .. Len(JoinedTo(ss, n))
      BY <1>9
    <3>2. QED
      BY <1>7, <1>8, <3>1, JoinedAt
  <2>2. QED
    BY <1>2, <1>9, <2>1
<1>12. \A r \in 1 .. n : xx[r] \in Seq(Nat) /\ Len(xx[r]) = Len(ss[r])
  <2> SUFFICES ASSUME NEW r \in 1 .. n PROVE xx[r] \in Seq(Nat) /\ Len(xx[r]) = Len(ss[r])
    OBVIOUS
  <2> DEFINE s == ss[r]
  <2>1. s \in Seq(U) /\ \A k \in 1 .. Len(s) : Bytes(s[k][2]) \in Nat
    BY <1>2 DEF KeyGood
  <2> HIDE DEF s
  <2>2. StaySizes(s) \in Seq(Nat) /\ Len(StaySizes(s)) = Len(s)
    BY <2>1, StaySizesFacts
  <2>3. QED
    BY <2>2 DEF s
<1>13. xx \in [1 .. n -> Seq(Nat)] /\ \A r \in 1 .. n : xx[r] = StaySizes(ss[r])
  BY <1>12
<1> HIDE DEF xx
<1>14. xx \in Seq(Seq(Nat)) /\ Len(xx) = n
  <2> HIDE DEF n
  <2>1. QED
    BY <1>1, <1>13, SeqOfFun
<1>15. n \in 0 .. Len(xx) /\ n <= Len(xx)
  BY <1>1, <1>14
<1> DEFINE js == JoinedTo(xx, n)
<1>16. js \in Seq(Nat)
  BY <1>14, <1>15, JoinFacts
<1>17. /\ Len(js) = Len(ks)
       /\ \A k \in 1 .. Len(ks) : Paired(ss, xx, n, k)
  BY <1>7, <1>8, <1>9, <1>12, <1>14, <1>15, JoinedPair
<1>18. \A k \in 1 .. Len(ks) : js[k] = StayOf(ks[k])
  <2> SUFFICES ASSUME NEW k \in 1 .. Len(ks) PROVE js[k] = StayOf(ks[k])
    OBVIOUS
  <2>1. PICK r \in 1 .. n : \E o \in 1 .. Len(ss[r]) : ks[k] = ss[r][o] /\ js[k] = xx[r][o]
    BY <1>9, <1>17, ZenonT(60) DEF Paired
  <2>2. PICK o \in 1 .. Len(ss[r]) : ks[k] = ss[r][o] /\ js[k] = xx[r][o]
    BY <2>1
  <2> DEFINE s == ss[r]
  <2>3. s \in Seq(U) /\ \A q \in 1 .. Len(s) : Bytes(s[q][2]) \in Nat
    BY <1>2 DEF KeyGood
  <2>4. xx[r] = StaySizes(s)
    BY <1>13
  <2>5. o \in 1 .. Len(s) /\ ks[k] = s[o] /\ js[k] = StaySizes(s)[o]
    BY <2>2, <2>4
  <2> HIDE DEF s, js
  <2>6. StaySizes(s)[o] = StayOf(s[o])
    BY <2>3, <2>5, StaySizesFacts
  <2>7. QED
    BY <2>5, <2>6
<1> HIDE DEF js
<1>19. StaySizes(ks) = js
  <2> DEFINE u == StaySizes(ks)
  <2>1. \A k \in 1 .. Len(ks) : Bytes(ks[k][2]) \in Nat
    BY <1>11 DEF KeyGood
  <2>2. /\ u \in Seq(Nat) /\ Len(u) = Len(ks)
        /\ \A k \in 1 .. Len(ks) : u[k] = StayOf(ks[k])
    BY <1>9, <2>1, StaySizesFacts
  <2> HIDE DEF u
  <2>3. Len(u) = Len(js) /\ \A k \in 1 .. Len(u) : u[k] = js[k]
    BY <1>17, <1>18, <2>2
  <2>4. u = js
    BY SMTT(30), <1>16, <2>2, <2>3
  <2>5. QED
    BY <2>4 DEF u
<1>20. \A r \in 1 .. n : y[r] = Total(xx[r]) /\ y[r] \in Nat
  <2> SUFFICES ASSUME NEW r \in 1 .. n PROVE y[r] = Total(xx[r]) /\ y[r] \in Nat
    OBVIOUS
  <2>1. y[r] = StaysOfChunk(l, bs, FileAt(l, g, r), j)
    OBVIOUS
  <2>2. y[r] = Total(xx[r])
    BY <1>3, <1>13, <2>1 DEF StaysOfChunk
  <2>3. Total(xx[r]) \in Nat
    BY <1>12, SumFacts DEF Total
  <2>4. QED
    BY <2>2, <2>3
<1>21. y \in [1 .. n -> Nat]
  BY <1>20
<1>22. y \in Seq(Nat) /\ Len(y) = n
  <2> HIDE DEF n
  <2>1. QED
    BY <1>1, <1>21, SeqOfFun
<1>23. Total(js) = Total(y)
  <2>1. Total(JoinedTo(xx, n)) = SumTo(y, n)
    <3>1. n <= Len(y)
      BY <1>1, <1>22
    <3>2. QED
      BY <1>14, <1>15, <1>20, <1>22, <3>1, SumJoined
  <2>2. QED
    BY <1>22, <2>1 DEF Total, js
<1>24. QED
  BY <1>9, <1>10, <1>11, <1>16, <1>19, <1>21, <1>23 DEF U

\* The last file of the first g groups
EndOf(l, g) == Lesser(g * l.group, Len(l.files))

\* The last files of the groups come in their order.
LEMMA EndFacts ==
  ASSUME NEW l \in Loads, NEW n, n = Len(l.files), NEW d, d = l.group
  PROVE  /\ n \in Nat /\ d \in Nat \ {0} /\ EndOf(l, 0) = 0
         /\ \A g \in 0 .. Groups(l) : EndOf(l, g) \in 0 .. n
         /\ \A g \in 1 .. Groups(l) :
              /\ EndOf(l, g - 1) = (g - 1) * d /\ g * d = (g - 1) * d + d
              /\ EndOf(l, g) = Lesser((g - 1) * d + d, n)
         /\ \A g \in 0 .. Groups(l) : \A h \in 0 .. g : EndOf(l, h) <= EndOf(l, g)
<1>1. n \in Nat /\ d \in Nat \ {0}
  BY StatsOfLoad, ParamsOfLoad
<1>2. \A g : EndOf(l, g) = Lesser(g * d, n)
  BY DEF EndOf
<1>3. Groups(l) \in Nat /\ Groups(l) = (n + (d - 1)) \div d
  <2>1. Groups(l) = (n + (d - 1)) \div d
    BY <1>1 DEF Groups
  <2>2. n + (d - 1) \in Nat
    BY <1>1
  <2> DEFINE q == n + (d - 1)
  <2>3. q \in Nat /\ Groups(l) = q \div d
    BY <2>1, <2>2
  <2> HIDE DEF q
  <2>4. Groups(l) \in Nat
    BY <1>1, <2>3
  <2>5. QED
    BY <2>1, <2>4
<1>4. \A g \in Nat : g * d \in Nat
  BY <1>1, SMT
<1>5. EndOf(l, 0) = 0
  <2>1. 0 * d = 0
    BY <1>1, SMT
  <2>2. QED
    BY <1>1, <1>2, <2>1 DEF Lesser
<1>6. \A g \in 0 .. Groups(l) : EndOf(l, g) \in 0 .. n
  <2> SUFFICES ASSUME NEW g \in 0 .. Groups(l) PROVE EndOf(l, g) \in 0 .. n
    OBVIOUS
  <2> DEFINE x == g * d
  <2>1. x \in Nat
    BY <1>3, <1>4
  <2>2. EndOf(l, g) = Lesser(x, n)
    BY <1>2
  <2> HIDE DEF x
  <2>3. QED
    BY <1>1, <2>1, <2>2 DEF Lesser
<1>7. ASSUME NEW g \in 1 .. Groups(l)
      PROVE  /\ EndOf(l, g - 1) = (g - 1) * d /\ g * d = (g - 1) * d + d
             /\ EndOf(l, g) = Lesser((g - 1) * d + d, n)
  <2>1. g * d = (g - 1) * d + d
    <3>1. g \in Nat
      BY <1>3
    <3>2. QED
      BY <1>1, <3>1, SMT
  <2>2. g * d <= n + (d - 1)
    <3>1. g \in Int /\ n + (d - 1) \in Int /\ g <= (n + (d - 1)) \div d
      BY <1>1, <1>3
    <3>2. QED
      BY <1>1, <3>1, FloorDivision
  <2>3. (g - 1) * d \in Nat
    <3>1. g - 1 \in Nat
      BY <1>3
    <3>2. QED
      BY <1>4, <3>1
  <2> DEFINE x == g * d
             y == (g - 1) * d
  <2>4. x = y + d /\ x <= n + (d - 1) /\ y \in Nat /\ EndOf(l, g - 1) = Lesser(y, n)
        /\ EndOf(l, g) = Lesser(x, n)
    BY <1>2, <2>1, <2>2, <2>3
  <2> HIDE DEF x, y
  <2>5. EndOf(l, g - 1) = y
    BY <1>1, <2>4 DEF Lesser
  <2>6. QED
    BY <2>1, <2>4, <2>5 DEF x, y
<1>8. ASSUME NEW g \in 0 .. Groups(l), NEW h \in 0 .. g PROVE EndOf(l, h) <= EndOf(l, g)
  <2> DEFINE x == g * d
             y == h * d
  <2>1. h \in Nat /\ g \in Nat /\ h <= g
    BY <1>3
  <2>2. y <= x
    <3>1. \A a \in Nat, b \in Nat, c \in Nat : a <= b => a * c <= b * c
      BY SMT
    <3>2. QED
      BY <1>1, <2>1, <3>1
  <2>3. x \in Nat /\ y \in Nat /\ EndOf(l, g) = Lesser(x, n) /\ EndOf(l, h) = Lesser(y, n)
    BY <1>2, <1>4, <2>1
  <2> HIDE DEF x, y
  <2>4. QED
    BY <1>1, <2>2, <2>3 DEF Lesser
<1>9. QED
  BY <1>1, <1>5, <1>6, <1>7, <1>8

\* What stays of batch j of a group
RowOf(l, bs, g, j) == [r \in 1 .. l.group |-> StaysOfChunk(l, bs, FileAt(l, g, r), j)]

\* What stays of the batches of a group is what stays of its files.
LEMMA GroupSum ==
  ASSUME NEW l \in Loads, Plannable(l), NEW bs, bs = Budgets(l),
         NEW g \in 1 .. Groups(l), NEW m, m = Len(GroupBatches(l, bs, g)),
         NEW z, z = [j \in 1 .. m |-> Total(RowOf(l, bs, g, j))],
         NEW s, s = Residents(Stats(l))
  PROVE  /\ z \in [1 .. m -> Nat] /\ m \in Nat
         /\ SumTo(s, EndOf(l, g)) = SumTo(s, EndOf(l, g - 1)) + Total(z)
<1> DEFINE d == l.group
           n == Len(l.files)
           a == (g - 1) * d
           b == EndOf(l, g)
           f == [j \in 1 .. m |-> RowOf(l, bs, g, j)]
           Col(r) == [j \in 1 .. m |-> f[j][r]]
           t == [r \in 1 .. d |-> Total(Col(r))]
<1>1. /\ n \in Nat /\ d \in Nat \ {0} /\ Groups(l) \in Nat /\ m \in Nat
      /\ b \in 0 .. n /\ EndOf(l, g - 1) = a /\ b = Lesser(a + d, n) /\ a \in 0 .. n
  <2>1. n \in Nat /\ d \in Nat \ {0} /\ Groups(l) \in Nat /\ m \in Nat
    BY EndFacts, GroupListFacts, GroupFacts
  <2>2. g \in 0 .. Groups(l) /\ g - 1 \in 0 .. Groups(l)
    BY <2>1
  <2>3. b \in 0 .. n /\ EndOf(l, g - 1) \in 0 .. n
    BY <2>2, EndFacts
  <2>4. EndOf(l, g - 1) = a
    BY EndFacts
  <2>5. b = Lesser(a + d, n)
    BY EndFacts
  <2>6. QED
    BY <2>1, <2>3, <2>4, <2>5
<1>2. \A r : FileAt(l, g, r) = a + r
  BY DEF FileAt
<1>3. /\ DOMAIN l.files = 1 .. n /\ DOMAIN Stats(l) = 1 .. n /\ s \in Seq(Nat) /\ Len(s) = n
      /\ \A i \in 1 .. n : s[i] = Stats(l)[i].resident
  <2>1. /\ StatsGood(Stats(l)) /\ DOMAIN Stats(l) = DOMAIN l.files
        /\ DOMAIN l.files = 1 .. n /\ Len(Stats(l)) = n
    BY StatsOfLoad
  <2>2. Params(l).group \in Nat \ {0}
    BY ParamsOfLoad
  <2>3. /\ s \in Seq(Nat) /\ Len(s) = Len(Stats(l))
        /\ \A i \in 1 .. Len(Stats(l)) : s[i] = Stats(l)[i].resident
    BY <2>1, <2>2, ChargeFacts
  <2>4. QED
    BY <2>1, <2>3
<1> HIDE DEF a, b
<1>4. \A r \in 1 .. d : /\ Col(r) = ColumnOf(l, bs, a + r, m)
                        /\ Col(r) \in [1 .. m -> Nat]
                        /\ a + r \in 1 .. n => Total(Col(r)) = s[a + r]
                        /\ a + r \notin 1 .. n => Total(Col(r)) = 0
  <2> SUFFICES ASSUME NEW r \in 1 .. d
               PROVE  /\ Col(r) = ColumnOf(l, bs, a + r, m)
                      /\ Col(r) \in [1 .. m -> Nat]
                      /\ a + r \in 1 .. n => Total(Col(r)) = s[a + r]
                      /\ a + r \notin 1 .. n => Total(Col(r)) = 0
    BY Zenon
  <2>1. \A j \in 1 .. m : f[j][r] = StaysOfChunk(l, bs, a + r, j)
    BY <1>2 DEF RowOf
  <2> DEFINE y == ColumnOf(l, bs, a + r, m)
  <2>2. Col(r) = y
    BY <2>1 DEF ColumnOf
  <2>3. CASE a + r \in 1 .. n
    <3>1. a + r \in DOMAIN l.files
      BY <1>3, <2>3
    <3>2. Len(FileChunks(l, bs, a + r)) <= m
      BY <1>2, <3>1, GroupFacts
    <3>3. y \in [1 .. m -> Nat] /\ Total(y) = Stats(l)[a + r].resident
      BY <1>1, <3>1, <3>2, FileColumn
    <3> HIDE DEF y, Col
    <3>4. QED
      BY <1>3, <2>2, <2>3, <3>3 DEF y
  <2>4. CASE a + r \notin 1 .. n
    <3>1. a + r \notin DOMAIN l.files
      BY <1>3, <2>4
    <3> DEFINE i == a + r
    <3>2. /\ i \notin DOMAIN l.files /\ y = ColumnOf(l, bs, i, m)
          /\ i \in Nat
      BY <1>1, <3>1
    <3> HIDE DEF y, Col, i
    <3>3. y \in [1 .. m -> Nat] /\ Total(y) = 0
      BY <1>1, <3>2, NoColumn
    <3> HIDE DEF y, Col
    <3>4. QED
      BY <2>2, <2>4, <3>3 DEF y
  <2>5. QED
    BY <2>3, <2>4
<1>5. f \in [1 .. m -> [1 .. d -> Nat]]
  <2> SUFFICES ASSUME NEW j \in 1 .. m PROVE RowOf(l, bs, g, j) \in [1 .. d -> Nat]
    OBVIOUS
  <2>1. \A r \in 1 .. d : f[j][r] \in Nat
    <3> SUFFICES ASSUME NEW r \in 1 .. d PROVE f[j][r] \in Nat
      OBVIOUS
    <3> DEFINE y == Col(r)
    <3>1. y \in [1 .. m -> Nat] /\ y[j] = f[j][r]
      BY <1>4
    <3> HIDE DEF y, f
    <3>2. QED
      BY <3>1
  <2>2. f[j] = RowOf(l, bs, g, j)
    OBVIOUS
  <2>3. RowOf(l, bs, g, j) = [r \in 1 .. d |-> f[j][r]]
    BY <2>2 DEF RowOf
  <2> HIDE DEF f
  <2>4. QED
    BY <2>1, <2>3
<1>6. t \in [1 .. d -> Nat]
  <2>1. \A r \in 1 .. d : Total(Col(r)) \in Nat
    <3> SUFFICES ASSUME NEW r \in 1 .. d PROVE Total(Col(r)) \in Nat
      OBVIOUS
    <3> DEFINE y == Col(r)
    <3>1. y \in [1 .. m -> Nat]
      BY <1>4
    <3> HIDE DEF y
    <3>2. y \in Seq(Nat)
      BY <1>1, <3>1, SeqOfFun
    <3>3. Total(y) \in Nat
      BY <3>2, SumFacts DEF Total
    <3>4. QED
      BY <3>3 DEF y
  <2> HIDE DEF Col
  <2>2. QED
    BY <2>1
<1>7. z \in [1 .. m -> Nat]
  <2> SUFFICES ASSUME NEW j \in 1 .. m PROVE Total(RowOf(l, bs, g, j)) \in Nat
    OBVIOUS
  <2> DEFINE y == RowOf(l, bs, g, j)
  <2>1. y \in [1 .. d -> Nat]
    BY <1>5
  <2> HIDE DEF y, d
  <2>2. y \in Seq(Nat)
    BY <1>1, <2>1, SeqOfFun
  <2>3. Total(y) \in Nat
    BY <2>2, SumFacts DEF Total
  <2>4. QED
    BY <2>3 DEF y
<1>8. Total(z) = Total(t)
  <2>1. z = [j \in 1 .. m |-> Total(f[j])]
    BY Zenon
  <2>2. t = [r \in 1 .. d |-> Total([j \in 1 .. m |-> f[j][r]])]
    BY Zenon
  <2> HIDE DEF f, t, d
  <2>3. d \in Nat
    BY <1>1
  <2>4. Total([j \in 1 .. m |-> Total(f[j])])
          = Total([r \in 1 .. d |-> Total([j \in 1 .. m |-> f[j][r]])])
    BY <1>1, <1>5, <2>3, SumSwapped
  <2>5. QED
    BY <2>1, <2>2, <2>4
<1>9. \A r \in 1 .. d : /\ a + r \in 1 .. n => t[r] = s[a + r]
                        /\ a + r \notin 1 .. n => t[r] = 0
  <2> HIDE DEF Col
  <2>1. \A r \in 1 .. d : t[r] = Total(Col(r))
    OBVIOUS
  <2>2. QED
    BY <1>4, <2>1
<1> HIDE DEF t, d, n
<1>10. t \in Seq(Nat) /\ Len(t) = d
  BY <1>1, <1>6, SeqOfFun
<1>11. b - a \in 0 .. d /\ b \in a .. n
  BY <1>1 DEF Lesser
<1>12. SumTo(t, d) = SumTo(t, b - a)
  <2>1. \A r \in (b - a) + 1 .. d : t[r] = 0
    <3> SUFFICES ASSUME NEW r \in (b - a) + 1 .. d PROVE t[r] = 0
      OBVIOUS
    <3>1. r \in 1 .. d /\ a + r \notin 1 .. n
      BY <1>1, <1>11 DEF Lesser
    <3>2. QED
      BY <1>9, <3>1
  <2> DEFINE c == b - a
  <2>2. c \in 0 .. Len(t) /\ d \in c .. Len(t)
    BY <1>1, <1>10, <1>11
  <2> HIDE DEF c
  <2>3. \A r \in c + 1 .. d : t[r] = 0
    BY <2>1 DEF c
  <2>4. SumTo(t, d) = SumTo(t, c)
    BY <1>10, <2>2, <2>3, SumNothing
  <2>5. QED
    BY <2>4 DEF c
<1> DEFINE u == [r \in 1 .. b - a |-> t[r]]
<1>13. u \in Seq(Nat) /\ Len(u) = b - a /\ \A r \in 1 .. b - a : u[r] = t[r] /\ u[r] = s[a + r]
  <2> DEFINE c == b - a
  <2>1. c \in Nat /\ \A r \in 1 .. c : r \in 1 .. d /\ a + r \in 1 .. n
    BY <1>1, <1>11
  <2>2. u = [r \in 1 .. c |-> t[r]]
    OBVIOUS
  <2> HIDE DEF c, u
  <2>3. u \in [1 .. c -> Nat] /\ \A r \in 1 .. c : u[r] = t[r]
    BY <1>6, <2>1, <2>2
  <2>4. u \in Seq(Nat) /\ Len(u) = c
    BY <2>1, <2>3, SeqOfFun
  <2>5. \A r \in 1 .. c : u[r] = s[a + r]
    BY <1>9, <2>1, <2>3
  <2>6. QED
    BY <2>3, <2>4, <2>5 DEF c
<1> HIDE DEF u
<1>14. Total(u) = SumTo(t, b - a)
  <2> DEFINE c == b - a
  <2>1. c \in 0 .. Len(u) /\ c <= Len(t) /\ Len(u) = c /\ \A r \in 1 .. c : u[r] = t[r]
    BY <1>1, <1>10, <1>11, <1>13
  <2> HIDE DEF c
  <2>2. SumTo(u, c) = SumTo(t, c)
    BY <1>10, <1>13, <2>1, SumSame
  <2>3. QED
    BY <2>1, <2>2 DEF Total, c
<1>15. SumTo(s, b) = SumTo(s, a) + Total(u)
  <2>1. a \in 0 .. Len(s) /\ b \in a .. Len(s)
    BY <1>1, <1>3, <1>11 DEF n
  <2>2. \A r \in 1 .. b - a : u[r] = s[a + r]
    BY <1>13
  <2>3. QED
    BY <1>3, <1>13, <2>1, <2>2, SumPart
<1>16. QED
  BY <1>1, <1>7, <1>8, <1>10, <1>12, <1>14, <1>15 DEF Total, b, a

\* A place tells the batch.
LEMMA PlaceOfBatch ==
  ASSUME NEW l \in Loads, Plannable(l), NEW bs, bs = Budgets(l),
         NEW g \in 1 .. Groups(l), NEW j \in 1 .. Len(GroupBatches(l, bs, g)),
         NEW b, b = Off(l, bs, g - 1) + j
  PROVE  b \in 1 .. Len(Batches(l, bs)) /\ PlaceOf(l, bs, b, g, j)
<1> DEFINE u == Off(l, bs, g - 1)
           v == Off(l, bs, g)
           m == Len(GroupBatches(l, bs, g))
           N == Len(Batches(l, bs))
<1>1. /\ Groups(l) \in Nat /\ m \in Nat /\ u \in Nat /\ v \in Nat /\ v = u + m /\ v <= N
      /\ N \in Nat
  <2>1. Groups(l) \in Nat /\ m \in Nat
    BY GroupListFacts, GroupFacts
  <2>2. g \in 0 .. Groups(l) /\ g - 1 \in 0 .. Groups(l) /\ Groups(l) \in 0 .. Groups(l)
    BY <2>1
  <2>3. u \in Nat /\ v \in Nat /\ v = u + m
    BY <2>2, OffFacts
  <2>4. v <= N
    BY <2>2, OffFacts
  <2>5. N \in Nat
    <3>1. Batches(l, bs) \in Seq(BatchSet(l))
      BY GroupListFacts
    <3>2. QED
      BY <3>1
  <2>6. QED
    BY <2>1, <2>3, <2>4, <2>5
<1>2. b \in 1 .. N
  <2>1. b = u + j /\ j \in 1 .. m
    OBVIOUS
  <2> HIDE DEF u, m, N
  <2>2. QED
    BY <1>1, <2>1
<1>3. PICK h, k : PlaceOf(l, bs, b, h, k)
  BY <1>2, BatchHasPlace
<1>4. /\ h \in 1 .. Groups(l) /\ k \in 1 .. Len(GroupBatches(l, bs, h))
      /\ b = Off(l, bs, h - 1) + k
  BY <1>3, Zenon DEF PlaceOf
<1> DEFINE x == Off(l, bs, h - 1)
           y == Off(l, bs, h)
           q == Len(GroupBatches(l, bs, h))
<1>5. x \in Nat /\ y \in Nat /\ y = x + q /\ q \in Nat
  <2>1. h \in 0 .. Groups(l) /\ h - 1 \in 0 .. Groups(l)
    BY <1>1, <1>4
  <2>2. QED
    BY <1>4, <2>1, OffFacts, GroupFacts
<1>6. ~(h < g)
  <2> SUFFICES ASSUME h < g PROVE FALSE
    OBVIOUS
  <2>1. h \in 0 .. g - 1 /\ g - 1 \in 0 .. Groups(l)
    BY <1>1, <1>4
  <2>2. y <= u
    BY <2>1, OffFacts
  <2>3. b = u + j /\ j \in 1 .. m /\ b = x + k /\ k \in 1 .. q
    BY <1>4
  <2> HIDE DEF u, m, x, y, q
  <2>4. QED
    BY <1>1, <1>5, <2>2, <2>3
<1>7. ~(g < h)
  <2> SUFFICES ASSUME g < h PROVE FALSE
    OBVIOUS
  <2>1. g \in 0 .. h - 1 /\ h - 1 \in 0 .. Groups(l)
    BY <1>1, <1>4
  <2>2. v <= x
    BY <2>1, OffFacts
  <2>3. b = u + j /\ j \in 1 .. m /\ b = x + k /\ k \in 1 .. q
    BY <1>4
  <2> HIDE DEF u, v, m, x, q
  <2>4. QED
    BY <1>1, <1>5, <2>2, <2>3
<1>8. g = h
  BY <1>1, <1>4, <1>6, <1>7
<1>9. k = j
  <2>1. b = u + j /\ j \in 1 .. m /\ b = u + k /\ k \in 1 .. m
    BY <1>4, <1>8
  <2> HIDE DEF u, m
  <2>2. QED
    BY <1>1, <2>1
<1>10. QED
  BY <1>2, <1>3, <1>8, <1>9

\* What stays of each batch, and of the first b
StayTotals(l, bs) ==
    [b \in DOMAIN Batches(l, bs) |-> Total(StaySizes(KeysOf(l, Batches(l, bs), b)))]
Done(l, bs, b) == SumTo(StayTotals(l, bs), b)

\* What stays of the batches are natural numbers, one for each.
LEMMA StayTotalsFacts ==
  ASSUME NEW l \in Loads, Plannable(l), NEW bs, bs = Budgets(l)
  PROVE  /\ StayTotals(l, bs) \in Seq(Nat)
         /\ Len(StayTotals(l, bs)) = Len(Batches(l, bs)) /\ Len(Batches(l, bs)) \in Nat
         /\ DOMAIN Batches(l, bs) = 1 .. Len(Batches(l, bs))
         /\ \A b \in 1 .. Len(Batches(l, bs)) :
              StayTotals(l, bs)[b] = Total(StaySizes(KeysOf(l, Batches(l, bs), b)))
<1> DEFINE bb == Batches(l, bs)
           N == Len(bb)
           y == StayTotals(l, bs)
<1>1. N \in Nat /\ DOMAIN bb = 1 .. N
  <2>1. bb \in Seq(BatchSet(l))
    BY GroupListFacts
  <2> HIDE DEF bb
  <2>2. QED
    BY <2>1
<1>2. \A b \in 1 .. N : Total(StaySizes(KeysOf(l, bb, b))) \in Nat
  <2> SUFFICES ASSUME NEW b \in 1 .. N PROVE Total(StaySizes(KeysOf(l, bb, b))) \in Nat
    OBVIOUS
  <2>1. PICK g, j : PlaceOf(l, bs, b, g, j)
    BY BatchHasPlace
  <2> DEFINE ks == KeysOf(l, bb, b)
             z == [r \in 1 .. l.group |-> StaysOfChunk(l, bs, FileAt(l, g, r), j)]
  <2>2. StaySizes(ks) \in Seq(Nat)
    <3>1. ks = KeysOf(l, Batches(l, bs), b) /\ z = [r \in 1 .. l.group |-> StaysOfChunk(l, bs, FileAt(l, g, r), j)]
      OBVIOUS
    <3> HIDE DEF ks, z
    <3>2. QED
      BY <2>1, <3>1, KeysFacts
  <2> HIDE DEF ks
  <2>3. QED
    BY <2>2, SumFacts DEF Total, ks
<1> HIDE DEF N
<1>3. y = [b \in 1 .. N |-> Total(StaySizes(KeysOf(l, bb, b)))]
  BY <1>1 DEF StayTotals
<1> HIDE DEF y
<1>4. y \in [1 .. N -> Nat] /\ \A b \in 1 .. N : y[b] = Total(StaySizes(KeysOf(l, bb, b)))
  BY <1>2, <1>3
<1>5. y \in Seq(Nat) /\ Len(y) = N
  BY <1>1, <1>4, SeqOfFun
<1>6. QED
  BY <1>1, <1>4, <1>5 DEF y, N

\* The batches of the first groups leave what stays of their files.
LEMMA DoneAtEnd ==
  ASSUME NEW l \in Loads, Plannable(l), NEW bs, bs = Budgets(l),
         NEW g \in 0 .. Groups(l), NEW s, s = Residents(Stats(l))
  PROVE  Done(l, bs, Off(l, bs, g)) = SumTo(s, EndOf(l, g))
<1> DEFINE n == Groups(l)
           P(h) == Done(l, bs, Off(l, bs, h)) = SumTo(s, EndOf(l, h))
           B == {h \in 0 .. n : P(h)}
           y == StayTotals(l, bs)
           N == Len(Batches(l, bs))
<1>1. n \in Nat /\ y \in Seq(Nat) /\ Len(y) = N /\ N \in Nat
  BY GroupListFacts, StayTotalsFacts
<1>2. s \in Seq(Nat)
  <2>1. StatsGood(Stats(l)) /\ Params(l).group \in Nat \ {0}
    BY StatsOfLoad, ParamsOfLoad
  <2>2. QED
    BY <2>1, ChargeFacts
<1>3. \A h : Done(l, bs, h) = SumTo(y, h)
  BY DEF Done
<1>4. /\ Off(l, bs, 0) = 0 /\ Off(l, bs, n) = N
      /\ \A h \in 0 .. n : Off(l, bs, h) \in Nat
      /\ \A h \in 1 .. n : Off(l, bs, h) = Off(l, bs, h - 1) + Len(GroupBatches(l, bs, h))
      /\ \A h \in 0 .. n : \A k \in 0 .. h : Off(l, bs, k) <= Off(l, bs, h)
  BY OffFacts
<1> HIDE DEF y, N, n
<1>5. 0 \in B
  <2>1. SumTo(y, 0) = 0 /\ SumTo(s, 0) = 0
    BY <1>1, <1>2, SumFacts
  <2>2. EndOf(l, 0) = 0
    BY EndFacts
  <2>3. P(0)
    BY <1>3, <1>4, <2>1, <2>2
  <2> HIDE DEF P
  <2>4. QED
    BY <1>1, <2>3
<1>6. ASSUME NEW h \in 1 .. n, h - 1 \in B PROVE h \in B
  <2> DEFINE u == Off(l, bs, h - 1)
             v == Off(l, bs, h)
             m == Len(GroupBatches(l, bs, h))
             z == [j \in 1 .. m |-> Total(RowOf(l, bs, h, j))]
  <2>1. h - 1 \in 0 .. n /\ h \in 0 .. n /\ n \in 0 .. n /\ h \in 0 .. n
    BY <1>1
  <2>2. P(h - 1)
    <3> HIDE DEF P
    <3>1. QED
      BY <1>6
  <2>3. /\ z \in [1 .. m -> Nat] /\ m \in Nat
        /\ SumTo(s, EndOf(l, h)) = SumTo(s, EndOf(l, h - 1)) + Total(z)
    <3>1. h \in 1 .. Groups(l)
      BY DEF n
    <3> DEFINE mm == m
               zz == z
    <3>2. mm = Len(GroupBatches(l, bs, h)) /\ zz = [j \in 1 .. mm |-> Total(RowOf(l, bs, h, j))]
      OBVIOUS
    <3> HIDE DEF mm, zz
    <3>3. /\ zz \in [1 .. mm -> Nat] /\ mm \in Nat
          /\ SumTo(s, EndOf(l, h)) = SumTo(s, EndOf(l, h - 1)) + Total(zz)
      BY <3>1, <3>2, GroupSum
    <3>4. QED
      BY <3>3 DEF mm, zz
  <2>4. u \in Nat /\ v \in Nat /\ v = u + m /\ v <= N
    BY <1>4, <2>1
  <2>5. \A j \in 1 .. m : z[j] = y[u + j]
    <3> SUFFICES ASSUME NEW j \in 1 .. m PROVE z[j] = y[u + j]
      OBVIOUS
    <3> DEFINE b == u + j
               ks == KeysOf(l, Batches(l, bs), b)
               w == RowOf(l, bs, h, j)
    <3>1. b \in 1 .. N /\ PlaceOf(l, bs, b, h, j)
      <4>1. h \in 1 .. Groups(l) /\ b = Off(l, bs, h - 1) + j /\ j \in 1 .. Len(GroupBatches(l, bs, h))
        BY DEF n
      <4> HIDE DEF b
      <4>2. QED
        BY <4>1, PlaceOfBatch DEF N
    <3>2. z[j] = Total(w)
      OBVIOUS
    <3> HIDE DEF b
    <3>3. y[b] = Total(StaySizes(ks))
      BY <3>1, StayTotalsFacts DEF y, N
    <3>4. Total(StaySizes(ks)) = Total(w)
      <4>1. /\ ks = KeysOf(l, Batches(l, bs), b)
            /\ w = [r \in 1 .. l.group |-> StaysOfChunk(l, bs, FileAt(l, h, r), j)]
        BY DEF RowOf
      <4> HIDE DEF ks, w
      <4>2. QED
        BY <3>1, <4>1, KeysFacts
    <3> HIDE DEF z, w, ks
    <3>5. QED
      BY <3>2, <3>3, <3>4 DEF b
  <2> HIDE DEF z
  <2>6. z \in Seq(Nat) /\ Len(z) = m
    <3> HIDE DEF m
    <3>1. QED
      BY <2>3, SeqOfFun
  <2> HIDE DEF u, v, m
  <2>7. SumTo(y, v) = SumTo(y, u) + Total(z)
    <3>1. u \in 0 .. Len(y) /\ v \in u .. Len(y) /\ Len(z) = v - u
      BY <1>1, <2>3, <2>4, <2>6
    <3>2. \A j \in 1 .. v - u : z[j] = y[u + j]
      BY <2>3, <2>4, <2>5
    <3>3. QED
      BY <1>1, <2>6, <3>1, <3>2, SumPart
  <2>8. P(h)
    BY <1>3, <2>2, <2>3, <2>7 DEF u, v
  <2> HIDE DEF P
  <2>9. QED
    BY <2>1, <2>8
<1>7. B = 0 .. n
  <2> HIDE DEF P
  <2>1. QED
    BY <1>1, <1>5, <1>6, Induction
<1>8. P(g)
  <2> HIDE DEF P
  <2>1. g \in 0 .. n
    BY DEF n
  <2>2. QED
    BY <1>7, <2>1
<1>9. QED
  BY <1>8

-----------------------------------------------------------------------------
(* What is charged, and what is spared.                                    *)

\* What stays of the first batches is charged to every file of a later group,
\* and of the group of the last of them.
LEMMA DoneCharged ==
  ASSUME NEW l \in Loads, Plannable(l), l.accumulate, NEW bs, bs = Budgets(l),
         NEW c \in 1 .. Len(Batches(l, bs)), NEW b \in 0 .. c,
         NEW h, NEW k, PlaceOf(l, bs, c, h, k),
         NEW i \in DOMAIN l.files, (i - 1) \div l.group = h - 1
  PROVE  Done(l, bs, b) <= Charge(Stats(l), Params(l))[i]
<1> DEFINE s == Residents(Stats(l))
           N == Len(Batches(l, bs))
           u == Off(l, bs, h - 1)
           v == Off(l, bs, h)
           m == Len(GroupBatches(l, bs, h))
<1>1. h \in 1 .. Groups(l) /\ k \in 1 .. m /\ c = u + k
  BY Zenon DEF PlaceOf
<1>2. Groups(l) \in Nat /\ m \in Nat
  BY <1>1, GroupListFacts, GroupFacts
<1>3. h - 1 \in 0 .. Groups(l) /\ h \in 0 .. Groups(l) /\ Groups(l) \in 0 .. Groups(l)
  BY <1>1, <1>2
<1>4. u \in Nat /\ v \in Nat /\ v = u + m /\ v <= N
  <2>1. u \in Nat /\ v \in Nat /\ v = u + m
    BY <1>1, <1>3, OffFacts
  <2>2. v <= N
    BY <1>3, OffFacts
  <2>3. QED
    BY <2>1, <2>2
<1>5. /\ StayTotals(l, bs) \in Seq(Nat) /\ Len(StayTotals(l, bs)) = N /\ N \in Nat
  BY StayTotalsFacts
<1>6. v \in 0 .. N /\ b \in 0 .. v
  <2>1. c \in 1 .. N /\ b \in 0 .. c
    OBVIOUS
  <2> HIDE DEF u, v, m, N
  <2>2. k \in 1 .. m /\ c = u + k
    BY Zenon, <1>1
  <2>3. m \in Nat /\ u \in Nat /\ v \in Nat /\ v = u + m /\ v <= N /\ N \in Nat
    BY Zenon, <1>2, <1>4, <1>5
  <2>4. c <= v
    BY <2>2, <2>3
  <2>5. QED
    BY <2>1, <2>3, <2>4
<1>7. Done(l, bs, b) <= Done(l, bs, v)
  <2>1. v \in 0 .. Len(StayTotals(l, bs))
    BY <1>5, <1>6
  <2> HIDE DEF v
  <2>2. QED
    BY <1>5, <1>6, <2>1, SumMonotone DEF Done
<1>8. Done(l, bs, v) = SumTo(s, EndOf(l, h))
  BY <1>3, DoneAtEnd
<1>9. Charge(Stats(l), Params(l))[i] = SumTo(s, GroupEnd(i, l.group, Len(l.files)))
  <2> DEFINE st == Stats(l)
             p == Params(l)
  <2>1. /\ StatsGood(st) /\ Len(st) = Len(l.files) /\ i \in 1 .. Len(st)
    BY StatsOfLoad
  <2>2. p.group = l.group /\ p.group \in Nat \ {0} /\ p.accumulate
    BY ParamsOfLoad
  <2>3. s = Residents(st)
    OBVIOUS
  <2> HIDE DEF st, p, s
  <2>4. StatsGood(st) /\ p.group \in Nat \ {0}
    BY <2>1, <2>2
  <2>5. \A j \in 1 .. Len(st) : Charge(st, p)[j] =
          IF p.accumulate THEN SumTo(Residents(st), GroupEnd(j, p.group, Len(st))) ELSE 0
    BY <2>4, ChargeFacts
  <2>6. Charge(st, p)[i] = SumTo(Residents(st), GroupEnd(i, p.group, Len(st)))
    BY Zenon, <2>1, <2>2, <2>5
  <2>7. Charge(st, p)[i] = SumTo(s, GroupEnd(i, l.group, Len(l.files)))
    BY Zenon, <2>1, <2>2, <2>3, <2>6
  <2>8. QED
    BY <2>7 DEF st, p
<1>10. GroupEnd(i, l.group, Len(l.files)) = EndOf(l, h)
  <2>1. h \in Int
    BY <1>1
  <2>2. (i - 1) \div l.group + 1 = h
    BY <2>1
  <2>3. QED
    BY <2>2 DEF GroupEnd, EndOf
<1>11. QED
  BY <1>7, <1>8, <1>9, <1>10

\* A load that is planned within a budget can hold what it charges.
LEMMA ChargeFits ==
  ASSUME NEW l \in Loads, Plannable(l), l.limited, NEW i \in DOMAIN l.files
  PROVE  /\ Params(l).budget \in Nat \ {0}
         /\ Charge(Stats(l), Params(l))[i] <= Params(l).budget
<1> DEFINE p == Params(l)
           d == Depth(l)
           w == Charge(Stats(l), p)
           bs == PlanFileBudgets(Stats(l), d, p)
<1>1. Feasible(Stats(l), d, p)
  BY DEF Plannable
<1>2. p.budget \in Nat \ {0}
  <2>1. p.budget > 0
    BY <1>1 DEF Feasible
  <2>2. p.budget \in Int
    BY ParamsOfLoad DEF FitParams
  <2>3. QED
    BY <2>1, <2>2
<1>3. \A j \in DOMAIN l.files : Stats(l)[j].kept > 0 => w[j] \in Nat /\ w[j] <= p.budget
  <2> SUFFICES ASSUME NEW j \in DOMAIN l.files, Stats(l)[j].kept > 0
               PROVE  w[j] \in Nat /\ w[j] <= p.budget
    OBVIOUS
  <2> DEFINE b == bs[j]
             e == EffectiveDepth(d, p)
  <2>1. /\ d \in Nat \ {0} /\ e \in Nat \ {0} /\ b \in Int
        /\ w[j] \in Nat /\ p.budget \in Int /\ p.overhead \in Nat
        /\ b * e <= (p.budget - w[j]) - d * p.overhead
    BY BudgetOfFile
  <2>2. Budgets(l)[j] = b
    BY DEF Budgets
  <2>3. b \in Nat
    BY <2>2, PlanFits
  <2>4. \A x \in Nat, y \in Nat : x * y \in Nat
    BY SMT
  <2>5. b * e \in Nat /\ d * p.overhead \in Nat
    BY <2>1, <2>3, <2>4
  <2> DEFINE x == b * e
             y == d * p.overhead
             z == w[j]
             u == p.budget
  <2>6. x \in Nat /\ y \in Nat /\ z \in Nat /\ u \in Int /\ x <= (u - z) - y
    BY <2>1, <2>5
  <2> HIDE DEF x, y, z, u
  <2>7. z <= u
    BY <2>6
  <2>8. QED
    BY <2>6, <2>7 DEF z, u
<1>4. SumsHold(Stats(l), w)
  <2>1. StatsGood(Stats(l))
    BY StatsOfLoad
  <2>2. p.group \in Nat \ {0}
    BY ParamsOfLoad
  <2>3. QED
    BY <2>1, <2>2, SumsOfFiles
<1>5. DOMAIN Stats(l) = DOMAIN l.files
  BY StatsOfLoad
<1> HIDE DEF p, w, d, bs
<1>6. w[i] <= p.budget
  <2>1. CASE Stats(l)[i].kept > 0
    BY <1>3, <2>1
  <2>2. CASE ~(Stats(l)[i].kept > 0)
    <3>1. /\ Stats(l)[i].largest \in Nat
          /\ Stats(l)[i].largest > 0 <=> Stats(l)[i].kept > 0
      BY <1>4, <1>5 DEF SumsHold
    <3>2. Stats(l)[i].largest = 0
      BY <2>2, <3>1
    <3>3. \/ w[i] = 0
          \/ \E j \in DOMAIN l.files : Stats(l)[j].largest > 0 /\ w[j] = w[i]
      BY <1>4, <1>5, <3>2 DEF SumsHold
    <3>4. CASE w[i] = 0
      BY <1>2, <3>4
    <3>5. CASE \E j \in DOMAIN l.files : Stats(l)[j].largest > 0 /\ w[j] = w[i]
      <4>1. PICK j \in DOMAIN l.files : Stats(l)[j].largest > 0 /\ w[j] = w[i]
        BY <3>5
      <4>2. Stats(l)[j].kept > 0
        BY <1>4, <1>5, <4>1 DEF SumsHold
      <4>3. QED
        BY <1>3, <4>1, <4>2
    <3>6. QED
      BY <3>3, <3>4, <3>5
  <2>3. QED
    BY <2>1, <2>2
<1>7. QED
  BY <1>2, <1>6 DEF p, w

\* Every group has a first file.
LEMMA FirstFile ==
  ASSUME NEW l \in Loads, NEW g \in 1 .. Groups(l)
  PROVE  /\ FileAt(l, g, 1) \in DOMAIN l.files
         /\ (FileAt(l, g, 1) - 1) \div l.group = g - 1
<1> DEFINE n == Len(l.files)
           d == l.group
<1>1. n \in Nat /\ d \in Nat \ {0} /\ DOMAIN l.files = 1 .. n
  BY StatsOfLoad, ParamsOfLoad
<1>2. Groups(l) = (n + (d - 1)) \div d
  BY <1>1 DEF Groups
<1> DEFINE a == n + (d - 1)
           q == a \div d
<1>3. a \in Nat
  BY <1>1
<1> HIDE DEF n, d
<1>4. q \in Nat
  <2> HIDE DEF a
  <2>1. QED
    BY <1>1, <1>3
<1>5. g \in Nat \ {0} /\ g <= q
  BY <1>2, <1>4 DEF a, q
<1>6. g * d <= a
  <2> HIDE DEF a
  <2>1. QED
    BY <1>1, <1>3, <1>5, FloorDivision DEF q
<1>7. (g - 1) * d \in Nat /\ g * d = (g - 1) * d + d
  <2>1. \A x \in Nat \ {0}, y \in Nat : (x - 1) * y \in Nat /\ x * y = (x - 1) * y + y
    BY SMT
  <2>2. QED
    BY <1>1, <1>5, <2>1
<1> DEFINE z == (g - 1) * d
<1>8. z \in Nat /\ z + d <= n + (d - 1)
  BY <1>6, <1>7
<1> HIDE DEF z
<1>9. z + 1 \in 1 .. n
  BY <1>1, <1>8
<1>10. FileAt(l, g, 1) = z + 1
  BY DEF FileAt, z, d
<1>11. 1 \in 1 .. l.group
  BY <1>1 DEF d
<1>12. (FileAt(l, g, 1) - 1) \div l.group = g - 1
  BY <1>5, <1>11, FileAtFacts
<1>13. QED
  BY <1>1, <1>9, <1>10, <1>12

\* What is left for each of the tensors that the budget counts, once R bytes stay
Spare(l, R) ==
    ((Params(l).budget - R) - Depth(l) * Params(l).overhead)
        \div EffectiveDepth(Depth(l), Params(l))
\* Every file with something to load is given no more than that.
LEMMA SpareFacts ==
  ASSUME NEW l \in Loads, Plannable(l), l.limited, NEW R \in Nat,
         NEW i \in DOMAIN l.files, Stats(l)[i].kept > 0,
         R <= Charge(Stats(l), Params(l))[i]
  PROVE  /\ Spare(l, R) \in Nat /\ Budgets(l)[i] \in Nat /\ Budgets(l)[i] <= Spare(l, R)
         /\ Spare(l, R) * EffectiveDepth(Depth(l), Params(l))
              <= (Params(l).budget - R) - Depth(l) * Params(l).overhead
<1> DEFINE p == Params(l)
           d == Depth(l)
           b == PlanFileBudgets(Stats(l), d, p)[i]
           e == EffectiveDepth(d, p)
           w == Charge(Stats(l), p)[i]
           o == d * p.overhead
           u == p.budget
           a == (u - R) - o
<1>1. /\ d \in Nat \ {0} /\ e \in Nat \ {0} /\ b \in Int
      /\ w \in Nat /\ u \in Int /\ p.overhead \in Nat
      /\ b * e <= (u - w) - o
  BY BudgetOfFile
<1>2. Budgets(l)[i] = b
  BY DEF Budgets
<1>3. b \in Nat
  BY <1>2, PlanFits
<1>4. o \in Nat /\ b * e \in Nat
  <2>1. \A x \in Nat, y \in Nat : x * y \in Nat
    BY SMT
  <2>2. QED
    BY <1>1, <1>3, <2>1
<1>5. R <= w
  OBVIOUS
<1>6. Spare(l, R) = a \div e
  BY DEF Spare
<1> HIDE DEF p, d, b, e, w, o, u
<1> DEFINE z == b * e
<1>7. a \in Int
  BY <1>1, <1>4
<1>8. z <= a
  <2>1. z \in Nat /\ z <= (u - w) - o
    BY <1>1, <1>4
  <2> HIDE DEF z
  <2>2. QED
    BY <1>1, <1>4, <1>5, <2>1
<1> HIDE DEF a
<1>9. b <= a \div e
  BY <1>1, <1>3, <1>7, <1>8, FloorDivision
<1>10. a \div e \in Int
  BY <1>1, <1>7
<1> DEFINE x == a \div e
<1>11. x \in Nat /\ b <= x
  <2>1. x \in Int /\ b <= x
    BY <1>9, <1>10
  <2> HIDE DEF x
  <2>2. QED
    BY <1>3, <2>1
<1>12. x * e <= a
  <2>1. x <= a \div e /\ x \in Int
    BY <1>10
  <2> HIDE DEF x
  <2>2. QED
    BY <1>1, <1>7, <2>1, FloorDivision
<1>13. QED
  BY <1>2, <1>3, <1>6, <1>11, <1>12 DEF a, o, u, e, d, p

\* The buffers, each of no more than x bytes and what the copier adds, the copy
\* and what stays are within what x was taken from.
LEMMA SpareHolds ==
  ASSUME NEW x \in Nat, NEW d \in Nat, NEW n \in 0 .. d, NEW m \in Nat, NEW o \in Nat,
         NEW c \in Nat, NEW R \in Nat, NEW T \in Nat, NEW y \in Nat, NEW u \in Int,
         y <= n * (m * x + o), T <= c * x, x * (d * m + c) <= (u - R) - d * o
  PROVE  R + T + y <= u
<1> DEFINE q == m * x + o
           s == d * q
           t == c * x
           v == d * o
           w == x * (d * m + c)
<1>1. q \in Nat /\ t \in Nat /\ v \in Nat
  <2>1. \A e \in Nat, f \in Nat : e * f \in Nat
    BY SMT
  <2>2. QED
    BY <2>1
<1>2. n * q <= s /\ s \in Nat /\ n * q \in Nat
  <2>1. \A e \in Nat, z \in Nat : \A f \in 0 .. e : f * z <= e * z /\ e * z \in Nat /\ f * z \in Nat
    BY SMT
  <2> HIDE DEF q
  <2>2. QED
    BY <1>1, <2>1
<1>3. w + v = s + t
  <2>1. \A e1 \in Nat, e2 \in Nat, e3 \in Nat, e4 \in Nat, e5 \in Nat :
            e1 * (e2 * e3 + e4) + e2 * e5 = e2 * (e3 * e1 + e5) + e4 * e1
    BY SMT
  <2>2. QED
    BY <2>1
<1>4. w \in Nat
  <2>1. \A e \in Nat, f \in Nat : e * f \in Nat /\ e + f \in Nat
    BY SMT
  <2>2. QED
    BY <2>1
<1> DEFINE k == n * q
<1>5. y <= k /\ k \in Nat /\ k <= s /\ T <= t /\ w <= (u - R) - v
  BY <1>2
<1> HIDE DEF k, s, t, v, w
<1>6. QED
  BY <1>1, <1>2, <1>3, <1>4, <1>5

\* The buffer of a chunk with all its copier holds for it
CostOf(l, bs, chunk) ==
    IF chunk.ranges = <<>> THEN 0
    ELSE l.multiplier * (IF l.asBudget THEN bs[chunk.names[1][1]] ELSE Span(chunk))
         + l.overhead
\* A buffer costs nothing, or is one of a file with something to load.
LEMMA CostFacts ==
  ASSUME NEW l \in Loads, NEW bs, NEW i, NEW x,
         x = NoChunk \/ OfFile(l, bs, i, x)
  PROVE  /\ CostOf(l, bs, x) \in Nat
         /\ \/ CostOf(l, bs, x) = 0
            \/ /\ i \in DOMAIN l.files /\ Stats(l)[i].kept > 0 /\ bs[i] \in Nat
               /\ CostOf(l, bs, x) <= l.multiplier * bs[i] + l.overhead
<1>1. CASE x.ranges = <<>>
  BY <1>1 DEF CostOf
<1>2. CASE x.ranges # <<>>
  <2>1. OfFile(l, bs, i, x)
    BY <1>2 DEF NoChunk
  <2>2. /\ i \in DOMAIN l.files /\ x.names[1][1] = i /\ bs[i] \in Nat
        /\ Span(x) \in Nat /\ Span(x) <= bs[i] /\ LargestOf(Kept(l, l.files[i])) > 0
    BY <1>2, <2>1, Zenon DEF OfFile
  <2> DEFINE a == IF l.asBudget THEN bs[i] ELSE Span(x)
             m == l.multiplier
             o == l.overhead
             b == bs[i]
  <2>3. a \in Nat /\ a <= b /\ b \in Nat
    BY <2>2
  <2>4. m \in Nat /\ o \in Nat
    BY LoadsAssumption
  <2>5. CostOf(l, bs, x) = m * a + o
    BY <1>2, <2>2 DEF CostOf
  <2>6. Stats(l)[i].kept > 0
    <3>1. Frames(Kept(l, l.files[i])) /\ Stats(l)[i] = FileStats(Kept(l, l.files[i]))
      BY <2>2, KeptFrames
    <3>2. QED
      BY <2>2, <3>1, FileStatsFacts
  <2> HIDE DEF a, m, o, b
  <2>7. m * a \in Nat /\ m * b \in Nat /\ m * a <= m * b
    <3>1. \A e \in Nat, f \in Nat : \A g \in 0 .. f : e * f \in Nat /\ e * g \in Nat /\ e * g <= e * f
      BY SMT
    <3>2. a \in 0 .. b
      BY <2>3
    <3>3. QED
      BY <2>3, <2>4, <3>1, <3>2
  <2> DEFINE y == m * a
             z == m * b
  <2>8. y \in Nat /\ z \in Nat /\ y <= z /\ CostOf(l, bs, x) = y + o
    BY <2>5, <2>7
  <2> HIDE DEF y, z
  <2>9. CostOf(l, bs, x) \in Nat /\ CostOf(l, bs, x) <= z + o
    BY <2>4, <2>8
  <2>10. QED
    BY <2>2, <2>6, <2>9 DEF z, m, b, o
<1>3. QED
  BY <1>1, <1>2

\* What stays of the first b batches, as far as it is counted
Settled(l, bs, b) == IF l.accumulate THEN Done(l, bs, b) ELSE 0
\* What is counted of the first batches is charged to the files behind.
LEMMA SettledFacts ==
  ASSUME NEW l \in Loads, Plannable(l), NEW bs, bs = Budgets(l),
         NEW c \in 1 .. Len(Batches(l, bs)), NEW b \in 0 .. c,
         NEW h, NEW k, PlaceOf(l, bs, c, h, k),
         NEW i \in DOMAIN l.files, (i - 1) \div l.group = h - 1
  PROVE  Settled(l, bs, b) <= Charge(Stats(l), Params(l))[i]
<1>1. CASE l.accumulate
  <2>1. Done(l, bs, b) <= Charge(Stats(l), Params(l))[i]
    BY <1>1, DoneCharged
  <2>2. QED
    BY <1>1, <2>1 DEF Settled
<1>2. CASE ~l.accumulate
  <2>1. Charge(Stats(l), Params(l))[i] \in Nat
    BY BudgetOfFile
  <2>2. QED
    BY <1>2, <2>1 DEF Settled
<1>3. QED
  BY <1>1, <1>2

\* A file of the group of a batch, with something to load
Loaded(l, bs, c, i) ==
    /\ i \in DOMAIN l.files /\ Stats(l)[i].kept > 0
    /\ \E h, k : PlaceOf(l, bs, c, h, k) /\ (i - 1) \div l.group = h - 1

\* The live buffers are those of the batches after g; R bytes stay, which is no
\* more than what stays of the batches up to the first of them; T bytes are a
\* copy of a tensor of that one.
RoomNeeds(l, bs, g, n, r, y, R, T) ==
    /\ g \in Nat /\ n \in Nat /\ g + n <= Len(Batches(l, bs))
    /\ n <= Depth(l)
    /\ y \in Seq(Nat) /\ Len(y) = n
    /\ \A k \in 1 .. n : y[k] = CostOf(l, bs, Batches(l, bs)[g + k][r])
    /\ R \in Nat /\ R <= Settled(l, bs, IF n = 0 THEN g ELSE g + 1)
    /\ T \in Nat
    /\ T > 0 => /\ n > 0 /\ Clones(Params(l)) = 1
                /\ \E i : Loaded(l, bs, g + 1, i) /\ T <= bs[i]

\* One of them gives the buffers and the copy what is left.
LEMMA RoomOfLoaded ==
  ASSUME NEW l \in Loads, Plannable(l), l.limited, NEW bs, bs = Budgets(l),
         NEW g \in Nat, NEW c, c \in g + 1 .. Len(Batches(l, bs)), NEW i, Loaded(l, bs, c, i),
         NEW R \in Nat, R <= Settled(l, bs, g + 1)
  PROVE  /\ Spare(l, R) \in Nat /\ bs[i] \in Nat /\ bs[i] <= Spare(l, R)
         /\ Spare(l, R) * EffectiveDepth(Depth(l), Params(l))
              <= (Params(l).budget - R) - Depth(l) * Params(l).overhead
<1> DEFINE N == Len(Batches(l, bs))
<1>1. PICK h, k : PlaceOf(l, bs, c, h, k) /\ (i - 1) \div l.group = h - 1
  BY Zenon DEF Loaded
<1>2. i \in DOMAIN l.files /\ Stats(l)[i].kept > 0
  BY Zenon DEF Loaded
<1>3. N \in Nat
  BY StayTotalsFacts
<1>4. c \in 1 .. N /\ g + 1 \in 0 .. c
  <2> HIDE DEF N
  <2>1. c \in g + 1 .. N
    BY DEF N
  <2>2. QED
    BY <1>3, <2>1
<1> DEFINE s == Settled(l, bs, g + 1)
           w == Charge(Stats(l), Params(l))[i]
<1>5. s <= w
  BY <1>1, <1>2, <1>4, SettledFacts
<1>6. w \in Nat
  BY <1>2, BudgetOfFile
<1>7. s \in Nat
  <2>1. StayTotals(l, bs) \in Seq(Nat) /\ Len(StayTotals(l, bs)) = N
    BY StayTotalsFacts
  <2>2. g + 1 \in 0 .. Len(StayTotals(l, bs))
    <3> HIDE DEF N
    <3>1. QED
      BY <1>3, <1>4, <2>1
  <2>3. Done(l, bs, g + 1) \in Nat
    BY <2>1, <2>2, SumFacts DEF Done
  <2>4. QED
    BY <2>3 DEF Settled
<1>8. R <= w
  <2>1. R <= s
    OBVIOUS
  <2> HIDE DEF s, w
  <2>2. QED
    BY <1>5, <1>6, <1>7, <2>1
<1>9. QED
  BY <1>2, <1>8, SpareFacts

\* There is room for all of it.
LEMMA RoomFor ==
  ASSUME NEW l \in Loads, Plannable(l), l.limited, NEW bs, bs = Budgets(l),
         NEW g, NEW n, NEW r \in 1 .. l.group, NEW y, NEW R, NEW T,
         RoomNeeds(l, bs, g, n, r, y, R, T)
  PROVE  R + T + Total(y) <= Params(l).budget
<1> DEFINE N == Len(Batches(l, bs))
           p == Params(l)
           d == Depth(l)
           u == p.budget
           m == p.multiplier
           o == p.overhead
           x == Spare(l, R)
<1>1. /\ g \in Nat /\ n \in Nat /\ g + n <= N /\ n <= d
      /\ y \in Seq(Nat) /\ Len(y) = n
      /\ \A k \in 1 .. n : y[k] = CostOf(l, bs, Batches(l, bs)[g + k][r])
      /\ R \in Nat /\ R <= Settled(l, bs, IF n = 0 THEN g ELSE g + 1)
      /\ T \in Nat
      /\ T > 0 => /\ n > 0 /\ Clones(p) = 1
                  /\ \E i : Loaded(l, bs, g + 1, i) /\ T <= bs[i]
  BY Zenon DEF RoomNeeds
<1>2. /\ N \in Nat /\ p \in FitParams /\ p.multiplier = l.multiplier /\ p.overhead = l.overhead
  BY StayTotalsFacts, ParamsOfLoad DEF Params
<1>3. u \in Int /\ m \in Nat \ {0} /\ o \in Nat /\ Clones(p) \in Nat
  BY <1>2 DEF FitParams, Clones
<1>4. d \in Nat
  <2>1. Clamped(l) \in Int
    BY ClampInverts
  <2>2. PipelineDepth(Clamped(l)) \in Nat
    BY <2>1 DEF PipelineDepth
  <2>3. QED
    BY <2>2 DEF Depth, LoadDepth, Receives
<1>5. /\ Total(y) \in Nat
      /\ \A b \in Nat : (\A k \in 1 .. n : y[k] <= b) => Total(y) <= n * b
  <2>1. n \in 0 .. Len(y)
    BY <1>1
  <2>2. Total(y) = SumTo(y, n)
    BY <1>1 DEF Total
  <2>3. SumTo(y, n) \in Nat
    BY <1>1, <2>1, SumFacts
  <2>4. ASSUME NEW b \in Nat, \A k \in 1 .. n : y[k] <= b PROVE SumTo(y, n) <= n * b
    BY <1>1, <2>1, <2>4, SumBounded
  <2>5. QED
    BY <2>2, <2>3, <2>4
\* A buffer costs nothing, or there is a file it is for.
<1>6. ASSUME NEW k \in 1 .. n
      PROVE  \/ y[k] = 0
             \/ \E i : Loaded(l, bs, g + k, i) /\ y[k] <= m * bs[i] + o
  <2>1. g + k \in 1 .. N
    <3> HIDE DEF N
    <3>1. QED
      BY <1>1, <1>2
  <2>2. PICK h, j : PlaceOf(l, bs, g + k, h, j)
    BY <2>1, BatchHasPlace
  <2> DEFINE i == FileAt(l, h, r)
             z == Batches(l, bs)[g + k][r]
  <2>3. h \in Nat \ {0} /\ (z = NoChunk \/ OfFile(l, bs, i, z))
    BY <2>2, ChunkOfBatch
  <2>4. (i - 1) \div l.group = h - 1
    <3>1. h \in Nat \ {0}
      BY <2>3
    <3>2. QED
      BY <3>1, FileAtFacts
  <2>5. y[k] = CostOf(l, bs, z)
    BY <1>1
  <2> HIDE DEF i, z
  <2>6. \/ CostOf(l, bs, z) = 0
        \/ /\ i \in DOMAIN l.files /\ Stats(l)[i].kept > 0
           /\ CostOf(l, bs, z) <= l.multiplier * bs[i] + l.overhead
    BY <2>3, CostFacts
  <2>7. CASE CostOf(l, bs, z) = 0
    BY <2>5, <2>7
  <2>8. CASE /\ i \in DOMAIN l.files /\ Stats(l)[i].kept > 0
             /\ CostOf(l, bs, z) <= l.multiplier * bs[i] + l.overhead
    <3>1. Loaded(l, bs, g + k, i)
      BY <2>2, <2>4, <2>8, Zenon DEF Loaded
    <3>2. y[k] <= m * bs[i] + o
      BY <1>2, <2>5, <2>8
    <3>3. QED
      BY <3>1, <3>2
  <2>9. QED
    BY <2>6, <2>7, <2>8
<1>7. CASE \E c \in g + 1 .. g + n : \E i : Loaded(l, bs, c, i)
  <2>1. PICK c \in g + 1 .. g + n : \E i : Loaded(l, bs, c, i)
    BY <1>7
  <2>2. n > 0 /\ c \in g + 1 .. N
    <3> HIDE DEF N
    <3>1. QED
      BY <1>1, <1>2, <2>1
  <2>3. R <= Settled(l, bs, g + 1)
    BY <1>1, <2>2
  <2>4. ASSUME NEW e, e \in g + 1 .. N, NEW i, Loaded(l, bs, e, i)
        PROVE  /\ x \in Nat /\ bs[i] \in Nat /\ bs[i] <= x
               /\ x * EffectiveDepth(d, p) <= (u - R) - d * o
    BY <1>1, <2>3, <2>4, RoomOfLoaded
  <2>5. x \in Nat /\ x * EffectiveDepth(d, p) <= (u - R) - d * o
    BY <2>1, <2>2, <2>4
  <2>6. T <= Clones(p) * x
    <3>1. CASE T > 0
      <4>1. PICK i : Loaded(l, bs, g + 1, i) /\ T <= bs[i]
        BY <1>1, <3>1
      <4>2. g + 1 \in g + 1 .. N
        <5> HIDE DEF N
        <5>1. QED
          BY <1>1, <1>2, <2>2
      <4>3. bs[i] \in Nat /\ bs[i] <= x
        BY <2>4, <4>1, <4>2
      <4>4. Clones(p) = 1
        BY <1>1, <3>1
      <4> HIDE DEF x
      <4>5. T <= x
        BY <1>1, <2>5, <4>1, <4>3
      <4>6. QED
        BY <2>5, <4>4, <4>5
    <3>2. CASE ~(T > 0)
      <4>1. T = 0
        BY <1>1, <3>2
      <4>2. \A a \in Nat, b \in Nat : a * b >= 0
        BY SMT
      <4> HIDE DEF x
      <4>3. Clones(p) * x >= 0
        BY <1>3, <2>5, <4>2
      <4>4. QED
        BY <4>1, <4>3
    <3>3. QED
      BY <3>1, <3>2
  <2> HIDE DEF x
  <2> DEFINE q == m * x + o
  <2>7. q \in Nat
    <3>1. \A a \in Nat, b \in Nat : a * b \in Nat
      BY SMT
    <3>2. QED
      BY <1>3, <2>5, <3>1
  <2>8. \A k \in 1 .. n : y[k] <= q
    <3> SUFFICES ASSUME NEW k \in 1 .. n PROVE y[k] <= q
      OBVIOUS
    <3>1. CASE y[k] = 0
      <4> HIDE DEF q
      <4>1. QED
        BY <2>7, <3>1
    <3>2. CASE \E i : Loaded(l, bs, g + k, i) /\ y[k] <= m * bs[i] + o
      <4>1. PICK i : Loaded(l, bs, g + k, i) /\ y[k] <= m * bs[i] + o
        BY <3>2
      <4>2. g + k \in g + 1 .. N
        <5> HIDE DEF N
        <5>1. QED
          BY <1>1, <1>2
      <4>3. bs[i] \in Nat /\ bs[i] <= x
        BY <2>4, <4>1, <4>2
      <4> DEFINE b == bs[i]
      <4>4. b \in 0 .. x
        BY <2>5, <4>3
      <4> HIDE DEF b
      <4>5. m * b <= m * x /\ m * b \in Nat /\ m * x \in Nat
        <5>1. \A a \in Nat, c1 \in Nat : \A c2 \in 0 .. c1 :
                a * c2 <= a * c1 /\ a * c2 \in Nat /\ a * c1 \in Nat
          BY SMT
        <5>2. QED
          BY <1>3, <2>5, <4>4, <5>1
      <4> DEFINE v == m * b
                 w == m * x
                 z == y[k]
      <4>6. v \in Nat /\ w \in Nat /\ v <= w /\ z <= v + o /\ z \in Nat
        <5>1. z \in Nat
          BY <1>1
        <5>2. z <= v + o
          BY <4>1 DEF b
        <5>3. QED
          BY <4>5, <5>1, <5>2
      <4> HIDE DEF v, w, z
      <4>7. z <= w + o
        BY <1>3, <4>6
      <4>8. QED
        BY <4>7 DEF z, w
    <3>3. QED
      BY <1>6, <3>1, <3>2
  <2>9. Total(y) <= n * q
    BY <1>5, <2>7, <2>8
  <2>10. x * (d * m + Clones(p)) <= (u - R) - d * o
    BY <2>5 DEF EffectiveDepth
  <2>11. n \in 0 .. d
    BY <1>1, <1>4
  <2> DEFINE t == Total(y)
  <2>12. t \in Nat /\ t <= n * (m * x + o)
    BY <1>5, <2>9
  <2> HIDE DEF t, u, m, o, d, p
  <2>13. R + T + t <= u
    BY <1>1, <1>3, <1>4, <2>5, <2>6, <2>10, <2>11, <2>12, SpareHolds
  <2>14. QED
    BY <2>13 DEF t, u, p
<1>8. CASE ~ \E c \in g + 1 .. g + n : \E i : Loaded(l, bs, c, i)
  <2>1. Total(y) = 0
    <3>1. \A k \in 1 .. n : y[k] <= 0
      <4> SUFFICES ASSUME NEW k \in 1 .. n PROVE y[k] <= 0
        OBVIOUS
      <4>1. g + k \in g + 1 .. g + n
        BY <1>1
      <4>2. ~ \E i : Loaded(l, bs, g + k, i)
        BY <1>8, <4>1
      <4>3. QED
        BY <1>6, <4>2
    <3>2. Total(y) <= n * 0
      BY <1>5, <3>1
    <3>3. QED
      BY <1>1, <1>5, <3>2
  <2>2. T = 0
    <3>1. CASE T > 0
      <4>1. n > 0 /\ \E i : Loaded(l, bs, g + 1, i)
        BY <1>1, <3>1
      <4>2. g + 1 \in g + 1 .. g + n
        BY <1>1, <4>1
      <4>3. QED
        BY <1>8, <4>1, <4>2
    <3>2. QED
      BY <1>1, <3>1
  <2> DEFINE b == IF n = 0 THEN g ELSE g + 1
             s == Settled(l, bs, b)
  <2>3. b \in 0 .. N
    <3> HIDE DEF N
    <3>1. QED
      BY <1>1, <1>2
  <2>4. R <= s
    BY <1>1
  <2>5. s <= u /\ s \in Int
    <3> HIDE DEF b
    <3>1. s \in Nat
      <4>1. StayTotals(l, bs) \in Seq(Nat) /\ Len(StayTotals(l, bs)) = N
        BY StayTotalsFacts
      <4>2. b \in 0 .. Len(StayTotals(l, bs))
        BY <2>3, <4>1
      <4>3. Done(l, bs, b) \in Nat
        BY <4>1, <4>2, SumFacts DEF Done
      <4>4. QED
        BY <4>3 DEF Settled
    <3>2. CASE N = 0
      <4>1. b = 0 /\ Len(StayTotals(l, bs)) = 0 /\ StayTotals(l, bs) \in Seq(Nat)
        BY <2>3, <3>2, StayTotalsFacts
      <4>2. s = 0
        BY <4>1, SumFacts DEF Settled, Done
      <4>3. u > 0
        BY DEF Plannable, Feasible
      <4>4. QED
        BY <1>3, <4>2, <4>3
    <3>3. CASE N # 0
      <4> DEFINE c == IF b = 0 THEN 1 ELSE b
      <4>1. c \in 1 .. N /\ b \in 0 .. c
        <5> HIDE DEF N
        <5>1. QED
          BY <1>2, <2>3, <3>3
      <4> HIDE DEF c
      <4>2. PICK h, k : PlaceOf(l, bs, c, h, k)
        BY <4>1, BatchHasPlace
      <4>3. h \in 1 .. Groups(l)
        BY <4>2, Zenon DEF PlaceOf
      <4> DEFINE i == FileAt(l, h, 1)
                 w == Charge(Stats(l), Params(l))[i]
      <4>4. i \in DOMAIN l.files /\ (i - 1) \div l.group = h - 1
        BY <4>3, FirstFile
      <4> HIDE DEF i
      <4>5. s <= w
        BY <4>1, <4>2, <4>4, SettledFacts
      <4>6. w <= u
        BY <4>4, ChargeFits
      <4>7. w \in Nat
        BY <4>4, BudgetOfFile
      <4> HIDE DEF s, w, u
      <4>8. QED
        BY <1>3, <3>1, <4>5, <4>6, <4>7
    <3>4. QED
      BY <3>2, <3>3
  <2>6. R <= u
    <3> HIDE DEF s, u
    <3>1. QED
      BY <1>1, <1>3, <2>4, <2>5
  <2>7. R + T + Total(y) = R
    BY <1>1, <2>1, <2>2
  <2>8. QED
    BY <2>6, <2>7
<1>9. QED
  BY <1>7, <1>8

-----------------------------------------------------------------------------
(* The memory of a load.                                                   *)

\* A tensor of batch b: a file of the batch's group has room for it, and it stays
\* if all tensors with bytes do.
KeyFits(l, bs, b, key) ==
    /\ Bytes(key[2]) \in Nat
    /\ Bytes(key[2]) > 0 =>
         /\ \E i : Loaded(l, bs, b, i) /\ bs[i] \in Nat /\ Bytes(key[2]) <= bs[i]
         /\ ~HasNonResident(Stats(l)) => key[2].stays
\* A tensor of a file of the group of a batch fits.
LEMMA KeyGoodFits ==
  ASSUME NEW l \in Loads, NEW bs, NEW b, NEW g, NEW j, PlaceOf(l, bs, b, g, j),
         NEW key, KeyGood(l, bs, g, key)
  PROVE  KeyFits(l, bs, b, key)
<1> DEFINE i == key[1]
           s == Kept(l, l.files[i])
<1>1. /\ i \in DOMAIN l.files /\ (i - 1) \div l.group = g - 1
      /\ \E m \in DOMAIN s : key[2] = s[m]
      /\ Bytes(key[2]) \in Nat /\ bs[i] \in Nat /\ Bytes(key[2]) <= bs[i]
      /\ Bytes(key[2]) > 0 => Stats(l)[i].kept > 0
  BY Zenon DEF KeyGood
<1>2. ASSUME Bytes(key[2]) > 0 PROVE Loaded(l, bs, b, i)
  <2>1. Stats(l)[i].kept > 0
    BY <1>1, <1>2
  <2>2. QED
    BY <1>1, <2>1, Zenon DEF Loaded
<1>3. ASSUME Bytes(key[2]) > 0, ~HasNonResident(Stats(l)) PROVE key[2].stays
  <2>1. Frames(s) /\ Stats(l)[i] = FileStats(s)
    BY <1>1, KeptFrames
  <2>2. ~(Stats(l)[i].resident < Stats(l)[i].kept)
    <3>1. i \in DOMAIN Stats(l)
      BY <1>1, StatsOfLoad
    <3>2. QED
      BY <1>3, <3>1 DEF HasNonResident
  <2>3. \A m \in DOMAIN s : Bytes(s[m]) > 0 => s[m].stays
    <3> HIDE DEF s
    <3>1. QED
      BY <2>1, <2>2, FileStatsFacts
  <2>4. PICK m \in DOMAIN s : key[2] = s[m]
    BY <1>1
  <2>5. QED
    BY <1>3, <2>3, <2>4
<1>4. QED
  BY <1>1, <1>2, <1>3, Zenon DEF KeyFits

KeysGood(l, bs, b, ks) ==
    /\ ks \in Seq(Nat \X TensorFrames) /\ Len(ks) \in Nat
    /\ StaySizes(ks) \in Seq(Nat) /\ Len(StaySizes(ks)) = Len(ks)
    /\ \A k \in 1 .. Len(ks) : /\ KeyFits(l, bs, b, ks[k])
                               /\ StaySizes(ks)[k] = StayOf(ks[k])
    /\ Done(l, bs, b - 1) \in Nat
    /\ Done(l, bs, b) = Done(l, bs, b - 1) + Total(StaySizes(ks))
\* The tensors of a batch all fit, and what stays of them adds to what stays.
LEMMA KeysOfBatch ==
  ASSUME NEW l \in Loads, Plannable(l), NEW bs, bs = Budgets(l),
         NEW b \in 1 .. Len(Batches(l, bs)),
         NEW ks, ks = KeysOf(l, Batches(l, bs), b)
  PROVE  KeysGood(l, bs, b, ks)
<1> DEFINE t == StayTotals(l, bs)
           N == Len(Batches(l, bs))
<1>1. PICK g, j : PlaceOf(l, bs, b, g, j)
  BY BatchHasPlace
<1> DEFINE y == [r \in 1 .. l.group |-> StaysOfChunk(l, bs, FileAt(l, g, r), j)]
<1>2. /\ ks \in Seq(Nat \X TensorFrames) /\ Len(ks) \in Nat
      /\ \A k \in 1 .. Len(ks) : KeyGood(l, bs, g, ks[k])
  BY <1>1, KeysFacts
<1>3. ASSUME NEW k \in 1 .. Len(ks) PROVE KeyFits(l, bs, b, ks[k])
  BY <1>1, <1>2, KeyGoodFits
<1>4. \A k \in 1 .. Len(ks) : Bytes(ks[k][2]) \in Nat
  BY <1>3, Zenon DEF KeyFits
<1>5. /\ StaySizes(ks) \in Seq(Nat) /\ Len(StaySizes(ks)) = Len(ks)
      /\ \A k \in 1 .. Len(ks) : StaySizes(ks)[k] = StayOf(ks[k])
  <2> DEFINE U == Nat \X TensorFrames
  <2>1. ks \in Seq(U)
    BY <1>2
  <2> HIDE DEF U
  <2>2. QED
    BY <1>4, <2>1, StaySizesFacts
<1>6. t \in Seq(Nat) /\ Len(t) = N /\ N \in Nat /\ t[b] = Total(StaySizes(ks))
  BY StayTotalsFacts
<1>7. b \in 1 .. Len(t) /\ b - 1 \in 0 .. Len(t)
  <2>1. b \in 1 .. N
    OBVIOUS
  <2> HIDE DEF N, t
  <2>2. QED
    BY <1>6, <2>1
<1>8. SumTo(t, b) = SumTo(t, b - 1) + t[b] /\ SumTo(t, b - 1) \in Nat
  <2> HIDE DEF t
  <2>1. QED
    BY <1>6, <1>7, SumFacts
<1>9. /\ Done(l, bs, b - 1) \in Nat
      /\ Done(l, bs, b) = Done(l, bs, b - 1) + Total(StaySizes(ks))
  BY <1>6, <1>8 DEF Done
<1>10. QED
  BY <1>2, <1>3, <1>5, <1>9, Zenon DEF KeysGood

\* What a tensor or a run of them adds
GotOf(keys) == Total([k \in DOMAIN keys |-> Bytes(keys[k][2])])
Gets(ks, p, n, keys, got) == keys = SubSeq(ks, p + 1, p + n) /\ got = GotOf(keys)
AllStay(ks, p, n) == \A k \in 1 .. n : Bytes(ks[p + k][2]) > 0 => ks[p + k][2].stays
\* The bytes of a tensor, or of a run, are what it adds if it stays.
LEMMA GotFacts ==
  ASSUME NEW l, NEW bs, NEW b, NEW ks, KeysGood(l, bs, b, ks),
         NEW p \in Nat, NEW n \in Nat \ {0}, p + n <= Len(ks),
         NEW s, s = StaySizes(ks), NEW keys, NEW got, Gets(ks, p, n, keys, got)
  PROVE  /\ got \in Nat /\ Len(keys) = n /\ DOMAIN keys = 1 .. n
         /\ \A k \in 1 .. n : keys[k] = ks[p + k]
         /\ n = 1 => got = Bytes(ks[p + 1][2])
         /\ SumTo(s, p) \in Nat /\ SumTo(s, p + n) \in Nat /\ SumTo(s, p) <= SumTo(s, p + n)
         /\ AllStay(ks, p, n) => SumTo(s, p + n) = SumTo(s, p) + got
<1> DEFINE t == [k \in 1 .. n |-> Bytes(ks[p + k][2])]
           U == Nat \X TensorFrames
<1>0. keys = SubSeq(ks, p + 1, p + n) /\ got = GotOf(keys)
  BY DEF Gets
<1>1. /\ ks \in Seq(U) /\ Len(ks) \in Nat /\ s \in Seq(Nat) /\ Len(s) = Len(ks)
      /\ \A k \in 1 .. Len(ks) : KeyFits(l, bs, b, ks[k]) /\ s[k] = StayOf(ks[k])
  BY Zenon DEF KeysGood
<1>2. \A k \in 1 .. n : p + k \in 1 .. Len(ks)
  BY <1>1
<1>3. /\ Len(keys) = n /\ keys \in Seq(U)
      /\ \A k \in 1 .. n : keys[k] = ks[p + k]
  <2>1. p + 1 \in 1 .. Len(ks) + 1 /\ p + n \in (p + 1) - 1 .. Len(ks)
    BY <1>1
  <2>2. ((p + n) - (p + 1)) + 1 = n /\ \A k \in 1 .. n : ((p + 1) + k) - 1 = p + k
    OBVIOUS
  <2> HIDE DEF U
  <2> DEFINE v == SubSeq(ks, p + 1, p + n)
  <2>3. /\ v \in Seq(U) /\ Len(v) = n
        /\ \A k \in 1 .. n : v[k] = ks[p + k]
    BY <1>1, <2>1, <2>2, PartHas
  <2>4. keys = v
    BY <1>0
  <2> HIDE DEF v
  <2>5. QED
    BY <2>3, <2>4
<1>4. DOMAIN keys = 1 .. n
  BY <1>3
<1>5. \A k \in 1 .. n : Bytes(ks[p + k][2]) \in Nat
  BY <1>1, <1>2, Zenon DEF KeyFits
<1>6. t \in [1 .. n -> Nat]
  BY <1>5
<1>7. t \in Seq(Nat) /\ Len(t) = n
  <2> HIDE DEF t
  <2>1. QED
    BY <1>6, SeqOfFun
<1>8. [k \in DOMAIN keys |-> Bytes(keys[k][2])] = t
  BY <1>3, <1>4
<1>9. got = Total(t)
  BY <1>0, <1>8 DEF GotOf
<1>10. \A k \in 1 .. n : t[k] = Bytes(ks[p + k][2])
  OBVIOUS
<1> HIDE DEF t, U
<1>11. Total(t) = SumTo(t, n) /\ SumTo(t, n) \in Nat
  BY <1>7, SumFacts DEF Total
<1>12. n = 1 => SumTo(t, n) = Bytes(ks[p + 1][2])
  <2> SUFFICES ASSUME n = 1 PROVE SumTo(t, 1) = Bytes(ks[p + 1][2])
    OBVIOUS
  <2>1. 1 \in 1 .. Len(t) /\ 1 - 1 = 0
    BY <1>7
  <2>2. SumTo(t, 1) = SumTo(t, 0) + t[1] /\ SumTo(t, 0) = 0
    BY <1>7, <2>1, SumFacts
  <2>3. t[1] \in Nat /\ t[1] = Bytes(ks[p + 1][2])
    BY <1>5, <1>10
  <2>4. QED
    BY <2>2, <2>3
<1>13. p \in 0 .. Len(s) /\ p + n \in 0 .. Len(s) /\ p \in 0 .. p + n /\ p + n \in p .. Len(s)
  BY <1>1
<1>14. SumTo(s, p) \in Nat /\ SumTo(s, p + n) \in Nat /\ SumTo(s, p) <= SumTo(s, p + n)
  <2>1. SumTo(s, p) \in Nat /\ SumTo(s, p + n) \in Nat
    BY <1>1, <1>13, SumFacts
  <2>2. SumTo(s, p) <= SumTo(s, p + n)
    BY <1>1, <1>13, SumMonotone
  <2>3. QED
    BY <2>1, <2>2
<1>15. ASSUME AllStay(ks, p, n)
       PROVE  SumTo(s, p + n) = SumTo(s, p) + Total(t)
  <2>1. \A k \in 1 .. n : t[k] = s[p + k]
    <3> SUFFICES ASSUME NEW k \in 1 .. n PROVE t[k] = s[p + k]
      OBVIOUS
    <3>1. s[p + k] = StayOf(ks[p + k])
      BY <1>1, <1>2
    <3>2. Bytes(ks[p + k][2]) \in Nat
      BY <1>5
    <3>3. CASE Bytes(ks[p + k][2]) > 0
      <4>1. ks[p + k][2].stays
        BY <1>15, <3>3, Zenon DEF AllStay
      <4>2. QED
        BY <1>10, <3>1, <4>1 DEF StayOf
    <3>4. CASE Bytes(ks[p + k][2]) = 0
      BY <1>10, <3>1, <3>4 DEF StayOf
    <3>5. QED
      BY <3>2, <3>3, <3>4
  <2>2. (p + n) - p = n
    OBVIOUS
  <2>3. Len(t) = (p + n) - p /\ \A k \in 1 .. (p + n) - p : t[k] = s[p + k]
    BY <1>7, <2>1, <2>2
  <2>4. QED
    BY ZenonT(60), <1>1, <1>7, <1>13, <2>3, SumPart
<1>16. QED
  BY <1>3, <1>4, <1>9, <1>11, <1>12, <1>14, <1>15

\* A rank alone, or a group in which every tensor with bytes stays: nowhere does
\* the loop hold a received tensor that must go while it receives the next.
SinglyHeld == load.group > 1 => load.accumulate /\ ~HasNonResident(Stats(load))

\* What stays of the tensors got from the open batch
StayedOpen == IF gone < made THEN SumTo(StaySizes(Keys(gone + 1)), pos) ELSE 0
\* A tensor being got that will stay
Pending == IF fresh > 0 /\ Staying(Keys(gone + 1)[pos]) THEN fresh ELSE 0

CountsInv ==
    /\ made \in Nat /\ gone \in Nat /\ gone <= made
    /\ pos \in Nat /\ resident \in Nat /\ held \in Nat /\ fresh \in Nat
    /\ gone = made => pos = 0 /\ held = 0 /\ fresh = 0
    /\ fresh > 0 => pos > 0
    /\ phase # "loading" => made = 0 /\ resident = 0
    /\ phase = "loading" => /\ made <= Len(batches)
                            /\ made - gone <= PipelineDepth(size)
                            /\ gone < made => pos <= Len(Keys(gone + 1))
\* What has been left on the device is what the batches behind, and the open one
\* so far, leave there.
ResidentInv ==
    phase = "loading" =>
        /\ load.accumulate =>
              resident + Pending <= Done(load, budgets, gone) + StayedOpen
        /\ ~load.accumulate => resident = 0
\* With a clone there is one copy at a time, of the tensor got last.
ClonesInv ==
    phase = "loading" /\ Params(load).clone =>
        /\ held = 0 \/ fresh = 0
        /\ held + fresh > 0 =>
              pos > 0 /\ held + fresh <= Bytes(Keys(gone + 1)[pos][2])
\* Without one, what is got will stay.
ReceivesInv ==
    phase = "loading" /\ ~Params(load).clone /\ SinglyHeld =>
        /\ held = 0
        /\ fresh > 0 => Staying(Keys(gone + 1)[pos])
MemoryInv == CountsInv /\ ResidentInv /\ ClonesInv /\ ReceivesInv

\* The open batch is one of the plan.
LEMMA OpenFacts ==
  ASSUME PlanInv, phase = "loading", gone \in Nat, gone < Len(batches)
  PROVE  /\ load \in Loads /\ Plannable(load) /\ budgets = Budgets(load)
         /\ batches = Batches(load, Budgets(load)) /\ Len(batches) \in Nat
         /\ KeysGood(load, budgets, gone + 1, Keys(gone + 1))
         /\ Len(Keys(gone + 1)) \in Nat
<1>1. /\ load \in Loads /\ Plannable(load) /\ budgets = Budgets(load)
      /\ batches = Batches(load, budgets)
  BY Zenon DEF PlanInv
<1>2. Len(Batches(load, budgets)) \in Nat
  BY <1>1, StayTotalsFacts
<1>3. gone + 1 \in 1 .. Len(Batches(load, budgets))
  BY <1>1, <1>2
<1>4. Keys(gone + 1) = KeysOf(load, Batches(load, budgets), gone + 1)
  BY <1>1 DEF Keys, KeysOf, NamesRow
<1>5. KeysGood(load, budgets, gone + 1, Keys(gone + 1))
  BY <1>1, <1>3, <1>4, KeysOfBatch
<1>6. Len(Keys(gone + 1)) \in Nat
  BY <1>5, Zenon DEF KeysGood
<1>7. QED
  BY <1>1, <1>2, <1>5, <1>6

\* The invariant is kept when the producer copies a batch,
LEMMA CopyStep ==
  ASSUME PlanInv, MemoryInv, CopyBatch
  PROVE  MemoryInv'
<1>1. /\ phase = "loading" /\ phase' = phase /\ made < Len(batches)
      /\ made - gone < PipelineDepth(size) /\ made' = made + 1
      /\ load' = load /\ size' = size /\ budgets' = budgets /\ batches' = batches
      /\ gone' = gone /\ pos' = pos /\ resident' = resident /\ held' = held /\ fresh' = fresh
  BY DEF CopyBatch, plan
<1>2. CountsInv /\ ResidentInv /\ ClonesInv /\ ReceivesInv
  BY DEF MemoryInv
<1>3. /\ made \in Nat /\ gone \in Nat /\ gone <= made /\ pos \in Nat /\ resident \in Nat
      /\ held \in Nat /\ fresh \in Nat
      /\ gone = made => pos = 0 /\ held = 0 /\ fresh = 0
      /\ fresh > 0 => pos > 0
      /\ gone < made => pos <= Len(Keys(gone + 1))
  BY <1>1, <1>2 DEF CountsInv
<1>4. /\ batches = Batches(load, Budgets(load)) /\ Len(batches) \in Nat /\ load \in Loads
      /\ Plannable(load)
  <2>1. /\ load \in Loads /\ Plannable(load) /\ batches = Batches(load, Budgets(load))
    BY <1>1, Zenon DEF PlanInv
  <2>2. QED
    BY <2>1, StayTotalsFacts
<1>5. /\ Len(Keys(gone + 1)) \in Nat /\ KeysGood(load, budgets, gone + 1, Keys(gone + 1))
  <2>1. gone < Len(batches)
    BY <1>1, <1>3, <1>4
  <2>2. QED
    BY <1>1, <1>3, <2>1, OpenFacts
<1>6. Keys(gone + 1)' = Keys(gone + 1)
  BY <1>1 DEF Keys
<1>7. size \in Int
  <2>1. size = QueueSize(load) /\ load.queue \in Int
    BY <1>1, <1>4, LoadsAssumption DEF PlanInv
  <2>2. Clamped(load) \in Int
    BY <1>4, ClampInverts
  <2>3. QED
    BY <2>1, <2>2 DEF QueueSize
<1>8. CountsInv'
  <2>1. PipelineDepth(size) \in Int /\ PipelineDepth(size)' = PipelineDepth(size)
    BY <1>1, <1>7 DEF PipelineDepth
  <2>2. (made - gone <= PipelineDepth(size))'
    BY <1>1, <1>3, <2>1
  <2>3. (gone < made => pos <= Len(Keys(gone + 1)))'
    <3>1. pos <= Len(Keys(gone + 1))
      BY <1>3, <1>5
    <3>2. QED
      BY <1>1, <1>6, <3>1
  <2>4. (made <= Len(batches))' /\ (gone <= made)' /\ (made \in Nat)' /\ (gone # made)'
    BY <1>1, <1>3, <1>4
  <2>5. /\ (fresh > 0 => pos > 0)'
        /\ (gone \in Nat)' /\ (pos \in Nat)' /\ (resident \in Nat)'
        /\ (held \in Nat)' /\ (fresh \in Nat)'
    BY <1>1, <1>3
  <2>6. phase' = "loading"
    BY <1>1
  <2>7. QED
    BY <2>2, <2>3, <2>4, <2>5, <2>6, Zenon DEF CountsInv
<1>9. ResidentInv'
  <2>1. Pending' = Pending
    BY <1>1, <1>6 DEF Pending, Staying
  <2> DEFINE s == StaySizes(Keys(gone + 1))
             a == SumTo(s, pos)
  <2>2. s \in Seq(Nat) /\ Len(s) = Len(Keys(gone + 1))
    BY <1>5, Zenon DEF KeysGood
  <2>3. StayedOpen' = a /\ (gone < made => StayedOpen = a)
    <3>1. (gone < made)'
      BY <1>1, <1>3
    <3>2. StaySizes(Keys(gone + 1))' = s
      BY <1>6 DEF StaySizes, StayOf
    <3>3. StayedOpen' = SumTo(s, pos)'
      BY <3>1, <3>2 DEF StayedOpen
    <3>4. SumTo(s, pos)' = SumTo(s, pos)
      BY <1>1, <3>2 DEF SumTo
    <3>5. QED
      BY <3>3, <3>4 DEF StayedOpen
  <2>4. a \in Nat
    <3>1. pos \in 0 .. Len(s)
      BY <1>3, <1>5, <2>2
    <3> HIDE DEF s
    <3>2. QED
      BY <2>2, <3>1, SumFacts
  <2>5. StayedOpen \in Nat /\ StayedOpen <= StayedOpen'
    <3>1. CASE gone < made
      <4> HIDE DEF a
      <4>1. QED
        BY <2>3, <2>4, <3>1
    <3>2. CASE ~(gone < made)
      <4>1. StayedOpen = 0
        BY <3>2 DEF StayedOpen
      <4> HIDE DEF a
      <4>2. QED
        BY <2>3, <2>4, <4>1
    <3>3. QED
      BY <3>1, <3>2
  <2>6. Pending \in Nat
    BY <1>3 DEF Pending
  <2>7. Done(load, budgets, gone) \in Nat
    <3>1. (gone + 1) - 1 = gone
      BY <1>3
    <3>2. QED
      BY <1>5, <3>1 DEF KeysGood
  <2>8. Done(load, budgets, gone)' = Done(load, budgets, gone)
    BY <1>1
  <2> HIDE DEF a, s
  <2>9. load.accumulate => resident + Pending <= Done(load, budgets, gone) + StayedOpen
    BY <1>1, <1>2 DEF ResidentInv
  <2>10. (load.accumulate => resident + Pending <= Done(load, budgets, gone) + StayedOpen)'
    <3> DEFINE x == Done(load, budgets, gone)
               y == StayedOpen
               z == StayedOpen'
               w == Pending
    <3>1. /\ x \in Nat /\ y \in Nat /\ y <= z /\ z \in Nat /\ w \in Nat
          /\ load.accumulate => resident + w <= x + y
      BY <2>3, <2>4, <2>5, <2>6, <2>7, <2>9
    <3>2. SUFFICES load.accumulate => resident + w <= x + z
      BY <1>1, <2>1, <2>8
    <3> HIDE DEF x, y, z, w
    <3>3. QED
      BY <1>3, <3>1
  <2>11. (~load.accumulate => resident = 0)'
    BY <1>1, <1>2 DEF ResidentInv
  <2>12. QED
    BY <2>10, <2>11 DEF ResidentInv
<1>10. ClonesInv'
  BY <1>1, <1>2, <1>6 DEF ClonesInv
<1>11. ReceivesInv'
  BY <1>1, <1>2, <1>6 DEF ReceivesInv, Staying, SinglyHeld
<1>12. QED
  BY <1>8, <1>9, <1>10, <1>11 DEF MemoryInv

\* An action that leaves the open batch open
LEMMA OpenStays ==
  ASSUME load' = load, batches' = batches, gone' = gone
  PROVE  /\ Keys(gone + 1)' = Keys(gone + 1)
         /\ StaySizes(Keys(gone + 1))' = StaySizes(Keys(gone + 1))
<1>1. Keys(gone + 1)' = Keys(gone + 1)
  BY DEF Keys
<1>2. QED
  BY <1>1 DEF StaySizes, StayOf

\* when a tensor or a run of them is got,
LEMMA GetStep ==
  ASSUME PlanInv, MemoryInv, NEW n \in 1 .. load.runTensors, GetTensor(n)
  PROVE  MemoryInv'
<1> DEFINE K == Keys(gone + 1)
           s == StaySizes(K)
           keys == SubSeq(K, pos + 1, pos + n)
           got == GotOf(keys)
           last == K[pos + n]
<1>1. /\ phase = "loading" /\ gone < made /\ fresh = 0
      /\ pos + n <= Len(K) /\ IsRun(keys)
      /\ pos' = pos + n
      /\ fresh' = IF load.borrowed THEN 0 ELSE got
      /\ held' = IF load.group > 1 /\ got > 0 THEN held ELSE 0
      /\ load' = load /\ size' = size /\ budgets' = budgets /\ batches' = batches
      /\ phase' = phase /\ made' = made /\ gone' = gone /\ resident' = resident
  BY DEF GetTensor, GotOf, plan
<1>2. CountsInv /\ ResidentInv /\ ClonesInv /\ ReceivesInv
  BY DEF MemoryInv
<1>3. /\ made \in Nat /\ gone \in Nat /\ pos \in Nat /\ resident \in Nat
      /\ held \in Nat /\ made <= Len(batches) /\ made - gone <= PipelineDepth(size)
  BY <1>1, <1>2 DEF CountsInv
<1>4. /\ load \in Loads /\ Plannable(load) /\ batches = Batches(load, Budgets(load))
      /\ Len(batches) \in Nat
  <2>1. /\ load \in Loads /\ Plannable(load) /\ batches = Batches(load, Budgets(load))
    BY <1>1, Zenon DEF PlanInv
  <2>2. QED
    BY <2>1, StayTotalsFacts
<1>5. KeysGood(load, budgets, gone + 1, K) /\ Len(K) \in Nat
  <2>1. gone < Len(batches)
    BY <1>1, <1>3, <1>4
  <2>2. phase = "loading" /\ gone \in Nat
    BY <1>1, <1>3
  <2>3. KeysGood(load, budgets, gone + 1, Keys(gone + 1)) /\ Len(Keys(gone + 1)) \in Nat
    BY <2>1, <2>2, OpenFacts
  <2>4. QED
    BY <2>3
<1>6. n \in Nat \ {0}
  <2>1. n \in Int /\ 1 <= n
    OBVIOUS
  <2>2. QED
    BY <2>1
<1>7. Keys(gone + 1)' = K /\ StaySizes(Keys(gone + 1))' = s
  BY <1>1, OpenStays
<1>8. /\ got \in Nat /\ Len(keys) = n /\ DOMAIN keys = 1 .. n
      /\ \A k \in 1 .. n : keys[k] = K[pos + k]
      /\ n = 1 => got = Bytes(K[pos + 1][2])
      /\ SumTo(s, pos) \in Nat /\ SumTo(s, pos + n) \in Nat
      /\ SumTo(s, pos) <= SumTo(s, pos + n)
      /\ AllStay(K, pos, n) => SumTo(s, pos + n) = SumTo(s, pos) + got
  <2>1. pos \in Nat /\ pos + n <= Len(K)
    BY <1>1, <1>3
  <2>2. Gets(K, pos, n, keys, got) /\ s = StaySizes(K)
    BY DEF Gets
  <2> HIDE DEF K, keys, s, got
  <2>3. KeysGood(load, budgets, gone + 1, K)
    BY <1>5
  <2>4. got \in Nat /\ Len(keys) = n /\ DOMAIN keys = 1 .. n
    <3>1. got \in Nat
      BY <1>6, <2>1, <2>2, <2>3, GotFacts
    <3>2. Len(keys) = n
      BY <1>6, <2>1, <2>2, <2>3, GotFacts
    <3>3. DOMAIN keys = 1 .. n
      BY <1>6, <2>1, <2>2, <2>3, GotFacts
    <3>4. QED
      BY <3>1, <3>2, <3>3
  <2>5. \A k \in 1 .. n : keys[k] = K[pos + k]
    BY <1>6, <2>1, <2>2, <2>3, GotFacts
  <2>6. n = 1 => got = Bytes(K[pos + 1][2])
    BY <1>6, <2>1, <2>2, <2>3, GotFacts
  <2>7. /\ SumTo(s, pos) \in Nat /\ SumTo(s, pos + n) \in Nat
        /\ SumTo(s, pos) <= SumTo(s, pos + n)
    BY <1>6, <2>1, <2>2, <2>3, GotFacts
  <2>8. AllStay(K, pos, n) => SumTo(s, pos + n) = SumTo(s, pos) + got
    BY <1>6, <2>1, <2>2, <2>3, GotFacts
  <2>9. QED
    BY <2>4, <2>5, <2>6, <2>7, <2>8
<1> HIDE DEF K, s, keys, got, last
<1>9. \A k \in 1 .. n : KeyFits(load, budgets, gone + 1, K[pos + k])
  <2> SUFFICES ASSUME NEW k \in 1 .. n
               PROVE  KeyFits(load, budgets, gone + 1, K[pos + k])
    OBVIOUS
  <2>1. pos + k \in 1 .. Len(K)
    BY <1>1, <1>3, <1>5, <1>6
  <2>2. QED
    BY <1>5, <2>1, Zenon DEF KeysGood
<1>10. fresh' \in Nat /\ held' \in Nat /\ pos' \in Nat /\ pos' > 0
  BY <1>1, <1>3, <1>6, <1>8
<1>11. n > 1 => /\ Coalesces
                /\ \A k \in 1 .. n : Bytes(K[pos + k][2]) > 0
  <2> SUFFICES ASSUME n > 1
               PROVE  Coalesces /\ \A k \in 1 .. n : Bytes(K[pos + k][2]) > 0
    OBVIOUS
  <2>1. Coalesces /\ \A k \in DOMAIN keys : Bytes(keys[k][2]) > 0
    BY <1>1, <1>8 DEF IsRun
  <2>2. QED
    BY <1>8, <2>1
<1>12. CountsInv'
  <2>1. (pos <= Len(Keys(gone + 1)))'
    BY <1>1, <1>7
  <2>2. /\ (made <= Len(batches))' /\ (made - gone <= PipelineDepth(size))'
        /\ (gone < made)' /\ (gone <= made)' /\ (gone # made)'
    BY <1>1, <1>3 DEF PipelineDepth
  <2>3. /\ (made \in Nat)' /\ (gone \in Nat)' /\ (resident \in Nat)' /\ phase' = "loading"
    BY <1>1, <1>3
  <2>4. QED
    BY <1>10, <2>1, <2>2, <2>3, Zenon DEF CountsInv
<1>13. \A k \in 1 .. n :
          Bytes(K[pos + k][2]) > 0 /\ ~HasNonResident(Stats(load)) => K[pos + k][2].stays
  BY <1>9 DEF KeyFits
<1>14. Pending' = (IF fresh' > 0 /\ load.accumulate /\ last[2].stays THEN fresh' ELSE 0)
  BY <1>1, <1>7 DEF Pending, Staying, last
<1>15. ResidentInv'
  <2>1. ASSUME load.accumulate
        PROVE  resident + Pending' <= Done(load, budgets, gone) + SumTo(s, pos + n)
    <3> DEFINE x == Done(load, budgets, gone)
               y == SumTo(s, pos)
               z == SumTo(s, pos + n)
               w == Pending'
    <3>1. resident <= x + y
      <4>1. Pending = 0
        BY <1>1 DEF Pending
      <4>2. StayedOpen = y
        BY <1>1 DEF StayedOpen, s, K
      <4>3. resident + Pending <= x + StayedOpen
        BY <1>1, <1>2, <2>1 DEF ResidentInv
      <4>4. QED
        BY <1>3, <4>1, <4>2, <4>3
    <3>2. x \in Nat
      <4>1. (gone + 1) - 1 = gone
        BY <1>3
      <4>2. QED
        BY <1>5, <4>1 DEF KeysGood
    <3>3. w \in Nat /\ w <= z - y
      <4>1. CASE w = 0
        <5> HIDE DEF w
        <5>1. QED
          BY <1>8, <4>1
      <4>2. CASE w # 0
        <5>1. fresh' > 0 /\ last[2].stays /\ w = fresh'
          BY <1>14, <4>2
        <5>2. w = got /\ got > 0
          BY <1>1, <5>1
        <5>3. AllStay(K, pos, n)
          <6>1. CASE n = 1
            <7>1. \A k \in 1 .. n : pos + k = pos + n
              BY <6>1
            <7>2. QED
              BY <5>1, <7>1 DEF last, AllStay
          <6>2. CASE n > 1
            <7>1. ~HasNonResident(Stats(load))
              BY <1>11, <2>1, <6>2 DEF Coalesces
            <7>2. QED
              BY <1>13, <7>1 DEF AllStay
          <6>3. QED
            BY <1>6, <6>1, <6>2
        <5>4. z = y + got
          BY <1>8, <5>3
        <5> HIDE DEF w
        <5>5. QED
          BY <1>8, <5>2, <5>4
      <4>3. QED
        BY <4>1, <4>2
    <3>4. y \in Nat /\ z \in Nat
      BY <1>8
    <3> HIDE DEF x, y, z, w
    <3>5. resident + w <= x + z
      BY <1>3, <3>1, <3>2, <3>3, <3>4
    <3>6. QED
      BY <3>5 DEF x, z, w
  <2>2. StayedOpen' = SumTo(s, pos + n)
    <3>1. (gone < made)'
      BY <1>1
    <3>2. StayedOpen' = SumTo(StaySizes(Keys(gone + 1)), pos)'
      BY <3>1 DEF StayedOpen
    <3>3. SumTo(StaySizes(Keys(gone + 1)), pos)' = SumTo(s, pos + n)
      BY <1>1, <1>7 DEF SumTo
    <3>4. QED
      BY <3>2, <3>3
  <2>3. (load.accumulate => resident + Pending <= Done(load, budgets, gone) + StayedOpen)'
    BY <1>1, <2>1, <2>2
  <2>4. (~load.accumulate => resident = 0)'
    BY <1>1, <1>2 DEF ResidentInv
  <2>5. QED
    BY <2>3, <2>4 DEF ResidentInv
<1>16. ClonesInv'
  <2> SUFFICES ASSUME Params(load).clone
               PROVE  /\ held' = 0 \/ fresh' = 0
                      /\ held' + fresh' > 0 =>
                           /\ pos' > 0
                           /\ held' + fresh' <= Bytes(K[pos'][2])
    BY <1>1, <1>7 DEF ClonesInv
  <2>1. load.group = 1
    BY DEF Params, NeedsClone
  <2>2. n = 1
    <3>1. ~Coalesces
      BY <2>1 DEF Coalesces
    <3>2. QED
      BY <1>6, <1>11, <3>1
  <2>3. held' = 0
    BY <1>1, <2>1
  <2>4. pos' = pos + 1 /\ got = Bytes(K[pos + 1][2])
    BY <1>1, <1>8, <2>2
  <2>5. fresh' <= Bytes(K[pos'][2]) /\ Bytes(K[pos'][2]) \in Nat
    BY <1>1, <1>8, <2>4
  <2> DEFINE h == held'
             f == fresh'
             b == Bytes(K[pos'][2])
  <2>6. h = 0 /\ f \in Nat /\ b \in Nat /\ f <= b
    BY <1>10, <2>3, <2>5
  <2> HIDE DEF h, f, b
  <2>7. (h = 0 \/ f = 0) /\ h + f <= b
    BY <2>6
  <2>8. QED
    BY <1>10, <2>7 DEF h, f, b
<1>17. ReceivesInv'
  <2> SUFFICES ASSUME ~Params(load).clone, SinglyHeld
               PROVE  /\ held' = 0
                      /\ fresh' > 0 => load.accumulate /\ last[2].stays
    <3>1. SinglyHeld' = SinglyHeld
      BY <1>1 DEF SinglyHeld
    <3>2. (Staying(Keys(gone + 1)[pos]))' = (load.accumulate /\ last[2].stays)
      BY <1>1, <1>7 DEF Staying, last
    <3>3. QED
      BY <1>1, <3>1, <3>2 DEF ReceivesInv
  <2>1. held' = 0
    <3>1. held = 0
      BY <1>1, <1>2 DEF ReceivesInv
    <3>2. QED
      BY <1>1, <3>1
  <2>2. ASSUME fresh' > 0 PROVE load.accumulate /\ last[2].stays
    <3>1. ~load.borrowed /\ got > 0
      BY <1>1, <2>2
    <3>2. load.accumulate /\ ~HasNonResident(Stats(load))
      <4>1. CASE load.group = 1
        BY <3>1, <4>1 DEF Params, NeedsClone
      <4>2. CASE load.group > 1
        BY <4>2 DEF SinglyHeld
      <4>3. load.group \in Nat \ {0}
        BY <1>4, ParamsOfLoad
      <4>4. QED
        BY <4>1, <4>2, <4>3
    <3>3. Bytes(last[2]) > 0
      <4>1. CASE n = 1
        BY <1>8, <3>1, <4>1 DEF last
      <4>2. CASE n > 1
        <5>1. n \in 1 .. n
          BY <1>6
        <5>2. QED
          BY <1>11, <4>2, <5>1 DEF last
      <4>3. QED
        BY <1>6, <4>1, <4>2
    <3>4. n \in 1 .. n
      BY <1>6
    <3>5. QED
      BY <1>13, <3>2, <3>3, <3>4 DEF last
  <2>3. QED
    BY <2>1, <2>2
<1>18. QED
  BY <1>12, <1>15, <1>16, <1>17 DEF MemoryInv

\* when it is yielded,
LEMMA YieldStep ==
  ASSUME PlanInv, MemoryInv, Yield
  PROVE  MemoryInv'
<1> DEFINE K == Keys(gone + 1)
           last == K[pos]
           s == StaySizes(K)
<1>1. /\ phase = "loading" /\ fresh > 0 /\ fresh' = 0
      /\ Staying(last) => resident' = resident + fresh /\ held' = 0
      /\ ~Staying(last) => held' = fresh /\ resident' = resident
      /\ load' = load /\ size' = size /\ budgets' = budgets /\ batches' = batches
      /\ phase' = phase /\ made' = made /\ gone' = gone /\ pos' = pos
  BY DEF Yield, plan
<1>2. CountsInv /\ ResidentInv /\ ClonesInv /\ ReceivesInv
  BY DEF MemoryInv
<1>3. /\ made \in Nat /\ gone \in Nat /\ pos \in Nat /\ resident \in Nat
      /\ held \in Nat /\ fresh \in Nat /\ gone < made /\ pos > 0
      /\ made <= Len(batches) /\ made - gone <= PipelineDepth(size)
      /\ pos <= Len(K)
  BY <1>1, <1>2 DEF CountsInv
<1>4. Keys(gone + 1)' = K /\ StaySizes(Keys(gone + 1))' = s
  BY <1>1, OpenStays
<1> HIDE DEF K, last, s
<1>5. resident' \in Nat /\ held' \in Nat
  BY <1>1, <1>3
<1>6. CountsInv'
  <2>1. (pos <= Len(Keys(gone + 1)))'
    BY <1>1, <1>3, <1>4
  <2>2. /\ (made <= Len(batches))' /\ (made - gone <= PipelineDepth(size))'
        /\ (gone < made)' /\ (gone <= made)' /\ (gone # made)'
    BY <1>1, <1>3 DEF PipelineDepth
  <2>3. /\ (made \in Nat)' /\ (gone \in Nat)' /\ (pos \in Nat)' /\ phase' = "loading"
        /\ (fresh \in Nat)' /\ (pos > 0)'
    BY <1>1, <1>3
  <2>4. QED
    BY <1>5, <2>1, <2>2, <2>3, Zenon DEF CountsInv
<1>7. Pending = (IF Staying(last) THEN fresh ELSE 0) /\ Pending' = 0
  BY <1>1 DEF Pending, last, K
<1>8. ResidentInv'
  <2>1. StayedOpen' = StayedOpen
    <3>1. (gone < made)' /\ gone < made
      BY <1>1, <1>3
    <3>2. StayedOpen' = SumTo(StaySizes(Keys(gone + 1)), pos)'
      BY <3>1 DEF StayedOpen
    <3>3. SumTo(StaySizes(Keys(gone + 1)), pos)' = SumTo(s, pos)
      BY <1>1, <1>4 DEF SumTo
    <3>4. StayedOpen = SumTo(s, pos)
      BY <3>1 DEF StayedOpen, s, K
    <3>5. QED
      BY <3>2, <3>3, <3>4
  <2>2. Done(load, budgets, gone)' = Done(load, budgets, gone)
    BY <1>1
  <2>3. load.accumulate => resident' + Pending' = resident + Pending
    <3>1. CASE Staying(last)
      BY <1>1, <1>3, <1>7, <3>1
    <3>2. CASE ~Staying(last)
      BY <1>1, <1>3, <1>7, <3>2
    <3>3. QED
      BY <3>1, <3>2
  <2>4. load.accumulate => resident + Pending <= Done(load, budgets, gone) + StayedOpen
    BY <1>1, <1>2 DEF ResidentInv
  <2>5. (load.accumulate => resident + Pending <= Done(load, budgets, gone) + StayedOpen)'
    <3> DEFINE x == Done(load, budgets, gone)
    <3>1. x' = x
      BY <2>2
    <3> HIDE DEF x
    <3>2. load.accumulate => resident + Pending <= x + StayedOpen
      BY <2>4 DEF x
    <3>3. load.accumulate => resident' + Pending' <= x + StayedOpen'
      BY <2>1, <2>3, <3>2
    <3>4. (load.accumulate => resident + Pending <= x + StayedOpen)'
      BY <1>1, <3>1, <3>3
    <3>5. QED
      BY <3>4 DEF x
  <2>6. (~load.accumulate => resident = 0)'
    <3>1. ~load.accumulate => resident = 0 /\ ~Staying(last)
      BY <1>1, <1>2 DEF ResidentInv, Staying
    <3>2. QED
      BY <1>1, <3>1
  <2>7. QED
    BY <2>5, <2>6 DEF ResidentInv
<1>9. ClonesInv'
  <2> SUFFICES ASSUME Params(load).clone
               PROVE  /\ held' = 0 \/ fresh' = 0
                      /\ held' + fresh' > 0 =>
                           pos' > 0 /\ held' + fresh' <= Bytes(last[2])
    BY <1>1, <1>4 DEF ClonesInv, last
  <2> DEFINE b == Bytes(last[2])
  <2>1. held = 0 /\ held + fresh <= b
    <3>1. /\ held = 0 \/ fresh = 0
          /\ held + fresh > 0 => held + fresh <= b
      BY <1>1, <1>2 DEF ClonesInv, last, K
    <3>2. fresh # 0
      BY <1>1
    <3> HIDE DEF b
    <3>3. QED
      BY <1>1, <1>3, <3>1, <3>2
  <2> HIDE DEF b
  <2>2. held + fresh = fresh
    BY <1>3, <2>1
  <2>3. fresh <= b
    BY <2>1, <2>2
  <2> DEFINE h == held'
             f == fresh'
  <2>4. f = 0 /\ h \in Nat /\ (h = 0 \/ h = fresh)
    BY <1>1, <1>5
  <2> HIDE DEF h, f
  <2>5. h + f = h
    BY <2>4
  <2>6. h + f > 0 => h + f <= b
    <3>1. CASE h = 0
      BY <2>5, <3>1
    <3>2. CASE h = fresh
      BY <2>3, <2>5, <3>2
    <3>3. QED
      BY <2>4, <3>1, <3>2
  <2>7. pos' > 0
    BY <1>1, <1>3
  <2>8. QED
    BY <2>4, <2>6, <2>7 DEF h, f, b
<1>10. ReceivesInv'
  <2> SUFFICES ASSUME ~Params(load).clone, SinglyHeld
               PROVE  held' = 0
    BY <1>1 DEF ReceivesInv, SinglyHeld
  <2>1. Staying(last)
    BY <1>1, <1>2 DEF ReceivesInv, last, K
  <2>2. QED
    BY <1>1, <2>1
<1>11. QED
  BY <1>6, <1>8, <1>9, <1>10 DEF MemoryInv

\* when a batch is closed,
LEMMA CloseStep ==
  ASSUME PlanInv, PlanInv', MemoryInv, CloseBatch
  PROVE  MemoryInv'
<1> DEFINE K == Keys(gone + 1)
           s == StaySizes(K)
<1>1. /\ phase = "loading" /\ gone < made /\ fresh = 0 /\ pos = Len(K)
      /\ gone' = gone + 1 /\ pos' = 0 /\ held' = 0
      /\ load' = load /\ size' = size /\ budgets' = budgets /\ batches' = batches
      /\ phase' = phase /\ made' = made /\ resident' = resident /\ fresh' = fresh
  BY DEF CloseBatch, plan
<1>2. CountsInv /\ ResidentInv
  BY DEF MemoryInv
<1>3. /\ made \in Nat /\ gone \in Nat /\ pos \in Nat /\ resident \in Nat
      /\ made <= Len(batches) /\ made - gone <= PipelineDepth(size)
  BY <1>1, <1>2 DEF CountsInv
<1>4. /\ load \in Loads /\ Plannable(load) /\ batches = Batches(load, Budgets(load))
      /\ Len(batches) \in Nat /\ size \in Int
  <2>1. /\ load \in Loads /\ Plannable(load) /\ batches = Batches(load, Budgets(load))
    BY <1>1, Zenon DEF PlanInv
  <2>2. size = QueueSize(load) /\ load.queue \in Int
    BY <1>1, <2>1, LoadsAssumption DEF PlanInv
  <2>3. Clamped(load) \in Int
    BY <2>1, ClampInverts
  <2>4. QED
    BY <2>1, <2>2, <2>3, StayTotalsFacts DEF QueueSize
<1>5. KeysGood(load, budgets, gone + 1, K)
  <2>1. gone < Len(batches)
    BY <1>1, <1>3, <1>4
  <2>2. QED
    BY <1>1, <1>3, <2>1, OpenFacts
<1>6. PipelineDepth(size) \in Int /\ PipelineDepth(size)' = PipelineDepth(size)
  BY <1>1, <1>4 DEF PipelineDepth
<1>7. /\ (gone \in Nat)' /\ (made \in Nat)' /\ (gone <= made)'
      /\ (made - gone <= PipelineDepth(size))' /\ (made <= Len(batches))'
  <2>1. gone + 1 \in Nat /\ gone + 1 <= made /\ made - (gone + 1) <= PipelineDepth(size)
    BY <1>1, <1>3, <1>6
  <2>2. QED
    BY <1>1, <1>3, <1>6, <2>1
\* The next batch, if it has been made
<1>8. gone' < made' =>
        /\ (Len(Keys(gone + 1)) \in Nat)'
        /\ (StaySizes(Keys(gone + 1)) \in Seq(Nat))'
  <2> SUFFICES ASSUME gone' < made'
               PROVE  /\ (Len(Keys(gone + 1)) \in Nat)'
                      /\ (StaySizes(Keys(gone + 1)) \in Seq(Nat))'
    OBVIOUS
  <2>1. (gone \in Nat)' /\ (gone < Len(batches))' /\ (phase = "loading")' /\ PlanInv'
    BY <1>1, <1>3, <1>4, <1>7
  <2>2. KeysGood(load, budgets, gone + 1, Keys(gone + 1))'
    BY <2>1, OpenFacts, PTL
  <2>3. QED
    BY <2>2, Zenon DEF KeysGood
<1>9. CountsInv'
  <2>1. gone' < made' => (pos <= Len(Keys(gone + 1)))'
    BY <1>1, <1>8
  <2>2. /\ (pos \in Nat)' /\ (resident \in Nat)' /\ (held \in Nat)' /\ (fresh \in Nat)'
        /\ pos' = 0 /\ held' = 0 /\ fresh' = 0 /\ ~(fresh' > 0) /\ phase' = "loading"
    BY <1>1, <1>3
  <2>3. QED
    BY <1>7, <2>1, <2>2, Zenon DEF CountsInv
<1> DEFINE x == Done(load, budgets, gone)
           z == Done(load, budgets, gone + 1)
<1>10. /\ s \in Seq(Nat) /\ Len(s) = Len(K) /\ Len(K) \in Nat
       /\ x \in Nat /\ z = x + Total(s)
  <2>1. (gone + 1) - 1 = gone
    BY <1>3
  <2> HIDE DEF K, s, x, z
  <2>2. KeysGood(load, budgets, gone + 1, K) /\ s = StaySizes(K)
    BY <1>5 DEF s
  <2>3. QED
    BY <2>1, <2>2 DEF KeysGood, x, z
<1>11. ResidentInv'
  <2>1. load.accumulate => resident <= z
    <3> SUFFICES ASSUME load.accumulate PROVE resident <= z
      OBVIOUS
    <3>1. StayedOpen = Total(s)
      BY <1>1, <1>10 DEF StayedOpen, Total
    <3>2. Pending = 0
      BY <1>1 DEF Pending
    <3>3. resident + Pending <= x + StayedOpen
      BY <1>1, <1>2 DEF ResidentInv
    <3> HIDE DEF s, x, z
    <3>4. QED
      BY <1>3, <1>10, <3>1, <3>2, <3>3
  <2>2. StayedOpen' = 0
    <3>1. CASE gone' < made'
      <4>1. StayedOpen' = SumTo(StaySizes(Keys(gone + 1)), pos)'
        BY <3>1 DEF StayedOpen
      <4>2. SumTo(StaySizes(Keys(gone + 1)), pos)' = SumTo(StaySizes(Keys(gone + 1))', 0)
        BY <1>1 DEF SumTo
      <4>3. StaySizes(Keys(gone + 1))' \in Seq(Nat)
        BY <1>8, <3>1
      <4>4. SumTo(StaySizes(Keys(gone + 1))', 0) = 0
        BY <4>3, SumFacts
      <4>5. QED
        BY <4>1, <4>2, <4>4
    <3>2. CASE ~(gone' < made')
      BY <3>2 DEF StayedOpen
    <3>3. QED
      BY <3>1, <3>2
  <2>3. Pending' = 0
    BY <1>1 DEF Pending
  <2>4. Done(load, budgets, gone)' = z
    BY <1>1
  <2>5. z \in Nat
    <3>1. Total(s) \in Nat
      <4> HIDE DEF s, x, z
      <4>1. Len(s) \in 0 .. Len(s)
        BY <1>10
      <4>2. QED
        BY <1>10, <4>1, SumFacts DEF Total
    <3> HIDE DEF s, x, z
    <3>2. QED
      BY <1>10, <3>1
  <2>6. (load.accumulate => resident + Pending <= Done(load, budgets, gone) + StayedOpen)'
    <3> DEFINE w == Done(load, budgets, gone)
    <3>1. w' = z
      BY <2>4
    <3> HIDE DEF w, z
    <3>2. load.accumulate => resident + 0 <= z + 0
      BY <1>3, <2>1, <2>5
    <3>3. (load.accumulate => resident + Pending <= w + StayedOpen)'
      BY <1>1, <2>2, <2>3, <3>1, <3>2
    <3>4. QED
      BY <3>3 DEF w
  <2>7. (~load.accumulate => resident = 0)'
    BY <1>1, <1>2 DEF ResidentInv
  <2>8. QED
    BY <2>6, <2>7 DEF ResidentInv
<1>12. ClonesInv'
  <2>1. held' = 0 /\ fresh' = 0 /\ ~(held' + fresh' > 0)
    BY <1>1
  <2>2. QED
    BY <2>1 DEF ClonesInv
<1>13. ReceivesInv'
  <2>1. held' = 0 /\ ~(fresh' > 0)
    BY <1>1
  <2>2. QED
    BY <2>1 DEF ReceivesInv
<1>14. QED
  BY <1>9, <1>11, <1>12, <1>13 DEF MemoryInv

\* and when the batches are planned.
LEMMA CreateStep ==
  ASSUME PlanInv, PlanInv', MemoryInv, CreateBatches
  PROVE  MemoryInv'
<1>1. /\ phase = "new" /\ phase' \in {"loading", "refused"}
      /\ load' = load /\ made' = made /\ gone' = gone /\ pos' = pos
      /\ resident' = resident /\ held' = held /\ fresh' = fresh
  BY Zenon DEF CreateBatches
<1>2. made = 0 /\ gone = 0 /\ pos = 0 /\ resident = 0 /\ held = 0 /\ fresh = 0
  <2>1. CountsInv
    BY DEF MemoryInv
  <2>2. made = 0 /\ resident = 0 /\ gone \in Nat /\ gone <= made
    BY <1>1, <2>1 DEF CountsInv
  <2>3. gone = made
    BY <2>2
  <2>4. QED
    BY <2>1, <2>2, <2>3 DEF CountsInv
<1>3. phase' = "loading" =>
        /\ load \in Loads /\ Plannable(load) /\ budgets' = Budgets(load)
        /\ batches' = Batches(load, Budgets(load))
        /\ size' = QueueSize(load)
  <2>1. PlanInv' => (phase = "loading" =>
            /\ load \in Loads /\ Plannable(load) /\ budgets = Budgets(load)
            /\ batches = Batches(load, Budgets(load)) /\ size = QueueSize(load))'
    BY Zenon DEF PlanInv
  <2>2. QED
    BY <1>1, <2>1
<1>4. phase' = "loading" =>
        /\ Len(batches') \in Nat /\ size' \in Int
        /\ Done(load, budgets', 0) = 0
  <2> SUFFICES ASSUME phase' = "loading"
               PROVE  /\ Len(batches') \in Nat /\ size' \in Int
                      /\ Done(load, budgets', 0) = 0
    OBVIOUS
  <2>1. load.queue \in Int
    BY <1>3, LoadsAssumption
  <2>2. Clamped(load) \in Int
    BY <1>3, ClampInverts
  <2>3. Len(batches') \in Nat /\ StayTotals(load, budgets') \in Seq(Nat)
    BY <1>3, StayTotalsFacts
  <2>4. Done(load, budgets', 0) = 0
    BY <2>3, SumFacts DEF Done
  <2>5. QED
    BY <1>3, <2>1, <2>2, <2>3, <2>4 DEF QueueSize
<1>5. CountsInv'
  <2>1. phase' = "loading" => (made <= Len(batches) /\ made - gone <= PipelineDepth(size))'
    <3> SUFFICES ASSUME phase' = "loading"
                 PROVE  0 <= Len(batches') /\ 0 <= PipelineDepth(size')
      BY <1>1, <1>2
    <3>1. QED
      BY <1>4 DEF PipelineDepth
  <2>2. /\ made' = 0 /\ gone' = 0 /\ pos' = 0 /\ resident' = 0 /\ held' = 0 /\ fresh' = 0
    BY <1>1, <1>2
  <2>3. QED
    BY <2>1, <2>2 DEF CountsInv
<1>6. ResidentInv'
  <2>1. StayedOpen' = 0 /\ Pending' = 0
    BY <1>1, <1>2 DEF StayedOpen, Pending
  <2>2. phase' = "loading" => Done(load, budgets, gone)' = 0
    BY <1>1, <1>2, <1>4
  <2>3. resident' = 0
    BY <1>1, <1>2
  <2>4. QED
    BY <2>1, <2>2, <2>3 DEF ResidentInv
<1>7. ClonesInv' /\ ReceivesInv'
  <2>1. held' = 0 /\ fresh' = 0 /\ ~(held' + fresh' > 0) /\ ~(fresh' > 0)
    BY <1>1, <1>2
  <2>2. QED
    BY <2>1 DEF ClonesInv, ReceivesInv
<1>8. QED
  BY <1>5, <1>6, <1>7 DEF MemoryInv

\* A step keeps the invariant.
LEMMA MemoryStep == PlanInv /\ PlanInv' /\ MemoryInv /\ [Next]_vars => MemoryInv'
<1> SUFFICES ASSUME PlanInv, PlanInv', MemoryInv, [Next]_vars PROVE MemoryInv'
  OBVIOUS
<1>1. CASE CreateBatches
  BY <1>1, CreateStep
<1>2. CASE CopyBatch
  BY <1>2, CopyStep
<1>3. CASE \E n \in 1 .. load.runTensors : GetTensor(n)
  <2>1. PICK n \in 1 .. load.runTensors : GetTensor(n)
    BY <1>3
  <2>2. QED
    BY <2>1, GetStep
<1>4. CASE Yield
  BY <1>4, YieldStep
<1>5. CASE CloseBatch
  BY <1>5, CloseStep
<1>6. CASE UNCHANGED vars
  <2>1. /\ load' = load /\ size' = size /\ budgets' = budgets /\ batches' = batches
        /\ phase' = phase /\ made' = made /\ gone' = gone /\ pos' = pos
        /\ resident' = resident /\ held' = held /\ fresh' = fresh
    BY <1>6 DEF vars, plan
  <2>2. Keys(gone + 1)' = Keys(gone + 1)
        /\ StaySizes(Keys(gone + 1))' = StaySizes(Keys(gone + 1))
    BY <2>1, OpenStays
  <2>3. CountsInv'
    BY <2>1, <2>2 DEF MemoryInv, CountsInv, PipelineDepth
  <2>4. Pending' = Pending /\ StayedOpen' = StayedOpen
    <3>1. Pending' = Pending
      BY <2>1, <2>2 DEF Pending, Staying
    <3>2. SumTo(StaySizes(Keys(gone + 1)), pos)' = SumTo(StaySizes(Keys(gone + 1)), pos)
      BY <2>1, <2>2 DEF SumTo
    <3>3. QED
      BY <2>1, <3>1, <3>2 DEF StayedOpen
  <2>5. Done(load, budgets, gone)' = Done(load, budgets, gone)
    BY <2>1
  <2>6. ResidentInv'
    BY <2>1, <2>4, <2>5 DEF MemoryInv, ResidentInv
  <2>7. ClonesInv' /\ ReceivesInv'
    BY <2>1, <2>2 DEF MemoryInv, ClonesInv, ReceivesInv, SinglyHeld, Staying
  <2>8. QED
    BY <2>3, <2>6, <2>7 DEF MemoryInv
<1>7. QED
  BY <1>1, <1>2, <1>3, <1>4, <1>5, <1>6, Zenon DEF Next

\* In every reachable state the memory in use is what the plan says.
LEMMA MemoryInvHolds == Spec => []MemoryInv
<1>1. Init => MemoryInv
  <2> SUFFICES ASSUME Init PROVE MemoryInv
    OBVIOUS
  <2>1. /\ phase = "new" /\ made = 0 /\ gone = 0 /\ pos = 0
        /\ resident = 0 /\ held = 0 /\ fresh = 0
    BY DEF Init
  <2>2. QED
    BY <2>1 DEF MemoryInv, CountsInv, ResidentInv, ClonesInv, ReceivesInv
<1>2. QED
  BY <1>1, PlanInvHolds, MemoryStep, PTL DEF Spec

\* The bytes the budget is for, when they are all in use
LEMMA WithinBudgetInv == PlanInv /\ MemoryInv /\ SinglyHeld => WithinBudget
<1> SUFFICES ASSUME PlanInv, MemoryInv, SinglyHeld, phase = "loading", load.limited,
                    NEW r \in 1 .. load.group
             PROVE  load.fixed + resident + held + fresh + LiveBuffers(r) <= load.memory
  BY DEF WithinBudget
<1> DEFINE n == made - gone
           y == [k \in 1 .. n |-> Cost(batches[gone + k][r])]
           K == Keys(gone + 1)
           c == Params(load).clone
           R == IF c THEN resident ELSE resident + fresh
           T == IF c THEN held + fresh ELSE 0
           s == StaySizes(K)
           x == Done(load, budgets, gone)
           z == Done(load, budgets, gone + 1)
<1>1. /\ load \in Loads /\ Plannable(load) /\ budgets = Budgets(load)
      /\ batches = Batches(load, budgets) /\ size = QueueSize(load)
  BY Zenon DEF PlanInv
<1>2. /\ made \in Nat /\ gone \in Nat /\ gone <= made /\ pos \in Nat
      /\ resident \in Nat /\ held \in Nat /\ fresh \in Nat
      /\ gone = made => pos = 0 /\ held = 0 /\ fresh = 0
      /\ made <= Len(batches) /\ n <= PipelineDepth(size)
      /\ gone < made => pos <= Len(K)
  BY DEF MemoryInv, CountsInv
<1>3. n \in Nat /\ gone + n = made /\ (n = 0 <=> gone = made) /\ (n > 0 <=> gone < made)
  BY <1>2
<1>4. n <= Depth(load)
  <2>1. size = Clamped(load) /\ Clamped(load) \in Int
    BY <1>1, ClampInverts DEF QueueSize
  <2>2. PipelineDepth(size) <= Depth(load) /\ Depth(load) \in Int /\ PipelineDepth(size) \in Int
    BY <2>1 DEF Depth, LoadDepth, PipelineDepth, Receives
  <2> HIDE DEF n
  <2>3. QED
    BY <1>2, <1>3, <2>2
<1>5. gone < made => KeysGood(load, budgets, gone + 1, K) /\ Len(K) \in Nat
  <2> SUFFICES ASSUME gone < made
               PROVE  KeysGood(load, budgets, gone + 1, K) /\ Len(K) \in Nat
    OBVIOUS
  <2>1. Len(batches) \in Nat
    BY <1>1, StayTotalsFacts
  <2>2. gone < Len(batches)
    BY <1>2, <2>1
  <2>3. QED
    BY <1>2, <2>2, OpenFacts
<1>6. /\ y \in Seq(Nat) /\ Len(y) = n
      /\ \A k \in 1 .. n : y[k] = CostOf(load, budgets, Batches(load, budgets)[gone + k][r])
  <2>1. \A k \in 1 .. n : Cost(batches[gone + k][r])
                            = CostOf(load, budgets, Batches(load, budgets)[gone + k][r])
    BY <1>1 DEF Cost, CostOf
  <2>2. ASSUME NEW k \in 1 .. n
        PROVE  CostOf(load, budgets, Batches(load, budgets)[gone + k][r]) \in Nat
    <3>1. gone + k \in 1 .. Len(Batches(load, budgets))
      <4>1. Len(Batches(load, budgets)) \in Nat /\ made <= Len(Batches(load, budgets))
        BY <1>1, <1>2, StayTotalsFacts
      <4>2. QED
        BY <1>2, <4>1
    <3>2. PICK h, j : PlaceOf(load, budgets, gone + k, h, j)
      BY <1>1, <3>1, BatchHasPlace
    <3> DEFINE q == Batches(load, budgets)[gone + k][r]
               i == FileAt(load, h, r)
    <3>3. q = NoChunk \/ OfFile(load, budgets, i, q)
      BY <1>1, <3>2, ChunkOfBatch
    <3> HIDE DEF q, i
    <3>4. CostOf(load, budgets, q) \in Nat
      BY <1>1, <3>3, CostFacts
    <3>5. QED
      BY <3>4 DEF q
  <2>3. y \in [1 .. n -> Nat]
    BY <2>1, <2>2
  <2>4. \A k \in 1 .. n : y[k] = Cost(batches[gone + k][r])
    OBVIOUS
  <2> HIDE DEF y, n
  <2>5. y \in Seq(Nat) /\ Len(y) = n
    BY <1>3, <2>3, SeqOfFun
  <2>6. QED
    BY <2>1, <2>4, <2>5
<1>7. LiveBuffers(r) = Total(y)
  BY DEF LiveBuffers
\* What stays
<1>8. R \in Nat /\ T \in Nat /\ resident + held + fresh = R + T
  <2>1. ~c => held = 0
    BY DEF MemoryInv, ReceivesInv
  <2> HIDE DEF c
  <2>2. QED
    BY <1>2, <2>1
<1>9. R <= Settled(load, budgets, IF n = 0 THEN gone ELSE gone + 1)
  <2>1. /\ load.accumulate => resident + Pending <= x + StayedOpen
        /\ ~load.accumulate => resident = 0
    BY DEF MemoryInv, ResidentInv
  <2>2. Pending \in Nat
    BY <1>2 DEF Pending
  <2>3. ~c => fresh = Pending /\ (fresh > 0 => load.accumulate)
    <3> SUFFICES ASSUME ~c PROVE fresh = Pending /\ (fresh > 0 => load.accumulate)
      OBVIOUS
    <3>1. fresh > 0 => Staying(K[pos])
      BY DEF MemoryInv, ReceivesInv
    <3>2. CASE fresh > 0
      BY <3>1, <3>2 DEF Pending, Staying
    <3>3. CASE fresh = 0
      BY <3>3 DEF Pending
    <3>4. QED
      BY <1>2, <3>2, <3>3
  <2>4. R <= resident + Pending /\ (~load.accumulate => R = 0)
    <3>1. ~load.accumulate => fresh = 0 \/ c
      BY <1>2, <2>3
    <3> HIDE DEF c
    <3>2. QED
      BY <1>2, <2>1, <2>2, <2>3, <3>1
  <2>5. CASE ~load.accumulate
    BY <2>4, <2>5 DEF Settled
  <2>6. CASE load.accumulate
    <3>1. CASE n = 0
      <4>1. StayedOpen = 0 /\ Pending = 0
        BY <1>2, <1>3, <3>1 DEF StayedOpen, Pending
      <4>2. resident + 0 <= x + 0
        BY <2>1, <2>6, <4>1
      <4>3. R <= resident + 0
        BY <2>4, <4>1
      <4>4. x \in Nat
        <5>1. /\ StayTotals(load, budgets) \in Seq(Nat)
              /\ Len(StayTotals(load, budgets)) = Len(batches)
          BY <1>1, StayTotalsFacts
        <5>2. gone \in 0 .. Len(StayTotals(load, budgets))
          BY <1>2, <5>1
        <5>3. QED
          BY <5>1, <5>2, SumFacts DEF Done
      <4> HIDE DEF R, x
      <4>5. R <= x
        BY <1>2, <1>8, <4>2, <4>3, <4>4
      <4>6. QED
        BY <2>6, <3>1, <4>5 DEF Settled, x
    <3>2. CASE n # 0
      <4>1. gone < made
        BY <1>2, <1>3, <3>2
      <4>2. KeysGood(load, budgets, gone + 1, K) /\ Len(K) \in Nat /\ pos <= Len(K)
        BY <1>2, <1>5, <4>1
      <4>3. StayedOpen = SumTo(s, pos)
        BY <4>1 DEF StayedOpen
      <4>4. /\ s \in Seq(Nat) /\ Len(s) = Len(K) /\ x \in Nat /\ z = x + Total(s)
        <5>1. (gone + 1) - 1 = gone
          BY <1>2
        <5>2. s = StaySizes(K)
          OBVIOUS
        <5> HIDE DEF K, s, x, z
        <5>3. QED
          BY <4>2, <5>1, <5>2 DEF KeysGood, x, z
      <4> HIDE DEF K, s, x, z
      <4>5. pos \in 0 .. Len(s) /\ Len(s) \in 0 .. Len(s) /\ pos \in 0 .. Len(s)
        BY <1>2, <4>2, <4>4
      <4>6. SumTo(s, pos) <= Total(s) /\ SumTo(s, pos) \in Nat /\ Total(s) \in Nat
        <5>1. SumTo(s, pos) <= SumTo(s, Len(s))
          BY <4>4, <4>5, SumMonotone
        <5>2. SumTo(s, pos) \in Nat /\ SumTo(s, Len(s)) \in Nat
          BY <4>4, <4>5, SumFacts
        <5>3. QED
          BY <5>1, <5>2 DEF Total
      <4>7. R <= z
        <5>1. R <= resident + Pending /\ resident + Pending <= x + SumTo(s, pos)
          BY <2>1, <2>4, <2>6, <4>3 DEF x
        <5> HIDE DEF R
        <5>2. QED
          BY <1>2, <1>8, <2>2, <4>4, <4>6, <5>1
      <4>8. Settled(load, budgets, IF n = 0 THEN gone ELSE gone + 1) = z
        BY <2>6, <3>2 DEF Settled, z
      <4>9. QED
        BY <4>7, <4>8
    <3>3. QED
      BY <3>1, <3>2
  <2>7. QED
    BY <2>5, <2>6
\* A copy
<1>10. T > 0 => /\ n > 0 /\ Clones(Params(load)) = 1
                /\ \E i : Loaded(load, budgets, gone + 1, i) /\ T <= budgets[i]
  <2> SUFFICES ASSUME T > 0
               PROVE  /\ n > 0 /\ Clones(Params(load)) = 1
                      /\ \E i : Loaded(load, budgets, gone + 1, i) /\ T <= budgets[i]
    OBVIOUS
  <2>1. c /\ T = held + fresh
    OBVIOUS
  <2>2. pos > 0 /\ T <= Bytes(K[pos][2])
    BY <2>1 DEF MemoryInv, ClonesInv
  <2>3. n > 0 /\ gone < made
    <3>1. gone # made
      BY <1>2, <2>2
    <3>2. QED
      BY <1>2, <1>3, <3>1
  <2>4. KeyFits(load, budgets, gone + 1, K[pos])
    <3>1. KeysGood(load, budgets, gone + 1, K) /\ Len(K) \in Nat /\ pos <= Len(K)
      BY <1>2, <1>5, <2>3
    <3>2. pos \in 1 .. Len(K)
      BY <1>2, <2>2, <3>1
    <3> HIDE DEF K
    <3>3. QED
      BY <3>1, <3>2, Zenon DEF KeysGood
  <2> DEFINE b == Bytes(K[pos][2])
  <2>5. b \in Nat /\ (b > 0 => \E i : /\ Loaded(load, budgets, gone + 1, i)
                                       /\ budgets[i] \in Nat /\ b <= budgets[i])
    BY <2>4, Zenon DEF KeyFits
  <2>6. T <= b
    BY <2>2
  <2> HIDE DEF b, T
  <2>7. b > 0
    BY <1>8, <2>5, <2>6
  <2>8. PICK i : /\ Loaded(load, budgets, gone + 1, i)
                 /\ budgets[i] \in Nat /\ b <= budgets[i]
    BY <2>5, <2>7
  <2>9. T <= budgets[i]
    BY <1>8, <2>5, <2>6, <2>8
  <2>10. Clones(Params(load)) = 1
    BY <2>1 DEF Clones
  <2>11. QED
    BY <2>3, <2>8, <2>9, <2>10
<1>11. RoomNeeds(load, budgets, gone, n, r, y, R, T)
  <2>1. gone + n <= Len(Batches(load, budgets))
    BY <1>1, <1>2, <1>3
  <2> HIDE DEF n, y, R, T
  <2>2. QED
    BY <1>2, <1>3, <1>4, <1>6, <1>8, <1>9, <1>10, <2>1, Zenon DEF RoomNeeds
<1>12. R + T + Total(y) <= Params(load).budget
  <2> HIDE DEF n, y, R, T
  <2>1. QED
    BY <1>1, <1>11, RoomFor
<1>13. /\ Params(load).budget = load.memory - load.fixed
       /\ load.memory \in Int /\ load.fixed \in Nat
  BY <1>1, LoadsAssumption DEF Params
<1>14. Total(y) \in Nat
  <2> HIDE DEF y, n
  <2>1. Len(y) \in 0 .. Len(y)
    BY <1>3, <1>6
  <2>2. QED
    BY <1>6, <2>1, SumFacts DEF Total
<1> DEFINE v == Total(y)
           f == load.fixed
           m == load.memory
<1>15. v \in Nat /\ R + T + v <= m - f /\ m \in Int /\ f \in Nat /\ LiveBuffers(r) = v
  BY <1>7, <1>12, <1>13, <1>14
<1> HIDE DEF v, f, m, R, T
<1>16. f + resident + held + fresh + v <= m
  BY <1>2, <1>8, <1>15
<1>17. QED
  BY <1>15, <1>16 DEF f, m

\* In every reachable state of a load within a budget, and on every rank, the
\* resident tensors, the live chunk buffers with what the copier adds and the
\* copies of yielded tensors are no more than the budget, unless the rank is one
\* of a group that receives tensors which do not stay.
THEOREM WithinBudgetHolds == Spec => [](SinglyHeld => WithinBudget)
<1>1. QED
  BY PlanInvHolds, MemoryInvHolds, WithinBudgetInv, PTL

=============================================================================
