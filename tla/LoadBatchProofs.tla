-------------------------- MODULE LoadBatchProofs --------------------------
(***************************************************************************)
(* Proofs about LoadBatch for every number of files, every set of          *)
(* storages, and every order of the caller, the reads, the threads that    *)
(* drop tensors and the calls that raise.                                  *)
(***************************************************************************)
EXTENDS LoadBatch, FiniteSetTheorems, TLAPS

-----------------------------------------------------------------------------
(* The inductive invariant.                                                *)

\* The types of the variables; refs is bounded by RefsInv.
ControlTypes ==
    /\ clash \in BOOLEAN /\ inflight \in BOOLEAN /\ borrowed \in BOOLEAN
    /\ pc \in {"construct", "configure", "submit", "own", "finish", "make",
               "register", "use", "undo: finish", "undo: free", "raised",
               "close: finish", "close: free", "closed"}
    /\ file \in Files
ReadTypes ==
    /\ io \in [Files -> {"none", "reading", "read", "failed"}]
    /\ ready \in [Files -> SUBSET Tensors] /\ given \in [Files -> SUBSET Tensors]
MemoryTypes ==
    /\ mem \in [Files -> {"none", "live", "freed"}]
    /\ refs \in [Files -> Nat]
    /\ freer \in [Files -> {"nobody", "caller", "deleter"}]
    /\ held \in [Files -> [Storages -> SUBSET Holders]]

\* A factory has what it has been given and has not let go of.
FactoryInv ==
    /\ listed \in SUBSET Files
    /\ copier \in SUBSET listed /\ gbuf \in SUBSET listed
    /\ alloc \in SUBSET gbuf /\ open \in SUBSET copier

\* The storages of a file that somebody has
Owned(f) == {s \in Storages : held[f][s] # {}}

\* The references of an allocation are those of its factory and of the
\* storages that own it.
RefsInv ==
    \A f \in Files :
        refs[f] = (IF f \in alloc THEN 1 ELSE 0) + Count(Owned(f))

\* Memory is valid as long as the factory has the buffer, or something has a
\* reference; who is about to free it is the only one.
MemInv ==
    \A f \in Files :
        /\ Valid(f) <=> f \in gbuf \/ refs[f] # 0
        /\ freer[f] # "nobody" => mem[f] = "live"

\* A factory has tensors only with an allocation, and nobody has a storage of
\* a buffer that no allocation has taken.
HeldInv ==
    \A f \in Files : \A s \in Storages :
        /\ "factory" \in held[f][s] => f \in alloc
        /\ f \in gbuf \ alloc => held[f][s] = {}

\* While a file is read its copier is there to drain it, and its buffer.
ReadInv ==
    \A f \in Files :
        /\ io[f] = "reading" => f \in gbuf /\ f \in copier
        /\ f \in gbuf => io[f] # "none"
        /\ io[f] = "read" => ready[f] = Tensors
        /\ given[f] \in SUBSET ready[f]

\* The loop that submits: the files before are in flight, those after have
\* nothing.
SubmitInv ==
    pc \in {"construct", "configure", "submit"} =>
        \A f \in Files :
            /\ \A s \in Storages : held[f][s] = {}
            /\ f \notin alloc
            /\ f < file => f \in gbuf
            /\ f >= file => /\ f \notin gbuf /\ io[f] = "none"
                            /\ mem[f] = "none" /\ freer[f] = "nobody"
            /\ f = file /\ pc # "construct" => f \in copier

\* The loop that makes the tensors, and the use of them.
MakeInv ==
    /\ pc \in {"own", "finish", "make"} =>
          \A f \in Files :
             /\ f \in gbuf
             /\ f < file => /\ f \in alloc
                            /\ \A s \in Storages : held[f][s] = {"factory"}
                            /\ ~inflight => io[f] = "read"
             /\ f >= file => \A s \in Storages : held[f][s] = {}
             /\ f > file \/ (f = file /\ pc = "own") => f \notin alloc
             /\ f = file /\ pc # "own" => f \in alloc
             /\ f = file /\ pc = "finish" => ~inflight
             /\ f = file /\ pc = "make" /\ ~inflight =>
                   io[f] = "read" /\ f \notin open
    /\ pc = "register" =>
          \A f \in Files : \A s \in Storages : held[f][s] = {"factory"}
    /\ pc \in {"register", "use"} => file = 1
    /\ pc \in {"register", "use"} =>
          \A f \in Files :
             /\ f \in alloc
             /\ \A s \in Storages : "factory" \in held[f][s]
             /\ ~inflight => io[f] = "read"

\* The loops that free: the factories before the file have let go.
FreeInv ==
    /\ pc \in {"undo: finish", "undo: free", "close: finish", "close: free"} =>
          \A f \in Files : f < file => f \notin copier /\ f \notin gbuf
    /\ pc \in {"undo: free", "close: free"} => file \notin copier
    /\ pc = "closed" \/ (pc = "raised" /\ ~clash) =>
          \A f \in Files : f \notin copier /\ f \notin gbuf

LInv ==
    /\ ControlTypes /\ ReadTypes /\ MemoryTypes /\ FactoryInv /\ RefsInv
    /\ MemInv /\ HeldInv /\ ReadInv /\ SubmitInv /\ MakeInv /\ FreeInv

-----------------------------------------------------------------------------
(* Counting references, and what a step that leaves variables alone keeps. *)

\* Count counts the storages that own their memory.
LEMMA CountFacts ==
  ASSUME borrowed \in BOOLEAN, NEW T \in SUBSET Storages, NEW S \in SUBSET T
  PROVE  /\ Count(T) \in Nat /\ Count(S) \in Nat /\ Count(S) <= Count(T)
         /\ Count(T \ S) = Count(T) - Count(S)
         /\ borrowed => Count(T) = 0
         /\ ~borrowed => (Count(T) = 0 <=> T = {})
         /\ Count({}) = 0
<1>1. IsFiniteSet(T) /\ IsFiniteSet(S)
  BY StoragesAssumption, FS_Subset
<1>2. /\ Cardinality(T) \in Nat /\ Cardinality(S) \in Nat
      /\ Cardinality(T \ S) = Cardinality(T) - Cardinality(S)
      /\ Cardinality(S) <= Cardinality(T)
  <2>1. T \cap S = S
    OBVIOUS
  <2>2. QED
    BY ZenonT(60), <1>1, <2>1, FS_CardinalityType, FS_Difference, FS_Subset
<1>3. (Cardinality(T) = 0 <=> T = {}) /\ Cardinality({}) = 0
  BY <1>1, FS_EmptySet
<1>4. QED
  BY <1>2, <1>3 DEF Count

\* A part of the invariant holds on while the variables it is about do.
LEMMA Frame ==
  ASSUME LInv
  PROVE  /\ UNCHANGED <<options, control>> => ControlTypes'
         /\ UNCHANGED <<reads, given>> => ReadTypes'
         /\ UNCHANGED memory => MemoryTypes'
         /\ UNCHANGED <<factory, open>> => FactoryInv'
         /\ UNCHANGED <<refs, alloc, held, borrowed>> => RefsInv'
         /\ UNCHANGED <<mem, freer, gbuf, refs>> => MemInv'
         /\ UNCHANGED <<held, gbuf, alloc>> => HeldInv'
         /\ UNCHANGED <<reads, gbuf, copier, given>> => ReadInv'
         /\ UNCHANGED <<control, held, alloc, gbuf, io, mem, freer, copier>>
               => SubmitInv'
         /\ UNCHANGED <<control, gbuf, alloc, held, inflight, io, open>>
               => MakeInv'
         /\ UNCHANGED <<control, copier, gbuf, clash>> => FreeInv'
<1>1. ASSUME UNCHANGED <<options, control>> PROVE ControlTypes'
  BY <1>1 DEF LInv, ControlTypes, options, control
<1>2. ASSUME UNCHANGED <<reads, given>> PROVE ReadTypes'
  BY <1>2 DEF LInv, ReadTypes, reads
<1>3. ASSUME UNCHANGED memory PROVE MemoryTypes'
  BY <1>3 DEF LInv, MemoryTypes, memory
<1>4. ASSUME UNCHANGED <<factory, open>> PROVE FactoryInv'
  BY <1>4 DEF LInv, FactoryInv, factory
<1>5. ASSUME UNCHANGED <<refs, alloc, held, borrowed>> PROVE RefsInv'
  BY <1>5 DEF LInv, RefsInv, Owned, Count
<1>6. ASSUME UNCHANGED <<mem, freer, gbuf, refs>> PROVE MemInv'
  BY <1>6 DEF LInv, MemInv, Valid
<1>7. ASSUME UNCHANGED <<held, gbuf, alloc>> PROVE HeldInv'
  BY <1>7 DEF LInv, HeldInv
<1>8. ASSUME UNCHANGED <<reads, gbuf, copier, given>> PROVE ReadInv'
  BY <1>8 DEF LInv, ReadInv, reads
<1>9. ASSUME UNCHANGED <<control, held, alloc, gbuf, io, mem, freer, copier>>
      PROVE  SubmitInv'
  BY <1>9 DEF LInv, SubmitInv, control
<1>10. ASSUME UNCHANGED <<control, gbuf, alloc, held, inflight, io, open>>
       PROVE  MakeInv'
  BY <1>10 DEF LInv, MakeInv, control
<1>11. ASSUME UNCHANGED <<control, copier, gbuf, clash>> PROVE FreeInv'
  BY <1>11 DEF LInv, FreeInv, control
<1>12. QED
  BY <1>1, <1>2, <1>3, <1>4, <1>5, <1>6, <1>7, <1>8, <1>9, <1>10, <1>11
     DEF control, factory, reads, memory

\* The numbers of the files
LEMMA FileFacts ==
  ASSUME ControlTypes
  PROVE  /\ file \in Files /\ 1 \in Files
         /\ file < NumFiles => file + 1 \in Files
         /\ file \in Nat /\ NumFiles \in Nat /\ file <= NumFiles /\ file >= file
         /\ \A f \in Files : /\ f \in Nat /\ ~(f < 1)
                             /\ f < file + 1 <=> f < file \/ f = file
                             /\ f <= NumFiles
<1>1. file \in Files /\ NumFiles \in Nat /\ 1 \in Files
  <2>1. NumFiles \in Nat /\ NumFiles # 0
    BY NumFilesAssumption
  <2>2. 1 \in Files
    BY <2>1 DEF Files
  <2>3. QED
    BY <2>1, <2>2 DEF ControlTypes
<1>2. \A f \in Files : f \in Nat /\ ~(f < 1) /\ f <= NumFiles
  BY <1>1 DEF Files
<1>3. file < NumFiles => file + 1 \in Files
  BY <1>1 DEF Files
<1>4. \A f, g \in Nat : (f < g + 1 <=> f < g \/ f = g) /\ g >= g
  OBVIOUS
<1>5. QED
  BY <1>1, <1>2, <1>3, <1>4

\* A storage that nobody has gives its allocation no reference.
LEMMA NobodyHolds ==
  ASSUME LInv, NEW f \in Files, \A s \in Storages : held[f][s] = {}
  PROVE  refs[f] = IF f \in alloc THEN 1 ELSE 0
<1>1. Owned(f) = {}
  BY DEF Owned
<1>2. Count({}) = 0
  BY CountFacts DEF LInv, ControlTypes
<1>3. refs[f] = (IF f \in alloc THEN 1 ELSE 0) + 0
  BY <1>1, <1>2 DEF LInv, RefsInv
<1>4. QED
  BY <1>3

\* release: a reference that is given back, with storages that nobody has any
\* more (k is the factory's own reference), frees the memory with the last.
LEMMA ReleaseKeeps ==
  ASSUME LInv, UNCHANGED <<options, mem>>,
         NEW f \in Files, NEW S \in SUBSET Owned(f), NEW k \in {0, 1},
         NEW n, n = k + Count(S), NEW thread \in {"caller", "deleter"},
         Release(f, n, thread), Owned(f)' = Owned(f) \ S,
         \A g \in Files \ {f} : /\ Owned(g)' = Owned(g)
                                /\ g \in alloc' <=> g \in alloc
                                /\ g \in gbuf' <=> g \in gbuf,
         k = 1 => f \in alloc /\ f \notin alloc' /\ f \notin gbuf',
         k = 0 => (f \in alloc' <=> f \in alloc) /\ (f \in gbuf' <=> f \in gbuf)
  PROVE  /\ RefsInv' /\ MemInv'
         /\ refs' \in [Files -> Nat]
         /\ freer' \in [Files -> {"nobody", "caller", "deleter"}]
<1>1. /\ refs \in [Files -> Nat] /\ borrowed \in BOOLEAN
      /\ freer \in [Files -> {"nobody", "caller", "deleter"}]
      /\ borrowed' = borrowed /\ mem' = mem
  BY DEF LInv, MemoryTypes, ControlTypes, options
<1>2. Owned(f) \in SUBSET Storages
  BY DEF Owned
<1>3. PICK c \in Nat, d \in Nat :
        /\ d <= c /\ c = Count(Owned(f)) /\ d = Count(S)
        /\ Count(Owned(f) \ S) = c - d
        /\ S = {} => d = 0
  <2>1. /\ Count(Owned(f)) \in Nat /\ Count(S) \in Nat
        /\ Count(S) <= Count(Owned(f))
        /\ Count(Owned(f) \ S) = Count(Owned(f)) - Count(S)
        /\ Count({}) = 0
    BY <1>1, <1>2, CountFacts
  <2>2. QED
    BY <2>1
<1>4. refs[f] = (IF f \in alloc THEN 1 ELSE 0) + c
  BY <1>3 DEF LInv, RefsInv
<1>5. n \in Nat /\ n = k + d /\ n <= refs[f]
  BY <1>3, <1>4
<1>6. /\ \A g \in Files \ {f} : refs'[g] = refs[g] /\ freer'[g] = freer[g]
      /\ refs'[f] = refs[f] - n
      /\ freer'[f] = IF n > 0 /\ refs[f] - n = 0 THEN thread ELSE freer[f]
  BY <1>1 DEF Release, LastOne
<1>7. /\ refs' \in [Files -> Nat]
      /\ freer' \in [Files -> {"nobody", "caller", "deleter"}]
  BY <1>1, <1>5 DEF Release
<1>8. RefsInv'
  <2>1. SUFFICES ASSUME NEW g \in Files
                 PROVE  refs'[g] = (IF g \in alloc' THEN 1 ELSE 0)
                                     + Count(Owned(g)')
    BY <1>1 DEF RefsInv, Count
  <2>2. CASE g = f
    <3>1. Count(Owned(f)') = c - d
      BY <1>3
    <3>2. refs'[f] = (IF f \in alloc THEN 1 ELSE 0) + c - (k + d)
      BY <1>4, <1>5, <1>6
    <3>3. k = (IF f \in alloc THEN 1 ELSE 0) - (IF f \in alloc' THEN 1 ELSE 0)
      OBVIOUS
    <3>4. \A a \in {0, 1}, b \in {0, 1} :
             k = a - b => a + c - (k + d) = b + (c - d)
      OBVIOUS
    <3>5. refs'[f] = (IF f \in alloc' THEN 1 ELSE 0) + (c - d)
      BY <3>2, <3>3, <3>4
    <3>6. QED
      BY <2>2, <3>1, <3>5
  <2>3. CASE g # f
    <3>1. refs'[g] = refs[g] /\ (g \in alloc' <=> g \in alloc)
      BY <1>6, <2>3
    <3>2. Count(Owned(g)') = Count(Owned(g))
      BY <2>3
    <3>3. QED
      BY <3>1, <3>2 DEF LInv, RefsInv
  <2>4. QED
    BY <2>2, <2>3
<1>9. MemInv'
  <2>1. \A g \in Files : /\ Valid(g) <=> g \in gbuf \/ refs[g] # 0
                         /\ freer[g] # "nobody" => mem[g] = "live"
    BY DEF LInv, MemInv
  <2>2. SUFFICES ASSUME NEW g \in Files
                 PROVE  /\ Valid(g)' <=> g \in gbuf' \/ refs'[g] # 0
                        /\ freer'[g] # "nobody" => mem'[g] = "live"
    BY DEF MemInv
  <2>3. CASE g # f
    BY <1>1, <1>6, <2>1, <2>3 DEF Valid
  <2>4. CASE g = f /\ n = 0
    <3>1. k = 0
      BY <1>3, <1>5, <2>4
    <3>2. refs'[f] = refs[f] /\ freer'[f] = freer[f]
      BY <1>1, <1>6, <2>4
    <3>3. QED
      BY <1>1, <2>1, <2>4, <3>1, <3>2 DEF Valid
  <2>5. CASE g = f /\ n > 0
    <3>1. refs[f] \in Nat /\ refs[f] # 0
      BY <1>1, <1>5, <2>5
    <3>2. mem[f] = "live" /\ freer[f] = "nobody"
      BY <2>1, <3>1 DEF Valid
    <3>3. CASE refs[f] - n = 0
      <4>1. f \notin gbuf'
        <5>1. CASE k = 1
          BY <5>1
        <5>2. CASE k = 0
          <6>1. f \notin alloc /\ S # {}
            <7>1. d > 0 /\ refs[f] = d
              BY <1>5, <2>5, <3>1, <3>3, <5>2
            <7>2. S # {}
              BY <1>3, <7>1
            <7>3. f \notin alloc
              BY <1>3, <1>4, <7>1
            <7>4. QED
              BY <7>2, <7>3
          <6>2. PICK s \in Storages : held[f][s] # {}
            BY <6>1 DEF Owned
          <6>3. f \notin gbuf
            BY <6>1, <6>2 DEF LInv, HeldInv
          <6>4. QED
            BY <5>2, <6>3
        <5>3. QED
          BY <5>1, <5>2
      <4>2. refs'[f] = 0 /\ freer'[f] = thread
        BY <1>6, <2>5, <3>3
      <4>3. QED
        BY <1>1, <2>5, <3>2, <4>1, <4>2 DEF Valid
    <3>4. CASE refs[f] - n # 0
      <4>1. refs'[f] # 0 /\ freer'[f] = freer[f]
        BY <1>6, <3>4
      <4>2. QED
        BY <1>1, <2>5, <3>2, <4>1 DEF Valid
    <3>5. QED
      BY <3>3, <3>4
  <2>6. QED
    BY <1>5, <2>3, <2>4, <2>5
<1>10. QED
  BY <1>7, <1>8, <1>9

-----------------------------------------------------------------------------
(* Each operation keeps the invariant.                                     *)

\* The next file gets a copier and a factory.
LEMMA ConstructLInv ==
  ASSUME LInv, Construct
  PROVE  LInv'
<1>1. UNCHANGED <<clash, inflight, borrowed, file, gbuf, alloc, io, ready,
                  given, mem, refs, freer, held>>
  BY DEF Construct, CallerGoes, List, ListedBy, options, control, factory,
     reads, memory
<1>2. ReadTypes' /\ MemoryTypes' /\ RefsInv' /\ MemInv' /\ HeldInv'
  BY <1>1, Frame DEF options, control, factory, reads, memory
<1>3. ControlTypes'
  BY <1>1 DEF LInv, ControlTypes, Construct, CallerGoes, List, ListedBy, Files
<1>4. FactoryInv'
  BY <1>1 DEF LInv, FactoryInv, Construct, CallerGoes, List, ListedBy,
     ControlTypes
<1>5. ReadInv'
  BY <1>1 DEF LInv, ReadInv, Construct, CallerGoes, List, ListedBy,
     ControlTypes
<1>6. SubmitInv'
  BY <1>1 DEF LInv, SubmitInv, Construct, CallerGoes, List, ListedBy,
     ControlTypes
<1>7. MakeInv'
  BY <1>1 DEF LInv, MakeInv, Construct, CallerGoes, List, ListedBy,
     ControlTypes
<1>8. FreeInv'
  BY <1>1 DEF LInv, FreeInv, Construct, CallerGoes, List, ListedBy,
     ControlTypes
<1>9. QED
  BY <1>2, <1>3, <1>4, <1>5, <1>6, <1>7, <1>8 DEF LInv

\* ... or its copier cannot be constructed.
LEMMA ConstructRaisesLInv ==
  ASSUME LInv, ConstructRaises
  PROVE  LInv'
<1>1. UNCHANGED <<clash, inflight, borrowed, listed, copier, gbuf, alloc,
                  open, io, ready, given, mem, refs, freer, held>>
  BY DEF ConstructRaises, Raise, CallerGoes, options, control, factory, reads,
     memory
<1>2. ReadTypes' /\ MemoryTypes' /\ FactoryInv' /\ RefsInv' /\ MemInv' /\
      HeldInv' /\ ReadInv'
  BY <1>1, Frame DEF options, control, factory, reads, memory
<1>3. ControlTypes'
  BY <1>1, FileFacts DEF LInv, ControlTypes, ConstructRaises, Raise, CallerGoes
<1>4. SubmitInv'
  BY <1>1 DEF LInv, SubmitInv, ConstructRaises, Raise, CallerGoes,
     ControlTypes
<1>5. MakeInv'
  BY <1>1 DEF LInv, MakeInv, ConstructRaises, Raise, CallerGoes, ControlTypes
<1>6. FreeInv'
  BY <1>1, FileFacts DEF LInv, FreeInv, ConstructRaises, Raise, CallerGoes
<1>7. QED
  BY <1>2, <1>3, <1>4, <1>5, <1>6 DEF LInv

\* The copier is configured, ...
LEMMA ConfigureLInv ==
  ASSUME LInv, Configure
  PROVE  LInv'
<1>1. UNCHANGED <<clash, inflight, borrowed, file, listed, copier, gbuf,
                  alloc, open, io, ready, given, mem, refs, freer, held>>
  BY DEF Configure, CallerGoes, options, control, factory, reads, memory
<1>2. ReadTypes' /\ MemoryTypes' /\ FactoryInv' /\ RefsInv' /\ MemInv' /\
      HeldInv' /\ ReadInv'
  BY <1>1, Frame DEF options, control, factory, reads, memory
<1>3. ControlTypes'
  BY <1>1 DEF LInv, ControlTypes, Configure, CallerGoes, Files
<1>4. SubmitInv'
  BY <1>1 DEF LInv, SubmitInv, Configure, CallerGoes, ControlTypes
<1>5. MakeInv'
  BY <1>1 DEF LInv, MakeInv, Configure, CallerGoes, ControlTypes
<1>6. FreeInv'
  BY <1>1 DEF LInv, FreeInv, Configure, CallerGoes, ControlTypes
<1>7. QED
  BY <1>2, <1>3, <1>4, <1>5, <1>6 DEF LInv

\* ... or cannot be.
LEMMA ConfigureRaisesLInv ==
  ASSUME LInv, ConfigureRaises
  PROVE  LInv'
<1>1. UNCHANGED <<clash, inflight, borrowed, listed, copier, gbuf, alloc,
                  open, io, ready, given, mem, refs, freer, held>>
  BY DEF ConfigureRaises, Raise, CallerGoes, options, control, factory, reads,
     memory
<1>2. ReadTypes' /\ MemoryTypes' /\ FactoryInv' /\ RefsInv' /\ MemInv' /\
      HeldInv' /\ ReadInv'
  BY <1>1, Frame DEF options, control, factory, reads, memory
<1>3. ControlTypes'
  BY <1>1, FileFacts DEF LInv, ControlTypes, ConfigureRaises, Raise, CallerGoes
<1>4. SubmitInv'
  BY <1>1 DEF LInv, SubmitInv, ConfigureRaises, Raise, CallerGoes,
     ControlTypes
<1>5. MakeInv'
  BY <1>1 DEF LInv, MakeInv, ConfigureRaises, Raise, CallerGoes, ControlTypes
<1>6. FreeInv'
  BY <1>1, FileFacts DEF LInv, FreeInv, ConfigureRaises, Raise, CallerGoes
<1>7. QED
  BY <1>2, <1>3, <1>4, <1>5, <1>6 DEF LInv

\* The reads are submitted, ...
LEMMA SubmitLInv ==
  ASSUME LInv, Submit
  PROVE  LInv'
<1>1. UNCHANGED <<clash, inflight, borrowed, copier, alloc, open, ready,
                  given, refs, freer, held>>
  BY DEF Submit, AtPoint, NextFile, List, ListedBy, options, control, factory,
     reads, memory
<1>2. RefsInv'
  BY <1>1, Frame DEF options, control, factory, reads, memory
<1>3. /\ pc = "submit" /\ file \in Files /\ gbuf' = gbuf \cup {file}
      /\ listed' = listed
      /\ file < NumFiles => pc' = "construct" /\ file' = file + 1
      /\ file = NumFiles => pc' = "own" /\ file' = 1
  BY FileFacts DEF LInv, Submit, AtPoint, NextFile, List, ListedBy
<1>4. /\ mem'[file] = "live" /\ io'[file] = "reading"
      /\ \A f \in Files \ {file} : mem'[f] = mem[f] /\ io'[f] = io[f]
  BY <1>3 DEF Submit, LInv, MemoryTypes, ReadTypes
<1>5. /\ file \notin gbuf /\ file \in copier /\ freer[file] = "nobody"
      /\ \A f \in Files : f \notin alloc /\ \A s \in Storages : held[f][s] = {}
  BY <1>3, FileFacts DEF LInv, SubmitInv
<1>6. ControlTypes'
  BY <1>1, FileFacts DEF LInv, ControlTypes, Submit, AtPoint, NextFile
<1>7. ReadTypes'
  BY <1>1 DEF LInv, ReadTypes, Submit, AtPoint, NextFile, List, ListedBy,
     ControlTypes, MemoryTypes
<1>8. MemoryTypes'
  BY <1>1 DEF LInv, MemoryTypes, Holders, Submit, AtPoint, NextFile, List,
     ListedBy, ControlTypes, ReadTypes
<1>9. FactoryInv'
  BY <1>1, <1>3, <1>5 DEF LInv, FactoryInv
<1>10. MemInv'
  BY <1>1, <1>3, <1>4, <1>5 DEF LInv, MemInv, Valid
<1>11. HeldInv'
  BY <1>1, <1>5 DEF LInv, HeldInv
<1>12. ReadInv'
  BY <1>1, <1>3, <1>4, <1>5 DEF LInv, ReadInv
<1>13. SubmitInv'
  <2>1. SUFFICES ASSUME file < NumFiles, NEW f \in Files
                 PROVE  /\ \A s \in Storages : held'[f][s] = {}
                        /\ f \notin alloc'
                        /\ f < file' => f \in gbuf'
                        /\ f >= file' => /\ f \notin gbuf' /\ io'[f] = "none"
                                         /\ mem'[f] = "none"
                                         /\ freer'[f] = "nobody"
    BY <1>3, FileFacts DEF LInv, SubmitInv
  <2>2. /\ f < file => f \in gbuf
        /\ f >= file => /\ f \notin gbuf /\ io[f] = "none"
                        /\ mem[f] = "none" /\ freer[f] = "nobody"
    BY <1>3 DEF LInv, SubmitInv
  <2>3. /\ file' = file + 1 /\ (f < file + 1 => f < file \/ f = file)
        /\ f >= file + 1 => f >= file /\ f # file
    BY <1>3, <2>1, FileFacts DEF LInv
  <2>4. QED
    BY <1>1, <1>3, <1>4, <1>5, <2>2, <2>3
<1>14. MakeInv'
  <2>1. CASE file < NumFiles
    BY <1>3, <2>1 DEF MakeInv
  <2>2. CASE file = NumFiles
    <3>1. pc' = "own" /\ file' = 1
      BY <1>3, <2>2
    <3>2. ASSUME NEW f \in Files
          PROVE  /\ f \in gbuf' /\ ~(f < 1) /\ f \notin alloc'
                 /\ \A s \in Storages : held'[f][s] = {}
      <4>1. f < file \/ f = file
        BY <2>2, FileFacts DEF LInv
      <4>2. f \in gbuf'
        BY <1>3, <4>1 DEF LInv, SubmitInv
      <4>3. QED
        BY <1>1, <1>5, <4>2, FileFacts DEF LInv
    <3>3. QED
      BY <3>1, <3>2 DEF MakeInv
  <2>3. QED
    BY <2>1, <2>2, FileFacts DEF LInv
<1>15. FreeInv'
  BY <1>1 DEF LInv, FreeInv, Submit, AtPoint, NextFile, List, ListedBy,
     ControlTypes, MemoryTypes, ReadTypes
<1>16. QED
  BY <1>2, <1>3, <1>4, <1>5, <1>6, <1>7, <1>8, <1>9, <1>10, <1>11, <1>12,
     <1>13, <1>14, <1>15 DEF LInv

\* ... or cannot be.
LEMMA SubmitRaisesLInv ==
  ASSUME LInv, SubmitRaises
  PROVE  LInv'
<1>1. UNCHANGED <<clash, inflight, borrowed, copier, gbuf, alloc, io, ready,
                  given, refs, freer, held>>
  BY DEF SubmitRaises, Raise, CallerGoes, List, ListedBy, options, control,
     factory, reads, memory
<1>2. ReadTypes' /\ RefsInv' /\ HeldInv' /\ ReadInv'
  BY <1>1, Frame DEF options, control, factory, reads, memory
<1>3. ControlTypes'
  BY <1>1, FileFacts DEF LInv, ControlTypes, SubmitRaises, Raise, CallerGoes
<1>4. MemoryTypes'
  BY <1>1 DEF LInv, MemoryTypes, Holders, SubmitRaises, Raise, CallerGoes,
     List, ListedBy, ControlTypes
<1>5. FactoryInv'
  BY <1>1 DEF LInv, FactoryInv, SubmitRaises, Raise, CallerGoes, List,
     ListedBy, ControlTypes, MemoryTypes
<1>6. MemInv'
  <2>1. /\ file \in Files /\ mem[file] = "none" /\ file \notin gbuf
        /\ freer[file] = "nobody" /\ mem \in [Files -> {"none", "live", "freed"}]
    BY FileFacts DEF LInv, SubmitInv, MemoryTypes, SubmitRaises, Raise, CallerGoes
  <2>2. \A f \in Files : mem'[f] = mem[f] \/ (f = file /\ mem'[f] = "freed")
    BY <2>1 DEF SubmitRaises
  <2>3. QED
    BY <1>1, <2>1, <2>2 DEF LInv, MemInv, Valid
<1>7. SubmitInv'
  BY <1>1 DEF LInv, SubmitInv, SubmitRaises, Raise, CallerGoes, List,
     ListedBy, ControlTypes, MemoryTypes
<1>8. MakeInv'
  BY <1>1 DEF LInv, MakeInv, SubmitRaises, Raise, CallerGoes, List, ListedBy,
     ControlTypes, MemoryTypes
<1>9. FreeInv'
  BY <1>1, FileFacts DEF LInv, FreeInv, SubmitRaises, Raise, CallerGoes
<1>10. QED
  BY <1>2, <1>3, <1>4, <1>5, <1>6, <1>7, <1>8, <1>9 DEF LInv

\* A tensor lands.
LEMMA LandLInv ==
  ASSUME LInv, NEW f \in Files, NEW t \in Tensors, Land(f, t)
  PROVE  LInv'
<1>1. UNCHANGED <<clash, inflight, borrowed, pc, file, listed, copier, gbuf,
                  alloc, open, io, given, mem, refs, freer, held>>
  BY DEF Land, options, control, factory, reads, memory
<1>2. ControlTypes' /\ MemoryTypes' /\ FactoryInv' /\ RefsInv' /\ MemInv' /\
      HeldInv' /\ SubmitInv' /\ MakeInv' /\ FreeInv'
  BY <1>1, Frame DEF options, control, factory, reads, memory
<1>3. ReadTypes'
  BY <1>1 DEF LInv, ReadTypes, Land
<1>4. ReadInv'
  BY <1>1 DEF LInv, ReadInv, Land, ReadTypes
<1>5. QED
  BY <1>2, <1>3, <1>4 DEF LInv

\* The reads of a file end.
LEMMA EndReadsLInv ==
  ASSUME LInv, NEW f \in Files, EndReads(f)
  PROVE  LInv'
<1>1. UNCHANGED <<clash, inflight, borrowed, pc, file, listed, copier, gbuf,
                  alloc, open, ready, given, mem, refs, freer, held>>
  BY DEF EndReads, options, control, factory, reads, memory
<1>2. ControlTypes' /\ MemoryTypes' /\ FactoryInv' /\ RefsInv' /\ MemInv' /\
      HeldInv' /\ FreeInv'
  BY <1>1, Frame DEF options, control, factory, reads, memory
<1>3. ReadTypes'
  BY <1>1 DEF LInv, ReadTypes, EndReads
<1>4. ReadInv'
  BY <1>1 DEF LInv, ReadInv, EndReads, ReadTypes
<1>5. SubmitInv'
  BY <1>1 DEF LInv, SubmitInv, EndReads, ReadTypes
<1>6. MakeInv'
  BY <1>1 DEF LInv, MakeInv, EndReads, ReadTypes
<1>7. QED
  BY <1>2, <1>3, <1>4, <1>5, <1>6 DEF LInv

\* The allocation takes the buffer.
LEMMA OwnLInv ==
  ASSUME LInv, Own
  PROVE  LInv'
<1>1. UNCHANGED <<clash, inflight, borrowed, file, listed, copier, gbuf,
                  open, io, ready, given, mem, freer, held>>
  BY DEF Own, CallerGoes, FirstRefs, options, control, factory, reads, memory
<1>2. ReadTypes' /\ ReadInv'
  BY <1>1, Frame DEF options, control, factory, reads, memory
<1>3. /\ pc = "own" /\ file \in Files /\ file \in gbuf /\ file \notin alloc
      /\ \A s \in Storages : held[file][s] = {}
      /\ alloc' = alloc \cup {file}
      /\ refs'[file] = 1
      /\ \A f \in Files \ {file} : refs'[f] = refs[f]
  BY FileFacts DEF LInv, MakeInv, Own, CallerGoes, FirstRefs, MemoryTypes
<1>4. borrowed \in BOOLEAN /\ borrowed' = borrowed
  BY <1>1 DEF LInv, ControlTypes
<1>5. \A f \in Files : Owned(f)' = Owned(f)
  BY <1>1 DEF Owned
<1>6. Owned(file) = {}
  BY <1>3 DEF Owned
<1>7. ControlTypes'
  BY <1>1 DEF LInv, ControlTypes, Own, CallerGoes, FirstRefs, Files
<1>8. MemoryTypes'
  BY <1>1 DEF LInv, MemoryTypes, Holders, Own, CallerGoes, FirstRefs,
     ControlTypes
<1>9. FactoryInv'
  BY <1>1, <1>3 DEF LInv, FactoryInv
<1>10. RefsInv'
  <2>1. SUFFICES ASSUME NEW f \in Files
                 PROVE  refs'[f] = (IF f \in alloc' THEN 1 ELSE 0)
                                     + Count(Owned(f)')
    BY <1>4 DEF RefsInv, Count
  <2>2. CASE f = file
    <3>1. Count({}) = 0
      BY <1>4, CountFacts
    <3>2. QED
      BY <1>3, <1>5, <1>6, <2>2, <3>1
  <2>3. CASE f # file
    BY <1>3, <1>5, <2>3 DEF LInv, RefsInv
  <2>4. QED
    BY <2>2, <2>3
<1>11. MemInv'
  BY <1>1, <1>3 DEF LInv, MemInv, Valid
<1>12. HeldInv'
  BY <1>1 DEF LInv, HeldInv, Own, CallerGoes, FirstRefs, ControlTypes,
     MemoryTypes
<1>13. SubmitInv'
  BY <1>1 DEF LInv, SubmitInv, Own, CallerGoes, FirstRefs, ControlTypes,
     MemoryTypes
<1>14. MakeInv'
  BY <1>1 DEF LInv, MakeInv, Own, CallerGoes, FirstRefs, ControlTypes,
     MemoryTypes
<1>15. FreeInv'
  BY <1>1 DEF LInv, FreeInv, Own, CallerGoes, FirstRefs, ControlTypes,
     MemoryTypes
<1>16. QED
  BY <1>2, <1>3, <1>4, <1>5, <1>6, <1>7, <1>8, <1>9, <1>10, <1>11, <1>12,
     <1>13, <1>14, <1>15 DEF LInv

\* The reads are waited for.
LEMMA FinishLInv ==
  ASSUME LInv, Finish
  PROVE  LInv'
<1>1. UNCHANGED <<clash, inflight, borrowed, listed, copier, gbuf, alloc, io,
                  ready, given, mem, refs, freer, held>>
  BY DEF Finish, Raise, CallerGoes, options, control, factory, reads, memory
<1>2. ReadTypes' /\ MemoryTypes' /\ RefsInv' /\ MemInv' /\ HeldInv' /\
      ReadInv'
  BY <1>1, Frame DEF options, control, factory, reads, memory
<1>3. ControlTypes'
  BY <1>1, FileFacts DEF LInv, ControlTypes, Finish, Raise, CallerGoes
<1>4. FactoryInv'
  BY <1>1 DEF LInv, FactoryInv, Finish, Raise, CallerGoes, ControlTypes
<1>5. SubmitInv'
  BY <1>1 DEF LInv, SubmitInv, Finish, Raise, CallerGoes, ControlTypes
<1>6. MakeInv'
  <2>1. /\ pc = "finish" /\ file \in Files /\ io[file] # "reading"
        /\ io[file] # "failed" => pc' = "make" /\ file' = file
        /\ io[file] = "failed" => pc' = "undo: finish"
        /\ open' = open \ {file}
    BY FileFacts DEF LInv, Finish, Raise, CallerGoes
  <2>2. CASE io[file] = "failed"
    BY <2>1, <2>2 DEF MakeInv
  <2>3. CASE io[file] # "failed"
    <3>1. io[file] = "read"
      <4>1. io[file] # "none"
        BY <2>1 DEF LInv, MakeInv, ReadInv
      <4>2. QED
        BY <2>1, <2>3, <4>1 DEF LInv, ReadTypes
    <3>2. QED
      BY <1>1, <2>1, <2>3, <3>1 DEF LInv, MakeInv
  <2>4. QED
    BY <2>2, <2>3
<1>7. FreeInv'
  BY <1>1, FileFacts DEF LInv, FreeInv, Finish, Raise, CallerGoes
<1>8. QED
  BY <1>2, <1>3, <1>4, <1>5, <1>6, <1>7 DEF LInv

\* The tensors are made, ...
LEMMA MakeLInv ==
  ASSUME LInv, Make
  PROVE  LInv'
<1>1. UNCHANGED <<clash, inflight, borrowed, listed, gbuf, alloc, open, io,
                  ready, given, mem, freer>>
  BY DEF Make, AtPoint, NextFile, options, control, factory, reads, memory
<1>2. ReadTypes'
  BY <1>1, Frame DEF options, control, factory, reads, memory
<1>3. /\ pc = "make" /\ file \in Files /\ file \in alloc
      /\ \A s \in Storages : held[file][s] = {}
      /\ file < NumFiles => pc' = "own" /\ file' = file + 1
      /\ file = NumFiles => pc' = "register" /\ file' = 1
      /\ ~inflight => io[file] = "read" /\ file \notin open
      /\ copier' = IF inflight THEN copier ELSE copier \ {file}
  BY FileFacts DEF LInv, MakeInv, Make, AtPoint, NextFile
<1>4. borrowed \in BOOLEAN /\ inflight \in BOOLEAN
  BY DEF LInv, ControlTypes
<1>5. refs[file] = 1
  BY <1>3, NobodyHolds
<1>6. Count(Storages) \in Nat
  BY <1>4, CountFacts
<1>7. /\ refs'[file] = 1 + Count(Storages)
      /\ \A s \in Storages : held'[file][s] = {"factory"}
      /\ \A f \in Files \ {file} : held'[f] = held[f] /\ refs'[f] = refs[f]
      /\ refs' \in [Files -> Nat]
      /\ held' \in [Files -> [Storages -> SUBSET Holders]]
  <2>1. /\ refs \in [Files -> Nat]
        /\ held \in [Files -> [Storages -> SUBSET Holders]]
    BY DEF LInv, MemoryTypes
  <2>2. [s \in Storages |-> {"factory"}] \in [Storages -> SUBSET Holders]
    BY DEF Holders
  <2>3. QED
    BY <1>3, <1>5, <1>6, <2>1, <2>2 DEF Make
<1>8. ControlTypes'
  <2>1. file < NumFiles \/ file = NumFiles
    BY FileFacts DEF LInv
  <2>2. pc' \in {"own", "register"} /\ file' \in Files
    BY <1>3, <2>1, FileFacts DEF LInv
  <2>3. QED
    BY <1>1, <2>2 DEF LInv, ControlTypes
<1>9. MemoryTypes'
  BY <1>1, <1>7 DEF LInv, MemoryTypes
<1>10. FactoryInv'
  BY <1>1, <1>3 DEF LInv, FactoryInv
<1>11. RefsInv'
  <2>1. SUFFICES ASSUME NEW f \in Files
                 PROVE  refs'[f] = (IF f \in alloc THEN 1 ELSE 0)
                                     + Count(Owned(f)')
    BY <1>1 DEF RefsInv, Count
  <2>2. CASE f = file
    <3>1. Owned(f)' = Storages
      BY <1>7, <2>2 DEF Owned
    <3>2. QED
      BY <1>3, <1>7, <2>2, <3>1
  <2>3. CASE f # file
    <3>1. Owned(f)' = Owned(f)
      BY <1>7, <2>3 DEF Owned
    <3>2. QED
      BY <1>7, <2>3, <3>1 DEF LInv, RefsInv
  <2>4. QED
    BY <2>2, <2>3
<1>12. MemInv'
  <2>1. refs'[file] # 0 /\ refs[file] # 0
    BY <1>5, <1>6, <1>7
  <2>2. \A f \in Files : refs'[f] # 0 <=> refs[f] # 0
    BY <1>7, <2>1
  <2>3. QED
    BY <1>1, <2>2 DEF LInv, MemInv, Valid
<1>13. HeldInv'
  BY <1>1, <1>3, <1>7 DEF LInv, HeldInv
<1>14. ReadInv'
  BY <1>1, <1>3 DEF LInv, ReadInv
<1>15. SubmitInv'
  BY <1>1 DEF LInv, SubmitInv, Make, AtPoint, NextFile, ControlTypes,
     MemoryTypes
<1>16. MakeInv'
  <2>1. ASSUME NEW f \in Files, f < file \/ f = file
        PROVE  /\ f \in alloc' /\ \A s \in Storages : held'[f][s] = {"factory"}
               /\ ~inflight' => io'[f] = "read"
    BY <1>1, <1>3, <1>7, <2>1 DEF LInv, MakeInv
  <2>2. CASE file < NumFiles
    <3>1. ASSUME NEW f \in Files, f >= file + 1
          PROVE  f \notin alloc' /\ \A s \in Storages : held'[f][s] = {}
      <4>1. f > file /\ f # file /\ f >= file
        BY <3>1, FileFacts DEF LInv
      <4>2. QED
        BY <1>1, <1>3, <1>7, <4>1 DEF LInv, MakeInv
    <3>2. \A f \in Files : /\ f < file + 1 => f < file \/ f = file
                           /\ f > file + 1 \/ f = file + 1 => f >= file + 1
      BY FileFacts DEF LInv
    <3>3. \A f \in Files : f \in gbuf'
      BY <1>1, <1>3 DEF LInv, MakeInv
    <3>4. pc' = "own" /\ file' = file + 1
      BY <1>3, <2>2
    <3>5. QED
      BY <2>1, <3>1, <3>2, <3>3, <3>4 DEF MakeInv
  <2>3. CASE file = NumFiles
    <3>1. \A f \in Files : f < file \/ f = file
      BY <2>3, FileFacts DEF LInv
    <3>2. pc' = "register" /\ file' = 1
      BY <1>3, <2>3
    <3>3. QED
      BY <2>1, <3>1, <3>2 DEF MakeInv
  <2>4. QED
    BY <2>2, <2>3, FileFacts DEF LInv
<1>17. FreeInv'
  BY <1>1 DEF LInv, FreeInv, Make, AtPoint, NextFile, ControlTypes,
     MemoryTypes
<1>18. QED
  BY <1>2, <1>3, <1>4, <1>5, <1>6, <1>7, <1>8, <1>9, <1>10, <1>11, <1>12,
     <1>13, <1>14, <1>15, <1>16, <1>17 DEF LInv

\* ... or some of them.
LEMMA MakeRaisesLInv ==
  ASSUME LInv, MakeRaises
  PROVE  LInv'
<1>1. UNCHANGED <<clash, inflight, borrowed, listed, copier, gbuf, alloc,
                  open, io, ready, given, mem, freer>>
  BY DEF MakeRaises, Raise, CallerGoes, options, control, factory, reads,
     memory
<1>2. ReadTypes' /\ FactoryInv' /\ ReadInv'
  BY <1>1, Frame DEF options, control, factory, reads, memory
<1>3. /\ pc = "make" /\ pc' = "undo: finish" /\ file \in Files /\ file \in alloc
      /\ \A s \in Storages : held[file][s] = {}
  BY FileFacts DEF LInv, MakeInv, MakeRaises, Raise, CallerGoes
<1>4. borrowed \in BOOLEAN
  BY DEF LInv, ControlTypes
<1>5. refs[file] = 1
  BY <1>3, NobodyHolds
<1>6. PICK made \in SUBSET Storages :
        /\ held' = [held EXCEPT ![file] =
                      [s \in Storages |-> IF s \in made THEN {"trace"} ELSE {}]]
        /\ refs' = [refs EXCEPT ![file] = @ + Count(made)]
  BY DEF MakeRaises
<1>7. Count(made) \in Nat
  BY <1>4, CountFacts
<1>8. /\ refs'[file] = 1 + Count(made)
      /\ \A s \in Storages :
            held'[file][s] = IF s \in made THEN {"trace"} ELSE {}
      /\ \A f \in Files \ {file} : held'[f] = held[f] /\ refs'[f] = refs[f]
      /\ refs' \in [Files -> Nat]
      /\ held' \in [Files -> [Storages -> SUBSET Holders]]
  <2>1. /\ refs \in [Files -> Nat]
        /\ held \in [Files -> [Storages -> SUBSET Holders]]
    BY DEF LInv, MemoryTypes
  <2>2. [s \in Storages |-> IF s \in made THEN {"trace"} ELSE {}]
          \in [Storages -> SUBSET Holders]
    BY DEF Holders
  <2>3. /\ held'[file] = [s \in Storages |-> IF s \in made THEN {"trace"} ELSE {}]
        /\ \A f \in Files \ {file} : held'[f] = held[f]
        /\ held' \in [Files -> [Storages -> SUBSET Holders]]
    BY <1>3, <1>6, <2>1, <2>2
  <2>4. /\ refs'[file] = 1 + Count(made)
        /\ \A f \in Files \ {file} : refs'[f] = refs[f]
        /\ refs' \in [Files -> Nat]
    <3>1. refs' = [refs EXCEPT ![file] = refs[file] + Count(made)]
      BY <1>6
    <3>2. refs \in [Files -> Nat] /\ refs[file] + Count(made) \in Nat
      BY <1>5, <1>7, <2>1
    <3>3. QED
      BY <1>3, <1>5, <3>1, <3>2
  <2>5. QED
    BY <2>3, <2>4
<1>9. ControlTypes'
  BY <1>1, FileFacts DEF LInv, ControlTypes, MakeRaises, Raise, CallerGoes
<1>10. MemoryTypes'
  BY <1>1, <1>8 DEF LInv, MemoryTypes
<1>11. RefsInv'
  <2>1. SUFFICES ASSUME NEW f \in Files
                 PROVE  refs'[f] = (IF f \in alloc THEN 1 ELSE 0)
                                     + Count(Owned(f)')
    BY <1>1 DEF RefsInv, Count
  <2>2. CASE f = file
    <3>1. Owned(f)' = made
      BY <1>8, <2>2 DEF Owned
    <3>2. QED
      BY <1>3, <1>8, <2>2, <3>1
  <2>3. CASE f # file
    <3>1. Owned(f)' = Owned(f)
      BY <1>8, <2>3 DEF Owned
    <3>2. QED
      BY <1>8, <2>3, <3>1 DEF LInv, RefsInv
  <2>4. QED
    BY <2>2, <2>3
<1>12. MemInv'
  <2>1. refs'[file] # 0 /\ refs[file] # 0
    BY <1>5, <1>7, <1>8
  <2>2. \A f \in Files : refs'[f] # 0 <=> refs[f] # 0
    BY <1>8, <2>1
  <2>3. QED
    BY <1>1, <2>2 DEF LInv, MemInv, Valid
<1>13. HeldInv'
  <2>1. \A f \in Files : \A s \in Storages :
          \/ held'[f][s] = held[f][s]
          \/ f = file /\ "factory" \notin held'[f][s]
    BY <1>8
  <2>2. QED
    BY <1>1, <1>3, <2>1 DEF LInv, HeldInv
<1>14. SubmitInv'
  BY <1>1 DEF LInv, SubmitInv, MakeRaises, Raise, CallerGoes, ControlTypes,
     MemoryTypes
<1>15. MakeInv'
  BY <1>1 DEF LInv, MakeInv, MakeRaises, Raise, CallerGoes, ControlTypes,
     MemoryTypes
<1>16. FreeInv'
  BY <1>1, FileFacts DEF LInv, FreeInv, MakeRaises, Raise, CallerGoes
<1>17. QED
  BY <1>2, <1>3, <1>4, <1>5, <1>6, <1>7, <1>8, <1>9, <1>10, <1>11, <1>12,
     <1>13, <1>14, <1>15, <1>16 DEF LInv

\* The tensors are registered, ...
LEMMA RegisterLInv ==
  ASSUME LInv, Register
  PROVE  LInv'
<1>1. UNCHANGED <<clash, inflight, borrowed, file, listed, copier, gbuf,
                  alloc, open, io, ready, given, mem, refs, freer, held>>
  BY DEF Register, CallerGoes, options, control, factory, reads, memory
<1>2. ReadTypes' /\ MemoryTypes' /\ FactoryInv' /\ RefsInv' /\ MemInv' /\
      HeldInv' /\ ReadInv'
  BY <1>1, Frame DEF options, control, factory, reads, memory
<1>3. ControlTypes'
  BY <1>1 DEF LInv, ControlTypes, Register, CallerGoes, Files
<1>4. SubmitInv'
  BY <1>1 DEF LInv, SubmitInv, Register, CallerGoes, ControlTypes
<1>5. MakeInv'
  BY <1>1 DEF LInv, MakeInv, Register, CallerGoes, ControlTypes
<1>6. FreeInv'
  BY <1>1 DEF LInv, FreeInv, Register, CallerGoes, ControlTypes
<1>7. QED
  BY <1>2, <1>3, <1>4, <1>5, <1>6 DEF LInv

\* ... or two have the same name.
LEMMA RegisterRaisesLInv ==
  ASSUME LInv, RegisterRaises
  PROVE  LInv'
<1>1. UNCHANGED <<clash, inflight, borrowed, file, listed, copier, gbuf,
                  alloc, open, io, ready, given, mem, refs, freer>>
  BY DEF RegisterRaises, CallerGoes, options, control, factory, reads, memory
<1>2. ReadTypes' /\ FactoryInv' /\ MemInv' /\ ReadInv'
  BY <1>1, Frame DEF options, control, factory, reads, memory
<1>3. /\ pc = "register" /\ pc' = "raised" /\ clash
      /\ held' = [f \in Files |-> [s \in Storages |-> {"trace"}]]
      /\ \A f \in Files : /\ f \in alloc
                          /\ \A s \in Storages : held[f][s] = {"factory"}
  BY DEF LInv, MakeInv, RegisterRaises, CallerGoes
<1>4. ControlTypes'
  BY <1>1 DEF LInv, ControlTypes, RegisterRaises, CallerGoes, Files
<1>5. MemoryTypes'
  BY <1>1 DEF LInv, MemoryTypes, Holders, RegisterRaises, CallerGoes,
     ControlTypes
<1>6. RefsInv'
  <2>1. \A f \in Files : Owned(f)' = Owned(f)
    BY <1>3 DEF Owned
  <2>2. QED
    BY <1>1, <2>1 DEF LInv, RefsInv, Count
<1>7. HeldInv'
  BY <1>1, <1>3 DEF HeldInv
<1>8. SubmitInv'
  BY <1>1 DEF LInv, SubmitInv, RegisterRaises, CallerGoes, ControlTypes,
     MemoryTypes
<1>9. MakeInv'
  BY <1>1 DEF LInv, MakeInv, RegisterRaises, CallerGoes, ControlTypes,
     MemoryTypes
<1>10. FreeInv'
  BY <1>1 DEF LInv, FreeInv, RegisterRaises, CallerGoes, ControlTypes,
     MemoryTypes
<1>11. QED
  BY <1>2, <1>3, <1>4, <1>5, <1>6, <1>7, <1>8, <1>9, <1>10 DEF LInv

\* A copier is drained, ...
LEMMA FinishToFreeLInv ==
  ASSUME LInv, FinishToFree
  PROVE  LInv'
<1>1. UNCHANGED <<clash, inflight, borrowed, file, listed, gbuf, alloc, io,
                  ready, given, mem, refs, freer, held>>
  BY DEF FinishToFree, CallerGoes, MustFinish, options, control, factory,
     reads, memory
<1>2. ReadTypes' /\ MemoryTypes' /\ RefsInv' /\ MemInv' /\ HeldInv'
  BY <1>1, Frame DEF options, control, factory, reads, memory
<1>3. ControlTypes'
  BY <1>1 DEF LInv, ControlTypes, FinishToFree, CallerGoes, MustFinish, Files
<1>4. FactoryInv'
  BY <1>1 DEF LInv, FactoryInv, FinishToFree, CallerGoes, MustFinish,
     ControlTypes
<1>5. ReadInv'
  BY <1>1 DEF LInv, ReadInv, FinishToFree, CallerGoes, MustFinish,
     ControlTypes
<1>6. SubmitInv'
  BY <1>1 DEF LInv, SubmitInv, FinishToFree, CallerGoes, MustFinish,
     ControlTypes
<1>7. MakeInv'
  BY <1>1 DEF LInv, MakeInv, FinishToFree, CallerGoes, MustFinish,
     ControlTypes
<1>8. FreeInv'
  <2>1. /\ file' = file /\ gbuf' = gbuf /\ copier' = copier \ (listed \cap {file})
        /\ \/ pc = "undo: finish" /\ pc' = "undo: free"
           \/ pc = "close: finish" /\ pc' = "close: free"
    BY DEF FinishToFree, CallerGoes
  <2>2. copier \in SUBSET listed
    BY DEF LInv, FactoryInv
  <2>3. QED
    BY <2>1, <2>2 DEF LInv, FreeInv
<1>9. QED
  BY <1>2, <1>3, <1>4, <1>5, <1>6, <1>7, <1>8 DEF LInv

\* ... and its buffer let go of.
LEMMA FreeBufferLInv ==
  ASSUME LInv, FreeBuffer
  PROVE  LInv'
<1>1. UNCHANGED <<clash, inflight, borrowed, listed, copier, open, io, ready,
                  given, mem>>
  BY DEF FreeBuffer, AtPoint, NextFile, Release, LastOne, LetGo, options,
     control, factory, reads, memory
<1>2. ReadTypes'
  BY <1>1, Frame DEF options, control, factory, reads, memory
<1>3. /\ file \in Files /\ file \notin copier
      /\ \/ pc = "undo: free" /\ NextFile("undo: finish", "raised")
         \/ pc = "close: free" /\ NextFile("close: finish", "closed")
  BY FileFacts DEF LInv, FreeInv, FreeBuffer, AtPoint
<1>4. /\ alloc' = alloc \ {file} /\ gbuf' = gbuf \ {file}
      /\ \A f \in Files \ {file} : held'[f] = held[f]
      /\ held' \in [Files -> [Storages -> SUBSET Holders]]
      /\ \A s \in Storages : held'[file][s] = held[file][s] \ {"factory"}
  <2>1. CASE file \in listed
    <3>1. /\ alloc' = alloc \ {file} /\ gbuf' = gbuf \ {file}
          /\ held' = [held EXCEPT ![file] =
                        [s \in Storages |-> held[file][s] \ {"factory"}]]
      BY <2>1 DEF FreeBuffer, LetGo
    <3>2. held \in [Files -> [Storages -> SUBSET Holders]]
      BY DEF LInv, MemoryTypes
    <3>3. [s \in Storages |-> held[file][s] \ {"factory"}]
            \in [Storages -> SUBSET Holders]
      BY <1>3, <3>2
    <3>4. QED
      BY <1>3, <3>1, <3>2, <3>3
  <2>2. CASE file \notin listed
    <3>1. file \notin alloc /\ file \notin gbuf
      BY <2>2 DEF LInv, FactoryInv
    <3>2. \A s \in Storages : "factory" \notin held[file][s]
      BY <1>3, <3>1 DEF LInv, HeldInv
    <3>3. held' = held /\ alloc' = alloc /\ gbuf' = gbuf
      BY <2>2 DEF FreeBuffer
    <3>4. QED
      BY <1>3, <3>1, <3>2, <3>3 DEF LInv, MemoryTypes
  <2>3. QED
    BY <2>1, <2>2
<1>5. \A f \in Files : f # file => Owned(f)' = Owned(f)
  BY <1>4 DEF Owned
<1>6. RefsInv' /\ MemInv' /\ refs' \in [Files -> Nat]
      /\ freer' \in [Files -> {"nobody", "caller", "deleter"}]
  <2>1. borrowed \in BOOLEAN /\ borrowed' = borrowed /\ mem' = mem
    BY <1>1 DEF LInv, ControlTypes
  <2>2. CASE file \in alloc
    <3> PICK p \in Files : p = file
      BY <1>3
    <3>1. Dropped(p, "factory") \in SUBSET Owned(p)
      BY DEF Owned, Dropped
    <3>2. Owned(p)' = Owned(p) \ Dropped(p, "factory")
      <4>1. \A s \in Storages : held'[p][s] = held[p][s] \ {"factory"}
        BY <1>4
      <4>2. QED
        BY <4>1 DEF Owned, Dropped
    <3>3. Release(p, 1 + Count(Dropped(p, "factory")), "caller")
      BY <2>2 DEF FreeBuffer, LInv, FactoryInv
    <3>4. /\ \A g \in Files \ {p} : /\ Owned(g)' = Owned(g)
                                    /\ g \in alloc' <=> g \in alloc
                                    /\ g \in gbuf' <=> g \in gbuf
          /\ p \in alloc /\ p \notin alloc' /\ p \notin gbuf'
      BY <1>4, <1>5, <2>2
    <3>5. UNCHANGED <<options, mem>>
      BY <1>1, <2>1 DEF options
    <3> HIDE DEF Dropped
    <3>6. QED
      BY <3>1, <3>2, <3>3, <3>4, <3>5, ReleaseKeeps
  <2>3. CASE file \notin alloc
    <3>1. /\ refs' = refs
          /\ freer' = IF file \in gbuf
                      THEN [freer EXCEPT ![file] = "caller"] ELSE freer
      BY <2>3 DEF FreeBuffer, LInv, FactoryInv
    <3>2. \A f \in Files : Owned(f)' = Owned(f)
      <4>1. \A s \in Storages : "factory" \notin held[file][s]
        BY <1>3, <2>3 DEF LInv, HeldInv
      <4>2. ASSUME NEW s \in Storages PROVE held'[file][s] = held[file][s]
        <5>1. held'[file][s] = held[file][s] \ {"factory"}
          BY <1>4
        <5>2. \A S : "factory" \notin S => S \ {"factory"} = S
          OBVIOUS
        <5>3. QED
          BY <4>1, <5>1, <5>2, Zenon
      <4>3. ASSUME NEW f \in Files PROVE Owned(f)' = Owned(f)
        BY <1>4, <4>2 DEF Owned
      <4>4. QED
        BY <4>3
    <3>3. RefsInv'
      BY <1>4, <2>1, <2>3, <3>1, <3>2 DEF LInv, RefsInv, Count
    <3>4. /\ refs \in [Files -> Nat]
          /\ freer \in [Files -> {"nobody", "caller", "deleter"}]
      BY DEF LInv, MemoryTypes
    <3>5. MemInv'
      <4>1. CASE file \notin gbuf
        BY <1>4, <2>1, <3>1, <4>1 DEF LInv, MemInv, Valid
      <4>2. CASE file \in gbuf
        <5>1. refs[file] = 0
          <6>1. \A s \in Storages : held[file][s] = {}
            BY <1>3, <2>3, <4>2 DEF LInv, HeldInv
          <6>2. QED
            BY <1>3, <2>3, <6>1, NobodyHolds
        <5>2. /\ freer'[file] = "caller"
              /\ \A f \in Files \ {file} : freer'[f] = freer[f]
          BY <1>3, <3>1, <3>4, <4>2
        <5>3. QED
          BY <1>3, <1>4, <2>1, <3>1, <4>2, <5>1, <5>2 DEF LInv, MemInv, Valid
      <4>3. QED
        BY <4>1, <4>2
    <3>6. QED
      BY <1>3, <3>1, <3>3, <3>4, <3>5
  <2>4. QED
    BY <2>2, <2>3
<1>7. ControlTypes'
  BY <1>1, <1>3, FileFacts DEF LInv, ControlTypes, NextFile
<1>8. MemoryTypes'
  BY <1>1, <1>4, <1>6 DEF LInv, MemoryTypes
<1>9. FactoryInv'
  BY <1>1, <1>4 DEF LInv, FactoryInv
<1>10. HeldInv'
  <2>1. \A f \in Files : \A s \in Storages :
          \/ f # file /\ held'[f][s] = held[f][s]
          \/ f = file /\ held'[f][s] = held[f][s] \ {"factory"}
    BY <1>3, <1>4
  <2>2. QED
    BY <1>4, <2>1 DEF LInv, HeldInv
<1>11. ReadInv'
  BY <1>1, <1>3, <1>4 DEF LInv, ReadInv
<1>12. SubmitInv'
  BY <1>1 DEF LInv, SubmitInv, FreeBuffer, AtPoint, NextFile, Release,
     LastOne, LetGo, ControlTypes, MemoryTypes
<1>13. MakeInv'
  BY <1>1 DEF LInv, MakeInv, FreeBuffer, AtPoint, NextFile, Release, LastOne,
     LetGo, ControlTypes, MemoryTypes
<1>14. FreeInv'
  <2>1. \A f \in Files : f < file \/ f = file => f \notin copier' /\ f \notin gbuf'
    BY <1>1, <1>3, <1>4 DEF LInv, FreeInv
  <2>2. CASE file < NumFiles
    <3>1. file' = file + 1 /\ pc' \in {"undo: finish", "close: finish"}
      BY <1>3, <2>2 DEF NextFile
    <3>2. \A f \in Files : f < file' => f < file \/ f = file
      BY <3>1, FileFacts DEF LInv
    <3>3. QED
      BY <2>1, <3>1, <3>2 DEF FreeInv
  <2>3. CASE file = NumFiles
    <3>1. pc' \in {"raised", "closed"}
      <4>1. ~(file < NumFiles)
        BY <2>3, FileFacts DEF LInv
      <4>2. QED
        BY <1>3, <4>1 DEF NextFile
    <3>2. \A f \in Files : f < file \/ f = file
      BY <2>3, FileFacts DEF LInv
    <3>3. QED
      BY <2>1, <3>1, <3>2 DEF FreeInv
  <2>4. QED
    BY <2>2, <2>3, FileFacts DEF LInv
<1>15. QED
  BY <1>2, <1>3, <1>4, <1>5, <1>6, <1>7, <1>8, <1>9, <1>10, <1>11, <1>12,
     <1>13, <1>14 DEF LInv

\* The memory is freed.
LEMMA FreeLInv ==
  ASSUME LInv, NEW f \in Files, Free(f)
  PROVE  LInv'
<1>1. UNCHANGED <<clash, inflight, borrowed, pc, file, listed, copier, gbuf,
                  alloc, open, io, ready, given, refs, held>>
  BY DEF Free, options, control, factory, reads, memory
<1>2. ControlTypes' /\ ReadTypes' /\ FactoryInv' /\ RefsInv' /\ HeldInv' /\
      ReadInv' /\ MakeInv' /\ FreeInv'
  BY <1>1, Frame DEF options, control, factory, reads, memory
<1>3. MemoryTypes'
  <2>1. mem[f] = "live"
    BY DEF LInv, MemInv, Free
  <2>2. QED
    BY <1>1, <2>1 DEF LInv, MemoryTypes, Free
<1>4. MemInv'
  BY <1>1 DEF LInv, MemInv, Valid, Free, MemoryTypes
<1>5. SubmitInv'
  BY <1>1 DEF LInv, SubmitInv, Free, MemoryTypes
<1>6. QED
  BY <1>2, <1>3, <1>4, <1>5 DEF LInv

\* The user takes a tensor, ...
LEMMA TakeLInv ==
  ASSUME LInv, NEW f \in Files, NEW s \in Storages, NEW t \in s, Take(f, s, t)
  PROVE  LInv'
<1>1. UNCHANGED <<clash, inflight, borrowed, pc, file, listed, copier, gbuf,
                  alloc, open, io, ready, mem, refs, freer>>
  BY DEF Take, AtPoint, options, control, factory, reads, memory
<1>2. ControlTypes' /\ FactoryInv' /\ MemInv' /\ FreeInv'
  BY <1>1, Frame DEF options, control, factory, reads, memory
<1>3. /\ pc = "use" /\ f \in alloc /\ \A r \in Storages : "factory" \in held[f][r]
      /\ held \in [Files -> [Storages -> SUBSET Holders]]
  BY DEF LInv, MakeInv, MemoryTypes, Take, AtPoint
<1>4. /\ \A g \in Files : \A r \in Storages :
            \/ held'[g][r] = held[g][r]
            \/ g = f /\ r = s /\ held'[g][r] = held[g][r] \cup {"user"}
      /\ held' \in [Files -> [Storages -> SUBSET Holders]]
  BY <1>3 DEF Take, Holders
<1>5. t \in ready[f] /\ t \in Tensors
  <2>1. t \in Tensors
    BY DEF Tensors
  <2>2. CASE inflight
    BY <2>1, <2>2 DEF Take, MustWait
  <2>3. CASE ~inflight
    <3>1. io[f] = "read"
      BY <1>3, <2>3 DEF LInv, MakeInv
    <3>2. QED
      BY <2>1, <3>1 DEF LInv, ReadInv
  <2>4. QED
    BY <2>1, <2>2, <2>3
<1>6. /\ given' \in [Files -> SUBSET Tensors]
      /\ \A g \in Files : \/ given'[g] = given[g]
                          \/ g = f /\ given'[g] = given[g] \cup {t}
  BY <1>5 DEF LInv, ReadTypes, Take
<1>7. ReadTypes'
  BY <1>1, <1>6 DEF LInv, ReadTypes
<1>8. MemoryTypes'
  BY <1>1, <1>4 DEF LInv, MemoryTypes
<1>9. RefsInv'
  <2>1. \A g \in Files : Owned(g)' = Owned(g)
    BY <1>3, <1>4 DEF Owned
  <2>2. QED
    BY <1>1, <2>1 DEF LInv, RefsInv, Count
<1>10. HeldInv'
  BY <1>1, <1>3, <1>4 DEF LInv, HeldInv
<1>11. ReadInv'
  BY <1>1, <1>5, <1>6 DEF LInv, ReadInv
<1>12. SubmitInv'
  BY <1>1 DEF LInv, SubmitInv, Take, AtPoint, MemoryTypes, ReadTypes
<1>13. MakeInv'
  BY <1>1 DEF LInv, MakeInv, Take, AtPoint, MemoryTypes, ReadTypes
<1>14. QED
  BY <1>2, <1>3, <1>4, <1>5, <1>6, <1>7, <1>8, <1>9, <1>10, <1>11, <1>12,
     <1>13 DEF LInv

\* ... closes the buffer, ...
LEMMA CloseLInv ==
  ASSUME LInv, Close
  PROVE  LInv'
<1>1. UNCHANGED <<clash, inflight, borrowed, file, listed, copier, gbuf,
                  alloc, open, io, ready, given, mem, refs, freer, held>>
  BY DEF Close, CallerGoes, options, control, factory, reads, memory
<1>2. ReadTypes' /\ MemoryTypes' /\ FactoryInv' /\ RefsInv' /\ MemInv' /\
      HeldInv' /\ ReadInv'
  BY <1>1, Frame DEF options, control, factory, reads, memory
<1>3. ControlTypes'
  BY <1>1 DEF LInv, ControlTypes, Close, CallerGoes, Files
<1>4. SubmitInv'
  BY <1>1 DEF LInv, SubmitInv, Close, CallerGoes, ControlTypes
<1>5. MakeInv'
  BY <1>1 DEF LInv, MakeInv, Close, CallerGoes, ControlTypes
<1>6. FreeInv'
  <2>1. pc = "use" /\ pc' = "close: finish" /\ file' = file
    BY DEF Close, CallerGoes
  <2>2. file' = 1
    BY <2>1 DEF LInv, MakeInv
  <2>3. QED
    BY <2>1, <2>2, FileFacts DEF LInv, FreeInv
<1>7. QED
  BY <1>2, <1>3, <1>4, <1>5, <1>6 DEF LInv

\* ... drops a tensor, ...
LEMMA DropLInv ==
  ASSUME LInv, NEW f \in Files, NEW s \in Storages, Drop(f, s)
  PROVE  LInv'
<1>1. UNCHANGED <<clash, inflight, borrowed, pc, file, listed, copier, gbuf,
                  alloc, open, io, ready, given, mem>>
  BY DEF Drop, Release, LastOne, options, control, factory, reads, memory
<1>2. ControlTypes' /\ ReadTypes' /\ FactoryInv' /\ ReadInv' /\ FreeInv'
  BY <1>1, Frame DEF options, control, factory, reads, memory
<1>3. /\ held \in [Files -> [Storages -> SUBSET Holders]]
      /\ held' \in [Files -> [Storages -> SUBSET Holders]]
      /\ \A g \in Files \ {f} : held'[g] = held[g]
      /\ \A r \in Storages \ {s} : held'[f][r] = held[f][r]
      /\ held'[f][s] = held[f][s] \ {"user"} /\ "user" \in held[f][s]
  BY DEF LInv, MemoryTypes, Drop
<1>4. \A g \in Files \ {f} : Owned(g)' = Owned(g)
  BY <1>3 DEF Owned
<1>5. RefsInv' /\ MemInv' /\ refs' \in [Files -> Nat]
      /\ freer' \in [Files -> {"nobody", "caller", "deleter"}]
  <2>1. borrowed \in BOOLEAN
    BY DEF LInv, ControlTypes
  <2>2. CASE held[f][s] = {"user"}
    <3>1. Owned(f)' = Owned(f) \ {s} /\ {s} \in SUBSET Owned(f)
      BY <1>3, <2>2 DEF Owned
    <3>2. Count({s}) = 0 + Count({s})
      <4>1. Count({s}) \in Nat
        BY <2>1, CountFacts
      <4>2. QED
        BY <4>1
    <3>3. Release(f, Count({s}), "deleter")
      BY <2>2 DEF Drop
    <3>4. QED
      BY <1>1, <1>4, <3>1, <3>2, <3>3, ReleaseKeeps DEF options
  <2>3. CASE held[f][s] # {"user"}
    <3>1. Owned(f)' = Owned(f) \ {} /\ {} \in SUBSET Owned(f)
      BY <1>3, <2>3 DEF Owned
    <3>2. 0 = 0 + Count({})
      BY <2>1, CountFacts
    <3>3. Release(f, 0, "deleter")
      BY <2>3 DEF Drop
    <3>4. QED
      BY <1>1, <1>4, <3>1, <3>2, <3>3, ReleaseKeeps DEF options
  <2>4. QED
    BY <2>2, <2>3
<1>6. MemoryTypes'
  BY <1>1, <1>3, <1>5 DEF LInv, MemoryTypes
<1>7. HeldInv'
  <2>1. \A g \in Files : \A r \in Storages : held'[g][r] \in SUBSET held[g][r]
    BY <1>3
  <2>2. QED
    BY <1>1, <2>1 DEF LInv, HeldInv
<1>8. SubmitInv'
  BY <1>1 DEF LInv, SubmitInv, Drop, Release, LastOne, MemoryTypes
<1>9. MakeInv'
  BY <1>1 DEF LInv, MakeInv, Drop, Release, LastOne, MemoryTypes
<1>10. QED
  BY <1>2, <1>3, <1>4, <1>5, <1>6, <1>7, <1>8, <1>9 DEF LInv

\* ... or drops the exception.
LEMMA DropTraceLInv ==
  ASSUME LInv, NEW f \in Files, DropTrace(f)
  PROVE  LInv'
<1>1. UNCHANGED <<clash, inflight, borrowed, pc, file, listed, copier, gbuf,
                  alloc, open, io, ready, given, mem>>
  BY DEF DropTrace, LetGo, Release, LastOne, options, control, factory, reads,
     memory
<1>2. ControlTypes' /\ ReadTypes' /\ FactoryInv' /\ ReadInv' /\ FreeInv'
  BY <1>1, Frame DEF options, control, factory, reads, memory
<1>3. /\ held \in [Files -> [Storages -> SUBSET Holders]]
      /\ held' \in [Files -> [Storages -> SUBSET Holders]]
      /\ \A g \in Files \ {f} : held'[g] = held[g]
      /\ \A r \in Storages : held'[f][r] = held[f][r] \ {"trace"}
  BY DEF LInv, MemoryTypes, DropTrace, LetGo
<1>4. RefsInv' /\ MemInv' /\ refs' \in [Files -> Nat]
      /\ freer' \in [Files -> {"nobody", "caller", "deleter"}]
  <2>1. borrowed \in BOOLEAN
    BY DEF LInv, ControlTypes
  <2>2. /\ Dropped(f, "trace") \in SUBSET Owned(f)
        /\ Owned(f)' = Owned(f) \ Dropped(f, "trace")
        /\ \A g \in Files \ {f} : Owned(g)' = Owned(g)
    <3>1. Dropped(f, "trace") \in SUBSET Owned(f)
      BY DEF Owned, Dropped
    <3>2. Owned(f)' = Owned(f) \ Dropped(f, "trace")
      BY <1>3 DEF Owned, Dropped
    <3>3. \A g \in Files \ {f} : Owned(g)' = Owned(g)
      BY <1>3 DEF Owned
    <3>4. QED
      BY <3>1, <3>2, <3>3
  <2>3. Count(Dropped(f, "trace")) = 0 + Count(Dropped(f, "trace"))
    <3>1. Dropped(f, "trace") \in SUBSET Storages
      BY DEF Dropped
    <3>2. Count(Dropped(f, "trace")) \in Nat
      BY <2>1, <3>1, CountFacts
    <3>3. QED
      BY <3>2
  <2>4. Release(f, Count(Dropped(f, "trace")), "deleter")
    BY DEF DropTrace
  <2> HIDE DEF Dropped
  <2>5. QED
    BY <1>1, <2>2, <2>3, <2>4, ReleaseKeeps DEF options
<1>5. MemoryTypes'
  BY <1>1, <1>3, <1>4 DEF LInv, MemoryTypes
<1>6. HeldInv'
  <2>1. \A g \in Files : \A r \in Storages : held'[g][r] \in SUBSET held[g][r]
    BY <1>3
  <2>2. QED
    BY <1>1, <2>1 DEF LInv, HeldInv
<1>7. SubmitInv'
  BY <1>1 DEF LInv, SubmitInv, DropTrace, LetGo, Release, LastOne, MemoryTypes
<1>8. MakeInv'
  BY <1>1 DEF LInv, MakeInv, DropTrace, LetGo, Release, LastOne, MemoryTypes
<1>9. QED
  BY <1>2, <1>3, <1>4, <1>5, <1>6, <1>7, <1>8 DEF LInv

-----------------------------------------------------------------------------
(* The theorems.                                                           *)

\* A step that changes no variable keeps the invariant.
LEMMA StutterLInv ==
  ASSUME LInv, UNCHANGED vars
  PROVE  LInv'
<1>1. UNCHANGED <<options, control, factory, open, reads, memory, given>>
  BY DEF vars
<1>2. QED
  BY <1>1, Frame DEF LInv, options, control, factory, reads, memory

\* The invariant holds initially, when nothing is constructed.
LEMMA InitLInv == Init => LInv
<1> SUFFICES ASSUME Init PROVE LInv
  OBVIOUS
<1>1. ControlTypes /\ ReadTypes /\ MemoryTypes /\ FactoryInv
  <2>1. 1 \in Files
    <3>1. NumFiles \in Nat /\ NumFiles # 0
      BY NumFilesAssumption
    <3>2. QED
      BY <3>1 DEF Files
  <2>2. clash \in BOOLEAN
    BY ClashesAssumption DEF Init
  <2>3. QED
    BY <2>1, <2>2
       DEF Init, ControlTypes, ReadTypes, MemoryTypes, FactoryInv, Holders
<1>2. RefsInv
  <2>1. SUFFICES ASSUME NEW f \in Files
                 PROVE  refs[f] = (IF f \in alloc THEN 1 ELSE 0)
                                    + Count(Owned(f))
    BY DEF RefsInv
  <2>2. Owned(f) = {}
    BY DEF Init, Owned
  <2>3. Count({}) = 0
    BY CountFacts DEF Init
  <2>4. QED
    BY <2>2, <2>3 DEF Init
<1>3. MemInv /\ HeldInv /\ ReadInv
  BY DEF Init, MemInv, Valid, HeldInv, ReadInv
<1>4. SubmitInv /\ MakeInv /\ FreeInv
  <2>1. \A f \in Files : ~(f < 1)
    BY <1>1, FileFacts
  <2>2. QED
    BY <2>1 DEF Init, SubmitInv, MakeInv, FreeInv
<1>5. QED
  BY <1>1, <1>2, <1>3, <1>4 DEF LInv

\* Every step keeps the invariant, so it always holds.
LEMMA AlwaysLInv == Spec => []LInv
<1>1. ASSUME LInv, [Next]_vars PROVE LInv'
  <2>1. CASE Load
    BY <1>1, <2>1, ConstructLInv, ConstructRaisesLInv, ConfigureLInv,
       ConfigureRaisesLInv, SubmitLInv, SubmitRaisesLInv, OwnLInv, FinishLInv,
       MakeLInv, MakeRaisesLInv, RegisterLInv, RegisterRaisesLInv,
       FinishToFreeLInv, FreeBufferLInv
       DEF Load
  <2>2. CASE User
    BY <1>1, <2>2, CloseLInv, DropLInv, TakeLInv, DropTraceLInv DEF User
  <2>3. CASE Background
    BY <1>1, <2>3, EndReadsLInv, FreeLInv, LandLInv DEF Background
  <2>4. CASE UNCHANGED vars
    BY <1>1, <2>4, StutterLInv
  <2>5. QED
    BY <1>1, <2>1, <2>2, <2>3, <2>4 DEF Next
<1>2. QED
  BY <1>1, InitLInv, PTL DEF Spec

\* Types, the bound of every reference count included: an allocation has at
\* most a reference for its factory and one for each storage, and free_dev_ptrs,
\* the deleters and the errors between them never free it twice.
THEOREM LoadBatchTypes == Spec => []TypeOK
<1>1. ASSUME LInv PROVE TypeOK
  <2>1. ASSUME NEW f \in Files
        PROVE  refs[f] \in 0 .. 1 + Cardinality(Storages)
    <3>1. /\ Cardinality(Storages) \in Nat
          /\ Cardinality(Owned(f)) \in Nat
          /\ Cardinality(Owned(f)) <= Cardinality(Storages)
      <4>1. Owned(f) \in SUBSET Storages
        BY DEF Owned
      <4>2. QED
        BY <4>1, StoragesAssumption, FS_Subset, FS_CardinalityType
    <3>2. PICK c \in Nat : Count(Owned(f)) = c /\ c <= Cardinality(Storages)
      BY <3>1 DEF Count
    <3>3. refs[f] = (IF f \in alloc THEN 1 ELSE 0) + c
      BY <1>1, <3>2 DEF LInv, RefsInv
    <3>4. QED
      BY <3>1, <3>2, <3>3
  <2>2. refs \in [Files -> 0 .. 1 + Cardinality(Storages)]
    BY <1>1, <2>1 DEF LInv, MemoryTypes
  <2>3. listed \subseteq Files /\ copier \subseteq Files /\ gbuf \subseteq Files
        /\ alloc \subseteq Files /\ open \subseteq Files
    BY <1>1 DEF LInv, FactoryInv
  <2>4. QED
    BY <1>1, <2>2, <2>3
       DEF LInv, ControlTypes, ReadTypes, MemoryTypes, TypeOK
<1>2. QED
  BY <1>1, AlwaysLInv, PTL

\* A tensor that the user, the factory or a traceback still has is in memory
\* that is not freed: an owning one for ever, a borrowed one until the close.
THEOREM TensorsStay == Spec => []TensorsStayValid
<1>1. ASSUME LInv PROVE TensorsStayValid
  <2>1. SUFFICES ASSUME NEW f \in Files, NEW s \in Storages, held[f][s] # {},
                        borrowed => pc \in {"make", "own", "finish",
                                            "register", "use"}
                 PROVE  Valid(f)
    BY DEF TensorsStayValid
  <2>2. s \in Owned(f) /\ Owned(f) \in SUBSET Storages /\ borrowed \in BOOLEAN
    BY <1>1, <2>1 DEF Owned, LInv, ControlTypes
  <2>3. CASE borrowed
    <3>1. f \in gbuf
      BY <1>1, <2>1, <2>3 DEF LInv, MakeInv, FactoryInv
    <3>2. QED
      BY <1>1, <3>1 DEF LInv, MemInv
  <2>4. CASE ~borrowed
    <3>1. Count(Owned(f)) \in Nat /\ Count(Owned(f)) # 0
      BY <2>2, <2>4, CountFacts
    <3>2. refs[f] = (IF f \in alloc THEN 1 ELSE 0) + Count(Owned(f))
      BY <1>1 DEF LInv, RefsInv
    <3>3. refs[f] # 0
      BY <3>1, <3>2
    <3>4. QED
      BY <1>1, <3>3 DEF LInv, MemInv
  <2>5. QED
    BY <2>3, <2>4
<1>2. QED
  BY <1>1, AlwaysLInv, PTL

\* Device memory is never freed under a read that may still write it, on the
\* path that closes and on those that undo.
THEOREM ReadsWriteLiveMemory == Spec => []NoWriteAfterFree
<1>1. ASSUME LInv PROVE NoWriteAfterFree
  BY <1>1 DEF LInv, ReadInv, MemInv, NoWriteAfterFree
<1>2. QED
  BY <1>1, AlwaysLInv, PTL

\* A tensor the user was given has its bytes, with reads in flight or not.
THEOREM GivenIsReady == Spec => []ReadyWhenGiven
<1>1. ASSUME LInv PROVE ReadyWhenGiven
  BY <1>1 DEF LInv, ReadInv, ReadyWhenGiven
<1>2. QED
  BY <1>1, AlwaysLInv, PTL

\* A load that raised, other than for two tensors of one name, and a buffer
\* that was closed keep no file open and no memory but what tensors own.
THEOREM ErrorsUndone == Spec => []UndoneOtherwise
<1>1. ASSUME LInv PROVE UndoneOtherwise
  <2>1. SUFFICES ASSUME ~clash, pc \in {"raised", "closed"}, NEW f \in Files
                 PROVE  /\ mem[f] = "live" =>
                             \/ freer[f] # "nobody"
                             \/ ~borrowed /\ \E s \in Storages : held[f][s] # {}
                        /\ f \notin open
    BY DEF UndoneOtherwise, NothingKept
  <2>2. f \notin copier /\ f \notin gbuf
    BY <1>1, <2>1 DEF LInv, FreeInv
  <2>3. f \notin open /\ f \notin alloc
    BY <1>1, <2>2 DEF LInv, FactoryInv
  <2>4. ASSUME mem[f] = "live", freer[f] = "nobody"
        PROVE  ~borrowed /\ \E s \in Storages : held[f][s] # {}
    <3>1. refs[f] # 0
      BY <1>1, <2>2, <2>4 DEF LInv, MemInv, Valid
    <3>2. /\ refs[f] = (IF f \in alloc THEN 1 ELSE 0) + Count(Owned(f))
          /\ borrowed \in BOOLEAN /\ Owned(f) \in SUBSET Storages
      BY <1>1 DEF LInv, RefsInv, ControlTypes, Owned
    <3>3. Count(Owned(f)) \in Nat /\ Count(Owned(f)) # 0
      <4>1. Count(Owned(f)) \in Nat
        BY <3>2, CountFacts
      <4>2. refs[f] = 0 + Count(Owned(f))
        BY <2>3, <3>2
      <4>3. QED
        BY <3>1, <4>1, <4>2
    <3>4. ~borrowed /\ Owned(f) # {}
      BY <3>2, <3>3, CountFacts
    <3>5. QED
      BY <3>4 DEF Owned
  <2>5. QED
    BY <2>3, <2>4
<1>2. QED
  BY <1>1, AlwaysLInv, PTL

=============================================================================
