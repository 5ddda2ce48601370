---------------------------- MODULE NogdsProofs ----------------------------
(***************************************************************************)
(* Proofs about NogdsReader for every number of worker threads, files,     *)
(* reads and blocks, and every order of the workers, the device, the       *)
(* callers and the failures.                                               *)
(***************************************************************************)
EXTENDS NogdsReader, FiniteSetTheorems, WellFoundedInduction, TLAPS

\* The types of the variables, as functions on requests and copiers.
WorkerTypes ==
    /\ streams \in BOOLEAN /\ tracked \in BOOLEAN /\ stopping \in BOOLEAN
    /\ at \in [Workers -> {"look", "drain", "wait", "asleep", "exited",
                           "reuse", "read", "copy", "abort"}]
    /\ slot \in [Workers -> Slots]
    /\ hand \in [Workers -> AllBlocks \cup {NoBlock}]
    /\ pending \in [Workers -> [Slots -> AllBlocks \cup {NoBlock}]]
    /\ bounce \in [Workers -> [Slots -> AllBlocks \cup {NoBlock}]]
    /\ dma \in [Workers -> [Slots -> {"none", "flying", "landed", "broken"}]]
    /\ dst \in [AllBlocks -> AllBlocks \cup {NoBlock}]

Size(id) == Length[id[1]][id[2]]

RequestTypes ==
    /\ queue \in Seq(Requests)
    /\ req \in [Requests -> [next : Nat, remaining : Nat,
                             completed : SUBSET Nat, prefix : Nat,
                             failed : BOOLEAN]]
    /\ \A id \in Requests :
          /\ req[id].next <= Size(id) /\ req[id].remaining <= Size(id)
          /\ req[id].completed \in SUBSET (0 .. Size(id) - 1)
          /\ req[id].prefix <= Size(id)

CallerTypes ==
    /\ caller \in [Copiers -> {"submit", "use", "prefix", "prefix asleep",
                               "finish", "finish asleep", "closed", "dropped"}]
    /\ sent \in [Copiers -> Nat] /\ waited \in [Copiers -> Nat]
    /\ \A c \in Copiers : sent[c] <= Len(Length[c]) /\ waited[c] <= sent[c]
    /\ want \in [Copiers -> Nat \X Nat]
    /\ DOMAIN ready = Copiers
    /\ \A c \in Copiers : ready[c] \in [1 .. Len(Length[c]) -> Nat]
    /\ raised \in [Copiers -> BOOLEAN]

\* A worker has a block in its hand from when it takes it until it is
\* accounted for or its copy is under way, and fills only a free buffer.
AtInv ==
    \A w \in Workers :
        /\ hand[w] # NoBlock <=> at[w] \in {"reuse", "read", "copy", "abort"}
        /\ at[w] = "reuse" => pending[w][slot[w]] # NoBlock
        /\ at[w] \in {"read", "copy", "abort"} =>
              pending[w][slot[w]] = NoBlock
        /\ at[w] \in {"read", "copy"} => dma[w][slot[w]] = "none"
        /\ at[w] = "copy" => bounce[w][slot[w]] = hand[w]

\* A stream is busy for a pending block, or for one whose copy was refused
\* after it was queued; what it copies is in the buffer.
DmaAt(w, s) ==
    /\ pending[w][s] # NoBlock =>
          dma[w][s] # "none" /\ bounce[w][s] = pending[w][s]
    /\ pending[w][s] = NoBlock /\ dma[w][s] # "none" =>
          at[w] = "abort" /\ s = slot[w]
    /\ dma[w][s] = "flying" => bounce[w][s] = Flying(w, s)
    /\ dma[w][s] = "landed" /\ pending[w][s] # NoBlock =>
          dst[pending[w][s]] = pending[w][s]
DmaInv == \A w \in Workers : \A s \in Slots : DmaAt(w, s)

\* A place of the device memory holds nothing of its file or its own block.
DstInv == \A b \in AllBlocks : dst[b] \in {NoBlock, b}

\* A block is in one hand or pending in one buffer.
OneHolder ==
    /\ \A w, v \in Workers :
          hand[w] = hand[v] /\ hand[w] # NoBlock => w = v
    /\ \A w, v \in Workers : \A s \in Slots :
          hand[w] = pending[v][s] => hand[w] = NoBlock
    /\ \A w, v \in Workers : \A s, r \in Slots :
          pending[w][s] = pending[v][r] /\ pending[w][s] # NoBlock =>
             w = v /\ s = r

\* The blocks of a request that were taken and are not accounted for
Out(id) ==
    {b \in Blocks(id) :
        \E w \in Workers : hand[w] = b \/ \E s \in Slots : pending[w][s] = b}

\* What remains of a request is what nobody took and what is out.
CountInv ==
    \A id \in Requests :
        /\ \A b \in Out(id) : Position(b) < req[id].next
        /\ req[id].remaining = Size(id) - req[id].next + Cardinality(Out(id))

\* A block that was taken is out, where it belongs, or failed its request.
LandedInv ==
    \A id \in Requests : \A p \in 0 .. req[id].next - 1 :
        \/ <<id, p>> \in Out(id)
        \/ dst[<<id, p>>] = <<id, p>>
        \/ req[id].failed

\* The blocks that count for the prefix are where they belong.
PrefixInv ==
    \A id \in Requests :
        /\ \A p \in req[id].completed : dst[<<id, p>>] = <<id, p>>
        /\ \A p \in 0 .. req[id].prefix - 1 : p \in req[id].completed

\* What a copier knows to be ready counts.
ReadyInv ==
    \A id \in Requests :
        \A p \in 0 .. ready[id[1]][id[2]] - 1 : p \in req[id].completed

\* The queue holds requests that were submitted and that have blocks left,
\* each once.
QueueInv ==
    /\ \A i \in 1 .. Len(queue) :
          /\ queue[i][2] <= sent[queue[i][1]]
          /\ req[queue[i]].next < Size(queue[i])
    /\ \A i, j \in 1 .. Len(queue) : queue[i] = queue[j] => i = j
    /\ \A id \in Requests : id[2] > sent[id[1]] => req[id].next = 0

\* A caller has drained what it waited for, and an error it met was raised.
CallerInv ==
    \A c \in Copiers :
        /\ caller[c] = "submit" => sent[c] < Len(Length[c])
        /\ caller[c] # "submit" => sent[c] = Len(Length[c]) \/ raised[c]
        /\ caller[c] = "closed" => waited[c] = sent[c]
        /\ caller[c] \in {"prefix", "prefix asleep"} =>
              want[c][1] \in 1 .. Len(Length[c])
        /\ \A k \in 1 .. waited[c] :
              /\ req[<<c, k>>].remaining = 0
              /\ req[<<c, k>>].failed => raised[c]

NInv ==
    /\ WorkerTypes /\ RequestTypes /\ CallerTypes
    /\ AtInv /\ DmaInv /\ DstInv /\ OneHolder
    /\ CountInv /\ LandedInv /\ PrefixInv /\ ReadyInv /\ QueueInv /\ CallerInv

-----------------------------------------------------------------------------
(* What the layout of the reads says.                                      *)

LEMMA RequestFacts ==
    /\ \A c \in Copiers :
          /\ Len(Length[c]) \in Nat \ {0}
          /\ \A k \in 1 .. Len(Length[c]) : <<c, k>> \in Requests
    /\ \A id \in Requests :
          /\ id[1] \in Copiers /\ id[2] \in 1 .. Len(Length[id[1]])
          /\ id = <<id[1], id[2]>> /\ id[2] \in Nat
          /\ Size(id) \in Nat \ {0}
<1>1. ASSUME NEW c \in Copiers
      PROVE  /\ Length[c] \in Seq(Nat \ {0}) /\ Length[c] # <<>>
             /\ Len(Length[c]) \in Nat \ {0}
             /\ DOMAIN Length[c] = 1 .. Len(Length[c])
             /\ \A k \in 1 .. Len(Length[c]) : Length[c][k] \in Nat \ {0}
  <2>1. Length[c] \in Seq(Nat \ {0}) /\ Length[c] # <<>>
    BY LengthAssumption
  <2>2. Len(Length[c]) \in Nat /\ Len(Length[c]) # 0
    BY <2>1
  <2>3. QED
    BY <2>1, <2>2
<1>2. ASSUME NEW c \in Copiers, NEW k \in 1 .. Len(Length[c])
      PROVE  <<c, k>> \in Requests
  BY DEF Requests
<1>3. ASSUME NEW id \in Requests
      PROVE  /\ id[1] \in Copiers /\ id[2] \in 1 .. Len(Length[id[1]])
             /\ id = <<id[1], id[2]>> /\ id[2] \in Nat
             /\ Size(id) \in Nat \ {0}
  <2>1. PICK c \in Copiers : id \in {c} \X (1 .. Len(Length[c]))
    BY DEF Requests
  <2>2. /\ id[1] = c /\ id[2] \in 1 .. Len(Length[c])
        /\ id = <<id[1], id[2]>>
    BY <2>1
  <2>3. id[2] \in Nat /\ Length[c][id[2]] \in Nat \ {0}
    BY <1>1, <2>2
  <2>4. QED
    BY <2>2, <2>3 DEF Size
<1>4. QED
  BY <1>1, <1>2, <1>3

LEMMA BlockFacts ==
    /\ \A id \in Requests : \A p \in 0 .. Size(id) - 1 :
          <<id, p>> \in AllBlocks /\ <<id, p>> \in Blocks(id)
    /\ \A b \in AllBlocks :
          /\ Id(b) \in Requests /\ b = <<Id(b), Position(b)>>
          /\ Position(b) \in 0 .. Size(Id(b)) - 1 /\ Position(b) \in Nat
          /\ b # NoBlock /\ b \in Blocks(Id(b))
    /\ \A id \in Requests : \A b \in Blocks(id) : b \in AllBlocks /\ Id(b) = id
<1>1. ASSUME NEW id \in Requests, NEW b
      PROVE  b \in Blocks(id) <=>
                /\ b = <<Id(b), Position(b)>> /\ Id(b) = id
                /\ Position(b) \in 0 .. Size(id) - 1
  BY DEF Blocks, Id, Position, Size
<1>2. ASSUME NEW id \in Requests, NEW b \in Blocks(id)
      PROVE  b \in AllBlocks
  BY DEF AllBlocks
<1>3. ASSUME NEW id \in Requests, NEW p \in 0 .. Size(id) - 1
      PROVE  <<id, p>> \in Blocks(id)
  BY DEF Blocks, Size
<1>4. ASSUME NEW b \in AllBlocks
      PROVE  /\ Id(b) \in Requests /\ b = <<Id(b), Position(b)>>
             /\ Position(b) \in 0 .. Size(Id(b)) - 1 /\ Position(b) \in Nat
             /\ b # NoBlock /\ b \in Blocks(Id(b))
  <2>1. PICK id \in Requests : b \in Blocks(id)
    BY DEF AllBlocks
  <2>2. Position(b) \in 0 .. Size(id) - 1 /\ Size(id) \in Nat
    BY <1>1, <2>1, RequestFacts
  <2>3. Position(b) \in Nat
    BY <2>2
  <2>4. QED
    BY <1>1, <2>1, <2>2, <2>3, BlockAssumption
<1>5. QED
  BY <1>1, <1>2, <1>3, <1>4

\* What is out of a request is a finite set, of blocks that were taken.
LEMMA OutFacts ==
  ASSUME NEW id \in Requests
  PROVE  /\ IsFiniteSet(Out(id)) /\ Cardinality(Out(id)) \in Nat
         /\ \A b \in Out(id) : Cardinality(Out(id)) # 0
<1>1. Size(id) \in Nat /\ 0 \in Int /\ Size(id) - 1 \in Int
  BY RequestFacts
<1>2. IsFiniteSet(0 .. Size(id) - 1)
  BY <1>1, FS_Interval
<1>3. Blocks(id) = {<<id, p>> : p \in 0 .. Size(id) - 1}
  BY DEF Blocks, Size
<1> DEFINE f == [p \in 0 .. Size(id) - 1 |-> <<id, p>>]
<1>4. f \in Surjection(0 .. Size(id) - 1, Blocks(id))
  BY <1>3 DEF Surjection
<1>5. IsFiniteSet(Blocks(id))
  BY <1>2, <1>4, FS_Surjection
<1>6. Out(id) \in SUBSET Blocks(id)
  BY DEF Out
<1>7. IsFiniteSet(Out(id)) /\ Cardinality(Out(id)) \in Nat
  BY <1>5, <1>6, FS_Subset, FS_CardinalityType
<1>8. ASSUME NEW b \in Out(id) PROVE Cardinality(Out(id)) # 0
  BY <1>7, FS_EmptySet
<1>9. QED
  BY <1>7, <1>8

-----------------------------------------------------------------------------
(* The prefix, and what a step that leaves variables alone keeps.          *)

\* A set of numbers that is not empty has a least one: < is well-founded.
LEMMA LeastNumber ==
  ASSUME NEW S \in SUBSET Nat, S # {}
  PROVE  \E x \in S : \A y \in S : x <= y
<1>1. \A y, z \in Nat : y < z => <<y, z>> \in OpToRel(<, Nat)
  BY Zenon DEF OpToRel
<1>2. \E x \in S : \A y \in S : ~(<<y, x>> \in OpToRel(<, Nat))
  BY NatLessThanWellFounded, WFMin, Zenon
<1>3. \E x \in S : \A y \in S : ~(y < x)
  BY <1>1, <1>2, Zenon
<1>4. QED
  BY <1>3

\* complete() computes a prefix of the blocks that have landed.
LEMMA PrefixFacts ==
  ASSUME NEW n \in Nat, NEW done \in SUBSET (0 .. n - 1)
  PROVE  /\ Prefix(n, done) \in 0 .. n
         /\ \A p \in 0 .. Prefix(n, done) - 1 : p \in done
<1> DEFINE S == {m \in 0 .. n : m \notin done}
<1>1. S \in SUBSET Nat /\ S # {}
  <2>1. n \in S
    OBVIOUS
  <2>2. QED
    BY <2>1
<1>2. PICK m \in S : \A y \in S : m <= y
  BY <1>1, LeastNumber
<1>3. m \in 0 .. n /\ m \notin done /\ \A p \in 0 .. m - 1 : p \in done
  BY <1>2
<1>4. QED
  BY <1>3 DEF Prefix

\* A part of the invariant holds on while the variables it is about do.
LEMMA Frame ==
  ASSUME NInv
  PROVE  /\ UNCHANGED <<streams, tracked, stopping, at, slot, hand, pending,
                        bounce, dma, dst>> => WorkerTypes'
         /\ UNCHANGED <<queue, req>> => RequestTypes'
         /\ UNCHANGED <<caller, sent, waited, want, ready, raised>>
               => CallerTypes'
         /\ UNCHANGED <<at, slot, hand, pending, bounce, dma>> => AtInv'
         /\ UNCHANGED <<at, slot, hand, pending, bounce, dma, dst>> => DmaInv'
         /\ UNCHANGED dst => DstInv'
         /\ UNCHANGED <<hand, pending>> => OneHolder'
         /\ UNCHANGED <<hand, pending>> =>
               \A id \in Requests : Out(id)' = Out(id)
         /\ UNCHANGED <<hand, pending, req>> => CountInv'
         /\ UNCHANGED <<hand, pending, req, dst>> => LandedInv'
         /\ UNCHANGED <<req, dst>> => PrefixInv'
         /\ UNCHANGED <<req, ready>> => ReadyInv'
         /\ UNCHANGED <<queue, sent, req>> => QueueInv'
         /\ UNCHANGED <<caller, sent, waited, want, req, raised>> => CallerInv'
<1>1. ASSUME UNCHANGED <<streams, tracked, stopping, at, slot, hand, pending,
                         bounce, dma, dst>>
      PROVE  WorkerTypes'
  BY <1>1 DEF NInv, WorkerTypes
<1>2. ASSUME UNCHANGED <<queue, req>> PROVE RequestTypes'
  BY <1>2 DEF NInv, RequestTypes
<1>3. ASSUME UNCHANGED <<caller, sent, waited, want, ready, raised>>
      PROVE  CallerTypes'
  BY <1>3 DEF NInv, CallerTypes
<1>4. ASSUME UNCHANGED <<at, slot, hand, pending, bounce, dma>> PROVE AtInv'
  BY <1>4 DEF NInv, AtInv
<1>5. ASSUME UNCHANGED <<at, slot, hand, pending, bounce, dma, dst>>
      PROVE  DmaInv'
  BY <1>5 DEF NInv, DmaInv, DmaAt, Flying
<1>6. ASSUME UNCHANGED dst PROVE DstInv'
  BY <1>6 DEF NInv, DstInv
<1>7. ASSUME UNCHANGED <<hand, pending>> PROVE OneHolder'
  BY <1>7 DEF NInv, OneHolder
<1>8. ASSUME UNCHANGED <<hand, pending>>, NEW id \in Requests
      PROVE  Out(id)' = Out(id)
  BY <1>8 DEF Out
<1>9. ASSUME UNCHANGED <<hand, pending, req>> PROVE CountInv'
  BY <1>8, <1>9 DEF NInv, CountInv
<1>10. ASSUME UNCHANGED <<hand, pending, req, dst>> PROVE LandedInv'
  BY <1>8, <1>10 DEF NInv, LandedInv
<1>11. ASSUME UNCHANGED <<req, dst>> PROVE PrefixInv'
  BY <1>11 DEF NInv, PrefixInv
<1>12. ASSUME UNCHANGED <<req, ready>> PROVE ReadyInv'
  BY <1>12 DEF NInv, ReadyInv
<1>13. ASSUME UNCHANGED <<queue, sent, req>> PROVE QueueInv'
  BY <1>13 DEF NInv, QueueInv
<1>14. ASSUME UNCHANGED <<caller, sent, waited, want, req, raised>>
       PROVE  CallerInv'
  BY <1>14 DEF NInv, CallerInv
<1>15. QED
  BY <1>1, <1>2, <1>3, <1>4, <1>5, <1>6, <1>7, <1>8, <1>9, <1>10, <1>11,
     <1>12, <1>13, <1>14

-----------------------------------------------------------------------------
(* A block is taken, and is accounted for.                                 *)

\* complete() of a block that is out: what it does to its request ...
LEMMA CompleteFacts ==
  ASSUME NInv, NEW b \in AllBlocks, NEW failed \in BOOLEAN,
         Complete(b, failed), b \in Out(Id(b))
  PROVE  /\ RequestTypes' /\ CallerTypes'
         /\ \A id \in Requests : id # Id(b) => req'[id] = req[id]
         /\ req[Id(b)].remaining # 0
         /\ req'[Id(b)].next = req[Id(b)].next
         /\ req'[Id(b)].remaining = req[Id(b)].remaining - 1
         /\ req'[Id(b)].failed = (req[Id(b)].failed \/ failed)
         /\ req[Id(b)].completed \subseteq req'[Id(b)].completed
         /\ req'[Id(b)].completed \subseteq
               req[Id(b)].completed \cup {Position(b)}
         /\ failed => req'[Id(b)].completed = req[Id(b)].completed
         /\ \A p \in 0 .. req'[Id(b)].prefix - 1 : p \in req'[Id(b)].completed
         /\ \A c \in Copiers :
               caller'[c] = caller[c]
               \/ (caller[c] = "prefix asleep" /\ caller'[c] = "prefix")
               \/ (caller[c] = "finish asleep" /\ caller'[c] = "finish")
         /\ UNCHANGED <<streams, tracked, queue, stopping, sent, waited, want,
                        ready, raised>>
<1> DEFINE id == Id(b)
           old == req[id]
           done == IF tracked /\ ~failed
                   THEN old.completed \cup {Position(b)} ELSE old.completed
           new == [next      |-> old.next,
                   remaining |-> old.remaining - 1,
                   completed |-> done,
                   prefix    |-> IF done = old.completed THEN old.prefix
                                 ELSE Prefix(Size(id), done),
                   failed    |-> old.failed \/ failed]
<1>1. /\ id \in Requests /\ Size(id) \in Nat
      /\ Position(b) \in 0 .. Size(id) - 1 /\ Position(b) \in Nat
  BY BlockFacts, RequestFacts
<1>2. /\ req' = [req EXCEPT ![id] = new]
      /\ \A c \in Copiers :
            caller'[c] = caller[c]
            \/ (caller[c] = "prefix asleep" /\ caller'[c] = "prefix")
            \/ (caller[c] = "finish asleep" /\ caller'[c] = "finish")
      /\ UNCHANGED <<streams, tracked, queue, stopping, sent, waited, want,
                     ready, raised>>
  <2>1. /\ req' = [req EXCEPT ![id] = new]
        /\ caller' = IF WorthTelling(old, new)
                     THEN [c \in Copiers |->
                             CASE caller[c] = "prefix asleep" -> "prefix"
                               [] caller[c] = "finish asleep" -> "finish"
                               [] OTHER -> caller[c]]
                     ELSE caller
        /\ UNCHANGED <<streams, tracked, queue, stopping, sent, waited, want,
                       ready, raised>>
    BY DEF Complete, options, Size
  <2> HIDE DEF new, old, done, id
  <2>2. QED
    BY <2>1
<1>3. /\ req \in [Requests -> [next : Nat, remaining : Nat,
                               completed : SUBSET Nat, prefix : Nat,
                               failed : BOOLEAN]]
      /\ old \in [next : Nat, remaining : Nat, completed : SUBSET Nat,
                  prefix : Nat, failed : BOOLEAN]
      /\ old.next <= Size(id) /\ old.remaining <= Size(id)
      /\ old.completed \in SUBSET (0 .. Size(id) - 1)
      /\ old.prefix <= Size(id) /\ old.prefix \in Nat
      /\ tracked \in BOOLEAN
  BY <1>1 DEF NInv, RequestTypes, WorkerTypes
<1>4. old.remaining \in Nat \ {0}
  <2>1. /\ old.remaining = Size(id) - old.next + Cardinality(Out(id))
        /\ Cardinality(Out(id)) \in Nat /\ Cardinality(Out(id)) # 0
    BY <1>1, OutFacts DEF NInv, CountInv
  <2>2. old.next \in Nat /\ old.next <= Size(id) /\ old.remaining \in Nat
    BY <1>3
  <2>3. QED
    BY <1>1, <2>1, <2>2
<1> HIDE DEF id, old
<1>5. /\ done \in SUBSET (0 .. Size(id) - 1) /\ done \in SUBSET Nat
      /\ old.completed \subseteq done
      /\ done \subseteq old.completed \cup {Position(b)}
      /\ failed => done = old.completed
  BY <1>1, <1>3
<1> DEFINE q == IF done = old.completed THEN old.prefix
                ELSE Prefix(Size(id), done)
<1>6. q \in 0 .. Size(id) /\ \A p \in 0 .. q - 1 : p \in done
  <2>1. CASE done = old.completed
    <3>1. \A p \in 0 .. old.prefix - 1 : p \in old.completed
      BY <1>1 DEF NInv, PrefixInv, old
    <3> HIDE DEF done
    <3>2. QED
      BY <1>1, <1>3, <2>1, <3>1
  <2>2. CASE done # old.completed
    <3> HIDE DEF done
    <3>1. QED
      BY <1>1, <1>5, <2>2, PrefixFacts
  <2>3. QED
    BY <2>1, <2>2
<1> HIDE DEF q
<1>7. /\ new.next = old.next /\ new.remaining = old.remaining - 1
      /\ new.completed = done /\ new.prefix = q
      /\ new.failed = (old.failed \/ failed)
  BY DEF q
<1>8. new \in [next : Nat, remaining : Nat, completed : SUBSET Nat,
               prefix : Nat, failed : BOOLEAN]
  <2>1. q \in Nat /\ old.remaining - 1 \in Nat /\ old.next \in Nat
    BY <1>1, <1>3, <1>4, <1>6
  <2>2. new = [next |-> old.next, remaining |-> old.remaining - 1,
               completed |-> done, prefix |-> q,
               failed |-> old.failed \/ failed]
    BY DEF q
  <2> HIDE DEF new, done
  <2>3. (old.failed \/ failed) \in BOOLEAN
    OBVIOUS
  <2>4. QED
    BY <1>5, <2>1, <2>2, <2>3
<1> HIDE DEF new, done
<1>9. /\ req'[id] = new
      /\ \A r \in Requests : r # id => req'[r] = req[r]
      /\ req' \in [Requests -> [next : Nat, remaining : Nat,
                                completed : SUBSET Nat, prefix : Nat,
                                failed : BOOLEAN]]
  BY <1>1, <1>2, <1>3, <1>8
<1>10. /\ new.next <= Size(id) /\ new.remaining <= Size(id)
       /\ new.completed \in SUBSET (0 .. Size(id) - 1)
       /\ new.prefix <= Size(id)
  BY <1>1, <1>3, <1>4, <1>5, <1>6, <1>7
<1>11. RequestTypes'
  <2>1. queue' \in Seq(Requests)
    BY <1>2 DEF NInv, RequestTypes
  <2>2. ASSUME NEW r \in Requests
        PROVE  /\ req'[r].next <= Size(r) /\ req'[r].remaining <= Size(r)
               /\ req'[r].completed \in SUBSET (0 .. Size(r) - 1)
               /\ req'[r].prefix <= Size(r)
    BY <1>9, <1>10 DEF NInv, RequestTypes
  <2>3. QED
    BY <1>9, <2>1, <2>2 DEF RequestTypes
<1>12. CallerTypes'
  <2>1. caller' \in [Copiers -> {"submit", "use", "prefix", "prefix asleep",
                                 "finish", "finish asleep", "closed",
                                 "dropped"}]
    BY DEF NInv, CallerTypes, Complete
  <2>2. QED
    BY <1>2, <2>1 DEF NInv, CallerTypes
<1>13. QED
  BY <1>2, <1>4, <1>5, <1>6, <1>7, <1>9, <1>11, <1>12 DEF id, old

\* ... and what that keeps, when the block is let go of in the same step and
\* was copied unless it failed.
LEMMA BlockAccounted ==
  ASSUME NInv, NEW b \in AllBlocks, NEW failed \in BOOLEAN,
         Complete(b, failed), b \in Out(Id(b)),
         \A id \in Requests : Out(id)' = Out(id) \ {b},
         \A x \in AllBlocks : dst[x] = x => dst'[x] = x,
         failed \/ dst'[b] = b
  PROVE  /\ RequestTypes' /\ CallerTypes' /\ CountInv' /\ LandedInv'
         /\ PrefixInv' /\ ReadyInv' /\ QueueInv' /\ CallerInv'
<1> DEFINE me == Id(b)
<1>1. /\ RequestTypes' /\ CallerTypes'
      /\ \A id \in Requests : id # me => req'[id] = req[id]
      /\ req[me].remaining # 0
      /\ req'[me].next = req[me].next
      /\ req'[me].remaining = req[me].remaining - 1
      /\ req'[me].failed = (req[me].failed \/ failed)
      /\ req[me].completed \subseteq req'[me].completed
      /\ req'[me].completed \subseteq req[me].completed \cup {Position(b)}
      /\ failed => req'[me].completed = req[me].completed
      /\ \A p \in 0 .. req'[me].prefix - 1 : p \in req'[me].completed
      /\ \A c \in Copiers :
            caller'[c] = caller[c]
            \/ (caller[c] = "prefix asleep" /\ caller'[c] = "prefix")
            \/ (caller[c] = "finish asleep" /\ caller'[c] = "finish")
      /\ UNCHANGED <<streams, tracked, queue, stopping, sent, waited, want,
                     ready, raised>>
  BY CompleteFacts
<1>2. /\ me \in Requests /\ b = <<me, Position(b)>> /\ b \in Blocks(me)
      /\ \A id \in Requests : id # me => b \notin Out(id)
  BY BlockFacts DEF Out
<1> HIDE DEF me
<1>3. CountInv'
  <2>1. ASSUME NEW id \in Requests, id # me
        PROVE  /\ \A x \in Out(id)' : Position(x) < req'[id].next
               /\ req'[id].remaining = Size(id) - req'[id].next
                                       + Cardinality(Out(id)')
    <3>1. Out(id)' = Out(id)
      BY <1>2, <2>1
    <3>2. QED
      BY <1>1, <2>1, <3>1 DEF NInv, CountInv
  <2>2. \A x \in Out(me)' : Position(x) < req'[me].next
    BY <1>1, <1>2 DEF NInv, CountInv
  <2>3. req'[me].remaining = Size(me) - req'[me].next + Cardinality(Out(me)')
    <3>1. /\ IsFiniteSet(Out(me)) /\ Out(me)' = Out(me) \ {b} /\ b \in Out(me)
          /\ Cardinality(Out(me)) \in Nat
      BY <1>2, OutFacts DEF me
    <3>2. Cardinality(Out(me)') = Cardinality(Out(me)) - 1
      BY <3>1, FS_RemoveElement
    <3>3. req[me].remaining = Size(me) - req[me].next + Cardinality(Out(me))
      BY <1>2 DEF NInv, CountInv
    <3>4. Size(me) \in Nat /\ req[me].next \in Nat
      BY <1>2, RequestFacts DEF NInv, RequestTypes
    <3>5. \A s, n, c \in Nat : (s - n + c) - 1 = s - n + (c - 1)
      OBVIOUS
    <3>6. req'[me].remaining = Size(me) - req[me].next
                               + (Cardinality(Out(me)) - 1)
      <4>1. (Size(me) - req[me].next + Cardinality(Out(me))) - 1
               = Size(me) - req[me].next + (Cardinality(Out(me)) - 1)
        BY <3>1, <3>4, <3>5, Zenon
      <4>2. req'[me].remaining = req[me].remaining - 1
        BY <1>1
      <4>3. QED
        BY <3>3, <4>1, <4>2
    <3>7. QED
      BY <1>1, <3>2, <3>6
  <2>4. QED
    BY <2>1, <2>2, <2>3 DEF CountInv
<1>4. LandedInv'
  <2>1. SUFFICES ASSUME NEW id \in Requests, NEW p \in 0 .. req'[id].next - 1,
                        ~req'[id].failed, <<id, p>> \notin Out(id)'
                 PROVE  dst'[<<id, p>>] = <<id, p>>
    BY DEF LandedInv
  <2>2. p \in 0 .. req[id].next - 1 /\ ~req[id].failed
    BY <1>1, <2>1
  <2>3. CASE <<id, p>> = b
    <3>1. id = me
      BY <1>2, <2>3
    <3>2. ~failed
      BY <1>1, <2>1, <3>1
    <3>3. QED
      BY <2>3, <3>2
  <2>4. CASE <<id, p>> # b
    <3>1. <<id, p>> \notin Out(id)
      BY <2>1, <2>4
    <3>2. dst[<<id, p>>] = <<id, p>>
      BY <2>2, <3>1 DEF NInv, LandedInv
    <3>3. req[id].next \in Nat /\ req[id].next <= Size(id)
          /\ Size(id) \in Nat
      BY RequestFacts DEF NInv, RequestTypes
    <3>4. p \in 0 .. Size(id) - 1
      BY <2>2, <3>3
    <3>5. <<id, p>> \in AllBlocks
      BY <3>4, BlockFacts
    <3>6. QED
      BY <3>2, <3>5
  <2>5. QED
    BY <2>3, <2>4
<1>5. PrefixInv'
  <2>1. ASSUME NEW id \in Requests, NEW p \in req'[id].completed
        PROVE  dst'[<<id, p>>] = <<id, p>>
    <3>1. CASE p \in req[id].completed
      <4>1. p \in 0 .. Size(id) - 1
        BY <3>1 DEF NInv, RequestTypes
      <4>2. <<id, p>> \in AllBlocks
        BY <4>1, BlockFacts
      <4>3. QED
        BY <3>1, <4>2 DEF NInv, PrefixInv
    <3>2. CASE p \notin req[id].completed
      <4>1. id = me
        BY <1>1, <2>1, <3>2
      <4>2. p = Position(b) /\ ~failed
        BY <1>1, <2>1, <3>2, <4>1
      <4>3. QED
        BY <1>2, <4>1, <4>2
    <3>3. QED
      BY <3>1, <3>2
  <2>2. ASSUME NEW id \in Requests, NEW p \in 0 .. req'[id].prefix - 1
        PROVE  p \in req'[id].completed
    <3>1. CASE id = me
      BY <1>1, <2>2, <3>1
    <3>2. CASE id # me
      BY <1>1, <2>2, <3>2 DEF NInv, PrefixInv
    <3>3. QED
      BY <3>1, <3>2
  <2>3. QED
    BY <2>1, <2>2 DEF PrefixInv
<1>6. ReadyInv'
  <2>1. \A id \in Requests : req[id].completed \subseteq req'[id].completed
    BY <1>1
  <2>2. QED
    BY <1>1, <2>1 DEF NInv, ReadyInv
<1>7. QueueInv'
  <2>1. \A id \in Requests : req'[id].next = req[id].next
    BY <1>1
  <2>2. \A i \in 1 .. Len(queue) : queue[i] \in Requests
    BY DEF NInv, RequestTypes
  <2>3. QED
    BY <1>1, <2>1, <2>2 DEF NInv, QueueInv
<1>8. CallerInv'
  <2>1. ASSUME NEW c \in Copiers, NEW k \in 1 .. waited[c]
        PROVE  <<c, k>> \in Requests /\ req'[<<c, k>>] = req[<<c, k>>]
    <3>1. /\ waited[c] \in Nat /\ sent[c] \in Nat /\ waited[c] <= sent[c]
          /\ sent[c] <= Len(Length[c]) /\ Len(Length[c]) \in Nat
      BY RequestFacts DEF NInv, CallerTypes
    <3>2. k \in 1 .. Len(Length[c])
      BY <3>1
    <3>3. <<c, k>> \in Requests
      BY <3>2, RequestFacts
    <3>4. req[<<c, k>>].remaining = 0
      BY DEF NInv, CallerInv
    <3>5. QED
      BY <1>1, <3>3, <3>4
  <2>2. ASSUME NEW c \in Copiers
        PROVE  /\ caller'[c] = "submit" => caller[c] = "submit"
               /\ caller'[c] # "submit" => caller[c] # "submit"
               /\ caller'[c] = "closed" => caller[c] = "closed"
               /\ caller'[c] \in {"prefix", "prefix asleep"} =>
                     caller[c] \in {"prefix", "prefix asleep"}
    BY <1>1
  <2>3. ASSUME NEW c \in Copiers, NEW k \in 1 .. waited[c]
        PROVE  /\ req'[<<c, k>>].remaining = 0
               /\ req'[<<c, k>>].failed => raised[c]
    <3>1. req[<<c, k>>].remaining = 0 /\ (req[<<c, k>>].failed => raised[c])
      BY DEF NInv, CallerInv
    <3>2. req'[<<c, k>>] = req[<<c, k>>]
      BY <2>1
    <3>3. QED
      BY <3>1, <3>2
  <2>4. ASSUME NEW c \in Copiers
        PROVE  /\ caller'[c] = "submit" => sent[c] < Len(Length[c])
               /\ caller'[c] # "submit" =>
                     sent[c] = Len(Length[c]) \/ raised[c]
               /\ caller'[c] = "closed" => waited[c] = sent[c]
               /\ caller'[c] \in {"prefix", "prefix asleep"} =>
                     want[c][1] \in 1 .. Len(Length[c])
    BY <2>2 DEF NInv, CallerInv
  <2>5. UNCHANGED <<sent, waited, want, raised>>
    BY <1>1
  <2>6. QED
    BY <2>3, <2>4, <2>5 DEF CallerInv
<1>9. QED
  BY <1>1, <1>3, <1>4, <1>5, <1>6, <1>7, <1>8

-----------------------------------------------------------------------------
(* Each operation keeps the invariant.                                     *)

\* The copy from a buffer is over, and its block is accounted for.
LEMMA DrainFacts ==
  ASSUME NInv, NEW w \in Workers, NEW s \in Slots, pending[w][s] # NoBlock,
         Drain(w, s)
  PROVE  /\ RequestTypes' /\ CallerTypes' /\ OneHolder' /\ CountInv'
         /\ LandedInv' /\ PrefixInv' /\ ReadyInv' /\ QueueInv' /\ CallerInv'
         /\ pending' \in [Workers -> [Slots -> AllBlocks \cup {NoBlock}]]
         /\ bounce' \in [Workers -> [Slots -> AllBlocks \cup {NoBlock}]]
         /\ dma' \in [Workers -> [Slots ->
                                    {"none", "flying", "landed", "broken"}]]
         /\ \A v \in Workers : \A r \in Slots :
               IF v = w /\ r = s
               THEN /\ pending'[v][r] = NoBlock /\ bounce'[v][r] = NoBlock
                    /\ dma'[v][r] = "none"
               ELSE /\ pending'[v][r] = pending[v][r]
                    /\ bounce'[v][r] = bounce[v][r] /\ dma'[v][r] = dma[v][r]
<1> DEFINE b == pending[w][s]
           broken == dma[w][s] = "broken"
<1>1. /\ Complete(b, broken) /\ dma[w][s] # "flying"
      /\ pending' = [pending EXCEPT ![w][s] = NoBlock]
      /\ dma' = [dma EXCEPT ![w][s] = "none"]
      /\ bounce' = [bounce EXCEPT ![w][s] = NoBlock]
      /\ UNCHANGED <<slot, hand, dst>>
  BY DEF Drain
<1>2. /\ b \in AllBlocks /\ broken \in BOOLEAN
      /\ b \in Blocks(Id(b)) /\ Id(b) \in Requests
  BY BlockFacts DEF NInv, WorkerTypes
<1>3. DmaAt(w, s)
  BY DEF NInv, DmaInv
<1>4. broken \/ dst[b] = b
  <2>1. dma[w][s] \in {"none", "flying", "landed", "broken"}
    BY DEF NInv, WorkerTypes
  <2>2. QED
    BY <1>1, <1>3, <2>1 DEF DmaAt
<1> HIDE DEF b, broken
<1>5. /\ pending' \in [Workers -> [Slots -> AllBlocks \cup {NoBlock}]]
      /\ bounce' \in [Workers -> [Slots -> AllBlocks \cup {NoBlock}]]
      /\ dma' \in [Workers -> [Slots -> {"none", "flying", "landed", "broken"}]]
      /\ \A v \in Workers : \A r \in Slots :
            IF v = w /\ r = s
            THEN /\ pending'[v][r] = NoBlock /\ bounce'[v][r] = NoBlock
                 /\ dma'[v][r] = "none"
            ELSE /\ pending'[v][r] = pending[v][r]
                 /\ bounce'[v][r] = bounce[v][r] /\ dma'[v][r] = dma[v][r]
  BY <1>1 DEF NInv, WorkerTypes
<1>6. OneHolder'
  BY <1>1, <1>5 DEF NInv, OneHolder
<1>7. b \in Out(Id(b))
  BY <1>2 DEF Out, b
<1>8. \A id \in Requests : Out(id)' = Out(id) \ {b}
  <2>1. ASSUME NEW id \in Requests, NEW x \in Blocks(id)
        PROVE  x \in Out(id)' <=> x \in Out(id) /\ x # b
    <3>1. x # NoBlock
      BY BlockFacts
    <3>2. /\ \A v \in Workers : hand[v] # b
          /\ \A v \in Workers : \A r \in Slots :
                pending[v][r] = b => v = w /\ r = s
      BY <1>2, BlockFacts DEF NInv, OneHolder, b
    <3>3. b = pending[w][s]
      BY DEF b
    <3>4. QED
      BY <1>1, <1>5, <3>1, <3>2, <3>3 DEF Out
  <2>2. QED
    BY <2>1 DEF Out
<1>9. QED
  BY <1>1, <1>2, <1>4, <1>5, <1>6, <1>7, <1>8, BlockAccounted

\* A block in the hand of a worker is accounted for.
LEMMA HandFacts ==
  ASSUME NInv, NEW w \in Workers, hand[w] # NoBlock, NEW failed \in BOOLEAN,
         Complete(hand[w], failed), hand' = [hand EXCEPT ![w] = NoBlock],
         UNCHANGED pending,
         \A x \in AllBlocks : dst[x] = x => dst'[x] = x,
         failed \/ dst'[hand[w]] = hand[w]
  PROVE  /\ RequestTypes' /\ CallerTypes' /\ OneHolder' /\ CountInv'
         /\ LandedInv' /\ PrefixInv' /\ ReadyInv' /\ QueueInv' /\ CallerInv'
         /\ hand[w] \in AllBlocks
         /\ hand' \in [Workers -> AllBlocks \cup {NoBlock}]
         /\ \A v \in Workers :
               hand'[v] = IF v = w THEN NoBlock ELSE hand[v]
<1> DEFINE b == hand[w]
<1>1. /\ b \in AllBlocks /\ b \in Blocks(Id(b)) /\ Id(b) \in Requests
  BY BlockFacts DEF NInv, WorkerTypes
<1>2. /\ hand' \in [Workers -> AllBlocks \cup {NoBlock}]
      /\ \A v \in Workers : hand'[v] = IF v = w THEN NoBlock ELSE hand[v]
  BY DEF NInv, WorkerTypes
<1>3. OneHolder'
  BY <1>2 DEF NInv, OneHolder
<1>4. b \in Out(Id(b))
  BY <1>1 DEF Out
<1>5. \A id \in Requests : Out(id)' = Out(id) \ {b}
  <2>1. ASSUME NEW id \in Requests, NEW x \in Blocks(id)
        PROVE  x \in Out(id)' <=> x \in Out(id) /\ x # b
    <3>1. x # NoBlock
      BY BlockFacts
    <3>2. /\ \A v \in Workers : hand[v] = b => v = w
          /\ \A v \in Workers : \A r \in Slots : pending[v][r] # b
      BY <1>1, BlockFacts DEF NInv, OneHolder
    <3>3. QED
      BY <1>2, <3>1, <3>2 DEF Out
  <2>2. QED
    BY <2>1 DEF Out
<1> HIDE DEF b
<1>6. Complete(b, failed) /\ (failed \/ dst'[b] = b)
  BY DEF b
<1>7. QED
  BY <1>1, <1>2, <1>3, <1>4, <1>5, <1>6, BlockAccounted DEF b

\* A worker finds the queue empty, ...
LEMMA NoWorkNInv ==
  ASSUME NInv, NEW w \in Workers, NoWork(w)
  PROVE  NInv'
<1>1. UNCHANGED <<streams, tracked, queue, req, stopping, slot, hand,
                  pending, bounce, dma, dst, caller, sent, waited, want,
                  ready, raised>>
  BY DEF NoWork, WorkerGoes, BeforeSleep, options, reader, worker, memory,
     copier
<1>2. RequestTypes' /\ CallerTypes' /\ DstInv' /\ OneHolder' /\ CountInv' /\
      LandedInv' /\ PrefixInv' /\ ReadyInv' /\ QueueInv' /\ CallerInv'
  BY <1>1, Frame
<1>3. WorkerTypes'
  BY DEF NInv, WorkerTypes, NoWork, WorkerGoes, BeforeSleep, options, reader,
     worker, memory, copier
<1>4. AtInv'
  BY DEF NInv, AtInv, NoWork, WorkerGoes, BeforeSleep, options, reader,
     worker, memory, copier, WorkerTypes, Slots, BuffersPerThread
<1>5. DmaInv'
  BY DEF NInv, DmaInv, DmaAt, Flying, NoWork, WorkerGoes, BeforeSleep,
     options, reader, worker, memory, copier, WorkerTypes
<1>6. QED
  BY <1>2, <1>3, <1>4, <1>5 DEF NInv

\* ... has drained its buffers, ...
LEMMA BuffersDrainedNInv ==
  ASSUME NInv, NEW w \in Workers, BuffersDrained(w)
  PROVE  NInv'
<1>1. UNCHANGED <<streams, tracked, queue, req, stopping, slot, hand,
                  pending, bounce, dma, dst, caller, sent, waited, want,
                  ready, raised>>
  BY DEF BuffersDrained, WorkerGoes, options, reader, worker, memory, copier
<1>2. RequestTypes' /\ CallerTypes' /\ DstInv' /\ OneHolder' /\ CountInv' /\
      LandedInv' /\ PrefixInv' /\ ReadyInv' /\ QueueInv' /\ CallerInv'
  BY <1>1, Frame
<1>3. WorkerTypes'
  BY DEF NInv, WorkerTypes, BuffersDrained, WorkerGoes, options, reader,
     worker, memory, copier
<1>4. AtInv'
  BY DEF NInv, AtInv, BuffersDrained, WorkerGoes, options, reader, worker,
     memory, copier, WorkerTypes, Slots, BuffersPerThread
<1>5. DmaInv'
  BY DEF NInv, DmaInv, DmaAt, Flying, BuffersDrained, WorkerGoes, options,
     reader, worker, memory, copier, WorkerTypes
<1>6. QED
  BY <1>2, <1>3, <1>4, <1>5 DEF NInv

\* ... sleeps, ...
LEMMA SleepNInv ==
  ASSUME NInv, NEW w \in Workers, Sleep(w)
  PROVE  NInv'
<1>1. UNCHANGED <<streams, tracked, queue, req, stopping, slot, hand,
                  pending, bounce, dma, dst, caller, sent, waited, want,
                  ready, raised>>
  BY DEF Sleep, WorkerGoes, options, reader, worker, memory, copier
<1>2. RequestTypes' /\ CallerTypes' /\ DstInv' /\ OneHolder' /\ CountInv' /\
      LandedInv' /\ PrefixInv' /\ ReadyInv' /\ QueueInv' /\ CallerInv'
  BY <1>1, Frame
<1>3. WorkerTypes'
  BY DEF NInv, WorkerTypes, Sleep, WorkerGoes, options, reader, worker,
     memory, copier
<1>4. AtInv'
  BY DEF NInv, AtInv, Sleep, WorkerGoes, options, reader, worker, memory,
     copier, WorkerTypes, Slots, BuffersPerThread
<1>5. DmaInv'
  BY DEF NInv, DmaInv, DmaAt, Flying, Sleep, WorkerGoes, options, reader,
     worker, memory, copier, WorkerTypes
<1>6. QED
  BY <1>2, <1>3, <1>4, <1>5 DEF NInv

\* ... and exits when the reader is destroyed.
LEMMA ExitNInv ==
  ASSUME NInv, NEW w \in Workers, Exit(w)
  PROVE  NInv'
<1>1. UNCHANGED <<streams, tracked, queue, req, stopping, slot, hand,
                  pending, bounce, dma, dst, caller, sent, waited, want,
                  ready, raised>>
  BY DEF Exit, WorkerGoes, options, reader, worker, memory, copier
<1>2. RequestTypes' /\ CallerTypes' /\ DstInv' /\ OneHolder' /\ CountInv' /\
      LandedInv' /\ PrefixInv' /\ ReadyInv' /\ QueueInv' /\ CallerInv'
  BY <1>1, Frame
<1>3. WorkerTypes'
  BY DEF NInv, WorkerTypes, Exit, WorkerGoes, options, reader, worker, memory,
     copier
<1>4. AtInv'
  BY DEF NInv, AtInv, Exit, WorkerGoes, options, reader, worker, memory,
     copier, WorkerTypes, Slots, BuffersPerThread
<1>5. DmaInv'
  BY DEF NInv, DmaInv, DmaAt, Flying, Exit, WorkerGoes, options, reader,
     worker, memory, copier, WorkerTypes
<1>6. QED
  BY <1>2, <1>3, <1>4, <1>5 DEF NInv

\* A worker takes the next block of the request at the head.
LEMMA FindWorkNInv ==
  ASSUME NInv, NEW w \in Workers, FindWork(w)
  PROVE  NInv'
<1>1. PICK id \in Requests :
         /\ id = Head(queue) /\ id = queue[1] /\ Len(queue) \in Nat \ {0}
         /\ \A i \in 1 .. Len(queue) : queue[i] \in Requests
         /\ queue \in Seq(Requests) /\ queue # <<>>
  <2>1. queue \in Seq(Requests) /\ queue # <<>>
    BY DEF NInv, RequestTypes, FindWork
  <2>2. /\ Head(queue) = queue[1] /\ Len(queue) \in Nat \ {0}
        /\ \A i \in 1 .. Len(queue) : queue[i] \in Requests
        /\ Head(queue) \in Requests
    BY <2>1
  <2>3. QED
    BY <2>1, <2>2
<1>2. PICK p \in Nat :
         /\ p = req[id].next /\ Size(id) \in Nat /\ p < Size(id)
         /\ id[2] <= sent[id[1]]
  <2>1. 1 \in 1 .. Len(queue)
    BY <1>1
  <2>2. req[id].next < Size(id) /\ id[2] <= sent[id[1]]
    BY <1>1, <2>1 DEF NInv, QueueInv
  <2>3. req[id].next \in Nat /\ Size(id) \in Nat
    BY RequestFacts DEF NInv, RequestTypes
  <2>4. QED
    BY <2>2, <2>3
<1> DEFINE b == <<id, p>>
<1>3. b \in AllBlocks /\ b \in Blocks(id) /\ b # NoBlock /\ Id(b) = id
  <2>1. p \in 0 .. Size(id) - 1
    BY <1>2
  <2>2. QED
    BY <1>1, <2>1, BlockFacts
<1>4. /\ hand' = [hand EXCEPT ![w] = b]
      /\ req' = [req EXCEPT ![id].next = p + 1]
      /\ queue' = IF p + 1 = Size(id) THEN Tail(queue) ELSE queue
      /\ at' = [at EXCEPT ![w] = IF pending[w][slot[w]] # NoBlock
                                 THEN "reuse" ELSE "read"]
      /\ at[w] \in {"look", "wait"}
      /\ UNCHANGED <<streams, tracked, stopping, slot, pending, bounce, dma,
                     dst, caller, sent, waited, want, ready, raised>>
  BY <1>1, <1>2
     DEF FindWork, Take, IsLast, MustDrain, Size, options, memory, copier
<1>5. hand[w] = NoBlock
  BY <1>4 DEF NInv, AtInv
<1>6. b \notin Out(id)
  <2>1. Position(b) = p /\ ~(p < p)
    BY <1>2 DEF Position
  <2>2. QED
    BY <1>1, <1>2, <2>1 DEF NInv, CountInv
<1> HIDE DEF b
<1>7. /\ hand' \in [Workers -> AllBlocks \cup {NoBlock}]
      /\ at' \in [Workers -> {"look", "drain", "wait", "asleep", "exited",
                              "reuse", "read", "copy", "abort"}]
      /\ \A v \in Workers :
            /\ hand'[v] = IF v = w THEN b ELSE hand[v]
            /\ at'[v] = IF v = w
                        THEN IF pending[w][slot[w]] # NoBlock
                             THEN "reuse" ELSE "read"
                        ELSE at[v]
  BY <1>3, <1>4 DEF NInv, WorkerTypes
<1>8. /\ req' \in [Requests -> [next : Nat, remaining : Nat,
                                completed : SUBSET Nat, prefix : Nat,
                                failed : BOOLEAN]]
      /\ \A r \in Requests :
            /\ req'[r].next = IF r = id THEN p + 1 ELSE req[r].next
            /\ req'[r].remaining = req[r].remaining
            /\ req'[r].completed = req[r].completed
            /\ req'[r].prefix = req[r].prefix
            /\ req'[r].failed = req[r].failed
  <2>1. p + 1 \in Nat
    BY <1>2
  <2>2. QED
    BY <1>1, <1>4, <2>1 DEF NInv, RequestTypes
<1>9. /\ CallerTypes' /\ DstInv'
  BY <1>4, Frame
<1>10. WorkerTypes'
  BY <1>4, <1>7 DEF NInv, WorkerTypes
<1>11. AtInv'
  <2>1. \A s \in Slots : pending[w][s] = NoBlock => dma[w][s] = "none"
    BY <1>4 DEF NInv, DmaInv, DmaAt
  <2>2. slot[w] \in Slots
    BY DEF NInv, WorkerTypes
  <2>3. QED
    BY <1>3, <1>4, <1>7, <2>1, <2>2 DEF NInv, AtInv
<1>12. DmaInv'
  <2>1. SUFFICES ASSUME NEW v \in Workers, NEW s \in Slots PROVE DmaAt(v, s)'
    BY DEF DmaInv
  <2>2. DmaAt(v, s)
    BY DEF NInv, DmaInv
  <2>3. CASE v = w
    BY <1>4, <2>2, <2>3 DEF DmaAt, Flying
  <2>4. CASE v # w
    BY <1>4, <1>7, <2>2, <2>4 DEF DmaAt, Flying
  <2>5. QED
    BY <2>3, <2>4
<1>13. /\ \A v \in Workers : hand[v] # b
       /\ \A v \in Workers : \A s \in Slots : pending[v][s] # b
  BY <1>1, <1>3, <1>6 DEF Out
<1>14. OneHolder'
  BY <1>4, <1>7, <1>13 DEF NInv, OneHolder
<1>15. /\ Out(id)' = Out(id) \cup {b}
       /\ \A r \in Requests : r # id => Out(r)' = Out(r)
  <2>1. ASSUME NEW r \in Requests, NEW x \in Blocks(r)
        PROVE  x \in Out(r)' <=> x \in Out(r) \/ x = b
    <3>1. x # NoBlock
      BY BlockFacts
    <3>2. QED
      BY <1>4, <1>5, <1>7, <3>1 DEF Out
  <2>2. \A r \in Requests : r # id => b \notin Blocks(r)
    BY <1>3, BlockFacts
  <2>3. \A r \in Requests :
           Out(r)' \subseteq Blocks(r) /\ Out(r) \subseteq Blocks(r)
    BY DEF Out
  <2>4. Out(id)' = Out(id) \cup {b}
    <3>1. b \in Out(id)'
      BY <1>3, <2>1
    <3>2. QED
      BY <2>1, <2>3, <3>1
  <2>5. ASSUME NEW r \in Requests, r # id PROVE Out(r)' = Out(r)
    BY <2>1, <2>2, <2>3, <2>5
  <2>6. QED
    BY <2>4, <2>5
<1>16. RequestTypes'
  <2>1. queue' \in Seq(Requests)
    BY <1>1, <1>4
  <2>2. p + 1 <= Size(id)
    BY <1>2
  <2>3. \A r \in Requests :
           /\ req'[r].next <= Size(r) /\ req'[r].remaining <= Size(r)
           /\ req'[r].completed \in SUBSET (0 .. Size(r) - 1)
           /\ req'[r].prefix <= Size(r)
    BY <1>8, <2>2 DEF NInv, RequestTypes
  <2>4. QED
    BY <1>8, <2>1, <2>3 DEF RequestTypes
<1>17. CountInv'
  <2>1. ASSUME NEW r \in Requests, r # id
        PROVE  /\ \A x \in Out(r)' : Position(x) < req'[r].next
               /\ req'[r].remaining = Size(r) - req'[r].next
                                      + Cardinality(Out(r)')
    BY <1>8, <1>15, <2>1 DEF NInv, CountInv
  <2>2. ASSUME NEW x \in Out(id)' PROVE Position(x) < req'[id].next
    <3>1. req'[id].next = p + 1
      BY <1>1, <1>8
    <3>2. CASE x = b
      <4>1. Position(x) = p
        BY <3>2 DEF Position, b
      <4>2. QED
        BY <1>2, <3>1, <4>1
    <3>3. CASE x \in Out(id)
      <4>1. Position(x) < p /\ Position(x) \in Nat
        BY <1>1, <3>3, <1>2, BlockFacts DEF NInv, CountInv, Out
      <4>2. QED
        BY <1>2, <3>1, <4>1
    <3>4. QED
      BY <1>15, <2>2, <3>2, <3>3
  <2>3. req'[id].remaining = Size(id) - req'[id].next + Cardinality(Out(id)')
    <3>1. /\ IsFiniteSet(Out(id)) /\ Cardinality(Out(id)) \in Nat
      BY <1>1, OutFacts
    <3>2. Cardinality(Out(id)') = Cardinality(Out(id)) + 1
      BY <1>6, <1>15, <3>1, FS_AddElement
    <3>3. req[id].remaining = Size(id) - p + Cardinality(Out(id))
      BY <1>1, <1>2 DEF NInv, CountInv
    <3>4. req'[id].next = p + 1 /\ req'[id].remaining = req[id].remaining
      BY <1>1, <1>8
    <3>5. Size(id) - p + Cardinality(Out(id))
             = Size(id) - (p + 1) + (Cardinality(Out(id)) + 1)
      BY <1>2, <3>1
    <3>6. QED
      BY <3>2, <3>3, <3>4, <3>5
  <2>4. QED
    <3>1. ASSUME NEW r \in Requests
          PROVE  /\ \A x \in Out(r)' : Position(x) < req'[r].next
                 /\ req'[r].remaining = Size(r) - req'[r].next
                                        + Cardinality(Out(r)')
      <4>1. CASE r = id
        BY <2>2, <2>3, <4>1
      <4>2. CASE r # id
        BY <2>1, <4>2
      <4>3. QED
        BY <4>1, <4>2
    <3>2. QED
      BY <3>1 DEF CountInv
<1>18. LandedInv'
  <2>1. SUFFICES ASSUME NEW r \in Requests, NEW q \in 0 .. req'[r].next - 1
                 PROVE  \/ <<r, q>> \in Out(r)'
                        \/ dst[<<r, q>>] = <<r, q>>
                        \/ req[r].failed
    BY <1>4, <1>8 DEF LandedInv
  <2>2. CASE r = id /\ q = p
    BY <1>15, <2>2 DEF b
  <2>3. CASE ~(r = id /\ q = p)
    <3>1. q \in 0 .. req[r].next - 1
      <4>1. CASE r = id
        <5>1. req'[r].next = p + 1 /\ req[r].next = p /\ q # p
          BY <1>2, <1>8, <2>3, <4>1
        <5>2. QED
          BY <1>2, <2>1, <5>1
      <4>2. CASE r # id
        BY <1>8, <2>1, <4>2
      <4>3. QED
        BY <4>1, <4>2
    <3>2. <<r, q>> \in Out(r) => <<r, q>> \in Out(r)'
      BY <1>15
    <3>3. QED
      BY <3>1, <3>2 DEF NInv, LandedInv
  <2>4. QED
    BY <2>2, <2>3
<1>19. PrefixInv' /\ ReadyInv'
  BY <1>4, <1>8 DEF NInv, PrefixInv, ReadyInv
<1>20. QueueInv'
  <2>1. \A r \in Requests : r[2] > sent'[r[1]] => req'[r].next = 0
    <3>1. id[2] \in Nat /\ sent[id[1]] \in Nat
      BY <1>1, RequestFacts DEF NInv, CallerTypes
    <3>2. ~(id[2] > sent[id[1]])
      BY <1>2, <3>1
    <3>3. QED
      BY <1>4, <1>8, <3>2 DEF NInv, QueueInv
  <2>2. CASE p + 1 = Size(id)
    <3>1. queue' = Tail(queue) /\ Len(queue') = Len(queue) - 1
      BY <1>1, <1>4, <2>2
    <3>2. \A i \in 1 .. Len(queue') :
             /\ queue'[i] = queue[i + 1] /\ i + 1 \in 1 .. Len(queue)
             /\ i + 1 # 1 /\ i \in Nat
      BY <1>1, <3>1
    <3>3. \A i \in 1 .. Len(queue') : queue'[i] \in Requests /\ queue'[i] # id
      <4>1. 1 \in 1 .. Len(queue)
        BY <1>1
      <4>2. QED
        BY <1>1, <3>2, <4>1 DEF NInv, QueueInv
    <3>4. ASSUME NEW i \in 1 .. Len(queue')
          PROVE  /\ queue'[i][2] <= sent[queue'[i][1]]
                 /\ req'[queue'[i]].next < Size(queue'[i])
      <4>1. /\ queue[i + 1][2] <= sent[queue[i + 1][1]]
            /\ req[queue[i + 1]].next < Size(queue[i + 1])
        BY <3>2 DEF NInv, QueueInv
      <4>2. req'[queue'[i]].next = req[queue'[i]].next
        BY <1>8, <3>3
      <4>3. QED
        BY <3>2, <4>1, <4>2
    <3>5. ASSUME NEW i \in 1 .. Len(queue'), NEW j \in 1 .. Len(queue'),
                 queue'[i] = queue'[j]
          PROVE  i = j
      <4>1. i + 1 = j + 1
        BY <3>2, <3>5 DEF NInv, QueueInv
      <4>2. QED
        BY <3>2, <4>1
    <3>6. QED
      BY <1>4, <2>1, <3>4, <3>5 DEF QueueInv
  <2>3. CASE p + 1 # Size(id)
    <3>1. queue' = queue
      BY <1>4, <2>3
    <3>2. p + 1 < Size(id)
      BY <1>2, <2>3
    <3>3. \A i \in 1 .. Len(queue) : req'[queue[i]].next < Size(queue[i])
      BY <1>1, <1>8, <3>2 DEF NInv, QueueInv
    <3>4. QED
      BY <1>4, <2>1, <3>1, <3>3 DEF NInv, QueueInv
  <2>4. QED
    BY <2>2, <2>3
<1>21. CallerInv'
  <2>1. ASSUME NEW c \in Copiers, NEW k \in 1 .. waited[c]
        PROVE  <<c, k>> \in Requests
    <3>1. /\ waited[c] \in Nat /\ sent[c] \in Nat /\ waited[c] <= sent[c]
          /\ sent[c] <= Len(Length[c]) /\ Len(Length[c]) \in Nat
      BY RequestFacts DEF NInv, CallerTypes
    <3>2. k \in 1 .. Len(Length[c])
      BY <3>1
    <3>3. QED
      BY <3>2, RequestFacts
  <2>2. QED
    <3>1. ASSUME NEW c \in Copiers, NEW k \in 1 .. waited[c]
          PROVE  /\ req'[<<c, k>>].remaining = 0
                 /\ req'[<<c, k>>].failed => raised[c]
      <4>1. /\ req[<<c, k>>].remaining = 0
            /\ req[<<c, k>>].failed => raised[c]
        BY DEF NInv, CallerInv
      <4>2. QED
        BY <1>8, <2>1, <4>1
    <3>2. ASSUME NEW c \in Copiers
          PROVE  /\ caller[c] = "submit" => sent[c] < Len(Length[c])
                 /\ caller[c] # "submit" =>
                       sent[c] = Len(Length[c]) \/ raised[c]
                 /\ caller[c] = "closed" => waited[c] = sent[c]
                 /\ caller[c] \in {"prefix", "prefix asleep"} =>
                       want[c][1] \in 1 .. Len(Length[c])
      BY DEF NInv, CallerInv
    <3>3. QED
      BY <1>4, <3>1, <3>2 DEF CallerInv
<1>22. QED
  BY <1>9, <1>10, <1>11, <1>12, <1>14, <1>16, <1>17, <1>18, <1>19, <1>20,
     <1>21 DEF NInv

\* A worker without work accounts for the blocks it has pending, ...
LEMMA DrainIdleNInv ==
  ASSUME NInv, NEW w \in Workers, DrainIdle(w)
  PROVE  NInv'
<1>1. UNCHANGED <<streams, tracked, queue, stopping, at, slot, hand, dst,
                  sent, waited, want, ready, raised>>
  BY DEF DrainIdle, Drain, Complete, options, reader, worker, memory, copier
<1>2. DstInv'
  BY <1>1, Frame
<1>3. PICK s \in Slots : pending[w][s] # NoBlock /\ Drain(w, s)
  BY DEF DrainIdle
<1>4. /\ RequestTypes' /\ CallerTypes' /\ OneHolder' /\ CountInv' /\ LandedInv'
      /\ PrefixInv' /\ ReadyInv' /\ QueueInv' /\ CallerInv'
      /\ pending' \in [Workers -> [Slots -> AllBlocks \cup {NoBlock}]]
      /\ bounce' \in [Workers -> [Slots -> AllBlocks \cup {NoBlock}]]
      /\ dma' \in [Workers -> [Slots -> {"none", "flying", "landed", "broken"}]]
      /\ \A v \in Workers : \A r \in Slots :
            IF v = w /\ r = s
            THEN /\ pending'[v][r] = NoBlock /\ bounce'[v][r] = NoBlock
                 /\ dma'[v][r] = "none"
            ELSE /\ pending'[v][r] = pending[v][r]
                 /\ bounce'[v][r] = bounce[v][r] /\ dma'[v][r] = dma[v][r]
  BY <1>3, DrainFacts
<1>5. at[w] = "drain"
  BY DEF DrainIdle
<1>6. WorkerTypes'
  BY <1>1, <1>4 DEF NInv, WorkerTypes
<1>7. AtInv'
  <2>1. \A v \in Workers : slot[v] \in Slots
    BY DEF NInv, WorkerTypes
  <2>2. \A v \in Workers : v # w =>
           /\ pending'[v][slot[v]] = pending[v][slot[v]]
           /\ bounce'[v][slot[v]] = bounce[v][slot[v]]
           /\ dma'[v][slot[v]] = dma[v][slot[v]]
    BY <1>4, <2>1
  <2>3. QED
    BY <1>1, <1>5, <2>2 DEF NInv, AtInv
<1>8. DmaInv'
  <2>1. SUFFICES ASSUME NEW v \in Workers, NEW r \in Slots PROVE DmaAt(v, r)'
    BY DEF DmaInv
  <2>2. DmaAt(v, r)
    BY DEF NInv, DmaInv
  <2>3. CASE v = w /\ r = s
    BY <1>1, <1>4, <2>3 DEF DmaAt
  <2>4. CASE ~(v = w /\ r = s)
    BY <1>1, <1>4, <2>2, <2>4 DEF DmaAt, Flying
  <2>5. QED
    BY <2>3, <2>4
<1>9. QED
  BY <1>2, <1>3, <1>4, <1>5, <1>6, <1>7, <1>8 DEF NInv

\* ... and so does one that needs the buffer.
LEMMA DrainReuseNInv ==
  ASSUME NInv, NEW w \in Workers, DrainReuse(w)
  PROVE  NInv'
<1>1. UNCHANGED <<streams, tracked, queue, stopping, slot, hand, dst, sent,
                  waited, want, ready, raised>>
  BY DEF DrainReuse, Drain, Complete, WorkerGoes, options, reader, worker,
     memory, copier
<1>2. DstInv'
  BY <1>1, Frame
<1>3. /\ Drain(w, slot[w]) /\ slot[w] \in Slots /\ at[w] = "reuse"
      /\ pending[w][slot[w]] # NoBlock
      /\ at' = [at EXCEPT ![w] = "read"]
  BY DEF NInv, WorkerTypes, AtInv, DrainReuse, WorkerGoes
<1>4. /\ RequestTypes' /\ CallerTypes' /\ OneHolder' /\ CountInv' /\ LandedInv'
      /\ PrefixInv' /\ ReadyInv' /\ QueueInv' /\ CallerInv'
      /\ pending' \in [Workers -> [Slots -> AllBlocks \cup {NoBlock}]]
      /\ bounce' \in [Workers -> [Slots -> AllBlocks \cup {NoBlock}]]
      /\ dma' \in [Workers -> [Slots -> {"none", "flying", "landed", "broken"}]]
      /\ \A v \in Workers : \A r \in Slots :
            IF v = w /\ r = slot[w]
            THEN /\ pending'[v][r] = NoBlock /\ bounce'[v][r] = NoBlock
                 /\ dma'[v][r] = "none"
            ELSE /\ pending'[v][r] = pending[v][r]
                 /\ bounce'[v][r] = bounce[v][r] /\ dma'[v][r] = dma[v][r]
  BY <1>3, DrainFacts
<1>5. \A v \in Workers : at'[v] = IF v = w THEN "read" ELSE at[v]
  BY <1>3 DEF NInv, WorkerTypes
<1>6. WorkerTypes'
  BY <1>1, <1>3, <1>4 DEF NInv, WorkerTypes
<1>7. AtInv'
  <2>1. \A v \in Workers : slot[v] \in Slots
    BY DEF NInv, WorkerTypes
  <2>2. \A v \in Workers : v # w =>
           /\ pending'[v][slot[v]] = pending[v][slot[v]]
           /\ bounce'[v][slot[v]] = bounce[v][slot[v]]
           /\ dma'[v][slot[v]] = dma[v][slot[v]]
    BY <1>4, <2>1
  <2>3. /\ pending'[w][slot[w]] = NoBlock /\ dma'[w][slot[w]] = "none"
    BY <1>3, <1>4
  <2>4. QED
    BY <1>1, <1>3, <1>5, <2>2, <2>3 DEF NInv, AtInv
<1>8. DmaInv'
  <2>1. SUFFICES ASSUME NEW v \in Workers, NEW r \in Slots PROVE DmaAt(v, r)'
    BY DEF DmaInv
  <2>2. DmaAt(v, r)
    BY DEF NInv, DmaInv
  <2>3. CASE v = w /\ r = slot[w]
    BY <1>1, <1>4, <2>3 DEF DmaAt
  <2>4. CASE ~(v = w /\ r = slot[w])
    BY <1>1, <1>5, <1>4, <2>2, <2>4 DEF DmaAt, Flying
  <2>5. QED
    BY <2>3, <2>4
<1>9. QED
  BY SMTT(30), <1>2, <1>3, <1>4, <1>5, <1>6, <1>7, <1>8 DEF NInv

\* A block is read into the bounce buffer, ...
LEMMA ReadNInv ==
  ASSUME NInv, NEW w \in Workers, Read(w)
  PROVE  NInv'
<1>1. UNCHANGED <<streams, tracked, queue, req, stopping, slot, hand,
                  pending, dma, dst, caller, sent, waited, want, ready,
                  raised>>
  BY DEF Read, WorkerGoes, options, reader, worker, memory, copier
<1>2. RequestTypes' /\ CallerTypes' /\ DstInv' /\ OneHolder' /\ CountInv' /\
      LandedInv' /\ PrefixInv' /\ ReadyInv' /\ QueueInv' /\ CallerInv'
  BY <1>1, Frame
<1>3. WorkerTypes'
  BY DEF NInv, WorkerTypes, Read, WorkerGoes, options, reader, worker, memory,
     copier
<1>4. AtInv'
  BY DEF NInv, AtInv, Read, WorkerGoes, options, reader, worker, memory,
     copier, WorkerTypes, Slots, BuffersPerThread
<1>5. DmaInv'
  <2>1. \A v \in Workers : \A r \in Slots :
           bounce'[v][r] = IF v = w /\ r = slot[w] THEN hand[w]
                           ELSE bounce[v][r]
    BY DEF NInv, WorkerTypes, Read
  <2>2. /\ at[w] = "read" /\ dma[w][slot[w]] = "none"
        /\ pending[w][slot[w]] = NoBlock
        /\ \A v \in Workers : v # w => at'[v] = at[v]
    BY DEF NInv, WorkerTypes, AtInv, Read, WorkerGoes
  <2>3. SUFFICES ASSUME NEW v \in Workers, NEW r \in Slots PROVE DmaAt(v, r)'
    BY DEF DmaInv
  <2>4. DmaAt(v, r)
    BY DEF NInv, DmaInv
  <2>5. CASE v = w /\ r = slot[w]
    BY <1>1, <2>2, <2>5 DEF DmaAt
  <2>6. CASE ~(v = w /\ r = slot[w])
    BY <1>1, <2>1, <2>2, <2>4, <2>6 DEF DmaAt, Flying
  <2>7. QED
    BY <2>5, <2>6
<1>6. QED
  BY <1>2, <1>3, <1>4, <1>5 DEF NInv

\* ... or it is not.
LEMMA ReadFailsNInv ==
  ASSUME NInv, NEW w \in Workers, ReadFails(w)
  PROVE  NInv'
<1>1. UNCHANGED <<streams, tracked, queue, req, stopping, slot, hand,
                  pending, dma, dst, caller, sent, waited, want, ready,
                  raised>>
  BY DEF ReadFails, WorkerGoes, options, reader, worker, memory, copier
<1>2. RequestTypes' /\ CallerTypes' /\ DstInv' /\ OneHolder' /\ CountInv' /\
      LandedInv' /\ PrefixInv' /\ ReadyInv' /\ QueueInv' /\ CallerInv'
  BY <1>1, Frame
<1>3. WorkerTypes'
  BY DEF NInv, WorkerTypes, ReadFails, WorkerGoes, options, reader, worker,
     memory, copier
<1>4. AtInv'
  BY DEF NInv, AtInv, ReadFails, WorkerGoes, options, reader, worker, memory,
     copier, WorkerTypes, Slots, BuffersPerThread
<1>5. DmaInv'
  <2>1. \A v \in Workers : \A r \in Slots :
           bounce'[v][r] = IF v = w /\ r = slot[w] THEN NoBlock
                           ELSE bounce[v][r]
    BY DEF NInv, WorkerTypes, ReadFails
  <2>2. /\ at[w] = "read" /\ dma[w][slot[w]] = "none"
        /\ pending[w][slot[w]] = NoBlock
        /\ \A v \in Workers : v # w => at'[v] = at[v]
    BY DEF NInv, WorkerTypes, AtInv, ReadFails, WorkerGoes
  <2>3. SUFFICES ASSUME NEW v \in Workers, NEW r \in Slots PROVE DmaAt(v, r)'
    BY DEF DmaInv
  <2>4. DmaAt(v, r)
    BY DEF NInv, DmaInv
  <2>5. CASE v = w /\ r = slot[w]
    BY <1>1, <2>2, <2>5 DEF DmaAt
  <2>6. CASE ~(v = w /\ r = slot[w])
    BY <1>1, <2>1, <2>2, <2>4, <2>6 DEF DmaAt, Flying
  <2>7. QED
    BY <2>5, <2>6
<1>6. QED
  BY <1>2, <1>3, <1>4, <1>5 DEF NInv

\* The copy to the device is started, ...
LEMMA StartCopyNInv ==
  ASSUME NInv, NEW w \in Workers, StartCopy(w)
  PROVE  NInv'
<1>1. UNCHANGED <<streams, tracked, queue, req, stopping, bounce, dst,
                  caller, sent, waited, want, ready, raised>>
  BY DEF StartCopy, WorkerGoes, NextSlot, options, reader, worker, memory,
     copier
<1>2. RequestTypes' /\ CallerTypes' /\ DstInv' /\ PrefixInv' /\ ReadyInv' /\
      QueueInv' /\ CallerInv'
  BY <1>1, Frame
<1>3. /\ \A v \in Workers : \A r \in Slots :
            /\ dma'[v][r] = IF v = w /\ r = slot[w] THEN "flying"
                            ELSE dma[v][r]
            /\ pending'[v][r] = IF v = w /\ r = slot[w] THEN hand[w]
                                ELSE pending[v][r]
      /\ \A v \in Workers : /\ hand'[v] = IF v = w THEN NoBlock ELSE hand[v]
                            /\ v # w => at'[v] = at[v] /\ slot'[v] = slot[v]
  BY DEF NInv, WorkerTypes, StartCopy, WorkerGoes, NextSlot
<1>4. /\ at[w] = "copy" /\ pending[w][slot[w]] = NoBlock
      /\ hand[w] # NoBlock /\ bounce[w][slot[w]] = hand[w]
      /\ slot[w] \in Slots
  BY DEF NInv, WorkerTypes, AtInv, StartCopy, WorkerGoes
<1>5. \A id \in Requests : Out(id)' = Out(id)
  BY <1>3, <1>4 DEF Out
<1>6. WorkerTypes'
  BY DEF NInv, WorkerTypes, StartCopy, WorkerGoes, NextSlot, options, reader,
     worker, memory, copier, Slots, BuffersPerThread
<1>7. AtInv'
  BY DEF NInv, AtInv, StartCopy, WorkerGoes, NextSlot, options, reader,
     worker, memory, copier, WorkerTypes, Slots, BuffersPerThread
<1>8. DmaInv'
  <2>1. SUFFICES ASSUME NEW v \in Workers, NEW r \in Slots PROVE DmaAt(v, r)'
    BY DEF DmaInv
  <2>2. DmaAt(v, r)
    BY DEF NInv, DmaInv
  <2>3. CASE v = w /\ r = slot[w]
    BY <1>1, <1>3, <1>4, <2>3 DEF DmaAt, Flying
  <2>4. CASE v = w /\ r # slot[w]
    BY <1>1, <1>3, <1>4, <2>2, <2>4 DEF DmaAt, Flying
  <2>5. CASE v # w
    BY <1>1, <1>3, <2>2, <2>5 DEF DmaAt, Flying
  <2>6. QED
    BY <2>3, <2>4, <2>5
<1>9. OneHolder'
  BY <1>3, <1>4 DEF NInv, OneHolder
<1>10. CountInv'
  BY <1>1, <1>5 DEF NInv, CountInv
<1>11. LandedInv'
  BY <1>1, <1>5 DEF NInv, LandedInv
<1>12. QED
  BY <1>2, <1>3, <1>4, <1>5, <1>6, <1>7, <1>8, <1>9, <1>10, <1>11 DEF NInv

\* Without streams the copy is over at once.
LEMMA CopyNowNInv ==
  ASSUME NInv, NEW w \in Workers, CopyNow(w)
  PROVE  NInv'
<1>1. UNCHANGED <<streams, tracked, queue, stopping, pending, dma, sent,
                  waited, want, ready, raised>>
  BY DEF CopyNow, Complete, WorkerGoes, NextSlot, options, reader, worker,
     memory, copier
<1>2. /\ at[w] = "copy" /\ at' = [at EXCEPT ![w] = "look"]
      /\ hand[w] # NoBlock /\ bounce[w][slot[w]] = hand[w]
      /\ pending[w][slot[w]] = NoBlock /\ dma[w][slot[w]] = "none"
      /\ hand[w] \in AllBlocks
      /\ hand' = [hand EXCEPT ![w] = NoBlock] /\ Complete(hand[w], FALSE)
      /\ UNCHANGED <<pending, dma>>
      /\ dst' = [dst EXCEPT ![hand[w]] = hand[w]]
      /\ bounce' = [bounce EXCEPT ![w][slot[w]] = NoBlock]
  <2>1. at[w] = "copy"
    BY DEF CopyNow, WorkerGoes
  <2>2. /\ hand[w] # NoBlock /\ bounce[w][slot[w]] = hand[w]
        /\ pending[w][slot[w]] = NoBlock /\ dma[w][slot[w]] = "none"
    BY <2>1 DEF NInv, AtInv
  <2>3. hand[w] \in AllBlocks
    BY <2>2 DEF NInv, WorkerTypes
  <2>4. QED
    BY <2>1, <2>2, <2>3 DEF CopyNow, WorkerGoes
<1>3. /\ dst' \in [AllBlocks -> AllBlocks \cup {NoBlock}]
      /\ dst'[hand[w]] = hand[w]
      /\ \A b \in AllBlocks : dst'[b] = dst[b] \/ dst'[b] = b
  BY <1>2 DEF NInv, WorkerTypes
<1>4. /\ RequestTypes' /\ CallerTypes' /\ OneHolder' /\ CountInv' /\ LandedInv'
      /\ PrefixInv' /\ ReadyInv' /\ QueueInv' /\ CallerInv'
      /\ hand[w] \in AllBlocks
      /\ hand' \in [Workers -> AllBlocks \cup {NoBlock}]
      /\ \A v \in Workers : hand'[v] = IF v = w THEN NoBlock ELSE hand[v]
  BY <1>2, <1>3, HandFacts
<1>5. /\ bounce' \in [Workers -> [Slots -> AllBlocks \cup {NoBlock}]]
      /\ \A v \in Workers : \A r \in Slots :
            bounce'[v][r] = IF v = w /\ r = slot[w] THEN NoBlock
                            ELSE bounce[v][r]
      /\ \A v \in Workers : at'[v] = IF v = w THEN "look" ELSE at[v]
      /\ at' \in [Workers -> {"look", "drain", "wait", "asleep", "exited",
                              "reuse", "read", "copy", "abort"}]
  BY <1>2 DEF NInv, WorkerTypes
<1>6. /\ slot' \in [Workers -> Slots]
      /\ \A v \in Workers : v # w => slot'[v] = slot[v]
  <2>1. /\ slot \in [Workers -> Slots]
        /\ slot' = [slot EXCEPT ![w] = (slot[w] + 1) % BuffersPerThread]
    BY DEF NInv, WorkerTypes, CopyNow, NextSlot
  <2>2. (slot[w] + 1) % BuffersPerThread \in Slots
    BY <2>1 DEF Slots, BuffersPerThread
  <2>3. QED
    BY <2>1, <2>2
<1>7. WorkerTypes'
  BY <1>1, <1>3, <1>4, <1>5, <1>6 DEF NInv, WorkerTypes
<1>8. AtInv'
  <2>1. \A v \in Workers : slot[v] \in Slots
    BY DEF NInv, WorkerTypes
  <2>2. \A v \in Workers : v # w =>
           /\ bounce'[v][slot'[v]] = bounce[v][slot[v]]
           /\ hand'[v] = hand[v] /\ at'[v] = at[v] /\ slot'[v] = slot[v]
    BY <1>4, <1>5, <1>6, <2>1
  <2>3. hand'[w] = NoBlock /\ at'[w] = "look"
    BY <1>4, <1>5
  <2>4. QED
    BY <1>2, <2>2, <2>3 DEF NInv, AtInv
<1>9. DmaInv'
  <2>1. SUFFICES ASSUME NEW v \in Workers, NEW r \in Slots PROVE DmaAt(v, r)'
    BY DEF DmaInv
  <2>2. DmaAt(v, r) /\ pending[v][r] \in AllBlocks \cup {NoBlock}
    BY DEF NInv, DmaInv, WorkerTypes
  <2>3. CASE v = w /\ r = slot[w]
    BY <1>2, <2>3 DEF DmaAt
  <2>4. CASE v = w /\ r # slot[w]
    BY <1>2, <1>3, <1>5, <2>2, <2>4 DEF DmaAt, Flying
  <2>5. CASE v # w
    BY <1>2, <1>3, <1>4, <1>5, <1>6, <2>2, <2>5 DEF DmaAt, Flying
  <2>6. QED
    BY <2>3, <2>4, <2>5
<1>10. DstInv'
  BY <1>3 DEF NInv, DstInv
<1>11. QED
  BY <1>2, <1>3, <1>4, <1>5, <1>6, <1>7, <1>8, <1>9, <1>10 DEF NInv

\* ... or refused.
LEMMA CopyFailsNInv ==
  ASSUME NInv, NEW w \in Workers, CopyFails(w)
  PROVE  NInv'
<1>1. UNCHANGED <<streams, tracked, queue, req, stopping, slot, hand,
                  pending, bounce, dst, caller, sent, waited, want, ready,
                  raised>>
  BY DEF CopyFails, WorkerGoes, options, reader, worker, memory, copier
<1>2. RequestTypes' /\ CallerTypes' /\ DstInv' /\ OneHolder' /\ CountInv' /\
      LandedInv' /\ PrefixInv' /\ ReadyInv' /\ QueueInv' /\ CallerInv'
  BY <1>1, Frame
<1>3. /\ \A v \in Workers : \A r \in Slots :
            dma'[v][r] = dma[v][r]
            \/ (v = w /\ r = slot[w] /\ dma'[v][r] = "flying")
      /\ dma' \in [Workers -> [Slots -> {"none", "flying", "landed", "broken"}]]
  <2>1. /\ dma \in [Workers -> [Slots -> {"none", "flying", "landed", "broken"}]]
        /\ slot[w] \in Slots
    BY DEF NInv, WorkerTypes
  <2>2. CASE dma' = dma
    BY <2>1, <2>2
  <2>3. CASE dma' = [dma EXCEPT ![w][slot[w]] = "flying"]
    BY <2>1, <2>3
  <2>4. QED
    BY <2>2, <2>3 DEF CopyFails
<1>4. /\ at[w] = "copy" /\ pending[w][slot[w]] = NoBlock
      /\ bounce[w][slot[w]] = hand[w] /\ at'[w] = "abort"
      /\ \A v \in Workers : v # w => at'[v] = at[v]
      /\ at' = [at EXCEPT ![w] = "abort"]
  BY DEF NInv, WorkerTypes, AtInv, CopyFails, WorkerGoes
<1>5. WorkerTypes'
  BY <1>1, <1>3, <1>4 DEF NInv, WorkerTypes
<1>6. AtInv'
  <2>1. \A v \in Workers : slot[v] \in Slots
    BY DEF NInv, WorkerTypes
  <2>2. \A v \in Workers : v # w => dma'[v][slot[v]] = dma[v][slot[v]]
    BY <1>3, <2>1
  <2>3. hand[w] # NoBlock
    BY <1>4 DEF NInv, AtInv
  <2>4. QED
    BY <1>1, <1>4, <2>2, <2>3 DEF NInv, AtInv
<1>7. DmaInv'
  <2>1. SUFFICES ASSUME NEW v \in Workers, NEW r \in Slots PROVE DmaAt(v, r)'
    BY DEF DmaInv
  <2>2. DmaAt(v, r)
    BY DEF NInv, DmaInv
  <2>3. CASE v = w /\ r = slot[w]
    BY <1>1, <1>3, <1>4, <2>3 DEF DmaAt, Flying
  <2>4. CASE ~(v = w /\ r = slot[w])
    BY <1>1, <1>3, <1>4, <2>2, <2>4 DEF DmaAt, Flying
  <2>5. QED
    BY <2>3, <2>4
<1>8. QED
  BY <1>2, <1>3, <1>4, <1>5, <1>6, <1>7 DEF NInv

\* A block that failed is accounted for.
LEMMA AbortNInv ==
  ASSUME NInv, NEW w \in Workers, Abort(w)
  PROVE  NInv'
<1>1. UNCHANGED <<streams, tracked, queue, stopping, pending, dst, sent,
                  waited, want, ready, raised>>
  BY DEF Abort, Complete, WorkerGoes, NextSlot, options, reader, worker,
     memory, copier
<1>2. DstInv'
  BY <1>1, Frame
<1>3. /\ at[w] = "abort" /\ at' = [at EXCEPT ![w] = "look"]
      /\ hand[w] # NoBlock /\ pending[w][slot[w]] = NoBlock
      /\ hand' = [hand EXCEPT ![w] = NoBlock] /\ Complete(hand[w], TRUE)
      /\ UNCHANGED <<pending, dst>>
      /\ dma' = [dma EXCEPT ![w][slot[w]] = "none"]
      /\ bounce' = [bounce EXCEPT ![w][slot[w]] = NoBlock]
  BY DEF NInv, AtInv, Abort, WorkerGoes
<1>4. /\ RequestTypes' /\ CallerTypes' /\ OneHolder' /\ CountInv' /\ LandedInv'
      /\ PrefixInv' /\ ReadyInv' /\ QueueInv' /\ CallerInv'
      /\ hand[w] \in AllBlocks
      /\ hand' \in [Workers -> AllBlocks \cup {NoBlock}]
      /\ \A v \in Workers : hand'[v] = IF v = w THEN NoBlock ELSE hand[v]
  BY <1>3, HandFacts
<1>5. /\ bounce' \in [Workers -> [Slots -> AllBlocks \cup {NoBlock}]]
      /\ dma' \in [Workers -> [Slots -> {"none", "flying", "landed", "broken"}]]
      /\ \A v \in Workers : \A r \in Slots :
            IF v = w /\ r = slot[w]
            THEN bounce'[v][r] = NoBlock /\ dma'[v][r] = "none"
            ELSE bounce'[v][r] = bounce[v][r] /\ dma'[v][r] = dma[v][r]
      /\ \A v \in Workers : at'[v] = IF v = w THEN "look" ELSE at[v]
      /\ at' \in [Workers -> {"look", "drain", "wait", "asleep", "exited",
                              "reuse", "read", "copy", "abort"}]
  BY <1>3 DEF NInv, WorkerTypes
<1>6. /\ slot' \in [Workers -> Slots]
      /\ \A v \in Workers : v # w => slot'[v] = slot[v]
  <2>1. /\ slot \in [Workers -> Slots]
        /\ slot' = [slot EXCEPT ![w] = (slot[w] + 1) % BuffersPerThread]
    BY DEF NInv, WorkerTypes, Abort, NextSlot
  <2>2. (slot[w] + 1) % BuffersPerThread \in Slots
    BY <2>1 DEF Slots, BuffersPerThread
  <2>3. QED
    BY <2>1, <2>2
<1>7. WorkerTypes'
  BY <1>1, <1>4, <1>5, <1>6 DEF NInv, WorkerTypes
<1>8. AtInv'
  <2>1. \A v \in Workers : slot[v] \in Slots
    BY DEF NInv, WorkerTypes
  <2>2. \A v \in Workers : v # w =>
           /\ bounce'[v][slot'[v]] = bounce[v][slot[v]]
           /\ dma'[v][slot'[v]] = dma[v][slot[v]]
           /\ hand'[v] = hand[v] /\ at'[v] = at[v] /\ slot'[v] = slot[v]
    BY <1>4, <1>5, <1>6, <2>1
  <2>3. hand'[w] = NoBlock /\ at'[w] = "look"
    BY <1>4, <1>5
  <2>4. QED
    BY <1>3, <2>2, <2>3 DEF NInv, AtInv
<1>9. DmaInv'
  <2>1. SUFFICES ASSUME NEW v \in Workers, NEW r \in Slots PROVE DmaAt(v, r)'
    BY DEF DmaInv
  <2>2. DmaAt(v, r)
    BY DEF NInv, DmaInv
  <2>3. CASE v = w /\ r = slot[w]
    BY <1>3, <1>5, <2>3 DEF DmaAt
  <2>4. CASE v = w /\ r # slot[w]
    BY <1>3, <1>5, <2>2, <2>4 DEF DmaAt, Flying
  <2>5. CASE v # w
    BY <1>3, <1>4, <1>5, <1>6, <2>2, <2>5 DEF DmaAt, Flying
  <2>6. QED
    BY <2>3, <2>4, <2>5
<1>10. QED
  BY <1>2, <1>3, <1>4, <1>5, <1>6, <1>7, <1>8, <1>9 DEF NInv

\* A copy lands, ...
LEMMA LandNInv ==
  ASSUME NInv, NEW w \in Workers, NEW s \in Slots, Land(w, s)
  PROVE  NInv'
<1>1. UNCHANGED <<streams, tracked, queue, req, stopping, at, slot, hand,
                  pending, bounce, caller, sent, waited, want, ready,
                  raised>>
  BY DEF Land, options, reader, worker, memory, copier
<1>2. RequestTypes' /\ CallerTypes' /\ OneHolder' /\ CountInv' /\ ReadyInv'
      /\ QueueInv' /\ CallerInv'
  BY <1>1, Frame
<1>3. /\ Flying(w, s) \in AllBlocks /\ bounce[w][s] = Flying(w, s)
      /\ dma[w][s] = "flying"
  <2>1. dma[w][s] = "flying" /\ DmaAt(w, s)
    BY DEF Land, NInv, DmaInv
  <2>2. CASE pending[w][s] # NoBlock
    <3>1. pending[w][s] \in AllBlocks
      BY <2>2 DEF NInv, WorkerTypes
    <3>2. QED
      BY <2>1, <2>2, <3>1 DEF DmaAt, Flying
  <2>3. CASE pending[w][s] = NoBlock
    <3>1. at[w] = "abort"
      BY <2>1, <2>3 DEF DmaAt
    <3>2. hand[w] \in AllBlocks
      BY <3>1 DEF NInv, WorkerTypes, AtInv
    <3>3. QED
      BY <2>1, <2>3, <3>2 DEF DmaAt, Flying
  <2>4. QED
    BY <2>2, <2>3
<1>4. /\ dst' \in [AllBlocks -> AllBlocks \cup {NoBlock}]
      /\ dst'[Flying(w, s)] = Flying(w, s)
      /\ \A b \in AllBlocks : dst'[b] = dst[b] \/ dst'[b] = b
  <2>1. /\ dst \in [AllBlocks -> AllBlocks \cup {NoBlock}]
        /\ dst' = [dst EXCEPT ![Flying(w, s)] = Flying(w, s)]
    BY <1>3 DEF NInv, WorkerTypes, Land
  <2>2. QED
    BY <1>3, <2>1
<1>5. /\ dma' \in [Workers -> [Slots -> {"none", "flying", "landed", "broken"}]]
      /\ \A v \in Workers : \A r \in Slots :
            dma'[v][r] = IF v = w /\ r = s THEN "landed" ELSE dma[v][r]
  BY DEF NInv, WorkerTypes, Land
<1>6. \A id \in Requests : \A p \in 0 .. Size(id) - 1 :
         dst[<<id, p>>] = <<id, p>> => dst'[<<id, p>>] = <<id, p>>
  BY <1>4, BlockFacts
<1>7. WorkerTypes'
  BY <1>1, <1>4, <1>5 DEF NInv, WorkerTypes
<1>8. AtInv'
  <2>1. \A v \in Workers : slot[v] \in Slots
    BY DEF NInv, WorkerTypes
  <2>2. ASSUME NEW v \in Workers, at[v] \in {"read", "copy"}
        PROVE  dma'[v][slot[v]] = "none"
    <3>1. dma[v][slot[v]] = "none"
      BY <2>2 DEF NInv, AtInv
    <3>2. QED
      BY <1>3, <1>5, <2>1, <3>1
  <2>3. QED
    BY <1>1, <2>2 DEF NInv, AtInv
<1>9. DmaInv'
  <2>1. SUFFICES ASSUME NEW v \in Workers, NEW r \in Slots PROVE DmaAt(v, r)'
    BY DEF DmaInv
  <2>2. DmaAt(v, r) /\ pending[v][r] \in AllBlocks \cup {NoBlock}
    BY DEF NInv, DmaInv, WorkerTypes
  <2>3. CASE v = w /\ r = s
    BY <1>1, <1>3, <1>4, <1>5, <2>2, <2>3 DEF DmaAt, Flying
  <2>4. CASE ~(v = w /\ r = s)
    BY <1>1, <1>4, <1>5, <2>2, <2>4 DEF DmaAt, Flying
  <2>5. QED
    BY <2>3, <2>4
<1>10. DstInv'
  BY <1>4 DEF NInv, DstInv
<1>11. LandedInv'
  <2>1. \A id \in Requests : Out(id)' = Out(id)
    BY <1>1, Frame
  <2>2. \A id \in Requests : \A p \in 0 .. req[id].next - 1 :
           p \in 0 .. Size(id) - 1
    BY RequestFacts DEF NInv, RequestTypes
  <2>3. QED
    BY <1>1, <1>6, <2>1, <2>2 DEF NInv, LandedInv
<1>12. PrefixInv'
  <2>1. \A id \in Requests : \A p \in req[id].completed :
           p \in 0 .. Size(id) - 1
    BY DEF NInv, RequestTypes
  <2>2. QED
    BY <1>1, <1>6, <2>1 DEF NInv, PrefixInv
<1>13. QED
  BY <1>2, <1>3, <1>4, <1>5, <1>6, <1>7, <1>8, <1>9, <1>10, <1>11, <1>12 DEF
     NInv

\* ... or breaks.
LEMMA BreakNInv ==
  ASSUME NInv, NEW w \in Workers, NEW s \in Slots, Break(w, s)
  PROVE  NInv'
<1>1. UNCHANGED <<streams, tracked, queue, req, stopping, at, slot, hand,
                  pending, bounce, dst, caller, sent, waited, want, ready,
                  raised>>
  BY DEF Break, options, reader, worker, memory, copier
<1>2. RequestTypes' /\ CallerTypes' /\ DstInv' /\ OneHolder' /\ CountInv' /\
      LandedInv' /\ PrefixInv' /\ ReadyInv' /\ QueueInv' /\ CallerInv'
  BY <1>1, Frame
<1>3. WorkerTypes'
  BY DEF NInv, WorkerTypes, Break, options, reader, worker, memory, copier
<1>4. AtInv'
  BY DEF NInv, AtInv, Break, options, reader, worker, memory, copier,
     WorkerTypes, Slots, BuffersPerThread
<1>5. DmaInv'
  BY DEF NInv, DmaInv, DmaAt, Flying, Break, options, reader, worker, memory,
     copier, WorkerTypes
<1>6. QED
  BY <1>2, <1>3, <1>4, <1>5 DEF NInv

\* A copier submits a read, ...
LEMMA SubmitNInv ==
  ASSUME NInv, NEW c \in Copiers, Submit(c)
  PROVE  NInv'
<1>1. UNCHANGED <<streams, tracked, req, stopping, slot, hand, pending,
                  bounce, dma, dst, waited, want, ready, raised>>
  BY DEF Submit, Notify, options, reader, worker, memory, copier
<1>2. DstInv' /\ OneHolder' /\ CountInv' /\ LandedInv' /\ PrefixInv' /\
      ReadyInv'
  BY <1>1, Frame
<1>3. /\ caller[c] = "submit" /\ sent[c] < Len(Length[c]) /\ sent[c] \in Nat
      /\ Len(Length[c]) \in Nat /\ waited[c] <= sent[c] /\ waited[c] \in Nat
  BY RequestFacts DEF NInv, CallerTypes, CallerInv, Submit
<1>4. <<c, sent[c] + 1>> \in Requests
  <2>1. sent[c] + 1 \in 1 .. Len(Length[c])
    BY <1>3
  <2>2. QED
    BY <2>1, RequestFacts
<1>5. /\ sent' = [sent EXCEPT ![c] = sent[c] + 1]
      /\ queue' = Append(queue, <<c, sent[c] + 1>>)
      /\ caller' = IF sent[c] + 1 < Len(Length[c]) THEN caller
                   ELSE [caller EXCEPT ![c] = IF tracked THEN "use"
                                              ELSE "finish"]
      /\ at' = [w \in Workers |-> IF at[w] = "asleep" THEN "wait" ELSE at[w]]
  BY DEF Submit, Notify
<1>6. WorkerTypes'
  BY DEF NInv, WorkerTypes, Submit, Notify, options, reader, worker, memory,
     copier, CallerTypes
<1>7. RequestTypes'
  BY <1>1, <1>4, <1>5 DEF NInv, RequestTypes
<1>8. CallerTypes'
  <2>1. sent[c] + 1 \in Nat /\ sent[c] + 1 <= Len(Length[c])
        /\ waited[c] <= sent[c] + 1
    BY <1>3
  <2>2. /\ sent' \in [Copiers -> Nat]
        /\ \A d \in Copiers : sent'[d] = IF d = c THEN sent[c] + 1 ELSE sent[d]
    BY <1>5, <2>1 DEF NInv, CallerTypes
  <2>3. caller' \in [Copiers -> {"submit", "use", "prefix", "prefix asleep",
                                 "finish", "finish asleep", "closed",
                                 "dropped"}]
    BY <1>5 DEF NInv, CallerTypes
  <2>4. \A d \in Copiers : sent'[d] <= Len(Length[d]) /\ waited[d] <= sent'[d]
    BY <2>1, <2>2 DEF NInv, CallerTypes
  <2>5. QED
    BY <1>1, <2>2, <2>3, <2>4 DEF NInv, CallerTypes
<1>9. AtInv'
  BY <1>1, <1>5 DEF NInv, AtInv
<1>10. DmaInv'
  <2>1. \A v \in Workers : at'[v] = "abort" <=> at[v] = "abort"
    BY <1>5
  <2>2. QED
    BY <1>1, <2>1 DEF NInv, DmaInv, DmaAt, Flying
<1>11. QueueInv'
  <2>1. /\ Len(queue) \in Nat /\ Len(queue') = Len(queue) + 1
        /\ \A i \in 1 .. Len(queue) : queue'[i] = queue[i]
        /\ queue'[Len(queue) + 1] = <<c, sent[c] + 1>>
        /\ \A i \in 1 .. Len(queue) : queue[i] \in Requests
    BY <1>5 DEF NInv, RequestTypes
  <2>2. \A i \in 1 .. Len(queue') : i \in 1 .. Len(queue) \/ i = Len(queue) + 1
    BY <2>1
  <2>3. /\ \A d \in Copiers : sent'[d] = IF d = c THEN sent[c] + 1 ELSE sent[d]
        /\ \A d \in Copiers : sent[d] \in Nat
    BY <1>3, <1>5 DEF NInv, CallerTypes
  <2>4. ~(sent[c] + 1 <= sent[c]) /\ sent[c] + 1 > sent[c]
        /\ sent[c] + 1 <= sent[c] + 1
    BY <1>3
  <2>5. ASSUME NEW i \in 1 .. Len(queue')
        PROVE  /\ queue'[i][2] <= sent'[queue'[i][1]]
               /\ req[queue'[i]].next < Size(queue'[i])
    <3>1. CASE i \in 1 .. Len(queue)
      <4>1. /\ queue[i][2] <= sent[queue[i][1]] /\ queue[i][1] \in Copiers
            /\ queue[i][2] \in Nat /\ req[queue[i]].next < Size(queue[i])
        BY <2>1, <3>1, RequestFacts DEF NInv, QueueInv
      <4>2. QED
        BY SMTT(30), <1>3, <2>1, <2>3, <3>1, <4>1
    <3>2. CASE i = Len(queue) + 1
      <4>1. queue'[i] = <<c, sent[c] + 1>>
        BY <2>1, <3>2
      <4>2. req[<<c, sent[c] + 1>>].next = 0
        BY <1>4, <2>4 DEF NInv, QueueInv
      <4>3. 0 < Size(<<c, sent[c] + 1>>)
        BY <1>4, RequestFacts
      <4>4. QED
        BY <2>3, <2>4, <4>1, <4>2, <4>3
    <3>3. QED
      BY <2>2, <3>1, <3>2
  <2>6. ASSUME NEW i \in 1 .. Len(queue), queue[i] = <<c, sent[c] + 1>>
        PROVE  FALSE
    BY <2>4, <2>6 DEF NInv, QueueInv
  <2>7. \A i, j \in 1 .. Len(queue') : queue'[i] = queue'[j] => i = j
    BY <2>1, <2>2, <2>6 DEF NInv, QueueInv
  <2>8. ASSUME NEW id \in Requests, id[2] > sent'[id[1]]
        PROVE  req[id].next = 0
    <3>1. id[2] \in Nat /\ id[1] \in Copiers
      BY RequestFacts
    <3>2. id[2] > sent[id[1]]
      BY <1>3, <2>3, <2>8, <3>1
    <3>3. QED
      BY <3>2 DEF NInv, QueueInv
  <2>9. QED
    BY <1>1, <2>5, <2>7, <2>8 DEF QueueInv
<1>12. CallerInv'
  <2>1. /\ \A d \in Copiers : sent'[d] = IF d = c THEN sent[c] + 1 ELSE sent[d]
        /\ \A d \in Copiers : d # c => caller'[d] = caller[d]
        /\ \/ sent[c] + 1 < Len(Length[c]) /\ caller'[c] = "submit"
           \/ /\ sent[c] + 1 = Len(Length[c])
              /\ caller'[c] \in {"use", "finish"}
    <3>1. /\ sent \in [Copiers -> Nat] /\ DOMAIN caller = Copiers
      BY DEF NInv, CallerTypes
    <3>2. sent[c] + 1 < Len(Length[c]) \/ sent[c] + 1 = Len(Length[c])
      BY <1>3
    <3>3. sent[c] + 1 = Len(Length[c]) => ~(sent[c] + 1 < Len(Length[c]))
      BY <1>3
    <3>4. /\ \A d \in Copiers :
                sent'[d] = IF d = c THEN sent[c] + 1 ELSE sent[d]
      BY <1>5, <3>1
    <3>5. CASE sent[c] + 1 < Len(Length[c])
      BY <1>3, <1>5, <3>4, <3>5
    <3>6. CASE sent[c] + 1 = Len(Length[c])
      <4>1. caller' = [caller EXCEPT ![c] = IF tracked THEN "use"
                                            ELSE "finish"]
        BY <1>5, <3>3, <3>6
      <4>2. QED
        BY <3>1, <3>4, <3>6, <4>1
    <3>7. QED
      BY <3>2, <3>5, <3>6
  <2>2. SUFFICES ASSUME NEW d \in Copiers
                 PROVE  /\ caller'[d] = "submit" => sent'[d] < Len(Length[d])
                        /\ caller'[d] # "submit" =>
                              sent'[d] = Len(Length[d]) \/ raised[d]
                        /\ caller'[d] = "closed" => waited[d] = sent'[d]
                        /\ caller'[d] \in {"prefix", "prefix asleep"} =>
                              want[d][1] \in 1 .. Len(Length[d])
    <3>1. \A d \in Copiers : \A k \in 1 .. waited[d] :
             /\ req[<<d, k>>].remaining = 0
             /\ req[<<d, k>>].failed => raised[d]
      BY DEF NInv, CallerInv
    <3>2. QED
      BY <1>1, <2>2, <3>1 DEF CallerInv
  <2>3. CASE d = c
    BY <2>1, <2>3
  <2>4. CASE d # c
    BY <2>1, <2>4 DEF NInv, CallerInv
  <2>5. QED
    BY <2>3, <2>4
<1>13. QED
  BY <1>2, <1>3, <1>4, <1>5, <1>6, <1>7, <1>8, <1>9, <1>10, <1>11, <1>12 DEF
     NInv

\* ... or cannot.
LEMMA SubmitRaisesNInv ==
  ASSUME NInv, NEW c \in Copiers, SubmitRaises(c)
  PROVE  NInv'
<1>1. UNCHANGED <<streams, tracked, queue, req, stopping, at, slot, hand,
                  pending, bounce, dma, dst, sent, waited, want, ready>>
  BY DEF SubmitRaises, CallerGoes, options, reader, worker, memory, copier
<1>2. WorkerTypes' /\ RequestTypes' /\ AtInv' /\ DmaInv' /\ DstInv' /\
      OneHolder' /\ CountInv' /\ LandedInv' /\ PrefixInv' /\ ReadyInv' /\
      QueueInv'
  BY <1>1, Frame
<1>3. CallerTypes'
  BY DEF NInv, CallerTypes, SubmitRaises, CallerGoes, options, reader, worker,
     memory, copier
<1>4. CallerInv'
  BY DEF NInv, CallerInv, SubmitRaises, CallerGoes, options, reader, worker,
     memory, copier, CallerTypes
<1>5. QED
  BY <1>2, <1>3, <1>4 DEF NInv

\* A tensor is asked for: ...
LEMMA AskNInv ==
  ASSUME NInv, NEW c \in Copiers, Ask(c)
  PROVE  NInv'
<1>1. UNCHANGED <<streams, tracked, queue, req, stopping, at, slot, hand,
                  pending, bounce, dma, dst, sent, waited, ready, raised>>
  BY DEF Ask, CallerGoes, options, reader, worker, memory, copier
<1>2. WorkerTypes' /\ RequestTypes' /\ AtInv' /\ DmaInv' /\ DstInv' /\
      OneHolder' /\ CountInv' /\ LandedInv' /\ PrefixInv' /\ ReadyInv' /\
      QueueInv'
  BY <1>1, Frame
<1>3. PICK k \in 1 .. Len(Length[c]) :
         \E n \in ready[c][k] + 1 .. Length[c][k] :
            want' = [want EXCEPT ![c] = <<k, n>>]
  BY DEF Ask
<1>4. PICK n \in ready[c][k] + 1 .. Length[c][k] :
         want' = [want EXCEPT ![c] = <<k, n>>]
  BY <1>3
<1>5. k \in Nat /\ n \in Nat
  <2>1. ready[c][k] \in Nat /\ Len(Length[c]) \in Nat
    BY RequestFacts DEF NInv, CallerTypes
  <2>2. Size(<<c, k>>) \in Nat /\ Size(<<c, k>>) = Length[c][k]
    BY RequestFacts DEF Size
  <2>3. QED
    BY <2>1, <2>2
<1>6. CallerTypes'
  <2>1. want' \in [Copiers -> Nat \X Nat]
    BY <1>4, <1>5 DEF NInv, CallerTypes
  <2>2. QED
    BY <1>1, <2>1 DEF NInv, CallerTypes, Ask, CallerGoes
<1>7. CallerInv'
  <2>1. /\ want'[c][1] = k /\ \A d \in Copiers : d # c => want'[d] = want[d]
        /\ caller[c] = "use" /\ caller'[c] = "prefix"
        /\ \A d \in Copiers : d # c => caller'[d] = caller[d]
    BY <1>4 DEF NInv, CallerTypes, Ask, CallerGoes
  <2>2. QED
    BY <1>1, <2>1 DEF NInv, CallerInv
<1>8. QED
  BY <1>2, <1>3, <1>4, <1>5, <1>6, <1>7 DEF NInv

\* ... its bytes are ready, ...
LEMMA PrefixReadyNInv ==
  ASSUME NInv, NEW c \in Copiers, PrefixReady(c)
  PROVE  NInv'
<1>1. UNCHANGED <<streams, tracked, queue, req, stopping, at, slot, hand,
                  pending, bounce, dma, dst, sent, waited, raised>>
  BY DEF PrefixReady, CallerGoes, Asked, options, reader, worker, memory,
     copier
<1>2. WorkerTypes' /\ RequestTypes' /\ AtInv' /\ DmaInv' /\ DstInv' /\
      OneHolder' /\ CountInv' /\ LandedInv' /\ PrefixInv' /\ QueueInv'
  BY <1>1, Frame
<1>3. /\ want[c][1] \in 1 .. Len(Length[c]) /\ <<c, want[c][1]>> \in Requests
      /\ Asked(c).prefix \in Nat
  <2>1. want[c][1] \in 1 .. Len(Length[c])
    BY DEF NInv, CallerInv, PrefixReady, CallerGoes
  <2>2. <<c, want[c][1]>> \in Requests
    BY <2>1, RequestFacts
  <2>3. QED
    BY <2>1, <2>2 DEF NInv, RequestTypes, Asked
<1>4. /\ DOMAIN ready' = Copiers
      /\ \A d \in Copiers : ready'[d] \in [1 .. Len(Length[d]) -> Nat]
      /\ \A d \in Copiers : \A k \in 1 .. Len(Length[d]) :
            ready'[d][k] = IF d = c /\ k = want[c][1] THEN Asked(c).prefix
                           ELSE ready[d][k]
  BY <1>3 DEF NInv, CallerTypes, PrefixReady
<1>5. CallerTypes'
  <2>1. want' \in [Copiers -> Nat \X Nat]
    BY DEF NInv, CallerTypes, PrefixReady
  <2>2. QED
    BY <1>1, <1>4, <2>1 DEF NInv, CallerTypes, PrefixReady, CallerGoes
<1>6. ReadyInv'
  <2>1. SUFFICES ASSUME NEW id \in Requests,
                        NEW p \in 0 .. ready'[id[1]][id[2]] - 1
                 PROVE  p \in req[id].completed
    BY <1>1 DEF ReadyInv
  <2>2. /\ id[1] \in Copiers /\ id[2] \in 1 .. Len(Length[id[1]])
        /\ id = <<id[1], id[2]>>
    BY RequestFacts
  <2>3. CASE id[1] = c /\ id[2] = want[c][1]
    <3>1. ready'[id[1]][id[2]] = req[id].prefix
      <4>1. id = <<c, want[c][1]>>
        BY <2>2, <2>3
      <4>2. ready'[c][want[c][1]] = Asked(c).prefix
        BY <1>3, <1>4
      <4>3. QED
        BY <2>3, <4>1, <4>2 DEF Asked
    <3>2. QED
      BY <2>1, <3>1 DEF NInv, PrefixInv
  <2>4. CASE ~(id[1] = c /\ id[2] = want[c][1])
    <3>1. ready'[id[1]][id[2]] = ready[id[1]][id[2]]
      BY <1>4, <2>2, <2>4
    <3>2. QED
      BY <2>1, <3>1 DEF NInv, ReadyInv
  <2>5. QED
    BY <2>3, <2>4
<1>7. CallerInv'
  BY DEF NInv, CallerInv, PrefixReady, CallerGoes, Asked, options, reader,
     worker, memory, copier, CallerTypes
<1>8. QED
  BY <1>2, <1>3, <1>4, <1>5, <1>6, <1>7 DEF NInv

\* ... the read failed, ...
LEMMA PrefixRaisesNInv ==
  ASSUME NInv, NEW c \in Copiers, PrefixRaises(c)
  PROVE  NInv'
<1>1. UNCHANGED <<streams, tracked, queue, req, stopping, at, slot, hand,
                  pending, bounce, dma, dst, sent, waited, ready>>
  BY DEF PrefixRaises, CallerGoes, Asked, options, reader, worker, memory,
     copier
<1>2. WorkerTypes' /\ RequestTypes' /\ AtInv' /\ DmaInv' /\ DstInv' /\
      OneHolder' /\ CountInv' /\ LandedInv' /\ PrefixInv' /\ ReadyInv' /\
      QueueInv'
  BY <1>1, Frame
<1>3. CallerTypes'
  BY DEF NInv, CallerTypes, PrefixRaises, CallerGoes, Asked, options, reader,
     worker, memory, copier
<1>4. CallerInv'
  <2>1. /\ caller[c] = "prefix" /\ caller'[c] = "finish" /\ raised'[c]
        /\ \A d \in Copiers : d # c => /\ caller'[d] = caller[d]
                                       /\ raised'[d] = raised[d]
                                       /\ want'[d] = want[d]
    BY DEF NInv, CallerTypes, PrefixRaises, CallerGoes
  <2>2. QED
    BY <1>1, <2>1 DEF NInv, CallerInv
<1>5. QED
  BY <1>2, <1>3, <1>4 DEF NInv

\* ... or the caller sleeps.
LEMMA PrefixSleepsNInv ==
  ASSUME NInv, NEW c \in Copiers, PrefixSleeps(c)
  PROVE  NInv'
<1>1. UNCHANGED <<streams, tracked, queue, req, stopping, at, slot, hand,
                  pending, bounce, dma, dst, sent, waited, want, ready,
                  raised>>
  BY DEF PrefixSleeps, CallerGoes, Asked, options, reader, worker, memory,
     copier
<1>2. WorkerTypes' /\ RequestTypes' /\ AtInv' /\ DmaInv' /\ DstInv' /\
      OneHolder' /\ CountInv' /\ LandedInv' /\ PrefixInv' /\ ReadyInv' /\
      QueueInv'
  BY <1>1, Frame
<1>3. CallerTypes'
  BY DEF NInv, CallerTypes, PrefixSleeps, CallerGoes, Asked, options, reader,
     worker, memory, copier
<1>4. CallerInv'
  BY DEF NInv, CallerInv, PrefixSleeps, CallerGoes, Asked, options, reader,
     worker, memory, copier, CallerTypes
<1>5. QED
  BY <1>2, <1>3, <1>4 DEF NInv

\* The user of a copier closes the buffer, ...
LEMMA CloseBufferNInv ==
  ASSUME NInv, NEW c \in Copiers, CloseBuffer(c)
  PROVE  NInv'
<1>1. UNCHANGED <<streams, tracked, queue, req, stopping, at, slot, hand,
                  pending, bounce, dma, dst, sent, waited, want, ready,
                  raised>>
  BY DEF CloseBuffer, CallerGoes, options, reader, worker, memory, copier
<1>2. WorkerTypes' /\ RequestTypes' /\ AtInv' /\ DmaInv' /\ DstInv' /\
      OneHolder' /\ CountInv' /\ LandedInv' /\ PrefixInv' /\ ReadyInv' /\
      QueueInv'
  BY <1>1, Frame
<1>3. CallerTypes'
  BY DEF NInv, CallerTypes, CloseBuffer, CallerGoes, options, reader, worker,
     memory, copier
<1>4. CallerInv'
  BY DEF NInv, CallerInv, CloseBuffer, CallerGoes, options, reader, worker,
     memory, copier, CallerTypes
<1>5. QED
  BY <1>2, <1>3, <1>4 DEF NInv

\* ... or drops it.
LEMMA AbandonNInv ==
  ASSUME NInv, NEW c \in Copiers, Abandon(c)
  PROVE  NInv'
<1>1. UNCHANGED <<streams, tracked, queue, req, stopping, at, slot, hand,
                  pending, bounce, dma, dst, sent, waited, want, ready,
                  raised>>
  BY DEF Abandon, CallerGoes, options, reader, worker, memory, copier
<1>2. WorkerTypes' /\ RequestTypes' /\ AtInv' /\ DmaInv' /\ DstInv' /\
      OneHolder' /\ CountInv' /\ LandedInv' /\ PrefixInv' /\ ReadyInv' /\
      QueueInv'
  BY <1>1, Frame
<1>3. CallerTypes'
  BY DEF NInv, CallerTypes, Abandon, CallerGoes, options, reader, worker,
     memory, copier
<1>4. CallerInv'
  BY DEF NInv, CallerInv, Abandon, CallerGoes, options, reader, worker,
     memory, copier, CallerTypes
<1>5. QED
  BY <1>2, <1>3, <1>4 DEF NInv

\* finish_io waits for a request, ...
LEMMA WaitReadNInv ==
  ASSUME NInv, NEW c \in Copiers, WaitRead(c)
  PROVE  NInv'
<1>1. UNCHANGED <<streams, tracked, queue, req, stopping, at, slot, hand,
                  pending, bounce, dma, dst, sent, want, ready>>
  BY DEF WaitRead, Drained, options, reader, worker, memory, copier
<1>2. WorkerTypes' /\ RequestTypes' /\ AtInv' /\ DmaInv' /\ DstInv' /\
      OneHolder' /\ CountInv' /\ LandedInv' /\ PrefixInv' /\ ReadyInv' /\
      QueueInv'
  BY <1>1, Frame
<1>3. /\ waited[c] \in Nat /\ sent[c] \in Nat /\ waited[c] < sent[c]
      /\ caller[c] = "finish" /\ sent[c] <= Len(Length[c])
  BY DEF NInv, CallerTypes, WaitRead
<1>4. <<c, waited[c] + 1>> \in Requests
  <2>1. waited[c] + 1 \in 1 .. Len(Length[c])
    BY <1>3, RequestFacts
  <2>2. QED
    BY <2>1, RequestFacts
<1>5. \/ /\ req[<<c, waited[c] + 1>>].remaining = 0
         /\ waited' = [waited EXCEPT ![c] = waited[c] + 1]
         /\ raised' = [raised EXCEPT ![c] =
                          raised[c] \/ req[<<c, waited[c] + 1>>].failed]
         /\ UNCHANGED caller
      \/ /\ caller' = [caller EXCEPT ![c] = "finish asleep"]
         /\ UNCHANGED <<waited, raised>>
  BY DEF WaitRead, Drained
<1>6. CallerTypes'
  <2>1. CASE UNCHANGED caller
    <3>1. waited[c] + 1 \in Nat /\ waited[c] + 1 <= sent[c]
      BY <1>3
    <3>2. req[<<c, waited[c] + 1>>].failed \in BOOLEAN
      BY <1>4 DEF NInv, RequestTypes
    <3>3. /\ waited' \in [Copiers -> Nat] /\ raised' \in [Copiers -> BOOLEAN]
          /\ \A d \in Copiers : waited'[d] <= sent[d]
      BY ZenonT(60), <1>5, <2>1, <3>1, <3>2 DEF NInv, CallerTypes
    <3>4. QED
      BY <1>1, <2>1, <3>3 DEF NInv, CallerTypes
  <2>2. CASE caller' = [caller EXCEPT ![c] = "finish asleep"]
             /\ UNCHANGED <<waited, raised>>
    BY <1>1, <2>2 DEF NInv, CallerTypes
  <2>3. QED
    BY <1>5, <2>1, <2>2
<1>7. CallerInv'
  <2>1. CASE /\ req[<<c, waited[c] + 1>>].remaining = 0
             /\ waited' = [waited EXCEPT ![c] = waited[c] + 1]
             /\ raised' = [raised EXCEPT ![c] =
                              raised[c] \/ req[<<c, waited[c] + 1>>].failed]
             /\ UNCHANGED caller
    <3>1. /\ waited'[c] = waited[c] + 1
          /\ raised'[c] = (raised[c] \/ req[<<c, waited[c] + 1>>].failed)
          /\ \A d \in Copiers : d # c => /\ waited'[d] = waited[d]
                                         /\ raised'[d] = raised[d]
      BY <2>1 DEF NInv, CallerTypes
    <3>2. \A k \in 1 .. waited[c] + 1 : k \in 1 .. waited[c] \/ k = waited[c] + 1
      BY <1>3
    <3>3. ASSUME NEW d \in Copiers, NEW k \in 1 .. waited'[d]
          PROVE  /\ req[<<d, k>>].remaining = 0
                 /\ req[<<d, k>>].failed => raised'[d]
      <4>1. CASE d = c /\ k = waited[c] + 1
        BY <2>1, <3>1, <4>1
      <4>2. CASE ~(d = c /\ k = waited[c] + 1)
        <5>1. k \in 1 .. waited[d]
          BY <3>1, <3>2, <3>3, <4>2
        <5>2. /\ req[<<d, k>>].remaining = 0
              /\ req[<<d, k>>].failed => raised[d]
          BY <5>1 DEF NInv, CallerInv
        <5>3. QED
          BY <3>1, <5>2
      <4>3. QED
        BY <4>1, <4>2
    <3>4. ASSUME NEW d \in Copiers
          PROVE  /\ caller[d] = "submit" => sent[d] < Len(Length[d])
                 /\ caller[d] # "submit" =>
                       sent[d] = Len(Length[d]) \/ raised'[d]
                 /\ caller[d] = "closed" => waited'[d] = sent[d]
                 /\ caller[d] \in {"prefix", "prefix asleep"} =>
                       want[d][1] \in 1 .. Len(Length[d])
      BY <1>3, <3>1 DEF NInv, CallerInv
    <3>5. QED
      BY <1>1, <2>1, <3>3, <3>4 DEF CallerInv
  <2>2. CASE caller' = [caller EXCEPT ![c] = "finish asleep"]
             /\ UNCHANGED <<waited, raised>>
    <3>1. /\ caller'[c] = "finish asleep"
          /\ \A d \in Copiers : d # c => caller'[d] = caller[d]
      BY <2>2 DEF NInv, CallerTypes
    <3>2. QED
      BY <1>1, <1>3, <2>2, <3>1 DEF NInv, CallerInv
  <2>3. QED
    BY <1>5, <2>1, <2>2
<1>8. QED
  BY <1>2, <1>3, <1>4, <1>5, <1>6, <1>7 DEF NInv

\* ... and closes the file after the last.
LEMMA CloseFileNInv ==
  ASSUME NInv, NEW c \in Copiers, CloseFile(c)
  PROVE  NInv'
<1>1. UNCHANGED <<streams, tracked, queue, req, stopping, at, slot, hand,
                  pending, bounce, dma, dst, sent, waited, want, ready,
                  raised>>
  BY DEF CloseFile, CallerGoes, options, reader, worker, memory, copier
<1>2. WorkerTypes' /\ RequestTypes' /\ AtInv' /\ DmaInv' /\ DstInv' /\
      OneHolder' /\ CountInv' /\ LandedInv' /\ PrefixInv' /\ ReadyInv' /\
      QueueInv'
  BY <1>1, Frame
<1>3. CallerTypes'
  BY DEF NInv, CallerTypes, CloseFile, CallerGoes, options, reader, worker,
     memory, copier
<1>4. CallerInv'
  BY DEF NInv, CallerInv, CloseFile, CallerGoes, options, reader, worker,
     memory, copier, CallerTypes
<1>5. QED
  BY <1>2, <1>3, <1>4 DEF NInv

\* The reader is destroyed.
LEMMA DestroyNInv ==
  ASSUME NInv, Destroy
  PROVE  NInv'
<1>1. UNCHANGED <<streams, tracked, queue, req, slot, hand, pending, bounce,
                  dma, dst, caller, sent, waited, want, ready, raised>>
  BY DEF Destroy, Notify, options, reader, worker, memory, copier
<1>2. RequestTypes' /\ CallerTypes' /\ DstInv' /\ OneHolder' /\ CountInv' /\
      LandedInv' /\ PrefixInv' /\ ReadyInv' /\ QueueInv' /\ CallerInv'
  BY <1>1, Frame
<1>3. WorkerTypes'
  BY DEF NInv, WorkerTypes, Destroy, Notify, options, reader, worker, memory,
     copier
<1>4. AtInv'
  BY DEF NInv, AtInv, Destroy, Notify, options, reader, worker, memory,
     copier, WorkerTypes, Slots, BuffersPerThread
<1>5. DmaInv'
  BY DEF NInv, DmaInv, DmaAt, Flying, Destroy, Notify, options, reader,
     worker, memory, copier, WorkerTypes
<1>6. QED
  BY <1>2, <1>3, <1>4, <1>5 DEF NInv

-----------------------------------------------------------------------------
(* The invariant.                                                          *)

LEMMA InitNInv ==
  ASSUME Init
  PROVE  NInv
<1>1. WorkerTypes
  <2>1. /\ 0 \in Slots
        /\ \A X, y : y \in X => [s \in Slots |-> y] \in [Slots -> X]
    BY DEF Slots, BuffersPerThread
  <2>2. /\ slot \in [Workers -> Slots]
        /\ pending \in [Workers -> [Slots -> AllBlocks \cup {NoBlock}]]
        /\ bounce \in [Workers -> [Slots -> AllBlocks \cup {NoBlock}]]
    BY <2>1 DEF Init
  <2>3. dma \in [Workers -> [Slots -> {"none", "flying", "landed", "broken"}]]
    BY <2>1 DEF Init
  <2>4. QED
    BY <2>2, <2>3 DEF Init, WorkerTypes
<1>2. \A id \in Requests :
         /\ req[id].next = 0 /\ req[id].remaining = Size(id)
         /\ req[id].completed = {} /\ req[id].prefix = 0 /\ ~req[id].failed
  BY DEF Init, NewRequest, Size
<1>3. RequestTypes
  <2>1. req = [id \in Requests |-> NewRequest(Size(id))]
    BY DEF Init, Size
  <2>2. \A id \in Requests :
           NewRequest(Size(id)) \in [next : Nat, remaining : Nat,
                                     completed : SUBSET Nat, prefix : Nat,
                                     failed : BOOLEAN]
    BY RequestFacts DEF NewRequest
  <2>3. queue \in Seq(Requests)
    BY DEF Init
  <2>4. \A id \in Requests :
           /\ req[id].next <= Size(id) /\ req[id].remaining <= Size(id)
           /\ req[id].completed \in SUBSET (0 .. Size(id) - 1)
           /\ req[id].prefix <= Size(id)
    BY <1>2, RequestFacts
  <2>5. QED
    BY <2>1, <2>2, <2>3, <2>4 DEF RequestTypes
<1>4. CallerTypes
  <2>1. \A c \in Copiers : 0 <= Len(Length[c])
    BY RequestFacts
  <2>2. QED
    BY <2>1 DEF Init, CallerTypes
<1>5. AtInv /\ DmaInv /\ DstInv /\ OneHolder
  BY DEF Init, AtInv, DmaInv, DmaAt, DstInv, OneHolder, Slots, BuffersPerThread
<1>6. CountInv
  <2>1. ASSUME NEW id \in Requests PROVE Out(id) = {}
    BY BlockFacts DEF Init, Out
  <2>2. \A id \in Requests : Size(id) = Size(id) - 0 + 0
    BY RequestFacts
  <2>3. QED
    BY <1>2, <2>1, <2>2, FS_EmptySet DEF CountInv
<1>7. LandedInv /\ PrefixInv
  <2>1. 0 .. 0 - 1 = {}
    OBVIOUS
  <2>2. QED
    BY <1>2, <2>1 DEF LandedInv, PrefixInv
<1>8. ReadyInv
  <2>1. \A id \in Requests : ready[id[1]][id[2]] = 0
    BY RequestFacts DEF Init
  <2>2. QED
    BY <2>1 DEF ReadyInv
<1>9. QueueInv
  BY <1>2 DEF Init, QueueInv
<1>10. CallerInv
  BY RequestFacts DEF Init, CallerInv
<1>11. QED
  BY <1>1, <1>3, <1>4, <1>5, <1>6, <1>7, <1>8, <1>9, <1>10 DEF NInv

LEMMA NextNInv ==
  ASSUME NInv, [Next]_vars
  PROVE  NInv'
<1>1. ASSUME NEW w \in Workers, Work(w) PROVE NInv'
  BY <1>1, FindWorkNInv, NoWorkNInv, DrainIdleNInv, BuffersDrainedNInv,
     SleepNInv, ExitNInv, DrainReuseNInv, ReadNInv, ReadFailsNInv,
     StartCopyNInv, CopyNowNInv, CopyFailsNInv, AbortNInv DEF Work
<1>2. ASSUME NEW w \in Workers, Device(w) PROVE NInv'
  BY <1>2, LandNInv, BreakNInv DEF Device
<1>3. ASSUME NEW c \in Copiers, Copier(c) PROVE NInv'
  BY <1>3, SubmitNInv, SubmitRaisesNInv, PrefixReadyNInv, PrefixRaisesNInv,
     PrefixSleepsNInv, WaitReadNInv, CloseFileNInv DEF Copier
<1>4. ASSUME NEW c \in Copiers, User(c) PROVE NInv'
  BY <1>4, AskNInv, CloseBufferNInv, AbandonNInv DEF User
<1>5. CASE Destroy
  BY <1>5, DestroyNInv
<1>6. CASE UNCHANGED vars
  BY <1>6, Frame DEF vars, options, reader, worker, memory, copier, NInv
<1>7. QED
  BY <1>1, <1>2, <1>3, <1>4, <1>5, <1>6 DEF Next

LEMMA AlwaysNInv == Spec => []NInv
<1>1. Init => NInv
  BY InitNInv
<1>2. NInv /\ [Next]_vars => NInv'
  BY NextNInv
<1>3. QED
  BY <1>1, <1>2, PTL DEF Spec

-----------------------------------------------------------------------------
(* What it gives.                                                          *)

\* A copier that has closed its file has drained its reads: nothing of them
\* is left to be taken, and nothing is out.
LEMMA DrainedIsOver ==
  ASSUME NInv, NEW c \in Copiers, NEW k \in 1 .. waited[c]
  PROVE  /\ <<c, k>> \in Requests
         /\ req[<<c, k>>].next = Size(<<c, k>>) /\ Out(<<c, k>>) = {}
<1> DEFINE id == <<c, k>>
<1>1. /\ waited[c] \in Nat /\ sent[c] \in Nat /\ waited[c] <= sent[c]
      /\ sent[c] <= Len(Length[c]) /\ Len(Length[c]) \in Nat
  BY RequestFacts DEF NInv, CallerTypes
<1>2. k \in 1 .. Len(Length[c])
  BY <1>1
<1>3. id \in Requests
  BY <1>2, RequestFacts
<1>4. req[id].remaining = 0
  BY DEF NInv, CallerInv
<1> HIDE DEF id
<1>5. /\ 0 = Size(id) - req[id].next + Cardinality(Out(id))
      /\ req[id].next \in Nat /\ req[id].next <= Size(id)
      /\ Size(id) \in Nat /\ Cardinality(Out(id)) \in Nat
  BY <1>3, <1>4, RequestFacts, OutFacts DEF NInv, CountInv, RequestTypes
<1>6. req[id].next = Size(id) /\ Cardinality(Out(id)) = 0
  <2>1. \A s, n, m \in Nat : n <= s /\ 0 = s - n + m => n = s /\ m = 0
    OBVIOUS
  <2>2. QED
    BY <1>5, <2>1, Zenon
<1>7. Out(id) = {}
  BY <1>3, <1>6, OutFacts
<1>8. QED
  BY <1>3, <1>6, <1>7 DEF id

\* Types, for every layout of the reads.
THEOREM NogdsTypes == Spec => []TypeOK
<1>1. ASSUME NInv PROVE TypeOK
  <2>1. ASSUME NEW id \in Requests
        PROVE  LET n == Length[id[1]][id[2]] IN
               req[id] \in [next : 0 .. n, remaining : 0 .. n,
                            completed : SUBSET (0 .. n - 1), prefix : 0 .. n,
                            failed : BOOLEAN]
    <3>1. /\ req[id] \in [next : Nat, remaining : Nat, completed : SUBSET Nat,
                          prefix : Nat, failed : BOOLEAN]
          /\ req[id].next <= Size(id) /\ req[id].remaining <= Size(id)
          /\ req[id].completed \in SUBSET (0 .. Size(id) - 1)
          /\ req[id].prefix <= Size(id) /\ Size(id) \in Nat
      BY <1>1, RequestFacts DEF NInv, RequestTypes
    <3>2. /\ req[id].next \in 0 .. Size(id)
          /\ req[id].remaining \in 0 .. Size(id)
          /\ req[id].prefix \in 0 .. Size(id)
      BY <3>1
    <3>3. req[id] \in [next : 0 .. Size(id), remaining : 0 .. Size(id),
                       completed : SUBSET (0 .. Size(id) - 1),
                       prefix : 0 .. Size(id), failed : BOOLEAN]
      BY <3>1, <3>2
    <3>4. QED
      BY <3>3 DEF Size
  <2>2. ASSUME NEW c \in Copiers
        PROVE  sent[c] \in 0 .. Len(Length[c]) /\ waited[c] \in 0 .. sent[c]
    <3>1. /\ sent[c] \in Nat /\ waited[c] \in Nat /\ Len(Length[c]) \in Nat
          /\ sent[c] <= Len(Length[c]) /\ waited[c] <= sent[c]
      BY <1>1, RequestFacts DEF NInv, CallerTypes
    <3>2. QED
      BY <3>1
  <2>3. QED
    BY <1>1, <2>1, <2>2 DEF NInv, WorkerTypes, RequestTypes, CallerTypes, TypeOK
<1>2. QED
  BY <1>1, AlwaysNInv, PTL

\* nogds_file_reader never reports a block that is not there: what
\* wait_read_prefix covered, and all of a file that finish_io ended without an
\* error, is in the device memory, whatever the workers interleave.
THEOREM BytesAreThere == Spec => []BytesReady
<1>1. ASSUME NInv PROVE BytesReady
  <2>1. SUFFICES ASSUME NEW b \in AllBlocks, MayUse(b) PROVE dst[b] = b
    BY DEF BytesReady
  <2> DEFINE id == Id(b)
             p == Position(b)
             c == id[1]
  <2>2. /\ id \in Requests /\ b = <<id, p>> /\ p \in 0 .. Size(id) - 1
        /\ c \in Copiers /\ id[2] \in 1 .. Len(Length[c])
        /\ id = <<c, id[2]>> /\ p \in Nat
    BY BlockFacts, RequestFacts
  <2>3. \/ p < ready[c][id[2]]
        \/ caller[c] = "closed" /\ ~raised[c]
    BY <2>1 DEF MayUse, Owner
  <2> HIDE DEF id, p
  <2>4. CASE p < ready[c][id[2]]
    <3>1. ready[c][id[2]] \in Nat
      BY <1>1, <2>2 DEF NInv, CallerTypes
    <3>2. p \in 0 .. ready[id[1]][id[2]] - 1
      BY <2>2, <2>4, <3>1
    <3>3. p \in req[id].completed
      BY <1>1, <2>2, <3>2 DEF NInv, ReadyInv
    <3>4. QED
      BY <1>1, <2>2, <3>3 DEF NInv, PrefixInv
  <2>5. CASE caller[c] = "closed" /\ ~raised[c]
    <3>1. sent[c] = Len(Length[c]) /\ waited[c] = sent[c]
      BY <1>1, <2>2, <2>5 DEF NInv, CallerInv
    <3>2. id[2] \in 1 .. waited[c]
      BY <2>2, <3>1
    <3>3. req[id].next = Size(id) /\ Out(id) = {}
      BY <1>1, <2>2, <3>2, DrainedIsOver
    <3>4. ~req[id].failed
      BY <1>1, <2>2, <2>5, <3>2 DEF NInv, CallerInv
    <3>5. QED
      BY <1>1, <2>2, <3>3, <3>4 DEF NInv, LandedInv
  <2>6. QED
    BY <2>3, <2>4, <2>5
<1>2. QED
  BY <1>1, AlwaysNInv, PTL

\* worker() drains a bounce buffer before it fills it again.
THEOREM BouncesIntact == Spec => []BounceIntact
<1>1. ASSUME NInv PROVE BounceIntact
  BY <1>1 DEF NInv, DmaInv, DmaAt, BounceIntact
<1>2. QED
  BY <1>1, AlwaysNInv, PTL

\* After finish_io no thread reads the file and no copy writes the buffer,
\* the failed reads and the submissions that raised included.
THEOREM NothingLate == Spec => []NoLateUse
<1>1. ASSUME NInv PROVE NoLateUse
  <2>1. SUFFICES ASSUME NEW c \in Copiers, caller[c] = "closed"
                 PROVE  /\ \A w \in Workers :
                              \A b \in Touched(w) \ {NoBlock} : Owner(b) # c
                        /\ \A i \in 1 .. Len(queue) : queue[i][1] # c
    BY DEF NoLateUse
  <2>2. waited[c] = sent[c]
    BY <1>1, <2>1 DEF NInv, CallerInv
  <2>3. ASSUME NEW w \in Workers, NEW b \in Touched(w) \ {NoBlock}
        PROVE  Owner(b) # c
    <3>1. b \in AllBlocks
      BY <1>1, <2>3 DEF Touched, NInv, WorkerTypes
    <3>2. Id(b) \in Requests /\ b \in Out(Id(b))
      BY <2>3, <3>1, BlockFacts DEF Touched, Out
    <3>3. SUFFICES ASSUME Id(b)[1] = c PROVE FALSE
      BY DEF Owner
    <3>4. /\ Id(b) = <<c, Id(b)[2]>> /\ Id(b)[2] \in Nat /\ Id(b)[2] >= 1
      BY <3>2, <3>3, RequestFacts
    <3>5. Id(b)[2] <= sent[c]
      <4>1. Position(b) < req[Id(b)].next /\ Position(b) \in Nat
        BY <1>1, <3>1, <3>2, BlockFacts DEF NInv, CountInv
      <4>2. req[Id(b)].next # 0
        BY <4>1
      <4>3. ~(Id(b)[2] > sent[c])
        BY <1>1, <3>2, <3>3, <4>2 DEF NInv, QueueInv
      <4>4. sent[c] \in Nat
        BY <1>1 DEF NInv, CallerTypes
      <4>5. QED
        BY <3>4, <4>3, <4>4
    <3>6. Id(b)[2] \in 1 .. waited[c]
      <4>1. waited[c] \in Nat
        BY <1>1 DEF NInv, CallerTypes
      <4>2. QED
        BY <2>2, <3>4, <3>5, <4>1
    <3>7. QED
      BY <1>1, <3>2, <3>4, <3>6, DrainedIsOver
  <2>4. ASSUME NEW i \in 1 .. Len(queue), queue[i][1] = c PROVE FALSE
    <3>1. queue[i] \in Requests
      BY <1>1 DEF NInv, RequestTypes
    <3>2. /\ queue[i] = <<c, queue[i][2]>> /\ queue[i][2] \in 1 .. Len(Length[c])
          /\ Size(queue[i]) \in Nat
      BY <2>4, <3>1, RequestFacts
    <3>3. /\ queue[i][2] <= waited[c]
          /\ req[queue[i]].next < Size(queue[i])
      BY <1>1, <2>2, <2>4 DEF NInv, QueueInv
    <3>4. queue[i][2] \in 1 .. waited[c]
      <4>1. waited[c] \in Nat
        BY <1>1 DEF NInv, CallerTypes
      <4>2. QED
        BY <3>2, <3>3, <4>1
    <3>5. req[queue[i]].next = Size(queue[i])
      BY <1>1, <3>2, <3>4, DrainedIsOver
    <3>6. QED
      BY <3>2, <3>3, <3>5
  <2>5. QED
    BY <2>3, <2>4
<1>2. QED
  BY <1>1, AlwaysNInv, PTL

=============================================================================
