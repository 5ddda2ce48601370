---------------------------- MODULE CopierProofs ----------------------------
(***************************************************************************)
(* Proofs about Copiers for every layout of a file, every division of it   *)
(* among requests, runs, spans and blocks, and every number of threads:    *)
(* the copiers return what they hold, and keep the contract of             *)
(* CopierInterface as long as no pread of the blocking dma_load_runs is    *)
(* short (~ShortReads): a short one breaks it, as MCCopiersShort shows.    *)
(***************************************************************************)
EXTENDS Copiers, WellFoundedInduction, TLAPS

GdsPoints == {"open", "alloc", "submit", "undo", "use", "drain", "move",
              "served", "free", "closed", "raised", "delegated"}
FgdsPoints == {"open", "alloc", "register", "submit", "undo", "drain", "move",
               "served", "free", "closed", "raised"}
UnifiedPoints == {"open", "read", "map", "use", "drain", "lost", "move",
                  "served", "free", "closed", "raised", "leaked"}

Typed ==
    /\ kind \in {"gds", "fgds", "unified"} /\ ready \in BOOLEAN
    /\ sent \in Nat /\ waited \in Nat /\ waited <= sent
    /\ piece \in [Pieces -> {"idle", "queued", "busy", "landed", "missed"}]
    /\ slot \in [0 .. Threads - 1 -> Nat]
    /\ rc \in {"none", "reading", "failing", "ok", "error"}
    /\ want = <<>> \/ want \in Tensors \X (Nat \ {0})
    /\ broken \in BOOLEAN

\* Where each copier can be, and when there is something to look at.
PointsInv ==
    /\ kind = "gds" => pc \in GdsPoints
    /\ kind = "fgds" => pc \in FgdsPoints /\ ~ready
    /\ kind = "unified" => pc \in UnifiedPoints
    /\ want # <<>> => pc = "use"
    /\ pc = "use" => ready
    /\ given # {} \/ seen # {} =>
          \/ pc \in {"served", "free", "closed", "raised"}
          \/ pc \in {"use", "drain"} /\ ready

\* What is held at each point.
HeldInv ==
    /\ pc = "open" => held = {}
    /\ pc \in {"register", "submit", "read", "map"} => Buffer \in held
    /\ pc \in {"move", "served", "free"} \/ kind = "unified"
          => held \subseteq {Buffer}
    /\ pc \in {"closed", "raised"} => held = {}

\* No read is under way where the buffer can be freed or moved.
QuietInv ==
    /\ pc \in {"open", "alloc", "register", "move", "served", "free",
               "closed", "raised", "delegated"} => Writing = {}
    /\ pc = "read" /\ rc = "none" => Writing = {}
    /\ pc = "map" /\ sent = 0 => Writing = {}

\* Bytes that a pread leaves out are missed by the copier that waits for
\* dma_load_runs in submit_io, and by no other.
Exact == ~(ShortReads /\ kind = "unified" /\ ~ready)

\* What is known or shown to have landed has; so has all when the bytes move.
LandedInv ==
    /\ seen \subseteq Landed
    /\ Exact => \A t \in given : t \subseteq Landed
    /\ Exact /\ pc = "move" => Data \subseteq Landed

\* A request is submitted once, its failure is remembered, and it is over
\* when finish_io has waited for it.
GdsInv ==
    kind = "gds" =>
    /\ sent <= Len(Parts)
    /\ \A r \in Requests : r > sent => \A p \in Parts[r] : piece[p] = "idle"
    /\ \A r \in 1 .. sent : \A p \in BlocksOf(r) : piece[p] # "idle"
    /\ \A p \in Pieces \ Data : piece[p] = "idle"
    /\ \A r \in Requests : \A p \in Parts[r] :
          piece[p] = "missed" => r \in failed
    /\ \A r \in 1 .. waited : Done(r) /\ (r \in failed => broken)
    /\ pc \in {"open", "alloc"} => sent = 0
    /\ pc \in {"open", "alloc", "submit"} => waited = 0
    /\ pc \in {"use", "drain"} => sent = Len(Parts)
    /\ want # <<>> =>
          \A r \in Requests :
             r < want[2] => GdsAwaits(want[1], r) \subseteq seen

\* A thread that runs is in its slot, and a request waited for has stopped.
FgdsInv ==
    kind = "fgds" =>
    /\ sent <= Len(Parts)
    /\ \A r \in Requests : r > sent => \A p \in Parts[r] : piece[p] = "idle"
    /\ \A r \in 1 .. sent : ~Stopped(r) => slot[SlotOf(r)] = r
    /\ \A r \in 1 .. waited :
          Stopped(r) /\ (broken \/ Needed(r) \subseteq Landed)
    /\ pc \in {"open", "alloc", "register"} => sent = 0
    /\ pc \in {"open", "alloc", "register", "submit"} => waited = 0
    /\ pc = "drain" => sent = Len(Parts)

\* The blocking dma_load_runs is good only when all landed; otherwise the runs
\* are mapped and copied, one after the other.
UnifiedInv ==
    kind = "unified" =>
    /\ sent <= Len(Runs)
    /\ \A i \in 1 .. sent : \A p \in Runs[i] : piece[p] \in {"busy", "landed"}
    /\ \A p \in Pieces \ Data : piece[p] = "idle"
    /\ pc \in {"open", "read"} => sent = 0
    /\ pc = "open" => rc = "none"
    /\ pc = "map" => ~ready /\ rc # "ok"
    /\ ready => direct /\ sent = 0
    /\ Reading => ready \/ pc = "read"
    /\ ~ready /\ Exact /\ rc = "reading"
          => \A p \in Data : piece[p] \in {"queued", "landed"}
    /\ ~ready /\ Exact /\ rc = "ok" => Data \subseteq Landed
    /\ ~ready /\ pc = "drain" => rc = "ok" \/ sent = Len(Runs)

CInv == Typed /\ PointsInv /\ HeldInv /\ QuietInv /\ LandedInv
        /\ GdsInv /\ FgdsInv /\ UnifiedInv

-----------------------------------------------------------------------------
(* The layout of the file, and the least of a set of pieces.               *)

LEMMA RequestsLayout ==
  /\ Pieces \subseteq Nat /\ Data \subseteq Pieces
  /\ Len(Parts) \in Nat /\ Requests = 1 .. Len(Parts)
  /\ \A r \in Requests : Parts[r] \subseteq Pieces
  /\ \A p \in Pieces : \E r \in Requests : p \in Parts[r]
  /\ \A r, s \in Requests, p \in Pieces :
        p \in Parts[r] /\ p \in Parts[s] => r = s
  /\ Threads \in Nat \ {0}
<1>1. /\ Parts \in Seq(SUBSET Nat) /\ InOrder(Parts)
      /\ Threads \in Nat \ {0}
  BY LayoutAssumption
<1>2. Len(Parts) \in Nat /\ Requests = 1 .. Len(Parts)
  BY <1>1 DEF Requests
<1>3. \A r \in Requests : Parts[r] \subseteq Nat
  BY <1>1, <1>2
<1>4. Pieces \subseteq Nat /\ Data \subseteq Pieces
  BY <1>3 DEF Pieces, Data
<1>5. ASSUME NEW r \in Requests, NEW s \in Requests, NEW p \in Pieces,
             p \in Parts[r], p \in Parts[s], r # s
      PROVE  FALSE
  <2>1. r \in Nat /\ s \in Nat /\ p \in Nat
    BY <1>2, <1>4
  <2>2. r < s \/ s < r
    BY <1>5, <2>1
  <2>3. p < p
    BY <1>1, <1>5, <2>2 DEF InOrder, Requests
  <2>4. QED
    BY <2>1, <2>3
<1>6. QED
  BY <1>1, <1>2, <1>4, <1>5 DEF Pieces

LEMMA OwnRequest ==
  ASSUME NEW p \in Pieces
  PROVE  /\ RequestOf(p) \in Requests /\ p \in Parts[RequestOf(p)]
         /\ \A r \in Requests : p \in Parts[r] => r = RequestOf(p)
<1>1. \E r \in Requests : p \in Parts[r]
  BY RequestsLayout
<1>2. RequestOf(p) \in Requests /\ p \in Parts[RequestOf(p)]
  BY <1>1 DEF RequestOf
<1>3. QED
  BY <1>2, RequestsLayout

LEMMA RunsLayout ==
  /\ Len(Runs) \in Nat
  /\ \A i \in 1 .. Len(Runs) : Runs[i] \subseteq Data
  /\ \A p \in Data : \E i \in 1 .. Len(Runs) : p \in Runs[i]
  /\ \A w \in DOMAIN Spans : Spans[w] \subseteq Data
  /\ \A p \in Data : \E b \in Blocks : p \in b
  /\ \A b \in Blocks : b \subseteq Data
  /\ \A t \in Tensors : t \subseteq Data
<1>1. /\ Runs \in Seq(SUBSET Nat)
      /\ UNION Sets(Runs) = Data /\ UNION Sets(Spans) = Data
      /\ UNION Blocks = Data
      /\ \A t \in Tensors : t \subseteq Data
  BY LayoutAssumption DEF Cuts
<1>2. Len(Runs) \in Nat /\ DOMAIN Runs = 1 .. Len(Runs)
  BY <1>1
<1>3. QED
  BY <1>1, <1>2 DEF Sets

\* A set of numbers that is not empty has a least one: < is well-founded.
LEMMA LeastIn ==
  ASSUME NEW S \in SUBSET Nat, S # {}
  PROVE  Least(S) \in S
<1>1. \A y, z \in Nat : y < z => <<y, z>> \in OpToRel(<, Nat)
  BY Zenon DEF OpToRel
<1>2. \E x \in S : \A y \in S : ~(<<y, x>> \in OpToRel(<, Nat))
  BY NatLessThanWellFounded, WFMin
<1>3. \E x \in S : \A y \in S : ~(y < x)
  BY <1>1, <1>2, Zenon
<1>4. PICK x \in S : \A y \in S : x <= y
  BY <1>3
<1>5. QED
  BY <1>4 DEF Least

States == {"idle", "queued", "busy", "landed", "missed"}

\* What it is for some pieces to go on, or to end, ...
LEMMA PiecesMove ==
  ASSUME Typed, NEW S \in SUBSET Writing,
         NEW v \in {"busy", "landed", "missed"}, piece' = Becomes(S, v)
  PROVE  /\ piece' \in [Pieces -> States]
         /\ \A p \in Pieces : piece'[p] = IF p \in S THEN v ELSE piece[p]
         /\ Writing' = IF v = "busy" THEN Writing ELSE Writing \ S
         /\ Landed' = IF v = "landed" THEN Landed \cup S ELSE Landed
         /\ \A p \in S : piece[p] \in {"queued", "busy"} /\ p \in Pieces
<1>1. \A p \in Pieces : piece'[p] = IF p \in S THEN v ELSE piece[p]
  BY DEF Becomes
<1>2. S \subseteq Pieces /\ \A p \in S : piece[p] \in {"queued", "busy"}
  BY DEF Writing
<1>3. piece' \in [Pieces -> States]
  BY DEF Typed, Becomes, States
<1>4. Writing' = IF v = "busy" THEN Writing ELSE Writing \ S
  BY <1>1, <1>2 DEF Writing, Pieces, Requests
<1>5. Landed' = IF v = "landed" THEN Landed \cup S ELSE Landed
  BY <1>1, <1>2 DEF Landed, Pieces, Requests
<1>6. QED
  BY <1>1, <1>2, <1>3, <1>4, <1>5

\* ... and for some to begin.
LEMMA PiecesStart ==
  ASSUME Typed, NEW S \in SUBSET Pieces,
         NEW v \in {"queued", "busy"}, piece' = Becomes(S, v)
  PROVE  /\ piece' \in [Pieces -> States]
         /\ \A p \in Pieces : piece'[p] = IF p \in S THEN v ELSE piece[p]
         /\ Writing' = Writing \cup S
         /\ Landed' = Landed \ S
<1>1. \A p \in Pieces : piece'[p] = IF p \in S THEN v ELSE piece[p]
  BY DEF Becomes
<1>2. piece' \in [Pieces -> States]
  BY DEF Typed, Becomes, States
<1>3. Writing' = Writing \cup S
  BY <1>1 DEF Writing, Pieces, Requests
<1>4. Landed' = Landed \ S
  BY <1>1 DEF Landed, Pieces, Requests
<1>5. QED
  BY <1>1, <1>2, <1>3, <1>4

\* What the reads of each copier do to the pieces.
LEMMA GdsTakes ==
  ASSUME GdsTake
  PROVE  \E p \in Pieces :
            piece[p] = "queued" /\ piece' = Becomes({p}, "busy")
<1> DEFINE queued == {p \in Pieces : piece[p] = "queued"}
<1>1. queued \in SUBSET Nat /\ queued # {}
  BY RequestsLayout DEF GdsTake
<1>2. Least(queued) \in queued
  BY <1>1, LeastIn
<1>3. QED
  BY <1>2 DEF GdsTake

LEMMA FgdsReads ==
  ASSUME NEW r \in Requests, FgdsRead(r)
  PROVE  \E S \in SUBSET Parts[r], v \in {"landed", "missed"} :
            /\ \A p \in S : piece[p] = "busy"
            /\ piece' = Becomes(S, v)
<1> DEFINE busy == {p \in Parts[r] : piece[p] = "busy"}
<1>1. busy # {}
  BY DEF FgdsRead
<1>2. busy \in SUBSET Nat
  BY RequestsLayout
<1>3. Least(busy) \in busy
  BY <1>1, <1>2, LeastIn
<1>4. {Least(busy)} \in SUBSET Parts[r] /\ busy \in SUBSET Parts[r]
  BY <1>3
<1>5. CASE piece' = Becomes({Least(busy)}, "landed")
  BY <1>3, <1>4, <1>5
<1>6. CASE piece' = Becomes(busy, "missed")
  BY <1>4, <1>6
<1>7. QED
  BY <1>5, <1>6 DEF FgdsRead

LEMMA AheadLayout ==
  ASSUME NEW w \in DOMAIN Spans
  PROVE  /\ Ahead(w) \subseteq Data /\ Ahead(w) \in SUBSET Nat
         /\ Ahead(w) \subseteq Writing
         /\ \A p \in Ahead(w) : piece[p] = "queued"
BY RunsLayout, RequestsLayout DEF Ahead, Writing

LEMMA DmaReads ==
  ASSUME NEW w \in DOMAIN Spans,
         DmaCopy(w) \/ DmaShort(w) \/ DmaFail(w) \/ DmaStop(w)
  PROVE  \E S \in SUBSET Ahead(w), v \in {"landed", "missed"} :
            /\ piece' = Becomes(S, v)
            /\ v = "missed" => ready \/ rc' = "failing" \/ ShortReads
<1>1. Ahead(w) # {}
  BY DEF DmaCopy, DmaShort, DmaFail, DmaStop
<1>2. Least(Ahead(w)) \in Ahead(w)
  BY <1>1, AheadLayout, LeastIn
<1>3. {Least(Ahead(w))} \in SUBSET Ahead(w) /\ Ahead(w) \in SUBSET Ahead(w)
  BY <1>2
<1>4. CASE DmaCopy(w)
  BY <1>3, <1>4 DEF DmaCopy
<1>5. CASE DmaShort(w)
  BY <1>3, <1>5 DEF DmaShort
<1>6. CASE DmaFail(w)
  BY <1>3, <1>6 DEF DmaFail
<1>7. CASE DmaStop(w)
  BY <1>3, <1>7 DEF DmaStop
<1>8. QED
  BY <1>4, <1>5, <1>6, <1>7

LEMMA MapCopies ==
  ASSUME Copied
  PROVE  \E p \in Data : piece[p] = "busy" /\ piece' = Becomes({p}, "landed")
<1> DEFINE busy == {p \in Data : piece[p] = "busy"}
<1>1. busy \in SUBSET Nat /\ busy # {}
  BY RequestsLayout DEF Copied
<1>2. Least(busy) \in busy
  BY <1>1, LeastIn
<1>3. QED
  BY <1>2 DEF Copied

-----------------------------------------------------------------------------
(* Each operation keeps the invariant.                                     *)

\* The factory and the user.
LEMMA FactoryCInv ==
  ASSUME CInv, Factory
  PROVE  CInv'
<1> USE DEF CInv, Exact, options, reader, caller,
        Writing, Landed, Data, Reading, GdsPoints, FgdsPoints, UnifiedPoints,
        Stopped, Needed, Done, BlocksOf, GdsAwaits
<1>1. CASE \E x \in Tensors : Ask(x)
  <2>1. PointsInv' /\ HeldInv' /\ QuietInv' /\ LandedInv' /\ FgdsInv' /\
       UnifiedInv'
    BY <1>1 DEF Ask, PointsInv, HeldInv, QuietInv, LandedInv, FgdsInv,
       UnifiedInv
  <2>2. Typed'
    BY <1>1 DEF Ask, Typed
  <2>3. GdsInv'
    <3>1. PICK x \in Tensors : Ask(x)
      BY <1>1
    <3>2. want'[2] = 1 /\ \A r \in Requests : ~(r < 1)
      BY <3>1, RequestsLayout DEF Ask
    <3>3. QED
      BY <3>1, <3>2 DEF Ask, GdsInv
  <2>4. QED
    BY <2>1, <2>2, <2>3
<1>2. CASE Close
  BY <1>2 DEF Close, Typed, PointsInv, HeldInv, QuietInv, LandedInv, GdsInv,
     FgdsInv, UnifiedInv
<1>3. CASE Materialize
  <2>1. \A x \in Tensors : x \subseteq Data
    BY RunsLayout
  <2>2. Typed' /\ PointsInv' /\ HeldInv' /\ QuietInv' /\ LandedInv' /\
       GdsInv' /\ FgdsInv' /\ UnifiedInv'
    BY <1>3, RunsLayout DEF Materialize, Typed, PointsInv, HeldInv, QuietInv,
       LandedInv, GdsInv, FgdsInv, UnifiedInv
  <2>3. QED
    BY <2>2
<1>4. CASE Served
  BY <1>4 DEF Served, Typed, PointsInv, HeldInv, QuietInv, LandedInv, GdsInv,
     FgdsInv, UnifiedInv
<1>5. CASE Free
  BY <1>5 DEF Free, Typed, PointsInv, HeldInv, QuietInv, LandedInv, GdsInv,
     FgdsInv, UnifiedInv
<1>6. QED
  BY <1>1, <1>2, <1>3, <1>4, <1>5 DEF Factory

\* GdsFileCopier and the workers of its reader.
LEMMA GdsCInv ==
  ASSUME CInv, kind = "gds", Gds
  PROVE  CInv'
<1> USE DEF CInv, Exact, options, reader, caller, Data, GdsPoints, BlocksOf
<1>1. CASE GdsOpenFails
  BY <1>1 DEF GdsOpenFails, Acquired, Typed, PointsInv, HeldInv, QuietInv,
     LandedInv, GdsInv, FgdsInv, UnifiedInv, Writing, Landed, Done, GdsAwaits
<1>2. CASE GdsOpen
  BY <1>2 DEF GdsOpen, Acquired, Typed, PointsInv, HeldInv, QuietInv,
     LandedInv, GdsInv, FgdsInv, UnifiedInv, Writing, Landed, Done, GdsAwaits
<1>3. CASE GdsAlloc
  <2>1. Typed' /\ PointsInv' /\ HeldInv' /\ QuietInv' /\ FgdsInv' /\
       UnifiedInv'
    BY <1>3 DEF GdsAlloc, Acquired, Fails, Typed, PointsInv, HeldInv,
       QuietInv, FgdsInv, UnifiedInv, Writing, Landed, Done, GdsAwaits
  <2>2. LandedInv'
    BY <1>3 DEF GdsAlloc, Acquired, Fails, LandedInv, Landed
  <2>3. GdsInv'
    BY <1>3 DEF GdsAlloc, Acquired, Fails, GdsInv, Writing, Done, GdsAwaits
  <2>4. QED
    BY <2>1, <2>2, <2>3
<1>4. CASE GdsRegister
  BY <1>4 DEF GdsRegister, Acquired, Typed, PointsInv, HeldInv, QuietInv,
     LandedInv, GdsInv, FgdsInv, UnifiedInv, Writing, Landed, Done, GdsAwaits
<1>5. CASE GdsSubmit
  <2>1. Typed' /\ PointsInv' /\ HeldInv' /\ QuietInv' /\ FgdsInv' /\
       UnifiedInv'
    BY <1>5, RequestsLayout DEF GdsSubmit, Becomes, Typed, PointsInv, HeldInv,
       QuietInv, FgdsInv, UnifiedInv, Writing, Landed, Done, GdsAwaits
  <2>2. LandedInv'
    <3>1. seen = {} /\ given = {}
      BY <1>5 DEF GdsSubmit, PointsInv
    <3>2. QED
      BY <1>5, <3>1 DEF GdsSubmit, LandedInv
  <2>3. GdsInv'
    <3> DEFINE r == sent + 1
    <3>1. /\ r \in Requests /\ sent' = r /\ pc = "submit" /\ r = sent + 1
          /\ \A p \in Pieces :
                piece'[p] = IF p \in BlocksOf(r) THEN "queued" ELSE piece[p]
          /\ UNCHANGED <<kind, pc, waited, want, seen, failed, broken>>
      BY <1>5 DEF GdsSubmit, Becomes
    <3>2. \A q \in Requests, p \in Pieces :
             p \in Parts[q] /\ p \in BlocksOf(r) => q = r
      BY <3>1, RequestsLayout
    <3>3. waited = 0 /\ want = <<>> /\ sent \in Nat
      BY <3>1 DEF GdsInv, PointsInv, Typed
    <3> HIDE DEF r
    <3>4. \A q \in Requests : q > sent' =>
             \A p \in Parts[q] : piece'[p] = "idle"
      <4>1. SUFFICES ASSUME NEW q \in Requests, q > sent', NEW p \in Parts[q]
                     PROVE  piece'[p] = "idle"
        OBVIOUS
      <4>2. q > sent /\ q # r /\ p \in Pieces
        BY <3>1, <3>3, <4>1, RequestsLayout
      <4>3. p \notin BlocksOf(r) /\ piece[p] = "idle"
        BY <3>2, <4>1, <4>2 DEF GdsInv
      <4>4. QED
        BY <3>1, <4>2, <4>3
    <3>5. \A q \in 1 .. sent' : \A p \in BlocksOf(q) : piece'[p] # "idle"
      <4>1. SUFFICES ASSUME NEW q \in 1 .. sent', NEW p \in BlocksOf(q)
                     PROVE  piece'[p] # "idle"
        OBVIOUS
      <4>2. p \in Pieces
        BY <4>1
      <4>3. CASE q = r
        BY <3>1, <4>1, <4>2, <4>3
      <4>4. CASE q # r
        <5>1. q \in 1 .. sent
          BY <3>1, <3>3, <4>4
        <5>2. piece[p] # "idle"
          BY <4>1, <5>1 DEF GdsInv
        <5>3. QED
          BY <3>1, <4>2, <5>2
      <4>5. QED
        BY <4>3, <4>4
    <3>6. \A p \in Pieces \ Data : piece'[p] = "idle"
      BY <3>1 DEF GdsInv
    <3>7. \A q \in Requests : \A p \in Parts[q] :
             piece'[p] = "missed" => q \in failed'
      BY <3>1, RequestsLayout DEF GdsInv
    <3>8. sent' <= Len(Parts)
      BY <3>1, RequestsLayout
    <3>9. QED
      BY <3>1, <3>3, <3>4, <3>5, <3>6, <3>7, <3>8 DEF GdsInv
  <2>4. QED
    BY <2>1, <2>2, <2>3
<1>6. CASE GdsSubmitFails
  BY <1>6 DEF GdsSubmitFails, Acquired, Fails, Typed, PointsInv, HeldInv,
     QuietInv, LandedInv, GdsInv, FgdsInv, UnifiedInv, Writing, Landed, Done,
     GdsAwaits
<1>7. CASE GdsSubmitted
  <2>1. Typed' /\ PointsInv' /\ HeldInv' /\ QuietInv' /\ LandedInv' /\
       FgdsInv' /\ UnifiedInv'
    BY <1>7 DEF GdsSubmitted, Acquired, Typed, PointsInv, HeldInv, QuietInv,
       LandedInv, FgdsInv, UnifiedInv, Writing, Landed, Done, GdsAwaits
  <2>2. GdsInv'
    <3>1. /\ pc = "submit" /\ sent + 1 \notin 1 .. Len(Parts)
          /\ UNCHANGED <<kind, sent, piece, failed, waited, want, seen,
                         broken>>
      BY <1>7, RequestsLayout DEF GdsSubmitted, Acquired
    <3>2. sent = Len(Parts)
      BY <3>1, RequestsLayout DEF GdsInv, Typed
    <3>3. QED
      BY <1>7, <3>1, <3>2 DEF GdsSubmitted, Acquired, GdsInv
  <2>3. QED
    BY <2>1, <2>2
<1>8. CASE GdsTake
  <2>1. PICK p \in Pieces :
           piece[p] = "queued" /\ piece' = Becomes({p}, "busy")
    BY <1>8, GdsTakes
  <2>2. /\ piece' \in [Pieces -> States] /\ Writing' = Writing
        /\ Landed' = Landed
        /\ \A q \in Pieces : piece'[q] = IF q = p THEN "busy" ELSE piece[q]
    <3>1. {p} \in SUBSET Writing
      BY <2>1 DEF Writing
    <3>2. QED
      BY <2>1, <3>1, PiecesMove
  <2>3. PointsInv' /\ HeldInv' /\ QuietInv' /\ LandedInv' /\ FgdsInv' /\
       UnifiedInv'
    BY <1>8, <2>2 DEF GdsTake, PointsInv, HeldInv, QuietInv, LandedInv,
       FgdsInv, UnifiedInv, Writing, Landed, Done, GdsAwaits
  <2>4. Typed'
    BY <1>8, <2>2 DEF GdsTake, Typed, States
  <2>5. GdsInv'
    <3>1. UNCHANGED <<kind, sent, failed, waited, want, seen, pc, broken>>
      BY <1>8 DEF GdsTake
    <3>2. \A r \in 1 .. waited : Done(r)'
      BY <2>2, <3>1 DEF GdsInv, Done, BlocksOf
    <3>3. \A r \in Requests : r > sent => p \notin Parts[r]
      BY <2>1 DEF GdsInv
    <3>4. p \in Data
      BY <2>1 DEF GdsInv
    <3>5. \A r \in Requests : r > sent' =>
             \A q \in Parts[r] : piece'[q] = "idle"
      <4>1. SUFFICES ASSUME NEW r \in Requests, r > sent', NEW q \in Parts[r]
                     PROVE  piece'[q] = "idle"
        OBVIOUS
      <4>2. q \in Pieces /\ r > sent /\ q # p
        BY <3>1, <3>3, <4>1, RequestsLayout
      <4>3. QED
        BY <2>2, <4>1, <4>2 DEF GdsInv
    <3>6. \A r \in 1 .. sent' : \A q \in BlocksOf(r) : piece'[q] # "idle"
      BY <2>2, <3>1, RequestsLayout DEF GdsInv, BlocksOf
    <3>7. \A q \in Pieces \ Data : piece'[q] = "idle"
      BY <2>2, <3>1, <3>4 DEF GdsInv
    <3>8. \A r \in Requests : \A q \in Parts[r] :
             piece'[q] = "missed" => r \in failed'
      BY <2>2, <3>1, RequestsLayout DEF GdsInv
    <3>9. QED
      BY <3>1, <3>2, <3>5, <3>6, <3>7, <3>8 DEF GdsInv, GdsAwaits
  <2>6. QED
    BY <2>3, <2>4, <2>5
<1>9. CASE \E p \in Pieces, ok \in BOOLEAN : GdsRead(p, ok)
  <2>1. PICK p \in Pieces, ok \in BOOLEAN : GdsRead(p, ok)
    BY <1>9
  <2>2. /\ piece' \in [Pieces -> States] /\ Writing' = Writing \ {p}
        /\ Landed \subseteq Landed'
        /\ \A q \in Pieces : piece'[q] = IF q # p THEN piece[q]
                                         ELSE IF ok THEN "landed" ELSE "missed"
    <3>1. /\ {p} \in SUBSET Writing
          /\ piece' = Becomes({p}, IF ok THEN "landed" ELSE "missed")
      BY <2>1 DEF GdsRead, Writing
    <3>2. CASE ok
      BY <3>1, <3>2, PiecesMove
    <3>3. CASE ~ok
      BY <3>1, <3>3, PiecesMove
    <3>4. QED
      BY <3>2, <3>3
  <2>3. PointsInv' /\ HeldInv' /\ QuietInv' /\ LandedInv' /\ FgdsInv' /\
       UnifiedInv'
    BY ZenonT(60), <1>9, <2>1, <2>2 DEF GdsRead, PointsInv, HeldInv, QuietInv, LandedInv,
       FgdsInv, UnifiedInv, Writing, Landed, Done, GdsAwaits
  <2>4. Typed'
    BY <2>1, <2>2 DEF GdsRead, Typed, States
  <2>5. GdsInv'
    <3>1. /\ UNCHANGED <<kind, sent, waited, want, seen, pc, broken>>
          /\ failed \subseteq failed' /\ piece[p] = "busy"
          /\ failed' \subseteq failed \cup {RequestOf(p)}
          /\ ~ok => RequestOf(p) \in failed'
      BY <2>1 DEF GdsRead
    <3>2. \A r \in 1 .. waited : Done(r)'
      BY <2>2, <3>1 DEF GdsInv, Done, BlocksOf
    <3>3. \A r \in Requests : r > sent => p \notin Parts[r]
      BY <2>1, <3>1 DEF GdsInv
    <3>4. p \in Data
      BY <2>1, <3>1 DEF GdsInv
    <3>5. \A r \in 1 .. waited : r # RequestOf(p)
      <4>1. p \in Writing /\ p \in BlocksOf(RequestOf(p))
        BY <2>1, <3>1, <3>4, OwnRequest DEF Writing, BlocksOf
      <4>2. QED
        BY <4>1 DEF GdsInv, Done
    <3>6. \A r \in Requests : \A q \in Parts[r] :
             piece'[q] = "missed" => r \in failed'
      BY ZenonT(60), <2>2, <3>1, OwnRequest, RequestsLayout DEF GdsInv
    <3>7. \A r \in Requests : r > sent' =>
             \A q \in Parts[r] : piece'[q] = "idle"
      <4>1. SUFFICES ASSUME NEW r \in Requests, r > sent', NEW q \in Parts[r]
                     PROVE  piece'[q] = "idle"
        OBVIOUS
      <4>2. q \in Pieces /\ r > sent /\ q # p
        BY <3>1, <3>3, <4>1, RequestsLayout
      <4>3. QED
        BY <2>2, <4>1, <4>2 DEF GdsInv
    <3>8. \A r \in 1 .. sent' : \A q \in BlocksOf(r) : piece'[q] # "idle"
      <4>1. SUFFICES ASSUME NEW r \in 1 .. sent', NEW q \in BlocksOf(r)
                     PROVE  piece'[q] # "idle"
        OBVIOUS
      <4>2. q \in Pieces /\ r \in 1 .. sent
        BY <3>1, <4>1
      <4>3. piece[q] # "idle"
        BY <4>1, <4>2 DEF GdsInv
      <4>4. QED
        BY <2>2, <4>2, <4>3
    <3>9. \A q \in Pieces \ Data : piece'[q] = "idle"
      BY <2>2, <3>1, <3>4 DEF GdsInv
    <3>10. \A r \in 1 .. waited' : r \in failed' => broken'
      BY <3>1, <3>5 DEF GdsInv
    <3>11. QED
      BY <3>1, <3>2, <3>6, <3>7, <3>8, <3>9, <3>10 DEF GdsInv, GdsAwaits
  <2>6. QED
    BY <2>3, <2>4, <2>5
<1>10. CASE GdsWaitPrefix
  <2> DEFINE t == want[1]
             r == want[2]
  <2>1. /\ pc = "use" /\ ready /\ t \in Tensors /\ r \in Nat \ {0}
        /\ sent = Len(Parts)
        /\ want \in Tensors \X (Nat \ {0})
        /\ UNCHANGED <<kind, ready, sent, piece, failed, slot, rc, held,
                       waited>>
    BY <1>10 DEF GdsWaitPrefix, Answer, Refuse, Sleep, GdsNextRequest,
       PointsInv,
       Typed, GdsInv
  <2>2. Writing' = Writing /\ Landed' = Landed
    BY <2>1 DEF Writing, Landed
  <2>3. \/ /\ UNCHANGED <<pc, broken>>
           /\ \/ want' = <<t, r + 1>> /\ given' = given
              \/ want' = want /\ given' = given /\ UNCHANGED seen
              \/ r \notin Requests /\ want' = <<>> /\ given' = given \cup {t}
                 /\ UNCHANGED seen
        \/ /\ pc' = "drain" /\ broken' = TRUE /\ want' = <<>>
           /\ UNCHANGED <<seen, given>>
    BY <1>10 DEF GdsWaitPrefix, Answer, Refuse, Sleep, GdsNextRequest
  <2>4. /\ seen' = seen \/ seen' = seen \cup Prefix(r)
        /\ want' = <<t, r + 1>> =>
              (r \in Requests => GdsAwaits(t, r) \subseteq seen')
    BY <1>10, <2>1 DEF GdsWaitPrefix, Answer, Refuse, Sleep, GdsNextRequest
  <2>5. seen' \subseteq Landed
    <3>1. SUFFICES ASSUME NEW p \in Prefix(r) PROVE p \in Landed
      BY <2>4 DEF LandedInv
    <3>2. p \in BlocksOf(r)
      BY DEF Prefix
    <3>3. p \in Pieces
      BY <3>2
    <3>4. p \in Nat
      BY <3>3, RequestsLayout
    <3>5. p <= p
      BY <3>4
    <3>6. QED
      BY <3>2, <3>3, <3>5 DEF Prefix, Landed
  <2>6. ASSUME r \notin Requests PROVE t \subseteq Landed
    <3>1. \A q \in Requests : q < r
      BY <2>1, <2>6, RequestsLayout
    <3>2. SUFFICES ASSUME NEW q \in t PROVE q \in seen
      BY DEF LandedInv
    <3>3. q \in Data /\ q \in Pieces /\ q \in Nat
      BY <2>1, RunsLayout, RequestsLayout
    <3>4. PICK s \in Requests : q \in Parts[s]
      BY <3>3, RequestsLayout
    <3>5. q \in GdsAwaits(t, s)
      BY <3>2, <3>3, <3>4 DEF GdsAwaits
    <3>6. QED
      BY <2>1, <3>1, <3>4, <3>5 DEF GdsInv
  <2> HIDE DEF t, r
  <2>7. want' = <<>> \/ want' = want \/ want' = <<t, r + 1>>
    BY <2>3
  <2>8. FgdsInv' /\ UnifiedInv'
    BY <1>10, <2>1, <2>2 DEF GdsWaitPrefix, Answer, Refuse, Sleep,
       GdsNextRequest, FgdsInv, UnifiedInv, Writing, Landed, Done, GdsAwaits
  <2>9. Typed'
    <3>1. want' = <<>> \/ want' \in Tensors \X (Nat \ {0})
      BY <2>1, <2>7
    <3>2. broken' \in BOOLEAN
      BY <2>3 DEF Typed
    <3>3. QED
      BY <2>1, <3>1, <3>2 DEF Typed
  <2>10. PointsInv'
    BY <2>1, <2>3 DEF PointsInv
  <2>11. HeldInv'
    BY <2>1, <2>3 DEF HeldInv
  <2>12. QuietInv'
    BY <2>1, <2>2, <2>3 DEF QuietInv
  <2>13. LandedInv'
    BY <2>1, <2>2, <2>3, <2>5, <2>6 DEF LandedInv
  <2>14. GdsInv'
    <3>1. seen \subseteq seen' /\ (broken => broken')
      BY <2>3, <2>4
    <3>2. want' # <<>> => \A q \in Requests :
             q < want'[2] => GdsAwaits(want'[1], q) \subseteq seen'
      <4>1. CASE want' = want
        BY <3>1, <4>1 DEF GdsInv
      <4>2. CASE want' = <<t, r + 1>>
        <5>1. want'[1] = t /\ want'[2] = r + 1
          BY <4>2
        <5>2. \A q \in Requests : q < r + 1 => q < r \/ q = r
          BY <2>1, RequestsLayout
        <5>3. \A q \in Requests : q < r => GdsAwaits(t, q) \subseteq seen
          BY <2>1 DEF GdsInv, t, r
        <5>4. QED
          BY <2>4, <3>1, <4>2, <5>1, <5>2, <5>3
      <4>3. QED
        BY <2>7, <4>1, <4>2
    <3>3. \A q \in 1 .. waited : Done(q)'
      BY <2>1, <2>2 DEF GdsInv, Done
    <3>4. QED
      BY <2>1, <2>3, <3>1, <3>2, <3>3 DEF GdsInv, GdsAwaits
  <2>15. QED
    BY <2>8, <2>9, <2>10, <2>11, <2>12, <2>13, <2>14
<1>11. CASE GdsWaitRead
  <2>1. /\ pc \in {"drain", "undo"} /\ waited < sent
        /\ UNCHANGED <<kind, ready, pc, sent, piece, failed, slot, rc, held,
                       want,
                       seen, given>>
        /\ \/ /\ Done(waited + 1) /\ waited' = waited + 1
              /\ broken' = (broken \/ waited + 1 \in failed)
           \/ UNCHANGED <<waited, broken>>
    BY <1>11 DEF GdsWaitRead, Sleep
  <2>2. Writing' = Writing /\ Landed' = Landed
    BY <2>1 DEF Writing, Landed
  <2>3. HeldInv' /\ QuietInv' /\ LandedInv' /\ FgdsInv' /\ UnifiedInv'
    BY <1>11, <2>1, <2>2 DEF GdsWaitRead, Sleep, HeldInv, QuietInv, LandedInv,
       FgdsInv, UnifiedInv, Writing, Landed, Done, GdsAwaits
  <2>4. Typed'
    <3>1. waited' \in Nat /\ waited' <= sent
      BY <2>1 DEF Typed
    <3>2. broken' \in BOOLEAN
      BY <2>1 DEF Typed
    <3>3. QED
      BY <2>1, <3>1, <3>2 DEF Typed
  <2>5. PointsInv'
    BY <2>1 DEF PointsInv
  <2>6. GdsInv'
    <3>1. \A r \in 1 .. waited' : r \in 1 .. waited \/ r = waited'
      BY <2>1 DEF Typed
    <3>2. \A r \in 1 .. waited' : Done(r) /\ (r \in failed => broken')
      <4>1. \A r \in 1 .. waited : Done(r) /\ (r \in failed => broken)
        BY DEF GdsInv
      <4>2. CASE waited' = waited /\ broken' = broken
        BY <4>1, <4>2
      <4>3. CASE /\ Done(waited + 1) /\ waited' = waited + 1
                 /\ broken' = (broken \/ waited + 1 \in failed)
        BY <3>1, <4>1, <4>3
      <4>4. QED
        BY <2>1, <4>2, <4>3
    <3>3. want = <<>>
      BY <2>1 DEF PointsInv
    <3>4. QED
      BY <2>1, <2>2, <3>2, <3>3 DEF GdsInv, Done
  <2>7. QED
    BY <2>3, <2>4, <2>5, <2>6
<1>12. CASE GdsFinish
  <2>1. /\ pc \in {"drain", "undo"} /\ waited = sent
        /\ UNCHANGED <<kind, ready, sent, piece, failed, slot, rc, waited,
                       want,
                       seen, given>>
        /\ held' = held \cap {Buffer} /\ (broken' = broken \/ broken' = TRUE)
        /\ pc' = "free" \/ (pc' = "move" /\ pc = "drain" /\ ~broken' /\ ~ready)
    BY <1>12 DEF GdsFinish, Drained
  <2>2. Writing' = Writing /\ Landed' = Landed
    BY <2>1 DEF Writing, Landed
  <2>3. \A p \in Data : \E r \in Requests : p \in BlocksOf(r)
    BY RequestsLayout
  <2>4. Writing = {}
    <3>1. SUFFICES ASSUME NEW p \in Writing PROVE FALSE
      OBVIOUS
    <3>2. p \in Pieces /\ piece[p] # "idle"
      BY <3>1 DEF Writing
    <3>3. p \in Data
      BY <3>2 DEF GdsInv
    <3>4. PICK r \in Requests : p \in BlocksOf(r)
      BY <2>3, <3>3
    <3>5. r \in 1 .. sent
      BY <3>2, <3>4, RequestsLayout DEF GdsInv, Typed
    <3>6. QED
      BY <2>1, <3>1, <3>4, <3>5 DEF GdsInv, Done
  <2>5. ASSUME pc' = "move" PROVE Data \subseteq Landed
    <3>1. pc = "drain" /\ ~broken /\ sent = Len(Parts) /\ waited = Len(Parts)
      BY <2>1, <2>5 DEF GdsInv
    <3>2. SUFFICES ASSUME NEW p \in Data PROVE p \in Landed
      OBVIOUS
    <3>3. PICK r \in Requests : p \in BlocksOf(r)
      BY <2>3
    <3>4. r \in 1 .. sent /\ r \in 1 .. waited
      BY <3>1, RequestsLayout
    <3>5. piece[p] # "idle" /\ r \notin failed
      BY <3>1, <3>3, <3>4 DEF GdsInv
    <3>6. piece[p] # "missed"
      BY <3>3, <3>5 DEF GdsInv
    <3>7. QED
      BY <2>4, <3>3, <3>5, <3>6 DEF Writing, Landed, Typed
  <2>6. FgdsInv' /\ UnifiedInv'
    BY <1>12, <2>1, <2>2 DEF GdsFinish, Drained, FgdsInv, UnifiedInv, Writing,
       Landed, Done, GdsAwaits
  <2>7. Typed'
    BY <2>1 DEF Typed
  <2>8. PointsInv'
    BY <2>1 DEF PointsInv
  <2>9. HeldInv'
    BY <2>1 DEF HeldInv, PointsInv
  <2>10. QuietInv'
    BY <2>1, <2>2, <2>4 DEF QuietInv
  <2>11. LandedInv'
    BY <2>1, <2>2, <2>5 DEF LandedInv
  <2>12. GdsInv'
    <3>1. \A r \in 1 .. waited' : Done(r)'
      BY <2>1, <2>2 DEF GdsInv, Done
    <3>2. want = <<>>
      BY <2>1 DEF PointsInv
    <3>3. QED
      BY <2>1, <3>1, <3>2 DEF GdsInv
  <2>13. QED
    BY <2>6, <2>7, <2>8, <2>9, <2>10, <2>11, <2>12
<1>13. CASE GdsMoveFails
  BY <1>13 DEF GdsMoveFails, Acquired, Fails, Typed, PointsInv, HeldInv,
     QuietInv, LandedInv, GdsInv, FgdsInv, UnifiedInv, Writing, Landed, Done,
     GdsAwaits
<1>14. QED
  BY <1>1, <1>2, <1>3, <1>4, <1>5, <1>6, <1>7, <1>8, <1>9, <1>10, <1>11,
     <1>12, <1>13 DEF Gds

\* FgdsFileCopier and the threads of its reader.
LEMMA FgdsCInv ==
  ASSUME CInv, kind = "fgds", Fgds
  PROVE  CInv'
<1> USE DEF CInv, Exact, options, reader, caller, FgdsPoints
<1>1. CASE FgdsOpen
  <2>1. /\ UNCHANGED <<kind, sent, waited, piece, slot, failed, rc>>
        /\ sent = 0 /\ waited = 0
    BY <1>1 DEF FgdsOpen, Acquired, Fails, FgdsInv
  <2>2. Writing' = Writing /\ Landed' = Landed
    BY <2>1 DEF Writing, Landed
  <2>3. GdsInv' /\ UnifiedInv'
    BY <1>1, <2>1, <2>2 DEF FgdsOpen, Acquired, Fails, GdsInv, UnifiedInv,
       Writing, Landed, Stopped
  <2>4. Typed'
    BY <1>1 DEF FgdsOpen, Acquired, Fails, Typed
  <2>5. PointsInv'
    BY <1>1 DEF FgdsOpen, Acquired, Fails, PointsInv
  <2>6. HeldInv'
    BY <1>1 DEF FgdsOpen, Acquired, Fails, HeldInv
  <2>7. QuietInv'
    BY <1>1, <2>2 DEF FgdsOpen, Acquired, Fails, QuietInv
  <2>8. LandedInv'
    BY <1>1, <2>2 DEF FgdsOpen, Acquired, Fails, LandedInv
  <2>9. FgdsInv'
    BY <1>1, <2>1 DEF FgdsOpen, Acquired, Fails, FgdsInv
  <2>10. QED
    BY <2>3, <2>4, <2>5, <2>6, <2>7, <2>8, <2>9
<1>2. CASE FgdsAlloc
  <2>1. /\ UNCHANGED <<kind, sent, waited, piece, slot, failed, rc>>
        /\ sent = 0 /\ waited = 0
    BY <1>2 DEF FgdsAlloc, Acquired, Fails, FgdsInv
  <2>2. Writing' = Writing /\ Landed' = Landed
    BY <2>1 DEF Writing, Landed
  <2>3. GdsInv' /\ UnifiedInv'
    BY <1>2, <2>1, <2>2 DEF FgdsAlloc, Acquired, Fails, GdsInv, UnifiedInv,
       Writing, Landed, Stopped
  <2>4. Typed'
    BY <1>2 DEF FgdsAlloc, Acquired, Fails, Typed
  <2>5. PointsInv'
    BY <1>2 DEF FgdsAlloc, Acquired, Fails, PointsInv
  <2>6. HeldInv'
    BY <1>2 DEF FgdsAlloc, Acquired, Fails, HeldInv
  <2>7. QuietInv'
    BY <1>2, <2>2 DEF FgdsAlloc, Acquired, Fails, QuietInv
  <2>8. LandedInv'
    BY <1>2, <2>2 DEF FgdsAlloc, Acquired, Fails, LandedInv
  <2>9. FgdsInv'
    BY <1>2, <2>1 DEF FgdsAlloc, Acquired, Fails, FgdsInv
  <2>10. QED
    BY <2>3, <2>4, <2>5, <2>6, <2>7, <2>8, <2>9
<1>3. CASE FgdsRegister
  <2>1. /\ UNCHANGED <<kind, sent, waited, piece, slot, failed, rc>>
        /\ sent = 0 /\ waited = 0
    BY <1>3 DEF FgdsRegister, Acquired, Fails, FgdsInv
  <2>2. Writing' = Writing /\ Landed' = Landed
    BY <2>1 DEF Writing, Landed
  <2>3. GdsInv' /\ UnifiedInv'
    BY <1>3, <2>1, <2>2 DEF FgdsRegister, Acquired, Fails, GdsInv, UnifiedInv,
       Writing, Landed, Stopped
  <2>4. Typed'
    BY <1>3 DEF FgdsRegister, Acquired, Fails, Typed
  <2>5. PointsInv'
    BY <1>3 DEF FgdsRegister, Acquired, Fails, PointsInv
  <2>6. HeldInv'
    BY <1>3 DEF FgdsRegister, Acquired, Fails, HeldInv
  <2>7. QuietInv'
    BY <1>3, <2>2 DEF FgdsRegister, Acquired, Fails, QuietInv
  <2>8. LandedInv'
    BY <1>3, <2>2 DEF FgdsRegister, Acquired, Fails, LandedInv
  <2>9. FgdsInv'
    BY <1>3, <2>1 DEF FgdsRegister, Acquired, Fails, FgdsInv
  <2>10. QED
    BY <2>3, <2>4, <2>5, <2>6, <2>7, <2>8, <2>9
<1>4. CASE FgdsSubmit
  <2> DEFINE r == sent + 1
             k == SlotOf(r)
  <2>1. /\ r \in Requests /\ r = sent + 1 /\ sent' = r /\ pc = "submit"
        /\ slot' = [slot EXCEPT ![k] = r] /\ CanJoin(k)
        /\ piece' = Becomes(Parts[r], "busy")
        /\ UNCHANGED <<kind, ready, pc, waited, want, seen, given, broken,
                       failed,
                       held, rc>>
    BY <1>4 DEF FgdsSubmit
  <2>2. /\ sent \in Nat /\ r \in Nat /\ r <= Len(Parts) /\ waited = 0
        /\ seen = {} /\ given = {}
    BY <2>1, RequestsLayout DEF Typed, FgdsInv, PointsInv
  <2>3. k \in 0 .. Threads - 1
    BY <2>2, RequestsLayout DEF SlotOf
  <2>4. /\ piece' \in [Pieces -> States]
        /\ \A p \in Pieces :
              piece'[p] = IF p \in Parts[r] THEN "busy" ELSE piece[p]
        /\ Writing' = Writing \cup Parts[r]
    <3>1. Parts[r] \in SUBSET Pieces
      BY <2>1, RequestsLayout
    <3>2. QED
      BY <2>1, <3>1, PiecesStart
  <2> HIDE DEF r, k
  <2>5. PointsInv' /\ HeldInv' /\ GdsInv' /\ UnifiedInv'
    BY <1>4, <2>1 DEF FgdsSubmit, PointsInv, HeldInv, GdsInv, UnifiedInv,
       Writing, Landed, Stopped
  <2>6. Typed'
    <3>1. slot' \in [0 .. Threads - 1 -> Nat]
      BY <2>1, <2>2, <2>3 DEF Typed
    <3>2. QED
      BY <2>1, <2>2, <2>4, <3>1 DEF Typed, States
  <2>7. QuietInv'
    BY <2>1, <2>2 DEF QuietInv
  <2>8. LandedInv'
    BY <2>1, <2>2 DEF LandedInv
  <2>9. FgdsInv'
    <3>1. \A q \in Requests : q > sent' =>
             \A p \in Parts[q] : piece'[p] = "idle"
      <4>1. SUFFICES ASSUME NEW q \in Requests, q > sent', NEW p \in Parts[q]
                     PROVE  piece'[p] = "idle"
        OBVIOUS
      <4>2. q > sent /\ q # r /\ p \in Pieces
        BY <2>1, <2>2, <4>1, RequestsLayout
      <4>3. p \notin Parts[r] /\ piece[p] = "idle"
        BY <2>1, <4>1, <4>2, RequestsLayout DEF FgdsInv
      <4>4. QED
        BY <2>4, <4>2, <4>3
    <3>2. ASSUME NEW q \in 1 .. sent', ~Stopped(q)'
          PROVE  slot'[SlotOf(q)] = q
      <4>1. CASE q = r
        BY <2>1, <2>3, <4>1 DEF k, Typed
      <4>2. CASE q # r
        <5>1. q \in 1 .. sent /\ q \in Requests
          BY <2>1, <2>2, <4>2, RequestsLayout
        <5>2. Parts[q] \cap Parts[r] = {}
          BY <2>1, <4>2, <5>1, RequestsLayout
        <5>3. ~Stopped(q)
          BY <2>4, <3>2, <5>2 DEF Stopped
        <5>4. slot[SlotOf(q)] = q /\ q # 0
          BY <5>1, <5>3 DEF FgdsInv
        <5>5. SlotOf(q) # k
          BY <2>1, <5>3, <5>4 DEF CanJoin
        <5>6. SlotOf(q) \in 0 .. Threads - 1
          BY <5>1, RequestsLayout DEF SlotOf
        <5>7. QED
          BY <2>1, <5>4, <5>5, <5>6 DEF Typed
      <4>3. QED
        BY <4>1, <4>2
    <3>3. \A q \in 1 .. waited' : FALSE
      BY <2>1, <2>2
    <3>4. QED
      BY <2>1, <2>2, <3>1, <3>2, <3>3 DEF FgdsInv
  <2>10. QED
    BY <2>5, <2>6, <2>7, <2>8, <2>9
<1>5. CASE FgdsSubmitFails
  BY <1>5 DEF FgdsSubmitFails, Acquired, Fails, Typed, PointsInv, HeldInv,
     QuietInv, LandedInv, GdsInv, FgdsInv, UnifiedInv, Writing, Landed,
     Stopped
<1>6. CASE FgdsSubmitted
  <2>1. Typed' /\ PointsInv' /\ HeldInv' /\ QuietInv' /\ LandedInv' /\
       GdsInv' /\ UnifiedInv'
    BY <1>6 DEF FgdsSubmitted, Acquired, Typed, PointsInv, HeldInv, QuietInv,
       LandedInv, GdsInv, UnifiedInv, Writing, Landed, Stopped
  <2>2. FgdsInv'
    <3>1. /\ pc = "submit" /\ sent + 1 \notin 1 .. Len(Parts)
          /\ UNCHANGED <<kind, sent, piece, failed, slot, waited, broken>>
      BY <1>6, RequestsLayout DEF FgdsSubmitted, Acquired
    <3>2. sent = Len(Parts)
      BY <3>1, RequestsLayout DEF FgdsInv, Typed
    <3>3. \A q \in 1 .. waited' : FALSE
      BY <3>1 DEF FgdsInv
    <3>4. QED
      BY <1>6, <3>1, <3>2, <3>3 DEF FgdsSubmitted, Acquired, FgdsInv, Stopped,
         Writing
  <2>3. QED
    BY <2>1, <2>2
<1>7. CASE \E r \in Requests : FgdsRead(r)
  <2>1. PICK r \in Requests : FgdsRead(r)
    BY <1>7
  <2>2. UNCHANGED <<kind, ready, pc, sent, waited, slot, rc, held, want, seen,
                    given, broken>>
    BY <2>1 DEF FgdsRead
  <2>3. PICK S \in SUBSET Parts[r], v \in {"landed", "missed"} :
           /\ \A p \in S : piece[p] = "busy"
           /\ piece' = Becomes(S, v)
    BY <2>1, FgdsReads
  <2>4. S \in SUBSET Writing
    BY <2>3, RequestsLayout DEF Writing
  <2>5. /\ piece' \in [Pieces -> States] /\ Writing' = Writing \ S
        /\ Landed \subseteq Landed'
        /\ \A p \in Pieces : piece'[p] = IF p \in S THEN v ELSE piece[p]
    BY <2>3, <2>4, PiecesMove
  <2>6. PointsInv' /\ HeldInv' /\ GdsInv' /\ UnifiedInv'
    BY <1>7, <2>2 DEF FgdsRead, PointsInv, HeldInv, GdsInv, UnifiedInv,
       Writing, Landed, Stopped
  <2>7. Typed'
    BY <2>2, <2>5 DEF Typed, States
  <2>8. QuietInv'
    BY <2>2, <2>5 DEF QuietInv
  <2>9. LandedInv'
    BY <2>2, <2>5 DEF LandedInv
  <2>10. FgdsInv'
    <3>1. \A q \in Requests : q > sent' =>
             \A p \in Parts[q] : piece'[p] = "idle"
      <4>1. SUFFICES ASSUME NEW q \in Requests, q > sent', NEW p \in Parts[q]
                     PROVE  piece'[p] = "idle"
        OBVIOUS
      <4>2. p \in Pieces /\ piece[p] = "idle"
        BY <2>2, <4>1, RequestsLayout DEF FgdsInv
      <4>3. p \notin S
        BY <2>3, <4>2
      <4>4. QED
        BY <2>5, <4>2, <4>3
    <3>2. \A q \in 1 .. sent' : ~Stopped(q)' => slot'[SlotOf(q)] = q
      BY <2>2, <2>5 DEF FgdsInv, Stopped
    <3>3. \A q \in 1 .. waited' : /\ Stopped(q)'
                                  /\ broken' \/ Needed(q) \subseteq Landed'
      BY <2>2, <2>5 DEF FgdsInv, Stopped
    <3>4. QED
      BY <2>2, <3>1, <3>2, <3>3 DEF FgdsInv
  <2>11. QED
    BY <2>6, <2>7, <2>8, <2>9, <2>10
<1>8. CASE FgdsWaitRead
  <2> DEFINE r == waited + 1
             k == SlotOf(r)
  <2>1. /\ pc \in {"drain", "undo"} /\ waited < sent /\ r = waited + 1
        /\ slot[k] # 0 => Stopped(slot[k])
        /\ slot' = [slot EXCEPT ![k] = 0] /\ waited' = r
        /\ broken' = (broken \/ r \in failed \/ ~(Needed(r) \subseteq Landed))
        /\ UNCHANGED <<kind, ready, sent, piece, failed, rc, held, pc, want,
                       seen,
                       given>>
    BY <1>8 DEF FgdsWaitRead
  <2>2. waited \in Nat /\ sent \in Nat /\ r \in 1 .. sent
    BY <2>1 DEF Typed
  <2>3. k \in 0 .. Threads - 1
    BY <2>2, RequestsLayout DEF SlotOf
  <2>4. Writing' = Writing /\ Landed' = Landed
    BY <2>1 DEF Writing, Landed
  <2>5. Stopped(r)
    BY <2>1, <2>2 DEF FgdsInv, k
  <2> HIDE DEF r, k
  <2>6. PointsInv' /\ HeldInv' /\ QuietInv' /\ LandedInv' /\ GdsInv' /\
       UnifiedInv'
    BY <1>8, <2>1, <2>4 DEF FgdsWaitRead, PointsInv, HeldInv, QuietInv,
       LandedInv, GdsInv, UnifiedInv, Writing, Landed, Stopped
  <2>7. Typed'
    <3>1. slot' \in [0 .. Threads - 1 -> Nat]
      BY <2>1, <2>3 DEF Typed
    <3>2. waited' \in Nat /\ waited' <= sent
      BY <2>1, <2>2
    <3>3. broken' \in BOOLEAN
      BY <2>1 DEF Typed
    <3>4. QED
      BY <2>1, <3>1, <3>2, <3>3 DEF Typed
  <2>8. FgdsInv'
    <3>1. ASSUME NEW q \in 1 .. sent, ~Stopped(q)
          PROVE  slot'[SlotOf(q)] = q
      <4>1. slot[SlotOf(q)] = q /\ q # 0
        BY <3>1 DEF FgdsInv
      <4>2. SlotOf(q) # k
        BY <2>1, <3>1, <4>1
      <4>3. SlotOf(q) \in 0 .. Threads - 1
        BY <2>2, RequestsLayout DEF SlotOf
      <4>4. QED
        BY <2>1, <4>1, <4>2, <4>3 DEF Typed
    <3>2. \A q \in 1 .. waited' :
             Stopped(q) /\ (broken' \/ Needed(q) \subseteq Landed)
      <4>1. \A q \in 1 .. waited :
               Stopped(q) /\ (broken \/ Needed(q) \subseteq Landed)
        BY DEF FgdsInv
      <4>2. \A q \in 1 .. waited' : q = r \/ q \in 1 .. waited
        BY <2>1, <2>2
      <4>3. broken' \/ Needed(r) \subseteq Landed
        BY <2>1
      <4>4. broken => broken'
        BY <2>1
      <4>5. QED
        BY <2>5, <4>1, <4>2, <4>3, <4>4
    <3>3. QED
      BY <2>1, <2>4, <3>1, <3>2 DEF FgdsInv, Stopped
  <2>9. QED
    BY <2>6, <2>7, <2>8
<1>9. CASE FgdsFinish
  <2>1. /\ pc \in {"drain", "undo"} /\ waited = sent
        /\ UNCHANGED <<kind, ready, sent, piece, failed, slot, rc, waited,
                       want,
                       seen, given, broken>>
        /\ held' = held \cap {Buffer}
        /\ pc' = "free" \/ (pc' = "move" /\ pc = "drain" /\ ~broken)
    BY <1>9 DEF FgdsFinish, Drained
  <2>2. Writing' = Writing /\ Landed' = Landed
    BY <2>1 DEF Writing, Landed
  <2>3. Writing = {}
    <3>1. SUFFICES ASSUME NEW p \in Writing PROVE FALSE
      OBVIOUS
    <3>2. p \in Pieces /\ piece[p] # "idle"
      BY <3>1 DEF Writing
    <3>3. PICK r \in Requests : p \in Parts[r]
      BY <3>2, RequestsLayout
    <3>4. r \in 1 .. sent
      BY SMTT(30), <3>2, <3>3, RequestsLayout DEF FgdsInv, Typed
    <3>5. QED
      BY <2>1, <3>1, <3>3, <3>4 DEF FgdsInv, Stopped
  <2>4. ASSUME pc' = "move" PROVE Data \subseteq Landed
    <3>1. /\ pc = "drain" /\ ~broken /\ sent = Len(Parts)
          /\ waited = Len(Parts)
      BY <2>1, <2>4 DEF FgdsInv
    <3>2. SUFFICES ASSUME NEW p \in Data PROVE p \in Landed
      OBVIOUS
    <3>3. p \in Pieces /\ p \notin Padding
      BY DEF Data
    <3>4. PICK r \in Requests : p \in Parts[r]
      BY <3>3, RequestsLayout
    <3>5. r \in 1 .. waited /\ p \in Needed(r)
      BY <3>1, <3>3, <3>4, RequestsLayout DEF Needed
    <3>6. QED
      BY <3>1, <3>5 DEF FgdsInv
  <2>5. Typed' /\ PointsInv' /\ GdsInv' /\ UnifiedInv'
    BY <1>9, <2>1, <2>2 DEF FgdsFinish, Drained, Typed, PointsInv, GdsInv,
       UnifiedInv, Writing, Landed, Stopped
  <2>6. HeldInv'
    BY <2>1 DEF HeldInv, PointsInv
  <2>7. QuietInv'
    BY <2>1, <2>2, <2>3 DEF QuietInv
  <2>8. LandedInv'
    BY <2>1, <2>2, <2>4 DEF LandedInv
  <2>9. FgdsInv'
    BY <2>1, <2>2 DEF FgdsInv, Stopped
  <2>10. QED
    BY <2>5, <2>6, <2>7, <2>8, <2>9
<1>10. QED
  BY <1>1, <1>2, <1>3, <1>4, <1>5, <1>6, <1>7, <1>8, <1>9 DEF Fgds

\* UnifiedMemCopier and the threads of dma_load_runs.
LEMMA UnifiedCInv ==
  ASSUME CInv, kind = "unified", Unified
  PROVE  CInv'
<1> USE DEF CInv, Exact, options, reader, caller, UnifiedPoints
<1>1. CASE UnifiedAlloc
  <2>1. /\ UNCHANGED <<kind, ready, direct, sent, piece, slot, failed, rc,
                       want,
                       waited, seen, given>>
        /\ pc = "open" /\ rc = "none" /\ sent = 0 /\ (ready => direct)
        /\ \/ /\ pc' = (IF direct THEN "read" ELSE "map")
              /\ held' = held \cup {Buffer} /\ broken' = broken
           \/ pc' = "free" /\ held' = held /\ broken' = TRUE
    BY <1>1 DEF UnifiedAlloc, Acquired, Fails, UnifiedInv
  <2>2. Writing' = Writing /\ Landed' = Landed
    BY <2>1 DEF Writing, Landed
  <2>3. GdsInv' /\ FgdsInv'
    BY <1>1, <2>1, <2>2 DEF UnifiedAlloc, Acquired, Fails, GdsInv, FgdsInv,
       Writing, Landed, Reading
  <2>4. Typed'
    BY <2>1 DEF Typed
  <2>5. PointsInv'
    BY <2>1 DEF PointsInv
  <2>6. HeldInv'
    BY <2>1 DEF HeldInv
  <2>7. QuietInv'
    BY <2>1, <2>2 DEF QuietInv
  <2>8. LandedInv'
    BY <2>1, <2>2 DEF LandedInv
  <2>9. UnifiedInv'
    BY <2>1, <2>2 DEF UnifiedInv, Reading
  <2>10. QED
    BY <2>3, <2>4, <2>5, <2>6, <2>7, <2>8, <2>9
<1>2. CASE UnifiedRead
  <2>1. /\ UNCHANGED <<kind, ready, direct, sent, slot, failed, held, want,
                       waited, seen, given, broken>>
        /\ pc = "read" /\ rc = "none" /\ rc' = "reading" /\ sent = 0
        /\ piece' = Becomes(Data, "queued")
        /\ pc' = (IF ready THEN "use" ELSE "read")
    BY <1>2 DEF UnifiedRead, UnifiedInv
  <2>2. /\ piece' \in [Pieces -> States]
        /\ \A p \in Pieces :
              piece'[p] = IF p \in Data THEN "queued" ELSE piece[p]
    BY <2>1, PiecesStart, RequestsLayout
  <2>3. seen = {} /\ given = {}
    BY <2>1 DEF PointsInv
  <2>4. GdsInv' /\ FgdsInv'
    BY <1>2, <2>1 DEF UnifiedRead, GdsInv, FgdsInv, Writing, Landed, Reading
  <2>5. Typed'
    BY <2>1, <2>2 DEF Typed, States
  <2>6. PointsInv'
    BY <2>1 DEF PointsInv
  <2>7. HeldInv'
    BY <2>1 DEF HeldInv
  <2>8. QuietInv'
    BY <2>1 DEF QuietInv
  <2>9. LandedInv'
    BY <2>1, <2>3 DEF LandedInv
  <2>10. UnifiedInv'
    <3>1. \A p \in Pieces \ Data : piece'[p] = "idle"
      BY <2>2 DEF UnifiedInv
    <3>2. \A p \in Data : piece'[p] = "queued"
      BY <2>2, RequestsLayout
    <3>3. \A i \in 1 .. sent : FALSE
      BY <2>1
    <3>4. QED
      BY <2>1, <3>1, <3>2, <3>3 DEF UnifiedInv, Reading
  <2>11. QED
    BY <2>4, <2>5, <2>6, <2>7, <2>8, <2>9, <2>10
<1>3. CASE UnifiedStartFails
  BY <1>3 DEF UnifiedStartFails, Fails, Typed, PointsInv, HeldInv, QuietInv,
     LandedInv, GdsInv, FgdsInv, UnifiedInv, Writing, Landed, Reading
<1>4. CASE UnifiedReadRaises
  <2>1. /\ UNCHANGED <<kind, ready, direct, pc, sent, slot, failed, held,
                       want,
                       waited, seen, given, broken>>
        /\ ready /\ rc = "reading" /\ rc' = "error"
        /\ piece' = Becomes(Data, "missed")
        /\ \A p \in Data : piece[p] = "queued"
    BY <1>4 DEF UnifiedReadRaises
  <2>2. Data \in SUBSET Writing
    BY <2>1, RequestsLayout DEF Writing
  <2>3. /\ piece' \in [Pieces -> States] /\ Writing' = Writing \ Data
        /\ Landed' = Landed
        /\ \A p \in Pieces :
              piece'[p] = IF p \in Data THEN "missed" ELSE piece[p]
    BY <2>1, <2>2, PiecesMove
  <2>4. PointsInv' /\ HeldInv' /\ GdsInv' /\ FgdsInv'
    BY <1>4, <2>1 DEF UnifiedReadRaises, PointsInv, HeldInv, GdsInv, FgdsInv,
       Writing, Landed, Reading
  <2>5. Typed'
    BY <2>1, <2>3 DEF Typed, States
  <2>6. QuietInv'
    BY <2>1, <2>3 DEF QuietInv
  <2>7. LandedInv'
    BY <2>1, <2>3 DEF LandedInv
  <2>8. UnifiedInv'
    <3>1. \A p \in Pieces \ Data : piece'[p] = "idle"
      BY <2>3 DEF UnifiedInv
    <3>2. sent = 0 /\ \A i \in 1 .. sent : FALSE
      BY <2>1 DEF UnifiedInv
    <3>3. QED
      BY <2>1, <3>1, <3>2 DEF UnifiedInv, Reading
  <2>9. QED
    BY <2>4, <2>5, <2>6, <2>7, <2>8
<1>5. CASE \E w \in DOMAIN Spans :
                DmaCopy(w) \/ DmaShort(w) \/ DmaFail(w) \/ DmaStop(w)
  <2>1. PICK w \in DOMAIN Spans :
           DmaCopy(w) \/ DmaShort(w) \/ DmaFail(w) \/ DmaStop(w)
    BY <1>5
  <2>2. /\ UNCHANGED <<kind, ready, direct, pc, sent, slot, failed, held,
                       want,
                       waited, seen, given, broken>>
        /\ Reading /\ Ahead(w) # {} /\ rc' \in {rc, "failing"}
    BY <2>1 DEF DmaCopy, DmaShort, DmaFail, DmaStop, Reading
  <2>3. /\ Ahead(w) \subseteq Data /\ Ahead(w) \in SUBSET Nat
        /\ Ahead(w) \subseteq Writing
        /\ \A p \in Ahead(w) : piece[p] = "queued"
    BY AheadLayout
  <2>4. PICK S \in SUBSET Ahead(w), v \in {"landed", "missed"} :
           /\ piece' = Becomes(S, v)
           /\ v = "missed" => ready \/ rc' = "failing" \/ ShortReads
    BY <2>1, DmaReads
  <2>5. /\ piece' \in [Pieces -> States] /\ Writing' = Writing \ S
        /\ Landed \subseteq Landed'
        /\ \A p \in Pieces : piece'[p] = IF p \in S THEN v ELSE piece[p]
    <3>1. S \in SUBSET Writing
      BY <2>3
    <3>2. QED
      BY <2>4, <3>1, PiecesMove
  <2>6. Reading' /\ rc # "none" /\ rc # "ok"
    BY <2>2 DEF Reading
  <2>7. PointsInv' /\ HeldInv' /\ GdsInv' /\ FgdsInv'
    BY <1>5, <2>2 DEF PointsInv, HeldInv, GdsInv, FgdsInv, Writing, Landed,
       Reading
  <2>8. Typed'
    BY <2>2, <2>5 DEF Typed, States
  <2>9. QuietInv'
    BY <2>2, <2>5, <2>6 DEF QuietInv, Reading
  <2>10. LandedInv'
    BY <2>2, <2>5 DEF LandedInv
  <2>11. UnifiedInv'
    <3>1. \A p \in Pieces \ Data : piece'[p] = "idle"
      BY <2>3, <2>5 DEF UnifiedInv
    <3>2. sent = 0 /\ (ready \/ pc = "read") /\ \A i \in 1 .. sent : FALSE
      BY <2>2 DEF UnifiedInv
    <3>3. ASSUME ~ready, Exact, rc' = "reading", NEW p \in Data
          PROVE  piece'[p] \in {"queued", "landed"}
      <4>1. rc = "reading" /\ v = "landed"
        BY <2>2, <2>4, <3>3 DEF Reading
      <4>2. piece[p] \in {"queued", "landed"} /\ p \in Pieces
        BY <2>2, <3>3, <4>1, RequestsLayout DEF UnifiedInv
      <4>3. QED
        BY <2>5, <4>1, <4>2
    <3>4. QED
      BY <2>2, <2>6, <3>1, <3>2, <3>3 DEF UnifiedInv, Reading
  <2>12. QED
    BY <2>7, <2>8, <2>9, <2>10, <2>11
<1>6. CASE DmaLateFail
  BY <1>6 DEF DmaLateFail, Reading, Typed, PointsInv, HeldInv, QuietInv,
     LandedInv, GdsInv, FgdsInv, UnifiedInv, Writing, Landed, Reading
<1>7. CASE DmaReturn
  <2>1. /\ UNCHANGED <<kind, ready, direct, sent, piece, slot, failed, held,
                       want,
                       waited, seen, given, broken>>
        /\ Reading /\ Writing = {} /\ rc' = Result
        /\ pc' = (IF ready THEN pc ELSE IF rc' = "ok" THEN "drain" ELSE "map")
    BY <1>7 DEF DmaReturn
  <2>2. Writing' = Writing /\ Landed' = Landed
    BY <2>1 DEF Writing, Landed
  <2>3. /\ rc' \in {"ok", "error"} /\ (ready \/ pc = "read")
        /\ sent = 0 /\ \A i \in 1 .. sent : FALSE
    BY <2>1 DEF Result, UnifiedInv
  <2>4. ASSUME ~ready, Exact, rc' = "ok" PROVE Data \subseteq Landed
    <3>1. rc = "reading"
      BY <2>1, <2>4 DEF Result, Reading
    <3>2. SUFFICES ASSUME NEW p \in Data PROVE p \in Landed
      OBVIOUS
    <3>3. piece[p] \in {"queued", "landed"} /\ p \in Pieces
      BY <2>4, <3>1, RequestsLayout DEF UnifiedInv
    <3>4. QED
      BY <2>1, <3>3 DEF Writing, Landed
  <2>5. GdsInv' /\ FgdsInv'
    BY <1>7, <2>1, <2>2, <2>3 DEF DmaReturn, GdsInv, FgdsInv, Writing, Landed,
       Reading
  <2>6. Typed'
    BY <2>1, <2>3 DEF Typed
  <2>7. PointsInv'
    BY <2>1, <2>3 DEF PointsInv
  <2>8. HeldInv'
    BY <2>1, <2>3 DEF HeldInv
  <2>9. QuietInv'
    BY <2>1, <2>2 DEF QuietInv
  <2>10. LandedInv'
    BY <2>1, <2>2, <2>3 DEF LandedInv
  <2>11. UnifiedInv'
    BY <2>1, <2>2, <2>3, <2>4 DEF UnifiedInv, Reading
  <2>12. QED
    BY <2>5, <2>6, <2>7, <2>8, <2>9, <2>10, <2>11
<1>8. CASE MapRun
  <2> DEFINE i == sent + 1
  <2>1. /\ UNCHANGED <<kind, ready, direct, pc, slot, failed, held, want,
                       waited,
                       seen, given, broken, rc>>
        /\ pc = "map" /\ i = sent + 1 /\ sent' = i /\ sent < Len(Runs)
        /\ piece' = Becomes(Runs[i], "busy")
    BY <1>8 DEF MapRun
  <2>2. /\ sent \in Nat /\ i \in 1 .. Len(Runs) /\ Runs[i] \subseteq Data
        /\ \A j \in 1 .. i : j = i \/ j \in 1 .. sent
    BY <2>1, RunsLayout DEF Typed
  <2> HIDE DEF i
  <2>3. /\ piece' \in [Pieces -> States]
        /\ \A p \in Pieces :
              piece'[p] = IF p \in Runs[i] THEN "busy" ELSE piece[p]
    BY <2>1, <2>2, PiecesStart, RequestsLayout
  <2>4. seen = {} /\ given = {} /\ ~ready /\ ~Reading /\ rc # "ok"
    BY <2>1 DEF PointsInv, UnifiedInv
  <2>5. PointsInv' /\ HeldInv' /\ GdsInv' /\ FgdsInv'
    BY <1>8, <2>1 DEF MapRun, PointsInv, HeldInv, GdsInv, FgdsInv, Writing,
       Landed, Reading
  <2>6. Typed'
    <3>1. sent' \in Nat /\ waited <= sent'
      BY <2>1, <2>2 DEF Typed
    <3>2. QED
      BY <2>1, <2>3, <3>1 DEF Typed, States
  <2>7. QuietInv'
    <3>1. sent' # 0
      BY <2>1, <2>2
    <3>2. QED
      BY <2>1, <3>1 DEF QuietInv
  <2>8. LandedInv'
    BY <2>1, <2>4 DEF LandedInv
  <2>9. UnifiedInv'
    <3>1. \A p \in Pieces \ Data : piece'[p] = "idle"
      BY <2>2, <2>3 DEF UnifiedInv
    <3>2. ASSUME NEW j \in 1 .. sent', NEW p \in Runs[j]
          PROVE  piece'[p] \in {"busy", "landed"}
      <4>1. j \in 1 .. Len(Runs) /\ (j = i \/ j \in 1 .. sent)
        BY <2>1, <2>2, RunsLayout
      <4>2. p \in Pieces
        BY <3>2, <4>1, RunsLayout, RequestsLayout
      <4>3. j = i \/ piece[p] \in {"busy", "landed"}
        BY <3>2, <4>1 DEF UnifiedInv
      <4>4. QED
        BY <2>3, <3>2, <4>2, <4>3
    <3>3. sent' <= Len(Runs)
      BY <2>1, <2>2
    <3>4. QED
      BY <2>1, <2>4, <3>1, <3>2, <3>3 DEF UnifiedInv, Reading
  <2>10. QED
    BY <2>5, <2>6, <2>7, <2>8, <2>9
<1>9. CASE MapCopyFails
  BY <1>9 DEF MapCopyFails, Fails, Typed, PointsInv, HeldInv, QuietInv,
     LandedInv, GdsInv, FgdsInv, UnifiedInv, Writing, Landed, Reading
<1>10. CASE MapFails
  BY <1>10 DEF MapFails, Fails, Typed, PointsInv, HeldInv, QuietInv,
     LandedInv, GdsInv, FgdsInv, UnifiedInv, Writing, Landed, Reading
<1>11. CASE Mapped
  BY <1>11 DEF Mapped, Acquired, Typed, PointsInv, HeldInv, QuietInv,
     LandedInv, GdsInv, FgdsInv, UnifiedInv, Writing, Landed, Reading
<1>12. CASE Copied
  <2>1. UNCHANGED <<kind, ready, direct, pc, sent, slot, failed, held, want,
                    waited, seen, given, broken, rc>>
    BY <1>12 DEF Copied
  <2>2. PICK p \in Data : piece[p] = "busy" /\ piece' = Becomes({p}, "landed")
    BY <1>12, MapCopies
  <2>3. {p} \in SUBSET Writing
    BY <2>2, RequestsLayout DEF Writing
  <2>4. /\ piece' \in [Pieces -> States] /\ Writing' = Writing \ {p}
        /\ Landed \subseteq Landed'
        /\ \A q \in Pieces : piece'[q] = IF q = p THEN "landed" ELSE piece[q]
    BY <2>2, <2>3, PiecesMove
  <2>5. PointsInv' /\ HeldInv' /\ GdsInv' /\ FgdsInv'
    BY <1>12, <2>1 DEF Copied, PointsInv, HeldInv, GdsInv, FgdsInv, Writing,
       Landed, Reading
  <2>6. Typed'
    BY <2>1, <2>4 DEF Typed, States
  <2>7. QuietInv'
    BY <2>1, <2>4 DEF QuietInv
  <2>8. LandedInv'
    BY <2>1, <2>4 DEF LandedInv
  <2>9. UnifiedInv'
    <3>1. \A q \in Pieces \ Data : piece'[q] = "idle"
      BY <2>2, <2>4 DEF UnifiedInv
    <3>2. ASSUME NEW i \in 1 .. sent', NEW q \in Runs[i]
          PROVE  piece'[q] \in {"busy", "landed"}
      <4>1. i \in 1 .. Len(Runs) /\ i \in 1 .. sent
        BY <2>1, RunsLayout DEF UnifiedInv, Typed
      <4>2. q \in Pieces /\ piece[q] \in {"busy", "landed"}
        BY <3>2, <4>1, RunsLayout, RequestsLayout DEF UnifiedInv
      <4>3. QED
        BY <2>4, <4>2
    <3>3. \A q \in Data : piece[q] \in {"queued", "landed"}
                          => piece'[q] \in {"queued", "landed"}
      BY <2>4, RequestsLayout
    <3>4. QED
      BY <2>1, <2>4, <3>1, <3>2, <3>3 DEF UnifiedInv, Reading
  <2>10. QED
    BY <2>5, <2>6, <2>7, <2>8, <2>9
<1>13. CASE UnifiedWaitRange
  <2> DEFINE t == want[1]
  <2>1. /\ pc = "use" /\ ready /\ t \in Tensors
        /\ UNCHANGED <<kind, ready, direct, sent, piece, failed, slot, rc,
                       held,
                       waited>>
    BY <1>13 DEF UnifiedWaitRange, Answer, Refuse, Sleep, PointsInv, Typed
  <2>2. Writing' = Writing /\ Landed' = Landed
    BY <2>1 DEF Writing, Landed
  <2>3. t \subseteq BlocksWith(t)
    <3>1. SUFFICES ASSUME NEW p \in t PROVE p \in BlocksWith(t)
      OBVIOUS
    <3>2. PICK b \in Blocks : p \in b
      BY <2>1, RunsLayout
    <3>3. QED
      BY <3>1, <3>2 DEF BlocksWith
  <2>4. \/ /\ UNCHANGED <<pc, broken, seen, given>> /\ want' = want
        \/ /\ UNCHANGED <<seen, given>> /\ want' = <<>>
           /\ pc' = "drain" /\ broken' = TRUE
        \/ /\ UNCHANGED <<pc, broken>> /\ want' = <<>>
           /\ given' = given \cup {t} /\ seen \subseteq seen'
           /\ BlocksWith(t) \subseteq seen'
           /\ seen' \subseteq seen \cup Landed
    BY <1>13 DEF UnifiedWaitRange, Answer, Refuse, Sleep
  <2> HIDE DEF t
  <2>5. seen' \subseteq Landed
    BY <2>4 DEF LandedInv
  <2>6. Exact => \A u \in given' : u \subseteq Landed
    BY <2>3, <2>4, <2>5 DEF LandedInv
  <2>7. GdsInv' /\ FgdsInv'
    BY <1>13, <2>1, <2>2 DEF UnifiedWaitRange, GdsInv, FgdsInv, Writing,
       Landed, Reading
  <2>8. Typed'
    <3>1. want' = <<>> \/ want' = want
      BY <2>4
    <3>2. broken' \in BOOLEAN
      BY <2>4 DEF Typed
    <3>3. QED
      BY <2>1, <3>1, <3>2 DEF Typed
  <2>9. PointsInv'
    BY <2>1, <2>4 DEF PointsInv
  <2>10. HeldInv'
    BY <2>1, <2>4 DEF HeldInv
  <2>11. QuietInv'
    BY <2>1, <2>2, <2>4 DEF QuietInv
  <2>12. LandedInv'
    BY <2>1, <2>2, <2>4, <2>5, <2>6 DEF LandedInv
  <2>13. UnifiedInv'
    BY <2>1, <2>2, <2>4 DEF UnifiedInv, Reading
  <2>14. QED
    BY <2>7, <2>8, <2>9, <2>10, <2>11, <2>12, <2>13
<1>14. CASE UnifiedFinish
  <2>1. /\ pc = "drain" /\ Settled
        /\ UNCHANGED <<kind, ready, direct, sent, piece, failed, slot, rc,
                       waited,
                       want, seen, given>>
        /\ held' = held \cap {Buffer}
        /\ broken' = (broken \/ (ready /\ rc = "error"))
        /\ pc' = "free" \/ (pc' = "move" /\ ~ready)
    BY <1>14 DEF UnifiedFinish, Drained, PointsInv
  <2>2. Writing' = Writing /\ Landed' = Landed /\ Writing = {} /\ ~Reading
    BY <2>1 DEF Writing, Landed, Settled
  <2>3. ASSUME Exact, pc' = "move" PROVE Data \subseteq Landed
    <3>1. SUFFICES ASSUME sent = Len(Runs) PROVE Data \subseteq Landed
      BY <2>1, <2>3 DEF UnifiedInv
    <3>2. SUFFICES ASSUME NEW p \in Data PROVE p \in Landed
      OBVIOUS
    <3>3. PICK i \in 1 .. Len(Runs) : p \in Runs[i]
      BY RunsLayout
    <3>4. p \in Pieces /\ piece[p] \in {"busy", "landed"}
      BY <3>1, <3>3, RequestsLayout DEF UnifiedInv
    <3>5. QED
      BY <2>2, <3>4 DEF Writing, Landed
  <2>4. GdsInv' /\ FgdsInv'
    BY <1>14, <2>1, <2>2 DEF UnifiedFinish, Drained, GdsInv, FgdsInv, Writing,
       Landed, Reading
  <2>5. Typed'
    <3>1. broken' \in BOOLEAN
      BY <2>1 DEF Typed
    <3>2. QED
      BY <2>1, <3>1 DEF Typed
  <2>6. PointsInv'
    BY <2>1 DEF PointsInv
  <2>7. HeldInv'
    BY <2>1 DEF HeldInv
  <2>8. QuietInv'
    BY <2>1, <2>2 DEF QuietInv
  <2>9. LandedInv'
    BY <2>1, <2>2, <2>3 DEF LandedInv
  <2>10. UnifiedInv'
    BY <2>1, <2>2 DEF UnifiedInv, Reading
  <2>11. QED
    BY <2>4, <2>5, <2>6, <2>7, <2>8, <2>9, <2>10
<1>15. CASE UnifiedLost
  BY <1>15 DEF UnifiedLost, Acquired, Typed, PointsInv, HeldInv, QuietInv,
     LandedInv, GdsInv, FgdsInv, UnifiedInv, Writing, Landed, Reading
<1>16. QED
  BY <1>1, <1>2, <1>3, <1>4, <1>5, <1>6, <1>7, <1>8, <1>9, <1>10, <1>11,
     <1>12, <1>13, <1>14, <1>15 DEF Unified

LEMMA InitCInv == Init => CInv
<1> SUFFICES ASSUME Init PROVE CInv
  OBVIOUS
<1> USE DEF Init
<1>1. /\ kind \in {"gds", "fgds", "unified"} /\ ready \in BOOLEAN
      /\ (kind = "fgds" => ~ready) /\ (kind = "unified" /\ ready => direct)
  BY KindsAssumption
<1>2. Writing = {} /\ ~Reading
  BY DEF Writing, Reading
<1>3. /\ pc = "open" /\ sent = 0 /\ waited = 0 /\ rc = "none" /\ held = {}
      /\ want = <<>> /\ seen = {} /\ given = {} /\ broken = FALSE
      /\ \A p \in Pieces : piece[p] = "idle"
      /\ \A r \in 1 .. sent : FALSE
      /\ \A r \in 1 .. waited : FALSE
  OBVIOUS
<1>4. piece \in [Pieces -> States] /\ slot \in [0 .. Threads - 1 -> Nat]
  BY DEF States
<1> HIDE DEF Init
<1>5. Typed
  <2>1. sent \in Nat /\ waited \in Nat /\ waited <= sent
    BY <1>3
  <2>2. broken \in BOOLEAN /\ want = <<>> /\ rc = "none"
    BY <1>3
  <2>3. QED
    BY <1>1, <1>4, <2>1, <2>2 DEF Typed, States
<1>6. PointsInv /\ HeldInv /\ QuietInv /\ LandedInv
  BY <1>1, <1>2, <1>3 DEF PointsInv, HeldInv, QuietInv, LandedInv, GdsPoints,
     FgdsPoints, UnifiedPoints
<1>7. \A r \in Requests : \A p \in Parts[r] : piece[p] = "idle"
  BY <1>3, RequestsLayout
<1>8. GdsInv
  <2>1. sent <= Len(Parts) /\ \A p \in Pieces \ Data : piece[p] = "idle"
    BY <1>3, RequestsLayout
  <2>2. \A r \in Requests : \A p \in Parts[r] : piece[p] # "missed"
    BY <1>7
  <2>3. QED
    BY <1>3, <1>7, <2>1, <2>2 DEF GdsInv
<1>9. FgdsInv
  BY <1>3, <1>7, RequestsLayout DEF FgdsInv
<1>10. UnifiedInv
  BY <1>1, <1>2, <1>3, RunsLayout, RequestsLayout DEF UnifiedInv
<1>11. QED
  BY <1>5, <1>6, <1>8, <1>9, <1>10 DEF CInv

LEMMA NextCInv ==
  ASSUME CInv, [Next]_vars
  PROVE  CInv'
<1>1. CASE Next
  BY <1>1, FactoryCInv, GdsCInv, FgdsCInv, UnifiedCInv DEF Next
<1>2. CASE UNCHANGED vars
  <2>1. /\ UNCHANGED <<kind, ready, aligned, direct, pc, sent, waited, piece,
                       failed, slot, rc, held, want, seen, given, broken>>
    BY <1>2 DEF vars, options, reader, caller
  <2>2. UNCHANGED <<Writing, Landed>>
    BY <2>1 DEF Writing, Landed
  <2>3. Typed' /\ PointsInv' /\ HeldInv' /\ QuietInv' /\ LandedInv'
    BY <2>1, <2>2 DEF CInv, Typed, PointsInv, HeldInv, QuietInv, LandedInv,
       Exact
  <2>4. GdsInv' /\ FgdsInv' /\ UnifiedInv'
    BY <2>1, <2>2 DEF CInv, GdsInv, FgdsInv, UnifiedInv, Done, Stopped,
       GdsAwaits, Reading, Exact
  <2>5. QED
    BY <2>3, <2>4 DEF CInv
<1>3. QED
  BY <1>1, <1>2

\* The invariant holds in every reachable state.
LEMMA CopiersInductive == Spec => []CInv
<1>1. Init => CInv
  BY InitCInv
<1>2. CInv /\ [Next]_vars => CInv'
  BY NextCInv
<1>3. QED
  BY <1>1, <1>2, PTL DEF Spec

-----------------------------------------------------------------------------
(* Each operation is a step of the contract.                               *)

Steps == [Contract!Next]_(Contract!vars)

\* A step that writes nothing, shows nothing and gives nothing back.
LEMMA NothingNew ==
  ASSUME UNCHANGED <<piece, given>>, held \subseteq held'
  PROVE  Steps
<1>1. Writing' = Writing /\ Landed' = Landed
  BY DEF Writing, Landed
<1>2. Contract!Acquire
  BY <1>1 DEF Contract!Acquire
<1>3. QED
  BY <1>2 DEF Steps, Contract!Next

\* Reads begin while nobody looks, ...
LEMMA ReadsBegin ==
  ASSUME Typed, NEW S \in SUBSET Pieces, NEW v \in {"queued", "busy"},
         piece' = Becomes(S, v), UNCHANGED <<given, held>>,
         held # {}, given = {}
  PROVE  Steps
<1>1. Writing' = Writing \cup S /\ Landed' = Landed \ S
  BY PiecesStart
<1>2. Contract!Start(S)
  BY <1>1 DEF Contract!Start
<1>3. QED
  BY <1>2 DEF Steps, Contract!Next

\* ... and end, one or several at a time.
LEMMA ReadsEnd ==
  ASSUME Typed, NEW S \in SUBSET Writing, NEW v \in {"landed", "missed"},
         piece' = Becomes(S, v), UNCHANGED <<given, held>>
  PROVE  Steps
<1>1. /\ Writing' = Writing \ S
      /\ Landed' = Landed \cup (IF v = "landed" THEN S ELSE {})
  BY PiecesMove
<1>2. PICK good \in SUBSET S : Landed' = Landed \cup good
  BY <1>1
<1>3. Contract!End(S, good)
  BY <1>1, <1>2 DEF Contract!End
<1>4. QED
  BY <1>3 DEF Steps, Contract!Next

\* Tensors are handed out: the invariant holds of them afterwards.
LEMMA TensorsGiven ==
  ASSUME LandedInv', Exact', UNCHANGED <<piece, held>>,
         NEW T \in SUBSET Tensors, given' = given \cup T
  PROVE  Steps
<1>1. Writing' = Writing /\ Landed' = Landed
  BY DEF Writing, Landed
<1>2. \A t \in T : t \subseteq Landed
  BY <1>1 DEF LandedInv
<1>3. Contract!Give(T)
  BY <1>1, <1>2 DEF Contract!Give
<1>4. QED
  BY <1>3 DEF Steps, Contract!Next

\* The file, the regions or the buffer are given back, and no read is left.
LEMMA ThingsReturned ==
  ASSUME Writing = {}, UNCHANGED <<piece, given>>, held' \subseteq held
  PROVE  Steps
<1>1. Writing' = Writing /\ Landed' = Landed
  BY DEF Writing, Landed
<1>2. Contract!Release
  BY <1>1 DEF Contract!Release
<1>3. QED
  BY <1>2 DEF Steps, Contract!Next

LEMMA FactorySteps ==
  ASSUME CInv, CInv', Factory, ~ShortReads
  PROVE  Steps
<1> USE DEF options, reader, caller
<1>1. CASE \/ \E x \in Tensors : Ask(x)
           \/ Close \/ Served
  <2>1. UNCHANGED <<piece, given>> /\ held \subseteq held'
    BY <1>1 DEF Ask, Close, Served
  <2>2. QED
    BY <2>1, NothingNew
<1>2. CASE Materialize
  <2>1. given' = given \cup Tensors /\ UNCHANGED <<piece, held>>
    BY <1>2 DEF Materialize, CInv, PointsInv
  <2>2. QED
    BY <2>1, TensorsGiven DEF CInv, Exact
<1>3. CASE Free
  <2>1. pc = "free" /\ UNCHANGED <<piece, given>> /\ held' \subseteq held
    BY <1>3 DEF Free
  <2>2. QED
    BY <2>1, ThingsReturned DEF CInv, QuietInv
<1>4. QED
  BY <1>1, <1>2, <1>3 DEF Factory

LEMMA GdsSteps ==
  ASSUME CInv, CInv', kind = "gds", Gds
  PROVE  Steps
<1> USE DEF options, reader, caller
<1>1. CASE \/ GdsOpenFails \/ GdsOpen \/ GdsAlloc \/ GdsRegister
           \/ GdsSubmitFails \/ GdsSubmitted \/ GdsMoveFails
  <2>1. UNCHANGED <<piece, given>> /\ held \subseteq held'
    BY <1>1 DEF GdsOpenFails, GdsOpen, GdsAlloc, GdsRegister, GdsSubmitFails,
       GdsSubmitted, GdsMoveFails, Acquired, Fails
  <2>2. QED
    BY <2>1, NothingNew
<1>2. CASE GdsSubmit
  <2>1. /\ pc = "submit" /\ UNCHANGED <<given, held>>
        /\ piece' = Becomes(BlocksOf(sent + 1), "queued")
        /\ sent + 1 \in Requests
    BY <1>2 DEF GdsSubmit
  <2>2. held # {} /\ given = {}
    BY <2>1 DEF CInv, HeldInv, PointsInv
  <2>3. BlocksOf(sent + 1) \in SUBSET Pieces
    BY RequestsLayout DEF BlocksOf
  <2>4. QED
    BY <2>1, <2>2, <2>3, ReadsBegin DEF CInv
<1>3. CASE GdsTake
  <2>1. PICK p \in Pieces :
           piece[p] = "queued" /\ piece' = Becomes({p}, "busy")
    BY <1>3, GdsTakes
  <2>2. {p} \in SUBSET Writing
    BY <2>1 DEF Writing
  <2>3. Writing' = Writing /\ Landed' = Landed
    BY <2>1, <2>2, PiecesMove DEF CInv
  <2>4. UNCHANGED <<given, held>>
    BY <1>3 DEF GdsTake
  <2>5. QED
    BY <2>3, <2>4 DEF Steps, Contract!vars
<1>4. CASE \E p \in Pieces, ok \in BOOLEAN : GdsRead(p, ok)
  <2>1. PICK p \in Pieces, ok \in BOOLEAN : GdsRead(p, ok)
    BY <1>4
  <2>2. /\ {p} \in SUBSET Writing /\ UNCHANGED <<given, held>>
        /\ piece' = Becomes({p}, IF ok THEN "landed" ELSE "missed")
    BY <2>1 DEF GdsRead, Writing
  <2>3. (IF ok THEN "landed" ELSE "missed") \in {"landed", "missed"}
    OBVIOUS
  <2>4. QED
    BY <2>2, <2>3, ReadsEnd DEF CInv
<1>5. CASE GdsWaitPrefix
  <2>1. UNCHANGED <<kind, piece, held>> /\ want[1] \in Tensors
    BY <1>5 DEF GdsWaitPrefix, Answer, Refuse, Sleep, GdsNextRequest, CInv,
       Typed
  <2>2. given' = given \/ given' = given \cup {want[1]}
    BY <1>5 DEF GdsWaitPrefix, Answer, Refuse, Sleep, GdsNextRequest
  <2>3. PICK T \in SUBSET Tensors : given' = given \cup T
    <3>1. {} \in SUBSET Tensors /\ {want[1]} \in SUBSET Tensors
      BY <2>1
    <3>2. given' = given \cup {} \/ given' = given \cup {want[1]}
      BY <2>2
    <3>3. QED
      BY <3>1, <3>2
  <2>4. QED
    BY <2>1, <2>3, TensorsGiven DEF CInv, Exact
<1>6. CASE GdsWaitRead
  <2>1. UNCHANGED <<piece, given>> /\ held \subseteq held'
    BY <1>6 DEF GdsWaitRead, Sleep
  <2>2. QED
    BY <2>1, NothingNew
<1>7. CASE GdsFinish
  <2>1. /\ pc' \in {"free", "move"} /\ UNCHANGED <<piece, given>>
        /\ held' \subseteq held
    BY <1>7 DEF GdsFinish, Drained
  <2>2. Writing = {}
    BY <2>1 DEF CInv, QuietInv, Writing
  <2>3. QED
    BY <2>1, <2>2, ThingsReturned
<1>8. QED
  BY <1>1, <1>2, <1>3, <1>4, <1>5, <1>6, <1>7 DEF Gds

LEMMA FgdsSteps ==
  ASSUME CInv, CInv', kind = "fgds", Fgds
  PROVE  Steps
<1> USE DEF options, reader, caller
<1>1. CASE \/ FgdsOpen \/ FgdsAlloc \/ FgdsRegister \/ FgdsSubmitFails
           \/ FgdsSubmitted \/ FgdsWaitRead
  <2>1. UNCHANGED <<piece, given>> /\ held \subseteq held'
    BY <1>1 DEF FgdsOpen, FgdsAlloc, FgdsRegister, FgdsSubmitFails,
       FgdsSubmitted, FgdsWaitRead, Acquired, Fails
  <2>2. QED
    BY <2>1, NothingNew
<1>2. CASE FgdsSubmit
  <2>1. /\ pc = "submit" /\ UNCHANGED <<given, held>>
        /\ piece' = Becomes(Parts[sent + 1], "busy")
        /\ sent + 1 \in Requests
    BY <1>2 DEF FgdsSubmit
  <2>2. held # {} /\ given = {}
    BY <2>1 DEF CInv, HeldInv, PointsInv
  <2>3. Parts[sent + 1] \in SUBSET Pieces
    BY <2>1, RequestsLayout
  <2>4. QED
    BY <2>1, <2>2, <2>3, ReadsBegin DEF CInv
<1>3. CASE \E r \in Requests : FgdsRead(r)
  <2>1. PICK r \in Requests : FgdsRead(r)
    BY <1>3
  <2>2. PICK S \in SUBSET Parts[r], v \in {"landed", "missed"} :
           /\ \A p \in S : piece[p] = "busy"
           /\ piece' = Becomes(S, v)
    BY <2>1, FgdsReads
  <2>3. S \in SUBSET Writing
    BY <2>2, RequestsLayout DEF Writing
  <2>4. UNCHANGED <<given, held>>
    BY <2>1 DEF FgdsRead
  <2>5. QED
    BY <2>2, <2>3, <2>4, ReadsEnd DEF CInv
<1>4. CASE FgdsFinish
  <2>1. /\ pc' \in {"free", "move"} /\ UNCHANGED <<piece, given>>
        /\ held' \subseteq held
    BY <1>4 DEF FgdsFinish, Drained
  <2>2. Writing = {}
    BY <2>1 DEF CInv, QuietInv, Writing
  <2>3. QED
    BY <2>1, <2>2, ThingsReturned
<1>5. QED
  BY <1>1, <1>2, <1>3, <1>4 DEF Fgds

LEMMA UnifiedSteps ==
  ASSUME CInv, CInv', kind = "unified", Unified, ~ShortReads
  PROVE  Steps
<1> USE DEF options, reader, caller
<1>1. CASE \/ UnifiedAlloc \/ UnifiedStartFails \/ DmaLateFail \/ DmaReturn
           \/ MapCopyFails \/ MapFails \/ Mapped \/ UnifiedLost
  <2>1. UNCHANGED <<piece, given>> /\ held \subseteq held'
    BY <1>1 DEF UnifiedAlloc, UnifiedStartFails, DmaLateFail, DmaReturn,
       MapCopyFails, MapFails, Mapped, UnifiedLost, Acquired, Fails
  <2>2. QED
    BY <2>1, NothingNew
<1>2. CASE UnifiedRead
  <2>1. /\ pc = "read" /\ UNCHANGED <<given, held>>
        /\ piece' = Becomes(Data, "queued")
    BY <1>2 DEF UnifiedRead
  <2>2. held # {} /\ given = {} /\ Data \in SUBSET Pieces
    BY <2>1, RequestsLayout DEF CInv, HeldInv, PointsInv
  <2>3. QED
    BY <2>1, <2>2, ReadsBegin DEF CInv
<1>3. CASE MapRun
  <2>1. /\ pc = "map" /\ UNCHANGED <<given, held>> /\ sent < Len(Runs)
        /\ piece' = Becomes(Runs[sent + 1], "busy")
    BY <1>3 DEF MapRun
  <2>2. held # {} /\ given = {}
    BY <2>1 DEF CInv, HeldInv, PointsInv, UnifiedInv
  <2>3. Runs[sent + 1] \in SUBSET Pieces
    <3>1. sent + 1 \in 1 .. Len(Runs)
      BY <2>1, RunsLayout DEF CInv, Typed
    <3>2. QED
      BY <3>1, RunsLayout, RequestsLayout
  <2>4. QED
    BY <2>1, <2>2, <2>3, ReadsBegin DEF CInv
<1>4. CASE UnifiedReadRaises
  <2>1. /\ Data \in SUBSET Writing /\ UNCHANGED <<given, held>>
        /\ piece' = Becomes(Data, "missed")
    BY <1>4, RequestsLayout DEF UnifiedReadRaises, Writing
  <2>2. QED
    BY <2>1, ReadsEnd DEF CInv
<1>5. CASE \E w \in DOMAIN Spans :
              DmaCopy(w) \/ DmaShort(w) \/ DmaFail(w) \/ DmaStop(w)
  <2>1. PICK w \in DOMAIN Spans :
           DmaCopy(w) \/ DmaShort(w) \/ DmaFail(w) \/ DmaStop(w)
    BY <1>5
  <2>2. PICK S \in SUBSET Ahead(w), v \in {"landed", "missed"} :
           piece' = Becomes(S, v)
    BY <2>1, DmaReads
  <2>3. S \in SUBSET Writing
    BY AheadLayout
  <2>4. UNCHANGED <<given, held>>
    BY <2>1 DEF DmaCopy, DmaShort, DmaFail, DmaStop
  <2>5. QED
    BY <2>2, <2>3, <2>4, ReadsEnd DEF CInv
<1>6. CASE Copied
  <2>1. PICK p \in Data : piece[p] = "busy" /\ piece' = Becomes({p}, "landed")
    BY <1>6, MapCopies
  <2>2. {p} \in SUBSET Writing /\ UNCHANGED <<given, held>>
    BY <1>6, <2>1, RequestsLayout DEF Copied, Writing
  <2>3. QED
    BY <2>1, <2>2, ReadsEnd DEF CInv
<1>7. CASE UnifiedWaitRange
  <2>1. UNCHANGED <<piece, held>> /\ want[1] \in Tensors
    BY <1>7 DEF UnifiedWaitRange, Answer, Refuse, Sleep, CInv, Typed
  <2>2. given' = given \/ given' = given \cup {want[1]}
    BY <1>7 DEF UnifiedWaitRange, Answer, Refuse, Sleep
  <2>3. PICK T \in SUBSET Tensors : given' = given \cup T
    <3>1. {} \in SUBSET Tensors /\ {want[1]} \in SUBSET Tensors
      BY <2>1
    <3>2. given' = given \cup {} \/ given' = given \cup {want[1]}
      BY <2>2
    <3>3. QED
      BY <3>1, <3>2
  <2>4. QED
    BY <2>1, <2>3, TensorsGiven DEF CInv, Exact
<1>8. CASE UnifiedFinish
  <2>1. /\ Writing = {} /\ UNCHANGED <<piece, given>> /\ held' \subseteq held
    BY <1>8 DEF UnifiedFinish, Settled, Drained
  <2>2. QED
    BY <2>1, ThingsReturned
<1>9. QED
  BY <1>1, <1>2, <1>3, <1>4, <1>5, <1>6, <1>7, <1>8 DEF Unified

-----------------------------------------------------------------------------
(* The theorems.                                                           *)

\* The copiers implement the contract of CopierInterface (base.py:24): no
\* tensor is handed out before its bytes are in the device buffer, none is
\* written to afterwards, and what a read may still use is not given back;
\* for every division of a file, in every order in which the reads end or
\* fail.  A short pread of the blocking dma_load_runs is excluded: it breaks
\* the contract.
THEOREM ContractKept ==
  ASSUME ~ShortReads
  PROVE  Spec => KeepsContract
<1>1. Init => Contract!Init
  <2>1. Init => Writing = {} /\ Landed = {} /\ given = {} /\ held = {}
    BY DEF Init, Writing, Landed
  <2>2. QED
    BY <2>1 DEF Contract!Init
<1>2. CInv /\ CInv' /\ [Next]_vars => [Contract!Next]_(Contract!vars)
  <2>1. SUFFICES ASSUME CInv, CInv', [Next]_vars PROVE Steps
    BY DEF Steps
  <2>2. CASE Next
    BY <2>1, <2>2, FactorySteps, GdsSteps, FgdsSteps, UnifiedSteps DEF Next
  <2>3. CASE UNCHANGED vars
    <3>1. UNCHANGED <<piece, given, held>>
      BY <2>3 DEF vars, reader, caller
    <3>2. QED
      BY <3>1, NothingNew
  <2>4. QED
    BY <2>1, <2>2, <2>3
<1>3. Spec => []CInv
  BY CopiersInductive
<1>4. QED
  BY <1>1, <1>2, <1>3, PTL DEF Spec, KeepsContract, Contract!Spec

\* However a load ends, the file, the registered regions and the device
\* buffer have been given back, and no read is left that writes to it
\* (close and _cleanup of each copier, free_dev_ptrs of the factory); with
\* short preads too.
THEOREM AllReturned == Spec => []ReturnsEverything
<1>1. CInv => ReturnsEverything
  BY DEF CInv, HeldInv, QuietInv, ReturnsEverything
<1>2. QED
  BY <1>1, CopiersInductive, PTL

\* A tensor that was handed out holds the bytes of the file in all of its
\* pieces, whatever the copier, except where a short pread of the blocking
\* dma_load_runs is taken for a whole one (ext.cpp:1666).
THEOREM BytesThere == Spec => [](Exact => GivenHaveBytes)
<1>1. CInv => (Exact => GivenHaveBytes)
  BY DEF CInv, LandedInv, GivenHaveBytes
<1>2. QED
  BY <1>1, CopiersInductive, PTL

=============================================================================
