--------------------------- MODULE PipelineProofs ---------------------------
(***************************************************************************)
(* Proofs about Pipeline for every number of batches and every queue_size: *)
(* type correctness, the ownership of the device buffers, the memory bound *)
(* the planner relies on, that nothing is left behind; then batches in     *)
(* order and none lost, and the whole of what iterate_weights promises its *)
(* caller (BatchDelivery), step by step.                                   *)
(***************************************************************************)
EXTENDS Pipeline, FiniteSetTheorems, TLAPS

(***************************************************************************)
(* The producer is between the turn it was given (wait + clear) and the    *)
(* put of the batch: a buffer of its own exists or is about to.            *)
(***************************************************************************)
Holding ==
    \/ prod \in {"copying", "drop"}
    \/ prod \in {"offer", "blocked"} /\ item.kind = "batch"

InFlow == prod \in {"clear", "copy"} \/ Holding

\* The consumer is inside _consume_single_batch with a batch.
Busy == cons \in {"yield", "release", "sync"} \/ (cons = "got" /\ taken # 0)

\* Where the loop variables and the item stand.
LoopInv ==
    /\ prod \notin {"unborn", "loop", "offer", "blocked", "exited"}
           => batch <= NumBatches
    /\ prod \in {"offer", "blocked"} =>
          \/ /\ item = EndItem
             /\ batch = NumBatches + 1
          \/ /\ item.kind \in {"batch", "error"}
             /\ item.id = batch
             /\ batch <= NumBatches
    /\ prod = "exited" => batch = NumBatches + 1
    /\ prod \in {"offer", "blocked"} /\ item.kind = "error" => error
    /\ Busy \/ cons = "got" => count < NumBatches
    /\ (prod = "unborn") <=> (cons = "idle")

\* Nothing but batches is in the queue while a batch is on its way, and the
\* queue never outgrows its maxsize.
QueueInv ==
    /\ Len(queue) <= MaxSize
    /\ InFlow \/ prod \in {"add", "wait", "waiting", "woken", "reset"}
          => \A i \in 1 .. Len(queue) : queue[i].kind = "batch"
    /\ prod # "exited" => \A i \in 1 .. Len(queue) : queue[i].kind # "end"
    /\ ~error => \A i \in 1 .. Len(queue) : queue[i].kind # "error"

\* Buffers are created in order, and only the producer's batch can be new.
OrderInv ==
    /\ \A b \in Batches : b > batch => buf[b] = "none"
    /\ prod \in {"unborn", "loop", "add", "wait", "waiting", "woken", "clear",
                 "copy"} /\ batch <= NumBatches => buf[batch] = "none"
    /\ \A i \in InQueue : \/ queue[i].id < batch
                          \/ prod = "reset" /\ queue[i].id = batch
    /\ taken # 0 => (taken < batch \/ (prod = "reset" /\ taken = batch))
    /\ \A i, j \in InQueue : i < j => queue[i].id < queue[j].id
    /\ taken # 0 => \A i \in InQueue : taken < queue[i].id

\* Where the consumer holds a batch, and what the end of cleanup means.
ConsumerInv ==
    /\ cons \in {"yield", "release", "close1", "close2"} => taken # 0
    /\ taken # 0 => cons \in {"got", "yield", "release", "close1", "close2"}
    /\ cons \in {"drain2", "close2", "done"} => prod = "exited"
    /\ cons = "done" => queue = <<>>
    /\ stop => cons \in {"stop", "wake", "drain1", "close1", "join",
                         "drain2", "close2", "done"}
    /\ cons \in {"wake", "drain1", "close1", "join", "drain2", "close2",
                 "done"} => stop

Owned == Resident = InProducer \cup QueuedIds \cup InConsumer

\* After a failure the producer only reports it and skips; it gives a batch
\* up only when the pipeline stops.
FailedInv ==
    /\ error => \/ prod \in {"loop", "exited"}
                \/ prod \in {"offer", "blocked"} /\ item.kind # "batch"
    /\ prod = "drop" => stop

\* Whose turn it is when consumer_processed exists; an unbuffered consumer that
\* has not handed it over yet still has it, unless the producer is through.
TurnInv ==
    Handshake =>
    /\ prod \in {"woken", "clear"} => processed
    /\ (~stop /\ processed) \/ InFlow
          => InQueue = {} /\ (queueSize < 0 => taken = 0 /\ ~Busy)
    /\ ~stop /\ InFlow /\ prod # "clear" => ~processed
    /\ queueSize < 0 /\ (taken # 0 \/ Busy) => InQueue = {}
    /\ queueSize = 0 /\ cons = "got" =>
          InQueue = {} /\ ~InFlow /\ (error \/ prod = "exited" \/ ~processed)

IInv == TypeOK /\ LoopInv /\ QueueInv /\ ConsumerInv /\ OrderInv /\ Owned
        /\ FailedInv /\ TurnInv

-----------------------------------------------------------------------------
(* What a put and a get do to the places of the queue, and to the batches   *)
(* in it.                                                                  *)

\* What batch_queue.put leaves in the queue.
LEMMA AppendPlaces ==
  ASSUME NEW S, NEW q \in Seq(S), NEW e \in S
  PROVE  /\ Append(q, e) \in Seq(S)
         /\ Len(Append(q, e)) = Len(q) + 1
         /\ \A i \in 1 .. Len(q) : Append(q, e)[i] = q[i]
         /\ Append(q, e)[Len(q) + 1] = e
  OBVIOUS

\* What batch_queue.get leaves of the queue.
LEMMA TailPlaces ==
  ASSUME NEW S, NEW q \in Seq(S), q # <<>>
  PROVE  /\ Tail(q) \in Seq(S)
         /\ Len(q) \in Nat \ {0}
         /\ Len(Tail(q)) = Len(q) - 1
         /\ \A i \in 1 .. Len(q) - 1 : Tail(q)[i] = q[i + 1]
         /\ Head(q) = q[1]
         /\ Head(q) \in S
  OBVIOUS

\* The three kinds of item the producer puts.
LEMMA ItemKinds ==
  ASSUME NEW x \in Items
  PROVE  /\ x.kind \in {"batch", "error", "end"}
         /\ x.kind = "batch" => x.id \in Batches
<1>1. CASE x \in [kind : {"batch", "error"}, id : Batches]
  BY <1>1
<1>2. CASE x = EndItem
  BY <1>2 DEF EndItem
<1>3. QED
  BY <1>1, <1>2 DEF Items

\* A put adds to the queued batches the one the item is, if it is one.
LEMMA QueuedAfterPut ==
  ASSUME TypeOK, queue' = Append(queue, item)
  PROVE  QueuedIds' = QueuedIds \cup
                      (IF item.kind = "batch" THEN {item.id} ELSE {})
<1> USE DEF InQueue, QueuedIds
<1>1. /\ Len(queue') = Len(queue) + 1
      /\ \A i \in 1 .. Len(queue) : queue'[i] = queue[i]
      /\ queue'[Len(queue) + 1] = item
      /\ Len(queue) \in Nat
  BY AppendPlaces DEF TypeOK
<1>2. ASSUME NEW x \in QueuedIds'
      PROVE  x \in QueuedIds \cup
                   (IF item.kind = "batch" THEN {item.id} ELSE {})
  <2>1. PICK i \in 1 .. Len(queue) + 1 : 
                 queue'[i].kind = "batch" /\ x = queue'[i].id
    BY <1>1, <1>2
  <2>2. CASE i \in 1 .. Len(queue)
    BY <1>1, <2>1, <2>2
  <2>3. CASE i = Len(queue) + 1
    BY <1>1, <2>1, <2>3
  <2>4. QED
    BY <1>1, <2>1, <2>2, <2>3
<1>3. QueuedIds \subseteq QueuedIds'
  BY <1>1
<1>4. item.kind = "batch" => item.id \in QueuedIds'
  BY <1>1
<1>5. QED
  BY <1>2, <1>3, <1>4

\* A get takes away the batch at the head, if there is one.
LEMMA QueuedAfterTail ==
  ASSUME TypeOK, queue # <<>>, queue' = Tail(queue)
  PROVE  QueuedIds = QueuedIds' \cup
                     (IF Head(queue).kind = "batch"
                      THEN {Head(queue).id} ELSE {})
<1> USE DEF InQueue, QueuedIds
<1>1. /\ Len(queue) \in Nat \ {0}
      /\ Len(queue') = Len(queue) - 1
      /\ \A i \in 1 .. Len(queue) - 1 : queue'[i] = queue[i + 1]
      /\ Head(queue) = queue[1]
  BY TailPlaces DEF TypeOK
<1>2. ASSUME NEW x \in QueuedIds
      PROVE  x \in QueuedIds' \cup
                   (IF Head(queue).kind = "batch"
                    THEN {Head(queue).id} ELSE {})
  <2>1. PICK i \in 1 .. Len(queue) : queue[i].kind = "batch" /\ x = queue[i].id
    BY <1>2
  <2>2. CASE i = 1
    BY <1>1, <2>1, <2>2
  <2>3. CASE i # 1
    <3>1. i - 1 \in 1 .. Len(queue') /\ queue'[i - 1] = queue[i]
      BY <1>1, <2>1, <2>3
    <3>2. QED
      BY <2>1, <3>1
  <2>4. QED
    BY <2>2, <2>3
<1>3. QueuedIds' \subseteq QueuedIds
  <2>1. ASSUME NEW i \in 1 .. Len(queue')
        PROVE  i + 1 \in 1 .. Len(queue) /\ queue'[i] = queue[i + 1]
    BY <1>1
  <2>2. QED
    BY <2>1
<1>4. Head(queue).kind = "batch" => Head(queue).id \in QueuedIds
  BY <1>1
<1>5. QED
  BY <1>2, <1>3, <1>4

\* __init__ leaves the pipeline in a state of the inductive invariant.
LEMMA InitIInv == Init => IInv
<1> SUFFICES ASSUME Init PROVE IInv
  OBVIOUS
<1> USE NumBatchesAssumption, QueueSizesAssumption
        DEF Init, Items, EndItem, Batches, Holding, InFlow, Busy
<1>1. TypeOK
  <2>1. processed \in BOOLEAN
    BY DEF FirstMayGo, Handshake
  <2>2. requested \in QueueSizes /\ queueSize \in QueueSizes
    OBVIOUS
  <2>3. queue \in Seq(Items) /\ item \in Items
    OBVIOUS
  <2>4. /\ stop \in BOOLEAN /\ error \in BOOLEAN
        /\ staged \in SUBSET Batches
    OBVIOUS
  <2>7. /\ buf \in [Batches -> {"none", "live", "closed"}]
        /\ batch \in 1 .. NumBatches + 1
    OBVIOUS
  <2>5. /\ prod \in ProducerPoints /\ cons \in ConsumerPoints
        /\ taken \in 0 .. NumBatches /\ count \in 0 .. NumBatches
        /\ delivered \in Nat /\ exc \in {"none", "exit", "error"}
    BY DEF ProducerPoints, ConsumerPoints
  <2>6. QED
    BY <2>1, <2>2, <2>3, <2>4, <2>5, <2>7 DEF TypeOK
<1>2. LoopInv /\ QueueInv /\ ConsumerInv /\ OrderInv /\ FailedInv
  BY DEF LoopInv, QueueInv, ConsumerInv, OrderInv, FailedInv, InQueue, MaxSize,
         AtLeastOne
<1>3. Owned
  BY DEF Owned, Resident, InProducer, QueuedIds, InQueue, InConsumer
<1>4. TurnInv
  BY DEF TurnInv, InQueue, Handshake
<1>5. QED
  BY <1>1, <1>2, <1>3, <1>4 DEF IInv

\* Every step of the producer, of the consumer and of the caller keeps it.
LEMMA NextIInv == IInv /\ [Next]_vars => IInv'
<1> SUFFICES ASSUME IInv, [Next]_vars PROVE IInv'
  OBVIOUS
<1> USE NumBatchesAssumption, QueueSizesAssumption
        DEF IInv, vars, sizes, events, producerVars, consumerVars, Items,
            EndItem, Batches, Holding, InFlow, Busy, ProducerPoints,
            ConsumerPoints, MaxSize, AtLeastOne, Handshake, InQueue, Resident,
            InProducer, QueuedIds, InConsumer, ProducerGoes, ConsumerGoes,
            AbandonBatch, PutReturns, Skips, MoreBatches, WakeUpCounts,
            GivesUp, AfterGivingUp, AfterPut, FailureNotice, ErrorItem,
            BatchItem, SignalsOnGet, SignalsOnClose, AfterJoin, Joined
<1>1. CASE OfferEnd
  BY <1>1
    DEF OfferEnd, TypeOK, LoopInv, QueueInv, ConsumerInv, OrderInv, Owned,
        FailedInv, TurnInv
<1>2. CASE SkipBatch
  <2>1. TypeOK'
    BY <1>2 DEF SkipBatch, TypeOK
  <2>2. LoopInv'
    BY <1>2 DEF SkipBatch, LoopInv
  <2>3. QueueInv'
    BY <1>2 DEF SkipBatch, QueueInv
  <2>4. ConsumerInv'
    BY <1>2 DEF SkipBatch, ConsumerInv
  <2>5. OrderInv'
    BY <1>2 DEF SkipBatch, TypeOK, OrderInv
  <2>6. Owned'
    BY <1>2 DEF SkipBatch, QueueInv, Owned
  <2>7. TurnInv'
    BY <1>2 DEF SkipBatch, TurnInv
  <2>8. FailedInv'
    BY <1>2 DEF SkipBatch, TypeOK, LoopInv, FailedInv
  <2> QED BY <2>1, <2>2, <2>3, <2>4, <2>5, <2>6, <2>7, <2>8
<1>3. CASE StartBatch
  BY SMTT(30), <1>3
    DEF StartBatch, TypeOK, LoopInv, QueueInv, ConsumerInv, OrderInv, Owned,
        FailedInv, TurnInv
<1>4. CASE AddFilenames
  BY <1>4
    DEF AddFilenames, TypeOK, LoopInv, QueueInv, ConsumerInv, OrderInv, Owned,
        FailedInv, TurnInv
<1>5. CASE WaitCancelled
  <2>1. TypeOK'
    BY <1>5 DEF WaitCancelled, TypeOK, LoopInv
  <2>2. LoopInv'
    BY <1>5 DEF WaitCancelled, LoopInv
  <2>3. QueueInv'
    BY <1>5 DEF WaitCancelled, QueueInv
  <2>4. ConsumerInv'
    BY <1>5 DEF WaitCancelled, ConsumerInv
  <2>5. OrderInv'
    BY SMTT(30), <1>5 DEF WaitCancelled, TypeOK, OrderInv
  <2>6. Owned'
    BY <1>5 DEF WaitCancelled, Owned
  <2>7. TurnInv'
    BY <1>5 DEF WaitCancelled, TurnInv
  <2>8. FailedInv'
    BY <1>5 DEF WaitCancelled, TypeOK, LoopInv, FailedInv
  <2> QED BY <2>1, <2>2, <2>3, <2>4, <2>5, <2>6, <2>7, <2>8
<1>6. CASE WaitBegins
  BY <1>6
    DEF WaitBegins, TypeOK, LoopInv, QueueInv, ConsumerInv, OrderInv, Owned,
        FailedInv, TurnInv
<1>7. CASE WaitEvent
  BY <1>7
    DEF WaitEvent, TypeOK, LoopInv, QueueInv, ConsumerInv, OrderInv, Owned,
        FailedInv, TurnInv
<1>8. CASE WokenTooLate
  <2>1. TypeOK'
    BY <1>8 DEF WokenTooLate, TypeOK, LoopInv
  <2>2. LoopInv'
    BY <1>8 DEF WokenTooLate, LoopInv
  <2>3. QueueInv'
    BY <1>8 DEF WokenTooLate, QueueInv
  <2>4. ConsumerInv'
    BY <1>8 DEF WokenTooLate, ConsumerInv
  <2>5. OrderInv'
    BY SMTT(30), <1>8 DEF WokenTooLate, TypeOK, OrderInv
  <2>6. Owned'
    <3>1. /\ QueuedIds' = QueuedIds /\ InConsumer' = InConsumer
          /\ Resident' = Resident /\ InProducer' = InProducer
      BY <1>8 DEF WokenTooLate
    <3>2. QED
      BY <3>1 DEF Owned
  <2>7. TurnInv'
    BY <1>8 DEF WokenTooLate, TurnInv
  <2>8. FailedInv'
    BY <1>8 DEF WokenTooLate, TypeOK, LoopInv, FailedInv
  <2> QED BY <2>1, <2>2, <2>3, <2>4, <2>5, <2>6, <2>7, <2>8
<1>9. CASE WokenInTime
  BY <1>9
    DEF WokenInTime, TypeOK, LoopInv, QueueInv, ConsumerInv, OrderInv, Owned,
        FailedInv, TurnInv
<1>10. CASE ClearProcessed
  <2>1. TypeOK'
    BY <1>10 DEF ClearProcessed, TypeOK
  <2>2. LoopInv'
    BY <1>10 DEF ClearProcessed, LoopInv
  <2>3. QueueInv'
    BY <1>10 DEF ClearProcessed, QueueInv
  <2>4. ConsumerInv'
    BY <1>10 DEF ClearProcessed, ConsumerInv
  <2>5. OrderInv'
    BY <1>10 DEF ClearProcessed, OrderInv
  <2>6. Owned'
    BY <1>10 DEF ClearProcessed, Owned
  <2>7. TurnInv'
    BY <1>10 DEF ClearProcessed, TurnInv
  <2>8. FailedInv'
    BY <1>10 DEF ClearProcessed, TypeOK, LoopInv, FailedInv
  <2> QED BY <2>1, <2>2, <2>3, <2>4, <2>5, <2>6, <2>7, <2>8
<1>11. CASE BeginCopy
  BY <1>11
    DEF BeginCopy, TypeOK, LoopInv, QueueInv, ConsumerInv, OrderInv, Owned,
        FailedInv, TurnInv
<1>12. CASE EndCopy
  BY <1>12
    DEF EndCopy, TypeOK, LoopInv, QueueInv, ConsumerInv, OrderInv, Owned,
        FailedInv, TurnInv
<1>13. CASE CopyRaises
  BY <1>13
    DEF CopyRaises, TypeOK, LoopInv, QueueInv, ConsumerInv, OrderInv, Owned,
        FailedInv, TurnInv
<1>14. CASE OfferCancelled
  <2>1. TypeOK'
    BY <1>14 DEF OfferCancelled, TypeOK, LoopInv
  <2>2. LoopInv'
    BY <1>14 DEF OfferCancelled, LoopInv
  <2>3. QueueInv'
    BY <1>14 DEF OfferCancelled, TypeOK, QueueInv
  <2>4. ConsumerInv'
    BY <1>14 DEF OfferCancelled, ConsumerInv
  <2>5. OrderInv'
    BY SMTT(30), <1>14 DEF OfferCancelled, TypeOK, QueueInv, ConsumerInv, OrderInv
  <2>6. Owned'
    <3>1. /\ QueuedIds' = QueuedIds
          /\ InConsumer' = InConsumer
          /\ Resident' = Resident
      BY <1>14 DEF OfferCancelled
    <3>2. InProducer' = InProducer
      <4>1. CASE item.kind = "batch"
        BY <1>14, <4>1 DEF OfferCancelled
      <4>2. CASE item.kind # "batch"
        <5>1. item.kind \in {"error", "end"}
          BY <4>2, ItemKinds DEF TypeOK
        <5>2. QED
          BY <1>14, <5>1 DEF OfferCancelled
      <4>3. QED
        BY <4>1, <4>2
    <3>3. QED
      BY <3>1, <3>2 DEF Owned
  <2>7. TurnInv'
    BY <1>14 DEF OfferCancelled, TypeOK, TurnInv
  <2>8. FailedInv'
    BY <1>14 DEF OfferCancelled, TypeOK, LoopInv, FailedInv
  <2> QED BY <2>1, <2>2, <2>3, <2>4, <2>5, <2>6, <2>7, <2>8
<1>15. CASE OfferGoesOn
  BY <1>15
    DEF OfferGoesOn, TypeOK, LoopInv, QueueInv, ConsumerInv, OrderInv, Owned,
        FailedInv, TurnInv
<1>16. CASE Put
  <2>1. TypeOK'
    BY <1>16 DEF Put, TypeOK, LoopInv
  <2>2. LoopInv'
    BY <1>16 DEF Put, LoopInv
  <2>3. QueueInv'
    <3>1. /\ Len(queue') = Len(queue) + 1
          /\ \A i \in 1 .. Len(queue) : queue'[i] = queue[i]
          /\ queue'[Len(queue) + 1] = item
          /\ Len(queue) \in Nat
      BY <1>16, AppendPlaces DEF Put, TypeOK
    <3>2. Len(queue') <= MaxSize'
      <4>1. queueSize' = queueSize /\ queueSize \in Int
        BY <1>16 DEF Put, TypeOK
      <4>2. Len(queue) < MaxSize
        BY <1>16 DEF Put
      <4>3. QED
        BY <3>1, <4>1, <4>2
    <3>3. item.kind = "error" => error
      BY <1>16 DEF Put, LoopInv
    <3>4. QED
      BY <1>16, <3>1, <3>2, <3>3 DEF Put, TypeOK, LoopInv, QueueInv
  <2>4. ConsumerInv'
    BY <1>16 DEF Put, ConsumerInv
  <2>5. OrderInv'
    <3>1. /\ Len(queue') = Len(queue) + 1
          /\ \A i \in 1 .. Len(queue) : queue'[i] = queue[i]
          /\ queue'[Len(queue) + 1] = item
          /\ Len(queue) \in Nat
      BY <1>16, AppendPlaces DEF Put, TypeOK
    <3>2. item.kind = "batch"
             => item.id = batch /\ prod' = "reset" /\ batch' = batch
      BY <1>16 DEF Put, LoopInv
    <3>3. \A i \in InQueue' :
            \/ i \in InQueue /\ queue'[i] = queue[i]
            \/ /\ i = Len(queue) + 1 /\ queue'[i].id = batch
               /\ item.kind = "batch"
      BY <3>1, <3>2
    <3>4. batch \in Nat /\ batch' \in Nat /\ batch' >= batch
      BY <1>16 DEF Put, TypeOK
    <3>5. \A i \in InQueue : queue[i].id < batch
      BY <1>16 DEF Put, OrderInv
    <3>6. taken # 0 => taken < batch
      BY <1>16 DEF Put, OrderInv
    <3>7. \A i \in InQueue : i \in 1 .. Len(queue) /\ queue[i] \in Items
      BY DEF TypeOK
    <3>8. /\ \A b \in Batches : b > batch' => buf'[b] = "none"
          /\ prod' \in {"unborn", "loop", "add", "wait", "waiting", "woken",
                        "clear", "copy"} /\ batch' <= NumBatches
                => buf'[batch'] = "none"
      BY <1>16, <3>4 DEF Put, OrderInv, LoopInv, TypeOK
    <3>9. \A i \in InQueue' : \/ queue'[i].id < batch'
                              \/ prod' = "reset" /\ queue'[i].id = batch'
      <4>1. ASSUME NEW i \in InQueue'
            PROVE  \/ queue'[i].id < batch'
                   \/ prod' = "reset" /\ queue'[i].id = batch'
        <5>1. CASE i \in InQueue /\ queue'[i] = queue[i]
          <6>1. queue[i].id < batch /\ queue[i].id \in Nat
            BY <5>1, <3>5, <3>7, ItemKinds
          <6>2. QED
            BY <5>1, <6>1, <3>4
        <5>2. CASE item.kind = "batch" /\ queue'[i].id = batch
          BY <5>2, <3>2
        <5>3. QED
          BY <4>1, <5>1, <5>2, <3>3
      <4>2. QED
        BY <4>1
    <3>10. taken' # 0
              => (taken' < batch' \/ (prod' = "reset" /\ taken' = batch'))
      BY <1>16, <3>4, <3>6 DEF Put, TypeOK
    <3>11. \A i, j \in InQueue' : i < j => queue'[i].id < queue'[j].id
      BY <3>1, <3>3, <3>5, <3>7 DEF OrderInv
    <3>12. taken' # 0 => \A i \in InQueue' : taken' < queue'[i].id
      BY <1>16, <3>3, <3>6 DEF Put, OrderInv
    <3>13. QED
      BY <3>8, <3>9, <3>10, <3>11, <3>12 DEF OrderInv
  <2>6. Owned'
    <3>1. QueuedIds' = QueuedIds \cup
                       (IF item.kind = "batch" THEN {item.id} ELSE {})
      BY <1>16, QueuedAfterPut DEF Put
    <3>2. InConsumer' = InConsumer /\ Resident' = Resident /\ InProducer' = {}
      BY <1>16 DEF Put, LoopInv, TypeOK
    <3>3. InProducer = IF item.kind = "batch" THEN {item.id} ELSE {}
      <4>1. CASE item.kind = "batch"
        BY <1>16, <4>1 DEF Put, LoopInv
      <4>2. CASE item.kind # "batch"
        <5>1. prod = "blocked"
          BY <1>16 DEF Put
        <5>2. ~Holding
          BY <4>2, <5>1 DEF Holding
        <5>3. QED
          BY <4>2, <5>1, <5>2 DEF InProducer
      <4>3. QED
        BY <4>1, <4>2
    <3>4. QED
      BY <3>1, <3>2, <3>3 DEF Owned
  <2>7. TurnInv'
    BY <1>16 DEF Put, TypeOK, TurnInv
  <2>8. FailedInv'
    BY <1>16 DEF Put, TypeOK, LoopInv, FailedInv
  <2> QED BY <2>1, <2>2, <2>3, <2>4, <2>5, <2>6, <2>7, <2>8
<1>17. CASE PutTimesOut
  BY <1>17
    DEF PutTimesOut, TypeOK, LoopInv, QueueInv, ConsumerInv, OrderInv, Owned,
        FailedInv, TurnInv
<1>18. CASE LoaderReset
  <2>1. TypeOK'
    BY <1>18 DEF LoaderReset, TypeOK, LoopInv
  <2>2. LoopInv'
    BY <1>18 DEF LoaderReset, LoopInv
  <2>3. QueueInv'
    BY <1>18 DEF LoaderReset, QueueInv
  <2>4. ConsumerInv'
    BY <1>18 DEF LoaderReset, ConsumerInv
  <2>5. OrderInv'
    BY SMTT(30), <1>18 DEF LoaderReset, TypeOK, OrderInv
  <2>6. Owned'
    BY <1>18 DEF LoaderReset, Owned
  <2>7. TurnInv'
    BY <1>18 DEF LoaderReset, TurnInv
  <2>8. FailedInv'
    BY <1>18 DEF LoaderReset, TypeOK, LoopInv, FailedInv
  <2> QED BY <2>1, <2>2, <2>3, <2>4, <2>5, <2>6, <2>7, <2>8
<1>19. CASE DropBatch
  <2>1. TypeOK'
    BY <1>19 DEF DropBatch, TypeOK, LoopInv
  <2>2. LoopInv'
    BY <1>19 DEF DropBatch, LoopInv
  <2>3. QueueInv'
    BY <1>19 DEF DropBatch, QueueInv
  <2>4. ConsumerInv'
    BY <1>19 DEF DropBatch, ConsumerInv
  <2>5. OrderInv'
    BY SMTT(30), <1>19 DEF DropBatch, TypeOK, OrderInv
  <2>6. Owned'
    <3>1. /\ QueuedIds' = QueuedIds
          /\ InConsumer' = InConsumer
          /\ InProducer' = {}
      BY <1>19 DEF DropBatch
    <3>2. batch \in Batches /\ Resident' = Resident \ {batch}
      BY <1>19 DEF DropBatch, TypeOK, LoopInv
    <3>3. /\ InProducer = {batch}
          /\ batch \notin QueuedIds
          /\ batch \notin InConsumer
      BY <1>19 DEF DropBatch, OrderInv, TypeOK
    <3>4. QED
      BY <3>1, <3>2, <3>3 DEF Owned
  <2>7. TurnInv'
    BY <1>19 DEF DropBatch, TurnInv
  <2>8. FailedInv'
    BY <1>19 DEF DropBatch, TypeOK, LoopInv, FailedInv
  <2> QED BY <2>1, <2>2, <2>3, <2>4, <2>5, <2>6, <2>7, <2>8
<1>20. CASE Fail
  BY <1>20
    DEF Fail, TypeOK, LoopInv, QueueInv, ConsumerInv, OrderInv, Owned, FailedInv, TurnInv
<1>21. CASE StartIteration
  BY <1>21
    DEF StartIteration, TypeOK, LoopInv, QueueInv, ConsumerInv, OrderInv,
        Owned, FailedInv, TurnInv
<1>22. CASE Get
  <2>1. TypeOK'
    BY <1>22 DEF Get, TypeOK
  <2>2. LoopInv'
    BY <1>22 DEF Get, TypeOK, LoopInv
  <2>3. QueueInv'
    BY <1>22 DEF Get, TypeOK, QueueInv, TurnInv
  <2>4. ConsumerInv'
    BY <1>22 DEF Get, TypeOK, ConsumerInv
  <2>5. OrderInv'
    BY <1>22 DEF Get, ConsumerInv, OrderInv
  <2>6. Owned'
    <3>1. QueuedIds = QueuedIds' \cup
                      (IF Head(queue).kind = "batch"
                       THEN {Head(queue).id} ELSE {})
      BY <1>22, QueuedAfterTail DEF Get
    <3>2. InProducer' = InProducer /\ Resident' = Resident
      BY <1>22 DEF Get
    <3>3. InConsumer = {}
      BY <1>22 DEF Get, ConsumerInv
    <3>4. InConsumer' = IF Head(queue).kind = "batch"
                        THEN {Head(queue).id} ELSE {}
      <4>1. Head(queue) \in Items
        BY <1>22, TailPlaces DEF Get, TypeOK
      <4>2. CASE Head(queue).kind = "batch"
        <5>1. Head(queue).id # 0
          BY <4>1, <4>2, ItemKinds
        <5>2. QED
          BY <1>22, <4>2, <5>1 DEF Get
      <4>3. CASE Head(queue).kind # "batch"
        BY <1>22, <4>3 DEF Get, ConsumerInv
      <4>4. QED
        BY <4>2, <4>3
    <3>5. QED
      BY <3>1, <3>2, <3>3, <3>4 DEF Owned
  <2>7. TurnInv'
    <3>1. /\ Len(queue) \in Nat \ {0}
          /\ Len(queue') = Len(queue) - 1
          /\ Head(queue) = queue[1]
      BY <1>22, TailPlaces DEF Get, TypeOK
    <3>2. Handshake => InQueue' = {}
      <4>1. Handshake => Len(queue) <= 1
        <5>1. Handshake => MaxSize = 1
          BY DEF TypeOK
        <5>2. Len(queue) <= MaxSize
          BY DEF QueueInv
        <5> HIDE DEF MaxSize, Handshake
        <5>3. QED
          BY <5>1, <5>2
      <4>2. QED
        BY <3>1, <4>1
    <3>3. InQueue = {} => Head(queue).kind # "batch"
      BY <3>1
    <3>4. InFlow => Head(queue).kind = "batch"
      BY <3>1 DEF QueueInv
    <3>5. /\ UNCHANGED <<queueSize, stop, error, processed, prod, item>>
          /\ cons = "loop" /\ taken = 0 /\ ~stop
          /\ Head(queue).kind # "batch" => taken' = 0 /\ ~Busy'
          /\ Head(queue).kind # "batch" => error \/ prod = "exited"
      <4>1. Head(queue).kind \in {"batch", "error", "end"}
        BY <1>22, TailPlaces, ItemKinds DEF Get, TypeOK
      <4>2. Head(queue).kind # "batch" => error \/ prod = "exited"
        BY <3>1, <4>1 DEF QueueInv
      <4>3. /\ UNCHANGED <<queueSize, stop, error, processed, prod, item>>
            /\ cons = "loop" /\ taken = 0 /\ ~stop
        BY <1>22 DEF Get, ConsumerInv
      <4>4. Head(queue).kind # "batch" => taken' = 0 /\ ~Busy'
        BY <1>22 DEF Get
      <4>5. QED
        BY <4>2, <4>3, <4>4
    <3>6. InFlow' = InFlow
      BY <3>5
    <3> HIDE DEF InFlow, Busy, InQueue
    <3>7. CASE Handshake
      <4>1. InQueue' = {}
        BY <3>2, <3>7
      <4>2. /\ (~stop /\ processed) \/ InFlow => InQueue = {}
            /\ prod \in {"woken", "clear"} => processed
            /\ InFlow /\ prod # "clear" => ~processed
        BY <3>5, <3>7 DEF TurnInv
      <4>3. InFlow \/ processed => taken' = 0 /\ ~Busy'
        BY <3>3, <3>5, <4>2
      <4>4. ~InFlow \/ InQueue # {}
        BY <3>3, <3>4
      <4>5. error \/ prod = "exited" \/ ~processed
        BY <3>3, <3>5, <4>2
      <4>6. QED
        BY <3>5, <3>6, <4>1, <4>2, <4>3, <4>4, <4>5 DEF TurnInv
    <3>8. QED
      BY <3>5, <3>7 DEF TurnInv
  <2>8. FailedInv'
    BY <1>22 DEF Get, TypeOK, LoopInv, FailedInv
  <2> QED BY <2>1, <2>2, <2>3, <2>4, <2>5, <2>6, <2>7, <2>8
<1>40. CASE HandTurn
  <2>1. TypeOK'
    BY <1>40 DEF HandTurn, TypeOK, LoopInv
  <2>2. LoopInv'
    BY <1>40 DEF HandTurn, TypeOK, LoopInv
  <2>3. QueueInv'
    BY <1>40 DEF HandTurn, QueueInv
  <2>4. ConsumerInv'
    BY <1>40 DEF HandTurn, ConsumerInv
  <2>5. OrderInv'
    BY <1>40 DEF HandTurn, OrderInv
  <2>6. Owned'
    BY <1>40 DEF HandTurn, Owned
  <2>7. TurnInv'
    BY <1>40 DEF HandTurn, TypeOK, ConsumerInv, TurnInv
  <2>8. FailedInv'
    BY <1>40 DEF HandTurn, FailedInv
  <2> QED BY <2>1, <2>2, <2>3, <2>4, <2>5, <2>6, <2>7, <2>8
<1>23. CASE Exhausted
  BY <1>23
    DEF Exhausted, TypeOK, LoopInv, QueueInv, ConsumerInv, OrderInv, Owned,
        FailedInv, TurnInv
<1>24. CASE TensorRaises
  BY <1>24
    DEF TensorRaises, TypeOK, LoopInv, QueueInv, ConsumerInv, OrderInv, Owned,
        FailedInv, TurnInv
<1>25. CASE CallerCloses
  BY <1>25
    DEF CallerCloses, TypeOK, LoopInv, QueueInv, ConsumerInv, OrderInv, Owned,
        FailedInv, TurnInv
<1>26. CASE Release
  BY <1>26
    DEF Release, TypeOK, LoopInv, QueueInv, ConsumerInv, OrderInv, Owned,
        FailedInv, TurnInv
<1>27. CASE Sync
  BY <1>27
    DEF Sync, TypeOK, LoopInv, QueueInv, ConsumerInv, OrderInv, Owned, FailedInv, TurnInv
<1>28. CASE EndIteration
  BY <1>28
    DEF EndIteration, TypeOK, LoopInv, QueueInv, ConsumerInv, OrderInv, Owned,
        FailedInv, TurnInv
<1>29. CASE SetStop
  BY <1>29
    DEF SetStop, TypeOK, LoopInv, QueueInv, ConsumerInv, OrderInv, Owned,
        FailedInv, TurnInv
<1>30. CASE WakeProducer
  BY <1>30
    DEF WakeProducer, TypeOK, LoopInv, QueueInv, ConsumerInv, OrderInv, Owned,
        FailedInv, TurnInv
<1>31. CASE DrainGet
  <2>1. TypeOK'
    BY <1>31 DEF DrainGet, TypeOK
  <2>2. LoopInv'
    BY <1>31 DEF DrainGet, LoopInv
  <2>3. QueueInv'
    BY <1>31 DEF DrainGet, TypeOK, QueueInv
  <2>4. ConsumerInv'
    BY <1>31 DEF DrainGet, TypeOK, ConsumerInv
  <2>5. OrderInv'
    BY <1>31 DEF DrainGet, OrderInv
  <2>6. Owned'
    <3>1. QueuedIds = QueuedIds' \cup
                      (IF Head(queue).kind = "batch"
                       THEN {Head(queue).id} ELSE {})
      BY <1>31, QueuedAfterTail DEF DrainGet
    <3>2. InProducer' = InProducer /\ Resident' = Resident
      BY <1>31 DEF DrainGet
    <3>3. InConsumer = {}
      BY <1>31 DEF DrainGet, ConsumerInv
    <3>4. InConsumer' = IF Head(queue).kind = "batch"
                        THEN {Head(queue).id} ELSE {}
      <4>1. Head(queue) \in Items
        BY <1>31, TailPlaces DEF DrainGet, TypeOK
      <4>2. CASE Head(queue).kind = "batch"
        <5>1. Head(queue).id # 0
          BY <4>1, <4>2, ItemKinds
        <5>2. QED
          BY <1>31, <4>2, <5>1 DEF DrainGet
      <4>3. CASE Head(queue).kind # "batch"
        BY <1>31, <4>3 DEF DrainGet, ConsumerInv
      <4>4. QED
        BY <4>2, <4>3
    <3>5. QED
      BY <3>1, <3>2, <3>3, <3>4 DEF Owned
  <2>7. TurnInv'
    BY <1>31 DEF DrainGet, TypeOK, QueueInv, TurnInv
  <2>8. FailedInv'
    BY <1>31 DEF DrainGet, TypeOK, LoopInv, FailedInv
  <2> QED BY <2>1, <2>2, <2>3, <2>4, <2>5, <2>6, <2>7, <2>8
<1>32. CASE DrainClose
  BY <1>32
    DEF DrainClose, TypeOK, LoopInv, QueueInv, ConsumerInv, OrderInv, Owned,
        FailedInv, TurnInv
<1>33. CASE DrainEmpty
  BY <1>33
    DEF DrainEmpty, TypeOK, LoopInv, QueueInv, ConsumerInv, OrderInv, Owned,
        FailedInv, TurnInv
<1>34. CASE Join
  BY <1>34
    DEF Join, TypeOK, LoopInv, QueueInv, ConsumerInv, OrderInv, Owned, FailedInv, TurnInv
<1>35. CASE CloseLoader
  BY <1>35
    DEF CloseLoader, TypeOK, LoopInv, QueueInv, ConsumerInv, OrderInv, Owned,
        FailedInv, TurnInv
<1>36. CASE UNCHANGED vars
  BY <1>36 DEF TypeOK, LoopInv, QueueInv, ConsumerInv, OrderInv, Owned, FailedInv, TurnInv
<1>37. CASE Producer
  BY <1>37, <1>1, <1>2, <1>3, <1>4, <1>5, <1>6, <1>7, <1>8, <1>9, <1>10,
     <1>11, <1>12, <1>13, <1>14, <1>15, <1>16, <1>17, <1>18, <1>19, <1>20
     DEF Producer
<1>38. CASE Consumer
  BY <1>38, <1>22, <1>40, <1>26, <1>27, <1>28, <1>29, <1>30, <1>31, <1>32, <1>33,
     <1>34
     DEF Consumer
<1>39. CASE Caller
  BY <1>39, <1>21, <1>23, <1>24, <1>25 DEF Caller
<1> QED
  BY <1>35, <1>36, <1>37, <1>38, <1>39 DEF Next

-----------------------------------------------------------------------------
(* The inductive invariant holds: every step the pipeline can take, in     *)
(* whatever order the two threads are scheduled, keeps it.                 *)
THEOREM Inductive == Spec => []IInv
<1>1. Init => IInv
  BY InitIInv
<1>2. IInv /\ [Next]_vars => IInv'
  BY NextIInv
<1>3. QED
  BY <1>1, <1>2, PTL DEF Spec

(***************************************************************************)
(* The variables of PipelineParallel keep their types for any number of    *)
(* batches and any queue_size: no batch_id past the end of the list, no    *)
(* more processed batches than there are.                                  *)
(***************************************************************************)
THEOREM TypeCorrect == Spec => []TypeOK
<1>1. IInv => TypeOK
  BY DEF IInv
<1>2. QED
  BY <1>1, Inductive, PTL

-----------------------------------------------------------------------------
(* The batches in the queue are no more than its places.                   *)
LEMMA QueuedBound ==
  ASSUME TypeOK
  PROVE  /\ IsFiniteSet(QueuedIds)
         /\ Cardinality(QueuedIds) \in Nat
         /\ Cardinality(QueuedIds) <= Len(queue)
<1>1. Len(queue) \in Nat
  BY DEF TypeOK
<1>2. /\ IsFiniteSet(1 .. Len(queue))
      /\ Cardinality(1 .. Len(queue)) = Len(queue)
  <2>1. /\ IsFiniteSet(1 .. Len(queue))
        /\ Cardinality(1 .. Len(queue)) =
             IF 1 > Len(queue) THEN 0 ELSE Len(queue) - 1 + 1
    BY <1>1, FS_Interval
  <2>2. QED
    BY <1>1, <2>1
<1>3. /\ IsFiniteSet(InQueue)
      /\ Cardinality(InQueue) <= Len(queue)
  <2>1. InQueue \in SUBSET (1 .. Len(queue))
    BY DEF InQueue
  <2>2. QED
    BY <1>2, <2>1, FS_Subset
<1> DEFINE id == [i \in InQueue |-> queue[i].id]
<1>4. id \in Surjection(InQueue, QueuedIds)
  BY DEF QueuedIds, Surjection
<1>5. /\ IsFiniteSet(QueuedIds)
      /\ Cardinality(QueuedIds) <= Cardinality(InQueue)
  BY <1>3, <1>4, FS_Surjection
<1>6. Cardinality(InQueue) \in Nat /\ Cardinality(QueuedIds) \in Nat
  BY <1>3, <1>5, FS_CardinalityType
<1>7. QED
  BY <1>1, <1>3, <1>5, <1>6

(* The producer and the consumer hold at most one batch each.              *)
LEMMA HandsBound ==
  /\ IsFiniteSet(InProducer) /\ IsFiniteSet(InConsumer)
  /\ Cardinality(InProducer) \in 0 .. 1
  /\ Cardinality(InConsumer) \in 0 .. 1
<1>1. ASSUME NEW S, S = {} \/ \E x : S = {x}
      PROVE  IsFiniteSet(S) /\ Cardinality(S) \in 0 .. 1
  <2>1. CASE S = {}
    BY <2>1, FS_EmptySet
  <2>2. CASE \E x : S = {x}
    <3>1. PICK x : S = {x}
      BY <2>2
    <3>2. IsFiniteSet({x}) /\ Cardinality({x}) = 1
      BY FS_Singleton
    <3>3. QED
      BY <3>1, <3>2
  <2>3. QED
    BY <1>1, <2>1, <2>2
<1>2. InProducer = {} \/ \E x : InProducer = {x}
  BY DEF InProducer
<1>3. InConsumer = {} \/ \E x : InConsumer = {x}
  BY DEF InConsumer
<1>4. QED
  BY <1>1, <1>2, <1>3

\* The inductive invariant bounds the buffers: those of the producer, of the
\* queue and of the consumer, with the turns when the queue is one place.
LEMMA DepthFromInv == IInv => DepthBound
<1> SUFFICES ASSUME IInv PROVE DepthBound
  OBVIOUS
<1> DEFINE p == Cardinality(InProducer)
           q == Cardinality(QueuedIds)
           c == Cardinality(InConsumer)
<1>1. /\ p \in 0 .. 1 /\ c \in 0 .. 1
      /\ q \in Nat /\ q <= MaxSize
      /\ IsFiniteSet(InProducer) /\ IsFiniteSet(QueuedIds)
      /\ IsFiniteSet(InConsumer)
  <2>1. Len(queue) \in Nat /\ Len(queue) <= MaxSize /\ MaxSize \in Int
    <3>1. queue \in Seq(Items) /\ queueSize \in Int
      BY QueueSizesAssumption DEF IInv, TypeOK
    <3>2. Len(queue) <= MaxSize
      BY DEF IInv, QueueInv
    <3>3. QED
      BY <3>1, <3>2 DEF MaxSize, AtLeastOne
  <2>2. QED
    BY <2>1, QueuedBound, HandsBound DEF IInv
<1>2. Cardinality(Resident) \in Nat /\ Cardinality(Resident) <= p + q + c
  <2>1. /\ IsFiniteSet(InProducer \cup QueuedIds)
        /\ Cardinality(InProducer \cup QueuedIds) \in Nat
        /\ Cardinality(InProducer \cup QueuedIds) <= p + q
    <3>1. /\ IsFiniteSet(InProducer \cup QueuedIds)
          /\ Cardinality(InProducer \cup QueuedIds)
               = p + q - Cardinality(InProducer \cap QueuedIds)
      BY <1>1, FS_Union
    <3>2. Cardinality(InProducer \cap QueuedIds) \in Nat
      BY <1>1, FS_Intersection, FS_CardinalityType
    <3>3. Cardinality(InProducer \cup QueuedIds) \in Nat
      BY <3>1, FS_CardinalityType
    <3>4. QED
      BY <1>1, <3>1, <3>2, <3>3
  <2> DEFINE pq == InProducer \cup QueuedIds
  <2>2. /\ IsFiniteSet(pq \cup InConsumer)
        /\ Cardinality(pq \cup InConsumer)
             = Cardinality(pq) + c - Cardinality(pq \cap InConsumer)
    BY <1>1, <2>1, FS_Union
  <2>3. Cardinality(pq \cap InConsumer) \in Nat
    BY <1>1, <2>1, FS_Intersection, FS_CardinalityType
  <2>4. Cardinality(pq \cup InConsumer) \in Nat
    BY <2>2, FS_CardinalityType
  <2>5. Resident = pq \cup InConsumer
    BY DEF IInv, Owned
  <2>6. QED
    BY <1>1, <2>1, <2>2, <2>3, <2>4, <2>5
<1>3. queueSize \in Int
  BY QueueSizesAssumption DEF IInv, TypeOK
<1>4. CASE queueSize > 0
  <2>1. MaxSize = queueSize
    BY <1>3, <1>4 DEF MaxSize, AtLeastOne
  <2>2. QED
    BY <1>1, <1>2, <1>3, <1>4, <2>1 DEF DepthBound, PipelineDepth
<1>5. InQueue = {} => q = 0
  BY FS_EmptySet DEF QueuedIds
<1>6. CASE queueSize = 0
  <2>1. MaxSize = 1
    BY <1>6 DEF MaxSize, AtLeastOne
  <2>2. CASE InProducer = {}
    <3>1. p = 0
      BY <2>2, FS_EmptySet
    <3>2. QED
      BY <1>1, <1>2, <1>6, <2>1, <3>1 DEF DepthBound, PipelineDepth
  <2>3. CASE InProducer # {}
    <3>1. InQueue = {}
      BY <1>6, <2>3 DEF IInv, TurnInv, Handshake, InFlow, Holding, InProducer
    <3>2. QED
      BY <1>1, <1>2, <1>5, <1>6, <3>1 DEF DepthBound, PipelineDepth
  <2>4. QED
    BY <2>2, <2>3
<1>7. CASE queueSize < 0
  <2>1. MaxSize = 1
    BY <1>3, <1>7 DEF MaxSize, AtLeastOne
  <2>2. InProducer # {} => InQueue = {} /\ taken = 0
    BY <1>3, <1>7 DEF IInv, TurnInv, Handshake, InFlow, Holding, InProducer
  <2>3. taken # 0 => InQueue = {}
    BY <1>3, <1>7 DEF IInv, TurnInv, Handshake
  <2>4. /\ InProducer = {} => p = 0
        /\ taken = 0 => c = 0
    BY FS_EmptySet DEF InConsumer
  <2>5. p + q + c <= 1
    BY <1>1, <1>5, <2>1, <2>2, <2>3, <2>4
  <2>6. QED
    BY <1>1, <1>2, <1>7, <2>5 DEF DepthBound, PipelineDepth
<1>8. QED
  BY <1>3, <1>4, <1>6, <1>7

(***************************************************************************)
(* For every queue_size, clamped or not, there are never more live device  *)
(* buffers than _planner.pipeline_depth charges to device_memory_budget:   *)
(* one when serial, queue_size + 2 otherwise.  The budget holds while the  *)
(* pipeline runs and while iterate_weights cleans up.                      *)
(***************************************************************************)
THEOREM MemoryBound == Spec => []DepthBound
BY Inductive, DepthFromInv, PTL

-----------------------------------------------------------------------------
\* No two parties own the same batch, since each owns batches of its own range.
LEMMA OwnerFromInv == IInv => SingleOwner
<1> SUFFICES ASSUME IInv PROVE SingleOwner
  OBVIOUS
<1> USE DEF IInv
<1>1. Resident = InProducer \cup QueuedIds \cup InConsumer
  BY DEF Owned
<1>2. ASSUME NEW i \in InQueue
      PROVE  /\ queue[i].id \in Nat
             /\ queue[i].id < batch \/ prod = "reset"
  <2>1. queue[i] \in Items /\ queue[i].kind = "batch"
    BY <1>2 DEF TypeOK, InQueue
  <2>2. queue[i].id \in Batches
    BY <2>1, ItemKinds
  <2>3. QED
    BY <1>2, <2>2 DEF OrderInv, Batches
<1>3. InProducer \cap QueuedIds = {}
  BY <1>2 DEF InProducer, QueuedIds, TypeOK
<1>4. InProducer \cap InConsumer = {}
  BY DEF InProducer, InConsumer, OrderInv, TypeOK
<1>5. QueuedIds \cap InConsumer = {}
  BY <1>2 DEF QueuedIds, InConsumer, OrderInv, TypeOK
<1>6. \A i, j \in InQueue : queue[i].id = queue[j].id => i = j
  <2>1. ASSUME NEW i \in InQueue, NEW j \in InQueue,
               queue[i].id = queue[j].id, i # j
        PROVE  FALSE
    <3>1. i \in Nat /\ j \in Nat
      BY DEF InQueue, TypeOK
    <3>2. i < j \/ j < i
      BY <2>1, <3>1
    <3>3. queue[i].id < queue[j].id \/ queue[j].id < queue[i].id
      BY <3>2 DEF OrderInv
    <3>4. QED
      BY <1>2, <2>1, <3>3
  <2>2. QED
    BY <2>1
<1>7. QED
  BY <1>1, <1>3, <1>4, <1>5, <1>6 DEF SingleOwner

(***************************************************************************)
(* Every live buffer has exactly one owner, which will close it: no batch  *)
(* is freed twice, yielded after it was freed, or forgotten.               *)
(***************************************************************************)
THEOREM Ownership == Spec => []SingleOwner
BY Inductive, OwnerFromInv, PTL

\* When nobody owns anything, nothing is resident.
LEMMA CleanFromInv == IInv => NothingLeftBehind
<1> SUFFICES ASSUME IInv, cons = "done"
             PROVE  prod = "exited" /\ queue = <<>> /\ Resident = {}
  BY DEF NothingLeftBehind
<1> USE DEF IInv
<1>1. prod = "exited" /\ queue = <<>> /\ taken = 0
  BY DEF ConsumerInv
<1>2. InQueue = {}
  BY <1>1 DEF InQueue
<1>3. InProducer = {} /\ QueuedIds = {} /\ InConsumer = {}
  BY <1>1, <1>2 DEF InProducer, QueuedIds, InConsumer
<1>4. QED
  BY <1>1, <1>3 DEF Owned

(***************************************************************************)
(* When iterate_weights is over, however it ended, the producer thread has *)
(* exited, the queue is empty and every device buffer was closed.          *)
(***************************************************************************)
THEOREM CleanEnd == Spec => []NothingLeftBehind
BY Inductive, CleanFromInv, PTL

-----------------------------------------------------------------------------
(***************************************************************************)
(* What PipelineParallel delivers, for every number of batches and every   *)
(* queue_size: batches in order and none lost, copies that see only their  *)
(* own files, and the whole of what iterate_weights promises its caller    *)
(* (BatchDelivery), step by step.                                          *)
(***************************************************************************)

\* The consumer is in its loop and nothing has told it to leave.
Serving ==
    /\ ~stop
    /\ cons \in {"idle", "loop", "yield", "sync"}
          \/ (cons \in {"got", "release"} /\ exc = "none")

\* The batch the consumer will want next from the queue.
Wanted == IF Busy THEN count + 2 ELSE count + 1

Cleaning == cons \in {"stop", "wake", "drain1", "close1", "join", "drain2",
                      "close2", "done"}

\* processed_batches, the tensors yielded and the exception agree.
CountInv ==
    /\ cons \in {"idle", "loop", "got", "yield"} => delivered = count
    /\ cons = "got" => \/ taken = count + 1 /\ exc = "none"
                       \/ taken = 0 /\ exc = "error"
    /\ cons = "sync" => delivered = count + 1
    /\ cons = "release" =>
          delivered = (IF exc = "none" THEN count + 1 ELSE count)
    /\ cons \in {"yield", "release"} => taken = count + 1
    /\ cons \in {"idle", "loop", "yield", "sync"} => exc = "none"
    /\ cons = "except" => exc = "error"
    /\ exc = "exit" => delivered < NumBatches

\* The producer is telling the consumer that a batch failed.
Reporting == prod \in {"offer", "blocked"} /\ item.kind = "error"

\* Where in the queue the report is then: last, or followed by the end marker.
ErrorPlace == IF prod = "exited" THEN Len(queue) - 1 ELSE Len(queue)

\* The queue is the run of batches the consumer wants next, without a gap;
\* an error ends the run and only the end marker may follow it.
Placed ==
    \A i \in 1 .. Len(queue) :
       \/ queue[i].id = Wanted + i - 1
       \/ i > 1 /\ queue[i].kind = "end" /\ queue[i - 1].kind = "error"

\* The producer's batch is the one after the run.
Reached ==
    ~error \/ Reporting =>
       batch = Wanted + Len(queue)
               - (IF prod \in {"reset", "exited"} THEN 1 ELSE 0)

Reported ==
    error /\ ~Reporting => ErrorPlace >= 1 /\ queue[ErrorPlace].kind = "error"

RunInv == Serving => Placed /\ Reached /\ Reported

\* An iteration that leaves its loop without an exception has seen it all.
FinishedInv ==
    Cleaning /\ exc = "none" =>
    /\ count = NumBatches /\ delivered = NumBatches
    /\ ~error
    /\ prod \in {"reset", "loop", "offer", "blocked", "exited"}
    /\ batch = IF prod = "reset" THEN NumBatches ELSE NumBatches + 1

\* Every batch before the producer's was given a buffer, until it skips.
AcquiredInv ==
    \/ prod \in {"add", "wait", "waiting", "woken", "clear", "copy",
                 "copying", "reset", "drop"}
    \/ prod \in {"offer", "blocked"} /\ item.kind = "batch"
    \/ prod \in {"unborn", "loop"} /\ ~stop /\ ~error
    => \A b \in Batches :
          b < batch \/ (b = batch /\ prod = "reset") => buf[b] # "none"

\* The files registered with the loader are those of the producer's batch.
StagedInv ==
    /\ prod \in {"wait", "waiting", "woken", "clear", "copy", "copying"}
          => staged = {batch}
    /\ prod = "add" \/ (prod \in {"unborn", "loop"} /\ ~stop /\ ~error)
          => staged = {}

OInv == CountInv /\ RunInv /\ FinishedInv /\ AcquiredInv /\ StagedInv

-----------------------------------------------------------------------------
\* The constructor starts the count, the queue and the loader empty.
LEMMA InitOInv == Init => OInv
<1> SUFFICES ASSUME Init PROVE OInv
  OBVIOUS
<1> USE NumBatchesAssumption DEF Init, Batches, Busy, EndItem
<1>1. CountInv /\ FinishedInv /\ AcquiredInv /\ StagedInv
  BY DEF CountInv, FinishedInv, AcquiredInv, StagedInv, Cleaning
<1>2. RunInv
  BY DEF RunInv, Placed, Reached, Reported, Serving, Wanted, Reporting
<1>3. QED
  BY <1>1, <1>2 DEF OInv

\* The end marker is told from the others by its id.
LEMMA ItemIds ==
  ASSUME NEW x \in Items
  PROVE  /\ x.kind \in {"batch", "error", "end"}
         /\ x.kind # "end" => x.id \in Batches
         /\ x.kind = "end" => x.id = NumBatches + 1
<1>1. CASE x \in [kind : {"batch", "error"}, id : Batches]
  BY <1>1
<1>2. CASE x = EndItem
  BY <1>2 DEF EndItem
<1>3. QED
  BY <1>1, <1>2 DEF Items

\* A consumer that still has batches to process finds the next one, or its
\* error, at the head of the queue.
LEMMA HeadIsWanted ==
  ASSUME IInv, OInv, cons = "loop", count < NumBatches, queue # <<>>
  PROVE  /\ Head(queue).kind \in {"batch", "error"}
         /\ Head(queue).id = count + 1
         /\ delivered = count
         /\ ~stop
<1>1. /\ Len(queue) \in Nat \ {0}
      /\ Head(queue) = queue[1] /\ Head(queue) \in Items
  BY TailPlaces DEF IInv, TypeOK
<1>2. ~stop /\ Serving
  BY DEF IInv, ConsumerInv, Serving
<1>3. count \in Nat /\ Wanted = count + 1
  BY DEF IInv, TypeOK, Wanted, Busy
<1>4. queue[1].id = count + 1
  BY <1>1, <1>2, <1>3 DEF OInv, RunInv, Placed, Reached, Reported
<1>5. Head(queue).kind # "end"
  BY <1>1, <1>3, <1>4, ItemIds, NumBatchesAssumption
<1>6. QED
  BY <1>1, <1>2, <1>4, <1>5, ItemIds DEF OInv, CountInv

\* Every step of the two threads and of the caller keeps the order.
LEMMA NextOInv == IInv /\ IInv' /\ OInv /\ [Next]_vars => OInv'
<1> SUFFICES ASSUME IInv, IInv', OInv, [Next]_vars PROVE OInv'
  OBVIOUS
<1> USE NumBatchesAssumption
        DEF IInv, OInv, vars, sizes, events, producerVars, consumerVars,
            EndItem, Batches, Busy, Serving, Wanted, Cleaning, Reporting,
            ErrorPlace, ProducerGoes,
            ConsumerGoes, AbandonBatch, PutReturns, Skips, MoreBatches,
            WakeUpCounts, GivesUp, AfterGivingUp, AfterPut, FailureNotice,
            ErrorItem, BatchItem, AfterJoin, Joined, Handshake
<1>1. CASE OfferEnd
  BY <1>1 DEF OfferEnd, TypeOK, LoopInv, ConsumerInv, CountInv, RunInv,
     Placed, Reached, Reported, FailedInv, FinishedInv, AcquiredInv,
     StagedInv
<1>2. CASE SkipBatch
  BY <1>2 DEF SkipBatch, TypeOK, LoopInv, ConsumerInv, CountInv, RunInv,
     Placed, Reached, Reported, FailedInv, FinishedInv, AcquiredInv,
     StagedInv
<1>3. CASE StartBatch
  BY <1>3 DEF StartBatch, TypeOK, LoopInv, ConsumerInv, CountInv, RunInv,
     Placed, Reached, Reported, FailedInv, FinishedInv, AcquiredInv,
     StagedInv
<1>4. CASE AddFilenames
  BY ZenonT(60), <1>4 DEF AddFilenames, TypeOK, LoopInv, ConsumerInv, CountInv, RunInv,
     Placed, Reached, Reported, FailedInv, FinishedInv, AcquiredInv,
     StagedInv
<1>5. CASE WaitCancelled
  BY <1>5 DEF WaitCancelled, TypeOK, LoopInv, ConsumerInv, CountInv,
     RunInv, Placed, Reached, Reported, FailedInv, FinishedInv,
     AcquiredInv, StagedInv
<1>6. CASE WaitBegins
  BY <1>6 DEF WaitBegins, TypeOK, LoopInv, ConsumerInv, CountInv, RunInv,
     Placed, Reached, Reported, FailedInv, FinishedInv, AcquiredInv,
     StagedInv
<1>7. CASE WaitEvent
  BY <1>7 DEF WaitEvent, TypeOK, LoopInv, ConsumerInv, CountInv, RunInv,
     Placed, Reached, Reported, FailedInv, FinishedInv, AcquiredInv,
     StagedInv
<1>8. CASE WokenTooLate
  BY <1>8 DEF WokenTooLate, TypeOK, LoopInv, ConsumerInv, CountInv, RunInv,
     Placed, Reached, Reported, FailedInv, FinishedInv, AcquiredInv,
     StagedInv
<1>9. CASE WokenInTime
  BY <1>9 DEF WokenInTime, TypeOK, LoopInv, ConsumerInv, CountInv, RunInv,
     Placed, Reached, Reported, FailedInv, FinishedInv, AcquiredInv,
     StagedInv
<1>10. CASE ClearProcessed
  BY <1>10 DEF ClearProcessed, TypeOK, LoopInv, ConsumerInv, CountInv,
     RunInv, Placed, Reached, Reported, FailedInv, FinishedInv,
     AcquiredInv, StagedInv
<1>11. CASE BeginCopy
  BY <1>11 DEF BeginCopy, TypeOK, LoopInv, ConsumerInv, CountInv, RunInv,
     Placed, Reached, Reported, FailedInv, FinishedInv, AcquiredInv,
     StagedInv
<1>12. CASE EndCopy
  BY <1>12 DEF EndCopy, TypeOK, LoopInv, ConsumerInv, CountInv, RunInv,
     Placed, Reached, Reported, FailedInv, FinishedInv, AcquiredInv,
     StagedInv
<1>13. CASE CopyRaises
  BY <1>13 DEF CopyRaises, TypeOK, LoopInv, ConsumerInv, CountInv, RunInv,
     Placed, Reached, Reported, FailedInv, FinishedInv, AcquiredInv,
     StagedInv
<1>14. CASE OfferCancelled
  BY <1>14 DEF OfferCancelled, TypeOK, LoopInv, ConsumerInv, CountInv,
     RunInv, Placed, Reached, Reported, FailedInv, FinishedInv,
     AcquiredInv, StagedInv
<1>15. CASE OfferGoesOn
  BY <1>15 DEF OfferGoesOn, TypeOK, LoopInv, ConsumerInv, CountInv, RunInv,
     Placed, Reached, Reported, FailedInv, FinishedInv, AcquiredInv,
     StagedInv
<1>16. CASE Put
  <2>1. CountInv'
    BY <1>16 DEF Put, TypeOK, LoopInv, ConsumerInv, CountInv
  <2>2. RunInv'
    <3>1. /\ Len(queue') = Len(queue) + 1
          /\ \A i \in 1 .. Len(queue) : queue'[i] = queue[i]
          /\ queue'[Len(queue) + 1] = item
          /\ Len(queue) \in Nat
      BY <1>16, AppendPlaces DEF Put, TypeOK
    <3>2. SUFFICES ASSUME Serving' PROVE RunInv'
      BY DEF RunInv, Placed, Reached, Reported
    <3>3. /\ Serving /\ Wanted' = Wanted /\ Wanted \in Nat
          /\ UNCHANGED <<error, item>>
          /\ batch \in Nat /\ prod = "blocked"
          /\ item.kind \in {"batch", "error", "end"} /\ item.id = batch
      BY <1>16, <3>2, ItemIds DEF Put, TypeOK, LoopInv
    <3>4. ~error \/ item.kind = "error" => batch = Wanted + Len(queue)
      BY <3>3 DEF RunInv, Placed, Reached, Reported
    <3>5. error /\ item.kind # "error" =>
             item.kind = "end" /\ Len(queue) >= 1
             /\ queue[Len(queue)].kind = "error"
      BY <3>3 DEF RunInv, Placed, Reached, Reported, FailedInv
    <3>6. \A i \in 1 .. Len(queue') :
             \/ queue'[i].id = Wanted' + i - 1
             \/ i > 1 /\ queue'[i].kind = "end" /\ queue'[i - 1].kind = "error"
      <4>1. ASSUME NEW i \in 1 .. Len(queue)
            PROVE  \/ queue'[i].id = Wanted' + i - 1
                   \/ i > 1 /\ queue'[i].kind = "end"
                      /\ queue'[i - 1].kind = "error"
        <5>1. Placed
          BY <3>3 DEF RunInv
        <5>2. \/ queue[i].id = Wanted + i - 1
              \/ i > 1 /\ queue[i].kind = "end" /\ queue[i - 1].kind = "error"
          BY <5>1 DEF Placed
        <5>3. queue'[i] = queue[i] /\ (i > 1 => queue'[i - 1] = queue[i - 1])
          BY <3>1
        <5>4. QED
          BY <3>3, <5>2, <5>3
      <4>2. CASE ~error \/ item.kind = "error"
        <5>1. queue'[Len(queue) + 1].id = Wanted' + (Len(queue) + 1) - 1
          BY <3>1, <3>3, <3>4, <4>2
        <5>2. \A i \in 1 .. Len(queue') : i \in 1 .. Len(queue) \/ i = Len(queue) + 1
          BY <3>1
        <5>3. QED
          BY <4>1, <5>1, <5>2
      <4>3. CASE error /\ item.kind # "error"
        <5>1. queue'[Len(queue) + 1].kind = "end" /\ Len(queue) \in 1 .. Len(queue)
          BY <3>1, <3>5, <4>3
        <5>2. queue'[Len(queue)].kind = "error"
          BY <3>1, <3>5, <4>3, <5>1
        <5>3. \A i \in 1 .. Len(queue') : i \in 1 .. Len(queue) \/ i = Len(queue) + 1
          BY <3>1
        <5>4. ASSUME NEW i, i = Len(queue) + 1
              PROVE  i > 1 /\ queue'[i].kind = "end" /\ queue'[i - 1].kind = "error"
          <6>1. i > 1 /\ i - 1 = Len(queue)
            BY <3>1, <5>1, <5>4
          <6>2. QED
            BY <5>1, <5>2, <5>4, <6>1
        <5>5. QED
          BY Zenon, <4>1, <5>3, <5>4
      <4>4. QED
        BY <4>2, <4>3
    <3>7. /\ prod' = AfterPut[item.kind]
          /\ batch' = (IF prod' = "loop" THEN batch + 1 ELSE batch)
      BY <1>16 DEF Put
    <3>8. item.kind = "error" => error
      BY <3>3 DEF LoopInv
    <3>9. Placed'
      BY <3>6 DEF Placed
    <3>10. Reached'
      BY <3>1, <3>3, <3>4, <3>7, <3>8 DEF Reached
    <3>11. Reported'
      <4>1. CASE item.kind = "batch"
        BY <3>3, <3>5, <4>1 DEF Reported
      <4>2. CASE item.kind = "error"
        BY <3>1, <3>3, <3>7, <4>2 DEF Reported
      <4>3. CASE item.kind = "end"
        BY <3>1, <3>3, <3>5, <3>7, <4>3 DEF Reported
      <4>4. QED
        BY <3>3, <4>1, <4>2, <4>3
    <3>12. QED
      BY <3>9, <3>10, <3>11 DEF RunInv
  <2>4. FinishedInv'
    BY <1>16 DEF Put, TypeOK, LoopInv, ConsumerInv, FinishedInv
  <2>5. AcquiredInv'
    <3>1. item.kind = "batch" => batch \in Resident
      BY <1>16 DEF Put, Owned, InProducer
    <3>2. QED
      BY <1>16, <3>1, ItemIds DEF Put, Resident, TypeOK, LoopInv, AcquiredInv
  <2>6. StagedInv'
    BY <1>16 DEF Put, TypeOK, LoopInv, ConsumerInv, StagedInv
  <2> QED BY <2>1, <2>2, <2>4, <2>5, <2>6
<1>17. CASE PutTimesOut
  BY <1>17 DEF PutTimesOut, TypeOK, LoopInv, ConsumerInv, CountInv, RunInv,
     Placed, Reached, Reported, FailedInv, FinishedInv, AcquiredInv,
     StagedInv
<1>18. CASE LoaderReset
  BY <1>18 DEF LoaderReset, TypeOK, LoopInv, ConsumerInv, CountInv, RunInv,
     Placed, Reached, Reported, FailedInv, FinishedInv, AcquiredInv,
     StagedInv
<1>19. CASE DropBatch
  <2>1. CountInv'
    BY <1>19 DEF DropBatch, TypeOK, LoopInv, ConsumerInv, CountInv
  <2>2. RunInv'
    BY <1>19 DEF DropBatch, FailedInv, RunInv, Placed, Reached, Reported
  <2>4. FinishedInv'
    BY <1>19 DEF DropBatch, TypeOK, LoopInv, ConsumerInv, FinishedInv
  <2>5. AcquiredInv'
    BY <1>19 DEF DropBatch, TypeOK, LoopInv, ConsumerInv, AcquiredInv
  <2>6. StagedInv'
    BY <1>19 DEF DropBatch, FailedInv, StagedInv
  <2> QED BY <2>1, <2>2, <2>4, <2>5, <2>6
<1>20. CASE Fail
  BY <1>20 DEF Fail, TypeOK, LoopInv, ConsumerInv, CountInv, RunInv,
     Placed, Reached, Reported, FailedInv, FinishedInv, AcquiredInv,
     StagedInv
<1>21. CASE StartIteration
  BY <1>21 DEF StartIteration, TypeOK, LoopInv, ConsumerInv, CountInv,
     RunInv, Placed, Reached, Reported, FailedInv, FinishedInv,
     AcquiredInv, StagedInv
<1>22. CASE Get
  <2>1. CountInv'
    BY <1>22, HeadIsWanted DEF Get, TypeOK, CountInv
  <2>2. RunInv'
    <3>1. /\ Len(queue) \in Nat \ {0}
          /\ Len(queue') = Len(queue) - 1
          /\ \A i \in 1 .. Len(queue) - 1 : queue'[i] = queue[i + 1]
          /\ Head(queue) = queue[1]
      BY <1>22, TailPlaces DEF Get, TypeOK
    <3>2. /\ Head(queue).kind \in {"batch", "error"}
          /\ Head(queue).id = count + 1
          /\ Serving /\ Wanted = count + 1 /\ count \in Nat
      BY <1>22, HeadIsWanted DEF Get, TypeOK
    <3>3. CASE Head(queue).kind = "error"
      BY <1>22, <3>3 DEF Get, RunInv, Placed, Reached, Reported
    <3>4. CASE Head(queue).kind = "batch"
      <4>1. /\ Wanted' = Wanted + 1 /\ ~stop' /\ Wanted \in Nat
            /\ UNCHANGED <<error, prod, batch, item>>
        <5>1. /\ cons' = "got" /\ taken' # 0 /\ UNCHANGED count
              /\ UNCHANGED <<stop, error, prod, batch, item>>
          BY <1>22, <3>2, <3>4 DEF Get
        <5>2. QED
          BY <3>2, <5>1
      <4>2. \A i \in 1 .. Len(queue') :
               \/ queue'[i].id = Wanted' + i - 1
               \/ i > 1 /\ queue'[i].kind = "end"
                  /\ queue'[i - 1].kind = "error"
        <5>1. ASSUME NEW i \in 1 .. Len(queue')
              PROVE  /\ i + 1 \in 1 .. Len(queue)
                     /\ queue'[i] = queue[i + 1]
                     /\ i > 1 => queue'[i - 1] = queue[i]
                     /\ i = 1 => queue[i].kind = "batch"
          BY <3>1, <3>4
        <5>2. ASSUME NEW i \in 1 .. Len(queue')
              PROVE  \/ queue[i + 1].id = Wanted + (i + 1) - 1
                     \/ i + 1 > 1 /\ queue[i + 1].kind = "end"
                        /\ queue[i].kind = "error"
          <6>1. i + 1 \in 1 .. Len(queue) /\ (i + 1) - 1 = i
            BY <5>1
          <6>2. Placed
            BY <3>2 DEF RunInv
          <6>3. QED
            BY <6>1, <6>2 DEF Placed
        <5>4. \A i \in 1 .. Len(queue') : Wanted' + i - 1 = Wanted + (i + 1) - 1
          <6> HIDE DEF Wanted
          <6>1. QED
            BY <3>1, <4>1
        <5> HIDE DEF Wanted
        <5>5. ASSUME NEW i \in 1 .. Len(queue')
              PROVE  \/ queue'[i].id = Wanted' + i - 1
                     \/ i > 1 /\ queue'[i].kind = "end"
                        /\ queue'[i - 1].kind = "error"
          <6>1. CASE queue[i + 1].id = Wanted + (i + 1) - 1
            BY <5>1, <5>4, <6>1
          <6>2. CASE queue[i + 1].kind = "end" /\ queue[i].kind = "error"
            <7>1. i # 1 /\ queue'[i].kind = "end"
              BY <5>1, <6>2
            <7>2. i > 1
              BY <3>1, <7>1
            <7>3. QED
              BY <5>1, <6>2, <7>1, <7>2
          <6>3. QED
            BY <5>2, <6>1, <6>2
        <5>3. QED
          BY <5>5
      <4>3. ErrorPlace' = ErrorPlace - 1 /\ (Reporting' <=> Reporting)
        BY <3>1, <4>1
      <4>4. ASSUME error, ~Reporting
            PROVE  ErrorPlace' >= 1 /\ queue'[ErrorPlace'].kind = "error"
        <5>1. ErrorPlace >= 1 /\ queue[ErrorPlace].kind = "error"
          BY <3>2, <4>4 DEF RunInv, Reported
        <5>2. ErrorPlace # 1 /\ ErrorPlace \in 1 .. Len(queue)
          BY <3>1, <3>4, <5>1
        <5> HIDE DEF ErrorPlace
        <5>3. ErrorPlace - 1 \in 1 .. Len(queue) - 1
              /\ queue'[ErrorPlace - 1] = queue[(ErrorPlace - 1) + 1]
          BY <3>1, <5>1, <5>2
        <5>4. QED
          BY <3>1, <4>3, <5>1, <5>2, <5>3
      <4>5. Placed'
        BY <4>2 DEF Placed
      <4>6. Reached'
        <5>1. Reached /\ batch \in Nat
          BY <3>2 DEF RunInv, TypeOK
        <5> HIDE DEF Wanted
        <5>2. Wanted' + Len(queue') = Wanted + Len(queue)
          <6>1. \A w, l \in Nat : (w + 1) + (l - 1) = w + l
            OBVIOUS
          <6>2. QED
            BY <3>1, <4>1, <6>1
        <5>3. QED
          BY <4>1, <4>3, <5>1, <5>2 DEF Reached
      <4>7. Reported'
        BY <4>1, <4>3, <4>4 DEF Reported
      <4>8. QED
        BY <4>5, <4>6, <4>7 DEF RunInv
    <3>5. QED
      BY <3>2, <3>3, <3>4
  <2>4. FinishedInv'
    BY <1>22, HeadIsWanted DEF Get, FinishedInv
  <2>5. AcquiredInv'
    BY <1>22 DEF Get, TypeOK, LoopInv, ConsumerInv, AcquiredInv
  <2>6. StagedInv'
    BY <1>22 DEF Get, TypeOK, LoopInv, ConsumerInv, StagedInv
  <2> QED BY <2>1, <2>2, <2>4, <2>5, <2>6
<1>37. CASE HandTurn
  BY <1>37 DEF HandTurn, TypeOK, LoopInv, ConsumerInv, CountInv, RunInv,
     Placed, Reached, Reported, FailedInv, FinishedInv, AcquiredInv,
     StagedInv
<1>23. CASE Exhausted
  BY <1>23 DEF Exhausted, TypeOK, LoopInv, ConsumerInv, CountInv, RunInv,
     Placed, Reached, Reported, FailedInv, FinishedInv, AcquiredInv,
     StagedInv
<1>24. CASE TensorRaises
  BY <1>24 DEF TensorRaises, TypeOK, LoopInv, ConsumerInv, CountInv,
     RunInv, Placed, Reached, Reported, FailedInv, FinishedInv,
     AcquiredInv, StagedInv
<1>25. CASE CallerCloses
  BY <1>25 DEF CallerCloses, TypeOK, LoopInv, ConsumerInv, CountInv,
     RunInv, Placed, Reached, Reported, FailedInv, FinishedInv,
     AcquiredInv, StagedInv
<1>26. CASE Release
  BY <1>26 DEF Release, TypeOK, LoopInv, ConsumerInv, CountInv, RunInv,
     Placed, Reached, Reported, FailedInv, FinishedInv, AcquiredInv,
     StagedInv
<1>27. CASE Sync
  BY <1>27 DEF Sync, TypeOK, LoopInv, ConsumerInv, CountInv, RunInv,
     Placed, Reached, Reported, FailedInv, FinishedInv, AcquiredInv,
     StagedInv
<1>28. CASE EndIteration
  <2>1. CountInv'
    BY <1>28 DEF EndIteration, TypeOK, LoopInv, ConsumerInv, CountInv
  <2>2. RunInv'
    BY <1>28 DEF EndIteration, TypeOK, LoopInv, ConsumerInv, RunInv,
       Placed, Reached, Reported
  <2>4. FinishedInv'
    <3>1. Serving /\ Wanted = NumBatches + 1 /\ Len(queue) \in Nat
      BY <1>28 DEF EndIteration, TypeOK, ConsumerInv
    <3>2. ~error
      <4>1. ~Reporting
        BY <3>1, ItemIds DEF RunInv, Placed, Reached, Reported, LoopInv, TypeOK
      <4>2. ASSUME ErrorPlace >= 1, queue[ErrorPlace].kind = "error"
            PROVE  FALSE
        <5>1. ErrorPlace \in 1 .. Len(queue) /\ queue[ErrorPlace] \in Items
          BY <3>1, <4>2 DEF TypeOK
        <5>2. queue[ErrorPlace].id = Wanted + ErrorPlace - 1
          BY <3>1, <4>2, <5>1 DEF RunInv, Placed, Reached, Reported
        <5>3. QED
          BY <3>1, <4>2, <5>1, <5>2, ItemIds
      <4>3. QED
        BY <3>1, <4>1, <4>2 DEF RunInv, Placed, Reached, Reported
    <3>3. batch = NumBatches + 1 + Len(queue)
                  - (IF prod \in {"reset", "exited"} THEN 1 ELSE 0)
      BY <3>1, <3>2 DEF RunInv, Placed, Reached, Reported
    <3>4. batch \in 1 .. NumBatches + 1 /\ prod \in ProducerPoints
      BY DEF TypeOK
    <3>5. /\ prod \in {"reset", "loop", "offer", "blocked", "exited"}
          /\ batch = IF prod = "reset" THEN NumBatches ELSE NumBatches + 1
      BY <1>28, <3>1, <3>3, <3>4 DEF EndIteration, LoopInv, ProducerPoints
    <3>6. QED
      BY <1>28, <3>2, <3>5 DEF EndIteration, CountInv, FinishedInv
  <2>5. AcquiredInv'
    BY <1>28 DEF EndIteration, TypeOK, LoopInv, ConsumerInv, AcquiredInv
  <2>6. StagedInv'
    BY <1>28 DEF EndIteration, TypeOK, LoopInv, ConsumerInv, StagedInv
  <2> QED BY <2>1, <2>2, <2>4, <2>5, <2>6
<1>29. CASE SetStop
  BY <1>29 DEF SetStop, TypeOK, LoopInv, ConsumerInv, CountInv, RunInv,
     Placed, Reached, Reported, FailedInv, FinishedInv, AcquiredInv,
     StagedInv
<1>30. CASE WakeProducer
  BY <1>30 DEF WakeProducer, TypeOK, LoopInv, ConsumerInv, CountInv,
     RunInv, Placed, Reached, Reported, FailedInv, FinishedInv,
     AcquiredInv, StagedInv
<1>31. CASE DrainGet
  BY <1>31 DEF DrainGet, TypeOK, LoopInv, ConsumerInv, CountInv, RunInv,
     Placed, Reached, Reported, FailedInv, FinishedInv, AcquiredInv,
     StagedInv
<1>32. CASE DrainClose
  BY <1>32 DEF DrainClose, TypeOK, LoopInv, ConsumerInv, CountInv, RunInv,
     Placed, Reached, Reported, FailedInv, FinishedInv, AcquiredInv,
     StagedInv
<1>33. CASE DrainEmpty
  BY <1>33 DEF DrainEmpty, TypeOK, LoopInv, ConsumerInv, CountInv, RunInv,
     Placed, Reached, Reported, FailedInv, FinishedInv, AcquiredInv,
     StagedInv
<1>34. CASE Join
  BY <1>34 DEF Join, TypeOK, LoopInv, ConsumerInv, CountInv, RunInv,
     Placed, Reached, Reported, FailedInv, FinishedInv, AcquiredInv,
     StagedInv
<1>35. CASE CloseLoader
  BY <1>35 DEF CloseLoader, TypeOK, LoopInv, ConsumerInv, CountInv, RunInv,
     Placed, Reached, Reported, FailedInv, FinishedInv, AcquiredInv,
     StagedInv
<1>36. CASE UNCHANGED vars
  <2>1. CountInv' /\ FinishedInv' /\ AcquiredInv' /\ StagedInv'
    BY <1>36 DEF CountInv, FinishedInv, AcquiredInv, StagedInv
  <2>2. RunInv'
    BY <1>36 DEF RunInv, Placed, Reached, Reported
  <2> QED BY <2>1, <2>2
<1> QED
  BY <1>1, <1>2, <1>3, <1>4, <1>5, <1>6, <1>7, <1>8, <1>9, <1>10, <1>11,
     <1>12, <1>13, <1>14, <1>15, <1>16, <1>17, <1>18, <1>19, <1>20, <1>21,
     <1>22, <1>23, <1>24, <1>25, <1>26, <1>27, <1>28, <1>29, <1>30, <1>31,
     <1>32, <1>33, <1>34, <1>35, <1>36, <1>37 DEF Next, Producer, Consumer, Caller

-----------------------------------------------------------------------------
\* The two invariants together hold in every state of a behaviour.
LEMMA OrderInductive == Spec => [](IInv /\ OInv)
<1>1. Init => IInv /\ OInv
  BY InitIInv, InitOInv
<1>2. IInv /\ OInv /\ [Next]_vars => (IInv /\ OInv)'
  BY NextIInv, NextOInv
<1>3. QED
  BY <1>1, <1>2, PTL DEF Spec

(***************************************************************************)
(* An iteration that ends without an exception has yielded every tensor of *)
(* every batch and no batch failed: neither the error path of the producer *)
(* nor the end marker can make the consumer stop early in silence.         *)
(***************************************************************************)
THEOREM NothingLost == Spec => []NoSilentLoss
<1>1. OInv => NoSilentLoss
  BY DEF OInv, FinishedInv, Cleaning, NoSilentLoss
<1>2. QED
  BY <1>1, OrderInductive, PTL

(***************************************************************************)
(* copy_files_to_device of a batch sees the files of that batch only: the  *)
(* loader was reset since the batch before, whichever way that one ended.  *)
(***************************************************************************)
THEOREM IsolatedCopies == Spec => []CopyIsolation
<1>1. OInv => CopyIsolation
  BY DEF OInv, StagedInv, CopyIsolation
<1>2. QED
  BY <1>1, OrderInductive, PTL

\* Only the consumer's get takes the head of the queue while it is serving.
LEMMA OnlyGetTakes ==
  ASSUME IInv, [Next]_vars, cons = "loop", queue # <<>>, queue' = Tail(queue)
  PROVE  Get
<1>1. queue' # queue /\ queue' # Append(queue, item)
  <2>1. /\ Len(Tail(queue)) = Len(queue) - 1
        /\ Len(queue) \in Nat
    BY TailPlaces DEF IInv, TypeOK
  <2>2. Len(Append(queue, item)) = Len(queue) + 1
    BY AppendPlaces DEF IInv, TypeOK
  <2>3. \A n \in Nat : n - 1 # n /\ n - 1 # n + 1
    OBVIOUS
  <2>4. QED
    BY <2>1, <2>2, <2>3
<1>2. ASSUME Producer PROVE FALSE
  BY <1>1, <1>2
     DEF Producer, OfferEnd, SkipBatch, StartBatch, AddFilenames,
         WaitCancelled, WaitBegins, WaitEvent, WokenTooLate, WokenInTime,
         ClearProcessed, BeginCopy, EndCopy, CopyRaises, OfferCancelled,
         OfferGoesOn, Put, PutTimesOut, LoaderReset, DropBatch, Fail,
         AbandonBatch
<1>3. ASSUME Caller \/ CloseLoader \/ UNCHANGED vars PROVE FALSE
  BY <1>1, <1>3
     DEF Caller, StartIteration, Exhausted, TensorRaises, CallerCloses,
         CloseLoader, vars
<1>4. CASE Consumer
  BY <1>1, <1>4
     DEF Consumer, HandTurn, Release, Sync, EndIteration, SetStop,
         WakeProducer, DrainGet, DrainClose, DrainEmpty, Join, ConsumerGoes
<1>5. Producer \/ Consumer \/ Caller \/ CloseLoader \/ UNCHANGED vars
  <2>1. Next \/ UNCHANGED vars
    OBVIOUS
  <2>2. QED
    BY <2>1 DEF Next
<1>6. QED
  BY Zenon, <1>2, <1>3, <1>4, <1>5

(***************************************************************************)
(* A serving consumer takes from the queue the batch after the last one it *)
(* delivered, or the report that this very batch failed: no gap, no        *)
(* reordering, and never the end marker in place of a batch.               *)
(***************************************************************************)
THEOREM OrderedDelivery == Spec => InOrder
<1>1. ASSUME IInv, OInv, [Next]_vars, cons = "loop", queue # <<>>,
             queue' = Tail(queue)
      PROVE  Head(queue).kind # "end" /\ Head(queue).id = delivered + 1
  <2>1. Get
    BY <1>1, OnlyGetTakes
  <2>2. QED
    BY <1>1, <2>1, HeadIsWanted DEF Get
<1>2. IInv /\ OInv /\ [Next]_vars =>
         [(cons = "loop" /\ queue # <<>> /\ queue' = Tail(queue))
            => /\ Head(queue).kind # "end"
               /\ Head(queue).id = delivered + 1]_vars
  BY <1>1
<1>3. QED
  BY <1>2, OrderInductive, PTL DEF Spec, InOrder

-----------------------------------------------------------------------------
\* The producer after it has seen stop_event, or will see it before it copies.
Halted ==
    /\ stop
    /\ \/ prod \in {"loop", "wait", "waiting", "woken", "exited"}
       \/ prod \in {"offer", "blocked"} /\ item.kind = "end"

\* No step takes a halted producer back to work.
LEMMA HaltedStays == IInv /\ Halted /\ [Next]_vars => Halted'
<1> SUFFICES ASSUME IInv, Halted, [Next]_vars PROVE Halted'
  OBVIOUS
<1> USE DEF Halted, ProducerGoes, ConsumerGoes, consumerVars, events
<1>1. CASE Producer
  <2> USE DEF producerVars
  <2>1. CASE OfferEnd
    BY <2>1 DEF OfferEnd, EndItem
  <2>2. CASE SkipBatch
    BY <2>2 DEF SkipBatch
  <2>3. CASE WaitCancelled \/ WokenTooLate
    BY <2>3 DEF WaitCancelled, WokenTooLate, AbandonBatch
  <2>4. CASE WaitBegins \/ WaitEvent
    BY <2>4 DEF WaitBegins, WaitEvent
  <2>5. CASE OfferCancelled
    BY <2>5 DEF OfferCancelled, PutReturns, AfterGivingUp
  <2>6. CASE OfferGoesOn \/ PutTimesOut
    BY <2>6 DEF OfferGoesOn, PutTimesOut
  <2>7. CASE Put
    BY <2>7 DEF Put, PutReturns, AfterPut
  <2>8. ASSUME \/ StartBatch \/ AddFilenames \/ WokenInTime
               \/ ClearProcessed \/ BeginCopy \/ EndCopy \/ CopyRaises
               \/ LoaderReset \/ DropBatch \/ Fail
        PROVE  FALSE
    BY <2>8 DEF StartBatch, Skips, AddFilenames, WokenInTime, WakeUpCounts,
                ClearProcessed, BeginCopy, EndCopy, CopyRaises, LoaderReset,
                DropBatch, Fail
  <2>9. QED
    BY <1>1, <2>1, <2>2, <2>3, <2>4, <2>5, <2>6, <2>7, <2>8
       DEF Producer
<1>2. CASE Consumer
  BY <1>2
     DEF Consumer, Get, HandTurn, Release, Sync, EndIteration, SetStop,
         WakeProducer, DrainGet, DrainClose, DrainEmpty, Join, producerVars
<1>3. CASE Caller
  BY <1>3
     DEF Caller, StartIteration, Exhausted, TensorRaises, CallerCloses,
         producerVars, IInv, LoopInv
<1>4. CASE CloseLoader \/ UNCHANGED vars
  BY <1>4 DEF CloseLoader, vars, producerVars
<1>5. QED
  BY <1>1, <1>2, <1>3, <1>4 DEF Next

(***************************************************************************)
(* Once stop_event is set, a producer at a check of it (the loop and the   *)
(* wait for its turn) never allocates another buffer, on any schedule.     *)
(***************************************************************************)
THEOREM StopHolds == Spec => NoWorkAfterStop
<1>1. stop /\ prod \in {"loop", "wait", "waiting", "woken"} => Halted
  BY DEF Halted
<1>2. Halted => prod # "copying"
  BY DEF Halted
<1>3. QED
  BY <1>1, <1>2, HaltedStays, Inductive, PTL DEF Spec, NoWorkAfterStop

-----------------------------------------------------------------------------
(* The refinement of BatchDelivery: what the caller sees is a behaviour of *)
(* the promise, every step of the threads being one of its steps or none.  *)

\* What the caller sees is a function of these.
Seen == <<queueSize, buf, Current, delivered, Outcome>>

\* A step the caller does not see is a stuttering step of the promise.
LEMMA UnseenStutters ==
  ASSUME UNCHANGED Seen
  PROVE  UNCHANGED Promise!vars
BY DEF Seen, Promise!vars, PipelineDepth, Resident, Acquired

\* Closing a live buffer that is not being yielded is a discard.
LEMMA CloseDiscards ==
  ASSUME IInv, NEW b \in Resident, b # Current,
         buf' = [buf EXCEPT ![b] = "closed"],
         UNCHANGED <<queueSize, Current, delivered, Outcome>>
  PROVE  Promise!Next
<1>1. b \in Batches /\ buf[b] = "live" /\ DOMAIN buf = Batches
  BY DEF Resident, IInv, TypeOK
<1>2. Acquired' = Acquired
  BY <1>1 DEF Acquired, Batches
<1>3. Resident' = Resident \ {b}
  BY <1>1 DEF Resident, Batches
<1>4. b \in Resident \ {Current}
  OBVIOUS
<1>5. PipelineDepth' = PipelineDepth
  BY DEF PipelineDepth
<1>6. Promise!Discard
  BY <1>2, <1>3, <1>4, <1>5 DEF Promise!Discard
<1>7. QED
  BY <1>6 DEF Promise!Next

\* Both modules count with the same operator.
LEMMA SameCardinality == \A S : Promise!Cardinality(S) = Cardinality(S)
BY DEF Cardinality, Promise!Cardinality, IsFiniteSet, Promise!IsFiniteSet

\* copy_files_to_device brings the next batch to the device, within the depth.
LEMMA CopyAcquires ==
  ASSUME IInv, DepthBound', OInv, BeginCopy
  PROVE  Promise!Next
<1> USE NumBatchesAssumption
<1>1. /\ prod = "copy" /\ batch \in Batches /\ batch \in Nat \ {0}
      /\ buf[batch] = "none" /\ buf' = [buf EXCEPT ![batch] = "live"]
      /\ DOMAIN buf = Batches
      /\ UNCHANGED <<queueSize, cons, taken, delivered, exc>>
  BY DEF BeginCopy, ProducerGoes, sizes, consumerVars, IInv, TypeOK, LoopInv,
         OrderInv, Batches
<1>2. Acquired = 1 .. batch - 1 /\ Acquired' = 1 .. batch
  <2>1. \A b \in Batches : buf[b] # "none" <=> b < batch
    BY <1>1 DEF IInv, TypeOK, OrderInv, OInv, AcquiredInv, Batches
  <2>2. \A b \in Batches : buf'[b] # "none" <=> b <= batch
    BY <1>1, <2>1 DEF Batches
  <2>3. QED
    BY <1>1, <2>1, <2>2 DEF Acquired, Batches
<1>3. /\ Cardinality(Acquired) = batch - 1
      /\ Cardinality(Acquired)' = batch
  <2>1. batch - 1 \in Nat
    BY <1>1
  <2>2. \A n \in Nat : Cardinality(1 .. n) = n
    <3>1. TAKE n \in Nat
    <3>2. Cardinality(1 .. n) = IF 1 > n THEN 0 ELSE n - 1 + 1
      BY FS_Interval
    <3>3. QED
      BY <3>2
  <2>3. QED
    BY <1>1, <1>2, <2>1, <2>2
<1>4. Resident' = Resident \cup {batch} /\ batch \notin Resident
  BY <1>1 DEF Resident, Batches
<1>5. Cardinality(Resident) < PipelineDepth
  <2>1. IsFiniteSet(Resident)
    <3>1. IsFiniteSet(Batches)
      BY FS_Interval DEF Batches
    <3>2. QED
      BY <3>1, FS_Subset DEF Resident
  <2>2. Cardinality(Resident') = Cardinality(Resident) + 1
    BY <1>4, <2>1, FS_AddElement
  <2>3. Cardinality(Resident') <= PipelineDepth'
    BY DEF DepthBound
  <2>4. /\ PipelineDepth' = PipelineDepth /\ PipelineDepth \in Int
        /\ Cardinality(Resident) \in Nat
    BY <1>1, <2>1, FS_CardinalityType, QueueSizesAssumption
       DEF PipelineDepth, IInv, TypeOK
  <2>5. QED
    BY <2>2, <2>3, <2>4
<1>6. cons # "done"
  BY <1>1 DEF IInv, ConsumerInv
<1>7. Promise!Acquire
  <2>1. /\ batch - 1 < NumBatches /\ batch = (batch - 1) + 1
        /\ PipelineDepth' = PipelineDepth
        /\ Current' = Current /\ Outcome' = Outcome /\ Outcome = "running"
    BY <1>1, <1>6 DEF PipelineDepth, Current, Outcome, Batches
  <2>2. QED
    BY <1>1, <1>3, <1>4, <1>5, <2>1, SameCardinality
       DEF Promise!Acquire
<1>8. QED
  BY <1>7 DEF Promise!Next

\* A batch taken from the queue is the next one to serve; the error of one is
\* not seen until the iteration has ended.
LEMMA GetServes ==
  ASSUME IInv, OInv, Get
  PROVE  Promise!Next \/ UNCHANGED Seen
<1>1. /\ cons = "loop" /\ count < NumBatches /\ queue # <<>>
      /\ Head(queue).kind \in {"batch", "error"}
      /\ Head(queue).id = delivered + 1
      /\ UNCHANGED <<queueSize, buf, delivered>>
  BY HeadIsWanted DEF Get, ConsumerGoes, sizes
<1>2. CASE Head(queue).kind = "error"
  BY <1>1, <1>2 DEF Get, ConsumerGoes, Seen, Current, Outcome, IInv, ConsumerInv
<1>3. CASE Head(queue).kind = "batch"
  <2>1. Current = 0 /\ Current' = delivered + 1
    BY <1>1, <1>3 DEF Get, ConsumerGoes, Current
  <2>2. Outcome = "running" /\ Outcome' = Outcome
    BY <1>1, <1>3 DEF Get, ConsumerGoes, Outcome
  <2>3. Acquired' = Acquired /\ Resident' = Resident
        /\ PipelineDepth' = PipelineDepth
    BY <1>1 DEF Acquired, Resident, PipelineDepth
  <2>4. /\ 1 \in InQueue /\ queue[1] = Head(queue)
        /\ InConsumer = {}
    BY <1>1, <1>3, TailPlaces
       DEF IInv, TypeOK, ConsumerInv, InQueue, InConsumer
  <2>5. delivered + 1 \in Resident
    BY <1>1, <2>4 DEF IInv, Owned, QueuedIds
  <2>6. ASSUME NEW b \in Resident PROVE b > delivered
    <3>1. queue[1].id < batch \/ (prod = "reset" /\ queue[1].id = batch)
      BY <2>4 DEF IInv, OrderInv
    <3>2. b \in InProducer => b > delivered
      BY <1>1, <2>4, <3>1 DEF InProducer, IInv, TypeOK
    <3>3. b \in QueuedIds => b > delivered
      <4>1. ASSUME NEW i \in InQueue PROVE queue[i].id > delivered
        <5>1. i \in 1 .. Len(queue) /\ queue[i] \in Items
              /\ queue[i].kind = "batch"
          BY DEF InQueue, IInv, TypeOK
        <5>2. queue[i].id \in Nat
          BY <5>1, ItemIds DEF Batches
        <5>3. i = 1 \/ queue[1].id < queue[i].id
          BY <2>4, <5>1 DEF IInv, OrderInv
        <5>4. QED
          BY <1>1, <2>4, <5>2, <5>3 DEF IInv, TypeOK
      <4>2. QED
        BY <4>1 DEF QueuedIds
    <3>4. QED
      BY <2>4, <3>2, <3>3 DEF IInv, Owned
  <2>7. Promise!Serve
    BY <1>1, <2>1, <2>2, <2>3, <2>5, <2>6 DEF Promise!Serve
  <2>8. QED
    BY <2>7 DEF Promise!Next
<1>4. QED
  BY <1>1, <1>2, <1>3

\* The caller leaves the batch it was served, at its end or before it.
LEMMA CallerLeaves ==
  ASSUME IInv, OInv, Exhausted \/ TensorRaises \/ CallerCloses
  PROVE  Promise!Next
<1>1. /\ cons = "yield" /\ cons' = "release"
      /\ taken = delivered + 1 /\ taken # 0
      /\ delivered' \in {delivered, delivered + 1}
      /\ UNCHANGED <<queueSize, buf>>
  BY DEF Exhausted, TensorRaises, CallerCloses, ConsumerGoes, sizes, OInv,
         CountInv, IInv, ConsumerInv
<1>2. /\ Current = delivered + 1 /\ Current # 0 /\ Current' = 0
      /\ Outcome' = Outcome
  BY <1>1 DEF Current, Outcome
<1>3. /\ Acquired' = Acquired /\ Resident' = Resident
      /\ PipelineDepth' = PipelineDepth
  BY <1>1 DEF Acquired, Resident, PipelineDepth
<1>4. Promise!Leave
  BY <1>1, <1>2, <1>3 DEF Promise!Leave
<1>5. QED
  BY <1>4 DEF Promise!Next

\* Every close of the code is of a live buffer that is not being yielded.
LEMMA ClosesDiscard ==
  ASSUME IInv, CopyRaises \/ DropBatch \/ Release \/ DrainClose
  PROVE  Promise!Next
<1>1. CASE CopyRaises \/ DropBatch
  <2>1. prod \in {"copying", "drop"} /\ prod' # "exited"
        /\ buf' = [buf EXCEPT ![batch] = "closed"]
        /\ UNCHANGED <<queueSize, cons, taken, delivered, exc>>
    BY <1>1 DEF CopyRaises, DropBatch, ProducerGoes, sizes, consumerVars
  <2>2. batch \in Resident /\ batch \notin InConsumer
    BY <2>1, OwnerFromInv DEF IInv, Owned, InProducer, SingleOwner
  <2>3. batch # Current
    BY <2>1, <2>2 DEF Current, InConsumer, Resident, Batches
  <2>4. Current' = Current /\ Outcome' = Outcome
    BY <2>1 DEF Current, Outcome
  <2>5. QED
    BY <2>1, <2>2, <2>3, <2>4, CloseDiscards
<1>2. CASE Release \/ DrainClose
  <2>1. /\ cons \in {"release", "close1", "close2"}
        /\ cons' \notin {"got", "yield", "done"}
        /\ buf' = [buf EXCEPT ![taken] = "closed"]
        /\ UNCHANGED <<queueSize, delivered>>
    BY <1>2 DEF Release, DrainClose, ConsumerGoes, sizes, IInv, TypeOK
  <2>2. taken \in Resident /\ taken # 0
    BY <2>1 DEF IInv, ConsumerInv, Owned, InConsumer
  <2>3. Current = 0 /\ Current' = 0 /\ Outcome' = Outcome
    BY <2>1 DEF Current, Outcome
  <2>4. QED
    BY <2>1, <2>2, <2>3, CloseDiscards
<1>3. QED
  BY <1>1, <1>2

\* The last drain finds the queue empty: the iteration is over.
LEMMA DrainEnds ==
  ASSUME IInv, OInv, NothingLeftBehind', DrainEmpty
  PROVE  Promise!Next \/ UNCHANGED Seen
<1>1. /\ cons \in {"drain1", "drain2"}
      /\ cons' = (IF cons = "drain1" THEN "join" ELSE "done")
      /\ UNCHANGED <<queueSize, buf, taken, delivered, exc>>
  BY DEF DrainEmpty, ConsumerGoes, sizes
<1>2. Current' = 0 /\ Current = 0 /\ Outcome = "running"
  BY <1>1 DEF Current, Outcome
<1>3. CASE cons = "drain1"
  BY <1>1, <1>2, <1>3 DEF Seen, Outcome
<1>4. CASE cons = "drain2"
  <2>1. /\ Resident' = Resident /\ Resident' = {}
        /\ Acquired' = Acquired /\ PipelineDepth' = PipelineDepth
    BY <1>1, <1>4 DEF NothingLeftBehind, Resident, Acquired, PipelineDepth
  <2>2. \/ exc = "none" /\ Outcome' = "complete" /\ delivered = NumBatches
        \/ exc = "exit" /\ Outcome' = "closed" /\ delivered < NumBatches
        \/ exc = "error" /\ Outcome' = "failed"
    BY <1>1, <1>4 DEF IInv, TypeOK, OInv, CountInv, FinishedInv, Cleaning,
                      Outcome
  <2>3. Promise!End
    BY <1>1, <1>2, <2>1, <2>2 DEF Promise!End
  <2>4. QED
    BY <2>3 DEF Promise!Next
<1>5. QED
  BY <1>1, <1>3, <1>4

\* The other steps are the threads' own.
LEMMA OthersUnseen ==
  ASSUME \/ Producer /\ ~(BeginCopy \/ CopyRaises \/ DropBatch)
         \/ StartIteration \/ HandTurn \/ Sync \/ EndIteration \/ SetStop
         \/ WakeProducer \/ DrainGet \/ Join \/ CloseLoader
         \/ UNCHANGED vars
  PROVE  UNCHANGED Seen
<1> USE DEF Seen, sizes, consumerVars
<1>1. CASE Producer /\ ~(BeginCopy \/ CopyRaises \/ DropBatch)
  <2>1. UNCHANGED <<queueSize, buf, cons, taken, delivered, exc>>
    BY <1>1
       DEF Producer, OfferEnd, SkipBatch, StartBatch, AddFilenames,
           WaitCancelled, WaitBegins, WaitEvent, WokenTooLate, WokenInTime,
           ClearProcessed, EndCopy, OfferCancelled, OfferGoesOn, Put,
           PutTimesOut, LoaderReset, Fail, AbandonBatch, PutReturns
  <2>2. QED
    BY <2>1 DEF Current, Outcome
<1>2. CASE StartIteration \/ Sync \/ EndIteration \/ SetStop \/ WakeProducer
           \/ DrainGet \/ Join
  <2>1. /\ cons \notin {"got", "yield", "done"}
        /\ cons' \notin {"got", "yield", "done"}
        /\ UNCHANGED <<queueSize, buf, delivered>>
    BY <1>2
       DEF StartIteration, Sync, EndIteration, SetStop, WakeProducer,
           DrainGet, Join, ConsumerGoes, AfterJoin
  <2>2. QED
    BY <2>1 DEF Current, Outcome
<1>3. CASE CloseLoader \/ UNCHANGED vars
  BY <1>3 DEF CloseLoader, vars, Current, Outcome
<1>5. CASE HandTurn
  BY <1>5 DEF HandTurn, Current, Outcome
<1>4. QED
  BY <1>1, <1>2, <1>3, <1>5

(***************************************************************************)
(* The two threads, the queue, the events and the cleanup implement what   *)
(* iterate_weights promises its caller: batches acquired in order within   *)
(* the planned depth, served in order from live buffers, an end that       *)
(* leaves nothing on the device and says how the iteration went.           *)
(***************************************************************************)
THEOREM PromiseKept == Spec => KeepsPromise
<1>1. Init => Promise!Init
  <2> SUFFICES ASSUME Init PROVE Promise!Init
    OBVIOUS
  <2>1. PipelineDepth \in Nat
    BY QueueSizesAssumption DEF Init, PipelineDepth
  <2>2. Acquired = {} /\ Resident = {} /\ Current = 0 /\ Outcome = "running"
    BY DEF Init, Acquired, Resident, Current, Outcome
  <2>3. Cardinality(Acquired) = 0
    BY <2>2, FS_EmptySet
  <2>4. QED
    BY <2>1, <2>2, <2>3 DEF Init, Promise!Init
<1>2. IInv /\ OInv /\ DepthBound' /\ NothingLeftBehind' /\ [Next]_vars
         => [Promise!Next]_(Promise!vars)
  <2> SUFFICES ASSUME IInv, OInv, DepthBound', NothingLeftBehind',
                      [Next]_vars
               PROVE  Promise!Next \/ UNCHANGED Seen
    BY UnseenStutters
  <2>1. CASE Producer
    BY <2>1, CopyAcquires, ClosesDiscard, OthersUnseen
  <2>2. CASE Consumer
    BY <2>2, GetServes, ClosesDiscard, DrainEnds, OthersUnseen DEF Consumer
  <2>3. CASE Caller
    BY <2>3, CallerLeaves, OthersUnseen DEF Caller
  <2>4. CASE CloseLoader \/ UNCHANGED vars
    BY <2>4, OthersUnseen
  <2>5. QED
    BY <2>1, <2>2, <2>3, <2>4 DEF Next
<1>3. QED
  BY <1>1, <1>2, OrderInductive, MemoryBound, CleanEnd, PTL
     DEF Spec, KeepsPromise, Promise!Spec

=============================================================================
