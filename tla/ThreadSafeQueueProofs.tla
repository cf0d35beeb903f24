----------------------- MODULE ThreadSafeQueueProofs -----------------------
(***************************************************************************)
(* Proofs about ThreadSafeQueue for any number of producers and consumers, *)
(* any capacity and any batch size: type correctness, first-in first-out   *)
(* order, the capacity bound, the absence of lost wakeups, and that an     *)
(* empty result really is the end of the stream.                           *)
(***************************************************************************)
EXTENDS ThreadSafeQueue, FiniteSetTheorems, SequenceTheorems, TLAPS

USE DEF Threads, Outside, Pops

------------------------------------------------------------------------------
(* Type correctness.                                                        *)

PCs == {"ready", "asleep"} \cup Outside

\* A thread inside push has counted its call, so its item is an item.
CallsCounted == \A p \in Producers : pc[p] \in {"ready", "asleep"} => pushes[p] >= 1

\* notify_one and notify_all leave pc a function from threads to locations, and
\* disturb nobody outside the notified group.
LEMMA NotifyType ==
    ASSUME NEW group \in SUBSET Threads, NEW left \in [Threads -> PCs],
           NotifyOne(group, left) \/ NotifyAll(group, left)
    PROVE  /\ pc' \in [Threads -> PCs]
           /\ \A t \in Threads : pc'[t] = left[t] \/ (t \in Asleep(group) /\ pc'[t] = "ready")
BY DEF NotifyOne, NotifyAll, Asleep, PCs

LEMMA ConcatRegroups ==
    \A S : \A a, b, c \in Seq(S) : (a \o b) \o c = a \o (b \o c)
BY ConcatAssociative

\* Taking the n oldest items moves them, in order, from the queue to the
\* received items.
LEMMA TakeMoves ==
    ASSUME TypeOK, NEW n \in 1 .. Len(queue), Take(n)
    PROVE  /\ queue' \in Seq(Items) /\ received' \in Seq(Items)
           /\ Len(queue') = Len(queue) - n
           /\ Len(received') = Len(received) + n
           /\ received' \o queue' = received \o queue
<1> DEFINE front == SubSeq(queue, 1, n)
           rest  == SubSeq(queue, n + 1, Len(queue))
<1>1. queue \in Seq(Items) /\ received \in Seq(Items) /\ Len(queue) \in Nat
  BY LenProperties DEF TypeOK
<1>2. \A i \in 1 .. Len(queue) : queue[i] \in Items
  BY <1>1, ElementOfSeq
<1>3. front \in Seq(Items) /\ Len(front) = n
  <2>1. \A i \in 1 .. n : queue[i] \in Items
    BY <1>1, <1>2
  <2> QED BY <2>1, SubSeqProperties
<1>4. rest \in Seq(Items) /\ Len(rest) = Len(queue) - n
  <2>1. \A i \in n + 1 .. Len(queue) : queue[i] \in Items
    BY <1>1, <1>2
  <2>2. rest \in Seq(Items)
        /\ Len(rest) = IF n + 1 <= Len(queue) THEN Len(queue) - (n + 1) + 1 ELSE 0
    BY <2>1, <1>1, SubSeqProperties
  <2> QED BY <2>2, <1>1
<1>5. front \o rest = queue
  <2>1. front \o rest = SubSeq(queue, 1, Len(queue))
    BY <1>1, ConcatAdjacentSubSeq
  <2> QED BY <2>1, <1>1, SubSeqFull
<1>6. (received \o front) \o rest = received \o queue
  <2> HIDE DEF front, rest
  <2>1. \A a, b \in Seq(Items) : (received \o a) \o b = received \o (a \o b)
    BY <1>1, ConcatRegroups
  <2>2. front \in Seq(Items) /\ rest \in Seq(Items)
    BY <1>3, <1>4
  <2> QED BY <2>1, <2>2, <1>5, Zenon
<1>7. received \o front \in Seq(Items) /\ Len(received \o front) = Len(received) + n
  BY <1>1, <1>3, ConcatProperties
<1> QED BY <1>3, <1>4, <1>6, <1>7 DEF Take

\* pop_batch takes at least one item and no more than there are.
LEMMA BatchSizeInRange ==
    ASSUME TypeOK, queue # <<>>
    PROVE  BatchSize \in 1 .. Len(queue)
<1>1. Len(queue) \in Nat /\ Len(queue) # 0
  BY EmptySeq, LenProperties DEF TypeOK
<1> QED BY <1>1, QueueAssumption DEF BatchSize

LEMMA InitTypes == Init => TypeOK /\ CallsCounted
<1> SUFFICES ASSUME Init PROVE TypeOK /\ CallsCounted
  OBVIOUS
<1>1. queue \in Seq(Items) /\ sent \in Seq(Items) /\ received \in Seq(Items)
  BY EmptySeq DEF Init
<1>2. pushes \in [Producers -> 0 .. MaxPushes]
  BY QueueAssumption DEF Init
<1> QED BY <1>1, <1>2 DEF Init, TypeOK, CallsCounted

LEMMA NextTypes == TypeOK /\ CallsCounted /\ [Next]_vars => TypeOK' /\ CallsCounted'
<1> SUFFICES ASSUME TypeOK, CallsCounted, [Next]_vars
             PROVE  TypeOK' /\ CallsCounted'
  OBVIOUS
<1>0. pc \in [Threads -> PCs] /\ Producers \cap Consumers = {}
  BY QueueAssumption DEF TypeOK, PCs
<1>1. ASSUME NEW p \in Producers, CallPush(p) PROVE TypeOK' /\ CallsCounted'
  <2>1. pushes[p] \in 0 .. MaxPushes /\ pushes[p] + 1 \in 0 .. MaxPushes
    BY <1>1, QueueAssumption DEF CallPush, TypeOK
  <2> QED BY <1>0, <1>1, <2>1 DEF CallPush, TypeOK, CallsCounted, PCs
<1>2. ASSUME NEW p \in Producers, PushWaits(p) PROVE TypeOK' /\ CallsCounted'
  BY <1>0, <1>2 DEF PushWaits, Sleep, TypeOK, CallsCounted, PCs
<1>3. ASSUME NEW p \in Producers, PushThrows(p) PROVE TypeOK' /\ CallsCounted'
  BY <1>0, <1>3 DEF PushThrows, Left, TypeOK, CallsCounted, PCs
<1>4. ASSUME NEW p \in Producers, Push(p) PROVE TypeOK' /\ CallsCounted'
  <2> DEFINE item == <<p, pushes[p]>>
  <2>1. item \in Items
    BY <1>4, QueueAssumption DEF Push, TypeOK, CallsCounted, Items
  <2>2. Append(queue, item) \in Seq(Items) /\ Append(sent, item) \in Seq(Items)
    BY <2>1, AppendProperties DEF TypeOK
  <2>3. Left(p, "idle") \in [Threads -> PCs]
    BY <1>0 DEF Left, PCs
  <2>4. /\ pc' \in [Threads -> PCs]
        /\ \A q \in Producers : pc'[q] = Left(p, "idle")[q]
    BY <1>0, <1>4, <2>3, NotifyType DEF Push, Asleep
  <2> QED BY <1>0, <1>4, <2>2, <2>4 DEF Push, Left, TypeOK, CallsCounted, PCs
<1>5. ASSUME NEW c \in Consumers, CallPop(c) PROVE TypeOK' /\ CallsCounted'
  BY <1>0, <1>5 DEF CallPop, TypeOK, CallsCounted, PCs
<1>6. ASSUME NEW c \in Consumers, PopWaits(c) PROVE TypeOK' /\ CallsCounted'
  BY <1>0, <1>6 DEF PopWaits, Sleep, TypeOK, CallsCounted, PCs
<1>7. ASSUME NEW c \in Consumers, EndOfStream(c) PROVE TypeOK' /\ CallsCounted'
  BY <1>0, <1>7 DEF EndOfStream, Left, TypeOK, CallsCounted, PCs
<1>8. ASSUME NEW c \in Consumers, Pop(c) \/ PopBatch(c) PROVE TypeOK' /\ CallsCounted'
  <2>1. Left(c, "idle") \in [Threads -> PCs]
    BY <1>0 DEF Left, PCs
  <2>2. /\ pc' \in [Threads -> PCs]
        /\ \A t \in Threads : pc'[t] = Left(c, "idle")[t]
                              \/ (t \in Asleep(Producers) /\ pc'[t] = "ready")
    BY <1>8, <2>1, NotifyType DEF Pop, PopBatch
  <2>3. CallsCounted'
    BY <1>0, <1>8, <2>2 DEF Pop, PopBatch, Left, Asleep, CallsCounted
  <2>4. PICK n \in 1 .. Len(queue) : Take(n)
    <3>1. 1 \in 1 .. Len(queue)
      BY <1>8, EmptySeq, LenProperties DEF TypeOK, Pop, PopBatch
    <3> QED BY <1>8, <3>1, BatchSizeInRange DEF Pop, PopBatch
  <2>5. queue' \in Seq(Items) /\ received' \in Seq(Items)
    BY <2>4, TakeMoves
  <2> QED BY <1>8, <2>2, <2>3, <2>5 DEF Pop, PopBatch, TypeOK, PCs
<1>9. ASSUME NEW t \in Threads, SpuriousWakeup(t) PROVE TypeOK' /\ CallsCounted'
  BY <1>0, <1>9 DEF SpuriousWakeup, TypeOK, CallsCounted, PCs
<1>10. CASE Close
  <2>1. /\ pc' \in [Threads -> PCs]
        /\ \A t \in Threads : pc'[t] = pc[t] \/ (t \in Asleep(Threads) /\ pc'[t] = "ready")
    BY <1>0, <1>10, NotifyType DEF Close
  <2> QED BY <1>10, <2>1 DEF Close, Asleep, TypeOK, CallsCounted, PCs
<1>11. CASE UNCHANGED vars
  BY <1>11 DEF vars, TypeOK, CallsCounted
<1> QED BY <1>1, <1>2, <1>3, <1>4, <1>5, <1>6, <1>7, <1>8, <1>9, <1>10, <1>11
        DEF Next, ProducerStep, ConsumerStep

\* Every variable keeps its type, whatever the constants.
THEOREM TypeCorrect == Spec => []TypeOK
<1>1. Spec => [](TypeOK /\ CallsCounted)
  BY InitTypes, NextTypes, PTL DEF Spec
<1> QED BY <1>1, PTL

------------------------------------------------------------------------------
(* Order, capacity and end of stream.                                       *)

Bounded == Len(queue) <= Capacity

Contents == TypeOK /\ CallsCounted /\ Fifo /\ Bounded

\* What the steps that touch the queue do to its contents.
LEMMA PushContents ==
    ASSUME Contents, NEW p \in Producers, Push(p)
    PROVE  /\ Fifo' /\ Bounded'
           /\ Len(queue') = Len(queue) + 1 /\ Len(sent) = Len(received) + Len(queue)
           /\ \E item \in Items : sent' = Append(sent, item)
<1> DEFINE item == <<p, pushes[p]>>
<1>1. item \in Items
  BY QueueAssumption DEF Push, Contents, TypeOK, CallsCounted, Items
<1>2. queue' = Append(queue, item) /\ sent' = Append(sent, item) /\ received' = received
  BY DEF Push
<1> HIDE DEF item
<1>3. queue \in Seq(Items) /\ received \in Seq(Items) /\ sent = received \o queue
  BY DEF Contents, TypeOK, Fifo
<1>4. sent \in Seq(Items) /\ <<item>> \in Seq(Items)
  BY <1>1 DEF Contents, TypeOK
<1>5. sent \o <<item>> = received \o (queue \o <<item>>)
  BY <1>3, <1>4, ConcatRegroups
<1>6. sent' = sent \o <<item>> /\ queue' = queue \o <<item>>
  BY <1>1, <1>2, <1>3, <1>4, AppendIsConcat
<1>7. Fifo'
  BY <1>2, <1>5, <1>6 DEF Fifo
<1>8. Len(queue') = Len(queue) + 1 /\ Len(queue) \in Nat
  BY <1>1, <1>2, <1>3, AppendProperties, LenProperties
<1>9. Bounded'
  BY <1>8, QueueAssumption DEF Push, NotFull, Bounded
<1>10. Len(sent) = Len(received) + Len(queue)
  BY <1>3, ConcatProperties
<1> QED BY <1>1, <1>2, <1>7, <1>8, <1>9, <1>10

LEMMA TakeContents ==
    ASSUME Contents, NEW n \in 1 .. Len(queue), Take(n), sent' = sent
    PROVE  /\ Fifo' /\ Bounded'
           /\ Len(queue') < Len(queue)
           /\ Len(received') \in Len(received) + 1 .. Len(sent)
           /\ received' = SubSeq(sent, 1, Len(received'))
<1>1. TypeOK
  BY DEF Contents
<1>2. /\ queue' \in Seq(Items) /\ received' \in Seq(Items)
      /\ Len(queue') = Len(queue) - n
      /\ Len(received') = Len(received) + n
      /\ received' \o queue' = received \o queue
  BY <1>1, TakeMoves
<1>3. sent = received' \o queue' /\ Fifo'
  BY <1>2 DEF Contents, Fifo
<1>4. Len(queue) \in Nat /\ Len(received) \in Nat /\ Len(queue') \in Nat
  BY <1>1, <1>2, LenProperties DEF TypeOK
<1>5. Len(queue') < Len(queue) /\ Bounded'
  BY <1>2, <1>4, QueueAssumption DEF Contents, Bounded
<1>6. Len(sent) = Len(received') + Len(queue')
  BY <1>2, <1>3, ConcatProperties
<1>7. Len(received') \in Len(received) + 1 .. Len(sent)
  BY <1>2, <1>4, <1>6
<1>8. received' = SubSeq(sent, 1, Len(received'))
  <2>1. Len(received') \in 1 .. Len(received')
    BY <1>2, <1>4
  <2>2. SubSeq(received' \o queue', 1, Len(received')) = SubSeq(received', 1, Len(received'))
    BY <1>2, <2>1, 1 \in 1 .. Len(received'), SubSeqOfConcat1
  <2> QED BY <1>2, <1>3, <2>2, SubSeqFull
<1> QED BY <1>3, <1>5, <1>7, <1>8

\* Both pops take between one and all of the queued items.
LEMMA PopsTake ==
    ASSUME TypeOK, NEW c \in Consumers, Pop(c) \/ PopBatch(c)
    PROVE  queue # <<>> /\ \E n \in 1 .. Len(queue) : Take(n)
<1>1. queue # <<>> /\ 1 \in 1 .. Len(queue)
  BY EmptySeq, LenProperties DEF TypeOK, Pop, PopBatch
<1> QED BY <1>1, BatchSizeInRange DEF Pop, PopBatch

\* The other steps leave the contents alone.
Idle == UNCHANGED <<queue, sent, received>>

LEMMA StepKinds ==
    ASSUME [Next]_vars
    PROVE  \/ \E p \in Producers : Push(p)
           \/ \E c \in Consumers : Pop(c) \/ PopBatch(c)
           \/ Idle
BY DEF Next, ProducerStep, ConsumerStep, CallPush, PushWaits, PushThrows, CallPop,
       PopWaits, EndOfStream, SpuriousWakeup, Close, vars, Idle

LEMMA InitContents == Init => Contents
<1>1. Init => Fifo
  BY EmptySeq, ConcatEmptySeq DEF Init, Fifo
<1>2. Init => Bounded
  BY EmptySeq, QueueAssumption DEF Init, Bounded
<1> QED BY <1>1, <1>2, InitTypes DEF Contents

LEMMA NextContents == Contents /\ [Next]_vars => Contents'
<1> SUFFICES ASSUME Contents, [Next]_vars PROVE Contents'
  OBVIOUS
<1>1. TypeOK' /\ CallsCounted'
  BY NextTypes DEF Contents
<1>2. CASE \E p \in Producers : Push(p)
  BY <1>1, <1>2, PushContents DEF Contents
<1>3. CASE \E c \in Consumers : Pop(c) \/ PopBatch(c)
  <2>1. PICK c \in Consumers : Pop(c) \/ PopBatch(c)
    BY <1>3
  <2>2. PICK n \in 1 .. Len(queue) : Take(n)
    BY <2>1, PopsTake DEF Contents
  <2>3. sent' = sent
    BY <2>1 DEF Pop, PopBatch
  <2> QED BY <1>1, <2>2, <2>3, TakeContents DEF Contents
<1>4. CASE Idle
  BY <1>1, <1>4 DEF Idle, Contents, Fifo, Bounded
<1> QED BY <1>2, <1>3, <1>4, StepKinds

\* Nothing is lost, duplicated or reordered between push and the pops, and the
\* queue never holds more than its capacity.
THEOREM FifoCorrect == Spec => []Fifo
<1>1. Spec => []Contents
  BY InitContents, NextContents, PTL DEF Spec
<1>2. Contents => Fifo
  BY DEF Contents
<1> QED BY <1>1, <1>2, PTL

\* The queue never holds more items than its capacity, however many producers push.
THEOREM CapacityRespected == Spec => [](Len(queue) <= Capacity)
<1>1. Spec => []Contents
  BY InitContents, NextContents, PTL DEF Spec
<1>2. Contents => Len(queue) <= Capacity
  BY DEF Contents, Bounded
<1> QED BY <1>1, <1>2, PTL

LEMMA NextEndOfStream ==
    ASSUME Contents, EndOfStreamIsFinal, [Next]_vars
    PROVE  EndOfStreamIsFinal'
<1>1. received \in Seq(Items) /\ queue \in Seq(Items) /\ sent = received \o queue
  BY DEF Contents, TypeOK, Fifo
<1>2. received = sent <=> queue = <<>>
  BY <1>1, ConcatEqualIffEmpty
<1>3. pc \in [Threads -> PCs]
  BY DEF Contents, TypeOK, PCs
<1> SUFFICES ASSUME NEW c \in Consumers, pc'[c] = "eof"
             PROVE  closed' /\ received' = sent'
  BY DEF EndOfStreamIsFinal
<1>4. CASE EndOfStream(c)
  BY <1>2, <1>4 DEF EndOfStream, NotEmpty
<1>5. CASE ~EndOfStream(c)
  <2>1. pc[c] = "eof"
    BY <1>3, <1>5, QueueAssumption
       DEF Next, ProducerStep, ConsumerStep, CallPush, PushWaits, PushThrows, Push, CallPop,
           PopWaits, EndOfStream, Pop, PopBatch, SpuriousWakeup, Close, vars,
           NotifyOne, NotifyAll, Left, Sleep, PCs
  <2>2. closed /\ received = sent /\ queue = <<>>
    BY <1>2, <2>1 DEF EndOfStreamIsFinal
  <2>3. closed' /\ Idle
    BY <2>2, StepKinds
       DEF Next, ProducerStep, ConsumerStep, CallPush, PushWaits, PushThrows, Push, CallPop,
           PopWaits, EndOfStream, Pop, PopBatch, SpuriousWakeup, Close, vars, Idle
  <2> QED BY <2>2, <2>3 DEF Idle
<1> QED BY <1>4, <1>5

\* An empty result means that the queue is closed and everything it ever
\* accepted has been handed out.
THEOREM EndOfStreamCorrect == Spec => []EndOfStreamIsFinal
<1>1. Init => EndOfStreamIsFinal
  BY QueueAssumption DEF Init, EndOfStreamIsFinal
<1>2. Init => Contents /\ EndOfStreamIsFinal
  BY <1>1, InitContents
<1>3. Contents /\ EndOfStreamIsFinal /\ [Next]_vars => Contents' /\ EndOfStreamIsFinal'
  BY NextContents, NextEndOfStream
<1>4. Spec => [](Contents /\ EndOfStreamIsFinal)
  BY <1>2, <1>3, PTL DEF Spec
<1> QED BY <1>4, PTL
------------------------------------------------------------------------------
(* No lost wakeup.  The two conjuncts about an open queue are kept apart.   *)

\* A set of threads, which is finite, and where its members are.
LEMMA ReadyFinite ==
    ASSUME NEW group \in {Producers, Consumers}
    PROVE  /\ IsFiniteSet(group) /\ IsFiniteSet(Ready(group))
           /\ Cardinality(Ready(group)) \in Nat
<1>1. IsFiniteSet(group)
  BY QueueAssumption
<1>2. Ready(group) \in SUBSET group
  BY DEF Ready
<1> QED BY <1>1, <1>2, FS_Subset, FS_CardinalityType

LEMMA ReadyFiniteNext ==
    ASSUME NEW group \in {Producers, Consumers}
    PROVE  IsFiniteSet(Ready(group)') /\ Cardinality(Ready(group)') \in Nat
<1>1. IsFiniteSet(group)
  BY QueueAssumption
<1>2. Ready(group)' \in SUBSET group
  BY DEF Ready
<1> QED BY <1>1, <1>2, FS_Subset, FS_CardinalityType

\* A thread that leaves its call, or goes to sleep, lowers the count by one.
LEMMA OneLessReady ==
    ASSUME NEW group \in {Producers, Consumers}, NEW t \in group,
           pc[t] = "ready", pc'[t] # "ready",
           \A u \in group : u # t => pc'[u] = pc[u]
    PROVE  Cardinality(Ready(group)') = Cardinality(Ready(group)) - 1
<1>1. Ready(group)' = Ready(group) \ {t} /\ t \in Ready(group)
  BY DEF Ready
<1> QED BY <1>1, ReadyFinite, FS_RemoveElement

\* A thread that wakes, or enters a call, raises it by one.
LEMMA OneMoreReady ==
    ASSUME NEW group \in {Producers, Consumers}, NEW t \in group,
           pc[t] # "ready", pc'[t] = "ready",
           \A u \in group : u # t => pc'[u] = pc[u]
    PROVE  Cardinality(Ready(group)') = Cardinality(Ready(group)) + 1
<1>1. Ready(group)' = Ready(group) \cup {t} /\ t \notin Ready(group)
  BY DEF Ready
<1> QED BY <1>1, ReadyFinite, FS_AddElement

\* What happens to the other group changes nothing.
LEMMA GroupUntouched ==
    ASSUME NEW group, \A t \in group : pc'[t] = pc[t]
    PROVE  Asleep(group)' = Asleep(group) /\ Ready(group)' = Ready(group)
BY DEF Asleep, Ready

\* notify_one: either nobody slept, or one sleeper of the group is ready now.
LEMMA NotifiedOne ==
    ASSUME NEW group \in {Producers, Consumers}, pc \in [Threads -> PCs],
           NEW left \in [Threads -> PCs], NotifyOne(group, left),
           \A t \in group : left[t] = pc[t]
    PROVE  /\ \A t \in Threads \ group : pc'[t] = left[t]
           /\ \/ Asleep(group)' = {}
              \/ /\ Asleep(group) # {}
                 /\ Cardinality(Ready(group)') = Cardinality(Ready(group)) + 1
<1>0. group \in SUBSET Threads
  OBVIOUS
<1>1. CASE Asleep(group) = {} /\ pc' = left
  BY <1>0, <1>1 DEF Asleep
<1>2. CASE \E t \in Asleep(group) : pc' = [left EXCEPT ![t] = "ready"]
  <2>1. PICK t \in Asleep(group) : pc' = [left EXCEPT ![t] = "ready"]
    BY <1>2
  <2>2. t \in group /\ pc[t] # "ready" /\ pc'[t] = "ready"
        /\ \A u \in group : u # t => pc'[u] = pc[u]
    BY <1>0, <2>1 DEF Asleep
  <2> QED BY <1>0, <2>1, <2>2, OneMoreReady DEF Asleep
<1> QED BY <1>1, <1>2 DEF NotifyOne

NoSleepersOnceClosed == closed => Asleep(Threads) = {}
ProducersWoken ==
    Asleep(Producers) # {} => Capacity - Len(queue) <= Cardinality(Ready(Producers))
ConsumersWoken ==
    Asleep(Consumers) # {} => Len(queue) <= Cardinality(Ready(Consumers))

LEMMA NextNoLostWakeup ==
    ASSUME Contents, NoLostWakeup, [Next]_vars
    PROVE  NoSleepersOnceClosed' /\ ProducersWoken' /\ ConsumersWoken'
<1>0. /\ NoSleepersOnceClosed /\ ProducersWoken /\ ConsumersWoken
      /\ pc \in [Threads -> PCs] /\ Producers \cap Consumers = {}
      /\ Capacity \in Nat /\ Len(queue) \in Nat /\ TypeOK
  BY QueueAssumption, LenProperties
     DEF Contents, TypeOK, PCs, NoLostWakeup, NoSleepersOnceClosed, ProducersWoken, ConsumersWoken
<1>r. /\ Cardinality(Ready(Producers)) \in Nat /\ Cardinality(Ready(Consumers)) \in Nat
      /\ Cardinality(Ready(Producers)') \in Nat /\ Cardinality(Ready(Consumers)') \in Nat
  BY ReadyFinite, ReadyFiniteNext
<1>1. ASSUME NEW p \in Producers, CallPush(p)
      PROVE  NoSleepersOnceClosed' /\ ProducersWoken' /\ ConsumersWoken'
  <2>1. /\ pc[p] # "ready" /\ pc'[p] = "ready" /\ queue' = queue /\ closed' = closed
        /\ \A t \in Threads : t # p => pc'[t] = pc[t]
    BY <1>0, <1>1 DEF CallPush
  <2>2. Cardinality(Ready(Producers)') = Cardinality(Ready(Producers)) + 1
    BY <2>1, OneMoreReady
  <2>3. Asleep(Consumers)' = Asleep(Consumers) /\ Ready(Consumers)' = Ready(Consumers)
    BY <1>0, <2>1, GroupUntouched
  <2>4. Asleep(Producers)' \subseteq Asleep(Producers) /\ Asleep(Threads)' \subseteq Asleep(Threads)
    BY <2>1 DEF Asleep
  <2>5. ProducersWoken'
    BY <1>0, <1>r, <2>1, <2>2, <2>4 DEF ProducersWoken
  <2>6. NoSleepersOnceClosed' /\ ConsumersWoken'
    BY <1>0, <2>1, <2>3, <2>4 DEF NoSleepersOnceClosed, ConsumersWoken
  <2> QED BY <2>5, <2>6
<1>2. ASSUME NEW p \in Producers, PushWaits(p)
      PROVE  NoSleepersOnceClosed' /\ ProducersWoken' /\ ConsumersWoken'
  <2>1. /\ queue' = queue /\ ~closed' /\ Len(queue) >= Capacity
        /\ \A t \in Consumers : pc'[t] = pc[t]
    BY <1>0, <1>2 DEF PushWaits, Sleep, NotFull
  <2>2. Asleep(Consumers)' = Asleep(Consumers) /\ Ready(Consumers)' = Ready(Consumers)
    BY <2>1, GroupUntouched
  <2>3. ProducersWoken'
    BY <1>0, <1>r, <2>1 DEF ProducersWoken
  <2> QED BY <1>0, <2>1, <2>2, <2>3 DEF NoSleepersOnceClosed, ConsumersWoken
<1>3. ASSUME NEW t \in Threads, PushThrows(t) \/ EndOfStream(t)
      PROVE  NoSleepersOnceClosed' /\ ProducersWoken' /\ ConsumersWoken'
  <2>1. Asleep(Threads) = {}
    BY <1>0, <1>3 DEF PushThrows, EndOfStream, NotEmpty, NoSleepersOnceClosed
  <2>2. Asleep(Threads)' = {}
    BY <1>0, <1>3, <2>1 DEF PushThrows, EndOfStream, Left, Asleep
  <2>3. Asleep(Producers)' = {} /\ Asleep(Consumers)' = {}
    BY <2>2 DEF Asleep
  <2> QED BY <2>2, <2>3 DEF NoSleepersOnceClosed, ProducersWoken, ConsumersWoken
<1>4. ASSUME NEW p \in Producers, Push(p)
      PROVE  NoSleepersOnceClosed' /\ ProducersWoken' /\ ConsumersWoken'
  <2>0. Left(p, "idle") \in [Threads -> PCs] /\ Left(p, "idle")[p] = "idle"
        /\ \A t \in Threads : t # p => Left(p, "idle")[t] = pc[t]
    BY <1>0 DEF Left, PCs
  <2>1. /\ pc[p] = "ready" /\ ~closed' /\ NotifyOne(Consumers, Left(p, "idle"))
        /\ Len(queue') = Len(queue) + 1
    BY <1>4, PushContents DEF Push
  <2>2. /\ \A t \in Threads \ Consumers : pc'[t] = Left(p, "idle")[t]
        /\ \/ Asleep(Consumers)' = {}
           \/ /\ Asleep(Consumers) # {}
              /\ Cardinality(Ready(Consumers)') = Cardinality(Ready(Consumers)) + 1
    BY <1>0, <2>0, <2>1, NotifiedOne
  <2>3. pc'[p] # "ready" /\ \A t \in Producers : t # p => pc'[t] = pc[t]
    BY <1>0, <2>0, <2>2
  <2>4. Cardinality(Ready(Producers)') = Cardinality(Ready(Producers)) - 1
    BY <2>1, <2>3, OneLessReady
  <2>5. Asleep(Producers)' \subseteq Asleep(Producers)
    BY <1>0, <2>0, <2>2, <2>3 DEF Asleep
  <2>6. ProducersWoken'
    BY <1>0, <1>r, <2>1, <2>4, <2>5 DEF ProducersWoken
  <2>7. ConsumersWoken'
    BY <1>0, <1>r, <2>1, <2>2 DEF ConsumersWoken
  <2> QED BY <2>1, <2>6, <2>7 DEF NoSleepersOnceClosed
<1>5. ASSUME NEW c \in Consumers, CallPop(c)
      PROVE  NoSleepersOnceClosed' /\ ProducersWoken' /\ ConsumersWoken'
  <2>1. /\ pc[c] # "ready" /\ pc'[c] = "ready" /\ queue' = queue /\ closed' = closed
        /\ \A t \in Threads : t # c => pc'[t] = pc[t]
    BY <1>0, <1>5 DEF CallPop
  <2>2. Cardinality(Ready(Consumers)') = Cardinality(Ready(Consumers)) + 1
    BY <2>1, OneMoreReady
  <2>3. Asleep(Producers)' = Asleep(Producers) /\ Ready(Producers)' = Ready(Producers)
    BY <1>0, <2>1, GroupUntouched
  <2>4. Asleep(Consumers)' \subseteq Asleep(Consumers) /\ Asleep(Threads)' \subseteq Asleep(Threads)
    BY <2>1 DEF Asleep
  <2>5. ConsumersWoken'
    BY <1>0, <1>r, <2>1, <2>2, <2>4 DEF ConsumersWoken
  <2>6. NoSleepersOnceClosed' /\ ProducersWoken'
    BY <1>0, <2>1, <2>3, <2>4 DEF NoSleepersOnceClosed, ProducersWoken
  <2> QED BY <2>5, <2>6
<1>6. ASSUME NEW c \in Consumers, PopWaits(c)
      PROVE  NoSleepersOnceClosed' /\ ProducersWoken' /\ ConsumersWoken'
  <2>1. /\ queue' = queue /\ ~closed' /\ Len(queue) = 0
        /\ \A t \in Producers : pc'[t] = pc[t]
    BY <1>0, <1>6, EmptySeq DEF PopWaits, Sleep, NotEmpty
  <2>2. Asleep(Producers)' = Asleep(Producers) /\ Ready(Producers)' = Ready(Producers)
    BY <2>1, GroupUntouched
  <2>3. ConsumersWoken'
    BY <1>r, <2>1 DEF ConsumersWoken
  <2> QED BY <1>0, <2>1, <2>2, <2>3 DEF NoSleepersOnceClosed, ProducersWoken
<1>7. ASSUME NEW c \in Consumers, Pop(c) \/ PopBatch(c)
      PROVE  NoSleepersOnceClosed' /\ ProducersWoken' /\ ConsumersWoken'
  <2>0. Left(c, "idle") \in [Threads -> PCs] /\ Left(c, "idle")[c] = "idle"
        /\ \A t \in Threads : t # c => Left(c, "idle")[t] = pc[t]
    BY <1>0 DEF Left, PCs
  <2>1. pc[c] = "ready" /\ closed' = closed
    BY <1>7 DEF Pop, PopBatch
  <2>2. /\ \A t \in Threads : pc'[t] = Left(c, "idle")[t]
                              \/ (t \in Asleep(Producers) /\ pc'[t] = "ready")
    BY <1>7, <2>0, NotifyType DEF Pop, PopBatch
  <2>3. pc'[c] # "ready" /\ \A t \in Consumers : t # c => pc'[t] = pc[t]
    BY <1>0, <2>0, <2>2 DEF Asleep
  <2>4. Cardinality(Ready(Consumers)') = Cardinality(Ready(Consumers)) - 1
    BY <2>1, <2>3, OneLessReady
  <2>5. Asleep(Threads)' \subseteq Asleep(Threads) /\ Asleep(Consumers)' \subseteq Asleep(Consumers)
    BY <1>0, <2>0, <2>2 DEF Asleep
  <2>6. Len(queue') \in Nat /\ Len(queue') < Len(queue)
    <3>1. PICK n \in 1 .. Len(queue) : Take(n)
      BY <1>0, <1>7, PopsTake
    <3> QED BY <1>0, <3>1, TakeMoves
  <2>7. ConsumersWoken'
    BY <1>0, <1>r, <2>4, <2>5, <2>6 DEF ConsumersWoken
  <2>8. NoSleepersOnceClosed'
    BY <1>0, <2>1, <2>5 DEF NoSleepersOnceClosed
  <2>9. CASE Pop(c)
    <3>1. \/ Asleep(Producers)' = {}
          \/ /\ Asleep(Producers) # {}
             /\ Cardinality(Ready(Producers)') = Cardinality(Ready(Producers)) + 1
      <4>1. \A t \in Producers : Left(c, "idle")[t] = pc[t]
        BY <1>0, <2>0
      <4> QED BY <1>0, <2>0, <2>9, <4>1, NotifiedOne DEF Pop
    <3>2. Len(queue') = Len(queue) - 1
      <4>1. 1 \in 1 .. Len(queue) /\ Take(1)
        BY <1>0, <2>9, EmptySeq DEF Pop, TypeOK
      <4> QED BY <1>0, <4>1, TakeMoves
    <3>3. ProducersWoken'
      BY <1>0, <1>r, <3>1, <3>2 DEF ProducersWoken
    <3> QED BY <2>7, <2>8, <3>3
  <2>10. CASE PopBatch(c)
    <3>1. \A t \in Producers : pc'[t] # "asleep"
      BY <1>0, <2>0, <2>10 DEF PopBatch, NotifyAll, Asleep
    <3>2. ProducersWoken'
      BY <3>1 DEF Asleep, ProducersWoken
    <3> QED BY <2>7, <2>8, <3>2
  <2> QED BY <1>7, <2>9, <2>10
<1>8. ASSUME NEW t \in Threads, SpuriousWakeup(t)
      PROVE  NoSleepersOnceClosed' /\ ProducersWoken' /\ ConsumersWoken'
  <2>1. /\ pc[t] = "asleep" /\ pc'[t] = "ready" /\ queue' = queue /\ closed' = closed
        /\ \A u \in Threads : u # t => pc'[u] = pc[u]
    BY <1>0, <1>8 DEF SpuriousWakeup
  <2>2. ~closed
    BY <1>0, <2>1 DEF NoSleepersOnceClosed, Asleep
  <2>3. /\ Asleep(Producers)' \subseteq Asleep(Producers)
        /\ Asleep(Consumers)' \subseteq Asleep(Consumers)
    BY <2>1 DEF Asleep
  <2>4. ASSUME NEW group \in {Producers, Consumers}
        PROVE  Cardinality(Ready(group)') >= Cardinality(Ready(group))
    <3>1. CASE t \in group
      BY <1>r, <2>1, <3>1, OneMoreReady
    <3>2. CASE t \notin group
      BY <1>r, <2>1, <3>2, GroupUntouched
    <3> QED BY <3>1, <3>2
  <2>5. /\ Cardinality(Ready(Producers)') >= Cardinality(Ready(Producers))
        /\ Cardinality(Ready(Consumers)') >= Cardinality(Ready(Consumers))
    BY <2>4
  <2>6. ProducersWoken' /\ ConsumersWoken'
    BY <1>0, <1>r, <2>1, <2>3, <2>5 DEF ProducersWoken, ConsumersWoken
  <2> QED BY <2>1, <2>2, <2>6 DEF NoSleepersOnceClosed
<1>9. CASE Close
  <2>1. \A t \in Threads : pc'[t] # "asleep"
    BY <1>0, <1>9 DEF Close, NotifyAll, Asleep
  <2> QED BY <2>1 DEF Asleep, NoSleepersOnceClosed, ProducersWoken, ConsumersWoken
<1>10. CASE UNCHANGED vars
  BY <1>0, <1>10 DEF vars, Asleep, Ready, NoSleepersOnceClosed, ProducersWoken, ConsumersWoken
<1> QED BY <1>1, <1>2, <1>3, <1>4, <1>5, <1>6, <1>7, <1>8, <1>9, <1>10
        DEF Next, ProducerStep, ConsumerStep

\* However many threads use the queue, and however the implementation picks the
\* thread that notify_one wakes, no wakeup is lost.
THEOREM NoLostWakeupCorrect == Spec => []NoLostWakeup
<1>1. Init => NoLostWakeup
  BY DEF Init, NoLostWakeup, Asleep
<1>2. Init => Contents /\ NoLostWakeup
  BY <1>1, InitContents
<1>3. Contents /\ NoLostWakeup /\ [Next]_vars => Contents' /\ NoLostWakeup'
  BY NextContents, NextNoLostWakeup
     DEF NoLostWakeup, NoSleepersOnceClosed, ProducersWoken, ConsumersWoken
<1>4. Spec => [](Contents /\ NoLostWakeup)
  BY <1>2, <1>3, PTL DEF Spec
<1> QED BY <1>4, PTL

------------------------------------------------------------------------------
(* The queue implements the channel.                                        *)

\* push is Send, a pop is Deliver, close is Close, and nothing else is visible.
LEMMA StepSimulation ==
    ASSUME Contents, [Next]_vars
    PROVE  [Channel!Next]_(Channel!vars)
<1>1. CASE \E p \in Producers : Push(p)
  <2>1. PICK p \in Producers : Push(p)
    BY <1>1
  <2>2. PICK item \in Items : sent' = Append(sent, item)
    BY <2>1, PushContents
  <2>3. Len(sent) < Len(received) + Capacity
    <3>1. Len(sent) = Len(received) + Len(queue)
      BY <2>1, PushContents
    <3>2. Len(received) \in Nat /\ Len(queue) \in Nat /\ Capacity \in Nat
      BY LenProperties, QueueAssumption DEF Contents, TypeOK
    <3> QED BY <2>1, <3>1, <3>2 DEF Push, NotFull
  <2>4. Channel!Send(item)
    BY <2>1, <2>2, <2>3 DEF Push, Channel!Send
  <2> QED BY <2>4 DEF Channel!Next
<1>2. CASE \E c \in Consumers : Pop(c) \/ PopBatch(c)
  <2>1. PICK c \in Consumers : Pop(c) \/ PopBatch(c)
    BY <1>2
  <2>2. sent' = sent /\ closed' = closed
    BY <2>1 DEF Pop, PopBatch
  <2>3. PICK n \in 1 .. Len(queue) : Take(n)
    BY <2>1, PopsTake DEF Contents
  <2>4. Channel!Deliver
    BY <2>2, <2>3, TakeContents DEF Channel!Deliver
  <2> QED BY <2>4 DEF Channel!Next
<1>3. CASE Idle
  <2>1. closed' = closed \/ Channel!Close
    BY <1>3 DEF Next, ProducerStep, ConsumerStep, CallPush, PushWaits, PushThrows, Push, CallPop,
        PopWaits, EndOfStream, Pop, PopBatch, SpuriousWakeup, Close, vars, Idle, Channel!Close
  <2> QED BY <1>3, <2>1 DEF Idle, Channel!Next, Channel!vars
<1> QED BY <1>1, <1>2, <1>3, StepKinds

\* Every behaviour of the queue is a behaviour of a bounded FIFO channel.
THEOREM ImplementsFifoChannel == Spec => Channel!Spec
<1>1. Init => Channel!Init
  BY DEF Init, Channel!Init
<1>2. Spec => []Contents
  BY InitContents, NextContents, PTL DEF Spec
<1> QED BY <1>1, <1>2, StepSimulation, PTL DEF Spec, Channel!Spec
============================================================================
