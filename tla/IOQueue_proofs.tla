--------------------------- MODULE IOQueue_proofs ---------------------------
(***************************************************************************)
(* Proofs about the I/O queue, for any size of the ring and any set of     *)
(* operations: its variables keep their types, the eventfd counts the      *)
(* queue and no wake-up is lost, and the ring implements a bounded         *)
(* first-in first-out queue.                                               *)
(***************************************************************************)
EXTENDS IOQueue, SequenceTheorems, TLAPS

\* The k-th position of the ring after the head, and what the queue holds
\* there.
At(k) == IF head + k < N THEN head + k ELSE head + k - N

\* Every position that is occupied holds an operation.
SlotInv == \A k \in 0..(Occupancy - 1) : slots[At(k)] \in Items

\* A push that has stored its operation still has room, and the operation is
\* in the slot that the store to tail will publish.
ProducerInv ==
    /\ step # 0 => op \in Items
    /\ step = 2 => Occupancy < N - 1 /\ slots[tail] = op

\* A pop that has seen an operation keeps it: nobody else moves head, and the
\* producer does not reuse the slot before head has moved.
ConsumerInv ==
    /\ cpc \in {"read", "advance"} => Occupancy > 0
    /\ cpc = "advance" => ret = slots[head]
    /\ cpc = "eventfd" => ret \in Items

CountInv ==
    counter = Occupancy + (IF cpc = "eventfd" THEN 1 ELSE 0) - (IF step = 3 THEN 1 ELSE 0)

\* Asleep without a wake-up on its way, the I/O thread has missed nothing but
\* what the push under way is about to announce.
WakeInv == cpc = "wait" /\ ~edge => Occupancy = 0 \/ step = 3

IInv == QueueTypeOK /\ SlotInv /\ ProducerInv /\ ConsumerInv /\ CountInv /\ WakeInv

-----------------------------------------------------------------------------
(* Arithmetic of the ring *)

LEMMA ModRing == \A a \in Nat : a < 2 * N => a % N = IF a < N THEN a ELSE a - N
BY SizeAssumption

LEMMA SuccIs == \A i \in 0..N-1 : Succ(i) = (IF i + 1 = N THEN 0 ELSE i + 1) /\ Succ(i) \in 0..N-1
BY SizeAssumption DEF Succ

\* Occupancy without the remainder.
Occ(h, t) == IF t >= h THEN t - h ELSE t + N - h

LEMMA OccIs ==
    ASSUME NEW h \in 0..N-1, NEW t \in 0..N-1
    PROVE  /\ (t + N - h) % N = Occ(h, t)
           /\ Occ(h, t) \in 0..N-1
           /\ Occ(h, t) = 0 <=> h = t
<1> DEFINE a == t + N - h
<1>1. a \in Nat /\ a < 2 * N
  BY SizeAssumption
<1> HIDE DEF a
<1>2. a % N = IF a < N THEN a ELSE a - N
  BY <1>1, ModRing
<1> QED
  BY <1>2, SizeAssumption DEF a, Occ

LEMMA OccupancyIs ==
    ASSUME QueueTypeOK
    PROVE  /\ Occupancy = Occ(head, tail)
           /\ Occupancy \in 0..N-1
           /\ Occupancy = 0 <=> head = tail
<1>1. head \in 0..N-1 /\ tail \in 0..N-1
  BY DEF QueueTypeOK
<1>2. /\ (tail + N - head) % N = Occ(head, tail)
      /\ Occ(head, tail) \in 0..N-1
      /\ Occ(head, tail) = 0 <=> head = tail
  BY <1>1, OccIs, Zenon
<1> QED
  BY <1>2, Zenon DEF Occupancy

LEMMA OccupancyNext ==
    ASSUME QueueTypeOK'
    PROVE  Occupancy' = Occ(head', tail')
BY OccIs DEF QueueTypeOK, Occupancy

\* head moves past an element, tail adds one.
LEMMA OccupancyMoves ==
    ASSUME NEW h \in 0..N-1, NEW t \in 0..N-1
    PROVE  /\ h # t => Occ(Succ(h), t) = Occ(h, t) - 1
           /\ Succ(t) # h <=> Occ(h, t) < N - 1
           /\ Succ(t) # h => Occ(h, Succ(t)) = Occ(h, t) + 1
<1>1. /\ Succ(h) = IF h + 1 = N THEN 0 ELSE h + 1
      /\ Succ(t) = IF t + 1 = N THEN 0 ELSE t + 1
  BY SuccIs
<1> QED
  BY <1>1, SizeAssumption DEF Occ

\* The program order of io_queue_push.
LEMMA OrderFacts ==
    Len(PushOrder) = 3 /\ PushOrder[1] = "slot" /\ PushOrder[2] = "tail" /\ PushOrder[3] = "eventfd"
BY DEF PushOrder

LEMMA AdvanceIs ==
    ASSUME step \in 0..3, Advance
    PROVE  step' = IF step = 3 THEN 0 ELSE step + 1
BY OrderFacts DEF Advance

LEMMA StepOf ==
    ASSUME step \in 0..3
    PROVE  /\ StoreSlot => step = 1 /\ HasSpace /\ step' = 2
           /\ StoreTail => step = 2 /\ step' = 3
           /\ WriteEventfd => step = 3 /\ step' = 0
<1>1. StoreSlot => step = 1
  BY OrderFacts DEF StoreSlot
<1>2. StoreTail => step = 2
  BY OrderFacts DEF StoreTail
<1>3. WriteEventfd => step = 3
  BY OrderFacts DEF WriteEventfd
<1> QED
  BY <1>1, <1>2, <1>3, AdvanceIs DEF StoreSlot, StoreTail, WriteEventfd

LEMMA DoneIs ==
    ASSUME step \in 0..3
    PROVE  /\ Done("tail") <=> step \in {0, 3}
           /\ Done("eventfd") <=> step = 0
<1>1. \A i \in 1..(step - 1) : i \in {1, 2} /\ i < step
  OBVIOUS
<1>2. step = 3 => 2 \in 1..(step - 1)
  OBVIOUS
<1> QED
  BY <1>1, <1>2, OrderFacts DEF Done

-----------------------------------------------------------------------------
(* The invariant *)

\* What the invariant says of the ring, in the form the steps use.
LEMMA Facts ==
    ASSUME IInv
    PROVE  /\ N \in Nat /\ N > 1
           /\ head \in 0..N-1 /\ tail \in 0..N-1 /\ step \in 0..3 /\ counter \in 0..N
           /\ Occupancy = Occ(head, tail)
           /\ Occupancy \in 0..N-1
           /\ Occupancy = 0 <=> head = tail
BY OccupancyIs, SizeAssumption DEF IInv, QueueTypeOK

LEMMA InitInv == QueueInit => IInv
<1> SUFFICES ASSUME QueueInit PROVE IInv
  OBVIOUS
<1>1. QueueTypeOK
  <2>1. head \in 0..N-1 /\ tail \in 0..N-1 /\ counter \in 0..N /\ step \in 0..3
    BY SizeAssumption DEF QueueInit
  <2>2. slots \in [0..N-1 -> {NoItem}]
    BY DEF QueueInit
  <2> QED
    BY <2>1, <2>2 DEF QueueInit, QueueTypeOK
<1>2. Occupancy = 0
  BY <1>1, OccupancyIs DEF QueueInit
<1> QED
  BY <1>1, <1>2 DEF QueueInit, IInv, SlotInv, ProducerInv, ConsumerInv, CountInv, WakeInv

\* A step that leaves the ring alone.
LEMMA RingKept ==
    ASSUME UNCHANGED <<head, tail, slots>>
    PROVE  Occupancy' = Occupancy /\ (SlotInv => SlotInv')
BY DEF Occupancy, SlotInv, At

LEMMA PushStep == ASSUME IInv, NEW o \in Items, Push(o) PROVE IInv'
<1>1. UNCHANGED <<head, tail, slots, counter, edge, cpc, ret>> /\ step = 0 /\ step' = 1 /\ op' = o
  BY DEF Push, consumer
<1>2. QueueTypeOK'
  BY <1>1 DEF IInv, QueueTypeOK
<1> QED
  BY <1>1, <1>2, RingKept DEF IInv, ProducerInv, ConsumerInv, CountInv, WakeInv

LEMMA StoreSlotStep == ASSUME IInv, StoreSlot PROVE IInv'
<1>1. /\ UNCHANGED <<head, tail, counter, edge, op, cpc, ret>>
      /\ step = 1 /\ step' = 2 /\ HasSpace
      /\ slots' = [slots EXCEPT ![tail] = op]
  BY Facts, StepOf DEF StoreSlot, consumer
<1>2. Occupancy' = Occupancy
  BY <1>1 DEF Occupancy
<1>3. Occupancy < N - 1
  BY <1>1, Facts, OccupancyMoves DEF HasSpace
<1>4. op \in Items
  BY <1>1 DEF IInv, ProducerInv
<1>5. QueueTypeOK'
  BY <1>1, <1>4 DEF IInv, QueueTypeOK
<1>6. \A k \in 0..(Occupancy - 1) : At(k) \in 0..N-1 /\ At(k) # tail
  BY Facts DEF At, Occ
<1>7. slots \in [0..N-1 -> Items \cup {NoItem}]
  BY DEF IInv, QueueTypeOK
<1>8. SlotInv'
  BY <1>1, <1>2, <1>6, <1>7 DEF IInv, SlotInv, At
<1>9. ProducerInv'
  BY <1>1, <1>2, <1>3, <1>4, <1>7, Facts DEF ProducerInv
<1>10. ConsumerInv'
  <2>1. cpc = "advance" => head # tail
    BY Facts DEF IInv, ConsumerInv
  <2>2. cpc = "advance" => slots'[head] = slots[head]
    BY <1>1, <1>7, <2>1, Facts
  <2> QED
    BY <1>1, <1>2, <2>2 DEF IInv, ConsumerInv
<1> QED
  BY <1>1, <1>2, <1>5, <1>8, <1>9, <1>10 DEF IInv, CountInv, WakeInv

LEMMA StoreTailStep == ASSUME IInv, StoreTail PROVE IInv'
<1>1. /\ UNCHANGED <<head, slots, counter, edge, op, cpc, ret>>
      /\ step = 2 /\ step' = 3
      /\ tail' = Succ(tail)
  BY Facts, StepOf DEF StoreTail, consumer
<1>2. Occupancy < N - 1 /\ slots[tail] = op /\ op \in Items
  BY <1>1 DEF IInv, ProducerInv
<1>3. QueueTypeOK'
  BY <1>1, SuccIs DEF IInv, QueueTypeOK
<1>4. /\ Succ(tail) # head
      /\ Occupancy' = Occupancy + 1
  <2>1. Succ(tail) # head
    BY <1>2, Facts, OccupancyMoves
  <2>2. Occupancy' = Occ(head', tail')
    BY <1>3, OccupancyNext
  <2> QED
    BY <1>1, <2>1, <2>2, Facts, OccupancyMoves
<1>5. At(Occupancy) = tail
  BY Facts DEF At, Occ
<1>6. SlotInv'
  <2>1. \A k : At(k)' = At(k)
    BY <1>1 DEF At
  <2>2. \A k \in 0..Occupancy : k \in 0..(Occupancy - 1) \/ k = Occupancy
    BY Facts
  <2>3. Occupancy' - 1 = Occupancy
    BY <1>4, Facts
  <2> QED
    BY <1>1, <1>2, <1>5, <2>1, <2>2, <2>3 DEF IInv, SlotInv
<1>7. ConsumerInv'
  BY <1>1, <1>4, Facts DEF IInv, ConsumerInv
<1>8. CountInv'
  <2>1. Occupancy \in Int /\ counter \in Int
    BY Facts
  <2> QED
    BY <1>1, <1>4, <2>1 DEF IInv, CountInv
<1> QED
  BY <1>1, <1>2, <1>3, <1>6, <1>7, <1>8 DEF IInv, ProducerInv, WakeInv

LEMMA WriteEventfdStep == ASSUME IInv, WriteEventfd PROVE IInv'
<1>1. /\ UNCHANGED <<head, tail, slots, op, cpc, ret>>
      /\ step = 3 /\ step' = 0
      /\ counter' = counter + 1 /\ (edge' <=> cpc # "add")
  BY Facts, StepOf DEF WriteEventfd, consumer
<1>b. edge' \in BOOLEAN
  BY DEF WriteEventfd
<1>2. Occupancy' = Occupancy /\ SlotInv'
  BY <1>1, RingKept DEF IInv
<1>3. CountInv' /\ counter' \in 0..N
  <2>1. counter + 1 = Occupancy + (IF cpc = "eventfd" THEN 1 ELSE 0)
    BY <1>1, Facts DEF IInv, CountInv
  <2> QED
    BY <1>1, <1>2, <2>1, Facts DEF CountInv
<1>4. QueueTypeOK'
  BY <1>1, <1>b, <1>3 DEF IInv, QueueTypeOK
<1> QED
  BY <1>1, <1>2, <1>3, <1>4 DEF IInv, ProducerInv, ConsumerInv, WakeInv

\* With the counter at zero the queue is empty or its one operation is about
\* to be announced.
LEMMA ZeroMeansEmpty ==
    ASSUME IInv, counter = 0, cpc # "eventfd"
    PROVE  Occupancy = 0 \/ step = 3
BY Facts DEF IInv, CountInv

LEMMA AddEventfdStep == ASSUME IInv, AddEventfd PROVE IInv'
<1>1. /\ UNCHANGED <<head, tail, slots, counter, ret, step, op>>
      /\ cpc = "add" /\ cpc' = "wait" /\ (edge' <=> counter > 0)
  BY DEF AddEventfd, producer
<1>b. edge' \in BOOLEAN
  BY DEF AddEventfd
<1>2. Occupancy' = Occupancy /\ SlotInv'
  BY <1>1, RingKept DEF IInv
<1>3. QueueTypeOK'
  BY <1>1, <1>b DEF IInv, QueueTypeOK
<1>4. WakeInv'
  BY <1>1, <1>2, ZeroMeansEmpty, Facts DEF WakeInv
<1> QED
  BY <1>1, <1>2, <1>3, <1>4 DEF IInv, ProducerInv, ConsumerInv, CountInv

LEMMA WaitEventfdStep == ASSUME IInv, WaitEventfd PROVE IInv'
<1>1. /\ UNCHANGED <<head, tail, slots, counter, ret, step, op>>
      /\ cpc = "wait" /\ cpc' = (IF counter > 0 THEN "empty" ELSE "wait") /\ edge' = FALSE
  BY DEF WaitEventfd, producer
<1>2. Occupancy' = Occupancy /\ SlotInv'
  BY <1>1, RingKept DEF IInv
<1>3. QueueTypeOK'
  BY <1>1 DEF IInv, QueueTypeOK
<1>4. WakeInv'
  BY <1>1, <1>2, ZeroMeansEmpty, Facts DEF WakeInv
<1> QED
  BY <1>1, <1>2, <1>3, <1>4 DEF IInv, ProducerInv, ConsumerInv, CountInv

LEMMA PopCheckEmptyStep == ASSUME IInv, PopCheckEmpty PROVE IInv'
<1>1. /\ UNCHANGED <<head, tail, slots, counter, edge, ret, step, op>>
      /\ cpc = "empty" /\ cpc' = (IF head = tail THEN "wait" ELSE "read")
  BY DEF PopCheckEmpty, producer
<1>2. Occupancy' = Occupancy /\ SlotInv'
  BY <1>1, RingKept DEF IInv
<1>3. QueueTypeOK'
  BY <1>1 DEF IInv, QueueTypeOK
<1>4. cpc' = "read" => Occupancy > 0
  BY <1>1, Facts
<1>5. cpc' = "wait" => Occupancy = 0
  BY <1>1, Facts
<1> QED
  BY <1>1, <1>2, <1>3, <1>4, <1>5 DEF IInv, ProducerInv, ConsumerInv, CountInv, WakeInv

LEMMA PopReadStep == ASSUME IInv, PopRead PROVE IInv'
<1>1. /\ UNCHANGED <<head, tail, slots, counter, edge, step, op>>
      /\ cpc = "read" /\ cpc' = "advance" /\ ret' = slots[head]
  BY DEF PopRead, producer
<1>2. Occupancy' = Occupancy /\ SlotInv'
  BY <1>1, RingKept DEF IInv
<1>3. QueueTypeOK'
  BY <1>1 DEF IInv, QueueTypeOK
<1> QED
  BY <1>1, <1>2, <1>3 DEF IInv, ProducerInv, ConsumerInv, CountInv, WakeInv

\* The oldest operation is at the head of the ring.
LEMMA OldestIs ==
    ASSUME IInv, Occupancy > 0
    PROVE  slots[head] \in Items
<1>1. 0 \in 0..(Occupancy - 1) /\ At(0) = head
  BY Facts DEF At, Occ
<1> QED
  BY <1>1 DEF IInv, SlotInv

LEMMA PopAdvanceStep == ASSUME IInv, PopAdvance PROVE IInv'
<1>1. /\ UNCHANGED <<tail, slots, counter, edge, ret, step, op>>
      /\ cpc = "advance" /\ cpc' = "eventfd" /\ head' = Succ(head)
  BY DEF PopAdvance, producer
<1>2. Occupancy > 0 /\ ret = slots[head] /\ ret \in Items
  BY <1>1, OldestIs DEF IInv, ConsumerInv
<1>3. QueueTypeOK'
  BY <1>1, SuccIs DEF IInv, QueueTypeOK
<1>4. Occupancy' = Occupancy - 1
  <2>1. Occupancy' = Occ(head', tail')
    BY <1>3, OccupancyNext
  <2> QED
    BY <1>1, <1>2, <2>1, Facts, OccupancyMoves
<1>5. SlotInv'
  <2>1. \A k \in 0..(Occupancy - 2) : k + 1 \in 0..(Occupancy - 1) /\ At(k)' = At(k + 1)
    <3>1. head' = IF head + 1 = N THEN 0 ELSE head + 1
      BY <1>1, Facts, SuccIs
    <3> QED
      BY <3>1, Facts DEF At, Occ
  <2> QED
    BY <1>1, <1>4, <2>1, Facts DEF IInv, SlotInv
<1>6. CountInv'
  BY <1>1, <1>4, Facts DEF IInv, CountInv
<1>7. ProducerInv'
  BY <1>1, <1>4, Facts DEF IInv, ProducerInv
<1> QED
  BY <1>1, <1>2, <1>3, <1>5, <1>6, <1>7 DEF IInv, ConsumerInv, WakeInv

LEMMA PopEventfdStep == ASSUME IInv, PopEventfd PROVE IInv'
<1>1. /\ UNCHANGED <<head, tail, slots, edge, step, op>>
      /\ cpc = "eventfd" /\ cpc' = "empty" /\ ret' = NoItem
      /\ counter > 0 /\ counter' = counter - 1
  BY DEF PopEventfd, producer
<1>2. Occupancy' = Occupancy /\ SlotInv'
  BY <1>1, RingKept DEF IInv
<1>3. QueueTypeOK'
  <2>1. counter' \in 0..N
    BY <1>1, Facts
  <2> QED
    BY <1>1, <2>1 DEF IInv, QueueTypeOK
<1>4. CountInv'
  BY <1>1, <1>2, Facts DEF IInv, CountInv
<1> QED
  BY <1>1, <1>2, <1>3, <1>4 DEF IInv, ProducerInv, ConsumerInv, WakeInv

LEMMA StutterStep == ASSUME IInv, UNCHANGED queueVars PROVE IInv'
<1>1. UNCHANGED <<head, tail, slots, counter, edge, step, op, cpc, ret>>
  BY DEF queueVars
<1> QED
  BY <1>1, RingKept DEF IInv, QueueTypeOK, ProducerInv, ConsumerInv, CountInv, WakeInv

\* The inductive invariant: every shared access of io_queue_push and
\* io_queue_pop, in every interleaving, preserves it.
THEOREM Invariance == QueueSpec => []IInv
<1>1. IInv /\ [QueueNext]_queueVars => IInv'
  BY PushStep, StoreSlotStep, StoreTailStep, WriteEventfdStep, AddEventfdStep, WaitEventfdStep,
     PopCheckEmptyStep, PopReadStep, PopAdvanceStep, PopEventfdStep, StutterStep
  DEF QueueNext, Producer, Consumer
<1> QED
  BY <1>1, InitInv, PTL DEF QueueSpec

\* The indices stay in the ring and the counter of the eventfd never exceeds
\* the size of the ring.
THEOREM TypeCorrect == QueueSpec => []QueueTypeOK
BY Invariance, PTL DEF IInv

\* The eventfd counts the queue, so the blocking read in io_queue_pop waits at
\* most for the write of the push it overtook; and no wake-up is lost.
THEOREM CounterCountsTheorem == QueueSpec => []CounterCounts
<1>1. IInv => CounterCounts
  <2> SUFFICES ASSUME IInv PROVE CounterCounts
    OBVIOUS
  <2>1. (Done("tail") /\ ~Done("eventfd")) <=> step = 3
    BY Facts, DoneIs
  <2>2. counter = Occupancy + (IF cpc = "eventfd" THEN 1 ELSE 0)
                  - (IF Done("tail") /\ ~Done("eventfd") THEN 1 ELSE 0)
    BY <2>1 DEF IInv, CountInv
  <2>3. cpc = "wait" /\ ~edge /\ step = 0 => head = tail
    BY Facts DEF IInv, WakeInv
  <2> QED
    BY <2>2, <2>3 DEF CounterCounts
<1> QED
  BY <1>1, Invariance, PTL
-----------------------------------------------------------------------------
(* The ring implements a queue *)

\* The contents of a ring are a sequence of operations, oldest first.
LEMMA RingFacts ==
    ASSUME NEW h \in 0..N-1, NEW n \in 0..N-1, NEW sl,
           \A k \in 0..(n - 1) : sl[IF h + k < N THEN h + k ELSE h + k - N] \in Items
    PROVE  LET r == [i \in 1..n |-> sl[(h + i - 1) % N]] IN
           /\ r \in Seq(Items)
           /\ Len(r) = n
           /\ \A i \in 1..n : r[i] = sl[IF h + (i - 1) < N THEN h + (i - 1) ELSE h + (i - 1) - N]
<1> DEFINE r == [i \in 1..n |-> sl[(h + i - 1) % N]]
<1>1. ASSUME NEW i \in 1..n
      PROVE  (h + i - 1) % N = IF h + (i - 1) < N THEN h + (i - 1) ELSE h + (i - 1) - N
  <2> DEFINE a == h + i - 1
  <2>1. a \in Nat /\ a < 2 * N /\ a = h + (i - 1)
    BY SizeAssumption
  <2> HIDE DEF a
  <2>2. a % N = IF a < N THEN a ELSE a - N
    BY <2>1, ModRing
  <2>3. (IF a < N THEN a ELSE a - N)
        = (IF h + (i - 1) < N THEN h + (i - 1) ELSE h + (i - 1) - N)
    BY <2>1, SizeAssumption
  <2>4. (h + i - 1) % N = a % N
    BY DEF a
  <2> QED
    BY <2>2, <2>3, <2>4, Zenon
<1>2. \A i \in 1..n :
         r[i] = sl[IF h + (i - 1) < N THEN h + (i - 1) ELSE h + (i - 1) - N]
  BY <1>1
<1>3. \A i \in 1..n : i - 1 \in 0..(n - 1)
  OBVIOUS
<1>4. \A i \in 1..n : r[i] \in Items
  BY <1>2, <1>3
<1>5. n \in Nat
  BY SizeAssumption
<1>6. r = [i \in 1..n |-> r[i]]
  BY Zenon
<1> HIDE DEF r
<1>7. r \in [1..n -> Items]
  BY <1>4, <1>6
<1>8. r \in Seq(Items) /\ Len(r) = n
  BY <1>5, <1>7
<1> QED
  BY <1>2, <1>8 DEF r

ContentsInv ==
    /\ Contents \in Seq(Items)
    /\ Len(Contents) = Occupancy
    /\ \A i \in 1..Occupancy : Contents[i] = slots[At(i - 1)]

LEMMA ContentsFacts == IInv => ContentsInv
<1> SUFFICES ASSUME IInv PROVE ContentsInv
  OBVIOUS
<1>1. head \in 0..N-1 /\ Occupancy \in 0..N-1
  BY Facts
<1>2. \A k \in 0..(Occupancy - 1) :
         slots[IF head + k < N THEN head + k ELSE head + k - N] \in Items
  BY DEF IInv, SlotInv, At
<1> QED
  BY <1>1, <1>2, RingFacts DEF ContentsInv, Contents, At

LEMMA ContentsNext == IInv' => ContentsInv'
BY ContentsFacts, PTL

\* A step that leaves the ring alone leaves the queue alone.
LEMMA ContentsKept ==
    ASSUME UNCHANGED <<head, tail, slots>>
    PROVE  Contents' = Contents
BY DEF Contents, Occupancy

\* What the mapping makes of the state: an operation is offered until the
\* store to tail, and delivered by the read of the eventfd.
MappingInv ==
    /\ Done("tail") <=> step \in {0, 3}
    /\ step \notin {0, 3} => op # NoItem
    /\ cpc = "eventfd" => ret # NoItem

LEMMA Mapping == IInv => MappingInv
BY Facts, DoneIs, NoItemAssumption DEF IInv, ProducerInv, ConsumerInv, MappingInv

LEMMA MappingNext == IInv' => MappingInv'
BY Mapping, PTL

LEMMA InitMapped == QueueInit => Queue!Init
<1> SUFFICES ASSUME QueueInit PROVE Queue!Init
  OBVIOUS
<1>1. IInv /\ Occupancy = 0
  BY InitInv, OccupancyIs DEF IInv, QueueInit
<1>2. Contents = << >>
  BY <1>1, ContentsFacts DEF ContentsInv
<1>3. Done("tail")
  BY DEF QueueInit, Done
<1> QED
  BY <1>2, <1>3 DEF QueueInit, Queue!Init

LEMMA PushMapped == ASSUME IInv, IInv', NEW o \in Items, Push(o) PROVE Queue!Offer(o)
<1>1. UNCHANGED <<head, tail, slots, cpc, ret>> /\ step = 0 /\ step' = 1 /\ op' = o
  BY DEF Push, consumer
<1>2. Contents' = Contents
  BY <1>1, ContentsKept
<1> QED
  BY <1>1, <1>2, Mapping, MappingNext DEF MappingInv, Queue!Offer

\* The abstract queue does not see the store to the slot: the slot is not
\* occupied yet.
LEMMA StoreSlotMapped ==
    ASSUME IInv, IInv', StoreSlot
    PROVE  UNCHANGED <<IF Done("tail") THEN NoItem ELSE op, Contents,
                       IF cpc = "eventfd" THEN ret ELSE NoItem>>
<1>1. /\ UNCHANGED <<head, tail, op, cpc, ret>>
      /\ step = 1 /\ step' = 2
      /\ slots' = [slots EXCEPT ![tail] = op]
  BY Facts, StepOf DEF StoreSlot, consumer
<1>2. Occupancy' = Occupancy
  BY <1>1 DEF Occupancy
<1>3. ContentsInv /\ ContentsInv'
  BY ContentsFacts, ContentsNext
<1>4. \A k \in 0..(Occupancy - 1) :
         At(k)' = At(k) /\ At(k) \in 0..N-1 /\ At(k) # tail
  BY <1>1, Facts DEF At, Occ
<1>5. \A i \in 1..Occupancy : i - 1 \in 0..(Occupancy - 1)
  BY Facts
<1>6. \A i \in 1..Occupancy : Contents'[i] = Contents[i]
  BY <1>1, <1>2, <1>3, <1>4, <1>5 DEF ContentsInv, IInv, QueueTypeOK
<1>7. Contents' = Contents
  BY <1>2, <1>3, <1>6, SeqEqual DEF ContentsInv
<1> QED
  BY <1>1, <1>7, Mapping, MappingNext DEF MappingInv

LEMMA StoreTailMapped == ASSUME IInv, IInv', StoreTail PROVE Queue!Enter
<1>1. /\ UNCHANGED <<head, slots, op, cpc, ret>>
      /\ step = 2 /\ step' = 3 /\ tail' = Succ(tail)
  BY Facts, StepOf DEF StoreTail, consumer
<1>2. Occupancy < N - 1 /\ slots[tail] = op /\ op \in Items
  BY <1>1 DEF IInv, ProducerInv
<1>3. ContentsInv /\ ContentsInv'
  BY ContentsFacts, ContentsNext
<1>4. Occupancy' = Occupancy + 1
  BY <1>1, <1>2, Facts, OccupancyMoves, OccupancyNext DEF IInv
<1>5. At(Occupancy) = tail /\ \A k : At(k)' = At(k)
  BY <1>1, Facts DEF At, Occ
<1>6. /\ Append(Contents, op) \in Seq(Items)
      /\ Len(Append(Contents, op)) = Occupancy + 1
      /\ \A i \in 1..Occupancy : Append(Contents, op)[i] = Contents[i]
      /\ Append(Contents, op)[Occupancy + 1] = op
  BY <1>2, <1>3, Facts DEF ContentsInv
<1>7. \A i \in 1..(Occupancy + 1) : Contents'[i] = Append(Contents, op)[i]
  <2>1. \A i \in 1..Occupancy : i \in 1..(Occupancy + 1)
    BY Facts
  <2>2. \A i \in 1..Occupancy : Contents'[i] = Contents[i]
    BY <1>1, <1>3, <1>4, <1>5, <2>1 DEF ContentsInv
  <2>3. Contents'[Occupancy + 1] = op
    <3>1. Occupancy + 1 \in 1..Occupancy' /\ (Occupancy + 1) - 1 = Occupancy
      BY <1>4, Facts
    <3>2. Contents'[Occupancy + 1] = slots[At(Occupancy)]
      BY <1>1, <1>3, <1>5, <3>1 DEF ContentsInv
    <3> QED
      BY <1>2, <1>5, <3>2
  <2>4. \A i \in 1..(Occupancy + 1) : i \in 1..Occupancy \/ i = Occupancy + 1
    BY Facts
  <2> QED
    BY <1>6, <2>2, <2>3, <2>4
<1>8. Contents' = Append(Contents, op)
  BY <1>3, <1>4, <1>6, <1>7, SeqEqual DEF ContentsInv
<1>9. Len(Contents) < N - 1
  BY <1>2, <1>3 DEF ContentsInv
<1> QED
  BY <1>1, <1>2, <1>8, <1>9, Mapping, MappingNext DEF MappingInv, Queue!Enter

LEMMA PopAdvanceMapped == ASSUME IInv, IInv', PopAdvance PROVE Queue!Leave
<1>1. /\ UNCHANGED <<tail, slots, ret, step, op>>
      /\ cpc = "advance" /\ cpc' = "eventfd" /\ head' = Succ(head)
  BY DEF PopAdvance, producer
<1>2. Occupancy > 0 /\ ret = slots[head] /\ Occupancy \in Nat
  BY <1>1, Facts DEF IInv, ConsumerInv
<1>3. ContentsInv /\ ContentsInv'
  BY ContentsFacts, ContentsNext
<1>4. Occupancy' = Occupancy - 1
  BY <1>1, <1>2, Facts, OccupancyMoves, OccupancyNext DEF IInv
<1>5. Contents # << >>
  BY <1>2, <1>3 DEF ContentsInv
<1>6. Head(Contents) = ret
  <2>1. 1 \in 1..Occupancy /\ At(1 - 1) = head
    BY <1>2, Facts DEF At
  <2>2. Head(Contents) = Contents[1]
    BY <1>3, <1>5 DEF ContentsInv
  <2> QED
    BY <1>2, <1>3, <2>1, <2>2 DEF ContentsInv
<1>7. /\ Tail(Contents) \in Seq(Items)
      /\ Len(Tail(Contents)) = Occupancy - 1
      /\ \A i \in 1..(Occupancy - 1) : Tail(Contents)[i] = Contents[i + 1]
  BY <1>3, <1>5, HeadTailProperties DEF ContentsInv
<1>8. \A i \in 1..(Occupancy - 1) : Contents'[i] = Tail(Contents)[i]
  <2>1. ASSUME NEW i \in 1..(Occupancy - 1)
        PROVE  i + 1 \in 1..Occupancy /\ At(i - 1)' = At((i + 1) - 1)
    <3>1. head' = IF head + 1 = N THEN 0 ELSE head + 1
      BY <1>1, Facts, SuccIs
    <3>2. /\ i \in Int /\ i >= 1 /\ i <= Occupancy - 1
          /\ Occupancy \in Int /\ Occupancy <= N - 1
          /\ head \in Int /\ N \in Int /\ head >= 0 /\ head < N /\ N > 1
      BY Facts
    <3>3. (i + 1) - 1 = i /\ i + 1 \in 1..Occupancy
      BY <3>2
    <3>4. At(i - 1)' = At(i)
      BY <3>1, <3>2, SizeAssumption DEF At
    <3> QED
      BY <3>3, <3>4
  <2> QED
    BY <1>1, <1>3, <1>4, <1>7, <2>1 DEF ContentsInv
<1>9. Contents' = Tail(Contents)
  BY <1>3, <1>4, <1>7, <1>8, SeqEqual DEF ContentsInv
<1> QED
  BY <1>1, <1>5, <1>6, <1>9, Mapping, MappingNext DEF MappingInv, Queue!Leave

LEMMA PopEventfdMapped == ASSUME IInv, IInv', PopEventfd PROVE Queue!Deliver
<1>1. UNCHANGED <<head, tail, slots, step, op>> /\ cpc = "eventfd" /\ cpc' = "empty"
  BY DEF PopEventfd, producer
<1>2. Contents' = Contents
  BY <1>1, ContentsKept
<1> QED
  BY <1>1, <1>2, Mapping, MappingNext DEF MappingInv, Queue!Deliver

\* What the abstract queue does not see: the write to the eventfd, and the I/O
\* thread's calls of epoll and its reads.
LEMMA OtherMapped ==
    ASSUME IInv, IInv',
           \/ WriteEventfd \/ AddEventfd \/ WaitEventfd \/ PopCheckEmpty \/ PopRead
           \/ UNCHANGED queueVars
    PROVE  UNCHANGED <<IF Done("tail") THEN NoItem ELSE op, Contents,
                       IF cpc = "eventfd" THEN ret ELSE NoItem>>
<1>1. /\ UNCHANGED <<head, tail, slots, op>>
      /\ UNCHANGED step \/ (step = 3 /\ step' = 0)
      /\ UNCHANGED <<cpc, ret>> \/ (cpc # "eventfd" /\ cpc' # "eventfd")
  BY Facts, StepOf
  DEF WriteEventfd, AddEventfd, WaitEventfd, PopCheckEmpty, PopRead, queueVars, producer, consumer
<1>2. Contents' = Contents
  BY <1>1, ContentsKept
<1> QED
  BY <1>1, <1>2, Mapping, MappingNext DEF MappingInv

\* The ring without locks behaves as a bounded first-in first-out queue, for
\* every size: each access of the code is a step of the queue or none.
THEOREM Refinement == QueueSpec => ImplementsQueue
<1>1. IInv /\ IInv' /\ [QueueNext]_queueVars =>
        [Queue!Next]_<<IF Done("tail") THEN NoItem ELSE op, Contents,
                       IF cpc = "eventfd" THEN ret ELSE NoItem>>
  <2> SUFFICES ASSUME IInv, IInv', [QueueNext]_queueVars
               PROVE  \/ Queue!Next
                      \/ UNCHANGED <<IF Done("tail") THEN NoItem ELSE op, Contents,
                                     IF cpc = "eventfd" THEN ret ELSE NoItem>>
    OBVIOUS
  <2>1. ASSUME NEW o \in Items, Push(o) PROVE Queue!Next
    BY <2>1, PushMapped DEF Queue!Next
  <2>2. CASE StoreTail
    BY <2>2, StoreTailMapped DEF Queue!Next
  <2>3. CASE PopAdvance
    BY <2>3, PopAdvanceMapped DEF Queue!Next
  <2>4. CASE PopEventfd
    BY <2>4, PopEventfdMapped DEF Queue!Next
  <2>5. CASE StoreSlot
    BY <2>5, StoreSlotMapped
  <2>6. CASE \/ WriteEventfd \/ AddEventfd \/ WaitEventfd \/ PopCheckEmpty \/ PopRead
             \/ UNCHANGED queueVars
    BY <2>6, OtherMapped
  <2> QED
    BY <2>1, <2>2, <2>3, <2>4, <2>5, <2>6 DEF QueueNext, Producer, Consumer
<1> QED
  BY <1>1, Invariance, InitMapped, PTL DEF QueueSpec, ImplementsQueue, Queue!Spec

=============================================================================
