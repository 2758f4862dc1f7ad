------------------------------- MODULE IOQueue ------------------------------
(***************************************************************************)
(* The queue of I/O operations between a worker and its I/O thread: a ring *)
(* without locks for one producer and one consumer, and an eventfd on      *)
(* which the consumer sleeps in an edge-triggered epoll_wait.  One shared  *)
(* access or system call is one action.                                    *)
(*                                                                         *)
(* A definition whose name continues that of the one below it is the       *)
(* latter's mutant.                                                        *)
(***************************************************************************)
EXTENDS Integers, Sequences

CONSTANTS
    Items,      \* operations
    N,          \* IO_Q_SIZE
    NoItem

ASSUME SizeAssumption == N \in Nat /\ N > 1
ASSUME NoItemAssumption == NoItem \notin Items

VARIABLES
    head, tail, slots,  \* io_queue_t
    counter,            \* of the eventfd
    edge,               \* the eventfd is on epoll's ready list
    step,               \* position of the current push in PushOrder, 0 if none
    op,                 \* its argument
    cpc,                \* where the I/O thread is
    ret                 \* local of io_queue_pop

queueVars == <<head, tail, slots, counter, edge, step, op, cpc, ret>>
producer == <<step, op>>
consumer == <<cpc, ret>>

QueueTypeOK ==
    /\ head \in 0..N-1 /\ tail \in 0..N-1
    /\ slots \in [0..N-1 -> Items \cup {NoItem}]
    /\ counter \in 0..N
    /\ edge \in BOOLEAN
    /\ step \in 0..3 /\ op \in Items \cup {NoItem}
    /\ cpc \in {"add", "wait", "empty", "read", "advance", "eventfd"}
    /\ ret \in Items \cup {NoItem}

\* new_io_queue
QueueInit ==
    /\ head = 0 /\ tail = 0
    /\ slots = [i \in 0..N-1 |-> NoItem]
    /\ counter = 0 /\ edge = FALSE
    /\ step = 0 /\ op = NoItem
    /\ cpc = "add" /\ ret = NoItem

Succ(i) == (i + 1) % N

-----------------------------------------------------------------------------
(* io_queue_push *)

HasSpace == Succ(tail) # head

\* What push does once there is room, in the order of the code.
PushOrderTailFirst == <<"tail", "slot", "eventfd">>
PushOrderWakeFirst == <<"slot", "eventfd", "tail">>
PushOrder == <<"slot", "tail", "eventfd">>

Push(o) ==
    /\ step = 0
    /\ step' = 1 /\ op' = o
    /\ UNCHANGED <<head, tail, slots, counter, edge>> /\ UNCHANGED consumer

Advance == step' = (step + 1) % (Len(PushOrder) + 1)

\* The spin for space ends in the step that makes the first store.
StoreSlot ==
    /\ step > 0 /\ PushOrder[step] = "slot"
    /\ step = 1 => HasSpace
    /\ slots' = [slots EXCEPT ![tail] = op]
    /\ Advance
    /\ UNCHANGED <<head, tail, counter, edge, op>> /\ UNCHANGED consumer

StoreTail ==
    /\ step > 0 /\ PushOrder[step] = "tail"
    /\ step = 1 => HasSpace
    /\ tail' = Succ(tail)
    /\ Advance
    /\ UNCHANGED <<head, slots, counter, edge, op>> /\ UNCHANGED consumer

\* write() to the eventfd: wakes an epoll_wait, now or later.
WriteEventfd ==
    /\ step > 0 /\ PushOrder[step] = "eventfd"
    /\ counter' = counter + 1
    /\ edge' = (cpc # "add")
    /\ Advance
    /\ UNCHANGED <<head, tail, slots, op>> /\ UNCHANGED consumer

-----------------------------------------------------------------------------
(* The I/O thread: epoll_wait, then io_queue_pop until it returns INVALID *)

\* EPOLL_CTL_ADD reports an eventfd that is already readable.
AddEventfd ==
    /\ cpc = "add"
    /\ edge' = (counter > 0)
    /\ cpc' = "wait"
    /\ UNCHANGED <<head, tail, slots, counter, ret>> /\ UNCHANGED producer

\* epoll_wait takes the eventfd off the ready list, and returns only if it
\* still is readable.
WaitEventfd ==
    /\ cpc = "wait"
    /\ edge
    /\ edge' = FALSE
    /\ cpc' = IF counter > 0 THEN "empty" ELSE "wait"
    /\ UNCHANGED <<head, tail, slots, counter, ret>> /\ UNCHANGED producer

PopCheckEmpty ==
    /\ cpc = "empty"
    /\ cpc' = IF head = tail THEN "wait" ELSE "read"
    /\ UNCHANGED <<head, tail, slots, counter, edge, ret>> /\ UNCHANGED producer

PopRead ==
    /\ cpc = "read"
    /\ ret' = slots[head]
    /\ cpc' = "advance"
    /\ UNCHANGED <<head, tail, slots, counter, edge>> /\ UNCHANGED producer

PopAdvance ==
    /\ cpc = "advance"
    /\ head' = Succ(head)
    /\ cpc' = "eventfd"
    /\ UNCHANGED <<tail, slots, counter, edge, ret>> /\ UNCHANGED producer

\* As if the eventfd were created without EFD_SEMAPHORE.
PopEventfdReset ==
    /\ cpc = "eventfd"
    /\ counter > 0
    /\ counter' = 0
    /\ cpc' = "empty" /\ ret' = NoItem
    /\ UNCHANGED <<head, tail, slots, edge>> /\ UNCHANGED producer

\* read() of the eventfd: takes one from the counter and blocks while it is 0.
PopEventfd ==
    /\ cpc = "eventfd"
    /\ counter > 0
    /\ counter' = counter - 1
    /\ cpc' = "empty" /\ ret' = NoItem
    /\ UNCHANGED <<head, tail, slots, edge>> /\ UNCHANGED producer

-----------------------------------------------------------------------------
Producer == StoreSlot \/ StoreTail \/ WriteEventfd
Consumer ==
    AddEventfd \/ WaitEventfd \/ PopCheckEmpty \/ PopRead \/ PopAdvance \/ PopEventfd

QueueNext == Producer \/ Consumer \/ \E o \in Items : Push(o)

\* A push that was begun and the I/O thread go on; nobody has to push.
QueueFairness == WF_queueVars(Producer) /\ WF_queueVars(Consumer)

QueueSpec == QueueInit /\ [][QueueNext]_queueVars /\ QueueFairness

-----------------------------------------------------------------------------
(* Properties *)

Occupancy == (tail + N - head) % N
Contents == [i \in 1..Occupancy |-> slots[(head + i - 1) % N]]

\* Has the current push done this step?
Done(s) == step = 0 \/ \E i \in 1..step-1 : PushOrder[i] = s

\* The ring is a first-in first-out queue of N - 1 operations: the consumer
\* sees what was pushed, once, in order, although slots are reused and the
\* two sides share no lock.
Queue == INSTANCE OpQueue WITH
            Ops <- Items, NULL <- NoItem,
            Capacity <- N - 1,
            input <- IF Done("tail") THEN NoItem ELSE op,
            queue <- Contents,
            output <- IF cpc = "eventfd" THEN ret ELSE NoItem
ImplementsQueue == Queue!Spec

\* The eventfd counts the queue: what was pushed and not popped, apart from
\* the push and the pop under way.  So the read in io_queue_pop, which blocks
\* at 0, waits at most for the write of the push whose operation it took.  And
\* no wake-up is lost: the I/O thread sleeps on a queue that is not empty only
\* while a push has still to write to the eventfd.
CounterCounts ==
    /\ counter = Occupancy + (IF cpc = "eventfd" THEN 1 ELSE 0)
                 - (IF Done("tail") /\ ~Done("eventfd") THEN 1 ELSE 0)
    /\ cpc = "wait" /\ ~edge /\ step = 0 => head = tail

\* The I/O thread takes every operation out of the ring, so a push that spins
\* on a full ring is let in.
Drains == \A i \in 0..N-1 : (head = i /\ tail # i) ~> head # i
=============================================================================
