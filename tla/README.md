# Cilk-L in TLA+

Cilk-L is a work-stealing runtime: Cilk Plus (spawn, sync, reducers,
exceptions) with futures that may be waited for anywhere, and with I/O
operations that are futures completed by I/O threads.  This directory holds
TLA+ models of it: of the parts in which workers, thieves, I/O threads
and threads of the user meet without a common lock, and of the data structures
these parts hand to each other (reducer maps, fibers, memory, exceptions).
TLC configurations check them on small instances, and TLAPS proofs show the safety of eight
of them for every size.

The code is under `src/cilk-l/`: `runtime/` (scheduler, deques, fibers,
I/O scheduler, allocators) and `include/cilk/` (futures, I/O, the reducer library).  Paths
below are relative to it.  `PROJECT.json` gives, for every definition that
models code, the lines it models.

## 1. The system

| component | state | operations | meets |
|---|---|---|---|
| THE deque (`deque.c`, `cilk-abi.c`, parts of `scheduler.c`) | `head`, `tail`, `exc`, `protected_tail`, the `ltq` array | spawn (push), `__cilkrts_undo_detach`, `THE_exception_check`, pop at a sync, self-promotion, `dekker_protocol`, `detach_for_steal` | its owner without a lock, thieves under the owner's worker lock |
| full frames (`full_frame.c`, `scheduler.c`) | children list, `join_counter`, reducer-map and exception slots, fibers | `push_child`, return of a stolen child, sync, provably good steal, `longjmp_into_runtime` | workers that return or sync, under the frame lock, which is dropped while reduce functions run |
| called full frames (`scheduler.c`, `sysdep-unix.c`) | call chains, `call_stack`, `sync_sp`, stack pointers | `unroll_call_stack`, `__cilkrts_return`, `finalize_child_for_call`, put and take of the stack | thieves and the workers that return later |
| exceptions (`except-gcc.cpp`) | `__cxa_eh_globals` of each thread, pending records of each frame | save, merge, restore, rethrow | the C++ runtime; full frames |
| futures (`future.h`, `cilk-abi-future.cpp`) | `m_num_suspended_deques`, head and tail of a list linked through the deques, `m_status` | `get`, `put`, `reset` | getters and the putter, with atomic instructions only |
| suspended deques (`deque_pool.c`, `deque.c`, `random_steal`) | two pools per worker, `worker`, `self`, `resumable`, `fiber` of each deque | suspend, steal from, mug, make resumable, resume, switch | workers and I/O threads, under the lock of the worker named by a field read without one |
| worker lock (`worker_mutex.c`, `scheduler.c`) | lock word, owner, `do_not_steal` | `__cilkrts_worker_lock`, the trylock of `random_steal`, direct lock | a worker and its thieves |
| I/O queue (`cilk-io-queue.c`) | ring, `head`, `tail`, eventfd | push, pop | one worker and its I/O thread |
| I/O scheduler (`io_scheduler.cpp`, `cilk-io.cpp`) | sets and queues of parked operations, epoll registrations | the loop: wait, new operation, retry parked ones, complete | the kernel, and the futures of the operations |
| termination (`scheduler.c`, `deque_pool.c`) | `active_workers`, `exit_frame`, `next_frame_ff` | every increment and decrement, return from the initial frame, hand-over to worker 0 | all workers |
| runtime start, settings, shutdown (`global_state.cpp`, `scheduler.c`, `sysdep-unix.c`, `cilk_api.c`) | the global state, its settings, the threads | `set_param`, initialise, start workers, bind and unbind threads, suspend, resume, end | threads of the user |
| signal tree (`signal_node.c`, `scheduler.c`) | a flag and a semaphore per system worker | the messages to run and to wait, passed from parent to children | system workers and the threads that enter and leave Cilk |
| fibers, fiber pools, future fibers (`cilk_fiber.cpp`, `cilk-abi-future.cpp`) | pools with limits, owner and pending actions of each fiber, the deque of future fibers | allocate, free, switch with an action afterwards, call and leave a future | all workers |
| frame allocator (`frame_malloc.c`) | free lists and a potential per worker, global lists and pool | allocate, free, hand back, clean up | all workers, under one lock |
| reducer maps (`reducer_impl.cpp`) | a hash table of views per strand | register, look up, unregister, merge | merges at returns and syncs; user code |
| reducer library (`include/cilk/reducer*.h`, `holder.h`) | views | identity, update, reduce, set and get | the maps |
| `cilk_for` and pedigrees (`cilk-abi-cilk-for.cpp`, `pedigrees.c`) | ranges, ranks | split, run a grain, bump ranks | thieves |
| record and replay (`record-replay.cpp`) | a log per worker | record, load, wait for what was recorded | thieves, syncs and returns |
| scheduling loop | a worker's next frame, its choice of victim | `worker_scheduler_function`, `random_steal` | spread over the modules above |
| mutexes, statistics, tool interfaces, ports to other systems, TBB interoperability, benchmarks | | | |

How they interact: a spawn pushes on the worker's THE deque.  A thief that wins
the dekker protocol turns the parent into a full frame and makes the victim's
current work a child in its list; what returns or syncs later joins through the
full frame.  A `get` on a future that is not ready queues the worker's whole deque
in the future and leaves it to the pools, from which thieves steal the work on
it.  `put`, on a worker or an I/O thread, hands every queued deque back.  An I/O
operation is pushed on the worker's ring for its I/O thread, and completes as a
`put`.  Because a future need not be joined by any sync, the runtime counts
strands to know when the first Cilk function may return.

What is hard in this code:

- synchronization by order of plain stores and by single atomic instructions
  (THE deque, futures, ring), under x86's store buffering;
- locks chosen by a field that is read before the lock is held (`d->worker`);
- things done after a lock is dropped: reduce functions, leaving a fiber, the
  late stores of `deque_mug`;
- edge-triggered epoll with a blocking eventfd: an edge is told once;
- counts kept in step in many places (`active_workers`, `join_counter`, the eventfd);
- two structures that must agree although they change at different times: the
  THE deque and the deque of future fibers, the list of children and the
  maps and exceptions that hang between them;
- state of a *thread* that belongs to a *strand*: the fiber it is on, its exceptions;
- messages that pass each other in the signal tree.

The hazards, each at its line with the property that would notice it going
wrong, are listed in `PROJECT.json`.

## 2. The modules

    FutureCell <---refines--- Future            OpQueue <---refines--- IOQueue
                                                                          |
    THEProtocol --> FullFrame, CallChain, SuspendedDeques,     IOScheduler (FIFO)
                    Termination, Fibers, Reduction, RecordReplay
    WorkerLock  --> "under a worker's lock" is one action in the others
    Future      --> a put is one wake-up in SuspendedDeques, Termination, IOScheduler
    FullFrame   --> a join is one step in CallChain, Fibers and Reduction

    PendingExceptions <- FullFrame              FrameSizes <- FrameMalloc, HyperMap
    GlobalState <- Runtime
    MinMaxReducers, OpReducers, ContainerReducers, Holders <- Reducers
    Reducers, HyperMap, CilkFor <- Reduction

In the upper part an arrow that is not "refines" means that the module on the right takes as one
step what the one on the left shows to behave like one.  The steal of one continuation is
atomic in FullFrame, SuspendedDeques and the others because of `Exclusive` and
`StealsOldest`; the ring is a FIFO queue in IOScheduler because IOQueue
implements OpQueue.  In the lower part `A <- B` means that B extends A; the modules on the left
have operators and no state.

A definition that is called a mutant in its comment, or whose name continues that of the
definition below it, is a plausible mistake in the same code.  The specification does
not use it; with it in place of the definition some property fails.

Five MC modules hold several models each (MCStealing: WorkerLock, THEProtocol and SuspendedDeques;
MCIO: IOQueue and IOScheduler; MCFullFrame: FullFrame and CallChain; MCPools:
Fibers and FrameMalloc; MCReduction: Reduction and RecordReplay).  The models share no
state; a variable `chosen`, fixed at the start, says which of them a behaviour explores.

### Scheduling

**THEProtocol.**  One deque, its owner and any set of thieves.  The owner's stores to the
slot and to T go through a FIFO store buffer (`sb`); `otail` is T as the owner
sees it, `Drain` lets the oldest store out, fences and locked instructions wait
for an empty buffer.  Owner: `SpawnChild`, `UndoDetach` (lowers T, fence) and `CompareE` (the test of
T against E, as a later step), `THE_exception_check`, `PopTail` (the pop
at a sync, under the lock), `PromoteOwnDeque`, `EnterRuntime`, `Reduce`, `SetupForExecution`.  Thief:
`LockVictim`, `CanStealFrom`, `GiveUp`, `IncrementE`, `Dekker`, `DecrementE`, `Detach`, `Unroll`, `Finish`,
one shared access each.  The first look at the deque (`CanStealFrom`, `scheduler.c:876`), the raise of E
(`IncrementE`, `deque.c:123`) and the second look (`Dekker`, `deque.c:187`) are apart: a fiber is allocated after the first,
and the owner may lower T and pass its own test before E is raised, so that only the second look keeps
the thief from a frame the owner goes on with.  `protected_tail` starts at 0 or at the limit: on Unix
`__cilkrts_disallow_stealing` is not called while anyone steals.

**PendingExceptions, FullFrame.**  A frame (strand 0) and the children cut off from it by steals.
An action is one critical section of the frame lock; between two sections of the same
worker the others act.  A reducer map is the sequence of updates in it, each
named by its place in the serial execution, and a merge concatenates: the
associativity that reducers promise is built in, commutativity is not (Reduction has
the maps themselves).  Fibers are tokens that move between `fiber_self`, `fiber_child`,
`fiber_to_free` and the pool.  `eh_globals` is what the C++ runtime keeps for the thread
that runs a strand, the handlers it is in and the number of exceptions thrown and not caught; the frame may
be called from within a handler and while an exception unwinds.  `Return`,
`exception_from_spawn` and `c_sync_except` move it into a record, the joins
merge the records, and `Resume` restores it, throws what is pending, and catches it.

**CallChain.**  Functions that call, spawn, sync and return on numbered places of
fibers.  A steal turns the call chain of the stolen continuation into full frames
(`unroll_call_stack`); a called function whose caller is a full frame returns through
the runtime (`return_to_full_frame`), and the stack pointer it returns with is computed from `sync_sp` as
`__cilkrts_put_stack` and `__cilkrts_take_stack` do.

**FutureCell, Future.**  `FutureCell` is the promise: a cell that is empty or
full, where a read ends only when it is full, and reset only when nobody reads; `void` is the moment
from which the code promises nothing any more.  `Future` is the code: the waiter counter
with its `INT32_MIN` trick, the exchange of the list's tail, the link stored afterwards,
and `put`'s walk along the list, one shared access per action.  A strand has one link and may want several futures.
`strayed` records that a waiter which `put` has just woken cleared its link, for another future, before `put` went on
from it (section 5).

**OpQueue, IOQueue.**  `OpQueue` is a bounded FIFO with an operation on its way
in and one on its way out.  `IOQueue` is the ring, the eventfd (a counter with a
blocking semaphore read) and the edge of the epoll wait.

**IOScheduler.**  The I/O thread, one system call per action, with the kernel changing
the readiness of descriptors at any time; partial transfers, errors, `EAGAIN`,
and descriptors closed and reused.  A descriptor may be used in both directions, and has one registration with
epoll; `crossed` records the descriptor and direction of an operation that parked while the registration was, or was about to
be dropped by, the other direction's (section 5).

**SuspendedDeques.**  Workers and I/O threads, the deques and the pools.
A worker's lock is explicit; fields of a deque that the code touches without a
lock are separate actions: the read of `d->worker`, the stores after it was
cleared, the moment a worker has left its fiber.  What a strand does is left open:
it pushes, pops, waits or ends when it likes.

**WorkerLock.**  The mutex with its owner field, and around it what the running program does with it: the worker's
protocol (raise `do_not_steal` and spin), thieves that try the lock in `random_steal` without looking at that flag
and ask the owner field, without the lock, whether there is something to unlock, and the direct locking of the pool operations.
`worker_trylock_other`, which does look at the flag, has no caller and is not modelled.

**Termination.**  Strands, the worker that executes each, and the counter.  A steal
splits a strand: `FailToSteal` and `Detach` are the outcomes of an attempt that has raised the counter
already.  `ReturnFromInitial`, `LastOne`, `SetExitFrame`, `DecrementInitial` and `Exit` are
the steps of `__cilkrts_c_return_from_initial`, and `Enter` is the next call of a Cilk function.

### Starting, sleeping and stopping

**GlobalState, Runtime.**  Operators for the settings: defaults, environment,
`__cilkrts_set_param`, and what the first entry derives from them.  `Runtime` has
the threads of the user (set a parameter, initialise with the check, the lock and the second check,
bind, leave, suspend, resume, end) and the system workers, for which each access to a
signal node's flag or semaphore is a step.  A failed assertion or `__cilkrts_bug` ends
the process (`aborted`).

### Memory and stacks

**Fibers.**  The pools with their limits and parents, the allocation from pool and heap,
every kind of switch with the action that is left for the fiber switched to (which may only
free a fiber once its worker has left it), the deque of future fibers beside the frames of a deque, the fibers a
worker keeps for futures, and the shutdown.

**FrameSizes, FrameMalloc.**  The size classes, and the allocator: a call is one step, because a worker's
lists are its own and the global state is touched once in a call, under its lock.  Blocks are
addresses in chunks.

### Reducers and loops

**MinMaxReducers, OpReducers, ContainerReducers, Holders, Reducers.**  Every monoid of the
library as operators on views: identity, updates, reduce, the leftmost views that each
constructor makes, and the C macros' versions of the same.  Integers wrap at the
width of their type; an ostream, a string or a vector is the sequence of pieces written
to it; a view that is not set differs from one set to the identity exactly where
the code makes the difference (`is_set`).

**HyperMap.**  The hash table: hashing, buckets that grow to what the frame
allocator gives, rehashing, removal.

**CilkFor.**  Grain size and splitting in numbers of a fixed width, and the pedigree of
an iteration through spawns, syncs and the loop's own steps.

**Reduction.**  A loop whose iterations update, construct and destroy
reducers of every kind in tables of the strands that thieves make of it, and neighbours that merge
their tables, with reduce functions that use reducers themselves.

**RecordReplay.**  A tree of functions is executed and recorded with arbitrary steals, and
then again from the log.

## 3. The runs

States are distinct states.

| run | instance | states | shows |
|---|---|---|---|
| `stealing` | a lock and 3 thieves; 3 frames, 2 thieves, 2 slots, 4 stores in flight; 2 workers, 1 I/O thread, 4 deques, 1 continuation each | 1,041,903 | `OwnerFieldIsRight` the assertions of the mutex hold and no thief keeps or releases a lock wrongly; `Exclusive` a continuation is executed once; `StealsOldest` a thief reads the frame the owner pushed, although it reads after moving H; `EmptyInRuntime` nothing is left on the deque of an owner that enters the runtime; `PoolsConsistent`, `NoDequeLost`, `OneWorkerPerFiber` |
| `full_frame` | 3 steals, 3 updates or exceptions, 4 fibers; 3 workers, 5 calls or spawns, 4 fibers | 429,265 | `SerialOrder` reductions happen in serial order; `ExceptionStateKept` the first exception is thrown and the exception state follows its strand; `FibersHeldOnce`; `SyncCompletes`; and of CallChain `EveryFunctionOnce`, `ReturnsToCaller` |
| `future` | 3 deques that get one future, one of them a second as well; `INT32_MIN` = -16 | 439,336 | `GetReturnsReady`, `GetTerminates`, `ImplementsCell`, each until a put has lost its waiter's link |
| `future_assert` | the same with a fourth deque that gets the second future | | the finding on `assert(ready())` |
| `io` | ring of 4, 2 operations, any number of pushes; 2 writes and a read on one socket | 84,278 | `CounterCounts` the eventfd counts the ring; `ImplementsQueue`; `Drains`; `ParkedIsWatched` nothing parked is missed by epoll, unless the two directions crossed; `InOrder`; `ReportsWhatMoved`; `Completes` |
| `overtaking` | a lock and 2 thieves | | the finding on `do_not_steal` |
| `termination` | 2 workers, 4 strands, 1 continuation each | 602,473 | `ExitsLast` the user's thread leaves exactly when all strands have ended; `UserReturns` once the root has come to its end and no other strand is left it does leave, whoever was the last |
| `runtime` | 2 threads of the user, 1 or 4 workers (by the environment) or 2 (processors), 3 calls that set stacks or a pool size | 573,022 | `StartedOnce`, `SettingsUsable`, `AllWake`, `AllSleep` |
| `pools` | 2 workers, 4 fibers, pools of 1 and 2; 2 workers, chunks of 3 bytes, blocks of 1 and 2 | 1,120,253 | `FibersPartitioned`, `FiberDequeInStep`, `NeverRestarted`; `MemoryPartitioned` |
| `reduction` | every reducer of the library alone, and 5 hyperobjects in one table; loops of 0, 3 and 4 iterations, 3 workers; a program of 5 functions recorded and replayed by 3 workers | 118,439 | `SerialResult`, `TablesAreDictionaries`, `ViewsOwnedOnce`; `SerialPedigrees` each iteration runs once and the strands have pedigrees in serial order; `ReplayEnds` |
| `cilk_for_wrap` | loops of 40, 41 and 63 iterations in a 6-bit type | | the finding on the grain size |
| `default_index` | an index reducer with default index 9, updated only with the identity value | | the finding on the default index |

The runs without a number end with a counterexample; each checks a statement of a comment
or an assertion that the code does not keep (section 5).

Deadlock is checked except in `runtime`, where the process ends by a shutdown or a failed
assertion, in `pools`, where it ends when workers and pools are destroyed, and in `future`, where a put that has lost a link
waits for ever for the next one.

### Why these bounds

- *stealing*: on the THE deque the races are between the owner, the thief inside and the
  thief waiting for the lock, around a deque of zero, one or two continuations;
  two slots are a contested one and another, the third frame is the one the owner runs, and four
  stores in flight are two whole spawns that thieves cannot see yet.  The
  theorems below hold for any sizes.  In the pools there is a running deque per worker, one suspended, one on its way
  between pools; two pooled deques let a removal move another element.  For the lock: one actor inside, one at each
  side of an access without it, and one more.
- *full_frame*: a middle child has a neighbour on each side, so a returning
  child can meet both a left and a right sibling that change behind its back;
  more siblings repeat the same pattern.  Three events suffice for a
  disagreement in order with one in between.  The one thread that calls the frame
  is in a handler and unwinds another exception, the other threads do neither, so a state
  that is lost, doubled or left behind shows.  Five calls,
  spawns and allocations leave room for called functions between two spawns that are both stolen from.
- *future*: a first waiter, a middle and a last one, so that `put` meets a link
  that is there and one that is not, and one waiter that can queue for a second future while `put` is on its link.  The
  fourth deque of `future_assert` is who may be woken too early.  `INT32_MIN` only has to be below minus the number of waiters.
- *io*: a ring of four is full with three; two distinct operations tell
  the slots apart, and pushes go on for ever, so that indices wrap.  On the socket one operation is parked behind another,
  and the other direction meets their registration, waits behind it, or wakes the thread for other reasons.
- *termination*: the initial strand, one child, one future and one more split
  while they end; one continuation per deque makes a deque go from empty to
  stealable and back.
- *runtime*: with four workers the tree has a root and two children, so that a
  message can be behind another one on its way; two threads race for the initialisation and for
  being the last to leave.  The settings are one that is checked before the start (`nstacks`) and the two sizes that
  are accepted at any time and unchecked.
- *pools*: a pool of one fiber is empty and full one step apart, and the root pool
  of two is below what all workers may hold; two frames on a deque let a future be called from a future's parent,
  and one parked deque be resumed by either worker.  Chunks of three bytes are not a multiple of the larger
  block, so there is waste; a potential of five is beyond the point where blocks are handed back.
- *reduction*: four iterations in three strands are merged in every order, in both directions
  of `merge_reducer_maps`.  Values have ties and identities among them.  Five keys force the table
  to rehash, share buckets and grow them.  Four iterations make grains of one and of two, so that an iteration is the first
  of its grain or follows another, with thieves in between; the continuation of the spawn before the loop is stolen or not.  The counts near the type's limit are in the run `cilk_for_wrap`.

Symmetry is used only over sets that the modules treat alike and that no liveness property tells apart: the workers and
the deques of the pools in `stealing`, and in `pools` the workers of the frame allocator.

### Fairness

Only weak fairness is assumed, of a thread that is in the middle of something:
the operating system runs every thread now and then.

- *Future*: each getter's and each putter's next access.  This includes that
  the future's computation is finished and a woken deque is picked up by some
  worker: programs whose futures wait for each other in a circle are outside.
- *IOQueue* (`io`): a push that has begun goes on; the I/O thread runs.  Nobody is
  obliged to push.
- *IOScheduler* (`io`): the I/O thread runs, and each descriptor becomes ready again in
  each direction (the other end of a pipe is read or written eventually).
- *FullFrame*: the frame and each child go on: children return, and a worker in
  the runtime does not stop there.
- *Termination*: a worker finishes what the runtime has begun, and the worker a
  frame was handed to picks it up.  No fairness of user code or of steals.
- *Runtime*: each system worker's next step, and each step of a thread of the user that is in a call
  of the runtime; a thread need not call anything.  The steps by which the process aborts are not required.
- *RecordReplay*: each worker that has something to do or to look for takes a step.
- *THEProtocol*, *WorkerLock*, *SuspendedDeques*, *Fibers*, *FrameMalloc*, *Reduction*, *CallChain*: none; only safety is checked.

## 4. The proofs

**THEProtocol_proofs** proves, for every set of frames and thieves, every number
of slots and every depth of the store buffer, `TypeCorrect`, `ExclusiveTheorem`,
`StealsOldestTheorem` and `EmptyInRuntimeTheorem`.  Assumptions: at least one
slot (`LimitAssumption`), a natural buffer size (`BufferAssumption`; with size 0
stores are visible at once), and that the null values are none of
the frames and thieves.

`Exclusive` is not inductive: that a thief and the owner do not both win follows
from what the owner's buffer may still contain.  The invariant is

    IInv == DequeTypeOK /\ LockInv /\ IndexInv /\ BufferInv /\ SlotInv /\ ThiefInv /\ FrameInv

- `LockInv`: the thief that is inside holds the lock, and E is one more than H
  exactly while a thief has raised it, whether or not there was still something to steal at that moment;
- `IndexInv`: base <= H <= top <= limit, and T as the owner sees it is the top or,
  where it has been lowered speculatively, one below;
- `BufferInv`: no T beyond the top is in memory or in flight, and a slot store in flight carries the
  frame that belongs into that slot;
- `SlotInv`: each slot in use is in memory, or its store is in the buffer ahead of
  every T that would expose it - the argument that two plain stores
  in program order are enough on x86;
- `ThiefInv`: a thief has won only what its second look found below the top, with H unmoved since; before that look nothing
  is claimed of it;
- `FrameInv`: who has which frame.

There is one lemma per action, and a few about sequences that stand for
the buffer (`FrontFacts`, `TailFacts`, `AppendFacts`).

**WorkerLock_proofs** proves, for any set of other workers (`LockActorsAssumption`: the worker is not among them, and `NoWorker` is none of the actors),
`TypeCorrect` and `OwnerFieldTheorem`, from `MutexInv == LockTypeOK /\ HolderInv /\ OwnerInv`: the lock word names
whom the program counters say (`HolderInv`), and the owner field names the holder from the store that follows the acquisition to
the one that begins the release, so that a thief at `done` finds itself in it exactly if it got the lock (`OwnerInv`).

**IOQueue_proofs** proves, for every ring of more than one slot (`SizeAssumption`) and every set of
operations, `TypeCorrect`, `CounterCountsTheorem` and `Refinement`, the implementation of OpQueue.
`CounterCounts` alone says nothing about the slots, and the counter is off by one between
the store to the tail and the write to the eventfd, and between the store to the head and the read;
the invariant is

    IInv == QueueTypeOK /\ SlotInv /\ ProducerInv /\ ConsumerInv /\ CountInv /\ WakeInv

- `ProducerInv`, `ConsumerInv`: what each side has seen stays true whatever the other does (room for
  the push that has stored its operation, an operation for the pop that saw one);
- `SlotInv`: the occupied positions hold operations;
- `CountInv`: the counter is the occupancy, plus one for a pop that has not read, minus one for a push that has
  not written; `WakeInv`: a consumer asleep without an edge has missed at most the push under way.

The refinement maps the ring to the sequence of its occupied positions; lemmas on the remainder (`OccIs`,
`OccupancyMoves`) turn each access into an append, a tail, or a stutter.

**Termination_proofs** proves, for all finite sets of workers and strands, `TypeCorrect` (so the counter
never drops below zero), `CountExact` and `ExitsLastTheorem`.  `ExitsLast` speaks of the moment
of leaving only.  What makes it true is `CountInv`: `active_workers` is the number of strands that
have not ended plus the number of steals under way, so that one means "this strand and no thief",
and zero means nobody.  `NamesInv` says that a steal under way finds a name for the strand it makes; `StrandInv`,
`WorkerInv`, `FrameInv` and `UniqueInv` tie each worker's step to the state of its strand and say that
no two workers have the same one.  Cardinalities move by one element at a time (`OneMore`, `OneLess`).

The second half of the module is about the other end of a computation, the module Runtime: `StartedOnceTheorem` for any
number of threads, workers and calls and any settings (`BoundsAssumption`, `ThreadsAssumption`,
`CpusAssumption`, `StackAssumption`, and `EnvsAssumption`, that `MaxP` bounds the workers the environment asks for),
and `SettingsUsableTheorem`.  `RuntimeInv` says in `ThreadInv` what a thread's label tells of the start: whoever is to
publish, to create threads or to wake the root holds the mutex; whoever is past a check has seen
the state published, or `workers_running` set; and nobody is inside while a thread still creates workers.  `StartInv`
counts: the workers below `k` have been started once and the creator has `k` to P-1 before it (`Created`, `Creates`),
all of them when `workers_running` is set and nobody creates.  `SettingsInv` is that the settings fit each other from
`init_global_state` on, and the fiber pools that are made from them, which `InitGives` derives for any settings; `SetParamGives` says what survives a later
`__cilkrts_set_param`.  The theorem has no hypothesis: the two sizes that are accepted after the start do not matter any more then,
because the pools were made with the sizes of that time (item 10 of section 5).

**Future_proofs** proves, for all finite sets of deques and futures and any `INT32_MIN` below minus the number
of deques (`MinAssumption`), `TypeCorrect`, `GetReturnsReadyTheorem` and `Refinement`, the implementation of FutureCell.
A strand may want any futures.  What the theorems say ends where the code's promise ends, with `strayed`: that a waiter just woken
has cleared its link before `put` read it (item 1 of section 5; the run `future_assert` shows what can follow).
The invariant is `Base /\ (~strayed => CountInv /\ GetInv /\ PutInv /\ ListInv)`: before `put`
the counter is the number of waiters, after it the strands that still hold a ticket cannot bring it back to zero, and `num` is the number of
waiters to come (`CountInv`); what `put` stands on is the head, a waiter it has kept, or one it has woken and that has not
cleared its link, and no two puts stand on the same (`PutInv`); every link behind that has one predecessor, and a next
pointer leads to the successor (`ListInv`).

It also proves `FiberDequeInStepTheorem` of Fibers, for any number of workers, frames and fibers and whatever fibers the pools
give out.  That the fibers of the second deque are as many as the frames that called a future is not inductive:
a thief that takes such a frame makes the head of that deque the fiber of the full frame that is left, which must be the
one the next frame was left on.  `DequesInv` therefore says how a deque hangs together (`Fits`): each frame ran on the fiber
the one before it called its child on, those of spawns on the fiber of their child, the first on `fiber_self`
and the child of the last on the fiber its worker is on, goes back to from a future, or has left at a suspension (`DequeFor`,
`ParkedFits`).  A push, a pop at either end and the fiber a future leaves behind for one
more step each have a lemma (`SpawnFits`, `FutureFits`, `SpawnPops`, `FuturePops`, `FiberPops`, `FitsDetached`); `CalledShifts`,
on how many frames called a future once the first is gone, is proved by a bijection between the places before and after.

**SuspendedDeques_proofs** proves, for all finite sets of workers and deques with more deques than
workers, and any set of I/O threads, `TypeCorrect`, `PoolsConsistentTheorem`, `NoDequeLostTheorem` and
`OneWorkerPerFiberTheorem`.  The three need each other:

    IInv == TypeInv /\ PoolInv /\ LabelInv /\ ActiveInv /\ LeftInv /\ HeldInv /\ DequeInv

- `PoolInv`: each pool is in both directions the set of deques with an index in it (`Indexed`); the lemmas
  `Untouched`, `PutIn` and `TakeOut` say what `deque_pool_add`, and `deque_pool_remove` with its move of the last
  element, do to that;
- `HeldInv`: a deque in someone's hands is in no one else's, and from the step where its worker was read to the
  step where it is looked at under the lock it either is in that worker's pool or has left all pools for good;
- `LeftInv`, `ActiveInv`: a worker that leaves its deque has handed the duty to wake it to exactly one actor, which
  cannot act on it before the fiber says `resumable`;
- `DequeInv`: the places of a deque, and what the marks mean in each.

**IOScheduler_proofs** proves, for any operations, descriptors and sizes, `TypeCorrect`,
`ReportsWhatMovedTheorem`, `ParkedIsWatchedTheorem` and `InOrderTheorem`.  Descriptors may be used in both directions;
`ParkedIsWatched` excepts the direction that parked across the other's registration (`crossed`, item 2 of section 5) and shows that the
other one is not harmed.  The first part of the invariant, `Core`:
an operation is in one place (`PlaceInv`), the thread has in hand what its program counter says
(`HandInv`), a descriptor is blocked exactly while operations are parked on it and then never among those to be removed
(`BlockedInv`), and `nbyte`, `buf` and `res` agree with the bytes moved (`FieldsInv`).  `ParkedIsWatched`
speaks of the moment before the sleep; `WatchInv` is what holds all the time: an edge is in epoll's
list, or in the events in hand, or will be found by the registration that is about to happen, and nothing of the other
direction is about to take the registration away.  `OrderInv` adds to `Core` that an operation that is submitted and not finished
is held somewhere (`Held`), and that whoever was submitted before another of its stream stays ahead of it wherever both
are (`InLine`): among the finished, parked on the descriptor, in the queue, or finished while the other is
performed or parked.  `ParkOrder`
is the step a bug would hurt: an operation that would block is parked, and one that comes from the
queue while others wait goes behind them.

**FullFrame_proofs** proves, for any number of steals and any non-empty set of fibers (`FrameAssumption`), and any states
of the exception globals at the entry (`EntryAssumption`), `TypeCorrect`,
`FibersHeldOnceTheorem`, `SerialOrderTheorem` and `ExceptionStateKeptTheorem`.  That a frame past its sync is on the fiber it was called on cannot be seen from the
fibers: it depends on who finds itself leftmost while others leave the list.  The invariant is

    IInv == TypeInv /\ StepInv /\ CountInv /\ ListInv /\ HandInv /\ HomeInv /\ UniqueInv /\ HeldInv

- `ListInv`: the children that are linked are in the list in the order of their steals, whichever of
  them have been taken out (`UnlinkKeeps`);
- `HomeInv`: until the sync is passed the frame's first fiber is with the leftmost linked child, or already with the
  frame - so that a child without left siblings that finds no fiber there has it (`LeftmostHasHome`);
- `CountInv`: the join counter counts the children that have not joined, and the frame, so that the last to arrive
  finds the list empty and the first fiber with the frame (`LastIsAlone`);
- `HandInv`: what fiber and stack a strand has at each of its steps, and that at most one is about to leave a fiber
  that is already with the frame; `UniqueInv` and `HeldInv`: each fiber is in at most and in at least one place.

The other two properties see what the strands hold, and what is to the right of each child, as one row of
cells in the order of the serial execution (`Row`, `Cells`): a splice gathers neighbouring cells in one (`Gathers`).

- `MapInv` (`SerialOrder`): each map is increasing, what is to the left was earlier (`Ordered`), what a running child may still add has
  its place in between (`Bounded`), and together the cells are the updates so far; `ClearInv`: who has left has nothing, so that
  reading along the list misses no cell;
- `ExcInv` (`ExceptionStateKept`): `FirstInv`, that the exceptions in the cells are ordered in the same way and that no earlier one than all of
  them has been thrown; `OneHas`, that exactly one cell has the state of the handlers that the frame was called with, and
  all others the state of a new thread, so that no two chains are ever merged; `CalmInv`, where there is nothing.

What the frame reads is a concatenation over the children (`ReadTo`, a recursive function).  Induction
over it is not available; the lemmas argue by the least child for which they would fail, which exists by `WFMin` of
WellFoundedInduction.

Each invariant was checked with TLC on the run's instance before it was proved, and each proof has one lemma per action.

**Only model-checked**

- All liveness (`SyncCompletes`, `ReturnsToCaller`, `GetTerminates`, `Drains`, `Completes`,
  `UserReturns`, `ReplayEnds`, `AllWake`, `AllSleep`): fairness is beyond the prover.
- HyperMap uses bit operations and Reduction a recursive operator, for which the prover has no
  support, and what folds over tables compute would again need induction over data (`SerialResult`, `TablesAreDictionaries`,
  `ViewsOwnedOnce`, `SerialPedigrees`, `MemoryPartitioned`).
- `FibersPartitioned` and `NeverRestarted`: where each fiber is depends on the pools, which are filled at the start
  and emptied at the end by recursive functions; only the part that holds whatever they contain, `FiberDequeInStep`, is proved.
- `EveryFunctionOnce` rests on which call every frame of a chain of any length returns into; it has not been proved.

## 5. Where the code and its comments or assertions disagree

Four runs end with a counterexample to what a comment or an assertion says.

- `future_assert`: `put` reads `node->next` after it has made `node` resumable (`include/cilk/future.h:123`).  If that strand has
  meanwhile queued itself for another future, `put` walks into the other list and wakes a strand whose
  future is not ready; `assert(ready())` at line 144 fails.  It takes three waiters of one future and a second future.
- `overtaking`: `random_steal` takes the victim's lock without looking at
  `do_not_steal` (`runtime/scheduler.c:861`), since the call of `worker_trylock_other`, which does, is commented out at line 905.
  The bound on overtaking stated at lines 291 and 321 does not hold.
- `cilk_for_wrap`: `grainsize` (`runtime/cilk-abi-cilk-for.cpp:109`) computes
  `(count + Px8 - 1) / Px8` in the type of `count`.  Within `Px8` of the type's maximum the sum
  wraps and the grain is 0, against the comments at lines 94 ("Avoid generating a zero
  grainsize") and 284 ("Invariant: count > 0, grain >= 1"); a range of one iteration is
  then cut into an empty one and itself, without end.
- `default_index`: `include/cilk/reducer_min_max.h:295` recommends to give an index reducer a default index, for the case that every update is
  the identity value of the type.  `reduce` (line 1236) takes value and index of the right view when that is set and the left is not, so
  the index given is kept in a serial run and replaced by the type's default one if the updates were in a stolen strand.  A `cilk_for` is
  enough: the continuation of the spawn before the loop may be stolen.  `SerialResult` allows exactly this difference, of the index and in this case.

The following were met while the code was modelled.  Where a property of the runs excepts one of them, the item says so; the
others are outside the environments of the runs.  Each was read off the code, and the first three were also seen as
counterexamples of earlier configurations.

*Futures and deques*

1. The loss of a link described for `future_assert` has other outcomes: `put` waits for ever for a link that does not come, or
   waiters are never woken.  The properties of the run `future`, and the theorems on it, hold until it happens (`strayed`), and
   it only ever happens to a program in which a strand gets a second future.
2. `EPOLL_CTL_ADD` fails with `EEXIST` for a descriptor registered
   for the other direction, and the result is ignored
   (`runtime/io_scheduler.cpp:167`); the comment at line 157 expects a second
   registration to be harmless, which is so for the same direction only.  Also, what is parked while the other direction is
   among those to be removed loses its registration at the end of the round.  The operation is then reported only if a
   later one of its direction registers the descriptor.  `ParkedIsWatched` and `Completes` except these operations (`crossed`),
   and only these: a parked operation whose registration the other one meets is still woken.
3. `deque_mug` writes the thief into the suspended frame after it
   has cleared `d->worker` (`runtime/deque.c:641`); another worker may have resumed the
   frame in between, which then names the wrong worker, against
   `include/internal/abi.h:280`.  In the same window `CILK_ASSERT(!d->resumable)` at
   `scheduler.c:882` can fail.
4. `worker_trylock_other`, and the flag it looks at, have no effect on any thief (see `overtaking`); the worker
   raises and lowers `do_not_steal` for nobody.
5. `resume_suspended` with the value 2 calls `deque_destroy`, which asserts `head == tail`: a future that is
   finished before its parent frame was stolen, while a getter already waits, aborts.
6. A deque suspended by `get` does not take the thread's `__cxa_eh_globals` along: a strand that waits
   for a future inside a handler goes on in a thread without its exception state.

*Start and shutdown*

7. `destroy_worker` asserts `NULL == w->l->stats` when profiling is off, but `make_worker` always
   allocates them; `__cilkrts_deinit_internal` frees `workers[1]` although the block begins at
   `workers[0]`; `stop_workers` asserts the signal node of worker 0, which has none.  An
   `__cilkrts_end_cilk` of a started runtime therefore aborts, and so does the unbinding of an overflow worker.
8. `find_free_worker` asserts `WORKER_SYSTEM != type`, so a second thread of the user that enters while the
   first is in Cilk aborts when there is more than one worker.
9. `__cilkrts_set_param` and the reading of the settings by the first entry are not synchronised:
   a check that the runtime is not started and the store after it may enclose the start.
10. Settings: the text "0" or one that is no number gives the number of processors, where the
   documentation names `CILK_NWORKERS` first; the value for "shared stacks" is overwritten when a limit on stacks is
   set; the maximum of user workers is read and not used; a fiber pool size of 0 is accepted
   before the start, and the first fiber returned to that pool fails an assertion.  A pool size set after the start is accepted with
   success and changes nothing, since the pools are made once (`SettingsUsable`).  `get_worker_number` returns one more than documented.
   With `PARALLEL_THREAD_CREATE`, which is not built, a small runtime would create the thread of worker 1 twice.

*Fibers and memory*

11. `cilk_fiber::allocate` does not look at `alloc_max`, and a pool that overflows does not give fibers to
   its parent (both commented out), against `cilk_fiber.h`; the fibers made in advance are 3/4 of the pool, where
   the comment says 1/4, and are not counted in `total`.
12. `__cilkrts_frame_malloc_per_worker_cleanup` leaves the worker's list pointers as they are,
   although its documentation says the lists are emptied.

*Reducers and loops*

13. The comment on pedigrees at `cilk-abi-cilk-for.cpp:341` gives rank X, the loop counter, 0, and X+2
   afterwards; the code gives X+1, counter+1, 1, and X+3.  `SerialPedigrees` takes from the comment what the code keeps, that neither the depth of the
   recursion nor the grain shows in a pedigree, and states nothing about these numbers but that none is zero and that they are in serial order.
14. `reducer_list.h:687`: splicing a list with another allocator to the front inserts nothing and clears the list.
   `reducer_vector.h:372`: `move_out` clears the view only if the allocators differ.
   `holder_monoid::operator=` returns nothing, and its deallocation passes the size of the monoid's `Type`.
   An index reducer of a numeric type keeps the default index when every update equals the identity, as its comment says, but
   not the one the program gave if the updates were stolen (see `default_index`).

*Record and replay*

15. Whether a replayed steal has happened is decided by comparing the addresses of two fields of a deque
   (`record-replay.cpp:497`, `deque.h:36`), which never changes.  A replay ends (`ReplayEnds`) but
   need not follow its log, although `replay_term` asserts that the log is used up.

## 6. What is not modelled

- *Forced reductions* (`simulated_stolen`), which split a strand without counting it, parallel reductions,
  and exceptions thrown by reduce functions, which the code does not handle.
- *Exceptions*: the flag `rethrow`, used when a compiler does not pass the exception, and exceptions that leave
  a called full frame, which hands its one record to its caller.
- *TBB interoperability* (`cilk_fiber.cpp`, `cilk-abi.c`): callbacks into another scheduler.
- *A second thread of the user in Termination*: the runtime aborts before it enters (observation 8).
- *EPOLLHUP/EPOLLERR alone*, synchronous I/O without a queue, and `del_io_queue`,
  which has no caller.
- *Pedigrees*: the precomputed dot products, and the leaf kept for a user thread.
- *The search for a victim*, back-off and yielding; mutexes other than the worker's are taken as mutual exclusion.
- *Statistics and tool interfaces* do not influence scheduling.  Variable-length arrays, assembly
  and the layout of stacks are below the level of the models.  The Windows and VxWorks ports
  and the vendored sslib are not part of a Cilk-L build; `reducer_file.h` works on Windows only.  Benchmarks are programs that use the runtime.
- Memory is x86's: FIFO store buffers for the owner of a THE deque, sequential
  consistency where the code uses locked instructions, fences or locks.

## 7. Plan

What is left is to prove more of what TLC has checked:

1. CallChain: `EveryFunctionOnce`, with an invariant on the whole chain of callers.
2. FrameMalloc and Fibers: their invariants, once the folds and recursive functions that fill the pools have been replaced by
   sums and sets that a lemma can speak of.
