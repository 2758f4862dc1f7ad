----------------------------- MODULE FrameMalloc ----------------------------
(***************************************************************************)
(* The allocator of full frames, reducer maps and exception records        *)
(* (frame_malloc.c): per worker a free list for each size class, above     *)
(* global free lists and a pool that is cut from chunks of the system's    *)
(* memory.                                                                 *)
(*                                                                         *)
(* A block is named by its address, chunks are numbered from 0 and lie     *)
(* Chunk bytes apart.  A worker's lists are its own and the global state   *)
(* is touched only under frame_malloc.lock, once in a call, so a call is   *)
(* one step.  A request above the largest class, or without a worker, is   *)
(* __cilkrts_malloc's and leaves this state alone.                         *)
(***************************************************************************)
EXTENDS FrameSizes, FiniteSets, SequencesExt, FiniteSetsExt

CONSTANTS
    FrameWorkers,
    Chunk,          \* FRAME_MALLOC_CHUNK
    BatchSize,      \* frame_malloc.batch_size
    MaxChunks,      \* bound: chunks the system gives out
    MaxPotential    \* bound: a potential that only allocation raises

ASSUME FrameMallocAssumption ==
  /\ Chunk \in Nat /\ BatchSize \in Nat \ {0} /\ MaxChunks \in Nat
  /\ FRAME_MALLOC_MAX_SIZE <= Chunk

VARIABLES
    global_free_list, pool_begin, pool_end, chunks, wasted,
    allocated_from_global_pool,
    free_list, bucket_potential,
    live,           \* workers not destroyed yet
    in_use          \* per class, the blocks the runtime holds

globalPool == <<global_free_list, pool_begin, pool_end, chunks, wasted, allocated_from_global_pool>>
frameVars == <<globalPool, free_list, bucket_potential, live, in_use>>

Buckets == DOMAIN BucketSizes
potential_limit == 4 * BatchSize
allocated_from_os == Chunk * chunks

\* __cilkrts_frame_malloc_global_init, and per_worker_init of every worker
FrameInit ==
  /\ global_free_list = [b \in Buckets |-> <<>>]
  /\ pool_begin = 0 /\ pool_end = 0 /\ chunks = 0 /\ wasted = 0
  /\ allocated_from_global_pool = 0
  /\ free_list = [w \in FrameWorkers |-> [b \in Buckets |-> <<>>]]
  /\ bucket_potential = [w \in FrameWorkers |-> [b \in Buckets |-> 0]]
  /\ live = FrameWorkers /\ in_use = [b \in Buckets |-> {}]

-----------------------------------------------------------------------------
(* The global pool.  st is its state as a record, so that a batch can be    *)
(* taken block by block.                                                    *)

Pool == [list |-> global_free_list, begin |-> pool_begin, end |-> pool_end, chunks |-> chunks,
         wasted |-> wasted, allocated |-> allocated_from_global_pool]

SetPool(st) ==
  /\ global_free_list' = st.list /\ pool_begin' = st.begin /\ pool_end' = st.end
  /\ chunks' = st.chunks /\ wasted' = st.wasted /\ allocated_from_global_pool' = st.allocated

extend_global_pool(st) ==
  [st EXCEPT !.begin = Chunk * st.chunks, !.end = Chunk * (st.chunks + 1), !.chunks = @ + 1]

\* The rest of a pool too small for the block is wasted.
cut(st, size) ==
  LET fit == IF st.begin + size > st.end
             THEN extend_global_pool([st EXCEPT !.wasted = @ + (st.end - st.begin)])
             ELSE st
  IN [mem |-> fit.begin, st |-> [fit EXCEPT !.begin = @ + size]]

global_alloc(st, b) ==
  LET counted == [st EXCEPT !.allocated = @ + BucketSizes[b]]
  IN IF st.list[b] = <<>> THEN cut(counted, BucketSizes[b])
     ELSE [mem |-> Head(st.list[b]), st |-> [counted EXCEPT !.list[b] = Tail(@)]]

global_free(st, mem, b) ==
  [st EXCEPT !.list[b] = <<mem>> \o @, !.allocated = @ - BucketSizes[b]]

-----------------------------------------------------------------------------
(* The allocator of a worker *)

\* The bytes in blocks[b] blocks of each class b
Size(blocks) == LET sum[b \in 0..Len(BucketSizes)] ==
                      IF b = 0 THEN 0 ELSE sum[b - 1] + blocks[b] * BucketSizes[b]
                IN sum[Len(BucketSizes)]

\* How many blocks make up a batch: at least one.
BatchBlocks(b) == LET s == BucketSizes[b] IN 1 + ((BatchSize - 1) \div s)

\* The list and the pool after allocate_batch; blocks are pushed, so the last is on top.
allocate_batch(list, b) ==
  LET taken[n \in 0..BatchBlocks(b)] ==
        IF n = 0 THEN [list |-> list, st |-> Pool]
        ELSE LET a == global_alloc(taken[n - 1].st, b)
             IN [list |-> <<a.mem>> \o taken[n - 1].list, st |-> a.st]
  IN taken[BatchBlocks(b)]

frame_malloc(w, size) ==
  LET b == bucket_of_size(size)
      batch == allocate_batch(<<>>, b)
  IN /\ live = FrameWorkers /\ size <= FRAME_MALLOC_MAX_SIZE
     /\ IF free_list[w][b] # <<>>
        THEN /\ free_list' = [free_list EXCEPT ![w][b] = Tail(@)]
             /\ in_use' = [in_use EXCEPT ![b] = @ \cup {Head(free_list[w][b])}]
             /\ UNCHANGED <<globalPool, bucket_potential>>
        ELSE /\ batch.st.chunks <= MaxChunks /\ bucket_potential[w][b] < MaxPotential
             /\ SetPool(batch.st)
             /\ bucket_potential' =
                   [bucket_potential EXCEPT ![w][b] = @ + BatchBlocks(b) * BucketSizes[b]]
             /\ free_list' = [free_list EXCEPT ![w][b] = Tail(batch.list)]
             /\ in_use' = [in_use EXCEPT ![b] = @ \cup {Head(batch.list)}]
     /\ UNCHANGED live

\* gc_bucket: the blocks passed over until twice their size reaches the potential
NewPotential(list, b, pot) ==
  LET s == BucketSizes[b]
  IN s * Min({Len(list)} \cup {n \in 0..Len(list) : 2 * n * s >= pot})

\* Frees what follows the kept blocks and leaves it in the list.
gc_bucket_uncut(list, b, pot) ==
  LET newpot == NewPotential(list, b, pot)
      kept == Min({Len(list), (newpot \div BucketSizes[b]) + 1})
  IN [newpot |-> newpot, list |-> list, freed |-> SubSeq(list, kept + 1, Len(list))]

\* The block at which the walk stops is kept as well, though not counted.
gc_bucket(list, b, pot) ==
  LET newpot == NewPotential(list, b, pot)
      kept == Min({Len(list), (newpot \div BucketSizes[b]) + 1})
  IN [newpot |-> newpot, list |-> SubSeq(list, 1, kept), freed |-> SubSeq(list, kept + 1, Len(list))]

FreeAll(st, blocks, b) ==
  LET freed[n \in 0..Len(blocks)] ==
        IF n = 0 THEN st ELSE global_free(freed[n - 1], blocks[n], b)
  IN freed[Len(blocks)]

\* The block may have come from any worker.
frame_free(w, size, mem) ==
  LET b == bucket_of_size(size)
      pot == bucket_potential[w][b] + BucketSizes[b]
      pushed == <<mem>> \o free_list[w][b]
      gc == gc_bucket(pushed, b, pot)
  IN /\ live = FrameWorkers /\ size <= FRAME_MALLOC_MAX_SIZE /\ mem \in in_use[b]
     /\ in_use' = [in_use EXCEPT ![b] = @ \ {mem}]
     /\ IF pot > potential_limit
        THEN /\ bucket_potential' = [bucket_potential EXCEPT ![w][b] = gc.newpot]
             /\ free_list' = [free_list EXCEPT ![w][b] = gc.list]
             /\ SetPool(FreeAll(Pool, gc.freed, b))
        ELSE /\ bucket_potential' = [bucket_potential EXCEPT ![w][b] = pot]
             /\ free_list' = [free_list EXCEPT ![w][b] = pushed]
             /\ UNCHANGED globalPool
     /\ UNCHANGED live

move_bucket_to_global_free_list(w, st, b) == FreeAll(st, free_list[w][b], b)

\* destroy_worker, when the runtime stops and nothing it allocated is left.
\* The worker's pointers to its lists are not cleared: it is about to be freed.
per_worker_cleanup(w) ==
  /\ \A b \in Buckets : in_use[b] = {}
  /\ w \in live /\ live' = live \ {w}
  /\ LET moved[b \in 0..Len(BucketSizes)] ==
           IF b = 0 THEN Pool ELSE move_bucket_to_global_free_list(w, moved[b - 1], b)
     IN SetPool(moved[Len(BucketSizes)])
  /\ bucket_potential' = [bucket_potential EXCEPT ![w] = [b \in Buckets |-> 0]]
  /\ UNCHANGED <<free_list, in_use>>

\* The checks of __cilkrts_frame_malloc_global_cleanup, which ends with the
\* chunks freed.
global_cleanup_passes ==
  /\ Size([b \in Buckets |-> Len(global_free_list[b])]) <= allocated_from_os
  /\ allocated_from_global_pool = 0

\* Blocks of one class are interchangeable: the lowest stands for any.
FrameNext ==
  \E w \in FrameWorkers :
    \/ per_worker_cleanup(w)
    \/ \E b \in Buckets : frame_malloc(w, BucketSizes[b])
    \/ \E b \in Buckets :
         in_use[b] # {} /\ frame_free(w, BucketSizes[b], Min(in_use[b]))

FrameSpec == FrameInit /\ [][FrameNext]_frameVars

-----------------------------------------------------------------------------
(* Properties *)

Cached(w) == Size([b \in Buckets |-> Len(free_list[w][b])])

\* The bytes in workers' lists and in use
Outside == MapThenSumSet(Cached, live) + Size([b \in Buckets |-> Cardinality(in_use[b])])

\* Every byte a chunk brought is in exactly one block, of one free list or in
\* use, in the rest of the pool, or given up as waste; and the counter the
\* leak check of __cilkrts_frame_malloc_global_cleanup reads is exactly the
\* memory outside the global pool.
MemoryPartitioned ==
  LET blocks(b) == in_use[b] \cup ToSet(global_free_list[b])
                     \cup UNION {ToSet(free_list[w][b]) : w \in live}
      bytes == UNION {UNION {mem..(mem + BucketSizes[b] - 1) : mem \in blocks(b)} : b \in Buckets}
      listed == Size([b \in Buckets |-> Len(global_free_list[b])])
  IN /\ allocated_from_global_pool = Outside
     /\ Cardinality(bytes) = Outside + listed
     /\ \A b \in Buckets : \A mem \in blocks(b) :
           mem \div Chunk = (mem + BucketSizes[b] - 1) \div Chunk
     /\ allocated_from_os = Outside + listed + wasted + (pool_end - pool_begin)
     /\ live = {} => global_cleanup_passes

=============================================================================
