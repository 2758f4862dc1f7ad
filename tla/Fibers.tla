------------------------------- MODULE Fibers -------------------------------
(***************************************************************************)
(* Fibers, the pools they come from, and the switches between them: a      *)
(* worker leaves the fiber it is on for another one when it steals, when   *)
(* it calls a future, when it returns to the scheduling loop and when its  *)
(* deque is suspended or resumed (cilk_fiber.cpp, cilk_fiber_pool.cpp,     *)
(* cilk_fiber-unix.cpp, cilk-abi-future.cpp).                              *)
(*                                                                         *)
(* The scheduling fiber of worker w is named w, Main is the fiber made of  *)
(* the user's thread, and the others are numbered as the heap gives them.  *)
(* A deque is a record of the frames on it, oldest first, of the fibers on *)
(* its deque of future fibers, and of fiber_self of its full frame.  A     *)
(* frame knows the fiber it ran on and, when it called a future, the fiber *)
(* the future runs on; the code keeps the latter in the second deque only. *)
(* That a deque is entered by one worker at a time is shown for            *)
(* SuspendedDeques, that a frame is taken by one of owner and thief for    *)
(* THEProtocol, and who inherits a fiber at a sync for FullFrame: here a   *)
(* steal is one step, and a fiber handed to a waiting frame is parked like *)
(* that of a suspended deque.                                              *)
(***************************************************************************)
EXTENDS Integers, Sequences, FiniteSets, SequencesExt, FiniteSetsExt

CONSTANTS
    Workers,
    User,               \* the worker the user's thread is bound to
    MaxFibers,          \* bound: fibers the heap has room for
    PoolSize,           \* max_size of a worker's pool, g->fiber_pool_size
    RootPoolSize,       \* and of the root pool, g->global_fiber_pool_size
    FuturePoolSize,     \* MAX_FUTURE_FIBERS_IN_POOL
    MaxFrames,          \* bound: frames on all deques
    MaxParked,          \* bound: suspended deques
    NoFiber

ASSUME FibersAssumption ==
  /\ User \in Workers /\ MaxFibers \in Nat /\ NoFiber \notin Nat \cup Workers
  /\ PoolSize \in Nat \ {0} /\ RootPoolSize \in Nat /\ FuturePoolSize \in Nat

Main == 0
Root == "root"
Heap == 1..MaxFibers
Fiber == Heap \cup {Main} \cup Workers
Pools == Workers \cup {Root}

max_size(p) == IF p = Root THEN RootPoolSize ELSE PoolSize

VARIABLES
    heap,               \* fibers allocated from the heap and not yet freed
    pool,               \* of every pool
    future_fiber_pool,
    resumable, owner, m_from_fiber, m_pending_remove_ref,
    ran,                \* fibers with somebody's computation on their stack
    tls, pc,            \* the fiber a worker is on, and where it is
    active, initial,    \* a worker's deque; the fiber a finished future goes back to
    parked              \* suspended deques, each with the fiber it waits on

allocation == <<heap, pool, future_fiber_pool>>
switching == <<resumable, owner, m_from_fiber, m_pending_remove_ref, ran, tls, pc>>
fiberVars == <<allocation, switching, active, initial, parked>>

EmptyDeque == [frames |-> <<>>, futures |-> <<>>, fiber_self |-> NoFiber]

-----------------------------------------------------------------------------
(* Allocation.  st is the state of the pools as a record.                   *)

Pooled == [heap |-> heap, pool |-> pool]

SetPools(st) == heap' = st.heap /\ pool' = st.pool

\* NoFiber when the heap is full.
allocate_from_heap(st) ==
  IF st.heap = Heap THEN [fiber |-> NoFiber, st |-> st]
  ELSE LET f == Min(Heap \ st.heap) IN [fiber |-> f, st |-> [st EXCEPT !.heap = @ \cup {f}]]

\* Returns the fiber on top and leaves it there.
FromPool_unpopped(st, p) ==
  IF st.pool[p] # <<>> THEN [fiber |-> Last(st.pool[p]), st |-> st] ELSE allocate_from_heap(st)

\* The fiber on top of the pool, else one from the heap.  The pool's total and
\* high-water mark are not modelled: no code that is built reads the one, and
\* only statistics the other.
FromPool(st, p) ==
  IF st.pool[p] # <<>>
  THEN [fiber |-> Last(st.pool[p]), st |-> [st EXCEPT !.pool[p] = Front(@)]]
  ELSE allocate_from_heap(st)

\* allocate(w->l->fiber_pool): the root pool comes after the heap.
allocate(st, w) == LET r == FromPool(st, w) IN IF r.fiber = NoFiber THEN FromPool(st, Root) ELSE r

deallocate_to_heap(st, f) == [st EXCEPT !.heap = @ \ {f}]

\* cilk_fiber_pool_free_fibers_from_pool, with the fibers to put back after it
free_fibers_from_pool(st, p, num_to_keep, fibers) ==
  LET kept == SubSeq(st.pool[p], 1, Min({num_to_keep, Len(st.pool[p])}))
      freed == SubSeq(st.pool[p], Len(kept) + 1, Len(st.pool[p]))
  IN [heap |-> st.heap \ ToSet(freed), pool |-> [st.pool EXCEPT ![p] = kept \o fibers]]

\* The caller clears RESUMABLE.
deallocate_self(st, f, w) ==
  IF Len(st.pool[w]) < max_size(w) THEN [st EXCEPT !.pool[w] = Append(@, f)]
  ELSE free_fibers_from_pool(st, w, max_size(w) - 1, <<f>>)

\* Without reference counts the last reference is always this one.
remove_reference(st, f, p) == IF p = NoFiber THEN deallocate_to_heap(st, f) ELSE deallocate_self(st, f, p)

move_fibers_to_parent_pool(st, p, num_to_keep) ==
  LET n == Min({Max({0, max_size(Root) - Len(st.pool[Root])}),
                Max({0, Len(st.pool[p]) - num_to_keep})})
      left == SubSeq(st.pool[p], 1, Len(st.pool[p]) - n)
      moved == Reverse(SubSeq(st.pool[p], Len(left) + 1, Len(st.pool[p])))
      full == Len(st.pool[Root]) >= max_size(Root)
  IN IF full THEN st
     ELSE [st EXCEPT !.pool = [@ EXCEPT ![p] = left, ![Root] = @ \o moved]]

pool_destroy(st, p) ==
  free_fibers_from_pool(IF p = Root THEN st ELSE move_fibers_to_parent_pool(st, p, 0), p, 0, <<>>)

Preallocated(p) == (max_size(p) \div 2) + (max_size(p) \div 4)

\* cilk_fiber_pool_init fills three quarters of the pool.
pool_init(st, p) ==
  LET filled[n \in 0..Preallocated(p)] ==
        IF n = 0 THEN [st EXCEPT !.pool[p] = <<>>]
        ELSE LET s == filled[n - 1] f == Min(Heap \ s.heap)
             IN [s EXCEPT !.heap = @ \cup {f}, !.pool[p] = Append(@, f)]
  IN filled[Preallocated(p)]

\* make_worker: the pool, and from it the fibers kept for futures, while memory lasts.
make_worker(st, w) ==
  LET filled[n \in 0..FuturePoolSize] ==
        IF n = 0 THEN [st |-> pool_init(st, w), futures |-> <<>>]
        ELSE LET r == allocate(filled[n - 1].st, w)
             IN [st |-> r.st, futures |-> Append(filled[n - 1].futures, r.fiber)]
  IN filled[FuturePoolSize]

\* init_workers, and the user's thread bound and in its first function; the
\* other workers are in their scheduling loops.
FiberInit ==
  LET ws == SetToSeq(Workers)
      made[n \in 0..Len(ws)] ==
        IF n = 0
        THEN [st |-> pool_init([heap |-> {}, pool |-> [p \in Pools |-> <<>>]], Root),
              futures |-> [w \in Workers |-> <<>>]]
        ELSE LET m == make_worker(made[n - 1].st, ws[n])
             IN [st |-> m.st, futures |-> [made[n - 1].futures EXCEPT ![ws[n]] = m.futures]]
      all == made[Len(ws)]
  IN /\ heap = all.st.heap /\ pool = all.st.pool
     /\ future_fiber_pool = all.futures
     /\ tls = [w \in Workers |-> IF w = User THEN Main ELSE w]
     /\ pc = [w \in Workers |-> IF w = User THEN "user" ELSE "sched"]
     /\ owner = [f \in Fiber |-> IF f = Main THEN User
                                 ELSE IF f \in Workers \ {User} THEN f ELSE NoFiber]
     /\ resumable = [f \in Fiber |-> FALSE]
     /\ m_from_fiber = [f \in Fiber |-> NoFiber] /\ m_pending_remove_ref = [f \in Fiber |-> NoFiber]
     /\ ran = {Main} \cup (Workers \ {User})
     /\ active = [w \in Workers |->
                    IF w = User THEN [EmptyDeque EXCEPT !.fiber_self = Main] ELSE EmptyDeque]
     /\ initial = [w \in Workers |-> NoFiber]
     /\ parked = {}

-----------------------------------------------------------------------------
(* Switching *)

\* The worker jumps from the fiber it is on: into the code a resumable fiber
\* left, else to the start of the fiber's procedure (resume_other_sysdep, run).
Jump(w, other) ==
  /\ owner' = [owner EXCEPT ![other] = owner[tls[w]], ![tls[w]] = NoFiber]
  /\ resumable' = [resumable EXCEPT ![other] = FALSE]
  /\ ran' = ran \cup {other}
  /\ tls' = [tls EXCEPT ![w] = other]
  /\ pc' = [pc EXCEPT ![w] = "post"]

\* RESUMABLE is set on the fiber by the one that is resumed.
suspend_self_and_resume_other(w, other) ==
  /\ Jump(w, other)
  /\ m_from_fiber' = [m_from_fiber EXCEPT ![other] = tls[w]]
  /\ UNCHANGED m_pending_remove_ref

remove_reference_from_self_and_resume_other(w, other) ==
  /\ Jump(w, other)
  /\ m_pending_remove_ref' = [m_pending_remove_ref EXCEPT ![other] = tls[w]]
  /\ UNCHANGED m_from_fiber

\* On the fiber the worker has come to.  The pending pool is this worker's.
do_post_switch_actions(w) ==
  LET f == tls[w]  from == m_from_fiber[f]  dead == m_pending_remove_ref[f]
  IN /\ pc[w] = "post"
     /\ resumable' = [g \in Fiber |-> g # dead /\ (g = from \/ resumable[g])]
     /\ IF dead = NoFiber THEN UNCHANGED <<allocation, ran>>
        ELSE /\ SetPools(remove_reference(Pooled, dead, w))
             /\ ran' = ran \ {dead} /\ UNCHANGED future_fiber_pool
     /\ m_from_fiber' = [m_from_fiber EXCEPT ![f] = NoFiber]
     /\ m_pending_remove_ref' = [m_pending_remove_ref EXCEPT ![f] = NoFiber]
     /\ pc' = [pc EXCEPT ![w] = IF f = w THEN "sched" ELSE "user"]
     /\ UNCHANGED <<owner, tls, active, initial, parked>>

-----------------------------------------------------------------------------
(* Spawns and futures *)

\* The frames on all deques, by place
Stacked ==
  UNION {{<<w, i>> : i \in DOMAIN active[w].frames} : w \in Workers}
    \cup UNION {{<<d, i>> : i \in DOMAIN d.deque.frames} : d \in parked}

Push(w, frame) == Cardinality(Stacked) < MaxFrames
                  /\ active' = [active EXCEPT ![w].frames = Append(@, frame)]

\* __cilkrts_detach in a function that spawns: the child runs on the same fiber.
Spawn(w) ==
  /\ pc[w] = "user"
  /\ Push(w, [future |-> FALSE, on |-> tls[w], child |-> tls[w]])
  /\ UNCHANGED <<allocation, switching, initial, parked>>

\* The child returns and finds its parent still there.
SpawnReturn(w) ==
  /\ pc[w] = "user" /\ active[w].frames # <<>> /\ ~Last(active[w].frames).future
  /\ active' = [active EXCEPT ![w].frames = Front(@)]
  /\ UNCHANGED <<allocation, switching, initial, parked>>

\* The fiber for a future: one of those kept for them, else a new one.
FutureFiber(w) ==
  IF future_fiber_pool[w] # <<>>
  THEN [fiber |-> Last(future_fiber_pool[w]), st |-> Pooled, futures |-> Front(future_fiber_pool[w])]
  ELSE LET r == allocate(Pooled, w) IN [fiber |-> r.fiber, st |-> r.st, futures |-> <<>>]

enqueue_future_fiber(d, f) == [d EXCEPT !.futures = Append(@, f)]

\* The caller's fiber becomes resumable before a thief can see its frame.
setup_for_future(w, f) ==
  /\ owner' = [owner EXCEPT ![f] = owner[tls[w]], ![tls[w]] = NoFiber]
  /\ resumable' = [resumable EXCEPT ![tls[w]] = TRUE, ![f] = FALSE]
  /\ tls' = [tls EXCEPT ![w] = f]

\* __spawn_future_helper_helper: switch_fibers, then the frame is detached.
switch_fibers(w) ==
  LET r == FutureFiber(w)
      d == enqueue_future_fiber(active[w], r.fiber)
  IN
    /\ pc[w] = "user" /\ r.fiber # NoFiber /\ Cardinality(Stacked) < MaxFrames
    /\ SetPools(r.st) /\ future_fiber_pool' = [future_fiber_pool EXCEPT ![w] = r.futures]
    /\ setup_for_future(w, r.fiber)
    /\ ran' = ran \cup {r.fiber}
    /\ active' = [active EXCEPT ![w] =
         [d EXCEPT !.frames = Append(@, [future |-> TRUE, on |-> tls[w], child |-> r.fiber])]]
    /\ UNCHANGED <<m_from_fiber, m_pending_remove_ref, pc, initial, parked>>

\* The future has finished and takes its caller's frame back.
FutureReturn(w) ==
  LET frames == active[w].frames
  IN /\ pc[w] = "user" /\ frames # <<>> /\ Last(frames).future
     /\ active' = [active EXCEPT ![w].frames = Front(@)]
     /\ initial' = [initial EXCEPT ![w] = Last(frames).on]
     /\ pc' = [pc EXCEPT ![w] = "back"]
     /\ UNCHANGED <<allocation, resumable, owner, m_from_fiber, m_pending_remove_ref, ran, tls, parked>>

pop_tail_future_fiber(d) == [d EXCEPT !.futures = Front(@)]

\* setup_for_future_return and, on the caller's stack, do_post_switch_actions:
\* the future's fiber is kept for another future, or given up.
switch_fibers_back(w) ==
  LET self == tls[w]  other == initial[w]
      keep == Len(future_fiber_pool[w]) < FuturePoolSize
  IN /\ pc[w] = "back"
     /\ IF keep
        THEN /\ future_fiber_pool' = [future_fiber_pool EXCEPT ![w] = Append(@, self)]
             /\ UNCHANGED <<heap, pool>>
        ELSE /\ SetPools(remove_reference(Pooled, self, w)) /\ UNCHANGED future_fiber_pool
     /\ resumable' = [resumable EXCEPT ![self] = keep, ![other] = FALSE]
     /\ owner' = [owner EXCEPT ![other] = owner[self], ![self] = NoFiber]
     /\ ran' = ran \ {self}
     /\ tls' = [tls EXCEPT ![w] = other]
     /\ active' = [active EXCEPT ![w] = pop_tail_future_fiber(@)]
     /\ initial' = [initial EXCEPT ![w] = NoFiber]
     /\ pc' = [pc EXCEPT ![w] = "user"]
     /\ UNCHANGED <<m_from_fiber, m_pending_remove_ref, parked>>

-----------------------------------------------------------------------------
(* Steals *)

\* __cilkrts_pop_head_future_fiber, for a frame that called a future
pop_head_future_fiber(d) ==
  IF Head(d.frames).future THEN [d EXCEPT !.futures = Tail(@), !.fiber_self = Head(d.futures)] ELSE d

\* The deque of future fibers is not looked at.
Detached_spawn(d) == [d EXCEPT !.frames = Tail(@)]

\* What detach_for_steal leaves: the child's full frame has the fiber of the
\* future, or else the one its parent had.
Detached(d) == [pop_head_future_fiber(d) EXCEPT !.frames = Tail(@)]

\* The victim's deque, which a worker runs or which is suspended
Victims(w) == {<<"active", v>> : v \in Workers \ {w}} \cup {<<"parked", d>> : d \in parked}
DequeOf(v) == IF v[1] = "active" THEN active[v[2]] ELSE v[2].deque

\* random_steal with a fiber in hand.  A stolen frame that called a future
\* goes on with the fiber it was left on, and the new one is given back.
random_steal(w) ==
  \E v \in Victims(w) :
    LET d == DequeOf(v)
        r == allocate(Pooled, w)
        future == Head(d.frames).future
        target == IF future THEN d.fiber_self ELSE r.fiber
        loot == [EmptyDeque EXCEPT !.fiber_self = target]
    IN /\ pc[w] = "sched" /\ d.frames # <<>> /\ r.fiber # NoFiber
       /\ SetPools(IF future THEN remove_reference(r.st, r.fiber, w) ELSE r.st)
       /\ UNCHANGED future_fiber_pool
       /\ IF v[1] = "active"
          THEN active' = [active EXCEPT ![v[2]] = Detached(d), ![w] = loot] /\ UNCHANGED parked
          ELSE /\ active' = [active EXCEPT ![w] = loot]
               /\ parked' = (parked \ {v[2]}) \cup {[v[2] EXCEPT !.deque = Detached(d)]}
       /\ suspend_self_and_resume_other(w, target)
       /\ UNCHANGED initial

\* The victim's frames were gone when it was locked: the fiber is given back.
steal_fails(w) ==
  LET r == allocate(Pooled, w) IN
    /\ pc[w] = "sched" /\ r.fiber # NoFiber
    /\ SetPools(remove_reference(r.st, r.fiber, w)) /\ UNCHANGED future_fiber_pool
    /\ UNCHANGED <<switching, active, initial, parked>>

-----------------------------------------------------------------------------
(* Leaving user code *)

Park(w) == [deque |-> active[w], fiber |-> tls[w]]

\* longjmp_into_runtime of a function that finds its parent stolen or must
\* wait at its sync, after reset_future_fiber_deque.  The fiber is freed,
\* unless a waiting frame goes on with it later, as the user's always does.
longjmp_into_runtime(w) ==
  /\ pc[w] = "user" /\ active[w].frames = <<>>
  /\ active' = [active EXCEPT ![w] = EmptyDeque]
  /\ \/ tls[w] # Main /\ remove_reference_from_self_and_resume_other(w, w) /\ UNCHANGED parked
     \/ /\ suspend_self_and_resume_other(w, w) /\ Cardinality(parked) < MaxParked
        /\ parked' = parked \cup {[Park(w) EXCEPT !.deque.futures = <<>>]}
  /\ UNCHANGED <<allocation, initial>>

\* __cilkrts_suspend_deque, back to the scheduling loop
suspend_deque(w) ==
  /\ pc[w] = "user" /\ Cardinality(parked) < MaxParked
  /\ parked' = parked \cup {Park(w)}
  /\ active' = [active EXCEPT ![w] = EmptyDeque]
  /\ suspend_self_and_resume_other(w, w)
  /\ UNCHANGED <<allocation, initial>>

\* A parked fiber is entered as soon as it is parked.
CanResume_early(d) == TRUE

\* "While (!cilk_fiber_is_resumable(...))": whoever parked it has left it.
CanResume(d) == resumable[d.fiber]

\* jump_to_suspended_fiber, or the scheduling loop with a frame that was waiting
jump_to_suspended_fiber(w) ==
  \E d \in parked :
    /\ pc[w] = "sched" /\ CanResume(d)
    /\ active' = [active EXCEPT ![w] = d.deque] /\ parked' = parked \ {d}
    /\ suspend_self_and_resume_other(w, d.fiber)
    /\ UNCHANGED <<allocation, initial>>

\* __cilkrts_resume_suspended by a strand that is itself suspended for it, or
\* __cilkrts_suspend_deque when the worker has a deque of its own to resume
resume_suspended(w) ==
  \E d \in parked :
    /\ pc[w] = "user" /\ CanResume(d)
    /\ active' = [active EXCEPT ![w] = d.deque] /\ parked' = (parked \ {d}) \cup {Park(w)}
    /\ suspend_self_and_resume_other(w, d.fiber)
    /\ UNCHANGED <<allocation, initial>>

\* The same by a future that has finished and was stolen from: its fiber is
\* among those kept for futures before the worker has left it.
resume_suspended_and_finish(w) ==
  \E d \in parked :
    /\ pc[w] = "user" /\ active[w].frames = <<>> /\ tls[w] # Main /\ CanResume(d)
    /\ active' = [active EXCEPT ![w] = d.deque] /\ parked' = parked \ {d}
    /\ IF Len(future_fiber_pool[w]) < FuturePoolSize
       THEN /\ future_fiber_pool' = [future_fiber_pool EXCEPT ![w] = Append(@, tls[w])]
            /\ owner' = [owner EXCEPT ![d.fiber] = owner[tls[w]], ![tls[w]] = NoFiber]
            /\ resumable' = [resumable EXCEPT ![d.fiber] = FALSE]
            /\ ran' = ran \ {tls[w]}
            /\ tls' = [tls EXCEPT ![w] = d.fiber]
            /\ pc' = [pc EXCEPT ![w] = "post"]
            /\ m_from_fiber' = [m_from_fiber EXCEPT ![d.fiber] = tls[w]]
            /\ UNCHANGED m_pending_remove_ref
       ELSE /\ remove_reference_from_self_and_resume_other(w, d.fiber)
            /\ UNCHANGED future_fiber_pool
    /\ UNCHANGED <<heap, pool, initial>>

-----------------------------------------------------------------------------
(* Shutdown *)

\* Of what w kept, the fibers for futures go back to the heap.
destroy_worker(st, w) ==
  pool_destroy([st EXCEPT !.heap = @ \ ToSet(future_fiber_pool[w])], w)

\* __cilkrts_deinit_internal, when the user's function has returned and
\* nothing else is left: every worker, then the root pool.
deinit_internal ==
  LET ws == SetToSeq(Workers)
      destroyed[n \in 0..Len(ws)] ==
        IF n = 0 THEN Pooled ELSE destroy_worker(destroyed[n - 1], ws[n])
  IN /\ parked = {} /\ tls[User] = Main /\ pc[User] = "user" /\ active[User].frames = <<>>
     /\ \A w \in Workers \ {User} : pc[w] = "sched"
     /\ pc' = [w \in Workers |-> "destroyed"]
     /\ future_fiber_pool' = [w \in Workers |-> <<>>]
     /\ SetPools(pool_destroy(destroyed[Len(ws)], Root))
     /\ UNCHANGED <<resumable, owner, m_from_fiber, m_pending_remove_ref, ran, tls, active,
                    initial, parked>>

FiberNext ==
  \/ \E w \in Workers :
       \/ Spawn(w) \/ SpawnReturn(w) \/ switch_fibers(w) \/ FutureReturn(w) \/ switch_fibers_back(w)
       \/ random_steal(w) \/ steal_fails(w) \/ longjmp_into_runtime(w) \/ suspend_deque(w)
       \/ jump_to_suspended_fiber(w) \/ resume_suspended(w) \/ resume_suspended_and_finish(w)
       \/ do_post_switch_actions(w)
  \/ deinit_internal

FiberSpec == FiberInit /\ [][FiberNext]_fiberVars

-----------------------------------------------------------------------------
(* Properties *)

\* The fibers in each place: a pool, kept for futures, a worker (the one it is
\* on, the one it goes back to, the one it left to be given up), a suspended
\* deque (the one it waits on); and in both the last, left under a future.
LeftUnder(d) == LET left == SelectSeq(d.frames, LAMBDA x : x.future)
                IN [i \in DOMAIN left |-> left[i].on]

Places ==
  {<<"pool", p, pool[p]>> : p \in Pools}
  \cup {<<"kept", w, future_fiber_pool[w]>> : w \in Workers}
  \cup {<<"worker", w, LeftUnder(active[w]) \o <<tls[w], initial[w], m_pending_remove_ref[tls[w]]>> >> :
          w \in Workers}
  \cup {<<"parked", d, LeftUnder(d.deque) \o <<d.fiber>> >> : d \in parked}

Held == UNION {{<<x, i>> : i \in {j \in DOMAIN x[3] : x[3][j] \in Heap}} : x \in Places}

\* No fiber is lost, shared or both pooled and in use: every fiber of the heap
\* is held exactly once; the fiber a worker is on is owned by it, which is how
\* the runtime finds its worker after a switch; and once the workers and pools
\* are destroyed no fiber is left.
FibersPartitioned ==
  /\ {h[1][3][h[2]] : h \in Held} = heap /\ Cardinality(Held) = Cardinality(heap)
  /\ pc[User] = "destroyed" => heap = {}
  /\ \A w \in Workers : owner[tls[w]] = w

\* How many of the first n frames of a deque called a future.
Called(frames, n) == Cardinality({i \in 1..n : frames[i].future})

\* The second deque stays in step with the frames, wherever the deque has been:
\* its fibers are those the futures of its frames run on, oldest first (and,
\* while its worker goes back from a future, the fiber it is still on), so
\* that a thief gives the child the fiber it runs on and takes the one the
\* parent was left on.
FiberDequeInStep ==
  LET inStep(d, more) ==
        /\ Len(d.futures) = Called(d.frames, Len(d.frames)) + more
        /\ \A i \in DOMAIN d.frames :
             d.frames[i].future => d.futures[Called(d.frames, i)] = d.frames[i].child
        /\ d.frames # <<>> => d.fiber_self = d.frames[1].on
  IN /\ \A w \in Workers : IF pc[w] = "back"
                            THEN inStep(active[w], 1) /\ Last(active[w].futures) = tls[w]
                            ELSE inStep(active[w], 0)
     /\ \A d \in parked : inStep(d.deque, 0)

\* A worker that jumps to a fiber which is not marked resumable starts it from
\* the beginning: it never does so to a fiber with somebody's computation on
\* its stack, nor does it jump into one that has none, nor take one for a
\* future.
NeverRestarted ==
  [][\A w \in Workers : tls'[w] # tls[w] /\ pc'[w] \in {"post", "user"} /\ pc[w] # "back" =>
       IF pc'[w] = "post" THEN resumable[tls'[w]] <=> tls'[w] \in ran ELSE tls'[w] \notin ran]_fiberVars
=============================================================================
