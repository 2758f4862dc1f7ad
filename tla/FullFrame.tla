----------------------------- MODULE FullFrame ------------------------------
(***************************************************************************)
(* A full frame and the children spawned from it that a steal has cut off: *)
(* how steals build the list of children, how returning children and the   *)
(* frame's own sync splice reducer maps, exceptions and fibers to the left *)
(* while others do the same, and who crosses the sync.                     *)
(*                                                                         *)
(* Strand 0 is the frame itself, strand c the c-th stolen child; 0 is also *)
(* the null sibling.  slot[0] is children_reducer_map, slot[c] is          *)
(* right_reducer_map of child c, and thrown_slot likewise, so that the     *)
(* place to the left of a frame is named by its left sibling.  A reducer   *)
(* map is the sequence of the updates in it, a null map is empty, and a    *)
(* merge concatenates.  An update or exception is named by its place in    *)
(* the serial execution: 2c in child c, 2c + 1 in the frame after it.      *)
(*                                                                         *)
(* An action is a critical section of the frame's lock.  The maps a worker *)
(* takes out to merge after its unlock are nobody else's, so they are      *)
(* merged when they are taken.  A definition whose name continues that of  *)
(* the one below it is the latter's mutant.                                *)
(***************************************************************************)
EXTENDS PendingExceptions, FiniteSets

CONSTANTS
    N,          \* steals from one frame
    MaxEvents,  \* bound on the updates and pending exceptions of one call
    Fibers,
    Entries     \* exceptions of the thread that calls the frame, see eh_globals

ASSUME FrameAssumption == N \in Nat \ {0} /\ MaxEvents \in Nat /\ NULL \notin Fibers /\ Fibers # {}

Children == 1..N
Strands == 0..N
Labels == 1..(2 * N + 1)

VARIABLES
    join_counter, rightmost_child, left_sibling, right_sibling, unsynched,
    spawned,            \* how many children there have been
    reducer_map,        \* of the worker that runs the strand
    slot,               \* children_reducer_map and right_reducer_map
    eh_globals,         \* of the thread that runs the strand
    entry,              \* of the thread that called the frame
    pending_exception,
    thrown_slot,        \* child_pending_exception and right_pending_exception
    fiber_self, fiber_child, fiber_to_free, fiber_pool,
    stack,              \* the fiber the strand's worker is on
    home,               \* the fiber the frame was called on
    pc,
    updates, thrown     \* labels of updates and exceptions: all, and of this sync block

tree == <<join_counter, rightmost_child, left_sibling, right_sibling, unsynched, spawned>>
maps == <<reducer_map, slot, updates>>
exceptions == <<eh_globals, entry, pending_exception, thrown_slot, thrown>>
fibers == <<fiber_self, fiber_child, fiber_to_free, fiber_pool, stack, home>>
vars == <<tree, maps, exceptions, fibers, pc>>

EhGlobals == [caught : {<<>>} \cup {e.caught : e \in Entries}, uncaught : Nat]
Infos == [active : Labels \cup {None}, runtime_state : EhGlobals]

ASSUME EntryAssumption == Entries \subseteq EhGlobals /\ NULL \notin Infos

TypeOK ==
    /\ join_counter \in 0..(N + 1)
    /\ rightmost_child \in Strands
    /\ left_sibling \in [Children -> Strands] /\ right_sibling \in [Children -> Strands]
    /\ unsynched \in BOOLEAN /\ spawned \in Strands
    /\ \A s \in Strands : reducer_map[s] \in Seq(Labels) /\ slot[s] \in Seq(Labels)
    /\ entry \in Entries
    /\ \A s \in Strands : eh_globals[s] \in EhGlobals
    /\ \A s \in Strands : {pending_exception[s], thrown_slot[s]} \subseteq Infos \cup {NULL}
    /\ fiber_self \in [Strands -> Fibers \cup {NULL}] /\ fiber_child \in Fibers \cup {NULL}
    /\ fiber_to_free \in [Strands -> Fibers \cup {NULL}] /\ fiber_pool \subseteq Fibers
    /\ stack \in [Strands -> Fibers \cup {NULL}] /\ home \in Fibers
    /\ pc \in [Strands -> {"new", "run", "return", "reduce", "jump", "join", "stalled", "ready", "done"}]
    /\ updates \subseteq Labels /\ thrown \subseteq Labels

\* Fibers are interchangeable: a fixed choice stands for any.
FromPool(pool) == CHOOSE f \in pool : TRUE

Init ==
    /\ join_counter = 1 /\ rightmost_child = 0
    /\ left_sibling = [c \in Children |-> 0] /\ right_sibling = [c \in Children |-> 0]
    /\ unsynched = FALSE /\ spawned = 0
    /\ reducer_map = [s \in Strands |-> <<>>] /\ slot = [s \in Strands |-> <<>>]
    /\ entry \in Entries /\ eh_globals = [s \in Strands |-> IF s = 0 THEN entry ELSE Calm]
    /\ pending_exception = [s \in Strands |-> NULL]
    /\ thrown_slot = [s \in Strands |-> NULL]
    /\ home = FromPool(Fibers)
    /\ fiber_self = [s \in Strands |-> IF s = 0 THEN home ELSE NULL]
    /\ stack = fiber_self
    /\ fiber_pool = Fibers \ {home}
    /\ fiber_child = NULL /\ fiber_to_free = [s \in Strands |-> NULL]
    /\ pc = [s \in Strands |-> IF s = 0 THEN "run" ELSE "new"]
    /\ updates = {} /\ thrown = {}

Goto(s, label) == pc' = [pc EXCEPT ![s] = label]

-----------------------------------------------------------------------------
(* User code *)

Label(s) == IF s = 0 THEN 2 * spawned + 1 ELSE 2 * s

Room == Cardinality(updates) + Cardinality(thrown) < MaxEvents

\* Whether the strand has updated reducers in the code it now leaves; when it
\* did so nobody else can see.
Updating(s) == IF Label(s) \notin updates /\ Room THEN BOOLEAN ELSE {FALSE}

Updates(s, u) == updates' = IF u THEN updates \cup {Label(s)} ELSE updates
UpdatedMap(s, u) == IF u THEN Append(reducer_map[s], Label(s)) ELSE reducer_map[s]

\* The strand leaves its code.
Leave(s) ==
    /\ pc[s] = "run"
    /\ \E u \in Updating(s) :
          Updates(s, u) /\ reducer_map' = [reducer_map EXCEPT ![s] = UpdatedMap(s, u)]
    /\ UNCHANGED <<tree, slot, fibers>>

\* The state of the strand's thread goes into its frame.
Save(s, info) ==
    /\ pending_exception' = [pending_exception EXCEPT ![s] = info]
    /\ eh_globals' = [eh_globals EXCEPT ![s] = Calm]
    /\ UNCHANGED <<entry, thrown_slot>>

Thrown(s) == Room /\ thrown' = thrown \cup {Label(s)}

save_exception_state(s) == Save(s, make(eh_globals[s], None)) /\ UNCHANGED thrown

return_exception(s) == Thrown(s) /\ Save(s, make(throw(eh_globals[s]), Label(s)))

\* A child finds its parent stolen.
Return(c) == Leave(c) /\ save_exception_state(c) /\ Goto(c, "return")

exception_from_spawn(c) == Leave(c) /\ return_exception(c) /\ Goto(c, "return")

\* A frame nothing has been stolen from passes its sync in the compiled code.
\* Without an exception the thread's state is left alone.
Sync == unsynched /\ Leave(0) /\ UNCHANGED exceptions /\ Goto(0, "reduce")

c_sync_except ==
    /\ unsynched /\ Leave(0)
    /\ Thrown(0) /\ Save(0, make(throw(eh_globals[0]), Label(0)))
    /\ Goto(0, "reduce")

\* The function returns and is called again, on the same fiber.
CallAgain ==
    /\ pc[0] = "run" /\ ~unsynched
    /\ pc' = [s \in Strands |-> IF s = 0 THEN "run" ELSE "new"]
    /\ spawned' = 0
    /\ reducer_map' = [reducer_map EXCEPT ![0] = <<>>]
    /\ updates' = {}
    /\ entry' \in Entries /\ eh_globals' = [eh_globals EXCEPT ![0] = entry']
    /\ UNCHANGED <<join_counter, rightmost_child, left_sibling, right_sibling, unsynched, slot,
                   pending_exception, thrown_slot, thrown, fibers>>

-----------------------------------------------------------------------------
(* detach_for_steal *)

PushChild(c) ==
    /\ left_sibling' = [left_sibling EXCEPT ![c] = rightmost_child]
    /\ right_sibling' = [x \in Children |->
            IF x = c THEN 0 ELSE IF x = rightmost_child THEN c ELSE right_sibling[x]]
    /\ rightmost_child' = c

\* make_child: the child gets the frame's fiber, the frame the thief's.
HandFibers(c, f) ==
    /\ fiber_self' = [fiber_self EXCEPT ![c] = fiber_self[0], ![0] = f]
    /\ fiber_pool' = fiber_pool \ {f}
    /\ stack' = [stack EXCEPT ![c] = stack[0], ![0] = NULL]

\* decjoin for the victim, push_next_frame, make_child
AfterSteal == join_counter - 1 + 1 + 1

\* The victim goes on as the new child, with the frame's fiber and map and the
\* exceptions of its thread; the frame gets the thief's fiber and is the
\* thief's next frame.
Steal ==
    LET c == spawned + 1
        f == FromPool(fiber_pool)
    IN
    /\ pc[0] = "run" /\ spawned < N
    /\ fiber_pool # {}
    /\ spawned' = c
    /\ unsynched' = TRUE
    /\ join_counter' = AfterSteal
    /\ PushChild(c)
    /\ \E u \in Updating(0) :
          Updates(0, u) /\ reducer_map' = [reducer_map EXCEPT ![c] = UpdatedMap(0, u), ![0] = <<>>]
    /\ HandFibers(c, f)
    /\ eh_globals' = [eh_globals EXCEPT ![c] = eh_globals[0], ![0] = Calm]
    /\ pc' = [pc EXCEPT ![c] = "run", ![0] = "ready"]
    /\ UNCHANGED <<slot, entry, pending_exception, thrown_slot, thrown, fiber_child, fiber_to_free, home>>

-----------------------------------------------------------------------------
(* Return of child c to its stolen parent *)

SpliceExceptionsRightFirst(c, l) ==
    /\ thrown_slot' = [thrown_slot EXCEPT
            ![l] = merge_pending_exceptions(merge_pending_exceptions(@, thrown_slot[c]), pending_exception[c]),
            ![c] = NULL]
    /\ pending_exception' = [pending_exception EXCEPT ![c] = NULL]
    /\ UNCHANGED <<eh_globals, entry, thrown>>

SpliceExceptions(c, l) ==
    /\ thrown_slot' = [thrown_slot EXCEPT
            ![l] = merge_pending_exceptions(merge_pending_exceptions(@, pending_exception[c]), thrown_slot[c]),
            ![c] = NULL]
    /\ pending_exception' = [pending_exception EXCEPT ![c] = NULL]
    /\ UNCHANGED <<eh_globals, entry, thrown>>

IsLeftmostBySiblings(c) == left_sibling[c] = 0

\* Only the leftmost child has the fiber that the frame was called on.
IsLeftmost(c) == left_sibling[c] = 0 /\ fiber_child = NULL

Unlink(c) ==
    LET l == left_sibling[c]
        r == right_sibling[c]
    IN /\ left_sibling' = [x \in Children |-> IF x = c THEN 0 ELSE IF x = r THEN l ELSE left_sibling[x]]
       /\ right_sibling' = [x \in Children |-> IF x = c THEN 0 ELSE IF x = l THEN r ELSE right_sibling[x]]
       /\ rightmost_child' = IF r = 0 THEN l ELSE rightmost_child

Finish(c) ==
    /\ Unlink(c)
    /\ IF IsLeftmost(c)
       THEN fiber_child' = fiber_self[c] /\ UNCHANGED fiber_to_free
       ELSE fiber_to_free' = [fiber_to_free EXCEPT ![c] = fiber_self[c]] /\ UNCHANGED fiber_child
    /\ fiber_self' = [fiber_self EXCEPT ![c] = NULL]
    /\ Goto(c, "jump")
    /\ UNCHANGED <<join_counter, unsynched, spawned, fiber_pool, stack, home>>

\* The fast path: at most one map, or only the left one.
Trivial(L, M, R) == (M = <<>> /\ R = <<>>) \/ (L = <<>> /\ (M = <<>> \/ R = <<>>))

FastPath(c) ==
    LET l == left_sibling[c] IN
    /\ pc[c] = "return"
    /\ Trivial(slot[l], reducer_map[c], slot[c])
    /\ slot' = [slot EXCEPT ![l] = @ \o reducer_map[c] \o slot[c], ![c] = <<>>]
    /\ reducer_map' = [reducer_map EXCEPT ![c] = <<>>]
    /\ SpliceExceptions(c, l)
    /\ Finish(c)
    /\ UNCHANGED updates

TakeLeavingLeft(c, l, m) ==
    /\ slot' = [slot EXCEPT ![l] = m.left, ![c] = <<>>]
    /\ reducer_map' = [reducer_map EXCEPT ![c] = m.left \o m.middle \o m.right]

\* All maps are taken out, to be merged without the lock.
Take(c, l, m) ==
    /\ slot' = [slot EXCEPT ![l] = <<>>, ![c] = <<>>]
    /\ reducer_map' = [reducer_map EXCEPT ![c] = m.left \o m.middle \o m.right]

SlideNot(L, M, R) == [left |-> L, middle |-> M, right |-> R]

\* A map moves to the left if there is none.
Slide(L, M, R) ==
    LET middle == IF L = <<>> THEN <<>> ELSE M
    IN [left   |-> IF L = <<>> THEN M ELSE L,
        middle |-> IF middle = <<>> THEN R ELSE middle,
        right  |-> IF middle = <<>> THEN <<>> ELSE R]

\* One round of the slow path's loop, from lock to unlock.
SlowPath(c) ==
    LET l   == left_sibling[c]
        slid == Slide(slot[l], reducer_map[c], slot[c])
    IN /\ \/ pc[c] = "return" /\ ~Trivial(slot[l], reducer_map[c], slot[c])
          \/ pc[c] = "reduce"
       /\ SpliceExceptions(c, l)
       /\ \/ /\ slid.middle # <<>>
             /\ Take(c, l, slid)
             /\ Goto(c, "reduce")
             /\ UNCHANGED <<tree, fibers>>
          \/ /\ slid.middle = <<>>
             /\ slot' = [slot EXCEPT ![l] = slid.left, ![c] = slid.right]
             /\ reducer_map' = [reducer_map EXCEPT ![c] = <<>>]
             /\ Finish(c)
       /\ UNCHANGED updates

-----------------------------------------------------------------------------
(* The sync of the frame *)

\* The frame is suspended at its sync and always gives up the fiber it is on.
Suspend ==
    /\ fiber_to_free' = [fiber_to_free EXCEPT ![0] = fiber_self[0]]
    /\ fiber_self' = [fiber_self EXCEPT ![0] = NULL]
    /\ Goto(0, "jump")
    /\ UNCHANGED <<fiber_child, fiber_pool, stack, home>>

\* One round of its loop, from lock to unlock.
SyncReduce ==
    LET l == rightmost_child IN
    /\ pc[0] = "reduce"
    /\ thrown_slot' = [thrown_slot EXCEPT ![l] = merge_pending_exceptions(@, pending_exception[0])]
    /\ pending_exception' = [pending_exception EXCEPT ![0] = NULL]
    /\ \/ /\ slot[l] # <<>> /\ reducer_map[0] # <<>>
          /\ slot' = [slot EXCEPT ![l] = <<>>]
          /\ reducer_map' = [reducer_map EXCEPT ![0] = slot[l] \o @]
          /\ UNCHANGED <<fibers, pc>>
       \/ /\ slot[l] = <<>> \/ reducer_map[0] = <<>>
          /\ slot' = [slot EXCEPT ![l] = @ \o reducer_map[0]]
          /\ reducer_map' = [reducer_map EXCEPT ![0] = <<>>]
          /\ Suspend
    /\ UNCHANGED <<tree, eh_globals, entry, thrown, updates>>

-----------------------------------------------------------------------------
(* In the runtime *)

\* longjmp_into_runtime: the worker leaves the strand's fiber.
Jump(s) ==
    /\ pc[s] = "jump"
    /\ stack' = [stack EXCEPT ![s] = NULL]
    /\ Goto(s, "join")
    /\ UNCHANGED <<tree, maps, exceptions, fiber_self, fiber_child, fiber_to_free, fiber_pool, home>>

LastToJoin == join_counter = 1

\* The last one to arrive makes the frame its next frame; the others leave it.
ProvablyGoodSteal(s, afterwards) ==
    \/ /\ LastToJoin
       /\ join_counter' = join_counter - 1 + 1      \* decjoin, push_next_frame
       /\ pending_exception' = [pending_exception EXCEPT ![0] = merge_pending_exceptions(thrown_slot[0], @)]
       /\ thrown_slot' = [thrown_slot EXCEPT ![0] = NULL]
       /\ fiber_self' = [fiber_self EXCEPT ![0] = fiber_child]
       /\ fiber_child' = NULL
       /\ unsynched' = FALSE
       /\ pc' = [pc EXCEPT ![s] = afterwards, ![0] = "ready"]
    \/ /\ ~LastToJoin
       /\ join_counter' = join_counter - 1
       /\ Goto(s, afterwards)
       /\ UNCHANGED <<pending_exception, thrown_slot, fiber_self, fiber_child, unsynched>>

\* On the scheduling fiber: the join, and then the fiber is freed.
PostSuspend(s, afterwards) ==
    /\ pc[s] = "join"
    /\ ProvablyGoodSteal(s, afterwards)
    /\ fiber_pool' = fiber_pool \cup ({fiber_to_free[s]} \ {NULL})
    /\ fiber_to_free' = [fiber_to_free EXCEPT ![s] = NULL]
    /\ UNCHANGED <<rightmost_child, left_sibling, right_sibling, spawned, maps, eh_globals, entry, thrown,
                   stack, home>>

DoSync == PostSuspend(0, "stalled")
DoReturnFromSpawn(c) == PostSuspend(c, "done")

\* A synched frame takes up what its children have left for it.
SetupReducers ==
    \/ unsynched /\ UNCHANGED <<reducer_map, slot>>
    \/ /\ ~unsynched
       /\ reducer_map' = [reducer_map EXCEPT ![0] = slot[0]]
       /\ slot' = [slot EXCEPT ![0] = <<>>]

\* What is pending after a sync is thrown in the frame (gcc_rethrow), where a
\* handler catches it.
SetupExceptions ==
    LET info  == pending_exception[0]
        state == setup_for_execution_sysdep(info)
    IN /\ eh_globals' = [eh_globals EXCEPT ![0] = IF except_data(info) = None THEN state ELSE begin_catch(state)]
       /\ pending_exception' = [pending_exception EXCEPT ![0] = NULL]
       /\ thrown' = IF unsynched THEN thrown ELSE {}
       /\ UNCHANGED <<entry, thrown_slot>>

Resume ==
    /\ pc[0] = "ready"
    /\ SetupReducers
    /\ SetupExceptions
    /\ stack' = [stack EXCEPT ![0] = fiber_self[0]]
    /\ Goto(0, "run")
    /\ UNCHANGED <<tree, updates, fiber_self, fiber_child, fiber_to_free, fiber_pool, home>>

-----------------------------------------------------------------------------
Child(c) == Return(c) \/ exception_from_spawn(c) \/ FastPath(c) \/ SlowPath(c) \/ Jump(c) \/ DoReturnFromSpawn(c)
Frame == SyncReduce \/ Jump(0) \/ DoSync \/ Resume

Next ==
    \/ Steal \/ Sync \/ c_sync_except \/ CallAgain
    \/ \E c \in Children : Child(c)
    \/ Frame

\* Children return, and nobody stops in the runtime.
Fairness == WF_vars(Frame) /\ \A c \in Children : WF_vars(Child(c))

Spec == Init /\ [][Next]_vars /\ Fairness

-----------------------------------------------------------------------------
(* Properties *)

Lowest(S) == IF S = {} THEN 0 ELSE CHOOSE x \in S : \A y \in S : x <= y

\* The maps of the children up to c, read from left to right.
ReadTo[c \in Strands] ==
    IF c = 0 THEN slot[0] ELSE ReadTo[c - 1] \o reducer_map[c] \o slot[c]

\* Read from left to right the reducer maps hold every update, once, in the
\* order of the serial execution, also while maps are out for merging and
\* while the list of children changes behind the back of the one who merges.
SerialOrder ==
    LET all == ReadTo[N] \o reducer_map[0] IN
    /\ {all[i] : i \in DOMAIN all} = updates
    /\ \A i, j \in DOMAIN all : i < j => all[i] < all[j]

\* The exceptions of a strand follow it from thread to thread.  A frame that has
\* passed its sync is again in the handler it was called in, with as many
\* exceptions on their way as then; before, it throws the first in serial order
\* of those thrown since its last sync.  No worker that goes on to other work
\* has any left in its thread, and no two chains of handlers are ever merged.
ExceptionStateKept ==
    LET first == Lowest(thrown) IN
    /\ pc[0] = "run" /\ ~unsynched => eh_globals[0] = entry
    /\ pc[0] = "ready" /\ ~unsynched => except_data(pending_exception[0]) = first
    /\ \A s \in Strands : pc[s] # "run" => eh_globals[s] = Calm
    /\ \A s, t \in Strands : /\ mergeable(pending_exception[s], thrown_slot[t])
                             /\ s # t => mergeable(thrown_slot[s], thrown_slot[t])

Holders(f) ==
    {<<"self", s>> : s \in {x \in Strands : fiber_self[x] = f}}
    \cup {<<"free", s>> : s \in {x \in Strands : fiber_to_free[x] = f}}
    \cup {<<"child", 0>> : x \in {y \in {0} : fiber_child = f}}
    \cup {<<"pool", 0>> : x \in {y \in {0} : f \in fiber_pool}}

\* No fiber is lost or has two holders; no two workers are on one stack, nobody
\* is on a stack in the pool; the stack longjmp_into_runtime leaves, which it
\* finds in the parent after the lock is released, is the one it is on; and a
\* frame that has passed its sync is again on the fiber it was called on,
\* whoever was the last to arrive.
FibersHeldOnce ==
    /\ ~unsynched => fiber_self[0] = home /\ fiber_child = NULL
    /\ \A f \in Fibers : Cardinality(Holders(f)) = 1
    /\ \A s \in Strands : stack[s] # NULL =>
          /\ stack[s] \notin fiber_pool
          /\ \A t \in Strands \ {s} : stack[t] # stack[s]
          /\ pc[s] = "jump" =>
                stack[s] = IF fiber_to_free[s] # NULL THEN fiber_to_free[s] ELSE fiber_child

\* A frame that waits at its sync gets past it.
SyncCompletes == pc[0] = "reduce" ~> (pc[0] = "run" /\ ~unsynched)
=============================================================================
