----------------------------- MODULE Termination ----------------------------
(***************************************************************************)
(* When may the first Cilk function return?  Strands created for futures   *)
(* need not be joined by any sync, so the runtime counts the strands it    *)
(* has (active_workers): a steal splits one into two, a strand that finds  *)
(* its parent stolen ends.  A strand that waits, at a sync or for a        *)
(* future, stays counted.  The initial frame leaves once the count is      *)
(* zero, on worker 0; whoever brings it there hands it the frame.          *)
(*                                                                         *)
(* A strand is a full frame and what runs below it.  Thieves hold the      *)
(* lock of the deque they steal from until they have split it.             *)
(*                                                                         *)
(* A definition whose name continues that of the one below it is the       *)
(* latter's mutant.                                                        *)
(***************************************************************************)
EXTENDS Integers, FiniteSets

CONSTANTS
    Workers,
    W0,         \* worker 0, bound to the user's thread
    Strands,
    Root,       \* the strand of the initial frame
    MaxWork,    \* bound: continuations on one deque
    IO,         \* an operation of an I/O thread
    NULL

ASSUME WorkersAssumption == IsFiniteSet(Workers) /\ W0 \in Workers
ASSUME StrandsAssumption ==
    /\ IsFiniteSet(Strands) /\ Root \in Strands
    /\ IO \notin Strands /\ NULL \notin Strands /\ NULL # IO
ASSUME WorkAssumption == MaxWork \in Nat \ {0}

VARIABLES
    active_workers, exit_frame,     \* global state
    next_frame,     \* next_frame_ff of each worker
    state,          \* what becomes of each strand
    work,           \* continuations on its deque
    parent,         \* the frame it was split from, NULL for a future
    waits,          \* the future it waits for: of a strand, or of an I/O operation
    pc, arg         \* what each worker does, and with which strand

shared == <<active_workers, exit_frame, next_frame>>
vars == <<active_workers, exit_frame, next_frame, state, work, parent, waits, pc, arg>>

States == {"free", "run", "sync", "get", "resumable", "joining", "over"}
Labels == {"sched", "run", "detach", "put", "join", "last", "suspend", "decrement", "exit", "out"}

TypeOK ==
    /\ active_workers \in Nat
    /\ exit_frame \in {Root, NULL}
    /\ next_frame \in [Workers -> Strands \cup {NULL}]
    /\ state \in [Strands -> States]
    /\ work \in [Strands -> 0..MaxWork]
    /\ parent \in [Strands -> Strands \cup {NULL}]
    /\ waits \in [Strands -> Strands \cup {IO, NULL}]
    /\ pc \in [Workers -> Labels] /\ arg \in [Workers -> Strands \cup {NULL}]

\* The user's thread has entered Cilk; the system workers look for work.
Init ==
    /\ active_workers = 1 /\ exit_frame = NULL
    /\ next_frame = [w \in Workers |-> NULL]
    /\ state = [s \in Strands |-> IF s = Root THEN "run" ELSE "free"]
    /\ work = [s \in Strands |-> 0]
    /\ parent = [s \in Strands |-> NULL]
    /\ waits = [s \in Strands |-> NULL]
    /\ pc = [w \in Workers |-> IF w = W0 THEN "run" ELSE "sched"]
    /\ arg = [w \in Workers |-> IF w = W0 THEN Root ELSE NULL]

Live == {s \in Strands : state[s] \in {"run", "sync", "get", "resumable"}}
Splitting == {w \in Workers : pc[w] = "detach"}

\* A thief holds the lock of the strand's deque.
Locked(s) == \E w \in Splitting : arg[w] = s
Unjoined(s) == {c \in Strands : parent[c] = s}
Waiters(s) == {d \in Strands : state[d] = "get" /\ waits[d] = s}

Goto(w, label, s) == pc' = [pc EXCEPT ![w] = label] /\ arg' = [arg EXCEPT ![w] = s]
Running(w, s) == pc[w] = "run" /\ arg[w] = s

-----------------------------------------------------------------------------
(* Steals *)

\* The owner pushes and pops; the last continuation may be the thief's.
Push(w) ==
    \E s \in Strands :
    /\ Running(w, s) /\ work[s] < MaxWork
    /\ work' = [work EXCEPT ![s] = @ + 1]
    /\ UNCHANGED <<shared, state, parent, waits, pc, arg>>

Pop(w) ==
    \E s \in Strands :
    /\ Running(w, s) /\ work[s] > (IF Locked(s) THEN 1 ELSE 0)
    /\ work' = [work EXCEPT ![s] = @ - 1]
    /\ UNCHANGED <<shared, state, parent, waits, pc, arg>>

\* Names for another strand, apart from those other thieves will need.
StrandsLeft ==
    Cardinality({s \in Strands : state[s] = "free"}) > Cardinality(Splitting)

CanSteal(s) == state[s] \in {"run", "get"} /\ work[s] > 0 /\ ~Locked(s) /\ StrandsLeft

\* random_steal: the count goes up before the deque is touched.
Steal(w) ==
    \E s \in Strands :
    /\ pc[w] = "sched" /\ next_frame[w] = NULL /\ CanSteal(s)
    /\ active_workers' = active_workers + 1
    /\ Goto(w, "detach", s)
    /\ UNCHANGED <<exit_frame, next_frame, state, work, parent, waits>>

\* check_for_work: nothing found; the worker yields and looks again.
FailToSteal(w) ==
    /\ pc[w] = "sched" /\ next_frame[w] = NULL
    /\ UNCHANGED vars

\* Strands are interchangeable: a fixed choice stands for any.
NewStrand == CHOOSE c \in Strands : state[c] = "free"

\* detach_for_steal: the thief gets the frame; what ran on the deque goes on
\* as a new child of it, or as a future, which has no parent to return to.
Detach(w) ==
    \E s \in Strands :
    LET c == NewStrand IN
    /\ pc[w] = "detach" /\ arg[w] = s
    /\ next_frame' = [next_frame EXCEPT ![w] = s]
    /\ state' = [state EXCEPT ![c] = state[s], ![s] = "run"]
    /\ work' = [work EXCEPT ![c] = work[s] - 1, ![s] = 0]
    /\ waits' = [waits EXCEPT ![c] = waits[s], ![s] = NULL]
    /\ \E p \in {s, NULL} : parent' = [parent EXCEPT ![c] = p]
    /\ pc' = [pc EXCEPT ![w] = "sched"]
    /\ arg' = [v \in Workers |-> IF v = w THEN NULL
                                 ELSE IF arg[v] = s THEN c ELSE arg[v]]
    /\ UNCHANGED <<active_workers, exit_frame>>

\* pop_next_frame, then the frame is run.
PopNextFrame(w) ==
    \E s \in Strands :
    /\ pc[w] = "sched" /\ next_frame[w] = s
    /\ next_frame' = [next_frame EXCEPT ![w] = NULL]
    /\ Goto(w, IF state[s] = "over" THEN "exit" ELSE "run", s)
    /\ UNCHANGED <<active_workers, exit_frame, state, work, parent, waits>>

-----------------------------------------------------------------------------
(* Waiting *)

Putting(s) == \E w \in Workers : pc[w] = "put" /\ arg[w] = s

\* What a strand may wait for: an I/O operation, or a future that is not
\* complete and, as the program is free of deadlocks, does not need it.
Needs(s) == Unjoined(s) \cup ({waits[s]} \cap Strands)
DoesNotNeed(c, s) ==
    \E C \in SUBSET Strands : c \in C /\ s \notin C /\ \A t \in C : Needs(t) \subseteq C
Incomplete(s) ==
    {c \in Live \ {Root} : parent[c] = NULL /\ ~Putting(c) /\ DoesNotNeed(c, s)} \cup {IO}

\* The strand waits for a future that is not complete.  Its worker goes on
\* with what is left on the deque, or looks for other work.
Get(w) ==
    \E s \in Strands :
    /\ Running(w, s) /\ ~Locked(s)
    /\ \E f \in Incomplete(s) : waits' = [waits EXCEPT ![s] = f]
    /\ state' = [state EXCEPT ![s] = "get"]
    /\ \/ Goto(w, "sched", NULL) /\ UNCHANGED active_workers
       \/ /\ work[s] > 0 /\ StrandsLeft
          /\ Goto(w, "detach", s)
          /\ active_workers' = active_workers + 1
    /\ UNCHANGED <<exit_frame, next_frame, work, parent>>

\* An I/O thread completes the future.
Complete(s) ==
    /\ state[s] = "get" /\ waits[s] = IO /\ ~Locked(s)
    /\ state' = [state EXCEPT ![s] = "resumable"]
    /\ waits' = [waits EXCEPT ![s] = NULL]
    /\ UNCHANGED <<shared, work, parent, pc, arg>>

\* jump_to_suspended_fiber, or deque_mug by a worker that suspends its own.
Resume(w) ==
    \E s \in Strands :
    /\ pc[w] = "sched" /\ next_frame[w] = NULL
    /\ state[s] = "resumable"
    /\ state' = [state EXCEPT ![s] = "run"]
    /\ Goto(w, "run", s)
    /\ UNCHANGED <<shared, work, parent, waits>>

\* do_sync: the frame waits for its children.
Sync(w) ==
    \E s \in Strands :
    /\ Running(w, s) /\ work[s] = 0 /\ ~Locked(s)
    /\ Unjoined(s) # {}
    /\ state' = [state EXCEPT ![s] = "sync"]
    /\ Goto(w, "sched", NULL)
    /\ UNCHANGED <<shared, work, parent, waits>>

-----------------------------------------------------------------------------
(* The end of a strand *)

\* The deque is empty, the parent stolen, and the function has synced.
AtEnd(w, s) ==
    Running(w, s) /\ work[s] = 0 /\ ~Locked(s) /\ Unjoined(s) = {}

\* cilkg_decrement_active_workers; at zero the exit frame is worker 0's.
DecrementForgetful ==
    active_workers' = active_workers - 1 /\ UNCHANGED next_frame

Decrement ==
    /\ active_workers' = active_workers - 1
    /\ next_frame' = IF active_workers = 1
                     THEN [next_frame EXCEPT ![W0] = exit_frame] ELSE next_frame

\* The strand of a spawned child, or of a future nobody waits for.
EndUncounted(w) ==
    \E s \in Strands \ {Root} :
    /\ AtEnd(w, s) /\ Waiters(s) = {}
    /\ state' = [state EXCEPT ![s] = "joining"]
    /\ Goto(w, "join", s)
    /\ UNCHANGED <<shared, work, parent, waits>>

End(w) ==
    \E s \in Strands \ {Root} :
    /\ AtEnd(w, s) /\ Waiters(s) = {}
    /\ Decrement
    /\ state' = [state EXCEPT ![s] = "joining"]
    /\ Goto(w, "join", s)
    /\ UNCHANGED <<exit_frame, work, parent, waits>>

\* do_return_from_spawn: the last child of a frame at its sync goes on with it.
Join(w) ==
    \E c \in Strands :
    /\ pc[w] = "join" /\ arg[w] = c
    /\ LET p == parent[c]
           last == p # NULL /\ state[p] = "sync" /\ Unjoined(p) = {c} IN
       /\ state' = [s \in Strands |->
                       IF s = c THEN "free" ELSE IF last /\ s = p THEN "run" ELSE state[s]]
       /\ next_frame' = IF last THEN [next_frame EXCEPT ![w] = p] ELSE next_frame
    /\ parent' = [parent EXCEPT ![c] = NULL]
    /\ Goto(w, "sched", NULL)
    /\ UNCHANGED <<active_workers, exit_frame, work, waits>>

\* A future is complete: put makes all waiters but one resumable ...
Put(w) ==
    \E s \in Strands \ {Root} :
    /\ AtEnd(w, s) /\ parent[s] = NULL /\ Waiters(s) # {}
    /\ Goto(w, "put", s)
    /\ UNCHANGED <<shared, state, work, parent, waits>>

MakeResumable(w) ==
    \E s, d \in Strands :
    /\ pc[w] = "put" /\ arg[w] = s
    /\ d \in Waiters(s) /\ Waiters(s) # {d} /\ ~Locked(d)
    /\ state' = [state EXCEPT ![d] = "resumable"]
    /\ waits' = [waits EXCEPT ![d] = NULL]
    /\ UNCHANGED <<shared, work, parent, pc, arg>>

\* ... and its worker goes on with that one: __cilkrts_resume_suspended does
\* not look whether the count is zero, for the resumed strand is counted.
ResumeSuspended(w) ==
    \E s, d \in Strands :
    /\ pc[w] = "put" /\ arg[w] = s
    /\ Waiters(s) = {d} /\ ~Locked(d)
    /\ active_workers' = active_workers - 1
    /\ state' = [state EXCEPT ![d] = "run", ![s] = "free"]
    /\ waits' = [waits EXCEPT ![d] = NULL]
    /\ Goto(w, "run", d)
    /\ UNCHANGED <<exit_frame, next_frame, work, parent>>

-----------------------------------------------------------------------------
(* __cilkrts_c_return_from_initial *)

OthersActiveElsewhere(w) == w # W0
OthersActive(w) == w # W0 \/ active_workers > 1

ReturnFromInitial(w) ==
    /\ AtEnd(w, Root)
    /\ Goto(w, IF OthersActive(w) THEN "suspend" ELSE "last", Root)
    /\ UNCHANGED <<shared, state, work, parent, waits>>

\* The initial frame is the last strand, and where it should be.
LastOne(w) ==
    /\ pc[w] = "last"
    /\ active_workers' = active_workers - 1
    /\ state' = [state EXCEPT ![Root] = "over"]
    /\ Goto(w, "exit", Root)
    /\ UNCHANGED <<exit_frame, next_frame, work, parent, waits>>

\* do_suspend_return_from_initial, on the scheduling fiber: the frame is
\* published, and then no longer counted.
SetExitFrame(w) ==
    /\ pc[w] = "suspend"
    /\ exit_frame' = Root
    /\ Goto(w, "decrement", Root)
    /\ UNCHANGED <<active_workers, next_frame, state, work, parent, waits>>

DecrementInitial(w) ==
    /\ pc[w] = "decrement"
    /\ Decrement
    /\ state' = [state EXCEPT ![Root] = "over"]
    /\ Goto(w, "sched", NULL)
    /\ UNCHANGED <<exit_frame, work, parent, waits>>

\* The user's thread leaves Cilk ...
Exit(w) ==
    /\ pc[w] = "exit"
    /\ exit_frame' = NULL
    /\ Goto(w, "out", NULL)
    /\ UNCHANGED <<active_workers, next_frame, state, work, parent, waits>>

\* ... and enters it again: wake_runtime.
Enter(w) ==
    /\ pc[w] = "out"
    /\ active_workers' = 1
    /\ state' = [state EXCEPT ![Root] = "run"]
    /\ Goto(w, "run", Root)
    /\ UNCHANGED <<exit_frame, next_frame, work, parent, waits>>

-----------------------------------------------------------------------------
Runtime(w) ==
    \/ Detach(w) \/ PopNextFrame(w) \/ Join(w) \/ MakeResumable(w) \/ ResumeSuspended(w)
    \/ LastOne(w) \/ SetExitFrame(w) \/ DecrementInitial(w) \/ Exit(w)

User(w) ==
    \/ Push(w) \/ Pop(w) \/ Get(w) \/ Sync(w) \/ End(w) \/ Put(w)
    \/ ReturnFromInitial(w) \/ Enter(w)

Next ==
    \/ \E w \in Workers : Runtime(w) \/ User(w) \/ Steal(w) \/ FailToSteal(w) \/ Resume(w)
    \/ \E s \in Strands : Complete(s)

\* The runtime finishes what it has begun.
Spec == Init /\ [][Next]_vars /\ \A w \in Workers : WF_vars(Runtime(w))

-----------------------------------------------------------------------------
(* Properties *)

\* The user's thread leaves Cilk, as worker 0, only when every strand has
\* ended, futures nobody waited for included, and none is left in the deque
\* pools: the assertions at the end of __cilkrts_c_return_from_initial.
ExitsLast ==
    \A w \in Workers : pc[w] \in {"exit", "out"} =>
        w = W0 /\ active_workers = 0 /\ Live = {} /\ Splitting = {}

\* Once the initial frame returns and no other strand is left, the user's thread
\* does leave Cilk: also when others outlive the initial frame, and one of them
\* brings the count to zero and hands its frame over.
Returning(w) == pc[w] \in {"last", "suspend", "decrement"}
UserReturns ==
    (Live \subseteq {Root} /\ (state[Root] = "over" \/ \E w \in Workers : Returning(w)))
        ~> \E w \in Workers : pc[w] = "out"
=============================================================================
