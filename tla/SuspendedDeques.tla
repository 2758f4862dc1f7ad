--------------------------- MODULE SuspendedDeques --------------------------
(***************************************************************************)
(* Suspended deques: a strand that waits for a future leaves its deque to  *)
(* the pools of some worker, thieves steal from it or throw it out of its  *)
(* pool once it is empty ("mug" it), and whoever completes the future      *)
(* makes it resumable or resumes it at once.                               *)
(*                                                                         *)
(* A pool is protected by its worker's lock.  A deque's own fields are     *)
(* not: whether the putter needs a lock depends on d->worker.              *)
(* What is done under one lock and seen by nobody else is one action.      *)
(*                                                                         *)
(* A definition whose name continues that of the one below it is the       *)
(* latter's mutant.                                                        *)
(***************************************************************************)
EXTENDS Integers, Sequences, FiniteSets, Functions

CONSTANTS
    Workers,
    IOThreads,      \* I/O threads, which only complete futures
    Deques,
    MaxWork,        \* bound: continuations on one deque
    NULL

Actors == Workers \cup IOThreads

ASSUME ActorsAssumption ==
    /\ Workers # {} /\ IsFiniteSet(Workers) /\ Workers \cap IOThreads = {}
    /\ NULL \notin Actors \cup Deques \cup {"switching", "resumable"}
ASSUME DequesAssumption ==
    IsFiniteSet(Deques) /\ Cardinality(Deques) > Cardinality(Workers)
ASSUME WorkAssumption == MaxWork \in Nat \ {0}

VARIABLES
    active,     \* active_deque of each worker
    work,       \* continuations between head and tail of each deque
    worker, self, resumable, fiber, frame,  \* fields of the deques
    suspended, resumables,  \* the pools of each worker
    lock,       \* the owner of each worker's lock
    waiting,    \* deques queued in a future that is not complete
    free,       \* deques not allocated
    pc, arg, vic, after     \* control: label, deque and victim in hand,
                            \* and where a suspending worker goes on

dequeVars == <<worker, self, resumable, fiber, frame>>
pools == <<suspended, resumables>>
control == <<pc, arg, vic, after>>
vars == <<active, work, worker, self, resumable, fiber, frame, suspended, resumables,
          lock, waiting, free, pc, arg, vic, after>>

ACTIVE == -1
INVALID == -2

Labels == {"run", "sched", "mugOwn", "switch", "park", "leave", "mr_wait", "mr_lock",
           "mr_mark", "mr_add", "rs_wait", "rs_lock", "rs_frame", "rs_own",
           "choose", "jump", "mug_frame", "mug_done"}

TypeOK ==
    /\ active \in [Workers -> Deques]
    /\ work \in [Deques -> 0..MaxWork]
    /\ worker \in [Deques -> Workers \cup {NULL}]
    /\ self \in [Deques -> INVALID..Cardinality(Deques)]
    /\ resumable \in [Deques -> BOOLEAN]
    /\ fiber \in [Deques -> {NULL, "switching", "resumable"}]
    /\ frame \in [Deques -> Workers \cup {NULL}]
    /\ suspended \in [Workers -> Seq(Deques)] /\ resumables \in [Workers -> Seq(Deques)]
    /\ lock \in [Workers -> Actors \cup {NULL}]
    /\ waiting \subseteq Deques /\ free \subseteq Deques
    /\ pc \in [Actors -> Labels] /\ arg \in [Actors -> Deques \cup {NULL}]
    /\ vic \in [Actors -> Workers \cup {NULL}] /\ after \in [Workers -> {"run", "sched"}]

\* Every worker starts in the scheduling loop with an empty deque; I/O threads
\* are always ready to complete something.
Init ==
    /\ active \in [Workers -> Deques]
    /\ \A v, w \in Workers : v # w => active[v] # active[w]
    /\ work = [d \in Deques |-> 0]
    /\ worker = [d \in Deques |-> IF \E w \in Workers : active[w] = d
                                  THEN CHOOSE w \in Workers : active[w] = d ELSE NULL]
    /\ self = [d \in Deques |-> IF worker[d] = NULL THEN INVALID ELSE ACTIVE]
    /\ resumable = [d \in Deques |-> FALSE]
    /\ fiber = [d \in Deques |-> NULL] /\ frame = [d \in Deques |-> NULL]
    /\ suspended = [w \in Workers |-> << >>] /\ resumables = [w \in Workers |-> << >>]
    /\ lock = [w \in Workers |-> NULL]
    /\ waiting = {} /\ free = {d \in Deques : worker[d] = NULL}
    /\ \E w \in Workers :
          pc = [a \in Actors |-> IF a \in Workers \ {w} THEN "sched" ELSE "run"]
    /\ arg = [a \in Actors |-> NULL] /\ vic = [a \in Actors |-> NULL]
    /\ after = [w \in Workers |-> "sched"]

Goto(a, label) == pc' = [pc EXCEPT ![a] = label]

-----------------------------------------------------------------------------
(* Pools: vectors whose elements know their index *)

\* deque_pool_remove swaps the last element into d's place.
RemoveNoUpdate(pool, w, d) ==
    LET last == pool[w][Len(pool[w])] IN
    /\ pool' = [pool EXCEPT ![w] = SubSeq([@ EXCEPT ![self[d] + 1] = last], 1, Len(@) - 1)]
    /\ self' = [self EXCEPT ![d] = INVALID]

Remove(pool, w, d) ==
    LET last == pool[w][Len(pool[w])] IN
    /\ pool' = [pool EXCEPT ![w] = SubSeq([@ EXCEPT ![self[d] + 1] = last], 1, Len(@) - 1)]
    /\ self' = [self EXCEPT ![last] = self[d], ![d] = INVALID]

\* deque_pool_add
Add(pool, w, d) ==
    /\ pool' = [pool EXCEPT ![w] = Append(@, d)]
    /\ self' = [self EXCEPT ![d] = Len(pool[w])]
    /\ worker' = [worker EXCEPT ![d] = w]

-----------------------------------------------------------------------------
(* What strands do *)

Spawn(w) ==
    /\ pc[w] = "run" /\ work[active[w]] < MaxWork
    /\ work' = [work EXCEPT ![active[w]] = @ + 1]
    /\ UNCHANGED <<active, lock, waiting, free>>
    /\ UNCHANGED dequeVars /\ UNCHANGED pools /\ UNCHANGED control

\* A child returns to the continuation, or the last frame ends and the worker
\* looks for other work.
Return(w) ==
    /\ pc[w] = "run"
    /\ IF work[active[w]] > 0
       THEN work' = [work EXCEPT ![active[w]] = @ - 1] /\ UNCHANGED <<pc, frame>>
       ELSE /\ Goto(w, "sched")
            /\ frame' = [frame EXCEPT ![active[w]] = NULL]
            /\ UNCHANGED work
    /\ UNCHANGED <<active, lock, waiting, free, worker, self, resumable, fiber, arg, vic, after>>
    /\ UNCHANGED pools

-----------------------------------------------------------------------------
(* __cilkrts_suspend_deque *)

\* Memory for another deque, apart from what other suspensions may need.
MemoryLeft ==
    Cardinality(free) > Cardinality({w \in Workers : pc[w] = "mugOwn"})

\* The strand has queued its deque in a future and gives it up.
Suspend(w) ==
    /\ pc[w] = "run" /\ MemoryLeft
    /\ waiting' = waiting \cup {active[w]}
    /\ frame' = [frame EXCEPT ![active[w]] = w]
    /\ Goto(w, "mugOwn")
    /\ UNCHANGED <<active, work, lock, free, worker, self, resumable, fiber, arg, vic, after>>
    /\ UNCHANGED pools

\* Under its own lock the worker looks for a resumable deque of its own; if
\* there is none it allocates one.
MugOwn(w) ==
    /\ pc[w] = "mugOwn" /\ lock[w] = NULL
    /\ Goto(w, "switch")
    /\ \/ /\ resumables[w] # << >>
          /\ LET d == resumables[w][Len(resumables[w])] IN
             /\ arg' = [arg EXCEPT ![w] = d]
             /\ Remove(resumables, w, d)
             /\ worker' = [worker EXCEPT ![d] = NULL]
             /\ frame' = [frame EXCEPT ![d] = w]
             /\ resumable' = [resumable EXCEPT ![d] = FALSE]
          /\ after' = [after EXCEPT ![w] = "run"]
          /\ UNCHANGED <<fiber, free, suspended>>
       \/ /\ resumables[w] = << >>
          /\ \E d \in free :
                /\ arg' = [arg EXCEPT ![w] = d]
                /\ free' = free \ {d}
                /\ fiber' = [fiber EXCEPT ![d] = "resumable"]   \* the scheduling fiber
                /\ frame' = [frame EXCEPT ![d] = NULL]
          /\ after' = [after EXCEPT ![w] = "sched"]
          /\ UNCHANGED <<worker, self, resumable>> /\ UNCHANGED pools
    /\ UNCHANGED <<active, work, lock, waiting, vic>>

\* can_steal_from
CanSteal(d) == work[d] > 0

\* Under its own lock the worker makes the new deque its active one; with a
\* newly allocated one it steals from the deque it leaves, if it gets a fiber.
Switch(w) ==
    /\ pc[w] = "switch" /\ lock[w] = NULL
    /\ LET d == active[w]
           new == arg[w] IN
       /\ active' = [active EXCEPT ![w] = new]
       /\ worker' = [worker EXCEPT ![new] = w]
       /\ self' = [self EXCEPT ![new] = ACTIVE]
       /\ fiber' = [fiber EXCEPT ![d] = "switching"]
       /\ arg' = [arg EXCEPT ![w] = d]
       /\ \/ /\ after[w] = "sched" /\ CanSteal(d)
             /\ work' = [work EXCEPT ![d] = @ - 1]
             /\ after' = [after EXCEPT ![w] = "run"]
          \/ UNCHANGED <<work, after>>
    /\ Goto(w, "park")
    /\ UNCHANGED <<resumable, frame, lock, waiting, free, vic>> /\ UNCHANGED pools

ParkAndRelease(w) ==
    /\ pc[w] = "park"
    /\ LET d == arg[w] IN
       \/ /\ work[d] > 0
          /\ \E v \in Workers : lock[v] = NULL /\ Add(suspended, v, d)
       \/ /\ work[d] = 0
          /\ self' = [self EXCEPT ![d] = INVALID]
          /\ worker' = [worker EXCEPT ![d] = NULL]
          /\ UNCHANGED suspended
    /\ fiber' = [fiber EXCEPT ![arg[w]] = "resumable"]
    /\ Goto(w, "leave")
    /\ UNCHANGED <<active, work, resumable, frame, resumables, lock, waiting, free, arg, vic, after>>

\* The deque left behind goes into the pool of some worker if there is work
\* on it, and nowhere otherwise.
Park(w) ==
    /\ pc[w] = "park"
    /\ LET d == arg[w] IN
       \/ /\ work[d] > 0
          /\ \E v \in Workers : lock[v] = NULL /\ Add(suspended, v, d)
       \/ /\ work[d] = 0
          /\ self' = [self EXCEPT ![d] = INVALID]
          /\ worker' = [worker EXCEPT ![d] = NULL]
          /\ UNCHANGED suspended
    /\ Goto(w, "leave")
    /\ UNCHANGED <<active, work, resumable, fiber, frame, resumables, lock, waiting, free, arg, vic, after>>

\* The worker changes fibers; only then can the old one be resumed.
Leave(w) ==
    /\ pc[w] = "leave"
    /\ fiber[active[w]] = "resumable"
    /\ fiber' = [fiber EXCEPT ![active[w]] = NULL, ![arg[w]] = "resumable"]
    /\ Goto(w, after[w])
    /\ arg' = [arg EXCEPT ![w] = NULL]
    /\ UNCHANGED <<active, work, worker, self, resumable, frame, lock, waiting, free, vic, after>>
    /\ UNCHANGED pools

-----------------------------------------------------------------------------
(* __cilkrts_make_resumable, called by put for all waiters but one, and by an *)
(* I/O thread for that one too *)

MakeResumable(a, d) ==
    /\ pc[a] = "run"
    /\ d \in waiting
    /\ waiting' = waiting \ {d}
    /\ arg' = [arg EXCEPT ![a] = d]
    /\ Goto(a, "mr_wait")
    /\ UNCHANGED <<active, work, lock, free, vic, after>>
    /\ UNCHANGED dequeVars /\ UNCHANGED pools

\* The deque is fully suspended: does it belong to somebody's pool?
SuspendedFully(d) == fiber[d] = "resumable"

ReadOwner(a, label, locked, unlocked) ==
    /\ pc[a] = label
    /\ SuspendedFully(arg[a])
    /\ vic' = [vic EXCEPT ![a] = worker[arg[a]]]
    /\ Goto(a, IF worker[arg[a]] # NULL THEN locked ELSE unlocked)
    /\ UNCHANGED <<active, work, lock, waiting, free, arg, after>>
    /\ UNCHANGED dequeVars /\ UNCHANGED pools

Done(a) ==
    /\ Goto(a, "run")
    /\ arg' = [arg EXCEPT ![a] = NULL]
    /\ vic' = [vic EXCEPT ![a] = NULL]

\* It did; under that worker's lock it still may.
StillPooled(d) == worker[d] # NULL

\* deque_pool_remove from one pool of v and deque_pool_add to the other.
MoveToResumablesHalf(v, d) ==
    /\ Remove(suspended, v, d)
    /\ UNCHANGED resumables

MoveToResumables(v, d) ==
    LET last == suspended[v][Len(suspended[v])] IN
    /\ suspended' = [suspended EXCEPT
                        ![v] = SubSeq([@ EXCEPT ![self[d] + 1] = last], 1, Len(@) - 1)]
    /\ resumables' = [resumables EXCEPT ![v] = Append(@, d)]
    /\ self' = [self EXCEPT ![last] = self[d], ![d] = Len(resumables[v])]

MakeResumableLocked(a) ==
    /\ pc[a] = "mr_lock" /\ lock[vic[a]] = NULL
    /\ LET d == arg[a] IN
       \/ /\ StillPooled(d)
          /\ MoveToResumables(vic[a], d)
          /\ resumable' = [resumable EXCEPT ![d] = TRUE]
          /\ Done(a)
       \/ /\ ~StillPooled(d)
          /\ Goto(a, "mr_mark")
          /\ UNCHANGED <<self, resumable, arg, vic>> /\ UNCHANGED pools
    /\ UNCHANGED <<active, work, worker, fiber, frame, lock, waiting, free, after>>

\* A deque in no pool: it is marked and given to a worker without a lock, ...
MakeResumableFree(a) ==
    /\ pc[a] = "mr_mark"
    /\ resumable' = [resumable EXCEPT ![arg[a]] = TRUE]
    /\ \E v \in Workers :
          /\ worker' = [worker EXCEPT ![arg[a]] = v]
          /\ vic' = [vic EXCEPT ![a] = v]
    /\ Goto(a, "mr_add")
    /\ UNCHANGED <<active, work, self, fiber, frame, lock, waiting, free, arg, after>>
    /\ UNCHANGED pools

\* ... and put into that worker's pool with it.
MakeResumableAdd(a) ==
    /\ pc[a] = "mr_add" /\ lock[vic[a]] = NULL
    /\ Add(resumables, vic[a], arg[a])
    /\ Done(a)
    /\ UNCHANGED <<active, work, resumable, fiber, frame, suspended, lock, waiting, free, after>>

-----------------------------------------------------------------------------
(* __cilkrts_resume_suspended(d, 2): the strand that completed the future *)
(* ends, and its worker goes on with the deque that put returned          *)

ResumeSuspended(w, d) ==
    /\ pc[w] = "run" /\ w \in Workers /\ work[active[w]] = 0
    /\ d \in waiting
    /\ waiting' = waiting \ {d}
    /\ arg' = [arg EXCEPT ![w] = d]
    /\ Goto(w, "rs_wait")
    /\ UNCHANGED <<active, work, lock, free, vic, after>>
    /\ UNCHANGED dequeVars /\ UNCHANGED pools

\* deque_mug, if nobody did it before.
ResumeLocked(w) ==
    /\ pc[w] = "rs_lock" /\ lock[vic[w]] = NULL
    /\ LET d == arg[w] IN
       \/ /\ StillPooled(d)
          /\ Remove(suspended, vic[w], d)
          /\ worker' = [worker EXCEPT ![d] = NULL]
          /\ frame' = [frame EXCEPT ![d] = w]
       \/ /\ ~StillPooled(d)
          /\ UNCHANGED <<suspended, self, worker, frame>>
    /\ Goto(w, "rs_frame")
    /\ vic' = [vic EXCEPT ![w] = NULL]
    /\ UNCHANGED <<active, work, resumable, fiber, resumables, lock, waiting, free, arg, after>>

ResumeFrame(w) ==
    /\ pc[w] = "rs_frame"
    /\ frame' = [frame EXCEPT ![arg[w]] = w]
    /\ Goto(w, "rs_own")
    /\ vic' = [vic EXCEPT ![w] = NULL]
    /\ UNCHANGED <<active, work, worker, self, resumable, fiber, lock, waiting, free, arg, after>>
    /\ UNCHANGED pools

\* The worker takes over d and destroys the deque it had.
TakeOver(w, d) ==
    /\ active' = [active EXCEPT ![w] = d]
    /\ worker' = [worker EXCEPT ![d] = w, ![active[w]] = NULL]
    /\ self' = [self EXCEPT ![d] = ACTIVE, ![active[w]] = INVALID]
    /\ fiber' = [fiber EXCEPT ![d] = NULL]
    /\ resumable' = [resumable EXCEPT ![d] = FALSE]
    /\ frame' = [frame EXCEPT ![active[w]] = NULL]
    /\ free' = free \cup {active[w]}

ResumeOwn(w) ==
    /\ pc[w] = "rs_own" /\ lock[w] = NULL
    /\ TakeOver(w, arg[w])
    /\ Done(w)
    /\ UNCHANGED <<work, lock, waiting, after>> /\ UNCHANGED pools

-----------------------------------------------------------------------------
(* random_steal *)

TryLock(w, v) ==
    /\ pc[w] = "sched" /\ lock[v] = NULL
    /\ lock' = [lock EXCEPT ![v] = w]
    /\ vic' = [vic EXCEPT ![w] = v]
    /\ Goto(w, "choose")
    /\ UNCHANGED <<active, work, waiting, free, arg, after>>
    /\ UNCHANGED dequeVars /\ UNCHANGED pools

Unlock(w) ==
    /\ lock' = [lock EXCEPT ![vic[w]] = NULL]
    /\ vic' = [vic EXCEPT ![w] = NULL]

\* choose_deque: a resumable deque first, or any suspended one or the active
\* one, but not one's own active deque if there is another.
Choices(w, v) ==
    {suspended[v][i] : i \in DOMAIN suspended[v]}
    \cup (IF v = w /\ suspended[v] # << >> THEN {} ELSE {active[v]})

ChooseResumable(w) ==
    /\ pc[w] = "choose" /\ resumables[vic[w]] # << >>
    /\ LET v == vic[w]
           d == resumables[v][Len(resumables[v])] IN
       /\ Remove(resumables, v, d)
       /\ worker' = [worker EXCEPT ![d] = NULL]
       /\ frame' = [frame EXCEPT ![d] = w]
       /\ arg' = [arg EXCEPT ![w] = d]
    /\ Unlock(w)
    /\ Goto(w, "jump")
    /\ UNCHANGED <<active, work, resumable, fiber, suspended, waiting, free, after>>

\* jump_to_suspended_fiber
Jump(w) ==
    /\ pc[w] = "jump" /\ SuspendedFully(arg[w]) /\ lock[w] = NULL
    /\ TakeOver(w, arg[w])
    /\ Goto(w, "run")
    /\ arg' = [arg EXCEPT ![w] = NULL]
    /\ UNCHANGED <<work, lock, waiting, vic, after>> /\ UNCHANGED pools

\* There is work (the dekker protocol is THEProtocol's): steal it, unless there
\* is no fiber.
Steal(w, d) ==
    /\ pc[w] = "choose" /\ resumables[vic[w]] = << >>
    /\ d \in Choices(w, vic[w]) /\ CanSteal(d)
    /\ \/ work' = [work EXCEPT ![d] = @ - 1] /\ Goto(w, "run")
       \/ UNCHANGED work /\ Goto(w, "sched")
    /\ Unlock(w)
    /\ UNCHANGED <<active, waiting, free, arg, after>>
    /\ UNCHANGED dequeVars /\ UNCHANGED pools

\* There is none: throw a suspended deque out of its pool.  deque_mug clears
\* d->worker before it writes to the frame.
FailToSteal(w, d) ==
    /\ pc[w] = "choose" /\ resumables[vic[w]] = << >>
    /\ d \in Choices(w, vic[w]) /\ ~CanSteal(d)
    /\ IF d = active[vic[w]]
       THEN /\ Goto(w, "sched") /\ Unlock(w)
            /\ UNCHANGED <<arg, suspended, self, worker>>
       ELSE /\ Remove(suspended, vic[w], d)
            /\ worker' = [worker EXCEPT ![d] = NULL]
            /\ arg' = [arg EXCEPT ![w] = d]
            /\ Goto(w, "mug_frame")
            /\ UNCHANGED <<lock, vic>>
    /\ UNCHANGED <<active, work, resumable, fiber, frame, resumables, waiting, free, after>>

MugFrame(w) ==
    /\ pc[w] = "mug_frame"
    /\ frame' = [frame EXCEPT ![arg[w]] = w]
    /\ Goto(w, "mug_done")
    /\ UNCHANGED <<active, work, worker, self, resumable, fiber, lock, waiting, free, arg, vic, after>>
    /\ UNCHANGED pools

MugDone(w) ==
    /\ pc[w] = "mug_done"
    /\ Unlock(w)
    /\ arg' = [arg EXCEPT ![w] = NULL]
    /\ Goto(w, "sched")
    /\ UNCHANGED <<active, work, waiting, free, after>>
    /\ UNCHANGED dequeVars /\ UNCHANGED pools

-----------------------------------------------------------------------------
Next ==
    \/ \E w \in Workers :
          \/ Spawn(w) \/ Return(w)
          \/ Suspend(w) \/ MugOwn(w) \/ Switch(w) \/ Park(w) \/ Leave(w)
          \/ ReadOwner(w, "rs_wait", "rs_lock", "rs_frame")
          \/ ResumeLocked(w) \/ ResumeFrame(w) \/ ResumeOwn(w)
          \/ ChooseResumable(w) \/ Jump(w) \/ MugFrame(w) \/ MugDone(w)
          \/ \E v \in Workers : TryLock(w, v)
          \/ \E d \in Deques : ResumeSuspended(w, d) \/ Steal(w, d) \/ FailToSteal(w, d)
    \/ \E a \in Actors :
          \/ ReadOwner(a, "mr_wait", "mr_lock", "mr_mark")
          \/ MakeResumableLocked(a) \/ MakeResumableFree(a) \/ MakeResumableAdd(a)
          \/ \E d \in Deques : MakeResumable(a, d)

Spec == Init /\ [][Next]_vars

-----------------------------------------------------------------------------
(* Properties *)

Pooled(d) == \E w \in Workers : d \in Range(suspended[w]) \cup Range(resumables[w])

\* Every deque in a pool knows where it is, so that it can be taken out by
\* whoever completes its future: right worker, right index, right pool.  It
\* follows that it is in one place only.  And "No one can see this now": a
\* deque that was destroyed is in no pool, waits for no future and is nobody's
\* active deque.
PoolsConsistent ==
    /\ \A w \in Workers :
          /\ \A i \in DOMAIN suspended[w] :
                LET d == suspended[w][i]
                IN  worker[d] = w /\ self[d] = i - 1 /\ ~resumable[d]
          /\ \A i \in DOMAIN resumables[w] :
                LET d == resumables[w][i]
                IN  worker[d] = w /\ self[d] = i - 1 /\ resumable[d]
    /\ \A d \in free : ~Pooled(d) /\ d \notin waiting /\ \A w \in Workers : active[w] # d

\* No deque is lost or run twice: each allocated one is, exactly once, the
\* deque of a worker that means to keep it, or waiting for its future, or woken
\* and in a pool where thieves find it, or in the hands of an actor that will
\* run it or put it there.
NoDequeLost ==
    \A d \in Deques \ free :
        LET keeping == {w \in Workers : active[w] = d /\ pc[w] \notin {"mugOwn", "switch"}}
            holding == {a \in Actors : arg[a] = d /\ pc[a] \notin {"park", "leave",
                                                                "mug_frame", "mug_done"}}
            finding == {w \in Workers : d \in Range(resumables[w])}
        IN  Cardinality(keeping) + Cardinality(holding) + Cardinality(finding)
            + Cardinality(waiting \cap {d}) = 1

\* Nobody runs on a fiber that another worker has not left yet.
OneWorkerPerFiber ==
    \A v, w \in Workers :
        pc[v] \in {"park", "leave"} /\ active[w] = arg[v] => v = w

=============================================================================
