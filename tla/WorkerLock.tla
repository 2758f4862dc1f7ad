----------------------------- MODULE WorkerLock -----------------------------
(***************************************************************************)
(* The lock of one worker.  The worker takes it in __cilkrts_worker_lock,  *)
(* after raising do_not_steal; thieves try it in random_steal, and pool    *)
(* operations, the worker's own among them, take it directly.              *)
(*                                                                         *)
(* Nobody looks at do_not_steal: the one function that does,               *)
(* worker_trylock_other, has no caller.                                    *)
(*                                                                         *)
(* A definition whose name continues that of the one below it is the       *)
(* latter's mutant.                                                        *)
(***************************************************************************)
EXTENDS Integers

CONSTANTS
    Self,       \* the worker whose lock it is
    Others,     \* the other workers
    NoWorker

LockActors == Others \cup {Self}

ASSUME LockActorsAssumption == Self \notin Others /\ NoWorker \notin LockActors

VARIABLES
    lock_word,      \* who set the lock word of the mutex, NoWorker if it is 0
    owner,          \* its owner field
    do_not_steal,
    doing,          \* where each actor is
    overtaken       \* history: the steal attempts that have got the lock since
                    \* the flag was raised; 2 stands for two or more

lockVars == <<lock_word, owner, do_not_steal, doing, overtaken>>

LockTypeOK ==
    /\ lock_word \in LockActors \cup {NoWorker} /\ owner \in LockActors \cup {NoWorker}
    /\ do_not_steal \in BOOLEAN
    /\ doing \in [LockActors -> {"out", "spin", "set", "in", "claim", "done", "release", "lower"}]
    /\ overtaken \in 0..2

LockInit ==
    /\ lock_word = NoWorker /\ owner = NoWorker
    /\ do_not_steal = FALSE
    /\ doing = [a \in LockActors |-> "out"]
    /\ overtaken = 0

GoOn(a, label) == doing' = [doing EXCEPT ![a] = label]

-----------------------------------------------------------------------------
(* The mutex: a lock word, and a field that names its owner *)

\* TRY_ACQUIRE
Acquire(a) == lock_word = NoWorker /\ lock_word' = a

\* __cilkrts_mutex_lock, called without looking at or raising the flag.
LockDirectly(a) ==
    /\ doing[a] = "out"
    /\ GoOn(a, "spin")
    /\ UNCHANGED <<lock_word, owner, do_not_steal, overtaken>>

SpinForLock(a) ==
    /\ doing[a] = "spin"
    /\ Acquire(a)
    /\ GoOn(a, "set")
    /\ UNCHANGED <<owner, do_not_steal, overtaken>>

\* A thief has the lock for the steal, and then comes to random_steal's done.
SetOwner(a) ==
    /\ doing[a] \in {"set", "claim"}
    /\ owner' = a
    /\ GoOn(a, IF doing[a] = "set" THEN "in" ELSE "done")
    /\ UNCHANGED <<lock_word, do_not_steal, overtaken>>

\* __cilkrts_mutex_unlock in two stores.
MutexUnlockSwapped(a) ==
    /\ \/ doing[a] = "in" /\ lock_word' = NoWorker
          /\ GoOn(a, "release") /\ UNCHANGED owner
       \/ doing[a] = "release" /\ owner' = NoWorker
          /\ GoOn(a, IF a = Self /\ do_not_steal THEN "lower" ELSE "out")
          /\ UNCHANGED lock_word
    /\ UNCHANGED <<do_not_steal, overtaken>>

MutexUnlock(a) ==
    /\ \/ doing[a] = "in" /\ owner' = NoWorker
          /\ GoOn(a, "release") /\ UNCHANGED lock_word
       \/ doing[a] = "release" /\ lock_word' = NoWorker
          /\ GoOn(a, IF a = Self /\ do_not_steal THEN "lower" ELSE "out")
          /\ UNCHANGED owner
    /\ UNCHANGED <<do_not_steal, overtaken>>

-----------------------------------------------------------------------------
(* __cilkrts_worker_lock and __cilkrts_worker_unlock *)

Raise ==
    /\ doing[Self] = "out"
    /\ do_not_steal' = TRUE
    /\ overtaken' = 0
    /\ GoOn(Self, "spin")
    /\ UNCHANGED <<lock_word, owner>>

Lower ==
    /\ doing[Self] = "lower"
    /\ do_not_steal' = FALSE
    /\ GoOn(Self, "out")
    /\ UNCHANGED <<lock_word, owner, overtaken>>

-----------------------------------------------------------------------------
(* random_steal, by another worker or by one that has picked itself *)

Counted(n) == IF do_not_steal /\ n < 2 THEN n + 1 ELSE n

TrySteal(a) ==
    /\ doing[a] = "out"
    /\ \/ Acquire(a) /\ GoOn(a, "claim") /\ overtaken' = Counted(overtaken)
       \/ /\ lock_word # NoWorker
          /\ GoOn(a, "done") /\ UNCHANGED <<lock_word, overtaken>>
    /\ UNCHANGED <<owner, do_not_steal>>

\* At done a thief asks the owner field, which it reads without the lock if
\* it did not get it, whether there is something to unlock.
AtDone(a) ==
    /\ doing[a] = "done"
    /\ GoOn(a, IF owner = a THEN "in" ELSE "out")
    /\ UNCHANGED <<lock_word, owner, do_not_steal, overtaken>>

-----------------------------------------------------------------------------
LockNext ==
    \/ Raise \/ Lower
    \/ \E a \in LockActors :
        \/ LockDirectly(a) \/ SpinForLock(a) \/ SetOwner(a) \/ MutexUnlock(a)
        \/ TrySteal(a) \/ AtDone(a)

LockSpec == LockInit /\ [][LockNext]_lockVars

-----------------------------------------------------------------------------
(* Properties *)

\* The assertions of the mutex: its owner field is clear when the lock is
\* acquired and names the actor that releases it.  And since random_steal asks
\* the field without the lock: it names nobody who does not hold the lock, and
\* whoever has left does not hold it.
OwnerFieldIsRight ==
    /\ \A a \in LockActors :
        /\ doing[a] \in {"set", "claim"} => owner = NoWorker
        /\ doing[a] = "in" => owner = a
        /\ doing[a] = "out" => lock_word # a
    /\ owner # NoWorker => lock_word = owner

\* What the comment of worker_trylock_other says of the flag: once it is up
\* at most one thief more takes the lock before the worker.
OvertakeAtMostOnce == doing[Self] = "spin" /\ do_not_steal => overtaken <= 1
=============================================================================
