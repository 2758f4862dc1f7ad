-------------------------- MODULE WorkerLock_proofs -------------------------
(***************************************************************************)
(* Proofs about the worker's lock, for any number of workers: the owner    *)
(* field is right, and random_steal's test of it without the lock gives up *)
(* exactly the locks that are held.                                        *)
(***************************************************************************)
EXTENDS WorkerLock, TLAPS

\* The lock word is set by the one actor that is past its acquisition.
HolderInv ==
    /\ \A a \in LockActors : doing[a] \in {"set", "claim", "in", "release"} => lock_word = a
    /\ \A a \in LockActors : lock_word = a => doing[a] \in {"set", "claim", "in", "done", "release"}

\* The owner field names the holder from its store to that of the unlock; a
\* thief at done that the field does not name does not have the lock.
OwnerInv ==
    /\ \A a \in LockActors : owner = a => lock_word = a /\ doing[a] \in {"in", "done"}
    /\ \A a \in LockActors : lock_word = a /\ doing[a] \in {"in", "done"} => owner = a

MutexInv == LockTypeOK /\ HolderInv /\ OwnerInv

-----------------------------------------------------------------------------
LEMMA InitMutex == LockInit => MutexInv
<1> SUFFICES ASSUME LockInit PROVE MutexInv
  OBVIOUS
<1>1. \A a \in LockActors : doing[a] = "out" /\ lock_word # a /\ owner # a
  BY LockActorsAssumption DEF LockInit
<1>2. LockTypeOK
  <2>1. overtaken \in 0..2
    BY DEF LockInit
  <2>2. doing \in [LockActors -> {"out"}] /\ do_not_steal \in BOOLEAN
    BY DEF LockInit
  <2> QED
    BY <2>1, <2>2 DEF LockInit, LockTypeOK
<1>3. HolderInv /\ OwnerInv
  BY <1>1 DEF HolderInv, OwnerInv
<1> QED
  BY <1>2, <1>3 DEF MutexInv

LEMMA StepMutex == MutexInv /\ [LockNext]_lockVars => MutexInv'
<1> SUFFICES ASSUME MutexInv, [LockNext]_lockVars PROVE MutexInv'
  OBVIOUS
<1> USE LockActorsAssumption DEF MutexInv, LockTypeOK, HolderInv, OwnerInv, LockActors, GoOn
<1>1. CASE Raise
  BY <1>1 DEF Raise
<1>2. CASE Lower
  BY <1>2 DEF Lower
<1>3. ASSUME NEW a \in LockActors, LockDirectly(a) PROVE MutexInv'
  BY <1>3 DEF LockDirectly
<1>4. ASSUME NEW a \in LockActors, SpinForLock(a) PROVE MutexInv'
  BY <1>4 DEF SpinForLock, Acquire
<1>5. ASSUME NEW a \in LockActors, SetOwner(a) PROVE MutexInv'
  BY <1>5 DEF SetOwner
<1>6. ASSUME NEW a \in LockActors, MutexUnlock(a) PROVE MutexInv'
  BY <1>6 DEF MutexUnlock
<1>7. ASSUME NEW a \in LockActors, TrySteal(a) PROVE MutexInv'
  BY <1>7 DEF TrySteal, Acquire, Counted
<1>8. ASSUME NEW a \in LockActors, AtDone(a) PROVE MutexInv'
  BY <1>8 DEF AtDone
<1>9. CASE UNCHANGED lockVars
  BY <1>9 DEF lockVars
<1> QED
  BY <1>1, <1>2, <1>3, <1>4, <1>5, <1>6, <1>7, <1>8, <1>9 DEF LockNext

LEMMA MutexInvariance == LockSpec => []MutexInv
BY InitMutex, StepMutex, PTL DEF LockSpec

LEMMA MutexImplies == MutexInv => LockTypeOK /\ OwnerFieldIsRight
BY LockActorsAssumption DEF MutexInv, LockTypeOK, HolderInv, OwnerInv, OwnerFieldIsRight, LockActors

\* The fields of the mutex, the flag and the control state keep their types,
\* whoever goes for the lock and in whichever way.
THEOREM TypeCorrect == LockSpec => []LockTypeOK
BY MutexInvariance, MutexImplies, PTL

\* The assertions of worker_mutex.c never fail, owner names only the actor
\* that holds the lock, and no thief leaves random_steal with the lock or
\* releases another's.
THEOREM OwnerFieldTheorem == LockSpec => []OwnerFieldIsRight
BY MutexInvariance, MutexImplies, PTL
=============================================================================
