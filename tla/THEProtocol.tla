---------------------------- MODULE THEProtocol ----------------------------
(***************************************************************************)
(* The THE protocol on one deque: the owner pushes and pops continuations  *)
(* at the tail (T) with plain stores, thieves take the one at the head (H) *)
(* under the victim's worker lock, and both announce themselves before     *)
(* they look: the owner lowers T, a thief raises E.                        *)
(*                                                                         *)
(* The owner's stores go through a FIFO store buffer, as on the x86 the    *)
(* code is written for; locked instructions and fences drain it.  A        *)
(* thief's accesses to H and E are fenced by the code itself.              *)
(*                                                                         *)
(* A definition whose name continues that of the one below it is the       *)
(* latter's mutant: a plausible mistake in that code, used only to see     *)
(* that a property notices it.                                             *)
(***************************************************************************)
EXTENDS Integers, Sequences

CONSTANTS
    Frames,     \* stack frames (__cilkrts_stack_frame)
    Thieves,    \* workers that may pick this deque as their victim
    NoFrame,    \* no frame: a NULL stack frame pointer
    NoThief,    \* the worker lock is free
    Limit,      \* ltq_limit - ltq: the slots of the ltq array
    BufferSize  \* bound: stores the owner may have in flight

ASSUME LimitAssumption == Limit \in Nat \ {0}
ASSUME BufferAssumption == BufferSize \in Nat
ASSUME NoFrameAssumption == NoFrame \notin Frames
ASSUME NoThiefAssumption == NoThief \notin Thieves

VARIABLES
    \* shared memory (struct deque)
    head, tail, exc, ltq,
    protected_tail,
    victim_lock,    \* holder of the victim's l->lock among the thieves
    \* the owner
    sb,         \* its store buffer, oldest store first
    otail,      \* T as the owner reads it (its own latest store)
    opc,        \* where it is in the protocol
    cur,        \* the frame it executes
    base,
    parents,    \* detached parents it will return to: parents[i] was pushed
                \* at index base + i - 1
    \* the thieves
    tpc,        \* where each is in random_steal
    slot,       \* its local h in detach_for_steal
    loot        \* the frame it has stolen and executes

protocolVars == <<head, tail, exc, ltq, protected_tail, victim_lock, sb, otail, opc, cur,
          base, parents, tpc, slot, loot>>
ownerVars == <<sb, otail, opc, cur, base, parents>>
thiefVars == <<victim_lock, tpc, slot, loot>>

Stores == [var : {"slot"}, at : 0..(Limit - 1), frame : Frames]
             \cup [var : {"tail"}, at : 0..Limit, frame : {NoFrame}]
StoreSlot(i, f) == [var |-> "slot", at |-> i, frame |-> f]
StoreTail(i) == [var |-> "tail", at |-> i, frame |-> NoFrame]

OwnerPCs == {"work", "undo", "check", "sched"}
ThiefPCs ==
    {"idle", "locked", "ready", "raised", "won", "taken", "lost", "run"}

DequeTypeOK ==
    /\ head \in 0..Limit
    /\ tail \in 0..Limit
    /\ exc \in 0..(Limit + 1)
    /\ ltq \in [0..(Limit - 1) -> Frames \cup {NoFrame}]
    /\ protected_tail \in {0, Limit}
    /\ victim_lock \in Thieves \cup {NoThief}
    /\ sb \in Seq(Stores)
    /\ otail \in -1..Limit
    /\ opc \in OwnerPCs
    /\ cur \in Frames \cup {NoFrame}
    /\ base \in 0..Limit
    /\ parents \in Seq(Frames)
    /\ tpc \in [Thieves -> ThiefPCs]
    /\ slot \in [Thieves -> 0..Limit]
    /\ loot \in [Thieves -> Frames \cup {NoFrame}]

\* The frames nobody runs, has stolen or will return to.
Detached == {parents[i] : i \in 1..Len(parents)}
Free == Frames \ (Detached \cup {cur} \cup {loot[t] : t \in Thieves})

(***************************************************************************)
(* deque_init leaves H = T = E = ltq.  Binding the user thread disallows   *)
(* stealing for good when it could not get a scheduling fiber.             *)
(***************************************************************************)
DequeInit ==
    /\ head = 0 /\ tail = 0 /\ exc = 0
    /\ ltq = [i \in 0..(Limit - 1) |-> NoFrame]
    /\ protected_tail \in {0, Limit}
    /\ victim_lock = NoThief
    /\ sb = << >> /\ otail = 0
    /\ opc = "work"
    /\ cur \in Frames
    /\ base = 0 /\ parents = << >>
    /\ tpc = [t \in Thieves |-> "idle"]
    /\ slot = [t \in Thieves |-> 0]
    /\ loot = [t \in Thieves |-> NoFrame]

-----------------------------------------------------------------------------
(* The owner *)

\* The oldest store in flight reaches memory.
Drain ==
    /\ sb # << >>
    /\ IF Head(sb).var = "slot"
       THEN /\ ltq' = [ltq EXCEPT ![Head(sb).at] = Head(sb).frame]
            /\ tail' = tail
       ELSE /\ tail' = Head(sb).at
            /\ ltq' = ltq
    /\ sb' = Tail(sb)
    /\ UNCHANGED <<head, exc, protected_tail, otail, opc, cur, base, parents>>
    /\ UNCHANGED thiefVars

\* A fence or a locked instruction of the owner has completed.
Drained == sb = << >>

\* __cilkrts_detach: push the continuation of the current frame and run a
\* child.  The slot is stored before the tail.
PushStoresSwapped == <<StoreTail(otail + 1), StoreSlot(otail, cur)>>
PushStores == <<StoreSlot(otail, cur), StoreTail(otail + 1)>>

SpawnChild ==
    /\ opc = "work"
    /\ otail < Limit
    /\ Len(sb) + 2 <= BufferSize
    /\ \E child \in Free : cur' = child
    /\ sb' = sb \o PushStores
    /\ otail' = otail + 1
    /\ parents' = Append(parents, cur)
    /\ UNCHANGED <<head, tail, exc, ltq, protected_tail, opc, base>>
    /\ UNCHANGED thiefVars

\* The spawned child returns: __cilkrts_undo_detach lowers T ...
UndoDetach ==
    /\ opc = "work"
    /\ parents # << >>
    /\ Len(sb) + 1 <= BufferSize
    /\ sb' = Append(sb, StoreTail(otail - 1))
    /\ otail' = otail - 1
    /\ opc' = "undo"
    /\ UNCHANGED <<head, tail, exc, ltq, protected_tail, cur, base, parents>>
    /\ UNCHANGED thiefVars

\* ... and, after the barrier, compares it with E.
FencedMissing == TRUE
Fenced == Drained

ReturnToParent ==
    /\ cur' = parents[Len(parents)]
    /\ parents' = SubSeq(parents, 1, Len(parents) - 1)
    /\ opc' = "work"
    /\ UNCHANGED base

CompareE ==
    /\ opc = "undo"
    /\ Fenced
    /\ IF otail < exc
       THEN opc' = "check" /\ UNCHANGED <<cur, base, parents>>
       ELSE ReturnToParent
    /\ UNCHANGED <<head, tail, exc, ltq, protected_tail, sb, otail>>
    /\ UNCHANGED thiefVars

\* The parent was stolen: the strand ends with the deque empty.
LeaveForScheduler ==
    /\ cur' = NoFrame
    /\ parents' = << >>
    /\ opc' = "sched"

\* __cilkrts_c_THE_exception_check, under the worker lock.
StolenOffByOne == ~(head < otail)
Stolen == ~(head < otail + 1)

THE_exception_check ==
    /\ opc = "check"
    /\ victim_lock = NoThief
    /\ exc' = head
    /\ IF Stolen
       THEN /\ LeaveForScheduler
            /\ otail' = otail + 1
            /\ tail' = otail + 1
            /\ base' = otail + 1
       ELSE ReturnToParent /\ UNCHANGED <<otail, tail>>
    /\ UNCHANGED <<head, ltq, protected_tail, sb>>
    /\ UNCHANGED thiefVars

\* A child that throws returns through __cilkrts_pop_tail, which decides
\* under the worker lock and touches neither E nor, when it fails, T.
PopTail ==
    /\ opc = "work"
    /\ parents # << >>
    /\ Drained
    /\ victim_lock = NoThief
    /\ IF head < otail
       THEN /\ otail' = otail - 1
            /\ tail' = otail - 1
            /\ ReturnToParent
       ELSE /\ LeaveForScheduler
            /\ base' = otail
            /\ UNCHANGED <<otail, tail>>
    /\ UNCHANGED <<head, exc, ltq, protected_tail, sb>>
    /\ UNCHANGED thiefVars

\* __cilkrts_promote_own_deque: the owner raises E and takes its own head
\* until dekker_protocol fails, and lowers E again.
PromoteOwnDeque ==
    /\ opc = "work"
    /\ Drained
    /\ victim_lock = NoThief
    /\ head < otail /\ head < protected_tail
    /\ head' = otail
    /\ exc' = exc + (otail - head)
    /\ UNCHANGED <<tail, ltq, protected_tail>>
    /\ UNCHANGED ownerVars
    /\ UNCHANGED thiefVars

\* The frame ends, or stalls at a sync, with nothing left to return to: the
\* owner enters the runtime without looking at the deque.
EnterRuntime ==
    /\ opc = "work"
    /\ parents = << >>
    /\ opc' = "sched"
    /\ cur' = NoFrame
    /\ UNCHANGED <<head, tail, exc, ltq, protected_tail, sb, otail, base, parents>>
    /\ UNCHANGED thiefVars

\* Reductions of a returning spawn run on the deque as it was left.
Reduce ==
    /\ opc = "sched"
    /\ \E f \in Free : cur' = f
    /\ opc' = "work"
    /\ UNCHANGED <<head, tail, exc, ltq, protected_tail, sb, otail, base, parents>>
    /\ UNCHANGED thiefVars

\* setup_for_execution, under the worker lock.
SetupForExecution ==
    /\ opc = "sched"
    /\ victim_lock = NoThief
    /\ \E f \in Free : cur' = f
    /\ head' = 0 /\ tail' = 0 /\ otail' = 0
    /\ exc' = 0
    /\ base' = 0
    /\ opc' = "work"
    /\ UNCHANGED <<ltq, protected_tail, sb, parents>>
    /\ UNCHANGED thiefVars

-----------------------------------------------------------------------------
(* A thief: random_steal on the victim's active deque *)

Stealable == head < tail /\ head < protected_tail

\* __cilkrts_mutex_trylock(w, &victim->l->lock)
LockVictim(t) ==
    /\ tpc[t] = "idle"
    /\ victim_lock = NoThief
    /\ victim_lock' = t
    /\ tpc' = [tpc EXCEPT ![t] = "locked"]
    /\ UNCHANGED <<head, tail, exc, ltq, protected_tail, slot, loot>>
    /\ UNCHANGED ownerVars

\* The first look, before a fiber is allocated.  The owner pops without the
\* lock, so the answer may be stale as soon as it is given.
CanStealFrom(t) ==
    /\ tpc[t] = "locked"
    /\ Stealable
    /\ tpc' = [tpc EXCEPT ![t] = "ready"]
    /\ UNCHANGED <<head, tail, exc, ltq, protected_tail, victim_lock, slot, loot>>
    /\ UNCHANGED ownerVars

\* goto done: nothing to steal, another deque chosen, no fiber, or another
\* team's deque.
GiveUp(t) ==
    /\ tpc[t] \in {"locked", "ready"}
    /\ victim_lock' = NoThief
    /\ tpc' = [tpc EXCEPT ![t] = "idle"]
    /\ UNCHANGED <<head, tail, exc, ltq, protected_tail, slot, loot>>
    /\ UNCHANGED ownerVars

\* dekker_protocol raises E, fenced, whatever the deque has become.
IncrementE(t) ==
    /\ tpc[t] = "ready"
    /\ exc' = exc + 1
    /\ tpc' = [tpc EXCEPT ![t] = "raised"]
    /\ UNCHANGED <<head, tail, ltq, protected_tail, victim_lock, slot, loot>>
    /\ UNCHANGED ownerVars

\* dekker_protocol looks again.  A replay may refuse the frame it won.
SecondLookSkipped == TRUE
SecondLook == Stealable

Dekker(t) ==
    /\ tpc[t] = "raised"
    /\ \/ SecondLook /\ tpc' = [tpc EXCEPT ![t] = "won"]
       \/ tpc' = [tpc EXCEPT ![t] = "lost"]
    /\ UNCHANGED <<head, tail, exc, ltq, protected_tail, victim_lock, slot, loot>>
    /\ UNCHANGED ownerVars

\* decrement_E, and the attempt is over.
DecrementE(t) ==
    /\ tpc[t] = "lost"
    /\ exc' = exc - 1
    /\ victim_lock' = NoThief
    /\ tpc' = [tpc EXCEPT ![t] = "idle"]
    /\ UNCHANGED <<head, tail, ltq, protected_tail, slot, loot>>
    /\ UNCHANGED ownerVars

\* detach_for_steal: H moves first ...
Detach(t) ==
    /\ tpc[t] = "won"
    /\ slot' = [slot EXCEPT ![t] = head]
    /\ head' = head + 1
    /\ tpc' = [tpc EXCEPT ![t] = "taken"]
    /\ UNCHANGED <<tail, exc, ltq, protected_tail, victim_lock, loot>>
    /\ UNCHANGED ownerVars

\* ... and *h is read afterwards.
Unroll(t) ==
    /\ tpc[t] = "taken"
    /\ loot' = [loot EXCEPT ![t] = ltq[slot[t]]]
    /\ victim_lock' = NoThief
    /\ tpc' = [tpc EXCEPT ![t] = "run"]
    /\ UNCHANGED <<head, tail, exc, ltq, protected_tail, slot>>
    /\ UNCHANGED ownerVars

\* The thief runs the stolen continuation on a deque of its own and is done.
Finish(t) ==
    /\ tpc[t] = "run"
    /\ loot' = [loot EXCEPT ![t] = NoFrame]
    /\ tpc' = [tpc EXCEPT ![t] = "idle"]
    /\ UNCHANGED <<head, tail, exc, ltq, protected_tail, victim_lock, slot>>
    /\ UNCHANGED ownerVars

-----------------------------------------------------------------------------
Owner ==
    \/ Drain \/ SpawnChild \/ UndoDetach \/ CompareE \/ THE_exception_check
    \/ PopTail \/ PromoteOwnDeque \/ EnterRuntime \/ Reduce
    \/ SetupForExecution

Thief(t) ==
    \/ LockVictim(t) \/ CanStealFrom(t) \/ GiveUp(t) \/ IncrementE(t)
    \/ Dekker(t) \/ DecrementE(t) \/ Detach(t) \/ Unroll(t) \/ Finish(t)

DequeNext == Owner \/ \E t \in Thieves : Thief(t)

DequeSpec == DequeInit /\ [][DequeNext]_protocolVars

-----------------------------------------------------------------------------
(* Properties *)

\* A continuation is executed once: the frame the owner returned into is in
\* no thief's hands and no two thieves hold the same one.  This is what the
\* race between __cilkrts_undo_detach and dekker_protocol must decide.
Exclusive ==
    /\ \A t \in Thieves : loot[t] # NoFrame => loot[t] # cur
    /\ \A t, u \in Thieves : t # u /\ loot[t] # NoFrame => loot[t] # loot[u]

\* detach_for_steal takes the oldest continuation not yet taken: *h is the
\* frame the owner pushed there, not an older or a half-written slot.
StealsOldest ==
    \A t \in Thieves : tpc[t] = "taken" =>
        /\ slot[t] = head - 1
        /\ slot[t] - base + 1 \in 1..Len(parents)
        /\ ltq[slot[t]] = parents[slot[t] - base + 1]

\* An owner that entered the runtime left an empty deque: no continuation it
\* had detached is still there to be lost by setup_for_execution, and nobody
\* can be changing its frame_ff (the claim in __cilkrts_c_sync).
EmptyInRuntime ==
    opc = "sched" =>
        /\ head = otail
        /\ \A t \in Thieves : tpc[t] \notin {"won", "taken"}
=============================================================================
