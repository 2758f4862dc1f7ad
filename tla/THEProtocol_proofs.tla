------------------------- MODULE THEProtocol_proofs -------------------------
(***************************************************************************)
(* Proofs about THEProtocol, for any number of frames, thieves and slots   *)
(* and any depth of the store buffer.                                      *)
(***************************************************************************)
EXTENDS THEProtocol, SequenceTheorems, TLAPS

\* One past the index of the youngest continuation the owner has not popped.
Top == base + Len(parents)

\* E is ahead of H exactly while a thief is between dekker_protocol's
\* increment and either the steal or the decrement.
Raised(t) == tpc[t] \in {"raised", "won", "lost"}
HoldsLock(t) ==
    tpc[t] \in {"locked", "ready", "raised", "won", "lost", "taken"}

LockInv ==
    /\ \A t \in Thieves : HoldsLock(t) <=> victim_lock = t
    /\ \A t \in Thieves : Raised(t) => exc = head + 1
    /\ (\A t \in Thieves : ~Raised(t)) => exc = head

\* Where the indices stand.  The owner's T is one below Top while it decides
\* whether its pop succeeded.
IndexInv ==
    /\ base <= head
    /\ head <= Top /\ Top <= Limit
    /\ otail = IF opc \in {"undo", "check"} THEN Top - 1 ELSE Top
    /\ opc \in {"undo", "check"} => parents # << >>
    /\ opc = "sched" => parents = << >>
    /\ opc \in {"check", "sched"} => sb = << >>
    /\ parents = << >> => sb = << >>
    /\ sb = << >> => tail = otail
    /\ sb # << >> => sb[Len(sb)].var = "tail" /\ sb[Len(sb)].at = otail

\* No store in flight, and no value of T a thief can read, is beyond Top.
BufferInv ==
    /\ tail <= Top
    /\ \A k \in 1..Len(sb) : sb[k].var = "tail" => sb[k].at <= Top
    /\ \A k \in 1..Len(sb) : sb[k].var = "slot" =>
          /\ sb[k].at >= base
          /\ sb[k].at < Top
          /\ sb[k].frame = parents[sb[k].at - base + 1]

\* Slot i holds its continuation, or the store is on its way and no T that
\* exposes the slot is ahead of it.
InMemory(i) == ltq[i] = parents[i - base + 1]
InFlight(i) ==
    /\ tail <= i
    /\ \E k \in 1..Len(sb) :
          /\ sb[k].var = "slot" /\ sb[k].at = i
          /\ \A j \in 1..(k - 1) : sb[j].var = "tail" => sb[j].at <= i
SlotInv == \A i \in base..(Top - 1) : InMemory(i) \/ InFlight(i)

\* A thief that has won the race: the slot is visible and was not popped.
ThiefInv ==
    \A t \in Thieves :
        /\ tpc[t] = "won" => head < Top /\ InMemory(head)
        /\ tpc[t] = "taken" =>
              slot[t] = head - 1 /\ base < head /\ InMemory(head - 1)

\* Who has which frame: a stolen frame is nowhere above H.
FrameInv ==
    /\ opc = "sched" <=> cur = NoFrame
    /\ \A i, j \in 1..Len(parents) : parents[i] = parents[j] => i = j
    /\ \A i \in 1..Len(parents) : parents[i] # cur
    /\ \A t \in Thieves : tpc[t] # "run" => loot[t] = NoFrame
    /\ \A t \in Thieves : loot[t] # NoFrame =>
          /\ loot[t] # cur
          /\ \A i \in 1..Len(parents) : i > head - base => parents[i] # loot[t]
    /\ \A t, u \in Thieves : tpc[t] = "taken" /\ loot[u] # NoFrame =>
          loot[u] # parents[head - base]
    /\ \A t, u \in Thieves : t # u /\ loot[t] # NoFrame => loot[t] # loot[u]

IInv ==
    /\ DequeTypeOK /\ LockInv /\ IndexInv /\ BufferInv /\ SlotInv /\ ThiefInv
    /\ FrameInv
-----------------------------------------------------------------------------
(* Sequences *)

\* What popping the last detached parent leaves.
LEMMA FrontFacts ==
    ASSUME NEW S, NEW s \in Seq(S), s # << >>
    PROVE  /\ Len(s) \in Nat /\ Len(s) >= 1
           /\ s[Len(s)] \in S
           /\ SubSeq(s, 1, Len(s) - 1) \in Seq(S)
           /\ Len(SubSeq(s, 1, Len(s) - 1)) = Len(s) - 1
           /\ \A i \in 1..(Len(s) - 1) : SubSeq(s, 1, Len(s) - 1)[i] = s[i]
<1>1. Len(s) \in Nat /\ Len(s) >= 1 /\ \A i \in 1..Len(s) : s[i] \in S
  OBVIOUS
<1>2. \A i \in 1..(Len(s) - 1) : s[i] \in S
  BY <1>1
<1> DEFINE n == Len(s) - 1
<1>4. n \in Int /\ n >= 0 /\ \A i \in 1..n : s[i] \in S
  BY <1>1
<1> HIDE DEF n
<1>6. /\ SubSeq(s, 1, n) \in Seq(S)
      /\ Len(SubSeq(s, 1, n)) = IF 1 <= n THEN n - 1 + 1 ELSE 0
      /\ \A i \in 1..(n - 1 + 1) : SubSeq(s, 1, n)[i] = s[1 + i - 1]
  BY <1>4, SubSeqProperties
<1>7. /\ Len(SubSeq(s, 1, n)) = n
      /\ \A i \in 1..n : SubSeq(s, 1, n)[i] = s[i]
  BY <1>4, <1>6
<1>8. QED
  BY <1>1, <1>6, <1>7 DEF n

\* What a store buffer looks like after its oldest store left.
LEMMA TailFacts ==
    ASSUME NEW S, NEW s \in Seq(S), s # << >>
    PROVE  /\ Len(s) \in Nat /\ Len(s) >= 1
           /\ Head(s) = s[1] /\ s[1] \in S
           /\ Tail(s) \in Seq(S)
           /\ Len(Tail(s)) = Len(s) - 1
           /\ \A i \in 1..(Len(s) - 1) : Tail(s)[i] = s[i + 1]
OBVIOUS

\* What a store buffer looks like after a push.
LEMMA PushFacts ==
    ASSUME NEW S, NEW s \in Seq(S), NEW a \in S, NEW b \in S
    PROVE  /\ s \o <<a, b>> \in Seq(S)
           /\ Len(s \o <<a, b>>) = Len(s) + 2
           /\ \A i \in 1..Len(s) : (s \o <<a, b>>)[i] = s[i]
           /\ (s \o <<a, b>>)[Len(s) + 1] = a
           /\ (s \o <<a, b>>)[Len(s) + 2] = b
OBVIOUS

LEMMA AppendFacts ==
    ASSUME NEW S, NEW s \in Seq(S), NEW a \in S
    PROVE  /\ Append(s, a) \in Seq(S)
           /\ Len(s) \in Nat /\ Len(Append(s, a)) = Len(s) + 1
           /\ \A i \in 1..Len(s) : Append(s, a)[i] = s[i]
           /\ Append(s, a)[Len(s) + 1] = a
           /\ Append(s, a) # << >>
OBVIOUS

-----------------------------------------------------------------------------
(* Steps that leave part of the invariant's variables alone *)

LEMMA BufferKept ==
    ASSUME BufferInv, UNCHANGED <<tail, sb, base, parents>>
    PROVE  BufferInv'
BY DEF BufferInv, Top

LEMMA SlotsKept ==
    ASSUME SlotInv, UNCHANGED <<tail, ltq, sb, base, parents>>
    PROVE  SlotInv'
BY DEF SlotInv, InMemory, InFlight, Top

\* A successful pop, however it was decided: the frame returned to was not
\* taken and no thief is about to take it.
LEMMA PopStep ==
    ASSUME IInv, ReturnToParent, LockInv',
           parents # << >>, head <= Top - 1, sb = << >>,
           \A t \in Thieves : tpc[t] = "won" => head < Top - 1,
           otail' = Top - 1, tail' = Top - 1, exc' \in 0..(Limit + 1),
           UNCHANGED <<head, ltq, protected_tail, sb, victim_lock, tpc, slot, loot>>
    PROVE  IInv'
<1>w. /\ parents \in Seq(Frames) /\ parents' \in Seq(Frames)
      /\ Len(parents) \in Nat /\ Len(parents) >= 1 /\ Len(parents') = Len(parents) - 1
      /\ \A i \in 1..(Len(parents) - 1) : parents'[i] = parents[i]
      /\ cur' = parents[Len(parents)] /\ cur' \in Frames
      /\ base' = base /\ opc' = "work"
  BY FrontFacts DEF IInv, DequeTypeOK, ReturnToParent
<1>t. base \in Nat /\ head \in Nat /\ base <= head /\ Top \in Nat /\ Top <= Limit
      /\ Top = base + Len(parents) /\ Top' = Top - 1 /\ Top >= 1 /\ Limit \in Nat
  BY <1>w, LimitAssumption DEF IInv, DequeTypeOK, IndexInv, Top
<1>1. DequeTypeOK'
  BY <1>w, <1>t DEF IInv, DequeTypeOK, OwnerPCs
<1>2. IndexInv'
  BY <1>w, <1>t DEF IndexInv
<1>3. BufferInv'
  BY <1>t, Len(<< >>) = 0 DEF BufferInv
<1>4. \A i \in base..(Top - 1) : InMemory(i)
  BY Len(<< >>) = 0 DEF IInv, SlotInv, InFlight
<1>5. SlotInv'
  <2>1. SUFFICES ASSUME NEW i \in base..(Top - 2) PROVE InMemory(i)'
    BY <1>w, <1>t DEF SlotInv
  <2>2. i - base + 1 \in 1..(Len(parents) - 1) /\ InMemory(i)
    BY <1>4, <1>t, <1>w
  <2>3. QED
    BY <2>2, <1>w DEF InMemory
<1>6. ThiefInv'
  <2>1. SUFFICES ASSUME NEW t \in Thieves
                 PROVE  /\ tpc[t] = "won" => head < Top - 1 /\ InMemory(head)'
                        /\ tpc[t] = "taken" =>
                            slot[t] = head - 1 /\ base < head /\ InMemory(head - 1)'
    BY <1>w, <1>t DEF ThiefInv, InMemory
  <2>2. CASE tpc[t] = "won"
    <3>1. head - base + 1 \in 1..(Len(parents) - 1) /\ InMemory(head)
      BY <2>2, <1>t DEF IInv, ThiefInv
    <3>2. QED
      BY <2>2, <3>1, <1>w DEF InMemory
  <2>3. CASE tpc[t] = "taken"
    <3>1. /\ slot[t] = head - 1 /\ base < head /\ InMemory(head - 1)
      BY <2>3 DEF IInv, ThiefInv
    <3>2. (head - 1) - base + 1 \in 1..(Len(parents) - 1)
      BY <3>1, <1>t
    <3>3. QED
      BY <2>3, <3>1, <3>2, <1>w DEF InMemory
  <2>4. QED
    BY <2>2, <2>3
<1>7. FrameInv'
  <2>1. Len(parents) > head - base
    BY <1>t
  <2>2. \A t \in Thieves : tpc[t] = "taken" =>
            base < head /\ head - base \in 1..(Len(parents) - 1)
    BY <1>t DEF IInv, ThiefInv
  <2>3. /\ \A i, j \in 1..(Len(parents) - 1) : parents[i] = parents[j] => i = j
        /\ \A i \in 1..(Len(parents) - 1) : parents[i] # parents[Len(parents)]
        /\ \A t \in Thieves : loot[t] # NoFrame => parents[Len(parents)] # loot[t]
    <3>1. /\ Len(parents) \in 1..Len(parents)
          /\ \A i \in 1..(Len(parents) - 1) : i \in 1..Len(parents) /\ i # Len(parents)
      BY <1>t, <2>1
    <3>2. /\ \A i, j \in 1..Len(parents) : parents[i] = parents[j] => i = j
          /\ \A t \in Thieves : loot[t] # NoFrame =>
                \A i \in 1..Len(parents) : i > head - base => parents[i] # loot[t]
      BY DEF IInv, FrameInv
    <3>3. QED
      BY <2>1, <3>1, <3>2
  <2>4. \A t, u \in Thieves : tpc[t] = "taken" /\ loot[u] # NoFrame =>
            loot[u] # parents'[head - base]
    BY <1>w, <2>2 DEF IInv, FrameInv
  <2>5. /\ \A i, j \in 1..Len(parents') : parents'[i] = parents'[j] => i = j
        /\ \A i \in 1..Len(parents') : parents'[i] # cur'
    BY <1>w, <2>3
  <2>6. opc' = "sched" <=> cur' = NoFrame
    BY <1>w, NoFrameAssumption
  <2>7. \A t \in Thieves : loot[t] # NoFrame =>
          /\ loot[t] # cur'
          /\ \A i \in 1..Len(parents') : i > head - base => parents'[i] # loot[t]
    <3>1. \A t \in Thieves : loot[t] # NoFrame =>
             \A i \in 1..Len(parents) : i > head - base => parents[i] # loot[t]
      BY DEF IInv, FrameInv
    <3>2. \A i \in 1..Len(parents') : i \in 1..Len(parents) /\ parents'[i] = parents[i]
      BY <1>w
    <3>3. QED
      BY <3>1, <3>2, <2>3, <1>w
  <2>8. /\ \A t \in Thieves : tpc[t] # "run" => loot[t] = NoFrame
        /\ \A t, u \in Thieves : t # u /\ loot[t] # NoFrame => loot[t] # loot[u]
    BY DEF IInv, FrameInv
  <2>9. QED
    BY <1>w, <2>4, <2>5, <2>6, <2>7, <2>8 DEF FrameInv
<1>8. QED
  BY <1>1, <1>2, <1>3, <1>5, <1>6, <1>7 DEF IInv

\* The owner finds its parent stolen: everything it had detached was taken.
LEMMA LeaveStep ==
    ASSUME IInv, LeaveForScheduler, LockInv',
           victim_lock = NoThief, head = Top, sb = << >>,
           otail' = Top, tail' = Top, base' = Top, exc' \in 0..(Limit + 1),
           UNCHANGED <<head, ltq, protected_tail, sb, victim_lock, tpc, slot, loot>>
    PROVE  IInv'
<1>w. parents' = << >> /\ Len(parents') = 0 /\ cur' = NoFrame /\ opc' = "sched"
  BY DEF LeaveForScheduler
<1>t. Top \in Nat /\ Top <= Limit /\ Top' = Top /\ head' = Top
  BY <1>w, LimitAssumption DEF IInv, DequeTypeOK, IndexInv, Top
<1>n. \A t \in Thieves : tpc[t] \notin {"won", "taken"}
  BY NoThiefAssumption DEF IInv, LockInv, HoldsLock
<1>1. DequeTypeOK'
  BY <1>w, <1>t DEF IInv, DequeTypeOK, OwnerPCs
<1>2. IndexInv'
  BY <1>w, <1>t DEF IndexInv
<1>3. BufferInv'
  BY <1>t, Len(<< >>) = 0 DEF BufferInv
<1>4. SlotInv'
  BY <1>t DEF SlotInv
<1>5. ThiefInv'
  BY <1>n DEF ThiefInv
<1>6. FrameInv'
  BY <1>w, <1>n DEF IInv, FrameInv
<1>7. QED
  BY <1>1, <1>2, <1>3, <1>4, <1>5, <1>6 DEF IInv

-----------------------------------------------------------------------------
(* The thieves' actions *)

\* At most one thief is inside random_steal's critical section.
LEMMA OneThief ==
    ASSUME IInv, NEW t \in Thieves, HoldsLock(t)
    PROVE  \A u \in Thieves : u # t => ~HoldsLock(u)
BY DEF IInv, LockInv

LEMMA TryLockStep ==
    ASSUME IInv, NEW t \in Thieves, LockVictim(t)
    PROVE  IInv'
<1>1. DequeTypeOK' /\ LockInv' /\ IndexInv'
  BY NoThiefAssumption
  DEF IInv, DequeTypeOK, ThiefPCs, LockInv, Raised, HoldsLock, IndexInv, Top,
      LockVictim, ownerVars
<1>2. BufferInv' /\ SlotInv'
  BY BufferKept, SlotsKept DEF IInv, LockVictim, ownerVars
<1>3. ThiefInv' /\ FrameInv'
  BY DEF IInv, DequeTypeOK, ThiefInv, FrameInv, InMemory, Top, LockVictim, ownerVars
<1>4. QED
  BY <1>1, <1>2, <1>3 DEF IInv

LEMMA CanStealFromStep ==
    ASSUME IInv, NEW t \in Thieves, CanStealFrom(t)
    PROVE  IInv'
<1>1. DequeTypeOK' /\ LockInv' /\ IndexInv'
  BY NoThiefAssumption
  DEF IInv, DequeTypeOK, ThiefPCs, LockInv, Raised, HoldsLock, IndexInv, Top,
      CanStealFrom, ownerVars
<1>2. BufferInv' /\ SlotInv'
  BY BufferKept, SlotsKept DEF IInv, CanStealFrom, ownerVars
<1>3. ThiefInv' /\ FrameInv'
  BY DEF IInv, DequeTypeOK, ThiefInv, FrameInv, InMemory, Top, CanStealFrom, ownerVars
<1>4. QED
  BY <1>1, <1>2, <1>3 DEF IInv

LEMMA GiveUpStep ==
    ASSUME IInv, NEW t \in Thieves, GiveUp(t)
    PROVE  IInv'
<1>1. DequeTypeOK' /\ LockInv' /\ IndexInv'
  BY NoThiefAssumption
  DEF IInv, DequeTypeOK, ThiefPCs, LockInv, Raised, HoldsLock, IndexInv, Top,
      GiveUp, ownerVars
<1>2. BufferInv' /\ SlotInv'
  BY BufferKept, SlotsKept DEF IInv, GiveUp, ownerVars
<1>3. ThiefInv' /\ FrameInv'
  BY DEF IInv, DequeTypeOK, ThiefInv, FrameInv, InMemory, Top, GiveUp, ownerVars
<1>4. QED
  BY <1>1, <1>2, <1>3 DEF IInv

LEMMA IncrementEStep ==
    ASSUME IInv, NEW t \in Thieves, IncrementE(t)
    PROVE  IInv'
<1>e. \A u \in Thieves : ~Raised(u)
  BY DEF IInv, LockInv, Raised, HoldsLock, IncrementE
<1>f. exc = head /\ head \in 0..Limit
  BY <1>e DEF IInv, LockInv, DequeTypeOK
<1>1. DequeTypeOK'
  BY <1>f, LimitAssumption DEF IInv, DequeTypeOK, ThiefPCs, IncrementE, ownerVars
<1>2. LockInv' /\ IndexInv'
  BY <1>f DEF IInv, DequeTypeOK, LockInv, Raised, HoldsLock, IndexInv, Top,
              IncrementE, ownerVars
<1>3. BufferInv' /\ SlotInv'
  BY BufferKept, SlotsKept DEF IInv, IncrementE, ownerVars
<1>4. ThiefInv' /\ FrameInv'
  BY DEF IInv, DequeTypeOK, ThiefInv, FrameInv, InMemory, Top, IncrementE, ownerVars
<1>5. QED
  BY <1>1, <1>2, <1>3, <1>4 DEF IInv

\* The second look sees H < T: the slot is visible and below Top.
LEMMA DekkerStep ==
    ASSUME IInv, NEW t \in Thieves, Dekker(t)
    PROVE  IInv'
<1>1. DequeTypeOK' /\ LockInv' /\ IndexInv'
  BY DEF IInv, DequeTypeOK, ThiefPCs, LockInv, Raised, HoldsLock, IndexInv, Top,
         Dekker, ownerVars
<1>2. BufferInv' /\ SlotInv'
  BY BufferKept, SlotsKept DEF IInv, Dekker, ownerVars
<1>3. SecondLook => head < Top /\ InMemory(head)
  <2>1. SUFFICES ASSUME head < tail PROVE head < Top /\ InMemory(head)
    BY DEF SecondLook, Stealable
  <2>2. head \in Int /\ tail \in Int /\ Top \in Int /\ base \in Int
        /\ base <= head /\ tail <= Top
    BY DEF IInv, DequeTypeOK, IndexInv, BufferInv, Top
  <2>3. head < Top /\ head \in base..(Top - 1) /\ ~(tail <= head)
    BY <2>1, <2>2
  <2>4. QED
    BY <2>3 DEF IInv, SlotInv, InFlight
<1>4. ThiefInv'
  BY <1>3 DEF IInv, DequeTypeOK, ThiefInv, InMemory, Top, Dekker, ownerVars
<1>5. FrameInv'
  BY DEF IInv, DequeTypeOK, FrameInv, Dekker, ownerVars
<1>6. QED
  BY <1>1, <1>2, <1>4, <1>5 DEF IInv

LEMMA DecrementEStep ==
    ASSUME IInv, NEW t \in Thieves, DecrementE(t)
    PROVE  IInv'
<1>e. exc = head + 1 /\ head \in 0..Limit
  BY DEF IInv, LockInv, DequeTypeOK, Raised, DecrementE
<1>1. DequeTypeOK'
  BY <1>e, LimitAssumption DEF IInv, DequeTypeOK, ThiefPCs, DecrementE, ownerVars
<1>2. LockInv' /\ IndexInv'
  BY <1>e, NoThiefAssumption
  DEF IInv, DequeTypeOK, LockInv, Raised, HoldsLock, IndexInv, Top,
      DecrementE, ownerVars
<1>3. BufferInv' /\ SlotInv'
  BY BufferKept, SlotsKept DEF IInv, DecrementE, ownerVars
<1>4. ThiefInv' /\ FrameInv'
  BY DEF IInv, DequeTypeOK, ThiefInv, FrameInv, InMemory, Top, DecrementE, ownerVars
<1>5. QED
  BY <1>1, <1>2, <1>3, <1>4 DEF IInv

LEMMA DetachStep ==
    ASSUME IInv, NEW t \in Thieves, Detach(t)
    PROVE  IInv'
<1>e. /\ exc = head + 1 /\ head < Top /\ InMemory(head)
      /\ \A u \in Thieves : u # t => ~HoldsLock(u)
      /\ HoldsLock(t)
  BY OneThief DEF IInv, LockInv, ThiefInv, Raised, HoldsLock, Detach
<1>t. head \in Nat /\ base \in Nat /\ base <= head /\ Len(parents) \in Nat
      /\ Top = base + Len(parents) /\ Top <= Limit /\ Limit \in Nat
  BY LimitAssumption DEF IInv, DequeTypeOK, IndexInv, Top
<1>1. DequeTypeOK'
  BY <1>e, <1>t DEF IInv, DequeTypeOK, ThiefPCs, Detach, ownerVars
<1>2. LockInv'
  BY <1>e, <1>t DEF IInv, DequeTypeOK, LockInv, Raised, HoldsLock, Detach, ownerVars
<1>3. IndexInv'
  BY <1>e, <1>t DEF IInv, IndexInv, Top, Detach, ownerVars
<1>4. BufferInv' /\ SlotInv'
  BY BufferKept, SlotsKept DEF IInv, Detach, ownerVars
<1>5. ThiefInv'
  <2>1. head' = head + 1 /\ head' - 1 = head /\ base' = base
        /\ ltq' = ltq /\ parents' = parents
    BY <1>t DEF Detach, ownerVars
  <2>2. \A u \in Thieves : tpc'[u] \in {"won", "taken"} =>
            u = t /\ tpc'[u] = "taken" /\ slot'[u] = head
    BY <1>e DEF IInv, DequeTypeOK, HoldsLock, Detach
  <2>3. InMemory(head - 1)'
    BY <2>1, <1>e DEF InMemory
  <2>4. QED
    BY <1>t, <2>1, <2>2, <2>3 DEF ThiefInv
<1>6. FrameInv'
  <2>1. head' - base = head - base + 1 /\ head' - base \in 1..Len(parents)
    BY <1>e, <1>t DEF Detach
  <2>2. \A i \in 1..Len(parents) : i > head' - base => i > head - base
    BY <2>1, <1>t
  <2>3. \A u \in Thieves : loot[u] # NoFrame => loot[u] # parents[head' - base]
    BY <2>1, <1>t DEF IInv, FrameInv
  <2>4. QED
    BY <2>2, <2>3 DEF IInv, DequeTypeOK, FrameInv, Detach, ownerVars
<1>7. QED
  BY <1>1, <1>2, <1>3, <1>4, <1>5, <1>6 DEF IInv

LEMMA UnrollStep ==
    ASSUME IInv, NEW t \in Thieves, Unroll(t)
    PROVE  IInv'
<1>e. /\ slot[t] = head - 1 /\ base < head /\ InMemory(head - 1)
      /\ \A u \in Thieves : u # t => ~HoldsLock(u)
  BY OneThief DEF IInv, ThiefInv, HoldsLock, Unroll
<1>t. head \in Nat /\ base \in Nat /\ Len(parents) \in Nat
      /\ head - base \in 1..Len(parents) /\ (head - 1) - base + 1 = head - base
  BY <1>e DEF IInv, DequeTypeOK, IndexInv, Top
<1>f. ltq[slot[t]] = parents[head - base] /\ parents[head - base] \in Frames
  BY <1>e, <1>t DEF IInv, DequeTypeOK, InMemory
<1>l. loot' = [loot EXCEPT ![t] = parents[head - base]] /\ tpc[t] = "taken"
  BY <1>f DEF Unroll
<1>1. DequeTypeOK'
  BY <1>f, <1>l DEF IInv, DequeTypeOK, ThiefPCs, Unroll, ownerVars
<1>2. LockInv' /\ IndexInv'
  BY NoThiefAssumption
  DEF IInv, DequeTypeOK, LockInv, Raised, HoldsLock, IndexInv, Top, Unroll, ownerVars
<1>3. BufferInv' /\ SlotInv'
  BY BufferKept, SlotsKept DEF IInv, Unroll, ownerVars
<1>4. ThiefInv'
  BY DEF IInv, DequeTypeOK, ThiefInv, InMemory, Top, Unroll, ownerVars
<1>5. FrameInv'
  <2>1. parents[head - base] # cur
    BY <1>t DEF IInv, FrameInv
  <2>2. \A i \in 1..Len(parents) : i > head - base => parents[i] # parents[head - base]
    BY <1>t DEF IInv, FrameInv
  <2>3. \A u \in Thieves : loot[u] # NoFrame => loot[u] # parents[head - base]
    BY <1>l DEF IInv, FrameInv
  <2>4. \A u \in Thieves : tpc'[u] # "taken"
    BY <1>e DEF IInv, DequeTypeOK, HoldsLock, Unroll
  <2>5. QED
    BY <1>l, <1>f, <2>1, <2>2, <2>3, <2>4, NoFrameAssumption
    DEF IInv, DequeTypeOK, FrameInv, Unroll, ownerVars
<1>6. QED
  BY <1>1, <1>2, <1>3, <1>4, <1>5 DEF IInv

LEMMA FinishStep ==
    ASSUME IInv, NEW t \in Thieves, Finish(t)
    PROVE  IInv'
<1>1. DequeTypeOK' /\ LockInv' /\ IndexInv'
  BY NoThiefAssumption
  DEF IInv, DequeTypeOK, ThiefPCs, LockInv, Raised, HoldsLock, IndexInv, Top,
      Finish, ownerVars
<1>2. BufferInv' /\ SlotInv'
  BY BufferKept, SlotsKept DEF IInv, Finish, ownerVars
<1>3. ThiefInv' /\ FrameInv'
  BY DEF IInv, DequeTypeOK, ThiefInv, FrameInv, InMemory, Top, Finish, ownerVars
<1>4. QED
  BY <1>1, <1>2, <1>3 DEF IInv

-----------------------------------------------------------------------------
(* The owner's actions *)

\* The arithmetic that the owner's steps need.
LEMMA IndexFacts ==
    ASSUME IInv
    PROVE  /\ sb \in Seq(Stores) /\ parents \in Seq(Frames) /\ Len(sb) \in Nat
           /\ Limit \in Nat /\ base \in Nat /\ Len(parents) \in Nat
           /\ head \in Nat /\ tail \in Nat
           /\ Top = base + Len(parents) /\ Top \in Nat
           /\ base <= head /\ head <= Top /\ Top <= Limit /\ tail <= Top
<1>1. /\ sb \in Seq(Stores) /\ parents \in Seq(Frames)
      /\ head \in 0..Limit /\ tail \in 0..Limit /\ base \in 0..Limit
  BY DEF IInv, DequeTypeOK
<1>2. Limit \in Nat /\ base \in Nat /\ head \in Nat /\ tail \in Nat
  BY <1>1, LimitAssumption
<1>3. Len(sb) \in Nat /\ Len(parents) \in Nat
  BY <1>1
<1>4. Top = base + Len(parents) /\ Top \in Nat
  BY <1>2, <1>3 DEF Top
<1>5. base <= head /\ head <= Top /\ Top <= Limit /\ tail <= Top
  BY DEF IInv, IndexInv, BufferInv
<1>6. QED
  BY <1>1, <1>2, <1>3, <1>4, <1>5

LEMMA DrainStep ==
    ASSUME IInv, Drain
    PROVE  IInv'
<1>s. /\ sb \in Seq(Stores) /\ sb' \in Seq(Stores)
      /\ Len(sb) \in Nat /\ Len(sb) >= 1 /\ Len(sb') = Len(sb) - 1
      /\ \A k \in 1..(Len(sb) - 1) : sb'[k] = sb[k + 1]
      /\ Head(sb) = sb[1] /\ sb[1] \in Stores /\ 1 \in 1..Len(sb)
  BY TailFacts DEF IInv, DequeTypeOK, Drain
<1>u. /\ UNCHANGED <<head, exc, protected_tail, otail, opc, cur, base, parents>>
      /\ UNCHANGED <<victim_lock, tpc, slot, loot>>
  BY DEF Drain, thiefVars
<1>v. \/ /\ sb[1].var = "slot" /\ tail' = tail
         /\ ltq' = [ltq EXCEPT ![sb[1].at] = sb[1].frame]
         /\ sb[1].at \in 0..(Limit - 1) /\ sb[1].frame \in Frames
      \/ /\ sb[1].var = "tail" /\ tail' = sb[1].at /\ ltq' = ltq
         /\ sb[1].at \in 0..Limit
  BY <1>s DEF Drain, Stores
<1>t. /\ base \in Nat /\ Len(parents) \in Nat /\ Top \in Nat /\ Top' = Top
      /\ Top = base + Len(parents) /\ ltq \in [0..(Limit - 1) -> Frames \cup {NoFrame}]
      /\ tail \in Nat /\ Limit \in Nat /\ Top <= Limit /\ tail' \in Nat
      /\ head \in Nat /\ base <= head /\ head <= Top
  <2>1. ltq \in [0..(Limit - 1) -> Frames \cup {NoFrame}]
    BY DEF IInv, DequeTypeOK
  <2>2. Top' = Top
    BY <1>u DEF Top
  <2>3. tail' \in Nat
    BY <1>v, IndexFacts
  <2>4. QED
    BY IndexFacts, <2>1, <2>2, <2>3
<1>1. DequeTypeOK'
  BY <1>s, <1>u, <1>v DEF IInv, DequeTypeOK
<1>2. LockInv'
  BY <1>u DEF IInv, LockInv, Raised, HoldsLock
<1>3. IndexInv'
  <2>1. sb' = << >> => Len(sb) = 1
    BY <1>s, Len(<< >>) = 0
  <2>2. sb' # << >> => sb'[Len(sb')] = sb[Len(sb)]
    BY <1>s
  <2>3. /\ otail = IF opc \in {"undo", "check"} THEN Top - 1 ELSE Top
        /\ opc \in {"undo", "check"} => parents # << >>
        /\ opc = "sched" => parents = << >>
        /\ opc \in {"check", "sched"} => sb = << >>
        /\ parents = << >> => sb = << >>
        /\ sb # << >> => sb[Len(sb)].var = "tail" /\ sb[Len(sb)].at = otail
    BY DEF IInv, IndexInv
  <2>4. sb # << >>
    BY DEF Drain
  <2>5. sb' = << >> => tail' = otail
    BY <2>1, <2>3, <2>4, <1>v
  <2>6. sb' # << >> => sb'[Len(sb')].var = "tail" /\ sb'[Len(sb')].at = otail
    BY <2>2, <2>3, <2>4
  <2>7. QED
    BY <1>u, <1>t, <2>3, <2>4, <2>5, <2>6 DEF IndexInv
<1>4. BufferInv'
  <2>1. tail' <= Top
    BY <1>s, <1>v, <1>t DEF IInv, BufferInv
  <2>2. \A k \in 1..Len(sb') : k + 1 \in 1..Len(sb) /\ sb'[k] = sb[k + 1]
    BY <1>s
  <2>3. QED
    BY <1>u, <1>t, <2>1, <2>2 DEF IInv, BufferInv
<1>5. \A i \in base..(Top - 1) : InMemory(i) => InMemory(i)'
  <2>1. SUFFICES ASSUME NEW i \in base..(Top - 1), ltq[i] = parents[i - base + 1]
                 PROVE  ltq'[i] = parents[i - base + 1]
    BY <1>u DEF InMemory
  <2>2. i \in 0..(Limit - 1)
    BY <1>t
  <2>3. sb[1].var = "slot" => sb[1].frame = parents[sb[1].at - base + 1]
    BY <1>s DEF IInv, BufferInv
  <2>4. QED
    BY <2>1, <2>2, <2>3, <1>v, <1>t
<1>6. SlotInv'
  <2>1. SUFFICES ASSUME NEW i \in base..(Top - 1), InFlight(i)
                 PROVE  InMemory(i)' \/ InFlight(i)'
    BY <1>5, <1>u, <1>t DEF IInv, SlotInv
  <2>2. PICK k \in 1..Len(sb) :
            /\ sb[k].var = "slot" /\ sb[k].at = i
            /\ \A j \in 1..(k - 1) : sb[j].var = "tail" => sb[j].at <= i
    BY <2>1 DEF InFlight
  <2>3. CASE k = 1
    <3>1. sb[1].frame = parents[i - base + 1] /\ i \in 0..(Limit - 1)
      <4>1. sb[1].var = "slot" /\ sb[1].at = i /\ 1 \in 1..Len(sb)
        BY <2>2, <2>3
      <4>2. sb[1].frame = parents[i - base + 1]
        BY <4>1 DEF IInv, BufferInv
      <4>3. i \in 0..(Limit - 1)
        BY <2>1, IndexFacts
      <4>4. QED
        BY <4>2, <4>3
    <3>2. QED
      BY <2>2, <2>3, <3>1, <1>v, <1>t, <1>u DEF InMemory
  <2>4. CASE k # 1
    <3>1. /\ k - 1 \in 1..Len(sb') /\ sb'[k - 1] = sb[k]
          /\ 1 \in 1..(k - 1)
          /\ \A j \in 1..((k - 1) - 1) :
                j + 1 \in 1..(k - 1) /\ sb'[j] = sb[j + 1]
      BY <2>4, <1>s
    <3>2. tail' <= i
      BY <3>1, <2>1, <2>2, <1>v DEF InFlight
    <3>3. QED
      BY <3>1, <3>2, <2>2 DEF InFlight
  <2>5. QED
    BY <2>3, <2>4
<1>7. ThiefInv'
  <2>1. SUFFICES ASSUME NEW t \in Thieves
                 PROVE  /\ tpc[t] = "won" => head < Top /\ InMemory(head)'
                        /\ tpc[t] = "taken" =>
                             /\ slot[t] = head - 1 /\ base < head
                             /\ InMemory(head - 1)'
    BY <1>u, <1>t DEF ThiefInv, InMemory
  <2>2. tpc[t] = "won" => head \in base..(Top - 1)
    BY <1>t DEF IInv, ThiefInv
  <2>3. tpc[t] = "taken" => head - 1 \in base..(Top - 1)
    BY <1>t DEF IInv, ThiefInv
  <2>4. \A i \in base..(Top - 1) : InMemory(i) => ltq'[i] = parents[i - base + 1]
    BY <1>5, <1>u DEF InMemory
  <2>5. QED
    BY <2>2, <2>3, <2>4, <1>u DEF IInv, ThiefInv, InMemory
<1>8. FrameInv'
  BY <1>u DEF IInv, FrameInv
<1>9. QED
  BY <1>1, <1>2, <1>3, <1>4, <1>6, <1>7, <1>8 DEF IInv

LEMMA SpawnStep ==
    ASSUME IInv, SpawnChild
    PROVE  IInv'
<1>u. /\ UNCHANGED <<head, tail, exc, ltq, protected_tail, opc, base>>
      /\ UNCHANGED <<victim_lock, tpc, slot, loot>>
      /\ opc = "work" /\ cur \in Frames /\ otail = Top /\ otail < Limit
      /\ otail' = otail + 1
      /\ sb \in Seq(Stores) /\ parents \in Seq(Frames) /\ base \in Nat
      /\ Len(parents) \in Nat /\ Top = base + Len(parents) /\ Top \in Nat
      /\ head \in Nat /\ base <= head /\ head <= Top
      /\ Limit \in Nat /\ Len(sb) \in Nat /\ tail <= Top /\ tail \in Nat
  <2>1. /\ UNCHANGED <<head, tail, exc, ltq, protected_tail, opc, base>>
        /\ UNCHANGED <<victim_lock, tpc, slot, loot>>
        /\ opc = "work" /\ otail < Limit /\ otail' = otail + 1
    BY DEF SpawnChild, thiefVars
  <2>2. cur \in Frames
    BY <2>1 DEF IInv, DequeTypeOK, FrameInv
  <2>3. otail = Top
    BY <2>1 DEF IInv, IndexInv
  <2>4. QED
    BY IndexFacts, <2>1, <2>2, <2>3
<1>c. /\ cur' \in Frames /\ cur' # cur
      /\ \A i \in 1..Len(parents) : cur' # parents[i]
      /\ \A t \in Thieves : cur' # loot[t]
  BY DEF SpawnChild, Free, Detached
<1>w. /\ parents' \in Seq(Frames) /\ Len(parents') = Len(parents) + 1
      /\ \A i \in 1..Len(parents) : parents'[i] = parents[i]
      /\ parents'[Len(parents) + 1] = cur /\ parents' # << >>
  BY <1>u, AppendFacts DEF SpawnChild
<1>a. StoreSlot(otail, cur) \in Stores /\ StoreTail(otail + 1) \in Stores
  BY <1>u DEF Stores, StoreSlot, StoreTail
<1>s. /\ sb' \in Seq(Stores) /\ Len(sb') = Len(sb) + 2
      /\ \A k \in 1..Len(sb) : sb'[k] = sb[k]
      /\ sb'[Len(sb) + 1] = StoreSlot(Top, cur)
      /\ sb'[Len(sb) + 2] = StoreTail(Top + 1)
      /\ sb' # << >>
  BY <1>u, <1>a, PushFacts, Len(<< >>) = 0 DEF SpawnChild, PushStores
<1>t. Top' = Top + 1
  BY <1>u, <1>w DEF Top
<1>1. DequeTypeOK'
  <2>1. otail' \in -1..Limit
    BY <1>u
  <2>2. /\ head \in 0..Limit /\ tail \in 0..Limit /\ exc \in 0..(Limit + 1)
        /\ ltq \in [0..(Limit - 1) -> Frames \cup {NoFrame}]
        /\ protected_tail \in {0, Limit} /\ victim_lock \in Thieves \cup {NoThief}
        /\ opc \in OwnerPCs /\ base \in 0..Limit
        /\ tpc \in [Thieves -> ThiefPCs] /\ slot \in [Thieves -> 0..Limit]
        /\ loot \in [Thieves -> Frames \cup {NoFrame}]
    BY DEF IInv, DequeTypeOK
  <2>3. sb' \in Seq(Stores) /\ parents' \in Seq(Frames) /\ cur' \in Frames \cup {NoFrame}
    BY <1>c, <1>w, <1>s
  <2>4. QED
    BY <1>u, <2>1, <2>2, <2>3 DEF DequeTypeOK
<1>2. LockInv'
  BY <1>u DEF IInv, LockInv, Raised, HoldsLock
<1>3. IndexInv'
  BY <1>u, <1>w, <1>s, <1>t DEF IndexInv, StoreTail
<1>k. \A k \in 1..Len(sb') :
         \/ k \in 1..Len(sb) /\ sb'[k] = sb[k]
         \/ k = Len(sb) + 1 /\ sb'[k] = StoreSlot(Top, cur)
         \/ k = Len(sb) + 2 /\ sb'[k] = StoreTail(Top + 1)
  BY <1>u, <1>s
<1>4. BufferInv'
  <2>1. SUFFICES ASSUME NEW k \in 1..Len(sb')
                 PROVE  /\ sb'[k].var = "tail" => sb'[k].at <= Top + 1
                        /\ sb'[k].var = "slot" =>
                              /\ sb'[k].at >= base /\ sb'[k].at < Top + 1
                              /\ sb'[k].frame = parents'[sb'[k].at - base + 1]
    BY <1>u, <1>t DEF BufferInv
  <2>2. CASE k \in 1..Len(sb) /\ sb'[k] = sb[k]
    <3>1. sb[k] \in Stores
      BY <2>2, IndexFacts
    <3>2. sb[k].at \in Int
      BY <3>1, LimitAssumption DEF Stores
    <3>3. sb[k].var = "slot" => sb[k].at - base + 1 \in 1..Len(parents)
      <4>1. sb[k].var = "slot" => sb[k].at >= base /\ sb[k].at < Top
        BY <2>2 DEF IInv, BufferInv
      <4>2. base \in Int /\ Len(parents) \in Int /\ Top = base + Len(parents)
        BY IndexFacts
      <4>3. ASSUME NEW a \in Int, NEW b \in Int, NEW n \in Int, a >= b, a < b + n
            PROVE  a - b + 1 \in 1..n
        BY <4>3
      <4>4. QED
        BY <4>1, <4>2, <4>3, <3>2
    <3>4. /\ sb[k].var = "tail" => sb[k].at <= Top
          /\ sb[k].var = "slot" =>
                /\ sb[k].at >= base /\ sb[k].at < Top
                /\ sb[k].frame = parents[sb[k].at - base + 1]
      BY <2>2 DEF IInv, BufferInv
    <3>5. sb[k].var = "slot" =>
             parents'[sb[k].at - base + 1] = parents[sb[k].at - base + 1]
      BY <3>3, <1>w
    <3>6. /\ sb[k].at <= Top => sb[k].at <= Top + 1
          /\ sb[k].at < Top => sb[k].at < Top + 1
      <4>1. Top \in Int
        BY IndexFacts
      <4>2. ASSUME NEW a \in Int, NEW b \in Int
            PROVE  (a <= b => a <= b + 1) /\ (a < b => a < b + 1)
        OBVIOUS
      <4>3. QED
        BY <4>1, <4>2, <3>2
    <3>7. QED
      BY <2>2, <3>4, <3>5, <3>6
  <2>3. CASE k = Len(sb) + 1 /\ sb'[k] = StoreSlot(Top, cur)
    <3>1. Top - base + 1 = Len(parents) + 1
      BY IndexFacts
    <3>2. QED
      <4>1. StoreSlot(Top, cur).var = "slot" /\ StoreSlot(Top, cur).at = Top
            /\ StoreSlot(Top, cur).frame = cur
        BY DEF StoreSlot
      <4>2. Top >= base /\ Top < Top + 1
        BY IndexFacts
      <4>3. parents'[Top - base + 1] = cur
        BY <3>1, <1>w, IndexFacts
      <4>4. QED
        BY <2>3, <4>1, <4>2, <4>3
  <2>4. CASE k = Len(sb) + 2 /\ sb'[k] = StoreTail(Top + 1)
    BY <2>4, <1>u DEF StoreTail
  <2>5. QED
    BY <2>2, <2>3, <2>4, <1>k
<1>5. SlotInv'
  <2>1. SUFFICES ASSUME NEW i \in base..Top
                 PROVE  InMemory(i)' \/ InFlight(i)'
    BY <1>u, <1>t DEF SlotInv
  <2>2. CASE i = Top
    <3>1. Len(sb) + 1 \in 1..Len(sb')
      BY <1>u, <1>s
    <3>2. sb'[Len(sb) + 1].var = "slot" /\ sb'[Len(sb) + 1].at = i
      BY <1>s, <2>2 DEF StoreSlot
    <3>3. \A j \in 1..((Len(sb) + 1) - 1) :
              sb'[j].var = "tail" => sb'[j].at <= i
      BY <1>s, <1>u, <2>2 DEF IInv, BufferInv
    <3>4. tail' <= i
      BY <1>u, <2>2
    <3>5. QED
      BY <3>1, <3>2, <3>3, <3>4 DEF InFlight
  <2>3. CASE i \in base..(Top - 1)
    <3>1. i - base + 1 \in 1..Len(parents)
      BY <2>3, <1>u
    <3>2. CASE InMemory(i)
      BY <3>1, <3>2, <1>u, <1>w DEF InMemory
    <3>3. CASE InFlight(i)
      <4>1. PICK k \in 1..Len(sb) :
              /\ sb[k].var = "slot" /\ sb[k].at = i
              /\ \A j \in 1..(k - 1) : sb[j].var = "tail" => sb[j].at <= i
        BY <3>3 DEF InFlight
      <4>2. /\ k \in 1..Len(sb') /\ sb'[k] = sb[k]
            /\ \A j \in 1..(k - 1) : sb'[j] = sb[j]
        BY <1>u, <1>s
      <4>3. tail' <= i
        BY <3>3, <1>u DEF InFlight
      <4>4. QED
        BY <4>1, <4>2, <4>3 DEF InFlight
    <3>4. QED
      BY <2>3, <3>2, <3>3 DEF IInv, SlotInv
  <2>4. QED
    BY <2>2, <2>3, <1>u
<1>6. ThiefInv'
  <2>1. SUFFICES ASSUME NEW t \in Thieves
                 PROVE  /\ tpc[t] = "won" => head < Top + 1 /\ InMemory(head)'
                        /\ tpc[t] = "taken" =>
                             /\ slot[t] = head - 1 /\ base < head
                             /\ InMemory(head - 1)'
    BY <1>u, <1>t DEF ThiefInv, InMemory
  <2>2. tpc[t] = "won" => head - base + 1 \in 1..Len(parents)
    BY <1>u DEF IInv, ThiefInv
  <2>3. tpc[t] = "taken" => (head - 1) - base + 1 \in 1..Len(parents)
    BY <1>u DEF IInv, ThiefInv
  <2>4. CASE tpc[t] = "won"
    <3>1. head < Top /\ ltq[head] = parents[head - base + 1]
      BY <2>4 DEF IInv, ThiefInv, InMemory
    <3>2. parents'[head - base + 1] = parents[head - base + 1]
      BY <2>2, <2>4, <1>w
    <3>3. QED
      BY <2>4, <3>1, <3>2, <1>u DEF InMemory
  <2>5. CASE tpc[t] = "taken"
    BY <2>3, <2>5, <1>u, <1>w DEF IInv, ThiefInv, InMemory
  <2>6. QED
    BY <2>4, <2>5
<1>7. FrameInv'
  <2>1. \A i \in 1..(Len(parents) + 1) : i \in 1..Len(parents) \/ i = Len(parents) + 1
    BY <1>u
  <2>2. \A i \in 1..Len(parents) : parents[i] # cur
    BY DEF IInv, FrameInv
  <2>3. \A t \in Thieves : tpc[t] = "taken" => head - base \in 1..Len(parents)
    BY <1>u DEF IInv, ThiefInv
  <2>4. /\ \A i, j \in 1..Len(parents') : parents'[i] = parents'[j] => i = j
        /\ \A i \in 1..Len(parents') : parents'[i] # cur'
    BY <1>c, <1>w, <2>1, <2>2 DEF IInv, FrameInv
  <2>5. \A t \in Thieves : loot[t] # NoFrame =>
          /\ loot[t] # cur'
          /\ \A i \in 1..Len(parents') : i > head - base => parents'[i] # loot[t]
    BY <1>c, <1>w, <2>1 DEF IInv, FrameInv
  <2>6. \A t, u \in Thieves : tpc[t] = "taken" /\ loot[u] # NoFrame =>
          loot[u] # parents'[head - base]
    BY <1>w, <2>3 DEF IInv, FrameInv
  <2>7. QED
    BY <1>u, <1>c, <2>4, <2>5, <2>6, NoFrameAssumption DEF IInv, FrameInv
<1>8. QED
  BY <1>1, <1>2, <1>3, <1>4, <1>5, <1>6, <1>7 DEF IInv

LEMMA UndoDetachStep ==
    ASSUME IInv, UndoDetach
    PROVE  IInv'
<1>u. /\ UNCHANGED <<head, tail, exc, ltq, protected_tail, cur, base, parents>>
      /\ UNCHANGED <<victim_lock, tpc, slot, loot>>
      /\ opc = "work" /\ opc' = "undo" /\ otail = Top /\ otail' = otail - 1
      /\ parents # << >> /\ sb \in Seq(Stores) /\ parents \in Seq(Frames)
      /\ base \in Nat /\ Len(parents) \in Nat /\ Len(parents) >= 1
      /\ Top = base + Len(parents) /\ Top \in Nat /\ Top >= 1 /\ Top <= Limit
      /\ Limit \in Nat /\ Len(sb) \in Nat /\ Top' = Top
  <2>1. /\ UNCHANGED <<head, tail, exc, ltq, protected_tail, cur, base, parents>>
        /\ UNCHANGED <<victim_lock, tpc, slot, loot>>
        /\ opc = "work" /\ opc' = "undo" /\ otail' = otail - 1 /\ parents # << >>
    BY DEF UndoDetach, thiefVars
  <2>2. otail = Top
    BY <2>1 DEF IInv, IndexInv
  <2>3. Len(parents) >= 1
    BY <2>1, IndexFacts
  <2>4. Top' = Top
    BY <2>1 DEF Top
  <2>5. QED
    BY IndexFacts, <2>1, <2>2, <2>3, <2>4
<1>a. StoreTail(otail - 1) \in Stores
  BY <1>u DEF Stores, StoreTail
<1>s. /\ sb' \in Seq(Stores) /\ Len(sb') = Len(sb) + 1
      /\ \A k \in 1..Len(sb) : sb'[k] = sb[k]
      /\ sb'[Len(sb) + 1] = StoreTail(Top - 1) /\ sb' # << >>
  BY <1>u, <1>a, AppendFacts DEF UndoDetach
<1>1. DequeTypeOK'
  BY <1>u, <1>s DEF IInv, DequeTypeOK, OwnerPCs
<1>2. LockInv'
  BY <1>u DEF IInv, LockInv, Raised, HoldsLock
<1>3. IndexInv'
  BY <1>u, <1>s DEF IInv, IndexInv, StoreTail
<1>4. BufferInv'
  <2>1. \A k \in 1..Len(sb') :
           \/ k \in 1..Len(sb) /\ sb'[k] = sb[k]
           \/ sb'[k] = StoreTail(Top - 1)
    BY <1>u, <1>s
  <2>2. SUFFICES ASSUME NEW k \in 1..Len(sb')
                 PROVE  /\ sb'[k].var = "tail" => sb'[k].at <= Top
                        /\ sb'[k].var = "slot" =>
                              /\ sb'[k].at >= base /\ sb'[k].at < Top
                              /\ sb'[k].frame = parents[sb'[k].at - base + 1]
    BY <1>u DEF IInv, BufferInv
  <2>3. CASE k \in 1..Len(sb) /\ sb'[k] = sb[k]
    BY <2>3 DEF IInv, BufferInv
  <2>4. CASE sb'[k] = StoreTail(Top - 1)
    BY <2>4, <1>u DEF StoreTail
  <2>5. QED
    BY <2>1, <2>3, <2>4
<1>5. SlotInv'
  <2>1. SUFFICES ASSUME NEW i \in base..(Top - 1), InFlight(i)
                 PROVE  InFlight(i)'
    BY <1>u DEF IInv, SlotInv, InMemory
  <2>2. PICK k \in 1..Len(sb) :
          /\ sb[k].var = "slot" /\ sb[k].at = i
          /\ \A j \in 1..(k - 1) : sb[j].var = "tail" => sb[j].at <= i
    BY <2>1 DEF InFlight
  <2>3. /\ k \in 1..Len(sb') /\ sb'[k] = sb[k]
        /\ \A j \in 1..(k - 1) : sb'[j] = sb[j]
    BY <1>u, <1>s
  <2>4. tail' <= i
    BY <2>1, <1>u DEF InFlight
  <2>5. QED
    BY <2>2, <2>3, <2>4 DEF InFlight
<1>6. ThiefInv' /\ FrameInv'
  BY <1>u DEF IInv, ThiefInv, FrameInv, InMemory
<1>7. QED
  BY <1>1, <1>2, <1>3, <1>4, <1>5, <1>6 DEF IInv

\* T >= E after the barrier: T is memory's T, so a thief that has won is at
\* an older slot.
LEMMA CompareEStep ==
    ASSUME IInv, CompareE
    PROVE  IInv'
<1>u. /\ UNCHANGED <<head, tail, exc, ltq, protected_tail, sb, otail>>
      /\ UNCHANGED <<victim_lock, tpc, slot, loot>>
      /\ opc = "undo" /\ sb = << >> /\ otail = Top - 1 /\ tail = otail
      /\ parents # << >> /\ Top \in Int /\ head \in Int /\ exc \in 0..(Limit + 1)
  BY LimitAssumption
  DEF IInv, DequeTypeOK, IndexInv, Top, CompareE, Fenced, Drained, thiefVars
<1>l. LockInv'
  BY <1>u DEF IInv, LockInv, Raised, HoldsLock
<1>e. exc = head \/ exc = head + 1
  BY DEF IInv, LockInv
<1>f. \A t \in Thieves : tpc[t] = "won" => exc = head + 1
  BY DEF IInv, LockInv, Raised
<1>1. CASE otail < exc
  <2>1. opc' = "check" /\ UNCHANGED <<cur, base, parents>>
    BY <1>1 DEF CompareE
  <2>2. DequeTypeOK'
    BY <1>u, <2>1 DEF IInv, DequeTypeOK, OwnerPCs
  <2>3. IndexInv'
    BY <1>u, <2>1 DEF IInv, IndexInv, Top
  <2>4. BufferInv' /\ SlotInv'
    BY BufferKept, SlotsKept, <1>u, <2>1 DEF IInv
  <2>5. ThiefInv' /\ FrameInv'
    BY <1>u, <2>1 DEF IInv, ThiefInv, FrameInv, InMemory, Top
  <2>6. QED
    BY <1>l, <2>2, <2>3, <2>4, <2>5 DEF IInv
<1>2. CASE ~(otail < exc)
  <2>1. ReturnToParent
    BY <1>2 DEF CompareE
  <2>2. head <= Top - 1 /\ exc' \in 0..(Limit + 1)
    BY <1>2, <1>u, <1>e
  <2>3. \A t \in Thieves : tpc[t] = "won" => head < Top - 1
    BY <1>2, <1>u, <1>f
  <2>4. QED
    BY <1>u, <1>l, <2>1, <2>2, <2>3, PopStep
<1>3. QED
  BY <1>1, <1>2

\* The worker lock is the owner's: no thief has raised E.
LEMMA NoThiefInside ==
    ASSUME IInv, victim_lock = NoThief
    PROVE  /\ \A t \in Thieves : ~HoldsLock(t) /\ ~Raised(t)
           /\ \A t \in Thieves : tpc[t] # "won" /\ tpc[t] # "taken"
           /\ exc = head
BY NoThiefAssumption DEF IInv, LockInv, HoldsLock, Raised

LEMMA THE_exception_checkStep ==
    ASSUME IInv, THE_exception_check
    PROVE  IInv'
<1>u. /\ UNCHANGED <<head, ltq, protected_tail, sb>>
      /\ UNCHANGED <<victim_lock, tpc, slot, loot>>
      /\ opc = "check" /\ victim_lock = NoThief /\ exc' = head
      /\ sb = << >> /\ otail = Top - 1 /\ tail = otail /\ parents # << >>
      /\ Top \in Int /\ head \in 0..Limit /\ head <= Top /\ Limit \in Nat
  BY LimitAssumption
  DEF IInv, DequeTypeOK, IndexInv, Top, THE_exception_check, thiefVars
<1>n. exc = head /\ \A t \in Thieves : tpc[t] # "won"
  BY <1>u, NoThiefInside
<1>l. LockInv'
  BY <1>u, <1>n DEF IInv, LockInv, Raised, HoldsLock
<1>e. exc' \in 0..(Limit + 1)
  BY <1>u
<1>1. CASE Stolen
  <2>1. head = Top
    BY <1>1, <1>u DEF Stolen
  <2>2. LeaveForScheduler /\ otail' = Top /\ tail' = Top /\ base' = Top
    BY <1>1, <1>u DEF THE_exception_check
  <2>3. QED
    BY <1>u, <1>l, <1>e, <2>1, <2>2, LeaveStep
<1>2. CASE ~Stolen
  <2>1. head <= Top - 1
    BY <1>2, <1>u DEF Stolen
  <2>2. ReturnToParent /\ otail' = Top - 1 /\ tail' = Top - 1
    BY <1>2, <1>u DEF THE_exception_check
  <2>3. QED
    BY <1>u, <1>l, <1>e, <1>n, <2>1, <2>2, PopStep
<1>3. QED
  BY <1>1, <1>2

LEMMA PopTailStep ==
    ASSUME IInv, PopTail
    PROVE  IInv'
<1>u. /\ UNCHANGED <<head, exc, ltq, protected_tail, sb>>
      /\ UNCHANGED <<victim_lock, tpc, slot, loot>>
      /\ opc = "work" /\ victim_lock = NoThief
      /\ sb = << >> /\ otail = Top /\ tail = otail /\ parents # << >>
      /\ Top \in Int /\ head \in 0..Limit /\ head <= Top /\ Limit \in Nat
      /\ exc' \in 0..(Limit + 1)
  BY LimitAssumption
  DEF IInv, DequeTypeOK, IndexInv, Top, PopTail, Drained, thiefVars
<1>n. \A t \in Thieves : tpc[t] # "won"
  BY <1>u, NoThiefInside
<1>l. LockInv'
  BY <1>u DEF IInv, LockInv, Raised, HoldsLock
<1>1. CASE head < otail
  <2>1. ReturnToParent /\ otail' = Top - 1 /\ tail' = Top - 1
    BY <1>1, <1>u DEF PopTail
  <2>2. head <= Top - 1
    BY <1>1, <1>u
  <2>3. QED
    BY <1>u, <1>l, <1>n, <2>1, <2>2, PopStep
<1>2. CASE ~(head < otail)
  <2>1. LeaveForScheduler /\ base' = Top /\ otail' = Top /\ tail' = Top
    BY <1>2, <1>u DEF PopTail
  <2>2. head = Top
    BY <1>2, <1>u
  <2>3. QED
    BY <1>u, <1>l, <2>1, <2>2, LeaveStep
<1>3. QED
  BY <1>1, <1>2

LEMMA PromoteOwnDequeStep ==
    ASSUME IInv, PromoteOwnDeque
    PROVE  IInv'
<1>u. /\ UNCHANGED <<tail, ltq, protected_tail, sb, otail, opc, cur, base, parents>>
      /\ UNCHANGED <<victim_lock, tpc, slot, loot>>
      /\ victim_lock = NoThief /\ head < otail /\ head' = otail /\ opc = "work"
      /\ otail = Top /\ Top \in Int /\ head \in Nat /\ base <= head
      /\ base \in Nat /\ Top <= Limit /\ Limit \in Nat
      /\ exc' = exc + (otail - head) /\ Len(parents) \in Nat
  BY LimitAssumption
  DEF IInv, DequeTypeOK, IndexInv, Top, PromoteOwnDeque, ownerVars, thiefVars
<1>n. /\ \A t \in Thieves : ~HoldsLock(t) /\ ~Raised(t)
      /\ \A t \in Thieves : tpc[t] # "won" /\ tpc[t] # "taken"
      /\ exc = head
  BY <1>u, NoThiefInside
<1>e. exc' = head' /\ head' \in 0..Limit
  BY <1>u, <1>n
<1>1. DequeTypeOK'
  BY <1>u, <1>e DEF IInv, DequeTypeOK
<1>2. LockInv'
  BY <1>u, <1>e, <1>n DEF IInv, LockInv, Raised, HoldsLock
<1>3. IndexInv'
  BY <1>u DEF IInv, IndexInv, Top
<1>4. BufferInv' /\ SlotInv'
  BY BufferKept, SlotsKept, <1>u DEF IInv
<1>5. ThiefInv'
  BY <1>u, <1>n DEF ThiefInv
<1>6. FrameInv'
  <2>1. \A i \in 1..Len(parents) : i > head' - base => i > head - base
    BY <1>u
  <2>2. QED
    BY <1>u, <1>n, <2>1 DEF IInv, FrameInv
<1>7. QED
  BY <1>1, <1>2, <1>3, <1>4, <1>5, <1>6 DEF IInv

LEMMA EnterRuntimeStep ==
    ASSUME IInv, EnterRuntime
    PROVE  IInv'
<1>u. /\ UNCHANGED <<head, tail, exc, ltq, protected_tail, sb, otail, base, parents>>
      /\ UNCHANGED <<victim_lock, tpc, slot, loot>>
      /\ opc = "work" /\ opc' = "sched" /\ cur' = NoFrame /\ parents = << >>
  BY DEF EnterRuntime, thiefVars
<1>1. DequeTypeOK' /\ LockInv' /\ IndexInv'
  BY <1>u DEF IInv, DequeTypeOK, OwnerPCs, LockInv, Raised, HoldsLock, IndexInv, Top
<1>2. BufferInv' /\ SlotInv'
  BY BufferKept, SlotsKept, <1>u DEF IInv
<1>3. ThiefInv'
  BY <1>u DEF IInv, ThiefInv, InMemory, Top
<1>4. FrameInv'
  BY <1>u, Len(<< >>) = 0 DEF IInv, FrameInv
<1>5. QED
  BY <1>1, <1>2, <1>3, <1>4 DEF IInv

LEMMA ReduceStep ==
    ASSUME IInv, Reduce
    PROVE  IInv'
<1>u. /\ UNCHANGED <<head, tail, exc, ltq, protected_tail, sb, otail, base, parents>>
      /\ UNCHANGED <<victim_lock, tpc, slot, loot>>
      /\ opc = "sched" /\ opc' = "work" /\ parents = << >>
  BY DEF IInv, IndexInv, Reduce, thiefVars
<1>c. cur' \in Frames /\ \A t \in Thieves : cur' # loot[t]
  BY DEF Reduce, Free, Detached
<1>1. DequeTypeOK' /\ LockInv' /\ IndexInv'
  BY <1>u, <1>c
  DEF IInv, DequeTypeOK, OwnerPCs, LockInv, Raised, HoldsLock, IndexInv, Top
<1>2. BufferInv' /\ SlotInv'
  BY BufferKept, SlotsKept, <1>u DEF IInv
<1>3. ThiefInv'
  BY <1>u DEF IInv, ThiefInv, InMemory, Top
<1>4. FrameInv'
  BY <1>u, <1>c, Len(<< >>) = 0, NoFrameAssumption DEF IInv, FrameInv
<1>5. QED
  BY <1>1, <1>2, <1>3, <1>4 DEF IInv

LEMMA SetupForExecutionStep ==
    ASSUME IInv, SetupForExecution
    PROVE  IInv'
<1>u. /\ UNCHANGED <<ltq, protected_tail, sb, parents>>
      /\ UNCHANGED <<victim_lock, tpc, slot, loot>>
      /\ opc = "sched" /\ opc' = "work" /\ victim_lock = NoThief
      /\ head' = 0 /\ tail' = 0 /\ otail' = 0 /\ exc' = 0 /\ base' = 0
      /\ parents = << >> /\ Len(parents) = 0 /\ sb = << >> /\ Limit \in Nat
  BY LimitAssumption DEF IInv, IndexInv, SetupForExecution, thiefVars
<1>c. cur' \in Frames /\ \A t \in Thieves : cur' # loot[t]
  BY DEF SetupForExecution, Free, Detached
<1>n. /\ \A t \in Thieves : ~HoldsLock(t) /\ ~Raised(t)
      /\ \A t \in Thieves : tpc[t] # "won" /\ tpc[t] # "taken"
  BY <1>u, NoThiefInside
<1>t. Top' = 0
  BY <1>u DEF Top
<1>1. DequeTypeOK'
  BY <1>u, <1>c DEF IInv, DequeTypeOK, OwnerPCs
<1>2. LockInv'
  BY <1>u, <1>n DEF IInv, LockInv, Raised, HoldsLock
<1>3. IndexInv'
  BY <1>u, <1>t DEF IndexInv
<1>4. BufferInv' /\ SlotInv'
  BY <1>u, <1>t, Len(<< >>) = 0 DEF BufferInv, SlotInv
<1>5. ThiefInv'
  BY <1>u, <1>n DEF ThiefInv
<1>6. FrameInv'
  BY <1>u, <1>c, <1>n, NoFrameAssumption DEF IInv, FrameInv
<1>7. QED
  BY <1>1, <1>2, <1>3, <1>4, <1>5, <1>6 DEF IInv

-----------------------------------------------------------------------------
(* The theorems *)

LEMMA InitInv == DequeInit => IInv
<1>1. SUFFICES ASSUME DequeInit PROVE IInv
  OBVIOUS
<1>t. Top = 0 /\ Len(<< >>) = 0
  BY <1>1 DEF DequeInit, Top
<1>2. DequeTypeOK
  BY <1>1, LimitAssumption DEF DequeInit, DequeTypeOK, OwnerPCs, ThiefPCs
<1>3. LockInv
  BY <1>1, NoThiefAssumption DEF DequeInit, LockInv, Raised, HoldsLock
<1>4. IndexInv
  BY <1>1, <1>t, LimitAssumption DEF DequeInit, IndexInv
<1>5. BufferInv /\ SlotInv
  BY <1>1, <1>t DEF DequeInit, BufferInv, SlotInv
<1>6. ThiefInv /\ FrameInv
  BY <1>1, <1>t, NoFrameAssumption DEF DequeInit, ThiefInv, FrameInv
<1>7. QED
  BY <1>2, <1>3, <1>4, <1>5, <1>6 DEF IInv

LEMMA StutterStep ==
    ASSUME IInv, UNCHANGED protocolVars
    PROVE  IInv'
<1>u. UNCHANGED <<head, tail, exc, ltq, protected_tail, victim_lock, sb, otail, opc, cur,
          base, parents, tpc, slot, loot>>
  BY DEF protocolVars
<1>1. DequeTypeOK' /\ LockInv' /\ IndexInv'
  BY <1>u DEF IInv, DequeTypeOK, LockInv, Raised, HoldsLock, IndexInv, Top
<1>2. BufferInv' /\ SlotInv'
  BY BufferKept, SlotsKept, <1>u DEF IInv
<1>3. ThiefInv' /\ FrameInv'
  BY <1>u DEF IInv, ThiefInv, FrameInv, InMemory, Top
<1>4. QED
  BY <1>1, <1>2, <1>3 DEF IInv

\* The invariant is inductive: every action of __cilkrts_detach, the return
\* paths and random_steal preserves it.
THEOREM Invariance == DequeSpec => []IInv
<1>1. DequeInit => IInv
  BY InitInv
<1>2. IInv /\ [DequeNext]_protocolVars => IInv'
  <2>1. SUFFICES ASSUME IInv, [DequeNext]_protocolVars PROVE IInv'
    OBVIOUS
  <2>2. CASE Owner
    BY <2>1, <2>2, DrainStep, SpawnStep, UndoDetachStep, CompareEStep,
       THE_exception_checkStep, PopTailStep, PromoteOwnDequeStep,
       EnterRuntimeStep, ReduceStep, SetupForExecutionStep
    DEF Owner
  <2>3. ASSUME NEW t \in Thieves, Thief(t) PROVE IInv'
    BY <2>1, <2>3, TryLockStep, CanStealFromStep, GiveUpStep, IncrementEStep, DekkerStep,
       DecrementEStep, DetachStep, UnrollStep, FinishStep
    DEF Thief
  <2>4. CASE UNCHANGED protocolVars
    BY <2>1, <2>4, StutterStep
  <2>5. QED
    BY <2>1, <2>2, <2>3, <2>4 DEF DequeNext
<1>3. QED
  BY <1>1, <1>2, PTL DEF DequeSpec

\* Every variable keeps its type, whatever the owner and the thieves do.
THEOREM TypeCorrect == DequeSpec => []DequeTypeOK
BY Invariance, PTL DEF IInv

\* No continuation is executed twice: the race between the owner's pop and
\* the thieves' steals has exactly one winner.
THEOREM ExclusiveTheorem == DequeSpec => []Exclusive
<1>1. IInv => Exclusive
  BY DEF IInv, FrameInv, Exclusive
<1>2. QED
  BY <1>1, Invariance, PTL

\* A thief always reads the frame the owner pushed, oldest first.
THEOREM StealsOldestTheorem == DequeSpec => []StealsOldest
<1>1. IInv => StealsOldest
  <2>1. SUFFICES ASSUME IInv, NEW t \in Thieves, tpc[t] = "taken"
                 PROVE  /\ slot[t] = head - 1
                        /\ slot[t] - base + 1 \in 1..Len(parents)
                        /\ ltq[slot[t]] = parents[slot[t] - base + 1]
    BY DEF StealsOldest
  <2>2. slot[t] = head - 1 /\ base < head /\ InMemory(head - 1)
    BY <2>1 DEF IInv, ThiefInv
  <2>3. (head - 1) - base + 1 \in 1..Len(parents)
    BY <2>1, <2>2 DEF IInv, DequeTypeOK, IndexInv, Top
  <2>4. QED
    BY <2>2, <2>3 DEF InMemory
<1>2. QED
  BY <1>1, Invariance, PTL

\* An owner in the runtime left nothing on its deque.
THEOREM EmptyInRuntimeTheorem == DequeSpec => []EmptyInRuntime
<1>1. IInv => EmptyInRuntime
  <2>1. SUFFICES ASSUME IInv, opc = "sched"
                 PROVE  /\ head = otail
                        /\ \A t \in Thieves : tpc[t] \notin {"won", "taken"}
    BY DEF EmptyInRuntime
  <2>2. parents = << >> /\ otail = Top /\ base <= head /\ head <= Top
    BY <2>1 DEF IInv, IndexInv
  <2>3. Top = base /\ head = base /\ head \in Int
    BY <2>1, <2>2, Len(<< >>) = 0 DEF IInv, DequeTypeOK, Top
  <2>4. QED
    BY <2>1, <2>2, <2>3 DEF IInv, ThiefInv
<1>2. QED
  BY <1>1, Invariance, PTL
=============================================================================
