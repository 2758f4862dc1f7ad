------------------------- MODULE Termination_proofs -------------------------
(***************************************************************************)
(* The two ends of a computation.  ExitsLast for any number of workers and *)
(* strands: the user's thread leaves Cilk only when no strand is left.     *)
(* Then the start: StartedOnce and SettingsUsable for any number of        *)
(* threads and workers and any settings.                                   *)
(***************************************************************************)
EXTENDS Termination, Runtime, FiniteSetTheorems, TLAPS

Free == {s \in Strands : state[s] = "free"}

\* The labels of a worker that has a strand of its own.
Holding == {"run", "put", "last", "suspend", "decrement", "join"}

\* Every strand that has not ended is counted once, and every steal under way.
CountInv == active_workers = Cardinality(Live) + Cardinality(Splitting)

\* No thief runs out of names.
NamesInv == Cardinality(Free) >= Cardinality(Splitting)

StrandInv ==
    /\ state[Root] \notin {"free", "joining"}
    /\ \A s \in Strands :
        /\ state[s] = "over" => s = Root
        /\ state[s] \in {"sync", "over"} => work[s] = 0

WorkerInv ==
    \A w \in Workers :
    /\ pc[w] \in Holding \cup {"detach"} => arg[w] \in Strands
    /\ pc[w] \in Holding \ {"join"} => state[arg[w]] = "run"
    /\ pc[w] = "join" => state[arg[w]] = "joining"
    /\ pc[w] = "detach" => state[arg[w]] \in {"run", "get"} /\ work[arg[w]] > 0
    /\ pc[w] = "put" => arg[w] # Root
    /\ pc[w] \in {"last", "suspend", "decrement"} => arg[w] = Root
    /\ pc[w] \in {"put", "last", "suspend", "decrement"} => work[arg[w]] = 0
    /\ pc[w] = "last" => w = W0 /\ active_workers = 1
    /\ pc[w] = "decrement" => exit_frame = Root
    /\ pc[w] \in {"exit", "out"} => w = W0 /\ active_workers = 0 /\ state[Root] = "over"
    /\ pc[w] \in {"sched", "out"} => arg[w] = NULL
    /\ pc[w] = "exit" => arg[w] = Root

\* A frame handed to a worker is nobody else's; the initial one comes back
\* to worker 0 once nothing is left.
FrameInv ==
    \A w \in Workers : next_frame[w] # NULL =>
    /\ work[next_frame[w]] = 0
    /\ \A v \in Workers : arg[v] # next_frame[w]
    /\ \/ state[next_frame[w]] = "run"
       \/ /\ state[next_frame[w]] = "over" /\ w = W0 /\ active_workers = 0
          /\ pc[W0] \notin {"exit", "out"}

UniqueInv ==
    \A w, v \in Workers : w # v =>
    /\ next_frame[w] # NULL => next_frame[w] # next_frame[v]
    /\ pc[w] \in Holding /\ pc[v] \in Holding => arg[w] # arg[v]
    /\ pc[w] = "detach" /\ pc[v] = "detach" => arg[w] # arg[v]

IInv ==
    /\ TypeOK /\ CountInv /\ NamesInv /\ StrandInv
    /\ WorkerInv /\ FrameInv /\ UniqueInv

-----------------------------------------------------------------------------
(* The count *)

\* Cardinalities when one element comes, goes, or takes another's place.
LEMMA OneMore ==
    ASSUME NEW S, NEW x, IsFiniteSet(S), x \notin S
    PROVE  Cardinality(S \cup {x}) = Cardinality(S) + 1
BY FS_AddElement

LEMMA OneLess ==
    ASSUME NEW S, NEW x, IsFiniteSet(S), x \in S
    PROVE  Cardinality(S \ {x}) = Cardinality(S) - 1
BY FS_RemoveElement

\* What the count says of the strands: nothing is left at zero, one strand
\* and no thief at one.
LEMMA Counts ==
    ASSUME IInv
    PROVE  /\ IsFiniteSet(Live) /\ Cardinality(Live) \in Nat
           /\ IsFiniteSet(Splitting) /\ Cardinality(Splitting) \in Nat
           /\ IsFiniteSet(Free) /\ Cardinality(Free) \in Nat
           /\ active_workers = 0 => Live = {} /\ Splitting = {}
           /\ active_workers = 1 => \A s \in Live : Live = {s} /\ Splitting = {}
           /\ Live # {} => active_workers > 0
<1>1. /\ IsFiniteSet(Live) /\ Cardinality(Live) \in Nat
      /\ IsFiniteSet(Splitting) /\ Cardinality(Splitting) \in Nat
      /\ IsFiniteSet(Free) /\ Cardinality(Free) \in Nat
  <2>1. Live \subseteq Strands /\ Free \subseteq Strands /\ Splitting \subseteq Workers
    BY DEF Live, Free, Splitting
  <2>2. QED
    BY <2>1, StrandsAssumption, WorkersAssumption, FS_Subset, FS_CardinalityType
<1>2. active_workers = 0 => Live = {} /\ Splitting = {}
  <2>1. active_workers = 0 => Cardinality(Live) = 0 /\ Cardinality(Splitting) = 0
    BY <1>1 DEF IInv, CountInv
  <2>2. QED
    BY <2>1, <1>1, FS_EmptySet
<1>3. ASSUME active_workers = 1, NEW s \in Live
      PROVE  Live = {s} /\ Splitting = {}
  <2>1. Cardinality(Live \ {s}) = Cardinality(Live) - 1 /\ IsFiniteSet(Live \ {s})
    BY <1>1, FS_RemoveElement
  <2>2. Cardinality(Live \ {s}) \in Nat
    BY <2>1, FS_CardinalityType
  <2>3. Cardinality(Live \ {s}) = 0 /\ Cardinality(Splitting) = 0
    BY <2>1, <2>2, <1>1, <1>3 DEF IInv, CountInv
  <2>4. Live \ {s} = {} /\ Splitting = {}
    BY <2>1, <2>3, <1>1, FS_EmptySet
  <2>5. QED
    BY <2>4
<1>4. Live # {} => active_workers > 0
  <2>1. active_workers \in Nat
    BY DEF IInv, TypeOK
  <2>2. QED
    BY <2>1, <1>2
<1>5. QED
  BY <1>1, <1>2, <1>3, <1>4

\* Steps that leave the counted sets alone leave the count's invariants alone.
LEMMA SameSets ==
    ASSUME IInv, UNCHANGED active_workers,
           Live' = Live, Splitting' = Splitting, Free' = Free
    PROVE  CountInv' /\ NamesInv'
BY DEF IInv, CountInv, NamesInv

-----------------------------------------------------------------------------
(* One lemma per action *)

LEMMA InitStep == Init => IInv
<1> SUFFICES ASSUME Init PROVE IInv
  OBVIOUS
<1>1. TypeOK
  BY StrandsAssumption, WorkersAssumption, WorkAssumption DEF Init, TypeOK, States, Labels
<1>2. Live = {Root} /\ Splitting = {}
  BY StrandsAssumption DEF Init, Live, Splitting
<1>3. CountInv
  <2>1. Cardinality({Root}) = 1 /\ Cardinality({}) = 0
    BY FS_Singleton, FS_EmptySet
  <2>2. QED
    BY <1>2, <2>1 DEF Init, CountInv
<1>4. NamesInv
  <2>1. Free \subseteq Strands
    BY DEF Free
  <2>2. Cardinality(Free) \in Nat
    BY <2>1, StrandsAssumption, FS_Subset, FS_CardinalityType
  <2>3. Cardinality({}) = 0
    BY FS_EmptySet
  <2>4. QED
    BY <1>2, <2>2, <2>3 DEF NamesInv
<1>5. StrandInv /\ WorkerInv /\ FrameInv /\ UniqueInv
  BY StrandsAssumption, WorkersAssumption
  DEF Init, StrandInv, WorkerInv, FrameInv, UniqueInv, Holding
<1>6. QED
  BY <1>1, <1>3, <1>4, <1>5 DEF IInv

LEMMA PushStep ==
    ASSUME IInv, NEW w \in Workers, Push(w)
    PROVE  IInv'
<1> USE StrandsAssumption, WorkersAssumption, WorkAssumption
<1>1. PICK s \in Strands :
        /\ Running(w, s) /\ work[s] < MaxWork
        /\ work' = [work EXCEPT ![s] = @ + 1]
        /\ UNCHANGED <<shared, state, parent, waits, pc, arg>>
  BY DEF Push
<1>2. TypeOK'
  BY <1>1 DEF IInv, TypeOK, shared
<1>3. CountInv' /\ NamesInv'
  BY <1>1, SameSets DEF shared, Live, Splitting, Free
<1>4. StrandInv' /\ WorkerInv' /\ FrameInv' /\ UniqueInv'
  BY <1>1
  DEF IInv, TypeOK, StrandInv, WorkerInv, FrameInv, UniqueInv, Holding, Running, shared
<1>5. QED
  BY <1>2, <1>3, <1>4 DEF IInv

LEMMA PopStep ==
    ASSUME IInv, NEW w \in Workers, Pop(w)
    PROVE  IInv'
<1> USE StrandsAssumption, WorkersAssumption, WorkAssumption
<1>1. PICK s \in Strands :
        /\ Running(w, s) /\ work[s] > (IF Locked(s) THEN 1 ELSE 0)
        /\ work' = [work EXCEPT ![s] = @ - 1]
        /\ UNCHANGED <<shared, state, parent, waits, pc, arg>>
  BY DEF Pop
<1>2. TypeOK'
  BY <1>1 DEF IInv, TypeOK, shared
<1>3. CountInv' /\ NamesInv'
  BY <1>1, SameSets DEF shared, Live, Splitting, Free
<1>4. StrandInv' /\ WorkerInv' /\ FrameInv' /\ UniqueInv'
  BY <1>1
  DEF IInv, TypeOK, StrandInv, WorkerInv, FrameInv, UniqueInv, Holding, Running, shared,
      Locked, Splitting
<1>5. QED
  BY <1>2, <1>3, <1>4 DEF IInv

LEMMA StealStep ==
    ASSUME IInv, NEW w \in Workers, Steal(w)
    PROVE  IInv'
<1> USE StrandsAssumption, WorkersAssumption, WorkAssumption
<1>1. PICK s \in Strands :
        /\ pc[w] = "sched" /\ next_frame[w] = NULL /\ CanSteal(s)
        /\ active_workers' = active_workers + 1
        /\ Goto(w, "detach", s)
        /\ UNCHANGED <<exit_frame, next_frame, state, work, parent, waits>>
  BY DEF Steal
<1>2. TypeOK'
  BY <1>1 DEF IInv, TypeOK, Labels, Goto
<1>3. Live' = Live /\ Free' = Free /\ Splitting' = Splitting \cup {w} /\ w \notin Splitting
  BY <1>1 DEF IInv, TypeOK, Goto, Live, Free, Splitting
<1>4. Cardinality(Splitting') = Cardinality(Splitting) + 1
  BY <1>3, Counts, OneMore
<1>5. CountInv' /\ NamesInv'
  BY <1>1, <1>3, <1>4, Counts DEF IInv, CountInv, NamesInv, CanSteal, StrandsLeft, Free
<1>6. s \in Live /\ active_workers # 0 /\ (active_workers = 1 => Live = {s})
  BY <1>1, Counts DEF CanSteal, Live
<1>7. pc' = [pc EXCEPT ![w] = "detach"] /\ arg' = [arg EXCEPT ![w] = s] /\ pc[w] = "sched"
  BY <1>1 DEF Goto
<1>8. /\ state[s] \in {"run", "get"} /\ work[s] > 0
      /\ \A v \in Workers : pc[v] = "detach" => arg[v] # s
  BY <1>1 DEF CanSteal, Locked, Splitting
<1>9. \A v \in Workers : pc[v] # "last"
  BY <1>6, <1>8 DEF IInv, TypeOK, WorkerInv, Holding, Live
<1>10. StrandInv' /\ WorkerInv'
  BY <1>1, <1>6, <1>7, <1>8, <1>9 DEF IInv, TypeOK, StrandInv, WorkerInv, Holding
<1>11. FrameInv'
  BY <1>1, <1>6, <1>7, <1>8 DEF IInv, TypeOK, FrameInv
<1>12. UniqueInv'
  BY <1>1, <1>7, <1>8 DEF IInv, TypeOK, UniqueInv, Holding
<1>13. QED
  BY <1>2, <1>5, <1>10, <1>11, <1>12 DEF IInv

LEMMA DetachStep ==
    ASSUME IInv, NEW w \in Workers, Detach(w)
    PROVE  IInv'
<1> USE StrandsAssumption, WorkersAssumption, WorkAssumption
<1> DEFINE c == NewStrand
<1>1. PICK s \in Strands :
        /\ pc[w] = "detach" /\ arg[w] = s
        /\ next_frame' = [next_frame EXCEPT ![w] = s]
        /\ state' = [state EXCEPT ![c] = state[s], ![s] = "run"]
        /\ work' = [work EXCEPT ![c] = work[s] - 1, ![s] = 0]
        /\ waits' = [waits EXCEPT ![c] = waits[s], ![s] = NULL]
        /\ \E p \in {s, NULL} : parent' = [parent EXCEPT ![c] = p]
        /\ pc' = [pc EXCEPT ![w] = "sched"]
        /\ arg' = [v \in Workers |-> IF v = w THEN NULL
                                     ELSE IF arg[v] = s THEN c ELSE arg[v]]
        /\ UNCHANGED <<active_workers, exit_frame>>
  BY DEF Detach
<1>2. state[s] \in {"run", "get"} /\ work[s] > 0 /\ s \in Live
  BY <1>1 DEF IInv, TypeOK, WorkerInv, Live
<1>3. w \in Splitting
  BY <1>1 DEF Splitting
<1>4. c \in Strands /\ state[c] = "free"
  <2>1. Cardinality(Splitting) # 0
    BY <1>3, Counts, FS_EmptySet
  <2>2. Cardinality(Free) # 0
    BY <2>1, Counts DEF IInv, NamesInv
  <2>3. Free # {}
    BY <2>2, FS_EmptySet
  <2>4. \E x \in Strands : state[x] = "free"
    BY <2>3 DEF Free
  <2>5. QED
    BY <2>4 DEF NewStrand
<1> HIDE DEF c
<1>5. c # s /\ c # Root
  BY <1>2, <1>4 DEF IInv, StrandInv
<1>6. \A v \in Workers : arg[v] # c /\ next_frame[v] # c /\ next_frame[v] # s
  BY <1>2, <1>4, <1>5 DEF IInv, TypeOK, Labels, WorkerInv, FrameInv, Holding
<1>7. \A v \in Workers \ {w} : arg[v] = s => pc[v] = "run"
  BY <1>1, <1>2 DEF IInv, TypeOK, Labels, WorkerInv, UniqueInv, Holding
<1>8. TypeOK'
  BY <1>1, <1>2, <1>4 DEF IInv, TypeOK, Labels, States
<1>9. Live' = Live \cup {c} /\ Free' = Free \ {c} /\ Splitting' = Splitting \ {w}
  BY <1>1, <1>2, <1>4, <1>5 DEF IInv, TypeOK, Live, Free, Splitting
<1>10. c \notin Live /\ c \in Free
  BY <1>4 DEF Live, Free
<1>11. /\ Cardinality(Live') = Cardinality(Live) + 1
       /\ Cardinality(Free') = Cardinality(Free) - 1
       /\ Cardinality(Splitting') = Cardinality(Splitting) - 1
  BY <1>3, <1>9, <1>10, Counts, OneMore, OneLess
<1>12. CountInv' /\ NamesInv'
  BY <1>1, <1>11, Counts DEF IInv, CountInv, NamesInv
<1>13. StrandInv'
  BY <1>1, <1>2, <1>4, <1>5 DEF IInv, TypeOK, StrandInv
<1>14. WorkerInv'
  BY <1>1, <1>2, <1>4, <1>5, <1>6, <1>7 DEF IInv, TypeOK, WorkerInv, Holding
<1>15. FrameInv'
  BY <1>1, <1>2, <1>4, <1>5, <1>6 DEF IInv, TypeOK, FrameInv
<1>16. UniqueInv'
  BY <1>1, <1>2, <1>4, <1>5, <1>6, <1>7 DEF IInv, TypeOK, UniqueInv, Holding
<1>17. QED
  BY <1>8, <1>12, <1>13, <1>14, <1>15, <1>16 DEF IInv

LEMMA PopNextFrameStep ==
    ASSUME IInv, NEW w \in Workers, PopNextFrame(w)
    PROVE  IInv'
<1> USE StrandsAssumption, WorkersAssumption, WorkAssumption
<1>1. PICK s \in Strands :
        /\ pc[w] = "sched" /\ next_frame[w] = s
        /\ next_frame' = [next_frame EXCEPT ![w] = NULL]
        /\ pc' = [pc EXCEPT ![w] = IF state[s] = "over" THEN "exit" ELSE "run"]
        /\ arg' = [arg EXCEPT ![w] = s]
        /\ UNCHANGED <<active_workers, exit_frame, state, work, parent, waits>>
  BY DEF PopNextFrame, Goto
<1>2. /\ state[s] = "run" \/ (state[s] = "over" /\ w = W0 /\ active_workers = 0 /\ s = Root)
      /\ work[s] = 0 /\ \A v \in Workers : arg[v] # s
  BY <1>1 DEF IInv, TypeOK, FrameInv, StrandInv
<1>3. TypeOK'
  BY <1>1 DEF IInv, TypeOK, Labels
<1>4. CountInv' /\ NamesInv'
  <2>1. Live' = Live /\ Free' = Free /\ Splitting' = Splitting
    BY <1>1 DEF IInv, TypeOK, Live, Free, Splitting
  <2>2. QED
    BY <1>1, <2>1, SameSets
<1>5. StrandInv'
  BY <1>1 DEF IInv, TypeOK, StrandInv
<1>6. WorkerInv'
  BY <1>1, <1>2 DEF IInv, TypeOK, WorkerInv, Holding
<1>7. FrameInv'
  BY <1>1, <1>2 DEF IInv, TypeOK, FrameInv, UniqueInv
<1>8. UniqueInv'
  BY <1>1, <1>2 DEF IInv, TypeOK, UniqueInv, Holding
<1>9. QED
  BY <1>3, <1>4, <1>5, <1>6, <1>7, <1>8 DEF IInv

LEMMA GetStep ==
    ASSUME IInv, NEW w \in Workers, Get(w)
    PROVE  IInv'
<1> USE StrandsAssumption, WorkersAssumption, WorkAssumption
<1>1. PICK s \in Strands :
        /\ pc[w] = "run" /\ arg[w] = s /\ ~Locked(s)
        /\ \E f \in Incomplete(s) : waits' = [waits EXCEPT ![s] = f]
        /\ state' = [state EXCEPT ![s] = "get"]
        /\ \/ Goto(w, "sched", NULL) /\ UNCHANGED active_workers
           \/ /\ work[s] > 0 /\ StrandsLeft
              /\ Goto(w, "detach", s)
              /\ active_workers' = active_workers + 1
        /\ UNCHANGED <<exit_frame, next_frame, work, parent>>
  BY DEF Get, Running
<1>2. \A v \in Workers : pc[v] = "detach" => arg[v] # s
  BY <1>1 DEF Locked, Splitting
<1>3. state[s] = "run" /\ s \in Live
  BY <1>1 DEF IInv, WorkerInv, Holding, Live
<1>4. \A v \in Workers : next_frame[v] # s /\ (v # w => arg[v] # s)
  <2>1. \A v \in Workers : next_frame[v] # s
    BY <1>1 DEF IInv, TypeOK, FrameInv
  <2>2. \A v \in Workers : v # w => arg[v] # s
    BY <1>1, <1>2, <1>3 DEF IInv, TypeOK, Labels, WorkerInv, UniqueInv, Holding
  <2>3. QED
    BY <2>1, <2>2
<1>5. Live' = Live /\ Free' = Free
  BY <1>1, <1>3 DEF IInv, TypeOK, Live, Free
<1>6. /\ TypeOK' /\ StrandInv'
  <2>1. Incomplete(s) \subseteq Strands \cup {IO}
    BY DEF Incomplete, Live
  <2>2. waits' \in [Strands -> Strands \cup {IO, NULL}]
    BY <1>1, <2>1 DEF IInv, TypeOK
  <2>3. QED
    BY <1>1, <2>2, <1>3 DEF IInv, TypeOK, Labels, States, Goto, StrandInv
<1>7. CASE Goto(w, "sched", NULL) /\ UNCHANGED active_workers
  <2>1. Splitting' = Splitting
    BY <1>1, <1>7 DEF IInv, TypeOK, Splitting, Goto
  <2>2. CountInv' /\ NamesInv'
    BY <1>5, <1>7, <2>1, SameSets
  <2>3. WorkerInv'
    BY <1>1, <1>3, <1>4, <1>7 DEF IInv, TypeOK, WorkerInv, Holding, Goto
  <2>4. FrameInv'
    BY <1>1, <1>4, <1>7 DEF IInv, TypeOK, FrameInv, Goto
  <2>5. UniqueInv'
    BY <1>1, <1>7 DEF IInv, TypeOK, UniqueInv, Holding, Goto
  <2>6. QED
    BY <1>6, <2>2, <2>3, <2>4, <2>5 DEF IInv
<1>8. CASE /\ work[s] > 0 /\ StrandsLeft
           /\ Goto(w, "detach", s)
           /\ active_workers' = active_workers + 1
  <2>1. Splitting' = Splitting \cup {w} /\ w \notin Splitting
    BY <1>1, <1>8 DEF IInv, TypeOK, Splitting, Goto
  <2>2. Cardinality(Splitting') = Cardinality(Splitting) + 1
    BY <2>1, Counts, OneMore
  <2>3. CountInv' /\ NamesInv'
    BY <1>5, <1>8, <2>2, Counts DEF IInv, CountInv, NamesInv, StrandsLeft, Free
  <2>4. active_workers # 0 /\ (active_workers = 1 => Live = {s})
    BY <1>3, Counts
  <2>5. \A v \in Workers : pc[v] # "last"
    BY <1>8, <2>4 DEF IInv, TypeOK, WorkerInv, Holding, Live
  <2>6. WorkerInv'
    BY <1>1, <1>3, <1>4, <1>8, <2>4, <2>5 DEF IInv, TypeOK, WorkerInv, Holding, Goto
  <2>7. FrameInv'
    BY <1>1, <1>4, <1>8, <2>4 DEF IInv, TypeOK, FrameInv, Goto
  <2>8. UniqueInv'
    BY <1>1, <1>4, <1>8 DEF IInv, TypeOK, UniqueInv, Holding, Goto
  <2>9. QED
    BY <1>6, <2>3, <2>6, <2>7, <2>8 DEF IInv
<1>9. QED
  BY <1>1, <1>7, <1>8

\* A waiting strand that becomes resumable, whoever makes it so.
LEMMA WakeStep ==
    ASSUME IInv, NEW d \in Strands, state[d] = "get", ~Locked(d),
           state' = [state EXCEPT ![d] = "resumable"],
           waits' = [waits EXCEPT ![d] = NULL],
           UNCHANGED <<shared, work, parent, pc, arg>>
    PROVE  IInv'
<1> USE StrandsAssumption, WorkersAssumption, WorkAssumption
<1>1. \A v \in Workers : arg[v] # d /\ next_frame[v] # d
  BY DEF IInv, TypeOK, Labels, StrandInv, WorkerInv, FrameInv, Holding, Locked, Splitting
<1>2. TypeOK' /\ StrandInv'
  BY DEF IInv, TypeOK, States, StrandInv, shared
<1>3. CountInv' /\ NamesInv'
  <2>1. Live' = Live /\ Free' = Free /\ Splitting' = Splitting
    BY DEF IInv, TypeOK, Live, Free, Splitting, shared
  <2>2. QED
    BY <2>1, SameSets DEF shared
<1>4. WorkerInv' /\ FrameInv' /\ UniqueInv'
  BY <1>1 DEF IInv, TypeOK, WorkerInv, FrameInv, UniqueInv, Holding, shared
<1>5. QED
  BY <1>2, <1>3, <1>4 DEF IInv

LEMMA CompleteStep ==
    ASSUME IInv, NEW s \in Strands, Complete(s)
    PROVE  IInv'
BY WakeStep DEF Complete

LEMMA MakeResumableStep ==
    ASSUME IInv, NEW w \in Workers, MakeResumable(w)
    PROVE  IInv'
BY WakeStep DEF MakeResumable, Waiters

LEMMA ResumeStep ==
    ASSUME IInv, NEW w \in Workers, Resume(w)
    PROVE  IInv'
<1> USE StrandsAssumption, WorkersAssumption, WorkAssumption
<1>1. PICK s \in Strands :
        /\ pc[w] = "sched" /\ next_frame[w] = NULL
        /\ state[s] = "resumable"
        /\ state' = [state EXCEPT ![s] = "run"]
        /\ pc' = [pc EXCEPT ![w] = "run"] /\ arg' = [arg EXCEPT ![w] = s]
        /\ UNCHANGED <<shared, work, parent, waits>>
  BY DEF Resume, Goto
<1>2. \A v \in Workers : arg[v] # s /\ next_frame[v] # s
  BY <1>1 DEF IInv, TypeOK, Labels, StrandInv, WorkerInv, FrameInv, Holding
<1>3. TypeOK' /\ StrandInv'
  BY <1>1 DEF IInv, TypeOK, States, Labels, StrandInv, shared
<1>4. CountInv' /\ NamesInv'
  <2>1. Live' = Live /\ Free' = Free /\ Splitting' = Splitting
    BY <1>1 DEF IInv, TypeOK, Live, Free, Splitting
  <2>2. QED
    BY <1>1, <2>1, SameSets DEF shared
<1>5. WorkerInv'
  BY <1>1, <1>2 DEF IInv, TypeOK, WorkerInv, Holding, shared
<1>6. FrameInv'
  BY <1>1, <1>2 DEF IInv, TypeOK, FrameInv, shared
<1>7. UniqueInv'
  BY <1>1, <1>2 DEF IInv, TypeOK, UniqueInv, Holding, shared
<1>8. QED
  BY <1>3, <1>4, <1>5, <1>6, <1>7 DEF IInv

LEMMA SyncStep ==
    ASSUME IInv, NEW w \in Workers, Sync(w)
    PROVE  IInv'
<1> USE StrandsAssumption, WorkersAssumption, WorkAssumption
<1>1. PICK s \in Strands :
        /\ pc[w] = "run" /\ arg[w] = s /\ work[s] = 0 /\ ~Locked(s)
        /\ state' = [state EXCEPT ![s] = "sync"]
        /\ pc' = [pc EXCEPT ![w] = "sched"] /\ arg' = [arg EXCEPT ![w] = NULL]
        /\ UNCHANGED <<shared, work, parent, waits>>
  BY DEF Sync, Goto, Running
<1>2. state[s] = "run"
  BY <1>1 DEF IInv, WorkerInv, Holding
<1>3. \A v \in Workers : next_frame[v] # s /\ (v # w => arg[v] # s)
  <2>1. \A v \in Workers : next_frame[v] # s
    BY <1>1 DEF IInv, TypeOK, FrameInv
  <2>2. \A v \in Workers : v # w => arg[v] # s
    BY <1>1, <1>2 DEF IInv, TypeOK, Labels, WorkerInv, UniqueInv, Holding
  <2>3. QED
    BY <2>1, <2>2
<1>4. TypeOK' /\ StrandInv'
  BY <1>1 DEF IInv, TypeOK, States, Labels, StrandInv, shared
<1>5. CountInv' /\ NamesInv'
  <2>1. Live' = Live /\ Free' = Free /\ Splitting' = Splitting
    BY <1>1, <1>2 DEF IInv, TypeOK, Live, Free, Splitting
  <2>2. QED
    BY <1>1, <2>1, SameSets DEF shared
<1>6. WorkerInv'
  BY <1>1, <1>3 DEF IInv, TypeOK, WorkerInv, Holding, shared
<1>7. FrameInv'
  BY <1>1, <1>3 DEF IInv, TypeOK, FrameInv, shared
<1>8. UniqueInv'
  BY <1>1 DEF IInv, TypeOK, UniqueInv, Holding, shared
<1>9. QED
  BY <1>4, <1>5, <1>6, <1>7, <1>8 DEF IInv

\* The worker of the only strand left: the others have nothing to run.
LEMMA Alone ==
    ASSUME IInv, NEW w \in Workers, pc[w] \in Holding \ {"join"}, active_workers = 1
    PROVE  /\ Live = {arg[w]}
           /\ \A v \in Workers : next_frame[v] = NULL
           /\ \A v \in Workers \ {w} : pc[v] \in {"sched", "join"} /\ arg[v] \notin Live
           /\ arg[w] # Root => state[Root] = "over"
<1> USE StrandsAssumption, WorkersAssumption, WorkAssumption
<1>1. arg[w] \in Strands /\ state[arg[w]] = "run" /\ arg[w] \in Live
  BY DEF IInv, WorkerInv, Holding, Live
<1>2. Live = {arg[w]} /\ Splitting = {}
  BY <1>1, Counts
<1>3. \A v \in Workers : next_frame[v] = NULL
  BY <1>2 DEF IInv, TypeOK, FrameInv, Live
<1>4. \A v \in Workers \ {w} : pc[v] \in {"sched", "join"} /\ arg[v] \notin Live
  <2> SUFFICES ASSUME NEW v \in Workers \ {w}
               PROVE  pc[v] \in {"sched", "join"} /\ arg[v] \notin Live
    OBVIOUS
  <2>1. pc[v] # "detach" /\ pc[v] \notin {"exit", "out"}
    BY <1>2 DEF IInv, WorkerInv, Splitting
  <2>2. pc[v] \notin Holding \ {"join"}
    BY <1>2 DEF IInv, WorkerInv, UniqueInv, Live, Holding
  <2>3. pc[v] \in {"sched", "join"}
    BY <2>1, <2>2 DEF IInv, TypeOK, Labels, Holding
  <2>4. QED
    BY <2>3 DEF IInv, WorkerInv, Holding, Live
<1>5. arg[w] # Root => state[Root] = "over"
  BY <1>2 DEF IInv, TypeOK, StrandInv, States, Live
<1>6. QED
  BY <1>2, <1>3, <1>4, <1>5

LEMMA EndStep ==
    ASSUME IInv, NEW w \in Workers, End(w)
    PROVE  IInv'
<1> USE StrandsAssumption, WorkersAssumption, WorkAssumption
<1>1. PICK s \in Strands \ {Root} :
        /\ pc[w] = "run" /\ arg[w] = s /\ work[s] = 0 /\ ~Locked(s)
        /\ Decrement
        /\ state' = [state EXCEPT ![s] = "joining"]
        /\ pc' = [pc EXCEPT ![w] = "join"] /\ arg' = [arg EXCEPT ![w] = s]
        /\ UNCHANGED <<exit_frame, work, parent, waits>>
  BY DEF End, AtEnd, Running, Goto
<1>2. state[s] = "run" /\ s \in Live
  BY <1>1 DEF IInv, WorkerInv, Holding, Live
<1>3. \A v \in Workers : next_frame[v] # s /\ (v # w => arg[v] # s)
  <2>1. \A v \in Workers : next_frame[v] # s
    BY <1>1 DEF IInv, TypeOK, FrameInv
  <2>2. \A v \in Workers : v # w => arg[v] # s
    BY <1>1, <1>2 DEF IInv, TypeOK, Labels, WorkerInv, UniqueInv, Holding
  <2>3. QED
    BY <2>1, <2>2
<1>4. active_workers > 0 /\ active_workers' = active_workers - 1
  BY <1>1, <1>2, Counts DEF Decrement
<1>5. TypeOK' /\ StrandInv'
  BY <1>1, <1>4 DEF IInv, TypeOK, States, Labels, StrandInv, Decrement
<1>6. CountInv' /\ NamesInv'
  <2>1. Live' = Live \ {s} /\ Free' = Free /\ Splitting' = Splitting
    BY <1>1, <1>2 DEF IInv, TypeOK, Live, Free, Splitting
  <2>2. Cardinality(Live') = Cardinality(Live) - 1
    BY <2>1, <1>2, Counts, OneLess
  <2>3. QED
    BY <2>1, <2>2, <1>4, Counts DEF IInv, CountInv, NamesInv
<1>7. \A v \in Workers : pc[v] # "last"
  <2>1. active_workers = 1 => Live = {s}
    BY <1>2, Counts
  <2>2. QED
    BY <2>1, <1>1 DEF IInv, WorkerInv, Holding, Live
<1>8. WorkerInv'
  BY <1>1, <1>3, <1>4, <1>7 DEF IInv, TypeOK, WorkerInv, Holding
<1>9. FrameInv' /\ UniqueInv'
  <2>1. CASE active_workers = 1
    <3>1. /\ next_frame' = [next_frame EXCEPT ![W0] = exit_frame]
          /\ active_workers' = 0 /\ exit_frame \in {Root, NULL}
      BY <2>1, <1>1, <1>4 DEF Decrement, IInv, TypeOK
    <3>2. /\ \A v \in Workers : next_frame[v] = NULL
          /\ \A v \in Workers \ {w} : pc[v] \in {"sched", "join"}
          /\ state[Root] = "over"
      BY <2>1, <1>1, Alone DEF Holding
    <3>3. work[Root] = 0 /\ \A v \in Workers : arg'[v] # Root
      BY <3>2, <1>1 DEF IInv, TypeOK, StrandInv, WorkerInv
    <3>4. FrameInv'
      BY <3>1, <3>2, <3>3, <1>1 DEF IInv, TypeOK, FrameInv
    <3>5. UniqueInv'
      BY <3>1, <3>2, <1>1, <1>3 DEF IInv, TypeOK, UniqueInv, Holding
    <3>6. QED
      BY <3>4, <3>5
  <2>2. CASE active_workers # 1
    <3>1. UNCHANGED next_frame /\ active_workers # 0
      BY <2>2, <1>1, <1>4 DEF Decrement
    <3>2. FrameInv'
      BY <3>1, <1>1, <1>3 DEF IInv, TypeOK, FrameInv
    <3>3. UniqueInv'
      BY <3>1, <1>1, <1>3 DEF IInv, TypeOK, UniqueInv, Holding
    <3>4. QED
      BY <3>2, <3>3
  <2>3. QED
    BY <2>1, <2>2
<1>10. QED
  BY <1>5, <1>6, <1>8, <1>9 DEF IInv

LEMMA JoinStep ==
    ASSUME IInv, NEW w \in Workers, Join(w)
    PROVE  IInv'
<1> USE StrandsAssumption, WorkersAssumption, WorkAssumption
<1>1. PICK c \in Strands :
        /\ pc[w] = "join" /\ arg[w] = c
        /\ LET p == parent[c]
               last == p # NULL /\ state[p] = "sync" /\ Unjoined(p) = {c} IN
           /\ state' = [s \in Strands |->
                          IF s = c THEN "free" ELSE IF last /\ s = p THEN "run" ELSE state[s]]
           /\ next_frame' = IF last THEN [next_frame EXCEPT ![w] = p] ELSE next_frame
        /\ parent' = [parent EXCEPT ![c] = NULL]
        /\ Goto(w, "sched", NULL)
        /\ UNCHANGED <<active_workers, exit_frame, work, waits>>
  BY DEF Join
<1> DEFINE p == parent[c]
           last == p # NULL /\ state[p] = "sync" /\ Unjoined(p) = {c}
<1>2. /\ pc[w] = "join" /\ arg[w] = c
      /\ pc' = [pc EXCEPT ![w] = "sched"] /\ arg' = [arg EXCEPT ![w] = NULL]
      /\ UNCHANGED <<active_workers, exit_frame, work, waits>>
  BY <1>1 DEF Goto
<1>3. /\ state[c] = "joining" /\ c # Root
      /\ \A v \in Workers : next_frame[v] # c /\ (v # w => arg[v] # c)
  <2>1. state[c] = "joining" /\ c # Root
    BY <1>2 DEF IInv, WorkerInv, StrandInv
  <2>2. \A v \in Workers : next_frame[v] # c
    BY <1>2 DEF IInv, TypeOK, FrameInv
  <2>3. \A v \in Workers : v # w => arg[v] # c
    BY <1>2, <2>1 DEF IInv, TypeOK, Labels, WorkerInv, UniqueInv, Holding
  <2>4. QED
    BY <2>1, <2>2, <2>3
<1>4. parent' \in [Strands -> Strands \cup {NULL}]
  BY <1>1 DEF IInv, TypeOK
<1>5. CASE last
  <2>1. p \in Strands /\ state[p] = "sync" /\ p # c /\ work[p] = 0 /\ p \in Live
    BY <1>3, <1>5 DEF IInv, TypeOK, StrandInv, Live
  <2>2. state' = [[state EXCEPT ![c] = "free"] EXCEPT ![p] = "run"]
    BY <1>1, <1>5, <2>1 DEF IInv, TypeOK
  <2>3. next_frame' = [next_frame EXCEPT ![w] = p]
    BY <1>1, <1>5
  <2>4. active_workers # 0
    BY <2>1, Counts
  <2> HIDE DEF p
  <2>5. \A v \in Workers : arg[v] # p /\ next_frame[v] # p
    BY <2>1 DEF IInv, TypeOK, Labels, StrandInv, WorkerInv, FrameInv, Holding
  <2>6. TypeOK' /\ StrandInv'
    BY <1>2, <1>3, <1>4, <2>1, <2>2, <2>3 DEF IInv, TypeOK, States, Labels, StrandInv
  <2>7. Live' = Live /\ Free' = Free \cup {c} /\ c \notin Free /\ Splitting' = Splitting
    BY <1>2, <1>3, <2>1, <2>2 DEF IInv, TypeOK, Live, Free, Splitting
  <2>8. CountInv' /\ NamesInv'
    BY <1>2, <2>7, Counts, OneMore DEF IInv, CountInv, NamesInv
  <2>9. WorkerInv'
    BY <1>2, <1>3, <2>1, <2>2, <2>5 DEF IInv, TypeOK, WorkerInv, Holding
  <2>10. FrameInv'
    BY <1>2, <1>3, <2>1, <2>2, <2>3, <2>4, <2>5 DEF IInv, TypeOK, FrameInv
  <2>11. UniqueInv'
    BY <1>2, <2>1, <2>3, <2>5 DEF IInv, TypeOK, UniqueInv, Holding
  <2>12. QED
    BY <2>6, <2>8, <2>9, <2>10, <2>11 DEF IInv
<1>6. CASE ~last
  <2>1. state' = [state EXCEPT ![c] = "free"] /\ UNCHANGED next_frame
    BY <1>1, <1>6 DEF IInv, TypeOK
  <2>2. TypeOK' /\ StrandInv'
    BY <1>2, <1>3, <1>4, <2>1 DEF IInv, TypeOK, States, Labels, StrandInv
  <2>3. Live' = Live /\ Free' = Free \cup {c} /\ c \notin Free /\ Splitting' = Splitting
    BY <1>2, <1>3, <2>1 DEF IInv, TypeOK, Live, Free, Splitting
  <2>4. CountInv' /\ NamesInv'
    BY <1>2, <2>3, Counts, OneMore DEF IInv, CountInv, NamesInv
  <2>5. WorkerInv'
    BY <1>2, <1>3, <2>1 DEF IInv, TypeOK, WorkerInv, Holding
  <2>6. FrameInv'
    BY <1>2, <1>3, <2>1 DEF IInv, TypeOK, FrameInv
  <2>7. UniqueInv'
    BY <1>2, <2>1 DEF IInv, TypeOK, UniqueInv, Holding
  <2>8. QED
    BY <2>2, <2>4, <2>5, <2>6, <2>7 DEF IInv
<1>7. QED
  BY <1>5, <1>6

\* A worker that goes on with its strand under another label.
LEMMA PutStep ==
    ASSUME IInv, NEW w \in Workers, Put(w)
    PROVE  IInv'
<1> USE StrandsAssumption, WorkersAssumption, WorkAssumption
<1>1. PICK s \in Strands \ {Root} :
        /\ pc[w] = "run" /\ arg[w] = s /\ work[s] = 0
        /\ pc' = [pc EXCEPT ![w] = "put"] /\ arg' = [arg EXCEPT ![w] = s]
        /\ UNCHANGED <<shared, state, work, parent, waits>>
  BY DEF Put, AtEnd, Running, Goto
<1>2. TypeOK' /\ StrandInv'
  BY <1>1 DEF IInv, TypeOK, Labels, StrandInv, shared
<1>3. CountInv' /\ NamesInv'
  <2>1. Live' = Live /\ Free' = Free /\ Splitting' = Splitting
    BY <1>1 DEF IInv, TypeOK, Live, Free, Splitting
  <2>2. QED
    BY <1>1, <2>1, SameSets DEF shared
<1>4. WorkerInv'
  BY <1>1 DEF IInv, TypeOK, WorkerInv, Holding, shared
<1>5. FrameInv' /\ UniqueInv'
  BY <1>1 DEF IInv, TypeOK, FrameInv, UniqueInv, Holding, shared
<1>6. QED
  BY <1>2, <1>3, <1>4, <1>5 DEF IInv

LEMMA ResumeSuspendedStep ==
    ASSUME IInv, NEW w \in Workers, ResumeSuspended(w)
    PROVE  IInv'
<1> USE StrandsAssumption, WorkersAssumption, WorkAssumption
<1>1. PICK s \in Strands, d \in Strands :
        /\ pc[w] = "put" /\ arg[w] = s
        /\ state[d] = "get" /\ ~Locked(d)
        /\ active_workers' = active_workers - 1
        /\ state' = [state EXCEPT ![d] = "run", ![s] = "free"]
        /\ waits' = [waits EXCEPT ![d] = NULL]
        /\ pc' = [pc EXCEPT ![w] = "run"] /\ arg' = [arg EXCEPT ![w] = d]
        /\ UNCHANGED <<exit_frame, next_frame, work, parent>>
  BY DEF ResumeSuspended, Waiters, Goto
<1>2. state[s] = "run" /\ work[s] = 0 /\ s # Root /\ s # d
  BY <1>1 DEF IInv, WorkerInv, Holding
<1>3. \A v \in Workers : arg[v] # d /\ next_frame[v] # d
  BY <1>1 DEF IInv, TypeOK, Labels, StrandInv, WorkerInv, FrameInv, Holding, Locked, Splitting
<1>4. \A v \in Workers : next_frame[v] # s /\ (v # w => arg[v] # s)
  <2>1. \A v \in Workers : next_frame[v] # s
    BY <1>1 DEF IInv, TypeOK, FrameInv
  <2>2. \A v \in Workers : v # w => arg[v] # s
    BY <1>1, <1>2 DEF IInv, TypeOK, Labels, WorkerInv, UniqueInv, Holding
  <2>3. QED
    BY <2>1, <2>2
<1>5. s \in Live /\ d \in Live /\ s \notin Free
  BY <1>1, <1>2 DEF Live, Free
<1>6. active_workers > 0 /\ active_workers # 1
  <2>1. active_workers > 0 /\ (active_workers = 1 => Live = {s})
    BY <1>5, Counts
  <2>2. QED
    BY <2>1, <1>2, <1>5
<1>7. TypeOK' /\ StrandInv'
  BY <1>1, <1>2, <1>6 DEF IInv, TypeOK, States, Labels, StrandInv
<1>8. CountInv' /\ NamesInv'
  <2>1. Live' = Live \ {s} /\ Free' = Free \cup {s} /\ Splitting' = Splitting
    BY <1>1, <1>2 DEF IInv, TypeOK, Live, Free, Splitting
  <2>2. /\ Cardinality(Live') = Cardinality(Live) - 1
        /\ Cardinality(Free') = Cardinality(Free) + 1
    BY <2>1, <1>5, Counts, OneLess, OneMore
  <2>3. QED
    BY <2>1, <2>2, <1>1, Counts DEF IInv, CountInv, NamesInv
<1>9. WorkerInv'
  BY <1>1, <1>2, <1>3, <1>4, <1>6 DEF IInv, TypeOK, WorkerInv, Holding
<1>10. FrameInv'
  BY <1>1, <1>3, <1>4, <1>6 DEF IInv, TypeOK, FrameInv
<1>11. UniqueInv'
  BY <1>1, <1>3 DEF IInv, TypeOK, UniqueInv, Holding
<1>12. QED
  BY <1>7, <1>8, <1>9, <1>10, <1>11 DEF IInv

LEMMA ReturnFromInitialStep ==
    ASSUME IInv, NEW w \in Workers, ReturnFromInitial(w)
    PROVE  IInv'
<1> USE StrandsAssumption, WorkersAssumption, WorkAssumption
<1> DEFINE label == IF OthersActive(w) THEN "suspend" ELSE "last"
<1>1. /\ pc[w] = "run" /\ arg[w] = Root /\ work[Root] = 0
      /\ pc' = [pc EXCEPT ![w] = label] /\ arg' = [arg EXCEPT ![w] = Root]
      /\ UNCHANGED <<shared, state, work, parent, waits>>
  BY DEF ReturnFromInitial, AtEnd, Running, Goto
<1>2. label = "suspend" \/ (label = "last" /\ w = W0 /\ active_workers = 1)
  <2>1. Root \in Live
    BY <1>1 DEF IInv, WorkerInv, Holding, Live
  <2>2. active_workers > 0 /\ active_workers \in Nat
    BY <2>1, Counts DEF IInv, TypeOK
  <2>3. QED
    BY <2>2 DEF OthersActive
<1> HIDE DEF label
<1>3. TypeOK' /\ StrandInv'
  BY <1>1, <1>2 DEF IInv, TypeOK, Labels, StrandInv, shared
<1>4. CountInv' /\ NamesInv'
  <2>1. Live' = Live /\ Free' = Free /\ Splitting' = Splitting
    BY <1>1, <1>2 DEF IInv, TypeOK, Live, Free, Splitting
  <2>2. QED
    BY <1>1, <2>1, SameSets DEF shared
<1>5. WorkerInv'
  BY <1>1, <1>2 DEF IInv, TypeOK, WorkerInv, Holding, shared
<1>6. FrameInv' /\ UniqueInv'
  BY <1>1, <1>2 DEF IInv, TypeOK, FrameInv, UniqueInv, Holding, shared
<1>7. QED
  BY <1>3, <1>4, <1>5, <1>6 DEF IInv

LEMMA LastOneStep ==
    ASSUME IInv, NEW w \in Workers, LastOne(w)
    PROVE  IInv'
<1> USE StrandsAssumption, WorkersAssumption, WorkAssumption
<1>1. /\ pc[w] = "last" /\ active_workers' = active_workers - 1
      /\ state' = [state EXCEPT ![Root] = "over"]
      /\ pc' = [pc EXCEPT ![w] = "exit"] /\ arg' = [arg EXCEPT ![w] = Root]
      /\ UNCHANGED <<exit_frame, next_frame, work, parent, waits>>
  BY DEF LastOne, Goto
<1>2. w = W0 /\ active_workers = 1 /\ arg[w] = Root /\ state[Root] = "run" /\ work[Root] = 0
  BY <1>1 DEF IInv, WorkerInv, Holding
<1>3. /\ Live = {Root} /\ \A v \in Workers : next_frame[v] = NULL
      /\ \A v \in Workers \ {w} : pc[v] \in {"sched", "join"} /\ arg[v] \notin Live
  BY <1>1, <1>2, Alone DEF Holding
<1>4. TypeOK' /\ StrandInv'
  BY <1>1, <1>2 DEF IInv, TypeOK, Labels, States, StrandInv
<1>5. CountInv' /\ NamesInv'
  <2>1. Live' = Live \ {Root} /\ Root \in Live /\ Free' = Free /\ Splitting' = Splitting
    BY <1>1, <1>2 DEF IInv, TypeOK, Live, Free, Splitting
  <2>2. Cardinality(Live') = Cardinality(Live) - 1
    BY <2>1, Counts, OneLess
  <2>3. QED
    BY <2>1, <2>2, <1>1, Counts DEF IInv, CountInv, NamesInv
<1>6. WorkerInv'
  BY <1>1, <1>2, <1>3 DEF IInv, TypeOK, WorkerInv, Holding
<1>7. FrameInv' /\ UniqueInv'
  BY <1>1, <1>2, <1>3 DEF IInv, TypeOK, FrameInv, UniqueInv, Holding
<1>8. QED
  BY <1>4, <1>5, <1>6, <1>7 DEF IInv

LEMMA SetExitFrameStep ==
    ASSUME IInv, NEW w \in Workers, SetExitFrame(w)
    PROVE  IInv'
<1> USE StrandsAssumption, WorkersAssumption, WorkAssumption
<1>1. /\ pc[w] = "suspend" /\ exit_frame' = Root
      /\ pc' = [pc EXCEPT ![w] = "decrement"] /\ arg' = [arg EXCEPT ![w] = Root]
      /\ UNCHANGED <<active_workers, next_frame, state, work, parent, waits>>
  BY DEF SetExitFrame, Goto
<1>2. arg[w] = Root
  BY <1>1 DEF IInv, WorkerInv
<1>3. TypeOK' /\ StrandInv'
  BY <1>1 DEF IInv, TypeOK, Labels, StrandInv
<1>4. CountInv' /\ NamesInv'
  <2>1. Live' = Live /\ Free' = Free /\ Splitting' = Splitting
    BY <1>1 DEF IInv, TypeOK, Live, Free, Splitting
  <2>2. QED
    BY <1>1, <2>1, SameSets
<1>5. WorkerInv'
  BY <1>1, <1>2 DEF IInv, TypeOK, WorkerInv, Holding
<1>6. FrameInv' /\ UniqueInv'
  BY <1>1, <1>2 DEF IInv, TypeOK, FrameInv, UniqueInv, Holding
<1>7. QED
  BY <1>3, <1>4, <1>5, <1>6 DEF IInv

LEMMA DecrementInitialStep ==
    ASSUME IInv, NEW w \in Workers, DecrementInitial(w)
    PROVE  IInv'
<1> USE StrandsAssumption, WorkersAssumption, WorkAssumption
<1>1. /\ pc[w] = "decrement" /\ Decrement
      /\ state' = [state EXCEPT ![Root] = "over"]
      /\ pc' = [pc EXCEPT ![w] = "sched"] /\ arg' = [arg EXCEPT ![w] = NULL]
      /\ UNCHANGED <<exit_frame, work, parent, waits>>
  BY DEF DecrementInitial, Goto
<1>2. /\ arg[w] = Root /\ state[Root] = "run" /\ work[Root] = 0 /\ exit_frame = Root
      /\ Root \in Live
  BY <1>1 DEF IInv, WorkerInv, Holding, Live
<1>3. \A v \in Workers : next_frame[v] # Root /\ (v # w => arg[v] # Root)
  <2>1. \A v \in Workers : next_frame[v] # Root
    BY <1>2 DEF IInv, TypeOK, FrameInv
  <2>2. \A v \in Workers : v # w => arg[v] # Root
    BY <1>1, <1>2 DEF IInv, TypeOK, Labels, WorkerInv, UniqueInv, Holding
  <2>3. QED
    BY <2>1, <2>2
<1>4. active_workers > 0 /\ active_workers' = active_workers - 1
  BY <1>1, <1>2, Counts DEF Decrement
<1>5. TypeOK' /\ StrandInv'
  BY <1>1, <1>2, <1>4 DEF IInv, TypeOK, States, Labels, StrandInv, Decrement
<1>6. CountInv' /\ NamesInv'
  <2>1. Live' = Live \ {Root} /\ Free' = Free /\ Splitting' = Splitting
    BY <1>1, <1>2 DEF IInv, TypeOK, Live, Free, Splitting
  <2>2. Cardinality(Live') = Cardinality(Live) - 1
    BY <2>1, <1>2, Counts, OneLess
  <2>3. QED
    BY <2>1, <2>2, <1>4, Counts DEF IInv, CountInv, NamesInv
<1>7. \A v \in Workers : pc[v] # "last"
  BY <1>1, <1>3 DEF IInv, WorkerInv
<1>8. WorkerInv'
  BY <1>1, <1>3, <1>4, <1>7 DEF IInv, TypeOK, WorkerInv, Holding
<1>9. FrameInv' /\ UniqueInv'
  <2>1. CASE active_workers = 1
    <3>1. next_frame' = [next_frame EXCEPT ![W0] = Root] /\ active_workers' = 0
      BY <2>1, <1>1, <1>2, <1>4 DEF Decrement
    <3>2. /\ \A v \in Workers : next_frame[v] = NULL
          /\ \A v \in Workers \ {w} : pc[v] \in {"sched", "join"}
      BY <2>1, <1>1, Alone DEF Holding
    <3>3. FrameInv'
      BY <3>1, <3>2, <1>1, <1>2, <1>3 DEF IInv, TypeOK, FrameInv
    <3>4. UniqueInv'
      BY <3>1, <3>2, <1>1, <1>3 DEF IInv, TypeOK, UniqueInv, Holding
    <3>5. QED
      BY <3>3, <3>4
  <2>2. CASE active_workers # 1
    <3>1. UNCHANGED next_frame /\ active_workers # 0
      BY <2>2, <1>1, <1>4 DEF Decrement
    <3>2. FrameInv'
      BY <3>1, <1>1, <1>3 DEF IInv, TypeOK, FrameInv
    <3>3. UniqueInv'
      BY <3>1, <1>1, <1>3 DEF IInv, TypeOK, UniqueInv, Holding
    <3>4. QED
      BY <3>2, <3>3
  <2>3. QED
    BY <2>1, <2>2
<1>10. QED
  BY <1>5, <1>6, <1>8, <1>9 DEF IInv

\* With worker 0 outside of Cilk nobody has a strand.
LEMMA ExitStep ==
    ASSUME IInv, NEW w \in Workers, Exit(w)
    PROVE  IInv'
<1> USE StrandsAssumption, WorkersAssumption, WorkAssumption
<1>1. /\ pc[w] = "exit" /\ exit_frame' = NULL
      /\ pc' = [pc EXCEPT ![w] = "out"] /\ arg' = [arg EXCEPT ![w] = NULL]
      /\ UNCHANGED <<active_workers, next_frame, state, work, parent, waits>>
  BY DEF Exit, Goto
<1>2. w = W0 /\ active_workers = 0 /\ state[Root] = "over" /\ Live = {}
  BY <1>1, Counts DEF IInv, WorkerInv
<1>3. \A v \in Workers : pc[v] # "decrement"
  BY <1>2 DEF IInv, WorkerInv, Holding
<1>4. \A v \in Workers : next_frame[v] = NULL
  BY <1>1, <1>2 DEF IInv, TypeOK, FrameInv, Live
<1>5. TypeOK' /\ StrandInv'
  BY <1>1 DEF IInv, TypeOK, Labels, StrandInv
<1>6. CountInv' /\ NamesInv'
  <2>1. Live' = Live /\ Free' = Free /\ Splitting' = Splitting
    BY <1>1 DEF IInv, TypeOK, Live, Free, Splitting
  <2>2. QED
    BY <1>1, <2>1, SameSets
<1>7. WorkerInv'
  BY <1>1, <1>2, <1>3 DEF IInv, TypeOK, WorkerInv, Holding
<1>8. FrameInv' /\ UniqueInv'
  BY <1>1, <1>4 DEF IInv, TypeOK, FrameInv, UniqueInv, Holding
<1>9. QED
  BY <1>5, <1>6, <1>7, <1>8 DEF IInv

LEMMA EnterStep ==
    ASSUME IInv, NEW w \in Workers, Enter(w)
    PROVE  IInv'
<1> USE StrandsAssumption, WorkersAssumption, WorkAssumption
<1>1. /\ pc[w] = "out" /\ active_workers' = 1
      /\ state' = [state EXCEPT ![Root] = "run"]
      /\ pc' = [pc EXCEPT ![w] = "run"] /\ arg' = [arg EXCEPT ![w] = Root]
      /\ UNCHANGED <<exit_frame, next_frame, work, parent, waits>>
  BY DEF Enter, Goto
<1>2. w = W0 /\ active_workers = 0 /\ state[Root] = "over" /\ Live = {} /\ Splitting = {}
  BY <1>1, Counts DEF IInv, WorkerInv
<1>3. \A v \in Workers : next_frame[v] = NULL /\ (v # w => pc[v] \in {"sched", "join"})
  <2>1. \A v \in Workers : next_frame[v] = NULL
    BY <1>1, <1>2 DEF IInv, TypeOK, FrameInv, Live
  <2>2. ASSUME NEW v \in Workers, v # w PROVE pc[v] \in {"sched", "join"}
    <3>1. pc[v] \notin {"detach", "exit", "out"}
      BY <1>2, <2>2 DEF IInv, WorkerInv, Splitting
    <3>2. pc[v] \notin Holding \ {"join"}
      BY <1>2 DEF IInv, WorkerInv, Live, Holding
    <3>3. QED
      BY <3>1, <3>2 DEF IInv, TypeOK, Labels, Holding
  <2>3. QED
    BY <2>1, <2>2
<1>4. TypeOK' /\ StrandInv'
  BY <1>1, <1>2 DEF IInv, TypeOK, Labels, States, StrandInv
<1>5. CountInv' /\ NamesInv'
  <2>1. Live' = {Root} /\ Free' = Free /\ Splitting' = {}
    BY <1>1, <1>2, <1>3 DEF IInv, TypeOK, Live, Free, Splitting
  <2>2. Cardinality(Live') = 1 /\ Cardinality(Splitting') = 0
    BY <2>1, FS_Singleton, FS_EmptySet
  <2>3. QED
    BY <2>1, <2>2, <1>1, Counts DEF CountInv, NamesInv
<1>6. WorkerInv'
  BY <1>1, <1>2, <1>3 DEF IInv, TypeOK, WorkerInv, StrandInv, Holding
<1>7. FrameInv'
  BY <1>1, <1>3 DEF IInv, TypeOK, FrameInv
<1>8. UniqueInv'
  BY <1>1, <1>2, <1>3 DEF IInv, TypeOK, UniqueInv, WorkerInv, Holding
<1>9. QED
  BY <1>4, <1>5, <1>6, <1>7, <1>8 DEF IInv

-----------------------------------------------------------------------------
LEMMA StutterStep ==
    ASSUME IInv, UNCHANGED vars
    PROVE  IInv'
<1>1. CountInv' /\ NamesInv'
  BY SameSets DEF vars, Live, Splitting, Free
<1>2. QED
  BY <1>1 DEF IInv, TypeOK, StrandInv, WorkerInv, FrameInv, UniqueInv, vars

LEMMA Step ==
    ASSUME IInv, [Next]_vars
    PROVE  IInv'
<1>1. ASSUME NEW w \in Workers, Runtime(w) PROVE IInv'
  BY <1>1, DetachStep, PopNextFrameStep, JoinStep, MakeResumableStep, ResumeSuspendedStep,
     LastOneStep, SetExitFrameStep, DecrementInitialStep, ExitStep
  DEF Runtime
<1>2. ASSUME NEW w \in Workers, User(w) PROVE IInv'
  BY <1>2, PushStep, PopStep, GetStep, SyncStep, EndStep, PutStep, ReturnFromInitialStep,
     EnterStep
  DEF User
<1>3. ASSUME NEW w \in Workers, Steal(w) \/ FailToSteal(w) \/ Resume(w) PROVE IInv'
  BY <1>3, StealStep, StutterStep, ResumeStep DEF FailToSteal
<1>4. QED
  BY <1>1, <1>2, <1>3, CompleteStep, StutterStep DEF Next

-----------------------------------------------------------------------------
\* The inductive invariant holds of every behaviour.
THEOREM Invariance == Spec => []IInv
<1>1. IInv /\ [Next]_vars => IInv'
  BY Step
<1>2. QED
  BY InitStep, <1>1, PTL DEF Spec

\* Every variable keeps its type: active_workers in particular never drops
\* below zero, however ends and steals interleave.
THEOREM TypeCorrect == Spec => []TypeOK
<1>1. IInv => TypeOK
  BY DEF IInv
<1>2. QED
  BY <1>1, Invariance, PTL

\* The count is exact: it is the number of strands that have not ended, the
\* ones being split counted twice (cilkg_increment_active_workers before the
\* steal, cilkg_decrement_active_workers at each end).
THEOREM CountExact == Spec => []CountInv
<1>1. IInv => CountInv
  BY DEF IInv
<1>2. QED
  BY <1>1, Invariance, PTL

\* The user's thread leaves Cilk as worker 0 and only when no strand is left,
\* for any number of workers, strands and futures.
THEOREM ExitsLastTheorem == Spec => []ExitsLast
<1>1. IInv => ExitsLast
  BY Counts DEF IInv, WorkerInv, ExitsLast
<1>2. QED
  BY <1>1, Invariance, PTL

-----------------------------------------------------------------------------
(***************************************************************************)
(* Runtime: the settings                                                   *)
(***************************************************************************)

\* The settings have their types, whoever set them.
Globals ==
    [P : 1..(16 * Cpus), max_user_workers : Nat, force_reduce : Nat, fiber_pool_size : Nat,
     global_fiber_pool_size : Nat, max_stacks : Nat, max_steal_failures : Nat \ {0},
     stack_size : Nat, ped_seed : Nat, total_workers : Nat]

LEMMA DefaultsAre == defaults \in Globals
  BY CpusAssumption DEF defaults, Globals

LEMMA Stores ==
    ASSUME NEW out, NEW value, NEW lo \in Nat, NEW hi \in Nat
    PROVE  store_int(out, value, lo, hi).out \in (lo..hi) \cup {out}
  BY DEF store_int

LEMMA StoresBool ==
    ASSUME NEW out, NEW value PROVE store_bool(out, value).out \in {0, 1, out}
  BY DEF store_bool

LEMMA EnvironmentGives ==
    ASSUME NEW env PROVE get_user_settable_values(env) \in Globals
<1> USE CpusAssumption
<1> DEFINE g0 == IF env.force_reduce = Unset THEN defaults
                 ELSE [defaults EXCEPT !.force_reduce = store_bool(@, env.force_reduce).out]
           g1 == getenv(g0, "P", env.nworkers, 1, 16 * Cpus)
           g2 == getenv(g1, "max_user_workers", env.max_user_workers, 1, 16 * Cpus)
           g3 == getenv(g2, "max_steal_failures", env.steal_failures, 1, INT_MAX)
<1>1. g0 \in Globals
  <2>1. store_bool(defaults.force_reduce, env.force_reduce).out \in Nat
    BY StoresBool, DefaultsAre DEF Globals
  <2>2. QED
    BY <2>1, DefaultsAre DEF Globals
<1>2. g1 \in Globals
  <2>1. store_int(g0["P"], env.nworkers, 1, 16 * Cpus).out \in 1..(16 * Cpus)
    <3> HIDE DEF g0
    <3>1. 1 \in Nat /\ 16 * Cpus \in Nat
      OBVIOUS
    <3>2. g0["P"] \in 1..(16 * Cpus)
      BY <1>1 DEF Globals
    <3>3. QED
      BY <3>1, <3>2, Stores
  <2> HIDE DEF g0
  <2>2. QED
    BY <1>1, <2>1 DEF Globals, getenv
<1>3. g2 \in Globals
  <2> HIDE DEF g1
  <2>1. store_int(g1["max_user_workers"], env.max_user_workers, 1, 16 * Cpus).out \in Nat
    <3>1. 1 \in Nat /\ 16 * Cpus \in Nat
      OBVIOUS
    <3>2. g1["max_user_workers"] \in Nat
      BY <1>2 DEF Globals
    <3>3. QED
      BY <3>1, <3>2, Stores
  <2>2. QED
    BY <1>2, <2>1 DEF Globals, getenv
<1>4. g3 \in Globals
  <2> HIDE DEF g2
  <2>1. store_int(g2["max_steal_failures"], env.steal_failures, 1, INT_MAX).out \in Nat \ {0}
    <3>1. 1 \in Nat /\ INT_MAX \in Nat
      OBVIOUS
    <3>2. g2["max_steal_failures"] \in Nat \ {0}
      BY <1>3 DEF Globals
    <3>3. QED
      BY <3>1, <3>2, Stores
  <2>2. QED
    BY <1>3, <2>1 DEF Globals, getenv
<1>5. get_user_settable_values(env) = [g3 EXCEPT !.total_workers = calc_total_workers(g3)]
  BY DEF get_user_settable_values
<1> HIDE DEF g3
<1>6. calc_total_workers(g3) \in Nat
  BY <1>4 DEF calc_total_workers, calc_max_user_workers, Globals
<1>7. QED
  BY <1>4, <1>5, <1>6 DEF Globals

LEMMA WholePages ==
    ASSUME NEW size \in Nat
    PROVE  LET s == cilkos_validate_stack_size(size)
           IN s \in Nat /\ s >= CILK_MIN_STACK_SIZE /\ s % PAGE = 0
<1> USE StackAssumption
<1>1. CASE size > CILK_MIN_STACK_SIZE /\ size % PAGE > 0
  <2>0. PAGE \in Nat /\ PAGE > 0
    OBVIOUS
  <2>1. PICK k \in Nat : k = 1 + size \div PAGE
    <3>1. size \div PAGE \in Nat
      BY ONLY <2>0, size \in Nat
    <3>2. QED
      BY <3>1
  <2>2. PAGE * k \in Nat /\ PAGE * k > size
    <3>1. size < PAGE * (size \div PAGE) + PAGE
      BY ONLY <2>0, size \in Nat
    <3>2. PAGE * k = PAGE * (size \div PAGE) + PAGE
      BY <2>0, <2>1
    <3>3. PAGE * k \in Nat
      BY ONLY <2>0, k \in Nat
    <3>4. QED
      BY <3>1, <3>2, <3>3
  <2>3. (PAGE * k) % PAGE = 0
    BY ONLY <2>0, k \in Nat
  <2>4. cilkos_validate_stack_size(size) = PAGE * k
    BY <1>1, <2>1 DEF cilkos_validate_stack_size
  <2>5. QED
    BY <1>1, <2>2, <2>3, <2>4
<1>2. CASE ~(size > CILK_MIN_STACK_SIZE /\ size % PAGE > 0)
  <2>1. size % PAGE \in Nat
    OBVIOUS
  <2>2. QED
    BY <1>2, <2>1 DEF cilkos_validate_stack_size
<1>3. QED
  BY <1>1, <1>2

\* Once the state is published only settings that nothing else depends on change.
LEMMA SetParamGives ==
    ASSUME NEW G \in Globals, NEW done \in BOOLEAN, NEW param, NEW value
    PROVE  LET H == set_param_imp(G, done, param, value).g
           IN /\ H \in Globals
              /\ done => /\ H.P = G.P /\ H.max_stacks = G.max_stacks /\ H.stack_size = G.stack_size
                         /\ H.total_workers = G.total_workers
                         /\ H.max_steal_failures = G.max_steal_failures
<1> USE CpusAssumption
<1>0. PICK H : H = set_param_imp(G, done, param, value).g
  OBVIOUS
<1>1. CASE param = "force reduce"
  <2>1. store_bool(G.force_reduce, value).out \in Nat
    BY StoresBool DEF Globals
  <2>2. H = [G EXCEPT !.force_reduce = store_bool(G.force_reduce, value).out]
    BY <1>0, <1>1 DEF set_param_imp, Stored
  <2>3. QED
    BY <1>0, <2>1, <2>2 DEF Globals
<1>2. CASE param = "max user workers"
  <2>1. store_int(G.max_user_workers, value, 1, 16 * Cpus).out \in Nat
    BY Stores DEF Globals
  <2>2. H = [G EXCEPT !.max_user_workers = store_int(G.max_user_workers, value, 1, 16 * Cpus).out]
    BY <1>0, <1>2 DEF set_param_imp, Stored
  <2>3. QED
    BY <1>0, <2>1, <2>2 DEF Globals
<1>3. CASE param = "local stacks"
  <2>1. store_int(G.fiber_pool_size, value, 0, 128).out \in Nat
    BY Stores DEF Globals
  <2>2. H = [G EXCEPT !.fiber_pool_size = store_int(G.fiber_pool_size, value, 0, 128).out]
    BY <1>0, <1>3 DEF set_param_imp, Stored
  <2>3. QED
    BY <1>0, <2>1, <2>2 DEF Globals
<1>4. CASE param = "shared stacks"
  <2>1. store_int(G.global_fiber_pool_size, value, 0, 128).out \in Nat
    BY Stores DEF Globals
  <2>2. H = [G EXCEPT !.global_fiber_pool_size =
                          store_int(G.global_fiber_pool_size, value, 0, 128).out]
    BY <1>0, <1>4 DEF set_param_imp, Stored
  <2>3. QED
    BY <1>0, <2>1, <2>2 DEF Globals
<1>5. CASE param = "nworkers" /\ ~done
  <2>1. PICK s : s = store_int(G.P, value, 0, 16 * Cpus)
    OBVIOUS
  <2>2. PICK n \in 1..(16 * Cpus) : n = IF s.out = 0 THEN Cpus ELSE s.out
    <3>1. s.out \in 0..(16 * Cpus)
      BY <2>1, Stores DEF Globals
    <3>2. QED
      BY <3>1
  <2>3. H = [G EXCEPT !.P = n]
    <3>1. "out" \in DOMAIN s
      BY <2>1 DEF store_int
    <3>2. [s EXCEPT !.out = IF @ = 0 THEN Cpus ELSE @].out = n
      BY <2>2, <3>1
    <3>3. QED
      BY <1>0, <1>5, <2>1, <3>2 DEF set_param_imp, Stored, set_nworkers
  <2>4. QED
    BY <1>0, <1>5, <2>3 DEF Globals
<1>6. CASE param = "nstacks" /\ ~done
  <2>1. store_int(G.max_stacks, value, 0, INT_MAX).out \in Nat
    BY Stores DEF Globals
  <2>2. H = [G EXCEPT !.max_stacks = store_int(G.max_stacks, value, 0, INT_MAX).out]
    BY <1>0, <1>6 DEF set_param_imp, Stored
  <2>3. QED
    BY <1>0, <1>6, <2>1, <2>2 DEF Globals
<1>7. CASE param = "stack size" /\ ~done
  <2>1. PICK s : s = store_int(G.stack_size, value, 0, INT_MAX)
    OBVIOUS
  <2>2. PICK n \in Nat : n = cilkos_validate_stack_size(s.out)
    <3>1. s.out \in Nat
      BY <2>1, Stores DEF Globals
    <3>2. QED
      BY <3>1, WholePages
  <2>3. H = [G EXCEPT !.stack_size = n]
    <3>1. "out" \in DOMAIN s
      BY <2>1 DEF store_int
    <3>2. [s EXCEPT !.out = cilkos_validate_stack_size(@)].out = n
      BY <2>2, <3>1
    <3>3. QED
      BY <1>0, <1>7, <2>1, <3>2 DEF set_param_imp, Stored, set_stack_size
  <2>4. H \in Globals
    <3>1. G \in Globals /\ n \in Nat
      OBVIOUS
    <3>2. QED
      BY ONLY <2>3, <3>1 DEF Globals
  <2>5. QED
    BY <1>0, <1>7, <2>4
<1>8. CASE param = "ped seed" /\ ~done
  <2>1. store_int(G.ped_seed, value, 0, INT_MAX).out \in Nat
    BY Stores DEF Globals
  <2>2. H = [G EXCEPT !.ped_seed = store_int(G.ped_seed, value, 0, INT_MAX).out]
    BY <1>0, <1>8 DEF set_param_imp, Stored
  <2>3. H \in Globals
    <3>1. G \in Globals
      OBVIOUS
    <3>2. QED
      BY ONLY <2>1, <2>2, <3>1 DEF Globals
  <2>4. QED
    BY <1>0, <1>8, <2>3
<1>9. CASE /\ param \notin {"force reduce", "max user workers", "local stacks", "shared stacks"}
           /\ done \/ param \notin {"nworkers", "nstacks", "stack size", "ped seed"}
  <2>1. H = G
    BY <1>0, <1>9 DEF set_param_imp, Refused
  <2>2. QED
    BY <1>0, <2>1
<1>10. QED
  BY <1>1, <1>2, <1>3, <1>4, <1>5, <1>6, <1>7, <1>8, <1>9

\* init_workers makes the pools of fibers as large as the settings say then.
SizesIn(G) == [worker |-> G.fiber_pool_size, shared |-> G.global_fiber_pool_size]

\* What init_global_state makes of any settings fits together, and so do the pools.
LEMMA InitGives ==
    ASSUME NEW G \in Globals
    PROVE  /\ init_global_state(G) \in Globals
           /\ Usable(init_global_state(G), SizesIn(init_global_state(G)))
           /\ init_global_state(G).P = G.P
<1> USE CpusAssumption
<1>1. PICK p \in 1..(16 * Cpus), m \in Nat, f \in Nat :
          p = G.P /\ m = G.max_stacks /\ f = G.fiber_pool_size
  BY DEF Globals
<1>2. PICK q : q = m \div p
  OBVIOUS
<1>3. q \in Nat /\ q <= m
  <2>1. p \in Nat /\ p >= 1
    OBVIOUS
  <2>2. q \in Nat /\ m = p * q + (m % p) /\ m % p \in Nat
    BY <1>2, <2>1
  <2>3. p * q >= q
    BY <2>1, <2>2
  <2>4. QED
    BY <2>2, <2>3
<1>4. PICK each : each = AtLeast(AtMost(f, q), 1)
  OBVIOUS
<1>5. each \in Nat /\ each >= 1 /\ (each <= m \/ each = 1)
  BY <1>3, <1>4 DEF AtLeast, AtMost
<1>6. PICK S : S = share_stacks(G)
  OBVIOUS
<1>7. /\ S \in Globals /\ S.P = p /\ S.max_steal_failures = G.max_steal_failures
      /\ S.max_stacks > 0 => /\ S.max_stacks >= p /\ S.fiber_pool_size \in 1..S.max_stacks
                             /\ S.global_fiber_pool_size >= p * S.fiber_pool_size
  <2>1. CASE m = 0
    <3>1. S = G
      BY <1>1, <1>6, <2>1 DEF share_stacks
    <3>2. S.max_stacks = 0
      BY <1>1, <2>1, <3>1
    <3>3. ~(S.max_stacks > 0)
      BY <3>2
    <3>4. QED
      BY <1>1, <3>1, <3>3
  <2>2. CASE m # 0
    <3>1. S = [G EXCEPT !.fiber_pool_size = each, !.max_stacks = AtLeast(m, p),
                        !.global_fiber_pool_size = p * (each + 1)]
      BY <1>1, <1>2, <1>4, <1>6, <2>2 DEF share_stacks
    <3>2. PICK n \in Nat : n = p * (each + 1) /\ n >= p * each
      <4>1. p * (each + 1) = p * each + p /\ p * each \in Nat
        BY <1>5
      <4>2. QED
        BY <4>1
    <3>3. PICK t \in Nat : t = AtLeast(m, p) /\ t >= p /\ t >= m
      BY DEF AtLeast
    <3>4. each \in 1..t
      BY <1>5, <3>3
    <3>5. S = [G EXCEPT !.fiber_pool_size = each, !.max_stacks = t, !.global_fiber_pool_size = n]
      BY <3>1, <3>2, <3>3
    <3>6. /\ S \in Globals /\ S.P = p /\ S.max_steal_failures = G.max_steal_failures
          /\ S.max_stacks = t /\ S.fiber_pool_size = each /\ S.global_fiber_pool_size = n
      BY <1>1, <1>5, <3>5 DEF Globals
    <3>7. QED
      BY <3>2, <3>3, <3>4, <3>6
  <2>3. QED
    BY <2>1, <2>2
<1>8. PICK k \in Nat : /\ k = cilkos_validate_stack_size(S.stack_size)
                       /\ k >= CILK_MIN_STACK_SIZE /\ k % PAGE = 0
  BY <1>7, WholePages DEF Globals
<1>9. PICK R : R = init_global_state(G)
  OBVIOUS
<1>10. R = [S EXCEPT !.total_workers = p, !.stack_size = k]
  <2>1. calc_total_workers(G) = p
    BY <1>1 DEF calc_total_workers, calc_max_user_workers
  <2>2. R = [S EXCEPT !.total_workers = p, !.stack_size = cilkos_validate_stack_size(@)]
    BY <1>6, <1>9, <2>1 DEF init_global_state
  <2>3. QED
    BY <1>7, <1>8, <2>2 DEF Globals
<1>11. /\ R \in Globals /\ R.P = S.P /\ R.max_stacks = S.max_stacks /\ R.total_workers = p
       /\ R.fiber_pool_size = S.fiber_pool_size /\ R.stack_size = k
       /\ R.global_fiber_pool_size = S.global_fiber_pool_size
       /\ R.max_steal_failures = S.max_steal_failures /\ R.max_steal_failures >= 1
  <2>1. p \in Nat
    OBVIOUS
  <2>2. R = [S EXCEPT !.total_workers = p, !.stack_size = k] /\ S \in Globals
    BY <1>7, <1>10
  <2>3. R \in Globals
    BY ONLY <2>1, <2>2, k \in Nat DEF Globals
  <2>4. /\ R.P = S.P /\ R.max_stacks = S.max_stacks /\ R.total_workers = p
        /\ R.fiber_pool_size = S.fiber_pool_size /\ R.stack_size = k
        /\ R.global_fiber_pool_size = S.global_fiber_pool_size
        /\ R.max_steal_failures = S.max_steal_failures
    BY ONLY <2>1, <2>2, k \in Nat DEF Globals
  <2>5. R.max_steal_failures \in Nat \ {0}
    BY ONLY <2>3 DEF Globals
  <2>6. QED
    BY <2>3, <2>4, <2>5
<1>12. Usable(R, SizesIn(R))
  BY <1>7, <1>8, <1>11 DEF Usable, SizesIn
<1>13. QED
  BY <1>1, <1>7, <1>9, <1>11, <1>12

-----------------------------------------------------------------------------
(* The start *)

RuntimeTypes ==
    /\ g \in Globals /\ g.P <= MaxP
    /\ published \in BOOLEAN /\ workers_running \in BOOLEAN
    /\ threads \in [SysWorkers -> Nat]
    /\ where \in [Actors -> ThreadLabels \cup WorkerLabels]
    /\ todo = [a \in Actors |-> todo[a]]

\* The workers below k have been started, once.
Created(k) == \A w \in SysWorkers : threads[w] = IF w < k THEN 1 ELSE 0

\* t is about to create workers k to P - 1.
Creates(t, k) ==
    /\ k \in 1..g.P /\ Created(k)
    /\ todo[t] \in Seq({"create"} \X Nat) /\ Len(todo[t]) = g.P - k
    /\ \A i \in 1..(g.P - k) : todo[t][i] = <<"create", k + i - 1>>

HoldingMutex == {"publish", "create", "enter", "ending"}
Inside == {"enter", "in", "paused", "resuming", "overflow"}
Started == {"create", "bindlock"} \cup Inside
Ready == {"start", "startlock"} \cup Started

\* The label of a thread says what it has seen done.
ThreadInv(t) ==
    /\ where[t] \in HoldingMutex => mutex = t
    /\ where[t] \in Ready => published
    /\ where[t] \in Started => workers_running
    /\ where[t] = "publish" => ~published
    /\ where[t] = "create" => \E k \in 1..g.P : Creates(t, k)
    /\ where[t] \in Inside => \A u \in Threads : where[u] # "create"

\* The workers are created by the one thread that sets workers_running.
StartInv ==
    /\ \A t \in Threads : ThreadInv(t)
    /\ workers_running => published
    /\ ~workers_running => Created(1)
    /\ workers_running /\ (\A t \in Threads : where[t] # "create") => Created(g.P)

RuntimeInv == RuntimeTypes /\ StartInv

LEMMA ApartIs ==
    /\ Threads \subseteq Actors /\ SysWorkers \subseteq Actors
    /\ \A t \in Threads, w \in SysWorkers : t # w
  BY ThreadsAssumption, BoundsAssumption DEF Actors, SysWorkers

\* Steps that leave the start alone.
LEMMA WorkersKeep ==
    ASSUME RuntimeInv, UNCHANGED <<g, published, workers_running, threads, mutex>>,
           where' \in [Actors -> ThreadLabels \cup WorkerLabels],
           todo' = [a \in Actors |-> todo'[a]],
           \A t \in Threads : where'[t] = where[t] /\ todo'[t] = todo[t]
    PROVE  RuntimeInv'
<1>1. RuntimeTypes'
  BY DEF RuntimeInv, RuntimeTypes
<1>2. \A k : Created(k)' <=> Created(k)
  BY DEF Created
<1>3. \A t \in Threads : \A k : Creates(t, k)' <=> Creates(t, k)
  BY <1>2 DEF Creates
<1>4. \A t \in Threads : ThreadInv(t)'
  BY <1>3 DEF RuntimeInv, StartInv, ThreadInv
<1>5. StartInv'
  BY <1>2, <1>4 DEF RuntimeInv, StartInv
<1>6. QED
  BY <1>1, <1>5 DEF RuntimeInv

\* Thread t goes on to label b, and neither creates workers nor initialises.
Moves(t, b) ==
    /\ UNCHANGED <<g, published, workers_running, threads>>
    /\ where' = [where EXCEPT ![t] = b] /\ b \in ThreadLabels
    /\ todo' = [a \in Actors |-> todo'[a]] /\ \A u \in Threads \ {t} : todo'[u] = todo[u]
    /\ {where[t], b} \cap {"create", "publish"} = {}
    /\ b \in HoldingMutex => mutex' = t
    /\ \A u \in Threads \ {t} : mutex = u => mutex' = u
    /\ b \in Ready => published
    /\ b \in Started => workers_running
    /\ b \in Inside => \A u \in Threads : where[u] # "create"

LEMMA ThreadMoves ==
    ASSUME RuntimeInv, NEW t \in Threads, NEW b, Moves(t, b) PROVE RuntimeInv'
<1>1. /\ where' \in [Actors -> ThreadLabels \cup WorkerLabels] /\ where'[t] = b
      /\ \A u \in Threads \ {t} : where'[u] = where[u]
  BY ApartIs DEF RuntimeInv, RuntimeTypes, Moves
<1>2. RuntimeTypes'
  BY <1>1 DEF RuntimeInv, RuntimeTypes, Moves
<1>3. \A k : Created(k)' <=> Created(k)
  BY DEF Created, Moves
<1>4. \A u \in Threads \ {t} : \A k : Creates(u, k)' <=> Creates(u, k)
  BY <1>3 DEF Creates, Moves
<1>5. \A u \in Threads : where'[u] = "create" <=> where[u] = "create"
  BY <1>1 DEF Moves
<1>6. ASSUME NEW u \in Threads PROVE ThreadInv(u)'
  <2>1. CASE u = t
    BY <1>1, <1>5, <2>1 DEF ThreadInv, Moves, Inside
  <2>2. CASE u # t
    <3>1. ThreadInv(u)
      BY DEF RuntimeInv, StartInv
    <3>2. where'[u] = where[u]
      BY <1>1, <2>2
    <3>3. where[u] = "create" => \E k \in 1..g.P : Creates(u, k)'
      BY <1>4, <2>2, <3>1 DEF ThreadInv
    <3>4. QED
      BY <1>5, <2>2, <3>1, <3>2, <3>3 DEF ThreadInv, Moves
  <2>3. QED
    BY <2>1, <2>2
<1>7. StartInv'
  BY <1>3, <1>5, <1>6 DEF RuntimeInv, StartInv, Moves
<1>8. QED
  BY <1>2, <1>7 DEF RuntimeInv

LEMMA InitRuntime == RuntimeInit => RuntimeInv
<1> SUFFICES ASSUME RuntimeInit PROVE RuntimeInv
  OBVIOUS
<1>1. PICK env \in Envs : g = get_user_settable_values(env)
  BY DEF RuntimeInit
<1>2. g \in Globals /\ g.P <= MaxP
  BY <1>1, EnvironmentGives, EnvsAssumption
<1>3. where \in [Actors -> ThreadLabels \cup WorkerLabels] /\ \A t \in Threads : where[t] = "out"
  BY ApartIs DEF RuntimeInit, ThreadLabels, WorkerLabels
<1>4. threads \in [SysWorkers -> Nat] /\ todo = [a \in Actors |-> todo[a]]
  BY DEF RuntimeInit
<1>5. RuntimeTypes
  BY <1>2, <1>3, <1>4 DEF RuntimeTypes, RuntimeInit
<1>6. \A t \in Threads : ThreadInv(t)
  BY <1>3 DEF ThreadInv, HoldingMutex, Ready, Started, Inside
<1>7. Created(1)
  <2>1. \A w \in SysWorkers : threads[w] = 0 /\ ~(w < 1)
    BY BoundsAssumption DEF RuntimeInit, SysWorkers
  <2>2. QED
    BY <2>1 DEF Created
<1>8. QED
  BY <1>5, <1>6, <1>7 DEF RuntimeInv, StartInv, RuntimeInit

LEMMA WorkerKeeps == ASSUME RuntimeInv, NEW w \in SysWorkers, WorkerStep(w) PROVE RuntimeInv'
<1>1. UNCHANGED <<g, published, workers_running, threads, mutex>>
  BY DEF WorkerStep, signal_node_wait, wait_on_cilk_semaphore, Notify,
         search_until_work_found_or_done, FinishWork, global
<1>2. PICK b \in ThreadLabels \cup WorkerLabels : where' = [where EXCEPT ![w] = b]
  <2>1. where = [where EXCEPT ![w] = where[w]] /\ where[w] \in ThreadLabels \cup WorkerLabels
    BY ApartIs DEF RuntimeInv, RuntimeTypes
  <2>2. {"sem", "loop", "notify_run", "wait", "notify_wait", "exited", "busy"}
          \subseteq WorkerLabels
    BY DEF WorkerLabels
  <2>3. CASE signal_node_wait(w)
    BY <2>2, <2>3 DEF signal_node_wait, MoveTo
  <2>4. CASE wait_on_cilk_semaphore(w) \/ Notify(w) \/ FinishWork(w)
    BY <2>1, <2>2, <2>4 DEF wait_on_cilk_semaphore, Notify, FinishWork, MoveTo
  <2>5. CASE search_until_work_found_or_done(w)
    BY <2>1, <2>2, <2>5 DEF search_until_work_found_or_done, check_for_work, MoveTo
  <2>6. QED
    BY <2>3, <2>4, <2>5 DEF WorkerStep
<1>3. \/ UNCHANGED todo \/ \E q : todo' = [todo EXCEPT ![w] = q]
  <2>1. CASE signal_node_wait(w)
    BY <2>1 DEF signal_node_wait
  <2>2. CASE wait_on_cilk_semaphore(w) \/ FinishWork(w)
    BY <2>2 DEF wait_on_cilk_semaphore, FinishWork
  <2>3. CASE Notify(w)
    BY <2>3 DEF Notify, Send
  <2>4. CASE search_until_work_found_or_done(w)
    BY <2>4 DEF search_until_work_found_or_done, check_for_work
  <2>5. QED
    BY <2>1, <2>2, <2>3, <2>4 DEF WorkerStep
<1>4. /\ where' \in [Actors -> ThreadLabels \cup WorkerLabels]
      /\ \A t \in Threads : where'[t] = where[t]
  BY <1>2, ApartIs DEF RuntimeInv, RuntimeTypes
<1>5. todo' = [a \in Actors |-> todo'[a]] /\ \A t \in Threads : todo'[t] = todo[t]
  BY <1>3, ApartIs DEF RuntimeInv, RuntimeTypes
<1>6. QED
  BY <1>1, <1>4, <1>5, WorkersKeep

\* While nobody holds the mutex nobody creates workers.
LEMMA NoCreator ==
    ASSUME RuntimeInv, mutex = NoThread PROVE \A u \in Threads : where[u] # "create"
  BY ThreadsAssumption DEF RuntimeInv, StartInv, ThreadInv, HoldingMutex

\* Steps of a thread that only send or only pass from one label to another.
LEMMA CallKeeps ==
    ASSUME RuntimeInv, NEW t \in Threads,
           \/ init_internal(t) \/ suspend(t) \/ resume(t) \/ unbind_thread(t) \/ end_cilk(t)
    PROVE  RuntimeInv'
<1>1. /\ where = [where EXCEPT ![t] = where[t]]
      /\ todo = [a \in Actors |-> todo[a]] /\ ThreadInv(t) /\ NoThread \notin Threads
  BY ThreadsAssumption DEF RuntimeInv, RuntimeTypes, StartInv
<1>2. {"start", "initlock", "paused", "resuming", "out", "ending"} \subseteq ThreadLabels
  BY DEF ThreadLabels
<1>3. UNCHANGED <<g, published, workers_running, threads>>
  BY DEF init_internal, suspend, resume, unbind_thread, end_cilk, global
<1>4. CASE init_internal(t)
  <2>1. PICK b : b = IF published THEN "start" ELSE "initlock"
    OBVIOUS
  <2>2. where' = [where EXCEPT ![t] = b] /\ where[t] = "out" /\ UNCHANGED <<todo, mutex>>
    BY <1>4, <2>1 DEF init_internal, MoveTo
  <2>3. Moves(t, b)
    BY <1>1, <1>2, <1>3, <2>1, <2>2 DEF Moves, HoldingMutex, Ready, Started, Inside
  <2>4. QED
    BY <2>3, ThreadMoves
<1>5. CASE suspend(t)
  <2>1. where' = [where EXCEPT ![t] = "paused"] /\ where[t] = "in" /\ UNCHANGED <<todo, mutex>>
    BY <1>5 DEF suspend, MoveTo
  <2>2. Moves(t, "paused")
    BY <1>1, <1>2, <1>3, <2>1 DEF Moves, ThreadInv, HoldingMutex, Ready, Started, Inside
  <2>3. QED
    BY <2>2, ThreadMoves
<1>6. CASE resume(t)
  <2>1. /\ where' = [where EXCEPT ![t] = "resuming"] /\ where[t] = "paused" /\ UNCHANGED mutex
        /\ \E q : todo' = [todo EXCEPT ![t] = q]
    BY <1>6 DEF resume, MoveTo
  <2>2. todo' = [a \in Actors |-> todo'[a]] /\ \A u \in Threads \ {t} : todo'[u] = todo[u]
    BY <1>1, <2>1, ApartIs
  <2>3. Moves(t, "resuming")
    BY <1>1, <1>2, <1>3, <2>1, <2>2 DEF Moves, ThreadInv, HoldingMutex, Ready, Started, Inside
  <2>4. QED
    BY <2>3, ThreadMoves
<1>7. CASE unbind_thread(t)
  <2>1. /\ where' = [where EXCEPT ![t] = "out"] /\ where[t] \in {"in", "paused"}
        /\ UNCHANGED <<todo, mutex>>
    BY <1>7 DEF unbind_thread, MoveTo
  <2>2. Moves(t, "out")
    BY <1>1, <1>2, <1>3, <2>1 DEF Moves, HoldingMutex, Ready, Started, Inside
  <2>3. QED
    BY <2>2, ThreadMoves
<1>8. CASE end_cilk(t)
  <2>1. PICK b : b = IF published THEN "ending" ELSE "out"
    OBVIOUS
  <2>2. /\ where' = [where EXCEPT ![t] = b] /\ where[t] = "out" /\ UNCHANGED todo
        /\ mutex = NoThread /\ (b = "ending" => mutex' = t)
    BY <1>1, <1>8, <2>1 DEF end_cilk, MoveTo
  <2>3. Moves(t, b)
    BY <1>1, <1>2, <1>3, <2>1, <2>2 DEF Moves, HoldingMutex, Ready, Started, Inside
  <2>4. QED
    BY <2>3, ThreadMoves
<1>9. QED
  BY <1>4, <1>5, <1>6, <1>7, <1>8

LEMMA StepKeeps ==
    ASSUME RuntimeInv, NEW t \in Threads,
           \/ CheckRunning(t) \/ find_free_worker(t) \/ SendFromThread(t)
           \/ start_workers(t) /\ workers_running
    PROVE  RuntimeInv'
<1>1. /\ where = [where EXCEPT ![t] = where[t]]
      /\ todo = [a \in Actors |-> todo[a]] /\ ThreadInv(t) /\ NoThread \notin Threads
  BY ThreadsAssumption DEF RuntimeInv, RuntimeTypes, StartInv
<1>2. {"startlock", "bindlock", "out", "in", "enter", "resuming", "overflow"} \subseteq ThreadLabels
  BY DEF ThreadLabels
<1>3. UNCHANGED <<g, published, workers_running, threads>>
  BY DEF CheckRunning, find_free_worker, SendFromThread, start_workers, global
<1>4. CASE CheckRunning(t)
  <2>1. PICK b : b = IF ~binds[t] THEN "out"
                     ELSE IF workers_running THEN "bindlock" ELSE "startlock"
    OBVIOUS
  <2>2. where' = [where EXCEPT ![t] = b] /\ where[t] = "start" /\ UNCHANGED <<todo, mutex>>
    BY <1>4, <2>1 DEF CheckRunning, MoveTo
  <2>3. published
    BY <1>1, <2>2 DEF ThreadInv, Ready
  <2>4. Moves(t, b)
    BY <1>1, <1>2, <1>3, <2>1, <2>2, <2>3 DEF Moves, HoldingMutex, Ready, Started, Inside
  <2>5. QED
    BY <2>4, ThreadMoves
<1>5. CASE find_free_worker(t)
  <2>1. /\ where[t] = "bindlock" /\ mutex = NoThread
        /\ todo' = [a \in Actors |-> todo'[a]] /\ \A u \in Threads \ {t} : todo'[u] = todo[u]
    <3>1. \/ UNCHANGED todo \/ \E q : todo' = [todo EXCEPT ![t] = q]
      BY <1>5 DEF find_free_worker
    <3>2. todo' = [a \in Actors |-> todo'[a]] /\ \A u \in Threads \ {t} : todo'[u] = todo[u]
      BY <1>1, <3>1, ApartIs
    <3>3. QED
      BY <1>5, <3>2 DEF find_free_worker
  <2>2. PICK b \in {"in", "enter", "overflow"} :
            where' = [where EXCEPT ![t] = b] /\ (b = "enter" => mutex' = t)
    BY <1>5 DEF find_free_worker, MoveTo
  <2>3. \A u \in Threads : where[u] # "create"
    BY <2>1, NoCreator
  <2>4. published /\ workers_running
    BY <1>1, <2>1 DEF ThreadInv, Ready, Started
  <2>5. Moves(t, b)
    BY <1>1, <1>2, <1>3, <2>1, <2>2, <2>3, <2>4 DEF Moves, HoldingMutex, Ready, Started, Inside
  <2>6. QED
    BY <2>5, ThreadMoves
<1>6. CASE SendFromThread(t)
  <2>1. PICK b : b = IF Sent(t) THEN "in" ELSE where[t]
    OBVIOUS
  <2>2. /\ where' = [where EXCEPT ![t] = b] /\ where[t] \in {"enter", "resuming"}
        /\ mutex' = IF Sent(t) /\ mutex = t THEN NoThread ELSE mutex
        /\ \E q : todo' = [todo EXCEPT ![t] = q]
    BY <1>6, <2>1 DEF SendFromThread, MoveTo, Send
  <2>3. todo' = [a \in Actors |-> todo'[a]] /\ \A u \in Threads \ {t} : todo'[u] = todo[u]
    BY <1>1, <2>2, ApartIs
  <2>4. published /\ workers_running /\ \A u \in Threads : where[u] # "create"
    BY <1>1, <2>2 DEF ThreadInv, Ready, Started, Inside
  <2>5. b \in HoldingMutex => mutex' = t
    BY <1>1, <2>1, <2>2 DEF ThreadInv, HoldingMutex
  <2>6. b \in {"in", "enter", "resuming"}
    BY <2>1, <2>2
  <2>7. Moves(t, b)
    BY <1>2, <1>3, <2>2, <2>3, <2>4, <2>5, <2>6 DEF Moves
  <2>8. QED
    BY <2>7, ThreadMoves
<1>7. CASE start_workers(t) /\ workers_running
  <2>1. /\ where' = [where EXCEPT ![t] = "bindlock"] /\ where[t] = "startlock"
        /\ UNCHANGED <<todo, mutex>>
    BY <1>7 DEF start_workers, MoveTo
  <2>2. published
    BY <1>1, <2>1 DEF ThreadInv, Ready
  <2>3. Moves(t, "bindlock")
    BY <1>1, <1>2, <1>3, <1>7, <2>1, <2>2 DEF Moves, HoldingMutex, Ready, Started, Inside
  <2>4. QED
    BY <2>3, ThreadMoves
<1>8. QED
  BY <1>4, <1>5, <1>6, <1>7

\* A thread that waited for the mutex finds the state published.
LEMMA PublishedKeeps ==
    ASSUME RuntimeInv, NEW t \in Threads, init_workers(t), published PROVE RuntimeInv'
<1>1. /\ where' = [where EXCEPT ![t] = "start"] /\ where[t] = "initlock" /\ mutex' = mutex
      /\ UNCHANGED <<g, published, workers_running, threads, todo>>
  BY DEF init_workers, MoveTo
<1>2. todo = [a \in Actors |-> todo[a]]
  BY DEF RuntimeInv, RuntimeTypes
<1>3. Moves(t, "start")
  BY <1>1, <1>2 DEF Moves, HoldingMutex, Ready, Started, Inside, ThreadLabels
<1>4. QED
  BY <1>3, ThreadMoves

\* The program changes the settings while nobody starts the workers.
LEMMA SetParamKeeps == ASSUME RuntimeInv, NEW t \in Threads, SetParam(t) PROVE RuntimeInv'
<1>1. PICK s \in Settings : g' = set_param_imp(g, published, s[1], s[2]).g
  BY DEF SetParam
<1>2. /\ g'.P <= MaxP /\ \A u \in Threads : where[u] \in {"out", "in", "paused"}
      /\ UNCHANGED <<published, workers_running, threads, mutex, where, todo>>
  BY DEF SetParam
<1>3. g' \in Globals /\ (published => g'.P = g.P)
  BY <1>1, SetParamGives DEF RuntimeInv, RuntimeTypes
<1>4. RuntimeTypes'
  BY <1>2, <1>3 DEF RuntimeInv, RuntimeTypes
<1>5. \A k : Created(k)' <=> Created(k)
  BY <1>2 DEF Created
<1>6. \A u \in Threads : ThreadInv(u)'
  BY <1>2 DEF RuntimeInv, StartInv, ThreadInv, HoldingMutex
<1>7. StartInv'
  BY <1>2, <1>3, <1>5, <1>6 DEF RuntimeInv, StartInv
<1>8. QED
  BY <1>4, <1>7 DEF RuntimeInv

\* The first thread under the mutex initialises the settings ...
LEMMA InitialiseKeeps ==
    ASSUME RuntimeInv, NEW t \in Threads, init_workers(t), ~published PROVE RuntimeInv'
<1>1. /\ where[t] = "initlock" /\ mutex = NoThread /\ g' = init_global_state(g) /\ mutex' = t
      /\ where' = [where EXCEPT ![t] = "publish"]
      /\ UNCHANGED <<published, workers_running, threads, todo>>
  BY DEF init_workers, MoveTo
<1>2. g' \in Globals /\ g'.P = g.P
  BY <1>1, InitGives DEF RuntimeInv, RuntimeTypes
<1>3. /\ where' \in [Actors -> ThreadLabels \cup WorkerLabels] /\ where'[t] = "publish"
      /\ \A u \in Threads \ {t} : where'[u] = where[u]
  <2>1. "publish" \in ThreadLabels
    BY DEF ThreadLabels
  <2>2. QED
    BY <1>1, <2>1, ApartIs DEF RuntimeInv, RuntimeTypes
<1>4. RuntimeTypes'
  BY <1>1, <1>2, <1>3 DEF RuntimeInv, RuntimeTypes
<1>5. ~workers_running /\ Created(1) /\ Created(1)'
  BY <1>1 DEF RuntimeInv, StartInv, Created
<1>6. \A u \in Threads : where[u] \notin HoldingMutex \cup Ready
  BY <1>1, ThreadsAssumption DEF RuntimeInv, StartInv, ThreadInv
<1>7. ASSUME NEW u \in Threads PROVE ThreadInv(u)'
  <2>1. CASE u = t
    BY <1>1, <1>3, <2>1 DEF ThreadInv, HoldingMutex, Ready, Started, Inside
  <2>2. CASE u # t
    <3>1. where'[u] \notin HoldingMutex \cup Ready
      BY <1>3, <1>6, <2>2
    <3>2. QED
      BY <3>1 DEF ThreadInv, HoldingMutex, Ready, Started, Inside
  <2>3. QED
    BY <2>1, <2>2
<1>8. QED
  BY <1>1, <1>4, <1>5, <1>7 DEF RuntimeInv, StartInv

\* ... and publishes them.
LEMMA PublishKeeps ==
    ASSUME RuntimeInv, NEW t \in Threads, cilkg_publish_global_state(t) PROVE RuntimeInv'
<1>1. /\ where[t] = "publish" /\ published' = TRUE /\ mutex' = NoThread
      /\ where' = [where EXCEPT ![t] = "start"]
      /\ UNCHANGED <<g, workers_running, threads, todo>>
  BY DEF cilkg_publish_global_state, MoveTo
<1>2. mutex = t /\ ~workers_running /\ Created(1)'
  BY <1>1 DEF RuntimeInv, StartInv, ThreadInv, HoldingMutex, Created
<1>3. /\ where' \in [Actors -> ThreadLabels \cup WorkerLabels] /\ where'[t] = "start"
      /\ \A u \in Threads \ {t} : where'[u] = where[u]
  <2>1. "start" \in ThreadLabels
    BY DEF ThreadLabels
  <2>2. QED
    BY <1>1, <2>1, ApartIs DEF RuntimeInv, RuntimeTypes
<1>4. RuntimeTypes'
  BY <1>1, <1>3 DEF RuntimeInv, RuntimeTypes
<1>5. ASSUME NEW u \in Threads PROVE ThreadInv(u)'
  <2>1. CASE u = t
    BY <1>1, <1>3, <2>1 DEF ThreadInv, HoldingMutex, Ready, Started, Inside
  <2>2. CASE u # t
    <3>1. where[u] \notin HoldingMutex \cup Started
      BY <1>2, <2>2 DEF RuntimeInv, StartInv, ThreadInv
    <3>2. where'[u] \notin HoldingMutex \cup Started
      BY <1>3, <2>2, <3>1
    <3>3. QED
      BY <1>1, <3>2 DEF ThreadInv, HoldingMutex, Started
  <2>3. QED
    BY <2>1, <2>2
<1>6. QED
  BY <1>1, <1>2, <1>4, <1>5 DEF RuntimeInv, StartInv

\* The thread that sets workers_running has all the workers to create.
LEMMA StartKeeps ==
    ASSUME RuntimeInv, NEW t \in Threads, start_workers(t), ~workers_running PROVE RuntimeInv'
<1>1. /\ where[t] = "startlock" /\ mutex = NoThread /\ workers_running' = TRUE /\ mutex' = t
      /\ todo' = [todo EXCEPT ![t] = [i \in 1..(g.P - 1) |-> <<"create", i>>]]
      /\ where' = [where EXCEPT ![t] = "create"]
      /\ UNCHANGED <<g, published, threads>>
  BY DEF start_workers, StartThreads, MoveTo
<1>2. /\ where' \in [Actors -> ThreadLabels \cup WorkerLabels] /\ where'[t] = "create"
      /\ \A u \in Threads \ {t} : where'[u] = where[u]
  <2>1. "create" \in ThreadLabels
    BY DEF ThreadLabels
  <2>2. QED
    BY <1>1, <2>1, ApartIs DEF RuntimeInv, RuntimeTypes
<1>3. /\ todo' = [a \in Actors |-> todo'[a]]
      /\ todo'[t] = [i \in 1..(g.P - 1) |-> <<"create", i>>]
  BY <1>1, ApartIs DEF RuntimeInv, RuntimeTypes
<1>4. RuntimeTypes'
  BY <1>1, <1>2, <1>3 DEF RuntimeInv, RuntimeTypes
<1>5. published /\ Created(1)'
  BY <1>1 DEF RuntimeInv, StartInv, ThreadInv, Ready, Created
<1>6. Creates(t, 1)'
  <2>1. g'.P \in Nat /\ g'.P >= 1 /\ g' = g
    <3>1. g.P \in Nat /\ g.P >= 1
      BY CpusAssumption DEF RuntimeInv, RuntimeTypes, Globals
    <3>2. QED
      BY <1>1, <3>1
  <2>2. todo'[t] \in Seq({"create"} \X Nat) /\ Len(todo'[t]) = g'.P - 1
    BY <1>1, <1>3, <2>1
  <2>3. \A i \in 1..(g'.P - 1) : todo'[t][i] = <<"create", i>> /\ i = 1 + i - 1
    BY <1>1, <1>3, <2>1
  <2>4. QED
    BY <1>5, <2>1, <2>2, <2>3 DEF Creates
<1>7. 1 \in 1..g'.P
  BY <1>6 DEF Creates
<1>8. ASSUME NEW u \in Threads PROVE ThreadInv(u)'
  <2>1. CASE u = t
    BY <1>1, <1>2, <1>5, <1>6, <1>7, <2>1 DEF ThreadInv, HoldingMutex, Ready, Started, Inside
  <2>2. CASE u # t
    <3>1. ThreadInv(u) /\ where[u] \notin HoldingMutex \cup Started
      BY <1>1, ThreadsAssumption DEF RuntimeInv, StartInv, ThreadInv
    <3>2. where'[u] = where[u]
      BY <1>2, <2>2
    <3>3. QED
      BY <1>1, <3>1, <3>2 DEF ThreadInv, HoldingMutex, Started
  <2>3. QED
    BY <2>1, <2>2
<1>9. QED
  BY <1>1, <1>2, <1>4, <1>5, <1>8 DEF RuntimeInv, StartInv

\* It creates the next worker, or there is none left.
LEMMA CreateKeeps ==
    ASSUME RuntimeInv, NEW t \in Threads, create_threads(t) PROVE RuntimeInv'
<1>1. where[t] = "create" /\ UNCHANGED <<g, published, workers_running>>
  BY DEF create_threads
<1>2. PICK k \in 1..g.P : Creates(t, k)
  BY <1>1 DEF RuntimeInv, StartInv, ThreadInv
<1>3. g.P \in Nat /\ g.P <= MaxP /\ MaxP \in Nat /\ mutex = t /\ published /\ workers_running
  <2>1. g.P \in Nat /\ g.P <= MaxP /\ MaxP \in Nat
    BY BoundsAssumption DEF RuntimeInv, RuntimeTypes, Globals
  <2>2. QED
    BY <1>1, <2>1 DEF RuntimeInv, StartInv, ThreadInv, HoldingMutex, Ready, Started
<1>4. \A u \in Threads \ {t} : where[u] \notin HoldingMutex \cup Inside
  BY <1>1, <1>3 DEF RuntimeInv, StartInv, ThreadInv
<1>5. CASE todo[t] = << >>
  <2>1. /\ mutex' = NoThread /\ where' = [where EXCEPT ![t] = "bindlock"]
        /\ UNCHANGED <<threads, todo>>
    BY <1>5 DEF create_threads, MoveTo
  <2>2. /\ where' \in [Actors -> ThreadLabels \cup WorkerLabels] /\ where'[t] = "bindlock"
        /\ \A u \in Threads \ {t} : where'[u] = where[u]
    <3>1. "bindlock" \in ThreadLabels
      BY DEF ThreadLabels
    <3>2. QED
      BY <2>1, <3>1, ApartIs DEF RuntimeInv, RuntimeTypes
  <2>3. Created(g.P)'
    <3>1. g.P - k = 0
      BY <1>2, <1>5 DEF Creates
    <3>2. k = g.P
      BY <1>3, <3>1
    <3>3. QED
      BY <1>1, <1>2, <2>1, <3>2 DEF Creates, Created
  <2>4. RuntimeTypes'
    BY <1>1, <2>1, <2>2 DEF RuntimeInv, RuntimeTypes
  <2>5. ASSUME NEW u \in Threads PROVE ThreadInv(u)'
    <3>1. CASE u = t
      BY <1>1, <1>3, <2>2, <3>1 DEF ThreadInv, HoldingMutex, Ready, Started, Inside
    <3>2. CASE u # t
      <4>1. where'[u] = where[u] /\ where'[u] \notin HoldingMutex \cup Inside
        BY <1>4, <2>2, <3>2
      <4>2. QED
        BY <1>1, <1>3, <4>1 DEF ThreadInv, HoldingMutex, Inside
    <3>3. QED
      BY <3>1, <3>2
  <2>6. QED
    BY <1>1, <1>3, <2>3, <2>4, <2>5 DEF RuntimeInv, StartInv
<1>6. CASE todo[t] # << >>
  <2>1. PICK q : q = todo[t]
    OBVIOUS
  <2>2. k < g.P /\ Head(q) = <<"create", k>> /\ k \in SysWorkers
    <3>1. Len(q) = g.P - k /\ \A i \in 1..(g.P - k) : q[i] = <<"create", k + i - 1>>
      BY <1>2, <2>1 DEF Creates
    <3>2. k < g.P
      BY <1>3, <1>6, <2>1, <3>1
    <3>3. 1 \in 1..(g.P - k) /\ k + 1 - 1 = k
      BY <1>3, <3>2
    <3>4. q[1] = <<"create", k>>
      BY <3>1, <3>3
    <3>5. QED
      BY <1>3, <3>2, <3>4 DEF SysWorkers
  <2>3. /\ threads' = [threads EXCEPT ![k] = threads[k] + 1]
        /\ where' = [where EXCEPT ![k] = "wait"]
        /\ todo' = [todo EXCEPT ![t] = Tail(q)] /\ UNCHANGED mutex
    BY <1>6, <2>1, <2>2 DEF create_threads, MoveTo
  <2>4. /\ where' \in [Actors -> ThreadLabels \cup WorkerLabels]
        /\ \A u \in Threads : where'[u] = where[u]
    <3>1. "wait" \in WorkerLabels
      BY DEF WorkerLabels
    <3>2. QED
      BY <2>2, <2>3, <3>1, ApartIs DEF RuntimeInv, RuntimeTypes
  <2>5. todo' = [a \in Actors |-> todo'[a]] /\ todo'[t] = Tail(q)
    BY <2>3, ApartIs DEF RuntimeInv, RuntimeTypes
  <2>6. RuntimeTypes'
    BY <1>1, <2>2, <2>3, <2>4, <2>5 DEF RuntimeInv, RuntimeTypes
  <2>7. Created(k + 1)'
    <3>1. Created(k) /\ threads \in [SysWorkers -> Nat] /\ SysWorkers \subseteq Nat
      BY <1>2 DEF Creates, RuntimeInv, RuntimeTypes, SysWorkers
    <3>2. \A w \in SysWorkers : threads'[w] = IF w < k + 1 THEN 1 ELSE 0
      BY <2>2, <2>3, <3>1 DEF Created
    <3>3. QED
      BY <3>2 DEF Created
  <2>8. Creates(t, k + 1)' /\ k + 1 \in 1..g'.P
    <3>1. /\ Tail(q) \in Seq({"create"} \X Nat) /\ Len(Tail(q)) = g.P - (k + 1)
          /\ \A i \in 1..(g.P - (k + 1)) : Tail(q)[i] = <<"create", (k + 1) + i - 1>>
      <4>1. /\ q \in Seq({"create"} \X Nat) /\ Len(q) = g.P - k /\ q # << >>
            /\ \A i \in 1..(g.P - k) : q[i] = <<"create", k + i - 1>>
        BY <1>2, <1>6, <2>1 DEF Creates
      <4>2. /\ Tail(q) \in Seq({"create"} \X Nat) /\ Len(Tail(q)) = Len(q) - 1
            /\ \A i \in 1..Len(Tail(q)) : Tail(q)[i] = q[i + 1]
        BY <4>1
      <4>3. Len(Tail(q)) = g.P - (k + 1)
        BY <1>3, <2>2, <4>1, <4>2
      <4>4. \A i \in 1..(g.P - (k + 1)) :
                i + 1 \in 1..(g.P - k) /\ k + (i + 1) - 1 = (k + 1) + i - 1
        BY <1>3, <2>2
      <4>5. QED
        BY <4>1, <4>2, <4>3, <4>4
    <3>2. k + 1 \in 1..g.P
      BY <1>3, <2>2
    <3>3. g' = g
      BY <1>1
    <3>4. QED
      BY <2>5, <2>7, <3>1, <3>2, <3>3 DEF Creates
  <2>9. ASSUME NEW u \in Threads PROVE ThreadInv(u)'
    <3>1. CASE u = t
      BY <1>1, <1>3, <2>3, <2>4, <2>8, <3>1 DEF ThreadInv, HoldingMutex, Ready, Started, Inside
    <3>2. CASE u # t
      <4>1. where'[u] = where[u] /\ where'[u] \notin HoldingMutex \cup Inside
        BY <1>4, <2>4, <3>2
      <4>2. QED
        BY <1>1, <1>3, <4>1 DEF ThreadInv, HoldingMutex, Inside
    <3>3. QED
      BY <3>1, <3>2
  <2>10. QED
    BY <1>1, <1>3, <2>4, <2>6, <2>9 DEF RuntimeInv, StartInv
<1>7. QED
  BY <1>5, <1>6

LEMMA RuntimeStep == ASSUME RuntimeInv, [RuntimeNext]_runtimeVars PROVE RuntimeInv'
<1>1. CASE UNCHANGED runtimeVars
  BY <1>1, WorkersKeep DEF runtimeVars, RuntimeInv, RuntimeTypes
<1>2. ASSUME NEW w \in SysWorkers, WorkerStep(w) PROVE RuntimeInv'
  BY <1>2, WorkerKeeps
<1>3. ASSUME NEW t \in Threads, UserCall(t) PROVE RuntimeInv'
  BY <1>3, SetParamKeeps, CallKeeps DEF UserCall
<1>4. ASSUME NEW t \in Threads, ThreadStep(t) PROVE RuntimeInv'
  <2>1. CASE init_workers(t)
    <3>1. CASE published
      BY <2>1, <3>1, PublishedKeeps
    <3>2. CASE ~published
      BY <2>1, <3>2, InitialiseKeeps
    <3>3. QED
      BY <3>1, <3>2
  <2>2. CASE start_workers(t)
    <3>1. CASE workers_running
      BY <2>2, <3>1, StepKeeps
    <3>2. CASE ~workers_running
      BY <2>2, <3>2, StartKeeps
    <3>3. QED
      BY <3>1, <3>2
  <2>3. CASE CheckRunning(t) \/ find_free_worker(t) \/ SendFromThread(t)
    BY <2>3, StepKeeps
  <2>4. CASE cilkg_publish_global_state(t)
    BY <2>4, PublishKeeps
  <2>5. CASE create_threads(t)
    BY <2>5, CreateKeeps
  <2>6. QED
    BY <1>4, <2>1, <2>2, <2>3, <2>4, <2>5 DEF ThreadStep
<1>5. ASSUME NEW t \in Threads, abort(t) PROVE RuntimeInv'
  BY <1>5, WorkersKeep DEF abort, global, RuntimeInv, RuntimeTypes
<1>6. QED
  BY <1>1, <1>2, <1>3, <1>4, <1>5 DEF RuntimeNext

\* __cilkrts_init_internal: however the first calls of several threads
\* interleave, no worker is started twice, and a thread is in Cilk only once
\* every system worker has been started.
THEOREM StartedOnceTheorem == RuntimeSpec => []StartedOnce
<1>1. RuntimeInv => StartedOnce
  <2> SUFFICES ASSUME RuntimeInv PROVE StartedOnce
    OBVIOUS
  <2>1. \A w \in SysWorkers : threads[w] <= 1
    <3>1. \A k : Created(k) => \A w \in SysWorkers : threads[w] <= 1
      BY DEF Created
    <3>2. \E k : Created(k)
      <4>1. CASE \E t \in Threads : where[t] = "create"
        BY <4>1 DEF RuntimeInv, StartInv, ThreadInv, Creates
      <4>2. CASE \A t \in Threads : where[t] # "create"
        BY <4>2 DEF RuntimeInv, StartInv
      <4>3. QED
        BY <4>1, <4>2
    <3>3. QED
      BY <3>1, <3>2
  <2>2. InCilk # {} => Created(g.P)
    BY DEF RuntimeInv, StartInv, ThreadInv, InCilk, Started, Inside
  <2>3. QED
    BY <2>1, <2>2 DEF StartedOnce, Created
<1>2. QED
  BY <1>1, InitRuntime, RuntimeStep, PTL DEF RuntimeSpec

-----------------------------------------------------------------------------
(* The settings *)

\* From init_global_state on the settings fit each other and the pools.
SettingsInv ==
    /\ published => Usable(g, pool_size)
    /\ \A t \in Threads : where[t] = "publish" => Usable(g, pool_size)

\* Three steps change the settings or publish them.
LEMMA SettingsChange ==
    ASSUME RuntimeInv, [RuntimeNext]_runtimeVars
    PROVE  \/ /\ UNCHANGED <<g, pool_size, published>>
              /\ \A t \in Threads : where'[t] = "publish" => where[t] = "publish"
           \/ \E t \in Threads : \/ SetParam(t)
                                 \/ init_workers(t) /\ ~published
                                 \/ cilkg_publish_global_state(t)
<1> DEFINE Kept == /\ UNCHANGED <<g, pool_size, published>>
                   /\ \A t \in Threads : where'[t] = "publish" => where[t] = "publish"
<1>1. where \in [Actors -> ThreadLabels \cup WorkerLabels]
  BY DEF RuntimeInv, RuntimeTypes
<1>2. CASE UNCHANGED runtimeVars
  BY <1>2 DEF runtimeVars
<1>3. ASSUME NEW w \in SysWorkers, WorkerStep(w) PROVE Kept
  <2>1. UNCHANGED <<g, pool_size, published>>
    BY <1>3 DEF WorkerStep, signal_node_wait, wait_on_cilk_semaphore, Notify,
           search_until_work_found_or_done, FinishWork, global
  <2>2. UNCHANGED where \/ \E b : where' = [where EXCEPT ![w] = b]
    <3>1. CASE signal_node_wait(w) \/ wait_on_cilk_semaphore(w) \/ Notify(w) \/ FinishWork(w)
      BY <3>1 DEF signal_node_wait, wait_on_cilk_semaphore, Notify, FinishWork, MoveTo
    <3>2. CASE search_until_work_found_or_done(w)
      BY <3>2 DEF search_until_work_found_or_done, check_for_work, MoveTo
    <3>3. QED
      BY <1>3, <3>1, <3>2 DEF WorkerStep
  <2>3. \A t \in Threads : where'[t] = where[t]
    BY <1>1, <2>2, ApartIs
  <2>4. QED
    BY <2>1, <2>3
<1>4. ASSUME NEW t \in Threads, UserCall(t), ~SetParam(t) PROVE Kept
  <2>1. UNCHANGED <<g, pool_size, published>>
    BY <1>4 DEF UserCall, init_internal, suspend, resume, unbind_thread, end_cilk, global
  <2>2. UNCHANGED where \/ \E b : b # "publish" /\ where' = [where EXCEPT ![t] = b]
    BY <1>4 DEF UserCall, init_internal, suspend, resume, unbind_thread, end_cilk, MoveTo
  <2>3. QED
    BY <1>1, <2>1, <2>2, ApartIs
<1>5. ASSUME NEW t \in Threads, ThreadStep(t),
             ~(init_workers(t) /\ ~published), ~cilkg_publish_global_state(t)
      PROVE  Kept
  <2>1. CASE create_threads(t)
    <3>1. UNCHANGED <<g, pool_size, published>>
      BY <2>1 DEF create_threads
    <3>2. \E a, b : b # "publish" /\ where' = [where EXCEPT ![a] = b]
      BY <2>1 DEF create_threads, MoveTo
    <3>3. QED
      BY <1>1, <3>1, <3>2, ApartIs
  <2>2. CASE init_workers(t) /\ published
    BY <1>1, <2>2, ApartIs DEF init_workers, MoveTo
  <2>3. CASE CheckRunning(t) \/ start_workers(t) \/ find_free_worker(t) \/ SendFromThread(t)
    <3>1. UNCHANGED <<g, pool_size, published>>
      BY <2>3 DEF CheckRunning, start_workers, find_free_worker, SendFromThread, global
    <3>2. \E b : b # "publish" /\ where' = [where EXCEPT ![t] = b]
      <4>1. CASE CheckRunning(t)
        BY <4>1 DEF CheckRunning, MoveTo
      <4>2. CASE start_workers(t)
        BY <4>2 DEF start_workers, StartThreads, MoveTo
      <4>3. CASE find_free_worker(t)
        BY <4>3 DEF find_free_worker, MoveTo
      <4>4. CASE SendFromThread(t)
        BY <4>4 DEF SendFromThread, MoveTo
      <4>5. QED
        BY <2>3, <4>1, <4>2, <4>3, <4>4
    <3>3. QED
      BY <1>1, <3>1, <3>2, ApartIs
  <2>4. QED
    BY <1>5, <2>1, <2>2, <2>3 DEF ThreadStep
<1>6. ASSUME NEW t \in Threads, abort(t) PROVE Kept
  BY <1>6 DEF abort, global
<1>7. QED
  BY <1>2, <1>3, <1>4, <1>5, <1>6 DEF RuntimeNext

\* cilkg_init_global_state, init_workers: whatever was set, in whichever order
\* and by whichever threads, the published settings fit each other and the pools
\* of fibers made from them.  The sizes of these pools, which
\* __cilkrts_set_param accepts later, change neither.
THEOREM SettingsUsableTheorem == RuntimeSpec => []SettingsUsable
<1>1. RuntimeInit => SettingsInv
  <2> SUFFICES ASSUME RuntimeInit PROVE SettingsInv
    OBVIOUS
  <2>1. \A t \in Threads : where[t] = "out"
    BY ApartIs DEF RuntimeInit
  <2>2. QED
    BY <2>1 DEF RuntimeInit, SettingsInv
<1>2. RuntimeInv /\ SettingsInv /\ [RuntimeNext]_runtimeVars => SettingsInv'
  <2> SUFFICES ASSUME RuntimeInv, SettingsInv, [RuntimeNext]_runtimeVars PROVE SettingsInv'
    OBVIOUS
  <2>1. \/ /\ UNCHANGED <<g, pool_size, published>>
           /\ \A t \in Threads : where'[t] = "publish" => where[t] = "publish"
        \/ \E t \in Threads : \/ SetParam(t)
                              \/ init_workers(t) /\ ~published
                              \/ cilkg_publish_global_state(t)
    BY SettingsChange
  <2>2. ASSUME UNCHANGED <<g, pool_size, published>>,
               \A t \in Threads : where'[t] = "publish" => where[t] = "publish"
        PROVE  SettingsInv'
    BY <2>2 DEF SettingsInv
  <2>3. ASSUME NEW t \in Threads, SetParam(t) PROVE SettingsInv'
    <3>1. PICK s \in Settings : g' = set_param_imp(g, published, s[1], s[2]).g
      BY <2>3 DEF SetParam
    <3>2. /\ \A u \in Threads : where[u] # "publish"
          /\ UNCHANGED <<pool_size, published, where>>
      BY <2>3 DEF SetParam
    <3>3. CASE published
      <4>1. /\ g'.P = g.P /\ g'.max_stacks = g.max_stacks /\ g'.stack_size = g.stack_size
            /\ g'.total_workers = g.total_workers
            /\ g'.max_steal_failures = g.max_steal_failures
        <5>1. PICK param, value : param = s[1] /\ value = s[2]
          OBVIOUS
        <5>2. g \in Globals /\ published \in BOOLEAN
          BY <5>1 DEF RuntimeInv, RuntimeTypes
        <5>3. g' = set_param_imp(g, published, param, value).g
          BY <3>1, <5>1
        <5>4. PICK H : H = set_param_imp(g, published, param, value).g
          OBVIOUS
        <5>5. /\ H \in Globals
              /\ published => /\ H.P = g.P /\ H.max_stacks = g.max_stacks
                              /\ H.stack_size = g.stack_size
                              /\ H.total_workers = g.total_workers
                              /\ H.max_steal_failures = g.max_steal_failures
          BY ONLY <5>2, <5>4, SetParamGives
        <5>6. QED
          BY <3>3, <5>2, <5>3, <5>4, <5>5
      <4>2. Usable(g', pool_size')
        BY <3>2, <3>3, <4>1 DEF SettingsInv, Usable
      <4>3. QED
        BY <3>2, <4>2 DEF SettingsInv
    <3>4. CASE ~published
      BY <3>2, <3>4 DEF SettingsInv
    <3>5. QED
      BY <3>3, <3>4
  <2>4. ASSUME NEW t \in Threads, init_workers(t), ~published PROVE SettingsInv'
    <3>1. g' = init_global_state(g) /\ pool_size' = SizesIn(g')
      BY <2>4 DEF init_workers, SizesIn
    <3>2. Usable(g', pool_size')
      BY <3>1, InitGives DEF RuntimeInv, RuntimeTypes
    <3>3. QED
      BY <3>2 DEF SettingsInv
  <2>5. ASSUME NEW t \in Threads, cilkg_publish_global_state(t) PROVE SettingsInv'
    <3>1. where[t] = "publish" /\ g' = g /\ pool_size' = pool_size
      BY <2>5 DEF cilkg_publish_global_state
    <3>2. Usable(g', pool_size')
      BY <3>1 DEF SettingsInv
    <3>3. QED
      BY <3>2 DEF SettingsInv
  <2>6. QED
    BY <2>1, <2>2, <2>3, <2>4, <2>5
<1>3. SettingsInv => SettingsUsable
  BY DEF SettingsInv, SettingsUsable
<1>4. QED
  BY <1>1, <1>2, <1>3, InitRuntime, RuntimeStep, PTL DEF RuntimeSpec
=============================================================================
