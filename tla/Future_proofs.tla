---------------------------- MODULE Future_proofs ---------------------------
(***************************************************************************)
(* get() returns only what put() has stored, for any number of strands and *)
(* futures, until a put reads the next pointer of a waiter that it has     *)
(* woken and whose strand has meanwhile queued the same link in another    *)
(* future's list (future.h, put): the variable strayed says that this has  *)
(* happened.                                                               *)
(*                                                                         *)
(* Below, from Fits on, the fibers futures run on: the deque that holds    *)
(* them stays in step with the frames, whatever is stolen, suspended and   *)
(* resumed (cilk_future_fiber_deque.cpp, detach_for_steal).                *)
(***************************************************************************)
EXTENDS Future, Fibers, FiniteSetTheorems, FunctionTheorems, TLAPS

\* What holds however the program behaves.
CountRange ==
    \A f \in Futures : ppc[f] = "compute" => count[f] >= 0

PutLabels ==
    \A f \in Futures :
    /\ ppc[f] \in {"first", "more"} => num[f] > 0
    /\ ppc[f] # "compute" => node[f] \in Links
    /\ ppc[f] = "wake" => node[f] \in Deques
    /\ ppc[f] \in {"more", "wake", "resume"} => ret[f] \in Deques

GetLabels ==
    \A d \in Deques :
    /\ gpc[d] = "run" <=> fut[d] = NULL
    /\ gpc[d] = "link" => old[d] \in Links

Base == TypeOK /\ CountRange /\ PutLabels /\ GetLabels

\* The waiters of f: those that hold a ticket, and among them those whose
\* link is in the list.
Waiters(f) == {d \in Deques : Waiting(d, f)}
Tickets(f) == {d \in Deques : fut[d] = f /\ gpc[d] = "ticket"}
Queued(d, f) == fut[d] = f /\ gpc[d] \in {"link", "suspending", "suspended"}
Linked(d, f) == fut[d] = f /\ gpc[d] \in {"suspending", "suspended"}

\* Those that put has found, and those it has still to find.
Found(f, d) ==
    \/ ppc[f] \in {"more", "wake", "resume"} /\ d = ret[f]
    \/ ppc[f] = "wake" /\ d = node[f]
Left(f) == {d \in Waiters(f) : ~Found(f, d)}
Listed(f) == {d \in Left(f) : Queued(d, f)}

\* The link from which put goes on, and all links it has still to follow.
Cursor(f) ==
    IF ppc[f] = "compute" THEN {f}
    ELSE IF ppc[f] \in {"first", "more", "wake"} THEN {node[f]} ELSE {}
Live(f) == Cursor(f) \cup Listed(f)

\* Before put the counter counts the waiters; after it, the tickets still to
\* be taken cannot bring it back to zero, and num counts the waiters left.
CountInv ==
    \A f \in Futures :
    /\ ppc[f] = "compute" => count[f] = Cardinality(Waiters(f))
    /\ ppc[f] # "compute" =>
        /\ INT32_MIN <= count[f]
        /\ count[f] + Cardinality(Tickets(f)) <= INT32_MIN + Cardinality(Deques)
        /\ num[f] = Cardinality(Left(f))
    /\ ppc[f] \in {"resume", "done"} => num[f] = 0

\* A strand is past its wait only after put.
GetInv == \A d \in Deques : gpc[d] = "assert" => ppc[fut[d]] # "compute"

\* A waiter that put has woken but not left behind has not yet cleared its
\* link; the others that put has found are still in their place.
Awake == {"assert", "run", "ready", "ticket", "null"}
PutInv ==
    /\ \A f \in Futures :
        /\ ppc[f] = "first" => node[f] = f
        /\ ppc[f] = "more" =>
            node[f] \in Deques /\ (node[f] = ret[f] \/ gpc[node[f]] \in Awake)
        /\ ppc[f] = "wake" => Linked(node[f], f) /\ node[f] # ret[f]
        /\ ppc[f] \in {"more", "wake", "resume"} => Linked(ret[f], f)
    /\ \A f, g \in Futures :
        f # g /\ ppc[f] \in {"more", "wake"} /\ ppc[g] \in {"more", "wake"} =>
            node[f] # node[g]

\* The list: every link but the first has a predecessor of its own, the tail
\* is nobody's predecessor, and a next pointer leads to the successor.
ListInv ==
    /\ \A d \in Deques : gpc[d] = "xchg" => next[d] = NULL
    /\ \A f \in Futures :
        /\ \A d \in Listed(f) : old[d] \in Live(f)
        /\ \A d, e \in Listed(f) : old[d] = old[e] => d = e
        /\ Cursor(f) # {} =>
            tail[f] \in Live(f) /\ \A d \in Listed(f) : old[d] # tail[f]
        /\ \A l \in Live(f) : next[l] # NULL =>
            next[l] \in Listed(f) /\ Linked(next[l], f) /\ old[next[l]] = l

Good == CountInv /\ GetInv /\ PutInv /\ ListInv

IInv == Base /\ (~strayed => Good)

-----------------------------------------------------------------------------
(* Types, which hold whatever the program does *)

LEMMA DequesFinite == IsFiniteSet(Deques) /\ Cardinality(Deques) \in Nat
BY MinAssumption, FS_CardinalityType

LEMMA BaseInit == Init => Base
<1> SUFFICES ASSUME Init PROVE Base
  OBVIOUS
<1> USE MinAssumption, NullAssumption, DequesFinite
<1>0. 0 \in INT32_MIN..Cardinality(Deques)
  OBVIOUS
<1>1. TypeOK
  <2>1. strayed \in BOOLEAN
    BY DEF Init
  <2>2. /\ \A f \in Futures : f \in Links
        /\ 0 \in 0..Cardinality(Deques)
    BY DEF Links
  <2>3. QED
    BY <1>0, <2>1, <2>2 DEF Init, TypeOK
<1>2. /\ \A f \in Futures : count[f] = 0 /\ ppc[f] = "compute"
      /\ \A d \in Deques : gpc[d] = "run" /\ fut[d] = NULL
  BY DEF Init
<1>3. QED
  BY <1>1, <1>2 DEF Base, CountRange, PutLabels, GetLabels

LEMMA BaseGetter ==
    ASSUME Base, NEW d \in Deques, Getter(d) \/ \E f \in Futures : Get(d, f)
    PROVE  Base'
<1> USE MinAssumption, NullAssumption, WantsAssumption, DequesFinite
<1> USE DEF Base, TypeOK, CountRange, PutLabels, GetLabels, Goto, putVars, Links
<1>1. ASSUME NEW f \in Futures, Get(d, f) PROVE Base'
  BY <1>1 DEF Get
<1>2. CASE CheckReady(d)
  BY <1>2 DEF CheckReady
<1>3. CASE TakeTicket(d)
  <2>1. PICK f \in Futures : f = fut[d]
    BY <1>3 DEF TakeTicket
  <2>2. count[f] \in Int /\ count[f] < Cardinality(Deques) /\ count[f] >= INT32_MIN
        /\ count' = [count EXCEPT ![f] = count[f] + 1]
    BY <1>3, <2>1 DEF TakeTicket
  <2>3. QED
    BY <1>3, <2>1, <2>2 DEF TakeTicket
<1>4. CASE ClearLink(d)
  BY <1>4 DEF ClearLink
<1>5. CASE ExchangeTail(d)
  BY <1>5 DEF ExchangeTail
<1>6. CASE LinkBehindOld(d)
  BY <1>6 DEF LinkBehindOld
<1>7. CASE Suspend(d)
  BY <1>7 DEF Suspend
<1>8. CASE Return(d)
  BY <1>8 DEF Return
<1>9. QED
  BY <1>1, <1>2, <1>3, <1>4, <1>5, <1>6, <1>7, <1>8 DEF Getter

LEMMA BasePutter ==
    ASSUME Base, NEW f \in Futures, Putter(f) \/ Reset(f)
    PROVE  Base'
<1> USE MinAssumption, NullAssumption, DequesFinite
<1> USE DEF Base, TypeOK, CountRange, PutLabels, GetLabels, PGoto, Goto, getVars, Links
<1>1. CASE Put(f)
  <2>1. count[f] \in 0..Cardinality(Deques)
    BY <1>1 DEF Put
  <2>2. count' = [count EXCEPT ![f] = count[f] + INT32_MIN]
    BY <1>1 DEF Put
  <2>3. count[f] + INT32_MIN \in INT32_MIN..Cardinality(Deques)
    BY <2>1
  <2>4. QED
    BY <1>1, <2>1, <2>2, <2>3 DEF Put
<1>2. CASE FirstWaiter(f)
  <2>1. next[node[f]] \in Deques /\ num[f] - 1 \in 0..Cardinality(Deques)
    BY <1>2 DEF FirstWaiter
  <2>2. QED
    BY <1>2, <2>1 DEF FirstWaiter, MoreWaiters
<1>3. CASE NextWaiter(f)
  <2>1. next[node[f]] \in Deques /\ num[f] - 1 \in 0..Cardinality(Deques)
    BY <1>3 DEF NextWaiter
  <2>2. QED
    BY <1>3, <2>1 DEF NextWaiter
<1>4. CASE Wake(f)
  BY <1>4 DEF Wake, MoreWaiters
<1>5. CASE Resume(f)
  BY <1>5 DEF Resume
<1>6. CASE Reset(f)
  BY <1>6 DEF Reset
<1>7. QED
  BY <1>1, <1>2, <1>3, <1>4, <1>5, <1>6 DEF Putter

LEMMA BaseStep == Base /\ [Next]_vars => Base'
<1> SUFFICES ASSUME Base, [Next]_vars PROVE Base'
  OBVIOUS
<1>1. CASE UNCHANGED vars
  BY <1>1 DEF vars, Base, TypeOK, CountRange, PutLabels, GetLabels
<1>2. QED
  BY <1>1, BaseGetter, BasePutter DEF Next

-----------------------------------------------------------------------------
(* The counter *)

LEMMA SetFacts ==
    /\ Cardinality(Deques) \in Nat
    /\ \A f \in Futures :
        /\ IsFiniteSet(Waiters(f)) /\ Cardinality(Waiters(f)) \in Nat
        /\ IsFiniteSet(Tickets(f)) /\ Cardinality(Tickets(f)) \in Nat
        /\ Cardinality(Waiters(f)) <= Cardinality(Deques)
        /\ Cardinality(Waiters(f)) + Cardinality(Tickets(f)) <= Cardinality(Deques)
        /\ IsFiniteSet(Left(f)) /\ Cardinality(Left(f)) \in Nat
        /\ Left(f) \subseteq Waiters(f)
<1>1. Cardinality(Deques) \in Nat
  BY DequesFinite
<1>2. ASSUME NEW f \in Futures
      PROVE  /\ IsFiniteSet(Waiters(f)) /\ Cardinality(Waiters(f)) \in Nat
             /\ IsFiniteSet(Tickets(f)) /\ Cardinality(Tickets(f)) \in Nat
             /\ Cardinality(Waiters(f)) <= Cardinality(Deques)
             /\ Cardinality(Waiters(f)) + Cardinality(Tickets(f)) <= Cardinality(Deques)
             /\ IsFiniteSet(Left(f)) /\ Cardinality(Left(f)) \in Nat
             /\ Left(f) \subseteq Waiters(f)
  <2>1. Waiters(f) \subseteq Deques /\ Tickets(f) \subseteq Deques
    BY DEF Waiters, Tickets
  <2>2. /\ IsFiniteSet(Waiters(f)) /\ Cardinality(Waiters(f)) \in Nat
        /\ IsFiniteSet(Tickets(f)) /\ Cardinality(Tickets(f)) \in Nat
        /\ Cardinality(Waiters(f)) <= Cardinality(Deques)
    BY <2>1, MinAssumption, FS_Subset, FS_CardinalityType
  <2>3. Waiters(f) \cap Tickets(f) = {}
    BY DEF Waiters, Tickets, Waiting
  <2>4. Cardinality(Waiters(f) \cup Tickets(f)) = Cardinality(Waiters(f)) + Cardinality(Tickets(f))
    <3>1. Cardinality(Waiters(f) \cup Tickets(f)) =
            Cardinality(Waiters(f)) + Cardinality(Tickets(f))
              - Cardinality(Waiters(f) \cap Tickets(f))
      BY <2>2, FS_Union
    <3>2. Cardinality(Waiters(f) \cap Tickets(f)) = 0
      BY <2>3, FS_EmptySet
    <3>3. QED
      BY <2>2, <3>1, <3>2
  <2>5. Cardinality(Waiters(f) \cup Tickets(f)) <= Cardinality(Deques)
    <3>1. Waiters(f) \cup Tickets(f) \subseteq Deques
      BY <2>1
    <3>2. QED
      BY <3>1, MinAssumption, FS_Subset
  <2>6. Left(f) \subseteq Waiters(f)
    BY DEF Left
  <2>7. IsFiniteSet(Left(f)) /\ Cardinality(Left(f)) \in Nat
    BY <2>2, <2>6, FS_Subset, FS_CardinalityType
  <2>8. QED
    BY <2>2, <2>4, <2>5, <2>6, <2>7
<1>3. QED
  BY <1>1, <1>2

\* ready() is true from put on.
LEMMA ReadyAfterPut ==
    Base /\ CountInv => \A f \in Futures : Ready(f) <=> ppc[f] # "compute"
<1> SUFFICES ASSUME Base, CountInv, NEW f \in Futures PROVE Ready(f) <=> ppc[f] # "compute"
  OBVIOUS
<1>1. count[f] \in Int /\ INT32_MIN \in Int
  BY MinAssumption DEF Base, TypeOK
<1>2. CASE ppc[f] = "compute"
  BY <1>1, <1>2, SetFacts DEF CountInv, Ready
<1>3. CASE ppc[f] # "compute"
  BY <1>1, <1>3, SetFacts, MinAssumption DEF CountInv, Ready
<1>4. QED
  BY <1>2, <1>3

\* A step that leaves count and num, and each future's waiters and tickets,
\* alone.
LEMMA SameSets ==
    ASSUME CountInv, UNCHANGED <<count, num, ppc>>,
           \A f \in Futures : /\ Waiters(f)' = Waiters(f) /\ Tickets(f)' = Tickets(f)
                              /\ Left(f)' = Left(f)
    PROVE  CountInv'
BY DEF CountInv

\* Where waiters are left the list still has a cursor.
LEMMA LeftHasCursor ==
    ASSUME Base, CountInv, NEW f \in Futures, NEW d \in Left(f)
    PROVE  ppc[f] \in {"compute", "first", "more", "wake"}
<1>1. Left(f) # {} /\ IsFiniteSet(Left(f)) /\ Cardinality(Left(f)) # 0
  BY SetFacts, FS_EmptySet
<1>2. ppc[f] \in {"compute", "first", "more", "wake", "resume", "done"}
  BY DEF Base, TypeOK
<1>3. QED
  BY <1>1, <1>2 DEF CountInv

\* Where none is counted none is left.
LEMMA NoneLeft ==
    ASSUME CountInv, NEW f \in Futures, ppc[f] # "compute", num[f] = 0
    PROVE  Left(f) = {}
BY SetFacts, FS_EmptySet DEF CountInv

\* No link is in two lists.
LEMMA ListsApart ==
    ASSUME Base, PutInv, NEW f \in Futures, NEW g \in Futures, f # g
    PROVE  Live(f) \cap Live(g) = {}
<1> USE NullAssumption DEF Base, TypeOK, PutLabels
<1>1. ASSUME NEW d, d \in Listed(f), d \in Listed(g) PROVE FALSE
  BY <1>1 DEF Listed, Queued
<1>2. ASSUME NEW a \in Futures, NEW b \in Futures, a # b, NEW d \in Listed(a), d \in Cursor(b)
      PROVE  FALSE
  <2>1. d \in Deques /\ fut[d] = a /\ gpc[d] \in {"link", "suspending", "suspended"}
    BY DEF Listed, Left, Waiters, Queued
  <2>2. ppc[b] \in {"more", "wake"} /\ d = node[b]
    BY <1>2, <2>1 DEF Cursor, PutInv
  <2>3. QED
    BY <2>1, <2>2, <1>2 DEF PutInv, Linked, Awake
<1>3. ASSUME NEW l, l \in Cursor(f), l \in Cursor(g) PROVE FALSE
  BY <1>3 DEF Cursor, PutInv
<1>4. QED
  BY <1>1, <1>2, <1>3 DEF Live

LEMMA LiveIsLink ==
    ASSUME Base, NEW f \in Futures
    PROVE  /\ Live(f) \subseteq Links
           /\ Listed(f) \subseteq Deques
BY DEF Base, TypeOK, PutLabels, Live, Cursor, Listed, Left, Waiters, Links

\* A strand on its way into the list: put has not found it and does not stand
\* on its link.
LEMMA ComingIn ==
    ASSUME Base, Good, NEW d \in Deques, gpc[d] \in {"null", "xchg", "link"}
    PROVE  /\ fut[d] \in Futures
           /\ d \in Left(fut[d])
           /\ Cursor(fut[d]) # {}
           /\ gpc[d] = "xchg" => \A g \in Futures : d \notin Live(g)
<1> USE NullAssumption DEF Base, TypeOK, PutLabels, GetLabels, Good
<1>1. fut[d] \in Futures
  OBVIOUS
<1>2. PICK f \in Futures : f = fut[d]
  BY <1>1
<1>3. d \in Left(f)
  BY <1>2 DEF Left, Waiters, Waiting, Found, PutInv, Linked
<1>4. Cursor(f) # {}
  BY <1>3, LeftHasCursor DEF Cursor
<1>5. ASSUME gpc[d] = "xchg", NEW g \in Futures, d \in Live(g) PROVE FALSE
  <2>1. d \in Cursor(g)
    BY <1>5 DEF Live, Listed, Queued
  <2>2. ppc[g] \in {"more", "wake"} /\ d = node[g]
    BY <2>1 DEF Cursor, PutInv
  <2>3. QED
    BY <1>5, <2>2 DEF PutInv, Linked, Awake
<1>6. QED
  BY <1>2, <1>3, <1>4, <1>5

-----------------------------------------------------------------------------
(* The getters' actions *)

\* Steps that leave the lists as they are.
LEMMA ListKept ==
    ASSUME ListInv, UNCHANGED <<tail, next, old>>,
           \A f \in Futures : Listed(f)' = Listed(f) /\ Cursor(f)' = Cursor(f),
           \A f \in Futures : \A d \in Deques : Linked(d, f) => Linked(d, f)',
           \A f \in Futures : Listed(f) \subseteq Deques,
           \A d \in Deques : gpc'[d] = "xchg" => gpc[d] = "xchg"
    PROVE  ListInv'
<1>1. \A f \in Futures : Live(f)' = Live(f)
  BY DEF Live
<1>2. QED
  BY <1>1 DEF ListInv

\* A strand that is not waiting moves on without starting to wait.
LEMMA RunStep ==
    ASSUME Base, Base', Good, NEW d \in Deques,
           gpc[d] \in {"run", "ready", "ticket", "assert"},
           gpc'[d] \in {"run", "ready", "ticket", "assert"},
           gpc' = [gpc EXCEPT ![d] = gpc'[d]],
           gpc'[d] = "assert" => ppc[fut'[d]] # "compute",
           \A e \in Deques : e # d => fut'[e] = fut[e],
           \A e \in Deques : e # d => old'[e] = old[e],
           UNCHANGED <<tail, next, ppc, node, num, ret>>,
           \A f \in Futures :
               /\ ppc[f] = "compute" => count'[f] = count[f]
               /\ ppc[f] # "compute" =>
                    /\ INT32_MIN <= count'[f]
                    /\ count'[f] + Cardinality(Tickets(f)') <= INT32_MIN + Cardinality(Deques)
    PROVE  Good'
<1> USE DEF Base, TypeOK
<1>1. \A f \in Futures : \A e \in Deques :
        /\ Waiting(e, f)' <=> Waiting(e, f)
        /\ Queued(e, f)' <=> Queued(e, f)
        /\ Linked(e, f)' <=> Linked(e, f)
        /\ Found(f, e)' <=> Found(f, e)
  <2>1. ASSUME NEW f \in Futures, NEW e \in Deques, e # d
        PROVE  gpc'[e] = gpc[e] /\ fut'[e] = fut[e]
    BY <2>1
  <2>2. QED
    BY <2>1 DEF Waiting, Queued, Linked, Found
<1>2. \A f \in Futures : /\ Waiters(f)' = Waiters(f)
                         /\ Left(f)' = Left(f)
                         /\ Listed(f)' = Listed(f)
                         /\ Cursor(f)' = Cursor(f)
  <2>1. \A f \in Futures : Waiters(f)' = Waiters(f)
    BY <1>1 DEF Waiters
  <2>2. \A f \in Futures : Left(f)' = Left(f)
    BY <1>1, <2>1 DEF Left, Waiters
  <2>3. \A f \in Futures : Listed(f)' = Listed(f)
    BY <1>1, <2>2 DEF Listed, Left, Waiters
  <2>4. QED
    BY <2>1, <2>2, <2>3 DEF Cursor
<1>3. CountInv'
  BY <1>2 DEF Good, CountInv
<1>4. GetInv'
  BY DEF Good, GetInv
<1>5. PutInv'
  <2>1. \A e \in Deques : gpc[e] \in Awake => gpc'[e] \in Awake
    BY DEF Awake
  <2>2. QED
    BY <1>1, <2>1, NullAssumption DEF Good, PutInv, PutLabels
<1>6. ListInv'
  <2>1. \A f \in Futures : \A e \in Listed(f) : e # d /\ e \in Deques
    BY DEF Listed, Left, Waiters, Queued
  <2>2. \A f \in Futures : Live(f)' = Live(f)
    BY <1>2 DEF Live
  <2>3. \A f \in Futures : \A e \in Listed(f) : old'[e] = old[e]
    BY <2>1
  <2>4. \A e \in Deques : gpc'[e] = "xchg" => gpc[e] = "xchg"
    OBVIOUS
  <2>5. ASSUME NEW f \in Futures
        PROVE  /\ \A e \in Listed(f)' : old'[e] \in Live(f)'
               /\ \A e, a \in Listed(f)' : old'[e] = old'[a] => e = a
               /\ Cursor(f)' # {} =>
                   tail'[f] \in Live(f)' /\ \A e \in Listed(f)' : old'[e] # tail'[f]
               /\ \A l \in Live(f)' : next'[l] # NULL =>
                   next'[l] \in Listed(f)' /\ Linked(next[l], f)' /\ old'[next'[l]] = l
    <3>1. /\ \A e \in Listed(f) : old[e] \in Live(f)
          /\ \A e, a \in Listed(f) : old[e] = old[a] => e = a
          /\ Cursor(f) # {} =>
              tail[f] \in Live(f) /\ \A e \in Listed(f) : old[e] # tail[f]
          /\ \A l \in Live(f) : next[l] # NULL =>
              next[l] \in Listed(f) /\ Linked(next[l], f) /\ old[next[l]] = l
      BY DEF Good, ListInv
    <3>2. \A e \in Deques : Linked(e, f) => Linked(e, f)'
      BY <1>1
    <3>3. /\ Listed(f)' = Listed(f) /\ Cursor(f)' = Cursor(f) /\ Live(f)' = Live(f)
          /\ tail' = tail /\ next' = next
          /\ \A e \in Listed(f) : old'[e] = old[e] /\ e \in Deques
      BY <1>2, <2>1, <2>2, <2>3
    <3>4. \A l \in Live(f) : next[l] # NULL => Linked(next[l], f)'
      BY <3>1, <3>2, <3>3 DEF Linked
    <3>5. QED
      BY <3>1, <3>3, <3>4
  <2>6. \A e \in Deques : gpc'[e] = "xchg" => next'[e] = NULL
    BY <2>4 DEF Good, ListInv
  <2>7. QED
    BY <2>5, <2>6 DEF ListInv
<1>7. QED
  BY <1>3, <1>4, <1>5, <1>6 DEF Good

LEMMA GetStep ==
    ASSUME Base, Base', Good, NEW d \in Deques, NEW f \in Futures, Get(d, f)
    PROVE  Good'
<1>1. /\ gpc[d] = "run" /\ fut[d] = NULL
      /\ gpc' = [gpc EXCEPT ![d] = "ready"] /\ fut' = [fut EXCEPT ![d] = f]
      /\ UNCHANGED <<count, tail, next, old, ppc, node, num, ret>>
  BY DEF Get, Goto, putVars, Base, GetLabels
<1>2. gpc'[d] = "ready" /\ \A e \in Deques : e # d => fut'[e] = fut[e]
  BY <1>1 DEF Base, TypeOK
<1>3. \A g \in Futures : Tickets(g)' = Tickets(g)
  BY <1>1, NullAssumption DEF Tickets, Base, TypeOK
<1>4. \A g \in Futures : ppc[g] # "compute" =>
        /\ INT32_MIN <= count'[g]
        /\ count'[g] + Cardinality(Tickets(g)') <= INT32_MIN + Cardinality(Deques)
  BY <1>1, <1>3 DEF Good, CountInv
<1>5. QED
  BY <1>1, <1>2, <1>4, RunStep

LEMMA CheckReadyStep ==
    ASSUME Base, Base', Good, NEW d \in Deques, CheckReady(d)
    PROVE  Good'
<1>1. PICK f \in Futures : f = fut[d] /\ gpc[d] = "ready"
  BY NullAssumption DEF CheckReady, Base, TypeOK, GetLabels
<1>2. /\ gpc' = [gpc EXCEPT ![d] = IF Ready(f) THEN "assert" ELSE "ticket"]
      /\ UNCHANGED <<count, tail, next, fut, old, ppc, node, num, ret>>
  BY <1>1 DEF CheckReady, Goto, putVars
<1>3. Ready(f) <=> ppc[f] # "compute"
  BY ReadyAfterPut DEF Good
<1>4. /\ gpc'[d] = IF Ready(f) THEN "assert" ELSE "ticket"
      /\ gpc'[d] \in {"ticket", "assert"}
      /\ gpc' = [gpc EXCEPT ![d] = gpc'[d]]
      /\ gpc'[d] = "assert" => ppc[fut'[d]] # "compute"
  BY <1>1, <1>2, <1>3 DEF Base, TypeOK
<1>5. \A g \in Futures : ppc[g] # "compute" => Tickets(g)' = Tickets(g)
  BY <1>1, <1>2, <1>3 DEF Tickets, Base, TypeOK
<1>6. \A g \in Futures : ppc[g] # "compute" =>
        /\ INT32_MIN <= count'[g]
        /\ count'[g] + Cardinality(Tickets(g)') <= INT32_MIN + Cardinality(Deques)
  BY <1>2, <1>5 DEF Good, CountInv
<1>7. QED
  BY <1>1, <1>2, <1>4, <1>6, RunStep

LEMMA ReturnStep ==
    ASSUME Base, Base', Good, NEW d \in Deques, Return(d)
    PROVE  Good'
<1>1. /\ gpc[d] = "assert"
      /\ gpc' = [gpc EXCEPT ![d] = "run"]
      /\ fut' = [fut EXCEPT ![d] = NULL] /\ old' = [old EXCEPT ![d] = NULL]
      /\ UNCHANGED <<count, tail, next, ppc, node, num, ret>>
  BY DEF Return, Goto, putVars
<1>2. gpc'[d] = "run" /\ \A e \in Deques : e # d => fut'[e] = fut[e] /\ old'[e] = old[e]
  BY <1>1 DEF Base, TypeOK
<1>3. \A g \in Futures : Tickets(g)' = Tickets(g)
  BY <1>1, NullAssumption DEF Tickets, Base, TypeOK
<1>4. \A g \in Futures : ppc[g] # "compute" =>
        /\ INT32_MIN <= count'[g]
        /\ count'[g] + Cardinality(Tickets(g)') <= INT32_MIN + Cardinality(Deques)
  BY <1>1, <1>3 DEF Good, CountInv
<1>5. QED
  BY <1>1, <1>2, <1>4, RunStep

LEMMA TakeTicketStep ==
    ASSUME Base, Base', Good, NEW d \in Deques, TakeTicket(d)
    PROVE  Good'
<1> USE MinAssumption, NullAssumption
<1>1. PICK f \in Futures : f = fut[d] /\ gpc[d] = "ticket" /\ count[f] \in Int
  BY DEF TakeTicket, Base, TypeOK, GetLabels
<1>2. /\ count' = [count EXCEPT ![f] = @ + 1]
      /\ gpc' = [gpc EXCEPT ![d] = IF count[f] >= 0 THEN "null" ELSE "assert"]
      /\ UNCHANGED <<tail, next, fut, old, ppc, node, num, ret>>
  BY <1>1 DEF TakeTicket, Goto, putVars, MustSuspend
<1>3. count[f] >= 0 <=> ppc[f] = "compute"
  BY <1>1, ReadyAfterPut DEF Ready, Good
<1>4. d \in Tickets(f) /\ d \notin Waiters(f)
  BY <1>1 DEF Tickets, Waiters, Waiting
<1>5. /\ \A g \in Futures \ {f} : Waiters(g)' = Waiters(g) /\ Tickets(g)' = Tickets(g)
      /\ \A g \in Futures \ {f} : count'[g] = count[g]
      /\ count'[f] = count[f] + 1
  BY <1>1, <1>2 DEF Waiters, Tickets, Waiting, Base, TypeOK
<1>6. CASE ppc[f] # "compute"
  <2>1. gpc' = [gpc EXCEPT ![d] = "assert"] /\ gpc'[d] = "assert"
    BY <1>2, <1>3, <1>6 DEF Base, TypeOK
  <2>2. Tickets(f)' = Tickets(f) \ {d}
    BY <2>1, <1>1, <1>2 DEF Tickets, Base, TypeOK
  <2>3. Cardinality(Tickets(f)') = Cardinality(Tickets(f)) - 1
    <3>1. IsFiniteSet(Tickets(f))
      BY SetFacts
    <3>2. Cardinality(Tickets(f) \ {d}) = Cardinality(Tickets(f)) - 1
      BY <3>1, <1>4, FS_RemoveElement
    <3>3. QED
      BY <2>2, <3>2
  <2>4. /\ INT32_MIN <= count[f]
        /\ count[f] + Cardinality(Tickets(f)) <= INT32_MIN + Cardinality(Deques)
    BY <1>6 DEF Good, CountInv
  <2>5. /\ INT32_MIN <= count'[f]
        /\ count'[f] + Cardinality(Tickets(f)') <= INT32_MIN + Cardinality(Deques)
    BY <2>3, <2>4, <1>1, <1>5, SetFacts
  <2>6. \A g \in Futures :
          /\ ppc[g] = "compute" => count'[g] = count[g]
          /\ ppc[g] # "compute" =>
              /\ INT32_MIN <= count'[g]
              /\ count'[g] + Cardinality(Tickets(g)') <= INT32_MIN + Cardinality(Deques)
    <3>1. ASSUME NEW g \in Futures, g # f
          PROVE  /\ ppc[g] = "compute" => count'[g] = count[g]
                 /\ ppc[g] # "compute" =>
                     /\ INT32_MIN <= count'[g]
                     /\ count'[g] + Cardinality(Tickets(g)') <= INT32_MIN + Cardinality(Deques)
      BY <3>1, <1>5 DEF Good, CountInv
    <3>2. QED
      BY <3>1, <2>5, <1>6
  <2>7. ppc[fut'[d]] # "compute"
    BY <1>1, <1>2, <1>6
  <2>8. QED
    BY <2>1, <2>6, <2>7, <1>1, <1>2, RunStep
<1>7. CASE ppc[f] = "compute"
  <2>1. gpc' = [gpc EXCEPT ![d] = "null"] /\ gpc'[d] = "null"
    BY <1>2, <1>3, <1>7 DEF Base, TypeOK
  <2>2. \A g \in Futures : \A e \in Deques :
          /\ e # d => (Waiting(e, g)' <=> Waiting(e, g))
          /\ Queued(e, g)' <=> Queued(e, g)
          /\ Linked(e, g)' <=> Linked(e, g)
          /\ Found(g, e)' <=> Found(g, e)
    BY <2>1, <1>1, <1>2 DEF Waiting, Queued, Linked, Found, Base, TypeOK
  <2>3. Waiters(f)' = Waiters(f) \cup {d}
    BY <2>1, <1>1, <1>2 DEF Waiters, Waiting, Base, TypeOK
  <2>4. Cardinality(Waiters(f)') = Cardinality(Waiters(f)) + 1
    BY <2>3, <1>1, <1>4, SetFacts, FS_AddElement
  <2>5. \A g \in Futures \ {f} : Left(g)' = Left(g)
    BY <2>2, <1>5 DEF Left, Waiters
  <2>6. CountInv'
    <3>1. count[f] = Cardinality(Waiters(f))
      BY <1>7 DEF Good, CountInv
    <3>2. ASSUME NEW g \in Futures, g # f
          PROVE  /\ ppc[g] = "compute" => count'[g] = Cardinality(Waiters(g)')
                 /\ ppc[g] # "compute" =>
                     /\ INT32_MIN <= count'[g]
                     /\ count'[g] + Cardinality(Tickets(g)') <= INT32_MIN + Cardinality(Deques)
                     /\ num[g] = Cardinality(Left(g)')
                 /\ ppc[g] \in {"resume", "done"} => num[g] = 0
      BY <3>2, <1>5, <2>5 DEF Good, CountInv
    <3>3. count'[f] = Cardinality(Waiters(f)')
      BY <3>1, <1>5, <2>4
    <3>4. ASSUME NEW g \in Futures
          PROVE  /\ ppc[g] = "compute" => count'[g] = Cardinality(Waiters(g)')
                 /\ ppc[g] # "compute" =>
                     /\ INT32_MIN <= count'[g]
                     /\ count'[g] + Cardinality(Tickets(g)') <= INT32_MIN + Cardinality(Deques)
                     /\ num[g] = Cardinality(Left(g)')
                 /\ ppc[g] \in {"resume", "done"} => num[g] = 0
      BY <3>2, <3>3, <1>7
    <3>5. QED
      BY <3>4, <1>2 DEF CountInv
  <2>7. \A g \in Futures : Listed(g)' = Listed(g) /\ Cursor(g)' = Cursor(g)
    <3>1. ASSUME NEW g \in Futures, NEW e \in Deques
          PROVE  e \in Listed(g)' <=> e \in Listed(g)
      BY <2>2, <1>1, <2>1 DEF Listed, Left, Waiters, Queued
    <3>2. \A g \in Futures : Listed(g) \subseteq Deques /\ Listed(g)' \subseteq Deques
      BY DEF Listed, Left, Waiters
    <3>3. QED
      BY <3>1, <3>2, <1>2 DEF Cursor
  <2>8. GetInv'
    BY <2>1, <1>2 DEF Good, GetInv, Base, TypeOK
  <2>9. PutInv'
    <3>1. \A e \in Deques : gpc[e] \in Awake => gpc'[e] \in Awake
      BY <2>1 DEF Awake, Base, TypeOK
    <3>2. QED
      BY <2>2, <3>1, <1>2 DEF Good, PutInv, PutLabels, Base
  <2>10. ListInv'
    <3>1. \A e \in Deques : gpc'[e] = "xchg" => gpc[e] = "xchg"
      BY <2>1 DEF Base, TypeOK
    <3>2. \A g \in Futures : Listed(g) \subseteq Deques
      BY LiveIsLink
    <3>3. QED
      BY <2>2, <2>7, <3>1, <3>2, <1>2, ListKept DEF Good
  <2>11. QED
    BY <2>6, <2>8, <2>9, <2>10 DEF Good
<1>8. QED
  BY <1>6, <1>7

\* A strand goes on towards, or in, the list of f: the waiters are the same.
LEMMA WaitStep ==
    ASSUME Base, Base', Good, NEW d \in Deques,
           gpc[d] \in {"null", "xchg", "link", "suspending"},
           gpc'[d] \in {"xchg", "link", "suspending", "suspended"},
           gpc' = [gpc EXCEPT ![d] = gpc'[d]],
           gpc[d] = "suspending" => gpc'[d] = "suspended",
           UNCHANGED <<count, fut, ppc, node, num, ret>>,
           \A f \in Futures : ~(ppc[f] = "more" /\ node[f] = d /\ gpc[d] = "null")
    PROVE  /\ CountInv' /\ GetInv' /\ PutInv'
           /\ \A f \in Futures : Left(f)' = Left(f) /\ Cursor(f)' = Cursor(f)
           /\ \A f \in Futures : \A e \in Deques : Linked(e, f) => Linked(e, f)'
<1> USE DEF Base, TypeOK
<1>0. fut[d] \in Futures
  BY NullAssumption DEF GetLabels
<1>1. \A f \in Futures : \A e \in Deques :
        /\ Waiting(e, f)' <=> Waiting(e, f)
        /\ Linked(e, f) => Linked(e, f)'
        /\ Found(f, e)' <=> Found(f, e)
        /\ e # d => gpc'[e] = gpc[e]
  BY DEF Waiting, Linked, Found
<1>2. \A f \in Futures : /\ Waiters(f)' = Waiters(f)
                         /\ Tickets(f)' = Tickets(f)
                         /\ Left(f)' = Left(f)
                         /\ Cursor(f)' = Cursor(f)
  <2>1. \A f \in Futures : Waiters(f)' = Waiters(f)
    BY <1>1 DEF Waiters
  <2>2. \A f \in Futures : Left(f)' = Left(f)
    BY <1>1, <2>1 DEF Left, Waiters
  <2>3. \A f \in Futures : Tickets(f)' = Tickets(f)
    BY <1>1 DEF Tickets
  <2>4. QED
    BY <2>1, <2>2, <2>3 DEF Cursor
<1>3. CountInv'
  BY <1>2, SameSets DEF Good
<1>4. GetInv'
  BY <1>1 DEF Good, GetInv
<1>5. PutInv'
  <2>1. ASSUME NEW f \in Futures, ppc[f] = "more"
        PROVE  /\ node[f] \in Deques
               /\ node[f] = ret[f] \/ gpc'[node[f]] \in Awake
    <3>1. node[f] \in Deques /\ (node[f] = ret[f] \/ gpc[node[f]] \in Awake)
      BY <2>1 DEF Good, PutInv
    <3>2. node[f] = d => gpc[d] \notin Awake
      BY <2>1 DEF Awake
    <3>3. QED
      BY <3>1, <3>2, <1>1
  <2>2. \A f \in Futures :
          /\ ppc[f] = "wake" => Linked(node[f], f)' /\ node[f] # ret[f]
          /\ ppc[f] \in {"more", "wake", "resume"} => Linked(ret[f], f)'
    BY <1>1 DEF Good, PutInv, PutLabels
  <2>3. QED
    BY <2>1, <2>2 DEF Good, PutInv
<1>6. QED
  BY <1>1, <1>2, <1>3, <1>4, <1>5

LEMMA SuspendStep ==
    ASSUME Base, Base', Good, NEW d \in Deques, Suspend(d)
    PROVE  Good'
<1>1. /\ gpc[d] = "suspending" /\ gpc' = [gpc EXCEPT ![d] = "suspended"]
      /\ UNCHANGED <<count, tail, next, fut, old, ppc, node, num, ret>>
  BY DEF Suspend, Goto, putVars
<1>2. gpc'[d] = "suspended" /\ \A e \in Deques : e # d => gpc'[e] = gpc[e]
  BY <1>1 DEF Base, TypeOK
<1>3. /\ CountInv' /\ GetInv' /\ PutInv'
      /\ \A f \in Futures : Left(f)' = Left(f) /\ Cursor(f)' = Cursor(f)
      /\ \A f \in Futures : \A e \in Deques : Linked(e, f) => Linked(e, f)'
  BY <1>1, <1>2, WaitStep
<1>4. \A f \in Futures : Listed(f)' = Listed(f)
  <2>1. \A f \in Futures : \A e \in Deques : Queued(e, f)' <=> Queued(e, f)
    BY <1>1, <1>2 DEF Queued
  <2>2. \A f \in Futures : Left(f) \subseteq Deques
    BY DEF Left, Waiters
  <2>3. QED
    BY <1>3, <2>1, <2>2 DEF Listed
<1>5. \A e \in Deques : gpc'[e] = "xchg" => gpc[e] = "xchg"
  BY <1>2
<1>6. ListInv'
  BY <1>1, <1>3, <1>4, <1>5, LiveIsLink, ListKept DEF Good
<1>7. QED
  BY <1>3, <1>6 DEF Good

LEMMA ClearLinkStep ==
    ASSUME Base, Base', Good, NEW d \in Deques, ClearLink(d), ~strayed'
    PROVE  Good'
<1>1. /\ gpc[d] = "null" /\ gpc' = [gpc EXCEPT ![d] = "xchg"]
      /\ next' = [next EXCEPT ![d] = NULL]
      /\ ~Followed(d)
      /\ UNCHANGED <<count, tail, fut, old, ppc, node, num, ret>>
  BY DEF ClearLink, Goto
<1>2. /\ gpc'[d] = "xchg" /\ \A e \in Deques : e # d => gpc'[e] = gpc[e]
      /\ next'[d] = NULL /\ \A l \in Links : l # d => next'[l] = next[l]
  BY <1>1 DEF Base, TypeOK, Links
<1>3. /\ CountInv' /\ GetInv' /\ PutInv'
      /\ \A f \in Futures : Left(f)' = Left(f) /\ Cursor(f)' = Cursor(f)
      /\ \A f \in Futures : \A e \in Deques : Linked(e, f) => Linked(e, f)'
  BY <1>1, <1>2, WaitStep DEF Followed
<1>4. \A f \in Futures : Listed(f)' = Listed(f)
  <2>1. \A f \in Futures : \A e \in Deques : Queued(e, f)' <=> Queued(e, f)
    BY <1>1, <1>2 DEF Queued
  <2>2. \A f \in Futures : Left(f) \subseteq Deques
    BY DEF Left, Waiters
  <2>3. QED
    BY <1>3, <2>1, <2>2 DEF Listed
<1>5. \A f \in Futures : Live(f)' = Live(f)
  BY <1>3, <1>4 DEF Live
<1>6. \A e \in Deques : gpc'[e] = "xchg" => next'[e] = NULL
  BY <1>2 DEF Good, ListInv, Links
<1>7. ASSUME NEW f \in Futures
      PROVE  /\ \A e \in Listed(f)' : old'[e] \in Live(f)'
             /\ \A e, a \in Listed(f)' : old'[e] = old'[a] => e = a
             /\ Cursor(f)' # {} =>
                 tail'[f] \in Live(f)' /\ \A e \in Listed(f)' : old'[e] # tail'[f]
             /\ \A l \in Live(f)' : next'[l] # NULL =>
                 next'[l] \in Listed(f)' /\ Linked(next[l], f)' /\ old'[next'[l]] = l
  <2>1. /\ \A e \in Listed(f) : old[e] \in Live(f)
        /\ \A e, a \in Listed(f) : old[e] = old[a] => e = a
        /\ Cursor(f) # {} =>
            tail[f] \in Live(f) /\ \A e \in Listed(f) : old[e] # tail[f]
        /\ \A l \in Live(f) : next[l] # NULL =>
            next[l] \in Listed(f) /\ Linked(next[l], f) /\ old[next[l]] = l
    BY DEF Good, ListInv
  <2>2. Live(f) \subseteq Links /\ Listed(f) \subseteq Deques
    BY LiveIsLink
  <2>3. \A l \in Live(f) : next'[l] # NULL =>
            next'[l] = next[l] /\ next[l] \in Listed(f) /\ old[next[l]] = l
    BY <1>2, <2>1, <2>2
  <2>4. \A l \in Live(f) : next'[l] # NULL => Linked(next[l], f)'
    <3>1. ASSUME NEW l \in Live(f), next'[l] # NULL PROVE Linked(next[l], f)'
      <4>1. PICK e \in Deques : e = next[l]
        BY <3>1, <2>2, <2>3
      <4>2. next'[l] = e /\ Linked(e, f)
        BY <4>1, <3>1, <2>1, <2>3
      <4>3. Linked(e, f)'
        BY <4>2, <1>3
      <4>4. QED
        BY <4>2, <4>3 DEF Linked
    <3>2. QED
      BY <3>1
  <2>5. QED
    BY <1>1, <1>3, <1>4, <1>5, <2>1, <2>3, <2>4
<1>8. ListInv'
  BY <1>6, <1>7 DEF ListInv
<1>9. QED
  BY <1>3, <1>8 DEF Good

LEMMA ExchangeTailStep ==
    ASSUME Base, Base', Good, NEW d \in Deques, ExchangeTail(d)
    PROVE  Good'
<1>1. PICK f \in Futures : f = fut[d]
  BY ComingIn DEF ExchangeTail
<1>2. /\ gpc[d] = "xchg" /\ gpc' = [gpc EXCEPT ![d] = "link"]
      /\ old' = [old EXCEPT ![d] = tail[f]] /\ tail' = [tail EXCEPT ![f] = d]
      /\ UNCHANGED <<count, next, fut, ppc, node, num, ret>>
  BY <1>1 DEF ExchangeTail, Goto, putVars
<1>3. /\ gpc'[d] = "link" /\ \A e \in Deques : e # d => gpc'[e] = gpc[e]
      /\ old'[d] = tail[f] /\ \A e \in Deques : e # d => old'[e] = old[e]
      /\ tail'[f] = d /\ \A g \in Futures : g # f => tail'[g] = tail[g]
  BY <1>2 DEF Base, TypeOK
<1>4. /\ CountInv' /\ GetInv' /\ PutInv'
      /\ \A g \in Futures : Left(g)' = Left(g) /\ Cursor(g)' = Cursor(g)
      /\ \A g \in Futures : \A e \in Deques : Linked(e, g) => Linked(e, g)'
  BY <1>2, <1>3, WaitStep
<1>5. /\ d \in Left(f) /\ Cursor(f) # {}
      /\ \A g \in Futures : d \notin Live(g)
      /\ next[d] = NULL
  BY <1>1, <1>2, ComingIn DEF Good, ListInv
<1>6. /\ Listed(f)' = Listed(f) \cup {d}
      /\ \A g \in Futures : g # f => Listed(g)' = Listed(g)
  <2>1. \A g \in Futures : \A e \in Deques :
          Queued(e, g)' <=> Queued(e, g) \/ (e = d /\ g = f)
    BY <1>1, <1>2, <1>3 DEF Queued
  <2>2. \A g \in Futures : Left(g) \subseteq Deques
    BY DEF Left, Waiters
  <2>3. QED
    BY <1>4, <1>5, <2>1, <2>2 DEF Listed
<1>7. /\ Live(f)' = Live(f) \cup {d}
      /\ \A g \in Futures : g # f => Live(g)' = Live(g)
      /\ \A g \in Futures : d \notin Listed(g)
  BY <1>4, <1>5, <1>6 DEF Live
<1>8. \A e \in Deques : gpc'[e] = "xchg" => next'[e] = NULL
  BY <1>2, <1>3 DEF Good, ListInv
<1>9. ASSUME NEW g \in Futures
      PROVE  /\ \A e \in Listed(g)' : old'[e] \in Live(g)'
             /\ \A e, a \in Listed(g)' : old'[e] = old'[a] => e = a
             /\ Cursor(g)' # {} =>
                 tail'[g] \in Live(g)' /\ \A e \in Listed(g)' : old'[e] # tail'[g]
             /\ \A l \in Live(g)' : next'[l] # NULL =>
                 next'[l] \in Listed(g)' /\ Linked(next[l], g)' /\ old'[next'[l]] = l
  <2>1. /\ \A e \in Listed(g) : old[e] \in Live(g)
        /\ \A e, a \in Listed(g) : old[e] = old[a] => e = a
        /\ Cursor(g) # {} =>
            tail[g] \in Live(g) /\ \A e \in Listed(g) : old[e] # tail[g]
        /\ \A l \in Live(g) : next[l] # NULL =>
            next[l] \in Listed(g) /\ Linked(next[l], g) /\ old[next[l]] = l
    BY DEF Good, ListInv
  <2>2. Listed(g) \subseteq Deques
    BY LiveIsLink
  <2>3. \A e \in Listed(g) : e # d /\ old'[e] = old[e]
    BY <1>3, <1>7, <2>2
  <2>4. \A l \in Live(g) : next'[l] # NULL => Linked(next[l], g)'
    <3>1. ASSUME NEW l \in Live(g), next'[l] # NULL PROVE Linked(next[l], g)'
      <4>1. PICK e \in Deques : e = next[l]
        BY <3>1, <2>1, <2>2, <1>2
      <4>2. next'[l] = e /\ Linked(e, g)
        BY <4>1, <3>1, <2>1, <1>2
      <4>3. Linked(e, g)'
        BY <4>2, <1>4
      <4>4. QED
        BY <4>2, <4>3 DEF Linked
    <3>2. QED
      BY <3>1
  <2>5. CASE g # f
    BY <1>2, <1>3, <1>4, <1>6, <1>7, <2>1, <2>3, <2>4, <2>5
  <2>6. CASE g = f
    <3>1. \A e \in Listed(g)' : (e = d /\ old'[e] = tail[f]) \/ (e \in Listed(g) /\ old'[e] = old[e])
      BY <1>3, <1>6, <2>3, <2>6
    <3>2. tail[f] \in Live(f) /\ tail[f] # d /\ \A e \in Listed(f) : old[e] # tail[f] /\ old[e] # d
      BY <1>5, <2>1, <2>6
    <3>3. \A l \in Live(g)' : next'[l] # NULL =>
            l \in Live(g) /\ next'[l] = next[l]
      BY <1>2, <1>5, <1>7, <2>6
    <3>4. QED
      <4>1. \A e \in Listed(g)' : old'[e] \in Live(g)'
        BY <1>7, <2>1, <2>6, <3>1, <3>2
      <4>2. \A e, a \in Listed(g)' : old'[e] = old'[a] => e = a
        BY <2>1, <2>6, <3>1, <3>2
      <4>3. tail'[g] \in Live(g)' /\ \A e \in Listed(g)' : old'[e] # tail'[g]
        BY <1>3, <1>7, <2>6, <3>1, <3>2
      <4>4. \A l \in Live(g)' : next'[l] # NULL =>
              next'[l] \in Listed(g)' /\ Linked(next[l], g)' /\ old'[next'[l]] = l
        BY <1>6, <2>1, <2>3, <2>4, <2>6, <3>3
      <4>5. QED
        BY <4>1, <4>2, <4>3, <4>4
  <2>7. QED
    BY <2>5, <2>6
<1>10. ListInv'
  BY <1>8, <1>9 DEF ListInv
<1>11. QED
  BY <1>4, <1>10 DEF Good

LEMMA LinkBehindOldStep ==
    ASSUME Base, Base', Good, NEW d \in Deques, LinkBehindOld(d)
    PROVE  Good'
<1>1. PICK f \in Futures : f = fut[d]
  BY ComingIn DEF LinkBehindOld
<1>2. /\ gpc[d] = "link" /\ gpc' = [gpc EXCEPT ![d] = "suspending"]
      /\ next' = [next EXCEPT ![old[d]] = d]
      /\ UNCHANGED <<count, tail, fut, old, ppc, node, num, ret>>
  BY DEF LinkBehindOld, Goto, putVars
<1>3. old[d] \in Links
  BY <1>2 DEF Base, GetLabels
<1>4. /\ gpc'[d] = "suspending" /\ \A e \in Deques : e # d => gpc'[e] = gpc[e]
      /\ next'[old[d]] = d /\ \A l \in Links : l # old[d] => next'[l] = next[l]
  BY <1>2, <1>3 DEF Base, TypeOK
<1>5. /\ CountInv' /\ GetInv' /\ PutInv'
      /\ \A g \in Futures : Left(g)' = Left(g) /\ Cursor(g)' = Cursor(g)
      /\ \A g \in Futures : \A e \in Deques : Linked(e, g) => Linked(e, g)'
  BY <1>2, <1>4, WaitStep
<1>6. /\ d \in Listed(f) /\ old[d] \in Live(f) /\ Linked(d, f)'
      /\ \A g \in Futures : g # f => old[d] \notin Live(g)
  <2>1. d \in Listed(f)
    BY <1>1, <1>2, ComingIn DEF Listed, Queued
  <2>2. old[d] \in Live(f)
    BY <2>1 DEF Good, ListInv
  <2>3. Linked(d, f)'
    BY <1>1, <1>2, <1>4 DEF Linked
  <2>4. QED
    BY <2>1, <2>2, <2>3, ListsApart DEF Good
<1>7. \A g \in Futures : Listed(g)' = Listed(g) /\ Live(g)' = Live(g)
  <2>1. \A g \in Futures : \A e \in Deques : Queued(e, g)' <=> Queued(e, g)
    BY <1>1, <1>2, <1>4 DEF Queued
  <2>2. \A g \in Futures : Left(g) \subseteq Deques
    BY DEF Left, Waiters
  <2>3. \A g \in Futures : Listed(g)' = Listed(g)
    BY <1>5, <2>1, <2>2 DEF Listed
  <2>4. QED
    BY <1>5, <2>3 DEF Live
<1>8. \A e \in Deques : gpc'[e] = "xchg" => next'[e] = NULL
  <2>1. ASSUME NEW e \in Deques, gpc'[e] = "xchg" PROVE next'[e] = NULL
    <3>1. gpc[e] = "xchg"
      BY <1>4, <2>1
    <3>2. e # old[d] /\ next[e] = NULL
      BY <3>1, <1>6, ComingIn DEF Good, ListInv
    <3>3. QED
      BY <3>2, <1>4 DEF Links
  <2>2. QED
    BY <2>1
<1>9. ASSUME NEW g \in Futures
      PROVE  /\ \A e \in Listed(g)' : old'[e] \in Live(g)'
             /\ \A e, a \in Listed(g)' : old'[e] = old'[a] => e = a
             /\ Cursor(g)' # {} =>
                 tail'[g] \in Live(g)' /\ \A e \in Listed(g)' : old'[e] # tail'[g]
             /\ \A l \in Live(g)' : next'[l] # NULL =>
                 next'[l] \in Listed(g)' /\ Linked(next[l], g)' /\ old'[next'[l]] = l
  <2>1. /\ \A e \in Listed(g) : old[e] \in Live(g)
        /\ \A e, a \in Listed(g) : old[e] = old[a] => e = a
        /\ Cursor(g) # {} =>
            tail[g] \in Live(g) /\ \A e \in Listed(g) : old[e] # tail[g]
        /\ \A l \in Live(g) : next[l] # NULL =>
            next[l] \in Listed(g) /\ Linked(next[l], g) /\ old[next[l]] = l
    BY DEF Good, ListInv
  <2>2. Live(g) \subseteq Links /\ Listed(g) \subseteq Deques
    BY LiveIsLink
  <2>3. ASSUME NEW l \in Live(g), next'[l] # NULL
        PROVE  next'[l] \in Listed(g) /\ Linked(next[l], g)' /\ old[next'[l]] = l
    <3>1. CASE l = old[d]
      <4>1. next'[l] = d /\ g = f
        BY <3>1, <1>4, <1>6
      <4>2. Linked(next[l], g)'
        BY <4>1, <1>6 DEF Linked
      <4>3. QED
        BY <4>1, <4>2, <3>1, <1>6
    <3>2. CASE l # old[d]
      <4>1. next'[l] = next[l]
        BY <3>2, <1>4, <2>2
      <4>2. PICK e \in Deques : e = next[l]
        BY <4>1, <2>1, <2>2, <2>3
      <4>3. next'[l] = e /\ Linked(e, g) /\ e \in Listed(g) /\ old[e] = l
        BY <4>1, <4>2, <2>1, <2>3
      <4>4. Linked(e, g)'
        BY <4>3, <1>5
      <4>5. QED
        BY <4>3, <4>4 DEF Linked
    <3>3. QED
      BY <3>1, <3>2
  <2>4. QED
    BY <1>2, <1>5, <1>7, <2>1, <2>3
<1>10. ListInv'
  BY <1>8, <1>9 DEF ListInv
<1>11. QED
  BY <1>5, <1>10 DEF Good

-----------------------------------------------------------------------------
(* put's actions, and reset *)

\* A list whose links stay as they are, or that is over.
LEMMA ListOrOver ==
    ASSUME ListInv, UNCHANGED <<tail, next, old>>,
           \A f \in Futures :
               /\ Listed(f)' = Listed(f)
               /\ Cursor(f)' = Cursor(f) \/ (Cursor(f)' = {} /\ Listed(f) = {})
               /\ \A e \in Listed(f) : Linked(e, f) => Linked(e, f)',
           \A d \in Deques : gpc'[d] = "xchg" => gpc[d] = "xchg"
    PROVE  ListInv'
<1>2. \A e \in Deques : gpc'[e] = "xchg" => next'[e] = NULL
  BY DEF ListInv
<1>3. ASSUME NEW f \in Futures, Live(f)' = Live(f), Cursor(f)' = Cursor(f)
      PROVE  /\ \A e \in Listed(f)' : old'[e] \in Live(f)'
             /\ \A e, a \in Listed(f)' : old'[e] = old'[a] => e = a
             /\ Cursor(f)' # {} =>
                 tail'[f] \in Live(f)' /\ \A e \in Listed(f)' : old'[e] # tail'[f]
             /\ \A l \in Live(f)' : next'[l] # NULL =>
                 next'[l] \in Listed(f)' /\ Linked(next[l], f)' /\ old'[next'[l]] = l
  <2>1. /\ \A e \in Listed(f) : old[e] \in Live(f)
        /\ \A e, a \in Listed(f) : old[e] = old[a] => e = a
        /\ Cursor(f) # {} =>
            tail[f] \in Live(f) /\ \A e \in Listed(f) : old[e] # tail[f]
        /\ \A l \in Live(f) : next[l] # NULL =>
            next[l] \in Listed(f) /\ Linked(next[l], f) /\ old[next[l]] = l
    BY DEF ListInv
  <2>2. ASSUME NEW l \in Live(f), next[l] # NULL PROVE Linked(next[l], f)'
    <3>1. PICK e \in Listed(f) : e = next[l] /\ Linked(e, f)
      BY <2>1, <2>2
    <3>2. Linked(e, f)'
      BY <3>1
    <3>3. QED
      BY <3>1, <3>2 DEF Linked
  <2>3. QED
    BY <1>3, <2>1, <2>2
<1>4. ASSUME NEW f \in Futures
      PROVE  /\ \A e \in Listed(f)' : old'[e] \in Live(f)'
             /\ \A e, a \in Listed(f)' : old'[e] = old'[a] => e = a
             /\ Cursor(f)' # {} =>
                 tail'[f] \in Live(f)' /\ \A e \in Listed(f)' : old'[e] # tail'[f]
             /\ \A l \in Live(f)' : next'[l] # NULL =>
                 next'[l] \in Listed(f)' /\ Linked(next[l], f)' /\ old'[next'[l]] = l
  <2>1. CASE Cursor(f)' = Cursor(f)
    <3>1. Live(f)' = Live(f)
      BY <2>1 DEF Live
    <3>2. QED
      BY <3>1, <2>1, <1>3
  <2>2. CASE Cursor(f)' = {} /\ Listed(f) = {}
    <3>1. Live(f)' = {} /\ Listed(f)' = {}
      BY <2>2 DEF Live
    <3>2. QED
      BY <3>1, <2>2
  <2>3. QED
    BY <2>1, <2>2
<1>5. QED
  BY <1>2, <1>4 DEF ListInv

LEMMA PutStep ==
    ASSUME Base, Base', Good, NEW f \in Futures, Put(f)
    PROVE  Good'
<1> USE MinAssumption DEF Base, TypeOK
<1>1. /\ ppc[f] = "compute"
      /\ count' = [count EXCEPT ![f] = count[f] + INT32_MIN]
      /\ num' = [num EXCEPT ![f] = count[f]] /\ node' = [node EXCEPT ![f] = f]
      /\ ppc' = [ppc EXCEPT ![f] = IF count[f] > 0 THEN "first" ELSE "done"]
      /\ UNCHANGED <<tail, next, ret, gpc, fut, old>>
  BY DEF Put, PGoto, getVars
<1>2. /\ count'[f] = count[f] + INT32_MIN /\ num'[f] = count[f] /\ node'[f] = f
      /\ ppc'[f] = IF count[f] > 0 THEN "first" ELSE "done"
      /\ \A g \in Futures : g # f =>
          /\ count'[g] = count[g] /\ num'[g] = num[g]
          /\ node'[g] = node[g] /\ ppc'[g] = ppc[g]
  BY <1>1
<1>3. \A g \in Futures : \A e \in Deques :
        /\ Waiting(e, g)' <=> Waiting(e, g)
        /\ Queued(e, g)' <=> Queued(e, g)
        /\ Linked(e, g)' <=> Linked(e, g)
        /\ Found(g, e)' <=> Found(g, e)
  BY <1>1, <1>2 DEF Waiting, Queued, Linked, Found
<1>4. \A g \in Futures : /\ Waiters(g)' = Waiters(g) /\ Tickets(g)' = Tickets(g)
                         /\ Left(g)' = Left(g) /\ Listed(g)' = Listed(g)
  <2>1. \A g \in Futures : Waiters(g)' = Waiters(g) /\ Tickets(g)' = Tickets(g)
    BY <1>1, <1>3 DEF Waiters, Tickets
  <2>2. \A g \in Futures : Left(g)' = Left(g)
    BY <1>3, <2>1 DEF Left, Waiters
  <2>3. QED
    BY <1>3, <2>1, <2>2 DEF Listed, Left, Waiters
<1>5. Left(f) = Waiters(f) /\ Left(f) \subseteq Deques
  BY <1>1 DEF Left, Found, Waiters
<1>6. count[f] = Cardinality(Left(f)) /\ count[f] \in Nat
  BY <1>1, <1>5, SetFacts DEF Good, CountInv
<1>7. CountInv'
  <2>1. ASSUME NEW g \in Futures, g # f
        PROVE  /\ ppc'[g] = "compute" => count'[g] = Cardinality(Waiters(g)')
               /\ ppc'[g] # "compute" =>
                   /\ INT32_MIN <= count'[g]
                   /\ count'[g] + Cardinality(Tickets(g)') <= INT32_MIN + Cardinality(Deques)
                   /\ num'[g] = Cardinality(Left(g)')
               /\ ppc'[g] \in {"resume", "done"} => num'[g] = 0
    BY <2>1, <1>2, <1>4 DEF Good, CountInv
  <2>2. /\ INT32_MIN <= count'[f]
        /\ count'[f] + Cardinality(Tickets(f)) <= INT32_MIN + Cardinality(Deques)
    <3>1. /\ Cardinality(Waiters(f)) \in Nat /\ Cardinality(Tickets(f)) \in Nat
          /\ Cardinality(Waiters(f)) + Cardinality(Tickets(f)) <= Cardinality(Deques)
          /\ Cardinality(Deques) \in Nat
      BY SetFacts
    <3>2. count[f] = Cardinality(Waiters(f))
      BY <1>5, <1>6
    <3>3. QED
      BY <3>1, <3>2, <1>2
  <2>3. ASSUME NEW g \in Futures
        PROVE  /\ ppc'[g] = "compute" => count'[g] = Cardinality(Waiters(g)')
               /\ ppc'[g] # "compute" =>
                   /\ INT32_MIN <= count'[g]
                   /\ count'[g] + Cardinality(Tickets(g)') <= INT32_MIN + Cardinality(Deques)
                   /\ num'[g] = Cardinality(Left(g)')
               /\ ppc'[g] \in {"resume", "done"} => num'[g] = 0
    BY <2>1, <2>2, <1>2, <1>4, <1>6
  <2>4. QED
    BY <2>3 DEF CountInv
<1>8. GetInv'
  BY <1>1, <1>2 DEF Good, GetInv
<1>9. PutInv'
  BY <1>1, <1>2, <1>3 DEF Good, PutInv, PutLabels
<1>10. ListInv'
  <2>1. \A g \in Futures : g # f => Cursor(g)' = Cursor(g)
    BY <1>2 DEF Cursor
  <2>2. CASE count[f] > 0
    <3>1. Cursor(f)' = Cursor(f)
      BY <2>2, <1>1, <1>2 DEF Cursor
    <3>2. QED
      BY <3>1, <2>1, <1>1, <1>3, <1>4, LiveIsLink, ListOrOver DEF Good
  <2>3. CASE ~(count[f] > 0)
    <3>1. Cursor(f)' = {}
      BY <2>3, <1>1, <1>2 DEF Cursor
    <3>2. Left(f) = {}
      BY <2>3, <1>6, SetFacts, FS_EmptySet
    <3>3. Listed(f) = {}
      BY <3>2 DEF Listed
    <3>4. QED
      BY <3>1, <3>3, <2>1, <1>1, <1>3, <1>4, LiveIsLink, ListOrOver DEF Good
  <2>4. QED
    BY <2>2, <2>3
<1>11. QED
  BY <1>7, <1>8, <1>9, <1>10 DEF Good

\* put follows the link c and finds a waiter.
LEMMA FollowList ==
    ASSUME Base, Good, NEW f \in Futures, NEW c,
           Cursor(f) = {c}, c \notin Listed(f), next[c] # NULL,
           UNCHANGED <<gpc, fut, old, tail, next>>,
           \A g \in Futures : g # f => Listed(g)' = Listed(g) /\ Cursor(g)' = Cursor(g),
           Listed(f)' = Listed(f) \ {next[c]},
           Cursor(f)' = {next[c]} \/ (Cursor(f)' = {} /\ Listed(f)' = {})
    PROVE  ListInv'
<1>1. c \in Live(f) /\ Live(f) = {c} \cup Listed(f)
  BY DEF Live
<1>2. PICK n \in Listed(f) : n = next[c] /\ old[n] = c
  BY <1>1 DEF Good, ListInv
<1>3. \A e \in Deques, g \in Futures : Linked(e, g)' <=> Linked(e, g)
  BY DEF Linked
<1>4. \A e \in Deques : gpc'[e] = "xchg" => next'[e] = NULL
  BY DEF Good, ListInv
<1>5. ASSUME NEW g \in Futures
      PROVE  /\ \A e \in Listed(g)' : old'[e] \in Live(g)'
             /\ \A e, a \in Listed(g)' : old'[e] = old'[a] => e = a
             /\ Cursor(g)' # {} =>
                 tail'[g] \in Live(g)' /\ \A e \in Listed(g)' : old'[e] # tail'[g]
             /\ \A l \in Live(g)' : next'[l] # NULL =>
                 next'[l] \in Listed(g)' /\ Linked(next[l], g)' /\ old'[next'[l]] = l
  <2>1. /\ \A e \in Listed(g) : old[e] \in Live(g)
        /\ \A e, a \in Listed(g) : old[e] = old[a] => e = a
        /\ Cursor(g) # {} =>
            tail[g] \in Live(g) /\ \A e \in Listed(g) : old[e] # tail[g]
        /\ \A l \in Live(g) : next[l] # NULL =>
            next[l] \in Listed(g) /\ Linked(next[l], g) /\ old[next[l]] = l
    BY DEF Good, ListInv
  <2>2. \A l \in Live(g) : next[l] # NULL => Linked(next[l], g)'
    <3>1. \A l \in Live(g) : next[l] # NULL => next[l] \in Deques
      BY <2>1, LiveIsLink
    <3>2. QED
      BY <2>1, <3>1, <1>3 DEF Linked
  <2>3. CASE g # f
    <3>1. Listed(g)' = Listed(g) /\ Cursor(g)' = Cursor(g) /\ Live(g)' = Live(g)
      BY <2>3 DEF Live
    <3>2. QED
      BY <3>1, <2>1, <2>2
  <2>4. CASE g = f /\ Cursor(f)' = {n}
    <3>1. Listed(f)' = Listed(f) \ {n} /\ Live(f)' = Listed(f)
      BY <2>4, <1>2 DEF Live
    <3>2. \A e \in Listed(f)' : old[e] # c /\ old[e] \in Listed(f)
      BY <3>1, <2>1, <2>4, <1>1, <1>2
    <3>3. tail[f] \in Listed(f)
      BY <2>1, <2>4, <1>1, <1>2
    <3>4. \A l \in Listed(f) : next[l] # NULL => next[l] \in Listed(f)' /\ old[next[l]] = l
      <4>1. \A l \in Listed(f) : next[l] # NULL => next[l] \in Listed(f) /\ old[next[l]] = l
        BY <2>1, <2>4, <1>1
      <4>2. QED
        BY <4>1, <3>1, <1>2
    <3>5. QED
      BY <3>1, <3>2, <3>3, <3>4, <2>1, <2>2, <2>4, <1>1
  <2>5. CASE g = f /\ Cursor(f)' = {} /\ Listed(f)' = {}
    BY <2>5 DEF Live
  <2>6. QED
    BY <2>3, <2>4, <2>5, <1>2
<1>6. QED
  BY <1>4, <1>5 DEF ListInv

LEMMA FirstWaiterStep ==
    ASSUME Base, Base', Good, NEW f \in Futures, FirstWaiter(f)
    PROVE  Good'
<1> USE NullAssumption DEF Base, TypeOK
<1>1. ppc[f] = "first" /\ node[f] = f /\ Cursor(f) = {f} /\ f \in Live(f) /\ next[f] # NULL
  BY DEF FirstWaiter, Good, PutInv, Cursor, Live
<1>2. PICK n \in Listed(f) : n = next[f] /\ old[n] = f /\ Linked(n, f)
  BY <1>1 DEF Good, ListInv
<1>3. n \in Left(f) /\ n \in Deques /\ f \notin Listed(f) /\ num[f] \in Nat \ {0}
  BY <1>1, LiveIsLink DEF Listed, PutLabels
<1>4. /\ node' = [node EXCEPT ![f] = n] /\ ret' = [ret EXCEPT ![f] = n]
      /\ num' = [num EXCEPT ![f] = num[f] - 1]
      /\ ppc' = [ppc EXCEPT ![f] = IF num[f] - 1 > 0 THEN "more" ELSE "resume"]
      /\ UNCHANGED <<count, tail, next, gpc, fut, old>>
  BY <1>1, <1>2 DEF FirstWaiter, PGoto, getVars, MoreWaiters
<1>5. /\ node'[f] = n /\ ret'[f] = n /\ num'[f] = num[f] - 1
      /\ ppc'[f] = IF num[f] - 1 > 0 THEN "more" ELSE "resume"
      /\ \A g \in Futures : g # f => /\ node'[g] = node[g] /\ ret'[g] = ret[g]
                                     /\ num'[g] = num[g] /\ ppc'[g] = ppc[g]
  BY <1>4
<1>6. \A g \in Futures : \A e \in Deques :
        /\ Waiting(e, g)' <=> Waiting(e, g)
        /\ Queued(e, g)' <=> Queued(e, g)
        /\ Linked(e, g)' <=> Linked(e, g)
        /\ Found(g, e)' <=> Found(g, e) \/ (g = f /\ e = n)
  BY <1>1, <1>4, <1>5 DEF Waiting, Queued, Linked, Found
<1>7. /\ \A g \in Futures : /\ Waiters(g)' = Waiters(g) /\ Tickets(g)' = Tickets(g)
                            /\ g # f => Left(g)' = Left(g)
      /\ Left(f)' = Left(f) \ {n}
  <2>1. \A g \in Futures : Waiters(g)' = Waiters(g) /\ Tickets(g)' = Tickets(g)
    BY <1>4, <1>6 DEF Waiters, Tickets
  <2>2. QED
    BY <1>6, <2>1 DEF Left, Waiters
<1>8. num[f] = Cardinality(Left(f)) /\ num'[f] = Cardinality(Left(f)')
  <2>1. num[f] = Cardinality(Left(f)) /\ IsFiniteSet(Left(f))
    BY <1>1, SetFacts DEF Good, CountInv
  <2>2. Cardinality(Left(f) \ {n}) = Cardinality(Left(f)) - 1
    BY <2>1, <1>3, FS_RemoveElement
  <2>3. QED
    BY <2>1, <2>2, <1>5, <1>7
<1>9. CountInv'
  <2>1. ASSUME NEW g \in Futures
        PROVE  /\ ppc'[g] = "compute" => count'[g] = Cardinality(Waiters(g)')
               /\ ppc'[g] # "compute" =>
                   /\ INT32_MIN <= count'[g]
                   /\ count'[g] + Cardinality(Tickets(g)') <= INT32_MIN + Cardinality(Deques)
                   /\ num'[g] = Cardinality(Left(g)')
               /\ ppc'[g] \in {"resume", "done"} => num'[g] = 0
    <3>1. CASE g # f
      BY <3>1, <1>4, <1>5, <1>7 DEF Good, CountInv
    <3>2. CASE g = f
      BY <3>2, <1>1, <1>3, <1>4, <1>5, <1>7, <1>8 DEF Good, CountInv
    <3>3. QED
      BY <3>1, <3>2
  <2>2. QED
    BY <2>1 DEF CountInv
<1>10. GetInv'
  BY <1>1, <1>4, <1>5 DEF Good, GetInv
<1>11. PutInv'
  <2>1. ASSUME NEW g \in Futures, g # f, ppc[g] \in {"more", "wake"} PROVE node[g] # n
    BY <2>1, <1>2 DEF Good, PutInv, Linked, Awake
  <2>2. QED
    BY <2>1, <1>1, <1>2, <1>3, <1>4, <1>5, <1>6 DEF Good, PutInv, PutLabels
<1>12. ListInv'
  <2>1. /\ Listed(f)' = Listed(f) \ {n}
        /\ \A g \in Futures : g # f => Listed(g)' = Listed(g) /\ Cursor(g)' = Cursor(g)
    <3>1. \A g \in Futures : Left(g) \subseteq Deques
      BY DEF Left, Waiters
    <3>2. \A g \in Futures : g # f => Cursor(g)' = Cursor(g)
      BY <1>5 DEF Cursor
    <3>3. \A g \in Futures : g # f => Listed(g)' = Listed(g)
      BY <3>1, <1>6, <1>7 DEF Listed
    <3>4. Listed(f)' = {e \in Left(f) \ {n} : Queued(e, f)}
      BY <3>1, <1>6, <1>7 DEF Listed
    <3>5. QED
      BY <3>2, <3>3, <3>4 DEF Listed
  <2>2. Cursor(f)' = {n} \/ (Cursor(f)' = {} /\ Listed(f)' = {})
    <3>1. CASE num[f] - 1 > 0
      BY <3>1, <1>5 DEF Cursor
    <3>2. CASE ~(num[f] - 1 > 0)
      <4>1. num'[f] = 0 /\ ppc'[f] = "resume"
        BY <3>2, <1>3, <1>5
      <4>2. IsFiniteSet(Left(f)')
        <5>1. IsFiniteSet(Left(f)) /\ Left(f) \ {n} \subseteq Left(f)
          BY SetFacts
        <5>2. QED
          BY <5>1, <1>7, FS_Subset
      <4>3. Left(f)' = {}
        BY <4>1, <4>2, <1>8, FS_EmptySet
      <4>4. QED
        BY <4>1, <4>3 DEF Cursor, Listed
    <3>3. QED
      BY <3>1, <3>2
  <2>3. QED
    BY <2>1, <2>2, <1>1, <1>2, <1>3, <1>4, FollowList
<1>13. QED
  BY <1>9, <1>10, <1>11, <1>12 DEF Good

LEMMA NextWaiterStep ==
    ASSUME Base, Base', Good, NEW f \in Futures, NextWaiter(f)
    PROVE  Good'
<1> USE NullAssumption DEF Base, TypeOK
<1>1. PICK c \in Deques : /\ c = node[f] /\ Cursor(f) = {c} /\ c \in Live(f)
                          /\ next[c] # NULL /\ c \notin Listed(f) /\ ppc[f] = "more"
  <2>1. ppc[f] = "more" /\ node[f] \in Deques /\ next[node[f]] # NULL
    BY DEF NextWaiter, Good, PutInv
  <2>2. node[f] \notin Listed(f)
    BY <2>1 DEF Good, PutInv, Listed, Left, Found, Queued, Awake
  <2>3. QED
    BY <2>1, <2>2 DEF Cursor, Live
<1>2. PICK n \in Listed(f) : n = next[c] /\ old[n] = c /\ Linked(n, f)
  BY <1>1 DEF Good, ListInv
<1>3. n \in Left(f) /\ n \in Deques /\ n # ret[f] /\ num[f] \in Nat \ {0}
  BY <1>1, LiveIsLink DEF Listed, Left, Found, PutLabels
<1>4. /\ node' = [node EXCEPT ![f] = n]
      /\ num' = [num EXCEPT ![f] = num[f] - 1]
      /\ ppc' = [ppc EXCEPT ![f] = "wake"]
      /\ UNCHANGED <<count, tail, next, ret, gpc, fut, old>>
  BY <1>1, <1>2 DEF NextWaiter, PGoto, getVars
<1>5. /\ node'[f] = n /\ num'[f] = num[f] - 1 /\ ppc'[f] = "wake"
      /\ \A g \in Futures : g # f => /\ node'[g] = node[g]
                                     /\ num'[g] = num[g] /\ ppc'[g] = ppc[g]
  BY <1>4
<1>6. \A g \in Futures : \A e \in Deques :
        /\ Waiting(e, g)' <=> Waiting(e, g)
        /\ Queued(e, g)' <=> Queued(e, g)
        /\ Linked(e, g)' <=> Linked(e, g)
        /\ Found(g, e)' <=> Found(g, e) \/ (g = f /\ e = n)
  BY <1>1, <1>4, <1>5 DEF Waiting, Queued, Linked, Found
<1>7. /\ \A g \in Futures : /\ Waiters(g)' = Waiters(g) /\ Tickets(g)' = Tickets(g)
                            /\ g # f => Left(g)' = Left(g)
      /\ Left(f)' = Left(f) \ {n}
  <2>1. \A g \in Futures : Waiters(g)' = Waiters(g) /\ Tickets(g)' = Tickets(g)
    BY <1>4, <1>6 DEF Waiters, Tickets
  <2>2. QED
    BY <1>6, <2>1 DEF Left, Waiters
<1>8. num[f] = Cardinality(Left(f)) /\ num'[f] = Cardinality(Left(f)')
  <2>1. num[f] = Cardinality(Left(f)) /\ IsFiniteSet(Left(f))
    BY <1>1, SetFacts DEF Good, CountInv
  <2>2. Cardinality(Left(f) \ {n}) = Cardinality(Left(f)) - 1
    BY <2>1, <1>3, FS_RemoveElement
  <2>3. QED
    BY <2>1, <2>2, <1>5, <1>7
<1>9. CountInv'
  <2>1. ASSUME NEW g \in Futures
        PROVE  /\ ppc'[g] = "compute" => count'[g] = Cardinality(Waiters(g)')
               /\ ppc'[g] # "compute" =>
                   /\ INT32_MIN <= count'[g]
                   /\ count'[g] + Cardinality(Tickets(g)') <= INT32_MIN + Cardinality(Deques)
                   /\ num'[g] = Cardinality(Left(g)')
               /\ ppc'[g] \in {"resume", "done"} => num'[g] = 0
    <3>1. CASE g # f
      BY <3>1, <1>4, <1>5, <1>7 DEF Good, CountInv
    <3>2. CASE g = f
      BY <3>2, <1>1, <1>3, <1>4, <1>5, <1>7, <1>8 DEF Good, CountInv
    <3>3. QED
      BY <3>1, <3>2
  <2>2. QED
    BY <2>1 DEF CountInv
<1>10. GetInv'
  BY <1>1, <1>4, <1>5 DEF Good, GetInv
<1>11. PutInv'
  <2>1. ASSUME NEW g \in Futures, g # f, ppc[g] \in {"more", "wake"} PROVE node[g] # n
    BY <2>1, <1>2 DEF Good, PutInv, Linked, Awake
  <2>2. QED
    BY <2>1, <1>1, <1>2, <1>3, <1>4, <1>5, <1>6 DEF Good, PutInv, PutLabels
<1>12. ListInv'
  <2>1. /\ Listed(f)' = Listed(f) \ {n}
        /\ \A g \in Futures : g # f => Listed(g)' = Listed(g) /\ Cursor(g)' = Cursor(g)
    <3>1. \A g \in Futures : Left(g) \subseteq Deques
      BY DEF Left, Waiters
    <3>2. \A g \in Futures : g # f => Cursor(g)' = Cursor(g)
      BY <1>5 DEF Cursor
    <3>3. \A g \in Futures : g # f => Listed(g)' = Listed(g)
      BY <3>1, <1>6, <1>7 DEF Listed
    <3>4. Listed(f)' = {e \in Left(f) \ {n} : Queued(e, f)}
      BY <3>1, <1>6, <1>7 DEF Listed
    <3>5. QED
      BY <3>2, <3>3, <3>4 DEF Listed
  <2>2. Cursor(f)' = {n}
    BY <1>5 DEF Cursor
  <2>3. QED
    BY <2>1, <2>2, <1>1, <1>2, <1>4, FollowList
<1>13. QED
  BY <1>9, <1>10, <1>11, <1>12 DEF Good

\* A waiter that put has found is woken.
LEMMA WokenStep ==
    ASSUME Base, Base', Good, NEW f \in Futures, NEW d \in Deques,
           Linked(d, f), Found(f, d), gpc' = [gpc EXCEPT ![d] = "assert"],
           UNCHANGED <<count, tail, next, fut, old, node, num, ret>>,
           ppc' = [ppc EXCEPT ![f] = ppc'[f]],
           \/ ppc[f] = "wake" /\ d = node[f] /\ ppc'[f] = "more"
           \/ ppc[f] = "wake" /\ d = node[f] /\ ppc'[f] = "resume" /\ num[f] = 0
           \/ ppc[f] = "resume" /\ d = ret[f] /\ ppc'[f] = "done"
    PROVE  Good'
<1> USE DEF Base, TypeOK
<1>1. /\ fut[d] = f /\ gpc'[d] = "assert" /\ \A e \in Deques : e # d => gpc'[e] = gpc[e]
      /\ \A g \in Futures : g # f => ppc'[g] = ppc[g]
  BY DEF Linked
<1>2. \A g \in Futures : \A e \in Deques :
        /\ Waiting(e, g)' <=> Waiting(e, g) /\ e # d
        /\ Linked(e, g)' <=> Linked(e, g) /\ e # d
        /\ e # d => (Queued(e, g)' <=> Queued(e, g))
  BY <1>1 DEF Waiting, Queued, Linked
<1>3. \A g \in Futures : \A e \in Deques : e # d => (Found(g, e)' <=> Found(g, e))
  BY <1>1 DEF Found
<1>4. \A g \in Futures : g # f => Waiters(g)' = Waiters(g)
  BY <1>1, <1>2 DEF Waiters, Waiting
<1>5. \A g \in Futures : Tickets(g)' = Tickets(g) /\ Left(g)' = Left(g) /\ d \notin Left(g)
  <2>1. \A g \in Futures : Tickets(g)' = Tickets(g)
    BY <1>1 DEF Tickets, Linked
  <2>2. \A g \in Futures : d \notin Left(g)
    BY <1>1 DEF Left, Waiters, Waiting
  <2>3. \A g \in Futures : Left(g)' = Left(g)
    BY <2>2, <1>2, <1>3 DEF Left, Waiters
  <2>4. QED
    BY <2>1, <2>2, <2>3
<1>6. \A g \in Futures : Listed(g)' = Listed(g)
  BY <1>2, <1>5 DEF Listed, Left, Waiters
<1>7. ppc[f] # "compute" /\ ppc'[f] # "compute" /\ (ppc'[f] \in {"resume", "done"} => num[f] = 0)
  BY DEF Good, CountInv
<1>8. CountInv'
  BY <1>1, <1>4, <1>5, <1>7 DEF Good, CountInv
<1>9. GetInv'
  BY <1>1, <1>7, NullAssumption DEF Good, GetInv, GetLabels
<1>10. PutInv'
  <2>1. \A e \in Deques : gpc[e] \in Awake => gpc'[e] \in Awake
    BY <1>1 DEF Awake
  <2>2. gpc'[d] \in Awake
    BY <1>1 DEF Awake
  <2>3. ASSUME NEW g \in Futures, g # f
        PROVE  /\ ppc'[g] = "first" => node[g] = g
               /\ ppc'[g] = "more" =>
                   node[g] \in Deques /\ (node[g] = ret[g] \/ gpc'[node[g]] \in Awake)
               /\ ppc'[g] = "wake" => Linked(node[g], g)' /\ node[g] # ret[g]
               /\ ppc'[g] \in {"more", "wake", "resume"} => Linked(ret[g], g)'
    <3>1. /\ ppc[g] = "first" => node[g] = g
          /\ ppc[g] = "more" =>
              node[g] \in Deques /\ (node[g] = ret[g] \/ gpc[node[g]] \in Awake)
          /\ ppc[g] = "wake" => Linked(node[g], g) /\ node[g] # ret[g]
          /\ ppc[g] \in {"more", "wake", "resume"} => Linked(ret[g], g)
      BY DEF Good, PutInv
    <3>2. ~Linked(d, g)
      BY <2>3, <1>1 DEF Linked
    <3>3. /\ ppc[g] \in {"more", "wake", "resume"} => Linked(ret[g], g)'
          /\ ppc[g] = "wake" => Linked(node[g], g)'
      BY <3>1, <3>2, <1>1 DEF Linked, PutLabels
    <3>4. QED
      BY <3>1, <3>3, <2>1, <1>1, <2>3
  <2>4. /\ ppc'[f] = "more" => node[f] = d
        /\ ppc'[f] \in {"more", "resume"} => ret[f] # d /\ Linked(ret[f], f)'
        /\ ppc'[f] \notin {"first", "wake"}
    <3>1. ppc[f] = "wake" => ret[f] \in Deques /\ ret[f] # d /\ Linked(ret[f], f)
      BY DEF Good, PutInv, PutLabels
    <3>2. QED
      BY <3>1, <1>2 DEF Linked
  <2>5. \A a, b \in Futures :
          a # b /\ ppc'[a] \in {"more", "wake"} /\ ppc'[b] \in {"more", "wake"} =>
              node[a] # node[b]
    BY <1>1 DEF Good, PutInv
  <2>6. QED
    BY <2>2, <2>3, <2>4, <2>5 DEF PutInv
<1>11. ListInv'
  <2>1. \A g \in Futures : g # f => Cursor(g)' = Cursor(g)
    BY <1>1 DEF Cursor
  <2>2. Cursor(f)' = Cursor(f) \/ (Cursor(f)' = {} /\ Listed(f) = {})
    <3>1. CASE ppc'[f] = "more"
      BY <3>1 DEF Cursor
    <3>2. CASE ppc'[f] \in {"resume", "done"}
      <4>1. Left(f) = {}
        BY <3>2, <1>7, NoneLeft DEF Good
      <4>2. QED
        BY <4>1, <3>2 DEF Listed, Cursor
    <3>3. QED
      BY <3>1, <3>2
  <2>3. \A g \in Futures : \A e \in Listed(g) : Linked(e, g) => Linked(e, g)'
    <3>1. \A g \in Futures : \A e \in Listed(g) : e \in Deques /\ e # d
      BY <1>5 DEF Listed, Left, Waiters
    <3>2. QED
      BY <3>1, <1>2
  <2>4. \A e \in Deques : gpc'[e] = "xchg" => gpc[e] = "xchg"
    BY <1>1
  <2>5. QED
    BY <2>1, <2>2, <2>3, <2>4, <1>6, ListOrOver DEF Good
<1>12. QED
  BY <1>8, <1>9, <1>10, <1>11 DEF Good

LEMMA WakeStep ==
    ASSUME Base, Base', Good, NEW f \in Futures, Wake(f)
    PROVE  Good'
<1>1. /\ ppc[f] = "wake" /\ node[f] \in Deques /\ gpc[node[f]] = "suspended"
      /\ gpc' = [gpc EXCEPT ![node[f]] = "assert"]
      /\ ppc' = [ppc EXCEPT ![f] = IF num[f] > 0 THEN "more" ELSE "resume"]
      /\ UNCHANGED <<count, tail, next, fut, old, node, num, ret>>
  BY DEF Wake, Goto, PGoto, MoreWaiters, Base, PutLabels
<1>2. /\ ppc'[f] = IF num[f] > 0 THEN "more" ELSE "resume"
      /\ num[f] \in Nat
      /\ ppc' = [ppc EXCEPT ![f] = ppc'[f]]
  BY <1>1, DequesFinite DEF Base, TypeOK
<1>3. ppc'[f] = "more" \/ (ppc'[f] = "resume" /\ num[f] = 0)
  BY <1>2
<1>4. Linked(node[f], f) /\ Found(f, node[f])
  BY <1>1 DEF Good, PutInv, Found
<1>5. QED
  BY <1>1, <1>2, <1>3, <1>4, WokenStep

LEMMA ResumeStep ==
    ASSUME Base, Base', Good, NEW f \in Futures, Resume(f)
    PROVE  Good'
<1>1. /\ ppc[f] = "resume" /\ ret[f] \in Deques /\ gpc[ret[f]] = "suspended"
      /\ gpc' = [gpc EXCEPT ![ret[f]] = "assert"]
      /\ ppc' = [ppc EXCEPT ![f] = "done"]
      /\ UNCHANGED <<count, tail, next, fut, old, node, num, ret>>
  BY DEF Resume, Goto, PGoto, Base, PutLabels
<1>2. ppc'[f] = "done" /\ ppc' = [ppc EXCEPT ![f] = ppc'[f]]
  BY <1>1 DEF Base, TypeOK
<1>3. Linked(ret[f], f) /\ Found(f, ret[f])
  BY <1>1 DEF Good, PutInv, Found
<1>4. QED
  BY <1>1, <1>2, <1>3, WokenStep

LEMMA ResetStep ==
    ASSUME Base, Base', Good, NEW f \in Futures, Reset(f)
    PROVE  Good'
<1> USE NullAssumption DEF Base, TypeOK
<1>1. /\ ppc[f] = "done" /\ \A d \in Deques : fut[d] # f
      /\ count' = [count EXCEPT ![f] = 0] /\ tail' = [tail EXCEPT ![f] = f]
      /\ next' = [next EXCEPT ![f] = NULL] /\ ppc' = [ppc EXCEPT ![f] = "compute"]
      /\ node' = [node EXCEPT ![f] = NULL] /\ num' = [num EXCEPT ![f] = 0]
      /\ ret' = [ret EXCEPT ![f] = NULL]
      /\ UNCHANGED <<gpc, fut, old>>
  BY DEF Reset, PGoto, getVars
<1>2. /\ count'[f] = 0 /\ tail'[f] = f /\ next'[f] = NULL /\ ppc'[f] = "compute"
      /\ \A g \in Futures : g # f =>
          /\ count'[g] = count[g] /\ tail'[g] = tail[g] /\ ppc'[g] = ppc[g]
          /\ node'[g] = node[g] /\ num'[g] = num[g] /\ ret'[g] = ret[g]
      /\ \A l \in Links : l # f => next'[l] = next[l]
  BY <1>1 DEF Links
<1>3. \A g \in Futures : \A e \in Deques :
        /\ Waiting(e, g)' <=> Waiting(e, g)
        /\ Queued(e, g)' <=> Queued(e, g)
        /\ Linked(e, g)' <=> Linked(e, g)
        /\ g # f => (Found(g, e)' <=> Found(g, e))
  BY <1>1, <1>2 DEF Waiting, Queued, Linked, Found
<1>4. /\ Waiters(f) = {} /\ Left(f) = {} /\ Left(f)' = {}
      /\ Listed(f) = {} /\ Listed(f)' = {}
  BY <1>1, <1>3 DEF Waiters, Waiting, Left, Listed
<1>5. \A g \in Futures : Waiters(g)' = Waiters(g) /\ Tickets(g)' = Tickets(g)
  BY <1>1, <1>3 DEF Waiters, Tickets
<1>6. \A g \in Futures : g # f => /\ Left(g)' = Left(g) /\ Listed(g)' = Listed(g)
                                  /\ Cursor(g)' = Cursor(g) /\ Live(g)' = Live(g)
  <2>1. \A g \in Futures : g # f => Left(g)' = Left(g)
    BY <1>3 DEF Left, Waiters
  <2>2. \A g \in Futures : g # f => Listed(g)' = Listed(g)
    BY <2>1, <1>3 DEF Listed, Left, Waiters
  <2>3. \A g \in Futures : g # f => Cursor(g)' = Cursor(g)
    BY <1>2 DEF Cursor
  <2>4. QED
    BY <2>1, <2>2, <2>3 DEF Live
<1>7. \A g \in Futures : g # f => f \notin Live(g)
  <2>1. \A g \in Futures : g # f => f \notin Cursor(g)
    BY DEF Cursor, Good, PutInv, PutLabels
  <2>2. QED
    BY <2>1, LiveIsLink DEF Live
<1>8. CountInv'
  <2>1. count'[f] = Cardinality(Waiters(f)')
    BY <1>2, <1>4, <1>5, FS_EmptySet
  <2>2. ASSUME NEW g \in Futures
        PROVE  /\ ppc'[g] = "compute" => count'[g] = Cardinality(Waiters(g)')
               /\ ppc'[g] # "compute" =>
                   /\ INT32_MIN <= count'[g]
                   /\ count'[g] + Cardinality(Tickets(g)') <= INT32_MIN + Cardinality(Deques)
                   /\ num'[g] = Cardinality(Left(g)')
               /\ ppc'[g] \in {"resume", "done"} => num'[g] = 0
    <3>1. CASE g = f
      BY <3>1, <2>1, <1>2
    <3>2. CASE g # f
      BY <3>2, <1>2, <1>5, <1>6 DEF Good, CountInv
    <3>3. QED
      BY <3>1, <3>2
  <2>3. QED
    BY <2>2 DEF CountInv
<1>9. GetInv'
  BY <1>1, <1>2 DEF Good, GetInv, GetLabels
<1>10. PutInv'
  BY <1>1, <1>2, <1>3 DEF Good, PutInv, PutLabels
<1>11. ListInv'
  <2>1. \A e \in Deques : gpc'[e] = "xchg" => next'[e] = NULL
    BY <1>1, <1>2 DEF Good, ListInv, Links
  <2>2. ASSUME NEW g \in Futures
        PROVE  /\ \A e \in Listed(g)' : old'[e] \in Live(g)'
               /\ \A e, a \in Listed(g)' : old'[e] = old'[a] => e = a
               /\ Cursor(g)' # {} =>
                   tail'[g] \in Live(g)' /\ \A e \in Listed(g)' : old'[e] # tail'[g]
               /\ \A l \in Live(g)' : next'[l] # NULL =>
                   next'[l] \in Listed(g)' /\ Linked(next[l], g)' /\ old'[next'[l]] = l
    <3>1. CASE g = f
      <4>1. Live(f)' = {f}
        BY <1>2, <1>4 DEF Live, Cursor
      <4>2. QED
        BY <4>1, <3>1, <1>2, <1>4
    <3>2. CASE g # f
      <4>1. /\ \A e \in Listed(g) : old[e] \in Live(g)
            /\ \A e, a \in Listed(g) : old[e] = old[a] => e = a
            /\ Cursor(g) # {} =>
                tail[g] \in Live(g) /\ \A e \in Listed(g) : old[e] # tail[g]
            /\ \A l \in Live(g) : next[l] # NULL =>
                next[l] \in Listed(g) /\ Linked(next[l], g) /\ old[next[l]] = l
        BY DEF Good, ListInv
      <4>2. \A l \in Live(g) : next'[l] = next[l] /\ (next[l] # NULL => next[l] \in Deques)
        BY <4>1, <1>2, <1>7, <3>2, LiveIsLink
      <4>3. \A l \in Live(g) : next[l] # NULL => Linked(next[l], g)'
        BY <4>1, <4>2, <1>1 DEF Linked
      <4>4. QED
        BY <4>1, <4>2, <4>3, <1>1, <1>2, <1>6, <3>2
    <3>3. QED
      BY <3>1, <3>2
  <2>3. QED
    BY <2>1, <2>2 DEF ListInv
<1>12. QED
  BY <1>8, <1>9, <1>10, <1>11 DEF Good

-----------------------------------------------------------------------------
LEMMA StillGood ==
    ASSUME Base, Base', Good, [Next]_vars, ~strayed'
    PROVE  Good'
<1>1. ASSUME NEW d \in Deques, Getter(d) PROVE Good'
  BY <1>1, CheckReadyStep, TakeTicketStep, ClearLinkStep, ExchangeTailStep,
     LinkBehindOldStep, SuspendStep, ReturnStep
  DEF Getter
<1>2. ASSUME NEW f \in Futures, Putter(f) PROVE Good'
  BY <1>2, PutStep, FirstWaiterStep, NextWaiterStep, WakeStep, ResumeStep DEF Putter
<1>3. ASSUME UNCHANGED vars PROVE Good'
  <2>1. \A f \in Futures : \A d \in Deques : Linked(d, f) => Linked(d, f)'
    BY <1>3 DEF vars, Linked
  <2>2. \A f \in Futures : /\ Waiters(f)' = Waiters(f) /\ Tickets(f)' = Tickets(f)
                           /\ Left(f)' = Left(f) /\ Listed(f)' = Listed(f)
                           /\ Cursor(f)' = Cursor(f)
    BY <1>3 DEF vars, Waiters, Tickets, Left, Listed, Cursor, Waiting, Queued, Found
  <2>3. CountInv'
    BY <1>3, <2>2, SameSets DEF vars, Good
  <2>4. GetInv' /\ PutInv'
    BY <1>3 DEF vars, Good, GetInv, PutInv, Linked
  <2>5. ListInv'
    <3>1. /\ UNCHANGED <<tail, next, old, gpc>>
          /\ \A f \in Futures : Listed(f) \subseteq Deques
      BY <1>3, LiveIsLink DEF vars
    <3>2. QED
      BY <2>1, <2>2, <3>1, ListKept DEF Good
  <2>6. QED
    BY <2>3, <2>4, <2>5 DEF Good
<1>4. QED
  BY <1>1, <1>2, <1>3, GetStep, ResetStep DEF Next

\* Once strayed, always strayed.
LEMMA StrayedStays ==
    ASSUME [Next]_vars, strayed
    PROVE  strayed'
<1>1. ASSUME NEW d \in Deques, Getter(d) \/ \E f \in Futures : Get(d, f) PROVE strayed'
  BY <1>1
  DEF Getter, Get, CheckReady, TakeTicket, ClearLink, ExchangeTail, LinkBehindOld,
      Suspend, Return, putVars
<1>2. ASSUME NEW f \in Futures, Putter(f) \/ Reset(f) PROVE strayed'
  BY <1>2 DEF Putter, Put, FirstWaiter, NextWaiter, Wake, Resume, Reset, getVars
<1>3. QED
  BY <1>1, <1>2 DEF Next, vars

LEMMA InitGood == Init => Good
<1> SUFFICES ASSUME Init PROVE Good
  OBVIOUS
<1> USE NullAssumption
<1>1. /\ \A d \in Deques : gpc[d] = "run" /\ fut[d] = NULL
      /\ \A f \in Futures : ppc[f] = "compute" /\ count[f] = 0 /\ tail[f] = f
      /\ \A l \in Links : next[l] = NULL
  BY DEF Init
<1>2. \A f \in Futures : Waiters(f) = {} /\ Left(f) = {} /\ Listed(f) = {}
  BY <1>1 DEF Waiters, Waiting, Left, Listed
<1>3. \A f \in Futures : Live(f) = {f} /\ f \in Links
  BY <1>1, <1>2 DEF Live, Cursor, Links
<1>4. CountInv
  BY <1>1, <1>2, FS_EmptySet DEF CountInv
<1>5. GetInv /\ PutInv
  BY <1>1 DEF GetInv, PutInv
<1>6. ListInv
  BY <1>1, <1>2, <1>3 DEF ListInv
<1>7. QED
  BY <1>4, <1>5, <1>6 DEF Good

-----------------------------------------------------------------------------
\* The inductive invariant holds of every behaviour.
THEOREM Invariance == Spec => []IInv
<1>1. Init => IInv
  BY BaseInit, InitGood DEF IInv
<1>2. ASSUME IInv, [Next]_vars PROVE IInv'
  <2>1. Base'
    BY <1>2, BaseStep DEF IInv
  <2>2. ASSUME ~strayed' PROVE Good'
    BY <1>2, <2>1, <2>2, StrayedStays, StillGood DEF IInv
  <2>3. QED
    BY <2>1, <2>2 DEF IInv
<1>3. QED
  BY <1>1, <1>2, PTL DEF Spec

\* Every variable keeps its type, whatever goes astray: in particular the
\* counter of waiters still expected never goes below zero.
THEOREM TypeCorrect == Spec => []TypeOK
<1>1. IInv => TypeOK
  BY DEF IInv, Base
<1>2. QED
  BY <1>1, Invariance, PTL

\* The assertion at the end of get() can only fail after a waiter that put
\* had woken has queued its link again before put read it: not for a strand
\* that found the future ready, nor for one whose ticket came after put, nor
\* for one that put woke.
THEOREM GetReturnsReadyTheorem == Spec => []GetReturnsReady
<1>1. ASSUME IInv, ~strayed, NEW d \in Deques, gpc[d] = "assert" PROVE Ready(fut[d])
  <2>1. fut[d] \in Futures /\ ppc[fut[d]] # "compute"
    BY <1>1, NullAssumption DEF IInv, Base, TypeOK, GetLabels, Good, GetInv
  <2>2. QED
    BY <1>1, <2>1, ReadyAfterPut DEF IInv, Good
<1>2. IInv => GetReturnsReady
  BY <1>1 DEF GetReturnsReady, AssertReady
<1>3. QED
  BY <1>2, Invariance, PTL

-----------------------------------------------------------------------------
(* The future implements the write-once cell until its promise is void *)

full == [f \in Futures |-> Ready(f)]
reading == {p \in Deques \X Futures : fut[p[1]] = p[2]}
cell == <<full, reading, strayed>>

LEMMA ReadyNext ==
    Base' /\ Good' => \A f \in Futures : (Ready(f))' <=> ppc'[f] # "compute"
<1> DEFINE R == \A f \in Futures : Ready(f) <=> ppc[f] # "compute"
<1>1. Base /\ Good => R
  BY ReadyAfterPut DEF Good
<1>2. Base' /\ Good' => R'
  BY <1>1, PTL
<1>3. QED
  BY <1>2

LEMMA InitMapped == Init => Cell!Init
<1> SUFFICES ASSUME Init
             PROVE  full = [f \in Futures |-> FALSE] /\ reading = {} /\ strayed = FALSE
  BY DEF Cell!Init, full, reading
<1>1. \A f \in Futures : Ready(f) = FALSE
  BY DEF Init, Ready
<1>2. reading = {}
  BY NullAssumption DEF Init, reading
<1>3. strayed = FALSE
  BY DEF Init
<1>4. QED
  BY <1>1, <1>2, <1>3 DEF full

\* Steps between those of the cell.
LEMMA Stutters ==
    ASSUME Base, Good, Base', Good', UNCHANGED fut, ~strayed, ~strayed', strayed' = strayed,
           \A f \in Futures : ppc[f] = "compute" <=> ppc'[f] = "compute"
    PROVE  UNCHANGED cell
<1>1. \A f \in Futures : Ready(f) \in BOOLEAN /\ (Ready(f))' \in BOOLEAN
  BY DEF Ready
<1>2. \A f \in Futures : (Ready(f))' = Ready(f)
  BY <1>1, ReadyAfterPut, ReadyNext DEF Good
<1>3. full' = full
  BY <1>2 DEF full
<1>4. reading' = reading
  BY DEF reading
<1>5. QED
  BY <1>3, <1>4 DEF cell

LEMMA GetMapped ==
    ASSUME Base, NEW d \in Deques, NEW f \in Futures, Get(d, f)
    PROVE  Cell!Get(d, f)
<1>1. fut[d] = NULL /\ fut' = [fut EXCEPT ![d] = f] /\ count' = count
  BY DEF Get, Base, GetLabels
<1>2. \A g \in Futures : <<d, g>> \notin reading
  BY <1>1, NullAssumption DEF reading
<1>3. reading' = reading \cup {<<d, f>>}
  BY <1>1, NullAssumption DEF reading, Base, TypeOK
<1>4. full' = full
  BY <1>1 DEF full, Ready
<1>5. QED
  BY <1>2, <1>3, <1>4 DEF Cell!Get, full, reading

LEMMA ReturnMapped ==
    ASSUME Base, Good, NEW d \in Deques, Return(d)
    PROVE  \E f \in Futures : Cell!Return(d, f)
<1>1. PICK f \in Futures : f = fut[d]
  BY NullAssumption DEF Return, Base, TypeOK, GetLabels
<1>2. /\ gpc[d] = "assert" /\ fut' = [fut EXCEPT ![d] = NULL] /\ count' = count
  BY DEF Return
<1>3. Ready(f)
  BY <1>1, <1>2, ReadyAfterPut DEF Good, GetInv
<1>4. <<d, f>> \in reading
  BY <1>1 DEF reading
<1>5. full[f]
  BY <1>3 DEF full
<1>6. reading' = reading \ {<<d, f>>}
  BY <1>1, <1>2, NullAssumption DEF reading, Base, TypeOK
<1>7. full' = full
  BY <1>2 DEF full, Ready
<1>8. QED
  BY <1>4, <1>5, <1>6, <1>7 DEF Cell!Return, full, reading

LEMMA PutMapped ==
    ASSUME Base, Good, Base', Good', NEW f \in Futures, Put(f)
    PROVE  Cell!Put(f)
<1>1. /\ ppc[f] = "compute" /\ fut' = fut
      /\ ppc' = [ppc EXCEPT ![f] = IF count[f] > 0 THEN "first" ELSE "done"]
  BY DEF Put, PGoto, getVars
<1>2. \A g \in Futures : ppc'[g] = "compute" <=> (ppc[g] = "compute" /\ g # f)
  BY <1>1 DEF Base, TypeOK
<1>3. \A g \in Futures : Ready(g) \in BOOLEAN /\ (Ready(g))' \in BOOLEAN
  BY DEF Ready
<1>4. ~Ready(f) /\ \A g \in Futures : (Ready(g))' = IF g = f THEN TRUE ELSE Ready(g)
  BY <1>1, <1>2, <1>3, ReadyAfterPut, ReadyNext DEF Good
<1>5. ~full[f] /\ full' = [full EXCEPT ![f] = TRUE]
  BY <1>4 DEF full
<1>6. reading' = reading
  BY <1>1 DEF reading
<1>7. QED
  BY <1>5, <1>6 DEF Cell!Put, full, reading

LEMMA ResetMapped ==
    ASSUME Base, Good, Base', Good', NEW f \in Futures, Reset(f)
    PROVE  Cell!Reset(f)
<1>1. /\ ppc[f] = "done" /\ fut' = fut /\ \A d \in Deques : fut[d] # f
      /\ ppc' = [ppc EXCEPT ![f] = "compute"]
  BY DEF Reset, PGoto, getVars
<1>2. \A g \in Futures : ppc'[g] = "compute" <=> (ppc[g] = "compute" \/ g = f)
  BY <1>1 DEF Base, TypeOK
<1>3. \A g \in Futures : Ready(g) \in BOOLEAN /\ (Ready(g))' \in BOOLEAN
  BY DEF Ready
<1>4. Ready(f) /\ \A g \in Futures : (Ready(g))' = IF g = f THEN FALSE ELSE Ready(g)
  BY <1>1, <1>2, <1>3, ReadyAfterPut, ReadyNext DEF Good
<1>5. full[f] /\ full' = [full EXCEPT ![f] = FALSE]
  BY <1>4 DEF full
<1>6. reading' = reading /\ \A d \in Deques : <<d, f>> \notin reading
  BY <1>1 DEF reading
<1>7. QED
  BY <1>5, <1>6 DEF Cell!Reset, full, reading

LEMMA StepMapped ==
    ASSUME Base, Good, Base', Good', [Next]_vars, ~strayed, ~strayed'
    PROVE  [Cell!Next]_cell
<1>0. strayed' = strayed
  <2>1. strayed \in BOOLEAN /\ strayed' \in BOOLEAN
    BY DEF Base, TypeOK
  <2>2. QED
    BY <2>1
<1>1. ASSUME NEW d \in Deques, Getter(d) PROVE [Cell!Next]_cell
  <2>1. CASE Return(d)
    BY <2>1, <1>0, ReturnMapped DEF Cell!Next
  <2>2. CASE ~Return(d)
    <3>1. UNCHANGED <<fut, ppc>>
      BY <1>1, <2>2
      DEF Getter, CheckReady, TakeTicket, ClearLink, ExchangeTail, LinkBehindOld, Suspend,
          putVars
    <3>2. QED
      BY <3>1, <1>0, Stutters
  <2>3. QED
    BY <2>1, <2>2
<1>2. ASSUME NEW d \in Deques, NEW f \in Futures, Get(d, f) PROVE [Cell!Next]_cell
  BY <1>0, <1>2, GetMapped DEF Cell!Next
<1>3. ASSUME NEW f \in Futures, Putter(f) PROVE [Cell!Next]_cell
  <2>1. CASE Put(f)
    BY <2>1, <1>0, PutMapped DEF Cell!Next
  <2>2. CASE FirstWaiter(f) \/ NextWaiter(f) \/ Wake(f) \/ Resume(f)
    <3>1. UNCHANGED fut
      BY <2>2 DEF FirstWaiter, NextWaiter, Wake, Resume, getVars
    <3>2. /\ ppc[f] # "compute"
          /\ \E l \in {"more", "resume", "wake", "done"} : ppc' = [ppc EXCEPT ![f] = l]
      BY <2>2 DEF FirstWaiter, NextWaiter, Wake, Resume, PGoto
    <3>3. \A g \in Futures : ppc[g] = "compute" <=> ppc'[g] = "compute"
      BY <3>2 DEF Base, TypeOK
    <3>4. QED
      BY <3>1, <3>3, <1>0, Stutters
  <2>3. QED
    BY <1>3, <2>1, <2>2 DEF Putter
<1>4. ASSUME NEW f \in Futures, Reset(f) PROVE [Cell!Next]_cell
  BY <1>0, <1>4, ResetMapped DEF Cell!Next
<1>5. ASSUME UNCHANGED vars PROVE [Cell!Next]_cell
  BY <1>5 DEF vars, cell, full, reading, Ready
<1>6. QED
  BY <1>1, <1>2, <1>3, <1>4, <1>5 DEF Next

\* Until a put loses its way the future is the write-once cell it promises to
\* be: put fills it once, get returns only from a full cell, reset finds no
\* reader.
THEOREM Refinement == Spec => ImplementsCell
<1>1. ASSUME IInv, IInv', [Next]_vars PROVE [Cell!Next]_cell
  <2>1. CASE strayed'
    BY <2>1 DEF Cell!Next
  <2>2. CASE ~strayed'
    <3>1. ~strayed
      BY <1>1, <2>2, StrayedStays
    <3>2. QED
      BY <1>1, <2>2, <3>1, StepMapped DEF IInv
  <2>3. QED
    BY <2>1, <2>2
<1>2. QED
  BY <1>1, Invariance, InitMapped, PTL DEF Spec, ImplementsCell, Cell!Spec, cell, full, reading

-----------------------------------------------------------------------------
(* The fibers of futures.  What is needed of sequences: a deque's frames    *)
(* and fibers are sequences of no particular set, for nothing is said of    *)
(* the fibers that are allocated.                                           *)

IsSeq(s) == \E S : s \in Seq(S)

LEMMA EmptyIs == IsSeq(<<>>) /\ Len(<<>>) = 0
<1>1. <<>> \in Seq({})
  OBVIOUS
<1>2. QED
  BY <1>1 DEF IsSeq

LEMMA SeqIs ==
    ASSUME NEW s, IsSeq(s)
    PROVE  Len(s) \in Nat /\ DOMAIN s = 1..Len(s) /\ (s = <<>> <=> Len(s) = 0) /\ Last(s) = s[Len(s)]
<1>1. PICK S : s \in Seq(S)
  BY DEF IsSeq
<1>2. Len(s) \in Nat /\ DOMAIN s = 1..Len(s)
  BY <1>1
<1>3. s = <<>> <=> Len(s) = 0
  BY <1>1
<1>4. QED
  BY <1>2, <1>3 DEF Last

LEMMA AppendIs ==
    ASSUME NEW s, IsSeq(s), NEW x
    PROVE  /\ IsSeq(Append(s, x)) /\ Len(Append(s, x)) = Len(s) + 1 /\ Append(s, x) # <<>>
           /\ \A i \in 1..Len(s) : Append(s, x)[i] = s[i]
           /\ Append(s, x)[Len(s) + 1] = x
<1>1. PICK S : s \in Seq(S)
  BY DEF IsSeq
<1>2. PICK T : T = S \cup {x}
  OBVIOUS
<1>3. s \in Seq(T) /\ x \in T
  <2>1. \A i \in DOMAIN s : s[i] \in T
    BY <1>1, <1>2
  <2>2. QED
    BY <1>1, <1>2, <2>1
<1>4. Append(s, x) \in Seq(T)
  BY <1>3
<1>5. Len(Append(s, x)) = Len(s) + 1
  BY <1>3
<1>6. \A i \in 1..Len(s) : Append(s, x)[i] = s[i]
  BY <1>3
<1>7. Append(s, x)[Len(s) + 1] = x
  BY <1>3
<1>8. Append(s, x) # <<>>
  <2>1. Len(s) \in Nat
    BY <1>1
  <2>2. QED
    BY <1>5, <2>1, EmptyIs
<1>9. QED
  BY <1>4, <1>5, <1>6, <1>7, <1>8 DEF IsSeq

LEMMA FrontIs ==
    ASSUME NEW s, IsSeq(s), s # <<>>
    PROVE  /\ IsSeq(Front(s)) /\ Len(Front(s)) = Len(s) - 1
           /\ \A i \in 1..(Len(s) - 1) : Front(s)[i] = s[i]
<1>1. PICK S : s \in Seq(S)
  BY DEF IsSeq
<1>2. Len(s) \in Nat /\ Len(s) # 0
  BY <1>1
<1>3. PICK n \in Nat : n = Len(s) - 1
  BY <1>2
<1>4. Front(s) = SubSeq(s, 1, n) /\ \A i \in 1..n : i \in 1..Len(s)
  BY <1>2, <1>3 DEF Front
<1>5. SubSeq(s, 1, n) \in Seq(S) /\ Len(SubSeq(s, 1, n)) = n
  BY <1>1, <1>2, <1>3
<1>6. \A i \in 1..n : SubSeq(s, 1, n)[i] = s[i]
  BY <1>1, <1>2, <1>3
<1>7. QED
  BY <1>3, <1>4, <1>5, <1>6 DEF IsSeq

LEMMA TailIs ==
    ASSUME NEW s, IsSeq(s), s # <<>>
    PROVE  /\ IsSeq(Tail(s)) /\ Len(Tail(s)) = Len(s) - 1 /\ Head(s) = s[1]
           /\ \A i \in 1..(Len(s) - 1) : Tail(s)[i] = s[i + 1]
<1>1. PICK S : s \in Seq(S)
  BY DEF IsSeq
<1>2. Tail(s) \in Seq(S) /\ Len(Tail(s)) = Len(s) - 1 /\ Head(s) = s[1]
  BY <1>1
<1>3. \A i \in 1..(Len(s) - 1) : Tail(s)[i] = s[i + 1]
  BY <1>1
<1>4. QED
  BY <1>2, <1>3 DEF IsSeq

-----------------------------------------------------------------------------
(* How many frames called a future *)

LEMMA CalledIs ==
    ASSUME NEW F, NEW n \in Nat
    PROVE  /\ IsFiniteSet({i \in 1..n : F[i].future}) /\ Called(F, n) \in Nat
           /\ Called(F, 0) = 0
           /\ Called(F, n + 1) = Called(F, n) + (IF F[n + 1].future THEN 1 ELSE 0)
<1>1. PICK A : A = {i \in 1..n : F[i].future}
  OBVIOUS
<1>2. IsFiniteSet(1..n)
  BY FS_Interval
<1>3. IsFiniteSet(A) /\ Cardinality(A) \in Nat
  BY <1>1, <1>2, FS_Subset, FS_CardinalityType
<1>4. Called(F, 0) = 0
  <2>1. {i \in 1..0 : F[i].future} = {}
    OBVIOUS
  <2>2. QED
    BY <2>1, FS_EmptySet DEF Called
<1>5. CASE F[n + 1].future
  <2>1. {i \in 1..(n + 1) : F[i].future} = A \cup {n + 1} /\ n + 1 \notin A
    BY <1>1, <1>5
  <2>2. Cardinality(A \cup {n + 1}) = Cardinality(A) + 1
    BY <1>3, <2>1, FS_AddElement
  <2>3. QED
    BY <1>1, <1>3, <1>4, <1>5, <2>1, <2>2 DEF Called
<1>6. CASE ~F[n + 1].future
  <2>1. {i \in 1..(n + 1) : F[i].future} = A
    BY <1>1, <1>6
  <2>2. QED
    <3>1. Called(F, n + 1) = Cardinality(A) /\ Called(F, n) = Cardinality(A)
      BY <1>1, <2>1 DEF Called
    <3>2. Called(F, n + 1) = Called(F, n) + 0
      BY <1>3, <3>1
    <3>3. QED
      BY <1>1, <1>3, <1>4, <1>6, <3>1, <3>2
<1>7. QED
  BY <1>5, <1>6

LEMMA CalledSame ==
    ASSUME NEW F, NEW G, NEW n \in Nat, \A i \in 1..n : F[i] = G[i]
    PROVE  \A m \in 0..n : Called(F, m) = Called(G, m)
<1> SUFFICES ASSUME NEW m \in 0..n PROVE Called(F, m) = Called(G, m)
  OBVIOUS
<1>1. {i \in 1..m : F[i].future} = {i \in 1..m : G[i].future}
  OBVIOUS
<1>2. QED
  BY <1>1 DEF Called

LEMMA CalledGrows ==
    ASSUME NEW F, NEW n \in Nat, NEW m \in 0..n PROVE Called(F, m) <= Called(F, n)
<1>1. {i \in 1..m : F[i].future} \subseteq {i \in 1..n : F[i].future}
  OBVIOUS
<1>2. QED
  BY <1>1, CalledIs, FS_Subset DEF Called

\* A frame that called a future has a place of its own.
LEMMA CalledPlace ==
    ASSUME NEW F, NEW n \in Nat, NEW i \in 1..n, F[i].future
    PROVE  Called(F, i) \in 1..Called(F, n) /\ Called(F, i) = Called(F, i - 1) + 1
<1>1. PICK k \in Nat : i = k + 1
  <2>1. i - 1 \in Nat /\ i = (i - 1) + 1
    OBVIOUS
  <2>2. QED
    BY <2>1
<1>2. Called(F, i) = Called(F, k) + 1 /\ Called(F, k) \in Nat
  BY <1>1, CalledIs
<1>3. Called(F, i) <= Called(F, n) /\ Called(F, n) \in Nat
  <2>1. i \in 0..n
    OBVIOUS
  <2>2. QED
    BY <2>1, CalledGrows, CalledIs
<1>4. QED
  BY <1>1, <1>2, <1>3

\* When the first frame goes the others are one place lower.
LEMMA CalledShifts ==
    ASSUME NEW F, NEW G, NEW n \in Nat, \A i \in 1..n : G[i] = F[i + 1]
    PROVE  \A m \in 0..n : Called(F, m + 1) = Called(G, m) + (IF F[1].future THEN 1 ELSE 0)
<1> SUFFICES ASSUME NEW m \in 0..n
             PROVE  Called(F, m + 1) = Called(G, m) + (IF F[1].future THEN 1 ELSE 0)
  OBVIOUS
<1>1. PICK A : A = {i \in 1..m : G[i].future}
  OBVIOUS
<1>2. PICK B : B = {i \in 2..(m + 1) : F[i].future}
  OBVIOUS
<1>3. IsFiniteSet(A) /\ Cardinality(A) = Called(G, m) /\ Called(G, m) \in Nat
  <2>1. m \in Nat
    OBVIOUS
  <2>2. QED
    BY <1>1, <2>1, CalledIs DEF Called
<1>4. PICK h : h = [i \in A |-> i + 1]
  OBVIOUS
<1>5. h \in Bijection(A, B)
  <2>1. h \in [A -> B]
    BY <1>1, <1>2, <1>4
  <2>2. \A i, j \in A : h[i] = h[j] => i = j
    BY <1>1, <1>4
  <2>3. \A j \in B : \E i \in A : h[i] = j
    <3>1. ASSUME NEW j \in B PROVE j - 1 \in A /\ h[j - 1] = j
      BY <1>1, <1>2, <1>4
    <3>2. QED
      BY <3>1
  <2>4. QED
    BY <2>1, <2>2, <2>3, Fun_IsBij
<1>6. IsFiniteSet(B) /\ Cardinality(B) = Cardinality(A)
  BY <1>3, <1>5, FS_Bijection DEF ExistsBijection
<1>7. CASE F[1].future
  <2>1. {i \in 1..(m + 1) : F[i].future} = B \cup {1} /\ 1 \notin B
    BY <1>2, <1>7
  <2>2. Cardinality(B \cup {1}) = Cardinality(B) + 1
    BY <1>6, <2>1, FS_AddElement
  <2>3. QED
    BY <1>3, <1>6, <1>7, <2>1, <2>2 DEF Called
<1>8. CASE ~F[1].future
  <2>1. {i \in 1..(m + 1) : F[i].future} = B
    BY <1>2, <1>8
  <2>2. QED
    <3>1. Called(F, m + 1) = Cardinality(A)
      BY <1>6, <2>1 DEF Called
    <3>2. Called(F, m + 1) = Called(G, m) + 0
      BY <1>3, <3>1
    <3>3. QED
      BY <1>8, <3>2
<1>9. QED
  BY <1>7, <1>8

-----------------------------------------------------------------------------
(* A deque *)

\* The frames F and the fibers Q of a deque whose full frame has fiber self and
\* whose owner goes on with fiber f below the frames; extra is 1 while Q still
\* has the fiber of a future that has finished.
Fits(F, self, Q, f, extra) ==
    /\ IsSeq(F) /\ IsSeq(Q) /\ extra \in {0, 1}
    /\ F = <<>> => self = f
    /\ F # <<>> => self = F[1].on /\ F[Len(F)].child = f
    /\ \A i \in 1..(Len(F) - 1) : F[i + 1].on = F[i].child
    /\ \A i \in 1..Len(F) : ~F[i].future => F[i].on = F[i].child
    /\ Len(Q) = Called(F, Len(F)) + extra
    /\ \A i \in 1..Len(F) : F[i].future => Q[Called(F, i)] = F[i].child

LEMMA FitsFacts ==
    ASSUME NEW F, NEW self, NEW Q, NEW f, NEW extra, Fits(F, self, Q, f, extra)
    PROVE  /\ Len(F) \in Nat /\ Len(Q) \in Nat /\ extra \in {0, 1}
           /\ F = <<>> <=> Len(F) = 0
           /\ \A n \in 0..Len(F) : Called(F, n) \in Nat /\ Called(F, n) <= Called(F, Len(F))
<1>1. Len(F) \in Nat /\ Len(Q) \in Nat /\ extra \in {0, 1} /\ (F = <<>> <=> Len(F) = 0)
  BY SeqIs DEF Fits
<1>2. ASSUME NEW n \in 0..Len(F) PROVE Called(F, n) \in Nat /\ Called(F, n) <= Called(F, Len(F))
  <2>1. n \in Nat
    BY <1>1
  <2>2. Called(F, n) \in Nat
    BY <2>1, CalledIs
  <2>3. Called(F, n) <= Called(F, Len(F))
    BY <1>1, CalledGrows
  <2>4. QED
    BY <2>2, <2>3
<1>3. QED
  BY <1>1, <1>2

LEMMA EmptyFits == ASSUME NEW f PROVE Fits(<<>>, f, <<>>, f, 0)
<1>1. Called(<<>>, 0) = 0
  BY CalledIs
<1>2. IsSeq(<<>>) /\ Len(<<>>) = 0
  BY EmptyIs
<1>3. QED
  BY <1>1, <1>2 DEF Fits

LEMMA SpawnFits ==
    ASSUME NEW F, NEW self, NEW Q, NEW f, Fits(F, self, Q, f, 0)
    PROVE  Fits(Append(F, [future |-> FALSE, on |-> f, child |-> f]), self, Q, f, 0)
<1>1. PICK x : x = [future |-> FALSE, on |-> f, child |-> f]
  OBVIOUS
<1>2. PICK G : G = Append(F, x)
  OBVIOUS
<1>3. PICK n \in Nat : n = Len(F) /\ (F = <<>> <=> n = 0)
  BY FitsFacts
<1>4. IsSeq(G) /\ Len(G) = n + 1 /\ G # <<>> /\ G[n + 1] = x /\ \A i \in 1..n : G[i] = F[i]
  BY <1>2, <1>3, AppendIs DEF Fits
<1>5. ~x.future /\ x.on = f /\ x.child = f
  BY <1>1
<1>6. \A m \in 0..n : Called(G, m) = Called(F, m)
  <2>1. \A i \in 1..n : G[i] = F[i]
    BY <1>4
  <2>2. QED
    BY ONLY <2>1, n \in Nat, CalledSame
<1>7. Called(G, n + 1) = Called(F, n)
  <2>1. Called(G, n + 1) = Called(G, n) + (IF G[n + 1].future THEN 1 ELSE 0) /\ Called(G, n) \in Nat
    BY CalledIs
  <2>2. Called(G, n + 1) = Called(G, n) + 0
    BY <1>4, <1>5, <2>1
  <2>3. Called(G, n) = Called(F, n)
    BY <1>6
  <2>4. QED
    BY <2>1, <2>2, <2>3
<1>8. G[1].on = self
  <2>1. CASE n = 0
    BY <1>3, <1>4, <1>5, <2>1 DEF Fits
  <2>2. CASE n # 0
    BY <1>3, <1>4, <2>2 DEF Fits
  <2>3. QED
    BY <2>1, <2>2
<1>9. \A i \in 1..(Len(G) - 1) : G[i + 1].on = G[i].child
  <2>1. ASSUME NEW i \in 1..n PROVE G[i + 1].on = G[i].child
    <3>1. CASE i = n
      BY <1>3, <1>4, <1>5, <3>1 DEF Fits
    <3>2. CASE i # n
      <4>1. i \in 1..(n - 1) /\ i + 1 \in 1..n
        BY <3>2
      <4>2. QED
        BY <1>3, <1>4, <4>1 DEF Fits
    <3>3. QED
      BY <3>1, <3>2
  <2>2. QED
    BY <1>4, <2>1
<1>10. \A i \in 1..Len(G) : IF i = n + 1 THEN G[i] = x ELSE i \in 1..n /\ G[i] = F[i]
  BY <1>4
<1>11. \A i \in 1..Len(G) : ~G[i].future => G[i].on = G[i].child
  BY <1>3, <1>5, <1>10 DEF Fits
<1>12. \A i \in 1..Len(G) : G[i].future => Q[Called(G, i)] = G[i].child
  BY <1>3, <1>5, <1>6, <1>10 DEF Fits
<1>13. G[Len(G)].child = f
  BY <1>4, <1>5
<1>14. Len(Q) = Called(G, Len(G)) + 0
  BY <1>3, <1>4, <1>7 DEF Fits
<1>15. Fits(G, self, Q, f, 0)
  BY <1>4, <1>8, <1>9, <1>11, <1>12, <1>13, <1>14 DEF Fits
<1>16. QED
  BY <1>1, <1>2, <1>15

LEMMA FutureFits ==
    ASSUME NEW F, NEW self, NEW Q, NEW f, NEW g, Fits(F, self, Q, f, 0)
    PROVE  Fits(Append(F, [future |-> TRUE, on |-> f, child |-> g]), self, Append(Q, g), g, 0)
<1>1. PICK x : x = [future |-> TRUE, on |-> f, child |-> g]
  OBVIOUS
<1>2. PICK G, R : G = Append(F, x) /\ R = Append(Q, g)
  OBVIOUS
<1>3. PICK n \in Nat : n = Len(F) /\ (F = <<>> <=> n = 0)
  BY FitsFacts
<1>4. IsSeq(G) /\ Len(G) = n + 1 /\ G # <<>> /\ G[n + 1] = x /\ \A i \in 1..n : G[i] = F[i]
  BY <1>2, <1>3, AppendIs DEF Fits
<1>5. x.future /\ x.on = f /\ x.child = g
  BY <1>1
<1>6. \A m \in 0..n : Called(G, m) = Called(F, m) /\ Called(F, m) \in Nat
  <2>1. \A m \in 0..n : Called(G, m) = Called(F, m)
    <3>1. \A i \in 1..n : G[i] = F[i]
      BY <1>4
    <3>2. QED
      BY ONLY <3>1, n \in Nat, CalledSame
  <2>2. ASSUME NEW m \in 0..n PROVE Called(F, m) \in Nat
    <3>1. m \in Nat
      OBVIOUS
    <3>2. QED
      BY <3>1, CalledIs
  <2>3. QED
    BY <2>1, <2>2
<1>7. Called(G, n + 1) = Called(F, n) + 1
  <2>1. Called(G, n + 1) = Called(G, n) + (IF G[n + 1].future THEN 1 ELSE 0)
    BY CalledIs
  <2>2. QED
    BY <1>4, <1>5, <1>6, <2>1
<1>8. PICK q \in Nat : q = Len(Q) /\ q = Called(F, n)
  BY <1>3, <1>6, FitsFacts DEF Fits
<1>9. IsSeq(R) /\ Len(R) = q + 1 /\ R[q + 1] = g /\ \A i \in 1..q : R[i] = Q[i]
  BY <1>2, <1>8, AppendIs DEF Fits
<1>10. G[1].on = self
  <2>1. CASE n = 0
    BY <1>3, <1>4, <1>5, <2>1 DEF Fits
  <2>2. CASE n # 0
    BY <1>3, <1>4, <2>2 DEF Fits
  <2>3. QED
    BY <2>1, <2>2
<1>11. \A i \in 1..(Len(G) - 1) : G[i + 1].on = G[i].child
  <2>1. ASSUME NEW i \in 1..n PROVE G[i + 1].on = G[i].child
    <3>1. CASE i = n
      BY <1>3, <1>4, <1>5, <3>1 DEF Fits
    <3>2. CASE i # n
      <4>1. i \in 1..(n - 1) /\ i + 1 \in 1..n
        BY <3>2
      <4>2. QED
        BY <1>3, <1>4, <4>1 DEF Fits
    <3>3. QED
      BY <3>1, <3>2
  <2>2. QED
    BY <1>4, <2>1
<1>12. \A i \in 1..Len(G) : IF i = n + 1 THEN G[i] = x ELSE i \in 1..n /\ G[i] = F[i]
  BY <1>4
<1>13. \A i \in 1..Len(G) : ~G[i].future => G[i].on = G[i].child
  BY <1>3, <1>5, <1>12 DEF Fits
<1>14. ASSUME NEW i \in 1..Len(G), G[i].future PROVE R[Called(G, i)] = G[i].child
  <2>1. CASE i = n + 1
    BY <1>4, <1>5, <1>7, <1>8, <1>9, <2>1
  <2>2. CASE i # n + 1
    <3>1. i \in 1..n /\ G[i] = F[i]
      BY <1>12, <2>2
    <3>2. Called(F, i) \in 1..q /\ Q[Called(F, i)] = F[i].child
      BY <1>3, <1>8, <1>14, <3>1, CalledPlace DEF Fits
    <3>3. Called(G, i) = Called(F, i)
      BY <1>6, <3>1
    <3>4. QED
      BY <1>9, <3>1, <3>2, <3>3
  <2>3. QED
    BY <2>1, <2>2
<1>15. G[Len(G)].child = g
  BY <1>4, <1>5
<1>16. Len(R) = Called(G, Len(G)) + 0
  BY <1>4, <1>7, <1>8, <1>9
<1>17. Fits(G, self, R, g, 0)
  BY <1>4, <1>9, <1>10, <1>11, <1>13, <1>14, <1>15, <1>16 DEF Fits
<1>18. QED
  BY <1>1, <1>2, <1>17

\* A spawned child returns.
LEMMA SpawnPops ==
    ASSUME NEW F, NEW self, NEW Q, NEW f, Fits(F, self, Q, f, 0), F # <<>>, ~Last(F).future
    PROVE  Fits(Front(F), self, Q, f, 0)
<1>1. PICK G : G = Front(F)
  OBVIOUS
<1>2. PICK n \in Nat : Len(F) = n + 1
  <2>1. Len(F) \in Nat /\ Len(F) # 0
    BY FitsFacts
  <2>2. Len(F) - 1 \in Nat /\ Len(F) = (Len(F) - 1) + 1
    BY <2>1
  <2>3. QED
    BY <2>2
<1>3. IsSeq(G) /\ Len(G) = n /\ (\A i \in 1..n : G[i] = F[i]) /\ (G = <<>> <=> n = 0)
  <2>1. IsSeq(F) /\ F # <<>> /\ Len(F) - 1 = n
    BY <1>2 DEF Fits
  <2>2. IsSeq(G) /\ Len(G) = n /\ (\A i \in 1..n : G[i] = F[i])
    <3>1. IsSeq(G) /\ Len(G) = Len(F) - 1 /\ \A i \in 1..(Len(F) - 1) : G[i] = F[i]
      BY <1>1, <2>1, FrontIs
    <3>2. QED
      BY <2>1, <3>1
  <2>3. QED
    BY <2>2, SeqIs
<1>4. ~F[n + 1].future /\ F[n + 1].on = F[n + 1].child /\ F[n + 1].child = f
  <2>1. Last(F) = F[n + 1]
    BY <1>2 DEF Last
  <2>2. n + 1 \in 1..Len(F)
    BY <1>2
  <2>3. QED
    BY <1>2, <2>1, <2>2 DEF Fits
<1>5. \A m \in 0..n : Called(G, m) = Called(F, m)
  <2>1. \A i \in 1..n : G[i] = F[i]
    BY <1>3
  <2>2. QED
    BY ONLY <2>1, n \in Nat, CalledSame
<1>6. Called(F, n + 1) = Called(F, n)
  <2>1. Called(F, n + 1) = Called(F, n) + (IF F[n + 1].future THEN 1 ELSE 0) /\ Called(F, n) \in Nat
    BY CalledIs
  <2>2. Called(F, n + 1) = Called(F, n) + 0
    BY <1>4, <2>1
  <2>3. QED
    BY <2>1, <2>2
<1>7. CASE n = 0
  <2>1. self = f
    BY <1>2, <1>4, <1>7 DEF Fits
  <2>2. Len(Q) = Called(G, Len(G)) + 0
    BY <1>2, <1>3, <1>5, <1>6, <1>7 DEF Fits
  <2>3. Fits(G, self, Q, f, 0)
    BY <1>3, <1>7, <2>1, <2>2 DEF Fits
  <2>4. QED
    BY <1>1, <2>3
<1>8. CASE n # 0
  <2>1. self = G[1].on /\ G[n].child = f
    <3>1. n \in 1..(Len(F) - 1) /\ 1 \in 1..n /\ n \in 1..n
      BY <1>2, <1>8
    <3>2. F[n + 1].on = F[n].child
      BY <3>1 DEF Fits
    <3>3. QED
      BY <1>3, <1>4, <3>1, <3>2 DEF Fits
  <2>2. Len(Q) = Called(G, Len(G)) + 0
    BY <1>2, <1>3, <1>5, <1>6 DEF Fits
  <2>3. \A i \in 1..(Len(G) - 1) : G[i + 1].on = G[i].child
    <3>1. ASSUME NEW i \in 1..(n - 1) PROVE i \in 1..(Len(F) - 1) /\ i \in 1..n /\ i + 1 \in 1..n
      BY <1>2
    <3>2. QED
      BY <1>3, <3>1 DEF Fits
  <2>4. \A i \in 1..Len(G) : ~G[i].future => G[i].on = G[i].child
    BY <1>2, <1>3 DEF Fits
  <2>5. \A i \in 1..Len(G) : G[i].future => Q[Called(G, i)] = G[i].child
    BY <1>2, <1>3, <1>5 DEF Fits
  <2>6. Fits(G, self, Q, f, 0)
    BY <1>3, <1>8, <2>1, <2>2, <2>3, <2>4, <2>5 DEF Fits
  <2>7. QED
    BY <1>1, <2>6
<1>9. QED
  BY <1>7, <1>8

\* A future returns: its fiber is still on the deque of fibers.
LEMMA FuturePops ==
    ASSUME NEW F, NEW self, NEW Q, NEW f, Fits(F, self, Q, f, 0), F # <<>>, Last(F).future
    PROVE  Fits(Front(F), self, Q, Last(F).on, 1) /\ Last(Q) = f
<1>1. PICK G, h : G = Front(F) /\ h = Last(F).on
  OBVIOUS
<1>2. PICK n \in Nat : Len(F) = n + 1
  <2>1. Len(F) \in Nat /\ Len(F) # 0
    BY FitsFacts
  <2>2. Len(F) - 1 \in Nat /\ Len(F) = (Len(F) - 1) + 1
    BY <2>1
  <2>3. QED
    BY <2>2
<1>3. IsSeq(G) /\ Len(G) = n /\ (\A i \in 1..n : G[i] = F[i]) /\ (G = <<>> <=> n = 0)
  <2>1. IsSeq(F) /\ F # <<>> /\ Len(F) - 1 = n
    BY <1>2 DEF Fits
  <2>2. IsSeq(G) /\ Len(G) = n /\ (\A i \in 1..n : G[i] = F[i])
    <3>1. IsSeq(G) /\ Len(G) = Len(F) - 1 /\ \A i \in 1..(Len(F) - 1) : G[i] = F[i]
      BY <1>1, <2>1, FrontIs
    <3>2. QED
      BY <2>1, <3>1
  <2>3. QED
    BY <2>2, SeqIs
<1>4. F[n + 1].future /\ F[n + 1].on = h /\ F[n + 1].child = f /\ Q[Called(F, n + 1)] = f
  <2>1. Last(F) = F[n + 1]
    BY <1>2 DEF Last
  <2>2. n + 1 \in 1..Len(F)
    BY <1>2
  <2>3. QED
    BY <1>1, <1>2, <2>1, <2>2 DEF Fits
<1>5. \A m \in 0..n : Called(G, m) = Called(F, m)
  <2>1. \A i \in 1..n : G[i] = F[i]
    BY <1>3
  <2>2. QED
    BY ONLY <2>1, n \in Nat, CalledSame
<1>6. Called(F, n + 1) = Called(F, n) + 1 /\ Called(F, n) \in Nat
  <2>1. Called(F, n + 1) = Called(F, n) + (IF F[n + 1].future THEN 1 ELSE 0) /\ Called(F, n) \in Nat
    BY CalledIs
  <2>2. QED
    BY <1>4, <2>1
<1>7. Len(Q) = Called(F, n + 1) /\ Len(Q) = Called(G, Len(G)) + 1
  BY <1>2, <1>3, <1>5, <1>6 DEF Fits
<1>8. Last(Q) = f
  BY <1>4, <1>7 DEF Last
<1>9. CASE n = 0
  <2>1. self = h
    BY <1>2, <1>4, <1>9 DEF Fits
  <2>2. Fits(G, self, Q, h, 1)
    BY <1>3, <1>7, <1>9, <2>1 DEF Fits
  <2>3. QED
    BY <1>1, <1>8, <2>2
<1>10. CASE n # 0
  <2>1. self = G[1].on /\ G[n].child = h
    <3>1. n \in 1..(Len(F) - 1) /\ 1 \in 1..n /\ n \in 1..n
      BY <1>2, <1>10
    <3>2. F[n + 1].on = F[n].child
      BY <3>1 DEF Fits
    <3>3. QED
      BY <1>3, <1>4, <3>1, <3>2 DEF Fits
  <2>3. \A i \in 1..(Len(G) - 1) : G[i + 1].on = G[i].child
    <3>1. ASSUME NEW i \in 1..(n - 1) PROVE i \in 1..(Len(F) - 1) /\ i \in 1..n /\ i + 1 \in 1..n
      BY <1>2
    <3>2. QED
      BY <1>3, <3>1 DEF Fits
  <2>4. \A i \in 1..Len(G) : ~G[i].future => G[i].on = G[i].child
    BY <1>2, <1>3 DEF Fits
  <2>5. \A i \in 1..Len(G) : G[i].future => Q[Called(G, i)] = G[i].child
    BY <1>2, <1>3, <1>5 DEF Fits
  <2>6. Fits(G, self, Q, h, 1)
    BY <1>3, <1>7, <1>10, <2>1, <2>3, <2>4, <2>5 DEF Fits
  <2>7. QED
    BY <1>1, <1>8, <2>6
<1>11. QED
  BY <1>9, <1>10

\* Its worker has gone back.
LEMMA FiberPops ==
    ASSUME NEW F, NEW self, NEW Q, NEW f, Fits(F, self, Q, f, 1)
    PROVE  Fits(F, self, Front(Q), f, 0)
<1>1. PICK n \in Nat, q \in Nat : n = Len(F) /\ q = Called(F, n) /\ Len(Q) = q + 1
  <2>1. Len(F) \in Nat /\ Called(F, Len(F)) \in Nat
    BY FitsFacts, CalledIs
  <2>2. Len(Q) = Called(F, Len(F)) + 1
    BY DEF Fits
  <2>3. QED
    BY <2>1, <2>2
<1>2. Q # <<>> /\ IsSeq(Q)
  BY <1>1, SeqIs DEF Fits
<1>3. PICK R : R = Front(Q)
  OBVIOUS
<1>4. IsSeq(R) /\ Len(R) = q /\ \A i \in 1..q : R[i] = Q[i]
  BY <1>1, <1>2, <1>3, FrontIs
<1>5. ASSUME NEW i \in 1..Len(F), F[i].future PROVE R[Called(F, i)] = F[i].child
  <2>1. Called(F, i) \in 1..q
    BY <1>1, <1>5, CalledPlace
  <2>2. QED
    BY <1>4, <1>5, <2>1 DEF Fits
<1>6. Len(R) = Called(F, Len(F)) + 0
  BY <1>1, <1>4
<1>7. Fits(F, self, R, f, 0)
  BY <1>4, <1>5, <1>6 DEF Fits
<1>8. QED
  BY <1>3, <1>7

\* A thief takes the first frame: the others go on with the fiber it was left
\* on, or, if it called a future, with that of the future.
LEMMA FitsDetached ==
    ASSUME NEW F, NEW self, NEW Q, NEW f, NEW extra, Fits(F, self, Q, f, extra), F # <<>>
    PROVE  IF Head(F).future
           THEN Fits(Tail(F), Head(Q), Tail(Q), f, extra)
                /\ (extra = 1 => Last(Tail(Q)) = Last(Q))
           ELSE Fits(Tail(F), self, Q, f, extra)
<1>1. PICK G : G = Tail(F)
  OBVIOUS
<1>2. PICK n \in Nat : Len(F) = n + 1
  <2>1. Len(F) \in Nat /\ Len(F) # 0
    BY FitsFacts
  <2>2. Len(F) - 1 \in Nat /\ Len(F) = (Len(F) - 1) + 1
    BY <2>1
  <2>3. QED
    BY <2>2
<1>3. IsSeq(G) /\ Len(G) = n /\ Head(F) = F[1] /\ (\A i \in 1..n : G[i] = F[i + 1]) /\ (G = <<>> <=> n = 0)
  <2>1. IsSeq(F) /\ Len(F) - 1 = n
    BY <1>2 DEF Fits
  <2>2. IsSeq(G) /\ Len(G) = n /\ Head(F) = F[1] /\ (\A i \in 1..n : G[i] = F[i + 1])
    <3>1. IsSeq(G) /\ Len(G) = Len(F) - 1 /\ Head(F) = F[1] /\ \A i \in 1..(Len(F) - 1) : G[i] = F[i + 1]
      BY <1>1, <2>1, TailIs
    <3>2. QED
      BY <2>1, <3>1
  <2>3. QED
    BY <2>2, SeqIs
<1>4. self = F[1].on /\ F[n + 1].child = f /\ extra \in {0, 1} /\ IsSeq(Q)
  BY <1>2 DEF Fits
<1>5. \A i \in 1..(Len(G) - 1) : G[i + 1].on = G[i].child
  <2>1. ASSUME NEW i \in 1..(n - 1) PROVE i + 1 \in 1..(Len(F) - 1) /\ i \in 1..n /\ i + 1 \in 1..n
    BY <1>2
  <2>2. QED
    BY <1>3, <2>1 DEF Fits
<1>6. \A i \in 1..Len(G) : ~G[i].future => G[i].on = G[i].child
  <2>1. ASSUME NEW i \in 1..n PROVE i + 1 \in 1..Len(F)
    BY <1>2
  <2>2. QED
    BY <1>3, <2>1 DEF Fits
<1>7. G # <<>> => G[1].on = F[1].child /\ G[Len(G)].child = f
  <2>1. ASSUME n # 0 PROVE 1 \in 1..(Len(F) - 1) /\ 1 \in 1..n /\ n \in 1..n
    BY <1>2, <2>1
  <2>2. ASSUME n # 0 PROVE F[1 + 1].on = F[1].child
    BY <2>1, <2>2 DEF Fits
  <2>3. ASSUME n # 0 PROVE G[1] = F[1 + 1] /\ G[n] = F[n + 1]
    BY <1>3, <2>1, <2>3
  <2>4. QED
    BY <1>3, <1>4, <2>2, <2>3
<1>8. G = <<>> => F[1].child = f
  BY <1>3, <1>4
<1>9. PICK c : c = IF F[1].future THEN 1 ELSE 0
  OBVIOUS
<1>10. \A m \in 0..n : Called(F, m + 1) = Called(G, m) + c /\ Called(G, m) \in Nat
  <2>1. \A m \in 0..n : Called(F, m + 1) = Called(G, m) + c
    <3>1. \A i \in 1..n : G[i] = F[i + 1]
      BY <1>3
    <3>2. \A m \in 0..n : Called(F, m + 1) = Called(G, m) + (IF F[1].future THEN 1 ELSE 0)
      BY ONLY <3>1, n \in Nat, CalledShifts
    <3>3. QED
      BY <1>9, <3>2
  <2>2. ASSUME NEW m \in 0..n PROVE Called(G, m) \in Nat
    <3>1. m \in Nat
      OBVIOUS
    <3>2. QED
      BY <3>1, CalledIs
  <2>3. QED
    BY <2>1, <2>2
<1>11. PICK g \in Nat : g = Called(G, n) /\ Len(Q) = (g + c) + extra
  <2>1. n \in 0..n
    OBVIOUS
  <2>2. Called(F, n + 1) = Called(G, n) + c /\ Called(G, n) \in Nat
    BY <1>10, <2>1
  <2>3. Len(Q) = Called(F, n + 1) + extra
    BY <1>2 DEF Fits
  <2>4. QED
    BY <2>2, <2>3
<1>12. ASSUME NEW i \in 1..n, G[i].future PROVE Q[Called(G, i) + c] = G[i].child /\ Called(G, i) \in 1..g
  <2>1. i + 1 \in 1..Len(F) /\ G[i] = F[i + 1] /\ i \in 0..n
    BY <1>2, <1>3
  <2>2. Q[Called(F, i + 1)] = F[i + 1].child
    BY <1>12, <2>1 DEF Fits
  <2>3. Called(F, i + 1) = Called(G, i) + c
    BY <1>10, <2>1
  <2>4. Called(G, i) \in 1..g
    BY <1>11, <1>12, CalledPlace
  <2>5. QED
    BY <2>1, <2>2, <2>3, <2>4
<1>13. CASE ~F[1].future
  <2>1. c = 0
    BY <1>9, <1>13
  <2>2. self = F[1].child
    <3>1. 1 \in 1..Len(F)
      BY <1>2
    <3>2. QED
      BY <1>4, <1>13, <3>1 DEF Fits
  <2>3. Len(Q) = Called(G, Len(G)) + extra
    BY <1>3, <1>4, <1>11, <2>1
  <2>4. \A i \in 1..Len(G) : G[i].future => Q[Called(G, i)] = G[i].child
    <3>1. ASSUME NEW i \in 1..n, G[i].future PROVE Q[Called(G, i)] = G[i].child
      <4>1. Q[Called(G, i) + 0] = G[i].child /\ Called(G, i) \in Nat
        BY <1>12, <2>1, <3>1
      <4>2. QED
        BY <4>1
    <3>2. QED
      BY <1>3, <3>1
  <2>5. Fits(G, self, Q, f, extra)
    BY <1>3, <1>4, <1>5, <1>6, <1>7, <1>8, <2>2, <2>3, <2>4 DEF Fits
  <2>6. QED
    BY <1>1, <1>3, <1>13, <2>5
<1>14. CASE F[1].future
  <2>1. c = 1
    BY <1>9, <1>14
  <2>2. PICK R, h : R = Tail(Q) /\ h = Head(Q)
    OBVIOUS
  <2>3. PICK q \in Nat : Len(Q) = q + 1 /\ q = g + extra
    BY <1>4, <1>11, <2>1
  <2>4. IsSeq(R) /\ Len(R) = q /\ h = Q[1] /\ \A i \in 1..q : R[i] = Q[i + 1]
    <3>1. IsSeq(Q) /\ Q # <<>> /\ Len(Q) - 1 = q
      BY <1>4, <2>3, SeqIs
    <3>2. IsSeq(R) /\ Len(R) = Len(Q) - 1 /\ h = Q[1] /\ \A i \in 1..(Len(Q) - 1) : R[i] = Q[i + 1]
      BY <2>2, <3>1, TailIs
    <3>3. QED
      BY <3>1, <3>2
  <2>5. h = F[1].child
    <3>1. 1 \in 1..Len(F) /\ 0 \in 0..n
      BY <1>2
    <3>2. Called(F, 0 + 1) = Called(G, 0) + 1 /\ Called(G, 0) = 0
      BY <1>10, <2>1, <3>1, CalledIs
    <3>3. Called(F, 1) = 1
      BY <3>2
    <3>4. QED
      BY <1>14, <2>4, <3>1, <3>3 DEF Fits
  <2>6. Len(R) = Called(G, Len(G)) + extra
    BY <1>3, <1>11, <2>3, <2>4
  <2>7. \A i \in 1..Len(G) : G[i].future => R[Called(G, i)] = G[i].child
    <3>1. ASSUME NEW i \in 1..n, G[i].future PROVE R[Called(G, i)] = G[i].child
      <4>1. Q[Called(G, i) + 1] = G[i].child /\ Called(G, i) \in 1..g
        BY <1>12, <2>1, <3>1
      <4>2. Called(G, i) \in 1..q
        BY <1>4, <2>3, <4>1
      <4>3. QED
        BY <2>4, <4>1, <4>2
    <3>2. QED
      BY <1>3, <3>1
  <2>8. Fits(G, h, R, f, extra)
    BY <1>3, <1>4, <1>5, <1>6, <1>7, <1>8, <2>4, <2>5, <2>6, <2>7 DEF Fits
  <2>9. ASSUME extra = 1 PROVE Last(R) = Last(Q)
    <3>1. q \in 1..q
      BY <2>3, <2>9
    <3>2. QED
      BY <2>3, <2>4, <3>1 DEF Last
  <2>10. QED
    BY <1>1, <1>3, <1>14, <2>2, <2>8, <2>9
<1>15. QED
  BY <1>13, <1>14

-----------------------------------------------------------------------------
(* The deques of the workers and those that are suspended *)

IsDeque(d) == \E F, Q, self : d = [frames |-> F, futures |-> Q, fiber_self |-> self]

DequeFits(d, f, extra) == IsDeque(d) /\ Fits(d.frames, d.fiber_self, d.futures, f, extra)

\* The deque d of worker w, which is on fiber t, at p, and goes back to i from
\* a future that has finished.
DequeFor(w, d, t, p, i) ==
    \/ p = "back" /\ DequeFits(d, i, 1) /\ Last(d.futures) = t
    \/ p # "back" /\ \E f : DequeFits(d, f, 0) /\ (p = "user" \/ (p = "post" /\ t # w) => f = t)

ParkedFits(x) == (\E d, f : x = [deque |-> d, fiber |-> f]) /\ DequeFits(x.deque, x.fiber, 0)

ByWorker(g) == \E S : g \in [Workers -> S]

DequesInv ==
    /\ ByWorker(active) /\ ByWorker(tls) /\ ByWorker(pc) /\ ByWorker(initial)
    /\ \A w \in Workers : DequeFor(w, active[w], tls[w], pc[w], initial[w])
    /\ \A x \in parked : ParkedFits(x)

LEMMA MadeFits ==
    ASSUME NEW F, NEW self, NEW Q, NEW f, NEW extra, Fits(F, self, Q, f, extra)
    PROVE  DequeFits([frames |-> F, futures |-> Q, fiber_self |-> self], f, extra)
BY DEF DequeFits, IsDeque

LEMMA LootFits ==
    ASSUME NEW f
    PROVE  DequeFits([EmptyDeque EXCEPT !.fiber_self = f], f, 0) /\ DequeFits(EmptyDeque, NoFiber, 0)
<1>1. IsDeque(EmptyDeque)
  BY DEF EmptyDeque, IsDeque
<1>2. EmptyDeque.frames = <<>> /\ EmptyDeque.futures = <<>> /\ EmptyDeque.fiber_self = NoFiber
  BY DEF EmptyDeque
<1>3. [EmptyDeque EXCEPT !.fiber_self = f] = [frames |-> <<>>, futures |-> <<>>, fiber_self |-> f]
  BY DEF EmptyDeque
<1>4. DequeFits([frames |-> <<>>, futures |-> <<>>, fiber_self |-> f], f, 0)
  BY EmptyFits, MadeFits
<1>5. DequeFits(EmptyDeque, NoFiber, 0)
  BY <1>1, <1>2, EmptyFits DEF DequeFits
<1>6. QED
  BY <1>3, <1>4, <1>5

\* What a thief leaves of a deque
LEMMA DetachedFits ==
    ASSUME NEW d, NEW f, NEW extra, DequeFits(d, f, extra), d.frames # <<>>
    PROVE  DequeFits(Detached(d), f, extra)
           /\ (extra = 1 => Last(Detached(d).futures) = Last(d.futures))
<1>1. PICK F, Q, self : F = d.frames /\ Q = d.futures /\ self = d.fiber_self
  OBVIOUS
<1>2. IsDeque(d) /\ Fits(F, self, Q, f, extra) /\ F # <<>>
  BY <1>1 DEF DequeFits
<1>3. CASE Head(F).future
  <2>1. PICK G, R, g : G = Tail(F) /\ R = Tail(Q) /\ g = Head(Q)
    OBVIOUS
  <2>2. Detached(d) = [frames |-> G, futures |-> R, fiber_self |-> g]
    <3>1. d = [frames |-> F, futures |-> Q, fiber_self |-> self]
      BY <1>1, <1>2 DEF IsDeque
    <3>2. pop_head_future_fiber(d) = [frames |-> F, futures |-> R, fiber_self |-> g]
      <4>1. pop_head_future_fiber(d) = [d EXCEPT !.futures = Tail(@), !.fiber_self = Head(d.futures)]
        BY <1>1, <1>3 DEF pop_head_future_fiber
      <4>2. [d EXCEPT !.futures = Tail(@), !.fiber_self = Head(d.futures)]
              = [d EXCEPT !.futures = R, !.fiber_self = g]
        BY <1>1, <2>1
      <4>3. [d EXCEPT !.futures = R, !.fiber_self = g] = [frames |-> F, futures |-> R, fiber_self |-> g]
        <5>1. [d EXCEPT !.futures = R, !.fiber_self = g] = [[d EXCEPT !.futures = R] EXCEPT !.fiber_self = g]
          OBVIOUS
        <5>2. [d EXCEPT !.futures = R] = [frames |-> F, futures |-> R, fiber_self |-> self]
          BY <3>1
        <5>3. [[frames |-> F, futures |-> R, fiber_self |-> self] EXCEPT !.fiber_self = g]
                = [frames |-> F, futures |-> R, fiber_self |-> g]
          OBVIOUS
        <5>4. QED
          BY <5>1, <5>2, <5>3
      <4>4. QED
        BY <4>1, <4>2, <4>3
    <3>3. PICK c : c = pop_head_future_fiber(d)
      OBVIOUS
    <3>4. c = [frames |-> F, futures |-> R, fiber_self |-> g]
      BY <3>2, <3>3
    <3>5. Detached(d) = [c EXCEPT !.frames = G]
      <4>1. c.frames = F
        BY <3>4
      <4>2. Detached(d) = [c EXCEPT !.frames = Tail(@)]
        BY <3>3 DEF Detached
      <4>3. QED
        BY <2>1, <4>1, <4>2
    <3>6. [c EXCEPT !.frames = G] = [frames |-> G, futures |-> R, fiber_self |-> g]
      BY <3>4
    <3>7. QED
      BY <3>5, <3>6
  <2>3. Fits(G, g, R, f, extra) /\ (extra = 1 => Last(R) = Last(Q))
    BY <1>2, <1>3, <2>1, FitsDetached
  <2>4. DequeFits(Detached(d), f, extra) /\ Detached(d).futures = R
    BY <2>2, <2>3, MadeFits
  <2>5. QED
    BY <1>1, <2>3, <2>4
<1>4. CASE ~Head(F).future
  <2>1. PICK G : G = Tail(F)
    OBVIOUS
  <2>2. Detached(d) = [frames |-> G, futures |-> Q, fiber_self |-> self]
    <3>1. d = [frames |-> F, futures |-> Q, fiber_self |-> self]
      BY <1>1, <1>2 DEF IsDeque
    <3>2. pop_head_future_fiber(d) = [frames |-> F, futures |-> Q, fiber_self |-> self]
      BY <3>1, <1>4 DEF pop_head_future_fiber
    <3>3. PICK c : c = pop_head_future_fiber(d)
      OBVIOUS
    <3>4. c = [frames |-> F, futures |-> Q, fiber_self |-> self]
      BY <3>2, <3>3
    <3>5. Detached(d) = [c EXCEPT !.frames = G]
      <4>1. c.frames = F
        BY <3>4
      <4>2. Detached(d) = [c EXCEPT !.frames = Tail(@)]
        BY <3>3 DEF Detached
      <4>3. QED
        BY <2>1, <4>1, <4>2
    <3>6. [c EXCEPT !.frames = G] = [frames |-> G, futures |-> Q, fiber_self |-> self]
      BY <3>4
    <3>7. QED
      BY <3>5, <3>6
  <2>3. Fits(G, self, Q, f, extra)
    BY <1>2, <1>4, <2>1, FitsDetached
  <2>4. DequeFits(Detached(d), f, extra) /\ Detached(d).futures = Q
    BY <2>2, <2>3, MadeFits
  <2>5. QED
    BY <1>1, <2>4
<1>5. QED
  BY <1>3, <1>4

\* h is g, except that worker w has x.
Only(g, h, w, x) == ByWorker(h) /\ h[w] = x /\ \A v \in Workers \ {w} : h[v] = g[v]

LEMMA ExceptOnly ==
    ASSUME NEW g, ByWorker(g), NEW w \in Workers, NEW x PROVE Only(g, [g EXCEPT ![w] = x], w, x)
<1>1. PICK S : g \in [Workers -> S]
  BY DEF ByWorker
<1>2. PICK T : T = S \cup {x}
  OBVIOUS
<1>3. [g EXCEPT ![w] = x] \in [Workers -> T]
  BY <1>1, <1>2
<1>4. QED
  BY <1>1, <1>3 DEF Only, ByWorker

LEMMA SameOnly ==
    ASSUME NEW g, ByWorker(g), NEW w \in Workers PROVE Only(g, g, w, g[w])
BY DEF Only

\* A step of worker w that leaves the deques of the other workers alone
LEMMA LocalStep ==
    ASSUME DequesInv, NEW w \in Workers, NEW d, NEW t, NEW p, NEW i,
           Only(active, active', w, d), Only(tls, tls', w, t), Only(pc, pc', w, p),
           Only(initial, initial', w, i), DequeFor(w, d, t, p, i),
           \A x \in parked' : x \in parked \/ ParkedFits(x)
    PROVE  DequesInv'
<1>1. ByWorker(active') /\ ByWorker(tls') /\ ByWorker(pc') /\ ByWorker(initial')
  BY DEF Only
<1>2. ASSUME NEW v \in Workers PROVE DequeFor(v, active'[v], tls'[v], pc'[v], initial'[v])
  <2>1. CASE v = w
    BY <2>1 DEF Only
  <2>2. CASE v # w
    BY <2>2 DEF Only, DequesInv
  <2>3. QED
    BY <2>1, <2>2
<1>3. \A x \in parked' : ParkedFits(x)
  BY DEF DequesInv
<1>4. QED
  BY <1>1, <1>2, <1>3 DEF DequesInv

-----------------------------------------------------------------------------
(* The actions *)

LEMMA InUser ==
    ASSUME DequesInv, NEW w \in Workers, pc[w] = "user"
    PROVE  /\ DequeFits(active[w], tls[w], 0)
           /\ \E F, Q, self : active[w] = [frames |-> F, futures |-> Q, fiber_self |-> self]
                              /\ Fits(F, self, Q, tls[w], 0)
<1>1. DequeFits(active[w], tls[w], 0)
  BY DEF DequesInv, DequeFor
<1>2. PICK F, Q, self : active[w] = [frames |-> F, futures |-> Q, fiber_self |-> self]
  BY <1>1 DEF DequeFits, IsDeque
<1>3. Fits(F, self, Q, tls[w], 0)
  BY <1>1, <1>2 DEF DequeFits
<1>4. QED
  BY <1>1, <1>2, <1>3

LEMMA Maps ==
    ASSUME DequesInv, NEW w \in Workers
    PROVE  /\ ByWorker(active) /\ ByWorker(tls) /\ ByWorker(pc) /\ ByWorker(initial)
           /\ Only(active, active, w, active[w]) /\ Only(tls, tls, w, tls[w])
           /\ Only(pc, pc, w, pc[w]) /\ Only(initial, initial, w, initial[w])
BY SameOnly DEF DequesInv

LEMMA SpawnStep ==
    ASSUME DequesInv, NEW w \in Workers, Spawn(w) PROVE DequesInv'
<1>1. pc[w] = "user" /\ tls' = tls /\ pc' = pc /\ initial' = initial /\ parked' = parked
  BY DEF Spawn, switching
<1>2. PICK F, Q, self : active[w] = [frames |-> F, futures |-> Q, fiber_self |-> self]
                        /\ Fits(F, self, Q, tls[w], 0)
  BY <1>1, InUser
<1>3. PICK G : G = Append(F, [future |-> FALSE, on |-> tls[w], child |-> tls[w]])
  OBVIOUS
<1>4. active' = [active EXCEPT ![w] = [frames |-> G, futures |-> Q, fiber_self |-> self]]
  <2>1. active[w].frames = F
    BY <1>2
  <2>2. active' = [active EXCEPT ![w].frames = G]
    BY <1>3, <2>1 DEF Spawn, Push
  <2>3. active' = [active EXCEPT ![w] = [active[w] EXCEPT !.frames = G]]
    BY <2>2
  <2>4. [active[w] EXCEPT !.frames = G] = [frames |-> G, futures |-> Q, fiber_self |-> self]
    BY <1>2
  <2>5. QED
    BY <2>3, <2>4
<1>5. DequeFits([frames |-> G, futures |-> Q, fiber_self |-> self], tls[w], 0)
  BY <1>2, <1>3, SpawnFits, MadeFits
<1>6. DequeFor(w, [frames |-> G, futures |-> Q, fiber_self |-> self], tls[w], pc[w], initial[w])
  BY <1>1, <1>5 DEF DequeFor
<1>7. Only(active, active', w, [frames |-> G, futures |-> Q, fiber_self |-> self])
  BY <1>4, Maps, ExceptOnly
<1>8. QED
  BY <1>1, <1>6, <1>7, Maps, LocalStep

LEMMA SpawnReturnStep ==
    ASSUME DequesInv, NEW w \in Workers, SpawnReturn(w) PROVE DequesInv'
<1>1. pc[w] = "user" /\ tls' = tls /\ pc' = pc /\ initial' = initial /\ parked' = parked
  BY DEF SpawnReturn, switching
<1>2. PICK F, Q, self : active[w] = [frames |-> F, futures |-> Q, fiber_self |-> self]
                        /\ Fits(F, self, Q, tls[w], 0)
  BY <1>1, InUser
<1>3. PICK G : G = Front(F)
  OBVIOUS
<1>4. active[w].frames = F /\ F # <<>> /\ ~Last(F).future
  BY <1>2 DEF SpawnReturn
<1>5. active' = [active EXCEPT ![w] = [frames |-> G, futures |-> Q, fiber_self |-> self]]
  <2>1. active' = [active EXCEPT ![w].frames = G]
    BY <1>3, <1>4 DEF SpawnReturn
  <2>2. active' = [active EXCEPT ![w] = [active[w] EXCEPT !.frames = G]]
    BY <2>1
  <2>3. [active[w] EXCEPT !.frames = G] = [frames |-> G, futures |-> Q, fiber_self |-> self]
    BY <1>2
  <2>4. QED
    BY <2>2, <2>3
<1>6. DequeFits([frames |-> G, futures |-> Q, fiber_self |-> self], tls[w], 0)
  BY <1>2, <1>3, <1>4, SpawnPops, MadeFits
<1>7. DequeFor(w, [frames |-> G, futures |-> Q, fiber_self |-> self], tls[w], pc[w], initial[w])
  BY <1>1, <1>6 DEF DequeFor
<1>8. Only(active, active', w, [frames |-> G, futures |-> Q, fiber_self |-> self])
  BY <1>5, Maps, ExceptOnly
<1>9. QED
  BY <1>1, <1>7, <1>8, Maps, LocalStep

LEMMA FutureReturnStep ==
    ASSUME DequesInv, NEW w \in Workers, FutureReturn(w) PROVE DequesInv'
<1>1. pc[w] = "user" /\ tls' = tls /\ pc' = [pc EXCEPT ![w] = "back"] /\ parked' = parked
  BY DEF FutureReturn
<1>2. PICK F, Q, self : active[w] = [frames |-> F, futures |-> Q, fiber_self |-> self]
                        /\ Fits(F, self, Q, tls[w], 0)
  BY <1>1, InUser
<1>3. PICK G, h : G = Front(F) /\ h = Last(F).on
  OBVIOUS
<1>4. active[w].frames = F /\ F # <<>> /\ Last(F).future
  BY <1>2 DEF FutureReturn
<1>5. active' = [active EXCEPT ![w] = [frames |-> G, futures |-> Q, fiber_self |-> self]]
  <2>1. active' = [active EXCEPT ![w].frames = G]
    BY <1>3, <1>4 DEF FutureReturn
  <2>2. active' = [active EXCEPT ![w] = [active[w] EXCEPT !.frames = G]]
    BY <2>1
  <2>3. [active[w] EXCEPT !.frames = G] = [frames |-> G, futures |-> Q, fiber_self |-> self]
    BY <1>2
  <2>4. QED
    BY <2>2, <2>3
<1>6. initial' = [initial EXCEPT ![w] = h]
  BY <1>3, <1>4 DEF FutureReturn
<1>7. Fits(G, self, Q, h, 1) /\ Last(Q) = tls[w]
  BY <1>2, <1>3, <1>4, FuturePops
<1>8. DequeFor(w, [frames |-> G, futures |-> Q, fiber_self |-> self], tls[w], "back", h)
  BY <1>7, MadeFits DEF DequeFor
<1>9. Only(active, active', w, [frames |-> G, futures |-> Q, fiber_self |-> self])
  BY <1>5, Maps, ExceptOnly
<1>10. Only(pc, pc', w, "back") /\ Only(initial, initial', w, h) /\ Only(tls, tls', w, tls[w])
  BY <1>1, <1>6, Maps, ExceptOnly
<1>11. QED
  BY <1>1, <1>8, <1>9, <1>10, LocalStep

LEMMA SwitchFibersStep ==
    ASSUME DequesInv, NEW w \in Workers, switch_fibers(w) PROVE DequesInv'
<1>1. PICK g : g = FutureFiber(w).fiber
  OBVIOUS
<1>2. pc[w] = "user" /\ pc' = pc /\ initial' = initial /\ parked' = parked /\ tls' = [tls EXCEPT ![w] = g]
  BY <1>1 DEF switch_fibers, setup_for_future
<1>3. PICK F, Q, self : active[w] = [frames |-> F, futures |-> Q, fiber_self |-> self]
                        /\ Fits(F, self, Q, tls[w], 0)
  BY <1>2, InUser
<1>4. PICK G, R : G = Append(F, [future |-> TRUE, on |-> tls[w], child |-> g]) /\ R = Append(Q, g)
  OBVIOUS
<1>5. active' = [active EXCEPT ![w] = [frames |-> G, futures |-> R, fiber_self |-> self]]
  <2>1. PICK c : c = enqueue_future_fiber(active[w], g)
    OBVIOUS
  <2>2. c = [frames |-> F, futures |-> R, fiber_self |-> self]
    <3>1. active[w].futures = Q
      BY <1>3
    <3>2. c = [active[w] EXCEPT !.futures = R]
      BY <1>4, <2>1, <3>1 DEF enqueue_future_fiber
    <3>3. QED
      BY <1>3, <3>2
  <2>3. active[w].frames = F /\ c.frames = F
    BY <1>3, <2>2
  <2>4. active' = [active EXCEPT ![w] = [c EXCEPT !.frames = G]]
    <3>1. active' = [active EXCEPT ![w] = [c EXCEPT !.frames =
                       Append(@, [future |-> TRUE, on |-> tls[w], child |-> g])]]
      BY <1>1, <2>1 DEF switch_fibers
    <3>2. [c EXCEPT !.frames = Append(@, [future |-> TRUE, on |-> tls[w], child |-> g])]
            = [c EXCEPT !.frames = G]
      BY <1>4, <2>3
    <3>3. QED
      BY <3>1, <3>2
  <2>5. [c EXCEPT !.frames = G] = [frames |-> G, futures |-> R, fiber_self |-> self]
    BY <2>2
  <2>6. QED
    BY <2>4, <2>5
<1>6. DequeFits([frames |-> G, futures |-> R, fiber_self |-> self], g, 0)
  BY <1>3, <1>4, FutureFits, MadeFits
<1>7. DequeFor(w, [frames |-> G, futures |-> R, fiber_self |-> self], g, pc[w], initial[w])
  BY <1>2, <1>6 DEF DequeFor
<1>8. Only(active, active', w, [frames |-> G, futures |-> R, fiber_self |-> self]) /\ Only(tls, tls', w, g)
  BY <1>2, <1>5, Maps, ExceptOnly
<1>9. QED
  BY <1>2, <1>7, <1>8, Maps, LocalStep

LEMMA SwitchFibersBackStep ==
    ASSUME DequesInv, NEW w \in Workers, switch_fibers_back(w) PROVE DequesInv'
<1>1. /\ pc[w] = "back" /\ pc' = [pc EXCEPT ![w] = "user"] /\ initial' = [initial EXCEPT ![w] = NoFiber]
      /\ tls' = [tls EXCEPT ![w] = initial[w]] /\ parked' = parked
      /\ active' = [active EXCEPT ![w] = pop_tail_future_fiber(active[w])]
  BY DEF switch_fibers_back
<1>2. DequeFits(active[w], initial[w], 1)
  BY <1>1 DEF DequesInv, DequeFor
<1>3. PICK F, Q, self : active[w] = [frames |-> F, futures |-> Q, fiber_self |-> self]
                        /\ Fits(F, self, Q, initial[w], 1)
  <2>1. PICK F, Q, self : active[w] = [frames |-> F, futures |-> Q, fiber_self |-> self]
    BY <1>2 DEF DequeFits, IsDeque
  <2>2. Fits(F, self, Q, initial[w], 1)
    BY <1>2, <2>1 DEF DequeFits
  <2>3. QED
    BY <2>1, <2>2
<1>4. PICK R : R = Front(Q)
  OBVIOUS
<1>5. pop_tail_future_fiber(active[w]) = [frames |-> F, futures |-> R, fiber_self |-> self]
  <2>1. active[w].futures = Q
    BY <1>3
  <2>2. pop_tail_future_fiber(active[w]) = [active[w] EXCEPT !.futures = R]
    BY <1>4, <2>1 DEF pop_tail_future_fiber
  <2>3. QED
    BY <1>3, <2>2
<1>6. DequeFits([frames |-> F, futures |-> R, fiber_self |-> self], initial[w], 0)
  BY <1>3, <1>4, FiberPops, MadeFits
<1>7. DequeFor(w, [frames |-> F, futures |-> R, fiber_self |-> self], initial[w], "user", NoFiber)
  BY <1>6 DEF DequeFor
<1>8. Only(active, active', w, [frames |-> F, futures |-> R, fiber_self |-> self])
  BY <1>1, <1>5, Maps, ExceptOnly
<1>9. Only(pc, pc', w, "user") /\ Only(initial, initial', w, NoFiber) /\ Only(tls, tls', w, initial[w])
  BY <1>1, Maps, ExceptOnly
<1>10. QED
  BY <1>1, <1>7, <1>8, <1>9, LocalStep

\* A worker that goes to another fiber with deque d, which is empty when it
\* goes to its scheduling fiber
LEMMA JumpStep ==
    ASSUME DequesInv, NEW w \in Workers, NEW d, NEW other,
           active' = [active EXCEPT ![w] = d], tls' = [tls EXCEPT ![w] = other],
           pc' = [pc EXCEPT ![w] = "post"], initial' = initial,
           DequeFits(d, other, 0) \/ (other = w /\ d = EmptyDeque),
           \A x \in parked' : x \in parked \/ ParkedFits(x)
    PROVE  DequesInv'
<1>1. DequeFor(w, d, other, "post", initial[w])
  <2>1. CASE DequeFits(d, other, 0)
    BY <2>1 DEF DequeFor
  <2>2. CASE other = w /\ d = EmptyDeque
    BY <2>2, LootFits DEF DequeFor
  <2>3. QED
    BY <2>1, <2>2
<1>2. Only(active, active', w, d) /\ Only(tls, tls', w, other) /\ Only(pc, pc', w, "post")
  BY Maps, ExceptOnly
<1>3. Only(initial, initial', w, initial[w])
  BY Maps
<1>4. QED
  BY <1>1, <1>2, <1>3, LocalStep

LEMMA PostSwitchStep ==
    ASSUME DequesInv, NEW w \in Workers, do_post_switch_actions(w) PROVE DequesInv'
<1>1. PICK p : p = IF tls[w] = w THEN "sched" ELSE "user"
  OBVIOUS
<1>2. pc[w] = "post" /\ pc' = [pc EXCEPT ![w] = p] /\ tls' = tls /\ active' = active
      /\ initial' = initial /\ parked' = parked
  BY <1>1 DEF do_post_switch_actions
<1>3. PICK f : DequeFits(active[w], f, 0) /\ (tls[w] # w => f = tls[w])
  BY <1>2 DEF DequesInv, DequeFor
<1>4. DequeFor(w, active[w], tls[w], p, initial[w])
  <2>1. p # "back" /\ p # "post" /\ (p = "user" => tls[w] # w)
    BY <1>1
  <2>2. QED
    BY <1>3, <2>1 DEF DequeFor
<1>5. Only(pc, pc', w, p)
  BY <1>2, Maps, ExceptOnly
<1>6. QED
  BY <1>2, <1>4, <1>5, Maps, LocalStep

LEMMA ParkFits ==
    ASSUME DequesInv, NEW w \in Workers, pc[w] = "user"
    PROVE  /\ ParkedFits(Park(w))
           /\ active[w].frames = <<>> => ParkedFits([Park(w) EXCEPT !.deque.futures = <<>>])
<1>1. DequeFits(active[w], tls[w], 0)
  BY InUser
<1>2. Park(w) = [deque |-> active[w], fiber |-> tls[w]]
  BY DEF Park
<1>3. ParkedFits(Park(w))
  <2>1. Park(w).deque = active[w] /\ Park(w).fiber = tls[w]
    BY <1>2
  <2>2. QED
    BY <1>1, <1>2, <2>1 DEF ParkedFits
<1>4. ASSUME active[w].frames = <<>> PROVE ParkedFits([Park(w) EXCEPT !.deque.futures = <<>>])
  <2>1. PICK F, Q, self : active[w] = [frames |-> F, futures |-> Q, fiber_self |-> self]
                          /\ Fits(F, self, Q, tls[w], 0)
    BY InUser
  <2>2. F = <<>> /\ self = tls[w]
    <3>1. F = <<>>
      BY <1>4, <2>1
    <3>2. QED
      BY <2>1, <3>1 DEF Fits
  <2>3. PICK d : d = [frames |-> <<>>, futures |-> <<>>, fiber_self |-> tls[w]]
    OBVIOUS
  <2>4. [active[w] EXCEPT !.futures = <<>>] = d
    BY <2>1, <2>2, <2>3
  <2>5. [Park(w) EXCEPT !.deque.futures = <<>>] = [deque |-> d, fiber |-> tls[w]]
    <3>1. Park(w).deque = active[w]
      BY <1>2
    <3>2. [Park(w) EXCEPT !.deque.futures = <<>>] = [Park(w) EXCEPT !.deque = [active[w] EXCEPT !.futures = <<>>]]
      BY <1>2, <3>1
    <3>3. [Park(w) EXCEPT !.deque = d] = [deque |-> d, fiber |-> tls[w]]
      BY <1>2
    <3>4. QED
      BY <2>4, <3>2, <3>3
  <2>6. DequeFits(d, tls[w], 0)
    BY <2>3, EmptyFits, MadeFits
  <2>7. ParkedFits([deque |-> d, fiber |-> tls[w]])
    BY <2>6 DEF ParkedFits
  <2>8. QED
    BY <2>5, <2>7
<1>5. QED
  BY <1>3, <1>4

LEMMA LongjmpStep ==
    ASSUME DequesInv, NEW w \in Workers, longjmp_into_runtime(w) PROVE DequesInv'
<1>1. pc[w] = "user" /\ active[w].frames = <<>> /\ active' = [active EXCEPT ![w] = EmptyDeque]
      /\ initial' = initial
  BY DEF longjmp_into_runtime
<1>2. tls' = [tls EXCEPT ![w] = w] /\ pc' = [pc EXCEPT ![w] = "post"]
  BY DEF longjmp_into_runtime, remove_reference_from_self_and_resume_other,
         suspend_self_and_resume_other, Jump
<1>3. \A x \in parked' : x \in parked \/ ParkedFits(x)
  <2>1. CASE parked' = parked
    BY <2>1
  <2>2. CASE parked' = parked \cup {[Park(w) EXCEPT !.deque.futures = <<>>]}
    BY <1>1, <2>2, ParkFits
  <2>3. QED
    BY <2>1, <2>2 DEF longjmp_into_runtime
<1>4. QED
  BY <1>1, <1>2, <1>3, JumpStep

LEMMA SuspendDequeStep ==
    ASSUME DequesInv, NEW w \in Workers, suspend_deque(w) PROVE DequesInv'
<1>1. pc[w] = "user" /\ parked' = parked \cup {Park(w)} /\ active' = [active EXCEPT ![w] = EmptyDeque]
      /\ initial' = initial
  BY DEF suspend_deque
<1>2. tls' = [tls EXCEPT ![w] = w] /\ pc' = [pc EXCEPT ![w] = "post"]
  BY DEF suspend_deque, suspend_self_and_resume_other, Jump
<1>3. \A x \in parked' : x \in parked \/ ParkedFits(x)
  BY <1>1, ParkFits
<1>4. QED
  BY <1>1, <1>2, <1>3, JumpStep

LEMMA JumpToSuspendedStep ==
    ASSUME DequesInv, NEW w \in Workers, jump_to_suspended_fiber(w) PROVE DequesInv'
<1>1. PICK x \in parked : /\ active' = [active EXCEPT ![w] = x.deque] /\ parked' = parked \ {x}
                          /\ suspend_self_and_resume_other(w, x.fiber) /\ initial' = initial
  BY DEF jump_to_suspended_fiber
<1>2. tls' = [tls EXCEPT ![w] = x.fiber] /\ pc' = [pc EXCEPT ![w] = "post"]
  BY <1>1 DEF suspend_self_and_resume_other, Jump
<1>3. DequeFits(x.deque, x.fiber, 0)
  BY <1>1 DEF DequesInv, ParkedFits
<1>4. \A y \in parked' : y \in parked \/ ParkedFits(y)
  BY <1>1
<1>5. QED
  BY <1>1, <1>2, <1>3, <1>4, JumpStep

LEMMA ResumeSuspendedStep ==
    ASSUME DequesInv, NEW w \in Workers, resume_suspended(w) PROVE DequesInv'
<1>1. PICK x \in parked : /\ pc[w] = "user" /\ active' = [active EXCEPT ![w] = x.deque]
                          /\ parked' = (parked \ {x}) \cup {Park(w)}
                          /\ suspend_self_and_resume_other(w, x.fiber) /\ initial' = initial
  BY DEF resume_suspended
<1>2. tls' = [tls EXCEPT ![w] = x.fiber] /\ pc' = [pc EXCEPT ![w] = "post"]
  BY <1>1 DEF suspend_self_and_resume_other, Jump
<1>3. DequeFits(x.deque, x.fiber, 0)
  BY <1>1 DEF DequesInv, ParkedFits
<1>4. \A y \in parked' : y \in parked \/ ParkedFits(y)
  BY <1>1, ParkFits
<1>5. QED
  BY <1>1, <1>2, <1>3, <1>4, JumpStep

LEMMA ResumeAndFinishStep ==
    ASSUME DequesInv, NEW w \in Workers, resume_suspended_and_finish(w) PROVE DequesInv'
<1>1. PICK x \in parked : /\ active' = [active EXCEPT ![w] = x.deque] /\ parked' = parked \ {x}
                          /\ initial' = initial
                          /\ tls' = [tls EXCEPT ![w] = x.fiber] /\ pc' = [pc EXCEPT ![w] = "post"]
  BY DEF resume_suspended_and_finish, remove_reference_from_self_and_resume_other, Jump
<1>2. DequeFits(x.deque, x.fiber, 0)
  BY <1>1 DEF DequesInv, ParkedFits
<1>3. \A y \in parked' : y \in parked \/ ParkedFits(y)
  BY <1>1
<1>4. QED
  BY <1>1, <1>2, <1>3, JumpStep

LEMMA StealStep ==
    ASSUME DequesInv, NEW w \in Workers, random_steal(w) PROVE DequesInv'
<1>1. PICK v, d, target, loot :
        /\ v \in Victims(w) /\ d = DequeOf(v) /\ d.frames # <<>>
        /\ loot = [EmptyDeque EXCEPT !.fiber_self = target]
        /\ IF v[1] = "active"
           THEN active' = [active EXCEPT ![v[2]] = Detached(d), ![w] = loot] /\ UNCHANGED parked
           ELSE /\ active' = [active EXCEPT ![w] = loot]
                /\ parked' = (parked \ {v[2]}) \cup {[v[2] EXCEPT !.deque = Detached(d)]}
        /\ suspend_self_and_resume_other(w, target) /\ initial' = initial
  BY DEF random_steal
<1>2. tls' = [tls EXCEPT ![w] = target] /\ pc' = [pc EXCEPT ![w] = "post"]
  BY <1>1 DEF suspend_self_and_resume_other, Jump
<1>3. DequeFits(loot, target, 0)
  BY <1>1, LootFits
<1>4. ASSUME NEW u \in Workers \ {w}, v = <<"active", u>> PROVE DequesInv'
  <2>1. PICK A : A = [active EXCEPT ![u] = Detached(d)]
    OBVIOUS
  <2>2. v[1] = "active" /\ v[2] = u /\ d = active[u]
    BY <1>1, <1>4 DEF DequeOf
  <2>3. active' = [A EXCEPT ![w] = loot] /\ parked' = parked
    BY <1>1, <2>1, <2>2
  <2>4. Only(active, A, u, Detached(d))
    BY <2>1, Maps, ExceptOnly
  <2>5. Only(A, active', w, loot)
    <3>1. ByWorker(A)
      BY <2>4 DEF Only
    <3>2. Only(A, [A EXCEPT ![w] = loot], w, loot)
      BY <3>1, ExceptOnly
    <3>3. QED
      BY <2>3, <3>2
  <2>6. Only(tls, tls', w, target) /\ Only(pc, pc', w, "post")
    BY <1>2, Maps, ExceptOnly
  <2>7. DequeFor(u, Detached(d), tls[u], pc[u], initial[u])
    <3>1. DequeFor(u, d, tls[u], pc[u], initial[u])
      BY <2>2 DEF DequesInv
    <3>2. CASE pc[u] = "back"
      <4>1. DequeFits(d, initial[u], 1) /\ Last(d.futures) = tls[u]
        BY <3>1, <3>2 DEF DequeFor
      <4>2. DequeFits(Detached(d), initial[u], 1) /\ Last(Detached(d).futures) = Last(d.futures)
        BY <1>1, <4>1, DetachedFits
      <4>3. QED
        BY <3>2, <4>1, <4>2 DEF DequeFor
    <3>3. CASE pc[u] # "back"
      <4>1. PICK f : DequeFits(d, f, 0) /\ (pc[u] = "user" \/ (pc[u] = "post" /\ tls[u] # u) => f = tls[u])
        BY <3>1, <3>3 DEF DequeFor
      <4>2. DequeFits(Detached(d), f, 0)
        BY <1>1, <4>1, DetachedFits
      <4>3. QED
        BY <3>3, <4>1, <4>2 DEF DequeFor
    <3>4. QED
      BY <3>2, <3>3
  <2>8. DequeFor(w, loot, target, "post", initial[w])
    BY <1>3 DEF DequeFor
  <2>9. ASSUME NEW x \in Workers PROVE DequeFor(x, active'[x], tls'[x], pc'[x], initial'[x])
    <3>1. initial'[x] = initial[x]
      BY <1>1
    <3>2. CASE x = w
      <4>1. active'[x] = loot /\ tls'[x] = target /\ pc'[x] = "post"
        BY <2>5, <2>6, <3>2 DEF Only
      <4>2. QED
        BY <2>8, <3>1, <3>2, <4>1
    <3>3. CASE x = u
      <4>1. active'[x] = Detached(d) /\ tls'[x] = tls[x] /\ pc'[x] = pc[x]
        BY <1>4, <2>4, <2>5, <2>6, <3>3 DEF Only
      <4>2. QED
        BY <2>7, <3>1, <3>3, <4>1
    <3>4. CASE x # w /\ x # u
      <4>1. active'[x] = active[x] /\ tls'[x] = tls[x] /\ pc'[x] = pc[x]
        BY <2>4, <2>5, <2>6, <3>4 DEF Only
      <4>2. QED
        BY <3>1, <4>1 DEF DequesInv
    <3>5. QED
      BY <3>2, <3>3, <3>4
  <2>10. ByWorker(active') /\ ByWorker(tls') /\ ByWorker(pc') /\ ByWorker(initial')
    BY <1>1, <2>5, <2>6, Maps DEF Only
  <2>11. \A x \in parked' : ParkedFits(x)
    BY <2>3 DEF DequesInv
  <2>12. QED
    BY <2>9, <2>10, <2>11 DEF DequesInv
<1>5. ASSUME NEW x \in parked, v = <<"parked", x>> PROVE DequesInv'
  <2>1. v[1] = "parked" /\ v[2] = x /\ d = x.deque
    BY <1>1, <1>5 DEF DequeOf
  <2>2. active' = [active EXCEPT ![w] = loot]
        /\ parked' = (parked \ {x}) \cup {[x EXCEPT !.deque = Detached(d)]}
    BY <1>1, <2>1
  <2>3. PICK f : x = [deque |-> d, fiber |-> f] /\ DequeFits(d, f, 0)
    <3>1. ParkedFits(x)
      BY DEF DequesInv
    <3>2. PICK e, f : x = [deque |-> e, fiber |-> f]
      BY <3>1 DEF ParkedFits
    <3>3. x.deque = e /\ x.fiber = f
      BY <3>2
    <3>4. QED
      BY <2>1, <3>1, <3>2, <3>3 DEF ParkedFits
  <2>4. DequeFits(Detached(d), f, 0)
    BY <1>1, <2>3, DetachedFits
  <2>5. PICK e : e = Detached(d)
    OBVIOUS
  <2>6. [x EXCEPT !.deque = e] = [deque |-> e, fiber |-> f]
    BY <2>3
  <2>7. ParkedFits([deque |-> e, fiber |-> f])
    BY <2>4, <2>5 DEF ParkedFits
  <2>8. \A y \in parked' : y \in parked \/ ParkedFits(y)
    BY <2>2, <2>5, <2>6, <2>7
  <2>9. QED
    BY <1>1, <1>2, <1>3, <2>2, <2>8, JumpStep
<1>6. QED
  BY <1>1, <1>4, <1>5 DEF Victims

LEMMA StealFailsStep ==
    ASSUME DequesInv, NEW w \in Workers, steal_fails(w) PROVE DequesInv'
BY DEF steal_fails, switching, DequesInv

LEMMA DeinitStep ==
    ASSUME DequesInv, deinit_internal PROVE DequesInv'
<1>1. /\ pc[User] = "user" /\ (\A w \in Workers \ {User} : pc[w] = "sched") /\ parked' = parked
      /\ pc' = [w \in Workers |-> "destroyed"] /\ tls' = tls /\ active' = active /\ initial' = initial
  BY DEF deinit_internal
<1>2. ByWorker(active') /\ ByWorker(tls') /\ ByWorker(initial')
  BY <1>1 DEF DequesInv
<1>3. ByWorker(pc')
  <2>1. pc' \in [Workers -> {"destroyed"}]
    BY <1>1
  <2>2. QED
    BY <2>1 DEF ByWorker
<1>4. ASSUME NEW w \in Workers PROVE DequeFor(w, active'[w], tls'[w], pc'[w], initial'[w])
  <2>1. pc[w] # "back"
    BY <1>1
  <2>2. PICK f : DequeFits(active[w], f, 0)
    BY <2>1 DEF DequesInv, DequeFor
  <2>3. pc'[w] = "destroyed"
    BY <1>1
  <2>4. DequeFor(w, active[w], tls[w], "destroyed", initial[w])
    BY <2>2 DEF DequeFor
  <2>5. QED
    BY <1>1, <2>3, <2>4
<1>5. \A x \in parked' : ParkedFits(x)
  BY <1>1 DEF DequesInv
<1>6. QED
  BY <1>2, <1>3, <1>4, <1>5 DEF DequesInv

LEMMA DequesInit == FiberInit => DequesInv
<1> SUFFICES ASSUME FiberInit PROVE DequesInv
  OBVIOUS
<1>1. PICK loot : loot = [EmptyDeque EXCEPT !.fiber_self = Main]
  OBVIOUS
<1>2. /\ tls = [w \in Workers |-> IF w = User THEN Main ELSE w]
      /\ pc = [w \in Workers |-> IF w = User THEN "user" ELSE "sched"]
      /\ active = [w \in Workers |-> IF w = User THEN loot ELSE EmptyDeque]
      /\ initial = [w \in Workers |-> NoFiber] /\ parked = {}
  BY <1>1 DEF FiberInit
<1>3. ByWorker(active) /\ ByWorker(tls) /\ ByWorker(pc) /\ ByWorker(initial)
  <2>1. active \in [Workers -> {loot, EmptyDeque}] /\ tls \in [Workers -> {Main} \cup Workers]
        /\ pc \in [Workers -> {"user", "sched"}] /\ initial \in [Workers -> {NoFiber}]
    BY <1>2
  <2>2. QED
    BY <2>1 DEF ByWorker
<1>4. DequeFits(loot, Main, 0) /\ DequeFits(EmptyDeque, NoFiber, 0)
  BY <1>1, LootFits
<1>5. ASSUME NEW w \in Workers PROVE DequeFor(w, active[w], tls[w], pc[w], initial[w])
  <2>1. CASE w = User
    <3>1. active[w] = loot /\ tls[w] = Main /\ pc[w] = "user"
      BY <1>2, <2>1
    <3>2. QED
      BY <1>4, <3>1 DEF DequeFor
  <2>2. CASE w # User
    <3>1. active[w] = EmptyDeque /\ pc[w] = "sched"
      BY <1>2, <2>2
    <3>2. QED
      BY <1>4, <3>1 DEF DequeFor
  <2>3. QED
    BY <2>1, <2>2
<1>6. QED
  BY <1>2, <1>3, <1>5 DEF DequesInv

LEMMA DequesStep == DequesInv /\ [FiberNext]_fiberVars => DequesInv'
<1> SUFFICES ASSUME DequesInv, [FiberNext]_fiberVars PROVE DequesInv'
  OBVIOUS
<1>1. CASE UNCHANGED fiberVars
  BY <1>1 DEF fiberVars, allocation, switching, DequesInv
<1>2. CASE deinit_internal
  BY <1>2, DeinitStep
<1>3. ASSUME NEW w \in Workers,
             \/ Spawn(w) \/ SpawnReturn(w) \/ switch_fibers(w) \/ FutureReturn(w) \/ switch_fibers_back(w)
             \/ random_steal(w) \/ steal_fails(w) \/ longjmp_into_runtime(w) \/ suspend_deque(w)
             \/ jump_to_suspended_fiber(w) \/ resume_suspended(w) \/ resume_suspended_and_finish(w)
             \/ do_post_switch_actions(w)
      PROVE  DequesInv'
  BY <1>3, SpawnStep, SpawnReturnStep, SwitchFibersStep, FutureReturnStep, SwitchFibersBackStep,
     StealStep, StealFailsStep, LongjmpStep, SuspendDequeStep, JumpToSuspendedStep, ResumeSuspendedStep,
     ResumeAndFinishStep, PostSwitchStep
<1>4. QED
  BY <1>1, <1>2, <1>3 DEF FiberNext

LEMMA DequesSuffice == DequesInv => FiberDequeInStep
<1> SUFFICES ASSUME DequesInv PROVE FiberDequeInStep
  OBVIOUS
<1> DEFINE InStep(d, more) ==
      /\ Len(d.futures) = Called(d.frames, Len(d.frames)) + more
      /\ \A i \in DOMAIN d.frames :
           d.frames[i].future => d.futures[Called(d.frames, i)] = d.frames[i].child
      /\ d.frames # <<>> => d.fiber_self = d.frames[1].on
<1>1. ASSUME NEW d, NEW f, NEW extra, DequeFits(d, f, extra) PROVE InStep(d, extra)
  <2>1. Fits(d.frames, d.fiber_self, d.futures, f, extra)
    BY <1>1 DEF DequeFits
  <2>2. DOMAIN d.frames = 1..Len(d.frames)
    BY <2>1, SeqIs DEF Fits
  <2>3. QED
    BY <2>1, <2>2 DEF Fits
<1> HIDE DEF InStep
<1>2. ASSUME NEW w \in Workers
      PROVE  IF pc[w] = "back" THEN InStep(active[w], 1) /\ Last(active[w].futures) = tls[w]
                               ELSE InStep(active[w], 0)
  <2>1. DequeFor(w, active[w], tls[w], pc[w], initial[w])
    BY DEF DequesInv
  <2>2. QED
    BY <1>1, <2>1 DEF DequeFor
<1>3. ASSUME NEW x \in parked PROVE InStep(x.deque, 0)
  <2>1. DequeFits(x.deque, x.fiber, 0)
    BY DEF DequesInv, ParkedFits
  <2>2. QED
    BY <1>1, <2>1
<1>4. QED
  BY <1>2, <1>3 DEF FiberDequeInStep, InStep

\* The deque of future fibers stays in step with the frames, whatever fibers
\* are allocated and wherever the deque goes: a thief gives the child it leaves
\* behind the fiber that child runs on and goes on with the one the parent was
\* left on (detach_for_steal, __cilkrts_pop_head_future_fiber).
THEOREM FiberDequeInStepTheorem == FiberSpec => []FiberDequeInStep
<1>1. FiberSpec => []DequesInv
  BY DequesInit, DequesStep, PTL DEF FiberSpec
<1>2. QED
  BY <1>1, DequesSuffice, PTL

=============================================================================
