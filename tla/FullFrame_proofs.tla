-------------------------- MODULE FullFrame_proofs --------------------------
(***************************************************************************)
(* A full frame for any number of steals.                                  *)
(*                                                                         *)
(* Fibers: each has one holder, no two workers are on one stack, and a     *)
(* frame that has passed its sync is on the fiber it was called on.        *)
(* Reducer maps: read from left to right they hold every update, once, in  *)
(* serial order.  Exceptions: a frame past its sync is in the handler it   *)
(* was called in and throws the first exception.                           *)
(***************************************************************************)
EXTENDS FullFrame, FiniteSetTheorems, SequenceTheorems, WellFoundedInduction, TLAPS

\* The children in the list, and those that have not joined.
Linked == {c \in Children : pc[c] \in {"run", "return", "reduce"}}
Alive == {c \in Children : pc[c] \notin {"new", "done"}}

\* The types of what the fibers depend on.
TypeInv ==
    /\ join_counter \in Int /\ rightmost_child \in Strands
    /\ left_sibling \in [Children -> Strands] /\ right_sibling \in [Children -> Strands]
    /\ unsynched \in BOOLEAN /\ spawned \in Strands
    /\ fiber_self \in [Strands -> Fibers \cup {NULL}] /\ fiber_child \in Fibers \cup {NULL}
    /\ fiber_to_free \in [Strands -> Fibers \cup {NULL}] /\ fiber_pool \subseteq Fibers
    /\ stack \in [Strands -> Fibers \cup {NULL}] /\ home \in Fibers
    /\ pc \in [Strands -> {"new", "run", "return", "reduce", "jump", "join",
                           "stalled", "ready", "done"}]

\* Where the frame and its children can be.
StepInv ==
    /\ pc[0] \in {"run", "reduce", "jump", "join", "stalled", "ready"}
    /\ \A c \in Children : /\ pc[c] \notin {"stalled", "ready"}
                           /\ pc[c] = "new" <=> c > spawned
    /\ ~unsynched => pc[0] \in {"run", "ready"} /\ Alive = {}

\* The join counter counts who is still to join.
CountInv == join_counter = Cardinality(Alive) + (IF pc[0] = "stalled" THEN 0 ELSE 1)

\* A place to the left of c, and one to its right, with no child in between.
IsLeftOf(l, c) == /\ l \in Linked \cup {0} /\ l < c
                  /\ \A x \in Linked : x < c => x <= l
IsRightOf(r, c) == /\ r \in Linked \cup {0} /\ (r = 0 \/ c < r)
                   /\ \A x \in Linked : c < x => r # 0 /\ r <= x

\* The list holds the linked children in the order of their steals.
ListInv ==
    /\ rightmost_child \in Linked \cup {0} /\ \A x \in Linked : x <= rightmost_child
    /\ \A c \in Linked : IsLeftOf(left_sibling[c], c) /\ IsRightOf(right_sibling[c], c)

\* What each strand has at each of its steps.
HandInv ==
    /\ \A s \in Strands :
        /\ fiber_self[s] # NULL <=> pc[s] \in {"run", "return", "reduce", "ready"}
        /\ fiber_to_free[s] # NULL => pc[s] \in {"jump", "join"}
        /\ pc[s] \in {"run", "return", "reduce"} => stack[s] = fiber_self[s]
        /\ pc[s] = "jump" =>
              /\ stack[s] # NULL
              /\ stack[s] = IF fiber_to_free[s] # NULL THEN fiber_to_free[s] ELSE fiber_child
        /\ pc[s] \notin {"run", "return", "reduce", "jump"} => stack[s] = NULL
    /\ pc[0] \in {"jump", "join"} => fiber_to_free[0] # NULL
    /\ \A s, t \in Strands : pc[s] = "jump" /\ pc[t] = "jump" /\ s # t =>
          fiber_to_free[s] # NULL \/ fiber_to_free[t] # NULL

\* The fiber the frame was called on is with the leftmost child or already
\* with the frame.
First(c) == c \in Linked /\ fiber_self[c] = home /\ \A x \in Linked : c <= x

HomeInv ==
    /\ ~unsynched => fiber_self[0] = home /\ fiber_child = NULL
    /\ unsynched => fiber_child = home \/ (fiber_child = NULL /\ \E c \in Children : First(c))

\* No fiber is in two places.
UniqueInv ==
    /\ \A s, t \in Strands :
        /\ fiber_self[s] = fiber_self[t] => s = t \/ fiber_self[s] = NULL
        /\ fiber_to_free[s] = fiber_to_free[t] => s = t \/ fiber_to_free[s] = NULL
        /\ fiber_self[s] = fiber_to_free[t] => fiber_self[s] = NULL
    /\ \A s \in Strands :
        /\ fiber_self[s] \notin fiber_pool /\ fiber_to_free[s] \notin fiber_pool
        /\ fiber_child \in {fiber_self[s], fiber_to_free[s]} => fiber_child = NULL
    /\ fiber_child \notin fiber_pool

\* And each is in one.
HeldInv ==
    \A f \in Fibers : \/ f \in fiber_pool \/ f = fiber_child
                      \/ \E s \in Strands : f \in {fiber_self[s], fiber_to_free[s]}

IInv == /\ TypeInv /\ StepInv /\ CountInv /\ ListInv
        /\ HandInv /\ HomeInv /\ UniqueInv /\ HeldInv

-----------------------------------------------------------------------------
LEMMA Facts ==
    /\ N \in Nat /\ N >= 1 /\ 0 \in Strands /\ 0 \notin Children /\ Children \subseteq Strands
    /\ \A s \in Strands : s = 0 \/ s \in Children
    /\ \A s \in Strands : s \in Int /\ s >= 0
    /\ \A c \in Children : c \in Int /\ c > 0
    /\ NULL \notin Fibers
  BY FrameAssumption DEF Strands, Children

LEMMA Finite == IsFiniteSet(Alive) /\ Cardinality(Alive) \in Nat
<1>1. IsFiniteSet(Children)
  BY FrameAssumption, FS_Interval DEF Children
<1>2. Alive \subseteq Children
  BY DEF Alive
<1>3. QED
  BY <1>1, <1>2, FS_Subset, FS_CardinalityType

LEMMA InitStep == Init => IInv
<1> SUFFICES ASSUME Init PROVE IInv
  OBVIOUS
<1> USE Facts
<1>1. home \in Fibers
  BY FrameAssumption DEF Init, FromPool
<1>2. /\ pc[0] = "run" /\ \A c \in Children : pc[c] = "new"
      /\ fiber_self[0] = home /\ \A c \in Children : fiber_self[c] = NULL
      /\ \A s \in Strands : fiber_to_free[s] = NULL /\ stack[s] = fiber_self[s]
  BY DEF Init
<1>3. TypeInv
  <2>1. /\ fiber_self \in [Strands -> Fibers \cup {NULL}] /\ stack = fiber_self
        /\ fiber_to_free \in [Strands -> Fibers \cup {NULL}]
    BY <1>1 DEF Init
  <2>2. /\ left_sibling \in [Children -> Strands] /\ right_sibling \in [Children -> Strands]
        /\ pc \in [Strands -> {"new", "run", "return", "reduce", "jump", "join",
                               "stalled", "ready", "done"}]
    BY DEF Init
  <2>3. /\ join_counter = 1 /\ rightmost_child = 0 /\ unsynched = FALSE /\ spawned = 0
        /\ fiber_child = NULL /\ fiber_pool = Fibers \ {home}
    BY DEF Init
  <2>4. unsynched \in BOOLEAN /\ fiber_pool \subseteq Fibers /\ fiber_child \in Fibers \cup {NULL}
    BY <2>3
  <2>5. join_counter \in Int /\ rightmost_child \in Strands /\ spawned \in Strands
    BY <2>3
  <2>6. QED
    BY <1>1, <2>1, <2>2, <2>4, <2>5 DEF TypeInv
<1>4. Alive = {} /\ Linked = {}
  BY <1>2 DEF Alive, Linked
<1>5. StepInv
  BY <1>2, <1>4 DEF Init, StepInv
<1>6. CountInv
  <2>1. join_counter = 1 /\ Cardinality(Alive) = 0
    BY <1>4, FS_EmptySet DEF Init
  <2>2. QED
    BY <1>2, <2>1 DEF CountInv
<1>7. ListInv
  BY <1>4 DEF Init, ListInv
<1>8. HandInv
  <2>1. ASSUME NEW s \in Strands
        PROVE  /\ fiber_self[s] # NULL <=> pc[s] \in {"run", "return", "reduce", "ready"}
               /\ fiber_to_free[s] = NULL /\ stack[s] = fiber_self[s] /\ pc[s] # "jump"
               /\ pc[s] \notin {"run", "return", "reduce", "jump"} => stack[s] = NULL
    BY <1>1, <1>2
  <2>2. QED
    BY <1>2, <2>1 DEF HandInv
<1>9. HomeInv
  BY <1>2 DEF Init, HomeInv
<1>10. UniqueInv /\ HeldInv
  <2>1. fiber_pool = Fibers \ {home} /\ fiber_child = NULL
    BY DEF Init
  <2>2. \A s \in Strands : fiber_self[s] = NULL \/ (s = 0 /\ fiber_self[s] = home)
    BY <1>2
  <2>3. UniqueInv
    BY <1>1, <1>2, <2>1, <2>2 DEF UniqueInv
  <2>4. HeldInv
    BY <1>2, <2>1 DEF HeldInv
  <2>5. QED
    BY <2>3, <2>4
<1>11. QED
  BY <1>3, <1>5, <1>6, <1>7, <1>8, <1>9, <1>10 DEF IInv

-----------------------------------------------------------------------------
(* Fibers that move *)

\* The fiber of strand s is to be freed, once it has been left.
GiveUp(s) ==
    /\ s \in Strands /\ fiber_to_free[s] = NULL
    /\ fiber_to_free' = [fiber_to_free EXCEPT ![s] = fiber_self[s]]
    /\ fiber_self' = [fiber_self EXCEPT ![s] = NULL]
    /\ UNCHANGED <<fiber_child, fiber_pool>>

LEMMA GiveUpKeeps == ASSUME IInv, NEW s, GiveUp(s) PROVE UniqueInv' /\ HeldInv'
<1> USE Facts
<1>1. /\ s \in Strands /\ fiber_to_free[s] = NULL /\ UNCHANGED <<fiber_child, fiber_pool>>
      /\ fiber_to_free'[s] = fiber_self[s] /\ fiber_self'[s] = NULL
      /\ \A t \in Strands \ {s} : fiber_to_free'[t] = fiber_to_free[t]
                                  /\ fiber_self'[t] = fiber_self[t]
  BY DEF GiveUp, IInv, TypeInv
<1>2. NULL \notin fiber_pool
  BY DEF IInv, TypeInv
<1>3. UniqueInv'
  BY <1>1, <1>2 DEF IInv, UniqueInv
<1>4. HeldInv'
  BY <1>1 DEF IInv, HeldInv
<1>5. QED
  BY <1>3, <1>4

\* The leftmost child leaves its fiber to the frame.
PassUp(c) ==
    /\ c \in Strands /\ fiber_child = NULL
    /\ fiber_child' = fiber_self[c]
    /\ fiber_self' = [fiber_self EXCEPT ![c] = NULL]
    /\ UNCHANGED <<fiber_to_free, fiber_pool>>

LEMMA PassUpKeeps == ASSUME IInv, NEW c, PassUp(c) PROVE UniqueInv' /\ HeldInv'
<1> USE Facts
<1>1. /\ c \in Strands /\ fiber_child = NULL /\ UNCHANGED <<fiber_to_free, fiber_pool>>
      /\ fiber_child' = fiber_self[c] /\ fiber_self'[c] = NULL
      /\ \A t \in Strands \ {c} : fiber_self'[t] = fiber_self[t]
  BY DEF PassUp, IInv, TypeInv
<1>2. NULL \notin fiber_pool
  BY DEF IInv, TypeInv
<1>3. UniqueInv'
  BY <1>1, <1>2 DEF IInv, UniqueInv
<1>4. HeldInv'
  BY <1>1 DEF IInv, HeldInv
<1>5. QED
  BY <1>3, <1>4

\* The child gets the frame's fiber, the frame the thief's.
LEMMA HandKeeps ==
    ASSUME IInv, NEW c \in Children, NEW f \in fiber_pool, HandFibers(c, f),
           fiber_self[c] = NULL, UNCHANGED <<fiber_child, fiber_to_free>>
    PROVE  UniqueInv' /\ HeldInv'
<1> USE Facts
<1>1. /\ fiber_pool' = fiber_pool \ {f} /\ fiber_self'[c] = fiber_self[0] /\ fiber_self'[0] = f
      /\ \A t \in Strands \ {0, c} : fiber_self'[t] = fiber_self[t]
  BY DEF HandFibers, IInv, TypeInv
<1>2. NULL \notin fiber_pool
  BY DEF IInv, TypeInv
<1>3. UniqueInv'
  <2>1. /\ \A s, t \in Strands : /\ fiber_self'[s] = fiber_self'[t] =>
                                        s = t \/ fiber_self'[s] = NULL
                                 /\ fiber_self'[s] = fiber_to_free[t] => fiber_self'[s] = NULL
    BY <1>1, <1>2 DEF IInv, UniqueInv
  <2>2. \A s \in Strands : /\ fiber_self'[s] \notin fiber_pool'
                           /\ fiber_to_free[s] \notin fiber_pool'
                           /\ fiber_child = fiber_self'[s] => fiber_child = NULL
    BY <1>1, <1>2 DEF IInv, UniqueInv
  <2>3. QED
    BY <1>1, <2>1, <2>2 DEF IInv, UniqueInv
<1>4. HeldInv'
  <2> SUFFICES ASSUME NEW g \in Fibers, g \notin fiber_pool', g # fiber_child
               PROVE  \E s \in Strands : g \in {fiber_self'[s], fiber_to_free[s]}
    BY DEF HeldInv
  <2>1. CASE g = f
    BY <1>1, <2>1
  <2>2. CASE g # f
    <3>1. PICK s \in Strands : g \in {fiber_self[s], fiber_to_free[s]}
      BY <1>1, <2>2 DEF IInv, HeldInv
    <3>2. CASE g = fiber_self[s]
      <4>1. s # c
        BY <3>2
      <4>2. QED
        BY <1>1, <3>2, <4>1
    <3>3. QED
      BY <3>1, <3>2
  <2>3. QED
    BY <2>1, <2>2
<1>5. QED
  BY <1>3, <1>4

\* A fiber that has been left goes back to the pool.
Freed(s) ==
    /\ s \in Strands /\ fiber_pool' = fiber_pool \cup ({fiber_to_free[s]} \ {NULL})
    /\ fiber_to_free' = [fiber_to_free EXCEPT ![s] = NULL]

LEMMA FreedKeeps ==
    ASSUME IInv, NEW s, Freed(s),
           \/ UNCHANGED <<fiber_self, fiber_child>>
           \/ /\ fiber_self[0] = NULL /\ fiber_child' = NULL
              /\ fiber_self' = [fiber_self EXCEPT ![0] = fiber_child]
    PROVE  UniqueInv' /\ HeldInv'
<1> USE Facts
<1>1. /\ s \in Strands /\ fiber_to_free'[s] = NULL
      /\ \A t \in Strands \ {s} : fiber_to_free'[t] = fiber_to_free[t]
      /\ \A f \in Fibers : f \in fiber_pool' <=> f \in fiber_pool \/ f = fiber_to_free[s]
      /\ NULL \notin fiber_pool' /\ NULL \notin fiber_pool /\ fiber_pool' \subseteq Fibers
  BY DEF Freed, IInv, TypeInv
<1>2. CASE UNCHANGED <<fiber_self, fiber_child>>
  <2>1. UniqueInv'
    BY <1>1, <1>2 DEF IInv, UniqueInv
  <2>2. HeldInv'
    BY <1>1, <1>2 DEF IInv, HeldInv
  <2>3. QED
    BY <2>1, <2>2
<1>3. CASE /\ fiber_self[0] = NULL /\ fiber_child' = NULL
           /\ fiber_self' = [fiber_self EXCEPT ![0] = fiber_child]
  <2>1. fiber_self'[0] = fiber_child /\ \A t \in Strands \ {0} : fiber_self'[t] = fiber_self[t]
    BY <1>3 DEF IInv, TypeInv
  <2>2. UniqueInv'
    BY <1>1, <1>3, <2>1 DEF IInv, UniqueInv
  <2>3. HeldInv'
    BY <1>1, <1>3, <2>1 DEF IInv, HeldInv
  <2>4. QED
    BY <2>2, <2>3
<1>4. QED
  BY <1>2, <1>3

-----------------------------------------------------------------------------
(* Steps that move no fiber *)

LEMMA GotoIs ==
    ASSUME TypeInv, NEW s \in Strands, NEW l, Goto(s, l)
    PROVE  pc'[s] = l /\ \A t \in Strands \ {s} : pc'[t] = pc[t]
  BY DEF TypeInv, Goto

\* A strand leaves its code, or merges reducer maps once more.
LEMMA LeaveStep ==
    ASSUME IInv, NEW s \in Strands, NEW l \in {"return", "reduce"}, Goto(s, l),
           pc[s] \in {"run", "return", "reduce"}, UNCHANGED <<tree, fibers>>,
           s = 0 => l = "reduce" /\ unsynched
    PROVE  IInv'
<1> USE Facts
<1>1. /\ UNCHANGED <<join_counter, rightmost_child, left_sibling, right_sibling,
                     unsynched, spawned>>
      /\ UNCHANGED <<fiber_self, fiber_child, fiber_to_free, fiber_pool, stack, home>>
  BY DEF tree, fibers
<1>2. pc'[s] = l /\ \A t \in Strands \ {s} : pc'[t] = pc[t]
  BY GotoIs DEF IInv
<1>3. TypeInv'
  <2>1. pc' \in [Strands -> {"new", "run", "return", "reduce", "jump", "join",
                             "stalled", "ready", "done"}]
    BY DEF Goto, IInv, TypeInv
  <2>2. QED
    BY <1>1, <2>1 DEF IInv, TypeInv
<1>4. Alive' = Alive /\ Linked' = Linked
  <2>1. \A c \in Children : /\ pc'[c] \in {"new", "done"} <=> pc[c] \in {"new", "done"}
                            /\ pc'[c] \in {"run", "return", "reduce"} <=>
                                   pc[c] \in {"run", "return", "reduce"}
    BY <1>2
  <2>2. QED
    BY <2>1 DEF Alive, Linked
<1>5. StepInv'
  BY <1>1, <1>2, <1>4 DEF IInv, StepInv
<1>6. CountInv'
  <2>1. pc'[0] = "stalled" <=> pc[0] = "stalled"
    BY <1>2
  <2>2. QED
    BY <1>1, <1>4, <2>1 DEF IInv, CountInv
<1>7. ListInv'
  BY <1>1, <1>4 DEF IInv, ListInv, IsLeftOf, IsRightOf
<1>8. HandInv'
  <2>1. \A t \in Strands :
           /\ pc'[t] \in {"run", "return", "reduce", "ready"} <=>
                 pc[t] \in {"run", "return", "reduce", "ready"}
           /\ pc'[t] \in {"run", "return", "reduce"} <=> pc[t] \in {"run", "return", "reduce"}
           /\ pc'[t] = "jump" <=> pc[t] = "jump"
           /\ pc'[t] \in {"jump", "join"} <=> pc[t] \in {"jump", "join"}
    BY <1>2
  <2>2. QED
    BY <1>1, <2>1 DEF IInv, HandInv
<1>9. HomeInv' /\ UniqueInv' /\ HeldInv'
  BY <1>1, <1>4 DEF IInv, HomeInv, UniqueInv, HeldInv, First
<1>10. QED
  BY <1>3, <1>5, <1>6, <1>7, <1>8, <1>9 DEF IInv

LEMMA StayStep == ASSUME IInv, UNCHANGED <<tree, fibers, pc>> PROVE IInv'
<1>1. /\ UNCHANGED <<join_counter, rightmost_child, left_sibling, right_sibling,
                     unsynched, spawned>>
      /\ UNCHANGED <<fiber_self, fiber_child, fiber_to_free, fiber_pool, stack, home, pc>>
  BY DEF tree, fibers
<1>2. TypeInv' /\ StepInv' /\ CountInv' /\ ListInv'
  BY <1>1 DEF IInv, TypeInv, StepInv, CountInv, ListInv, IsLeftOf, IsRightOf, Linked, Alive
<1>3. HandInv' /\ HomeInv' /\ UniqueInv' /\ HeldInv'
  BY <1>1 DEF IInv, HandInv, HomeInv, UniqueInv, HeldInv, First, Linked
<1>4. QED
  BY <1>2, <1>3 DEF IInv

LEMMA CallAgainStep == ASSUME IInv, CallAgain PROVE IInv'
<1> USE Facts
<1>1. /\ UNCHANGED <<join_counter, rightmost_child, left_sibling, right_sibling, unsynched>>
      /\ UNCHANGED <<fiber_self, fiber_child, fiber_to_free, fiber_pool, stack, home>>
      /\ pc[0] = "run" /\ ~unsynched /\ spawned' = 0
      /\ pc' = [s \in Strands |-> IF s = 0 THEN "run" ELSE "new"]
  BY DEF CallAgain, fibers
<1>2. pc'[0] = "run" /\ \A c \in Children : pc'[c] = "new"
  BY <1>1
<1>3. Alive = {} /\ \A c \in Children : pc[c] \in {"new", "done"}
  BY <1>1 DEF IInv, StepInv, Alive
<1>4. Alive' = {} /\ Linked' = {} /\ Linked = {}
  BY <1>2, <1>3 DEF Alive, Linked
<1>5. TypeInv'
  <2>1. pc' \in [Strands -> {"new", "run", "return", "reduce", "jump", "join",
                             "stalled", "ready", "done"}]
    BY <1>1
  <2>2. QED
    BY <1>1, <2>1 DEF IInv, TypeInv
<1>6. StepInv'
  BY <1>1, <1>2, <1>4 DEF StepInv
<1>7. CountInv' /\ ListInv'
  BY <1>1, <1>2, <1>3, <1>4 DEF IInv, CountInv, ListInv
<1>8. HandInv'
  <2>1. \A t \in Strands :
           /\ pc'[t] \in {"run", "return", "reduce", "ready"} <=>
                 pc[t] \in {"run", "return", "reduce", "ready"}
           /\ pc'[t] \in {"run", "return", "reduce"} <=> pc[t] \in {"run", "return", "reduce"}
           /\ pc'[t] # "jump" /\ pc[t] # "jump"
           /\ pc'[t] \in {"jump", "join"} <=> pc[t] \in {"jump", "join"}
    BY <1>1, <1>2, <1>3
  <2>2. QED
    BY <1>1, <2>1 DEF IInv, HandInv
<1>9. HomeInv' /\ UniqueInv' /\ HeldInv'
  BY <1>1 DEF IInv, HomeInv, UniqueInv, HeldInv
<1>10. QED
  BY <1>5, <1>6, <1>7, <1>8, <1>9 DEF IInv

\* The worker leaves the strand's fiber.
LEMMA JumpStep == ASSUME IInv, NEW s \in Strands, Jump(s) PROVE IInv'
<1> USE Facts
<1>1. /\ UNCHANGED <<join_counter, rightmost_child, left_sibling, right_sibling,
                     unsynched, spawned>>
      /\ UNCHANGED <<fiber_self, fiber_child, fiber_to_free, fiber_pool, home>>
      /\ pc[s] = "jump" /\ stack' = [stack EXCEPT ![s] = NULL] /\ Goto(s, "join")
  BY DEF Jump, tree
<1>2. pc'[s] = "join" /\ \A t \in Strands \ {s} : pc'[t] = pc[t]
  BY <1>1, GotoIs DEF IInv
<1>3. stack'[s] = NULL /\ \A t \in Strands \ {s} : stack'[t] = stack[t]
  BY <1>1 DEF IInv, TypeInv
<1>4. TypeInv'
  <2>1. pc' \in [Strands -> {"new", "run", "return", "reduce", "jump", "join",
                             "stalled", "ready", "done"}]
    BY <1>1 DEF Goto, IInv, TypeInv
  <2>2. stack' \in [Strands -> Fibers \cup {NULL}]
    BY <1>1 DEF IInv, TypeInv
  <2>3. QED
    BY <1>1, <2>1, <2>2 DEF IInv, TypeInv
<1>5. Alive' = Alive /\ Linked' = Linked
  <2>1. \A c \in Children : /\ pc'[c] \in {"new", "done"} <=> pc[c] \in {"new", "done"}
                            /\ pc'[c] \in {"run", "return", "reduce"} <=>
                                   pc[c] \in {"run", "return", "reduce"}
    BY <1>1, <1>2
  <2>2. QED
    BY <2>1 DEF Alive, Linked
<1>6. StepInv'
  BY <1>1, <1>2, <1>5 DEF IInv, StepInv
<1>7. CountInv'
  <2>1. pc'[0] = "stalled" <=> pc[0] = "stalled"
    BY <1>1, <1>2
  <2>2. QED
    BY <1>1, <1>5, <2>1 DEF IInv, CountInv
<1>8. ListInv'
  BY <1>1, <1>5 DEF IInv, ListInv, IsLeftOf, IsRightOf
<1>9. HandInv'
  <2> SUFFICES ASSUME NEW t \in Strands, NEW u \in Strands
               PROVE  /\ fiber_self[t] # NULL <=> pc'[t] \in {"run", "return", "reduce", "ready"}
                      /\ fiber_to_free[t] # NULL => pc'[t] \in {"jump", "join"}
                      /\ pc'[t] \in {"run", "return", "reduce"} => stack'[t] = fiber_self[t]
                      /\ pc'[t] = "jump" =>
                            /\ stack'[t] # NULL
                            /\ stack'[t] = IF fiber_to_free[t] # NULL THEN fiber_to_free[t]
                                           ELSE fiber_child
                      /\ pc'[t] \notin {"run", "return", "reduce", "jump"} => stack'[t] = NULL
                      /\ pc'[0] \in {"jump", "join"} => fiber_to_free[0] # NULL
                      /\ pc'[t] = "jump" /\ pc'[u] = "jump" /\ t # u =>
                            fiber_to_free[t] # NULL \/ fiber_to_free[u] # NULL
    BY <1>1 DEF HandInv
  <2>1. QED
    BY <1>1, <1>2, <1>3 DEF IInv, HandInv
<1>10. HomeInv' /\ UniqueInv' /\ HeldInv'
  BY <1>1, <1>5 DEF IInv, HomeInv, UniqueInv, HeldInv, First
<1>11. QED
  BY <1>4, <1>6, <1>7, <1>8, <1>9, <1>10 DEF IInv

\* The frame goes on, on the fiber it has.
LEMMA ResumeStep == ASSUME IInv, Resume PROVE IInv'
<1> USE Facts
<1>1. /\ UNCHANGED <<join_counter, rightmost_child, left_sibling, right_sibling,
                     unsynched, spawned>>
      /\ UNCHANGED <<fiber_self, fiber_child, fiber_to_free, fiber_pool, home>>
      /\ pc[0] = "ready" /\ stack' = [stack EXCEPT ![0] = fiber_self[0]] /\ Goto(0, "run")
  BY DEF Resume, tree
<1>2. pc'[0] = "run" /\ \A t \in Strands \ {0} : pc'[t] = pc[t]
  BY <1>1, GotoIs DEF IInv
<1>3. stack'[0] = fiber_self[0] /\ \A t \in Strands \ {0} : stack'[t] = stack[t]
  BY <1>1 DEF IInv, TypeInv
<1>4. TypeInv'
  <2>1. pc' \in [Strands -> {"new", "run", "return", "reduce", "jump", "join",
                             "stalled", "ready", "done"}]
    BY <1>1 DEF Goto, IInv, TypeInv
  <2>2. stack' \in [Strands -> Fibers \cup {NULL}]
    BY <1>1 DEF IInv, TypeInv
  <2>3. QED
    BY <1>1, <2>1, <2>2 DEF IInv, TypeInv
<1>5. Alive' = Alive /\ Linked' = Linked
  <2>1. \A c \in Children : pc'[c] = pc[c]
    BY <1>2
  <2>2. QED
    BY <2>1 DEF Alive, Linked
<1>6. StepInv'
  BY <1>1, <1>2, <1>5 DEF IInv, StepInv
<1>7. CountInv'
  BY <1>1, <1>2, <1>5 DEF IInv, CountInv
<1>8. ListInv'
  BY <1>1, <1>5 DEF IInv, ListInv, IsLeftOf, IsRightOf
<1>9. HandInv'
  <2> SUFFICES ASSUME NEW t \in Strands, NEW u \in Strands
               PROVE  /\ fiber_self[t] # NULL <=> pc'[t] \in {"run", "return", "reduce", "ready"}
                      /\ fiber_to_free[t] # NULL => pc'[t] \in {"jump", "join"}
                      /\ pc'[t] \in {"run", "return", "reduce"} => stack'[t] = fiber_self[t]
                      /\ pc'[t] = "jump" =>
                            /\ stack'[t] # NULL
                            /\ stack'[t] = IF fiber_to_free[t] # NULL THEN fiber_to_free[t]
                                           ELSE fiber_child
                      /\ pc'[t] \notin {"run", "return", "reduce", "jump"} => stack'[t] = NULL
                      /\ pc'[0] \in {"jump", "join"} => fiber_to_free[0] # NULL
                      /\ pc'[t] = "jump" /\ pc'[u] = "jump" /\ t # u =>
                            fiber_to_free[t] # NULL \/ fiber_to_free[u] # NULL
    BY <1>1 DEF HandInv
  <2>1. QED
    BY <1>1, <1>2, <1>3 DEF IInv, HandInv
<1>10. HomeInv' /\ UniqueInv' /\ HeldInv'
  BY <1>1, <1>5 DEF IInv, HomeInv, UniqueInv, HeldInv, First
<1>11. QED
  BY <1>4, <1>6, <1>7, <1>8, <1>9, <1>10 DEF IInv

-----------------------------------------------------------------------------
(* Steps that move fibers *)

LEMMA StealStep == ASSUME IInv, Steal PROVE IInv'
<1> DEFINE f == FromPool(fiber_pool)
<1> USE Facts
<1>1. PICK c : c = spawned + 1
  OBVIOUS
<1>2. /\ pc[0] = "run" /\ spawned < N /\ f \in fiber_pool
      /\ spawned' = c /\ unsynched' = TRUE /\ join_counter' = join_counter - 1 + 1 + 1
      /\ PushChild(c) /\ HandFibers(c, f)
      /\ pc' = [pc EXCEPT ![c] = "run", ![0] = "ready"]
      /\ UNCHANGED <<fiber_child, fiber_to_free, home>>
  BY <1>1 DEF Steal, AfterSteal, FromPool
<1> HIDE DEF f
<1>3. c \in Children /\ spawned \in Int
  BY <1>1, <1>2 DEF IInv, TypeInv, Children, Strands
<1>4. /\ pc[c] = "new" /\ fiber_self[c] = NULL /\ fiber_to_free[c] = NULL
      /\ \A x \in Children : pc[x] # "new" => x < c
  BY <1>1, <1>3 DEF IInv, StepInv, HandInv
<1>5. pc'[c] = "run" /\ pc'[0] = "ready" /\ \A s \in Strands \ {0, c} : pc'[s] = pc[s]
  BY <1>2, <1>3 DEF IInv, TypeInv
<1>6. /\ fiber_self'[c] = fiber_self[0] /\ fiber_self'[0] = f
      /\ stack'[c] = stack[0] /\ stack'[0] = NULL
      /\ \A s \in Strands \ {0, c} : fiber_self'[s] = fiber_self[s] /\ stack'[s] = stack[s]
  BY <1>2, <1>3 DEF HandFibers, IInv, TypeInv
<1>7. f \in Fibers /\ f # NULL
  BY <1>2 DEF IInv, TypeInv
<1>8. Linked' = Linked \cup {c} /\ Alive' = Alive \cup {c}
  <2>1. \A x \in Children : x = c \/ pc'[x] = pc[x]
    BY <1>5
  <2>2. QED
    BY <1>3, <1>5, <2>1 DEF Linked, Alive
<1>9. /\ c \notin Linked /\ c \notin Alive
      /\ \A x \in Linked : x \in Children /\ x \in Strands /\ x \in Int /\ x < c
  BY <1>4 DEF Linked, Alive
<1>10. TypeInv'
  <2>1. pc' \in [Strands -> {"new", "run", "return", "reduce", "jump", "join",
                             "stalled", "ready", "done"}]
    BY <1>2 DEF IInv, TypeInv
  <2>2. /\ fiber_self' \in [Strands -> Fibers \cup {NULL}]
              /\ stack' \in [Strands -> Fibers \cup {NULL}]
        /\ fiber_pool' \subseteq Fibers
    BY <1>2, <1>3, <1>7 DEF HandFibers, IInv, TypeInv
  <2>3. /\ left_sibling' \in [Children -> Strands] /\ right_sibling' \in [Children -> Strands]
        /\ rightmost_child' \in Strands
    BY <1>2, <1>3 DEF PushChild, IInv, TypeInv
  <2>4. unsynched' \in BOOLEAN
    BY <1>2
  <2>5. join_counter' \in Int /\ spawned' \in Strands
    BY <1>2, <1>3 DEF IInv, TypeInv
  <2>6. QED
    BY <1>2, <2>1, <2>2, <2>3, <2>4, <2>5 DEF IInv, TypeInv
<1>11. StepInv'
  <2>1. \A x \in Children : pc'[x] = "new" <=> x > spawned'
    <3> SUFFICES ASSUME NEW x \in Children PROVE pc'[x] = "new" <=> x > spawned + 1
      BY <1>1, <1>2
    <3>1. (pc[x] = "new" <=> x > spawned) /\ x \in Int
      BY DEF IInv, StepInv
    <3>2. CASE x = c
      BY <1>1, <1>3, <1>5, <3>2
    <3>3. CASE x # c
      BY <1>1, <1>3, <1>5, <3>1, <3>3
    <3>4. QED
      BY <3>2, <3>3
  <2>2. \A x \in Children : pc'[x] \notin {"stalled", "ready"}
    BY <1>5 DEF IInv, StepInv
  <2>3. QED
    BY <1>2, <1>5, <2>1, <2>2 DEF StepInv
<1>12. CountInv'
  <2>1. Cardinality(Alive') = Cardinality(Alive) + 1
    BY <1>8, <1>9, Finite, FS_AddElement
  <2>2. pc'[0] # "stalled" /\ join_counter = Cardinality(Alive) + 1
    BY <1>2, <1>5 DEF IInv, CountInv
  <2>3. QED
    BY <1>2, <2>1, <2>2, Finite DEF CountInv
<1>13. ListInv'
  <2>1. /\ left_sibling'[c] = rightmost_child /\ right_sibling'[c] = 0 /\ rightmost_child' = c
        /\ \A x \in Linked : /\ left_sibling'[x] = left_sibling[x]
                             /\ right_sibling'[x] = IF x = rightmost_child THEN c
                                                    ELSE right_sibling[x]
    BY <1>2, <1>3, <1>9 DEF PushChild, IInv, TypeInv
  <2>2. /\ rightmost_child \in Linked \cup {0} /\ rightmost_child \in Int
        /\ \A x \in Linked : x <= rightmost_child
    BY <1>9 DEF IInv, ListInv
  <2>3. \A x \in Linked : IsLeftOf(left_sibling[x], x)'
    <3> SUFFICES ASSUME NEW x \in Linked, NEW y \in Linked'
                 PROVE  /\ left_sibling'[x] \in Linked' \cup {0} /\ left_sibling'[x] < x
                        /\ y < x => y <= left_sibling'[x]
      BY <1>8 DEF IsLeftOf
    <3>1. IsLeftOf(left_sibling[x], x) /\ left_sibling'[x] = left_sibling[x]
      BY <2>1 DEF IInv, ListInv
    <3>2. y \in Linked \/ (y = c /\ ~(y < x))
      BY <1>3, <1>8, <1>9
    <3>3. QED
      BY <1>8, <3>1, <3>2 DEF IsLeftOf
  <2>4. IsLeftOf(left_sibling[c], c)'
    <3> SUFFICES ASSUME NEW y \in Linked'
                 PROVE  /\ rightmost_child \in Linked' \cup {0} /\ rightmost_child < c
                        /\ y < c => y <= rightmost_child
      BY <1>8, <2>1 DEF IsLeftOf
    <3>1. y \in Linked \/ y = c
      BY <1>8
    <3>2. QED
      BY <1>3, <1>8, <1>9, <2>2, <3>1
  <2>5. \A x \in Linked : IsRightOf(right_sibling[x], x)'
    <3> SUFFICES ASSUME NEW x \in Linked
                 PROVE  /\ right_sibling'[x] \in Linked' \cup {0}
                        /\ right_sibling'[x] = 0 \/ x < right_sibling'[x]
                        /\ \A y \in Linked' : x < y => right_sibling'[x] # 0
                                                       /\ right_sibling'[x] <= y
      BY DEF IsRightOf
    <3>1. CASE x = rightmost_child
      <4>1. right_sibling'[x] = c
        BY <2>1, <3>1
      <4>2. \A y \in Linked' : x < y => y = c
        BY <1>8, <1>9, <2>2, <3>1
      <4>3. QED
        BY <1>3, <1>8, <1>9, <4>1, <4>2
    <3>2. CASE x # rightmost_child
      <4>1. right_sibling'[x] = right_sibling[x] /\ IsRightOf(right_sibling[x], x)
        BY <2>1, <3>2 DEF IInv, ListInv
      <4>2. rightmost_child \in Linked /\ x < rightmost_child
        BY <1>9, <2>2, <3>2
      <4>3. /\ right_sibling[x] \in Linked /\ x < right_sibling[x]
            /\ right_sibling[x] # 0 /\ right_sibling[x] < c
            /\ \A y \in Linked : x < y => right_sibling[x] <= y
        BY <1>9, <4>1, <4>2 DEF IsRightOf
      <4>4. \A y \in Linked' : y \in Linked \/ y = c
        BY <1>8
      <4>5. QED
        BY <1>3, <1>8, <1>9, <4>1, <4>3, <4>4
    <3>3. QED
      BY <3>1, <3>2
  <2>6. IsRightOf(right_sibling[c], c)'
    <3>1. \A y \in Linked' : ~(c < y)
      BY <1>3, <1>8, <1>9
    <3>2. QED
      BY <2>1, <3>1 DEF IsRightOf
  <2>7. rightmost_child' \in Linked' \cup {0} /\ \A x \in Linked' : x <= rightmost_child'
    BY <1>3, <1>8, <1>9, <2>1
  <2>8. QED
    BY <1>8, <2>3, <2>4, <2>5, <2>6, <2>7 DEF ListInv
<1>14. HandInv'
  <2> SUFFICES ASSUME NEW t \in Strands, NEW u \in Strands
               PROVE  /\ fiber_self'[t] # NULL <=> pc'[t] \in {"run", "return", "reduce", "ready"}
                      /\ fiber_to_free[t] # NULL => pc'[t] \in {"jump", "join"}
                      /\ pc'[t] \in {"run", "return", "reduce"} => stack'[t] = fiber_self'[t]
                      /\ pc'[t] = "jump" =>
                            /\ stack'[t] # NULL
                            /\ stack'[t] = IF fiber_to_free[t] # NULL THEN fiber_to_free[t]
                                           ELSE fiber_child
                      /\ pc'[t] \notin {"run", "return", "reduce", "jump"} => stack'[t] = NULL
                      /\ pc'[0] \notin {"jump", "join"}
                      /\ pc'[t] = "jump" /\ pc'[u] = "jump" /\ t # u =>
                            fiber_to_free[t] # NULL \/ fiber_to_free[u] # NULL
    BY <1>2 DEF HandInv
  <2>1. fiber_self[0] # NULL /\ stack[0] = fiber_self[0] /\ fiber_to_free[0] = NULL
    BY <1>2 DEF IInv, HandInv
  <2>2. CASE t \in {0, c}
    BY <1>4, <1>5, <1>6, <1>7, <2>1, <2>2
  <2>3. CASE t \notin {0, c}
    BY <1>5, <1>6, <2>3 DEF IInv, HandInv
  <2>4. QED
    BY <2>2, <2>3
<1>15. HomeInv'
  <2>1. CASE unsynched
    <3>1. ASSUME NEW d \in Children, First(d) PROVE First(d)'
      <4>1. d \in Linked /\ fiber_self[d] = home /\ (\A x \in Linked : d <= x) /\ d # c
        BY <1>9, <3>1 DEF First
      <4>2. fiber_self'[d] = home'
        BY <1>2, <1>6, <4>1
      <4>3. d \in Linked' /\ \A x \in Linked' : d <= x
        BY <1>3, <1>8, <1>9, <4>1
      <4>4. QED
        BY <4>2, <4>3 DEF First
    <3>2. QED
      BY <1>2, <2>1, <3>1 DEF IInv, HomeInv
  <2>2. CASE ~unsynched
    <3>1. fiber_self[0] = home /\ fiber_child = NULL /\ Linked = {}
      BY <2>2 DEF IInv, HomeInv, StepInv, Linked, Alive
    <3>2. First(c)'
      BY <1>2, <1>3, <1>6, <1>8, <3>1 DEF First
    <3>3. QED
      BY <1>2, <1>3, <3>1, <3>2 DEF HomeInv
  <2>3. QED
    BY <2>1, <2>2
<1>16. UniqueInv' /\ HeldInv'
  BY <1>2, <1>3, <1>4, HandKeeps
<1>17. QED
  BY <1>10, <1>11, <1>12, <1>13, <1>14, <1>15, <1>16 DEF IInv

\* A child out of the list leaves the rest of it in order.
LEMMA UnlinkKeeps ==
    ASSUME IInv, NEW c \in Linked, Unlink(c), Linked' = Linked \ {c} PROVE ListInv'
<1> USE Facts
<1>1. PICK l : l = left_sibling[c]
  OBVIOUS
<1>2. PICK r : r = right_sibling[c]
  OBVIOUS
<1>3. \A x \in Linked : x \in Children /\ x \in Int /\ x > 0
  BY DEF Linked
<1>4. /\ \A x \in Linked' : /\ left_sibling'[x] = IF x = r THEN l ELSE left_sibling[x]
                            /\ right_sibling'[x] = IF x = l THEN r ELSE right_sibling[x]
      /\ rightmost_child' = IF r = 0 THEN l ELSE rightmost_child
  BY <1>1, <1>2, <1>3 DEF Unlink
<1>5. IsLeftOf(l, c) /\ IsRightOf(r, c)
  BY <1>1, <1>2 DEF IInv, ListInv
<1>6. /\ l \in Linked' \cup {0} /\ l \in Int /\ l < c /\ \A x \in Linked : x < c => x <= l
      /\ r \in Linked' \cup {0} /\ r \in Int /\ (r = 0 \/ c < r)
      /\ \A x \in Linked : c < x => r # 0 /\ r <= x
  BY <1>3, <1>5 DEF IsLeftOf, IsRightOf
<1>7. \A x \in Linked' : x \in Linked /\ x # c /\ x \in Int /\ x > 0 /\ (x < c \/ c < x)
  BY <1>3
<1>8. c \in Int /\ c > 0
  BY <1>3
<1>9. rightmost_child' \in Linked' \cup {0} /\ \A x \in Linked' : x <= rightmost_child'
  <2>1. /\ rightmost_child \in Linked \cup {0} /\ rightmost_child \in Int
        /\ \A x \in Linked : x <= rightmost_child
    BY <1>3 DEF IInv, ListInv
  <2>2. CASE r = 0
    BY <1>4, <1>6, <1>7, <2>2
  <2>3. CASE r # 0
    BY <1>4, <1>6, <1>7, <1>8, <2>1, <2>3
  <2>4. QED
    BY <2>2, <2>3
<1>10. ASSUME NEW x \in Linked' PROVE IsLeftOf(left_sibling[x], x)'
  <2>1. CASE x = r
    <3>1. \A y \in Linked' : y < x => y <= l
      BY <1>6, <1>7, <1>8, <2>1
    <3>2. QED
      BY <1>4, <1>6, <1>7, <1>8, <2>1, <3>1 DEF IsLeftOf
  <2>2. CASE x # r
    <3>1. /\ left_sibling[x] \in Linked \cup {0} /\ left_sibling[x] < x
          /\ \A y \in Linked : y < x => y <= left_sibling[x]
      BY <1>7 DEF IInv, ListInv, IsLeftOf
    <3>2. left_sibling[x] # c
      BY <1>6, <1>7, <1>8, <2>2, <3>1
    <3>3. QED
      BY <1>4, <1>7, <2>2, <3>1, <3>2 DEF IsLeftOf
  <2>3. QED
    BY <2>1, <2>2
<1>11. ASSUME NEW x \in Linked' PROVE IsRightOf(right_sibling[x], x)'
  <2>1. CASE x = l
    <3>1. \A y \in Linked' : x < y => r # 0 /\ r <= y
      BY <1>6, <1>7, <1>8, <2>1
    <3>2. QED
      BY <1>4, <1>6, <1>7, <1>8, <2>1, <3>1 DEF IsRightOf
  <2>2. CASE x # l
    <3>1. /\ right_sibling[x] \in Linked \cup {0} /\ (right_sibling[x] = 0 \/ x < right_sibling[x])
          /\ \A y \in Linked : x < y => right_sibling[x] # 0 /\ right_sibling[x] <= y
      BY <1>7 DEF IInv, ListInv, IsRightOf
    <3>2. right_sibling[x] # c
      BY <1>6, <1>7, <1>8, <2>2, <3>1
    <3>3. QED
      BY <1>4, <1>7, <2>2, <3>1, <3>2 DEF IsRightOf
  <2>3. QED
    BY <2>1, <2>2
<1>12. QED
  BY <1>9, <1>10, <1>11 DEF ListInv

\* Who finds no left sibling and no fiber with the frame has the frame's first.
LEMMA LeftmostHasHome ==
    ASSUME IInv, NEW c \in Linked, unsynched
    PROVE  /\ IsLeftmost(c) => fiber_self[c] = home
           /\ ~IsLeftmost(c) => fiber_child = home \/ \E d \in Linked \ {c} : First(d)
<1> USE Facts
<1>1. \A x \in Linked : x \in Children /\ x \in Int /\ x > 0
  BY DEF Linked
<1>2. fiber_child = home \/ (fiber_child = NULL /\ \E d \in Children : First(d))
  BY DEF IInv, HomeInv
<1>3. /\ left_sibling[c] \in Linked \cup {0} /\ left_sibling[c] < c
      /\ \A x \in Linked : x < c => x <= left_sibling[c]
  BY DEF IInv, ListInv, IsLeftOf
<1>4. home # NULL
  BY DEF IInv, TypeInv
<1>5. ASSUME NEW d \in Children, First(d) PROVE d = c <=> left_sibling[c] = 0
  <2>1. d \in Linked /\ d <= c /\ \A x \in Linked : d <= x
    BY <1>5 DEF First
  <2>2. QED
    BY <1>1, <1>3, <2>1
<1>6. QED
  BY <1>2, <1>4, <1>5 DEF IsLeftmost, First

LEMMA FinishStep ==
    ASSUME IInv, NEW c \in Children, pc[c] \in {"return", "reduce"}, Finish(c)
    PROVE  IInv'
<1> USE Facts
<1>1. /\ UNCHANGED <<join_counter, unsynched, spawned, fiber_pool, stack, home>>
      /\ Unlink(c) /\ Goto(c, "jump")
      /\ fiber_self' = [fiber_self EXCEPT ![c] = NULL]
  BY DEF Finish
<1>2. pc'[c] = "jump" /\ \A s \in Strands \ {c} : pc'[s] = pc[s]
  BY <1>1, GotoIs DEF IInv
<1>3. /\ c \in Linked /\ c \in Alive /\ Linked' = Linked \ {c} /\ Alive' = Alive
  <2>1. \A x \in Children : x = c \/ pc'[x] = pc[x]
    BY <1>2
  <2>2. QED
    BY <1>2, <2>1 DEF Linked, Alive
<1>4. unsynched /\ fiber_self[c] # NULL /\ fiber_to_free[c] = NULL /\ stack[c] = fiber_self[c]
  BY <1>3 DEF IInv, StepInv, HandInv
<1>5. fiber_self'[c] = NULL /\ \A s \in Strands \ {c} : fiber_self'[s] = fiber_self[s]
  BY <1>1 DEF IInv, TypeInv
<1>6. \/ IsLeftmost(c) /\ fiber_child' = fiber_self[c] /\ UNCHANGED fiber_to_free
      \/ /\ ~IsLeftmost(c) /\ UNCHANGED fiber_child
         /\ fiber_to_free' = [fiber_to_free EXCEPT ![c] = fiber_self[c]]
  BY DEF Finish
<1>7. TypeInv'
  <2>1. pc' \in [Strands -> {"new", "run", "return", "reduce", "jump", "join",
                             "stalled", "ready", "done"}]
    BY <1>1 DEF Goto, IInv, TypeInv
  <2>2. /\ fiber_self' \in [Strands -> Fibers \cup {NULL}] /\ fiber_child' \in Fibers \cup {NULL}
        /\ fiber_to_free' \in [Strands -> Fibers \cup {NULL}]
    BY <1>1, <1>6 DEF IInv, TypeInv
  <2>3. /\ left_sibling[c] \in Strands /\ right_sibling[c] \in Strands
        /\ left_sibling \in [Children -> Strands] /\ right_sibling \in [Children -> Strands]
        /\ rightmost_child \in Strands
    BY DEF IInv, TypeInv
  <2>4. /\ left_sibling' \in [Children -> Strands] /\ right_sibling' \in [Children -> Strands]
        /\ rightmost_child' \in Strands
    BY <1>1, <2>3 DEF Unlink
  <2>5. QED
    BY <1>1, <2>1, <2>2, <2>4 DEF IInv, TypeInv
<1>8. StepInv'
  BY <1>1, <1>2, <1>3, <1>4 DEF IInv, StepInv
<1>9. CountInv'
  BY <1>1, <1>2, <1>3 DEF IInv, CountInv
<1>10. ListInv'
  BY <1>1, <1>3, UnlinkKeeps
<1>11. ASSUME IsLeftmost(c), fiber_child' = fiber_self[c], UNCHANGED fiber_to_free
       PROVE  HandInv' /\ HomeInv' /\ UniqueInv' /\ HeldInv'
  <2>1. fiber_child = NULL
    BY <1>11 DEF IsLeftmost
  <2>2. HandInv'
    <3>1. \A t \in Strands : pc[t] = "jump" => fiber_to_free[t] # NULL
      BY <2>1 DEF IInv, HandInv
    <3>2. \A t \in Strands \ {c} :
             /\ fiber_self'[t] # NULL <=> pc'[t] \in {"run", "return", "reduce", "ready"}
             /\ fiber_to_free'[t] # NULL => pc'[t] \in {"jump", "join"}
             /\ pc'[t] \in {"run", "return", "reduce"} => stack'[t] = fiber_self'[t]
             /\ pc'[t] = "jump" => /\ stack'[t] # NULL /\ fiber_to_free'[t] # NULL
                                   /\ stack'[t] = fiber_to_free'[t]
             /\ pc'[t] \notin {"run", "return", "reduce", "jump"} => stack'[t] = NULL
      BY <1>1, <1>2, <1>5, <1>11, <3>1 DEF IInv, HandInv
    <3>3. /\ fiber_self'[c] = NULL /\ pc'[c] = "jump" /\ stack'[c] = fiber_child'
          /\ stack'[c] # NULL /\ fiber_to_free'[c] = NULL
      BY <1>1, <1>2, <1>4, <1>5, <1>11
    <3>4. pc'[0] \in {"jump", "join"} => fiber_to_free'[0] # NULL
      BY <1>2, <1>11 DEF IInv, HandInv
    <3>5. QED
      BY <3>2, <3>3, <3>4 DEF HandInv
  <2>3. HomeInv'
    BY <1>1, <1>3, <1>4, <1>11, LeftmostHasHome DEF HomeInv
  <2>4. PassUp(c)
    BY <1>1, <1>11, <2>1 DEF PassUp
  <2>5. QED
    BY <2>2, <2>3, <2>4, PassUpKeeps
<1>12. ASSUME ~IsLeftmost(c), UNCHANGED fiber_child,
              fiber_to_free' = [fiber_to_free EXCEPT ![c] = fiber_self[c]]
       PROVE  HandInv' /\ HomeInv' /\ UniqueInv' /\ HeldInv'
  <2>1. /\ fiber_to_free'[c] = fiber_self[c]
        /\ \A t \in Strands \ {c} : fiber_to_free'[t] = fiber_to_free[t]
    BY <1>12 DEF IInv, TypeInv
  <2>2. HandInv'
    <3>1. ASSUME NEW t \in Strands \ {c}
          PROVE  /\ fiber_self'[t] # NULL <=> pc'[t] \in {"run", "return", "reduce", "ready"}
                 /\ fiber_to_free'[t] # NULL => pc'[t] \in {"jump", "join"}
                 /\ pc'[t] \in {"run", "return", "reduce"} => stack'[t] = fiber_self'[t]
                 /\ pc'[t] = "jump" =>
                       /\ stack'[t] # NULL
                       /\ stack'[t] = IF fiber_to_free'[t] # NULL THEN fiber_to_free'[t]
                                      ELSE fiber_child'
                 /\ pc'[t] \notin {"run", "return", "reduce", "jump"} => stack'[t] = NULL
      BY <1>1, <1>2, <1>5, <1>12, <2>1 DEF IInv, HandInv
    <3>2. /\ fiber_self'[c] = NULL /\ pc'[c] = "jump" /\ stack'[c] = fiber_to_free'[c]
          /\ stack'[c] # NULL
      BY <1>1, <1>2, <1>4, <1>5, <2>1
    <3>3. pc'[0] \in {"jump", "join"} => fiber_to_free'[0] # NULL
      BY <1>2, <2>1 DEF IInv, HandInv
    <3>4. \A t, u \in Strands : pc'[t] = "jump" /\ pc'[u] = "jump" /\ t # u =>
             fiber_to_free'[t] # NULL \/ fiber_to_free'[u] # NULL
      BY <1>2, <2>1, <3>2 DEF IInv, HandInv
    <3>5. QED
      BY <3>1, <3>2, <3>3, <3>4 DEF HandInv
  <2>3. HomeInv'
    <3>1. ASSUME NEW d \in Linked \ {c}, First(d) PROVE d \in Children /\ First(d)'
      BY <1>1, <1>3, <1>5, <3>1 DEF First, Linked
    <3>2. QED
      BY <1>1, <1>3, <1>4, <1>12, <3>1, LeftmostHasHome DEF IInv, HomeInv
  <2>4. GiveUp(c)
    BY <1>1, <1>4, <1>12 DEF GiveUp
  <2>5. QED
    BY <2>2, <2>3, <2>4, GiveUpKeeps
<1>13. QED
  BY <1>6, <1>7, <1>8, <1>9, <1>10, <1>11, <1>12 DEF IInv

\* The frame is suspended at its sync.
LEMMA SuspendStep == ASSUME IInv, pc[0] = "reduce", Suspend, UNCHANGED tree PROVE IInv'
<1> USE Facts
<1>1. /\ UNCHANGED <<join_counter, rightmost_child, left_sibling, right_sibling,
                     unsynched, spawned>>
      /\ UNCHANGED <<fiber_child, fiber_pool, stack, home>>
      /\ Goto(0, "jump")
      /\ fiber_to_free' = [fiber_to_free EXCEPT ![0] = fiber_self[0]]
      /\ fiber_self' = [fiber_self EXCEPT ![0] = NULL]
  BY DEF Suspend, tree
<1>2. pc'[0] = "jump" /\ \A s \in Strands \ {0} : pc'[s] = pc[s]
  BY <1>1, GotoIs DEF IInv
<1>3. /\ fiber_self'[0] = NULL /\ fiber_to_free'[0] = fiber_self[0]
      /\ \A s \in Strands \ {0} : fiber_self'[s] = fiber_self[s]
                                  /\ fiber_to_free'[s] = fiber_to_free[s]
  BY <1>1 DEF IInv, TypeInv
<1>4. fiber_self[0] # NULL /\ fiber_to_free[0] = NULL /\ stack[0] = fiber_self[0]
  BY DEF IInv, HandInv
<1>5. TypeInv'
  <2>1. pc' \in [Strands -> {"new", "run", "return", "reduce", "jump", "join",
                             "stalled", "ready", "done"}]
    BY <1>1 DEF Goto, IInv, TypeInv
  <2>2. /\ fiber_self' \in [Strands -> Fibers \cup {NULL}]
        /\ fiber_to_free' \in [Strands -> Fibers \cup {NULL}]
    BY <1>1 DEF IInv, TypeInv
  <2>3. QED
    BY <1>1, <2>1, <2>2 DEF IInv, TypeInv
<1>6. Alive' = Alive /\ Linked' = Linked
  <2>1. \A c \in Children : pc'[c] = pc[c]
    BY <1>2
  <2>2. QED
    BY <2>1 DEF Alive, Linked
<1>7. StepInv'
  BY <1>1, <1>2, <1>6 DEF IInv, StepInv
<1>8. CountInv' /\ ListInv'
  BY <1>1, <1>2, <1>6 DEF IInv, CountInv, ListInv, IsLeftOf, IsRightOf
<1>9. HandInv'
  <2>1. ASSUME NEW t \in Strands \ {0}
        PROVE  /\ fiber_self'[t] # NULL <=> pc'[t] \in {"run", "return", "reduce", "ready"}
               /\ fiber_to_free'[t] # NULL => pc'[t] \in {"jump", "join"}
               /\ pc'[t] \in {"run", "return", "reduce"} => stack'[t] = fiber_self'[t]
               /\ pc'[t] = "jump" =>
                     /\ stack'[t] # NULL
                     /\ stack'[t] = IF fiber_to_free'[t] # NULL THEN fiber_to_free'[t]
                                    ELSE fiber_child'
               /\ pc'[t] \notin {"run", "return", "reduce", "jump"} => stack'[t] = NULL
    BY <1>1, <1>2, <1>3 DEF IInv, HandInv
  <2>2. /\ fiber_self'[0] = NULL /\ pc'[0] = "jump" /\ stack'[0] = fiber_to_free'[0]
        /\ stack'[0] # NULL
    BY <1>1, <1>2, <1>3, <1>4
  <2>3. \A t, u \in Strands : pc'[t] = "jump" /\ pc'[u] = "jump" /\ t # u =>
           fiber_to_free'[t] # NULL \/ fiber_to_free'[u] # NULL
    BY <1>2, <1>3, <2>2 DEF IInv, HandInv
  <2>4. QED
    BY <2>1, <2>2, <2>3 DEF HandInv
<1>10. HomeInv'
  <2>1. unsynched
    BY DEF IInv, StepInv
  <2>2. ASSUME NEW d \in Children, First(d) PROVE First(d)'
    BY <1>1, <1>3, <1>6, <2>2 DEF First
  <2>3. QED
    BY <1>1, <2>1, <2>2 DEF IInv, HomeInv
<1>11. UniqueInv' /\ HeldInv'
  <2>1. GiveUp(0)
    BY <1>1, <1>4 DEF GiveUp
  <2>2. QED
    BY <2>1, GiveUpKeeps
<1>12. QED
  BY <1>5, <1>7, <1>8, <1>9, <1>10, <1>11 DEF IInv

\* Nobody is left to join but the last to arrive.
LEMMA LastIsAlone ==
    ASSUME IInv, NEW s \in Strands, pc[s] = "join", LastToJoin
    PROVE  /\ Alive \subseteq {s} /\ Linked = {} /\ fiber_child = home
           /\ s = 0 \/ pc[0] = "stalled"
<1> USE Facts
<1>1. /\ join_counter = 1
      /\ join_counter = Cardinality(Alive) + (IF pc[0] = "stalled" THEN 0 ELSE 1)
  BY DEF LastToJoin, IInv, CountInv
<1>2. Alive \subseteq {s} /\ (s = 0 \/ pc[0] = "stalled")
  <2>1. CASE s = 0
    <3>1. Cardinality(Alive) = 0
      BY <1>1, <2>1, Finite
    <3>2. Alive = {}
      BY <3>1, Finite, FS_EmptySet
    <3>3. QED
      BY <2>1, <3>2
  <2>2. CASE s # 0
    <3>1. s \in Alive
      BY <2>2 DEF Alive
    <3>2. Alive # {} /\ Cardinality(Alive) # 0
      BY <3>1, Finite, FS_EmptySet
    <3>3. Cardinality(Alive) = 1 /\ pc[0] = "stalled"
      BY <1>1, <3>2, Finite
    <3>4. /\ Cardinality(Alive \ {s}) = 0 /\ IsFiniteSet(Alive \ {s})
      BY <3>1, <3>3, Finite, FS_RemoveElement
    <3>5. Alive \ {s} = {}
      BY <3>4, FS_EmptySet
    <3>6. QED
      BY <3>3, <3>5
  <2>3. QED
    BY <2>1, <2>2
<1>3. Linked = {}
  <2>1. \A c \in Linked : c \in Alive /\ c # s
    BY DEF Linked, Alive
  <2>2. QED
    BY <1>2, <2>1
<1>4. unsynched
  <2>1. pc[0] \in {"join", "stalled"}
    BY <1>2
  <2>2. QED
    BY <2>1 DEF IInv, StepInv
<1>5. fiber_child = home
  BY <1>3, <1>4 DEF IInv, HomeInv, First
<1>6. QED
  BY <1>2, <1>3, <1>5

\* Who joins and is not the last leaves the frame to the others.
LEMMA JoinStep ==
    ASSUME IInv, NEW s \in Strands, NEW l, PostSuspend(s, l), ~LastToJoin,
           l = IF s = 0 THEN "stalled" ELSE "done"
    PROVE  IInv'
<1> USE Facts
<1>1. /\ UNCHANGED <<rightmost_child, left_sibling, right_sibling, unsynched, spawned>>
      /\ UNCHANGED <<fiber_self, fiber_child, stack, home>>
      /\ pc[s] = "join" /\ join_counter' = join_counter - 1 /\ Goto(s, l)
      /\ fiber_pool' = fiber_pool \cup ({fiber_to_free[s]} \ {NULL})
      /\ fiber_to_free' = [fiber_to_free EXCEPT ![s] = NULL]
  BY DEF PostSuspend, ProvablyGoodSteal
<1>2. pc'[s] = l /\ \A t \in Strands \ {s} : pc'[t] = pc[t]
  BY <1>1, GotoIs DEF IInv
<1>3. fiber_to_free'[s] = NULL /\ \A t \in Strands \ {s} : fiber_to_free'[t] = fiber_to_free[t]
  BY <1>1 DEF IInv, TypeInv
<1>4. TypeInv'
  <2>1. pc' \in [Strands -> {"new", "run", "return", "reduce", "jump", "join",
                             "stalled", "ready", "done"}]
    BY <1>1 DEF Goto, IInv, TypeInv
  <2>2. fiber_to_free' \in [Strands -> Fibers \cup {NULL}] /\ fiber_pool' \subseteq Fibers
    BY <1>1 DEF IInv, TypeInv
  <2>3. join_counter' \in Int
    BY <1>1 DEF IInv, TypeInv
  <2>4. QED
    BY <1>1, <2>1, <2>2, <2>3 DEF IInv, TypeInv
<1>5. Linked' = Linked /\ Alive' = Alive \ {s}
  <2>1. \A c \in Children : c = s \/ pc'[c] = pc[c]
    BY <1>2
  <2>2. s \in Children => pc'[s] = "done"
    BY <1>2
  <2>3. QED
    BY <1>1, <2>1, <2>2 DEF Linked, Alive
<1>6. unsynched
  BY <1>1 DEF IInv, StepInv, Alive
<1>7. StepInv'
  BY <1>1, <1>2, <1>5, <1>6 DEF IInv, StepInv
<1>8. CountInv'
  <2>1. join_counter = Cardinality(Alive) + (IF pc[0] = "stalled" THEN 0 ELSE 1)
    BY DEF IInv, CountInv
  <2>2. CASE s = 0
    <3>1. Alive' = Alive /\ pc'[0] = "stalled" /\ pc[0] = "join"
      BY <1>1, <1>2, <1>5, <2>2 DEF Alive
    <3>2. QED
      BY <1>1, <2>1, <3>1, Finite DEF CountInv
  <2>3. CASE s # 0
    <3>1. s \in Alive /\ pc'[0] = pc[0]
      BY <1>1, <1>2, <2>3 DEF Alive
    <3>2. Cardinality(Alive') = Cardinality(Alive) - 1
      BY <1>5, <3>1, Finite, FS_RemoveElement
    <3>3. QED
      BY <1>1, <2>1, <3>1, <3>2, Finite DEF CountInv
  <2>4. QED
    BY <2>2, <2>3
<1>9. ListInv'
  BY <1>1, <1>5 DEF IInv, ListInv, IsLeftOf, IsRightOf
<1>10. HandInv'
  <2>1. ASSUME NEW t \in Strands \ {s}
        PROVE  /\ fiber_self'[t] # NULL <=> pc'[t] \in {"run", "return", "reduce", "ready"}
               /\ fiber_to_free'[t] # NULL => pc'[t] \in {"jump", "join"}
               /\ pc'[t] \in {"run", "return", "reduce"} => stack'[t] = fiber_self'[t]
               /\ pc'[t] = "jump" =>
                     /\ stack'[t] # NULL
                     /\ stack'[t] = IF fiber_to_free'[t] # NULL THEN fiber_to_free'[t]
                                    ELSE fiber_child'
               /\ pc'[t] \notin {"run", "return", "reduce", "jump"} => stack'[t] = NULL
    BY <1>1, <1>2, <1>3 DEF IInv, HandInv
  <2>2. /\ fiber_self'[s] = NULL /\ pc'[s] \in {"stalled", "done"} /\ stack'[s] = NULL
        /\ fiber_to_free'[s] = NULL
    BY <1>1, <1>2, <1>3 DEF IInv, HandInv
  <2>3. /\ pc'[0] \in {"jump", "join"} => fiber_to_free'[0] # NULL
        /\ \A t, u \in Strands : pc'[t] = "jump" /\ pc'[u] = "jump" /\ t # u =>
              fiber_to_free'[t] # NULL \/ fiber_to_free'[u] # NULL
    BY <1>2, <1>3, <2>2 DEF IInv, HandInv
  <2>4. QED
    BY <2>1, <2>2, <2>3 DEF HandInv
<1>11. HomeInv'
  BY <1>1, <1>5 DEF IInv, HomeInv, First
<1>12. UniqueInv' /\ HeldInv'
  <2>1. Freed(s)
    BY <1>1 DEF Freed
  <2>2. QED
    BY <1>1, <2>1, FreedKeeps
<1>13. QED
  BY <1>4, <1>7, <1>8, <1>9, <1>10, <1>11, <1>12 DEF IInv

\* The last one to arrive takes the frame past its sync.
LEMMA LastStep ==
    ASSUME IInv, NEW s \in Strands, NEW l, PostSuspend(s, l), LastToJoin,
           l = IF s = 0 THEN "stalled" ELSE "done"
    PROVE  IInv'
<1> USE Facts
<1>1. /\ UNCHANGED <<rightmost_child, left_sibling, right_sibling, spawned>>
      /\ UNCHANGED <<stack, home>>
      /\ pc[s] = "join" /\ join_counter = 1 /\ join_counter' = join_counter - 1 + 1
      /\ pc' = [pc EXCEPT ![s] = l, ![0] = "ready"]
      /\ fiber_self' = [fiber_self EXCEPT ![0] = fiber_child]
      /\ fiber_child' = NULL /\ unsynched' = FALSE
      /\ fiber_pool' = fiber_pool \cup ({fiber_to_free[s]} \ {NULL})
      /\ fiber_to_free' = [fiber_to_free EXCEPT ![s] = NULL]
  BY DEF PostSuspend, ProvablyGoodSteal, LastToJoin
<1>2. /\ Alive \subseteq {s} /\ Linked = {} /\ fiber_child = home
      /\ s = 0 \/ pc[0] = "stalled"
  BY <1>1, LastIsAlone
<1>3. /\ pc'[0] = "ready" /\ (s # 0 => pc'[s] = "done")
      /\ \A t \in Strands \ {0, s} : pc'[t] = pc[t] /\ pc[t] \in {"new", "done"}
  <2>1. \A t \in Strands \ {0, s} : pc[t] \in {"new", "done"}
    BY <1>2 DEF Alive
  <2>2. QED
    BY <1>1, <2>1 DEF IInv, TypeInv
<1>4. fiber_to_free'[s] = NULL /\ \A t \in Strands \ {s} : fiber_to_free'[t] = fiber_to_free[t]
  BY <1>1 DEF IInv, TypeInv
<1>5. fiber_self'[0] = home /\ \A t \in Strands \ {0} : fiber_self'[t] = fiber_self[t]
  BY <1>1, <1>2 DEF IInv, TypeInv
<1>6. TypeInv'
  <2>1. pc' \in [Strands -> {"new", "run", "return", "reduce", "jump", "join",
                             "stalled", "ready", "done"}]
    BY <1>1 DEF IInv, TypeInv
  <2>2. /\ fiber_to_free' \in [Strands -> Fibers \cup {NULL}] /\ fiber_pool' \subseteq Fibers
        /\ fiber_self' \in [Strands -> Fibers \cup {NULL}] /\ fiber_child' \in Fibers \cup {NULL}
    BY <1>1 DEF IInv, TypeInv
  <2>3. unsynched' \in BOOLEAN
    BY <1>1
  <2>4. join_counter' \in Int
    BY <1>1
  <2>5. QED
    BY <1>1, <2>1, <2>2, <2>3, <2>4 DEF IInv, TypeInv
<1>7. Linked' = {} /\ Alive' = {}
  <2>1. \A c \in Children : pc'[c] \in {"new", "done"}
    BY <1>3
  <2>2. QED
    BY <2>1 DEF Linked, Alive
<1>8. StepInv'
  <2>1. \A c \in Children : /\ pc'[c] \notin {"stalled", "ready"}
                            /\ pc'[c] = "new" <=> pc[c] = "new"
    BY <1>1, <1>3
  <2>2. QED
    BY <1>1, <1>3, <1>7, <2>1 DEF IInv, StepInv
<1>9. CountInv'
  <2>1. Cardinality(Alive') = 0 /\ pc'[0] # "stalled"
    BY <1>3, <1>7, FS_EmptySet
  <2>2. join_counter' = 1
    BY <1>1
  <2>3. QED
    BY <2>1, <2>2 DEF CountInv
<1>10. ListInv'
  BY <1>1, <1>2, <1>7 DEF IInv, ListInv
<1>11. HandInv'
  <2>1. \A t \in Strands \ {0} : /\ pc'[t] \in {"new", "done"} /\ fiber_self'[t] = NULL
                                 /\ fiber_to_free'[t] = NULL /\ stack'[t] = NULL
    BY <1>1, <1>3, <1>4, <1>5 DEF IInv, HandInv
  <2>2. /\ pc'[0] = "ready" /\ fiber_self'[0] # NULL /\ fiber_to_free'[0] = NULL /\ stack'[0] = NULL
    <3>1. pc[0] \in {"join", "stalled"}
      BY <1>1, <1>2
    <3>2. QED
      BY <1>1, <1>2, <1>3, <1>4, <1>5, <3>1 DEF IInv, HandInv, TypeInv
  <2>3. QED
    BY <2>1, <2>2 DEF HandInv
<1>12. HomeInv'
  BY <1>1, <1>5 DEF HomeInv
<1>13. UniqueInv' /\ HeldInv'
  <2>1. Freed(s)
    BY <1>1 DEF Freed
  <2>2. fiber_self[0] = NULL
    BY <1>1, <1>2 DEF IInv, HandInv
  <2>3. QED
    BY <1>1, <2>1, <2>2, FreedKeeps
<1>14. QED
  BY <1>6, <1>8, <1>9, <1>10, <1>11, <1>12, <1>13 DEF IInv

-----------------------------------------------------------------------------
(* The invariant *)

LEMMA PostSuspendStep ==
    ASSUME IInv, NEW s \in Strands, NEW l, PostSuspend(s, l),
           l = IF s = 0 THEN "stalled" ELSE "done"
    PROVE  IInv'
  BY JoinStep, LastStep

LEMMA ChildStep == ASSUME IInv, NEW c \in Children, Child(c) PROVE IInv'
<1> USE Facts
<1>1. CASE Return(c) \/ exception_from_spawn(c)
  <2>1. pc[c] = "run" /\ UNCHANGED <<tree, fibers>> /\ Goto(c, "return")
    BY <1>1 DEF Return, exception_from_spawn, Leave
  <2>2. QED
    BY <2>1, LeaveStep
<1>2. CASE FastPath(c)
  <2>1. pc[c] = "return" /\ Finish(c)
    BY <1>2 DEF FastPath
  <2>2. QED
    BY <2>1, FinishStep
<1>3. CASE SlowPath(c)
  <2>1. /\ pc[c] \in {"return", "reduce"}
        /\ Finish(c) \/ (UNCHANGED <<tree, fibers>> /\ Goto(c, "reduce"))
    BY <1>3 DEF SlowPath
  <2>2. QED
    BY <2>1, FinishStep, LeaveStep
<1>4. CASE Jump(c)
  BY <1>4, JumpStep
<1>5. CASE DoReturnFromSpawn(c)
  BY <1>5, PostSuspendStep DEF DoReturnFromSpawn
<1>6. QED
  BY <1>1, <1>2, <1>3, <1>4, <1>5 DEF Child

LEMMA FrameStep == ASSUME IInv, Frame PROVE IInv'
<1> USE Facts
<1>1. CASE SyncReduce
  <2>1. pc[0] = "reduce" /\ UNCHANGED tree /\ (UNCHANGED <<fibers, pc>> \/ Suspend)
    BY <1>1 DEF SyncReduce
  <2>2. QED
    BY <2>1, StayStep, SuspendStep
<1>2. CASE Jump(0)
  BY <1>2, JumpStep
<1>3. CASE DoSync
  BY <1>3, PostSuspendStep DEF DoSync
<1>4. CASE Resume
  BY <1>4, ResumeStep
<1>5. QED
  BY <1>1, <1>2, <1>3, <1>4 DEF Frame

LEMMA NextStep == IInv /\ [Next]_vars => IInv'
<1> SUFFICES ASSUME IInv, [Next]_vars PROVE IInv'
  OBVIOUS
<1> USE Facts
<1>1. CASE Steal
  BY <1>1, StealStep
<1>2. CASE Sync \/ c_sync_except
  <2>1. pc[0] = "run" /\ unsynched /\ UNCHANGED <<tree, fibers>> /\ Goto(0, "reduce")
    BY <1>2 DEF Sync, c_sync_except, Leave
  <2>2. QED
    BY <2>1, LeaveStep
<1>3. CASE CallAgain
  BY <1>3, CallAgainStep
<1>4. CASE \E c \in Children : Child(c)
  BY <1>4, ChildStep
<1>5. CASE Frame
  BY <1>5, FrameStep
<1>6. CASE UNCHANGED vars
  BY <1>6, StayStep DEF vars
<1>7. QED
  BY <1>1, <1>2, <1>3, <1>4, <1>5, <1>6 DEF Next

LEMMA Invariance == Spec => []IInv
  BY InitStep, NextStep, PTL DEF Spec

-----------------------------------------------------------------------------
(* What it says of the fibers *)

LEMMA HeldOnce == ASSUME IInv, NEW f \in Fibers PROVE Cardinality(Holders(f)) = 1
<1> USE Facts
<1>1. \A h : h \in Holders(f) <=>
        \/ \E s \in Strands : fiber_self[s] = f /\ h = <<"self", s>>
        \/ \E s \in Strands : fiber_to_free[s] = f /\ h = <<"free", s>>
        \/ fiber_child = f /\ h = <<"child", 0>>
        \/ f \in fiber_pool /\ h = <<"pool", 0>>
  BY DEF Holders
<1>2. ASSUME NEW h, h \in Holders(f), NEW g, g \in Holders(f) PROVE h = g
  <2>1. CASE f \in fiber_pool
    BY <1>1, <1>2, <2>1 DEF IInv, UniqueInv
  <2>2. CASE f = fiber_child
    BY <1>1, <1>2, <2>2 DEF IInv, UniqueInv
  <2>3. ASSUME NEW s \in Strands, fiber_self[s] = f PROVE h = <<"self", s>> /\ g = <<"self", s>>
    BY <1>1, <1>2, <2>3 DEF IInv, UniqueInv
  <2>4. ASSUME NEW s \in Strands, fiber_to_free[s] = f PROVE h = <<"free", s>> /\ g = <<"free", s>>
    BY <1>1, <1>2, <2>4 DEF IInv, UniqueInv
  <2>5. QED
    BY <1>1, <1>2, <2>1, <2>2, <2>3, <2>4
<1>3. PICK h : h \in Holders(f)
  BY <1>1 DEF IInv, HeldInv
<1>4. Holders(f) = {h}
  BY <1>2, <1>3
<1>5. QED
  BY <1>4, FS_Singleton

\* A worker is on the fiber its strand has, or on one its strand has just let go.
LEMMA StackIs ==
    ASSUME IInv, NEW s \in Strands, stack[s] # NULL
    PROVE  \/ stack[s] = fiber_self[s]
           \/ pc[s] = "jump" /\ stack[s] = fiber_to_free[s]
           \/ pc[s] = "jump" /\ fiber_to_free[s] = NULL /\ stack[s] = fiber_child
  BY DEF IInv, HandInv

LEMMA OwnStack ==
    ASSUME IInv, NEW s \in Strands, NEW t \in Strands \ {s}, stack[s] # NULL
    PROVE  stack[t] # stack[s]
<1> SUFFICES ASSUME stack[t] = stack[s] PROVE FALSE
  OBVIOUS
<1>1. /\ \/ stack[s] = fiber_self[s]
         \/ pc[s] = "jump" /\ stack[s] = fiber_to_free[s]
         \/ pc[s] = "jump" /\ fiber_to_free[s] = NULL /\ stack[s] = fiber_child
      /\ \/ stack[s] = fiber_self[t]
         \/ pc[t] = "jump" /\ stack[s] = fiber_to_free[t]
         \/ pc[t] = "jump" /\ fiber_to_free[t] = NULL /\ stack[s] = fiber_child
  BY StackIs
<1>2. pc[s] = "jump" /\ pc[t] = "jump" => fiber_to_free[s] # NULL \/ fiber_to_free[t] # NULL
  BY DEF IInv, HandInv
<1>3. QED
  BY <1>1, <1>2 DEF IInv, UniqueInv

LEMMA HeldThen == IInv => FibersHeldOnce
<1> SUFFICES ASSUME IInv PROVE FibersHeldOnce
  OBVIOUS
<1>1. ~unsynched => fiber_self[0] = home /\ fiber_child = NULL
  BY DEF IInv, HomeInv
<1>2. \A f \in Fibers : Cardinality(Holders(f)) = 1
  BY HeldOnce
<1>3. ASSUME NEW s \in Strands, stack[s] # NULL
      PROVE  /\ stack[s] \notin fiber_pool /\ \A t \in Strands \ {s} : stack[t] # stack[s]
             /\ pc[s] = "jump" =>
                   stack[s] = IF fiber_to_free[s] # NULL THEN fiber_to_free[s] ELSE fiber_child
  <2>1. stack[s] \notin fiber_pool
    BY <1>3, StackIs DEF IInv, UniqueInv
  <2>2. QED
    BY <1>3, <2>1, OwnStack DEF IInv, HandInv
<1>4. QED
  BY <1>1, <1>2, <1>3 DEF FibersHeldOnce

\* Every fiber has one holder, whatever the order in which children return and
\* the frame comes to its sync; no two workers are on one stack, the stack that
\* longjmp_into_runtime leaves is the one it is on, and a frame that has passed
\* its sync is on the fiber it was called on.
THEOREM FibersHeldOnceTheorem == Spec => []FibersHeldOnce
  BY Invariance, HeldThen, PTL

-----------------------------------------------------------------------------
(* Updates and exceptions from left to right *)

\* What the strands hold, own[c] for the child c and own[0] for the frame, and
\* what is to the right of each child, in the order of the serial execution.
Cells == 0..(2 * N + 1)
Row(own, right) ==
    [i \in Cells |-> IF i = 2 * N + 1 THEN own[0]
                     ELSE IF i % 2 = 0 THEN right[i \div 2] ELSE own[(i + 1) \div 2]]

LEMMA RowIs ==
    ASSUME NEW own, NEW right
    PROVE  /\ 2 * N + 1 \in Cells /\ Row(own, right)[2 * N + 1] = own[0]
           /\ \A s \in Strands : 2 * s \in Cells /\ Row(own, right)[2 * s] = right[s]
           /\ \A c \in Children : 2 * c - 1 \in Cells /\ Row(own, right)[2 * c - 1] = own[c]
  BY Facts, FrameAssumption DEF Row, Cells, Strands, Children

\* Each cell is the frame's own, to the right of a strand, or a child's own.
LEMMA CellIs ==
    ASSUME NEW i \in Cells
    PROVE  \/ i = 2 * N + 1
           \/ \E s \in Strands : i = 2 * s
           \/ \E c \in Children : i = 2 * c - 1
<1> USE FrameAssumption
<1>1. CASE i % 2 = 0
  <2>1. i \div 2 \in Strands /\ i = 2 * (i \div 2)
    BY <1>1 DEF Cells, Strands
  <2>2. QED
    BY <2>1
<1>2. CASE i % 2 # 0 /\ i # 2 * N + 1
  <2>1. (i + 1) \div 2 \in Children /\ i = 2 * ((i + 1) \div 2) - 1
    BY <1>2 DEF Cells, Children
  <2>2. QED
    BY <2>1
<1>3. QED
  BY <1>1, <1>2

\* What is to the left was earlier.
Ordered(A) == \A i, j \in Cells : i < j => \A x \in A[i], y \in A[j] : x < y

\* And what running children will add has its place.
Bounded(A, running, top) ==
    \A i \in Cells : \A x \in A[i] :
        /\ x \in Labels /\ x <= top
        /\ \A c \in running : /\ i < 2 * c - 1 => x < 2 * c
                              /\ i = 2 * c - 1 => x <= 2 * c
                              /\ i > 2 * c - 1 => x > 2 * c

\* Cells i to k are gathered in d.
Gathers(A, B, i, k, d) ==
    /\ i \in Cells /\ k \in Cells /\ d \in Cells /\ i <= d /\ d <= k
    /\ \A j \in Cells : j # d => B[j] \subseteq A[j]
    /\ \A j \in Cells : j # d /\ i <= j /\ j <= k => B[j] = {}
    /\ \A x \in B[d] : \E j \in Cells : i <= j /\ j <= k /\ x \in A[j]

LEMMA GathersOrder ==
    ASSUME NEW A, NEW B, NEW i, NEW k, NEW d, Gathers(A, B, i, k, d), Ordered(A),
           \A j \in Cells : A[j] \subseteq Int
    PROVE  Ordered(B)
<1> SUFFICES ASSUME NEW p \in Cells, NEW q \in Cells, p < q, NEW x \in B[p], NEW y \in B[q]
             PROVE  x < y
  BY DEF Ordered
<1>1. p \in Int /\ q \in Int /\ i \in Int /\ k \in Int /\ d \in Int
  BY DEF Gathers, Cells
<1>2. CASE p = d
  <2>1. PICK j \in Cells : i <= j /\ j <= k /\ x \in A[j]
    BY <1>2 DEF Gathers
  <2>2. y \in A[q] /\ ~(i <= q /\ q <= k)
    BY <1>1, <1>2 DEF Gathers
  <2>3. j < q /\ j \in Int
    BY <1>1, <1>2, <2>1, <2>2 DEF Gathers, Cells
  <2>4. QED
    BY <2>1, <2>2, <2>3 DEF Ordered
<1>3. CASE q = d
  <2>1. PICK j \in Cells : i <= j /\ j <= k /\ y \in A[j]
    BY <1>3 DEF Gathers
  <2>2. x \in A[p] /\ ~(i <= p /\ p <= k)
    BY <1>1, <1>3 DEF Gathers
  <2>3. p < j /\ j \in Int
    BY <1>1, <1>3, <2>1, <2>2 DEF Gathers, Cells
  <2>4. QED
    BY <2>1, <2>2, <2>3 DEF Ordered
<1>4. CASE p # d /\ q # d
  BY <1>4 DEF Gathers, Ordered
<1>5. QED
  BY <1>2, <1>3, <1>4

LEMMA GathersBound ==
    ASSUME NEW A, NEW B, NEW i, NEW k, NEW d, Gathers(A, B, i, k, d),
           NEW running, NEW run \in SUBSET running, NEW top, Bounded(A, running, top),
           \A c \in run : c \in Int /\ ~(i <= 2 * c - 1 /\ 2 * c - 1 <= k)
    PROVE  Bounded(B, run, top)
<1> SUFFICES ASSUME NEW p \in Cells, NEW x \in B[p]
             PROVE  /\ x \in Labels /\ x <= top
                    /\ \A c \in run : /\ p < 2 * c - 1 => x < 2 * c
                                      /\ p = 2 * c - 1 => x <= 2 * c
                                      /\ p > 2 * c - 1 => x > 2 * c
  BY DEF Bounded
<1>1. p \in Int /\ i \in Int /\ k \in Int /\ d \in Int /\ i <= d /\ d <= k
  BY DEF Gathers, Cells
<1>2. PICK j \in Cells : x \in A[j] /\ (j = p \/ (p = d /\ i <= j /\ j <= k))
  BY DEF Gathers
<1>3. j \in Int
  BY DEF Cells
<1>4. x \in Labels /\ x <= top
  BY <1>2 DEF Bounded
<1>5. ASSUME NEW c \in run
      PROVE  /\ p < 2 * c - 1 => x < 2 * c
             /\ p = 2 * c - 1 => x <= 2 * c
             /\ p > 2 * c - 1 => x > 2 * c
  <2>1. /\ j < 2 * c - 1 => x < 2 * c
        /\ j = 2 * c - 1 => x <= 2 * c
        /\ j > 2 * c - 1 => x > 2 * c
    BY <1>2 DEF Bounded
  <2>2. c \in Int /\ ~(i <= 2 * c - 1 /\ 2 * c - 1 <= k)
    OBVIOUS
  <2>3. QED
    BY <1>1, <1>2, <1>3, <2>1, <2>2
<1>6. QED
  BY <1>4, <1>5

-----------------------------------------------------------------------------
(* Reducer maps *)

Increasing(m) == \A i, j \in DOMAIN m : i < j => m[i] < m[j]
Parts(M) == [i \in Cells |-> Range(M[i])]
All(A) == UNION {A[i] : i \in Cells}

\* Each map, and the maps from left to right, are in serial order.
Sorted(M, running, top) ==
    /\ M \in [Cells -> Seq(Labels)]
    /\ \A i \in Cells : Increasing(M[i])
    /\ Ordered(Parts(M)) /\ Bounded(Parts(M), running, top)

LEMMA LabelsAre == Labels \subseteq Int /\ Labels # {}
  BY FrameAssumption DEF Labels

LEMMA ConcatIncreases ==
    ASSUME NEW s \in Seq(Labels), NEW t \in Seq(Labels), Increasing(s), Increasing(t),
           \A x \in Range(s), y \in Range(t) : x < y
    PROVE  Increasing(s \o t)
<1>1. /\ Len(s) \in Nat /\ Len(t) \in Nat /\ DOMAIN s = 1..Len(s) /\ DOMAIN t = 1..Len(t)
  BY LenProperties
<1>2. s \o t \in Seq(Labels) /\ Len(s \o t) = Len(s) + Len(t)
  BY ConcatProperties
<1>3. DOMAIN (s \o t) = 1..(Len(s) + Len(t))
  BY <1>2, LenProperties
<1>4. /\ \A i \in 1..Len(s) : (s \o t)[i] = s[i] /\ s[i] \in Range(s)
      /\ \A i \in 1..(Len(s) + Len(t)) : i > Len(s) =>
            i - Len(s) \in 1..Len(t) /\ (s \o t)[i] = t[i - Len(s)] /\ t[i - Len(s)] \in Range(t)
  <2>1. \A i \in 1..(Len(s) + Len(t)) : (s \o t)[i] = IF i <= Len(s) THEN s[i] ELSE t[i - Len(s)]
    BY ConcatProperties
  <2>2. (\A i \in 1..Len(s) : s[i] \in Range(s)) /\ (\A i \in 1..Len(t) : t[i] \in Range(t))
    BY <1>1 DEF Range
  <2>3. ASSUME NEW i \in 1..(Len(s) + Len(t))
        PROVE  IF i <= Len(s) THEN i \in 1..Len(s) ELSE i > Len(s) /\ i - Len(s) \in 1..Len(t)
    BY <1>1
  <2>4. \A i \in 1..Len(s) : i \in 1..(Len(s) + Len(t)) /\ i <= Len(s) /\ ~(i > Len(s))
    BY <1>1
  <2>5. QED
    BY <2>1, <2>2, <2>3, <2>4
<1> SUFFICES ASSUME NEW i \in 1..(Len(s) + Len(t)), NEW j \in 1..(Len(s) + Len(t)), i < j
             PROVE  (s \o t)[i] < (s \o t)[j]
  BY <1>3 DEF Increasing
<1>5. CASE j <= Len(s)
  BY <1>1, <1>4, <1>5 DEF Increasing
<1>6. CASE i <= Len(s) /\ j > Len(s)
  BY <1>1, <1>4, <1>6
<1>7. CASE i > Len(s)
  <2>1. PICK a, b : a = i - Len(s) /\ b = j - Len(s)
    OBVIOUS
  <2>2. j > Len(s) /\ a < b
    BY <1>1, <1>7, <2>1
  <2>3. a \in DOMAIN t /\ b \in DOMAIN t /\ (s \o t)[i] = t[a] /\ (s \o t)[j] = t[b]
    BY <1>1, <1>4, <1>7, <2>1, <2>2
  <2>4. QED
    BY <2>2, <2>3 DEF Increasing
<1>8. QED
  BY <1>1, <1>5, <1>6, <1>7

LEMMA AppendIncreases ==
    ASSUME NEW s \in Seq(Labels), Increasing(s), NEW x \in Labels, \A y \in Range(s) : y < x
    PROVE  /\ Append(s, x) \in Seq(Labels) /\ Increasing(Append(s, x))
           /\ Range(Append(s, x)) = Range(s) \cup {x}
<1>1. PICK t : t = <<x>>
  OBVIOUS
<1>2. Append(s, x) = s \o t /\ t \in Seq(Labels) /\ Range(t) = {x}
  BY <1>1, AppendIsConcat, RangeEquality DEF Range
<1>3. Increasing(t)
  BY <1>1, LabelsAre DEF Increasing
<1>4. Increasing(s \o t)
  <2>1. \A y \in Range(s), z \in Range(t) : y < z
    BY <1>2
  <2>2. QED
    BY <1>2, <1>3, <2>1, ConcatIncreases
<1>5. s \o t \in Seq(Labels) /\ Range(s \o t) = Range(s) \cup {x}
  BY <1>2, ConcatProperties, RangeConcatenation
<1>6. QED
  BY <1>2, <1>4, <1>5

LEMMA EmptyMap == <<>> \in Seq(Labels) /\ Range(<<>>) = {} /\ Increasing(<<>>)
  BY DEF Range, Increasing

\* Two maps, with nothing between them, are merged in the place of one of them.
Merges(M, M2, i, k, d) ==
    /\ M2 \in [Cells -> Seq(Labels)]
    /\ i \in Cells /\ k \in Cells /\ i < k /\ d \in {i, k}
    /\ M2[d] = M[i] \o M[k] /\ M2[i + k - d] = <<>>
    /\ \A j \in Cells \ {i, k} : M2[j] = M[j] /\ (i < j /\ j < k => M[j] = <<>>)

LEMMA MergesSorted ==
    ASSUME NEW M, NEW M2, NEW i, NEW k, NEW d, NEW running, NEW run \in SUBSET running, NEW top,
           Sorted(M, running, top), Merges(M, M2, i, k, d),
           \A c \in run : c \in Int /\ ~(i <= 2 * c - 1 /\ 2 * c - 1 <= k)
    PROVE  Sorted(M2, run, top) /\ All(Parts(M2)) = All(Parts(M))
<1>1. /\ i \in Cells /\ k \in Cells /\ d \in Cells /\ i \in Int /\ k \in Int /\ i < k /\ d \in {i, k}
      /\ \A j \in Cells : j \in Int
  BY DEF Merges, Cells
<1>2. /\ M[i] \in Seq(Labels) /\ M[k] \in Seq(Labels)
      /\ Increasing(M[i]) /\ Increasing(M[k])
      /\ \A x \in Range(M[i]), y \in Range(M[k]) : x < y
  BY <1>1 DEF Sorted, Ordered, Parts
<1>3. Increasing(M2[d]) /\ Range(M2[d]) = Range(M[i]) \cup Range(M[k])
  BY <1>2, ConcatIncreases, RangeConcatenation DEF Merges
<1>4. \A j \in Cells \ {i, k} : M2[j] = M[j] /\ (i < j /\ j < k => M2[j] = <<>>)
  BY DEF Merges
<1>5. \A j \in Cells : j \in {i, k} /\ j # d => M2[j] = <<>>
  <2>1. \A j \in {i, k} : j # d => j = i + k - d
    BY <1>1
  <2>2. QED
    BY <2>1 DEF Merges
<1>6. \A j \in Cells : Increasing(M2[j])
  <2>1. \A j \in Cells : Increasing(M[j])
    BY DEF Sorted
  <2>2. QED
    BY <1>3, <1>4, <1>5, <2>1, EmptyMap
<1>7. Gathers(Parts(M), Parts(M2), i, k, d)
  <2>1. \A j \in Cells : Parts(M)[j] = Range(M[j]) /\ Parts(M2)[j] = Range(M2[j])
    BY DEF Parts
  <2>2. \A j \in Cells : j # d => Range(M2[j]) \subseteq Range(M[j])
    BY <1>4, <1>5, EmptyMap
  <2>3. \A j \in Cells : j # d /\ i <= j /\ j <= k => Range(M2[j]) = {}
    BY <1>1, <1>4, <1>5, EmptyMap
  <2>4. \A x \in Range(M2[d]) : \E j \in Cells : i <= j /\ j <= k /\ x \in Range(M[j])
    BY <1>1, <1>3
  <2>5. i <= d /\ d <= k
    BY <1>1
  <2>6. QED
    BY <1>1, <2>1, <2>2, <2>3, <2>4, <2>5 DEF Gathers
<1>8. \A j \in Cells : Parts(M)[j] \subseteq Int
  BY LabelsAre, RangeOfSeq DEF Sorted, Parts
<1>9. Ordered(Parts(M2)) /\ Bounded(Parts(M2), run, top)
  BY <1>7, <1>8, GathersOrder, GathersBound DEF Sorted
<1>10. All(Parts(M2)) = All(Parts(M))
  <2>1. ASSUME NEW x, NEW j \in Cells, x \in Range(M2[j]) PROVE \E p \in Cells : x \in Range(M[p])
    BY <1>1, <1>3, <1>4, <1>5, <2>1, EmptyMap
  <2>2. ASSUME NEW x, NEW j \in Cells, x \in Range(M[j]) PROVE \E p \in Cells : x \in Range(M2[p])
    BY <1>1, <1>3, <1>4, <1>5, <2>2, EmptyMap
  <2>3. QED
    BY <2>1, <2>2 DEF All, Parts
<1>11. QED
  BY <1>6, <1>9, <1>10 DEF Sorted, Merges

\* An update is added in cell i, where it belongs.
Adds(M, M2, i, x, running, top) ==
    /\ i \in Cells /\ x \in Labels /\ x <= top
    /\ M2 = [M EXCEPT ![i] = Append(M[i], x)]
    /\ \A j \in Cells : \A y \in Range(M[j]) : IF j <= i THEN y < x ELSE x < y
    /\ \A c \in running : /\ i < 2 * c - 1 => x < 2 * c
                          /\ i = 2 * c - 1 => x <= 2 * c
                          /\ i > 2 * c - 1 => x > 2 * c

LEMMA AddSorted ==
    ASSUME NEW M, NEW M2, NEW i, NEW x, NEW running, NEW top, Sorted(M, running, top),
           Adds(M, M2, i, x, running, top)
    PROVE  Sorted(M2, running, top) /\ All(Parts(M2)) = All(Parts(M)) \cup {x}
<1> USE DEF Adds
<1>1. M \in [Cells -> Seq(Labels)] /\ i \in Int /\ x \in Int /\ \A j \in Cells : j \in Int
  BY LabelsAre DEF Sorted, Cells
<1>2. M2[i] = Append(M[i], x) /\ \A j \in Cells \ {i} : M2[j] = M[j]
  BY <1>1
<1>3. /\ Append(M[i], x) \in Seq(Labels) /\ Increasing(Append(M[i], x))
      /\ Range(M2[i]) = Range(M[i]) \cup {x}
  <2>1. M[i] \in Seq(Labels) /\ Increasing(M[i]) /\ \A y \in Range(M[i]) : y < x
    BY <1>1 DEF Sorted
  <2>2. QED
    BY <1>2, <2>1, AppendIncreases
<1>4. M2 \in [Cells -> Seq(Labels)]
  BY <1>1, <1>3
<1>5. \A j \in Cells : Increasing(M2[j])
  BY <1>2, <1>3 DEF Sorted
<1>6. \A j \in Cells : \A y \in Range(M2[j]) : y \in Range(M[j]) \/ (j = i /\ y = x)
  BY <1>2, <1>3
<1>7. \A j, k \in Cells : j < k => \A y \in Range(M[j]), z \in Range(M[k]) : y < z
  BY DEF Sorted, Ordered, Parts
<1>8. Ordered(Parts(M2))
  <2> SUFFICES ASSUME NEW j \in Cells, NEW k \in Cells, j < k,
                      NEW y \in Range(M2[j]), NEW z \in Range(M2[k])
               PROVE  y < z
    BY DEF Ordered, Parts
  <2>1. CASE y \in Range(M[j]) /\ z \in Range(M[k])
    BY <1>7, <2>1
  <2>2. CASE j = i /\ y = x /\ z \in Range(M[k])
    BY <1>1, <2>2
  <2>3. CASE k = i /\ z = x /\ y \in Range(M[j])
    BY <1>1, <2>3
  <2>4. QED
    BY <1>1, <1>6, <2>1, <2>2, <2>3
<1>9. Bounded(Parts(M2), running, top)
  <2> SUFFICES ASSUME NEW j \in Cells, NEW y \in Range(M2[j])
               PROVE  /\ y \in Labels /\ y <= top
                      /\ \A c \in running : /\ j < 2 * c - 1 => y < 2 * c
                                            /\ j = 2 * c - 1 => y <= 2 * c
                                            /\ j > 2 * c - 1 => y > 2 * c
    BY DEF Bounded, Parts
  <2>1. CASE y \in Range(M[j])
    BY <2>1 DEF Sorted, Bounded, Parts
  <2>2. CASE j = i /\ y = x
    BY <2>2
  <2>3. QED
    BY <1>6, <2>1, <2>2
<1>10. All(Parts(M2)) = All(Parts(M)) \cup {x}
  <2>1. \A j \in Cells : Parts(M)[j] = Range(M[j]) /\ Parts(M2)[j] = Range(M2[j])
    BY DEF Parts
  <2>2. \A j \in Cells \ {i} : Range(M2[j]) = Range(M[j])
    BY <1>2
  <2>3. \A z : z \in All(Parts(M2)) <=> \E j \in Cells : z \in Range(M2[j])
    BY <2>1 DEF All
  <2>4. \A z : z \in All(Parts(M)) <=> \E j \in Cells : z \in Range(M[j])
    BY <2>1 DEF All
  <2>5. \A z : z \in All(Parts(M2)) <=> z \in All(Parts(M)) \/ z = x
    BY <1>3, <2>2, <2>3, <2>4
  <2>6. QED
    BY <2>5
<1>11. QED
  BY <1>4, <1>5, <1>8, <1>9, <1>10 DEF Sorted

\* Three maps, in neighbouring cells but for empty ones.
MergesAll(M, M2, i, j, k, d) ==
    /\ M2 \in [Cells -> Seq(Labels)]
    /\ i \in Cells /\ j \in Cells /\ k \in Cells /\ i < j /\ j < k /\ d \in {i, j}
    /\ M2[d] = M[i] \o M[j] \o M[k] /\ \A p \in {i, j, k} \ {d} : M2[p] = <<>>
    /\ \A p \in Cells \ {i, j, k} : M2[p] = M[p] /\ (i < p /\ p < k => M[p] = <<>>)

LEMMA MergesAllSorted ==
    ASSUME NEW M, NEW M2, NEW i, NEW j, NEW k, NEW d, NEW running, NEW top,
           Sorted(M, running, top), MergesAll(M, M2, i, j, k, d),
           \A c \in running : c \in Int /\ ~(i <= 2 * c - 1 /\ 2 * c - 1 <= k)
    PROVE  Sorted(M2, running, top) /\ All(Parts(M2)) = All(Parts(M))
<1>0. /\ i \in Cells /\ j \in Cells /\ k \in Cells /\ d \in {i, j} /\ i < j /\ j < k
      /\ M2 \in [Cells -> Seq(Labels)] /\ M2[d] = M[i] \o M[j] \o M[k]
      /\ \A p \in {i, j, k} \ {d} : M2[p] = <<>>
      /\ \A p \in Cells \ {i, j, k} : M2[p] = M[p] /\ (i < p /\ p < k => M[p] = <<>>)
  BY DEF MergesAll
<1> USE <1>0
<1>1. i \in Int /\ j \in Int /\ k \in Int /\ d \in Cells /\ \A p \in Cells : p \in Int
  BY DEF Cells
<1>2. M \in [Cells -> Seq(Labels)] /\ M[i] \o M[j] \in Seq(Labels)
  BY ConcatProperties DEF Sorted
<1>3. PICK M1 : M1 = [p \in Cells |-> IF p = d THEN M[i] \o M[j] ELSE IF p \in {i, j} THEN <<>> ELSE M[p]]
  OBVIOUS
<1>4. M1 \in [Cells -> Seq(Labels)]
  BY <1>2, <1>3, EmptyMap
<1>5. /\ M1[d] = M[i] \o M[j] /\ M1[i + j - d] = <<>>
      /\ \A p \in Cells \ {i, j} : M1[p] = M[p]
  <2>1. i + j - d \in {i, j} /\ i + j - d # d
    BY <1>1
  <2>2. QED
    BY <1>1, <1>3, <2>1
<1>6. Merges(M, M1, i, j, d)
  <2>1. \A p \in Cells \ {i, j} : i < p /\ p < j => M[p] = <<>>
    BY <1>1
  <2>2. QED
    BY <1>4, <1>5, <2>1 DEF Merges
<1>7. Sorted(M1, running, top) /\ All(Parts(M1)) = All(Parts(M))
  <2>1. \A c \in running : c \in Int /\ ~(i <= 2 * c - 1 /\ 2 * c - 1 <= j)
    BY <1>1
  <2>2. QED
    BY <1>6, <2>1, MergesSorted
<1>8. Merges(M1, M2, d, k, d)
  <2>1. d \in Cells /\ d < k /\ M2[d + k - d] = <<>> /\ d + k - d = k
    BY <1>1
  <2>2. M2[d] = M1[d] \o M1[k]
    <3>1. M1[k] = M[k]
      BY <1>1, <1>5
    <3>2. QED
      BY <1>5, <3>1
  <2>3. ASSUME NEW p \in Cells \ {d, k} PROVE M2[p] = M1[p] /\ (d < p /\ p < k => M1[p] = <<>>)
    <3>1. CASE p \in {i, j}
      BY <1>3, <3>1
    <3>2. CASE p \notin {i, j}
      <4>1. M1[p] = M[p] /\ M2[p] = M[p] /\ (i < p /\ p < k => M[p] = <<>>)
        BY <1>5, <3>2
      <4>2. d < p => i < p
        <5>1. i \in Int /\ j \in Int /\ p \in Int /\ i < j /\ d \in {i, j}
          BY <1>1
        <5>2. QED
          BY ONLY <5>1
      <4>3. QED
        BY <4>1, <4>2
    <3>3. QED
      BY <3>1, <3>2
  <2>4. M2 \in [Cells -> Seq(Labels)] /\ k \in Cells
    OBVIOUS
  <2>5. QED
    BY <2>1, <2>2, <2>3, <2>4 DEF Merges
<1>9. QED
  <2>1. \A c \in running : c \in Int /\ ~(d <= 2 * c - 1 /\ 2 * c - 1 <= k)
    BY <1>1
  <2>2. running \in SUBSET running
    OBVIOUS
  <2>3. PICK a : a = d
    OBVIOUS
  <2>4. /\ Sorted(M1, running, top) /\ Merges(M1, M2, a, k, d)
        /\ \A c \in running : c \in Int /\ ~(a <= 2 * c - 1 /\ 2 * c - 1 <= k)
    BY ONLY <1>7, <1>8, <2>1, <2>3
  <2>5. Sorted(M2, running, top) /\ All(Parts(M2)) = All(Parts(M1))
    BY ONLY <2>2, <2>4, MergesSorted
  <2>6. QED
    BY <1>7, <2>5

LEMMA SortedLess ==
    ASSUME NEW M, NEW running, NEW run \in SUBSET running, NEW top, Sorted(M, running, top)
    PROVE  Sorted(M, run, top)
  BY DEF Sorted, Bounded

\* The cell of what strand s holds.
Place(s) == IF s = 0 THEN 2 * N + 1 ELSE 2 * s - 1

LEMMA PlaceIs ==
    /\ \A s \in Strands : Place(s) \in Cells
    /\ \A s, t \in Strands : Place(s) # 2 * t /\ (Place(s) = Place(t) => s = t)
    /\ \A i \in Cells : \E s \in Strands : i = Place(s) \/ i = 2 * s
    /\ \A own, right : \A s \in Strands :
          2 * s \in Cells /\ Row(own, right)[Place(s)] = own[s] /\ Row(own, right)[2 * s] = right[s]
<1> USE Facts
<1>1. \A s \in Strands : Place(s) \in Cells
  BY RowIs DEF Place
<1>2. \A s, t \in Strands : Place(s) # 2 * t /\ (Place(s) = Place(t) => s = t)
  BY DEF Place, Strands
<1>3. \A i \in Cells : \E s \in Strands : i = Place(s) \/ i = 2 * s
  BY CellIs DEF Place
<1>4. \A own, right : \A s \in Strands :
          2 * s \in Cells /\ Row(own, right)[Place(s)] = own[s] /\ Row(own, right)[2 * s] = right[s]
  BY RowIs DEF Place
<1>5. QED
  BY <1>1, <1>2, <1>3, <1>4

LEMMA RowEqual ==
    ASSUME NEW R, R = [i \in Cells |-> R[i]], NEW own, NEW right,
           \A s \in Strands : R[Place(s)] = own[s] /\ R[2 * s] = right[s]
    PROVE  R = Row(own, right)
<1>1. \A i \in Cells : R[i] = Row(own, right)[i]
  BY PlaceIs
<1>2. Row(own, right) = [i \in Cells |-> Row(own, right)[i]]
  BY DEF Row
<1>3. QED
  BY <1>1, <1>2

LEMMA RowType ==
    ASSUME NEW S, NEW own \in [Strands -> S], NEW right \in [Strands -> S]
    PROVE  Row(own, right) \in [Cells -> S]
<1>1. \A i \in Cells : Row(own, right)[i] \in S
  BY PlaceIs
<1>2. Row(own, right) = [i \in Cells |-> Row(own, right)[i]]
  BY DEF Row
<1>3. QED
  BY <1>1, <1>2

-----------------------------------------------------------------------------
(* The maps of a frame *)

Running == {c \in Children : pc[c] = "run"}
Maps == Row(reducer_map, slot)

MapInv ==
    /\ reducer_map \in [Strands -> Seq(Labels)] /\ slot \in [Strands -> Seq(Labels)]
    /\ Sorted(Maps, Running, 2 * spawned + 1)
    /\ updates = All(Parts(Maps))

\* Who has left has nothing.
ClearInv ==
    /\ \A c \in Children \ Linked : reducer_map[c] = <<>> /\ slot[c] = <<>>
    /\ pc[0] \notin {"run", "reduce"} => reducer_map[0] = <<>>
    /\ ~unsynched /\ pc[0] = "run" => slot[0] = <<>>

\* All that is known of cell i when nothing has changed but in cells of S.
LEMMA MapsIs ==
    ASSUME MapInv
    PROVE  /\ Maps \in [Cells -> Seq(Labels)]
           /\ \A s \in Strands : Maps[Place(s)] = reducer_map[s] /\ Maps[2 * s] = slot[s]
<1>1. Row(reducer_map, slot) \in [Cells -> Seq(Labels)]
  BY RowType DEF MapInv
<1>2. QED
  BY <1>1, PlaceIs DEF Maps

LEMMA MapsThen ==
    ASSUME reducer_map' \in [Strands -> Seq(Labels)], slot' \in [Strands -> Seq(Labels)]
    PROVE  /\ Maps' \in [Cells -> Seq(Labels)]
           /\ \A s \in Strands : Maps'[Place(s)] = reducer_map'[s] /\ Maps'[2 * s] = slot'[s]
<1>1. Row(reducer_map', slot') \in [Cells -> Seq(Labels)]
  BY RowType
<1>2. \A s \in Strands : /\ Row(reducer_map', slot')[Place(s)] = reducer_map'[s]
                         /\ Row(reducer_map', slot')[2 * s] = slot'[s]
  BY PlaceIs
<1>3. QED
  BY <1>1, <1>2 DEF Maps, Row

LEMMA NoMapBetween ==
    ASSUME MapInv, ClearInv, NEW l \in Strands, NEW k \in Int,
           \A x \in Linked : ~(l < x /\ 2 * x - 1 < k), NEW j \in Cells, 2 * l < j, j < k, j # 2 * N + 1
    PROVE  Maps[j] = <<>>
<1> USE Facts
<1>1. PICK s \in Strands : j = Place(s) \/ j = 2 * s
  BY PlaceIs
<1>2. s \in Children \ Linked
  BY <1>1 DEF Place
<1>3. QED
  BY <1>1, <1>2, MapsIs DEF ClearInv

\* What the code that a strand is in may add has its place.
LEMMA LabelFits ==
    ASSUME IInv, NEW s \in Strands, pc[s] = "run", NEW S, Bounded(S, Running, 2 * spawned + 1),
           \A j \in Cells : Label(s) \notin S[j]
    PROVE  /\ Label(s) \in Labels /\ Label(s) <= 2 * spawned + 1
           /\ \A j \in Cells : \A y \in S[j] : IF j <= Place(s) THEN y < Label(s) ELSE Label(s) < y
           /\ \A c \in Running : /\ Place(s) < 2 * c - 1 => Label(s) < 2 * c
                                 /\ Place(s) = 2 * c - 1 => Label(s) <= 2 * c
                                 /\ Place(s) > 2 * c - 1 => Label(s) > 2 * c
<1> USE Facts
<1>1. spawned \in Strands
  BY DEF IInv, TypeInv
<1>2. \A c \in Running : c \in Children /\ c <= spawned /\ pc[c] = "run"
  BY <1>1 DEF Running, IInv, StepInv
<1>3. s # 0 => s \in Running /\ s <= spawned
  BY <1>2 DEF Running
<1>4. Label(s) \in Labels /\ Label(s) <= 2 * spawned + 1
  BY <1>1, <1>3, FrameAssumption DEF Label, Labels, Strands, Children
<1>5. \A j \in Cells : \A y \in S[j] :
         /\ y \in Labels /\ y <= 2 * spawned + 1 /\ y # Label(s)
         /\ \A c \in Running : /\ j < 2 * c - 1 => y < 2 * c
                               /\ j = 2 * c - 1 => y <= 2 * c
                               /\ j > 2 * c - 1 => y > 2 * c
  BY DEF Bounded
<1>6. ASSUME NEW j \in Cells, NEW y \in S[j]
      PROVE  IF j <= Place(s) THEN y < Label(s) ELSE Label(s) < y
  <2>1. j \in Int /\ j <= 2 * N + 1 /\ y \in Int
    <3>1. y \in Labels
      BY <1>5
    <3>2. QED
      BY <3>1, LabelsAre DEF Cells
  <2>2. CASE s = 0
    BY <1>1, <1>5, <2>1, <2>2 DEF Label, Place
  <2>3. CASE s # 0
    <3>1. Place(s) = 2 * s - 1 /\ Label(s) = 2 * s /\ s \in Running /\ s \in Int
      BY <1>3, <2>3 DEF Label, Place
    <3>2. /\ j < 2 * s - 1 => y < 2 * s
          /\ j = 2 * s - 1 => y <= 2 * s
          /\ j > 2 * s - 1 => y > 2 * s
          /\ y # 2 * s
      BY <1>5, <3>1
    <3>3. QED
      BY <2>1, <3>1, <3>2
  <2>4. QED
    BY <2>2, <2>3
<1>7. \A c \in Running : /\ Place(s) < 2 * c - 1 => Label(s) < 2 * c
                         /\ Place(s) = 2 * c - 1 => Label(s) <= 2 * c
                         /\ Place(s) > 2 * c - 1 => Label(s) > 2 * c
  BY <1>1, <1>2 DEF Place, Label, Strands, Children
<1>8. QED
  BY <1>4, <1>6, <1>7

\* The updates of the code that the strand leaves.
LEMMA UpdateSorted ==
    ASSUME IInv, MapInv, NEW s \in Strands, pc[s] = "run", NEW u \in Updating(s), Updates(s, u)
    PROVE  LET M == [Maps EXCEPT ![Place(s)] = UpdatedMap(s, u)] IN
           /\ M \in [Cells -> Seq(Labels)] /\ UpdatedMap(s, u) \in Seq(Labels)
           /\ Sorted(M, Running, 2 * spawned + 1) /\ updates' = All(Parts(M))
<1> DEFINE M == [Maps EXCEPT ![Place(s)] = UpdatedMap(s, u)]
<1> USE Facts
<1>1. /\ Maps \in [Cells -> Seq(Labels)] /\ Maps[Place(s)] = reducer_map[s] /\ Place(s) \in Cells
      /\ spawned \in Strands /\ reducer_map[s] \in Seq(Labels)
  BY MapsIs, PlaceIs DEF IInv, TypeInv, MapInv
<1>2. CASE ~u
  <2>1. M = Maps /\ UpdatedMap(s, u) = reducer_map[s] /\ updates' = updates
    BY <1>1, <1>2 DEF UpdatedMap, Updates
  <2>2. QED
    BY <1>1, <2>1 DEF MapInv
<1>3. CASE u
  <2>1. Label(s) \notin updates
    BY <1>3 DEF Updating
  <2>2. /\ UpdatedMap(s, u) = Append(Maps[Place(s)], Label(s)) /\ updates' = updates \cup {Label(s)}
    BY <1>1, <1>3 DEF UpdatedMap, Updates
  <2>3. /\ Label(s) \in Labels /\ Label(s) <= 2 * spawned + 1
        /\ \A j \in Cells : \A y \in Parts(Maps)[j] : IF j <= Place(s) THEN y < Label(s) ELSE Label(s) < y
        /\ \A c \in Running : /\ Place(s) < 2 * c - 1 => Label(s) < 2 * c
                              /\ Place(s) = 2 * c - 1 => Label(s) <= 2 * c
                              /\ Place(s) > 2 * c - 1 => Label(s) > 2 * c
    <3>1. \A j \in Cells : Label(s) \notin Parts(Maps)[j]
      BY <2>1 DEF MapInv, All
    <3>2. Bounded(Parts(Maps), Running, 2 * spawned + 1)
      BY DEF MapInv, Sorted
    <3>3. QED
      BY <3>1, <3>2, LabelFits
  <2>4. \A j \in Cells : \A y \in Range(Maps[j]) : IF j <= Place(s) THEN y < Label(s) ELSE Label(s) < y
    BY <2>3 DEF Parts
  <2>5. Sorted(M, Running, 2 * spawned + 1) /\ All(Parts(M)) = updates \cup {Label(s)}
    <3>1. Sorted(Maps, Running, 2 * spawned + 1) /\ updates = All(Parts(Maps))
      BY DEF MapInv
    <3>2. QED
      <4>1. M = [Maps EXCEPT ![Place(s)] = Append(Maps[Place(s)], Label(s))]
        BY <2>2
      <4> HIDE DEF M
      <4>2. PICK i, x, top : i = Place(s) /\ x = Label(s) /\ top = 2 * spawned + 1
        OBVIOUS
      <4>3. /\ i \in Cells /\ x \in Labels /\ x <= top /\ Sorted(Maps, Running, top)
            /\ M = [Maps EXCEPT ![i] = Append(Maps[i], x)]
        BY <1>1, <2>3, <3>1, <4>1, <4>2
      <4>4. /\ \A j \in Cells : \A y \in Range(Maps[j]) : IF j <= i THEN y < x ELSE x < y
            /\ \A c \in Running : /\ i < 2 * c - 1 => x < 2 * c
                                  /\ i = 2 * c - 1 => x <= 2 * c
                                  /\ i > 2 * c - 1 => x > 2 * c
        BY <2>3, <2>4, <4>2
      <4>5. Sorted(M, Running, top) /\ All(Parts(M)) = All(Parts(Maps)) \cup {x}
        <5>1. Adds(Maps, M, i, x, Running, top)
          BY <4>3, <4>4 DEF Adds
        <5>2. QED
          BY <4>3, <5>1, AddSorted
      <4>6. QED
        BY <3>1, <4>2, <4>5
  <2>6. UpdatedMap(s, u) \in Seq(Labels)
    BY <1>1, <2>2, <2>3, AppendProperties
  <2>7. QED
    BY <1>1, <2>2, <2>5, <2>6
<1>4. QED
  BY <1>2, <1>3 DEF Updating

-----------------------------------------------------------------------------
(* What the steps do to the maps *)

LEMMA LeaveMaps ==
    ASSUME IInv, MapInv, ClearInv, NEW s \in Strands, Leave(s), NEW l \in {"return", "reduce"},
           Goto(s, l), s = 0 => l = "reduce"
    PROVE  MapInv' /\ ClearInv'
<1> USE Facts
<1>1. /\ pc[s] = "run" /\ slot' = slot /\ spawned' = spawned /\ unsynched' = unsynched
      /\ pc'[s] = l /\ \A t \in Strands \ {s} : pc'[t] = pc[t]
  BY GotoIs DEF Leave, tree, IInv
<1>2. PICK u \in Updating(s) : Updates(s, u) /\ reducer_map' = [reducer_map EXCEPT ![s] = UpdatedMap(s, u)]
  BY DEF Leave
<1>3. PICK M : M = [Maps EXCEPT ![Place(s)] = UpdatedMap(s, u)]
  OBVIOUS
<1>4. /\ M \in [Cells -> Seq(Labels)] /\ UpdatedMap(s, u) \in Seq(Labels)
      /\ Sorted(M, Running, 2 * spawned + 1) /\ updates' = All(Parts(M))
  BY <1>1, <1>2, <1>3, UpdateSorted
<1>5. reducer_map' \in [Strands -> Seq(Labels)] /\ slot' \in [Strands -> Seq(Labels)]
  BY <1>1, <1>2, <1>4 DEF MapInv
<1>6. Maps' = M
  <2>1. ASSUME NEW t \in Strands PROVE M[Place(t)] = reducer_map'[t] /\ M[2 * t] = slot'[t]
    <3>1. Maps[Place(t)] = reducer_map[t] /\ Maps[2 * t] = slot[t] /\ Maps \in [Cells -> Seq(Labels)]
      BY MapsIs
    <3>2. reducer_map'[t] = IF t = s THEN UpdatedMap(s, u) ELSE reducer_map[t]
      BY <1>2 DEF MapInv
    <3>3. /\ Place(t) \in Cells /\ Place(s) \in Cells /\ 2 * t \in Cells /\ 2 * t # Place(s)
          /\ Place(t) = Place(s) => t = s
      BY PlaceIs DEF Place
    <3>4. QED
      BY <1>1, <1>3, <3>1, <3>2, <3>3
  <2>2. M = [i \in Cells |-> M[i]]
    BY <1>4
  <2>3. QED
    BY <2>1, <2>2, RowEqual DEF Maps
<1>7. Running' \subseteq Running /\ Linked' = Linked
  <2>1. \A c \in Children : (pc'[c] = "run" => pc[c] = "run") /\ (c \in Linked' <=> c \in Linked)
    BY <1>1 DEF Linked
  <2>2. QED
    BY <2>1 DEF Running, Linked
<1>8. MapInv'
  <2>1. Sorted(M, Running', 2 * spawned + 1)
    BY <1>4, <1>7, SortedLess
  <2>2. QED
    BY <1>1, <1>4, <1>5, <1>6, <2>1 DEF MapInv
<1>9. ClearInv'
  <2>1. s # 0 => s \in Linked
    BY <1>1 DEF Linked
  <2>2. \A c \in Children \ Linked' : reducer_map'[c] = reducer_map[c]
    BY <1>2, <1>7, <2>1 DEF MapInv
  <2>3. \A c \in Children \ Linked' : reducer_map'[c] = <<>> /\ slot'[c] = <<>>
    BY <1>1, <1>7, <2>2 DEF ClearInv
  <2>4. pc'[0] \notin {"run", "reduce"} => pc[0] \notin {"run", "reduce"} /\ reducer_map'[0] = reducer_map[0]
    BY <1>1, <1>2 DEF MapInv
  <2>5. ~unsynched' /\ pc'[0] = "run" => ~unsynched /\ pc[0] = "run"
    BY <1>1
  <2>6. QED
    BY <1>1, <2>3, <2>4, <2>5 DEF ClearInv
<1>10. QED
  BY <1>8, <1>9

\* Steps that move no update.
LEMMA KeepMaps ==
    ASSUME MapInv, ClearInv, UNCHANGED <<maps, spawned>>, Running' = Running, Linked' = Linked,
           pc'[0] \in {"run", "reduce"} \/ reducer_map[0] = <<>>,
           ~unsynched' /\ pc'[0] = "run" => ~unsynched /\ pc[0] = "run"
    PROVE  MapInv' /\ ClearInv'
<1>1. UNCHANGED <<reducer_map, slot, updates, spawned>>
  BY DEF maps
<1>2. Maps' = Maps
  BY <1>1 DEF Maps, Row
<1>3. MapInv'
  BY <1>1, <1>2 DEF MapInv
<1>4. ClearInv'
  BY <1>1 DEF ClearInv
<1>5. QED
  BY <1>3, <1>4

LEMMA CallAgainMaps == ASSUME IInv, MapInv, ClearInv, CallAgain PROVE MapInv' /\ ClearInv'
<1> USE Facts
<1>1. /\ pc[0] = "run" /\ ~unsynched /\ slot' = slot /\ updates' = {} /\ spawned' = 0
      /\ reducer_map' = [reducer_map EXCEPT ![0] = <<>>] /\ unsynched' = unsynched
      /\ pc'[0] = "run" /\ \A c \in Children : pc'[c] = "new"
  BY DEF CallAgain
<1>2. Linked = {} /\ Linked' = {} /\ Running' = {}
  BY <1>1 DEF Linked, Running, IInv, StepInv, Alive
<1>3. \A s \in Strands : reducer_map'[s] = <<>> /\ slot'[s] = <<>>
  BY <1>1, <1>2 DEF MapInv, ClearInv
<1>4. reducer_map' \in [Strands -> Seq(Labels)] /\ slot' \in [Strands -> Seq(Labels)]
  BY <1>1, EmptyMap DEF MapInv
<1>5. Maps' \in [Cells -> Seq(Labels)] /\ \A i \in Cells : Maps'[i] = <<>>
  <2>1. /\ Maps' \in [Cells -> Seq(Labels)]
        /\ \A s \in Strands : Maps'[Place(s)] = reducer_map'[s] /\ Maps'[2 * s] = slot'[s]
    BY <1>4, MapsThen
  <2>2. ASSUME NEW i \in Cells PROVE Maps'[i] = <<>>
    <3>1. PICK s \in Strands : i = Place(s) \/ i = 2 * s
      BY PlaceIs
    <3>2. QED
      BY <1>3, <2>1, <3>1
  <2>3. QED
    BY <2>1, <2>2
<1>6. \A i \in Cells : Parts(Maps')[i] = {}
  BY <1>5, EmptyMap DEF Parts
<1>7. Sorted(Maps', Running', 2 * spawned' + 1)
  BY <1>5, <1>6, EmptyMap DEF Sorted, Ordered, Bounded
<1>8. All(Parts(Maps')) = {}
  BY <1>6 DEF All
<1>9. MapInv'
  BY <1>1, <1>4, <1>7, <1>8 DEF MapInv
<1>10. ClearInv'
  BY <1>1, <1>3 DEF ClearInv
<1>11. QED
  BY <1>9, <1>10

LEMMA StealMaps == ASSUME IInv, MapInv, ClearInv, Steal PROVE MapInv' /\ ClearInv'
<1> USE Facts
<1>1. PICK c : c = spawned + 1
  OBVIOUS
<1>2. /\ pc[0] = "run" /\ spawned < N /\ spawned' = c /\ unsynched' = TRUE /\ slot' = slot
      /\ pc' = [pc EXCEPT ![c] = "run", ![0] = "ready"]
  BY <1>1 DEF Steal
<1>3. PICK u \in Updating(0) : /\ Updates(0, u)
                               /\ reducer_map' = [reducer_map EXCEPT ![c] = UpdatedMap(0, u), ![0] = <<>>]
  BY <1>1 DEF Steal
<1>4. c \in Children /\ spawned \in Int /\ c \in Int /\ c <= N
  BY <1>1, <1>2 DEF IInv, TypeInv, Children, Strands
<1>5. /\ c \notin Linked /\ c \notin Running /\ Linked' = Linked \cup {c} /\ Running' = Running \cup {c}
      /\ \A x \in Linked : x \in Children /\ x \in Int /\ x < c
      /\ Running \subseteq Linked
  <2>1. pc[c] = "new" /\ \A x \in Children : pc[x] # "new" => x < c
    BY <1>1, <1>4 DEF IInv, StepInv
  <2>2. pc'[c] = "run" /\ \A x \in Children \ {c} : pc'[x] = pc[x]
    BY <1>2, <1>4 DEF IInv, TypeInv
  <2>3. QED
    BY <1>4, <2>1, <2>2 DEF Linked, Running
<1>6. PICK M : M = [Maps EXCEPT ![Place(0)] = UpdatedMap(0, u)]
  OBVIOUS
<1>7. PICK top : top = 2 * spawned + 1
  OBVIOUS
<1>8. /\ M \in [Cells -> Seq(Labels)] /\ UpdatedMap(0, u) \in Seq(Labels)
      /\ Sorted(M, Running, top) /\ updates' = All(Parts(M))
  BY <1>2, <1>3, <1>6, <1>7, UpdateSorted
<1>9. /\ reducer_map'[0] = <<>> /\ reducer_map'[c] = UpdatedMap(0, u)
      /\ \A t \in Strands \ {0, c} : reducer_map'[t] = reducer_map[t]
      /\ reducer_map' \in [Strands -> Seq(Labels)] /\ slot' \in [Strands -> Seq(Labels)]
  BY <1>2, <1>3, <1>4, <1>8, EmptyMap DEF MapInv
<1>10. PICK i, k : i = 2 * c - 1 /\ k = 2 * N + 1
  OBVIOUS
<1>11. /\ i = Place(c) /\ k = Place(0) /\ i \in Cells /\ k \in Cells /\ i < k
       /\ \A t \in Strands : Place(t) \in {i, k} <=> t \in {0, c}
       /\ \A t \in Strands : 2 * t \notin {i, k}
  BY <1>4, <1>10, PlaceIs DEF Place
<1>12. /\ Maps' \in [Cells -> Seq(Labels)]
       /\ \A s \in Strands : Maps'[Place(s)] = reducer_map'[s] /\ Maps'[2 * s] = slot'[s]
  BY <1>9, MapsThen
<1>13. M[k] = UpdatedMap(0, u) /\ M[i] = <<>> /\ \A j \in Cells \ {k} : M[j] = Maps[j]
  <2>1. Maps[i] = <<>>
    BY <1>4, <1>5, <1>11, MapsIs DEF ClearInv
  <2>2. Maps \in [Cells -> Seq(Labels)]
    BY MapsIs
  <2>3. M = [Maps EXCEPT ![k] = UpdatedMap(0, u)]
    BY <1>6, <1>11
  <2>4. i # k
    BY <1>4, <1>10
  <2>5. QED
    BY <1>11, <2>1, <2>2, <2>3, <2>4
<1>14. Merges(M, Maps', i, k, i)
  <2>1. Maps'[i] = M[i] \o M[k] /\ Maps'[k] = <<>>
    BY <1>4, <1>8, <1>9, <1>11, <1>12, <1>13, ConcatEmptySeq
  <2>2. ASSUME NEW j \in Cells \ {i, k} PROVE Maps'[j] = M[j] /\ (i < j /\ j < k => M[j] = <<>>)
    <3>1. PICK s \in Strands : j = Place(s) \/ j = 2 * s
      BY PlaceIs
    <3>2. Maps'[j] = Maps[j]
      <4>1. CASE j = Place(s)
        <5>1. s \notin {0, c}
          BY <1>11, <4>1
        <5>2. reducer_map'[s] = reducer_map[s]
          BY <1>9, <5>1
        <5>3. QED
          BY <1>12, <4>1, <5>2, MapsIs
      <4>2. CASE j = 2 * s
        BY <1>2, <1>12, <4>2, MapsIs
      <4>3. QED
        BY <3>1, <4>1, <4>2
    <3>3. ASSUME i < j, j < k PROVE Maps[j] = <<>>
      <4>1. \A x \in Linked : ~(c - 1 < x /\ 2 * x - 1 < k)
        BY <1>4, <1>5
      <4>2. 2 * (c - 1) < j /\ c - 1 \in Strands /\ k \in Int /\ j # 2 * N + 1
        BY <1>1, <1>4, <1>10, <3>3 DEF Cells, Strands
      <4>3. QED
        BY <3>3, <4>1, <4>2, NoMapBetween
    <3>4. QED
      BY <1>13, <3>2, <3>3
  <2>3. i + k - i = k
    BY <1>4, <1>10
  <2>4. QED
    BY <1>11, <1>12, <2>1, <2>2, <2>3 DEF Merges
<1>15. Sorted(Maps', Running, top) /\ All(Parts(Maps')) = updates'
  <2>1. \A x \in Running : x \in Int /\ ~(i <= 2 * x - 1 /\ 2 * x - 1 <= k)
    BY <1>4, <1>5, <1>10
  <2>2. Running \in SUBSET Running
    OBVIOUS
  <2>3. Sorted(Maps', Running, top) /\ All(Parts(Maps')) = All(Parts(M))
    BY ONLY <1>8, <1>14, <2>1, <2>2, MergesSorted
  <2>4. QED
    BY <1>8, <2>3
<1>16. Bounded(Parts(Maps'), Running', 2 * spawned' + 1)
  <2> SUFFICES ASSUME NEW j \in Cells, NEW x \in Range(Maps'[j])
               PROVE  /\ x \in Labels /\ x <= 2 * spawned' + 1
                      /\ \A d \in Running' : /\ j < 2 * d - 1 => x < 2 * d
                                             /\ j = 2 * d - 1 => x <= 2 * d
                                             /\ j > 2 * d - 1 => x > 2 * d
    BY DEF Bounded, Parts
  <2>1. /\ x \in Labels /\ x <= top
        /\ \A d \in Running : /\ j < 2 * d - 1 => x < 2 * d
                              /\ j = 2 * d - 1 => x <= 2 * d
                              /\ j > 2 * d - 1 => x > 2 * d
    BY <1>15 DEF Sorted, Bounded, Parts
  <2>2. x \in Int /\ x < 2 * c
    <3>1. x \in Int
      BY <2>1, LabelsAre
    <3>2. QED
      BY <1>1, <1>4, <1>7, <2>1, <3>1
  <2>3. ~(j > 2 * c - 1)
    <3>1. ASSUME j > 2 * c - 1 PROVE Maps'[j] = <<>>
      <4>1. j \in Int /\ j <= 2 * N + 1
        BY DEF Cells
      <4>2. CASE j = k
        BY <1>9, <1>11, <1>12, <4>2
      <4>3. CASE j # k
        <5>1. j \in Cells \ {i, k} /\ i < j /\ j < k
          BY <1>10, <3>1, <4>1, <4>3
        <5>2. QED
          BY <1>14, <5>1 DEF Merges
      <4>4. QED
        BY <4>2, <4>3
    <3>2. QED
      BY <3>1, EmptyMap
  <2>4. x <= 2 * spawned' + 1
    BY <1>2, <1>4, <2>2
  <2>5. ASSUME NEW d \in Running'
        PROVE  /\ j < 2 * d - 1 => x < 2 * d
               /\ j = 2 * d - 1 => x <= 2 * d
               /\ j > 2 * d - 1 => x > 2 * d
    <3>1. CASE d \in Running
      BY <2>1, <3>1
    <3>2. CASE d = c
      BY <2>2, <2>3, <3>2, <1>4
    <3>3. QED
      BY <1>5, <3>1, <3>2
  <2>6. QED
    BY <2>1, <2>4, <2>5
<1>17. MapInv'
  BY <1>9, <1>15, <1>16 DEF MapInv, Sorted
<1>18. ClearInv'
  <2>1. \A x \in Children \ Linked' : reducer_map'[x] = reducer_map[x] /\ x \in Children \ Linked
    BY <1>5, <1>9
  <2>2. QED
    BY <1>2, <1>9, <2>1 DEF ClearInv
<1>19. QED
  BY <1>17, <1>18

\* Between a child that has returned and its left sibling nobody runs.
LEMMA NoneRunsBetween ==
    ASSUME IInv, NEW c \in Linked, pc[c] # "run", NEW l, l = left_sibling[c]
    PROVE  /\ l \in Linked \cup {0} /\ l \in Strands /\ l \in Int /\ l < c
           /\ c \in Children /\ c \in Int
           /\ \A x \in Linked : x \in Int /\ (x < c => x <= l)
           /\ \A x \in Running : x \in Int /\ ~(2 * l <= 2 * x - 1 /\ 2 * x - 1 <= 2 * c)
<1> USE Facts
<1>1. /\ l \in Linked \cup {0} /\ l \in Strands /\ l \in Int /\ l < c /\ c \in Children /\ c \in Int
      /\ \A x \in Linked : x \in Int /\ (x < c => x <= l)
  BY DEF IInv, ListInv, IsLeftOf, Linked
<1>2. \A x \in Running : x \in Linked /\ x # c
  BY DEF Running, Linked
<1>3. ASSUME NEW x \in Running PROVE x \in Int /\ ~(2 * l <= 2 * x - 1 /\ 2 * x - 1 <= 2 * c)
  <2>1. x \in Int /\ (x <= l \/ x > c)
    <3>1. x \in Linked /\ x # c
      BY <1>2
    <3>2. x \in Int /\ (x < c => x <= l) /\ c \in Int
      BY <1>1, <3>1
    <3>3. QED
      BY <3>1, <3>2
  <2>2. QED
    BY <1>1, <2>1
<1>4. QED
  BY <1>1, <1>3

\* A child's maps are gathered, to its left or in its own.
Splices(c, l, left, own) ==
    /\ l = left_sibling[c]
    /\ \/ left = slot[l] \o reducer_map[c] \o slot[c] /\ own = <<>>
       \/ left = <<>> /\ own = slot[l] \o reducer_map[c] \o slot[c]
    /\ slot' = [slot EXCEPT ![l] = left, ![c] = <<>>]
    /\ reducer_map' = [reducer_map EXCEPT ![c] = own]
    /\ UNCHANGED <<updates, spawned>> /\ Running' = Running

LEMMA SpliceMaps ==
    ASSUME IInv, MapInv, ClearInv, NEW c \in Linked, pc[c] # "run", NEW l, NEW left, NEW own,
           Splices(c, l, left, own)
    PROVE  /\ MapInv' /\ l \in Linked \cup {0} /\ slot'[c] = <<>> /\ reducer_map'[c] = own
           /\ \A s \in Strands \ {c} : reducer_map'[s] = reducer_map[s]
           /\ \A s \in Strands \ {l, c} : slot'[s] = slot[s]
<1> PICK all : all = slot[l] \o reducer_map[c] \o slot[c]
  OBVIOUS
<1>0. /\ l = left_sibling[c] /\ ((left = all /\ own = <<>>) \/ (left = <<>> /\ own = all))
      /\ slot' = [slot EXCEPT ![l] = left, ![c] = <<>>]
      /\ reducer_map' = [reducer_map EXCEPT ![c] = own]
      /\ UNCHANGED <<updates, spawned>> /\ Running' = Running
  BY DEF Splices
<1> USE Facts, <1>0
<1>1. /\ l \in Linked \cup {0} /\ l \in Strands /\ l \in Int /\ l < c /\ c \in Children /\ c \in Int
      /\ \A x \in Linked : x \in Int /\ (x < c => x <= l)
  BY NoneRunsBetween
<1>2. /\ slot[l] \in Seq(Labels) /\ reducer_map[c] \in Seq(Labels) /\ slot[c] \in Seq(Labels)
      /\ reducer_map \in [Strands -> Seq(Labels)] /\ slot \in [Strands -> Seq(Labels)]
  BY <1>1 DEF MapInv
<1>3. all \in Seq(Labels)
  <2>1. slot[l] \o reducer_map[c] \in Seq(Labels)
    BY <1>2, ConcatProperties
  <2>2. QED
    BY <1>2, <2>1, ConcatProperties
<1>4. left \in Seq(Labels) /\ own \in Seq(Labels)
  BY <1>3, EmptyMap
<1>5. l # c /\ l \in Strands /\ c \in Strands
  BY <1>1
<1>6. /\ slot'[l] = left /\ slot'[c] = <<>> /\ reducer_map'[c] = own
      /\ \A s \in Strands \ {c} : reducer_map'[s] = reducer_map[s]
      /\ \A s \in Strands \ {l, c} : slot'[s] = slot[s]
      /\ reducer_map' \in [Strands -> Seq(Labels)] /\ slot' \in [Strands -> Seq(Labels)]
  BY <1>2, <1>4, <1>5, EmptyMap
<1>7. PICK i, j, k, d : /\ i = 2 * l /\ j = 2 * c - 1 /\ k = 2 * c
                        /\ d = IF left = all /\ own = <<>> THEN i ELSE j
  OBVIOUS
<1>8. i \in Int /\ j \in Int /\ k \in Int /\ i < j /\ j < k /\ j = Place(c) /\ d \in {i, j}
  <2>1. l \in Int /\ c \in Int /\ l < c /\ c # 0 /\ i = 2 * l /\ j = 2 * c - 1 /\ k = 2 * c
    BY <1>1, <1>7
  <2>2. i \in Int /\ j \in Int /\ k \in Int /\ i < j /\ j < k
    BY ONLY <2>1
  <2>3. j = Place(c) /\ d \in {i, j}
    BY <1>7, <2>1 DEF Place
  <2>4. QED
    BY <2>2, <2>3
<1>9. i \in Cells /\ j \in Cells /\ k \in Cells
  <2>1. 2 * l \in Cells /\ 2 * c \in Cells /\ Place(c) \in Cells
    BY <1>5, PlaceIs
  <2>2. QED
    BY <1>7, <1>8, <2>1
<1>10. /\ Maps' \in [Cells -> Seq(Labels)]
       /\ \A s \in Strands : Maps'[Place(s)] = reducer_map'[s] /\ Maps'[2 * s] = slot'[s]
  BY <1>6, MapsThen
<1>11. Maps'[i] = left /\ Maps'[j] = own /\ Maps'[k] = <<>>
  <2>1. Maps'[2 * l] = slot'[l]
    BY <1>1, <1>10
  <2>2. Maps'[2 * c] = slot'[c] /\ Maps'[Place(c)] = reducer_map'[c]
    BY <1>1, <1>10
  <2>3. QED
    BY <1>6, <1>7, <1>8, <2>1, <2>2
<1>12. Maps[i] = slot[l] /\ Maps[j] = reducer_map[c] /\ Maps[k] = slot[c]
  BY <1>1, <1>7, <1>8, MapsIs
<1>13. Maps'[d] = Maps[i] \o Maps[j] \o Maps[k]
  <2>1. Maps'[d] = all
    BY <1>7, <1>11
  <2>2. QED
    BY <1>12, <2>1
<1>14. \A p \in {i, j, k} \ {d} : Maps'[p] = <<>>
  BY <1>7, <1>8, <1>11
<1>15. ASSUME NEW p \in Cells \ {i, j, k}
       PROVE  Maps'[p] = Maps[p] /\ (i < p /\ p < k => Maps[p] = <<>>)
  <2>1. PICK s \in Strands : p = Place(s) \/ p = 2 * s
    BY PlaceIs
  <2>2. Maps'[p] = Maps[p]
    <3>1. CASE p = Place(s)
      <4>1. s # c
        BY <1>8, <3>1
      <4>2. reducer_map'[s] = reducer_map[s]
        BY <1>6, <4>1
      <4>3. QED
        BY <1>10, <3>1, <4>2, MapsIs
    <3>2. CASE p = 2 * s
      <4>1. s \notin {l, c}
        BY <1>7, <3>2
      <4>2. slot'[s] = slot[s]
        BY <1>6, <4>1
      <4>3. QED
        BY <1>10, <3>2, <4>2, MapsIs
    <3>3. QED
      BY <2>1, <3>1, <3>2
  <2>3. ASSUME i < p, p < k PROVE Maps[p] = <<>>
    <3>1. p \in Int /\ p < j /\ 2 * l < p
      <4>1. p \in Int /\ p # j
        BY DEF Cells
      <4>2. c \in Int /\ j = 2 * c - 1 /\ k = 2 * c /\ i = 2 * l /\ i < p /\ p < k
        BY <1>1, <1>7, <2>3
      <4>3. QED
        BY ONLY <4>1, <4>2
    <3>2. ASSUME NEW x \in Linked PROVE ~(l < x /\ 2 * x - 1 < j)
      <4>1. x \in Int /\ l \in Int /\ c \in Int /\ (x < c => x <= l) /\ j = 2 * c - 1
        BY <1>1, <1>7
      <4>2. QED
        BY ONLY <4>1
    <3>3. p # 2 * N + 1
      <4>1. c \in Children /\ c \in Int /\ N \in Int
        BY <1>1
      <4>2. c <= N
        BY ONLY <4>1 DEF Children
      <4>3. p \in Int /\ p < j /\ j = 2 * c - 1
        BY <1>7, <3>1
      <4>4. QED
        BY ONLY <4>1, <4>2, <4>3
    <3>4. QED
      BY <1>1, <1>8, <3>1, <3>2, <3>3, NoMapBetween
  <2>4. QED
    BY <2>2, <2>3
<1>16. \A x \in Running : x \in Int /\ ~(i <= 2 * x - 1 /\ 2 * x - 1 <= k)
  BY <1>7, NoneRunsBetween
<1>17. PICK top : top = 2 * spawned + 1
  OBVIOUS
<1>18. Sorted(Maps, Running, top) /\ updates = All(Parts(Maps))
  BY <1>17 DEF MapInv
<1>19. Sorted(Maps', Running, top) /\ All(Parts(Maps')) = All(Parts(Maps))
  <2>1. PICK M2 : M2 = Maps'
    OBVIOUS
  <2>2. MergesAll(Maps, M2, i, j, k, d)
    BY <1>8, <1>9, <1>10, <1>13, <1>14, <1>15, <2>1 DEF MergesAll
  <2>3. Sorted(M2, Running, top) /\ All(Parts(M2)) = All(Parts(Maps))
    BY <1>16, <1>18, <2>2, MergesAllSorted
  <2>4. QED
    BY <2>1, <2>3
<1>20. MapInv'
  BY <1>6, <1>17, <1>18, <1>19 DEF MapInv
<1>21. QED
  BY <1>1, <1>6, <1>20

\* Whatever a map's neighbours are, the updates in them stay in order.
LEMMA SlideKeeps ==
    ASSUME NEW L \in Seq(Labels), NEW M \in Seq(Labels), NEW R \in Seq(Labels)
    PROVE  LET slid == Slide(L, M, R) IN
           /\ slid.left \o slid.middle \o slid.right = L \o M \o R
           /\ slid.middle = <<>> => slid.left = L \o M \o R /\ slid.right = <<>>
<1>1. /\ \A s \in Seq(Labels) : s \o <<>> = s /\ <<>> \o s = s
      /\ \A s, t \in Seq(Labels) : s \o t \in Seq(Labels)
  BY ConcatEmptySeq, ConcatProperties
<1>2. <<>> \in Seq(Labels)
  BY EmptyMap
<1>3. CASE L = <<>>
  BY <1>1, <1>2, <1>3 DEF Slide
<1>4. CASE L # <<>> /\ M = <<>>
  BY <1>1, <1>2, <1>4 DEF Slide
<1>5. CASE L # <<>> /\ M # <<>>
  BY <1>1, <1>2, <1>5 DEF Slide
<1>6. QED
  BY <1>3, <1>4, <1>5

\* What a child's step does to Linked and Running.
LEMMA FinishLinks ==
    ASSUME IInv, NEW c \in Children, pc[c] \in {"return", "reduce"},
           NEW l \in {"reduce", "jump"}, Goto(c, l)
    PROVE  /\ c \in Linked /\ Running' = Running /\ unsynched
           /\ Linked' = IF l = "jump" THEN Linked \ {c} ELSE Linked
           /\ pc'[0] = pc[0]
<1> USE Facts
<1>1. pc'[c] = l /\ \A t \in Strands \ {c} : pc'[t] = pc[t]
  BY GotoIs DEF IInv
<1>2. \A x \in Children : x = c \/ pc'[x] = pc[x]
  BY <1>1
<1>3. c \in Linked /\ c \in Alive
  BY DEF Linked, Alive
<1>4. Running' = Running
  BY <1>1, <1>2 DEF Running
<1>5. Linked' = IF l = "jump" THEN Linked \ {c} ELSE Linked
  BY <1>1, <1>2 DEF Linked
<1>6. QED
  BY <1>1, <1>3, <1>4, <1>5 DEF IInv, StepInv

LEMMA ChildMaps ==
    ASSUME IInv, MapInv, ClearInv, NEW c \in Children, FastPath(c) \/ SlowPath(c)
    PROVE  MapInv' /\ ClearInv'
<1> USE Facts
<1>1. PICK l : l = left_sibling[c]
  OBVIOUS
<1>2. PICK all : all = slot[l] \o reducer_map[c] \o slot[c]
  OBVIOUS
<1>3. pc[c] \in {"return", "reduce"} /\ c \in Linked /\ pc[c] # "run"
  BY DEF FastPath, SlowPath, Linked
<1>4. l \in Strands
  BY <1>1 DEF IInv, TypeInv
<1>5. \/ /\ Finish(c) /\ UNCHANGED updates
         /\ slot' = [slot EXCEPT ![l] = all, ![c] = <<>>]
         /\ reducer_map' = [reducer_map EXCEPT ![c] = <<>>]
      \/ /\ UNCHANGED <<tree, updates>> /\ Goto(c, "reduce")
         /\ slot' = [slot EXCEPT ![l] = <<>>, ![c] = <<>>]
         /\ reducer_map' = [reducer_map EXCEPT ![c] = all]
  <2>1. CASE FastPath(c)
    BY <1>1, <1>2, <2>1 DEF FastPath
  <2>2. CASE SlowPath(c)
    <3>1. PICK slid : slid = Slide(slot[l], reducer_map[c], slot[c])
      OBVIOUS
    <3>2. /\ slid.left \o slid.middle \o slid.right = all
          /\ slid.middle = <<>> => slid.left = all /\ slid.right = <<>>
      <4>1. slot[l] \in Seq(Labels) /\ reducer_map[c] \in Seq(Labels) /\ slot[c] \in Seq(Labels)
        BY <1>4 DEF MapInv
      <4>2. PICK L, M, R : L = slot[l] /\ M = reducer_map[c] /\ R = slot[c]
        OBVIOUS
      <4>3. L \in Seq(Labels) /\ M \in Seq(Labels) /\ R \in Seq(Labels) /\ slid = Slide(L, M, R)
        BY <3>1, <4>1, <4>2
      <4>4. /\ slid.left \o slid.middle \o slid.right = L \o M \o R
            /\ slid.middle = <<>> => slid.left = L \o M \o R /\ slid.right = <<>>
        BY ONLY <4>3, SlideKeeps
      <4>5. QED
        BY <1>2, <4>2, <4>4
    <3>3. \/ Take(c, l, slid) /\ Goto(c, "reduce") /\ UNCHANGED <<tree, updates>>
          \/ /\ slid.middle = <<>> /\ Finish(c) /\ UNCHANGED updates
             /\ slot' = [slot EXCEPT ![l] = slid.left, ![c] = slid.right]
             /\ reducer_map' = [reducer_map EXCEPT ![c] = <<>>]
      BY <1>1, <2>2, <3>1 DEF SlowPath
    <3>4. QED
      BY <3>2, <3>3 DEF Take
  <2>3. QED
    BY <2>1, <2>2
<1>6. CASE /\ Finish(c) /\ UNCHANGED updates
           /\ slot' = [slot EXCEPT ![l] = all, ![c] = <<>>]
           /\ reducer_map' = [reducer_map EXCEPT ![c] = <<>>]
  <2>1. Goto(c, "jump") /\ UNCHANGED <<spawned, unsynched>>
    BY <1>6 DEF Finish
  <2>2. Running' = Running /\ Linked' = Linked \ {c} /\ pc'[0] = pc[0] /\ unsynched
    BY <1>3, <2>1, FinishLinks
  <2>3. /\ MapInv' /\ l \in Linked \cup {0} /\ slot'[c] = <<>> /\ reducer_map'[c] = <<>>
        /\ \A s \in Strands \ {c} : reducer_map'[s] = reducer_map[s]
        /\ \A s \in Strands \ {l, c} : slot'[s] = slot[s]
    <3>1. Splices(c, l, all, <<>>)
      BY <1>1, <1>2, <1>6, <2>1, <2>2 DEF Splices
    <3>2. QED
      BY <1>3, <3>1, SpliceMaps
  <2>4. \A x \in Children \ Linked' : reducer_map'[x] = <<>> /\ slot'[x] = <<>>
    BY <2>2, <2>3 DEF ClearInv
  <2>5. ClearInv'
    BY <2>1, <2>2, <2>3, <2>4 DEF ClearInv
  <2>6. QED
    BY <2>3, <2>5
<1>7. CASE /\ UNCHANGED <<tree, updates>> /\ Goto(c, "reduce")
           /\ slot' = [slot EXCEPT ![l] = <<>>, ![c] = <<>>]
           /\ reducer_map' = [reducer_map EXCEPT ![c] = all]
  <2>1. UNCHANGED <<spawned, unsynched>>
    BY <1>7 DEF tree
  <2>2. Running' = Running /\ Linked' = Linked /\ pc'[0] = pc[0] /\ unsynched
    BY <1>3, <1>7, FinishLinks
  <2>3. /\ MapInv' /\ l \in Linked \cup {0}
        /\ \A s \in Strands \ {c} : reducer_map'[s] = reducer_map[s]
        /\ \A s \in Strands \ {l, c} : slot'[s] = slot[s]
    <3>1. Splices(c, l, <<>>, all)
      BY <1>1, <1>2, <1>7, <2>1, <2>2 DEF Splices
    <3>2. QED
      BY <1>3, <3>1, SpliceMaps
  <2>4. \A x \in Children \ Linked' : reducer_map'[x] = <<>> /\ slot'[x] = <<>>
    BY <1>3, <2>2, <2>3 DEF ClearInv
  <2>5. ClearInv'
    BY <2>1, <2>2, <2>3, <2>4 DEF ClearInv
  <2>6. QED
    BY <2>3, <2>5
<1>8. QED
  BY <1>5, <1>6, <1>7

\* What is to the right of all children and what the frame has are gathered.
FrameSplices(l, left, own) ==
    /\ \/ left = slot[l] \o reducer_map[0] /\ own = <<>>
       \/ left = <<>> /\ own = slot[l] \o reducer_map[0]
    /\ slot' = [slot EXCEPT ![l] = left] /\ reducer_map' = [reducer_map EXCEPT ![0] = own]
    /\ UNCHANGED <<updates, spawned>> /\ Running' = Running

LEMMA FrameSpliceMaps ==
    ASSUME IInv, MapInv, ClearInv, NEW l \in Strands, \A x \in Linked : x <= l, NEW left, NEW own,
           FrameSplices(l, left, own)
    PROVE  /\ MapInv' /\ reducer_map'[0] = own /\ slot'[l] = left
           /\ \A s \in Strands \ {0} : reducer_map'[s] = reducer_map[s]
           /\ \A s \in Strands \ {l} : slot'[s] = slot[s]
<1> PICK all : all = slot[l] \o reducer_map[0]
  OBVIOUS
<1>0. /\ (left = all /\ own = <<>>) \/ (left = <<>> /\ own = all)
      /\ slot' = [slot EXCEPT ![l] = left] /\ reducer_map' = [reducer_map EXCEPT ![0] = own]
      /\ UNCHANGED <<updates, spawned>> /\ Running' = Running
  BY DEF FrameSplices
<1> USE Facts, <1>0
<1>1. /\ reducer_map \in [Strands -> Seq(Labels)] /\ slot \in [Strands -> Seq(Labels)]
      /\ slot[l] \in Seq(Labels) /\ reducer_map[0] \in Seq(Labels)
  BY DEF MapInv
<1>2. all \in Seq(Labels)
  BY <1>1, ConcatProperties
<1>3. left \in Seq(Labels) /\ own \in Seq(Labels)
  BY <1>2, EmptyMap
<1>4. /\ slot'[l] = left /\ reducer_map'[0] = own
      /\ \A s \in Strands \ {0} : reducer_map'[s] = reducer_map[s]
      /\ \A s \in Strands \ {l} : slot'[s] = slot[s]
      /\ reducer_map' \in [Strands -> Seq(Labels)] /\ slot' \in [Strands -> Seq(Labels)]
  BY <1>1, <1>3
<1>5. PICK i, k, d : /\ i = 2 * l /\ k = 2 * N + 1
                     /\ d = IF left = all /\ own = <<>> THEN i ELSE k
  OBVIOUS
<1>6. i \in Int /\ k \in Int /\ i < k /\ k = Place(0) /\ d \in {i, k} /\ (d = i => i + k - d = k)
      /\ (d = k => i + k - d = i)
  <2>1. l \in Int /\ l <= N
    BY DEF Strands
  <2>2. i \in Int /\ k \in Int /\ i < k
    BY <1>5, <2>1
  <2>3. k = Place(0) /\ d \in {i, k}
    BY <1>5 DEF Place
  <2>4. i + k - i = k /\ i + k - k = i
    BY <2>2
  <2>5. QED
    BY <2>2, <2>3, <2>4
<1>7. i \in Cells /\ k \in Cells
  BY <1>5, <1>6, PlaceIs
<1>8. /\ Maps' \in [Cells -> Seq(Labels)]
      /\ \A s \in Strands : Maps'[Place(s)] = reducer_map'[s] /\ Maps'[2 * s] = slot'[s]
  BY <1>4, MapsThen
<1>9. Maps'[i] = left /\ Maps'[k] = own
  BY <1>4, <1>5, <1>6, <1>8
<1>10. Maps[i] = slot[l] /\ Maps[k] = reducer_map[0]
  BY <1>5, <1>6, MapsIs
<1>11. ASSUME NEW p \in Cells \ {i, k}
       PROVE  Maps'[p] = Maps[p] /\ (i < p /\ p < k => Maps[p] = <<>>)
  <2>1. PICK s \in Strands : p = Place(s) \/ p = 2 * s
    BY PlaceIs
  <2>2. Maps'[p] = Maps[p]
    <3>1. CASE p = Place(s)
      <4>1. s # 0
        BY <1>6, <3>1
      <4>2. reducer_map'[s] = reducer_map[s]
        BY <1>4, <4>1
      <4>3. QED
        BY <1>8, <3>1, <4>2, MapsIs
    <3>2. CASE p = 2 * s
      <4>1. s # l
        BY <1>5, <3>2
      <4>2. slot'[s] = slot[s]
        BY <1>4, <4>1
      <4>3. QED
        BY <1>8, <3>2, <4>2, MapsIs
    <3>3. QED
      BY <2>1, <3>1, <3>2
  <2>3. ASSUME i < p, p < k PROVE Maps[p] = <<>>
    <3>1. \A x \in Linked : x \in Int /\ l \in Int /\ ~(l < x /\ 2 * x - 1 < k)
      BY DEF Linked
    <3>2. p # 2 * N + 1 /\ 2 * l < p
      BY <1>5, <2>3
    <3>3. QED
      BY <1>6, <2>3, <3>1, <3>2, NoMapBetween
  <2>4. QED
    BY <2>2, <2>3
<1>12. PICK M2 : M2 = Maps'
  OBVIOUS
<1>13. M2[d] = Maps[i] \o Maps[k] /\ M2[i + k - d] = <<>>
  <2>1. CASE d = i
    BY <1>5, <1>6, <1>9, <1>10, <1>12, <2>1
  <2>2. CASE d = k
    BY <1>5, <1>6, <1>9, <1>10, <1>12, <2>2
  <2>3. QED
    BY <1>6, <2>1, <2>2
<1>14. Merges(Maps, M2, i, k, d)
  BY <1>6, <1>7, <1>8, <1>11, <1>12, <1>13 DEF Merges
<1>15. \A x \in Running : x \in Int /\ ~(i <= 2 * x - 1 /\ 2 * x - 1 <= k)
  <2>1. ASSUME NEW x \in Running PROVE x \in Int /\ l \in Int /\ x <= l
    BY DEF Running, Linked
  <2>2. QED
    BY <1>5, <2>1
<1>16. PICK top : top = 2 * spawned + 1
  OBVIOUS
<1>17. Sorted(Maps, Running, top) /\ updates = All(Parts(Maps)) /\ Running \in SUBSET Running
  BY <1>16 DEF MapInv
<1>18. Sorted(M2, Running, top) /\ All(Parts(M2)) = All(Parts(Maps))
  BY <1>14, <1>15, <1>17, MergesSorted
<1>19. MapInv'
  BY <1>4, <1>12, <1>16, <1>17, <1>18 DEF MapInv
<1>20. QED
  BY <1>4, <1>19

LEMMA SyncMaps == ASSUME IInv, MapInv, ClearInv, SyncReduce PROVE MapInv' /\ ClearInv'
<1> USE Facts
<1>1. PICK l : l = rightmost_child
  OBVIOUS
<1>2. l \in Strands /\ l \in Linked \cup {0} /\ (\A x \in Linked : x <= l) /\ pc[0] = "reduce" /\ unsynched
  BY <1>1 DEF IInv, TypeInv, ListInv, StepInv, SyncReduce
<1>3. slot[l] \in Seq(Labels) /\ reducer_map[0] \in Seq(Labels)
  BY <1>2 DEF MapInv
<1>4. PICK all : all = slot[l] \o reducer_map[0]
  OBVIOUS
<1>5. UNCHANGED <<tree, updates>> /\ UNCHANGED <<spawned, unsynched>>
  BY DEF SyncReduce, tree
<1>6. \/ /\ slot' = [slot EXCEPT ![l] = <<>>] /\ UNCHANGED pc
         /\ reducer_map' = [reducer_map EXCEPT ![0] = slot[l] \o reducer_map[0]]
      \/ /\ slot' = [slot EXCEPT ![l] = slot[l] \o reducer_map[0]] /\ Goto(0, "jump")
         /\ reducer_map' = [reducer_map EXCEPT ![0] = <<>>]
  BY <1>1, <1>2 DEF SyncReduce, Suspend, MapInv
<1>7. \A c \in Children : pc'[c] = pc[c]
  BY <1>6, GotoIs DEF IInv
<1>8. Running' = Running /\ Linked' = Linked
  BY <1>7 DEF Running, Linked
<1>9. CASE /\ slot' = [slot EXCEPT ![l] = <<>>] /\ UNCHANGED pc
           /\ reducer_map' = [reducer_map EXCEPT ![0] = slot[l] \o reducer_map[0]]
  <2>1. FrameSplices(l, <<>>, all)
    BY <1>4, <1>5, <1>8, <1>9 DEF FrameSplices
  <2>2. /\ MapInv'
        /\ \A s \in Strands \ {0} : reducer_map'[s] = reducer_map[s]
        /\ \A s \in Strands \ {l} : slot'[s] = slot[s]
    BY <1>2, <2>1, FrameSpliceMaps
  <2>3. ClearInv'
    BY <1>2, <1>5, <1>8, <1>9, <2>2 DEF ClearInv
  <2>4. QED
    BY <2>2, <2>3
<1>10. CASE /\ slot' = [slot EXCEPT ![l] = slot[l] \o reducer_map[0]] /\ Goto(0, "jump")
            /\ reducer_map' = [reducer_map EXCEPT ![0] = <<>>]
  <2>1. FrameSplices(l, all, <<>>)
    BY <1>4, <1>5, <1>8, <1>10 DEF FrameSplices
  <2>2. /\ MapInv' /\ reducer_map'[0] = <<>>
        /\ \A s \in Strands \ {0} : reducer_map'[s] = reducer_map[s]
        /\ \A s \in Strands \ {l} : slot'[s] = slot[s]
    BY <1>2, <2>1, FrameSpliceMaps
  <2>3. ClearInv'
    BY <1>2, <1>5, <1>8, <1>10, <2>2 DEF ClearInv
  <2>4. QED
    BY <2>2, <2>3
<1>11. QED
  BY <1>6, <1>9, <1>10

\* After the sync the frame takes up what is left of all children.
LEMMA ResumeMaps == ASSUME IInv, MapInv, ClearInv, Resume PROVE MapInv' /\ ClearInv'
<1> USE Facts
<1>1. pc[0] = "ready" /\ SetupReducers /\ Goto(0, "run") /\ UNCHANGED <<tree, updates>>
  BY DEF Resume
<1>2. UNCHANGED <<spawned, unsynched>> /\ pc'[0] = "run" /\ \A c \in Children : pc'[c] = pc[c]
  BY <1>1, GotoIs DEF IInv, tree
<1>3. Running' = Running /\ Linked' = Linked
  BY <1>2 DEF Running, Linked
<1>4. CASE unsynched
  <2>1. UNCHANGED <<reducer_map, slot>>
    BY <1>1, <1>4 DEF SetupReducers
  <2>2. UNCHANGED <<maps, spawned>>
    BY <1>1, <1>2, <2>1 DEF maps
  <2>3. QED
    BY <1>2, <1>3, <1>4, <2>2, KeepMaps
<1>5. CASE ~unsynched
  <2>1. reducer_map[0] = <<>> /\ slot[0] \in Seq(Labels)
    BY <1>1 DEF ClearInv, MapInv
  <2>2. reducer_map' = [reducer_map EXCEPT ![0] = slot[0]] /\ slot' = [slot EXCEPT ![0] = <<>>]
    BY <1>1, <1>5 DEF SetupReducers
  <2>3. slot[0] \o reducer_map[0] = slot[0]
    BY <2>1, ConcatEmptySeq
  <2>4. FrameSplices(0, <<>>, slot[0])
    BY <1>1, <1>2, <1>3, <2>2, <2>3 DEF FrameSplices
  <2>5. Linked = {}
    BY <1>5 DEF IInv, StepInv, Alive, Linked
  <2>6. /\ MapInv' /\ slot'[0] = <<>>
        /\ \A s \in Strands \ {0} : reducer_map'[s] = reducer_map[s]
        /\ \A s \in Strands \ {0} : slot'[s] = slot[s]
    BY <2>4, <2>5, FrameSpliceMaps
  <2>7. ClearInv'
    BY <1>2, <1>3, <2>6 DEF ClearInv
  <2>8. QED
    BY <2>6, <2>7
<1>6. QED
  BY <1>4, <1>5

LEMMA RuntimeMaps ==
    ASSUME IInv, MapInv, ClearInv, NEW s \in Strands, NEW l,
           Jump(s) \/ (PostSuspend(s, l) /\ l = IF s = 0 THEN "stalled" ELSE "done")
    PROVE  MapInv' /\ ClearInv'
<1> USE Facts
<1>1. UNCHANGED <<maps, spawned>> /\ pc[s] \in {"jump", "join"}
  BY DEF Jump, PostSuspend, tree
<1>2. PICK m : m = IF Jump(s) THEN "join" ELSE l
  OBVIOUS
<1>3. /\ m \in {"join", "stalled", "done"}
      /\ \/ pc' = [pc EXCEPT ![s] = m] /\ UNCHANGED unsynched
         \/ /\ pc' = [pc EXCEPT ![s] = m, ![0] = "ready"]
            /\ s = 0 \/ pc[0] = "stalled"
  <2>1. CASE Jump(s)
    BY <1>2, <2>1 DEF Jump, Goto, tree
  <2>2. CASE ~Jump(s) /\ LastToJoin
    <3>1. PostSuspend(s, l) /\ pc[s] = "join"
      BY <2>2 DEF PostSuspend
    <3>2. s = 0 \/ pc[0] = "stalled"
      BY <2>2, <3>1, LastIsAlone
    <3>3. QED
      BY <1>2, <2>2, <3>1, <3>2 DEF PostSuspend, ProvablyGoodSteal
  <2>3. CASE ~Jump(s) /\ ~LastToJoin
    BY <1>2, <2>3 DEF PostSuspend, ProvablyGoodSteal, Goto
  <2>4. QED
    BY <2>1, <2>2, <2>3
<1>4. /\ \A c \in Children : \/ pc'[c] = pc[c]
                             \/ {pc[c], pc'[c]} \cap {"run", "return", "reduce"} = {}
      /\ \/ pc'[0] = pc[0] /\ (s # 0 \/ unsynched' = unsynched)
         \/ pc[0] \notin {"run", "reduce"} /\ pc'[0] # "run"
  BY <1>1, <1>3 DEF IInv, TypeInv
<1>5. Running' = Running /\ Linked' = Linked
  BY <1>4 DEF Running, Linked
<1>6. pc'[0] \in {"run", "reduce"} \/ reducer_map[0] = <<>>
  BY <1>4 DEF ClearInv
<1>7. ~unsynched' /\ pc'[0] = "run" => ~unsynched /\ pc[0] = "run"
  BY <1>1, <1>3, <1>4 DEF IInv, TypeInv
<1>8. QED
  BY <1>1, <1>5, <1>6, <1>7, KeepMaps

LEMMA InitMaps == Init => MapInv /\ ClearInv
<1> SUFFICES ASSUME Init PROVE MapInv /\ ClearInv
  OBVIOUS
<1> USE Facts
<1>1. reducer_map = [s \in Strands |-> <<>>] /\ slot = [s \in Strands |-> <<>>] /\ updates = {}
  BY DEF Init
<1>2. reducer_map \in [Strands -> Seq(Labels)] /\ slot \in [Strands -> Seq(Labels)]
  BY <1>1, EmptyMap
<1>3. \A i \in Cells : Maps[i] = <<>>
  <2>1. \A s \in Strands : Maps[Place(s)] = <<>> /\ Maps[2 * s] = <<>>
    BY <1>1, PlaceIs DEF Maps
  <2>2. QED
    BY <2>1, PlaceIs
<1>4. Maps \in [Cells -> Seq(Labels)]
  BY <1>2, RowType DEF Maps
<1>5. \A i \in Cells : Parts(Maps)[i] = {}
  BY <1>3, EmptyMap DEF Parts
<1>6. Sorted(Maps, Running, 2 * spawned + 1)
  BY <1>3, <1>4, <1>5, EmptyMap DEF Sorted, Ordered, Bounded
<1>7. All(Parts(Maps)) = {}
  BY <1>5 DEF All
<1>8. MapInv
  BY <1>1, <1>2, <1>6, <1>7 DEF MapInv
<1>9. QED
  BY <1>1, <1>8 DEF ClearInv

LEMMA NextMaps == IInv /\ MapInv /\ ClearInv /\ [Next]_vars => MapInv' /\ ClearInv'
<1> SUFFICES ASSUME IInv, MapInv, ClearInv, [Next]_vars PROVE MapInv' /\ ClearInv'
  OBVIOUS
<1> USE Facts
<1>1. CASE Steal
  BY <1>1, StealMaps
<1>2. CASE Sync \/ c_sync_except
  <2>1. Leave(0) /\ Goto(0, "reduce")
    BY <1>2 DEF Sync, c_sync_except
  <2>2. QED
    BY <2>1, LeaveMaps
<1>3. CASE CallAgain
  BY <1>3, CallAgainMaps
<1>4. ASSUME NEW c \in Children, Child(c) PROVE MapInv' /\ ClearInv'
  <2>1. CASE Return(c) \/ exception_from_spawn(c)
    <3>1. Leave(c) /\ Goto(c, "return") /\ c # 0 /\ c \in Strands
      BY <2>1 DEF Return, exception_from_spawn
    <3>2. QED
      BY <3>1, LeaveMaps
  <2>2. CASE FastPath(c) \/ SlowPath(c)
    BY <2>2, ChildMaps
  <2>3. CASE Jump(c) \/ DoReturnFromSpawn(c)
    BY <2>3, RuntimeMaps DEF DoReturnFromSpawn
  <2>4. QED
    BY <1>4, <2>1, <2>2, <2>3 DEF Child
<1>5. CASE Frame
  <2>1. CASE Jump(0) \/ DoSync
    BY <2>1, RuntimeMaps DEF DoSync
  <2>2. QED
    BY <1>5, <2>1, SyncMaps, ResumeMaps DEF Frame
<1>6. CASE UNCHANGED vars
  <2>1. UNCHANGED <<maps, spawned, pc, unsynched>>
    BY <1>6 DEF vars, tree
  <2>2. Running' = Running /\ Linked' = Linked /\ (pc'[0] \in {"run", "reduce"} \/ reducer_map[0] = <<>>)
    BY <2>1 DEF Running, Linked, ClearInv
  <2>3. QED
    BY <2>1, <2>2, KeepMaps
<1>7. QED
  BY <1>1, <1>2, <1>3, <1>4, <1>5, <1>6 DEF Next

LEMMA MapsInvariance == Spec => [](IInv /\ MapInv /\ ClearInv)
<1>1. Init => IInv /\ MapInv /\ ClearInv
  BY InitStep, InitMaps
<1>2. IInv /\ MapInv /\ ClearInv /\ [Next]_vars => (IInv /\ MapInv /\ ClearInv)'
  BY NextStep, NextMaps
<1>3. QED
  BY <1>1, <1>2, PTL DEF Spec

-----------------------------------------------------------------------------
(* The maps read from left to right *)

\* A set of natural numbers has a least element.
LEMMA Least == ASSUME NEW T, T \subseteq Nat, T # {} PROVE \E x \in T : \A y \in T : ~(y < x)
<1> DEFINE R == {ss \in Nat \X Nat : ss[1] < ss[2]}
<1>1. IsWellFoundedOn(R, Nat)
  BY NatLessThanWellFounded DEF OpToRel
<1> HIDE DEF R
<1>2. PICK x \in T : \A y \in T : ~(<<y, x>> \in R)
  BY <1>1, WFMin
<1>3. QED
  BY <1>2 DEF R

\* The recursive definition of ReadTo has a solution.
ReadUpTo(n, f) ==
    f = [c \in 0..n |-> IF c = 0 THEN slot[0] ELSE f[c - 1] \o reducer_map[c] \o slot[c]]

LEMMA ReadExists == ASSUME NEW n \in Nat PROVE \E f : ReadUpTo(n, f)
<1> PICK T : T = {m \in Nat : ~\E f : ReadUpTo(m, f)}
  OBVIOUS
<1>1. SUFFICES ASSUME T # {} PROVE FALSE
  OBVIOUS
<1>2. PICK m \in T : \A k \in T : ~(k < m)
  BY <1>1, Least
<1>3. m \in Nat /\ ~\E f : ReadUpTo(m, f)
  OBVIOUS
<1>4. m # 0
  <2>1. ASSUME m = 0 PROVE FALSE
    <3>1. PICK f : f = [c \in 0..0 |-> slot[0]]
      OBVIOUS
    <3>2. f = [c \in 0..0 |-> IF c = 0 THEN slot[0] ELSE f[c - 1] \o reducer_map[c] \o slot[c]]
      BY <3>1
    <3>3. QED
      BY <1>3, <2>1, <3>2 DEF ReadUpTo
  <2>2. QED
    BY <2>1
<1>5. m - 1 \in Nat /\ m - 1 \notin T
  BY <1>2, <1>3, <1>4
<1>6. PICK g : ReadUpTo(m - 1, g)
  BY <1>5
<1>7. /\ g[0] = slot[0]
      /\ \A c \in 1..(m - 1) : g[c] = g[c - 1] \o reducer_map[c] \o slot[c]
  <2>1. 0 \in 0..(m - 1) /\ \A c \in 1..(m - 1) : c \in 0..(m - 1) /\ c # 0
    BY <1>3, <1>4
  <2>2. g = [c \in 0..(m - 1) |-> IF c = 0 THEN slot[0] ELSE g[c - 1] \o reducer_map[c] \o slot[c]]
    BY <1>6 DEF ReadUpTo
  <2>3. \A c \in 0..(m - 1) : g[c] = IF c = 0 THEN slot[0] ELSE g[c - 1] \o reducer_map[c] \o slot[c]
    BY <2>2
  <2>4. QED
    BY <2>1, <2>3
<1>8. PICK f : f = [c \in 0..m |-> IF c = m THEN g[m - 1] \o reducer_map[m] \o slot[m] ELSE g[c]]
  OBVIOUS
<1>9. \A c \in 0..m : c # m => f[c] = g[c]
  BY <1>8
<1>10. \A c \in 1..m : f[c - 1] = g[c - 1]
  BY <1>3, <1>9
<1>11. ASSUME NEW c \in 0..m
       PROVE  f[c] = IF c = 0 THEN slot[0] ELSE f[c - 1] \o reducer_map[c] \o slot[c]
  <2>1. CASE c = 0
    BY <1>4, <1>7, <1>9, <2>1
  <2>2. CASE c = m
    <3>1. f[m] = g[m - 1] \o reducer_map[m] \o slot[m] /\ f[m - 1] = g[m - 1]
      BY <1>3, <1>4, <1>8, <1>10
    <3>2. QED
      BY <1>4, <2>2, <3>1
  <2>3. CASE c \in 1..(m - 1)
    <3>1. f[c] = g[c] /\ f[c - 1] = g[c - 1] /\ c # 0
      BY <1>3, <1>9, <1>10, <2>3
    <3>2. QED
      BY <1>7, <2>3, <3>1
  <2>4. QED
    BY <1>3, <2>1, <2>2, <2>3
<1>12. f = [c \in 0..m |-> IF c = 0 THEN slot[0] ELSE f[c - 1] \o reducer_map[c] \o slot[c]]
  BY <1>8, <1>11
<1>13. QED
  BY <1>3, <1>12 DEF ReadUpTo

LEMMA ReadToIs ==
    /\ ReadTo[0] = slot[0]
    /\ \A c \in Children : ReadTo[c] = ReadTo[c - 1] \o reducer_map[c] \o slot[c]
<1> USE Facts
<1>1. \E f : f = [c \in Strands |-> IF c = 0 THEN slot[0] ELSE f[c - 1] \o reducer_map[c] \o slot[c]]
  BY ReadExists DEF ReadUpTo, Strands
<1>2. ReadTo = [c \in Strands |-> IF c = 0 THEN slot[0] ELSE ReadTo[c - 1] \o reducer_map[c] \o slot[c]]
  BY <1>1 DEF ReadTo
<1>3. \A c \in Strands : ReadTo[c] = IF c = 0 THEN slot[0] ELSE ReadTo[c - 1] \o reducer_map[c] \o slot[c]
  BY <1>2
<1>4. QED
  BY <1>3

\* What is read up to c is in order, and is what the cells up to c's have.
Upto(k) == {i \in Cells : i <= k}
Reads(c) ==
    /\ ReadTo[c] \in Seq(Labels) /\ Increasing(ReadTo[c])
    /\ Range(ReadTo[c]) = UNION {Range(Maps[i]) : i \in Upto(2 * c)}

\* A cell is read after those to its left.
LEMMA ReadsOn ==
    ASSUME MapInv, NEW k \in Cells, k - 1 \in Cells, NEW s \in Seq(Labels), Increasing(s),
           Range(s) = UNION {Range(Maps[i]) : i \in Upto(k - 1)}
    PROVE  /\ s \o Maps[k] \in Seq(Labels) /\ Increasing(s \o Maps[k])
           /\ Range(s \o Maps[k]) = UNION {Range(Maps[i]) : i \in Upto(k)}
<1>1. Maps \in [Cells -> Seq(Labels)] /\ Maps[k] \in Seq(Labels) /\ Increasing(Maps[k])
  BY DEF MapInv, Sorted
<1>2. \A i, j \in Cells : i < j => \A x \in Range(Maps[i]), y \in Range(Maps[j]) : x < y
  BY DEF MapInv, Sorted, Ordered, Parts
<1>3. \A i \in Cells : i \in Int /\ (i \in Upto(k - 1) => i < k)
  BY DEF Upto, Cells
<1>4. \A x \in Range(s), y \in Range(Maps[k]) : x < y
  <2>1. ASSUME NEW x \in Range(s), NEW y \in Range(Maps[k]) PROVE x < y
    <3>1. PICK i \in Upto(k - 1) : x \in Range(Maps[i])
      OBVIOUS
    <3>2. i \in Cells /\ i < k
      BY <1>3 DEF Upto
    <3>3. QED
      BY <1>2, <3>1, <3>2
  <2>2. QED
    BY <2>1
<1>5. s \o Maps[k] \in Seq(Labels) /\ Range(s \o Maps[k]) = Range(s) \cup Range(Maps[k])
  BY <1>1, ConcatProperties, RangeConcatenation
<1>6. Increasing(s \o Maps[k])
  BY <1>1, <1>4, ConcatIncreases
<1>7. Upto(k) = Upto(k - 1) \cup {k}
  BY <1>3 DEF Upto
<1>8. PICK r, j : r = s \o Maps[k] /\ j = k - 1
  OBVIOUS
<1>9. Range(r) = UNION {Range(Maps[i]) : i \in Upto(k)}
  <2>1. Range(r) = Range(s) \cup Range(Maps[k])
    BY <1>5, <1>8
  <2>2. \A x : x \in Range(s) <=> \E i \in Upto(j) : x \in Range(Maps[i])
    BY <1>8
  <2>3. \A x : x \in Range(r) <=> \E i \in Upto(j) \cup {k} : x \in Range(Maps[i])
    BY <2>1, <2>2
  <2>4. Upto(k) = Upto(j) \cup {k}
    BY <1>7, <1>8
  <2>5. QED
    BY <2>3, <2>4
<1>10. QED
  BY <1>5, <1>6, <1>8, <1>9

LEMMA AllReads == ASSUME MapInv, NEW c \in Strands PROVE Reads(c)
<1> USE Facts
<1>1. PICK T : T = {m \in Strands : ~Reads(m)}
  OBVIOUS
<1>2. T \subseteq Nat
  BY <1>1 DEF Strands
<1>3. SUFFICES ASSUME T # {} PROVE FALSE
  BY <1>1
<1>4. PICK m \in T : \A k \in T : ~(k < m)
  BY <1>2, <1>3, Least
<1>5. m \in Strands /\ ~Reads(m)
  BY <1>1
<1>6. Maps \in [Cells -> Seq(Labels)] /\ \A i \in Cells : Increasing(Maps[i])
  BY DEF MapInv, Sorted
<1>7. CASE m = 0
  <2>1. 0 \in Cells /\ Upto(2 * 0) = {0}
    BY DEF Cells, Upto
  <2>2. Maps[0] = slot[0]
    <3>1. Maps[2 * 0] = slot[0] /\ 2 * 0 = 0
      BY MapsIs
    <3>2. QED
      BY <3>1
  <2>3. ReadTo[0] = Maps[0]
    BY <2>2, ReadToIs
  <2>4. Reads(0)
    BY <1>6, <2>1, <2>3 DEF Reads
  <2>5. QED
    BY <1>5, <1>7, <2>4
<1>8. CASE m # 0
  <2>1. m \in Children /\ m - 1 \in Strands /\ m - 1 < m /\ m \in Int
    BY <1>5, <1>8 DEF Strands, Children
  <2>2. Reads(m - 1)
    BY <1>1, <1>4, <2>1
  <2>3. PICK p : p = ReadTo[m - 1]
    OBVIOUS
  <2>4. PICK k : k = 2 * m - 1
    OBVIOUS
  <2>5. /\ 2 * (m - 1) = k - 1 /\ k = Place(m) /\ k + 1 = 2 * m /\ (k + 1) - 1 = k
        /\ k \in Cells /\ k - 1 \in Cells /\ k + 1 \in Cells
    BY <2>1, <2>4 DEF Place, Cells, Children
  <2>6. p \in Seq(Labels) /\ Increasing(p) /\ Range(p) = UNION {Range(Maps[i]) : i \in Upto(k - 1)}
    BY <2>2, <2>3, <2>5 DEF Reads
  <2>7. PICK q : q = p \o Maps[k]
    OBVIOUS
  <2>8. q \in Seq(Labels) /\ Increasing(q) /\ Range(q) = UNION {Range(Maps[i]) : i \in Upto(k)}
    BY <2>5, <2>6, <2>7, ReadsOn
  <2>9. PICK r : r = q \o Maps[k + 1]
    OBVIOUS
  <2>10. r \in Seq(Labels) /\ Increasing(r) /\ Range(r) = UNION {Range(Maps[i]) : i \in Upto(k + 1)}
    <3>1. PICK j : j = k + 1
      OBVIOUS
    <3>2. j \in Cells /\ j - 1 = k
      BY <2>5, <3>1
    <3>3. QED
      BY <2>5, <2>8, <2>9, <3>1, <3>2, ReadsOn
  <2>11. ReadTo[m] = r
    <3>1. ReadTo[m] = p \o reducer_map[m] \o slot[m]
      BY <2>1, <2>3, ReadToIs
    <3>2. reducer_map[m] = Maps[k] /\ slot[m] = Maps[k + 1]
      BY <2>1, <2>5, MapsIs
    <3>3. QED
      BY <2>7, <2>9, <3>1, <3>2
  <2>12. QED
    BY <1>5, <2>5, <2>10, <2>11 DEF Reads
<1>9. QED
  BY <1>7, <1>8

LEMMA SerialNow == MapInv => SerialOrder
<1> SUFFICES ASSUME MapInv PROVE SerialOrder
  OBVIOUS
<1> USE Facts
<1>1. PICK k : k = 2 * N + 1
  OBVIOUS
<1>2. N \in Strands /\ k \in Cells /\ k - 1 = 2 * N /\ k - 1 \in Cells /\ k = Place(0)
  BY <1>1 DEF Strands, Cells, Place
<1>3. Reads(N)
  BY <1>2, AllReads
<1>4. PICK s : s = ReadTo[N]
  OBVIOUS
<1>5. s \in Seq(Labels) /\ Increasing(s) /\ Range(s) = UNION {Range(Maps[i]) : i \in Upto(k - 1)}
  BY <1>2, <1>3, <1>4 DEF Reads
<1>6. PICK all : all = ReadTo[N] \o reducer_map[0]
  OBVIOUS
<1>7. all = s \o Maps[k]
  BY <1>2, <1>4, <1>6, MapsIs
<1>8. Increasing(all) /\ Range(all) = UNION {Range(Maps[i]) : i \in Upto(k)}
  BY <1>2, <1>5, <1>7, ReadsOn
<1>9. Upto(k) = Cells
  BY <1>1 DEF Upto, Cells
<1>10. updates = UNION {Range(Maps[i]) : i \in Cells}
  <2>1. \A i \in Cells : Parts(Maps)[i] = Range(Maps[i])
    BY DEF Parts
  <2>2. QED
    BY <2>1 DEF MapInv, All
<1>11. {all[i] : i \in DOMAIN all} = updates
  BY <1>8, <1>9, <1>10 DEF Range
<1>12. QED
  BY <1>6, <1>8, <1>11 DEF SerialOrder, Increasing

\* Whatever the order of returns, merges and steals, the reducer maps hold every
\* update once, in serial order (merge_reducer_maps in reducer_impl.cpp, and the
\* splices of slow_path_reductions_for_spawn_return and of
\* slow_path_reductions_for_sync in scheduler.c).
THEOREM SerialOrderTheorem == Spec => []SerialOrder
<1>1. IInv /\ MapInv /\ ClearInv => SerialOrder
  BY SerialNow
<1>2. QED
  BY <1>1, MapsInvariance, PTL

-----------------------------------------------------------------------------
(* Exceptions *)

\* The state of the thread in which a record was made: its own exception had
\* not been thrown.
Base(info) ==
    IF info = NULL THEN Calm
    ELSE [caught   |-> info.runtime_state.caught,
          uncaught |-> info.runtime_state.uncaught - (IF info.active = None THEN 0 ELSE 1)]

Own == [s \in Strands |-> IF pc[s] = "run" THEN eh_globals[s] ELSE Base(pending_exception[s])]
Bases == Row(Own, [s \in Strands |-> Base(thrown_slot[s])])
Actives == Row([s \in Strands |-> except_data(pending_exception[s])],
               [s \in Strands |-> except_data(thrown_slot[s])])

ExcTypes ==
    /\ pending_exception \in [Strands -> Infos \cup {NULL}]
    /\ thrown_slot \in [Strands -> Infos \cup {NULL}]
    /\ eh_globals \in [Strands -> EhGlobals] /\ entry \in Entries

\* Where there is nothing.
CalmInv ==
    /\ \A c \in Children \ Linked : pending_exception[c] = NULL /\ thrown_slot[c] = NULL
    /\ \A s \in Strands : IF pc[s] = "run" THEN pending_exception[s] = NULL ELSE eh_globals[s] = Calm
    /\ unsynched => /\ eh_globals[0] = Calm
                    /\ pc[0] \notin {"run", "reduce"} => pending_exception[0] = NULL
    /\ ~unsynched => thrown_slot[0] = NULL /\ (pc[0] = "run" => thrown = {})

\* One place has the state that the frame was called with.
OneHas(B, state) == \E i \in Cells : B[i] = state /\ \A j \in Cells \ {i} : B[j] = Calm

Sets(A) == [i \in Cells |-> {A[i]} \ {None}]

\* The exceptions from left to right are in serial order, and no earlier one
\* than they all has been thrown.
Leads(A, running, top, all) ==
    /\ A \in [Cells -> Labels \cup {None}] /\ all \subseteq Labels
    /\ Ordered(Sets(A)) /\ Bounded(Sets(A), running, top)
    /\ \A i \in Cells : A[i] # None => A[i] \in all
    /\ \A y \in all : y <= top /\ \E i \in Cells : A[i] # None /\ A[i] <= y

FirstInv ==
    /\ Leads(Actives, Running, 2 * spawned + 1, thrown)
    /\ pc[0] = "run" \/ (pc[0] = "ready" /\ unsynched) => 2 * spawned + 1 \notin thrown

ExcInv == ExcTypes /\ CalmInv /\ OneHas(Bases, entry) /\ FirstInv

LEMMA BaseIs ==
    ASSUME NEW info \in Infos
    PROVE  /\ info # NULL /\ except_data(info) = info.active /\ info.active \in Labels \cup {None}
           /\ info.runtime_state \in EhGlobals /\ info = make(info.runtime_state, info.active)
           /\ Base(info) = [caught   |-> info.runtime_state.caught,
                            uncaught |-> info.runtime_state.uncaught
                                           - (IF info.active = None THEN 0 ELSE 1)]
<1>1. info # NULL
  BY EntryAssumption
<1>2. QED
  BY <1>1 DEF Infos, Base, except_data, make

LEMMA NoRecord == Base(NULL) = Calm /\ except_data(NULL) = None
  BY DEF Base, except_data

LEMMA CalmIs == Calm \in EhGlobals /\ Calm.caught = <<>> /\ Calm.uncaught = 0
  BY DEF Calm, EhGlobals

\* Of two records one of which comes from a calm thread, the merge keeps the
\* state of the other and the earlier exception.
LEMMA MergeIs ==
    ASSUME NEW left \in Infos \cup {NULL}, NEW right \in Infos \cup {NULL},
           Calm \in {Base(left), Base(right)}
    PROVE  /\ merge_pending_exceptions(left, right) \in Infos \cup {NULL}
           /\ Base(merge_pending_exceptions(left, right)) =
                 IF Base(left) = Calm THEN Base(right) ELSE Base(left)
           /\ except_data(merge_pending_exceptions(left, right)) =
                 IF except_data(left) # None THEN except_data(left) ELSE except_data(right)
<1> PICK merge : merge = merge_pending_exceptions(left, right)
  OBVIOUS
<1>1. CASE left = NULL
  <2>1. merge = right
    BY <1>1 DEF merge_pending_exceptions
  <2>2. QED
    BY <1>1, <2>1, NoRecord
<1>2. CASE left # NULL /\ right = NULL
  <2>1. merge = left
    BY <1>2 DEF merge_pending_exceptions
  <2>2. Base(left) = Calm => Base(left) = Base(right)
    BY <1>2, NoRecord
  <2>3. QED
    BY <1>2, <2>1, <2>2, NoRecord
<1>3. CASE left \in Infos /\ right \in Infos
  <2>1. PICK la, ls, ra, rs : la = left.active /\ ls = left.runtime_state
                              /\ ra = right.active /\ rs = right.runtime_state
    OBVIOUS
  <2>2. PICK l1, r1 : l1 = (IF la = None THEN 0 ELSE 1) /\ r1 = (IF ra = None THEN 0 ELSE 1)
    OBVIOUS
  <2>3. /\ la \in Labels \cup {None} /\ ra \in Labels \cup {None} /\ ls \in EhGlobals /\ rs \in EhGlobals
        /\ except_data(left) = la /\ except_data(right) = ra
        /\ Base(left) = [caught |-> ls.caught, uncaught |-> ls.uncaught - l1]
        /\ Base(right) = [caught |-> rs.caught, uncaught |-> rs.uncaught - r1]
    BY <1>3, <2>1, <2>2, BaseIs
  <2>4. PICK a, b, u : /\ a = (IF la # None THEN la ELSE ra)
                       /\ b = (IF ls.caught # <<>> THEN ls.caught ELSE rs.caught)
                       /\ u = ls.uncaught + rs.uncaught - (IF la # None /\ ra # None THEN 1 ELSE 0)
    OBVIOUS
  <2>5. PICK merged : merged = [active |-> a, runtime_state |-> [caught |-> b, uncaught |-> u]]
    OBVIOUS
  <2>6. merge = IF empty(merged) THEN NULL ELSE merged
    BY <1>3, <2>1, <2>4, <2>5, BaseIs DEF merge_pending_exceptions, merge_uncaught
  <2>7. /\ ls.uncaught \in Nat /\ rs.uncaught \in Nat
        /\ ls.caught \in {<<>>} \cup {e.caught : e \in Entries}
        /\ rs.caught \in {<<>>} \cup {e.caught : e \in Entries}
    BY <2>3 DEF EhGlobals
  <2>8. PICK a1 : a1 = IF a = None THEN 0 ELSE 1
    OBVIOUS
  <2>9. /\ Base(left) = Calm => ls.caught = <<>> /\ ls.uncaught - l1 = 0
        /\ Base(right) = Calm => rs.caught = <<>> /\ rs.uncaught - r1 = 0
    BY <2>3 DEF Calm
  <2>10. u \in Nat /\ (Base(left) = Calm => u - a1 = rs.uncaught - r1)
         /\ (Base(right) = Calm => u - a1 = ls.uncaught - l1)
    <3>1. /\ a1 = IF l1 = 0 /\ r1 = 0 THEN 0 ELSE 1
          /\ l1 \in {0, 1} /\ r1 \in {0, 1}
          /\ u = ls.uncaught + rs.uncaught - (IF l1 = 1 /\ r1 = 1 THEN 1 ELSE 0)
      BY <2>2, <2>4, <2>8
    <3>2. (Base(left) = Calm => ls.uncaught - l1 = 0) /\ (Base(right) = Calm => rs.uncaught - r1 = 0)
      BY <2>9
    <3>3. PICK lu, ru : lu = ls.uncaught /\ ru = rs.uncaught
      OBVIOUS
    <3>4. /\ lu \in Nat /\ ru \in Nat /\ (Base(left) = Calm => lu = l1) /\ (Base(right) = Calm => ru = r1)
      BY <2>7, <3>1, <3>2, <3>3
    <3>5. u = lu + ru - (IF l1 = 1 /\ r1 = 1 THEN 1 ELSE 0)
      BY <3>1, <3>3
    <3>6. u \in Nat /\ (Base(left) = Calm => u - a1 = ru - r1) /\ (Base(right) = Calm => u - a1 = lu - l1)
      <4>1. CASE l1 = 0 /\ r1 = 0
        BY <3>1, <3>4, <3>5, <4>1
      <4>2. CASE l1 = 0 /\ r1 = 1
        BY <3>1, <3>4, <3>5, <4>2
      <4>3. CASE l1 = 1 /\ r1 = 0
        BY <3>1, <3>4, <3>5, <4>3
      <4>4. CASE l1 = 1 /\ r1 = 1
        <5>1. lu >= 1 \/ ru >= 1
          BY <3>4, <4>4
        <5>2. QED
          BY <3>1, <3>4, <3>5, <4>4, <5>1
      <4>5. QED
        BY <3>1, <4>1, <4>2, <4>3, <4>4
    <3>7. QED
      BY <3>3, <3>6
  <2>11. /\ Base(left) = Calm => b = rs.caught
         /\ Base(right) = Calm => b = ls.caught
    BY <2>4, <2>9
  <2>12. merged \in Infos
    BY <2>3, <2>4, <2>5, <2>7, <2>10 DEF Infos, EhGlobals
  <2>13. except_data(merged) = a /\ Base(merged) = [caught |-> b, uncaught |-> u - a1]
    BY <2>5, <2>8, <2>12, BaseIs
  <2>14. Base(merged) = IF Base(left) = Calm THEN Base(right) ELSE Base(left)
    BY <2>3, <2>10, <2>11, <2>13
  <2>15. empty(merged) => a = None /\ Base(merged) = Calm
    BY <2>5, <2>8, <2>13 DEF empty, Calm
  <2>16. QED
    BY <2>3, <2>4, <2>6, <2>12, <2>13, <2>14, <2>15, NoRecord
<1>4. QED
  BY <1>1, <1>2, <1>3

\* What is in two cells, with no exception between them, is merged in one.
Joins(A, A2, B, B2, i, k, d) ==
    /\ A2 \in [Cells -> Labels \cup {None}]
    /\ i \in Cells /\ k \in Cells /\ i < k /\ d \in {i, k}
    /\ A2[d] = (IF A[i] # None THEN A[i] ELSE A[k]) /\ A2[i + k - d] = None
    /\ B2[d] = (IF B[i] = Calm THEN B[k] ELSE B[i]) /\ B2[i + k - d] = Calm
    /\ \A j \in Cells \ {i, k} : A2[j] = A[j] /\ B2[j] = B[j] /\ (i < j /\ j < k => A[j] = None)

LEMMA JoinsIs ==
    ASSUME NEW A, NEW A2, NEW B, NEW B2, NEW i, NEW k, NEW d, Joins(A, A2, B, B2, i, k, d)
    PROVE  /\ i \in Cells /\ k \in Cells /\ d \in Cells /\ i \in Int /\ k \in Int /\ i < k /\ d \in {i, k}
           /\ A2[d] = (IF A[i] # None THEN A[i] ELSE A[k])
           /\ B2[d] = (IF B[i] = Calm THEN B[k] ELSE B[i])
           /\ \A j \in {i, k} \ {d} : A2[j] = None /\ B2[j] = Calm
           /\ \A j \in Cells \ {i, k} : A2[j] = A[j] /\ B2[j] = B[j] /\ (i < j /\ j < k => A[j] = None)
<1>1. i \in Cells /\ k \in Cells /\ d \in Cells /\ i \in Int /\ k \in Int /\ i < k /\ d \in {i, k}
  BY DEF Joins, Cells
<1>2. ASSUME NEW j \in {i, k} \ {d} PROVE i + k - d = j
  BY <1>1
<1>3. QED
  BY <1>1, <1>2 DEF Joins

LEMMA JoinsHas ==
    ASSUME NEW A, NEW A2, NEW B, NEW B2, NEW i, NEW k, NEW d, Joins(A, A2, B, B2, i, k, d),
           NEW state, OneHas(B, state)
    PROVE  OneHas(B2, state)
<1>1. PICK p \in Cells : B[p] = state /\ \A j \in Cells \ {p} : B[j] = Calm
  BY DEF OneHas
<1>2. /\ i \in Cells /\ k \in Cells /\ d \in Cells /\ i # k /\ d \in {i, k}
      /\ B2[d] = (IF B[i] = Calm THEN B[k] ELSE B[i])
      /\ \A j \in {i, k} \ {d} : B2[j] = Calm
      /\ \A j \in Cells \ {i, k} : B2[j] = B[j]
  BY JoinsIs
<1>3. CASE p \notin {i, k}
  BY <1>1, <1>2, <1>3 DEF OneHas
<1>4. CASE p \in {i, k}
  <2>1. B2[d] = state
    BY <1>1, <1>2, <1>4
  <2>2. \A j \in Cells \ {d} : B2[j] = Calm
    BY <1>1, <1>2, <1>4
  <2>3. QED
    BY <1>2, <2>1, <2>2 DEF OneHas
<1>5. QED
  BY <1>3, <1>4

LEMMA SetsAre ==
    ASSUME NEW A \in [Cells -> Labels \cup {None}]
    PROVE  /\ \A j \in Cells : \A x : x \in Sets(A)[j] <=> x = A[j] /\ x # None
           /\ \A j \in Cells : Sets(A)[j] \subseteq Labels /\ Sets(A)[j] \subseteq Int /\ A[j] \in Int
<1>1. \A j \in Cells : A[j] \in Labels \cup {None} /\ Sets(A)[j] = {A[j]} \ {None}
  BY DEF Sets
<1>2. None \in Int
  BY DEF None
<1>3. \A j \in Cells : \A x : x \in Sets(A)[j] <=> x = A[j] /\ x # None
  BY <1>1
<1>4. \A j \in Cells : Sets(A)[j] \subseteq Labels
  BY <1>1
<1>5. QED
  BY <1>1, <1>2, <1>3, <1>4, LabelsAre

LEMMA JoinsLead ==
    ASSUME NEW A, NEW A2, NEW B, NEW B2, NEW i, NEW k, NEW d, Joins(A, A2, B, B2, i, k, d),
           NEW running, NEW top, NEW all, Leads(A, running, top, all),
           \A c \in running : c \in Int /\ ~(i <= 2 * c - 1 /\ 2 * c - 1 <= k)
    PROVE  Leads(A2, running, top, all)
<1>1. /\ i \in Cells /\ k \in Cells /\ d \in Cells /\ i \in Int /\ k \in Int /\ i < k /\ d \in {i, k}
      /\ A2[d] = (IF A[i] # None THEN A[i] ELSE A[k])
      /\ \A j \in {i, k} \ {d} : A2[j] = None
      /\ \A j \in Cells \ {i, k} : A2[j] = A[j] /\ (i < j /\ j < k => A2[j] = None)
  <2>1. \A j \in Cells \ {i, k} : A2[j] = A[j] /\ (i < j /\ j < k => A[j] = None)
    BY JoinsIs
  <2>2. QED
    BY <2>1, JoinsIs
<1>2. A \in [Cells -> Labels \cup {None}] /\ A2 \in [Cells -> Labels \cup {None}]
  BY DEF Leads, Joins
<1>3. \A j \in Cells : j \in Int
  BY DEF Cells
<1>4. Gathers(Sets(A), Sets(A2), i, k, d)
  <2>1. i <= d /\ d <= k
    BY <1>1
  <2>2. ASSUME NEW j \in Cells, j # d PROVE Sets(A2)[j] \subseteq Sets(A)[j]
    <3>1. A2[j] = None \/ A2[j] = A[j]
      BY <1>1, <2>2
    <3>2. QED
      BY <1>2, <3>1, SetsAre
  <2>3. ASSUME NEW j \in Cells, j # d, i <= j, j <= k PROVE Sets(A2)[j] = {}
    <3>1. A2[j] = None
      BY <1>1, <1>3, <2>3
    <3>2. QED
      BY <1>2, <3>1, SetsAre
  <2>4. ASSUME NEW x \in Sets(A2)[d] PROVE \E j \in Cells : i <= j /\ j <= k /\ x \in Sets(A)[j]
    <3>1. x = A2[d] /\ x # None
      BY <1>1, <1>2, SetsAre
    <3>2. CASE A[i] # None
      BY <1>1, <1>2, <3>1, <3>2, SetsAre
    <3>3. CASE A[i] = None
      BY <1>1, <1>2, <3>1, <3>3, SetsAre
    <3>4. QED
      BY <3>2, <3>3
  <2>5. QED
    BY <1>1, <2>1, <2>2, <2>3, <2>4 DEF Gathers
<1>5. Ordered(Sets(A2)) /\ Bounded(Sets(A2), running, top)
  <2>1. \A j \in Cells : Sets(A)[j] \subseteq Int
    BY <1>2, SetsAre
  <2>2. Ordered(Sets(A)) /\ Bounded(Sets(A), running, top) /\ running \in SUBSET running
    BY DEF Leads
  <2>3. Ordered(Sets(A2))
    BY <1>4, <2>1, <2>2, GathersOrder
  <2>4. Bounded(Sets(A2), running, top)
    BY <1>4, <2>2, GathersBound
  <2>5. QED
    BY <2>3, <2>4
<1>6. \A j \in Cells : A2[j] # None => A2[j] \in all
  <2>1. \A j \in Cells : A[j] # None => A[j] \in all
    BY DEF Leads
  <2>2. QED
    BY <1>1, <2>1
<1>7. ASSUME NEW y \in all PROVE y <= top /\ \E j \in Cells : A2[j] # None /\ A2[j] <= y
  <2>1. y <= top
    BY DEF Leads
  <2>2. PICK p \in Cells : A[p] # None /\ A[p] <= y
    BY DEF Leads
  <2>3. CASE p \notin {i, k} \/ p = i \/ (p = k /\ A[i] = None)
    BY <1>1, <2>1, <2>2, <2>3
  <2>4. CASE p = k /\ A[i] # None
    <3>1. A[i] < A[k] /\ A[i] \in Int /\ A[k] \in Int
      <4>1. A[i] \in Sets(A)[i] /\ A[k] \in Sets(A)[k] /\ Ordered(Sets(A))
        BY <1>1, <1>2, <2>2, <2>4, SetsAre DEF Leads
      <4>2. A[i] < A[k]
        BY <1>1, <4>1 DEF Ordered
      <4>3. QED
        BY <1>1, <1>2, <4>2, SetsAre
    <3>2. y \in Int
      BY LabelsAre DEF Leads
    <3>3. A[i] <= y
      BY <2>2, <2>4, <3>1, <3>2
    <3>4. QED
      BY <1>1, <2>1, <2>4, <3>3
  <2>5. QED
    BY <2>3, <2>4
<1>8. QED
  BY <1>2, <1>5, <1>6, <1>7 DEF Leads

LEMMA RowsAre ==
    ASSUME ExcTypes
    PROVE  /\ Actives \in [Cells -> Labels \cup {None}]
           /\ \A s \in Strands :
                 /\ Actives[Place(s)] = except_data(pending_exception[s])
                 /\ Actives[2 * s] = except_data(thrown_slot[s])
                 /\ Bases[Place(s)] = IF pc[s] = "run" THEN eh_globals[s] ELSE Base(pending_exception[s])
                 /\ Bases[2 * s] = Base(thrown_slot[s])
<1>1. \A info \in Infos \cup {NULL} : except_data(info) \in Labels \cup {None}
  BY BaseIs, NoRecord
<1>2. /\ [s \in Strands |-> except_data(pending_exception[s])] \in [Strands -> Labels \cup {None}]
      /\ [s \in Strands |-> except_data(thrown_slot[s])] \in [Strands -> Labels \cup {None}]
  BY <1>1 DEF ExcTypes
<1>3. Actives \in [Cells -> Labels \cup {None}]
  BY <1>2, RowType DEF Actives
<1>4. \A s \in Strands :
         /\ Actives[Place(s)] = except_data(pending_exception[s])
         /\ Actives[2 * s] = except_data(thrown_slot[s])
  BY PlaceIs DEF Actives
<1>5. \A s \in Strands :
         /\ Bases[Place(s)] = IF pc[s] = "run" THEN eh_globals[s] ELSE Base(pending_exception[s])
         /\ Bases[2 * s] = Base(thrown_slot[s])
  BY PlaceIs DEF Bases, Own
<1>6. QED
  BY <1>3, <1>4, <1>5

LEMMA RowsThen ==
    ASSUME ExcTypes'
    PROVE  /\ Actives' \in [Cells -> Labels \cup {None}]
           /\ \A s \in Strands :
                 /\ Actives'[Place(s)] = except_data(pending_exception'[s])
                 /\ Actives'[2 * s] = except_data(thrown_slot'[s])
                 /\ Bases'[Place(s)] = IF pc'[s] = "run" THEN eh_globals'[s] ELSE Base(pending_exception'[s])
                 /\ Bases'[2 * s] = Base(thrown_slot'[s])
<1>1. \A info \in Infos \cup {NULL} : except_data(info) \in Labels \cup {None}
  BY BaseIs, NoRecord
<1>2. /\ [s \in Strands |-> except_data(pending_exception'[s])] \in [Strands -> Labels \cup {None}]
      /\ [s \in Strands |-> except_data(thrown_slot'[s])] \in [Strands -> Labels \cup {None}]
  BY <1>1 DEF ExcTypes
<1>3. Row([s \in Strands |-> except_data(pending_exception'[s])],
          [s \in Strands |-> except_data(thrown_slot'[s])]) \in [Cells -> Labels \cup {None}]
  BY <1>2, RowType
<1>4. Actives' = Row([s \in Strands |-> except_data(pending_exception'[s])],
                     [s \in Strands |-> except_data(thrown_slot'[s])])
  BY DEF Actives, Row, except_data
<1>5. Bases' = Row([s \in Strands |-> IF pc'[s] = "run" THEN eh_globals'[s] ELSE Base(pending_exception'[s])],
                   [s \in Strands |-> Base(thrown_slot'[s])])
  BY DEF Bases, Row, Own, Base
<1>6. \A s \in Strands :
         /\ Actives'[Place(s)] = except_data(pending_exception'[s])
         /\ Actives'[2 * s] = except_data(thrown_slot'[s])
  BY <1>4, PlaceIs
<1>7. \A s \in Strands :
         /\ Bases'[Place(s)] = IF pc'[s] = "run" THEN eh_globals'[s] ELSE Base(pending_exception'[s])
         /\ Bases'[2 * s] = Base(thrown_slot'[s])
  BY <1>5, PlaceIs
<1>8. QED
  BY <1>3, <1>4, <1>6, <1>7

LEMMA LeadsLess ==
    ASSUME NEW A, NEW running, NEW run \in SUBSET running, NEW top, NEW all, Leads(A, running, top, all)
    PROVE  Leads(A, run, top, all)
  BY DEF Leads, Bounded

\* An exception is thrown in cell i, where it belongs.
LEMMA LeadsMore ==
    ASSUME NEW A, NEW A2, NEW i \in Cells, NEW x \in Labels, NEW running, NEW top, NEW all,
           Leads(A, running, top, all), A[i] = None, A2 = [A EXCEPT ![i] = x], x <= top,
           \A j \in Cells : \A y \in Sets(A)[j] : IF j <= i THEN y < x ELSE x < y,
           \A c \in running : /\ i < 2 * c - 1 => x < 2 * c
                              /\ i = 2 * c - 1 => x <= 2 * c
                              /\ i > 2 * c - 1 => x > 2 * c
    PROVE  Leads(A2, running, top, all \cup {x})
<1>1. A \in [Cells -> Labels \cup {None}] /\ A2 \in [Cells -> Labels \cup {None}] /\ all \subseteq Labels
  BY DEF Leads
<1>2. A2[i] = x /\ (\A j \in Cells \ {i} : A2[j] = A[j]) /\ \A j \in Cells : j \in Int
  BY <1>1 DEF Cells
<1>3. x # None /\ x \in Int
  BY FrameAssumption DEF Labels, None
<1>4. /\ \A j \in Cells : \A y : y \in Sets(A)[j] <=> y = A[j] /\ y # None
      /\ \A j \in Cells : \A y : y \in Sets(A2)[j] <=> y = A2[j] /\ y # None
  <2>1. \A j \in Cells : \A y : y \in Sets(A)[j] <=> y = A[j] /\ y # None
    BY <1>1, SetsAre
  <2>2. \A j \in Cells : \A y : y \in Sets(A2)[j] <=> y = A2[j] /\ y # None
    BY <1>1, SetsAre
  <2>3. QED
    BY <2>1, <2>2
<1>5. \A j \in Cells : \A y \in Sets(A2)[j] : (y \in Sets(A)[j] /\ j # i) \/ (j = i /\ y = x)
  <2>1. ASSUME NEW j \in Cells, NEW y \in Sets(A2)[j]
        PROVE  (y \in Sets(A)[j] /\ j # i) \/ (j = i /\ y = x)
    BY <1>2, <1>4
  <2>2. QED
    BY <2>1
<1>6. Ordered(Sets(A2))
  <2> SUFFICES ASSUME NEW j \in Cells, NEW k \in Cells, j < k,
                      NEW y \in Sets(A2)[j], NEW z \in Sets(A2)[k]
               PROVE  y < z
    BY DEF Ordered
  <2>1. CASE y \in Sets(A)[j] /\ z \in Sets(A)[k]
    BY <2>1 DEF Leads, Ordered
  <2>2. CASE j = i /\ y = x /\ z \in Sets(A)[k]
    BY <1>2, <2>2
  <2>3. CASE k = i /\ z = x /\ y \in Sets(A)[j]
    BY <1>2, <2>3
  <2>4. j # k
    BY <1>2
  <2>5. /\ (y \in Sets(A)[j] /\ j # i) \/ (j = i /\ y = x)
        /\ (z \in Sets(A)[k] /\ k # i) \/ (k = i /\ z = x)
    BY <1>5
  <2>6. QED
    BY <2>1, <2>2, <2>3, <2>4, <2>5
<1>7. Bounded(Sets(A2), running, top)
  <2> SUFFICES ASSUME NEW j \in Cells, NEW y \in Sets(A2)[j]
               PROVE  /\ y \in Labels /\ y <= top
                      /\ \A c \in running : /\ j < 2 * c - 1 => y < 2 * c
                                            /\ j = 2 * c - 1 => y <= 2 * c
                                            /\ j > 2 * c - 1 => y > 2 * c
    BY DEF Bounded
  <2>1. CASE y \in Sets(A)[j]
    BY <2>1 DEF Leads, Bounded
  <2>2. CASE j = i /\ y = x
    BY <2>2
  <2>3. QED
    BY <1>5, <2>1, <2>2
<1>8. \A j \in Cells : A2[j] # None => A2[j] \in all \cup {x}
  <2>1. \A j \in Cells : A[j] # None => A[j] \in all
    BY DEF Leads
  <2>2. QED
    BY <1>2, <2>1
<1>9. ASSUME NEW y \in all \cup {x} PROVE y <= top /\ \E j \in Cells : A2[j] # None /\ A2[j] <= y
  <2>1. CASE y \in all
    <3>1. PICK j \in Cells : A[j] # None /\ A[j] <= y
      BY <2>1 DEF Leads
    <3>2. j # i /\ A2[j] = A[j]
      BY <1>2, <3>1
    <3>3. y <= top
      BY <2>1 DEF Leads
    <3>4. QED
      BY <3>1, <3>2, <3>3
  <2>2. CASE y = x
    <3>1. A2[i] # None /\ A2[i] <= y
      BY <1>2, <1>3, <2>2
    <3>2. QED
      BY <2>2, <3>1
  <2>3. QED
    BY <2>1, <2>2
<1>10. all \cup {x} \subseteq Labels
  BY <1>1
<1>11. QED
  BY <1>1, <1>6, <1>7, <1>8, <1>9, <1>10 DEF Leads

\* Two rows that agree in all places are one.
LEMMA RowSame ==
    ASSUME NEW A, NEW B, A = [i \in Cells |-> A[i]], B = [i \in Cells |-> B[i]],
           \A s \in Strands : A[Place(s)] = B[Place(s)] /\ A[2 * s] = B[2 * s]
    PROVE  A = B
<1>1. ASSUME NEW i \in Cells PROVE A[i] = B[i]
  <2>1. PICK s \in Strands : i = Place(s) \/ i = 2 * s
    BY PlaceIs
  <2>2. QED
    BY <2>1
<1>2. QED
  BY <1>1

LEMMA OneHasSame ==
    ASSUME NEW B, NEW B2, NEW state, OneHas(B, state), \A i \in Cells : B2[i] = B[i]
    PROVE  OneHas(B2, state)
  BY DEF OneHas

-----------------------------------------------------------------------------
(* What the steps do to the exceptions *)

\* Steps that move no exception and leave each state where it is.
LEMMA KeepExc ==
    ASSUME ExcInv, ExcTypes', CalmInv', UNCHANGED <<spawned, entry, thrown, thrown_slot>>,
           \A s \in Strands : except_data(pending_exception'[s]) = except_data(pending_exception[s]),
           \A s \in Strands : Bases'[Place(s)] = Bases[Place(s)], Running' \subseteq Running,
           pc'[0] = "run" \/ (pc'[0] = "ready" /\ unsynched') =>
              pc[0] = "run" \/ (pc[0] = "ready" /\ unsynched)
    PROVE  ExcInv'
<1>1. /\ Actives \in [Cells -> Labels \cup {None}] /\ Actives' \in [Cells -> Labels \cup {None}]
      /\ \A s \in Strands :
            /\ Actives[Place(s)] = except_data(pending_exception[s])
            /\ Actives'[Place(s)] = except_data(pending_exception'[s])
            /\ Actives[2 * s] = except_data(thrown_slot[s]) /\ Bases[2 * s] = Base(thrown_slot[s])
            /\ Actives'[2 * s] = except_data(thrown_slot'[s]) /\ Bases'[2 * s] = Base(thrown_slot'[s])
  BY RowsAre, RowsThen DEF ExcInv
<1>2. \A s \in Strands : /\ Actives'[Place(s)] = Actives[Place(s)] /\ Actives'[2 * s] = Actives[2 * s]
                         /\ Bases'[2 * s] = Bases[2 * s]
  BY <1>1
<1>3. Actives' = Actives
  <2>1. PICK A : A = Actives'
    OBVIOUS
  <2>2. A = [i \in Cells |-> A[i]] /\ Actives = [i \in Cells |-> Actives[i]]
    BY <1>1, <2>1
  <2>3. A = Actives
    BY <1>2, <2>1, <2>2, RowSame
  <2>4. QED
    BY <2>1, <2>3
<1>4. ASSUME NEW i \in Cells PROVE Bases'[i] = Bases[i]
  <2>1. PICK s \in Strands : i = Place(s) \/ i = 2 * s
    BY PlaceIs
  <2>2. QED
    BY <1>2, <2>1
<1>5. OneHas(Bases', entry)
  <2>1. OneHas(Bases, entry)
    BY DEF ExcInv
  <2>2. QED
    BY <1>4, <2>1, OneHasSame
<1>6. Leads(Actives', Running', 2 * spawned + 1, thrown)
  <2>1. Leads(Actives, Running, 2 * spawned + 1, thrown)
    BY DEF ExcInv, FirstInv
  <2>2. Leads(Actives, Running', 2 * spawned + 1, thrown)
    BY <2>1, LeadsLess
  <2>3. QED
    BY <1>3, <2>2
<1>7. FirstInv'
  BY <1>6 DEF ExcInv, FirstInv
<1>8. OneHas(Bases, entry)'
  BY <1>5 DEF OneHas
<1>9. QED
  BY <1>7, <1>8 DEF ExcInv

\* A strand leaves its thread with an exception or without one.
LEMMA SavedIs ==
    ASSUME NEW g \in EhGlobals, NEW exc \in Labels \cup {None}, NEW info,
           info = make(IF exc = None THEN g ELSE throw(g), exc)
    PROVE  info \in Infos /\ Base(info) = g /\ except_data(info) = exc
<1>1. PICK h : h = [caught |-> g.caught, uncaught |-> g.uncaught + (IF exc = None THEN 0 ELSE 1)]
  OBVIOUS
<1>2. g = [caught |-> g.caught, uncaught |-> g.uncaught] /\ g.uncaught \in Nat
  BY DEF EhGlobals
<1>3. h = (IF exc = None THEN g ELSE throw(g)) /\ h \in EhGlobals
  BY <1>1, <1>2 DEF EhGlobals, throw
<1>4. info = [active |-> exc, runtime_state |-> h] /\ info \in Infos
  BY <1>3 DEF make, Infos
<1>5. /\ except_data(info) = exc
      /\ Base(info) = [caught |-> h.caught, uncaught |-> h.uncaught - (IF exc = None THEN 0 ELSE 1)]
  BY <1>4, BaseIs
<1>6. h.caught = g.caught /\ h.uncaught - (IF exc = None THEN 0 ELSE 1) = g.uncaught
  BY <1>1, <1>2
<1>7. QED
  BY <1>2, <1>4, <1>5, <1>6

\* What a strand saves as it goes on to l.
Saves(s, l, exc) ==
    /\ pc[s] = "run" /\ Goto(s, l) /\ l \in {"return", "reduce"} /\ exc \in {None, Label(s)}
    /\ s = 0 => l = "reduce" /\ unsynched
    /\ UNCHANGED tree
    /\ Save(s, make(IF exc = None THEN eh_globals[s] ELSE throw(eh_globals[s]), exc))
    /\ thrown' = IF exc = None THEN thrown ELSE thrown \cup {exc}

LEMMA SaveIs ==
    ASSUME IInv, ExcInv, NEW s \in Strands, NEW l, NEW exc \in Labels \cup {None}, Saves(s, l, exc)
    PROVE  /\ ExcTypes' /\ CalmInv' /\ UNCHANGED <<spawned, entry, thrown_slot>> /\ Running' \subseteq Running
           /\ \A t \in Strands \ {s} : /\ pending_exception'[t] = pending_exception[t]
                                       /\ pc'[t] = pc[t] /\ eh_globals'[t] = eh_globals[t]
           /\ pc'[s] = l /\ except_data(pending_exception'[s]) = exc
           /\ Base(pending_exception'[s]) = eh_globals[s] /\ pending_exception[s] = NULL
           /\ UNCHANGED unsynched
<1> USE Facts
<1>1. PICK info : info = make(IF exc = None THEN eh_globals[s] ELSE throw(eh_globals[s]), exc)
  OBVIOUS
<1>2. /\ pending_exception \in [Strands -> Infos \cup {NULL}]
      /\ thrown_slot \in [Strands -> Infos \cup {NULL}]
      /\ eh_globals \in [Strands -> EhGlobals] /\ entry \in Entries
  BY DEF ExcInv, ExcTypes
<1>3. info \in Infos /\ Base(info) = eh_globals[s] /\ except_data(info) = exc
  BY <1>1, <1>2, SavedIs
<1>4. /\ pc[s] = "run" /\ Goto(s, l) /\ l \in {"return", "reduce"} /\ (s = 0 => l = "reduce" /\ unsynched)
      /\ UNCHANGED <<spawned, unsynched, entry, thrown_slot>>
      /\ pending_exception' = [pending_exception EXCEPT ![s] = info]
      /\ eh_globals' = [eh_globals EXCEPT ![s] = Calm]
  BY <1>1 DEF Saves, Save, tree
<1>5. pc'[s] = l /\ \A t \in Strands \ {s} : pc'[t] = pc[t]
  BY <1>4, GotoIs DEF IInv
<1>6. /\ pending_exception'[s] = info /\ \A t \in Strands \ {s} : pending_exception'[t] = pending_exception[t]
      /\ eh_globals'[s] = Calm /\ \A t \in Strands \ {s} : eh_globals'[t] = eh_globals[t]
  BY <1>2, <1>4
<1>7. ExcTypes'
  BY <1>2, <1>3, <1>4, CalmIs DEF ExcTypes
<1>8. Running' \subseteq Running /\ Linked' = Linked
  <2>1. \A c \in Children : (pc'[c] = "run" => pc[c] = "run") /\ (c \in Linked' <=> c \in Linked)
    BY <1>4, <1>5 DEF Linked
  <2>2. QED
    BY <2>1 DEF Running, Linked
<1>9. unsynched /\ (s # 0 => s \in Linked) /\ pending_exception[s] = NULL
  BY <1>4 DEF IInv, StepInv, Alive, Linked, ExcInv, CalmInv
<1>10. CalmInv'
  <2>1. \A c \in Children \ Linked' : pending_exception'[c] = NULL /\ thrown_slot'[c] = NULL
    BY <1>4, <1>6, <1>8, <1>9 DEF ExcInv, CalmInv
  <2>2. \A t \in Strands : IF pc'[t] = "run" THEN pending_exception'[t] = NULL ELSE eh_globals'[t] = Calm
    BY <1>4, <1>5, <1>6 DEF ExcInv, CalmInv
  <2>3. eh_globals'[0] = Calm /\ (pc'[0] \notin {"run", "reduce"} => pending_exception'[0] = NULL)
    BY <1>4, <1>5, <1>6, <1>9 DEF ExcInv, CalmInv
  <2>4. QED
    BY <1>4, <1>9, <2>1, <2>2, <2>3 DEF CalmInv
<1>11. QED
  BY <1>3, <1>4, <1>5, <1>6, <1>7, <1>8, <1>9, <1>10

LEMMA SavesExc ==
    ASSUME IInv, ExcInv, NEW s \in Strands, NEW l, NEW exc, Saves(s, l, exc) PROVE ExcInv'
<1> USE Facts
<1>1. pc[s] = "run" /\ exc \in {None, Label(s)} /\ l \in {"return", "reduce"} /\ (s = 0 => l = "reduce")
  BY DEF Saves
<1>2. PICK top : top = 2 * spawned + 1
  OBVIOUS
<1>3. Leads(Actives, Running, top, thrown) /\ OneHas(Bases, entry) /\ ExcTypes /\ CalmInv
  BY <1>2 DEF ExcInv, FirstInv
<1>4. Actives[Place(s)] = None /\ Actives \in [Cells -> Labels \cup {None}] /\ Place(s) \in Cells
  <2>1. pending_exception[s] = NULL
    BY <1>1, <1>3 DEF CalmInv
  <2>2. QED
    BY <1>3, <2>1, RowsAre, NoRecord, PlaceIs
<1>5. ASSUME NEW j \in Cells PROVE Label(s) \notin Sets(Actives)[j]
  <2>1. SUFFICES ASSUME Label(s) \in Sets(Actives)[j] PROVE FALSE
    OBVIOUS
  <2>2. Actives[j] = Label(s) /\ Actives[j] # None
    BY <1>4, <2>1, SetsAre
  <2>3. CASE s = 0
    <3>1. 2 * spawned + 1 \notin thrown
      BY <1>1, <2>3 DEF ExcInv, FirstInv
    <3>2. Actives[j] \in thrown
      BY <1>3, <2>2 DEF Leads
    <3>3. QED
      BY <2>2, <2>3, <3>1, <3>2 DEF Label
  <2>4. CASE s # 0
    <3>1. s \in Running /\ Label(s) = 2 * s /\ Place(s) = 2 * s - 1 /\ s \in Int
      BY <1>1, <2>4 DEF Running, Label, Place
    <3>2. /\ j < 2 * s - 1 => 2 * s < 2 * s
          /\ j > 2 * s - 1 => 2 * s > 2 * s
      BY <1>3, <2>1, <3>1 DEF Leads, Bounded
    <3>3. j = Place(s)
      BY <3>1, <3>2 DEF Cells
    <3>4. QED
      BY <1>4, <2>2, <3>3
  <2>5. QED
    BY <2>3, <2>4
<1>6. /\ Label(s) \in Labels /\ Label(s) <= 2 * spawned + 1
      /\ \A j \in Cells : \A y \in Sets(Actives)[j] :
            IF j <= Place(s) THEN y < Label(s) ELSE Label(s) < y
      /\ \A c \in Running : /\ Place(s) < 2 * c - 1 => Label(s) < 2 * c
                            /\ Place(s) = 2 * c - 1 => Label(s) <= 2 * c
                            /\ Place(s) > 2 * c - 1 => Label(s) > 2 * c
  <2>1. Bounded(Sets(Actives), Running, 2 * spawned + 1)
    BY <1>2, <1>3 DEF Leads
  <2>2. QED
    BY <1>1, <1>5, <2>1, LabelFits
<1>7. exc \in Labels \cup {None}
  BY <1>1, <1>6
<1>8. /\ ExcTypes' /\ CalmInv' /\ UNCHANGED <<spawned, entry, thrown_slot, unsynched>> /\ Running' \subseteq Running
      /\ \A t \in Strands \ {s} : /\ pending_exception'[t] = pending_exception[t]
                                  /\ pc'[t] = pc[t] /\ eh_globals'[t] = eh_globals[t]
      /\ pc'[s] = l /\ except_data(pending_exception'[s]) = exc
      /\ Base(pending_exception'[s]) = eh_globals[s] /\ pending_exception[s] = NULL
  BY <1>7, SaveIs
<1>9. \A t \in Strands : Bases'[Place(t)] = Bases[Place(t)]
  <2>1. ASSUME NEW t \in Strands
        PROVE  (IF pc'[t] = "run" THEN eh_globals'[t] ELSE Base(pending_exception'[t]))
                 = IF pc[t] = "run" THEN eh_globals[t] ELSE Base(pending_exception[t])
    BY <1>1, <1>8
  <2>2. QED
    BY <1>3, <1>8, <2>1, RowsAre, RowsThen
<1>10. pc'[0] = "run" \/ (pc'[0] = "ready" /\ unsynched') =>
          s # 0 /\ (pc[0] = "run" \/ (pc[0] = "ready" /\ unsynched))
  BY <1>1, <1>8
<1>11. CASE exc = None
  <2>1. thrown' = thrown
    BY <1>11 DEF Saves
  <2>2. \A t \in Strands : except_data(pending_exception'[t]) = except_data(pending_exception[t])
    BY <1>8, <1>11, NoRecord
  <2>3. QED
    BY <1>8, <1>9, <1>10, <2>1, <2>2, KeepExc
<1>12. CASE exc = Label(s) /\ exc # None
  <2>1. thrown' = thrown \cup {Label(s)}
    BY <1>12 DEF Saves
  <2>2. PICK A : A = [Actives EXCEPT ![Place(s)] = Label(s)]
    OBVIOUS
  <2>3. Actives' = A
    <3>1. \A t \in Strands : A[Place(t)] = except_data(pending_exception'[t]) /\ A[2 * t] = except_data(thrown_slot'[t])
      <4>1. ASSUME NEW t \in Strands
            PROVE  A[Place(t)] = except_data(pending_exception'[t]) /\ A[2 * t] = except_data(thrown_slot'[t])
        <5>1. Place(t) \in Cells /\ 2 * t \in Cells /\ 2 * t # Place(s) /\ (Place(t) = Place(s) => t = s)
          BY PlaceIs
        <5>2. Actives[Place(t)] = except_data(pending_exception[t]) /\ Actives[2 * t] = except_data(thrown_slot[t])
          BY <1>3, RowsAre
        <5>3. A[2 * t] = Actives[2 * t] /\ A[Place(t)] = IF t = s THEN Label(s) ELSE Actives[Place(t)]
          BY <1>4, <2>2, <5>1
        <5>4. QED
          BY <1>8, <1>12, <5>2, <5>3
      <4>2. QED
        BY <4>1
    <3>2. A \in [Cells -> Labels \cup {None}]
      BY <1>4, <1>6, <2>2
    <3>3. PICK A2 : A2 = Actives'
      OBVIOUS
    <3>4. A2 = [i \in Cells |-> A2[i]] /\ A = [i \in Cells |-> A[i]]
      BY <1>8, <3>2, <3>3, RowsThen
    <3>5. \A t \in Strands : A2[Place(t)] = A[Place(t)] /\ A2[2 * t] = A[2 * t]
      BY <1>8, <3>1, <3>3, RowsThen
    <3>6. A2 = A
      BY <3>4, <3>5, RowSame
    <3>7. QED
      BY <3>3, <3>6
  <2>4. Leads(A, Running, top, thrown \cup {Label(s)})
    <3>1. PICK x, i : x = Label(s) /\ i = Place(s)
      OBVIOUS
    <3>2. /\ i \in Cells /\ x \in Labels /\ Actives[i] = None /\ A = [Actives EXCEPT ![i] = x] /\ x <= top
          /\ \A j \in Cells : \A y \in Sets(Actives)[j] : IF j <= i THEN y < x ELSE x < y
          /\ \A c \in Running : /\ i < 2 * c - 1 => x < 2 * c
                                /\ i = 2 * c - 1 => x <= 2 * c
                                /\ i > 2 * c - 1 => x > 2 * c
      BY <1>2, <1>4, <1>6, <2>2, <3>1
    <3>3. Leads(A, Running, top, thrown \cup {x})
      BY <1>3, <3>2, LeadsMore
    <3>4. QED
      BY <3>1, <3>3
  <2>5. Leads(Actives', Running', 2 * spawned' + 1, thrown')
    <3>1. Leads(A, Running', top, thrown')
      BY <1>8, <2>1, <2>4, LeadsLess
    <3>2. QED
      BY <1>2, <1>8, <2>3, <3>1
  <2>6. pc'[0] = "run" \/ (pc'[0] = "ready" /\ unsynched') => 2 * spawned' + 1 \notin thrown'
    <3>1. SUFFICES ASSUME pc'[0] = "run" \/ (pc'[0] = "ready" /\ unsynched')
                   PROVE  2 * spawned' + 1 \notin thrown'
      OBVIOUS
    <3>2. s # 0 /\ 2 * spawned + 1 \notin thrown
      BY <1>10, <3>1 DEF ExcInv, FirstInv
    <3>3. 2 * spawned + 1 # Label(s)
      BY <3>2 DEF Label, IInv, TypeInv
    <3>4. QED
      BY <1>8, <2>1, <3>2, <3>3
  <2>7. OneHas(Bases', entry')
    <3>1. ASSUME NEW i \in Cells PROVE Bases'[i] = Bases[i]
      <4>1. PICK t \in Strands : i = Place(t) \/ i = 2 * t
        BY PlaceIs
      <4>2. Bases'[2 * t] = Bases[2 * t]
        BY <1>3, <1>8, RowsAre, RowsThen
      <4>3. QED
        BY <1>9, <4>1, <4>2
    <3>2. QED
      BY <1>3, <1>8, <3>1, OneHasSame
  <2>8. QED
    BY <1>8, <2>5, <2>6, <2>7 DEF ExcInv, FirstInv, OneHas
<1>13. QED
  BY <1>1, <1>11, <1>12

LEMMA OneCalm ==
    ASSUME NEW B, NEW state, OneHas(B, state), NEW i \in Cells, NEW k \in Cells, i # k
    PROVE  Calm \in {B[i], B[k]}
  BY DEF OneHas

\* The records in two cells, with none between them, are merged in one.
Apart(A, running, i, k) ==
    /\ \A j \in Cells : i < j /\ j < k => A[j] = None
    /\ \A c \in running : c \in Int /\ ~(i <= 2 * c - 1 /\ 2 * c - 1 <= k)

Holds(A, B, i, info) == A[i] = except_data(info) /\ B[i] = Base(info)

Merged(A, A2, B, B2, left, right, e, i, k, d, o) ==
    /\ i \in Cells /\ k \in Cells /\ i < k /\ {i, k} = {d, o}
    /\ left \in Infos \cup {NULL} /\ right \in Infos \cup {NULL}
    /\ Holds(A, B, i, left) /\ Holds(A, B, k, right) /\ B = [j \in Cells |-> B[j]]
    /\ e = merge_pending_exceptions(left, right)
    /\ A2 = [A EXCEPT ![d] = except_data(e), ![o] = None]
    /\ B2 = [B EXCEPT ![d] = Base(e), ![o] = Calm]

LEMMA MergeCells ==
    ASSUME NEW A, NEW A2, NEW B, NEW B2, NEW left, NEW right, NEW e, NEW i, NEW k, NEW d, NEW o,
           Merged(A, A2, B, B2, left, right, e, i, k, d, o),
           NEW running, NEW top, NEW all, Leads(A, running, top, all), Apart(A, running, i, k),
           NEW state, OneHas(B, state)
    PROVE  /\ e \in Infos \cup {NULL} /\ Leads(A2, running, top, all) /\ OneHas(B2, state)
           /\ A2[d] = except_data(e) /\ A2[o] = None /\ \A j \in Cells \ {i, k} : A2[j] = A[j]
           /\ B2[d] = Base(e) /\ B2[o] = Calm /\ \A j \in Cells \ {i, k} : B2[j] = B[j]
           /\ B2 = [j \in Cells |-> B2[j]] /\ A2 \in [Cells -> Labels \cup {None}]
<1>0. /\ i \in Cells /\ k \in Cells /\ i < k /\ {i, k} = {d, o}
      /\ left \in Infos \cup {NULL} /\ right \in Infos \cup {NULL}
      /\ Holds(A, B, i, left) /\ Holds(A, B, k, right) /\ B = [j \in Cells |-> B[j]]
      /\ e = merge_pending_exceptions(left, right)
      /\ A2 = [A EXCEPT ![d] = except_data(e), ![o] = None]
      /\ B2 = [B EXCEPT ![d] = Base(e), ![o] = Calm]
  BY DEF Merged
<1> USE <1>0
<1>1. i \in Int /\ k \in Int /\ d \in Cells /\ o \in Cells /\ i # k /\ d # o /\ i + k - d = o
  <2>1. i \in Int /\ k \in Int /\ i # k
    BY DEF Cells
  <2>2. d \in {i, k} /\ o \in {i, k} /\ d # o
    BY <2>1
  <2>3. QED
    BY <2>1, <2>2
<1>2. Calm \in {Base(left), Base(right)}
  BY <1>1, OneCalm DEF Holds
<1>3. /\ e \in Infos \cup {NULL}
      /\ Base(e) = IF Base(left) = Calm THEN Base(right) ELSE Base(left)
      /\ except_data(e) = IF except_data(left) # None THEN except_data(left) ELSE except_data(right)
  BY <1>2, MergeIs
<1>4. except_data(e) \in Labels \cup {None}
  BY <1>3, BaseIs, NoRecord
<1>5. A \in [Cells -> Labels \cup {None}]
  BY DEF Leads
<1>6. /\ A2[d] = except_data(e) /\ A2[o] = None /\ \A j \in Cells \ {i, k} : A2[j] = A[j]
      /\ A2 \in [Cells -> Labels \cup {None}]
  BY <1>1, <1>4, <1>5
<1>7. /\ B2[d] = Base(e) /\ B2[o] = Calm /\ \A j \in Cells \ {i, k} : B2[j] = B[j]
      /\ B2 = [j \in Cells |-> B2[j]]
  BY <1>1
<1>8. Joins(A, A2, B, B2, i, k, d)
  BY <1>1, <1>3, <1>6, <1>7 DEF Joins, Holds, Apart
<1>9. Leads(A2, running, top, all)
  BY <1>8, JoinsLead DEF Apart
<1>10. OneHas(B2, state)
  BY <1>8, JoinsHas
<1>11. QED
  BY <1>3, <1>6, <1>7, <1>9, <1>10

\* The rows are known from their places.
LEMMA RowsBecome ==
    ASSUME ExcTypes', NEW A, NEW B, A \in [Cells -> Labels \cup {None}], B = [j \in Cells |-> B[j]],
           \A s \in Strands :
               /\ A[Place(s)] = except_data(pending_exception'[s])
               /\ A[2 * s] = except_data(thrown_slot'[s])
               /\ B[Place(s)] = IF pc'[s] = "run" THEN eh_globals'[s] ELSE Base(pending_exception'[s])
               /\ B[2 * s] = Base(thrown_slot'[s])
    PROVE  Actives' = A /\ Bases' = B
<1>1. PICK A2, B2 : A2 = Actives' /\ B2 = Bases'
  OBVIOUS
<1>2. B2 = [j \in Cells |-> B2[j]]
  BY <1>1 DEF Bases, Row
<1>3. A2 = [j \in Cells |-> A2[j]] /\ A = [j \in Cells |-> A[j]]
  BY <1>1, RowsThen
<1>4. \A s \in Strands : /\ A2[Place(s)] = A[Place(s)] /\ A2[2 * s] = A[2 * s]
                         /\ B2[Place(s)] = B[Place(s)] /\ B2[2 * s] = B[2 * s]
  BY <1>1, RowsThen
<1>5. A2 = A
  BY <1>3, <1>4, RowSame
<1>6. B2 = B
  BY <1>2, <1>4, RowSame
<1>7. QED
  BY <1>1, <1>5, <1>6

LEMMA BasesIs == Bases = [j \in Cells |-> Bases[j]]
  BY DEF Bases, Row

LEMMA NoneBetween ==
    ASSUME ExcTypes, CalmInv, NEW l \in Strands, NEW k \in Int,
           \A x \in Linked : ~(l < x /\ 2 * x - 1 < k), NEW j \in Cells, 2 * l < j, j < k, j # 2 * N + 1
    PROVE  Actives[j] = None
<1> USE Facts
<1>1. PICK s \in Strands : j = Place(s) \/ j = 2 * s
  BY PlaceIs
<1>2. s \in Children \ Linked
  BY <1>1 DEF Place
<1>3. QED
  BY <1>1, <1>2, RowsAre, NoRecord DEF CalmInv

\* A child that finds the place to its left.
LEMMA SpliceExc ==
    ASSUME IInv, ExcInv, NEW c \in Linked, pc[c] # "run", NEW l, l = left_sibling[c],
           SpliceExceptions(c, l), UNCHANGED <<spawned, unsynched>>, Running' = Running,
           Linked' \in {Linked, Linked \ {c}}, pc'[0] = pc[0], unsynched,
           \A s \in Strands : pc'[s] = "run" <=> pc[s] = "run"
    PROVE  ExcInv'
<1> USE Facts
<1>1. /\ l \in Linked \cup {0} /\ l \in Strands /\ l \in Int /\ l < c /\ c \in Children /\ c \in Int
      /\ \A x \in Linked : x \in Int /\ (x < c => x <= l)
      /\ \A x \in Running : x \in Int /\ ~(2 * l <= 2 * x - 1 /\ 2 * x - 1 <= 2 * c)
  BY NoneRunsBetween
<1>2. PICK top : top = 2 * spawned + 1
  OBVIOUS
<1>3. Leads(Actives, Running, top, thrown) /\ OneHas(Bases, entry) /\ ExcTypes /\ CalmInv
  BY <1>2 DEF ExcInv, FirstInv
<1>4. PICK i, j, k : i = 2 * l /\ j = 2 * c - 1 /\ k = 2 * c
  OBVIOUS
<1>5. i \in Int /\ j \in Int /\ k \in Int /\ i < j /\ j < k /\ i # j /\ i < k /\ i # k /\ j # k
  BY <1>1, <1>4
<1>6. /\ j = Place(c) /\ i \in Cells /\ j \in Cells /\ k \in Cells
      /\ \A s \in Strands : 2 * s # j /\ Place(s) # i /\ Place(s) # k /\ (Place(s) = j => s = c)
      /\ \A s \in Strands : (2 * s = i => s = l) /\ (2 * s = k => s = c)
  <2>1. j = Place(c) /\ i \in Cells /\ j \in Cells /\ k \in Cells
    BY <1>1, <1>4, PlaceIs DEF Place
  <2>2. \A s \in Strands : 2 * s # j /\ Place(s) # i /\ Place(s) # k /\ (Place(s) = j => s = c)
    BY <1>1, <1>4, <2>1, PlaceIs
  <2>3. \A s \in Strands : (2 * s = i => s = l) /\ (2 * s = k => s = c)
    BY <1>1, <1>4
  <2>4. QED
    BY <2>1, <2>2, <2>3
<1>7. PICK L, M, R, e1, e2 : /\ L = thrown_slot[l] /\ M = pending_exception[c] /\ R = thrown_slot[c]
                             /\ e1 = merge_pending_exceptions(L, M)
                             /\ e2 = merge_pending_exceptions(e1, R)
  OBVIOUS
<1>8. /\ L \in Infos \cup {NULL} /\ M \in Infos \cup {NULL} /\ R \in Infos \cup {NULL}
      /\ pending_exception \in [Strands -> Infos \cup {NULL}]
      /\ thrown_slot \in [Strands -> Infos \cup {NULL}] /\ c \in Strands /\ l # c
  BY <1>1, <1>3, <1>7 DEF ExcTypes
<1>9. /\ thrown_slot' = [thrown_slot EXCEPT ![l] = e2, ![c] = NULL]
      /\ pending_exception' = [pending_exception EXCEPT ![c] = NULL]
      /\ UNCHANGED <<eh_globals, entry, thrown>>
  BY <1>7, <1>8, <1>1 DEF SpliceExceptions
<1>10. Holds(Actives, Bases, i, L) /\ Holds(Actives, Bases, j, M) /\ Holds(Actives, Bases, k, R)
  BY <1>1, <1>3, <1>4, <1>6, <1>7, RowsAre DEF Holds
<1>11. Apart(Actives, Running, i, j)
  <2>1. ASSUME NEW p \in Cells, i < p, p < j PROVE Actives[p] = None
    <3>1. \A x \in Linked : ~(l < x /\ 2 * x - 1 < j)
      BY <1>1, <1>4
    <3>2. p # 2 * N + 1 /\ 2 * l < p
      BY <1>1, <1>4, <2>1 DEF Cells, Children
    <3>3. QED
      BY <1>1, <1>3, <1>5, <2>1, <3>1, <3>2, NoneBetween
  <2>2. \A x \in Running : x \in Int /\ ~(i <= 2 * x - 1 /\ 2 * x - 1 <= j)
    BY <1>1, <1>4
  <2>3. QED
    BY <2>1, <2>2 DEF Apart
<1>12. PICK A1, B1 : /\ A1 = [Actives EXCEPT ![i] = except_data(e1), ![j] = None]
                     /\ B1 = [Bases EXCEPT ![i] = Base(e1), ![j] = Calm]
  OBVIOUS
<1>13. /\ e1 \in Infos \cup {NULL} /\ Leads(A1, Running, top, thrown) /\ OneHas(B1, entry)
       /\ A1[i] = except_data(e1) /\ A1[j] = None /\ \A p \in Cells \ {i, j} : A1[p] = Actives[p]
       /\ B1[i] = Base(e1) /\ B1[j] = Calm /\ \A p \in Cells \ {i, j} : B1[p] = Bases[p]
       /\ B1 = [p \in Cells |-> B1[p]]
  <2>1. Merged(Actives, A1, Bases, B1, L, M, e1, i, j, i, j)
    BY <1>5, <1>6, <1>7, <1>8, <1>10, <1>12, BasesIs DEF Merged
  <2>2. QED
    BY <1>3, <1>11, <2>1, MergeCells
<1>14. Holds(A1, B1, i, e1) /\ Holds(A1, B1, k, R)
  BY <1>5, <1>6, <1>10, <1>13 DEF Holds
<1>15. Apart(A1, Running, i, k)
  <2>1. ASSUME NEW p \in Cells, i < p, p < k PROVE A1[p] = None
    <3>1. CASE p = j
      BY <1>13, <3>1
    <3>2. CASE p # j
      <4>1. p < j /\ p # i
        BY <1>4, <1>5, <2>1, <3>2, <1>1 DEF Cells
      <4>2. QED
        BY <1>11, <1>13, <2>1, <4>1, <3>2 DEF Apart
    <3>3. QED
      BY <3>1, <3>2
  <2>2. \A x \in Running : x \in Int /\ ~(i <= 2 * x - 1 /\ 2 * x - 1 <= k)
    BY <1>1, <1>4
  <2>3. QED
    BY <2>1, <2>2 DEF Apart
<1>16. PICK A2, B2 : /\ A2 = [A1 EXCEPT ![i] = except_data(e2), ![k] = None]
                     /\ B2 = [B1 EXCEPT ![i] = Base(e2), ![k] = Calm]
  OBVIOUS
<1>17. /\ e2 \in Infos \cup {NULL} /\ Leads(A2, Running, top, thrown) /\ OneHas(B2, entry)
       /\ A2[i] = except_data(e2) /\ A2[k] = None /\ \A p \in Cells \ {i, k} : A2[p] = A1[p]
       /\ B2[i] = Base(e2) /\ B2[k] = Calm /\ \A p \in Cells \ {i, k} : B2[p] = B1[p]
       /\ B2 = [p \in Cells |-> B2[p]] /\ A2 \in [Cells -> Labels \cup {None}]
  <2>1. Merged(A1, A2, B1, B2, e1, R, e2, i, k, i, k)
    BY <1>5, <1>6, <1>7, <1>8, <1>13, <1>14, <1>16 DEF Merged
  <2>2. QED
    BY <1>13, <1>15, <2>1, MergeCells
<1>18. /\ thrown_slot'[l] = e2 /\ thrown_slot'[c] = NULL /\ pending_exception'[c] = NULL
       /\ \A s \in Strands \ {l, c} : thrown_slot'[s] = thrown_slot[s]
       /\ \A s \in Strands \ {c} : pending_exception'[s] = pending_exception[s]
  BY <1>1, <1>8, <1>9
<1>19. ExcTypes'
  BY <1>3, <1>8, <1>9, <1>17 DEF ExcTypes
<1>20. ASSUME NEW s \in Strands
       PROVE  /\ A2[Place(s)] = except_data(pending_exception'[s])
              /\ A2[2 * s] = except_data(thrown_slot'[s])
              /\ B2[Place(s)] = IF pc'[s] = "run" THEN eh_globals'[s] ELSE Base(pending_exception'[s])
              /\ B2[2 * s] = Base(thrown_slot'[s])
  <2>1. /\ Actives[Place(s)] = except_data(pending_exception[s]) /\ Actives[2 * s] = except_data(thrown_slot[s])
        /\ Bases[Place(s)] = IF pc[s] = "run" THEN eh_globals[s] ELSE Base(pending_exception[s])
        /\ Bases[2 * s] = Base(thrown_slot[s]) /\ Place(s) \in Cells /\ 2 * s \in Cells
    BY <1>3, RowsAre, PlaceIs
  <2>2. /\ A2[Place(s)] = except_data(pending_exception'[s])
        /\ B2[Place(s)] = IF pc'[s] = "run" THEN eh_globals'[s] ELSE Base(pending_exception'[s])
    <3>1. CASE s = c
      <4>1. A2[j] = None /\ B2[j] = Calm /\ pc'[c] # "run"
        BY <1>5, <1>6, <1>8, <1>13, <1>17
      <4>2. QED
        BY <1>6, <1>18, <3>1, <4>1, NoRecord
    <3>2. CASE s # c
      <4>1. Place(s) \notin {i, j, k}
        BY <1>6, <3>2
      <4>2. A2[Place(s)] = Actives[Place(s)] /\ B2[Place(s)] = Bases[Place(s)]
        BY <1>13, <1>17, <2>1, <4>1
      <4>3. QED
        BY <1>9, <1>18, <2>1, <3>2, <4>2
    <3>3. QED
      BY <3>1, <3>2
  <2>3. A2[2 * s] = except_data(thrown_slot'[s]) /\ B2[2 * s] = Base(thrown_slot'[s])
    <3>1. CASE s = l
      BY <1>4, <1>17, <1>18, <3>1
    <3>2. CASE s = c
      BY <1>4, <1>17, <1>18, <3>2, NoRecord
    <3>3. CASE s \notin {l, c}
      <4>1. 2 * s \notin {i, j, k}
        BY <1>6, <3>3
      <4>2. A2[2 * s] = Actives[2 * s] /\ B2[2 * s] = Bases[2 * s]
        BY <1>13, <1>17, <2>1, <4>1
      <4>3. QED
        BY <1>18, <2>1, <3>3, <4>2
    <3>4. QED
      BY <3>1, <3>2, <3>3
  <2>4. QED
    BY <2>2, <2>3
<1>21. Actives' = A2 /\ Bases' = B2
  BY <1>17, <1>19, <1>20, RowsBecome
<1>22. CalmInv'
  <2>1. \A x \in Children \ Linked' : pending_exception'[x] = NULL /\ thrown_slot'[x] = NULL
    BY <1>1, <1>3, <1>18 DEF CalmInv
  <2>2. \A s \in Strands : IF pc'[s] = "run" THEN pending_exception'[s] = NULL ELSE eh_globals'[s] = Calm
    BY <1>3, <1>9, <1>18 DEF CalmInv
  <2>3. eh_globals'[0] = Calm /\ (pc'[0] \notin {"run", "reduce"} => pending_exception'[0] = NULL)
    BY <1>1, <1>3, <1>9, <1>18 DEF CalmInv
  <2>4. QED
    BY <2>1, <2>2, <2>3 DEF CalmInv
<1>23. FirstInv' /\ OneHas(Bases', entry')
  BY <1>2, <1>9, <1>17, <1>21 DEF FirstInv, ExcInv
<1>24. QED
  BY <1>19, <1>22, <1>23 DEF ExcInv, OneHas

LEMMA ChildExc ==
    ASSUME IInv, ExcInv, NEW c \in Children, FastPath(c) \/ SlowPath(c) PROVE ExcInv'
<1> USE Facts
<1>1. PICK l : l = left_sibling[c]
  OBVIOUS
<1>2. pc[c] \in {"return", "reduce"} /\ pc[c] # "run" /\ SpliceExceptions(c, l)
  BY <1>1 DEF FastPath, SlowPath
<1>3. PICK m \in {"reduce", "jump"} : Goto(c, m) /\ UNCHANGED <<spawned, unsynched>>
  <2>1. Finish(c) \/ (Goto(c, "reduce") /\ UNCHANGED tree)
    BY DEF FastPath, SlowPath
  <2>2. QED
    BY <2>1 DEF Finish, tree
<1>4. /\ c \in Linked /\ Running' = Running /\ unsynched /\ pc'[0] = pc[0]
      /\ Linked' = IF m = "jump" THEN Linked \ {c} ELSE Linked
  BY <1>2, <1>3, FinishLinks
<1>5. \A s \in Strands : pc'[s] = "run" <=> pc[s] = "run"
  BY <1>2, <1>3, GotoIs DEF IInv
<1>6. Linked' \in {Linked, Linked \ {c}}
  BY <1>4
<1>7. QED
  BY <1>1, <1>2, <1>3, <1>4, <1>5, <1>6, SpliceExc

\* The record of the frame and that to the right of all children are merged.
LEMMA FrameExc ==
    ASSUME IInv, ExcInv, pc[0] # "run", unsynched, NEW l \in Strands, \A x \in Linked : x <= l,
           NEW e, e = merge_pending_exceptions(thrown_slot[l], pending_exception[0]),
           NEW left, NEW own, (left = e /\ own = NULL) \/ (left = NULL /\ own = e),
           ExcTypes /\ e \in Infos \cup {NULL} => ExcTypes',
           ExcTypes' => CalmInv',
           pending_exception'[0] = own, thrown_slot'[l] = left,
           \A s \in Strands \ {0} : pending_exception'[s] = pending_exception[s],
           \A s \in Strands \ {l} : thrown_slot'[s] = thrown_slot[s],
           UNCHANGED <<eh_globals, entry, thrown, spawned>>, Running' = Running,
           \A s \in Strands : pc'[s] = "run" <=> pc[s] = "run",
           ~(pc'[0] = "ready" /\ unsynched')
    PROVE  ExcInv'
<1> USE Facts
<1>1. PICK top : top = 2 * spawned + 1
  OBVIOUS
<1>2. Leads(Actives, Running, top, thrown) /\ OneHas(Bases, entry) /\ ExcTypes /\ CalmInv
  BY <1>1 DEF ExcInv, FirstInv
<1>3. PICK i, k : i = 2 * l /\ k = 2 * N + 1
  OBVIOUS
<1>4. l \in Int /\ l >= 0 /\ l <= N /\ i \in Int /\ k \in Int /\ i < k
  <2>1. l \in Int /\ l >= 0 /\ l <= N
    BY DEF Strands
  <2>2. QED
    BY <1>3, <2>1
<1>5. k = Place(0) /\ i \in Cells /\ k \in Cells
  BY <1>3, PlaceIs DEF Place
<1>6. /\ \A s \in Strands : 2 * s # k /\ Place(s) # i /\ (Place(s) = k => s = 0)
      /\ \A s \in Strands : 2 * s = i => s = l
  <2>1. \A s \in Strands : 2 * s # k /\ Place(s) # i /\ (Place(s) = k => s = 0)
    BY <1>3, <1>5, PlaceIs
  <2>2. \A s \in Strands : 2 * s = i => s = l
    BY <1>3, <1>4
  <2>3. QED
    BY <2>1, <2>2
<1>7. PICK L, R : L = thrown_slot[l] /\ R = pending_exception[0]
  OBVIOUS
<1>8. L \in Infos \cup {NULL} /\ R \in Infos \cup {NULL}
  BY <1>2, <1>7 DEF ExcTypes
<1>9. Holds(Actives, Bases, i, L) /\ Holds(Actives, Bases, k, R)
  BY <1>2, <1>3, <1>5, <1>7, RowsAre DEF Holds
<1>10. Apart(Actives, Running, i, k)
  <2>1. ASSUME NEW p \in Cells, i < p, p < k PROVE Actives[p] = None
    <3>1. \A x \in Linked : ~(l < x /\ 2 * x - 1 < k)
      BY <1>4 DEF Linked
    <3>2. p # 2 * N + 1 /\ 2 * l < p
      BY <1>3, <2>1 DEF Cells
    <3>3. QED
      BY <1>2, <1>4, <2>1, <3>1, <3>2, NoneBetween
  <2>2. ASSUME NEW x \in Running PROVE x \in Int /\ ~(i <= 2 * x - 1 /\ 2 * x - 1 <= k)
    <3>1. x \in Int /\ x <= l
      BY DEF Running, Linked
    <3>2. QED
      BY <1>3, <1>4, <3>1
  <2>3. QED
    BY <2>1, <2>2 DEF Apart
<1>11. PICK d, o : /\ d = (IF left = e /\ own = NULL THEN i ELSE k)
                   /\ o = (IF left = e /\ own = NULL THEN k ELSE i)
  OBVIOUS
<1>12. PICK A2, B2 : /\ A2 = [Actives EXCEPT ![d] = except_data(e), ![o] = None]
                     /\ B2 = [Bases EXCEPT ![d] = Base(e), ![o] = Calm]
  OBVIOUS
<1>13. /\ e \in Infos \cup {NULL} /\ Leads(A2, Running, top, thrown) /\ OneHas(B2, entry)
       /\ A2[d] = except_data(e) /\ A2[o] = None /\ \A p \in Cells \ {i, k} : A2[p] = Actives[p]
       /\ B2[d] = Base(e) /\ B2[o] = Calm /\ \A p \in Cells \ {i, k} : B2[p] = Bases[p]
       /\ B2 = [p \in Cells |-> B2[p]] /\ A2 \in [Cells -> Labels \cup {None}]
  <2>1. {i, k} = {d, o}
    BY <1>11
  <2>2. Merged(Actives, A2, Bases, B2, L, R, e, i, k, d, o)
    BY <1>4, <1>5, <1>7, <1>8, <1>9, <1>12, <2>1, BasesIs DEF Merged
  <2>3. QED
    BY <1>2, <1>10, <2>2, MergeCells
<1>14. /\ A2[i] = except_data(left) /\ A2[k] = except_data(own)
       /\ B2[i] = Base(left) /\ B2[k] = Base(own)
  BY <1>11, <1>13, NoRecord
<1>15. ExcTypes' /\ CalmInv'
  BY <1>2, <1>13
<1>16. ASSUME NEW s \in Strands
       PROVE  /\ A2[Place(s)] = except_data(pending_exception'[s])
              /\ A2[2 * s] = except_data(thrown_slot'[s])
              /\ B2[Place(s)] = IF pc'[s] = "run" THEN eh_globals'[s] ELSE Base(pending_exception'[s])
              /\ B2[2 * s] = Base(thrown_slot'[s])
  <2>1. /\ Actives[Place(s)] = except_data(pending_exception[s]) /\ Actives[2 * s] = except_data(thrown_slot[s])
        /\ Bases[Place(s)] = IF pc[s] = "run" THEN eh_globals[s] ELSE Base(pending_exception[s])
        /\ Bases[2 * s] = Base(thrown_slot[s]) /\ Place(s) \in Cells /\ 2 * s \in Cells
    BY <1>2, RowsAre, PlaceIs
  <2>2. /\ A2[Place(s)] = except_data(pending_exception'[s])
        /\ B2[Place(s)] = IF pc'[s] = "run" THEN eh_globals'[s] ELSE Base(pending_exception'[s])
    <3>1. CASE s = 0
      BY <1>5, <1>14, <3>1
    <3>2. CASE s # 0
      <4>1. Place(s) \notin {i, k}
        BY <1>6, <3>2
      <4>2. A2[Place(s)] = Actives[Place(s)] /\ B2[Place(s)] = Bases[Place(s)]
        BY <1>13, <2>1, <4>1
      <4>3. QED
        BY <2>1, <3>2, <4>2
    <3>3. QED
      BY <3>1, <3>2
  <2>3. A2[2 * s] = except_data(thrown_slot'[s]) /\ B2[2 * s] = Base(thrown_slot'[s])
    <3>1. CASE s = l
      BY <1>3, <1>14, <3>1
    <3>2. CASE s # l
      <4>1. 2 * s \notin {i, k}
        BY <1>6, <3>2
      <4>2. A2[2 * s] = Actives[2 * s] /\ B2[2 * s] = Bases[2 * s]
        BY <1>13, <2>1, <4>1
      <4>3. QED
        BY <2>1, <3>2, <4>2
    <3>3. QED
      BY <3>1, <3>2
  <2>4. QED
    BY <2>2, <2>3
<1>17. Actives' = A2 /\ Bases' = B2
  BY <1>13, <1>15, <1>16, RowsBecome
<1>18. FirstInv' /\ OneHas(Bases', entry')
  <2>1. pc'[0] # "run"
    OBVIOUS
  <2>2. QED
    BY <1>1, <1>13, <1>17, <2>1 DEF FirstInv
<1>19. QED
  BY <1>15, <1>18 DEF ExcInv, OneHas

LEMMA SyncExc == ASSUME IInv, ExcInv, SyncReduce PROVE ExcInv'
<1> USE Facts
<1>1. PICK l, e : l = rightmost_child /\ e = merge_pending_exceptions(thrown_slot[l], pending_exception[0])
  OBVIOUS
<1>2. l \in Strands /\ l \in Linked \cup {0} /\ (\A x \in Linked : x <= l) /\ pc[0] = "reduce" /\ unsynched
  BY <1>1 DEF IInv, TypeInv, ListInv, StepInv, SyncReduce
<1>3. ExcTypes /\ CalmInv
  BY DEF ExcInv
<1>4. /\ thrown_slot' = [thrown_slot EXCEPT ![l] = e]
      /\ pending_exception' = [pending_exception EXCEPT ![0] = NULL]
      /\ UNCHANGED <<eh_globals, entry, thrown, spawned, unsynched>>
  BY <1>1, <1>2, <1>3 DEF SyncReduce, tree, ExcTypes
<1>5. \A s \in Strands : /\ pc'[s] = "run" <=> pc[s] = "run"
                         /\ s # 0 => pc'[s] = pc[s]
  <2>1. UNCHANGED pc \/ Goto(0, "jump")
    BY DEF SyncReduce, Suspend
  <2>2. QED
    BY <1>2, <2>1, GotoIs DEF IInv
<1>6. pc'[0] # "ready"
  <2>1. UNCHANGED pc \/ Goto(0, "jump")
    BY DEF SyncReduce, Suspend
  <2>2. QED
    BY <1>2, <2>1, GotoIs DEF IInv
<1>7. Running' = Running /\ Linked' = Linked
  BY <1>5 DEF Running, Linked
<1>8. /\ pending_exception'[0] = NULL /\ thrown_slot'[l] = e
      /\ \A s \in Strands \ {0} : pending_exception'[s] = pending_exception[s]
      /\ \A s \in Strands \ {l} : thrown_slot'[s] = thrown_slot[s]
  BY <1>2, <1>3, <1>4 DEF ExcTypes
<1>9. e \in Infos \cup {NULL} => ExcTypes'
  BY <1>2, <1>3, <1>4 DEF ExcTypes
<1>10. CalmInv'
  <2>1. \A c \in Children \ Linked' : pending_exception'[c] = NULL /\ thrown_slot'[c] = NULL
    BY <1>2, <1>3, <1>7, <1>8 DEF CalmInv
  <2>2. \A s \in Strands : IF pc'[s] = "run" THEN pending_exception'[s] = NULL ELSE eh_globals'[s] = Calm
    BY <1>3, <1>4, <1>5, <1>8 DEF CalmInv
  <2>3. QED
    BY <1>2, <1>3, <1>4, <1>8, <2>1, <2>2 DEF CalmInv
<1>11. pc[0] # "run" /\ ~(pc'[0] = "ready" /\ unsynched')
  BY <1>2, <1>6
<1>12. QED
  BY <1>1, <1>2, <1>4, <1>5, <1>7, <1>8, <1>9, <1>10, <1>11, FrameExc

\* The last one to arrive hands the frame what its children have left.
LEMMA LastExc ==
    ASSUME IInv, ExcInv, NEW s \in Strands, NEW l, PostSuspend(s, l), LastToJoin,
           l = IF s = 0 THEN "stalled" ELSE "done"
    PROVE  ExcInv'
<1> USE Facts
<1>1. /\ pc[s] = "join" /\ Linked = {} /\ (s = 0 \/ pc[0] = "stalled") /\ Alive \subseteq {s}
  BY LastIsAlone DEF PostSuspend
<1>2. unsynched /\ pc[0] # "run" /\ pc[0] \notin {"run", "reduce"}
  <2>1. pc[0] \in {"join", "stalled"}
    BY <1>1
  <2>2. QED
    BY <2>1 DEF IInv, StepInv
<1>3. PICK e : e = merge_pending_exceptions(thrown_slot[0], pending_exception[0])
  OBVIOUS
<1>4. ExcTypes /\ CalmInv
  BY DEF ExcInv
<1>5. /\ thrown_slot' = [thrown_slot EXCEPT ![0] = NULL]
      /\ pending_exception' = [pending_exception EXCEPT ![0] = e]
      /\ UNCHANGED <<eh_globals, entry, thrown, spawned>> /\ unsynched' = FALSE
      /\ pc' = [pc EXCEPT ![s] = l, ![0] = "ready"]
  BY <1>3, <1>4 DEF PostSuspend, ProvablyGoodSteal, ExcTypes
<1>6. /\ \A t \in Strands : pc'[t] # "run" /\ pc[t] # "run"
      /\ pc'[0] = "ready" /\ \A c \in Children : pc'[c] \in {"done", pc[c]}
  <2>1. \A t \in Strands : t # 0 => pc[t] # "run"
    BY <1>1 DEF Linked
  <2>2. pc'[0] = "ready" /\ \A t \in Strands \ {0} : pc'[t] = IF t = s THEN "done" ELSE pc[t]
    BY <1>5 DEF IInv, TypeInv
  <2>3. QED
    BY <1>2, <2>1, <2>2
<1>7. Running' = Running /\ Linked' = {}
  <2>1. Running' = {} /\ Running = {}
    BY <1>6 DEF Running
  <2>2. ASSUME NEW c \in Children PROVE pc'[c] \notin {"run", "return", "reduce"}
    BY <1>1, <1>6 DEF Linked
  <2>3. QED
    BY <2>1, <2>2 DEF Linked
<1>8. /\ pending_exception'[0] = e /\ thrown_slot'[0] = NULL
      /\ \A t \in Strands \ {0} : pending_exception'[t] = pending_exception[t]
      /\ \A t \in Strands \ {0} : thrown_slot'[t] = thrown_slot[t]
  BY <1>4, <1>5 DEF ExcTypes
<1>9. e \in Infos \cup {NULL} => ExcTypes'
  BY <1>4, <1>5 DEF ExcTypes
<1>10. CalmInv'
  <2>1. \A c \in Children \ Linked' : pending_exception'[c] = NULL /\ thrown_slot'[c] = NULL
    BY <1>1, <1>4, <1>7, <1>8 DEF CalmInv
  <2>2. \A t \in Strands : IF pc'[t] = "run" THEN pending_exception'[t] = NULL ELSE eh_globals'[t] = Calm
    BY <1>4, <1>5, <1>6 DEF CalmInv
  <2>3. QED
    BY <1>5, <1>6, <1>8, <2>1, <2>2 DEF CalmInv
<1>11. /\ \A x \in Linked : x <= 0
       /\ \A t \in Strands : pc'[t] = "run" <=> pc[t] = "run"
       /\ ~(pc'[0] = "ready" /\ unsynched')
  BY <1>1, <1>5, <1>6
<1>12. QED
  BY <1>2, <1>3, <1>5, <1>7, <1>8, <1>9, <1>10, <1>11, FrameExc

LEMMA StealExc == ASSUME IInv, ExcInv, Steal PROVE ExcInv'
<1> USE Facts
<1>1. PICK c, top : c = spawned + 1 /\ top = 2 * spawned + 1
  OBVIOUS
<1>2. /\ pc[0] = "run" /\ spawned < N /\ spawned' = c /\ unsynched' = TRUE
      /\ pc' = [pc EXCEPT ![c] = "run", ![0] = "ready"]
      /\ eh_globals' = [eh_globals EXCEPT ![c] = eh_globals[0], ![0] = Calm]
      /\ UNCHANGED <<entry, pending_exception, thrown_slot, thrown>>
  BY <1>1 DEF Steal
<1>3. c \in Children /\ spawned \in Int /\ spawned >= 0 /\ c \in Int /\ c <= N /\ c \in Strands /\ c # 0
  BY <1>1, <1>2 DEF IInv, TypeInv, Children, Strands
<1>4. Leads(Actives, Running, top, thrown) /\ OneHas(Bases, entry) /\ ExcTypes /\ CalmInv
  BY <1>1 DEF ExcInv, FirstInv
<1>5. /\ pc[c] = "new" /\ \A x \in Children : pc[x] # "new" <=> x < c
      /\ pc'[c] = "run" /\ pc'[0] = "ready" /\ \A x \in Strands \ {0, c} : pc'[x] = pc[x]
  BY <1>1, <1>2, <1>3 DEF IInv, StepInv, TypeInv
<1>6. /\ c \notin Linked /\ Linked' = Linked \cup {c} /\ Running' = Running \cup {c}
      /\ \A x \in Linked : x \in Children /\ x \in Int /\ x < c
  <2>1. \A x \in Children : x = c \/ pc'[x] = pc[x]
    BY <1>5
  <2>2. QED
    BY <1>3, <1>5, <2>1 DEF Linked, Running
<1>7. /\ eh_globals'[c] = eh_globals[0] /\ eh_globals'[0] = Calm
      /\ \A x \in Strands \ {0, c} : eh_globals'[x] = eh_globals[x]
  BY <1>2, <1>3, <1>4 DEF ExcTypes
<1>8. ExcTypes'
  BY <1>2, <1>3, <1>4, CalmIs DEF ExcTypes
<1>9. pending_exception[0] = NULL /\ pending_exception[c] = NULL
  BY <1>2, <1>3, <1>4, <1>6 DEF CalmInv
<1>10. CalmInv'
  <2>1. \A x \in Children \ Linked' : pending_exception'[x] = NULL /\ thrown_slot'[x] = NULL
    BY <1>2, <1>4, <1>6 DEF CalmInv
  <2>2. \A x \in Strands : IF pc'[x] = "run" THEN pending_exception'[x] = NULL ELSE eh_globals'[x] = Calm
    BY <1>2, <1>4, <1>5, <1>7, <1>9 DEF CalmInv
  <2>3. QED
    BY <1>2, <1>7, <1>9, <2>1, <2>2 DEF CalmInv
<1>11. PICK i, k : i = Place(c) /\ k = Place(0)
  OBVIOUS
<1>12. i \in Cells /\ k \in Cells /\ i # k /\ i = 2 * c - 1 /\ k = 2 * N + 1
  BY <1>3, <1>11, PlaceIs DEF Place
<1>13. /\ Bases[i] = Calm /\ Bases'[k] = Calm /\ Bases'[i] = Bases[k]
       /\ \A p \in Cells \ {i, k} : Bases'[p] = Bases[p]
  <2>1. \A x \in Strands :
           /\ Bases[Place(x)] = IF pc[x] = "run" THEN eh_globals[x] ELSE Base(pending_exception[x])
           /\ Bases'[Place(x)] = IF pc'[x] = "run" THEN eh_globals'[x] ELSE Base(pending_exception'[x])
           /\ Bases[2 * x] = Base(thrown_slot[x]) /\ Bases'[2 * x] = Base(thrown_slot'[x])
    BY <1>4, <1>8, RowsAre, RowsThen
  <2>2. Bases[i] = Calm
    BY <1>3, <1>5, <1>9, <1>11, <2>1, NoRecord
  <2>3. Bases'[k] = Calm
    BY <1>2, <1>5, <1>9, <1>11, <2>1, NoRecord
  <2>4. Bases'[i] = Bases[k]
    BY <1>2, <1>3, <1>5, <1>7, <1>11, <2>1
  <2>5. ASSUME NEW p \in Cells \ {i, k} PROVE Bases'[p] = Bases[p]
    <3>1. PICK x \in Strands : p = Place(x) \/ p = 2 * x
      BY PlaceIs
    <3>2. CASE p = Place(x)
      <4>1. x \notin {0, c}
        BY <1>11, <3>2
      <4>2. pc'[x] = pc[x] /\ eh_globals'[x] = eh_globals[x] /\ pending_exception' = pending_exception
        BY <1>2, <1>5, <1>7, <4>1
      <4>3. /\ Bases[p] = IF pc[x] = "run" THEN eh_globals[x] ELSE Base(pending_exception[x])
            /\ Bases'[p] = IF pc'[x] = "run" THEN eh_globals'[x] ELSE Base(pending_exception'[x])
        BY <2>1, <3>2
      <4>4. Base(pending_exception'[x]) = Base(pending_exception[x])
        BY <4>2
      <4>5. QED
        BY <4>2, <4>3, <4>4
    <3>3. CASE p = 2 * x
      BY <1>2, <2>1, <3>3
    <3>4. QED
      BY <3>1, <3>2, <3>3
  <2>6. QED
    BY <2>2, <2>3, <2>4, <2>5
<1>14. OneHas(Bases', entry)
  <2>1. PICK B2 : B2 = Bases'
    OBVIOUS
  <2>2. PICK p \in Cells : Bases[p] = entry /\ \A q \in Cells \ {p} : Bases[q] = Calm
    BY <1>4 DEF OneHas
  <2>3. PICK q : q = IF p = k THEN i ELSE IF p = i THEN k ELSE p
    OBVIOUS
  <2>4. q \in Cells /\ B2[q] = entry /\ \A x \in Cells \ {q} : B2[x] = Calm
    <3>1. CASE p = k
      BY <1>12, <1>13, <2>1, <2>2, <2>3, <3>1
    <3>2. CASE p = i
      BY <1>12, <1>13, <2>1, <2>2, <2>3, <3>2
    <3>3. CASE p \notin {i, k}
      BY <1>12, <1>13, <2>1, <2>2, <2>3, <3>3
    <3>4. QED
      BY <3>1, <3>2, <3>3
  <2>5. OneHas(B2, entry)
    BY <2>4 DEF OneHas
  <2>6. QED
    BY <2>1, <2>5
<1>15. /\ Actives \in [Cells -> Labels \cup {None}] /\ thrown \subseteq Labels
       /\ \A y \in thrown : y <= top /\ y \in Int
  BY <1>4, LabelsAre DEF Leads
<1>16. \A p \in Cells : p > i => Actives[p] = None
  <2>1. ASSUME NEW p \in Cells, p > i PROVE Actives[p] = None
    <3>1. p \in Int /\ p <= 2 * N + 1
      BY DEF Cells
    <3>2. CASE p = k
      BY <1>4, <1>9, <1>11, <3>2, RowsAre, NoRecord
    <3>3. CASE p # k
      <4>1. 2 * (c - 1) < p /\ c - 1 \in Strands /\ k \in Int /\ p # 2 * N + 1 /\ p < k
        BY <1>3, <1>12, <2>1, <3>1, <3>3 DEF Strands
      <4>2. \A x \in Linked : ~(c - 1 < x /\ 2 * x - 1 < k)
        BY <1>3, <1>6
      <4>3. QED
        BY <1>4, <4>1, <4>2, NoneBetween
    <3>4. QED
      BY <3>2, <3>3
  <2>2. QED
    BY <2>1
<1>17. Leads(Actives, Running', 2 * spawned' + 1, thrown)
  <2>1. Bounded(Sets(Actives), Running', 2 * spawned' + 1)
    <3> SUFFICES ASSUME NEW j \in Cells, NEW x \in Sets(Actives)[j]
                 PROVE  /\ x \in Labels /\ x <= 2 * spawned' + 1
                        /\ \A d \in Running' : /\ j < 2 * d - 1 => x < 2 * d
                                               /\ j = 2 * d - 1 => x <= 2 * d
                                               /\ j > 2 * d - 1 => x > 2 * d
      BY DEF Bounded
    <3>1. /\ x \in Labels /\ x <= top
          /\ \A d \in Running : /\ j < 2 * d - 1 => x < 2 * d
                                /\ j = 2 * d - 1 => x <= 2 * d
                                /\ j > 2 * d - 1 => x > 2 * d
      BY <1>4 DEF Leads, Bounded
    <3>2. x \in Int /\ x < 2 * c /\ x <= 2 * spawned' + 1
      <4>1. x \in Int
        BY <3>1, LabelsAre
      <4>2. QED
        BY <1>1, <1>2, <1>3, <3>1, <4>1
    <3>3. ~(j > 2 * c - 1)
      <4>1. Actives[j] # None
        BY <1>15, SetsAre
      <4>2. QED
        BY <1>12, <1>16, <4>1
    <3>4. ASSUME NEW d \in Running'
          PROVE  /\ j < 2 * d - 1 => x < 2 * d
                 /\ j = 2 * d - 1 => x <= 2 * d
                 /\ j > 2 * d - 1 => x > 2 * d
      <4>1. CASE d \in Running
        BY <3>1, <4>1
      <4>2. CASE d = c
        BY <1>3, <3>2, <3>3, <4>2
      <4>3. QED
        BY <1>6, <4>1, <4>2
    <3>5. QED
      BY <3>1, <3>2, <3>4
  <2>2. \A y \in thrown : y <= 2 * spawned' + 1
    BY <1>1, <1>2, <1>3, <1>15
  <2>3. QED
    BY <1>4, <2>1, <2>2 DEF Leads
<1>18. Actives' = Actives
  BY <1>2 DEF Actives, Row, except_data
<1>19. 2 * spawned' + 1 \notin thrown'
  BY <1>1, <1>2, <1>3, <1>15
<1>20. FirstInv' /\ OneHas(Bases', entry')
  BY <1>2, <1>14, <1>17, <1>18, <1>19 DEF FirstInv
<1>21. QED
  BY <1>8, <1>10, <1>20 DEF ExcInv, OneHas

\* The frame alone, with no record anywhere.
LEMMA AloneExc ==
    ASSUME ExcTypes', CalmInv', \A s \in Strands : pending_exception'[s] = NULL /\ thrown_slot'[s] = NULL,
           pc'[0] = "run", \A c \in Children : pc'[c] # "run", eh_globals'[0] = entry', thrown' = {}
    PROVE  ExcInv'
<1> USE Facts
<1>1. /\ Actives' \in [Cells -> Labels \cup {None}]
      /\ \A s \in Strands :
            /\ Actives'[Place(s)] = None /\ Actives'[2 * s] = None
            /\ Bases'[Place(s)] = IF s = 0 THEN entry' ELSE Calm
            /\ Bases'[2 * s] = Calm
  <2>1. /\ Actives' \in [Cells -> Labels \cup {None}]
        /\ \A s \in Strands :
              /\ Actives'[Place(s)] = except_data(pending_exception'[s])
              /\ Actives'[2 * s] = except_data(thrown_slot'[s])
              /\ Bases'[Place(s)] = IF pc'[s] = "run" THEN eh_globals'[s] ELSE Base(pending_exception'[s])
              /\ Bases'[2 * s] = Base(thrown_slot'[s])
    BY RowsThen
  <2>2. QED
    BY <2>1, NoRecord
<1>2. PICK A, B : A = Actives' /\ B = Bases'
  OBVIOUS
<1>3. ASSUME NEW i \in Cells PROVE A[i] = None /\ (i # Place(0) => B[i] = Calm)
  <2>1. PICK s \in Strands : i = Place(s) \/ i = 2 * s
    BY PlaceIs
  <2>2. QED
    BY <1>1, <1>2, <2>1
<1>4. Place(0) \in Cells /\ B[Place(0)] = entry'
  BY <1>1, <1>2, PlaceIs
<1>5. OneHas(B, entry')
  BY <1>3, <1>4 DEF OneHas
<1>6. A \in [Cells -> Labels \cup {None}] /\ \A i \in Cells : Sets(A)[i] = {}
  <2>1. A \in [Cells -> Labels \cup {None}]
    BY <1>1, <1>2
  <2>2. ASSUME NEW i \in Cells PROVE Sets(A)[i] = {}
    BY <1>3, <2>1, SetsAre
  <2>3. QED
    BY <2>1, <2>2
<1>7. Leads(A, Running', 2 * spawned' + 1, {})
  BY <1>3, <1>6 DEF Leads, Ordered, Bounded
<1>8. QED
  BY <1>2, <1>5, <1>7 DEF ExcInv, FirstInv, OneHas

LEMMA CallAgainExc == ASSUME IInv, ExcInv, CallAgain PROVE ExcInv'
<1> USE Facts
<1>1. /\ pc[0] = "run" /\ ~unsynched /\ pc'[0] = "run" /\ (\A c \in Children : pc'[c] = "new")
      /\ eh_globals' = [eh_globals EXCEPT ![0] = entry'] /\ entry' \in Entries
      /\ UNCHANGED <<unsynched, pending_exception, thrown_slot, thrown>>
  BY DEF CallAgain
<1>2. ExcTypes /\ CalmInv /\ entry' \in EhGlobals
  BY <1>1, EntryAssumption DEF ExcInv
<1>3. Linked = {} /\ \A c \in Children : pc[c] # "run"
  BY <1>1 DEF Linked, IInv, StepInv, Alive
<1>4. /\ eh_globals'[0] = entry' /\ \A c \in Children : eh_globals'[c] = eh_globals[c]
      /\ eh_globals' \in [Strands -> EhGlobals]
  BY <1>1, <1>2 DEF ExcTypes
<1>5. ExcTypes'
  BY <1>1, <1>2, <1>4 DEF ExcTypes
<1>6. thrown = {} /\ \A s \in Strands : pending_exception[s] = NULL /\ thrown_slot[s] = NULL
  BY <1>1, <1>2, <1>3 DEF CalmInv
<1>7. \A s \in Strands : IF pc'[s] = "run" THEN pending_exception'[s] = NULL ELSE eh_globals'[s] = Calm
  BY <1>1, <1>2, <1>3, <1>4, <1>6 DEF CalmInv
<1>8. CalmInv'
  BY <1>1, <1>6, <1>7 DEF CalmInv
<1>9. QED
  BY <1>1, <1>4, <1>5, <1>6, <1>8, AloneExc

LEMMA InitExc == Init => ExcInv
<1> SUFFICES ASSUME Init PROVE ExcInv
  OBVIOUS
<1> USE Facts
<1>1. /\ pending_exception = [s \in Strands |-> NULL] /\ thrown_slot = [s \in Strands |-> NULL]
      /\ entry \in Entries /\ eh_globals = [s \in Strands |-> IF s = 0 THEN entry ELSE Calm]
      /\ pc = [s \in Strands |-> IF s = 0 THEN "run" ELSE "new"]
      /\ unsynched = FALSE /\ thrown = {}
  BY DEF Init
<1>2. ExcTypes
  BY <1>1, EntryAssumption, CalmIs DEF ExcTypes
<1>3. CalmInv
  BY <1>1 DEF CalmInv
<1>4. \A s \in Strands :
         /\ Actives[Place(s)] = None /\ Actives[2 * s] = None
         /\ Bases[Place(s)] = IF s = 0 THEN entry ELSE Calm
         /\ Bases[2 * s] = Calm
  BY <1>1, <1>2, RowsAre, NoRecord
<1>5. ASSUME NEW i \in Cells PROVE Actives[i] = None /\ (i # Place(0) => Bases[i] = Calm)
  <2>1. PICK s \in Strands : i = Place(s) \/ i = 2 * s
    BY PlaceIs
  <2>2. QED
    BY <1>4, <2>1
<1>6. Place(0) \in Cells /\ Bases[Place(0)] = entry
  BY <1>4, PlaceIs
<1>7. OneHas(Bases, entry)
  BY <1>5, <1>6 DEF OneHas
<1>8. Actives \in [Cells -> Labels \cup {None}]
  BY <1>2, RowsAre
<1>9. \A i \in Cells : Sets(Actives)[i] = {}
  BY <1>5, <1>8, SetsAre
<1>10. Leads(Actives, Running, 2 * spawned + 1, thrown)
  BY <1>1, <1>5, <1>8, <1>9 DEF Leads, Ordered, Bounded
<1>11. QED
  BY <1>1, <1>2, <1>3, <1>7, <1>10 DEF ExcInv, FirstInv

\* What the thread that resumes a frame has is what was saved, the exception it
\* throws being caught.
LEMMA SetupIs ==
    ASSUME NEW info \in Infos \cup {NULL}, NEW state, state = setup_for_execution_sysdep(info)
    PROVE  (IF except_data(info) = None THEN state ELSE begin_catch(state)) = Base(info)
<1>1. CASE info = NULL
  BY <1>1, NoRecord DEF setup_for_execution_sysdep
<1>2. CASE info \in Infos
  <2>1. PICK h : h = info.runtime_state
    OBVIOUS
  <2>2. /\ info # NULL /\ except_data(info) = info.active /\ h \in EhGlobals
        /\ Base(info) = [caught |-> h.caught, uncaught |-> h.uncaught - (IF info.active = None THEN 0 ELSE 1)]
    BY <1>2, <2>1, BaseIs
  <2>3. state = h /\ h = [caught |-> h.caught, uncaught |-> h.uncaught] /\ h.uncaught \in Nat
    BY <2>1, <2>2 DEF setup_for_execution_sysdep, EhGlobals
  <2>4. CASE info.active = None
    BY <2>2, <2>3, <2>4
  <2>5. CASE info.active # None
    <3>1. begin_catch(state) = [caught |-> h.caught, uncaught |-> h.uncaught - 1]
      BY <2>3 DEF begin_catch
    <3>2. QED
      BY <2>2, <2>5, <3>1
  <2>6. QED
    BY <2>4, <2>5
<1>3. QED
  BY <1>1, <1>2

LEMMA ResumeExc == ASSUME IInv, ExcInv, Resume PROVE ExcInv'
<1> USE Facts
<1>1. PICK info : info = pending_exception[0]
  OBVIOUS
<1>2. ExcTypes /\ CalmInv /\ OneHas(Bases, entry)
  BY DEF ExcInv
<1>3. info \in Infos \cup {NULL} /\ pc[0] = "ready" /\ Goto(0, "run") /\ UNCHANGED <<tree, spawned, unsynched>>
  BY <1>1, <1>2 DEF Resume, tree, ExcTypes
<1>4. /\ eh_globals' = [eh_globals EXCEPT ![0] = Base(info)]
      /\ pending_exception' = [pending_exception EXCEPT ![0] = NULL]
      /\ thrown' = IF unsynched THEN thrown ELSE {}
      /\ UNCHANGED <<entry, thrown_slot>>
  <2>1. PICK state : state = setup_for_execution_sysdep(info)
    OBVIOUS
  <2>2. (IF except_data(info) = None THEN state ELSE begin_catch(state)) = Base(info)
    BY <1>3, <2>1, SetupIs
  <2>3. QED
    BY <1>1, <2>1, <2>2 DEF Resume, SetupExceptions
<1>5. pc'[0] = "run" /\ \A t \in Strands \ {0} : pc'[t] = pc[t]
  BY <1>3, GotoIs DEF IInv
<1>6. Running' = Running /\ Linked' = Linked
  <2>1. \A c \in Children : pc'[c] = pc[c]
    BY <1>5
  <2>2. QED
    BY <2>1 DEF Running, Linked
<1>7. Base(info) = Bases[Place(0)] /\ Place(0) \in Cells
  BY <1>1, <1>2, <1>3, RowsAre, PlaceIs
<1>8. Base(info) \in {entry, Calm} /\ Base(info) \in EhGlobals
  <2>1. Base(info) \in {entry, Calm}
    BY <1>2, <1>7 DEF OneHas
  <2>2. QED
    BY <1>2, <2>1, CalmIs, EntryAssumption DEF ExcTypes
<1>9. /\ eh_globals'[0] = Base(info) /\ pending_exception'[0] = NULL
      /\ \A t \in Strands \ {0} : eh_globals'[t] = eh_globals[t] /\ pending_exception'[t] = pending_exception[t]
  BY <1>2, <1>4 DEF ExcTypes
<1>10. ExcTypes'
  BY <1>2, <1>4, <1>8 DEF ExcTypes
<1>11. unsynched => info = NULL
  BY <1>1, <1>2, <1>3 DEF CalmInv
<1>12. CalmInv'
  <2>1. \A c \in Children \ Linked' : pending_exception'[c] = NULL /\ thrown_slot'[c] = NULL
    BY <1>2, <1>4, <1>6, <1>9 DEF CalmInv
  <2>2. \A t \in Strands : IF pc'[t] = "run" THEN pending_exception'[t] = NULL ELSE eh_globals'[t] = Calm
    BY <1>2, <1>5, <1>9 DEF CalmInv
  <2>3. unsynched' => eh_globals'[0] = Calm
    BY <1>3, <1>9, <1>11, NoRecord
  <2>4. ~unsynched' => thrown_slot'[0] = NULL /\ thrown' = {}
    BY <1>2, <1>3, <1>4 DEF CalmInv
  <2>5. QED
    BY <1>9, <2>1, <2>2, <2>3, <2>4 DEF CalmInv
<1>13. CASE unsynched
  <2>1. \A s \in Strands : except_data(pending_exception'[s]) = except_data(pending_exception[s])
    BY <1>1, <1>9, <1>11, <1>13
  <2>2. \A s \in Strands : Bases'[Place(s)] = Bases[Place(s)]
    <3>1. ASSUME NEW s \in Strands PROVE Bases'[Place(s)] = Bases[Place(s)]
      <4>1. Bases'[Place(s)] = IF pc'[s] = "run" THEN eh_globals'[s] ELSE Base(pending_exception'[s])
        BY <1>10, RowsThen
      <4>2. Bases[Place(s)] = IF pc[s] = "run" THEN eh_globals[s] ELSE Base(pending_exception[s])
        BY <1>2, RowsAre
      <4>3. CASE s = 0
        BY <1>5, <1>7, <1>9, <4>1, <4>3
      <4>4. CASE s # 0
        BY <1>5, <1>9, <4>1, <4>2, <4>4
      <4>5. QED
        BY <4>3, <4>4
    <3>2. QED
      BY <3>1
  <2>3. thrown' = thrown /\ Running' \subseteq Running
    BY <1>4, <1>6, <1>13
  <2>4. QED
    BY <1>3, <1>4, <1>10, <1>12, <1>13, <2>1, <2>2, <2>3, KeepExc
<1>14. CASE ~unsynched
  <2>1. Linked = {} /\ \A c \in Children : pc[c] # "run"
    BY <1>14 DEF Linked, IInv, StepInv, Alive
  <2>2. \A s \in Strands : s # 0 => pending_exception[s] = NULL /\ thrown_slot[s] = NULL
    BY <1>2, <2>1 DEF CalmInv
  <2>3. thrown_slot[0] = NULL /\ thrown' = {}
    BY <1>2, <1>4, <1>14 DEF CalmInv
  <2>4. Bases[Place(0)] = entry
    <3>1. ASSUME NEW i \in Cells, i # Place(0) PROVE Bases[i] = Calm
      <4>1. PICK s \in Strands : i = Place(s) \/ i = 2 * s
        BY PlaceIs
      <4>2. CASE i = Place(s)
        <5>1. s # 0
          BY <3>1, <4>2
        <5>2. Base(pending_exception[s]) = Calm /\ pc[s] # "run"
          BY <2>1, <2>2, <5>1, NoRecord
        <5>3. QED
          BY <1>2, <4>2, <5>2, RowsAre
      <4>3. CASE i = 2 * s
        <5>1. Base(thrown_slot[s]) = Calm
          BY <2>2, <2>3, NoRecord
        <5>2. QED
          BY <1>2, <4>3, <5>1, RowsAre
      <4>4. QED
        BY <4>1, <4>2, <4>3
    <3>2. QED
      BY <1>2, <1>7, <3>1 DEF OneHas
  <2>5. eh_globals'[0] = entry'
    BY <1>4, <1>7, <1>9, <2>4
  <2>6. \A s \in Strands : pending_exception'[s] = NULL /\ thrown_slot'[s] = NULL
    BY <1>4, <1>9, <2>2, <2>3
  <2>7. \A c \in Children : pc'[c] # "run"
    BY <1>5, <2>1
  <2>8. QED
    BY <1>5, <1>10, <1>12, <2>3, <2>5, <2>6, <2>7, AloneExc
<1>15. QED
  BY <1>13, <1>14

\* Steps that leave the exceptions alone.
LEMMA QuietExc ==
    ASSUME ExcInv, UNCHANGED <<exceptions, spawned, unsynched>>, Linked' = Linked, Running' \subseteq Running,
           \A s \in Strands : /\ pc'[s] = "run" => pc[s] = "run"
                              /\ pc[s] = "run" /\ pc'[s] # "run" => s = 0 /\ unsynched,
           pc'[0] \in {"run", "reduce"} \/ pc[0] \notin {"run", "reduce"},
           pc'[0] = "ready" => pc[0] = "ready"
    PROVE  ExcInv'
<1> USE Facts
<1>1. ExcTypes /\ CalmInv /\ UNCHANGED <<eh_globals, entry, pending_exception, thrown_slot, thrown>>
  BY DEF ExcInv, exceptions
<1>2. ExcTypes'
  BY <1>1 DEF ExcTypes
<1>3. \A s \in Strands : pc[s] = "run" /\ pc'[s] # "run" => eh_globals[s] = Calm /\ pending_exception[s] = NULL
  BY <1>1 DEF CalmInv
<1>4. CalmInv'
  <2>1. \A c \in Children \ Linked' : pending_exception'[c] = NULL /\ thrown_slot'[c] = NULL
    BY <1>1 DEF CalmInv
  <2>2. \A s \in Strands : IF pc'[s] = "run" THEN pending_exception'[s] = NULL ELSE eh_globals'[s] = Calm
    BY <1>1, <1>3 DEF CalmInv
  <2>3. unsynched' => /\ eh_globals'[0] = Calm
                      /\ pc'[0] \notin {"run", "reduce"} => pending_exception'[0] = NULL
    BY <1>1 DEF CalmInv
  <2>4. ~unsynched' => thrown_slot'[0] = NULL /\ (pc'[0] = "run" => thrown' = {})
    BY <1>1 DEF CalmInv
  <2>5. QED
    BY <2>1, <2>2, <2>3, <2>4 DEF CalmInv
<1>5. ASSUME NEW s \in Strands PROVE Bases'[Place(s)] = Bases[Place(s)]
  <2>1. /\ Bases[Place(s)] = IF pc[s] = "run" THEN eh_globals[s] ELSE Base(pending_exception[s])
        /\ Bases'[Place(s)] = IF pc'[s] = "run" THEN eh_globals'[s] ELSE Base(pending_exception'[s])
    BY <1>1, <1>2, RowsAre, RowsThen
  <2>2. eh_globals'[s] = eh_globals[s] /\ Base(pending_exception'[s]) = Base(pending_exception[s])
    BY <1>1
  <2>3. CASE pc[s] = "run" /\ pc'[s] # "run"
    BY <1>3, <2>1, <2>2, <2>3, NoRecord
  <2>4. QED
    BY <2>1, <2>2, <2>3
<1>6. \A s \in Strands : except_data(pending_exception'[s]) = except_data(pending_exception[s])
  BY <1>1
<1>7. QED
  BY <1>1, <1>2, <1>4, <1>5, <1>6, KeepExc

LEMMA RuntimeExc ==
    ASSUME IInv, ExcInv, NEW s \in Strands, NEW l,
           Jump(s) \/ (PostSuspend(s, l) /\ l = IF s = 0 THEN "stalled" ELSE "done")
    PROVE  ExcInv'
<1> USE Facts
<1>1. CASE PostSuspend(s, l) /\ LastToJoin
  <2>1. ~Jump(s)
    BY <1>1 DEF PostSuspend, Jump
  <2>2. QED
    BY <1>1, <2>1, LastExc
<1>2. CASE ~(PostSuspend(s, l) /\ LastToJoin)
  <2>1. PICK m \in {"join", "stalled", "done"} : Goto(s, m)
    BY <1>2 DEF Jump, PostSuspend, ProvablyGoodSteal
  <2>2. pc[s] \in {"jump", "join"} /\ UNCHANGED <<exceptions, spawned, unsynched>>
    BY <1>2 DEF Jump, PostSuspend, ProvablyGoodSteal, exceptions, tree
  <2>3. pc'[s] = m /\ \A t \in Strands \ {s} : pc'[t] = pc[t]
    BY <2>1, GotoIs DEF IInv
  <2>4. Linked' = Linked /\ Running' = Running
    <3>1. \A c \in Children : \/ pc'[c] = pc[c]
                              \/ {pc[c], pc'[c]} \cap {"run", "return", "reduce"} = {}
      BY <2>2, <2>3
    <3>2. QED
      BY <3>1 DEF Linked, Running
  <2>5. /\ \A t \in Strands : pc'[t] = "run" <=> pc[t] = "run"
        /\ pc'[0] \in {"run", "reduce"} \/ pc[0] \notin {"run", "reduce"}
        /\ pc'[0] = "ready" => pc[0] = "ready"
    BY <2>2, <2>3
  <2>6. QED
    BY <2>2, <2>4, <2>5, QuietExc
<1>3. QED
  BY <1>1, <1>2

LEMMA SyncQuiet == ASSUME IInv, ExcInv, Sync PROVE ExcInv'
<1> USE Facts
<1>1. pc[0] = "run" /\ unsynched /\ Goto(0, "reduce") /\ UNCHANGED <<exceptions, spawned, unsynched>>
  BY DEF Sync, Leave, tree
<1>2. pc'[0] = "reduce" /\ \A t \in Strands \ {0} : pc'[t] = pc[t]
  BY <1>1, GotoIs DEF IInv
<1>3. Linked' = Linked /\ Running' = Running
  <2>1. \A c \in Children : pc'[c] = pc[c]
    BY <1>2
  <2>2. QED
    BY <2>1 DEF Linked, Running
<1>4. QED
  BY <1>1, <1>2, <1>3, QuietExc

LEMMA LeaveExc ==
    ASSUME IInv, ExcInv, \/ c_sync_except
                         \/ \E c \in Children : Return(c) \/ exception_from_spawn(c)
    PROVE  ExcInv'
<1> USE Facts
<1>1. ASSUME NEW s \in Strands PROVE Label(s) \in Labels /\ Label(s) # None
  BY <1>1, FrameAssumption DEF IInv, TypeInv, Label, Labels, None, Strands
<1>2. CASE c_sync_except
  <2>1. Saves(0, "reduce", Label(0))
    BY <1>1, <1>2 DEF c_sync_except, Saves, Thrown, Leave
  <2>2. QED
    BY <2>1, SavesExc
<1>3. ASSUME NEW c \in Children, Return(c) PROVE ExcInv'
  <2>1. Saves(c, "return", None)
    BY <1>3 DEF Return, Saves, save_exception_state, Leave
  <2>2. QED
    BY <2>1, SavesExc
<1>4. ASSUME NEW c \in Children, exception_from_spawn(c) PROVE ExcInv'
  <2>1. Saves(c, "return", Label(c))
    BY <1>1, <1>4 DEF exception_from_spawn, return_exception, Saves, Thrown, Leave
  <2>2. QED
    BY <2>1, SavesExc
<1>5. QED
  BY <1>2, <1>3, <1>4

LEMMA NextExc == IInv /\ ExcInv /\ [Next]_vars => ExcInv'
<1> SUFFICES ASSUME IInv, ExcInv, [Next]_vars PROVE ExcInv'
  OBVIOUS
<1> USE Facts
<1>1. CASE Steal \/ Sync \/ c_sync_except \/ CallAgain
  BY <1>1, StealExc, SyncQuiet, LeaveExc, CallAgainExc
<1>2. ASSUME NEW c \in Children, Child(c) PROVE ExcInv'
  <2>1. CASE Return(c) \/ exception_from_spawn(c)
    BY <2>1, LeaveExc
  <2>2. CASE FastPath(c) \/ SlowPath(c)
    BY <2>2, ChildExc
  <2>3. CASE Jump(c) \/ DoReturnFromSpawn(c)
    BY <2>3, RuntimeExc DEF DoReturnFromSpawn
  <2>4. QED
    BY <1>2, <2>1, <2>2, <2>3 DEF Child
<1>3. CASE Frame
  <2>1. CASE Jump(0) \/ DoSync
    BY <2>1, RuntimeExc DEF DoSync
  <2>2. QED
    BY <1>3, <2>1, SyncExc, ResumeExc DEF Frame
<1>4. CASE UNCHANGED vars
  <2>1. UNCHANGED <<exceptions, spawned, unsynched, pc>>
    BY <1>4 DEF vars, tree
  <2>2. Running' = Running /\ Linked' = Linked
    BY <2>1 DEF Running, Linked
  <2>3. QED
    BY <2>1, <2>2, QuietExc
<1>5. QED
  BY <1>1, <1>2, <1>3, <1>4 DEF Next

LEMMA ExcInvariance == Spec => [](IInv /\ ExcInv)
<1>1. Init => IInv /\ ExcInv
  BY InitStep, InitExc
<1>2. IInv /\ ExcInv /\ [Next]_vars => (IInv /\ ExcInv)'
  BY NextStep, NextExc
<1>3. QED
  BY <1>1, <1>2, PTL DEF Spec

-----------------------------------------------------------------------------
(* What it says of the exceptions *)

LEMMA OthersCalm ==
    ASSUME IInv, ExcInv, ~unsynched, NEW i \in Cells, i # Place(0)
    PROVE  Actives[i] = None /\ Bases[i] = Calm
<1> USE Facts
<1>1. Linked = {} /\ \A c \in Children : pc[c] # "run"
  BY DEF Linked, IInv, StepInv, Alive
<1>2. ExcTypes /\ CalmInv
  BY DEF ExcInv
<1>3. thrown_slot[0] = NULL /\ \A s \in Strands : s # 0 => pending_exception[s] = NULL /\ thrown_slot[s] = NULL
  BY <1>1, <1>2 DEF CalmInv
<1>4. PICK s \in Strands : i = Place(s) \/ i = 2 * s
  BY PlaceIs
<1>5. CASE i = Place(s)
  <2>1. s # 0
    BY <1>5
  <2>2. pending_exception[s] = NULL /\ pc[s] # "run"
    BY <1>1, <1>3, <2>1
  <2>3. QED
    BY <1>2, <1>5, <2>2, RowsAre, NoRecord
<1>6. CASE i = 2 * s
  <2>1. thrown_slot[s] = NULL
    BY <1>3
  <2>2. QED
    BY <1>2, <1>6, <2>1, RowsAre, NoRecord
<1>7. QED
  BY <1>4, <1>5, <1>6

LEMMA LowestIs ==
    ASSUME NEW S, S \subseteq Int, NEW x, IF x = None THEN S = {} ELSE x \in S /\ \A y \in S : x <= y
    PROVE  x = Lowest(S)
<1>1. CASE x = None
  BY <1>1 DEF Lowest, None
<1>2. CASE x # None
  <2>1. x \in S /\ \A y \in S : x <= y
    BY <1>2
  <2>2. PICK z : z = Lowest(S)
    OBVIOUS
  <2>3. z = CHOOSE w \in S : \A y \in S : w <= y
    BY <2>1, <2>2 DEF Lowest
  <2>4. z \in S /\ \A y \in S : z <= y
    BY <2>1, <2>3
  <2>5. x <= z /\ z <= x /\ x \in Int /\ z \in Int
    BY <2>1, <2>4
  <2>6. QED
    BY <2>2, <2>5
<1>3. QED
  BY <1>1, <1>2

\* A state other than that of a calm thread is in one place only.
LEMMA Mergeable ==
    ASSUME NEW left \in Infos \cup {NULL}, NEW right \in Infos \cup {NULL}, Calm \in {Base(left), Base(right)}
    PROVE  mergeable(left, right)
<1>1. CASE NULL \in {left, right}
  BY <1>1 DEF mergeable
<1>2. CASE left \in Infos /\ right \in Infos
  <2>1. ASSUME NEW info \in Infos, Base(info) = Calm PROVE info.runtime_state.caught = <<>>
    <3>1. Base(info).caught = info.runtime_state.caught
      BY BaseIs
    <3>2. QED
      BY <2>1, <3>1, CalmIs
  <2>2. QED
    BY <1>2, <2>1 DEF mergeable
<1>3. QED
  BY <1>1, <1>2

LEMMA KeptNow == IInv /\ ExcInv => ExceptionStateKept
<1> SUFFICES ASSUME IInv, ExcInv PROVE ExceptionStateKept
  OBVIOUS
<1> USE Facts
<1>1. ExcTypes /\ CalmInv /\ OneHas(Bases, entry) /\ Leads(Actives, Running, 2 * spawned + 1, thrown)
  BY DEF ExcInv, FirstInv
<1>2. Place(0) \in Cells /\ \A s \in Strands : Place(s) \in Cells /\ 2 * s \in Cells
  BY PlaceIs
<1>3. pc[0] = "run" /\ ~unsynched => eh_globals[0] = entry
  <2> SUFFICES ASSUME pc[0] = "run", ~unsynched PROVE eh_globals[0] = entry
    OBVIOUS
  <2>1. \A i \in Cells : i # Place(0) => Bases[i] = Calm
    BY OthersCalm
  <2>2. Bases[Place(0)] = entry
    BY <1>1, <1>2, <2>1 DEF OneHas
  <2>3. QED
    BY <1>1, <2>2, RowsAre
<1>4. pc[0] = "ready" /\ ~unsynched => except_data(pending_exception[0]) = Lowest(thrown)
  <2> SUFFICES ASSUME pc[0] = "ready", ~unsynched PROVE except_data(pending_exception[0]) = Lowest(thrown)
    OBVIOUS
  <2>1. PICK x : x = except_data(pending_exception[0])
    OBVIOUS
  <2>2. Actives[Place(0)] = x
    BY <1>1, <2>1, RowsAre
  <2>3. \A i \in Cells : i # Place(0) => Actives[i] = None
    BY OthersCalm
  <2>4. thrown \subseteq Int
    BY <1>1, LabelsAre DEF Leads
  <2>5. \A y \in thrown : x # None /\ x <= y
    BY <1>1, <2>2, <2>3 DEF Leads
  <2>6. x # None => x \in thrown
    BY <1>1, <1>2, <2>2 DEF Leads
  <2>7. x = Lowest(thrown)
    BY <2>4, <2>5, <2>6, LowestIs
  <2>8. QED
    BY <2>1, <2>7
<1>5. \A s \in Strands : pc[s] # "run" => eh_globals[s] = Calm
  BY <1>1 DEF CalmInv
<1>6. ASSUME NEW s \in Strands, NEW t \in Strands PROVE mergeable(pending_exception[s], thrown_slot[t])
  <2>1. CASE pending_exception[s] = NULL
    BY <2>1 DEF mergeable
  <2>2. CASE pc[s] # "run"
    <3>1. Bases[Place(s)] = Base(pending_exception[s]) /\ Bases[2 * t] = Base(thrown_slot[t])
      BY <1>1, <2>2, RowsAre
    <3>2. Place(s) # 2 * t
      BY DEF Place
    <3>3. Calm \in {Base(pending_exception[s]), Base(thrown_slot[t])}
      BY <1>1, <1>2, <3>1, <3>2, OneCalm
    <3>4. QED
      BY <1>1, <3>3, Mergeable DEF ExcTypes
  <2>3. QED
    BY <1>1, <2>1, <2>2 DEF CalmInv
<1>7. ASSUME NEW s \in Strands, NEW t \in Strands, s # t PROVE mergeable(thrown_slot[s], thrown_slot[t])
  <2>1. Bases[2 * s] = Base(thrown_slot[s]) /\ Bases[2 * t] = Base(thrown_slot[t])
    BY <1>1, RowsAre
  <2>2. 2 * s # 2 * t
    BY <1>7
  <2>3. Calm \in {Base(thrown_slot[s]), Base(thrown_slot[t])}
    BY <1>1, <1>2, <2>1, <2>2, OneCalm
  <2>4. QED
    BY <1>1, <2>3, Mergeable DEF ExcTypes
<1>8. QED
  BY <1>3, <1>4, <1>5, <1>6, <1>7 DEF ExceptionStateKept

\* Whatever the order in which strands end and splice, a frame past its sync is
\* in the handler it was called in and throws the first in serial order of the
\* exceptions thrown since its last sync, a worker that goes on to other work
\* takes no exception along, and no two chains of handlers are merged
\* (save_exception_state and merge_pending_exceptions in except-gcc.cpp, the
\* splice_exceptions_for_spawn and setup_for_execution_exceptions in scheduler.c).
THEOREM ExceptionStateKeptTheorem == Spec => []ExceptionStateKept
<1>1. IInv /\ ExcInv => ExceptionStateKept
  BY KeptNow
<1>2. QED
  BY <1>1, ExcInvariance, PTL

-----------------------------------------------------------------------------
(* The types *)

LEMMA TypesThen == IInv /\ MapInv /\ ExcInv => TypeOK
<1> SUFFICES ASSUME IInv, MapInv, ExcInv PROVE TypeOK
  OBVIOUS
<1> USE Facts
<1>1. join_counter \in 0..(N + 1)
  <2>1. IsFiniteSet(Children) /\ Cardinality(Children) = N
    <3>1. PICK one : one = 1
      OBVIOUS
    <3>2. one \in Int /\ N \in Int
      BY <3>1
    <3>3. /\ IsFiniteSet(one..N)
          /\ Cardinality(one..N) = IF one > N THEN 0 ELSE N - one + 1
      BY ONLY <3>2, FS_Interval
    <3>4. QED
      BY <3>1, <3>3 DEF Children
  <2>2. Alive \subseteq Children
    BY DEF Alive
  <2>3. Cardinality(Alive) <= N
    BY <2>1, <2>2, FS_Subset
  <2>4. QED
    BY <2>3, Finite DEF IInv, CountInv
<1>2. updates \subseteq Labels
  <2>1. \A i \in Cells : Parts(Maps)[i] \subseteq Labels
    BY RangeOfSeq DEF MapInv, Sorted, Parts
  <2>2. QED
    BY <2>1 DEF MapInv, All
<1>3. thrown \subseteq Labels
  BY DEF ExcInv, FirstInv, Leads
<1>4. \A s \in Strands : reducer_map[s] \in Seq(Labels) /\ slot[s] \in Seq(Labels)
  BY DEF MapInv
<1>5. /\ entry \in Entries
      /\ \A s \in Strands : eh_globals[s] \in EhGlobals
      /\ \A s \in Strands : {pending_exception[s], thrown_slot[s]} \subseteq Infos \cup {NULL}
  BY DEF ExcInv, ExcTypes
<1>6. QED
  BY <1>1, <1>2, <1>3, <1>4, <1>5 DEF TypeOK, IInv, TypeInv

\* Each field of the frame, of its children and of their threads stays in its
\* type; the join counter (full_frame::join_counter) never goes below zero and
\* never counts more than the children and the frame.
THEOREM TypeCorrect == Spec => []TypeOK
<1>1. IInv /\ MapInv /\ ExcInv => TypeOK
  BY TypesThen
<1>2. QED
  BY <1>1, MapsInvariance, ExcInvariance, PTL
=============================================================================
