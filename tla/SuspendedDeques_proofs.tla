----------------------- MODULE SuspendedDeques_proofs -----------------------
(***************************************************************************)
(* The pools of suspended deques for any number of workers, I/O threads    *)
(* and deques: every pooled deque knows its place, no deque is lost or     *)
(* taken twice, and nobody runs on a fiber that is still in use.           *)
(***************************************************************************)
EXTENDS SuspendedDeques, SequenceTheorems, FiniteSetTheorems, TLAPS

\* The types, without the bound on the indices.
TypeInv ==
    /\ active \in [Workers -> Deques]
    /\ work \in [Deques -> 0..MaxWork]
    /\ worker \in [Deques -> Workers \cup {NULL}]
    /\ self \in [Deques -> Int]
    /\ resumable \in [Deques -> BOOLEAN]
    /\ fiber \in [Deques -> {NULL, "switching", "resumable"}]
    /\ frame \in [Deques -> Workers \cup {NULL}]
    /\ suspended \in [Workers -> Seq(Deques)] /\ resumables \in [Workers -> Seq(Deques)]
    /\ lock \in [Workers -> Actors \cup {NULL}]
    /\ waiting \subseteq Deques /\ free \subseteq Deques
    /\ pc \in [Actors -> Labels] /\ arg \in [Actors -> Deques \cup {NULL}]
    /\ vic \in [Actors -> Workers \cup {NULL}] /\ after \in [Workers -> {"run", "sched"}]

\* The labels of an actor that has a deque to run or to put into a pool, those
\* before it has seen the deque fully suspended, those of a worker that is
\* about to leave its deque or has just left it, and those of one with none.
Holding == {"switch", "mr_wait", "mr_lock", "mr_mark", "mr_add",
            "rs_wait", "rs_lock", "rs_frame", "rs_own", "jump"}
Waking == {"mr_wait", "rs_wait"}
Leaving == {"mugOwn", "switch"}
Left == {"park", "leave"}
Empty == {"run", "sched", "mugOwn", "choose"}

\* The deque was given up and nobody has yet seen that it can be resumed.
Pending(d) == d \in waiting \/ \E a \in Actors : pc[a] \in Waking /\ arg[a] = d

Held(d) == \E a \in Actors : pc[a] \in Holding /\ arg[a] = d
Kept(d) == \E w \in Workers : active[w] = d /\ pc[w] \notin Leaving

\* The pool P holds exactly the deques of the set X that have an index, each
\* at its index in the pool of its worker.
Indexed(P, wk, sf, X) ==
    /\ \A w \in Workers : \A i \in 1..Len(P[w]) :
          wk[P[w][i]] = w /\ sf[P[w][i]] = i - 1 /\ P[w][i] \in X
    /\ \A d \in X : sf[d] >= 0 =>
          /\ wk[d] \in Workers /\ sf[d] < Len(P[wk[d]]) /\ P[wk[d]][sf[d] + 1] = d

Marked == {d \in Deques : resumable[d]}
Unmarked == Deques \ Marked

PoolInv ==
    /\ Indexed(suspended, worker, self, Unmarked)
    /\ Indexed(resumables, worker, self, Marked)

LabelInv ==
    \A a \in Actors :
    /\ pc[a] \in Empty => arg[a] = NULL
    /\ pc[a] \notin Empty => arg[a] \in Deques
    /\ pc[a] \in {"choose", "mug_frame", "mug_done", "mr_lock", "rs_lock", "mr_add"}
          => vic[a] \in Workers

ActiveInv ==
    \A w \in Workers :
    /\ active[w] \notin free /\ self[active[w]] = ACTIVE
    /\ worker[active[w]] = w /\ ~resumable[active[w]]
    /\ pc[w] \in Leaving => Pending(active[w])
    /\ pc[w] \notin Leaving => active[w] \notin waiting /\ ~Held(active[w])
    /\ pc[w] \notin Left => fiber[active[w]] = NULL

\* A deque just left is still to be woken, and not resumable before its
\* worker is off the fiber.
LeftInv ==
    \A w \in Workers : pc[w] \in Left =>
    /\ Pending(arg[w]) /\ fiber[arg[w]] = "switching"
    /\ ~resumable[arg[w]] /\ arg[w] \notin free
    /\ pc[w] = "park" => self[arg[w]] = ACTIVE
    /\ pc[w] = "leave" => self[arg[w]] # ACTIVE /\ (worker[arg[w]] = NULL \/ self[arg[w]] >= 0)
    /\ \A v \in Workers : pc[v] \in Left /\ arg[v] = arg[w] => v = w

HeldInv ==
    \A a \in Actors : pc[a] \in Holding =>
    /\ arg[a] \notin free /\ arg[a] \notin waiting
    /\ \A b \in Actors : pc[b] \in Holding /\ arg[b] = arg[a] => a = b
    /\ pc[a] \notin Waking => fiber[arg[a]] = "resumable"
    /\ pc[a] \notin Waking \cup {"mr_lock", "rs_lock"} => self[arg[a]] = INVALID
    /\ pc[a] \in {"mr_lock", "rs_lock"} =>
          \/ self[arg[a]] = INVALID /\ worker[arg[a]] = NULL
          \/ self[arg[a]] >= 0 /\ worker[arg[a]] = vic[a]
    /\ pc[a] \notin {"mr_add", "jump"} => ~resumable[arg[a]]
    /\ pc[a] = "mr_add" => resumable[arg[a]]

DequeInv ==
    \A d \in Deques :
    /\ self[d] >= INVALID
    /\ d \in free => self[d] = INVALID /\ ~resumable[d] /\ d \notin waiting
    /\ d \in waiting => ~resumable[d]
    /\ self[d] >= 0 /\ resumable[d] => d \notin waiting /\ fiber[d] = "resumable" /\ ~Held(d)
    /\ Pending(d) /\ fiber[d] = "resumable" =>
          self[d] # ACTIVE /\ (worker[d] = NULL \/ self[d] >= 0)
    /\ d \in free \/ d \in waiting \/ Kept(d) \/ Held(d) \/ (self[d] >= 0 /\ resumable[d])

IInv == TypeInv /\ PoolInv /\ LabelInv /\ ActiveInv /\ LeftInv /\ HeldInv /\ DequeInv

-----------------------------------------------------------------------------
(* Pools *)

\* What deque_pool_remove leaves of a vector.
Without(s, k) == SubSeq([s EXCEPT ![k] = s[Len(s)]], 1, Len(s) - 1)

LEMMA WithoutIs ==
    ASSUME NEW s \in Seq(Deques), NEW k \in 1..Len(s)
    PROVE  /\ Without(s, k) \in Seq(Deques)
           /\ Len(Without(s, k)) = Len(s) - 1
           /\ \A i \in 1..(Len(s) - 1) : Without(s, k)[i] = IF i = k THEN s[Len(s)] ELSE s[i]
<1> DEFINE t == [s EXCEPT ![k] = s[Len(s)]]
<1>1. Len(s) \in Nat /\ Len(s) >= 1 /\ \A i \in 1..Len(s) : s[i] \in Deques
  OBVIOUS
<1>2. \A i \in 1..Len(s) : t[i] = IF i = k THEN s[Len(s)] ELSE s[i]
  OBVIOUS
<1> HIDE DEF t
<1>3. \A i \in 1..(Len(s) - 1) : t[i] \in Deques
  BY <1>1, <1>2
<1>4. /\ SubSeq(t, 1, Len(s) - 1) \in Seq(Deques)
      /\ Len(SubSeq(t, 1, Len(s) - 1)) =
            IF 1 <= Len(s) - 1 THEN (Len(s) - 1) - 1 + 1 ELSE 0
      /\ \A i \in 1..((Len(s) - 1) - 1 + 1) : SubSeq(t, 1, Len(s) - 1)[i] = t[1 + i - 1]
  BY <1>1, <1>3, SubSeqProperties
<1>5. Without(s, k) = SubSeq(t, 1, Len(s) - 1)
  BY DEF Without, t
<1> DEFINE u == SubSeq(t, 1, Len(s) - 1)
<1> HIDE DEF u
<1>6. u \in Seq(Deques) /\ Len(u) = Len(s) - 1
  <2>1. u \in Seq(Deques)
    BY <1>4 DEF u
  <2> DEFINE e == IF 1 <= Len(s) - 1 THEN (Len(s) - 1) - 1 + 1 ELSE 0
  <2>2. Len(u) = e
    BY <1>4 DEF u
  <2>3. \A m \in Nat : m >= 1 => (IF 1 <= m - 1 THEN (m - 1) - 1 + 1 ELSE 0) = m - 1
    OBVIOUS
  <2>4. e = Len(s) - 1
    BY <2>3, <1>1, Zenon
  <2> HIDE DEF e
  <2>5. QED
    BY <2>1, <2>2, <2>4, Zenon
<1>7. ASSUME NEW i \in 1..(Len(s) - 1) PROVE u[i] = IF i = k THEN s[Len(s)] ELSE s[i]
  <2>1. u[i] = t[1 + i - 1]
    BY <1>1, <1>4 DEF u
  <2>2. 1 + i - 1 = i /\ i \in 1..Len(s)
    BY <1>1
  <2>3. QED
    BY <2>1, <2>2, <1>2
<1>8. QED
  BY <1>5, <1>6, <1>7 DEF u

\* A pool none of whose deques changes.
Unchanged(P, wk, sf, X, wk2, sf2, Y) ==
    /\ P \in [Workers -> Seq(Deques)] /\ sf \in [Deques -> Int]
    /\ X \subseteq Deques /\ Y \subseteq Deques
    /\ Indexed(P, wk, sf, X)
    /\ \A x \in X : sf[x] >= 0 => wk2[x] = wk[x] /\ sf2[x] = sf[x] /\ x \in Y
    /\ \A x \in Y : sf2[x] >= 0 => sf[x] >= 0 /\ x \in X

LEMMA Untouched ==
    ASSUME NEW P, NEW wk, NEW sf, NEW X, NEW wk2, NEW sf2, NEW Y,
           Unchanged(P, wk, sf, X, wk2, sf2, Y)
    PROVE  Indexed(P, wk2, sf2, Y)
<1> USE DEF Unchanged
<1>1. ASSUME NEW w \in Workers, NEW i \in 1..Len(P[w])
      PROVE  wk2[P[w][i]] = w /\ sf2[P[w][i]] = i - 1 /\ P[w][i] \in Y
  <2>1. PICK x : x = P[w][i]
    OBVIOUS
  <2>2. wk[x] = w /\ sf[x] = i - 1 /\ x \in X
    BY <2>1 DEF Indexed
  <2>3. sf[x] >= 0
    BY <2>2
  <2>4. QED
    BY <2>1, <2>2, <2>3
<1>2. ASSUME NEW d \in Y, sf2[d] >= 0
      PROVE  wk2[d] \in Workers /\ sf2[d] < Len(P[wk2[d]]) /\ P[wk2[d]][sf2[d] + 1] = d
  BY <1>2 DEF Indexed
<1>3. QED
  BY <1>1, <1>2 DEF Indexed

\* deque_pool_remove
TakenOut(P, wk, sf, X, Q, wk2, sf2, Y, v, d) ==
    /\ P \in [Workers -> Seq(Deques)] /\ sf \in [Deques -> Int]
    /\ X \subseteq Deques /\ Y \subseteq Deques
    /\ Indexed(P, wk, sf, X)
    /\ v \in Workers /\ d \in X /\ sf[d] >= 0 /\ wk[d] = v
    /\ Q = [P EXCEPT ![v] = Without(P[v], sf[d] + 1)]
    /\ sf2 = [sf EXCEPT ![P[v][Len(P[v])]] = sf[d], ![d] = INVALID]
    /\ \A x \in Deques \ {d} : wk2[x] = wk[x] /\ (x \in X <=> x \in Y)

LEMMA TakeOut ==
    ASSUME NEW P, NEW wk, NEW sf, NEW X, NEW Q, NEW wk2, NEW sf2, NEW Y, NEW v, NEW d,
           TakenOut(P, wk, sf, X, Q, wk2, sf2, Y, v, d)
    PROVE  /\ Q \in [Workers -> Seq(Deques)]
           /\ Indexed(Q, wk2, sf2, Y)
           /\ sf2 \in [Deques -> Int] /\ sf2[d] = INVALID
           /\ \A x \in Deques \ {d} : sf2[x] >= 0 <=> sf[x] >= 0
           /\ \A x \in Deques \ {d} : sf[x] < 0 \/ x \notin X => sf2[x] = sf[x]
<1> USE DEF TakenOut
<1> DEFINE n == Len(P[v])
           k == sf[d] + 1
           last == P[v][n]
           t == Without(P[v], k)
<1>1. P[v] \in Seq(Deques) /\ n \in Nat /\ sf[d] \in Int
  OBVIOUS
<1>2. k \in 1..n /\ P[v][k] = d
  BY <1>1 DEF Indexed
<1>3. last \in Deques /\ wk[last] = v /\ sf[last] = n - 1 /\ last \in X
  BY <1>1, <1>2 DEF Indexed
<1>4. t \in Seq(Deques) /\ Len(t) = n - 1
      /\ \A i \in 1..(n - 1) : t[i] = IF i = k THEN last ELSE P[v][i]
  BY <1>1, <1>2, WithoutIs
<1>5. Q \in [Workers -> Seq(Deques)] /\ Q[v] = t /\ \A w \in Workers \ {v} : Q[w] = P[w]
  BY <1>4
<1>6. /\ sf2 \in [Deques -> Int] /\ sf2[d] = INVALID
      /\ \A x \in Deques \ {d} : sf2[x] = IF x = last THEN sf[d] ELSE sf[x]
  BY <1>1, <1>3 DEF INVALID
<1>7. \A i \in 1..n : P[v][i] \in Deques /\ sf[P[v][i]] = i - 1 /\ wk[P[v][i]] = v /\ P[v][i] \in X
  BY <1>1 DEF Indexed
<1>8. k < n => last # d
  BY <1>1, <1>2, <1>3
<1> HIDE DEF n, k, last, t
<1>9. ASSUME NEW i \in 1..(n - 1)
      PROVE  t[i] \in Deques \ {d} /\ wk2[t[i]] = v /\ sf2[t[i]] = i - 1 /\ t[i] \in Y
  <2>1. i \in 1..n /\ i # n /\ k \in Int /\ n \in Int
    BY <1>1, <1>2
  <2>2. CASE i = k
    <3>1. t[i] = last /\ last # d
      BY <2>1, <2>2, <1>2, <1>4, <1>8
    <3>2. QED
      BY <3>1, <2>2, <1>1, <1>3, <1>6 DEF k
  <2>3. CASE i # k
    <3>1. t[i] = P[v][i]
      BY <2>3, <1>4
    <3>2. PICK x : x = P[v][i]
      OBVIOUS
    <3>3. x \in Deques /\ sf[x] = i - 1 /\ wk[x] = v /\ x \in X
      BY <2>1, <3>2, <1>7
    <3>4. sf[d] = k - 1 /\ i \in Int
      BY <1>1 DEF k
    <3>5. x # d /\ x # last
      BY <2>1, <2>3, <3>3, <3>4, <1>3
    <3>6. QED
      BY <3>1, <3>2, <3>3, <3>5, <1>6
  <2>4. QED
    BY <2>2, <2>3
<1>10. ASSUME NEW w \in Workers, NEW i \in 1..Len(Q[w])
       PROVE  wk2[Q[w][i]] = w /\ sf2[Q[w][i]] = i - 1 /\ Q[w][i] \in Y
  <2>1. CASE w = v
    BY <2>1, <1>4, <1>5, <1>9
  <2>2. CASE w # v
    <3>1. Q[w] = P[w]
      BY <2>2, <1>5
    <3>2. P[w][i] \in Deques /\ wk[P[w][i]] = w /\ sf[P[w][i]] = i - 1 /\ P[w][i] \in X
      BY <3>1 DEF Indexed
    <3>3. P[w][i] # d /\ P[w][i] # last
      BY <2>2, <3>2, <1>3
    <3>4. QED
      BY <3>1, <3>2, <3>3, <1>6
  <2>3. QED
    BY <2>1, <2>2
<1>11. ASSUME NEW x \in Y, sf2[x] >= 0
       PROVE  wk2[x] \in Workers /\ sf2[x] < Len(Q[wk2[x]]) /\ Q[wk2[x]][sf2[x] + 1] = x
  <2>1. x # d
    BY <1>11, <1>6 DEF INVALID
  <2>2. CASE x = last
    <3>1. wk2[x] = v /\ sf2[x] = sf[d]
      BY <2>1, <2>2, <1>3, <1>6
    <3>2. k # n
      BY <2>1, <2>2, <1>2 DEF last
    <3>3. k \in 1..(n - 1)
      BY <3>2, <1>1, <1>2
    <3>4. t[k] = last
      BY <3>3, <1>4
    <3>5. sf[d] < n - 1 /\ sf[d] + 1 = k
      BY <3>3, <1>1 DEF k
    <3>6. QED
      BY <3>1, <3>4, <3>5, <2>2, <1>4, <1>5
  <2>3. CASE x # last
    <3>1. sf2[x] = sf[x] /\ x \in X /\ wk2[x] = wk[x] /\ sf[x] \in Int
      BY <2>1, <2>3, <1>6, <1>11
    <3>2. wk[x] \in Workers /\ sf[x] < Len(P[wk[x]]) /\ P[wk[x]][sf[x] + 1] = x
      BY <3>1, <1>11 DEF Indexed
    <3>3. CASE wk[x] # v
      BY <3>1, <3>2, <3>3, <1>5
    <3>4. CASE wk[x] = v
      <4>1. PICK i \in Int : i = sf[x] + 1
        BY <3>1
      <4>2. sf[x] < n /\ P[v][i] = x
        BY <3>2, <3>4, <4>1 DEF n
      <4>3. i \in 1..n
        BY <3>1, <4>1, <4>2, <1>1, <1>11
      <4>4. i # n /\ i # k
        BY <4>2, <2>1, <2>3, <1>2 DEF last
      <4>5. i \in 1..(n - 1)
        BY <4>3, <4>4, <1>1
      <4>6. t[i] = x
        BY <4>2, <4>4, <4>5, <1>4
      <4>7. sf[x] < n - 1
        BY <3>1, <4>1, <4>5, <1>1
      <4>8. QED
        BY <4>1, <4>6, <4>7, <3>1, <3>4, <1>4, <1>5
    <3>5. QED
      BY <3>3, <3>4
  <2>4. QED
    BY <2>2, <2>3
<1>12. Indexed(Q, wk2, sf2, Y)
  BY <1>10, <1>11 DEF Indexed
<1>13. \A x \in Deques \ {d} : sf2[x] >= 0 <=> sf[x] >= 0
  <2>1. sf[last] >= 0
    BY <1>1, <1>2, <1>3
  <2>2. QED
    BY <2>1, <1>6
<1>14. \A x \in Deques \ {d} : sf[x] < 0 \/ x \notin X => sf2[x] = sf[x]
  <2>1. ~(sf[last] < 0) /\ last \in X
    BY <1>1, <1>2, <1>3
  <2>2. QED
    BY <2>1, <1>6
<1>15. QED
  BY <1>5, <1>6, <1>12, <1>13, <1>14

\* deque_pool_add
AddedTo(P, wk, sf, X, Q, wk2, sf2, Y, v, d) ==
    /\ P \in [Workers -> Seq(Deques)] /\ sf \in [Deques -> Int]
    /\ X \subseteq Deques /\ Y \subseteq Deques
    /\ Indexed(P, wk, sf, X)
    /\ v \in Workers /\ d \in Y /\ sf[d] < 0
    /\ Q = [P EXCEPT ![v] = Append(@, d)]
    /\ sf2 = [sf EXCEPT ![d] = Len(P[v])]
    /\ wk2[d] = v
    /\ \A x \in Deques \ {d} : wk2[x] = wk[x] /\ (x \in X <=> x \in Y)

LEMMA PutIn ==
    ASSUME NEW P, NEW wk, NEW sf, NEW X, NEW Q, NEW wk2, NEW sf2, NEW Y, NEW v, NEW d,
           AddedTo(P, wk, sf, X, Q, wk2, sf2, Y, v, d)
    PROVE  /\ Q \in [Workers -> Seq(Deques)]
           /\ Indexed(Q, wk2, sf2, Y)
           /\ sf2 \in [Deques -> Int] /\ sf2[d] >= 0
           /\ \A x \in Deques \ {d} : sf2[x] = sf[x]
<1> USE DEF AddedTo
<1> DEFINE n == Len(P[v])
           t == Append(P[v], d)
<1>1. P[v] \in Seq(Deques) /\ n \in Nat
  OBVIOUS
<1>2. /\ t \in Seq(Deques) /\ Len(t) = n + 1 /\ t[n + 1] = d
      /\ \A i \in 1..n : t[i] = P[v][i]
  BY <1>1
<1>3. Q \in [Workers -> Seq(Deques)] /\ Q[v] = t /\ \A w \in Workers \ {v} : Q[w] = P[w]
  BY <1>2
<1>4. sf2 \in [Deques -> Int] /\ sf2[d] = n /\ \A x \in Deques \ {d} : sf2[x] = sf[x]
  BY <1>1
<1>5. \A w \in Workers : \A i \in 1..Len(P[w]) : P[w][i] \in Deques \ {d}
  <2> SUFFICES ASSUME NEW w \in Workers, NEW i \in 1..Len(P[w])
               PROVE  P[w][i] \in Deques \ {d}
    OBVIOUS
  <2>1. P[w][i] \in Deques
    OBVIOUS
  <2>2. sf[P[w][i]] = i - 1
    BY DEF Indexed
  <2>3. QED
    BY <2>1, <2>2
<1>6. ASSUME NEW w \in Workers, NEW i \in 1..Len(P[w])
      PROVE  wk2[P[w][i]] = w /\ sf2[P[w][i]] = i - 1 /\ P[w][i] \in Y
  <2>1. PICK x : x = P[w][i]
    OBVIOUS
  <2>2. wk[x] = w /\ sf[x] = i - 1 /\ x \in X
    BY <2>1 DEF Indexed
  <2>3. x \in Deques \ {d}
    BY <2>1, <1>5
  <2>4. wk2[x] = w /\ sf2[x] = i - 1 /\ x \in Y
    BY <2>2, <2>3, <1>4
  <2>5. QED
    BY <2>1, <2>4
<1> HIDE DEF n, t
<1>7. ASSUME NEW w \in Workers, NEW i \in 1..Len(Q[w])
      PROVE  wk2[Q[w][i]] = w /\ sf2[Q[w][i]] = i - 1 /\ Q[w][i] \in Y
  <2>1. CASE w # v
    BY <2>1, <1>3, <1>6
  <2>2. CASE w = v /\ i = n + 1
    BY <2>2, <1>1, <1>2, <1>3, <1>4
  <2>3. CASE w = v /\ i # n + 1
    <3>1. i \in 1..n
      BY <2>3, <1>1, <1>2, <1>3
    <3>2. Q[w][i] = P[w][i]
      BY <3>1, <2>3, <1>2, <1>3
    <3>3. wk2[P[w][i]] = w /\ sf2[P[w][i]] = i - 1 /\ P[w][i] \in Y
      <4>1. i \in 1..Len(P[w])
        BY <3>1, <2>3 DEF n
      <4>2. QED
        BY <4>1, <1>6
    <3>4. QED
      BY <3>2, <3>3
  <2>4. QED
    BY <2>1, <2>2, <2>3
<1>8. ASSUME NEW x \in Y, sf2[x] >= 0
      PROVE  wk2[x] \in Workers /\ sf2[x] < Len(Q[wk2[x]]) /\ Q[wk2[x]][sf2[x] + 1] = x
  <2>1. CASE x = d
    BY <2>1, <1>1, <1>2, <1>3, <1>4
  <2>2. CASE x # d
    <3>1. /\ sf2[x] = sf[x] /\ wk2[x] = wk[x] /\ sf[x] \in Int /\ sf[x] >= 0
          /\ wk[x] \in Workers /\ sf[x] < Len(P[wk[x]]) /\ P[wk[x]][sf[x] + 1] = x
      BY <2>2, <1>4, <1>8 DEF Indexed
    <3>2. CASE wk[x] # v
      BY <3>1, <3>2, <1>3
    <3>3. CASE wk[x] = v
      <4>1. sf[x] + 1 \in 1..n /\ sf[x] < n + 1
        BY <3>1, <3>3, <1>1 DEF n
      <4>2. QED
        BY <4>1, <3>1, <3>3, <1>2, <1>3
    <3>4. QED
      BY <3>2, <3>3
  <2>3. QED
    BY <2>1, <2>2
<1>9. Indexed(Q, wk2, sf2, Y)
  BY <1>7, <1>8 DEF Indexed
<1>10. QED
  BY <1>1, <1>3, <1>4, <1>9

\* The same facts of the variables.
LEMMA SamePools ==
    ASSUME TypeInv, PoolInv, UNCHANGED pools,
           \A x \in Deques : self[x] >= 0 =>
                worker'[x] = worker[x] /\ self'[x] = self[x] /\ (resumable'[x] <=> resumable[x]),
           \A x \in Deques : self'[x] >= 0 => self[x] >= 0
    PROVE  PoolInv'
<1>1. Unchanged(suspended, worker, self, Unmarked, worker', self', Unmarked')
  BY DEF Unchanged, TypeInv, PoolInv, Marked, Unmarked
<1>2. Unchanged(resumables, worker, self, Marked, worker', self', Marked')
  BY DEF Unchanged, TypeInv, PoolInv, Marked
<1>3. QED
  BY <1>1, <1>2, Untouched DEF PoolInv, pools

LEMMA TakenFromSuspended ==
    ASSUME TypeInv, PoolInv, NEW v \in Workers, NEW d \in Deques,
           self[d] >= 0, ~resumable[d], worker[d] = v, UNCHANGED resumables,
           Remove(suspended, v, d),
           \A x \in Deques \ {d} : worker'[x] = worker[x],
           UNCHANGED resumable
    PROVE  /\ PoolInv' /\ suspended' \in [Workers -> Seq(Deques)]
           /\ self' \in [Deques -> Int] /\ self'[d] = INVALID
           /\ \A x \in Deques \ {d} : self'[x] >= 0 <=> self[x] >= 0
           /\ \A x \in Deques \ {d} : self[x] < 0 \/ resumable[x] => self'[x] = self[x]
<1>1. /\ suspended' = [suspended EXCEPT ![v] = Without(suspended[v], self[d] + 1)]
      /\ self' = [self EXCEPT ![suspended[v][Len(suspended[v])]] = self[d], ![d] = INVALID]
  BY DEF Remove, Without, TypeInv
<1>2. TakenOut(suspended, worker, self, Unmarked, suspended', worker', self', Unmarked', v, d)
  BY <1>1 DEF TakenOut, TypeInv, PoolInv, Marked, Unmarked
<1>3. /\ suspended' \in [Workers -> Seq(Deques)]
      /\ Indexed(suspended', worker', self', Unmarked')
      /\ self' \in [Deques -> Int] /\ self'[d] = INVALID
      /\ \A x \in Deques \ {d} : self'[x] >= 0 <=> self[x] >= 0
      /\ \A x \in Deques \ {d} : self[x] < 0 \/ x \notin Unmarked => self'[x] = self[x]
  BY <1>2, TakeOut
<1>4. \A x \in Deques \ {d} : self[x] < 0 \/ resumable[x] => self'[x] = self[x]
  BY <1>3 DEF Unmarked, Marked
<1>5. Unchanged(resumables, worker, self, Marked, worker', self', Marked')
  BY <1>3, <1>4 DEF Unchanged, TypeInv, PoolInv, Marked, INVALID
<1>6. Indexed(resumables, worker', self', Marked')
  BY <1>5, Untouched
<1>7. QED
  BY <1>3, <1>4, <1>6 DEF PoolInv

LEMMA TakenFromResumables ==
    ASSUME TypeInv, PoolInv, NEW v \in Workers, NEW d \in Deques,
           self[d] >= 0, resumable[d], worker[d] = v, UNCHANGED suspended,
           Remove(resumables, v, d),
           \A x \in Deques \ {d} : worker'[x] = worker[x] /\ (resumable'[x] <=> resumable[x])
    PROVE  /\ PoolInv' /\ resumables' \in [Workers -> Seq(Deques)]
           /\ self' \in [Deques -> Int] /\ self'[d] = INVALID
           /\ \A x \in Deques \ {d} : self'[x] >= 0 <=> self[x] >= 0
           /\ \A x \in Deques \ {d} : self[x] < 0 \/ ~resumable[x] => self'[x] = self[x]
<1>1. /\ resumables' = [resumables EXCEPT ![v] = Without(resumables[v], self[d] + 1)]
      /\ self' = [self EXCEPT ![resumables[v][Len(resumables[v])]] = self[d], ![d] = INVALID]
  BY DEF Remove, Without, TypeInv
<1>2. TakenOut(resumables, worker, self, Marked, resumables', worker', self', Marked', v, d)
  BY <1>1 DEF TakenOut, TypeInv, PoolInv, Marked
<1>3. /\ resumables' \in [Workers -> Seq(Deques)]
      /\ Indexed(resumables', worker', self', Marked')
      /\ self' \in [Deques -> Int] /\ self'[d] = INVALID
      /\ \A x \in Deques \ {d} : self'[x] >= 0 <=> self[x] >= 0
      /\ \A x \in Deques \ {d} : self[x] < 0 \/ x \notin Marked => self'[x] = self[x]
  BY <1>2, TakeOut
<1>4. \A x \in Deques \ {d} : self[x] < 0 \/ ~resumable[x] => self'[x] = self[x]
  BY <1>3 DEF Marked
<1>5. Unchanged(suspended, worker, self, Unmarked, worker', self', Unmarked')
  <2>1. ~(INVALID >= 0)
    BY DEF INVALID
  <2>2. \A x \in Deques : x \in Unmarked <=> ~resumable[x]
    BY DEF Unmarked, Marked
  <2>3. \A x \in Deques : x \in Unmarked' <=> ~resumable'[x]
    BY DEF Unmarked, Marked
  <2>4. \A x \in Unmarked : x \in Deques \ {d}
    BY <2>2 DEF Unmarked
  <2>5. \A x \in Unmarked : self[x] >= 0 =>
           worker'[x] = worker[x] /\ self'[x] = self[x] /\ x \in Unmarked'
    BY <1>4, <2>2, <2>3, <2>4
  <2>6. \A x \in Unmarked' : self'[x] >= 0 => self[x] >= 0 /\ x \in Unmarked
    BY <1>3, <2>1, <2>2, <2>3 DEF Unmarked
  <2>7. QED
    BY <2>5, <2>6 DEF Unchanged, TypeInv, PoolInv, Unmarked
<1>6. Indexed(suspended, worker', self', Unmarked')
  BY <1>5, Untouched
<1>7. QED
  BY <1>3, <1>4, <1>6 DEF PoolInv

LEMMA PutIntoSuspended ==
    ASSUME TypeInv, PoolInv, NEW v \in Workers, NEW d \in Deques,
           self[d] < 0, ~resumable[d], UNCHANGED <<resumables, resumable>>,
           Add(suspended, v, d)
    PROVE  /\ PoolInv' /\ suspended' \in [Workers -> Seq(Deques)]
           /\ self' \in [Deques -> Int] /\ self'[d] >= 0
           /\ \A x \in Deques \ {d} : self'[x] = self[x]
<1>1. AddedTo(suspended, worker, self, Unmarked, suspended', worker', self', Unmarked', v, d)
  BY DEF Add, AddedTo, TypeInv, PoolInv, Marked, Unmarked
<1>2. /\ suspended' \in [Workers -> Seq(Deques)]
      /\ Indexed(suspended', worker', self', Unmarked')
      /\ self' \in [Deques -> Int] /\ self'[d] >= 0
      /\ \A x \in Deques \ {d} : self'[x] = self[x]
  BY <1>1, PutIn
<1>3. \A x \in Deques \ {d} : worker'[x] = worker[x]
  BY DEF Add, TypeInv
<1>4. Unchanged(resumables, worker, self, Marked, worker', self', Marked')
  BY <1>2, <1>3 DEF Unchanged, TypeInv, PoolInv, Marked
<1>5. Indexed(resumables, worker', self', Marked')
  BY <1>4, Untouched
<1>6. QED
  BY <1>2, <1>5 DEF PoolInv

LEMMA PutIntoResumables ==
    ASSUME TypeInv, PoolInv, NEW v \in Workers, NEW d \in Deques,
           self[d] < 0, resumable[d], UNCHANGED <<suspended, resumable>>,
           Add(resumables, v, d)
    PROVE  /\ PoolInv' /\ resumables' \in [Workers -> Seq(Deques)]
           /\ self' \in [Deques -> Int] /\ self'[d] >= 0
           /\ \A x \in Deques \ {d} : self'[x] = self[x]
<1>1. AddedTo(resumables, worker, self, Marked, resumables', worker', self', Marked', v, d)
  BY DEF Add, AddedTo, TypeInv, PoolInv, Marked
<1>2. /\ resumables' \in [Workers -> Seq(Deques)]
      /\ Indexed(resumables', worker', self', Marked')
      /\ self' \in [Deques -> Int] /\ self'[d] >= 0
      /\ \A x \in Deques \ {d} : self'[x] = self[x]
  BY <1>1, PutIn
<1>3. \A x \in Deques \ {d} : worker'[x] = worker[x]
  BY DEF Add, TypeInv
<1>4. Unchanged(suspended, worker, self, Unmarked, worker', self', Unmarked')
  BY <1>2, <1>3 DEF Unchanged, TypeInv, PoolInv, Marked, Unmarked
<1>5. Indexed(suspended, worker', self', Unmarked')
  BY <1>4, Untouched
<1>6. QED
  BY <1>2, <1>5 DEF PoolInv

\* Out of one pool and into the other of the same worker: TakeOut, then PutIn.
LEMMA Moved ==
    ASSUME TypeInv, PoolInv, NEW v \in Workers, NEW d \in Deques,
           self[d] >= 0, ~resumable[d], worker[d] = v,
           MoveToResumables(v, d), UNCHANGED worker,
           resumable' = [resumable EXCEPT ![d] = TRUE]
    PROVE  /\ PoolInv' /\ suspended' \in [Workers -> Seq(Deques)]
           /\ resumables' \in [Workers -> Seq(Deques)]
           /\ self' \in [Deques -> Int] /\ self'[d] >= 0
           /\ \A x \in Deques \ {d} : self'[x] >= 0 <=> self[x] >= 0
           /\ \A x \in Deques \ {d} : self[x] < 0 \/ resumable[x] => self'[x] = self[x]
<1> DEFINE mid == [self EXCEPT ![suspended[v][Len(suspended[v])]] = self[d], ![d] = INVALID]
<1>1. /\ suspended' = [suspended EXCEPT ![v] = Without(suspended[v], self[d] + 1)]
      /\ resumables' = [resumables EXCEPT ![v] = Append(@, d)]
  BY DEF MoveToResumables, Without, TypeInv
<1>2. self' = [mid EXCEPT ![d] = Len(resumables[v])]
  BY DEF MoveToResumables, TypeInv
<1>3. /\ Unmarked' = Unmarked \ {d} /\ Marked' = Marked \cup {d}
      /\ d \in Unmarked /\ d \notin Marked
      /\ Marked \subseteq Deques /\ Unmarked = Deques \ Marked
  BY DEF TypeInv, Marked, Unmarked
<1>4. TakenOut(suspended, worker, self, Unmarked, suspended', worker, mid, Unmarked', v, d)
  BY <1>1, <1>3 DEF TakenOut, TypeInv, PoolInv
<1> HIDE DEF mid
<1>5. /\ suspended' \in [Workers -> Seq(Deques)]
      /\ Indexed(suspended', worker, mid, Unmarked')
      /\ mid \in [Deques -> Int] /\ mid[d] = INVALID
      /\ \A x \in Deques \ {d} : mid[x] >= 0 <=> self[x] >= 0
      /\ \A x \in Deques \ {d} : self[x] < 0 \/ x \notin Unmarked => mid[x] = self[x]
  BY <1>4, TakeOut
<1>6. Unchanged(resumables, worker, self, Marked, worker, mid, Marked')
  BY <1>3, <1>5 DEF Unchanged, TypeInv, PoolInv, INVALID
<1>7. Indexed(resumables, worker, mid, Marked')
  BY <1>6, Untouched
<1>8. AddedTo(resumables, worker, mid, Marked', resumables', worker, self', Marked', v, d)
  BY <1>1, <1>2, <1>3, <1>5, <1>7 DEF AddedTo, TypeInv, INVALID
<1>9. /\ resumables' \in [Workers -> Seq(Deques)]
      /\ Indexed(resumables', worker, self', Marked')
      /\ self' \in [Deques -> Int] /\ self'[d] >= 0
      /\ \A x \in Deques \ {d} : self'[x] = mid[x]
  BY <1>8, PutIn
<1>10. Unchanged(suspended', worker, mid, Unmarked', worker, self', Unmarked')
  BY <1>3, <1>5, <1>9 DEF Unchanged
<1>11. Indexed(suspended', worker, self', Unmarked')
  BY <1>10, Untouched
<1>12. /\ \A x \in Deques \ {d} : self'[x] >= 0 <=> self[x] >= 0
       /\ \A x \in Deques \ {d} : self[x] < 0 \/ resumable[x] => self'[x] = self[x]
  BY <1>5, <1>9 DEF Marked, Unmarked
<1>13. QED
  BY <1>5, <1>9, <1>11, <1>12 DEF PoolInv

-----------------------------------------------------------------------------
(* The invariant holds initially *)

LEMMA InitStep == Init => IInv
<1> SUFFICES ASSUME Init PROVE IInv
  OBVIOUS
<1> USE ActorsAssumption, DequesAssumption, WorkAssumption
<1> USE DEF ACTIVE, INVALID, Labels, Actors
<1>1. \A w \in Workers : worker[active[w]] = w
  BY DEF Init
<1>2. \A d \in Deques : worker[d] # NULL => worker[d] \in Workers /\ active[worker[d]] = d
  BY DEF Init
<1>3. \A d \in Deques : worker[d] \in Workers \cup {NULL}
  BY <1>2
<1>4. /\ self \in [Deques -> Int]
      /\ \A d \in Deques : self[d] = IF worker[d] = NULL THEN INVALID ELSE ACTIVE
  BY DEF Init
<1>5. \A a \in Actors : pc[a] \in {"run", "sched"} /\ arg[a] = NULL
  BY DEF Init
<1>6. TypeInv
  <2>1. worker \in [Deques -> Workers \cup {NULL}]
    BY <1>3 DEF Init
  <2>2. pc \in [Actors -> Labels]
    BY DEF Init
  <2>3. /\ suspended \in [Workers -> Seq(Deques)] /\ resumables \in [Workers -> Seq(Deques)]
        /\ work \in [Deques -> 0..MaxWork]
    BY DEF Init
  <2>4. QED
    BY <2>1, <2>2, <2>3, <1>4 DEF TypeInv, Init
<1>7. PoolInv
  <2>1. \A d \in Deques : self[d] < 0
    BY <1>4
  <2>2. \A w \in Workers : Len(suspended[w]) = 0 /\ Len(resumables[w]) = 0
    BY DEF Init
  <2>3. QED
    BY <2>1, <2>2, <1>6 DEF PoolInv, Indexed, Marked, Unmarked, TypeInv
<1>8. LabelInv
  BY <1>5 DEF LabelInv, Empty
<1>9. \A d \in Deques : ~Held(d) /\ ~Pending(d)
  BY <1>5 DEF Held, Pending, Holding, Waking, Init
<1>10. ActiveInv
  BY <1>1, <1>4, <1>5, <1>9 DEF ActiveInv, Leaving, Left, Init
<1>11. LeftInv
  BY <1>5 DEF LeftInv, Left
<1>12. HeldInv
  BY <1>5 DEF HeldInv, Holding
<1>13. \A d \in Deques : worker[d] # NULL => Kept(d)
  BY <1>2, <1>5 DEF Kept, Leaving
<1>14. DequeInv
  BY <1>4, <1>9, <1>13 DEF DequeInv, Init
<1>15. QED
  BY <1>6, <1>7, <1>8, <1>10, <1>11, <1>12, <1>14 DEF IInv

-----------------------------------------------------------------------------
(* Every step keeps it *)

\* Steps that only touch what the invariant does not look at.
LEMMA SameStep ==
    ASSUME IInv, UNCHANGED <<active, worker, self, resumable, fiber, suspended, resumables,
                             waiting, free, pc, arg, vic>>,
           work' \in [Deques -> 0..MaxWork], frame' \in [Deques -> Workers \cup {NULL}],
           lock' \in [Workers -> Actors \cup {NULL}], after' \in [Workers -> {"run", "sched"}]
    PROVE  IInv'
<1>1. TypeInv'
  BY DEF IInv, TypeInv
<1>2. PoolInv'
  BY SamePools DEF IInv, pools
<1>3. LabelInv' /\ LeftInv' /\ HeldInv'
  BY DEF IInv, LabelInv, LeftInv, HeldInv, Pending
<1>4. ActiveInv' /\ DequeInv'
  BY DEF IInv, ActiveInv, DequeInv, Pending, Held, Kept
<1>5. QED
  BY <1>1, <1>2, <1>3, <1>4 DEF IInv

LEMMA InHand ==
    ASSUME IInv
    PROVE  /\ \A w \in Workers : w \in Actors /\ active[w] \in Deques
           /\ \A a \in Actors : pc[a] \in Left \cup Holding => arg[a] \in Deques
<1>1. \A w \in Workers : w \in Actors /\ active[w] \in Deques
  BY DEF IInv, TypeInv, Actors
<1>2. \A a \in Actors : pc[a] \in Left \cup Holding => arg[a] \in Deques
  BY DEF IInv, LabelInv, Empty, Left, Holding
<1>3. QED
  BY <1>1, <1>2

LEMMA SpawnStep == ASSUME IInv, NEW w \in Workers, Spawn(w) PROVE IInv'
<1> USE WorkAssumption
<1>1. active[w] \in Deques
  BY DEF IInv, TypeInv
<1>2. work' \in [Deques -> 0..MaxWork]
  BY <1>1 DEF Spawn, IInv, TypeInv
<1>3. QED
  BY <1>2, SameStep DEF Spawn, IInv, TypeInv, dequeVars, pools, control

LEMMA ReturnStep == ASSUME IInv, NEW w \in Workers, Return(w) PROVE IInv'
<1> USE ActorsAssumption, WorkAssumption
<1>1. active[w] \in Deques /\ w \in Actors
  BY DEF IInv, TypeInv, Actors
<1>2. CASE work[active[w]] > 0
  <2>1. work[active[w]] - 1 \in 0..MaxWork
    BY <1>1, <1>2 DEF IInv, TypeInv
  <2>2. work' \in [Deques -> 0..MaxWork]
    BY <1>1, <1>2, <2>1 DEF Return, IInv, TypeInv
  <2>3. QED
    BY <1>2, <2>2, SameStep DEF Return, IInv, TypeInv, pools
<1>3. CASE ~(work[active[w]] > 0)
  <2>1. /\ pc[w] = "run" /\ pc' = [pc EXCEPT ![w] = "sched"]
        /\ frame' = [frame EXCEPT ![active[w]] = NULL]
        /\ UNCHANGED <<active, work, worker, self, resumable, fiber, suspended, resumables,
                       lock, waiting, free, arg, vic, after>>
    BY <1>3 DEF Return, Goto, pools
  <2>2. /\ \A x \in Deques : Pending(x)' <=> Pending(x)
        /\ \A x \in Deques : Held(x)' <=> Held(x)
        /\ \A x \in Deques : Kept(x)' <=> Kept(x)
    <3>1. pc'[w] = "sched" /\ \A b \in Actors \ {w} : pc'[b] = pc[b]
      BY <2>1, <1>1 DEF IInv, TypeInv
    <3>2. \A x \in Deques : Pending(x)' <=> Pending(x)
      BY <2>1, <3>1 DEF Pending, Waking
    <3>3. \A x \in Deques : Held(x)' <=> Held(x)
      BY <2>1, <3>1 DEF Held, Holding
    <3>4. \A x \in Deques : Kept(x)' <=> Kept(x)
      BY <2>1, <3>1, InHand DEF Kept, Leaving
    <3>5. QED
      BY <3>2, <3>3, <3>4
  <2>3. TypeInv'
    BY <2>1, <1>1 DEF IInv, TypeInv, Labels
  <2>4. PoolInv'
    BY <2>1, SamePools DEF IInv, pools
  <2>5. LabelInv'
    BY <2>1, <1>1 DEF IInv, TypeInv, LabelInv, Empty
  <2>6. LeftInv'
    <3>1. \A v \in Workers : /\ v \in Actors /\ (pc'[v] \in Left => v # w)
                             /\ pc[v] \in Left => arg[v] \in Deques
      BY <2>1, <1>1, InHand DEF IInv, TypeInv, Left
    <3>2. \A v \in Workers \ {w} : pc'[v] = pc[v]
      BY <2>1, <3>1 DEF IInv, TypeInv
    <3>3. QED
      BY <2>1, <2>2, <3>1, <3>2 DEF IInv, LeftInv
  <2>7. HeldInv'
    BY <2>1, <1>1 DEF IInv, TypeInv, HeldInv, Holding, Waking
  <2>8. ActiveInv' /\ DequeInv'
    BY <2>1, <2>2, <1>1 DEF IInv, TypeInv, ActiveInv, DequeInv, Left, Leaving
  <2>9. QED
    BY <2>3, <2>4, <2>5, <2>6, <2>7, <2>8 DEF IInv
<1>4. QED
  BY <1>2, <1>3

\* No two workers have the same active deque.
LEMMA ActiveOnce ==
    ASSUME IInv
    PROVE  \A v, w \in Workers : active[v] = active[w] => v = w
  BY DEF IInv, ActiveInv

LEMMA SuspendStep == ASSUME IInv, NEW w \in Workers, Suspend(w) PROVE IInv'
<1> USE ActorsAssumption
<1>1. PICK d \in Deques : d = active[w]
  BY InHand
<1>2. /\ pc[w] = "run" /\ pc'[w] = "mugOwn" /\ \A b \in Actors \ {w} : pc'[b] = pc[b]
      /\ waiting' = waiting \cup {d}
      /\ UNCHANGED <<active, work, worker, self, resumable, fiber, suspended, resumables,
                     lock, free, arg, vic, after>>
  BY <1>1, InHand DEF Suspend, Goto, IInv, TypeInv, pools
<1>3. \A v \in Workers : v \in Actors /\ active[v] \in Deques /\ (active[v] = d => v = w)
  BY <1>1, InHand, ActiveOnce
<1>4. /\ \A x \in Deques : Pending(x)' <=> Pending(x) \/ x = d
      /\ \A x \in Deques : Held(x)' <=> Held(x)
      /\ \A x \in Deques \ {d} : Kept(x)' <=> Kept(x)
  <2>1. \A x \in Deques : Pending(x)' <=> Pending(x) \/ x = d
    BY <1>2, <1>3 DEF Pending, Waking
  <2>2. \A x \in Deques : Held(x)' <=> Held(x)
    BY <1>2, <1>3 DEF Held, Holding
  <2>3. \A x \in Deques \ {d} : Kept(x)' <=> Kept(x)
    BY <1>1, <1>2, <1>3 DEF Kept, Leaving
  <2>4. QED
    BY <2>1, <2>2, <2>3
<1>5. TypeInv'
  <2>1. pc' \in [Actors -> Labels] /\ frame' \in [Deques -> Workers \cup {NULL}]
    BY <1>1, <1>3 DEF Suspend, Goto, IInv, TypeInv, Labels
  <2>2. QED
    BY <1>2, <2>1 DEF IInv, TypeInv
<1>6. PoolInv'
  BY <1>2, SamePools DEF IInv, pools
<1>7. LabelInv'
  BY <1>2, <1>3 DEF IInv, LabelInv, Empty
<1>8. ActiveInv'
  BY <1>1, <1>2, <1>3, <1>4 DEF IInv, ActiveInv, Leaving, Left
<1>9. LeftInv'
  <2>1. \A v \in Workers : pc'[v] \in Left => v # w /\ pc[v] \in Left /\ arg[v] \in Deques
    BY <1>2, <1>3, InHand DEF Left
  <2>2. QED
    BY <1>2, <1>3, <1>4, <2>1 DEF IInv, LeftInv
<1>10. HeldInv'
  <2>1. ~Held(d)
    BY <1>1, <1>2 DEF IInv, ActiveInv, Leaving
  <2>2. \A a \in Actors : pc'[a] \in Holding =>
           a # w /\ pc'[a] = pc[a] /\ pc[a] \in Holding /\ arg[a] # d
    BY <1>2, <2>1 DEF Holding, Held
  <2>3. QED
    BY <1>2, <2>2 DEF IInv, HeldInv
<1>11. DequeInv'
  <2>1. d \notin free /\ self[d] = ACTIVE /\ ~resumable[d] /\ fiber[d] = NULL
    BY <1>1, <1>2 DEF IInv, ActiveInv, Left
  <2>2. QED
    BY <1>2, <1>4, <2>1 DEF IInv, DequeInv, ACTIVE, INVALID
<1>12. QED
  BY <1>5, <1>6, <1>7, <1>8, <1>9, <1>10, <1>11 DEF IInv

\* An actor takes a deque out of the future it completes.
LEMMA WakeStep ==
    ASSUME IInv, NEW a \in Actors, NEW d \in Deques, NEW l \in Waking,
           pc[a] = "run", d \in waiting, waiting' = waiting \ {d},
           arg' = [arg EXCEPT ![a] = d], pc' = [pc EXCEPT ![a] = l],
           UNCHANGED <<active, work, worker, self, resumable, fiber, frame, suspended,
                       resumables, lock, free, vic, after>>
    PROVE  IInv'
<1> USE ActorsAssumption
<1>1. /\ pc'[a] = l /\ \A b \in Actors \ {a} : pc'[b] = pc[b]
      /\ arg'[a] = d /\ \A b \in Actors \ {a} : arg'[b] = arg[b]
  BY DEF IInv, TypeInv
<1>2. l \in Holding /\ l \notin Empty /\ l \notin Leaving /\ l \notin Left
  BY DEF Waking, Holding, Empty, Leaving, Left
<1>3. pc[a] \notin Holding /\ pc[a] \notin Leaving /\ pc[a] \notin Left
  BY DEF Holding, Leaving, Left
<1>4. \A v \in Workers : v \in Actors /\ active[v] \in Deques
  BY InHand
<1>5. /\ \A x \in Deques : Pending(x)' <=> Pending(x)
      /\ \A x \in Deques : Held(x)' <=> Held(x) \/ x = d
      /\ \A x \in Deques : Kept(x)' <=> Kept(x)
  <2>1. \A x \in Deques : Pending(x)' <=> Pending(x)
    BY <1>1, <1>3 DEF Pending, Waking
  <2>2. \A x \in Deques : Held(x)' <=> Held(x) \/ x = d
    BY <1>1, <1>2, <1>3 DEF Held
  <2>3. \A x \in Deques : Kept(x)' <=> Kept(x)
    BY <1>1, <1>2, <1>3, <1>4 DEF Kept
  <2>4. QED
    BY <2>1, <2>2, <2>3
<1>6. TypeInv'
  BY DEF IInv, TypeInv, Labels, Waking
<1>7. PoolInv'
  BY SamePools DEF IInv, pools
<1>8. LabelInv'
  BY <1>1, <1>2 DEF IInv, LabelInv, Waking
<1>9. ActiveInv'
  <2>1. \A v \in Workers : pc[v] \notin Leaving => active[v] # d
    BY DEF IInv, ActiveInv
  <2>2. \A v \in Workers : /\ pc'[v] \in Leaving <=> pc[v] \in Leaving
                           /\ pc'[v] \in Left <=> pc[v] \in Left
    BY <1>1, <1>2, <1>3, <1>4
  <2>3. QED
    BY <1>4, <1>5, <2>1, <2>2 DEF IInv, ActiveInv
<1>10. LeftInv'
  <2>1. \A v \in Workers : pc'[v] \in Left =>
           v # a /\ pc[v] = pc'[v] /\ arg'[v] = arg[v] /\ arg[v] \in Deques
    BY <1>1, <1>2, <1>4, InHand
  <2>2. QED
    BY <1>5, <2>1 DEF IInv, LeftInv
<1>11. HeldInv'
  <2>1. d \notin free /\ ~resumable[d] /\ \A b \in Actors : pc[b] \in Holding => arg[b] # d
    BY DEF IInv, DequeInv, HeldInv
  <2>2. \A b \in Actors : pc'[b] \in Holding =>
           b = a \/ (pc[b] \in Holding /\ pc'[b] = pc[b] /\ arg'[b] = arg[b])
    BY <1>1
  <2>3. QED
    BY <1>1, <1>2, <2>1, <2>2 DEF IInv, HeldInv, Waking
<1>12. DequeInv'
  <2>1. ~resumable[d]
    BY DEF IInv, DequeInv
  <2>2. QED
    BY <1>5, <2>1 DEF IInv, DequeInv
<1>13. QED
  BY <1>6, <1>7, <1>8, <1>9, <1>10, <1>11, <1>12 DEF IInv

LEMMA MakeResumableStep ==
    ASSUME IInv, NEW a \in Actors, NEW d \in Deques, MakeResumable(a, d) PROVE IInv'
<1>1. "mr_wait" \in Waking
  BY DEF Waking
<1>2. QED
  BY <1>1, WakeStep DEF MakeResumable, Goto, dequeVars, pools

LEMMA ResumeSuspendedStep ==
    ASSUME IInv, NEW w \in Workers, NEW d \in Deques, ResumeSuspended(w, d) PROVE IInv'
<1>1. "rs_wait" \in Waking /\ w \in Actors
  BY DEF Waking, Actors
<1>2. QED
  BY <1>1, WakeStep DEF ResumeSuspended, Goto, dequeVars, pools

\* What taking d out of a pool or putting it into one leaves of the others.
OthersKept(d) ==
    \A x \in Deques \ {d} :
    /\ worker'[x] = worker[x] /\ resumable'[x] = resumable[x]
    /\ (self'[x] >= 0) <=> (self[x] >= 0)
    /\ self[x] < 0 => self'[x] = self[x]

LEMMA Kinds ==
    ASSUME IInv, TypeInv', NEW d \in Deques, OthersKept(d)
    PROVE  \A x \in Deques \ {d} :
           /\ (self'[x] = ACTIVE) <=> (self[x] = ACTIVE)
           /\ (self'[x] = INVALID) <=> (self[x] = INVALID)
           /\ (self'[x] >= 0) <=> (self[x] >= 0)
           /\ self'[x] >= INVALID
<1> TAKE x \in Deques \ {d}
<1>1. self[x] \in Int /\ self'[x] \in Int /\ self[x] >= INVALID
  BY DEF IInv, TypeInv, DequeInv
<1>2. QED
  BY <1>1 DEF OthersKept, ACTIVE, INVALID

\* An actor that has seen its deque fully suspended goes on with it, or has put
\* it where thieves find it.
LEMMA HolderStep ==
    ASSUME IInv, TypeInv', PoolInv', NEW a \in Actors, NEW d \in Deques, NEW l \in Labels,
           pc[a] \in Holding \ {"switch", "jump"}, arg[a] = d, fiber[d] = "resumable",
           UNCHANGED <<active, waiting, free, fiber>>, OthersKept(d),
           pc' = [pc EXCEPT ![a] = l], \A b \in Actors \ {a} : arg'[b] = arg[b] /\ vic'[b] = vic[b],
           \/ /\ l \in {"mr_lock", "rs_lock"} /\ arg'[a] = d
              /\ vic'[a] \in Workers /\ vic'[a] = worker'[d]
              /\ self'[d] >= 0 /\ ~resumable'[d]
           \/ /\ l \in {"mr_mark", "rs_frame", "rs_own"} /\ arg'[a] = d
              /\ self'[d] = INVALID /\ ~resumable'[d]
           \/ /\ l = "mr_add" /\ arg'[a] = d /\ vic'[a] \in Workers
              /\ self'[d] = INVALID /\ resumable'[d]
           \/ /\ l = "run" /\ arg'[a] = NULL /\ self'[d] >= 0 /\ resumable'[d]
    PROVE  IInv'
<1> USE ActorsAssumption
<1>1. pc'[a] = l /\ \A b \in Actors \ {a} : pc'[b] = pc[b]
  BY DEF IInv, TypeInv
<1>2. /\ l \notin Leaving /\ l \notin Left /\ l \notin Waking
      /\ pc[a] \notin Leaving /\ pc[a] \notin Left
  BY DEF Holding, Waking, Leaving, Left
<1>3. l \in Holding => arg'[a] = d
  BY DEF Holding
<1>4. l = "run" <=> l \notin Holding
  BY DEF Holding
<1>5. \A v \in Workers : v \in Actors /\ active[v] \in Deques /\ active[v] # d
  <2>1. \A v \in Workers : pc[v] \notin Left => fiber[active[v]] = NULL
    BY DEF IInv, ActiveInv
  <2>2. \A v \in Workers : pc[v] \notin Leaving => ~Held(active[v])
    BY DEF IInv, ActiveInv
  <2>3. Held(d)
    BY DEF Held
  <2>4. \A v \in Workers : pc[v] \in Left => pc[v] \notin Leaving
    BY DEF Left, Leaving
  <2>5. QED
    BY <2>1, <2>2, <2>3, <2>4, InHand
<1>6. \A b \in Actors \ {a} : pc[b] \in Holding => arg[b] # d
  BY DEF IInv, HeldInv
<1>7. d \notin waiting /\ d \notin free
  BY DEF IInv, HeldInv
<1>8. \A x \in Deques \ {d} :
           /\ (self'[x] = ACTIVE) <=> (self[x] = ACTIVE)
           /\ (self'[x] = INVALID) <=> (self[x] = INVALID)
           /\ (self'[x] >= 0) <=> (self[x] >= 0)
           /\ self'[x] >= INVALID
  BY Kinds
<1>9. \A x \in Deques \ {d} : worker'[x] = worker[x] /\ resumable'[x] = resumable[x]
  BY DEF OthersKept
<1>10. /\ \A x \in Deques \ {d} : Pending(x)' <=> Pending(x)
       /\ \A x \in Deques \ {d} : Held(x)' <=> Held(x)
       /\ \A x \in Deques : Kept(x)' <=> Kept(x)
       /\ Held(d)' <=> l \in Holding
       /\ ~Pending(d)'
  <2>1. \A x \in Deques \ {d} : Pending(x)' <=> Pending(x)
    BY <1>1, <1>2 DEF Pending
  <2>2. \A x \in Deques \ {d} : Held(x)' <=> Held(x)
    BY <1>1, <1>3 DEF Held
  <2>3. \A x \in Deques : Kept(x)' <=> Kept(x)
    BY <1>1, <1>2, <1>5 DEF Kept
  <2>4. Held(d)' <=> l \in Holding
    BY <1>1, <1>3, <1>6 DEF Held
  <2>5. \A b \in Actors : pc[b] \in Waking => pc[b] \in Holding
    BY DEF Waking, Holding
  <2>6. ~Pending(d)'
    BY <1>1, <1>2, <1>6, <1>7, <2>5 DEF Pending
  <2>7. QED
    BY <2>1, <2>2, <2>3, <2>4, <2>6
<1>11. LabelInv'
  BY <1>1 DEF IInv, LabelInv, Empty
<1>12. ActiveInv'
  <2>1. \A v \in Workers : /\ pc'[v] \in Leaving <=> pc[v] \in Leaving
                           /\ pc'[v] \in Left <=> pc[v] \in Left
    BY <1>1, <1>2, <1>5
  <2>2. QED
    BY <1>5, <1>8, <1>9, <1>10, <2>1 DEF IInv, ActiveInv
<1>13. LeftInv'
  <2>1. \A v \in Workers : pc'[v] \in Left =>
           v # a /\ pc[v] = pc'[v] /\ arg'[v] = arg[v] /\ arg[v] \in Deques \ {d}
    BY <1>1, <1>2, <1>5, InHand DEF IInv, LeftInv
  <2>2. QED
    BY <1>8, <1>9, <1>10, <2>1 DEF IInv, LeftInv
<1>14. HeldInv'
  <2>1. \A b \in Actors : pc'[b] \in Holding => b = a \/
           (/\ pc[b] \in Holding /\ pc'[b] = pc[b] /\ arg'[b] = arg[b] /\ vic'[b] = vic[b]
            /\ arg[b] \in Deques \ {d})
    BY <1>1, <1>6, InHand
  <2>2. ASSUME pc'[a] \in Holding
        PROVE  /\ arg'[a] \notin free' /\ arg'[a] \notin waiting'
               /\ \A b \in Actors : pc'[b] \in Holding /\ arg'[b] = arg'[a] => a = b
               /\ pc'[a] \notin Waking => fiber'[arg'[a]] = "resumable"
               /\ pc'[a] \notin Waking \cup {"mr_lock", "rs_lock"} => self'[arg'[a]] = INVALID
               /\ pc'[a] \in {"mr_lock", "rs_lock"} =>
                     \/ self'[arg'[a]] = INVALID /\ worker'[arg'[a]] = NULL
                     \/ self'[arg'[a]] >= 0 /\ worker'[arg'[a]] = vic'[a]
               /\ pc'[a] \notin {"mr_add", "jump"} => ~resumable'[arg'[a]]
               /\ pc'[a] = "mr_add" => resumable'[arg'[a]]
    BY <1>1, <1>2, <1>3, <1>4, <1>7, <2>1, <2>2
  <2>3. QED
    BY <1>8, <1>9, <2>1, <2>2 DEF IInv, HeldInv
<1>15. DequeInv'
  <2>1. self'[d] >= INVALID
    BY DEF INVALID, TypeInv
  <2>2. l \in Holding \/ (self'[d] >= 0 /\ resumable'[d])
    BY <1>4
  <2>3. self'[d] >= 0 /\ resumable'[d] => l \notin Holding
    BY <1>4 DEF INVALID
  <2>4. QED
    BY <1>7, <1>8, <1>9, <1>10, <2>1, <2>2, <2>3 DEF IInv, DequeInv
<1>16. QED
  BY <1>11, <1>12, <1>13, <1>14, <1>15 DEF IInv

\* A pooled deque has a worker, and one with a worker and an index is pooled.
LEMMA PooledHasWorker ==
    ASSUME IInv
    PROVE  \A d \in Deques : self[d] >= 0 => worker[d] \in Workers
  BY DEF IInv, PoolInv, Indexed, Marked, Unmarked

LEMMA ReadOwnerStep ==
    ASSUME IInv, NEW a \in Actors,
           \/ ReadOwner(a, "mr_wait", "mr_lock", "mr_mark")
           \/ ReadOwner(a, "rs_wait", "rs_lock", "rs_frame")
    PROVE  IInv'
<1> USE ActorsAssumption
<1>1. pc[a] \in Waking
  BY DEF ReadOwner, Waking
<1>2. PICK d \in Deques : d = arg[a]
  BY <1>1, InHand DEF Waking, Holding
<1>3. PICK lk \in {"mr_lock", "rs_lock"}, un \in {"mr_mark", "rs_frame"} :
         ReadOwner(a, pc[a], lk, un)
  BY DEF ReadOwner
<1> DEFINE l == IF worker[d] # NULL THEN lk ELSE un
<1>4. /\ fiber[d] = "resumable" /\ pc' = [pc EXCEPT ![a] = l]
      /\ vic' = [vic EXCEPT ![a] = worker[d]]
      /\ UNCHANGED <<active, work, worker, self, resumable, fiber, frame, suspended,
                     resumables, lock, waiting, free, arg, after>>
  BY <1>2, <1>3 DEF ReadOwner, Goto, SuspendedFully, dequeVars, pools
<1>5. l \in Labels
  BY DEF Labels
<1>6. Pending(d) /\ Held(d) /\ pc[a] \in Holding \ {"switch", "jump"} /\ ~resumable[d]
  BY <1>1, <1>2 DEF Pending, Held, Waking, Holding, IInv, HeldInv
<1>7. /\ self[d] # ACTIVE /\ (worker[d] = NULL \/ self[d] >= 0)
      /\ self[d] \in Int /\ self[d] >= INVALID
  BY <1>4, <1>6 DEF IInv, DequeInv, TypeInv
<1>8. TypeInv'
  BY <1>4, <1>5 DEF IInv, TypeInv
<1>9. PoolInv'
  BY <1>4, SamePools DEF IInv, pools
<1>10. OthersKept(d)
  BY <1>4 DEF OthersKept
<1>11. CASE worker[d] # NULL
  <2>1. self[d] >= 0 /\ worker[d] \in Workers /\ vic'[a] = worker[d] /\ l = lk
    BY <1>4, <1>7, <1>11, PooledHasWorker DEF IInv, TypeInv
  <2>2. \A b \in Actors \ {a} : vic'[b] = vic[b]
    BY <1>4 DEF IInv, TypeInv
  <2> HIDE DEF l
  <2>3. QED
    BY <1>2, <1>4, <1>5, <1>6, <1>8, <1>9, <1>10, <2>1, <2>2, HolderStep
<1>12. CASE worker[d] = NULL
  <2>1. self[d] = INVALID /\ l = un
    BY <1>7, <1>12, PooledHasWorker DEF ACTIVE, INVALID, Actors
  <2>2. \A b \in Actors \ {a} : vic'[b] = vic[b]
    BY <1>4 DEF IInv, TypeInv
  <2> HIDE DEF l
  <2>3. QED
    BY <1>2, <1>4, <1>5, <1>6, <1>8, <1>9, <1>10, <2>1, <2>2, HolderStep
<1>13. QED
  BY <1>11, <1>12

LEMMA MakeResumableLockedStep ==
    ASSUME IInv, NEW a \in Actors, MakeResumableLocked(a) PROVE IInv'
<1> USE ActorsAssumption
<1>1. pc[a] = "mr_lock" /\ pc[a] \in Holding \ {"switch", "jump"}
  BY DEF MakeResumableLocked, Holding
<1>2. PICK d \in Deques : d = arg[a]
  BY <1>1, InHand
<1>3. PICK v \in Workers : v = vic[a]
  BY <1>1 DEF IInv, LabelInv
<1>4. /\ fiber[d] = "resumable" /\ ~resumable[d]
      /\ (self[d] = INVALID /\ worker[d] = NULL) \/ (self[d] >= 0 /\ worker[d] = v)
  BY <1>1, <1>2, <1>3 DEF IInv, HeldInv, Holding, Waking
<1>5. CASE worker[d] # NULL
  <2>1. /\ MoveToResumables(v, d) /\ resumable' = [resumable EXCEPT ![d] = TRUE]
        /\ pc' = [pc EXCEPT ![a] = "run"]
        /\ arg' = [arg EXCEPT ![a] = NULL] /\ vic' = [vic EXCEPT ![a] = NULL]
        /\ UNCHANGED <<active, work, worker, fiber, frame, lock, waiting, free, after>>
    BY <1>2, <1>3, <1>5 DEF MakeResumableLocked, StillPooled, Done, Goto
  <2>2. /\ PoolInv' /\ suspended' \in [Workers -> Seq(Deques)]
        /\ resumables' \in [Workers -> Seq(Deques)]
        /\ self' \in [Deques -> Int] /\ self'[d] >= 0
        /\ \A x \in Deques \ {d} : self'[x] >= 0 <=> self[x] >= 0
        /\ \A x \in Deques \ {d} : self[x] < 0 \/ resumable[x] => self'[x] = self[x]
    BY <1>4, <1>5, <2>1, Moved DEF IInv
  <2>3. TypeInv'
    BY <2>1, <2>2 DEF IInv, TypeInv, Labels
  <2>4. OthersKept(d)
    BY <2>1, <2>2 DEF IInv, TypeInv, OthersKept
  <2>5. /\ arg'[a] = NULL /\ resumable'[d] /\ "run" \in Labels
        /\ \A b \in Actors \ {a} : arg'[b] = arg[b] /\ vic'[b] = vic[b]
    BY <2>1 DEF IInv, TypeInv, Labels
  <2>6. QED
    BY <1>1, <1>2, <1>4, <2>1, <2>2, <2>3, <2>4, <2>5, HolderStep
<1>6. CASE worker[d] = NULL
  <2>1. /\ pc' = [pc EXCEPT ![a] = "mr_mark"]
        /\ UNCHANGED <<active, work, worker, self, resumable, fiber, frame, suspended,
                       resumables, lock, waiting, free, arg, vic, after>>
    BY <1>2, <1>6 DEF MakeResumableLocked, StillPooled, Goto, pools
  <2>2. TypeInv'
    BY <2>1 DEF IInv, TypeInv, Labels
  <2>3. PoolInv'
    BY <2>1, SamePools DEF IInv, pools
  <2>4. OthersKept(d) /\ "mr_mark" \in Labels
    BY <2>1 DEF OthersKept, Labels
  <2>5. self'[d] = INVALID /\ ~resumable'[d] /\ arg'[a] = d
    BY <1>2, <1>4, <1>6, <2>1 DEF Actors
  <2>6. QED
    BY <1>1, <1>2, <1>4, <2>1, <2>2, <2>3, <2>4, <2>5, HolderStep
<1>7. QED
  BY <1>5, <1>6

LEMMA MakeResumableFreeStep ==
    ASSUME IInv, NEW a \in Actors, MakeResumableFree(a) PROVE IInv'
<1> USE ActorsAssumption
<1>1. pc[a] = "mr_mark" /\ pc[a] \in Holding \ {"switch", "jump"}
  BY DEF MakeResumableFree, Holding
<1>2. PICK d \in Deques : d = arg[a]
  BY <1>1, InHand
<1>3. fiber[d] = "resumable" /\ ~resumable[d] /\ self[d] = INVALID
  BY <1>1, <1>2 DEF IInv, HeldInv, Holding, Waking
<1>4. PICK v \in Workers :
        /\ worker' = [worker EXCEPT ![d] = v] /\ vic' = [vic EXCEPT ![a] = v]
        /\ resumable' = [resumable EXCEPT ![d] = TRUE]
        /\ pc' = [pc EXCEPT ![a] = "mr_add"]
        /\ UNCHANGED <<active, work, self, fiber, frame, suspended, resumables,
                       lock, waiting, free, arg, after>>
  BY <1>2 DEF MakeResumableFree, Goto, pools
<1>5. TypeInv'
  BY <1>4 DEF IInv, TypeInv, Labels
<1>6. OthersKept(d)
  BY <1>4 DEF IInv, TypeInv, OthersKept
<1>7. PoolInv'
  <2>1. ~(self[d] >= 0)
    BY <1>3 DEF INVALID
  <2>2. \A x \in Deques : self[x] >= 0 => x # d
    BY <2>1
  <2>3. QED
    BY <1>4, <1>6, <2>2, SamePools DEF IInv, pools, OthersKept
<1>8. /\ arg'[a] = d /\ vic'[a] = v /\ resumable'[d] /\ self'[d] = INVALID /\ "mr_add" \in Labels
      /\ \A b \in Actors \ {a} : arg'[b] = arg[b] /\ vic'[b] = vic[b]
  BY <1>2, <1>3, <1>4 DEF IInv, TypeInv, Labels
<1>9. QED
  BY <1>1, <1>2, <1>3, <1>4, <1>5, <1>6, <1>7, <1>8, HolderStep

LEMMA MakeResumableAddStep ==
    ASSUME IInv, NEW a \in Actors, MakeResumableAdd(a) PROVE IInv'
<1> USE ActorsAssumption
<1>1. pc[a] = "mr_add" /\ pc[a] \in Holding \ {"switch", "jump"}
  BY DEF MakeResumableAdd, Holding
<1>2. PICK d \in Deques : d = arg[a]
  BY <1>1, InHand
<1>3. fiber[d] = "resumable" /\ resumable[d] /\ self[d] = INVALID
  BY <1>1, <1>2 DEF IInv, HeldInv, Holding, Waking
<1>4. PICK v \in Workers : v = vic[a]
  BY <1>1 DEF IInv, LabelInv
<1>5. /\ Add(resumables, v, d) /\ worker' = [worker EXCEPT ![d] = v]
      /\ pc' = [pc EXCEPT ![a] = "run"]
      /\ arg' = [arg EXCEPT ![a] = NULL] /\ vic' = [vic EXCEPT ![a] = NULL]
      /\ UNCHANGED <<active, work, resumable, fiber, frame, suspended, lock, waiting, free, after>>
  BY <1>2, <1>4 DEF MakeResumableAdd, Add, Done, Goto
<1>6. /\ PoolInv' /\ resumables' \in [Workers -> Seq(Deques)]
      /\ self' \in [Deques -> Int] /\ self'[d] >= 0
      /\ \A x \in Deques \ {d} : self'[x] = self[x]
  BY <1>3, <1>5, PutIntoResumables DEF IInv, INVALID
<1>7. TypeInv'
  BY <1>5, <1>6 DEF IInv, TypeInv, Labels
<1>8. OthersKept(d)
  BY <1>5, <1>6 DEF IInv, TypeInv, OthersKept
<1>9. /\ arg'[a] = NULL /\ resumable'[d] /\ "run" \in Labels
      /\ \A b \in Actors \ {a} : arg'[b] = arg[b] /\ vic'[b] = vic[b]
  BY <1>3, <1>5 DEF IInv, TypeInv, Labels
<1>10. QED
  BY <1>1, <1>2, <1>3, <1>5, <1>6, <1>7, <1>8, <1>9, HolderStep

LEMMA ResumeLockedStep == ASSUME IInv, NEW w \in Workers, ResumeLocked(w) PROVE IInv'
<1> USE ActorsAssumption
<1>1. pc[w] = "rs_lock" /\ pc[w] \in Holding \ {"switch", "jump"} /\ w \in Actors
  BY DEF ResumeLocked, Holding, Actors
<1>2. PICK d \in Deques : d = arg[w]
  BY <1>1, InHand
<1>3. PICK v \in Workers : v = vic[w]
  BY <1>1 DEF IInv, LabelInv
<1>4. /\ fiber[d] = "resumable" /\ ~resumable[d]
      /\ (self[d] = INVALID /\ worker[d] = NULL) \/ (self[d] >= 0 /\ worker[d] = v)
  BY <1>1, <1>2, <1>3 DEF IInv, HeldInv, Holding, Waking
<1>5. /\ pc' = [pc EXCEPT ![w] = "rs_frame"] /\ vic' = [vic EXCEPT ![w] = NULL]
      /\ UNCHANGED <<active, work, resumable, fiber, resumables, lock, waiting, free, arg, after>>
  BY DEF ResumeLocked, Goto
<1>6. /\ pc' \in [Actors -> Labels] /\ vic' \in [Actors -> Workers \cup {NULL}]
      /\ "rs_frame" \in Labels /\ arg'[w] = d /\ ~resumable'[d]
      /\ \A b \in Actors \ {w} : arg'[b] = arg[b] /\ vic'[b] = vic[b]
  BY <1>2, <1>4, <1>5 DEF IInv, TypeInv, Labels
<1>7. CASE worker[d] # NULL
  <2>1. /\ Remove(suspended, v, d) /\ worker' = [worker EXCEPT ![d] = NULL]
        /\ frame' = [frame EXCEPT ![d] = w]
    BY <1>2, <1>3, <1>7 DEF ResumeLocked, StillPooled
  <2>2. \A x \in Deques \ {d} : worker'[x] = worker[x]
    BY <2>1 DEF IInv, TypeInv
  <2>3. /\ PoolInv' /\ suspended' \in [Workers -> Seq(Deques)]
        /\ self' \in [Deques -> Int] /\ self'[d] = INVALID
        /\ \A x \in Deques \ {d} : self'[x] >= 0 <=> self[x] >= 0
        /\ \A x \in Deques \ {d} : self[x] < 0 \/ resumable[x] => self'[x] = self[x]
    BY <1>4, <1>5, <1>7, <2>1, <2>2, TakenFromSuspended DEF IInv
  <2>4. TypeInv'
    BY <1>5, <1>6, <2>1, <2>3 DEF IInv, TypeInv
  <2>5. OthersKept(d)
    BY <1>5, <2>2, <2>3 DEF OthersKept
  <2>6. QED
    BY <1>1, <1>2, <1>4, <1>5, <1>6, <2>3, <2>4, <2>5, HolderStep
<1>8. CASE worker[d] = NULL
  <2>1. UNCHANGED <<suspended, self, worker, frame>>
    BY <1>2, <1>8 DEF ResumeLocked, StillPooled
  <2>2. self'[d] = INVALID
    BY <1>4, <1>8, <2>1 DEF Actors
  <2>3. TypeInv'
    BY <1>5, <1>6, <2>1 DEF IInv, TypeInv
  <2>4. PoolInv'
    BY <1>5, <2>1, SamePools DEF IInv, pools
  <2>5. OthersKept(d)
    BY <1>5, <2>1 DEF OthersKept
  <2>6. QED
    BY <1>1, <1>2, <1>4, <1>5, <1>6, <2>2, <2>3, <2>4, <2>5, HolderStep
<1>9. QED
  BY <1>7, <1>8

LEMMA ResumeFrameStep == ASSUME IInv, NEW w \in Workers, ResumeFrame(w) PROVE IInv'
<1> USE ActorsAssumption
<1>1. pc[w] = "rs_frame" /\ pc[w] \in Holding \ {"switch", "jump"} /\ w \in Actors
  BY DEF ResumeFrame, Holding, Actors
<1>2. PICK d \in Deques : d = arg[w]
  BY <1>1, InHand
<1>3. fiber[d] = "resumable" /\ ~resumable[d] /\ self[d] = INVALID
  BY <1>1, <1>2 DEF IInv, HeldInv, Holding, Waking
<1>4. /\ pc' = [pc EXCEPT ![w] = "rs_own"] /\ vic' = [vic EXCEPT ![w] = NULL]
      /\ frame' = [frame EXCEPT ![d] = w]
      /\ UNCHANGED <<active, work, worker, self, resumable, fiber, suspended, resumables,
                     lock, waiting, free, arg, after>>
  BY <1>2 DEF ResumeFrame, Goto, pools
<1>5. /\ "rs_own" \in Labels /\ arg'[w] = d /\ ~resumable'[d] /\ self'[d] = INVALID
      /\ \A b \in Actors \ {w} : arg'[b] = arg[b] /\ vic'[b] = vic[b]
  BY <1>2, <1>3, <1>4 DEF IInv, TypeInv, Labels
<1>6. TypeInv'
  BY <1>4 DEF IInv, TypeInv, Labels
<1>7. PoolInv'
  BY <1>4, SamePools DEF IInv, pools
<1>8. OthersKept(d)
  BY <1>4 DEF OthersKept
<1>9. QED
  BY <1>1, <1>2, <1>3, <1>4, <1>5, <1>6, <1>7, <1>8, HolderStep

\* Thieves that come and go: only labels outside Holding, Leaving and Left.
LEMMA ThiefStep ==
    ASSUME IInv, NEW w \in Workers, NEW l \in {"run", "sched", "choose", "mug_done"},
           pc[w] \in {"run", "sched", "choose", "mug_frame", "mug_done"},
           pc' = [pc EXCEPT ![w] = l],
           \A b \in Actors \ {w} : arg'[b] = arg[b] /\ vic'[b] = vic[b],
           \/ l = "mug_done" /\ arg'[w] \in Deques /\ vic'[w] \in Workers
           \/ l = "choose" /\ arg'[w] = NULL /\ vic'[w] \in Workers
           \/ l \in {"run", "sched"} /\ arg'[w] = NULL,
           UNCHANGED <<active, worker, self, resumable, fiber, suspended, resumables,
                       waiting, free, after>>,
           TypeInv'
    PROVE  IInv'
<1> USE ActorsAssumption
<1>1. pc'[w] = l /\ \A b \in Actors \ {w} : pc'[b] = pc[b]
  BY DEF IInv, TypeInv
<1>2. /\ l \notin Holding /\ l \notin Leaving /\ l \notin Left /\ l \notin Waking
      /\ pc[w] \notin Holding /\ pc[w] \notin Leaving /\ pc[w] \notin Left /\ pc[w] \notin Waking
  BY DEF Holding, Leaving, Left, Waking
<1>3. \A v \in Workers : v \in Actors /\ active[v] \in Deques
  BY InHand
<1>4. /\ \A x \in Deques : Pending(x)' <=> Pending(x)
      /\ \A x \in Deques : Held(x)' <=> Held(x)
      /\ \A x \in Deques : Kept(x)' <=> Kept(x)
  <2>1. \A x \in Deques : Pending(x)' <=> Pending(x)
    BY <1>1, <1>2 DEF Pending
  <2>2. \A x \in Deques : Held(x)' <=> Held(x)
    BY <1>1, <1>2 DEF Held
  <2>3. \A x \in Deques : Kept(x)' <=> Kept(x)
    BY <1>1, <1>2, <1>3 DEF Kept
  <2>4. QED
    BY <2>1, <2>2, <2>3
<1>5. PoolInv'
  BY SamePools DEF IInv, pools
<1>6. LabelInv'
  BY <1>1, <1>3 DEF IInv, LabelInv, Empty
<1>7. ActiveInv'
  BY <1>1, <1>2, <1>3, <1>4 DEF IInv, ActiveInv
<1>8. LeftInv'
  <2>1. \A v \in Workers : pc'[v] \in Left =>
           v # w /\ pc[v] = pc'[v] /\ arg'[v] = arg[v] /\ arg[v] \in Deques
    BY <1>1, <1>2, <1>3, InHand
  <2>2. QED
    BY <1>4, <2>1 DEF IInv, LeftInv
<1>9. HeldInv'
  <2>1. \A b \in Actors : pc'[b] \in Holding =>
           pc[b] \in Holding /\ pc'[b] = pc[b] /\ arg'[b] = arg[b] /\ vic'[b] = vic[b]
    BY <1>1, <1>2
  <2>2. QED
    BY <2>1 DEF IInv, HeldInv
<1>10. DequeInv'
  BY <1>4 DEF IInv, DequeInv
<1>11. QED
  BY <1>5, <1>6, <1>7, <1>8, <1>9, <1>10 DEF IInv

LEMMA TryLockStep ==
    ASSUME IInv, NEW w \in Workers, NEW v \in Workers, TryLock(w, v) PROVE IInv'
<1> USE ActorsAssumption
<1>1. w \in Actors
  BY DEF Actors
<1>2. /\ pc[w] = "sched" /\ pc' = [pc EXCEPT ![w] = "choose"]
      /\ lock' = [lock EXCEPT ![v] = w] /\ vic' = [vic EXCEPT ![w] = v]
      /\ UNCHANGED <<active, work, worker, self, resumable, fiber, frame, suspended,
                     resumables, waiting, free, arg, after>>
  BY DEF TryLock, Goto, dequeVars, pools
<1>3. TypeInv'
  BY <1>1, <1>2 DEF IInv, TypeInv, Labels
<1>4. arg'[w] = NULL /\ vic'[w] \in Workers /\ \A b \in Actors \ {w} : vic'[b] = vic[b]
  BY <1>1, <1>2 DEF IInv, TypeInv, LabelInv, Empty
<1>5. QED
  BY <1>2, <1>3, <1>4, ThiefStep

LEMMA StealStep ==
    ASSUME IInv, NEW w \in Workers, NEW d \in Deques, Steal(w, d) PROVE IInv'
<1> USE ActorsAssumption, WorkAssumption
<1>1. w \in Actors /\ pc[w] = "choose" /\ arg[w] = NULL /\ vic[w] \in Workers
  BY DEF Steal, Actors, IInv, LabelInv, Empty
<1>2. /\ lock' = [lock EXCEPT ![vic[w]] = NULL] /\ vic' = [vic EXCEPT ![w] = NULL]
      /\ UNCHANGED <<active, worker, self, resumable, fiber, frame, suspended,
                     resumables, waiting, free, arg, after>>
  BY DEF Steal, Unlock, dequeVars, pools
<1>3. PICK l \in {"run", "sched"} : pc' = [pc EXCEPT ![w] = l]
  BY DEF Steal, Goto
<1>4. work[d] > 0 /\ work[d] - 1 \in 0..MaxWork
  BY DEF Steal, CanSteal, IInv, TypeInv
<1>5. work' \in [Deques -> 0..MaxWork]
  BY <1>4 DEF Steal, IInv, TypeInv
<1>6. TypeInv'
  BY <1>1, <1>2, <1>3, <1>5 DEF IInv, TypeInv, Labels
<1>7. arg'[w] = NULL /\ \A b \in Actors \ {w} : vic'[b] = vic[b]
  BY <1>1, <1>2 DEF IInv, TypeInv
<1>8. QED
  BY <1>1, <1>2, <1>3, <1>6, <1>7, ThiefStep

LEMMA MugFrameStep == ASSUME IInv, NEW w \in Workers, MugFrame(w) PROVE IInv'
<1> USE ActorsAssumption
<1>1. w \in Actors /\ pc[w] = "mug_frame" /\ arg[w] \in Deques /\ vic[w] \in Workers
  BY DEF MugFrame, Actors, IInv, LabelInv, Empty
<1>2. /\ pc' = [pc EXCEPT ![w] = "mug_done"] /\ frame' = [frame EXCEPT ![arg[w]] = w]
      /\ UNCHANGED <<active, work, worker, self, resumable, fiber, suspended, resumables,
                     lock, waiting, free, arg, vic, after>>
  BY DEF MugFrame, Goto, pools
<1>3. TypeInv'
  BY <1>1, <1>2 DEF IInv, TypeInv, Labels
<1>4. QED
  BY <1>1, <1>2, <1>3, ThiefStep

LEMMA MugDoneStep == ASSUME IInv, NEW w \in Workers, MugDone(w) PROVE IInv'
<1> USE ActorsAssumption
<1>1. w \in Actors /\ pc[w] = "mug_done" /\ vic[w] \in Workers
  BY DEF MugDone, Actors, IInv, LabelInv, Empty
<1>2. /\ pc' = [pc EXCEPT ![w] = "sched"] /\ arg' = [arg EXCEPT ![w] = NULL]
      /\ lock' = [lock EXCEPT ![vic[w]] = NULL] /\ vic' = [vic EXCEPT ![w] = NULL]
      /\ UNCHANGED <<active, work, worker, self, resumable, fiber, frame, suspended,
                     resumables, waiting, free, after>>
  BY DEF MugDone, Unlock, Goto, dequeVars, pools
<1>3. TypeInv'
  BY <1>1, <1>2 DEF IInv, TypeInv, Labels
<1>4. arg'[w] = NULL /\ \A b \in Actors \ {w} : arg'[b] = arg[b] /\ vic'[b] = vic[b]
  BY <1>1, <1>2 DEF IInv, TypeInv
<1>5. QED
  BY <1>1, <1>2, <1>3, <1>4, ThiefStep

\* A thief throws a suspended deque out of its pool.  Whoever wakes it may have
\* seen it there and now finds it in no pool.
LEMMA FailToStealStep ==
    ASSUME IInv, NEW w \in Workers, NEW d \in Deques, FailToSteal(w, d) PROVE IInv'
<1> USE ActorsAssumption
<1>1. w \in Actors /\ pc[w] = "choose" /\ arg[w] = NULL
  BY DEF FailToSteal, Actors, IInv, LabelInv, Empty
<1>2. PICK v \in Workers : v = vic[w]
  BY <1>1 DEF IInv, LabelInv
<1>3. CASE d = active[v]
  <2>1. /\ pc' = [pc EXCEPT ![w] = "sched"]
        /\ lock' = [lock EXCEPT ![v] = NULL] /\ vic' = [vic EXCEPT ![w] = NULL]
        /\ UNCHANGED <<active, work, worker, self, resumable, fiber, frame, suspended,
                       resumables, waiting, free, arg, after>>
    BY <1>2, <1>3 DEF FailToSteal, Unlock, Goto
  <2>2. TypeInv'
    BY <1>1, <2>1 DEF IInv, TypeInv, Labels
  <2>3. arg'[w] = NULL /\ \A b \in Actors \ {w} : vic'[b] = vic[b]
    BY <1>1, <2>1 DEF IInv, TypeInv
  <2>4. QED
    BY <1>1, <2>1, <2>2, <2>3, ThiefStep
<1>4. CASE d # active[v]
  <2>1. /\ Remove(suspended, v, d) /\ worker' = [worker EXCEPT ![d] = NULL]
        /\ arg' = [arg EXCEPT ![w] = d] /\ pc' = [pc EXCEPT ![w] = "mug_frame"]
        /\ UNCHANGED <<active, work, resumable, fiber, frame, resumables, lock, waiting,
                       free, vic, after>>
    BY <1>2, <1>4 DEF FailToSteal, Goto
  <2>2. self[d] >= 0 /\ worker[d] = v /\ ~resumable[d]
    <3>1. PICK i \in DOMAIN suspended[v] : d = suspended[v][i]
      BY <1>2, <1>4 DEF FailToSteal, Choices
    <3>2. suspended[v] \in Seq(Deques) /\ i \in 1..Len(suspended[v])
      <4>1. suspended[v] \in Seq(Deques)
        BY DEF IInv, TypeInv
      <4>2. QED
        BY <3>1, <4>1
    <3>3. worker[d] = v /\ self[d] = i - 1 /\ d \in Unmarked
      BY <3>1, <3>2 DEF IInv, PoolInv, Indexed
    <3>4. QED
      BY <3>2, <3>3 DEF Unmarked, Marked
  <2>3. \A x \in Deques \ {d} : worker'[x] = worker[x]
    BY <2>1 DEF IInv, TypeInv
  <2>4. /\ PoolInv' /\ suspended' \in [Workers -> Seq(Deques)]
        /\ self' \in [Deques -> Int] /\ self'[d] = INVALID
        /\ \A x \in Deques \ {d} : self'[x] >= 0 <=> self[x] >= 0
        /\ \A x \in Deques \ {d} : self[x] < 0 \/ resumable[x] => self'[x] = self[x]
    BY <2>1, <2>2, <2>3, TakenFromSuspended DEF IInv
  <2>5. TypeInv'
    BY <1>1, <2>1, <2>4 DEF IInv, TypeInv, Labels
  <2>6. OthersKept(d)
    BY <2>1, <2>3, <2>4 DEF OthersKept
  <2>7. \A x \in Deques \ {d} :
           /\ (self'[x] = ACTIVE) <=> (self[x] = ACTIVE)
           /\ (self'[x] = INVALID) <=> (self[x] = INVALID)
           /\ (self'[x] >= 0) <=> (self[x] >= 0)
           /\ self'[x] >= INVALID
    BY <2>5, <2>6, Kinds
  <2>8. /\ pc'[w] = "mug_frame" /\ \A b \in Actors \ {w} : pc'[b] = pc[b]
        /\ arg'[w] = d /\ \A b \in Actors \ {w} : arg'[b] = arg[b]
        /\ worker'[d] = NULL /\ self'[d] # ACTIVE /\ ~(self'[d] >= 0) /\ self'[d] >= INVALID
    BY <1>1, <2>1, <2>4 DEF IInv, TypeInv, ACTIVE, INVALID
  <2>9. \A u \in Workers : u \in Actors /\ active[u] \in Deques \ {d}
    BY <2>2, InHand DEF IInv, ActiveInv, ACTIVE
  <2>10. /\ \A x \in Deques : Pending(x)' <=> Pending(x)
         /\ \A x \in Deques : Held(x)' <=> Held(x)
         /\ \A x \in Deques : Kept(x)' <=> Kept(x)
    <3>1. \A x \in Deques : Pending(x)' <=> Pending(x)
      BY <1>1, <2>1, <2>8 DEF Pending, Waking
    <3>2. \A x \in Deques : Held(x)' <=> Held(x)
      BY <1>1, <2>8 DEF Held, Holding
    <3>3. \A x \in Deques : Kept(x)' <=> Kept(x)
      BY <1>1, <2>1, <2>8, <2>9 DEF Kept, Leaving
    <3>4. QED
      BY <3>1, <3>2, <3>3
  <2>11. LabelInv'
    BY <1>2, <2>1, <2>8 DEF IInv, LabelInv, Empty
  <2>12. ActiveInv'
    <3>1. \A u \in Workers : /\ pc'[u] \in Leaving <=> pc[u] \in Leaving
                             /\ pc'[u] \in Left <=> pc[u] \in Left
      BY <1>1, <2>8, <2>9 DEF Leaving, Left
    <3>2. QED
      BY <2>1, <2>3, <2>7, <2>9, <2>10, <3>1 DEF IInv, ActiveInv
  <2>13. LeftInv'
    <3>1. \A u \in Workers : pc'[u] \in Left =>
             u # w /\ pc[u] = pc'[u] /\ arg'[u] = arg[u] /\ arg[u] \in Deques
      BY <2>8, <2>9, InHand DEF Left
    <3>2. \A u \in Workers : pc[u] = "park" => arg[u] # d
      BY <2>2 DEF IInv, LeftInv, Left, ACTIVE
    <3>3. QED
      BY <2>1, <2>3, <2>7, <2>8, <2>10, <3>1, <3>2 DEF IInv, LeftInv
  <2>14. HeldInv'
    <3>1. \A b \in Actors : pc'[b] \in Holding =>
             b # w /\ pc[b] = pc'[b] /\ arg'[b] = arg[b] /\ arg[b] \in Deques
      BY <2>8, InHand DEF Holding
    <3>2. \A b \in Actors : pc[b] \in Holding /\ arg[b] = d =>
             pc[b] \in Waking \cup {"mr_lock", "rs_lock"}
      BY <2>2 DEF IInv, HeldInv, INVALID
    <3>3. ASSUME NEW b \in Actors, pc[b] \in Holding, pc'[b] = pc[b],
                 arg'[b] = arg[b], arg[b] \in Deques
          PROVE  /\ pc[b] \notin Waking \cup {"mr_lock", "rs_lock"} => self'[arg[b]] = INVALID
                 /\ pc[b] \in {"mr_lock", "rs_lock"} =>
                       \/ self'[arg[b]] = INVALID /\ worker'[arg[b]] = NULL
                       \/ self'[arg[b]] >= 0 /\ worker'[arg[b]] = vic[b]
      <4>1. CASE arg[b] = d
        BY <3>2, <3>3, <4>1, <2>4, <2>8
      <4>2. CASE arg[b] # d
        BY <3>3, <4>2, <2>3, <2>7 DEF IInv, HeldInv
      <4>3. QED
        BY <4>1, <4>2
    <3>4. QED
      BY <2>1, <3>1, <3>3 DEF IInv, HeldInv
  <2>15. DequeInv'
    <3>1. d \notin free
      BY <2>2 DEF IInv, DequeInv, INVALID
    <3>2. QED
      BY <2>1, <2>2, <2>3, <2>7, <2>8, <2>10, <3>1 DEF IInv, DequeInv
  <2>16. QED
    BY <2>4, <2>5, <2>11, <2>12, <2>13, <2>14, <2>15 DEF IInv
<1>5. QED
  BY <1>3, <1>4

\* A worker with no deque in hand takes one that nobody else has.
LEMMA GrabStep ==
    ASSUME IInv, TypeInv', PoolInv', NEW w \in Workers, NEW d \in Deques,
           NEW l \in {"switch", "jump"},
           \/ pc[w] = "mugOwn" /\ l = "switch" /\ ~resumable'[d]
           \/ pc[w] = "choose" /\ l = "jump",
           pc' = [pc EXCEPT ![w] = l], arg' = [arg EXCEPT ![w] = d],
           \A b \in Actors \ {w} : vic'[b] = vic[b],
           free' = free \ {d}, fiber' = [fiber EXCEPT ![d] = "resumable"],
           UNCHANGED <<active, waiting>>, OthersKept(d), self'[d] = INVALID,
           ~Held(d), d \notin waiting,
           \A v \in Workers : active[v] # d /\ (pc[v] \in Left => arg[v] # d)
    PROVE  IInv'
<1> USE ActorsAssumption
<1>1. /\ w \in Actors /\ pc'[w] = l /\ \A b \in Actors \ {w} : pc'[b] = pc[b]
      /\ arg'[w] = d /\ \A b \in Actors \ {w} : arg'[b] = arg[b]
      /\ fiber'[d] = "resumable" /\ \A x \in Deques \ {d} : fiber'[x] = fiber[x]
  BY DEF IInv, TypeInv, Actors
<1>2. /\ l \in Holding /\ l \notin Left /\ l \notin Waking /\ pc[w] \notin Holding
      /\ pc[w] \notin Left /\ pc[w] \notin Waking /\ (l \in Leaving <=> pc[w] \in Leaving)
  BY DEF Holding, Leaving, Left, Waking
<1>3. \A v \in Workers : v \in Actors /\ active[v] \in Deques \ {d}
  BY InHand
<1>4. \A b \in Actors : pc[b] \in Holding => arg[b] \in Deques \ {d}
  BY InHand DEF Held
<1>5. \A b \in Actors : pc[b] \in Waking => pc[b] \in Holding
  BY DEF Waking, Holding
<1>6. \A x \in Deques \ {d} :
           /\ (self'[x] = ACTIVE) <=> (self[x] = ACTIVE)
           /\ (self'[x] = INVALID) <=> (self[x] = INVALID)
           /\ (self'[x] >= 0) <=> (self[x] >= 0)
           /\ self'[x] >= INVALID
  BY Kinds
<1>7. \A x \in Deques \ {d} : worker'[x] = worker[x] /\ resumable'[x] = resumable[x]
  BY DEF OthersKept
<1>8. /\ \A x \in Deques : Pending(x)' <=> Pending(x)
      /\ \A x \in Deques : Held(x)' <=> Held(x) \/ x = d
      /\ \A x \in Deques : Kept(x)' <=> Kept(x)
      /\ ~Pending(d)
  <2>1. \A x \in Deques : Pending(x)' <=> Pending(x)
    BY <1>1, <1>2 DEF Pending
  <2>2. \A x \in Deques : Held(x)' <=> Held(x) \/ x = d
    BY <1>1, <1>2 DEF Held
  <2>3. \A x \in Deques : Kept(x)' <=> Kept(x)
    BY <1>1, <1>2, <1>3 DEF Kept
  <2>4. ~Pending(d)
    BY <1>4, <1>5 DEF Pending
  <2>5. QED
    BY <2>1, <2>2, <2>3, <2>4
<1>9. LabelInv'
  BY <1>1 DEF IInv, LabelInv, Empty
<1>10. ActiveInv'
  <2>1. \A u \in Workers : /\ pc'[u] \in Leaving <=> pc[u] \in Leaving
                           /\ pc'[u] \in Left <=> pc[u] \in Left
    BY <1>1, <1>2, <1>3
  <2>2. QED
    BY <1>1, <1>3, <1>6, <1>7, <1>8, <2>1 DEF IInv, ActiveInv
<1>11. LeftInv'
  <2>1. \A u \in Workers : pc'[u] \in Left =>
           u # w /\ pc[u] = pc'[u] /\ arg'[u] = arg[u] /\ arg[u] \in Deques \ {d}
    BY <1>1, <1>2, <1>3, InHand
  <2>2. QED
    BY <1>1, <1>6, <1>7, <1>8, <2>1 DEF IInv, LeftInv
<1>12. HeldInv'
  <2>1. \A b \in Actors : pc'[b] \in Holding => b = w \/
           (/\ pc[b] \in Holding /\ pc'[b] = pc[b] /\ arg'[b] = arg[b] /\ vic'[b] = vic[b]
            /\ arg[b] \in Deques \ {d})
    BY <1>1, <1>4
  <2>2. /\ arg'[w] \notin free' /\ arg'[w] \notin waiting'
        /\ \A b \in Actors : pc'[b] \in Holding /\ arg'[b] = arg'[w] => w = b
        /\ fiber'[arg'[w]] = "resumable" /\ self'[arg'[w]] = INVALID
        /\ pc'[w] # "jump" => ~resumable'[arg'[w]]
        /\ pc'[w] \in {"switch", "jump"}
    BY <1>1, <2>1
  <2>3. QED
    BY <1>1, <1>6, <1>7, <2>1, <2>2 DEF IInv, HeldInv
<1>13. DequeInv'
  <2>1. ~(self'[d] >= 0) /\ self'[d] >= INVALID
    BY DEF INVALID
  <2>2. QED
    BY <1>1, <1>6, <1>7, <1>8, <2>1 DEF IInv, DequeInv
<1>14. QED
  BY <1>9, <1>10, <1>11, <1>12, <1>13 DEF IInv

\* The last deque of a pool of resumable ones.
LEMMA LastResumable ==
    ASSUME IInv, NEW v \in Workers, resumables[v] # << >>,
           NEW d, d = resumables[v][Len(resumables[v])]
    PROVE  /\ d \in Deques /\ self[d] >= 0 /\ worker[d] = v /\ resumable[d]
           /\ d \notin waiting /\ d \notin free /\ fiber[d] = "resumable" /\ ~Held(d)
           /\ \A u \in Workers : active[u] # d /\ (pc[u] \in Left => arg[u] # d)
<1>1. resumables[v] \in Seq(Deques) /\ Len(resumables[v]) \in 1..Len(resumables[v])
  BY DEF IInv, TypeInv
<1>2. d \in Deques /\ worker[d] = v /\ self[d] = Len(resumables[v]) - 1 /\ d \in Marked
  BY <1>1 DEF IInv, PoolInv, Indexed, Marked
<1>3. self[d] >= 0 /\ resumable[d]
  BY <1>1, <1>2 DEF Marked
<1>4. d \notin waiting /\ fiber[d] = "resumable" /\ ~Held(d) /\ d \notin free
  BY <1>2, <1>3 DEF IInv, DequeInv
<1>5. \A u \in Workers : active[u] # d /\ (pc[u] \in Left => arg[u] # d)
  BY <1>3 DEF IInv, ActiveInv, LeftInv
<1>6. QED
  BY <1>2, <1>3, <1>4, <1>5

LEMMA ChooseResumableStep == ASSUME IInv, NEW w \in Workers, ChooseResumable(w) PROVE IInv'
<1> USE ActorsAssumption
<1>1. w \in Actors /\ pc[w] = "choose"
  BY DEF ChooseResumable, Actors
<1>2. PICK v \in Workers : v = vic[w]
  BY <1>1 DEF IInv, LabelInv
<1>3. resumables[v] # << >>
  BY <1>2 DEF ChooseResumable
<1>4. PICK d : d = resumables[v][Len(resumables[v])]
  OBVIOUS
<1>5. /\ d \in Deques /\ self[d] >= 0 /\ worker[d] = v /\ resumable[d]
      /\ d \notin waiting /\ d \notin free /\ fiber[d] = "resumable" /\ ~Held(d)
      /\ \A u \in Workers : active[u] # d /\ (pc[u] \in Left => arg[u] # d)
  BY <1>3, <1>4, LastResumable
<1>6. /\ Remove(resumables, v, d) /\ worker' = [worker EXCEPT ![d] = NULL]
      /\ frame' = [frame EXCEPT ![d] = w] /\ arg' = [arg EXCEPT ![w] = d]
      /\ lock' = [lock EXCEPT ![v] = NULL] /\ vic' = [vic EXCEPT ![w] = NULL]
      /\ pc' = [pc EXCEPT ![w] = "jump"]
      /\ UNCHANGED <<active, work, resumable, fiber, suspended, waiting, free, after>>
  BY <1>2, <1>4 DEF ChooseResumable, Unlock, Goto
<1>7. \A x \in Deques \ {d} : worker'[x] = worker[x] /\ resumable'[x] = resumable[x]
  BY <1>6 DEF IInv, TypeInv
<1>8. /\ PoolInv' /\ resumables' \in [Workers -> Seq(Deques)]
      /\ self' \in [Deques -> Int] /\ self'[d] = INVALID
      /\ \A x \in Deques \ {d} : self'[x] >= 0 <=> self[x] >= 0
      /\ \A x \in Deques \ {d} : self[x] < 0 \/ ~resumable[x] => self'[x] = self[x]
  BY <1>5, <1>6, <1>7, TakenFromResumables DEF IInv
<1>9. TypeInv'
  BY <1>1, <1>5, <1>6, <1>8 DEF IInv, TypeInv, Labels
<1>10. OthersKept(d)
  BY <1>7, <1>8 DEF OthersKept
<1>11. /\ \A b \in Actors \ {w} : vic'[b] = vic[b]
       /\ free' = free \ {d} /\ fiber' = [fiber EXCEPT ![d] = "resumable"]
  BY <1>5, <1>6 DEF IInv, TypeInv
<1>12. QED
  BY <1>1, <1>5, <1>6, <1>8, <1>9, <1>10, <1>11, GrabStep

LEMMA MugOwnStep == ASSUME IInv, NEW w \in Workers, MugOwn(w) PROVE IInv'
<1> USE ActorsAssumption
<1>1. w \in Actors /\ pc[w] = "mugOwn" /\ pc' = [pc EXCEPT ![w] = "switch"]
      /\ UNCHANGED <<active, work, lock, waiting, vic>>
  BY DEF MugOwn, Actors, Goto
<1>2. CASE resumables[w] # << >>
  <2>1. PICK d : d = resumables[w][Len(resumables[w])]
    OBVIOUS
  <2>2. /\ d \in Deques /\ self[d] >= 0 /\ worker[d] = w /\ resumable[d]
        /\ d \notin waiting /\ d \notin free /\ fiber[d] = "resumable" /\ ~Held(d)
        /\ \A u \in Workers : active[u] # d /\ (pc[u] \in Left => arg[u] # d)
    BY <1>2, <2>1, LastResumable
  <2>3. /\ Remove(resumables, w, d) /\ worker' = [worker EXCEPT ![d] = NULL]
        /\ frame' = [frame EXCEPT ![d] = w] /\ arg' = [arg EXCEPT ![w] = d]
        /\ resumable' = [resumable EXCEPT ![d] = FALSE]
        /\ after' = [after EXCEPT ![w] = "run"]
        /\ UNCHANGED <<fiber, free, suspended>>
    BY <1>2, <2>1 DEF MugOwn
  <2>4. \A x \in Deques \ {d} : worker'[x] = worker[x] /\ resumable'[x] = resumable[x]
    BY <2>3 DEF IInv, TypeInv
  <2>5. /\ PoolInv' /\ resumables' \in [Workers -> Seq(Deques)]
        /\ self' \in [Deques -> Int] /\ self'[d] = INVALID
        /\ \A x \in Deques \ {d} : self'[x] >= 0 <=> self[x] >= 0
        /\ \A x \in Deques \ {d} : self[x] < 0 \/ ~resumable[x] => self'[x] = self[x]
    BY <2>2, <2>3, <2>4, TakenFromResumables DEF IInv
  <2>6. TypeInv'
    BY <1>1, <2>2, <2>3, <2>5 DEF IInv, TypeInv, Labels
  <2>7. OthersKept(d)
    BY <2>4, <2>5 DEF OthersKept
  <2>8. free' = free \ {d} /\ fiber' = [fiber EXCEPT ![d] = "resumable"] /\ ~resumable'[d]
    BY <2>2, <2>3 DEF IInv, TypeInv
  <2>9. QED
    BY <1>1, <2>2, <2>3, <2>5, <2>6, <2>7, <2>8, GrabStep
<1>3. CASE resumables[w] = << >>
  <2>1. PICK d \in free :
          /\ arg' = [arg EXCEPT ![w] = d] /\ free' = free \ {d}
          /\ fiber' = [fiber EXCEPT ![d] = "resumable"] /\ frame' = [frame EXCEPT ![d] = NULL]
    BY <1>3 DEF MugOwn
  <2>2. /\ after' = [after EXCEPT ![w] = "sched"]
        /\ UNCHANGED <<worker, self, resumable, suspended, resumables>>
    BY <1>3 DEF MugOwn, pools
  <2>3. d \in Deques /\ self[d] = INVALID /\ ~resumable[d] /\ d \notin waiting
    BY <2>1 DEF IInv, TypeInv, DequeInv
  <2>4. ~Held(d)
    BY <2>1 DEF IInv, HeldInv, Held
  <2>5. \A u \in Workers : active[u] # d /\ (pc[u] \in Left => arg[u] # d)
    BY <2>1 DEF IInv, ActiveInv, LeftInv
  <2>6. TypeInv'
    BY <1>1, <2>1, <2>2, <2>3 DEF IInv, TypeInv, Labels
  <2>7. PoolInv'
    BY <2>2, SamePools DEF IInv, pools
  <2>8. OthersKept(d)
    BY <2>2 DEF OthersKept
  <2>9. QED
    BY <1>1, <2>1, <2>2, <2>3, <2>4, <2>5, <2>6, <2>7, <2>8, GrabStep
<1>4. QED
  BY <1>2, <1>3

\* The deque in hand becomes the active one and the one before is destroyed.
LEMMA TakeOverStep ==
    ASSUME IInv, NEW w \in Workers, pc[w] \in {"rs_own", "jump"}, TakeOver(w, arg[w]),
           pc' = [pc EXCEPT ![w] = "run"], arg' = [arg EXCEPT ![w] = NULL],
           vic' \in [Actors -> Workers \cup {NULL}], \A b \in Actors \ {w} : vic'[b] = vic[b],
           UNCHANGED <<work, lock, waiting, after, suspended, resumables>>
    PROVE  IInv'
<1> USE ActorsAssumption
<1>1. /\ w \in Actors /\ pc[w] \in Holding /\ pc[w] \notin Waking \cup {"mr_lock", "rs_lock"}
      /\ pc[w] \notin Leaving /\ pc[w] \notin Left
  BY DEF Actors, Holding, Waking, Leaving, Left
<1>2. PICK d \in Deques : d = arg[w]
  BY <1>1, InHand
<1>3. PICK e \in Deques : e = active[w]
  BY InHand
<1>4. /\ self[d] = INVALID /\ d \notin free /\ d \notin waiting /\ fiber[d] = "resumable"
      /\ \A b \in Actors \ {w} : pc[b] \in Holding => arg[b] # d
  BY <1>1, <1>2 DEF IInv, HeldInv
<1>5. /\ self[e] = ACTIVE /\ e \notin waiting /\ ~Held(e) /\ fiber[e] = NULL /\ ~resumable[e]
  BY <1>1, <1>3 DEF IInv, ActiveInv
<1>6. d # e
  BY <1>4, <1>5 DEF ACTIVE, INVALID
<1>7. /\ active' = [active EXCEPT ![w] = d]
      /\ worker' = [worker EXCEPT ![d] = w, ![e] = NULL]
      /\ self' = [self EXCEPT ![d] = ACTIVE, ![e] = INVALID]
      /\ fiber' = [fiber EXCEPT ![d] = NULL]
      /\ resumable' = [resumable EXCEPT ![d] = FALSE]
      /\ frame' = [frame EXCEPT ![e] = NULL] /\ free' = free \cup {e}
  BY <1>2, <1>3 DEF TakeOver
<1>8. TypeInv'
  <2>1. self' \in [Deques -> Int]
    BY <1>7 DEF IInv, TypeInv, ACTIVE, INVALID
  <2>2. worker' \in [Deques -> Workers \cup {NULL}]
    BY <1>7 DEF IInv, TypeInv
  <2>3. pc' \in [Actors -> Labels] /\ arg' \in [Actors -> Deques \cup {NULL}]
    BY DEF IInv, TypeInv, Labels
  <2>4. /\ active' \in [Workers -> Deques] /\ frame' \in [Deques -> Workers \cup {NULL}]
        /\ free' \subseteq Deques /\ resumable' \in [Deques -> BOOLEAN]
        /\ fiber' \in [Deques -> {NULL, "switching", "resumable"}]
    BY <1>7 DEF IInv, TypeInv
  <2>5. QED
    BY <2>1, <2>2, <2>3, <2>4 DEF IInv, TypeInv
<1>9. /\ free' = free \cup {e} /\ pc'[w] = "run" /\ \A b \in Actors \ {w} : pc'[b] = pc[b]
      /\ arg'[w] = NULL /\ \A b \in Actors \ {w} : arg'[b] = arg[b]
      /\ active'[w] = d /\ \A v \in Workers \ {w} : active'[v] = active[v]
  BY <1>1, <1>7 DEF IInv, TypeInv
<1>10. /\ worker'[d] = w /\ self'[d] = ACTIVE /\ fiber'[d] = NULL /\ ~resumable'[d]
       /\ worker'[e] = NULL /\ self'[e] = INVALID /\ fiber'[e] = NULL /\ ~resumable'[e]
       /\ \A x \in Deques \ {d, e} : /\ worker'[x] = worker[x] /\ self'[x] = self[x]
                                     /\ fiber'[x] = fiber[x] /\ resumable'[x] = resumable[x]
  <2>1. /\ worker \in [Deques -> Workers \cup {NULL}] /\ self \in [Deques -> Int]
        /\ fiber \in [Deques -> {NULL, "switching", "resumable"}]
        /\ resumable \in [Deques -> BOOLEAN]
    BY DEF IInv, TypeInv
  <2>2. /\ worker'[d] = w /\ worker'[e] = NULL
        /\ \A x \in Deques \ {d, e} : worker'[x] = worker[x]
    BY <1>6, <1>7, <2>1
  <2>3. /\ self'[d] = ACTIVE /\ self'[e] = INVALID
        /\ \A x \in Deques \ {d, e} : self'[x] = self[x]
    BY <1>6, <1>7, <2>1
  <2>4. /\ fiber'[d] = NULL /\ ~resumable'[d] /\ fiber'[e] = NULL /\ ~resumable'[e]
        /\ \A x \in Deques \ {d, e} : fiber'[x] = fiber[x] /\ resumable'[x] = resumable[x]
    BY <1>5, <1>6, <1>7, <2>1
  <2>5. QED
    BY <2>2, <2>3, <2>4
<1>11. PoolInv'
  <2>1. ~(self[d] >= 0) /\ ~(self[e] >= 0) /\ ~(self'[d] >= 0) /\ ~(self'[e] >= 0)
    BY <1>4, <1>5, <1>10 DEF ACTIVE, INVALID
  <2>2. \A x \in Deques : self[x] >= 0 =>
           worker'[x] = worker[x] /\ self'[x] = self[x] /\ (resumable'[x] <=> resumable[x])
    BY <1>10, <2>1
  <2>3. \A x \in Deques : self'[x] >= 0 => self[x] >= 0
    BY <1>10, <2>1
  <2>4. QED
    BY <2>2, <2>3, SamePools DEF IInv, pools
<1>12. \A v \in Workers : v \in Actors /\ active[v] \in Deques \ {d} /\ (v # w => active[v] # e)
  BY <1>3, <1>4, InHand, ActiveOnce DEF IInv, ActiveInv, ACTIVE, INVALID
<1>13. \A b \in Actors : pc[b] \in Waking => pc[b] \in Holding /\ b # w
  BY <1>1 DEF Waking, Holding
<1>14. ~Pending(d) /\ ~Pending(e)
  BY <1>4, <1>5, <1>13 DEF Pending, Held
<1>15. /\ "run" \notin Holding /\ "run" \notin Waking /\ "run" \notin Leaving /\ "run" \notin Left
  BY DEF Holding, Waking, Leaving, Left
<1>16. /\ \A x \in Deques : Pending(x)' <=> Pending(x)
       /\ \A x \in Deques : Held(x)' <=> Held(x) /\ x # d
       /\ \A x \in Deques \ {d, e} : Kept(x)' <=> Kept(x)
       /\ Kept(d)'
  <2>1. \A x \in Deques : Pending(x)' <=> Pending(x)
    BY <1>9, <1>13, <1>15 DEF Pending
  <2>2. \A x \in Deques : Held(x)' <=> Held(x) /\ x # d
    BY <1>1, <1>2, <1>4, <1>9, <1>15 DEF Held
  <2>3. \A x \in Deques \ {d, e} : Kept(x)' <=> Kept(x)
    BY <1>3, <1>9, <1>12 DEF Kept
  <2>4. Kept(d)'
    BY <1>9, <1>15 DEF Kept
  <2>5. QED
    BY <2>1, <2>2, <2>3, <2>4
<1>17. LabelInv'
  BY <1>9 DEF IInv, LabelInv, Empty
<1>18. ActiveInv'
  BY <1>4, <1>6, <1>9, <1>10, <1>12, <1>15, <1>16 DEF IInv, ActiveInv
<1>19. LeftInv'
  <2>1. \A u \in Workers : pc'[u] \in Left =>
           /\ u # w /\ pc[u] = pc'[u] /\ pc[u] \in Left
           /\ arg'[u] = arg[u] /\ arg[u] \in Deques \ {d, e}
    <3>1. \A u \in Workers : pc'[u] \in Left => u # w /\ pc[u] = pc'[u] /\ arg'[u] = arg[u]
      BY <1>9, <1>12, <1>15
    <3>2. \A u \in Workers : pc[u] \in Left => arg[u] \in Deques /\ Pending(arg[u])
      BY <1>12, InHand DEF IInv, LeftInv
    <3>3. QED
      BY <1>14, <3>1, <3>2
  <2>2. QED
    BY <1>9, <1>10, <1>16, <2>1 DEF IInv, LeftInv
<1>20. HeldInv'
  <2>1. \A b \in Actors : pc'[b] \in Holding =>
           /\ b # w /\ pc[b] = pc'[b] /\ pc[b] \in Holding
           /\ arg'[b] = arg[b] /\ vic'[b] = vic[b] /\ arg[b] \in Deques \ {d, e}
    BY <1>4, <1>5, <1>9, <1>15, InHand DEF Held
  <2>2. QED
    BY <1>9, <1>10, <2>1 DEF IInv, HeldInv
<1>21. DequeInv'
  <2>1. ACTIVE >= INVALID /\ INVALID >= INVALID /\ ~(ACTIVE >= 0) /\ ~(INVALID >= 0)
    BY DEF ACTIVE, INVALID
  <2>2. QED
    BY <1>4, <1>5, <1>6, <1>9, <1>10, <1>14, <1>16, <2>1 DEF IInv, DequeInv
<1>22. QED
  BY <1>8, <1>11, <1>17, <1>18, <1>19, <1>20, <1>21 DEF IInv

LEMMA ResumeOwnStep == ASSUME IInv, NEW w \in Workers, ResumeOwn(w) PROVE IInv'
<1>1. vic' = [vic EXCEPT ![w] = NULL]
  BY DEF ResumeOwn, Done
<1>2. vic' \in [Actors -> Workers \cup {NULL}] /\ \A b \in Actors \ {w} : vic'[b] = vic[b]
  BY <1>1 DEF IInv, TypeInv
<1>3. QED
  BY <1>2, TakeOverStep DEF ResumeOwn, Done, Goto, pools

LEMMA JumpStep == ASSUME IInv, NEW w \in Workers, Jump(w) PROVE IInv'
<1>1. vic' \in [Actors -> Workers \cup {NULL}] /\ \A b \in Actors \ {w} : vic'[b] = vic[b]
  BY DEF Jump, IInv, TypeInv
<1>2. QED
  BY <1>1, TakeOverStep DEF Jump, Goto, pools

LEMMA SwitchStep == ASSUME IInv, NEW w \in Workers, Switch(w) PROVE IInv'
<1> USE ActorsAssumption, WorkAssumption
<1>1. w \in Actors /\ pc[w] = "switch" /\ pc[w] \in Holding /\ pc[w] \in Leaving
      /\ pc[w] \notin Waking /\ pc[w] \notin Left
  BY DEF Switch, Actors, Holding, Leaving, Left, Waking
<1>2. PICK d \in Deques : d = active[w]
  BY InHand
<1>3. PICK n \in Deques : n = arg[w]
  BY <1>1, InHand
<1>4. /\ self[n] = INVALID /\ n \notin free /\ n \notin waiting /\ fiber[n] = "resumable"
      /\ ~resumable[n] /\ \A b \in Actors \ {w} : pc[b] \in Holding => arg[b] # n
  BY <1>1, <1>3 DEF IInv, HeldInv
<1>5. /\ self[d] = ACTIVE /\ Pending(d) /\ fiber[d] = NULL /\ ~resumable[d] /\ d \notin free
  BY <1>1, <1>2 DEF IInv, ActiveInv
<1>6. d # n
  BY <1>4, <1>5 DEF ACTIVE, INVALID
<1>7. /\ active' = [active EXCEPT ![w] = n] /\ worker' = [worker EXCEPT ![n] = w]
      /\ self' = [self EXCEPT ![n] = ACTIVE] /\ fiber' = [fiber EXCEPT ![d] = "switching"]
      /\ arg' = [arg EXCEPT ![w] = d] /\ pc' = [pc EXCEPT ![w] = "park"]
      /\ UNCHANGED <<resumable, frame, suspended, resumables, lock, waiting, free, vic>>
  BY <1>2, <1>3 DEF Switch, Goto, pools
<1>8. TypeInv'
  <2> DEFINE Same == work' \in [Deques -> 0..MaxWork] /\ after' \in [Workers -> {"run", "sched"}]
  <2>1. ASSUME UNCHANGED <<work, after>> PROVE Same
    BY <2>1 DEF IInv, TypeInv
  <2>2. ASSUME work[d] > 0, work' = [work EXCEPT ![d] = @ - 1],
               after' = [after EXCEPT ![w] = "run"]
        PROVE  Same
    <3>1. work[d] - 1 \in 0..MaxWork
      <4>1. work[d] \in 0..MaxWork
        BY DEF IInv, TypeInv
      <4>2. QED
        BY <2>2, <4>1
    <3>2. QED
      BY <2>2, <3>1 DEF IInv, TypeInv
  <2>3. Same
    BY <1>2, <2>1, <2>2 DEF Switch, CanSteal
  <2>4. /\ worker' \in [Deques -> Workers \cup {NULL}] /\ self' \in [Deques -> Int]
        /\ fiber' \in [Deques -> {NULL, "switching", "resumable"}]
    BY <1>7 DEF IInv, TypeInv, ACTIVE
  <2>5. /\ active' \in [Workers -> Deques] /\ arg' \in [Actors -> Deques \cup {NULL}]
        /\ pc' \in [Actors -> Labels]
    BY <1>1, <1>7 DEF IInv, TypeInv, Labels
  <2>6. QED
    BY <1>7, <2>3, <2>4, <2>5 DEF IInv, TypeInv
<1>9. /\ pc'[w] = "park" /\ \A b \in Actors \ {w} : pc'[b] = pc[b]
      /\ arg'[w] = d /\ \A b \in Actors \ {w} : arg'[b] = arg[b]
      /\ active'[w] = n /\ \A v \in Workers \ {w} : active'[v] = active[v]
      /\ worker'[n] = w /\ self'[n] = ACTIVE /\ fiber'[n] = "resumable"
      /\ worker'[d] = worker[d] /\ self'[d] = ACTIVE /\ fiber'[d] = "switching"
      /\ \A x \in Deques \ {n} : worker'[x] = worker[x] /\ self'[x] = self[x]
      /\ \A x \in Deques \ {d} : fiber'[x] = fiber[x]
      /\ UNCHANGED <<waiting, free, resumable, vic>>
  BY <1>1, <1>4, <1>5, <1>6, <1>7 DEF IInv, TypeInv
<1>10. PoolInv'
  <2>1. ~(self[n] >= 0) /\ ~(self'[n] >= 0)
    BY <1>4, <1>9 DEF ACTIVE, INVALID
  <2>2. UNCHANGED pools
    BY <1>7 DEF pools
  <2>3. QED
    BY <1>9, <2>1, <2>2, SamePools DEF IInv
<1>11. \A v \in Workers : v \in Actors /\ active[v] \in Deques \ {n} /\ (v # w => active[v] # d)
  BY <1>2, <1>4, InHand, ActiveOnce DEF IInv, ActiveInv, ACTIVE, INVALID
<1>12. /\ "park" \notin Holding /\ "park" \notin Waking /\ "park" \notin Leaving
       /\ "park" \in Left /\ "park" # "leave"
  BY DEF Holding, Waking, Leaving, Left
<1>13. \A b \in Actors : pc[b] \in Waking => pc[b] \in Holding /\ b # w
  BY <1>1 DEF Waking, Holding
<1>14. /\ \A x \in Deques : Pending(x)' <=> Pending(x)
       /\ \A x \in Deques : Held(x)' <=> Held(x) /\ x # n
       /\ \A x \in Deques \ {n} : Kept(x)' <=> Kept(x)
       /\ Kept(n)' /\ ~Pending(n)
  <2>1. \A x \in Deques : Pending(x)' <=> Pending(x)
    BY <1>9, <1>12, <1>13 DEF Pending
  <2>2. \A x \in Deques : Held(x)' <=> Held(x) /\ x # n
    BY <1>1, <1>3, <1>4, <1>9, <1>12 DEF Held
  <2>3. \A x \in Deques \ {n} : Kept(x)' <=> Kept(x)
    BY <1>1, <1>9, <1>11 DEF Kept
  <2>4. Kept(n)'
    BY <1>9, <1>12 DEF Kept
  <2>5. ~Pending(n)
    BY <1>4, <1>13 DEF Pending
  <2>6. QED
    BY <2>1, <2>2, <2>3, <2>4, <2>5
<1>15. LabelInv'
  BY <1>9 DEF IInv, LabelInv, Empty
<1>16. ActiveInv'
  BY <1>4, <1>6, <1>9, <1>11, <1>12, <1>14 DEF IInv, ActiveInv
<1>17. LeftInv'
  <2>1. \A u \in Workers : pc[u] \in Left =>
           u # w /\ arg[u] \in Deques /\ fiber[arg[u]] = "switching"
    BY <1>1, <1>11, InHand DEF IInv, LeftInv
  <2>2. \A u \in Workers : pc'[u] \in Left => u = w \/
           (pc[u] \in Left /\ pc[u] = pc'[u] /\ arg'[u] = arg[u] /\ arg[u] \in Deques \ {d, n})
    BY <1>4, <1>5, <1>9, <1>11, <2>1
  <2>3. QED
    BY <1>5, <1>9, <1>12, <1>14, <2>2 DEF IInv, LeftInv
<1>18. HeldInv'
  <2>1. \A b \in Actors : pc'[b] \in Holding =>
           /\ b # w /\ pc[b] = pc'[b] /\ pc[b] \in Holding
           /\ arg'[b] = arg[b] /\ arg[b] \in Deques \ {n}
    BY <1>4, <1>9, <1>12, InHand
  <2>2. \A b \in Actors : pc[b] \in Holding /\ arg[b] = d => pc[b] \in Waking
    BY <1>5 DEF IInv, HeldInv
  <2>3. QED
    BY <1>9, <2>1, <2>2 DEF IInv, HeldInv
<1>19. DequeInv'
  <2>1. ACTIVE >= INVALID /\ ~(ACTIVE >= 0)
    BY DEF ACTIVE, INVALID
  <2>2. QED
    BY <1>4, <1>5, <1>6, <1>9, <1>14, <2>1 DEF IInv, DequeInv
<1>20. QED
  BY <1>8, <1>10, <1>15, <1>16, <1>17, <1>18, <1>19 DEF IInv

\* A deque just left is nobody's active deque.
LEMMA LeftIsNotActive ==
    ASSUME IInv
    PROVE  \A v, w \in Workers : pc[w] \in Left => active[v] # arg[w]
<1> USE ActorsAssumption
<1> SUFFICES ASSUME NEW v \in Workers, NEW w \in Workers, pc[w] \in Left, active[v] = arg[w]
             PROVE  FALSE
  OBVIOUS
<1>1. PICK d \in Deques : d = active[v]
  BY InHand
<1>2. Pending(d) /\ fiber[d] = "switching"
  BY <1>1 DEF IInv, LeftInv
<1>3. CASE pc[v] \in Leaving
  <2>1. pc[v] \notin Left
    BY <1>3 DEF Leaving, Left
  <2>2. fiber[d] = NULL
    BY <1>1, <2>1 DEF IInv, ActiveInv
  <2>3. QED
    BY <1>2, <2>2
<1>4. CASE pc[v] \notin Leaving
  <2>1. d \notin waiting /\ ~Held(d)
    BY <1>1, <1>4 DEF IInv, ActiveInv
  <2>2. QED
    BY <1>2, <2>1 DEF Pending, Held, Waking, Holding
<1>5. QED
  BY <1>3, <1>4

LEMMA ParkStep == ASSUME IInv, NEW w \in Workers, Park(w) PROVE IInv'
<1> USE ActorsAssumption
<1>1. w \in Actors /\ pc[w] = "park" /\ pc[w] \in Left
  BY DEF Park, Actors, Left
<1>2. PICK d \in Deques : d = arg[w]
  BY <1>1, InHand
<1>3. /\ Pending(d) /\ fiber[d] = "switching" /\ ~resumable[d] /\ d \notin free
      /\ self[d] = ACTIVE /\ \A v \in Workers : pc[v] \in Left /\ arg[v] = d => v = w
  BY <1>1, <1>2 DEF IInv, LeftInv
<1>4. /\ pc' = [pc EXCEPT ![w] = "leave"]
      /\ UNCHANGED <<active, work, resumable, fiber, frame, resumables, lock, waiting,
                     free, arg, vic, after>>
  BY DEF Park, Goto
<1>5. /\ TypeInv' /\ PoolInv' /\ OthersKept(d)
      /\ self'[d] # ACTIVE /\ (worker'[d] = NULL \/ self'[d] >= 0) /\ self'[d] >= INVALID
  <2>1. CASE \E v \in Workers : Add(suspended, v, d)
    <3>1. PICK v \in Workers : Add(suspended, v, d)
      BY <2>1
    <3>2. worker' = [worker EXCEPT ![d] = v]
      BY <3>1 DEF Add
    <3>3. /\ PoolInv' /\ suspended' \in [Workers -> Seq(Deques)]
          /\ self' \in [Deques -> Int] /\ self'[d] >= 0
          /\ \A x \in Deques \ {d} : self'[x] = self[x]
      BY <1>3, <1>4, <3>1, PutIntoSuspended DEF IInv, ACTIVE
    <3>4. TypeInv'
      BY <1>1, <1>4, <3>2, <3>3 DEF IInv, TypeInv, Labels
    <3>5. OthersKept(d)
      BY <1>4, <3>2, <3>3 DEF OthersKept, IInv, TypeInv
    <3>6. self'[d] # ACTIVE /\ self'[d] >= INVALID
      BY <3>3 DEF ACTIVE, INVALID
    <3>7. QED
      BY <3>3, <3>4, <3>5, <3>6
  <2>2. CASE /\ self' = [self EXCEPT ![d] = INVALID]
             /\ worker' = [worker EXCEPT ![d] = NULL] /\ UNCHANGED suspended
    <3>1. TypeInv'
      BY <1>1, <1>4, <2>2 DEF IInv, TypeInv, Labels, INVALID
    <3>2. self'[d] = INVALID /\ worker'[d] = NULL /\ OthersKept(d)
      BY <1>4, <2>2 DEF IInv, TypeInv, OthersKept
    <3>3. \A x \in Deques \ {d} : worker'[x] = worker[x] /\ self'[x] = self[x]
      BY <2>2 DEF IInv, TypeInv
    <3>4. ~(self[d] >= 0) /\ ~(self'[d] >= 0) /\ self'[d] # ACTIVE /\ self'[d] >= INVALID
      BY <1>3, <3>2 DEF ACTIVE, INVALID
    <3>5. PoolInv'
      BY <1>4, <2>2, <3>3, <3>4, SamePools DEF IInv, pools
    <3>6. QED
      BY <3>1, <3>2, <3>4, <3>5
  <2>3. QED
    BY <1>2, <2>1, <2>2 DEF Park
<1>6. \A x \in Deques \ {d} :
           /\ (self'[x] = ACTIVE) <=> (self[x] = ACTIVE)
           /\ (self'[x] = INVALID) <=> (self[x] = INVALID)
           /\ (self'[x] >= 0) <=> (self[x] >= 0)
           /\ self'[x] >= INVALID
  BY <1>5, Kinds
<1>7. \A x \in Deques \ {d} : worker'[x] = worker[x]
  BY <1>5 DEF OthersKept
<1>8. pc'[w] = "leave" /\ \A b \in Actors \ {w} : pc'[b] = pc[b]
  BY <1>1, <1>4 DEF IInv, TypeInv
<1>9. \A v \in Workers : v \in Actors /\ active[v] \in Deques \ {d}
  BY <1>1, <1>2, InHand, LeftIsNotActive
<1>10. /\ \A x \in Deques : Pending(x)' <=> Pending(x)
       /\ \A x \in Deques : Held(x)' <=> Held(x)
       /\ \A x \in Deques : Kept(x)' <=> Kept(x)
  <2>1. \A x \in Deques : Pending(x)' <=> Pending(x)
    BY <1>1, <1>4, <1>8 DEF Pending, Waking
  <2>2. \A x \in Deques : Held(x)' <=> Held(x)
    BY <1>1, <1>4, <1>8 DEF Held, Holding
  <2>3. \A x \in Deques : Kept(x)' <=> Kept(x)
    BY <1>1, <1>4, <1>8, <1>9 DEF Kept, Leaving
  <2>4. QED
    BY <2>1, <2>2, <2>3
<1>11. LabelInv'
  BY <1>1, <1>4, <1>8 DEF IInv, LabelInv, Empty
<1>12. ActiveInv'
  <2>1. \A u \in Workers : /\ pc'[u] \in Leaving <=> pc[u] \in Leaving
                           /\ pc'[u] \in Left <=> pc[u] \in Left
    BY <1>1, <1>8, <1>9 DEF Leaving, Left
  <2>2. QED
    BY <1>4, <1>6, <1>7, <1>9, <1>10, <2>1 DEF IInv, ActiveInv
<1>13. LeftInv'
  <2>1. \A u \in Workers : pc'[u] \in Left => u = w \/
           (pc[u] \in Left /\ pc[u] = pc'[u] /\ arg[u] \in Deques \ {d})
    BY <1>3, <1>8, <1>9, InHand
  <2>2. QED
    BY <1>2, <1>3, <1>4, <1>5, <1>6, <1>7, <1>8, <1>10, <2>1 DEF IInv, LeftInv
<1>14. HeldInv'
  <2>1. \A b \in Actors : pc'[b] \in Holding =>
           b # w /\ pc[b] = pc'[b] /\ pc[b] \in Holding /\ arg[b] \in Deques
    BY <1>8, InHand DEF Holding
  <2>2. \A b \in Actors : pc[b] \in Holding /\ arg[b] = d => pc[b] \in Waking
    BY <1>3 DEF IInv, HeldInv
  <2>3. \A b \in Actors : pc[b] \in Waking => pc[b] \notin {"mr_lock", "rs_lock"}
    BY DEF Waking
  <2>4. QED
    BY <1>4, <1>6, <1>7, <2>1, <2>2, <2>3 DEF IInv, HeldInv
<1>15. DequeInv'
  BY <1>3, <1>4, <1>5, <1>6, <1>7, <1>10 DEF IInv, DequeInv
<1>16. QED
  BY <1>5, <1>11, <1>12, <1>13, <1>14, <1>15 DEF IInv

LEMMA LeaveStep == ASSUME IInv, NEW w \in Workers, Leave(w) PROVE IInv'
<1> USE ActorsAssumption
<1>1. w \in Actors /\ pc[w] = "leave" /\ pc[w] \in Left /\ pc[w] \notin Leaving
      /\ pc[w] \notin Holding
  BY DEF Leave, Actors, Left, Leaving, Holding
<1>2. PICK d \in Deques : d = arg[w]
  BY <1>1, InHand
<1>3. PICK e \in Deques : e = active[w]
  BY InHand
<1>4. /\ Pending(d) /\ ~resumable[d] /\ d \notin free
      /\ self[d] # ACTIVE /\ (worker[d] = NULL \/ self[d] >= 0)
      /\ \A v \in Workers : pc[v] \in Left /\ arg[v] = d => v = w
  BY <1>1, <1>2 DEF IInv, LeftInv
<1>5. d # e /\ self[e] = ACTIVE /\ ~Held(e) /\ fiber[e] = "resumable"
  BY <1>1, <1>2, <1>3, LeftIsNotActive DEF IInv, ActiveInv, Leave
<1>6. PICK l \in {"run", "sched"} : pc' = [pc EXCEPT ![w] = l]
  BY DEF Leave, Goto, IInv, TypeInv
<1>7. /\ fiber' = [fiber EXCEPT ![e] = NULL, ![d] = "resumable"]
      /\ arg' = [arg EXCEPT ![w] = NULL]
      /\ UNCHANGED <<active, work, worker, self, resumable, frame, suspended, resumables,
                     lock, waiting, free, vic, after>>
  BY <1>2, <1>3 DEF Leave, pools
<1>8. TypeInv'
  BY <1>1, <1>6, <1>7 DEF IInv, TypeInv, Labels
<1>9. /\ pc'[w] = l /\ \A b \in Actors \ {w} : pc'[b] = pc[b]
      /\ arg'[w] = NULL /\ \A b \in Actors \ {w} : arg'[b] = arg[b]
      /\ fiber'[e] = NULL /\ fiber'[d] = "resumable"
      /\ \A x \in Deques \ {d, e} : fiber'[x] = fiber[x]
      /\ UNCHANGED <<active, worker, self, resumable, waiting, free, vic>>
  BY <1>1, <1>5, <1>6, <1>7 DEF IInv, TypeInv
<1>10. PoolInv'
  BY <1>7, SamePools DEF IInv, pools
<1>11. \A v \in Workers : v \in Actors /\ active[v] \in Deques \ {d} /\ (v # w => active[v] # e)
  BY <1>1, <1>2, <1>3, InHand, ActiveOnce, LeftIsNotActive
<1>12. /\ l \notin Holding /\ l \notin Waking /\ l \notin Leaving /\ l \notin Left
       /\ pc[w] \notin Waking
  BY <1>1 DEF Holding, Waking, Leaving, Left
<1>13. /\ \A x \in Deques : Pending(x)' <=> Pending(x)
       /\ \A x \in Deques : Held(x)' <=> Held(x)
       /\ \A x \in Deques : Kept(x)' <=> Kept(x)
  <2>1. \A x \in Deques : Pending(x)' <=> Pending(x)
    BY <1>9, <1>12 DEF Pending
  <2>2. \A x \in Deques : Held(x)' <=> Held(x)
    BY <1>1, <1>9, <1>12 DEF Held
  <2>3. \A x \in Deques : Kept(x)' <=> Kept(x)
    BY <1>1, <1>9, <1>11, <1>12 DEF Kept
  <2>4. QED
    BY <2>1, <2>2, <2>3
<1>14. LabelInv'
  BY <1>9 DEF IInv, LabelInv, Empty
<1>15. ActiveInv'
  BY <1>1, <1>3, <1>9, <1>11, <1>12, <1>13 DEF IInv, ActiveInv
<1>16. LeftInv'
  <2>1. \A u \in Workers : pc'[u] \in Left =>
           /\ u # w /\ pc[u] \in Left /\ pc[u] = pc'[u]
           /\ arg'[u] = arg[u] /\ arg[u] \in Deques \ {d, e}
    <3>1. \A u \in Workers : pc'[u] \in Left => u # w /\ pc[u] = pc'[u] /\ arg'[u] = arg[u]
      BY <1>9, <1>11, <1>12
    <3>2. \A u \in Workers : pc[u] \in Left => arg[u] \in Deques /\ arg[u] # e
      BY <1>3, InHand, LeftIsNotActive
    <3>3. QED
      BY <1>4, <3>1, <3>2
  <2>2. QED
    BY <1>9, <1>13, <2>1 DEF IInv, LeftInv
<1>17. HeldInv'
  <2>1. \A b \in Actors : pc'[b] \in Holding =>
           /\ b # w /\ pc[b] = pc'[b] /\ pc[b] \in Holding
           /\ arg'[b] = arg[b] /\ arg[b] \in Deques \ {e}
    BY <1>5, <1>9, <1>12, InHand DEF Held
  <2>2. QED
    BY <1>9, <2>1 DEF IInv, HeldInv
<1>18. DequeInv'
  <2>1. ~(ACTIVE >= 0)
    BY DEF ACTIVE
  <2>2. QED
    BY <1>4, <1>5, <1>9, <1>13, <2>1 DEF IInv, DequeInv
<1>19. QED
  BY <1>8, <1>10, <1>14, <1>15, <1>16, <1>17, <1>18 DEF IInv

LEMMA Step == IInv /\ [Next]_vars => IInv'
<1> SUFFICES ASSUME IInv, [Next]_vars PROVE IInv'
  OBVIOUS
<1>1. CASE UNCHANGED vars
  BY <1>1, SameStep DEF vars, IInv, TypeInv
<1>2. ASSUME NEW w \in Workers,
             \/ Spawn(w) \/ Return(w)
             \/ Suspend(w) \/ MugOwn(w) \/ Switch(w) \/ Park(w) \/ Leave(w)
             \/ ReadOwner(w, "rs_wait", "rs_lock", "rs_frame")
             \/ ResumeLocked(w) \/ ResumeFrame(w) \/ ResumeOwn(w)
             \/ ChooseResumable(w) \/ Jump(w) \/ MugFrame(w) \/ MugDone(w)
      PROVE  IInv'
  <2>1. w \in Actors
    BY DEF Actors
  <2>2. QED
    BY <1>2, <2>1, SpawnStep, ReturnStep, SuspendStep, MugOwnStep, SwitchStep, ParkStep,
       LeaveStep, ReadOwnerStep, ResumeLockedStep, ResumeFrameStep, ResumeOwnStep,
       ChooseResumableStep, JumpStep, MugFrameStep, MugDoneStep
<1>3. ASSUME NEW w \in Workers, NEW v \in Workers, TryLock(w, v) PROVE IInv'
  BY <1>3, TryLockStep
<1>4. ASSUME NEW w \in Workers, NEW d \in Deques,
             ResumeSuspended(w, d) \/ Steal(w, d) \/ FailToSteal(w, d)
      PROVE  IInv'
  BY <1>4, ResumeSuspendedStep, StealStep, FailToStealStep
<1>5. ASSUME NEW a \in Actors,
             \/ ReadOwner(a, "mr_wait", "mr_lock", "mr_mark")
             \/ MakeResumableLocked(a) \/ MakeResumableFree(a) \/ MakeResumableAdd(a)
             \/ \E d \in Deques : MakeResumable(a, d)
      PROVE  IInv'
  BY <1>5, ReadOwnerStep, MakeResumableLockedStep, MakeResumableFreeStep,
     MakeResumableAddStep, MakeResumableStep
<1>6. QED
  BY <1>1, <1>2, <1>3, <1>4, <1>5 DEF Next

-----------------------------------------------------------------------------
(* What follows *)

\* A deque is in the pools of a worker exactly when its index says so.
LEMMA InPools ==
    ASSUME IInv, NEW d \in Deques, NEW w \in Workers
    PROVE  /\ d \in Range(suspended[w]) => self[d] >= 0 /\ ~resumable[d] /\ worker[d] = w
           /\ d \in Range(resumables[w]) <=> self[d] >= 0 /\ resumable[d] /\ worker[d] = w
<1>1. suspended[w] \in Seq(Deques) /\ resumables[w] \in Seq(Deques)
  BY DEF IInv, TypeInv
<1>2. DOMAIN suspended[w] = 1..Len(suspended[w]) /\ DOMAIN resumables[w] = 1..Len(resumables[w])
      /\ Len(suspended[w]) \in Nat /\ Len(resumables[w]) \in Nat
  BY <1>1
<1>3. d \in Range(suspended[w]) => self[d] >= 0 /\ ~resumable[d] /\ worker[d] = w
  <2> SUFFICES ASSUME d \in Range(suspended[w])
               PROVE  self[d] >= 0 /\ ~resumable[d] /\ worker[d] = w
    OBVIOUS
  <2>1. PICK i \in 1..Len(suspended[w]) : d = suspended[w][i]
    BY <1>2 DEF Range
  <2>2. worker[d] = w /\ self[d] = i - 1 /\ d \in Unmarked
    BY <2>1 DEF IInv, PoolInv, Indexed
  <2>3. QED
    BY <1>2, <2>2 DEF Unmarked, Marked
<1>4. d \in Range(resumables[w]) => self[d] >= 0 /\ resumable[d] /\ worker[d] = w
  <2> SUFFICES ASSUME d \in Range(resumables[w])
               PROVE  self[d] >= 0 /\ resumable[d] /\ worker[d] = w
    OBVIOUS
  <2>1. PICK i \in 1..Len(resumables[w]) : d = resumables[w][i]
    BY <1>2 DEF Range
  <2>2. worker[d] = w /\ self[d] = i - 1 /\ d \in Marked
    BY <2>1 DEF IInv, PoolInv, Indexed
  <2>3. QED
    BY <1>2, <2>2 DEF Marked
<1>5. self[d] >= 0 /\ resumable[d] /\ worker[d] = w => d \in Range(resumables[w])
  <2> SUFFICES ASSUME self[d] >= 0, resumable[d], worker[d] = w
               PROVE  d \in Range(resumables[w])
    OBVIOUS
  <2>1. d \in Marked /\ self[d] \in Int
    BY DEF Marked, IInv, TypeInv
  <2>2. self[d] < Len(resumables[w]) /\ resumables[w][self[d] + 1] = d
    BY <2>1 DEF IInv, PoolInv, Indexed
  <2>3. self[d] + 1 \in DOMAIN resumables[w]
    BY <1>2, <2>1, <2>2
  <2>4. QED
    BY <2>2, <2>3 DEF Range
<1>6. QED
  BY <1>3, <1>4, <1>5

LEMMA PoolsFollow == IInv => PoolsConsistent
<1> SUFFICES ASSUME IInv PROVE PoolsConsistent
  OBVIOUS
<1>1. ASSUME NEW w \in Workers
      PROVE  /\ \A i \in DOMAIN suspended[w] : LET d == suspended[w][i]
                                               IN  worker[d] = w /\ self[d] = i - 1 /\ ~resumable[d]
             /\ \A i \in DOMAIN resumables[w] : LET d == resumables[w][i]
                                               IN  worker[d] = w /\ self[d] = i - 1 /\ resumable[d]
  <2>1. suspended[w] \in Seq(Deques) /\ resumables[w] \in Seq(Deques)
    BY DEF IInv, TypeInv
  <2>2. DOMAIN suspended[w] = 1..Len(suspended[w]) /\ DOMAIN resumables[w] = 1..Len(resumables[w])
    BY <2>1
  <2>3. QED
    BY <2>2 DEF IInv, PoolInv, Indexed, Marked, Unmarked
<1>2. ASSUME NEW d \in free
      PROVE  ~Pooled(d) /\ d \notin waiting /\ \A w \in Workers : active[w] # d
  <2>1. d \in Deques /\ ~(self[d] >= 0) /\ d \notin waiting
    BY DEF IInv, TypeInv, DequeInv, INVALID
  <2>2. ~Pooled(d)
    BY <2>1, InPools DEF Pooled
  <2>3. \A w \in Workers : active[w] # d
    BY DEF IInv, ActiveInv
  <2>4. QED
    BY <2>1, <2>2, <2>3
<1>3. QED
  BY <1>1, <1>2 DEF PoolsConsistent

LEMMA FibersFollow == IInv => OneWorkerPerFiber
<1> SUFFICES ASSUME IInv, NEW v \in Workers, NEW w \in Workers,
                    pc[v] \in {"park", "leave"}, active[w] = arg[v]
             PROVE  v = w
  BY DEF OneWorkerPerFiber
<1>1. QED
  BY LeftIsNotActive DEF Left

\* A set with at most one element.
LEMMA CountOne ==
    ASSUME NEW S, \A x, y \in S : x = y
    PROVE  Cardinality(S) = IF S = {} THEN 0 ELSE 1
<1>1. CASE S = {}
  BY <1>1, FS_EmptySet
<1>2. CASE S # {}
  <2>1. PICK x \in S : TRUE
    BY <1>2
  <2>2. S = {x}
    BY <2>1
  <2>3. QED
    BY <2>2, <1>2, FS_Singleton
<1>3. QED
  BY <1>1, <1>2

LEMMA DequesFollow == IInv => NoDequeLost
<1> USE ActorsAssumption
<1> SUFFICES ASSUME IInv, NEW d \in Deques \ free
             PROVE  LET keeping == {w \in Workers : /\ active[w] = d
                                                    /\ pc[w] \notin {"mugOwn", "switch"}}
                        holding == {a \in Actors : /\ arg[a] = d
                                                   /\ pc[a] \notin {"park", "leave",
                                                                    "mug_frame", "mug_done"}}
                        finding == {w \in Workers : d \in Range(resumables[w])}
                    IN  Cardinality(keeping) + Cardinality(holding) + Cardinality(finding)
                        + Cardinality(waiting \cap {d}) = 1
  BY DEF NoDequeLost
<1> DEFINE keeping == {w \in Workers : active[w] = d /\ pc[w] \notin {"mugOwn", "switch"}}
           holding == {a \in Actors : arg[a] = d /\ pc[a] \notin {"park", "leave",
                                                                  "mug_frame", "mug_done"}}
           finding == {w \in Workers : d \in Range(resumables[w])}
           queued == waiting \cap {d}
<1>1. \A v, w \in keeping : v = w
  BY ActiveOnce
<1>2. keeping # {} <=> Kept(d)
  BY DEF Kept, Leaving
<1>3. \A a \in Actors : a \in holding <=> pc[a] \in Holding /\ arg[a] = d
  BY DEF IInv, TypeInv, LabelInv, Labels, Empty, Holding
<1>4. \A a, b \in holding : a = b
  BY <1>3 DEF IInv, HeldInv
<1>5. holding # {} <=> Held(d)
  BY <1>3 DEF Held
<1>6. \A w \in Workers : w \in finding <=> self[d] >= 0 /\ resumable[d] /\ worker[d] = w
  BY InPools
<1>7. \A v, w \in finding : v = w
  BY <1>6
<1>8. finding # {} <=> self[d] >= 0 /\ resumable[d]
  BY <1>6, PooledHasWorker
<1>9. queued # {} <=> d \in waiting
  OBVIOUS
<1>10. /\ Cardinality(keeping) = IF keeping = {} THEN 0 ELSE 1
       /\ Cardinality(holding) = IF holding = {} THEN 0 ELSE 1
       /\ Cardinality(finding) = IF finding = {} THEN 0 ELSE 1
       /\ Cardinality(queued) = IF queued = {} THEN 0 ELSE 1
  <2>1. \A x, y \in queued : x = y
    OBVIOUS
  <2> HIDE DEF keeping, holding, finding, queued
  <2>2. QED
    BY <1>1, <1>4, <1>7, <2>1, CountOne
<1>11. /\ d \in waiting \/ Kept(d) \/ Held(d) \/ (self[d] >= 0 /\ resumable[d])
       /\ d \in waiting => ~Kept(d) /\ ~Held(d) /\ ~(self[d] >= 0 /\ resumable[d])
       /\ Kept(d) => ~Held(d) /\ ~(self[d] >= 0 /\ resumable[d])
       /\ Held(d) => ~(self[d] >= 0 /\ resumable[d])
  <2>1. d \in waiting \/ Kept(d) \/ Held(d) \/ (self[d] >= 0 /\ resumable[d])
    BY DEF IInv, DequeInv
  <2>2. Kept(d) => d \notin waiting /\ ~Held(d) /\ ~(self[d] >= 0)
    BY DEF Kept, IInv, ActiveInv, ACTIVE
  <2>3. Held(d) => d \notin waiting
    BY DEF Held, IInv, HeldInv
  <2>4. self[d] >= 0 /\ resumable[d] => d \notin waiting /\ ~Held(d)
    BY DEF IInv, DequeInv
  <2>5. QED
    BY <2>1, <2>2, <2>3, <2>4
<1> HIDE DEF keeping, holding, finding, queued
<1>12. Cardinality(keeping) + Cardinality(holding) + Cardinality(finding) + Cardinality(queued) = 1
  BY <1>2, <1>5, <1>8, <1>9, <1>10, <1>11
<1>13. QED
  BY <1>12 DEF keeping, holding, finding, queued

\* No pool holds more deques than there are.
LEMMA PoolBounded ==
    ASSUME NEW P \in [Workers -> Seq(Deques)], NEW wk, NEW sf, NEW X,
           Indexed(P, wk, sf, X), NEW w \in Workers
    PROVE  Len(P[w]) <= Cardinality(Deques)
<1>1. PICK s \in Seq(Deques) : s = P[w]
  OBVIOUS
<1>2. PICK n \in Nat : n = Len(s)
  OBVIOUS
<1>3. s \in [1..n -> Deques]
  BY <1>2
<1>4. \A i, j \in 1..n : s[i] = s[j] => i = j
  <2> SUFFICES ASSUME NEW i \in 1..n, NEW j \in 1..n, s[i] = s[j] PROVE i = j
    OBVIOUS
  <2>1. sf[s[i]] = i - 1 /\ sf[s[j]] = j - 1
    BY <1>1, <1>2 DEF Indexed
  <2>2. QED
    BY <2>1
<1>5. s \in Injection(1..n, Deques)
  BY <1>3, <1>4 DEF Injection, IsInjective
<1>6. Cardinality(1..n) <= Cardinality(Deques)
  BY <1>5, DequesAssumption, FS_Injection
<1>7. Cardinality(1..n) = n
  BY FS_Interval
<1>8. QED
  BY <1>1, <1>2, <1>6, <1>7

LEMMA TypesFollow == IInv => TypeOK
<1> SUFFICES ASSUME IInv PROVE TypeOK
  OBVIOUS
<1>1. Cardinality(Deques) \in Nat
  BY DequesAssumption, FS_CardinalityType
<1>2. ASSUME NEW d \in Deques PROVE self[d] \in INVALID..Cardinality(Deques)
  <2>1. self[d] \in Int /\ self[d] >= INVALID
    BY DEF IInv, TypeInv, DequeInv
  <2>2. CASE self[d] >= 0
    <3>1. PICK P \in {suspended, resumables}, X \in {Marked, Unmarked} :
             Indexed(P, worker, self, X) /\ d \in X
      BY DEF IInv, PoolInv, Unmarked
    <3>2. P \in [Workers -> Seq(Deques)]
      BY <3>1 DEF IInv, TypeInv
    <3>3. PICK w \in Workers : self[d] < Len(P[w])
      BY <2>2, <3>1 DEF Indexed
    <3>4. Len(P[w]) \in Nat /\ Len(P[w]) <= Cardinality(Deques)
      BY <3>1, <3>2, PoolBounded
    <3>5. QED
      BY <1>1, <2>1, <3>3, <3>4 DEF INVALID
  <2>3. CASE ~(self[d] >= 0)
    BY <1>1, <2>1, <2>3 DEF INVALID
  <2>4. QED
    BY <2>2, <2>3
<1>3. self \in [Deques -> INVALID..Cardinality(Deques)]
  BY <1>2 DEF IInv, TypeInv
<1>4. QED
  BY <1>3 DEF IInv, TypeInv, TypeOK

-----------------------------------------------------------------------------
\* The invariant that the pools, the fields of the deques and the hands of the
\* actors satisfy together is one of the specification.
THEOREM Invariance == Spec => []IInv
  BY InitStep, Step, PTL DEF Spec

\* Every variable keeps its type; in particular no index, hence no pool, exceeds
\* the number of deques.
THEOREM TypeCorrect == Spec => []TypeOK
  BY Invariance, TypesFollow, PTL

\* deque_pool_remove moves the last deque into the hole and deque_pool_add
\* appends, under the lock of the pool's worker only; still every pooled deque
\* has the right worker, index and mark, and a destroyed deque is in no pool, in
\* no future and nobody's active deque.
THEOREM PoolsConsistentTheorem == Spec => []PoolsConsistent
  BY Invariance, PoolsFollow, PTL

\* However suspensions, wake-ups with and without a lock, thefts and muggings
\* interleave, every allocated deque is in exactly one of the four places.
THEOREM NoDequeLostTheorem == Spec => []NoDequeLost
  BY Invariance, DequesFollow, PTL

\* Nobody goes on with a deque before the worker that gave it up is off its
\* fiber.
THEOREM OneWorkerPerFiberTheorem == Spec => []OneWorkerPerFiber
  BY Invariance, FibersFollow, PTL

=============================================================================
