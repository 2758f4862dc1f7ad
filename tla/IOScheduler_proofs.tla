------------------------- MODULE IOScheduler_proofs -------------------------
(***************************************************************************)
(* The I/O thread of a worker for any number of operations, descriptors    *)
(* and bytes: a future gets what the kernel moved, before the thread       *)
(* sleeps epoll watches every descriptor on which an operation waits, and  *)
(* the operations of a stream finish in the order of their submission.     *)
(***************************************************************************)
EXTENDS IOScheduler, TLAPS

\* The types of all variables.
TypeInv ==
    /\ queue \in Seq(Ops) /\ wakeup \in BOOLEAN
    /\ ready \in [Fds -> [Dirs -> BOOLEAN]] /\ interest \in [Fds -> Dirs \cup {NULL}]
    /\ pending \subseteq Fds \X Dirs /\ triggered \subseteq Fds \X Dirs
    /\ pc \in {"wait", "events", "perform", "pop", "add", "forget"}
    /\ cur \in Ops \cup {NULL} /\ check_queue \in BOOLEAN
    /\ blocked \in [Dirs -> SUBSET Fds] /\ unblocked \in [Dirs -> SUBSET Fds]
    /\ blocked_ops \in [Fds -> [Dirs -> Seq(Ops)]]
    /\ nbyte \in [Ops -> Int] /\ buf \in [Ops -> Int] /\ res \in [Ops -> Int]
    /\ val \in [Ops -> Int \cup {NULL}] /\ moved \in [Ops -> Int]
    /\ submitted \in Seq(Ops) /\ finished \in Seq(Ops) /\ crossed \subseteq Fds \X Dirs

Distinct(s) == \A i, j \in 1..Len(s) : s[i] = s[j] => i = j

Parked(o) == Contains(blocked_ops[FdOf[o]][DirOf[o]], o)

\* An operation that was submitted and not finished is in one place.
PlaceInv ==
    /\ Distinct(queue)
    /\ \A fd \in Fds, dir \in Dirs :
          /\ Distinct(blocked_ops[fd][dir])
          /\ \A o \in Ops : Contains(blocked_ops[fd][dir], o) => FdOf[o] = fd /\ DirOf[o] = dir
    /\ \A o \in Ops :
          /\ Contains(queue, o) => ~Parked(o) /\ val[o] = NULL /\ Contains(submitted, o)
          /\ Parked(o) => val[o] = NULL /\ Contains(submitted, o)
          /\ ~Contains(submitted, o) => val[o] = NULL

\* What the I/O thread has in hand.
HandInv ==
    /\ pc \notin {"events", "perform"} => triggered = {}
    /\ pc \in {"perform", "add"} => cur \in Ops
    /\ pc = "perform" => val[cur] = NULL /\ Contains(submitted, cur) /\ ~Contains(queue, cur)
    /\ pc = "perform" /\ triggered = {} => FdOf[cur] \notin blocked[DirOf[cur]]
    /\ pc = "perform" /\ triggered # {} =>
          /\ <<FdOf[cur], DirOf[cur]>> \in triggered
          /\ blocked_ops[FdOf[cur]][DirOf[cur]] # << >>
          /\ cur = Head(blocked_ops[FdOf[cur]][DirOf[cur]])
    /\ pc = "add" => Parked(cur)

\* A descriptor counts as blocked exactly while operations are parked on it, and
\* is then not about to be removed from epoll.
BlockedInv ==
    \A fd \in Fds, dir \in Dirs :
    /\ fd \in blocked[dir] <=> blocked_ops[fd][dir] # << >>
    /\ fd \in blocked[dir] => fd \notin unblocked[dir]

\* The I/O thread is about to add fd to epoll.
Registering(fd, dir) == pc = "add" /\ FdOf[cur] = fd /\ DirOf[cur] = dir

\* No operation parked here has crossed the other direction's registration.
Straight(fd, dir) == fd \in blocked[dir] /\ <<fd, dir>> \notin crossed

\* At every moment, not only before it sleeps: a blocked descriptor is watched or
\* about to be; an edge since the call that would have blocked is in epoll's
\* ready list, in the I/O thread's hands, or still to be found by EPOLL_CTL_ADD;
\* and nothing of the other direction is about to take its registration away.
WatchInv ==
    \A fd \in Fds, dir \in Dirs : Straight(fd, dir) =>
    /\ interest[fd] = dir \/ Registering(fd, dir)
    /\ ready[fd][dir] => \/ <<fd, dir>> \in pending \cup triggered
                         \/ Registering(fd, dir) /\ interest[fd] # dir
    /\ \A e \in Dirs \ {dir} : /\ <<fd, e>> \notin triggered
                               /\ Registering(fd, dir) \/ fd \notin unblocked[e]

\* epoll's ready list holds what it watches.
PendingInv ==
    \A fd \in Fds, dir \in Dirs : <<fd, dir>> \in pending => interest[fd] = dir

\* The loop variables agree with what the kernel moved.
FieldsInv ==
    \A o \in Ops :
    /\ moved[o] \in 0..SizeOf[o] /\ val[o] \in {NULL, -1, moved[o]}
    /\ buf[o] = moved[o] /\ nbyte[o] = SizeOf[o] - moved[o]
    /\ res[o] \in {-1, moved[o]} /\ (val[o] = NULL => res[o] = moved[o])

Core == TypeInv /\ PlaceInv /\ HandInv /\ BlockedInv /\ FieldsInv

-----------------------------------------------------------------------------
(* Sequences *)

LEMMA TailIs ==
    ASSUME NEW s \in Seq(Ops), s # << >>, Distinct(s)
    PROVE  /\ Tail(s) \in Seq(Ops) /\ Head(s) \in Ops /\ Distinct(Tail(s))
           /\ Contains(s, Head(s))
           /\ \A x : Contains(Tail(s), x) <=> Contains(s, x) /\ x # Head(s)
<1>1. Len(s) \in Nat /\ Len(s) >= 1
  OBVIOUS
<1>2. /\ Tail(s) \in Seq(Ops) /\ Len(Tail(s)) = Len(s) - 1 /\ Head(s) = s[1] /\ Head(s) \in Ops
      /\ \A i \in 1..(Len(s) - 1) : Tail(s)[i] = s[i + 1]
  OBVIOUS
<1>3. Distinct(Tail(s))
  BY <1>1, <1>2 DEF Distinct
<1>4. Contains(s, Head(s))
  BY <1>1, <1>2 DEF Contains
<1>5. ASSUME NEW x, Contains(Tail(s), x) PROVE Contains(s, x) /\ x # Head(s)
  <2>1. PICK i \in 1..(Len(s) - 1) : s[i + 1] = x
    BY <1>2, <1>5 DEF Contains
  <2>2. i + 1 \in 1..Len(s) /\ i + 1 # 1 /\ 1 \in 1..Len(s)
    BY <1>1
  <2>3. QED
    BY <2>1, <2>2, <1>2 DEF Contains, Distinct
<1>6. ASSUME NEW x, Contains(s, x), x # Head(s) PROVE Contains(Tail(s), x)
  <2>1. PICK i \in 1..Len(s) : s[i] = x
    BY <1>6 DEF Contains
  <2>2. i # 1
    BY <2>1, <1>2, <1>6
  <2>3. i - 1 \in 1..(Len(s) - 1) /\ (i - 1) + 1 = i
    BY <2>2, <1>1
  <2>4. Tail(s)[i - 1] = x
    BY <2>1, <2>3, <1>2
  <2>5. QED
    BY <2>3, <2>4, <1>2 DEF Contains
<1>7. QED
  BY <1>2, <1>3, <1>4, <1>5, <1>6

LEMMA AppendIs ==
    ASSUME NEW s \in Seq(Ops), NEW x \in Ops
    PROVE  /\ Append(s, x) \in Seq(Ops) /\ Append(s, x) # << >>
           /\ \A y : Contains(Append(s, x), y) <=> Contains(s, y) \/ y = x
           /\ Distinct(s) /\ ~Contains(s, x) => Distinct(Append(s, x))
<1> DEFINE t == Append(s, x)
<1>1. Len(s) \in Nat
  OBVIOUS
<1>2. /\ t \in Seq(Ops) /\ t # << >> /\ Len(t) = Len(s) + 1 /\ t[Len(s) + 1] = x
      /\ \A i \in 1..Len(s) : t[i] = s[i]
  OBVIOUS
<1> HIDE DEF t
<1>3. ASSUME NEW y, Contains(t, y) PROVE Contains(s, y) \/ y = x
  <2>1. PICK i \in 1..(Len(s) + 1) : t[i] = y
    BY <1>2, <1>3 DEF Contains
  <2>2. i \in 1..Len(s) \/ i = Len(s) + 1
    BY <1>1
  <2>3. QED
    BY <2>1, <2>2, <1>2 DEF Contains
<1>4. ASSUME NEW y, Contains(s, y) \/ y = x PROVE Contains(t, y)
  <2>1. 1..Len(s) \subseteq 1..Len(t) /\ Len(s) + 1 \in 1..Len(t)
    BY <1>1, <1>2
  <2>2. QED
    BY <2>1, <1>2, <1>4 DEF Contains
<1>5. ASSUME Distinct(s), ~Contains(s, x) PROVE Distinct(t)
  <2> SUFFICES ASSUME NEW i \in 1..(Len(s) + 1), NEW j \in 1..(Len(s) + 1), t[i] = t[j]
               PROVE  i = j
    BY <1>2 DEF Distinct
  <2>1. (i \in 1..Len(s) \/ i = Len(s) + 1) /\ (j \in 1..Len(s) \/ j = Len(s) + 1)
    BY <1>1
  <2>2. \A k \in 1..Len(s) : t[k] # x
    BY <1>2, <1>5 DEF Contains
  <2>3. QED
    BY <2>1, <2>2, <1>2, <1>5 DEF Distinct
<1>6. QED
  BY <1>2, <1>3, <1>4, <1>5 DEF t

\* An update of the operations parked on one descriptor in one direction.
Updated(B, C, fd, dir, x) ==
    /\ B \in [Fds -> [Dirs -> Seq(Ops)]] /\ fd \in Fds /\ dir \in Dirs /\ x \in Seq(Ops)
    /\ C = [B EXCEPT ![fd][dir] = x]

LEMMA At ==
    ASSUME NEW B, NEW C, NEW fd, NEW dir, NEW x, Updated(B, C, fd, dir, x)
    PROVE  /\ C \in [Fds -> [Dirs -> Seq(Ops)]] /\ C[fd][dir] = x
           /\ \A f \in Fds, e \in Dirs : f # fd \/ e # dir => C[f][e] = B[f][e]
  BY DEF Updated

-----------------------------------------------------------------------------
LEMMA InitCore == Init => Core
<1> SUFFICES ASSUME Init PROVE Core
  OBVIOUS
<1> USE OpsAssumption, NullAssumption
<1>1. TypeInv
  <2>1. ready \in [Fds -> [Dirs -> BOOLEAN]] /\ blocked_ops \in [Fds -> [Dirs -> Seq(Ops)]]
    BY DEF Init
  <2>2. nbyte \in [Ops -> Int] /\ val \in [Ops -> Int \cup {NULL}]
    BY DEF Init
  <2>3. QED
    BY <2>1, <2>2 DEF Init, TypeInv
<1>2. /\ Len(queue) = 0 /\ \A fd \in Fds, dir \in Dirs : Len(blocked_ops[fd][dir]) = 0
  BY DEF Init
<1>3. PlaceInv
  <2>1. \A s, o : Len(s) = 0 => ~Contains(s, o) /\ Distinct(s)
    BY DEF Contains, Distinct
  <2>2. QED
    BY <1>2, <2>1 DEF PlaceInv, Parked, Init
<1>4. HandInv
  BY DEF Init, HandInv
<1>5. BlockedInv
  BY <1>2 DEF Init, BlockedInv
<1>6. FieldsInv
  BY DEF Init, FieldsInv
<1>7. QED
  BY <1>1, <1>3, <1>4, <1>5, <1>6 DEF Core

-----------------------------------------------------------------------------
(* Every step keeps the core of the invariant *)

\* Steps that leave the operations where they are.
LEMMA StayStep ==
    ASSUME Core, TypeInv', UNCHANGED <<queue, blocked_ops, nbyte, buf, res, val, moved, submitted>>,
           HandInv', BlockedInv'
    PROVE  Core'
<1>1. PlaceInv'
  BY DEF Core, PlaceInv, Parked
<1>2. FieldsInv'
  BY DEF Core, FieldsInv
<1>3. QED
  BY <1>1, <1>2 DEF Core

LEMMA SubmitStep == ASSUME Core, NEW o \in Ops, Submit(o) PROVE Core'
<1> USE OpsAssumption
<1>1. /\ ~Contains(submitted, o) /\ queue' = Append(queue, o) /\ wakeup' = TRUE
      /\ submitted' = Append(submitted, o)
      /\ UNCHANGED <<ready, interest, pending, pc, triggered, cur, check_queue, blocked,
                     unblocked, blocked_ops, nbyte, buf, res, val, moved, finished, crossed>>
  BY DEF Submit, kernel, local, fields
<1>2. queue \in Seq(Ops) /\ submitted \in Seq(Ops)
  BY DEF Core, TypeInv
<1>3. /\ queue' \in Seq(Ops) /\ submitted' \in Seq(Ops)
      /\ \A y : Contains(queue', y) <=> Contains(queue, y) \/ y = o
      /\ \A y : Contains(submitted', y) <=> Contains(submitted, y) \/ y = o
      /\ Distinct(queue) /\ ~Contains(queue, o) => Distinct(queue')
  BY <1>1, <1>2, AppendIs
<1>4. TypeInv'
  BY <1>1, <1>3 DEF Core, TypeInv
<1>5. val[o] = NULL /\ ~Contains(queue, o) /\ ~Parked(o)
  BY <1>1 DEF Core, PlaceInv
<1>6. PlaceInv'
  BY <1>1, <1>3, <1>5 DEF Core, PlaceInv, Parked
<1>7. HandInv'
  BY <1>1, <1>3 DEF Core, HandInv, Parked
<1>8. BlockedInv' /\ FieldsInv'
  BY <1>1 DEF Core, BlockedInv, FieldsInv
<1>9. QED
  BY <1>4, <1>6, <1>7, <1>8 DEF Core

LEMMA ArriveStep ==
    ASSUME Core, NEW fd \in Fds, NEW dir \in Dirs, Arrive(fd, dir) PROVE Core'
<1>1. /\ ready' = [ready EXCEPT ![fd][dir] = TRUE]
      /\ pending' = IF interest[fd] = dir THEN pending \cup {<<fd, dir>>} ELSE pending
      /\ UNCHANGED <<queue, wakeup, interest, pc, triggered, cur, check_queue, blocked,
                     unblocked, blocked_ops, nbyte, buf, res, val, moved, submitted, finished,
                     crossed>>
  BY DEF Arrive, local, fields, history
<1>2. ready' \in [Fds -> [Dirs -> BOOLEAN]]
  BY <1>1 DEF Core, TypeInv
<1>3. pending' \subseteq Fds \X Dirs
  BY <1>1 DEF Core, TypeInv
<1>4. TypeInv'
  BY <1>1, <1>2, <1>3 DEF Core, TypeInv
<1>5. HandInv' /\ BlockedInv'
  BY <1>1 DEF Core, HandInv, BlockedInv, Parked
<1>6. QED
  BY <1>1, <1>4, <1>5, StayStep

LEMMA ReopenStep == ASSUME Core, NEW fd \in Fds, Reopen(fd) PROVE Core'
<1>1. /\ ready' = [ready EXCEPT ![fd] = [dir \in Dirs |-> FALSE]]
      /\ interest' = [interest EXCEPT ![fd] = NULL]
      /\ pending' = {e \in pending : e[1] # fd}
      /\ UNCHANGED <<queue, wakeup, pc, triggered, cur, check_queue, blocked,
                     unblocked, blocked_ops, nbyte, buf, res, val, moved, submitted, finished,
                     crossed>>
  BY DEF Reopen, local, fields, history
<1>2. ready' \in [Fds -> [Dirs -> BOOLEAN]]
  BY <1>1 DEF Core, TypeInv
<1>3. TypeInv'
  BY <1>1, <1>2 DEF Core, TypeInv
<1>4. HandInv' /\ BlockedInv'
  BY <1>1 DEF Core, HandInv, BlockedInv, Parked
<1>5. QED
  BY <1>1, <1>3, <1>4, StayStep

LEMMA EpollWaitStep == ASSUME Core, EpollWait PROVE Core'
<1>1. /\ triggered' = Deliverable /\ pending' = {} /\ pc' = "events"
      /\ check_queue' = (check_queue \/ wakeup) /\ wakeup' = FALSE
      /\ UNCHANGED <<queue, ready, interest, cur, blocked, unblocked, blocked_ops,
                     nbyte, buf, res, val, moved, submitted, finished, crossed>>
  BY DEF EpollWait, fields, history
<1>2. TypeInv'
  <2>1. triggered' \subseteq Fds \X Dirs
    BY <1>1 DEF Core, TypeInv, Deliverable
  <2>2. QED
    BY <1>1, <2>1 DEF Core, TypeInv
<1>3. HandInv' /\ BlockedInv'
  BY <1>1 DEF Core, HandInv, BlockedInv
<1>4. QED
  BY <1>1, <1>2, <1>3, StayStep

LEMMA HandleEventStep ==
    ASSUME Core, NEW fd \in Fds, NEW dir \in Dirs, HandleEvent(fd, dir) PROVE Core'
<1> USE OpsAssumption
<1>1. /\ pc = "events" /\ <<fd, dir>> \in triggered
      /\ UNCHANGED <<queue, wakeup, ready, interest, pending, check_queue, blocked_ops,
                     nbyte, buf, res, val, moved, submitted, finished, crossed>>
  BY DEF HandleEvent, kernel, fields, history
<1>2. PICK s \in Seq(Ops) : s = blocked_ops[fd][dir]
  BY DEF Core, TypeInv
<1>3. CASE s # << >>
  <2>1. cur' = Head(s) /\ pc' = "perform" /\ UNCHANGED <<triggered, blocked, unblocked>>
    BY <1>2, <1>3 DEF HandleEvent
  <2>2. Head(s) \in Ops /\ Contains(s, Head(s))
    BY <1>2, <1>3, TailIs DEF Core, PlaceInv
  <2>3. FdOf[Head(s)] = fd /\ DirOf[Head(s)] = dir /\ Parked(Head(s))
    BY <1>2, <2>2 DEF Core, PlaceInv, Parked
  <2>4. TypeInv'
    BY <1>1, <2>1, <2>2 DEF Core, TypeInv
  <2>5. val[Head(s)] = NULL /\ Contains(submitted, Head(s)) /\ ~Contains(queue, Head(s))
    BY <2>2, <2>3 DEF Core, PlaceInv
  <2>6. HandInv'
    BY <1>1, <1>2, <1>3, <2>1, <2>2, <2>3, <2>5 DEF HandInv
  <2>7. BlockedInv'
    BY <1>1, <2>1 DEF Core, BlockedInv
  <2>8. QED
    BY <1>1, <2>4, <2>6, <2>7, StayStep
<1>4. CASE s = << >>
  <2>1. /\ triggered' = triggered \ {<<fd, dir>>} /\ pc' = "events" /\ cur' = cur
        /\ blocked' = [blocked EXCEPT ![dir] = @ \ {fd}]
        /\ unblocked' = [unblocked EXCEPT ![dir] = @ \cup {fd}]
    BY <1>1, <1>2, <1>4 DEF HandleEvent
  <2>2. /\ blocked' \in [Dirs -> SUBSET Fds] /\ unblocked' \in [Dirs -> SUBSET Fds]
        /\ blocked'[dir] = blocked[dir] \ {fd} /\ unblocked'[dir] = unblocked[dir] \cup {fd}
        /\ \A e \in Dirs : e # dir => blocked'[e] = blocked[e] /\ unblocked'[e] = unblocked[e]
    BY <2>1 DEF Core, TypeInv
  <2>3. TypeInv'
    BY <1>1, <2>1, <2>2 DEF Core, TypeInv
  <2>4. HandInv'
    BY <2>1 DEF HandInv
  <2>5. BlockedInv'
    <3> SUFFICES ASSUME NEW f \in Fds, NEW e \in Dirs
                 PROVE  /\ f \in blocked'[e] <=> blocked_ops[f][e] # << >>
                        /\ f \in blocked'[e] => f \notin unblocked'[e]
      BY <1>1 DEF BlockedInv
    <3>1. CASE f = fd /\ e = dir
      BY <1>2, <1>4, <2>2, <3>1
    <3>2. CASE f # fd \/ e # dir
      <4>1. /\ f \in blocked'[e] <=> f \in blocked[e]
            /\ f \in unblocked'[e] <=> f \in unblocked[e]
        BY <2>2, <3>2
      <4>2. QED
        BY <4>1 DEF Core, BlockedInv
    <3>3. QED
      BY <3>1, <3>2
  <2>6. QED
    BY <1>1, <2>3, <2>4, <2>5, StayStep
<1>5. QED
  BY <1>3, <1>4

LEMMA EventsHandledStep == ASSUME Core, EventsHandled PROVE Core'
<1>1. /\ pc = "events" /\ triggered = {} /\ pc' \in {"pop", "forget"}
      /\ UNCHANGED <<queue, wakeup, ready, interest, pending, triggered, cur, check_queue,
                     blocked, unblocked, blocked_ops, nbyte, buf, res, val, moved,
                     submitted, finished, crossed>>
  BY DEF EventsHandled, AfterEvents, kernel, local, fields, history
<1>2. TypeInv'
  BY <1>1 DEF Core, TypeInv
<1>3. HandInv' /\ BlockedInv'
  BY <1>1 DEF Core, HandInv, BlockedInv
<1>4. QED
  BY <1>1, <1>2, <1>3, StayStep

LEMMA EpollAddStep == ASSUME Core, EpollAdd PROVE Core'
<1> USE OpsAssumption
<1>1. /\ pc = "add" /\ pc' = "pop" /\ cur' = NULL
      /\ UNCHANGED <<queue, wakeup, ready, triggered, check_queue, blocked, unblocked,
                     blocked_ops, nbyte, buf, res, val, moved, submitted, finished>>
  BY DEF EpollAdd, AfterAdd, fields
<1>2. cur \in Ops
  BY <1>1 DEF Core, HandInv
<1>3. TypeInv'
  <2>1. interest' \in [Fds -> Dirs \cup {NULL}] /\ pending' \subseteq Fds \X Dirs
    <3>1. PICK fd \in Fds, dir \in Dirs : fd = FdOf[cur] /\ dir = DirOf[cur]
      BY <1>2
    <3>2. \/ UNCHANGED <<interest, pending>>
          \/ /\ interest' = [interest EXCEPT ![fd] = dir]
             /\ pending' = pending \/ pending' = pending \cup {<<fd, dir>>}
      BY <3>1 DEF EpollAdd
    <3>3. /\ interest \in [Fds -> Dirs \cup {NULL}] /\ pending \subseteq Fds \X Dirs
          /\ <<fd, dir>> \in Fds \X Dirs
      BY DEF Core, TypeInv
    <3>4. interest' \in [Fds -> Dirs \cup {NULL}]
      BY <3>2, <3>3
    <3>5. QED
      BY <3>2, <3>3, <3>4
  <2>2. crossed' \subseteq Fds \X Dirs
    <3>1. crossed \subseteq Fds \X Dirs /\ <<FdOf[cur], DirOf[cur]>> \in Fds \X Dirs
      BY <1>2 DEF Core, TypeInv
    <3>2. crossed' = crossed \/ crossed' = crossed \cup {<<FdOf[cur], DirOf[cur]>>}
      BY DEF EpollAdd, AfterAdd
    <3>3. QED
      BY <3>1, <3>2
  <2>3. QED
    BY <1>1, <2>1, <2>2 DEF Core, TypeInv
<1>4. HandInv' /\ BlockedInv'
  BY <1>1 DEF Core, HandInv, BlockedInv
<1>5. QED
  BY <1>1, <1>3, <1>4, StayStep

LEMMA ForgetStep == ASSUME Core, Forget PROVE Core'
<1> DEFINE fds == UNION {unblocked[dir] : dir \in Dirs}
<1>1. /\ pc = "forget" /\ pc' = "wait"
      /\ interest' = [fd \in Fds |-> IF fd \in fds THEN NULL ELSE interest[fd]]
      /\ pending' = {e \in pending : e[1] \notin fds}
      /\ unblocked' = [dir \in Dirs |-> {}]
      /\ UNCHANGED <<queue, wakeup, ready, triggered, cur, check_queue, blocked,
                     blocked_ops, nbyte, buf, res, val, moved, submitted, finished, crossed>>
  BY DEF Forget, fields, history
<1> HIDE DEF fds
<1>2. TypeInv'
  BY <1>1 DEF Core, TypeInv
<1>3. HandInv' /\ BlockedInv'
  BY <1>1 DEF Core, HandInv, BlockedInv
<1>4. QED
  BY <1>1, <1>2, <1>3, StayStep

\* An operation is queued behind those parked on its descriptor.
Behind(o, fd, dir) ==
    /\ o \in Ops /\ fd \in Fds /\ dir \in Dirs /\ fd = FdOf[o] /\ dir = DirOf[o] /\ ~Parked(o)
    /\ blocked_ops' = [blocked_ops EXCEPT ![fd][dir] = Append(@, o)]

LEMMA ParkOne ==
    ASSUME Core, NEW o, NEW fd, NEW dir, Behind(o, fd, dir)
    PROVE  /\ blocked_ops' \in [Fds -> [Dirs -> Seq(Ops)]] /\ blocked_ops'[fd][dir] # << >>
           /\ \A f \in Fds, e \in Dirs : f # fd \/ e # dir => blocked_ops'[f][e] = blocked_ops[f][e]
           /\ \A f \in Fds, e \in Dirs :
                 /\ Distinct(blocked_ops'[f][e])
                 /\ \A x \in Ops : Contains(blocked_ops'[f][e], x) => FdOf[x] = f /\ DirOf[x] = e
           /\ \A x \in Ops : Parked(x)' <=> Parked(x) \/ x = o
<1> USE OpsAssumption
<1>0. /\ o \in Ops /\ fd \in Fds /\ dir \in Dirs /\ fd = FdOf[o] /\ dir = DirOf[o] /\ ~Parked(o)
      /\ blocked_ops' = [blocked_ops EXCEPT ![fd][dir] = Append(@, o)]
  BY DEF Behind
<1>1. blocked_ops \in [Fds -> [Dirs -> Seq(Ops)]]
  BY DEF Core, TypeInv
<1>2. PICK s \in Seq(Ops) : s = blocked_ops[fd][dir]
  BY <1>0, <1>1
<1>3. /\ Append(s, o) \in Seq(Ops) /\ Append(s, o) # << >>
      /\ \A y : Contains(Append(s, o), y) <=> Contains(s, y) \/ y = o
      /\ Distinct(s) /\ ~Contains(s, o) => Distinct(Append(s, o))
  BY <1>0, AppendIs
<1>4. PICK t \in Seq(Ops) : t = Append(s, o)
  BY <1>3
<1>5. Updated(blocked_ops, blocked_ops', fd, dir, t)
  BY <1>0, <1>1, <1>2, <1>3, <1>4 DEF Updated
<1>6. /\ blocked_ops' \in [Fds -> [Dirs -> Seq(Ops)]] /\ blocked_ops'[fd][dir] = t
      /\ \A f \in Fds, e \in Dirs : f # fd \/ e # dir => blocked_ops'[f][e] = blocked_ops[f][e]
  BY <1>5, At
<1>7. ~Contains(s, o) /\ Distinct(s)
  BY <1>0, <1>2 DEF Core, PlaceInv, Parked
<1>8. Distinct(t) /\ t # << >> /\ \A y : Contains(t, y) <=> Contains(s, y) \/ y = o
  BY <1>3, <1>4, <1>7
<1>9. ASSUME NEW f \in Fds, NEW e \in Dirs
      PROVE  /\ Distinct(blocked_ops'[f][e])
             /\ \A x \in Ops : Contains(blocked_ops'[f][e], x) => FdOf[x] = f /\ DirOf[x] = e
  <2>1. CASE f = fd /\ e = dir
    <3>1. \A x \in Ops : Contains(s, x) => FdOf[x] = f /\ DirOf[x] = e
      BY <1>0, <1>2, <2>1 DEF Core, PlaceInv
    <3>2. QED
      BY <1>0, <1>6, <1>8, <2>1, <3>1
  <2>2. CASE f # fd \/ e # dir
    <3>1. blocked_ops'[f][e] = blocked_ops[f][e]
      BY <1>6, <2>2
    <3>2. QED
      BY <3>1 DEF Core, PlaceInv
  <2>3. QED
    BY <2>1, <2>2
<1>10. ASSUME NEW x \in Ops PROVE Parked(x)' <=> Parked(x) \/ x = o
  <2>1. FdOf[x] \in Fds /\ DirOf[x] \in Dirs
    OBVIOUS
  <2>2. CASE FdOf[x] = fd /\ DirOf[x] = dir
    BY <1>0, <1>2, <1>6, <1>8, <2>2 DEF Parked
  <2>3. CASE FdOf[x] # fd \/ DirOf[x] # dir
    <3>1. blocked_ops'[FdOf[x]][DirOf[x]] = blocked_ops[FdOf[x]][DirOf[x]]
      BY <1>6, <2>1, <2>3
    <3>2. QED
      BY <1>0, <2>3, <3>1 DEF Parked
  <2>4. QED
    BY <2>2, <2>3
<1>11. QED
  BY <1>6, <1>8, <1>9, <1>10

LEMMA PopStep == ASSUME Core, Pop PROVE Core'
<1> USE OpsAssumption, NullAssumption
<1>1. /\ pc = "pop" /\ triggered = {}
      /\ UNCHANGED <<wakeup, ready, interest, pending, triggered, blocked, unblocked,
                     nbyte, buf, res, val, moved, submitted, finished, crossed>>
  BY DEF Pop, kernel, fields, history, Core, HandInv
<1>2. CASE queue = << >>
  <2>1. /\ check_queue' = FALSE /\ pc' = "forget" /\ UNCHANGED <<queue, blocked_ops, cur>>
    BY <1>2 DEF Pop
  <2>2. TypeInv'
    BY <1>1, <2>1 DEF Core, TypeInv
  <2>3. HandInv' /\ BlockedInv'
    BY <1>1, <2>1 DEF Core, HandInv, BlockedInv
  <2>4. QED
    BY <1>1, <2>1, <2>2, <2>3, StayStep
<1>3. CASE queue # << >>
  <2>1. PICK o : o = Head(queue)
    OBVIOUS
  <2>2. queue \in Seq(Ops) /\ Distinct(queue)
    BY DEF Core, TypeInv, PlaceInv
  <2>3. /\ queue' = Tail(queue) /\ queue' \in Seq(Ops) /\ o \in Ops /\ Distinct(queue')
        /\ Contains(queue, o) /\ UNCHANGED check_queue
        /\ \A x : Contains(queue', x) <=> Contains(queue, x) /\ x # o
    <3>1. queue' = Tail(queue) /\ UNCHANGED check_queue
      BY <1>3 DEF Pop
    <3>2. /\ Tail(queue) \in Seq(Ops) /\ Head(queue) \in Ops /\ Distinct(Tail(queue))
          /\ Contains(queue, Head(queue))
          /\ \A x : Contains(Tail(queue), x) <=> Contains(queue, x) /\ x # Head(queue)
      BY <1>3, <2>2, TailIs
    <3>3. QED
      BY <2>1, <3>1, <3>2
  <2>4. PICK fd \in Fds, dir \in Dirs : fd = FdOf[o] /\ dir = DirOf[o]
    BY <2>3
  <2>5. ~Parked(o) /\ val[o] = NULL /\ Contains(submitted, o)
    BY <2>3 DEF Core, PlaceInv
  <2>6. CASE fd \in blocked[dir]
    <3>1. /\ blocked_ops' = [blocked_ops EXCEPT ![fd][dir] = Append(@, o)]
          /\ UNCHANGED <<pc, cur>>
      BY <1>3, <2>1, <2>4, <2>6 DEF Pop, IsParked
    <3>2. /\ blocked_ops' \in [Fds -> [Dirs -> Seq(Ops)]] /\ blocked_ops'[fd][dir] # << >>
          /\ \A f \in Fds, e \in Dirs : f # fd \/ e # dir => blocked_ops'[f][e] = blocked_ops[f][e]
          /\ \A f \in Fds, e \in Dirs :
                /\ Distinct(blocked_ops'[f][e])
                /\ \A x \in Ops : Contains(blocked_ops'[f][e], x) => FdOf[x] = f /\ DirOf[x] = e
          /\ \A x \in Ops : Parked(x)' <=> Parked(x) \/ x = o
      <4>1. Behind(o, fd, dir)
        BY <2>3, <2>4, <2>5, <3>1 DEF Behind
      <4>2. QED
        BY <4>1, ParkOne
    <3>3. TypeInv'
      BY <1>1, <2>3, <3>1, <3>2 DEF Core, TypeInv
    <3>4. PlaceInv'
      BY <1>1, <2>3, <2>5, <3>2 DEF Core, PlaceInv
    <3>5. HandInv'
      BY <1>1, <3>1 DEF HandInv
    <3>6. BlockedInv'
      <4> SUFFICES ASSUME NEW f \in Fds, NEW e \in Dirs
                   PROVE  /\ f \in blocked'[e] <=> blocked_ops'[f][e] # << >>
                          /\ f \in blocked'[e] => f \notin unblocked'[e]
        BY DEF BlockedInv
      <4>1. CASE f = fd /\ e = dir
        BY <1>1, <2>6, <3>2, <4>1 DEF Core, BlockedInv
      <4>2. CASE f # fd \/ e # dir
        <5>1. blocked_ops'[f][e] = blocked_ops[f][e]
          BY <3>2, <4>2
        <5>2. QED
          BY <1>1, <5>1 DEF Core, BlockedInv
      <4>3. QED
        BY <4>1, <4>2
    <3>7. FieldsInv'
      BY <1>1 DEF Core, FieldsInv
    <3>8. QED
      BY <3>3, <3>4, <3>5, <3>6, <3>7 DEF Core
  <2>7. CASE fd \notin blocked[dir]
    <3>1. cur' = o /\ pc' = "perform" /\ UNCHANGED blocked_ops
      BY <1>3, <2>1, <2>4, <2>7 DEF Pop, IsParked
    <3>2. TypeInv'
      BY <1>1, <2>3, <3>1 DEF Core, TypeInv
    <3>3. PlaceInv'
      BY <1>1, <2>3, <3>1 DEF Core, PlaceInv, Parked
    <3>4. HandInv'
      BY <1>1, <2>3, <2>4, <2>5, <2>7, <3>1 DEF HandInv
    <3>5. BlockedInv' /\ FieldsInv'
      BY <1>1, <3>1 DEF Core, BlockedInv, FieldsInv
    <3>6. QED
      BY <3>2, <3>3, <3>4, <3>5 DEF Core
  <2>8. QED
    BY <2>6, <2>7
<1>4. QED
  BY <1>2, <1>3

\* Whoever performs an operation that did not come from the queue performs the
\* first of those parked on its descriptor; one that did is parked nowhere.
LEMMA WhoIsPerformed ==
    ASSUME Core, pc = "perform", NEW o, cur = o
    PROVE  /\ o \in Ops /\ val[o] = NULL /\ Contains(submitted, o) /\ ~Contains(queue, o)
           /\ triggered = {} => ~Parked(o) /\ FdOf[o] \notin blocked[DirOf[o]]
<1> USE OpsAssumption
<1>1. o \in Ops /\ val[o] = NULL /\ Contains(submitted, o) /\ ~Contains(queue, o)
  BY DEF Core, HandInv
<1>2. ASSUME triggered = {} PROVE ~Parked(o) /\ FdOf[o] \notin blocked[DirOf[o]]
  <2>1. FdOf[o] \in Fds /\ DirOf[o] \in Dirs /\ FdOf[o] \notin blocked[DirOf[o]]
    BY <1>1, <1>2 DEF Core, HandInv
  <2>2. blocked_ops[FdOf[o]][DirOf[o]] = << >>
    BY <2>1 DEF Core, BlockedInv
  <2>3. QED
    BY <2>1, <2>2 DEF Parked, Contains
<1>3. QED
  BY <1>1, <1>2

LEMMA WouldBlockStep == ASSUME Core, NEW o \in Ops, WouldBlock(o) PROVE Core'
<1> USE OpsAssumption, NullAssumption
<1>1. /\ pc = "perform" /\ cur = o
      /\ UNCHANGED <<queue, wakeup, ready, interest, pending, check_queue, val, moved,
                     submitted, finished, crossed>>
  BY DEF WouldBlock, Park, kernel
<1>2. UNCHANGED <<nbyte, buf, res>>
  <2>1. /\ nbyte' = [nbyte EXCEPT ![o] = (nbyte[o] - -1) + -1]
        /\ buf' = [buf EXCEPT ![o] = (buf[o] + -1) - -1]
        /\ res' = [res EXCEPT ![o] = (res[o] + -1) - -1]
    BY DEF WouldBlock, Fields
  <2>2. nbyte[o] \in Int /\ buf[o] \in Int /\ res[o] \in Int
    BY DEF Core, TypeInv
  <2>3. /\ (nbyte[o] - -1) + -1 = nbyte[o] /\ (buf[o] + -1) - -1 = buf[o]
        /\ (res[o] + -1) - -1 = res[o]
    BY <2>2
  <2>4. QED
    BY <2>1, <2>3 DEF Core, TypeInv
<1>3. PICK fd \in Fds, dir \in Dirs : fd = FdOf[o] /\ dir = DirOf[o]
  OBVIOUS
<1>4. /\ val[o] = NULL /\ Contains(submitted, o) /\ ~Contains(queue, o)
      /\ triggered = {} => ~Parked(o) /\ fd \notin blocked[dir]
  BY <1>1, <1>3, WhoIsPerformed
<1>5. FieldsInv'
  BY <1>1, <1>2 DEF Core, FieldsInv
<1>6. CASE triggered # {}
  <2>1. /\ pc' = "events" /\ cur' = NULL /\ triggered' = triggered \ {<<fd, dir>>}
        /\ UNCHANGED <<blocked, unblocked, blocked_ops>>
    BY <1>3, <1>6 DEF WouldBlock, Park, FromQueue
  <2>2. TypeInv'
    BY <1>1, <1>2, <2>1 DEF Core, TypeInv
  <2>3. HandInv' /\ BlockedInv'
    BY <1>1, <2>1 DEF Core, HandInv, BlockedInv
  <2>4. QED
    BY <1>1, <1>2, <2>1, <2>2, <2>3, StayStep
<1>7. CASE triggered = {}
  <2>1. /\ pc' = "add" /\ UNCHANGED <<triggered, cur>>
        /\ unblocked' = [unblocked EXCEPT ![dir] = @ \ {fd}]
        /\ blocked' = [blocked EXCEPT ![dir] = @ \cup {fd}]
        /\ blocked_ops' = [blocked_ops EXCEPT ![fd][dir] = Append(@, o)]
    BY <1>3, <1>7 DEF WouldBlock, Park, FromQueue
  <2>2. /\ blocked_ops' \in [Fds -> [Dirs -> Seq(Ops)]] /\ blocked_ops'[fd][dir] # << >>
        /\ \A f \in Fds, e \in Dirs : f # fd \/ e # dir => blocked_ops'[f][e] = blocked_ops[f][e]
        /\ \A f \in Fds, e \in Dirs :
              /\ Distinct(blocked_ops'[f][e])
              /\ \A x \in Ops : Contains(blocked_ops'[f][e], x) => FdOf[x] = f /\ DirOf[x] = e
        /\ \A x \in Ops : Parked(x)' <=> Parked(x) \/ x = o
    <3>1. Behind(o, fd, dir)
      BY <1>3, <1>4, <1>7, <2>1 DEF Behind
    <3>2. QED
      BY <3>1, ParkOne
  <2>3. /\ blocked' \in [Dirs -> SUBSET Fds] /\ unblocked' \in [Dirs -> SUBSET Fds]
        /\ blocked'[dir] = blocked[dir] \cup {fd} /\ unblocked'[dir] = unblocked[dir] \ {fd}
        /\ \A e \in Dirs : e # dir => blocked'[e] = blocked[e] /\ unblocked'[e] = unblocked[e]
    BY <2>1 DEF Core, TypeInv
  <2>4. TypeInv'
    BY <1>1, <1>2, <2>1, <2>2, <2>3 DEF Core, TypeInv
  <2>5. PlaceInv'
    BY <1>1, <1>4, <2>2 DEF Core, PlaceInv
  <2>6. HandInv'
    BY <1>1, <1>7, <2>1, <2>2 DEF HandInv
  <2>7. BlockedInv'
    <3> SUFFICES ASSUME NEW f \in Fds, NEW e \in Dirs
                 PROVE  /\ f \in blocked'[e] <=> blocked_ops'[f][e] # << >>
                        /\ f \in blocked'[e] => f \notin unblocked'[e]
      BY DEF BlockedInv
    <3>1. CASE f = fd /\ e = dir
      BY <2>2, <2>3, <3>1
    <3>2. CASE f # fd \/ e # dir
      <4>1. blocked_ops'[f][e] = blocked_ops[f][e]
        BY <2>2, <3>2
      <4>2. /\ f \in blocked'[e] <=> f \in blocked[e]
            /\ f \in unblocked'[e] <=> f \in unblocked[e]
        BY <2>3, <3>2
      <4>3. QED
        BY <4>1, <4>2 DEF Core, BlockedInv
    <3>3. QED
      BY <3>1, <3>2
  <2>8. QED
    BY <1>5, <2>4, <2>5, <2>6, <2>7 DEF Core
<1>8. QED
  BY <1>6, <1>7

\* The future is put, and the operation leaves the I/O thread.
LEMMA FinishStep ==
    ASSUME Core, NEW o \in Ops, pc = "perform", cur = o, NEW v \in Int, Finish(o, v),
           UNCHANGED <<queue, wakeup, interest, pending, check_queue, submitted, crossed>>,
           ready' \in [Fds -> [Dirs -> BOOLEAN]], nbyte' \in [Ops -> Int], buf' \in [Ops -> Int],
           res' \in [Ops -> Int], moved' \in [Ops -> Int], FieldsInv'
    PROVE  Core'
<1> USE OpsAssumption, NullAssumption
<1>1. PICK fd \in Fds, dir \in Dirs : fd = FdOf[o] /\ dir = DirOf[o]
  OBVIOUS
<1>2. /\ val[o] = NULL /\ Contains(submitted, o) /\ ~Contains(queue, o)
      /\ triggered = {} => ~Parked(o) /\ fd \notin blocked[dir]
  BY <1>1, WhoIsPerformed
<1>3. /\ val' = [val EXCEPT ![o] = v] /\ finished' = Append(finished, o)
      /\ val' \in [Ops -> Int \cup {NULL}] /\ finished' \in Seq(Ops)
      /\ val'[o] = v /\ v # NULL /\ \A x \in Ops \ {o} : val'[x] = val[x]
  BY DEF Finish, Core, TypeInv
<1>4. CASE triggered = {}
  <2>1. /\ pc' = "pop" /\ cur' = NULL
        /\ UNCHANGED <<triggered, blocked, unblocked, blocked_ops>>
    BY <1>4 DEF Finish, FromQueue
  <2>2. TypeInv'
    BY <1>3, <2>1 DEF Core, TypeInv
  <2>3. PlaceInv'
    BY <1>2, <1>3, <1>4, <2>1 DEF Core, PlaceInv, Parked
  <2>4. HandInv' /\ BlockedInv'
    BY <1>4, <2>1 DEF Core, HandInv, BlockedInv
  <2>5. QED
    BY <2>2, <2>3, <2>4 DEF Core
<1>5. CASE triggered # {}
  <2>1. blocked_ops \in [Fds -> [Dirs -> Seq(Ops)]]
    BY DEF Core, TypeInv
  <2>2. PICK s \in Seq(Ops) : s = blocked_ops[fd][dir]
    BY <2>1
  <2>3. s # << >> /\ o = Head(s) /\ <<fd, dir>> \in triggered
    BY <1>1, <1>5, <2>2 DEF Core, HandInv
  <2>4. Distinct(s) /\ \A x \in Ops : Contains(s, x) => FdOf[x] = fd /\ DirOf[x] = dir
    BY <2>2 DEF Core, PlaceInv
  <2>5. PICK t : t = Tail(s)
    OBVIOUS
  <2>6. /\ t \in Seq(Ops) /\ Distinct(t)
        /\ \A x : Contains(t, x) <=> Contains(s, x) /\ x # o
    BY <2>3, <2>4, <2>5, TailIs
  <2>7. Updated(blocked_ops, blocked_ops', fd, dir, t)
    BY <1>1, <1>5, <2>1, <2>2, <2>5, <2>6 DEF Updated, Finish, FromQueue
  <2>8. /\ blocked_ops' \in [Fds -> [Dirs -> Seq(Ops)]] /\ blocked_ops'[fd][dir] = t
        /\ \A f \in Fds, e \in Dirs : f # fd \/ e # dir => blocked_ops'[f][e] = blocked_ops[f][e]
    BY <2>7, At
  <2>9. ASSUME NEW f \in Fds, NEW e \in Dirs
        PROVE  /\ Distinct(blocked_ops'[f][e])
               /\ \A x \in Ops : Contains(blocked_ops'[f][e], x) => FdOf[x] = f /\ DirOf[x] = e
    <3>1. CASE f = fd /\ e = dir
      BY <2>4, <2>6, <2>8, <3>1
    <3>2. CASE f # fd \/ e # dir
      <4>1. blocked_ops'[f][e] = blocked_ops[f][e]
        BY <2>8, <3>2
      <4>2. QED
        BY <4>1 DEF Core, PlaceInv
    <3>3. QED
      BY <3>1, <3>2
  <2>10. ASSUME NEW x \in Ops PROVE Parked(x)' <=> Parked(x) /\ x # o
    <3>1. CASE FdOf[x] = fd /\ DirOf[x] = dir
      BY <2>2, <2>6, <2>8, <3>1 DEF Parked
    <3>2. CASE FdOf[x] # fd \/ DirOf[x] # dir
      <4>1. FdOf[x] \in Fds /\ DirOf[x] \in Dirs
        OBVIOUS
      <4>2. blocked_ops'[FdOf[x]][DirOf[x]] = blocked_ops[FdOf[x]][DirOf[x]]
        BY <2>8, <3>2, <4>1
      <4>3. QED
        BY <1>1, <3>2, <4>2 DEF Parked
    <3>3. QED
      BY <3>1, <3>2
  <2>11. PlaceInv'
    BY <1>2, <1>3, <2>9, <2>10 DEF Core, PlaceInv
  <2>12. CASE t # << >>
    <3>1. pc' = "perform" /\ cur' = Head(t) /\ UNCHANGED <<triggered, blocked, unblocked>>
      BY <1>1, <1>5, <2>2, <2>5, <2>12 DEF Finish, FromQueue
    <3>2. Head(t) \in Ops /\ Contains(t, Head(t))
      BY <2>6, <2>12, TailIs
    <3>3. PICK h \in Ops : h = Head(t) /\ Contains(t, h) /\ cur' = h
      BY <3>1, <3>2
    <3>4. h # o /\ FdOf[h] = fd /\ DirOf[h] = dir
      BY <2>4, <2>6, <3>3
    <3>5. Parked(h)
      BY <2>2, <2>6, <3>3, <3>4 DEF Parked
    <3>6. val'[h] = NULL /\ Contains(submitted, h) /\ ~Contains(queue, h)
      BY <1>3, <3>4, <3>5 DEF Core, PlaceInv
    <3>7. TypeInv'
      BY <1>3, <2>8, <3>1, <3>3 DEF Core, TypeInv
    <3>8. HandInv'
      BY <1>5, <2>3, <2>8, <2>12, <3>1, <3>3, <3>4, <3>6 DEF HandInv
    <3>9. BlockedInv'
      <4> SUFFICES ASSUME NEW f \in Fds, NEW e \in Dirs
                   PROVE  /\ f \in blocked[e] <=> blocked_ops'[f][e] # << >>
                          /\ f \in blocked[e] => f \notin unblocked[e]
        BY <3>1 DEF BlockedInv
      <4>1. CASE f = fd /\ e = dir
        BY <2>2, <2>3, <2>8, <2>12, <4>1 DEF Core, BlockedInv
      <4>2. CASE f # fd \/ e # dir
        <5>1. blocked_ops'[f][e] = blocked_ops[f][e]
          BY <2>8, <4>2
        <5>2. QED
          BY <5>1 DEF Core, BlockedInv
      <4>3. QED
        BY <4>1, <4>2
    <3>10. QED
      BY <2>11, <3>7, <3>8, <3>9 DEF Core
  <2>13. CASE t = << >>
    <3>1. /\ pc' = "events" /\ cur' = NULL /\ triggered' = triggered \ {<<fd, dir>>}
          /\ blocked' = [blocked EXCEPT ![dir] = @ \ {fd}]
          /\ unblocked' = [unblocked EXCEPT ![dir] = @ \cup {fd}]
      BY <1>1, <1>5, <2>2, <2>5, <2>13 DEF Finish, FromQueue
    <3>2. /\ blocked' \in [Dirs -> SUBSET Fds] /\ unblocked' \in [Dirs -> SUBSET Fds]
          /\ blocked'[dir] = blocked[dir] \ {fd} /\ unblocked'[dir] = unblocked[dir] \cup {fd}
          /\ \A e \in Dirs : e # dir => blocked'[e] = blocked[e] /\ unblocked'[e] = unblocked[e]
      BY <3>1 DEF Core, TypeInv
    <3>3. TypeInv'
      BY <1>3, <2>8, <3>1, <3>2 DEF Core, TypeInv
    <3>4. HandInv'
      BY <3>1 DEF HandInv
    <3>5. BlockedInv'
      <4> SUFFICES ASSUME NEW f \in Fds, NEW e \in Dirs
                   PROVE  /\ f \in blocked'[e] <=> blocked_ops'[f][e] # << >>
                          /\ f \in blocked'[e] => f \notin unblocked'[e]
        BY DEF BlockedInv
      <4>1. CASE f = fd /\ e = dir
        BY <2>8, <2>13, <3>2, <4>1
      <4>2. CASE f # fd \/ e # dir
        <5>1. blocked_ops'[f][e] = blocked_ops[f][e]
          BY <2>8, <4>2
        <5>2. /\ f \in blocked'[e] <=> f \in blocked[e]
              /\ f \in unblocked'[e] <=> f \in unblocked[e]
          BY <3>2, <4>2
        <5>3. QED
          BY <5>1, <5>2 DEF Core, BlockedInv
      <4>3. QED
        BY <4>1, <4>2
    <3>6. QED
      BY <2>11, <3>3, <3>4, <3>5 DEF Core
  <2>14. QED
    BY <2>12, <2>13
<1>6. QED
  BY <1>4, <1>5

LEMMA FailStep == ASSUME Core, NEW o \in Ops, Fail(o) PROVE Core'
<1> USE OpsAssumption, NullAssumption
<1>1. /\ pc = "perform" /\ cur = o /\ Finish(o, -1)
      /\ UNCHANGED <<queue, wakeup, ready, interest, pending, check_queue, moved, submitted, crossed>>
  BY DEF Fail, kernel
<1>2. nbyte[o] \in Int /\ buf[o] \in Int /\ val[o] = NULL
  BY <1>1, WhoIsPerformed DEF Core, TypeInv
<1>3. (nbyte[o] - -1) + -1 = nbyte[o] /\ (buf[o] + -1) - -1 = buf[o]
  BY <1>2
<1>4. UNCHANGED <<nbyte, buf>> /\ res' = [res EXCEPT ![o] = -1]
  BY <1>3 DEF Fail, Fields, Core, TypeInv
<1>5. /\ res' \in [Ops -> Int] /\ res'[o] = -1 /\ \A x \in Ops \ {o} : res'[x] = res[x]
  BY <1>4 DEF Core, TypeInv
<1>6. val'[o] = -1 /\ \A x \in Ops \ {o} : val'[x] = val[x]
  BY <1>1 DEF Finish, Core, TypeInv
<1>7. FieldsInv'
  BY <1>1, <1>4, <1>5, <1>6 DEF Core, FieldsInv
<1>8. ready' \in [Fds -> [Dirs -> BOOLEAN]] /\ nbyte' \in [Ops -> Int] /\ buf' \in [Ops -> Int]
      /\ moved' \in [Ops -> Int] /\ -1 \in Int
  BY <1>1, <1>4 DEF Core, TypeInv
<1>9. QED
  BY <1>1, <1>5, <1>7, <1>8, FinishStep

LEMMA TransferStep == ASSUME Core, NEW o \in Ops, NEW r \in Int, Transfer(o, r) PROVE Core'
<1> USE OpsAssumption, NullAssumption
<1>1. /\ pc = "perform" /\ cur = o
      /\ UNCHANGED <<queue, wakeup, interest, pending, submitted, crossed>>
  BY DEF Transfer
<1>2. val[o] = NULL
  BY <1>1, WhoIsPerformed
<1>3. /\ moved[o] \in 0..SizeOf[o] /\ buf[o] = moved[o] /\ nbyte[o] = SizeOf[o] - moved[o]
      /\ res[o] = moved[o] /\ SizeOf[o] \in Nat
  BY <1>2 DEF Core, FieldsInv
<1>4. r \in 0..nbyte[o]
  BY <1>3 DEF Transfer, Results
<1>5. PICK m \in Nat : m = moved[o] + r /\ m \in 0..SizeOf[o]
  BY <1>3, <1>4
<1>6. /\ nbyte' = [nbyte EXCEPT ![o] = SizeOf[o] - m] /\ buf' = [buf EXCEPT ![o] = m]
      /\ res' = [res EXCEPT ![o] = m] /\ moved' = [moved EXCEPT ![o] = m]
  <2>1. nbyte[o] - r = SizeOf[o] - m /\ buf[o] + r = m /\ res[o] + r = m
    BY <1>3, <1>4, <1>5
  <2>2. QED
    BY <1>5, <2>1 DEF Transfer, Fields, Core, TypeInv
<1>7. /\ nbyte' \in [Ops -> Int] /\ buf' \in [Ops -> Int] /\ res' \in [Ops -> Int]
      /\ moved' \in [Ops -> Int]
  BY <1>6 DEF Core, TypeInv
<1>8. /\ nbyte'[o] = SizeOf[o] - m /\ buf'[o] = m /\ res'[o] = m /\ moved'[o] = m
      /\ \A x \in Ops \ {o} : /\ nbyte'[x] = nbyte[x] /\ buf'[x] = buf[x]
                              /\ res'[x] = res[x] /\ moved'[x] = moved[x]
  BY <1>6 DEF Core, TypeInv
<1>9. ready' \in [Fds -> [Dirs -> BOOLEAN]]
  <2>1. PICK left \in BOOLEAN : ready' = [ready EXCEPT ![FdOf[o]][DirOf[o]] = left]
    BY DEF Transfer
  <2>2. QED
    BY <2>1 DEF Core, TypeInv
<1>10. CASE Loops(o, r)
  <2>1. UNCHANGED <<pc, val, finished, triggered, cur, check_queue, blocked, unblocked,
                    blocked_ops>>
    BY <1>10 DEF Transfer, local
  <2>2. TypeInv'
    BY <1>1, <1>7, <1>9, <2>1 DEF Core, TypeInv
  <2>3. PlaceInv' /\ HandInv' /\ BlockedInv'
    BY <1>1, <2>1 DEF Core, PlaceInv, HandInv, BlockedInv, Parked
  <2>4. FieldsInv'
    BY <1>2, <1>5, <1>8, <2>1 DEF Core, FieldsInv
  <2>5. QED
    BY <2>2, <2>3, <2>4 DEF Core
<1>11. CASE ~Loops(o, r)
  <2>1. Finish(o, m) /\ UNCHANGED check_queue
    BY <1>3, <1>5, <1>11 DEF Transfer
  <2>2. val'[o] = m /\ \A x \in Ops \ {o} : val'[x] = val[x]
    BY <2>1 DEF Finish, Core, TypeInv
  <2>3. FieldsInv'
    BY <1>5, <1>8, <2>2 DEF Core, FieldsInv
  <2>4. m \in Int
    OBVIOUS
  <2>5. QED
    BY <1>1, <1>7, <1>9, <2>1, <2>3, <2>4, FinishStep
<1>12. QED
  BY <1>10, <1>11

LEMMA CoreStep == Core /\ [Next]_vars => Core'
<1> SUFFICES ASSUME Core, [Next]_vars PROVE Core'
  OBVIOUS
<1>1. CASE UNCHANGED vars
  <2>1. TypeInv'
    BY <1>1 DEF vars, Core, TypeInv
  <2>2. HandInv' /\ BlockedInv'
    BY <1>1 DEF vars, Core, HandInv, BlockedInv, Parked
  <2>3. QED
    BY <1>1, <2>1, <2>2, StayStep DEF vars
<1>2. CASE IOThread
  <2>1. ASSUME NEW o \in Ops, NEW r \in 0..nbyte[o], Transfer(o, r) PROVE Core'
    <3>1. r \in Int
      BY DEF Core, TypeInv
    <3>2. QED
      BY <2>1, <3>1, TransferStep
  <2>2. QED
    BY <1>2, <2>1, EpollWaitStep, EventsHandledStep, PopStep, EpollAddStep, ForgetStep,
       HandleEventStep, WouldBlockStep, FailStep DEF IOThread
<1>3. CASE \E o \in Ops : Submit(o)
  BY <1>3, SubmitStep
<1>4. CASE \E fd \in Fds : Reopen(fd) \/ \E dir \in Dirs : Arrive(fd, dir)
  BY <1>4, ReopenStep, ArriveStep
<1>5. QED
  BY <1>1, <1>2, <1>3, <1>4 DEF Next

-----------------------------------------------------------------------------
(* What the program sees of an operation *)

\* Whatever the kernel, the program and the I/O thread do, and for any number
\* of operations, the core of the invariant holds.
THEOREM Invariance == Spec => []Core
  BY InitCore, CoreStep, PTL DEF Spec

LEMMA TypesFollow == Core => TypeOK
<1> SUFFICES ASSUME Core PROVE TypeOK
  OBVIOUS
<1> USE OpsAssumption
<1>1. \A fd \in Fds, dir \in Dirs : blocked_ops[fd][dir] \in Seq(Ops)
  BY DEF Core, TypeInv
<1>2. ASSUME NEW o \in Ops
      PROVE  /\ nbyte[o] \in 0..SizeOf[o] /\ buf[o] \in 0..SizeOf[o]
             /\ res[o] \in -1..SizeOf[o] /\ val[o] \in {NULL} \cup -1..SizeOf[o]
  <2>1. SizeOf[o] \in Nat /\ moved[o] \in 0..SizeOf[o]
    BY DEF Core, FieldsInv
  <2>2. QED
    BY <2>1 DEF Core, FieldsInv
<1>3. QED
  BY <1>1, <1>2 DEF TypeOK, Core, TypeInv

\* The fields of an operation stay within the bytes it asked for, and its
\* future gets a number of bytes it asked for or -1.
THEOREM TypeCorrect == Spec => []TypeOK
  BY Invariance, TypesFollow, PTL

LEMMA ReportsFollow == Core => ReportsWhatMoved
  BY DEF Core, FieldsInv, ReportsWhatMoved

\* For any number of operations, sizes, partial transfers and refusals in any
\* order, a future gets what the kernel moved or -1, and an operation that waits
\* goes on at the first byte not yet moved: perform_io_until_block takes back
\* exactly what it added for a call that failed.
THEOREM ReportsWhatMovedTheorem == Spec => []ReportsWhatMoved
  BY Invariance, ReportsFollow, PTL

-----------------------------------------------------------------------------
(* What epoll watches *)

WatchCore == Core /\ WatchInv /\ PendingInv

\* Where no operation has parked across the registration, and no registration is
\* under way, epoll watches what is blocked and nothing will be dropped.
LEMMA Watched ==
    ASSUME WatchCore, NEW fd \in Fds, NEW dir \in Dirs, Straight(fd, dir), ~Registering(fd, dir)
    PROVE  /\ interest[fd] = dir
           /\ ready[fd][dir] => <<fd, dir>> \in pending \cup triggered
           /\ \A e \in Dirs \ {dir} : fd \notin unblocked[e] /\ <<fd, e>> \notin triggered
  BY DEF WatchCore, WatchInv

LEMMA BlockedIsHeld ==
    ASSUME Core, NEW fd \in Fds, NEW dir \in Dirs, fd \in blocked[dir]
    PROVE  \E o \in Ops : /\ FdOf[o] = fd /\ DirOf[o] = dir
                          /\ val[o] = NULL /\ Contains(submitted, o)
<1> USE OpsAssumption
<1>1. PICK s \in Seq(Ops) : s = blocked_ops[fd][dir]
  BY DEF Core, TypeInv
<1>2. s # << >> /\ Distinct(s)
  BY <1>1 DEF Core, BlockedInv, PlaceInv
<1>3. Head(s) \in Ops /\ Contains(s, Head(s))
  BY <1>2, TailIs
<1>4. FdOf[Head(s)] = fd /\ DirOf[Head(s)] = dir /\ Parked(Head(s))
  BY <1>1, <1>3 DEF Core, PlaceInv, Parked
<1>5. val[Head(s)] = NULL /\ Contains(submitted, Head(s))
  BY <1>3, <1>4 DEF Core, PlaceInv
<1>6. QED
  BY <1>3, <1>4, <1>5

LEMMA InitWatch == Init => WatchInv /\ PendingInv
  BY DEF Init, WatchInv, PendingInv, Straight, Dirs

\* Steps that register nothing, and after which no further descriptor is blocked.
LEMMA WatchKept ==
    ASSUME WatchCore, UNCHANGED <<interest, crossed>>, pc # "add", pc' # "add",
           pending' \subseteq pending,
           \A fd \in Fds, dir \in Dirs : fd \in blocked'[dir] =>
              /\ fd \in blocked[dir]
              /\ Straight(fd, dir) /\ ready'[fd][dir] => <<fd, dir>> \in pending' \cup triggered'
              /\ Straight(fd, dir) => \A e \in Dirs \ {dir} :
                    fd \notin unblocked'[e] /\ <<fd, e>> \notin triggered'
    PROVE  WatchInv' /\ PendingInv'
<1>1. WatchInv'
  <2> SUFFICES ASSUME NEW fd \in Fds, NEW dir \in Dirs, fd \in blocked'[dir],
                      <<fd, dir>> \notin crossed
               PROVE  /\ interest[fd] = dir
                      /\ ready'[fd][dir] => <<fd, dir>> \in pending' \cup triggered'
                      /\ \A e \in Dirs \ {dir} :
                            fd \notin unblocked'[e] /\ <<fd, e>> \notin triggered'
    BY DEF WatchInv, Straight
  <2>1. Straight(fd, dir)
    BY DEF Straight
  <2>2. ~Registering(fd, dir)
    BY DEF Registering
  <2>3. interest[fd] = dir
    BY <2>1, <2>2, Watched
  <2>4. QED
    BY <2>1, <2>3
<1>2. PendingInv'
  BY DEF WatchCore, PendingInv
<1>3. QED
  BY <1>1, <1>2

LEMMA ArriveWatch ==
    ASSUME WatchCore, NEW fd \in Fds, NEW dir \in Dirs, Arrive(fd, dir)
    PROVE  WatchInv' /\ PendingInv'
<1>1. /\ ready' = [ready EXCEPT ![fd][dir] = TRUE]
      /\ pending' = IF interest[fd] = dir THEN pending \cup {<<fd, dir>>} ELSE pending
      /\ UNCHANGED <<interest, pc, triggered, cur, blocked, unblocked, crossed>>
  BY DEF Arrive, local, history
<1>2. \A f \in Fds, e \in Dirs : f # fd \/ e # dir => ready'[f][e] = ready[f][e]
  BY <1>1 DEF WatchCore, Core, TypeInv
<1>3. \A f, e : (Registering(f, e)' <=> Registering(f, e)) /\ (Straight(f, e)' <=> Straight(f, e))
  BY <1>1 DEF Registering, Straight
<1>4. pending \subseteq pending' /\ (interest[fd] = dir => <<fd, dir>> \in pending')
  BY <1>1
<1>5. WatchInv'
  <2> SUFFICES ASSUME NEW f \in Fds, NEW e \in Dirs, Straight(f, e)
               PROVE  ready'[f][e] => \/ <<f, e>> \in pending' \cup triggered
                                      \/ Registering(f, e) /\ interest[f] # e
    BY <1>1, <1>3 DEF WatchCore, WatchInv
  <2>1. CASE f # fd \/ e # dir
    BY <1>2, <1>4, <2>1 DEF WatchCore, WatchInv
  <2>2. CASE f = fd /\ e = dir
    BY <1>4, <2>2 DEF WatchCore, WatchInv
  <2>3. QED
    BY <2>1, <2>2
<1>6. PendingInv'
  BY <1>1 DEF WatchCore, PendingInv
<1>7. QED
  BY <1>5, <1>6

LEMMA ReopenWatch ==
    ASSUME WatchCore, NEW fd \in Fds, Reopen(fd) PROVE WatchInv' /\ PendingInv'
<1>1. /\ \A o \in Ops : FdOf[o] = fd /\ Contains(submitted, o) => val[o] # NULL
      /\ ready' = [ready EXCEPT ![fd] = [dir \in Dirs |-> FALSE]]
      /\ interest' = [interest EXCEPT ![fd] = NULL] /\ pending' = {e \in pending : e[1] # fd}
      /\ UNCHANGED <<pc, triggered, cur, blocked, unblocked, crossed>>
  BY DEF Reopen, local, history
<1>2. \A dir \in Dirs : fd \notin blocked[dir]
  BY <1>1, BlockedIsHeld DEF WatchCore
<1>3. \A f \in Fds \ {fd} : ready'[f] = ready[f] /\ interest'[f] = interest[f]
  BY <1>1 DEF WatchCore, Core, TypeInv
<1>4. \A f, e : <<f, e>> \in pending' <=> <<f, e>> \in pending /\ f # fd
  BY <1>1
<1>5. \A f, e : (Registering(f, e)' <=> Registering(f, e)) /\ (Straight(f, e)' <=> Straight(f, e))
  BY <1>1 DEF Registering, Straight
<1>6. WatchInv'
  <2> SUFFICES ASSUME NEW f \in Fds, NEW e \in Dirs, Straight(f, e)
               PROVE  /\ interest'[f] = e \/ Registering(f, e)
                      /\ ready'[f][e] => \/ <<f, e>> \in pending' \cup triggered
                                         \/ Registering(f, e) /\ interest'[f] # e
    BY <1>1, <1>5 DEF WatchCore, WatchInv
  <2>1. f # fd
    BY <1>2 DEF Straight
  <2>2. ready'[f] = ready[f] /\ interest'[f] = interest[f]
    BY <1>3, <2>1
  <2>3. QED
    BY <1>4, <2>1, <2>2 DEF WatchCore, WatchInv
<1>7. PendingInv'
  BY <1>3, <1>4 DEF WatchCore, PendingInv
<1>8. QED
  BY <1>6, <1>7

LEMMA EpollWaitWatch == ASSUME WatchCore, EpollWait PROVE WatchInv' /\ PendingInv'
<1>1. /\ pc = "wait" /\ pc' = "events" /\ triggered' = Deliverable /\ pending' = {}
      /\ UNCHANGED <<ready, interest, blocked, unblocked, crossed>>
  BY DEF EpollWait, history
<1>2. triggered = {}
  BY <1>1 DEF WatchCore, Core, HandInv
<1>3. \A fd, dir : <<fd, dir>> \in triggered' <=> <<fd, dir>> \in pending /\ ready[fd][dir]
  BY <1>1 DEF Deliverable
<1>4. ASSUME NEW fd \in Fds, NEW dir \in Dirs, Straight(fd, dir)
      PROVE  /\ ready'[fd][dir] => <<fd, dir>> \in triggered'
             /\ \A e \in Dirs \ {dir} : fd \notin unblocked'[e] /\ <<fd, e>> \notin triggered'
  <2>1. ~Registering(fd, dir)
    BY <1>1 DEF Registering
  <2>2. /\ interest[fd] = dir /\ (ready[fd][dir] => <<fd, dir>> \in pending \cup triggered)
        /\ \A e \in Dirs \ {dir} : fd \notin unblocked[e]
    BY <1>4, <2>1, Watched
  <2>3. \A e \in Dirs \ {dir} : <<fd, e>> \notin pending
    BY <2>2 DEF WatchCore, PendingInv
  <2>4. QED
    BY <1>1, <1>2, <1>3, <2>2, <2>3
<1>5. QED
  BY <1>1, <1>4, WatchKept

LEMMA HandleEventWatch ==
    ASSUME WatchCore, NEW fd \in Fds, NEW dir \in Dirs, HandleEvent(fd, dir)
    PROVE  WatchInv' /\ PendingInv'
<1>1. /\ pc = "events" /\ <<fd, dir>> \in triggered
      /\ UNCHANGED <<ready, interest, pending, crossed>>
  BY DEF HandleEvent, kernel, history
<1>2. ASSUME NEW f \in Fds, NEW e \in Dirs, Straight(f, e)
      PROVE  /\ ready[f][e] => <<f, e>> \in pending \cup triggered
             /\ \A d \in Dirs \ {e} : f \notin unblocked[d] /\ <<f, d>> \notin triggered
  BY <1>1, <1>2, Watched DEF Registering
<1>3. CASE blocked_ops[fd][dir] # << >>
  <2>1. pc' = "perform" /\ UNCHANGED <<triggered, blocked, unblocked>>
    BY <1>3 DEF HandleEvent
  <2>2. QED
    BY <1>1, <1>2, <2>1, WatchKept
<1>4. CASE blocked_ops[fd][dir] = << >>
  <2>1. /\ triggered' = triggered \ {<<fd, dir>>} /\ pc' = "events"
        /\ blocked' = [blocked EXCEPT ![dir] = @ \ {fd}]
        /\ unblocked' = [unblocked EXCEPT ![dir] = @ \cup {fd}]
    BY <1>1, <1>4 DEF HandleEvent
  <2>2. \A f \in Fds, e \in Dirs :
           /\ f \in blocked'[e] <=> f \in blocked[e] /\ ~(f = fd /\ e = dir)
           /\ f \in unblocked'[e] <=> f \in unblocked[e] \/ (f = fd /\ e = dir)
    BY <2>1 DEF WatchCore, Core, TypeInv
  <2>3. QED
    BY <1>1, <1>2, <2>1, <2>2, WatchKept
<1>5. QED
  BY <1>3, <1>4

LEMMA PopWatch == ASSUME WatchCore, EventsHandled \/ Pop PROVE WatchInv' /\ PendingInv'
<1>1. /\ UNCHANGED <<ready, interest, pending, triggered, blocked, unblocked, crossed>>
      /\ pc \in {"events", "pop"} /\ pc' \in {"pop", "forget", "perform"}
  BY DEF EventsHandled, AfterEvents, Pop, kernel, local, history
<1>2. ASSUME NEW f \in Fds, NEW e \in Dirs, Straight(f, e)
      PROVE  /\ ready[f][e] => <<f, e>> \in pending \cup triggered
             /\ \A d \in Dirs \ {e} : f \notin unblocked[d] /\ <<f, d>> \notin triggered
  BY <1>1, <1>2, Watched DEF Registering
<1>3. QED
  BY <1>1, <1>2, WatchKept

LEMMA WouldBlockWatch ==
    ASSUME WatchCore, NEW o \in Ops, WouldBlock(o) PROVE WatchInv' /\ PendingInv'
<1> USE OpsAssumption
<1>1. PICK fd \in Fds, dir \in Dirs : fd = FdOf[o] /\ dir = DirOf[o]
  OBVIOUS
<1>2. /\ pc = "perform" /\ cur = o /\ ~ready[fd][dir]
      /\ UNCHANGED <<ready, interest, pending, crossed>>
  BY <1>1 DEF WouldBlock, kernel
<1>3. ASSUME NEW f \in Fds, NEW e \in Dirs, Straight(f, e)
      PROVE  /\ interest[f] = e
             /\ ready[f][e] => <<f, e>> \in pending \cup triggered
             /\ \A d \in Dirs \ {e} : f \notin unblocked[d] /\ <<f, d>> \notin triggered
  BY <1>2, <1>3, Watched DEF Registering
<1>4. CASE triggered # {}
  <2>1. /\ pc' = "events" /\ triggered' = triggered \ {<<fd, dir>>}
        /\ UNCHANGED <<blocked, unblocked>>
    BY <1>1, <1>4 DEF WouldBlock, Park, FromQueue
  <2>2. QED
    BY <1>2, <1>3, <2>1, WatchKept
<1>5. CASE triggered = {}
  <2>1. /\ pc' = "add" /\ UNCHANGED <<triggered, cur>>
        /\ unblocked' = [unblocked EXCEPT ![dir] = @ \ {fd}]
        /\ blocked' = [blocked EXCEPT ![dir] = @ \cup {fd}]
    BY <1>1, <1>5 DEF WouldBlock, Park, FromQueue
  <2>2. \A f \in Fds, e \in Dirs :
           /\ f \in blocked'[e] <=> f \in blocked[e] \/ (f = fd /\ e = dir)
           /\ f \in unblocked'[e] => f \in unblocked[e]
    BY <2>1 DEF WatchCore, Core, TypeInv
  <2>3. Registering(fd, dir)'
    BY <1>1, <1>2, <2>1 DEF Registering
  <2>4. WatchInv'
    <3> SUFFICES ASSUME NEW f \in Fds, NEW e \in Dirs, Straight(f, e)'
                 PROVE  /\ interest[f] = e \/ Registering(f, e)'
                        /\ ready[f][e] => \/ <<f, e>> \in pending \cup triggered
                                          \/ Registering(f, e)' /\ interest[f] # e
                        /\ \A d \in Dirs \ {e} : /\ <<f, d>> \notin triggered
                                                 /\ Registering(f, e)' \/ f \notin unblocked'[d]
      BY <1>2, <2>1 DEF WatchInv
    <3>1. CASE f = fd /\ e = dir
      BY <1>2, <1>5, <2>3, <3>1
    <3>2. CASE f # fd \/ e # dir
      <4>1. Straight(f, e)
        BY <1>2, <2>2, <3>2 DEF Straight
      <4>2. QED
        BY <1>3, <2>2, <4>1
    <3>3. QED
      BY <3>1, <3>2
  <2>5. PendingInv'
    BY <1>2 DEF WatchCore, PendingInv
  <2>6. QED
    BY <2>4, <2>5
<1>6. QED
  BY <1>4, <1>5

\* An operation that leaves the I/O thread, after a call that changed the
\* readiness of its descriptor at most.
LEMMA FinishWatch ==
    ASSUME WatchCore, NEW o \in Ops, NEW v, pc = "perform", cur = o, Finish(o, v),
           UNCHANGED <<interest, pending, crossed>>,
           \A f \in Fds, e \in Dirs : f # FdOf[o] \/ e # DirOf[o] => ready'[f][e] = ready[f][e]
    PROVE  WatchInv' /\ PendingInv'
<1> USE OpsAssumption
<1>1. PICK fd \in Fds, dir \in Dirs : fd = FdOf[o] /\ dir = DirOf[o]
  OBVIOUS
<1>2. ASSUME NEW f \in Fds, NEW e \in Dirs, Straight(f, e)
      PROVE  /\ ready[f][e] => <<f, e>> \in pending \cup triggered
             /\ \A d \in Dirs \ {e} : f \notin unblocked[d] /\ <<f, d>> \notin triggered
  BY <1>2, Watched DEF Registering
<1>3. /\ triggered = {} => fd \notin blocked[dir]
      /\ triggered # {} => <<fd, dir>> \in triggered
  BY <1>1 DEF WatchCore, Core, HandInv
<1>4. \A f \in Fds, e \in Dirs : f # fd \/ e # dir => ready'[f][e] = ready[f][e]
  BY <1>1
<1>5. ASSUME NEW f \in Fds, NEW e \in Dirs, Straight(f, e), ready'[f][e]
      PROVE  <<f, e>> \in pending \cup triggered
  <2>1. CASE f = fd /\ e = dir
    BY <1>3, <1>5, <2>1 DEF Straight
  <2>2. CASE f # fd \/ e # dir
    BY <1>2, <1>4, <1>5, <2>2
  <2>3. QED
    BY <2>1, <2>2
<1>6. CASE triggered = {} \/ Tail(blocked_ops[fd][dir]) # << >>
  <2>1. pc' # "add" /\ UNCHANGED <<triggered, blocked, unblocked>>
    BY <1>1, <1>6 DEF Finish, FromQueue
  <2>2. QED
    BY <1>2, <1>5, <2>1, WatchKept
<1>7. CASE triggered # {} /\ Tail(blocked_ops[fd][dir]) = << >>
  <2>1. /\ pc' = "events" /\ triggered' = triggered \ {<<fd, dir>>}
        /\ blocked' = [blocked EXCEPT ![dir] = @ \ {fd}]
        /\ unblocked' = [unblocked EXCEPT ![dir] = @ \cup {fd}]
    BY <1>1, <1>7 DEF Finish, FromQueue
  <2>2. \A f \in Fds, e \in Dirs :
           /\ f \in blocked'[e] <=> f \in blocked[e] /\ ~(f = fd /\ e = dir)
           /\ f \in unblocked'[e] <=> f \in unblocked[e] \/ (f = fd /\ e = dir)
    BY <2>1 DEF WatchCore, Core, TypeInv
  <2>3. ASSUME NEW f \in Fds, NEW e \in Dirs, Straight(f, e), f \in blocked'[e]
        PROVE  /\ ready'[f][e] => <<f, e>> \in pending \cup triggered'
               /\ \A d \in Dirs \ {e} : f \notin unblocked'[d] /\ <<f, d>> \notin triggered'
    <3>1. <<f, e>> # <<fd, dir>>
      BY <2>2, <2>3
    <3>2. \A d \in Dirs \ {e} : ~(f = fd /\ d = dir)
      BY <1>2, <1>3, <1>7, <2>3
    <3>3. QED
      BY <1>2, <1>5, <2>1, <2>2, <2>3, <3>1, <3>2
  <2>4. QED
    BY <2>1, <2>2, <2>3, WatchKept
<1>8. QED
  BY <1>6, <1>7

LEMMA FailWatch == ASSUME WatchCore, NEW o \in Ops, Fail(o) PROVE WatchInv' /\ PendingInv'
<1>1. /\ pc = "perform" /\ cur = o /\ Finish(o, -1)
      /\ UNCHANGED <<interest, pending, ready, crossed>>
  BY DEF Fail, kernel
<1>2. QED
  BY <1>1, FinishWatch

LEMMA TransferWatch ==
    ASSUME WatchCore, NEW o \in Ops, NEW r, Transfer(o, r) PROVE WatchInv' /\ PendingInv'
<1> USE OpsAssumption
<1>1. pc = "perform" /\ cur = o /\ UNCHANGED <<interest, pending, crossed>>
  BY DEF Transfer
<1>2. PICK fd \in Fds, dir \in Dirs : fd = FdOf[o] /\ dir = DirOf[o]
  OBVIOUS
<1>3. \A f \in Fds, e \in Dirs : f # fd \/ e # dir => ready'[f][e] = ready[f][e]
  <2>1. PICK left \in BOOLEAN : ready' = [ready EXCEPT ![fd][dir] = left]
    BY <1>2 DEF Transfer
  <2>2. QED
    BY <2>1 DEF WatchCore, Core, TypeInv
<1>4. CASE Loops(o, r)
  <2>1. UNCHANGED <<pc, triggered, blocked, unblocked>>
    BY <1>4 DEF Transfer, local
  <2>2. /\ triggered = {} => fd \notin blocked[dir]
        /\ triggered # {} => <<fd, dir>> \in triggered
    BY <1>1, <1>2 DEF WatchCore, Core, HandInv
  <2>3. ASSUME NEW f \in Fds, NEW e \in Dirs, Straight(f, e)
        PROVE  /\ ready'[f][e] => <<f, e>> \in pending \cup triggered
               /\ \A d \in Dirs \ {e} : f \notin unblocked[d] /\ <<f, d>> \notin triggered
    <3>1. /\ ready[f][e] => <<f, e>> \in pending \cup triggered
          /\ \A d \in Dirs \ {e} : f \notin unblocked[d] /\ <<f, d>> \notin triggered
      BY <1>1, <2>3, Watched DEF Registering
    <3>2. CASE f = fd /\ e = dir
      BY <2>2, <2>3, <3>1, <3>2 DEF Straight
    <3>3. CASE f # fd \/ e # dir
      BY <1>3, <3>1, <3>3
    <3>4. QED
      BY <3>2, <3>3
  <2>4. QED
    BY <1>1, <2>1, <2>3, WatchKept
<1>5. CASE ~Loops(o, r)
  <2>1. Finish(o, res[o] + r)
    BY <1>5 DEF Transfer
  <2>2. QED
    BY <1>1, <1>2, <1>3, <2>1, FinishWatch
<1>6. QED
  BY <1>4, <1>5

\* What it means that a registration did not cross the other direction's.
LEMMA NotCrossing ==
    ASSUME NEW o, DirOf[o] \in Dirs, ~Crosses(o)
    PROVE  \A e \in Dirs \ {DirOf[o]} : interest[FdOf[o]] # e /\ FdOf[o] \notin unblocked[e]
<1> DEFINE other == CHOOSE dir \in Dirs : dir # DirOf[o]
<1>1. \A e \in Dirs \ {DirOf[o]} : e = other
  BY DEF Dirs
<1>2. QED
  BY <1>1 DEF Crosses

LEMMA EpollAddWatch == ASSUME WatchCore, EpollAdd PROVE WatchInv' /\ PendingInv'
<1> USE OpsAssumption
<1>1. /\ pc = "add" /\ pc' = "pop" /\ UNCHANGED <<ready, triggered, blocked, unblocked>>
  BY DEF EpollAdd, AfterAdd
<1>2. cur \in Ops /\ triggered = {}
  BY <1>1 DEF WatchCore, Core, HandInv
<1>3. PICK fd \in Fds, dir \in Dirs : fd = FdOf[cur] /\ dir = DirOf[cur]
  BY <1>2
<1>4. \A f \in Fds, e \in Dirs : Registering(f, e) <=> f = fd /\ e = dir
  BY <1>1, <1>3 DEF Registering
<1>5. NULL \notin Dirs
  BY NullAssumption
<1>6. /\ crossed \subseteq crossed'
      /\ <<fd, dir>> \in crossed' \/ \A e \in Dirs \ {dir} : interest[fd] # e /\ fd \notin unblocked[e]
  <2>1. CASE Crosses(cur)
    BY <1>3, <2>1 DEF EpollAdd, AfterAdd
  <2>2. CASE ~Crosses(cur)
    BY <1>3, <2>2, NotCrossing DEF EpollAdd, AfterAdd
  <2>3. QED
    BY <2>1, <2>2
<1>7. /\ interest[fd] = NULL => interest'[fd] = dir
      /\ interest[fd] # NULL => interest'[fd] = interest[fd]
      /\ \A f \in Fds \ {fd} : interest'[f] = interest[f]
      /\ pending \subseteq pending'
      /\ interest[fd] = NULL /\ ready[fd][dir] => <<fd, dir>> \in pending'
      /\ \A f, e : <<f, e>> \in pending' =>
            <<f, e>> \in pending \/ (f = fd /\ e = dir /\ interest[fd] = NULL)
  <2>1. CASE interest[fd] = NULL
    <3>1. /\ interest' = [interest EXCEPT ![fd] = dir]
          /\ pending' = IF ready[fd][dir] THEN pending \cup {<<fd, dir>>} ELSE pending
      BY <1>3, <2>1 DEF EpollAdd
    <3>2. interest'[fd] = dir /\ \A f \in Fds \ {fd} : interest'[f] = interest[f]
      BY <3>1 DEF WatchCore, Core, TypeInv
    <3>3. QED
      BY <2>1, <3>1, <3>2
  <2>2. CASE interest[fd] # NULL
    BY <1>3, <2>2 DEF EpollAdd
  <2>3. QED
    BY <2>1, <2>2
<1>8. WatchInv'
  <2> SUFFICES ASSUME NEW f \in Fds, NEW e \in Dirs, f \in blocked[e], <<f, e>> \notin crossed'
               PROVE  /\ interest'[f] = e /\ (ready[f][e] => <<f, e>> \in pending')
                      /\ \A d \in Dirs \ {e} : f \notin unblocked[d]
    BY <1>1, <1>2 DEF WatchInv, Straight
  <2>1. Straight(f, e)
    BY <1>6 DEF Straight
  <2>2. CASE f = fd /\ e = dir
    <3>1. \A d \in Dirs \ {dir} : interest[fd] # d /\ fd \notin unblocked[d]
      BY <1>6, <2>2
    <3>2. interest[fd] \in {NULL, dir}
      BY <3>1 DEF WatchCore, Core, TypeInv
    <3>3. interest[fd] = dir /\ ready[fd][dir] => <<fd, dir>> \in pending
      BY <1>2, <2>1, <2>2 DEF WatchCore, WatchInv
    <3>4. QED
      BY <1>5, <1>7, <2>2, <3>1, <3>2, <3>3
  <2>3. CASE f # fd \/ e # dir
    <3>1. ~Registering(f, e)
      BY <1>4, <2>3
    <3>2. /\ interest[f] = e /\ (ready[f][e] => <<f, e>> \in pending)
          /\ \A d \in Dirs \ {e} : f \notin unblocked[d]
      BY <1>2, <2>1, <3>1, Watched
    <3>3. interest'[f] = e
      BY <1>5, <1>7, <3>2
    <3>4. QED
      BY <1>7, <3>2, <3>3
  <2>4. QED
    BY <2>2, <2>3
<1>9. PendingInv'
  <2> SUFFICES ASSUME NEW f \in Fds, NEW e \in Dirs, <<f, e>> \in pending' PROVE interest'[f] = e
    BY DEF PendingInv
  <2>1. CASE <<f, e>> \in pending
    <3>1. interest[f] = e
      BY <2>1 DEF WatchCore, PendingInv
    <3>2. QED
      BY <1>5, <1>7, <3>1
  <2>2. CASE <<f, e>> \notin pending
    BY <1>7, <2>2
  <2>3. QED
    BY <2>1, <2>2
<1>10. QED
  BY <1>8, <1>9

LEMMA ForgetWatch == ASSUME WatchCore, Forget PROVE WatchInv' /\ PendingInv'
<1> DEFINE fds == UNION {unblocked[dir] : dir \in Dirs}
<1>1. /\ pc = "forget" /\ pc' = "wait" /\ UNCHANGED <<ready, triggered, blocked, crossed>>
      /\ interest' = [fd \in Fds |-> IF fd \in fds THEN NULL ELSE interest[fd]]
      /\ pending' = {e \in pending : e[1] \notin fds}
      /\ unblocked' = [dir \in Dirs |-> {}]
  BY DEF Forget, history
<1>2. \A fd : fd \in fds <=> \E dir \in Dirs : fd \in unblocked[dir]
  OBVIOUS
<1> HIDE DEF fds
<1>3. \A f, e : <<f, e>> \in pending' <=> <<f, e>> \in pending /\ f \notin fds
  BY <1>1
<1>4. WatchInv'
  <2> SUFFICES ASSUME NEW f \in Fds, NEW e \in Dirs, Straight(f, e)
               PROVE  /\ interest'[f] = e /\ (ready[f][e] => <<f, e>> \in pending' \cup triggered)
                      /\ \A d \in Dirs \ {e} : f \notin unblocked'[d] /\ <<f, d>> \notin triggered
    BY <1>1 DEF WatchInv, Straight
  <2>1. ~Registering(f, e)
    BY <1>1 DEF Registering
  <2>2. /\ interest[f] = e /\ (ready[f][e] => <<f, e>> \in pending \cup triggered)
        /\ \A d \in Dirs \ {e} : f \notin unblocked[d] /\ <<f, d>> \notin triggered
    BY <2>1, Watched
  <2>3. f \notin unblocked[e]
    BY DEF Straight, WatchCore, Core, BlockedInv
  <2>4. f \notin fds
    BY <1>2, <2>2, <2>3
  <2>5. QED
    BY <1>1, <1>3, <2>2, <2>4
<1>5. PendingInv'
  BY <1>1, <1>3 DEF WatchCore, PendingInv
<1>6. QED
  BY <1>4, <1>5

LEMMA WatchStep == ASSUME WatchCore, [Next]_vars PROVE WatchCore'
<1>1. Core'
  BY CoreStep DEF WatchCore
<1>2. CASE UNCHANGED vars \/ \E o \in Ops : Submit(o)
  <2>1. UNCHANGED <<ready, interest, pending, pc, triggered, cur, blocked, unblocked, crossed>>
    BY <1>2 DEF vars, Submit, kernel, local
  <2>2. WatchInv' /\ PendingInv'
    BY <2>1 DEF WatchCore, WatchInv, PendingInv, Registering, Straight
  <2>3. QED
    BY <1>1, <2>2 DEF WatchCore
<1>3. CASE IOThread
  <2>1. WatchInv' /\ PendingInv'
    BY <1>3, EpollWaitWatch, PopWatch, EpollAddWatch, ForgetWatch, HandleEventWatch,
       WouldBlockWatch, FailWatch, TransferWatch DEF IOThread
  <2>2. QED
    BY <1>1, <2>1 DEF WatchCore
<1>4. CASE \E fd \in Fds : Reopen(fd) \/ \E dir \in Dirs : Arrive(fd, dir)
  BY <1>1, <1>4, ReopenWatch, ArriveWatch DEF WatchCore
<1>5. QED
  BY <1>2, <1>3, <1>4 DEF Next

LEMMA WatchedFollows == WatchCore => ParkedIsWatched
<1> SUFFICES ASSUME WatchCore, pc = "wait" PROVE ParkedIsWatched
  BY DEF ParkedIsWatched
<1>1. triggered = {}
  BY DEF WatchCore, Core, HandInv
<1>2. QED
  BY <1>1 DEF WatchCore, WatchInv, Registering, Straight, ParkedIsWatched

\* For any number of operations and descriptors, used in both directions or in
\* one: when the I/O thread goes to sleep in epoll_wait, epoll watches every
\* descriptor with a parked operation in that direction and has not lost an edge
\* of it, although descriptors are registered late, removed in bulk, closed and
\* reused; except for an operation whose EPOLL_CTL_ADD met the registration of
\* the other direction, or one that Forget would drop for the other direction's
\* sake.  The descriptor's first direction is not disturbed by such an operation.
THEOREM ParkedIsWatchedTheorem == Spec => []ParkedIsWatched
<1>1. Init => WatchCore
  BY InitCore, InitWatch DEF WatchCore
<1>2. WatchCore /\ [Next]_vars => WatchCore'
  BY WatchStep
<1>3. QED
  BY <1>1, <1>2, WatchedFollows, PTL DEF Spec

-----------------------------------------------------------------------------
(* The order in which operations finish *)

Stream(x, y) == FdOf[x] = FdOf[y] /\ DirOf[x] = DirOf[y]

\* An operation is finished when its future is put; until then the queue, a list
\* of parked operations or the I/O thread's hand has it.
Held(x) ==
    /\ Contains(finished, x) <=> val[x] # NULL
    /\ Contains(submitted, x) /\ val[x] = NULL =>
          Contains(queue, x) \/ Parked(x) \/ (pc = "perform" /\ cur = x)

\* What the submission of x before y still says of them, wherever they are.
InLine(x, y) ==
    /\ Contains(queue, x) => Before(queue, x, y)
    /\ Stream(x, y) =>
          /\ Contains(finished, y) => Before(finished, x, y)
          /\ Parked(y) => val[x] # NULL \/ Before(blocked_ops[FdOf[y]][DirOf[y]], x, y)
          /\ pc = "perform" /\ cur = y => val[x] # NULL

\* A stream is drawn up in one line: what is finished, what is performed or
\* parked, and what is queued, each part in the order of submission.
OrderInv ==
    /\ Distinct(submitted) /\ Distinct(finished)
    /\ \A x \in Ops : Held(x)
    /\ \A x, y \in Ops : Before(submitted, x, y) => InLine(x, y)

LEMMA BeforeIs ==
    ASSUME NEW s \in Seq(Ops), NEW u, NEW v, Before(s, u, v) PROVE Contains(s, u) /\ Contains(s, v)
<1>1. DOMAIN s = 1..Len(s)
  OBVIOUS
<1>2. QED
  BY <1>1 DEF Before, Contains

LEMMA BeforeAppend ==
    ASSUME NEW s \in Seq(Ops), NEW x \in Ops
    PROVE  \A u, v : Before(Append(s, x), u, v) <=> Before(s, u, v) \/ (Contains(s, u) /\ v = x)
<1> DEFINE t == Append(s, x)
<1>1. Len(s) \in Nat /\ DOMAIN s = 1..Len(s)
  OBVIOUS
<1>2. /\ DOMAIN t = 1..(Len(s) + 1) /\ t[Len(s) + 1] = x
      /\ \A i \in 1..Len(s) : t[i] = s[i]
  OBVIOUS
<1> HIDE DEF t
<1>3. ASSUME NEW u, NEW v, Before(t, u, v) PROVE Before(s, u, v) \/ (Contains(s, u) /\ v = x)
  <2>1. PICK i \in 1..(Len(s) + 1), j \in 1..(Len(s) + 1) : i < j /\ t[i] = u /\ t[j] = v
    BY <1>2, <1>3 DEF Before
  <2>2. i \in 1..Len(s) /\ (j \in 1..Len(s) \/ j = Len(s) + 1)
    BY <1>1, <2>1
  <2>3. s[i] = u
    BY <1>2, <2>1, <2>2
  <2>4. CASE j \in 1..Len(s)
    BY <1>1, <1>2, <2>1, <2>2, <2>3, <2>4 DEF Before
  <2>5. CASE j = Len(s) + 1
    BY <1>2, <2>1, <2>2, <2>3, <2>5 DEF Contains
  <2>6. QED
    BY <2>2, <2>4, <2>5
<1>4. ASSUME NEW u, NEW v, Before(s, u, v) PROVE Before(t, u, v)
  <2>1. PICK i \in 1..Len(s), j \in 1..Len(s) : i < j /\ s[i] = u /\ s[j] = v
    BY <1>1, <1>4 DEF Before
  <2>2. i \in 1..(Len(s) + 1) /\ j \in 1..(Len(s) + 1)
    BY <1>1
  <2>3. QED
    BY <1>2, <2>1, <2>2 DEF Before
<1>5. ASSUME NEW u, Contains(s, u) PROVE Before(t, u, x)
  <2>1. PICK i \in 1..Len(s) : s[i] = u
    BY <1>5 DEF Contains
  <2>2. /\ i \in 1..(Len(s) + 1) /\ Len(s) + 1 \in 1..(Len(s) + 1) /\ i < Len(s) + 1
    BY <1>1
  <2>3. QED
    BY <1>2, <2>1, <2>2 DEF Before
<1>6. QED
  BY <1>3, <1>4, <1>5 DEF t

LEMMA BeforeTail ==
    ASSUME NEW s \in Seq(Ops), s # << >>, Distinct(s), NEW u, NEW v, Before(s, u, v)
    PROVE  v # Head(s) /\ (u = Head(s) \/ Before(Tail(s), u, v))
<1>1. Len(s) \in Nat /\ Len(s) >= 1 /\ DOMAIN s = 1..Len(s)
  OBVIOUS
<1>2. /\ DOMAIN Tail(s) = 1..(Len(s) - 1) /\ Head(s) = s[1]
      /\ \A i \in 1..(Len(s) - 1) : Tail(s)[i] = s[i + 1]
  OBVIOUS
<1>3. PICK i \in 1..Len(s), j \in 1..Len(s) : i < j /\ s[i] = u /\ s[j] = v
  BY <1>1 DEF Before
<1>4. j # 1 /\ 1 \in 1..Len(s)
  BY <1>1, <1>3
<1>5. v # Head(s)
  BY <1>2, <1>3, <1>4 DEF Distinct
<1>6. CASE i = 1
  BY <1>2, <1>3, <1>5, <1>6
<1>7. CASE i # 1
  <2>1. /\ i - 1 \in 1..(Len(s) - 1) /\ j - 1 \in 1..(Len(s) - 1) /\ i - 1 < j - 1
        /\ (i - 1) + 1 = i /\ (j - 1) + 1 = j
    BY <1>1, <1>3, <1>7
  <2>2. Tail(s)[i - 1] = u /\ Tail(s)[j - 1] = v
    BY <1>2, <1>3, <2>1
  <2>3. QED
    BY <1>2, <1>5, <2>1, <2>2 DEF Before
<1>8. QED
  BY <1>6, <1>7

\* y is the first of the operations parked on its descriptor.
First(y) ==
    /\ y \in Ops /\ blocked_ops[FdOf[y]][DirOf[y]] # << >>
    /\ y = Head(blocked_ops[FdOf[y]][DirOf[y]])

LEMMA FirstIs ==
    ASSUME Core, OrderInv, NEW y, First(y)
    PROVE  /\ Parked(y)
           /\ \A x \in Ops : Stream(x, y) /\ Before(submitted, x, y) => val[x] # NULL
<1> USE OpsAssumption
<1>0. y \in Ops /\ FdOf[y] \in Fds /\ DirOf[y] \in Dirs
  BY DEF First
<1>1. PICK s \in Seq(Ops) : s = blocked_ops[FdOf[y]][DirOf[y]]
  BY <1>0 DEF Core, TypeInv
<1>2. s # << >> /\ Distinct(s) /\ y = Head(s)
  BY <1>0, <1>1 DEF First, Core, PlaceInv
<1>3. Parked(y)
  BY <1>1, <1>2, TailIs DEF Parked
<1>4. \A x \in Ops : ~Before(s, x, y)
  BY <1>2, BeforeTail
<1>5. QED
  BY <1>1, <1>3, <1>4 DEF First, OrderInv, InLine

\* Steps that leave the operations where they are.
LEMMA StayOrder ==
    ASSUME Core, OrderInv, UNCHANGED <<queue, blocked_ops, val, submitted, finished>>,
           pc' = "perform" => (pc = "perform" /\ cur' = cur) \/ First(cur'),
           pc = "perform" => (pc' = "perform" /\ cur' = cur) \/ Parked(cur)
    PROVE  OrderInv'
<1>1. Distinct(submitted)' /\ Distinct(finished)'
  BY DEF OrderInv
<1>2. \A x : Parked(x)' <=> Parked(x)
  BY DEF Parked
<1>3. ASSUME NEW x \in Ops PROVE Held(x)'
  BY <1>2 DEF OrderInv, Held
<1>4. ASSUME NEW x \in Ops, NEW y \in Ops, Before(submitted, x, y) PROVE InLine(x, y)'
  <2>1. InLine(x, y)
    BY <1>4 DEF OrderInv
  <2>2. ASSUME Stream(x, y), pc' = "perform", cur' = y PROVE val[x] # NULL
    BY <1>4, <2>1, <2>2, FirstIs DEF InLine
  <2>3. QED
    BY <1>2, <2>1, <2>2 DEF InLine, Stream
<1>5. QED
  BY <1>1, <1>3, <1>4 DEF OrderInv

LEMMA InitOrder == Init => OrderInv
<1> SUFFICES ASSUME Init PROVE OrderInv
  OBVIOUS
<1>1. Len(submitted) = 0 /\ Len(finished) = 0 /\ DOMAIN submitted = {}
  BY DEF Init
<1>2. Distinct(submitted) /\ Distinct(finished) /\ \A x, y : ~Before(submitted, x, y)
  BY <1>1 DEF Distinct, Before
<1>3. \A x \in Ops : ~Contains(submitted, x) /\ ~Contains(finished, x) /\ val[x] = NULL
  BY <1>1 DEF Contains, Init
<1>4. QED
  BY <1>2, <1>3 DEF OrderInv, Held

LEMMA SubmitOrder == ASSUME Core, OrderInv, NEW o \in Ops, Submit(o) PROVE OrderInv'
<1>1. /\ ~Contains(submitted, o) /\ queue' = Append(queue, o) /\ submitted' = Append(submitted, o)
      /\ UNCHANGED <<pc, cur, blocked_ops, val, finished>>
  BY DEF Submit, local
<1>2. queue \in Seq(Ops) /\ submitted \in Seq(Ops) /\ finished \in Seq(Ops)
  BY DEF Core, TypeInv
<1>3. /\ \A y : Contains(queue', y) <=> Contains(queue, y) \/ y = o
      /\ \A y : Contains(submitted', y) <=> Contains(submitted, y) \/ y = o
      /\ Distinct(submitted')
  BY <1>1, <1>2, AppendIs DEF OrderInv
<1>4. /\ \A u, v : Before(queue', u, v) <=> Before(queue, u, v) \/ (Contains(queue, u) /\ v = o)
      /\ \A u, v : Before(submitted', u, v) <=>
                   Before(submitted, u, v) \/ (Contains(submitted, u) /\ v = o)
  BY <1>1, <1>2, BeforeAppend
<1>5. \A x : Parked(x)' <=> Parked(x)
  BY <1>1 DEF Parked
<1>6. /\ ~Parked(o) /\ ~Contains(finished, o) /\ ~Contains(queue, o)
      /\ ~(pc = "perform" /\ cur = o)
  BY <1>1 DEF Core, PlaceInv, HandInv, OrderInv, Held
<1>7. Distinct(submitted)' /\ Distinct(finished)'
  BY <1>1, <1>3 DEF OrderInv
<1>8. ASSUME NEW x \in Ops PROVE Held(x)'
  <2>1. Held(x)
    BY DEF OrderInv
  <2>2. QED
    BY <1>1, <1>3, <1>5, <2>1 DEF Held
<1>9. ASSUME NEW x \in Ops, NEW y \in Ops, Before(submitted', x, y) PROVE InLine(x, y)'
  <2>1. CASE Before(submitted, x, y)
    <3>1. x # o
      BY <1>1, <1>2, <2>1, BeforeIs
    <3>2. InLine(x, y)
      BY <2>1 DEF OrderInv
    <3>3. QED
      BY <1>1, <1>3, <1>4, <1>5, <3>1, <3>2 DEF InLine, Stream
  <2>2. CASE Contains(submitted, x) /\ y = o
    <3>1. x # o
      BY <1>1, <2>2
    <3>2. QED
      BY <1>1, <1>3, <1>4, <1>5, <1>6, <2>2, <3>1 DEF InLine
  <2>3. QED
    BY <1>4, <1>9, <2>1, <2>2
<1>10. QED
  BY <1>7, <1>8, <1>9 DEF OrderInv

LEMMA HandleEventOrder ==
    ASSUME Core, OrderInv, NEW fd \in Fds, NEW dir \in Dirs, HandleEvent(fd, dir)
    PROVE  OrderInv'
<1>1. pc = "events" /\ UNCHANGED <<queue, blocked_ops, val, submitted, finished>>
  BY DEF HandleEvent, history
<1>2. ASSUME pc' = "perform" PROVE First(cur')
  <2>1. PICK s \in Seq(Ops) : s = blocked_ops[fd][dir]
    BY DEF Core, TypeInv
  <2>2. s # << >> /\ cur' = Head(s)
    BY <1>1, <1>2, <2>1 DEF HandleEvent
  <2>3. Head(s) \in Ops /\ Contains(s, Head(s))
    BY <2>1, <2>2, TailIs DEF Core, PlaceInv
  <2>4. FdOf[Head(s)] = fd /\ DirOf[Head(s)] = dir
    BY <2>1, <2>3 DEF Core, PlaceInv
  <2>5. QED
    BY <2>1, <2>2, <2>3, <2>4 DEF First
<1>3. QED
  BY <1>1, <1>2, StayOrder

\* An operation that nothing parked or queued comes before is put behind those
\* parked on its descriptor: whatever was before it is finished or among them.
LEMMA ParkOrder ==
    ASSUME Core, OrderInv, NEW o, NEW fd, NEW dir, Behind(o, fd, dir),
           Contains(submitted, o), UNCHANGED <<val, submitted, finished>>, pc' # "perform",
           \A x \in Ops : Contains(queue', x) <=> Contains(queue, x) /\ x # o,
           \A x, y \in Ops : Before(queue, x, y) /\ x # o => Before(queue', x, y),
           \A x \in Ops : Stream(x, o) /\ Before(submitted, x, o) => val[x] # NULL \/ Parked(x),
           pc = "perform" => cur = o
    PROVE  OrderInv'
<1> USE OpsAssumption
<1>0. /\ o \in Ops /\ fd \in Fds /\ dir \in Dirs /\ fd = FdOf[o] /\ dir = DirOf[o] /\ ~Parked(o)
      /\ blocked_ops' = [blocked_ops EXCEPT ![fd][dir] = Append(@, o)]
  BY DEF Behind
<1>1. PICK s \in Seq(Ops) : s = blocked_ops[fd][dir]
  BY <1>0 DEF Core, TypeInv
<1>2. /\ \A f \in Fds, e \in Dirs : f # fd \/ e # dir => blocked_ops'[f][e] = blocked_ops[f][e]
      /\ \A x \in Ops : Parked(x)' <=> Parked(x) \/ x = o
  BY ParkOne
<1>3. blocked_ops'[fd][dir] = Append(s, o)
  BY <1>0, <1>1 DEF Core, TypeInv
<1>4. \A u, v : Before(Append(s, o), u, v) <=> Before(s, u, v) \/ (Contains(s, u) /\ v = o)
  BY <1>0, BeforeAppend
<1>5. Distinct(submitted)' /\ Distinct(finished)'
  BY DEF OrderInv
<1>6. ASSUME NEW x \in Ops PROVE Held(x)'
  <2>1. Held(x)
    BY DEF OrderInv
  <2>2. QED
    BY <1>2, <2>1 DEF Held
<1>7. ASSUME NEW x \in Ops, NEW y \in Ops, Before(submitted, x, y) PROVE InLine(x, y)'
  <2>1. InLine(x, y)
    BY <1>7 DEF OrderInv
  <2>2. Contains(queue', x) => Before(queue', x, y)
    BY <2>1 DEF InLine
  <2>3. ASSUME Stream(x, y), Parked(y)', val[x] = NULL
        PROVE  Before(blocked_ops'[FdOf[y]][DirOf[y]], x, y)
    <3>1. CASE y = o
      <4>1. Parked(x) /\ FdOf[x] = fd /\ DirOf[x] = dir
        BY <1>0, <1>7, <2>3, <3>1 DEF Stream
      <4>2. Contains(s, x)
        BY <1>1, <4>1 DEF Parked
      <4>3. QED
        BY <1>0, <1>3, <1>4, <3>1, <4>2
    <3>2. CASE y # o
      <4>1. Before(blocked_ops[FdOf[y]][DirOf[y]], x, y)
        BY <1>2, <2>1, <2>3, <3>2 DEF InLine
      <4>2. CASE FdOf[y] = fd /\ DirOf[y] = dir
        BY <1>1, <1>3, <1>4, <4>1, <4>2
      <4>3. CASE FdOf[y] # fd \/ DirOf[y] # dir
        BY <1>2, <4>1, <4>3
      <4>4. QED
        BY <4>2, <4>3
    <3>3. QED
      BY <3>1, <3>2
  <2>4. QED
    BY <2>1, <2>2, <2>3 DEF InLine, Stream
<1>8. QED
  BY <1>5, <1>6, <1>7 DEF OrderInv

LEMMA PopOrder == ASSUME Core, OrderInv, Pop PROVE OrderInv'
<1> USE OpsAssumption
<1>1. pc = "pop" /\ UNCHANGED <<val, submitted, finished>>
  BY DEF Pop, history
<1>2. CASE queue = << >>
  <2>1. pc' = "forget" /\ UNCHANGED <<queue, blocked_ops, cur>>
    BY <1>2 DEF Pop
  <2>2. QED
    BY <1>1, <2>1, StayOrder
<1>3. CASE queue # << >>
  <2>1. queue \in Seq(Ops) /\ Distinct(queue) /\ submitted \in Seq(Ops)
    BY DEF Core, TypeInv, PlaceInv
  <2>2. PICK o : o = Head(queue)
    OBVIOUS
  <2>3. /\ o \in Ops /\ Contains(queue, o) /\ queue' = Tail(queue)
        /\ \A x : Contains(queue', x) <=> Contains(queue, x) /\ x # o
    BY <1>3, <2>1, <2>2, TailIs DEF Pop
  <2>4. \A x, y : Before(queue, x, y) => y # o /\ (x = o \/ Before(queue', x, y))
    BY <1>3, <2>1, <2>2, <2>3, BeforeTail
  <2>5. PICK fd \in Fds, dir \in Dirs : fd = FdOf[o] /\ dir = DirOf[o]
    BY <2>3
  <2>6. ~Parked(o) /\ val[o] = NULL /\ Contains(submitted, o)
    BY <2>3 DEF Core, PlaceInv
  <2>7. ASSUME NEW x \in Ops, Before(submitted, x, o) PROVE val[x] # NULL \/ Parked(x)
    <3>1. ~Contains(queue, x)
      BY <2>3, <2>4, <2>7 DEF OrderInv, InLine
    <3>2. Contains(submitted, x)
      BY <2>1, <2>7, BeforeIs
    <3>3. QED
      BY <1>1, <3>1, <3>2 DEF OrderInv, Held
  <2>8. CASE fd \in blocked[dir]
    <3>1. /\ blocked_ops' = [blocked_ops EXCEPT ![fd][dir] = Append(@, o)]
          /\ UNCHANGED <<pc, cur>>
      BY <1>3, <2>2, <2>5, <2>8 DEF Pop, IsParked
    <3>2. Behind(o, fd, dir)
      BY <2>3, <2>5, <2>6, <3>1 DEF Behind
    <3>3. /\ pc # "perform" /\ pc' # "perform"
          /\ \A x \in Ops : Contains(queue', x) <=> Contains(queue, x) /\ x # o
          /\ \A x, y \in Ops : Before(queue, x, y) /\ x # o => Before(queue', x, y)
          /\ \A x \in Ops : Stream(x, o) /\ Before(submitted, x, o) => val[x] # NULL \/ Parked(x)
      BY <1>1, <2>3, <2>4, <2>7, <3>1
    <3>4. QED
      BY <1>1, <2>6, <3>2, <3>3, ParkOrder
  <2>9. CASE fd \notin blocked[dir]
    <3>1. cur' = o /\ pc' = "perform" /\ UNCHANGED blocked_ops
      BY <1>3, <2>2, <2>5, <2>9 DEF Pop, IsParked
    <3>2. \A x : Parked(x)' <=> Parked(x)
      BY <3>1 DEF Parked
    <3>3. Distinct(submitted)' /\ Distinct(finished)'
      BY <1>1 DEF OrderInv
    <3>4. ASSUME NEW x \in Ops PROVE Held(x)'
      <4>1. Held(x)
        BY DEF OrderInv
      <4>2. QED
        BY <1>1, <2>3, <3>1, <3>2, <4>1 DEF Held
    <3>5. \A x \in Ops : Stream(x, o) => ~Parked(x)
      <4>1. blocked_ops[fd][dir] = << >>
        BY <2>9 DEF Core, BlockedInv
      <4>2. QED
        BY <2>5, <4>1 DEF Stream, Parked, Contains
    <3>6. ASSUME NEW x \in Ops, NEW y \in Ops, Before(submitted, x, y) PROVE InLine(x, y)'
      <4>1. InLine(x, y)
        BY <3>6 DEF OrderInv
      <4>2. Contains(queue', x) => Before(queue', x, y)
        BY <2>3, <2>4, <4>1 DEF InLine
      <4>3. Stream(x, y) /\ o = y => val[x] # NULL
        BY <2>7, <3>5, <3>6
      <4>4. QED
        BY <1>1, <3>1, <3>2, <4>1, <4>2, <4>3 DEF InLine, Stream
    <3>7. QED
      BY <1>1, <3>3, <3>4, <3>6 DEF OrderInv
  <2>10. QED
    BY <2>8, <2>9
<1>4. QED
  BY <1>2, <1>3

LEMMA WouldBlockOrder ==
    ASSUME Core, OrderInv, NEW o \in Ops, WouldBlock(o) PROVE OrderInv'
<1> USE OpsAssumption, NullAssumption
<1>1. /\ pc = "perform" /\ cur = o
      /\ UNCHANGED <<queue, val, submitted, finished>>
  BY DEF WouldBlock, Park
<1>2. PICK fd \in Fds, dir \in Dirs : fd = FdOf[o] /\ dir = DirOf[o]
  OBVIOUS
<1>3. CASE triggered # {}
  <2>1. pc' = "events" /\ UNCHANGED blocked_ops
    BY <1>3 DEF WouldBlock, Park, FromQueue
  <2>2. First(cur)
    BY <1>1, <1>3 DEF First, Core, HandInv
  <2>3. Parked(cur)
    BY <2>2, FirstIs
  <2>4. QED
    BY <1>1, <2>1, <2>3, StayOrder
<1>4. CASE triggered = {}
  <2>1. /\ pc' = "add"
        /\ blocked_ops' = [blocked_ops EXCEPT ![fd][dir] = Append(@, o)]
    BY <1>2, <1>4 DEF WouldBlock, Park, FromQueue
  <2>2. /\ Contains(submitted, o) /\ ~Contains(queue, o) /\ ~Parked(o)
    BY <1>1, <1>4, WhoIsPerformed
  <2>3. Behind(o, fd, dir)
    BY <1>2, <2>1, <2>2 DEF Behind
  <2>4. /\ pc' # "perform" /\ (pc = "perform" => cur = o)
        /\ \A x \in Ops : Contains(queue', x) <=> Contains(queue, x) /\ x # o
        /\ \A x, y \in Ops : Before(queue, x, y) /\ x # o => Before(queue', x, y)
    BY <1>1, <2>1, <2>2
  <2>5. \A x \in Ops : Stream(x, o) /\ Before(submitted, x, o) => val[x] # NULL \/ Parked(x)
    BY <1>1 DEF OrderInv, InLine
  <2>6. QED
    BY <1>1, <2>2, <2>3, <2>4, <2>5, ParkOrder
<1>5. QED
  BY <1>3, <1>4

LEMMA FinishOrder ==
    ASSUME Core, OrderInv, NEW o \in Ops, pc = "perform", cur = o, NEW v \in Int, Finish(o, v),
           UNCHANGED <<queue, submitted>>
    PROVE  OrderInv'
<1> USE OpsAssumption, NullAssumption
<1>1. PICK fd \in Fds, dir \in Dirs : fd = FdOf[o] /\ dir = DirOf[o]
  OBVIOUS
<1>2. /\ val[o] = NULL /\ Contains(submitted, o) /\ ~Contains(queue, o)
      /\ triggered = {} => ~Parked(o)
  BY WhoIsPerformed
<1>3. /\ finished' = Append(finished, o) /\ val'[o] # NULL
      /\ \A x \in Ops \ {o} : val'[x] = val[x]
  BY DEF Finish, Core, TypeInv
<1>4. finished \in Seq(Ops) /\ ~Contains(finished, o)
  BY <1>2 DEF Core, TypeInv, OrderInv, Held
<1>5. /\ \A x : Contains(finished', x) <=> Contains(finished, x) \/ x = o
      /\ \A x, y : Before(finished', x, y) <=>
                   Before(finished, x, y) \/ (Contains(finished, x) /\ y = o)
      /\ Distinct(finished')
  BY <1>3, <1>4, AppendIs, BeforeAppend DEF OrderInv
<1>6. /\ \A x \in Ops : Parked(x)' <=> Parked(x) /\ x # o
      /\ \A x, y \in Ops : /\ Stream(x, y) /\ x # o
                           /\ Before(blocked_ops[FdOf[y]][DirOf[y]], x, y)
                           => Before(blocked_ops'[FdOf[y]][DirOf[y]], x, y)
      /\ pc' = "perform" => /\ cur' \in Ops /\ cur' # o /\ Parked(cur)'
                            /\ \A x : ~Before(blocked_ops'[FdOf[cur']][DirOf[cur']], x, cur')
  <2>1. CASE triggered = {}
    <3>1. pc' = "pop" /\ UNCHANGED blocked_ops
      BY <2>1 DEF Finish, FromQueue
    <3>2. QED
      BY <1>2, <2>1, <3>1 DEF Parked
  <2>2. CASE triggered # {}
    <3>1. blocked_ops \in [Fds -> [Dirs -> Seq(Ops)]]
      BY DEF Core, TypeInv
    <3>2. PICK s \in Seq(Ops) : s = blocked_ops[fd][dir]
      BY <3>1
    <3>3. s # << >> /\ o = Head(s) /\ Distinct(s)
      BY <1>1, <2>2, <3>2 DEF Core, HandInv, PlaceInv
    <3>4. PICK t : t = Tail(s)
      OBVIOUS
    <3>5. /\ t \in Seq(Ops) /\ \A x : Contains(t, x) <=> Contains(s, x) /\ x # o
      BY <3>3, <3>4, TailIs
    <3>6. \A x, y : Before(s, x, y) /\ x # o => Before(t, x, y)
      BY <3>3, <3>4, BeforeTail
    <3>7. Updated(blocked_ops, blocked_ops', fd, dir, t)
      BY <1>1, <2>2, <3>1, <3>2, <3>4, <3>5 DEF Updated, Finish, FromQueue
    <3>8. /\ blocked_ops'[fd][dir] = t
          /\ \A f \in Fds, e \in Dirs : f # fd \/ e # dir => blocked_ops'[f][e] = blocked_ops[f][e]
      BY <3>7, At
    <3>9. ASSUME NEW x \in Ops PROVE Parked(x)' <=> Parked(x) /\ x # o
      <4>1. CASE FdOf[x] = fd /\ DirOf[x] = dir
        BY <3>2, <3>5, <3>8, <4>1 DEF Parked
      <4>2. CASE FdOf[x] # fd \/ DirOf[x] # dir
        <5>1. FdOf[x] \in Fds /\ DirOf[x] \in Dirs
          OBVIOUS
        <5>2. blocked_ops'[FdOf[x]][DirOf[x]] = blocked_ops[FdOf[x]][DirOf[x]]
          BY <3>8, <4>2, <5>1
        <5>3. QED
          BY <1>1, <4>2, <5>2 DEF Parked
      <4>3. QED
        BY <4>1, <4>2
    <3>10. ASSUME NEW x \in Ops, NEW y \in Ops, x # o,
                  Before(blocked_ops[FdOf[y]][DirOf[y]], x, y)
           PROVE  Before(blocked_ops'[FdOf[y]][DirOf[y]], x, y)
      <4>1. CASE FdOf[y] = fd /\ DirOf[y] = dir
        BY <3>2, <3>6, <3>8, <3>10, <4>1
      <4>2. CASE FdOf[y] # fd \/ DirOf[y] # dir
        <5>1. FdOf[y] \in Fds /\ DirOf[y] \in Dirs
          OBVIOUS
        <5>2. blocked_ops'[FdOf[y]][DirOf[y]] = blocked_ops[FdOf[y]][DirOf[y]]
          BY <3>8, <4>2, <5>1
        <5>3. QED
          BY <3>10, <5>2
      <4>3. QED
        BY <4>1, <4>2
    <3>11. ASSUME pc' = "perform"
           PROVE  /\ cur' \in Ops /\ cur' # o /\ Parked(cur)'
                  /\ \A x : ~Before(blocked_ops'[FdOf[cur']][DirOf[cur']], x, cur')
      <4>1. t # << >> /\ cur' = Head(t)
        BY <1>1, <2>2, <3>2, <3>4, <3>11 DEF Finish, FromQueue
      <4>2. Distinct(t)
        BY <3>3, <3>4, TailIs
      <4>3. PICK h \in Ops : h = Head(t) /\ Contains(t, h) /\ cur' = h
        BY <3>5, <4>1, <4>2, TailIs
      <4>4. Contains(s, h) /\ h # o
        BY <3>5, <4>3
      <4>5. FdOf[h] = fd /\ DirOf[h] = dir
        BY <3>2, <4>4 DEF Core, PlaceInv
      <4>6. \A x : ~Before(t, x, h)
        BY <3>5, <4>1, <4>2, <4>3, BeforeTail
      <4>7. QED
        BY <3>8, <4>3, <4>4, <4>5, <4>6 DEF Parked
    <3>12. QED
      BY <3>9, <3>10, <3>11
  <2>3. QED
    BY <2>1, <2>2
<1>7. Distinct(submitted)' /\ Distinct(finished)'
  BY <1>5 DEF OrderInv
<1>8. ASSUME NEW x \in Ops PROVE Held(x)'
  <2>1. Held(x)
    BY DEF OrderInv
  <2>2. CASE x = o
    BY <1>3, <1>5, <2>2 DEF Held
  <2>3. CASE x # o
    BY <1>3, <1>5, <1>6, <2>1, <2>3 DEF Held
  <2>4. QED
    BY <2>2, <2>3
<1>9. ASSUME NEW x \in Ops, NEW y \in Ops, Before(submitted, x, y) PROVE InLine(x, y)'
  <2>1. InLine(x, y)
    BY <1>9 DEF OrderInv
  <2>2. ASSUME Stream(x, y), Contains(finished', y) PROVE Before(finished', x, y)
    <3>1. CASE Contains(finished, y)
      BY <1>5, <2>1, <2>2, <3>1 DEF InLine
    <3>2. CASE y = o
      <4>1. val[x] # NULL
        BY <2>1, <2>2, <3>2 DEF InLine
      <4>2. Contains(finished, x)
        BY <4>1 DEF OrderInv, Held
      <4>3. QED
        BY <1>5, <3>2, <4>2
    <3>3. QED
      BY <1>5, <2>2, <3>1, <3>2
  <2>3. ASSUME Stream(x, y), Parked(y)', val'[x] = NULL
        PROVE  Before(blocked_ops'[FdOf[y]][DirOf[y]], x, y)
    <3>1. x # o /\ val[x] = NULL
      BY <1>3, <2>3
    <3>2. QED
      BY <1>6, <2>1, <2>3, <3>1 DEF InLine
  <2>4. ASSUME Stream(x, y), pc' = "perform", cur' = y PROVE val'[x] # NULL
    BY <1>6, <2>3, <2>4
  <2>5. Contains(queue', x) => Before(queue', x, y)
    BY <2>1 DEF InLine
  <2>6. QED
    BY <2>2, <2>3, <2>4, <2>5 DEF InLine, Stream
<1>10. QED
  BY <1>7, <1>8, <1>9 DEF OrderInv

LEMMA OrderStep == Core /\ OrderInv /\ [Next]_vars => OrderInv'
<1> SUFFICES ASSUME Core, OrderInv, [Next]_vars PROVE OrderInv'
  OBVIOUS
<1> USE OpsAssumption
<1>1. CASE UNCHANGED vars
  BY <1>1, StayOrder DEF vars
<1>2. CASE EpollWait \/ EventsHandled \/ EpollAdd \/ Forget
  <2>1. /\ UNCHANGED <<queue, blocked_ops, val, submitted, finished>>
        /\ pc # "perform" /\ pc' # "perform"
    BY <1>2 DEF EpollWait, EventsHandled, EpollAdd, AfterAdd, Forget, AfterEvents, local, history
  <2>2. QED
    BY <2>1, StayOrder
<1>3. ASSUME NEW fd \in Fds, Reopen(fd) \/ \E dir \in Dirs : Arrive(fd, dir) PROVE OrderInv'
  <2>1. UNCHANGED <<queue, blocked_ops, val, submitted, finished, pc, cur>>
    BY <1>3 DEF Reopen, Arrive, local, history
  <2>2. QED
    BY <2>1, StayOrder
<1>4. ASSUME NEW o \in Ops, Fail(o) PROVE OrderInv'
  <2>1. pc = "perform" /\ cur = o /\ Finish(o, -1) /\ UNCHANGED <<queue, submitted>> /\ -1 \in Int
    BY <1>4 DEF Fail
  <2>2. QED
    BY <2>1, FinishOrder
<1>5. ASSUME NEW o \in Ops, NEW r \in 0..nbyte[o], Transfer(o, r) PROVE OrderInv'
  <2>1. pc = "perform" /\ cur = o /\ UNCHANGED <<queue, submitted>> /\ res[o] + r \in Int
    BY <1>5 DEF Transfer, Core, TypeInv
  <2>2. CASE Loops(o, r)
    <3>1. UNCHANGED <<pc, val, finished, cur, blocked_ops>>
      BY <1>5, <2>2 DEF Transfer, local
    <3>2. QED
      BY <2>1, <3>1, StayOrder
  <2>3. CASE ~Loops(o, r)
    <3>1. Finish(o, res[o] + r)
      BY <1>5, <2>3 DEF Transfer
    <3>2. QED
      BY <2>1, <3>1, FinishOrder
  <2>4. QED
    BY <2>2, <2>3
<1>6. QED
  BY <1>1, <1>2, <1>3, <1>4, <1>5, SubmitOrder, PopOrder, HandleEventOrder, WouldBlockOrder
  DEF Next, IOThread

LEMMA OrderFollows == Core /\ OrderInv => InOrder
<1> SUFFICES ASSUME Core, OrderInv PROVE InOrder
  OBVIOUS
<1>1. \A i, j \in DOMAIN finished : finished[i] = finished[j] => i = j
  <2>1. finished \in Seq(Ops) /\ Distinct(finished)
    BY DEF Core, TypeInv, OrderInv
  <2>2. DOMAIN finished = 1..Len(finished)
    BY <2>1
  <2>3. QED
    BY <2>1, <2>2 DEF Distinct
<1>2. \A o \in Ops : Contains(finished, o) => Contains(submitted, o)
  BY DEF OrderInv, Held, Core, PlaceInv
<1>3. QED
  BY <1>1, <1>2 DEF InOrder, OrderInv, InLine, Stream

\* For any number of operations on any descriptors: what was submitted first on
\* a stream finishes first, whether it came from the queue or from the operations
\* parked on the descriptor, and each future is put once (handle_event,
\* perform_io_until_block and the loop of scheduler_thread_proc_for_io_worker).
THEOREM InOrderTheorem == Spec => []InOrder
<1>1. Init => Core /\ OrderInv
  BY InitCore, InitOrder
<1>2. Core /\ OrderInv /\ [Next]_vars => Core' /\ OrderInv'
  BY CoreStep, OrderStep
<1>3. QED
  BY <1>1, <1>2, OrderFollows, PTL DEF Spec

=============================================================================
