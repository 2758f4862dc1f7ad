----------------------------- MODULE IOScheduler ----------------------------
(***************************************************************************)
(* The I/O thread of a worker: it takes read and write operations from the *)
(* queue (IOQueue, here the first-in first-out queue it implements), tries *)
(* them on non-blocking descriptors, parks the ones that would block until *)
(* epoll reports the descriptor, and puts the result into the operation's  *)
(* future.  One system call is one action; the kernel changes the          *)
(* readiness of descriptors in between.                                    *)
(*                                                                         *)
(* A definition whose name continues that of the one below it is the       *)
(* latter's mutant.                                                        *)
(***************************************************************************)
EXTENDS Integers, Sequences, SequencesExt

CONSTANTS
    Ops,
    Fds,        \* file descriptors
    FdOf,       \* FdOf[o]: the descriptor of operation o
    DirOf,      \* DirOf[o]: "read" or "write"
    SizeOf,     \* SizeOf[o]: how many bytes it asks for
    NULL

Dirs == {"read", "write"}

ASSUME OpsAssumption ==
    /\ FdOf \in [Ops -> Fds]
    /\ DirOf \in [Ops -> Dirs]
    /\ SizeOf \in [Ops -> Nat \ {0}]
ASSUME NullAssumption == NULL \notin Ops \cup Dirs \cup Int

VARIABLES
    queue, wakeup,          \* the I/O queue, and its eventfd's edge
    ready,                  \* ready[fd][dir]: the kernel would not block
    interest,               \* interest[fd]: the direction epoll watches, or NULL
    pending,                \* epoll's ready list of <<fd, dir>>
    pc,                     \* where the I/O thread is
    triggered,              \* triggered_events still to be handled
    cur,                    \* the operation being performed
    check_queue,
    blocked,                \* blocked[dir]: blocked_read_fds, blocked_write_fds
    unblocked,              \* unblocked[dir]: ready_read_fds, ready_write_fds
    blocked_ops,            \* blocked_ops[fd][dir]
    nbyte, buf, res,        \* fields of each io_op_t
    val,                    \* the value of its future, NULL before put
    moved,                  \* bytes the kernel really moved for it
    submitted, finished,    \* the operations in the order of push and of put
    crossed                 \* history: the descriptors and directions that an
                            \* operation has parked on while the descriptor's
                            \* registration was, or was about to be dropped by,
                            \* the other direction's

kernel == <<ready, interest, pending>>
local == <<triggered, cur, check_queue, blocked, unblocked, blocked_ops>>
fields == <<nbyte, buf, res>>
history == <<moved, submitted, finished, crossed>>
vars == <<queue, wakeup, ready, interest, pending, pc, triggered, cur, check_queue,
          blocked, unblocked, blocked_ops, nbyte, buf, res, val, moved, submitted, finished,
          crossed>>

TypeOK ==
    /\ queue \in Seq(Ops) /\ wakeup \in BOOLEAN
    /\ ready \in [Fds -> [Dirs -> BOOLEAN]]
    /\ interest \in [Fds -> Dirs \cup {NULL}]
    /\ pending \subseteq Fds \X Dirs
    /\ pc \in {"wait", "events", "perform", "pop", "add", "forget"}
    /\ triggered \subseteq Fds \X Dirs
    /\ cur \in Ops \cup {NULL}
    /\ check_queue \in BOOLEAN
    /\ blocked \in [Dirs -> SUBSET Fds] /\ unblocked \in [Dirs -> SUBSET Fds]
    /\ \A fd \in Fds, dir \in Dirs : blocked_ops[fd][dir] \in Seq(Ops)
    /\ \A o \in Ops : nbyte[o] \in 0..SizeOf[o] /\ buf[o] \in 0..SizeOf[o]
    /\ crossed \subseteq Fds \X Dirs
    /\ \A o \in Ops : res[o] \in -1..SizeOf[o] /\ val[o] \in {NULL} \cup -1..SizeOf[o]

Init ==
    /\ queue = << >> /\ wakeup = FALSE
    /\ ready = [fd \in Fds |-> [dir \in Dirs |-> FALSE]]
    /\ interest = [fd \in Fds |-> NULL] /\ pending = {}
    /\ pc = "wait" /\ triggered = {} /\ cur = NULL /\ check_queue = TRUE
    /\ blocked = [dir \in Dirs |-> {}] /\ unblocked = [dir \in Dirs |-> {}]
    /\ blocked_ops = [fd \in Fds |-> [dir \in Dirs |-> << >>]]
    /\ nbyte = SizeOf /\ buf = [o \in Ops |-> 0] /\ res = [o \in Ops |-> 0]
    /\ val = [o \in Ops |-> NULL] /\ moved = [o \in Ops |-> 0]
    /\ submitted = << >> /\ finished = << >> /\ crossed = {}

-----------------------------------------------------------------------------
(* The worker and the kernel *)

\* cilk_read, cilk_write
Submit(o) ==
    /\ ~Contains(submitted, o)
    /\ queue' = Append(queue, o) /\ wakeup' = TRUE
    /\ submitted' = Append(submitted, o)
    /\ UNCHANGED <<pc, val, moved, finished, crossed>>
    /\ UNCHANGED kernel /\ UNCHANGED local /\ UNCHANGED fields

\* Data or buffer space arrives where some operation looks for it.
Arrive(fd, dir) ==
    /\ \E o \in Ops : FdOf[o] = fd /\ DirOf[o] = dir
    /\ ready' = [ready EXCEPT ![fd][dir] = TRUE]
    /\ pending' = IF interest[fd] = dir THEN pending \cup {<<fd, dir>>} ELSE pending
    /\ UNCHANGED <<queue, wakeup, interest, pc, val>>
    /\ UNCHANGED local /\ UNCHANGED fields /\ UNCHANGED history

\* The program closes a descriptor it has no operation on, and a new file gets
\* its number; epoll forgets the old one.
Reopen(fd) ==
    /\ \A o \in Ops : FdOf[o] = fd /\ Contains(submitted, o) => val[o] # NULL
    /\ ready' = [ready EXCEPT ![fd] = [dir \in Dirs |-> FALSE]]
    /\ interest' = [interest EXCEPT ![fd] = NULL]
    /\ pending' = {e \in pending : e[1] # fd}
    /\ UNCHANGED <<queue, wakeup, pc, val>>
    /\ UNCHANGED local /\ UNCHANGED fields /\ UNCHANGED history

-----------------------------------------------------------------------------
(* scheduler_thread_proc_for_io_worker *)

Deliverable == {e \in pending : ready[e[1]][e[2]]}

EpollWait ==
    /\ pc = "wait"
    /\ Deliverable # {} \/ wakeup
    /\ triggered' = Deliverable /\ pending' = {}
    /\ check_queue' = (check_queue \/ wakeup) /\ wakeup' = FALSE
    /\ pc' = "events"
    /\ UNCHANGED <<queue, ready, interest, cur, blocked, unblocked, blocked_ops, val>>
    /\ UNCHANGED fields /\ UNCHANGED history

AfterEvents == IF check_queue THEN "pop" ELSE "forget"

\* handle_event, up to its first system call
HandleEvent(fd, dir) ==
    /\ pc = "events"
    /\ <<fd, dir>> \in triggered
    /\ IF blocked_ops[fd][dir] # << >>
       THEN /\ cur' = Head(blocked_ops[fd][dir])
            /\ pc' = "perform"
            /\ UNCHANGED <<triggered, blocked, unblocked>>
       ELSE /\ triggered' = triggered \ {<<fd, dir>>}
            /\ blocked' = [blocked EXCEPT ![dir] = @ \ {fd}]
            /\ unblocked' = [unblocked EXCEPT ![dir] = @ \cup {fd}]
            /\ UNCHANGED <<pc, cur>>
    /\ UNCHANGED <<queue, wakeup, check_queue, blocked_ops, val>>
    /\ UNCHANGED kernel /\ UNCHANGED fields /\ UNCHANGED history

EventsHandled ==
    /\ pc = "events" /\ triggered = {}
    /\ pc' = AfterEvents
    /\ UNCHANGED <<queue, wakeup, val>> /\ UNCHANGED kernel
    /\ UNCHANGED local /\ UNCHANGED fields /\ UNCHANGED history

IsParkedNever(o) == FALSE
IsParked(o) == FdOf[o] \in blocked[DirOf[o]]

Pop ==
    /\ pc = "pop"
    /\ \/ /\ queue = << >>
          /\ check_queue' = FALSE
          /\ pc' = "forget"
          /\ UNCHANGED <<queue, blocked_ops, cur>>
       \/ /\ queue # << >>
          /\ queue' = Tail(queue)
          /\ LET o == Head(queue) IN
             IF IsParked(o)
             THEN /\ blocked_ops' = [blocked_ops EXCEPT ![FdOf[o]][DirOf[o]] = Append(@, o)]
                  /\ UNCHANGED <<pc, cur>>
             ELSE /\ cur' = o
                  /\ pc' = "perform"
                  /\ UNCHANGED blocked_ops
          /\ UNCHANGED check_queue
    /\ UNCHANGED <<wakeup, triggered, blocked, unblocked, val>>
    /\ UNCHANGED kernel /\ UNCHANGED fields /\ UNCHANGED history

\* What the system call may return on fd: EAGAIN exactly when not ready; a
\* call that goes through may or may not use up what is there.
Results(fd, dir, n) ==
    IF ready[fd][dir] THEN (IF dir = "read" THEN 0..n ELSE 1..n) ELSE {}

\* perform_io_until_block is called by handle_event, while there are triggered
\* events, and for operations just popped, when they have been handled.
FromQueue == triggered = {}

\* The call with result r was not the last one.
Loops(o, r) == nbyte[o] - r > 0 /\ r > 0 /\ DirOf[o] # "read"

\* The operation leaves the I/O thread, its future is put.
Finish(o, v) ==
    LET fd == FdOf[o]
        dir == DirOf[o]
        rest == Tail(blocked_ops[fd][dir]) IN
    /\ val' = [val EXCEPT ![o] = v]
    /\ finished' = Append(finished, o)
    /\ IF FromQueue
       THEN pc' = "pop" /\ cur' = NULL
            /\ UNCHANGED <<triggered, blocked, unblocked, blocked_ops>>
       ELSE /\ blocked_ops' = [blocked_ops EXCEPT ![fd][dir] = rest]
            /\ IF rest # << >>
               THEN pc' = "perform" /\ cur' = Head(rest)
                    /\ UNCHANGED <<triggered, blocked, unblocked>>
               ELSE /\ pc' = "events" /\ cur' = NULL
                    /\ triggered' = triggered \ {<<fd, dir>>}
                    /\ blocked' = [blocked EXCEPT ![dir] = @ \ {fd}]
                    /\ unblocked' = [unblocked EXCEPT ![dir] = @ \cup {fd}]

\* The call would have blocked: wait for epoll, registering first if new.
Park(o) ==
    LET fd == FdOf[o]
        dir == DirOf[o] IN
    /\ IF FromQueue
       THEN /\ pc' = "add"
            /\ unblocked' = [unblocked EXCEPT ![dir] = @ \ {fd}]
            /\ blocked' = [blocked EXCEPT ![dir] = @ \cup {fd}]
            /\ blocked_ops' = [blocked_ops EXCEPT ![fd][dir] = Append(@, o)]
            /\ UNCHANGED <<triggered, cur>>
       ELSE /\ pc' = "events" /\ cur' = NULL
            /\ triggered' = triggered \ {<<fd, dir>>}
            /\ UNCHANGED <<blocked, unblocked, blocked_ops>>
    /\ UNCHANGED <<val, finished>>

Fields(o, n, b, s) ==
    /\ nbyte' = [nbyte EXCEPT ![o] = n]
    /\ buf' = [buf EXCEPT ![o] = b]
    /\ res' = [res EXCEPT ![o] = s]

\* read() or write() moves r bytes.
Transfer(o, r) ==
    /\ pc = "perform" /\ cur = o
    /\ r \in Results(FdOf[o], DirOf[o], nbyte[o])
    /\ \E left \in BOOLEAN : ready' = [ready EXCEPT ![FdOf[o]][DirOf[o]] = left]
    /\ Fields(o, nbyte[o] - r, buf[o] + r, res[o] + r)
    /\ moved' = [moved EXCEPT ![o] = @ + r]
    /\ IF Loops(o, r)
       THEN UNCHANGED <<pc, val, finished>> /\ UNCHANGED local
       ELSE Finish(o, res[o] + r) /\ UNCHANGED check_queue
    /\ UNCHANGED <<queue, wakeup, interest, pending, submitted, crossed>>

WouldBlockKeepsRes(o) ==
    /\ pc = "perform" /\ cur = o
    /\ ~ready[FdOf[o]][DirOf[o]]
    /\ Fields(o, (nbyte[o] - -1) + -1, (buf[o] + -1) - -1, res[o] + -1)
    /\ Park(o)
    /\ UNCHANGED <<queue, wakeup, check_queue, moved, submitted, crossed>>
    /\ UNCHANGED kernel

\* It returns -1: the loop's updates are taken back.
WouldBlock(o) ==
    /\ pc = "perform" /\ cur = o
    /\ ~ready[FdOf[o]][DirOf[o]]
    /\ Fields(o, (nbyte[o] - -1) + -1, (buf[o] + -1) - -1, (res[o] + -1) - -1)
    /\ Park(o)
    /\ UNCHANGED <<queue, wakeup, check_queue, moved, submitted, crossed>>
    /\ UNCHANGED kernel

\* It returns -1 with an errno other than EAGAIN.
Fail(o) ==
    /\ pc = "perform" /\ cur = o
    /\ Fields(o, (nbyte[o] - -1) + -1, (buf[o] + -1) - -1, -1)
    /\ Finish(o, -1)
    /\ UNCHANGED <<queue, wakeup, check_queue, moved, submitted, crossed>>
    /\ UNCHANGED kernel

\* The descriptor is registered for the other direction, or that direction has
\* been unblocked in this round and Forget will drop whatever is registered.
Crosses(o) ==
    LET other == CHOOSE dir \in Dirs : dir # DirOf[o]
    IN  interest[FdOf[o]] = other \/ FdOf[o] \in unblocked[other]

AfterAdd ==
    /\ crossed' = IF Crosses(cur) THEN crossed \cup {<<FdOf[cur], DirOf[cur]>>} ELSE crossed
    /\ pc' = "pop" /\ cur' = NULL
    /\ UNCHANGED <<queue, wakeup, ready, triggered, check_queue, blocked, unblocked, blocked_ops, val>>
    /\ UNCHANGED <<moved, submitted, finished>> /\ UNCHANGED fields

EpollAddBlind ==
    /\ pc = "add"
    /\ LET fd == FdOf[cur]
       IN  interest' = [interest EXCEPT ![fd] = IF @ = NULL THEN DirOf[cur] ELSE @]
    /\ UNCHANGED pending
    /\ AfterAdd

\* EPOLL_CTL_ADD, whose result is not looked at: it fails with EEXIST if the
\* descriptor is registered, in whichever direction.
EpollAdd ==
    /\ pc = "add"
    /\ LET fd == FdOf[cur]
           dir == DirOf[cur] IN
       IF interest[fd] = NULL
       THEN /\ interest' = [interest EXCEPT ![fd] = dir]
            /\ pending' = IF ready[fd][dir] THEN pending \cup {<<fd, dir>>} ELSE pending
       ELSE UNCHANGED <<interest, pending>>
    /\ AfterAdd

\* EPOLL_CTL_DEL of everything that was unblocked.
Forget ==
    /\ pc = "forget"
    /\ LET fds == UNION {unblocked[dir] : dir \in Dirs} IN
       /\ interest' = [fd \in Fds |-> IF fd \in fds THEN NULL ELSE interest[fd]]
       /\ pending' = {e \in pending : e[1] \notin fds}
    /\ unblocked' = [dir \in Dirs |-> {}]
    /\ pc' = "wait"
    /\ UNCHANGED <<queue, wakeup, ready, triggered, cur, check_queue, blocked, blocked_ops, val>>
    /\ UNCHANGED fields /\ UNCHANGED history

-----------------------------------------------------------------------------
IOThread ==
    \/ EpollWait \/ EventsHandled \/ Pop \/ EpollAdd \/ Forget
    \/ \E fd \in Fds, dir \in Dirs : HandleEvent(fd, dir)
    \/ \E o \in Ops : WouldBlock(o) \/ Fail(o) \/ \E r \in 0..nbyte[o] : Transfer(o, r)

Next ==
    \/ IOThread
    \/ \E o \in Ops : Submit(o)
    \/ \E fd \in Fds : Reopen(fd) \/ \E dir \in Dirs : Arrive(fd, dir)

\* The I/O thread runs, and the other side of a descriptor does its part: what
\* is lacking arrives, but it need not arrive twice.
Fairness ==
    /\ WF_vars(IOThread)
    /\ \A fd \in Fds, dir \in Dirs : WF_vars(~ready[fd][dir] /\ Arrive(fd, dir))

Spec == Init /\ [][Next]_vars /\ Fairness

-----------------------------------------------------------------------------
(* Properties *)

\* Whenever the I/O thread goes to sleep, epoll watches every descriptor on
\* which an operation is parked, in that direction, and will report it if it
\* has become ready since the operation was tried: except where an operation
\* has parked across the other direction's registration, since a descriptor
\* has only one.  Those of the other direction are not harmed by that.
ParkedIsWatched ==
    pc = "wait" =>
        \A fd \in Fds, dir \in Dirs :
            fd \in blocked[dir] /\ <<fd, dir>> \notin crossed =>
                /\ interest[fd] = dir
                /\ ready[fd][dir] => <<fd, dir>> \in pending

Before(s, x, y) == \E i, j \in DOMAIN s : i < j /\ s[i] = x /\ s[j] = y

\* Operations on one descriptor in one direction finish in the order in which
\* they were submitted, each once and none before an earlier one, whether they
\* were parked or not: a stream is not shuffled.
InOrder ==
    /\ \A i, j \in DOMAIN finished : finished[i] = finished[j] => i = j
    /\ \A o \in Ops : Contains(finished, o) => Contains(submitted, o)
    /\ \A x, y \in Ops :
          /\ FdOf[x] = FdOf[y] /\ DirOf[x] = DirOf[y]
          /\ Before(submitted, x, y) /\ Contains(finished, y)
          => Before(finished, x, y)

\* The result in the future is what the kernel moved or an error, whatever
\* number of partial transfers and refusals there were; and a parked operation
\* goes on at the byte after the last one moved.
ReportsWhatMoved ==
    \A o \in Ops :
        /\ val[o] \in {NULL, -1, moved[o]}
        /\ val[o] = NULL => buf[o] = moved[o] /\ nbyte[o] = SizeOf[o] - moved[o]

\* Every submitted operation's future gets its value, unless operations have
\* parked across each other on its descriptor.
Completes ==
    \A o \in Ops :
        Contains(submitted, o) ~> val[o] # NULL \/ <<FdOf[o], DirOf[o]>> \in crossed
=============================================================================
