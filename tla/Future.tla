------------------------------- MODULE Future -------------------------------
(***************************************************************************)
(* cilk::future<T>: getters that come early hand their deque to a lock-    *)
(* free list of waiters, put walks the list and wakes them.                *)
(*                                                                         *)
(* A deque has one link, so it is in at most one list; the list is joined  *)
(* by exchanging the tail first and storing the predecessor's next         *)
(* pointer later, so put may have to wait for a link to appear.  The       *)
(* counter tells getters whether the value is there and put how many       *)
(* waiters to expect: put adds INT32_MIN to it.                            *)
(*                                                                         *)
(* A definition whose name continues that of the one below it is the       *)
(* latter's mutant.                                                        *)
(***************************************************************************)
EXTENDS Integers, FiniteSets

CONSTANTS
    Deques,     \* deques, each with the strand that runs on it
    Futures,
    Wants,      \* Wants[d]: the futures the strand on d may get
    INT32_MIN,  \* what put adds to the counter
    NULL

ASSUME WantsAssumption == Wants \in [Deques -> SUBSET Futures]
ASSUME MinAssumption ==
    /\ IsFiniteSet(Deques)
    /\ INT32_MIN \in Int /\ INT32_MIN + Cardinality(Deques) < 0
ASSUME NullAssumption ==
    /\ NULL \notin Deques \cup Futures
    /\ Deques \cap Futures = {}

VARIABLES
    count,      \* m_num_suspended_deques of each future
    tail,       \* its tail: the future itself stands for its head link
    next,       \* the next pointer of every link (head links and deques')
    gpc,        \* where each strand is in get()
    fut,        \* the future it is getting
    old,        \* old_tail in __cilkrts_insert_deque_into_list
    ppc,        \* where the strand that computes each future is in put()
    node, num, ret, \* locals of put()
    strayed     \* history: a put has had the link it was about to follow
                \* taken away by the waiter it had just woken

vars == <<count, tail, next, gpc, fut, old, ppc, node, num, ret, strayed>>
getVars == <<gpc, fut, old, strayed>>
putVars == <<ppc, node, num, ret, strayed>>

Links == Deques \cup Futures

TypeOK ==
    /\ count \in [Futures -> INT32_MIN..Cardinality(Deques)]
    /\ tail \in [Futures -> Links]
    /\ next \in [Links -> Deques \cup {NULL}]
    /\ gpc \in [Deques -> {"run", "ready", "ticket", "null", "xchg", "link",
                           "suspending", "suspended", "assert"}]
    /\ fut \in [Deques -> Futures \cup {NULL}]
    /\ old \in [Deques -> Links \cup {NULL}]
    /\ ppc \in [Futures -> {"compute", "first", "more", "wake", "resume", "done"}]
    /\ node \in [Futures -> Links \cup {NULL}]
    /\ num \in [Futures -> 0..Cardinality(Deques)]
    /\ ret \in [Futures -> Deques \cup {NULL}]
    /\ strayed \in BOOLEAN

\* future()
Init ==
    /\ count = [f \in Futures |-> 0]
    /\ tail = [f \in Futures |-> f]
    /\ next = [l \in Links |-> NULL]
    /\ gpc = [d \in Deques |-> "run"]
    /\ fut = [d \in Deques |-> NULL]
    /\ old = [d \in Deques |-> NULL]
    /\ ppc = [f \in Futures |-> "compute"]
    /\ node = [f \in Futures |-> NULL]
    /\ num = [f \in Futures |-> 0]
    /\ ret = [f \in Futures |-> NULL]
    /\ strayed = FALSE

Ready(f) == count[f] < 0

-----------------------------------------------------------------------------
(* get() on the strand of deque d *)

Goto(d, label) == gpc' = [gpc EXCEPT ![d] = label]

Get(d, f) ==
    /\ gpc[d] = "run"
    /\ f \in Wants[d]
    /\ fut' = [fut EXCEPT ![d] = f]
    /\ Goto(d, "ready")
    /\ UNCHANGED <<count, tail, next, old>> /\ UNCHANGED putVars

CheckReady(d) ==
    /\ gpc[d] = "ready"
    /\ Goto(d, IF Ready(fut[d]) THEN "assert" ELSE "ticket")
    /\ UNCHANGED <<count, tail, next, fut, old>> /\ UNCHANGED putVars

\* suspend_deque(): the ticket decides whether put has happened meanwhile.
MustSuspendLate(ticket) == ticket > 0
MustSuspend(ticket) == ticket >= 0

TakeTicket(d) ==
    /\ gpc[d] = "ticket"
    /\ count[fut[d]] < Cardinality(Deques)  \* bound, met only once strayed
    /\ count' = [count EXCEPT ![fut[d]] = @ + 1]
    /\ Goto(d, IF MustSuspend(count[fut[d]]) THEN "null" ELSE "assert")
    /\ UNCHANGED <<tail, next, fut, old>> /\ UNCHANGED putVars

\* A put that has just woken the strand on d goes on from d's link.
Followed(d) == \E f \in Futures : ppc[f] = "more" /\ node[f] = d

\* __cilkrts_insert_deque_into_list, one shared access at a time.  The link
\* is cleared before the exchange publishes it.
ClearLink(d) ==
    /\ gpc[d] = "null"
    /\ next' = [next EXCEPT ![d] = NULL]
    /\ Goto(d, "xchg")
    /\ strayed' = (strayed \/ Followed(d))
    /\ UNCHANGED <<count, tail, fut, old, ppc, node, num, ret>>

ExchangeTail(d) ==
    /\ gpc[d] = "xchg"
    /\ old' = [old EXCEPT ![d] = tail[fut[d]]]
    /\ tail' = [tail EXCEPT ![fut[d]] = d]
    /\ Goto(d, "link")
    /\ UNCHANGED <<count, next, fut>> /\ UNCHANGED putVars

LinkBehindOld(d) ==
    /\ gpc[d] = "link"
    /\ next' = [next EXCEPT ![old[d]] = d]
    /\ Goto(d, "suspending")
    /\ UNCHANGED <<count, tail, fut, old>> /\ UNCHANGED putVars

\* __cilkrts_suspend_deque: once the worker is off the fiber, the fiber is
\* marked resumable and the deque may be woken.
Suspend(d) ==
    /\ gpc[d] = "suspending"
    /\ Goto(d, "suspended")
    /\ UNCHANGED <<count, tail, next, fut, old>> /\ UNCHANGED putVars

\* get() goes past its assert(ready()) and returns the value.
Return(d) ==
    /\ gpc[d] = "assert"
    /\ Goto(d, "run")
    /\ fut' = [fut EXCEPT ![d] = NULL]
    /\ old' = [old EXCEPT ![d] = NULL]
    /\ UNCHANGED <<count, tail, next>> /\ UNCHANGED putVars

-----------------------------------------------------------------------------
(* put() on the strand that computes f *)

PGoto(f, label) == ppc' = [ppc EXCEPT ![f] = label]

Put(f) ==
    /\ ppc[f] = "compute"
    /\ count' = [count EXCEPT ![f] = @ + INT32_MIN]
    /\ num' = [num EXCEPT ![f] = count[f]]
    /\ node' = [node EXCEPT ![f] = f]
    /\ PGoto(f, IF count[f] > 0 THEN "first" ELSE "done")
    /\ UNCHANGED <<tail, next, ret>> /\ UNCHANGED getVars

\* The first waiter is kept for the caller, which resumes it last.
MoreWaitersMissed(n) == n > 1
MoreWaiters(n) == n > 0

FirstWaiter(f) ==
    /\ ppc[f] = "first"
    /\ next[node[f]] # NULL
    /\ node' = [node EXCEPT ![f] = next[node[f]]]
    /\ ret' = [ret EXCEPT ![f] = next[node[f]]]
    /\ num' = [num EXCEPT ![f] = @ - 1]
    /\ PGoto(f, IF MoreWaiters(num[f] - 1) THEN "more" ELSE "resume")
    /\ UNCHANGED <<count, tail, next>> /\ UNCHANGED getVars

NextWaiter(f) ==
    /\ ppc[f] = "more"
    /\ next[node[f]] # NULL
    /\ node' = [node EXCEPT ![f] = next[node[f]]]
    /\ num' = [num EXCEPT ![f] = @ - 1]
    /\ PGoto(f, "wake")
    /\ UNCHANGED <<count, tail, next, ret>> /\ UNCHANGED getVars

\* __cilkrts_make_resumable spins until the deque is fully suspended; from
\* then on any worker may resume it.
Wake(f) ==
    /\ ppc[f] = "wake"
    /\ gpc[node[f]] = "suspended"
    /\ Goto(node[f], "assert")
    /\ PGoto(f, IF MoreWaiters(num[f]) THEN "more" ELSE "resume")
    /\ UNCHANGED <<count, tail, next, fut, old, node, num, ret, strayed>>

\* __spawn_future_helper resumes the deque put returned.
Resume(f) ==
    /\ ppc[f] = "resume"
    /\ gpc[ret[f]] = "suspended"
    /\ Goto(ret[f], "assert")
    /\ PGoto(f, "done")
    /\ UNCHANGED <<count, tail, next, fut, old, node, num, ret, strayed>>

\* reset(), or a new future constructed in its place: only when the program
\* is done with the old one.
Reset(f) ==
    /\ ppc[f] = "done"
    /\ \A d \in Deques : fut[d] # f
    /\ count' = [count EXCEPT ![f] = 0]
    /\ tail' = [tail EXCEPT ![f] = f]
    /\ next' = [next EXCEPT ![f] = NULL]
    /\ PGoto(f, "compute")
    /\ node' = [node EXCEPT ![f] = NULL]
    /\ num' = [num EXCEPT ![f] = 0]
    /\ ret' = [ret EXCEPT ![f] = NULL]
    /\ UNCHANGED getVars

-----------------------------------------------------------------------------
Getter(d) ==
    \/ CheckReady(d) \/ TakeTicket(d) \/ ClearLink(d) \/ ExchangeTail(d)
    \/ LinkBehindOld(d) \/ Suspend(d) \/ Return(d)

Putter(f) ==
    Put(f) \/ FirstWaiter(f) \/ NextWaiter(f) \/ Wake(f) \/ Resume(f)

Next ==
    \/ \E d \in Deques : Getter(d) \/ \E f \in Futures : Get(d, f)
    \/ \E f \in Futures : Putter(f) \/ Reset(f)

\* Strands run to completion once started: workers that run them are not
\* stopped, and the future's own computation ends.  Nobody has to call get()
\* or to reuse a future.
Fairness ==
    /\ \A d \in Deques : WF_vars(Getter(d))
    /\ \A f \in Futures : WF_vars(Putter(f))

Spec == Init /\ [][Next]_vars /\ Fairness

-----------------------------------------------------------------------------
(* Properties *)

Waiting(d, f) == fut[d] = f /\ gpc[d] \in {"null", "xchg", "link",
                                            "suspending", "suspended"}

\* assert(ready()) at the end of get(): whatever path brought the strand
\* there, and whoever woke it, the value is there.
AssertReady == \A d \in Deques : gpc[d] = "assert" => Ready(fut[d])

\* What the code achieves of it: the assertion can fail only once a waiter
\* has been woken, has returned and has queued itself for another future
\* before the put that woke it read its link.
GetReturnsReady == AssertReady \/ strayed

\* A get() returns, unless that happens: its future is computed and put
\* reaches every waiter, however slowly the links of other waiters appear.
GetTerminates ==
    \A d \in Deques : gpc[d] # "run" ~> gpc[d] = "run" \/ strayed

\* Until then the future behaves like the cell it promises to be.
Cell == INSTANCE FutureCell WITH
            full <- [f \in Futures |-> Ready(f)],
            reading <- {p \in Deques \X Futures : fut[p[1]] = p[2]},
            void <- strayed
ImplementsCell == Cell!Spec
=============================================================================
