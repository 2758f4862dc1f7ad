------------------------------- MODULE Runtime -------------------------------
(***************************************************************************)
(* The life of the runtime.  Whichever thread of the user first calls Cilk *)
(* initialises it and starts the system workers; every thread then binds   *)
(* itself to a worker.  While no thread of the user is in Cilk the system  *)
(* workers sleep.  They form a binary tree, and each has a signal node, a  *)
(* flag and a semaphore: the message to run or to wait is sent to the root *)
(* and every worker passes it to its children.                             *)
(*                                                                         *)
(* Worker 0 is the user's, 1..P-1 are the system's and 1 is the root.  A   *)
(* failed assertion or __cilkrts_bug ends the process.                     *)
(*                                                                         *)
(* A definition whose name continues that of the one below it is the       *)
(* latter's mutant.                                                        *)
(***************************************************************************)
EXTENDS GlobalState, Sequences, FiniteSets

CONSTANTS
    Threads,        \* threads of the user
    Envs,           \* environments the process may be started in
    Settings,       \* <<param, value>> pairs given to __cilkrts_set_param
    MaxP,           \* bound: number of workers
    MaxCalls,       \* bound: calls of the user's threads
    NoThread

ASSUME BoundsAssumption == MaxP \in Nat \ {0} /\ MaxCalls \in Nat
ASSUME ThreadsAssumption == NoThread \notin Threads /\ Threads \cap (1..MaxP) = {}
ASSUME EnvsAssumption == \A env \in Envs : get_user_settable_values(env).P <= MaxP

VARIABLES
    g,              \* the settings
    pool_size,      \* of the workers' and the shared pool of fibers, once they are made
    published,      \* cilkg_singleton_ptr is set
    workers_running, work_done, Q,
    mutex,          \* who holds the global OS mutex
    user_worker,    \* the thread bound to worker 0
    threads,        \* OS threads created for each system worker
    run, sem,       \* the signal nodes
    steal_failure_count,    \* of the root; the others' are not looked at
    where,          \* of the user's threads and the system workers
    todo,           \* writes to signal nodes, and threads to create, still ahead of each
    binds,          \* does the thread's call of init_internal start the workers?
    aborted, calls

global == <<g, pool_size, published, workers_running, work_done, Q, user_worker, threads>>
nodes == <<run, sem>>
runtimeVars == <<g, pool_size, published, workers_running, work_done, Q, mutex, user_worker,
          threads, run, sem, steal_failure_count, where, todo, binds, aborted, calls>>

SysWorkers == 1..(MaxP - 1)
Actors == Threads \cup SysWorkers
RootWorker == 1

ThreadLabels == {"out", "initlock", "publish", "start", "startlock", "create", "bindlock",
                 "enter", "in", "paused", "resuming", "overflow", "ending"}
WorkerLabels == {"none", "wait", "sem", "notify_run", "loop", "busy",
                 "notify_wait", "exited"}

RuntimeTypeOK ==
    /\ pool_size \in [worker : Nat, shared : Nat]
    /\ published \in BOOLEAN /\ workers_running \in BOOLEAN /\ work_done \in BOOLEAN
    /\ Q \in Nat
    /\ mutex \in Threads \cup {NoThread} /\ user_worker \in Threads \cup {NoThread}
    /\ threads \in [SysWorkers -> Nat]
    /\ run \in [SysWorkers -> {0, 1}] /\ sem \in [SysWorkers -> Nat]
    /\ steal_failure_count \in Nat
    /\ where \in [Actors -> ThreadLabels \cup WorkerLabels]
    /\ todo \in [Actors -> Seq({"run", "wait", "post", "create"} \X SysWorkers)]
    /\ binds \in [Threads -> BOOLEAN]
    /\ aborted \in BOOLEAN /\ calls \in 0..MaxCalls

RuntimeInit ==
    /\ pool_size = [worker |-> 0, shared |-> 0]
    /\ g \in {get_user_settable_values(env) : env \in Envs}
    /\ published = FALSE /\ workers_running = FALSE /\ work_done = FALSE
    /\ Q = 0 /\ mutex = NoThread /\ user_worker = NoThread
    /\ threads = [w \in SysWorkers |-> 0]
    /\ run = [w \in SysWorkers |-> 0] /\ sem = [w \in SysWorkers |-> 0]
    /\ steal_failure_count = 0
    /\ where = [a \in Actors |-> IF a \in Threads THEN "out" ELSE "none"]
    /\ todo = [a \in Actors |-> << >>]
    /\ binds = [t \in Threads |-> FALSE]
    /\ aborted = FALSE /\ calls = 0

MoveTo(a, label) == where' = [where EXCEPT ![a] = label]

-----------------------------------------------------------------------------
(* Messages *)

\* signal_node_msg: the flag, and for a message to run the semaphore next.
signal_node_msg(w, msg) ==
    IF msg = 0 THEN << <<"wait", w>> >> ELSE << <<"run", w>>, <<"post", w>> >>

\* Node n of the tree is worker n + 1; its children are 2n + 1 and 2n + 2.
children(w) ==
    LET first == 2 * (w - 1) + 1
    IN SelectSeq(<<first + 1, first + 2>>, LAMBDA c : c - 1 < g.P - 1)

notify_children_first_only(w, msg) ==
    LET c == children(w)
    IN IF Len(c) = 0 THEN << >> ELSE signal_node_msg(c[1], msg)
notify_children(w, msg) ==
    LET c == children(w)
    IN IF Len(c) = 0 THEN << >>
       ELSE IF Len(c) = 1 THEN signal_node_msg(c[1], msg)
       ELSE signal_node_msg(c[1], msg) \o signal_node_msg(c[2], msg)

\* One write to a signal node.
Send(a) ==
    LET op == Head(todo[a])[1]
        w == Head(todo[a])[2]
    IN /\ todo[a] # << >>
       /\ run' = IF op = "post" THEN run ELSE [run EXCEPT ![w] = IF op = "run" THEN 1 ELSE 0]
       /\ sem' = IF op = "post" THEN [sem EXCEPT ![w] = @ + 1] ELSE sem
       /\ todo' = [todo EXCEPT ![a] = Tail(@)]
Sent(a) == Len(todo[a]) = 1

-----------------------------------------------------------------------------
(* System workers *)

\* signal_node_wait: the flag is looked at again after every wait.
signal_node_wait(w) ==
    /\ where[w] = "wait"
    /\ IF run[w] = 0
       THEN MoveTo(w, "sem") /\ UNCHANGED <<todo, steal_failure_count>>
       ELSE /\ todo' = [todo EXCEPT ![w] = notify_children(w, 1)]
            /\ MoveTo(w, IF children(w) = << >> THEN "loop" ELSE "notify_run")
            /\ steal_failure_count' = IF w = RootWorker THEN 0 ELSE steal_failure_count
    /\ UNCHANGED <<global, nodes, mutex, binds, calls>>

wait_on_cilk_semaphore(w) ==
    /\ where[w] = "sem" /\ sem[w] > 0
    /\ sem' = [sem EXCEPT ![w] = @ - 1]
    /\ MoveTo(w, "wait")
    /\ UNCHANGED <<global, run, mutex, steal_failure_count, todo, binds, calls>>

\* The worker tells its children to wait, and then waits; when it wakes up
\* it tells them to run, and goes on.
Notify(w) ==
    /\ where[w] \in {"notify_run", "notify_wait"}
    /\ Send(w)
    /\ MoveTo(w, IF ~Sent(w) THEN where[w]
               ELSE IF where[w] = "notify_run" THEN "loop" ELSE "wait")
    /\ UNCHANGED <<global, mutex, steal_failure_count, binds, calls>>

\* Only after failing to steal for long does the root look whether it should
\* sleep.
worker_runnable(w) ==
    IF work_done THEN "EXIT"
    ELSE IF run[w] = 0 /\ (w = RootWorker => steal_failure_count > g.max_steal_failures)
    THEN "WAIT" ELSE "RUN"

\* The root's count, once it has seen that threads are still in Cilk.
FailureCount ==
    IF steal_failure_count > g.max_steal_failures THEN 0 ELSE steal_failure_count

\* check_for_work: there may be some while a thread of the user is in Cilk.
check_for_work(w) ==
    /\ worker_runnable(w) = "RUN"
    /\ \/ /\ \E t \in Threads : where[t] = "in"
          /\ MoveTo(w, "busy")
          /\ steal_failure_count' = IF w = RootWorker THEN 0 ELSE steal_failure_count
       \/ /\ steal_failure_count' = IF w = RootWorker THEN FailureCount + 1 ELSE steal_failure_count
          /\ UNCHANGED where
    /\ UNCHANGED todo

search_until_work_found_or_done(w) ==
    /\ where[w] = "loop"
    /\ \/ check_for_work(w)
       \/ /\ worker_runnable(w) = "WAIT"
          /\ todo' = [todo EXCEPT ![w] = notify_children(w, 0)]
          /\ MoveTo(w, IF children(w) = << >> THEN "wait" ELSE "notify_wait")
          /\ UNCHANGED steal_failure_count
       \/ /\ worker_runnable(w) = "EXIT"
          /\ MoveTo(w, "exited") /\ UNCHANGED <<todo, steal_failure_count>>
    /\ UNCHANGED <<global, nodes, mutex, binds, calls>>

FinishWork(w) ==
    /\ where[w] = "busy" /\ MoveTo(w, "loop")
    /\ UNCHANGED <<global, nodes, mutex, steal_failure_count, todo, binds, calls>>

WorkerStep(w) ==
    /\ \/ signal_node_wait(w) \/ wait_on_cilk_semaphore(w) \/ Notify(w)
       \/ search_until_work_found_or_done(w) \/ FinishWork(w)
    /\ ~aborted /\ UNCHANGED aborted

-----------------------------------------------------------------------------
(* Initialisation and start of the workers *)

Calling == calls < MaxCalls /\ calls' = calls + 1

\* __cilkrts_set_param.  The settings are not synchronised: the program calls
\* it while no other thread initialises the runtime.
SetParam(t) ==
    \E s \in Settings :
    /\ where[t] = "out" /\ Calling
    /\ \A u \in Threads : where[u] \in {"out", "in", "paused"}
    /\ g' = set_param_imp(g, published, s[1], s[2]).g
    /\ g'.P <= MaxP
    /\ UNCHANGED <<pool_size, published, workers_running, work_done, Q, user_worker, threads,
                   nodes, mutex, steal_failure_count, where, todo, binds>>

\* __cilkrts_init_internal, from __cilkrts_init or from bind_thread.
init_internal(t) ==
    /\ where[t] = "out" /\ Calling
    /\ \E start \in BOOLEAN : binds' = [binds EXCEPT ![t] = start]
    /\ MoveTo(t, IF published THEN "start" ELSE "initlock")
    /\ UNCHANGED <<global, nodes, mutex, steal_failure_count, todo>>

\* Under the mutex the state is looked at again.  The pools of fibers keep the
\* sizes with which they are made here.
init_workers(t) ==
    /\ where[t] = "initlock" /\ mutex = NoThread
    /\ IF published
       THEN MoveTo(t, "start") /\ UNCHANGED <<g, pool_size, mutex>>
       ELSE /\ g' = init_global_state(g)
            /\ pool_size' = [worker |-> g'.fiber_pool_size, shared |-> g'.global_fiber_pool_size]
            /\ mutex' = t /\ MoveTo(t, "publish")
    /\ UNCHANGED <<published, workers_running, work_done, Q, user_worker, threads, nodes,
                   steal_failure_count, todo, binds, calls>>

cilkg_publish_global_state(t) ==
    /\ where[t] = "publish"
    /\ published' = TRUE /\ mutex' = NoThread /\ MoveTo(t, "start")
    /\ UNCHANGED <<g, pool_size, workers_running, work_done, Q, user_worker, threads, nodes,
                   steal_failure_count, todo, binds, calls>>

\* workers_running is looked at without the mutex, then with it.
CheckRunning(t) ==
    /\ where[t] = "start"
    /\ MoveTo(t, IF ~binds[t] THEN "out" ELSE IF workers_running THEN "bindlock" ELSE "startlock")
    /\ UNCHANGED <<global, nodes, mutex, steal_failure_count, todo, binds, calls>>

\* start_workers: the flag is set before there are any threads.
StartThreads(t) ==
    /\ workers_running' = TRUE /\ work_done' = FALSE
    /\ todo' = [todo EXCEPT ![t] = [i \in 1..(g.P - 1) |-> <<"create", i>>]]
    /\ mutex' = t /\ MoveTo(t, "create")
start_workers_unchecked(t) ==
    /\ where[t] = "startlock" /\ mutex = NoThread
    /\ StartThreads(t)
    /\ UNCHANGED <<g, pool_size, published, Q, user_worker, threads, nodes, steal_failure_count,
                   binds, calls>>
start_workers(t) ==
    /\ where[t] = "startlock" /\ mutex = NoThread
    /\ IF workers_running
       THEN MoveTo(t, "bindlock") /\ UNCHANGED <<workers_running, work_done, mutex, todo>>
       ELSE StartThreads(t)
    /\ UNCHANGED <<g, pool_size, published, Q, user_worker, threads, nodes, steal_failure_count,
                   binds, calls>>

\* create_threads: the workers start in signal_node_wait.
create_threads(t) ==
    /\ where[t] = "create"
    /\ IF todo[t] = << >>
       THEN mutex' = NoThread /\ MoveTo(t, "bindlock") /\ UNCHANGED <<threads, todo>>
       ELSE LET w == Head(todo[t])[2]
            IN /\ threads' = [threads EXCEPT ![w] = @ + 1]
               /\ MoveTo(w, "wait")
               /\ todo' = [todo EXCEPT ![t] = Tail(@)] /\ UNCHANGED mutex
    /\ UNCHANGED <<g, pool_size, published, workers_running, work_done, Q, user_worker, nodes,
                   steal_failure_count, binds, calls>>

-----------------------------------------------------------------------------
(* Entering and leaving Cilk *)

\* wake_runtime
WakeRuntime == IF g.P > 1 THEN signal_node_msg(RootWorker, 1) ELSE << >>

\* find_free_worker and __cilkrts_enter_cilk.  Worker 0 is the only one that
\* may be free; beyond it stand system workers, on which the scan asserts, or,
\* with one worker, a worker is made that the global state does not know.
find_free_worker(t) ==
    /\ where[t] = "bindlock" /\ mutex = NoThread /\ ~work_done
    /\ \/ /\ user_worker = NoThread
          /\ user_worker' = t /\ Q' = Q + 1
          /\ todo' = [todo EXCEPT ![t] = IF Q = 0 THEN WakeRuntime ELSE << >>]
          /\ IF todo'[t] = << >> THEN MoveTo(t, "in") /\ UNCHANGED mutex
                                 ELSE MoveTo(t, "enter") /\ mutex' = t
       \/ /\ user_worker # NoThread /\ g.P = 1
          /\ MoveTo(t, "overflow")
          /\ UNCHANGED <<user_worker, Q, todo, mutex>>
    /\ UNCHANGED <<g, pool_size, published, workers_running, work_done, threads, nodes,
                   steal_failure_count, binds, calls>>

\* wake_runtime in bind_thread, under the mutex, or __cilkrts_resume.
SendFromThread(t) ==
    /\ where[t] \in {"enter", "resuming"}
    /\ Send(t)
    /\ MoveTo(t, IF Sent(t) THEN "in" ELSE where[t])
    /\ mutex' = IF Sent(t) /\ mutex = t THEN NoThread ELSE mutex
    /\ UNCHANGED <<global, steal_failure_count, binds, calls>>

\* The root's count is written while the root may be counting: either may win.
suspend(t) ==
    /\ where[t] = "in" /\ g.P > 1 /\ Calling
    /\ \A w \in SysWorkers : where[w] # "busy"
    /\ steal_failure_count' \in {g.max_steal_failures + 1, steal_failure_count}
    /\ run' = [run EXCEPT ![RootWorker] = 0]
    /\ MoveTo(t, "paused")
    /\ UNCHANGED <<global, sem, mutex, todo, binds>>

resume(t) ==
    /\ where[t] = "paused" /\ Calling
    /\ todo' = [todo EXCEPT ![t] = signal_node_msg(RootWorker, 1)]
    /\ MoveTo(t, "resuming")
    /\ UNCHANGED <<global, nodes, mutex, steal_failure_count, binds>>

\* unbind_thread and __cilkrts_leave_cilk, when every strand has ended.
unbind_thread_awake(t) ==
    /\ where[t] \in {"in", "paused"} /\ mutex = NoThread
    /\ \A w \in SysWorkers : where[w] # "busy"
    /\ user_worker' = NoThread /\ Q' = Q - 1
    /\ MoveTo(t, "out")
    /\ UNCHANGED <<g, pool_size, published, workers_running, work_done, threads, run, sem, mutex,
                   steal_failure_count, todo, binds, calls>>
unbind_thread(t) ==
    /\ where[t] \in {"in", "paused"} /\ mutex = NoThread
    /\ \A w \in SysWorkers : where[w] # "busy"
    /\ user_worker' = NoThread /\ Q' = Q - 1
    /\ run' = IF Q' = 0 /\ g.P > 1 THEN [run EXCEPT ![RootWorker] = 0] ELSE run
    /\ MoveTo(t, "out")
    /\ UNCHANGED <<g, pool_size, published, workers_running, work_done, threads, sem, mutex,
                   steal_failure_count, todo, binds, calls>>

-----------------------------------------------------------------------------
(* The end of the process *)

\* __cilkrts_end_cilk, called when no thread is in Cilk.
end_cilk(t) ==
    /\ where[t] = "out" /\ mutex = NoThread /\ Q = 0 /\ Calling
    /\ IF published
       THEN work_done' = TRUE /\ mutex' = t /\ MoveTo(t, "ending")
       ELSE UNCHANGED <<work_done, mutex, where>>
    /\ UNCHANGED <<g, pool_size, published, workers_running, Q, user_worker, threads, nodes,
                   steal_failure_count, todo, binds>>

\* stop_workers asserts that worker 0 has a signal node, and the workers that
\* never ran fail the assertion on their statistics in destroy_worker, as an
\* overflow worker does when its thread leaves.  bind_thread refuses a runtime
\* that is shutting down, and find_free_worker asserts on a system worker.
FailedAssertion(t) ==
    \/ where[t] = "ending"
    \/ where[t] = "overflow"
    \/ where[t] = "bindlock" /\ mutex = NoThread /\ (work_done \/ (user_worker # NoThread /\ g.P > 1))

abort(t) ==
    /\ FailedAssertion(t)
    /\ aborted' = TRUE
    /\ UNCHANGED <<global, nodes, mutex, steal_failure_count, where, todo, binds, calls>>

-----------------------------------------------------------------------------

UserCall(t) == SetParam(t) \/ init_internal(t) \/ suspend(t) \/ resume(t)
               \/ unbind_thread(t) \/ end_cilk(t)
ThreadStep(t) == init_workers(t) \/ cilkg_publish_global_state(t) \/ CheckRunning(t)
                 \/ start_workers(t) \/ create_threads(t) \/ find_free_worker(t)
                 \/ SendFromThread(t)

RuntimeNext ==
    \/ \E w \in SysWorkers : WorkerStep(w)
    \/ \E t \in Threads :
        \/ (UserCall(t) \/ ThreadStep(t)) /\ ~aborted /\ UNCHANGED aborted
        \/ abort(t) /\ ~aborted

\* A worker's thread is scheduled for ever; so is a thread of the user inside
\* a call of the runtime.  When it calls is up to the user.
RuntimeFairness ==
    /\ \A w \in SysWorkers : WF_runtimeVars(WorkerStep(w))
    /\ \A t \in Threads : WF_runtimeVars(ThreadStep(t) /\ ~aborted /\ UNCHANGED aborted)

RuntimeSpec == RuntimeInit /\ [][RuntimeNext]_runtimeVars /\ RuntimeFairness

-----------------------------------------------------------------------------
(* Properties *)

InCilk == {t \in Threads : where[t] \in {"in", "paused", "resuming"}}

\* __cilkrts_init_internal: however the first calls of several threads
\* interleave, no worker is started twice, and a thread is in Cilk only once
\* every system worker has been started.
StartedOnce ==
    /\ \A w \in SysWorkers : threads[w] <= 1
    /\ InCilk # {} => \A w \in SysWorkers : w < g.P => threads[w] = 1

\* cilkg_init_global_state, init_workers: whatever was set, in whichever order,
\* the published settings fit each other and the pools made from them.  What
\* __cilkrts_set_param accepts later, the sizes of these pools among it, no
\* longer changes that.
SettingsUsable == published => Usable(g, pool_size)

Up == ~aborted /\ ~work_done
Asleep(w) == where[w] \in {"wait", "sem"}

\* wake_runtime: if a thread of the user stays in Cilk, every system worker
\* wakes up in the end and does not go back to sleep.
AllWake ==
    \A w \in SysWorkers :
        <>[](Up /\ w < g.P /\ \E t \in Threads : where[t] = "in") => <>[](~Asleep(w))

\* sleep_runtime, __cilkrts_suspend: if the last thread leaves for good, or
\* suspends the runtime, every system worker goes to sleep and stays asleep.
AllSleep ==
    \A w \in SysWorkers :
        <>[](/\ Up /\ threads[w] = 1
             /\ \A t \in Threads : where[t] \in {"out", "paused"}) => <>[](where[w] = "sem")
=============================================================================
