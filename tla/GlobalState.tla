----------------------------- MODULE GlobalState -----------------------------
(***************************************************************************)
(* The settings of the runtime: their defaults, the environment variables  *)
(* and the calls of __cilkrts_set_param that change them, and the sizes    *)
(* that the first entry into Cilk derives from them.  A setting is given   *)
(* as text; a value here is the number the text stands for, or NotANumber. *)
(*                                                                         *)
(* A definition whose name continues that of the one below it is the       *)
(* latter's mutant.                                                        *)
(***************************************************************************)
EXTENDS Integers

CONSTANTS
    Cpus,           \* __cilkrts_hardware_cpu_count()
    INT_MAX,
    PAGE, CILK_MIN_STACK_SIZE, CILK_DEFAULT_STACK_SIZE,
    NotANumber, Unset

ASSUME CpusAssumption == Cpus \in Nat \ {0} /\ INT_MAX \in Nat /\ 16 * Cpus < INT_MAX
ASSUME StackAssumption ==
    /\ PAGE \in Nat \ {0}
    /\ {CILK_MIN_STACK_SIZE, CILK_DEFAULT_STACK_SIZE} \subseteq Nat \ {0}
    /\ CILK_MIN_STACK_SIZE % PAGE = 0 /\ CILK_DEFAULT_STACK_SIZE % PAGE = 0
    /\ CILK_MIN_STACK_SIZE <= CILK_DEFAULT_STACK_SIZE

SUCCESS == "SUCCESS"
XRANGE == "XRANGE"
INVALID == "INVALID"
LATE == "LATE"
UNIMP == "UNIMP"

\* strtol reads no digits as 0, and reports no error.
to_long(value) == IF value = NotANumber THEN 0 ELSE value

\* Out of range, *out keeps its value.
store_int(out, value, lo, hi) ==
    IF to_long(value) \in lo..hi
    THEN [ret |-> SUCCESS, out |-> to_long(value)]
    ELSE [ret |-> XRANGE, out |-> out]

\* "true" and "false" are 1 and 0.
store_bool(out, value) ==
    IF value \in {0, 1}
    THEN [ret |-> SUCCESS, out |-> value]
    ELSE [ret |-> INVALID, out |-> out]

cilkos_validate_stack_size(size) ==
    IF size = 0 THEN CILK_DEFAULT_STACK_SIZE
    ELSE IF size <= CILK_MIN_STACK_SIZE THEN CILK_MIN_STACK_SIZE
    ELSE IF size % PAGE > 0 THEN PAGE * (1 + size \div PAGE)
    ELSE size

\* One slot for a user's thread, whatever max_user_workers says.
calc_max_user_workers(g) == 1
calc_total_workers(g) == g.P + calc_max_user_workers(g) - 1

-----------------------------------------------------------------------------
(* Defaults and the environment *)

defaults == [
    P |-> Cpus, max_user_workers |-> 0, force_reduce |-> 0,
    fiber_pool_size |-> 64, global_fiber_pool_size |-> 6 * 3 * Cpus,
    max_stacks |-> INT_MAX, max_steal_failures |-> 128, stack_size |-> 0,
    ped_seed |-> 0, total_workers |-> 0]

\* An environment variable that is not set, or is out of range, changes nothing.
getenv(g, field, value, lo, hi) ==
    IF value = Unset THEN g
    ELSE [g EXCEPT ![field] = store_int(@, value, lo, hi).out]

\* env: the values of CILK_FORCE_REDUCE, CILK_NWORKERS, CILK_MAX_USER_WORKERS
\* and CILK_STEAL_FAILURES.
get_user_settable_values(env) ==
    LET g0 == IF env.force_reduce = Unset THEN defaults
              ELSE [defaults EXCEPT !.force_reduce = store_bool(@, env.force_reduce).out]
        g1 == getenv(g0, "P", env.nworkers, 1, 16 * Cpus)
        g2 == getenv(g1, "max_user_workers", env.max_user_workers, 1, 16 * Cpus)
        g3 == getenv(g2, "max_steal_failures", env.steal_failures, 1, INT_MAX)
    IN [g3 EXCEPT !.total_workers = calc_total_workers(g3)]

-----------------------------------------------------------------------------
(* __cilkrts_set_param *)

Stored(g, field, s) == [ret |-> s.ret, g |-> [g EXCEPT ![field] = s.out]]
Refused(g, code) == [ret |-> code, g |-> g]

\* 0 asks for as many workers as there are processors.
set_nworkers(g, value) ==
    LET s == store_int(g.P, value, 0, 16 * Cpus)
    IN Stored(g, "P", [s EXCEPT !.out = IF @ = 0 THEN Cpus ELSE @])

set_stack_size(g, value) ==
    LET s == store_int(g.stack_size, value, 0, INT_MAX)
    IN Stored(g, "stack_size", [s EXCEPT !.out = cilkos_validate_stack_size(@)])

\* Some settings cannot be changed once the state is published.
set_param_imp(g, published, param, value) ==
    CASE param = "force reduce" ->
            Stored(g, "force_reduce", store_bool(g.force_reduce, value))
      [] param = "max user workers" ->
            Stored(g, "max_user_workers", store_int(g.max_user_workers, value, 1, 16 * Cpus))
      [] param = "local stacks" ->
            Stored(g, "fiber_pool_size", store_int(g.fiber_pool_size, value, 0, 128))
      [] param = "shared stacks" ->
            Stored(g, "global_fiber_pool_size",
                   store_int(g.global_fiber_pool_size, value, 0, 128))
      [] param \in {"nworkers", "nstacks", "stack size", "ped seed"} /\ published ->
            Refused(g, LATE)
      [] param = "nworkers" /\ ~published -> set_nworkers(g, value)
      [] param = "nstacks" /\ ~published ->
            Stored(g, "max_stacks", store_int(g.max_stacks, value, 0, INT_MAX))
      [] param = "stack size" /\ ~published -> set_stack_size(g, value)
      [] param = "ped seed" /\ ~published ->
            Stored(g, "ped_seed", store_int(g.ped_seed, value, 0, INT_MAX))
      [] OTHER -> Refused(g, UNIMP)

-----------------------------------------------------------------------------
(* The first entry into Cilk *)

AtLeast(n, lo) == IF n < lo THEN lo ELSE n
AtMost(n, hi) == IF n > hi THEN hi ELSE n

\* With a limit on stacks no worker's cache may hold more than its share.
share_stacks_unchecked(g) ==
    LET each == AtMost(g.fiber_pool_size, g.max_stacks \div g.P)
    IN IF g.max_stacks = 0 THEN g
       ELSE [g EXCEPT !.fiber_pool_size = each,
                      !.max_stacks = AtLeast(@, g.P),
                      !.global_fiber_pool_size = g.P * (each + 1)]
share_stacks(g) ==
    LET each == AtLeast(AtMost(g.fiber_pool_size, g.max_stacks \div g.P), 1)
    IN IF g.max_stacks = 0 THEN g
       ELSE [g EXCEPT !.fiber_pool_size = each,
                      !.max_stacks = AtLeast(@, g.P),
                      !.global_fiber_pool_size = g.P * (each + 1)]

init_global_state(g) ==
    [share_stacks(g) EXCEPT !.total_workers = calc_total_workers(g),
                            !.stack_size = cilkos_validate_stack_size(@)]

\* What the rest of the runtime takes for granted once the state is
\* published: there is a worker, and a system worker for every other slot;
\* a limit on stacks leaves one for each worker, and the pools of fibers have a
\* place for it, the worker's and the shared one; stacks are whole pages.
Usable(g, pool_size) ==
    /\ g.P \in 1..(16 * Cpus) /\ g.total_workers = g.P
    /\ g.max_stacks > 0 => /\ g.max_stacks >= g.P
                           /\ pool_size.worker \in 1..g.max_stacks
                           /\ pool_size.shared >= g.P * pool_size.worker
    /\ g.stack_size >= CILK_MIN_STACK_SIZE /\ g.stack_size % PAGE = 0
    /\ g.max_steal_failures >= 1
=============================================================================
