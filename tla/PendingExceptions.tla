-------------------------- MODULE PendingExceptions --------------------------
(***************************************************************************)
(* except-gcc.cpp: what the C++ runtime knows of exceptions in a thread    *)
(* (__cxa_eh_globals), and the record in which a strand that leaves its    *)
(* thread takes it along (pending_exception_info).                         *)
(*                                                                         *)
(* The state of a thread is the chain of exceptions caught by the handlers *)
(* it is in and the number of exceptions thrown and not caught.  The       *)
(* record's flag rethrow, for compilers that do not tell which exception a *)
(* function is left with, is not modelled: they all tell.                  *)
(***************************************************************************)
EXTENDS Integers, Sequences

CONSTANT NULL       \* no record

None == 0           \* no exception

Calm == [caught |-> <<>>, uncaught |-> 0]

throw(state) == [state EXCEPT !.uncaught = @ + 1]
begin_catch(state) == [state EXCEPT !.uncaught = @ - 1]

\* save_exception_info; the caller clears the thread's state.
make(state, exc) == [active |-> exc, runtime_state |-> state]

empty(info) == info.active = None /\ info.runtime_state = Calm

\* A right exception that comes second is destroyed, and not counted any more.
merge_uncaught(left, right) ==
    left.runtime_state.uncaught + right.runtime_state.uncaught
      - (IF left.active # None /\ right.active # None THEN 1 ELSE 0)

\* CILK_ASSERT in merge_pending_exceptions
mergeable(left, right) ==
    NULL \in {left, right} \/ <<>> \in {left.runtime_state.caught, right.runtime_state.caught}

\* The left record, which is the earlier, after the merge
merge_pending_exceptions(left, right) ==
    LET caught == left.runtime_state.caught
        merged == [active |-> IF left.active # None THEN left.active ELSE right.active,
                   runtime_state |->
                     [caught |-> IF caught # <<>> THEN caught ELSE right.runtime_state.caught,
                      uncaught |-> merge_uncaught(left, right)]]
    IN CASE left = NULL -> right
         [] left # NULL /\ right = NULL -> left
         [] OTHER -> IF empty(merged) THEN NULL ELSE merged

\* What the thread that resumes a frame has afterwards, and what it throws there
setup_for_execution_sysdep(info) == IF info = NULL THEN Calm ELSE info.runtime_state
except_data(info) == IF info = NULL THEN None ELSE info.active
=============================================================================
