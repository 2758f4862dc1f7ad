------------------------------ MODULE MCRuntime ------------------------------
(***************************************************************************)
(* The runtime on two processors, with up to four workers: two levels of   *)
(* the signal tree.                                                        *)
(***************************************************************************)
EXTENDS Runtime

CONSTANTS T1, T2

MCThreads == {T1, T2}
Env(n) == [force_reduce |-> Unset, nworkers |-> n, max_user_workers |-> Unset,
           steal_failures |-> 1]
MCEnvs == {Env(1), Env(4)}
MCSettings == {<<"nstacks", 1>>, <<"local stacks", 0>>, <<"shared stacks", 1>>}
=============================================================================
