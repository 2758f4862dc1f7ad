------------------------------ MODULE CilkFor ------------------------------
(***************************************************************************)
(* runtime/cilk-abi-cilk-for.cpp and the pedigree functions it relies on:  *)
(* how a loop of count iterations is cut into grains, and what pedigree an *)
(* iteration sees.  Counts are unsigned numbers of CountBits bits.  A      *)
(* pedigree is the sequence of ranks from the root to the leaf.            *)
(***************************************************************************)
EXTENDS Integers, Sequences

CONSTANTS P,                    \* g->P, the number of workers
          CountBits             \* the width of count_t

ASSUME LoopConstants == P \in Nat \ {0} /\ CountBits \in Nat \ {0}

WrapCount(n) == n % (2^CountBits)

\* grainsize: the requested size, or the count divided by eight times the
\* number of workers, rounded up, at most 2048.
grainsize(req, count, underPtool) ==
  LET Px8 == P * 8
      n   == WrapCount(count + Px8 - 1) \div Px8
  IN  CASE req > 0                -> req
        [] req <= 0 /\ (count < 1 \/ underPtool) -> 1
        [] OTHER                  -> IF n > 2048 THEN 2048 ELSE n

\* cilk_for_recursive: a range of more than a grain is cut in two; the lower
\* half is spawned, the upper one is the continuation.
is_grain(r, grain) == WrapCount(r.high - r.low) <= grain

halves(r) ==
  LET mid == WrapCount(r.low + WrapCount(r.high - r.low) \div 2)
  IN  <<[low |-> r.low, high |-> mid], [low |-> mid, high |-> r.high]>>

-----------------------------------------------------------------------------
(* Pedigrees. *)

AddRank(p) == [p EXCEPT ![Len(p)] = @ + 1]

\* __cilkrts_detach, update_pedigree_on_leave_frame, update_pedigree_after_sync.
detach(p) == Append(p, 1)
update_pedigree_on_leave_frame(helper) == AddRank(helper)
update_pedigree_after_sync(p) == AddRank(p)

\* cilk_for_root: the spawn of noop adds one to the rank before the loop's
\* root is taken from the worker; after the loop the root is put back, with
\* one more, and the sync at the end of the function adds another.
loop_root_pedigree(p) == update_pedigree_on_leave_frame(p)
cilk_for_exit(root) == update_pedigree_after_sync(AddRank(root))

\* call_cilk_for_loop_body: a leaf under the root for the grain, whatever
\* the depth of the recursion, and a node of rank 1 for the worker.
call_cilk_for_loop_body(root, low) == detach(Append(root, low + 1))

\* Mutant: only the worker's own rank is reset.
bump_loop_rank_leaf(p) == [p EXCEPT ![Len(p)] = 1]

\* __cilkrts_bump_loop_rank_internal, at the end of an iteration.
bump_loop_rank(p) == [p EXCEPT ![Len(p) - 1] = @ + 1, ![Len(p)] = 1]
=============================================================================
