------------------------------ MODULE CallChain ------------------------------
(***************************************************************************)
(* Functions that call, spawn, sync and return, and the full frames that   *)
(* steals make of them: a thief takes the continuation of a spawn together *)
(* with the functions that lead to it by calls, and each of these becomes  *)
(* a full frame; a called function whose caller is a full frame returns    *)
(* through the runtime.  FullFrame has the reductions and the interleaving *)
(* of joins at one frame; here a join is one step, and so is a steal.      *)
(*                                                                         *)
(* Stack frames and full frames are named by numbers, 0 is none.  A fiber  *)
(* is a stretch of memory and the stack grows down in it, by one for every *)
(* call; a function may also make its own frame larger.                    *)
(***************************************************************************)
EXTENDS Integers, Sequences, FiniteSets
LOCAL INSTANCE SequencesExt

CONSTANTS
    Crew, First,    \* the workers, and the one that starts the program
    MaxCalls,       \* bound on calls, spawns and allocations
    NumFibers

VARIABLES
    sfs,        \* stack frames: call_parent, flags, SP; caller, where it stood, own size
    ffs,        \* full frames
    crew,       \* what each worker runs, where its stack is, its deque and its frames
    idle_fibers, started,
    made

chainVars == <<sfs, ffs, crew, idle_fibers, started, made>>

ChainFibers == 1..NumFibers
get_sp_for_executing_sf(fiber) == 100 * fiber

\* __cilkrts_enter_frame
enter_frame(parent, flags, rsp) ==
  [call_parent |-> parent, flags |-> flags, SP |-> 0, caller |-> parent, entered |-> rsp, size |-> 1]

make_full_frame ==
  [parent |-> 0, is_call_child |-> FALSE, join_counter |-> 0, children |-> <<>>, call_stack |-> 0,
   fiber_self |-> 0, fiber_child |-> 0, sync_sp |-> 0]

Nobody == [sf |-> 0, rsp |-> 0, deque |-> <<>>, frame_ff |-> 0, next_frame_ff |-> 0]

ChainInit ==
  /\ sfs = (1 :> enter_frame(0, {"LAST"}, 100))
  /\ ffs = (1 :> [make_full_frame EXCEPT !.join_counter = 1, !.fiber_self = 1])
  /\ crew = [w \in Crew |-> IF w = First THEN [Nobody EXCEPT !.sf = 1, !.rsp = 99, !.frame_ff = 1]
                            ELSE Nobody]
  /\ idle_fibers = ChainFibers \ {1} /\ started = {1}
  /\ made = 0

Unused(f, n) == CHOOSE x \in 1..(Cardinality(DOMAIN f) + n) :
  x \notin DOMAIN f /\ Cardinality({y \in 1..(x - 1) : y \notin DOMAIN f}) = n - 1

Drop(f, x) == [y \in DOMAIN f \ {x} |-> f[y]]

Flags(w) == sfs[crew[w].sf].flags

-----------------------------------------------------------------------------
(* User code *)

Running(w) == crew[w].sf # 0

call(w) ==
  LET x == Unused(sfs, 1) IN
    /\ Running(w) /\ made < MaxCalls
    /\ sfs' = (x :> enter_frame(crew[w].sf, {}, crew[w].rsp)) @@ sfs
    /\ crew' = [crew EXCEPT ![w].sf = x, ![w].rsp = @ - 1]
    /\ made' = made + 1 /\ UNCHANGED <<ffs, idle_fibers, started>>

\* The helper that calls the spawned function has a stack frame of its own,
\* and detaches: its caller can be stolen.
spawn_helper(w) ==
  LET x == Unused(sfs, 1)
      s == crew[w].sf
  IN /\ Running(w) /\ made < MaxCalls /\ "DETACHED" \notin Flags(w)
     /\ sfs' = (x :> enter_frame(s, {"DETACHED"}, crew[w].rsp)) @@ [sfs EXCEPT ![s].SP = crew[w].rsp]
     /\ crew' = [crew EXCEPT ![w].sf = x, ![w].rsp = @ - 1, ![w].deque = Append(@, s)]
     /\ made' = made + 1 /\ UNCHANGED <<ffs, idle_fibers, started>>

allocate(w) ==
  /\ Running(w) /\ made < MaxCalls /\ sfs[crew[w].sf].size = 1 /\ "DETACHED" \notin Flags(w)
  /\ sfs' = [sfs EXCEPT ![crew[w].sf].size = @ + 1]
  /\ crew' = [crew EXCEPT ![w].rsp = @ - 1]
  /\ made' = made + 1 /\ UNCHANGED <<ffs, idle_fibers, started>>

-----------------------------------------------------------------------------
(* The tree of full frames *)

make_child(F, parent, child, is_call, fiber) ==
  (child :> [make_full_frame EXCEPT !.parent = parent, !.is_call_child = is_call,
                                    !.fiber_self = F[parent].fiber_self])
  @@ [F EXCEPT ![parent].fiber_self = fiber, ![parent].join_counter = @ + 1,
               ![parent].children = Append(@, child)]

unlink_child(F, f) ==
  [F EXCEPT ![F[f].parent].children = SelectSeq(@, LAMBDA c : c # f)]

\* Forgets how far the stack has moved since the frame was resumed.
put_stack_here(F, f, sp) == [F EXCEPT ![f].sync_sp = sp]

put_stack(F, f, sp) == [F EXCEPT ![f].sync_sp = sp + @]

take_stack(F, f, sp) == [F EXCEPT ![f].sync_sp = @ - sp]

make_unrunnable(F, f, s, is_loot, sp) ==
  LET G == [F EXCEPT ![f].call_stack = s] IN IF is_loot THEN put_stack(G, f, sp) ELSE G

make_runnable(F, f) == [F EXCEPT ![f].call_stack = 0]

push_next_frame(F, f) == [F EXCEPT ![f].join_counter = @ + 1]
decjoin(F, f) == [F EXCEPT ![f].join_counter = @ - 1]

\* A frame whose sync is crossed takes the fiber its leftmost child has left.
provably_good_steal_stacks(F, f) == [F EXCEPT ![f].fiber_self = F[f].fiber_child, ![f].fiber_child = 0]

\* The last to arrive at frame f goes on with it.
join_frame(w, F, f) ==
  LET last == F[f].join_counter = 1
  IN /\ ffs' = IF last THEN push_next_frame(provably_good_steal_stacks(decjoin(F, f), f), f)
               ELSE decjoin(F, f)
     /\ crew' = [crew EXCEPT ![w] = [Nobody EXCEPT !.next_frame_ff = IF last THEN f ELSE 0]]

\* The functions that lead to s by calls, from the one that has a full frame.
CALL_STACK_ENDS == {"DETACHED", "STOLEN", "LAST"}
call_chain[s \in DOMAIN sfs] ==
  IF sfs[s].flags \cap CALL_STACK_ENDS # {} THEN <<s>> ELSE Append(call_chain[sfs[s].call_parent], s)

\* Full frame i of the chain is names[i].
unroll_call_stack(F, chain, names) ==
  LET k == Len(chain)
      U[i \in 1..k] ==
        make_unrunnable(IF i = 1 THEN F ELSE make_child(U[i - 1], names[i - 1], names[i], TRUE, 0),
                        names[i], chain[i], i = k, sfs[chain[i]].SP)
  IN U[k]

\* detach_for_steal
steal(w, v) ==
  LET s     == Head(crew[v].deque)
      f     == crew[v].frame_ff
      chain == call_chain[s]
      k     == Len(chain)
      names == [i \in 1..k |-> IF i = 1 THEN f ELSE Unused(ffs, i - 1)]
      loot  == names[k]
      child == Unused(ffs, k)
      fiber == CHOOSE x \in idle_fibers : TRUE
      F     == push_next_frame(unroll_call_stack(decjoin(ffs, f), chain, names), loot)
  IN /\ crew[w].sf = 0 /\ crew[w].next_frame_ff = 0
     /\ w # v /\ crew[v].deque # <<>> /\ idle_fibers # {}
     /\ ffs' = push_next_frame(make_child(F, loot, child, FALSE, fiber), child)
     /\ sfs' = [x \in DOMAIN sfs |->
                  IF x \notin ToSet(chain) THEN sfs[x]
                  ELSE [sfs[x] EXCEPT !.call_parent = 0,
                          !.flags = @ \cup {"STOLEN"} \cup (IF x = s THEN {"UNSYNCHED"} ELSE {})]]
     /\ crew' = [crew EXCEPT ![w].next_frame_ff = loot, ![v].frame_ff = child, ![v].deque = Tail(@)]
     /\ idle_fibers' = idle_fibers \ {fiber}
     /\ UNCHANGED <<started, made>>

\* Each gives the place of the stack and the full frame: on a fiber from the
\* pool the frame starts at its top, on one that was suspended it goes on where
\* sync_sp says.
sysdep_reset_jump_buffers_for_resume(f) ==
  LET sp == get_sp_for_executing_sf(ffs[f].fiber_self) IN <<sp, take_stack(ffs, f, sp)>>

cilkrts_resume(f) == <<ffs[f].sync_sp, take_stack(ffs, f, ffs[f].sync_sp)>>

resume(w) ==
  LET f     == crew[w].next_frame_ff
      fiber == ffs[f].fiber_self
      at    == IF fiber \in started THEN cilkrts_resume(f) ELSE sysdep_reset_jump_buffers_for_resume(f)
  IN /\ f # 0
     /\ ffs' = make_runnable(at[2], f)
     /\ crew' = [crew EXCEPT ![w] = [Nobody EXCEPT !.sf = ffs[f].call_stack, !.rsp = at[1], !.frame_ff = f]]
     /\ started' = started \cup {fiber}
     /\ UNCHANGED <<sfs, idle_fibers, made>>

FreeFiber(fiber) == idle_fibers' = idle_fibers \cup {fiber} /\ started' = started \ {fiber}

\* do_sync: the frame is disowned, its fiber freed, and its children awaited.
sync_frame(w) ==
  LET s == crew[w].sf
      f == crew[w].frame_ff
      F == make_unrunnable(ffs, f, s, TRUE, crew[w].rsp)
  IN /\ Running(w) /\ "UNSYNCHED" \in Flags(w)
     /\ join_frame(w, [F EXCEPT ![f].fiber_self = 0], f)
     /\ sfs' = IF F[f].join_counter = 1 THEN [sfs EXCEPT ![s].flags = @ \ {"UNSYNCHED"}] ELSE sfs
     /\ FreeFiber(ffs[f].fiber_self)
     /\ UNCHANGED made

-----------------------------------------------------------------------------
(* Returns *)

\* A spawned function returns to a caller that was not stolen.
undo_detach(w) ==
  LET s == crew[w].sf IN
    /\ Running(w) /\ "DETACHED" \in Flags(w) /\ crew[w].deque # <<>>
    /\ sfs' = Drop(sfs, s)
    /\ crew' = [crew EXCEPT ![w].sf = sfs[s].call_parent, ![w].rsp = @ + sfs[s].size, ![w].deque = Front(@)]
    /\ UNCHANGED <<ffs, idle_fibers, started, made>>

\* It returns to a stolen one: finish_spawn_return_on_user_stack and
\* do_return_from_spawn.
return_from_spawn(w) ==
  LET c == crew[w].frame_ff
      p == ffs[c].parent
      fiber == ffs[c].fiber_self
      leftmost == Head(ffs[p].children) = c /\ ffs[p].fiber_child = 0
      G == Drop(unlink_child(ffs, c), c)
      F == IF leftmost THEN [G EXCEPT ![p].fiber_child = fiber] ELSE G
  IN /\ Running(w) /\ "DETACHED" \in Flags(w) /\ crew[w].deque = <<>>
     /\ join_frame(w, F, p)
     /\ IF leftmost THEN UNCHANGED <<idle_fibers, started>> ELSE FreeFiber(fiber)
     /\ sfs' = LET T == Drop(sfs, crew[w].sf)
               IN IF F[p].join_counter = 1 THEN [T EXCEPT ![F[p].call_stack].flags = @ \ {"UNSYNCHED"}] ELSE T
     /\ UNCHANGED made

\* A called function without a full frame returns in the compiled code.
return_from_call(w) ==
  LET s == crew[w].sf IN
    /\ Running(w) /\ Flags(w) = {}
    /\ sfs' = Drop(sfs, s)
    /\ crew' = [crew EXCEPT ![w].sf = sfs[s].call_parent, ![w].rsp = @ + sfs[s].size]
    /\ UNCHANGED <<ffs, idle_fibers, started, made>>

\* Takes the parent up again as if it were not joined.
unconditional_steal_undecreased(F, f) == push_next_frame(F, f)

unconditional_steal(F, f) == push_next_frame(decjoin(F, f), f)

splice_stacks_for_call(F, p, c) == [F EXCEPT ![p].fiber_self = F[c].fiber_self]

finalize_child_for_call(F, p, c) ==
  unconditional_steal(Drop(unlink_child(splice_stacks_for_call(F, p, c), c), c), p)

\* __cilkrts_return, of a function whose frame was made a full one
return_to_full_frame(w) ==
  LET s == crew[w].sf
      c == crew[w].frame_ff
      p == ffs[c].parent
  IN /\ Running(w) /\ Flags(w) = {"STOLEN"}
     /\ ffs' = make_runnable(finalize_child_for_call(ffs, p, c), p)
     /\ sfs' = Drop(sfs, s)
     /\ crew' = [crew EXCEPT ![w].sf = ffs[p].call_stack, ![w].rsp = @ + sfs[s].size, ![w].frame_ff = p]
     /\ UNCHANGED <<idle_fibers, started, made>>

return_from_initial(w) ==
  /\ Running(w) /\ "LAST" \in Flags(w) /\ "UNSYNCHED" \notin Flags(w)
  /\ sfs' = Drop(sfs, crew[w].sf)
  /\ ffs' = Drop(ffs, crew[w].frame_ff)
  /\ crew' = [crew EXCEPT ![w] = Nobody]
  /\ UNCHANGED <<idle_fibers, started, made>>

ChainNext ==
  \E w \in Crew :
    \/ call(w) \/ spawn_helper(w) \/ allocate(w)
    \/ \E v \in Crew : steal(w, v)
    \/ resume(w) \/ sync_frame(w) \/ undo_detach(w)
    \/ return_from_spawn(w) \/ return_from_call(w) \/ return_to_full_frame(w)
    \/ return_from_initial(w)

-----------------------------------------------------------------------------
(* Properties *)

\* Whatever was stolen, from it or from those it called, a function returns to
\* the function that called it and leaves the stack as it was at the call: on
\* the same fiber and at the same place.
ReturnsToCaller ==
  [][\A w \in Crew :
       LET s == crew[w].sf
           after == crew'[w]
       IN s \in DOMAIN sfs \ (DOMAIN sfs' \cup {0}) /\ sfs[s].caller # 0
          /\ ("DETACHED" \notin sfs[s].flags \/ after.sf # 0)
          => after.sf = sfs[s].caller /\ after.rsp = sfs[s].entered]_chainVars

\* Who has function s: a worker, in the chain it runs or one that waits in its
\* deque, or a suspended full frame.
HoldersOf(s) ==
  {<<w, i>> \in Crew \X (0..MaxCalls) :
     LET t == IF i = 0 THEN crew[w].sf ELSE IF i \in DOMAIN crew[w].deque THEN crew[w].deque[i] ELSE 0
     IN t # 0 /\ s \in ToSet(call_chain[t])}
  \cup {<<"frame", f>> : f \in {g \in DOMAIN ffs : ffs[g].call_stack = s}}

\* Every function that has not returned is in one place, and a full frame is
\* counted once for every child and for the worker that has it: none is lost,
\* resumed twice or given up while it is still called into.
EveryFunctionOnce ==
  /\ \A s \in DOMAIN sfs : Cardinality(HoldersOf(s)) = 1
  /\ \A f \in DOMAIN ffs :
       ffs[f].join_counter =
         Len(ffs[f].children) + Cardinality({w \in Crew : f \in {crew[w].frame_ff, crew[w].next_frame_ff}})
=============================================================================
