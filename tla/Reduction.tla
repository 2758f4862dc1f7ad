----------------------------- MODULE Reduction -----------------------------
(***************************************************************************)
(* A cilk_for loop whose iterations update reducers: the loop is cut into  *)
(* grains (CilkFor), continuations are stolen, every strand keeps its      *)
(* views in a table of its own (HyperMap), and the tables of finished      *)
(* neighbours are merged with the reducers' own operations (Reducers).     *)
(*                                                                         *)
(* Memory is a function from the addresses of live views to what is in     *)
(* them; a hyperobject's key is the address of its leftmost view.  A       *)
(* program is a function from keys to hyperobjects:                        *)
(*   cls, left   the reducer, see Reducers;                                *)
(*   mode        "registered" before the loop by its constructor, "global" *)
(*               (a C reducer nobody registers), "heap" (constructed by    *)
(*               iteration at, its pointer returned to the caller),        *)
(*               "scoped" (constructed and destroyed by iteration at) or   *)
(*               "throws" (its constructor throws in iteration at);        *)
(*   start       NULL, or the value given by set_value or move_in;         *)
(*   ups         what each iteration does with the view, NULL for nothing; *)
(*   feeds       NULL, or the key of a counter that the user's reduce      *)
(*               function increments.                                      *)
(***************************************************************************)
EXTENDS Reducers, HyperMap, CilkFor, FiniteSets

CONSTANTS Programs,             \* the programs checked: a sequence of sets of like programs
          Counts,               \* trip counts
          Requests,             \* requested grain sizes
          Rank,                 \* the pedigree rank before the loop
          MaxViews              \* bound on private views alive at a time

ASSUME KeysAboveViews ==
  \A n \in DOMAIN Programs : \A prog \in Programs[n] : \A k \in DOMAIN prog : k > MaxViews

VARIABLES pc,                   \* "start", "loop", "done"
          obj,                  \* the program
          initial,              \* the loop runs in the program's initial strand
          count, grain,         \* of the loop
          strands,              \* in serial order: ranges to do, the worker's pedigree
                                \* in a grain, <<>> outside, and the table
          mem,                  \* views
          reductions,           \* how often each reduce function was called
          ran,                  \* for each run of an iteration, its strands' pedigrees
          ped,                  \* the pedigree outside the loop, in it the loop's root
          result,               \* what each reducer held at the end
          error                 \* the runtime has reported a user error or bug

vars == <<pc, obj, initial, count, grain, strands, mem, reductions, ran, ped, result, error>>

\* What a worker works on: its table and the memory.
Here(map) == [map |-> map, mem |-> mem, reductions |-> reductions, error |-> error]

KeySeq == SetToSortSeq(DOMAIN obj, <)

Without(f, A) == [a \in DOMAIN f \ A |-> f[a]]
Store(s, a, v) == [s EXCEPT !.mem = (a :> v) @@ @]

\* allocate_fn: an address that is not in use.
FreshView(m) == CHOOSE a \in 1 .. MaxViews : a \notin DOMAIN m /\ \A b \in 1 .. a - 1 : b \in DOMAIN m

-----------------------------------------------------------------------------
(* The hyperobject interface. *)

\* install_new_reducer_map.
installed(s) == [s EXCEPT !.map = IF @ = NULL THEN make_reducer_map ELSE @]

\* The element that lookup does not find: the leftmost view in the leftmost
\* table, a new view with the identity in any other.
insert_view(s, key, rep) == [s EXCEPT !.map = rehash_and_insert(@, elem(key, rep))]
identity_view(s, key, rep) == insert_view(Store(s, rep, identity_fn(obj[key])), key, rep)
new_view(s, key) ==
  IF s.map.leftmost THEN insert_view(s, key, key) ELSE identity_view(s, key, FreshView(s.mem))

find_view(s, key) == IF lookup(s.map, key) /= NULL THEN s ELSE new_view(s, key)
hyper_lookup(s, key) == find_view(installed(s), key)

\* The user's operation on the view that lookup has returned.
apply_at(s, key, a, u) == Store(s, a, apply(obj[key], s.mem[a], u))
update_found(s, key, u) == apply_at(s, key, lookup(s.map, key), u)
update(s, key, u) == update_found(hyper_lookup(s, key), key, u)

\* __cilkrts_hyper_create and __cilkrts_hyper_destroy: to register twice is a
\* bug; to unregister what is not the leftmost view of this table is an error
\* that does not return.
register(s, key) ==
  insert_view([s EXCEPT !.error = @ \/ lookup(s.map, key) /= NULL], key, key)
hyper_create(s, key) == register(installed(s), key)

hyper_destroy(s, key) ==
  IF s.map = NULL \/ lookup(s.map, key) /= key THEN [s EXCEPT !.error = TRUE]
  ELSE [s EXCEPT !.map = remove(@, key)]

\* The constructor of reducer makes the leftmost view after its base class has
\* registered it, and the destructor destroys the view before the base class
\* unregisters it.
reducer_construct(s, key) == Store(hyper_create(s, key), key, obj[key].left)
reducer_destruct(s, key) == hyper_destroy([s EXCEPT !.mem = Without(@, {key})], key)

\* The view's constructor throws: the provisional guard destroys the monoid,
\* the base class unregisters, and there is no view.
construct_throws(s, key) == hyper_destroy(hyper_create(s, key), key)

\* elem::destroy spares leftmost views.
destroy(s, els) ==
  [s EXCEPT !.mem = Without(@, {els[i].view : i \in {j \in DOMAIN els : ~is_leftmost(els[j])}})]

\* The call of reduce_fn in merge; the user's function may use a reducer, on
\* the table of the worker, which is none of the two that are merged.
feed(s, key) == IF obj[key].feeds = NULL THEN s ELSE update(s, obj[key].feeds, [op |-> "++"])
call_reduce_fn(s, key, lhs, rhs) ==
  feed([Store(s, lhs, reduce_fn(obj[key], s.mem[lhs], s.mem[rhs]))
          EXCEPT !.reductions[key] = @ + 1], key)

\* Both tables have the key: A OP B in the view that stays in this table.
merge_views(acc, key, lhs, rhs) ==
  [this   |-> set_view(acc.this, key, lhs),
   s      |-> call_reduce_fn(acc.s, key, lhs, rhs),
   doomed |-> Append(acc.doomed, elem(key, rhs))]

\* A table that is merged into the leftmost one must find the leftmost view
\* there, unless that is what it brings.
initialize_leftmost(this, oel) ==
  IF this.leftmost /\ ~is_leftmost(oel) /\ lookup(this, oel.key) = NULL
    THEN rehash_and_insert(this, elem(oel.key, oel.key)) ELSE this

\* Mutant: a view that moves to this table is destroyed with the other one.
move_or_merge_freed(acc, oel, view, kind) ==
  CASE view = NULL -> [acc EXCEPT !.this = rehash_and_insert(@, oel), !.doomed = Append(@, oel)]
    [] view /= NULL /\ kind = "MERGE_INTO_RIGHT" -> merge_views(acc, oel.key, oel.view, view)
    [] OTHER -> merge_views(acc, oel.key, view, oel.view)

\* view is what lookup has found for the key in this table.
move_or_merge(acc, oel, view, kind) ==
  CASE view = NULL -> [acc EXCEPT !.this = rehash_and_insert(@, oel)]
    [] view /= NULL /\ kind = "MERGE_INTO_RIGHT" -> merge_views(acc, oel.key, oel.view, view)
    [] OTHER -> merge_views(acc, oel.key, view, oel.view)

\* One turn of the loop of cilkred_map::merge, for an element of the other map.
merge_found(acc, oel, kind) == move_or_merge(acc, oel, lookup(acc.this, oel.key), kind)
merge_element(acc, oel, kind) ==
  merge_found([acc EXCEPT !.this = initialize_leftmost(@, oel)], oel, kind)

\* cilkred_map::merge, with the destruction of the other map.
destroy_other(acc, other) ==
  [h |-> acc.this, s |-> destroy([acc.s EXCEPT !.error = @ \/ other.leftmost], acc.doomed)]
merge(s, this, other, kind) ==
  destroy_other(FoldLeft(LAMBDA a, oel : merge_element(a, oel, kind),
                         [this |-> this, s |-> s, doomed |-> <<>>], elements(other)), other)

merge_reducer_maps(s, left, right) ==
  CASE left = NULL  -> [h |-> right, s |-> s]
    [] left /= NULL /\ right = NULL -> [h |-> left, s |-> s]
    [] OTHER -> IF left.leftmost \/ left.nelem > right.nelem
                  THEN merge(s, left, right, "MERGE_INTO_LEFT")
                  ELSE merge(s, right, left, "MERGE_INTO_RIGHT")

\* Views made by reduce functions are in the worker's table: merged as well,
\* to the right of what is there.
RECURSIVE merge_what_is_new(_)
merge_what_is_new(m) ==
  IF m.s.map = NULL THEN m
  ELSE merge_what_is_new(merge_reducer_maps([m.s EXCEPT !.map = NULL], m.h, m.s.map))
repeated_merge_reducer_maps(s, left, right) == merge_what_is_new(merge_reducer_maps(s, left, right))

-----------------------------------------------------------------------------
(* The loop body: iteration i updates, creates and destroys reducers. *)

Touch(s, k, i) == IF obj[k].ups[i] = NULL THEN s ELSE update(s, k, obj[k].ups[i])
Visit(s, k, i) ==
  CASE obj[k].mode \in {"registered", "global"}  -> Touch(s, k, i)
    [] obj[k].mode = "heap" /\ obj[k].at = i   -> Touch(reducer_construct(s, k), k, i)
    [] obj[k].mode = "scoped" /\ obj[k].at = i ->
         reducer_destruct(Touch(reducer_construct(s, k), k, i), k)
    [] obj[k].mode = "throws" /\ obj[k].at = i -> construct_throws(s, k)
    [] OTHER -> s
Iteration(s, i) == FoldLeft(LAMBDA a, k : Visit(a, k, i), s, KeySeq)

Strand(todo, map) == [todo |-> todo, ped |-> <<>>, map |-> map]

\* An iteration that began with pedigree p spawns a function and syncs: the
\* pedigrees of its four strands in serial order.
Strands(p) ==
  LET continued == update_pedigree_on_leave_frame(p)
  IN  <<p, detach(p), continued, update_pedigree_after_sync(continued)>>

\* What is left of a range after its first iteration.
Rest(r) == IF r.low + 1 < r.high THEN <<[r EXCEPT !.low = @ + 1]>> ELSE <<>>

Effects(s) == mem' = s.mem /\ reductions' = s.reductions /\ error' = s.error

-----------------------------------------------------------------------------
Init ==
  /\ pc = "start"
  /\ \E n \in DOMAIN Programs : obj \in Programs[n]
  /\ initial \in BOOLEAN
  /\ count \in Counts
  /\ grain = 0
  /\ strands = <<>>
  /\ mem = [k \in {j \in DOMAIN obj : obj[j].mode = "global"} |-> obj[k].left]
  /\ reductions = [k \in DOMAIN obj |-> 0]
  /\ ran = [i \in 0 .. count - 1 |-> <<>>]
  /\ ped = <<Rank>>
  /\ result = <<>>
  /\ error = FALSE

\* The reducers of the caller are constructed in the strand that will run the
\* loop and may be given a value.  That strand is the initial one, with the
\* leftmost table, or a stolen one without a table.  Then
\* __cilkrts_cilk_for_32 or _64 calls cilk_for_root, unless there is nothing to
\* do.  It spawns noop, whose continuation, the whole loop, may be stolen.
Begin(req, underPtool, stolen) ==
  LET whole  == <<[low |-> 0, high |-> count]>>
      first  == IF initial THEN set_leftmost_reducer_map(make_reducer_map) ELSE NULL
      give(s, k) == IF obj[k].start = NULL THEN s
                    ELSE Store(s, k, set_view_value(obj[k], s.mem[k], obj[k].start))
      s == FoldLeft(LAMBDA a, k : give(reducer_construct(a, k), k), Here(first),
                    SelectSeq(KeySeq, LAMBDA k : obj[k].mode = "registered"))
  IN  /\ pc = "start"
      /\ pc' = "loop"
      /\ stolen => count > 0 /\ P > 1
      /\ strands' = CASE count = 0 -> <<Strand(<<>>, s.map)>>
                      [] stolen    -> <<Strand(<<>>, s.map), Strand(whole, NULL)>>
                      [] OTHER     -> <<Strand(whole, s.map)>>
      /\ grain' = grainsize(req, count, underPtool)
      /\ ped' = IF count > 0 THEN loop_root_pedigree(ped) ELSE ped
      /\ Effects(s)
      /\ UNCHANGED <<obj, initial, count, ran, result>>

\* cilk_for_recursive spawns the lower half of its range.
Split(i) ==
  /\ strands[i].todo /= <<>> /\ strands[i].ped = <<>>
  /\ ~is_grain(Head(strands[i].todo), grain)
  /\ strands' = [strands EXCEPT ![i].todo = halves(Head(@)) \o Tail(@)]
  /\ UNCHANGED <<pc, obj, initial, count, grain, mem, reductions, ran, ped, result, error>>

\* The body runs one iteration: the first of a grain after
\* call_cilk_for_loop_body has set the pedigree, a later one after
\* __cilkrts_bump_loop_rank has ended the one before.
Iterate(i) ==
  /\ strands[i].todo /= <<>>
  /\ strands[i].ped = <<>> => is_grain(Head(strands[i].todo), grain)
  /\ LET r  == Head(strands[i].todo)
         p  == IF strands[i].ped = <<>> THEN call_cilk_for_loop_body(ped, r.low) ELSE strands[i].ped
         after == bump_loop_rank(Last(Strands(p)))
         s  == Iteration(Here(strands[i].map), r.low)
     IN  /\ strands' = [strands EXCEPT ![i] =
                          [todo |-> Rest(r) \o Tail(@.todo),
                           ped  |-> IF Rest(r) = <<>> THEN <<>> ELSE after,
                           map  |-> s.map]]
         /\ ran' = [ran EXCEPT ![r.low] = Append(@, Strands(p))]
         /\ Effects(s)
  /\ UNCHANGED <<pc, obj, initial, count, grain, ped, result>>

Busy == {i \in DOMAIN strands : strands[i].todo /= <<>>}

\* A thief takes the oldest continuation, the last in serial order, and
\* starts without a table.
Steal(i) ==
  /\ Len(strands[i].todo) >= 2
  /\ Cardinality(Busy) < P
  /\ strands' = InsertAt([strands EXCEPT ![i].todo = Front(@)], i + 1,
                         Strand(<<Last(strands[i].todo)>>, NULL))
  /\ UNCHANGED <<pc, obj, initial, count, grain, mem, reductions, ran, ped, result, error>>

\* Two finished neighbours: the later one to arrive merges both tables.
Merge(i) ==
  /\ i < Len(strands)
  /\ strands[i].todo = <<>> /\ strands[i + 1].todo = <<>>
  /\ LET m == repeated_merge_reducer_maps(Here(NULL), strands[i].map, strands[i + 1].map)
     IN  /\ strands' = RemoveAt([strands EXCEPT ![i].map = m.h], i + 1)
         /\ Effects(m.s)
  /\ UNCHANGED <<pc, obj, initial, count, grain, ran, ped, result>>

\* After the loop: the values are read or moved out, the constructed reducers
\* are destroyed, and returning from the initial frame destroys the table; a
\* strand that is not the initial one goes on with it.
Finish ==
  LET map  == strands[1].map
      live == {k \in DOMAIN obj : \/ obj[k].mode \in {"registered", "global"}
                                  \/ obj[k].mode = "heap" /\ obj[k].at < count}
      read == FoldLeft(hyper_lookup, Here(map), SelectSeq(KeySeq, LAMBDA k : k \in live))
      view(k) == read.mem[lookup(read.map, k)]
      s    == FoldLeft(reducer_destruct, read,
                       SelectSeq(KeySeq, LAMBDA k : k \in live /\ obj[k].mode /= "global"))
  IN  /\ pc = "loop"
      /\ Len(strands) = 1 /\ strands[1].todo = <<>>
      /\ pc' = "done"
      /\ result' = [k \in live |-> get_value(obj[k], view(k))]
      /\ ped' = IF count > 0 THEN cilk_for_exit(ped) ELSE ped
      /\ strands' = IF initial THEN <<>> ELSE <<Strand(<<>>, s.map)>>
      /\ Effects(IF initial THEN destroy(s, elements(s.map)) ELSE s)
      /\ UNCHANGED <<obj, initial, count, grain, ran>>

\* The program has ended.
Ended == pc = "done" /\ UNCHANGED vars

Next ==
  \/ \E req \in Requests, underPtool, stolen \in BOOLEAN : Begin(req, underPtool, stolen)
  \/ \E i \in DOMAIN strands : Split(i) \/ Iterate(i) \/ Steal(i) \/ Merge(i)
  \/ Finish
  \/ Ended

Spec == Init /\ [][Next]_vars

-----------------------------------------------------------------------------
(* Properties. *)

StartView(k) == IF obj[k].mode = "global" /\ ~initial THEN identity_fn(obj[k])
                ELSE IF obj[k].start = NULL THEN obj[k].left
                ELSE set_view_value(obj[k], obj[k].left, obj[k].start)

\* The view that a serial execution of the loop leaves behind.
SerialView(k) ==
  LET turns == SelectSeq([i \in 1 .. count |-> i - 1],
                         LAMBDA i : obj[k].ups[i] /= NULL /\ (obj[k].mode = "heap" => obj[k].at = i))
  IN  FoldLeft(LAMBDA v, i : apply(obj[k], v, obj[k].ups[i]), StartView(k), turns)

Feeders(k) == {j \in DOMAIN obj : obj[j].feeds = k}

\* The special case of index reducers: the view was never set, and every update
\* is the identity value of the numeric type.
OnlyIdentityUpdates(k) ==
  LET cls == obj[k].cls
      updates == {obj[k].ups[i] : i \in 0 .. count - 1} \ {NULL}
  IN  /\ cls.lib = "minmax" /\ cls.api = "view" /\ cls.index /\ do_is_set_optimization(cls)
      /\ ~StartView(k).set
      /\ updates /= {}
      /\ \A ps \in updates : \A n \in DOMAIN ps : ps[n].x = identity_value(cls)

\* Whatever was stolen and in whatever order neighbours were merged, every
\* reducer ends with the value of the serial loop; a counter that reduce
\* functions increment has counted every call; a holder that keeps no view in
\* particular holds one that was really there; and in the special case of
\* index reducers the index may be the type's default one instead of the one
\* the program has given, see DefaultIndexKept (merge_reducer_maps and the
\* reduce functions of the reducer library).
SerialResult ==
  pc = "done" =>
    \A k \in DOMAIN result :
      LET serial == get_value(obj[k], SerialView(k))
      IN  CASE obj[k].cls.lib = "holder" /\ obj[k].cls.policy = "keep_indeterminate" ->
                 result[k] \in {obj[k].left} \union {obj[k].ups[i] : i \in 0 .. count - 1}
            [] Feeders(k) /= {} ->
                 result[k] = Wrap(SerialView(k) + SumFunctionOnSet(reductions, Feeders(k)))
            [] OnlyIdentityUpdates(k) ->
                 result[k] \in {serial, <<IndexZero>> \o Tail(serial)}
            [] OTHER -> result[k] = serial

\* reducer_min_max.h:295-308, on the special case: "As a workaround for this
\* conundrum, you can specify an alternative "default" index value".  The
\* program that does so reads that index at the end.
DefaultIndexKept ==
  pc = "done" =>
    \A k \in DOMAIN result : OnlyIdentityUpdates(k) => result[k][1] = StartView(k).idx

Maps == {i \in DOMAIN strands : strands[i].map /= NULL}

\* Every table is a dictionary: after growth of buckets, rehashing, merging
\* and removal, each element is found under its key and counted once
\* (cilkred_map::check and lookup).
TablesAreDictionaries == \A i \in Maps : check(strands[i].map)

\* Every private view is in one table and is destroyed when its element is
\* merged away, every leftmost view is in at most one table, and no table
\* refers to a view that is gone (elem::destroy, merge, hyper_lookup).  And a
\* program that syncs before it destroys its reducers is never told that it did
\* not: the leftmost view comes back to the strand that made it through every
\* merge, also for a reducer made by a later strand (the errors of
\* __cilkrts_hyper_destroy and the assertions of merge and hyper_create).
ViewsOwnedOnce ==
  LET held == {<<i, j>> \in (DOMAIN strands) \X (1 .. Cardinality(DOMAIN mem) + 1) :
                 i \in Maps /\ j <= Len(elements(strands[i].map))}
      view(h) == elements(strands[h[1]].map)[h[2]].view
  IN  /\ ~error
      /\ \A h \in held : view(h) \in DOMAIN mem
      /\ \A g, h \in held : view(g) = view(h) => g = h
      /\ \A a \in DOMAIN mem : a <= MaxViews => \E h \in held : view(h) = a

\* Pedigree p comes before q in the serial order.
Precedes(p, q) ==
  \/ Len(p) < Len(q) /\ IsPrefix(p, q)
  \/ \E n \in DOMAIN p \intersect DOMAIN q : SubSeq(p, 1, n - 1) = SubSeq(q, 1, n - 1) /\ p[n] < q[n]

\* Each iteration runs once, and a pedigree identifies a strand: that of an
\* iteration depends on its index alone, not on the grain, the depth of the
\* recursion or the steals; no rank is zero; and the strands before, in and
\* after the loop, those that iterations spawn included, have increasing
\* pedigrees in the order of the serial program (cilk_for_root,
\* call_cilk_for_loop_body, __cilkrts_bump_loop_rank).
SerialPedigrees ==
  LET all == <<<<Rank>>>> \o FlattenSeq([i \in 1 .. count |-> ran[i - 1][1]]) \o <<ped>>
  IN  /\ \A i \in DOMAIN ran : Len(ran[i]) <= 1
      /\ pc = "done" /\ count > 0 =>
           /\ \A i \in DOMAIN ran : ran[i] /= <<>>
           /\ \A i \in DOMAIN ran :
                ran[i][1][1] = call_cilk_for_loop_body(loop_root_pedigree(<<Rank>>), i)
           /\ \A p \in Range(all) : \A n \in DOMAIN p : p[n] > 0
           /\ \A n \in 1 .. Len(all) - 1 : Precedes(all[n], all[n + 1])

\* The comment in cilk_for_recursive: "Invariant: count > 0, grain >= 1".
RecursionInvariant ==
  /\ pc = "loop" => grain >= 1
  /\ \A i \in Busy : WrapCount(Head(strands[i].todo).high - Head(strands[i].todo).low) > 0
=============================================================================
