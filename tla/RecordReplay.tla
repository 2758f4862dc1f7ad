---------------------------- MODULE RecordReplay ----------------------------
(***************************************************************************)
(* A run of a program is recorded, and then replayed from the log          *)
(* (record-replay.cpp, and its calls in random_steal, provably_good_steal, *)
(* __cilkrts_leave_frame and __cilkrts_c_THE_exception_check).  The calls  *)
(* are in the runtime when CILK_RECORD_REPLAY is defined.                  *)
(*                                                                         *)
(* The program is a tree of functions: one at depth d spawns Shape[d]      *)
(* others, one after another, and then syncs.  A function is named by the  *)
(* pedigree of its spawn, the first one by <<>>, and the pedigree of a     *)
(* strand is its function's and, last, its rank, which a spawn and a sync  *)
(* increment.  A steal is one step, as THEProtocol justifies.  The log of  *)
(* a worker is a file per worker; that it names as many workers as replay  *)
(* it is assumed, for the runtime refuses it otherwise.                    *)
(***************************************************************************)
EXTENDS Integers, Sequences, SequencesExt, FiniteSets

CONSTANTS
    Crew,           \* the workers
    Leader,         \* the one bound to the user's thread, team of every deque
    Shape           \* how many functions one spawns, by depth

ASSUME ShapeAssumption == Leader \in Crew /\ Shape \in Seq(Nat \ {0}) /\ Shape # <<>>

Spawns(f) == IF Len(f) < Len(Shape) THEN Shape[Len(f) + 1] ELSE 0

Functions ==
  UNION {{f \in [1..n -> 1..Max({Shape[i] : i \in DOMAIN Shape})] : \A i \in 1..n : f[i] <= Shape[i]} :
           n \in 0..Len(Shape)}

VARIABLES
    phase,          \* "record", "replay", "ended"
    at,             \* of a worker: what it does, in which function, at which rank
    spawned,        \* its deque: spawning functions and their ranks, oldest first
    joins,          \* join_counter of a function's full frame
    unsynched,      \* functions stolen since their last sync
    log,            \* the records of each worker
    replay_list_entry   \* where in them it is

replayVars == <<phase, at, spawned, joins, unsynched, log, replay_list_entry>>

Idle == [does |-> "idle", fn |-> <<>>, rank |-> 0]
Run(f, r) == [does |-> "run", fn |-> f, rank |-> r]

\* The program starts, in both phases, on the user's thread.
Start ==
  /\ at' = [w \in Crew |-> IF w = Leader THEN Run(<<>>, 1) ELSE Idle]
  /\ spawned' = [w \in Crew |-> <<>>]
  /\ joins' = [f \in Functions |-> 1] /\ unsynched' = {}

ReplayInit ==
  /\ phase = "record"
  /\ at = [w \in Crew |-> IF w = Leader THEN Run(<<>>, 1) ELSE Idle]
  /\ spawned = [w \in Crew |-> <<>>]
  /\ joins = [f \in Functions |-> 1] /\ unsynched = {}
  /\ log = [w \in Crew |-> <<>>]
  /\ replay_list_entry = [w \in Crew |-> 1]

-----------------------------------------------------------------------------
(* The log *)

\* walk_pedigree_nodes writes the ranks from the root on.
write_to_replay_log(records, type, pedigree, i1) ==
  IF phase = "record" THEN Append(records, [type |-> type, pedigree |-> pedigree, i1 |-> i1]) ELSE records

\* replay_entry_t::load: the ranks are kept from the leaf on, and only a STEAL
\* has a value.
load(record) ==
  [type |-> record.type, reverse_pedigree |-> Reverse(record.pedigree),
   value |-> IF record.type = "Steal" THEN record.i1 ELSE -1]

\* load_recorded_log: the entry n of a worker, or the last one
LAST == [type |-> "last", reverse_pedigree |-> <<>>, value |-> -1]
Entry(w, n) == IF n <= Len(log[w]) THEN load(log[w][n]) ELSE LAST

\* Both chains are walked from the leaf, in step.
match(e, type, pedigree, victim) ==
  /\ e.type = type
  /\ type = "Steal" => e.value = victim
  /\ Len(e.reverse_pedigree) = Len(pedigree)
  /\ \A i \in DOMAIN pedigree : e.reverse_pedigree[i] = pedigree[Len(pedigree) + 1 - i]

\* The ORPHANED entries of a worker that some STEAL names: the first of each
\* pedigree in its list.
scan_for_matching_steals(v) ==
  {n \in DOMAIN log[v] :
     /\ Entry(v, n).type = "Orphaned"
     /\ \E w \in Crew : \E m \in DOMAIN log[w] :
          LET s == Entry(w, m)
              same(i) == Entry(v, i).type = "Orphaned"
                           /\ Entry(v, i).reverse_pedigree = s.reverse_pedigree
          IN s.type = "Steal" /\ s.value = v /\ same(n) /\ \A i \in 1..(n - 1) : ~same(i)}

\* ORPHANED entries without a STEAL are passed over.
next_entry(w, n) ==
  IF Entry(w, n).type = "last" THEN n
  ELSE CHOOSE m \in (n + 1)..(Len(log[w]) + 1) :
         LET skipped(i) == Entry(w, i).type = "Orphaned" /\ i \notin scan_for_matching_steals(w)
         IN ~skipped(m) /\ \A i \in (n + 1)..(m - 1) : skipped(i)

-----------------------------------------------------------------------------
(* Work *)

spawn(w) ==
  LET s == at[w] IN
    /\ s.does = "run" /\ s.rank <= Spawns(s.fn)
    /\ spawned' = [spawned EXCEPT ![w] = Append(@, s)]
    /\ at' = [at EXCEPT ![w] = Run(Append(s.fn, s.rank), 1)]
    /\ UNCHANGED <<phase, joins, unsynched, log, replay_list_entry>>

\* Forgets that decjoin comes before the test.
simulate_decjoin_undecreased(f) == joins[f]

simulate_decjoin(f) == joins[f] - 1

\* What worker w, with n and records as its place in the log and its log, does
\* at the sync of f, which it reaches or returns to with pedigree f, rank: it
\* waits to be the last if it was when recorded.  Only a worker that is its
\* own team's leader records the sync, or goes on in the log.
provably_good_steal(w, f, rank, n, records) ==
  LET pedigree == Append(f, rank)
      match_found == phase = "replay" /\ match(Entry(w, n), "Sync", pedigree, -1)
      wait == match_found /\ simulate_decjoin(f) # 0
      last == joins[f] = 1
      continue == ~wait /\ last /\ w = Leader
  IN /\ at' = [at EXCEPT ![w] = IF wait THEN [does |-> "wait", fn |-> f, rank |-> rank]
                                ELSE IF last THEN Run(f, Spawns(f) + 2) ELSE Idle]
     /\ joins' = IF wait \/ last THEN joins ELSE [joins EXCEPT ![f] = @ - 1]
     /\ unsynched' = IF ~wait /\ last THEN unsynched \ {f} ELSE unsynched
     /\ log' = [log EXCEPT ![w] = IF continue THEN write_to_replay_log(records, "Sync", pedigree, -1)
                                  ELSE records]
     /\ replay_list_entry' =
           [replay_list_entry EXCEPT ![w] = IF match_found /\ continue THEN next_entry(w, n) ELSE n]

\* __cilkrts_sync calls into the runtime if the function was stolen.
sync(w) ==
  LET s == at[w] IN
    /\ s.does = "run" /\ Spawns(s.fn) > 0 /\ s.rank = Spawns(s.fn) + 1
    /\ IF s.fn \notin unsynched
       THEN /\ at' = [at EXCEPT ![w].rank = @ + 1]
            /\ UNCHANGED <<joins, unsynched, log, replay_list_entry>>
       ELSE provably_good_steal(w, s.fn, s.rank, replay_list_entry[w], log[w])
    /\ UNCHANGED <<phase, spawned>>

\* The loop in do_sync and do_return_from_spawn tries again.
wait_for_continue(w) ==
  /\ at[w].does = "wait"
  /\ provably_good_steal(w, at[w].fn, at[w].rank, replay_list_entry[w], log[w])
  /\ UNCHANGED <<phase, spawned>>

\* replay_wait_for_steal_if_parent_was_stolen_internal passes the entry without
\* waiting: w->tail and w->head point to two fields of the deque, the first
\* below the second, and the loop compares these pointers.
replay_wait_for_steal_if_parent_was_stolen(w, f) ==
  LET n == replay_list_entry[w]
  IN IF phase = "replay" /\ match(Entry(w, n), "Orphaned", f, -1) THEN next_entry(w, n) ELSE n

\* __cilkrts_leave_frame of a spawned function
leave_frame(w) ==
  LET s == at[w]
      n == replay_wait_for_steal_if_parent_was_stolen(w, s.fn)
  IN /\ s.does = "run" /\ s.fn # <<>> /\ (Spawns(s.fn) = 0 \/ s.rank = Spawns(s.fn) + 2)
     /\ IF spawned[w] # <<>>
        THEN /\ spawned' = [spawned EXCEPT ![w] = Front(@)]
             /\ at' = [at EXCEPT ![w] = Run(Last(spawned[w]).fn, Last(spawned[w]).rank + 1)]
             /\ replay_list_entry' = [replay_list_entry EXCEPT ![w] = n]
             /\ UNCHANGED <<joins, unsynched, log>>
        ELSE /\ provably_good_steal(w, Front(s.fn), Last(s.fn) + 1, n,
                                    write_to_replay_log(log[w], "Orphaned", s.fn, -1))
             /\ UNCHANGED spawned
     /\ UNCHANGED phase

\* In a replay only the frame that is next in the thief's log, and from its victim.
replay_match_victim_pedigree(w, v) ==
  phase = "replay" =>
    match(Entry(w, replay_list_entry[w]), "Steal",
          Append(Head(spawned[v]).fn, Head(spawned[v]).rank), v)

steal(w, v) ==
  LET s == Head(spawned[v]) IN
    /\ at[w].does = "idle" /\ v # w /\ spawned[v] # <<>>
    /\ replay_match_victim_pedigree(w, v)
    /\ spawned' = [spawned EXCEPT ![v] = Tail(@)]
    /\ joins' = [joins EXCEPT ![s.fn] = @ + 1]
    /\ unsynched' = unsynched \cup {s.fn}
    /\ at' = [at EXCEPT ![w] = Run(s.fn, s.rank + 1)]
    /\ log' = [log EXCEPT ![w] = write_to_replay_log(@, "Steal", Append(s.fn, s.rank), v)]
    /\ replay_list_entry' =
          [replay_list_entry EXCEPT ![w] = IF phase = "replay" THEN next_entry(w, @) ELSE @]
    /\ UNCHANGED phase

\* The first function returns; the log is loaded by replay_init_workers of the
\* next process.
finish(w) ==
  /\ at[w] = Run(<<>>, Spawns(<<>>) + 2)
  /\ phase' = IF phase = "record" THEN "replay" ELSE "ended"
  /\ IF phase = "record" THEN Start
     ELSE at' = [at EXCEPT ![w] = Idle] /\ UNCHANGED <<spawned, joins, unsynched>>
  /\ UNCHANGED <<log, replay_list_entry>>

Work(w) == spawn(w) \/ sync(w) \/ wait_for_continue(w) \/ leave_frame(w) \/ finish(w)

ReplayNext == \E w \in Crew : Work(w) \/ \E v \in Crew : steal(w, v)

\* A worker goes on with what it runs; nobody is bound to steal.
ReplayFairness == \A w \in Crew : WF_replayVars(Work(w))

ReplaySpec == ReplayInit /\ [][ReplayNext]_replayVars /\ ReplayFairness

-----------------------------------------------------------------------------
(* Properties *)

\* A replay ends, although a worker waits at a sync to be the last, a thief
\* waits for the frame it stole when recorded, and either may have been
\* overtaken by another schedule.
ReplayEnds == phase = "replay" ~> phase = "ended"
=============================================================================
