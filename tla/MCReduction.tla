---------------------------- MODULE MCReduction ----------------------------
(***************************************************************************)
(* Reduction and RecordReplay for TLC.  They share no state, so a          *)
(* behaviour explores the one it chose and leaves the other in one initial *)
(* state.  The programs for Reduction: every reducer of the library alone, *)
(* and programs with several hyperobjects in one table.                    *)
(***************************************************************************)
EXTENDS Reduction, RecordReplay

VARIABLE chosen

Turns == 0 .. 4

HyperObject(r, mode, i, start, ups, feeds) ==
  [cls |-> r.cls, left |-> r.left, mode |-> mode, at |-> i, start |-> start,
   ups |-> ups, feeds |-> feeds]

\* A program with one reducer; the C interface does not register it.
Alone(r, mode, start, ups) == (256 :> HyperObject(r, mode, 0, start, ups, NULL))

\* Values with ties, also with an operand of an assignment, with the identities
\* of both directions, and with an iteration that does nothing.
Operands == <<<<7>>, <<0, 7>>, <<>>, <<0>>, <<6>>>>
MinMaxUps == [t \in Turns |-> LET xs == Operands[t + 1]
                             IN  IF xs = <<>> THEN NULL
                                 ELSE [n \in DOMAIN xs |-> [i |-> t + 10 * n, x |-> xs[n]]]]
LateUps == [t \in Turns |-> IF t < 2 THEN NULL ELSE <<[i |-> t + 10, x |-> 1 + t]>>]
IdentityUps(cls) == [t \in Turns |-> <<[i |-> t + 10, x |-> identity_value(cls)]>>]

\* Index reducers that are given a default index and are updated with nothing
\* but the identity value: the loop of the comment in reducer_min_max.h.
DefaultIndexes ==
  {Alone([cls |-> c, left |-> index_view_content(c, 9)], "registered", NULL, IdentityUps(c)) :
     c \in {op_max_index("less"), op_min_index("less")}}
DefaultIndexPrograms == <<DefaultIndexes>>

MinMaxPrograms ==
  {Alone(r, "registered", NULL, MinMaxUps) :
     r \in UNION {reducer_max(c) \union reducer_min(c) \union
                  reducer_max_index(c) \union reducer_min_index(c) : c \in {"less", "user"}}}
  \union {Alone(r, "global", NULL, MinMaxUps) :
     r \in CILK_C_REDUCER_MAX \union CILK_C_REDUCER_MAX_INDEX \union
           CILK_C_REDUCER_MIN \union CILK_C_REDUCER_MIN_INDEX}
  \union {Alone([cls |-> c, left |-> index_view_content(c, 9)], "registered", s, LateUps) :
     c \in {op_max_index("less"), op_min_index("user")}, s \in {NULL, [i |-> 3, x |-> 4]}}
  \union DefaultIndexes

Shared(op) == CASE op = "add" -> [t \in Turns |-> <<[op |-> "+=", xs |-> <<t + 2>>], [op |-> "-=", xs |-> <<3>>],
                                                   [op |-> "++"], [op |-> "--"],
                                                   [op |-> "= -", xs |-> <<5, 1, 2>>]>>[t + 1]]
                [] op = "mul" -> [t \in Turns |-> [op |-> "*=", xs |-> IF t = 1 THEN <<3, 3>> ELSE <<t + 3>>]]
                [] OTHER      -> [t \in Turns |-> [op |-> op, xs |-> IF t = 1 THEN <<{0, 1}, {1, 3}>>
                                                                     ELSE <<{t % 4, 1}>>]]
AddPrograms ==
  {Alone(r, "registered", 6, Shared(r.cls.op)) : r \in reducer_opadd}
  \union {Alone(r, "global", NULL, Shared(r.cls.op)) :
            r \in CILK_C_REDUCER_OPADD \union CILK_C_REDUCER_OPMUL}
BitPrograms ==
  {Alone(r, "registered", NULL, Shared(r.cls.op)) :
     r \in reducer_opand \union reducer_opor \union reducer_opxor}
  \union {Alone(r, "global", NULL, Shared(r.cls.op)) :
            r \in CILK_C_REDUCER_OPAND \union CILK_C_REDUCER_OPOR \union CILK_C_REDUCER_OPXOR}

\* A list that is spliced in has the reducer's allocator.
Letters(r) == [t \in Turns |-> IF t = 3 THEN NULL
                ELSE [op |-> IF t % 2 = 0 THEN "splice" ELSE "push", xs |-> <<t, t + 5>>,
                      alloc |-> IF r.cls.lib = "list" THEN r.left.alloc ELSE "A"]]
ContainerPrograms ==
  {Alone(r, "registered", s, Letters(r)) :
     r \in reducer_list_append \union reducer_list_prepend \union reducer_basic_string
           \union {[cls |-> op_vector, left |-> pieces_view(<<9>>)]},
     s \in {NULL, <<8>>}}
  \union {Alone(r, "registered", NULL, Letters(r)) : r \in reducer_ostream}

HolderPrograms ==
  {Alone(r, "registered", NULL, [t \in Turns |-> IF t = 2 THEN NULL ELSE t]) : r \in holder}

\* Five hyperobjects in one table: a list whose reduce function counts its
\* calls in a global C reducer, a reducer on the heap, one of a single
\* iteration, which may fail to be constructed, and one that few iterations touch.
ListA == [cls |-> op_list_append, left |-> list_view_base("A", <<>>)]
Several(heapAt, scopedAt, mode) ==
  (256  :> HyperObject(ListA, "registered", 0, NULL, Letters(ListA), 512))
  @@ (512  :> HyperObject([cls |-> OpMonoid("add"), left |-> 0], "global", 0, NULL,
                          [t \in Turns |-> NULL], NULL))
  @@ (768  :> HyperObject([cls |-> op_basic_string, left |-> pieces_view(<<9>>)], "heap", heapAt, NULL,
                          Letters(ListA), NULL))
  @@ (1024 :> HyperObject(ListA, mode, scopedAt, NULL, Letters(ListA), NULL))
  @@ (1280 :> HyperObject([cls |-> op_basic_string, left |-> pieces_view(<<>>)], "registered", 0, NULL,
                          [t \in Turns |-> IF t = 2 THEN [xs |-> <<4>>] ELSE NULL], NULL))

MCPrograms ==
  <<MinMaxPrograms, AddPrograms, BitPrograms, ContainerPrograms, HolderPrograms,
    {Several(1, 0, "scoped")}, {Several(1, 2, "scoped")},
    {Several(2, 0, "throws")}, {Several(4, 2, "throws")}>>

MCBucketSizes == <<64, 128, 256, 512, 1024, 2048>>

MCShape == <<2, 1>>

-----------------------------------------------------------------------------
allVars == <<vars, replayVars, chosen>>

MCInit ==
  /\ Init /\ ReplayInit
  /\ \/ chosen = "reduction"
     \/ /\ chosen = "replay"
        /\ obj = Several(1, 0, "scoped") /\ ~initial /\ count = CHOOSE c \in Counts : TRUE

Replaying(A) == chosen = "replay" /\ A /\ UNCHANGED <<vars, chosen>>

MCNext ==
  \/ chosen = "reduction" /\ Next /\ UNCHANGED <<replayVars, chosen>>
  \/ Replaying(ReplayNext)
  \/ phase = "ended" /\ UNCHANGED allVars

MCSpec ==
  /\ MCInit /\ [][MCNext]_allVars
  /\ \A w \in Crew : WF_allVars(Replaying(Work(w)))
=============================================================================
