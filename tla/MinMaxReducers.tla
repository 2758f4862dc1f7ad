--------------------------- MODULE MinMaxReducers ---------------------------
(***************************************************************************)
(* cilk/reducer_min_max.h: the views of the minimum and maximum reducers,  *)
(* with and without an index, as pure operators.                           *)
(*                                                                         *)
(* A reducer class is a record of its template arguments: the direction    *)
(* (ForMax), whether the view carries an index, the comparator ("less" for *)
(* std::less, "user" for any other) and the interface ("view" for the C++  *)
(* views, "C" for the macros of the C language).  A view is a record of    *)
(* the members m_index, m_value and m_is_set; the classes without an index *)
(* leave m_index alone.  A value is a number between TypeMin and TypeMax.  *)
(***************************************************************************)
EXTENDS Integers, SequencesExt

CONSTANTS TypeMin, TypeMax      \* std::numeric_limits<Type>::min() and max()

ASSUME TypeRange == TypeMin \in Int /\ TypeMax \in Int /\ TypeMin < TypeMax

\* Type() and Index(): what value initialisation gives.
TypeZero == IF TypeMin <= 0 /\ 0 <= TypeMax THEN 0 ELSE TypeMin
IndexZero == 0

-----------------------------------------------------------------------------
(* The helper templates of namespace min_max_internal. *)

\* do_is_set_optimization: a numeric type compared with std::less needs no
\* flag to know whether its value counts.
do_is_set_optimization(cls) == cls.cmp = "less"

\* identity_value::set_identity.
identity_value(cls) == IF cls.max THEN TypeMin ELSE TypeMax

\* The user's comparator of the model orders pairs of values, so that two
\* different values can be equivalent.
Less(cls, a, b) == IF cls.cmp = "less" THEN a < b ELSE (a \div 2) < (b \div 2)

\* reverse_predicate: the comparator of the minimum views is the user's one
\* with its arguments exchanged.
reverse_predicate(cls, a, b) == Less(cls, b, a)

\* comparator_base::compare: TRUE iff b is to replace a.
compare(cls, a, b) == IF cls.max THEN Less(cls, a, b)
                                 ELSE reverse_predicate(cls, a, b)

\* view_content and its specialisation for the optimisation: the identity.
view_content(cls) ==
  [idx |-> IndexZero,
   val |-> IF do_is_set_optimization(cls) THEN identity_value(cls) ELSE TypeZero,
   set |-> FALSE]

\* index_view_content: constructed from an index alone, or from a pair.
index_view_content(cls, i) == [view_content(cls) EXCEPT !.idx = i]
index_view_content_pair(i, x) == [idx |-> i, val |-> x, set |-> TRUE]

has_value(cls, v) == do_is_set_optimization(cls) \/ v.set

-----------------------------------------------------------------------------
(* view_base, rhs_proxy and monoid_base. An update's operand is a pair     *)
(* [i, x] of an index and a value.                                         *)

\* view_base::set_value of an index/value pair: the flag is left alone.
set_value(cls, v, p) == [v EXCEPT !.val = p.x,
                                  !.idx = IF cls.index THEN p.i ELSE v.idx]

\* view_base::calc.
calc(cls, v, p) ==
  LET w == IF ~has_value(cls, v) \/ compare(cls, v.val, p.x)
             THEN set_value(cls, v, p) ELSE v
  IN  [w EXCEPT !.set = TRUE]

\* rhs_proxy: *r = max_of(max_of(*r, a), b) folds the operands first and then
\* assigns the one that is left.
rhs_proxy_calc(cls, m, p) == IF compare(cls, m.x, p.x) THEN p ELSE m
assign(cls, v, ps) ==
  LET m == FoldLeft(LAMBDA acc, p : rhs_proxy_calc(cls, acc, p), Head(ps), Tail(ps))
  IN  calc(cls, v, m)

\* view_base::view_set_value and view_move_in.
view_set_value(cls, v, p) == [set_value(cls, v, p) EXCEPT !.set = TRUE]

\* Mutant: the right view wins ties.
view_base_reduce_ties(cls, l, r) ==
  IF r.set /\ (~l.set \/ ~compare(cls, r.val, l.val))
    THEN [l EXCEPT !.val = r.val, !.set = TRUE,
                   !.idx = IF cls.index THEN r.idx ELSE l.idx]
    ELSE l

\* view_base::reduce.
view_base_reduce(cls, l, r) ==
  IF r.set /\ (~l.set \/ compare(cls, l.val, r.val))
    THEN [l EXCEPT !.val = r.val, !.set = TRUE,
                   !.idx = IF cls.index THEN r.idx ELSE l.idx]
    ELSE l

-----------------------------------------------------------------------------
(* The classes: views, their max_of/min_of functions and their monoids.    *)

op_max(cmp)       == [lib |-> "minmax", api |-> "view", max |-> TRUE,  index |-> FALSE, cmp |-> cmp]
op_min(cmp)       == [lib |-> "minmax", api |-> "view", max |-> FALSE, index |-> FALSE, cmp |-> cmp]
op_max_index(cmp) == [lib |-> "minmax", api |-> "view", max |-> TRUE,  index |-> TRUE,  cmp |-> cmp]
op_min_index(cmp) == [lib |-> "minmax", api |-> "view", max |-> FALSE, index |-> TRUE,  cmp |-> cmp]

\* The deprecated wrapper classes: the same view behind forwarding functions;
\* the leftmost view of the default constructor and of the value constructor.
reducer_max(cmp) ==
  {[cls |-> op_max(cmp), left |-> view_content(op_max(cmp))],
   [cls |-> op_max(cmp), left |-> index_view_content_pair(IndexZero, TypeMin + 1)]}
reducer_min(cmp) ==
  {[cls |-> op_min(cmp), left |-> view_content(op_min(cmp))],
   [cls |-> op_min(cmp), left |-> index_view_content_pair(IndexZero, TypeMax - 1)]}
reducer_max_index(cmp) ==
  {[cls |-> op_max_index(cmp), left |-> view_content(op_max_index(cmp))],
   [cls |-> op_max_index(cmp), left |-> index_view_content_pair(9, TypeMin + 1)]}
reducer_min_index(cmp) ==
  {[cls |-> op_min_index(cmp), left |-> view_content(op_min_index(cmp))],
   [cls |-> op_min_index(cmp), left |-> index_view_content_pair(9, TypeMax - 1)]}

-----------------------------------------------------------------------------
(* The macros of the C interface: no flag, the identity is a value like    *)
(* any other; CILK_C_REDUCER_..._CALC and the reduce function replace the  *)
(* left value only by a strictly better one.                               *)

CILK_C_CALC(cls, v, p) == IF compare(cls, v.val, p.x) THEN set_value(cls, v, p) ELSE v
CILK_C_REDUCE(cls, l, r) ==
  IF compare(cls, l.val, r.val)
    THEN set_value(cls, l, [i |-> r.idx, x |-> r.val]) ELSE l

CILK_C_REDUCER(isMax, isIndex) ==
  LET cls == [lib |-> "minmax", api |-> "C", max |-> isMax, index |-> isIndex, cmp |-> "less"]
  IN  {[cls |-> cls, left |-> [idx |-> 0, val |-> x, set |-> TRUE]] :
         x \in {identity_value(cls), TypeMin + 1}}
CILK_C_REDUCER_MAX       == CILK_C_REDUCER(TRUE, FALSE)
CILK_C_REDUCER_MAX_INDEX == CILK_C_REDUCER(TRUE, TRUE)
CILK_C_REDUCER_MIN       == CILK_C_REDUCER(FALSE, FALSE)
CILK_C_REDUCER_MIN_INDEX == CILK_C_REDUCER(FALSE, TRUE)

-----------------------------------------------------------------------------
(* What the reducer of such a class does with a view. *)

\* monoid_base::identity; the identity functions of the C interface.
MinMaxIdentity(cls) == IF cls.api = "C" THEN [view_content(cls) EXCEPT !.set = TRUE]
                                        ELSE view_content(cls)

\* An update is a sequence of operands: one for calc_max and calc_min, more
\* for an assignment of a proxy.
MinMaxUpdate(cls, v, ps) ==
  CASE cls.api = "C"  -> CILK_C_CALC(cls, v, ps[1])
    [] Len(ps) = 1 /\ cls.api = "view" -> calc(cls, v, ps[1])
    [] OTHER          -> assign(cls, v, ps)

MinMaxReduce(cls, l, r) == IF cls.api = "C" THEN CILK_C_REDUCE(cls, l, r)
                                            ELSE view_base_reduce(cls, l, r)

\* get_value, get_index and is_set.
MinMaxValue(cls, v) == <<IF cls.index THEN v.idx ELSE IndexZero, v.val, v.set>>
=============================================================================
