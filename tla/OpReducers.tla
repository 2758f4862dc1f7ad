----------------------------- MODULE OpReducers -----------------------------
(***************************************************************************)
(* cilk/reducer_opadd.h, reducer_opmul.h, reducer_opand.h, reducer_opor.h  *)
(* and reducer_opxor.h: reducers whose view is one number (scalar_view).   *)
(*                                                                         *)
(* Addition and multiplication are those of an unsigned type of NumBits    *)
(* bits, so they wrap; for the bitwise reducers a number is the set of its *)
(* one bits.  An update is a record of the operator applied and of its     *)
(* operands: one for +=, -=, *=, &=, |= and ^=, none for ++ and --, and    *)
(* any number for an assignment *r = *r + a - b, which goes through an     *)
(* rhs_proxy that collects the operands before the view is touched.        *)
(***************************************************************************)
EXTENDS Integers, SequencesExt

CONSTANT NumBits                \* width of the reducers' value type

ASSUME NumBitsType == NumBits \in Nat \ {0}

Wrap(n) == n % (2^NumBits)
AllBits == 0 .. NumBits - 1

-----------------------------------------------------------------------------
(* The views: identity constructor, the operator, and the rhs_proxy that   *)
(* gathers the operands of an assignment.                                  *)

op_add_view == 0
op_add_apply(u, v) ==
  CASE u.op = "+=" -> Wrap(v + u.xs[1])
    [] u.op = "-=" -> Wrap(v - u.xs[1])
    [] u.op = "++" -> Wrap(v + 1)
    [] u.op = "--" -> Wrap(v - 1)
    \* v = v - x1 + x2 + ...: the proxy starts from -x1
    [] u.op = "= -" -> Wrap(v + FoldLeft(LAMBDA acc, x : Wrap(acc + x),
                                         Wrap(-u.xs[1]), Tail(u.xs)))

op_mul_view == 1
op_mul_apply(u, v) == Wrap(v * FoldLeft(LAMBDA acc, x : Wrap(acc * x), u.xs[1], Tail(u.xs)))

op_and_view == AllBits
op_and_apply(u, v) == v \intersect FoldLeft(LAMBDA acc, x : acc \intersect x, u.xs[1], Tail(u.xs))

op_or_view == {}
op_or_apply(u, v) == v \union FoldLeft(LAMBDA acc, x : acc \union x, u.xs[1], Tail(u.xs))

op_xor_view == {}
op_xor_apply(u, v) == SymDiff(v, FoldLeft(SymDiff, u.xs[1], Tail(u.xs)))

-----------------------------------------------------------------------------
(* The monoids op_add ... op_xor, their wrappers and their C macros: all   *)
(* of them share the view's identity and reduce operation and differ in    *)
(* the leftmost view they construct.                                       *)

OpMonoid(op) == [lib |-> "op", op |-> op]

\* The deprecated wrappers.  The default constructor of reducer_opand starts
\* from Type(), not from the identity.
reducer_opadd == {[cls |-> OpMonoid("add"), left |-> x] : x \in {op_add_view, 3}}
reducer_opand == {[cls |-> OpMonoid("and"), left |-> x] : x \in {{}, {0}}}
reducer_opor  == {[cls |-> OpMonoid("or"),  left |-> x] : x \in {op_or_view, {0}}}
reducer_opxor == {[cls |-> OpMonoid("xor"), left |-> x] : x \in {op_xor_view, {0}}}

\* The C macros: the initial value is the macro's argument.
CILK_C_REDUCER_OPADD == {[cls |-> OpMonoid("add"), left |-> 0]}
CILK_C_REDUCER_OPMUL == {[cls |-> OpMonoid("mul"), left |-> 1]}
CILK_C_REDUCER_OPAND == {[cls |-> OpMonoid("and"), left |-> AllBits]}
CILK_C_REDUCER_OPOR  == {[cls |-> OpMonoid("or"),  left |-> {}]}
CILK_C_REDUCER_OPXOR == {[cls |-> OpMonoid("xor"), left |-> {}]}

-----------------------------------------------------------------------------
OpIdentity(cls) ==
  CASE cls.op = "add" -> op_add_view
    [] cls.op = "mul" -> op_mul_view
    [] cls.op = "and" -> op_and_view
    [] cls.op = "or"  -> op_or_view
    [] cls.op = "xor" -> op_xor_view

OpUpdate(cls, v, u) ==
  CASE cls.op = "add" -> op_add_apply(u, v)
    [] cls.op = "mul" -> op_mul_apply(u, v)
    [] cls.op = "and" -> op_and_apply(u, v)
    [] cls.op = "or"  -> op_or_apply(u, v)
    [] cls.op = "xor" -> op_xor_apply(u, v)

OpReduce(cls, l, r) ==
  CASE cls.op = "add" -> Wrap(l + r)
    [] cls.op = "mul" -> Wrap(l * r)
    [] cls.op = "and" -> l \intersect r
    [] cls.op = "or"  -> l \union r
    [] cls.op = "xor" -> SymDiff(l, r)
=============================================================================
