------------------------------ MODULE Reducers ------------------------------
(***************************************************************************)
(* cilk/reducer.h and cilk/hyperobject_base.h: what a reducer does with    *)
(* its views, whatever its monoid.  A reducer is a record of its monoid    *)
(* (cls) and of the leftmost view its constructor makes (left); the        *)
(* runtime reaches the monoid through the five functions of cilk_c_monoid, *)
(* of which reduce, identity and allocate/destroy are visible here.        *)
(***************************************************************************)
EXTENDS MinMaxReducers, OpReducers, ContainerReducers, Holders

\* identity_wrapper: the view a strand starts with.
identity_fn(r) ==
  CASE r.cls.lib = "minmax" -> MinMaxIdentity(r.cls)
    [] r.cls.lib = "op"     -> OpIdentity(r.cls)
    [] r.cls.lib = "holder" -> construct_view(r.cls.init)
    [] OTHER                -> ContainerIdentity(r)

\* reduce_wrapper: what the left view becomes.
reduce_fn(r, lhs, rhs) ==
  CASE r.cls.lib = "minmax" -> MinMaxReduce(r.cls, lhs, rhs)
    [] r.cls.lib = "op"     -> OpReduce(r.cls, lhs, rhs)
    [] r.cls.lib = "holder" -> holder_reduce_functor(r.cls, lhs, rhs)
    [] OTHER                -> ContainerReduce(r.cls, lhs, rhs)

\* An operation of the view, through operator*, operator-> or REDUCER_VIEW.
apply(r, view, u) ==
  CASE r.cls.lib = "minmax" -> MinMaxUpdate(r.cls, view, u)
    [] r.cls.lib = "op"     -> OpUpdate(r.cls, view, u)
    [] r.cls.lib = "holder" -> u
    [] OTHER                -> ContainerUpdate(r.cls, view, u)

\* reducer_set_get::set_value and move_in.  A list keeps its allocator.
set_view_value(r, view, x) ==
  CASE r.cls.lib = "minmax" -> view_set_value(r.cls, view, x)
    [] r.cls.lib = "list"   -> [view EXCEPT !.elems = x]
    [] r.cls.lib \in {"string", "vector"} -> pieces_view(x)
    [] OTHER                -> x

\* reducer_set_get::get_value.
get_value(r, view) ==
  CASE r.cls.lib = "minmax" -> MinMaxValue(r.cls, view)
    [] r.cls.lib \in {"op", "holder"} -> view
    [] OTHER                -> ContainerValue(r.cls, view)
=============================================================================
