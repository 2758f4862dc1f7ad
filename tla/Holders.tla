------------------------------- MODULE Holders -------------------------------
(***************************************************************************)
(* cilk/holder.h: a hyperobject that gives every strand a scratch view of  *)
(* its own.  The policy says what is left of two views when strands are    *)
(* joined; the initializer says what a new view holds.                     *)
(***************************************************************************)
EXTENDS Integers

Policies == {"keep_indeterminate", "keep_last_copy", "keep_last_swap", "keep_last_move"}

\* holder_keep_last picks a policy by what the type can do: a member swap, a
\* move, or only a copy.
keep_last(hasSwap, hasMove) ==
  IF hasSwap THEN "keep_last_swap" ELSE IF hasMove THEN "keep_last_move" ELSE "keep_last_copy"

\* default_init, exemplar_init and functor_init: construct_view.
default_init == 0
exemplar_init(x) == x
functor_init(f) == f.result
construct_view(init) ==
  CASE init.kind = "default"  -> default_init
    [] init.kind = "exemplar" -> exemplar_init(init.x)
    [] init.kind = "functor"  -> functor_init(init.f)

\* holder_monoid: its policy and its initializer, which is cloned with the
\* monoid; identity and the leftmost view come from the same initializer.
holder_monoid(p, init) == [lib |-> "holder", policy |-> p, init |-> init]

\* holder_reduce_functor.
holder_reduce_functor(cls, l, r) ==
  IF cls.policy = "keep_indeterminate" THEN l ELSE r

holder == {[cls |-> holder_monoid(p, i), left |-> construct_view(i)] :
             p \in Policies \union {keep_last(TRUE, FALSE), keep_last(FALSE, FALSE)},
             i \in {[kind |-> "default"], [kind |-> "exemplar", x |-> 7],
                    [kind |-> "functor", f |-> [result |-> 8]]}}
=============================================================================
