------------------------- MODULE ContainerReducers -------------------------
(***************************************************************************)
(* cilk/reducer_list.h, reducer_string.h, reducer_vector.h and             *)
(* reducer_ostream.h.                                                      *)
(*                                                                         *)
(* A list view is a list and its allocator; two lists can be spliced only  *)
(* if their allocators are equal, otherwise the elements are copied.  A    *)
(* string or vector view is a list of pieces and a last piece that grows;  *)
(* its value is their concatenation, made when somebody asks (flatten).    *)
(* An ostream view writes to the stream itself if it is the leftmost one   *)
(* and to a private buffer otherwise.                                      *)
(***************************************************************************)
EXTENDS Integers, SequencesExt

-----------------------------------------------------------------------------
(* Lists. *)

op_list_append  == [lib |-> "list", front |-> FALSE]
op_list_prepend == [lib |-> "list", front |-> TRUE]

\* list_view_base, list_monoid_base: the identity view gets the monoid's
\* allocator, which is the one of the leftmost view.
list_view_base(a, s) == [alloc |-> a, elems |-> s]
list_monoid_identity(left) == list_view_base(left.alloc, <<>>)

\* push_back, insert_back and splice_back.
op_list_append_view(v, u) == [v EXCEPT !.elems = @ \o u.xs]

\* push_front, insert_front and splice_front.  splice_front(x) of a list with
\* another allocator calls insert_front(x.begin(), x.begin()), which inserts
\* nothing, and clears x.
op_list_prepend_view(v, u) ==
  [v EXCEPT !.elems = IF u.op = "splice" /\ u.alloc /= v.alloc THEN @ ELSE u.xs \o @]

\* op_list_append_view::reduce and op_list_prepend_view::reduce; both assert
\* that the allocators are equal.
list_reduce(cls, l, r) ==
  [l EXCEPT !.elems = IF cls.front THEN r.elems \o l.elems ELSE l.elems \o r.elems]

reducer_list_append  == {[cls |-> op_list_append,  left |-> list_view_base(a, s)] :
                           a \in {"A", "B"}, s \in {<<>>, <<9>>}}
reducer_list_prepend == {[cls |-> op_list_prepend, left |-> list_view_base(a, s)] :
                           a \in {"A", "B"}, s \in {<<>>, <<9>>}}

-----------------------------------------------------------------------------
(* Strings and vectors: the same representation, and the same code twice.  *)

pieces_view(s) == [list |-> <<>>, last |-> s]

\* flatten
flatten(v) == IF v.list = <<>> THEN v
              ELSE [list |-> <<>>, last |-> FlattenSeq(v.list) \o v.last]

\* op_basic_string_view::append, +=, push_back; reduce: the left piece is
\* pushed on the list only if it is not empty.
op_basic_string_view(v, u) == [v EXCEPT !.last = @ \o u.xs]
string_reduce(l, r) ==
  IF r.last = <<>> /\ r.list = <<>> THEN l
  ELSE [list |-> (IF l.last = <<>> THEN l.list ELSE Append(l.list, l.last)) \o r.list,
        last |-> r.last]

op_vector_view(v, u) == [v EXCEPT !.last = @ \o u.xs]
vector_reduce(l, r) ==
  IF r.last = <<>> /\ r.list = <<>> THEN l
  ELSE [list |-> (IF l.last = <<>> THEN l.list ELSE Append(l.list, l.last)) \o r.list,
        last |-> r.last]

op_basic_string == [lib |-> "string"]
op_vector       == [lib |-> "vector"]
reducer_basic_string == {[cls |-> op_basic_string, left |-> pieces_view(s)] : s \in {<<>>, <<9>>}}

-----------------------------------------------------------------------------
(* Streams. The leftmost view's own buffer is never written: what goes to  *)
(* it is in the stream.                                                    *)

op_basic_ostream == [lib |-> "ostream"]
op_basic_ostream_view(os) == [stream |-> os, buffer |-> <<>>, leftmost |-> TRUE]
ostream_identity == [stream |-> <<>>, buffer |-> <<>>, leftmost |-> FALSE]

\* operator<< of the view: to the stream's buffer or to the private one.
ostream_write(v, xs) == IF v.leftmost THEN [v EXCEPT !.stream = @ \o xs]
                                      ELSE [v EXCEPT !.buffer = @ \o xs]

\* Writing an empty buffer would set the stream's failure state, so it is
\* not done; what is written is the private buffer of the right view.
ostream_reduce(l, r) == IF r.buffer = <<>> THEN l ELSE ostream_write(l, r.buffer)

reducer_ostream == {[cls |-> op_basic_ostream, left |-> op_basic_ostream_view(<<9>>)]}

-----------------------------------------------------------------------------
ContainerIdentity(r) ==
  CASE r.cls.lib = "list"    -> list_monoid_identity(r.left)
    [] r.cls.lib = "ostream" -> ostream_identity
    [] OTHER                 -> pieces_view(<<>>)

ContainerUpdate(cls, v, u) ==
  CASE cls.lib = "list" /\ cls.front  -> op_list_prepend_view(v, u)
    [] cls.lib = "list" /\ ~cls.front -> op_list_append_view(v, u)
    [] cls.lib = "string"             -> op_basic_string_view(v, u)
    [] cls.lib = "vector"             -> op_vector_view(v, u)
    [] cls.lib = "ostream"            -> ostream_write(v, u.xs)

ContainerReduce(cls, l, r) ==
  CASE cls.lib = "list"    -> list_reduce(cls, l, r)
    [] cls.lib = "string"  -> string_reduce(l, r)
    [] cls.lib = "vector"  -> vector_reduce(l, r)
    [] cls.lib = "ostream" -> ostream_reduce(l, r)

\* get_value: the list, the flattened pieces, what is in the stream.
ContainerValue(cls, v) ==
  CASE cls.lib = "list"    -> v.elems
    [] cls.lib = "ostream" -> v.stream
    [] OTHER               -> flatten(v).last
=============================================================================
