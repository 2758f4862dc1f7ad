------------------------------ MODULE HyperMap ------------------------------
(***************************************************************************)
(* runtime/reducer_impl.cpp: the hash table from hyperobjects to views     *)
(* that every strand owns, as operators on table values.                   *)
(*                                                                         *)
(* A hyperobject's key is the address of its leftmost view, so an element  *)
(* whose view is its key holds the leftmost view.  A bucket is a sequence  *)
(* of elements with the capacity nmax; the element after the last one has  *)
(* a zero key and ends every scan, so it is not in the sequence.           *)
(***************************************************************************)
EXTENDS FrameSizes, SequencesExt, Bitwise

CONSTANT NULL                   \* no map, no view, no bucket

-----------------------------------------------------------------------------
(* Elements, buckets and tables. *)

\* struct elem; the hyperobject base is found from the key.
elem(key, view) == [key |-> key, view |-> view]
is_leftmost(el) == el.key = el.view

\* sizeof(bucket) is 32 with its one element, sizeof(elem) is 24.
sizeof_bucket(nmax) == 32 + 24 * nmax

\* The number of elements that fill a block of the frame allocator.
roundup(nmax) == (frame_malloc_roundup(sizeof_bucket(nmax)) - 32) \div 24

no_bucket == [nmax |-> 0, el |-> <<>>]

\* grow and the stores of insert_no_rehash: a free element of the bucket, or
\* a bucket of twice the capacity.
grow(b) == IF Len(b.el) < b.nmax THEN b.nmax ELSE roundup(2 * b.nmax)
insert_into_bucket(b, el) == [nmax |-> grow(b), el |-> Append(b.el, el)]

make_buckets(nbuckets) == [i \in 1 .. nbuckets |-> no_bucket]

\* __cilkrts_make_reducer_map and __cilkrts_set_leftmost_reducer_map.
make_reducer_map == [nelem |-> 0, buckets |-> make_buckets(1), leftmost |-> FALSE]
set_leftmost_reducer_map(h) == [h EXCEPT !.leftmost = TRUE]

minsz(nelem) == 1 + nelem + nelem \div 8
nextsz(nbuckets) == 2 * nbuckets
need_rehash_p(h) == minsz(h.nelem) > Len(h.buckets)

\* One line of hashfun's mixing.
mix(k, n) == k ^^ shiftR(k, n)

\* hashfun, plus one because TLA+ sequences start at 1.
hashfun(h, key) == (mix(mix(mix(key, 21), 8), 3) % Len(h.buckets)) + 1

insert_no_rehash(h, el) ==
  [h EXCEPT !.buckets[hashfun(h, el.key)] = insert_into_bucket(@, el), !.nelem = @ + 1]

\* The elements in the order in which the loops over a table visit them.
elements(h) == FlattenSeq([i \in DOMAIN h.buckets |-> h.buckets[i].el])

\* Mutant: the elements stay where the smaller table had them.
rehash_in_place(h) == [h EXCEPT !.buckets = @ \o make_buckets(Len(@))]

rehash(h) ==
  FoldLeft(insert_no_rehash,
           [h EXCEPT !.buckets = make_buckets(nextsz(Len(h.buckets))), !.nelem = 0],
           elements(h))

rehash_and_insert(h, el) ==
  insert_no_rehash(IF need_rehash_p(h) THEN rehash(h) ELSE h, el)

\* lookup: the scan of a bucket for the first element with the key.
position(els, key) == SelectInSeq(els, LAMBDA e : e.key = key)
view_at(els, i) == IF i = 0 THEN NULL ELSE els[i].view
view_of(els, key) == view_at(els, position(els, key))
lookup(h, key) == view_of(h.buckets[hashfun(h, key)].el, key)

\* merge's store into the element that it has looked up.
replace_view(els, i, view) == [els EXCEPT ![i].view = view]
set_view(h, key, view) ==
  [h EXCEPT !.buckets[hashfun(h, key)].el = replace_view(@, position(@, key), view)]

\* The loop at the end of __cilkrts_hyper_destroy moves the elements after
\* the destroyed one, the terminating one included, down by one.
remove(h, key) ==
  [h EXCEPT !.buckets[hashfun(h, key)].el = RemoveAt(@, position(@, key)), !.nelem = @ - 1]

-----------------------------------------------------------------------------
\* What a table must be for lookup to be a dictionary: the element count is
\* right (cilkred_map::check), an element is where its hash says, no key is
\* there twice, and every bucket has room for its terminating element.
check(h) ==
  /\ h.nelem = Len(elements(h))
  /\ \A i \in DOMAIN h.buckets :
       /\ Len(h.buckets[i].el) <= h.buckets[i].nmax
       /\ \A j \in DOMAIN h.buckets[i].el : hashfun(h, h.buckets[i].el[j].key) = i
  /\ \A i, j \in DOMAIN elements(h) : elements(h)[i].key = elements(h)[j].key => i = j
=============================================================================
