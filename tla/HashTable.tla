------------------------------ MODULE HashTable ------------------------------
(***************************************************************************)
(* Hash_c: the hash under THash and under the values of ApplicationCache.  *)
(* A bucket is the sequence of the keys of its nodes, the first one first, *)
(* and list[i + 1] is bucket i.                                            *)
(***************************************************************************)
EXTENDS Integers, Sequences, SequencesExt

CONSTANT hash(_)        \* the hash value of a key, a natural number here

Fresh == [hashmask |-> -1, list |-> <<>>, item_count |-> 0]

Bucket(h, key) == (hash(key) % (h.hashmask + 1)) + 1
find_g(h, key) == h.list # <<>> /\ key \in Range(h.list[Bucket(h, key)])

\* Twice the buckets: what goes to the new ones is turned round on the way.
SpreadNot(list) == list \o [i \in 1..Len(list) |-> <<>>]  \* Variant: nothing moves
Spread(list) ==
  LET olim == Len(list)
  IN [i \in 1..(2 * olim) |->
        IF i <= olim THEN SelectSeq(list[i], LAMBDA key : hash(key) % (2 * olim) = i - 1)
        ELSE Reverse(SelectSeq(list[i - olim],
                               LAMBDA key : hash(key) % (2 * olim) = i - 1))]
Grown(h) ==
  IF h.list = <<>> THEN [h EXCEPT !.list = << <<>>, <<>>, <<>>, <<>> >>, !.hashmask = 3]
  ELSE IF h.item_count < h.hashmask - (h.hashmask \div 4) THEN h
  ELSE [h EXCEPT !.list = Spread(@), !.hashmask = 2 * @ + 1]

create_g(h, key) ==
  IF find_g(h, key) THEN h
  ELSE LET g == Grown(h)
       IN [g EXCEPT !.list[Bucket(g, key)] = <<key>> \o @, !.item_count = @ + 1]

remove_g(h, key) ==
  IF ~find_g(h, key) THEN h
  ELSE [h EXCEPT !.list[Bucket(h, key)] = SelectSeq(@, LAMBDA k : k # key),
                 !.item_count = @ - 1]

clean_g(h) == [h EXCEPT !.list = [i \in DOMAIN h.list |-> <<>>], !.item_count = 0]

\* The keys in the order of iterFirst_g() and iterNext_g().
Iterated(h) == FlattenSeq(h.list)
=============================================================================
