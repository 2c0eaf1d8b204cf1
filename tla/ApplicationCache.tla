-------------------------- MODULE ApplicationCache --------------------------
(***************************************************************************)
(* ApplicationCache: values that expire, in a hash of their keys and a     *)
(* tree of their times, each node of which has the list of the entries     *)
(* that expire then.  The other users of the two containers, programs with *)
(* a TAvl or a THash, use them in ways the cache does not; which user this *)
(* is is chosen at the start.                                              *)
(*                                                                         *)
(* All operations but the look-ups run under access_lock.                  *)
(***************************************************************************)
EXTENDS Integers, Sequences, FiniteSets, SequencesExt

CONSTANTS
  TreeKeys,     \* the keys of a program with a TAvl: a set of positive numbers
  TableKeys,    \* the keys of a program with a THash
  Keys, Values, \* what is cached
  Times,        \* when an entry expires: a set of positive numbers
  max_items,    \* 1024 in the code
  hash(_)

T == INSTANCE Avl
H == INSTANCE HashTable

VARIABLES
  user,         \* "tree", "table" or "cache"
  tree,         \* timed_tree, or the tree of a TAvl
  table,        \* value_hash, or the table of a THash
  value,        \* the values of the entries of value_hash
  timed,        \* the entries of the nodes of timed_tree, the first one first
  answer,       \* what expire() returned, 0 after other operations
  model,        \* what should be stored: keys to [value, expires]
  expected      \* what it should have returned

vars == <<user, tree, table, value, timed, answer, model, expected>>

None == "none"
INVAL_TIME == -1
NoEntries == [k \in {} |-> <<>>]

Init ==
  /\ user \in {"tree", "table", "cache"}
  /\ tree = T!Empty /\ table = H!Fresh
  /\ value = NoEntries /\ timed = NoEntries
  /\ answer = 0
  /\ model = NoEntries /\ expected = 0

Without(f, S) == [x \in DOMAIN f \ S |-> f[x]]
With(f, x, v) == [y \in DOMAIN f \cup {x} |-> IF y = x THEN v ELSE f[y]]

------------------------------------------------------------------------------
(* A program with a TAvl, and one with a THash. *)

Key(k) == [value |-> None, expires |-> k]

TreeCreate(k) ==
  /\ user = "tree"
  /\ tree' = T!create_g(tree, k)
  /\ model' = With(model, k, Key(k))
  /\ UNCHANGED <<user, table, value, timed, answer, expected>>

TreeRemove(k) ==
  /\ user = "tree"
  /\ tree' = T!remove_g(tree, k)
  /\ model' = Without(model, {k})
  /\ UNCHANGED <<user, table, value, timed, answer, expected>>

TableCreate(k) ==
  /\ user = "table"
  /\ table' = H!create_g(table, k)
  /\ model' = With(model, k, Key(k))
  /\ UNCHANGED <<user, tree, value, timed, answer, expected>>

TableRemove(k) ==
  /\ user = "table"
  /\ table' = H!remove_g(table, k)
  /\ model' = Without(model, {k})
  /\ UNCHANGED <<user, tree, value, timed, answer, expected>>

TableClean ==
  /\ user = "table"
  /\ table' = H!clean_g(table) /\ model' = NoEntries
  /\ UNCHANGED <<user, tree, value, timed, answer, expected>>

------------------------------------------------------------------------------
(* The cache. *)

\* ValueHash::createRetCreated(), and TimedTree::replace() of an entry that is
\* new.  For an existing one NULL comes back and replace() is not called: it gets
\* the value and keeps its time, whatever expires was given.
AddTo(expires, k, v) ==
  /\ table' = H!create_g(table, k)
  /\ value' = With(value, k, v)
  /\ IF H!find_g(table, k)
     THEN UNCHANGED <<tree, timed>>
     ELSE /\ tree' = T!create_g(tree, expires)
          /\ timed' = With(timed, expires,
                           <<k>> \o (IF T!find_g(tree, expires) = T!Null THEN <<>>
                                     ELSE timed[expires]))

\* The reference follows the code in this: a key that is there keeps its time.
\* addResource() is documented otherwise, see ExpiresAsTold.
Added(expires, k, v) ==
  model' = With(model, k, [value |-> v,
             expires |-> IF k \in DOMAIN model THEN model[k].expires ELSE expires])

AddResource(expires, k, v) ==
  /\ user = "cache"
  /\ AddTo(expires, k, v)
  /\ Added(expires, k, v)
  /\ answer' = 0 /\ expected' = 0
  /\ UNCHANGED user

\* The key is the value.  The entry has key_id -1 whatever key_id was given, so
\* findResource() finds it and findKeyResource() with a key_id does not.
AddKeyResource(expires, k) ==
  /\ user = "cache"
  /\ AddTo(expires, k, "key")
  /\ Added(expires, k, "key")
  /\ answer' = 0 /\ expected' = 0
  /\ UNCHANGED user

findResource(k) == IF H!find_g(table, k) THEN value[k] ELSE None

\* TimedTree::node_destroy(): the entries of a node leave the hash.
NodeDestroy(s, e) ==
  [s EXCEPT !.table = FoldLeft(LAMBDA h, k : H!remove_g(h, k), @, s.timed[e]),
            !.value = Without(@, ToSet(s.timed[e])),
            !.timed = Without(@, {e})]

GoOnExpired(s, lowest, time) == lowest <= time      \* Variant: the number is not kept
GoOn(s, lowest, time) == ~(lowest > time /\ s.table.item_count <= max_items)

RECURSIVE ExpireFrom(_, _)
ExpireFrom(s, time) ==
  LET lowest == s.tree.lowest
  IN IF lowest = T!Null THEN [s EXCEPT !.answer = INVAL_TIME]
     ELSE IF ~GoOn(s, lowest, time) THEN [s EXCEPT !.answer = lowest - time]
     ELSE ExpireFrom([NodeDestroy(s, lowest) EXCEPT !.tree = T!remove_g(@, lowest)], time)

State == [tree |-> tree, table |-> table, value |-> value, timed |-> timed, answer |-> 0]
Becomes(s) ==
  tree' = s.tree /\ table' = s.table /\ value' = s.value /\ timed' = s.timed

\* What expires: all up to the time, and the earliest others while there are
\* too many, all that expire at one time together.
Left(time) ==
  LET after(t) == {k \in DOMAIN model : model[k].expires > t}
      cuts == {t \in Times \cup {time} : t >= time /\ Cardinality(after(t)) <= max_items}
  IN after(CHOOSE t \in cuts : \A u \in cuts : t <= u)

Expire(time) ==
  /\ user = "cache"
  /\ LET s == ExpireFrom(State, time) IN Becomes(s) /\ answer' = s.answer
  /\ LET left == {model[k].expires : k \in Left(time)}
     IN expected' = IF left = {} THEN INVAL_TIME
                    ELSE (CHOOSE t \in left : \A u \in left : t <= u) - time
  /\ model' = Without(model, DOMAIN model \ Left(time))
  /\ UNCHANGED user

Clean ==
  /\ user = "cache"
  /\ LET s == FoldLeft(LAMBDA x, e : NodeDestroy(x, e), State,
                       T!DestroyOrder(tree, tree.root))
     IN Becomes([s EXCEPT !.tree = T!Empty])
  /\ model' = NoEntries
  /\ answer' = 0 /\ expected' = 0
  /\ UNCHANGED user

------------------------------------------------------------------------------
Next ==
  \/ \E k \in TreeKeys : TreeCreate(k) \/ TreeRemove(k)
  \/ \E k \in TableKeys : TableCreate(k) \/ TableRemove(k)
  \/ TableClean
  \/ \E e \in Times, k \in Keys : (\E v \in Values : AddResource(e, k, v)) \/ AddKeyResource(e, k)
  \/ \E t \in Times \cup {0} : Expire(t)
  \/ Clean

Spec == Init /\ [][Next]_vars

------------------------------------------------------------------------------
\* Whatever was created and removed, the tree is a search tree of the keys that
\* should be in it; links, directions and balances say what they should, the
\* lowest key is known, and going from node to node visits all in order.
TreeExact ==
  LET keys == IF user = "table" THEN {} ELSE {model[k].expires : k \in DOMAIN model}
      H_(n, d) == T!Height(tree, T!Child(tree, n, d))
  IN /\ DOMAIN tree.node = keys
     /\ tree.item_count = Cardinality(keys)
     /\ \A n \in keys :
          /\ T!find_g(tree, n) = n
          /\ tree.node[n].balance = H_(n, 1) - H_(n, -1)
          /\ tree.node[n].balance \in -1..1
          /\ IF n = tree.root THEN tree.node[n].parent = T!Null /\ tree.node[n].direction = 0
             ELSE T!Child(tree, tree.node[n].parent, tree.node[n].direction) = n
     /\ LET it == T!Iterated(tree)
        IN ToSet(it) = keys /\ \A i \in 2..Len(it) : it[i - 1] < it[i]
     /\ ToSet(T!DestroyOrder(tree, tree.root)) = keys

\* However often the table grew, each key that should be in it is found in its
\* bucket, once, and no other is.
TableExact ==
  LET keys == IF user = "tree" THEN {} ELSE DOMAIN model
  IN /\ ToSet(H!Iterated(table)) = keys
     /\ Len(H!Iterated(table)) = Cardinality(keys)
     /\ table.item_count = Cardinality(keys)
     /\ \A k \in keys : H!find_g(table, k)

\* The cache finds the last value of what has not expired and nothing else, each
\* entry is in the list of its time once, and expire() says when to come again.
\* The time of an entry is the one it was first added with since it was last
\* absent, not the one its last addition gave: ExpiresAsTold does not hold.
CacheExact ==
  /\ answer = expected
  /\ user = "cache" =>
       /\ \A k \in Keys :
            findResource(k) = IF k \in DOMAIN model THEN model[k].value ELSE None
       /\ DOMAIN timed = DOMAIN tree.node
       /\ \A e \in DOMAIN timed :
            /\ ToSet(timed[e]) = {k \in DOMAIN model : model[k].expires = e}
            /\ IsInjective(timed[e])
=============================================================================
