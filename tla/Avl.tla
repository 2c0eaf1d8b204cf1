-------------------------------- MODULE Avl --------------------------------
(***************************************************************************)
(* Avl_c: the balanced tree under TAvl and under the expiry times of       *)
(* ApplicationCache.  A node is named by its key, a positive number, and   *)
(* Null is no node.  A tree holds what the object and its nodes hold:      *)
(* children by direction (-1 and 1), parent, direction and balance.        *)
(***************************************************************************)
EXTENDS Integers, Sequences, TLC

Null == 0
Empty == [root |-> Null, lowest |-> Null, item_count |-> 0, node |-> <<>>]

node_cmp(n, key) == IF n = key THEN 0 ELSE IF n < key THEN -1 ELSE 1

Child(t, n, d) == t.node[n].child[d]
Set(t, n, field, v) == [t EXCEPT !.node[n][field] = v]
SetChild(t, n, d, c) == [t EXCEPT !.node[n].child[d] = c]

\* n gets c as its child, and c, if there is one, n as its parent.
Link(t, n, d, c) ==
  IF c = Null THEN SetChild(t, n, d, c)
  ELSE Set(Set(SetChild(t, n, d, c), c, "parent", n), c, "direction", d)

\* n takes the place of old, under the parent of old or as the root.
TakePlace(t, n, old) ==
  LET p == t.node[old].parent
      d == t.node[old].direction
      placed == Set(Set(t, n, "parent", p), n, "direction", d)
  IN IF p = Null THEN [placed EXCEPT !.root = n] ELSE SetChild(placed, p, d, n)

RECURSIVE FindFrom(_, _, _)
FindFrom(t, cur, key) ==
  IF cur = Null \/ node_cmp(cur, key) = 0 THEN cur
  ELSE FindFrom(t, Child(t, cur, -node_cmp(cur, key)), key)
find_g(t, key) == FindFrom(t, t.root, key)

\* One rotation: a, the child of n in direction d, comes above n.
Rotate(t, n, a, d) ==
  LET under == Link(t, n, d, Child(t, a, -d))
  IN Link(TakePlace(under, a, n), a, -d, n)

\* Two: the inner child of a comes above both.
NodeBalance(c, d) == IF c = d THEN -d ELSE 0
OtherBalanceSame(c, d) == IF c = d THEN d ELSE 0     \* Variant: the sides mixed up
OtherBalance(c, d) == IF c = -d THEN d ELSE 0
DoubleRotate(t, n, a, d) ==
  LET c == Child(t, a, -d)
      cb == t.node[c].balance
      under == Link(Link(t, n, d, Child(t, c, -d)), a, -d, Child(t, c, d))
      above == Link(Link(TakePlace(under, c, n), c, -d, n), c, d, a)
  IN Set(Set(Set(above, n, "balance", NodeBalance(cb, d)),
             a, "balance", OtherBalance(cb, d)), c, "balance", 0)

RECURSIVE rebalanceAdded_g(_, _)
rebalanceAdded_g(t, added) ==
  LET p == t.node[added].parent
      d == t.node[added].direction
      pb == t.node[p].balance
  IN CASE pb = 0 -> LET up == Set(t, p, "balance", d)
                    IN IF t.node[p].parent = Null THEN up ELSE rebalanceAdded_g(up, p)
       [] pb # 0 /\ pb # d -> Set(t, p, "balance", 0)
       [] pb = d /\ pb # t.node[added].balance -> DoubleRotate(t, p, added, d)
       [] OTHER -> Set(Set(Rotate(t, p, added, d), p, "balance", 0), added, "balance", 0)

\* Where a new key goes: below the last node of the search, in its last step.
RECURSIVE PlaceFrom(_, _, _)
PlaceFrom(t, cur, key) ==
  LET d == -node_cmp(cur, key)
  IN IF Child(t, cur, d) = Null THEN [parent |-> cur, d |-> d]
     ELSE PlaceFrom(t, Child(t, cur, d), key)

\* What create_g(), ncreate_g() and replace_g() make of the tree; for a key that
\* is there replace_g() also gives its node the value, which is not kept here.
\* The node that ncreate_g() returns is left out: it is read from the reference
\* that the new node was put into, where another node or none may be once the
\* tree was rebalanced.
create_g(t, key) ==
  IF find_g(t, key) # Null THEN t
  ELSE LET at == IF t.root = Null THEN [parent |-> Null, d |-> 0]
                 ELSE PlaceFrom(t, t.root, key)
           new == [child |-> (-1 :> Null) @@ (1 :> Null), parent |-> at.parent,
                   balance |-> 0, direction |-> at.d]
           added == [t EXCEPT !.node = @ @@ (key :> new), !.item_count = @ + 1]
       IN IF at.parent = Null
          THEN [added EXCEPT !.root = key, !.lowest = key]
          ELSE rebalanceAdded_g(
                 [SetChild(added, at.parent, at.d, key) EXCEPT
                    !.lowest = IF at.parent = @ /\ at.d < 0 THEN key ELSE @], key)

\* The subtree of n in direction d has become lower.
RECURSIVE rebalanceRemoved_g(_, _, _)
rebalanceRemoved_g(t, n, d) ==
  LET nb == t.node[n].balance
      Up(up, m) == IF up.node[m].parent = Null THEN up
                   ELSE rebalanceRemoved_g(up, up.node[m].parent, up.node[m].direction)
      o == Child(t, n, -d)
      ob == t.node[o].balance
  IN CASE nb = 0 -> Set(t, n, "balance", -d)
       [] nb = d -> Up(Set(t, n, "balance", 0), n)
       [] nb = -d /\ ob = d -> Up(DoubleRotate(t, n, o, -d), Child(t, o, d))
       [] OTHER ->
            LET turned == Set(Set(Rotate(t, n, o, -d),
                                  n, "balance", IF ob = -d THEN 0 ELSE -d),
                              o, "balance", ob + d)
            IN IF ob = -d THEN Up(turned, o) ELSE turned

RECURSIVE Furthest(_, _, _)
Furthest(t, n, d) == IF Child(t, n, d) = Null THEN n ELSE Furthest(t, Child(t, n, d), d)

\* node_destroy(): the node is freed.
Freed(t, n) == [t EXCEPT !.node = [m \in DOMAIN t.node \ {n} |-> t.node[m]]]

\* The node with two children, or with one, is replaced by its neighbour from
\* the higher side.
Replaced(t, n) ==
  LET dir == IF t.node[n].balance = 0 THEN 1 ELSE t.node[n].balance
      repl == Furthest(t, Child(t, n, dir), -dir)
      parent == t.node[repl].parent
      bared == IF parent = n THEN t ELSE Link(t, parent, -dir, Child(t, repl, dir))
      other == Link(bared, repl, -dir, Child(bared, n, -dir))
      both == IF parent = n THEN other ELSE Link(other, repl, dir, Child(other, n, dir))
      placed == TakePlace(Set(both, repl, "balance", t.node[n].balance), repl, n)
  IN IF parent = n THEN rebalanceRemoved_g(placed, repl, dir)
     ELSE rebalanceRemoved_g(placed, parent, -dir)

LowestAfter(t, n) ==
  IF t.lowest # n THEN t.lowest
  ELSE IF Child(t, n, 1) # Null THEN Child(t, n, 1) ELSE t.node[n].parent

remove_g(t, key) ==
  IF find_g(t, key) = Null THEN t
  ELSE LET n == t.node[key]
           less == [t EXCEPT !.item_count = @ - 1, !.lowest = LowestAfter(t, key)]
       IN Freed(CASE less.lowest = Null -> [less EXCEPT !.root = Null]
                  [] less.lowest # Null /\ n.balance = 0 /\ n.child[-1] = Null ->
                       rebalanceRemoved_g(SetChild(less, n.parent, n.direction, Null),
                                          n.parent, n.direction)
                  [] OTHER -> Replaced(less, key), key)

\* The nodes of a tree in the order of destroyRecursive_g().
RECURSIVE DestroyOrder(_, _)
DestroyOrder(t, n) ==
  IF n = Null THEN <<>>
  ELSE DestroyOrder(t, Child(t, n, -1)) \o DestroyOrder(t, Child(t, n, 1)) \o <<n>>

\* The next node in the order of the keys.
RECURSIVE FirstLeftAbove(_, _)
FirstLeftAbove(t, n) ==
  IF n = Null THEN Null
  ELSE IF t.node[n].direction < 0 THEN t.node[n].parent ELSE FirstLeftAbove(t, t.node[n].parent)
iterNext_g(t, n) ==
  IF Child(t, n, 1) # Null THEN Furthest(t, Child(t, n, 1), -1)
  ELSE FirstLeftAbove(t, n)

RECURSIVE IterFrom(_, _)
IterFrom(t, n) == IF n = Null THEN <<>> ELSE <<n>> \o IterFrom(t, iterNext_g(t, n))
Iterated(t) == IterFrom(t, t.lowest)

RECURSIVE Height(_, _)
Height(t, n) ==
  IF n = Null THEN 0
  ELSE LET l == Height(t, Child(t, n, -1))
           r == Height(t, Child(t, n, 1)) IN 1 + (IF l > r THEN l ELSE r)
=============================================================================
