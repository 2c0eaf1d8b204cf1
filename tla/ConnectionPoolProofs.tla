------------------------ MODULE ConnectionPoolProofs ------------------------
(***************************************************************************)
(* Proofs about ConnectionPool, for any number of clients, connections,    *)
(* initial connections, limits, calls and faults.                          *)
(***************************************************************************)
EXTENDS ConnectionPool, SeqLemmas, FiniteSetTheorems, TLAPS

-----------------------------------------------------------------------------
(* The inductive invariant.                                                 *)

Holding == {"ping", "held", "drop", "closing"}

\* No connection is in the list twice, which the first part of ExclusiveUse
\* says by counting.
ListInjective ==
  \A i, j \in 1..Len(connection_list) : connection_list[i] = connection_list[j] => i = j

\* A client has a connection exactly while it pings, uses, drops or closes it,
\* and it has it alone.
HeldAlone ==
  /\ \A c \in Client : hold[c] # None <=> pc[c] \in Holding
  /\ \A c \in Client : hold[c] # None =>
       /\ hold[c] \notin Range(connection_list)
       /\ \A d \in Client \ {c} : hold[d] # hold[c]

\* What is in the list or in use is open at the server.
AllOpen ==
  /\ Range(connection_list) \subseteq open
  /\ \A c \in Client : hold[c] # None => hold[c] \in open

IInv == TypeOK /\ ListInjective /\ HeldAlone /\ AllOpen /\ CountExact /\ NoStrandedWaiter

-----------------------------------------------------------------------------
(* Numbers and lists.                                                       *)

\* The first k places of a list without duplicates hold k elements.
LEMMA PrefixCard ==
  ASSUME NEW S, NEW s \in Seq(S), NEW k \in 0..Len(s), NEW T,
         \A i, j \in 1..Len(s) : s[i] = s[j] => i = j,
         \A t : t \in T <=> \E i \in 1..k : t = s[i]
  PROVE  IsFiniteSet(T) /\ Cardinality(T) = k
<1> DEFINE f == [i \in 1..k |-> s[i]]
<1>1. k \in Nat /\ 1..k \subseteq 1..Len(s)
  OBVIOUS
<1>2. f \in [1..k -> T] /\ (\A i, j \in 1..k : f[i] = f[j] => i = j)
  BY <1>1
<1>3. \A t \in T : \E i \in 1..k : f[i] = t
  OBVIOUS
<1> HIDE DEF f
<1>4. f \in Bijection(1..k, T)
  BY <1>2, <1>3 DEF Bijection, Injection, Surjection, IsInjective
<1>5. ExistsBijection(1..k, T)
  BY <1>4 DEF ExistsBijection
<1>6. Cardinality(T) = k
  BY <1>1, <1>5, FS_CountingElements
<1>7. IsFiniteSet(T)
  BY <1>1, <1>5, FS_NatBijection
<1> QED
  BY <1>6, <1>7

\* The range of a list, by its places.
LEMMA RangePlaces ==
  ASSUME NEW S, NEW s \in Seq(S)
  PROVE  Range(s) = {s[i] : i \in 1..Len(s)} /\ Range(s) \subseteq S
<1>1. DOMAIN s = 1..Len(s) /\ \A i \in 1..Len(s) : s[i] \in S
  OBVIOUS
<1> QED
  BY <1>1 DEF Range

\* What is left of a list after its first places.
LEMMA Suffix ==
  ASSUME NEW S, NEW s \in Seq(S), NEW k \in 1..Len(s)
  PROVE  LET t == SubSeq(s, k + 1, Len(s))
         IN  /\ t \in Seq(S) /\ Len(t) = Len(s) - k
             /\ \A i \in 1..(Len(s) - k) : t[i] = s[i + k]
<1> DEFINE n == Len(s)  t == SubSeq(s, k + 1, Len(s))
<1>1. n \in Nat /\ k \in Nat /\ k <= n /\ n - k \in Nat
  OBVIOUS
<1>2. \A i \in 1..(n - k) : i + k \in 1..n /\ (k + 1) + i - 1 = i + k
  BY <1>1
<1>3. t \in Seq(S) /\ Len(t) = n - k /\ \A i \in 1..(n - k) : t[i] = s[i + k]
  BY <1>1, <1>2
<1> QED
  BY <1>3

-----------------------------------------------------------------------------
(* The expired connections at the front of the list.                        *)

\* All of them are in the list, and if one has not expired the first such comes
\* right behind them.
LEMMA ExpiredFacts ==
  ASSUME TypeOK
  PROVE  /\ Expired \in 0..Len(connection_list)
         /\ Fresh = {} => Expired = Len(connection_list)
         /\ Fresh # {} => Expired + 1 \in 1..Len(connection_list)
<1> DEFINE n == Len(connection_list)
<1>1. n \in Nat /\ DOMAIN connection_list = 1..n
  BY DEF TypeOK
<1>2. CASE Fresh = {}
  BY <1>1, <1>2 DEF Expired
<1>3. CASE Fresh # {}
  <2>1. Fresh \subseteq 1..n /\ Fresh \in SUBSET Nat
    BY <1>1 DEF Fresh
  <2>2. \E i \in Fresh : \A j \in Fresh : i <= j
    BY <1>3, <2>1, Smallest
  <2> DEFINE m == CHOOSE i \in Fresh : \A j \in Fresh : i <= j
  <2>3. m \in Fresh
    BY <2>2
  <2> HIDE DEF m
  <2>4. Expired = m - 1
    BY <1>3 DEF Expired, m
  <2>5. m \in 1..n
    BY <2>1, <2>3
  <2> HIDE DEF n
  <2>6. m - 1 \in 0..n /\ (m - 1) + 1 = m
    BY <1>1, <2>5
  <2> QED
    BY <1>3, <2>4, <2>5, <2>6 DEF n
<1> QED
  BY <1>2, <1>3

\* As many connections are closed as places are given back.
LEMMA ClosedFacts ==
  ASSUME IInv
  PROVE  /\ Closed \subseteq Range(connection_list) /\ Closed \subseteq open
         /\ IsFiniteSet(open) /\ Cardinality(open) \in Nat
         /\ IsFiniteSet(open \ Closed)
         /\ Cardinality(open \ Closed) = Cardinality(open) - Expired
<1>1. connection_list \in Seq(Conn) /\ Expired \in 0..Len(connection_list)
  BY ExpiredFacts DEF IInv, TypeOK
<1>2. IsFiniteSet(Closed) /\ Cardinality(Closed) = Expired
  <2>1. \A i, j \in 1..Len(connection_list) : connection_list[i] = connection_list[j] => i = j
    BY DEF IInv, ListInjective
  <2>2. \A t : t \in Closed <=> \E i \in 1..Expired : t = connection_list[i]
    BY DEF Closed
  <2> QED
    BY <1>1, <2>1, <2>2, PrefixCard
<1>3. Closed \subseteq Range(connection_list)
  <2>1. 1..Expired \subseteq 1..Len(connection_list)
    BY <1>1
  <2>2. Range(connection_list) = {connection_list[i] : i \in 1..Len(connection_list)}
    BY <1>1, RangePlaces
  <2> QED
    BY <2>1, <2>2 DEF Closed
<1>4. Closed \subseteq open /\ open \subseteq Conn
  BY <1>3 DEF IInv, AllOpen, TypeOK
<1>5. IsFiniteSet(open)
  BY <1>4, ConnectionPoolAssumption, FS_Subset
<1>6. Cardinality(open) \in Nat
  BY <1>5, FS_CardinalityType
<1>7. open \cap Closed = Closed
  BY <1>4
<1>8. IsFiniteSet(open \ Closed)
      /\ Cardinality(open \ Closed) = Cardinality(open) - Cardinality(open \cap Closed)
  BY <1>5, FS_Difference
<1> QED
  BY <1>2, <1>3, <1>4, <1>5, <1>6, <1>7, <1>8

-----------------------------------------------------------------------------
(* Clients at a place.                                                      *)

\* The sets of clients are finite.
LEMMA Places ==
  ASSUME NEW T \in SUBSET Client
  PROVE  IsFiniteSet(T) /\ Cardinality(T) \in Nat
BY ConnectionPoolAssumption, FS_Subset, FS_CardinalityType

\* One client more, or one less.
LEMMA OneClient ==
  ASSUME NEW T \in SUBSET Client, NEW c \in Client
  PROVE  /\ c \notin T => Cardinality(T \cup {c}) = Cardinality(T) + 1
         /\ c \in T => Cardinality(T \ {c}) = Cardinality(T) - 1
         /\ c \in T => Cardinality(T) >= 1
<1>1. IsFiniteSet(T) /\ Cardinality(T) \in Nat
  BY Places
<1>2. IsFiniteSet(T \ {c}) /\ Cardinality(T \ {c}) \in Nat
  BY Places
<1>3. c \in T => Cardinality(T \ {c}) = Cardinality(T) - 1
  BY <1>1, FS_RemoveElement
<1> QED
  BY <1>1, <1>2, <1>3, FS_AddElement

\* What n signals do when client c, who is not asleep, moves on to place v: when
\* some client still sleeps afterwards, n of them were woken.
LEMMA SignalsFacts ==
  ASSUME TypeOK, NEW n \in Nat, NEW c \in Client, NEW v \in ClientPC \ {"get"},
         pc[c] # "asleep", Signals(n, [pc EXCEPT ![c] = v])
  PROVE  /\ pc' \in [Client -> ClientPC] /\ pc'[c] = v
         /\ \A d \in Client \ {c} : pc'[d] = pc[d] \/ (pc[d] = "asleep" /\ pc'[d] = "get")
         /\ v # "asleep" /\ At("asleep")' # {} =>
              /\ At("asleep") # {}
              /\ Cardinality(At("get")') = Cardinality(At("get") \ {c}) + n
<1> DEFINE f == [pc EXCEPT ![c] = v]
<1>1. PICK s \in SUBSET At("asleep") :
        /\ Cardinality(s) = Smaller(n, Cardinality(At("asleep")))
        /\ pc' = [d \in Client |-> IF d \in s THEN "get" ELSE f[d]]
  BY DEF Signals
<1>2. c \notin s /\ s \subseteq Client /\ \A d \in s : pc[d] = "asleep"
  BY <1>1 DEF At
<1>3. f \in [Client -> ClientPC] /\ f[c] = v /\ \A d \in Client \ {c} : f[d] = pc[d]
  BY DEF TypeOK
<1> HIDE DEF f
<1>4. "get" \in ClientPC
  BY DEF ClientPC
<1>5. /\ pc' \in [Client -> ClientPC] /\ pc'[c] = v
      /\ \A d \in Client \ {c} : pc'[d] = pc[d] \/ (pc[d] = "asleep" /\ pc'[d] = "get")
  BY <1>1, <1>2, <1>3, <1>4
<1>6. ASSUME v # "asleep", At("asleep")' # {}
      PROVE  At("asleep") # {} /\ Cardinality(At("get")') = Cardinality(At("get") \ {c}) + n
  <2>1. At("asleep")' = At("asleep") \ s
    BY <1>1, <1>2, <1>3, <1>6 DEF At
  <2>2. At("get")' = (At("get") \ {c}) \cup s /\ (At("get") \ {c}) \cap s = {}
    BY <1>1, <1>2, <1>3 DEF At
  <2>3. /\ At("asleep") # {} /\ s # At("asleep")
        /\ IsFiniteSet(At("asleep")) /\ Cardinality(At("asleep")) \in Nat
        /\ IsFiniteSet(s) /\ Cardinality(s) \in Nat
        /\ IsFiniteSet(At("get") \ {c}) /\ Cardinality(At("get") \ {c}) \in Nat
    BY <1>2, <1>6, <2>1, Places DEF At
  <2>4. Cardinality(s) # Cardinality(At("asleep"))
    BY <1>1, <2>3, FS_Subset
  <2>5. Cardinality(s) = n
    BY <1>1, <2>3, <2>4 DEF Smaller
  <2>6. Cardinality((At("get") \ {c}) \cup s) = Cardinality(At("get") \ {c}) + Cardinality(s)
    <3>1. Cardinality((At("get") \ {c}) \cup s) = Cardinality(At("get") \ {c}) + Cardinality(s)
                                                - Cardinality((At("get") \ {c}) \cap s)
      BY <2>3, FS_Union
    <3>2. Cardinality((At("get") \ {c}) \cap s) = 0
      BY <2>2, FS_EmptySet
    <3> QED
      BY <2>3, <3>1, <3>2
  <2> QED
    BY <2>2, <2>3, <2>5, <2>6
<1> QED
  BY <1>5, <1>6

Busy == {"ping", "held", "drop"}

\* c moves on to v and nobody else moves, but that sleepers may wake.
Moves(c, v) ==
  /\ pc' \in [Client -> ClientPC] /\ pc'[c] = v
  /\ \A d \in Client \ {c} : pc'[d] = pc[d] \/ (pc[d] = "asleep" /\ pc'[d] = "get")

\* The counts of the clients that use or close a connection, when c moves on.
LEMMA MovesCount ==
  ASSUME TypeOK, NEW c \in Client, NEW v \in ClientPC, Moves(c, v)
  PROVE  /\ (pc[c] \in Busy <=> v \in Busy) => Cardinality(Using') = Cardinality(Using)
         /\ pc[c] \notin Busy /\ v \in Busy => Cardinality(Using') = Cardinality(Using) + 1
         /\ pc[c] \in Busy /\ v \notin Busy => Cardinality(Using') = Cardinality(Using) - 1
         /\ pc[c] # "closing" /\ v # "closing" =>
              Cardinality(At("closing")') = Cardinality(At("closing"))
         /\ pc[c] # "closing" /\ v = "closing" =>
              Cardinality(At("closing")') = Cardinality(At("closing")) + 1
         /\ pc[c] = "closing" /\ v # "closing" =>
              Cardinality(At("closing")') = Cardinality(At("closing")) - 1
<1>1. /\ Using = {d \in Client : pc[d] \in Busy} /\ Using' = {d \in Client : pc'[d] \in Busy}
      /\ At("closing") = {d \in Client : pc[d] = "closing"}
      /\ At("closing")' = {d \in Client : pc'[d] = "closing"}
  BY DEF Using, At, Busy
<1>2. \A d \in Client \ {c} : (pc'[d] \in Busy <=> pc[d] \in Busy)
                              /\ (pc'[d] = "closing" <=> pc[d] = "closing")
  BY DEF Moves, Busy
<1>3. pc'[c] = v
  BY DEF Moves
<1>4. /\ (pc[c] \in Busy <=> v \in Busy) => Using' = Using
      /\ pc[c] \notin Busy /\ v \in Busy => Using' = Using \cup {c} /\ c \notin Using
      /\ pc[c] \in Busy /\ v \notin Busy => Using' = Using \ {c} /\ c \in Using
  BY <1>1, <1>2, <1>3
<1>5. /\ pc[c] # "closing" /\ v # "closing" => At("closing")' = At("closing")
      /\ pc[c] # "closing" /\ v = "closing" =>
           At("closing")' = At("closing") \cup {c} /\ c \notin At("closing")
      /\ pc[c] = "closing" /\ v # "closing" =>
           At("closing")' = At("closing") \ {c} /\ c \in At("closing")
  BY <1>1, <1>2, <1>3
<1>6. Using \in SUBSET Client /\ At("closing") \in SUBSET Client
  BY <1>1
<1> QED
  BY <1>4, <1>5, <1>6, OneClient

\* The clients that sleep or are in getConnection(), when one moves on alone.
LEMMA MovesGet ==
  ASSUME TypeOK, NEW c \in Client, NEW v \in ClientPC, pc' = [pc EXCEPT ![c] = v]
  PROVE  /\ Moves(c, v)
         /\ v # "asleep" => At("asleep")' \subseteq At("asleep")
         /\ pc[c] # "get" \/ v = "get" =>
              Cardinality(At("get")') >= Cardinality(At("get"))
<1>1. /\ pc' \in [Client -> ClientPC] /\ pc'[c] = v
      /\ \A d \in Client \ {c} : pc'[d] = pc[d]
  BY DEF TypeOK
<1>2. v # "asleep" => At("asleep")' \subseteq At("asleep")
  BY <1>1 DEF At
<1>3. ASSUME pc[c] # "get" \/ v = "get"
      PROVE  Cardinality(At("get")') >= Cardinality(At("get"))
  <2>1. At("get") \subseteq At("get")' /\ At("get")' \in SUBSET Client
    BY <1>1, <1>3 DEF At
  <2>2. IsFiniteSet(At("get")')
    BY <2>1, Places
  <2>3. Cardinality(At("get")) <= Cardinality(At("get")')
    BY <2>1, <2>2, FS_Subset
  <2>4. Cardinality(At("get")) \in Nat /\ Cardinality(At("get")') \in Nat
    BY <2>1, Places DEF At
  <2> QED
    BY <2>3, <2>4
<1> QED
  BY <1>1, <1>2, <1>3 DEF Moves

\* The numbers of the pool.
LEMMA Numbers ==
  ASSUME TypeOK
  PROVE  /\ Len(connection_list) \in Nat /\ num_connections \in Nat
         /\ max_connections \in Nat /\ Available \in Nat
         /\ Cardinality(Using) \in Nat /\ Cardinality(At("closing")) \in Nat
         /\ Cardinality(At("get")) \in Nat /\ Cardinality(Conn) \in Nat
<1>1. /\ Len(connection_list) \in Nat /\ max_connections \in Nat
      /\ Cardinality(Conn) \in Nat
  BY ConnectionPoolAssumption, FS_CardinalityType DEF TypeOK
<1>2. num_connections \in Nat
  BY <1>1 DEF TypeOK
<1>3. /\ Cardinality(Using) \in Nat /\ Cardinality(At("closing")) \in Nat
      /\ Cardinality(At("get")) \in Nat
  BY Places DEF Using, At
<1>4. Available \in Nat
  BY <1>1, <1>2 DEF Available
<1> QED
  BY <1>1, <1>2, <1>3, <1>4

\* num_connections keeps its type as long as it counts exactly.
LEMMA CountType ==
  ASSUME TypeOK, open' \subseteq Conn, connection_list' \in Seq(Conn), CountExact'
  PROVE  num_connections' \in 0..Cardinality(Conn)
<1>1. IsFiniteSet(Conn)
  BY ConnectionPoolAssumption
<1>2. Cardinality(open') <= Cardinality(Conn) /\ Cardinality(open') \in Nat
      /\ Cardinality(Conn) \in Nat
  BY <1>1, FS_Subset, FS_CardinalityType
<1>3. Len(connection_list') \in Nat /\ Cardinality(Using') \in Nat /\ Cardinality(At("closing")') \in Nat
  <2>1. Using' \in SUBSET Client /\ At("closing")' \in SUBSET Client
    BY DEF Using, At
  <2> QED
    BY <2>1, Places
<1>4. /\ num_connections' = Len(connection_list') + Cardinality(Using')
      /\ Cardinality(open') = num_connections' + Cardinality(At("closing")')
  BY DEF CountExact
<1> QED
  BY <1>2, <1>3, <1>4

-----------------------------------------------------------------------------
(* Taking a connection from the list.                                       *)

\* The list after a connection was taken from it.
LEMMA TakenList ==
  ASSUME IInv, Fresh # {}
  PROVE  LET n == connection_list[Expired + 1]
         IN  /\ ListTaken \in Seq(Conn)
             /\ Len(ListTaken) = Len(connection_list) - Expired - 1
             /\ \A i, j \in 1..Len(ListTaken) : ListTaken[i] = ListTaken[j] => i = j
             /\ Range(ListTaken) \subseteq Range(connection_list) \ Closed
             /\ n \in Range(connection_list) \ Closed /\ n \notin Range(ListTaken)
<1> DEFINE L == connection_list  e == Expired  k == e + 1  t == ListTaken  m == Len(L)
<1>1. /\ L \in Seq(Conn) /\ m \in Nat /\ e \in Nat /\ k \in 1..m
      /\ \A i, j \in 1..m : L[i] = L[j] => i = j
  BY ExpiredFacts DEF IInv, TypeOK, ListInjective
<1>2. t = SubSeq(L, k + 1, m)
  BY <1>1 DEF ListTaken
<1>3. Closed = {L[i] : i \in 1..e}
  BY DEF Closed
<1>4. Range(L) = {L[i] : i \in 1..m}
  BY <1>1, RangePlaces
<1> HIDE DEF L, e, t
<1>5. t \in Seq(Conn) /\ Len(t) = m - k /\ \A i \in 1..(m - k) : t[i] = L[i + k]
  BY <1>1, <1>2, Suffix
<1> HIDE DEF m, k
<1>6. k = e + 1 /\ m - k \in Nat
  BY <1>1 DEF k
<1>7. \A i \in 1..(m - k) : i + k \in 1..m /\ i + k > k
  BY <1>1, <1>6
<1>8. ASSUME NEW i \in 1..Len(t), NEW j \in 1..Len(t), t[i] = t[j] PROVE i = j
  <2>1. i + k = j + k
    BY <1>1, <1>5, <1>7, <1>8
  <2> QED
    BY <1>1, <1>5, <1>6, <2>1
<1>9. Range(t) = {t[i] : i \in 1..(m - k)}
  BY <1>5, RangePlaces
<1>10. ASSUME NEW j \in 1..m, j >= k PROVE L[j] \in Range(L) \ Closed
  <2>1. \A i \in 1..e : i \in 1..m /\ i # j
    BY <1>1, <1>6, <1>10
  <2> QED
    BY <1>1, <1>3, <1>4, <2>1
<1>11. Range(t) \subseteq Range(L) \ Closed
  <2> SUFFICES ASSUME NEW i \in 1..(m - k) PROVE t[i] \in Range(L) \ Closed
    BY <1>9
  <2>1. i + k \in 1..m /\ i + k >= k /\ t[i] = L[i + k]
    BY <1>1, <1>5, <1>7
  <2> QED
    BY <1>10, <2>1
<1>12. L[k] \in Range(L) \ Closed
  BY <1>1, <1>10
<1>13. L[k] \notin Range(t)
  <2> SUFFICES ASSUME NEW i \in 1..(m - k) PROVE t[i] # L[k]
    BY <1>9
  <2>1. i + k \in 1..m /\ i + k # k /\ t[i] = L[i + k]
    BY <1>1, <1>5, <1>7
  <2> QED
    BY <1>1, <2>1
<1>14. m - k = m - e - 1
  BY <1>1, <1>6
<1> QED
  BY <1>5, <1>6, <1>8, <1>11, <1>12, <1>13, <1>14 DEF L, e, t, m

\* A client that waits for a connection has none.
LEMMA NoneHeld ==
  ASSUME IInv, NEW c \in Client, pc[c] \notin Holding PROVE hold[c] = None
BY DEF IInv, HeldAlone

\* Taking a connection keeps the invariant.
LEMMA TakeStep ==
  ASSUME IInv, NEW c \in Client, TakeConnection(c) PROVE IInv'
<1> DEFINE n == connection_list[Expired + 1]  v == WithConnection(c)
<1>1. /\ pc[c] = "get" /\ Fresh # {} /\ hold' = [hold EXCEPT ![c] = n]
      /\ connection_list' = ListTaken /\ num_connections' = num_connections - Expired
      /\ open' = open \ Closed /\ old' = old \ Closed
      /\ Signals(Expired, [pc EXCEPT ![c] = v])
      /\ UNCHANGED <<max_connections, ping, gets, faults, excused>>
  BY DEF TakeConnection, NumLeft, history
<1>2. TypeOK /\ Expired \in Nat /\ Expired <= Len(connection_list)
  BY ExpiredFacts DEF IInv, TypeOK
<1>3. /\ ListTaken \in Seq(Conn) /\ Len(ListTaken) = Len(connection_list) - Expired - 1
      /\ \A i, j \in 1..Len(ListTaken) : ListTaken[i] = ListTaken[j] => i = j
      /\ Range(ListTaken) \subseteq Range(connection_list) \ Closed
      /\ n \in Range(connection_list) \ Closed /\ n \notin Range(ListTaken)
  BY <1>1, TakenList
<1>4. v \in {"ping", "held"} /\ v \in ClientPC \ {"get"} /\ v # "asleep" /\ v \in Busy
      /\ v \in Holding /\ v # "closing"
  BY DEF WithConnection, ClientPC, Busy, Holding
<1>5. Moves(c, v) /\ (At("asleep")' # {} =>
        At("asleep") # {} /\ Cardinality(At("get")') = Cardinality(At("get") \ {c}) + Expired)
  BY <1>1, <1>2, <1>4, SignalsFacts DEF Moves
<1> HIDE DEF n, v
<1>6. hold[c] = None /\ n \in Conn /\ n # None /\ n \in open
  <2>1. n \in Conn /\ n \in open
    BY <1>2, <1>3, RangePlaces DEF TypeOK, IInv, AllOpen
  <2> QED
    BY <1>1, <2>1, NoneHeld, ConnectionPoolAssumption DEF Holding
<1>7. hold' \in [Client -> Conn \cup {None}] /\ hold'[c] = n
      /\ \A d \in Client \ {c} : hold'[d] = hold[d]
  BY <1>1, <1>2, <1>6 DEF TypeOK
<1>8. ListInjective'
  BY <1>1, <1>3 DEF ListInjective
<1>9. HeldAlone'
  <2>1. \A d \in Client : hold'[d] # None <=> pc'[d] \in Holding
    BY <1>4, <1>5, <1>6, <1>7 DEF IInv, HeldAlone, Moves, Holding
  <2>2. \A d \in Client \ {c} : hold[d] # None => hold[d] \notin Range(connection_list)
    BY DEF IInv, HeldAlone
  <2>3. \A d \in Client : hold'[d] # None => hold'[d] \notin Range(connection_list')
    BY <1>1, <1>3, <1>7, <2>2
  <2>4. \A d, b \in Client : d # b /\ hold'[d] # None => hold'[d] # hold'[b]
    BY <1>3, <1>6, <1>7, <2>2 DEF IInv, HeldAlone
  <2> QED
    BY <2>1, <2>3, <2>4 DEF HeldAlone
<1>10. AllOpen'
  <2>1. Closed \subseteq Range(connection_list)
    BY ClosedFacts
  <2>2. \A d \in Client : hold'[d] # None => hold'[d] \in open \ Closed
    BY <1>3, <1>6, <1>7, <2>1 DEF IInv, HeldAlone, AllOpen
  <2> QED
    BY <1>1, <1>3, <2>2 DEF AllOpen, IInv
<1>11. /\ Cardinality(Using') = Cardinality(Using) + 1
       /\ Cardinality(At("closing")') = Cardinality(At("closing"))
  <2>1. pc[c] \notin Busy /\ pc[c] # "closing" /\ v \in ClientPC
    BY <1>1, <1>4 DEF Busy
  <2> QED
    BY <1>2, <1>4, <1>5, <2>1, MovesCount
<1>12. CountExact'
  <2>1. /\ Len(connection_list') = Len(connection_list) - Expired - 1
        /\ Cardinality(open') = Cardinality(open) - Expired
        /\ num_connections' = num_connections - Expired
    BY <1>1, <1>3, ClosedFacts
  <2>2. /\ num_connections = Len(connection_list) + Cardinality(Using)
        /\ Cardinality(open) = num_connections + Cardinality(At("closing"))
    BY DEF IInv, CountExact
  <2>3. /\ Len(connection_list) \in Nat /\ num_connections \in Nat
        /\ Cardinality(Using) \in Nat /\ Cardinality(At("closing")) \in Nat
    BY <1>2, Numbers
  <2>4. num_connections' = Len(connection_list') + Cardinality(Using')
    BY <1>2, <1>11, <2>1, <2>2, <2>3
  <2>5. Cardinality(open') = num_connections' + Cardinality(At("closing")')
    BY <1>2, <1>11, <2>1, <2>2, <2>3
  <2> QED
    BY <2>4, <2>5 DEF CountExact
<1>13. TypeOK'
  <2>1. open' \subseteq Conn /\ connection_list' \in Seq(Conn) /\ old' \subseteq open'
    BY <1>1, <1>2, <1>3 DEF TypeOK
  <2>2. num_connections' \in 0..Cardinality(Conn)
    BY <1>2, <1>12, <2>1, CountType
  <2> QED
    BY <1>1, <1>2, <1>5, <1>7, <2>1, <2>2 DEF TypeOK, Moves
<1>14. NoStrandedWaiter'
  <2> SUFFICES ASSUME At("asleep")' # {}, ~excused PROVE Available' <= Cardinality(At("get")')
    BY <1>1 DEF NoStrandedWaiter
  <2>1. Cardinality(At("get")') = Cardinality(At("get")) - 1 + Expired
    BY <1>1, <1>5, OneClient DEF At
  <2>2. Available <= Cardinality(At("get"))
    BY <1>5 DEF IInv, NoStrandedWaiter
  <2>3. Available' \in Int /\ Available' <= Available - 1
    <3>1. Len(connection_list') = Len(connection_list) - Expired - 1
      BY <1>1, <1>3
    <3>2. Len(connection_list) \in Nat /\ num_connections \in Nat /\ max_connections \in Nat
      BY <1>2, Numbers
    <3> QED
      BY <1>1, <1>2, <3>1, <3>2 DEF Available
  <2>4. Available \in Nat /\ Cardinality(At("get")) \in Nat
    BY <1>2, Numbers
  <2> QED
    BY <1>2, <2>1, <2>2, <2>3, <2>4
<1> QED
  BY <1>8, <1>9, <1>10, <1>12, <1>13, <1>14 DEF IInv

-----------------------------------------------------------------------------
(* Every connection of the list has expired.                                *)

\* Closing them all leaves what the clients have.
LEMMA AllExpired ==
  ASSUME IInv, Fresh = {}
  PROVE  /\ Expired = Len(connection_list) /\ Expired \in Nat
         /\ NumLeft = Cardinality(Using) /\ NumLeft \in Nat
         /\ Cardinality(open \ Closed) = NumLeft + Cardinality(At("closing"))
         /\ \A d \in Client : hold[d] # None => hold[d] \in open \ Closed
<1>1. TypeOK /\ Expired = Len(connection_list) /\ Expired \in Nat
  BY ExpiredFacts DEF IInv, TypeOK
<1>2. /\ num_connections = Len(connection_list) + Cardinality(Using)
      /\ Cardinality(open) = num_connections + Cardinality(At("closing"))
  BY DEF IInv, CountExact
<1>3. /\ Len(connection_list) \in Nat /\ num_connections \in Nat
      /\ Cardinality(Using) \in Nat /\ Cardinality(At("closing")) \in Nat
  BY <1>1, Numbers
<1>4. NumLeft = Cardinality(Using)
  BY <1>1, <1>2, <1>3 DEF NumLeft
<1>5. Cardinality(open \ Closed) = Cardinality(open) - Expired
  BY ClosedFacts
<1>6. Cardinality(open \ Closed) = NumLeft + Cardinality(At("closing"))
  BY <1>1, <1>2, <1>3, <1>4, <1>5
<1>7. \A d \in Client : hold[d] # None => hold[d] \in open \ Closed
  BY ClosedFacts DEF IInv, HeldAlone, AllOpen
<1> QED
  BY <1>1, <1>3, <1>4, <1>6, <1>7

\* The empty list.
LEMMA EmptyList ==
  <<>> \in Seq(Conn) /\ Len(<<>>) = 0 /\ Range(<<>>) = {}
BY EmptyRange

\* getConnection() is left, or waits, without a connection.
LEMMA EmptiedStep ==
  ASSUME IInv, NEW c \in Client, NEW v \in {"asleep", "out"},
         pc[c] = "get", Fresh = {}, connection_list' = <<>>, num_connections' = NumLeft,
         open' = open \ Closed, old' = old \ Closed,
         Signals(Expired, [pc EXCEPT ![c] = v]),
         UNCHANGED <<max_connections, hold>>, ping' \subseteq Client,
         gets' \in 0..MaxGets, faults' \in 0..MaxFaults, excused' \in BOOLEAN
  PROVE  TypeOK' /\ ListInjective' /\ HeldAlone' /\ AllOpen' /\ CountExact'
<1>1. TypeOK /\ v \in ClientPC \ {"get"} /\ v \notin Holding /\ v \notin Busy /\ v # "closing"
  BY DEF IInv, ClientPC, Holding, Busy
<1>2. Moves(c, v)
  BY <1>1, AllExpired, SignalsFacts DEF Moves
<1>3. /\ Cardinality(Using') = Cardinality(Using)
      /\ Cardinality(At("closing")') = Cardinality(At("closing"))
  <2>1. pc[c] \notin Busy /\ pc[c] # "closing" /\ v \in ClientPC
    BY <1>1 DEF Busy
  <2> QED
    BY <1>1, <1>2, <2>1, MovesCount
<1>4. ListInjective'
  BY EmptyList DEF ListInjective
<1>5. HeldAlone'
  <2>1. \A d \in Client : hold[d] # None <=> pc'[d] \in Holding
    BY <1>1, <1>2 DEF IInv, HeldAlone, Moves, Holding
  <2> QED
    BY <2>1, EmptyList DEF IInv, HeldAlone
<1>6. AllOpen'
  BY EmptyList, AllExpired DEF AllOpen
<1>7. num_connections' = Len(connection_list') + Cardinality(Using')
  <2>1. Len(connection_list') = 0
    BY EmptyList
  <2> QED
    BY <1>3, <2>1, AllExpired
<1>8. Cardinality(open') = num_connections' + Cardinality(At("closing")')
  BY <1>3, AllExpired
<1>9. CountExact'
  BY <1>7, <1>8 DEF CountExact
<1>10. TypeOK'
  <2>1. open' \subseteq Conn /\ connection_list' \in Seq(Conn) /\ old' \subseteq open'
    BY <1>1, EmptyList DEF TypeOK
  <2>2. num_connections' \in 0..Cardinality(Conn)
    BY <1>1, <1>9, <2>1, CountType
  <2> QED
    BY <1>1, <1>2, <2>1, <2>2 DEF TypeOK, Moves
<1> QED
  BY <1>4, <1>5, <1>6, <1>9, <1>10

\* Waiting for a connection keeps the invariant.
LEMMA WaitStep ==
  ASSUME IInv, NEW c \in Client, WaitConnection(c) PROVE IInv'
<1>1. /\ pc[c] = "get" /\ Fresh = {} /\ Full
      /\ connection_list' = <<>> /\ num_connections' = NumLeft
      /\ open' = open \ Closed /\ old' = old \ Closed
      /\ Signals(Expired, [pc EXCEPT ![c] = "asleep"])
      /\ UNCHANGED <<max_connections, ping, hold, gets, faults, excused>>
  BY DEF WaitConnection, history
<1>2. TypeOK' /\ ListInjective' /\ HeldAlone' /\ AllOpen' /\ CountExact'
  <2>1. /\ ping' \subseteq Client
        /\ gets' \in 0..MaxGets /\ faults' \in 0..MaxFaults /\ excused' \in BOOLEAN
    BY <1>1 DEF IInv, TypeOK
  <2> QED
    BY <1>1, <2>1, EmptiedStep
<1>3. NoStrandedWaiter'
  <2>1. Len(connection_list') = 0 /\ max_connections \in Nat
    BY <1>1, EmptyList, Numbers DEF IInv
  <2>2. ~(num_connections' < max_connections')
    BY <1>1, <2>1, AllExpired DEF Full
  <2>3. Available' = 0
    BY <2>1, <2>2 DEF Available
  <2>4. At("get")' \in SUBSET Client
    BY DEF At
  <2>5. Cardinality(At("get")') \in Nat
    BY <2>4, Places
  <2> QED
    BY <2>3, <2>5 DEF NoStrandedWaiter
<1> QED
  BY <1>2, <1>3 DEF IInv

\* A failing open keeps the invariant.
LEMMA ThrowStep ==
  ASSUME IInv, NEW c \in Client, OpenThrows(c) PROVE IInv'
<1>1. /\ pc[c] = "get" /\ Fresh = {} /\ faults < MaxFaults
      /\ connection_list' = <<>> /\ num_connections' = NumLeft
      /\ open' = open \ Closed /\ old' = old \ Closed
      /\ Signals(Expired, [pc EXCEPT ![c] = "out"])
      /\ ping' = ping \ {c} /\ faults' = faults + 1 /\ excused' = TRUE
      /\ UNCHANGED <<max_connections, hold, gets>>
  BY DEF OpenThrows
<1>2. /\ ping' \subseteq Client
      /\ gets' \in 0..MaxGets /\ faults' \in 0..MaxFaults /\ excused' \in BOOLEAN
  BY <1>1, ConnectionPoolAssumption DEF IInv, TypeOK
<1>3. TypeOK' /\ ListInjective' /\ HeldAlone' /\ AllOpen' /\ CountExact'
  BY <1>1, <1>2, EmptiedStep
<1> QED
  BY <1>1, <1>3 DEF IInv, NoStrandedWaiter

\* Opening a connection keeps the invariant.
LEMMA OpenStep ==
  ASSUME IInv, NEW c \in Client, OpenConnection(c) PROVE IInv'
<1> DEFINE n == CHOOSE n \in Conn : n \notin open \ Closed  v == WithConnection(c)
<1>1. /\ pc[c] = "get" /\ Fresh = {} /\ ~Full /\ Conn # open \ Closed
      /\ hold' = [hold EXCEPT ![c] = n]
      /\ open' = (open \ Closed) \cup {n} /\ old' = old \ (Closed \cup {n})
      /\ connection_list' = <<>> /\ num_connections' = NumLeft + 1
      /\ Signals(Expired, [pc EXCEPT ![c] = v])
      /\ UNCHANGED <<max_connections, ping, gets, faults, excused>>
  BY DEF OpenConnection, history
<1>2. TypeOK
  BY DEF IInv
<1>3. n \in Conn /\ n \notin open \ Closed
  <2>1. \E m \in Conn : m \notin open \ Closed
    BY <1>1, <1>2 DEF TypeOK
  <2> QED
    BY <2>1
<1>4. v \in {"ping", "held"} /\ v \in ClientPC \ {"get"} /\ v # "asleep" /\ v \in Busy
      /\ v \in Holding /\ v # "closing"
  BY DEF WithConnection, ClientPC, Busy, Holding
<1>5. Moves(c, v) /\ (At("asleep")' # {} =>
        At("asleep") # {} /\ Cardinality(At("get")') = Cardinality(At("get") \ {c}) + Expired)
  BY <1>1, <1>2, <1>4, AllExpired, SignalsFacts DEF Moves
<1> HIDE DEF n, v
<1>6. hold[c] = None /\ n # None
  BY <1>1, <1>3, NoneHeld, ConnectionPoolAssumption DEF Holding
<1>7. hold' \in [Client -> Conn \cup {None}] /\ hold'[c] = n
      /\ \A d \in Client \ {c} : hold'[d] = hold[d]
  BY <1>1, <1>2, <1>3 DEF TypeOK
<1>8. ListInjective'
  BY <1>1, EmptyList DEF ListInjective
<1>9. HeldAlone'
  <2>1. \A d \in Client : hold'[d] # None <=> pc'[d] \in Holding
    BY <1>4, <1>5, <1>6, <1>7 DEF IInv, HeldAlone, Moves, Holding
  <2>2. \A d \in Client \ {c} : hold[d] # n
    BY <1>1, <1>3, <1>6, AllExpired
  <2>3. \A d, b \in Client : d # b /\ hold'[d] # None => hold'[d] # hold'[b]
    BY <1>6, <1>7, <2>2 DEF IInv, HeldAlone
  <2> QED
    BY <1>1, <2>1, <2>3, EmptyList DEF HeldAlone
<1>10. AllOpen'
  <2>1. \A d \in Client : hold'[d] # None => hold'[d] \in open'
    BY <1>1, <1>7, AllExpired
  <2> QED
    BY <1>1, <2>1, EmptyList DEF AllOpen
<1>11. /\ Cardinality(Using') = Cardinality(Using) + 1
       /\ Cardinality(At("closing")') = Cardinality(At("closing"))
  <2>1. pc[c] \notin Busy /\ pc[c] # "closing" /\ v \in ClientPC
    BY <1>1, <1>4 DEF Busy
  <2> QED
    BY <1>2, <1>4, <1>5, <2>1, MovesCount
<1>12. CountExact'
  <2>1. Cardinality(open') = Cardinality(open \ Closed) + 1
    BY <1>1, <1>3, ClosedFacts, FS_AddElement
  <2>2. Len(connection_list') = 0 /\ Cardinality(At("closing")) \in Nat /\ Cardinality(Using) \in Nat
    BY <1>1, <1>2, EmptyList, Numbers
  <2>3. /\ NumLeft = Cardinality(Using)
        /\ Cardinality(open \ Closed) = NumLeft + Cardinality(At("closing"))
    BY <1>1, AllExpired
  <2>4. num_connections' = Len(connection_list') + Cardinality(Using')
    BY <1>1, <1>11, <2>2, <2>3
  <2>5. Cardinality(open') = num_connections' + Cardinality(At("closing")')
    BY <1>1, <1>11, <2>1, <2>2, <2>3
  <2> QED
    BY <2>4, <2>5 DEF CountExact
<1>13. TypeOK'
  <2>1. open' \subseteq Conn /\ connection_list' \in Seq(Conn) /\ old' \subseteq open'
    BY <1>1, <1>2, <1>3, EmptyList DEF TypeOK
  <2>2. num_connections' \in 0..Cardinality(Conn)
    BY <1>2, <1>12, <2>1, CountType
  <2> QED
    BY <1>1, <1>2, <1>5, <1>7, <2>1, <2>2 DEF TypeOK, Moves
<1>14. NoStrandedWaiter'
  <2> SUFFICES ASSUME At("asleep")' # {}, ~excused PROVE Available' <= Cardinality(At("get")')
    BY <1>1 DEF NoStrandedWaiter
  <2>1. Cardinality(At("get")') = Cardinality(At("get")) - 1 + Expired
    BY <1>1, <1>5, OneClient DEF At
  <2>2. Available <= Cardinality(At("get"))
    BY <1>5 DEF IInv, NoStrandedWaiter
  <2>3. Available' \in Int /\ Available' <= Available - 1
    <3>1. Len(connection_list') = 0 /\ Len(connection_list) \in Nat
          /\ num_connections \in Nat /\ max_connections \in Nat
      BY <1>1, <1>2, EmptyList, Numbers
    <3>2. num_connections' = num_connections - Len(connection_list) + 1
          /\ max_connections' = max_connections
          /\ num_connections - Len(connection_list) < max_connections
      BY <1>1, <3>1, AllExpired DEF NumLeft, Full
    <3> QED
      BY <3>1, <3>2 DEF Available
  <2>4. Available \in Nat /\ Cardinality(At("get")) \in Nat /\ Expired \in Nat
    BY <1>1, <1>2, Numbers, AllExpired
  <2> QED
    BY <2>1, <2>2, <2>3, <2>4
<1> QED
  BY <1>8, <1>9, <1>10, <1>12, <1>13, <1>14 DEF IInv

-----------------------------------------------------------------------------
(* The other steps.                                                         *)

\* A client moves on and touches neither the pool nor its connection.
LEMMA QuietStep ==
  ASSUME IInv, NEW c \in Client, NEW v \in ClientPC, pc' = [pc EXCEPT ![c] = v],
         pc[c] \in Busy <=> v \in Busy, pc[c] # "closing", v # "closing",
         pc[c] # "get", v # "asleep",
         UNCHANGED <<connection_list, num_connections, max_connections, old, open, hold, excused>>,
         ping' \subseteq Client, gets' \in 0..MaxGets, faults' \in 0..MaxFaults
  PROVE  IInv'
<1>1. TypeOK
  BY DEF IInv
<1>2. /\ Moves(c, v) /\ At("asleep")' \subseteq At("asleep")
      /\ Cardinality(At("get")') >= Cardinality(At("get"))
  BY <1>1, MovesGet
<1>3. /\ Cardinality(Using') = Cardinality(Using)
      /\ Cardinality(At("closing")') = Cardinality(At("closing"))
  BY <1>1, <1>2, MovesCount
<1>4. TypeOK'
  BY <1>1, <1>2 DEF TypeOK, Moves
<1>5. ListInjective' /\ AllOpen'
  BY DEF IInv, ListInjective, AllOpen
<1>6. HeldAlone'
  <2>1. \A d \in Client : hold[d] # None <=> pc'[d] \in Holding
    BY <1>2 DEF IInv, HeldAlone, Moves, Holding, Busy
  <2> QED
    BY <2>1 DEF IInv, HeldAlone
<1>7. CountExact'
  BY <1>3 DEF IInv, CountExact
<1>8. NoStrandedWaiter'
  <2> SUFFICES ASSUME At("asleep")' # {}, ~excused PROVE Available' <= Cardinality(At("get")')
    BY DEF NoStrandedWaiter
  <2>1. Available <= Cardinality(At("get"))
    BY <1>2 DEF IInv, NoStrandedWaiter
  <2>2. Available' = Available
    BY DEF Available
  <2>3. At("get")' \in SUBSET Client
    BY DEF At
  <2>4. Available \in Nat /\ Cardinality(At("get")) \in Nat /\ Cardinality(At("get")') \in Nat
    BY <1>1, <2>3, Numbers, Places
  <2> QED
    BY <1>2, <2>1, <2>2, <2>4
<1> QED
  BY <1>4, <1>5, <1>6, <1>7, <1>8 DEF IInv

\* Calls, pings, discards and spurious wake-ups are such moves.
LEMMA QuietSteps ==
  ASSUME IInv, Spurious \/ \E c \in Client : Call(c) \/ Ping(c) \/ Discard(c)
  PROVE  IInv'
<1> USE DEF poolVars, serverVars, clientVars, history
<1>1. /\ ping \subseteq Client /\ gets \in 0..MaxGets /\ faults \in 0..MaxFaults
      /\ MaxGets \in Nat /\ MaxFaults \in Nat
  BY ConnectionPoolAssumption DEF IInv, TypeOK
<1>2. ASSUME NEW c \in Client, Call(c) PROVE IInv'
  <2>1. gets' \in 0..MaxGets /\ ping' \subseteq Client
    BY <1>1, <1>2 DEF Call
  <2> QED
    BY <1>1, <1>2, <2>1, QuietStep DEF Call, Busy, ClientPC
<1>3. ASSUME NEW c \in Client, Ping(c) PROVE IInv'
  <2>1. faults' \in 0..MaxFaults /\ ping' \subseteq Client
    BY <1>1, <1>3 DEF Ping
  <2> QED
    BY <1>1, <1>3, <2>1, QuietStep DEF Ping, Busy, ClientPC
<1>4. ASSUME NEW c \in Client, Discard(c) PROVE IInv'
  BY <1>1, <1>4, QuietStep DEF Discard, Busy, ClientPC
<1>5. CASE Spurious
  BY <1>1, <1>5, QuietStep DEF Spurious, At, Busy, ClientPC
<1> QED
  BY <1>2, <1>3, <1>4, <1>5

\* Giving a connection back keeps the invariant.
LEMMA ReleaseStep ==
  ASSUME IInv, NEW c \in Client, ReleaseConnection(c) PROVE IInv'
<1> DEFINE n == hold[c]  L == connection_list
<1>1. /\ pc[c] = "held" /\ connection_list' = <<n>> \o L /\ hold' = [hold EXCEPT ![c] = None]
      /\ Signals(1, [pc EXCEPT ![c] = "out"])
      /\ UNCHANGED <<num_connections, max_connections, old, open, ping, gets, faults, excused>>
  BY DEF ReleaseConnection, SignalRelease, serverVars, history
<1>2. TypeOK /\ L \in Seq(Conn) /\ Len(L) \in Nat
  BY DEF IInv, TypeOK
<1>3. n # None /\ n \in Conn /\ n \in open /\ n \notin Range(L)
      /\ \A d \in Client \ {c} : hold[d] # n
  BY <1>1, <1>2 DEF IInv, HeldAlone, AllOpen, Holding, TypeOK
<1>4. Moves(c, "out") /\ (At("asleep")' # {} =>
        At("asleep") # {} /\ Cardinality(At("get")') = Cardinality(At("get") \ {c}) + 1)
  <2>1. "out" \in ClientPC \ {"get"} /\ pc[c] # "asleep" /\ 1 \in Nat
    BY <1>1 DEF ClientPC
  <2> QED
    BY <1>1, <1>2, <2>1, SignalsFacts DEF Moves
<1>5. hold' \in [Client -> Conn \cup {None}] /\ hold'[c] = None
      /\ \A d \in Client \ {c} : hold'[d] = hold[d]
  BY <1>1, <1>2 DEF TypeOK
<1> HIDE DEF n, L
<1>6. /\ connection_list' \in Seq(Conn) /\ Len(connection_list') = Len(L) + 1
      /\ connection_list'[1] = n
      /\ \A i \in 1..Len(L) : connection_list'[i + 1] = L[i]
      /\ Range(connection_list') = Range(L) \cup {n}
  BY <1>1, <1>2, <1>3, PushFront
<1>7. ListInjective'
  <2>1. \A i \in 1..Len(L) : L[i] # n
    BY <1>2, <1>3, RangePlaces
  <2>2. \A i, j \in 1..Len(L) : L[i] = L[j] => i = j
    BY DEF IInv, ListInjective, L
  <2>3. \A i \in 1..(Len(L) + 1) :
          i = 1 \/ (i - 1 \in 1..Len(L) /\ connection_list'[i] = L[i - 1])
    <3> SUFFICES ASSUME NEW i \in 1..(Len(L) + 1), i # 1
                 PROVE  i - 1 \in 1..Len(L) /\ connection_list'[i] = L[i - 1]
      OBVIOUS
    <3>1. i - 1 \in 1..Len(L) /\ (i - 1) + 1 = i
      BY <1>2
    <3> QED
      BY <1>6, <3>1
  <2>4. ASSUME NEW i \in 1..(Len(L) + 1), NEW j \in 1..(Len(L) + 1),
               connection_list'[i] = connection_list'[j]
        PROVE  i = j
    <3>1. CASE i = 1 \/ j = 1
      BY <1>6, <2>1, <2>3, <2>4, <3>1
    <3>2. CASE i # 1 /\ j # 1
      <4>1. i - 1 = j - 1
        BY <2>2, <2>3, <2>4, <3>2
      <4> QED
        BY <1>2, <4>1
    <3> QED
      BY <3>1, <3>2
  <2> QED
    BY <1>6, <2>4 DEF ListInjective
<1>8. HeldAlone'
  <2>1. \A d \in Client : hold'[d] # None <=> pc'[d] \in Holding
    BY <1>4, <1>5 DEF IInv, HeldAlone, Moves, Holding
  <2>2. \A d \in Client \ {c} : hold[d] # None => hold[d] \notin Range(L) \cup {n}
    BY <1>3 DEF IInv, HeldAlone, L
  <2>3. \A d \in Client : hold'[d] # None => hold'[d] \notin Range(connection_list')
    BY <1>5, <1>6, <2>2
  <2>4. \A d, b \in Client : d # b /\ hold'[d] # None => hold'[d] # hold'[b]
    BY <1>5 DEF IInv, HeldAlone
  <2> QED
    BY <2>1, <2>3, <2>4 DEF HeldAlone
<1>9. AllOpen'
  BY <1>1, <1>3, <1>5, <1>6 DEF IInv, AllOpen, L
<1>10. /\ Cardinality(Using') = Cardinality(Using) - 1
       /\ Cardinality(At("closing")') = Cardinality(At("closing"))
  <2>1. pc[c] \in Busy /\ "out" \notin Busy /\ "out" \in ClientPC /\ pc[c] # "closing"
    BY <1>1 DEF Busy, ClientPC
  <2> QED
    BY <1>2, <1>4, <2>1, MovesCount
<1>11. CountExact'
  <2>1. num_connections = Len(L) + Cardinality(Using) /\ Cardinality(Using) \in Nat
    BY <1>2, Numbers DEF IInv, CountExact, L
  <2>2. num_connections' = Len(connection_list') + Cardinality(Using')
    BY <1>1, <1>2, <1>6, <1>10, <2>1
  <2>3. Cardinality(open') = num_connections' + Cardinality(At("closing")')
    BY <1>1, <1>10 DEF IInv, CountExact
  <2> QED
    BY <2>2, <2>3 DEF CountExact
<1>12. TypeOK'
  BY <1>1, <1>2, <1>4, <1>5, <1>6 DEF TypeOK, Moves
<1>13. NoStrandedWaiter'
  <2> SUFFICES ASSUME At("asleep")' # {}, ~excused PROVE Available' <= Cardinality(At("get")')
    BY <1>1 DEF NoStrandedWaiter
  <2>1. At("get") \ {c} = At("get")
    BY <1>1 DEF At
  <2>2. Cardinality(At("get")') = Cardinality(At("get")) + 1
    BY <1>4, <2>1
  <2>3. Available <= Cardinality(At("get"))
    BY <1>4 DEF IInv, NoStrandedWaiter
  <2>4. Available \in Nat /\ Cardinality(At("get")) \in Nat
    BY <1>2, Numbers
  <2>5. Available' = Available + 1
    <3>1. num_connections \in Nat /\ max_connections \in Nat
      BY <1>2, Numbers
    <3>2. Len(connection_list') = Len(connection_list) + 1 /\ Len(connection_list) \in Nat
      BY <1>2, <1>6 DEF L
    <3>3. num_connections' = num_connections /\ max_connections' = max_connections
      BY <1>1
    <3>4. CASE num_connections < max_connections
      BY <3>1, <3>2, <3>3, <3>4 DEF Available
    <3>5. CASE ~(num_connections < max_connections)
      BY <3>1, <3>2, <3>3, <3>5 DEF Available
    <3> QED
      BY <3>4, <3>5
  <2> QED
    BY <2>2, <2>3, <2>4, <2>5
<1> QED
  BY <1>7, <1>8, <1>9, <1>11, <1>12, <1>13 DEF IInv

\* A dropped connection gives its place back.
LEMMA DestroyingStep ==
  ASSUME IInv, NEW c \in Client, DestroyingConnection(c) PROVE IInv'
<1>1. /\ pc[c] = "drop" /\ num_connections' = num_connections - 1
      /\ Signals(1, [pc EXCEPT ![c] = "closing"])
      /\ UNCHANGED <<connection_list, max_connections, old, open, ping, hold, gets, faults, excused>>
  BY DEF DestroyingConnection, PlaceBack, serverVars, history
<1>2. TypeOK
  BY DEF IInv
<1>3. Moves(c, "closing") /\ (At("asleep")' # {} =>
        At("asleep") # {} /\ Cardinality(At("get")') = Cardinality(At("get") \ {c}) + 1)
  <2>1. "closing" \in ClientPC \ {"get"} /\ pc[c] # "asleep" /\ 1 \in Nat
    BY <1>1 DEF ClientPC
  <2> QED
    BY <1>1, <1>2, <2>1, SignalsFacts DEF Moves
<1>4. ListInjective' /\ AllOpen'
  BY <1>1 DEF IInv, ListInjective, AllOpen
<1>5. HeldAlone'
  <2>1. \A d \in Client : hold[d] # None <=> pc'[d] \in Holding
    BY <1>1, <1>3 DEF IInv, HeldAlone, Moves, Holding
  <2> QED
    BY <1>1, <2>1 DEF IInv, HeldAlone
<1>6. /\ Cardinality(Using') = Cardinality(Using) - 1
      /\ Cardinality(At("closing")') = Cardinality(At("closing")) + 1
  <2>1. pc[c] \in Busy /\ "closing" \notin Busy /\ "closing" \in ClientPC /\ pc[c] # "closing"
    BY <1>1 DEF Busy, ClientPC
  <2> QED
    BY <1>2, <1>3, <2>1, MovesCount
<1>7. CountExact'
  <2>1. /\ num_connections = Len(connection_list) + Cardinality(Using)
        /\ Cardinality(open) = num_connections + Cardinality(At("closing"))
    BY DEF IInv, CountExact
  <2>2. /\ Len(connection_list) \in Nat /\ num_connections \in Nat
        /\ Cardinality(Using) \in Nat /\ Cardinality(At("closing")) \in Nat
    BY <1>2, Numbers
  <2>3. num_connections' = Len(connection_list') + Cardinality(Using')
    BY <1>1, <1>6, <2>1, <2>2
  <2>4. Cardinality(open') = num_connections' + Cardinality(At("closing")')
    BY <1>1, <1>6, <2>1, <2>2
  <2> QED
    BY <2>3, <2>4 DEF CountExact
<1>8. TypeOK'
  <2>1. open' \subseteq Conn /\ connection_list' \in Seq(Conn)
    BY <1>1, <1>2 DEF TypeOK
  <2>2. num_connections' \in 0..Cardinality(Conn)
    BY <1>2, <1>7, <2>1, CountType
  <2> QED
    BY <1>1, <1>2, <1>3, <2>2 DEF TypeOK, Moves
<1>9. NoStrandedWaiter'
  <2> SUFFICES ASSUME At("asleep")' # {}, ~excused PROVE Available' <= Cardinality(At("get")')
    BY <1>1 DEF NoStrandedWaiter
  <2>1. At("get") \ {c} = At("get")
    BY <1>1 DEF At
  <2>2. Cardinality(At("get")') = Cardinality(At("get")) + 1
    BY <1>3, <2>1
  <2>3. Available <= Cardinality(At("get"))
    BY <1>3 DEF IInv, NoStrandedWaiter
  <2>4. Available \in Nat /\ Cardinality(At("get")) \in Nat
    BY <1>2, Numbers
  <2>5. Available' \in Int /\ Available' <= Available + 1
    <3>1. num_connections \in Nat /\ max_connections \in Nat /\ Len(connection_list) \in Nat
      BY <1>2, Numbers
    <3>2. /\ num_connections' = num_connections - 1 /\ max_connections' = max_connections
          /\ connection_list' = connection_list
      BY <1>1
    <3> QED
      BY <3>1, <3>2 DEF Available
  <2> QED
    BY <2>2, <2>3, <2>4, <2>5
<1> QED
  BY <1>4, <1>5, <1>7, <1>8, <1>9 DEF IInv

\* Closing the dropped connection keeps the invariant.
LEMMA CloseStep ==
  ASSUME IInv, NEW c \in Client, CloseConnection(c) PROVE IInv'
<1> DEFINE v == IF c \in ping THEN "get" ELSE "out"
<1>1. /\ pc[c] = "closing" /\ open' = open \ {hold[c]} /\ old' = old \ {hold[c]}
      /\ hold' = [hold EXCEPT ![c] = None] /\ pc' = [pc EXCEPT ![c] = v]
      /\ UNCHANGED <<connection_list, num_connections, max_connections, ping, gets, faults, excused>>
  BY DEF CloseConnection, poolVars, history
<1>2. TypeOK
  BY DEF IInv
<1>3. v \in ClientPC /\ v \notin Holding /\ v \notin Busy /\ v # "closing" /\ v # "asleep"
  BY DEF ClientPC, Holding, Busy
<1> HIDE DEF v
<1>4. /\ Moves(c, v) /\ At("asleep")' \subseteq At("asleep")
      /\ Cardinality(At("get")') >= Cardinality(At("get"))
  BY <1>1, <1>2, <1>3, MovesGet
<1>5. /\ hold[c] # None /\ hold[c] \in open /\ hold[c] \notin Range(connection_list)
      /\ \A d \in Client \ {c} : hold[d] # hold[c]
  BY <1>1 DEF IInv, HeldAlone, AllOpen, Holding
<1>6. hold' \in [Client -> Conn \cup {None}] /\ hold'[c] = None
      /\ \A d \in Client \ {c} : hold'[d] = hold[d]
  BY <1>1, <1>2 DEF TypeOK
<1>7. ListInjective'
  BY <1>1 DEF IInv, ListInjective
<1>8. AllOpen'
  BY <1>1, <1>5, <1>6 DEF IInv, AllOpen
<1>9. HeldAlone'
  <2>1. \A d \in Client : hold'[d] # None <=> pc'[d] \in Holding
    BY <1>3, <1>4, <1>6 DEF IInv, HeldAlone, Moves, Holding
  <2>2. \A d \in Client : hold'[d] # None => hold'[d] \notin Range(connection_list)
    BY <1>6 DEF IInv, HeldAlone
  <2>3. \A d, b \in Client : d # b /\ hold'[d] # None => hold'[d] # hold'[b]
    BY <1>6 DEF IInv, HeldAlone
  <2> QED
    BY <1>1, <2>1, <2>2, <2>3 DEF HeldAlone
<1>10. /\ Cardinality(Using') = Cardinality(Using)
       /\ Cardinality(At("closing")') = Cardinality(At("closing")) - 1
  <2>1. pc[c] \notin Busy
    BY <1>1 DEF Busy
  <2> QED
    BY <1>1, <1>2, <1>3, <1>4, <2>1, MovesCount
<1>11. CountExact'
  <2>1. IsFiniteSet(open)
    BY ClosedFacts
  <2>2. Cardinality(open') = Cardinality(open) - 1
    BY <1>1, <1>5, <2>1, FS_RemoveElement
  <2>3. Cardinality(open) = num_connections + Cardinality(At("closing"))
    BY DEF IInv, CountExact
  <2>4. num_connections \in Nat /\ Cardinality(At("closing")) \in Nat
    BY <1>2, Numbers
  <2>5. Cardinality(open') = num_connections' + Cardinality(At("closing")')
    BY <1>1, <1>10, <2>2, <2>3, <2>4
  <2>6. num_connections' = Len(connection_list') + Cardinality(Using')
    BY <1>1, <1>10 DEF IInv, CountExact
  <2> QED
    BY <2>5, <2>6 DEF CountExact
<1>12. TypeOK'
  BY <1>1, <1>2, <1>4, <1>6 DEF TypeOK, Moves
<1>13. NoStrandedWaiter'
  <2> SUFFICES ASSUME At("asleep")' # {}, ~excused PROVE Available' <= Cardinality(At("get")')
    BY <1>1 DEF NoStrandedWaiter
  <2>1. Available <= Cardinality(At("get"))
    BY <1>4 DEF IInv, NoStrandedWaiter
  <2>2. Available' = Available
    BY <1>1 DEF Available
  <2>3. At("get")' \in SUBSET Client
    BY DEF At
  <2>4. Available \in Nat /\ Cardinality(At("get")) \in Nat /\ Cardinality(At("get")') \in Nat
    BY <1>2, <2>3, Numbers, Places
  <2> QED
    BY <1>4, <2>1, <2>2, <2>4
<1> QED
  BY <1>7, <1>8, <1>9, <1>11, <1>12, <1>13 DEF IInv

\* Age and a changed limit keep the invariant.
LEMMA OutsideStep ==
  ASSUME IInv, SetMaxConnections \/ (\E n \in Conn : Expire(n)) \/ UNCHANGED vars
  PROVE  IInv'
<1> USE DEF poolVars, serverVars, clientVars, history
<1>1. UNCHANGED <<connection_list, num_connections, open, pc, ping, hold, gets>>
  BY DEF SetMaxConnections, Expire, vars
<1>2. ListInjective' /\ HeldAlone' /\ AllOpen'
  BY <1>1 DEF IInv, ListInjective, HeldAlone, AllOpen
<1>3. CountExact'
  BY <1>1 DEF IInv, CountExact, Using, At
<1>4. TypeOK'
  <2>1. CASE SetMaxConnections
    BY <1>1, <2>1, ConnectionPoolAssumption DEF IInv, TypeOK, SetMaxConnections
  <2>2. CASE \E n \in Conn : Expire(n)
    BY <1>1, <2>2 DEF IInv, TypeOK, Expire
  <2>3. CASE UNCHANGED vars
    BY <2>3 DEF IInv, TypeOK, vars
  <2> QED
    BY <2>1, <2>2, <2>3
<1>5. NoStrandedWaiter'
  <2>1. CASE excused' = TRUE
    BY <2>1 DEF NoStrandedWaiter
  <2>2. CASE UNCHANGED <<max_connections, excused>>
    BY <1>1, <2>2 DEF IInv, NoStrandedWaiter, Available, At
  <2> QED
    BY <2>1, <2>2 DEF SetMaxConnections, Expire, vars
<1> QED
  BY <1>2, <1>3, <1>4, <1>5 DEF IInv

-----------------------------------------------------------------------------
(* The constructor.                                                         *)

\* There are InitConns different connections to open.
LEMMA InitialList ==
  \E s \in [1..InitConns -> Conn] : Cardinality(Range(s)) = InitConns
<1> DEFINE k == InitConns  m == Cardinality(Conn)
<1>1. IsFiniteSet(Conn) /\ k \in 1..m /\ m \in Nat
  BY ConnectionPoolAssumption, FS_CardinalityType
<1>2. PICK f : f \in Bijection(1..m, Conn)
  BY <1>1, FS_CardinalityType DEF ExistsBijection
<1>3. f \in [1..m -> Conn] /\ \A i, j \in 1..m : f[i] = f[j] => i = j
  BY <1>2 DEF Bijection, Injection, IsInjective
<1> HIDE DEF k, m
<1> DEFINE s == [i \in 1..k |-> f[i]]
<1>4. /\ k \in Nat /\ 1..k \subseteq 1..m /\ k \in 0..k
  BY <1>1
<1>5. s \in [1..k -> Conn] /\ \A i \in 1..k : s[i] = f[i]
  BY <1>3, <1>4
<1> HIDE DEF s
<1>6. s \in Seq(Conn) /\ Len(s) = k /\ DOMAIN s = 1..k
  BY <1>4, <1>5
<1>7. \A i, j \in 1..k : s[i] = s[j] => i = j
  BY <1>3, <1>4, <1>5
<1>8. \A t : t \in Range(s) <=> \E i \in 1..k : t = s[i]
  BY <1>6 DEF Range
<1>9. Cardinality(Range(s)) = k
  BY <1>4, <1>6, <1>7, <1>8, PrefixCard
<1> QED
  BY <1>5, <1>9 DEF k

\* A list that holds as many connections as it has places holds none twice.
LEMMA CountedList ==
  ASSUME NEW k \in Nat, NEW s \in [1..k -> Conn], Cardinality(Range(s)) = k
  PROVE  /\ s \in Seq(Conn) /\ Len(s) = k /\ Range(s) \subseteq Conn
         /\ \A i, j \in 1..k : s[i] = s[j] => i = j
<1>1. s \in Seq(Conn) /\ Len(s) = k /\ DOMAIN s = 1..k /\ Range(s) \subseteq Conn
  BY DEF Range
<1>2. s \in [1..k -> Range(s)] /\ \A t \in Range(s) : \E i \in 1..k : s[i] = t
  BY <1>1 DEF Range
<1>3. s \in Surjection(1..k, Range(s))
  BY <1>2 DEF Surjection
<1>4. IsFiniteSet(1..k) /\ Cardinality(1..k) = k
  BY FS_Interval
<1>5. s \in Injection(1..k, Range(s))
  BY <1>3, <1>4, FS_Surjection
<1> QED
  BY <1>1, <1>5 DEF Injection, IsInjective

\* The constructor establishes the invariant.
LEMMA InitIInv == ASSUME Init PROVE IInv
<1>1. connection_list \in [1..InitConns -> Conn] /\ Cardinality(Range(connection_list)) = InitConns
  BY InitialList DEF Init
<1>2. InitConns \in Nat /\ InitConns <= Cardinality(Conn) /\ Cardinality(Conn) \in Nat
  BY ConnectionPoolAssumption, FS_CardinalityType
<1>3. /\ connection_list \in Seq(Conn) /\ Len(connection_list) = InitConns
      /\ Range(connection_list) \subseteq Conn
      /\ \A i, j \in 1..InitConns : connection_list[i] = connection_list[j] => i = j
  BY <1>1, <1>2, CountedList
<1>4. TypeOK
  <2>1. num_connections \in 0..Cardinality(Conn)
    BY <1>2 DEF Init
  <2>2. gets \in 0..MaxGets /\ faults \in 0..MaxFaults
    BY ConnectionPoolAssumption DEF Init
  <2>3. pc \in [Client -> ClientPC] /\ hold \in [Client -> Conn \cup {None}]
    BY DEF Init, ClientPC
  <2>4. /\ open \subseteq Conn /\ old \subseteq open /\ ping \subseteq Client
        /\ max_connections \in Limits /\ excused \in BOOLEAN
    BY <1>3 DEF Init
  <2> QED
    BY <1>3, <2>1, <2>2, <2>3, <2>4 DEF TypeOK
<1>5. ListInjective
  BY <1>3 DEF ListInjective
<1>6. HeldAlone /\ AllOpen
  BY DEF Init, HeldAlone, AllOpen, Holding
<1>7. CountExact
  <2>1. Using = {} /\ At("closing") = {}
    BY DEF Init, Using, At
  <2>2. Cardinality(Using) = 0 /\ Cardinality(At("closing")) = 0
    BY <2>1, FS_EmptySet
  <2> QED
    BY <1>1, <1>2, <1>3, <2>2 DEF Init, CountExact
<1>8. NoStrandedWaiter
  BY DEF Init, NoStrandedWaiter, At
<1> QED
  BY <1>4, <1>5, <1>6, <1>7, <1>8 DEF IInv

-----------------------------------------------------------------------------
(* Theorems.                                                                *)

\* The invariant is inductive.
LEMMA StepIInv == ASSUME IInv, [Next]_vars PROVE IInv'
<1>1. ASSUME NEW c \in Client, Call(c) \/ ClientStep(c) \/ Discard(c) PROVE IInv'
  BY <1>1, QuietSteps, TakeStep, WaitStep, OpenStep, ThrowStep, ReleaseStep,
    DestroyingStep, CloseStep DEF ClientStep, GetStep
<1>2. CASE (\E n \in Conn : Expire(n)) \/ SetMaxConnections \/ Spurious \/ Done
  BY <1>2, QuietSteps, OutsideStep DEF Done
<1>3. CASE UNCHANGED vars
  BY <1>3, OutsideStep
<1> QED
  BY <1>1, <1>2, <1>3 DEF Next

\* The invariant holds in every reachable state.
THEOREM Invariance == Spec => []IInv
<1>1. Init => IInv
  BY InitIInv
<1>2. IInv /\ [Next]_vars => IInv'
  BY StepIInv
<1> QED
  BY <1>1, <1>2, PTL DEF Spec

\* Every variable of the pool, of the server and of the clients keeps its type.
THEOREM TypeCorrect == Spec => []TypeOK
<1>1. IInv => TypeOK
  BY DEF IInv
<1> QED
  BY <1>1, Invariance, PTL

\* No connection is in two hands, whatever getConnection(), releaseConnection()
\* and the destructor of a held connection interleave.
THEOREM UseIsExclusive == Spec => []ExclusiveUse
<1>1. ASSUME IInv PROVE ExclusiveUse
  <2>1. connection_list \in Seq(Conn) /\ Len(connection_list) \in Nat
    BY <1>1 DEF IInv, TypeOK
  <2>2. \A i, j \in 1..Len(connection_list) : connection_list[i] = connection_list[j] => i = j
    BY <1>1 DEF IInv, ListInjective
  <2>3. \A t : t \in Range(connection_list) <=> \E i \in 1..Len(connection_list) : t = connection_list[i]
    BY <2>1, RangePlaces
  <2>4. Len(connection_list) \in 0..Len(connection_list)
    BY <2>1
  <2>5. Cardinality(Range(connection_list)) = Len(connection_list)
    BY <2>1, <2>2, <2>3, <2>4, PrefixCard
  <2> QED
    BY <1>1, <2>5 DEF IInv, HeldAlone, ExclusiveUse
<1> QED
  BY <1>1, Invariance, PTL

\* num_connections counts the connections in the list and in use, and what is
\* open beyond it is being closed.
THEOREM CountsAreExact == Spec => []CountExact
<1>1. IInv => CountExact
  BY DEF IInv
<1> QED
  BY <1>1, Invariance, PTL

\* While a client sleeps in getConnection() as many are awake in it as there are
\* connections to be had, until an open fails or the limit is changed.
THEOREM NobodyStranded == Spec => []NoStrandedWaiter
<1>1. IInv => NoStrandedWaiter
  BY DEF IInv
<1> QED
  BY <1>1, Invariance, PTL

-----------------------------------------------------------------------------
(* What a step may never do.                                                *)

\* Every connection that getConnection() closes has expired.
LEMMA ClosedOld == ASSUME TypeOK PROVE Closed \subseteq Range(connection_list) \cap old
<1> SUFFICES ASSUME NEW i \in 1..Expired
             PROVE  connection_list[i] \in Range(connection_list) \cap old
  BY DEF Closed
<1>1. /\ Expired \in 0..Len(connection_list) /\ Len(connection_list) \in Nat
      /\ DOMAIN connection_list = 1..Len(connection_list)
      /\ connection_list \in Seq(Conn)
  BY ExpiredFacts DEF TypeOK
<1>2. i \in Nat /\ i \in 1..Len(connection_list) /\ i \in DOMAIN connection_list /\ i <= Expired
  BY <1>1
<1>3. connection_list[i] \in Range(connection_list)
  BY <1>1, <1>2, RangePlaces
<1>4. i \notin Fresh
  <2>1. CASE Fresh = {}
    BY <2>1
  <2>2. CASE Fresh # {}
    <3>1. Fresh \in SUBSET Nat
      BY <1>1 DEF Fresh
    <3>2. PICK m \in Fresh : (\A j \in Fresh : m <= j) /\ Expired = m - 1
      <4>1. \E k \in Fresh : \A j \in Fresh : k <= j
        BY <2>2, <3>1, Smallest
      <4> QED
        BY <2>2, <4>1 DEF Expired
    <3> QED
      BY <1>2, <3>1, <3>2
  <2> QED
    BY <2>1, <2>2
<1> QED
  BY <1>2, <1>3, <1>4 DEF Fresh

\* A connection that a step closes is used by nobody but the client that is just
\* closing it, has expired if getConnection() found it in the list, and is in
\* nobody's reach afterwards.
ClosesOnlyUnused ==
  \A n \in open \ open' :
    /\ \A c \in Client : hold[c] = n => pc[c] = "closing"
    /\ n \in Range(connection_list) => n \in old
    /\ n \notin Range(connection_list') /\ \A c \in Client : hold'[c] # n

\* Closing never hits a connection in use: the loop of getConnection() that
\* closes expired connections and the destructor that closes a dropped one, whose
\* place may be taken before it has closed, touch nothing that anyone can reach.
THEOREM NothingInUseIsClosed == Spec => [][ClosesOnlyUnused]_vars
<1>1. ASSUME IInv, [Next]_vars PROVE ClosesOnlyUnused
  <2>1. IInv'
    BY <1>1, StepIInv
  <2> SUFFICES ASSUME NEW n \in open \ open'
               PROVE  /\ \A c \in Client : hold[c] = n => pc[c] = "closing"
                      /\ n \in Range(connection_list) => n \in old
                      /\ n \notin Range(connection_list') /\ \A c \in Client : hold'[c] # n
    BY DEF ClosesOnlyUnused
  <2>2. n \in Conn /\ n # None
    BY <1>1, ConnectionPoolAssumption DEF IInv, TypeOK
  <2>3. n \notin Range(connection_list') /\ \A c \in Client : hold'[c] # n
    BY <2>1, <2>2 DEF IInv, AllOpen
  <2>4. CASE n \in Closed
    <3>1. n \in Range(connection_list) /\ n \in old
      BY <1>1, <2>4, ClosedOld DEF IInv
    <3> QED
      BY <1>1, <2>2, <2>3, <3>1 DEF IInv, HeldAlone
  <2>5. ASSUME NEW c \in Client, CloseConnection(c)
        PROVE  pc[c] = "closing" /\ hold[c] = n
    BY <2>5 DEF CloseConnection
  <2>6. CASE \E c \in Client : CloseConnection(c)
    <3>1. PICK c \in Client : pc[c] = "closing" /\ hold[c] = n
      BY <2>5, <2>6
    <3> QED
      BY <1>1, <2>2, <2>3, <3>1 DEF IInv, HeldAlone
  <2>7. n \in Closed \/ \E c \in Client : CloseConnection(c)
    BY <1>1 DEF Next, ClientStep, GetStep, Call, TakeConnection, WaitConnection, OpenConnection,
      OpenThrows, Ping, ReleaseConnection, DestroyingConnection, Discard, Expire,
      SetMaxConnections, Spurious, Done, serverVars, vars
  <2> QED
    BY <2>4, <2>6, <2>7
<1>2. IInv /\ [Next]_vars => [ClosesOnlyUnused]_vars
  BY <1>1
<1> QED
  BY <1>2, Invariance, PTL DEF Spec

\* Whoever gets a connection that was not waiting in the list has opened it, and
\* then no more are open at the server than the limit, but for those that are
\* just being closed.
OpensWithinLimit ==
  \A c \in Client :
    hold[c] = None /\ hold'[c] # None /\ hold'[c] \notin {connection_list[i] : i \in Fresh}
      => Cardinality(open') <= max_connections + Cardinality(At("closing"))

\* getConnection() opens a connection only within max_connections, as the server
\* counts them: expired connections are closed before, and a dropped one has left
\* its place although it is still open.
THEOREM LimitKept == Spec => [][OpensWithinLimit]_vars
<1>1. ASSUME IInv, [Next]_vars PROVE OpensWithinLimit
  <2> SUFFICES ASSUME NEW c \in Client, hold[c] = None, hold'[c] # None,
                      hold'[c] \notin {connection_list[i] : i \in Fresh}
               PROVE  Cardinality(open') <= max_connections + Cardinality(At("closing"))
    BY DEF OpensWithinLimit
  <2>1. TypeOK /\ hold \in [Client -> Conn \cup {None}]
    BY <1>1 DEF IInv, TypeOK
  <2>2. ASSUME NEW d \in Client, TakeConnection(d) PROVE FALSE
    <3>1. Fresh # {} /\ hold' = [hold EXCEPT ![d] = connection_list[Expired + 1]]
      BY <2>2 DEF TakeConnection
    <3>2. Expired + 1 \in Fresh
      <4>1. Fresh \in SUBSET Nat
        BY <2>1 DEF Fresh, TypeOK
      <4>2. \E k \in Fresh : \A j \in Fresh : k <= j
        BY <3>1, <4>1, Smallest
      <4>3. PICK m \in Fresh : Expired = m - 1
        BY <3>1, <4>2 DEF Expired
      <4> QED
        BY <4>1, <4>3
    <3> QED
      BY <2>1, <3>1, <3>2
  <2>3. ASSUME NEW d \in Client, OpenConnection(d)
        PROVE  Cardinality(open') <= max_connections + Cardinality(At("closing"))
    <3>1. /\ Fresh = {} /\ ~Full /\ Conn # open \ Closed
          /\ open' = (open \ Closed) \cup {CHOOSE n \in Conn : n \notin open \ Closed}
      BY <2>3 DEF OpenConnection
    <3>2. \E n \in Conn : n \notin open \ Closed
      BY <2>1, <3>1 DEF TypeOK
    <3>3. PICK n \in Conn : n \notin open \ Closed /\ open' = (open \ Closed) \cup {n}
      BY <3>1, <3>2
    <3>4. Cardinality(open') = Cardinality(open \ Closed) + 1
      BY <1>1, <3>3, ClosedFacts, FS_AddElement
    <3>5. /\ NumLeft \in Nat /\ max_connections \in Nat /\ Cardinality(At("closing")) \in Nat
          /\ Cardinality(open \ Closed) = NumLeft + Cardinality(At("closing"))
      BY <1>1, <2>1, <3>1, AllExpired, Numbers
    <3> QED
      BY <3>1, <3>4, <3>5 DEF Full
  <2>4. (\E d \in Client : TakeConnection(d)) \/ (\E d \in Client : OpenConnection(d))
    <3>1. hold'[c] # hold[c]
      OBVIOUS
    <3>2. ASSUME NEW d \in Client, hold' = [hold EXCEPT ![d] = None] PROVE FALSE
      BY <2>1, <3>2
    <3> QED
      BY <1>1, <3>1, <3>2 DEF Next, ClientStep, GetStep, Call, WaitConnection, OpenThrows, Ping,
        ReleaseConnection, DestroyingConnection, CloseConnection, Discard, Expire,
        SetMaxConnections, Spurious, Done, clientVars, vars
  <2> QED
    BY <2>2, <2>3, <2>4
<1>2. IInv /\ [Next]_vars => [OpensWithinLimit]_vars
  BY <1>1
<1> QED
  BY <1>2, Invariance, PTL DEF Spec
=============================================================================
