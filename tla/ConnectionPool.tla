--------------------------- MODULE ConnectionPool ---------------------------
(***************************************************************************)
(* The pool of database connections of drt's sql library.                  *)
(*                                                                         *)
(* list_mutex is recursive and guards the list and the count; a locked     *)
(* region up to its end or its wait() is one step, including the opening   *)
(* of a connection and the closing of expired ones, which the code does    *)
(* under the lock.  A connection that a client drops is different: its     *)
(* destructor gives the place back under the lock and closes afterwards.   *)
(***************************************************************************)
EXTENDS Integers, Sequences, FiniteSets, Functions

CONSTANTS
  Client,     \* threads that use the pool
  Conn,       \* identities of connections, used again after closing
  None,
  InitConns,  \* init_conns of the constructor
  Limits,     \* the values max_connections is given
  MayExpire,  \* max_oldness > 0
  OpenFails,  \* openConnection() may throw
  MaxGets,    \* bound: calls of getConnection() and getConnectionPing()
  MaxFaults   \* bound: failing pings, failing opens and changes of the limit

ASSUME ConnectionPoolAssumption ==
  /\ IsFiniteSet(Client) /\ IsFiniteSet(Conn)
  /\ None \notin Conn
  /\ InitConns \in 1..Cardinality(Conn)
  /\ Limits \subseteq Nat \ {0} /\ Limits # {}
  /\ {MayExpire, OpenFails} \subseteq BOOLEAN
  /\ {MaxGets, MaxFaults} \subseteq Nat

VARIABLES
  connection_list, num_connections, max_connections,
  old,      \* connections created more than max_oldness ago
  open,     \* connections open at the database server
  pc,       \* where each client is
  ping,     \* the clients that are inside getConnectionPing()
  hold,     \* the connection a client has
  gets,     \* calls made
  faults,   \* faults so far
  excused   \* an open has failed or the limit was changed

poolVars   == <<connection_list, num_connections, max_connections>>
serverVars == <<old, open>>
clientVars == <<pc, ping, hold>>
history    == <<gets, faults, excused>>
vars == <<poolVars, serverVars, clientVars, history>>

-----------------------------------------------------------------------------

\* "get": at the lock of getConnection() or woken in it; "asleep": in its
\* wait(); "ping": pinging; "held": using a connection; "drop": about to unref
\* it; "closing": after destroyingConnection(), before the connection is closed.
ClientPC == {"out", "get", "asleep", "ping", "held", "drop", "closing"}

\* The constructor has opened InitConns connections before it reads the limit
\* from the connection string.
Init ==
  /\ connection_list = CHOOSE s \in [1..InitConns -> Conn] :
                          Cardinality(Range(s)) = InitConns
  /\ open = Range(connection_list)
  /\ num_connections = InitConns
  /\ max_connections \in Limits
  /\ old = {}
  /\ pc = [c \in Client |-> "out"]
  /\ ping = {}
  /\ hold = [c \in Client |-> None]
  /\ gets = 0 /\ faults = 0 /\ excused = FALSE

-----------------------------------------------------------------------------

At(place) == {c \in Client : pc[c] = place}

Smaller(m, n) == IF m < n THEN m ELSE n

\* n calls of signal(): as many sleepers wake, or all.  f is pc after the other
\* changes of the step.
Signals(n, f) ==
  \E s \in SUBSET At("asleep") :
    /\ Cardinality(s) = Smaller(n, Cardinality(At("asleep")))
    /\ pc' = [c \in Client |-> IF c \in s THEN "get" ELSE f[c]]

\* A wait() may return without a signal.
Spurious ==
  \E c \in At("asleep") :
    /\ pc' = [pc EXCEPT ![c] = "get"]
    /\ UNCHANGED <<poolVars, serverVars, ping, hold, history>>

\* A connection grows older than max_oldness; its age counts from its creation.
Expire(n) ==
  /\ MayExpire /\ n \in open \ old
  /\ old' = old \cup {n}
  /\ UNCHANGED <<poolVars, open, clientVars, history>>

-----------------------------------------------------------------------------

Call(c) ==
  /\ pc[c] = "out" /\ gets < MaxGets
  /\ gets' = gets + 1
  /\ pc' = [pc EXCEPT ![c] = "get"]
  /\ ping' \in {ping, ping \cup {c}}
  /\ UNCHANGED <<poolVars, serverVars, hold, faults, excused>>

\* The first connection of the list that has not expired, if there is one; the
\* loop of getConnection() closes those before it.
Fresh == {i \in DOMAIN connection_list : connection_list[i] \notin old}

Expired == IF Fresh = {} THEN Len(connection_list)
           ELSE (CHOOSE i \in Fresh : \A j \in Fresh : i <= j) - 1

Closed == {connection_list[i] : i \in 1..Expired}

\* The places left once the expired connections are closed.
NumLeft == num_connections - Expired

Full == NumLeft >= max_connections

WithConnection(c) == IF c \in ping THEN "ping" ELSE "held"

\* Variant: the list is not told that its first connection is taken.
ListTakenKept == SubSeq(connection_list, Expired + 1, Len(connection_list))

ListTaken == SubSeq(connection_list, Expired + 2, Len(connection_list))

\* getConnection() takes a connection from the list.
TakeConnection(c) ==
  /\ pc[c] = "get" /\ Fresh # {}
  /\ hold' = [hold EXCEPT ![c] = connection_list[Expired + 1]]
  /\ connection_list' = ListTaken
  /\ num_connections' = NumLeft
  /\ open' = open \ Closed /\ old' = old \ Closed
  /\ Signals(Expired, [pc EXCEPT ![c] = WithConnection(c)])
  /\ UNCHANGED <<max_connections, ping, history>>

\* getConnection() waits: the limit is reached.
WaitConnection(c) ==
  /\ pc[c] = "get" /\ Fresh = {} /\ Full
  /\ connection_list' = <<>>
  /\ num_connections' = NumLeft
  /\ open' = open \ Closed /\ old' = old \ Closed
  /\ Signals(Expired, [pc EXCEPT ![c] = "asleep"])
  /\ UNCHANGED <<max_connections, ping, hold, history>>

\* getConnection() opens a connection.
OpenConnection(c) ==
  /\ pc[c] = "get" /\ Fresh = {} /\ ~Full
  /\ Conn # open \ Closed
  /\ LET n == CHOOSE n \in Conn : n \notin open \ Closed IN
       /\ hold' = [hold EXCEPT ![c] = n]
       /\ open' = (open \ Closed) \cup {n} /\ old' = old \ (Closed \cup {n})
  /\ connection_list' = <<>>
  /\ num_connections' = NumLeft + 1
  /\ Signals(Expired, [pc EXCEPT ![c] = WithConnection(c)])
  /\ UNCHANGED <<max_connections, ping, history>>

\* openConnection() throws: getConnection() and getConnectionPing() are left.
OpenThrows(c) ==
  /\ pc[c] = "get" /\ Fresh = {} /\ ~Full
  /\ OpenFails /\ faults < MaxFaults
  /\ connection_list' = <<>>
  /\ num_connections' = NumLeft
  /\ open' = open \ Closed /\ old' = old \ Closed
  /\ Signals(Expired, [pc EXCEPT ![c] = "out"])
  /\ ping' = ping \ {c}
  /\ faults' = faults + 1 /\ excused' = TRUE
  /\ UNCHANGED <<max_connections, hold, gets>>

\* getConnectionPing(): only an exception of ping() counts, not its result.
Ping(c) ==
  /\ pc[c] = "ping"
  /\ \/ /\ pc' = [pc EXCEPT ![c] = "held"]
        /\ ping' = ping \ {c} /\ UNCHANGED faults
     \/ /\ faults < MaxFaults /\ faults' = faults + 1
        /\ pc' = [pc EXCEPT ![c] = "drop"] /\ UNCHANGED ping
  /\ UNCHANGED <<poolVars, serverVars, hold, gets, excused>>

\* Variant: nobody is told that a connection came back.
SignalReleaseNone(f) == pc' = f

SignalRelease(f) == Signals(1, f)

ReleaseConnection(c) ==
  /\ pc[c] = "held"
  /\ connection_list' = <<hold[c]>> \o connection_list
  /\ hold' = [hold EXCEPT ![c] = None]
  /\ SignalRelease([pc EXCEPT ![c] = "out"])
  /\ UNCHANGED <<num_connections, max_connections, serverVars, ping, history>>

\* The client finds the connection broken and unrefs it.
Discard(c) ==
  /\ pc[c] = "held"
  /\ pc' = [pc EXCEPT ![c] = "drop"]
  /\ UNCHANGED <<poolVars, serverVars, ping, hold, history>>

\* Variant: the place is not given back.
PlaceBackKept == num_connections
PlaceBack == num_connections - 1

\* ~ConnectionHoldPool calls destroyingConnection().
DestroyingConnection(c) ==
  /\ pc[c] = "drop"
  /\ num_connections' = PlaceBack
  /\ Signals(1, [pc EXCEPT ![c] = "closing"])
  /\ UNCHANGED <<connection_list, max_connections, serverVars, ping, hold, history>>

\* The destructors of the base and of the connection run after it.
CloseConnection(c) ==
  /\ pc[c] = "closing"
  /\ open' = open \ {hold[c]} /\ old' = old \ {hold[c]}
  /\ hold' = [hold EXCEPT ![c] = None]
  /\ pc' = [pc EXCEPT ![c] = IF c \in ping THEN "get" ELSE "out"]
  /\ UNCHANGED <<poolVars, ping, history>>

\* setMaxConnections() neither locks nor signals.
SetMaxConnections ==
  /\ faults < MaxFaults /\ faults' = faults + 1
  /\ max_connections' \in Limits \ {max_connections}
  /\ excused' = TRUE
  /\ UNCHANGED <<connection_list, num_connections, serverVars, clientVars, gets>>

-----------------------------------------------------------------------------

GetStep(c) == TakeConnection(c) \/ WaitConnection(c) \/ OpenConnection(c)

ClientStep(c) ==
  \/ GetStep(c) \/ OpenThrows(c) \/ Ping(c) \/ ReleaseConnection(c)
  \/ DestroyingConnection(c) \/ CloseConnection(c)

Done == gets = MaxGets /\ At("out") = Client /\ UNCHANGED vars

Next ==
  \/ \E c \in Client : Call(c) \/ ClientStep(c) \/ Discard(c)
  \/ \E n \in Conn : Expire(n)
  \/ SetMaxConnections \/ Spurious \/ Done

Spec == Init /\ [][Next]_vars

\* Threads are scheduled, and a client gives back what it has.
Fairness == \A c \in Client : WF_vars(ClientStep(c))

FairSpec == Spec /\ Fairness

-----------------------------------------------------------------------------
(* Properties.                                                              *)

TypeOK ==
  /\ connection_list \in Seq(Conn)
  /\ num_connections \in 0..Cardinality(Conn)
  /\ max_connections \in Limits
  /\ open \subseteq Conn /\ old \subseteq open
  /\ pc \in [Client -> ClientPC]
  /\ ping \subseteq Client
  /\ hold \in [Client -> Conn \cup {None}]
  /\ gets \in 0..MaxGets /\ faults \in 0..MaxFaults /\ excused \in BOOLEAN

Using == At("ping") \cup At("held") \cup At("drop")

\* No connection is in two hands: each one in the list is there once and with
\* no client, and no two clients have the same one.
ExclusiveUse ==
  /\ Cardinality(Range(connection_list)) = Len(connection_list)
  /\ \A c \in Client : hold[c] # None =>
       /\ hold[c] \notin Range(connection_list)
       /\ \A d \in Client \ {c} : hold[d] # hold[c]

\* num_connections counts the connections in the list and in use, so the limit
\* of getConnection() is about real connections: what is open beyond the count
\* is only what a client is just closing.
CountExact ==
  /\ num_connections = Len(connection_list) + Cardinality(Using)
  /\ Cardinality(open) = num_connections + Cardinality(At("closing"))

Available == Len(connection_list)
             + (IF num_connections < max_connections
                THEN max_connections - num_connections ELSE 0)

\* No waiter is forgotten: while a client sleeps, there are as many awake in
\* getConnection() as there are connections to be had.  A client that leaves
\* getConnection() by an exception takes the signal with it, and a changed limit
\* is not signalled: after either, the code makes no such promise.
NoStrandedWaiter ==
  At("asleep") # {} /\ ~excused => Available <= Cardinality(At("get"))

\* Every getConnection() and getConnectionPing() returns with a connection, if
\* those who have one give it back and no open fails.
GetReturns ==
  \A c \in Client : pc[c] = "get" ~> (pc[c] = "held" \/ excused)
=============================================================================
