# Verification of drt

drt is a C++ toolkit: a core library (threads, messages, atomic pointer locks,
memory, containers, encoders), an application library (worker pool, resource
cache), network, SQL, XML and GUI libraries, and programs built on them. This
directory models in TLA+ its concurrent core and the components on which the
others rest (strings, containers, memory, message formats, HTTP), checks the
models with TLC on small instances and proves the most important results with
TLAPS for all sizes.

1. [Inventory](#inventory)
2. [Modules and how they correspond to the code](#modules)
3. [Runs](#runs)
4. [Fairness](#fairness)
5. [Proofs](#proofs)
6. [Disagreements found](#disagreements)
7. [What is not modelled](#not-modelled)
8. [Plan](#plan)

To check: `tlc -config <X>.cfg <MC module>` for a run of `PROJECT.json`, and
`tlapm <X>Proofs.tla` for the proofs.

<a name="inventory"></a>
## 1. Inventory

Paths are below `src/src/`.

| Component | State | Operations | Talks to | What is hard | What makes it correct |
|---|---|---|---|---|---|
| Worker pool: `app/workerpool/` WorkerPoolManager, WorkerPoolThread | lists of free, registered and exited workers; pending work; results; `is_waiting`; `max_workers` | addWork, checkWorkResult, waitWorkResult, setMaxWorkers, destroy; a worker's checkNextWork, runWork, addResult, workerExiting | sends messages to the worker threads | workers time out by themselves while work or the order to stop is sent to them; one condition for several purposes | each work is run and handed back exactly once; lists match the threads; NULL means "all done"; no thread outlives the manager |
| Message queue of a thread: `core/thread/Thread.cxx`, `Thread.msg.hxx`, `core/msg/unix/MsgSync_unix.cxx` | lock-free list `add_msg`, list `cur_msg`, flag `waiting_for_msg`, a pipe, a condition | addMessage; waitAnyMessageTimeout, processMessages, processOneMessage; threadSleep, threadWake | used by the worker pool | lock-free push against the owner's exchange; flag against sleep; two ways to sleep; time-outs | a FIFO that loses nothing; a sleeper is woken |
| Pointer locks: `core/atomic/Lockp.cxx` | the two low bits of a pointer; 256 condition variables for all pointers | lock/unlock, xchg, the inlined variants, conditional variants for pointers not yet shared | references, memory manager | compare-and-swap from stale values; a signal may reach a waiter of another pointer; locking that is switched on while in use | mutual exclusion; no lost exchange; no forgotten waiter |
| Queue of the SQL dump filter: `sql/sqldump_filt/` QueueManager, processExtract | queue of lines, table of results, two counters, count of free workers | putNextWork, waitProcessedData, getNextWork, putProcessedData, destroy | main thread and workers | results arrive out of order; one condition for main and workers with single signals; unsigned arithmetic; a worker may be ended by an exception | output in the order of the input; nobody sleeps past what it waits for; the program ends |
| SQL connection pool: `sql/base/ConnectionPool.cxx`, ConnectionHold | list of idle connections, their number, the limit | getConnection, getConnectionPing, releaseConnection, destroyingConnection, setMaxConnections | database connections | expiry inside the search; a place given back before the connection is closed; failing opens; newcomers overtake waiters | no connection in two hands; exact count; no forgotten waiter |
| Strings and buffers: `core/types/` String, String_c, Blob, StringIndex | StrData with a byte and a wide representation, each a counted buffer; hashes | assign, append, edit, lock/unlock, convert, find, replace, format | everything | a shared String is converted by two threads at once; copy on write; cached hashes; index arithmetic | handles behave as values; counters are exact; equality is equality of texts |
| RPC formats: `net/rpc/` FastRpc and XmlRpc encoders and decoders, RpcHelper | the content written so far; position, open arrays and structs of the reader | write and read of each type, of containers, headers and faults; readSkip | Http, Blob | widths and lengths at their limits; escapes; containers without written length; abbreviated elements of other writers | what is written is read back |
| HTTP: `net/http/` HttpServer, HttpClient, RpcServer::run(), `io/stream/StreamBuffer.cxx` | state of the connection, cache of data read too far, size of what remains of a body | readRequest, readContent, chunks, sendResult; the requests of a client | sockets, RPC | data cut anywhere; requests that follow each other in the cache; clients that stall or vanish | bodies and responses whole and in order; nobody waits for ever |
| Application cache: `app/appcache/` | hash of values, tree of expiry times with lists of entries | addResource, addKeyResource, findResource, expire, clean | Hash, Avl | two structures that refer to each other; expiry by time and by number | finds the last value of what has not expired, and nothing else |
| Hash, Avl: `core/struct/` | chains by hash; linked nodes with balance and direction | create, remove, find, iterate | everywhere | growth that splits chains in place; rotations in a cascade | a set of keys; a balanced search tree |
| Memory manager: `core/mem/` MM_default | free lists per size, for all threads and per thread, with a pointer to their last block | alloc, free, regrow, closing of a thread | pointer locks, threads | two threads that grow one list; the splice of whole lists when a thread ends | a block is in one place and long enough |
| Thread life cycle: `core/thread/` Thread, Thread_impl, Thread_pthread | references to Thread and Thread_impl, attached, join lock | start, end of run(), wait, unref | memory manager, worker pool | two waiters, a thread that ended already, the last reference | joined or detached once; who waits returns |
| References, evaluators, XML, configuration, files, GUI, drivers, ports | none shared between threads, or see section 7 | data conversion, I/O | operating system and libraries | see section 7 | not modelled |

`PROJECT.json` lists all components with their files, and under "hazards" what
can go wrong at which line.

<a name="modules"></a>
## 2. Modules and how they correspond to the code

A region under a mutex, up to its unlock or wait, is one step; every access to
shared state outside a mutex is a step of its own. Payloads (works, messages,
lines, connections, pointer values) are identities. Definitions keep the names
of the C++ members. A definition whose comment begins with "Variant" is a
plausible mistake in the code, used to see that a property notices it; it is
not part of a specification.

### WorkerPool

State: the members of WorkerPoolManager; `inbox` (the message queue of each
worker), `pc` and `cur` (place and message of a worker), `cpc` (place of a
client), and the histories `added` and `delivered` (works given and handed back)
and `limit` (`max_workers` as the last `addWork()` found it, which the members
forget). The worker's `checkNextWork()` is cut where the lock is taken and given up: *check* (first
look at the queue, unlocked), *locked* (message, shutdown, pending work, or
registration as free, in this order), *wait* (timed wait, unlocked), *timedout*
(last look under the lock, or exit). `AddWork` contains the creation of threads
(which joins exited ones) and the dispatch; which free worker gets the work is
the order of a hash table, hence a choice. An exception of `runWork()` ends the
thread silently (`Throwing`): it is then `Dead`, and still in `all_workers`.
`SetMaxWorkers` is unlocked, as in the code. `GivesUp` is the condition under
which `waitWorkResult()` returns NULL, at once or after a sleep.

### Mailbox, ThreadMsg

`Mailbox` is the abstract queue (send, receive; when lossy, removal of what is
behind the oldest message). `ThreadMsg` is the code: senders read the head,
compare-and-swap, test and clear the flag and wake; the owner takes, grabs
`add_msg`, and sleeps on the condition or in `select()`. `method` is not
initialised by the constructor, hence either value. `Grab` follows the loop as
it is written (see section 6). An answer to a serial number sets a bit of
`serial_pend` by a mask of int width, modelled with `IntBit` and `LongBit`;
`processMessages(n)` waits for one. A `mode` says how the owner uses its queue;
in a *paced* one senders wait until their last message has been received.

The worker pool uses the mailbox with at most one message in a queue while it is
open: that follows from `BookkeepingSound` (a worker in `free_workers` has an
empty queue, and only those get messages), and in that mode the mailbox is
reliable and `PacedIsReceived` holds. Missed wake-ups do no harm there because
the wait is limited; the pool model lets a wait time out with a message queued,
which is what the queue can do.

### PointerLock, Lockp

`PointerLock` is a cell with a holder: acquire, release (with or without a new
value), exchange. `Lockp` is the code, one step per atomic instruction, with the
bits of a pointer as a number 0..3 (0 unlocked and private or plain, 1 locked
with waiters, 2 unlocked with locking on, 3 locked). Each operation starts in
any of the functions that inline it (`Entry`), and falls back as the code does.
Reading operations (cmem, cref, crefc) are sections that put back what they
found. Waiters of all pointers of one `Bucket` share a condition.

### QueueManager

State: the members of QueueManager; `pc`, `cur` per worker; `main`, `asleep`,
`lines`, `written` of processExtract(). A line and its output are its number.
`processOneData()` returns, or throws for a malformed line. Arithmetic of the
`unsigned` members is modulo `Word`. `signal()` may reach any sleeper, main()
included.

### ConnectionPool

State: the members of the pool; the age (`old`) and the server's side (`open`)
of the connections; place and connection of each client. `getConnection()` is
one locked step with three outcomes (take, wait, open) and one exception; each
closes the expired connections before the first fresh one and signals once for
each. Dropping a connection gives the place back (`DestroyingConnection`) and
closes it later (`CloseConnection`), as the destructors run.

### TextValues, Strings, TextOps, NumFormat

`TextValues` is the abstract specification: handles with a text each, where an
operation changes one handle. `Strings` is the code: `data` are the StrData
(counter, the two representations, hash), `buf` the buffers of BString, WString
and Blob, `d` what a handle points to. An operation on a String goes by the
representation it finds; `Convert` and `Store` are the two halves of a
conversion, between which another thread may store its own. Counters are one
less than the owners, as in the code. `TextOps` are the edits and searches,
`NumFormat` the parser of a format and the formatting of integers, compared with
`Printf`, a definition by cases of what C prescribes, with the blank of the space
flag (written "sp"). Where the two are known to differ (`Plain`, `SpaceLost`) is in
the comments. Two calls of `String_c` are no steps of `Strings`, because C++ leaves
them undefined: `LockBlob` and `AppendBlob` say which in their guards, section 6
where they are in the code.

### FastRpc, XmlRpc, RpcStream

`FastRpc` and `XmlRpc` hold the two formats: what each `write...()` appends and
what each `read...()` takes. Binary content is a sequence of octets; the base of
an octet is a constant (4 in the run), so that the limits of all eight widths are
near zero. XML is a sequence of tags and texts, texts are sequences of
character codes; escapes, base64 and times are computed. `RpcStream` writes one
message with both encoders at once, item by item, lets a peer abbreviate empty
elements, and reads it with both decoders, where any value may be skipped.
`BinaryFits` is the buffer of `readBinary()`: data that does not fit, where the
code overruns it or fails an assertion, ends the reading like an exception.

### Http

Both directions of a connection are sequences of units: a line, a line end, an
octet of a body. `extendCache()`, `read()` and `readExtendAdd()` take any part of
what has come. The server's steps are those of `readRequest()`,
`readFullContent()` and `updateNextChunk()`, up to the place where each needs
more data; `EndOfData` and `TimedOut` are the exceptions at any such place.
`Handle` is the body of the loop of `RpcServer::run()`. The client writes what
HttpClient writes, or what other clients write (keep-alive, pipelining, headers
after chunks), and may vanish. The server keeps the headers of a request for the
next one, as the code does; `Inherits` tells which orders of requests that spoils,
and `MCNet` holds some of them beside those that work. `MCNet` runs this and `RpcStream` side by side in
one instance; they share no state.

### Avl, HashTable, ApplicationCache

`Avl` and `HashTable` are the containers as operators over a record: creation
with rebalancing, removal, search, growth, iteration. `ApplicationCache` uses
both as the code does, beside `model`, the map the cache should be; the two
containers are also driven alone (`user`), with more keys than the cache needs.
In one respect `model` follows the code and not its documentation: a key that is
added again keeps its time. `MCApplicationCache` remembers the time that was given
(`told`) and shows the difference. `MCCore` runs these modules and
MemoryManager side by side in one instance; they share no state.

### MemoryManager

A block is a chunk (a result of `malloc()`) and an offset; sizes, the cut of a
chunk and the list for its rest are computed as in the code. A list under its
pointer lock is one step, by the result about `Lockp`. Lists of threads have the
pointer to their last block, which is meaningless while the list is empty. A
Thread is itself a block that the last reference frees; `Finish`, `CloseNext`
and `End` are `finish_func()`, `WaitLock`, `WaitJoin` and `WaitUnlock` are
`wait()`.

<a name="runs"></a>
## 3. Runs

| Run | Instance | Shows |
|---|---|---|
| `pool` | 3 works (one throws), 3 workers, 2 clients of which one collects, limit 1 or 2 | WorkExactlyOnce, BookkeepingSound, PendingIsServed, NoWorkerOutlivesManager, NullOnlyWhenDone, WorkCompletes, WaitReturns, DestroyReturns |
| `msg` | 2 senders, 1 message, 2 serial numbers, 1 socket notification, three modes of use | SleeperWakeable, ImplementsMailbox, NullMissesNothing, AnswerIsForMe, PacedIsReceived |
| `msg_lost`, `msg_stuck` | 2 messages; 1 message | violations, section 6 |
| `lockp` | 4 threads in two pairs, 2 pointers in one bucket, one of them with conditional locking, private or published | LockedIffHeld, SleeperRemembered, ImplementsPointerLock, OperationReturns |
| `queue` | 2 workers, 19 lines, three sets of malformed lines, three sets of options | OutputInOrder, NoIdleBacklog, MainWakeable, ProgramEnds |
| `queue_lost` | 2 workers, 3 lines | violation, section 6 |
| `conn_pool` | 3 clients, 5 connection identities, limit 1 or 2, 2 opened at the start, 4 calls, 1 fault | ExclusiveUse, CountExact, NoStrandedWaiter, GetReturns |
| `text` | six programs of one or two handles, texts of up to 3 characters | RefsExact, EqExact, ImplementsValues; SearchLaws over all texts of up to 3 letters, FormatExact over all sets of flags |
| `net` | 20 kinds of connections with bodies of up to 3 octets; messages of up to 8 items, 3 of them at the top, data of up to 21 octets | ReadsBack, ExchangeExact, AllEnd, Answered |
| `core` | 12 keys of the tree, 8 of the table, 3 of the cache at 3 times with `max_items` 1; four programs with one or two started threads and up to 3 blocks | TreeExact, TableExact, CacheExact, BlocksExact, ThreadsReleased, WaitEnds |
| `cache_kept` | 2 keys, 3 times | violation, section 6 |

Why these bounds are enough for the interesting cases:

- Pool: three works for two threads make one work wait in `pending_work`, and
  three identities let an exited thread stay unjoined while a new one starts.
- Messages: a message and answers by two senders make a failed compare-and-swap
  and a list of more than one message; the notification makes the owner post to
  itself, and the socket makes it switch between condition and `select()`. With
  `IntBit` 2 the second serial number is the sign bit of an int, whose mask
  covers the rest of the long; from there on (serial 31 in the code) an answer
  may be taken for another one, and AnswerIsForMe makes no claim.
- Locks: two threads on each of two pointers give a holder and a sleeper of each,
  so that a signal can reach the wrong pair.
- Filter: the options are those of the command line, 1 worker with 2 pending
  lines and n workers with 8n. 19 lines overload the buffers of 2 workers (16
  pending lines). Malformed lines 1, or 3 and 5, lose the first worker, or two.
- Connections: with limit 1 and two opened by the constructor the pool starts
  above its limit; three clients give two waiters for one signal.
- Strings: two handles share every kind of thing that can be shared, and a
  longer text outgrows the buffer it started in. `VIEW Shape` leaves out which
  identity a buffer has; no action looks at it.
- RPC: with base 4 the scalars lie on both sides of the limit of every width and
  of the one-octet length of a text; data has every length modulo 3, and 20 and 21
  octets are the last that surely fit `readBinary()` and the first that do not; 8
  items nest three containers.
- HTTP: bodies contain line ends; every write may arrive in any number of parts,
  joined with parts of the next. Of the connections with several requests four have
  them in orders that work, one takes a request for a body, two wait for one.
- Containers: with 12 keys there are AVL trees in which a removal rotates twice on
  its way up (the leanest of height 5); 8 keys make the table grow twice, five of
  them in two chains. Cache: with 3 keys and room for one, `expire()` removes two
  by their number, at one time or at two.
- Memory: the sizes belong to lists of different chunk sizes and leave rests; a
  thread's own list becomes empty and full again before it ends, and two threads
  wait for one that is ending.

What the names say is in the comment over each property. Some need a word.
`pool` has one collector: with two callers in `waitWorkResult()` the first to
wake clears `is_waiting` for both, and the second may sleep past a result; and
its liveness is claimed until a work has thrown. PendingIsServed counts: pending
work has a living thread unless thrown works have ended as many threads as the
last `addWork()` was allowed to have. `NoStrandedWaiter` and
`GetReturns` hold until an open has failed or the limit was changed (`excused`):
a client that leaves by an exception takes the signal with it, and
`setMaxConnections()` does not signal. `ReadsBack` makes the exceptions that
stand over its two parts in `RpcStream`, among them what `Unreadable` names;
Answered and ExchangeExact except requests that inherit a header (`Inherits`) and
what follows them, ImplementsValues the two undefined calls, FormatExact what
`Plain` and `SpaceLost` leave out; `EqExact` is about ASCII texts, because
conversion turns other characters into question marks.

<a name="fairness"></a>
## 4. Fairness

Liveness is checked under weak fairness of each thread's steps: the operating
system runs every thread that can run, mutexes are granted, and user code
(`runWork()`, `processOneData()`, `run()` of a thread, what a client does with a
locked pointer or a connection) ends. A limited wait ends by itself, so its
time-out is among the fair steps of the owner. In `net` the server's steps, with
its time limit, and the client's reads are fair; nothing is assumed of what a
client sends or when it leaves. Nothing else is assumed of what the outside
decides: calls are made or not (except that the owner of a message queue keeps
calling), no socket becomes ready, no wait returns spuriously, no connection
expires, no fault has to happen. No strong fairness is used.

<a name="proofs"></a>
## 5. Proofs

Seven modules prove, for every value of the constants that satisfies the `ASSUME`
of the component, that an inductive invariant holds, and from it the properties
the runs check. What is assumed is what the programs guarantee: finite sets of
threads, positive limits, a NULL that is none of the values, a word larger than
the counts it holds; of the message queue, that an owner which is sent one
message at a time does not also wait for sockets; of threads, that the main one
is not started by another and that references are held by threads; of Strings,
that there are places enough, that '?' is ASCII, and that the hash of an empty text
(0 in the code) is not the one `StrData::null` is built with. `SeqLemmas`
holds the facts about sequences (range and injectivity of appending, pushing,
taking and joining, the smallest of a set of numbers).

**WorkerPoolProofs** (`PoolInvariant`; TypeOK, WorkExactlyOnce,
BookkeepingSound, PendingIsServed, NoWorkerOutlivesManager, NullOnlyWhenDone).
The properties are not inductive by themselves. `Supporting` adds: the pool is
open exactly while `max_workers >= 0`; a worker holds a work exactly while it
runs it; before `destroy()` no NULL message exists; a worker that has settled
down with an empty queue is listed as free. The last makes the exit after a
time-out safe: between its two looks at the queue the worker is still in
`free_workers`, so whoever sends to it does so under the lock it takes for the
second look. For PendingIsServed, `Attended` says that while work is pending no
registered worker waits without a message, and `Staffed` that as many are
registered as `limit`, or enough are free for all that is pending, so that none
can exit before it is taken. NullOnlyWhenDone
is about the condition of the return (`GivesUp`), so that a NULL which changes
nothing is covered too.

**LockpProofs** (`LockInvariant`; TypeOK, LockedIffHeld, SleeperRemembered,
LockingSticks, and `LockpImplementsPointerLock`). `Knows` says what a thread
knows of the value it read at each place, `SwitchedOn` that a conditional
operation that got past state 0 never meets it again, `Private` that a pointer
in state 0 belongs to one thread. SleeperRemembered is the delicate part: a
signal may reach a waiter of another pointer of the bucket. It is not lost
because a waiter that gets up takes *its* pointer in state 1 (locked with
waiters) or marks it so, whichever it finds, and whoever unlocks such a pointer
passes a signal on. For the refinement every step is shown to be an Acquire, a
Release, an Exchange or to leave the cell alone.

**QueueManagerProofs** (`QueueInvariant`; TypeOK, OutputInOrder,
ResultsAccounted, FreeCountExact, NoIdleBacklog, MainWakeable,
PopOnlyWhenOverloaded, and `EveryLineMovesOn`). `Numbered` ties an id to its line, `Placed` says where
each id is, `Phases` when nobody sleeps, `Balanced` that free workers never
outnumber the buffered lines by more than the line about to be read: main() pops
at most one line for each it puts. `Balanced` is why the unsigned difference of
`putNextWork()` (line 167) never wraps. NoIdleBacklog holds although a signal may
reach main(): main() does not sleep while it is in `putNextWork()`, and a worker
that takes a line signals again. `EveryLineMovesOn` is about steps: a line is not
read, waiting, with a worker, stored or written, and a step of anybody leaves
every line where it is or moves it to the next of these stages. No line is
dropped, skipped or given out twice; that lines are still unwritten when the
program ends (section 6) is the one way to lose them.

**ThreadMsgProofs** (`Invariance`; TypeOK, SleeperWakeable, NullMissesNothing,
AnswerIsForMe, and `QueueImplementsMailbox`). SleeperWakeable needs `Places`: the
owner sleeps in `select()` only while it has sockets, and the way of sleeping it
announced is the one a sender reads. `HeldMessages` and `QueuedSent` say that a
sender that has yet to push holds a message of its own and that only pushed
messages are queued; `OneAtATime` that a paced queue holds one message;
`BusyAwake` that a call which began with a message at the head never sleeps and
keeps it at the head, which is why NULL is honest. `BitsExact` ties the bits of
`serial_pend` below the sign bit of an int to the answers received. For the
refinement every step on the lock-free list is a Send, a Receive, a DropYounger
(the loop of section 6) or leaves the mailbox alone.

**ConnectionPoolProofs** (`Invariance`; TypeOK, ExclusiveUse, CountExact,
NoStrandedWaiter, and the action properties `NothingInUseIsClosed` and
`LimitKept`). `ListInjective` and `HeldAlone` say that a connection is
idle once or in one client's hands, `AllOpen` that what is in the pool or in use
has an open server side. CountExact is by the cardinality of these three sets;
NoStrandedWaiter needs it, because a place given back is counted before its
connection is closed. For the same reason `LimitKept` bounds what is open at the
server after a step that opens a connection by `max_connections` and those that
are just being closed, and not by the limit alone. `NothingInUseIsClosed`: a step closes
a connection only if nobody but the client that drops it has it in hand; one
closed out of the list had expired, and afterwards nothing in the pool refers to it.

**MemoryManagerProofs**. `ThreadInvariance` (life cycle): `RefsCounted` and
`ReleasedOnce` count who refers to a Thread and to its Thread_impl, `Joiners` who may
hold the join lock, `MainsHeld` and `OldsHeld` say that the block of a Thread, and the
old block during a regrow(), stay in use; `EveryThreadReleased` follows.
`BlockInvariance` (lists): every block is in exactly one *spot*, which is one of
the lists of all threads or of one thread, the blocks in use, or the rest of a
chunk that a thread is about to enter in a list (`ContentExact`); the pointer to
the last block of a thread's list is its end while the list is not empty, and
only living threads have lists (`ListsSound`); each block is long enough for its
list or its user (`ListedFit`, `HeldFit`, `CutFit`), and the blocks cut from a chunk lie
apart within it (`ChunksFit`). Every operation takes a block from one spot,
puts it into another, moves it, adds a fresh chunk, or joins two spots (the
splice at the end of a thread): one lemma each (`TakeStep`, `PutStep`,
`DropStep`, `GrownStep`, `CloseNextBlocks`). `BlocksAreExact` follows.

**StringsProofs** (`StringInvariance`; RefsExact, EqExact, `TextsAreIsolated`,
`StringsImplementValues`, SearchLaws, and formatting). `Counted` is RefsExact
over both heaps, and also says that what is free has no owner. It carries the
rest: a buffer is written in place only by a blob that is its sole owner, so
`TextsSound` (two representations of a StrData are the same text but for what one
of them cannot hold, and a cached hash is the hash of one of them) survives every
write through a BString that was once shared with a String; and the buffer of a
conversion that is not stored yet (`PendsSound`) stays allocated and keeps its
text while other threads edit, convert or drop the StrData. `GiveUp` is the step all
assignments begin with: a StrData that loses its last owner takes its buffers
with it, but none that anyone else counts. `Room` shows that there is always a free
place, because everything allocated has an owner and a StrData owns two buffers
at most. EqExact needs in addition that conversions of ASCII texts lose
nothing (`AsciiText`), so that `beq()` may compare hashes and representations
computed at different times. `TextsAreIsolated` is copy on write as an action
property: no step changes the text of a handle but the one it is about, and the steps
that compute a hash or a representation change none.

`StringsImplementValues` is the refinement: every step of `Strings` is a step of
`TextValues` or leaves all texts alone. It needs, besides the invariant, `TextInv`:
every representation, every blob and every conversion not yet stored holds a text
of its kind, no longer than the program allows. Then every edit of a representation is
shown to commute with the conversion that made it, so that the text a handle
*shows* changes as the abstract operation says, whichever of the two
representations the code happened to edit. It assumes `AsciiPrograms`: what a
program writes or searches as bytes is ASCII, what it writes as wide characters
may be anything a conversion does not have to invent. That is needed and not a convenience: a byte above
127 shows as '?', so that `replace()` of a needle with a '?' would find it in the
shown text and not in the bytes. All programs of the run satisfy it.

`SearchesAgree` are the laws of SearchLaws for texts of any characters and of any
length; `SearchLawsHold` takes them to the programs, for letters other than "c",
the character the laws put in. `replace()` is a loop; `Rounds` is its list of
intermediate states, and what holds after each round is proved by the smallest
round that would break it, because the provers have no induction. For
`Replace(Replace(s, t, c), c, t) = s` the two loops are followed in lockstep
(`Undone`): after the same number of rounds the second one has restored the text up to
the place the first one had come to.

`IntegersAsPrintf` and `NaturalsAsPrintf` compare `FormatInt` and `FormatUint` of
`NumFormat` with `Printf`, for every number, set of flags, width and precision that
`Plain` admits, the first but for numbers that lack the blank of the space flag
(`SpaceLost`). What they assume of the digits of a number (a text; not
empty, and only that of zero begins with a zero) the run checks: powers are beyond the
provers.

TypeOK of the components, LockingSticks, ResultsAccounted, FreeCountExact,
PopOnlyWhenOverloaded, TextsAreIsolated and the action properties of the filter queue and
of the connection pool are parts or consequences of the invariants; they are proved and no run
repeats them.

Only model-checked, and why:

- liveness (WorkCompletes, WaitReturns, DestroyReturns, PacedIsReceived,
  OperationReturns, ProgramEnds, GetReturns, WaitEnds, AllEnd, Answered): the prover has no
  fairness and no ENABLED;
- ReadsBack, TreeExact, TableExact, CacheExact: what recursive definitions compute,
  which needs induction over data. SearchLaws escaped it, because the rounds of `replace()` are
  counted by numbers and a smallest counterexample can be named;
- FormatExact as a whole: the half about a specification and how it is read folds over its characters,
  and the digits of a number need powers. The other half is proved;
- ExchangeExact of Http: it holds of the byte streams well-formed clients write, which
  are concatenations of any number of requests and chunks; to say what the parsers
  do with them for every such stream needs induction over it.

<a name="disagreements"></a>
## 6. Disagreements found

- `msg_lost`: the loop that should reverse the list of added messages
  (`Thread.cxx` 260, 293, 335) never advances its variable `o`; of several
  messages found at once all but the oldest are dropped.
- `msg_stuck`: `msg_setWaiting()` looks at the list first and sets the flag
  after; a message pushed in between wakes nobody, and an owner that waits
  without a limit sleeps on.
- `queue_lost`: `waitProcessedData()` returns Null, documented as "no more
  data", when all lines *taken* by a worker were returned; lines still queued
  are not counted, and the program ends without writing them.
- `cache_kept`: `addResource()` of a key that is in the cache stores the value and
  leaves the entry where it is in the tree of times, while its parameter `expires`
  is documented as "the time the resource expires".

Weaknesses met while modelling that no document denies; the models follow the
code, and properties make the exception where it matters:

- Pool, filter, connections: an exception of `runWork()` makes
  `waitWorkResult()` and `destroy()` wait for ever; one of `processOneData()`
  makes main() wait for ever; a failed open may strand a waiter.
- Threads: `Thread::sleep()` ignores its argument; from serial 31 on
  `processMessages()` may take the answer to another serial for its own; `startUnref()` drops a
  reference that the thread drops too (nothing calls it); the constructor used
  for a foreign thread reads `main` while it is NULL.
- Memory: a failed `malloc()` of a large block goes unnoticed, because an offset
  is added before the test (`MM_default.cxx` 110).
- Strings: `append()` in place and `unlock()` with the old size keep the hash of
  a buffer; `x.append(x)` of a sole owner without room copies from the buffer that
  `reallocSelf()` has freed (`String_c.t.hxx` 404-406 and 134-143); `lock()` of a
  shared buffer with room below its size allocates for the room and copies the
  whole text (296-300); the space flag of a format is ignored; `bcmp()` compares the length of one side only; `String_c::rfind()`
  misses a match at the end; `%hhd` is not understood.
- XML-RPC: `readInt64()` misreads negative numbers; `readSkip()` of an array
  looks for a struct; method names and the text of a fault are not escaped; an
  element `<struct/>` is not understood; `readBinary()` reserves two thirds of the
  text for data that takes three quarters (`XmlRpcDecoder.cxx` 683), too little for
  21 octets, for 24, and from 27 on. FastRPC: times beyond 32 bits of
  seconds are cut.
- HTTP: `req_headers` are kept from one request of a connection to the next, so
  that a GET after a POST, or a sized request after a chunked one, is given a body
  it does not have; the
  header "connection" is looked for under another name and ignored; an exception
  between `lock()` and `unlock()` in `extendCache()` leaves the cache locked.
- Containers: `Avl_c::ncreate_g()` returns what is, after rebalancing, at the place
  of the new node, which after a double rotation is another node or NULL
  (`Avl.cxx` 187); `Avl_c::runOne_g()` tests the parent where it means the right
  child; `Hash_c::moveFrom_g()` leaves a mask of 0 without a table.
- Cache: look-ups do not take the lock; `addKeyResource()` stores its entry without
  the `key_id` it is given (line 402), so that `findKeyResource()` with that
  `key_id` does not find it and `findResource()` does; if the tree cannot be extended, the removal of the entry writes
  through a pointer that was not yet set.

<a name="not-modelled"></a>
## 7. What is not modelled

- Of the modelled components: SYNCED messages (no code sets the flag);
  `creset(false)` and the address arithmetic of `cref`/`crefc`; rule files and
  the evaluation of lines in the filter; the destruction of the connection pool;
  `%*`, `%f`, `%s`, dumps of strings; version 1 of the binary RPC format,
  `readVariant()`, truncated contents; `readContent()` by pieces, `processEasy()`;
  look-ups in the cache during a change (undefined behaviour), `findKeyResource()`;
  the node that `ncreate_g()` returns, `moveFrom_g()`,
  `replaceFrom_g()`, `run_g()`; logs, traces and the other debug options of the
  memory manager, MM_native; threads drt did not start, thread specific values.
- References and shared pointers: counters and inlined wrappers. SharedLockp,
  the one shared pointer that works over pointer locks, is disabled code. The
  counters that matter are in Strings and MemoryManager.
- Expression evaluators, configuration, binary readers and writers, character
  conversion, dates: sequential functions of data.
- System calls and wrapped libraries (files, GUI, XML, SQL drivers, dynamic
  loading), exceptions as a language mechanism, the Windows and Symbian ports,
  generated code, generators and tests. Together with headers these are most of
  the lines of the repository.
- Weak memory: atomic operations are full barriers in the code and sequentially
  consistent in the models; `max_workers` and `waiting_for_msg`, read or
  written without a lock, are single words and modelled as such.

<a name="plan"></a>
## 8. Plan

Done, in this order: WorkerPool with proofs; Mailbox and ThreadMsg; PointerLock
and Lockp with proofs; QueueManager with proofs; ConnectionPool; Strings; RPC
and HTTP; Hash, Avl and ApplicationCache; MemoryManager with the life cycle of
threads; the proofs of ThreadMsg, ConnectionPool, MemoryManager and Strings; the
refinement of Strings, searching and formatting for all texts and numbers, and the
action properties of the connection pool and of the filter queue. Next:

1. Proofs: the half of ExchangeExact that is about responses, by the cuts between
   them.
2. The expression evaluators as algorithms against a reference, and with them
   `processOneData()` of the filter.
3. Hash and Avl: `replaceFrom_g()` and `moveFrom_g()`.
