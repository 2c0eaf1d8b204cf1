----------------------------- MODULE ThreadMsg -----------------------------
(***************************************************************************)
(* The message queue of a Thread and its unix synchroniser.                *)
(*                                                                         *)
(* Senders push onto the lock-free list add_msg (newest first) and wake    *)
(* the owner when it announced in waiting_for_msg that it sleeps.  The     *)
(* owner takes messages from cur_msg, refills it from add_msg, and else    *)
(* sleeps in MsgSync_unix::threadSleep(): on a condition variable, or in   *)
(* select() on its registered sockets and a wake-up pipe.                  *)
(*                                                                         *)
(* Every access to add_msg and waiting_for_msg outside sync_mutex is a     *)
(* step of its own.  sync_mutex is held by the owner at "check" and "set"; *)
(* threadWake() holds it for a single step.                                *)
(*                                                                         *)
(* A message may be the answer to a serial number the owner created; the   *)
(* owner records it as a bit and does not hand it out.  Which calls the    *)
(* owner makes, whether it has sockets and whether the senders are paced   *)
(* is chosen once, in mode.                                                *)
(***************************************************************************)
EXTENDS Naturals, Sequences, SequencesExt

CONSTANTS
  Msg,         \* messages of the senders, each sent once
  Notif,       \* messages the owner posts to itself for a ready socket
  Senders,     \* threads that call addMessage()
  Modes,       \* how the queue is used, see mode
  Serials,     \* the serial numbers the owner may create: 0 .. Serials - 1
  LongBit, IntBit,  \* bits of a long and of an int
  NoMsg        \* the NULL pointer

ASSUME MsgAssumption ==
  /\ Msg \cap Notif = {}
  /\ NoMsg \notin Msg \cup Notif \cup Nat
  /\ (Msg \cup Notif) \cap Nat = {}
  /\ Modes \subseteq [paced : BOOLEAN, sockets : BOOLEAN, serials : 0..Serials,
                     ops : SUBSET {"forever", "timed", "answer"}]
  /\ \A m \in Modes : m.paced => ~m.sockets    \* the worker pool has no sockets
  /\ Serials \in Nat /\ LongBit \in Nat /\ IntBit \in 1..LongBit
  /\ Serials <= LongBit          \* bound: one word of serial_pend

VARIABLES
  mode,       \* .paced: senders wait until the last message was received
              \* .sockets: sockets may be registered, .ops: the owner's calls,
              \* .serials: how many serials it creates
  add_msg, cur_msg, waiting_for_msg,
  method,     \* how the owner sleeps: 0 condition variable, 1 select()
  pipe,       \* the wake-up pipe is readable
  sockets,    \* a socket is registered with the synchroniser
  rpc, rop,   \* where the owner is, and which kind of call it is in
  rset,       \* what select() reported: pipe readable, socket ready
  busy,       \* the oldest queued message, when the owner's call began, is no answer
  serial_level, serial_pend,  \* serials created; the bits that are set
  want,       \* processMessages(): wait_answer
  spc, smsg, sn,  \* senders: place, message, the list head they read
  sent, received  \* history: messages pushed, messages the owner got

serialVars == <<serial_level, serial_pend, want, mode>>
ownerVars  == <<rpc, rop, rset, busy, serialVars>>
senderVars == <<spc, smsg, sn>>
vars == <<add_msg, cur_msg, waiting_for_msg, method, pipe, sockets,
          ownerVars, senderVars, sent, received>>

-----------------------------------------------------------------------------

\* The answer to a serial is that number.
Answer == 0..(Serials - 1)

Idle == [pipe |-> FALSE, sock |-> FALSE]

Init ==
  /\ add_msg = <<>> /\ cur_msg = <<>>
  /\ waiting_for_msg = FALSE
  /\ method \in {0, 1}          \* not initialised by the constructor
  /\ pipe = FALSE
  /\ sockets = FALSE
  /\ mode \in Modes
  /\ rpc = "idle" /\ rop \in mode.ops
  /\ serial_level = 0 /\ want = 0
  /\ serial_pend \in {{}, 0..(LongBit - 1)}    \* regrow() leaves it uninitialised
  /\ rset = Idle
  /\ busy = FALSE
  /\ spc = [s \in Senders |-> "idle"]
  /\ smsg = [s \in Senders |-> NoMsg]
  /\ sn = [s \in Senders |-> NoMsg]
  /\ sent = {} /\ received = <<>>

\* The pointer stored in the list head.
HeadPtr(l) == IF l = <<>> THEN NoMsg ELSE l[1]

Queued == Range(cur_msg) \cup Range(add_msg)

-----------------------------------------------------------------------------
(* Thread::addMessage_lr(), run by a sender.                                *)

InFlight == {s \in Senders : spc[s] # "idle"}

\* addMessage(), or addAnswer() for a serial that was created; a caller that
\* is paced sends when nothing is under way.
StartSend(s, m) ==
  /\ spc[s] = "idle"
  /\ m \notin sent
  /\ m \in Answer => m < serial_level
  /\ \A t \in Senders : smsg[t] # m
  /\ mode.paced => InFlight = {} /\ Queued = {}
  /\ spc' = [spc EXCEPT ![s] = "read"]
  /\ smsg' = [smsg EXCEPT ![s] = m]
  /\ UNCHANGED <<add_msg, cur_msg, waiting_for_msg, method, pipe, sockets,
                 ownerVars, sn, sent, received>>

ReadHead(s) ==
  /\ spc[s] = "read"
  /\ sn' = [sn EXCEPT ![s] = HeadPtr(add_msg)]
  /\ spc' = [spc EXCEPT ![s] = "cas"]
  /\ UNCHANGED <<add_msg, cur_msg, waiting_for_msg, method, pipe, sockets,
                 ownerVars, smsg, sent, received>>

Cas(s) ==
  /\ spc[s] = "cas"
  /\ IF HeadPtr(add_msg) = sn[s]
     THEN /\ add_msg' = <<smsg[s]>> \o add_msg
          /\ sent' = sent \cup {smsg[s]}
          /\ spc' = [spc EXCEPT ![s] = "flag"]
     ELSE /\ spc' = [spc EXCEPT ![s] = "read"]
          /\ UNCHANGED <<add_msg, sent>>
  /\ sn' = [sn EXCEPT ![s] = NoMsg]
  /\ UNCHANGED <<cur_msg, waiting_for_msg, method, pipe, sockets,
                 ownerVars, smsg, received>>

\* if (waiting_for_msg): the test, the store and threadWake() are three steps.
TestWaiting(s) ==
  /\ spc[s] = "flag"
  /\ spc' = [spc EXCEPT ![s] = IF waiting_for_msg THEN "clear" ELSE "idle"]
  /\ smsg' = [smsg EXCEPT ![s] = NoMsg]
  /\ UNCHANGED <<add_msg, cur_msg, waiting_for_msg, method, pipe, sockets,
                 ownerVars, sn, sent, received>>

ClearWaiting(s) ==
  /\ spc[s] = "clear"
  /\ waiting_for_msg' = FALSE
  /\ spc' = [spc EXCEPT ![s] = "wake"]
  /\ UNCHANGED <<add_msg, cur_msg, method, pipe, sockets, ownerVars, smsg, sn,
                 sent, received>>

MutexFree == rpc \notin {"check", "set"}

\* MsgSync_unix::threadWake(), under sync_mutex.  A signalled owner leaves the
\* condition wait; a byte in the pipe makes select() return.
ThreadWake(s) ==
  /\ spc[s] = "wake"
  /\ MutexFree
  /\ waiting_for_msg' = FALSE
  /\ IF method = 0
     THEN /\ rpc' = IF rpc = "condwait" THEN "loop" ELSE rpc
          /\ UNCHANGED pipe
     ELSE pipe' = TRUE /\ UNCHANGED rpc
  /\ spc' = [spc EXCEPT ![s] = "idle"]
  /\ UNCHANGED <<add_msg, cur_msg, method, sockets, rop, rset, busy, serialVars,
                 smsg, sn, sent, received>>

SenderStep(s) ==
  ReadHead(s) \/ Cas(s) \/ TestWaiting(s) \/ ClearWaiting(s) \/ ThreadWake(s)

-----------------------------------------------------------------------------
(* The owner: waitAnyMessageTimeout() with a limit ("timed"),               *)
(* processOneMessage() ("forever"), or processMessages(want) ("answer").    *)

\* registerSocket() and unregisterSocket(), between two calls.
RegisterSocket ==
  /\ rpc = "idle" /\ ~sockets /\ mode.sockets
  /\ sockets' = TRUE
  /\ UNCHANGED <<add_msg, cur_msg, waiting_for_msg, method, pipe, ownerVars,
                 senderVars, sent, received>>

UnregisterSocket ==
  /\ rpc = "idle" /\ sockets
  /\ sockets' = FALSE
  /\ UNCHANGED <<add_msg, cur_msg, waiting_for_msg, method, pipe, ownerVars,
                 senderVars, sent, received>>

Call(op) ==
  /\ rpc = "idle" /\ op # "answer"
  /\ rpc' = "loop"
  /\ rop' = op
  /\ busy' = (Queued # {} /\ Last(add_msg \o Reverse(cur_msg)) \notin Answer)
  /\ UNCHANGED <<add_msg, cur_msg, waiting_for_msg, method, pipe, sockets,
                 rset, serialVars, senderVars, sent, received>>

\* createMessageSerial() clears the bit of the new serial with a long mask ...
CreateSerial ==
  /\ rpc = "idle" /\ serial_level < mode.serials
  /\ serial_level' = serial_level + 1
  /\ serial_pend' = serial_pend \ {serial_level}
  /\ UNCHANGED <<add_msg, cur_msg, waiting_for_msg, method, pipe, sockets, rpc,
                 rop, rset, busy, want, mode, senderVars, sent, received>>

\* ... but answers are recorded and tested with the mask 1 << serial, an int:
\* the shift count wraps, and the top bit of an int is extended into the long.
Mask(n) == IF n % IntBit = IntBit - 1 THEN (IntBit - 1)..(LongBit - 1) ELSE {n % IntBit}

CallProcess(n) ==
  /\ rpc = "idle" /\ "answer" \in mode.ops
  /\ n < serial_level
  /\ rpc' = "loop"
  /\ rop' = "answer" /\ want' = n
  /\ UNCHANGED <<add_msg, cur_msg, waiting_for_msg, method, pipe, sockets, rset,
                 busy, serial_level, serial_pend, mode, senderVars, sent, received>>

\* Variant: any recorded answer is taken for the one waited for.
AnyAnswered == rop = "answer" /\ serial_pend # {}

\* The test at the top of processMessages()' loop.
Answered == rop = "answer" /\ serial_pend \cap Mask(want) # {}

ReturnAnswered ==
  /\ rpc = "loop" /\ Answered
  /\ rpc' = "idle"
  /\ UNCHANGED <<add_msg, cur_msg, waiting_for_msg, method, pipe, sockets, rop,
                 rset, busy, serialVars, senderVars, sent, received>>

\* An answer is recorded and only ends processOneMessage(); another message is
\* handed out, or evaluated by processMessages(), which goes on.
TakeCur ==
  /\ rpc = "loop" /\ ~Answered /\ cur_msg # <<>>
  /\ cur_msg' = Tail(cur_msg)
  /\ received' = Append(received, Head(cur_msg))
  /\ LET ans == Head(cur_msg) \in Answer
         returns == rop = "forever" \/ (rop = "timed" /\ ~ans)
     IN /\ serial_pend' = IF ans THEN serial_pend \cup Mask(Head(cur_msg)) ELSE serial_pend
        /\ rpc' = IF returns THEN "idle" ELSE "loop"
        /\ busy' = (busy /\ ~returns)
  /\ UNCHANGED <<add_msg, waiting_for_msg, method, pipe, sockets, rop, rset,
                 serial_level, want, mode, senderVars, sent>>

\* Variant: the newest message is kept instead of the oldest.
GrabNewest ==
  /\ rpc = "loop" /\ ~Answered /\ cur_msg = <<>> /\ add_msg # <<>>
  /\ cur_msg' = <<add_msg[1]>>
  /\ add_msg' = <<>>
  /\ UNCHANGED <<waiting_for_msg, method, pipe, sockets, ownerVars,
                 senderVars, sent, received>>

\* Variant: the walk stops one message early and forgets the oldest.
GrabForgetsOldest ==
  /\ rpc = "loop" /\ ~Answered /\ cur_msg = <<>> /\ add_msg # <<>>
  /\ cur_msg' = IF Len(add_msg) = 1 THEN <<>> ELSE <<add_msg[Len(add_msg) - 1]>>
  /\ add_msg' = <<>>
  /\ UNCHANGED <<waiting_for_msg, method, pipe, sockets, ownerVars,
                 senderVars, sent, received>>

\* The list is exchanged with NULL and walked to its end.  The loop that should
\* reverse it never advances "o": every next pointer becomes NULL, so cur_msg
\* ends as the oldest message alone and the younger ones are dropped.
Grab ==
  /\ rpc = "loop" /\ ~Answered /\ cur_msg = <<>> /\ add_msg # <<>>
  /\ cur_msg' = <<Last(add_msg)>>
  /\ add_msg' = <<>>
  /\ UNCHANGED <<waiting_for_msg, method, pipe, sockets, ownerVars,
                 senderVars, sent, received>>

\* Both lists are empty: threadSleep().
EnterSleep ==
  /\ rpc = "loop" /\ ~Answered /\ cur_msg = <<>> /\ add_msg = <<>>
  /\ rpc' = IF sockets THEN "precheck" ELSE "lock"
  /\ UNCHANGED <<add_msg, cur_msg, waiting_for_msg, method, pipe, sockets,
                 rop, rset, busy, serialVars, senderVars, sent, received>>

\* addMessage_lr() on the owner's own queue: the push, then the flag, which may
\* be left over from an earlier wait that timed out.
Post(n, next) ==
  /\ n \in Notif \ sent
  /\ add_msg' = <<n>> \o add_msg
  /\ sent' = sent \cup {n}
  /\ waiting_for_msg' = FALSE
  /\ pipe' = (pipe \/ (waiting_for_msg /\ method = 1))
  /\ rpc' = next
  /\ UNCHANGED <<cur_msg, method, sockets, rop, rset, busy, serialVars, senderVars,
                 received>>

Precheck ==
  /\ rpc = "precheck"
  /\ \/ \E n \in Notif : Post(n, "lock")
     \/ /\ rpc' = "lock"
        /\ UNCHANGED <<add_msg, cur_msg, waiting_for_msg, method, pipe, sockets,
                       rop, rset, busy, serialVars, senderVars, sent, received>>

Lock ==
  /\ rpc = "lock"
  /\ method' = IF sockets THEN 1 ELSE 0
  /\ rpc' = "check"
  /\ UNCHANGED <<add_msg, cur_msg, waiting_for_msg, pipe, sockets, rop, rset,
                 busy, serialVars, senderVars, sent, received>>

\* msg_setWaiting(): the list is looked at first and the flag set after.
CheckAdded ==
  /\ rpc = "check"
  /\ rpc' = IF add_msg = <<>> THEN "set" ELSE "loop"
  /\ UNCHANGED <<add_msg, cur_msg, waiting_for_msg, method, pipe, sockets,
                 rop, rset, busy, serialVars, senderVars, sent, received>>

\* Variant: the flag is not set.
SetNothing ==
  /\ rpc = "set"
  /\ rpc' = IF method = 0 THEN "condwait" ELSE "select"
  /\ UNCHANGED <<add_msg, cur_msg, waiting_for_msg, method, pipe, sockets, rop,
                 rset, busy, serialVars, senderVars, sent, received>>

\* The flag, then the wait that gives up the mutex.
SetWaiting ==
  /\ rpc = "set"
  /\ waiting_for_msg' = TRUE
  /\ rpc' = IF method = 0 THEN "condwait" ELSE "select"
  /\ UNCHANGED <<add_msg, cur_msg, method, pipe, sockets, rop, rset, busy, serialVars,
                 senderVars, sent, received>>

\* pthread_cond_timedwait() times out; the flag stays set.
ReturnNull ==
  /\ rpc' = "idle"
  /\ busy' = FALSE

CondTimeout ==
  /\ rpc = "condwait" /\ rop = "timed"
  /\ ReturnNull
  /\ UNCHANGED <<add_msg, cur_msg, waiting_for_msg, method, pipe, sockets, rop,
                 rset, serialVars, senderVars, sent, received>>

CondSpurious ==
  /\ rpc = "condwait"
  /\ rpc' = "loop"
  /\ UNCHANGED <<add_msg, cur_msg, waiting_for_msg, method, pipe, sockets, rop,
                 rset, busy, serialVars, senderVars, sent, received>>

\* select() returns because the pipe is readable ...
SelectReturns(sock) ==
  /\ rpc = "select"
  /\ rset' = [pipe |-> pipe, sock |-> sock]
  /\ rpc' = "unset"
  /\ UNCHANGED <<add_msg, cur_msg, waiting_for_msg, method, pipe, sockets, rop,
                 busy, serialVars, senderVars, sent, received>>

SelectPipe == pipe /\ SelectReturns(FALSE)

\* ... or because a socket is ready, or (interrupted within a limited wait)
\* with its sets as they were passed in, which counts as ready.
SelectSocket == SelectReturns(TRUE)

SelectTimeout ==
  /\ rpc = "select" /\ rop = "timed"
  /\ rset' = Idle
  /\ rpc' = "unset"
  /\ UNCHANGED <<add_msg, cur_msg, waiting_for_msg, method, pipe, sockets, rop,
                 busy, serialVars, senderVars, sent, received>>

UnsetWaiting ==
  /\ rpc = "unset"
  /\ waiting_for_msg' = FALSE
  /\ rpc' = "drain"
  /\ UNCHANGED <<add_msg, cur_msg, method, pipe, sockets, rop, rset, busy, serialVars,
                 senderVars, sent, received>>

Drain ==
  /\ rpc = "drain"
  /\ pipe' = (pipe /\ ~rset.pipe)
  /\ rpc' = "notify"
  /\ UNCHANGED <<add_msg, cur_msg, waiting_for_msg, method, sockets, rop, rset,
                 busy, serialVars, senderVars, sent, received>>

\* A message for a ready socket, then back to the loop; NULL after a time-out.
Notify ==
  /\ rpc = "notify"
  /\ \/ rset.sock /\ \E n \in Notif : Post(n, "loop")
     \/ /\ rset.sock => Notif \subseteq sent       \* bound: Notif used up
        /\ rpc' = IF rset = Idle THEN "idle" ELSE "loop"
        /\ busy' = (busy /\ rset # Idle)
        /\ UNCHANGED <<add_msg, cur_msg, waiting_for_msg, method, pipe, sockets,
                       rop, rset, serialVars, senderVars, sent, received>>

\* The owner's steps inside a call, apart from those the outside decides.
OwnerStep ==
  \/ ReturnAnswered \/ TakeCur \/ Grab \/ EnterSleep
  \/ Precheck \/ Lock \/ CheckAdded \/ SetWaiting
  \/ CondTimeout
  \/ SelectPipe \/ SelectTimeout
  \/ UnsetWaiting \/ Drain \/ Notify

Next ==
  \/ \E s \in Senders : (\E m \in Msg \cup Answer : StartSend(s, m)) \/ SenderStep(s)
  \/ RegisterSocket \/ UnregisterSocket
  \/ \E op \in mode.ops : Call(op)
  \/ CreateSerial \/ \E n \in Answer : CallProcess(n)
  \/ OwnerStep
  \/ CondSpurious \/ SelectSocket

\* The owner keeps calling and threads that can run do run; nothing makes
\* sockets ready, waits return spuriously or senders send.
Fairness ==
  /\ \A s \in Senders : WF_vars(SenderStep(s))
  /\ WF_vars(\E op \in mode.ops : Call(op))
  /\ WF_vars(OwnerStep)

Spec == Init /\ [][Next]_vars
LiveSpec == Spec /\ Fairness

-----------------------------------------------------------------------------
(* Properties.                                                              *)

AllMsg == Msg \cup Notif \cup Answer

\* Every variable holds a value of its C++ type; the owner and the senders are
\* at a known place, and cur_msg never holds more than one message.
TypeOK ==
  /\ add_msg \in Seq(AllMsg)
  /\ cur_msg \in Seq(AllMsg) /\ Len(cur_msg) <= 1
  /\ waiting_for_msg \in BOOLEAN
  /\ method \in {0, 1}
  /\ pipe \in BOOLEAN
  /\ sockets \in BOOLEAN
  /\ rpc \in {"idle", "loop", "precheck", "lock", "check", "set", "condwait",
              "select", "unset", "drain", "notify"}
  /\ mode \in Modes /\ rop \in {"forever", "timed", "answer"}
  /\ serial_level \in 0..Serials /\ serial_pend \subseteq 0..(LongBit - 1)
  /\ want \in Nat
  /\ rset \in [pipe : BOOLEAN, sock : BOOLEAN]
  /\ busy \in BOOLEAN
  /\ spc \in [Senders -> {"idle", "read", "cas", "flag", "clear", "wake"}]
  /\ smsg \in [Senders -> AllMsg \cup {NoMsg}]
  /\ sn \in [Senders -> AllMsg \cup {NoMsg}]
  /\ sent \in SUBSET AllMsg
  /\ received \in Seq(AllMsg)

\* The queue as a mailbox: what the owner holds, then what was added since, the
\* oldest first.
QueueView == cur_msg \o Reverse(add_msg)

Box == INSTANCE Mailbox
         WITH Msg <- AllMsg, lossy <- ~mode.paced, queue <- QueueView

\* Whatever the senders do, the owner receives what was sent in the order in
\* which it was sent, nothing twice and nothing that was not sent; the only
\* deviation from a FIFO is that younger messages found together with an older
\* one are dropped.  If no message is sent while another one is queued (the
\* discipline of the worker pool), Thread's queue is a reliable FIFO.
ImplementsMailbox == Box!Spec

\* A sleeping owner can be woken: as long as it sleeps, the flag is set for the
\* next sender to see, a sender is on its way to wake it, or the pipe is already
\* readable.  A time-out, a late wake-up from an earlier sleep or a change
\* between condition variable and select() never leaves it deaf.
SleeperWakeable ==
  rpc \in {"condwait", "select"} =>
    \/ waiting_for_msg
    \/ \E s \in Senders : spc[s] = "wake"
    \/ rpc = "select" /\ pipe

\* A limited wait returns NULL only if nothing, or an answer, was first in the
\* queue when it was called: the worker pool's waitAnyMessageTimeout(0) under
\* the manager's lock relies on it.
NullMissesNothing ==
  [][(rpc # "idle" /\ rop = "timed" /\ rpc' = "idle" /\ received' = received)
       => ~busy]_vars

\* processMessages(n) returns only when the answer to n has arrived, although
\* answers to other serials come while it waits, messages are evaluated in
\* between, the bits share a word that starts uninitialised, and they are
\* cleared and set with masks of different width.  That goes well below the sign
\* bit of an int, and as long as no more serials than an int has bits are created.
AnswerIsForMe ==
  [][(rpc = "loop" /\ rop = "answer" /\ rpc' = "idle"
        /\ want < IntBit - 1 /\ serial_level <= IntBit)
       => want \in Range(received)]_vars

\* No message is lost: one that was added is in the added messages, in the
\* currently processed queue, or was received.
NoMessageLost == sent = Queued \cup Range(received)

\* Every message that is sent is received, as long as the owner keeps calling.
SentIsReceived ==
  \A m \in Msg : (m \in sent) ~> (m \in Range(received))

\* Used as the worker pool uses the queue (one message at a time, limited
\* waits), every message is received although wake-ups can be missed.
PacedIsReceived ==
  \A m \in Msg \cup Answer :
    (m \in sent /\ mode.paced /\ mode.ops = {"timed"}) ~> (m \in Range(received))
=============================================================================
