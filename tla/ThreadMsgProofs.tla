-------------------------- MODULE ThreadMsgProofs --------------------------
(***************************************************************************)
(* Proofs about ThreadMsg, for any number of senders, messages, socket     *)
(* notifications and serial numbers and for any ways of using the queue.   *)
(***************************************************************************)
EXTENDS ThreadMsg, SeqLemmas, SequenceTheorems, TLAPS

-----------------------------------------------------------------------------
(* Sequences: the list of added messages is the queue the other way round.  *)

\* A reversed list.
LEMMA ReverseProps ==
  ASSUME NEW S, NEW s \in Seq(S)
  PROVE  /\ Reverse(s) \in Seq(S) /\ Len(Reverse(s)) = Len(s)
         /\ \A i \in 1..Len(s) : Reverse(s)[i] = s[(Len(s) - i) + 1]
<1>1. \A i \in 1..Len(s) : (Len(s) - i) + 1 \in 1..Len(s) /\ s[(Len(s) - i) + 1] \in S
  OBVIOUS
<1> QED
  BY <1>1 DEF Reverse

\* What is pushed onto the list comes at the end of the queue.
LEMMA ReversePush ==
  ASSUME NEW S, NEW s \in Seq(S), NEW e \in S
  PROVE  Reverse(<<e>> \o s) = Append(Reverse(s), e)
<1> DEFINE t == <<e>> \o s  r == Reverse(s)
<1>1. /\ t \in Seq(S) /\ Len(t) = Len(s) + 1 /\ t[1] = e /\ Len(s) \in Nat
      /\ \A i \in 1..Len(s) : t[i + 1] = s[i]
  BY PushFront
<1>2. /\ r \in Seq(S) /\ Len(r) = Len(s)
      /\ \A i \in 1..Len(s) : r[i] = s[(Len(s) - i) + 1]
  BY ReverseProps
<1> HIDE DEF t, r
<1>3. /\ Reverse(t) \in Seq(S) /\ Len(Reverse(t)) = Len(s) + 1
      /\ \A i \in 1..(Len(s) + 1) : Reverse(t)[i] = t[((Len(s) + 1) - i) + 1]
  BY ReverseProps, <1>1
<1>4. /\ Append(r, e) \in Seq(S) /\ Len(Append(r, e)) = Len(s) + 1
      /\ \A i \in 1..Len(s) : Append(r, e)[i] = r[i]
      /\ Append(r, e)[Len(s) + 1] = e
  BY <1>2
<1>5. ASSUME NEW i \in 1..(Len(s) + 1) PROVE Reverse(t)[i] = Append(r, e)[i]
  <2>1. CASE i = Len(s) + 1
    BY <2>1, <1>1, <1>3, <1>4
  <2>2. CASE i # Len(s) + 1
    <3>1. i \in 1..Len(s) /\ (Len(s) - i) + 1 \in 1..Len(s)
          /\ ((Len(s) + 1) - i) + 1 = ((Len(s) - i) + 1) + 1
      BY <2>2, <1>1
    <3> QED
      BY <3>1, <1>1, <1>2, <1>3, <1>4
  <2> QED
    BY <2>1, <2>2
<1>6. Reverse(t) = Append(r, e)
  <2> DEFINE u == Reverse(t)  v == Append(r, e)
  <2>1. u \in Seq(S) /\ v \in Seq(S) /\ Len(u) = Len(v) /\ Len(u) = Len(s) + 1
    BY <1>1, <1>3, <1>4
  <2>2. \A i \in 1..Len(u) : u[i] = v[i]
    BY <1>5, <2>1
  <2> HIDE DEF u, v
  <2>3. u = v
    BY <2>1, <2>2, SeqEqual
  <2> QED
    BY <2>3 DEF u, v
<1> QED
  BY <1>6 DEF t, r

\* The oldest of the added messages is the last of the list.
LEMMA ReverseHead ==
  ASSUME NEW S, NEW s \in Seq(S), s # <<>>
  PROVE  /\ Last(s) \in S /\ Last(s) \in Range(s)
         /\ Reverse(s) # <<>> /\ Head(Reverse(s)) = Last(s)
<1>1. Len(s) \in Nat \ {0} /\ DOMAIN s = 1..Len(s)
  OBVIOUS
<1>2. /\ Reverse(s) \in Seq(S) /\ Len(Reverse(s)) = Len(s)
      /\ Reverse(s)[1] = s[(Len(s) - 1) + 1]
  BY ReverseProps, <1>1
<1>3. Reverse(s) # <<>> /\ Head(Reverse(s)) = Reverse(s)[1]
  BY <1>1, <1>2
<1> QED
  BY <1>1, <1>2, <1>3 DEF Last, Range

\* Taking the first of two queues that follow each other.
LEMMA ConcatTail ==
  ASSUME NEW S, NEW s \in Seq(S), NEW t \in Seq(S), s # <<>>
  PROVE  /\ s \o t # <<>> /\ Head(s \o t) = Head(s)
         /\ Tail(s \o t) = Tail(s) \o t
<1> DEFINE c == s \o t
<1>1. /\ Len(s) \in Nat \ {0} /\ Len(t) \in Nat
      /\ c \in Seq(S) /\ Len(c) = Len(s) + Len(t)
      /\ \A i \in 1..Len(s) : c[i] = s[i]
      /\ \A i \in 1..Len(t) : c[Len(s) + i] = t[i]
  OBVIOUS
<1>2. /\ Tail(s) \in Seq(S) /\ Len(Tail(s)) = Len(s) - 1
      /\ \A i \in 1..(Len(s) - 1) : Tail(s)[i] = s[i + 1]
  BY <1>1
<1>3. /\ c # <<>> /\ Head(c) = c[1] /\ Head(s) = s[1]
      /\ Tail(c) \in Seq(S) /\ Len(Tail(c)) = (Len(s) + Len(t)) - 1
      /\ \A i \in 1..((Len(s) + Len(t)) - 1) : Tail(c)[i] = c[i + 1]
  BY <1>1
<1> DEFINE d == Tail(s) \o t
<1>4. /\ d \in Seq(S) /\ Len(d) = (Len(s) - 1) + Len(t)
      /\ \A i \in 1..(Len(s) - 1) : d[i] = Tail(s)[i]
      /\ \A i \in 1..Len(t) : d[(Len(s) - 1) + i] = t[i]
  BY <1>1, <1>2
<1>5. ASSUME NEW i \in 1..((Len(s) + Len(t)) - 1) PROVE Tail(c)[i] = d[i]
  <2>1. CASE i <= Len(s) - 1
    BY <2>1, <1>1, <1>2, <1>3, <1>4
  <2>2. CASE i > Len(s) - 1
    <3>1. /\ (i - (Len(s) - 1)) \in 1..Len(t)
          /\ (Len(s) - 1) + (i - (Len(s) - 1)) = i
          /\ Len(s) + (i - (Len(s) - 1)) = i + 1
      BY <2>2, <1>1
    <3> QED
      BY <3>1, <1>1, <1>3, <1>4
  <2> QED
    BY <1>1, <2>1, <2>2
<1>6. Tail(c) = d
  BY <1>1, <1>3, <1>4, <1>5
<1> QED
  BY <1>1, <1>3, <1>6

\* Appending to the second of two queues that follow each other.
LEMMA ConcatAppend ==
  ASSUME NEW S, NEW s \in Seq(S), NEW t \in Seq(S), NEW e \in S
  PROVE  s \o Append(t, e) = Append(s \o t, e)
<1> DEFINE c == s \o Append(t, e)  d == Append(s \o t, e)
<1>1. /\ Len(s) \in Nat /\ Len(t) \in Nat
      /\ Append(t, e) \in Seq(S) /\ Len(Append(t, e)) = Len(t) + 1
      /\ s \o t \in Seq(S) /\ Len(s \o t) = Len(s) + Len(t)
  OBVIOUS
<1>2. c \in Seq(S) /\ Len(c) = Len(s) + Len(t) + 1
  BY <1>1
<1>3. d \in Seq(S) /\ Len(d) = Len(s) + Len(t) + 1
  BY <1>1
<1>4. ASSUME NEW i \in 1..(Len(s) + Len(t) + 1) PROVE c[i] = d[i]
  <2>1. CASE i <= Len(s)
    BY <2>1, <1>1
  <2>2. CASE i > Len(s) /\ i <= Len(s) + Len(t)
    BY <2>2, <1>1
  <2>3. CASE i = Len(s) + Len(t) + 1
    BY <2>3, <1>1
  <2> QED
    BY <1>1, <2>1, <2>2, <2>3
<1> QED
  BY <1>2, <1>3, <1>4

-----------------------------------------------------------------------------
(* Who changes what.                                                        *)

SenderSide == \E s \in Senders : (\E m \in Msg \cup Answer : StartSend(s, m)) \/ SenderStep(s)

\* A step of the owner that neither takes messages nor posts one to itself.
OwnerQuiet ==
  \/ RegisterSocket \/ UnregisterSocket
  \/ \E op \in mode.ops : Call(op)
  \/ CreateSerial \/ \E n \in Answer : CallProcess(n)
  \/ ReturnAnswered \/ EnterSleep
  \/ /\ rpc = "precheck" /\ rpc' = "lock"
     /\ UNCHANGED <<add_msg, cur_msg, waiting_for_msg, method, pipe, sockets,
                    rop, rset, busy, serialVars, senderVars, sent, received>>
  \/ Lock \/ CheckAdded \/ SetWaiting \/ CondTimeout \/ CondSpurious
  \/ SelectPipe \/ SelectSocket \/ SelectTimeout
  \/ UnsetWaiting \/ Drain
  \/ /\ rpc = "notify"
     /\ rpc' = IF rset = Idle THEN "idle" ELSE "loop"
     /\ busy' = (busy /\ rset # Idle)
     /\ UNCHANGED <<add_msg, cur_msg, waiting_for_msg, method, pipe, sockets,
                    rop, rset, serialVars, senderVars, sent, received>>

\* A notification the owner posts to itself.
OwnerPost ==
  \E n \in Notif : \/ rpc = "precheck" /\ Post(n, "lock")
                   \/ rpc = "notify" /\ rset.sock /\ Post(n, "loop")

\* Every step is a sender's, or one of the owner's four kinds.
LEMMA NextKinds ==
  ASSUME Next
  PROVE  SenderSide \/ OwnerQuiet \/ OwnerPost \/ TakeCur \/ Grab
<1>1. Precheck => OwnerQuiet \/ OwnerPost
  BY DEF Precheck, OwnerQuiet, OwnerPost
<1>2. Notify => OwnerQuiet \/ OwnerPost
  BY DEF Notify, OwnerQuiet, OwnerPost
<1>3. CASE OwnerStep
  BY <1>1, <1>2, <1>3 DEF OwnerStep, OwnerQuiet
<1> QED
  BY <1>3 DEF Next, SenderSide, OwnerQuiet

\* The owner's quiet steps leave the queue and the senders alone.
LEMMA OwnerQuietFrame ==
  ASSUME OwnerQuiet
  PROVE  UNCHANGED <<add_msg, cur_msg, senderVars, sent, received, mode>>
BY DEF OwnerQuiet, RegisterSocket, UnregisterSocket, Call, CreateSerial, CallProcess,
  ReturnAnswered, EnterSleep, Lock, CheckAdded, SetWaiting, CondTimeout, ReturnNull,
  CondSpurious, SelectPipe, SelectSocket, SelectTimeout, SelectReturns,
  UnsetWaiting, Drain, senderVars, ownerVars, serialVars

-----------------------------------------------------------------------------
(* The inductive invariant.                                                 *)

\* A sender that has yet to push holds a message of its own that nobody pushed.
HeldMessages ==
  /\ \A s \in Senders : spc[s] \in {"read", "cas"} => smsg[s] \in (Msg \cup Answer) \ sent
  /\ \A s, t \in Senders : s # t /\ spc[s] \in {"read", "cas"} => smsg[s] # smsg[t]

\* Only messages that were pushed are queued, only serials that exist answered.
QueuedSent ==
  /\ Queued \subseteq sent
  /\ \A m \in sent \cap Answer : m < serial_level
  /\ \A s \in Senders : smsg[s] \in Answer => smsg[s] < serial_level

\* The owner selects only while it has sockets, and a wake-up finds out how it
\* sleeps.
Places ==
  /\ sockets => mode.sockets
  /\ rpc \in {"precheck", "select", "unset", "drain", "notify"} => sockets
  /\ rpc = "condwait" => ~sockets
  /\ rpc \in {"check", "set", "condwait", "select"} => method = (IF sockets THEN 1 ELSE 0)

\* Paced senders: one at a time, and one message at a time.
OneAtATime ==
  mode.paced =>
    /\ \A s, t \in Senders : spc[s] # "idle" /\ spc[t] # "idle" => s = t
    /\ \A s \in Senders : spc[s] \in {"read", "cas"} => add_msg = <<>> /\ cur_msg = <<>>
    /\ cur_msg = <<>> => Len(add_msg) <= 1
    /\ cur_msg # <<>> => add_msg = <<>>

\* A call that began with a message that is no answer at the head of the queue
\* does not sleep, and that message stays at the head until it is taken.
BusyAwake ==
  busy => /\ rpc = "loop" /\ rop # "answer"
          /\ QueueView # <<>> /\ Head(QueueView) \notin Answer

\* A bit below the sign bit of an int is set only by the answer to its serial,
\* and the serial waited for was created.
BitsExact ==
  /\ rpc # "idle" /\ rop = "answer" => want < serial_level
  /\ serial_level <= IntBit =>
       \A n \in serial_pend : n < serial_level /\ n < IntBit - 1 => n \in Range(received)

IInv == /\ TypeOK /\ HeldMessages /\ QueuedSent /\ Places /\ SleeperWakeable
        /\ OneAtATime /\ BusyAwake /\ BitsExact

-----------------------------------------------------------------------------
(* Types.                                                                   *)

\* What the assumptions on the constants say about messages.
LEMMA Constants ==
  /\ Answer \subseteq Nat /\ \A n \in Answer : n < Serials
  /\ (Msg \cup Answer) \cap Notif = {}
  /\ NoMsg \notin AllMsg
  /\ Msg \cup Answer \subseteq AllMsg /\ Notif \subseteq AllMsg
BY MsgAssumption DEF Answer, AllMsg

\* The head pointer a sender reads.
LEMMA HeadPtrType ==
  ASSUME NEW l \in Seq(AllMsg) PROVE HeadPtr(l) \in AllMsg \cup {NoMsg}
<1>1. CASE l = <<>>
  BY <1>1 DEF HeadPtr
<1>2. CASE l # <<>>
  <2>1. l[1] \in AllMsg
    BY <1>2
  <2> QED
    BY <1>2, <2>1 DEF HeadPtr
<1> QED
  BY <1>1, <1>2

\* The initial values have their types.
LEMMA TypeInit == Init => TypeOK
<1> SUFFICES ASSUME Init PROVE TypeOK
  OBVIOUS
<1>1. mode \in Modes /\ rop \in {"forever", "timed", "answer"}
  BY MsgAssumption DEF Init
<1>2. 0 \in 0..Serials /\ serial_pend \subseteq 0..(LongBit - 1)
  BY MsgAssumption DEF Init
<1>3. /\ add_msg \in Seq(AllMsg) /\ cur_msg \in Seq(AllMsg) /\ Len(cur_msg) <= 1
      /\ received \in Seq(AllMsg)
  BY DEF Init
<1> QED
  BY <1>1, <1>2, <1>3 DEF Init, TypeOK, Idle

\* A sender's step keeps the types.
LEMMA TypeSender ==
  ASSUME TypeOK, HeldMessages, SenderSide PROVE TypeOK'
<1>1. PICK s \in Senders : (\E m \in Msg \cup Answer : StartSend(s, m)) \/ SenderStep(s)
  BY DEF SenderSide
<1>2. CASE \E m \in Msg \cup Answer : StartSend(s, m)
  BY <1>2, Constants DEF StartSend, TypeOK, ownerVars, serialVars
<1>3. CASE ReadHead(s)
  <2>1. HeadPtr(add_msg) \in AllMsg \cup {NoMsg}
    BY HeadPtrType DEF TypeOK
  <2> QED
    BY <1>3, <2>1 DEF ReadHead, TypeOK, ownerVars, serialVars
<1>4. CASE Cas(s)
  <2>1. smsg[s] \in AllMsg
    BY <1>4, Constants DEF Cas, HeldMessages
  <2>2. <<smsg[s]>> \o add_msg \in Seq(AllMsg)
    BY <2>1, PushFront DEF TypeOK
  <2>3. add_msg' \in Seq(AllMsg) /\ sent' \in SUBSET AllMsg
    BY <1>4, <2>1, <2>2 DEF Cas, TypeOK
  <2>4. /\ spc' \in [Senders -> {"idle", "read", "cas", "flag", "clear", "wake"}]
        /\ sn' \in [Senders -> AllMsg \cup {NoMsg}]
    BY <1>4 DEF Cas, TypeOK
  <2>5. UNCHANGED <<cur_msg, waiting_for_msg, method, pipe, sockets, rpc, rop, rset, busy,
                    serial_level, serial_pend, want, mode, smsg, received>>
    BY <1>4 DEF Cas, ownerVars, serialVars
  <2> QED
    BY <2>3, <2>4, <2>5 DEF TypeOK
<1>5. CASE TestWaiting(s)
  BY <1>5 DEF TestWaiting, TypeOK, ownerVars, serialVars
<1>6. CASE ClearWaiting(s)
  BY <1>6 DEF ClearWaiting, TypeOK, ownerVars, serialVars
<1>7. CASE ThreadWake(s)
  BY <1>7 DEF ThreadWake, TypeOK, ownerVars, serialVars
<1> QED
  BY <1>1, <1>2, <1>3, <1>4, <1>5, <1>6, <1>7 DEF SenderStep

\* A quiet step of the owner keeps the types.
LEMMA TypeQuiet ==
  ASSUME TypeOK, OwnerQuiet PROVE TypeOK'
<1> USE DEF TypeOK, senderVars, ownerVars, serialVars, Idle
<1>1. CASE RegisterSocket \/ UnregisterSocket
  BY <1>1 DEF RegisterSocket, UnregisterSocket
<1>2. CASE \E op \in mode.ops : Call(op)
  <2>1. mode.ops \subseteq {"forever", "timed", "answer"}
    BY MsgAssumption
  <2> QED
    BY <1>2, <2>1 DEF Call
<1>3. CASE CreateSerial
  <2>1. mode.serials \in 0..Serials /\ Serials \in Nat
    BY MsgAssumption
  <2> QED
    BY <1>3, <2>1 DEF CreateSerial
<1>4. CASE \E n \in Answer : CallProcess(n)
  BY <1>4, Constants DEF CallProcess
<1>5. CASE ReturnAnswered \/ EnterSleep \/ Lock \/ CheckAdded \/ SetWaiting
  BY <1>5 DEF ReturnAnswered, EnterSleep, Lock, CheckAdded, SetWaiting
<1>6. CASE CondTimeout \/ CondSpurious
  BY <1>6 DEF CondTimeout, CondSpurious, ReturnNull
<1>7. CASE SelectPipe \/ SelectSocket \/ SelectTimeout
  <2>1. rset' \in [pipe : BOOLEAN, sock : BOOLEAN]
    <3>1. \A p, q \in BOOLEAN : [pipe |-> p, sock |-> q] \in [pipe : BOOLEAN, sock : BOOLEAN]
      OBVIOUS
    <3> QED
      BY <1>7, <3>1 DEF SelectPipe, SelectSocket, SelectTimeout, SelectReturns
  <2> QED
    BY <1>7, <2>1 DEF SelectPipe, SelectSocket, SelectTimeout, SelectReturns
<1>8. CASE UnsetWaiting \/ Drain
  BY <1>8 DEF UnsetWaiting, Drain
<1> QED
  BY <1>1, <1>2, <1>3, <1>4, <1>5, <1>6, <1>7, <1>8 DEF OwnerQuiet

\* A queue of at most one message, and taking it.
LEMMA ShortTail ==
  ASSUME NEW S, NEW s \in Seq(S), s # <<>>, Len(s) <= 1
  PROVE  Head(s) \in S /\ Tail(s) = <<>> /\ Range(s) = {Head(s)} /\ s = <<Head(s)>>
<1>1. Len(s) = 1
  <2>1. Len(s) \in Nat /\ Len(s) # 0
    OBVIOUS
  <2> QED
    BY <2>1
<1>2. Head(s) = s[1] /\ s[1] \in S /\ DOMAIN s = {1}
  BY <1>1
<1>3. Tail(s) \in Seq(S) /\ Len(Tail(s)) = 0
  BY <1>1
<1>4. Tail(s) = <<>>
  BY <1>3
<1>5. Range(s) = {Head(s)}
  BY <1>2 DEF Range
<1>6. s = <<Head(s)>>
  <2>1. <<Head(s)>> \in Seq(S) /\ Len(<<Head(s)>>) = 1 /\ <<Head(s)>>[1] = Head(s)
    BY <1>2
  <2>2. \A i \in 1..Len(s) : s[i] = <<Head(s)>>[i]
    BY <1>1, <1>2, <2>1
  <2> QED
    BY <1>1, <2>1, <2>2, SeqEqual
<1> QED
  BY <1>2, <1>4, <1>5, <1>6

\* The bits an answer sets are bits of the word.
LEMMA MaskType ==
  ASSUME NEW n \in Answer PROVE Mask(n) \subseteq 0..(LongBit - 1)
<1>1. n \in Nat /\ IntBit \in 1..LongBit /\ LongBit \in Nat
  BY Constants, MsgAssumption
<1>2. n % IntBit \in 0..(IntBit - 1)
  BY <1>1
<1> QED
  BY <1>1, <1>2 DEF Mask

\* Taking, grabbing and posting keep the types.
LEMMA TypeQueue ==
  ASSUME TypeOK, OwnerPost \/ TakeCur \/ Grab PROVE TypeOK'
<1>1. CASE OwnerPost
  <2>1. PICK n \in Notif : Post(n, "lock") \/ Post(n, "loop")
    BY <1>1 DEF OwnerPost
  <2>2. n \in AllMsg
    BY Constants
  <2>3. <<n>> \o add_msg \in Seq(AllMsg)
    BY <2>2, PushFront DEF TypeOK
  <2>4. add_msg' \in Seq(AllMsg) /\ sent' \in SUBSET AllMsg
    BY <2>1, <2>2, <2>3 DEF Post, TypeOK
  <2> QED
    BY <2>1, <2>4 DEF Post, TypeOK, senderVars, serialVars
<1>2. CASE TakeCur
  <2>1. Head(cur_msg) \in AllMsg /\ Tail(cur_msg) = <<>>
    BY <1>2, ShortTail DEF TakeCur, TypeOK
  <2>2. cur_msg' \in Seq(AllMsg) /\ Len(cur_msg') <= 1 /\ received' \in Seq(AllMsg)
    BY <1>2, <2>1 DEF TakeCur, TypeOK
  <2>3. serial_pend' \subseteq 0..(LongBit - 1)
    BY <1>2, MaskType DEF TakeCur, TypeOK
  <2>4. rpc' \in {"idle", "loop"} /\ busy' \in BOOLEAN
    BY <1>2 DEF TakeCur
  <2> QED
    BY <1>2, <2>2, <2>3, <2>4 DEF TakeCur, TypeOK, senderVars, serialVars
<1>3. CASE Grab
  <2>1. Last(add_msg) \in AllMsg
    BY <1>3, ReverseHead DEF Grab, TypeOK
  <2>2. <<Last(add_msg)>> \in Seq(AllMsg) /\ Len(<<Last(add_msg)>>) = 1 /\ <<>> \in Seq(AllMsg)
    BY <2>1
  <2> QED
    BY <1>3, <2>2 DEF Grab, TypeOK, ownerVars, senderVars, serialVars
<1> QED
  BY <1>1, <1>2, <1>3

-----------------------------------------------------------------------------
(* The queue: a step pushes a message, takes the oldest, drops the younger  *)
(* ones or leaves it alone.                                                 *)

Push(m) ==
  /\ m \in AllMsg \ sent
  /\ add_msg' = <<m>> \o add_msg
  /\ sent' = sent \cup {m}
  /\ UNCHANGED <<cur_msg, received, mode>>

QueueQuiet == UNCHANGED <<add_msg, cur_msg, sent, received, mode>>

\* A sender pushes at most its own message.
LEMMA SenderQueue ==
  ASSUME HeldMessages, SenderSide
  PROVE  QueueQuiet \/ \E s \in Senders : Cas(s) /\ Push(smsg[s])
<1>1. PICK s \in Senders : (\E m \in Msg \cup Answer : StartSend(s, m)) \/ SenderStep(s)
  BY DEF SenderSide
<1>2. CASE \E m \in Msg \cup Answer : StartSend(s, m)
  BY <1>2 DEF StartSend, QueueQuiet, ownerVars, serialVars
<1>3. CASE ReadHead(s) \/ TestWaiting(s) \/ ClearWaiting(s) \/ ThreadWake(s)
  BY <1>3 DEF ReadHead, TestWaiting, ClearWaiting, ThreadWake, QueueQuiet,
    ownerVars, serialVars
<1>4. CASE Cas(s)
  <2>1. smsg[s] \in AllMsg \ sent
    BY <1>4, Constants DEF Cas, HeldMessages
  <2> QED
    BY <1>4, <2>1 DEF Cas, Push, QueueQuiet, ownerVars, serialVars
<1> QED
  BY <1>1, <1>2, <1>3, <1>4 DEF SenderStep

\* A notification is pushed like any message.
LEMMA PostQueue ==
  ASSUME OwnerPost
  PROVE  \E n \in Notif : Push(n)
BY Constants DEF OwnerPost, Post, Push, serialVars

\* What a step does to the queue.
LEMMA QueueKinds ==
  ASSUME HeldMessages, [Next]_vars
  PROVE  \/ QueueQuiet \/ TakeCur \/ Grab
         \/ \E m \in AllMsg : Push(m)
<1>1. CASE Next
  <2>1. CASE OwnerQuiet
    BY <2>1, OwnerQuietFrame DEF QueueQuiet
  <2> QED
    BY <1>1, <2>1, NextKinds, SenderQueue, PostQueue, Constants DEF Push
<1>2. CASE UNCHANGED vars
  BY <1>2 DEF vars, QueueQuiet, ownerVars, serialVars
<1> QED
  BY <1>1, <1>2

\* A push appends to the mailbox.
LEMMA PushView ==
  ASSUME TypeOK, NEW m \in AllMsg, Push(m)
  PROVE  QueueView' = Append(QueueView, m)
<1>1. /\ add_msg \in Seq(AllMsg) /\ cur_msg \in Seq(AllMsg)
      /\ add_msg' = <<m>> \o add_msg /\ cur_msg' = cur_msg
  BY DEF TypeOK, Push
<1>2. Reverse(add_msg') = Append(Reverse(add_msg), m)
  BY <1>1, ReversePush
<1>3. Reverse(add_msg) \in Seq(AllMsg)
  BY <1>1, ReverseProps
<1>4. cur_msg \o Append(Reverse(add_msg), m) = Append(cur_msg \o Reverse(add_msg), m)
  BY <1>1, <1>3, ConcatAppend
<1> QED
  BY <1>1, <1>2, <1>4 DEF QueueView

\* Taking a message takes the first of the mailbox.
LEMMA TakeView ==
  ASSUME TypeOK, TakeCur
  PROVE  /\ QueueView # <<>> /\ Head(QueueView) = Head(cur_msg)
         /\ QueueView' = Tail(QueueView)
<1>1. /\ add_msg \in Seq(AllMsg) /\ cur_msg \in Seq(AllMsg) /\ cur_msg # <<>>
      /\ add_msg' = add_msg /\ cur_msg' = Tail(cur_msg)
  BY DEF TypeOK, TakeCur
<1>2. Reverse(add_msg) \in Seq(AllMsg)
  BY <1>1, ReverseProps
<1> QED
  BY <1>1, <1>2, ConcatTail DEF QueueView

\* The reverse of nothing.
LEMMA ReverseEmpty == Reverse(<<>>) = <<>>
<1>1. <<>> \in Seq({}) /\ Len(<<>>) = 0
  OBVIOUS
<1>2. Reverse(<<>>) \in Seq({}) /\ Len(Reverse(<<>>)) = 0
  BY <1>1, ReverseProps
<1> QED
  BY <1>2

\* Grabbing keeps the first of the mailbox and drops the others.
LEMMA GrabView ==
  ASSUME TypeOK, Grab
  PROVE  /\ QueueView = Reverse(add_msg) /\ QueueView # <<>>
         /\ QueueView' = <<Head(QueueView)>> /\ Head(QueueView) = Last(add_msg)
         /\ Last(add_msg) \in Range(add_msg)
<1>1. /\ add_msg \in Seq(AllMsg) /\ cur_msg = <<>> /\ add_msg # <<>>
      /\ add_msg' = <<>> /\ cur_msg' = <<Last(add_msg)>>
  BY DEF TypeOK, Grab
<1>2. /\ Last(add_msg) \in AllMsg /\ Last(add_msg) \in Range(add_msg)
      /\ Reverse(add_msg) # <<>> /\ Head(Reverse(add_msg)) = Last(add_msg)
  BY <1>1, ReverseHead
<1>3. Reverse(add_msg) \in Seq(AllMsg) /\ cur_msg' \in Seq(AllMsg)
  BY <1>1, <1>2, ReverseProps
<1>4. QueueView = Reverse(add_msg)
  BY <1>1, <1>3, ConcatEmptySeq DEF QueueView
<1>5. QueueView' = cur_msg'
  <2>1. Reverse(add_msg') = <<>>
    BY <1>1, ReverseEmpty
  <2>2. cur_msg' \o <<>> = cur_msg'
    BY <1>3, ConcatEmptySeq
  <2> QED
    BY <2>1, <2>2 DEF QueueView
<1> QED
  BY <1>1, <1>2, <1>4, <1>5

-----------------------------------------------------------------------------
(* Each part of the invariant is kept.                                      *)

\* The senders' messages stay their own.
LEMMA HeldStep ==
  ASSUME IInv, [Next]_vars PROVE HeldMessages'
<1> USE DEF IInv
<1>1. CASE SenderSide
  <2>1. PICK s \in Senders : (\E m \in Msg \cup Answer : StartSend(s, m)) \/ SenderStep(s)
    BY <1>1 DEF SenderSide
  <2>2. CASE \E m \in Msg \cup Answer : StartSend(s, m)
    BY <2>2 DEF StartSend, HeldMessages, TypeOK
  <2>3. CASE ReadHead(s)
    BY <2>3 DEF ReadHead, HeldMessages, TypeOK
  <2>4. CASE Cas(s)
    BY <2>4 DEF Cas, HeldMessages, TypeOK
  <2>5. CASE TestWaiting(s)
    BY <2>5, Constants DEF TestWaiting, HeldMessages, TypeOK
  <2>6. CASE ClearWaiting(s) \/ ThreadWake(s)
    BY <2>6 DEF ClearWaiting, ThreadWake, HeldMessages, TypeOK
  <2> QED
    BY <2>1, <2>2, <2>3, <2>4, <2>5, <2>6 DEF SenderStep
<1>2. CASE UNCHANGED <<spc, smsg, sent>>
  BY <1>2 DEF HeldMessages
<1>3. CASE OwnerPost
  BY <1>3, Constants DEF OwnerPost, Post, HeldMessages, senderVars
<1>4. CASE TakeCur \/ Grab \/ OwnerQuiet \/ UNCHANGED vars
  BY <1>4, <1>2, OwnerQuietFrame DEF TakeCur, Grab, vars, senderVars
<1> QED
  BY <1>1, <1>3, <1>4, NextKinds

\* Serials are only ever added.
LEMMA SerialGrows ==
  ASSUME TypeOK, [Next]_vars
  PROVE  serial_level' >= serial_level
<1>1. serial_level \in Nat
  BY MsgAssumption DEF TypeOK
<1>2. CASE CreateSerial
  BY <1>1, <1>2 DEF CreateSerial
<1>3. serial_level' = serial_level \/ CreateSerial
  <2>1. CASE SenderSide
    BY <2>1 DEF SenderSide, SenderStep, StartSend, ReadHead, Cas, TestWaiting, ClearWaiting,
      ThreadWake, ownerVars, serialVars
  <2>2. CASE OwnerQuiet
    BY <2>2 DEF OwnerQuiet, RegisterSocket, UnregisterSocket, Call, CallProcess,
      ReturnAnswered, EnterSleep, Lock, CheckAdded, SetWaiting, CondTimeout, ReturnNull,
      CondSpurious, SelectPipe, SelectSocket, SelectTimeout, SelectReturns,
      UnsetWaiting, Drain, ownerVars, serialVars
  <2>3. CASE OwnerPost \/ TakeCur \/ Grab \/ UNCHANGED vars
    BY <2>3 DEF OwnerPost, Post, TakeCur, Grab, vars, ownerVars, serialVars
  <2> QED
    BY <2>1, <2>2, <2>3, NextKinds
<1> QED
  BY <1>1, <1>2, <1>3

\* What is queued was sent.
LEMMA QueuedStep ==
  ASSUME IInv, [Next]_vars PROVE (Queued \subseteq sent)'
<1> USE DEF IInv
<1>1. CASE QueueQuiet
  BY <1>1 DEF QueueQuiet, Queued, QueuedSent
<1>2. ASSUME NEW m \in AllMsg, Push(m) PROVE (Queued \subseteq sent)'
  <2>1. Range(<<m>> \o add_msg) = Range(add_msg) \cup {m}
    BY PushFront DEF TypeOK
  <2> QED
    BY <1>2, <2>1 DEF Push, Queued, QueuedSent
<1>3. CASE TakeCur
  <2>1. Tail(cur_msg) = <<>> /\ Range(<<>>) = {}
    BY <1>3, ShortTail DEF TakeCur, TypeOK, Range
  <2> QED
    BY <1>3, <2>1 DEF TakeCur, Queued, QueuedSent
<1>4. CASE Grab
  <2>1. Range(<<Last(add_msg)>>) = {Last(add_msg)} /\ Range(<<>>) = {}
    BY DEF Range
  <2> QED
    BY <1>4, <2>1, GrabView DEF Grab, Queued, QueuedSent
<1> QED
  BY <1>1, <1>2, <1>3, <1>4, QueueKinds

\* Only serials that exist are answered.
LEMMA AnswersStep ==
  ASSUME IInv, [Next]_vars PROVE QueuedSent'
<1> USE DEF IInv
<1>1. serial_level \in Nat /\ serial_level' \in Nat /\ serial_level' >= serial_level
      /\ Answer \subseteq Nat
  <2>1. serial_level' \in Nat
    BY TypeSender, TypeQuiet, TypeQueue, NextKinds, MsgAssumption DEF TypeOK, vars, ownerVars, serialVars
  <2> QED
    BY <2>1, SerialGrows, Constants, MsgAssumption DEF TypeOK
<1>2. \A n \in Answer : n < serial_level => n < serial_level'
  BY <1>1
<1>3. \A m \in sent' \cap Answer : m < serial_level
  <2>1. CASE sent' = sent
    BY <2>1 DEF QueuedSent
  <2>2. CASE OwnerPost
    BY <2>2, Constants DEF OwnerPost, Post, QueuedSent
  <2>3. CASE SenderSide
    <3>1. CASE \E s \in Senders : Push(smsg[s])
      BY <3>1 DEF Push, QueuedSent
    <3> QED
      BY <2>1, <2>3, <3>1, SenderQueue DEF QueueQuiet
  <2>4. CASE OwnerQuiet \/ TakeCur \/ Grab \/ UNCHANGED vars
    BY <2>1, <2>4, OwnerQuietFrame DEF TakeCur, Grab, vars
  <2> QED
    BY <2>2, <2>3, <2>4, NextKinds
<1>4. \A s \in Senders : smsg'[s] \in Answer => smsg'[s] < serial_level
  <2>1. CASE smsg' = smsg
    BY <2>1 DEF QueuedSent
  <2>2. CASE SenderSide
    <3>1. PICK s \in Senders : (\E m \in Msg \cup Answer : StartSend(s, m)) \/ SenderStep(s)
      BY <2>2 DEF SenderSide
    <3>2. CASE \E m \in Msg \cup Answer : StartSend(s, m)
      BY <3>2 DEF StartSend, QueuedSent, TypeOK
    <3>3. CASE TestWaiting(s)
      BY <3>3, Constants DEF TestWaiting, QueuedSent, TypeOK, AllMsg
    <3>4. CASE ReadHead(s) \/ Cas(s) \/ ClearWaiting(s) \/ ThreadWake(s)
      BY <2>1, <3>4 DEF ReadHead, Cas, ClearWaiting, ThreadWake
    <3> QED
      BY <3>1, <3>2, <3>3, <3>4 DEF SenderStep
  <2>3. CASE OwnerPost \/ OwnerQuiet \/ TakeCur \/ Grab \/ UNCHANGED vars
    BY <2>1, <2>3, OwnerQuietFrame DEF OwnerPost, Post, TakeCur, Grab, vars, senderVars
  <2> QED
    BY <2>2, <2>3, NextKinds
<1> QED
  BY <1>2, <1>3, <1>4, QueuedStep DEF QueuedSent

\* The owner keeps to the way of sleeping it announced.
LEMMA PlacesStep ==
  ASSUME IInv, [Next]_vars PROVE Places'
<1> USE DEF IInv, Places, serialVars, ownerVars, senderVars
<1>1. CASE SenderSide
  BY <1>1 DEF SenderSide, SenderStep, StartSend, ReadHead, Cas, TestWaiting, ClearWaiting,
    ThreadWake, MutexFree
<1>2. CASE OwnerQuiet
  <2>1. CASE RegisterSocket \/ UnregisterSocket \/ (\E op \in mode.ops : Call(op))
             \/ CreateSerial \/ (\E n \in Answer : CallProcess(n))
    BY <2>1 DEF RegisterSocket, UnregisterSocket, Call, CreateSerial, CallProcess
  <2>2. CASE ReturnAnswered \/ EnterSleep \/ Lock \/ CheckAdded \/ SetWaiting
    BY <2>2 DEF ReturnAnswered, EnterSleep, Lock, CheckAdded, SetWaiting, TypeOK
  <2>3. CASE CondTimeout \/ CondSpurious \/ SelectPipe \/ SelectSocket \/ SelectTimeout
             \/ UnsetWaiting \/ Drain
    BY <2>3 DEF CondTimeout, ReturnNull, CondSpurious, SelectPipe, SelectSocket,
      SelectTimeout, SelectReturns, UnsetWaiting, Drain
  <2> QED
    BY <1>2, <2>1, <2>2, <2>3 DEF OwnerQuiet
<1>3. CASE OwnerPost
  BY <1>3 DEF OwnerPost, Post
<1>4. CASE TakeCur \/ Grab
  BY <1>4 DEF TakeCur, Grab
<1>5. CASE UNCHANGED vars
  BY <1>5 DEF vars
<1> QED
  BY <1>1, <1>2, <1>3, <1>4, <1>5, NextKinds

\* A sleeping owner stays wakeable.
LEMMA SleeperStep ==
  ASSUME IInv, [Next]_vars PROVE SleeperWakeable'
<1> USE DEF IInv, SleeperWakeable, serialVars, ownerVars, senderVars
<1>1. CASE SenderSide
  <2>1. PICK s \in Senders : (\E m \in Msg \cup Answer : StartSend(s, m)) \/ SenderStep(s)
    BY <1>1 DEF SenderSide
  <2>2. CASE (\E m \in Msg \cup Answer : StartSend(s, m)) \/ ReadHead(s) \/ Cas(s) \/ TestWaiting(s)
    <3>1. UNCHANGED <<rpc, waiting_for_msg, pipe>>
      BY <2>2 DEF StartSend, ReadHead, Cas, TestWaiting
    <3>2. spc[s] # "wake" /\ \A t \in Senders \ {s} : spc'[t] = spc[t]
      BY <2>2 DEF StartSend, ReadHead, Cas, TestWaiting, TypeOK
    <3> QED
      BY <3>1, <3>2
  <2>3. CASE ClearWaiting(s)
    BY <2>3 DEF ClearWaiting, TypeOK
  <2>4. CASE ThreadWake(s)
    <3>1. CASE method = 0
      <4>1. rpc # "select"
        BY <3>1 DEF Places
      <4> QED
        BY <2>4, <3>1, <4>1 DEF ThreadWake
    <3>2. CASE method # 0
      <4>1. rpc # "condwait" /\ pipe' /\ rpc' = rpc
        BY <2>4, <3>2 DEF ThreadWake, Places, SleeperWakeable, TypeOK
      <4> QED
        BY <4>1
    <3> QED
      BY <3>1, <3>2
  <2> QED
    BY <2>1, <2>2, <2>3, <2>4 DEF SenderStep
<1>2. CASE SetWaiting
  BY <1>2 DEF SetWaiting
<1>3. CASE UNCHANGED <<rpc, waiting_for_msg, pipe, spc>>
  BY <1>3
<1>4. CASE OwnerQuiet
  <2>1. CASE rpc' \notin {"condwait", "select"}
    BY <2>1
  <2> QED
    BY <1>2, <1>3, <1>4, <2>1 DEF OwnerQuiet, RegisterSocket, UnregisterSocket, Call,
      CreateSerial, CallProcess, ReturnAnswered, EnterSleep, Lock, CheckAdded, CondTimeout,
      ReturnNull, CondSpurious, SelectPipe, SelectSocket, SelectTimeout, SelectReturns,
      UnsetWaiting, Drain
<1>5. CASE OwnerPost \/ TakeCur \/ Grab
  <2>1. rpc' \notin {"condwait", "select"}
    BY <1>5 DEF OwnerPost, Post, TakeCur, Grab
  <2> QED
    BY <2>1
<1> QED
  BY <1>1, <1>3, <1>4, <1>5, NextKinds DEF vars

\* Paced senders never have two messages under way.
LEMMA PacedStep ==
  ASSUME IInv, [Next]_vars PROVE OneAtATime'
<1> USE DEF IInv
<1> SUFFICES ASSUME mode.paced, mode' = mode PROVE OneAtATime'
  <2>1. mode' = mode
    <3>1. CASE TakeCur \/ Grab
      BY <3>1 DEF TakeCur, Grab, ownerVars, serialVars
    <3> QED
      BY <3>1, QueueKinds DEF QueueQuiet, Push
  <2> QED
    BY <2>1 DEF OneAtATime
<1>1. CASE SenderSide
  <2>1. PICK s \in Senders : (\E m \in Msg \cup Answer : StartSend(s, m)) \/ SenderStep(s)
    BY <1>1 DEF SenderSide
  <2>2. CASE \E m \in Msg \cup Answer : StartSend(s, m)
    <3>1. InFlight = {} /\ Queued = {} /\ UNCHANGED <<add_msg, cur_msg>>
      BY <2>2 DEF StartSend
    <3>2. add_msg = <<>> /\ cur_msg = <<>>
      <4>1. \A l \in Seq(AllMsg) : Range(l) = {} => l = <<>>
        <5> SUFFICES ASSUME NEW l \in Seq(AllMsg), l # <<>> PROVE Range(l) # {}
          OBVIOUS
        <5> QED
          BY ReverseHead
      <4> QED
        BY <3>1, <4>1 DEF Queued, TypeOK
    <3>3. \A t \in Senders : spc'[t] # "idle" => t = s
      BY <2>2, <3>1 DEF StartSend, InFlight, TypeOK
    <3> QED
      BY <3>1, <3>2, <3>3 DEF OneAtATime
  <2>3. CASE ReadHead(s)
    BY <2>3 DEF ReadHead, OneAtATime, TypeOK
  <2>4. CASE Cas(s)
    <3>1. add_msg = <<>> /\ cur_msg = <<>>
      BY <2>4 DEF Cas, OneAtATime
    <3>2. cur_msg' = <<>> /\ Len(add_msg') <= 1 /\ (add_msg' = <<>> \/ spc'[s] = "flag")
      <4>1. smsg[s] \in AllMsg /\ Len(<<>>) = 0
        BY <2>4, Constants DEF Cas, HeldMessages
      <4>2. Len(<<smsg[s]>> \o add_msg) = Len(add_msg) + 1
        BY <4>1, PushFront DEF TypeOK
      <4>3. CASE HeadPtr(add_msg) = sn[s]
        <5>1. add_msg' = <<smsg[s]>> \o add_msg /\ cur_msg' = cur_msg
          BY <2>4, <4>3 DEF Cas
        <5>2. Len(add_msg') = 1
          <6>1. Len(add_msg) = 0
            BY <3>1
          <6> QED
            BY <4>2, <5>1, <6>1
        <5>3. spc'[s] = "flag"
          BY <2>4, <4>3 DEF Cas, TypeOK
        <5> QED
          BY <3>1, <5>1, <5>2, <5>3
      <4>4. CASE HeadPtr(add_msg) # sn[s]
        BY <2>4, <3>1, <4>1, <4>4 DEF Cas
      <4> QED
        BY <4>3, <4>4
    <3>3. \A t \in Senders : spc'[t] # "idle" => t = s
      BY <2>4 DEF Cas, OneAtATime, TypeOK
    <3> QED
      BY <3>2, <3>3 DEF OneAtATime
  <2>5. CASE TestWaiting(s)
    BY <2>5 DEF TestWaiting, OneAtATime, TypeOK
  <2>6. CASE ClearWaiting(s) \/ ThreadWake(s)
    BY <2>6 DEF ClearWaiting, ThreadWake, OneAtATime, TypeOK
  <2> QED
    BY <2>1, <2>2, <2>3, <2>4, <2>5, <2>6 DEF SenderStep
<1>2. CASE UNCHANGED <<add_msg, cur_msg, spc>>
  BY <1>2 DEF OneAtATime
<1>3. CASE OwnerPost
  <2>1. mode \in Modes /\ mode.sockets
    BY <1>3 DEF OwnerPost, Places, TypeOK
  <2> QED
    BY <2>1, MsgAssumption
<1>4. CASE TakeCur
  <2>1. Tail(cur_msg) = <<>> /\ Len(<<>>) = 0
    BY <1>4, ShortTail DEF TakeCur, TypeOK
  <2> QED
    BY <1>4, <2>1 DEF TakeCur, OneAtATime, senderVars
<1>5. CASE Grab
  <2>1. Len(<<>>) = 0
    OBVIOUS
  <2> QED
    BY <1>5, <2>1 DEF Grab, OneAtATime, senderVars
<1> QED
  BY <1>1, <1>2, <1>3, <1>4, <1>5, NextKinds, OwnerQuietFrame DEF vars, senderVars

\* The last of two lists of which the second has one element.
LEMMA LastConcat ==
  ASSUME NEW S, NEW s \in Seq(S), NEW t \in Seq(S), Len(t) = 1
  PROVE  Last(s \o t) = t[1]
<1> DEFINE n == Len(s)  c == s \o t
<1>0. n \in Nat
  OBVIOUS
<1>1. /\ Len(c) = n + Len(t)
      /\ \A i \in 1..(n + Len(t)) : c[i] = IF i <= n THEN s[i] ELSE t[i - n]
  BY ConcatProperties, Zenon
<1> HIDE DEF n, c
<1>2. n + Len(t) = n + 1 /\ n + 1 \in 1..(n + Len(t)) /\ ~(n + 1 <= n) /\ (n + 1) - n = 1
  BY <1>0
<1>3. c[n + 1] = t[1] /\ Len(c) = n + 1
  BY <1>1, <1>2
<1> QED
  BY <1>3 DEF Last, c

\* The oldest queued message, as waitAnyMessageTimeout() will find it.
LEMMA OldestIsHead ==
  ASSUME TypeOK, Queued # {}
  PROVE  QueueView # <<>> /\ Head(QueueView) = Last(add_msg \o Reverse(cur_msg))
<1>1. add_msg \in Seq(AllMsg) /\ cur_msg \in Seq(AllMsg) /\ Len(cur_msg) <= 1
  BY DEF TypeOK
<1>2. Reverse(add_msg) \in Seq(AllMsg)
  BY <1>1, ReverseProps
<1>3. CASE cur_msg = <<>>
  <2>1. add_msg # <<>>
    <3>1. Range(<<>>) = {}
      BY DEF Range
    <3> QED
      BY <1>3, <3>1 DEF Queued
  <2>2. Reverse(cur_msg) = <<>>
    BY <1>3, ReverseEmpty
  <2>3. add_msg \o Reverse(cur_msg) = add_msg
    BY <1>1, <2>2, ConcatEmptySeq
  <2>4. QueueView = Reverse(add_msg)
    BY <1>2, <1>3, ConcatEmptySeq DEF QueueView
  <2> QED
    BY <1>1, <2>1, <2>3, <2>4, ReverseHead
<1>4. CASE cur_msg # <<>>
  <2>1. Head(cur_msg) \in AllMsg /\ cur_msg = <<Head(cur_msg)>>
    BY <1>1, <1>4, ShortTail
  <2>2. Len(cur_msg) = 1
    <3>1. Len(cur_msg) \in Nat /\ Len(cur_msg) # 0
      BY <1>1, <1>4
    <3> QED
      BY <1>1, <3>1
  <2> DEFINE r == Reverse(cur_msg)  c == add_msg \o r
  <2>3. r \in Seq(AllMsg) /\ Len(r) = 1 /\ r[1] = cur_msg[1]
    BY <1>1, <2>2, ReverseProps
  <2> HIDE DEF r
  <2>5. Last(c) = cur_msg[1]
    BY <1>1, <2>3, LastConcat
  <2>6. Head(cur_msg) = cur_msg[1]
    BY <1>1, <1>4
  <2>7. QueueView # <<>> /\ Head(QueueView) = Head(cur_msg)
    BY <1>1, <1>2, <1>4, ConcatTail DEF QueueView
  <2> QED
    BY <2>5, <2>6, <2>7 DEF r
<1> QED
  BY <1>3, <1>4

\* The first of a queue stays first while messages are added.
LEMMA HeadAppend ==
  ASSUME NEW S, NEW q \in Seq(S), NEW e \in S, q # <<>>
  PROVE  Append(q, e) # <<>> /\ Head(Append(q, e)) = Head(q)
<1>1. Len(q) \in Nat \ {0} /\ Len(Append(q, e)) = Len(q) + 1 /\ Append(q, e) \in Seq(S)
  OBVIOUS
<1>2. Head(q) = q[1] /\ Head(Append(q, e)) = Append(q, e)[1] /\ Append(q, e)[1] = q[1]
  BY <1>1
<1> QED
  BY <1>1, <1>2

\* A call that has something to take stays awake until it took it.
LEMMA BusyStep ==
  ASSUME IInv, [Next]_vars PROVE BusyAwake'
<1> USE DEF IInv
<1>0. QueueView \in Seq(AllMsg)
  <2>1. Reverse(add_msg) \in Seq(AllMsg)
    BY ReverseProps DEF TypeOK
  <2> QED
    BY <2>1 DEF QueueView, TypeOK
<1>1. ASSUME UNCHANGED <<add_msg, cur_msg>> PROVE QueueView' = QueueView
  BY <1>1 DEF QueueView
<1>2. ASSUME NEW m \in AllMsg, Push(m), QueueView # <<>>
      PROVE  QueueView' # <<>> /\ Head(QueueView') = Head(QueueView)
  BY <1>0, <1>2, PushView, HeadAppend
<1>3. CASE SenderSide
  <2>1. busy' = busy /\ rop' = rop /\ (rpc = "loop" => rpc' = "loop")
    BY <1>3 DEF SenderSide, SenderStep, StartSend, ReadHead, Cas, TestWaiting, ClearWaiting,
      ThreadWake, ownerVars, serialVars
  <2>2. CASE QueueQuiet
    BY <1>1, <2>1, <2>2 DEF BusyAwake, QueueQuiet
  <2>3. CASE \E m \in AllMsg : Push(m)
    BY <1>2, <2>1, <2>3 DEF BusyAwake
  <2> QED
    BY <1>3, <2>2, <2>3, SenderQueue DEF Push
<1>4. CASE OwnerQuiet
  <2>0. QueueView' = QueueView
    BY <1>1, <1>4, OwnerQuietFrame
  <2>1. CASE \E op \in mode.ops : Call(op)
    BY <2>0, <2>1, OldestIsHead DEF Call, BusyAwake
  <2>2. CASE EnterSleep
    <3>1. QueueView = <<>>
      BY <2>2, ReverseEmpty DEF EnterSleep, QueueView
    <3>2. ~busy /\ busy' = busy
      BY <2>2, <3>1 DEF BusyAwake, EnterSleep
    <3> QED
      BY <3>2 DEF BusyAwake
  <2>3. CASE ReturnAnswered
    BY <2>0, <2>3 DEF ReturnAnswered, Answered, BusyAwake
  <2>4. CASE rpc # "loop" /\ (busy' => busy)
    BY <2>4 DEF BusyAwake
  <2>5. CASE \/ RegisterSocket \/ UnregisterSocket \/ CreateSerial
             \/ \E n \in Answer : CallProcess(n)
    BY <2>4, <2>5 DEF RegisterSocket, UnregisterSocket, CreateSerial, CallProcess, ownerVars
  <2>6. CASE Lock \/ CheckAdded \/ SetWaiting \/ CondTimeout \/ CondSpurious
    BY <2>4, <2>6 DEF Lock, CheckAdded, SetWaiting, CondTimeout, ReturnNull, CondSpurious
  <2>7. CASE SelectPipe \/ SelectSocket \/ SelectTimeout \/ UnsetWaiting \/ Drain
    BY <2>4, <2>7 DEF SelectPipe, SelectSocket, SelectTimeout, SelectReturns, UnsetWaiting, Drain
  <2>8. CASE rpc = "precheck" /\ busy' = busy
    BY <2>4, <2>8
  <2>9. CASE rpc = "notify" /\ busy' = (busy /\ rset # Idle)
    BY <2>4, <2>9
  <2> QED
    BY <1>4, <2>1, <2>2, <2>3, <2>5, <2>6, <2>7, <2>8, <2>9 DEF OwnerQuiet
<1>5. CASE OwnerPost
  <2>1. rpc # "loop" /\ busy' = busy
    BY <1>5 DEF OwnerPost, Post
  <2> QED
    BY <2>1 DEF BusyAwake
<1>6. CASE TakeCur
  <2>1. busy => Head(cur_msg) \notin Answer /\ rop # "answer"
    BY <1>6, TakeView DEF BusyAwake
  <2>2. ~busy'
    BY <1>6, <2>1 DEF TakeCur, TypeOK
  <2> QED
    BY <2>2 DEF BusyAwake
<1>7. CASE Grab
  <2>1. QueueView' # <<>> /\ Head(QueueView') = Head(QueueView)
    BY <1>7, GrabView
  <2> QED
    BY <1>7, <2>1 DEF Grab, BusyAwake, ownerVars
<1>8. CASE UNCHANGED vars
  BY <1>1, <1>8 DEF vars, ownerVars, BusyAwake
<1> QED
  BY <1>3, <1>4, <1>5, <1>6, <1>7, <1>8, NextKinds

\* The bits an answer sets below the sign bit of an int: its own, if there are
\* no more serials than an int has bits.
LEMMA MaskExact ==
  ASSUME NEW n \in Answer, n < IntBit, NEW k \in Mask(n), k < IntBit - 1
  PROVE  k = n
<1>1. n \in Nat /\ IntBit \in Nat \ {0} /\ LongBit \in Nat
  BY Constants, MsgAssumption
<1>2. n % IntBit = n
  BY <1>1
<1>3. CASE n = IntBit - 1
  BY <1>1, <1>2, <1>3 DEF Mask
<1>4. CASE n # IntBit - 1
  BY <1>1, <1>2, <1>4 DEF Mask
<1> QED
  BY <1>3, <1>4

\* The bit that is tested for an answer is its own.
LEMMA MaskOwn ==
  ASSUME NEW n \in Nat, n < IntBit - 1
  PROVE  Mask(n) = {n}
<1>1. IntBit \in Nat \ {0}
  BY MsgAssumption
<1>2. n % IntBit = n
  BY <1>1
<1> QED
  BY <1>1, <1>2 DEF Mask

\* The recorded answers have arrived.
LEMMA BitsStep ==
  ASSUME IInv, [Next]_vars PROVE BitsExact'
<1> USE DEF IInv
<1>0. serial_level \in Nat /\ IntBit \in Nat \ {0}
  BY MsgAssumption DEF TypeOK
<1>1. CASE CreateSerial
  <2>1. serial_level' = serial_level + 1 /\ serial_pend' = serial_pend \ {serial_level}
        /\ rpc = "idle" /\ rpc' = rpc /\ received' = received
    BY <1>1 DEF CreateSerial
  <2>2. ASSUME serial_level' <= IntBit, NEW n \in serial_pend', n < serial_level', n < IntBit - 1
        PROVE  n \in Range(received)
    <3>1. n \in Nat
      BY <2>1, <2>2, MsgAssumption DEF TypeOK
    <3>2. n \in serial_pend /\ n < serial_level /\ serial_level <= IntBit
      BY <1>0, <2>1, <2>2, <3>1
    <3> QED
      BY <2>2, <3>2 DEF BitsExact
  <2> QED
    BY <2>1, <2>2 DEF BitsExact
<1>2. CASE \E n \in Answer : CallProcess(n)
  BY <1>2 DEF CallProcess, BitsExact
<1>3. CASE TakeCur
  <2>1. Head(cur_msg) \in AllMsg /\ Range(cur_msg) = {Head(cur_msg)}
    BY <1>3, ShortTail DEF TakeCur, TypeOK
  <2>2. Range(received') = Range(received) \cup {Head(cur_msg)}
    <3> DEFINE r == received  e == Head(cur_msg)  u == Append(r, e)
    <3>1. /\ r \in Seq(AllMsg) /\ e \in AllMsg /\ received' = u
      BY <1>3, <2>1 DEF TakeCur, TypeOK
    <3> HIDE DEF r, e
    <3>2. /\ DOMAIN r = 1..Len(r) /\ DOMAIN u = 1..(Len(r) + 1) /\ Len(r) \in Nat
          /\ u[Len(r) + 1] = e /\ \A i \in 1..Len(r) : u[i] = r[i]
      BY <3>1
    <3>3. Range(u) \subseteq Range(r) \cup {e}
      BY <3>2 DEF Range
    <3>4. Range(r) \subseteq Range(u) /\ e \in Range(u)
      BY <3>2 DEF Range
    <3> QED
      BY <3>1, <3>3, <3>4 DEF r, e
  <2>3. UNCHANGED <<serial_level, want, rop>> /\ rpc = "loop"
    BY <1>3 DEF TakeCur
  <2>4. ASSUME serial_level <= IntBit, NEW n \in serial_pend', n < serial_level, n < IntBit - 1
        PROVE  n \in Range(received')
    <3>1. CASE n \in serial_pend
      BY <2>2, <2>4, <3>1 DEF BitsExact
    <3>2. CASE n \notin serial_pend
      <4>1. Head(cur_msg) \in Answer /\ n \in Mask(Head(cur_msg))
        BY <1>3, <2>4, <3>2 DEF TakeCur
      <4>2. Head(cur_msg) < serial_level
        BY <2>1, <4>1 DEF QueuedSent, Queued
      <4>3. Head(cur_msg) < IntBit
        <5>1. Head(cur_msg) \in Nat
          BY <4>1, Constants
        <5> QED
          BY <1>0, <2>4, <4>2, <5>1
      <4> QED
        BY <2>2, <2>4, <4>1, <4>3, MaskExact
    <3> QED
      BY <3>1, <3>2
  <2> QED
    BY <2>3, <2>4 DEF BitsExact
<1>4. CASE UNCHANGED <<serial_level, serial_pend, received, want>>
           /\ (rpc' # "idle" /\ rop' = "answer" => rpc # "idle" /\ rop = "answer")
  BY <1>4 DEF BitsExact
<1>5. CASE SenderSide
  BY <1>4, <1>5 DEF SenderSide, SenderStep, StartSend, ReadHead, Cas, TestWaiting, ClearWaiting,
    ThreadWake, ownerVars, serialVars
<1>6. CASE OwnerQuiet
  BY <1>1, <1>2, <1>4, <1>6 DEF OwnerQuiet, RegisterSocket, UnregisterSocket, Call,
    ReturnAnswered, EnterSleep, Lock, CheckAdded, SetWaiting, CondTimeout, ReturnNull,
    CondSpurious, SelectPipe, SelectSocket, SelectTimeout, SelectReturns,
    UnsetWaiting, Drain, ownerVars, serialVars
<1>7. CASE OwnerPost \/ Grab \/ UNCHANGED vars
  BY <1>4, <1>7 DEF OwnerPost, Post, Grab, vars, ownerVars, serialVars
<1> QED
  BY <1>3, <1>5, <1>6, <1>7, NextKinds

-----------------------------------------------------------------------------
(* Theorems.                                                                *)

\* The invariant holds at the start.
LEMMA InitIInv == Init => IInv
<1> SUFFICES ASSUME Init PROVE IInv
  OBVIOUS
<1>1. TypeOK
  BY TypeInit
<1>2. HeldMessages /\ Places /\ SleeperWakeable
  BY DEF Init, HeldMessages, Places, SleeperWakeable
<1>3. QueuedSent
  <2>1. Range(<<>>) = {}
    BY DEF Range
  <2> QED
    BY <2>1, Constants DEF Init, QueuedSent, Queued, AllMsg
<1>4. OneAtATime
  <2>1. Len(<<>>) = 0
    OBVIOUS
  <2> QED
    BY <2>1 DEF Init, OneAtATime
<1>5. BusyAwake
  BY DEF Init, BusyAwake
<1>6. BitsExact
  <2>1. \A n \in serial_pend : ~(n < serial_level)
    BY <1>1, MsgAssumption DEF Init, TypeOK
  <2> QED
    BY <2>1 DEF Init, BitsExact
<1> QED
  BY <1>1, <1>2, <1>3, <1>4, <1>5, <1>6 DEF IInv

\* Every step keeps the types.
LEMMA TypeStep ==
  ASSUME IInv, [Next]_vars PROVE TypeOK'
<1>1. CASE UNCHANGED vars
  BY <1>1 DEF IInv, TypeOK, vars, ownerVars, serialVars, senderVars
<1> QED
  BY <1>1, NextKinds, TypeSender, TypeQuiet, TypeQueue DEF IInv

\* The invariant is inductive.
LEMMA StepIInv == IInv /\ [Next]_vars => IInv'
BY TypeStep, HeldStep, AnswersStep, PlacesStep, SleeperStep, PacedStep, BusyStep, BitsStep
  DEF IInv

\* The invariant holds in every reachable state.
THEOREM Invariance == Spec => []IInv
BY InitIInv, StepIInv, PTL DEF Spec

\* Every variable of the queue and of its owner keeps its type.
THEOREM TypeCorrect == Spec => []TypeOK
<1>1. IInv => TypeOK
  BY DEF IInv
<1> QED
  BY <1>1, Invariance, PTL

\* An owner asleep on the condition variable or in select() can always be woken:
\* a time-out, a late wake-up or a change between the two ways of sleeping never
\* leaves it deaf (threadSleep() against addMessage_lr() and threadWake()).
THEOREM SleepersWakeable == Spec => []SleeperWakeable
<1>1. IInv => SleeperWakeable
  BY DEF IInv
<1> QED
  BY <1>1, Invariance, PTL

\* A limited wait that returns NULL did not overlook a message that was at the
\* head of the queue when it was called (waitAnyMessageTimeout()).
THEOREM NullIsHonest == Spec => NullMissesNothing
<1> DEFINE Honest == (rpc # "idle" /\ rop = "timed" /\ rpc' = "idle" /\ received' = received) => ~busy
<1>1. IInv /\ [Next]_vars => [Honest]_vars
  <2> SUFFICES ASSUME IInv, Next, busy, rpc # "idle", rop = "timed", rpc' = "idle",
                      received' = received
               PROVE  FALSE
    OBVIOUS
  <2>1. rpc = "loop"
    BY DEF IInv, BusyAwake
  <2>2. CASE TakeCur
    <3>1. received \in Seq(AllMsg) /\ Head(cur_msg) \in AllMsg
      BY <2>2, ShortTail DEF TakeCur, IInv, TypeOK
    <3>2. Len(Append(received, Head(cur_msg))) # Len(received)
      BY <3>1
    <3> QED
      BY <2>2, <3>2 DEF TakeCur
  <2>3. CASE Grab \/ OwnerPost
    BY <2>1, <2>3 DEF Grab, OwnerPost, Post, ownerVars
  <2>4. CASE SenderSide
    BY <2>1, <2>4 DEF SenderSide, SenderStep, StartSend, ReadHead, Cas, TestWaiting,
      ClearWaiting, ThreadWake, ownerVars
  <2>5. CASE OwnerQuiet
    BY <2>1, <2>5 DEF OwnerQuiet, RegisterSocket, UnregisterSocket, Call, CreateSerial,
      CallProcess, ReturnAnswered, Answered, EnterSleep, Lock, CheckAdded, SetWaiting,
      CondTimeout, CondSpurious, SelectPipe, SelectSocket, SelectTimeout, SelectReturns,
      UnsetWaiting, Drain
  <2> QED
    BY <2>2, <2>3, <2>4, <2>5, NextKinds
<1> QED
  BY <1>1, Invariance, PTL DEF Spec, NullMissesNothing

\* processMessages(n) returns only when the answer to n has arrived, below the
\* sign bit of an int and with no more serials than an int has bits.
THEOREM AnswersAreMine == Spec => AnswerIsForMe
<1> DEFINE Mine == (rpc = "loop" /\ rop = "answer" /\ rpc' = "idle"
                      /\ want < IntBit - 1 /\ serial_level <= IntBit)
                     => want \in Range(received)
<1>1. IInv /\ [Next]_vars => [Mine]_vars
  <2> SUFFICES ASSUME IInv, Next, rpc = "loop", rop = "answer", rpc' = "idle",
                      want < IntBit - 1, serial_level <= IntBit
               PROVE  want \in Range(received)
    OBVIOUS
  <2>1. Answered
    <3>1. CASE TakeCur \/ Grab \/ OwnerPost
      BY <3>1 DEF TakeCur, Grab, OwnerPost, Post, ownerVars
    <3>2. CASE SenderSide
      BY <3>2 DEF SenderSide, SenderStep, StartSend, ReadHead, Cas, TestWaiting,
        ClearWaiting, ThreadWake, ownerVars
    <3>3. CASE OwnerQuiet
      BY <3>3 DEF OwnerQuiet, RegisterSocket, UnregisterSocket, Call, CreateSerial,
        CallProcess, ReturnAnswered, EnterSleep, Lock, CheckAdded, SetWaiting,
        CondTimeout, CondSpurious, SelectPipe, SelectSocket, SelectTimeout, SelectReturns,
        UnsetWaiting, Drain
    <3> QED
      BY <3>1, <3>2, <3>3, NextKinds
  <2>2. Mask(want) = {want}
    BY MaskOwn DEF IInv, TypeOK
  <2>3. want \in serial_pend
    BY <2>1, <2>2 DEF Answered
  <2> QED
    BY <2>3 DEF IInv, BitsExact
<1> QED
  BY <1>1, Invariance, PTL DEF Spec, AnswerIsForMe

\* Thread's queue implements the mailbox: a push is a Send, taking cur_msg is a
\* Receive, the exchange of add_msg is a DropYounger when it finds several messages
\* and no step of the mailbox when it finds one, and it finds one if the senders
\* are paced.
THEOREM QueueImplementsMailbox == Spec => ImplementsMailbox
<1>1. Init => Box!Init
  <2> SUFFICES ASSUME Init PROVE Box!Init
    OBVIOUS
  <2>1. QueueView = <<>>
    BY ReverseEmpty DEF Init, QueueView
  <2> QED
    BY <2>1 DEF Init, Box!Init
<1>2. IInv /\ [Next]_vars => [Box!Next]_(Box!mailVars)
  <2> SUFFICES ASSUME IInv, [Next]_vars PROVE Box!Next \/ UNCHANGED Box!mailVars
    OBVIOUS
  <2>0. TypeOK /\ HeldMessages
    BY DEF IInv
  <2>1. CASE QueueQuiet
    BY <2>1 DEF QueueQuiet, QueueView, Box!mailVars
  <2>2. ASSUME NEW m \in AllMsg, Push(m) PROVE Box!Next
    <3>1. Box!Send(m)
      BY <2>0, <2>2, PushView DEF Push, Box!Send
    <3> QED
      BY <3>1 DEF Box!Next
  <2>3. CASE TakeCur
    <3>1. Box!Receive
      BY <2>0, <2>3, TakeView DEF TakeCur, Box!Receive
    <3> QED
      BY <3>1 DEF Box!Next
  <2>4. CASE Grab
    <3>1. /\ QueueView = Reverse(add_msg) /\ QueueView # <<>>
          /\ QueueView' = <<Head(QueueView)>>
      BY <2>0, <2>4, GrabView
    <3>2. QueueView \in Seq(AllMsg) /\ Len(QueueView) = Len(add_msg)
      BY <2>0, <3>1, ReverseProps DEF TypeOK
    <3>3. UNCHANGED <<sent, received, mode>> /\ cur_msg = <<>>
      BY <2>4 DEF Grab, ownerVars, serialVars
    <3>4. CASE Len(QueueView) > 1
      <4>1. ~mode.paced
        BY <2>0, <3>2, <3>3, <3>4 DEF IInv, OneAtATime, TypeOK
      <4>2. Box!DropYounger
        BY <3>1, <3>3, <3>4, <4>1 DEF Box!DropYounger
      <4> QED
        BY <4>2 DEF Box!Next
    <3>5. CASE ~(Len(QueueView) > 1)
      <4>1. Len(QueueView) <= 1
        BY <3>2, <3>5
      <4>2. QueueView' = QueueView
        BY <3>1, <3>2, <4>1, ShortTail
      <4> QED
        BY <3>3, <4>2 DEF Box!mailVars
    <3> QED
      BY <3>4, <3>5
  <2> QED
    BY <2>0, <2>1, <2>2, <2>3, <2>4, QueueKinds
<1> QED
  BY <1>1, <1>2, Invariance, PTL DEF Spec, ImplementsMailbox, Box!Spec
=============================================================================
