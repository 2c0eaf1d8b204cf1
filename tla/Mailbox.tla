------------------------------ MODULE Mailbox ------------------------------
(***************************************************************************)
(* What the message queue of a thread promises: a FIFO from which the      *)
(* owner receives.  If lossy, the owner may drop everything but the       *)
(* oldest queued message, which is what Thread's queue really does when it *)
(* finds several messages at once; without it the mailbox is reliable.     *)
(***************************************************************************)
EXTENDS Naturals, Sequences

CONSTANT
  Msg     \* messages, each sent at most once

VARIABLES queue, sent, received,
  lossy   \* whether queued messages may be dropped

mailVars == <<queue, sent, received, lossy>>

Init ==
  /\ lossy \in BOOLEAN
  /\ queue = <<>>
  /\ sent = {}
  /\ received = <<>>

Send(m) ==
  /\ m \in Msg \ sent
  /\ sent' = sent \cup {m}
  /\ queue' = Append(queue, m)
  /\ UNCHANGED <<received, lossy>>

Receive ==
  /\ queue # <<>>
  /\ received' = Append(received, Head(queue))
  /\ queue' = Tail(queue)
  /\ UNCHANGED <<sent, lossy>>

DropYounger ==
  /\ lossy
  /\ Len(queue) > 1
  /\ queue' = <<Head(queue)>>
  /\ UNCHANGED <<sent, received, lossy>>

Next == (\E m \in Msg : Send(m)) \/ Receive \/ DropYounger

Spec == Init /\ [][Next]_mailVars
=============================================================================
