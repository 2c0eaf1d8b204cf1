\* Two senders, a message, two serials whose answers come late, early or not at
\* all, the second at the sign bit of an int, a socket notification; see AllModes for the ways of use.
CONSTANTS
  Msg = {m1}
  Notif = {n1}
  Senders = {s1, s2}
  Modes <- AllModes
  Serials = 2
  LongBit = 6
  IntBit = 2
  NoMsg = NoMsg
SPECIFICATION LiveSpec
INVARIANTS
  SleeperWakeable
PROPERTIES
  ImplementsMailbox
  NullMissesNothing
  AnswerIsForMe
  PacedIsReceived
