\* Two senders without pacing.
CONSTANTS
  Msg = {m1, m2}
  Notif = {}
  Senders = {s1, s2}
  Modes <- Unpaced
  Serials = 0
  LongBit = 6
  IntBit = 3
  NoMsg = NoMsg
SPECIFICATION Spec
INVARIANT NoMessageLost
