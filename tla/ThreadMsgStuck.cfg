\* One message to an owner that waits without a limit.
CONSTANTS
  Msg = {m1}
  Notif = {}
  Senders = {s1}
  Modes <- Unlimited
  Serials = 0
  LongBit = 6
  IntBit = 3
  NoMsg = NoMsg
SPECIFICATION LiveSpec
PROPERTY SentIsReceived
CHECK_DEADLOCK FALSE
