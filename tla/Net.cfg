SPECIFICATION NetSpec
CONSTANTS
  Sessions <- AllSessions
  Outcomes = {"ok", "fault", "bad"}
INVARIANTS ReadsBack ExchangeExact
PROPERTIES AllEnd Answered
