SPECIFICATION FairSpec
CONSTANTS
  Worker = {w1, w2}
  NumLines = 19
  Faulty <- SomeMalformed
  Options <- OneOrTwo
  Word = 256
INVARIANTS OutputInOrder NoIdleBacklog MainWakeable
PROPERTIES ProgramEnds
