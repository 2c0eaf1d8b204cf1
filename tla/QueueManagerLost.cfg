SPECIFICATION Spec
CONSTANTS
  Worker = {w1, w2}
  NumLines = 3
  Faulty <- Valid
  Options <- OneOrTwo
  Word = 256
INVARIANTS AllOutputWritten
