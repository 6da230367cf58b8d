SPECIFICATION Spec
CONSTANTS
  Groups = {g1, g2}
  Strays = {}
  Seqs = {0}
  SeqMod = 16
  N = 3
  MaxRioResults = 2
  IndexMod = 16
  MaxArrivals = 4
  PktsToCount = 0
  TotalMod = 16
  TimeLimited = FALSE
INVARIANT
  EmptyDequeueLoopsAround
CHECK_DEADLOCK FALSE
