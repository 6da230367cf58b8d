SPECIFICATION Spec
CONSTANTS
  Groups = {g1, g2}
  Strays = {}
  Seqs = {0}
  SeqMod = 16
  N = 3
  MaxRioResults = 2
  IndexMod = 4
  MaxArrivals = 5
  PktsToCount = 0
  TotalMod = 16
  TimeLimited = FALSE
PROPERTY
  AttributionLag
CHECK_DEADLOCK FALSE
