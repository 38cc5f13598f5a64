SPECIFICATION FairSpec
CONSTANTS
  c1 = c1 s1 = s1
  Creds = {c1}
  Shows = {s1}
  Conns = {k1, k2}
  Authorities <- MCAuthorities
  None = None
  MaxGeneration = 2
  MaxTime = 1
  MaxRunning = 1
  MaxQueue = 2
INVARIANTS
  PredecessorsAreGone
  BarriersHold
PROPERTY RevocationEnds
