SPECIFICATION Spec
CONSTANTS
  Memory = {m1, m2}
  Client = {c1}
  Vec = {v1, v2}
  BadVec = {v2}
  NoVec = NoVec
  Nobody = Nobody
  NoCommand = NoCommand
  Missing = Missing
  Torn = Torn
  Capacity = 1
CONSTRAINT NoUpdates
INVARIANTS
  IndexCoverage
  ForgottenHidden
PROPERTIES
  KeepsPromise
  SavedStopLosesNothing
