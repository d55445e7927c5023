SPECIFICATION FairSpec
CONSTANTS
  Memory = {m1}
  Client = {c1, c2}
  Vec = {v1, v2}
  BadVec = {v2}
  NoVec = NoVec
  Nobody = Nobody
  NoCommand = NoCommand
  Missing = Missing
  Torn = Torn
  Capacity = 1
INVARIANTS
  TypeOK
  OkMeansSearchable
  PendingIsCurrent
PROPERTIES
  EveryCallReturns
  StopCompletes
