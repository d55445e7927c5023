SPECIFICATION Spec
CONSTANTS
  Memory = {m1, m2}
  Client = {c1}
  Vec = {v1}
  BadVec = {}
  NoVec = NoVec
  Nobody = Nobody
  NoCommand = NoCommand
  Missing = Missing
  Torn = Torn
  Capacity = 1
INVARIANT NoVectorLoss
