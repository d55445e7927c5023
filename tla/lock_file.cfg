SPECIFICATION Spec
CONSTANTS
  Process = {p1, p2, p3}
  NoFile = NoFile
  NoPid = NoPid
CHECK_DEADLOCK FALSE
INVARIANTS OneOwnerUnlessRaced RefusedOnlyByOther
