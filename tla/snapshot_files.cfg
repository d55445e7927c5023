SPECIFICATION Spec
CONSTANTS
  Missing = Missing
  Torn = Torn
  Absent = Absent
  Cut = Cut
  MaxSaves = 5
INVARIANTS
  SaveContract
  NoRollback
  WipeIsFinal
