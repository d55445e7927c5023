SPECIFICATION FairSpec
CONSTANTS
    Size = 2
    MaxTime = 2
    MaxFaults = 2
    Absent = Absent
    Cut = Cut
INVARIANTS IngestsWholeFile ReceiptIsTrue
PROPERTIES OnlyTmpRollsBack BytesOutlive VanishesOnlyExpired SweptEventually
CHECK_DEADLOCK FALSE
