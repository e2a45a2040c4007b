SPECIFICATION FairSpec
CONSTANTS
    SeqSpace = 8
    MaxBack = 3
    MaxReasm = 2
    DelayedMax = 2
    Isns <- MCIsns
    Length = 4
    MaxLag = 3
    Hello <- MCHello
    MaxSegment = 2
    Windows <- MCWindows
    MaxExtras = 2
    MissWindows <- MCLargeWindow
INVARIANT
    TrackerInv
PROPERTIES
    OneDecision
    KeepsOrder
    HelloLeaves
CHECK_DEADLOCK FALSE
