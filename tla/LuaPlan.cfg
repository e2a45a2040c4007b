SPECIFICATION PlanSpec
CONSTANTS
    Plan <- MCPlan
    Search <- MCSearch
    Names = {"a", "b"}
    NoName = NoName
    NoProfile = NoProfile
    Half = 1
    Seqs <- MCSeqs
    Acks <- MCAcks
    Asks <- MCAsks
    MaxPackets = 3
    MaxHeld = 1
INVARIANTS
    PlanDecides
    CutoffSound
    ProfileOfName
CHECK_DEADLOCK FALSE
