\* The lists and the automatic list; others do not write the latter.
SPECIFICATION Spec
CONSTANTS
    Hosts <- MCHosts
    Parents <- MCParents
    Contents <- MCContents
    Flows <- MCFlows
    Initial <- MCInitial
    Edited <- MCEdited
    Accessed <- MCAccessed
    Distinct = TRUE
    MaxEdits = 2
    MaxTime = 2
    FailThreshold = 2
    FailTime = 1
    RetransThreshold = 2
    UdpOut = 2
    UdpIn = 0
    MaxHups = 1
INVARIANTS
    MemoryInv
    AddedForCause
    JudgedOnce
    AutoKeepsAdded
PROPERTIES
    ListsReloaded
    RecheckAvoids
CHECK_DEADLOCK FALSE
