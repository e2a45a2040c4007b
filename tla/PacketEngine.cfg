SPECIFICATION FairSpec
CONSTANTS
    f1 = f1
    f2 = f2
    web = web
    s1 = s1
    s2 = s2
    None = None
    Target = Target
    SeqSpace = 16
    Flows <- MCFlows
    WebFlows <- MCWebFlows
    Starts <- MCStarts
    Lengths <- MCLengths
    Names <- MCNames
    Keys <- MCKeys
    Servers <- MCServers
    Options <- MCOptions
    MaxPackets = 3
    MaxFailures = 1
INVARIANTS
    Delivered
    FakesOnce
    NameIsCut
    AnswersWereAsked
PROPERTIES
    StopEnds
CHECK_DEADLOCK FALSE
