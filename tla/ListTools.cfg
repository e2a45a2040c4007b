SPECIFICATION FairSpec
CONSTANTS
    Width <- MCWidth
    Word = 5
    Pow2 <- MCPow2
    Options <- MCOptions
    Lines <- MCLines
    MaxThreads = 2
    MaxTries = 2
    Every = 1
    Families = {4, 6}
    Inputs <- MCInputs
    Answers <- MCAnswers
    Nobody = Nobody
INVARIANTS
    ReportedOnce
    StandsForInput
PROPERTIES
    IsWriter
    ToolsEnd
