\* Start, loop, timers, signals and end of nfqws2.
SPECIFICATION Spec
CONSTANTS
    t1 = t1
    t2 = t2
    Names <- MCNames
    Periods <- MCPeriods
    Systems <- MCSystems
    Garbage <- MCGarbage
    MaxCreated = 2
    MaxTime = 3
    MaxHups = 1
INVARIANTS
    TimersOnTime
    EndsClean
PROPERTIES
    SignalsServed
CHECK_DEADLOCK FALSE
