SPECIFICATION Spec
CONSTANTS
    c1 = c1
    c2 = c2
    p1 = p1
    p2 = p2
    Callers <- MCCallers
    Processes <- MCProcesses
    NoCaller = NoCaller
    NoProcess = NoProcess
    KillMayFail = FALSE
INVARIANT
    ExitIsReported
