SPECIFICATION InitialsFairSpec
CONSTANTS
    Space = 4
    MaxPieces = 3
    MaxReasm = 4
    DelayedMax = 3
    MinHello = 2
    Hellos <- MCHellos
    Payloads <- MCPayloads
INVARIANTS
    AnswersTheCall
    SessionInv
PROPERTIES
    LeaveInOrder
    DecidedTogether
    HeldLeave
