SPECIFICATION Spec
CONSTANTS
    Word16 <- MCWord16
    BufMax <- MCWord16
    SeqSpace <- MCSeqSpace
    Idents <- MCIdents
    Received <- MCReceived
    Payloads <- MCPayloads
    Sendings <- MCSendings
    MaxEdits = 2
    MaxSends = 1
INVARIANTS
    GoesOnAsTold
    SendsAsAsked
\* A packet with its verdict is at its end.
CHECK_DEADLOCK FALSE
