CONSTANTS
    NumReplicas = 3
    MaxLogLength = 1
    MaxIntegerVal = 2
    None = None
    batchA = batchA
    batchB = batchB
    Batches = {batchA, batchB}
    MaxView <- View2
    Cut <- CutStateTransfer
SPECIFICATION Spec
CHECK_DEADLOCK FALSE
SYMMETRY Symmetry
INVARIANTS
    Agreement
    ExecutedWasChosen
    TruncationCovered
    VotesInWindow
    LeaderNotBehindPromises
PROPERTIES
    ImplementsReplicatedLog
