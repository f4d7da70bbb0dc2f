SPECIFICATION Spec
CONSTANTS
    NumReplicas = 1
    MaxIntegerVal = 3
    MaxView <- View2Single
    Clients = {c}
    MaxSeqno = 1
    MaxBatchSize = 1
    MaxOps = 3
    NoReply = NoReply
PROPERTIES
    NoReexecution
CHECK_DEADLOCK FALSE
