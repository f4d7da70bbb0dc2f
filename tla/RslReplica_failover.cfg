CONSTANTS
    NumReplicas = 3
    MaxLogLength = 1
    MaxIntegerVal = 2
    None = None
    batchA = batchA
    batchB = batchB
    Batches = {batchA}
    MaxView <- View2
    Cut <- CutFailover
SPECIFICATION FairSpec
CHECK_DEADLOCK FALSE
PROPERTIES Failover
