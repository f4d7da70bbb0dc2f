\* Raft: three servers, a split vote and a later leader.  PBFT: four nodes, two
\* clients, two rounds; the primary remembers the answers of one client.
SPECIFICATION HostsSpec
CONSTANTS
    s1 = s1
    s2 = s2
    s3 = s3
    valueA = valueA
    valueB = valueB
    Nobody = Nobody
    Servers = {s1, s2, s3}
    Values = {valueA, valueB}
    Elections <- ElectionsSplit
    MaxInFlight = 1
    Cut <- CutSplit
    MaxLog = 2
    clientA = clientA
    clientB = clientB
    digestA = digestA
    digestB = digestB
    PbftPrimary = n1
    PbftBackups = {n2, n3, n4}
    PbftFaults = 1
    PbftRequests <- OneEach
    PbftRounds = 2
    PbftInterval = 1
    PbftPending = 2
    PbftCached = 1
SYMMETRY HostsSymmetry
INVARIANTS
    ElectionSafety
    RaftLogsMatch
    ExecutedByQuorum
    PbftRepliesAreTrue
PROPERTIES
    ImplementOneLog
CHECK_DEADLOCK FALSE
