\* The lock: five hosts, 64 epochs, every Transfer ever sent still in the network.
\* Two-phase commit: five resource managers.  RSL: two replicas, two clients, batches
\* of up to two requests.  Three nodes of the other protocols,
\* four in the chain, where an acknowledgement passes through two nodes that are
\* neither head nor tail.
SPECIFICATION HostsSpec
CONSTANTS
    N = 5
    MaxEpoch = 64
    RM = {r1, r2, r3, r4, r5}
    RslReplicas = 2
    RslClients = {c1, c2}
    RslBatches = 3
    RslIntegerVal = 3
    RslBatchSize = 2
    RslSeqno = 0
    RslView <- FirstView
    NoReply = NoReply
    PaxosNodes = 3
    VerticalNodes = 3
    VerticalCycles <- TwoProposers
    ElectionNodes = 3
    ChainLength = 4
    ChainValues = {a, b, c}
    ChainWrites = 5
    ChainCommits = 2
    BackupNodes = 3
    BackupClients = {clientA, clientB}
    BackupValues = {v1, v2}
    BackupLog = 3
    None = None
INVARIANTS
    MutualExclusion
    CommittedAfterAllPrepared
    SetsMirrorLists
    RepliesAreTrue
    LaterProposersKnow
    CommittedByVoters
    LeadersClaimed
    AckedDownstream
    AnsweredInOrder
PROPERTIES
    ImplementsLockService
CHECK_DEADLOCK FALSE
