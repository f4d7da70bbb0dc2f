\* Two workers with ranges of two numbers and a clock that may be set back; a UDP
\* peer that restarts once and whose messages overfill the table; two TCP
\* connections at most, to a member or from it.
SPECIFICATION RuntimeSpec
CONSTANTS
    Workers = {w1, w2}
    None = None
    Floors = {0, 4}
    SequenceRange = 2
    MaxSequence = 7
    UdpPeers = {p1}
    UdpSizes = {1, 2}
    UdpMessages = 3
    UdpRestarts = 1
    MaxQueuedMessages = 2
    MaxQueuedBytes = 3
    MaxBatchSize = 2
    MaxReassemblyBytes = 4
    MaxReassemblies = 3
    MaxPeerReassemblies = 2
    ReassemblyTimeout = 2
    Members = {m}
    Clients = {}
    Tasks = {t1, t2}
    Frames = {f1, f2}
    ConnectionQueue = 1
    ReceiveQueue = 1
INVARIANTS
    NumbersUsedOnce
    DeliveredWhole
    AccountsKept
    RoutesOpen
    SuccessMeansWritten
PROPERTIES
    RangesIncrease
    AssembliesEnd
    SendsAnswered
    PermitsReturned
CHECK_DEADLOCK FALSE
