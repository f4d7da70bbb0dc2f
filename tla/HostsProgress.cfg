\* RSL: two replicas, one client and two views, whose requests are only executed
\* in some of them.  One node of EPaxos, and of PBFT, is down.
SPECIFICATION HostsSpec
CONSTANTS
    EPaxosNodes = 3
    EPaxosLive = {0, 1}
    EPaxosClients = {c1, c2, c3}
    PbftNodes = {n1, n2, n3, n4}
    PbftPrimary = n1
    PbftLive = {n1, n2, n3}
    PbftFaults = 1
    PbftClients = {c1, c2}
    PbftDigests = {d1, d2}
    PbftRounds = 3
    NoClient = NoClient
    NumReplicas = 2
    MaxIntegerVal = 3
    MaxView <- View2
    Clients = {c}
    MaxSeqno = 0
    MaxBatchSize = 1
    MaxOps = 2
    NoReply = NoReply
PROPERTIES
    OutstandingUntilExecuted
    StuckViewIsLeft
    EPaxosClientsAnswered
    PbftRequestsAnswered
CHECK_DEADLOCK FALSE
