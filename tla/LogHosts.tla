------------------------------ MODULE LogHosts ------------------------------
(***************************************************************************)
(* The server's process runs one protocol, which native_runtime.rs chooses *)
(* by name when it starts and steps from then on.  Here: Raft and PBFT,    *)
(* the hosts that keep a replicated log, with all their nodes up.  The     *)
(* host that does not run stays as it is initially.                        *)
(***************************************************************************)
EXTENDS MCRaft

CONSTANTS
    PbftPrimary, PbftBackups, PbftFaults, PbftRequests, PbftRounds,
    PbftInterval, PbftPending, PbftCached,
    clientA, clientB, digestA, digestB

VARIABLES
    protocol,
    bft_seq_num, bft_phase, bft_request_digest, bft_prepare_senders, bft_commit_senders,
    bft_low_watermark, bft_high_watermark, bft_executed, bft_pending_requests,
    bft_active_client, bft_completed_requests, bft_completed_clients, bft_cur_pre_prepare,
    bft_prev_pre_prepare, bft_net, bft_replies

PbftNodes == {PbftPrimary} \cup PbftBackups
PbftClients == {r[1] : r \in PbftRequests}
PbftDigests == {r[2] : r \in PbftRequests}

PBFTHost == INSTANCE Pbft WITH
    Nodes <- PbftNodes, Primary <- PbftPrimary, Live <- PbftNodes, F <- PbftFaults,
    Clients <- PbftClients, Digests <- PbftDigests, None <- Nobody, Requests <- PbftRequests,
    CheckpointInterval <- PbftInterval, MaxPending <- PbftPending, MaxCached <- PbftCached,
    MaxSeq <- PbftRounds,
    seq_num <- bft_seq_num, phase <- bft_phase, request_digest <- bft_request_digest,
    prepare_senders <- bft_prepare_senders, commit_senders <- bft_commit_senders,
    low_watermark <- bft_low_watermark, high_watermark <- bft_high_watermark,
    executed <- bft_executed, pending_requests <- bft_pending_requests,
    active_client <- bft_active_client, completed_requests <- bft_completed_requests,
    completed_clients <- bft_completed_clients, cur_pre_prepare <- bft_cur_pre_prepare,
    prev_pre_prepare <- bft_prev_pre_prepare, net <- bft_net, replies <- bft_replies

ASSUME LogHostsAssumption == PBFTHost!PbftAssumption

bft_vars == <<bft_seq_num, bft_phase, bft_request_digest, bft_prepare_senders,
              bft_commit_senders, bft_low_watermark, bft_high_watermark, bft_executed,
              bft_pending_requests, bft_active_client, bft_completed_requests,
              bft_completed_clients, bft_cur_pre_prepare, bft_prev_pre_prepare, bft_net,
              bft_replies>>

HostsInit ==
    /\ protocol \in {"raft", "pbft"}
    /\ CInit /\ PBFTHost!CInit

\* A scheduling turn of the host that runs.
step ==
    \/ protocol = "raft" /\ Next /\ UNCHANGED bft_vars
    \/ protocol = "pbft" /\ PBFTHost!Next /\ UNCHANGED vars

HostsNext == step /\ UNCHANGED protocol

HostsSpec == HostsInit /\ [][HostsNext]_<<protocol, vars, bft_vars>>

\* Two clients, each with a request of its own.
OneEach == {<<clientA, digestA>>, <<clientB, digestB>>}

HostsSymmetry == Symmetry \cup Permutations(PbftBackups)
-----------------------------------------------------------------------------
(***************************************************************************)
(* Properties, beside ElectionSafety of Raft.                              *)
(***************************************************************************)
\* Raft/host.rs: two logs that have an entry of one term at one index are equal up
\* to it, and what a leader believes of a follower's log is true, although followers
\* stamp entries with the packet's term and answers of earlier terms come late.
RaftLogsMatch == protocol = "raft" => LogMatching /\ MatchIndexTrue

\* PBFT/host.rs: what a node has executed, a quorum is committed to.
ExecutedByQuorum == protocol = "pbft" => PBFTHost!ExecutedByQuorum

\* PBFT/host.rs: a client is told of its own request, after a quorum is committed.
PbftRepliesAreTrue == protocol = "pbft" => PBFTHost!RepliesAreTrue

\* Raft/host.rs, PBFT/host.rs: the nodes of either protocol implement one committed
\* log: no change of leader, lag or repetition changes or takes back a value in it.
ImplementOneLog == ImplementsCommittedLog /\ PBFTHost!ImplementsCommittedLog
=============================================================================
