---------------------------- MODULE HostsSafety -----------------------------
(***************************************************************************)
(* The server's process runs one protocol, which native_runtime.rs chooses *)
(* by name when it starts and steps from then on.  Here: RSL's handling of *)
(* requests, two-phase commit, Paxos, Vertical Paxos, leader election,     *)
(* chain replication and primary backup, under a network that loses,       *)
(* repeats and reorders packets.  The distributed lock, which has a host   *)
(* loop of its own, is one more choice.  The hosts that do not run stay as *)
(* they are initially.                                                     *)
(***************************************************************************)
EXTENDS Lock, TwoPhase

CONSTANTS
    RslReplicas, RslClients, RslBatches, RslIntegerVal, RslBatchSize,   \* RSL
    RslSeqno, RslView, NoReply,
    PaxosNodes,                                  \* single-decree Paxos
    VerticalNodes, VerticalCycles,               \* Vertical Paxos
    ElectionNodes,                               \* leader election
    ChainLength, ChainValues, ChainWrites, ChainCommits,   \* chain replication
    BackupNodes, BackupClients, BackupValues, BackupLog,   \* primary backup
    None

VARIABLES
    protocol,
    rq_election, rq_proposer, rq_executor, rq_chosen, rq_inflight, rq_net,
    px_promised_bal, px_accepted_bal, px_phase, px_proposer_bal, px_promises_rcvd,
    px_highest_accepted_bal, px_accepts_rcvd, px_net,
    vp_config_num, vp_max_bal, vp_max_v_bal, vp_promises_rcvd, vp_accepts_rcvd, vp_committed,
    vp_ballot_counter, vp_action_index, vp_net, vp_votes,
    le_electing, le_waiting, le_leader, le_action_index, le_net, le_claims,
    ch_history, ch_pending_sent, ch_committed_count, ch_obj_value, ch_net,
    pb_role, pb_view, pb_log, pb_pending, pb_backup_log, pb_net, pb_accepted, pb_replies

RslHost == INSTANCE RslRequests WITH
    NumReplicas <- RslReplicas, Clients <- RslClients, MaxOps <- RslBatches,
    MaxIntegerVal <- RslIntegerVal, MaxBatchSize <- RslBatchSize, MaxSeqno <- RslSeqno,
    MaxView <- RslView,
    election <- rq_election, proposer <- rq_proposer, executor <- rq_executor,
    chosen <- rq_chosen, inflight <- rq_inflight, net <- rq_net

PaxosHost == INSTANCE Paxos WITH
    N <- PaxosNodes,
    promised_bal <- px_promised_bal, accepted_bal <- px_accepted_bal, phase <- px_phase,
    proposer_bal <- px_proposer_bal, promises_rcvd <- px_promises_rcvd,
    highest_accepted_bal <- px_highest_accepted_bal, accepts_rcvd <- px_accepts_rcvd,
    net <- px_net

VerticalPaxosHost == INSTANCE VerticalPaxos WITH
    N <- VerticalNodes, MaxCounter <- VerticalCycles,
    config_num <- vp_config_num, max_bal <- vp_max_bal, max_v_bal <- vp_max_v_bal,
    promises_rcvd <- vp_promises_rcvd, accepts_rcvd <- vp_accepts_rcvd,
    committed <- vp_committed, ballot_counter <- vp_ballot_counter,
    action_index <- vp_action_index, net <- vp_net, votes <- vp_votes

LeaderElectionHost == INSTANCE LeaderElection WITH
    N <- ElectionNodes,
    electing <- le_electing, waiting <- le_waiting, leader <- le_leader,
    action_index <- le_action_index, net <- le_net, claims <- le_claims

ChainHost == INSTANCE ChainReplication WITH
    N <- ChainLength, Values <- ChainValues, MaxHistory <- ChainWrites, MaxCommits <- ChainCommits,
    history <- ch_history, pending_sent <- ch_pending_sent,
    committed_count <- ch_committed_count, obj_value <- ch_obj_value, net <- ch_net

PrimaryBackupHost == INSTANCE PrimaryBackup WITH
    N <- BackupNodes, Clients <- BackupClients, Values <- BackupValues, MaxLog <- BackupLog,
    role <- pb_role, view <- pb_view, log <- pb_log, pending <- pb_pending,
    backup_log <- pb_backup_log, net <- pb_net, accepted <- pb_accepted, replies <- pb_replies

\* There are nodes, no leader is not one of them, and RSL's lists have room for
\* what its clients ask.
ASSUME HostsAssumption ==
    /\ RslReplicas \in Nat \ {0} /\ RslIntegerVal \in Nat \ {0}
    /\ RslBatchSize \in Nat \ {0} /\ RslSeqno \in Nat
    /\ IsFiniteSet(RslClients) /\ Cardinality(RslHost!CRequest) <= RslIntegerVal
    /\ PaxosNodes \in Nat \ {0} /\ VerticalNodes \in Nat \ {0} /\ ChainLength \in Nat \ {0, 1}
    /\ None \notin LeaderElectionHost!Nodes

rq_vars == <<rq_election, rq_proposer, rq_executor, rq_chosen, rq_inflight, rq_net>>
px_vars == <<px_promised_bal, px_accepted_bal, px_phase, px_proposer_bal, px_promises_rcvd,
             px_highest_accepted_bal, px_accepts_rcvd, px_net>>
vp_vars == <<vp_config_num, vp_max_bal, vp_max_v_bal, vp_promises_rcvd, vp_accepts_rcvd,
             vp_committed, vp_ballot_counter, vp_action_index, vp_net, vp_votes>>
le_vars == <<le_electing, le_waiting, le_leader, le_action_index, le_net, le_claims>>
ch_vars == <<ch_history, ch_pending_sent, ch_committed_count, ch_obj_value, ch_net>>
pb_vars == <<pb_role, pb_view, pb_log, pb_pending, pb_backup_log, pb_net, pb_accepted,
             pb_replies>>

hosts_vars == <<protocol, vars, tp_vars, rq_vars, px_vars, vp_vars, le_vars, ch_vars,
                pb_vars>>

HostsInit ==
    /\ protocol \in {"lock", "twophase", "rsl", "paxos", "verticalpaxos", "leaderelection",
                     "chainreplication", "primarybackup"}
    /\ Init /\ TPInit
    /\ RslHost!RequestsInit
    /\ PaxosHost!Init /\ VerticalPaxosHost!Init /\ LeaderElectionHost!Init
    /\ ChainHost!Init /\ PrimaryBackupHost!Init

\* A scheduling turn of the host that runs.
step ==
    \/ /\ protocol = "lock" /\ Next
       /\ UNCHANGED <<tp_vars, rq_vars, px_vars, vp_vars, le_vars, ch_vars, pb_vars>>
    \/ /\ protocol = "twophase" /\ TPNext
       /\ UNCHANGED <<vars, rq_vars, px_vars, vp_vars, le_vars, ch_vars, pb_vars>>
    \/ /\ protocol = "rsl" /\ RslHost!Next
       /\ UNCHANGED <<vars, tp_vars, px_vars, vp_vars, le_vars, ch_vars, pb_vars>>
    \/ /\ protocol = "paxos" /\ PaxosHost!Next
       /\ UNCHANGED <<vars, tp_vars, rq_vars, vp_vars, le_vars, ch_vars, pb_vars>>
    \/ /\ protocol = "verticalpaxos" /\ VerticalPaxosHost!Next
       /\ UNCHANGED <<vars, tp_vars, rq_vars, px_vars, le_vars, ch_vars, pb_vars>>
    \/ /\ protocol = "leaderelection" /\ LeaderElectionHost!Next
       /\ UNCHANGED <<vars, tp_vars, rq_vars, px_vars, vp_vars, ch_vars, pb_vars>>
    \/ /\ protocol = "chainreplication" /\ ChainHost!Next
       /\ UNCHANGED <<vars, tp_vars, rq_vars, px_vars, vp_vars, le_vars, pb_vars>>
    \/ /\ protocol = "primarybackup" /\ PrimaryBackupHost!Next
       /\ UNCHANGED <<vars, tp_vars, rq_vars, px_vars, vp_vars, le_vars, ch_vars>>

HostsNext == step /\ UNCHANGED protocol

HostsSpec == HostsInit /\ [][HostsNext]_hosts_vars

\* For TLC: the first view of RSL, which replica 0 leads.
FirstView == [seqno |-> 1, proposer_id |-> 0]

\* For TLC: in Vertical Paxos two of the nodes propose, node 0 twice.
TwoProposers == [n \in 0 .. VerticalNodes - 1 |-> IF n = 2 THEN 0 ELSE 2 - n]

-----------------------------------------------------------------------------
(***************************************************************************)
(* Properties, beside those of Lock and TwoPhase.                          *)
(***************************************************************************)
\* RSL election_gen.rs: the sets that decide whether a request is noted are those of
\* the lists: a request is neither noted twice nor turned away when it is not
\* outstanding.
SetsMirrorLists == RslHost!SetsMirrorLists

\* RSL executor_gen.rs: every reply, first or repeated, of whichever replica and after
\* however many state transfers, is the counter at an execution of that very request.
RepliesAreTrue == RslHost!RepliesAreTrue

\* Paxos/host.rs: once a quorum has accepted a ballot, every proposer of a higher
\* one with a quorum of promises knows of a ballot at least as high, although the
\* ballots of the promises that it counts are not compared.
LaterProposersKnow == PaxosHost!LaterProposersKnow

\* VerticalPaxos/host.rs: whoever commits was told so by a quorum that accepted
\* one of its ballots, although an AcceptOk does not name the ballot it answers.
CommittedByVoters == VerticalPaxosHost!CommittedByVoters

\* LeaderElection/host.rs: however late Answers come, a node declares itself the
\* leader once, and the leader that a node follows has declared itself one.
LeadersClaimed == LeaderElectionHost!LeadersClaimed

\* ChainReplication/host.rs: a value that a node no longer waits for is committed, and
\* no node after it lacks it or waits for it, however late or often packets arrive.
AckedDownstream == ChainHost!AckedDownstream

\* PrimaryBackup/host.rs: replies go out in the order of the writes, to the
\* clients that asked for them, although an Ack does not name what it answers.
AnsweredInOrder == PrimaryBackupHost!AnsweredInOrder
=============================================================================
