--------------------------- MODULE HostsProgress ----------------------------
(***************************************************************************)
(* The server's process runs one protocol, which native_runtime.rs chooses *)
(* by name when it starts and steps from then on.  Here: RSL's handling of *)
(* requests, EPaxos and PBFT, the hosts that repeat what is not answered   *)
(* and so owe something in the end: RSL to leave a view that is stuck, the *)
(* others to answer their clients.  The hosts that do not run stay as they *)
(* are initially, and a property of what must happen speaks of the one     *)
(* that runs.                                                              *)
(***************************************************************************)
EXTENDS MCRslRequests

CONSTANTS
    EPaxosNodes, EPaxosLive, EPaxosClients,      \* EPaxos, with nodes down
    PbftNodes, PbftPrimary, PbftLive, PbftFaults,
    PbftClients, PbftDigests, PbftRounds,        \* PBFT, with nodes down
    NoClient

VARIABLES
    protocol,
    ep_phase, ep_cmd, ep_preaccept_senders, ep_pending_client, ep_net, ep_replies,
    bft_seq_num, bft_phase, bft_request_digest, bft_prepare_senders, bft_commit_senders,
    bft_low_watermark, bft_high_watermark, bft_executed, bft_pending_requests,
    bft_active_client, bft_completed_requests, bft_completed_clients, bft_cur_pre_prepare,
    bft_prev_pre_prepare, bft_net, bft_replies

EPaxosHost == INSTANCE EPaxos WITH
    N <- EPaxosNodes, Live <- EPaxosLive, Clients <- EPaxosClients, NoClient <- NoClient,
    phase <- ep_phase, cmd <- ep_cmd, preaccept_senders <- ep_preaccept_senders,
    pending_client <- ep_pending_client, net <- ep_net, replies <- ep_replies

\* Each client of PBFT asks for one thing, every client for something else.
PbftRequests ==
    LET ask == CHOOSE f \in [PbftClients -> PbftDigests] :
                  \A c, d \in PbftClients : f[c] = f[d] => c = d
    IN  {<<c, ask[c]>> : c \in PbftClients}

PBFTHost == INSTANCE Pbft WITH
    Nodes <- PbftNodes, Primary <- PbftPrimary, Live <- PbftLive, F <- PbftFaults,
    Clients <- PbftClients, Digests <- PbftDigests, None <- NoClient,
    Requests <- PbftRequests,
    CheckpointInterval <- 1, MaxPending <- 2, MaxCached <- 2, MaxSeq <- PbftRounds,
    seq_num <- bft_seq_num, phase <- bft_phase, request_digest <- bft_request_digest,
    prepare_senders <- bft_prepare_senders, commit_senders <- bft_commit_senders,
    low_watermark <- bft_low_watermark, high_watermark <- bft_high_watermark,
    executed <- bft_executed, pending_requests <- bft_pending_requests,
    active_client <- bft_active_client, completed_requests <- bft_completed_requests,
    completed_clients <- bft_completed_clients, cur_pre_prepare <- bft_cur_pre_prepare,
    prev_pre_prepare <- bft_prev_pre_prepare, net <- bft_net, replies <- bft_replies

ep_vars == <<ep_phase, ep_cmd, ep_preaccept_senders, ep_pending_client, ep_net, ep_replies>>
bft_vars == <<bft_seq_num, bft_phase, bft_request_digest, bft_prepare_senders,
              bft_commit_senders, bft_low_watermark, bft_high_watermark, bft_executed,
              bft_pending_requests, bft_active_client, bft_completed_requests,
              bft_completed_clients, bft_cur_pre_prepare, bft_prev_pre_prepare, bft_net,
              bft_replies>>

hosts_vars == <<protocol, vars, ep_vars, bft_vars>>

HostsInit ==
    /\ protocol \in {"rsl", "epaxos", "pbft"}
    /\ RequestsInit /\ EPaxosHost!Init /\ PBFTHost!CInit

\* A scheduling turn of the host that runs.
step ==
    \/ protocol = "rsl" /\ Next /\ UNCHANGED <<ep_vars, bft_vars>>
    \/ protocol = "epaxos" /\ EPaxosHost!Next /\ UNCHANGED <<vars, bft_vars>>
    \/ protocol = "pbft" /\ PBFTHost!Next /\ UNCHANGED <<vars, ep_vars>>

HostsNext == step /\ UNCHANGED protocol
-----------------------------------------------------------------------------
(***************************************************************************)
(* What the loops of the hosts and the network owe.                        *)
(***************************************************************************)
\* Every replica keeps checking its timers and sending heartbeats, and a heartbeat
\* that keeps being sent arrives.
RslFairness ==
    \A r \in Replicas :
        /\ WF_vars(protocol = "rsl" /\ CProposerCheckForViewTimeout(r))
        /\ WF_vars(protocol = "rsl" /\ CProposerCheckForQuorumOfViewSuspicions(r))
        /\ WF_vars(protocol = "rsl" /\ CReplicaNextReadClockMaybeSendHeartbeat(r))
        /\ WF_vars(protocol = "rsl" /\ \E p \in net : CProposerProcessHeartbeat(r, p))

\* The timer actions have their turns.  A client that is not answered keeps asking,
\* and a packet that is resent until it is answered arrives.
EPaxosFairness ==
    /\ \A n \in EPaxosLive :
          /\ WF_ep_vars(/\ protocol = "epaxos"
                        /\ \/ EPaxosHost!try_fast_commit(n)
                           \/ EPaxosHost!try_execute(n)
                           \/ EPaxosHost!try_new_instance(n))
          /\ WF_ep_vars(/\ protocol = "epaxos"
                        /\ \E m \in ep_net : EPaxosHost!handle_preaccept(n, m))
          /\ SF_ep_vars(/\ protocol = "epaxos"
                        /\ \E m \in ep_net : EPaxosHost!handle_preaccept_ok(n, m))
    /\ \A c \in EPaxosClients :
          SF_ep_vars(/\ protocol = "epaxos"
                     /\ <<c, c>> \notin ep_replies
                     /\ \E n \in EPaxosLive : EPaxosHost!try_propose(n, c))

\* A packet that is sent again for ever arrives at last, every running node's
\* loop turns, and a client asks until it is answered.  Nothing is assumed of the
\* answers to nodes that are behind, which are limited in number.
PbftFairness ==
    /\ \A n \in PbftLive :
          /\ WF_bft_vars(protocol = "pbft" /\ PBFTHost!Receive(n))
          /\ WF_bft_vars(protocol = "pbft" /\ PBFTHost!broadcast_commit_votes(n))
    /\ WF_bft_vars(protocol = "pbft" /\ PBFTHost!try_pre_prepare_and_new_round)
    /\ \A r \in PbftRequests :
          WF_bft_vars(/\ protocol = "pbft"
                      /\ r \notin bft_replies
                      /\ PBFTHost!handle_client_request(r[1], r[2]))

HostsSpec ==
    /\ HostsInit /\ [][HostsNext]_hosts_vars
    /\ RslFairness /\ EPaxosFairness /\ PbftFairness
-----------------------------------------------------------------------------
\* EPaxos/host.rs: with a node down, every client is answered, for its own command
\* and no other: recovery never takes a ready quorum away, and requests of several
\* clients that meet at a busy node are not mixed up.
EPaxosClientsAnswered == []<>(protocol = "epaxos" => EPaxosHost!AllAnswered)

\* PBFT/host.rs: with a node down, every request is answered, although votes for
\* rounds not entered yet are ignored, and has one round, however often and in
\* whatever stage its client repeats it.  The one exception is a node that waits for
\* ever in a round that another has finished, because its votes to commit are never
\* the ones that the limit on catch-up lets through.
PbftRequestsAnswered ==
    \/ []<>(protocol = "pbft" => PBFTHost!AllAnswered)
    \/ \E n \in PbftLive : <>[]PBFTHost!Behind(n)
=============================================================================
