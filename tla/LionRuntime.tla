---------------------------- MODULE LionRuntime -----------------------------
(***************************************************************************)
(* The Lion runtime: a process is a server that main.rs runs over UDP or   *)
(* over TCP, as its configuration says, or one of the clients of a machine *)
(* that number their requests from one checkpoint.  What does not run      *)
(* stays as it is initially.                                               *)
(***************************************************************************)
EXTENDS ClientSequence

CONSTANTS
    UdpPeers, UdpSizes, UdpMessages, UdpRestarts,    \* UDP
    MaxQueuedMessages, MaxQueuedBytes, MaxBatchSize, MaxReassemblyBytes, MaxReassemblies,
    MaxPeerReassemblies, ReassemblyTimeout,
    Members, Clients, Tasks, Frames,                 \* TCP
    ConnectionQueue, ReceiveQueue

\* Messages are not empty, and no frame is the absence of one.
ASSUME LionAssumption ==
    /\ UdpSizes \subseteq Nat \ {0}
    /\ MaxBatchSize \in Nat /\ MaxReassemblyBytes \in Nat /\ MaxPeerReassemblies \in Nat
    /\ ReassemblyTimeout \in Nat
    /\ None \notin Frames

VARIABLES
    process,
    udp_pending, udp_frames, udp_session, udp_sequence, udp_enqueued, udp_net,
    udp_messages, udp_retained_bytes, udp_next_expiry, udp_delivered,
    tcp_connections, tcp_stage, tcp_queue, tcp_waiting, tcp_writing, tcp_holding,
    tcp_inbox, tcp_listener, tcp_answer, tcp_written, tcp_shutdown

Udp == INSTANCE UdpTransport WITH
    Peers <- UdpPeers, Sizes <- UdpSizes, MaxMessages <- UdpMessages, MaxRestarts <- UdpRestarts,
    pending <- udp_pending, frames <- udp_frames, session <- udp_session,
    sequence <- udp_sequence, enqueued <- udp_enqueued, net <- udp_net,
    messages <- udp_messages, retained_bytes <- udp_retained_bytes,
    next_expiry <- udp_next_expiry, delivered <- udp_delivered

Tcp == INSTANCE StreamTransport WITH
    connections <- tcp_connections, stage <- tcp_stage, queue <- tcp_queue,
    waiting <- tcp_waiting, writing <- tcp_writing, holding <- tcp_holding,
    inbox <- tcp_inbox, listener <- tcp_listener, answer <- tcp_answer,
    written <- tcp_written, shutdown <- tcp_shutdown

udp_vars == <<udp_pending, udp_frames, udp_session, udp_sequence, udp_enqueued, udp_net,
              udp_messages, udp_retained_bytes, udp_next_expiry, udp_delivered>>
tcp_vars == <<tcp_connections, tcp_stage, tcp_queue, tcp_waiting, tcp_writing, tcp_holding,
              tcp_inbox, tcp_listener, tcp_answer, tcp_written, tcp_shutdown>>

run ==
    /\ process \in {"run_udp", "run_stream", "client"}
    /\ Init /\ Udp!Init /\ Tcp!Init

RuntimeNext ==
    /\ \/ process = "client" /\ Next /\ UNCHANGED <<udp_vars, tcp_vars>>
       \/ process = "run_udp" /\ Udp!Next /\ UNCHANGED <<vars, tcp_vars>>
       \/ process = "run_stream" /\ Tcp!Next /\ UNCHANGED <<vars, udp_vars>>
    /\ UNCHANGED process
-----------------------------------------------------------------------------
\* Time passes, and the loop of run_udp turns at the latest when a deadline is due.
UdpFairness == WF_udp_vars(process = "run_udp" /\ (Udp!Tick \/ Udp!expire))

\* A handshake ends after HANDSHAKE_TIMEOUT and a write after WRITE_TIMEOUT; a task
\* takes the next frame and sees the shutdown; the loop of run_stream receives; and
\* places in the inbox go to those who wait in the order of their coming.
TcpFairness ==
    /\ \A t \in Tasks :
          /\ WF_tcp_vars(/\ process = "run_stream"
                         /\ \/ \E p \in Tcp!Peers : Tcp!accept_connection(t, p)
                            \/ Tcp!accept_failed(t) \/ Tcp!connected(t) \/ Tcp!connect_failed(t)
                            \/ Tcp!take(t) \/ Tcp!write_frame(t) \/ Tcp!write_failed(t)
                            \/ Tcp!run_stop(t))
          /\ SF_tcp_vars(process = "run_stream" /\ Tcp!report(t))
    /\ WF_tcp_vars(process = "run_stream" /\ Tcp!recv)
    /\ SF_tcp_vars(process = "run_stream" /\ Tcp!accept_stop)

RuntimeSpec ==
    /\ run /\ [][RuntimeNext]_<<process, vars, udp_vars, tcp_vars>>
    /\ UdpFairness /\ TcpFairness
-----------------------------------------------------------------------------
(***************************************************************************)
(* Properties, beside those of ClientSequence.                             *)
(***************************************************************************)
\* udp.rs: what the replica is given is one whole message of the peer it is said
\* to be from, also when fragments of an earlier session of the peer come late.
DeliveredWhole == Udp!DeliveredWhole

\* udp.rs: the receiver's account of bytes and its cached deadline are those of
\* its assemblies, which keep to the budget and to each peer's share of the table.
AccountsKept == Udp!AccountsKept

\* udp.rs: no assembly holds its place in the table for ever.
AssembliesEnd == Udp!AssembliesEnd

\* stream.rs: the routes of a peer are its open connections, and every frame that
\* somebody waits for is with one of them.
RoutesOpen == Tcp!RoutesOpen

\* stream.rs: success means that the frame was written in full, and a frame that
\* was refused or withdrawn in time is never written afterwards.
SuccessMeansWritten == Tcp!SuccessMeansWritten

\* stream.rs: nobody waits for a frame for ever, whatever becomes of its peer.
SendsAnswered == Tcp!SendsAnswered

\* stream.rs: the permits of connections that failed come back, and all of them
\* after the shutdown.
PermitsReturned == Tcp!PermitsReturned
=============================================================================
