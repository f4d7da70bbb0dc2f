------------------------------- MODULE EPaxos -------------------------------
(***************************************************************************)
(* The EPaxos host: epaxos_gen.rs driven by implementation/EPaxos/host.rs. *)
(* Every node leads one instance at a time, for a client's command.        *)
(*                                                                         *)
(* A handler of PreAccept always reports no conflict, so has_conflict is   *)
(* never set and the slow path (StartAccept, Accept, AcceptOk, SlowCommit) *)
(* is never entered: it is left out.  So are ballots and sequence numbers, *)
(* which no handler compares, and Commit messages, which no handler uses.  *)
(*                                                                         *)
(* A client's command is the client, whose request may be repeated, and    *)
(* repetitions may arrive, at any time.  A packet once sent stays in net:  *)
(* it may arrive late, repeatedly or never.                                *)
(***************************************************************************)
EXTENDS Naturals, FiniteSets

CONSTANTS
    N,          \* nodes, 0 .. N - 1; at least 3
    Live,       \* the nodes that are up
    Clients,
    NoClient

VARIABLES
    phase, cmd, preaccept_senders, pending_client,  \* of each node
    net,
    replies     \* what clients were told: <<client, command>>

vars == <<phase, cmd, preaccept_senders, pending_client, net, replies>>

Nodes == 0 .. N - 1

FastQuorumSize == N - 1

PreAccept(leader, c) == [type |-> "PreAccept", src |-> leader, cmd |-> c]

\* It names neither the command nor the round that it answers.
PreAcceptOk(sender, leader) == [type |-> "PreAcceptOk", sender |-> sender, dst |-> leader]

Init ==
    /\ phase = [n \in Nodes |-> "Empty"]
    /\ cmd = [n \in Nodes |-> NoClient]
    /\ preaccept_senders = [n \in Nodes |-> {}]
    /\ pending_client = [n \in Nodes |-> NoClient]
    /\ net = {}
    /\ replies = {}

Answered(c) == \E c2 \in Clients : <<c, c2>> \in replies

\* A request, also a repeated one, that finds the instance busy is dropped.
try_propose(n, c) ==
    /\ phase[n] = "Empty"
    /\ pending_client' = [pending_client EXCEPT ![n] = c]
    /\ cmd' = [cmd EXCEPT ![n] = c]
    /\ preaccept_senders' = [preaccept_senders EXCEPT ![n] = {n}]
    /\ phase' = [phase EXCEPT ![n] = "PreAccepted"]
    /\ net' = net \cup {PreAccept(n, c)}
    /\ UNCHANGED replies

handle_preaccept(n, m) ==
    /\ m.type = "PreAccept" /\ m.src # n
    /\ net' = net \cup {PreAcceptOk(n, m.src)}
    /\ UNCHANGED <<phase, cmd, preaccept_senders, pending_client, replies>>

handle_preaccept_ok(n, m) ==
    /\ m.type = "PreAcceptOk" /\ m.dst = n
    /\ phase[n] = "PreAccepted"
    /\ m.sender \notin preaccept_senders[n]
    /\ preaccept_senders' = [preaccept_senders EXCEPT ![n] = @ \cup {m.sender}]
    /\ UNCHANGED <<phase, cmd, pending_client, net, replies>>

QuorumReady(n) == Cardinality(preaccept_senders[n]) >= FastQuorumSize

try_fast_commit(n) ==
    /\ phase[n] = "PreAccepted"
    /\ QuorumReady(n)
    /\ phase' = [phase EXCEPT ![n] = "Committed"]
    /\ UNCHANGED <<cmd, preaccept_senders, pending_client, net, replies>>

try_execute(n) ==
    /\ phase[n] = "Committed"
    /\ phase' = [phase EXCEPT ![n] = "Executed"]
    /\ pending_client' = [pending_client EXCEPT ![n] = NoClient]
    /\ replies' = IF pending_client[n] = NoClient THEN replies
                  ELSE replies \cup {<<pending_client[n], cmd[n]>>}
    /\ UNCHANGED <<cmd, preaccept_senders, net>>

try_new_instance(n) ==
    /\ phase[n] = "Executed"
    /\ phase' = [phase EXCEPT ![n] = "Empty"]
    /\ cmd' = [cmd EXCEPT ![n] = NoClient]
    /\ preaccept_senders' = [preaccept_senders EXCEPT ![n] = {}]
    /\ UNCHANGED <<pending_client, net, replies>>

\* Mutant: a ready quorum does not keep the instance from recovery.
try_recover_always(n) ==
    /\ phase[n] = "PreAccepted"
    /\ preaccept_senders' = [preaccept_senders EXCEPT ![n] = {n}]
    /\ net' = net \cup {PreAccept(n, cmd[n])}
    /\ UNCHANGED <<phase, cmd, pending_client, replies>>

\* The timeout may have passed at any time: acknowledgments are forgotten and the
\* PreAccept is sent again, unless the quorum is ready.
try_recover(n) ==
    /\ phase[n] = "PreAccepted"
    /\ ~QuorumReady(n)
    /\ preaccept_senders' = [preaccept_senders EXCEPT ![n] = {n}]
    /\ net' = net \cup {PreAccept(n, cmd[n])}
    /\ UNCHANGED <<phase, cmd, pending_client, replies>>

Next ==
    \E n \in Live :
        \/ \E c \in Clients : try_propose(n, c)
        \/ \E m \in net : handle_preaccept(n, m) \/ handle_preaccept_ok(n, m)
        \/ try_fast_commit(n) \/ try_execute(n) \/ try_new_instance(n) \/ try_recover(n)

Spec == Init /\ [][Next]_vars
-----------------------------------------------------------------------------
\* Every client is answered, for its own command and for no other: replies are not
\* taken back, so that a wrong one would make this false for ever.
AllAnswered ==
    /\ \A c \in Clients : <<c, c>> \in replies
    /\ \A r \in replies : r[1] = r[2]
=============================================================================
