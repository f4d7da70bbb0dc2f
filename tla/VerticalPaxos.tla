--------------------------- MODULE VerticalPaxos ----------------------------
(***************************************************************************)
(* The Vertical Paxos host: vpaxos_gen.rs driven by                        *)
(* implementation/VerticalPaxos/host.rs.  Nothing calls CDeactivate or     *)
(* CWitnessSync, so every node is active for ever and ignores every Sync;  *)
(* a Commit is only logged.  No request reaches the host and every value   *)
(* is 0: values are left out.                                              *)
(*                                                                         *)
(* The timer takes its four turns in order.  A packet once sent stays in   *)
(* net: it may arrive late, repeatedly or never.                           *)
(***************************************************************************)
EXTENDS Naturals, FiniteSets

CONSTANTS
    N,             \* num_nodes
    MaxCounter     \* bound on each node's ballot_counter: the cycles of its timer

VARIABLES
    config_num, max_bal, max_v_bal, promises_rcvd, accepts_rcvd, committed,
    ballot_counter, action_index,
    net,
    votes          \* history: who has accepted whose ballot in which configuration

vars == <<config_num, max_bal, max_v_bal, promises_rcvd, accepts_rcvd, committed,
          ballot_counter, action_index, net, votes>>

Nodes == 0 .. N - 1

quorum_size == (N \div 2) + 1

Prepare(n, b) == [type |-> "Prepare", src |-> n, ballot |-> b]

Promise(n, dst, b) ==
    [type |-> "Promise", src |-> n, dst |-> dst, ballot |-> b, v_bal |-> max_v_bal[n]]

Accept(n, b) == [type |-> "Accept", src |-> n, ballot |-> b]

\* It does not say of which ballot.
AcceptOk(n, dst) == [type |-> "AcceptOk", src |-> n, dst |-> dst]

Init ==
    /\ config_num = [n \in Nodes |-> 0]
    /\ max_bal = [n \in Nodes |-> 0]
    /\ max_v_bal = [n \in Nodes |-> 0]
    /\ promises_rcvd = [n \in Nodes |-> {}]
    /\ accepts_rcvd = [n \in Nodes |-> {}]
    /\ committed = [n \in Nodes |-> FALSE]
    /\ ballot_counter = [n \in Nodes |-> 0]
    /\ action_index = [n \in Nodes |-> 0]
    /\ net = {}
    /\ votes = {}
-----------------------------------------------------------------------------
(***************************************************************************)
(* Packets.                                                                *)
(***************************************************************************)
handle_prepare(n, m) ==
    /\ m.type = "Prepare" /\ m.src # n
    /\ m.ballot > max_bal[n]
    /\ max_bal' = [max_bal EXCEPT ![n] = m.ballot]
    /\ net' = net \cup {Promise(n, m.src, m.ballot)}
    /\ UNCHANGED <<config_num, max_v_bal, promises_rcvd, accepts_rcvd, committed,
                   ballot_counter, action_index, votes>>

handle_promise(n, m) ==
    /\ m.type = "Promise" /\ m.dst = n
    /\ m.ballot = max_bal[n]
    /\ m.src \notin promises_rcvd[n]
    /\ promises_rcvd' = [promises_rcvd EXCEPT ![n] = @ \cup {m.src}]
    /\ max_v_bal' = [max_v_bal EXCEPT ![n] = IF m.v_bal > @ THEN m.v_bal ELSE @]
    /\ UNCHANGED <<config_num, max_bal, accepts_rcvd, committed, ballot_counter,
                   action_index, net, votes>>

\* CAccept, of acceptor and proposer.
Vote(n, proposer) ==
    /\ max_v_bal' = [max_v_bal EXCEPT ![n] = max_bal[n]]
    /\ votes' = votes \cup {[voter |-> n, config |-> config_num[n], proposer |-> proposer]}

\* Mutant: a ballot that is not voted for is answered too.
answer_accept(n, m) ==
    /\ m.type = "Accept" /\ m.src # n
    /\ IF m.ballot = max_bal[n] /\ m.ballot > max_v_bal[n]
       THEN Vote(n, m.src) ELSE UNCHANGED <<max_v_bal, votes>>
    /\ net' = net \cup {AcceptOk(n, m.src)}
    /\ UNCHANGED <<config_num, max_bal, promises_rcvd, accepts_rcvd, committed,
                   ballot_counter, action_index>>

handle_accept(n, m) ==
    /\ m.type = "Accept" /\ m.src # n
    /\ m.ballot = max_bal[n]
    /\ m.ballot > max_v_bal[n]
    /\ Vote(n, m.src)
    /\ net' = net \cup {AcceptOk(n, m.src)}
    /\ UNCHANGED <<config_num, max_bal, promises_rcvd, accepts_rcvd, committed,
                   ballot_counter, action_index>>

\* Whatever ballot the sender accepted, it counts for the present one.
handle_accept_ok(n, m) ==
    /\ m.type = "AcceptOk" /\ m.dst = n
    /\ m.src \notin accepts_rcvd[n]
    /\ accepts_rcvd' = [accepts_rcvd EXCEPT ![n] = @ \cup {m.src}]
    /\ UNCHANGED <<config_num, max_bal, max_v_bal, promises_rcvd, committed,
                   ballot_counter, action_index, net, votes>>
-----------------------------------------------------------------------------
(***************************************************************************)
(* Timer: each turn does its work if it may, and the next turn follows.    *)
(***************************************************************************)
\* The promises and acceptances counted so far are kept for the new ballot.
try_prepare(n) ==
    LET b == (ballot_counter[n] + 1) * N + n
    IN  /\ ballot_counter[n] < MaxCounter[n]
        /\ ballot_counter' = [ballot_counter EXCEPT ![n] = @ + 1]
        /\ IF b > max_bal[n]
           THEN /\ max_bal' = [max_bal EXCEPT ![n] = b]
                /\ net' = net \cup {Prepare(n, b)}
           ELSE UNCHANGED <<max_bal, net>>
        /\ UNCHANGED <<config_num, max_v_bal, promises_rcvd, accepts_rcvd, committed, votes>>

\* max_bal may be the ballot of another proposer, promised since.
try_accept(n) ==
    /\ IF Cardinality(promises_rcvd[n]) >= quorum_size /\ max_bal[n] > max_v_bal[n]
       THEN /\ Vote(n, n)
            /\ net' = net \cup {Accept(n, max_bal[n])}
       ELSE UNCHANGED <<max_v_bal, votes, net>>
    /\ UNCHANGED <<config_num, max_bal, promises_rcvd, accepts_rcvd, committed, ballot_counter>>

try_commit(n) ==
    /\ committed' = [committed EXCEPT ![n] = @ \/ Cardinality(accepts_rcvd[n]) >= quorum_size]
    /\ UNCHANGED <<config_num, max_bal, max_v_bal, promises_rcvd, accepts_rcvd,
                   ballot_counter, net, votes>>

\* The node alone moves on; committed stays true.
try_reconfigure(n) ==
    /\ IF committed[n]
       THEN /\ config_num' = [config_num EXCEPT ![n] = @ + 1]
            /\ max_bal' = [max_bal EXCEPT ![n] = 0]
            /\ max_v_bal' = [max_v_bal EXCEPT ![n] = 0]
            /\ promises_rcvd' = [promises_rcvd EXCEPT ![n] = {}]
            /\ accepts_rcvd' = [accepts_rcvd EXCEPT ![n] = {}]
       ELSE UNCHANGED <<config_num, max_bal, max_v_bal, promises_rcvd, accepts_rcvd>>
    /\ UNCHANGED <<committed, ballot_counter, net, votes>>

Timer(n) ==
    /\ \/ action_index[n] = 0 /\ try_prepare(n)
       \/ action_index[n] = 1 /\ try_accept(n)
       \/ action_index[n] = 2 /\ try_commit(n)
       \/ action_index[n] = 3 /\ try_reconfigure(n)
    /\ action_index' = [action_index EXCEPT ![n] = (@ + 1) % 4]

Handle(n, m) ==
    handle_prepare(n, m) \/ handle_promise(n, m) \/ handle_accept(n, m) \/ handle_accept_ok(n, m)

Next == \E n \in Nodes : Timer(n) \/ \E m \in net : Handle(n, m)

Spec == Init /\ [][Next]_vars
-----------------------------------------------------------------------------
\* The nodes that have voted for a ballot of n, itself apart.
Voters(n) == {v.voter : v \in {w \in votes : w.proposer = n /\ w.voter # n}}

\* Behind a commit there is a quorum of nodes, each of which has voted for what
\* the committing node proposed: a refusal or another proposer's vote never
\* counts.  That the votes are of one ballot is not guaranteed, nor of one
\* configuration.
CommittedByVoters ==
    \A n \in Nodes : committed[n] => Cardinality(Voters(n)) >= quorum_size

\* Why: an AcceptOk answers a vote for its addressee, so what a node has counted,
\* for whichever of its ballots, are such votes.
IInv ==
    /\ accepts_rcvd \in [Nodes -> SUBSET Nodes]
    /\ committed \in [Nodes -> BOOLEAN]
    /\ \A v \in votes : v.voter \in Nodes
    /\ \A m \in net : m.type = "AcceptOk" => m.src \in Voters(m.dst)
    /\ \A n \in Nodes : accepts_rcvd[n] \subseteq Voters(n)
    /\ CommittedByVoters
=============================================================================
