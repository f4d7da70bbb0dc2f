------------------------------- MODULE Paxos --------------------------------
(***************************************************************************)
(* The single-decree Paxos host: paxos_gen.rs driven by                    *)
(* implementation/Paxos/host.rs.  Every node is proposer and acceptor, but *)
(* a proposer asks only the others.  A node leaves phase Idle once and     *)
(* never returns to it, so it has one ballot.  No request reaches the      *)
(* host, and every node's proposed_val is 0: values are left out, and what *)
(* they would have to agree on is said of the ballots they go with.        *)
(*                                                                         *)
(* A packet once sent stays in net: it may arrive late, repeatedly or      *)
(* never.                                                                  *)
(***************************************************************************)
EXTENDS Naturals, FiniteSets

CONSTANT N     \* the number of nodes, not 0

VARIABLES
    promised_bal, accepted_bal,                      \* of the acceptor
    phase, proposer_bal, promises_rcvd,              \* of the proposer
    highest_accepted_bal, accepts_rcvd,
    net

acceptor_vars == <<promised_bal, accepted_bal>>
proposer_vars == <<phase, proposer_bal, promises_rcvd, highest_accepted_bal, accepts_rcvd>>
vars == <<acceptor_vars, proposer_vars, net>>

Nodes == 0 .. N - 1

quorum_size == (N \div 2) + 1

\* The first ballot of a node, and the only one.
next_ballot(n) == N + n

\* Broadcasts go to all the others.
PrepareMsg(n, b) == [type |-> "Prepare", src |-> n, ballot |-> b]

Promise(n, dst, b) ==
    [type |-> "Promise", src |-> n, dst |-> dst, ballot |-> b, accepted_bal |-> accepted_bal[n]]

Accept(n, b) == [type |-> "Accept", src |-> n, ballot |-> b]

Accepted(n, dst, b) == [type |-> "Accepted", src |-> n, dst |-> dst, ballot |-> b]

Init ==
    /\ promised_bal = [n \in Nodes |-> 0]
    /\ accepted_bal = [n \in Nodes |-> 0]
    /\ phase = [n \in Nodes |-> "Idle"]
    /\ proposer_bal = [n \in Nodes |-> 0]
    /\ promises_rcvd = [n \in Nodes |-> {}]
    /\ highest_accepted_bal = [n \in Nodes |-> 0]
    /\ accepts_rcvd = [n \in Nodes |-> {}]
    /\ net = {}
-----------------------------------------------------------------------------
(***************************************************************************)
(* Timer.                                                                  *)
(***************************************************************************)
try_send1a(n) ==
    /\ phase[n] = "Idle"
    /\ phase' = [phase EXCEPT ![n] = "Phase1"]
    /\ proposer_bal' = [proposer_bal EXCEPT ![n] = next_ballot(n)]
    /\ promises_rcvd' = [promises_rcvd EXCEPT ![n] = {}]
    /\ highest_accepted_bal' = [highest_accepted_bal EXCEPT ![n] = 0]
    /\ net' = net \cup {PrepareMsg(n, next_ballot(n))}
    /\ UNCHANGED <<acceptor_vars, accepts_rcvd>>

try_send2a(n) ==
    /\ phase[n] = "Phase1"
    /\ Cardinality(promises_rcvd[n]) >= quorum_size
    /\ phase' = [phase EXCEPT ![n] = "Phase2"]
    /\ accepts_rcvd' = [accepts_rcvd EXCEPT ![n] = {}]
    /\ net' = net \cup {Accept(n, proposer_bal[n])}
    /\ UNCHANGED <<acceptor_vars, proposer_bal, promises_rcvd, highest_accepted_bal>>

try_learn(n) ==
    /\ phase[n] = "Phase2"
    /\ Cardinality(accepts_rcvd[n]) >= quorum_size
    /\ phase' = [phase EXCEPT ![n] = "Decided"]
    /\ UNCHANGED <<acceptor_vars, proposer_bal, promises_rcvd, highest_accepted_bal,
                   accepts_rcvd, net>>
-----------------------------------------------------------------------------
(***************************************************************************)
(* Packets.                                                                *)
(***************************************************************************)
handle_prepare(n, m) ==
    /\ m.type = "Prepare" /\ m.src # n
    /\ m.ballot >= promised_bal[n]
    /\ promised_bal' = [promised_bal EXCEPT ![n] = m.ballot]
    /\ net' = net \cup {Promise(n, m.src, m.ballot)}
    /\ UNCHANGED <<accepted_bal, proposer_vars>>

\* The ballot of the promise is not read.
handle_promise(n, m) ==
    /\ m.type = "Promise" /\ m.dst = n
    /\ phase[n] = "Phase1"
    /\ m.src \notin promises_rcvd[n]
    /\ promises_rcvd' = [promises_rcvd EXCEPT ![n] = @ \cup {m.src}]
    /\ highest_accepted_bal' =
          [highest_accepted_bal EXCEPT ![n] = IF m.accepted_bal > @ THEN m.accepted_bal ELSE @]
    /\ UNCHANGED <<acceptor_vars, phase, proposer_bal, accepts_rcvd, net>>

\* Mutant: an acceptor forgets its promise.
handle_any_accept(n, m) ==
    /\ m.type = "Accept" /\ m.src # n
    /\ m.ballot >= accepted_bal[n]
    /\ promised_bal' = [promised_bal EXCEPT ![n] = m.ballot]
    /\ accepted_bal' = [accepted_bal EXCEPT ![n] = m.ballot]
    /\ net' = net \cup {Accepted(n, m.src, m.ballot)}
    /\ UNCHANGED proposer_vars

handle_accept(n, m) ==
    /\ m.type = "Accept" /\ m.src # n
    /\ m.ballot >= promised_bal[n]
    /\ promised_bal' = [promised_bal EXCEPT ![n] = m.ballot]
    /\ accepted_bal' = [accepted_bal EXCEPT ![n] = m.ballot]
    /\ net' = net \cup {Accepted(n, m.src, m.ballot)}
    /\ UNCHANGED proposer_vars

\* Nor are the ballot and the value of an Accepted.
handle_accepted(n, m) ==
    /\ m.type = "Accepted" /\ m.dst = n
    /\ phase[n] = "Phase2"
    /\ m.src \notin accepts_rcvd[n]
    /\ accepts_rcvd' = [accepts_rcvd EXCEPT ![n] = @ \cup {m.src}]
    /\ UNCHANGED <<acceptor_vars, phase, proposer_bal, promises_rcvd, highest_accepted_bal, net>>

Handle(n, m) ==
    handle_prepare(n, m) \/ handle_promise(n, m) \/ handle_accept(n, m) \/ handle_accepted(n, m)

Timer(n) == try_send1a(n) \/ try_send2a(n) \/ try_learn(n)

Next == \E n \in Nodes : Timer(n) \/ \E m \in net : Handle(n, m)

Spec == Init /\ [][Next]_vars
-----------------------------------------------------------------------------
\* The ballots that a quorum has accepted.
Chosen == {b \in {m.ballot : m \in net} :
              Cardinality({m.src : m \in {a \in net : a.type = "Accepted" /\ a.ballot = b}})
                 >= quorum_size}

\* Once a quorum has accepted a ballot, every proposer of a higher one that has
\* its quorum of promises has been told of a ballot at least as high: it would
\* propose the chosen value again.
LaterProposersKnow ==
    \A b \in Chosen : \A n \in Nodes :
        phase[n] \in {"Phase2", "Decided"} /\ proposer_bal[n] > b => highest_accepted_bal[n] >= b

\* What the packets of a node say stays true of it: its ballots only grow, so what
\* it has accepted below a ballot that it promised, it told the proposer.
PacketInv(m) ==
    /\ m.src \in Nodes
    /\ m.type \in {"Prepare", "Accept"} => m.ballot = next_ballot(m.src)
    /\ m.type \in {"Promise", "Accepted"} => m.dst \in Nodes /\ m.ballot = next_ballot(m.dst)
    /\ m.type = "Promise" =>
          /\ m.accepted_bal \in Nat
          /\ m.ballot <= promised_bal[m.src]
          /\ \A a \in net : a.type = "Accepted" /\ a.src = m.src /\ a.ballot < m.ballot
                               => a.ballot <= m.accepted_bal
    /\ m.type = "Accepted" => m.ballot <= accepted_bal[m.src]

\* A node that counts in n's quorum has told n of all that it accepted or will
\* ever accept below n's ballot.
ProposerInv(n) ==
    /\ proposer_bal[n] = IF phase[n] = "Idle" THEN 0 ELSE next_ballot(n)
    /\ \A p \in promises_rcvd[n] :
          \E m \in net : /\ m.type = "Promise" /\ m.src = p /\ m.dst = n
                         /\ m.accepted_bal <= highest_accepted_bal[n]
    /\ phase[n] \in {"Phase2", "Decided"} => Cardinality(promises_rcvd[n]) >= quorum_size

IInv ==
    /\ promised_bal \in [Nodes -> Nat]
    /\ accepted_bal \in [Nodes -> Nat]
    /\ phase \in [Nodes -> {"Idle", "Phase1", "Phase2", "Decided"}]
    /\ proposer_bal \in [Nodes -> Nat]
    /\ promises_rcvd \in [Nodes -> SUBSET Nodes]
    /\ highest_accepted_bal \in [Nodes -> Nat]
    /\ \A n \in Nodes : accepted_bal[n] <= promised_bal[n] /\ ProposerInv(n)
    /\ \A m \in net : PacketInv(m)
=============================================================================
