-------------------------- MODULE ChainReplication --------------------------
(***************************************************************************)
(* The chain replication host: chain_gen.rs driven by                      *)
(* implementation/ChainReplication/host.rs.  Node 0 is the head and node   *)
(* N - 1 the tail.  No code calls CNodeFail or CReconfigure, so the chain  *)
(* never changes and alive is always true.                                 *)
(*                                                                         *)
(* A packet once sent stays in net: it may arrive late, repeatedly or      *)
(* never.                                                                  *)
(***************************************************************************)
EXTENDS Integers, Sequences, SequencesExt

CONSTANTS
    N,            \* chain_len, at least 2
    Values, None,
    MaxHistory,   \* bound on the head's history
    MaxCommits    \* bound on committed_count

VARIABLES history, pending_sent, committed_count, obj_value, net

vars == <<history, pending_sent, committed_count, obj_value, net>>

Nodes == 0 .. N - 1
TailNode == N - 1

Forward(n, v) == [type |-> "Forward", dst |-> n + 1, value |-> v]

Ack(n, v) == [type |-> "Ack", dst |-> n - 1, value |-> v]

Init ==
    /\ history = [n \in Nodes |-> <<>>]
    /\ pending_sent = [n \in Nodes |-> {}]
    /\ committed_count = 0
    /\ obj_value = None
    /\ net = {}

\* A value is refused only while it is on its way: once acknowledged, it may be
\* written again.
head_receive_write(v) ==
    /\ Len(history[0]) < MaxHistory
    /\ v \notin pending_sent[0]
    /\ history' = [history EXCEPT ![0] = Append(@, v)]
    /\ pending_sent' = [pending_sent EXCEPT ![0] = @ \cup {v}]
    /\ UNCHANGED <<committed_count, obj_value, net>>

\* The next element of a hash set: any.
try_forward_to_successor(n) ==
    /\ n # TailNode
    /\ \E v \in pending_sent[n] : net' = net \cup {Forward(n, v)}
    /\ UNCHANGED <<history, pending_sent, committed_count, obj_value>>

\* Mutant: a middle node acknowledges what it has just been sent.
receive_update_ack(n, v) ==
    /\ n # 0
    /\ ~Contains(history[n], v)
    /\ history' = [history EXCEPT ![n] = Append(@, v)]
    /\ pending_sent' = [pending_sent EXCEPT ![n] = IF n = TailNode THEN @ ELSE @ \cup {v}]
    /\ net' = net \cup {Ack(n, v)}
    /\ UNCHANGED <<committed_count, obj_value>>

receive_update(n, v) ==
    /\ n # 0
    /\ ~Contains(history[n], v)
    /\ history' = [history EXCEPT ![n] = Append(@, v)]
    /\ pending_sent' = [pending_sent EXCEPT ![n] = IF n = TailNode THEN @ ELSE @ \cup {v}]
    /\ UNCHANGED <<committed_count, obj_value, net>>

\* The tail commits the first value of its history at every turn of its timer.
try_tail_commit ==
    /\ history[TailNode] # <<>>
    /\ committed_count < MaxCommits
    /\ committed_count' = committed_count + 1
    /\ obj_value' = Head(history[TailNode])
    /\ net' = net \cup {Ack(TailNode, Head(history[TailNode]))}
    /\ UNCHANGED <<history, pending_sent>>

\* A middle node passes an acknowledgement on once.
receive_ack(n, v) ==
    /\ n # TailNode
    /\ v \in pending_sent[n]
    /\ pending_sent' = [pending_sent EXCEPT ![n] = @ \ {v}]
    /\ net' = IF n = 0 THEN net ELSE net \cup {Ack(n, v)}
    /\ UNCHANGED <<history, committed_count, obj_value>>

Deliver(n) ==
    \E m \in net :
        /\ m.dst = n
        /\ \/ m.type = "Forward" /\ receive_update(n, m.value)
           \/ m.type = "Ack" /\ receive_ack(n, m.value)

Next ==
    \/ \E v \in Values : head_receive_write(v)
    \/ \E n \in Nodes : try_forward_to_successor(n) \/ Deliver(n)
    \/ try_tail_commit

Spec == Init /\ [][Next]_vars
-----------------------------------------------------------------------------
\* The tail has committed value v, and the nodes after n have v and do not wait for it.
CommittedAfter(n, v) ==
    /\ committed_count > 0 /\ obj_value = v
    /\ \A k \in n + 1 .. TailNode : v \in ToSet(history[k]) \ pending_sent[k]

\* A value that a node has and no longer waits for is committed, and every node after
\* it has the value and no longer waits for it, however late or often packets arrive.
\* The code knows values, not writes: when a committed value is written again, an
\* acknowledgement of the first write ends the wait for the second, which the other
\* nodes refuse because they have the value.
AckedDownstream ==
    \A n \in Nodes \ {TailNode} : \A v \in ToSet(history[n]) \ pending_sent[n] :
        CommittedAfter(n, v)

\* Why: so it is with an acknowledgement that is on its way to a node; what a node
\* waits for is in its own history, the tail waits for nothing, and what it commits is
\* always the first value of its history.
IInv ==
    /\ history \in [Nodes -> Seq(Values)]
    /\ pending_sent \in [Nodes -> SUBSET Values]
    /\ \A n \in Nodes : pending_sent[n] \subseteq ToSet(history[n])
    /\ pending_sent[TailNode] = {}
    /\ committed_count \in Nat
    /\ committed_count > 0 =>
          history[TailNode] # <<>> /\ obj_value = Head(history[TailNode])
    /\ \A m \in net :
          /\ m.dst \in Nodes /\ m.value \in Values
          /\ m.type = "Ack" => CommittedAfter(m.dst, m.value)
    /\ AckedDownstream
=============================================================================
