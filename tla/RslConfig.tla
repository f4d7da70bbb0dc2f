----------------------------- MODULE RslConfig ------------------------------
(***************************************************************************)
(* The configuration and the ballots of the replicated state machine       *)
(* library (RSL, a Multi-Paxos).  A view is a ballot; its proposer_id is   *)
(* the replica that leads it.                                              *)
(***************************************************************************)
EXTENDS Integers, Sequences, FiniteSets

CONSTANTS
    NumReplicas,    \* config.replica_ids.len()
    MaxIntegerVal,  \* params.max_integer_val
    MaxView         \* bound of the instance: no view above it is started

ASSUME ConfigAssumption ==
    /\ NumReplicas \in Nat \ {0}
    /\ MaxIntegerVal \in Nat \ {0}

Replicas == 0 .. (NumReplicas - 1)

CMinQuorumSize == (NumReplicas \div 2) + 1

IsQuorum(S) == Cardinality(S) >= CMinQuorumSize

\* Views are started only below max_integer_val, so no ballot exceeds it.
Ballots == [seqno : 0 .. MaxIntegerVal, proposer_id : Replicas]

CBallot(n, i) == [seqno |-> n, proposer_id |-> i]

CBalLt(ba, bb) ==
    \/ ba.seqno < bb.seqno
    \/ ba.seqno = bb.seqno /\ ba.proposer_id < bb.proposer_id

CBalLeq(ba, bb) ==
    \/ ba.seqno < bb.seqno
    \/ ba.seqno = bb.seqno /\ ba.proposer_id <= bb.proposer_id

\* The view that follows b: the next replica leads, or the first one of the
\* next round.
CComputeSuccessorView(b) ==
    IF b.proposer_id + 1 < NumReplicas
    THEN CBallot(b.seqno, b.proposer_id + 1)
    ELSE CBallot(b.seqno + 1, 0)

CUpperBoundedAddition(x, y, bound) == IF x + y < bound THEN x + y ELSE bound
=============================================================================
