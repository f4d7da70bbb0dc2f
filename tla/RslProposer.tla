---------------------------- MODULE RslProposer -----------------------------
(***************************************************************************)
(* The proposer of every replica: phase 1 and 2 of the ballot it leads.    *)
(* Of the election it keeps the current view; when a quorum suspects the   *)
(* view is a nondeterministic choice here.  The request queue is abstract: *)
(* any batch may be waiting when a new value is nominated.                 *)
(***************************************************************************)
EXTENDS RslTypes

VARIABLES proposer, current_view

CProposer == [current_state : 0 .. 2, max_ballot_i_sent_1a : Ballots,
              next_operation_number_to_propose : Opns,
              received_1b_packets : SUBSET CMessage]

CProposerInit ==
    /\ proposer = [r \in Replicas |->
                     [current_state |-> 0,
                      max_ballot_i_sent_1a |-> CBallot(0, r),
                      next_operation_number_to_propose |-> 0,
                      received_1b_packets |-> {}]]
    /\ current_view = [r \in Replicas |-> CBallot(1, 0)]
-----------------------------------------------------------------------------
CSetOfMessage1bAboutBallot(S, b) == \A p \in S : p.type = "1b" /\ p.bal = b

CIsAfterLogTruncationPoint(opn, S) == \A p \in S : p.log_truncation_point <= opn

CAllAcceptorsHadNoProposal(S, opn) == \A p \in S : p.votes[opn] = None

\* v is the value of the highest-ballot vote for opn in S.
CValIsHighestNumberedProposal(v, S, opn) ==
    \E p \in S :
        /\ p.votes[opn] # None
        /\ p.votes[opn].max_val = v
        /\ \A q \in S :
              q.votes[opn] # None =>
                 CBalLeq(q.votes[opn].max_value_bal, p.votes[opn].max_value_bal)

CProposerCanNominateUsingOperationNumber(r, ltp, opn) ==
    /\ current_view[r] = proposer[r].max_ballot_i_sent_1a
    /\ proposer[r].current_state = 2
    /\ Cardinality(proposer[r].received_1b_packets) >= CMinQuorumSize
    /\ CSetOfMessage1bAboutBallot(proposer[r].received_1b_packets,
                                  proposer[r].max_ballot_i_sent_1a)
    /\ CIsAfterLogTruncationPoint(opn, proposer[r].received_1b_packets)
    /\ opn < CUpperBoundedAddition(ltp, MaxLogLength, MaxIntegerVal)
    /\ opn < MaxIntegerVal
-----------------------------------------------------------------------------
\* Phase 1 of the view this replica leads.
CProposerMaybeEnterNewViewAndSend1a(r) ==
    /\ current_view[r].proposer_id = r
    /\ CBalLt(proposer[r].max_ballot_i_sent_1a, current_view[r])
    /\ proposer' = [proposer EXCEPT
                      ![r].current_state = 1,
                      ![r].max_ballot_i_sent_1a = current_view[r],
                      ![r].received_1b_packets = {}]
    /\ UNCHANGED current_view

CProposerProcess1b(r, p) ==
    /\ proposer' = [proposer EXCEPT ![r].received_1b_packets = @ \cup {p}]
    /\ UNCHANGED current_view

CProposerMaybeEnterPhase2(r, ltp) ==
    /\ Cardinality(proposer[r].received_1b_packets) >= CMinQuorumSize
    /\ CSetOfMessage1bAboutBallot(proposer[r].received_1b_packets,
                                  proposer[r].max_ballot_i_sent_1a)
    /\ proposer[r].current_state = 1
    /\ proposer' = [proposer EXCEPT
                      ![r].current_state = 2,
                      ![r].next_operation_number_to_propose = ltp]
    /\ UNCHANGED current_view

\* Both nominations move on to the next operation number.
AdvanceNextOperation(r) ==
    /\ proposer' = [proposer EXCEPT ![r].next_operation_number_to_propose = @ + 1]
    /\ UNCHANGED current_view

\* No acceptor of the quorum voted for opn: the batch v at the head of the
\* queue, or an empty one when a later operation has a vote to be re-proposed.
CProposerNominateNewValueAndSend2a(r, ltp, v) ==
    LET opn == proposer[r].next_operation_number_to_propose
    IN  /\ CProposerCanNominateUsingOperationNumber(r, ltp, opn)
        /\ CAllAcceptorsHadNoProposal(proposer[r].received_1b_packets, opn)
        /\ AdvanceNextOperation(r)

CProposerNominateOldValueAndSend2a(r, ltp, v) ==
    LET opn == proposer[r].next_operation_number_to_propose
    IN  /\ CProposerCanNominateUsingOperationNumber(r, ltp, opn)
        /\ CValIsHighestNumberedProposal(v, proposer[r].received_1b_packets, opn)
        /\ AdvanceNextOperation(r)
-----------------------------------------------------------------------------
\* A view above the current one resets the proposer.
MoveToView(r, b) ==
    /\ current_view' = [current_view EXCEPT ![r] = b]
    /\ proposer' = [proposer EXCEPT ![r].current_state = 0]

CProposerProcessHeartbeat(r, p) ==
    IF CBalLt(current_view[r], p.bal)
    THEN MoveToView(r, p.bal)
    ELSE UNCHANGED <<proposer, current_view>>

\* A quorum of suspicions; who suspects is not part of this module's state.
CProposerCheckForQuorumOfViewSuspicions(r) ==
    LET next == CComputeSuccessorView(current_view[r])
    IN  /\ current_view[r].seqno < MaxIntegerVal
        /\ CBalLeq(next, MaxView)
        /\ MoveToView(r, next)
=============================================================================
