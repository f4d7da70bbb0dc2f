---------------------------- MODULE RslAcceptor -----------------------------
(***************************************************************************)
(* The acceptor of every replica: the ballot it promised, its votes in the *)
(* window that starts at log_truncation_point, and the checkpoints the     *)
(* other replicas reported in their heartbeats.                            *)
(***************************************************************************)
EXTENDS RslTypes

VARIABLE acceptor

CAcceptor == [max_bal : Ballots, votes : CVotes,
              last_checkpointed_operation : [Replicas -> Opns],
              log_truncation_point : Opns]

CAcceptorInit ==
    acceptor = [r \in Replicas |->
                  [max_bal |-> CBallot(0, 0),
                   votes |-> [o \in Opns |-> None],
                   last_checkpointed_operation |-> [s \in Replicas |-> 0],
                   log_truncation_point |-> 0]]
-----------------------------------------------------------------------------
\* Mutant: the vote at the truncation point goes too.
RemoveVotesUpToLogTruncationPoint(votes, ltp) ==
    [o \in Opns |-> IF o <= ltp THEN None ELSE votes[o]]

CRemoveVotesBeforeLogTruncationPoint(votes, ltp) ==
    [o \in Opns |-> IF o < ltp THEN None ELSE votes[o]]

CAddVoteAndRemoveOldOnes(votes, opn, vote, ltp) ==
    CRemoveVotesBeforeLogTruncationPoint([votes EXCEPT ![opn] = vote], ltp)

\* The window of MaxLogLength operations that ends at opn starts here.
TruncationCandidate(opn) ==
    IF opn >= MaxLogLength THEN opn - MaxLogLength + 1 ELSE 0

NewLogTruncationPoint(ltp, opn) ==
    IF TruncationCandidate(opn) > ltp THEN TruncationCandidate(opn) ELSE ltp

\* 1a: promise the ballot if it is higher than every one seen.
CAcceptorProcess1a(r, p) ==
    /\ CBalLt(acceptor[r].max_bal, p.bal)
    /\ acceptor' = [acceptor EXCEPT ![r].max_bal = p.bal]

\* Mutant: the promise does not carry the votes.
Promise1bWithoutVotes(r, p) ==
    Message1b(r, p.src, p.bal, acceptor[r].log_truncation_point,
              [opn \in DOMAIN acceptor[r].votes |-> None])

\* The answer to a 1a, with the state before the promise.
Promise1b(r, p) ==
    Message1b(r, p.src, p.bal, acceptor[r].log_truncation_point,
              acceptor[r].votes)

\* 2a: vote.  Below the truncation point the vote is announced, not recorded.
CAcceptorProcess2a(r, p) ==
    LET a      == acceptor[r]
        newLtp == NewLogTruncationPoint(a.log_truncation_point, p.opn)
        vote   == [max_value_bal |-> p.bal, max_val |-> p.val]
    IN  acceptor' = [acceptor EXCEPT
                       ![r].max_bal = p.bal,
                       ![r].log_truncation_point = newLtp,
                       ![r].votes =
                          IF a.log_truncation_point <= p.opn
                          THEN CAddVoteAndRemoveOldOnes(a.votes, p.opn, vote, newLtp)
                          ELSE a.votes]

CAcceptorProcessHeartbeat(r, p) ==
    acceptor' = [acceptor EXCEPT
                   ![r].last_checkpointed_operation[p.src] =
                      IF p.opn_ckpt > @ THEN p.opn_ckpt ELSE @]

\* Mutant: the votes below the new truncation point stay.
TruncateLogKeepsVotes(a, opn) ==
    IF opn <= a.log_truncation_point THEN a ELSE [a EXCEPT !.log_truncation_point = opn]

TruncateLog(a, opn) ==
    IF opn <= a.log_truncation_point
    THEN a
    ELSE [a EXCEPT !.votes = CRemoveVotesBeforeLogTruncationPoint(@, opn),
                   !.log_truncation_point = opn]

CAcceptorTruncateLog(r, opn) ==
    acceptor' = [acceptor EXCEPT ![r] = TruncateLog(@, opn)]
-----------------------------------------------------------------------------
CountLarger(s, v) == Cardinality({i \in DOMAIN s : s[i] > v})

CountLargerOrEqual(s, v) == Cardinality({i \in DOMAIN s : s[i] >= v})

CIsNthHighestValueInSequence(v, s, n) ==
    /\ 0 < n /\ n <= Cardinality(DOMAIN s)
    /\ \E i \in DOMAIN s : s[i] = v
    /\ CountLarger(s, v) < n
    /\ CountLargerOrEqual(s, v) >= n

\* Mutant: the highest checkpoint of all instead of a quorum's.
TruncationPointOfFastest(opn, last_checkpointed_operation) ==
    CIsNthHighestValueInSequence(opn, last_checkpointed_operation, 1)

\* opn is the highest operation number that a quorum has checkpointed.
CIsLogTruncationPointValid(opn, last_checkpointed_operation) ==
    CIsNthHighestValueInSequence(opn, last_checkpointed_operation, CMinQuorumSize)
=============================================================================
