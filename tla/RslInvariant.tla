---------------------------- MODULE RslInvariant ----------------------------
(***************************************************************************)
(* The inductive invariant behind agreement of the replicated state        *)
(* machine library: what the packets in the network say about the state    *)
(* of their senders, and why a proposal is safe.                           *)
(***************************************************************************)
EXTENDS RslReplica

\* A vote answers a proposal of the leader of its ballot.
VotesAreForProposals ==
    \A p \in Sent("2b") : Message2a(p.bal.proposer_id, p.bal, p.opn, p.val) \in net

\* A leader proposes in its own ballots; what it has proposed in the latest
\* one lies below the operation number it proposes next.
ProposalsBelowNext ==
    \A p \in Sent("2a") :
        LET l == proposer[p.src]
        IN  /\ p.bal.proposer_id = p.src
            /\ CBalLeq(p.bal, l.max_ballot_i_sent_1a)
            /\ p.bal = l.max_ballot_i_sent_1a =>
                  /\ l.current_state # 1
                  /\ p.opn < l.next_operation_number_to_propose

\* The promises a proposer holds are for its latest ballot, one per acceptor.
PromisesHeld ==
    \A r \in Replicas :
        LET S == proposer[r].received_1b_packets
        IN  /\ IsFiniteSet(S)
            /\ S \subseteq Sent("1b")
            /\ proposer[r].max_ballot_i_sent_1a.proposer_id = r
            /\ \A p \in S : p.bal = proposer[r].max_ballot_i_sent_1a
            /\ \A p, q \in S : p.src = q.src => p = q

\* No acceptor has promised or voted above its max_bal.
MaxBalIsMax ==
    \A p \in net :
        p.type \in {"1b", "2b"} => CBalLeq(p.bal, acceptor[p.src].max_bal)

\* votes, from ltp on, is what r has voted for in ballots below b: each entry
\* is a vote cast, and the highest of that operation.
VotesUpTo(r, votes, ltp, b) ==
    \A o \in Opns : ltp <= o =>
        /\ votes[o] # None =>
              /\ VotedFor(r, votes[o].max_value_bal, o, votes[o].max_val)
              /\ CBalLt(votes[o].max_value_bal, b)
        /\ \A c \in Ballots, v \in Batches :
              VotedFor(r, c, o, v) /\ CBalLt(c, b) =>
                 votes[o] # None /\ CBalLeq(c, votes[o].max_value_bal)

\* What an acceptor remembers of its own votes; none is above max_bal.
VotesRemembered ==
    \A r \in Replicas, o \in Opns :
        LET a == acceptor[r]
        IN  a.log_truncation_point <= o =>
              /\ a.votes[o] # None =>
                    VotedFor(r, a.votes[o].max_value_bal, o, a.votes[o].max_val)
              /\ \A c \in Ballots, v \in Batches :
                    VotedFor(r, c, o, v) =>
                       a.votes[o] # None /\ CBalLeq(c, a.votes[o].max_value_bal)

\* A promise reports the sender's votes in all lower ballots, for good.
PromisesReportVotes ==
    \A p \in Sent("1b") : VotesUpTo(p.src, p.votes, p.log_truncation_point, p.bal)

\* r has not voted in ballot c for operation o and never will.
WontVote(r, c, o) ==
    /\ \A v \in Batches : ~VotedFor(r, c, o, v)
    /\ CBalLt(c, acceptor[r].max_bal)

\* No batch other than v can be chosen for o in a ballot below b.
SafeAt(b, o, v) ==
    \A c \in Ballots : CBalLt(c, b) =>
        IsQuorum({r \in Replicas : VotedFor(r, c, o, v) \/ WontVote(r, c, o)})

\* Every batch a leader proposed is safe in its ballot.
ProposalsSafe == \A p \in Sent("2a") : SafeAt(p.bal, p.opn, p.val)

\* The senders a learner counts all voted for its candidate in the ballot it
\* has seen last.
LearnedVotesWereCast ==
    \A r \in Replicas, o \in Opns :
        LET t == learner[r].unexecuted_learner_state[o]
        IN  t # None =>
              /\ t.received_2b_message_senders # {}
              /\ \A s \in t.received_2b_message_senders :
                    VotedFor(s, learner[r].max_ballot_seen, o, t.candidate_learned_value)

\* app is the outcome of executing the first n operations as chosen.
IsChosenPrefix(app, n) ==
    /\ Len(app) = n
    /\ \A i \in 1 .. n : app[i] \in ChosenAt(i - 1)

\* What a replica has executed, is about to execute or sends to another.
ExecutedArePrefixes ==
    /\ \A r \in Replicas :
          /\ IsChosenPrefix(executor[r].app, executor[r].ops_complete)
          /\ executor[r].next_op_to_execute # None =>
                executor[r].next_op_to_execute.v \in ChosenAt(executor[r].ops_complete)
    /\ \A p \in Sent("AppStateSupply") : IsChosenPrefix(p.app_state, p.opn)

\* The inductive invariant of agreement: together these parts are preserved
\* by every handler, and they imply that a chosen batch stays the only one.
PaxosInv ==
    /\ TypeOK
    /\ VotesAreForProposals
    /\ ProposalsBelowNext
    /\ OneProposalPerBallot
    /\ PromisesHeld
    /\ MaxBalIsMax
    /\ VotesRemembered
    /\ PromisesReportVotes
    /\ ProposalsSafe
    /\ LearnedVotesWereCast
    /\ ExecutedArePrefixes
-----------------------------------------------------------------------------
(***************************************************************************)
(* The invariant behind the truncation of the log: why what an acceptor    *)
(* throws away is never missed.                                            *)
(***************************************************************************)

\* A quorum has executed every operation below o.
Covered(o) == IsQuorum({q \in Replicas : executor[q].ops_complete >= o})

\* A replica has executed all it ever reported as its checkpoint or supplied as
\* its state, and so all that other replicas believe it has checkpointed.
CheckpointsWereExecuted ==
    /\ \A p \in Sent("Heartbeat") : p.opn_ckpt <= executor[p.src].ops_complete
    /\ \A p \in Sent("AppStateSupply") : p.opn <= executor[p.src].ops_complete
    /\ \A r, s \in Replicas :
          acceptor[r].last_checkpointed_operation[s] <= executor[s].ops_complete

\* The truncation points packets bring, or bring about, are covered: a promise
\* carries one, a proposal moves the window of whoever votes for it.
PacketsTruncateCovered ==
    /\ \A p \in Sent("1b") : Covered(p.log_truncation_point)
    /\ \A p \in Sent("2a") : Covered(TruncationCandidate(p.opn))

\* A proposer's own log starts at or above every promise it holds.
PromisesBelowLog ==
    \A r \in Replicas :
        CIsAfterLogTruncationPoint(acceptor[r].log_truncation_point,
                                   proposer[r].received_1b_packets)

\* The inductive invariant of the log: with the types, these parts are
\* preserved by every handler.
LogInv ==
    /\ VotesInWindow
    /\ TruncationCovered
    /\ LeaderNotBehindPromises
    /\ CheckpointsWereExecuted
    /\ PacketsTruncateCovered
    /\ PromisesBelowLog

\* Everything that is proved inductive about the replicas: agreement on the
\* chosen batches and the coverage of what the acceptors throw away.
RslInv == PaxosInv /\ LogInv
=============================================================================
