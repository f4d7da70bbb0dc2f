----------------------------- MODULE RslLearner -----------------------------
(***************************************************************************)
(* The learner of every replica: the votes it heard of in the highest      *)
(* ballot it has seen, per operation not yet executed.                     *)
(***************************************************************************)
EXTENDS RslTypes

VARIABLE learner

CLearner == [max_ballot_seen : Ballots,
             unexecuted_learner_state : [Opns -> CLearnerTuple \cup {None}]]

CLearnerInit ==
    learner = [r \in Replicas |->
                 [max_ballot_seen |-> CBallot(0, 0),
                  unexecuted_learner_state |-> [o \in Opns |-> None]]]

FirstVote(p) == [received_2b_message_senders |-> {p.src},
                 candidate_learned_value |-> p.val]

\* Mutant: votes of different ballots are counted together.
Process2bOfAnyBallot(r, p) ==
    LET seen == learner[r].unexecuted_learner_state[p.opn]
    IN  /\ CBalLeq(learner[r].max_ballot_seen, p.bal)
        /\ learner' = [learner EXCEPT
              ![r].max_ballot_seen = p.bal,
              ![r].unexecuted_learner_state[p.opn] =
                 IF seen = None THEN FirstVote(p)
                 ELSE [seen EXCEPT !.received_2b_message_senders = @ \cup {p.src}]]

\* A vote of a higher ballot discards everything heard in lower ones.
CLearnerProcess2b(r, p) ==
    LET l    == learner[r]
        seen == l.unexecuted_learner_state[p.opn]
    IN  \/ /\ CBalLt(l.max_ballot_seen, p.bal)
           /\ learner' = [learner EXCEPT
                 ![r].max_ballot_seen = p.bal,
                 ![r].unexecuted_learner_state =
                    [o \in Opns |-> IF o = p.opn THEN FirstVote(p) ELSE None]]
        \/ /\ l.max_ballot_seen = p.bal
           /\ seen = None
           /\ learner' = [learner EXCEPT
                 ![r].unexecuted_learner_state[p.opn] = FirstVote(p)]
        \/ /\ l.max_ballot_seen = p.bal
           /\ seen # None
           /\ p.src \notin seen.received_2b_message_senders
           /\ learner' = [learner EXCEPT
                 ![r].unexecuted_learner_state[p.opn] =
                    [seen EXCEPT !.received_2b_message_senders = @ \cup {p.src}]]

CLearnerForgetDecision(r, opn) ==
    learner' = [learner EXCEPT ![r].unexecuted_learner_state[opn] = None]

CLearnerForgetOperationsBefore(r, ops_complete) ==
    learner' = [learner EXCEPT ![r].unexecuted_learner_state =
                  [o \in Opns |-> IF o < ops_complete THEN None ELSE @[o]]]

\* Mutant: more than a quorum is asked for.
HasMoreThanQuorumOf2bs(r, opn) ==
    LET t == learner[r].unexecuted_learner_state[opn]
    IN  /\ t # None
        /\ Cardinality(t.received_2b_message_senders) > CMinQuorumSize

\* A quorum voted for the same operation in the ballot last seen.
HasQuorumOf2bs(r, opn) ==
    LET t == learner[r].unexecuted_learner_state[opn]
    IN  /\ t # None
        /\ Cardinality(t.received_2b_message_senders) >= CMinQuorumSize
=============================================================================
