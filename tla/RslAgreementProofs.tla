------------------------- MODULE RslAgreementProofs -------------------------
(***************************************************************************)
(* Agreement of the replicated state machine library, for any number of    *)
(* replicas, any set of batches and any parameters of the log: the types   *)
(* are kept, PaxosInv holds initially, every handler preserves it, and it  *)
(* implies the properties.                                                 *)
(***************************************************************************)
EXTENDS RslInvariant, FiniteSetTheorems, TLAPS

-----------------------------------------------------------------------------
(***************************************************************************)
(* Packets.                                                                *)
(***************************************************************************)

\* What the fields of a packet are, by its type.
LEMMA PacketFields ==
    ASSUME NEW p \in CMessage
    PROVE  /\ p.src \in Replicas /\ p.bal \in Ballots
           /\ p.type = "1b" =>
                /\ p.dst \in Replicas
                /\ p.log_truncation_point \in Opns /\ p.votes \in CVotes
           /\ p.type = "StartingPhase2" => p.log_truncation_point \in Opns
           /\ p.type \in {"2a", "2b"} => p.opn \in Opns /\ p.val \in Batches
           /\ p.type = "Heartbeat" => p.opn_ckpt \in Opns
           /\ p.type = "AppStateRequest" => p.opn \in Opns
           /\ p.type = "AppStateSupply" =>
                p.dst \in Replicas /\ p.opn \in Opns /\ p.app_state \in Seq(Batches)
BY DEF CMessage

\* A packet a handler builds from typed parts is a packet.
LEMMA PacketsAreMessages ==
    ASSUME NEW r \in Replicas, NEW to \in Replicas, NEW b \in Ballots, NEW o \in Opns
    PROVE  /\ Message1a(r, b) \in CMessage
           /\ \A votes \in CVotes : Message1b(r, to, b, o, votes) \in CMessage
           /\ MessageStartingPhase2(r, b, o) \in CMessage
           /\ \A v \in Batches : Message2a(r, b, o, v) \in CMessage
           /\ \A v \in Batches : Message2b(r, b, o, v) \in CMessage
           /\ MessageHeartbeat(r, b, o) \in CMessage
           /\ MessageAppStateRequest(r, b, o) \in CMessage
           /\ \A app \in Seq(Batches) : MessageAppStateSupply(r, to, b, o, app) \in CMessage
BY DEF CMessage, Message1a, Message1b, MessageStartingPhase2, Message2a, Message2b,
       MessageHeartbeat, MessageAppStateRequest, MessageAppStateSupply
-----------------------------------------------------------------------------
(***************************************************************************)
(* Type correctness, one lemma per component.                              *)
(***************************************************************************)

\* Removing the votes below a truncation point leaves a vote map.
LEMMA RemoveVotesType ==
    ASSUME NEW votes \in CVotes, NEW ltp
    PROVE  CRemoveVotesBeforeLogTruncationPoint(votes, ltp) \in CVotes
BY DEF CVotes, CRemoveVotesBeforeLogTruncationPoint

\* So does adding the vote of a 2a.
LEMMA AddVoteType ==
    ASSUME NEW votes \in CVotes, NEW opn \in Opns, NEW vote \in CVote, NEW ltp
    PROVE  CAddVoteAndRemoveOldOnes(votes, opn, vote, ltp) \in CVotes
<1>1. [votes EXCEPT ![opn] = vote] \in CVotes
  BY DEF CVotes
<1>2. QED
  BY <1>1, RemoveVotesType DEF CAddVoteAndRemoveOldOnes

\* A 2a moves the truncation point to an operation number.
LEMMA NewLogTruncationPointType ==
    ASSUME NEW ltp \in Opns, NEW opn \in Opns
    PROVE  NewLogTruncationPoint(ltp, opn) \in Opns
BY ConfigAssumption, LogAssumption DEF NewLogTruncationPoint, TruncationCandidate, Opns

\* A truncated acceptor is an acceptor.
LEMMA TruncateLogType ==
    ASSUME NEW a \in CAcceptor, NEW opn \in Opns
    PROVE  TruncateLog(a, opn) \in CAcceptor
<1>1. CRemoveVotesBeforeLogTruncationPoint(a.votes, opn) \in CVotes
  BY RemoveVotesType DEF CAcceptor
<1>2. QED
  BY <1>1 DEF TruncateLog, CAcceptor

\* The successor of a view below max_integer_val is a ballot in range.
LEMMA SuccessorViewType ==
    ASSUME NEW b \in Ballots, b.seqno < MaxIntegerVal
    PROVE  CComputeSuccessorView(b) \in Ballots
BY ConfigAssumption DEF CComputeSuccessorView, Ballots, CBallot, Replicas

\* The state CReplicaInit builds is type-correct.
THEOREM InitTypeOK == CReplicaInit => TypeOK
<1> SUFFICES ASSUME CReplicaInit PROVE TypeOK
  OBVIOUS
<1>1. /\ 0 \in Opns
      /\ CBallot(0, 0) \in Ballots /\ CBallot(1, 0) \in Ballots
      /\ \A r \in Replicas : CBallot(0, r) \in Ballots
  BY ConfigAssumption DEF Opns, Ballots, CBallot, Replicas
<1>2. acceptor \in [Replicas -> CAcceptor]
  <2>1. [o \in Opns |-> None] \in CVotes
    BY DEF CVotes
  <2>2. QED
    BY <1>1, <2>1 DEF CReplicaInit, CAcceptorInit, CAcceptor
<1>3. proposer \in [Replicas -> CProposer] /\ current_view \in [Replicas -> Ballots]
  BY <1>1 DEF CReplicaInit, CProposerInit, CProposer
<1>4. learner \in [Replicas -> CLearner]
  BY <1>1 DEF CReplicaInit, CLearnerInit, CLearner
<1>5. executor \in [Replicas -> CExecutor]
  BY <1>1 DEF CReplicaInit, CExecutorInit, CExecutor
<1>6. QED
  BY <1>2, <1>3, <1>4, <1>5 DEF TypeOK, CReplicaInit

\* Every handler keeps the types of every component.
THEOREM StepTypeOK == TypeOK /\ [Next]_vars => TypeOK'
<1> SUFFICES ASSUME TypeOK, [Next]_vars PROVE TypeOK'
  OBVIOUS
<1>0. CASE UNCHANGED vars
  BY <1>0 DEF TypeOK, vars
<1>1. ASSUME NEW r \in Replicas, NEW p \in net, CReplicaNextProcess1a(r, p)
      PROVE  TypeOK'
  <2>1. p.bal \in Ballots /\ p.src \in Replicas
    BY PacketFields DEF TypeOK
  <2>2. acceptor' \in [Replicas -> CAcceptor]
    BY <1>1, <2>1 DEF TypeOK, CReplicaNextProcess1a, CAcceptorProcess1a, CAcceptor
  <2>3. Promise1b(r, p) \in CMessage
    BY <2>1, PacketsAreMessages DEF Promise1b, TypeOK, CAcceptor
  <2>4. QED
    BY <1>1, <2>2, <2>3 DEF TypeOK, CReplicaNextProcess1a, Send
<1>2. ASSUME NEW r \in Replicas, NEW p \in net, CReplicaNextProcess1b(r, p)
      PROVE  TypeOK'
  <2>1. p \in CMessage /\ p.log_truncation_point \in Opns
    BY <1>2, PacketFields DEF TypeOK, CReplicaNextProcess1b, Receive
  <2>2. acceptor' \in [Replicas -> CAcceptor]
    BY <1>2, <2>1, TruncateLogType DEF TypeOK, CReplicaNextProcess1b, CAcceptorTruncateLog
  <2>3. proposer' \in [Replicas -> CProposer]
    BY <1>2, <2>1 DEF TypeOK, CReplicaNextProcess1b, CProposerProcess1b, CProposer
  <2>4. QED
    BY <1>2, <2>2, <2>3 DEF TypeOK, CReplicaNextProcess1b, CProposerProcess1b
<1>3. ASSUME NEW r \in Replicas, NEW p \in net, CReplicaNextProcess2a(r, p)
      PROVE  TypeOK'
  <2> DEFINE ltp == NewLogTruncationPoint(acceptor[r].log_truncation_point, p.opn)
             vote == [max_value_bal |-> p.bal, max_val |-> p.val]
             added == CAddVoteAndRemoveOldOnes(acceptor[r].votes, p.opn, vote, ltp)
  <2>1. p.bal \in Ballots /\ p.opn \in Opns /\ p.val \in Batches
    BY <1>3, PacketFields DEF TypeOK, CReplicaNextProcess2a, Receive
  <2>2. ltp \in Opns
    BY <2>1, NewLogTruncationPointType DEF TypeOK, CAcceptor
  <2>3. added \in CVotes
    BY <2>1, AddVoteType DEF TypeOK, CAcceptor, CVote
  <2>4. acceptor' = [acceptor EXCEPT
                       ![r].max_bal = p.bal,
                       ![r].log_truncation_point = ltp,
                       ![r].votes = IF acceptor[r].log_truncation_point <= p.opn
                                    THEN added ELSE acceptor[r].votes]
    BY <1>3 DEF CReplicaNextProcess2a, CAcceptorProcess2a
  <2> HIDE DEF ltp, added
  <2>5. acceptor' \in [Replicas -> CAcceptor]
    BY <2>1, <2>2, <2>3, <2>4 DEF TypeOK, CAcceptor
  <2>6. Message2b(r, p.bal, p.opn, p.val) \in CMessage
    BY <2>1, PacketsAreMessages
  <2>7. QED
    BY <1>3, <2>5, <2>6 DEF TypeOK, CReplicaNextProcess2a, Send
<1>4. ASSUME NEW r \in Replicas, NEW p \in net, CReplicaNextProcess2b(r, p)
      PROVE  TypeOK'
  <2>1. p.src \in Replicas /\ p.bal \in Ballots /\ p.opn \in Opns /\ p.val \in Batches
    BY <1>4, PacketFields DEF TypeOK, CReplicaNextProcess2b, Receive
  <2>2. FirstVote(p) \in CLearnerTuple
    BY <2>1 DEF FirstVote, CLearnerTuple
  <2>3. learner' \in [Replicas -> CLearner]
    <3> DEFINE l == learner[r]
               u == l.unexecuted_learner_state
               t == [u[p.opn] EXCEPT !.received_2b_message_senders = @ \cup {p.src}]
    <3>1. l \in CLearner /\ u \in [Opns -> CLearnerTuple \cup {None}]
      BY DEF TypeOK, CLearner
    <3>2. CASE learner' = [learner EXCEPT
                 ![r].max_ballot_seen = p.bal,
                 ![r].unexecuted_learner_state =
                    [o \in Opns |-> IF o = p.opn THEN FirstVote(p) ELSE None]]
      BY <2>1, <2>2, <3>2 DEF TypeOK, CLearner
    <3>3. CASE learner' = [learner EXCEPT
                 ![r].unexecuted_learner_state[p.opn] = FirstVote(p)]
      BY <2>1, <2>2, <3>1, <3>3 DEF TypeOK, CLearner
    <3>4. CASE /\ u[p.opn] # None
               /\ learner' = [learner EXCEPT ![r].unexecuted_learner_state[p.opn] = t]
      <4>1. t \in CLearnerTuple
        BY <2>1, <3>1, <3>4 DEF CLearnerTuple
      <4> HIDE DEF t
      <4>2. QED
        BY <2>1, <3>1, <3>4, <4>1 DEF TypeOK, CLearner
    <3>5. QED
      BY <1>4, <3>2, <3>3, <3>4 DEF CReplicaNextProcess2b, CLearnerProcess2b
  <2>4. QED
    BY <1>4, <2>3 DEF TypeOK, CReplicaNextProcess2b
<1>5. ASSUME NEW r \in Replicas, NEW p \in net, CReplicaNextProcessStartingPhase2(r, p)
      PROVE  TypeOK'
  <2>1. p.bal \in Ballots /\ p.log_truncation_point \in Opns
    BY <1>5, PacketFields DEF TypeOK, CReplicaNextProcessStartingPhase2, Receive
  <2>2. MessageAppStateRequest(r, p.bal, p.log_truncation_point) \in CMessage
    BY <2>1, PacketsAreMessages
  <2>3. QED
    BY <1>5, <2>2 DEF TypeOK, CReplicaNextProcessStartingPhase2, Send
<1>6. ASSUME NEW r \in Replicas, NEW p \in net, CReplicaNextProcessAppStateRequest(r, p)
      PROVE  TypeOK'
  <2>1. p.src \in Replicas
    BY PacketFields DEF TypeOK
  <2>2. AppStateSupply(r, p) \in CMessage
    BY <2>1, PacketsAreMessages DEF AppStateSupply, TypeOK, CExecutor
  <2>3. QED
    BY <1>6, <2>2 DEF TypeOK, CReplicaNextProcessAppStateRequest, Send
<1>7. ASSUME NEW r \in Replicas, NEW p \in net, CReplicaNextProcessAppStateSupply(r, p)
      PROVE  TypeOK'
  <2>1. p.bal \in Ballots /\ p.opn \in Opns /\ p.app_state \in Seq(Batches)
    BY <1>7, PacketFields DEF TypeOK, CReplicaNextProcessAppStateSupply, Receive
  <2>2. learner' \in [Replicas -> CLearner]
    BY <1>7
    DEF TypeOK, CReplicaNextProcessAppStateSupply, CLearnerForgetOperationsBefore, CLearner
  <2>3. executor' \in [Replicas -> CExecutor]
    BY <1>7, <2>1
    DEF TypeOK, CReplicaNextProcessAppStateSupply, CExecutorProcessAppStateSupply, CExecutor
  <2>4. QED
    BY <1>7, <2>2, <2>3 DEF TypeOK, CReplicaNextProcessAppStateSupply
<1>8. ASSUME NEW r \in Replicas, NEW p \in net, CReplicaNextProcessHeartbeat(r, p)
      PROVE  TypeOK'
  <2>1. p.src \in Replicas /\ p.bal \in Ballots /\ p.opn_ckpt \in Opns
    BY <1>8, PacketFields DEF TypeOK, CReplicaNextProcessHeartbeat, Receive
  <2>2. acceptor' \in [Replicas -> CAcceptor]
    BY <1>8, <2>1 DEF TypeOK, CReplicaNextProcessHeartbeat, CAcceptorProcessHeartbeat, CAcceptor
  <2>3. proposer' \in [Replicas -> CProposer] /\ current_view' \in [Replicas -> Ballots]
    <3>1. CASE MoveToView(r, p.bal)
      BY <2>1, <3>1 DEF TypeOK, MoveToView, CProposer
    <3>2. CASE UNCHANGED <<proposer, current_view>>
      BY <3>2 DEF TypeOK
    <3>3. QED
      BY <1>8, <3>1, <3>2 DEF CReplicaNextProcessHeartbeat, CProposerProcessHeartbeat
  <2>4. QED
    BY <1>8, <2>2, <2>3 DEF TypeOK, CReplicaNextProcessHeartbeat
<1>9. ASSUME NEW r \in Replicas, CReplicaNextSpontaneousMaybeEnterNewViewAndSend1a(r)
      PROVE  TypeOK'
  <2>0. /\ proposer' = [proposer EXCEPT
                          ![r].current_state = 1,
                          ![r].max_ballot_i_sent_1a = current_view[r],
                          ![r].received_1b_packets = {}]
        /\ current_view' = current_view
    BY <1>9 DEF CReplicaNextSpontaneousMaybeEnterNewViewAndSend1a,
                CProposerMaybeEnterNewViewAndSend1a
  <2>1. proposer' \in [Replicas -> CProposer]
    <3> DEFINE next == [proposer[r] EXCEPT !.current_state = 1,
                                           !.max_ballot_i_sent_1a = current_view[r],
                                           !.received_1b_packets = {}]
    <3>0. proposer[r] \in CProposer /\ current_view[r] \in Ballots /\ 1 \in 0 .. 2
      BY DEF TypeOK
    <3>1. next \in CProposer
      BY <3>0 DEF CProposer
    <3>2. proposer' = [proposer EXCEPT ![r] = next]
      BY <2>0 DEF TypeOK
    <3> HIDE DEF next
    <3>3. QED
      BY <3>1, <3>2 DEF TypeOK
  <2>2. Message1a(r, current_view[r]) \in CMessage
    BY PacketsAreMessages, ConfigAssumption DEF TypeOK, Opns
  <2>3. QED
    BY <1>9, <2>0, <2>1, <2>2 DEF TypeOK, CReplicaNextSpontaneousMaybeEnterNewViewAndSend1a, Send
<1>10. ASSUME NEW r \in Replicas, CReplicaNextSpontaneousMaybeEnterPhase2(r)
       PROVE  TypeOK'
  <2>0. /\ proposer' = [proposer EXCEPT
                          ![r].current_state = 2,
                          ![r].next_operation_number_to_propose =
                             acceptor[r].log_truncation_point]
        /\ current_view' = current_view
    BY <1>10 DEF CReplicaNextSpontaneousMaybeEnterPhase2, CProposerMaybeEnterPhase2
  <2>1. proposer' \in [Replicas -> CProposer]
    <3> DEFINE next == [proposer[r] EXCEPT
                          !.current_state = 2,
                          !.next_operation_number_to_propose =
                             acceptor[r].log_truncation_point]
    <3>0. proposer[r] \in CProposer /\ acceptor[r].log_truncation_point \in Opns
          /\ 2 \in 0 .. 2
      BY DEF TypeOK, CAcceptor
    <3>1. next \in CProposer
      BY <3>0 DEF CProposer
    <3>2. proposer' = [proposer EXCEPT ![r] = next]
      BY <2>0 DEF TypeOK
    <3> HIDE DEF next
    <3>3. QED
      BY <3>1, <3>2 DEF TypeOK
  <2>2. MessageStartingPhase2(r, proposer[r].max_ballot_i_sent_1a,
                              acceptor[r].log_truncation_point) \in CMessage
    BY PacketsAreMessages DEF TypeOK, CProposer, CAcceptor
  <2>3. QED
    BY <1>10, <2>0, <2>1, <2>2 DEF TypeOK, CReplicaNextSpontaneousMaybeEnterPhase2, Send
<1>11. ASSUME NEW r \in Replicas, CReplicaNextReadClockMaybeNominateValueAndSend2a(r)
       PROVE  TypeOK'
  <2> DEFINE opn == proposer[r].next_operation_number_to_propose
  <2>1. PICK v \in Batches :
           /\ \/ CProposerNominateNewValueAndSend2a(r, acceptor[r].log_truncation_point, v)
              \/ CProposerNominateOldValueAndSend2a(r, acceptor[r].log_truncation_point, v)
           /\ Send(Message2a(r, proposer[r].max_ballot_i_sent_1a, opn, v))
           /\ UNCHANGED <<acceptor, learner, executor>>
    BY <1>11 DEF CReplicaNextReadClockMaybeNominateValueAndSend2a
  <2>2. opn \in Opns /\ opn < MaxIntegerVal /\ AdvanceNextOperation(r)
    BY <2>1 DEF CProposerNominateNewValueAndSend2a, CProposerNominateOldValueAndSend2a,
                CProposerCanNominateUsingOperationNumber, TypeOK, CProposer
  <2>3. opn + 1 \in Opns
    BY <2>2, ConfigAssumption DEF Opns
  <2>4. proposer' \in [Replicas -> CProposer] /\ current_view' = current_view
    BY <2>2, <2>3 DEF TypeOK, AdvanceNextOperation, CProposer
  <2>5. Message2a(r, proposer[r].max_ballot_i_sent_1a, opn, v) \in CMessage
    BY <2>1, <2>2, PacketsAreMessages DEF TypeOK, CProposer
  <2>6. QED
    BY <2>1, <2>4, <2>5 DEF TypeOK, Send
<1>12. ASSUME NEW r \in Replicas, CReplicaNextSpontaneousTruncateLogBasedOnCheckpoints(r)
       PROVE  TypeOK'
  <2>1. PICK opn \in Opns : CAcceptorTruncateLog(r, opn)
    BY <1>12 DEF CReplicaNextSpontaneousTruncateLogBasedOnCheckpoints
  <2>2. acceptor' \in [Replicas -> CAcceptor]
    BY <2>1, TruncateLogType DEF TypeOK, CAcceptorTruncateLog
  <2>3. QED
    BY <1>12, <2>2 DEF TypeOK, CReplicaNextSpontaneousTruncateLogBasedOnCheckpoints
<1>13. ASSUME NEW r \in Replicas, CReplicaNextSpontaneousMaybeMakeDecision(r)
       PROVE  TypeOK'
  <2> DEFINE t == learner[r].unexecuted_learner_state[executor[r].ops_complete]
             op == [v |-> t.candidate_learned_value, bal |-> learner[r].max_ballot_seen]
  <2>1. t \in CLearnerTuple
    BY <1>13 DEF CReplicaNextSpontaneousMaybeMakeDecision, HasQuorumOf2bs,
                 TypeOK, CLearner, CExecutor
  <2>2. op \in COutstandingOpKnown
    BY <2>1 DEF CLearnerTuple, COutstandingOpKnown, TypeOK, CLearner
  <2>3. executor' = [executor EXCEPT ![r].next_op_to_execute = op]
    BY <1>13 DEF CReplicaNextSpontaneousMaybeMakeDecision, CExecutorGetDecision
  <2> HIDE DEF op
  <2>4. executor' \in [Replicas -> CExecutor]
    BY <2>2, <2>3 DEF TypeOK, CExecutor
  <2>5. QED
    BY <1>13, <2>4 DEF TypeOK, CReplicaNextSpontaneousMaybeMakeDecision
<1>14. ASSUME NEW r \in Replicas, CReplicaNextSpontaneousMaybeExecute(r)
       PROVE  TypeOK'
  <2> DEFINE e == executor[r]
             op == e.next_op_to_execute
  <2>1. e \in CExecutor /\ op \in COutstandingOpKnown
    BY <1>14 DEF CReplicaNextSpontaneousMaybeExecute, TypeOK, CExecutor
  <2>2. e.ops_complete + 1 \in Opns
    BY <1>14, <2>1, ConfigAssumption DEF CReplicaNextSpontaneousMaybeExecute, CExecutor, Opns
  <2>3. Append(e.app, op.v) \in Seq(Batches) /\ op.bal \in Ballots
    BY <2>1 DEF CExecutor, COutstandingOpKnown
  <2>4. executor' \in [Replicas -> CExecutor]
    BY <1>14, <2>1, <2>2, <2>3
    DEF CReplicaNextSpontaneousMaybeExecute, CExecutorExecute, TypeOK, CExecutor
  <2>5. learner' \in [Replicas -> CLearner]
    BY <1>14, <2>1
    DEF CReplicaNextSpontaneousMaybeExecute, CLearnerForgetDecision, TypeOK, CLearner, CExecutor
  <2>6. QED
    BY <1>14, <2>4, <2>5 DEF TypeOK, CReplicaNextSpontaneousMaybeExecute
<1>15. ASSUME NEW r \in Replicas, CReplicaNextReadClockCheckForQuorumOfViewSuspicions(r)
       PROVE  TypeOK'
  <2> DEFINE next == CComputeSuccessorView(current_view[r])
  <2>1. next \in Ballots
    BY <1>15, SuccessorViewType DEF CReplicaNextReadClockCheckForQuorumOfViewSuspicions,
        CProposerCheckForQuorumOfViewSuspicions, TypeOK
  <2>2. MoveToView(r, next)
    BY <1>15 DEF CReplicaNextReadClockCheckForQuorumOfViewSuspicions,
                 CProposerCheckForQuorumOfViewSuspicions
  <2> HIDE DEF next
  <2>3. proposer' \in [Replicas -> CProposer] /\ current_view' \in [Replicas -> Ballots]
    BY <2>1, <2>2 DEF TypeOK, MoveToView, CProposer
  <2>4. QED
    BY <1>15, <2>3 DEF TypeOK, CReplicaNextReadClockCheckForQuorumOfViewSuspicions
<1>16. ASSUME NEW r \in Replicas, CReplicaNextReadClockMaybeSendHeartbeat(r)
       PROVE  TypeOK'
  <2>1. MessageHeartbeat(r, current_view[r], executor[r].ops_complete) \in CMessage
    BY PacketsAreMessages DEF TypeOK, CExecutor
  <2>2. QED
    BY <1>16, <2>1 DEF TypeOK, CReplicaNextReadClockMaybeSendHeartbeat, Send
<1>17. QED
  BY <1>0, <1>1, <1>2, <1>3, <1>4, <1>5, <1>6, <1>7, <1>8, <1>9, <1>10, <1>11, <1>12,
     <1>13, <1>14, <1>15, <1>16 DEF Next, ProcessPacket, NoReceive

\* Every variable keeps the type of the struct it models: no handler stores an
\* operation number or a ballot outside the range its parameters allow.
THEOREM TypeCorrect == Spec => []TypeOK
BY InitTypeOK, StepTypeOK, PTL DEF Spec

-----------------------------------------------------------------------------
(***************************************************************************)
(* Ballots and quorums.                                                    *)
(***************************************************************************)

\* CBalLt is a strict total order and CBalLeq its reflexive closure.
LEMMA BallotsAreOrdered ==
    ASSUME NEW a \in Ballots, NEW b \in Ballots
    PROVE  /\ CBalLt(a, b) \/ a = b \/ CBalLt(b, a)
           /\ CBalLeq(a, b) <=> CBalLt(a, b) \/ a = b
           /\ ~CBalLt(a, a)
           /\ ~(CBalLt(a, b) /\ CBalLeq(b, a))
BY ConfigAssumption DEF Ballots, CBalLt, CBalLeq, Replicas

\* The strict and the weak order of ballots (CBalLt, CBalLeq) compose.
LEMMA BallotsAreTransitive ==
    ASSUME NEW a \in Ballots, NEW b \in Ballots, NEW c \in Ballots
    PROVE  /\ CBalLt(a, b) /\ CBalLeq(b, c) => CBalLt(a, c)
           /\ CBalLeq(a, b) /\ CBalLt(b, c) => CBalLt(a, c)
           /\ CBalLeq(a, b) /\ CBalLeq(b, c) => CBalLeq(a, c)
BY ConfigAssumption DEF Ballots, CBalLt, CBalLeq, Replicas

\* The configuration holds NumReplicas replicas.
LEMMA ReplicasAreFinite ==
    IsFiniteSet(Replicas) /\ Cardinality(Replicas) = NumReplicas
<1>1. 0 \in Int /\ NumReplicas - 1 \in Int /\ NumReplicas \in Nat \ {0}
  BY ConfigAssumption
<1>2. QED
  BY <1>1, FS_Interval DEF Replicas

\* Replicas that include a quorum are a quorum.
LEMMA QuorumsGrow ==
    ASSUME NEW Q, NEW P \in SUBSET Replicas, Q \subseteq P, IsQuorum(Q)
    PROVE  IsQuorum(P)
<1>1. IsFiniteSet(P)
  BY ReplicasAreFinite, FS_Subset
<1>2. Cardinality(Q) <= Cardinality(P) /\ IsFiniteSet(Q)
  BY <1>1, FS_Subset
<1>3. Cardinality(Q) \in Nat /\ Cardinality(P) \in Nat /\ CMinQuorumSize \in Nat
  BY <1>1, <1>2, FS_CardinalityType, ConfigAssumption DEF CMinQuorumSize
<1>4. QED
  BY <1>2, <1>3 DEF IsQuorum

\* Any two sets of CMinQuorumSize replicas have a replica in common.
LEMMA QuorumsIntersect ==
    ASSUME NEW Q \in SUBSET Replicas, NEW P \in SUBSET Replicas,
           IsQuorum(Q), IsQuorum(P)
    PROVE  Q \cap P # {}
<1>1. IsFiniteSet(Q) /\ IsFiniteSet(P)
  BY ReplicasAreFinite, FS_Subset
<1>2. Cardinality(Q) \in Nat /\ Cardinality(P) \in Nat
  BY <1>1, FS_CardinalityType
<1>3. Cardinality(Q) + Cardinality(P) > Cardinality(Replicas)
  BY <1>2, ReplicasAreFinite, ConfigAssumption DEF IsQuorum, CMinQuorumSize
<1>4. QED
  BY <1>3, ReplicasAreFinite, FS_MajoritiesIntersect

\* The senders of promises are as many as the promises, one per sender.
LEMMA SendersAreQuorum ==
    ASSUME NEW S, IsFiniteSet(S), Cardinality(S) >= CMinQuorumSize,
           \A p \in S : p.src \in Replicas,
           \A p, q \in S : p.src = q.src => p = q
    PROVE  {p.src : p \in S} \subseteq Replicas /\ IsQuorum({p.src : p \in S})
<1> DEFINE T == {p.src : p \in S}
           f == [p \in S |-> p.src]
<1>1. T \subseteq Replicas
  OBVIOUS
<1>2. f \in Bijection(S, T)
  BY DEF Bijection, Injection, Surjection, IsInjective
<1>3. ExistsBijection(S, T)
  BY <1>2 DEF ExistsBijection
<1>4. Cardinality(T) = Cardinality(S)
  BY <1>3, FS_Bijection
<1>5. QED
  BY <1>1, <1>4 DEF IsQuorum
-----------------------------------------------------------------------------
(***************************************************************************)
(* What a step can do, component by component: which handlers send the     *)
(* packets the invariant is about, and which change the state it is about. *)
(***************************************************************************)

\* The handlers that send a promise, a proposal, a vote or a state.
LEMMA WhoSends ==
    ASSUME TypeOK, [Next]_vars
    PROVE  /\ net \subseteq net'
           /\ \A q \in net' \ net :
                /\ q.type = "1b" =>
                      \E p \in net : CReplicaNextProcess1a(q.src, p) /\ q = Promise1b(q.src, p)
                /\ q.type = "2b" =>
                      \E p \in net : /\ CReplicaNextProcess2a(q.src, p)
                                    /\ q = Message2b(q.src, p.bal, p.opn, p.val)
                /\ q.type = "2a" => CReplicaNextReadClockMaybeNominateValueAndSend2a(q.src)
                /\ q.type = "AppStateSupply" =>
                      \E p \in net : q = AppStateSupply(q.src, p)
<1> USE DEF Send, Message1a, Message1b, Message2a, Message2b, MessageStartingPhase2,
            MessageHeartbeat, MessageAppStateRequest, MessageAppStateSupply
<1>1. CASE UNCHANGED vars
  BY <1>1 DEF vars
<1>2. ASSUME NEW r \in Replicas, NEW p \in net, ProcessPacket(r, p),
             ~CReplicaNextProcess1a(r, p), ~CReplicaNextProcess2a(r, p),
             ~CReplicaNextProcessAppStateRequest(r, p)
      PROVE  /\ net \subseteq net'
             /\ \A q \in net' \ net : q.type \notin {"1b", "2a", "2b", "AppStateSupply"}
  BY <1>2
  DEF ProcessPacket, CReplicaNextProcess1b, CReplicaNextProcess2b,
      CReplicaNextProcessStartingPhase2, CReplicaNextProcessAppStateSupply,
      CReplicaNextProcessHeartbeat
<1>3. ASSUME NEW r \in Replicas, NEW p \in net, CReplicaNextProcess1a(r, p)
      PROVE  /\ net \subseteq net'
             /\ \A q \in net' \ net :
                  q.type = "1b" /\ q.src = r /\ q = Promise1b(q.src, p)
  BY <1>3 DEF CReplicaNextProcess1a, Promise1b
<1>4. ASSUME NEW r \in Replicas, NEW p \in net, CReplicaNextProcess2a(r, p)
      PROVE  /\ net \subseteq net'
             /\ \A q \in net' \ net :
                  q.type = "2b" /\ q.src = r /\ q = Message2b(q.src, p.bal, p.opn, p.val)
  BY <1>4 DEF CReplicaNextProcess2a
<1>5. ASSUME NEW r \in Replicas, NEW p \in net, CReplicaNextProcessAppStateRequest(r, p)
      PROVE  /\ net \subseteq net'
             /\ \A q \in net' \ net :
                  q.type = "AppStateSupply" /\ q.src = r /\ q = AppStateSupply(q.src, p)
  BY <1>5 DEF CReplicaNextProcessAppStateRequest, AppStateSupply
<1>6. ASSUME NEW r \in Replicas, NoReceive(r),
             ~CReplicaNextReadClockMaybeNominateValueAndSend2a(r)
      PROVE  /\ net \subseteq net'
             /\ \A q \in net' \ net : q.type \notin {"1b", "2a", "2b", "AppStateSupply"}
  BY <1>6
  DEF NoReceive, CReplicaNextSpontaneousMaybeEnterNewViewAndSend1a,
      CReplicaNextSpontaneousMaybeEnterPhase2,
      CReplicaNextSpontaneousTruncateLogBasedOnCheckpoints,
      CReplicaNextSpontaneousMaybeMakeDecision, CReplicaNextSpontaneousMaybeExecute,
      CReplicaNextReadClockCheckForQuorumOfViewSuspicions,
      CReplicaNextReadClockMaybeSendHeartbeat
<1>7. ASSUME NEW r \in Replicas, CReplicaNextReadClockMaybeNominateValueAndSend2a(r)
      PROVE  /\ net \subseteq net'
             /\ \A q \in net' \ net : q.type = "2a" /\ q.src = r
  BY <1>7 DEF CReplicaNextReadClockMaybeNominateValueAndSend2a
<1> HIDE DEF Send, Message1a, Message1b, Message2a, Message2b, MessageStartingPhase2,
             MessageHeartbeat, MessageAppStateRequest, MessageAppStateSupply
<1>8. ASSUME NEW r \in Replicas, NEW p \in net, ProcessPacket(r, p)
      PROVE  /\ net \subseteq net'
             /\ \A q \in net' \ net :
                  \/ q.type \notin {"1b", "2a", "2b", "AppStateSupply"}
                  \/ /\ q.type = "1b" /\ CReplicaNextProcess1a(q.src, p)
                     /\ q = Promise1b(q.src, p)
                  \/ /\ q.type = "2b" /\ CReplicaNextProcess2a(q.src, p)
                     /\ q = Message2b(q.src, p.bal, p.opn, p.val)
                  \/ q.type = "AppStateSupply" /\ q = AppStateSupply(q.src, p)
  <2>1. CASE CReplicaNextProcess1a(r, p)
    BY <1>3, <2>1
  <2>2. CASE CReplicaNextProcess2a(r, p)
    BY <1>4, <2>2
  <2>3. CASE CReplicaNextProcessAppStateRequest(r, p)
    BY <1>5, <2>3
  <2>4. QED
    BY <1>2, <1>8, <2>1, <2>2, <2>3
<1>9. ASSUME NEW r \in Replicas, NoReceive(r)
      PROVE  /\ net \subseteq net'
             /\ \A q \in net' \ net :
                  \/ q.type \notin {"1b", "2a", "2b", "AppStateSupply"}
                  \/ /\ q.type = "2a"
                     /\ CReplicaNextReadClockMaybeNominateValueAndSend2a(q.src)
  BY <1>6, <1>7, <1>9, Zenon
<1>10. QED
  <2>1. CASE \E r \in Replicas, p \in net : ProcessPacket(r, p)
    BY <1>8, <2>1
  <2>2. CASE \E r \in Replicas : NoReceive(r)
    BY <1>9, <2>2
  <2>3. QED
    BY <1>1, <2>1, <2>2 DEF Next

\* The handlers that change an acceptor.
LEMMA AcceptorHandlers ==
    ASSUME [Next]_vars
    PROVE  \/ acceptor' = acceptor
           \/ \E s \in Replicas, p \in net :
                 \/ CReplicaNextProcess1a(s, p)
                 \/ CReplicaNextProcess2a(s, p)
                 \/ CReplicaNextProcess1b(s, p)
                 \/ CReplicaNextProcessHeartbeat(s, p)
           \/ \E s \in Replicas : CReplicaNextSpontaneousTruncateLogBasedOnCheckpoints(s)
<1>1. CASE UNCHANGED vars
  BY <1>1 DEF vars
<1>2. ASSUME NEW s \in Replicas, NEW p \in net, ProcessPacket(s, p)
      PROVE  \/ acceptor' = acceptor
             \/ CReplicaNextProcess1a(s, p)
             \/ CReplicaNextProcess2a(s, p)
             \/ CReplicaNextProcess1b(s, p)
             \/ CReplicaNextProcessHeartbeat(s, p)
  BY <1>2 DEF ProcessPacket, CReplicaNextProcess2b, CReplicaNextProcessStartingPhase2,
      CReplicaNextProcessAppStateRequest, CReplicaNextProcessAppStateSupply
<1>3. ASSUME NEW s \in Replicas, NoReceive(s)
      PROVE  \/ acceptor' = acceptor
             \/ CReplicaNextSpontaneousTruncateLogBasedOnCheckpoints(s)
  BY <1>3 DEF NoReceive, CReplicaNextSpontaneousMaybeEnterNewViewAndSend1a,
      CReplicaNextSpontaneousMaybeEnterPhase2,
      CReplicaNextReadClockMaybeNominateValueAndSend2a,
      CReplicaNextSpontaneousMaybeMakeDecision, CReplicaNextSpontaneousMaybeExecute,
      CReplicaNextReadClockCheckForQuorumOfViewSuspicions,
      CReplicaNextReadClockMaybeSendHeartbeat
<1>4. QED
  BY <1>1, <1>2, <1>3 DEF Next

\* The promised ballot and the remembered votes change with a promise or a
\* vote; everything else at most cuts the log off.
LEMMA WhoChangesAcceptor ==
    ASSUME TypeOK, [Next]_vars, NEW r \in Replicas
    PROVE  \/ \E p \in net : CReplicaNextProcess1a(r, p)
           \/ \E p \in net : CReplicaNextProcess2a(r, p)
           \/ /\ acceptor'[r].max_bal = acceptor[r].max_bal
              /\ acceptor'[r].log_truncation_point >= acceptor[r].log_truncation_point
              /\ \A o \in Opns :
                    o >= acceptor'[r].log_truncation_point =>
                       acceptor'[r].votes[o] = acceptor[r].votes[o]
<1> DEFINE Kept(b) ==
              /\ b.max_bal = acceptor[r].max_bal
              /\ b.log_truncation_point >= acceptor[r].log_truncation_point
              /\ \A o \in Opns :
                    o >= b.log_truncation_point => b.votes[o] = acceptor[r].votes[o]
<1>0. acceptor[r] \in CAcceptor /\ acceptor[r].log_truncation_point \in Int
  BY DEF TypeOK, CAcceptor, Opns
<1>1. Kept(acceptor[r])
  BY <1>0
<1>2. CASE acceptor' = acceptor
  BY <1>1, <1>2
<1>3. ASSUME NEW s \in Replicas, NEW opn \in Opns, CAcceptorTruncateLog(s, opn)
      PROVE  Kept(acceptor'[r])
  <2>1. Kept(TruncateLog(acceptor[r], opn))
    BY <1>0 DEF TruncateLog, CRemoveVotesBeforeLogTruncationPoint, CAcceptor, Opns
  <2> HIDE DEF Kept
  <2>2. QED
    BY <1>1, <1>3, <2>1 DEF CAcceptorTruncateLog, TypeOK
<1>4. ASSUME NEW s \in Replicas, NEW p \in net, CReplicaNextProcessHeartbeat(s, p)
      PROVE  Kept(acceptor'[r])
  BY <1>0, <1>4 DEF CReplicaNextProcessHeartbeat, CAcceptorProcessHeartbeat, TypeOK, CAcceptor
<1>5. ASSUME NEW s \in Replicas, NEW p \in net,
             CReplicaNextProcess1a(s, p) \/ CReplicaNextProcess2a(s, p), s # r
      PROVE  acceptor'[r] = acceptor[r]
  BY <1>5 DEF CReplicaNextProcess1a, CAcceptorProcess1a, CReplicaNextProcess2a,
              CAcceptorProcess2a, TypeOK
<1>6. ASSUME NEW s \in Replicas, NEW p \in net, CReplicaNextProcess1b(s, p)
      PROVE  Kept(acceptor'[r])
  <2>1. p.log_truncation_point \in Opns
    BY <1>6, PacketFields DEF TypeOK, CReplicaNextProcess1b, Receive
  <2>2. QED
    BY <1>3, <1>6, <2>1 DEF CReplicaNextProcess1b
<1>7. ASSUME NEW s \in Replicas, CReplicaNextSpontaneousTruncateLogBasedOnCheckpoints(s)
      PROVE  Kept(acceptor'[r])
  BY <1>3, <1>7 DEF CReplicaNextSpontaneousTruncateLogBasedOnCheckpoints
<1>8. \/ acceptor' = acceptor
      \/ \E s \in Replicas, p \in net :
            \/ CReplicaNextProcess1a(s, p)
            \/ CReplicaNextProcess2a(s, p)
            \/ CReplicaNextProcess1b(s, p)
            \/ CReplicaNextProcessHeartbeat(s, p)
      \/ \E s \in Replicas : CReplicaNextSpontaneousTruncateLogBasedOnCheckpoints(s)
  BY AcceptorHandlers
<1> HIDE DEF Kept
<1>9. \/ \E p \in net : CReplicaNextProcess1a(r, p)
      \/ \E p \in net : CReplicaNextProcess2a(r, p)
      \/ Kept(acceptor'[r])
  BY <1>1, <1>4, <1>5, <1>6, <1>7, <1>8
<1>10. QED
  BY <1>9 DEF Kept

\* The proposer's ballot, promises and next operation change in four handlers;
\* a change of view only stops it.
LEMMA WhoChangesProposer ==
    ASSUME TypeOK, [Next]_vars, NEW r \in Replicas
    PROVE  \/ \E p \in net : CReplicaNextProcess1b(r, p)
           \/ CReplicaNextSpontaneousMaybeEnterNewViewAndSend1a(r)
           \/ CReplicaNextSpontaneousMaybeEnterPhase2(r)
           \/ CReplicaNextReadClockMaybeNominateValueAndSend2a(r)
           \/ proposer'[r] = proposer[r]
           \/ proposer'[r] = [proposer[r] EXCEPT !.current_state = 0]
<1>1. CASE UNCHANGED vars
  BY <1>1 DEF vars
<1>2. ASSUME NEW s \in Replicas, NEW b, MoveToView(s, b)
      PROVE  \/ proposer'[r] = proposer[r]
             \/ proposer'[r] = [proposer[r] EXCEPT !.current_state = 0]
  BY <1>2 DEF MoveToView, TypeOK
<1>3. ASSUME NEW s \in Replicas, NEW p \in net, ProcessPacket(s, p),
             ~CReplicaNextProcess1b(s, p)
      PROVE  \/ proposer'[r] = proposer[r]
             \/ proposer'[r] = [proposer[r] EXCEPT !.current_state = 0]
  <2>1. proposer' = proposer \/ MoveToView(s, p.bal)
    BY <1>3 DEF ProcessPacket, CReplicaNextProcess1a, CReplicaNextProcess2a,
        CReplicaNextProcess2b, CReplicaNextProcessStartingPhase2,
        CReplicaNextProcessAppStateRequest, CReplicaNextProcessAppStateSupply,
        CReplicaNextProcessHeartbeat, CProposerProcessHeartbeat
  <2>2. QED
    BY <1>2, <2>1
<1>4. ASSUME NEW s \in Replicas, NEW p \in net, CReplicaNextProcess1b(s, p), s # r
      PROVE  proposer'[r] = proposer[r]
  BY <1>4 DEF CReplicaNextProcess1b, CProposerProcess1b, TypeOK
<1>5. ASSUME NEW s \in Replicas, NoReceive(s)
      PROVE  \/ proposer' = proposer
             \/ MoveToView(s, CComputeSuccessorView(current_view[s]))
             \/ CReplicaNextSpontaneousMaybeEnterNewViewAndSend1a(s)
             \/ CReplicaNextSpontaneousMaybeEnterPhase2(s)
             \/ CReplicaNextReadClockMaybeNominateValueAndSend2a(s)
  BY <1>5 DEF NoReceive, CReplicaNextSpontaneousTruncateLogBasedOnCheckpoints,
      CReplicaNextSpontaneousMaybeMakeDecision, CReplicaNextSpontaneousMaybeExecute,
      CReplicaNextReadClockCheckForQuorumOfViewSuspicions,
      CProposerCheckForQuorumOfViewSuspicions, CReplicaNextReadClockMaybeSendHeartbeat
<1>6. ASSUME NEW s \in Replicas, s # r,
             \/ CReplicaNextSpontaneousMaybeEnterNewViewAndSend1a(s)
             \/ CReplicaNextSpontaneousMaybeEnterPhase2(s)
             \/ CReplicaNextReadClockMaybeNominateValueAndSend2a(s)
      PROVE  proposer'[r] = proposer[r]
  BY <1>6 DEF CReplicaNextSpontaneousMaybeEnterNewViewAndSend1a,
      CProposerMaybeEnterNewViewAndSend1a, CReplicaNextSpontaneousMaybeEnterPhase2,
      CProposerMaybeEnterPhase2, CReplicaNextReadClockMaybeNominateValueAndSend2a,
      CProposerNominateNewValueAndSend2a, CProposerNominateOldValueAndSend2a,
      AdvanceNextOperation, TypeOK
<1>7. CASE \E s \in Replicas, p \in net : ProcessPacket(s, p)
  BY <1>3, <1>4, <1>7
<1>8. CASE \E s \in Replicas : NoReceive(s)
  BY <1>2, <1>5, <1>6, <1>8
<1>9. QED
  BY <1>1, <1>7, <1>8 DEF Next

\* A learner learns from votes only; everything else makes it forget.
LEMMA WhoChangesLearner ==
    ASSUME TypeOK, [Next]_vars, NEW r \in Replicas
    PROVE  \/ \E p \in net : CReplicaNextProcess2b(r, p)
           \/ /\ learner'[r].max_ballot_seen = learner[r].max_ballot_seen
              /\ \A o \in Opns :
                    \/ learner'[r].unexecuted_learner_state[o] = None
                    \/ learner'[r].unexecuted_learner_state[o]
                         = learner[r].unexecuted_learner_state[o]
<1> DEFINE Forgets ==
              /\ learner'[r].max_ballot_seen = learner[r].max_ballot_seen
              /\ \A o \in Opns :
                    \/ learner'[r].unexecuted_learner_state[o] = None
                    \/ learner'[r].unexecuted_learner_state[o]
                         = learner[r].unexecuted_learner_state[o]
<1>1. CASE learner' = learner
  BY <1>1
<1>2. ASSUME NEW s \in Replicas, NEW p \in net, CReplicaNextProcess2b(s, p), s # r
      PROVE  learner'[r] = learner[r]
  BY <1>2 DEF CReplicaNextProcess2b, CLearnerProcess2b, TypeOK
<1>3. ASSUME NEW s \in Replicas, NEW opn, CLearnerForgetOperationsBefore(s, opn)
      PROVE  Forgets
  BY <1>3 DEF CLearnerForgetOperationsBefore, TypeOK, CLearner
<1>4. ASSUME NEW s \in Replicas, NEW opn, CLearnerForgetDecision(s, opn)
      PROVE  Forgets
  BY <1>4 DEF CLearnerForgetDecision, TypeOK, CLearner
<1>5. \/ learner' = learner
      \/ \E s \in Replicas, p \in net : CReplicaNextProcess2b(s, p)
      \/ \E s \in Replicas, p \in net : CLearnerForgetOperationsBefore(s, p.opn)
      \/ \E s \in Replicas : CLearnerForgetDecision(s, executor[s].ops_complete)
  <2>1. CASE UNCHANGED vars
    BY <2>1 DEF vars
  <2>2. ASSUME NEW s \in Replicas, NEW p \in net, ProcessPacket(s, p)
        PROVE  \/ learner' = learner
               \/ CReplicaNextProcess2b(s, p)
               \/ CLearnerForgetOperationsBefore(s, p.opn)
    BY <2>2 DEF ProcessPacket, CReplicaNextProcess1a, CReplicaNextProcess1b,
        CReplicaNextProcess2a, CReplicaNextProcessStartingPhase2,
        CReplicaNextProcessAppStateRequest, CReplicaNextProcessAppStateSupply,
        CReplicaNextProcessHeartbeat
  <2>3. ASSUME NEW s \in Replicas, NoReceive(s)
        PROVE  learner' = learner \/ CLearnerForgetDecision(s, executor[s].ops_complete)
    BY <2>3 DEF NoReceive, CReplicaNextSpontaneousMaybeEnterNewViewAndSend1a,
        CReplicaNextSpontaneousMaybeEnterPhase2,
        CReplicaNextReadClockMaybeNominateValueAndSend2a,
        CReplicaNextSpontaneousTruncateLogBasedOnCheckpoints,
        CReplicaNextSpontaneousMaybeMakeDecision, CReplicaNextSpontaneousMaybeExecute,
        CReplicaNextReadClockCheckForQuorumOfViewSuspicions,
        CReplicaNextReadClockMaybeSendHeartbeat
  <2>4. QED
    BY <2>1, <2>2, <2>3 DEF Next
<1> HIDE DEF Forgets
<1>6. (\E p \in net : CReplicaNextProcess2b(r, p)) \/ Forgets
  <2>1. CASE learner'[r] = learner[r]
    BY <2>1 DEF Forgets
  <2>2. QED
    BY <1>2, <1>3, <1>4, <1>5, <2>1
<1>7. QED
  BY <1>6 DEF Forgets

\* Only a decision, an execution and an installed state change an executor.
LEMMA WhoChangesExecutor ==
    ASSUME TypeOK, [Next]_vars, NEW r \in Replicas
    PROVE  \/ \E p \in net : CReplicaNextProcessAppStateSupply(r, p)
           \/ CReplicaNextSpontaneousMaybeMakeDecision(r)
           \/ CReplicaNextSpontaneousMaybeExecute(r)
           \/ executor'[r] = executor[r]
<1>1. CASE UNCHANGED vars
  BY <1>1 DEF vars
<1>2. ASSUME NEW s \in Replicas, NEW p \in net, ProcessPacket(s, p)
      PROVE  executor' = executor \/ CReplicaNextProcessAppStateSupply(s, p)
  BY <1>2 DEF ProcessPacket, CReplicaNextProcess1a, CReplicaNextProcess1b,
      CReplicaNextProcess2a, CReplicaNextProcess2b, CReplicaNextProcessStartingPhase2,
      CReplicaNextProcessAppStateRequest, CReplicaNextProcessHeartbeat
<1>3. ASSUME NEW s \in Replicas, NoReceive(s)
      PROVE  \/ executor' = executor
             \/ CReplicaNextSpontaneousMaybeMakeDecision(s)
             \/ CReplicaNextSpontaneousMaybeExecute(s)
  BY <1>3 DEF NoReceive, CReplicaNextSpontaneousMaybeEnterNewViewAndSend1a,
      CReplicaNextSpontaneousMaybeEnterPhase2,
      CReplicaNextReadClockMaybeNominateValueAndSend2a,
      CReplicaNextSpontaneousTruncateLogBasedOnCheckpoints,
      CReplicaNextReadClockCheckForQuorumOfViewSuspicions,
      CReplicaNextReadClockMaybeSendHeartbeat
<1>4. ASSUME NEW s \in Replicas, s # r,
             \/ \E p \in net : CReplicaNextProcessAppStateSupply(s, p)
             \/ CReplicaNextSpontaneousMaybeMakeDecision(s)
             \/ CReplicaNextSpontaneousMaybeExecute(s)
      PROVE  executor'[r] = executor[r]
  BY <1>4 DEF CReplicaNextProcessAppStateSupply, CExecutorProcessAppStateSupply,
      CReplicaNextSpontaneousMaybeMakeDecision, CExecutorGetDecision,
      CReplicaNextSpontaneousMaybeExecute, CExecutorExecute, TypeOK
<1>5. CASE \E s \in Replicas, p \in net : ProcessPacket(s, p)
  BY <1>2, <1>4, <1>5
<1>6. CASE \E s \in Replicas : NoReceive(s)
  BY <1>3, <1>4, <1>6
<1>7. QED
  BY <1>1, <1>5, <1>6 DEF Next
-----------------------------------------------------------------------------
(***************************************************************************)
(* What never shrinks: votes cast, chosen batches, promised ballots.       *)
(***************************************************************************)

\* No handler takes an acceptor's max_bal back.
LEMMA PromisesOnlyGrow ==
    ASSUME TypeOK, [Next]_vars, NEW r \in Replicas
    PROVE  CBalLeq(acceptor[r].max_bal, acceptor'[r].max_bal)
<1>0. acceptor[r].max_bal \in Ballots
  BY DEF TypeOK, CAcceptor
<1>1. ASSUME NEW p \in net, CReplicaNextProcess1a(r, p)
      PROVE  CBalLeq(acceptor[r].max_bal, acceptor'[r].max_bal)
  <2>1. p.bal \in Ballots
    BY PacketFields DEF TypeOK
  <2>2. acceptor'[r].max_bal = p.bal /\ CBalLt(acceptor[r].max_bal, p.bal)
    BY <1>1 DEF CReplicaNextProcess1a, CAcceptorProcess1a, TypeOK, CAcceptor
  <2>3. QED
    BY <1>0, <2>1, <2>2, BallotsAreOrdered
<1>2. ASSUME NEW p \in net, CReplicaNextProcess2a(r, p)
      PROVE  CBalLeq(acceptor[r].max_bal, acceptor'[r].max_bal)
  BY <1>2 DEF CReplicaNextProcess2a, CAcceptorProcess2a, TypeOK, CAcceptor
<1>3. QED
  BY <1>0, <1>1, <1>2, WhoChangesAcceptor, BallotsAreOrdered

\* A vote that is new is in a ballot that no earlier promise exceeds.
LEMMA NewVotes ==
    ASSUME TypeOK, [Next]_vars, NEW r \in Replicas, NEW c \in Ballots, NEW o \in Opns,
           NEW v, VotedFor(r, c, o, v)', ~VotedFor(r, c, o, v)
    PROVE  /\ CBalLeq(acceptor[r].max_bal, c) /\ acceptor'[r].max_bal = c
           /\ \E p \in net : /\ CReplicaNextProcess2a(r, p)
                             /\ p.bal = c /\ p.opn = o /\ p.val = v
<1> DEFINE q == Message2b(r, c, o, v)
<1>1. q \in net' \ net
  BY DEF VotedFor
<1>2. q.type = "2b" /\ q.src = r /\ q.bal = c /\ q.opn = o /\ q.val = v
  BY DEF Message2b
<1>3. PICK p \in net : CReplicaNextProcess2a(q.src, p) /\ q = Message2b(q.src, p.bal, p.opn, p.val)
  BY <1>1, <1>2, WhoSends
<1> HIDE DEF q
<1>4. p.bal = c /\ p.opn = o /\ p.val = v /\ CReplicaNextProcess2a(r, p)
  BY <1>2, <1>3 DEF Message2b
<1>5. CBalLeq(acceptor[r].max_bal, c) /\ acceptor'[r].max_bal = c
  BY <1>4 DEF CReplicaNextProcess2a, CAcceptorProcess2a, TypeOK, CAcceptor
<1>6. QED
  BY <1>4, <1>5

\* A vote that was sent stays sent.
LEMMA VotesStay ==
    ASSUME TypeOK, [Next]_vars
    PROVE  \A r, c, o, v : VotedFor(r, c, o, v) => VotedFor(r, c, o, v)'
BY WhoSends DEF VotedFor

\* A batch that was chosen stays chosen.
LEMMA ChosenStays ==
    ASSUME TypeOK, [Next]_vars
    PROVE  \A o : ChosenAt(o) \subseteq ChosenAt(o)'
<1> SUFFICES ASSUME NEW o, NEW v \in Batches, NEW b \in Ballots, Chosen(b, o, v)
             PROVE  Chosen(b, o, v)'
  BY DEF ChosenAt
<1> DEFINE Q == {r \in Replicas : VotedFor(r, b, o, v)}
           P == {r \in Replicas : VotedFor(r, b, o, v)'}
<1>1. Q \subseteq P
  BY VotesStay
<1>2. IsQuorum(P)
  BY <1>1, QuorumsGrow DEF Chosen
<1>3. QED
  BY <1>2 DEF Chosen, IsQuorum

\* An acceptor that will not vote in a ballot never does.
LEMMA WontVoteStays ==
    ASSUME TypeOK, TypeOK', [Next]_vars, NEW r \in Replicas, NEW c \in Ballots, NEW o \in Opns,
           WontVote(r, c, o)
    PROVE  WontVote(r, c, o)'
<1>1. acceptor[r].max_bal \in Ballots /\ acceptor'[r].max_bal \in Ballots
  BY DEF TypeOK, CAcceptor
<1>2. CBalLt(c, acceptor'[r].max_bal)
  BY <1>1, PromisesOnlyGrow, BallotsAreTransitive DEF WontVote
<1>3. ASSUME NEW v \in Batches, VotedFor(r, c, o, v)'
      PROVE  FALSE
  <2>1. CBalLeq(acceptor[r].max_bal, c)
    BY <1>3, NewVotes DEF WontVote
  <2>2. QED
    BY <1>1, <2>1, BallotsAreOrdered DEF WontVote
<1>4. QED
  BY <1>2, <1>3 DEF WontVote

\* A proposal that is safe stays safe whatever handler runs.
LEMMA SafeStays ==
    ASSUME TypeOK, TypeOK', [Next]_vars, NEW b \in Ballots, NEW o \in Opns, NEW v,
           SafeAt(b, o, v)
    PROVE  SafeAt(b, o, v)'
<1> SUFFICES ASSUME NEW c \in Ballots, CBalLt(c, b)
             PROVE  IsQuorum({r \in Replicas : VotedFor(r, c, o, v)' \/ WontVote(r, c, o)'})
  BY DEF SafeAt, IsQuorum
<1> DEFINE Q == {r \in Replicas : VotedFor(r, c, o, v) \/ WontVote(r, c, o)}
           P == {r \in Replicas : VotedFor(r, c, o, v)' \/ WontVote(r, c, o)'}
<1>1. IsQuorum(Q)
  BY DEF SafeAt
<1>2. Q \subseteq P
  BY VotesStay, WontVoteStays
<1>3. QED
  BY <1>1, <1>2, QuorumsGrow
-----------------------------------------------------------------------------
(***************************************************************************)
(* Every step preserves every part of the invariant.                       *)
(***************************************************************************)

\* What a nomination does, whichever of the two it is.
LEMMA Nomination ==
    ASSUME TypeOK, NEW r \in Replicas, CReplicaNextReadClockMaybeNominateValueAndSend2a(r)
    PROVE  \E v \in Batches :
             LET l == proposer[r]
                 opn == l.next_operation_number_to_propose
                 S == l.received_1b_packets
             IN  /\ net' = net \cup {Message2a(r, l.max_ballot_i_sent_1a, opn, v)}
                 /\ acceptor' = acceptor
                 /\ proposer'[r] = [l EXCEPT !.next_operation_number_to_propose = opn + 1]
                 /\ l.current_state = 2
                 /\ Cardinality(S) >= CMinQuorumSize
                 /\ CIsAfterLogTruncationPoint(opn, S)
                 /\ CAllAcceptorsHadNoProposal(S, opn) \/ CValIsHighestNumberedProposal(v, S, opn)
BY DEF CReplicaNextReadClockMaybeNominateValueAndSend2a, Send,
       CProposerNominateNewValueAndSend2a, CProposerNominateOldValueAndSend2a,
       AdvanceNextOperation, CProposerCanNominateUsingOperationNumber, TypeOK, CProposer

\* A 2b answers a 2a that the ballot's leader sent.
LEMMA VotesAreForProposalsStep ==
    ASSUME PaxosInv, [Next]_vars
    PROVE  VotesAreForProposals'
<1>0. TypeOK /\ VotesAreForProposals /\ ProposalsBelowNext
  BY DEF PaxosInv
<1> SUFFICES ASSUME NEW q \in net', q.type = "2b"
             PROVE  Message2a(q.bal.proposer_id, q.bal, q.opn, q.val) \in net'
  BY DEF VotesAreForProposals, Sent
<1>1. CASE q \in net
  BY <1>0, <1>1, WhoSends DEF VotesAreForProposals, Sent
<1>2. CASE q \notin net
  <2>1. PICK p \in net : /\ CReplicaNextProcess2a(q.src, p)
                         /\ q = Message2b(q.src, p.bal, p.opn, p.val)
    BY <1>0, <1>2, WhoSends
  <2>2. p \in CMessage /\ p.type = "2a"
    BY <1>0, <2>1 DEF TypeOK, CReplicaNextProcess2a, Receive
  <2>3. p.bal.proposer_id = p.src
    BY <1>0, <2>2 DEF ProposalsBelowNext, Sent
  <2>4. p = Message2a(p.src, p.bal, p.opn, p.val)
    BY <2>2 DEF CMessage, Message2a
  <2>5. q.bal = p.bal /\ q.opn = p.opn /\ q.val = p.val
    BY <2>1 DEF Message2b
  <2>6. QED
    BY <1>0, <2>3, <2>4, <2>5, WhoSends
<1>3. QED
  BY <1>1, <1>2

\* No handler makes a leader propose again at an operation number it has used.
LEMMA ProposalsBelowNextStep ==
    ASSUME PaxosInv, TypeOK', [Next]_vars
    PROVE  ProposalsBelowNext'
<1>0. TypeOK /\ ProposalsBelowNext /\ PromisesHeld
  BY DEF PaxosInv
<1> DEFINE Below(p, l) ==
              /\ p.bal.proposer_id = p.src
              /\ CBalLeq(p.bal, l.max_ballot_i_sent_1a)
              /\ p.bal = l.max_ballot_i_sent_1a =>
                    /\ l.current_state # 1
                    /\ p.opn < l.next_operation_number_to_propose
<1> SUFFICES ASSUME NEW p \in net', p.type = "2a"
             PROVE  Below(p, proposer'[p.src])
  BY DEF ProposalsBelowNext, Sent
<1> DEFINE r == p.src
           l == proposer[r]
<1>1. r \in Replicas /\ p.bal \in Ballots /\ p.opn \in Opns
  BY PacketFields DEF TypeOK
<1>2. l \in CProposer /\ l.max_ballot_i_sent_1a \in Ballots
      /\ l.next_operation_number_to_propose \in Int /\ p.opn \in Int
      /\ l.max_ballot_i_sent_1a.proposer_id = r
  BY <1>0, <1>1 DEF TypeOK, CProposer, Opns, PromisesHeld
<1>3. CASE p \notin net
  <2>1. PICK v \in Batches :
          /\ p = Message2a(r, l.max_ballot_i_sent_1a, l.next_operation_number_to_propose, v)
          /\ proposer'[r] = [l EXCEPT !.next_operation_number_to_propose =
                                         l.next_operation_number_to_propose + 1]
          /\ l.current_state = 2
    BY <1>0, <1>1, <1>3, WhoSends, Nomination
  <2>2. p.bal = l.max_ballot_i_sent_1a /\ p.opn = l.next_operation_number_to_propose
    BY <2>1 DEF Message2a
  <2>3. QED
    BY <1>2, <2>1, <2>2, BallotsAreOrdered DEF CProposer
<1>4. CASE p \in net
  <2>0. Below(p, l)
    BY <1>0, <1>4 DEF ProposalsBelowNext, Sent
  <2>1. CASE proposer'[r] = l \/ proposer'[r] = [l EXCEPT !.current_state = 0]
    BY <1>2, <2>0, <2>1 DEF CProposer
  <2>2. CASE \E q \in net : CReplicaNextProcess1b(r, q)
    BY <1>0, <1>1, <1>2, <2>0, <2>2 DEF CReplicaNextProcess1b, CProposerProcess1b, TypeOK, CProposer
  <2>3. CASE CReplicaNextSpontaneousMaybeEnterNewViewAndSend1a(r)
    <3>1. /\ proposer'[r].max_ballot_i_sent_1a = current_view[r]
          /\ CBalLt(l.max_ballot_i_sent_1a, current_view[r])
          /\ current_view[r] \in Ballots
      BY <1>0, <1>1, <1>2, <2>3 DEF CReplicaNextSpontaneousMaybeEnterNewViewAndSend1a,
          CProposerMaybeEnterNewViewAndSend1a, TypeOK, CProposer
    <3>2. CBalLt(p.bal, current_view[r]) /\ CBalLeq(p.bal, current_view[r])
          /\ p.bal # current_view[r]
      BY <1>1, <1>2, <2>0, <3>1, BallotsAreTransitive, BallotsAreOrdered
    <3>3. QED
      BY <2>0, <3>1, <3>2
  <2>4. CASE CReplicaNextSpontaneousMaybeEnterPhase2(r)
    <3>1. /\ proposer'[r].max_ballot_i_sent_1a = l.max_ballot_i_sent_1a
          /\ l.current_state = 1
      BY <1>0, <1>1, <1>2, <2>4 DEF CReplicaNextSpontaneousMaybeEnterPhase2,
          CProposerMaybeEnterPhase2, TypeOK, CProposer
    <3>2. QED
      BY <2>0, <3>1
  <2>5. CASE CReplicaNextReadClockMaybeNominateValueAndSend2a(r)
    <3>1. /\ proposer'[r] = [l EXCEPT !.next_operation_number_to_propose =
                                         l.next_operation_number_to_propose + 1]
          /\ l.current_state = 2
      BY <1>0, <1>1, <2>5, Nomination
    <3>2. QED
      BY <1>2, <2>0, <3>1 DEF CProposer
  <2>6. QED
    BY <1>0, <1>1, <2>1, <2>2, <2>3, <2>4, <2>5, WhoChangesProposer
<1>5. QED
  BY <1>3, <1>4

\* Nomination is at an operation number above all earlier ones of the ballot.
LEMMA OneProposalStep ==
    ASSUME PaxosInv, TypeOK', [Next]_vars
    PROVE  OneProposalPerBallot'
<1>0. TypeOK /\ ProposalsBelowNext /\ PromisesHeld /\ OneProposalPerBallot
  BY DEF PaxosInv
<1>1. ASSUME NEW p \in net' \ net, p.type = "2a"
      PROVE  LET l == proposer[p.src]
             IN  /\ p.src \in Replicas
                 /\ p.bal = l.max_ballot_i_sent_1a /\ p.bal.proposer_id = p.src
                 /\ p.opn = l.next_operation_number_to_propose
                 /\ p.opn \in Int
                 /\ \E v : net' = net \cup {Message2a(p.src, p.bal, p.opn, v)}
  <2>1. p.src \in Replicas
    BY PacketFields DEF TypeOK
  <2>2. CReplicaNextReadClockMaybeNominateValueAndSend2a(p.src)
    BY <1>0, <1>1, WhoSends
  <2>3. PICK v \in Batches :
          net' = net \cup {Message2a(p.src, proposer[p.src].max_ballot_i_sent_1a,
                                     proposer[p.src].next_operation_number_to_propose, v)}
    BY <1>0, <2>1, <2>2, Nomination
  <2>4. /\ p.bal = proposer[p.src].max_ballot_i_sent_1a
        /\ p.opn = proposer[p.src].next_operation_number_to_propose
    BY <1>1, <2>3 DEF Message2a
  <2>5. QED
    BY <1>0, <2>1, <2>3, <2>4 DEF PromisesHeld, TypeOK, CProposer, Opns
<1>2. ASSUME NEW p \in net' \ net, NEW q \in net, p.type = "2a", q.type = "2a", p.bal = q.bal
      PROVE  q.opn # p.opn
  <2>1. q.src = p.src
    BY <1>0, <1>1, <1>2 DEF ProposalsBelowNext, Sent
  <2>2. q.opn < p.opn
    BY <1>0, <1>1, <1>2, <2>1 DEF ProposalsBelowNext, Sent
  <2>3. q.opn \in Int
    BY <1>0, <1>2, PacketFields DEF TypeOK, Opns
  <2>4. QED
    BY <1>1, <1>2, <2>2, <2>3
<1>3. ASSUME NEW p \in net' \ net, NEW q \in net' \ net, p.type = "2a", q.type = "2a"
      PROVE  p = q
  BY <1>1, <1>3
<1>4. QED
  BY <1>0, <1>2, <1>3 DEF OneProposalPerBallot, Sent

\* A proposer keeps one promise per acceptor, all for its latest ballot.
LEMMA PromisesHeldStep ==
    ASSUME PaxosInv, TypeOK', [Next]_vars
    PROVE  PromisesHeld'
<1>0. TypeOK /\ PromisesHeld
  BY DEF PaxosInv
<1> DEFINE Held(r, l, sent) ==
              /\ IsFiniteSet(l.received_1b_packets)
              /\ l.received_1b_packets \subseteq sent
              /\ l.max_ballot_i_sent_1a.proposer_id = r
              /\ \A p \in l.received_1b_packets : p.bal = l.max_ballot_i_sent_1a
              /\ \A p, q \in l.received_1b_packets : p.src = q.src => p = q
<1> DEFINE sent == {p \in net' : p.type = "1b"}
<1> SUFFICES ASSUME NEW r \in Replicas
             PROVE  Held(r, proposer'[r], sent)
  BY DEF PromisesHeld, Sent
<1> DEFINE l == proposer[r]
<1>1. l \in CProposer /\ Held(r, l, sent)
  BY <1>0, WhoSends DEF TypeOK, PromisesHeld, Sent
<1> HIDE DEF sent
<1>2. CASE proposer'[r] = l \/ proposer'[r] = [l EXCEPT !.current_state = 0]
  BY <1>1, <1>2 DEF CProposer
<1>3. ASSUME NEW p \in net, CReplicaNextProcess1b(r, p)
      PROVE  Held(r, proposer'[r], sent)
  <2>1. /\ proposer'[r] = [l EXCEPT !.received_1b_packets = l.received_1b_packets \cup {p}]
        /\ p.bal = l.max_ballot_i_sent_1a
        /\ \A q \in l.received_1b_packets : q.src # p.src
        /\ p.type = "1b"
    BY <1>0, <1>3 DEF CReplicaNextProcess1b, CProposerProcess1b, Receive, TypeOK, CProposer
  <2>2. p \in sent
    BY <1>0, <2>1, WhoSends DEF sent
  <2>3. IsFiniteSet(l.received_1b_packets \cup {p})
    BY <1>1, FS_AddElement
  <2>4. QED
    BY <1>1, <2>1, <2>2, <2>3 DEF CProposer
<1>4. CASE CReplicaNextSpontaneousMaybeEnterNewViewAndSend1a(r)
  <2>1. /\ proposer'[r].received_1b_packets = {}
        /\ proposer'[r].max_ballot_i_sent_1a.proposer_id = r
    BY <1>0, <1>1, <1>4 DEF CReplicaNextSpontaneousMaybeEnterNewViewAndSend1a,
        CProposerMaybeEnterNewViewAndSend1a, TypeOK, CProposer
  <2>2. QED
    BY <2>1, FS_EmptySet
<1>5. CASE \/ CReplicaNextSpontaneousMaybeEnterPhase2(r)
           \/ CReplicaNextReadClockMaybeNominateValueAndSend2a(r)
  <2>1. /\ proposer'[r].received_1b_packets = l.received_1b_packets
        /\ proposer'[r].max_ballot_i_sent_1a = l.max_ballot_i_sent_1a
    BY <1>0, <1>1, <1>5, Nomination DEF CReplicaNextSpontaneousMaybeEnterPhase2,
        CProposerMaybeEnterPhase2, TypeOK, CProposer
  <2>2. QED
    BY <1>1, <2>1
<1>6. QED
  BY <1>0, <1>2, <1>3, <1>4, <1>5, WhoChangesProposer

\* No handler promises or votes above the max_bal it records.
LEMMA MaxBalIsMaxStep ==
    ASSUME PaxosInv, TypeOK', [Next]_vars
    PROVE  MaxBalIsMax'
<1>0. TypeOK /\ MaxBalIsMax
  BY DEF PaxosInv
<1> SUFFICES ASSUME NEW q \in net', q.type \in {"1b", "2b"}
             PROVE  CBalLeq(q.bal, acceptor'[q.src].max_bal)
  BY DEF MaxBalIsMax
<1>1. q.src \in Replicas /\ q.bal \in Ballots
  BY PacketFields DEF TypeOK
<1>2. acceptor[q.src].max_bal \in Ballots /\ acceptor'[q.src].max_bal \in Ballots
  BY <1>0, <1>1 DEF TypeOK, CAcceptor
<1>3. CASE q \in net
  BY <1>0, <1>1, <1>2, <1>3, PromisesOnlyGrow, BallotsAreTransitive DEF MaxBalIsMax
<1>4. CASE q \notin net
  <2>1. PICK p \in net :
          \/ CReplicaNextProcess1a(q.src, p) /\ q = Promise1b(q.src, p)
          \/ CReplicaNextProcess2a(q.src, p) /\ q = Message2b(q.src, p.bal, p.opn, p.val)
    BY <1>0, <1>4, WhoSends
  <2>2. q.bal = p.bal /\ acceptor'[q.src].max_bal = p.bal
    BY <1>0, <1>1, <2>1 DEF Promise1b, Message1b, Message2b, CReplicaNextProcess1a,
        CAcceptorProcess1a, CReplicaNextProcess2a, CAcceptorProcess2a, TypeOK, CAcceptor
  <2>3. QED
    BY <1>1, <2>2, BallotsAreOrdered
<1>5. QED
  BY <1>3, <1>4

\* A vote is recorded over any earlier one of the operation: it is the highest.
LEMMA VotesRememberedStep ==
    ASSUME PaxosInv, TypeOK', [Next]_vars
    PROVE  VotesRemembered'
<1>0. TypeOK /\ VotesRemembered /\ MaxBalIsMax
  BY DEF PaxosInv
<1> DEFINE Remembered(r, o) ==
              /\ acceptor'[r].votes[o] # None =>
                    Message2b(r, acceptor'[r].votes[o].max_value_bal, o,
                              acceptor'[r].votes[o].max_val) \in net'
              /\ \A c \in Ballots, v \in Batches :
                    VotedFor(r, c, o, v)' =>
                       /\ acceptor'[r].votes[o] # None
                       /\ CBalLeq(c, acceptor'[r].votes[o].max_value_bal)
<1> SUFFICES ASSUME NEW r \in Replicas, NEW o \in Opns,
                    acceptor'[r].log_truncation_point <= o
             PROVE  Remembered(r, o)
  BY DEF VotesRemembered, VotedFor
<1> DEFINE a == acceptor[r]
           ltp == a.log_truncation_point
<1>1. a \in CAcceptor /\ ltp \in Int /\ o \in Int
      /\ acceptor'[r].log_truncation_point \in Int
  BY <1>0 DEF TypeOK, CAcceptor, Opns
<1>2. ASSUME acceptor'[r].votes[o] = a.votes[o], ltp <= o,
             \A c \in Ballots, v \in Batches : VotedFor(r, c, o, v)' => VotedFor(r, c, o, v)
      PROVE  Remembered(r, o)
  <2>1. /\ a.votes[o] # None => VotedFor(r, a.votes[o].max_value_bal, o, a.votes[o].max_val)
        /\ \A c \in Ballots, v \in Batches :
              VotedFor(r, c, o, v) =>
                 a.votes[o] # None /\ CBalLeq(c, a.votes[o].max_value_bal)
    BY <1>0, <1>2 DEF VotesRemembered
  <2>2. a.votes[o] # None =>
           Message2b(r, a.votes[o].max_value_bal, o, a.votes[o].max_val) \in net'
    BY <1>0, <2>1, WhoSends DEF VotedFor
  <2>3. acceptor'[r].votes[o] # None =>
           Message2b(r, acceptor'[r].votes[o].max_value_bal, o,
                     acceptor'[r].votes[o].max_val) \in net'
    BY <1>2, <2>2
  <2>4. QED
    BY <1>2, <2>1, <2>3
<1>3. ASSUME NEW p \in net, CReplicaNextProcess2a(r, p), p.opn = o
      PROVE  Remembered(r, o)
  <2>1. p.bal \in Ballots /\ p.val \in Batches
    BY <1>0, <1>3, PacketFields DEF TypeOK, CReplicaNextProcess2a, Receive
  <2>2. acceptor'[r].log_truncation_point = NewLogTruncationPoint(ltp, o)
        /\ acceptor'[r].max_bal = p.bal
    BY <1>0, <1>3 DEF CReplicaNextProcess2a, CAcceptorProcess2a, TypeOK, CAcceptor
  <2>3. ltp <= o
    BY <1>1, <2>2, LogAssumption DEF NewLogTruncationPoint, TruncationCandidate
  <2>4. acceptor'[r].votes[o] = [max_value_bal |-> p.bal, max_val |-> p.val]
    <3>1. acceptor'[r].votes =
             CAddVoteAndRemoveOldOnes(a.votes, o, [max_value_bal |-> p.bal, max_val |-> p.val],
                                      NewLogTruncationPoint(ltp, o))
      BY <1>0, <1>3, <2>3 DEF CReplicaNextProcess2a, CAcceptorProcess2a, TypeOK, CAcceptor
    <3>2. ~(o < NewLogTruncationPoint(ltp, o))
      BY <1>1, <2>2
    <3>3. QED
      BY <1>1, <3>1, <3>2
      DEF CAddVoteAndRemoveOldOnes, CRemoveVotesBeforeLogTruncationPoint, CAcceptor, CVotes
  <2>5. Message2b(r, p.bal, o, p.val) \in net'
    BY <1>3 DEF CReplicaNextProcess2a, Send
  <2>6. acceptor'[r].votes[o] # None
    BY <2>1, <2>4, NoneAssumption DEF CVote
  <2>7. ASSUME NEW c \in Ballots, NEW v \in Batches, VotedFor(r, c, o, v)'
        PROVE  CBalLeq(c, p.bal)
    <3>1. CBalLeq(c, acceptor'[r].max_bal)
      BY <2>7, MaxBalIsMaxStep DEF MaxBalIsMax, VotedFor, Message2b
    <3>2. QED
      BY <2>2, <3>1
  <2>8. QED
    BY <2>4, <2>5, <2>6, <2>7 DEF VotedFor
<1>4. ASSUME NEW p \in net, CReplicaNextProcess2a(r, p), p.opn # o
      PROVE  /\ acceptor'[r].votes[o] = a.votes[o] /\ ltp <= o
             /\ \A c \in Ballots, v \in Batches : VotedFor(r, c, o, v)' => VotedFor(r, c, o, v)
  <2>1. /\ net' = net \cup {Message2b(r, p.bal, p.opn, p.val)}
        /\ p.opn \in Opns /\ p.opn \in Int
    BY <1>0, <1>4, PacketFields DEF TypeOK, CReplicaNextProcess2a, Receive, Send, Opns
  <2>2. /\ acceptor'[r].log_truncation_point = NewLogTruncationPoint(ltp, p.opn)
        /\ acceptor'[r].votes =
             IF ltp <= p.opn
             THEN CAddVoteAndRemoveOldOnes(a.votes, p.opn,
                     [max_value_bal |-> p.bal, max_val |-> p.val],
                     NewLogTruncationPoint(ltp, p.opn))
             ELSE a.votes
    BY <1>0, <1>4 DEF CReplicaNextProcess2a, CAcceptorProcess2a, TypeOK, CAcceptor
  <2>3. ltp <= o /\ ~(o < NewLogTruncationPoint(ltp, p.opn))
    BY <1>1, <2>1, <2>2, LogAssumption DEF NewLogTruncationPoint, TruncationCandidate
  <2>4. acceptor'[r].votes[o] = a.votes[o]
    BY <1>1, <1>4, <2>1, <2>2, <2>3
    DEF CAddVoteAndRemoveOldOnes, CRemoveVotesBeforeLogTruncationPoint, CAcceptor, CVotes
  <2>5. QED
    BY <1>4, <2>1, <2>3, <2>4 DEF VotedFor, Message2b
<1>5. CASE ~\E p \in net : CReplicaNextProcess2a(r, p)
  <2>1. \A c \in Ballots, v \in Batches : VotedFor(r, c, o, v)' => VotedFor(r, c, o, v)
    BY <1>0, <1>5, NewVotes
  <2>2. acceptor'[r].votes[o] = a.votes[o] /\ ltp <= o
    <3>1. CASE \E p \in net : CReplicaNextProcess1a(r, p)
      BY <1>0, <1>1, <3>1 DEF CReplicaNextProcess1a, CAcceptorProcess1a, TypeOK, CAcceptor
    <3>2. CASE /\ acceptor'[r].log_truncation_point >= ltp
               /\ o >= acceptor'[r].log_truncation_point =>
                     acceptor'[r].votes[o] = acceptor[r].votes[o]
      BY <1>1, <3>2
    <3>3. QED
      BY <1>0, <1>5, <3>1, <3>2, WhoChangesAcceptor
  <2>3. QED
    BY <1>2, <2>1, <2>2
<1>6. QED
  BY <1>2, <1>3, <1>4, <1>5

\* A promise goes on reporting every lower vote: none is cast after it.
LEMMA PromisesReportVotesStep ==
    ASSUME PaxosInv, TypeOK', [Next]_vars
    PROVE  PromisesReportVotes'
<1>0. TypeOK /\ VotesRemembered /\ MaxBalIsMax /\ PromisesReportVotes
  BY DEF PaxosInv
<1> SUFFICES ASSUME NEW q \in net', q.type = "1b", NEW o \in Opns, q.log_truncation_point <= o
             PROVE  /\ q.votes[o] # None =>
                          /\ Message2b(q.src, q.votes[o].max_value_bal, o, q.votes[o].max_val)
                                \in net'
                          /\ CBalLt(q.votes[o].max_value_bal, q.bal)
                    /\ \A c \in Ballots, v \in Batches :
                          VotedFor(q.src, c, o, v)' /\ CBalLt(c, q.bal) =>
                             q.votes[o] # None /\ CBalLeq(c, q.votes[o].max_value_bal)
  BY DEF PromisesReportVotes, VotesUpTo, Sent, VotedFor
<1> DEFINE s == q.src
           a == acceptor[s]
<1>1. s \in Replicas /\ q.bal \in Ballots /\ q.votes \in CVotes
  BY PacketFields DEF TypeOK
<1>2. a \in CAcceptor /\ a.max_bal \in Ballots
  BY <1>0, <1>1 DEF TypeOK, CAcceptor
<1>3. CASE q \in net
  <2>1. /\ q.votes[o] # None =>
              /\ VotedFor(s, q.votes[o].max_value_bal, o, q.votes[o].max_val)
              /\ CBalLt(q.votes[o].max_value_bal, q.bal)
        /\ \A c \in Ballots, v \in Batches :
              VotedFor(s, c, o, v) /\ CBalLt(c, q.bal) =>
                 q.votes[o] # None /\ CBalLeq(c, q.votes[o].max_value_bal)
    BY <1>0, <1>3 DEF PromisesReportVotes, VotesUpTo, Sent
  <2>2. ASSUME NEW c \in Ballots, NEW v \in Batches, VotedFor(s, c, o, v)', CBalLt(c, q.bal)
        PROVE  VotedFor(s, c, o, v)
    <3>1. CBalLeq(q.bal, a.max_bal)
      BY <1>0, <1>3 DEF MaxBalIsMax
    <3>2. CBalLt(c, a.max_bal)
      BY <1>1, <1>2, <2>2, <3>1, BallotsAreTransitive
    <3>3. ~CBalLeq(a.max_bal, c)
      BY <1>2, <3>2, BallotsAreOrdered
    <3>4. QED
      BY <1>0, <1>1, <2>2, <3>3, NewVotes
  <2>3. QED
    BY <1>0, <2>1, <2>2, WhoSends DEF VotedFor
<1>4. CASE q \notin net
  <2>1. PICK p \in net : CReplicaNextProcess1a(s, p) /\ q = Promise1b(s, p)
    BY <1>0, <1>4, WhoSends
  <2>2. /\ q.bal = p.bal /\ q.votes = a.votes
        /\ q.log_truncation_point = a.log_truncation_point
    BY <2>1 DEF Promise1b, Message1b
  <2>3. CBalLt(a.max_bal, q.bal)
    BY <2>1, <2>2 DEF CReplicaNextProcess1a, CAcceptorProcess1a
  <2>4. \A c, v : VotedFor(s, c, o, v)' <=> VotedFor(s, c, o, v)
    BY <2>1 DEF CReplicaNextProcess1a, Send, Promise1b, Message1b, VotedFor, Message2b
  <2>5. /\ a.votes[o] # None =>
              VotedFor(s, a.votes[o].max_value_bal, o, a.votes[o].max_val)
        /\ \A c \in Ballots, v \in Batches :
              VotedFor(s, c, o, v) =>
                 a.votes[o] # None /\ CBalLeq(c, a.votes[o].max_value_bal)
    BY <1>0, <1>1, <2>2 DEF VotesRemembered
  <2>6. a.votes[o] # None => CBalLt(a.votes[o].max_value_bal, q.bal)
    <3> SUFFICES ASSUME a.votes[o] # None
                 PROVE  CBalLt(a.votes[o].max_value_bal, q.bal)
      OBVIOUS
    <3>1. a.votes[o].max_value_bal \in Ballots
      BY <1>2 DEF CAcceptor, CVotes, CVote
    <3>2. CBalLeq(a.votes[o].max_value_bal, a.max_bal)
      BY <1>0, <2>5 DEF MaxBalIsMax, VotedFor, Message2b
    <3>3. QED
      BY <1>1, <1>2, <2>3, <3>1, <3>2, BallotsAreTransitive
  <2>7. QED
    BY <1>0, <2>2, <2>4, <2>5, <2>6, WhoSends DEF VotedFor
<1>5. QED
  BY <1>3, <1>4

\* A vote cast is for a proposal, so one ballot has votes for one batch only.
LEMMA OneVotePerBallot ==
    ASSUME VotesAreForProposals, OneProposalPerBallot,
           NEW r, NEW s, NEW c, NEW o, NEW v, NEW w,
           VotedFor(r, c, o, v), VotedFor(s, c, o, w)
    PROVE  v = w
<1>1. /\ Message2a(c.proposer_id, c, o, v) \in net
      /\ Message2a(c.proposer_id, c, o, w) \in net
  BY DEF VotesAreForProposals, VotedFor, Message2b, Sent
<1>2. QED
  BY <1>1 DEF OneProposalPerBallot, Message2a, Sent

\* A batch voted for in a ballot was proposed there, hence safe there.
LEMMA VotedIsSafe ==
    ASSUME VotesAreForProposals, ProposalsSafe, NEW r, NEW c, NEW o, NEW v,
           VotedFor(r, c, o, v)
    PROVE  SafeAt(c, o, v)
<1>1. Message2a(c.proposer_id, c, o, v) \in net
  BY DEF VotesAreForProposals, VotedFor, Message2b, Sent
<1>2. QED
  BY <1>1 DEF ProposalsSafe, Message2a, Sent

\* The heart of the protocol: what a quorum of promises lets a leader propose
\* is safe.  If no promise reports a vote, the quorum has not voted below the
\* ballot and never will; otherwise the batch of the highest vote reported is
\* safe below that vote's ballot, the only one voted for in it, and nothing
\* has been voted for by the quorum between that ballot and the new one.
LEMMA PromisedIsSafe ==
    ASSUME PaxosInv, NEW r \in Replicas, NEW o \in Opns, NEW v \in Batches,
           Cardinality(proposer[r].received_1b_packets) >= CMinQuorumSize,
           CIsAfterLogTruncationPoint(o, proposer[r].received_1b_packets),
           \/ CAllAcceptorsHadNoProposal(proposer[r].received_1b_packets, o)
           \/ CValIsHighestNumberedProposal(v, proposer[r].received_1b_packets, o)
    PROVE  SafeAt(proposer[r].max_ballot_i_sent_1a, o, v)
<1> DEFINE S == proposer[r].received_1b_packets
           b == proposer[r].max_ballot_i_sent_1a
           Q == {p.src : p \in S}
<1>0. /\ TypeOK /\ PromisesHeld /\ PromisesReportVotes /\ MaxBalIsMax
      /\ VotesAreForProposals /\ OneProposalPerBallot /\ ProposalsSafe
  BY DEF PaxosInv
<1>1. b \in Ballots
  BY <1>0 DEF TypeOK, CProposer
<1>2. \A p \in S : /\ p \in net /\ p.type = "1b" /\ p.bal = b
                   /\ p.src \in Replicas /\ p.votes \in CVotes
                   /\ p.log_truncation_point <= o
  <2>1. \A p \in S : p \in net /\ p.type = "1b" /\ p.bal = b
    BY <1>0 DEF PromisesHeld, Sent
  <2>2. QED
    BY <1>0, <2>1, PacketFields DEF TypeOK, CIsAfterLogTruncationPoint
<1>3. Q \subseteq Replicas /\ IsQuorum(Q)
  <2>1. IsFiniteSet(S) /\ \A p, q \in S : p.src = q.src => p = q
    BY <1>0 DEF PromisesHeld
  <2>2. QED
    BY <1>2, <2>1, SendersAreQuorum
\* Each promise: the votes below b are reported, and none will be added.
<1>4. ASSUME NEW p \in S, NEW c \in Ballots, CBalLt(c, b)
      PROVE  /\ \A w \in Batches :
                   VotedFor(p.src, c, o, w) =>
                      p.votes[o] # None /\ CBalLeq(c, p.votes[o].max_value_bal)
             /\ CBalLt(c, acceptor[p.src].max_bal)
  <2>1. CBalLeq(b, acceptor[p.src].max_bal) /\ acceptor[p.src].max_bal \in Ballots
    BY <1>0, <1>2 DEF MaxBalIsMax, TypeOK, CAcceptor
  <2>2. CBalLt(c, acceptor[p.src].max_bal)
    BY <1>1, <1>4, <2>1, BallotsAreTransitive
  <2>3. VotesUpTo(p.src, p.votes, p.log_truncation_point, b)
    BY <1>0, <1>2 DEF PromisesReportVotes, Sent
  <2>4. QED
    BY <1>2, <1>4, <2>2, <2>3 DEF VotesUpTo
<1> SUFFICES ASSUME NEW c \in Ballots, CBalLt(c, b)
             PROVE  IsQuorum({s \in Replicas : VotedFor(s, c, o, v) \/ WontVote(s, c, o)})
  BY DEF SafeAt
<1> DEFINE P == {s \in Replicas : VotedFor(s, c, o, v) \/ WontVote(s, c, o)}
<1>5. CASE CAllAcceptorsHadNoProposal(S, o)
  <2>1. \A p \in S : WontVote(p.src, c, o)
    BY <1>4, <1>5 DEF CAllAcceptorsHadNoProposal, WontVote
  <2>2. Q \subseteq P
    BY <1>3, <2>1
  <2>3. QED
    BY <1>3, <2>2, QuorumsGrow
<1>6. CASE CValIsHighestNumberedProposal(v, S, o)
  <2>1. PICK p0 \in S :
          /\ p0.votes[o] # None
          /\ p0.votes[o].max_val = v
          /\ \A q \in S : q.votes[o] # None =>
                CBalLeq(q.votes[o].max_value_bal, p0.votes[o].max_value_bal)
    BY <1>6 DEF CValIsHighestNumberedProposal
  <2> DEFINE m == p0.votes[o].max_value_bal
  <2>2. VotedFor(p0.src, m, o, v) /\ m \in Ballots
    <3>1. VotesUpTo(p0.src, p0.votes, p0.log_truncation_point, b)
      BY <1>0, <1>2 DEF PromisesReportVotes, Sent
    <3>2. QED
      BY <1>2, <2>1, <3>1 DEF VotesUpTo, CVotes, CVote
  <2>3. CASE CBalLt(c, m)
    <3>1. SafeAt(m, o, v)
      BY <1>0, <2>2, VotedIsSafe
    <3>2. QED
      BY <2>3, <3>1 DEF SafeAt
  <2>4. CASE c = m
    <3>1. ASSUME NEW p \in S
          PROVE  VotedFor(p.src, c, o, v) \/ WontVote(p.src, c, o)
      <4>1. \A w \in Batches : VotedFor(p.src, c, o, w) => w = v
        BY <1>0, <2>2, <2>4, OneVotePerBallot
      <4>2. QED
        BY <1>4, <4>1 DEF WontVote
    <3>2. Q \subseteq P
      BY <1>3, <3>1
    <3>3. QED
      BY <1>3, <3>2, QuorumsGrow
  <2>5. CASE CBalLt(m, c)
    <3>1. ASSUME NEW p \in S
          PROVE  WontVote(p.src, c, o)
      <4>1. ASSUME NEW w \in Batches, VotedFor(p.src, c, o, w)
            PROVE  FALSE
        <5>1. p.votes[o] # None /\ CBalLeq(c, p.votes[o].max_value_bal)
          BY <1>4, <4>1
        <5>2. p.votes[o].max_value_bal \in Ballots
          BY <1>2, <5>1 DEF CVotes, CVote
        <5>3. CBalLeq(c, m)
          BY <2>1, <2>2, <5>1, <5>2, BallotsAreTransitive
        <5>4. QED
          BY <2>2, <2>5, <5>3, BallotsAreOrdered
      <4>2. QED
        BY <1>4, <4>1 DEF WontVote
    <3>2. Q \subseteq P
      BY <1>3, <3>1
    <3>3. QED
      BY <1>3, <3>2, QuorumsGrow
  <2>6. QED
    BY <2>2, <2>3, <2>4, <2>5, BallotsAreOrdered
<1>7. QED
  BY <1>5, <1>6

\* The nomination of a new or of an old value is safe.
LEMMA ProposalsSafeStep ==
    ASSUME PaxosInv, TypeOK', [Next]_vars
    PROVE  ProposalsSafe'
<1>0. TypeOK /\ ProposalsSafe
  BY DEF PaxosInv
<1> SUFFICES ASSUME NEW p \in net', p.type = "2a"
             PROVE  SafeAt(p.bal, p.opn, p.val)'
  BY DEF ProposalsSafe, Sent
<1>1. p.src \in Replicas /\ p.bal \in Ballots /\ p.opn \in Opns /\ p.val \in Batches
  BY PacketFields DEF TypeOK
<1>2. SafeAt(p.bal, p.opn, p.val)
  <2>1. CASE p \in net
    BY <1>0, <2>1 DEF ProposalsSafe, Sent
  <2>2. CASE p \notin net
    <3> DEFINE l == proposer[p.src]
               opn == l.next_operation_number_to_propose
               S == l.received_1b_packets
    <3>1. PICK v \in Batches :
            /\ p = Message2a(p.src, l.max_ballot_i_sent_1a, opn, v)
            /\ Cardinality(S) >= CMinQuorumSize
            /\ CIsAfterLogTruncationPoint(opn, S)
            /\ CAllAcceptorsHadNoProposal(S, opn) \/ CValIsHighestNumberedProposal(v, S, opn)
      <4>1. CReplicaNextReadClockMaybeNominateValueAndSend2a(p.src)
        BY <1>0, <2>2, WhoSends
      <4>2. PICK v \in Batches :
              /\ net' = net \cup {Message2a(p.src, l.max_ballot_i_sent_1a, opn, v)}
              /\ Cardinality(S) >= CMinQuorumSize
              /\ CIsAfterLogTruncationPoint(opn, S)
              /\ CAllAcceptorsHadNoProposal(S, opn) \/ CValIsHighestNumberedProposal(v, S, opn)
        BY <1>0, <1>1, <4>1, Nomination, Zenon
      <4>3. p = Message2a(p.src, l.max_ballot_i_sent_1a, opn, v)
        BY <2>2, <4>2, Zenon
      <4>4. QED
        BY <4>2, <4>3, Zenon
    <3>2. p.bal = l.max_ballot_i_sent_1a /\ p.opn = opn /\ p.val = v
      BY <3>1 DEF Message2a
    <3>3. SafeAt(l.max_ballot_i_sent_1a, p.opn, p.val)
      BY <1>1, <3>1, <3>2, PromisedIsSafe
    <3>4. QED
      BY <3>2, <3>3
  <2>3. QED
    BY <2>1, <2>2
<1>3. QED
  BY <1>0, <1>1, <1>2, SafeStays

\* A learner only counts votes of the ballot it has seen last.
LEMMA LearnedVotesWereCastStep ==
    ASSUME PaxosInv, TypeOK', [Next]_vars
    PROVE  LearnedVotesWereCast'
<1>0. /\ TypeOK /\ LearnedVotesWereCast
      /\ VotesAreForProposals /\ OneProposalPerBallot
  BY DEF PaxosInv
<1> DEFINE Cast(t, b, o) ==
              t # None =>
                 /\ t.received_2b_message_senders # {}
                 /\ \A s \in t.received_2b_message_senders :
                       Message2b(s, b, o, t.candidate_learned_value) \in net'
<1> SUFFICES ASSUME NEW r \in Replicas, NEW o \in Opns
             PROVE  Cast(learner'[r].unexecuted_learner_state[o],
                         learner'[r].max_ballot_seen, o)
  BY DEF LearnedVotesWereCast, VotedFor
<1> DEFINE l == learner[r]
           u == l.unexecuted_learner_state
<1>1. l \in CLearner /\ u \in [Opns -> CLearnerTuple \cup {None}]
  BY <1>0 DEF TypeOK, CLearner
<1>2. Cast(u[o], l.max_ballot_seen, o)
  BY <1>0, WhoSends DEF LearnedVotesWereCast, VotedFor
<1>3. ASSUME NEW p \in net, CReplicaNextProcess2b(r, p)
      PROVE  Cast(learner'[r].unexecuted_learner_state[o],
                  learner'[r].max_ballot_seen, o)
  <2>1. /\ p \in CMessage /\ p.type = "2b"
        /\ p.src \in Replicas /\ p.opn \in Opns /\ p.val \in Batches
    BY <1>0, <1>3, PacketFields DEF TypeOK, CReplicaNextProcess2b, Receive
  <2>2. p = Message2b(p.src, p.bal, p.opn, p.val)
    BY <2>1 DEF CMessage, Message2b
  <2>3. Message2b(p.src, p.bal, p.opn, p.val) \in net'
    BY <1>0, <2>2, WhoSends
  <2>4. Cast(FirstVote(p), p.bal, p.opn)
    BY <2>3 DEF FirstVote
  <2>5. CASE /\ learner'[r].max_ballot_seen = p.bal
             /\ learner'[r].unexecuted_learner_state
                  = [i \in Opns |-> IF i = p.opn THEN FirstVote(p) ELSE None]
    BY <2>4, <2>5
  <2>6. CASE /\ l.max_ballot_seen = p.bal
             /\ learner'[r].max_ballot_seen = l.max_ballot_seen
             /\ learner'[r].unexecuted_learner_state = [u EXCEPT ![p.opn] = FirstVote(p)]
    BY <1>1, <1>2, <2>4, <2>6
  <2>7. CASE /\ l.max_ballot_seen = p.bal
             /\ u[p.opn] # None
             /\ learner'[r].max_ballot_seen = l.max_ballot_seen
             /\ learner'[r].unexecuted_learner_state =
                  [u EXCEPT ![p.opn] = [u[p.opn] EXCEPT !.received_2b_message_senders =
                                          u[p.opn].received_2b_message_senders \cup {p.src}]]
    <3> DEFINE t == u[p.opn]
               t2 == [t EXCEPT !.received_2b_message_senders =
                                  t.received_2b_message_senders \cup {p.src}]
    <3>1. t \in CLearnerTuple
      BY <1>1, <2>1, <2>7
    <3>2. /\ t.received_2b_message_senders # {}
          /\ \A s \in t.received_2b_message_senders :
                VotedFor(s, p.bal, p.opn, t.candidate_learned_value)
      BY <1>0, <2>1, <2>7 DEF LearnedVotesWereCast
    <3>3. t.candidate_learned_value = p.val
      <4>1. VotedFor(p.src, p.bal, p.opn, p.val)
        BY <2>2 DEF VotedFor
      <4>2. QED
        BY <1>0, <3>2, <4>1, OneVotePerBallot
    <3>4. \A s \in t.received_2b_message_senders :
             Message2b(s, p.bal, p.opn, t.candidate_learned_value) \in net'
      BY <1>0, <3>2, WhoSends DEF VotedFor
    <3>5. /\ t2.candidate_learned_value = p.val
          /\ t2.received_2b_message_senders = t.received_2b_message_senders \cup {p.src}
      BY <3>1, <3>3 DEF CLearnerTuple
    <3> HIDE DEF t2
    <3>6. Cast(t2, p.bal, p.opn)
      BY <2>3, <3>3, <3>4, <3>5
    <3>7. QED
      BY <1>1, <1>2, <2>1, <2>7, <3>6 DEF t2
  <2>8. CASE learner' = [learner EXCEPT
               ![r].max_ballot_seen = p.bal,
               ![r].unexecuted_learner_state =
                  [i \in Opns |-> IF i = p.opn THEN FirstVote(p) ELSE None]]
    BY <1>0, <1>1, <2>5, <2>8 DEF TypeOK, CLearner
  <2>9. CASE /\ l.max_ballot_seen = p.bal
             /\ learner' = [learner EXCEPT
                   ![r].unexecuted_learner_state[p.opn] = FirstVote(p)]
    BY <1>0, <1>1, <2>6, <2>9 DEF TypeOK, CLearner
  <2>10. CASE /\ l.max_ballot_seen = p.bal
              /\ u[p.opn] # None
              /\ learner' = [learner EXCEPT
                    ![r].unexecuted_learner_state[p.opn] =
                       [u[p.opn] EXCEPT !.received_2b_message_senders = @ \cup {p.src}]]
    BY <1>0, <1>1, <2>7, <2>10 DEF TypeOK, CLearner
  <2>11. QED
    BY <1>3, <2>8, <2>9, <2>10 DEF CReplicaNextProcess2b, CLearnerProcess2b
<1>4. CASE /\ learner'[r].max_ballot_seen = l.max_ballot_seen
           /\ \/ learner'[r].unexecuted_learner_state[o] = None
              \/ learner'[r].unexecuted_learner_state[o] = u[o]
  BY <1>2, <1>4
<1>5. QED
  BY <1>0, <1>3, <1>4, WhoChangesLearner

\* Decisions, executions and installed states follow the chosen batches.
LEMMA ExecutedArePrefixesStep ==
    ASSUME PaxosInv, TypeOK', [Next]_vars
    PROVE  ExecutedArePrefixes'
<1>0. TypeOK /\ ExecutedArePrefixes /\ LearnedVotesWereCast
  BY DEF PaxosInv
<1> DEFINE Prefix(app, n) == /\ Len(app) = n
                             /\ \A i \in 1 .. n : app[i] \in ChosenAt(i - 1)'
<1>1. ASSUME NEW app, NEW n, IsChosenPrefix(app, n)
      PROVE  Prefix(app, n)
  BY <1>0, <1>1, ChosenStays DEF IsChosenPrefix
<1>2. ASSUME NEW q \in net', q.type = "AppStateSupply"
      PROVE  Prefix(q.app_state, q.opn)
  <2>1. CASE q \in net
    BY <1>0, <1>1, <1>2, <2>1 DEF ExecutedArePrefixes, Sent
  <2>2. CASE q \notin net
    <3>1. q.src \in Replicas
      BY PacketFields DEF TypeOK
    <3>2. PICK p \in net : q = AppStateSupply(q.src, p)
      BY <1>0, <1>2, <2>2, WhoSends
    <3>3. q.app_state = executor[q.src].app /\ q.opn = executor[q.src].ops_complete
      BY <3>2 DEF AppStateSupply, MessageAppStateSupply
    <3>4. QED
      BY <1>0, <1>1, <3>1, <3>3 DEF ExecutedArePrefixes
  <2>3. QED
    BY <2>1, <2>2
<1>3. ASSUME NEW r \in Replicas
      PROVE  /\ Prefix(executor'[r].app, executor'[r].ops_complete)
             /\ executor'[r].next_op_to_execute # None =>
                   \E n : /\ n = executor'[r].ops_complete
                          /\ executor'[r].next_op_to_execute.v \in ChosenAt(n)'
  <2> DEFINE e == executor[r]
             Ready(x) == x.next_op_to_execute # None =>
                           \E n : /\ n = x.ops_complete
                                  /\ x.next_op_to_execute.v \in ChosenAt(n)'
  <2>1. /\ e \in CExecutor /\ e.ops_complete \in Nat
        /\ IsChosenPrefix(e.app, e.ops_complete)
        /\ Prefix(e.app, e.ops_complete) /\ Ready(e)
    <3>1. /\ e \in CExecutor /\ e.ops_complete \in Nat
          /\ IsChosenPrefix(e.app, e.ops_complete)
          /\ e.next_op_to_execute # None => e.next_op_to_execute.v \in ChosenAt(e.ops_complete)
      BY <1>0, ConfigAssumption DEF TypeOK, CExecutor, Opns, ExecutedArePrefixes
    <3>2. QED
      BY <1>0, <1>1, <3>1, ChosenStays
  <2>2. CASE executor'[r] = e
    BY <2>1, <2>2
  <2>0. PICK n : n = e.ops_complete
    OBVIOUS
  <2>3. ASSUME NEW p \in net, CReplicaNextProcessAppStateSupply(r, p)
        PROVE  Prefix(executor'[r].app, executor'[r].ops_complete) /\ Ready(executor'[r])
    <3>1. p.type = "AppStateSupply" /\ executor'[r].app = p.app_state
          /\ executor'[r].ops_complete = p.opn /\ executor'[r].next_op_to_execute = None
      BY <1>0, <2>3 DEF CReplicaNextProcessAppStateSupply, CExecutorProcessAppStateSupply,
          Receive, TypeOK
    <3>2. Prefix(p.app_state, p.opn)
      BY <1>0, <1>2, <3>1, WhoSends
    <3>3. QED
      BY <3>1, <3>2
  <2>4. CASE CReplicaNextSpontaneousMaybeMakeDecision(r)
    <3> DEFINE t == learner[r].unexecuted_learner_state[n]
               b == learner[r].max_ballot_seen
               v == t.candidate_learned_value
               P == {s \in Replicas : VotedFor(s, b, n, v)}
    <3>1. /\ executor'[r] = [e EXCEPT !.next_op_to_execute = [v |-> v, bal |-> b]]
          /\ t # None /\ IsQuorum(t.received_2b_message_senders)
      BY <1>0, <2>0, <2>4 DEF CReplicaNextSpontaneousMaybeMakeDecision, CExecutorGetDecision,
          HasQuorumOf2bs, IsQuorum, TypeOK
    <3>2. n \in Opns /\ b \in Ballots /\ t \in CLearnerTuple
      BY <1>0, <2>0, <3>1 DEF TypeOK, CExecutor, CLearner
    <3>3. v \in Batches /\ t.received_2b_message_senders \subseteq Replicas
      BY <3>2 DEF CLearnerTuple
    <3>4. t.received_2b_message_senders \subseteq P
      BY <1>0, <3>1, <3>2, <3>3 DEF LearnedVotesWereCast
    <3>5. v \in ChosenAt(n)
      BY <3>1, <3>2, <3>3, <3>4, QuorumsGrow DEF ChosenAt, Chosen
    <3>6. v \in ChosenAt(n)'
      BY <1>0, <3>5, ChosenStays
    <3>7. /\ executor'[r].app = e.app /\ executor'[r].ops_complete = n
          /\ executor'[r].next_op_to_execute.v = v
      BY <2>0, <2>1, <3>1 DEF CExecutor
    <3> HIDE DEF v
    <3>8. QED
      BY <2>0, <2>1, <3>6, <3>7
  <2>5. CASE CReplicaNextSpontaneousMaybeExecute(r)
    <3> DEFINE v == e.next_op_to_execute.v
    <3>1. /\ executor'[r].app = Append(e.app, v) /\ executor'[r].ops_complete = n + 1
          /\ executor'[r].next_op_to_execute = None /\ e.next_op_to_execute # None
      BY <1>0, <2>0, <2>1, <2>5 DEF CReplicaNextSpontaneousMaybeExecute, CExecutorExecute,
          TypeOK, CExecutor
    <3>2. v \in ChosenAt(n)'
      BY <2>0, <2>1, <3>1
    <3>3. e.app \in Seq(Batches) /\ v \in Batches /\ Len(e.app) = n
      BY <2>0, <2>1, <3>1 DEF CExecutor, COutstandingOpKnown
    <3> HIDE DEF v
    <3>4. /\ Len(Append(e.app, v)) = n + 1
          /\ \A i \in 1 .. n : Append(e.app, v)[i] = e.app[i]
          /\ Append(e.app, v)[n + 1] = v
      BY <2>0, <2>1, <3>3
    <3>5. ASSUME NEW i \in 1 .. (n + 1)
          PROVE  Append(e.app, v)[i] \in ChosenAt(i - 1)'
      <4>1. CASE i \in 1 .. n
        BY <2>0, <2>1, <3>4, <4>1
      <4>2. CASE i = n + 1
        <5>1. i - 1 = n
          BY <2>0, <2>1, <4>2
        <5>2. QED
          BY <3>2, <3>4, <4>2, <5>1
      <4>3. QED
        BY <2>0, <2>1, <4>1, <4>2
    <3>6. QED
      BY <3>1, <3>4, <3>5
  <2>6. QED
    BY <1>0, <2>2, <2>3, <2>4, <2>5, WhoChangesExecutor
<1>4. QED
  BY <1>2, <1>3 DEF ExecutedArePrefixes, IsChosenPrefix, Sent
-----------------------------------------------------------------------------
(***************************************************************************)
(* The invariant and what follows from it.                                 *)
(***************************************************************************)

\* The state CReplicaInit builds satisfies the inductive invariant.
THEOREM InitPaxosInv == CReplicaInit => PaxosInv
<1> SUFFICES ASSUME CReplicaInit PROVE PaxosInv
  OBVIOUS
<1>1. net = {}
  BY DEF CReplicaInit
<1>2. TypeOK
  BY InitTypeOK
<1>3. /\ VotesAreForProposals /\ ProposalsBelowNext /\ OneProposalPerBallot /\ MaxBalIsMax
      /\ PromisesReportVotes /\ ProposalsSafe
  BY <1>1 DEF VotesAreForProposals, ProposalsBelowNext, OneProposalPerBallot, MaxBalIsMax,
              PromisesReportVotes, ProposalsSafe, Sent
<1>4. PromisesHeld
  BY FS_EmptySet DEF CReplicaInit, CProposerInit, PromisesHeld, CBallot
<1>5. VotesRemembered
  BY <1>1 DEF CReplicaInit, CAcceptorInit, VotesRemembered, VotedFor
<1>6. LearnedVotesWereCast
  BY DEF CReplicaInit, CLearnerInit, LearnedVotesWereCast
<1>7. ExecutedArePrefixes
  BY <1>1 DEF CReplicaInit, CExecutorInit, ExecutedArePrefixes, IsChosenPrefix, Sent
<1>8. QED
  BY <1>2, <1>3, <1>4, <1>5, <1>6, <1>7 DEF PaxosInv

\* Every handler of every replica preserves the inductive invariant.
THEOREM StepPaxosInv == PaxosInv /\ [Next]_vars => PaxosInv'
<1> SUFFICES ASSUME PaxosInv, [Next]_vars PROVE PaxosInv'
  OBVIOUS
<1>1. TypeOK'
  BY StepTypeOK DEF PaxosInv
<1>2. QED
  BY <1>1, VotesAreForProposalsStep, ProposalsBelowNextStep, OneProposalStep,
     PromisesHeldStep, MaxBalIsMaxStep, VotesRememberedStep, PromisesReportVotesStep,
     ProposalsSafeStep, LearnedVotesWereCastStep, ExecutedArePrefixesStep
  DEF PaxosInv

\* The inductive invariant holds in every reachable state, for any number of
\* replicas, batches and ballots: packets lost, repeated or reordered included.
THEOREM PaxosInvariant == Spec => []PaxosInv
BY InitPaxosInv, StepPaxosInv, PTL DEF Spec

\* A chosen batch is the only one that can have been chosen: a quorum that
\* chose another one in a lower ballot shares an acceptor with the quorum that
\* makes the higher proposal safe.
LEMMA InvariantImpliesAgreement == PaxosInv => Agreement
<1> SUFFICES ASSUME PaxosInv, NEW o \in Opns,
                    NEW v \in Batches, NEW b \in Ballots, Chosen(b, o, v),
                    NEW w \in Batches, NEW c \in Ballots, Chosen(c, o, w)
             PROVE  v = w
  BY DEF Agreement, ChosenAt
<1>0. VotesAreForProposals /\ OneProposalPerBallot /\ ProposalsSafe
  BY DEF PaxosInv
<1>1. ASSUME NEW x \in Batches, NEW d \in Ballots, Chosen(d, o, x),
             NEW y \in Batches, NEW e \in Ballots, Chosen(e, o, y),
             CBalLt(d, e)
      PROVE  x = y
  <2> DEFINE Qx == {r \in Replicas : VotedFor(r, d, o, x)}
             Qy == {r \in Replicas : VotedFor(r, e, o, y)}
             S == {r \in Replicas : VotedFor(r, d, o, y) \/ WontVote(r, d, o)}
  <2>1. PICK r \in Replicas : VotedFor(r, e, o, y)
    BY <1>1, QuorumsIntersect DEF Chosen
  <2>2. IsQuorum(S)
    BY <1>0, <1>1, <2>1, VotedIsSafe DEF SafeAt
  <2>3. IsQuorum(Qx)
    BY <1>1 DEF Chosen
  <2>4. Qx \cap S # {}
    BY <2>2, <2>3, QuorumsIntersect
  <2>5. PICK s \in Replicas : VotedFor(s, d, o, x) /\ (VotedFor(s, d, o, y) \/ WontVote(s, d, o))
    BY <2>4
  <2>6. VotedFor(s, d, o, y)
    BY <2>5 DEF WontVote
  <2>7. QED
    BY <1>0, <2>5, <2>6, OneVotePerBallot
<1>2. CASE b = c
  <2> DEFINE Qv == {r \in Replicas : VotedFor(r, b, o, v)}
             Qw == {r \in Replicas : VotedFor(r, b, o, w)}
  <2>1. Qv \cap Qw # {}
    BY <1>2, QuorumsIntersect DEF Chosen
  <2>2. PICK s \in Replicas : VotedFor(s, b, o, v) /\ VotedFor(s, b, o, w)
    BY <2>1
  <2>3. QED
    BY <1>0, <2>2, OneVotePerBallot
<1>3. QED
  BY <1>1, <1>2, BallotsAreOrdered

\* No two different batches are ever chosen at one operation number.
THEOREM AgreementHolds == Spec => []Agreement
BY PaxosInvariant, InvariantImpliesAgreement, PTL

\* No proposer ever proposes two batches at one operation number of a ballot.
THEOREM OneProposalPerBallotHolds == Spec => []OneProposalPerBallot
<1>1. PaxosInv => OneProposalPerBallot
  BY DEF PaxosInv
<1>2. QED
  BY <1>1, PaxosInvariant, PTL

\* What a replica executes, or installs from another, was chosen.
THEOREM ExecutedWasChosenHolds == Spec => []ExecutedWasChosen
<1>1. ASSUME PaxosInv PROVE ExecutedWasChosen
  <2> SUFFICES ASSUME NEW r \in Replicas, NEW i \in DOMAIN executor[r].app
               PROVE  executor[r].app[i] \in ChosenAt(i - 1)
    BY DEF ExecutedWasChosen
  <2>1. /\ executor[r].app \in Seq(Batches)
        /\ IsChosenPrefix(executor[r].app, executor[r].ops_complete)
    BY <1>1 DEF PaxosInv, TypeOK, CExecutor, ExecutedArePrefixes
  <2>2. i \in 1 .. executor[r].ops_complete
    BY <2>1 DEF IsChosenPrefix
  <2>3. QED
    BY <2>1, <2>2 DEF IsChosenPrefix
<1>2. QED
  BY <1>1, PaxosInvariant, PTL

\* No acceptor votes below a ballot it has promised.
THEOREM PromiseKeptHolds == Spec => PromiseKept
<1> DEFINE Keeps == \A p \in net' \ net :
                       p.type = "2b" =>
                          \A q \in Sent("1b") : q.src = p.src => CBalLeq(q.bal, p.bal)
<1>1. ASSUME PaxosInv, [Next]_vars PROVE Keeps
  <2>1. TypeOK /\ TypeOK' /\ MaxBalIsMax
    BY <1>1, StepTypeOK DEF PaxosInv
  <2> SUFFICES ASSUME NEW p \in net' \ net, p.type = "2b",
                      NEW q \in net, q.type = "1b", q.src = p.src
               PROVE  CBalLeq(q.bal, p.bal)
    BY DEF Sent
  <2>2. p.src \in Replicas /\ p.bal \in Ballots /\ q.bal \in Ballots
        /\ acceptor[p.src].max_bal \in Ballots
    BY <2>1, PacketFields DEF TypeOK, CAcceptor
  <2>3. CBalLeq(acceptor[p.src].max_bal, p.bal)
    <3>1. PICK m \in net : /\ CReplicaNextProcess2a(p.src, m)
                           /\ p = Message2b(p.src, m.bal, m.opn, m.val)
      BY <1>1, <2>1, WhoSends
    <3>2. p.bal = m.bal
      BY <3>1 DEF Message2b
    <3>3. QED
      BY <3>1, <3>2 DEF CReplicaNextProcess2a
  <2>4. CBalLeq(q.bal, acceptor[p.src].max_bal)
    BY <2>1 DEF MaxBalIsMax
  <2>5. QED
    BY <2>2, <2>3, <2>4, BallotsAreTransitive
<1>2. QED
  BY <1>1, PaxosInvariant, PTL DEF Spec, PromiseKept
=============================================================================
