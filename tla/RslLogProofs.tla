---------------------------- MODULE RslLogProofs ----------------------------
(***************************************************************************)
(* The log of the replicated state machine library, for any number of      *)
(* replicas and any parameters: the window of votes, the coverage of what  *)
(* is truncated, and the refinement of the replicated log.                 *)
(***************************************************************************)
EXTENDS RslAgreementProofs, SequenceTheorems, WellFoundedInduction

-----------------------------------------------------------------------------
(***************************************************************************)
(* Operators of the acceptor.                                              *)
(***************************************************************************)

\* Truncating at opn moves the truncation point up to opn, never back, and
\* leaves no vote below it.
LEMMA TruncateLogMoves ==
    ASSUME NEW a \in CAcceptor, NEW opn \in Opns, NEW b, b = TruncateLog(a, opn)
    PROVE  /\ b.log_truncation_point \in {a.log_truncation_point, opn}
           /\ b.log_truncation_point >= a.log_truncation_point
           /\ b.log_truncation_point >= opn
           /\ b.last_checkpointed_operation = a.last_checkpointed_operation
           /\ \A o \in Opns :
                 b.votes[o] # None =>
                    /\ b.votes[o] = a.votes[o]
                    /\ b = a \/ b.log_truncation_point <= o
<1>0. a.log_truncation_point \in Int /\ opn \in Int
  BY DEF CAcceptor, Opns
<1>1. CASE opn <= a.log_truncation_point
  <2>1. b = a
    BY <1>1 DEF TruncateLog
  <2>2. QED
    BY <1>0, <1>1, <2>1
<1>2. CASE ~(opn <= a.log_truncation_point)
  <2>1. /\ b.votes = CRemoveVotesBeforeLogTruncationPoint(a.votes, opn)
        /\ b.log_truncation_point = opn
        /\ b.last_checkpointed_operation = a.last_checkpointed_operation
    BY <1>2 DEF TruncateLog, CAcceptor
  <2>2. ASSUME NEW o \in Opns, b.votes[o] # None
        PROVE  b.votes[o] = a.votes[o] /\ opn <= o
    BY <1>0, <2>1, <2>2 DEF CRemoveVotesBeforeLogTruncationPoint, Opns
  <2>3. QED
    BY <1>0, <1>2, <2>1, <2>2
<1>3. QED
  BY <1>1, <1>2

\* The window that ends at opn: a 2a at opn moves the truncation point so far
\* that opn is within MaxLogLength of it, and no further than needed.
LEMMA NewLogTruncationPointMoves ==
    ASSUME NEW ltp \in Opns, NEW opn \in Opns,
           NEW new, new = NewLogTruncationPoint(ltp, opn)
    PROVE  /\ new \in {ltp, TruncationCandidate(opn)}
           /\ new >= ltp
           /\ opn < new + MaxLogLength
           /\ ltp <= opn => new <= opn
           /\ TruncationCandidate(opn) \in Nat
BY ConfigAssumption, LogAssumption DEF NewLogTruncationPoint, TruncationCandidate, Opns

\* A proposal inside the window of a log that starts at ltp does not move the
\* window of a voter beyond ltp.
LEMMA CandidateInWindow ==
    ASSUME NEW ltp \in Opns, NEW opn \in Opns,
           opn < CUpperBoundedAddition(ltp, MaxLogLength, MaxIntegerVal)
    PROVE  TruncationCandidate(opn) <= ltp
BY ConfigAssumption, LogAssumption DEF CUpperBoundedAddition, TruncationCandidate, Opns
-----------------------------------------------------------------------------
(***************************************************************************)
(* Coverage: what a quorum has executed stays executed.                    *)
(***************************************************************************)

\* No handler, an installed state included, takes a replica's executed
\* operations back.
LEMMA ExecutedOnlyGrows ==
    ASSUME TypeOK, TypeOK', [Next]_vars, NEW r \in Replicas
    PROVE  executor'[r].ops_complete >= executor[r].ops_complete
<1>0. executor[r] \in CExecutor /\ executor[r].ops_complete \in Int
      /\ executor'[r].ops_complete \in Int
  BY DEF TypeOK, CExecutor, Opns
<1>1. CASE executor'[r] = executor[r]
  BY <1>0, <1>1
<1>2. ASSUME NEW p \in net, CReplicaNextProcessAppStateSupply(r, p)
      PROVE  executor'[r].ops_complete >= executor[r].ops_complete
  BY <1>0, <1>2 DEF CReplicaNextProcessAppStateSupply, CExecutorProcessAppStateSupply, TypeOK
<1>3. CASE CReplicaNextSpontaneousMaybeMakeDecision(r)
  BY <1>0, <1>3 DEF CReplicaNextSpontaneousMaybeMakeDecision, CExecutorGetDecision,
      TypeOK, CExecutor
<1>4. CASE CReplicaNextSpontaneousMaybeExecute(r)
  BY <1>0, <1>4 DEF CReplicaNextSpontaneousMaybeExecute, CExecutorExecute, TypeOK, CExecutor
<1>5. QED
  BY <1>1, <1>2, <1>3, <1>4, WhoChangesExecutor

\* What is covered covers everything below it.
LEMMA CoveredBelow ==
    ASSUME TypeOK, NEW o \in Int, NEW n \in Int, n <= o, Covered(o)
    PROVE  Covered(n)
<1> DEFINE Q(m) == {q \in Replicas : executor[q].ops_complete >= m}
<1>1. \A q \in Replicas : executor[q].ops_complete \in Int
  BY DEF TypeOK, CExecutor, Opns
<1>2. Q(o) \subseteq Q(n)
  BY <1>1
<1>3. QED
  BY <1>2, QuorumsGrow DEF Covered

\* What is covered stays covered.
LEMMA CoveredStays ==
    ASSUME TypeOK, TypeOK', [Next]_vars, NEW o \in Int, Covered(o)
    PROVE  Covered(o)'
<1> DEFINE Q == {q \in Replicas : executor[q].ops_complete >= o}
           P == {q \in Replicas : executor'[q].ops_complete >= o}
<1>1. \A q \in Replicas : executor[q].ops_complete \in Int /\ executor'[q].ops_complete \in Int
  BY DEF TypeOK, CExecutor, Opns
<1>2. Q \subseteq P
  BY <1>1, ExecutedOnlyGrows
<1>3. IsQuorum(P)
  BY <1>2, QuorumsGrow DEF Covered
<1>4. QED
  BY <1>3 DEF Covered, IsQuorum

\* Operation 0 is covered before anything is executed.
LEMMA ZeroIsCovered ==
    ASSUME TypeOK
    PROVE  Covered(0)
<1> DEFINE Q == {q \in Replicas : executor[q].ops_complete >= 0}
<1>1. Q = Replicas
  BY ConfigAssumption DEF TypeOK, CExecutor, Opns
<1>2. Cardinality(Replicas) >= CMinQuorumSize
  BY ReplicasAreFinite, ConfigAssumption DEF CMinQuorumSize
<1>3. QED
  BY <1>1, <1>2 DEF Covered, IsQuorum

\* The n-th highest of the reported checkpoints, for a quorum's n, is covered.
LEMMA ValidTruncationIsCovered ==
    ASSUME TypeOK, CheckpointsWereExecuted, NEW r \in Replicas, NEW opn \in Opns,
           CIsLogTruncationPointValid(opn, acceptor[r].last_checkpointed_operation)
    PROVE  Covered(opn)
<1> DEFINE s == acceptor[r].last_checkpointed_operation
           Q == {i \in DOMAIN s : s[i] >= opn}
           P == {q \in Replicas : executor[q].ops_complete >= opn}
<1>1. DOMAIN s = Replicas /\ \A q \in Replicas : s[q] \in Int /\ executor[q].ops_complete \in Int
  BY DEF TypeOK, CAcceptor, CExecutor, Opns
<1>2. opn \in Int
  BY DEF Opns
<1>3. Q \subseteq P
  BY <1>1, <1>2 DEF CheckpointsWereExecuted
<1>4. IsQuorum(Q)
  BY DEF CIsLogTruncationPointValid, CIsNthHighestValueInSequence, CountLargerOrEqual, IsQuorum
<1>5. QED
  BY <1>3, <1>4, QuorumsGrow DEF Covered
-----------------------------------------------------------------------------
(***************************************************************************)
(* What a step can do to the parts of the state the log's invariant reads. *)
(***************************************************************************)

\* The four ways in which the log of an acceptor changes: the vote of a 2a, a
\* promise or a quorum of checkpoints that truncates it, or not at all.
LEMMA WhoTruncates ==
    ASSUME TypeOK, [Next]_vars, NEW r \in Replicas
    PROVE  \/ /\ acceptor'[r].log_truncation_point = acceptor[r].log_truncation_point
              /\ acceptor'[r].votes = acceptor[r].votes
           \/ \E p \in net : CReplicaNextProcess2a(r, p)
           \/ \E p \in net :
                 /\ CReplicaNextProcess1b(r, p)
                 /\ acceptor'[r] = TruncateLog(acceptor[r], p.log_truncation_point)
           \/ \E opn \in Opns :
                 /\ CIsLogTruncationPointValid(opn, acceptor[r].last_checkpointed_operation)
                 /\ acceptor'[r] = TruncateLog(acceptor[r], opn)
<1> DEFINE Same == /\ acceptor'[r].log_truncation_point = acceptor[r].log_truncation_point
                   /\ acceptor'[r].votes = acceptor[r].votes
<1>1. CASE acceptor' = acceptor
  BY <1>1
<1>2. ASSUME NEW s \in Replicas, NEW p \in net,
             CReplicaNextProcess1a(s, p) \/ CReplicaNextProcessHeartbeat(s, p)
      PROVE  Same
  BY <1>2 DEF CReplicaNextProcess1a, CAcceptorProcess1a, CReplicaNextProcessHeartbeat,
      CAcceptorProcessHeartbeat, TypeOK, CAcceptor
<1>3. ASSUME NEW s \in Replicas, NEW p \in net, CReplicaNextProcess2a(s, p), s # r
      PROVE  Same
  BY <1>3 DEF CReplicaNextProcess2a, CAcceptorProcess2a, TypeOK
<1>4. ASSUME NEW s \in Replicas, NEW p \in net, CReplicaNextProcess1b(s, p)
      PROVE  IF s = r
             THEN acceptor'[r] = TruncateLog(acceptor[r], p.log_truncation_point)
             ELSE Same
  BY <1>4 DEF CReplicaNextProcess1b, CAcceptorTruncateLog, TypeOK
<1>5. ASSUME NEW s \in Replicas, CReplicaNextSpontaneousTruncateLogBasedOnCheckpoints(s)
      PROVE  IF s = r
             THEN \E opn \in Opns :
                    /\ CIsLogTruncationPointValid(opn, acceptor[r].last_checkpointed_operation)
                    /\ acceptor'[r] = TruncateLog(acceptor[r], opn)
             ELSE Same
  BY <1>5 DEF CReplicaNextSpontaneousTruncateLogBasedOnCheckpoints, CAcceptorTruncateLog, TypeOK
<1>6. \/ acceptor' = acceptor
      \/ \E s \in Replicas, p \in net :
            \/ CReplicaNextProcess1a(s, p)
            \/ CReplicaNextProcess2a(s, p)
            \/ CReplicaNextProcess1b(s, p)
            \/ CReplicaNextProcessHeartbeat(s, p)
      \/ \E s \in Replicas : CReplicaNextSpontaneousTruncateLogBasedOnCheckpoints(s)
  BY AcceptorHandlers
<1> HIDE DEF Same
<1>7. QED
  BY <1>1, <1>2, <1>3, <1>4, <1>5, <1>6 DEF Same

\* No handler takes a truncation point back.
LEMMA TruncationPointOnlyGrows ==
    ASSUME TypeOK, [Next]_vars, NEW r \in Replicas
    PROVE  acceptor'[r].log_truncation_point >= acceptor[r].log_truncation_point
<1>0. acceptor[r] \in CAcceptor /\ acceptor[r].log_truncation_point \in Opns
      /\ acceptor[r].log_truncation_point \in Int
  BY DEF TypeOK, CAcceptor, Opns
<1>1. ASSUME NEW p \in net, CReplicaNextProcess2a(r, p)
      PROVE  acceptor'[r].log_truncation_point >= acceptor[r].log_truncation_point
  <2>1. p.opn \in Opns
    BY <1>1, PacketFields DEF TypeOK, CReplicaNextProcess2a, Receive
  <2>2. acceptor'[r].log_truncation_point
          = NewLogTruncationPoint(acceptor[r].log_truncation_point, p.opn)
    BY <1>0, <1>1 DEF CReplicaNextProcess2a, CAcceptorProcess2a, TypeOK, CAcceptor
  <2>3. QED
    BY <1>0, <2>1, <2>2, NewLogTruncationPointMoves
<1>2. ASSUME NEW p \in net, CReplicaNextProcess1b(r, p)
      PROVE  p.log_truncation_point \in Opns
  BY <1>2, PacketFields DEF TypeOK, CReplicaNextProcess1b, Receive
<1>3. QED
  BY <1>0, <1>1, <1>2, WhoTruncates, TruncateLogMoves

\* Heartbeats are sent by one handler, with the sender's executed operations.
LEMMA WhoSendsHeartbeats ==
    ASSUME TypeOK, [Next]_vars
    PROVE  \A q \in net' \ net :
              q.type = "Heartbeat" => q.opn_ckpt = executor[q.src].ops_complete
<1> USE DEF Send, Message1a, Message1b, Message2a, Message2b, MessageStartingPhase2,
            MessageHeartbeat, MessageAppStateRequest, MessageAppStateSupply
<1>1. CASE UNCHANGED vars
  BY <1>1 DEF vars
<1>2. ASSUME NEW r \in Replicas, NEW p \in net, ProcessPacket(r, p)
      PROVE  \A q \in net' \ net : q.type # "Heartbeat"
  BY <1>2
  DEF ProcessPacket, CReplicaNextProcess1a, Promise1b, CReplicaNextProcess1b,
      CReplicaNextProcess2a, CReplicaNextProcess2b, CReplicaNextProcessStartingPhase2,
      CReplicaNextProcessAppStateRequest, AppStateSupply, CReplicaNextProcessAppStateSupply,
      CReplicaNextProcessHeartbeat
<1>3. ASSUME NEW r \in Replicas, NoReceive(r)
      PROVE  \A q \in net' \ net :
                q.type = "Heartbeat" => q.opn_ckpt = executor[q.src].ops_complete
  BY <1>3
  DEF NoReceive, CReplicaNextSpontaneousMaybeEnterNewViewAndSend1a,
      CReplicaNextSpontaneousMaybeEnterPhase2,
      CReplicaNextReadClockMaybeNominateValueAndSend2a,
      CReplicaNextSpontaneousTruncateLogBasedOnCheckpoints,
      CReplicaNextSpontaneousMaybeMakeDecision, CReplicaNextSpontaneousMaybeExecute,
      CReplicaNextReadClockCheckForQuorumOfViewSuspicions,
      CReplicaNextReadClockMaybeSendHeartbeat
<1>4. QED
  BY <1>1, <1>2, <1>3 DEF Next

\* Only a heartbeat changes what an acceptor believes to be checkpointed.
LEMMA WhoChangesCheckpoints ==
    ASSUME TypeOK, [Next]_vars, NEW r \in Replicas, NEW s \in Replicas
    PROVE  \/ acceptor'[r].last_checkpointed_operation[s]
                = acceptor[r].last_checkpointed_operation[s]
           \/ \E p \in Sent("Heartbeat") :
                 /\ p.src = s
                 /\ acceptor'[r].last_checkpointed_operation[s] = p.opn_ckpt
<1> DEFINE Same == acceptor'[r].last_checkpointed_operation
                     = acceptor[r].last_checkpointed_operation
<1>0. acceptor[r] \in CAcceptor
  BY DEF TypeOK
<1>1. CASE acceptor' = acceptor
  BY <1>1
<1>2. ASSUME NEW t \in Replicas, NEW p \in net,
             CReplicaNextProcess1a(t, p) \/ CReplicaNextProcess2a(t, p)
      PROVE  Same
  <2>1. CASE CReplicaNextProcess1a(t, p)
    BY <1>0, <2>1 DEF CReplicaNextProcess1a, CAcceptorProcess1a, TypeOK, CAcceptor
  <2>2. CASE CReplicaNextProcess2a(t, p)
    <3>1. PICK ltp, votes :
            acceptor' = [acceptor EXCEPT ![t].max_bal = p.bal,
                                         ![t].log_truncation_point = ltp,
                                         ![t].votes = votes]
      BY <2>2 DEF CReplicaNextProcess2a, CAcceptorProcess2a
    <3>2. QED
      BY <1>0, <3>1 DEF TypeOK, CAcceptor
  <2>3. QED
    BY <1>2, <2>1, <2>2
<1>3. ASSUME NEW t \in Replicas, NEW opn \in Opns, CAcceptorTruncateLog(t, opn)
      PROVE  Same
  <2>1. acceptor'[r] = TruncateLog(acceptor[r], opn) \/ acceptor'[r] = acceptor[r]
    BY <1>3 DEF CAcceptorTruncateLog, TypeOK
  <2>2. QED
    BY <1>0, <2>1, TruncateLogMoves
<1>4. ASSUME NEW t \in Replicas, NEW p \in net, CReplicaNextProcess1b(t, p)
      PROVE  Same
  <2>1. p.log_truncation_point \in Opns
    BY <1>4, PacketFields DEF TypeOK, CReplicaNextProcess1b, Receive
  <2>2. QED
    BY <1>3, <1>4, <2>1 DEF CReplicaNextProcess1b
<1>5. ASSUME NEW t \in Replicas, CReplicaNextSpontaneousTruncateLogBasedOnCheckpoints(t)
      PROVE  Same
  BY <1>3, <1>5 DEF CReplicaNextSpontaneousTruncateLogBasedOnCheckpoints
<1>6. ASSUME NEW t \in Replicas, NEW p \in net, CReplicaNextProcessHeartbeat(t, p)
      PROVE  \/ acceptor'[r].last_checkpointed_operation[s]
                  = acceptor[r].last_checkpointed_operation[s]
             \/ p.src = s /\ acceptor'[r].last_checkpointed_operation[s] = p.opn_ckpt
  <2>1. p.src \in Replicas
    BY PacketFields DEF TypeOK
  <2>2. QED
    BY <1>0, <1>6, <2>1 DEF CReplicaNextProcessHeartbeat, CAcceptorProcessHeartbeat,
        TypeOK, CAcceptor
<1>7. ASSUME NEW t \in Replicas, NEW p \in net, CReplicaNextProcessHeartbeat(t, p)
      PROVE  p \in Sent("Heartbeat")
  BY <1>7 DEF CReplicaNextProcessHeartbeat, Receive, Sent
<1> HIDE DEF Same
<1>8. CASE Same
  BY <1>8 DEF Same
<1>9. QED
  BY <1>1, <1>2, <1>4, <1>5, <1>6, <1>7, <1>8, AcceptorHandlers
-----------------------------------------------------------------------------
(***************************************************************************)
(* Every step preserves every part of the log's invariant.                 *)
(***************************************************************************)

\* A vote is added inside the window, and truncation removes the votes that
\* fall out of it.
LEMMA VotesInWindowStep ==
    ASSUME TypeOK, TypeOK', VotesInWindow, [Next]_vars
    PROVE  VotesInWindow'
<1> SUFFICES ASSUME NEW r \in Replicas, NEW o \in Opns, acceptor'[r].votes[o] # None
             PROVE  /\ acceptor'[r].log_truncation_point <= o
                    /\ o < acceptor'[r].log_truncation_point + MaxLogLength
  BY DEF VotesInWindow
<1> DEFINE a == acceptor[r]
           b == acceptor'[r]
<1>0. /\ a \in CAcceptor /\ a.log_truncation_point \in Opns /\ a.log_truncation_point \in Int
      /\ b.log_truncation_point \in Int /\ o \in Int /\ MaxLogLength \in Int
      /\ b.log_truncation_point >= a.log_truncation_point
  BY TruncationPointOnlyGrows, LogAssumption DEF TypeOK, CAcceptor, Opns
<1>1. a.votes[o] # None => /\ a.log_truncation_point <= o
                           /\ o < a.log_truncation_point + MaxLogLength
  BY DEF VotesInWindow
<1>2. CASE b.log_truncation_point = a.log_truncation_point /\ b.votes = a.votes
  BY <1>1, <1>2
<1>3. ASSUME NEW opn \in Opns, b = TruncateLog(a, opn)
      PROVE  b.log_truncation_point <= o /\ o < b.log_truncation_point + MaxLogLength
  <2>1. b.votes[o] = a.votes[o] /\ (b = a \/ b.log_truncation_point <= o)
    BY <1>0, <1>3, TruncateLogMoves
  <2>2. QED
    BY <1>0, <1>1, <2>1
<1>4. ASSUME NEW p \in net, CReplicaNextProcess2a(r, p)
      PROVE  b.log_truncation_point <= o /\ o < b.log_truncation_point + MaxLogLength
  <2> DEFINE ltp == NewLogTruncationPoint(a.log_truncation_point, p.opn)
             vote == [max_value_bal |-> p.bal, max_val |-> p.val]
  <2>1. p.opn \in Opns /\ p.opn \in Int
    BY <1>4, PacketFields DEF TypeOK, CReplicaNextProcess2a, Receive, Opns
  <2>2. /\ b.log_truncation_point = ltp
        /\ b.votes = IF a.log_truncation_point <= p.opn
                     THEN CAddVoteAndRemoveOldOnes(a.votes, p.opn, vote, ltp)
                     ELSE a.votes
    BY <1>0, <1>4 DEF CReplicaNextProcess2a, CAcceptorProcess2a, TypeOK, CAcceptor
  <2>3. /\ ltp >= a.log_truncation_point /\ p.opn < ltp + MaxLogLength
        /\ ltp \in {a.log_truncation_point, TruncationCandidate(p.opn)}
        /\ ltp \in Int
    BY <1>0, <2>1, <2>2, NewLogTruncationPointMoves
  <2> HIDE DEF ltp
  <2>4. CASE ~(a.log_truncation_point <= p.opn)
    <3>1. TruncationCandidate(p.opn) <= p.opn
      BY <2>1, ConfigAssumption, LogAssumption DEF TruncationCandidate, Opns
    <3>2. b.votes = a.votes /\ ltp = a.log_truncation_point
      BY <1>0, <2>1, <2>2, <2>3, <2>4, <3>1
    <3>3. QED
      BY <1>1, <2>2, <3>2
  <2>5. CASE a.log_truncation_point <= p.opn
    <3>1. ltp <= o /\ (o = p.opn \/ a.votes[o] # None)
      BY <1>0, <2>1, <2>2, <2>3, <2>5
      DEF CAddVoteAndRemoveOldOnes, CRemoveVotesBeforeLogTruncationPoint, CAcceptor, CVotes
    <3>2. QED
      BY <1>0, <1>1, <2>1, <2>2, <2>3, <3>1
  <2>6. QED
    BY <2>4, <2>5
<1>5. ASSUME NEW p \in net, CReplicaNextProcess1b(r, p)
      PROVE  p.log_truncation_point \in Opns
  BY <1>5, PacketFields DEF TypeOK, CReplicaNextProcess1b, Receive
<1>6. QED
  BY <1>2, <1>3, <1>4, <1>5, WhoTruncates

\* Checkpoints are what their senders have executed, however late they arrive.
LEMMA CheckpointsWereExecutedStep ==
    ASSUME TypeOK, TypeOK', CheckpointsWereExecuted, [Next]_vars
    PROVE  CheckpointsWereExecuted'
<1>0. \A s \in Replicas : /\ executor[s].ops_complete \in Int
                          /\ executor'[s].ops_complete \in Int
                          /\ executor'[s].ops_complete >= executor[s].ops_complete
  BY ExecutedOnlyGrows DEF TypeOK, CExecutor, Opns
<1>1. ASSUME NEW q \in net', q.type = "Heartbeat"
      PROVE  q.opn_ckpt <= executor'[q.src].ops_complete
  <2>1. q.src \in Replicas /\ q.opn_ckpt \in Int
    BY <1>1, PacketFields DEF TypeOK, Opns
  <2>2. q.opn_ckpt <= executor[q.src].ops_complete
    BY <1>0, <1>1, <2>1, WhoSendsHeartbeats DEF CheckpointsWereExecuted, Sent
  <2>3. QED
    BY <1>0, <2>1, <2>2
<1>2. ASSUME NEW r \in Replicas, NEW s \in Replicas
      PROVE  acceptor'[r].last_checkpointed_operation[s] <= executor'[s].ops_complete
  <2>1. acceptor'[r].last_checkpointed_operation[s] \in Int
    BY DEF TypeOK, CAcceptor, Opns
  <2>2. acceptor'[r].last_checkpointed_operation[s] <= executor[s].ops_complete
    BY WhoChangesCheckpoints DEF CheckpointsWereExecuted
  <2>3. QED
    BY <1>0, <2>1, <2>2
<1>3. ASSUME NEW q \in net', q.type = "AppStateSupply"
      PROVE  q.opn <= executor'[q.src].ops_complete
  <2>1. q.src \in Replicas /\ q.opn \in Int
    BY <1>3, PacketFields DEF TypeOK, Opns
  <2>2. CASE q \in net
    BY <1>0, <1>3, <2>1, <2>2 DEF CheckpointsWereExecuted, Sent
  <2>3. CASE q \notin net
    <3>1. PICK p \in net : q = AppStateSupply(q.src, p)
      BY <1>3, <2>3, WhoSends
    <3>2. q.opn = executor[q.src].ops_complete
      BY <3>1 DEF AppStateSupply, MessageAppStateSupply
    <3>3. QED
      BY <1>0, <2>1, <3>2
  <2>4. QED
    BY <2>2, <2>3
<1>4. QED
  BY <1>1, <1>2, <1>3 DEF CheckpointsWereExecuted, Sent

\* An acceptor's log is cut off where a packet or a quorum's checkpoints say,
\* and both are covered.
LEMMA TruncationCoveredStep ==
    ASSUME TypeOK, TypeOK', TruncationCovered, CheckpointsWereExecuted,
           PacketsTruncateCovered, [Next]_vars
    PROVE  TruncationCovered'
<1> SUFFICES ASSUME NEW r \in Replicas, NEW n \in Int,
                    n = acceptor'[r].log_truncation_point
             PROVE  Covered(n)
  <2> SUFFICES ASSUME NEW r \in Replicas
               PROVE  \E n \in Int : n = acceptor'[r].log_truncation_point /\ Covered(n)'
    BY DEF TruncationCovered, Covered
  <2>1. PICK n \in Int : n = acceptor'[r].log_truncation_point
    BY DEF TypeOK, CAcceptor, Opns
  <2>2. QED
    BY <2>1, CoveredStays
<1> DEFINE a == acceptor[r]
<1>0. a \in CAcceptor /\ a.log_truncation_point \in Opns /\ a.log_truncation_point \in Int
      /\ Covered(a.log_truncation_point)
  BY DEF TypeOK, CAcceptor, Opns, TruncationCovered, Covered
<1>1. ASSUME NEW p \in net, CReplicaNextProcess2a(r, p)
      PROVE  Covered(n)
  <2>1. p.opn \in Opns /\ p \in Sent("2a")
    BY <1>1, PacketFields DEF TypeOK, CReplicaNextProcess2a, Receive, Sent
  <2>2. acceptor'[r].log_truncation_point = NewLogTruncationPoint(a.log_truncation_point, p.opn)
    BY <1>0, <1>1 DEF CReplicaNextProcess2a, CAcceptorProcess2a, TypeOK, CAcceptor
  <2>3. /\ acceptor'[r].log_truncation_point
             \in {a.log_truncation_point, TruncationCandidate(p.opn)}
        /\ TruncationCandidate(p.opn) \in Int
    BY <1>0, <2>1, <2>2, NewLogTruncationPointMoves
  <2>4. Covered(TruncationCandidate(p.opn))
    BY <2>1 DEF PacketsTruncateCovered
  <2>5. QED
    BY <1>0, <2>3, <2>4
<1>2. ASSUME NEW opn \in Opns, Covered(opn), acceptor'[r] = TruncateLog(a, opn)
      PROVE  Covered(n)
  <2>1. opn \in Int /\ acceptor'[r].log_truncation_point \in {a.log_truncation_point, opn}
    BY <1>0, <1>2, TruncateLogMoves DEF Opns
  <2>2. QED
    BY <1>0, <1>2, <2>1
<1>3. ASSUME NEW p \in net, CReplicaNextProcess1b(r, p)
      PROVE  p.log_truncation_point \in Opns /\ Covered(p.log_truncation_point)
  BY <1>3, PacketFields
  DEF TypeOK, CReplicaNextProcess1b, Receive, PacketsTruncateCovered, Sent
<1>4. QED
  BY <1>0, <1>1, <1>2, <1>3, WhoTruncates, ValidTruncationIsCovered

\* A promise reports a truncation point that is covered; a leader proposes
\* inside the window of its own log, so a vote moves no window beyond it.
LEMMA PacketsTruncateCoveredStep ==
    ASSUME TypeOK, TypeOK', TruncationCovered, PacketsTruncateCovered, [Next]_vars
    PROVE  PacketsTruncateCovered'
<1>1. ASSUME NEW q \in net', q.type = "1b"
      PROVE  q.log_truncation_point \in Int /\ Covered(q.log_truncation_point)
  <2>1. q.src \in Replicas /\ q.log_truncation_point \in Int
    BY <1>1, PacketFields DEF TypeOK, Opns
  <2>2. CASE q \in net
    BY <1>1, <2>1, <2>2 DEF PacketsTruncateCovered, Sent
  <2>3. CASE q \notin net
    <3>1. PICK p \in net : q = Promise1b(q.src, p)
      BY <1>1, <2>3, WhoSends
    <3>2. q.log_truncation_point = acceptor[q.src].log_truncation_point
      BY <3>1 DEF Promise1b, Message1b
    <3>3. QED
      BY <2>1, <3>2 DEF TruncationCovered, Covered
  <2>4. QED
    BY <2>2, <2>3
<1>2. ASSUME NEW q \in net', q.type = "2a"
      PROVE  TruncationCandidate(q.opn) \in Int /\ Covered(TruncationCandidate(q.opn))
  <2>1. q.src \in Replicas /\ q.opn \in Opns
    BY <1>2, PacketFields DEF TypeOK
  <2>2. TruncationCandidate(q.opn) \in Int
    BY <2>1, ConfigAssumption, LogAssumption DEF TruncationCandidate, Opns
  <2>3. CASE q \in net
    BY <1>2, <2>2, <2>3 DEF PacketsTruncateCovered, Sent
  <2>4. CASE q \notin net
    <3> DEFINE ltp == acceptor[q.src].log_truncation_point
               opn == proposer[q.src].next_operation_number_to_propose
    <3>0. acceptor[q.src] \in CAcceptor /\ proposer[q.src] \in CProposer
      BY <2>1 DEF TypeOK
    <3>1. ltp \in Opns /\ ltp \in Int /\ Covered(ltp) /\ opn \in Opns
      BY <2>1, <3>0 DEF CAcceptor, CProposer, Opns, TruncationCovered, Covered
    <3>2. CReplicaNextReadClockMaybeNominateValueAndSend2a(q.src)
      BY <1>2, <2>4, WhoSends
    <3>3. opn < CUpperBoundedAddition(ltp, MaxLogLength, MaxIntegerVal)
      BY <3>2 DEF CReplicaNextReadClockMaybeNominateValueAndSend2a,
          CProposerNominateNewValueAndSend2a, CProposerNominateOldValueAndSend2a,
          CProposerCanNominateUsingOperationNumber
    <3>4. q.opn = opn
      <4>1. PICK v \in Batches :
              net' = net \cup {Message2a(q.src, proposer[q.src].max_ballot_i_sent_1a, opn, v)}
        BY <2>1, <3>2, Nomination
      <4>2. QED
        BY <2>4, <4>1 DEF Message2a
    <3>5. TruncationCandidate(q.opn) <= ltp
      BY <3>1, <3>3, <3>4, CandidateInWindow
    <3>6. QED
      BY <2>2, <3>1, <3>5, CoveredBelow
  <2>5. QED
    BY <2>3, <2>4
<1>3. ASSUME NEW n \in Int, Covered(n)
      PROVE  Covered(n)'
  BY <1>3, CoveredStays
<1>4. ASSUME NEW q \in net', q.type = "1b"
      PROVE  \E n \in Int : n = q.log_truncation_point /\ Covered(n)'
  BY <1>1, <1>3, <1>4
<1>5. ASSUME NEW q \in net', q.type = "2a"
      PROVE  \E n \in Int : n = TruncationCandidate(q.opn) /\ Covered(n)'
  BY <1>2, <1>3, <1>5
<1>6. QED
  BY <1>4, <1>5 DEF PacketsTruncateCovered, Sent, Covered

\* A promise that is counted cuts the proposer's own log off where the sender's
\* was; a leader starts proposing at its own truncation point and goes up.
LEMMA PromisesBelowLogStep ==
    ASSUME PaxosInv, TypeOK', PromisesBelowLog, LeaderNotBehindPromises, [Next]_vars
    PROVE  PromisesBelowLog' /\ LeaderNotBehindPromises'
<1>0. TypeOK /\ PromisesHeld
  BY DEF PaxosInv
<1> SUFFICES ASSUME NEW r \in Replicas, NEW q \in proposer'[r].received_1b_packets
             PROVE  /\ q.log_truncation_point <= acceptor'[r].log_truncation_point
                    /\ proposer'[r].current_state = 2 =>
                          q.log_truncation_point
                            <= proposer'[r].next_operation_number_to_propose
  BY DEF PromisesBelowLog, LeaderNotBehindPromises, CIsAfterLogTruncationPoint
<1> DEFINE l == proposer[r]
           ltp == q.log_truncation_point
           next == l.next_operation_number_to_propose
<1>1. /\ l \in CProposer /\ next \in Int /\ acceptor[r] \in CAcceptor
      /\ acceptor[r].log_truncation_point \in Int /\ acceptor'[r].log_truncation_point \in Int
      /\ acceptor'[r].log_truncation_point >= acceptor[r].log_truncation_point
  BY <1>0, TruncationPointOnlyGrows DEF TypeOK, CProposer, CAcceptor, Opns
<1>2. ASSUME q \in l.received_1b_packets
      PROVE  /\ ltp \in Int /\ ltp <= acceptor'[r].log_truncation_point
             /\ ltp <= acceptor[r].log_truncation_point
             /\ l.current_state = 2 => ltp <= next
  <2>1. q \in net /\ q.type = "1b"
    BY <1>0, <1>2 DEF PromisesHeld, Sent
  <2>2. ltp \in Int
    BY <1>0, <2>1, PacketFields DEF TypeOK, Opns
  <2>3. /\ ltp <= acceptor[r].log_truncation_point
        /\ l.current_state = 2 => ltp <= next
    BY <1>2 DEF PromisesBelowLog, LeaderNotBehindPromises, CIsAfterLogTruncationPoint
  <2>4. QED
    BY <1>1, <2>2, <2>3
<1>3. CASE proposer'[r] = l \/ proposer'[r] = [l EXCEPT !.current_state = 0]
  <2>1. /\ proposer'[r].received_1b_packets = l.received_1b_packets
        /\ proposer'[r].next_operation_number_to_propose = next
        /\ proposer'[r].current_state = 2 => l.current_state = 2
    BY <1>1, <1>3 DEF CProposer
  <2>2. QED
    BY <1>2, <2>1
<1>4. ASSUME NEW p \in net, CReplicaNextProcess1b(r, p)
      PROVE  /\ ltp <= acceptor'[r].log_truncation_point
             /\ proposer'[r].current_state # 2
  <2>1. /\ proposer'[r] = [l EXCEPT !.received_1b_packets = l.received_1b_packets \cup {p}]
        /\ l.current_state = 1
        /\ acceptor'[r] = TruncateLog(acceptor[r], p.log_truncation_point)
        /\ p.type = "1b"
    BY <1>0, <1>4 DEF CReplicaNextProcess1b, CProposerProcess1b, CAcceptorTruncateLog,
        Receive, TypeOK, CProposer
  <2>2. p.log_truncation_point \in Opns
    BY <1>0, <2>1, PacketFields DEF TypeOK
  <2>3. p.log_truncation_point <= acceptor'[r].log_truncation_point
    BY <1>1, <2>1, <2>2, TruncateLogMoves DEF Opns
  <2>4. q = p \/ q \in l.received_1b_packets
    BY <1>1, <2>1 DEF CProposer
  <2>5. proposer'[r].current_state = 1
    BY <1>1, <2>1 DEF CProposer
  <2>6. QED
    BY <1>2, <2>3, <2>4, <2>5
<1>5. CASE CReplicaNextSpontaneousMaybeEnterNewViewAndSend1a(r)
  <2>1. proposer'[r].received_1b_packets = {}
    BY <1>0, <1>1, <1>5 DEF CReplicaNextSpontaneousMaybeEnterNewViewAndSend1a,
        CProposerMaybeEnterNewViewAndSend1a, TypeOK, CProposer
  <2>2. QED
    BY <2>1
<1>6. CASE CReplicaNextSpontaneousMaybeEnterPhase2(r)
  <2>1. /\ proposer'[r].received_1b_packets = l.received_1b_packets
        /\ proposer'[r].next_operation_number_to_propose = acceptor[r].log_truncation_point
    BY <1>0, <1>1, <1>6 DEF CReplicaNextSpontaneousMaybeEnterPhase2,
        CProposerMaybeEnterPhase2, TypeOK, CProposer
  <2>2. QED
    BY <1>2, <2>1
<1>7. CASE CReplicaNextReadClockMaybeNominateValueAndSend2a(r)
  <2>1. /\ proposer'[r] = [l EXCEPT !.next_operation_number_to_propose = next + 1]
        /\ l.current_state = 2
    BY <1>0, <1>7, Nomination
  <2>2. /\ proposer'[r].received_1b_packets = l.received_1b_packets
        /\ proposer'[r].next_operation_number_to_propose = next + 1
    BY <1>1, <2>1 DEF CProposer
  <2>3. QED
    BY <1>1, <1>2, <2>1, <2>2
<1>8. QED
  BY <1>0, <1>3, <1>4, <1>5, <1>6, <1>7, WhoChangesProposer
-----------------------------------------------------------------------------
(***************************************************************************)
(* The invariant of the log and what follows from it.                      *)
(***************************************************************************)

\* Nothing is executed, promised or truncated in the state CReplicaInit builds.
LEMMA InitLogInv == CReplicaInit => LogInv
<1> SUFFICES ASSUME CReplicaInit PROVE LogInv
  OBVIOUS
<1>1. TypeOK /\ net = {}
  BY InitTypeOK DEF CReplicaInit
<1>2. VotesInWindow
  BY DEF CReplicaInit, CAcceptorInit, VotesInWindow
<1>3. TruncationCovered
  BY <1>1, ZeroIsCovered DEF CReplicaInit, CAcceptorInit, TruncationCovered, Covered
<1>4. LeaderNotBehindPromises /\ PromisesBelowLog
  BY DEF CReplicaInit, CProposerInit, LeaderNotBehindPromises, PromisesBelowLog,
      CIsAfterLogTruncationPoint
<1>5. CheckpointsWereExecuted
  BY <1>1 DEF CReplicaInit, CAcceptorInit, CExecutorInit, CheckpointsWereExecuted, Sent
<1>6. PacketsTruncateCovered
  BY <1>1 DEF PacketsTruncateCovered, Sent
<1>7. QED
  BY <1>2, <1>3, <1>4, <1>5, <1>6 DEF LogInv

\* The agreement invariant and the log's invariant hold in every reachable
\* state, whatever packets are lost, repeated or reordered.
THEOREM RslInvariantHolds == Spec => []RslInv
<1>1. CReplicaInit => RslInv
  BY InitPaxosInv, InitLogInv DEF RslInv
<1>2. ASSUME RslInv, [Next]_vars PROVE RslInv'
  <2>1. PaxosInv /\ LogInv /\ TypeOK
    BY <1>2 DEF RslInv, PaxosInv
  <2>2. PaxosInv' /\ TypeOK'
    BY <1>2, <2>1, StepPaxosInv, StepTypeOK
  <2>3. LogInv'
    BY <1>2, <2>1, <2>2, VotesInWindowStep, TruncationCoveredStep, CheckpointsWereExecutedStep,
       PacketsTruncateCoveredStep, PromisesBelowLogStep
    DEF LogInv
  <2>4. QED
    BY <2>2, <2>3 DEF RslInv
<1>3. QED
  BY <1>1, <1>2, PTL DEF Spec

\* What an acceptor has thrown away, a quorum has executed, however the
\* truncation point got there: by checkpoints, by a promise or by a vote.
THEOREM TruncationCoveredHolds == Spec => []TruncationCovered
<1>1. RslInv => TruncationCovered
  BY DEF RslInv, LogInv
<1>2. QED
  BY <1>1, RslInvariantHolds, PTL

\* An acceptor remembers votes only inside the window of MaxLogLength
\* operations that starts at its truncation point.
THEOREM VotesInWindowHolds == Spec => []VotesInWindow
<1>1. RslInv => VotesInWindow
  BY DEF RslInv, LogInv
<1>2. QED
  BY <1>1, RslInvariantHolds, PTL

\* A leader in phase 2 proposes above the truncation point of every promise
\* it holds, so none of them ever stops it.
THEOREM LeaderNotBehindPromisesHolds == Spec => []LeaderNotBehindPromises
<1>1. RslInv => LeaderNotBehindPromises
  BY DEF RslInv, LogInv
<1>2. QED
  BY <1>1, RslInvariantHolds, PTL
-----------------------------------------------------------------------------
(***************************************************************************)
(* The replicas implement the replicated log.                              *)
(***************************************************************************)

\* Some replica has executed as much as any other.
LEMMA LongestExists ==
    ASSUME TypeOK
    PROVE  \E r \in Replicas :
              \A s \in Replicas : executor[s].ops_complete <= executor[r].ops_complete
<1> DEFINE left == [r \in Replicas |-> MaxIntegerVal - executor[r].ops_complete]
           T == {left[r] : r \in Replicas}
<1>1. \A r \in Replicas : executor[r].ops_complete \in Int /\ left[r] \in Nat
  BY ConfigAssumption DEF TypeOK, CExecutor, Opns
<1>2. T \subseteq Nat /\ T # {}
  BY <1>1, ConfigAssumption DEF Replicas
<1>3. PICK x \in T : \A y \in T : ~(<<y, x>> \in OpToRel(<, Nat))
  BY <1>2, WFMin, NatLessThanWellFounded, Zenon
<1>4. \A y \in T : ~(y < x)
  BY <1>2, <1>3, Zenon DEF OpToRel
<1>5. PICK r \in Replicas : x = left[r]
  BY <1>3
<1>6. ASSUME NEW s \in Replicas
      PROVE  executor[s].ops_complete <= executor[r].ops_complete
  <2>1. ~(left[s] < left[r])
    BY <1>4, <1>5
  <2>2. QED
    BY <1>1, <2>1, ConfigAssumption
<1>7. QED
  BY <1>6

\* Two outcomes of executing chosen batches agree where both reach.
LEMMA ChosenPrefixesAgree ==
    ASSUME Agreement, NEW x, NEW m \in Opns, IsChosenPrefix(x, m),
           NEW y, NEW n \in Opns, IsChosenPrefix(y, n),
           NEW i \in 1 .. m, i \in 1 .. n
    PROVE  x[i] = y[i]
<1>1. i - 1 \in Opns
  BY ConfigAssumption DEF Opns
<1>2. x[i] \in ChosenAt(i - 1) /\ y[i] \in ChosenAt(i - 1)
  BY DEF IsChosenPrefix
<1>3. QED
  BY <1>1, <1>2 DEF Agreement

\* The applications, their lengths and what they hold.
LEMMA ApplicationFacts ==
    ASSUME PaxosInv, NEW r \in Replicas
    PROVE  /\ executor[r] \in CExecutor
           /\ executor[r].app \in Seq(Batches)
           /\ executor[r].ops_complete \in Opns
           /\ Len(executor[r].app) \in Nat
           /\ executor[r].ops_complete = Len(executor[r].app)
           /\ IsChosenPrefix(executor[r].app, executor[r].ops_complete)
BY DEF PaxosInv, TypeOK, CExecutor, ExecutedArePrefixes, IsChosenPrefix

\* ExecutedLog is an application at least as long as every other.
LEMMA LogIsLongest ==
    ASSUME PaxosInv
    PROVE  /\ \E r \in Replicas : ExecutedLog = executor[r].app
           /\ \A s \in Replicas : Len(executor[s].app) <= Len(ExecutedLog)
<1> DEFINE P(r) == \A s \in Replicas : Len(executor[s].app) <= Len(executor[r].app)
           longest == CHOOSE r \in Replicas : P(r)
<1>1. \E r \in Replicas : P(r)
  BY LongestExists, ApplicationFacts DEF PaxosInv
<1>2. longest \in Replicas /\ P(longest)
  BY <1>1, Zenon
<1>3. ExecutedLog = executor[longest].app
  BY DEF ExecutedLog
<1> HIDE DEF longest
<1>4. QED
  BY <1>2, <1>3

\* log is one of the applications, no other is longer, and any two agree where
\* both reach.
IsLogOf(log, app) ==
    /\ app \in [Replicas -> Seq(Batches)]
    /\ \E r \in Replicas : log = app[r]
    /\ \A s \in Replicas : Len(app[s]) <= Len(log)
    /\ \A r, s \in Replicas : \A i \in 1 .. Len(app[r]) :
          i <= Len(app[s]) => app[r][i] = app[s][i]

\* By agreement, the longest application is the log of all of them.
LEMMA ApplicationsHaveLog ==
    PaxosInv => IsLogOf(ExecutedLog, [r \in Replicas |-> executor[r].app])
<1> SUFFICES ASSUME PaxosInv
             PROVE  IsLogOf(ExecutedLog, [r \in Replicas |-> executor[r].app])
  OBVIOUS
<1>1. [r \in Replicas |-> executor[r].app] \in [Replicas -> Seq(Batches)]
  BY ApplicationFacts
<1>2. ASSUME NEW r \in Replicas, NEW s \in Replicas, NEW i \in 1 .. Len(executor[r].app),
             i <= Len(executor[s].app)
      PROVE  executor[r].app[i] = executor[s].app[i]
  <2>1. i \in 1 .. executor[r].ops_complete /\ i \in 1 .. executor[s].ops_complete
    BY <1>2, ApplicationFacts
  <2>2. QED
    BY <2>1, ApplicationFacts, ChosenPrefixesAgree, InvariantImpliesAgreement
<1>3. QED
  BY <1>1, <1>2, LogIsLongest DEF IsLogOf

\* There is only one: longest applications are equal.
LEMMA LogIsUnique ==
    ASSUME NEW log, NEW app, IsLogOf(log, app), NEW r \in Replicas,
           \A s \in Replicas : Len(app[s]) <= Len(app[r])
    PROVE  log = app[r]
<1>1. PICK q \in Replicas : log = app[q]
  BY DEF IsLogOf
<1>2. /\ app[q] \in Seq(Batches) /\ app[r] \in Seq(Batches)
      /\ Len(app[q]) \in Nat /\ Len(app[r]) \in Nat
  BY DEF IsLogOf
<1>3. Len(app[q]) = Len(app[r])
  BY <1>1, <1>2 DEF IsLogOf
<1>4. \A i \in 1 .. Len(app[q]) : app[q][i] = app[r][i]
  BY <1>2, <1>3 DEF IsLogOf
<1>5. QED
  BY <1>1, <1>2, <1>3, <1>4, SeqEqual

\* An application that is as long as the log and grows becomes the log.
LEMMA LogExtended ==
    ASSUME NEW log, NEW app, IsLogOf(log, app), NEW r \in Replicas, NEW x \in Seq(Batches),
           Len(log) <= Len(app[r]), Len(app[r]) < Len(x),
           NEW log2, NEW app2, IsLogOf(log2, app2), app2 = [app EXCEPT ![r] = x]
    PROVE  log = app[r] /\ log2 = x
<1>0. /\ app \in [Replicas -> Seq(Batches)] /\ Len(x) \in Nat
      /\ \A s \in Replicas : Len(app[s]) \in Nat /\ Len(app[s]) <= Len(log)
      /\ app2[r] = x /\ \A s \in Replicas : s # r => app2[s] = app[s]
  BY DEF IsLogOf
<1>1. log = app[r]
  <2>1. \A s \in Replicas : Len(app[s]) <= Len(app[r])
    BY <1>0 DEF IsLogOf
  <2>2. QED
    BY <2>1, LogIsUnique
<1>2. \A s \in Replicas : Len(app2[s]) <= Len(app2[r])
  BY <1>0
<1>3. log2 = app2[r]
  BY <1>2, LogIsUnique
<1>4. QED
  BY <1>0, <1>1, <1>3

\* An application that is replaced by a longer one, not longer than the log,
\* becomes a longer prefix of the log.
LEMMA InstallFollowsLog ==
    ASSUME NEW log, NEW app, IsLogOf(log, app), NEW r \in Replicas, NEW x \in Seq(Batches),
           Len(app[r]) < Len(x), Len(x) <= Len(log),
           NEW log2, NEW app2, IsLogOf(log2, app2), app2 = [app EXCEPT ![r] = x]
    PROVE  x = SubSeq(log, 1, Len(x)) /\ log2 = log
<1>0. /\ app \in [Replicas -> Seq(Batches)] /\ Len(x) \in Nat
      /\ \A s \in Replicas : /\ app[s] \in Seq(Batches) /\ Len(app[s]) \in Nat
                             /\ Len(app[s]) <= Len(log)
      /\ app2[r] = x /\ \A s \in Replicas : s # r => app2[s] = app[s]
  BY DEF IsLogOf
<1>1. PICK q \in Replicas : log = app[q]
  BY DEF IsLogOf
<1>2. log \in Seq(Batches) /\ Len(log) \in Nat /\ q # r
  BY <1>0, <1>1
<1>3. app2[q] = log /\ \A s \in Replicas : Len(app2[s]) <= Len(app2[q])
  BY <1>0, <1>1, <1>2
<1>4. log2 = log
  BY <1>3, LogIsUnique
<1>5. \A i \in 1 .. Len(x) : x[i] = log[i]
  <2> SUFFICES ASSUME NEW i \in 1 .. Len(x) PROVE x[i] = log[i]
    OBVIOUS
  <2>1. i \in 1 .. Len(app2[r]) /\ i <= Len(app2[q])
    BY <1>0, <1>2, <1>3
  <2>2. app2[r][i] = app2[q][i]
    BY <2>1 DEF IsLogOf
  <2>3. QED
    BY <1>0, <1>3, <2>2
<1>6. x = SubSeq(log, 1, Len(x))
  <2> DEFINE y == SubSeq(log, 1, Len(x))
  <2>1. y \in Seq(Batches) /\ Len(y) = Len(x) /\ \A i \in 1 .. Len(x) : y[i] = log[i]
    BY <1>0, <1>2
  <2> HIDE DEF y
  <2>2. x = y
    BY <1>5, <2>1, SeqEqual
  <2>3. QED
    BY <2>2 DEF y
<1>7. QED
  BY <1>4, <1>6

\* Nothing is executed at first.
LEMMA InitLog == CReplicaInit => Log!Init
<1> SUFFICES ASSUME CReplicaInit PROVE Log!Init
  OBVIOUS
<1>1. PaxosInv
  BY InitPaxosInv
<1>2. \A r \in Replicas : executor[r].app = <<>>
  BY DEF CReplicaInit, CExecutorInit
<1>3. ExecutedLog = <<>>
  BY <1>1, <1>2, LogIsLongest
<1>4. QED
  BY <1>2, <1>3 DEF Log!Init

\* Every handler executes the next batch of the log, installs a longer prefix of
\* it, or leaves the applications alone.
LEMMA StepLog ==
    ASSUME RslInv, IsLogOf(ExecutedLog, [r \in Replicas |-> executor[r].app])', [Next]_vars
    PROVE  [Log!Next]_<<ExecutedLog, [r \in Replicas |-> executor[r].app]>>
<1> DEFINE app == [r \in Replicas |-> executor[r].app]
<1>0. PaxosInv /\ TypeOK /\ CheckpointsWereExecuted
  BY DEF RslInv, PaxosInv, LogInv
<1>1. IsLogOf(ExecutedLog, app) /\ IsLogOf(ExecutedLog', app')
  BY <1>0, ApplicationsHaveLog DEF IsLogOf
<1>2. ASSUME \A r \in Replicas : executor'[r].app = executor[r].app
      PROVE  UNCHANGED <<ExecutedLog, app>>
  <2>1. app' = app
    BY <1>2
  <2>2. PICK q \in Replicas : ExecutedLog = app[q] /\ \A s \in Replicas : Len(app[s]) <= Len(app[q])
    BY <1>1 DEF IsLogOf
  <2>3. ExecutedLog' = ExecutedLog
    BY <1>1, <2>1, <2>2, LogIsUnique
  <2>4. QED
    BY <2>1, <2>3
<1>3. ASSUME NEW r \in Replicas, CReplicaNextSpontaneousMaybeExecute(r)
      PROVE  Log!Next
  <2> DEFINE v == executor[r].next_op_to_execute.v
             x == Append(app[r], v)
  <2>1. v \in Batches
    BY <1>0, <1>3 DEF CReplicaNextSpontaneousMaybeExecute, TypeOK, CExecutor, COutstandingOpKnown
  <2>2. app' = [app EXCEPT ![r] = x]
    BY <1>0, <1>3 DEF CReplicaNextSpontaneousMaybeExecute, CExecutorExecute, TypeOK, CExecutor
  <2> HIDE DEF v, app
  <2>3. /\ app[r] \in Seq(Batches) /\ x \in Seq(Batches)
        /\ Len(x) = Len(app[r]) + 1 /\ x[Len(x)] = v
    BY <1>1, <2>1 DEF IsLogOf
  <2>4. x = Append(app[r], v)
    OBVIOUS
  <2> HIDE DEF x
  <2>5. Len(app[r]) \in Nat /\ Len(ExecutedLog) \in Nat /\ Len(app[r]) <= Len(ExecutedLog)
    BY <1>1, <2>3 DEF IsLogOf
  <2>6. x \in Seq(Batches) /\ Len(app[r]) < Len(x)
    BY <2>3, <2>5
  <2>7. CASE Len(app[r]) = Len(ExecutedLog)
    <3>1. Len(ExecutedLog) <= Len(app[r])
      BY <2>5, <2>7
    <3>2. ExecutedLog = app[r] /\ ExecutedLog' = x
      BY <1>1, <2>2, <2>6, <3>1, LogExtended
    <3>3. QED
      BY <2>1, <2>2, <2>4, <2>7, <3>2 DEF Log!Next, Log!Execute, app
  <2>8. CASE Len(app[r]) < Len(ExecutedLog)
    <3>1. Len(x) <= Len(ExecutedLog)
      BY <2>3, <2>5, <2>8
    <3>2. x = SubSeq(ExecutedLog, 1, Len(x)) /\ ExecutedLog' = ExecutedLog
      BY <1>1, <2>2, <2>6, <3>1, InstallFollowsLog
    <3>3. ExecutedLog \in Seq(Batches)
      BY <1>1 DEF IsLogOf
    <3>4. v = ExecutedLog[Len(app[r]) + 1]
      BY <2>3, <2>5, <2>8, <3>2, <3>3
    <3>5. QED
      BY <2>1, <2>2, <2>4, <2>8, <3>2, <3>4 DEF Log!Next, Log!Execute, app
  <2>9. QED
    BY <2>5, <2>7, <2>8
<1>4. ASSUME NEW r \in Replicas, NEW p \in net, CReplicaNextProcessAppStateSupply(r, p)
      PROVE  Log!Next
  <2> DEFINE x == p.app_state
  <2>1. p.type = "AppStateSupply" /\ x \in Seq(Batches) /\ p.src \in Replicas
        /\ p.opn > executor[r].ops_complete /\ p.opn \in Nat
    BY <1>0, <1>4, PacketFields, ConfigAssumption
    DEF CReplicaNextProcessAppStateSupply, Receive, TypeOK, Opns
  <2>2. Len(x) = p.opn /\ p.opn <= executor[p.src].ops_complete
    BY <1>0, <2>1 DEF PaxosInv, ExecutedArePrefixes, IsChosenPrefix, CheckpointsWereExecuted, Sent
  <2>3. app' = [app EXCEPT ![r] = x]
    BY <1>0, <1>4 DEF CReplicaNextProcessAppStateSupply, CExecutorProcessAppStateSupply, TypeOK
  <2>4. /\ app[r] = executor[r].app /\ Len(app[r]) = executor[r].ops_complete
        /\ Len(app[r]) \in Nat
        /\ app[p.src] = executor[p.src].app /\ Len(app[p.src]) = executor[p.src].ops_complete
    BY <1>0, <2>1, ApplicationFacts
  <2> HIDE DEF app, x
  <2>5. /\ Len(ExecutedLog) \in Nat /\ Len(app[p.src]) \in Nat
        /\ Len(app[p.src]) <= Len(ExecutedLog)
    BY <1>1, <2>1 DEF IsLogOf
  <2>6. Len(app[r]) < Len(x) /\ Len(x) <= Len(ExecutedLog)
    BY <2>1, <2>2, <2>4, <2>5
  <2>7. x = SubSeq(ExecutedLog, 1, Len(x)) /\ ExecutedLog' = ExecutedLog
    BY <1>1, <2>1, <2>3, <2>6, InstallFollowsLog
  <2>8. Len(x) \in (Len(app[r]) + 1) .. Len(ExecutedLog)
    BY <2>1, <2>2, <2>4, <2>5, <2>6
  <2>9. QED
    BY <2>3, <2>7, <2>8 DEF Log!Next, Log!InstallState, app
<1>5. ASSUME NEW r \in Replicas,
             CReplicaNextSpontaneousMaybeMakeDecision(r) \/ executor'[r] = executor[r]
      PROVE  executor'[r].app = executor[r].app
  BY <1>0, <1>5 DEF CReplicaNextSpontaneousMaybeMakeDecision, CExecutorGetDecision,
      TypeOK, CExecutor
<1>6. QED
  BY <1>0, <1>2, <1>3, <1>4, <1>5, WhoChangesExecutor

\* The replicas implement ReplicatedLog, for any number of replicas and any
\* parameters: no execution and no state transfer takes an application back or
\* off the one sequence of batches.
THEOREM RslImplementsReplicatedLog == Spec => ImplementsReplicatedLog
<1>1. RslInv => PaxosInv
  BY DEF RslInv
<1>2. ASSUME RslInv, RslInv', [Next]_vars
      PROVE  [Log!Next]_<<ExecutedLog, [r \in Replicas |-> executor[r].app]>>
  <2>1. PaxosInv'
    BY <1>2 DEF RslInv
  <2>2. IsLogOf(ExecutedLog, [r \in Replicas |-> executor[r].app])'
    BY <2>1, ApplicationsHaveLog, PTL
  <2>3. QED
    BY <1>2, <2>2, StepLog
<1>3. QED
  BY <1>2, InitLog, RslInvariantHolds, PTL DEF Spec, ImplementsReplicatedLog, Log!Spec
=============================================================================
