----------------------------- MODULE RslReplica -----------------------------
(***************************************************************************)
(* The replicas of the library and the network between them.  A replica's  *)
(* event loop runs one handler at a time: the packet it received, or one   *)
(* of the periodic actions of its round-robin schedule.  Every handler is  *)
(* one action; the schedule is any interleaving, of which the round robin  *)
(* of one host is a special case.                                          *)
(*                                                                         *)
(* net holds every packet ever sent.  A packet may be received any number  *)
(* of times, in any order, or never: the UDP the replicas talk over.       *)
(***************************************************************************)
EXTENDS RslAcceptor, RslProposer, RslLearner, RslExecutor

VARIABLE net

vars == <<acceptor, proposer, current_view, learner, executor, net>>

CReplicaInit ==
    /\ CAcceptorInit
    /\ CProposerInit
    /\ CLearnerInit
    /\ CExecutorInit
    /\ net = {}
-----------------------------------------------------------------------------
Send(p) == net' = net \cup {p}

Lost(p, r) == <<p.type, p.src, r>> \in Cut

\* r takes a packet of this type off its socket.
Receive(r, p, type) ==
    /\ p.type = type
    /\ type \in {"1b", "AppStateSupply"} => p.dst = r
    /\ ~Lost(p, r)

CReplicaNextProcess1a(r, p) ==
    /\ Receive(r, p, "1a")
    /\ CAcceptorProcess1a(r, p)
    /\ Send(Promise1b(r, p))
    /\ UNCHANGED <<proposer, current_view, learner, executor>>

\* Mutant: the promise does not move the leader's own truncation point.
Process1bWithoutTruncation(r, p) ==
    /\ Receive(r, p, "1b")
    /\ p.bal = proposer[r].max_ballot_i_sent_1a
    /\ proposer[r].current_state = 1
    /\ \A q \in proposer[r].received_1b_packets : q.src # p.src
    /\ CProposerProcess1b(r, p)
    /\ UNCHANGED <<acceptor, learner, executor, net>>

\* A promise for the ballot of phase 1, one per acceptor.  The log is cut off
\* where the acceptor that promised cut it off.
CReplicaNextProcess1b(r, p) ==
    /\ Receive(r, p, "1b")
    /\ p.bal = proposer[r].max_ballot_i_sent_1a
    /\ proposer[r].current_state = 1
    /\ \A q \in proposer[r].received_1b_packets : q.src # p.src
    /\ CProposerProcess1b(r, p)
    /\ CAcceptorTruncateLog(r, p.log_truncation_point)
    /\ UNCHANGED <<learner, executor, net>>

CReplicaNextProcess2a(r, p) ==
    /\ Receive(r, p, "2a")
    /\ CBalLeq(acceptor[r].max_bal, p.bal)
    /\ p.opn <= MaxIntegerVal
    /\ CAcceptorProcess2a(r, p)
    /\ Send(Message2b(r, p.bal, p.opn, p.val))
    /\ UNCHANGED <<proposer, current_view, learner, executor>>

CReplicaNextProcess2b(r, p) ==
    /\ Receive(r, p, "2b")
    /\ \/ executor[r].ops_complete < p.opn
       \/ executor[r].ops_complete = p.opn /\ executor[r].next_op_to_execute = None
    /\ CLearnerProcess2b(r, p)
    /\ UNCHANGED <<acceptor, proposer, current_view, executor, net>>

CReplicaNextProcessStartingPhase2(r, p) ==
    /\ Receive(r, p, "StartingPhase2")
    /\ CExecutorProcessStartingPhase2(r, p)
    /\ Send(MessageAppStateRequest(r, p.bal, p.log_truncation_point))
    /\ UNCHANGED <<acceptor, proposer, current_view, learner, executor>>

CReplicaNextProcessAppStateRequest(r, p) ==
    /\ Receive(r, p, "AppStateRequest")
    /\ CExecutorProcessAppStateRequest(r, p)
    /\ Send(AppStateSupply(r, p))
    /\ UNCHANGED <<acceptor, proposer, current_view, learner, executor>>

\* Mutant: a state that is older than the replica's own is installed.
InstallAnyState(r, p) ==
    /\ Receive(r, p, "AppStateSupply")
    /\ CLearnerForgetOperationsBefore(r, p.opn)
    /\ CExecutorProcessAppStateSupply(r, p)
    /\ UNCHANGED <<acceptor, proposer, current_view, net>>

CReplicaNextProcessAppStateSupply(r, p) ==
    /\ Receive(r, p, "AppStateSupply")
    /\ p.opn > executor[r].ops_complete
    /\ CLearnerForgetOperationsBefore(r, p.opn)
    /\ CExecutorProcessAppStateSupply(r, p)
    /\ UNCHANGED <<acceptor, proposer, current_view, net>>

CReplicaNextProcessHeartbeat(r, p) ==
    /\ Receive(r, p, "Heartbeat")
    /\ CProposerProcessHeartbeat(r, p)
    /\ CAcceptorProcessHeartbeat(r, p)
    /\ UNCHANGED <<learner, executor, net>>
-----------------------------------------------------------------------------
CReplicaNextSpontaneousMaybeEnterNewViewAndSend1a(r) ==
    /\ CProposerMaybeEnterNewViewAndSend1a(r)
    /\ Send(Message1a(r, current_view[r]))
    /\ UNCHANGED <<acceptor, learner, executor>>

CReplicaNextSpontaneousMaybeEnterPhase2(r) ==
    LET ltp == acceptor[r].log_truncation_point
    IN  /\ CProposerMaybeEnterPhase2(r, ltp)
        /\ Send(MessageStartingPhase2(r, proposer[r].max_ballot_i_sent_1a, ltp))
        /\ UNCHANGED <<acceptor, learner, executor>>

CReplicaNextReadClockMaybeNominateValueAndSend2a(r) ==
    LET ltp == acceptor[r].log_truncation_point
    IN  \E v \in Batches :
          /\ \/ CProposerNominateNewValueAndSend2a(r, ltp, v)
             \/ CProposerNominateOldValueAndSend2a(r, ltp, v)
          /\ Send(Message2a(r, proposer[r].max_ballot_i_sent_1a,
                            proposer[r].next_operation_number_to_propose, v))
          /\ UNCHANGED <<acceptor, learner, executor>>

CReplicaNextSpontaneousTruncateLogBasedOnCheckpoints(r) ==
    \E opn \in Opns :
        /\ CIsLogTruncationPointValid(opn, acceptor[r].last_checkpointed_operation)
        /\ opn > acceptor[r].log_truncation_point
        /\ CAcceptorTruncateLog(r, opn)
        /\ UNCHANGED <<proposer, current_view, learner, executor, net>>

CReplicaNextSpontaneousMaybeMakeDecision(r) ==
    LET opn == executor[r].ops_complete
        l   == learner[r]
    IN  /\ executor[r].next_op_to_execute = None
        /\ HasQuorumOf2bs(r, opn)
        /\ CExecutorGetDecision(r, l.max_ballot_seen,
              l.unexecuted_learner_state[opn].candidate_learned_value)
        /\ UNCHANGED <<acceptor, proposer, current_view, learner, net>>

CReplicaNextSpontaneousMaybeExecute(r) ==
    /\ executor[r].next_op_to_execute # None
    /\ executor[r].ops_complete < MaxIntegerVal
    /\ CExecutorExecute(r)
    /\ CLearnerForgetDecision(r, executor[r].ops_complete)
    /\ UNCHANGED <<acceptor, proposer, current_view, net>>

CReplicaNextReadClockCheckForQuorumOfViewSuspicions(r) ==
    /\ CProposerCheckForQuorumOfViewSuspicions(r)
    /\ UNCHANGED <<acceptor, learner, executor, net>>

\* Bound of the instance: a heartbeat with nothing new for any replica that can
\* receive it is not sent.  Views and checkpoints only grow, so it would never
\* change anything, however late it arrives.
HasNews(p) ==
    \E to \in Replicas :
        /\ ~Lost(p, to)
        /\ \/ CBalLt(current_view[to], p.bal)
           \/ p.opn_ckpt > acceptor[to].last_checkpointed_operation[p.src]

CReplicaNextReadClockMaybeSendHeartbeat(r) ==
    LET p == MessageHeartbeat(r, current_view[r], executor[r].ops_complete)
    IN  /\ HasNews(p)
        /\ Send(p)
        /\ UNCHANGED <<acceptor, proposer, current_view, learner, executor>>
-----------------------------------------------------------------------------
ProcessPacket(r, p) ==
    \/ CReplicaNextProcess1a(r, p)
    \/ CReplicaNextProcess1b(r, p)
    \/ CReplicaNextProcess2a(r, p)
    \/ CReplicaNextProcess2b(r, p)
    \/ CReplicaNextProcessStartingPhase2(r, p)
    \/ CReplicaNextProcessAppStateRequest(r, p)
    \/ CReplicaNextProcessAppStateSupply(r, p)
    \/ CReplicaNextProcessHeartbeat(r, p)

NoReceive(r) ==
    \/ CReplicaNextSpontaneousMaybeEnterNewViewAndSend1a(r)
    \/ CReplicaNextSpontaneousMaybeEnterPhase2(r)
    \/ CReplicaNextReadClockMaybeNominateValueAndSend2a(r)
    \/ CReplicaNextSpontaneousTruncateLogBasedOnCheckpoints(r)
    \/ CReplicaNextSpontaneousMaybeMakeDecision(r)
    \/ CReplicaNextSpontaneousMaybeExecute(r)
    \/ CReplicaNextReadClockCheckForQuorumOfViewSuspicions(r)
    \/ CReplicaNextReadClockMaybeSendHeartbeat(r)

Next == \E r \in Replicas : (\E p \in net : ProcessPacket(r, p)) \/ NoReceive(r)

Spec == CReplicaInit /\ [][Next]_vars

\* The hosts' loops do not all stop while a packet that the network delivers
\* or a periodic action would change something.  A quorum of suspicions is due
\* to the view timers.
FairSpec == Spec /\ WF_vars(Next)
-----------------------------------------------------------------------------
(***************************************************************************)
(* Properties.                                                             *)
(***************************************************************************)
\* Every variable has the type of the struct it models.
TypeOK ==
    /\ acceptor \in [Replicas -> CAcceptor]
    /\ proposer \in [Replicas -> CProposer]
    /\ current_view \in [Replicas -> Ballots]
    /\ learner \in [Replicas -> CLearner]
    /\ executor \in [Replicas -> CExecutor]
    /\ net \subseteq CMessage

Sent(type) == {p \in net : p.type = type}

VotedFor(r, b, o, v) == Message2b(r, b, o, v) \in net

\* A quorum voted for v at operation o in ballot b.
Chosen(b, o, v) == IsQuorum({r \in Replicas : VotedFor(r, b, o, v)})

ChosenAt(o) == {v \in Batches : \E b \in Ballots : Chosen(b, o, v)}

\* A proposer never asks for two different batches at one operation number of
\* one ballot, whatever it resets, repeats or learns in between.
OneProposalPerBallot ==
    \A p, q \in Sent("2a") : p.bal = q.bal /\ p.opn = q.opn => p.val = q.val

\* The batches that quorums chose at one operation number, in whatever
\* ballots, are the same: a change of view never loses a chosen batch.
Agreement == \A o \in Opns : \A v, w \in ChosenAt(o) : v = w

\* Every batch a replica has executed, itself or as part of a state it was
\* sent, was chosen by a quorum at that operation number.
ExecutedWasChosen ==
    \A r \in Replicas :
        \A i \in DOMAIN executor[r].app : executor[r].app[i] \in ChosenAt(i - 1)

\* What an acceptor has thrown away, a quorum has executed: the state that a
\* replica behind the truncation point asks for exists.
TruncationCovered ==
    \A r \in Replicas :
        IsQuorum({q \in Replicas :
            executor[q].ops_complete >= acceptor[r].log_truncation_point})

\* An acceptor remembers votes only for the window of MaxLogLength operations
\* from its truncation point on, so a 1b never outgrows it.
VotesInWindow ==
    \A r \in Replicas, o \in Opns :
        acceptor[r].votes[o] # None =>
            /\ acceptor[r].log_truncation_point <= o
            /\ o < acceptor[r].log_truncation_point + MaxLogLength

\* A leader in phase 2 is never stopped by the truncation point of a promise
\* it holds: processing the promise moved its own log at least that far.
LeaderNotBehindPromises ==
    \A r \in Replicas :
        proposer[r].current_state = 2 =>
            CIsAfterLogTruncationPoint(proposer[r].next_operation_number_to_propose,
                                       proposer[r].received_1b_packets)

\* An acceptor that has promised a ballot never again votes in a lower one.
PromiseKept ==
    [][\A p \in net' \ net :
          p.type = "2b" =>
             \A q \in Sent("1b") : q.src = p.src => CBalLeq(q.bal, p.bal)]_vars

\* The log the replicas execute: the longest of their applications.
ExecutedLog ==
    LET longest == CHOOSE r \in Replicas :
                      \A s \in Replicas : Len(executor[s].app) <= Len(executor[r].app)
    IN  executor[longest].app

Log == INSTANCE ReplicatedLog
         WITH log <- ExecutedLog, app <- [r \in Replicas |-> executor[r].app]

\* The replicas implement a replicated log: no step, a state transfer included,
\* takes an application back or off the one sequence of batches.
ImplementsReplicatedLog == Log!Spec

\* A replica that hears of a leader that starts above what it has executed
\* catches up, by executing or by installing a state another replica sends.
CatchesUp ==
    \A r \in Replicas, opn \in Opns :
        (\E p \in Sent("StartingPhase2") :
            p.log_truncation_point = opn /\ ~Lost(p, r))
        ~> executor[r].ops_complete >= opn
=============================================================================
