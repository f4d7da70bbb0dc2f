---------------------------- MODULE RslRequests -----------------------------
(***************************************************************************)
(* The way of a client's request: received, noted in the election state,   *)
(* queued by the leader, batched, executed, answered from the reply cache. *)
(*                                                                         *)
(* Consensus is abstract here (RslReplica models it): chosen is the        *)
(* sequence of batches that were chosen, in the order of their operation   *)
(* numbers.  A batch that a leader has nominated is in flight until it is  *)
(* chosen, which may be later, in another order, by way of a later leader, *)
(* or never.  Empty batches fill operation numbers and execute nothing;    *)
(* they are left out.  The application is the counter service: its state   *)
(* is the number of requests executed.                                     *)
(***************************************************************************)
EXTENDS RslElection, SequencesExt

CONSTANTS
    MaxBatchSize,   \* params.max_batch_size
    NoReply,        \* no entry in the reply cache or in highest_seqno
    MaxOps          \* bound of the instance: batches that are chosen

\* A list of max_integer_val requests has room for all that are asked.
ASSUME RequestsAssumption ==
    /\ MaxBatchSize \in Nat \ {0} /\ MaxSeqno \in Nat
    /\ IsFiniteSet(Clients) /\ Cardinality(CRequest) <= MaxIntegerVal

VARIABLES
    proposer,   \* per replica: state, ballot, queue, highest queued sequence numbers
    executor,   \* per replica: application, operations executed, reply cache
    chosen,     \* the batches chosen so far
    inflight,   \* the batches nominated and not chosen
    net         \* every packet sent: replies, heartbeats, states

vars == <<election, proposer, executor, chosen, inflight, net>>

NoSeqno == [c \in Clients |-> NoReply]

RequestsInit ==
    /\ CElectionStateInit
    /\ proposer = [r \in Replicas |->
                     [current_state |-> 0,
                      max_ballot_i_sent_1a |-> CBallot(0, r),
                      request_queue |-> <<>>,
                      highest_seqno_requested_by_client_this_view |-> NoSeqno]]
    /\ executor = [r \in Replicas |->
                     [app |-> 0, ops_complete |-> 0, reply_cache |-> NoSeqno]]
    /\ chosen = <<>>
    /\ inflight = <<>>
    /\ net = {}

Reply(q, value) == [type |-> "Reply", req |-> q, reply |-> value]

Heartbeat(r) ==
    [type |-> "Heartbeat", src |-> r, bal |-> election[r].current_view,
     suspicious |-> r \in election[r].current_view_suspectors]

AppStateSupply(r) == [type |-> "AppStateSupply", state |-> executor[r]]

Sent(type) == {p \in net : p.type = type}

Answered(q) == \E p \in Sent("Reply") : p.req = q
-----------------------------------------------------------------------------
\* A client asks for one thing at a time, with increasing sequence numbers, and
\* repeats what it asked for: a request may arrive again, late, at any replica.
Asked(q) == q.seqno = 0 \/ Answered([q EXCEPT !.seqno = @ - 1])

\* A replica answers from its cache what it cached, ignores what is older, and
\* hands everything else to its proposer.
CachedAtLeast(r, q) ==
    LET cached == executor[r].reply_cache[q.client]
    IN  cached # NoReply /\ cached.seqno >= q.seqno

AnswerFromCache(r, q) ==
    /\ CachedAtLeast(r, q)
    /\ executor[r].reply_cache[q.client].seqno = q.seqno
    /\ net' = net \cup {Reply(q, executor[r].reply_cache[q.client].reply)}
    /\ UNCHANGED <<election, proposer, executor, chosen, inflight>>

Enqueue(l, q) ==
    LET highest == l.highest_seqno_requested_by_client_this_view[q.client]
    IN  IF l.current_state # 0 /\ (highest = NoReply \/ q.seqno > highest)
        THEN [l EXCEPT !.request_queue = Append(@, q),
                       !.highest_seqno_requested_by_client_this_view[q.client] = q.seqno]
        ELSE l

CProposerProcessRequest(r, q) ==
    /\ ~CachedAtLeast(r, q)
    /\ election' = [election EXCEPT ![r] = ReflectReceivedRequest(@, q)]
    /\ proposer' = [proposer EXCEPT ![r] = Enqueue(@, q)]
    /\ UNCHANGED <<executor, chosen, inflight, net>>

CReplicaNextProcessRequest(r, q) ==
    /\ Asked(q)
    /\ AnswerFromCache(r, q) \/ CProposerProcessRequest(r, q)
-----------------------------------------------------------------------------
\* Phase 1 of a new view: the queue is what is outstanding.
CProposerMaybeEnterNewViewAndSend1a(r) ==
    LET view == election[r].current_view
    IN  /\ view.proposer_id = r
        /\ CBalLt(proposer[r].max_ballot_i_sent_1a, view)
        /\ proposer' = [proposer EXCEPT
              ![r] = [current_state |-> 1,
                      max_ballot_i_sent_1a |-> view,
                      request_queue |-> AllRequests(election[r]),
                      highest_seqno_requested_by_client_this_view |-> NoSeqno]]
        /\ UNCHANGED <<election, executor, chosen, inflight, net>>

\* A quorum has promised the ballot.
CProposerMaybeEnterPhase2(r) ==
    /\ proposer[r].current_state = 1
    /\ proposer' = [proposer EXCEPT ![r].current_state = 2]
    /\ UNCHANGED <<election, executor, chosen, inflight, net>>

\* The head of the queue is nominated: a full batch, or a smaller one when the
\* batch timer has expired.
CProposerNominateNewValueAndSend2a(r) ==
    LET l    == proposer[r]
        size == IF Len(l.request_queue) <= MaxBatchSize
                THEN Len(l.request_queue) ELSE MaxBatchSize
    IN  /\ l.current_state = 2
        /\ election[r].current_view = l.max_ballot_i_sent_1a
        /\ size > 0
        /\ proposer' = [proposer EXCEPT
              ![r].request_queue = SubSeq(@, size + 1, Len(@))]
        /\ \/ /\ Len(chosen) + Len(inflight) < MaxOps
              /\ inflight' = Append(inflight, SubSeq(l.request_queue, 1, size))
           \/ inflight' = inflight    \* its packets are lost
        /\ UNCHANGED <<election, executor, chosen, net>>

\* A quorum of acceptors has voted for a batch.
CReplicaNextSpontaneousMaybeMakeDecision ==
    /\ \E i \in DOMAIN inflight :
          /\ chosen' = Append(chosen, inflight[i])
          /\ inflight' = RemoveAt(inflight, i)
    /\ UNCHANGED <<election, proposer, executor, net>>
-----------------------------------------------------------------------------
\* CHandleRequestBatch: the reply to the i-th request is the counter after it.
CHandleRequestBatch(app, batch) ==
    [i \in DOMAIN batch |->
       [client |-> batch[i].client, seqno |-> batch[i].seqno, reply |-> app + i]]

\* CClientsInReplies: of several replies to one client the first is kept.
CClientsInReplies(replies) ==
    [c \in Clients |->
       LET mine == {i \in DOMAIN replies : replies[i].client = c}
       IN  IF mine = {} THEN NoReply ELSE replies[Min(mine)]]

\* An entry that is already cached stays.
CUpdateNewCache(cache, replies) ==
    [c \in Clients |->
       IF cache[c] # NoReply THEN cache[c] ELSE CClientsInReplies(replies)[c]]

CExecutorExecute(r) ==
    LET e       == executor[r]
        batch   == chosen[e.ops_complete + 1]
        replies == CHandleRequestBatch(e.app, batch)
    IN  /\ e.ops_complete < Len(chosen)
        /\ executor' = [executor EXCEPT
              ![r] = [app |-> e.app + Len(batch),
                      ops_complete |-> e.ops_complete + 1,
                      reply_cache |-> CUpdateNewCache(e.reply_cache, replies)]]
        /\ net' = net \cup {Reply(batch[i], replies[i].reply) : i \in DOMAIN batch}
        /\ election' = [election EXCEPT ![r] = ReflectExecutedRequestBatch(@, batch)]
        /\ UNCHANGED <<proposer, chosen, inflight>>

\* State transfer: application and reply cache travel together.  The election
\* state of the replica that installs them is not told.  Who asks, and for which
\* ballot, is RslReplica's: here the state is sent if some replica is behind,
\* and sent once, as a bound of the instance.
CExecutorProcessAppStateRequest(r) ==
    /\ \E s \in Replicas : executor[r].ops_complete > executor[s].ops_complete
    /\ AppStateSupply(r) \notin net
    /\ net' = net \cup {AppStateSupply(r)}
    /\ UNCHANGED <<election, proposer, executor, chosen, inflight>>

\* Mutant: the application itself is not replaced.
InstallWithoutApp(r, p) ==
    /\ p.type = "AppStateSupply"
    /\ p.state.ops_complete > executor[r].ops_complete
    /\ executor' = [executor EXCEPT ![r] = [p.state EXCEPT !.app = executor[r].app]]
    /\ UNCHANGED <<election, proposer, chosen, inflight, net>>

CExecutorProcessAppStateSupply(r, p) ==
    /\ p.type = "AppStateSupply"
    /\ p.state.ops_complete > executor[r].ops_complete
    /\ executor' = [executor EXCEPT ![r] = p.state]
    /\ UNCHANGED <<election, proposer, chosen, inflight, net>>
-----------------------------------------------------------------------------
\* The proposer stops when the election state has moved to another view.
FollowView(r) ==
    /\ proposer' = IF CBalLt(election[r].current_view, election'[r].current_view)
                   THEN [proposer EXCEPT ![r].current_state = 0, ![r].request_queue = <<>>]
                   ELSE proposer
    /\ UNCHANGED <<executor, chosen, inflight, net>>

CProposerProcessHeartbeat(r, p) ==
    /\ p.type = "Heartbeat"
    /\ CElectionStateProcessHeartbeat(r, p)
    /\ FollowView(r)

CProposerCheckForViewTimeout(r) ==
    /\ CElectionStateCheckForViewTimeout(r)
    /\ UNCHANGED <<proposer, executor, chosen, inflight, net>>

CProposerCheckForQuorumOfViewSuspicions(r) ==
    /\ CElectionStateCheckForQuorumOfViewSuspicions(r)
    /\ FollowView(r)

\* Bound of the instance: a heartbeat that would change no replica is not sent.
HasNews(p) ==
    \E to \in Replicas :
        \/ CBalLt(election[to].current_view, p.bal)
        \/ /\ p.bal = election[to].current_view
           /\ p.suspicious
           /\ p.src \notin election[to].current_view_suspectors

CReplicaNextReadClockMaybeSendHeartbeat(r) ==
    /\ HasNews(Heartbeat(r))
    /\ Heartbeat(r) \notin net
    /\ net' = net \cup {Heartbeat(r)}
    /\ UNCHANGED <<election, proposer, executor, chosen, inflight>>
-----------------------------------------------------------------------------
ProcessPacket(r, p) ==
    \/ CProposerProcessHeartbeat(r, p)
    \/ CExecutorProcessAppStateSupply(r, p)

NoReceive(r) ==
    \/ CProposerMaybeEnterNewViewAndSend1a(r)
    \/ CProposerMaybeEnterPhase2(r)
    \/ CProposerNominateNewValueAndSend2a(r)
    \/ CExecutorExecute(r)
    \/ CExecutorProcessAppStateRequest(r)
    \/ CProposerCheckForViewTimeout(r)
    \/ CProposerCheckForQuorumOfViewSuspicions(r)
    \/ CReplicaNextReadClockMaybeSendHeartbeat(r)

Next ==
    \/ CReplicaNextSpontaneousMaybeMakeDecision
    \/ \E r \in Replicas :
        \/ \E q \in CRequest : CReplicaNextProcessRequest(r, q)
        \/ \E p \in net : ProcessPacket(r, p)
        \/ NoReceive(r)

Spec == RequestsInit /\ [][Next]_vars
-----------------------------------------------------------------------------
(***************************************************************************)
(* Properties.                                                             *)
(***************************************************************************)
Outstanding(r) == BuildReqSet(AllRequests(election[r]))

\* The sets that decide whether a request is noted are those of the lists: a
\* request is neither noted twice nor turned away when it is not outstanding.
SetsMirrorLists ==
    \A r \in Replicas :
        LET e == election[r]
        IN  /\ e.cur_req_set = BuildReqSet(e.requests_received_this_epoch)
            /\ e.prev_req_set = BuildReqSet(e.requests_received_prev_epochs)
            /\ Cardinality(Outstanding(r)) = Len(AllRequests(e))

\* A request leaves the outstanding ones only when the replica executes it, or
\* a later one of its client: no epoch or view change loses it.
OutstandingUntilExecuted ==
    [][\A r \in Replicas :
         \A q \in Outstanding(r) \ Outstanding(r)' :
            /\ executor'[r].ops_complete = executor[r].ops_complete + 1
            /\ \E i \in DOMAIN chosen[executor'[r].ops_complete] :
                  CRequestSatisfiedBy(q, chosen[executor'[r].ops_complete][i])]_vars

\* The requests executed before operation n, by their places in the batches.
ExecutedBefore(n) == UNION {{k} \X DOMAIN chosen[k] : k \in 1 .. (n - 1)}

\* The reply v is the counter at an execution of q.
ExecutedAs(q, v) ==
    \E n \in DOMAIN chosen : \E i \in DOMAIN chosen[n] :
        /\ chosen[n][i] = q
        /\ v = Cardinality(ExecutedBefore(n)) + i

\* Every reply, first or repeated, of whichever replica and after however many
\* state transfers, is the counter at an execution of that very request.
RepliesAreTrue == \A p \in Sent("Reply") : ExecutedAs(p.req, p.reply)

\* A copy of q is on its way to an execution.
OnItsWay(q) ==
    \/ \E r \in Replicas : q \in BuildReqSet(proposer[r].request_queue)
    \/ \E i \in DOMAIN inflight : q \in BuildReqSet(inflight[i])
    \/ \E r \in Replicas :
          \E i \in (executor[r].ops_complete + 1) .. Len(chosen) : q \in BuildReqSet(chosen[i])

\* A request that was answered and of which no copy is on its way is done:
\* repeating it does not send it to another execution.
NoReexecution ==
    [][\A q \in CRequest : Answered(q) /\ ~OnItsWay(q) => ~OnItsWay(q)']_vars

\* A view in which a request stays unexecuted at every replica is left: the
\* suspicions reach a quorum.
StuckViewIsLeft ==
    \A q \in CRequest, b \in Ballots :
        CBalLt(b, MaxView) =>
            []<>(\E r \in Replicas : election[r].current_view # b \/ q \notin Outstanding(r))
-----------------------------------------------------------------------------
(***************************************************************************)
(* The inductive invariant.                                                *)
(***************************************************************************)
ElectionState ==
    [current_view : Ballots, current_view_suspectors : SUBSET Replicas,
     requests_received_this_epoch : Seq(CRequest),
     requests_received_prev_epochs : Seq(CRequest),
     cur_req_set : SUBSET CRequest, prev_req_set : SUBSET CRequest]

ProposerState ==
    [current_state : 0 .. 2, max_ballot_i_sent_1a : Ballots, request_queue : Seq(CRequest),
     highest_seqno_requested_by_client_this_view : [Clients -> Nat \cup {NoReply}]]

CReply == [client : Clients, seqno : 0 .. MaxSeqno, reply : Nat]

ExecutorState ==
    [app : Nat, ops_complete : Nat, reply_cache : [Clients -> CReply \cup {NoReply}]]

Packets ==
    [type : {"Reply"}, req : CRequest, reply : Nat]
    \cup [type : {"Heartbeat"}, src : Replicas, bal : Ballots, suspicious : BOOLEAN]
    \cup [type : {"AppStateSupply"}, state : ExecutorState]

TypeOK ==
    /\ election \in [Replicas -> ElectionState]
    /\ proposer \in [Replicas -> ProposerState]
    /\ executor \in [Replicas -> ExecutorState]
    /\ chosen \in Seq(Seq(CRequest))
    /\ inflight \in Seq(Seq(CRequest))
    /\ net \subseteq Packets

\* No request is in the lists twice, and the sets are those of the lists.
NotedOnce(e) ==
    /\ e.cur_req_set = BuildReqSet(e.requests_received_this_epoch)
    /\ e.prev_req_set = BuildReqSet(e.requests_received_prev_epochs)
    /\ \A i, j \in DOMAIN AllRequests(e) : AllRequests(e)[i] = AllRequests(e)[j] => i = j

\* An executor's state is that of a prefix of what was chosen, and what it has
\* cached was the answer then.
StateIsTrue(e) ==
    /\ e.ops_complete <= Len(chosen)
    /\ e.app = Cardinality(ExecutedBefore(e.ops_complete + 1))
    /\ \A c \in Clients :
          e.reply_cache[c] # NoReply =>
              ExecutedAs([client |-> c, seqno |-> e.reply_cache[c].seqno],
                         e.reply_cache[c].reply)

RequestsInv ==
    /\ TypeOK
    /\ \A r \in Replicas : NotedOnce(election[r])
    /\ \A r \in Replicas : StateIsTrue(executor[r])
    /\ \A p \in Sent("AppStateSupply") : StateIsTrue(p.state)
    /\ RepliesAreTrue
=============================================================================
