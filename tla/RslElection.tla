---------------------------- MODULE RslElection -----------------------------
(***************************************************************************)
(* The election state of every replica: its view, who suspects the view,   *)
(* and the requests that clients have sent and that have not been executed *)
(* yet, which are the reason to suspect.  Epoch timers are left out: when  *)
(* an epoch ends is a nondeterministic choice.                             *)
(***************************************************************************)
EXTENDS RslConfig, Lists

CONSTANTS
    Clients,    \* client endpoints
    MaxSeqno    \* bound of the instance: highest sequence number of a client

CRequest == [client : Clients, seqno : 0 .. MaxSeqno]

VARIABLE election

CElectionStateInit ==
    election = [r \in Replicas |->
                  [current_view |-> CBallot(1, 0),
                   current_view_suspectors |-> {},
                   requests_received_this_epoch |-> <<>>,
                   requests_received_prev_epochs |-> <<>>,
                   cur_req_set |-> {},
                   prev_req_set |-> {}]]
-----------------------------------------------------------------------------
\* A request is its header: the message it carries plays no part.
BuildReqSet(reqs) == {reqs[i] : i \in DOMAIN reqs}

CRequestSatisfiedBy(q1, q2) == q1.client = q2.client /\ q1.seqno <= q2.seqno

CBoundRequestSequence(s, bound) == IF bound < Len(s) THEN SubSeq(s, 1, bound) ELSE s

Unsatisfied(reqs, batch) ==
    {i \in DOMAIN reqs : ~\E j \in DOMAIN batch : CRequestSatisfiedBy(reqs[i], batch[j])}

CRemoveExecutedRequestBatch(reqs, batch) == Pick(reqs, Unsatisfied(reqs, batch))

AllRequests(e) == e.requests_received_prev_epochs \o e.requests_received_this_epoch

\* Mutant: the requests of the epoch that ends are dropped.
NewEpochForgets(e, prev) ==
    [e EXCEPT !.requests_received_this_epoch = <<>>,
              !.requests_received_prev_epochs = e.requests_received_prev_epochs,
              !.cur_req_set = {},
              !.prev_req_set = BuildReqSet(e.requests_received_prev_epochs)]

\* An epoch ends: what is outstanding is now from earlier epochs.
NewEpoch(e, prev) ==
    [e EXCEPT !.requests_received_this_epoch = <<>>,
              !.requests_received_prev_epochs = prev,
              !.cur_req_set = {},
              !.prev_req_set = BuildReqSet(prev)]

NewView(e, b, suspectors) ==
    [NewEpoch(e, CBoundRequestSequence(AllRequests(e), MaxIntegerVal))
       EXCEPT !.current_view = b, !.current_view_suspectors = suspectors]
-----------------------------------------------------------------------------
\* Mutant: the suspicion of another replica is not counted.
ProcessHeartbeatAlone(r, p) ==
    /\ CBalLt(election[r].current_view, p.bal)
    /\ election' = [election EXCEPT ![r] = NewView(@, p.bal, {})]

CElectionStateProcessHeartbeat(r, p) ==
    LET e == election[r]
    IN  \/ /\ p.bal = e.current_view
           /\ p.suspicious
           /\ election' = [election EXCEPT ![r].current_view_suspectors = @ \cup {p.src}]
        \/ /\ CBalLt(e.current_view, p.bal)
           /\ election' = [election EXCEPT
                 ![r] = NewView(@, p.bal, IF p.suspicious THEN {p.src} ELSE {})]

\* A request already outstanding is not noted again.
ReflectReceivedRequest(e, req) ==
    IF req \in e.cur_req_set \cup e.prev_req_set
    THEN e
    ELSE [e EXCEPT !.requests_received_this_epoch =
                      CBoundRequestSequence(Append(@, req), MaxIntegerVal),
                   !.cur_req_set = @ \cup {req}]

\* The epoch timer has expired.  Requests that outlived a whole epoch are the
\* reason to suspect the view.
CElectionStateCheckForViewTimeout(r) ==
    LET e == election[r]
    IN  IF e.requests_received_prev_epochs = <<>>
        THEN election' = [election EXCEPT
                ![r] = NewEpoch(e, e.requests_received_this_epoch)]
        ELSE election' = [election EXCEPT
                ![r] = [NewEpoch(e, CBoundRequestSequence(AllRequests(e), MaxIntegerVal))
                          EXCEPT !.current_view_suspectors = @ \cup {r}]]

CElectionStateCheckForQuorumOfViewSuspicions(r) ==
    LET e    == election[r]
        next == CComputeSuccessorView(e.current_view)
    IN  /\ IsQuorum(e.current_view_suspectors)
        /\ e.current_view.seqno < MaxIntegerVal
        /\ CBalLeq(next, MaxView)
        /\ election' = [election EXCEPT ![r] = NewView(e, next, {})]

\* Mutant: the sets of outstanding requests are not rebuilt.
ReflectExecutedKeepsSets(e, batch) ==
    [e EXCEPT !.requests_received_this_epoch = CRemoveExecutedRequestBatch(@, batch),
              !.requests_received_prev_epochs = CRemoveExecutedRequestBatch(@, batch)]

\* A batch was executed: its requests, and earlier ones of the same clients,
\* are no longer outstanding.
ReflectExecutedRequestBatch(e, batch) ==
    LET this == CRemoveExecutedRequestBatch(e.requests_received_this_epoch, batch)
        prev == CRemoveExecutedRequestBatch(e.requests_received_prev_epochs, batch)
    IN  [e EXCEPT !.requests_received_this_epoch = this,
                  !.requests_received_prev_epochs = prev,
                  !.cur_req_set = BuildReqSet(this),
                  !.prev_req_set = BuildReqSet(prev)]
=============================================================================
