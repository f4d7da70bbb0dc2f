-------------------------------- MODULE Pbft --------------------------------
(***************************************************************************)
(* The PBFT host: the generated rounds of pbft_gen.rs driven by the        *)
(* scheduler of implementation/PBFT/host.rs.  No code calls                *)
(* try_view_change, so the view is always 0 and node 0 is the primary.     *)
(* Execute, checkpoint and new round happen in one step, so a node is      *)
(* never seen in phase Replied.                                            *)
(*                                                                         *)
(* Packets are UDP datagrams.  A packet once sent stays in net: it may     *)
(* arrive late, repeatedly or never.                                       *)
(***************************************************************************)
EXTENDS Naturals, Sequences, SequencesExt, FiniteSets

CONSTANTS
    Nodes, Primary,
    Live,                \* the nodes that run
    F,                   \* faults tolerated: n >= 3f + 1
    Clients, Digests, None,
    Requests,            \* the <<client, digest>> that are asked for
    CheckpointInterval,
    MaxPending,          \* MAX_PENDING_REQUESTS
    MaxCached,           \* MAX_CACHED_CLIENTS
    MaxSeq               \* bound on the rounds

PbftAssumption ==
    /\ IsFiniteSet(Nodes) /\ Primary \in Live /\ Live \subseteq Nodes
    /\ F \in Nat /\ Cardinality(Nodes) >= 3 * F + 1
    /\ Requests \subseteq Clients \X Digests
    /\ CheckpointInterval \in Nat \ {0} /\ MaxCached \in Nat \ {0}
    /\ {MaxPending, MaxSeq} \subseteq Nat
    /\ None \notin Clients \cup Digests

VARIABLES
    seq_num, phase, request_digest, prepare_senders, commit_senders,
    low_watermark, high_watermark,
    executed,            \* the digests executed, one per round
    \* of the primary
    pending_requests, active_client, completed_requests, completed_clients,
    cur_pre_prepare, prev_pre_prepare,
    net,
    replies              \* the <<client, digest>> answered

node_vars == <<seq_num, phase, request_digest, prepare_senders, commit_senders,
               low_watermark, high_watermark, executed>>
primary_vars == <<pending_requests, active_client, completed_requests,
                  completed_clients, cur_pre_prepare, prev_pre_prepare>>
vars == <<node_vars, primary_vars, net, replies>>

Threshold == 2 * F + 1

\* Votes go to all peers, and what a peer sends to one that is behind, any other
\* in that round is sent for the asking: a packet has no destination here.
PrePrepare(seq, digest) ==
    [type |-> "PrePrepare", src |-> Primary, seq |-> seq, digest |-> digest]

\* The digest of a Prepare is not read by its receiver.
Prepare(n) == [type |-> "Prepare", src |-> n, seq |-> seq_num[n]]

Commit(n) == [type |-> "Commit", src |-> n, seq |-> seq_num[n]]

CInit ==
    /\ seq_num = [n \in Nodes |-> 0]
    /\ phase = [n \in Nodes |-> "PrePrepare"]
    /\ request_digest = [n \in Nodes |-> None]
    /\ prepare_senders = [n \in Nodes |-> {}]
    /\ commit_senders = [n \in Nodes |-> {}]
    /\ low_watermark = [n \in Nodes |-> 0]
    /\ high_watermark = [n \in Nodes |-> CheckpointInterval]
    /\ executed = [n \in Nodes |-> <<>>]
    /\ pending_requests = <<>>
    /\ active_client = None
    /\ completed_requests = [c \in Clients |-> None]
    /\ completed_clients = <<>>
    /\ cur_pre_prepare = <<>>
    /\ prev_pre_prepare = <<>>
    /\ net = {}
    /\ replies = {}
-----------------------------------------------------------------------------
(***************************************************************************)
(* A node enters a round with its own vote.                                *)
(***************************************************************************)
EnterPrepare(n, digest) ==
    /\ phase' = [phase EXCEPT ![n] = "Prepare"]
    /\ request_digest' = [request_digest EXCEPT ![n] = digest]
    /\ prepare_senders' = [prepare_senders EXCEPT ![n] = {n}]
    /\ commit_senders' = [commit_senders EXCEPT ![n] = {}]
    /\ UNCHANGED <<seq_num, low_watermark, high_watermark, executed>>

MayStartRound(queue) ==
    /\ phase[Primary] = "PrePrepare"
    /\ low_watermark[Primary] <= seq_num[Primary]
    /\ seq_num[Primary] < high_watermark[Primary]
    /\ seq_num[Primary] < MaxSeq
    /\ queue # <<>>

\* Mutant: the reply goes to the client that asked last.
StartRoundForLatest(queue) ==
    LET digest == Head(queue)[1]
    IN  /\ pending_requests' = Tail(queue)
        /\ active_client' = Last(queue)[2]
        /\ prev_pre_prepare' = cur_pre_prepare
        /\ cur_pre_prepare' = <<seq_num[Primary], digest>>
        /\ EnterPrepare(Primary, digest)
        /\ net' = net \cup {PrePrepare(seq_num[Primary], digest)}
        /\ UNCHANGED <<completed_requests, completed_clients, replies>>

\* CPrePrepare on the first request of the queue, with its reply destination.
StartRound(queue) ==
    LET digest == Head(queue)[1]
    IN  /\ pending_requests' = Tail(queue)
        /\ active_client' = Head(queue)[2]
        /\ prev_pre_prepare' = cur_pre_prepare
        /\ cur_pre_prepare' = <<seq_num[Primary], digest>>
        /\ EnterPrepare(Primary, digest)
        /\ net' = net \cup {PrePrepare(seq_num[Primary], digest)}
        /\ UNCHANGED <<completed_requests, completed_clients, replies>>

\* New rounds are paced: a turn may come too early and start none.
try_pre_prepare_and_new_round ==
    MayStartRound(pending_requests) /\ StartRound(pending_requests)

Queue(c, digest) ==
    LET active == active_client = c /\ request_digest[Primary] = digest
        queued == Contains(pending_requests, <<digest, c>>)
    IN  IF ~active /\ ~queued /\ Len(pending_requests) < MaxPending
        THEN Append(pending_requests, <<digest, c>>)
        ELSE pending_requests

\* A request that the client's last answer was for is answered again; any other
\* waits for a round of its own, which starts now if it can.
handle_client_request(c, digest) ==
    \/ /\ completed_requests[c] = digest
       /\ replies' = replies \cup {<<c, digest>>}
       /\ UNCHANGED <<node_vars, primary_vars, net>>
    \/ /\ completed_requests[c] # digest
       /\ \/ MayStartRound(Queue(c, digest)) /\ StartRound(Queue(c, digest))
          \/ /\ pending_requests' = Queue(c, digest)
             /\ UNCHANGED <<node_vars, active_client, completed_requests, completed_clients,
                            cur_pre_prepare, prev_pre_prepare, net, replies>>
-----------------------------------------------------------------------------
(***************************************************************************)
(* Packets of the peers.                                                   *)
(***************************************************************************)
InRound(n) == phase[n] \in {"Prepare", "Commit"}

\* A repeated PrePrepare is answered with the vote again.
handle_pre_prepare(n, m) ==
    /\ m.type = "PrePrepare"
    /\ n # Primary
    /\ m.seq = seq_num[n]
    /\ \/ phase[n] = "PrePrepare" /\ EnterPrepare(n, m.digest)
       \/ InRound(n) /\ UNCHANGED node_vars
    /\ net' = net \cup {Prepare(n)}
    /\ UNCHANGED <<primary_vars, replies>>

\* A node that is past the round of a vote sends its own to the one behind, at most
\* once in a millisecond for the votes of both kinds together (last_catchup_time): a
\* vote that comes too early is dropped.
catch_up(n, m) ==
    /\ m.seq < seq_num[n]
    /\ net' \in {net, net \cup {[m EXCEPT !.src = n]}}
    /\ UNCHANGED <<node_vars, primary_vars, replies>>

CountPrepare(n, m) ==
    LET senders == prepare_senders[n] \cup {m.src}
        enough == Cardinality(senders) >= Threshold
    IN  /\ prepare_senders' = [prepare_senders EXCEPT ![n] = senders]
        /\ phase' = [phase EXCEPT ![n] = IF enough THEN "Commit" ELSE @]
        /\ commit_senders' = [commit_senders EXCEPT ![n] = IF enough THEN {n} ELSE @]
        /\ net' = IF enough THEN net \cup {Commit(n)} ELSE net
        /\ UNCHANGED <<seq_num, request_digest, low_watermark, high_watermark, executed,
                       primary_vars, replies>>

handle_prepare(n, m) ==
    /\ m.type = "Prepare"
    /\ \/ catch_up(n, m)
       \/ /\ m.seq = seq_num[n]
          /\ phase[n] = "Prepare"
          /\ m.src \notin prepare_senders[n]
          /\ CountPrepare(n, m)

\* CExecuteReply, try_checkpoint and try_new_round.
Execute(n) ==
    LET seq == seq_num[n] + 1
    IN  /\ executed' = [executed EXCEPT ![n] = Append(@, request_digest[n])]
        /\ seq_num' = [seq_num EXCEPT ![n] = seq]
        /\ low_watermark' = [low_watermark EXCEPT ![n] = seq]
        /\ high_watermark' = [high_watermark EXCEPT ![n] = seq + CheckpointInterval]
        /\ prepare_senders' = [prepare_senders EXCEPT ![n] = {}]
        /\ commit_senders' = [commit_senders EXCEPT ![n] = {}]
        /\ request_digest' = [request_digest EXCEPT ![n] = None]
        /\ phase' = [phase EXCEPT ![n] = "PrePrepare"]

\* The primary answers the client of the round and remembers the answer; the
\* client that has been remembered longest makes room.
Reply(c, digest) ==
    LET full == Len(completed_clients) = MaxCached
        known == completed_requests[c] # None
        kept == IF ~known /\ full
                THEN [completed_requests EXCEPT ![Head(completed_clients)] = None]
                ELSE completed_requests
    IN  /\ completed_requests' = [kept EXCEPT ![c] = digest]
        /\ completed_clients' =
              IF known THEN completed_clients
              ELSE Append(IF full THEN Tail(completed_clients) ELSE completed_clients, c)
        /\ replies' = replies \cup {<<c, digest>>}

CountCommit(n, m) ==
    LET senders == commit_senders[n] \cup {m.src}
    IN  IF Cardinality(senders) >= Threshold
        THEN /\ Execute(n)
             /\ IF n = Primary
                THEN Reply(active_client, request_digest[n]) /\ active_client' = None
                ELSE UNCHANGED <<completed_requests, completed_clients, replies, active_client>>
             /\ UNCHANGED <<pending_requests, cur_pre_prepare, prev_pre_prepare>>
        ELSE /\ commit_senders' = [commit_senders EXCEPT ![n] = senders]
             /\ UNCHANGED <<seq_num, phase, request_digest, prepare_senders, low_watermark,
                            high_watermark, executed, primary_vars, replies>>

\* Mutant: the commit votes of an earlier round are counted.
handle_old_commit(n, m) ==
    /\ m.type = "Commit"
    /\ m.seq <= seq_num[n]
    /\ phase[n] = "Commit"
    /\ m.src \notin commit_senders[n]
    /\ CountCommit(n, m)
    /\ net' = net

handle_commit(n, m) ==
    /\ m.type = "Commit"
    /\ \/ catch_up(n, m)
       \/ /\ m.seq = seq_num[n]
          /\ phase[n] = "Commit"
          /\ m.src \notin commit_senders[n]
          /\ CountCommit(n, m)
          /\ net' = net

\* Mutant: a node in Commit no longer repeats its vote to prepare.
VotesOfPhase(n) == IF phase[n] = "Commit" THEN {Commit(n)} ELSE {Prepare(n)}

Votes(n) == {Prepare(n)} \cup (IF phase[n] = "Commit" THEN {Commit(n)} ELSE {})

\* A node that waits in a round repeats its votes.  The primary's own vote to
\* prepare is sent only here and to nodes behind.
broadcast_commit_votes(n) ==
    /\ InRound(n)
    /\ net' = net \cup Votes(n)
    /\ UNCHANGED <<node_vars, primary_vars, replies>>

Handle(n, m) ==
    /\ m.src # n
    /\ handle_pre_prepare(n, m) \/ handle_prepare(n, m) \/ handle_commit(n, m)

Next ==
    \/ \E r \in Requests : handle_client_request(r[1], r[2])
    \/ try_pre_prepare_and_new_round
    \/ \E n \in Live : broadcast_commit_votes(n) \/ \E m \in net : Handle(n, m)

Spec == CInit /\ [][Next]_vars

\* The PrePrepares that the primary repeats while it waits: this round's and the
\* one before.
RepeatedPrePrepares ==
    IF InRound(Primary)
    THEN {PrePrepare(p[1], p[2]) : p \in {cur_pre_prepare, prev_pre_prepare} \ {<<>>}}
    ELSE {}

\* The packets that are sent again and again as long as nothing changes.
SentAgain ==
    RepeatedPrePrepares
    \cup UNION {Votes(p) : p \in {q \in Live : InRound(q)}}
    \cup {Prepare(p) : p \in {q \in Live \ {Primary} :
                               InRound(q) /\ \E m \in RepeatedPrePrepares : m.seq = seq_num[q]}}

\* A packet that is sent again reaches node n in the round it is for.  The answers of
\* catch_up are not among them: a node in Commit repeats both its votes back to back,
\* and a peer that is ahead may answer the first, and drop the second, every time.
Receive(n) == \E m \in SentAgain \cap net : m.seq = seq_num[n] /\ Handle(n, m)
-----------------------------------------------------------------------------
(***************************************************************************)
(* Properties.                                                             *)
(***************************************************************************)
\* Node n has voted to commit the digest in round i, or has executed it.
Prepared(n, i, digest) ==
    \/ i <= Len(executed[n]) /\ executed[n][i] = digest
    \/ i = seq_num[n] + 1 /\ phase[n] = "Commit" /\ request_digest[n] = digest

\* What a node has executed, a quorum is committed to: no node gets ahead on
\* the strength of votes for another round, late or repeated ones included.
ExecutedByQuorum ==
    \A n \in Nodes : \A i \in DOMAIN executed[n] :
        Cardinality({q \in Nodes : Prepared(q, i, executed[n][i])}) >= Threshold

Longest ==
    executed[CHOOSE n \in Nodes : \A q \in Nodes : seq_num[q] <= seq_num[n]]

Log == INSTANCE CommittedLog
         WITH Servers <- Nodes, Values <- Digests,
              committed <- Longest, known <- executed

\* The nodes execute one sequence of digests.
ImplementsCommittedLog == Log!Spec

\* A client is only told of its own requests, and of those only after a quorum
\* is committed to it: the reply goes with the request through queue and round.
RepliesAreTrue ==
    \A r \in replies :
        /\ r \in Requests
        /\ \E i \in DOMAIN executed[Primary] :
              Cardinality({q \in Nodes : Prepared(q, i, r[2])}) >= Threshold

\* A request that its client repeats while it is queued, in a round or answered
\* has one round, as long as the client asks for nothing else and is remembered.
OneRoundPerRequest ==
    \A i, j \in DOMAIN executed[Primary] :
        executed[Primary][i] = executed[Primary][j] => i = j

\* Every request is answered, after one round; a second one would not be undone.
AllAnswered == Requests \subseteq replies /\ OneRoundPerRequest

\* Node n waits for votes to commit in a round that a running node has finished: only
\* answers of catch_up can help it.
Behind(n) == phase[n] = "Commit" /\ \E q \in Live : seq_num[q] > seq_num[n]
-----------------------------------------------------------------------------
(***************************************************************************)
(* The invariant from which the safety properties follow.                  *)
(***************************************************************************)
PacketOK(m) ==
    \/ m \in [type : {"PrePrepare"}, src : Nodes, seq : Nat, digest : Digests]
    \/ m \in [type : {"Prepare", "Commit"}, src : Nodes, seq : Nat]

TypeOK ==
    /\ seq_num \in [Nodes -> Nat]
    /\ phase \in [Nodes -> {"PrePrepare", "Prepare", "Commit"}]
    /\ request_digest \in [Nodes -> Digests \cup {None}]
    /\ commit_senders \in [Nodes -> SUBSET Nodes]
    /\ executed \in [Nodes -> Seq(Digests)]
    /\ pending_requests \in Seq(Digests \X Clients)
    /\ active_client \in Clients \cup {None}
    /\ completed_requests \in [Clients -> Digests \cup {None}]
    /\ completed_clients \in Seq(Clients)
    /\ \A m \in net : PacketOK(m)

\* The primary has given the digest the round that is the i-th to be executed.
Assigned(i, digest) ==
    \/ i \in DOMAIN executed[Primary] /\ executed[Primary][i] = digest
    \/ i = seq_num[Primary] + 1 /\ InRound(Primary) /\ request_digest[Primary] = digest

\* Nodes work on, and have executed, what the primary assigned.
RoundsInv ==
    \A n \in Nodes :
        /\ Len(executed[n]) = seq_num[n]
        /\ InRound(n) => /\ request_digest[n] \in Digests
                         /\ Assigned(seq_num[n] + 1, request_digest[n])
        /\ \A i \in DOMAIN executed[n] : Assigned(i, executed[n][i])

\* Node q has voted to commit in the i-th round.
Committed(q, i) == i <= seq_num[q] \/ (i = seq_num[q] + 1 /\ phase[q] = "Commit")

\* The packets, and the votes counted, are of nodes that have done what they say.
VotesInv ==
    /\ \A m \in net :
          /\ m.type = "PrePrepare" => Assigned(m.seq + 1, m.digest)
          /\ m.type = "Commit" => Committed(m.src, m.seq + 1)
    /\ \A n \in Nodes : phase[n] = "Commit" =>
          \A q \in commit_senders[n] : Committed(q, seq_num[n] + 1)

QuorumInv ==
    \A n \in Nodes : \A i \in 1 .. seq_num[n] :
        Cardinality({q \in Nodes : Committed(q, i)}) >= Threshold

\* A request keeps its client from the queue to the reply.
RequestsInv ==
    /\ \A i \in DOMAIN pending_requests :
          <<pending_requests[i][2], pending_requests[i][1]>> \in Requests
    /\ InRound(Primary) => <<active_client, request_digest[Primary]>> \in Requests
    /\ \A c \in Clients :
          completed_requests[c] # None => <<c, completed_requests[c]>> \in replies
    /\ \A r \in replies : /\ r \in Requests
                          /\ \E i \in DOMAIN executed[Primary] : executed[Primary][i] = r[2]

IInv == TypeOK /\ RoundsInv /\ VotesInv /\ QuorumInv /\ RequestsInv
=============================================================================
