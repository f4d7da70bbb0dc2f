-------------------------------- MODULE Raft --------------------------------
(***************************************************************************)
(* The Raft host: the generated handlers of raft_gen.rs driven by the loop *)
(* of implementation/Raft/host.rs.  No executable step appends a           *)
(* Configuration entry, so every quorum is a majority of the servers.      *)
(*                                                                         *)
(* Packets are UDP datagrams: lost, delayed, reordered or delivered twice. *)
(***************************************************************************)
EXTENDS Naturals, Sequences, SequencesExt, FiniteSets

CONSTANTS
    Servers,    \* the servers of the configuration
    Values,     \* what clients ask for
    Nobody,     \* has_voted = false
    Elections,  \* bound: the <<server, term>> whose election timer goes off
    MaxLog,     \* bound on a log's length
    MaxInFlight,\* bound on the packets in the network at a time, those of
                \* elections and those of replication
    Cut         \* the <<type, src, dst>> of the packets that never arrive

ASSUME RaftAssumption ==
    /\ IsFiniteSet(Servers) /\ Servers # {}
    /\ Nobody \notin Servers
    /\ Elections \subseteq Servers \X (Nat \ {0})
    /\ MaxLog \in Nat /\ MaxInFlight \in Nat

VARIABLES
    current_term, role, voted_for, log, commit_index, votes_granted,
    match_index,   \* a missing key counts as 0: no index is tested below 1
    next_index,    \* a missing key is read as 0 and not decremented
    net

vars == <<current_term, role, voted_for, log, commit_index, votes_granted,
          match_index, next_index, net>>

IsQuorum(q) == 2 * Cardinality(q) > Cardinality(Servers)

LastTerm(l) == IF l = <<>> THEN 0 ELSE l[Len(l)].term

TermAt(l, i) == IF i \in DOMAIN l THEN l[i].term ELSE 0

RequestVote(src, dst, term, l) ==
    [type |-> "RequestVote", src |-> src, dst |-> dst, term |-> term,
     last_log_index |-> Len(l), last_log_term |-> LastTerm(l)]

VoteResponse(src, dst, term) ==
    [type |-> "VoteResponse", src |-> src, dst |-> dst, term |-> term]

AppendEntries(src, dst, term, l, prev, commit) ==
    [type |-> "AppendEntries", src |-> src, dst |-> dst, term |-> term,
     prev_index |-> prev, prev_term |-> TermAt(l, prev),
     entry |-> IF prev < Len(l) THEN <<l[prev + 1].value>> ELSE <<>>,
     leader_commit |-> commit]

AppendResponse(src, dst, term, success, match) ==
    [type |-> "AppendResponse", src |-> src, dst |-> dst, term |-> term,
     success |-> success, match_index |-> match]

ElectionTypes == {"RequestVote", "VoteResponse"}

\* Packets of elections and of replication do not push each other out.
FitsNetwork(packets) ==
    LET ofElections == {m \in packets : m.type \in ElectionTypes}
    IN  /\ Cardinality(ofElections) <= MaxInFlight
        /\ Cardinality(packets \ ofElections) <= MaxInFlight

\* A packet that is handled stays in the network, to be delivered again, until
\* it makes room for others.  One that is lost is one that is not handled.
Send(packets) ==
    LET all == net \cup {m \in packets : <<m.type, m.src, m.dst>> \notin Cut}
    IN  net' \in {kept \in SUBSET all :
                    /\ FitsNetwork(kept)
                    /\ \A m \in all \ kept : ~FitsNetwork(kept \cup {m})}

CInit ==
    /\ current_term = [s \in Servers |-> 0]
    /\ role = [s \in Servers |-> "Follower"]
    /\ voted_for = [s \in Servers |-> Nobody]
    /\ log = [s \in Servers |-> <<>>]
    /\ commit_index = [s \in Servers |-> 0]
    /\ votes_granted = [s \in Servers |-> {}]
    /\ match_index = [s \in Servers |-> [t \in Servers |-> 0]]
    /\ next_index = [s \in Servers |-> [t \in Servers |-> 0]]
    /\ net = {}
-----------------------------------------------------------------------------
(***************************************************************************)
(* What every handler does first with the term of a packet.  The values    *)
(* the handler goes on from are those after it.                            *)
(***************************************************************************)
StepsDown(s, term) == term > current_term[s]

TermAfter(s, term) == IF StepsDown(s, term) THEN term ELSE current_term[s]

VotedForAfter(s, term) == IF StepsDown(s, term) THEN Nobody ELSE voted_for[s]

RoleAfter(s, term) == IF StepsDown(s, term) THEN "Follower" ELSE role[s]

VotesAfter(s, term) == IF StepsDown(s, term) THEN {} ELSE votes_granted[s]

Cstep_down_if_needed(s, term) ==
    /\ current_term' = [current_term EXCEPT ![s] = TermAfter(s, term)]
    /\ voted_for' = [voted_for EXCEPT ![s] = VotedForAfter(s, term)]
    /\ role' = [role EXCEPT ![s] = RoleAfter(s, term)]
    /\ votes_granted' = [votes_granted EXCEPT ![s] = VotesAfter(s, term)]

Clog_up_to_date(s, m) ==
    \/ m.last_log_term > LastTerm(log[s])
    \/ m.last_log_term = LastTerm(log[s]) /\ m.last_log_index >= Len(log[s])
-----------------------------------------------------------------------------
(***************************************************************************)
(* Elections.                                                              *)
(***************************************************************************)
\* The election timer of a server that leads nobody goes off.
CTimeout(s) ==
    LET term == current_term[s] + 1
    IN  /\ role[s] \in {"Follower", "Candidate"}
        /\ <<s, term>> \in Elections
        /\ current_term' = [current_term EXCEPT ![s] = term]
        /\ role' = [role EXCEPT ![s] = "Candidate"]
        /\ voted_for' = [voted_for EXCEPT ![s] = s]
        /\ votes_granted' = [votes_granted EXCEPT ![s] = {s}]
        /\ Send({RequestVote(s, d, term, log[s]) : d \in Servers \ {s}})
        /\ UNCHANGED <<log, commit_index, match_index, next_index>>

\* Mutant: the vote already given in this term is not looked at.
MayVoteAgain(s, m) ==
    /\ m.term >= TermAfter(s, m.term)
    /\ Clog_up_to_date(s, m)

MayVote(s, m) ==
    /\ m.term >= TermAfter(s, m.term)
    /\ VotedForAfter(s, m.term) \in {Nobody, m.src}
    /\ Clog_up_to_date(s, m)

\* A refusal is not answered, but the higher term is kept.
CHandleRequestVoteMsg(s, m) ==
    /\ m.type = "RequestVote"
    /\ \/ /\ ~MayVote(s, m)
          /\ Cstep_down_if_needed(s, m.term)
          /\ net' = net
       \/ /\ MayVote(s, m)
          /\ current_term' = [current_term EXCEPT ![s] = m.term]
          /\ voted_for' = [voted_for EXCEPT ![s] = m.src]
          /\ role' = [role EXCEPT ![s] = "Follower"]
          /\ votes_granted' = [votes_granted EXCEPT ![s] = VotesAfter(s, m.term)]
          /\ Send({VoteResponse(s, m.src, m.term)})
    /\ UNCHANGED <<log, commit_index, match_index, next_index>>

CountsVote(s, m) ==
    /\ RoleAfter(s, m.term) = "Candidate"
    /\ m.term >= TermAfter(s, m.term)

\* The vote that completes a quorum makes a leader that knows of no follower.
CReceiveVoteAndBecomeLeader(s) ==
    /\ role' = [role EXCEPT ![s] = "Leader"]
    /\ match_index' = [match_index EXCEPT ![s] = [t \in Servers |-> 0]]
    /\ next_index' = [next_index EXCEPT ![s] = [t \in Servers |-> 0]]

CHandleVoteResponseMsg(s, m) ==
    /\ m.type = "VoteResponse"
    /\ \/ /\ ~CountsVote(s, m)
          /\ Cstep_down_if_needed(s, m.term)
          /\ UNCHANGED <<match_index, next_index>>
       \/ /\ CountsVote(s, m)
          /\ votes_granted' = [votes_granted EXCEPT ![s] = @ \cup {m.src}]
          /\ IF IsQuorum(votes_granted'[s])
             THEN CReceiveVoteAndBecomeLeader(s)
             ELSE UNCHANGED <<role, match_index, next_index>>
          /\ UNCHANGED <<current_term, voted_for>>
    /\ UNCHANGED <<log, commit_index, net>>
-----------------------------------------------------------------------------
(***************************************************************************)
(* Replication.                                                            *)
(***************************************************************************)
\* A leader appends; the client is answered now, before anything is committed.
CClientRequest(s, v) ==
    /\ role[s] = "Leader"
    /\ Len(log[s]) < MaxLog
    /\ log' = [log EXCEPT ![s] = Append(@, [term |-> current_term[s], value |-> v])]
    /\ UNCHANGED <<current_term, role, voted_for, commit_index, votes_granted,
                   match_index, next_index, net>>

\* One packet for every other server.  next_index counts from 1 after an answer
\* and from 0 before one, and is the previous index either way.
leader_heartbeat(s) ==
    /\ role[s] = "Leader"
    /\ Send({AppendEntries(s, d, current_term[s], log[s], next_index[s][d],
                           commit_index[s]) : d \in Servers \ {s}})
    /\ UNCHANGED <<current_term, role, voted_for, log, commit_index,
                   votes_granted, match_index, next_index>>

AcceptsEntries(s, m) ==
    /\ m.term >= TermAfter(s, m.term)
    /\ m.prev_index > 0 =>
          m.prev_index <= Len(log[s]) /\ log[s][m.prev_index].term = m.prev_term
    /\ m.entry # <<>> => m.prev_index = Len(log[s])

FollowerCommit(s, m) ==
    LET limit == IF m.entry # <<>> THEN Len(log[s]) + 1 ELSE m.prev_index
        known == IF m.leader_commit <= limit THEN m.leader_commit ELSE limit
    IN  IF known > commit_index[s] THEN known ELSE commit_index[s]

\* Mutant: the answer to a heartbeat gives the length of the log.
FollowerReportsLogLength(s, m) ==
    /\ log' = [log EXCEPT
         ![s] = @ \o [i \in DOMAIN m.entry |-> [term |-> m.term, value |-> m.entry[i]]]]
    /\ commit_index' = [commit_index EXCEPT ![s] = FollowerCommit(s, m)]
    /\ current_term' = [current_term EXCEPT ![s] = m.term]
    /\ voted_for' = [voted_for EXCEPT ![s] = VotedForAfter(s, m.term)]
    /\ votes_granted' = [votes_granted EXCEPT ![s] = VotesAfter(s, m.term)]
    /\ role' = [role EXCEPT ![s] = "Follower"]
    /\ Send({AppendResponse(s, m.src, m.term, TRUE, Len(log[s]) + Len(m.entry))})

\* The entry is stamped with the term of the packet, not with the term under
\* which the leader holds it; nothing is ever truncated.
CFollowerAppendEntries(s, m) ==
    /\ log' = [log EXCEPT
         ![s] = @ \o [i \in DOMAIN m.entry |-> [term |-> m.term, value |-> m.entry[i]]]]
    /\ commit_index' = [commit_index EXCEPT ![s] = FollowerCommit(s, m)]
    /\ current_term' = [current_term EXCEPT ![s] = m.term]
    /\ voted_for' = [voted_for EXCEPT ![s] = VotedForAfter(s, m.term)]
    /\ votes_granted' = [votes_granted EXCEPT ![s] = VotesAfter(s, m.term)]
    /\ role' = [role EXCEPT ![s] = "Follower"]
    /\ Send({AppendResponse(s, m.src, m.term, TRUE,
                            IF m.entry # <<>> THEN Len(log[s]) + 1 ELSE m.prev_index)})

CHandleAppendEntriesMsg(s, m) ==
    /\ m.type = "AppendEntries"
    /\ \/ /\ ~AcceptsEntries(s, m)
          /\ Cstep_down_if_needed(s, m.term)
          /\ Send({AppendResponse(s, m.src, TermAfter(s, m.term), FALSE, 0)})
          /\ UNCHANGED <<log, commit_index>>
       \/ /\ AcceptsEntries(s, m)
          /\ CFollowerAppendEntries(s, m)
    /\ UNCHANGED <<match_index, next_index>>

\* The answer's term makes a leader step down but is not compared otherwise.
CHandleAppendResponse(s, m) ==
    IF m.success
    THEN /\ m.match_index <= Len(log[s])
         /\ match_index' = [match_index EXCEPT ![s][m.src] = m.match_index]
         /\ next_index' = [next_index EXCEPT ![s][m.src] = m.match_index + 1]
    ELSE /\ next_index[s][m.src] > 0
         /\ next_index' = [next_index EXCEPT ![s][m.src] = @ - 1]
         /\ match_index' = match_index

CHandleAppendResponseMsg(s, m) ==
    /\ m.type = "AppendResponse"
    /\ Cstep_down_if_needed(s, m.term)
    /\ \/ RoleAfter(s, m.term) = "Leader" /\ CHandleAppendResponse(s, m)
       \/ RoleAfter(s, m.term) # "Leader" /\ UNCHANGED <<match_index, next_index>>
    /\ UNCHANGED <<log, commit_index, net>>

\* Mutant: a follower that holds the previous entry is counted.
ReplicatorsOffByOne(s, n) == {t \in Servers : t = s \/ match_index[s][t] + 1 >= n}

Replicators(s, n) == {t \in Servers : t = s \/ match_index[s][t] >= n}

\* The highest index of the leader's own term that a majority holds.
Committable(s) ==
    {n \in (commit_index[s] + 1) .. Len(log[s]) :
        log[s][n].term = current_term[s] /\ IsQuorum(Replicators(s, n))}

CTryAdvanceCommitIndex(s) ==
    /\ role[s] = "Leader"
    /\ \E n \in Committable(s) :
          /\ \A k \in Committable(s) : k <= n
          /\ commit_index' = [commit_index EXCEPT ![s] = n]
    /\ UNCHANGED <<current_term, role, voted_for, log, votes_granted,
                   match_index, next_index, net>>

CHandleMessage(s, m) ==
    /\ m.dst = s
    /\ \/ CHandleRequestVoteMsg(s, m)
       \/ CHandleVoteResponseMsg(s, m)
       \/ CHandleAppendEntriesMsg(s, m)
       \/ CHandleAppendResponseMsg(s, m)

Next ==
    \E s \in Servers :
        \/ CTimeout(s)
        \/ leader_heartbeat(s)
        \/ CTryAdvanceCommitIndex(s)
        \/ \E v \in Values : CClientRequest(s, v)
        \/ \E m \in net : CHandleMessage(s, m)

Spec == CInit /\ [][Next]_vars
-----------------------------------------------------------------------------
(***************************************************************************)
(* Properties.                                                             *)
(***************************************************************************)
ValuesOf(l) == [i \in DOMAIN l |-> l[i].value]

SamePrefix(s, t, n) == SubSeq(ValuesOf(log[s]), 1, n) = SubSeq(ValuesOf(log[t]), 1, n)

\* Two servers never lead in one term, whatever votes are repeated or late:
\* host.rs lets a server be elected, deposed and elected again.
ElectionSafety ==
    \A s, t \in Servers :
        role[s] = "Leader" /\ role[t] = "Leader" /\ current_term[s] = current_term[t]
            => s = t

\* Entries of one term at one index end two equal sequences of values, although
\* a follower stamps what it is sent with the term of the packet.
LogMatching ==
    \A s, t \in Servers :
        \A i \in DOMAIN log[s] \cap DOMAIN log[t] :
            log[s][i].term = log[t][i].term => SamePrefix(s, t, i)

\* What a leader believes of a follower is true, even when the answer it took
\* belongs to a term in which it led before.
MatchIndexTrue ==
    \A s, t \in Servers :
        role[s] = "Leader" =>
            /\ match_index[s][t] <= Len(log[t])
            /\ SamePrefix(s, t, match_index[s][t])

CommittedValues(s) == SubSeq(ValuesOf(log[s]), 1, commit_index[s])

LongestCommitted ==
    CommittedValues(CHOOSE s \in Servers :
                       \A t \in Servers : commit_index[t] <= commit_index[s])

Log == INSTANCE CommittedLog
         WITH committed <- LongestCommitted,
              known <- [s \in Servers |-> CommittedValues(s)]

\* The servers implement one committed log: no change of leader changes or
\* takes back a value that some server has committed.
ImplementsCommittedLog == Log!Spec

\* What the comment of protocol/Raft/refinement_proof/invariants.rs:46 states:
\* a committed entry is in the log of every leader of a higher term.
LeaderCompleteness ==
    \A s \in Servers :
        role[s] = "Leader" =>
            \A t \in Servers : \A i \in 1 .. commit_index[t] :
                log[t][i].term < current_term[s] =>
                    i \in DOMAIN log[s] /\ log[s][i].value = log[t][i].value
-----------------------------------------------------------------------------
(***************************************************************************)
(* The invariant from which the properties follow.                         *)
(***************************************************************************)
Terms == {e[2] : e \in Elections}

Entries == [term : Terms, value : Values]

\* A packet of server src for another one; a server is past its own term 0.
PacketOK(m) ==
    /\ m.src \in Servers /\ m.dst \in Servers /\ m.src # m.dst /\ m.term \in Terms
    /\ m.type \in ElectionTypes \cup {"AppendEntries", "AppendResponse"}
    /\ m.type = "AppendEntries" => m.prev_index \in Nat /\ m.leader_commit \in Nat
    /\ m.type = "AppendResponse" => m.success \in BOOLEAN /\ m.match_index \in Nat

TypeOK ==
    /\ current_term \in [Servers -> Terms \cup {0}]
    /\ role \in [Servers -> {"Follower", "Candidate", "Leader"}]
    /\ voted_for \in [Servers -> Servers \cup {Nobody}]
    /\ log \in [Servers -> Seq(Entries)]
    /\ commit_index \in [Servers -> Nat]
    /\ votes_granted \in [Servers -> SUBSET Servers]
    /\ match_index \in [Servers -> [Servers -> Nat]]
    /\ next_index \in [Servers -> [Servers -> Nat]]
    /\ \A m \in net : PacketOK(m)
    /\ \A s \in Servers : role[s] # "Follower" => current_term[s] \in Terms

\* There is a trace of server t's vote for c: a packet, a vote counted, or t's memory.
VoteSeen(t, c, term) ==
    \/ \E m \in net : m.type = "VoteResponse" /\ m.src = t /\ m.dst = c /\ m.term = term
    \/ t \in votes_granted[c] /\ current_term[c] = term
    \/ current_term[t] = term /\ voted_for[t] = c

\* A server remembers its vote until the next term, and has voted once in each.
VotesInv ==
    \A t, c \in Servers : \A term \in Terms :
        VoteSeen(t, c, term) =>
            /\ current_term[t] >= term
            /\ current_term[t] = term => voted_for[t] = c
            /\ \A d \in Servers : VoteSeen(t, d, term) => c = d

LeadersElected == \A s \in Servers : role[s] = "Leader" => IsQuorum(votes_granted[s])

Agree(s, t, n) ==
    /\ n <= Len(log[s]) /\ n <= Len(log[t])
    /\ \A i \in 1 .. n : log[s][i].value = log[t][i].value

\* Nobody else can be elected in the term any more: these servers have left it
\* or have voted for l in it.
Behind(l, term, t) ==
    /\ current_term[t] >= term
    /\ current_term[t] = term => voted_for[t] = l
    /\ \A c \in Servers : VoteSeen(t, c, term) => c = l

LeadsIn(s, term) == role[s] = "Leader" /\ current_term[s] = term

\* Some server leads in the term, or has done so and left packets or entries.
TermUsed(term) ==
    \/ \E s \in Servers : LeadsIn(s, term)
    \/ \E m \in net : m.type = "AppendEntries" /\ m.term = term
    \/ \E s \in Servers : \E i \in DOMAIN log[s] : log[s][i].term = term

\* Server l is the only one to lead in the term, and the entries of the term
\* are those of its log.
LedBy(l, term) ==
    /\ IsQuorum({t \in Servers : Behind(l, term, t)})
    /\ \A s \in Servers : LeadsIn(s, term) => s = l
    /\ \A m \in net : m.type = "AppendEntries" /\ m.term = term => m.src = l
    /\ \A s \in Servers : \A i \in DOMAIN log[s] :
          log[s][i].term = term => Agree(s, l, i)

LeadersInv == \A term \in Terms : TermUsed(term) => \E l \in Servers : LedBy(l, term)

\* What a packet says of the logs of its sender and of its receiver.
PacketTrue(m) ==
    /\ m.type = "AppendEntries" =>
          /\ m.prev_term # 0 =>
                m.prev_index \in DOMAIN log[m.src] /\ log[m.src][m.prev_index].term = m.prev_term
          /\ m.entry # <<>> =>
                /\ m.prev_index + 1 \in DOMAIN log[m.src]
                /\ m.entry = <<log[m.src][m.prev_index + 1].value>>
          /\ m.leader_commit <= commit_index[m.src]
    /\ m.type = "AppendResponse" /\ m.success => Agree(m.dst, m.src, m.match_index)

LogPacketsInv == \A m \in net : PacketTrue(m)

MatchInv == \A s, t \in Servers : Agree(s, t, match_index[s][t])

\* A majority holds what server s has committed.
CommittedHeld(s) ==
    /\ commit_index[s] <= Len(log[s])
    /\ commit_index[s] > 0 => IsQuorum({t \in Servers : Agree(s, t, commit_index[s])})

CommitInv == \A s \in Servers : CommittedHeld(s)

IInv ==
    /\ TypeOK
    /\ VotesInv /\ LeadersElected /\ LeadersInv
    /\ LogPacketsInv /\ MatchInv /\ CommitInv
=============================================================================
