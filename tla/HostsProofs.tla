----------------------------- MODULE HostsProofs ----------------------------
(***************************************************************************)
(* The protocols that native_runtime.rs runs beside RSL, for every number  *)
(* of nodes and every set of clients and values.  Each part proves the     *)
(* invariant of one host from that host's steps alone; at the end they are *)
(* brought together for the process, which runs one of them.               *)
(***************************************************************************)
EXTENDS HostsSafety, TLAPS, FiniteSetTheorems, SequenceTheorems

\* The hosts count with one notion of cardinality.
LEMMA SameCardinality ==
    \A S : /\ VerticalPaxosHost!Cardinality(S) = Cardinality(S)
          /\ PaxosHost!Cardinality(S) = Cardinality(S)
BY DEF VerticalPaxosHost!Cardinality, PaxosHost!Cardinality, Cardinality

-----------------------------------------------------------------------------
(***************************************************************************)
(* Primary backup.                                                         *)
(***************************************************************************)
\* Nothing is taken or answered at first.
LEMMA BackupInit == PrimaryBackupHost!Init => PrimaryBackupHost!IInv
<1> SUFFICES ASSUME PrimaryBackupHost!Init PROVE PrimaryBackupHost!IInv
    OBVIOUS
<1>1. <<>> \in Seq(BackupValues) /\ <<>> \in Seq(BackupValues \X BackupClients)
    OBVIOUS
<1>2. PrimaryBackupHost!AnsweredInOrder
    <2> SUFFICES ASSUME NEW n \in PrimaryBackupHost!Nodes
        PROVE /\ pb_accepted[n] = pb_replies[n] \o IF pb_pending[n] = <<>> THEN <<>> ELSE <<pb_pending[n]>>
              /\ pb_log[n] = [i \in DOMAIN pb_replies[n] |-> pb_replies[n][i][1]]
        BY DEF PrimaryBackupHost!AnsweredInOrder
    <2>1. pb_accepted[n] = <<>> /\ pb_replies[n] = <<>> /\ pb_pending[n] = <<>> /\ pb_log[n] = <<>>
        BY DEF PrimaryBackupHost!Init
    <2> QED
        BY <2>1
<1> QED
    BY <1>1, <1>2 DEF PrimaryBackupHost!Init, PrimaryBackupHost!IInv

\* An entry more at the end of two parallel sequences.
LEMMA ParallelAppend ==
    ASSUME NEW V, NEW C, NEW r \in Seq(V \X C), NEW l \in Seq(V), NEW p \in V \X C,
           l = [i \in DOMAIN r |-> r[i][1]]
    PROVE  Append(l, p[1]) = [i \in DOMAIN Append(r, p) |-> Append(r, p)[i][1]]
<1>1. Append(r, p) \in Seq(V \X C) /\ Append(l, p[1]) \in Seq(V)
    OBVIOUS
<1>2. Len(l) = Len(r) /\ DOMAIN r = 1 .. Len(r) /\ DOMAIN l = 1 .. Len(r)
    OBVIOUS
<1>3. DOMAIN Append(r, p) = 1 .. Len(r) + 1 /\ DOMAIN Append(l, p[1]) = 1 .. Len(r) + 1
    BY <1>2
<1>4. \A i \in 1 .. Len(r) + 1 : Append(l, p[1])[i] = Append(r, p)[i][1]
    BY <1>2
<1>5. Append(l, p[1]) = [i \in DOMAIN Append(l, p[1]) |-> Append(l, p[1])[i]]
    BY <1>2
<1> QED
    BY <1>3, <1>4, <1>5

\* The write that is pending is the last that was taken.
LEMMA TakenIsLast ==
    ASSUME NEW S, NEW r \in Seq(S), NEW p \in S
    PROVE  Append(r \o <<>>, p) = r \o <<p>> /\ Append(r, p) = r \o <<p>>
OBVIOUS

\* A write is taken only when none is pending, so it is the next to be answered,
\* and an Ack answers it, whichever write the backup meant.
LEMMA BackupStep ==
    PrimaryBackupHost!IInv /\ [PrimaryBackupHost!Next]_(PrimaryBackupHost!vars)
        => PrimaryBackupHost!IInv'
<1> SUFFICES ASSUME PrimaryBackupHost!IInv, [PrimaryBackupHost!Next]_(PrimaryBackupHost!vars)
    PROVE PrimaryBackupHost!IInv'
    OBVIOUS
<1> USE DEF PrimaryBackupHost!IInv
<1>1. ASSUME UNCHANGED <<pb_log, pb_pending, pb_accepted, pb_replies>>
      PROVE PrimaryBackupHost!IInv'
    BY <1>1 DEF PrimaryBackupHost!AnsweredInOrder
<1>2. ASSUME NEW n \in PrimaryBackupHost!Nodes, NEW c \in BackupClients, NEW v \in BackupValues,
             PrimaryBackupHost!primary_handle_client_request(n, c, v)
      PROVE PrimaryBackupHost!IInv'
    <2> USE <1>2 DEF PrimaryBackupHost!primary_handle_client_request
    <2>1. /\ pb_accepted[n] = pb_replies[n] \o <<>>
          /\ pb_replies[n] \in Seq(BackupValues \X BackupClients)
        BY DEF PrimaryBackupHost!AnsweredInOrder
    <2>2. <<v, c>> # <<>> /\ <<v, c>> \in BackupValues \X BackupClients
        OBVIOUS
    <2>3. Append(pb_accepted[n], <<v, c>>) = pb_replies[n] \o <<<<v, c>>>>
        BY <2>1, <2>2, TakenIsLast
    <2>4. PrimaryBackupHost!AnsweredInOrder'
        BY <2>2, <2>3 DEF PrimaryBackupHost!AnsweredInOrder
    <2> QED
        BY <2>2, <2>4
<1>3. ASSUME NEW n \in PrimaryBackupHost!Nodes, PrimaryBackupHost!primary_receive_ack(n)
      PROVE PrimaryBackupHost!IInv'
    <2> USE <1>3 DEF PrimaryBackupHost!primary_receive_ack
    <2>1. pb_pending[n] \in BackupValues \X BackupClients
        OBVIOUS
    <2>2. pb_accepted[n] = Append(pb_replies[n], pb_pending[n])
        <3>1. /\ pb_accepted[n] = pb_replies[n] \o <<pb_pending[n]>>
              /\ pb_replies[n] \in Seq(BackupValues \X BackupClients)
            BY DEF PrimaryBackupHost!AnsweredInOrder
        <3> QED
            BY <2>1, <3>1, TakenIsLast
    <2>3. pb_log[n] = [i \in DOMAIN pb_replies[n] |-> pb_replies[n][i][1]]
        BY DEF PrimaryBackupHost!AnsweredInOrder
    <2>4. Append(pb_log[n], pb_pending[n][1])
             = [i \in DOMAIN Append(pb_replies[n], pb_pending[n]) |->
                   Append(pb_replies[n], pb_pending[n])[i][1]]
        BY <2>1, <2>3, ParallelAppend
    <2>5. ASSUME NEW k \in PrimaryBackupHost!Nodes
          PROVE /\ pb_accepted'[k]
                      = pb_replies'[k] \o IF pb_pending'[k] = <<>> THEN <<>> ELSE <<pb_pending'[k]>>
                /\ pb_log'[k] = [i \in DOMAIN pb_replies'[k] |-> pb_replies'[k][i][1]]
        <3>1. CASE k = n
            <4>1. pb_replies'[k] = Append(pb_replies[n], pb_pending[n]) /\ pb_pending'[k] = <<>>
                  /\ pb_accepted'[k] = pb_accepted[n] /\ pb_log'[k] = Append(pb_log[n], pb_pending[n][1])
                BY <3>1
            <4>2. pb_replies'[k] \o <<>> = pb_replies'[k]
                BY <4>1, <2>1
            <4> QED
                BY <4>1, <4>2, <2>2, <2>4
        <3>2. CASE k # n
            BY <3>2 DEF PrimaryBackupHost!AnsweredInOrder
        <3> QED
            BY <3>1, <3>2
    <2>6. PrimaryBackupHost!AnsweredInOrder'
        BY <2>5 DEF PrimaryBackupHost!AnsweredInOrder
    <2> QED
        BY <2>1, <2>6
<1>4. ASSUME NEW n \in PrimaryBackupHost!Nodes, PrimaryBackupHost!Deliver(n)
      PROVE PrimaryBackupHost!IInv'
    BY <1>1, <1>3, <1>4
    DEF PrimaryBackupHost!Deliver, PrimaryBackupHost!backup_receive_replicate
<1>5. CASE PrimaryBackupHost!Next
    BY <1>1, <1>2, <1>4, <1>5
    DEF PrimaryBackupHost!Next, PrimaryBackupHost!primary_try_send_replicate,
        PrimaryBackupHost!backup_try_send_ack, PrimaryBackupHost!backup_try_promote
<1> QED
    BY <1>1, <1>5 DEF PrimaryBackupHost!vars

-----------------------------------------------------------------------------
(***************************************************************************)
(* Leader election.                                                        *)
(***************************************************************************)
\* Nobody has declared itself at first.
LEMMA ElectionInit == LeaderElectionHost!Init => LeaderElectionHost!IInv
BY DEF LeaderElectionHost!Init, LeaderElectionHost!IInv, LeaderElectionHost!LeadersClaimed

\* A node declares itself while it waits, which after that it never does again;
\* the packets that name a leader come from one that has declared itself.
LEMMA ElectionStep ==
    LeaderElectionHost!IInv /\ [LeaderElectionHost!Next]_(LeaderElectionHost!vars)
        => LeaderElectionHost!IInv'
<1> SUFFICES ASSUME LeaderElectionHost!IInv, [LeaderElectionHost!Next]_(LeaderElectionHost!vars)
    PROVE LeaderElectionHost!IInv'
    OBVIOUS
<1> USE HostsAssumption DEF LeaderElectionHost!IInv, LeaderElectionHost!LeadersClaimed
<1>1. ASSUME UNCHANGED <<le_electing, le_waiting, le_leader, le_net, le_claims>>
      PROVE LeaderElectionHost!IInv'
    BY <1>1
<1>2. ASSUME NEW n \in LeaderElectionHost!Nodes, LeaderElectionHost!try_start_election(n)
      PROVE LeaderElectionHost!IInv'
    BY <1>2 DEF LeaderElectionHost!try_start_election, LeaderElectionHost!Election
<1>3. ASSUME NEW n \in LeaderElectionHost!Nodes, LeaderElectionHost!try_send_coordinator(n)
      PROVE LeaderElectionHost!IInv'
    BY <1>3 DEF LeaderElectionHost!try_send_coordinator, LeaderElectionHost!Coordinator
<1>4. ASSUME NEW n \in LeaderElectionHost!Nodes, NEW m \in le_net,
             LeaderElectionHost!handle_election(n, m)
      PROVE LeaderElectionHost!IInv'
    BY <1>4 DEF LeaderElectionHost!handle_election, LeaderElectionHost!Answer
<1>5. ASSUME NEW n \in LeaderElectionHost!Nodes, NEW m \in le_net,
             LeaderElectionHost!handle_answer(n, m)
      PROVE LeaderElectionHost!IInv'
    BY <1>5 DEF LeaderElectionHost!handle_answer
<1>6. ASSUME NEW n \in LeaderElectionHost!Nodes, NEW m \in le_net,
             LeaderElectionHost!handle_coordinator(n, m)
      PROVE LeaderElectionHost!IInv'
    BY <1>6 DEF LeaderElectionHost!handle_coordinator
<1>7. CASE LeaderElectionHost!Next
    BY <1>1, <1>2, <1>3, <1>4, <1>5, <1>6, <1>7
    DEF LeaderElectionHost!Next, LeaderElectionHost!timer_step, LeaderElectionHost!NothingToDo,
        LeaderElectionHost!Handle
<1> QED
    BY <1>1, <1>7 DEF LeaderElectionHost!vars

-----------------------------------------------------------------------------
(***************************************************************************)
(* Vertical Paxos.                                                         *)
(***************************************************************************)
\* What has been counted up to a quorum stays a quorum when there are more votes.
LEMMA VotersGrow ==
    ASSUME NEW S, NEW T, T \subseteq VerticalPaxosHost!Nodes, S \subseteq T
    PROVE  /\ Cardinality(S) \in Nat /\ Cardinality(T) \in Nat
           /\ Cardinality(S) <= Cardinality(T)
<1>1. IsFiniteSet(VerticalPaxosHost!Nodes)
    BY HostsAssumption, FS_Interval DEF VerticalPaxosHost!Nodes
<1>2. IsFiniteSet(T) /\ IsFiniteSet(S)
    BY <1>1, FS_Subset
<1> QED
    BY <1>2, FS_Subset, FS_CardinalityType

\* Nobody has voted at first.
LEMMA VerticalInit == VerticalPaxosHost!Init => VerticalPaxosHost!IInv
BY DEF VerticalPaxosHost!Init, VerticalPaxosHost!IInv, VerticalPaxosHost!CommittedByVoters

\* With more votes every node has at least the voters that it had.
LEMMA VotesGrow ==
    ASSUME VerticalPaxosHost!IInv, vp_votes \subseteq vp_votes',
           \A v \in vp_votes' : v.voter \in VerticalPaxosHost!Nodes,
           UNCHANGED vp_committed
    PROVE  /\ \A n : VerticalPaxosHost!Voters(n) \subseteq VerticalPaxosHost!Voters(n)'
           /\ VerticalPaxosHost!CommittedByVoters'
<1>1. ASSUME NEW n
      PROVE /\ VerticalPaxosHost!Voters(n) \subseteq VerticalPaxosHost!Voters(n)'
            /\ VerticalPaxosHost!Voters(n)' \subseteq VerticalPaxosHost!Nodes
    BY DEF VerticalPaxosHost!Voters
<1>2. VerticalPaxosHost!CommittedByVoters'
    <2> SUFFICES ASSUME NEW n \in VerticalPaxosHost!Nodes, vp_committed[n]
        PROVE Cardinality(VerticalPaxosHost!Voters(n)') >= VerticalPaxosHost!quorum_size
        BY SameCardinality DEF VerticalPaxosHost!CommittedByVoters, VerticalPaxosHost!quorum_size,
               VerticalPaxosHost!Nodes
    <2>1. Cardinality(VerticalPaxosHost!Voters(n)) >= VerticalPaxosHost!quorum_size
        BY SameCardinality DEF VerticalPaxosHost!IInv, VerticalPaxosHost!CommittedByVoters
    <2>2. VerticalPaxosHost!quorum_size \in Nat
        BY HostsAssumption DEF VerticalPaxosHost!quorum_size
    <2> QED
        BY <1>1, <2>1, <2>2, VotersGrow
<1> QED
    BY <1>1, <1>2

\* An AcceptOk is sent with the vote that it reports, a vote is never withdrawn,
\* and what is counted is what AcceptOks report.
LEMMA VerticalStep ==
    VerticalPaxosHost!IInv /\ [VerticalPaxosHost!Next]_(VerticalPaxosHost!vars)
        => VerticalPaxosHost!IInv'
<1> SUFFICES ASSUME VerticalPaxosHost!IInv, [VerticalPaxosHost!Next]_(VerticalPaxosHost!vars)
    PROVE VerticalPaxosHost!IInv'
    OBVIOUS
<1>1. ASSUME vp_votes \subseteq vp_votes',
             \A v \in vp_votes' : v.voter \in VerticalPaxosHost!Nodes,
             \A m \in vp_net' \ vp_net :
                m.type = "AcceptOk" => m.src \in VerticalPaxosHost!Voters(m.dst)',
             vp_accepts_rcvd' \in [VerticalPaxosHost!Nodes -> SUBSET VerticalPaxosHost!Nodes],
             \A n \in VerticalPaxosHost!Nodes :
                vp_accepts_rcvd'[n] \subseteq VerticalPaxosHost!Voters(n),
             UNCHANGED vp_committed
      PROVE  VerticalPaxosHost!IInv'
    <2>1. /\ \A n : VerticalPaxosHost!Voters(n) \subseteq VerticalPaxosHost!Voters(n)'
          /\ VerticalPaxosHost!CommittedByVoters'
        BY <1>1, VotesGrow
    <2>2. \A m \in vp_net' : m.type = "AcceptOk" => m.src \in VerticalPaxosHost!Voters(m.dst)'
        BY <1>1, <2>1 DEF VerticalPaxosHost!IInv
    <2> QED
        BY <1>1, <2>1, <2>2 DEF VerticalPaxosHost!IInv
<1>2. ASSUME UNCHANGED <<vp_votes, vp_accepts_rcvd, vp_committed>>,
             \A m \in vp_net' \ vp_net : m.type # "AcceptOk"
      PROVE  VerticalPaxosHost!IInv'
    BY <1>1, <1>2 DEF VerticalPaxosHost!IInv
<1>3. ASSUME NEW n \in VerticalPaxosHost!Nodes, NEW p, VerticalPaxosHost!Vote(n, p)
      PROVE  /\ vp_votes \subseteq vp_votes'
             /\ \A v \in vp_votes' : v.voter \in VerticalPaxosHost!Nodes
             /\ n # p => n \in VerticalPaxosHost!Voters(p)'
    <2> DEFINE v == [voter |-> n, config |-> vp_config_num[n], proposer |-> p]
    <2>1. vp_votes' = vp_votes \cup {v} /\ v.voter = n /\ v.proposer = p
        BY <1>3 DEF VerticalPaxosHost!Vote
    <2>2. n # p => n \in VerticalPaxosHost!Voters(p)'
        BY <2>1 DEF VerticalPaxosHost!Voters
    <2> QED
        BY <2>1, <2>2 DEF VerticalPaxosHost!IInv
<1>4. ASSUME NEW n \in VerticalPaxosHost!Nodes, NEW m \in vp_net,
             VerticalPaxosHost!handle_accept(n, m)
      PROVE  VerticalPaxosHost!IInv'
    <2>1. VerticalPaxosHost!Vote(n, m.src) /\ n # m.src
        BY <1>4 DEF VerticalPaxosHost!handle_accept
    <2> QED
        BY <1>1, <1>3, <1>4, <2>1
        DEF VerticalPaxosHost!handle_accept, VerticalPaxosHost!AcceptOk, VerticalPaxosHost!IInv
<1>5. ASSUME NEW n \in VerticalPaxosHost!Nodes, VerticalPaxosHost!try_accept(n)
      PROVE  VerticalPaxosHost!IInv'
    <2>1. CASE VerticalPaxosHost!Vote(n, n)
        BY <1>1, <1>3, <1>5, <2>1
        DEF VerticalPaxosHost!try_accept, VerticalPaxosHost!Accept, VerticalPaxosHost!IInv
    <2> QED
        BY <1>2, <1>5, <2>1 DEF VerticalPaxosHost!try_accept
<1>6. ASSUME NEW n \in VerticalPaxosHost!Nodes, NEW m \in vp_net,
             VerticalPaxosHost!handle_accept_ok(n, m)
      PROVE  VerticalPaxosHost!IInv'
    <2>1. m.src \in VerticalPaxosHost!Voters(n)
        BY <1>6 DEF VerticalPaxosHost!handle_accept_ok, VerticalPaxosHost!IInv
    <2>2. m.src \in VerticalPaxosHost!Nodes
        BY <2>1 DEF VerticalPaxosHost!Voters, VerticalPaxosHost!IInv
    <2> QED
        BY <1>1, <1>6, <2>1, <2>2 DEF VerticalPaxosHost!handle_accept_ok, VerticalPaxosHost!IInv
<1>7. ASSUME NEW n \in VerticalPaxosHost!Nodes, VerticalPaxosHost!try_commit(n)
      PROVE  VerticalPaxosHost!IInv'
    <2> USE <1>7 DEF VerticalPaxosHost!try_commit
    <2>1. vp_votes' = vp_votes /\ vp_net' = vp_net /\ vp_accepts_rcvd' = vp_accepts_rcvd
        OBVIOUS
    <2>2. vp_committed' \in [VerticalPaxosHost!Nodes -> BOOLEAN]
        BY Zenon DEF VerticalPaxosHost!IInv
    <2>3. \A k : VerticalPaxosHost!Voters(k)' = VerticalPaxosHost!Voters(k)
        BY <2>1 DEF VerticalPaxosHost!Voters
    <2>4. ASSUME NEW k \in VerticalPaxosHost!Nodes, vp_committed'[k]
          PROVE  Cardinality(VerticalPaxosHost!Voters(k)) >= VerticalPaxosHost!quorum_size
        <3>1. CASE vp_committed[k]
            BY <3>1, SameCardinality
            DEF VerticalPaxosHost!IInv, VerticalPaxosHost!CommittedByVoters
        <3>2. CASE ~vp_committed[k]
            <4>1. Cardinality(vp_accepts_rcvd[k]) >= VerticalPaxosHost!quorum_size
                BY <2>4, <3>2, SameCardinality, Zenon DEF VerticalPaxosHost!IInv
            <4>2. /\ vp_accepts_rcvd[k] \subseteq VerticalPaxosHost!Voters(k)
                  /\ VerticalPaxosHost!Voters(k) \subseteq VerticalPaxosHost!Nodes
                BY DEF VerticalPaxosHost!IInv, VerticalPaxosHost!Voters
            <4>3. VerticalPaxosHost!quorum_size \in Nat
                BY HostsAssumption DEF VerticalPaxosHost!quorum_size
            <4> QED
                BY <4>1, <4>2, <4>3, VotersGrow
        <3> QED
            BY <3>1, <3>2
    <2>5. VerticalPaxosHost!CommittedByVoters'
        BY <2>3, <2>4, SameCardinality
        DEF VerticalPaxosHost!CommittedByVoters, VerticalPaxosHost!Nodes,
            VerticalPaxosHost!quorum_size
    <2> QED
        BY <2>1, <2>2, <2>3, <2>5 DEF VerticalPaxosHost!IInv
<1>8. ASSUME NEW n \in VerticalPaxosHost!Nodes, VerticalPaxosHost!try_reconfigure(n)
      PROVE  VerticalPaxosHost!IInv'
    BY <1>1, <1>8 DEF VerticalPaxosHost!try_reconfigure, VerticalPaxosHost!IInv
<1>9. ASSUME NEW n \in VerticalPaxosHost!Nodes, VerticalPaxosHost!try_prepare(n)
      PROVE  VerticalPaxosHost!IInv'
    BY <1>2, <1>9 DEF VerticalPaxosHost!try_prepare, VerticalPaxosHost!Prepare
<1>10. ASSUME NEW n \in VerticalPaxosHost!Nodes, NEW m \in vp_net,
              VerticalPaxosHost!handle_prepare(n, m) \/ VerticalPaxosHost!handle_promise(n, m)
       PROVE  VerticalPaxosHost!IInv'
    BY <1>2, <1>10
    DEF VerticalPaxosHost!handle_prepare, VerticalPaxosHost!handle_promise,
        VerticalPaxosHost!Promise
<1>11. CASE VerticalPaxosHost!Next
    BY <1>4, <1>5, <1>6, <1>7, <1>8, <1>9, <1>10, <1>11
    DEF VerticalPaxosHost!Next, VerticalPaxosHost!Timer, VerticalPaxosHost!Handle
<1> QED
    BY <1>2, <1>11 DEF VerticalPaxosHost!vars

-----------------------------------------------------------------------------
(***************************************************************************)
(* Chain replication.                                                      *)
(***************************************************************************)
\* What a history contains, and what one more write does to it.
LEMMA HistoryValues ==
    ASSUME NEW s \in Seq(ChainValues), NEW v \in ChainValues
    PROVE  /\ \A w : ChainHost!Contains(s, w) <=> w \in ChainHost!ToSet(s)
           /\ ChainHost!ToSet(Append(s, v)) = ChainHost!ToSet(s) \cup {v}
           /\ s # <<>> => Head(s) \in ChainValues /\ Head(s) \in ChainHost!ToSet(s)
<1>1. DOMAIN s = 1 .. Len(s) /\ DOMAIN Append(s, v) = 1 .. Len(s) + 1 /\ Len(s) \in Nat
    OBVIOUS
<1>2. \A w : ChainHost!Contains(s, w) <=> w \in ChainHost!ToSet(s)
    BY <1>1 DEF ChainHost!Contains, ChainHost!ToSet
<1>3. ChainHost!ToSet(Append(s, v)) = ChainHost!ToSet(s) \cup {v}
    <2>1. /\ \A i \in 1 .. Len(s) : Append(s, v)[i] = s[i]
          /\ Append(s, v)[Len(s) + 1] = v
        OBVIOUS
    <2>2. 1 .. Len(s) + 1 = (1 .. Len(s)) \cup {Len(s) + 1}
        BY <1>1
    <2> QED
        BY <1>1, <2>1, <2>2 DEF ChainHost!ToSet
<1>4. s # <<>> => Head(s) \in ChainValues /\ Head(s) \in ChainHost!ToSet(s)
    <2>1. s # <<>> => 1 \in 1 .. Len(s) /\ Head(s) = s[1]
        OBVIOUS
    <2> QED
        BY <1>1, <2>1 DEF ChainHost!ToSet
<1> QED
    BY <1>2, <1>3, <1>4

\* The histories are empty at first.
LEMMA ChainInit == ChainHost!Init => ChainHost!IInv
<1> SUFFICES ASSUME ChainHost!Init PROVE ChainHost!IInv
    OBVIOUS
<1>1. \A n \in ChainHost!Nodes : ch_history[n] = <<>> /\ ch_pending_sent[n] = {}
    BY DEF ChainHost!Init
<1>2. ChainHost!ToSet(<<>>) = {}
    BY DEF ChainHost!ToSet
<1>3. ChainHost!TailNode \in ChainHost!Nodes
    BY HostsAssumption DEF ChainHost!Nodes, ChainHost!TailNode
<1> QED
    BY <1>1, <1>2, <1>3 DEF ChainHost!Init, ChainHost!IInv, ChainHost!AckedDownstream

\* A step that takes nothing out of the histories, after which no node but the head
\* waits for what it did not wait for before unless it is new to it, keeps the
\* invariant, if the commits, the packets and the waits that it ends agree with it.
LEMMA ChainGrows ==
    ASSUME ChainHost!IInv,
           ch_history' \in [ChainHost!Nodes -> Seq(ChainValues)],
           ch_pending_sent' \in [ChainHost!Nodes -> SUBSET ChainValues],
           ch_pending_sent'[ChainHost!TailNode] = {},
           \A n \in ChainHost!Nodes :
              /\ ChainHost!ToSet(ch_history[n]) \subseteq ChainHost!ToSet(ch_history'[n])
              /\ ch_pending_sent'[n] \subseteq ChainHost!ToSet(ch_history'[n]),
           \A n \in ChainHost!Nodes \ {0} :
              ch_pending_sent'[n] \cap ChainHost!ToSet(ch_history[n]) \subseteq ch_pending_sent[n],
           /\ ch_committed_count' \in Nat
           /\ ch_committed_count > 0 =>
                 ch_committed_count' > 0 /\ ch_obj_value' = ch_obj_value
           /\ ch_committed_count' > 0 =>
                 /\ ch_history'[ChainHost!TailNode] # <<>>
                 /\ ch_obj_value' = Head(ch_history'[ChainHost!TailNode]),
           \A n \in ChainHost!Nodes \ {ChainHost!TailNode} :
              \A v \in ChainHost!ToSet(ch_history'[n]) \ ch_pending_sent'[n] :
                 \/ v \in ChainHost!ToSet(ch_history[n]) \ ch_pending_sent[n]
                 \/ ChainHost!CommittedAfter(n, v),
           \A m \in ch_net' \ ch_net :
              /\ m.dst \in ChainHost!Nodes /\ m.value \in ChainValues
              /\ m.type = "Ack" => ChainHost!CommittedAfter(m.dst, m.value)'
    PROVE  ChainHost!IInv'
<1>1. \A n \in ChainHost!Nodes : \A k \in n + 1 .. ChainHost!TailNode :
         k \in ChainHost!Nodes \ {0}
    BY HostsAssumption DEF ChainHost!Nodes, ChainHost!TailNode
<1>2. ASSUME NEW n \in ChainHost!Nodes, NEW v, ChainHost!CommittedAfter(n, v)
      PROVE  ChainHost!CommittedAfter(n, v)'
    <2>1. ASSUME NEW k \in n + 1 .. ChainHost!TailNode
          PROVE  v \in ChainHost!ToSet(ch_history'[k]) \ ch_pending_sent'[k]
        BY <1>1, <1>2, <2>1 DEF ChainHost!CommittedAfter
    <2>2. ch_committed_count' > 0 /\ ch_obj_value' = v
        BY <1>2 DEF ChainHost!CommittedAfter
    <2> QED
        BY <2>1, <2>2 DEF ChainHost!CommittedAfter, ChainHost!ToSet, ChainHost!TailNode
<1>3. ASSUME NEW m \in ch_net'
      PROVE  /\ m.dst \in ChainHost!Nodes /\ m.value \in ChainValues
             /\ m.type = "Ack" => ChainHost!CommittedAfter(m.dst, m.value)'
    BY <1>2 DEF ChainHost!IInv
<1>4. ASSUME NEW n \in ChainHost!Nodes \ {ChainHost!TailNode},
             NEW v \in ChainHost!ToSet(ch_history'[n]) \ ch_pending_sent'[n]
      PROVE  ChainHost!CommittedAfter(n, v)'
    BY <1>2 DEF ChainHost!IInv, ChainHost!AckedDownstream
<1>5. ChainHost!AckedDownstream'
    BY <1>4 DEF ChainHost!AckedDownstream, ChainHost!Nodes, ChainHost!TailNode, ChainHost!ToSet
<1> QED
    BY <1>3, <1>5 DEF ChainHost!IInv, ChainHost!Nodes, ChainHost!TailNode, ChainHost!ToSet

\* A node waits for what it takes in, and takes it in once; what it stops waiting for,
\* the node that acknowledged it, and so all after that one, wait for no longer.
LEMMA ChainStep == ChainHost!IInv /\ [ChainHost!Next]_(ChainHost!vars) => ChainHost!IInv'
<1> SUFFICES ASSUME ChainHost!IInv, [ChainHost!Next]_(ChainHost!vars) PROVE ChainHost!IInv'
    OBVIOUS
<1>1. /\ 0 \in ChainHost!Nodes /\ ChainHost!TailNode \in ChainHost!Nodes
      /\ ChainHost!TailNode # 0
    BY HostsAssumption DEF ChainHost!Nodes, ChainHost!TailNode
<1>2. \A n \in ChainHost!Nodes : n \in 0 .. ChainHost!TailNode
    BY HostsAssumption DEF ChainHost!Nodes, ChainHost!TailNode
<1>3. ASSUME NEW n \in ChainHost!Nodes, NEW v \in ChainValues,
             n # 0 => v \notin ChainHost!ToSet(ch_history[n]),
             ch_history' = [ch_history EXCEPT ![n] = Append(@, v)],
             ch_pending_sent'
                = [ch_pending_sent EXCEPT
                      ![n] = IF n = ChainHost!TailNode THEN @ ELSE @ \cup {v}],
             UNCHANGED <<ch_net, ch_committed_count, ch_obj_value>>
      PROVE  ChainHost!IInv'
    <2>1. ch_history[n] \in Seq(ChainValues)
        BY DEF ChainHost!IInv
    <2>2. ChainHost!ToSet(Append(ch_history[n], v)) = ChainHost!ToSet(ch_history[n]) \cup {v}
        BY <2>1, HistoryValues
    <2>3. ch_history' \in [ChainHost!Nodes -> Seq(ChainValues)]
        BY <1>3, <2>1 DEF ChainHost!IInv
    <2>4. /\ ch_pending_sent' \in [ChainHost!Nodes -> SUBSET ChainValues]
          /\ ch_pending_sent'[ChainHost!TailNode] = {}
        BY <1>1, <1>3 DEF ChainHost!IInv
    <2>5. \A k \in ChainHost!Nodes :
             ChainHost!ToSet(ch_history'[k])
                = ChainHost!ToSet(ch_history[k]) \cup (IF k = n THEN {v} ELSE {})
        BY <1>3, <2>2 DEF ChainHost!IInv
    <2>6. \A k \in ChainHost!Nodes :
             /\ ch_pending_sent[k] \subseteq ch_pending_sent'[k]
             /\ ch_pending_sent'[k] \subseteq ch_pending_sent[k] \cup (IF k = n THEN {v} ELSE {})
             /\ k = n /\ k # ChainHost!TailNode => v \in ch_pending_sent'[k]
        BY <1>3 DEF ChainHost!IInv
    <2>7. ASSUME ch_committed_count' > 0
          PROVE  /\ ch_history'[ChainHost!TailNode] # <<>>
                 /\ ch_obj_value' = Head(ch_history'[ChainHost!TailNode])
        <3> DEFINE s == ch_history[ChainHost!TailNode]
        <3>1. s \in Seq(ChainValues) /\ s # <<>> /\ ch_obj_value = Head(s)
            BY <1>1, <1>3, <2>7 DEF ChainHost!IInv
        <3>2. ch_history'[ChainHost!TailNode] = s \/ ch_history'[ChainHost!TailNode] = Append(s, v)
            BY <1>1, <1>3 DEF ChainHost!IInv
        <3>3. Append(s, v) # <<>> /\ Head(Append(s, v)) = Head(s)
            BY <3>1
        <3> QED
            BY <1>3, <3>1, <3>2, <3>3
    <2>8. \A k \in ChainHost!Nodes \ {0} :
             ch_pending_sent'[k] \cap ChainHost!ToSet(ch_history[k]) \subseteq ch_pending_sent[k]
        BY <1>3, <2>6
    <2>9. \A k \in ChainHost!Nodes :
             /\ ChainHost!ToSet(ch_history[k]) \subseteq ChainHost!ToSet(ch_history'[k])
             /\ ch_pending_sent'[k] \subseteq ChainHost!ToSet(ch_history'[k])
        BY <2>5, <2>6 DEF ChainHost!IInv
    <2>10. \A k \in ChainHost!Nodes \ {ChainHost!TailNode} :
              ChainHost!ToSet(ch_history'[k]) \ ch_pending_sent'[k]
                 \subseteq ChainHost!ToSet(ch_history[k]) \ ch_pending_sent[k]
        BY <2>5, <2>6
    <2>11. ch_committed_count \in Nat
        BY DEF ChainHost!IInv
    <2> QED
        BY <1>3, <2>3, <2>4, <2>7, <2>8, <2>9, <2>10, <2>11, ChainGrows
<1>4. ASSUME NEW v \in ChainValues, ChainHost!head_receive_write(v)
      PROVE  ChainHost!IInv'
    BY <1>1, <1>3, <1>4 DEF ChainHost!head_receive_write
<1>5. ASSUME NEW n \in ChainHost!Nodes, NEW v \in ChainValues, ChainHost!receive_update(n, v)
      PROVE  ChainHost!IInv'
    <2>1. v \notin ChainHost!ToSet(ch_history[n])
        BY <1>5, HistoryValues DEF ChainHost!IInv, ChainHost!receive_update
    <2> QED
        BY <1>3, <1>5, <2>1 DEF ChainHost!receive_update
<1>6. ASSUME UNCHANGED <<ch_history, ch_pending_sent>>,
             /\ ch_committed_count' \in Nat
             /\ ch_committed_count > 0 =>
                   ch_committed_count' > 0 /\ ch_obj_value' = ch_obj_value
             /\ ch_committed_count' > 0 =>
                   /\ ch_history[ChainHost!TailNode] # <<>>
                   /\ ch_obj_value' = Head(ch_history[ChainHost!TailNode]),
             \A m \in ch_net' \ ch_net :
                /\ m.dst \in ChainHost!Nodes /\ m.value \in ChainValues
                /\ m.type = "Ack" => ChainHost!CommittedAfter(m.dst, m.value)'
      PROVE  ChainHost!IInv'
    BY <1>6, ChainGrows DEF ChainHost!IInv
<1>7. ASSUME NEW n \in ChainHost!Nodes, ChainHost!try_forward_to_successor(n)
      PROVE  ChainHost!IInv'
    <2>1. PICK v \in ch_pending_sent[n] : ch_net' = ch_net \cup {ChainHost!Forward(n, v)}
        BY <1>7 DEF ChainHost!try_forward_to_successor
    <2>2. v \in ChainValues
        BY DEF ChainHost!IInv
    <2>3. /\ ChainHost!Forward(n, v).dst = n + 1 /\ ChainHost!Forward(n, v).value = v
          /\ ChainHost!Forward(n, v).type # "Ack"
        BY DEF ChainHost!Forward
    <2>4. n + 1 \in ChainHost!Nodes
        BY <1>2, <1>7, HostsAssumption
        DEF ChainHost!try_forward_to_successor, ChainHost!Nodes, ChainHost!TailNode
    <2>5. UNCHANGED <<ch_history, ch_pending_sent, ch_committed_count, ch_obj_value>>
        BY <1>7 DEF ChainHost!try_forward_to_successor
    <2>6. /\ ch_committed_count \in Nat
          /\ ch_committed_count > 0 =>
                /\ ch_history[ChainHost!TailNode] # <<>>
                /\ ch_obj_value = Head(ch_history[ChainHost!TailNode])
        BY DEF ChainHost!IInv
    <2> QED
        BY <1>6, <2>1, <2>2, <2>3, <2>4, <2>5, <2>6
<1>8. CASE ChainHost!try_tail_commit
    <2>0. PICK v : v = Head(ch_history[ChainHost!TailNode])
        OBVIOUS
    <2>1. v \in ChainValues /\ v \in ChainHost!ToSet(ch_history[ChainHost!TailNode])
        BY <1>1, <1>8, <2>0, HistoryValues DEF ChainHost!IInv, ChainHost!try_tail_commit
    <2>2. /\ ChainHost!Ack(ChainHost!TailNode, v).dst = ChainHost!TailNode - 1
          /\ ChainHost!Ack(ChainHost!TailNode, v).value = v
        BY DEF ChainHost!Ack
    <2>3. /\ ChainHost!TailNode - 1 \in ChainHost!Nodes
          /\ \A k \in ChainHost!TailNode - 1 + 1 .. ChainHost!TailNode : k = ChainHost!TailNode
        BY HostsAssumption DEF ChainHost!TailNode, ChainHost!Nodes
    <2>4. /\ ch_net' = ch_net \cup {ChainHost!Ack(ChainHost!TailNode, v)}
          /\ ch_committed_count' = ch_committed_count + 1 /\ ch_obj_value' = v
          /\ ch_history[ChainHost!TailNode] # <<>>
          /\ UNCHANGED <<ch_history, ch_pending_sent>>
        BY <1>8, <2>0 DEF ChainHost!try_tail_commit
    <2>5. ch_committed_count' \in Nat /\ ch_committed_count' > 0
        BY <2>4 DEF ChainHost!IInv
    <2>6. ch_committed_count > 0 => ch_obj_value' = ch_obj_value
        BY <2>0, <2>4 DEF ChainHost!IInv
    <2>7. v \in ChainHost!ToSet(ch_history'[ChainHost!TailNode])
                  \ ch_pending_sent'[ChainHost!TailNode]
        BY <2>1, <2>4 DEF ChainHost!IInv
    <2>8. ChainHost!CommittedAfter(ChainHost!TailNode - 1, v)'
        BY <2>3, <2>4, <2>5, <2>7
        DEF ChainHost!CommittedAfter, ChainHost!ToSet, ChainHost!TailNode
    <2>9. \A m \in ch_net' \ ch_net : m = ChainHost!Ack(ChainHost!TailNode, v)
        BY <2>4
    <2>10. \A m \in ch_net' \ ch_net :
              /\ m.dst \in ChainHost!Nodes /\ m.value \in ChainValues
              /\ m.type = "Ack" => ChainHost!CommittedAfter(m.dst, m.value)'
        BY <2>1, <2>2, <2>3, <2>8, <2>9
    <2> QED
        BY <1>6, <2>0, <2>4, <2>5, <2>6, <2>10
<1>9. ASSUME NEW m \in ch_net, m.type = "Ack", m.dst \in ChainHost!Nodes,
             ChainHost!receive_ack(m.dst, m.value)
      PROVE  ChainHost!IInv'
    <2> DEFINE n == m.dst
    <2> DEFINE v == m.value
    <2>1. /\ v \in ChainValues /\ v \in ChainHost!ToSet(ch_history[n])
          /\ ChainHost!CommittedAfter(n, v)
          /\ n # ChainHost!TailNode
        BY <1>9 DEF ChainHost!IInv, ChainHost!receive_ack
    <2>2. /\ ch_history' = ch_history
          /\ ch_pending_sent' = [ch_pending_sent EXCEPT ![n] = @ \ {v}]
          /\ ch_net' = IF n = 0 THEN ch_net ELSE ch_net \cup {ChainHost!Ack(n, v)}
          /\ UNCHANGED <<ch_committed_count, ch_obj_value>>
        BY <1>9 DEF ChainHost!receive_ack
    <2>3. ChainHost!Ack(n, v).dst = n - 1 /\ ChainHost!Ack(n, v).value = v
        BY DEF ChainHost!Ack
    <2>4. n # 0 =>
          /\ n - 1 \in ChainHost!Nodes
          /\ \A k \in n - 1 + 1 .. ChainHost!TailNode : k = n \/ k \in n + 1 .. ChainHost!TailNode
        BY <1>2, <1>9, HostsAssumption DEF ChainHost!TailNode, ChainHost!Nodes
    <2>5. \A k \in ChainHost!Nodes :
             /\ ch_pending_sent'[k] \subseteq ch_pending_sent[k]
             /\ ch_pending_sent[k] \ ch_pending_sent'[k] \subseteq (IF k = n THEN {v} ELSE {})
             /\ k = n => v \notin ch_pending_sent'[k]
        BY <2>2 DEF ChainHost!IInv
    <2>6. ch_pending_sent' \in [ChainHost!Nodes -> SUBSET ChainValues]
        BY <2>2 DEF ChainHost!IInv
    <2>7. \A k \in n + 1 .. ChainHost!TailNode : k \in ChainHost!Nodes
        BY <1>2, <1>9, HostsAssumption DEF ChainHost!TailNode, ChainHost!Nodes
    <2>8. n # 0 => ChainHost!CommittedAfter(n - 1, v)'
        <3>1. n # 0 => \A k \in n - 1 + 1 .. ChainHost!TailNode :
                          v \in ChainHost!ToSet(ch_history'[k]) \ ch_pending_sent'[k]
            BY <1>9, <2>1, <2>2, <2>4, <2>5, <2>7 DEF ChainHost!CommittedAfter
        <3>2. ch_committed_count' > 0 /\ ch_obj_value' = v
            BY <2>1, <2>2 DEF ChainHost!CommittedAfter
        <3> QED
            BY <3>1, <3>2 DEF ChainHost!CommittedAfter, ChainHost!ToSet, ChainHost!TailNode
    <2>9. \A p \in ch_net' \ ch_net : n # 0 /\ p = ChainHost!Ack(n, v)
        BY <2>2
    <2>10. \A p \in ch_net' \ ch_net :
              /\ p.dst \in ChainHost!Nodes /\ p.value \in ChainValues
              /\ p.type = "Ack" => ChainHost!CommittedAfter(p.dst, p.value)'
        BY <2>1, <2>3, <2>4, <2>8, <2>9
    <2>11. ch_pending_sent'[ChainHost!TailNode] = {}
        BY <1>1, <2>5 DEF ChainHost!IInv
    <2>12. \A k \in ChainHost!Nodes \ {ChainHost!TailNode} :
              \A w \in ChainHost!ToSet(ch_history'[k]) \ ch_pending_sent'[k] :
                 \/ w \in ChainHost!ToSet(ch_history[k]) \ ch_pending_sent[k]
                 \/ ChainHost!CommittedAfter(k, w)
        BY <2>1, <2>2, <2>5
    <2>13. /\ ch_committed_count \in Nat
           /\ ch_committed_count > 0 =>
                 /\ ch_history[ChainHost!TailNode] # <<>>
                 /\ ch_obj_value = Head(ch_history[ChainHost!TailNode])
           /\ \A k \in ChainHost!Nodes : ch_pending_sent[k] \subseteq ChainHost!ToSet(ch_history[k])
           /\ ch_history \in [ChainHost!Nodes -> Seq(ChainValues)]
        BY DEF ChainHost!IInv
    <2> QED
        BY <2>2, <2>5, <2>6, <2>10, <2>11, <2>12, <2>13, ChainGrows
<1>10. ASSUME NEW n \in ChainHost!Nodes, ChainHost!Deliver(n)
       PROVE  ChainHost!IInv'
    <2>1. PICK m \in ch_net :
             /\ m.dst = n
             /\ \/ m.type = "Forward" /\ ChainHost!receive_update(n, m.value)
                \/ m.type = "Ack" /\ ChainHost!receive_ack(n, m.value)
        BY <1>10 DEF ChainHost!Deliver
    <2>2. m.value \in ChainValues
        BY DEF ChainHost!IInv
    <2> QED
        BY <1>5, <1>9, <2>1, <2>2
<1>11. CASE ChainHost!Next
    BY <1>4, <1>7, <1>8, <1>10, <1>11 DEF ChainHost!Next
<1>12. CASE UNCHANGED ChainHost!vars
    BY <1>6, <1>12 DEF ChainHost!vars, ChainHost!IInv
<1> QED
    BY <1>11, <1>12

-----------------------------------------------------------------------------
(***************************************************************************)
(* Single-decree Paxos.                                                    *)
(***************************************************************************)
\* Two quorums have a node in common.
LEMMA PaxosQuorumsMeet ==
    ASSUME NEW P, NEW Q, P \subseteq PaxosHost!Nodes, Q \subseteq PaxosHost!Nodes,
           Cardinality(P) >= PaxosHost!quorum_size, Cardinality(Q) >= PaxosHost!quorum_size
    PROVE  \E p : p \in P /\ p \in Q
<1>1. IsFiniteSet(PaxosHost!Nodes) /\ Cardinality(PaxosHost!Nodes) = PaxosNodes
    BY HostsAssumption, FS_Interval DEF PaxosHost!Nodes
<1>2. IsFiniteSet(P) /\ IsFiniteSet(Q) /\ IsFiniteSet(P \cup Q) /\ IsFiniteSet(P \cap Q)
    BY <1>1, FS_Subset, FS_Union, FS_Intersection
<1>3. Cardinality(P \cup Q) <= PaxosNodes
    BY <1>1, FS_Subset
<1>4. Cardinality(P \cup Q) = Cardinality(P) + Cardinality(Q) - Cardinality(P \cap Q)
    BY <1>2, FS_Union
<1>5. /\ Cardinality(P) \in Nat /\ Cardinality(Q) \in Nat
      /\ Cardinality(P \cup Q) \in Nat /\ Cardinality(P \cap Q) \in Nat
    BY <1>2, FS_CardinalityType
<1>6. Cardinality(P \cap Q) # 0
    BY <1>3, <1>4, <1>5, HostsAssumption DEF PaxosHost!quorum_size
<1> QED
    BY <1>2, <1>6, FS_EmptySet

\* A node's ballot is a number.
LEMMA PaxosBallots == \A n \in PaxosHost!Nodes : PaxosHost!next_ballot(n) \in Nat
BY HostsAssumption DEF PaxosHost!Nodes, PaxosHost!next_ballot

\* Nobody has a ballot at first.
LEMMA PaxosInit == PaxosHost!Init => PaxosHost!IInv
BY DEF PaxosHost!Init, PaxosHost!IInv, PaxosHost!ProposerInv

\* A node in both quorums accepted the chosen ballot and told the later proposer.
LEMMA PaxosKnows == PaxosHost!IInv => PaxosHost!LaterProposersKnow
<1> SUFFICES ASSUME PaxosHost!IInv,
                    NEW b \in PaxosHost!Chosen, NEW n \in PaxosHost!Nodes,
                    px_phase[n] \in {"Phase2", "Decided"}, px_proposer_bal[n] > b
    PROVE px_highest_accepted_bal[n] >= b
    BY DEF PaxosHost!LaterProposersKnow
<1> DEFINE Q == {m.src : m \in {a \in px_net : a.type = "Accepted" /\ a.ballot = b}}
<1>1. Cardinality(Q) >= PaxosHost!quorum_size
    BY SameCardinality DEF PaxosHost!Chosen
<1>2. Q \subseteq PaxosHost!Nodes
    BY DEF PaxosHost!IInv, PaxosHost!PacketInv
<1>3. /\ Cardinality(px_promises_rcvd[n]) >= PaxosHost!quorum_size
      /\ px_promises_rcvd[n] \subseteq PaxosHost!Nodes
      /\ px_proposer_bal[n] = PaxosHost!next_ballot(n)
    BY SameCardinality DEF PaxosHost!IInv, PaxosHost!ProposerInv
<1> HIDE DEF Q
<1>4. PICK p : p \in Q /\ p \in px_promises_rcvd[n]
    BY <1>1, <1>2, <1>3, PaxosQuorumsMeet
<1>5. PICK a \in px_net : a.type = "Accepted" /\ a.ballot = b /\ a.src = p
    BY <1>4 DEF Q
<1>6. PICK m \in px_net : /\ m.type = "Promise" /\ m.src = p /\ m.dst = n
                          /\ m.accepted_bal <= px_highest_accepted_bal[n]
    BY <1>4 DEF PaxosHost!IInv, PaxosHost!ProposerInv
<1>7. m.ballot = PaxosHost!next_ballot(n) /\ m.accepted_bal \in Nat
    BY <1>6 DEF PaxosHost!IInv, PaxosHost!PacketInv
<1>8. a.ballot \in Nat /\ PaxosHost!next_ballot(n) \in Nat
    BY <1>5, PaxosBallots DEF PaxosHost!IInv, PaxosHost!PacketInv
<1>9. a.ballot <= m.accepted_bal
    BY <1>3, <1>5, <1>6, <1>7, <1>8 DEF PaxosHost!IInv, PaxosHost!PacketInv
<1> QED
    BY <1>5, <1>6, <1>7, <1>8, <1>9 DEF PaxosHost!IInv

\* A step that raises ballots only, and accepts none below what was promised,
\* keeps the invariant of the acceptors and of the packets.
LEMMA PaxosGrows ==
    ASSUME PaxosHost!IInv,
           px_promised_bal' \in [PaxosHost!Nodes -> Nat],
           px_accepted_bal' \in [PaxosHost!Nodes -> Nat],
           \A n \in PaxosHost!Nodes :
              /\ px_promised_bal[n] <= px_promised_bal'[n]
              /\ px_accepted_bal[n] <= px_accepted_bal'[n]
              /\ px_accepted_bal'[n] <= px_promised_bal'[n],
           px_net \subseteq px_net',
           \A m \in px_net' \ px_net :
              /\ PaxosHost!PacketInv(m)'
              /\ m.type = "Accepted" => px_promised_bal[m.src] <= m.ballot,
           px_phase' \in [PaxosHost!Nodes -> {"Idle", "Phase1", "Phase2", "Decided"}],
           px_proposer_bal' \in [PaxosHost!Nodes -> Nat],
           px_promises_rcvd' \in [PaxosHost!Nodes -> SUBSET PaxosHost!Nodes],
           px_highest_accepted_bal' \in [PaxosHost!Nodes -> Nat],
           \A n \in PaxosHost!Nodes : PaxosHost!ProposerInv(n)'
    PROVE  PaxosHost!IInv'
<1>1. ASSUME NEW m \in px_net PROVE PaxosHost!PacketInv(m)'
    <2>1. PaxosHost!PacketInv(m)
        BY DEF PaxosHost!IInv
    <2>2. m.type \in {"Promise", "Accepted"} => m.ballot \in Nat
        BY <2>1, PaxosBallots DEF PaxosHost!PacketInv
    <2>3. /\ px_promised_bal[m.src] \in Nat /\ px_promised_bal'[m.src] \in Nat
          /\ px_accepted_bal[m.src] \in Nat /\ px_accepted_bal'[m.src] \in Nat
          /\ px_promised_bal[m.src] <= px_promised_bal'[m.src]
          /\ px_accepted_bal[m.src] <= px_accepted_bal'[m.src]
        BY <2>1 DEF PaxosHost!PacketInv, PaxosHost!IInv
    <2>4. ASSUME m.type = "Promise",
                 NEW a \in px_net', a.type = "Accepted", a.src = m.src, a.ballot < m.ballot
          PROVE  a.ballot <= m.accepted_bal
        <3>1. CASE a \in px_net
            BY <2>1, <2>4, <3>1 DEF PaxosHost!PacketInv
        <3>2. CASE a \notin px_net
            <4>1. PaxosHost!PacketInv(a)' /\ px_promised_bal[a.src] <= a.ballot
                BY <2>4, <3>2
            <4>2. a.ballot \in Nat
                BY <2>4, <4>1, PaxosBallots
                DEF PaxosHost!PacketInv, PaxosHost!Nodes, PaxosHost!next_ballot
            <4>3. m.ballot <= px_promised_bal[m.src]
                BY <2>1, <2>4 DEF PaxosHost!PacketInv
            <4> QED
                BY <2>2, <2>3, <2>4, <4>1, <4>2, <4>3
        <3> QED
            BY <3>1, <3>2
    <2> QED
        BY <2>1, <2>2, <2>3, <2>4
        DEF PaxosHost!PacketInv, PaxosHost!Nodes, PaxosHost!next_ballot
<1>2. \A m \in px_net' : PaxosHost!PacketInv(m)'
    BY <1>1
<1> QED
    BY <1>2 DEF PaxosHost!IInv, PaxosHost!Nodes

\* Packets are never lost from net, so the promises that a node has counted are
\* still there.
LEMMA ProposerKept ==
    ASSUME PaxosHost!IInv, px_net \subseteq px_net',
           NEW n \in PaxosHost!Nodes,
           px_phase'[n] = px_phase[n], px_proposer_bal'[n] = px_proposer_bal[n],
           px_promises_rcvd'[n] = px_promises_rcvd[n],
           px_highest_accepted_bal'[n] = px_highest_accepted_bal[n]
    PROVE  PaxosHost!ProposerInv(n)'
BY SameCardinality DEF PaxosHost!IInv, PaxosHost!ProposerInv, PaxosHost!next_ballot,
                       PaxosHost!quorum_size

\* The steps of the acceptor: a promise carries all that was accepted before it,
\* and an acceptance is of no ballot below the promise.
LEMMA PaxosAcceptorStep ==
    ASSUME PaxosHost!IInv, NEW n \in PaxosHost!Nodes, NEW m \in px_net,
           PaxosHost!handle_prepare(n, m) \/ PaxosHost!handle_accept(n, m)
    PROVE  PaxosHost!IInv'
<1> DEFINE b == PaxosHost!next_ballot(m.src)
<1>1. PaxosHost!PacketInv(m)
    BY DEF PaxosHost!IInv
<1>2. m.src \in PaxosHost!Nodes /\ m.ballot = b /\ b \in Nat
    BY <1>1, PaxosBallots
    DEF PaxosHost!PacketInv, PaxosHost!handle_prepare, PaxosHost!handle_accept
<1> HIDE DEF b
<1>3. UNCHANGED PaxosHost!proposer_vars /\ px_net \subseteq px_net'
    BY DEF PaxosHost!handle_prepare, PaxosHost!handle_accept
<1>4. \A k \in PaxosHost!Nodes : PaxosHost!ProposerInv(k)'
    BY <1>3, ProposerKept DEF PaxosHost!proposer_vars
<1>5. CASE PaxosHost!handle_prepare(n, m)
    <2>0. PICK q : q = PaxosHost!Promise(n, m.src, b)
        OBVIOUS
    <2>1. /\ q.type = "Promise" /\ q.src = n /\ q.dst = m.src /\ q.ballot = b
          /\ q.accepted_bal = px_accepted_bal[n]
        BY <2>0 DEF PaxosHost!Promise
    <2>2. /\ px_net' = px_net \cup {q} /\ b >= px_promised_bal[n]
          /\ px_promised_bal' = [px_promised_bal EXCEPT ![n] = b]
          /\ px_accepted_bal' = px_accepted_bal
        BY <1>2, <1>5, <2>0 DEF PaxosHost!handle_prepare
    <2>3. \A k \in PaxosHost!Nodes :
             /\ px_promised_bal[k] <= px_promised_bal'[k]
             /\ px_accepted_bal[k] <= px_accepted_bal'[k]
             /\ px_accepted_bal'[k] <= px_promised_bal'[k]
        BY <1>2, <2>2 DEF PaxosHost!IInv
    <2>4. \A a \in px_net' : a.type = "Accepted" /\ a.src = n => a.ballot <= px_accepted_bal[n]
        BY <2>1, <2>2 DEF PaxosHost!IInv, PaxosHost!PacketInv
    <2>5. px_promised_bal'[n] = b /\ px_accepted_bal[n] \in Nat
        BY <2>2 DEF PaxosHost!IInv
    <2>6. PaxosHost!PacketInv(q)'
        <3>1. b = PaxosHost!next_ballot(m.src)
            BY DEF b
        <3> QED
            BY <1>2, <2>1, <2>4, <2>5, <3>1
            DEF PaxosHost!PacketInv, PaxosHost!Nodes, PaxosHost!next_ballot
    <2>7. \A p \in px_net' \ px_net :
              /\ PaxosHost!PacketInv(p)'
              /\ p.type = "Accepted" => px_promised_bal[p.src] <= p.ballot
        BY <2>1, <2>2, <2>6
    <2>8. /\ px_promised_bal' \in [PaxosHost!Nodes -> Nat]
          /\ px_accepted_bal' \in [PaxosHost!Nodes -> Nat]
        BY <1>2, <2>2 DEF PaxosHost!IInv
    <2> QED
        BY <1>3, <1>4, <2>3, <2>7, <2>8, PaxosGrows DEF PaxosHost!IInv, PaxosHost!proposer_vars
<1>6. CASE PaxosHost!handle_accept(n, m)
    <2> DEFINE q == PaxosHost!Accepted(n, m.src, b)
    <2>1. q.type = "Accepted" /\ q.src = n /\ q.dst = m.src /\ q.ballot = b
        BY DEF PaxosHost!Accepted
    <2>2. /\ px_net' = px_net \cup {q} /\ b >= px_promised_bal[n]
          /\ px_promised_bal' = [px_promised_bal EXCEPT ![n] = b]
          /\ px_accepted_bal' = [px_accepted_bal EXCEPT ![n] = b]
        BY <1>2, <1>6 DEF PaxosHost!handle_accept
    <2> HIDE DEF q
    <2>3. \A k \in PaxosHost!Nodes :
             /\ px_promised_bal[k] <= px_promised_bal'[k]
             /\ px_accepted_bal[k] <= px_accepted_bal'[k]
             /\ px_accepted_bal'[k] <= px_promised_bal'[k]
        BY <1>2, <2>2 DEF PaxosHost!IInv
    <2>4. px_accepted_bal'[n] = b
        BY <2>2 DEF PaxosHost!IInv
    <2>5. PaxosHost!PacketInv(q)'
        <3>1. b = PaxosHost!next_ballot(m.src)
            BY DEF b
        <3> QED
            BY <1>2, <2>1, <2>4, <3>1
            DEF PaxosHost!PacketInv, PaxosHost!Nodes, PaxosHost!next_ballot
    <2>6. \A p \in px_net' \ px_net :
              /\ PaxosHost!PacketInv(p)'
              /\ p.type = "Accepted" => px_promised_bal[p.src] <= p.ballot
        BY <1>2, <2>1, <2>2, <2>5
    <2>7. /\ px_promised_bal' \in [PaxosHost!Nodes -> Nat]
          /\ px_accepted_bal' \in [PaxosHost!Nodes -> Nat]
        BY <1>2, <2>2 DEF PaxosHost!IInv
    <2> QED
        BY <1>3, <1>4, <2>3, <2>6, <2>7, PaxosGrows DEF PaxosHost!IInv, PaxosHost!proposer_vars
<1> QED
    BY <1>5, <1>6

\* The steps of the proposer: it counts promises that were sent to it, whatever
\* ballot they name, since it never has another; and goes on with a quorum.
LEMMA PaxosProposerStep ==
    ASSUME PaxosHost!IInv, NEW n \in PaxosHost!Nodes,
           \/ PaxosHost!Timer(n)
           \/ \E m \in px_net : PaxosHost!handle_promise(n, m) \/ PaxosHost!handle_accepted(n, m)
    PROVE  PaxosHost!IInv'
<1>1. ASSUME UNCHANGED PaxosHost!acceptor_vars, px_net \subseteq px_net',
             \A p \in px_net' \ px_net : PaxosHost!PacketInv(p)' /\ p.type # "Accepted",
             px_phase' \in [PaxosHost!Nodes -> {"Idle", "Phase1", "Phase2", "Decided"}],
             px_proposer_bal' \in [PaxosHost!Nodes -> Nat],
             px_promises_rcvd' \in [PaxosHost!Nodes -> SUBSET PaxosHost!Nodes],
             px_highest_accepted_bal' \in [PaxosHost!Nodes -> Nat],
             \A k \in PaxosHost!Nodes \ {n} :
                /\ px_phase'[k] = px_phase[k] /\ px_proposer_bal'[k] = px_proposer_bal[k]
                /\ px_promises_rcvd'[k] = px_promises_rcvd[k]
                /\ px_highest_accepted_bal'[k] = px_highest_accepted_bal[k],
             PaxosHost!ProposerInv(n)'
      PROVE  PaxosHost!IInv'
    <2>1. \A k \in PaxosHost!Nodes : PaxosHost!ProposerInv(k)'
        <3> TAKE k \in PaxosHost!Nodes
        <3>1. CASE k = n
            BY <1>1, <3>1
        <3>2. CASE k # n
            BY <1>1, <3>2, ProposerKept
        <3> QED
            BY <3>1, <3>2
    <2>2. /\ px_promised_bal' \in [PaxosHost!Nodes -> Nat]
          /\ px_accepted_bal' \in [PaxosHost!Nodes -> Nat]
          /\ \A k \in PaxosHost!Nodes :
                /\ px_promised_bal[k] <= px_promised_bal'[k]
                /\ px_accepted_bal[k] <= px_accepted_bal'[k]
                /\ px_accepted_bal'[k] <= px_promised_bal'[k]
        BY <1>1 DEF PaxosHost!IInv, PaxosHost!acceptor_vars
    <2> QED
        BY <1>1, <2>1, <2>2, PaxosGrows
<1>2. PaxosHost!ProposerInv(n) /\ PaxosHost!next_ballot(n) \in Nat
    BY PaxosBallots DEF PaxosHost!IInv
<1>3. CASE PaxosHost!try_send1a(n)
    <2> DEFINE q == PaxosHost!PrepareMsg(n, PaxosHost!next_ballot(n))
    <2>1. q.type = "Prepare" /\ q.src = n /\ q.ballot = PaxosHost!next_ballot(n)
        BY DEF PaxosHost!PrepareMsg
    <2>2. PaxosHost!PacketInv(q)'
        BY <2>1 DEF PaxosHost!PacketInv, PaxosHost!Nodes, PaxosHost!next_ballot
    <2>3. px_net' = px_net \cup {q}
        BY <1>3 DEF PaxosHost!try_send1a
    <2> HIDE DEF q
    <2>4. /\ px_phase'[n] = "Phase1" /\ px_proposer_bal'[n] = PaxosHost!next_ballot(n)
          /\ px_promises_rcvd'[n] = {}
        BY <1>3 DEF PaxosHost!try_send1a, PaxosHost!IInv
    <2>5. PaxosHost!ProposerInv(n)'
        BY <2>4 DEF PaxosHost!ProposerInv, PaxosHost!next_ballot
    <2> QED
        BY <1>1, <1>2, <1>3, <2>1, <2>2, <2>3, <2>5 DEF PaxosHost!try_send1a, PaxosHost!IInv
<1>4. CASE PaxosHost!try_send2a(n)
    <2>0. PICK q : q = PaxosHost!Accept(n, px_proposer_bal[n])
        OBVIOUS
    <2>1. q.type = "Accept" /\ q.src = n /\ q.ballot = PaxosHost!next_ballot(n)
        BY <1>2, <1>4, <2>0 DEF PaxosHost!Accept, PaxosHost!ProposerInv, PaxosHost!try_send2a
    <2>2. PaxosHost!PacketInv(q)'
        BY <2>1 DEF PaxosHost!PacketInv, PaxosHost!Nodes, PaxosHost!next_ballot
    <2>3. px_net' = px_net \cup {q}
        BY <1>4, <2>0 DEF PaxosHost!try_send2a
    <2>4. /\ px_phase'[n] = "Phase2" /\ px_phase[n] = "Phase1"
          /\ px_proposer_bal' = px_proposer_bal
          /\ px_promises_rcvd' = px_promises_rcvd
          /\ px_highest_accepted_bal' = px_highest_accepted_bal
          /\ Cardinality(px_promises_rcvd[n]) >= PaxosHost!quorum_size
        BY <1>4, SameCardinality DEF PaxosHost!try_send2a, PaxosHost!IInv
    <2>5. PaxosHost!ProposerInv(n)'
        BY <1>2, <2>3, <2>4, SameCardinality
        DEF PaxosHost!ProposerInv, PaxosHost!next_ballot, PaxosHost!quorum_size
    <2> QED
        BY <1>1, <1>4, <2>1, <2>2, <2>3, <2>5 DEF PaxosHost!try_send2a, PaxosHost!IInv
<1>5. CASE PaxosHost!try_learn(n)
    <2>1. /\ px_phase'[n] = "Decided" /\ px_phase[n] = "Phase2"
          /\ UNCHANGED <<px_proposer_bal, px_promises_rcvd, px_highest_accepted_bal, px_net>>
        BY <1>5 DEF PaxosHost!try_learn, PaxosHost!IInv
    <2>2. PaxosHost!ProposerInv(n)'
        BY <1>2, <2>1 DEF PaxosHost!ProposerInv, PaxosHost!next_ballot, PaxosHost!quorum_size
    <2> QED
        BY <1>1, <1>5, <2>2 DEF PaxosHost!try_learn, PaxosHost!IInv
<1>6. ASSUME NEW m \in px_net, PaxosHost!handle_promise(n, m)
      PROVE  PaxosHost!IInv'
    <2>1. /\ m.type = "Promise" /\ m.dst = n /\ px_phase[n] = "Phase1"
          /\ UNCHANGED <<px_phase, px_proposer_bal, px_net>>
          /\ px_promises_rcvd' = [px_promises_rcvd EXCEPT ![n] = @ \cup {m.src}]
        BY <1>6 DEF PaxosHost!handle_promise
    <2>2. m.src \in PaxosHost!Nodes /\ m.accepted_bal \in Nat
        BY <2>1 DEF PaxosHost!IInv, PaxosHost!PacketInv
    <2>3. /\ px_highest_accepted_bal' \in [PaxosHost!Nodes -> Nat]
          /\ px_highest_accepted_bal[n] <= px_highest_accepted_bal'[n]
          /\ m.accepted_bal <= px_highest_accepted_bal'[n]
          /\ px_highest_accepted_bal[n] \in Nat /\ px_highest_accepted_bal'[n] \in Nat
        BY <1>6, <2>2 DEF PaxosHost!handle_promise, PaxosHost!IInv
    <2>4. px_promises_rcvd'[n] = px_promises_rcvd[n] \cup {m.src}
        BY <2>1 DEF PaxosHost!IInv
    <2>5. ASSUME NEW p \in px_promises_rcvd'[n]
          PROVE  \E q \in px_net' : /\ q.type = "Promise" /\ q.src = p /\ q.dst = n
                                    /\ q.accepted_bal <= px_highest_accepted_bal'[n]
        <3>1. CASE p = m.src
            BY <2>1, <2>3, <3>1
        <3>2. CASE p \in px_promises_rcvd[n]
            <4>1. PICK q \in px_net : /\ q.type = "Promise" /\ q.src = p /\ q.dst = n
                                      /\ q.accepted_bal <= px_highest_accepted_bal[n]
                BY <1>2, <3>2 DEF PaxosHost!ProposerInv
            <4>2. q.accepted_bal \in Nat
                BY <4>1 DEF PaxosHost!IInv, PaxosHost!PacketInv
            <4> QED
                BY <2>1, <2>3, <4>1, <4>2
        <3> QED
            BY <2>4, <3>1, <3>2
    <2>6. PaxosHost!ProposerInv(n)'
        BY <1>2, <2>1, <2>5 DEF PaxosHost!ProposerInv, PaxosHost!next_ballot
    <2> QED
        BY <1>1, <1>6, <2>1, <2>2, <2>3, <2>6 DEF PaxosHost!handle_promise, PaxosHost!IInv
<1>7. ASSUME NEW m \in px_net, PaxosHost!handle_accepted(n, m)
      PROVE  PaxosHost!IInv'
    BY <1>1, <1>7, ProposerKept DEF PaxosHost!handle_accepted, PaxosHost!IInv
<1> QED
    BY <1>3, <1>4, <1>5, <1>6, <1>7 DEF PaxosHost!Timer

\* Every step of the Paxos host preserves the invariant.
LEMMA PaxosStep == PaxosHost!IInv /\ [PaxosHost!Next]_(PaxosHost!vars) => PaxosHost!IInv'
<1> SUFFICES ASSUME PaxosHost!IInv, [PaxosHost!Next]_(PaxosHost!vars) PROVE PaxosHost!IInv'
    OBVIOUS
<1>1. CASE PaxosHost!Next
    BY <1>1, PaxosAcceptorStep, PaxosProposerStep DEF PaxosHost!Next, PaxosHost!Handle
<1>2. CASE UNCHANGED PaxosHost!vars
    BY <1>2
    DEF PaxosHost!vars, PaxosHost!acceptor_vars, PaxosHost!proposer_vars, PaxosHost!IInv,
        PaxosHost!ProposerInv, PaxosHost!PacketInv, PaxosHost!Nodes, PaxosHost!next_ballot,
        PaxosHost!quorum_size
<1> QED
    BY <1>1, <1>2

-----------------------------------------------------------------------------
(***************************************************************************)
(* Two-phase commit.                                                       *)
(***************************************************************************)
\* The packets differ by their types.
LEMMA PacketsDiffer ==
    /\ Prepare # Commit
    /\ \A rm \in RM : PreparedVote(rm) # Commit /\ PreparedVote(rm) # Prepare
    /\ \A rm, r \in RM : PreparedVote(rm) = PreparedVote(r) => rm = r
BY DEF Prepare, Commit, PreparedVote

\* Initially nobody has voted or decided.
LEMMA TPInitInv == TPInit => TPInv
BY DEF TPInit, TPInv, TPTypeOK, TPMessages

\* Every step of the manager or of a resource manager preserves the invariant:
\* a vote precedes its count, all votes precede the decision, the decision
\* precedes the Commit.
LEMMA TPStepInv == TPInv /\ [TPNext]_tp_vars => TPInv'
<1> SUFFICES ASSUME TPInv, [TPNext]_tp_vars PROVE TPInv'
    OBVIOUS
<1> USE PacketsDiffer DEF TPInv, TPTypeOK, TPMessages
<1>1. CASE tm_try_send_prepare
    BY <1>1 DEF tm_try_send_prepare
<1>2. CASE tm_try_send_commit
    BY <1>2 DEF tm_try_send_commit
<1>3. ASSUME NEW rm \in RM, tm_receive_prepared(rm) PROVE TPInv'
    BY <1>3 DEF tm_receive_prepared
<1>4. ASSUME NEW rm \in RM, rm_receive_prepare(rm) PROVE TPInv'
    BY <1>4 DEF rm_receive_prepare
<1>5. ASSUME NEW rm \in RM, rm_receive_commit(rm) PROVE TPInv'
    BY <1>5 DEF rm_receive_commit
<1>6. CASE UNCHANGED tp_vars
    BY <1>6 DEF tp_vars
<1> QED
    BY <1>1, <1>2, <1>3, <1>4, <1>5, <1>6 DEF TPNext

\* host.rs tm_try_send_commit and rm_receive_commit: whatever the network does
\* with the packets, nobody commits before everybody has prepared.
THEOREM TwoPhaseCommit == TPSpec => []CommittedAfterAllPrepared
<1>1. TPInv => CommittedAfterAllPrepared
    BY DEF TPInv, TPTypeOK, CommittedAfterAllPrepared
<1> QED
    BY <1>1, TPInitInv, TPStepInv, PTL DEF TPSpec

-----------------------------------------------------------------------------
(***************************************************************************)
(* The distributed lock.                                                   *)
(***************************************************************************)
\* The ring: a host's successor is a host.
LEMMA SuccessorIsHost == ASSUME NEW h \in Hosts PROVE (h + 1) % N \in Hosts
BY LockAssumption DEF Hosts

\* Host 0 is the first holder; what outsiders have sent is not acceptable.
LEMMA LockInit == Init => IInv
<1> SUFFICES ASSUME Init PROVE IInv
    OBVIOUS
<1>1. 0 \in Hosts
    BY LockAssumption DEF Hosts
<1>2. history = <<0>> /\ Len(history) = 1 /\ history[1] = 0 /\ history \in Seq(Hosts)
    BY <1>1 DEF Init
<1>3. TypeOK
    BY <1>1, <1>2, LockAssumption DEF Init, TypeOK, Packets, CTransfer, Outsider
<1>4. \A m \in net : ~Acceptable(m) /\ m.type # "Locked"
    BY LockAssumption DEF Init, Acceptable, CTransfer, Outsider, Hosts
<1>5. \A h \in Hosts : epoch[h] <= 1 /\ (held[h] => epoch[h] = 1 /\ h = 0)
    <2> SUFFICES ASSUME NEW h \in Hosts
        PROVE epoch[h] <= 1 /\ (held[h] => epoch[h] = 1 /\ h = 0)
        OBVIOUS
    <2>1. CASE h = 0
        BY <2>1 DEF Init
    <2>2. CASE h # 0
        <3>1. held[h] <=> h = 0
            BY Zenon DEF Init
        <3>2. epoch[h] = 0
            BY <2>2 DEF Init
        <3> QED
            BY <2>2, <3>1, <3>2
    <2> QED
        BY <2>1, <2>2
<1> QED
    BY <1>2, <1>3, <1>4, <1>5 DEF IInv

\* A grant makes the history longer by the host that may now accept.
LEMMA LockGrant == ASSUME IInv, NEW h \in Hosts, grant(h) PROVE IInv'
<1> DEFINE t == CTransfer(h, (h + 1) % N, epoch[h] + 1)
<1> DEFINE n == Len(history)
<1>1. (h + 1) % N \in Hosts
    BY SuccessorIsHost
<1>2. /\ history' \in Seq(Hosts) /\ Len(history') = n + 1
      /\ history'[n + 1] = (h + 1) % N
      /\ \A i \in 1 .. n : history'[i] = history[i]
    BY <1>1 DEF grant, IInv, TypeOK
<1>3. epoch[h] = n /\ epoch' = epoch /\ \A g \in Hosts : ~held'[g]
    BY DEF grant, IInv, TypeOK
<1>4. t \in Packets
    BY <1>1, <1>3, LockAssumption DEF grant, IInv, TypeOK, Packets, CTransfer
<1>5. TypeOK'
    BY <1>2, <1>3, <1>4 DEF grant, IInv, TypeOK
<1>6. \A m \in net : ~Acceptable(m)'
    BY <1>3 DEF grant, IInv, Acceptable
<1>7. t.epoch = n + 1 /\ t.dst = (h + 1) % N /\ t.type = "Transfer"
    BY <1>3 DEF CTransfer
<1>8. \A m \in net' : m.type = "Locked" => m.epoch \in 1 .. Len(history') /\ m.src = history'[m.epoch]
    BY <1>2, <1>7 DEF grant, IInv, TypeOK
<1>9. \A g \in Hosts : epoch'[g] <= Len(history')
    BY <1>2, <1>3 DEF IInv, TypeOK
<1>10. \A m \in net' : Acceptable(m)' => m = t
    BY <1>6 DEF grant
<1>11. Len(history') >= 1
    BY <1>2 DEF IInv, TypeOK
<1> QED
    BY <1>2, <1>3, <1>5, <1>7, <1>8, <1>9, <1>10, <1>11 DEF IInv

\* An accepted lock was the only one on its way.
LEMMA LockAccept == ASSUME IInv, NEW h \in Hosts, NEW m \in net, accept(h, m) PROVE IInv'
<1> DEFINE a == CLocked(h, m.src, m.epoch)
<1> DEFINE n == Len(history)
<1>1. m.epoch = n /\ h = history[n] /\ \A g \in Hosts : ~held[g]
    BY DEF accept, IInv, Acceptable
<1>2. history' = history /\ n \in Nat /\ n >= 1
    BY DEF accept, IInv, TypeOK
<1>3. epoch' = [epoch EXCEPT ![h] = n] /\ held' = [held EXCEPT ![h] = TRUE]
    BY <1>1 DEF accept
<1>4. a.type = "Locked" /\ a.epoch = n /\ a.src = h
    BY <1>1 DEF CLocked
<1>5. TypeOK'
    <2>1. m \in Packets
        BY DEF IInv, TypeOK
    <2>2. a \in Packets
        BY <2>1, <1>1 DEF accept, Packets, CLocked
    <2> QED
        BY <2>1, <2>2 DEF accept, IInv, TypeOK, Packets
<1>6. \A k \in net' : ~Acceptable(k)'
    <2> SUFFICES ASSUME NEW k \in net', Acceptable(k)' PROVE FALSE
        OBVIOUS
    <2>1. k.type = "Transfer" /\ k.src \in Hosts /\ k.epoch > epoch'[k.dst]
        BY DEF Acceptable
    <2>2. k \in net
        BY <2>1, <1>4 DEF accept
    <2>3. k \in Packets
        BY <2>2 DEF IInv, TypeOK
    <2>4. k.dst \in Hosts /\ k.epoch \in Nat
        BY <2>3, LockAssumption DEF Packets
    <2>5. CASE k.dst = h
        <3>1. epoch'[h] = n
            BY <1>3 DEF IInv, TypeOK
        <3>2. k.epoch > n
            BY <2>1, <2>5, <3>1
        <3>3. k.epoch > epoch[k.dst]
            BY <3>2, <2>4, <1>2, LockAssumption DEF IInv, TypeOK
        <3> QED
            BY <3>2, <3>3, <2>1, <2>2, <2>4, <1>2 DEF IInv, Acceptable
    <2>6. CASE k.dst # h
        <3>1. epoch'[k.dst] = epoch[k.dst]
            BY <2>4, <2>6, <1>3 DEF IInv, TypeOK
        <3>2. Acceptable(k)
            BY <2>1, <3>1 DEF Acceptable
        <3> QED
            BY <3>2, <2>2, <2>6, <1>1 DEF IInv
    <2> QED
        BY <2>5, <2>6
<1>7. \A k \in net' : k.type = "Locked" => k.epoch \in 1 .. n /\ k.src = history[k.epoch]
    BY <1>1, <1>2, <1>4 DEF accept, IInv
<1>8. \A g \in Hosts : epoch'[g] <= n /\ (held'[g] => epoch'[g] = n /\ history[n] = g)
    BY <1>1, <1>2, <1>3 DEF IInv, TypeOK
<1> QED
    BY <1>2, <1>5, <1>6, <1>7, <1>8 DEF IInv

\* Every step preserves the invariant.
LEMMA LockStep == IInv /\ [Next]_vars => IInv'
<1>1. ASSUME IInv, UNCHANGED vars PROVE IInv'
    BY <1>1 DEF IInv, TypeOK, Acceptable, vars
<1> QED
    BY <1>1, LockGrant, LockAccept DEF Next

\* grant and accept (node_i.rs): however late or often a Transfer arrives, and
\* whatever hosts outside the configuration send, at most one host holds the lock.
THEOREM LockMutualExclusion == Spec => []MutualExclusion
<1>1. IInv => MutualExclusion
    BY DEF IInv, MutualExclusion
<1> QED
    BY <1>1, LockInit, LockStep, PTL DEF Spec

\* The hosts implement the lock service of services/lock/abstractservice_s.rs:
\* what their Locked packets say agrees with one history of holders.
THEOREM LockImplementsService == Spec => ImplementsLockService
<1> DEFINE Locked == {<<m.epoch, m.src>> : m \in {p \in net : p.type = "Locked"}}
<1>1. Init => Service!Init
    BY LockAssumption DEF Init, Service!Init, Hosts, CTransfer
<1>2. ASSUME IInv, [Next]_vars PROVE [Service!Next]_(Service!vars)
    <2>1. ASSUME NEW h \in Hosts, grant(h) PROVE Service!Grant((h + 1) % N)
        BY <2>1 DEF grant, CTransfer, Service!Grant
    <2>2. ASSUME NEW h \in Hosts, NEW m \in net, accept(h, m)
          PROVE m.epoch \in 1 .. Len(history) /\ Service!Announce(m.epoch)
        <3>1. m.epoch = Len(history) /\ h = history[m.epoch]
            BY <1>2, <2>2 DEF accept, IInv, Acceptable
        <3>2. m.epoch \in 1 .. Len(history)
            BY <1>2, <3>1 DEF IInv, TypeOK
        <3>3. Locked' = Locked \cup {<<m.epoch, h>>}
            <4> DEFINE a == CLocked(h, m.src, m.epoch)
            <4>1. net' = net \cup {a}
                BY <2>2 DEF accept
            <4>2. a.type = "Locked" /\ a.epoch = m.epoch /\ a.src = h
                BY DEF CLocked
            <4> HIDE DEF a
            <4> QED
                BY <4>1, <4>2
        <3> QED
            BY <2>2, <3>1, <3>2, <3>3 DEF accept, Service!Announce
    <2>3. CASE UNCHANGED vars
        BY <2>3 DEF vars, Service!vars
    <2> QED
        BY <1>2, <2>1, <2>2, <2>3, SuccessorIsHost DEF Next, Service!Next
<1> QED
    BY <1>1, <1>2, LockInit, LockStep, PTL DEF Spec, ImplementsLockService, Service!Spec
-----------------------------------------------------------------------------
(***************************************************************************)
(* RSL's handling of requests.  Its own theorems are about every instance; *)
(* this is the one that the process runs.                                  *)
(***************************************************************************)
RslProofs == INSTANCE RslRequestsProofs WITH
    NumReplicas <- RslReplicas, Clients <- RslClients, MaxOps <- RslBatches,
    MaxIntegerVal <- RslIntegerVal, MaxBatchSize <- RslBatchSize, MaxSeqno <- RslSeqno,
    MaxView <- RslView,
    election <- rq_election, proposer <- rq_proposer, executor <- rq_executor,
    chosen <- rq_chosen, inflight <- rq_inflight, net <- rq_net

\* The instance of the theorems and the host are the same definitions.
LEMMA RslSameInit == RslHost!RequestsInit => RslProofs!RequestsInit
BY DEF
    RslHost!RequestsInit, RslProofs!RequestsInit, RslHost!CElectionStateInit,
    RslProofs!CElectionStateInit, RslHost!NoSeqno, RslProofs!NoSeqno, RslHost!CBallot,
    RslProofs!CBallot, RslHost!Replicas, RslProofs!Replicas

LEMMA RslSameStep == [RslHost!Next]_(RslHost!vars) => [RslProofs!Next]_(RslProofs!vars)
<1>1. RslHost!Next => RslProofs!Next
    BY DEF
        RslHost!Replicas, RslProofs!Replicas, RslHost!CMinQuorumSize,
        RslProofs!CMinQuorumSize, RslHost!IsQuorum, RslProofs!IsQuorum, RslHost!CBallot,
        RslProofs!CBallot, RslHost!CBalLt, RslProofs!CBalLt, RslHost!CBalLeq,
        RslProofs!CBalLeq, RslHost!CComputeSuccessorView,
        RslProofs!CComputeSuccessorView, RslHost!CRequest, RslProofs!CRequest,
        RslHost!BuildReqSet, RslProofs!BuildReqSet, RslHost!CRequestSatisfiedBy,
        RslProofs!CRequestSatisfiedBy, RslHost!CBoundRequestSequence,
        RslProofs!CBoundRequestSequence, RslHost!Pick, RslProofs!Pick,
        RslHost!Unsatisfied, RslProofs!Unsatisfied, RslHost!CRemoveExecutedRequestBatch,
        RslProofs!CRemoveExecutedRequestBatch, RslHost!AllRequests,
        RslProofs!AllRequests, RslHost!NewEpoch, RslProofs!NewEpoch, RslHost!NewView,
        RslProofs!NewView, RslHost!CElectionStateProcessHeartbeat,
        RslProofs!CElectionStateProcessHeartbeat, RslHost!ReflectReceivedRequest,
        RslProofs!ReflectReceivedRequest, RslHost!CElectionStateCheckForViewTimeout,
        RslProofs!CElectionStateCheckForViewTimeout,
        RslHost!CElectionStateCheckForQuorumOfViewSuspicions,
        RslProofs!CElectionStateCheckForQuorumOfViewSuspicions,
        RslHost!ReflectExecutedRequestBatch, RslProofs!ReflectExecutedRequestBatch,
        RslHost!NoSeqno, RslProofs!NoSeqno, RslHost!Reply, RslProofs!Reply,
        RslHost!Heartbeat, RslProofs!Heartbeat, RslHost!AppStateSupply,
        RslProofs!AppStateSupply, RslHost!Sent, RslProofs!Sent, RslHost!Answered,
        RslProofs!Answered, RslHost!Asked, RslProofs!Asked, RslHost!CachedAtLeast,
        RslProofs!CachedAtLeast, RslHost!AnswerFromCache, RslProofs!AnswerFromCache,
        RslHost!Enqueue, RslProofs!Enqueue, RslHost!CProposerProcessRequest,
        RslProofs!CProposerProcessRequest, RslHost!CReplicaNextProcessRequest,
        RslProofs!CReplicaNextProcessRequest,
        RslHost!CProposerMaybeEnterNewViewAndSend1a,
        RslProofs!CProposerMaybeEnterNewViewAndSend1a,
        RslHost!CProposerMaybeEnterPhase2, RslProofs!CProposerMaybeEnterPhase2,
        RslHost!CProposerNominateNewValueAndSend2a,
        RslProofs!CProposerNominateNewValueAndSend2a,
        RslHost!CReplicaNextSpontaneousMaybeMakeDecision,
        RslProofs!CReplicaNextSpontaneousMaybeMakeDecision, RslHost!CHandleRequestBatch,
        RslProofs!CHandleRequestBatch, RslHost!CClientsInReplies,
        RslProofs!CClientsInReplies, RslHost!CUpdateNewCache, RslProofs!CUpdateNewCache,
        RslHost!CExecutorExecute, RslProofs!CExecutorExecute,
        RslHost!CExecutorProcessAppStateRequest,
        RslProofs!CExecutorProcessAppStateRequest,
        RslHost!CExecutorProcessAppStateSupply,
        RslProofs!CExecutorProcessAppStateSupply, RslHost!FollowView,
        RslProofs!FollowView, RslHost!CProposerProcessHeartbeat,
        RslProofs!CProposerProcessHeartbeat, RslHost!CProposerCheckForViewTimeout,
        RslProofs!CProposerCheckForViewTimeout,
        RslHost!CProposerCheckForQuorumOfViewSuspicions,
        RslProofs!CProposerCheckForQuorumOfViewSuspicions, RslHost!HasNews,
        RslProofs!HasNews, RslHost!CReplicaNextReadClockMaybeSendHeartbeat,
        RslProofs!CReplicaNextReadClockMaybeSendHeartbeat, RslHost!ProcessPacket,
        RslProofs!ProcessPacket, RslHost!NoReceive, RslProofs!NoReceive, RslHost!Next,
        RslProofs!Next, RslHost!Cardinality, RslProofs!Cardinality, RslHost!RemoveAt,
        RslProofs!RemoveAt, RslHost!Min, RslProofs!Min
<1> QED
    BY <1>1 DEF RslHost!vars, RslProofs!vars

LEMMA RslSameProperties ==
    /\ RslProofs!SetsMirrorLists => RslHost!SetsMirrorLists
    /\ RslProofs!RepliesAreTrue => RslHost!RepliesAreTrue
BY DEF
    RslHost!SetsMirrorLists, RslProofs!SetsMirrorLists, RslHost!Outstanding,
    RslProofs!Outstanding, RslHost!BuildReqSet, RslProofs!BuildReqSet,
    RslHost!AllRequests, RslProofs!AllRequests, RslHost!RepliesAreTrue,
    RslProofs!RepliesAreTrue, RslHost!ExecutedAs, RslProofs!ExecutedAs,
    RslHost!ExecutedBefore, RslProofs!ExecutedBefore, RslHost!Sent, RslProofs!Sent,
    RslHost!Replicas, RslProofs!Replicas, RslHost!Cardinality, RslProofs!Cardinality

\* What the theorems of RslRequestsProofs assume, the process provides.
LEMMA RslAssumptions ==
    /\ RslReplicas \in Nat \ {0} /\ RslIntegerVal \in Nat \ {0}
    /\ RslBatchSize \in Nat \ {0} /\ RslSeqno \in Nat
    /\ RslProofs!IsFiniteSet(RslClients)
    /\ RslProofs!Cardinality(RslProofs!CRequest) <= RslIntegerVal
<1>1. /\ RslReplicas \in Nat \ {0} /\ RslIntegerVal \in Nat \ {0}
      /\ RslBatchSize \in Nat \ {0} /\ RslSeqno \in Nat
    BY HostsAssumption
<1>2. RslProofs!IsFiniteSet(RslClients)
    BY HostsAssumption DEF RslProofs!IsFiniteSet, IsFiniteSet
<1>3. RslProofs!CRequest = RslHost!CRequest
    BY DEF RslHost!CRequest, RslProofs!CRequest
<1>4. \A S : RslProofs!Cardinality(S) = Cardinality(S)
    BY DEF RslProofs!Cardinality, Cardinality
<1>5. RslProofs!Cardinality(RslProofs!CRequest) <= RslIntegerVal
    BY HostsAssumption, <1>3, <1>4
<1> QED
    BY <1>1, <1>2, <1>5

-----------------------------------------------------------------------------
(***************************************************************************)
(* The process.                                                            *)
(***************************************************************************)
\* A turn of the process is a turn of the host that it runs, and the others do
\* nothing.
LEMMA OneHostRuns ==
    ASSUME [HostsNext]_hosts_vars
    PROVE  /\ [Next]_vars
           /\ [TPNext]_tp_vars
           /\ [RslHost!Next]_(RslHost!vars)
           /\ [PaxosHost!Next]_(PaxosHost!vars)
           /\ [VerticalPaxosHost!Next]_(VerticalPaxosHost!vars)
           /\ [LeaderElectionHost!Next]_(LeaderElectionHost!vars)
           /\ [ChainHost!Next]_(ChainHost!vars)
           /\ [PrimaryBackupHost!Next]_(PrimaryBackupHost!vars)
<1> USE DEF HostsNext, step, hosts_vars
<1>1. [Next]_vars /\ [TPNext]_tp_vars
    OBVIOUS
<1>2. [PaxosHost!Next]_(PaxosHost!vars)
    BY DEF px_vars, PaxosHost!vars, PaxosHost!acceptor_vars, PaxosHost!proposer_vars
<1>3. [VerticalPaxosHost!Next]_(VerticalPaxosHost!vars)
    BY DEF vp_vars, VerticalPaxosHost!vars
<1>4. [LeaderElectionHost!Next]_(LeaderElectionHost!vars)
    BY DEF le_vars, LeaderElectionHost!vars
<1>5. [ChainHost!Next]_(ChainHost!vars)
    BY DEF ch_vars, ChainHost!vars
<1>6. [PrimaryBackupHost!Next]_(PrimaryBackupHost!vars)
    BY DEF pb_vars, PrimaryBackupHost!vars
<1>7. [RslHost!Next]_(RslHost!vars)
    BY DEF rq_vars, RslHost!vars
<1> QED
    BY <1>1, <1>2, <1>3, <1>4, <1>5, <1>6, <1>7

\* What the process does is what request handling may do.
LEMMA RslRuns == HostsSpec => RslProofs!Spec
<1>1. HostsInit => RslProofs!RequestsInit
    BY RslSameInit DEF HostsInit
<1>2. [HostsNext]_hosts_vars => [RslProofs!Next]_(RslProofs!vars)
    BY OneHostRuns, RslSameStep
<1> QED
    BY <1>1, <1>2, PTL DEF HostsSpec, RslProofs!Spec

\* RSL: every reply of the process is the counter at an execution of the request that
\* it answers, after however many state transfers.
THEOREM RslRepliesAreTrue == HostsSpec => []RepliesAreTrue
<1>1. RslProofs!Spec => []RslProofs!RepliesAreTrue
    BY RslAssumptions, RslProofs!RepliesAreTrueHolds
<1>2. RslProofs!RepliesAreTrue => RepliesAreTrue
    BY RslSameProperties DEF RepliesAreTrue
<1> QED
    BY <1>1, <1>2, RslRuns, PTL

\* RSL: the sets by which a replica tells whether a request is outstanding are those
\* of its lists, and no request is in the lists twice.
THEOREM RslSetsMirrorLists == HostsSpec => []SetsMirrorLists
<1>1. RslProofs!Spec => []RslProofs!SetsMirrorLists
    BY RslAssumptions, RslProofs!SetsMirrorListsHolds
<1>2. RslProofs!SetsMirrorLists => SetsMirrorLists
    BY RslSameProperties DEF SetsMirrorLists
<1> QED
    BY <1>1, <1>2, RslRuns, PTL

\* Paxos/host.rs handle_promise does not compare the ballot of a promise with its
\* own; nevertheless a proposer with a quorum of promises knows of every lower
\* ballot that a quorum has accepted, or ever will.
THEOREM LaterProposersKnowHolds == HostsSpec => []LaterProposersKnow
<1>1. HostsInit => PaxosHost!IInv
    BY PaxosInit DEF HostsInit
<1>2. PaxosHost!IInv /\ [HostsNext]_hosts_vars => PaxosHost!IInv'
    BY PaxosStep, OneHostRuns
<1>3. PaxosHost!IInv => LaterProposersKnow
    BY PaxosKnows DEF LaterProposersKnow
<1> QED
    BY <1>1, <1>2, <1>3, PTL DEF HostsSpec

\* VerticalPaxos/host.rs counts an AcceptOk for whichever ballot is current; still
\* a node commits only when a quorum of others has voted for it.
THEOREM CommittedByVotersHolds == HostsSpec => []CommittedByVoters
<1>1. HostsInit => VerticalPaxosHost!IInv
    BY VerticalInit DEF HostsInit
<1>2. VerticalPaxosHost!IInv /\ [HostsNext]_hosts_vars => VerticalPaxosHost!IInv'
    BY VerticalStep, OneHostRuns
<1>3. VerticalPaxosHost!IInv => CommittedByVoters
    BY DEF VerticalPaxosHost!IInv, CommittedByVoters
<1> QED
    BY <1>1, <1>2, <1>3, PTL DEF HostsSpec

\* LeaderElection/host.rs: a node declares itself at most once, and is followed
\* only if it did, whatever the delays and repetitions of Answer and Coordinator.
THEOREM LeadersClaimedHolds == HostsSpec => []LeadersClaimed
<1>1. HostsInit => LeaderElectionHost!IInv
    BY ElectionInit DEF HostsInit
<1>2. LeaderElectionHost!IInv /\ [HostsNext]_hosts_vars => LeaderElectionHost!IInv'
    BY ElectionStep, OneHostRuns
<1>3. LeaderElectionHost!IInv => LeadersClaimed
    BY DEF LeaderElectionHost!IInv, LeadersClaimed
<1> QED
    BY <1>1, <1>2, <1>3, PTL DEF HostsSpec

\* ChainReplication/host.rs: a value that a node waits for no longer is committed, and
\* no node after it lacks it or waits for it, however packets are delayed or repeated.
THEOREM AckedDownstreamHolds == HostsSpec => []AckedDownstream
<1>1. HostsInit => ChainHost!IInv
    BY ChainInit DEF HostsInit
<1>2. ChainHost!IInv /\ [HostsNext]_hosts_vars => ChainHost!IInv'
    BY ChainStep, OneHostRuns
<1>3. ChainHost!IInv => AckedDownstream
    BY DEF ChainHost!IInv, AckedDownstream
<1> QED
    BY <1>1, <1>2, <1>3, PTL DEF HostsSpec

\* PrimaryBackup/host.rs: every write is answered once, in the order taken, to its
\* own client, although an Ack does not say which write it is for.
THEOREM AnsweredInOrderHolds == HostsSpec => []AnsweredInOrder
<1>1. HostsInit => PrimaryBackupHost!IInv
    BY BackupInit DEF HostsInit
<1>2. PrimaryBackupHost!IInv /\ [HostsNext]_hosts_vars => PrimaryBackupHost!IInv'
    BY BackupStep, OneHostRuns
<1>3. PrimaryBackupHost!IInv => AnsweredInOrder
    BY DEF PrimaryBackupHost!IInv, AnsweredInOrder
<1> QED
    BY <1>1, <1>2, <1>3, PTL DEF HostsSpec
=============================================================================
