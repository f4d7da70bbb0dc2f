--------------------------- MODULE LogHostsProofs ---------------------------
(***************************************************************************)
(* Raft and PBFT, for every set of servers, every schedule of elections    *)
(* and every bound on logs, rounds and the network.  Each part proves the  *)
(* invariant of one host from its own steps, and that the host implements  *)
(* one committed log; at the end they are brought together for the process.*)
(***************************************************************************)
EXTENDS LogHosts, TLAPS, FiniteSetTheorems, SequenceTheorems, WellFoundedInduction

-----------------------------------------------------------------------------
(***************************************************************************)
(* Raft: quorums, terms and packets.                                       *)
(***************************************************************************)
\* Two majorities of the servers have a server in common.
LEMMA QuorumsMeet ==
    ASSUME NEW Q \in SUBSET Servers, NEW R \in SUBSET Servers, IsQuorum(Q), IsQuorum(R)
    PROVE  \E t \in Servers : t \in Q /\ t \in R
<1>1. IsFiniteSet(Servers) /\ IsFiniteSet(Q) /\ IsFiniteSet(R)
    BY RaftAssumption, FS_Subset
<1>2. /\ Cardinality(Servers) \in Nat /\ Cardinality(Q) \in Nat /\ Cardinality(R) \in Nat
      /\ IsFiniteSet(Q \cap R) /\ IsFiniteSet(Q \cup R)
      /\ Cardinality(Q \cup R) \in Nat /\ Cardinality(Q \cap R) \in Nat
    BY <1>1, FS_CardinalityType, FS_Subset, FS_Union
<1>3. Cardinality(Q \cup R) = Cardinality(Q) + Cardinality(R) - Cardinality(Q \cap R)
    BY <1>1, FS_Union
<1>4. Cardinality(Q \cup R) <= Cardinality(Servers)
    BY <1>1, FS_Subset
<1>5. Cardinality(Q \cap R) # 0
    BY <1>2, <1>3, <1>4 DEF IsQuorum
<1> QED
    BY <1>2, <1>5, FS_EmptySet

\* A set of servers that contains a majority is one.
LEMMA QuorumGrows ==
    ASSUME NEW Q \in SUBSET Servers, NEW R \in SUBSET Servers, Q \subseteq R, IsQuorum(Q)
    PROVE  IsQuorum(R)
<1>1. IsFiniteSet(Servers) /\ IsFiniteSet(R)
    BY RaftAssumption, FS_Subset
<1>2. Cardinality(Q) <= Cardinality(R)
    BY <1>1, FS_Subset
<1>3. Cardinality(Servers) \in Nat /\ Cardinality(Q) \in Nat /\ Cardinality(R) \in Nat
    BY <1>1, FS_CardinalityType, FS_Subset
<1> QED
    BY <1>2, <1>3 DEF IsQuorum

\* Elections have positive terms.
LEMMA TermsAreNat == \A term \in Terms : term \in Nat /\ term # 0
BY RaftAssumption DEF Terms

\* What the types say of terms and logs.
TypeFacts ==
    \A s \in Servers :
        /\ current_term[s] \in Nat /\ current_term[s] \in Terms \cup {0}
        /\ log[s] \in Seq(Entries) /\ Len(log[s]) \in Nat /\ DOMAIN log[s] = 1 .. Len(log[s])
        /\ \A i \in 1 .. Len(log[s]) :
              i \in Nat /\ log[s][i] \in Entries /\ log[s][i].term \in Terms

\* Terms are numbers and logs are sequences of entries.
LEMMA Typed == TypeOK => TypeFacts
<1>1. ASSUME TypeOK, NEW s \in Servers
      PROVE /\ current_term[s] \in Nat /\ current_term[s] \in Terms \cup {0}
            /\ log[s] \in Seq(Entries) /\ Len(log[s]) \in Nat /\ DOMAIN log[s] = 1 .. Len(log[s])
            /\ \A i \in 1 .. Len(log[s]) :
                  i \in Nat /\ log[s][i] \in Entries /\ log[s][i].term \in Terms
    <2>1. current_term \in [Servers -> Terms \cup {0}]
        BY <1>1 DEF TypeOK
    <2>2. log \in [Servers -> Seq(Entries)]
        BY <1>1 DEF TypeOK
    <2>3. log[s] \in Seq(Entries)
        BY <2>2
    <2>4. current_term[s] \in Nat /\ current_term[s] \in Terms \cup {0}
        BY <2>1, TermsAreNat
    <2>5. Len(log[s]) \in Nat /\ DOMAIN log[s] = 1 .. Len(log[s])
        BY <2>3
    <2>6. \A i \in 1 .. Len(log[s]) : i \in Nat /\ log[s][i] \in Entries
        BY <2>3, <2>5
    <2>7. \A e \in Entries : e.term \in Terms
        BY DEF Entries
    <2> QED
        BY <2>3, <2>4, <2>5, <2>6, <2>7
<1> QED
    BY <1>1 DEF TypeFacts

\* The same after a step.
LEMMA TypedNext == TypeOK' => TypeFacts'
BY Typed, PTL

\* The network holds nothing that was not sent.
LEMMA SendAdds == ASSUME NEW P, Send(P) PROVE net' \subseteq net \cup P
BY DEF Send

-----------------------------------------------------------------------------
(***************************************************************************)
(* Raft: what every step keeps, and what follows from it.                  *)
(***************************************************************************)
LogsGrow ==
    \A s \in Servers :
        /\ Len(log[s]) <= Len(log'[s])
        /\ \A i \in 1 .. Len(log[s]) : log'[s][i] = log[s][i]

\* No server forgets a vote in its term, and a new vote is in the server's new
\* or present term.
VotesKept ==
    \A t \in Servers :
        /\ current_term[t] <= current_term'[t]
        /\ current_term'[t] = current_term[t] /\ voted_for[t] # Nobody
              => voted_for'[t] = voted_for[t]
        /\ \A c \in Servers : \A term \in Terms :
              VoteSeen(t, c, term)' => \/ VoteSeen(t, c, term)
                                       \/ current_term'[t] = term /\ voted_for'[t] = c

\* Entries are sent by leaders of the packet's term.
EntriesSentByLeaders ==
    \A m \in net' : m.type = "AppendEntries" => m \in net \/ LeadsIn(m.src, m.term)

\* An entry is new in a leader's log, or comes from the log of the sender.
EntriesCopied ==
    \A s \in Servers : \A i \in DOMAIN log'[s] :
        \/ i \in DOMAIN log[s]
        \/ LeadsIn(s, log'[s][i].term)
        \/ \E m \in net : /\ m.type = "AppendEntries" /\ m.term = log'[s][i].term
                          /\ Agree(s, m.src, i)'

\* Logs that agree go on agreeing when they are only extended.
LEMMA AgreeGrows ==
    ASSUME TypeOK, TypeOK', LogsGrow, NEW s \in Servers, NEW t \in Servers, NEW n \in Nat,
           Agree(s, t, n)
    PROVE  Agree(s, t, n)'
<1>1. Len(log[s]) \in Nat /\ Len(log[t]) \in Nat /\ Len(log'[s]) \in Nat /\ Len(log'[t]) \in Nat
    BY Typed, TypedNext DEF TypeFacts
<1>2. n <= Len(log'[s]) /\ n <= Len(log'[t])
    BY <1>1 DEF LogsGrow, Agree
<1>3. \A i \in 1 .. n : log'[s][i] = log[s][i] /\ log'[t][i] = log[t][i]
    BY <1>1 DEF LogsGrow, Agree
<1> QED
    BY <1>2, <1>3 DEF Agree

\* Agreement is transitive, in the shape of two logs with a third.
LEMMA AgreeVia ==
    ASSUME NEW s \in Servers, NEW t \in Servers, NEW l \in Servers, NEW n \in Nat,
           Agree(s, l, n), Agree(t, l, n)
    PROVE  Agree(s, t, n)
BY DEF Agree

\* A log has agreed with another up to n, so it has up to any smaller index.
LEMMA AgreeBelow ==
    ASSUME TypeOK, NEW s \in Servers, NEW t \in Servers, NEW n \in Nat, NEW k \in Nat,
           k <= n, Agree(s, t, n)
    PROVE  Agree(s, t, k)
<1>1. Len(log[s]) \in Nat /\ Len(log[t]) \in Nat
    BY Typed DEF TypeFacts
<1> QED
    BY <1>1 DEF Agree

\* LogMatching of Raft.tla: entries of one term at one index are of one leader's log.
LEMMA SameTermAgree ==
    ASSUME TypeOK, LeadersInv, NEW s \in Servers, NEW t \in Servers,
           NEW i \in DOMAIN log[s] \cap DOMAIN log[t], log[s][i].term = log[t][i].term
    PROVE  Agree(s, t, i)
<1>2. i \in Nat /\ log[s][i].term \in Terms
    BY Typed DEF TypeFacts
<1>3. TermUsed(log[s][i].term)
    BY DEF TermUsed
<1>4. PICK l \in Servers : LedBy(l, log[s][i].term)
    BY <1>2, <1>3 DEF LeadersInv
<1>5. Agree(s, l, i) /\ Agree(t, l, i)
    BY <1>4 DEF LedBy
<1> QED
    BY <1>2, <1>5, AgreeVia

\* A vote stays unique and remembered.
LEMMA VotesInvKept ==
    ASSUME TypeOK, TypeOK', VotesInv, VotesKept
    PROVE  VotesInv'
<1>0. \A t \in Servers : current_term[t] \in Nat /\ current_term'[t] \in Nat
    BY Typed, TypedNext DEF TypeFacts
<1>1. ASSUME NEW t \in Servers, NEW c \in Servers, NEW term \in Terms, VoteSeen(t, c, term)'
      PROVE  current_term'[t] >= term /\ (current_term'[t] = term => voted_for'[t] = c)
    <2>1. CASE VoteSeen(t, c, term)
        <3>1. current_term[t] >= term /\ (current_term[t] = term => voted_for[t] = c)
            BY <2>1 DEF VotesInv
        <3>2. c # Nobody
            BY RaftAssumption
        <3> QED
            BY <1>0, <3>1, <3>2, TermsAreNat DEF VotesKept
    <2>2. CASE current_term'[t] = term /\ voted_for'[t] = c
        BY <2>2, <1>0
    <2> QED
        BY <1>1, <2>1, <2>2 DEF VotesKept
<1>2. ASSUME NEW t \in Servers, NEW c \in Servers, NEW term \in Terms, VoteSeen(t, c, term)',
             NEW d \in Servers, VoteSeen(t, d, term)'
      PROVE  c = d
    <2>1. CASE current_term'[t] = term
        BY <1>1, <1>2, <2>1
    <2>2. CASE current_term'[t] # term
        <3>1. VoteSeen(t, c, term) /\ VoteSeen(t, d, term)
            BY <1>2, <2>2 DEF VotesKept
        <3> QED
            BY <3>1 DEF VotesInv
    <2> QED
        BY <2>1, <2>2
<1> QED
    BY <1>1, <1>2 DEF VotesInv

\* A server that is behind the leader of a term stays so.
LEMMA BehindKept ==
    ASSUME TypeOK, TypeOK', VotesKept, NEW l \in Servers, NEW term \in Terms,
           NEW t \in Servers, Behind(l, term, t)
    PROVE  Behind(l, term, t)'
<1>1. current_term[t] \in Nat /\ current_term'[t] \in Nat /\ term \in Nat /\ l # Nobody
    BY Typed, TypedNext, TermsAreNat, RaftAssumption DEF TypeFacts
<1>2. current_term'[t] >= term
    BY <1>1 DEF VotesKept, Behind
<1>3. current_term'[t] = term => voted_for'[t] = l
    BY <1>1 DEF VotesKept, Behind
<1>4. \A c \in Servers : VoteSeen(t, c, term)' => c = l
    BY <1>3 DEF VotesKept, Behind
<1> QED
    BY <1>2, <1>3, <1>4 DEF Behind

\* Whoever leads now has the votes of a majority, each of them seen.
LEMMA LeaderHasVotes ==
    ASSUME TypeOK, LeadersElected, NEW s \in Servers, NEW term, LeadsIn(s, term)
    PROVE  /\ votes_granted[s] \in SUBSET Servers /\ IsQuorum(votes_granted[s])
           /\ \A t \in votes_granted[s] : VoteSeen(t, s, term)
BY DEF TypeOK, LeadersElected, LeadsIn, VoteSeen

\* Two servers never lead in one term.
LEMMA OneLeader ==
    ASSUME TypeOK, VotesInv, LeadersElected, NEW s \in Servers, NEW t \in Servers,
           NEW term \in Terms, LeadsIn(s, term), LeadsIn(t, term)
    PROVE  s = t
<1>1. PICK v \in Servers : v \in votes_granted[s] /\ v \in votes_granted[t]
    BY LeaderHasVotes, QuorumsMeet
<1>2. VoteSeen(v, s, term) /\ VoteSeen(v, t, term)
    BY <1>1, LeaderHasVotes
<1> QED
    BY <1>2 DEF VotesInv

\* The same two facts after a step.
LEMMA LeadersNext ==
    ASSUME TypeOK', VotesInv', LeadersElected', NEW s \in Servers, NEW term \in Terms,
           LeadsIn(s, term)'
    PROVE  /\ votes_granted'[s] \in SUBSET Servers /\ IsQuorum(votes_granted'[s])
           /\ \A t \in votes_granted'[s] : VoteSeen(t, s, term)' /\ Behind(s, term, t)'
<1>1. votes_granted'[s] \in SUBSET Servers /\ IsQuorum(votes_granted'[s])
    BY DEF TypeOK, LeadersElected, LeadsIn, IsQuorum
<1>2. \A t \in votes_granted'[s] : VoteSeen(t, s, term)'
    BY DEF VoteSeen, LeadsIn
<1>3. ASSUME NEW t \in votes_granted'[s] PROVE Behind(s, term, t)'
    BY <1>1, <1>2 DEF VotesInv, Behind
<1> QED
    BY <1>1, <1>2, <1>3

\* A term that is used has one leader, the same as before if it was used before: a
\* second one would have to have the vote of a server that is behind the first.
LEMMA LeadersInvKept ==
    ASSUME TypeOK, TypeOK', LeadersInv, VotesInv', LeadersElected', VotesKept, LogsGrow,
           EntriesSentByLeaders, EntriesCopied
    PROVE  LeadersInv'
<1> SUFFICES ASSUME NEW term \in Terms, TermUsed(term)'
             PROVE  \E l \in Servers : LedBy(l, term)'
    BY DEF LeadersInv
<1>0. \A m \in net' : m.src \in Servers
    BY DEF TypeOK, PacketOK
<1>1. CASE TermUsed(term)
    <2>1. PICK l \in Servers : LedBy(l, term)
        BY <1>1 DEF LeadersInv
    <2>2. IsQuorum({t \in Servers : Behind(l, term, t)'})
        <3>1. {t \in Servers : Behind(l, term, t)} \subseteq {t \in Servers : Behind(l, term, t)'}
            BY BehindKept
        <3>2. IsQuorum({t \in Servers : Behind(l, term, t)})
            BY <2>1 DEF LedBy
        <3> QED
            BY <3>1, <3>2, QuorumGrows
    <2>3. ASSUME NEW s \in Servers, LeadsIn(s, term)' PROVE s = l
        <3>1. PICK t \in Servers : t \in votes_granted'[s] /\ Behind(l, term, t)'
            <4>1. {t \in Servers : Behind(l, term, t)'} \in SUBSET Servers
                OBVIOUS
            <4>2. votes_granted'[s] \in SUBSET Servers /\ IsQuorum(votes_granted'[s])
                BY <2>3, LeadersNext
            <4>3. \E t \in Servers : t \in votes_granted'[s] /\ t \in {u \in Servers : Behind(l, term, u)'}
                BY <2>2, <4>1, <4>2, QuorumsMeet
            <4> QED
                BY <4>3
        <3>2. VoteSeen(t, s, term)'
            BY <2>3, <3>1, LeadersNext
        <3> QED
            BY <3>1, <3>2 DEF Behind
    <2>4. ASSUME NEW m \in net', m.type = "AppendEntries", m.term = term PROVE m.src = l
        BY <1>0, <2>1, <2>4 DEF LedBy, EntriesSentByLeaders
    <2>5. ASSUME NEW s \in Servers, NEW i \in DOMAIN log'[s], log'[s][i].term = term
          PROVE  Agree(s, l, i)'
        <3>0. i \in Nat /\ i <= Len(log'[s])
            BY TypedNext DEF TypeFacts
        <3>1. CASE i \in DOMAIN log[s]
            <4>1. log[s][i] = log'[s][i]
                BY <3>1, Typed DEF TypeFacts, LogsGrow
            <4>2. Agree(s, l, i)
                BY <2>1, <2>5, <3>1, <4>1 DEF LedBy
            <4> QED
                BY <3>0, <4>2, AgreeGrows
        <3>2. CASE LeadsIn(s, term)
            <4>1. s = l
                BY <2>1, <3>2 DEF LedBy
            <4> QED
                BY <3>0, <4>1 DEF Agree
        <3>3. CASE \E m \in net : /\ m.type = "AppendEntries" /\ m.term = term
                                  /\ Agree(s, m.src, i)'
            BY <2>1, <3>3 DEF LedBy
        <3> QED
            BY <2>5, <3>1, <3>2, <3>3 DEF EntriesCopied
    <2> QED
        BY <2>2, <2>3, <2>4, <2>5 DEF LedBy, IsQuorum
<1>2. CASE ~TermUsed(term)
    <2>1. ASSUME NEW m \in net', m.type = "AppendEntries", m.term = term PROVE FALSE
        BY <1>0, <1>2, <2>1 DEF TermUsed, EntriesSentByLeaders
    <2>2. ASSUME NEW s \in Servers, NEW i \in DOMAIN log'[s], log'[s][i].term = term PROVE FALSE
        <3>1. i \in DOMAIN log[s] => log[s][i] = log'[s][i]
            BY Typed DEF TypeFacts, LogsGrow
        <3> QED
            BY <1>2, <2>2, <3>1 DEF TermUsed, EntriesCopied
    <2>3. PICK l \in Servers : LeadsIn(l, term)'
        BY <2>1, <2>2 DEF TermUsed
    <2>4. IsQuorum({t \in Servers : Behind(l, term, t)'})
        <3>1. votes_granted'[l] \in SUBSET Servers /\ IsQuorum(votes_granted'[l])
            BY <2>3, LeadersNext
        <3>2. votes_granted'[l] \subseteq {t \in Servers : Behind(l, term, t)'}
            BY <2>3, <3>1, LeadersNext
        <3> QED
            BY <3>1, <3>2, QuorumGrows
    <2>5. ASSUME NEW s \in Servers, LeadsIn(s, term)' PROVE s = l
        <3>1. PICK t \in Servers : t \in votes_granted'[s] /\ t \in votes_granted'[l]
            BY <2>3, <2>5, LeadersNext, QuorumsMeet
        <3>2. VoteSeen(t, s, term)' /\ VoteSeen(t, l, term)'
            BY <2>3, <2>5, <3>1, LeadersNext
        <3> QED
            BY <3>2 DEF VotesInv
    <2> QED
        BY <2>1, <2>2, <2>3, <2>4, <2>5 DEF LedBy, IsQuorum
<1> QED
    BY <1>1, <1>2

\* A packet stays true while logs and commit indices only grow.
LEMMA PacketTrueKept ==
    ASSUME TypeOK, TypeOK', LogsGrow, NEW m \in net, PacketTrue(m),
           \A s \in Servers : commit_index[s] <= commit_index'[s]
    PROVE  PacketTrue(m)'
<1>0. /\ m.src \in Servers /\ m.dst \in Servers
      /\ m.type = "AppendEntries" => m.prev_index \in Nat /\ m.leader_commit \in Nat
      /\ m.type = "AppendResponse" => m.match_index \in Nat
      /\ \A s \in Servers : commit_index[s] \in Nat /\ commit_index'[s] \in Nat
    BY DEF TypeOK, PacketOK
<1>1. \A s \in Servers : \A i \in DOMAIN log[s] : i \in DOMAIN log'[s] /\ log'[s][i] = log[s][i]
    BY Typed, TypedNext DEF TypeFacts, LogsGrow
<1>2. CASE m.type = "AppendEntries"
    BY <1>0, <1>1, <1>2 DEF PacketTrue
<1>3. CASE m.type = "AppendResponse" /\ m.success
    <2>1. Agree(m.dst, m.src, m.match_index)'
        BY <1>0, <1>3, AgreeGrows DEF PacketTrue
    <2> QED
        BY <1>3, <2>1 DEF PacketTrue
<1> QED
    BY <1>2, <1>3 DEF PacketTrue

\* What is committed stays held by a majority.
LEMMA CommitKept ==
    ASSUME TypeOK, TypeOK', LogsGrow, CommitInv, NEW s \in Servers,
           commit_index'[s] = commit_index[s]
    PROVE  CommittedHeld(s)'
<1>0. CommittedHeld(s)
    BY DEF CommitInv
<1>1. commit_index[s] \in Nat /\ Len(log[s]) \in Nat /\ Len(log'[s]) \in Nat
    BY Typed, TypedNext DEF TypeFacts, TypeOK
<1>2. commit_index[s] <= Len(log[s]) /\ Len(log[s]) <= Len(log'[s])
    BY <1>0 DEF CommittedHeld, LogsGrow
<1>3. ASSUME commit_index'[s] > 0
      PROVE  IsQuorum({t \in Servers : Agree(s, t, commit_index[s])'})
    <2>1. {t \in Servers : Agree(s, t, commit_index[s])}
             \subseteq {t \in Servers : Agree(s, t, commit_index[s])'}
        <3> SUFFICES ASSUME NEW t \in Servers, Agree(s, t, commit_index[s])
                     PROVE  Agree(s, t, commit_index[s])'
            OBVIOUS
        <3>1. PICK n \in Nat : n = commit_index[s]
            BY <1>1
        <3>2. Agree(s, t, n)'
            BY <3>1, AgreeGrows
        <3> QED
            BY <3>1, <3>2 DEF Agree
    <2>2. IsQuorum({t \in Servers : Agree(s, t, commit_index[s])})
        BY <1>0, <1>3 DEF CommittedHeld
    <2> QED
        BY <2>1, <2>2, QuorumGrows
<1> QED
    BY <1>1, <1>2, <1>3 DEF CommittedHeld, IsQuorum

\* The invariant after a step, from what the step keeps.
LEMMA FromFacts ==
    ASSUME IInv, TypeOK', VotesKept, LeadersElected', LogsGrow, EntriesSentByLeaders,
           EntriesCopied, LogPacketsInv', MatchInv', CommitInv'
    PROVE  IInv'
<1>1. VotesInv'
    BY VotesInvKept DEF IInv
<1>2. LeadersInv'
    BY <1>1, LeadersInvKept DEF IInv
<1> QED
    BY <1>1, <1>2 DEF IInv

\* Steps of elections leave logs, and what is known of them, alone.
LEMMA ElectionStepKeepsLogs ==
    ASSUME IInv, TypeOK', UNCHANGED <<log, commit_index>>,
           \A m \in net' : m \in net \/ m.type \in ElectionTypes,
           \A s, t \in Servers : match_index'[s][t] \in {match_index[s][t], 0}
    PROVE  /\ LogsGrow /\ EntriesSentByLeaders /\ EntriesCopied
           /\ LogPacketsInv' /\ MatchInv' /\ CommitInv'
<1>1. LogsGrow /\ EntriesCopied
    BY Typed DEF TypeFacts, LogsGrow, EntriesCopied, IInv
<1>2. EntriesSentByLeaders
    BY DEF EntriesSentByLeaders, ElectionTypes
<1>3. LogPacketsInv'
    <2> SUFFICES ASSUME NEW m \in net' PROVE PacketTrue(m)'
        BY DEF LogPacketsInv
    <2>1. CASE m \in net
        <3>1. \A s \in Servers : commit_index[s] <= commit_index'[s]
            BY DEF IInv, TypeOK
        <3> QED
            BY <1>1, <2>1, <3>1, PacketTrueKept DEF IInv, LogPacketsInv
    <2>2. CASE m.type \in ElectionTypes
        BY <2>2 DEF PacketTrue, ElectionTypes
    <2> QED
        BY <2>1, <2>2
<1>4. MatchInv'
    <2> SUFFICES ASSUME NEW s \in Servers, NEW t \in Servers
                 PROVE  Agree(s, t, match_index[s][t])'
        BY DEF MatchInv
    <2>1. CASE match_index'[s][t] = match_index[s][t]
        BY <2>1 DEF IInv, MatchInv, Agree
    <2>2. CASE match_index'[s][t] = 0
        BY <2>2, TypedNext DEF Agree, TypeFacts
    <2> QED
        BY <2>1, <2>2
<1>5. CommitInv'
    BY <1>1, CommitKept DEF CommitInv, IInv
<1> QED
    BY <1>1, <1>2, <1>3, <1>4, <1>5

-----------------------------------------------------------------------------
(***************************************************************************)
(* Raft: the steps.                                                        *)
(***************************************************************************)
\* Votes are kept when each vote in the network or counted is an old one or is
\* the voter's present one.
LEMMA VotesRule ==
    ASSUME \A t \in Servers :
              /\ current_term[t] <= current_term'[t]
              /\ current_term'[t] = current_term[t] /\ voted_for[t] # Nobody
                    => voted_for'[t] = voted_for[t],
           \A m \in net' : m.type = "VoteResponse" =>
              \/ m \in net
              \/ current_term'[m.src] = m.term /\ voted_for'[m.src] = m.dst,
           \A c \in Servers : \A t \in votes_granted'[c] :
              \/ t \in votes_granted[c] /\ current_term'[c] = current_term[c]
              \/ VoteSeen(t, c, current_term'[c])
              \/ current_term'[t] = current_term'[c] /\ voted_for'[t] = c
    PROVE  VotesKept
<1> SUFFICES ASSUME NEW t \in Servers, NEW c \in Servers, NEW term \in Terms,
                    VoteSeen(t, c, term)'
             PROVE  VoteSeen(t, c, term) \/ (current_term'[t] = term /\ voted_for'[t] = c)
    BY DEF VotesKept
<1>1. CASE \E m \in net' : m.type = "VoteResponse" /\ m.src = t /\ m.dst = c /\ m.term = term
    BY <1>1 DEF VoteSeen
<1>2. CASE t \in votes_granted'[c] /\ current_term'[c] = term
    BY <1>2 DEF VoteSeen
<1> QED
    BY <1>1, <1>2 DEF VoteSeen

\* What stepping down does to the votes; the types it leaves.
LEMMA StepDownVotes ==
    ASSUME TypeOK, NEW s \in Servers, NEW term \in Terms,
           current_term' = [current_term EXCEPT ![s] = TermAfter(s, term)],
           voted_for' = [voted_for EXCEPT ![s] = VotedForAfter(s, term)],
           votes_granted' = [votes_granted EXCEPT ![s] = VotesAfter(s, term)],
           \A m \in net' : m.type = "VoteResponse" => m \in net
    PROVE  /\ VotesKept
           /\ current_term' \in [Servers -> Terms \cup {0}]
           /\ voted_for' \in [Servers -> Servers \cup {Nobody}]
           /\ votes_granted' \in [Servers -> SUBSET Servers]
<1> USE DEF StepsDown, TermAfter, VotedForAfter, VotesAfter
<1>1. /\ current_term \in [Servers -> Terms \cup {0}]
      /\ voted_for \in [Servers -> Servers \cup {Nobody}]
      /\ votes_granted \in [Servers -> SUBSET Servers]
    BY DEF TypeOK
<1>2. current_term' \in [Servers -> Terms \cup {0}]
    BY <1>1
<1>3. voted_for' \in [Servers -> Servers \cup {Nobody}]
    BY <1>1
<1>4. votes_granted' \in [Servers -> SUBSET Servers]
    BY <1>1
<1>5. ASSUME NEW t \in Servers
      PROVE /\ current_term[t] <= current_term'[t]
            /\ current_term'[t] = current_term[t] /\ voted_for[t] # Nobody
                  => voted_for'[t] = voted_for[t]
    <2>1. current_term[t] \in Nat /\ term \in Nat
        BY Typed, TermsAreNat DEF TypeFacts
    <2> QED
        BY <1>1, <2>1
<1>6. ASSUME NEW c \in Servers, NEW t \in votes_granted'[c]
      PROVE  t \in votes_granted[c] /\ current_term'[c] = current_term[c]
    BY <1>1
<1>7. VotesKept
    BY <1>5, <1>6, VotesRule
<1> QED
    BY <1>2, <1>3, <1>4, <1>7

\* The election timer: a vote for itself in a term that the server enters.
LEMMA TimeoutStep == ASSUME IInv, NEW s \in Servers, CTimeout(s) PROVE IInv'
<1>0. TypeOK
    BY DEF IInv
<1>1. PICK term : term = current_term[s] + 1
    OBVIOUS
<1>2. /\ term \in Terms /\ current_term[s] \in Nat /\ term \in Nat /\ current_term[s] < term
    <2>1. <<s, term>> \in Elections
        BY <1>1 DEF CTimeout
    <2>2. term \in Terms
        BY <2>1 DEF Terms
    <2> QED
        BY <1>0, <1>1, <2>2, Typed, TermsAreNat DEF TypeFacts
<1>3. /\ current_term' = [current_term EXCEPT ![s] = term]
      /\ role' = [role EXCEPT ![s] = "Candidate"]
      /\ voted_for' = [voted_for EXCEPT ![s] = s]
      /\ votes_granted' = [votes_granted EXCEPT ![s] = {s}]
      /\ UNCHANGED <<log, commit_index, match_index, next_index>>
    BY <1>1 DEF CTimeout
<1>4. \A m \in net' : m \in net \/ (m.type = "RequestVote" /\ PacketOK(m))
    <2>1. net' \subseteq net \cup {RequestVote(s, d, term, log[s]) : d \in Servers \ {s}}
        BY <1>1, SendAdds DEF CTimeout
    <2>2. ASSUME NEW d \in Servers \ {s}
          PROVE LET m == RequestVote(s, d, term, log[s]) IN m.type = "RequestVote" /\ PacketOK(m)
        BY <1>2 DEF RequestVote, PacketOK, ElectionTypes
    <2> QED
        BY <2>1, <2>2
<1>5. /\ current_term \in [Servers -> Terms \cup {0}]
      /\ role \in [Servers -> {"Follower", "Candidate", "Leader"}]
      /\ voted_for \in [Servers -> Servers \cup {Nobody}]
      /\ votes_granted \in [Servers -> SUBSET Servers]
      /\ \A t \in Servers : role[t] # "Follower" => current_term[t] \in Terms
      /\ \A m \in net : PacketOK(m)
    BY <1>0 DEF TypeOK
<1>6. TypeOK'
    <2>1. /\ current_term' \in [Servers -> Terms \cup {0}]
          /\ \A t \in Servers : role'[t] # "Follower" => current_term'[t] \in Terms
        BY <1>2, <1>3, <1>5
    <2>2. /\ role' \in [Servers -> {"Follower", "Candidate", "Leader"}]
          /\ voted_for' \in [Servers -> Servers \cup {Nobody}]
          /\ votes_granted' \in [Servers -> SUBSET Servers]
        BY <1>3, <1>5
    <2>3. \A m \in net' : PacketOK(m)
        BY <1>4, <1>5
    <2> QED
        BY <1>0, <1>3, <2>1, <2>2, <2>3 DEF TypeOK, PacketOK
<1>7. VotesKept
    <2>1. ASSUME NEW t \in Servers
          PROVE /\ current_term[t] <= current_term'[t]
                /\ current_term'[t] = current_term[t] /\ voted_for[t] # Nobody
                      => voted_for'[t] = voted_for[t]
        <3>1. current_term[t] \in Nat
            BY <1>0, Typed DEF TypeFacts
        <3> QED
            BY <1>2, <1>3, <1>5, <3>1
    <2>2. ASSUME NEW c \in Servers, NEW t \in votes_granted'[c]
          PROVE  \/ t \in votes_granted[c] /\ current_term'[c] = current_term[c]
                 \/ current_term'[t] = current_term'[c] /\ voted_for'[t] = c
        BY <1>3, <1>5
    <2>3. \A m \in net' : m.type = "VoteResponse" => m \in net
        BY <1>4
    <2> QED
        BY <2>1, <2>2, <2>3, VotesRule
<1>8. LeadersElected'
    BY <1>3, <1>5 DEF IInv, LeadersElected, IsQuorum
<1>9. /\ LogsGrow /\ EntriesSentByLeaders /\ EntriesCopied
      /\ LogPacketsInv' /\ MatchInv' /\ CommitInv'
    BY <1>3, <1>4, <1>6, ElectionStepKeepsLogs DEF ElectionTypes
<1> QED
    BY <1>6, <1>7, <1>8, <1>9, FromFacts

\* A server that steps down, or that follows the sender of a packet, leads on only
\* in the term in which it was elected.
LEMMA StepDownRoles ==
    ASSUME TypeOK, LeadersElected, NEW s \in Servers, NEW term \in Terms,
           NEW r \in {"Follower", RoleAfter(s, term)},
           current_term' = [current_term EXCEPT ![s] = TermAfter(s, term)],
           votes_granted' = [votes_granted EXCEPT ![s] = VotesAfter(s, term)],
           role' = [role EXCEPT ![s] = r]
    PROVE  /\ role' \in [Servers -> {"Follower", "Candidate", "Leader"}]
           /\ \A t \in Servers : role'[t] # "Follower" => current_term'[t] \in Terms
           /\ LeadersElected'
<1>1. /\ current_term \in [Servers -> Terms \cup {0}]
      /\ role \in [Servers -> {"Follower", "Candidate", "Leader"}]
      /\ votes_granted \in [Servers -> SUBSET Servers]
      /\ \A t \in Servers : role[t] # "Follower" => current_term[t] \in Terms
    BY DEF TypeOK
<1>2. r \in {"Follower", "Candidate", "Leader"}
    BY <1>1 DEF RoleAfter
<1>3. role' \in [Servers -> {"Follower", "Candidate", "Leader"}]
    BY <1>1, <1>2
<1>4. ASSUME NEW t \in Servers, role'[t] # "Follower"
      PROVE  /\ role'[t] = role[t] /\ current_term'[t] = current_term[t]
             /\ votes_granted'[t] = votes_granted[t]
    <2>1. CASE t # s
        BY <1>1, <2>1
    <2>2. CASE t = s /\ StepsDown(s, term)
        BY <1>1, <1>4, <2>2 DEF RoleAfter
    <2>3. CASE t = s /\ ~StepsDown(s, term)
        BY <1>1, <1>4, <2>3 DEF RoleAfter, TermAfter, VotesAfter
    <2> QED
        BY <2>1, <2>2, <2>3
<1>5. LeadersElected'
    <2> SUFFICES ASSUME NEW t \in Servers, role'[t] = "Leader" PROVE IsQuorum(votes_granted'[t])
        BY DEF LeadersElected, IsQuorum
    <2> QED
        BY <1>4 DEF LeadersElected
<1> QED
    BY <1>1, <1>3, <1>4, <1>5

\* A packet's receiver handles a term of the schedule.
LEMMA PacketTerm == ASSUME IInv, NEW m \in net PROVE PacketOK(m) /\ m.term \in Terms
BY DEF IInv, TypeOK, PacketOK

\* A request for a vote: the vote is the receiver's only one in the term.
LEMMA RequestVoteStep ==
    ASSUME IInv, NEW s \in Servers, NEW m \in net, m.dst = s, CHandleRequestVoteMsg(s, m)
    PROVE  IInv'
<1>0. /\ TypeOK /\ LeadersElected /\ PacketOK(m) /\ m.term \in Terms /\ m.src \in Servers
      /\ \A p \in net : PacketOK(p)
    BY PacketTerm DEF IInv, PacketOK, TypeOK
<1>1. UNCHANGED <<log, commit_index, match_index, next_index>>
    BY DEF CHandleRequestVoteMsg
<1>2. CASE ~MayVote(s, m)
    <2>1. /\ Cstep_down_if_needed(s, m.term) /\ net' = net
        BY <1>2 DEF CHandleRequestVoteMsg
    <2>2. /\ VotesKept
          /\ current_term' \in [Servers -> Terms \cup {0}]
          /\ voted_for' \in [Servers -> Servers \cup {Nobody}]
          /\ votes_granted' \in [Servers -> SUBSET Servers]
        BY <1>0, <2>1, StepDownVotes DEF Cstep_down_if_needed
    <2>3. /\ role' \in [Servers -> {"Follower", "Candidate", "Leader"}]
          /\ \A t \in Servers : role'[t] # "Follower" => current_term'[t] \in Terms
          /\ LeadersElected'
        BY <1>0, <2>1, StepDownRoles DEF Cstep_down_if_needed
    <2>4. TypeOK'
        BY <1>0, <1>1, <2>1, <2>2, <2>3 DEF TypeOK, PacketOK
    <2>5. /\ LogsGrow /\ EntriesSentByLeaders /\ EntriesCopied
          /\ LogPacketsInv' /\ MatchInv' /\ CommitInv'
        BY <1>1, <2>1, <2>4, ElectionStepKeepsLogs
    <2> QED
        BY <2>2, <2>3, <2>4, <2>5, FromFacts
<1>3. CASE MayVote(s, m)
    <2>1. /\ current_term' = [current_term EXCEPT ![s] = m.term]
          /\ voted_for' = [voted_for EXCEPT ![s] = m.src]
          /\ role' = [role EXCEPT ![s] = "Follower"]
          /\ votes_granted' = [votes_granted EXCEPT ![s] = VotesAfter(s, m.term)]
          /\ Send({VoteResponse(s, m.src, m.term)})
        BY <1>3 DEF CHandleRequestVoteMsg
    <2>2. /\ m.term \in Nat /\ current_term[s] \in Nat /\ current_term[s] <= m.term
          /\ TermAfter(s, m.term) = m.term
          /\ VotedForAfter(s, m.term) \in {Nobody, m.src}
        <3>1. m.term \in Nat /\ current_term[s] \in Nat
            BY <1>0, Typed, TermsAreNat DEF TypeFacts
        <3> QED
            BY <1>3, <3>1 DEF MayVote, TermAfter, StepsDown
    <2>3. \A p \in net' : p \in net \/ p = VoteResponse(s, m.src, m.term)
        BY <2>1, SendAdds
    <2>4. /\ current_term \in [Servers -> Terms \cup {0}]
          /\ voted_for \in [Servers -> Servers \cup {Nobody}]
          /\ votes_granted \in [Servers -> SUBSET Servers]
        BY <1>0 DEF TypeOK
    <2>5. /\ role' \in [Servers -> {"Follower", "Candidate", "Leader"}]
          /\ \A t \in Servers : role'[t] # "Follower" => current_term'[t] \in Terms
          /\ LeadersElected'
        BY <1>0, <2>1, <2>2, StepDownRoles
    <2>6. TypeOK'
        <3>1. PacketOK(VoteResponse(s, m.src, m.term))
            BY <1>0 DEF VoteResponse, PacketOK, ElectionTypes
        <3>2. /\ current_term' \in [Servers -> Terms \cup {0}]
              /\ voted_for' \in [Servers -> Servers \cup {Nobody}]
              /\ votes_granted' \in [Servers -> SUBSET Servers]
            BY <1>0, <2>1, <2>4 DEF VotesAfter
        <3>3. \A p \in net' : PacketOK(p)
            BY <1>0, <2>3, <3>1
        <3> QED
            BY <1>0, <1>1, <2>5, <3>2, <3>3 DEF TypeOK, PacketOK
    <2>7. VotesKept
        <3>1. ASSUME NEW t \in Servers
              PROVE /\ current_term[t] <= current_term'[t]
                    /\ current_term'[t] = current_term[t] /\ voted_for[t] # Nobody
                          => voted_for'[t] = voted_for[t]
            <4>1. current_term[t] \in Nat
                BY <1>0, Typed DEF TypeFacts
            <4>2. CASE t # s
                BY <2>1, <2>4, <4>1, <4>2
            <4>3. CASE t = s /\ current_term[s] < m.term
                BY <2>1, <2>2, <2>4, <4>1, <4>3
            <4>4. CASE t = s /\ current_term[s] = m.term
                BY <2>1, <2>2, <2>4, <4>1, <4>4 DEF VotedForAfter, StepsDown
            <4> QED
                BY <2>2, <4>2, <4>3, <4>4
        <3>2. ASSUME NEW c \in Servers, NEW t \in votes_granted'[c]
              PROVE  t \in votes_granted[c] /\ current_term'[c] = current_term[c]
            BY <2>1, <2>2, <2>4 DEF VotesAfter, StepsDown
        <3>3. ASSUME NEW p \in net', p.type = "VoteResponse"
              PROVE  \/ p \in net
                     \/ current_term'[p.src] = p.term /\ voted_for'[p.src] = p.dst
            BY <2>1, <2>3, <2>4 DEF VoteResponse
        <3> QED
            BY <3>1, <3>2, <3>3, VotesRule
    <2>8. /\ LogsGrow /\ EntriesSentByLeaders /\ EntriesCopied
          /\ LogPacketsInv' /\ MatchInv' /\ CommitInv'
        <3>1. \A p \in net' : p \in net \/ p.type \in ElectionTypes
            BY <2>3 DEF VoteResponse, ElectionTypes
        <3> QED
            BY <1>1, <2>6, <3>1, ElectionStepKeepsLogs
    <2> QED
        BY <2>5, <2>6, <2>7, <2>8, FromFacts
<1> QED
    BY <1>2, <1>3

\* An answer to a candidate: the vote that it counts is the one in the packet.
LEMMA VoteResponseStep ==
    ASSUME IInv, NEW s \in Servers, NEW m \in net, m.dst = s, CHandleVoteResponseMsg(s, m)
    PROVE  IInv'
<1>0. /\ TypeOK /\ LeadersElected /\ PacketOK(m) /\ m.term \in Terms /\ m.src \in Servers
      /\ m.type = "VoteResponse"
    BY PacketTerm DEF IInv, PacketOK, CHandleVoteResponseMsg
<1>1. UNCHANGED <<log, commit_index, net>>
    BY DEF CHandleVoteResponseMsg
<1>2. CASE ~CountsVote(s, m)
    <2>1. Cstep_down_if_needed(s, m.term) /\ UNCHANGED <<match_index, next_index>>
        BY <1>2 DEF CHandleVoteResponseMsg
    <2>2. /\ VotesKept
          /\ current_term' \in [Servers -> Terms \cup {0}]
          /\ voted_for' \in [Servers -> Servers \cup {Nobody}]
          /\ votes_granted' \in [Servers -> SUBSET Servers]
        BY <1>0, <1>1, <2>1, StepDownVotes DEF Cstep_down_if_needed
    <2>3. /\ role' \in [Servers -> {"Follower", "Candidate", "Leader"}]
          /\ \A t \in Servers : role'[t] # "Follower" => current_term'[t] \in Terms
          /\ LeadersElected'
        BY <1>0, <2>1, StepDownRoles DEF Cstep_down_if_needed
    <2>4. TypeOK'
        BY <1>0, <1>1, <2>1, <2>2, <2>3 DEF TypeOK, PacketOK
    <2>5. /\ LogsGrow /\ EntriesSentByLeaders /\ EntriesCopied
          /\ LogPacketsInv' /\ MatchInv' /\ CommitInv'
        BY <1>1, <2>1, <2>4, ElectionStepKeepsLogs
    <2> QED
        BY <2>2, <2>3, <2>4, <2>5, FromFacts
<1>3. CASE CountsVote(s, m)
    <2>0. /\ current_term \in [Servers -> Terms \cup {0}]
          /\ role \in [Servers -> {"Follower", "Candidate", "Leader"}]
          /\ votes_granted \in [Servers -> SUBSET Servers]
          /\ match_index \in [Servers -> [Servers -> Nat]]
          /\ next_index \in [Servers -> [Servers -> Nat]]
          /\ \A t \in Servers : role[t] # "Follower" => current_term[t] \in Terms
        BY <1>0 DEF TypeOK
    <2>1. /\ role[s] = "Candidate" /\ current_term[s] = m.term
        <3>1. m.term \in Nat /\ current_term[s] \in Nat
            BY <1>0, Typed, TermsAreNat DEF TypeFacts
        <3> QED
            BY <1>3, <3>1 DEF CountsVote, RoleAfter, TermAfter, StepsDown
    <2>2. /\ votes_granted' = [votes_granted EXCEPT ![s] = @ \cup {m.src}]
          /\ UNCHANGED <<current_term, voted_for>>
        BY <1>3 DEF CHandleVoteResponseMsg
    <2>3. \/ /\ IsQuorum(votes_granted'[s])
             /\ role' = [role EXCEPT ![s] = "Leader"]
             /\ match_index' = [match_index EXCEPT ![s] = [t \in Servers |-> 0]]
             /\ next_index' = [next_index EXCEPT ![s] = [t \in Servers |-> 0]]
          \/ UNCHANGED <<role, match_index, next_index>>
        BY <1>3 DEF CHandleVoteResponseMsg, CReceiveVoteAndBecomeLeader
    <2>4. TypeOK'
        <3>1. votes_granted' \in [Servers -> SUBSET Servers]
            BY <1>0, <2>0, <2>2
        <3>2. /\ role' \in [Servers -> {"Follower", "Candidate", "Leader"}]
              /\ \A t \in Servers : role'[t] # "Follower" => current_term'[t] \in Terms
            BY <2>0, <2>1, <2>2, <2>3
        <3>3. /\ match_index' \in [Servers -> [Servers -> Nat]]
              /\ next_index' \in [Servers -> [Servers -> Nat]]
            <4>1. PICK z \in [Servers -> Nat] : z = [t \in Servers |-> 0]
                OBVIOUS
            <4>2. CASE /\ match_index' = [match_index EXCEPT ![s] = z]
                       /\ next_index' = [next_index EXCEPT ![s] = z]
                BY <2>0, <4>1, <4>2
            <4>3. CASE UNCHANGED <<match_index, next_index>>
                BY <2>0, <4>3
            <4> QED
                BY <2>3, <4>1, <4>2, <4>3
        <3> QED
            BY <1>0, <1>1, <2>2, <3>1, <3>2, <3>3 DEF TypeOK, PacketOK
    <2>5. VotesKept
        <3>1. \A t \in Servers : current_term[t] <= current_term'[t]
            BY <1>0, <2>2, Typed DEF TypeFacts
        <3>2. ASSUME NEW c \in Servers, NEW t \in votes_granted'[c]
              PROVE  \/ t \in votes_granted[c] /\ current_term'[c] = current_term[c]
                     \/ VoteSeen(t, c, current_term'[c])
            <4>1. VoteSeen(m.src, s, m.term)
                BY <1>0 DEF VoteSeen
            <4> QED
                BY <2>0, <2>1, <2>2, <4>1
        <3> QED
            BY <1>1, <2>2, <3>1, <3>2, VotesRule
    <2>6. LeadersElected'
        <3> SUFFICES ASSUME NEW t \in Servers, role'[t] = "Leader"
                     PROVE  IsQuorum(votes_granted'[t])
            BY DEF LeadersElected, IsQuorum
        <3>1. CASE t = s
            BY <2>1, <2>3, <3>1
        <3>2. CASE t # s
            BY <1>0, <2>0, <2>2, <2>3, <3>2 DEF LeadersElected
        <3> QED
            BY <3>1, <3>2
    <2>7. \A t, u \in Servers : match_index'[t][u] \in {match_index[t][u], 0}
        BY <2>0, <2>3
    <2>8. /\ LogsGrow /\ EntriesSentByLeaders /\ EntriesCopied
          /\ LogPacketsInv' /\ MatchInv' /\ CommitInv'
        BY <1>1, <2>4, <2>7, ElectionStepKeepsLogs
    <2> QED
        BY <2>4, <2>5, <2>6, <2>8, FromFacts
<1> QED
    BY <1>2, <1>3

\* A step that touches no vote keeps the votes.
LEMMA NoVoteTouched ==
    ASSUME IInv, UNCHANGED <<current_term, voted_for, votes_granted, role>>,
           \A m \in net' : m.type = "VoteResponse" => m \in net
    PROVE  VotesKept /\ LeadersElected'
<1>1. \A t \in Servers : current_term[t] <= current_term'[t]
    BY Typed DEF TypeFacts, IInv
<1>2. VotesKept
    BY <1>1, VotesRule
<1> QED
    BY <1>2 DEF IInv, LeadersElected, IsQuorum

\* A leader's request to append describes its own log.
LEMMA HeartbeatStep == ASSUME IInv, NEW s \in Servers, leader_heartbeat(s) PROVE IInv'
<1>0. TypeOK /\ LogPacketsInv
    BY DEF IInv
<1>1. UNCHANGED <<current_term, role, voted_for, log, commit_index, votes_granted,
                  match_index, next_index>> /\ role[s] = "Leader"
    BY DEF leader_heartbeat
<1>2. ASSUME NEW m \in net', m \notin net
      PROVE  /\ m.type = "AppendEntries" /\ PacketOK(m) /\ LeadsIn(m.src, m.term)
             /\ PacketTrue(m)
    <2>1. PICK d \in Servers \ {s} :
             m = AppendEntries(s, d, current_term[s], log[s], next_index[s][d], commit_index[s])
        BY <1>2, SendAdds DEF leader_heartbeat
    <2>2. /\ current_term[s] \in Terms /\ next_index[s][d] \in Nat /\ commit_index[s] \in Nat
        <3>1. next_index \in [Servers -> [Servers -> Nat]] /\ commit_index \in [Servers -> Nat]
            BY <1>0 DEF TypeOK
        <3>2. current_term[s] \in Terms
            BY <1>0, <1>1 DEF TypeOK
        <3> QED
            BY <3>1, <3>2
    <2>3. /\ m.type = "AppendEntries" /\ m.src = s /\ m.dst = d /\ m.term = current_term[s]
          /\ m.prev_index = next_index[s][d] /\ m.leader_commit = commit_index[s]
          /\ m.prev_term = TermAt(log[s], next_index[s][d])
          /\ m.entry = IF next_index[s][d] < Len(log[s])
                       THEN <<log[s][next_index[s][d] + 1].value>> ELSE <<>>
        BY <2>1 DEF AppendEntries
    <2>4. PacketOK(m) /\ LeadsIn(m.src, m.term)
        BY <1>1, <2>2, <2>3 DEF PacketOK, LeadsIn
    <2>5. PacketTrue(m)
        <3>1. m.prev_term # 0 =>
                 m.prev_index \in DOMAIN log[s] /\ log[s][m.prev_index].term = m.prev_term
            BY <2>3 DEF TermAt
        <3>2. m.entry # <<>> =>
                 /\ m.prev_index + 1 \in DOMAIN log[s]
                 /\ m.entry = <<log[s][m.prev_index + 1].value>>
            <4>1. Len(log[s]) \in Nat /\ DOMAIN log[s] = 1 .. Len(log[s])
                BY <1>0, Typed DEF TypeFacts
            <4> QED
                BY <2>2, <2>3, <4>1
        <3> QED
            BY <2>2, <2>3, <3>1, <3>2 DEF PacketTrue
    <2> QED
        BY <2>3, <2>4, <2>5
<1>3. TypeOK'
    <2>1. \A m \in net' : PacketOK(m)
        BY <1>0, <1>2 DEF TypeOK
    <2> QED
        BY <1>0, <1>1, <2>1 DEF TypeOK, PacketOK
<1>4. VotesKept /\ LeadersElected'
    BY <1>1, <1>2, NoVoteTouched
<1>5. LogsGrow /\ EntriesCopied
    BY <1>0, <1>1, Typed DEF TypeFacts, LogsGrow, EntriesCopied
<1>6. EntriesSentByLeaders
    BY <1>2 DEF EntriesSentByLeaders
<1>7. LogPacketsInv'
    BY <1>0, <1>1, <1>2 DEF LogPacketsInv, PacketTrue, Agree
<1>8. MatchInv' /\ CommitInv'
    BY <1>1 DEF IInv, MatchInv, CommitInv, CommittedHeld, Agree, IsQuorum
<1> QED
    BY <1>3, <1>4, <1>5, <1>6, <1>7, <1>8, FromFacts

\* What packets and match indices say of logs that grow.
LEMMA TruthsKept ==
    ASSUME IInv, TypeOK', LogsGrow, \A s \in Servers : commit_index[s] <= commit_index'[s]
    PROVE  /\ \A m \in net : PacketTrue(m)'
           /\ \A s, t \in Servers :
                 match_index'[s][t] = match_index[s][t] => Agree(s, t, match_index[s][t])'
<1>1. \A m \in net : PacketTrue(m)'
    BY PacketTrueKept DEF IInv, LogPacketsInv
<1>2. ASSUME NEW s \in Servers, NEW t \in Servers, match_index'[s][t] = match_index[s][t]
      PROVE  Agree(s, t, match_index[s][t])'
    <2>1. PICK n \in Nat : n = match_index[s][t]
        BY DEF IInv, TypeOK
    <2>2. Agree(s, t, n)
        BY <2>1 DEF IInv, MatchInv
    <2>3. Agree(s, t, n)'
        BY <2>2, AgreeGrows DEF IInv
    <2> QED
        BY <1>2, <2>1, <2>3 DEF Agree
<1> QED
    BY <1>1, <1>2

\* A client's request: the leader of the term extends its log, so no other log has
\* an entry of the term there.
LEMMA ClientRequestStep ==
    ASSUME IInv, NEW s \in Servers, NEW v \in Values, CClientRequest(s, v)
    PROVE  IInv'
<1>0. TypeOK
    BY DEF IInv
<1>1. /\ role[s] = "Leader"
      /\ log' = [log EXCEPT ![s] = Append(@, [term |-> current_term[s], value |-> v])]
      /\ UNCHANGED <<current_term, role, voted_for, commit_index, votes_granted,
                     match_index, next_index, net>>
    BY DEF CClientRequest
<1>2. PICK e : e = [term |-> current_term[s], value |-> v]
    OBVIOUS
<1>3. e \in Entries /\ e.term = current_term[s] /\ current_term[s] \in Terms
    BY <1>0, <1>1, <1>2 DEF Entries, TypeOK
<1>4. log \in [Servers -> Seq(Entries)] /\ log' = [log EXCEPT ![s] = Append(@, e)]
    BY <1>0, <1>1, <1>2 DEF TypeOK
<1>5. log' \in [Servers -> Seq(Entries)]
    BY <1>3, <1>4
<1>6. TypeOK'
    BY <1>0, <1>1, <1>5 DEF TypeOK, PacketOK
<1>7. LogsGrow
    BY <1>3, <1>4 DEF LogsGrow
<1>8. EntriesCopied
    <2> SUFFICES ASSUME NEW t \in Servers, NEW i \in DOMAIN log'[t], i \notin DOMAIN log[t]
                 PROVE  LeadsIn(t, log'[t][i].term)
        BY DEF EntriesCopied
    <2>1. t = s
        BY <1>4
    <2>2. log'[s] = Append(log[s], e) /\ log[s] \in Seq(Entries)
        BY <1>4
    <2>3. i = Len(log[s]) + 1
        BY <1>3, <2>1, <2>2
    <2>4. log'[s][i] = e
        BY <1>3, <2>2, <2>3
    <2> QED
        BY <1>1, <1>3, <2>1, <2>4 DEF LeadsIn
<1>9. VotesKept /\ LeadersElected' /\ EntriesSentByLeaders
    BY <1>1, NoVoteTouched DEF EntriesSentByLeaders
<1>10. \A t \in Servers : commit_index[t] <= commit_index'[t]
    BY <1>0, <1>1 DEF TypeOK
<1>11. LogPacketsInv' /\ MatchInv' /\ CommitInv'
    BY <1>0, <1>1, <1>6, <1>7, <1>10, TruthsKept, CommitKept
    DEF LogPacketsInv, MatchInv, CommitInv, IInv
<1> QED
    BY <1>6, <1>7, <1>8, <1>9, <1>11, FromFacts

\* The leader's commit index: a majority holds the log up to it.
LEMMA AdvanceStep == ASSUME IInv, NEW s \in Servers, CTryAdvanceCommitIndex(s) PROVE IInv'
<1>0. TypeOK
    BY DEF IInv
<1>1. PICK n \in Committable(s) : commit_index' = [commit_index EXCEPT ![s] = n]
    BY DEF CTryAdvanceCommitIndex
<1>2. UNCHANGED <<current_term, role, voted_for, log, votes_granted, match_index, next_index,
                  net>>
    BY DEF CTryAdvanceCommitIndex
<1>3. /\ n \in Nat /\ commit_index[s] \in Nat /\ commit_index[s] < n /\ n <= Len(log[s])
      /\ IsQuorum(Replicators(s, n)) /\ commit_index \in [Servers -> Nat]
    <2>1. commit_index[s] \in Nat /\ Len(log[s]) \in Nat /\ commit_index \in [Servers -> Nat]
        BY <1>0, Typed DEF TypeFacts, TypeOK
    <2> QED
        BY <1>1, <2>1 DEF Committable
<1>4. TypeOK'
    <2>1. commit_index' \in [Servers -> Nat]
        BY <1>1, <1>3
    <2> QED
        BY <1>0, <1>2, <2>1 DEF TypeOK, PacketOK
<1>5. LogsGrow /\ EntriesCopied /\ EntriesSentByLeaders
    BY <1>0, <1>2, Typed DEF TypeFacts, LogsGrow, EntriesCopied, EntriesSentByLeaders
<1>6. \A t \in Servers : commit_index[t] <= commit_index'[t]
    BY <1>1, <1>3
<1>7. LogPacketsInv' /\ MatchInv'
    BY <1>2, <1>4, <1>5, <1>6, TruthsKept DEF LogPacketsInv, MatchInv
<1>8. CommitInv'
    <2> SUFFICES ASSUME NEW t \in Servers PROVE CommittedHeld(t)'
        BY DEF CommitInv
    <2>1. CASE t # s
        <3>1. commit_index'[t] = commit_index[t]
            BY <1>1, <1>3, <2>1
        <3> QED
            BY <1>0, <1>4, <1>5, <3>1, CommitKept DEF IInv
    <2>2. CASE t = s
        <3>1. Replicators(s, n) \subseteq {u \in Servers : Agree(s, u, n)}
            <4> SUFFICES ASSUME NEW u \in Servers, u = s \/ match_index[s][u] >= n
                         PROVE  Agree(s, u, n)
                BY DEF Replicators
            <4>1. CASE u = s
                BY <1>3, <4>1 DEF Agree
            <4>2. CASE match_index[s][u] >= n
                <5>1. match_index[s][u] \in Nat /\ Agree(s, u, match_index[s][u])
                    BY DEF IInv, MatchInv, TypeOK
                <5> QED
                    BY <1>0, <1>3, <4>2, <5>1, AgreeBelow
            <4> QED
                BY <4>1, <4>2
        <3>2. IsQuorum({u \in Servers : Agree(s, u, n)})
            <4>1. Replicators(s, n) \in SUBSET Servers
                BY DEF Replicators
            <4> QED
                BY <1>3, <3>1, <4>1, QuorumGrows
        <3>3. commit_index'[s] = n /\ log' = log
            BY <1>1, <1>2, <1>3
        <3> QED
            BY <1>3, <2>2, <3>2, <3>3 DEF CommittedHeld, Agree, IsQuorum
    <2> QED
        BY <2>1, <2>2
<1>9. VotesKept /\ LeadersElected'
    BY <1>2, NoVoteTouched
<1> QED
    BY <1>4, <1>5, <1>7, <1>8, <1>9, FromFacts

\* What a leader knows of its followers stays a number for each.
LEMMA IndexUpdated ==
    ASSUME NEW f \in [Servers -> [Servers -> Nat]], NEW s \in Servers, NEW t \in Servers,
           NEW n \in Nat
    PROVE  [f EXCEPT ![s][t] = n] \in [Servers -> [Servers -> Nat]]
<1>1. PICK g \in [Servers -> Nat] : g = [f[s] EXCEPT ![t] = n]
    OBVIOUS
<1>2. [f EXCEPT ![s] = g] \in [Servers -> [Servers -> Nat]]
    OBVIOUS
<1> QED
    BY <1>1, <1>2

\* The answer of a follower says how far its log agrees with the leader's.
LEMMA AppendResponseStep ==
    ASSUME IInv, NEW s \in Servers, NEW m \in net, m.dst = s, CHandleAppendResponseMsg(s, m)
    PROVE  IInv'
<1>0. /\ TypeOK /\ LeadersElected /\ PacketOK(m) /\ m.term \in Terms /\ m.src \in Servers
      /\ m.type = "AppendResponse" /\ m.match_index \in Nat
    BY PacketTerm DEF IInv, PacketOK, CHandleAppendResponseMsg
<1>1. Cstep_down_if_needed(s, m.term) /\ UNCHANGED <<log, commit_index, net>>
    BY DEF CHandleAppendResponseMsg
<1>2. /\ VotesKept
      /\ current_term' \in [Servers -> Terms \cup {0}]
      /\ voted_for' \in [Servers -> Servers \cup {Nobody}]
      /\ votes_granted' \in [Servers -> SUBSET Servers]
    BY <1>0, <1>1, StepDownVotes DEF Cstep_down_if_needed
<1>3. /\ role' \in [Servers -> {"Follower", "Candidate", "Leader"}]
      /\ \A t \in Servers : role'[t] # "Follower" => current_term'[t] \in Terms
      /\ LeadersElected'
    BY <1>0, <1>1, StepDownRoles DEF Cstep_down_if_needed
<1>4. /\ match_index \in [Servers -> [Servers -> Nat]]
      /\ next_index \in [Servers -> [Servers -> Nat]]
    BY <1>0 DEF TypeOK
<1>5. \/ /\ m.success
         /\ match_index' = [match_index EXCEPT ![s][m.src] = m.match_index]
         /\ next_index' = [next_index EXCEPT ![s][m.src] = m.match_index + 1]
      \/ /\ next_index[s][m.src] > 0
         /\ next_index' = [next_index EXCEPT ![s][m.src] = @ - 1]
         /\ match_index' = match_index
      \/ UNCHANGED <<match_index, next_index>>
    BY DEF CHandleAppendResponseMsg, CHandleAppendResponse
<1>6. /\ match_index' \in [Servers -> [Servers -> Nat]]
      /\ next_index' \in [Servers -> [Servers -> Nat]]
    <2>1. next_index[s][m.src] \in Nat
        BY <1>0, <1>4
    <2>2. CASE /\ match_index' = [match_index EXCEPT ![s][m.src] = m.match_index]
               /\ next_index' = [next_index EXCEPT ![s][m.src] = m.match_index + 1]
        BY <1>0, <1>4, <2>2, IndexUpdated
    <2>3. CASE /\ next_index[s][m.src] > 0
               /\ next_index' = [next_index EXCEPT ![s][m.src] = @ - 1]
               /\ match_index' = match_index
        <3>1. PICK n \in Nat : n = next_index[s][m.src] - 1
            BY <2>1, <2>3
        <3>2. next_index' = [next_index EXCEPT ![s][m.src] = n]
            BY <2>3, <3>1
        <3> QED
            BY <1>0, <1>4, <2>3, <3>2, IndexUpdated
    <2> QED
        BY <1>4, <1>5, <2>2, <2>3
<1>7. TypeOK'
    BY <1>0, <1>1, <1>2, <1>3, <1>6 DEF TypeOK, PacketOK
<1>8. LogsGrow /\ EntriesCopied /\ EntriesSentByLeaders
    BY <1>0, <1>1, Typed DEF TypeFacts, LogsGrow, EntriesCopied, EntriesSentByLeaders
<1>9. \A t \in Servers : commit_index[t] <= commit_index'[t]
    BY <1>0, <1>1 DEF TypeOK
<1>10. LogPacketsInv' /\ CommitInv'
    BY <1>0, <1>1, <1>7, <1>8, <1>9, TruthsKept, CommitKept DEF LogPacketsInv, CommitInv, IInv
<1>11. MatchInv'
    <2> SUFFICES ASSUME NEW t \in Servers, NEW u \in Servers
                 PROVE  Agree(t, u, match_index[t][u])'
        BY DEF MatchInv
    <2>1. CASE match_index'[t][u] = match_index[t][u]
        BY <1>7, <1>8, <1>9, <2>1, TruthsKept
    <2>2. CASE match_index'[t][u] # match_index[t][u]
        <3>1. t = s /\ u = m.src /\ m.success /\ match_index'[t][u] = m.match_index
            BY <1>0, <1>4, <1>5, <2>2
        <3>2. Agree(s, m.src, m.match_index)
            BY <1>0, <3>1 DEF IInv, LogPacketsInv, PacketTrue
        <3> QED
            BY <1>1, <3>1, <3>2 DEF Agree
    <2> QED
        BY <2>1, <2>2
<1> QED
    BY <1>2, <1>3, <1>7, <1>8, <1>10, <1>11, FromFacts

\* The entries that a packet brings are appended as they are.
LEMMA Appended ==
    ASSUME NEW l \in Seq(Entries), NEW term \in Terms, NEW v \in Values,
           NEW entry, entry = <<>> \/ entry = <<v>>
    PROVE  LET new == l \o [i \in DOMAIN entry |-> [term |-> term, value |-> entry[i]]]
           IN  /\ entry = <<>> => new = l
               /\ entry = <<v>> => new = Append(l, [term |-> term, value |-> v])
<1>1. CASE entry = <<>>
    <2>1. [i \in DOMAIN entry |-> [term |-> term, value |-> entry[i]]] = <<>>
        BY <1>1
    <2>2. entry # <<v>>
        BY <1>1
    <2> QED
        BY <2>1, <2>2, <1>1
<1>2. CASE entry = <<v>>
    <2>1. PICK e : e = [term |-> term, value |-> v]
        OBVIOUS
    <2>2. e \in Entries
        BY <2>1 DEF Entries
    <2>3. [i \in DOMAIN entry |-> [term |-> term, value |-> entry[i]]] = <<e>>
        <3>1. DOMAIN entry = {1} /\ entry[1] = v
            BY <1>2
        <3>2. [i \in {1} |-> e] = <<e>>
            OBVIOUS
        <3> QED
            BY <2>1, <3>1, <3>2
    <2>4. l \o <<e>> = Append(l, e)
        BY <2>2
    <2>5. entry # <<>>
        BY <1>2
    <2> QED
        BY <2>1, <2>3, <2>4, <2>5
<1> QED
    BY <1>1, <1>2

\* A follower accepts only what follows on a prefix that its log shares with the
\* sender's, for the term at the previous index identifies it.
LEMMA AcceptedAgrees ==
    ASSUME IInv, NEW s \in Servers, NEW m \in net, m.type = "AppendEntries",
           AcceptsEntries(s, m)
    PROVE  Agree(s, m.src, m.prev_index)
<1>0. /\ TypeOK /\ LeadersInv /\ m.src \in Servers /\ m.prev_index \in Nat /\ PacketTrue(m)
    BY PacketTerm DEF IInv, PacketOK, LogPacketsInv
<1>1. \A t \in Servers : Len(log[t]) \in Nat /\ DOMAIN log[t] = 1 .. Len(log[t])
    BY <1>0, Typed DEF TypeFacts
<1>2. CASE m.prev_index = 0
    BY <1>0, <1>1, <1>2 DEF Agree
<1>3. CASE m.prev_index > 0
    <2>1. m.prev_index \in DOMAIN log[s] /\ log[s][m.prev_index].term = m.prev_term
        BY <1>0, <1>1, <1>3 DEF AcceptsEntries
    <2>2. m.prev_term # 0
        BY <1>0, <2>1, Typed, TermsAreNat DEF TypeFacts
    <2>3. /\ m.prev_index \in DOMAIN log[m.src]
          /\ log[m.src][m.prev_index].term = m.prev_term
        BY <1>0, <2>2 DEF PacketTrue
    <2> QED
        BY <1>0, <2>1, <2>3, SameTermAgree
<1> QED
    BY <1>0, <1>2, <1>3

\* A log that an entry is appended to is a log.
LEMMA LogAppended ==
    ASSUME NEW f \in [Servers -> Seq(Entries)], NEW s \in Servers, NEW e \in Entries
    PROVE  [f EXCEPT ![s] = Append(@, e)] \in [Servers -> Seq(Entries)]
OBVIOUS

\* What an accepted packet does to the follower's log: it extends what it shares
\* with the leader's.
LEMMA AcceptedLog ==
    ASSUME IInv, NEW s \in Servers, NEW m \in net, m.dst = s, m.type = "AppendEntries",
           AcceptsEntries(s, m), CFollowerAppendEntries(s, m),
           NEW k, k = IF m.entry # <<>> THEN Len(log[s]) + 1 ELSE m.prev_index
    PROVE  /\ log' \in [Servers -> Seq(Entries)]
           /\ LogsGrow
           /\ \A i \in DOMAIN log'[s] : i \notin DOMAIN log[s] =>
                 i = m.prev_index + 1 /\ i = Len(log[s]) + 1 /\ m.entry # <<>>
                 /\ log'[s][i].term = m.term
           /\ k \in Nat /\ Agree(s, m.src, k)'
<1>0. /\ TypeOK /\ m.src \in Servers /\ m.src # s /\ m.term \in Terms /\ m.prev_index \in Nat
      /\ PacketTrue(m)
    BY PacketTerm DEF IInv, PacketOK, LogPacketsInv
<1>1. /\ log \in [Servers -> Seq(Entries)]
      /\ log' = [log EXCEPT
           ![s] = @ \o [i \in DOMAIN m.entry |-> [term |-> m.term, value |-> m.entry[i]]]]
    BY <1>0 DEF TypeOK, CFollowerAppendEntries
<1>2. Agree(s, m.src, m.prev_index)
    BY AcceptedAgrees
<1>3. \A t \in Servers : Len(log[t]) \in Nat /\ DOMAIN log[t] = 1 .. Len(log[t])
    BY <1>0, Typed DEF TypeFacts
<1>4. CASE m.entry = <<>>
    <2>1. log'[s] = log[s]
        BY <1>0, <1>1, <1>4
    <2>2. log' = log
        BY <1>1, <2>1
    <2> QED
        BY <1>0, <1>1, <1>2, <1>3, <1>4, <2>2 DEF LogsGrow, Agree
<1>5. CASE m.entry # <<>>
    <2>1. /\ m.prev_index + 1 \in DOMAIN log[m.src]
          /\ m.entry = <<log[m.src][m.prev_index + 1].value>>
          /\ m.prev_index = Len(log[s])
        BY <1>0, <1>5 DEF PacketTrue, AcceptsEntries
    <2>2. PICK v \in Values : v = log[m.src][m.prev_index + 1].value
        <3>1. log[m.src][m.prev_index + 1] \in Entries
            BY <1>0, <2>1, Typed DEF TypeFacts
        <3> QED
            BY <3>1 DEF Entries
    <2>3. PICK e \in Entries : e = [term |-> m.term, value |-> v]
        BY <1>0 DEF Entries
    <2>4. log'[s] = Append(log[s], e) /\ log[s] \in Seq(Entries)
        BY <1>0, <1>1, <2>1, <2>2, <2>3, Appended
    <2>5. log' = [log EXCEPT ![s] = Append(@, e)]
        BY <1>1, <2>4
    <2>6. log' \in [Servers -> Seq(Entries)]
        <3>1. [log EXCEPT ![s] = Append(@, e)] \in [Servers -> Seq(Entries)]
            BY <1>1, LogAppended, Zenon
        <3> QED
            BY <2>5, <3>1, Zenon
    <2>7. LogsGrow
        BY <1>1, <2>5 DEF LogsGrow
    <2>8. /\ Len(log'[s]) = Len(log[s]) + 1
          /\ DOMAIN log'[s] = 1 .. (Len(log[s]) + 1)
          /\ log'[s][Len(log[s]) + 1] = e
          /\ \A i \in 1 .. Len(log[s]) : log'[s][i] = log[s][i]
          /\ log'[m.src] = log[m.src]
        BY <1>0, <1>1, <2>4, <2>5
    <2>9. \A i \in DOMAIN log'[s] : i \notin DOMAIN log[s] =>
             i = m.prev_index + 1 /\ i = Len(log[s]) + 1 /\ m.entry # <<>>
             /\ log'[s][i].term = m.term
        BY <1>3, <1>5, <2>1, <2>3, <2>8
    <2>10. k \in Nat /\ k = Len(log[s]) + 1
        BY <1>3, <1>5
    <2>11. Agree(s, m.src, k)'
        <3>1. k <= Len(log'[s]) /\ k <= Len(log'[m.src])
            BY <1>0, <1>3, <2>1, <2>8, <2>10
        <3>2. ASSUME NEW i \in 1 .. k PROVE log'[s][i].value = log'[m.src][i].value
            <4>1. CASE i = k
                BY <2>1, <2>2, <2>3, <2>8, <2>10, <4>1
            <4>2. CASE i # k
                <5>1. i \in 1 .. Len(log[s]) /\ i \in 1 .. m.prev_index
                    BY <1>3, <2>1, <2>10, <4>2
                <5> QED
                    BY <1>2, <2>8, <5>1 DEF Agree
            <4> QED
                BY <4>1, <4>2
        <3> QED
            BY <3>1, <3>2 DEF Agree
    <2> QED
        BY <2>6, <2>7, <2>9, <2>10, <2>11
<1> QED
    BY <1>4, <1>5

\* The commit index of a follower stays within what it shares with the leader, and
\* so within what a majority holds.
LEMMA FollowerCommitHeld ==
    ASSUME IInv, TypeOK', LogsGrow, NEW s \in Servers, NEW m \in net, m.type = "AppendEntries",
           NEW k \in Nat, Agree(s, m.src, k)', NEW n \in Nat, n <= k, n <= m.leader_commit,
           n > 0, commit_index'[s] = n
    PROVE  CommittedHeld(s)'
<1>0. /\ TypeOK /\ m.src \in Servers /\ m.leader_commit \in Nat /\ PacketTrue(m)
      /\ commit_index[m.src] \in Nat /\ CommittedHeld(m.src)
    BY PacketTerm DEF IInv, PacketOK, LogPacketsInv, TypeOK, CommitInv
<1>1. /\ m.leader_commit <= commit_index[m.src] /\ commit_index[m.src] > 0
      /\ n <= commit_index[m.src]
    BY <1>0 DEF PacketTrue
<1>2. \A t \in Servers : Len(log'[t]) \in Nat
    BY TypedNext DEF TypeFacts
<1>3. Agree(s, m.src, n)'
    BY <1>0, <1>2 DEF Agree
<1>4. ASSUME NEW t \in Servers, Agree(m.src, t, commit_index[m.src]) PROVE Agree(s, t, n)'
    <2>1. Agree(m.src, t, n)
        BY <1>0, <1>1, <1>4, AgreeBelow
    <2>2. Agree(m.src, t, n)'
        BY <1>0, <2>1, AgreeGrows
    <2> QED
        BY <1>3, <2>2 DEF Agree
<1>5. IsQuorum({t \in Servers : Agree(s, t, n)'})
    <2>1. {t \in Servers : Agree(m.src, t, commit_index[m.src])}
             \subseteq {t \in Servers : Agree(s, t, n)'}
        BY <1>4
    <2>2. IsQuorum({t \in Servers : Agree(m.src, t, commit_index[m.src])})
        BY <1>0, <1>1 DEF CommittedHeld
    <2> QED
        BY <2>1, <2>2, QuorumGrows
<1>6. n <= Len(log'[s])
    BY <1>3 DEF Agree
<1> QED
    BY <1>5, <1>6 DEF CommittedHeld, Agree, IsQuorum

\* The answer to an accepted packet, and the follower after it.
LEMMA AcceptStep ==
    ASSUME IInv, NEW s \in Servers, NEW m \in net, m.dst = s, m.type = "AppendEntries",
           AcceptsEntries(s, m), CFollowerAppendEntries(s, m),
           UNCHANGED <<match_index, next_index>>
    PROVE  IInv'
<1>0. /\ TypeOK /\ LeadersElected /\ m.src \in Servers /\ m.src # s /\ m.term \in Terms
      /\ m.prev_index \in Nat /\ m.leader_commit \in Nat
      /\ commit_index \in [Servers -> Nat] /\ \A p \in net : PacketOK(p)
    BY PacketTerm DEF IInv, PacketOK, TypeOK
<1>1. /\ log' = [log EXCEPT
           ![s] = @ \o [i \in DOMAIN m.entry |-> [term |-> m.term, value |-> m.entry[i]]]]
      /\ commit_index' = [commit_index EXCEPT ![s] = FollowerCommit(s, m)]
      /\ current_term' = [current_term EXCEPT ![s] = m.term]
      /\ voted_for' = [voted_for EXCEPT ![s] = VotedForAfter(s, m.term)]
      /\ votes_granted' = [votes_granted EXCEPT ![s] = VotesAfter(s, m.term)]
      /\ role' = [role EXCEPT ![s] = "Follower"]
    BY DEF CFollowerAppendEntries
<1>2. TermAfter(s, m.term) = m.term
    <2>1. m.term \in Nat /\ current_term[s] \in Nat
        BY <1>0, Typed, TermsAreNat DEF TypeFacts
    <2> QED
        BY <2>1 DEF AcceptsEntries, TermAfter, StepsDown
<1>3. PICK k : k = IF m.entry # <<>> THEN Len(log[s]) + 1 ELSE m.prev_index
    OBVIOUS
<1>4. /\ log' \in [Servers -> Seq(Entries)] /\ LogsGrow /\ k \in Nat /\ Agree(s, m.src, k)'
      /\ \A i \in DOMAIN log'[s] : i \notin DOMAIN log[s] =>
            i = Len(log[s]) + 1 /\ m.entry # <<>> /\ log'[s][i].term = m.term
    BY <1>3, AcceptedLog, Zenon
<1>5. \A p \in net' : p \in net \/ p = AppendResponse(s, m.src, m.term, TRUE, k)
    <2>1. Send({AppendResponse(s, m.src, m.term, TRUE,
                               IF m.entry # <<>> THEN Len(log[s]) + 1 ELSE m.prev_index)})
        BY DEF CFollowerAppendEntries
    <2>2. Send({AppendResponse(s, m.src, m.term, TRUE, k)})
        BY <1>3, <2>1, Zenon
    <2>3. net' \subseteq net \cup {AppendResponse(s, m.src, m.term, TRUE, k)}
        BY <2>2, SendAdds, Zenon
    <2> QED
        BY <2>3
<1>6. /\ VotesKept
      /\ current_term' \in [Servers -> Terms \cup {0}]
      /\ voted_for' \in [Servers -> Servers \cup {Nobody}]
      /\ votes_granted' \in [Servers -> SUBSET Servers]
    <2>1. \A p \in net' : p.type = "VoteResponse" => p \in net
        BY <1>5 DEF AppendResponse
    <2> QED
        BY <1>0, <1>1, <1>2, <2>1, StepDownVotes
<1>7. /\ role' \in [Servers -> {"Follower", "Candidate", "Leader"}]
      /\ \A t \in Servers : role'[t] # "Follower" => current_term'[t] \in Terms
      /\ LeadersElected'
    BY <1>0, <1>1, <1>2, StepDownRoles
<1>8. PICK n : n = FollowerCommit(s, m)
    OBVIOUS
<1>9. /\ n \in Nat /\ commit_index[s] \in Nat /\ commit_index[s] <= n
      /\ n # commit_index[s] => n <= k /\ n <= m.leader_commit /\ n > 0
    <2>1. commit_index[s] \in Nat
        BY <1>0
    <2> QED
        BY <1>0, <1>3, <1>4, <1>8, <2>1 DEF FollowerCommit
<1>10. commit_index' = [commit_index EXCEPT ![s] = n] /\ commit_index'[s] = n
    BY <1>0, <1>1, <1>8
<1>11. TypeOK'
    <2>1. \A p \in net' : PacketOK(p)
        <3>1. k \in Nat
            BY <1>4
        <3>2. PacketOK(AppendResponse(s, m.src, m.term, TRUE, k))
            BY <1>0, <3>1 DEF AppendResponse, PacketOK
        <3> QED
            BY <1>0, <1>5, <3>2, Zenon
    <2>2. commit_index' \in [Servers -> Nat]
        BY <1>0, <1>9, <1>10
    <2> QED
        BY <1>0, <1>4, <1>6, <1>7, <2>1, <2>2 DEF TypeOK, PacketOK
<1>12. \A t \in Servers : commit_index[t] <= commit_index'[t]
    BY <1>0, <1>9, <1>10
<1>13. EntriesSentByLeaders
    BY <1>5 DEF EntriesSentByLeaders, AppendResponse
<1>14. EntriesCopied
    <2> SUFFICES ASSUME NEW t \in Servers, NEW i \in DOMAIN log'[t], i \notin DOMAIN log[t]
                 PROVE  \E p \in net : /\ p.type = "AppendEntries" /\ p.term = log'[t][i].term
                                        /\ Agree(t, p.src, i)'
        BY DEF EntriesCopied
    <2>1. t = s
        <3>1. log \in [Servers -> Seq(Entries)]
            BY <1>0 DEF TypeOK
        <3>2. t # s => log'[t] = log[t]
            BY <1>1, <3>1
        <3> QED
            BY <3>2
    <2>2. i = k /\ log'[t][i].term = m.term
        BY <1>3, <1>4, <2>1
    <2> QED
        BY <1>4, <2>1, <2>2
<1>15. LogPacketsInv'
    <2> SUFFICES ASSUME NEW p \in net' PROVE PacketTrue(p)'
        BY DEF LogPacketsInv
    <2>1. CASE p \in net
        BY <1>4, <1>11, <1>12, <2>1, TruthsKept
    <2>2. CASE p = AppendResponse(s, m.src, m.term, TRUE, k)
        <3>1. /\ p.type = "AppendResponse" /\ p.dst = m.src /\ p.src = s /\ p.match_index = k
            BY <2>2 DEF AppendResponse
        <3>2. Agree(m.src, s, k)'
            BY <1>4 DEF Agree
        <3> QED
            BY <3>1, <3>2 DEF PacketTrue
    <2> QED
        BY <1>5, <2>1, <2>2
<1>16. MatchInv'
    BY <1>4, <1>11, <1>12, TruthsKept DEF MatchInv
<1>17. CommitInv'
    <2> SUFFICES ASSUME NEW t \in Servers PROVE CommittedHeld(t)'
        BY DEF CommitInv
    <2>1. CASE commit_index'[t] = commit_index[t]
        BY <1>4, <1>11, <2>1, CommitKept DEF IInv
    <2>2. CASE commit_index'[t] # commit_index[t]
        <3>1. t = s /\ n # commit_index[s]
            BY <1>0, <1>10, <2>2
        <3> QED
            BY <1>4, <1>9, <1>10, <1>11, <3>1, FollowerCommitHeld
    <2> QED
        BY <2>1, <2>2
<1> QED
    BY <1>4, <1>6, <1>7, <1>11, <1>13, <1>14, <1>15, <1>16, <1>17, FromFacts

\* A request to append, accepted or refused.
LEMMA AppendEntriesStep ==
    ASSUME IInv, NEW s \in Servers, NEW m \in net, m.dst = s, CHandleAppendEntriesMsg(s, m)
    PROVE  IInv'
<1>0. /\ TypeOK /\ LeadersElected /\ m.term \in Terms /\ m.src \in Servers /\ m.src # s
      /\ m.type = "AppendEntries" /\ \A p \in net : PacketOK(p)
    BY PacketTerm DEF IInv, PacketOK, TypeOK, CHandleAppendEntriesMsg
<1>1. CASE AcceptsEntries(s, m)
    BY <1>0, <1>1, AcceptStep DEF CHandleAppendEntriesMsg
<1>2. CASE ~AcceptsEntries(s, m)
    <2>1. /\ Cstep_down_if_needed(s, m.term)
          /\ Send({AppendResponse(s, m.src, TermAfter(s, m.term), FALSE, 0)})
          /\ UNCHANGED <<log, commit_index, match_index, next_index>>
        BY <1>2 DEF CHandleAppendEntriesMsg
    <2>2. PICK r : r = AppendResponse(s, m.src, TermAfter(s, m.term), FALSE, 0)
        OBVIOUS
    <2>3. \A p \in net' : p \in net \/ p = r
        <3>1. Send({r})
            BY <2>1, <2>2, Zenon
        <3>2. net' \subseteq net \cup {r}
            BY <3>1, SendAdds, Zenon
        <3> QED
            BY <3>2
    <2>4. TermAfter(s, m.term) \in Terms
        <3>1. /\ m.term \in Nat /\ m.term # 0 /\ current_term[s] \in Nat
              /\ current_term[s] \in Terms \cup {0}
            BY <1>0, Typed, TermsAreNat DEF TypeFacts
        <3> QED
            BY <1>0, <3>1 DEF TermAfter, StepsDown
    <2>5. r.type = "AppendResponse" /\ ~r.success /\ PacketOK(r)
        BY <1>0, <2>2, <2>4 DEF AppendResponse, PacketOK
    <2>6. /\ VotesKept
          /\ current_term' \in [Servers -> Terms \cup {0}]
          /\ voted_for' \in [Servers -> Servers \cup {Nobody}]
          /\ votes_granted' \in [Servers -> SUBSET Servers]
        BY <1>0, <2>1, <2>3, <2>5, StepDownVotes DEF Cstep_down_if_needed
    <2>7. /\ role' \in [Servers -> {"Follower", "Candidate", "Leader"}]
          /\ \A t \in Servers : role'[t] # "Follower" => current_term'[t] \in Terms
          /\ LeadersElected'
        BY <1>0, <2>1, StepDownRoles DEF Cstep_down_if_needed
    <2>8. TypeOK'
        <3>1. \A p \in net' : PacketOK(p)
            BY <1>0, <2>3, <2>5
        <3> QED
            BY <1>0, <2>1, <2>6, <2>7, <3>1 DEF TypeOK, PacketOK
    <2>9. LogsGrow /\ EntriesCopied /\ EntriesSentByLeaders
        BY <1>0, <2>1, <2>3, <2>5, Typed
        DEF TypeFacts, LogsGrow, EntriesCopied, EntriesSentByLeaders
    <2>10. \A t \in Servers : commit_index[t] <= commit_index'[t]
        BY <1>0, <2>1 DEF TypeOK
    <2>11. MatchInv' /\ CommitInv'
        BY <1>0, <2>1, <2>8, <2>9, <2>10, TruthsKept, CommitKept DEF MatchInv, CommitInv, IInv
    <2>12. LogPacketsInv'
        <3> SUFFICES ASSUME NEW p \in net' PROVE PacketTrue(p)'
            BY DEF LogPacketsInv
        <3>1. CASE p \in net
            BY <2>8, <2>9, <2>10, <3>1, TruthsKept
        <3>2. CASE p = r
            BY <2>5, <3>2 DEF PacketTrue
        <3> QED
            BY <2>3, <3>1, <3>2
    <2> QED
        BY <2>6, <2>7, <2>8, <2>9, <2>11, <2>12, FromFacts
<1> QED
    BY <1>1, <1>2

\* Nobody has voted, led or stored anything at first.
LEMMA RaftInit == CInit => IInv
<1> SUFFICES ASSUME CInit PROVE IInv
    OBVIOUS
<1> USE DEF CInit
<1>1. TypeOK
    <2>1. match_index \in [Servers -> [Servers -> Nat]] /\ next_index \in [Servers -> [Servers -> Nat]]
        OBVIOUS
    <2>2. log \in [Servers -> Seq(Entries)]
        OBVIOUS
    <2>3. votes_granted \in [Servers -> SUBSET Servers] /\ voted_for \in [Servers -> Servers \cup {Nobody}]
        OBVIOUS
    <2> QED
        BY <2>1, <2>2, <2>3 DEF TypeOK
<1>2. VotesInv
    BY RaftAssumption, TermsAreNat DEF VotesInv, VoteSeen
<1>3. LeadersElected /\ LeadersInv
    BY DEF LeadersElected, LeadersInv, TermUsed, LeadsIn
<1>4. LogPacketsInv /\ MatchInv /\ CommitInv
    BY DEF LogPacketsInv, MatchInv, CommitInv, CommittedHeld, Agree
<1> QED
    BY <1>1, <1>2, <1>3, <1>4 DEF IInv

\* Every step of a server preserves the invariant.
LEMMA RaftStep == IInv /\ [Next]_vars => IInv'
<1> SUFFICES ASSUME IInv, [Next]_vars PROVE IInv'
    OBVIOUS
<1>1. ASSUME NEW s \in Servers, NEW m \in net, CHandleMessage(s, m) PROVE IInv'
    BY <1>1, RequestVoteStep, VoteResponseStep, AppendEntriesStep, AppendResponseStep
    DEF CHandleMessage
<1>2. CASE UNCHANGED vars
    <2>1. /\ UNCHANGED <<current_term, role, voted_for, log, commit_index, votes_granted>>
          /\ UNCHANGED <<match_index, next_index, net>>
        BY <1>2 DEF vars
    <2>2. TypeOK'
        BY <2>1 DEF IInv, TypeOK, PacketOK
    <2>3. VotesKept /\ LeadersElected'
        BY <2>1, NoVoteTouched
    <2>4. /\ LogsGrow /\ EntriesSentByLeaders /\ EntriesCopied
          /\ LogPacketsInv' /\ MatchInv' /\ CommitInv'
        BY <2>1, <2>2, ElectionStepKeepsLogs
    <2> QED
        BY <2>2, <2>3, <2>4, FromFacts
<1> QED
    BY <1>1, <1>2, TimeoutStep, HeartbeatStep, AdvanceStep, ClientRequestStep DEF Next

\* Values that agree entry by entry are the same sequence of values.
LEMMA AgreeSamePrefix ==
    ASSUME TypeOK, NEW s \in Servers, NEW t \in Servers, NEW n \in Nat, Agree(s, t, n)
    PROVE  SamePrefix(s, t, n)
<1>1. \A u \in Servers : Len(log[u]) \in Nat /\ DOMAIN log[u] = 1 .. Len(log[u])
    BY Typed DEF TypeFacts
<1>2. n <= Len(log[s]) /\ n <= Len(log[t])
    BY DEF Agree
<1>3. ASSUME NEW u \in Servers, n <= Len(log[u])
      PROVE  SubSeq(ValuesOf(log[u]), 1, n) = [i \in 1 .. n |-> log[u][i].value]
    BY <1>1, <1>3 DEF ValuesOf
<1> QED
    BY <1>2, <1>3 DEF SamePrefix, Agree

-----------------------------------------------------------------------------
(***************************************************************************)
(* Raft: the properties, and one committed log.                            *)
(***************************************************************************)
\* Among finitely many numbers one is the largest.
LEMMA LargestExists ==
    ASSUME NEW S, IsFiniteSet(S), S # {}, NEW f \in [S -> Nat]
    PROVE  \E s \in S : \A t \in S : f[t] <= f[s]
<1> DEFINE above(s) == {t \in S : f[t] > f[s]}
           T == {Cardinality(above(s)) : s \in S}
<1>1. \A s \in S : f[s] \in Nat /\ IsFiniteSet(above(s)) /\ Cardinality(above(s)) \in Nat
    BY FS_Subset, FS_CardinalityType
<1>2. T \subseteq Nat /\ T # {}
    BY <1>1
<1>3. PICK x \in T : \A y \in T : ~(<<y, x>> \in OpToRel(<, Nat))
    BY <1>2, WFMin, NatLessThanWellFounded, Zenon
<1>4. \A y \in T : ~(y < x)
    BY <1>2, <1>3, Zenon DEF OpToRel
<1>5. PICK s \in S : x = Cardinality(above(s))
    BY <1>3
<1>6. ASSUME NEW t \in S, f[t] > f[s] PROVE FALSE
    <2>1. above(t) \subseteq above(s) /\ t \in above(s) /\ t \notin above(t)
        BY <1>1, <1>6
    <2>2. Cardinality(above(t)) < Cardinality(above(s))
        <3>1. Cardinality(above(t)) <= Cardinality(above(s)) /\ above(t) # above(s)
            BY <1>1, <2>1, FS_Subset
        <3>2. Cardinality(above(t)) # Cardinality(above(s))
            BY <1>1, <2>1, FS_Subset
        <3> HIDE DEF above
        <3> QED
            BY <1>1, <3>1, <3>2
    <2> QED
        BY <1>4, <1>5, <2>2
<1> QED
    BY <1>1, <1>5, <1>6

\* A request to append extends at most one log and moves one commit index forward.
LEMMA AppendEntriesGrows ==
    ASSUME IInv, NEW s \in Servers, NEW m \in net, m.dst = s, CHandleAppendEntriesMsg(s, m)
    PROVE  /\ LogsGrow
           /\ \/ commit_index' = commit_index
              \/ \E n \in Nat :
                    n > commit_index[s] /\ commit_index' = [commit_index EXCEPT ![s] = n]
<1>0. /\ TypeOK /\ m.type = "AppendEntries" /\ m.prev_index \in Nat /\ m.leader_commit \in Nat
      /\ commit_index \in [Servers -> Nat] /\ \A t \in Servers : Len(log[t]) \in Nat
    BY PacketTerm, Typed DEF IInv, PacketOK, TypeOK, TypeFacts, CHandleAppendEntriesMsg
<1>1. CASE AcceptsEntries(s, m)
    <2>1. CFollowerAppendEntries(s, m)
        BY <1>1 DEF CHandleAppendEntriesMsg
    <2>2. PICK k : k = IF m.entry # <<>> THEN Len(log[s]) + 1 ELSE m.prev_index
        OBVIOUS
    <2>3. LogsGrow
        BY <1>0, <1>1, <2>1, <2>2, AcceptedLog, Zenon
    <2>4. PICK n : n = FollowerCommit(s, m)
        OBVIOUS
    <2>5. n \in Nat /\ commit_index[s] \in Nat /\ n >= commit_index[s]
        <3>1. commit_index[s] \in Nat /\ Len(log[s]) \in Nat
            BY <1>0
        <3> QED
            BY <1>0, <2>4, <3>1 DEF FollowerCommit
    <2>6. commit_index' = [commit_index EXCEPT ![s] = n]
        BY <2>1, <2>4 DEF CFollowerAppendEntries
    <2>7. CASE n = commit_index[s]
        <3>1. commit_index' = commit_index
            BY <1>0, <2>6, <2>7
        <3> QED
            BY <2>3, <3>1
    <2>8. CASE n > commit_index[s]
        BY <2>3, <2>5, <2>6, <2>8
    <2> QED
        BY <2>5, <2>7, <2>8
<1>2. CASE ~AcceptsEntries(s, m)
    BY <1>0, <1>2 DEF CHandleAppendEntriesMsg, LogsGrow
<1> QED
    BY <1>1, <1>2

\* So does every step.
LEMMA LogsOnlyGrow ==
    ASSUME IInv, [Next]_vars
    PROVE  /\ LogsGrow
           /\ \/ commit_index' = commit_index
              \/ \E s \in Servers, n \in Nat :
                    n > commit_index[s] /\ commit_index' = [commit_index EXCEPT ![s] = n]
<1>0. /\ TypeOK /\ log \in [Servers -> Seq(Entries)] /\ commit_index \in [Servers -> Nat]
      /\ \A s \in Servers : Len(log[s]) \in Nat
    BY Typed DEF IInv, TypeOK, TypeFacts
<1>1. log' = log => LogsGrow
    BY <1>0 DEF LogsGrow
<1>2. ASSUME NEW s \in Servers,
             CTimeout(s) \/ leader_heartbeat(s)
      PROVE  LogsGrow /\ commit_index' = commit_index
    BY <1>1, <1>2 DEF CTimeout, leader_heartbeat
<1>3. ASSUME NEW s \in Servers, CTryAdvanceCommitIndex(s)
      PROVE  /\ LogsGrow
             /\ \E n \in Nat :
                   n > commit_index[s] /\ commit_index' = [commit_index EXCEPT ![s] = n]
    <2>1. commit_index[s] \in Nat /\ Len(log[s]) \in Nat
        BY <1>0
    <2>2. PICK n \in Committable(s) : commit_index' = [commit_index EXCEPT ![s] = n]
        BY <1>3 DEF CTryAdvanceCommitIndex
    <2>3. n \in Nat /\ n > commit_index[s]
        BY <2>1 DEF Committable
    <2>4. LogsGrow
        BY <1>1, <1>3 DEF CTryAdvanceCommitIndex
    <2> QED
        BY <2>2, <2>3, <2>4
<1>4. ASSUME NEW s \in Servers, NEW v \in Values, CClientRequest(s, v)
      PROVE  LogsGrow /\ commit_index' = commit_index
    <2>1. PICK e : e = [term |-> current_term[s], value |-> v]
        OBVIOUS
    <2>2. /\ log' = [log EXCEPT ![s] = Append(@, e)] /\ commit_index' = commit_index
          /\ current_term[s] \in Terms
        BY <1>0, <1>4, <2>1 DEF CClientRequest, TypeOK
    <2>3. e \in Entries
        BY <2>1, <2>2 DEF Entries
    <2> QED
        BY <1>0, <2>2, <2>3 DEF LogsGrow
<1>5. ASSUME NEW s \in Servers, NEW m \in net, CHandleMessage(s, m)
      PROVE  /\ LogsGrow
             /\ \/ commit_index' = commit_index
                \/ \E n \in Nat :
                      n > commit_index[s] /\ commit_index' = [commit_index EXCEPT ![s] = n]
    <2>1. CASE CHandleAppendEntriesMsg(s, m)
        BY <1>5, <2>1, AppendEntriesGrows DEF CHandleMessage
    <2> QED
        BY <1>1, <1>5, <2>1 DEF CHandleMessage, CHandleRequestVoteMsg, CHandleVoteResponseMsg,
            CHandleAppendResponseMsg
<1>6. CASE UNCHANGED vars
    BY <1>1, <1>6 DEF vars
<1> QED
    BY <1>2, <1>3, <1>4, <1>5, <1>6 DEF Next

\* A committed sequence of values, value by value.
LEMMA CommittedIs ==
    ASSUME TypeOK, CommitInv, NEW s \in Servers
    PROVE  /\ CommittedValues(s) = [i \in 1 .. commit_index[s] |-> log[s][i].value]
           /\ CommittedValues(s) \in Seq(Values)
           /\ Len(CommittedValues(s)) = commit_index[s] /\ commit_index[s] \in Nat
<1>1. /\ Len(log[s]) \in Nat /\ DOMAIN log[s] = 1 .. Len(log[s])
      /\ \A i \in 1 .. Len(log[s]) : log[s][i] \in Entries
    BY Typed DEF TypeFacts
<1>2. commit_index[s] \in Nat /\ commit_index[s] <= Len(log[s])
    BY DEF TypeOK, CommitInv, CommittedHeld
<1>3. CommittedValues(s) = [i \in 1 .. commit_index[s] |-> log[s][i].value]
    BY <1>1, <1>2 DEF CommittedValues, ValuesOf
<1>4. \A i \in 1 .. commit_index[s] : log[s][i].value \in Values
    BY <1>1, <1>2 DEF Entries
<1>5. CommittedValues(s) \in [1 .. commit_index[s] -> Values]
    BY <1>3, <1>4
<1> QED
    BY <1>2, <1>3, <1>5

\* What two servers have committed agrees: a server of both majorities holds both.
LEMMA CommittedAgree ==
    ASSUME IInv, NEW s \in Servers, NEW t \in Servers, commit_index[s] <= commit_index[t]
    PROVE  \A i \in 1 .. commit_index[s] : log[s][i].value = log[t][i].value
<1>0. /\ commit_index[s] \in Nat /\ commit_index[t] \in Nat
      /\ CommittedHeld(s) /\ CommittedHeld(t)
    BY DEF IInv, TypeOK, CommitInv
<1>1. CASE commit_index[s] = 0
    BY <1>1
<1>2. CASE commit_index[s] > 0
    <2>1. /\ IsQuorum({u \in Servers : Agree(s, u, commit_index[s])})
          /\ IsQuorum({u \in Servers : Agree(t, u, commit_index[t])})
        BY <1>0, <1>2 DEF CommittedHeld
    <2>2. \E u \in Servers : /\ u \in {w \in Servers : Agree(s, w, commit_index[s])}
                             /\ u \in {w \in Servers : Agree(t, w, commit_index[t])}
        BY <2>1, QuorumsMeet
    <2>3. PICK u \in Servers : Agree(s, u, commit_index[s]) /\ Agree(t, u, commit_index[t])
        BY <2>2
    <2> QED
        BY <1>0, <2>3 DEF Agree
<1> QED
    BY <1>0, <1>1, <1>2

\* A sequence that another one continues is a prefix of it.
LEMMA PrefixRule ==
    ASSUME NEW V, NEW a \in Seq(V), NEW b \in Seq(V), Len(a) <= Len(b),
           \A i \in 1 .. Len(a) : a[i] = b[i]
    PROVE  Log!IsPrefix(a, b)
<1>1. SubSeq(a, 1, Len(a)) = SubSeq(b, 1, Len(a))
    OBVIOUS
<1> QED
    BY <1>1 DEF Log!IsPrefix

\* The longest committed sequence is some server's, and every server's is a prefix.
LEMMA LongestIs ==
    ASSUME IInv
    PROVE  /\ LongestCommitted \in Seq(Values)
           /\ \E c \in Servers : LongestCommitted = CommittedValues(c)
           /\ \A t \in Servers : /\ commit_index[t] <= Len(LongestCommitted)
                                 /\ \A i \in 1 .. commit_index[t] :
                                       LongestCommitted[i] = log[t][i].value
<1>0. TypeOK /\ CommitInv /\ commit_index \in [Servers -> Nat]
    BY DEF IInv, TypeOK
<1>1. PICK c : c = CHOOSE s \in Servers : \A t \in Servers : commit_index[t] <= commit_index[s]
    OBVIOUS
<1>2. c \in Servers /\ \A t \in Servers : commit_index[t] <= commit_index[c]
    <2>1. \E s \in Servers : \A t \in Servers : commit_index[t] <= commit_index[s]
        BY <1>0, RaftAssumption, LargestExists
    <2> QED
        BY <1>1, <2>1
<1>3. LongestCommitted = CommittedValues(c)
    BY <1>1 DEF LongestCommitted
<1>4. /\ CommittedValues(c) = [i \in 1 .. commit_index[c] |-> log[c][i].value]
      /\ CommittedValues(c) \in Seq(Values)
      /\ Len(CommittedValues(c)) = commit_index[c] /\ commit_index[c] \in Nat
    BY <1>0, <1>2, CommittedIs
<1>5. ASSUME NEW t \in Servers
      PROVE  /\ commit_index[t] <= Len(LongestCommitted)
             /\ \A i \in 1 .. commit_index[t] : LongestCommitted[i] = log[t][i].value
    <2>1. commit_index[t] \in Nat /\ commit_index[t] <= commit_index[c]
        BY <1>0, <1>2
    <2>2. \A i \in 1 .. commit_index[t] : log[t][i].value = log[c][i].value
        BY <1>2, <2>1, CommittedAgree
    <2> QED
        BY <1>3, <1>4, <2>1, <2>2
<1> QED
    BY <1>2, <1>3, <1>4, <1>5

\* The same after a step.
LongestFacts ==
    /\ LongestCommitted \in Seq(Values)
    /\ \E c \in Servers : LongestCommitted = CommittedValues(c)
    /\ \A t \in Servers :
          /\ commit_index[t] <= Len(LongestCommitted)
          /\ \A i \in 1 .. commit_index[t] : LongestCommitted[i] = log[t][i].value
    /\ \A t \in Servers :
          /\ CommittedValues(t) = [i \in 1 .. commit_index[t] |-> log[t][i].value]
          /\ CommittedValues(t) \in Seq(Values)
          /\ Len(CommittedValues(t)) = commit_index[t] /\ commit_index[t] \in Nat
          /\ \A i \in 1 .. commit_index[t] : CommittedValues(t)[i] = log[t][i].value

\* The committed sequences and the longest of them, in one fact.
LEMMA Longest == IInv => LongestFacts
<1> SUFFICES ASSUME IInv PROVE LongestFacts
    OBVIOUS
<1>1. TypeOK /\ CommitInv
    BY DEF IInv
<1>2. \A t \in Servers :
         /\ CommittedValues(t) = [i \in 1 .. commit_index[t] |-> log[t][i].value]
         /\ CommittedValues(t) \in Seq(Values)
         /\ Len(CommittedValues(t)) = commit_index[t] /\ commit_index[t] \in Nat
    BY <1>1, CommittedIs
<1>3. \A t \in Servers : \A i \in 1 .. commit_index[t] : CommittedValues(t)[i] = log[t][i].value
    BY <1>2
<1> QED
    BY <1>2, <1>3, LongestIs DEF LongestFacts

\* The same after a step.
LEMMA LongestNext == IInv' => LongestFacts'
BY Longest, PTL

\* A step of Raft is a step of the committed log, or leaves it alone.
LEMMA RaftLearns ==
    ASSUME IInv, IInv', [Next]_vars
    PROVE  [Log!Next]_<<LongestCommitted, [s \in Servers |-> CommittedValues(s)]>>
<1>0. LongestFacts /\ LongestFacts'
    BY Longest, LongestNext
<1>1. LogsGrow
    BY LogsOnlyGrow
<1>2. \A t \in Servers : /\ Len(log[t]) \in Nat /\ commit_index[t] <= Len(log[t])
                         /\ commit_index \in [Servers -> Nat]
    BY Typed DEF IInv, TypeFacts, CommitInv, CommittedHeld, TypeOK
<1>3. ASSUME NEW t \in Servers, commit_index'[t] = commit_index[t]
      PROVE  CommittedValues(t)' = CommittedValues(t)
    <2>0. /\ commit_index[t] \in Nat /\ Len(log[t]) \in Nat /\ commit_index[t] <= Len(log[t])
          /\ \A i \in 1 .. Len(log[t]) : log'[t][i] = log[t][i]
        BY <1>1, <1>2 DEF LogsGrow
    <2>1. \A i \in 1 .. commit_index[t] : log'[t][i] = log[t][i]
        BY <2>0
    <2>2. /\ CommittedValues(t) = [i \in 1 .. commit_index[t] |-> log[t][i].value]
          /\ CommittedValues(t)' = [i \in 1 .. commit_index'[t] |-> log'[t][i].value]
        BY <1>0 DEF LongestFacts
    <2> QED
        BY <1>3, <2>1, <2>2
<1>4. CASE commit_index' = commit_index
    <2>1. \A t \in Servers : CommittedValues(t)' = CommittedValues(t)
        BY <1>3, <1>4
    <2>2. PICK c \in Servers :
             c = CHOOSE s \in Servers : \A t \in Servers : commit_index[t] <= commit_index[s]
        <3>1. \E s \in Servers : \A t \in Servers : commit_index[t] <= commit_index[s]
            BY <1>2, RaftAssumption, LargestExists
        <3> QED
            BY <3>1
    <2>3. LongestCommitted = CommittedValues(c)
        BY <2>2 DEF LongestCommitted
    <2>4. LongestCommitted' = CommittedValues(c)'
        BY <1>4, <2>2 DEF LongestCommitted
    <2> QED
        BY <2>1, <2>3, <2>4
<1>5. ASSUME NEW s \in Servers, NEW n \in Nat, n > commit_index[s],
             commit_index' = [commit_index EXCEPT ![s] = n]
      PROVE  Log!Learn(s)
    <2>1. \A t \in Servers \ {s} : CommittedValues(t)' = CommittedValues(t)
        BY <1>2, <1>3, <1>5
    <2>2. \A t \in Servers : commit_index[t] <= commit_index'[t] /\ commit_index[t] \in Nat
        BY <1>2, <1>5
    <2>3. ASSUME NEW t \in Servers
          PROVE  /\ CommittedValues(t) \in Seq(Values) /\ CommittedValues(t)' \in Seq(Values)
                 /\ Len(CommittedValues(t)) = commit_index[t]
                 /\ Len(CommittedValues(t)') = commit_index'[t] /\ commit_index'[t] \in Nat
                 /\ commit_index'[t] <= Len(LongestCommitted')
                 /\ LongestCommitted' \in Seq(Values)
        BY <1>0 DEF LongestFacts
    <2>4. ASSUME NEW t \in Servers, NEW i \in 1 .. commit_index'[t]
          PROVE  CommittedValues(t)'[i] = LongestCommitted'[i]
        BY <1>0 DEF LongestFacts
    <2>5. ASSUME NEW t \in Servers, NEW i \in 1 .. commit_index[t]
          PROVE  i \in 1 .. commit_index'[t] /\ CommittedValues(t)[i] = CommittedValues(t)'[i]
        <3>0. /\ commit_index[t] \in Nat /\ commit_index'[t] \in Nat /\ Len(log[t]) \in Nat
              /\ commit_index[t] <= Len(log[t]) /\ commit_index[t] <= commit_index'[t]
            BY <1>2, <2>2, <2>3
        <3>1. i \in 1 .. commit_index'[t] /\ log'[t][i] = log[t][i]
            BY <1>1, <3>0 DEF LogsGrow
        <3>2. CommittedValues(t)[i] = log[t][i].value
            BY <1>0 DEF LongestFacts
        <3>3. CommittedValues(t)'[i] = log'[t][i].value
            BY <1>0, <3>1 DEF LongestFacts
        <3> QED
            BY <3>1, <3>2, <3>3
    <2>6. Log!IsStrictPrefix(CommittedValues(s), CommittedValues(s)')
        <3>1. Len(CommittedValues(s)) <= Len(CommittedValues(s)')
            BY <2>2, <2>3
        <3>2. \A i \in 1 .. Len(CommittedValues(s)) : CommittedValues(s)[i] = CommittedValues(s)'[i]
            BY <2>3, <2>5
        <3>3. Log!IsPrefix(CommittedValues(s), CommittedValues(s)')
            BY <2>3, <3>1, <3>2, PrefixRule
        <3>4. CommittedValues(s) # CommittedValues(s)'
            <4>1. commit_index'[s] # commit_index[s]
                BY <1>2, <1>5, <2>2
            <4> QED
                BY <2>3, <4>1
        <3> QED
            BY <3>3, <3>4 DEF Log!IsStrictPrefix
    <2>7. Log!IsPrefix(CommittedValues(s)', LongestCommitted')
        <3>1. \A i \in 1 .. Len(CommittedValues(s)') : CommittedValues(s)'[i] = LongestCommitted'[i]
            BY <2>3, <2>4
        <3>2. Len(CommittedValues(s)') <= Len(LongestCommitted')
            BY <2>3
        <3> QED
            BY <2>3, <3>1, <3>2, PrefixRule
    <2>8. Log!IsPrefix(LongestCommitted, LongestCommitted')
        <3>1. PICK c \in Servers : LongestCommitted = CommittedValues(c)
            BY <1>0 DEF LongestFacts
        <3>2. Len(LongestCommitted) <= Len(LongestCommitted') /\ LongestCommitted \in Seq(Values)
            <4>1. /\ commit_index[c] \in Nat /\ commit_index'[c] \in Nat
                  /\ commit_index[c] <= commit_index'[c]
                BY <2>2, <2>3
            <4>2. Len(LongestCommitted') \in Nat
                BY <2>3
            <4> QED
                BY <2>3, <3>1, <4>1, <4>2
        <3>3. \A i \in 1 .. Len(LongestCommitted) : LongestCommitted[i] = LongestCommitted'[i]
            BY <2>3, <2>4, <2>5, <3>1
        <3> QED
            BY <2>3, <3>2, <3>3, PrefixRule
    <2> QED
        BY <2>1, <2>3, <2>6, <2>7, <2>8 DEF Log!Learn
<1> QED
    BY <1>4, <1>5, LogsOnlyGrow DEF Log!Next

\* Initially nothing is committed.
LEMMA RaftLogInit == CInit => Log!Init
<1> SUFFICES ASSUME CInit PROVE Log!Init
    OBVIOUS
<1>1. LongestFacts
    BY RaftInit, Longest
<1>2. \A s \in Servers : CommittedValues(s) = <<>>
    <2> SUFFICES ASSUME NEW s \in Servers PROVE CommittedValues(s) = <<>>
        OBVIOUS
    <2>1. commit_index[s] = 0
        BY DEF CInit
    <2>2. CommittedValues(s) \in Seq(Values) /\ Len(CommittedValues(s)) = 0
        BY <1>1, <2>1 DEF LongestFacts
    <2> QED
        BY <2>2
<1>3. LongestCommitted = <<>>
    BY <1>1, <1>2 DEF LongestFacts
<1> QED
    BY <1>2, <1>3 DEF Log!Init

-----------------------------------------------------------------------------
(***************************************************************************)
(* PBFT: what the primary assigns to a round, the nodes execute.           *)
(***************************************************************************)
\* The counting of the PBFT module is that of the library.
LEMMA SameBftCardinality ==
    /\ \A S : PBFTHost!Cardinality(S) = Cardinality(S)
    /\ \A S : PBFTHost!IsFiniteSet(S) = IsFiniteSet(S)
BY DEF PBFTHost!Cardinality, Cardinality, PBFTHost!IsFiniteSet, IsFiniteSet

\* What is assumed of the PBFT nodes and requests.
LEMMA BftStatic ==
    /\ IsFiniteSet(PbftNodes) /\ PbftPrimary \in PbftNodes /\ PBFTHost!Threshold \in Nat
    /\ PbftRequests \subseteq PbftClients \X PbftDigests
    /\ Nobody \notin PbftClients /\ Nobody \notin PbftDigests
BY LogHostsAssumption, SameBftCardinality DEF PBFTHost!PbftAssumption, PBFTHost!Threshold

\* A set of nodes that contains a quorum is one.
LEMMA BftQuorumGrows ==
    ASSUME NEW S \in SUBSET PbftNodes, NEW T \in SUBSET PbftNodes, S \subseteq T,
           PBFTHost!Cardinality(S) >= PBFTHost!Threshold
    PROVE  PBFTHost!Cardinality(T) >= PBFTHost!Threshold
<1>1. IsFiniteSet(T) /\ IsFiniteSet(S)
    BY BftStatic, FS_Subset
<1>2. Cardinality(S) <= Cardinality(T) /\ Cardinality(S) \in Nat /\ Cardinality(T) \in Nat
    BY <1>1, FS_Subset, FS_CardinalityType
<1> QED
    BY <1>2, BftStatic, SameBftCardinality

\* The part of the invariant about the nodes.
BftNodesInv ==
    /\ bft_seq_num \in [PbftNodes -> Nat]
    /\ bft_phase \in [PbftNodes -> {"PrePrepare", "Prepare", "Commit"}]
    /\ bft_request_digest \in [PbftNodes -> PbftDigests \cup {Nobody}]
    /\ bft_commit_senders \in [PbftNodes -> SUBSET PbftNodes]
    /\ bft_executed \in [PbftNodes -> Seq(PbftDigests)]
    /\ PBFTHost!RoundsInv /\ PBFTHost!QuorumInv
    /\ \A n \in PbftNodes : bft_phase[n] = "Commit" =>
          \A q \in bft_commit_senders[n] : PBFTHost!Committed(q, bft_seq_num[n] + 1)

\* A packet is of its type, and of a node that has done what it says.
BftPacketTrue(m) ==
    /\ PBFTHost!PacketOK(m)
    /\ m.type = "PrePrepare" => PBFTHost!Assigned(m.seq + 1, m.digest)
    /\ m.type = "Commit" => PBFTHost!Committed(m.src, m.seq + 1)

BftNetInv == \A m \in bft_net : BftPacketTrue(m)

\* The part of the invariant about the requests.
BftRequestsInv ==
    /\ bft_pending_requests \in Seq(PbftDigests \X PbftClients)
    /\ bft_active_client \in PbftClients \cup {Nobody}
    /\ bft_completed_requests \in [PbftClients -> PbftDigests \cup {Nobody}]
    /\ bft_completed_clients \in Seq(PbftClients)
    /\ PBFTHost!RequestsInv

\* The three parts are the invariant.
LEMMA BftParts == PBFTHost!IInv <=> BftNodesInv /\ BftNetInv /\ BftRequestsInv
BY DEF PBFTHost!IInv, PBFTHost!TypeOK, PBFTHost!VotesInv, BftNodesInv, BftNetInv,
    BftRequestsInv, BftPacketTrue

\* They are after a step.
LEMMA BftPartsNext == BftNodesInv' /\ BftNetInv' /\ BftRequestsInv' => PBFTHost!IInv'
BY BftParts, PTL

\* Nothing that was assigned or committed is taken back.
BftGrows ==
    /\ \A i \in Nat : \A d : PBFTHost!Assigned(i, d) => PBFTHost!Assigned(i, d)'
    /\ \A q \in PbftNodes : \A i \in Nat : PBFTHost!Committed(q, i) => PBFTHost!Committed(q, i)'

\* What the types say of the executed sequences.
LEMMA BftTyped ==
    ASSUME BftNodesInv, NEW n \in PbftNodes
    PROVE  /\ bft_seq_num[n] \in Nat /\ bft_executed[n] \in Seq(PbftDigests)
           /\ Len(bft_executed[n]) = bft_seq_num[n]
           /\ DOMAIN bft_executed[n] = 1 .. bft_seq_num[n]
BY DEF BftNodesInv, PBFTHost!RoundsInv

\* Packets that were true still are, and new ones have to be.
LEMMA BftNetKept ==
    ASSUME BftNetInv, BftGrows, NEW P, bft_net' \subseteq bft_net \cup P,
           \A m \in P : BftPacketTrue(m)'
    PROVE  BftNetInv'
<1>1. ASSUME NEW m \in bft_net PROVE BftPacketTrue(m)'
    BY BftNetInv, BftGrows, <1>1 DEF BftNetInv, BftGrows, BftPacketTrue, PBFTHost!PacketOK
<1> QED
    BY <1>1 DEF BftNetInv

\* The same when none is sent.
LEMMA BftNetSame ==
    ASSUME BftNetInv, BftGrows, bft_net' = bft_net
    PROVE  BftNetInv'
<1>1. PICK P : P = {}
    OBVIOUS
<1>2. bft_net' \subseteq bft_net \cup P /\ \A q \in P : BftPacketTrue(q)'
    BY <1>1
<1> QED
    BY <1>2, BftNetKept

\* The same for one packet.
LEMMA BftNetAdds ==
    ASSUME BftNetInv, BftGrows, NEW p, bft_net' = bft_net \cup {p}, BftPacketTrue(p)'
    PROVE  BftNetInv'
<1>1. PICK P : P = {p}
    OBVIOUS
<1>2. bft_net' \subseteq bft_net \cup P /\ \A q \in P : BftPacketTrue(q)'
    BY <1>1
<1> QED
    BY <1>2, BftNetKept

\* A round is executed by a node when a quorum has committed in it.
LEMMA BftQuorumKept ==
    ASSUME BftNodesInv, BftGrows, bft_seq_num' \in [PbftNodes -> Nat],
           \A n \in PbftNodes :
              \/ bft_seq_num'[n] = bft_seq_num[n]
              \/ /\ bft_seq_num'[n] = bft_seq_num[n] + 1
                 /\ \E S \in SUBSET PbftNodes :
                       /\ PBFTHost!Cardinality(S) >= PBFTHost!Threshold
                       /\ \A q \in S : PBFTHost!Committed(q, bft_seq_num[n] + 1)
    PROVE  PBFTHost!QuorumInv'
<1> SUFFICES ASSUME NEW n \in PbftNodes, NEW i \in 1 .. bft_seq_num'[n]
             PROVE  PBFTHost!Cardinality({q \in PbftNodes : PBFTHost!Committed(q, i)'})
                      >= PBFTHost!Threshold
    BY SameBftCardinality DEF PBFTHost!QuorumInv, PBFTHost!Threshold
<1>0. bft_seq_num[n] \in Nat /\ bft_seq_num'[n] \in Nat /\ i \in Nat
    BY BftTyped
<1>1. PICK S \in SUBSET PbftNodes : /\ PBFTHost!Cardinality(S) >= PBFTHost!Threshold
                                    /\ \A q \in S : PBFTHost!Committed(q, i)
    <2>1. CASE i \in 1 .. bft_seq_num[n]
        <3>1. {q \in PbftNodes : PBFTHost!Committed(q, i)} \in SUBSET PbftNodes
            OBVIOUS
        <3>2. PBFTHost!Cardinality({q \in PbftNodes : PBFTHost!Committed(q, i)}) >= PBFTHost!Threshold
            BY <2>1 DEF BftNodesInv, PBFTHost!QuorumInv
        <3>3. \A q \in {q \in PbftNodes : PBFTHost!Committed(q, i)} : PBFTHost!Committed(q, i)
            OBVIOUS
        <3> QED
            BY <3>1, <3>2, <3>3
    <2>2. CASE i \notin 1 .. bft_seq_num[n]
        <3>1. i = bft_seq_num[n] + 1
            BY <1>0, <2>2
        <3> QED
            BY <1>0, <2>2, <3>1
    <2> QED
        BY <2>1, <2>2
<1>2. S \subseteq {q \in PbftNodes : PBFTHost!Committed(q, i)'}
    BY <1>0, <1>1 DEF BftGrows
<1> QED
    BY <1>1, <1>2, BftQuorumGrows

\* The i-th round is assigned to one digest.
LEMMA AssignedOnce ==
    ASSUME BftNodesInv, NEW i, NEW d, NEW e, PBFTHost!Assigned(i, d), PBFTHost!Assigned(i, e)
    PROVE  d = e
<1>1. /\ bft_seq_num[PbftPrimary] \in Nat
      /\ DOMAIN bft_executed[PbftPrimary] = 1 .. bft_seq_num[PbftPrimary]
    BY BftStatic, BftTyped
<1> QED
    BY <1>1 DEF PBFTHost!Assigned

\* A step that leaves the nodes alone.
LEMMA BftNodesKept ==
    ASSUME BftNodesInv, UNCHANGED PBFTHost!node_vars
    PROVE  BftGrows /\ BftNodesInv'
<1>1. /\ bft_seq_num' = bft_seq_num /\ bft_phase' = bft_phase
      /\ bft_request_digest' = bft_request_digest /\ bft_commit_senders' = bft_commit_senders
      /\ bft_executed' = bft_executed
    BY DEF PBFTHost!node_vars
<1>2. /\ \A i, d : PBFTHost!Assigned(i, d)' = PBFTHost!Assigned(i, d)
      /\ \A q, i : PBFTHost!Committed(q, i)' = PBFTHost!Committed(q, i)
    BY <1>1 DEF PBFTHost!Assigned, PBFTHost!Committed, PBFTHost!InRound
<1>3. BftGrows
    BY <1>2 DEF BftGrows
<1>4. PBFTHost!QuorumInv'
    BY <1>1, <1>3, BftQuorumKept DEF BftNodesInv
<1>5. PBFTHost!RoundsInv'
    BY <1>1, <1>2 DEF BftNodesInv, PBFTHost!RoundsInv, PBFTHost!InRound
<1> QED
    BY <1>1, <1>2, <1>3, <1>4, <1>5 DEF BftNodesInv

\* A node enters a round with the digest that is assigned to it.
LEMMA BftEnters ==
    ASSUME BftNodesInv, NEW n \in PbftNodes, NEW d \in PbftDigests,
           bft_phase[n] = "PrePrepare", PBFTHost!EnterPrepare(n, d),
           n # PbftPrimary => PBFTHost!Assigned(bft_seq_num[n] + 1, d)
    PROVE  BftGrows /\ BftNodesInv'
<1>1. /\ bft_seq_num' = bft_seq_num /\ bft_executed' = bft_executed
      /\ bft_phase' = [bft_phase EXCEPT ![n] = "Prepare"]
      /\ bft_request_digest' = [bft_request_digest EXCEPT ![n] = d]
      /\ bft_commit_senders' = [bft_commit_senders EXCEPT ![n] = {}]
    BY DEF PBFTHost!EnterPrepare
<1>2. /\ bft_seq_num' \in [PbftNodes -> Nat]
      /\ bft_phase' \in [PbftNodes -> {"PrePrepare", "Prepare", "Commit"}]
      /\ bft_request_digest' \in [PbftNodes -> PbftDigests \cup {Nobody}]
      /\ bft_commit_senders' \in [PbftNodes -> SUBSET PbftNodes]
      /\ bft_executed' \in [PbftNodes -> Seq(PbftDigests)]
    BY <1>1 DEF BftNodesInv
<1>3. /\ bft_phase'[n] = "Prepare" /\ bft_request_digest'[n] = d
      /\ \A k \in PbftNodes \ {n} :
            bft_phase'[k] = bft_phase[k] /\ bft_request_digest'[k] = bft_request_digest[k]
            /\ bft_commit_senders'[k] = bft_commit_senders[k]
    BY <1>1 DEF BftNodesInv
<1>4. \A i, e : PBFTHost!Assigned(i, e) => PBFTHost!Assigned(i, e)'
    BY <1>1, <1>3, BftStatic DEF PBFTHost!Assigned, PBFTHost!InRound
<1>5. \A q \in PbftNodes : \A i : PBFTHost!Committed(q, i) => PBFTHost!Committed(q, i)'
    BY <1>1, <1>3 DEF PBFTHost!Committed
<1>6. BftGrows
    BY <1>4, <1>5 DEF BftGrows
<1>7. PBFTHost!QuorumInv'
    BY <1>1, <1>2, <1>6, BftQuorumKept
<1>8. PBFTHost!RoundsInv'
    <2>1. PICK j : j = bft_seq_num[n] + 1
        OBVIOUS
    <2>2. PBFTHost!Assigned(j, d)'
        <3>1. CASE n = PbftPrimary
            BY <1>1, <1>3, <2>1, <3>1 DEF PBFTHost!Assigned, PBFTHost!InRound
        <3>2. CASE n # PbftPrimary
            BY <1>4, <2>1, <3>2
        <3> QED
            BY <3>1, <3>2
    <2>3. ASSUME NEW k \in PbftNodes
          PROVE  /\ Len(bft_executed[k]) = bft_seq_num[k]
                 /\ \A i \in DOMAIN bft_executed[k] : PBFTHost!Assigned(i, bft_executed[k][i])
                 /\ PBFTHost!InRound(k) => /\ bft_request_digest[k] \in PbftDigests
                                           /\ PBFTHost!Assigned(bft_seq_num[k] + 1, bft_request_digest[k])
        BY DEF BftNodesInv, PBFTHost!RoundsInv
    <2>4. ASSUME NEW k \in PbftNodes, PBFTHost!InRound(k)'
          PROVE  /\ bft_request_digest'[k] \in PbftDigests
                 /\ \A i, e : i = bft_seq_num[k] + 1 /\ e = bft_request_digest'[k] =>
                        PBFTHost!Assigned(i, e)'
        <3>1. CASE k = n
            BY <1>3, <2>1, <2>2, <3>1
        <3>2. CASE k # n
            BY <1>3, <1>4, <2>3, <2>4, <3>2 DEF PBFTHost!InRound
        <3> QED
            BY <3>1, <3>2
    <2> QED
        BY <1>1, <1>4, <2>3, <2>4 DEF PBFTHost!RoundsInv
<1>9. ASSUME NEW k \in PbftNodes, bft_phase'[k] = "Commit", NEW q \in bft_commit_senders'[k]
      PROVE  \A i : i = bft_seq_num'[k] + 1 => PBFTHost!Committed(q, i)'
    <2>1. k # n /\ bft_phase[k] = "Commit" /\ q \in bft_commit_senders[k] /\ q \in PbftNodes
        BY <1>2, <1>3, <1>9
    <2> QED
        BY <1>1, <1>5, <2>1 DEF BftNodesInv
<1> QED
    BY <1>2, <1>6, <1>7, <1>8, <1>9 DEF BftNodesInv

\* A node has counted enough votes to prepare: it votes to commit.
LEMMA BftCommits ==
    ASSUME BftNodesInv, NEW n \in PbftNodes, bft_phase[n] = "Prepare",
           bft_phase' = [bft_phase EXCEPT ![n] = "Commit"],
           bft_commit_senders' = [bft_commit_senders EXCEPT ![n] = {n}],
           UNCHANGED <<bft_seq_num, bft_request_digest, bft_executed>>
    PROVE  BftGrows /\ BftNodesInv' /\ \A i : i = bft_seq_num[n] + 1 => PBFTHost!Committed(n, i)'
<1>2. /\ bft_seq_num' \in [PbftNodes -> Nat]
      /\ bft_phase' \in [PbftNodes -> {"PrePrepare", "Prepare", "Commit"}]
      /\ bft_request_digest' \in [PbftNodes -> PbftDigests \cup {Nobody}]
      /\ bft_commit_senders' \in [PbftNodes -> SUBSET PbftNodes]
      /\ bft_executed' \in [PbftNodes -> Seq(PbftDigests)]
    BY DEF BftNodesInv
<1>3. /\ bft_phase'[n] = "Commit" /\ bft_commit_senders'[n] = {n}
      /\ \A k \in PbftNodes \ {n} :
            bft_phase'[k] = bft_phase[k] /\ bft_commit_senders'[k] = bft_commit_senders[k]
    BY DEF BftNodesInv
<1>4. /\ \A k \in PbftNodes : PBFTHost!InRound(k)' = PBFTHost!InRound(k)
      /\ \A i, e : PBFTHost!Assigned(i, e) = PBFTHost!Assigned(i, e)'
    BY <1>3, BftStatic DEF PBFTHost!Assigned, PBFTHost!InRound
<1>5. \A q \in PbftNodes : \A i : PBFTHost!Committed(q, i) => PBFTHost!Committed(q, i)'
    BY <1>3 DEF PBFTHost!Committed
<1>6. BftGrows
    BY <1>4, <1>5 DEF BftGrows
<1>7. PBFTHost!QuorumInv'
    BY <1>2, <1>6, BftQuorumKept
<1>8. PBFTHost!RoundsInv'
    BY <1>4 DEF BftNodesInv, PBFTHost!RoundsInv
<1>9. \A i : i = bft_seq_num[n] + 1 => PBFTHost!Committed(n, i)'
    BY <1>3 DEF PBFTHost!Committed
<1>10. ASSUME NEW k \in PbftNodes, bft_phase'[k] = "Commit", NEW q \in bft_commit_senders'[k]
       PROVE  \A i : i = bft_seq_num'[k] + 1 => PBFTHost!Committed(q, i)'
    <2>1. CASE k = n
        BY <1>3, <1>9, <2>1
    <2>2. CASE k # n
        <3>1. bft_phase[k] = "Commit" /\ q \in bft_commit_senders[k] /\ q \in PbftNodes
            BY <1>2, <1>3, <1>10, <2>2
        <3> QED
            BY <1>5, <3>1 DEF BftNodesInv
    <2> QED
        BY <2>1, <2>2
<1> QED
    BY <1>2, <1>6, <1>7, <1>8, <1>9, <1>10 DEF BftNodesInv

\* A node counts a vote to commit.
LEMMA BftCounts ==
    ASSUME BftNodesInv, NEW n \in PbftNodes, NEW S \in SUBSET PbftNodes,
           \A q \in S : PBFTHost!Committed(q, bft_seq_num[n] + 1),
           bft_commit_senders' = [bft_commit_senders EXCEPT ![n] = S],
           UNCHANGED <<bft_seq_num, bft_phase, bft_request_digest, bft_executed>>
    PROVE  BftGrows /\ BftNodesInv'
<1>1. bft_commit_senders' \in [PbftNodes -> SUBSET PbftNodes]
    BY DEF BftNodesInv
<1>2. /\ \A i, d : PBFTHost!Assigned(i, d)' = PBFTHost!Assigned(i, d)
      /\ \A q, i : PBFTHost!Committed(q, i)' = PBFTHost!Committed(q, i)
      /\ \A k : PBFTHost!InRound(k)' = PBFTHost!InRound(k)
    BY DEF PBFTHost!Assigned, PBFTHost!Committed, PBFTHost!InRound
<1>3. BftGrows
    BY <1>2 DEF BftGrows
<1>4. PBFTHost!QuorumInv'
    BY <1>3, BftQuorumKept DEF BftNodesInv
<1>5. PBFTHost!RoundsInv'
    BY <1>2 DEF BftNodesInv, PBFTHost!RoundsInv
<1>6. ASSUME NEW k \in PbftNodes, bft_phase'[k] = "Commit", NEW q \in bft_commit_senders'[k]
      PROVE  \A i : i = bft_seq_num'[k] + 1 => PBFTHost!Committed(q, i)'
    <2>1. \/ k = n /\ q \in S
          \/ bft_phase[k] = "Commit" /\ q \in bft_commit_senders[k]
        BY <1>6 DEF BftNodesInv
    <2> QED
        BY <1>2, <2>1 DEF BftNodesInv
<1> QED
    BY <1>1, <1>3, <1>4, <1>5, <1>6 DEF BftNodesInv

\* What a node has in its round when it executes.
LEMMA BftExecutes ==
    ASSUME BftNodesInv, NEW n \in PbftNodes, bft_phase[n] = "Commit", PBFTHost!Execute(n),
           NEW S \in SUBSET PbftNodes, PBFTHost!Cardinality(S) >= PBFTHost!Threshold,
           \A q \in S : PBFTHost!Committed(q, bft_seq_num[n] + 1)
    PROVE  /\ BftGrows /\ BftNodesInv'
           /\ bft_request_digest[n] \in PbftDigests
           /\ bft_executed'[n] = Append(bft_executed[n], bft_request_digest[n])
           /\ \A k \in PbftNodes \ {n} : bft_executed'[k] = bft_executed[k]
<1>0. PICK j : j = bft_seq_num[n] + 1
    OBVIOUS
<1>d. PICK d : d = bft_request_digest[n]
    OBVIOUS
<1>1. /\ bft_seq_num' = [bft_seq_num EXCEPT ![n] = j]
      /\ bft_executed' = [bft_executed EXCEPT ![n] = Append(@, d)]
      /\ bft_phase' = [bft_phase EXCEPT ![n] = "PrePrepare"]
      /\ bft_request_digest' = [bft_request_digest EXCEPT ![n] = Nobody]
      /\ bft_commit_senders' = [bft_commit_senders EXCEPT ![n] = {}]
    BY <1>0, <1>d DEF PBFTHost!Execute
<1>t. /\ bft_seq_num[n] \in Nat /\ j \in Nat /\ bft_executed[n] \in Seq(PbftDigests)
      /\ Len(bft_executed[n]) = bft_seq_num[n]
      /\ DOMAIN bft_executed[n] = 1 .. bft_seq_num[n]
    BY <1>0, BftTyped
<1>r. d \in PbftDigests /\ PBFTHost!Assigned(j, d)
    BY <1>0, <1>d DEF BftNodesInv, PBFTHost!RoundsInv, PBFTHost!InRound
<1>s. PICK s : s = Append(bft_executed[n], d)
    OBVIOUS
<1>q. s \in Seq(PbftDigests)
    BY <1>t, <1>r, <1>s
<1>u. /\ Len(s) = j /\ DOMAIN s = 1 .. j /\ s[j] = d
      /\ \A i \in 1 .. bft_seq_num[n] : s[i] = bft_executed[n][i]
    BY <1>0, <1>t, <1>r, <1>s
<1>2. /\ bft_seq_num' \in [PbftNodes -> Nat]
      /\ bft_phase' \in [PbftNodes -> {"PrePrepare", "Prepare", "Commit"}]
      /\ bft_request_digest' \in [PbftNodes -> PbftDigests \cup {Nobody}]
      /\ bft_commit_senders' \in [PbftNodes -> SUBSET PbftNodes]
    BY <1>1, <1>t DEF BftNodesInv
<1>e. bft_executed' = [bft_executed EXCEPT ![n] = s] /\ bft_executed' \in [PbftNodes -> Seq(PbftDigests)]
    BY <1>1, <1>s, <1>q DEF BftNodesInv
<1>3. /\ bft_phase'[n] = "PrePrepare" /\ bft_seq_num'[n] = j /\ bft_executed'[n] = s
      /\ \A k \in PbftNodes \ {n} :
            /\ bft_phase'[k] = bft_phase[k] /\ bft_seq_num'[k] = bft_seq_num[k]
            /\ bft_executed'[k] = bft_executed[k] /\ bft_commit_senders'[k] = bft_commit_senders[k]
            /\ bft_request_digest'[k] = bft_request_digest[k]
    BY <1>1, <1>e DEF BftNodesInv
<1>4. \A i, e : PBFTHost!Assigned(i, e) => PBFTHost!Assigned(i, e)'
    <2> SUFFICES ASSUME NEW i, NEW e, PBFTHost!Assigned(i, e) PROVE PBFTHost!Assigned(i, e)'
        OBVIOUS
    <2>1. CASE n = PbftPrimary
        <3>1. CASE i \in DOMAIN bft_executed[n] /\ bft_executed[n][i] = e
            <4>1. i \in 1 .. j /\ s[i] = e
                BY <1>0, <1>t, <1>u, <3>1
            <4> QED
                BY <1>3, <1>u, <2>1, <4>1 DEF PBFTHost!Assigned
        <3>2. CASE i = j /\ e = d
            <4>1. j \in 1 .. j
                BY <1>0, <1>t
            <4> QED
                BY <1>3, <1>u, <2>1, <3>2, <4>1 DEF PBFTHost!Assigned
        <3> QED
            BY <1>0, <1>d, <2>1, <3>1, <3>2 DEF PBFTHost!Assigned
    <2>2. CASE n # PbftPrimary
        BY <1>3, <2>2, BftStatic DEF PBFTHost!Assigned, PBFTHost!InRound
    <2> QED
        BY <2>1, <2>2
<1>5. \A q \in PbftNodes : \A i \in Nat : PBFTHost!Committed(q, i) => PBFTHost!Committed(q, i)'
    <2> SUFFICES ASSUME NEW q \in PbftNodes, NEW i \in Nat, PBFTHost!Committed(q, i)
                 PROVE  PBFTHost!Committed(q, i)'
        OBVIOUS
    <2>1. CASE q = n
        BY <1>0, <1>3, <1>t, <2>1 DEF PBFTHost!Committed
    <2>2. CASE q # n
        BY <1>3, <2>2 DEF PBFTHost!Committed
    <2> QED
        BY <2>1, <2>2
<1>6. BftGrows
    BY <1>4, <1>5 DEF BftGrows
<1>7. PBFTHost!QuorumInv'
    <2>1. \A k \in PbftNodes :
             \/ bft_seq_num'[k] = bft_seq_num[k]
             \/ /\ bft_seq_num'[k] = bft_seq_num[k] + 1
                /\ \E T \in SUBSET PbftNodes :
                      /\ PBFTHost!Cardinality(T) >= PBFTHost!Threshold
                      /\ \A q \in T : PBFTHost!Committed(q, bft_seq_num[k] + 1)
        BY <1>0, <1>3
    <2> QED
        BY <1>2, <1>6, <2>1, BftQuorumKept
<1>8. PBFTHost!RoundsInv'
    <2>1. ASSUME NEW k \in PbftNodes
          PROVE  /\ Len(bft_executed[k]) = bft_seq_num[k]
                 /\ \A i \in DOMAIN bft_executed[k] : PBFTHost!Assigned(i, bft_executed[k][i])
                 /\ PBFTHost!InRound(k) => /\ bft_request_digest[k] \in PbftDigests
                                           /\ PBFTHost!Assigned(bft_seq_num[k] + 1, bft_request_digest[k])
        BY DEF BftNodesInv, PBFTHost!RoundsInv
    <2>2. ASSUME NEW k \in PbftNodes
          PROVE  /\ Len(bft_executed'[k]) = bft_seq_num'[k]
                 /\ \A i \in DOMAIN bft_executed'[k] :
                       \A e : e = bft_executed'[k][i] => PBFTHost!Assigned(i, e)'
                 /\ PBFTHost!InRound(k)' => /\ bft_request_digest'[k] \in PbftDigests
                                            /\ \A i, e : i = bft_seq_num'[k] + 1 /\ e = bft_request_digest'[k]
                                                  => PBFTHost!Assigned(i, e)'
        <3>1. CASE k = n
            <4>1. ASSUME NEW i \in DOMAIN s PROVE PBFTHost!Assigned(i, s[i])
                <5>1. i \in 1 .. bft_seq_num[n] \/ i = j
                    BY <1>0, <1>t, <1>u
                <5>2. i \in 1 .. bft_seq_num[n] => i \in DOMAIN bft_executed[n] /\ s[i] = bft_executed[n][i]
                    BY <1>t, <1>u
                <5> QED
                    BY <1>r, <1>u, <2>1, <5>1, <5>2
            <4>2. \A i \in DOMAIN s : \A e : e = s[i] => PBFTHost!Assigned(i, e)'
                BY <1>4, <4>1
            <4> QED
                BY <1>3, <1>u, <3>1, <4>2 DEF PBFTHost!InRound
        <3>2. CASE k # n
            BY <1>3, <1>4, <2>1, <3>2 DEF PBFTHost!InRound
        <3> QED
            BY <3>1, <3>2
    <2> QED
        BY <2>2 DEF PBFTHost!RoundsInv
<1>9. ASSUME NEW k \in PbftNodes, bft_phase'[k] = "Commit", NEW q \in bft_commit_senders'[k]
      PROVE  \A i : i = bft_seq_num'[k] + 1 => PBFTHost!Committed(q, i)'
    <2>1. k # n /\ bft_phase[k] = "Commit" /\ q \in bft_commit_senders[k] /\ q \in PbftNodes
        BY <1>2, <1>3, <1>9
    <2>2. bft_seq_num[k] + 1 \in Nat /\ bft_seq_num'[k] = bft_seq_num[k]
        BY <1>3, <2>1, BftTyped
    <2> QED
        BY <1>5, <2>1, <2>2 DEF BftNodesInv
<1>10. BftNodesInv'
    BY <1>2, <1>e, <1>7, <1>8, <1>9 DEF BftNodesInv
<1> QED
    BY <1>3, <1>6, <1>10, <1>d, <1>r, <1>s

\* The nodes a vote was counted from, with the sender of the packet.
LEMMA BftSenders ==
    ASSUME BftNodesInv, BftNetInv, NEW n \in PbftNodes, bft_phase[n] = "Commit",
           NEW m \in bft_net, m.type = "Commit", m.seq = bft_seq_num[n]
    PROVE  /\ bft_commit_senders[n] \cup {m.src} \in SUBSET PbftNodes
           /\ \A q \in bft_commit_senders[n] \cup {m.src} :
                 PBFTHost!Committed(q, bft_seq_num[n] + 1)
<1>1. m.src \in PbftNodes /\ PBFTHost!Committed(m.src, m.seq + 1)
    BY DEF BftNetInv, BftPacketTrue, PBFTHost!PacketOK
<1> QED
    BY <1>1 DEF BftNodesInv

\* The requests are not touched, nor is the primary's round.
LEMMA BftRequestsKept ==
    ASSUME BftRequestsInv, UNCHANGED <<PBFTHost!primary_vars, bft_replies>>,
           bft_executed'[PbftPrimary] = bft_executed[PbftPrimary],
           PBFTHost!InRound(PbftPrimary)' =>
              /\ PBFTHost!InRound(PbftPrimary)
              /\ bft_request_digest'[PbftPrimary] = bft_request_digest[PbftPrimary]
    PROVE  BftRequestsInv'
<1>1. /\ bft_pending_requests' = bft_pending_requests /\ bft_active_client' = bft_active_client
      /\ bft_completed_requests' = bft_completed_requests
      /\ bft_completed_clients' = bft_completed_clients /\ bft_replies' = bft_replies
    BY DEF PBFTHost!primary_vars
<1> QED
    BY <1>1 DEF BftRequestsInv, PBFTHost!RequestsInv

\* A node repeats its votes.
LEMMA BftBroadcastStep ==
    ASSUME PBFTHost!IInv, NEW n \in PbftNodes, PBFTHost!broadcast_commit_votes(n)
    PROVE  PBFTHost!IInv'
<1>1. /\ BftNodesInv /\ BftNetInv /\ BftRequestsInv
    BY BftParts
<1>2. /\ UNCHANGED PBFTHost!node_vars /\ UNCHANGED <<PBFTHost!primary_vars, bft_replies>>
      /\ bft_net' = bft_net \cup PBFTHost!Votes(n)
    BY DEF PBFTHost!broadcast_commit_votes
<1>3. BftGrows /\ BftNodesInv'
    BY <1>1, <1>2, BftNodesKept
<1>4. BftNetInv'
    <2>1. ASSUME NEW m \in PBFTHost!Votes(n) PROVE BftPacketTrue(m)
        <3>1. bft_seq_num[n] \in Nat
            BY <1>1, BftTyped
        <3>2. \/ m = [type |-> "Prepare", src |-> n, seq |-> bft_seq_num[n]]
              \/ /\ m = [type |-> "Commit", src |-> n, seq |-> bft_seq_num[n]]
                 /\ bft_phase[n] = "Commit"
            BY DEF PBFTHost!Votes, PBFTHost!Prepare, PBFTHost!Commit
        <3> QED
            BY <3>1, <3>2 DEF BftPacketTrue, PBFTHost!PacketOK, PBFTHost!Committed
    <2>2. \A m : BftPacketTrue(m) => BftPacketTrue(m)'
        BY <1>3 DEF BftPacketTrue, BftGrows, PBFTHost!PacketOK
    <2> QED
        BY <1>1, <1>2, <1>3, <2>1, <2>2, BftNetKept
<1>5. BftRequestsInv'
    BY <1>1, <1>2, BftRequestsKept DEF PBFTHost!node_vars, PBFTHost!InRound
<1> QED
    BY <1>3, <1>4, <1>5, BftPartsNext

\* A node that is past the round of a vote sends its own, or drops the vote.
LEMMA BftCatchUpStep ==
    ASSUME PBFTHost!IInv, NEW n \in PbftNodes, NEW m \in bft_net, PBFTHost!catch_up(n, m),
           m.type \in {"Prepare", "Commit"}
    PROVE  PBFTHost!IInv'
<1>1. /\ BftNodesInv /\ BftNetInv /\ BftRequestsInv
    BY BftParts
<1>p. PICK p : p = [m EXCEPT !.src = n]
    OBVIOUS
<1>2. /\ UNCHANGED PBFTHost!node_vars /\ UNCHANGED <<PBFTHost!primary_vars, bft_replies>>
      /\ bft_net' \in {bft_net, bft_net \cup {p}} /\ m.seq < bft_seq_num[n]
    BY <1>p DEF PBFTHost!catch_up
<1>3. BftGrows /\ BftNodesInv'
    BY <1>1, <1>2, BftNodesKept
<1>4. BftNetInv'
    <2>1. bft_seq_num[n] \in Nat /\ m.seq \in Nat
        BY <1>1, BftTyped DEF BftNetInv, BftPacketTrue, PBFTHost!PacketOK
    <2>0. m \in [type : {"Prepare", "Commit"}, src : PbftNodes, seq : Nat]
        BY <1>1 DEF BftNetInv, BftPacketTrue, PBFTHost!PacketOK
    <2>2. /\ p \in [type : {"Prepare", "Commit"}, src : PbftNodes, seq : Nat]
          /\ p.type = m.type /\ p.seq = m.seq /\ p.src = n
        BY <1>p, <2>0
    <2>3. BftPacketTrue(p)
        BY <1>2, <2>1, <2>2 DEF BftPacketTrue, PBFTHost!PacketOK, PBFTHost!Committed
    <2>4. BftPacketTrue(p)'
        BY <1>3, <2>3 DEF BftPacketTrue, BftGrows, PBFTHost!PacketOK
    <2> QED
        BY <1>1, <1>2, <1>3, <2>4, BftNetAdds, BftNetSame
<1>5. BftRequestsInv'
    BY <1>1, <1>2, BftRequestsKept DEF PBFTHost!node_vars, PBFTHost!InRound
<1> QED
    BY <1>3, <1>4, <1>5, BftPartsNext

\* A node other than the primary is told of a round.
LEMMA BftPrePrepareStep ==
    ASSUME PBFTHost!IInv, NEW n \in PbftNodes, NEW m \in bft_net, PBFTHost!handle_pre_prepare(n, m)
    PROVE  PBFTHost!IInv'
<1>1. /\ BftNodesInv /\ BftNetInv /\ BftRequestsInv
    BY BftParts
<1>p. PICK p : p = [type |-> "Prepare", src |-> n, seq |-> bft_seq_num[n]]
    OBVIOUS
<1>2. /\ m.type = "PrePrepare" /\ n # PbftPrimary /\ m.seq = bft_seq_num[n]
      /\ UNCHANGED <<PBFTHost!primary_vars, bft_replies>> /\ bft_net' = bft_net \cup {p}
      /\ \/ bft_phase[n] = "PrePrepare" /\ PBFTHost!EnterPrepare(n, m.digest)
         \/ UNCHANGED PBFTHost!node_vars
    BY <1>p DEF PBFTHost!handle_pre_prepare, PBFTHost!Prepare
<1>3. m.digest \in PbftDigests /\ PBFTHost!Assigned(bft_seq_num[n] + 1, m.digest)
    BY <1>1, <1>2 DEF BftNetInv, BftPacketTrue, PBFTHost!PacketOK
<1>4. BftGrows /\ BftNodesInv'
    BY <1>1, <1>2, <1>3, BftNodesKept, BftEnters
<1>5. BftNetInv'
    <2>1. p \in [type : {"Prepare", "Commit"}, src : PbftNodes, seq : Nat] /\ p.type = "Prepare"
        BY <1>1, <1>p, BftTyped
    <2>2. BftPacketTrue(p)'
        BY <2>1 DEF BftPacketTrue, PBFTHost!PacketOK
    <2> QED
        BY <1>1, <1>2, <1>4, <2>2, BftNetAdds
<1>6. BftRequestsInv'
    <2>1. /\ bft_executed' = bft_executed
          /\ bft_phase'[PbftPrimary] = bft_phase[PbftPrimary]
          /\ bft_request_digest'[PbftPrimary] = bft_request_digest[PbftPrimary]
        BY <1>1, <1>2, BftStatic DEF PBFTHost!EnterPrepare, PBFTHost!node_vars, BftNodesInv
    <2> QED
        BY <1>1, <1>2, <2>1, BftRequestsKept DEF PBFTHost!InRound
<1> QED
    BY <1>4, <1>5, <1>6, BftPartsNext

\* A node counts a vote to prepare.
LEMMA BftPrepareStep ==
    ASSUME PBFTHost!IInv, NEW n \in PbftNodes, NEW m \in bft_net, PBFTHost!handle_prepare(n, m)
    PROVE  PBFTHost!IInv'
<1>1. /\ BftNodesInv /\ BftNetInv /\ BftRequestsInv
    BY BftParts
<1>2. CASE PBFTHost!catch_up(n, m)
    BY <1>2, BftCatchUpStep DEF PBFTHost!handle_prepare
<1>3. CASE bft_phase[n] = "Prepare" /\ PBFTHost!CountPrepare(n, m)
    <2>p. PICK p : p = [type |-> "Commit", src |-> n, seq |-> bft_seq_num[n]]
        OBVIOUS
    <2> DEFINE enough == PBFTHost!Cardinality(bft_prepare_senders[n] \cup {m.src}) >= PBFTHost!Threshold
    <2>1. /\ bft_phase' = [bft_phase EXCEPT ![n] = IF enough THEN "Commit" ELSE @]
          /\ bft_commit_senders' = [bft_commit_senders EXCEPT ![n] = IF enough THEN {n} ELSE @]
          /\ bft_net' = IF enough THEN bft_net \cup {p} ELSE bft_net
          /\ UNCHANGED <<bft_seq_num, bft_request_digest, bft_executed>>
          /\ UNCHANGED <<PBFTHost!primary_vars, bft_replies>>
        BY <1>3, <2>p DEF PBFTHost!CountPrepare, PBFTHost!Commit
    <2> HIDE DEF enough
    <2>2. CASE enough
        <3>1. /\ BftGrows /\ BftNodesInv'
              /\ \A i : i = bft_seq_num[n] + 1 => PBFTHost!Committed(n, i)'
            BY <1>1, <1>3, <2>1, <2>2, BftCommits
        <3>2. p \in [type : {"Prepare", "Commit"}, src : PbftNodes, seq : Nat]
              /\ p.type = "Commit" /\ p.src = n /\ p.seq = bft_seq_num[n]
            BY <1>1, <2>p, BftTyped
        <3>3. BftPacketTrue(p)'
            BY <3>1, <3>2 DEF BftPacketTrue, PBFTHost!PacketOK
        <3>4. BftNetInv'
            BY <1>1, <2>1, <2>2, <3>1, <3>3, BftNetAdds
        <3>5. PBFTHost!InRound(PbftPrimary)' = PBFTHost!InRound(PbftPrimary)
            BY <1>1, <1>3, <2>1, <2>2, BftStatic DEF PBFTHost!InRound, BftNodesInv
        <3>6. BftRequestsInv'
            BY <1>1, <2>1, <3>5, BftRequestsKept
        <3> QED
            BY <3>1, <3>4, <3>6, BftPartsNext
    <2>3. CASE ~enough
        <3>0. /\ bft_phase' = bft_phase /\ bft_net' = bft_net
              /\ bft_commit_senders' = [bft_commit_senders EXCEPT ![n] = bft_commit_senders[n]]
            BY <1>1, <2>1, <2>3 DEF BftNodesInv
        <3>s. bft_commit_senders' = bft_commit_senders
            BY <1>1, <3>0 DEF BftNodesInv
        <3>1. BftGrows /\ BftNodesInv'
            <4>1. /\ \A i, d : PBFTHost!Assigned(i, d)' = PBFTHost!Assigned(i, d)
                  /\ \A q, i : PBFTHost!Committed(q, i)' = PBFTHost!Committed(q, i)
                  /\ \A k : PBFTHost!InRound(k)' = PBFTHost!InRound(k)
                BY <2>1, <3>0 DEF PBFTHost!Assigned, PBFTHost!Committed, PBFTHost!InRound
            <4>2. BftGrows
                BY <4>1 DEF BftGrows
            <4>3. PBFTHost!QuorumInv'
                BY <1>1, <2>1, <4>2, BftQuorumKept DEF BftNodesInv
            <4> QED
                BY <1>1, <2>1, <3>0, <3>s, <4>1, <4>2, <4>3 DEF BftNodesInv, PBFTHost!RoundsInv
        <3>2. BftNetInv'
            BY <1>1, <3>0, <3>1, BftNetSame
        <3>3. BftRequestsInv'
            BY <1>1, <2>1, <3>0, BftRequestsKept DEF PBFTHost!InRound
        <3> QED
            BY <3>1, <3>2, <3>3, BftPartsNext
    <2> QED
        BY <2>2, <2>3
<1> QED
    BY <1>2, <1>3 DEF PBFTHost!handle_prepare

\* The round of the primary is answered, and the answer remembered.
LEMMA BftReplies ==
    ASSUME BftRequestsInv, NEW d \in PbftDigests,
           bft_request_digest[PbftPrimary] = d, PBFTHost!InRound(PbftPrimary),
           PBFTHost!Reply(bft_active_client, d), bft_active_client' = Nobody,
           bft_pending_requests' = bft_pending_requests,
           bft_executed[PbftPrimary] \in Seq(PbftDigests),
           bft_executed'[PbftPrimary] = Append(bft_executed[PbftPrimary], d),
           ~ PBFTHost!InRound(PbftPrimary)'
    PROVE  BftRequestsInv'
<1>c. PICK c : c = bft_active_client
    OBVIOUS
<1>1. <<c, d>> \in PbftRequests /\ c \in PbftClients
    BY <1>c, BftStatic DEF BftRequestsInv, PBFTHost!RequestsInv
<1>k. PICK kept \in [PbftClients -> PbftDigests \cup {Nobody}] :
         /\ \A b \in PbftClients : kept[b] # Nobody => kept[b] = bft_completed_requests[b]
         /\ bft_completed_requests' = [kept EXCEPT ![c] = d]
    <2>1. CASE bft_completed_requests' = [bft_completed_requests EXCEPT ![c] = d]
        BY <2>1 DEF BftRequestsInv
    <2>2. CASE \E h : bft_completed_requests' =
                 [[bft_completed_requests EXCEPT ![h] = Nobody] EXCEPT ![c] = d]
        <3>1. PICK h : bft_completed_requests' =
                 [[bft_completed_requests EXCEPT ![h] = Nobody] EXCEPT ![c] = d]
            BY <2>2
        <3>2. PICK kept : kept = [bft_completed_requests EXCEPT ![h] = Nobody]
            OBVIOUS
        <3>3. /\ kept \in [PbftClients -> PbftDigests \cup {Nobody}]
              /\ \A b \in PbftClients : kept[b] # Nobody => kept[b] = bft_completed_requests[b]
            BY <3>2 DEF BftRequestsInv
        <3> QED
            BY <3>1, <3>2, <3>3
    <2> QED
        BY <1>c, <2>1, <2>2 DEF PBFTHost!Reply
<1>2. /\ bft_completed_requests' \in [PbftClients -> PbftDigests \cup {Nobody}]
      /\ \A b \in PbftClients \ {c} : bft_completed_requests'[b] = kept[b]
      /\ bft_completed_requests'[c] = d
    BY <1>1, <1>k
<1>3. bft_replies' = bft_replies \cup {<<c, d>>}
    BY <1>c DEF PBFTHost!Reply
<1>4. bft_completed_clients' \in Seq(PbftClients)
    <2>1. bft_completed_clients \in Seq(PbftClients)
        BY DEF BftRequestsInv
    <2>2. Len(bft_completed_clients) = PbftCached => Tail(bft_completed_clients) \in Seq(PbftClients)
        <3>0. Len(<<>>) = 0
            OBVIOUS
        <3>1. bft_completed_clients = <<>> => Len(bft_completed_clients) = 0
            BY <3>0, Zenon
        <3>2. Len(bft_completed_clients) # 0 => Tail(bft_completed_clients) \in Seq(PbftClients)
            BY <2>1, <3>1, HeadTailProperties, Zenon
        <3>3. PbftCached # 0
            BY LogHostsAssumption DEF PBFTHost!PbftAssumption
        <3> QED
            BY <3>2, <3>3
    <2>3. \/ bft_completed_clients' = bft_completed_clients
          \/ bft_completed_clients' = Append(bft_completed_clients, c)
          \/ /\ Len(bft_completed_clients) = PbftCached
             /\ bft_completed_clients' = Append(Tail(bft_completed_clients), c)
        BY <1>c DEF PBFTHost!Reply
    <2>4. \E s \in Seq(PbftClients) :
             bft_completed_clients' = s \/ bft_completed_clients' = Append(s, c)
        BY <2>1, <2>2, <2>3, Zenon
    <2> QED
        BY <1>1, <2>4
<1>5. \A b \in PbftClients :
         bft_completed_requests'[b] # Nobody => <<b, bft_completed_requests'[b]>> \in bft_replies'
    <2> SUFFICES ASSUME NEW b \in PbftClients, bft_completed_requests'[b] # Nobody
                 PROVE  <<b, bft_completed_requests'[b]>> \in bft_replies'
        OBVIOUS
    <2>1. CASE b = c
        BY <1>2, <1>3, <2>1
    <2>2. CASE b # c
        <3>1. bft_completed_requests'[b] = bft_completed_requests[b]
            BY <1>k, <1>2, <2>2
        <3>2. <<b, bft_completed_requests[b]>> \in bft_replies
            BY <3>1 DEF BftRequestsInv, PBFTHost!RequestsInv
        <3> QED
            BY <1>3, <3>1, <3>2
    <2> QED
        BY <2>1, <2>2
<1>6. \A r \in bft_replies' :
         /\ r \in PbftRequests
         /\ \E i \in DOMAIN bft_executed'[PbftPrimary] : bft_executed'[PbftPrimary][i] = r[2]
    <2> SUFFICES ASSUME NEW r \in bft_replies'
                 PROVE  /\ r \in PbftRequests
                        /\ \E i \in DOMAIN bft_executed'[PbftPrimary] :
                              bft_executed'[PbftPrimary][i] = r[2]
        OBVIOUS
    <2>s. PICK e \in Seq(PbftDigests) : e = bft_executed[PbftPrimary]
        OBVIOUS
    <2>a. bft_executed'[PbftPrimary] = Append(e, d)
        BY <2>s
    <2>1. CASE r = <<c, d>>
        <3>1. r[2] = d
            BY <2>1
        <3>2. Len(e) + 1 \in DOMAIN Append(e, d) /\ Append(e, d)[Len(e) + 1] = d
            OBVIOUS
        <3> QED
            BY <1>1, <2>1, <2>a, <3>1, <3>2
    <2>2. CASE r \in bft_replies
        <3>1. PICK i \in DOMAIN e : e[i] = r[2]
            BY <2>2, <2>s DEF BftRequestsInv, PBFTHost!RequestsInv
        <3>2. i \in DOMAIN Append(e, d) /\ Append(e, d)[i] = e[i]
            OBVIOUS
        <3>3. r \in PbftRequests
            BY <2>2 DEF BftRequestsInv, PBFTHost!RequestsInv
        <3> QED
            BY <2>a, <3>1, <3>2, <3>3
    <2> QED
        BY <1>3, <2>1, <2>2
<1> QED
    BY <1>2, <1>4, <1>5, <1>6 DEF BftRequestsInv, PBFTHost!RequestsInv

\* A node counts a vote to commit, executes the round and answers.
LEMMA BftCommitStep ==
    ASSUME PBFTHost!IInv, NEW n \in PbftNodes, NEW m \in bft_net, PBFTHost!handle_commit(n, m)
    PROVE  PBFTHost!IInv'
<1>1. /\ BftNodesInv /\ BftNetInv /\ BftRequestsInv
    BY BftParts
<1>2. CASE PBFTHost!catch_up(n, m)
    BY <1>2, BftCatchUpStep DEF PBFTHost!handle_commit
<1>3. CASE /\ m.seq = bft_seq_num[n] /\ bft_phase[n] = "Commit"
           /\ PBFTHost!CountCommit(n, m) /\ bft_net' = bft_net
    <2>0. PICK S : S = bft_commit_senders[n] \cup {m.src}
        OBVIOUS
    <2>1. /\ S \in SUBSET PbftNodes /\ \A q \in S : PBFTHost!Committed(q, bft_seq_num[n] + 1)
        BY <1>1, <1>3, <2>0, BftSenders DEF PBFTHost!handle_commit
    <2>2. CASE PBFTHost!Cardinality(S) >= PBFTHost!Threshold
        <3>1. /\ PBFTHost!Execute(n)
              /\ \/ /\ n = PbftPrimary /\ bft_active_client' = Nobody
                    /\ PBFTHost!Reply(bft_active_client, bft_request_digest[n])
                 \/ /\ n # PbftPrimary
                    /\ UNCHANGED <<bft_completed_requests, bft_completed_clients, bft_replies,
                                   bft_active_client>>
              /\ UNCHANGED <<bft_pending_requests, bft_cur_pre_prepare, bft_prev_pre_prepare>>
            BY <1>3, <2>0, <2>2 DEF PBFTHost!CountCommit
        <3>2. /\ BftGrows /\ BftNodesInv' /\ bft_request_digest[n] \in PbftDigests
              /\ bft_executed'[n] = Append(bft_executed[n], bft_request_digest[n])
              /\ \A k \in PbftNodes \ {n} : bft_executed'[k] = bft_executed[k]
            BY <1>1, <1>3, <2>1, <2>2, <3>1, BftExecutes
        <3>3. BftNetInv'
            BY <1>1, <1>3, <3>2, BftNetSame
        <3>4. BftRequestsInv'
            <4>1. /\ bft_phase' = [bft_phase EXCEPT ![n] = "PrePrepare"]
                  /\ bft_request_digest' = [bft_request_digest EXCEPT ![n] = Nobody]
                BY <3>1 DEF PBFTHost!Execute
            <4>2. CASE n = PbftPrimary
                <5>1. PBFTHost!InRound(PbftPrimary) /\ ~ PBFTHost!InRound(PbftPrimary)'
                    BY <1>1, <1>3, <4>1, <4>2 DEF PBFTHost!InRound, BftNodesInv
                <5>2. bft_executed[PbftPrimary] \in Seq(PbftDigests)
                    BY <1>1, BftStatic, BftTyped
                <5> QED
                    BY <1>1, <3>1, <3>2, <4>2, <5>1, <5>2, BftReplies
            <4>3. CASE n # PbftPrimary
                <5>1. /\ bft_phase'[PbftPrimary] = bft_phase[PbftPrimary]
                      /\ bft_request_digest'[PbftPrimary] = bft_request_digest[PbftPrimary]
                      /\ bft_executed'[PbftPrimary] = bft_executed[PbftPrimary]
                    BY <1>1, <3>2, <4>1, <4>3, BftStatic DEF BftNodesInv
                <5>2. UNCHANGED <<PBFTHost!primary_vars, bft_replies>>
                    BY <3>1, <4>3 DEF PBFTHost!primary_vars
                <5> QED
                    BY <1>1, <5>1, <5>2, BftRequestsKept DEF PBFTHost!InRound
            <4> QED
                BY <4>2, <4>3
        <3> QED
            BY <3>2, <3>3, <3>4, BftPartsNext
    <2>3. CASE ~ (PBFTHost!Cardinality(S) >= PBFTHost!Threshold)
        <3>1. /\ bft_commit_senders' = [bft_commit_senders EXCEPT ![n] = S]
              /\ UNCHANGED <<bft_seq_num, bft_phase, bft_request_digest, bft_executed>>
              /\ UNCHANGED <<PBFTHost!primary_vars, bft_replies>>
            BY <1>3, <2>0, <2>3 DEF PBFTHost!CountCommit
        <3>2. BftGrows /\ BftNodesInv'
            BY <1>1, <2>1, <3>1, BftCounts
        <3>3. BftNetInv'
            BY <1>1, <1>3, <3>2, BftNetSame
        <3>4. BftRequestsInv'
            BY <1>1, <3>1, BftRequestsKept DEF PBFTHost!InRound
        <3> QED
            BY <3>2, <3>3, <3>4, BftPartsNext
    <2> QED
        BY <2>2, <2>3
<1> QED
    BY <1>2, <1>3 DEF PBFTHost!handle_commit

\* A queue of requests that clients ask for.
BftQueueOK(queue) ==
    /\ queue \in Seq(PbftDigests \X PbftClients)
    /\ \A i \in DOMAIN queue : <<queue[i][2], queue[i][1]>> \in PbftRequests

\* A request joins the queue once.
LEMMA BftQueue ==
    ASSUME BftRequestsInv, NEW c, NEW d, <<c, d>> \in PbftRequests
    PROVE  BftQueueOK(bft_pending_requests) /\ BftQueueOK(PBFTHost!Queue(c, d))
<1>1. BftQueueOK(bft_pending_requests)
    BY DEF BftRequestsInv, PBFTHost!RequestsInv, BftQueueOK
<1>q. PICK queue \in Seq(PbftDigests \X PbftClients) : queue = bft_pending_requests
    BY <1>1 DEF BftQueueOK
<1>e. PICK e : e = <<d, c>>
    OBVIOUS
<1>2. e \in PbftDigests \X PbftClients /\ <<e[2], e[1]>> \in PbftRequests
    BY <1>e, BftStatic
<1>3. BftQueueOK(Append(queue, e))
    <2>1. Append(queue, e) \in Seq(PbftDigests \X PbftClients)
        BY <1>2
    <2>2. ASSUME NEW i \in DOMAIN Append(queue, e)
          PROVE  <<Append(queue, e)[i][2], Append(queue, e)[i][1]>> \in PbftRequests
        <3>1. \/ i \in DOMAIN queue /\ Append(queue, e)[i] = queue[i]
              \/ Append(queue, e)[i] = e
            BY <1>2
        <3> QED
            BY <1>1, <1>2, <1>q, <3>1 DEF BftQueueOK
    <2> QED
        BY <2>1, <2>2 DEF BftQueueOK
<1>4. PBFTHost!Queue(c, d) = queue \/ PBFTHost!Queue(c, d) = Append(queue, e)
    BY <1>e, <1>q DEF PBFTHost!Queue
<1> QED
    BY <1>1, <1>3, <1>4, <1>q

\* The head of a queue is a request that is asked for, and so is the rest.
LEMMA BftQueueHead ==
    ASSUME NEW queue, BftQueueOK(queue), queue # <<>>
    PROVE  /\ <<Head(queue)[2], Head(queue)[1]>> \in PbftRequests
           /\ Head(queue)[1] \in PbftDigests /\ Head(queue)[2] \in PbftClients
           /\ BftQueueOK(Tail(queue))
<1>1. queue \in Seq(PbftDigests \X PbftClients)
    BY DEF BftQueueOK
<1>2. /\ Head(queue) \in PbftDigests \X PbftClients
      /\ Tail(queue) \in Seq(PbftDigests \X PbftClients)
      /\ Len(Tail(queue)) = Len(queue) - 1
      /\ \A i \in 1 .. Len(Tail(queue)) : Tail(queue)[i] = queue[i + 1]
    BY <1>1, HeadTailProperties
<1>3. Len(queue) \in Nat /\ Len(queue) # 0 /\ Head(queue) = queue[1]
    BY <1>1
<1>4. <<Head(queue)[2], Head(queue)[1]>> \in PbftRequests
    <2>1. 1 \in DOMAIN queue
        BY <1>1, <1>3
    <2> QED
        BY <1>3, <2>1 DEF BftQueueOK
<1>5. ASSUME NEW i \in DOMAIN Tail(queue)
      PROVE  <<Tail(queue)[i][2], Tail(queue)[i][1]>> \in PbftRequests
    <2>1. i \in 1 .. Len(Tail(queue)) /\ i + 1 \in DOMAIN queue
        BY <1>1, <1>2, <1>3, <1>5
    <2> QED
        BY <1>2, <2>1 DEF BftQueueOK
<1> QED
    BY <1>2, <1>4, <1>5 DEF BftQueueOK

\* The primary starts a round for the first request of the queue.
LEMMA BftStartStep ==
    ASSUME PBFTHost!IInv, NEW queue, BftQueueOK(queue), PBFTHost!MayStartRound(queue),
           PBFTHost!StartRound(queue)
    PROVE  PBFTHost!IInv'
<1>1. /\ BftNodesInv /\ BftNetInv /\ BftRequestsInv
    BY BftParts
<1>d. PICK d : d = Head(queue)[1]
    OBVIOUS
<1>c. PICK c : c = Head(queue)[2]
    OBVIOUS
<1>p. PICK p : p = [type |-> "PrePrepare", src |-> PbftPrimary, seq |-> bft_seq_num[PbftPrimary],
                    digest |-> d]
    OBVIOUS
<1>2. /\ bft_phase[PbftPrimary] = "PrePrepare" /\ queue # <<>>
      /\ bft_pending_requests' = Tail(queue) /\ bft_active_client' = c
      /\ PBFTHost!EnterPrepare(PbftPrimary, d) /\ bft_net' = bft_net \cup {p}
      /\ UNCHANGED <<bft_completed_requests, bft_completed_clients, bft_replies>>
    BY <1>d, <1>c, <1>p DEF PBFTHost!MayStartRound, PBFTHost!StartRound, PBFTHost!PrePrepare
<1>3. /\ <<c, d>> \in PbftRequests /\ d \in PbftDigests /\ c \in PbftClients
      /\ BftQueueOK(Tail(queue))
    BY <1>d, <1>c, <1>2, BftQueueHead
<1>4. BftGrows /\ BftNodesInv'
    BY <1>1, <1>2, <1>3, BftStatic, BftEnters
<1>5. /\ bft_phase'[PbftPrimary] = "Prepare" /\ bft_request_digest'[PbftPrimary] = d
      /\ bft_executed' = bft_executed /\ bft_seq_num' = bft_seq_num
    BY <1>1, <1>2, BftStatic DEF PBFTHost!EnterPrepare, BftNodesInv
<1>6. BftNetInv'
    <2>1. /\ p \in [type : {"PrePrepare"}, src : PbftNodes, seq : Nat, digest : PbftDigests]
          /\ p.type = "PrePrepare" /\ p.seq = bft_seq_num[PbftPrimary] /\ p.digest = d
        BY <1>1, <1>p, <1>3, BftTyped, BftStatic
    <2>2. \A i : i = bft_seq_num[PbftPrimary] + 1 => PBFTHost!Assigned(i, d)'
        BY <1>5 DEF PBFTHost!Assigned, PBFTHost!InRound
    <2>3. BftPacketTrue(p)'
        BY <2>1, <2>2 DEF BftPacketTrue, PBFTHost!PacketOK
    <2> QED
        BY <1>1, <1>2, <1>4, <2>3, BftNetAdds
<1>7. BftRequestsInv'
    <2>1. /\ bft_pending_requests' \in Seq(PbftDigests \X PbftClients)
          /\ \A i \in DOMAIN bft_pending_requests' :
                <<bft_pending_requests'[i][2], bft_pending_requests'[i][1]>> \in PbftRequests
        BY <1>2, <1>3, Zenon DEF BftQueueOK
    <2>2. <<bft_active_client', bft_request_digest'[PbftPrimary]>> \in PbftRequests
        BY <1>2, <1>3, <1>5
    <2> QED
        BY <1>1, <1>2, <1>3, <1>5, <2>1, <2>2 DEF BftRequestsInv, PBFTHost!RequestsInv
<1> QED
    BY <1>4, <1>6, <1>7, BftPartsNext

\* A client asks the primary.
LEMMA BftClientStep ==
    ASSUME PBFTHost!IInv, NEW r \in PbftRequests, PBFTHost!handle_client_request(r[1], r[2])
    PROVE  PBFTHost!IInv'
<1>1. /\ BftNodesInv /\ BftNetInv /\ BftRequestsInv
    BY BftParts
<1>c. PICK c \in PbftClients, d \in PbftDigests : r = <<c, d>>
    BY BftStatic
<1>h. PBFTHost!handle_client_request(c, d)
    BY <1>c
<1>q. BftQueueOK(PBFTHost!Queue(c, d))
    BY <1>1, <1>c, BftQueue
<1>2. CASE /\ bft_completed_requests[c] = d /\ bft_replies' = bft_replies \cup {<<c, d>>}
           /\ UNCHANGED <<PBFTHost!node_vars, PBFTHost!primary_vars, bft_net>>
    <2>1. BftGrows /\ BftNodesInv'
        BY <1>1, <1>2, BftNodesKept
    <2>2. BftNetInv'
        BY <1>1, <1>2, <2>1, BftNetSame
    <2>3. bft_replies' = bft_replies
        <3>1. <<c, d>> \in bft_replies
            BY <1>1, <1>2, <1>c, BftStatic DEF BftRequestsInv, PBFTHost!RequestsInv
        <3> QED
            BY <1>2, <3>1
    <2>4. BftRequestsInv'
        BY <1>1, <1>2, <2>3, BftRequestsKept DEF PBFTHost!node_vars, PBFTHost!InRound
    <2> QED
        BY <2>1, <2>2, <2>4, BftPartsNext
<1>3. CASE PBFTHost!MayStartRound(PBFTHost!Queue(c, d)) /\ PBFTHost!StartRound(PBFTHost!Queue(c, d))
    BY <1>3, <1>q, BftStartStep
<1>4. CASE /\ bft_pending_requests' = PBFTHost!Queue(c, d)
           /\ UNCHANGED <<PBFTHost!node_vars, bft_active_client, bft_completed_requests,
                          bft_completed_clients, bft_net, bft_replies>>
    <2>1. BftGrows /\ BftNodesInv'
        BY <1>1, <1>4, BftNodesKept
    <2>2. BftNetInv'
        BY <1>1, <1>4, <2>1, BftNetSame
    <2>3. /\ bft_pending_requests' \in Seq(PbftDigests \X PbftClients)
          /\ \A i \in DOMAIN bft_pending_requests' :
                <<bft_pending_requests'[i][2], bft_pending_requests'[i][1]>> \in PbftRequests
        BY <1>4, <1>q, Zenon DEF BftQueueOK
    <2>4. BftRequestsInv'
        BY <1>1, <1>4, <2>3 DEF BftRequestsInv, PBFTHost!RequestsInv, PBFTHost!node_vars,
            PBFTHost!InRound
    <2> QED
        BY <2>1, <2>2, <2>4, BftPartsNext
<1> QED
    BY <1>h, <1>2, <1>3, <1>4 DEF PBFTHost!handle_client_request

\* The invariant holds initially.
LEMMA PbftInit == PBFTHost!CInit => PBFTHost!IInv
<1> SUFFICES ASSUME PBFTHost!CInit PROVE PBFTHost!IInv
    OBVIOUS
<1>1. BftNetInv
    BY DEF PBFTHost!CInit, BftNetInv
<1>2. /\ bft_executed = [n \in PbftNodes |-> <<>>] /\ bft_seq_num = [n \in PbftNodes |-> 0]
      /\ bft_phase = [n \in PbftNodes |-> "PrePrepare"]
      /\ bft_request_digest = [n \in PbftNodes |-> Nobody]
      /\ bft_commit_senders = [n \in PbftNodes |-> {}]
      /\ bft_pending_requests = <<>> /\ bft_completed_clients = <<>> /\ bft_active_client = Nobody
      /\ bft_completed_requests = [c \in PbftClients |-> Nobody] /\ bft_replies = {}
    BY DEF PBFTHost!CInit
<1>3. PBFTHost!RoundsInv
    BY <1>2 DEF PBFTHost!RoundsInv, PBFTHost!InRound
<1>4. PBFTHost!QuorumInv
    BY <1>2 DEF PBFTHost!QuorumInv
<1>5. BftNodesInv
    BY <1>2, <1>3, <1>4 DEF BftNodesInv
<1>6. BftRequestsInv
    BY <1>2, BftStatic DEF BftRequestsInv, PBFTHost!RequestsInv, PBFTHost!InRound
<1> QED
    BY <1>1, <1>5, <1>6, BftParts

\* Every step of PBFT keeps the invariant.
LEMMA PbftStep == PBFTHost!IInv /\ [PBFTHost!Next]_(PBFTHost!vars) => PBFTHost!IInv'
<1> SUFFICES ASSUME PBFTHost!IInv, [PBFTHost!Next]_(PBFTHost!vars) PROVE PBFTHost!IInv'
    OBVIOUS
<1>1. BftNodesInv /\ BftNetInv /\ BftRequestsInv
    BY BftParts
<1>2. ASSUME NEW r \in PbftRequests, PBFTHost!handle_client_request(r[1], r[2])
      PROVE  PBFTHost!IInv'
    BY <1>2, BftClientStep
<1>3. ASSUME PBFTHost!try_pre_prepare_and_new_round PROVE PBFTHost!IInv'
    <2>1. BftQueueOK(bft_pending_requests)
        BY <1>1 DEF BftRequestsInv, PBFTHost!RequestsInv, BftQueueOK
    <2> QED
        BY <1>3, <2>1, BftStartStep DEF PBFTHost!try_pre_prepare_and_new_round
<1>4. ASSUME NEW n \in PbftNodes, PBFTHost!broadcast_commit_votes(n) PROVE PBFTHost!IInv'
    BY <1>4, BftBroadcastStep
<1>5. ASSUME NEW n \in PbftNodes, NEW m \in bft_net, PBFTHost!Handle(n, m) PROVE PBFTHost!IInv'
    BY <1>5, BftPrePrepareStep, BftPrepareStep, BftCommitStep DEF PBFTHost!Handle
<1>6. CASE UNCHANGED PBFTHost!vars
    <2>1. /\ UNCHANGED PBFTHost!node_vars /\ bft_net' = bft_net
          /\ UNCHANGED <<PBFTHost!primary_vars, bft_replies>>
        BY <1>6 DEF PBFTHost!vars
    <2>2. BftGrows /\ BftNodesInv'
        BY <1>1, <2>1, BftNodesKept
    <2>3. BftNetInv'
        BY <1>1, <2>1, <2>2, BftNetSame
    <2>4. BftRequestsInv'
        BY <1>1, <2>1, BftRequestsKept DEF PBFTHost!node_vars, PBFTHost!InRound
    <2> QED
        BY <2>2, <2>3, <2>4, BftPartsNext
<1> QED
    BY <1>2, <1>3, <1>4, <1>5, <1>6 DEF PBFTHost!Next

\* Who has committed in a round is prepared for the digest it was assigned.
LEMMA BftPrepared ==
    ASSUME BftNodesInv, NEW q \in PbftNodes, NEW i \in Nat, i > 0, NEW d,
           PBFTHost!Assigned(i, d), PBFTHost!Committed(q, i)
    PROVE  PBFTHost!Prepared(q, i, d)
<1>1. /\ bft_seq_num[q] \in Nat /\ Len(bft_executed[q]) = bft_seq_num[q]
      /\ DOMAIN bft_executed[q] = 1 .. bft_seq_num[q]
    BY BftTyped
<1>2. CASE i <= bft_seq_num[q]
    <2>1. i \in DOMAIN bft_executed[q]
        BY <1>1, <1>2
    <2>2. PBFTHost!Assigned(i, bft_executed[q][i])
        BY <2>1 DEF BftNodesInv, PBFTHost!RoundsInv
    <2>3. bft_executed[q][i] = d
        BY <2>2, AssignedOnce
    <2> QED
        BY <1>1, <1>2, <2>3 DEF PBFTHost!Prepared
<1>3. CASE i = bft_seq_num[q] + 1 /\ bft_phase[q] = "Commit"
    <2>1. PBFTHost!Assigned(i, bft_request_digest[q])
        BY <1>3 DEF BftNodesInv, PBFTHost!RoundsInv, PBFTHost!InRound
    <2>2. bft_request_digest[q] = d
        BY <2>1, AssignedOnce
    <2> QED
        BY <1>3, <2>2 DEF PBFTHost!Prepared
<1> QED
    BY <1>2, <1>3 DEF PBFTHost!Committed

\* What a node has executed was assigned, and a quorum is prepared for it.
LEMMA BftExecutedByQuorum ==
    ASSUME BftNodesInv, NEW n \in PbftNodes, NEW i \in DOMAIN bft_executed[n]
    PROVE  PBFTHost!Cardinality({q \in PbftNodes : PBFTHost!Prepared(q, i, bft_executed[n][i])})
             >= PBFTHost!Threshold
<1>1. /\ bft_seq_num[n] \in Nat /\ i \in 1 .. bft_seq_num[n] /\ i \in Nat /\ i > 0
      /\ PBFTHost!Assigned(i, bft_executed[n][i])
    BY BftTyped DEF BftNodesInv, PBFTHost!RoundsInv
<1>2. PICK S : S = {q \in PbftNodes : PBFTHost!Committed(q, i)}
    OBVIOUS
<1>3. PICK T : T = {q \in PbftNodes : PBFTHost!Prepared(q, i, bft_executed[n][i])}
    OBVIOUS
<1>4. S \in SUBSET PbftNodes /\ T \in SUBSET PbftNodes /\ S \subseteq T
    BY <1>1, <1>2, <1>3, BftPrepared
<1>5. PBFTHost!Cardinality(S) >= PBFTHost!Threshold
    BY <1>1, <1>2 DEF BftNodesInv, PBFTHost!QuorumInv
<1> QED
    BY <1>3, <1>4, <1>5, BftQuorumGrows

\* The invariant has both properties of PBFT.
LEMMA PbftSafe == PBFTHost!IInv => PBFTHost!ExecutedByQuorum /\ PBFTHost!RepliesAreTrue
<1> SUFFICES ASSUME PBFTHost!IInv PROVE PBFTHost!ExecutedByQuorum /\ PBFTHost!RepliesAreTrue
    OBVIOUS
<1>1. BftNodesInv /\ BftRequestsInv
    BY BftParts
<1>2. PBFTHost!ExecutedByQuorum
    BY <1>1, BftExecutedByQuorum DEF PBFTHost!ExecutedByQuorum
<1>3. ASSUME NEW r \in bft_replies
      PROVE  /\ r \in PbftRequests
             /\ \E i \in DOMAIN bft_executed[PbftPrimary] :
                   PBFTHost!Cardinality({q \in PbftNodes : PBFTHost!Prepared(q, i, r[2])})
                     >= PBFTHost!Threshold
    <2>1. /\ r \in PbftRequests
          /\ \E i \in DOMAIN bft_executed[PbftPrimary] : bft_executed[PbftPrimary][i] = r[2]
        BY <1>1 DEF BftRequestsInv, PBFTHost!RequestsInv
    <2>2. PICK i \in DOMAIN bft_executed[PbftPrimary] : bft_executed[PbftPrimary][i] = r[2]
        BY <2>1
    <2>3. PBFTHost!Cardinality({q \in PbftNodes : PBFTHost!Prepared(q, i, bft_executed[PbftPrimary][i])})
            >= PBFTHost!Threshold
        BY <1>1, BftStatic, BftExecutedByQuorum
    <2> QED
        BY <2>1, <2>2, <2>3
<1> QED
    BY <1>2, <1>3 DEF PBFTHost!RepliesAreTrue

-----------------------------------------------------------------------------
(***************************************************************************)
(* PBFT implements the committed log.                                      *)
(***************************************************************************)
\* The executed sequences and the longest of them.
BftLogFacts ==
    /\ PBFTHost!Longest \in Seq(PbftDigests)
    /\ \E c \in PbftNodes : PBFTHost!Longest = bft_executed[c]
    /\ \A n \in PbftNodes :
          /\ bft_executed[n] \in Seq(PbftDigests) /\ bft_seq_num[n] \in Nat
          /\ Len(bft_executed[n]) = bft_seq_num[n] /\ bft_seq_num[n] <= Len(PBFTHost!Longest)
          /\ \A i \in 1 .. bft_seq_num[n] : bft_executed[n][i] = PBFTHost!Longest[i]

\* Some node has executed most.
LEMMA BftLeads ==
    ASSUME BftNodesInv
    PROVE  \E c \in PbftNodes : \A q \in PbftNodes : bft_seq_num[q] <= bft_seq_num[c]
<1>1. bft_seq_num \in [PbftNodes -> Nat] /\ PbftNodes # {}
    BY BftStatic DEF BftNodesInv
<1> QED
    BY <1>1, BftStatic, LargestExists

\* The nodes have executed prefixes of one sequence: what was assigned.
LEMMA BftLog == PBFTHost!IInv => BftLogFacts
<1> SUFFICES ASSUME PBFTHost!IInv PROVE BftLogFacts
    OBVIOUS
<1>1. BftNodesInv
    BY BftParts
<1>2. PICK c \in PbftNodes :
         c = CHOOSE n \in PbftNodes : \A q \in PbftNodes : bft_seq_num[q] <= bft_seq_num[n]
    BY <1>1, BftLeads
<1>3. \A q \in PbftNodes : bft_seq_num[q] <= bft_seq_num[c]
    BY <1>1, <1>2, BftLeads
<1>4. PBFTHost!Longest = bft_executed[c]
    BY <1>2 DEF PBFTHost!Longest
<1>5. \A n \in PbftNodes : /\ bft_executed[n] \in Seq(PbftDigests) /\ bft_seq_num[n] \in Nat
                           /\ Len(bft_executed[n]) = bft_seq_num[n]
                           /\ DOMAIN bft_executed[n] = 1 .. bft_seq_num[n]
    BY <1>1, BftTyped
<1>6. ASSUME NEW n \in PbftNodes, NEW i \in 1 .. bft_seq_num[n]
      PROVE  bft_executed[n][i] = bft_executed[c][i]
    <2>1. i \in DOMAIN bft_executed[n] /\ i \in DOMAIN bft_executed[c]
        BY <1>3, <1>5
    <2>2. PBFTHost!Assigned(i, bft_executed[n][i]) /\ PBFTHost!Assigned(i, bft_executed[c][i])
        BY <1>1, <2>1 DEF BftNodesInv, PBFTHost!RoundsInv
    <2> QED
        BY <1>1, <2>2, AssignedOnce
<1> QED
    BY <1>3, <1>4, <1>5, <1>6 DEF BftLogFacts

\* The same after a step.
LEMMA BftLogNext == PBFTHost!IInv' => BftLogFacts'
BY BftLog, PTL

\* A sequence that another one continues is a prefix of it.
LEMMA BftPrefixRule ==
    ASSUME NEW V, NEW a \in Seq(V), NEW b \in Seq(V), Len(a) <= Len(b),
           \A i \in 1 .. Len(a) : a[i] = b[i]
    PROVE  PBFTHost!Log!IsPrefix(a, b)
<1>1. SubSeq(a, 1, Len(a)) = SubSeq(b, 1, Len(a))
    OBVIOUS
<1> QED
    BY <1>1 DEF PBFTHost!Log!IsPrefix

\* A step leaves what is executed alone, or one node executes its round.
LEMMA BftExecutesOne ==
    ASSUME PBFTHost!IInv, [PBFTHost!Next]_(PBFTHost!vars)
    PROVE  \/ bft_executed' = bft_executed /\ bft_seq_num' = bft_seq_num
           \/ \E n \in PbftNodes : /\ PBFTHost!Execute(n)
                                   /\ bft_request_digest[n] \in PbftDigests
<1>1. BftNodesInv
    BY BftParts
<1>2. ASSUME NEW n \in PbftNodes, NEW m \in bft_net, PBFTHost!handle_commit(n, m)
      PROVE  \/ bft_executed' = bft_executed /\ bft_seq_num' = bft_seq_num
             \/ PBFTHost!Execute(n) /\ bft_request_digest[n] \in PbftDigests
    <2>1. bft_phase[n] = "Commit" => bft_request_digest[n] \in PbftDigests
        BY <1>1 DEF BftNodesInv, PBFTHost!RoundsInv, PBFTHost!InRound
    <2> QED
        BY <1>2, <2>1 DEF PBFTHost!handle_commit, PBFTHost!CountCommit, PBFTHost!catch_up,
            PBFTHost!node_vars
<1>3. ASSUME NEW n \in PbftNodes, NEW m \in bft_net,
             PBFTHost!handle_pre_prepare(n, m) \/ PBFTHost!handle_prepare(n, m)
      PROVE  bft_executed' = bft_executed /\ bft_seq_num' = bft_seq_num
    BY <1>3 DEF PBFTHost!handle_pre_prepare, PBFTHost!handle_prepare, PBFTHost!EnterPrepare,
        PBFTHost!CountPrepare, PBFTHost!catch_up, PBFTHost!node_vars
<1>4. ASSUME NEW n \in PbftNodes, PBFTHost!broadcast_commit_votes(n)
      PROVE  bft_executed' = bft_executed /\ bft_seq_num' = bft_seq_num
    BY <1>4 DEF PBFTHost!broadcast_commit_votes, PBFTHost!node_vars
<1>5. ASSUME NEW r \in PbftRequests, PBFTHost!handle_client_request(r[1], r[2])
      PROVE  bft_executed' = bft_executed /\ bft_seq_num' = bft_seq_num
    BY <1>5 DEF PBFTHost!handle_client_request, PBFTHost!StartRound, PBFTHost!EnterPrepare,
        PBFTHost!node_vars
<1>6. ASSUME PBFTHost!try_pre_prepare_and_new_round
      PROVE  bft_executed' = bft_executed /\ bft_seq_num' = bft_seq_num
    BY <1>6 DEF PBFTHost!try_pre_prepare_and_new_round, PBFTHost!StartRound,
        PBFTHost!EnterPrepare
<1>7. CASE UNCHANGED PBFTHost!vars
    BY <1>7 DEF PBFTHost!vars, PBFTHost!node_vars
<1> QED
    BY <1>2, <1>3, <1>4, <1>5, <1>6, <1>7 DEF PBFTHost!Next, PBFTHost!Handle

\* A step of PBFT is a step of the committed log, or leaves it alone.
LEMMA PbftLearns ==
    ASSUME PBFTHost!IInv, PBFTHost!IInv', [PBFTHost!Next]_(PBFTHost!vars)
    PROVE  [PBFTHost!Log!Next]_<<PBFTHost!Longest, bft_executed>>
<1>0. BftLogFacts /\ BftLogFacts' /\ BftNodesInv
    BY BftLog, BftLogNext, BftParts
<1>1. CASE bft_executed' = bft_executed /\ bft_seq_num' = bft_seq_num
    BY <1>1 DEF PBFTHost!Longest
<1>2. ASSUME NEW n \in PbftNodes, PBFTHost!Execute(n), bft_request_digest[n] \in PbftDigests
      PROVE  PBFTHost!Log!Learn(n)
    <2>d. PICK d \in PbftDigests : d = bft_request_digest[n]
        BY <1>2
    <2>s. PICK s : s = Append(bft_executed[n], d)
        OBVIOUS
    <2>1. /\ bft_executed' = [bft_executed EXCEPT ![n] = s]
          /\ bft_seq_num' = [bft_seq_num EXCEPT ![n] = bft_seq_num[n] + 1]
        BY <1>2, <2>d, <2>s DEF PBFTHost!Execute
    <2>2. /\ bft_executed'[n] = s /\ bft_seq_num'[n] = bft_seq_num[n] + 1
          /\ \A k \in PbftNodes \ {n} :
                bft_executed'[k] = bft_executed[k] /\ bft_seq_num'[k] = bft_seq_num[k]
        BY <1>0, <2>1 DEF BftNodesInv
    <2>3. /\ bft_executed[n] \in Seq(PbftDigests) /\ s \in Seq(PbftDigests)
          /\ Len(s) = Len(bft_executed[n]) + 1 /\ Len(bft_executed[n]) \in Nat
          /\ \A i \in 1 .. Len(bft_executed[n]) : s[i] = bft_executed[n][i]
        BY <1>0, <2>d, <2>s, BftTyped
    <2>4. PBFTHost!Log!IsStrictPrefix(bft_executed[n], bft_executed'[n])
        <3>1. PBFTHost!Log!IsPrefix(bft_executed[n], s)
            BY <2>3, BftPrefixRule
        <3>2. bft_executed[n] # s
            BY <2>3
        <3> QED
            BY <2>2, <3>1, <3>2 DEF PBFTHost!Log!IsStrictPrefix
    <2>l. PICK l \in Seq(PbftDigests) : l = PBFTHost!Longest'
        BY <1>0 DEF BftLogFacts
    <2>5. \A k \in PbftNodes :
             /\ bft_executed'[k] \in Seq(PbftDigests) /\ Len(bft_executed'[k]) <= Len(l)
             /\ Len(bft_executed'[k]) = bft_seq_num'[k]
             /\ \A i \in 1 .. Len(bft_executed'[k]) : bft_executed'[k][i] = l[i]
        BY <1>0, <2>l DEF BftLogFacts
    <2>6. PBFTHost!Log!IsPrefix(bft_executed'[n], l)
        BY <2>5, BftPrefixRule
    <2>7. PBFTHost!Log!IsPrefix(PBFTHost!Longest, l)
        <3>1. PICK c \in PbftNodes : PBFTHost!Longest = bft_executed[c]
            BY <1>0 DEF BftLogFacts
        <3>2. /\ bft_executed[c] \in Seq(PbftDigests) /\ Len(bft_executed[c]) <= Len(bft_executed'[c])
              /\ \A i \in 1 .. Len(bft_executed[c]) : bft_executed'[c][i] = bft_executed[c][i]
            <4>1. CASE c = n
                BY <2>2, <2>3, <4>1
            <4>2. CASE c # n
                <5>1. bft_executed'[c] = bft_executed[c]
                    BY <2>2, <4>2
                <5>2. bft_executed[c] \in Seq(PbftDigests) /\ Len(bft_executed[c]) \in Nat
                    BY <1>0 DEF BftLogFacts
                <5> QED
                    BY <5>1, <5>2
            <4> QED
                BY <4>1, <4>2
        <3>3. /\ Len(bft_executed[c]) <= Len(l)
              /\ \A i \in 1 .. Len(bft_executed[c]) : bft_executed[c][i] = l[i]
            <4>1. /\ Len(bft_executed[c]) \in Nat /\ Len(bft_executed'[c]) \in Nat /\ Len(l) \in Nat
                BY <2>5, <3>2
            <4> QED
                BY <2>5, <3>2, <4>1
        <3> QED
            BY <3>1, <3>2, <3>3, BftPrefixRule
    <2> QED
        BY <2>2, <2>4, <2>6, <2>7, <2>l DEF PBFTHost!Log!Learn
<1> QED
    BY <1>1, <1>2, BftExecutesOne DEF PBFTHost!Log!Next

\* Initially nothing is executed.
LEMMA PbftLogInit == PBFTHost!CInit => PBFTHost!Log!Init
<1> SUFFICES ASSUME PBFTHost!CInit PROVE PBFTHost!Log!Init
    OBVIOUS
<1>1. BftLogFacts /\ bft_executed = [n \in PbftNodes |-> <<>>]
    BY PbftInit, BftLog DEF PBFTHost!CInit
<1>2. PBFTHost!Longest = <<>>
    BY <1>1 DEF BftLogFacts
<1> QED
    BY <1>1, <1>2 DEF PBFTHost!Log!Init

-----------------------------------------------------------------------------
(***************************************************************************)
(* The process: one host runs, the other stays as it is initially.         *)
(***************************************************************************)
\* A step of the process is a step of each host, or leaves it alone.
LEMMA OneHostRuns ==
    ASSUME [HostsNext]_<<protocol, vars, bft_vars>>
    PROVE  [Next]_vars /\ [PBFTHost!Next]_(PBFTHost!vars)
<1>1. UNCHANGED bft_vars => UNCHANGED PBFTHost!vars
    BY DEF bft_vars, PBFTHost!vars, PBFTHost!node_vars, PBFTHost!primary_vars
<1> QED
    BY <1>1 DEF HostsNext, step

\* The invariant of Raft has the properties of elections and logs.
LEMMA RaftSafe == IInv => ElectionSafety /\ LogMatching /\ MatchIndexTrue
<1> SUFFICES ASSUME IInv PROVE ElectionSafety /\ LogMatching /\ MatchIndexTrue
    OBVIOUS
<1>0. TypeOK /\ VotesInv /\ LeadersElected /\ LeadersInv /\ MatchInv
    BY DEF IInv
<1>1. ElectionSafety
    <2> SUFFICES ASSUME NEW s \in Servers, NEW t \in Servers, role[s] = "Leader",
                        role[t] = "Leader", current_term[s] = current_term[t]
                 PROVE  s = t
        BY DEF ElectionSafety
    <2>1. current_term[s] \in Terms
        BY <1>0 DEF TypeOK
    <2>2. LeadsIn(s, current_term[s]) /\ LeadsIn(t, current_term[s])
        BY DEF LeadsIn
    <2> QED
        BY <1>0, <2>1, <2>2, OneLeader
<1>2. LogMatching
    <2> SUFFICES ASSUME NEW s \in Servers, NEW t \in Servers,
                        NEW i \in DOMAIN log[s] \cap DOMAIN log[t],
                        log[s][i].term = log[t][i].term
                 PROVE  SamePrefix(s, t, i)
        BY DEF LogMatching
    <2>1. i \in Nat
        BY <1>0, Typed DEF TypeFacts
    <2>2. Agree(s, t, i)
        BY <1>0, SameTermAgree
    <2> QED
        BY <1>0, <2>1, <2>2, AgreeSamePrefix
<1>3. MatchIndexTrue
    <2> SUFFICES ASSUME NEW s \in Servers, NEW t \in Servers
                 PROVE  /\ match_index[s][t] <= Len(log[t])
                        /\ SamePrefix(s, t, match_index[s][t])
        BY DEF MatchIndexTrue
    <2>1. match_index[s][t] \in Nat
        BY <1>0 DEF TypeOK
    <2>2. Agree(s, t, match_index[s][t])
        BY <1>0 DEF MatchInv
    <2> QED
        BY <1>0, <2>1, <2>2, AgreeSamePrefix DEF Agree
<1> QED
    BY <1>1, <1>2, <1>3

\* Raft/host.rs: no two servers lead in one term, although votes are lost, repeated
\* and come late, and a server may stand again.
THEOREM ElectionSafetyHolds == HostsSpec => []ElectionSafety
<1>1. HostsInit => IInv
    BY RaftInit DEF HostsInit
<1>2. IInv /\ [HostsNext]_<<protocol, vars, bft_vars>> => IInv'
    BY RaftStep, OneHostRuns
<1>3. IInv => ElectionSafety
    BY RaftSafe
<1> QED
    BY <1>1, <1>2, <1>3, PTL DEF HostsSpec

\* Raft/host.rs: logs match up to entries of one term at one index, and match_index is
\* true of the follower's log: followers only append, and a term has one leader's log.
THEOREM RaftLogsMatchHolds == HostsSpec => []RaftLogsMatch
<1>1. HostsInit => IInv
    BY RaftInit DEF HostsInit
<1>2. IInv /\ [HostsNext]_<<protocol, vars, bft_vars>> => IInv'
    BY RaftStep, OneHostRuns
<1>3. IInv => RaftLogsMatch
    BY RaftSafe DEF RaftLogsMatch
<1> QED
    BY <1>1, <1>2, <1>3, PTL DEF HostsSpec

\* PBFT/host.rs: a quorum is committed to what a node has executed: its votes are of
\* the round, and in a round all work on the digest that the primary assigned.
THEOREM ExecutedByQuorumHolds == HostsSpec => []ExecutedByQuorum
<1>1. HostsInit => PBFTHost!IInv
    BY PbftInit DEF HostsInit
<1>2. PBFTHost!IInv /\ [HostsNext]_<<protocol, vars, bft_vars>> => PBFTHost!IInv'
    BY PbftStep, OneHostRuns
<1>3. PBFTHost!IInv => ExecutedByQuorum
    BY PbftSafe DEF ExecutedByQuorum
<1> QED
    BY <1>1, <1>2, <1>3, PTL DEF HostsSpec

\* PBFT/host.rs: a client is told of its own request only, after a quorum is
\* committed to it, from the queue, the round or the cache of answers.
THEOREM PbftRepliesAreTrueHolds == HostsSpec => []PbftRepliesAreTrue
<1>1. HostsInit => PBFTHost!IInv
    BY PbftInit DEF HostsInit
<1>2. PBFTHost!IInv /\ [HostsNext]_<<protocol, vars, bft_vars>> => PBFTHost!IInv'
    BY PbftStep, OneHostRuns
<1>3. PBFTHost!IInv => PbftRepliesAreTrue
    BY PbftSafe DEF PbftRepliesAreTrue
<1> QED
    BY <1>1, <1>2, <1>3, PTL DEF HostsSpec

\* Raft/host.rs, PBFT/host.rs: the servers of either protocol implement one committed
\* log, step by step: what one of them knows to be committed is extended, and is a
\* prefix of the longest, which is extended too.
THEOREM LogHostsImplementOneLog == HostsSpec => ImplementOneLog
<1>1. HostsInit => IInv /\ PBFTHost!IInv /\ Log!Init /\ PBFTHost!Log!Init
    BY RaftInit, PbftInit, RaftLogInit, PbftLogInit DEF HostsInit
<1>2. IInv /\ PBFTHost!IInv /\ [HostsNext]_<<protocol, vars, bft_vars>> => IInv' /\ PBFTHost!IInv'
    BY RaftStep, PbftStep, OneHostRuns
<1>3. IInv /\ IInv' /\ [HostsNext]_<<protocol, vars, bft_vars>>
         => [Log!Next]_<<LongestCommitted, [s \in Servers |-> CommittedValues(s)]>>
    BY RaftLearns, OneHostRuns
<1>4. PBFTHost!IInv /\ PBFTHost!IInv' /\ [HostsNext]_<<protocol, vars, bft_vars>>
         => [PBFTHost!Log!Next]_<<PBFTHost!Longest, bft_executed>>
    BY PbftLearns, OneHostRuns
<1> QED
    BY <1>1, <1>2, <1>3, <1>4, PTL
        DEF HostsSpec, ImplementOneLog, ImplementsCommittedLog, Log!Spec,
            PBFTHost!ImplementsCommittedLog, PBFTHost!Log!Spec
=============================================================================
