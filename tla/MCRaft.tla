------------------------------- MODULE MCRaft -------------------------------
(***************************************************************************)
(* Instances of Raft for TLC: three servers, and a schedule of elections.  *)
(* Each instance spends its states on the replication between them.        *)
(***************************************************************************)
EXTENDS Raft, TLC

CONSTANTS s1, s2, s3, valueA, valueB

Symmetry == Permutations({valueA, valueB})

\* Servers 1 and 2 compete in term 1, and the winner may lose to server 2 in
\* term 2.  Server 2 does not answer server 1's request for its vote.
ElectionsSplit == {<<s1, 1>>, <<s2, 1>>, <<s2, 2>>}
CutSplit == {<<"RequestVote", s1, s2>>, <<"RequestVote", s2, s1>>}

\* Each server leads once; server 1 does not hear from server 2.
ElectionsThree == {<<s1, 1>>, <<s2, 2>>, <<s3, 3>>}
CutThree == {<<ty, s2, s1>> : ty \in {"RequestVote", "AppendEntries"}}
            \cup {<<ty, s1, s3>> : ty \in {"RequestVote", "AppendEntries"}}
=============================================================================
