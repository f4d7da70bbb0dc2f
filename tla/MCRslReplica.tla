---------------------------- MODULE MCRslReplica ----------------------------
(***************************************************************************)
(* Instances of RslReplica for TLC: three replicas.  Cut restricts which   *)
(* packets arrive, so that each instance spends its states on one          *)
(* interaction; a packet that is not in it is still lost, delayed,         *)
(* duplicated and reordered freely.                                        *)
(***************************************************************************)
EXTENDS RslInvariant, TLC

CONSTANTS batchA, batchB

Symmetry == Permutations({batchA, batchB})

R == 0 .. 2

Types == {"1a", "1b", "StartingPhase2", "2a", "2b", "Heartbeat",
          "AppStateRequest", "AppStateSupply"}

View2 == CBallot(1, 1)

\* Replica 2 misses the first view and every vote: it can only be sent the
\* state.  Replica 0 hears of the checkpoints, so its promise to the second
\* leader has the higher truncation point.
CutStateTransfer ==
    ({"Heartbeat"} \X R \X {1, 2}) \cup ({"2b"} \X R \X {2})
    \cup ({"StartingPhase2"} \X R \X {0, 1}) \cup ({"AppStateRequest"} \X R \X {1, 2})
    \cup {<<"1a", 0, 2>>, <<"2a", 0, 2>>, <<"1a", 1, 2>>, <<"2a", 1, 0>>, <<"2b", 2, 0>>,
          <<"Heartbeat", 2, 0>>}

\* The same, and the second leader's proposals are lost.
CutCatchUp == CutStateTransfer \cup ({"2a"} \X {1} \X R)

\* Replica 0, the first leader, is down.
CutFailover ==
    ({"StartingPhase2"} \X R \X R)
    \cup ((Types \X R \X R) \ (Types \X {1, 2} \X {1, 2}))

\* With the first leader down, the other two elect the next and execute every
\* operation the parameters admit, the log's window moving on twice.
Failover == \A r \in {1, 2} : <>(executor[r].ops_complete = MaxIntegerVal)
=============================================================================
