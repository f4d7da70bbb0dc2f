------------------------------ MODULE TwoPhase ------------------------------
(***************************************************************************)
(* The two-phase commit host: twophase_gen.rs driven by                    *)
(* implementation/TwoPhase/host.rs.  Every process holds a whole CState:   *)
(* tm_prepared is the transaction manager's, rm_prepared[rm] and           *)
(* rm_committed[rm] say whether a resource manager's own sets hold it (the *)
(* manager's copy of rm_prepared always equals tm_prepared).  The          *)
(* scheduler's abort turn does nothing, so no Abort is ever sent.          *)
(*                                                                         *)
(* A packet once sent stays in tp_net: it may arrive late, repeatedly or   *)
(* never.                                                                  *)
(***************************************************************************)
EXTENDS Naturals, FiniteSets

CONSTANT RM

ASSUME TwoPhaseAssumption == IsFiniteSet(RM)

VARIABLES tm_state, tm_prepared, rm_prepared, rm_committed, tp_net

tp_vars == <<tm_state, tm_prepared, rm_prepared, rm_committed, tp_net>>

Prepare == [type |-> "Prepare"]

PreparedVote(rm) == [type |-> "PreparedVote", rm_id |-> rm]

Commit == [type |-> "Commit"]

TPInit ==
    /\ tm_state = "Init"
    /\ tm_prepared = {}
    /\ rm_prepared = [rm \in RM |-> FALSE]
    /\ rm_committed = [rm \in RM |-> FALSE]
    /\ tp_net = {}

tm_try_send_prepare ==
    /\ tm_state = "Init"
    /\ tp_net' = tp_net \cup {Prepare}
    /\ UNCHANGED <<tm_state, tm_prepared, rm_prepared, rm_committed>>

tm_receive_prepared(rm) ==
    /\ PreparedVote(rm) \in tp_net
    /\ tm_state = "Init"
    /\ tm_prepared' = tm_prepared \cup {rm}
    /\ UNCHANGED <<tm_state, rm_prepared, rm_committed, tp_net>>

\* Mutant: one vote may be missing.
tm_try_send_commit_early ==
    /\ tm_state = "Init"
    /\ Cardinality(tm_prepared) + 1 >= Cardinality(RM)
    /\ tm_state' = "Committed"
    /\ tp_net' = tp_net \cup {Commit}
    /\ UNCHANGED <<tm_prepared, rm_prepared, rm_committed>>

\* Commit is broadcast once.
tm_try_send_commit ==
    /\ tm_state = "Init"
    /\ Cardinality(tm_prepared) = Cardinality(RM) /\ RM \subseteq tm_prepared
    /\ tm_state' = "Committed"
    /\ tp_net' = tp_net \cup {Commit}
    /\ UNCHANGED <<tm_prepared, rm_prepared, rm_committed>>

\* A repeated Prepare is ignored: the vote is sent once.
rm_receive_prepare(rm) ==
    /\ Prepare \in tp_net
    /\ ~rm_prepared[rm]
    /\ rm_prepared' = [rm_prepared EXCEPT ![rm] = TRUE]
    /\ tp_net' = tp_net \cup {PreparedVote(rm)}
    /\ UNCHANGED <<tm_state, tm_prepared, rm_committed>>

rm_receive_commit(rm) ==
    /\ Commit \in tp_net
    /\ rm_prepared[rm]
    /\ ~rm_committed[rm]
    /\ rm_committed' = [rm_committed EXCEPT ![rm] = TRUE]
    /\ UNCHANGED <<tm_state, tm_prepared, rm_prepared, tp_net>>

TPNext ==
    \/ tm_try_send_prepare
    \/ tm_try_send_commit
    \/ \E rm \in RM : tm_receive_prepared(rm) \/ rm_receive_prepare(rm) \/ rm_receive_commit(rm)

TPSpec == TPInit /\ [][TPNext]_tp_vars
-----------------------------------------------------------------------------
TPMessages == {Prepare, Commit} \cup {PreparedVote(rm) : rm \in RM}

TPTypeOK ==
    /\ tm_state \in {"Init", "Committed"}
    /\ tm_prepared \subseteq RM
    /\ rm_prepared \in [RM -> BOOLEAN]
    /\ rm_committed \in [RM -> BOOLEAN]
    /\ tp_net \subseteq TPMessages

\* A resource manager commits only when every one of them has prepared, each in
\* its own state and not only in the transaction manager's copy of it.
CommittedAfterAllPrepared ==
    (tm_state = "Committed" \/ \E rm \in RM : rm_committed[rm]) => \A rm \in RM : rm_prepared[rm]

\* The inductive invariant: a vote is evidence of a prepared resource manager,
\* a Commit of a decision, and a decision of all votes.
TPInv ==
    /\ TPTypeOK
    /\ \A rm \in RM : PreparedVote(rm) \in tp_net => rm_prepared[rm]
    /\ \A rm \in tm_prepared : rm_prepared[rm]
    /\ Commit \in tp_net => tm_state = "Committed"
    /\ tm_state = "Committed" => tm_prepared = RM
    /\ \A rm \in RM : rm_committed[rm] => tm_state = "Committed"
=============================================================================
