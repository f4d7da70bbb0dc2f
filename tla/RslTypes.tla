------------------------------ MODULE RslTypes ------------------------------
(***************************************************************************)
(* Operation numbers, votes and the packets between replicas.              *)
(*                                                                         *)
(* A request batch is an uninterpreted value and the application state is  *)
(* the sequence of batches executed so far, which determines the state of  *)
(* any deterministic application.  Timers are left out: every comparison   *)
(* with a clock reading is a nondeterministic choice.                      *)
(***************************************************************************)
EXTENDS RslConfig

CONSTANTS
    MaxLogLength,   \* params.max_log_length
    Batches,        \* the request batches clients may ask for
    None,           \* absent map entry, unknown outstanding operation
    Cut             \* <<type, src, dst>> triples whose packets the network loses

ASSUME LogAssumption == MaxLogLength \in Nat \ {0}

Opns == 0 .. MaxIntegerVal

CVote == [max_value_bal : Ballots, max_val : Batches]

\* CVotes: an operation number without a vote maps to None.
CVotes == [Opns -> CVote \cup {None}]

CLearnerTuple == [received_2b_message_senders : SUBSET Replicas,
                  candidate_learned_value : Batches]

COutstandingOpKnown == [v : Batches, bal : Ballots]

ASSUME NoneAssumption ==
    None \notin CVote \cup CLearnerTuple \cup COutstandingOpKnown
-----------------------------------------------------------------------------
(***************************************************************************)
(* Packets between replicas.  A broadcast is one record that every replica *)
(* may receive; 1b and AppStateSupply are addressed to one replica.        *)
(***************************************************************************)
CMessage ==
    [type : {"1a"}, src : Replicas, bal : Ballots]
    \cup [type : {"1b"}, src : Replicas, dst : Replicas, bal : Ballots,
          log_truncation_point : Opns, votes : CVotes]
    \cup [type : {"StartingPhase2"}, src : Replicas, bal : Ballots,
          log_truncation_point : Opns]
    \cup [type : {"2a", "2b"}, src : Replicas, bal : Ballots, opn : Opns,
          val : Batches]
    \cup [type : {"Heartbeat"}, src : Replicas, bal : Ballots, opn_ckpt : Opns]
    \cup [type : {"AppStateRequest"}, src : Replicas, bal : Ballots, opn : Opns]
    \cup [type : {"AppStateSupply"}, src : Replicas, dst : Replicas,
          bal : Ballots, opn : Opns, app_state : Seq(Batches)]

Message1a(r, b) == [type |-> "1a", src |-> r, bal |-> b]

Message1b(r, to, b, ltp, votes) ==
    [type |-> "1b", src |-> r, dst |-> to, bal |-> b,
     log_truncation_point |-> ltp, votes |-> votes]

MessageStartingPhase2(r, b, ltp) ==
    [type |-> "StartingPhase2", src |-> r, bal |-> b,
     log_truncation_point |-> ltp]

Message2a(r, b, o, v) ==
    [type |-> "2a", src |-> r, bal |-> b, opn |-> o, val |-> v]

Message2b(r, b, o, v) ==
    [type |-> "2b", src |-> r, bal |-> b, opn |-> o, val |-> v]

MessageHeartbeat(r, b, ckpt) ==
    [type |-> "Heartbeat", src |-> r, bal |-> b, opn_ckpt |-> ckpt]

MessageAppStateRequest(r, b, o) ==
    [type |-> "AppStateRequest", src |-> r, bal |-> b, opn |-> o]

MessageAppStateSupply(r, to, b, o, app) ==
    [type |-> "AppStateSupply", src |-> r, dst |-> to, bal |-> b, opn |-> o,
     app_state |-> app]
=============================================================================
