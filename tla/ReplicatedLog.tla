--------------------------- MODULE ReplicatedLog ----------------------------
(***************************************************************************)
(* What the library promises: one log of batches, and on every replica an  *)
(* application that has executed a prefix of it.  A replica executes the   *)
(* next batch of the log, adding one if it is the first to get that far,   *)
(* or installs the state that a longer prefix leads to.                    *)
(***************************************************************************)
EXTENDS Naturals, Sequences

CONSTANTS Replicas, Batches

VARIABLES log, app

Init == log = <<>> /\ app = [r \in Replicas |-> <<>>]

Execute(r) ==
    \E v \in Batches :
        /\ app' = [app EXCEPT ![r] = Append(@, v)]
        /\ \/ /\ Len(app[r]) = Len(log)
              /\ log' = Append(log, v)
           \/ /\ Len(app[r]) < Len(log)
              /\ v = log[Len(app[r]) + 1]
              /\ log' = log

InstallState(r) ==
    \E n \in (Len(app[r]) + 1) .. Len(log) :
        /\ app' = [app EXCEPT ![r] = SubSeq(log, 1, n)]
        /\ log' = log

Next == \E r \in Replicas : Execute(r) \/ InstallState(r)

Spec == Init /\ [][Next]_<<log, app>>
=============================================================================
