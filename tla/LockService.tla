---------------------------- MODULE LockService -----------------------------
(***************************************************************************)
(* What the lock service promises (services/lock/abstractservice_s.rs):    *)
(* the lock has one history of holders, which only grows, and a host says  *)
(* that it holds the lock in an epoch only if it is the holder that the    *)
(* history has for that epoch.                                             *)
(***************************************************************************)
EXTENDS Naturals, Sequences

CONSTANT Hosts

VARIABLES history, locked

vars == <<history, locked>>

Init ==
    /\ \E h \in Hosts : history = <<h>>
    /\ locked = {}

Grant(new_lock_holder) ==
    /\ history' = Append(history, new_lock_holder)
    /\ UNCHANGED locked

Announce(epoch) ==
    /\ locked' = locked \cup {<<epoch, history[epoch]>>}
    /\ UNCHANGED history

Next ==
    \/ \E h \in Hosts : Grant(h)
    \/ \E epoch \in 1 .. Len(history) : Announce(epoch)

Spec == Init /\ [][Next]_vars
=============================================================================
