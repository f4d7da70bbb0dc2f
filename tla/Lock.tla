-------------------------------- MODULE Lock --------------------------------
(***************************************************************************)
(* The distributed lock (implementation/lock): a token passed around the   *)
(* ring of the configuration.  A host that holds the lock sends it on at   *)
(* its next step; one that does not reads a packet.                        *)
(*                                                                         *)
(* A packet once sent stays in net: it may arrive late or repeatedly.      *)
(* Hosts outside the configuration may send Transfers of their own.        *)
(***************************************************************************)
EXTENDS Naturals, Sequences

CONSTANTS
    N,          \* hosts of the configuration, 0 .. N - 1
    MaxEpoch    \* the largest epoch (2^64 - 1 in the code)

ASSUME LockAssumption == N \in Nat \ {0} /\ MaxEpoch \in Nat \ {0}

VARIABLES
    held, epoch,    \* of each host
    history,        \* ghost: the hosts that the lock was granted to
    net

vars == <<held, epoch, history, net>>

Hosts == 0 .. N - 1

Outsider == N

CTransfer(src, dst, e) == [type |-> "Transfer", src |-> src, dst |-> dst, epoch |-> e]

CLocked(src, dst, e) == [type |-> "Locked", src |-> src, dst |-> dst, epoch |-> e]

Packets ==
    [type : {"Transfer", "Locked"}, src : Hosts \cup {Outsider}, dst : Hosts, epoch : 0 .. MaxEpoch]

Init ==
    /\ held = [h \in Hosts |-> h = 0]
    /\ epoch = [h \in Hosts |-> IF h = 0 THEN 1 ELSE 0]
    /\ history = <<0>>
    /\ net = {CTransfer(Outsider, h, MaxEpoch) : h \in Hosts}

\* In the last epoch the lock stays where it is.
grant(h) ==
    /\ held[h]
    /\ epoch[h] < MaxEpoch
    /\ held' = [held EXCEPT ![h] = FALSE]
    /\ net' = net \cup {CTransfer(h, (h + 1) % N, epoch[h] + 1)}
    /\ history' = Append(history, (h + 1) % N)
    /\ UNCHANGED epoch

\* Mutant: a Transfer of the epoch that the host has already seen is accepted.
accept_again(h, m) ==
    /\ m.type = "Transfer" /\ m.dst = h
    /\ ~held[h]
    /\ m.src \in Hosts
    /\ m.epoch >= epoch[h]
    /\ held' = [held EXCEPT ![h] = TRUE]
    /\ epoch' = [epoch EXCEPT ![h] = m.epoch]
    /\ net' = net \cup {CLocked(h, m.src, m.epoch)}
    /\ UNCHANGED history

\* Mutant: the Locked packet says the epoch that the host was in before.
accept_announce_old(h, m) ==
    /\ m.type = "Transfer" /\ m.dst = h
    /\ ~held[h]
    /\ m.src \in Hosts
    /\ m.epoch > epoch[h]
    /\ held' = [held EXCEPT ![h] = TRUE]
    /\ epoch' = [epoch EXCEPT ![h] = m.epoch]
    /\ net' = net \cup {CLocked(h, m.src, epoch[h])}
    /\ UNCHANGED history

accept(h, m) ==
    /\ m.type = "Transfer" /\ m.dst = h
    /\ ~held[h]
    /\ m.src \in Hosts
    /\ m.epoch > epoch[h]
    /\ held' = [held EXCEPT ![h] = TRUE]
    /\ epoch' = [epoch EXCEPT ![h] = m.epoch]
    /\ net' = net \cup {CLocked(h, m.src, m.epoch)}
    /\ UNCHANGED history

Next == \E h \in Hosts : grant(h) \/ \E m \in net : accept(h, m)

Spec == Init /\ [][Next]_vars
-----------------------------------------------------------------------------
TypeOK ==
    /\ held \in [Hosts -> BOOLEAN]
    /\ epoch \in [Hosts -> 0 .. MaxEpoch]
    /\ history \in Seq(Hosts)
    /\ net \subseteq Packets

\* Two hosts never hold the lock together, however often old Transfers return.
MutualExclusion == \A g, h \in Hosts : held[g] /\ held[h] => g = h

\* The hosts implement the lock service: whoever says in a Locked packet that it
\* holds the lock in an epoch is the holder that the history has for that epoch.
Service == INSTANCE LockService WITH
    locked <- {<<m.epoch, m.src>> : m \in {p \in net : p.type = "Locked"}}

ImplementsLockService == Service!Spec

\* A Transfer that its destination would accept if it does not hold the lock.
Acceptable(m) == m.type = "Transfer" /\ m.src \in Hosts /\ m.epoch > epoch[m.dst]

\* The inductive invariant: the lock is with the last host of the history or on
\* its way to it, and nothing older is acceptable any more.
IInv ==
    /\ TypeOK
    /\ Len(history) >= 1
    /\ \A h \in Hosts :
          /\ epoch[h] <= Len(history)
          /\ held[h] => epoch[h] = Len(history) /\ history[Len(history)] = h
    /\ \A m \in net : Acceptable(m) =>
          /\ m.epoch = Len(history)
          /\ m.dst = history[Len(history)]
          /\ \A h \in Hosts : ~held[h]
    /\ \A m \in net : m.type = "Locked" =>
          m.epoch \in 1 .. Len(history) /\ m.src = history[m.epoch]
=============================================================================
