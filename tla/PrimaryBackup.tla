--------------------------- MODULE PrimaryBackup ----------------------------
(***************************************************************************)
(* The primary-backup host: primarybackup_gen.rs driven by                 *)
(* implementation/PrimaryBackup/host.rs.  Node 0 starts as the primary,    *)
(* node 1 as the backup and any further node as inactive; every Replicate  *)
(* goes to node 1 and every Ack to node 0.  Nothing calls primary_fail, so *)
(* backup_synced is always true.  A write is acknowledged and committed in *)
(* one step, so acked is false exactly while a write is pending.           *)
(*                                                                         *)
(* The code counts the writes of a log and keeps the last; here the log is *)
(* the sequence.  A packet once sent stays in net: it may arrive late,     *)
(* repeatedly or never.                                                    *)
(***************************************************************************)
EXTENDS Naturals, Sequences, SequencesExt

CONSTANTS
    N,             \* the number of nodes, at least 2
    Clients, Values,
    MaxLog         \* max_log_len, and the bound on the backup's log

VARIABLES
    role, view,
    log,           \* log_length and last_value
    pending,       \* the pending write and its client, or <<>>
    backup_log,    \* backup_log_length and backup_last_value
    net,
    accepted,      \* history: the writes each node took, with their clients
    replies        \* history: the replies each node sent

vars == <<role, view, log, pending, backup_log, net, accepted, replies>>

Nodes == 0 .. N - 1

Replicate(v) == [type |-> "Replicate", dst |-> 1, value |-> v]

Ack == [type |-> "Ack", dst |-> 0]

Init ==
    /\ role = [n \in Nodes |-> IF n = 0 THEN "Primary" ELSE IF n = 1 THEN "Backup" ELSE "Inactive"]
    /\ view = [n \in Nodes |-> 0]
    /\ log = [n \in Nodes |-> <<>>]
    /\ pending = [n \in Nodes |-> <<>>]
    /\ backup_log = <<>>
    /\ net = {}
    /\ accepted = [n \in Nodes |-> <<>>]
    /\ replies = [n \in Nodes |-> <<>>]

\* Mutant: a write is taken while another is pending.
primary_handle_any_request(n, c, v) ==
    /\ role[n] = "Primary"
    /\ Len(log[n]) < MaxLog /\ Len(accepted[n]) <= MaxLog
    /\ pending' = [pending EXCEPT ![n] = <<v, c>>]
    /\ accepted' = [accepted EXCEPT ![n] = Append(@, <<v, c>>)]
    /\ net' = net \cup {Replicate(v)}
    /\ UNCHANGED <<role, view, log, backup_log, replies>>

\* A request that finds a write pending is dropped, and the client retries.
primary_handle_client_request(n, c, v) ==
    /\ role[n] = "Primary"
    /\ pending[n] = <<>>
    /\ Len(log[n]) < MaxLog
    /\ pending' = [pending EXCEPT ![n] = <<v, c>>]
    /\ accepted' = [accepted EXCEPT ![n] = Append(@, <<v, c>>)]
    /\ net' = net \cup {Replicate(v)}
    /\ UNCHANGED <<role, view, log, backup_log, replies>>

primary_try_send_replicate(n) ==
    /\ role[n] = "Primary"
    /\ pending[n] # <<>>
    /\ net' = net \cup {Replicate(pending[n][1])}
    /\ UNCHANGED <<role, view, log, pending, backup_log, accepted, replies>>

\* With primary_try_commit: the pending write is committed and answered,
\* whichever write the backup meant.
primary_receive_ack(n) ==
    /\ role[n] = "Primary"
    /\ pending[n] # <<>>
    /\ log' = [log EXCEPT ![n] = Append(@, pending[n][1])]
    /\ replies' = [replies EXCEPT ![n] = Append(@, pending[n])]
    /\ pending' = [pending EXCEPT ![n] = <<>>]
    /\ UNCHANGED <<role, view, backup_log, net, accepted>>

\* Every copy that arrives is appended, and acknowledged.
backup_receive_replicate(n, v) ==
    /\ role[n] = "Backup"
    /\ Len(backup_log) < MaxLog
    /\ backup_log' = Append(backup_log, v)
    /\ net' = net \cup {Ack}
    /\ UNCHANGED <<role, view, log, pending, accepted, replies>>

\* Every second turn of the backup's timer, whatever it has received.
backup_try_send_ack(n) ==
    /\ role[n] = "Backup"
    /\ net' = net \cup {Ack}
    /\ UNCHANGED <<role, view, log, pending, backup_log, accepted, replies>>

\* The new primary takes over its own copy of the backup's log, which is empty.
backup_try_promote(n) ==
    /\ role[n] = "Inactive"
    /\ role' = [role EXCEPT ![n] = "Primary"]
    /\ view' = [view EXCEPT ![n] = @ + 1]
    /\ UNCHANGED <<log, pending, backup_log, net, accepted, replies>>

Deliver(n) ==
    \E m \in net :
        /\ m.dst = n
        /\ \/ m.type = "Ack" /\ primary_receive_ack(n)
           \/ m.type = "Replicate" /\ backup_receive_replicate(n, m.value)

Next ==
    \E n \in Nodes :
        \/ \E c \in Clients, v \in Values : primary_handle_client_request(n, c, v)
        \/ primary_try_send_replicate(n)
        \/ backup_try_send_ack(n)
        \/ backup_try_promote(n)
        \/ Deliver(n)

Spec == Init /\ [][Next]_vars
-----------------------------------------------------------------------------
\* Every write that a primary takes is committed and answered once, in the order
\* taken, to the client that asked for it, whatever acknowledgements arrive.
AnsweredInOrder ==
    \A n \in Nodes :
        /\ accepted[n] = replies[n] \o IF pending[n] = <<>> THEN <<>> ELSE <<pending[n]>>
        /\ log[n] = [i \in DOMAIN replies[n] |-> replies[n][i][1]]

\* The order is inductive, given what the histories are made of.
IInv ==
    /\ log \in [Nodes -> Seq(Values)]
    /\ pending \in [Nodes -> {<<>>} \cup (Values \X Clients)]
    /\ accepted \in [Nodes -> Seq(Values \X Clients)]
    /\ replies \in [Nodes -> Seq(Values \X Clients)]
    /\ AnsweredInOrder
=============================================================================
