-------------------------- MODULE StreamTransport ---------------------------
(***************************************************************************)
(* The Lion runtime's TCP transport (lion-server/src/stream.rs) of one     *)
(* process: connections to configured members and from whoever connects,   *)
(* each a task with a queue of frames, and one inbox that all of them fill *)
(* with what they read and with the errors they end with.                  *)
(*                                                                         *)
(* The executor has one thread, so what a task does between two awaits is  *)
(* one step.  A task is known by the connection permit that it holds from  *)
(* its start until it has ended, after its report: a free task is a free   *)
(* permit.  What frames and errors say, keys and certificates are left     *)
(* out: a handshake succeeds or fails.                                     *)
(***************************************************************************)
EXTENDS Naturals, Sequences, SequencesExt, Lists

CONSTANTS
    Members,            \* known: the peers that can be connected to
    Clients,            \* peers that can only connect
    Tasks,              \* MAX_CONNECTIONS tasks
    Frames,             \* the frames that are sent
    ConnectionQueue,    \* CONNECTION_QUEUE
    ReceiveQueue,       \* RECEIVE_QUEUE
    None

VARIABLES
    connections,    \* per peer: its routes, the newest last
    stage,          \* per task
    queue,          \* per task: the frames queued for it
    waiting,        \* per task: the frames whose senders wait for a place there
    writing,        \* per task: the frame that it writes
    holding,        \* per task: a frame is read and waits for a place in the inbox
    inbox,          \* how many packets and errors the inbox holds
    listener,       \* the accept loop
    answer,         \* per frame: what its sender knows
    written,        \* ghost: the frames that were written in full
    shutdown

vars == <<connections, stage, queue, waiting, writing, holding, inbox, listener, answer,
          written, shutdown>>

Peers == Members \cup Clients

\* The stages in which a task takes frames into its queue.
Open == {"Connecting", "Running"}

\* A server listens; a client is like a server whose listener has stopped.
Init ==
    /\ connections = [p \in Peers |-> <<>>]
    /\ stage = [t \in Tasks |-> "Free"]
    /\ queue = [t \in Tasks |-> <<>>]
    /\ waiting = [t \in Tasks |-> <<>>]
    /\ writing = [t \in Tasks |-> None]
    /\ holding = [t \in Tasks |-> FALSE]
    /\ inbox = 0
    /\ listener = "Accepting"
    /\ answer = [f \in Frames |-> "New"]
    /\ written = {}
    /\ shutdown = FALSE
-----------------------------------------------------------------------------
(***************************************************************************)
(* The owner's calls.                                                      *)
(***************************************************************************)
\* The routes of p whose queues are open.
Retained(p) == Retain(connections[p], {t \in Tasks : stage[t] \in Open})

\* A frame may leave on task t: p's newest route, or a connection that is begun
\* for it.
route(p, t) ==
    IF Retained(p) # <<>>
    THEN /\ t = Last(Retained(p))
         /\ connections' = [connections EXCEPT ![p] = Retained(p)]
         /\ UNCHANGED stage
    ELSE /\ p \in Members /\ stage[t] = "Free"
         /\ connections' = [connections EXCEPT ![p] = <<t>>]
         /\ stage' = [stage EXCEPT ![t] = "Connecting"]

\* There is no route to p, and none can be begun.
no_route(p) ==
    /\ Retained(p) = <<>>
    /\ p \in Members => \A t \in Tasks : stage[t] # "Free"
    /\ connections' = [connections EXCEPT ![p] = <<>>]

connect_members(p) ==
    /\ ~shutdown /\ p \in Members
    /\ \E t \in Tasks : route(p, t)
    /\ UNCHANGED <<queue, waiting, writing, holding, inbox, listener, answer, written, shutdown>>

\* The sender waits for a place in the queue, and then for the frame's answer.
send_owned(f, p) ==
    /\ ~shutdown /\ answer[f] = "New"
    /\ \/ \E t \in Tasks :
             /\ route(p, t)
             /\ answer' = [answer EXCEPT ![f] = "Awaited"]
             /\ IF Len(queue[t]) < ConnectionQueue
                THEN queue' = [queue EXCEPT ![t] = Append(@, f)] /\ UNCHANGED waiting
                ELSE waiting' = [waiting EXCEPT ![t] = Append(@, f)] /\ UNCHANGED queue
       \/ /\ no_route(p)
          /\ answer' = [answer EXCEPT ![f] = "Failed"]
          /\ UNCHANGED <<stage, queue, waiting>>
    /\ UNCHANGED <<writing, holding, inbox, listener, written, shutdown>>

\* The sender never waits: a full queue is an error, and nobody is told how the
\* write of a queued frame ends.
enqueue_owned(f, p) ==
    /\ ~shutdown /\ answer[f] = "New"
    /\ \/ \E t \in Tasks :
             /\ route(p, t)
             /\ IF Len(queue[t]) < ConnectionQueue
                THEN /\ queue' = [queue EXCEPT ![t] = Append(@, f)]
                     /\ answer' = [answer EXCEPT ![f] = "Queued"]
                ELSE /\ answer' = [answer EXCEPT ![f] = "Failed"]
                     /\ UNCHANGED queue
       \/ /\ no_route(p)
          /\ answer' = [answer EXCEPT ![f] = "Failed"]
          /\ UNCHANGED <<stage, queue>>
    /\ UNCHANGED <<waiting, writing, holding, inbox, listener, written, shutdown>>

\* The sender gives up.  A frame that is queued by then is sent all the same.
cancel(f) ==
    /\ answer[f] = "Awaited"
    /\ IF \E t \in Tasks : Contains(waiting[t], f)
       THEN /\ waiting' = [t \in Tasks |-> Retain(waiting[t], Frames \ {f})]
            /\ answer' = [answer EXCEPT ![f] = "Withdrawn"]
       ELSE answer' = [answer EXCEPT ![f] = "Queued"] /\ UNCHANGED waiting
    /\ UNCHANGED <<connections, stage, queue, writing, holding, inbox, listener, written, shutdown>>

recv ==
    /\ ~shutdown /\ inbox > 0
    /\ inbox' = inbox - 1
    /\ UNCHANGED <<connections, stage, queue, waiting, writing, holding, listener, answer,
                   written, shutdown>>

\* The owner drops the transport; no send can be under way, for it borrows it.
drop ==
    /\ ~shutdown
    /\ \A f \in Frames : answer[f] # "Awaited"
    /\ shutdown' = TRUE
    /\ UNCHANGED <<connections, stage, queue, waiting, writing, holding, inbox, listener, answer,
                   written>>
-----------------------------------------------------------------------------
(***************************************************************************)
(* The accept loop.                                                        *)
(***************************************************************************)
\* A connection arrives, or the socket fails.
accept ==
    /\ listener = "Accepting"
    /\ \/ \E t \in Tasks :
             /\ stage[t] = "Free"
             /\ stage' = [stage EXCEPT ![t] = "Accepting"]
             /\ UNCHANGED listener
       \/ /\ \A t \in Tasks : stage[t] # "Free"
          /\ listener' = "Rejecting" /\ UNCHANGED stage
       \/ listener' = "Failing" /\ UNCHANGED stage
    /\ UNCHANGED <<connections, queue, waiting, writing, holding, inbox, answer, written, shutdown>>

\* The loop's own report, for which it waits before it goes on.
accept_report ==
    /\ listener \in {"Rejecting", "Failing"}
    /\ shutdown \/ inbox < ReceiveQueue
    /\ inbox' = IF shutdown THEN inbox ELSE inbox + 1
    /\ listener' = IF listener = "Rejecting" THEN "Accepting" ELSE "Stopped"
    /\ UNCHANGED <<connections, stage, queue, waiting, writing, holding, answer, written, shutdown>>

accept_stop ==
    /\ listener = "Accepting" /\ shutdown
    /\ listener' = "Stopped"
    /\ UNCHANGED <<connections, stage, queue, waiting, writing, holding, inbox, answer, written, shutdown>>
-----------------------------------------------------------------------------
(***************************************************************************)
(* A connection's task.                                                    *)
(***************************************************************************)
accept_connection(t, p) ==
    /\ stage[t] = "Accepting"
    /\ stage' = [stage EXCEPT ![t] = "Running"]
    /\ connections' = [connections EXCEPT ![p] = Append(@, t)]
    /\ UNCHANGED <<queue, waiting, writing, holding, inbox, listener, answer, written, shutdown>>

\* A handshake that fails or times out, and the shutdown, which ends it silently.
accept_failed(t) ==
    /\ stage[t] = "Accepting"
    /\ stage' = [stage EXCEPT ![t] = IF shutdown THEN "Free" ELSE "Reporting"]
    /\ UNCHANGED <<connections, queue, waiting, writing, holding, inbox, listener, answer,
                   written, shutdown>>

connected(t) ==
    /\ stage[t] = "Connecting"
    /\ stage' = [stage EXCEPT ![t] = "Running"]
    /\ UNCHANGED <<connections, queue, waiting, writing, holding, inbox, listener, answer,
                   written, shutdown>>

\* Mutant: the peer's other routes go as well.
remove_peer(t) ==
    connections' = [p \in Peers |-> IF Contains(connections[p], t) THEN <<>> ELSE connections[p]]

remove_connection(t) ==
    connections' = [p \in Peers |-> Retain(connections[p], Tasks \ {t})]

\* The queue is closed: who waits for a frame that is queued, or for a place in
\* the queue, is told; and so is who waits for the frame that is being written,
\* when the write is given up.
fail_queued(t) ==
    /\ queue' = [queue EXCEPT ![t] = <<>>]
    /\ waiting' = [waiting EXCEPT ![t] = <<>>]
    /\ answer' = [f \in Frames |->
                     IF answer[f] # "Awaited" THEN answer[f]
                     ELSE IF f = writing[t] THEN "Broken"
                     ELSE IF Contains(queue[t] \o waiting[t], f) THEN "Failed"
                     ELSE answer[f]]

\* The end of a connection.  The frame that was being written may have got
\* through; one that was read and had no place in the inbox is lost.
Close(t) ==
    /\ remove_connection(t)
    /\ fail_queued(t)
    /\ written' \in {written, written \cup ({writing[t]} \ {None})}
    /\ writing' = [writing EXCEPT ![t] = None]
    /\ holding' = [holding EXCEPT ![t] = FALSE]
    /\ stage' = [stage EXCEPT ![t] = IF shutdown THEN "Free" ELSE "Reporting"]
    /\ UNCHANGED <<inbox, listener, shutdown>>

\* The connection cannot be made, in time or at all.
connect_failed(t) == stage[t] = "Connecting" /\ Close(t)

First(s) == IF s = <<>> THEN <<>> ELSE <<Head(s)>>

\* Mutant: the sender is told as soon as the frame leaves the queue.
take_answer(t) ==
    /\ stage[t] = "Running" /\ writing[t] = None /\ queue[t] # <<>>
    /\ writing' = [writing EXCEPT ![t] = Head(queue[t])]
    /\ queue' = [queue EXCEPT ![t] = Tail(@) \o First(waiting[t])]
    /\ waiting' = [waiting EXCEPT ![t] = SubSeq(@, 2, Len(@))]
    /\ answer' = [answer EXCEPT ![Head(queue[t])] = IF @ = "Awaited" THEN "Ok" ELSE @]
    /\ UNCHANGED <<connections, stage, holding, inbox, listener, written, shutdown>>

\* Mutant: a task that waits for a place in the inbox does not write.
take_in_turn(t) ==
    /\ stage[t] = "Running" /\ writing[t] = None /\ queue[t] # <<>> /\ ~holding[t]
    /\ writing' = [writing EXCEPT ![t] = Head(queue[t])]
    /\ queue' = [queue EXCEPT ![t] = Tail(@) \o First(waiting[t])]
    /\ waiting' = [waiting EXCEPT ![t] = SubSeq(@, 2, Len(@))]
    /\ UNCHANGED <<connections, stage, holding, inbox, listener, answer, written, shutdown>>

\* The next frame is taken from the queue, and the first sender that waits for a
\* place there has it.
take(t) ==
    /\ stage[t] = "Running" /\ writing[t] = None /\ queue[t] # <<>>
    /\ writing' = [writing EXCEPT ![t] = Head(queue[t])]
    /\ queue' = [queue EXCEPT ![t] = Tail(@) \o First(waiting[t])]
    /\ waiting' = [waiting EXCEPT ![t] = SubSeq(@, 2, Len(@))]
    /\ UNCHANGED <<connections, stage, holding, inbox, listener, answer, written, shutdown>>

write_frame(t) ==
    /\ stage[t] = "Running" /\ writing[t] # None
    /\ written' = written \cup {writing[t]}
    /\ answer' = [answer EXCEPT ![writing[t]] = IF @ = "Awaited" THEN "Ok" ELSE @]
    /\ writing' = [writing EXCEPT ![t] = None]
    /\ UNCHANGED <<connections, stage, queue, waiting, holding, inbox, listener, shutdown>>

\* The stream breaks, or the write takes longer than WRITE_TIMEOUT.
write_failed(t) == stage[t] = "Running" /\ writing[t] # None /\ Close(t)

read_frame(t) ==
    /\ stage[t] = "Running" /\ ~holding[t]
    /\ holding' = [holding EXCEPT ![t] = TRUE]
    /\ UNCHANGED <<connections, stage, queue, waiting, writing, inbox, listener, answer, written, shutdown>>

deliver(t) ==
    /\ holding[t] /\ ~shutdown /\ inbox < ReceiveQueue
    /\ inbox' = inbox + 1
    /\ holding' = [holding EXCEPT ![t] = FALSE]
    /\ UNCHANGED <<connections, stage, queue, waiting, writing, listener, answer, written, shutdown>>

\* The peer closes the stream, or sends what is not a frame.
read_failed(t) == stage[t] = "Running" /\ ~holding[t] /\ Close(t)

\* Mutant: only a task that is not under way sees the shutdown.
run_stop_unseen(t) == stage[t] = "Connecting" /\ shutdown /\ Close(t)

\* The shutdown ends a connection in whatever it does.
run_stop(t) == stage[t] \in Open /\ shutdown /\ Close(t)

\* The error of a connection goes to the inbox when there is room; then the task
\* ends, and its permit is free.
report(t) ==
    /\ stage[t] = "Reporting"
    /\ shutdown \/ inbox < ReceiveQueue
    /\ inbox' = IF shutdown THEN inbox ELSE inbox + 1
    /\ stage' = [stage EXCEPT ![t] = "Free"]
    /\ UNCHANGED <<connections, queue, waiting, writing, holding, listener, answer, written, shutdown>>
-----------------------------------------------------------------------------
Owner ==
    \/ \E p \in Peers : connect_members(p)
    \/ \E f \in Frames : cancel(f) \/ \E p \in Peers : send_owned(f, p) \/ enqueue_owned(f, p)
    \/ recv \/ drop

Task(t) ==
    \/ \E p \in Peers : accept_connection(t, p)
    \/ accept_failed(t) \/ connected(t) \/ connect_failed(t)
    \/ take(t) \/ write_frame(t) \/ write_failed(t)
    \/ read_frame(t) \/ deliver(t) \/ read_failed(t)
    \/ run_stop(t) \/ report(t)

Next == Owner \/ accept \/ accept_report \/ accept_stop \/ \E t \in Tasks : Task(t)

Spec == Init /\ [][Next]_vars
-----------------------------------------------------------------------------
\* The routes of a peer are the connections to it whose queues are open, each
\* once: a connection that ends takes no other route away and leaves none behind,
\* and every accepted frame is with a task that is still there.
RoutesOpen ==
    /\ \A p \in Peers :
          /\ IsInjective(connections[p])
          /\ \A i \in DOMAIN connections[p] : stage[connections[p][i]] \in Open
    /\ \A t \in Tasks :
          /\ stage[t] \in Open => \E p \in Peers : Contains(connections[p], t)
          /\ stage[t] \notin Open => queue[t] = <<>> /\ waiting[t] = <<>> /\ writing[t] = None
    /\ \A f \in Frames : answer[f] = "Awaited" =>
          \E t \in Tasks : f = writing[t] \/ Contains(queue[t] \o waiting[t], f)

\* Success means that the frame was written in full, not merely queued; and a
\* frame that was refused or withdrawn in time is never written afterwards.
SuccessMeansWritten ==
    \A f \in Frames :
        /\ answer[f] = "Ok" => f \in written
        /\ answer[f] \in {"Failed", "Withdrawn"} => f \notin written

\* Nobody waits for a frame for ever, also when its peer never reads, when the
\* inbox stays full or when the connection ends.
SendsAnswered == \A f \in Frames : []<>(answer[f] # "Awaited")

\* The permits of connections that have failed come back as long as the owner
\* receives, and after the shutdown all of them do.
PermitsReturned ==
    /\ \A t \in Tasks : []<>(stage[t] # "Reporting")
    /\ []<>(shutdown => \A t \in Tasks : stage[t] = "Free")
-----------------------------------------------------------------------------
(***************************************************************************)
(* The inductive invariant.                                                *)
(***************************************************************************)
TypeOK ==
    /\ connections \in [Peers -> Seq(Tasks)]
    /\ stage \in [Tasks -> {"Free", "Accepting", "Connecting", "Running", "Reporting"}]
    /\ queue \in [Tasks -> Seq(Frames)]
    /\ waiting \in [Tasks -> Seq(Frames)]
    /\ writing \in [Tasks -> Frames \cup {None}]
    /\ answer \in [Frames -> {"New", "Awaited", "Queued", "Failed", "Withdrawn", "Broken", "Ok"}]
    /\ written \subseteq Frames

\* A frame is with one task at most, in one place: the one it writes, its queue or
\* the line before it.
HeldOnce ==
    /\ \A t \in Tasks :
          /\ IsInjective(queue[t] \o waiting[t])
          /\ ~Contains(queue[t] \o waiting[t], writing[t])
    /\ \A t, u \in Tasks : t # u =>
          /\ \A f \in Frames : ~(Contains(queue[t] \o waiting[t], f)
                                    /\ Contains(queue[u] \o waiting[u], f))
          /\ ~Contains(queue[t] \o waiting[t], writing[u])
          /\ writing[t] = writing[u] => writing[t] = None

\* What a task holds was not written before, and its sender was not told.
HeldIsOpen ==
    /\ \A f \in Frames : answer[f] = "New" => f \notin written
    /\ \A t \in Tasks, f \in Frames : f = writing[t] \/ Contains(queue[t] \o waiting[t], f) =>
          answer[f] \in {"Awaited", "Queued"} /\ f \notin written

IInv == TypeOK /\ RoutesOpen /\ HeldOnce /\ HeldIsOpen /\ SuccessMeansWritten
=============================================================================
