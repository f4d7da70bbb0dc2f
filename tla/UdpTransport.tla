---------------------------- MODULE UdpTransport ----------------------------
(***************************************************************************)
(* The Lion runtime's UDP transport (lion-server/src/udp.rs): members that *)
(* send to one receiving member.  An oversized message leaves as fragments *)
(* under the identity of its sender's session and sequence number and is   *)
(* put together again by the receiver's Reassembly; a message of one       *)
(* datagram travels as it is.                                              *)
(*                                                                         *)
(* A length counts fragments, a message's bytes are its parts <<n, i>>:    *)
(* part i of its sender's n-th message.  A datagram once sent stays in     *)
(* net: it may arrive late, repeatedly or never.  The instants expires and *)
(* next_expiry are kept as the time that is left until then, 0 when they   *)
(* are due, and -1 stands for None.  The checks of a frame's header reject *)
(* what no member sends and are left out.                                  *)
(***************************************************************************)
EXTENDS Integers, FiniteSets, FiniteSetsExt, Functions, Sequences

CONSTANTS
    Peers,                  \* the members that send
    Sizes,                  \* lengths of messages; 1 is a plain datagram
    MaxQueuedMessages,      \* MAX_QUEUED_MESSAGES
    MaxQueuedBytes,         \* MAX_QUEUED_BYTES, in fragments
    MaxBatchSize,           \* MAX_BATCH_SIZE
    MaxReassemblyBytes,     \* MAX_REASSEMBLY_BYTES, in fragments
    MaxReassemblies,        \* MAX_REASSEMBLIES
    MaxPeerReassemblies,    \* MAX_PEER_REASSEMBLIES
    ReassemblyTimeout,      \* REASSEMBLY_TIMEOUT, in ticks
    MaxMessages,            \* bound: messages a peer sends
    MaxRestarts             \* bound: restarts of a peer

VARIABLES
    pending,        \* per peer: the datagrams of its queued messages, in order
    frames,         \* per peer: the batch that is being sent
    session, sequence,
    enqueued,       \* ghost, per peer: the lengths of its messages
    net,
    messages,       \* the receiver's assemblies, by key
    retained_bytes, next_expiry,
    delivered       \* ghost: what the replica was given

sender_vars == <<pending, frames, session, sequence, enqueued>>

vars == <<pending, frames, session, sequence, enqueued, net,
          messages, retained_bytes, next_expiry, delivered>>

NoDeadline == -1

Init ==
    /\ pending = [p \in Peers |-> <<>>]
    /\ frames = [p \in Peers |-> <<>>]
    /\ session = [p \in Peers |-> 0]
    /\ sequence = [p \in Peers |-> 0]
    /\ enqueued = [p \in Peers |-> <<>>]
    /\ net = {}
    /\ messages = <<>>
    /\ retained_bytes = 0
    /\ next_expiry = NoDeadline
    /\ delivered = {}

\* The datagrams of the peer's next message: the id is zero in a plain one, which
\* has no header.
Datagrams(p, id, total) ==
    [i \in 1 .. total |->
        [peer |-> p, id |-> id, total |-> total, index |-> i, part |-> <<Len(enqueued[p]) + 1, i>>]]

\* The positions of the last datagrams of the queued messages.
QueuedMessages(p) == {i \in DOMAIN pending[p] : pending[p][i].index = pending[p][i].total}

QueuedBytes(p) == MapThenSumSet(LAMBDA i : pending[p][i].total, QueuedMessages(p))

\* Mutant: the identity is the sequence number alone.
message_id_without_session(p, total) == IF total = 1 THEN <<0, 0>> ELSE <<0, sequence[p] + 1>>

message_id(p, total) == IF total = 1 THEN <<0, 0>> ELSE <<session[p], sequence[p] + 1>>

\* A message that finds the queue full is dropped.
enqueue(p, total) ==
    /\ Len(enqueued[p]) < MaxMessages
    /\ Cardinality(QueuedMessages(p)) < MaxQueuedMessages
    /\ QueuedBytes(p) + total <= MaxQueuedBytes
    /\ sequence' = [sequence EXCEPT ![p] = IF total = 1 THEN @ ELSE @ + 1]
    /\ pending' = [pending EXCEPT ![p] = @ \o Datagrams(p, message_id(p, total), total)]
    /\ enqueued' = [enqueued EXCEPT ![p] = Append(@, total)]
    /\ UNCHANGED <<frames, session, net, messages, retained_bytes, next_expiry, delivered>>

fill_batch(p) ==
    LET n == Min({MaxBatchSize, Len(pending[p])}) IN
    /\ frames[p] = <<>> /\ n > 0
    /\ frames' = [frames EXCEPT ![p] = SubSeq(pending[p], 1, n)]
    /\ pending' = [pending EXCEPT ![p] = SubSeq(@, n + 1, Len(@))]
    /\ UNCHANGED <<session, sequence, enqueued, net, messages, retained_bytes, next_expiry, delivered>>

\* The socket takes a prefix of the batch.
poll_send(p, count) ==
    /\ frames' = [frames EXCEPT ![p] = SubSeq(@, count + 1, Len(@))]
    /\ net' = net \cup {frames[p][i] : i \in 1 .. count}
    /\ UNCHANGED <<pending, session, sequence, enqueued, messages, retained_bytes, next_expiry, delivered>>

\* A packet-local error discards the first datagram of the batch.
drop_first(p) ==
    /\ frames[p] # <<>>
    /\ frames' = [frames EXCEPT ![p] = Tail(@)]
    /\ UNCHANGED <<pending, session, sequence, enqueued, net, messages, retained_bytes, next_expiry, delivered>>

\* A new process binds the endpoint: its session is a fresh random number.
bind(p) ==
    /\ session[p] < MaxRestarts
    /\ session' = [session EXCEPT ![p] = @ + 1]
    /\ sequence' = [sequence EXCEPT ![p] = 0]
    /\ pending' = [pending EXCEPT ![p] = <<>>]
    /\ frames' = [frames EXCEPT ![p] = <<>>]
    /\ UNCHANGED <<enqueued, net, messages, retained_bytes, next_expiry, delivered>>
-----------------------------------------------------------------------------
\* A map with another entry, which replaces that of its key.
Insert(map, key, entry) ==
    [k \in DOMAIN map \cup {key} |-> IF k = key THEN entry ELSE map[k]]

\* The buffers of the assemblies, place by place: an assembly has one for all its
\* fragments from the start.
Places(assemblies) == UNION {{k} \X (1 .. assemblies[k].total) : k \in DOMAIN assemblies}

BytesOf(assemblies) == Cardinality(Places(assemblies))

EarliestExpiry(assemblies) ==
    IF DOMAIN assemblies = {} THEN NoDeadline
    ELSE Min({assemblies[k].expires : k \in DOMAIN assemblies})

\* Mutant: what is due now is retained.
Expired_keep_due ==
    IF next_expiry # 0
    THEN [messages |-> messages, retained |-> retained_bytes, next |-> next_expiry]
    ELSE LET live == Restrict(messages, {k \in DOMAIN messages : messages[k].expires >= 0})
             gone == Restrict(messages, DOMAIN messages \ DOMAIN live)
         IN  [messages |-> live,
              retained |-> retained_bytes - BytesOf(gone),
              next |-> EarliestExpiry(live)]

\* What the expire of every receive and timer leaves.
Expired ==
    IF next_expiry # 0
    THEN [messages |-> messages, retained |-> retained_bytes, next |-> next_expiry]
    ELSE LET live == Restrict(messages, {k \in DOMAIN messages : messages[k].expires > 0})
             gone == Restrict(messages, DOMAIN messages \ DOMAIN live)
         IN  [messages |-> live,
              retained |-> retained_bytes - BytesOf(gone),
              next |-> EarliestExpiry(live)]

expire ==
    /\ next_expiry = 0
    /\ messages' = Expired.messages
    /\ retained_bytes' = Expired.retained
    /\ next_expiry' = Expired.next
    /\ UNCHANGED <<sender_vars, net, delivered>>

receive_plain(f) ==
    /\ f.total = 1
    /\ messages' = Expired.messages
    /\ retained_bytes' = Expired.retained
    /\ next_expiry' = Expired.next
    /\ delivered' = delivered \cup {[peer |-> f.peer, bytes |-> <<f.part>>]}
    /\ UNCHANGED <<sender_vars, net>>

\* No room for one more assembly, all in all or for this peer.
Full(s, f) ==
    \/ Cardinality(DOMAIN s.messages) >= MaxReassemblies
    \/ s.retained + f.total > MaxReassemblyBytes
    \/ Cardinality({k \in DOMAIN s.messages : k[1] = f.peer}) >= MaxPeerReassemblies

NewAssembly(f) == [total |-> f.total, bytes |-> <<>>, expires |-> ReassemblyTimeout]

\* Mutant: the deadline of the newest assembly becomes the next one.
Opened_latest_expiry(s, f) ==
    [messages |-> Insert(s.messages, <<f.peer, f.id>>, NewAssembly(f)),
     retained |-> s.retained + f.total,
     next |-> ReassemblyTimeout]

\* The receiver with a new assembly for the fragment's message.
Opened(s, f) ==
    [messages |-> Insert(s.messages, <<f.peer, f.id>>, NewAssembly(f)),
     retained |-> s.retained + f.total,
     next |-> IF s.next = NoDeadline THEN ReassemblyTimeout ELSE Min({s.next, ReassemblyTimeout})]

\* The fragment is copied to its place; the last one completes the message, which
\* leaves the table.  next_expiry stays, and may be earlier than every deadline.
Put(s, f) ==
    LET key == <<f.peer, f.id>>
        bytes == Insert(s.messages[key].bytes, f.index, f.part)
        complete == DOMAIN bytes = 1 .. f.total
    IN  /\ messages' = IF complete THEN Restrict(s.messages, DOMAIN s.messages \ {key})
                       ELSE [s.messages EXCEPT ![key].bytes = bytes]
        /\ retained_bytes' = IF complete THEN s.retained - f.total ELSE s.retained
        /\ next_expiry' = s.next
        /\ delivered' = IF complete THEN delivered \cup {[peer |-> f.peer, bytes |-> bytes]} ELSE delivered

\* A rejected fragment leaves only what expire has done.
Rejected(s) ==
    /\ messages' = s.messages
    /\ retained_bytes' = s.retained
    /\ next_expiry' = s.next
    /\ UNCHANGED delivered

receive_fragment(f) ==
    LET key == <<f.peer, f.id>>
        s == Expired
    IN  /\ f.total > 1
        /\ \/ key \notin DOMAIN s.messages /\ ~Full(s, f) /\ Put(Opened(s, f), f)
           \/ key \notin DOMAIN s.messages /\ Full(s, f) /\ Rejected(s)
           \/ /\ key \in DOMAIN s.messages
              /\ IF s.messages[key].total # f.total \/ f.index \in DOMAIN s.messages[key].bytes
                 THEN Rejected(s)
                 ELSE Put(s, f)
        /\ UNCHANGED <<sender_vars, net>>

\* Time passes, whether or not a deadline is due.
Tick ==
    /\ next_expiry > 0 \/ \E k \in DOMAIN messages : messages[k].expires > 0
    /\ messages' = [k \in DOMAIN messages |->
                       [messages[k] EXCEPT !.expires = IF @ = 0 THEN 0 ELSE @ - 1]]
    /\ next_expiry' = IF next_expiry > 0 THEN next_expiry - 1 ELSE next_expiry
    /\ UNCHANGED <<sender_vars, net, retained_bytes, delivered>>

Next ==
    \/ \E p \in Peers :
          \/ \E total \in Sizes : enqueue(p, total)
          \/ fill_batch(p)
          \/ \E count \in 1 .. Len(frames[p]) : poll_send(p, count)
          \/ drop_first(p)
          \/ bind(p)
    \/ \E f \in net : receive_plain(f) \/ receive_fragment(f)
    \/ expire
    \/ Tick

Spec == Init /\ [][Next]_vars
-----------------------------------------------------------------------------
\* What the replica is given is one message of the peer it is said to be from,
\* whole: no parts of two messages, of two sessions or of two peers are joined.
DeliveredWhole ==
    \A d \in delivered : \E n \in DOMAIN enqueued[d.peer] :
        d.bytes = [i \in 1 .. enqueued[d.peer][n] |-> <<n, i>>]

\* The receiver's account of retained bytes is that of its assemblies, the budget
\* and each peer's share of the table are kept, and no deadline lies before the
\* one that expire waits for: an incomplete message is not kept past its time.
AccountsKept ==
    /\ retained_bytes = BytesOf(messages)
    /\ retained_bytes <= MaxReassemblyBytes
    /\ \A p \in Peers : Cardinality({k \in DOMAIN messages : k[1] = p}) <= MaxPeerReassemblies
    /\ DOMAIN messages # {} => next_expiry # NoDeadline
    /\ \A k \in DOMAIN messages : next_expiry <= messages[k].expires

\* An assembly does not hold its place in the table for ever: it becomes complete
\* or it expires (and a late fragment may then have opened a new one).
Keys == Peers \X ((0 .. MaxRestarts) \X (1 .. MaxMessages))

AssembliesEnd ==
    \A k \in Keys : []<>(k \notin DOMAIN messages \/ messages[k].expires = ReassemblyTimeout)
-----------------------------------------------------------------------------
(***************************************************************************)
(* The inductive invariant.                                                *)
(***************************************************************************)
Datagram ==
    [peer : Peers, id : Nat \X Nat, total : Nat, index : Nat, part : Nat \X Nat]

TypeOK ==
    /\ pending \in [Peers -> Seq(Datagram)]
    /\ frames \in [Peers -> Seq(Datagram)]
    /\ session \in [Peers -> Nat]
    /\ sequence \in [Peers -> Nat]
    /\ enqueued \in [Peers -> Seq(Nat)]
    /\ net \subseteq Datagram
    /\ next_expiry \in Nat \cup {NoDeadline}
    /\ IsFiniteSet(Places(messages))
    /\ \A p \in Peers : IsFiniteSet({k \in DOMAIN messages : k[1] = p})
    /\ messages = [k \in DOMAIN messages |->
                      [total |-> messages[k].total, bytes |-> messages[k].bytes,
                       expires |-> messages[k].expires]]
    /\ \A k \in DOMAIN messages : messages[k].expires \in Nat
    /\ \A d \in delivered : d.peer \in Peers

\* What peer p has not sent yet, and what it has.
Traffic(p) ==
    {pending[p][i] : i \in DOMAIN pending[p]} \cup {frames[p][i] : i \in DOMAIN frames[p]}
        \cup {f \in net : f.peer = p}

\* A datagram is a part of a message of its sender, and a fragment's identity was
\* given in this session or in an earlier one.
Genuine(f, p) ==
    /\ f.peer = p
    /\ f.part[1] \in DOMAIN enqueued[p] /\ f.total = enqueued[p][f.part[1]]
    /\ f.part = <<f.part[1], f.index>> /\ f.index \in 1 .. f.total
    /\ f.total > 1 =>
          \/ f.id[1] < session[p]
          \/ f.id[1] = session[p] /\ f.id[2] <= sequence[p]

\* The identity tells of which message a fragment is.
Identified ==
    \A p \in Peers : \A f, g \in Traffic(p) :
        f.total > 1 /\ g.total > 1 /\ f.id = g.id => f.part[1] = g.part[1]

\* What has arrived of a message was sent under its identity.
Arrived(k, i, part, total) ==
    \E f \in net : /\ f.peer = k[1] /\ f.id = k[2]
                   /\ f.total = total /\ total > 1 /\ f.index = i /\ f.part = part

IInv ==
    /\ TypeOK
    /\ \A p \in Peers : \A f \in Traffic(p) : Genuine(f, p)
    /\ Identified
    /\ \A k \in DOMAIN messages : \A i \in DOMAIN messages[k].bytes :
          Arrived(k, i, messages[k].bytes[i], messages[k].total)
    /\ DeliveredWhole
    /\ AccountsKept
=============================================================================
