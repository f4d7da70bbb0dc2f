# TLA+ verification of tla-rs

Specifications, model-checking runs and machine-checked proofs for the
executable protocols of this repository, kept beside the code they model. The
code is under `src/` (the Rust crate is `src/src/`, the runtime
`src/runtime/`); all paths below start there.

The repository writes distributed protocols as TLA+-style specifications in
Verus, derives executable Rust from them, and runs the result as servers. The
largest of them is **RSL**, a Multi-Paxos replicated state machine library with
view changes, log truncation, state transfer and a reply cache. Beside it a server
runs Raft, PBFT, EPaxos, Paxos, Vertical Paxos, two-phase commit, primary backup,
chain replication or leader election, over UDP or TCP (the Lion runtime); a
distributed lock has a host loop of its own. Verus proves that each RSL handler
*refines its own ghost specification*; what the handlers achieve together, over an
unreliable network, is what is modelled, checked and proved here. The repository also has
a compiler from TLA+ to Verus with a model checker of its own, whose parallel search is
modelled too.

## 1. Inventory

### RSL

| part | state | operations | code |
|---|---|---|---|
| acceptor | promised ballot `max_bal`, votes in a window that starts at `log_truncation_point`, checkpoints of the others | 1a, 2a, heartbeat, truncate | `src/generated/RSL/acceptor_gen.rs`, `implementation/RSL/acceptor_helpers.rs` |
| proposer | phase, ballot, 1b packets, next operation number, request queue, highest sequence number per client | request, enter view, 1b, enter phase 2, nominate old or new value | `proposer_gen.rs`, `ProposerImpl.rs` |
| election state | view, suspectors, requests of this and of earlier epochs, their header sets | heartbeat, epoch timeout, quorum of suspicions, request received, batch executed | `election_gen.rs` |
| learner | highest ballot seen, voters and candidate per unexecuted operation | 2b, forget | `learner_gen.rs` |
| executor | application, operations executed, decided operation, reply cache | decide, execute, supply and install a state, answer from the cache | `executor_gen.rs`, `gen_helpers.rs`, `CStateMachine.rs` |
| replica | the five above, and the round robin over its periodic actions | one handler per turn of the loop | `replica_gen.rs`, `ReplicaImpl.rs`, `replicaimpl_*.rs` |
| network | UDP: packets may be lost, repeated, reordered | send to one, broadcast | `netrsl_i.rs`, `cbroadcast.rs` |
| client | sequence number, repeats until answered | ask, repeat | `runtime/lion-server/src/bin/client.rs` |

A replica is one thread: it takes a packet and runs that packet's handler, or
runs the next periodic action. Concurrency is between replicas, through packets
only. Nothing is persisted, so a replica that crashes never returns as itself:
crashes are crash-stops, which in the model are replicas that take no more steps
(safety) or whose packets are all lost (liveness).

What is hard: leaders of different views that propose at the same time; promises,
votes and states that arrive late or twice; a window of the log that moves while a
view changes; a truncated log that only a state transfer can replace; suspicions
spread by heartbeats between epochs that end at different times; client
repetitions across view changes. What makes RSL correct: one batch per operation
number whatever the leaders do (`Agreement`); every application a prefix of one
log (`ImplementsReplicatedLog`); truncated operations recoverable
(`TruncationCovered`, `CatchesUp`); progress with a quorum (`Failover`); no request
lost by a view change (`OutstandingUntilExecuted`, `StuckViewIsLeft`); replies that
are true (`RepliesAreTrue`) and requests executed once (`NoReexecution`, which fails).

### The other protocols

Each has generated handlers (`src/src/generated/<P>/`) and a host
(`src/src/implementation/<P>/host.rs`) that reads packets, takes timer turns and calls
them. Like RSL they persist nothing; a node is one thread.

| part | state | operations | what makes it correct |
|---|---|---|---|
| Raft | term, vote, log, commit index, what the leader believes of each follower | election timeout, vote, heartbeat with an entry, answer, client request | one leader per term (`ElectionSafety`), equal logs up to an equal entry and beliefs that are true (`RaftLogsMatch`), one committed log (`ImplementOneLog`) |
| PBFT | round, phase, votes of the round, watermarks; the primary's queue and cache of completed requests | request, PrePrepare, Prepare, Commit, repetition of all of them | executed with a quorum (`ExecutedByQuorum`), by all in one sequence (`ImplementOneLog`), once per request, and answered with a node down unless a node stays a round behind (`PbftRequestsAnswered`) |
| chain replication | history and unacknowledged values of each node | write, forward, commit at the tail, acknowledge | what a node no longer waits for is committed and downstream (`AckedDownstream`) |
| primary backup | role, log, the pending write and its client | write, replicate, acknowledge, promote | replies in order, to those who asked (`AnsweredInOrder`) |
| two-phase commit | manager's decision and votes, each resource manager's state | prepare, vote, commit | no commit before all have prepared (`CommittedAfterAllPrepared`) |
| Paxos | one ballot per proposer, promises, votes | 1a to 2b, learn | a later proposer knows of a chosen ballot (`LaterProposersKnow`) |
| Vertical Paxos | configuration, ballot, votes; a timer of four turns | prepare, accept, commit, reconfigure | who commits was voted for (`CommittedByVoters`) |
| EPaxos | one instance per node, its acknowledgments, the client that waits | propose, fast commit, execute, next instance, recover | each client answered, for its own command (`EPaxosClientsAnswered`) |
| leader election | electing, waiting, leader | election, answer, coordinator | one claim per node, leaders have claimed (`LeadersClaimed`) |
| lock | holder's epoch | grant, accept | one holder (`MutualExclusion`), an agreed history (`ImplementsLockService`) |

### The Lion runtime

| part | state | operations | what makes it correct |
|---|---|---|---|
| `native_runtime.rs` | the one protocol that runs | choose by name, step | turns of one protocol only |
| `udp.rs` | outbound queue and batch, session, assemblies with a byte account and a cached deadline | enqueue, send a batch, receive a fragment, expire | no message from parts of two; account and deadline true; no assembly stays |
| `stream.rs` | routes per peer, one task per connection with a queue and a permit, one inbox | send, enqueue, receive, accept, connect, read, write, fail, shut down | routes are open connections; success means written; nobody waits for ever; permits come back |
| `bin/client.rs` | checkpoint file, lock file, range in use | reserve (lock, read, write, sync, rename, sync), number a request | no number used twice, whatever is killed |

What is hard here: packets and answers that do not say what they answer (an `Ack`, an
`AcceptOk`, a `PreAcceptOk`, a `Promise`'s ballot that is not read), so a late one may
be taken for another; retransmission by timers that race with the answers; tasks that
end while others wait on their queues; a process killed between two file-system
calls.

### The model checker

| part | state | operations | what makes it correct |
|---|---|---|---|
| `transpiler/src/modelcheck/dpor/explore.rs` | shared store of fingerprints, frontier queue, pool of stealable transitions and count of idle workers, stop flag; per worker a stack of frames with done and sleep sets | expand a level, take a frontier state, steal, choose and donate, fire, pop, give up, leave, merge the results | everything reachable is found (`SearchClosed`; `AllStatesFound` and `SleepSetsLoseNothing`, which fail), a search that stores a violation returns one with a path (`ViolationsReported`), the search ends (`SearchEnds`) |

It is the one part of the repository with threads that share memory. What is hard: who
stores a state must also search it; work is donated to a worker that is about to leave;
a violation or a limit stops workers in the middle of theirs; sleep sets prune by keys
that several transitions share, in a search that does not come back to a stored state.

The remaining parts (the compiler itself, Verus specifications and proofs,
specification-only studies, configuration tools, C# runtime) are in section 8. `PROJECT.json` lists every part with its status, and under `hazards` the
places where each can go wrong in ways a test hardly reaches, with the properties that
would tell.

## 2. Plan

1. **RSL consensus** (done): one module per part, `RslReplica` composing them,
   `ReplicatedLog` as the abstract specification.
2. **RSL agreement proof** (done): `RslInvariant`, `RslAgreementProofs`.
3. **RSL requests** (done): `RslElection`, `RslRequests`, with consensus abstract.
4. **Raft, PBFT** (done), both against the abstract `CommittedLog`, in `LogHosts`.
5. **The smaller protocols** (done): a module each, composed as the choices of one
   server in `HostsSafety` and `HostsProgress`; `LockService` as the lock's abstract
   specification.
6. **Lion** (done): UDP, TCP and the client's numbers, composed in `LionRuntime`.
7. **The model checker's search** (done): `DporExplorer`, with a proof of `SearchClosed`.
8. **Safety proofs for all of it** (done): every invariant, every action property and every
   refinement that a passing run checks is a theorem (section 6).
9. **Composition** (open): `RslReplica` with `RslRequests` in one state, so that the
   sequence `chosen` of the one is the log of the other.

## 3. Modules

```
RslConfig ── RslTypes ─┬─ RslAcceptor ─┐
    │                  ├─ RslProposer ─┤
    │                  ├─ RslLearner  ─┼─ RslReplica ── RslInvariant ─┬─ MCRslReplica
    │                  └─ RslExecutor ─┘      │ INSTANCE              └─ RslAgreementProofs
    │                                     ReplicatedLog                      └─ RslLogProofs
    └─┬─ RslElection ── RslRequests ─┬─ MCRslRequests ── HostsProgress ── INSTANCE EPaxos, Pbft
Lists ┘                              └─ RslRequestsProofs (and ListProofs)

Raft ── MCRaft ── LogHosts ── INSTANCE Pbft       (Raft and Pbft INSTANCE CommittedLog)
                     └─ LogHostsProofs

Lock (INSTANCE LockService) ─┬─ HostsSafety ── INSTANCE RslRequests, Paxos, VerticalPaxos,
TwoPhase ────────────────────┘       │            LeaderElection, ChainReplication, PrimaryBackup
                                     └─ HostsProofs ── INSTANCE RslRequestsProofs

ClientSequence ── LionRuntime ── INSTANCE UdpTransport, StreamTransport (which uses Lists)
                     └─ LionProofs (and ListProofs)

Lists ── ListProofs

DporExplorer ─┬─ MCDpor
              └─ DporProofs
```

**RslReplica.** Each part of a replica is a variable, a function from replicas to
the record of the Rust struct: `acceptor`, `proposer`, `learner`, `executor`; of the
election state only `current_view` is kept. A map of the code (votes, learner
state) is a function on operation numbers with `None` for an absent key. Each handler of
`replica_gen.rs` is one action with the name of the handler, and includes everything
the handler calls: `CReplicaNextProcess1b` also truncates the log,
`CReplicaNextSpontaneousMaybeExecute` also forgets the learner's decision. Handlers
that change nothing (a guard that fails) are stuttering steps and are left out.
`CReplicaNextReadClockMaybeNominateValueAndSend2a` is the choice between the
highest-numbered old value and, where no acceptor of the quorum has a vote, a new
one. `net` is the set of packets ever sent; receiving does not remove, so a packet
can arrive late, repeatedly or not at all. A broadcast is one record each replica
may receive.

Abstractions: a batch is a value; the application is the sequence of the batches it
has executed, which determines the state of every deterministic application; timers
are nondeterministic choices; the `src in config` checks are dropped because only
replicas put packets into `net`; `max_opn_with_proposal` and
`max_log_truncation_point`, fields the code only ever sets to 0, are left out, and so
is marshalling. The request queue is abstract here: any batch may be waiting.

**RslRequests** follows a request from the client to the reply. Its election and
proposer state are those of the code, with queues and header sets; consensus, which
`RslReplica` models, is the sequence `chosen` plus the bag `inflight` of batches that
were nominated and may be chosen later, in another order, or never. The application is
the counter service the repository ships (`appinterface.rs`), so a reply tells which
execution it belongs to. `CClientsInReplies` keeps the first of several replies of
one batch to a client and `CUpdateNewCache` keeps the old entry of a client that has
one, as the code does.

**Lists** is removal from a list in place: the requests that an execution has satisfied,
the routes that are closed.

**ReplicatedLog** is what users of the library rely on: one log; each application a
prefix of it that only grows, by executing the next batch or installing a longer
prefix.

**Raft** keeps the struct of `raft_gen.rs` as functions on servers. The leader's
heartbeat is `leader_heartbeat` of the host: it sends the one entry after `next_index`,
whatever its term, and the follower stamps it with the packet's term, as the code does.
No executable step appends a Configuration entry, so membership is fixed. A
packet stays in `net` after it was handled and may be handled again, until newer ones
take its place: `MaxInFlight` bounds the packets of elections, and those of replication,
that are in `net` at a time, and which of them are kept is open.

**Pbft** keeps one view, since nothing calls `try_view_change`, and trusts its
peers, as the code does. Execution, checkpoint and new round are one step, as in
`handle_commit`. A node's `broadcast_commit_votes` and the primary's
`try_pre_prepare_and_new_round` are the repetitions. A node that has finished a round
answers a Prepare or Commit of that round with its own (`catch_up`), at most one in a
millisecond, the two kinds and all senders together (`last_catchup_time`). There is no
clock in the model: whether an answer is due is left open, so it contains every outcome of
the limit, and no fairness is asked of these answers.

**CommittedLog** is what Raft and PBFT promise: one sequence that only grows, of which
every node knows a prefix that only grows.

**ChainReplication, PrimaryBackup, TwoPhase, Paxos, VerticalPaxos, LeaderElection,
EPaxos**: one action per host function, named after it; packets stay in `net`. Code
that no host calls is left out, and each module's head says which. Values that are
always 0 in the executable host (Paxos, Vertical Paxos) are left out: the properties
are about ballots and voters.

**Lock** has the host's two operations. A host that holds the lock sends it on at its
next step; one that does not reads a packet, which may be an old Transfer or an
outsider's. **LockService** is `services/lock/abstractservice_s.rs`: a growing history
of holders.

**HostsSafety, HostsProgress, LogHosts** are the server process: `protocol` is chosen
once (`NativeReplica::new`) and its turns are taken from then on (`step`); what does not
run stays as it is. The protocols share a module because they share this choice, and
each behaviour is of one of them.

**ClientSequence** has one action per file-system call of `reserve_sequence_range`. The
file system is two checkpoints, the one processes see and the one that survives a power
failure, and a temporary file that is synced or not.

**UdpTransport** counts lengths in fragments; a message's content is the list of
its parts, so joining parts of two messages is visible. Deadlines are kept as the time
left. **StreamTransport** takes what a task does between two awaits as one step, since
the executor has one thread; a task is known by its permit.
**LionRuntime** is the process that runs one of the two or is a client.

**DporExplorer** is the search of the repository's model checker. The specification
under check is a graph, a constant: states, and of each state its enabled transitions in
the order of their `ordering_key`, with process, branch, footprint and successor.
`Spec` starts with any of `Calls`: initial states, workers and configuration. With one
worker the search is `explore_dpor`, with more `explore_dpor_parallel`: `bfs_level`
expands levels until the frontier is large enough, then every worker goes through
`explore_dpor_from_state` and the loop around it. A step is what lies between two accesses
to what is shared: the store, the frontier, the pool, the idle count, the stop flag. `reports`
are the violations in the workers' own results; when all have left, `merge` makes one result
of them, whose `violation` is that of the first worker that has one (nothing tells workers
apart, so it may be any of the reports). The sequential search merges the results of its
initial states the same way; the first phase of the parallel one returns its violation
directly. Because a step is no larger, between `nothing_left` and `leave` a worker counts as idle although it may take no more
work, and between `choose` and `fire` others may store the same successor. `stolen` and
`cut` are history: the states stored on behalf of a thief and at `max_depth`, which the
code does not expand. Left out: fingerprint collisions, symmetry reduction, errors of the
successor solver, `runtime_overrides`, `use_independence = false` (the command line sets it
with the sleep sets) and statistics.

Operators marked `Mutant:` are plausible mistakes in the operator that
follows them. They are used by nothing; `PROJECT.json` pairs each with the property
that detects it when it takes the operator's place.

## 4. Runs

| run | checks | shows |
|---|---|---|
| `state_transfer` | `Agreement`, `ExecutedWasChosen`, `TruncationCovered`, `VotesInWindow`, `LeaderNotBehindPromises`, `ImplementsReplicatedLog` | RSL, three replicas: a second leader takes over while the first still proposes, the window moves, checkpoints truncate, a replica that missed all of it installs the state |
| `catch_up` | `RslInv`, `CatchesUp` | a replica that learns that it is behind a new leader gets up to it; the inductive invariant of the RSL proofs, `TypeOK` and `OneProposalPerBallot` among its parts, holds |
| `failover` | `Failover` | with the first leader cut off, the rest elects the next and executes all |
| `requests_repeat` | `NoReexecution` (violated) | section 7 |
| `log_hosts` | `ElectionSafety`, `RaftLogsMatch`; `ExecutedByQuorum`, `PbftRepliesAreTrue`; `ImplementOneLog` | Raft: a split vote and a later leader that lead, replicate and commit, with late and repeated packets. PBFT: four nodes, overlapping rounds, a cache with room for one client |
| `raft_leader_completeness` | `LeaderCompleteness` (violated) | section 7 |
| `hosts_safety` | `SetsMirrorLists`, `RepliesAreTrue`; `MutualExclusion`, `ImplementsLockService`; `CommittedAfterAllPrepared`; `LaterProposersKnow`; `CommittedByVoters`; `LeadersClaimed`; `AckedDownstream`; `AnsweredInOrder` | RSL (two clients in shared batches, two replicas that install each other's states), the lock (five hosts), two-phase commit (five resource managers), Paxos, Vertical Paxos (two proposers), leader election (three nodes each), a chain of four, primary backup (three nodes, two clients): no late or repeated packet is taken for another |
| `hosts_progress` | `OutstandingUntilExecuted`, `StuckViewIsLeft`; `EPaxosClientsAnswered`; `PbftRequestsAnswered` | RSL: epochs, suspicions and view changes lose no request, and a view that executes nothing is left. EPaxos and PBFT, each with a node down, answer every client; EPaxos answers nobody for another's command, PBFT runs one round per request. PBFT has one exception, a node that the limit on catch-up leaves behind for ever (section 7) |
| `lion_runtime` | `NumbersUsedOnce`, `RangesIncrease`; `DeliveredWhole`, `AccountsKept`, `AssembliesEnd`; `RoutesOpen`, `SuccessMeansWritten`, `SendsAnswered`, `PermitsReturned` | kills and power failures while numbers are reserved; restarts of UDP senders; TCP connections that break with frames queued and the inbox full |
| `dpor_search` | `SearchClosed`, `ViolationsReported`, `SearchEnds` | the model checker on three small graphs, one to three workers, with and without sleep sets, deadlock checks and limits that are reached; two violating states that different workers find at once, of which the result keeps one |
| `dpor_workers` | `AllStatesFound` (violated) | section 7 |
| `dpor_sleep_sets` | `SleepSetsLoseNothing` (violated) | section 7 |

Deadlock is not checked: with bounded views, rounds, epochs and messages each instance
ends when nothing is left to do.

## 5. Bounds and fairness

RSL:

- `MaxIntegerVal` is the code's `params.max_integer_val`, `MaxLogLength` its
  `max_log_length`. With 2 and 1 the window moves twice, truncation happens between
  two operations, and the bound itself is reached, which the real parameters never do.
- `MaxView` stops views above it from starting. Two views are the least in which
  leaders compete. That a third leader takes the higher of two votes is covered by
  the proof of `Agreement`, which has no such bound.
- `Cut` names the packets (type, sender, receiver) the network loses for good. Each
  `Cut*` in `MCRslReplica` keeps the packets one interaction needs and loses the
  rest, so that the run is exhaustive on it; what is not cut can still be lost, late
  or repeated. No single run has all packets; the proofs, which leave `Cut`
  unconstrained (and so include `{}`), do.
- `HasNews` leaves out heartbeats that would change no replica now or, views and
  checkpoints being monotonic, ever.
- `MaxSeqno`, `MaxOps`, `MaxBatchSize`, `Clients` in RslRequests: two clients and
  batches of two make several clients meet in a batch; two replicas install each
  other's states; sequence numbers 0 and 1 (`requests_repeat`) make a cached reply old;
  three operations allow a request to be executed again after another. A lone replica
  (`requests_repeat`) still changes views: it suspects its own and leads the next.
- RSL cuts its lists of requests at `max_integer_val`. The runs do not get there, and the
  proofs assume it (`RequestsAssumption`): the requests that clients can make, which the
  bound `MaxSeqno` makes finitely many, are no more than that. Of the code it says that a
  list does not get to 2^63 entries.
- The two batches of RslReplica are symmetric (nothing compares them), replicas are
  not (ballots order them). The liveness runs use no symmetry.
- Fairness. `RslReplica!FairSpec` is weak fairness of `Next` alone: the hosts do not
  all stop while some enabled handler would change something. Every action
  moves a bounded counter or set up, so this suffices for all that is deliverable to be
  delivered; a run's `Cut` says what is not. Since any batch may be waiting, the
  liveness runs of RslReplica are about clients that keep asking. The code justifies
  it: each host's loop polls its socket and goes round its periodic actions without end, and lost
  packets other than the cut ones are re-sent (heartbeats) or belong to a view that
  timers replace. `RslFairness` of `HostsProgress` asks for weak fairness of each
  replica's epoch timer, suspicion check, heartbeat and receipt of heartbeats, and of
  nothing else: requests, nominations and decisions may stop for ever.

The others:

- Raft: `Elections` names the timeouts that happen, two in term 1 and one in term 2: a
  split vote, a leader, its successor. `Cut` takes away only requests for votes between
  the two rivals. Two log entries and a `MaxInFlight` of 1 let an old answer of a
  follower wait in the network while its leader is elected again, and an entry of an old
  term be sent again.
- PBFT: two rounds (three for progress) on four nodes, so that a node may be a round behind; one
  cached client, so that the cache forgets.
- The chain of four has an acknowledgement pass two middle nodes, and five writes of
  three values write a value again while its first acknowledgement is on its way.
- Vertical Paxos has node 0 propose twice and node 1 once, so that answers to a first ballot
  meet a second.
- The lock has five hosts and 64 epochs, the last one included, where the code stops granting.
- Lion: a range of two numbers and a largest number of 7 let workers exhaust ranges and
  the numbers; clock readings 0 and 4 set the clock back. UDP: three messages of up to two
  fragments, a table for four fragments and two assemblies of a peer, one restart.
  TCP: two permits, queues and inbox of one, two frames: a task waits on the inbox, a
  sender on a queue and a connection on a permit at once.
- The model checker: graphs of 8 to 10 states, one with a wide level, a state reached on
  three ways, cycles and two violating states on different branches, one with two independent processes, one with two processes that
  race beside one that does not; a frontier of one state per worker and two levels, so that
  both ways out of the first phase are taken; limits of 5 states and depth 2 that are
  reached, and of 20 that are not. Three workers are the least of which one donates while
  another leaves and a third steals; the proofs have no bound.
- Symmetric sets are those whose members nothing compares; runs with liveness use none.
- Fairness of `DporExplorer`: the main thread and every worker run as long as they can;
  threads wait for nobody but in `std::thread::scope`, at the end, where the main thread
  joins the workers and then merges.
- Fairness of `HostsProgress`. EPaxos and PBFT repeat their packets at every turn of a
  timer, so fairness is asked of the receipt of what is repeated, of the timer turns (the
  loop of `NativeReplica::step` takes all of them at each call) and of clients that ask
  until they are answered. Of PBFT's answers to a node that is behind nothing is assumed: they
  are not repeated on a timer, and the limit may refuse the same one each time. With
  a node down every running node's vote is needed, so nobody gets ahead of a node in Prepare;
  a node in Commit may be left behind and depend on an answer, and `PbftRequestsAnswered` names that case (`Behind`) as the
  only one in which a request may wait for ever. The strong fairness in `EPaxosFairness` is for a `PreAcceptOk`
  and a request that are ignored while the instance is busy and sent again. The lock,
  two-phase commit and Paxos send what matters once; if it is lost they stop, so nothing
  is claimed of their progress, nor of the other hosts in `HostsSafety`.
- Fairness of `LionRuntime`. `run_udp` sleeps at most until the next deadline.
  For TCP: a handshake ends by `HANDSHAKE_TIMEOUT` and a write by `WRITE_TIMEOUT`, one
  way or the other; the loop of `run_stream` receives; places in the inbox are given
  first come, first served (a tokio channel), which is the strong fairness of `report`.
  Nothing is assumed of peers.

## 6. Proofs

All theorems are checked by TLAPS for every value of the constants that the named
assumptions allow; the bounds of section 5 are among these constants. Each invariant below
is inductive: it holds initially, every action preserves it, and the property follows.
Invariants that TLC can evaluate are stated in the modules they are about, `RslInv` is also
checked by a run.

A composed process (`HostsSafety`, `LogHosts`, `LionRuntime`) runs one component and leaves
the variables of the others alone. So each component's invariant is proved from that
component's own steps, and lemmas such as `OneHostRuns` say that a step of the process is a
step, or a stutter, of each component.

| module | theorems | assumptions |
|---|---|---|
| `RslAgreementProofs` | `TypeCorrect`, `PaxosInvariant`, `AgreementHolds`, `OneProposalPerBallotHolds`, `ExecutedWasChosenHolds`, `PromiseKeptHolds` | `ConfigAssumption`, `LogAssumption`, `NoneAssumption`: positive parameters, `None` is no vote |
| `RslLogProofs` | `RslInvariantHolds`, `TruncationCoveredHolds`, `VotesInWindowHolds`, `LeaderNotBehindPromisesHolds`, `RslImplementsReplicatedLog` | the same |
| `RslRequestsProofs` | `RequestsInvariant`, `RepliesAreTrueHolds`, `SetsMirrorListsHolds`, `OutstandingUntilExecutedHolds` | `ConfigAssumption`, `RequestsAssumption`: finitely many clients, lists with room (section 5) |
| `LogHostsProofs` | `ElectionSafetyHolds`, `RaftLogsMatchHolds`, `ExecutedByQuorumHolds`, `PbftRepliesAreTrueHolds`, `LogHostsImplementOneLog` | `RaftAssumption`: finitely many servers, at least one; `LogHostsAssumption`: at least 3F+1 nodes, the primary among them, and room for a client in the cache |
| `HostsProofs` | `LockMutualExclusion`, `LockImplementsService`, `TwoPhaseCommit`, `LaterProposersKnowHolds`, `CommittedByVotersHolds`, `LeadersClaimedHolds`, `AckedDownstreamHolds`, `AnsweredInOrderHolds`, `RslRepliesAreTrue`, `RslSetsMirrorLists` | `LockAssumption`, `TwoPhaseAssumption`, `HostsAssumption`: there are nodes, "no leader" is not one of them, a chain has at least two, and RSL's assumptions |
| `LionProofs` | `RequestNumbersUsedOnce`, `HandedOutRangesIncrease`, `CheckpointStaysReadable`, `MessagesDeliveredWhole`, `ReassemblyAccountsKept`, `RoutesStayOpen`, `SuccessIsWritten` | `ClientSequenceAssumption`, `LionAssumption`: messages are not empty, limits are numbers, no frame is `None` |
| `DporProofs` | `SearchClosedHolds`, `ViolationsReportedHolds` | `DporAssumption`: the graph is finite and closed, calls name its states and some workers |
| `ListProofs` | lemmas only | |

### RSL: agreement

`Agreement` is not inductive: nothing in it says why a *new* proposal is harmless.
`PaxosInv` adds that. The argument: a proposal is safe (`ProposalsSafe`) if for every
lower ballot a quorum has voted for the same batch or neither has voted there nor ever
will (`WontVote`). A nomination is safe because its promises, one per acceptor
of a quorum (`PromisesHeld`), report the acceptors' votes in lower ballots
(`PromisesReportVotes`), which they do for operations at or above the acceptor's truncation
point, because acceptors remember those (`VotesRemembered`). This is where truncation
enters: `CProposerCanNominateUsingOperationNumber` refuses operations below the
truncation point of any promise, and the proof rests on that guard. A leader cannot
propose twice at one number (`OneProposalPerBallot`), since what it proposed lies
below what it proposes next (`ProposalsBelowNext`), and it enters phase 2
once per ballot. Votes are for proposals (`VotesAreForProposals`), so two chosen batches
of different ballots contradict the safety of the higher one by the
intersection of quorums. What learners count are votes of one ballot
(`LearnedVotesWereCast`), so what is executed or supplied was chosen
(`ExecutedArePrefixes`).

`TypeOK`, a part of `PaxosInv`, is not only bookkeeping: operation numbers stay within
`max_integer_val` because nomination stops below it, the truncation point of a 2a does not
pass its operation number, and views are started only below the bound.

Each `Who...` lemma says which handlers touch a part of the state; the `...Step` lemmas,
one per conjunct of `PaxosInv`, use them and look only at those handlers.

### RSL: the log

`RslInv` is `PaxosInv` and `LogInv`. A truncation point is justified when a quorum has
executed what lies below it (`Covered`), which stays true because executors only go
forward. It comes to an acceptor from the checkpoints that heartbeats report, which their
senders had executed (`CheckpointsWereExecuted`), or with a promise or a 2a, which carry or
imply one (`PacketsTruncateCovered`: an operation is proposed no more than a window above
what is covered). A proposer's own log is cut at every promise it accepts, so no
promise it holds is above it (`PromisesBelowLog`), which gives `LeaderNotBehindPromises`.

The refinement maps every application to itself and the abstract log to a longest one.
Executing is a step of `ReplicatedLog` because what is executed next is chosen and chosen
batches are unique; installing a state is one because both it and the
log are prefixes of what is chosen; every other handler leaves the applications alone.

### RSL: requests

`RequestsInv`. `NotedOnce`: the header sets are those of the lists, and no request is in
the lists of the two epochs twice; a list without repetitions is no longer than there are
requests, so the code never cuts it, and `Unsatisfied` keeps all of this (`ListProofs`).
`StateIsTrue`: an executor's counter is the number of requests in the batches that it
has executed (`ExecutedBefore`), and what is cached for a client was the counter at an
execution of that very request. It is required of supplied states too, since they become executors.
What was chosen only grows at its end, so a true reply stays true.
`OutstandingUntilExecuted` is an action property: with `NotedOnce`, each handler that
shortens the lists is looked at.

### Raft and PBFT

Raft: a vote is visible in a vote message, in the candidate's set or in the voter's own
state (`VoteSeen`); whoever has voted is in that term, still for that candidate, or beyond
it (`VotesInv`), so leaders with quorums are unique. For every term with a leader, an
AppendEntries or an entry (`TermUsed`) there is one server (`LedBy`): nobody else can be elected
any more, and all entries of that term agree with the log of this server up to where they
are. That is the heart of `LogMatching`, which has to cope with followers that stamp an
entry with the packet's term. An answer that was true stays true since logs only
grow (`PacketTrue`, `MatchInv`), late ones included, and a majority holds what anyone has
committed (`CommitInv`). Two committed prefixes then share a server, so they agree, without
leader completeness, which this code does not have (section 7).

PBFT: the primary assigns one digest to a round and never another (`Assigned`); nodes work
on, and execute, what is assigned (`RoundsInv`); a Commit, sent or counted, is of a node that
has voted to commit in that round or is beyond it (`VotesInv`), so `2F+1` of them stand
behind each execution (`QuorumInv`). A request keeps its client from the queue to the reply
(`RequestsInv`).

`ImplementOneLog`: the abstract sequence is a longest committed prefix (Raft) or what the
furthest node has executed (PBFT), and every step extends it or leaves it.

### The smaller hosts

- Two-phase commit: a vote in the network is evidence of a prepared manager, a Commit
  of a decision, and a decision of all votes (`TPInv`).
- Lock: `MutualExclusion` is not inductive because a Transfer on its way can make a second
  holder. `IInv` says that an acceptable Transfer is the one to the last host of the
  history, and then nobody holds the lock. The same invariant maps `grant` to the
  service's step and `accept` to a stutter or an announcement.
- Paxos: `handle_promise` does not look at the promise's ballot. It is sound because a
  proposer has one ballot only (`PacketInv`, `ProposerInv`): a promise to it is for that
  ballot, and its sender has told of all it accepted, or ever will accept, below it.
- Vertical Paxos: an `AcceptOk` answers a vote for its addressee, whichever of its ballots.
- Leader election: a node that has declared itself follows somebody and waits for no answer
  from then on, so it does not declare itself again.
- Chain replication: an acknowledgement on its way to a node is of the value that the tail has
  committed, and every node after the addressee has it and no longer waits for it. The tail
  only ever commits the first value of its history (`committed_count`, `obj_value`), so this
  stays true of old acknowledgements; and a value that a node has is refused when it comes
  again, so it is not waited for again except at the head, where every write starts.
- Primary backup: what was taken is what was answered followed by what is pending.

### Lion

- Numbers. `ReservationInv` is about the file: only the lock's holder is inside, what it is
  about to take lies above all that was handed out (`top`), and both the visible and the
  durable checkpoint are at or above `top` and synced. `UseInv` is about the numbers: what
  ready workers still have is unused and disjoint. A step that hands out needs both.
- UDP. Identities do not come back: within a session the sequence number grows, and a
  restart takes a new session (`Genuine`, `Identified`). So the parts in an assembly, which
  all were sent under its identity (`Arrived`), are of one message, and as many as
  its length are all of it. The account is the number of places (peer, identity, index) of
  the assemblies, which opening, expiring and completing change by the assembly's length.
  That next_expiry is at or below every deadline survives a completed message, which leaves
  next_expiry too early, and never too late.
- TCP. A frame is with one task at most, in one place (`HeldOnce`), and nobody was told of
  it yet (`HeldIsOpen`): so a task that ends can fail everything it holds without
  contradicting a success. Routes are the tasks that still take frames, without repetition,
  whatever order tasks end in.

### The model checker's search

`SearchClosed` speaks of the end only; `DporInv` says of every state
where the successors are that are not stored yet. Its heart, `CoverInv`: each transition of
each stored state (but for those stored for a thief or at `max_depth`) is `Covered`: its
successor is stored, waits in the frontier or is about to be explored, or the transition is
handed to a thief, or it remains in a frame of some worker's stack. And somebody is still
there: no worker has left before the frontier was empty, and not all before the pool was,
which holds because the donor itself comes back to the loop after it has donated.
When all have left, nothing is on its way any more and the store is closed (`LeftClosed`),
which `MergedInv` keeps for the result.
`LevelInv` is the same for the first phase: all levels but the last have their successors
in the store. `PlaceInv` ties a worker's place to its work and its stack. Whatever cuts the
search short is excused by `Open`, which once false stays false (`OpenBefore`). Sleep sets are
excluded by the property, and with them it is false.

`ViolationsReported` needs that each frame of a stack is the successor of the one below by
the transition chosen there (`Linked`): then the trace read off the stack is a path to what
is reported. That the result has a violation takes two steps: whoever stores a violating
state for itself has reported it (`FoundReported`), and a search that has ended with reports
returns one of them (`ResultInv`), although only one survives the merge. It holds with sleep
sets and limits too.

### Only model-checked

Liveness: `CatchesUp`, `Failover`, `StuckViewIsLeft`, `EPaxosClientsAnswered`,
`PbftRequestsAnswered`, `AssembliesEnd`, `SendsAnswered`, `PermitsReturned` and `SearchEnds`.
Fairness is outside the prover's reach. EPaxos is checked through its liveness property
only and has no theorem. The properties of the four runs that expect a violation are false.

## 7. Findings and observations

### A repeated request can be executed twice (RSL)

`requests_repeat` refutes `NoReexecution`. `CUpdateNewCache`
(`src/src/implementation/RSL/gen_helpers.rs:544`) inserts the *old* cache entries over
the new replies, so a client's first reply stays in the cache for good. The trace: the
client's request 0 is executed, answered and cached; request 1 is executed and answered,
but the cache still holds 0; the repetition of request 1 is not recognised, is
noted as outstanding, outlives two epochs, makes the replica suspect its view, enters
the queue of the next view and is executed again. The test
`rsl_single_requests_commit_without_a_batch_timer_or_duplicate_reexecution`
(`src/runtime/lion-server/tests/protocol.rs:113`) says that repeating a request "must
still leave the counter unchanged", and repeats only a client's first request. The Verus
specification `UpdateNewCache` prescribes the same precedence, which is why the code
verifies.

### A leader may lack a committed entry (Raft)

`raft_leader_completeness` refutes `LeaderCompleteness`, which
`src/src/protocol/Raft/refinement_proof/invariants.rs:46-48` states: "If an entry is
committed in some term, it appears in the log of every leader for all higher-numbered
terms." `leader_heartbeat` (`implementation/Raft/host.rs:132`) sends whatever entry follows
`next_index`, although `CSendAppendEntries` requires (`raft_gen.rs:350`) that it is of the
leader's term; the packet has no term for the entry and the follower stamps it with the
packet's (`raft_gen.rs:401`). A follower that was sent an old, uncommitted entry by a
later leader then passes for more up to date than a server with a committed entry and wins
the next election without it. `ImplementOneLog`, which is about what servers *commit*, holds
all the same (`LogHostsImplementOneLog`, for every schedule of elections): this code never
removes an entry, so a majority keeps what is committed and no other value can get one at
that index. What the new leader lacks it cannot replace; it can only fail to commit there.

### A stolen transition loses states (model checker)

`dpor_workers` refutes `AllStatesFound`. `execute_stolen_work` (`explore.rs:1380`) inserts
the successor's fingerprint into the store and then calls `explore_dpor_from_state` on it,
which returns at once because the fingerprint is stored (`explore.rs:917`). The state is
neither checked nor expanded; a violation in it, or in what only it leads to, is missed,
and whether that happens depends on which workers were idle. The comment at
`explore.rs:106-107` says that the thief "won't miss states", and the test at
`explore.rs:5340` that all worker counts produce "the same state set as sequential".
`SearchClosedHolds` shows that this is the only way (apart from the limits and sleep sets)
in which a successor is lost.

### Sleep sets lose states (model checker)

`dpor_sleep_sets` refutes `SleepSetsLoseNothing`. A transition sleeps under
`transition_sleep_key` (`explore.rs:1812`), its process and the label of its branch. The
values chosen for the branch's other variables are not part of it, so the transitions of
`exists |i, v|` with one `i` have one key. Choosing the first of them puts the key to
sleep in its own frame (`explore.rs:1077`) and the others are skipped there
(`explore.rs:1056`). `docs/dpor_sleep_set_reduction_gate_rationale.md:14` states
"`conservative ⊆ sleep`", and a test (`explore.rs:2476`) that "Sleep sets must not LOSE
states (correctness)", on cases whose branches have no second choice.

### Observations

Behaviours met while modelling, each visible in the model, for which there is no run:

- Raft tells a client of success when the leader has appended (`host.rs:211`), not
  when a majority has; a follower with a longer, conflicting log rejects everything
  and is never truncated (`raft_gen.rs:745`).
- PBFT repeats the PrePrepares of two rounds (`host.rs:103`); a backup further behind is
  sent none for its round and stays behind.
- In PBFT a node that is behind in Commit sends Prepare and Commit back to back
  (`host.rs:144-175`). A node ahead answers the Prepare, which the other no longer needs, and
  drops the Commit because a millisecond has not passed (`host.rs:313`, `:396`), possibly at
  every repetition. With another node down, or two nodes behind, the rounds stop there, although
  the comments at `host.rs:308` and `:393` say "help the stuck sender catch up". Without the
  exception for it in `PbftRequestsAnswered`, TLC shows this stall: the primary in Commit,
  the two others a round ahead. It depends on the timing of the two packets, so it is an
  observation and not a finding.
- In the chain an acknowledgement names a value. When a committed value is written again, an
  acknowledgement of the first write ends the head's wait for the second (`host.rs:400`), which
  the next node refuses (`host.rs:335`): the nodes' histories then differ in length.
- In the chain the tail commits the first value of its history at every turn
  (`host.rs:379`): `committed_count` counts repetitions, and later values are not
  committed. A middle node passes an acknowledgement on once (`host.rs:424`), so with middle
  nodes a lost packet leaves the head waiting for ever.
- The lock is lost with the Transfer that carries it: it is sent once (`node_i.rs:91`).
- The backup acknowledges on its timer, whatever has arrived (`host.rs:408`), so the
  primary may answer before the write is on the backup; an inactive third node promotes
  itself at its first turn (`host.rs:422`).
- In Vertical Paxos a proposer that has promised another's ballot proposes in it
  (`host.rs:422`), and `committed` stays true, so later configurations are entered
  without votes (`host.rs:514`).
- An election may end without a leader: a node that answers becomes electing without
  waiting for an answer, and then neither starts nor wins an election (`host.rs:331`).
- In EPaxos a `PreAcceptOk` names no command, and a late one is counted for the next
  command (`host.rs:190`).
- Of the violations that several workers find, the result keeps the first in the order of the
  workers (`explore.rs:405`), not the shortest trace; the others are dropped.
- The first phase of the parallel search checks invariants but not deadlocks, and a trace
  that a worker reports starts at its frontier state, not at an initial state
  (`explore.rs:595`, `:1214`).
- Paxos with three nodes needs both others to answer: a proposer does not ask itself but
  counts a quorum of all (`host.rs:331`).

## 8. Not modelled

- EPaxos's slow path: every PreAcceptOk reports no conflict (`host.rs:166`), so no host
  enters it. Chain failures and reconfiguration, `primary_fail`, PBFT's view change,
  aborts of two-phase commit, `CDeactivate`: nothing calls them.
- RSL's round robin over ten action indices and its timers as numbers: any
  interleaving is allowed instead, which contains theirs. Clocks as numbers, likewise.
- Byte formats (`marshalling.rs`: pure conversion with Verus proofs of its own), command
  lines, configuration tools and certificates, socket calls, statistics.
- The transpiler from TLA+ to Verus (`src/transpiler`) but for the search of its model
  checker: parsing, translation, code generation and the evaluators of expressions are batch
  programs without state between runs, about half of the repository's lines.
- The Verus specifications and refinement proofs (`src/src/protocol`) and the
  specification-only studies (CausalMesh, Corfu, Gaios, Jetpack, Mako, Mencius, Om,
  ReplicatedCommit, SpecPaxos, Tiga, TLAPSBench): ghost code that does not run. The
  executable code is modelled instead.
- The C# runtime, which Lion replaces.

These last parts (the transpiler, ghost code and the C# runtime) are most of the
repository: the modules here cover the executable protocols, their runtime and the
search, and a small share of all lines.
