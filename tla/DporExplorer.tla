---------------------------- MODULE DporExplorer ----------------------------
(***************************************************************************)
(* The explicit-state search of the repository's own model checker:        *)
(* explore_dpor, with one worker, and explore_dpor_parallel, with several  *)
(* (transpiler/src/modelcheck/dpor/explore.rs).  The parallel search first *)
(* expands levels until its frontier is large enough; then the workers     *)
(* take frontier states, search depth first below them with a shared store *)
(* of fingerprints, and hand transitions to workers that have become idle. *)
(*                                                                         *)
(* The specification under check is a graph: its states, and the enabled   *)
(* transitions of each in the order of their ordering_key.  Fingerprints   *)
(* are taken to be unique, and symmetry_fields to be empty.                *)
(***************************************************************************)
EXTENDS Naturals, Sequences, FiniteSets

CONSTANTS
    States,     \* the states of the specification under check
    Enabled,    \* the enabled transitions of a state, in the order of their keys
    Bad,        \* the states that violate an invariant
    Workers,    \* the threads
    Calls       \* what the search may be called with: the initial states, the workers
                \* and the configuration (DporConfig)

ASSUME DporAssumption ==
    /\ IsFiniteSet(States)
    /\ Bad \subseteq States
    /\ \A s \in States : \A i \in DOMAIN Enabled[s] : Enabled[s][i].successor \in States
    /\ \A c \in Calls :
          /\ c.initial \subseteq States
          /\ c.workers \subseteq Workers /\ c.workers # {}
          /\ c.config.max_states \in Nat

VARIABLES
    call,       \* what the search was called with
    phase,      \* "init", "bfs" (level by level), "search" (workers), and the ends: "done"
                \* before the workers start, "merged" after they have left
    level,      \* current_frontier_depth
    frontier,   \* the level to expand, then the queue of the workers
    store,      \* SharedStateStore
    pool,       \* StealPool.queue: the <<state, transition>> that may be stolen
    idle,       \* StealPool.idle_workers
    stop,       \* stop_flag
    pc, job, stack,     \* a worker's place, the work it has taken, its DFS stack
    reports,    \* the violations found: one of the levels, or one of a WorkerResult each
    violation,  \* DporResult.violation: at most one of the reports, none before the end
    stolen,     \* history: the states stored on behalf of a thief
    cut         \* history: the states stored at max_depth

vars == <<call, phase, level, frontier, store, pool, idle, stop, pc, job, stack, reports,
          violation, stolen, cut>>

initial == call.initial
workers == call.workers
config == call.config

Succ(s, i) == Enabled[s][i].successor
Successors(S) == UNION {{Succ(s, i) : i \in DOMAIN Enabled[s]} : s \in S}

Parallel == Cardinality(workers) > 1

LimitReached == Cardinality(store) >= config.max_states
-----------------------------------------------------------------------------
(***************************************************************************)
(* Sleep sets.                                                             *)
(***************************************************************************)
\* process_id and branch_label: the existential choices of a branch share a key.
transition_sleep_key(t) == <<t.process, t.branch>>

\* A path is a field, or a field and a key: a field conflicts with all its entries.
field_paths_conflict(p, q) == \A i \in DOMAIN p \cap DOMAIN q : p[i] = q[i]

independent_of(t, u) ==
    /\ \A p \in t.writes, q \in u.reads \cup u.writes : ~field_paths_conflict(p, q)
    /\ \A p \in t.reads, q \in u.writes : ~field_paths_conflict(p, q)

UnknownFootprint(t) == t.reads = {} /\ t.writes = {}

classify_transition_independence(t, u) ==
    /\ t.process # u.process
    /\ ~UnknownFootprint(t) /\ ~UnknownFootprint(u)
    /\ independent_of(t, u)

\* What sleeps below transition i of a frame with the given done and sleep sets:
\* what sleeps there, what was done and what is ordered before, if independent.
compute_child_sleep_set(s, i, done, sleep) ==
    LET First(k) == {j \in DOMAIN Enabled[s] :
                        /\ transition_sleep_key(Enabled[s][j]) = k
                        /\ \A h \in 1 .. j - 1 : transition_sleep_key(Enabled[s][h]) # k}
        candidates == (UNION {First(k) : k \in sleep}) \cup (done \ {i}) \cup (1 .. i - 1)
    IN  {transition_sleep_key(Enabled[s][j]) :
            j \in {c \in candidates :
                      classify_transition_independence(Enabled[s][c], Enabled[s][i])}}
-----------------------------------------------------------------------------
\* A frame of the search.  Its backtrack set is not kept: it is the transitions
\* that do not sleep when the frame is pushed, and none of the others is awake later.
Frame(s, sleep, depth) ==
    [state |-> s, done |-> {}, sleep |-> sleep, chosen |-> 0, child_sleep |-> {},
     depth |-> depth]

\* The transitions of a frame that are still to be explored.
Remaining(f) ==
    {i \in DOMAIN Enabled[f.state] \ f.done :
        config.use_sleep_sets =>
            /\ \A d \in f.done : Succ(f.state, d) # Succ(f.state, i)
            /\ transition_sleep_key(Enabled[f.state][i]) \notin f.sleep}

\* Mutant: a chosen transition sleeps, and is not done.
ChooseSleeping(f, i) ==
    [f EXCEPT !.sleep = f.sleep \cup {transition_sleep_key(Enabled[f.state][i])},
              !.chosen = i, !.child_sleep = {}]

\* The frame after its transition i is chosen.
Choose(f, i) ==
    LET done == f.done \cup {i}
        sleep == IF config.use_sleep_sets
                 THEN f.sleep \cup {transition_sleep_key(Enabled[f.state][i])}
                 ELSE f.sleep
    IN  [f EXCEPT !.done = done, !.sleep = sleep, !.chosen = i,
                  !.child_sleep = IF config.use_sleep_sets
                                  THEN compute_child_sleep_set(f.state, i, done, sleep)
                                  ELSE {}]

Top(w) == stack[w][Len(stack[w])]
Below(w) == SubSeq(stack[w], 1, Len(stack[w]) - 1)

\* The trace of a witness: the transition that each frame of the stack has chosen.
Trace(w) == [d \in DOMAIN stack[w] |-> <<stack[w][d].state, stack[w][d].chosen>>]

Report(s, trace) == reports' = reports \cup {[state |-> s, trace |-> trace]}

Deadlocked(s) == config.check_deadlock /\ Enabled[s] = <<>>
-----------------------------------------------------------------------------
Init ==
    /\ call \in Calls
    /\ phase = "init" /\ level = 1
    /\ frontier = {} /\ store = {} /\ pool = {} /\ idle = 0 /\ stop = FALSE
    /\ pc = [w \in workers |-> "loop"]
    /\ job = [w \in workers |-> <<>>]
    /\ stack = [w \in workers |-> <<>>]
    /\ reports = {} /\ violation = {} /\ stolen = {} /\ cut = {}

worker_vars == <<pool, idle, stop, pc, job, stack, stolen, cut>>

\* One worker takes the initial states one after the other.
explore_dpor ==
    /\ phase = "init" /\ ~Parallel
    /\ phase' = "search" /\ frontier' = initial
    /\ UNCHANGED <<call, level, store, reports, violation, worker_vars>>

\* Several workers: the initial states are stored and checked, up to the first
\* that violates an invariant.
explore_dpor_parallel ==
    /\ phase = "init" /\ Parallel
    /\ \/ /\ initial \cap Bad = {}
          /\ store' = initial /\ frontier' = initial /\ phase' = "bfs"
          /\ UNCHANGED <<reports, violation>>
       \/ \E s \in initial \cap Bad : \E before \in SUBSET (initial \ Bad) :
             /\ store' = before \cup {s} /\ phase' = "done"
             /\ Report(s, <<>>) /\ violation' = reports'
             /\ UNCHANGED frontier
    /\ UNCHANGED <<call, level, worker_vars>>

\* Mutant: the workers' queue is stored as well, like the levels before it.
bfs_level_stored ==
    LET next == Successors(frontier)
        enough == \/ Cardinality(next) >= config.min_frontier_per_worker * Cardinality(workers)
                  \/ level >= config.max_frontier_depth
    IN  /\ phase = "bfs" /\ next \cap Bad = {}
        /\ store' = store \cup next /\ frontier' = next /\ level' = level + 1
        /\ phase' = IF ~enough THEN "bfs" ELSE IF next = {} THEN "done" ELSE "search"
        /\ UNCHANGED <<call, reports, violation, worker_vars>>

\* A level is expanded: its successors are checked, and become the workers' queue if
\* they are enough or the level is the last, else they are stored and expanded next.
bfs_level ==
    LET next == Successors(frontier)
        enough == \/ Cardinality(next) >= config.min_frontier_per_worker * Cardinality(workers)
                  \/ level >= config.max_frontier_depth
    IN  /\ phase = "bfs"
        /\ \/ /\ next \cap Bad = {} /\ enough
              /\ phase' = IF next = {} THEN "done" ELSE "search"
              /\ frontier' = next
              /\ UNCHANGED <<level, store, reports, violation>>
           \/ /\ next \cap Bad = {} /\ ~enough
              /\ store' = store \cup next /\ frontier' = next /\ level' = level + 1
              /\ UNCHANGED <<phase, reports, violation>>
           \/ \E s \in next \cap Bad :
                 /\ phase' = "done" /\ Report(s, <<>>) /\ violation' = reports'
                 /\ UNCHANGED <<level, frontier, store>>
        /\ UNCHANGED <<call, worker_vars>>
-----------------------------------------------------------------------------
(***************************************************************************)
(* The loop of a worker.                                                   *)
(***************************************************************************)
Goto(w, place) == pc' = [pc EXCEPT ![w] = place]

\* Before the next piece of work: the stop flag and the limit are looked at.
next_item(w) ==
    /\ pc[w] = "loop"
    /\ Goto(w, IF stop \/ LimitReached THEN "done" ELSE "take")
    /\ UNCHANGED <<call, phase, level, frontier, store, pool, idle, stop, job, stack, reports,
                   stolen, cut>>

take_frontier(w) ==
    /\ pc[w] = "take"
    /\ \E s \in frontier :
          /\ frontier' = frontier \ {s}
          /\ job' = [job EXCEPT ![w] = <<s>>]
    /\ Goto(w, "explore")
    /\ UNCHANGED <<call, phase, level, store, pool, idle, stop, stack, reports, stolen, cut>>

\* The frontier is never filled again.
take_stolen(w) ==
    /\ pc[w] = "take" /\ frontier = {}
    /\ \E work \in pool :
          /\ pool' = pool \ {work}
          /\ job' = [job EXCEPT ![w] = work]
    /\ Goto(w, "steal")
    /\ UNCHANGED <<call, phase, level, frontier, store, idle, stop, stack, reports, stolen, cut>>

nothing_left(w) ==
    /\ pc[w] = "take" /\ frontier = {} /\ pool = {}
    /\ IF Parallel THEN idle' = idle + 1 /\ Goto(w, "spin")
                   ELSE Goto(w, "done") /\ UNCHANGED idle
    /\ UNCHANGED <<call, phase, level, frontier, store, pool, stop, job, stack, reports, stolen,
                   cut>>

\* An idle worker tries the pool 64 times, and leaves when the last try fails too.
spin_found(w) ==
    /\ pc[w] = "spin" /\ ~stop
    /\ \E work \in pool :
          /\ pool' = pool \ {work}
          /\ job' = [job EXCEPT ![w] = work]
    /\ idle' = idle - 1
    /\ Goto(w, "steal")
    /\ UNCHANGED <<call, phase, level, frontier, store, stop, stack, reports, stolen, cut>>

spin_failed(w) ==
    /\ pc[w] = "spin" /\ (stop \/ pool = {})
    /\ Goto(w, "leave")
    /\ UNCHANGED <<call, phase, level, frontier, store, pool, idle, stop, job, stack, reports,
                   stolen, cut>>

\* Until it has counted itself out, others still take it for an idle worker.
leave(w) ==
    /\ pc[w] = "leave"
    /\ idle' = idle - 1
    /\ Goto(w, "done")
    /\ UNCHANGED <<call, phase, level, frontier, store, pool, stop, job, stack, reports, stolen,
                   cut>>

\* The successor is stored on behalf of the thief, who then explores it.
execute_stolen_work(w) ==
    LET s == Succ(job[w][1], job[w][2])
    IN  /\ pc[w] = "steal"
        /\ IF s \in store
           THEN Goto(w, "loop") /\ UNCHANGED <<store, job, stolen>>
           ELSE /\ store' = store \cup {s} /\ stolen' = stolen \cup {s}
                /\ job' = [job EXCEPT ![w] = <<s>>]
                /\ Goto(w, "explore")
        /\ UNCHANGED <<call, phase, level, frontier, pool, idle, stop, stack, reports, cut>>
-----------------------------------------------------------------------------
(***************************************************************************)
(* explore_dpor_from_state.                                                *)
(***************************************************************************)
\* A state that is stored is not explored.
already_stored(w) ==
    /\ pc[w] = "explore" /\ job[w][1] \in store
    /\ Goto(w, "loop")
    /\ UNCHANGED <<call, phase, level, frontier, store, pool, idle, stop, job, stack, reports,
                   stolen, cut>>

explore_dpor_from_state(w) ==
    LET s == job[w][1]
    IN  /\ pc[w] = "explore" /\ s \notin store
        /\ store' = store \cup {s}
        /\ IF s \in Bad \/ Deadlocked(s)
           THEN Report(s, <<>>) /\ stop' = TRUE /\ Goto(w, "loop") /\ UNCHANGED stack
           ELSE /\ stack' = [stack EXCEPT ![w] = <<Frame(s, {}, 0)>>]
                /\ Goto(w, "choose")
                /\ UNCHANGED <<reports, stop>>
        /\ UNCHANGED <<call, phase, level, frontier, pool, idle, job, stolen, cut>>

\* The search is given up when another worker has found a violation or at the limit.
give_up(w) ==
    /\ pc[w] = "choose" /\ (stop \/ LimitReached)
    /\ stack' = [stack EXCEPT ![w] = <<>>]
    /\ Goto(w, "loop")
    /\ UNCHANGED <<call, phase, level, frontier, store, pool, idle, stop, job, reports, stolen,
                   cut>>

\* The first transition that remains is chosen; the others go to the pool if some
\* worker is idle.
choose(w) ==
    /\ pc[w] = "choose" /\ ~stop /\ ~LimitReached
    /\ \E i \in Remaining(Top(w)) :
          LET f == Choose(Top(w), i)
              donated == IF Parallel /\ idle > 0 THEN Remaining(f) ELSE {}
          IN  /\ \A j \in Remaining(Top(w)) : i <= j
              /\ pool' = pool \cup {<<f.state, j>> : j \in donated}
              /\ stack' = [stack EXCEPT ![w] =
                             Append(Below(w), [f EXCEPT !.done = f.done \cup donated])]
    /\ Goto(w, "fire")
    /\ UNCHANGED <<call, phase, level, frontier, store, idle, stop, job, reports, stolen, cut>>

pop(w) ==
    /\ pc[w] = "choose" /\ ~stop /\ ~LimitReached
    /\ Remaining(Top(w)) = {}
    /\ stack' = [stack EXCEPT ![w] = Below(w)]
    /\ Goto(w, IF Len(stack[w]) = 1 THEN "loop" ELSE "choose")
    /\ UNCHANGED <<call, phase, level, frontier, store, pool, idle, stop, job, reports, stolen,
                   cut>>

\* Mutant: the invariants are checked when the state is searched.
fire_checked_late(w) ==
    LET f == Top(w)
        s == Succ(f.state, f.chosen)
        expanded == f.depth + 1 < config.max_depth
    IN  /\ pc[w] = "fire"
        /\ store' = store \cup {s}
        /\ \/ /\ s \in store \/ ~expanded
              /\ cut' = cut \cup ({s} \ store)
              /\ Goto(w, "choose") /\ UNCHANGED <<stop, stack, reports>>
           \/ /\ s \notin store /\ expanded /\ (s \in Bad \/ Deadlocked(s))
              /\ Report(s, Trace(w)) /\ stop' = TRUE
              /\ stack' = [stack EXCEPT ![w] = <<>>]
              /\ Goto(w, "loop") /\ UNCHANGED cut
           \/ /\ s \notin store /\ expanded /\ s \notin Bad /\ ~Deadlocked(s)
              /\ stack' = [stack EXCEPT ![w] =
                             Append(@, Frame(s, f.child_sleep, f.depth + 1))]
              /\ Goto(w, "choose") /\ UNCHANGED <<stop, reports, cut>>
        /\ UNCHANGED <<call, phase, level, frontier, pool, idle, job, stolen>>

\* The chosen transition is fired: a new successor is stored, checked and, above
\* max_depth, searched.
fire(w) ==
    LET f == Top(w)
        s == Succ(f.state, f.chosen)
        expanded == f.depth + 1 < config.max_depth
    IN  /\ pc[w] = "fire"
        /\ store' = store \cup {s}
        /\ \/ /\ s \in store
              /\ Goto(w, "choose") /\ UNCHANGED <<stop, stack, reports, cut>>
           \/ /\ s \notin store /\ (s \in Bad \/ (expanded /\ Deadlocked(s)))
              /\ Report(s, Trace(w)) /\ stop' = TRUE
              /\ stack' = [stack EXCEPT ![w] = <<>>]
              /\ Goto(w, "loop") /\ UNCHANGED cut
           \/ /\ s \notin store /\ s \notin Bad /\ expanded /\ ~Deadlocked(s)
              /\ stack' = [stack EXCEPT ![w] =
                             Append(@, Frame(s, f.child_sleep, f.depth + 1))]
              /\ Goto(w, "choose") /\ UNCHANGED <<stop, reports, cut>>
           \/ /\ s \notin store /\ s \notin Bad /\ ~expanded
              /\ cut' = cut \cup {s}
              /\ Goto(w, "choose") /\ UNCHANGED <<stop, stack, reports>>
        /\ UNCHANGED <<call, phase, level, frontier, pool, idle, job, stolen>>
-----------------------------------------------------------------------------
Worker(w) ==
    /\ phase = "search" /\ UNCHANGED violation
    /\ \/ next_item(w) \/ take_frontier(w) \/ take_stolen(w) \/ nothing_left(w)
       \/ spin_found(w) \/ spin_failed(w) \/ leave(w) \/ execute_stolen_work(w)
       \/ already_stored(w) \/ explore_dpor_from_state(w)
       \/ give_up(w) \/ choose(w) \/ pop(w) \/ fire(w)

\* Mutant: the last worker's result replaces the others', also when it has no violation.
merge_last ==
    /\ phase = "search" /\ \A w \in workers : pc[w] = "done"
    /\ phase' = "merged"
    /\ violation' \in {{r} : r \in reports}
                     \cup (IF Cardinality(reports) < Cardinality(workers) THEN {{}} ELSE {})
    /\ UNCHANGED <<call, level, frontier, store, reports, worker_vars>>

\* The workers have left: of the violations that they have found, the result keeps
\* the first, in the order of the workers.
merge ==
    /\ phase = "search" /\ \A w \in workers : pc[w] = "done"
    /\ phase' = "merged"
    /\ violation' \in IF reports = {} THEN {{}} ELSE {{r} : r \in reports}
    /\ UNCHANGED <<call, level, frontier, store, reports, worker_vars>>

\* The search has returned its result.
Finished == phase \in {"done", "merged"}

Next ==
    \/ explore_dpor \/ explore_dpor_parallel \/ bfs_level \/ merge
    \/ \E w \in workers : Worker(w)

\* The main thread runs, and so does every thread of the team.
Spec ==
    /\ Init /\ [][Next]_vars
    /\ WF_vars(explore_dpor \/ explore_dpor_parallel \/ bfs_level \/ merge)
    /\ \A w \in Workers : WF_vars(w \in workers /\ Worker(w))
-----------------------------------------------------------------------------
(***************************************************************************)
(* Properties.                                                             *)
(***************************************************************************)
\* The search ran to its end: no violation and no limit cut it short.
Exhausted == Finished /\ violation = {} /\ ~LimitReached

\* explore.rs: without sleep sets, whatever workers donate, take and give up, an
\* exhausted search has the initial states, and every successor of every state that
\* is in the store, but for those stored for a thief or at max_depth.
SearchClosed ==
    Exhausted /\ ~config.use_sleep_sets =>
        initial \cup Successors(store \ (stolen \cup cut)) \subseteq store

\* The reported trace is a path of the specification that ends in the state reported.
IsPath(r) ==
    \A d \in DOMAIN r.trace :
        Succ(r.trace[d][1], r.trace[d][2]) =
            IF d = Len(r.trace) THEN r.state ELSE r.trace[d + 1][1]

\* explore.rs: when a state that violates an invariant is in the store at the end, and
\* was not stored for a thief, the result has a violation, whoever stored the state and
\* whoever stopped first; it is of a state that violates an invariant or has no
\* successor, with a path that leads there.
ViolationsReported ==
    /\ Finished /\ (store \cap Bad) \ stolen # {} => violation # {}
    /\ \A r \in violation : (r.state \in Bad \/ Deadlocked(r.state)) /\ IsPath(r)

\* explore.rs: the search ends: no worker spins for ever or comes back to a frame
\* without end, and none leaves work behind that the others wait for.
SearchEnds == <>Finished

\* What the specification under check can reach.
Reachable ==
    LET reached[n \in 0 .. Cardinality(States)] ==
            IF n = 0 THEN initial
                     ELSE LET before == reached[n - 1] IN before \cup Successors(before)
    IN  reached[Cardinality(States)]

\* What dpor_sleep_set_reduction_gate_rationale.md:14 and explore.rs:2476 state: with
\* sleep sets one worker, not cut off at max_depth, finds all the states that it finds
\* without.
SleepSetsLoseNothing == Exhausted /\ ~Parallel /\ cut = {} => Reachable \subseteq store

\* What the comments at explore.rs:107 and :5340 state: with several workers the
\* search finds all the states that one worker finds.
AllStatesFound == Exhausted => Reachable \subseteq store
=============================================================================
