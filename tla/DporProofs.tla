----------------------------- MODULE DporProofs -----------------------------
(***************************************************************************)
(* Proof that violations are reported with a path that leads to them, and  *)
(* that an exhausted search without sleep sets is closed, for every        *)
(* specification under check, team of workers and configuration.           *)
(*                                                                         *)
(* SearchClosed speaks of the end of the search.  The invariant behind it  *)
(* says at every moment where the successors of a stored state are, and    *)
(* that somebody is still there to fetch those that are not stored yet.    *)
(***************************************************************************)
EXTENDS DporExplorer, FiniteSetTheorems, TLAPS

Indices == UNION {DOMAIN Enabled[s] : s \in States}
Works == {x \in States \X Indices : x[2] \in DOMAIN Enabled[x[1]]}
Jobs == Works \cup {<<s>> : s \in States} \cup {<<>>}

\* The keys that may sleep: those of the transitions of a state, and of what is
\* ordered before them.
Candidates == Indices \cup UNION {1 .. i - 1 : i \in Indices}
SleepKeys == {transition_sleep_key(Enabled[x[1]][x[2]]) : x \in States \X Candidates}

Frames ==
    [state : States, done : SUBSET Indices, sleep : SUBSET SleepKeys,
     chosen : Indices \cup {0}, child_sleep : SUBSET SleepKeys, depth : Nat]

TypeInv ==
    /\ call \in Calls
    /\ phase \in {"init", "bfs", "search", "done", "merged"}
    /\ store \subseteq States /\ frontier \subseteq States /\ pool \subseteq Works
    /\ pc \in [workers -> {"loop", "take", "spin", "leave", "done", "explore", "steal",
                           "choose", "fire"}]
    /\ job \in [workers -> Jobs]
    /\ stack \in [workers -> Seq(Frames)]

\* What the place of a worker says about its work and its stack.
PlaceInv ==
    \A w \in workers :
        /\ pc[w] = "explore" => job[w] \in {<<s>> : s \in States}
        /\ pc[w] = "steal" => job[w] \in Works
        /\ pc[w] \in {"choose", "fire"} <=> Len(stack[w]) > 0
        /\ pc[w] = "fire" => Top(w).chosen \in DOMAIN Enabled[Top(w).state]

\* Nothing has cut the search short.
Open == reports = {} /\ ~LimitReached

StopInv == stop => reports # {}

\* The state t is stored, or will be looked at: it is in the frontier or taken from it.
Found(t) ==
    \/ t \in store \cup frontier
    \/ \E w \in workers : pc[w] = "explore" /\ job[w] = <<t>>

\* Transition i of state s has been handed to a thief, or is about to be.
Handed(s, i) ==
    \/ <<s, i>> \in pool
    \/ \E w \in workers : pc[w] = "steal" /\ job[w] = <<s, i>>

\* Transition i of state s remains in a frame, or is being fired.
OnStack(s, i) ==
    \E w \in workers : \E d \in 1 .. Len(stack[w]) :
        /\ stack[w][d].state = s
        /\ \/ i \notin stack[w][d].done
           \/ pc[w] = "fire" /\ d = Len(stack[w]) /\ stack[w][d].chosen = i

Covered(s, i) == Found(Succ(s, i)) \/ Handed(s, i) \/ OnStack(s, i)

\* While levels are expanded, all but the last have their successors in the store.
LevelInv ==
    phase \in {"bfs", "done"} /\ reports = {} =>
        /\ initial \subseteq store /\ frontier \subseteq store
        /\ Successors(store \ frontier) \subseteq store
        /\ phase = "done" => frontier = {}

\* Until the workers start, they have done nothing.
StartInv ==
    /\ phase \in {"init", "bfs"} => pool = {} /\ \A w \in workers : pc[w] = "loop"
    /\ phase = "init" => store = {}

\* While workers search: nobody has left before the frontier was empty, and not all
\* have left before the pool was.
CoverInv ==
    phase = "search" /\ Open =>
        /\ \A t \in initial : Found(t)
        /\ \A s \in store \ (stolen \cup cut) : \A i \in DOMAIN Enabled[s] : Covered(s, i)
        /\ (\E w \in workers : pc[w] \in {"spin", "leave", "done"}) => frontier = {}
        /\ pool # {} => \E w \in workers : pc[w] \notin {"leave", "done"}

\* The states searched have their successors in the store.
Closed == initial \cup Successors(store \ (stolen \cup cut)) \subseteq store

MergedInv == phase = "merged" /\ Open => Closed

\* The result is one of the reports, and at the end there is one if there are any.
ResultInv ==
    /\ violation \subseteq reports
    /\ phase \in {"init", "bfs"} => reports = {}
    /\ Finished /\ reports # {} => violation # {}

DporInv ==
    /\ TypeInv /\ PlaceInv /\ ResultInv
    /\ config.use_sleep_sets \/ (StopInv /\ StartInv /\ LevelInv /\ CoverInv /\ MergedInv)
-----------------------------------------------------------------------------
(***************************************************************************)
(* Facts about the pieces.                                                 *)
(***************************************************************************)
\* Firing a transition of a state of the specification gives a state of it.
LEMMA SuccTyped ==
    ASSUME NEW s \in States, NEW i \in DOMAIN Enabled[s]
    PROVE  Succ(s, i) \in States
  BY DporAssumption DEF Succ

\* The same for a level.
LEMMA SuccessorsTyped ==
    ASSUME NEW S \in SUBSET States
    PROVE  Successors(S) \subseteq States
  BY SuccTyped DEF Successors

\* A search that is not cut short after a step was not before: the store and the
\* reports only grow.
LEMMA OpenBefore ==
    ASSUME call \in Calls, call' = call, store' \subseteq States,
           store \subseteq store', reports \subseteq reports', Open'
    PROVE  Open
  <1>1. /\ IsFiniteSet(store') /\ IsFiniteSet(store)
        /\ Cardinality(store) \in Nat /\ Cardinality(store') \in Nat
        /\ Cardinality(store) <= Cardinality(store')
    BY DporAssumption, FS_Subset, FS_CardinalityType
  <1>2. config.max_states \in Nat /\ config' = config
    BY DporAssumption DEF config
  <1>3. reports = {}
    BY DEF Open
  <1> QED
    BY <1>1, <1>2, <1>3 DEF Open, LimitReached

\* The top of a stack that is not empty, and what is below it.
LEMMA TopTyped ==
    ASSUME TypeInv, NEW w \in workers, Len(stack[w]) > 0
    PROVE  /\ Len(stack[w]) \in Nat /\ Len(stack[w]) \in 1 .. Len(stack[w])
           /\ Top(w) \in Frames
           /\ Below(w) \in Seq(Frames)
           /\ Len(Below(w)) = Len(stack[w]) - 1
           /\ \A d \in 1 .. Len(stack[w]) - 1 : Below(w)[d] = stack[w][d]
  <1>1. stack[w] \in Seq(Frames) /\ Len(stack[w]) \in Nat
    BY DEF TypeInv
  <1> QED
    BY <1>1 DEF Top, Below

\* What sleeps below a transition are keys of transitions.
LEMMA ChildSleepTyped ==
    ASSUME NEW s \in States, NEW i \in Indices, NEW done \in SUBSET Indices, NEW sleep
    PROVE  compute_child_sleep_set(s, i, done, sleep) \subseteq SleepKeys
  <1> DEFINE First(k) == {j \in DOMAIN Enabled[s] :
                            /\ transition_sleep_key(Enabled[s][j]) = k
                            /\ \A h \in 1 .. j - 1 : transition_sleep_key(Enabled[s][h]) # k}
  <1> DEFINE candidates == (UNION {First(k) : k \in sleep}) \cup (done \ {i}) \cup (1 .. i - 1)
  <1>1. candidates \subseteq Candidates
    BY DEF Indices, Candidates
  <1>2. compute_child_sleep_set(s, i, done, sleep)
           = {transition_sleep_key(Enabled[s][j]) :
                j \in {c \in candidates :
                         classify_transition_independence(Enabled[s][c], Enabled[s][i])}}
    BY DEF compute_child_sleep_set
  <1> HIDE DEF candidates
  <1>3. \A j \in Candidates : transition_sleep_key(Enabled[s][j]) \in SleepKeys
    <2> TAKE j \in Candidates
    <2>1. <<s, j>> \in States \X Candidates /\ <<s, j>>[1] = s /\ <<s, j>>[2] = j
      OBVIOUS
    <2> QED
      BY <2>1 DEF SleepKeys
  <1> QED
    BY <1>1, <1>2, <1>3

\* A frame remains one when a transition is chosen.
LEMMA ChooseTyped ==
    ASSUME NEW f \in Frames, NEW i \in Remaining(f)
    PROVE  /\ Choose(f, i) \in Frames
           /\ Choose(f, i).state = f.state /\ Choose(f, i).chosen = i
           /\ Choose(f, i).done = f.done \cup {i}
           /\ i \in DOMAIN Enabled[f.state] \ f.done /\ i \in Indices
           /\ Remaining(Choose(f, i)) \subseteq DOMAIN Enabled[f.state] \ (f.done \cup {i})
  <1>1. i \in DOMAIN Enabled[f.state] \ f.done /\ i \in Indices
    BY DEF Remaining, Frames, Indices
  <1>2. PICK sleep : sleep = IF config.use_sleep_sets
                             THEN f.sleep \cup {transition_sleep_key(Enabled[f.state][i])}
                             ELSE f.sleep
    OBVIOUS
  <1>3. PICK child : child = IF config.use_sleep_sets
                             THEN compute_child_sleep_set(f.state, i, f.done \cup {i}, sleep)
                             ELSE {}
    OBVIOUS
  <1>4. Choose(f, i) = [f EXCEPT !.done = f.done \cup {i}, !.sleep = sleep,
                                 !.chosen = i, !.child_sleep = child]
    BY <1>2, <1>3 DEF Choose
  <1>5. Choose(f, i) = [state |-> f.state, done |-> f.done \cup {i}, sleep |-> sleep,
                        chosen |-> i, child_sleep |-> child, depth |-> f.depth]
    BY <1>4 DEF Frames
  <1>6. /\ f.state \in States /\ f.done \subseteq Indices /\ f.depth \in Nat
        /\ f.sleep \subseteq SleepKeys
    BY DEF Frames
  <1>7. child \subseteq SleepKeys
    BY <1>1, <1>3, <1>6, ChildSleepTyped
  <1>8. sleep \subseteq SleepKeys
    <2>1. <<f.state, i>> \in States \X Candidates /\ <<f.state, i>>[1] = f.state /\ <<f.state, i>>[2] = i
      BY <1>1, <1>6 DEF Candidates
    <2>2. transition_sleep_key(Enabled[f.state][i]) \in SleepKeys
      BY <2>1 DEF SleepKeys
    <2> QED
      BY <1>2, <1>6, <2>2
  <1>9. /\ Choose(f, i) \in Frames
        /\ Choose(f, i).state = f.state /\ Choose(f, i).chosen = i
        /\ Choose(f, i).done = f.done \cup {i}
    BY <1>1, <1>5, <1>6, <1>7, <1>8 DEF Frames
  <1> QED
    BY <1>1, <1>9 DEF Remaining
-----------------------------------------------------------------------------
(***************************************************************************)
(* Every step keeps the types and what a place says about its worker.      *)
(***************************************************************************)
\* The invariant holds when the search is called.
LEMMA InitInv == Init => DporInv
  <1> SUFFICES ASSUME Init PROVE DporInv
    OBVIOUS
  <1>1. TypeInv
    BY DEF Init, TypeInv, Jobs
  <1>2. PlaceInv
    BY DEF Init, PlaceInv
  <1>3. ResultInv
    BY DEF Init, ResultInv
  <1> QED
    BY <1>1, <1>2, <1>3 DEF Init, DporInv, StopInv, StartInv, LevelInv, CoverInv, MergedInv

\* The first phase leaves the workers where they are.
LEMMA LevelTypes ==
    ASSUME TypeInv, PlaceInv, explore_dpor \/ explore_dpor_parallel \/ bfs_level
    PROVE  TypeInv' /\ PlaceInv'
  <1>1. call' = call /\ workers' = workers /\ initial \subseteq States
    BY DporAssumption
       DEF TypeInv, explore_dpor, explore_dpor_parallel, bfs_level, workers, initial
  <1>2. pool' = pool /\ pc' = pc /\ job' = job /\ stack' = stack
    BY DEF explore_dpor, explore_dpor_parallel, bfs_level, worker_vars
  <1>3. Successors(frontier) \subseteq States
    BY SuccessorsTyped DEF TypeInv
  <1>4. /\ phase' \in {"init", "bfs", "search", "done", "merged"}
        /\ store' \subseteq States /\ frontier' \subseteq States
    <2>1. CASE explore_dpor
      BY <1>1, <2>1 DEF explore_dpor, TypeInv
    <2>2. CASE explore_dpor_parallel
      BY <1>1, <2>2 DEF explore_dpor_parallel, TypeInv
    <2>3. CASE bfs_level
      BY <1>3, <2>3 DEF bfs_level, TypeInv
    <2> QED
      BY <2>1, <2>2, <2>3
  <1>5. TypeInv'
    BY <1>1, <1>2, <1>4 DEF TypeInv
  <1> QED
    BY <1>1, <1>2, <1>5 DEF PlaceInv, Top

\* A step of a worker that leaves its stack alone.
LEMMA MoveTypes ==
    ASSUME TypeInv, PlaceInv, NEW w \in workers,
           \/ next_item(w) \/ take_frontier(w) \/ take_stolen(w) \/ nothing_left(w)
           \/ spin_found(w) \/ spin_failed(w) \/ leave(w) \/ execute_stolen_work(w)
           \/ already_stored(w)
    PROVE  TypeInv' /\ PlaceInv'
  <1> DEFINE places == {"loop", "take", "spin", "leave", "done", "explore", "steal"}
  <1>1. /\ call' = call /\ workers' = workers /\ phase' = phase /\ stack' = stack
        /\ pc[w] \in places
    BY DEF next_item, take_frontier, take_stolen, nothing_left, spin_found, spin_failed,
           leave, execute_stolen_work, already_stored, workers
  <1>2. /\ frontier' \subseteq States /\ pool' \subseteq Works
    BY DEF TypeInv, next_item, take_frontier, take_stolen, nothing_left, spin_found,
           spin_failed, leave, execute_stolen_work, already_stored
  <1>3. ASSUME pc[w] = "steal"
        PROVE  Succ(job[w][1], job[w][2]) \in States
    <2>1. job[w] \in Works
      BY <1>3 DEF PlaceInv
    <2> QED
      BY <2>1, SuccTyped DEF Works
  <1>4. store' \subseteq States
    BY <1>3 DEF TypeInv, next_item, take_frontier, take_stolen, nothing_left, spin_found,
           spin_failed, leave, execute_stolen_work, already_stored
  <1>5. \E place \in places : pc' = [pc EXCEPT ![w] = place]
    BY DEF next_item, take_frontier, take_stolen, nothing_left, spin_found, spin_failed,
           leave, execute_stolen_work, already_stored, Goto
  <1>6. \/ job' = job /\ pc'[w] \notin {"explore", "steal"}
        \/ \E x \in Works : job' = [job EXCEPT ![w] = x] /\ pc'[w] = "steal"
        \/ \E s \in States : job' = [job EXCEPT ![w] = <<s>>] /\ pc'[w] = "explore"
    BY <1>3 DEF TypeInv, next_item, take_frontier, take_stolen, nothing_left, spin_found,
           spin_failed, leave, execute_stolen_work, already_stored, Goto
  <1>7. job' \in [workers -> Jobs]
    BY <1>6 DEF TypeInv, Jobs
  <1>8. TypeInv'
    BY <1>1, <1>2, <1>4, <1>5, <1>7 DEF TypeInv
  <1>9. \A v \in workers : v # w => pc'[v] = pc[v] /\ job'[v] = job[v]
    BY <1>5, <1>6 DEF TypeInv
  <1>10. pc'[w] \in places
    BY <1>5 DEF TypeInv
  <1>11. /\ pc'[w] = "explore" => job'[w] \in {<<s>> : s \in States}
         /\ pc'[w] = "steal" => job'[w] \in Works
    BY <1>6 DEF TypeInv
  <1> QED
    BY <1>1, <1>8, <1>9, <1>10, <1>11 DEF PlaceInv, Top

\* What choosing a transition does to the top frame and the pool.
LEMMA ChooseStep ==
    ASSUME TypeInv, PlaceInv, NEW w \in workers, choose(w)
    PROVE  \E i \in DOMAIN Enabled[Top(w).state] \ Top(w).done : \E g \in Frames :
             \E donated \in SUBSET (DOMAIN Enabled[Top(w).state] \ (Top(w).done \cup {i})) :
                /\ g.state = Top(w).state /\ g.chosen = i
                /\ g.done = Top(w).done \cup {i} \cup donated
                /\ pool' = pool \cup {<<Top(w).state, j>> : j \in donated}
                /\ stack' = [stack EXCEPT ![w] = Append(Below(w), g)]
  <1>1. Len(stack[w]) > 0
    BY DEF choose, PlaceInv
  <1>2. Top(w) \in Frames
    BY <1>1, TopTyped
  <1>3. PICK i \in Remaining(Top(w)) :
          LET f == Choose(Top(w), i)
              donated == IF Parallel /\ idle > 0 THEN Remaining(f) ELSE {}
          IN  /\ pool' = pool \cup {<<f.state, j>> : j \in donated}
              /\ stack' = [stack EXCEPT ![w] =
                             Append(Below(w), [f EXCEPT !.done = f.done \cup donated])]
    BY DEF choose
  <1> DEFINE f == Choose(Top(w), i)
  <1> DEFINE donated == IF Parallel /\ idle > 0 THEN Remaining(f) ELSE {}
  <1> DEFINE g == [f EXCEPT !.done = f.done \cup donated]
  <1>4. /\ f \in Frames /\ f.state = Top(w).state /\ f.chosen = i
        /\ f.done = Top(w).done \cup {i}
        /\ i \in DOMAIN Enabled[Top(w).state] \ Top(w).done
        /\ Remaining(f) \subseteq DOMAIN Enabled[Top(w).state] \ (Top(w).done \cup {i})
    BY <1>2, ChooseTyped
  <1>5. /\ donated \in SUBSET (DOMAIN Enabled[Top(w).state] \ (Top(w).done \cup {i}))
        /\ donated \subseteq Indices
    BY <1>2, <1>4 DEF Frames, Indices
  <1>6. /\ g \in Frames /\ g.state = f.state /\ g.chosen = f.chosen
        /\ g.done = f.done \cup donated
    <2> HIDE DEF f, donated
    <2> QED
      BY <1>4, <1>5 DEF Frames
  <1>7. /\ pool' = pool \cup {<<f.state, j>> : j \in donated}
        /\ stack' = [stack EXCEPT ![w] = Append(Below(w), g)]
    BY <1>3
  <1> HIDE DEF f, donated, g
  <1>8. /\ g \in Frames /\ g.state = Top(w).state /\ g.chosen = i
        /\ g.done = Top(w).done \cup {i} \cup donated
        /\ pool' = pool \cup {<<Top(w).state, j>> : j \in donated}
    BY <1>4, <1>6, <1>7
  <1>9. \E D \in SUBSET (DOMAIN Enabled[Top(w).state] \ (Top(w).done \cup {i})) :
           /\ g.state = Top(w).state /\ g.chosen = i
           /\ g.done = Top(w).done \cup {i} \cup D
           /\ pool' = pool \cup {<<Top(w).state, j>> : j \in D}
           /\ stack' = [stack EXCEPT ![w] = Append(Below(w), g)]
    BY <1>5, <1>7, <1>8
  <1> QED
    BY <1>4, <1>8, <1>9

\* A step of a worker that changes its stack.
LEMMA StackTypes ==
    ASSUME TypeInv, PlaceInv, NEW w \in workers,
           explore_dpor_from_state(w) \/ give_up(w) \/ choose(w) \/ pop(w) \/ fire(w)
    PROVE  TypeInv' /\ PlaceInv'
  <1>1. /\ call' = call /\ workers' = workers /\ phase' = phase /\ job' = job
        /\ frontier' = frontier
    BY DEF explore_dpor_from_state, give_up, choose, pop, fire, workers
  <1>2. \A s \in States : Frame(s, {}, 0) \in Frames /\ Frame(s, {}, 0).done = {}
    BY DEF Frame, Frames
  <1>3. /\ store' \subseteq States /\ pool' \subseteq Works
        /\ \E p \in {"loop", "choose", "fire"} : pc' = [pc EXCEPT ![w] = p]
        /\ stack' \in [workers -> Seq(Frames)]
        /\ \A v \in workers : v # w => stack'[v] = stack[v]
        /\ pc'[w] \in {"choose", "fire"} <=> Len(stack'[w]) > 0
        /\ pc'[w] = "fire" =>
              stack'[w][Len(stack'[w])].chosen \in DOMAIN Enabled[stack'[w][Len(stack'[w])].state]
    <2>1. CASE explore_dpor_from_state(w)
      <3>1. PICK s \in States : job[w] = <<s>>
        BY <2>1 DEF explore_dpor_from_state, PlaceInv
      <3>2. job[w][1] = s
        BY <3>1
      <3>3. store' \subseteq States /\ pool' = pool
        BY <2>1, <3>2 DEF explore_dpor_from_state, TypeInv
      <3>4. stack[w] = <<>>
        BY <2>1 DEF explore_dpor_from_state, PlaceInv, TypeInv
      <3>5. \/ /\ pc' = [pc EXCEPT ![w] = "loop"] /\ stack' = [stack EXCEPT ![w] = <<>>]
            \/ /\ pc' = [pc EXCEPT ![w] = "choose"]
               /\ stack' = [stack EXCEPT ![w] = <<Frame(s, {}, 0)>>]
        BY <2>1, <3>2, <3>4 DEF explore_dpor_from_state, Goto, TypeInv
      <3>6. <<Frame(s, {}, 0)>> \in Seq(Frames) /\ Len(<<Frame(s, {}, 0)>>) = 1
        BY <1>2
      <3>7. CASE pc' = [pc EXCEPT ![w] = "loop"] /\ stack' = [stack EXCEPT ![w] = <<>>]
        BY <3>3, <3>7 DEF TypeInv
      <3>8. CASE /\ pc' = [pc EXCEPT ![w] = "choose"]
                 /\ stack' = [stack EXCEPT ![w] = <<Frame(s, {}, 0)>>]
        <4>1. stack'[w] = <<Frame(s, {}, 0)>> /\ pc'[w] = "choose"
          BY <3>8 DEF TypeInv
        <4>2. Len(stack'[w]) > 0
          BY <3>6, <4>1
        <4> QED
          BY <3>3, <3>6, <3>8, <4>1, <4>2 DEF TypeInv
      <3> QED
        BY <3>5, <3>7, <3>8
    <2>2. CASE give_up(w)
      BY <2>2 DEF give_up, Goto, TypeInv
    <2>3. CASE choose(w)
      <3>1. PICK i \in DOMAIN Enabled[Top(w).state] \ Top(w).done : \E g \in Frames :
               \E donated \in SUBSET (DOMAIN Enabled[Top(w).state] \ (Top(w).done \cup {i})) :
                  /\ g.state = Top(w).state /\ g.chosen = i
                  /\ g.done = Top(w).done \cup {i} \cup donated
                  /\ pool' = pool \cup {<<Top(w).state, j>> : j \in donated}
                  /\ stack' = [stack EXCEPT ![w] = Append(Below(w), g)]
        BY <2>3, ChooseStep
      <3>2. PICK g \in Frames :
               \E donated \in SUBSET (DOMAIN Enabled[Top(w).state] \ (Top(w).done \cup {i})) :
                  /\ g.state = Top(w).state /\ g.chosen = i
                  /\ pool' = pool \cup {<<Top(w).state, j>> : j \in donated}
                  /\ stack' = [stack EXCEPT ![w] = Append(Below(w), g)]
        BY <3>1
      <3>3. /\ Len(stack[w]) > 0 /\ store' = store /\ pc' = [pc EXCEPT ![w] = "fire"]
        BY <2>3 DEF choose, PlaceInv, Goto
      <3>4. Top(w) \in Frames /\ Below(w) \in Seq(Frames)
        BY <3>3, TopTyped
      <3>5. pool' \subseteq Works
        BY <3>2, <3>4 DEF TypeInv, Works, Indices, Frames
      <3>6. /\ Append(Below(w), g) \in Seq(Frames)
            /\ Len(Append(Below(w), g)) > 0
            /\ Append(Below(w), g)[Len(Append(Below(w), g))] = g
        BY <3>4
      <3>7. stack' = [stack EXCEPT ![w] = Append(Below(w), g)]
        BY <3>2
      <3>8. stack'[w] = Append(Below(w), g) /\ pc'[w] = "fire"
        BY <3>3, <3>7 DEF TypeInv
      <3>9. stack'[w][Len(stack'[w])] = g /\ Len(stack'[w]) > 0
        BY <3>6, <3>8
      <3>10. stack' \in [workers -> Seq(Frames)] /\ \A v \in workers : v # w => stack'[v] = stack[v]
        BY <3>6, <3>7 DEF TypeInv
      <3> QED
        BY <3>2, <3>3, <3>5, <3>8, <3>9, <3>10 DEF TypeInv
    <2>4. CASE pop(w)
      <3>1. Len(stack[w]) > 0 /\ store' = store /\ pool' = pool
        BY <2>4 DEF pop, PlaceInv
      <3>2. Below(w) \in Seq(Frames) /\ Len(Below(w)) = Len(stack[w]) - 1
            /\ Len(stack[w]) \in Nat
        BY <3>1, TopTyped
      <3>3. stack' = [stack EXCEPT ![w] = Below(w)]
        BY <2>4 DEF pop
      <3>4. stack'[w] = Below(w)
        BY <3>3 DEF TypeInv
      <3>5. stack' \in [workers -> Seq(Frames)] /\ \A v \in workers : v # w => stack'[v] = stack[v]
        BY <3>2, <3>3 DEF TypeInv
      <3>6. CASE Len(stack[w]) = 1
        <4>1. pc' = [pc EXCEPT ![w] = "loop"]
          BY <2>4, <3>6 DEF pop, Goto
        <4>2. pc'[w] = "loop"
          BY <4>1 DEF TypeInv
        <4>3. Len(stack'[w]) = 0
          BY <3>2, <3>4, <3>6
        <4> QED
          BY <3>1, <3>5, <4>1, <4>2, <4>3 DEF TypeInv
      <3>7. CASE Len(stack[w]) # 1
        <4>1. pc' = [pc EXCEPT ![w] = "choose"]
          BY <2>4, <3>7 DEF pop, Goto
        <4>2. pc'[w] = "choose"
          BY <4>1 DEF TypeInv
        <4>3. Len(stack[w]) - 1 > 0
          <5>1. Len(stack[w]) \in Nat /\ Len(stack[w]) > 0 /\ Len(stack[w]) # 1
            BY <3>1, <3>2, <3>7
          <5>2. \A n \in Nat : n > 0 /\ n # 1 => n - 1 > 0
            OBVIOUS
          <5> QED
            BY <5>1, <5>2
        <4>4. Len(stack'[w]) > 0
          BY <3>2, <3>4, <4>3
        <4> QED
          BY <3>1, <3>5, <4>1, <4>2, <4>4 DEF TypeInv
      <3> QED
        BY <3>6, <3>7
    <2>5. CASE fire(w)
      <3> DEFINE s == Succ(Top(w).state, Top(w).chosen)
      <3>1. Len(stack[w]) > 0 /\ Top(w).chosen \in DOMAIN Enabled[Top(w).state]
        BY <2>5 DEF fire, PlaceInv
      <3>2. Top(w) \in Frames /\ stack[w] \in Seq(Frames)
        BY <3>1, TopTyped DEF TypeInv
      <3>3. s \in States
        BY <3>1, <3>2, SuccTyped DEF Frames
      <3>4. /\ Frame(s, Top(w).child_sleep, Top(w).depth + 1) \in Frames
        BY <3>2, <3>3 DEF Frame, Frames
      <3>5. store' \subseteq States /\ pool' = pool
        BY <2>5, <3>3 DEF fire, TypeInv
      <3>6. \/ pc' = [pc EXCEPT ![w] = "choose"] /\ stack' = stack
            \/ pc' = [pc EXCEPT ![w] = "loop"] /\ stack' = [stack EXCEPT ![w] = <<>>]
            \/ /\ pc' = [pc EXCEPT ![w] = "choose"]
               /\ stack' = [stack EXCEPT ![w] =
                     Append(stack[w], Frame(s, Top(w).child_sleep, Top(w).depth + 1))]
        BY <2>5 DEF fire, Goto, TypeInv
      <3> HIDE DEF s
      <3>7. CASE pc' = [pc EXCEPT ![w] = "choose"] /\ stack' = stack
        BY <3>1, <3>2, <3>5, <3>7 DEF TypeInv
      <3>8. CASE pc' = [pc EXCEPT ![w] = "loop"] /\ stack' = [stack EXCEPT ![w] = <<>>]
        BY <3>5, <3>8 DEF TypeInv
      <3>9. CASE /\ pc' = [pc EXCEPT ![w] = "choose"]
                 /\ stack' = [stack EXCEPT ![w] =
                       Append(stack[w], Frame(s, Top(w).child_sleep, Top(w).depth + 1))]
        <4>1. /\ Append(stack[w], Frame(s, Top(w).child_sleep, Top(w).depth + 1)) \in Seq(Frames)
              /\ Len(Append(stack[w], Frame(s, Top(w).child_sleep, Top(w).depth + 1))) > 0
          BY <3>1, <3>2, <3>4
        <4> QED
          BY <3>5, <3>9, <4>1 DEF TypeInv
      <3> QED
        BY <3>6, <3>7, <3>8, <3>9
    <2> QED
      BY <2>1, <2>2, <2>3, <2>4, <2>5
  <1>4. TypeInv'
    BY <1>1, <1>3 DEF TypeInv
  <1>5. \A v \in workers : v # w => pc'[v] = pc[v] /\ stack'[v] = stack[v]
    BY <1>3 DEF TypeInv
  <1>6. pc'[w] \notin {"explore", "steal"}
    BY <1>3 DEF TypeInv
  <1> QED
    BY <1>1, <1>3, <1>4, <1>5, <1>6 DEF PlaceInv, Top
-----------------------------------------------------------------------------
(***************************************************************************)
(* The first phase: levels are closed, and the workers start with what the *)
(* last level leads to.                                                    *)
(***************************************************************************)
\* The first phase keeps the invariant, and hands it to the workers.
LEMMA LevelStep ==
    ASSUME TypeInv, PlaceInv, StopInv, StartInv, LevelInv,
           explore_dpor \/ explore_dpor_parallel \/ bfs_level
    PROVE  StopInv' /\ StartInv' /\ LevelInv' /\ CoverInv' /\ MergedInv'
  <1>1. /\ call' = call /\ workers' = workers /\ initial' = initial
        /\ pool' = pool /\ pc' = pc /\ job' = job /\ stack' = stack /\ stop' = stop
        /\ reports \subseteq reports'
        /\ pool = {} /\ \A w \in workers : pc[w] = "loop"
    BY DEF explore_dpor, explore_dpor_parallel, bfs_level, worker_vars, workers, initial,
           Report, StartInv
  <1>2. StopInv'
    BY <1>1 DEF StopInv
  <1>3. CASE explore_dpor
    <2>1. /\ phase' = "search" /\ frontier' = initial /\ store' = {}
      BY <1>3 DEF explore_dpor, StartInv
    <2> QED
      BY <1>1, <1>2, <2>1 DEF StartInv, LevelInv, CoverInv, MergedInv, Found
  <1>4. CASE explore_dpor_parallel
    <2>1. \/ phase' = "bfs" /\ frontier' = initial /\ store' = initial
          \/ phase' = "done" /\ reports' # {}
      BY <1>4 DEF explore_dpor_parallel, Report
    <2>2. Successors({}) = {}
      BY DEF Successors
    <2> QED
      BY <1>1, <1>2, <2>1, <2>2 DEF StartInv, LevelInv, CoverInv, MergedInv
  <1>5. CASE bfs_level
    <2> DEFINE next == Successors(frontier)
    <2>1. phase = "bfs"
      BY <1>5 DEF bfs_level
    <2>2. \/ /\ phase' = IF next = {} THEN "done" ELSE "search"
             /\ frontier' = next /\ store' = store /\ reports' = reports
          \/ /\ phase' = "bfs" /\ frontier' = next /\ store' = store \cup next
             /\ reports' = reports
          \/ phase' = "done" /\ reports' # {}
      BY <1>5 DEF bfs_level, Report
    <2>3. ASSUME reports = {}
          PROVE  /\ initial \subseteq store
                 /\ \A s \in store : \A i \in DOMAIN Enabled[s] :
                       Succ(s, i) \in store \cup next
      BY <2>1, <2>3 DEF LevelInv, Successors
    <2> HIDE DEF next
    <2>4. CASE /\ phase' = IF next = {} THEN "done" ELSE "search"
               /\ frontier' = next /\ store' = store /\ reports' = reports
      <3>1. StartInv'
        BY <2>4 DEF StartInv
      <3>2. LevelInv'
        BY <1>1, <2>3, <2>4 DEF LevelInv, Successors
      <3>3. MergedInv'
        BY <2>4 DEF MergedInv
      <3>4. CoverInv'
        <4> SUFFICES ASSUME phase' = "search", Open' PROVE CoverInv'
          BY DEF CoverInv
        <4>1. reports = {}
          BY <2>4 DEF Open
        <4>2. \A t \in store \cup next : Found(t)'
          BY <2>4 DEF Found
        <4>3. \A t \in initial' : Found(t)'
          BY <1>1, <2>3, <4>1, <4>2
        <4>4. \A s \in store' : \A i \in DOMAIN Enabled[s] : Covered(s, i)'
          BY <2>3, <2>4, <4>1, <4>2 DEF Covered, Succ
        <4> QED
          BY <1>1, <4>3, <4>4 DEF CoverInv
      <3> QED
        BY <1>2, <3>1, <3>2, <3>3, <3>4
    <2>5. CASE /\ phase' = "bfs" /\ frontier' = next /\ store' = store \cup next
               /\ reports' = reports
      BY <1>1, <1>2, <2>3, <2>5 DEF StartInv, LevelInv, CoverInv, MergedInv, Successors
    <2>6. CASE phase' = "done" /\ reports' # {}
      BY <1>1, <1>2, <2>6 DEF StartInv, LevelInv, CoverInv, MergedInv
    <2> QED
      BY <2>2, <2>4, <2>5, <2>6
  <1> QED
    BY <1>3, <1>4, <1>5
-----------------------------------------------------------------------------
(***************************************************************************)
(* The workers: every successor of a stored state stays covered.           *)
(***************************************************************************)
\* A step of worker w in a search that is not cut short: what it has to keep.
CoverKept ==
    /\ \A t \in States : Found(t) => Found(t)'
    /\ \A s \in States : \A i \in DOMAIN Enabled[s] : Handed(s, i) => Covered(s, i)'
    /\ \A s \in States : \A i \in DOMAIN Enabled[s] : OnStack(s, i) => Covered(s, i)'
    /\ \A s \in store' \ (store \cup stolen' \cup cut') :
          \A i \in DOMAIN Enabled[s] : Covered(s, i)'
    /\ (\E w \in workers : pc'[w] \in {"spin", "leave", "done"}) => frontier' = {}
    /\ pool' # {} => \E w \in workers : pc'[w] \notin {"leave", "done"}

\* Those parts make up the invariant after the step.
LEMMA CoverStep ==
    ASSUME TypeInv, TypeInv', CoverInv, phase = "search", call' = call, Open,
           stolen \subseteq stolen', cut \subseteq cut', CoverKept
    PROVE  CoverInv'
  <1>1. initial' = initial /\ workers' = workers /\ initial \subseteq States
    BY DporAssumption DEF initial, workers, TypeInv
  <1>2. \A t \in initial : Found(t)'
    BY <1>1 DEF CoverInv, CoverKept
  <1>3. ASSUME NEW s \in store' \ (stolen' \cup cut'), NEW i \in DOMAIN Enabled[s]
        PROVE  Covered(s, i)'
    <2>1. CASE s \notin store
      BY <2>1 DEF CoverKept
    <2>2. CASE s \in store
      <3>1. Covered(s, i) /\ s \in States /\ Succ(s, i) \in States
        BY <2>2, SuccTyped DEF CoverInv, TypeInv
      <3>2. Found(Succ(s, i)) => Found(Succ(s, i))'
        BY <3>1 DEF CoverKept, Succ
      <3> QED
        BY <3>1, <3>2 DEF CoverKept, Covered
    <2> QED
      BY <2>1, <2>2
  <1> QED
    BY <1>1, <1>2, <1>3 DEF CoverInv, CoverKept

\* Steps that only move a worker between places where it holds no work.
LEMMA QuietKept ==
    ASSUME TypeInv, CoverInv, phase = "search", Open, ~stop, NEW w \in workers,
           next_item(w) \/ nothing_left(w) \/ spin_failed(w) \/ leave(w)
    PROVE  CoverKept
  <1> DEFINE idlers == {"loop", "take", "spin", "leave", "done"}
  <1>1. /\ store' = store /\ frontier' = frontier /\ pool' = pool /\ job' = job
        /\ stack' = stack /\ workers' = workers
        /\ pc[w] \in idlers /\ \E p \in idlers : pc' = [pc EXCEPT ![w] = p]
    BY DEF next_item, nothing_left, spin_failed, leave, workers, Goto
  <1>2. pc'[w] \in idlers /\ \A v \in workers : v # w => pc'[v] = pc[v]
    BY <1>1 DEF TypeInv
  <1>3. \A t \in States : Found(t) => Found(t)'
    BY <1>1, <1>2 DEF Found
  <1>4. \A s \in States : \A i \in DOMAIN Enabled[s] : Handed(s, i) => Handed(s, i)'
    BY <1>1, <1>2 DEF Handed
  <1>5. \A s \in States : \A i \in DOMAIN Enabled[s] : OnStack(s, i) => OnStack(s, i)'
    BY <1>1, <1>2 DEF OnStack
  <1>6. /\ (\E v \in workers : pc[v] \in {"spin", "leave", "done"}) => frontier = {}
        /\ pool # {} => \E v \in workers : pc[v] \notin {"leave", "done"}
    BY DEF CoverInv
  <1>7. \/ pc'[w] = "take"
        \/ pool = {} /\ frontier = {}
        \/ pc[w] = "leave"
    BY <1>6 DEF next_item, nothing_left, spin_failed, leave, Goto, TypeInv, Open
  <1> QED
    BY <1>1, <1>2, <1>3, <1>4, <1>5, <1>6, <1>7 DEF CoverKept, Covered

\* Taking a state from the frontier.
LEMMA TakeFrontierKept ==
    ASSUME TypeInv, CoverInv, phase = "search", Open, NEW w \in workers, take_frontier(w)
    PROVE  CoverKept
  <1>1. /\ store' = store /\ pool' = pool /\ stack' = stack /\ workers' = workers
        /\ pc[w] = "take" /\ pc' = [pc EXCEPT ![w] = "explore"]
    BY DEF take_frontier, workers, Goto
  <1>2. PICK s \in frontier : frontier' = frontier \ {s} /\ job' = [job EXCEPT ![w] = <<s>>]
    BY DEF take_frontier
  <1>3. /\ pc'[w] = "explore" /\ job'[w] = <<s>>
        /\ \A v \in workers : v # w => pc'[v] = pc[v] /\ job'[v] = job[v]
    BY <1>1, <1>2 DEF TypeInv
  <1>4. \A t \in States : Found(t) => Found(t)'
    BY <1>1, <1>2, <1>3 DEF Found
  <1>5. \A q \in States : \A i \in DOMAIN Enabled[q] : Handed(q, i) => Handed(q, i)'
    BY <1>1, <1>3 DEF Handed
  <1>6. \A q \in States : \A i \in DOMAIN Enabled[q] : OnStack(q, i) => OnStack(q, i)'
    BY <1>1, <1>3 DEF OnStack
  <1>7. (\E v \in workers : pc[v] \in {"spin", "leave", "done"}) => frontier = {}
    BY DEF CoverInv
  <1> QED
    BY <1>1, <1>2, <1>3, <1>4, <1>5, <1>6, <1>7 DEF CoverKept, Covered

\* Taking a transition from the pool, at once or after spinning.
LEMMA TakeStolenKept ==
    ASSUME TypeInv, CoverInv, phase = "search", Open, NEW w \in workers,
           take_stolen(w) \/ spin_found(w)
    PROVE  CoverKept
  <1>1. /\ store' = store /\ frontier' = frontier /\ stack' = stack /\ workers' = workers
        /\ pc[w] \in {"take", "spin"} /\ pc' = [pc EXCEPT ![w] = "steal"]
    BY DEF take_stolen, spin_found, workers, Goto
  <1>2. PICK x \in pool : pool' = pool \ {x} /\ job' = [job EXCEPT ![w] = x]
    BY DEF take_stolen, spin_found
  <1>3. /\ pc'[w] = "steal" /\ job'[w] = x
        /\ \A v \in workers : v # w => pc'[v] = pc[v] /\ job'[v] = job[v]
    BY <1>1, <1>2 DEF TypeInv
  <1>4. \A t \in States : Found(t) => Found(t)'
    BY <1>1, <1>3 DEF Found
  <1>5. \A q \in States : \A i \in DOMAIN Enabled[q] : Handed(q, i) => Handed(q, i)'
    BY <1>1, <1>2, <1>3 DEF Handed
  <1>6. \A q \in States : \A i \in DOMAIN Enabled[q] : OnStack(q, i) => OnStack(q, i)'
    BY <1>1, <1>3 DEF OnStack
  <1>7. (\E v \in workers : pc[v] \in {"spin", "leave", "done"}) => frontier = {}
    BY DEF CoverInv
  <1> QED
    BY <1>1, <1>3, <1>4, <1>5, <1>6, <1>7 DEF CoverKept, Covered

\* A state stored for a thief is a successor found, and is not itself covered.
LEMMA StolenKept ==
    ASSUME TypeInv, PlaceInv, CoverInv, phase = "search", Open, NEW w \in workers,
           execute_stolen_work(w)
    PROVE  CoverKept
  <1> DEFINE s == Succ(job[w][1], job[w][2])
  <1>1. /\ frontier' = frontier /\ pool' = pool /\ stack' = stack /\ workers' = workers
        /\ pc[w] = "steal"
    BY DEF execute_stolen_work, workers
  <1>2. /\ s \in store' /\ store \subseteq store'
        /\ store' \ store \subseteq stolen'
        /\ \E p \in {"loop", "explore"} : pc' = [pc EXCEPT ![w] = p]
        /\ \E j \in {job[w], <<s>>} : job' = [job EXCEPT ![w] = j]
    BY DEF execute_stolen_work, Goto, TypeInv
  <1> HIDE DEF s
  <1>3. /\ pc'[w] \in {"loop", "explore"}
        /\ \A v \in workers : v # w => pc'[v] = pc[v] /\ job'[v] = job[v]
    BY <1>2 DEF TypeInv
  <1>4. \A t \in States : Found(t) => Found(t)'
    BY <1>1, <1>2, <1>3 DEF Found
  <1>5. ASSUME NEW q \in States, NEW i \in DOMAIN Enabled[q], Handed(q, i)
        PROVE  Covered(q, i)'
    <2>1. CASE job[w] = <<q, i>>
      <3>1. s = Succ(q, i)
        BY <2>1 DEF s
      <3>2. Found(Succ(q, i))'
        BY <1>2, <3>1 DEF Found, Succ
      <3> QED
        BY <3>2 DEF Covered
    <2>2. CASE job[w] # <<q, i>>
      <3>1. Handed(q, i)'
        BY <1>1, <1>3, <1>5, <2>2 DEF Handed
      <3> QED
        BY <3>1 DEF Covered
    <2> QED
      BY <2>1, <2>2
  <1>6. \A q \in States : \A i \in DOMAIN Enabled[q] : OnStack(q, i) => OnStack(q, i)'
    BY <1>1, <1>3 DEF OnStack
  <1>7. (\E v \in workers : pc[v] \in {"spin", "leave", "done"}) => frontier = {}
    BY DEF CoverInv
  <1> QED
    BY <1>1, <1>2, <1>3, <1>4, <1>5, <1>6, <1>7 DEF CoverKept, Covered

\* A taken state that somebody has stored meanwhile.
LEMMA AlreadyStoredKept ==
    ASSUME TypeInv, PlaceInv, CoverInv, phase = "search", Open, NEW w \in workers,
           already_stored(w)
    PROVE  CoverKept
  <1>1. /\ store' = store /\ frontier' = frontier /\ pool' = pool /\ stack' = stack
        /\ job' = job /\ workers' = workers
        /\ pc[w] = "explore" /\ pc' = [pc EXCEPT ![w] = "loop"] /\ job[w][1] \in store
    BY DEF already_stored, workers, Goto
  <1>2. pc'[w] = "loop" /\ \A v \in workers : v # w => pc'[v] = pc[v]
    BY <1>1 DEF TypeInv
  <1>3. \A t \in States : Found(t) => Found(t)'
    BY <1>1, <1>2 DEF Found
  <1>4. \A q \in States : \A i \in DOMAIN Enabled[q] : Handed(q, i) => Handed(q, i)'
    BY <1>1, <1>2 DEF Handed
  <1>5. \A q \in States : \A i \in DOMAIN Enabled[q] : OnStack(q, i) => OnStack(q, i)'
    BY <1>1, <1>2 DEF OnStack
  <1>6. (\E v \in workers : pc[v] \in {"spin", "leave", "done"}) => frontier = {}
    BY DEF CoverInv
  <1> QED
    BY <1>1, <1>2, <1>3, <1>4, <1>5, <1>6 DEF CoverKept, Covered

\* Starting to search below a state: its frame holds all its transitions.
LEMMA ExploreKept ==
    ASSUME TypeInv, PlaceInv, CoverInv, phase = "search", Open, Open', NEW w \in workers,
           explore_dpor_from_state(w)
    PROVE  CoverKept
  <1>1. PICK s \in States : job[w] = <<s>>
    BY DEF explore_dpor_from_state, PlaceInv
  <1>2. job[w][1] = s
    BY <1>1
  <1>3. /\ frontier' = frontier /\ pool' = pool /\ job' = job /\ workers' = workers
        /\ store' = store \cup {s} /\ pc[w] = "explore"
        /\ pc' = [pc EXCEPT ![w] = "choose"]
        /\ stack' = [stack EXCEPT ![w] = <<Frame(s, {}, 0)>>]
    BY <1>2 DEF explore_dpor_from_state, workers, Goto, Report, Open
  <1>4. /\ pc'[w] = "choose" /\ stack'[w] = <<Frame(s, {}, 0)>>
        /\ \A v \in workers : v # w => pc'[v] = pc[v] /\ stack'[v] = stack[v]
    BY <1>3 DEF TypeInv
  <1>5. Len(stack[w]) = 0
    <2>1. ~(Len(stack[w]) > 0)
      BY <1>3 DEF PlaceInv
    <2>2. stack[w] \in Seq(Frames)
      BY DEF TypeInv
    <2>3. Len(stack[w]) \in Nat
      BY <2>2
    <2>4. \A n \in Nat : ~(n > 0) => n = 0
      OBVIOUS
    <2> QED
      BY <2>1, <2>3, <2>4
  <1>6. \A t \in States : Found(t) => Found(t)'
    BY <1>1, <1>3, <1>4 DEF Found
  <1>7. \A q \in States : \A i \in DOMAIN Enabled[q] : Handed(q, i) => Handed(q, i)'
    BY <1>3, <1>4 DEF Handed
  <1>8. \A q \in States : \A i \in DOMAIN Enabled[q] : OnStack(q, i) => OnStack(q, i)'
    BY <1>3, <1>4, <1>5 DEF OnStack
  <1>9. \A i \in DOMAIN Enabled[s] : OnStack(s, i)'
    <2>1. Len(stack'[w]) = 1 /\ stack'[w][1] = Frame(s, {}, 0)
      BY <1>4
    <2>2. stack'[w][1].state = s /\ stack'[w][1].done = {} /\ 1 \in 1 .. Len(stack'[w])
      BY <2>1 DEF Frame
    <2> QED
      BY <1>3, <2>2 DEF OnStack
  <1>10. (\E v \in workers : pc[v] \in {"spin", "leave", "done"}) => frontier = {}
    BY DEF CoverInv
  <1> QED
    BY <1>3, <1>4, <1>6, <1>7, <1>8, <1>9, <1>10 DEF CoverKept, Covered

\* Choosing a transition and donating others: what leaves the frame is fired or in the
\* pool.
LEMMA ChooseKept ==
    ASSUME TypeInv, PlaceInv, CoverInv, phase = "search", Open, ~config.use_sleep_sets,
           NEW w \in workers, choose(w)
    PROVE  CoverKept
  <1>1. PICK i \in DOMAIN Enabled[Top(w).state] \ Top(w).done : \E g \in Frames :
           \E donated \in SUBSET (DOMAIN Enabled[Top(w).state] \ (Top(w).done \cup {i})) :
              /\ g.state = Top(w).state /\ g.chosen = i
              /\ g.done = Top(w).done \cup {i} \cup donated
              /\ pool' = pool \cup {<<Top(w).state, j>> : j \in donated}
              /\ stack' = [stack EXCEPT ![w] = Append(Below(w), g)]
    BY ChooseStep
  <1>2. PICK g \in Frames :
           \E donated \in SUBSET (DOMAIN Enabled[Top(w).state] \ (Top(w).done \cup {i})) :
              /\ g.state = Top(w).state /\ g.chosen = i
              /\ g.done = Top(w).done \cup {i} \cup donated
              /\ pool' = pool \cup {<<Top(w).state, j>> : j \in donated}
              /\ stack' = [stack EXCEPT ![w] = Append(Below(w), g)]
    BY <1>1
  <1>3. /\ g.state = Top(w).state /\ g.chosen = i
        /\ pool \subseteq pool'
        /\ \A j \in g.done \ Top(w).done : j = i \/ <<Top(w).state, j>> \in pool'
        /\ stack' = [stack EXCEPT ![w] = Append(Below(w), g)]
    BY <1>2
  <1>4. /\ store' = store /\ frontier' = frontier /\ job' = job /\ workers' = workers
        /\ pc[w] = "choose" /\ pc' = [pc EXCEPT ![w] = "fire"] /\ Len(stack[w]) > 0
    BY DEF choose, workers, Goto, PlaceInv
  <1>5. /\ pc'[w] = "fire" /\ stack'[w] = Append(Below(w), g)
        /\ \A v \in workers : v # w => pc'[v] = pc[v] /\ stack'[v] = stack[v]
    BY <1>3, <1>4 DEF TypeInv
  <1>6. /\ Len(stack[w]) \in Nat /\ Len(stack[w]) \in 1 .. Len(stack[w])
        /\ Below(w) \in Seq(Frames) /\ Len(Below(w)) = Len(stack[w]) - 1
        /\ \A d \in 1 .. Len(stack[w]) - 1 : Below(w)[d] = stack[w][d]
    BY <1>4, TopTyped
  <1>7. /\ Len(stack'[w]) = Len(stack[w]) /\ stack'[w][Len(stack[w])] = g
        /\ \A d \in 1 .. Len(stack[w]) - 1 : stack'[w][d] = stack[w][d]
    BY <1>5, <1>6
  <1>8. \A t \in States : Found(t) => Found(t)'
    BY <1>4, <1>5 DEF Found
  <1>9. \A q \in States : \A j \in DOMAIN Enabled[q] : Handed(q, j) => Handed(q, j)'
    BY <1>3, <1>4, <1>5 DEF Handed
  <1>10. ASSUME NEW q \in States, NEW j \in DOMAIN Enabled[q], OnStack(q, j)
         PROVE  Handed(q, j)' \/ OnStack(q, j)'
    <2>1. PICK v \in workers : \E d \in 1 .. Len(stack[v]) :
             /\ stack[v][d].state = q
             /\ \/ j \notin stack[v][d].done
                \/ pc[v] = "fire" /\ d = Len(stack[v]) /\ stack[v][d].chosen = j
      BY <1>10 DEF OnStack
    <2>2. CASE v # w
      BY <1>4, <1>5, <2>1, <2>2 DEF OnStack
    <2>3. CASE v = w
      <3>1. PICK d \in 1 .. Len(stack[w]) : stack[w][d].state = q /\ j \notin stack[w][d].done
        BY <1>4, <2>1, <2>3
      <3>2. CASE d # Len(stack[w])
        <4>1. d \in 1 .. Len(stack[w]) - 1
          BY <1>6, <3>1, <3>2
        <4>2. stack'[w][d] = stack[w][d] /\ d \in 1 .. Len(stack'[w])
          BY <1>7, <4>1
        <4> QED
          BY <1>4, <3>1, <4>2 DEF OnStack
      <3>3. CASE d = Len(stack[w])
        <4>1. Top(w).state = q /\ j \notin Top(w).done
          BY <3>1, <3>3 DEF Top
        <4>2. CASE j \in g.done /\ j # i
          BY <1>3, <4>1, <4>2 DEF Handed
        <4>3. CASE j = i \/ j \notin g.done
          BY <1>3, <1>4, <1>5, <1>6, <1>7, <4>1, <4>3 DEF OnStack
        <4> QED
          BY <4>2, <4>3
      <3> QED
        BY <3>2, <3>3
    <2> QED
      BY <2>2, <2>3
  <1>11. (\E v \in workers : pc[v] \in {"spin", "leave", "done"}) => frontier = {}
    BY DEF CoverInv
  <1> QED
    BY <1>4, <1>5, <1>8, <1>9, <1>10, <1>11 DEF CoverKept, Covered

\* A frame that is popped has nothing left.
LEMMA PopKept ==
    ASSUME TypeInv, PlaceInv, CoverInv, phase = "search", Open, ~config.use_sleep_sets,
           NEW w \in workers, pop(w)
    PROVE  CoverKept
  <1>1. /\ store' = store /\ frontier' = frontier /\ pool' = pool /\ job' = job
        /\ workers' = workers /\ pc[w] = "choose" /\ Len(stack[w]) > 0
        /\ \E p \in {"loop", "choose"} : pc' = [pc EXCEPT ![w] = p]
        /\ stack' = [stack EXCEPT ![w] = Below(w)]
        /\ Remaining(Top(w)) = {}
    BY DEF pop, workers, Goto, PlaceInv
  <1>2. DOMAIN Enabled[Top(w).state] \subseteq Top(w).done
    BY <1>1 DEF Remaining
  <1>3. /\ pc'[w] \in {"loop", "choose"} /\ stack'[w] = Below(w)
        /\ \A v \in workers : v # w => pc'[v] = pc[v] /\ stack'[v] = stack[v]
    BY <1>1 DEF TypeInv
  <1>4. /\ Len(stack[w]) \in Nat
        /\ Below(w) \in Seq(Frames) /\ Len(Below(w)) = Len(stack[w]) - 1
        /\ \A d \in 1 .. Len(stack[w]) - 1 : Below(w)[d] = stack[w][d]
    BY <1>1, TopTyped
  <1>5. \A t \in States : Found(t) => Found(t)'
    BY <1>1, <1>3 DEF Found
  <1>6. \A q \in States : \A j \in DOMAIN Enabled[q] : Handed(q, j) => Handed(q, j)'
    BY <1>1, <1>3 DEF Handed
  <1>7. ASSUME NEW q \in States, NEW j \in DOMAIN Enabled[q], OnStack(q, j)
        PROVE  OnStack(q, j)'
    <2>1. PICK v \in workers : \E d \in 1 .. Len(stack[v]) :
             /\ stack[v][d].state = q
             /\ \/ j \notin stack[v][d].done
                \/ pc[v] = "fire" /\ d = Len(stack[v]) /\ stack[v][d].chosen = j
      BY <1>7 DEF OnStack
    <2>2. CASE v # w
      BY <1>1, <1>3, <2>1, <2>2 DEF OnStack
    <2>3. CASE v = w
      <3>1. PICK d \in 1 .. Len(stack[w]) : stack[w][d].state = q /\ j \notin stack[w][d].done
        BY <1>1, <2>1, <2>3
      <3>2. d # Len(stack[w])
        BY <1>2, <3>1 DEF Top
      <3>3. d \in 1 .. Len(stack[w]) - 1
        BY <1>4, <3>1, <3>2
      <3>4. stack'[w][d] = stack[w][d] /\ d \in 1 .. Len(stack'[w])
        BY <1>3, <1>4, <3>3
      <3> QED
        BY <1>1, <3>1, <3>4 DEF OnStack
    <2> QED
      BY <2>2, <2>3
  <1>8. (\E v \in workers : pc[v] \in {"spin", "leave", "done"}) => frontier = {}
    BY DEF CoverInv
  <1> QED
    BY <1>1, <1>3, <1>5, <1>6, <1>7, <1>8 DEF CoverKept, Covered

\* Firing stores the successor; a new one gets a frame, or is at max_depth.
LEMMA FireKept ==
    ASSUME TypeInv, PlaceInv, CoverInv, phase = "search", Open, Open', NEW w \in workers,
           fire(w)
    PROVE  CoverKept
  <1>0. PICK s, g : /\ s = Succ(Top(w).state, Top(w).chosen)
                    /\ g = Frame(s, Top(w).child_sleep, Top(w).depth + 1)
    OBVIOUS
  <1>1. /\ frontier' = frontier /\ pool' = pool /\ job' = job /\ workers' = workers
        /\ store' = store \cup {s} /\ pc[w] = "fire"
        /\ pc' = [pc EXCEPT ![w] = "choose"] /\ Len(stack[w]) > 0
    BY <1>0 DEF fire, workers, Goto, Report, Open, PlaceInv
  <1>2. \/ stack' = stack /\ (s \in store \/ s \in cut')
        \/ stack' = [stack EXCEPT ![w] = Append(stack[w], g)]
    BY <1>0 DEF fire, Report, Open, TypeInv
  <1>3. g.state = s /\ g.done = {}
    BY <1>0 DEF Frame
  <1>4. pc'[w] = "choose" /\ \A v \in workers : v # w => pc'[v] = pc[v]
    BY <1>1 DEF TypeInv
  <1>5. /\ \A v \in workers : v # w => stack'[v] = stack[v]
        /\ \A d \in 1 .. Len(stack[w]) : d \in 1 .. Len(stack'[w]) /\ stack'[w][d] = stack[w][d]
    <2>1. CASE stack' = stack
      BY <2>1
    <2>2. CASE stack' = [stack EXCEPT ![w] = Append(stack[w], g)]
      <3>1. stack[w] \in Seq(Frames) /\ stack'[w] = Append(stack[w], g)
        BY <2>2 DEF TypeInv
      <3> QED
        BY <2>2, <3>1 DEF TypeInv
    <2> QED
      BY <1>2, <2>1, <2>2
  <1>6. \A t \in States : Found(t) => Found(t)'
    BY <1>1, <1>4 DEF Found
  <1>7. \A q \in States : \A j \in DOMAIN Enabled[q] : Handed(q, j) => Handed(q, j)'
    BY <1>1, <1>4 DEF Handed
  <1>8. ASSUME NEW q \in States, NEW j \in DOMAIN Enabled[q], OnStack(q, j)
        PROVE  Covered(q, j)'
    <2>1. PICK v \in workers : \E d \in 1 .. Len(stack[v]) :
             /\ stack[v][d].state = q
             /\ \/ j \notin stack[v][d].done
                \/ pc[v] = "fire" /\ d = Len(stack[v]) /\ stack[v][d].chosen = j
      BY <1>8 DEF OnStack
    <2>2. CASE v # w
      <3>1. OnStack(q, j)'
        BY <1>1, <1>4, <1>5, <2>1, <2>2 DEF OnStack
      <3> QED
        BY <3>1 DEF Covered
    <2>3. CASE v = w
      <3>1. PICK d \in 1 .. Len(stack[w]) :
               /\ stack[w][d].state = q
               /\ \/ j \notin stack[w][d].done
                  \/ d = Len(stack[w]) /\ stack[w][d].chosen = j
        BY <2>1, <2>3
      <3>2. CASE j \notin stack[w][d].done
        <4>1. OnStack(q, j)'
          BY <1>1, <1>5, <3>1, <3>2 DEF OnStack
        <4> QED
          BY <4>1 DEF Covered
      <3>3. CASE d = Len(stack[w]) /\ stack[w][d].chosen = j
        <4>1. s = Succ(q, j)
          BY <1>0, <3>1, <3>3 DEF Top
        <4>2. Found(Succ(q, j))'
          BY <1>1, <4>1 DEF Found, Succ
        <4> QED
          BY <4>2 DEF Covered
      <3> QED
        BY <3>1, <3>2, <3>3
    <2> QED
      BY <2>2, <2>3
  <1>9. ASSUME s \notin store, s \notin cut', NEW i \in DOMAIN Enabled[s]
        PROVE  OnStack(s, i)'
    <2>1. stack' = [stack EXCEPT ![w] = Append(stack[w], g)]
      BY <1>2, <1>9
    <2>2. stack[w] \in Seq(Frames) /\ stack'[w] = Append(stack[w], g)
      BY <2>1 DEF TypeInv
    <2>3. /\ Len(stack'[w]) = Len(stack[w]) + 1 /\ Len(stack[w]) \in Nat
          /\ stack'[w][Len(stack[w]) + 1] = g
      BY <2>2
    <2> DEFINE d == Len(stack[w]) + 1
    <2>4. d \in 1 .. Len(stack'[w])
      BY <2>3
    <2>5. stack'[w][d].state = s /\ stack'[w][d].done = {}
      BY <1>3, <2>3
    <2> HIDE DEF d
    <2>6. \E v \in workers : \E k \in 1 .. Len(stack'[v]) :
             stack'[v][k].state = s /\ i \notin stack'[v][k].done
      BY <2>4, <2>5
    <2> QED
      BY <1>1, <2>6 DEF OnStack
  <1>10. (\E v \in workers : pc[v] \in {"spin", "leave", "done"}) => frontier = {}
    BY DEF CoverInv
  <1>11. \A q \in store' \ (store \cup stolen' \cup cut') :
            \A i \in DOMAIN Enabled[q] : Covered(q, i)'
    BY <1>1, <1>9 DEF Covered
  <1> QED
    BY <1>1, <1>4, <1>6, <1>7, <1>8, <1>10, <1>11 DEF CoverKept, Covered
-----------------------------------------------------------------------------
(***************************************************************************)
(* The invariant holds of every state, and gives the property at the end.  *)
(***************************************************************************)
\* In a search that is not cut short, every step of a worker keeps what is covered.
LEMMA WorkerKept ==
    ASSUME TypeInv, PlaceInv, StopInv, CoverInv, Open, Open', ~config.use_sleep_sets,
           NEW w \in workers, Worker(w)
    PROVE  CoverKept
  <1>1. phase = "search" /\ ~stop
    BY DEF Worker, StopInv, Open
  <1>2. ~give_up(w)
    BY <1>1 DEF give_up, Open
  <1>3. CASE next_item(w) \/ nothing_left(w) \/ spin_failed(w) \/ leave(w)
    BY <1>1, <1>3, QuietKept
  <1>4. CASE take_frontier(w)
    BY <1>1, <1>4, TakeFrontierKept
  <1>5. CASE take_stolen(w) \/ spin_found(w)
    BY <1>1, <1>5, TakeStolenKept
  <1>6. CASE execute_stolen_work(w)
    BY <1>1, <1>6, StolenKept
  <1>7. CASE already_stored(w)
    BY <1>1, <1>7, AlreadyStoredKept
  <1>8. CASE explore_dpor_from_state(w)
    BY <1>1, <1>8, ExploreKept
  <1>9. CASE choose(w)
    BY <1>1, <1>9, ChooseKept
  <1>10. CASE pop(w)
    BY <1>1, <1>10, PopKept
  <1>11. CASE fire(w)
    BY <1>1, <1>11, FireKept
  <1> QED
    BY <1>2, <1>3, <1>4, <1>5, <1>6, <1>7, <1>8, <1>9, <1>10, <1>11 DEF Worker

\* What no step of a worker undoes.
LEMMA WorkerGrows ==
    ASSUME NEW w \in workers, Worker(w)
    PROVE  /\ phase = "search" /\ phase' = "search" /\ call' = call /\ violation' = violation
           /\ store \subseteq store' /\ reports \subseteq reports'
           /\ stolen \subseteq stolen' /\ cut \subseteq cut'
           /\ stop' = stop \/ reports' # {}
  <1>1. CASE \/ next_item(w) \/ take_frontier(w) \/ take_stolen(w) \/ nothing_left(w)
             \/ spin_found(w) \/ spin_failed(w) \/ leave(w) \/ already_stored(w)
             \/ give_up(w) \/ choose(w) \/ pop(w)
    BY <1>1 DEF Worker, next_item, take_frontier, take_stolen, nothing_left, spin_found,
                spin_failed, leave, already_stored, give_up, choose, pop
  <1>2. CASE execute_stolen_work(w)
    BY <1>2 DEF Worker, execute_stolen_work
  <1>3. CASE explore_dpor_from_state(w)
    BY <1>3 DEF Worker, explore_dpor_from_state, Report
  <1>4. CASE fire(w)
    BY <1>4 DEF Worker, fire, Report
  <1> QED
    BY <1>1, <1>2, <1>3, <1>4 DEF Worker

\* A step of a worker keeps the invariant.
LEMMA WorkerStep ==
    ASSUME TypeInv, PlaceInv, StopInv, StartInv, LevelInv, CoverInv,
           ~config.use_sleep_sets, NEW w \in workers, Worker(w)
    PROVE  /\ TypeInv' /\ PlaceInv'
           /\ StopInv' /\ StartInv' /\ LevelInv' /\ CoverInv' /\ MergedInv'
  <1>1. TypeInv' /\ PlaceInv'
    BY MoveTypes, StackTypes DEF Worker
  <1>2. /\ phase = "search" /\ phase' = "search" /\ call' = call
        /\ store \subseteq store' /\ reports \subseteq reports'
        /\ stolen \subseteq stolen' /\ cut \subseteq cut'
        /\ stop' = stop \/ reports' # {}
    BY WorkerGrows
  <1>3. StopInv' /\ StartInv' /\ LevelInv' /\ MergedInv'
    BY <1>2 DEF StopInv, StartInv, LevelInv, MergedInv
  <1>4. CoverInv'
    <2>1. CASE Open'
      <3>1. Open
        BY <1>1, <1>2, <2>1, OpenBefore DEF TypeInv
      <3>2. CoverKept
        BY <2>1, <3>1, WorkerKept
      <3> QED
        BY <1>1, <1>2, <3>1, <3>2, CoverStep
    <2>2. CASE ~Open'
      BY <2>2 DEF CoverInv
    <2> QED
      BY <2>1, <2>2
  <1> QED
    BY <1>1, <1>3, <1>4

\* A step that changes nothing.
LEMMA StutterStep ==
    ASSUME DporInv, UNCHANGED vars
    PROVE  DporInv'
  <1>1. /\ initial' = initial /\ workers' = workers /\ config' = config
        /\ call' = call /\ phase' = phase /\ frontier' = frontier /\ store' = store
        /\ pool' = pool /\ stop' = stop /\ pc' = pc /\ job' = job /\ stack' = stack
        /\ reports' = reports /\ violation' = violation /\ stolen' = stolen /\ cut' = cut
    BY DEF vars, initial, workers, config
  <1>2. TypeInv' /\ PlaceInv' /\ ResultInv'
    BY <1>1 DEF DporInv, TypeInv, PlaceInv, Top, ResultInv, Finished
  <1>3. CASE StopInv /\ StartInv /\ LevelInv /\ CoverInv /\ MergedInv
    <2>3. StopInv' /\ StartInv' /\ LevelInv'
      BY <1>1, <1>3 DEF StopInv, StartInv, LevelInv
    <2>4. \A t : Found(t)' = Found(t)
      BY <1>1 DEF Found
    <2>5. \A s, i : Handed(s, i)' = Handed(s, i)
      BY <1>1 DEF Handed
    <2>6. \A s, i : OnStack(s, i)' = OnStack(s, i)
      BY <1>1 DEF OnStack
    <2>7. \A s, i : Covered(s, i)' = Covered(s, i)
      BY <2>4, <2>5, <2>6 DEF Covered, Succ
    <2>8. Open' = Open
      BY <1>1 DEF Open, LimitReached
    <2>9. CoverInv'
      BY <1>1, <1>3, <2>4, <2>7, <2>8 DEF CoverInv
    <2>10. MergedInv'
      BY <1>1, <1>3, <2>8 DEF MergedInv, Closed, Successors, Succ
    <2> QED
      BY <1>2, <2>3, <2>9, <2>10 DEF DporInv
  <1> QED
    BY <1>1, <1>2, <1>3 DEF DporInv

\* When all workers have left, nothing is in a queue or on a stack: what is covered is
\* stored.
LEMMA LeftClosed ==
    ASSUME TypeInv, PlaceInv, CoverInv, Open,
           phase = "search", \A w \in workers : pc[w] = "done"
    PROVE  Closed
  <1>1. workers # {}
    BY DporAssumption DEF TypeInv, workers
  <1>2. frontier = {} /\ pool = {}
    BY <1>1 DEF CoverInv
  <1>3. \A t : Found(t) => t \in store
    BY <1>2 DEF Found
  <1>4. \A s, i : ~Handed(s, i)
    BY <1>2 DEF Handed
  <1>5. \A w \in workers : 1 .. Len(stack[w]) = {}
    <2>1. \A w \in workers : ~(Len(stack[w]) > 0)
      BY DEF PlaceInv
    <2>2. \A w \in workers : stack[w] \in Seq(Frames)
      BY DEF TypeInv
    <2>3. \A w \in workers : Len(stack[w]) \in Nat
      BY <2>2
    <2>4. \A n \in Nat : ~(n > 0) => 1 .. n = {}
      OBVIOUS
    <2> QED
      BY <2>1, <2>3, <2>4
  <1>6. \A s, i : ~OnStack(s, i)
    BY <1>5 DEF OnStack
  <1>7. \A s \in store \ (stolen \cup cut) : \A i \in DOMAIN Enabled[s] : Succ(s, i) \in store
    BY <1>3, <1>4, <1>6 DEF CoverInv, Covered
  <1>8. initial \subseteq store
    BY <1>3 DEF CoverInv
  <1> QED
    BY <1>7, <1>8 DEF Closed, Successors

\* Merging changes the result, and nothing that was found.
LEMMA MergeStep ==
    ASSUME DporInv, merge
    PROVE  DporInv'
  <1>1. /\ initial' = initial /\ workers' = workers /\ config' = config
        /\ call' = call /\ frontier' = frontier /\ store' = store
        /\ pool' = pool /\ stop' = stop /\ pc' = pc /\ job' = job /\ stack' = stack
        /\ reports' = reports /\ stolen' = stolen /\ cut' = cut
        /\ phase = "search" /\ phase' = "merged" /\ \A w \in workers : pc[w] = "done"
    BY DEF merge, worker_vars, initial, workers, config
  <1>2. TypeInv' /\ PlaceInv'
    BY <1>1 DEF DporInv, TypeInv, PlaceInv, Top
  <1>3. ResultInv'
    BY DEF merge, ResultInv
  <1>4. CASE StopInv /\ StartInv /\ LevelInv /\ CoverInv /\ MergedInv
    <2>1. StopInv' /\ StartInv' /\ LevelInv' /\ CoverInv'
      BY <1>1, <1>4 DEF StopInv, StartInv, LevelInv, CoverInv
    <2>2. Open' = Open
      BY <1>1 DEF Open, LimitReached
    <2>3. Open => Closed
      BY <1>1, <1>4, LeftClosed DEF DporInv
    <2>4. MergedInv'
      BY <1>1, <2>2, <2>3 DEF MergedInv, Closed, Successors, Succ
    <2> QED
      BY <1>2, <1>3, <2>1, <2>4 DEF DporInv
  <1> QED
    BY <1>1, <1>2, <1>3, <1>4 DEF DporInv

\* The first phase returns what it reports, and a worker returns nothing yet.
LEMMA ResultStep ==
    ASSUME ResultInv,
           \/ explore_dpor \/ explore_dpor_parallel \/ bfs_level
           \/ \E w \in workers : Worker(w)
    PROVE  ResultInv'
  <1>1. CASE explore_dpor
    BY <1>1 DEF explore_dpor, ResultInv, Finished
  <1>2. CASE explore_dpor_parallel
    BY <1>2 DEF explore_dpor_parallel, ResultInv, Finished
  <1>3. CASE bfs_level
    <2>1. reports = {}
      BY <1>3 DEF bfs_level, ResultInv
    <2>2. \/ UNCHANGED <<reports, violation>>
          \/ phase' = "done" /\ violation' = reports' /\ reports' # {}
      BY <1>3 DEF bfs_level, Report
    <2> QED
      BY <2>1, <2>2 DEF ResultInv
  <1>4. ASSUME NEW w \in workers, Worker(w)
        PROVE  ResultInv'
    BY <1>4, WorkerGrows DEF ResultInv, Finished
  <1> QED
    BY <1>1, <1>2, <1>3, <1>4

\* Every step keeps the invariant.
LEMMA NextInv == DporInv /\ [Next]_vars => DporInv'
  <1> SUFFICES ASSUME DporInv, [Next]_vars PROVE DporInv'
    OBVIOUS
  <1>1. CASE UNCHANGED vars
    BY <1>1, StutterStep
  <1>2. CASE explore_dpor \/ explore_dpor_parallel \/ bfs_level
    <2>1. config' = config
      BY <1>2 DEF explore_dpor, explore_dpor_parallel, bfs_level, config
    <2>2. ResultInv'
      BY <1>2, ResultStep DEF DporInv
    <2>3. CASE config.use_sleep_sets
      BY <1>2, <2>1, <2>2, <2>3, LevelTypes DEF DporInv
    <2>4. CASE ~config.use_sleep_sets
      BY <1>2, <2>2, <2>4, LevelTypes, LevelStep DEF DporInv
    <2> QED
      BY <2>3, <2>4
  <1>3. ASSUME NEW w \in workers, Worker(w)
        PROVE  DporInv'
    <2>1. config' = config
      BY <1>3, WorkerGrows DEF config
    <2>2. ResultInv'
      BY <1>3, ResultStep DEF DporInv
    <2>3. CASE config.use_sleep_sets
      BY <1>3, <2>1, <2>2, <2>3, MoveTypes, StackTypes DEF DporInv, Worker
    <2>4. CASE ~config.use_sleep_sets
      BY <1>3, <2>2, <2>4, WorkerStep DEF DporInv
    <2> QED
      BY <2>3, <2>4
  <1>4. CASE merge
    BY <1>4, MergeStep
  <1> QED
    BY <1>1, <1>2, <1>3, <1>4 DEF Next

\* The levels end with nothing left to expand, and the workers with nothing covered
\* that is not stored.
LEMMA InvGivesClosed == DporInv => SearchClosed
  <1> SUFFICES ASSUME DporInv, Exhausted, ~config.use_sleep_sets PROVE Closed
    BY DEF SearchClosed, Closed
  <1>1. LevelInv /\ MergedInv /\ Open /\ reports = {}
    BY DEF DporInv, Exhausted, Open, ResultInv
  <1>2. CASE phase = "done"
    BY <1>1, <1>2 DEF LevelInv, Closed, Successors
  <1>3. CASE phase = "merged"
    BY <1>1, <1>3 DEF MergedInv
  <1> QED
    BY <1>2, <1>3 DEF Exhausted, Finished

\* explore.rs: an exhausted search without sleep sets is closed under the transitions
\* of the specification under check, for every specification, any number of workers
\* and every configuration, but for the states stored for a thief or at max_depth.
THEOREM SearchClosedHolds == Spec => []SearchClosed
  <1>1. Spec => []DporInv
    BY InitInv, NextInv, PTL DEF Spec
  <1> QED
    BY <1>1, InvGivesClosed, PTL
-----------------------------------------------------------------------------
(***************************************************************************)
(* Reports, with and without sleep sets.                                   *)
(***************************************************************************)
\* Every frame of a stack is the successor that the frame below it has chosen.
Linked(st) ==
    \A d \in 1 .. Len(st) - 1 : Succ(st[d].state, st[d].chosen) = st[d + 1].state

\* Whatever was stored and violates an invariant is reported by whoever stored it.
FoundReported ==
    /\ \A s \in (store \cap Bad) \ stolen : \E r \in reports : r.state = s
    /\ \A r \in reports : (r.state \in Bad \/ Deadlocked(r.state)) /\ IsPath(r)

ReportInv == (\A w \in workers : Linked(stack[w])) /\ FoundReported

\* The trace of a stack leads to what its top frame fires.
LEMMA TraceIsPath ==
    ASSUME TypeInv, NEW w \in workers, Len(stack[w]) > 0, Linked(stack[w]), NEW r,
           r.state = Succ(Top(w).state, Top(w).chosen), r.trace = Trace(w)
    PROVE  IsPath(r)
  <1>1. stack[w] \in Seq(Frames) /\ Len(stack[w]) \in Nat /\ DOMAIN stack[w] = 1 .. Len(stack[w])
    BY DEF TypeInv
  <1>2. /\ DOMAIN r.trace = 1 .. Len(stack[w]) /\ Len(r.trace) = Len(stack[w])
        /\ \A d \in 1 .. Len(stack[w]) :
              r.trace[d][1] = stack[w][d].state /\ r.trace[d][2] = stack[w][d].chosen
    BY <1>1 DEF Trace
  <1>3. ASSUME NEW d \in 1 .. Len(stack[w])
        PROVE  Succ(r.trace[d][1], r.trace[d][2])
                  = IF d = Len(r.trace) THEN r.state ELSE r.trace[d + 1][1]
    <2>1. Succ(r.trace[d][1], r.trace[d][2]) = Succ(stack[w][d].state, stack[w][d].chosen)
      BY <1>2
    <2>2. CASE d = Len(stack[w])
      BY <1>2, <2>1, <2>2 DEF Top
    <2>3. CASE d # Len(stack[w])
      <3>1. d \in 1 .. Len(stack[w]) - 1 /\ d + 1 \in 1 .. Len(stack[w])
        BY <1>1, <2>3
      <3> QED
        BY <1>2, <2>1, <2>3, <3>1 DEF Linked
    <2> QED
      BY <2>2, <2>3
  <1> QED
    BY <1>2, <1>3 DEF IsPath

\* A step that stores nothing bad without a report for it, and reports nothing but
\* violations with their paths.
LEMMA ReportsGrow ==
    ASSUME FoundReported, call' = call, reports \subseteq reports',
           stolen \subseteq stolen',
           \A s \in (store' \cap Bad) \ stolen' :
              s \in store \ stolen \/ \E r \in reports' : r.state = s,
           \A r \in reports' \ reports : (r.state \in Bad \/ Deadlocked(r.state)) /\ IsPath(r)
    PROVE  FoundReported'
  <1>1. \A s : Deadlocked(s)' = Deadlocked(s)
    BY DEF Deadlocked, config
  <1>2. \A s \in (store' \cap Bad) \ stolen' : \E r \in reports' : r.state = s
    BY DEF FoundReported
  <1>3. \A r \in reports' : (r.state \in Bad \/ Deadlocked(r.state)) /\ IsPath(r)
    BY DEF FoundReported
  <1> QED
    BY <1>1, <1>2, <1>3 DEF FoundReported, IsPath, Succ

\* A report without a trace is of an initial state or of one that the levels found.
LEMMA ReportEmpty ==
    ASSUME NEW s, Report(s, <<>>), s \in Bad \/ Deadlocked(s)
    PROVE  /\ reports \subseteq reports' /\ \E r \in reports' : r.state = s
           /\ \A r \in reports' \ reports : (r.state \in Bad \/ Deadlocked(r.state)) /\ IsPath(r)
  <1>1. PICK q : q = [state |-> s, trace |-> <<>>]
    OBVIOUS
  <1>2. q.state = s /\ DOMAIN q.trace = {}
    BY <1>1
  <1>3. reports' = reports \cup {q}
    BY <1>1 DEF Report
  <1> QED
    BY <1>2, <1>3 DEF IsPath

\* The first phase stores checked states only.
LEMMA LevelReports ==
    ASSUME TypeInv, ReportInv, explore_dpor \/ explore_dpor_parallel \/ bfs_level
    PROVE  ReportInv'
  <1>1. /\ call' = call /\ workers' = workers /\ stack' = stack /\ stolen' = stolen
    BY DEF explore_dpor, explore_dpor_parallel, bfs_level, worker_vars, workers
  <1>2. \A w \in workers' : Linked(stack[w])'
    BY <1>1 DEF ReportInv, Linked, Succ
  <1>3. FoundReported'
    <2>1. CASE explore_dpor
      BY <1>1, <2>1, ReportsGrow DEF explore_dpor, ReportInv
    <2>2. CASE explore_dpor_parallel
      <3>1. CASE initial \cap Bad = {} /\ store' = initial /\ UNCHANGED reports
        BY <1>1, <3>1, ReportsGrow DEF ReportInv
      <3>2. ASSUME NEW s \in initial \cap Bad, NEW before \in SUBSET (initial \ Bad),
                   store' = before \cup {s}, Report(s, <<>>)
            PROVE  FoundReported'
        BY <1>1, <3>2, ReportEmpty, ReportsGrow DEF ReportInv
      <3> QED
        BY <2>2, <3>1, <3>2 DEF explore_dpor_parallel
    <2>3. CASE bfs_level
      <3>1. CASE UNCHANGED reports /\ (store' = store \/ \E next : next \cap Bad = {} /\ store' = store \cup next)
        BY <1>1, <3>1, ReportsGrow DEF ReportInv
      <3>2. ASSUME NEW s \in Bad, UNCHANGED store, Report(s, <<>>)
            PROVE  FoundReported'
        BY <1>1, <3>2, ReportEmpty, ReportsGrow DEF ReportInv
      <3> QED
        BY <2>3, <3>1, <3>2 DEF bfs_level
    <2> QED
      BY <2>1, <2>2, <2>3
  <1> QED
    BY <1>2, <1>3 DEF ReportInv

\* What a worker does to its own stack and to the reports.
LEMMA WorkerReports ==
    ASSUME TypeInv, PlaceInv, ReportInv, NEW w \in workers, Worker(w)
    PROVE  ReportInv'
  <1>1. call' = call /\ workers' = workers /\ reports \subseteq reports' /\ stolen \subseteq stolen'
    BY WorkerGrows DEF workers
  <1>2. ASSUME \A v \in workers : v # w => stack'[v] = stack[v],
               Linked(stack'[w]), FoundReported'
        PROVE  ReportInv'
    <2>1. \A v \in workers : Linked(stack'[v])
      BY <1>2 DEF ReportInv
    <2> QED
      BY <1>1, <1>2, <2>1 DEF ReportInv, Linked, Succ
  <1>3. Linked(<<>>)
    BY DEF Linked
  <1>4. ASSUME UNCHANGED <<store, reports>>
        PROVE  FoundReported'
    BY <1>1, <1>4, ReportsGrow DEF ReportInv
  <1>5. CASE \/ next_item(w) \/ take_frontier(w) \/ take_stolen(w) \/ nothing_left(w)
             \/ spin_found(w) \/ spin_failed(w) \/ leave(w) \/ already_stored(w)
    <2>1. UNCHANGED <<stack, store, reports>>
      BY <1>5 DEF next_item, take_frontier, take_stolen, nothing_left, spin_found,
                  spin_failed, leave, already_stored
    <2> QED
      BY <1>2, <1>4, <2>1 DEF ReportInv
  <1>6. CASE execute_stolen_work(w)
    <2>1. UNCHANGED <<stack, reports>> /\ (store' = store \/ store' \ store \subseteq stolen')
      BY <1>6 DEF execute_stolen_work
    <2>2. FoundReported'
      BY <1>1, <2>1, ReportsGrow DEF ReportInv
    <2> QED
      BY <1>2, <2>1, <2>2 DEF ReportInv
  <1>7. CASE explore_dpor_from_state(w)
    <2>1. CASE /\ store' = store \cup {job[w][1]} /\ stack' = stack
               /\ job[w][1] \in Bad \/ Deadlocked(job[w][1])
               /\ Report(job[w][1], <<>>)
      <3>1. FoundReported'
        BY <1>1, <2>1, ReportEmpty, ReportsGrow DEF ReportInv
      <3> QED
        BY <1>2, <2>1, <3>1 DEF ReportInv
    <2>2. CASE /\ store' = store \cup {job[w][1]} /\ job[w][1] \notin Bad /\ UNCHANGED reports
               /\ stack' = [stack EXCEPT ![w] = <<Frame(job[w][1], {}, 0)>>]
      <3>1. FoundReported'
        BY <1>1, <2>2, ReportsGrow DEF ReportInv
      <3>2. stack'[w] = <<Frame(job[w][1], {}, 0)>> /\ \A v \in workers : v # w => stack'[v] = stack[v]
        BY <2>2 DEF TypeInv
      <3>3. Linked(stack'[w])
        BY <3>2 DEF Linked
      <3> QED
        BY <1>2, <3>1, <3>2, <3>3
    <2> QED
      BY <1>7, <2>1, <2>2 DEF explore_dpor_from_state
  <1>8. CASE give_up(w)
    <2>1. UNCHANGED <<store, reports>> /\ stack' = [stack EXCEPT ![w] = <<>>]
      BY <1>8 DEF give_up
    <2>2. stack'[w] = <<>> /\ \A v \in workers : v # w => stack'[v] = stack[v]
      BY <2>1 DEF TypeInv
    <2> QED
      BY <1>2, <1>3, <1>4, <2>1, <2>2
  <1>9. CASE choose(w)
    <2>1. PICK g \in Frames : g.state = Top(w).state /\ stack' = [stack EXCEPT ![w] = Append(Below(w), g)]
      BY <1>9, ChooseStep
    <2>2. UNCHANGED <<store, reports>> /\ Len(stack[w]) > 0
      BY <1>9 DEF choose, PlaceInv
    <2>3. stack'[w] = Append(Below(w), g) /\ \A v \in workers : v # w => stack'[v] = stack[v]
      BY <2>1 DEF TypeInv
    <2>4. /\ Len(stack[w]) \in Nat /\ Below(w) \in Seq(Frames)
          /\ Len(Below(w)) = Len(stack[w]) - 1
          /\ \A d \in 1 .. Len(stack[w]) - 1 : Below(w)[d] = stack[w][d]
      BY <2>2, TopTyped
    <2>5. /\ Len(stack'[w]) = Len(stack[w])
          /\ \A d \in 1 .. Len(stack[w]) - 1 : stack'[w][d] = stack[w][d]
          /\ stack'[w][Len(stack[w])] = g
      BY <2>2, <2>3, <2>4
    <2>6. Linked(stack'[w])
      <3> SUFFICES ASSUME NEW d \in 1 .. Len(stack[w]) - 1
                   PROVE  Succ(stack'[w][d].state, stack'[w][d].chosen) = stack'[w][d + 1].state
        BY <2>5 DEF Linked
      <3>1. Succ(stack[w][d].state, stack[w][d].chosen) = stack[w][d + 1].state
        BY DEF ReportInv, Linked
      <3>2. stack'[w][d + 1].state = stack[w][d + 1].state
        <4>1. CASE d + 1 = Len(stack[w])
          BY <2>1, <2>5, <4>1 DEF Top
        <4>2. CASE d + 1 # Len(stack[w])
          <5>1. d + 1 \in 1 .. Len(stack[w]) - 1
            BY <2>4, <4>2
          <5> QED
            BY <2>5, <5>1
        <4> QED
          BY <4>1, <4>2
      <3> QED
        BY <2>5, <3>1, <3>2
    <2> QED
      BY <1>2, <1>4, <2>2, <2>3, <2>6
  <1>10. CASE pop(w)
    <2>1. UNCHANGED <<store, reports>> /\ Len(stack[w]) > 0 /\ stack' = [stack EXCEPT ![w] = Below(w)]
      BY <1>10 DEF pop, PlaceInv
    <2>2. stack'[w] = Below(w) /\ \A v \in workers : v # w => stack'[v] = stack[v]
      BY <2>1 DEF TypeInv
    <2>3. /\ Len(stack[w]) \in Nat /\ Len(Below(w)) = Len(stack[w]) - 1
          /\ \A d \in 1 .. Len(stack[w]) - 1 : Below(w)[d] = stack[w][d]
      BY <2>1, TopTyped
    <2>4. Linked(Below(w))
      <3> SUFFICES ASSUME NEW d \in 1 .. Len(stack[w]) - 1 - 1
                   PROVE  Succ(Below(w)[d].state, Below(w)[d].chosen) = Below(w)[d + 1].state
        BY <2>3 DEF Linked
      <3>1. d \in 1 .. Len(stack[w]) - 1 /\ d + 1 \in 1 .. Len(stack[w]) - 1
        BY <2>3
      <3> QED
        BY <2>3, <3>1 DEF ReportInv, Linked
    <2> QED
      BY <1>2, <1>4, <2>1, <2>2, <2>4
  <1>11. CASE fire(w)
    <2>1. PICK s : s = Succ(Top(w).state, Top(w).chosen)
      OBVIOUS
    <2>2. PICK g : g = Frame(s, Top(w).child_sleep, Top(w).depth + 1)
      OBVIOUS
    <2>3. store' = store \cup {s} /\ Len(stack[w]) > 0
      BY <1>11, <2>1 DEF fire, PlaceInv
    <2>4. \/ s \in store /\ UNCHANGED <<stack, reports>>
          \/ /\ s \in Bad \/ Deadlocked(s)
             /\ Report(s, Trace(w)) /\ stack' = [stack EXCEPT ![w] = <<>>]
          \/ /\ s \notin Bad /\ UNCHANGED reports
             /\ stack' = [stack EXCEPT ![w] = Append(stack[w], g)]
          \/ s \notin Bad /\ UNCHANGED <<stack, reports>>
      BY <1>11, <2>1, <2>2 DEF fire
    <2>5. CASE (s \in store \/ s \notin Bad) /\ UNCHANGED <<stack, reports>>
      <3>1. FoundReported'
        <4>1. CASE s \in store
          BY <1>4, <2>3, <2>5, <4>1
        <4>2. CASE s \notin Bad
          BY <1>1, <2>3, <2>5, <4>2, ReportsGrow DEF ReportInv
        <4> QED
          BY <2>5, <4>1, <4>2
      <3> QED
        BY <1>2, <2>5, <3>1 DEF ReportInv
    <2>6. CASE /\ s \in Bad \/ Deadlocked(s)
               /\ Report(s, Trace(w)) /\ stack' = [stack EXCEPT ![w] = <<>>]
      <3>1. PICK r : r = [state |-> s, trace |-> Trace(w)]
        OBVIOUS
      <3>2. r.state = s /\ r.trace = Trace(w) /\ reports' = reports \cup {r}
        BY <2>6, <3>1 DEF Report
      <3>3. IsPath(r)
        BY <2>1, <2>3, <3>2, TraceIsPath DEF ReportInv
      <3>4. FoundReported'
        BY <1>1, <2>3, <2>6, <3>2, <3>3, ReportsGrow DEF ReportInv
      <3>5. stack'[w] = <<>> /\ \A v \in workers : v # w => stack'[v] = stack[v]
        BY <2>6 DEF TypeInv
      <3> QED
        BY <1>2, <1>3, <3>4, <3>5
    <2>7. CASE /\ s \notin Bad /\ UNCHANGED reports
               /\ stack' = [stack EXCEPT ![w] = Append(stack[w], g)]
      <3>1. FoundReported'
        BY <1>1, <2>3, <2>7, ReportsGrow DEF ReportInv
      <3>2. stack'[w] = Append(stack[w], g) /\ \A v \in workers : v # w => stack'[v] = stack[v]
        BY <2>7 DEF TypeInv
      <3>3. stack[w] \in Seq(Frames) /\ Len(stack[w]) \in Nat /\ g.state = s
        BY <2>2 DEF TypeInv, Frame
      <3>4. /\ Len(stack'[w]) = Len(stack[w]) + 1
            /\ \A d \in 1 .. Len(stack[w]) : stack'[w][d] = stack[w][d]
            /\ stack'[w][Len(stack[w]) + 1] = g
        BY <3>2, <3>3
      <3>5. Linked(stack'[w])
        <4> SUFFICES ASSUME NEW d \in 1 .. Len(stack[w])
                     PROVE  Succ(stack'[w][d].state, stack'[w][d].chosen) = stack'[w][d + 1].state
          BY <3>3, <3>4 DEF Linked
        <4>1. CASE d = Len(stack[w])
          BY <2>1, <3>3, <3>4, <4>1 DEF Top
        <4>2. CASE d # Len(stack[w])
          <5>1. d \in 1 .. Len(stack[w]) - 1 /\ d + 1 \in 1 .. Len(stack[w])
            BY <3>3, <4>2
          <5> QED
            BY <3>4, <5>1 DEF ReportInv, Linked
        <4> QED
          BY <4>1, <4>2
      <3> QED
        BY <1>2, <3>1, <3>2, <3>5
    <2> QED
      BY <2>4, <2>5, <2>6, <2>7
  <1> QED
    BY <1>5, <1>6, <1>7, <1>8, <1>9, <1>10, <1>11 DEF Worker

\* explore.rs: with and without sleep sets, for every team of workers: a search that ends
\* with a violating state in its store, not put there for a thief, returns a violation,
\* although the results of the workers are merged into one, and what it returns has a
\* path that leads to the state returned.
THEOREM ViolationsReportedHolds == Spec => []ViolationsReported
  <1>1. Init => ReportInv
    BY DEF Init, ReportInv, Linked, FoundReported
  <1>2. DporInv /\ ReportInv /\ [Next]_vars => ReportInv'
    <2> SUFFICES ASSUME DporInv, ReportInv, [Next]_vars PROVE ReportInv'
      OBVIOUS
    <2>1. CASE UNCHANGED vars \/ merge
      <3>1. /\ workers' = workers /\ config' = config /\ stack' = stack
            /\ store' = store /\ stolen' = stolen /\ reports' = reports
        BY <2>1 DEF vars, merge, worker_vars, workers, config
      <3> QED
        BY <3>1 DEF ReportInv, Linked, FoundReported, Deadlocked, IsPath, Succ
    <2>2. CASE explore_dpor \/ explore_dpor_parallel \/ bfs_level \/ \E w \in workers : Worker(w)
      BY <2>2, LevelReports, WorkerReports DEF DporInv
    <2> QED
      BY <2>1, <2>2 DEF Next
  <1>3. Spec => []DporInv
    BY InitInv, NextInv, PTL DEF Spec
  <1>4. DporInv /\ ReportInv => ViolationsReported
    BY DEF DporInv, ResultInv, ReportInv, FoundReported, ViolationsReported
  <1> QED
    BY <1>1, <1>2, <1>3, <1>4, PTL DEF Spec
=============================================================================
