------------------------------- MODULE MCDpor -------------------------------
(***************************************************************************)
(* Instances of DporExplorer for TLC: small specifications under check,    *)
(* disjoint graphs of which a search is given one.                         *)
(***************************************************************************)
EXTENDS DporExplorer

CONSTANTS w1, w2, w3

\* A step of a process, by a branch, that reads and writes its own field, and the
\* field x if it is shared.
Step(process, branch, successor, shared) ==
    [process |-> process, branch |-> branch, successor |-> successor,
     reads |-> {<<"pc", process>>},
     writes |-> {<<"pc", process>>} \cup (IF shared THEN {<<"x">>} ELSE {})]

\* A graph with a wide level, a state reached on three ways, a cycle and two tails.
Wide ==
    [s \in 1 .. 9 |->
        CASE s = 1 -> <<Step(1, "a", 2, TRUE), Step(1, "b", 3, TRUE), Step(2, "a", 4, TRUE)>>
          [] s = 2 -> <<Step(1, "c", 5, TRUE), Step(2, "a", 6, TRUE), Step(2, "b", 1, TRUE)>>
          [] s = 3 -> <<Step(1, "c", 6, TRUE)>>
          [] s = 4 -> <<Step(2, "c", 6, TRUE), Step(2, "b", 7, TRUE)>>
          [] s = 5 -> <<Step(1, "a", 5, TRUE), Step(1, "b", 9, TRUE)>>
          [] s = 6 -> <<Step(1, "a", 8, TRUE)>>
          [] s \in {7, 8, 9} -> <<Step(1, "d", 1, TRUE)>>]

\* Two processes with two steps each that do not touch each other: state 11 + 3i + j.
Grid ==
    [s \in 11 .. 19 |->
        LET i == (s - 11) \div 3  j == (s - 11) % 3
        IN  (IF i < 2 THEN <<Step(1, "a", s + 3, FALSE)>> ELSE <<>>)
              \o (IF j < 2 THEN <<Step(2, "a", s + 1, FALSE)>> ELSE <<>>)]

\* Two processes that race for the field x, which keeps the order of their writes,
\* beside one that does not.
Race ==
    [s \in 21 .. 30 |->
        LET x == (s - 21) \div 2  y == (s - 21) % 2
        IN  (CASE x = 0 -> <<Step(1, "a", s + 2, TRUE), Step(2, "a", s + 4, TRUE)>>
               [] x = 1 -> <<Step(2, "a", s + 4, TRUE)>>
               [] x = 2 -> <<Step(1, "a", s + 4, TRUE)>>
               [] x \in {3, 4} -> <<>>)
              \o (IF y = 0 THEN <<Step(3, "a", s + 1, FALSE)>> ELSE <<>>)]

\* A process with one branch that chooses between two values.
Choice ==
    [s \in 31 .. 33 |->
        IF s = 31 THEN <<Step(1, "a", 32, TRUE), Step(1, "a", 33, TRUE)>> ELSE <<>>]

AllEnabled ==
    [s \in 1 .. 9 \cup 11 .. 19 \cup 21 .. 33 |->
        CASE s < 10 -> Wide[s] [] s \in 11 .. 19 -> Grid[s]
          [] s \in 21 .. 30 -> Race[s] [] s > 30 -> Choice[s]]
AllStates == DOMAIN AllEnabled

Config(sleep, deadlock, states, depth, per_worker, frontier_depth) ==
    [use_sleep_sets |-> sleep, check_deadlock |-> deadlock, max_states |-> states,
     max_depth |-> depth, min_frontier_per_worker |-> per_worker,
     max_frontier_depth |-> frontier_depth]

Call(starts, teams, configs) ==
    {[initial |-> i, workers |-> t, config |-> c] : i \in starts, t \in teams, c \in configs}

\* One worker and two, with and without sleep sets, deadlock checks and limits that
\* are reached; and three workers.
SearchCalls ==
    Call({{1}, {3, 4}, {11}, {2}, {21}}, {{w1}, {w1, w2}},
         {Config(sleep, deadlock, states, depth, 1, 2) :
             sleep, deadlock \in BOOLEAN, states \in {5, 20}, depth \in {2, 20}})
    \cup Call({{11}, {21}}, {{w1, w2, w3}}, {Config(sleep, FALSE, 20, 20, 1, 2) : sleep \in BOOLEAN})

\* Two workers with room for all the states.
ThoroughCalls == Call({{2}}, {{w1, w2}}, {Config(FALSE, FALSE, 20, 20, 1, 2)})

\* One worker, with sleep sets, and room for all the states.
SleepCalls == Call({{31}}, {{w1}}, {Config(TRUE, FALSE, 20, 20, 1, 2)})
=============================================================================
