--------------------------- MODULE LeaderElection ---------------------------
(***************************************************************************)
(* The bully election host: election_gen.rs driven by                      *)
(* implementation/LeaderElection/host.rs.  Every process holds a whole     *)
(* CState and reads and writes only its own part: electing[n] says whether *)
(* n is in its electing set, waiting[n] whether its waiting_answer is set  *)
(* (waiting_node is then n).  Nothing calls CNodeFail, so every node is    *)
(* thought alive for ever, and the timer's third turn, try_detect_failure, *)
(* never does anything.  highest_heard is never read.                      *)
(*                                                                         *)
(* A packet once sent stays in net: it may arrive late, repeatedly or      *)
(* never.                                                                  *)
(***************************************************************************)
EXTENDS Naturals

CONSTANTS N, None

VARIABLES
    electing, waiting, leader, action_index,
    net,
    claims         \* history: how often each node has declared itself the leader

vars == <<electing, waiting, leader, action_index, net, claims>>

Nodes == 0 .. N - 1

\* To all nodes with higher numbers.
Election(n) == [type |-> "Election", src |-> n]

Answer(n, dst) == [type |-> "Answer", src |-> n, dst |-> dst]

\* To all others.
Coordinator(n) == [type |-> "Coordinator", src |-> n]

Init ==
    /\ electing = [n \in Nodes |-> FALSE]
    /\ waiting = [n \in Nodes |-> FALSE]
    /\ leader = [n \in Nodes |-> None]
    /\ action_index = [n \in Nodes |-> 0]
    /\ net = {}
    /\ claims = [n \in Nodes |-> 0]

\* The node is in the election from now on, but waits for nobody.
handle_election(n, m) ==
    /\ m.type = "Election"
    /\ n > m.src
    /\ electing' = [electing EXCEPT ![n] = TRUE]
    /\ net' = net \cup {Answer(n, m.src)}
    /\ UNCHANGED <<waiting, leader, action_index, claims>>

\* Mutant: the node backs off but goes on waiting.
handle_answer_waiting(n, m) ==
    /\ m.type = "Answer" /\ m.dst = n
    /\ waiting[n]
    /\ electing' = [electing EXCEPT ![n] = FALSE]
    /\ UNCHANGED <<waiting, leader, action_index, net, claims>>

handle_answer(n, m) ==
    /\ m.type = "Answer" /\ m.dst = n
    /\ waiting[n]
    /\ electing' = [electing EXCEPT ![n] = FALSE]
    /\ waiting' = [waiting EXCEPT ![n] = FALSE]
    /\ UNCHANGED <<leader, action_index, net, claims>>

\* The last to be heard of is the leader.
handle_coordinator(n, m) ==
    /\ m.type = "Coordinator" /\ m.src # n
    /\ leader' = [leader EXCEPT ![n] = m.src]
    /\ electing' = [electing EXCEPT ![n] = FALSE]
    /\ UNCHANGED <<waiting, action_index, net, claims>>

try_start_election(n) ==
    /\ leader[n] = None
    /\ ~electing[n]
    /\ electing' = [electing EXCEPT ![n] = TRUE]
    /\ waiting' = [waiting EXCEPT ![n] = TRUE]
    /\ leader' = [leader EXCEPT ![n] = None]
    /\ net' = IF n = N - 1 THEN net ELSE net \cup {Election(n)}
    /\ UNCHANGED claims

try_send_coordinator(n) ==
    /\ electing[n]
    /\ waiting[n]
    /\ leader' = [leader EXCEPT ![n] = n]
    /\ electing' = [electing EXCEPT ![n] = FALSE]
    /\ waiting' = [waiting EXCEPT ![n] = FALSE]
    /\ net' = net \cup {Coordinator(n)}
    /\ claims' = [claims EXCEPT ![n] = @ + 1]

\* A turn whose conditions do not hold passes.
NothingToDo(n) ==
    /\ action_index[n] = 0 => leader[n] # None \/ electing[n]
    /\ action_index[n] = 1 => ~electing[n] \/ ~waiting[n]
    /\ UNCHANGED <<electing, waiting, leader, net, claims>>

timer_step(n) ==
    /\ \/ action_index[n] = 0 /\ try_start_election(n)
       \/ action_index[n] = 1 /\ try_send_coordinator(n)
       \/ NothingToDo(n)
    /\ action_index' = [action_index EXCEPT ![n] = (@ + 1) % 3]

Handle(n, m) == handle_election(n, m) \/ handle_answer(n, m) \/ handle_coordinator(n, m)

Next == \E n \in Nodes : timer_step(n) \/ \E m \in net : Handle(n, m)

Spec == Init /\ [][Next]_vars
-----------------------------------------------------------------------------
\* A node declares itself the leader at most once, although it stays waiting
\* when it accepts another leader and an Election may draw it in again; whoever
\* is taken for the leader has declared itself; and a node that is not in an
\* election and waits for an answer has accepted a leader since.
LeadersClaimed ==
    \A n \in Nodes :
        /\ claims[n] <= 1
        /\ leader[n] # None => claims[leader[n]] = 1
        /\ waiting[n] /\ ~electing[n] => leader[n] # None

\* Why: a node that has declared itself follows somebody from then on and waits
\* for no answer, so it never gets to declare itself again, and only a node that
\* has declared itself is named by a Coordinator.
IInv ==
    /\ electing \in [Nodes -> BOOLEAN]
    /\ waiting \in [Nodes -> BOOLEAN]
    /\ leader \in [Nodes -> Nodes \cup {None}]
    /\ claims \in [Nodes -> 0 .. 1]
    /\ \A n \in Nodes : claims[n] = 1 => leader[n] # None /\ ~waiting[n]
    /\ \A m \in net : m.type = "Coordinator" => m.src \in Nodes /\ claims[m.src] = 1
    /\ LeadersClaimed
=============================================================================
