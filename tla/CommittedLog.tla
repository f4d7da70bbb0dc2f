---------------------------- MODULE CommittedLog ----------------------------
(***************************************************************************)
(* What a replicated service promises its clients: there is one sequence   *)
(* of committed values, it is only ever extended, and what each server     *)
(* knows of it is a prefix that never shrinks and never changes.           *)
(***************************************************************************)
EXTENDS Sequences, SequencesExt

CONSTANTS Servers, Values

VARIABLES committed, known

Init == committed = <<>> /\ known = [s \in Servers |-> <<>>]

\* A server learns of a longer prefix, or decides what follows the present end.
Learn(s) ==
    /\ IsStrictPrefix(known[s], known'[s])
    /\ \A t \in Servers \ {s} : known'[t] = known[t]
    /\ IsPrefix(known'[s], committed')
    /\ IsPrefix(committed, committed') /\ committed' \in Seq(Values)

Next == \E s \in Servers : Learn(s)

Spec == Init /\ [][Next]_<<committed, known>>
=============================================================================
