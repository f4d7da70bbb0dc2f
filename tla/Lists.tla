------------------------------- MODULE Lists --------------------------------
(***************************************************************************)
(* Lists from which the code removes elements in place, keeping the order  *)
(* of the others.                                                          *)
(***************************************************************************)
EXTENDS Naturals, Sequences, FiniteSets

\* The elements of s at the given places, in their order.
Pick(s, places) ==
    LET order == CHOOSE f \in [1 .. Cardinality(places) -> places] :
                    \A i, j \in DOMAIN f : i < j => f[i] < f[j]
    IN  [i \in 1 .. Cardinality(places) |-> s[order[i]]]

\* Vec::retain: the elements of s that are in S.
Retain(s, S) == Pick(s, {i \in DOMAIN s : s[i] \in S})
=============================================================================
