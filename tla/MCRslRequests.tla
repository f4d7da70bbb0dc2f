--------------------------- MODULE MCRslRequests ----------------------------
(***************************************************************************)
(* Instances of RslRequests for TLC.                                       *)
(***************************************************************************)
EXTENDS RslRequests

\* The highest view of an instance; the first view is CBallot(1, 0).
View2 == CBallot(1, 1)
View2Single == CBallot(2, 0)
=============================================================================
