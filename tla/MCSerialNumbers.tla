-------------------------- MODULE MCSerialNumbers --------------------------
(* Two names on one cache entry, numbers past one circle and a half, and   *)
(* up to MaxLink packets on their way.  A reset only rounds numbers up, so *)
(* it needs no bound.                                                      *)
EXTENDS SerialNumbers, TLC

CONSTANTS MaxLink,   \* bound: packets on the link
          MaxNo      \* bound: ghost numbers reached by publishing, all names

Bounded == /\ Len(link) <= MaxLink
           /\ FoldFunction(+, 0, issued) <= MaxNo

MCSpec == Init /\ [][Next /\ (Bounded' \/ ResetProducer)]_vars

Symmetry == Permutations(Names) \cup Permutations(Nodes)
=============================================================================
