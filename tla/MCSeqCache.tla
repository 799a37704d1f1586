----------------------------- MODULE MCSeqCache -----------------------------
(* Four names over capacities 0 to 3, numbers modulo 6, and one list node  *)
(* more than names so that a reinsertion may or may not reuse the address  *)
(* it has just freed.                                                      *)
EXTENDS SeqCache

MCCapacities == 0..3

Symmetry == Permutations(Names) \cup Permutations(Nodes)
=============================================================================
