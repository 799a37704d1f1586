-------------------------- MODULE MCRouterPipeline --------------------------
(* Two names that compete for one or two cache entries, two neighbours, a  *)
(* limiter that lets one packet through per window.  ResetStats may fall   *)
(* anywhere, so packets are counted apart from the router's own counters.  *)
EXTENDS RouterHistory, TLC

CONSTANTS MaxPackets,  \* bound: packets processed in a behaviour
          MaxSimNs,    \* bound: simulated time
          MaxWallMs    \* bound: wall-clock time

VARIABLE packets

Bounded == packets <= MaxPackets /\ simNs <= MaxSimNs /\ wallMs <= MaxWallMs

MCInit == HistoryInit /\ packets = 0

MCNext == /\ HistoryNext
          /\ packets' = packets + IF Processed THEN 1 ELSE 0
          /\ Bounded'

MCSpec == MCInit /\ [][MCNext]_<<allVars, packets>>

Symmetry == Permutations(Names) \cup Permutations(Nodes) \cup Permutations(Neighbours)
=============================================================================
