--------------------------- MODULE MCExperiments ---------------------------
(* One name and one neighbour at the hooked router.                        *)
EXTENDS Experiments

CONSTANTS MaxPackets,  \* bound: packets a hook gets
          MaxSent,     \* bound: interests sent
          MaxMade      \* bound: different headers made for a name

Bounded ==
  /\ g.total <= MaxPackets /\ g.sent <= MaxSent
  /\ \A n \in Names : Cardinality(made[n]) <= MaxMade

MCSpec ==
  ExperimentInit /\ [][ExperimentNext /\ Bounded']_<<vars, setupVars, runVars>>

(* Only what the producer makes, each packet before the next is made; with  *)
(* at most as many packets as the circle has numbers, each makes a header   *)
(* that was not there.                                                      *)
InOrder ==
  \A n \in Names :
    /\ \A hdr \in made[n] : hdr.ph = 0
    /\ Cardinality(made[n]) - g.total \in {0, 1}
    /\ g.total > 0 /\ Cardinality(made[n]) = g.total =>
         handed[2].seqn = m_globalSeqn[n]

InOrderSpec ==
  /\ ExperimentInit /\ script \in {"s1", "s4"}
  /\ [][ExperimentNext /\ (Bounded /\ InOrder)']_<<vars, setupVars, runVars>>
=============================================================================
