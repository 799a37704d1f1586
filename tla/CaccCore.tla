------------------------------ MODULE CaccCore ------------------------------
(***************************************************************************)
(* The caching decision of a router: class CaccCore (model/cacc-core.hpp,  *)
(* model/cacc-core.cpp), Equation (1) and Algorithm 5 of the protocol.     *)
(* Doubles are whole numbers of units, One of which make 1.0, rounded      *)
(* down; phEff and rhcEff are in these units too.                          *)
(***************************************************************************)
EXTENDS Integers

CONSTANTS One,       \* units in 1.0
          Alpha,     \* m_alpha, 0.6 in the code
          MaxHops,   \* m_maxHops, 20 in the code
          Samples    \* values of the random variable r, in units below One

VARIABLES m_lastP,   \* probability of the last decision
          m_lastR    \* random sample of the last decision

(* The constructor clamps alpha to [0, 1]. *)
EffectiveAlpha == IF Alpha < 0 THEN 0 ELSE IF Alpha > One THEN One ELSE Alpha

PopularityComponent(phEff) == One - (One * One) \div (phEff + 2 * One)

LocalityComponent(rhcEff) == rhcEff \div (MaxHops + 1)

(* Mutant: the weighted sum without the clamp to [0, 1]. *)
probabilityUnclamped(phEff, rhcEff) ==
  (EffectiveAlpha * PopularityComponent(phEff)
   + (One - EffectiveAlpha) * LocalityComponent(rhcEff)) \div One

probability(phEff, rhcEff) ==
  LET p == (EffectiveAlpha * PopularityComponent(phEff)
            + (One - EffectiveAlpha) * LocalityComponent(rhcEff)) \div One
  IN IF p < 0 THEN 0 ELSE IF p > One THEN One ELSE p

InitCore == m_lastP = 0 /\ m_lastR = 0

(* decide(phEff, rhcEff): RHC counts this hop, then r is drawn. *)
Decide(phEff, rhcEff, shouldCache) ==
  /\ m_lastP' = probability(phEff, rhcEff + One)
  /\ m_lastR' \in Samples
  /\ shouldCache = (m_lastR' <= m_lastP')
=============================================================================
