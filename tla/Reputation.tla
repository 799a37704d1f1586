----------------------------- MODULE Reputation -----------------------------
(***************************************************************************)
(* The trust scores a router keeps for its neighbours: class               *)
(* ReputationTable (model/reputation.hpp, model/reputation.cpp),           *)
(* Algorithm 4 of the protocol.  A score is a double in [0, 1]; here it is *)
(* a whole number of units, One of which make 1.0, rounded down.           *)
(***************************************************************************)
EXTENDS Integers

CONSTANTS Neighbours,    \* identifiers of previous hops
          One,           \* units in 1.0
          InitialTrust,  \* m_initialTrust, 0.5 in the code
          Decay          \* m_decayFactor, 0.9 in the code

VARIABLE m_scores        \* neighbour -> score, for neighbours updated so far

Scores == 0..One

ScoresOK ==
  /\ DOMAIN m_scores \subseteq Neighbours
  /\ m_scores \in [DOMAIN m_scores -> Scores]

InitScores == m_scores = << >>

getTrustScore(h) == IF h \in DOMAIN m_scores THEN m_scores[h] ELSE InitialTrust

(***************************************************************************)
(* The score update() starts from.  m_scores[neighborId] has inserted 0.0  *)
(* for a new neighbour before the test for its absence looks for it, so    *)
(* the test never succeeds and m_initialTrust is not taken.                *)
(***************************************************************************)
StartScore(h) ==
  LET inserted == DOMAIN m_scores \cup {h}
      score == IF h \in DOMAIN m_scores THEN m_scores[h] ELSE 0
  IN IF score = 0 /\ h \notin inserted THEN InitialTrust ELSE score

Clamped(x) == IF x < 0 THEN 0 ELSE IF x > One THEN One ELSE x

Decayed(x) == (x * Decay) \div One

NewScore(h, consistent) ==
  Clamped(IF consistent THEN Decayed(StartScore(h)) + (One - Decay)
                        ELSE Decayed(StartScore(h)))

Update(h, consistent) ==
  m_scores' = [g \in DOMAIN m_scores \cup {h} |->
                 IF g = h THEN NewScore(h, consistent) ELSE m_scores[g]]
=============================================================================
