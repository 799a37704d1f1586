------------------------ MODULE RouterPipelineProofs ------------------------
(***************************************************************************)
(* Theorems about one router, for every set of names, neighbours and       *)
(* header fields, every half window, capacity and threshold, and every     *)
(* trust and decision parameter.  The counters add up by induction with    *)
(* their type; that a dropped packet leaves no trace needs that type too,  *)
(* since a reset of the counters must not look like a packet.  That trust  *)
(* follows the verdict rests on the bounds of the moving average.          *)
(* The types of all components follow, and with them that scores and       *)
(* Equation (1) stay between 0 and 1.  Last, a behaviour of the router is  *)
(* one of its SEQN cache and one of its limiter, so that the theorems of   *)
(* SeqCacheProofs and RateLimiterProofs hold inside it.                    *)
(***************************************************************************)
EXTENDS RouterHistory, SequenceTheorems, WellFoundedInduction, TLAPS

StatsOK == m_stats \in [Counters -> Nat]

(* The inductive invariant. *)
StatsInv == StatsOK /\ StatsAddUp

-----------------------------------------------------------------------------
(* Lemmas: what a step does to the counters. *)

(* Count() raises the counters it is given by one and no others.           *)
LEMMA CountFacts ==
  ASSUME StatsOK, NEW cs, Count(cs)
  PROVE  /\ StatsOK'
         /\ \A c \in Counters :
              m_stats'[c] = IF c \in cs THEN m_stats[c] + 1 ELSE m_stats[c]
BY DEF StatsOK, Count

(* The three outcomes of process().                                        *)
DropsOne(c) ==
  /\ m_stats'.totalPackets = m_stats.totalPackets + 1
  /\ m_stats'[c] = m_stats[c] + 1
  /\ \A d \in Counters \ {c, "totalPackets"} : m_stats'[d] = m_stats[d]

ForwardsOne ==
  /\ m_stats'.totalPackets = m_stats.totalPackets + 1
  /\ m_stats'.forwarded = m_stats.forwarded + 1
  /\ m_stats'.droppedTampering = m_stats.droppedTampering
  /\ m_stats'.droppedReplay = m_stats.droppedReplay
  /\ \A c \in {"cached", "rateLimited"} :
       m_stats'[c] \in {m_stats[c], m_stats[c] + 1}

(* A packet with a wrong tag raises its own counter and the total. *)
LEMMA DropTamperingCounts ==
  ASSUME StatsOK, NEW name, NEW hdr, NEW hop, NEW succeeds,
         DropTampering(name, hdr, hop, succeeds)
  PROVE  StatsOK' /\ DropsOne("droppedTampering")
<1>1. Count({"totalPackets", "droppedTampering"})
  BY DEF DropTampering
<1> QED BY <1>1, CountFacts DEF DropsOne, Counters

(* So does a packet with a stale number. *)
LEMMA DropReplayCounts ==
  ASSUME StatsOK, NEW name, NEW hdr, NEW hop, NEW succeeds,
         DropReplay(name, hdr, hop, succeeds)
  PROVE  StatsOK' /\ DropsOne("droppedReplay")
<1>1. Count({"totalPackets", "droppedReplay"})
  BY DEF DropReplay
<1> QED BY <1>1, CountFacts DEF DropsOne, Counters

(* A forwarded packet may be counted as cached and as clamped too. *)
LEMMA ForwardCounts ==
  ASSUME StatsOK, NEW name, NEW hdr, NEW hop, NEW succeeds,
         Forward(name, hdr, hop, succeeds)
  PROVE  StatsOK' /\ ForwardsOne
<1>1. PICK cs \in SUBSET {"cached", "rateLimited"} :
        Count({"totalPackets", "forwarded"} \cup cs)
  <2>1. ASSUME NEW ph, NEW rhc, NEW counted, Conclude(ph, rhc, hop, counted)
        PROVE  Count(counted) \/ Count(counted \cup {"cached"})
    <3>1. PICK shouldCache \in BOOLEAN :
            Count(counted \cup (IF shouldCache THEN {"cached"} ELSE {}))
      BY <2>1 DEF Conclude
    <3>2. CASE shouldCache
      BY <3>1, <3>2
    <3>3. CASE ~ shouldCache
      <4>1. counted \cup {} = counted
        OBVIOUS
      <4> QED BY <3>1, <3>3, <4>1
    <3> QED BY <3>2, <3>3
  <2>2. CASE Conclude(Rate!Window(name).lastPh, hdr.rhc, hop,
                      {"totalPackets", "forwarded", "rateLimited"})
    <3>1. \/ Count({"totalPackets", "forwarded", "rateLimited"})
          \/ Count({"totalPackets", "forwarded", "rateLimited"} \cup {"cached"})
      BY <2>1, <2>2
    <3>2. /\ {"totalPackets", "forwarded", "rateLimited"}
               = {"totalPackets", "forwarded"} \cup {"rateLimited"}
          /\ {"totalPackets", "forwarded", "rateLimited"} \cup {"cached"}
               = {"totalPackets", "forwarded"} \cup {"cached", "rateLimited"}
      OBVIOUS
    <3> QED BY <3>1, <3>2
  <2>3. CASE Conclude(hdr.ph, hdr.rhc, hop, {"totalPackets", "forwarded"})
    <3>1. \/ Count({"totalPackets", "forwarded"})
          \/ Count({"totalPackets", "forwarded"} \cup {"cached"})
      BY <2>1, <2>3
    <3>2. {"totalPackets", "forwarded"} = {"totalPackets", "forwarded"} \cup {}
      OBVIOUS
    <3> QED BY <3>1, <3>2
  <2> QED BY <2>2, <2>3 DEF Forward
<1> QED BY <1>1, CountFacts DEF ForwardsOne, Counters

(* Every other step resets the counters or leaves them alone.              *)
LEMMA OtherSteps ==
  ASSUME ResetStats \/ ClearSeqCache \/ ClearRateLimiter \/ AdvanceClock
           \/ UNCHANGED vars
  PROVE  m_stats' = ZeroStats \/ m_stats' = m_stats
BY DEF ResetStats, ClearSeqCache, ClearRateLimiter, AdvanceClock, vars

-----------------------------------------------------------------------------
(* The counters. *)

(* The counters have their types and add up after every step. *)
LEMMA StatsInvInductive ==
  /\ Init => StatsInv
  /\ StatsInv /\ [Next]_vars => StatsInv'
<1>1. Init => StatsInv
  BY DEF Init, StatsInv, StatsOK, StatsAddUp, ZeroStats, Counters
<1>2. ASSUME StatsInv, [Next]_vars
      PROVE  StatsInv'
  <2>1. StatsOK /\ StatsAddUp
    BY <1>2 DEF StatsInv
  <2>2. \A c \in Counters : m_stats[c] \in Nat
    BY <2>1 DEF StatsOK
  <2>3. ASSUME NEW name, NEW hop, NEW succeeds, NEW hdr,
               Process(name, hdr, hop, succeeds)
        PROVE  StatsInv'
    <3>1. CASE DropTampering(name, hdr, hop, succeeds)
      BY <2>1, <2>2, <3>1, DropTamperingCounts
         DEF DropsOne, StatsInv, StatsAddUp, Counters
    <3>2. CASE DropReplay(name, hdr, hop, succeeds)
      BY <2>1, <2>2, <3>2, DropReplayCounts
         DEF DropsOne, StatsInv, StatsAddUp, Counters
    <3>3. CASE Forward(name, hdr, hop, succeeds)
      BY <2>1, <2>2, <3>3, ForwardCounts
         DEF ForwardsOne, StatsInv, StatsAddUp, Counters
    <3> QED BY <2>3, <3>1, <3>2, <3>3 DEF Process
  <2>4. ASSUME m_stats' = ZeroStats \/ m_stats' = m_stats
        PROVE  StatsInv'
    BY <2>1, <2>4 DEF StatsInv, StatsOK, StatsAddUp, ZeroStats, Counters
  <2> QED BY <1>2, <2>3, <2>4, OtherSteps DEF Next
<1> QED BY <1>1, <1>2

(* StatsAddUp for all constants: every packet is counted under exactly one *)
(* outcome, the cached and the clamped ones among the forwarded, whatever  *)
(* the packets are and whenever the counters are reset.                    *)
THEOREM SpecStatsAddUp == Spec => []StatsAddUp
<1>1. Init => StatsInv
  BY StatsInvInductive
<1>2. StatsInv /\ [Next]_vars => StatsInv'
  BY StatsInvInductive
<1>3. StatsInv => StatsAddUp
  BY DEF StatsInv
<1> QED BY <1>1, <1>2, <1>3, PTL DEF Spec

-----------------------------------------------------------------------------
(* Dropped packets. *)

NoTrace == Dropped => UNCHANGED <<seqVars, rateVars, coreVars>>

(* A step either counts no dropped packet or leaves the other checks alone. *)
LEMMA DropLeavesNoTrace ==
  ASSUME StatsOK, [Next]_vars
  PROVE  NoTrace
<1>1. \A c \in Counters : m_stats[c] \in Nat
  BY DEF StatsOK
<1>2. ASSUME NEW name, NEW hop, NEW succeeds, NEW hdr,
             Process(name, hdr, hop, succeeds)
      PROVE  NoTrace
  <2>1. CASE DropTampering(name, hdr, hop, succeeds)
    BY <2>1 DEF DropTampering, NoTrace
  <2>2. CASE DropReplay(name, hdr, hop, succeeds)
    BY <2>2 DEF DropReplay, Seq8!DropUnfresh, Seq8!cache, seqVars, NoTrace
  <2>3. CASE Forward(name, hdr, hop, succeeds)
    <3>1. m_stats'.forwarded = m_stats.forwarded + 1
      BY <2>3, ForwardCounts DEF ForwardsOne
    <3> QED BY <1>1, <3>1 DEF NoTrace, Dropped, Counters
  <2> QED BY <1>2, <2>1, <2>2, <2>3 DEF Process
<1>3. ASSUME m_stats' = ZeroStats \/ m_stats' = m_stats
      PROVE  NoTrace
  BY <1>1, <1>3 DEF NoTrace, Dropped, Processed, ZeroStats, Counters
<1> QED BY <1>2, <1>3, OtherSteps DEF Next

(* DroppedLeavesNoTrace for all constants: a packet that any of the checks *)
(* drops has moved no number, no LRU position, no window and no decision.  *)
THEOREM SpecDroppedLeavesNoTrace == Spec => DroppedLeavesNoTrace
<1>1. Init => StatsInv
  BY StatsInvInductive
<1>2. StatsInv /\ [Next]_vars => StatsInv'
  BY StatsInvInductive
<1>3. StatsInv /\ [Next]_vars => [NoTrace]_vars
  BY DropLeavesNoTrace DEF StatsInv
<1> HIDE DEF NoTrace
<1>4. Spec => [][NoTrace]_vars
  BY <1>1, <1>2, <1>3, PTL DEF Spec
<1> QED BY <1>4 DEF DroppedLeavesNoTrace, NoTrace

-----------------------------------------------------------------------------
(* Lemmas: arithmetic of the moving average. *)

(* Products with a positive number are ordered as the factors are. *)
LEMMA ProductOrder ==
  ASSUME NEW p \in Int, NEW r \in Int, NEW w \in Nat \ {0}, p * w < r * w
  PROVE  p < r
<1>1. CASE p >= r
  <2>1. p * w >= r * w
    BY <1>1
  <2> QED BY <2>1
<1> QED BY <1>1

(* What a quotient of natural numbers is, without division. *)
LEMMA DivBounds ==
  ASSUME NEW a \in Nat, NEW w \in Nat \ {0}
  PROVE  /\ a \div w \in Nat
         /\ (a \div w) * w <= a
         /\ a < (a \div w + 1) * w
OBVIOUS

(* Decay lowers a score, by no more than consistency adds.                 *)
LEMMA DecayedBounds ==
  ASSUME NEW x \in 0..One
  PROVE  Trust!Decayed(x) \in 0..x /\ Trust!Decayed(x) >= x - (One - Decay)
<1> DEFINE a == x * Decay
           q == a \div One
           y == x - (One - Decay)
<1>1. One \in Nat \ {0} /\ Decay \in Nat /\ Decay <= One /\ x \in Nat /\ x <= One
  BY RouterPipelineAssumption
<1>2. a \in Nat /\ a <= x * One
  BY <1>1
<1>3. y * One <= a
  <2>1. a - y * One = (One - Decay) * (One - x)
    BY <1>1
  <2>2. (One - Decay) * (One - x) >= 0
    <3>1. One - Decay \in Nat /\ One - x \in Nat
      BY <1>1
    <3> QED BY <3>1
  <2> HIDE DEF a
  <2>3. y * One \in Int
    BY <1>1
  <2> HIDE DEF y
  <2> QED BY <1>2, <2>1, <2>2, <2>3
<1>4. y \in Int
  BY <1>1
<1> HIDE DEF a, y
<1>5. q \in Nat /\ q * One <= a /\ a < (q + 1) * One
  BY <1>1, <1>2, DivBounds
<1> HIDE DEF q
<1>6. q <= x
  <2>1. q * One < (x + 1) * One
    <3>1. x * One < (x + 1) * One /\ x * One \in Nat /\ q * One \in Nat
          /\ (x + 1) * One \in Nat
      BY <1>1, <1>5
    <3> QED BY <1>2, <1>5, <3>1
  <2> QED BY <1>1, <1>5, <2>1, ProductOrder
<1>7. q >= y
  <2>1. y * One < (q + 1) * One
    <3>1. y * One \in Int /\ (q + 1) * One \in Int
      BY <1>1, <1>4, <1>5
    <3> QED BY <1>2, <1>3, <1>5, <3>1
  <2>2. y < q + 1
    BY <1>1, <1>4, <1>5, <2>1, ProductOrder
  <2> QED BY <1>4, <1>5, <2>2
<1>8. Trust!Decayed(x) = q
  BY DEF Trust!Decayed, q, a
<1> QED BY <1>1, <1>5, <1>6, <1>7, <1>8 DEF y

-----------------------------------------------------------------------------
(* Trust. *)

(* What update() does to the scores the pipeline reads.                    *)
Judged(hop, consistent) ==
  /\ Trust!ScoresOK'
  /\ \A g \in Neighbours \ {hop} :
       Trust!getTrustScore(g)' = Trust!getTrustScore(g)
  /\ ~ consistent => Trust!getTrustScore(hop)' <= Trust!getTrustScore(hop)
  /\ (consistent /\ hop \in DOMAIN m_scores)
       => Trust!getTrustScore(hop)' >= Trust!getTrustScore(hop)

(* update() moves one score, in the direction of the verdict. *)
LEMMA UpdateJudges ==
  ASSUME Trust!ScoresOK, NEW hop \in Neighbours, NEW consistent \in BOOLEAN,
         Trust!Update(hop, consistent)
  PROVE  Judged(hop, consistent)
<1> DEFINE start == Trust!StartScore(hop)
           score == Trust!NewScore(hop, consistent)
<1>1. /\ One \in Nat \ {0} /\ Decay \in Nat /\ Decay <= One
      /\ InitialTrust \in Nat /\ InitialTrust <= One
  BY RouterPipelineAssumption
<1>2. start = IF hop \in DOMAIN m_scores THEN m_scores[hop] ELSE 0
  BY DEF Trust!StartScore
<1>3. start \in 0..One
  BY <1>1, <1>2 DEF Trust!ScoresOK, Trust!Scores
<1>4. /\ Trust!Decayed(start) \in 0..start
      /\ Trust!Decayed(start) >= start - (One - Decay)
  BY <1>3, DecayedBounds
<1>5. score = Trust!Clamped(IF consistent THEN Trust!Decayed(start) + (One - Decay)
                                          ELSE Trust!Decayed(start))
  BY DEF Trust!NewScore
<1> HIDE DEF start, score
<1>6. /\ score \in 0..One
      /\ ~ consistent => score <= start
      /\ consistent => score >= start
  BY <1>1, <1>3, <1>4, <1>5 DEF Trust!Clamped
<1>7. m_scores' = [g \in DOMAIN m_scores \cup {hop} |->
                     IF g = hop THEN score ELSE m_scores[g]]
  BY DEF Trust!Update, score
<1>8. Trust!ScoresOK'
  BY <1>6, <1>7 DEF Trust!ScoresOK, Trust!Scores
<1>9. \A g \in Neighbours \ {hop} :
        Trust!getTrustScore(g)' = Trust!getTrustScore(g)
  BY <1>7 DEF Trust!getTrustScore
<1>10. Trust!getTrustScore(hop)' = score
  BY <1>7 DEF Trust!getTrustScore
<1>11. CASE hop \in DOMAIN m_scores
  <2>1. Trust!getTrustScore(hop) = start
    BY <1>2, <1>11 DEF Trust!getTrustScore
  <2> QED BY <1>6, <1>8, <1>9, <1>10, <2>1 DEF Judged
<1>12. CASE hop \notin DOMAIN m_scores
  <2>1. Trust!getTrustScore(hop) = InitialTrust /\ start = 0
    BY <1>2, <1>12 DEF Trust!getTrustScore
  <2>2. ~ consistent => score <= InitialTrust
    BY <1>1, <1>6, <2>1
  <2> QED BY <1>8, <1>9, <1>10, <1>12, <2>1, <2>2 DEF Judged
<1> QED BY <1>11, <1>12

(* The inductive invariant of trust. *)
TrustInv == StatsInv /\ Trust!ScoresOK

FollowsVerdict ==
  Processed =>
    \A g \in Neighbours :
      LET before == Trust!getTrustScore(g)
          after == Trust!getTrustScore(g)' IN
        /\ g # decision'[1] => after = before
        /\ Dropped => after <= before
        /\ (~ Dropped /\ g \in DOMAIN m_scores) => after >= before

(* getTrustScore() returns a natural number, for a new hop too. *)
LEMMA TrustTypes ==
  ASSUME Trust!ScoresOK
  PROVE  \A g \in Neighbours : Trust!getTrustScore(g) \in Nat
<1>1. InitialTrust \in Nat /\ One \in Nat
  BY RouterPipelineAssumption
<1> QED BY <1>1 DEF Trust!ScoresOK, Trust!Scores, Trust!getTrustScore

(* Every step keeps the types of the scores and follows the verdict. *)
LEMMA TrustStep ==
  ASSUME TrustInv, [Next]_vars
  PROVE  Trust!ScoresOK' /\ FollowsVerdict
<1>1. /\ StatsOK /\ Trust!ScoresOK
      /\ \A c \in Counters : m_stats[c] \in Nat
  BY DEF TrustInv, StatsInv, StatsOK
<1>2. \A g \in Neighbours : Trust!getTrustScore(g) \in Nat
  BY <1>1, TrustTypes
<1>3. ASSUME NEW hop \in Neighbours, NEW consistent \in BOOLEAN,
             Trust!Update(hop, consistent), decision'[1] = hop,
             Processed => (Dropped <=> ~ consistent)
      PROVE  Trust!ScoresOK' /\ FollowsVerdict
  <2>1. Judged(hop, consistent)
    BY <1>1, <1>3, UpdateJudges
  <2>2. Trust!ScoresOK'
    BY <2>1 DEF Judged
  <2>3. ASSUME NEW g \in Neighbours, Processed
        PROVE  /\ g # decision'[1] => Trust!getTrustScore(g)' = Trust!getTrustScore(g)
               /\ Dropped => Trust!getTrustScore(g)' <= Trust!getTrustScore(g)
               /\ (~ Dropped /\ g \in DOMAIN m_scores)
                    => Trust!getTrustScore(g)' >= Trust!getTrustScore(g)
    <3>1. CASE g = hop
      BY <1>3, <2>1, <2>3, <3>1 DEF Judged
    <3>2. CASE g # hop
      <4>1. Trust!getTrustScore(g)' = Trust!getTrustScore(g)
        BY <2>1, <3>2 DEF Judged
      <4> QED BY <1>2, <4>1
    <3> QED BY <3>1, <3>2
  <2> QED BY <2>2, <2>3 DEF FollowsVerdict
<1>4. ASSUME NEW name, NEW hop \in Neighbours, NEW succeeds, NEW hdr,
             Process(name, hdr, hop, succeeds)
      PROVE  Trust!ScoresOK' /\ FollowsVerdict
  <2>1. CASE DropTampering(name, hdr, hop, succeeds)
    <3>1. Trust!Update(hop, FALSE) /\ decision'[1] = hop
      BY <2>1 DEF DropTampering, Return
    <3>2. Processed => Dropped
      BY <1>1, <2>1, DropTamperingCounts DEF DropsOne, Dropped, Counters
    <3> QED BY <1>3, <3>1, <3>2
  <2>2. CASE DropReplay(name, hdr, hop, succeeds)
    <3>1. Trust!Update(hop, FALSE) /\ decision'[1] = hop
      BY <2>2 DEF DropReplay, Return
    <3>2. Processed => Dropped
      BY <1>1, <2>2, DropReplayCounts DEF DropsOne, Dropped, Counters
    <3> QED BY <1>3, <3>1, <3>2
  <2>3. CASE Forward(name, hdr, hop, succeeds)
    <3>1. Trust!Update(hop, TRUE) /\ decision'[1] = hop
      <4>1. ASSUME NEW ph, NEW rhc, NEW counted, Conclude(ph, rhc, hop, counted)
            PROVE  Trust!Update(hop, TRUE) /\ decision'[1] = hop
        <5>1. PICK verdict : Trust!Update(hop, TRUE) /\ Return(hop, verdict)
          BY <4>1 DEF Conclude
        <5> QED BY <5>1 DEF Return
      <4> QED BY <2>3, <4>1 DEF Forward
    <3>2. ~ Dropped
      <4>1. m_stats'.forwarded = m_stats.forwarded + 1
        BY <1>1, <2>3, ForwardCounts DEF ForwardsOne
      <4> QED BY <1>1, <4>1 DEF Dropped, Counters
    <3> QED BY <1>3, <3>1, <3>2
  <2> QED BY <1>4, <2>1, <2>2, <2>3 DEF Process
<1>5. ASSUME ResetStats \/ ClearSeqCache \/ ClearRateLimiter \/ AdvanceClock
               \/ UNCHANGED vars
      PROVE  Trust!ScoresOK' /\ FollowsVerdict
  <2>1. m_scores' = m_scores
    BY <1>5 DEF ResetStats, ClearSeqCache, ClearRateLimiter, AdvanceClock, vars
  <2>2. ~ Processed
    <3>1. m_stats' = ZeroStats \/ m_stats' = m_stats
      BY <1>5, OtherSteps
    <3> QED BY <1>1, <3>1 DEF Processed, ZeroStats, Counters
  <2> QED BY <1>1, <2>1, <2>2 DEF FollowsVerdict, Trust!ScoresOK
<1> QED BY <1>4, <1>5 DEF Next

(* TrustFollowsVerdict for all constants: a packet moves the trust in the  *)
(* hop that delivered it and in no other, down or not at all when it is    *)
(* dropped, and up or not at all when it is forwarded and the hop has a    *)
(* score.  Scores stay within [0, 1], or the average could leave it.       *)
THEOREM SpecTrustFollowsVerdict == Spec => TrustFollowsVerdict
<1>1. Init => TrustInv
  BY StatsInvInductive DEF TrustInv, Init, Trust!InitScores, Trust!ScoresOK
<1>2. TrustInv /\ [Next]_vars => TrustInv'
  BY StatsInvInductive, TrustStep DEF TrustInv
<1>3. TrustInv /\ [Next]_vars => [FollowsVerdict]_vars
  BY TrustStep
<1> HIDE DEF FollowsVerdict
<1>4. Spec => [][FollowsVerdict]_vars
  BY <1>1, <1>2, <1>3, PTL DEF Spec
<1> QED BY <1>4 DEF TrustFollowsVerdict, FollowsVerdict

-----------------------------------------------------------------------------
(* Lemmas: the types of the SEQN cache. *)

(* A list with one element taken out is still a list of the set. *)
LEMMA RemovedOne ==
  ASSUME NEW S, NEW list \in Seq(S), NEW k \in 1..Len(list)
  PROVE  SubSeq(list, 1, k - 1) \o SubSeq(list, k + 1, Len(list)) \in Seq(S)
<1> DEFINE left == SubSeq(list, 1, k - 1)
           right == SubSeq(list, k + 1, Len(list))
<1>1. left \in Seq(S) /\ right \in Seq(S)
  BY SubSeqProperties, ElementOfSeq, LenProperties
<1> HIDE DEF left, right
<1>2. left \o right \in Seq(S)
  BY <1>1, ConcatProperties
<1> QED BY <1>2 DEF left, right

(* So is a list without its last element. *)
LEMMA AllButLast ==
  ASSUME NEW S, NEW list \in Seq(S)
  PROVE  SubSeq(list, 1, Len(list) - 1) \in Seq(S)
<1>1. Len(list) \in Nat
  BY LenProperties
<1>2. \A i \in 1..(Len(list) - 1) : list[i] \in S
  BY <1>1, ElementOfSeq
<1> DEFINE m == Len(list) - 1
<1>3. 1 \in Int /\ m \in Int
  BY <1>1
<1>4. \A i \in 1..m : list[i] \in S
  BY <1>2
<1> HIDE DEF m
<1>5. SubSeq(list, 1, m) \in Seq(S)
  BY <1>3, <1>4, SubSeqProperties
<1> QED BY <1>5 DEF m

(* An accepting call of the SEQN cache keeps its types. *)
LEMMA AcceptTypes ==
  ASSUME Seq8!TypeOK, NEW n \in Names, NEW s \in Seq8!Seqns,
         Seq8!Accept(n, s)
  PROVE  Seq8!TypeOK'
<1>1. /\ m_maxTrackedEntries \in Capacities
      /\ Seq8!Tracked \subseteq Names /\ Seq8!Tracked = DOMAIN m_seqTable
      /\ m_seqTable \in [Seq8!Tracked -> Seq8!Seqns]
      /\ m_lruTracker \in Seq(Seq8!Elements)
      /\ m_lruMap \in [Seq8!Tracked -> Nodes]
      /\ s \in Seq8!Seqns
  BY DEF Seq8!TypeOK, Seq8!Tracked
<1>2. ASSUME NEW keep \in SUBSET Seq8!Tracked, NEW table, NEW iters,
             NEW list \in Seq(Seq8!Elements),
             DOMAIN table = keep, DOMAIN iters = keep,
             \A m \in keep : table[m] = m_seqTable[m] /\ iters[m] = m_lruMap[m],
             Seq8!Insert(n, s, table, list, iters),
             m_maxTrackedEntries' = m_maxTrackedEntries
      PROVE  Seq8!TypeOK'
  <2>1. PICK p \in Nodes :
          /\ m_seqTable' = [m \in keep \cup {n} |-> IF m = n THEN s ELSE table[m]]
          /\ m_lruTracker' = <<[node |-> p, name |-> n]>> \o list
          /\ m_lruMap' = [m \in keep \cup {n} |-> IF m = n THEN p ELSE iters[m]]
    BY <1>2 DEF Seq8!Insert
  <2>2. Seq8!Tracked' = keep \cup {n}
    BY <2>1 DEF Seq8!Tracked
  <2>3. /\ m_seqTable' \in [keep \cup {n} -> Seq8!Seqns]
        /\ m_lruMap' \in [keep \cup {n} -> Nodes]
    BY <1>1, <1>2, <2>1
  <2>4. m_lruTracker' \in Seq(Seq8!Elements)
    <3> DEFINE e == [node |-> p, name |-> n]
    <3>1. e \in Seq8!Elements
      BY DEF Seq8!Elements
    <3>2. <<e>> \in Seq(Seq8!Elements)
      <4> HIDE DEF e
      <4> QED BY <3>1
    <3> HIDE DEF e
    <3>3. <<e>> \o list \in Seq(Seq8!Elements)
      BY <3>2, ConcatProperties
    <3> QED BY <2>1, <3>3 DEF e
  <2>5. Seq8!TypeOK'
    BY <1>1, <1>2, <2>2, <2>3, <2>4 DEF Seq8!TypeOK, Seq8!Seqns
  <2> QED BY <2>5
<1>3. CASE Seq8!AcceptTracked(n, s)
  <2>1. PICK i \in DOMAIN m_lruTracker :
          Seq8!Insert(n, s, m_seqTable, Seq8!RemoveAt(m_lruTracker, i), m_lruMap)
    BY <1>3 DEF Seq8!AcceptTracked
  <2>2. Seq8!RemoveAt(m_lruTracker, i) \in Seq(Seq8!Elements)
    <3>1. i \in 1..Len(m_lruTracker)
      BY <1>1, LenProperties
    <3>2. SubSeq(m_lruTracker, 1, i - 1)
            \o SubSeq(m_lruTracker, i + 1, Len(m_lruTracker)) \in Seq(Seq8!Elements)
      BY <1>1, <3>1, RemovedOne
    <3> QED BY <3>2 DEF Seq8!RemoveAt
  <2>3. m_maxTrackedEntries' = m_maxTrackedEntries
    BY <1>3 DEF Seq8!AcceptTracked
  <2>4. DOMAIN m_seqTable = Seq8!Tracked /\ DOMAIN m_lruMap = Seq8!Tracked
    BY <1>1
  <2> QED BY <1>2, <2>1, <2>2, <2>3, <2>4
<1>4. CASE Seq8!AcceptNew(n, s)
  <2>1. /\ Seq8!Insert(n, s, m_seqTable, m_lruTracker, m_lruMap)
        /\ m_maxTrackedEntries' = m_maxTrackedEntries
    BY <1>4 DEF Seq8!AcceptNew
  <2>2. DOMAIN m_seqTable = Seq8!Tracked /\ DOMAIN m_lruMap = Seq8!Tracked
    BY <1>1
  <2> QED BY <1>1, <1>2, <2>1, <2>2
<1>5. CASE Seq8!AcceptEvicting(n, s)
  <2> DEFINE keep == Seq8!Tracked \ {Seq8!OldestKey}
             table == Seq8!Restrict(m_seqTable, keep)
             iters == Seq8!Restrict(m_lruMap, keep)
             list == Seq8!Front(m_lruTracker)
  <2>1. /\ Seq8!Insert(n, s, table, list, iters)
        /\ m_maxTrackedEntries' = m_maxTrackedEntries
    BY <1>1, <1>5 DEF Seq8!AcceptEvicting
  <2>2. /\ DOMAIN table = keep /\ DOMAIN iters = keep
        /\ \A m \in keep : table[m] = m_seqTable[m] /\ iters[m] = m_lruMap[m]
    BY DEF Seq8!Restrict
  <2>3. list \in Seq(Seq8!Elements)
    BY <1>1, AllButLast DEF Seq8!Front
  <2>4. keep \in SUBSET Seq8!Tracked
    OBVIOUS
  <2> HIDE DEF keep, table, iters, list
  <2> QED BY <1>2, <2>1, <2>2, <2>3, <2>4
<1> QED BY <1>3, <1>4, <1>5 DEF Seq8!Accept

-----------------------------------------------------------------------------
(* Lemmas: the types of the rate limiter. *)

(* A set of natural numbers that is not empty has a least element. *)
LEMMA LeastElement ==
  ASSUME NEW T \in SUBSET Nat, T # {}
  PROVE  \E x \in T : \A y \in T : x <= y
<1> DEFINE Less == {p \in Nat \X Nat : p[1] < p[2]}
<1>1. IsWellFoundedOn(Less, Nat)
  BY NatLessThanWellFounded DEF OpToRel
<1>2. PICK x \in T : \A y \in T : ~ (<<y, x>> \in Less)
  <2> HIDE DEF Less
  <2> QED BY <1>1, WFMin
<1>3. ASSUME NEW y \in T
      PROVE  x <= y
  <2>1. x \in Nat /\ y \in Nat
    OBVIOUS
  <2>2. ~ (y < x)
    <3>1. <<y, x>>[1] = y /\ <<y, x>>[2] = x /\ <<y, x>> \in Nat \X Nat
      BY <2>1
    <3>2. <<y, x>> \notin Less
      BY <1>2
    <3> QED BY <3>1, <3>2
  <2> QED BY <2>1, <2>2
<1> QED BY <1>3

(* What is left of a window after expired timestamps were popped. *)
LEMMA PurgedFacts ==
  ASSUME NEW ts \in Seq(Nat)
  PROVE  \E k \in 1..(Len(ts) + 1) :
           /\ Rate!Purged(ts) = SubSeq(ts, k, Len(ts))
           /\ \A i \in 1..(k - 1) : Rate!Expired(ts[i])
<1> DEFINE P(k) == /\ \A i \in 1..(k - 1) : Rate!Expired(ts[i])
                   /\ k <= Len(ts) => ~ Rate!Expired(ts[k])
           T == {k \in 1..(Len(ts) + 1) : k <= Len(ts) => ~ Rate!Expired(ts[k])}
<1>1. Len(ts) \in Nat
  BY LenProperties
<1>2. Len(ts) + 1 \in T /\ T \in SUBSET Nat
  BY <1>1
<1>3. PICK k \in T : \A y \in T : k <= y
  <2> HIDE DEF T
  <2> QED BY <1>2, LeastElement
<1>4. \A i \in 1..(k - 1) : Rate!Expired(ts[i])
  <2> TAKE i \in 1..(k - 1)
  <2>1. i \in 1..(Len(ts) + 1) /\ i <= Len(ts) /\ ~ (k <= i)
    BY <1>1, <1>3
  <2> QED BY <1>3, <2>1
<1>5. k \in 1..(Len(ts) + 1) /\ P(k)
  BY <1>3, <1>4
<1>6. \E j \in 1..(Len(ts) + 1) : P(j)
  BY <1>5
<1>7. Rate!Purged(ts) = SubSeq(ts, CHOOSE j \in 1..(Len(ts) + 1) : P(j), Len(ts))
  BY DEF Rate!Purged
<1> DEFINE c == CHOOSE j \in 1..(Len(ts) + 1) : P(j)
<1>8. c \in 1..(Len(ts) + 1) /\ P(c)
  <2> HIDE DEF P
  <2> QED BY <1>6
<1> HIDE DEF c
<1>9. Rate!Purged(ts) = SubSeq(ts, c, Len(ts))
  BY <1>7 DEF c
<1> QED BY <1>8, <1>9

(* The limiter's part of the type invariant. *)
WindowsOK ==
  /\ m_maxIncrPerWindow \in Thresholds
  /\ m_windows \in [DOMAIN m_windows -> Rate!Windows]
  /\ DOMAIN m_windows \subseteq Names

(* The window of a name is a window, for a name not seen before too. *)
LEMMA WindowType ==
  ASSUME WindowsOK, NEW n
  PROVE  Rate!Window(n) \in Rate!Windows
<1>1. CASE n \in DOMAIN m_windows
  BY <1>1 DEF WindowsOK, Rate!Window
<1>2. CASE n \notin DOMAIN m_windows
  <2>1. Rate!Window(n) = [timestamps |-> << >>, lastPh |-> 0]
    BY <1>2 DEF Rate!Window
  <2>2. << >> \in Seq(Nat)
    OBVIOUS
  <2> QED BY <2>1, <2>2 DEF Rate!Windows
<1> QED BY <1>1, <1>2

(* Writing back the window of one name keeps the types. *)
LEMMA StoreTypes ==
  ASSUME WindowsOK, NEW n \in Names, NEW w \in Rate!Windows, Rate!Store(n, w),
         m_maxIncrPerWindow' = m_maxIncrPerWindow
  PROVE  WindowsOK'
<1>1. m_windows' = [m \in DOMAIN m_windows \cup {n} |->
                      IF m = n THEN w ELSE m_windows[m]]
  BY DEF Rate!Store
<1>2. \A m \in DOMAIN m_windows : m_windows[m] \in Rate!Windows
  BY DEF WindowsOK
<1>3. m_windows' \in [DOMAIN m_windows \cup {n} -> Rate!Windows]
  BY <1>1, <1>2
<1>4. DOMAIN m_windows' = DOMAIN m_windows \cup {n}
  BY <1>1
<1> QED BY <1>3, <1>4 DEF WindowsOK

(* What a purge leaves is a list of timestamps. *)
LEMMA LiveType ==
  ASSUME WindowsOK, NEW n
  PROVE  Rate!Live(n) \in Seq(Nat)
<1> DEFINE ts == Rate!Window(n).timestamps
<1>1. ts \in Seq(Nat)
  BY WindowType DEF Rate!Windows
<1> HIDE DEF ts
<1>2. PICK k \in 1..(Len(ts) + 1) : Rate!Purged(ts) = SubSeq(ts, k, Len(ts))
  BY <1>1, PurgedFacts
<1>3. Len(ts) \in Nat
  BY <1>1, LenProperties
<1>4. \A i \in k..Len(ts) : ts[i] \in Nat
  BY <1>1, <1>2, <1>3, ElementOfSeq
<1>5. SubSeq(ts, k, Len(ts)) \in Seq(Nat)
  BY <1>2, <1>3, <1>4, SubSeqProperties
<1> QED BY <1>2, <1>5 DEF ts, Rate!Live

(* A clamped packet: only the purge shows. *)
LEMMA ClampTypes ==
  ASSUME WindowsOK, NEW n \in Names, Rate!Clamp(n)
  PROVE  WindowsOK'
<1> DEFINE w == [timestamps |-> Rate!Live(n), lastPh |-> Rate!Window(n).lastPh]
<1>1. w \in Rate!Windows
  BY WindowType, LiveType DEF Rate!Windows
<1>2. Rate!Store(n, w) /\ m_maxIncrPerWindow' = m_maxIncrPerWindow
  BY DEF Rate!Clamp
<1> HIDE DEF w
<1> QED BY <1>1, <1>2, StoreTypes

(* A packet let through: one timestamp more, of either clock. *)
LEMMA RecordTypes ==
  ASSUME WindowsOK, simNs \in Nat, wallMs \in Nat, NEW n \in Names, NEW ph \in Nat,
         Rate!Record(n, ph)
  PROVE  WindowsOK'
<1> DEFINE w == [timestamps |-> Append(Rate!Live(n), Rate!NowMs), lastPh |-> ph]
<1>1. Rate!NowMs \in Nat
  <2>1. simNs \div NsPerMs \in Nat
    BY DivBounds, RouterPipelineAssumption
  <2> QED BY <2>1 DEF Rate!NowMs
<1>2. Append(Rate!Live(n), Rate!NowMs) \in Seq(Nat)
  BY <1>1, LiveType, AppendProperties
<1>3. w \in Rate!Windows
  BY <1>2 DEF Rate!Windows
<1>4. Rate!Store(n, w) /\ m_maxIncrPerWindow' = m_maxIncrPerWindow
  BY DEF Rate!Record
<1> HIDE DEF w
<1> QED BY <1>3, <1>4, StoreTypes

-----------------------------------------------------------------------------
(* Lemmas: the caching decision. *)

(* Equation (1) gives a probability for every PH and RHC, one beyond H_max *)
(* included: the clamp only has to be given a number.                      *)
LEMMA ProbabilityBounds ==
  ASSUME NEW phEff \in Nat, NEW rhcEff \in Nat
  PROVE  Core!probability(phEff, rhcEff) \in 0..One
<1> DEFINE pop == Core!PopularityComponent(phEff)
           loc == Core!LocalityComponent(rhcEff)
           a == Core!EffectiveAlpha
           p == (a * pop + (One - a) * loc) \div One
<1>1. One \in Nat \ {0} /\ MaxHops \in Nat /\ Alpha \in Int
  BY RouterPipelineAssumption
<1>2. a \in Int
  BY <1>1 DEF Core!EffectiveAlpha
<1>3. pop \in Int
  <2>1. One * One \in Nat /\ phEff + 2 * One \in Nat \ {0}
    BY <1>1
  <2>2. (One * One) \div (phEff + 2 * One) \in Nat
    BY <2>1, DivBounds
  <2> QED BY <1>1, <2>2 DEF Core!PopularityComponent
<1>4. loc \in Int
  <2>1. MaxHops + 1 \in Nat \ {0}
    BY <1>1
  <2>2. rhcEff \div (MaxHops + 1) \in Nat
    BY <2>1, DivBounds
  <2> QED BY <2>2 DEF Core!LocalityComponent
<1>5. Core!probability(phEff, rhcEff) = IF p < 0 THEN 0 ELSE IF p > One THEN One ELSE p
  BY DEF Core!probability
<1> HIDE DEF pop, loc, a
<1>6. p \in Int
  <2> DEFINE x == a * pop + (One - a) * loc
  <2>1. x \in Int
    BY <1>1, <1>2, <1>3, <1>4
  <2> HIDE DEF x
  <2>2. x \div One \in Int
    BY <1>1, <2>1
  <2> QED BY <2>2 DEF x
<1> HIDE DEF p
<1> QED BY <1>1, <1>5, <1>6

(* Weighing with a larger factor gives no less. *)
LEMMA ProductGrows ==
  ASSUME NEW a \in Nat, NEW b \in Nat, NEW x \in Nat, NEW y \in Nat,
         a <= b, x <= y
  PROVE  a * x \in Nat /\ b * y \in Nat /\ a * x <= b * y
<1>1. b * y - a * x = (b - a) * y + a * (y - x)
  OBVIOUS
<1>2. (b - a) \in Nat /\ (y - x) \in Nat
  OBVIOUS
<1>3. (b - a) * y \in Nat /\ a * (y - x) \in Nat /\ a * x \in Nat /\ b * y \in Nat
  BY <1>2
<1> QED BY <1>1, <1>3

(* A quotient grows with the number divided ... *)
LEMMA QuotientGrows ==
  ASSUME NEW a \in Nat, NEW b \in Nat, NEW w \in Nat \ {0}, a <= b
  PROVE  a \div w <= b \div w
<1> DEFINE q == a \div w
           r == b \div w
<1>1. q \in Nat /\ r \in Nat /\ q * w <= a /\ b < (r + 1) * w
  BY DivBounds
<1> HIDE DEF q, r
<1>2. q * w < (r + 1) * w
  <2>1. q * w \in Nat /\ (r + 1) * w \in Nat
    BY <1>1
  <2> QED BY <1>1, <2>1
<1>3. q < r + 1
  BY <1>1, <1>2, ProductOrder
<1>4. q <= r
  BY <1>1, <1>3
<1> QED BY <1>4 DEF q, r

(* ... and shrinks with the divisor. *)
LEMMA QuotientShrinks ==
  ASSUME NEW a \in Nat, NEW w \in Nat \ {0}, NEW v \in Nat \ {0}, w <= v
  PROVE  a \div v <= a \div w
<1> DEFINE q == a \div v
           r == a \div w
<1>1. q \in Nat /\ r \in Nat /\ q * v <= a /\ a < (r + 1) * w
  BY DivBounds
<1> HIDE DEF q, r
<1>2. q * w \in Nat /\ q * v \in Nat /\ q * w <= q * v
  BY <1>1, ProductGrows
<1>3. q * w < (r + 1) * w
  <2>1. (r + 1) * w \in Nat
    BY <1>1
  <2> QED BY <1>1, <1>2, <2>1
<1>4. q < r + 1
  BY <1>1, <1>3, ProductOrder
<1>5. q <= r
  BY <1>1, <1>4
<1> QED BY <1>5 DEF q, r

(* The popularity of Equation (1) is no less for a larger PH, nor negative. *)
LEMMA PopularityGrows ==
  ASSUME NEW ph1 \in Nat, NEW ph2 \in Nat, ph1 <= ph2
  PROVE  /\ Core!PopularityComponent(ph1) \in Nat
         /\ Core!PopularityComponent(ph2) \in Nat
         /\ Core!PopularityComponent(ph1) <= Core!PopularityComponent(ph2)
<1> DEFINE square == One * One
           d(ph) == ph + 2 * One
<1>1. One \in Nat \ {0}
  BY RouterPipelineAssumption
<1>2. square \in Nat
  BY <1>1
<1>3. \A ph \in Nat : d(ph) \in Nat \ {0} /\ One <= d(ph)
  BY <1>1
<1> HIDE DEF square, d
<1>4. ASSUME NEW ph \in Nat
      PROVE  square \div d(ph) \in Nat /\ square \div d(ph) <= One
  <2>1. square \div d(ph) \in Nat /\ square \div d(ph) <= square \div One
    BY <1>1, <1>2, <1>3, DivBounds, QuotientShrinks
  <2>2. square \div One = One
    <3> DEFINE q == square \div One
    <3>1. q \in Nat /\ q * One <= square /\ square < (q + 1) * One
      BY <1>1, <1>2, DivBounds
    <3> HIDE DEF q
    <3>2. q * One < (One + 1) * One /\ One * One < (q + 1) * One
      BY <1>1, <3>1 DEF square
    <3>3. q < One + 1 /\ One < q + 1
      BY <1>1, <3>1, <3>2, ProductOrder
    <3> QED BY <1>1, <3>1, <3>3 DEF q
  <2>3. square \div One \in Nat
    BY <1>1, <2>2
  <2> QED BY <2>1, <2>2
<1>5. d(ph1) <= d(ph2)
  BY <1>1 DEF d
<1>6. square \div d(ph2) <= square \div d(ph1)
  BY <1>2, <1>3, <1>5, QuotientShrinks
<1>7. /\ Core!PopularityComponent(ph1) = One - square \div d(ph1)
      /\ Core!PopularityComponent(ph2) = One - square \div d(ph2)
  BY DEF Core!PopularityComponent, square, d
<1> DEFINE q1 == square \div d(ph1)
           q2 == square \div d(ph2)
<1>8. q1 \in Nat /\ q2 \in Nat /\ q1 <= One /\ q2 <= One /\ q2 <= q1
  BY <1>4, <1>6
<1> HIDE DEF q1, q2
<1>9. One - q1 \in Nat /\ One - q2 \in Nat /\ One - q1 <= One - q2
  BY <1>1, <1>8
<1> QED BY <1>7, <1>9 DEF q1, q2

(* Equation (1) is monotone in both hints. *)
LEMMA ProbabilityGrows ==
  ASSUME NEW ph1 \in Nat, NEW ph2 \in Nat, ph1 <= ph2,
         NEW rhc1 \in Nat, NEW rhc2 \in Nat, rhc1 <= rhc2
  PROVE  Core!probability(ph1, rhc1) <= Core!probability(ph2, rhc2)
<1> DEFINE a == Core!EffectiveAlpha
           pop(ph) == Core!PopularityComponent(ph)
           loc(rhc) == Core!LocalityComponent(rhc)
           sum(ph, rhc) == a * pop(ph) + (One - a) * loc(rhc)
           p1 == sum(ph1, rhc1) \div One
           p2 == sum(ph2, rhc2) \div One
<1>1. One \in Nat \ {0} /\ MaxHops + 1 \in Nat \ {0} /\ Alpha \in Int
  BY RouterPipelineAssumption
<1>2. a \in Nat /\ One - a \in Nat
  BY <1>1 DEF Core!EffectiveAlpha
<1>3. pop(ph1) \in Nat /\ pop(ph2) \in Nat /\ pop(ph1) <= pop(ph2)
  BY PopularityGrows
<1>4. loc(rhc1) \in Nat /\ loc(rhc2) \in Nat /\ loc(rhc1) <= loc(rhc2)
  BY <1>1, DivBounds, QuotientGrows DEF Core!LocalityComponent
<1> HIDE DEF a, pop, loc
<1>5. /\ a * pop(ph1) \in Nat /\ a * pop(ph2) \in Nat
      /\ a * pop(ph1) <= a * pop(ph2)
  BY <1>2, <1>3, ProductGrows
<1>6. /\ (One - a) * loc(rhc1) \in Nat /\ (One - a) * loc(rhc2) \in Nat
      /\ (One - a) * loc(rhc1) <= (One - a) * loc(rhc2)
  BY <1>2, <1>4, ProductGrows
<1>7. sum(ph1, rhc1) \in Nat /\ sum(ph2, rhc2) \in Nat
      /\ sum(ph1, rhc1) <= sum(ph2, rhc2)
  BY <1>5, <1>6
<1> HIDE DEF sum
<1>8. p1 \in Nat /\ p2 \in Nat /\ p1 <= p2
  BY <1>1, <1>7, DivBounds, QuotientGrows
<1>9. /\ Core!probability(ph1, rhc1) = IF p1 < 0 THEN 0 ELSE IF p1 > One THEN One ELSE p1
      /\ Core!probability(ph2, rhc2) = IF p2 < 0 THEN 0 ELSE IF p2 > One THEN One ELSE p2
  BY DEF Core!probability, sum, a, pop, loc
<1> HIDE DEF p1, p2
<1> QED BY <1>1, <1>8, <1>9

(* Hints count for less, the less their neighbour is trusted: of two       *)
(* packets, the one with no larger PH and RHC from a hop with no larger    *)
(* score is cached with no larger probability.  process() weighs both      *)
(* hints with the score and counts this hop on top of the RHC.             *)
THEOREM LessTrustCachesLess ==
  ASSUME NEW trust1 \in Trust!Scores, NEW trust2 \in Trust!Scores, trust1 <= trust2,
         NEW ph1 \in Nat, NEW ph2 \in Nat, ph1 <= ph2,
         NEW rhc1 \in Nat, NEW rhc2 \in Nat, rhc1 <= rhc2
  PROVE  Core!probability(ph1 * trust1, rhc1 * trust1 + One)
           <= Core!probability(ph2 * trust2, rhc2 * trust2 + One)
<1>1. One \in Nat
  BY RouterPipelineAssumption
<1>2. trust1 \in Nat /\ trust2 \in Nat
  BY <1>1 DEF Trust!Scores
<1>3. /\ ph1 * trust1 \in Nat /\ ph2 * trust2 \in Nat
      /\ ph1 * trust1 <= ph2 * trust2
  BY <1>2, ProductGrows
<1>4. /\ rhc1 * trust1 \in Nat /\ rhc2 * trust2 \in Nat
      /\ rhc1 * trust1 <= rhc2 * trust2
  BY <1>2, ProductGrows
<1>5. /\ rhc1 * trust1 + One \in Nat /\ rhc2 * trust2 + One \in Nat
      /\ rhc1 * trust1 + One <= rhc2 * trust2 + One
  <2> DEFINE x == rhc1 * trust1
             y == rhc2 * trust2
  <2>1. x \in Nat /\ y \in Nat /\ x <= y
    BY <1>4
  <2> HIDE DEF x, y
  <2>2. x + One \in Nat /\ y + One \in Nat /\ x + One <= y + One
    BY <1>1, <2>1
  <2> QED BY <2>2 DEF x, y
<1> QED BY <1>3, <1>5, ProbabilityGrows

(* A decision remembers a probability and a sample. *)
LEMMA DecideTypes ==
  ASSUME NEW phEff \in Nat, NEW rhcEff \in Nat, NEW shouldCache,
         Core!Decide(phEff, rhcEff, shouldCache)
  PROVE  m_lastP' \in 0..One /\ m_lastR' \in 0..One
<1>1. One \in Nat \ {0} /\ Samples \subseteq 0..(One - 1)
  BY RouterPipelineAssumption
<1>2. rhcEff + One \in Nat
  BY <1>1
<1>3. m_lastP' = Core!probability(phEff, rhcEff + One) /\ m_lastR' \in Samples
  BY DEF Core!Decide
<1> QED BY <1>1, <1>2, <1>3, ProbabilityBounds

(* The end of process() for a packet that passed, with any PH and RHC.     *)
LEMMA ConcludeTypes ==
  ASSUME Trust!ScoresOK, NEW ph \in Nat, NEW rhc \in Nat, NEW hop \in Neighbours,
         NEW counted, Conclude(ph, rhc, hop, counted)
  PROVE  /\ m_lastP' \in 0..One /\ m_lastR' \in 0..One
         /\ decision' \in Neighbours \X Verdicts
<1> DEFINE trust == Trust!getTrustScore(hop)
<1>1. trust \in Nat
  BY TrustTypes
<1> HIDE DEF trust
<1>2. ph * trust \in Nat /\ rhc * trust \in Nat
  BY <1>1
<1>3. PICK shouldCache \in BOOLEAN :
        /\ Core!Decide(ph * trust, rhc * trust, shouldCache)
        /\ Return(hop, IF shouldCache THEN "CACHE_AND_FORWARD" ELSE "FORWARD_ONLY")
  BY DEF Conclude, trust
<1>4. m_lastP' \in 0..One /\ m_lastR' \in 0..One
  BY <1>2, <1>3, DecideTypes
<1>5. decision' \in Neighbours \X Verdicts
  BY <1>3 DEF Return, Verdicts
<1> QED BY <1>4, <1>5

-----------------------------------------------------------------------------
(* Type correctness of the whole router. *)

ClocksOK == simNs \in Nat /\ wallMs \in Nat
CoreOK == m_lastP \in 0..One /\ m_lastR \in 0..One
DecisionOK == decision \in {<< >>} \cup (Neighbours \X Verdicts)

(* The type invariant is the conjunction of its parts. *)
LEMMA TypeOKParts ==
  TypeOK <=> /\ Seq8!TypeOK /\ WindowsOK /\ ClocksOK /\ Trust!ScoresOK
             /\ CoreOK /\ StatsOK /\ DecisionOK
BY DEF TypeOK, WindowsOK, ClocksOK, CoreOK, StatsOK, DecisionOK

(* A new router has the types it should. *)
LEMMA InitTypes == Init => TypeOK /\ StatsInv
<1> SUFFICES ASSUME Init PROVE TypeOK /\ StatsInv
  OBVIOUS
<1>1. One \in Nat \ {0} /\ WallStarts \subseteq Nat
  BY RouterPipelineAssumption
<1>2. StatsInv
  BY StatsInvInductive
<1>3. Seq8!TypeOK
  <2>1. << >> \in Seq(Seq8!Elements)
    OBVIOUS
  <2>2. m_seqTable = << >> /\ m_lruMap = << >> /\ m_lruTracker = << >>
        /\ m_maxTrackedEntries \in Capacities
    BY DEF Init, Seq8!InitCache
  <2>3. DOMAIN m_seqTable = {} /\ DOMAIN m_lruMap = {}
    BY <2>2
  <2> QED BY <2>1, <2>2, <2>3 DEF Seq8!TypeOK, Seq8!Tracked
<1>4. WindowsOK /\ ClocksOK
  <2>1. m_windows = << >> /\ DOMAIN m_windows = {}
    BY DEF Init, Rate!InitLimiter
  <2> QED BY <1>1, <2>1 DEF Init, Rate!InitLimiter, WindowsOK, ClocksOK
<1>5. Trust!ScoresOK
  BY DEF Init, Trust!InitScores, Trust!ScoresOK
<1>6. CoreOK /\ DecisionOK
  BY <1>1 DEF Init, Core!InitCore, CoreOK, DecisionOK
<1> QED BY <1>2, <1>3, <1>4, <1>5, <1>6, TypeOKParts DEF StatsInv

(* A header is intact or carries zeros and a tag that may fit nothing.     *)
LEMMA HeaderKinds ==
  ASSUME NEW name, NEW hdr \in Headers(name)
  PROVE  \/ hdr \in {ZeroHeader, [ZeroHeader EXCEPT !.hmac = Garbled]}
         \/ \E ph \in PHs, rhc \in RHCs, seqn \in Seq8!Seqns :
              hdr = [ph |-> ph, rhc |-> rhc, seqn |-> seqn,
                     hmac |-> computeHmac(name, ph, rhc, seqn, TRUE)]
<1> DEFINE Fit(ph, rhc, seqn) == [ph |-> ph, rhc |-> rhc, seqn |-> seqn,
                                  hmac |-> computeHmac(name, ph, rhc, seqn, TRUE)]
           Intact == {Fit(ph, rhc, seqn) :
                        ph \in PHs, rhc \in RHCs, seqn \in Seq8!Seqns}
<1>1. CASE hdr \notin {ZeroHeader, [ZeroHeader EXCEPT !.hmac = Garbled]}
  <2>1. hdr \in Intact
    <3>1. Headers(name) = Intact \cup {ZeroHeader, [ZeroHeader EXCEPT !.hmac = Garbled]}
      BY DEF Headers
    <3> HIDE DEF Intact
    <3> QED BY <1>1, <3>1, Zenon
  <2>2. \E ph \in PHs, rhc \in RHCs, seqn \in Seq8!Seqns : hdr = Fit(ph, rhc, seqn)
    <3> HIDE DEF Fit
    <3> QED BY <2>1
  <2> QED BY <2>2
<1> QED BY <1>1

(* The numbers a header that reaches process() carries. *)
LEMMA HeaderTypes ==
  ASSUME NEW name \in Names, NEW hdr \in Headers(name)
  PROVE  hdr.ph \in Nat /\ hdr.rhc \in Nat /\ hdr.seqn \in Seq8!Seqns
<1>1. PHs \subseteq Nat /\ RHCs \subseteq Nat /\ HalfWin \in Nat \ {0}
  BY RouterPipelineAssumption
<1>2. 0 \in Seq8!Seqns
  BY <1>1 DEF Seq8!Seqns, Seq8!Modulus
<1>3. CASE hdr \in {ZeroHeader, [ZeroHeader EXCEPT !.hmac = Garbled]}
  BY <1>2, <1>3 DEF ZeroHeader
<1>4. CASE \E ph \in PHs, rhc \in RHCs, seqn \in Seq8!Seqns :
             hdr = [ph |-> ph, rhc |-> rhc, seqn |-> seqn,
                    hmac |-> computeHmac(name, ph, rhc, seqn, TRUE)]
  BY <1>1, <1>4
<1> QED BY <1>3, <1>4, HeaderKinds

(* A packet that is dropped changes scores, counters and the decision.     *)
LEMMA DropTypes ==
  ASSUME TypeOK, NEW hop \in Neighbours,
         UNCHANGED <<seqVars, rateVars, clockVars, coreVars>>,
         StatsOK', Trust!ScoresOK',
         NEW verdict \in Verdicts, Return(hop, verdict)
  PROVE  TypeOK'
<1>1. Seq8!TypeOK'
  BY DEF TypeOK, Seq8!TypeOK, Seq8!Tracked, seqVars
<1>2. WindowsOK' /\ ClocksOK' /\ CoreOK'
  BY TypeOKParts DEF WindowsOK, ClocksOK, CoreOK, rateVars, clockVars, coreVars
<1>3. DecisionOK'
  BY DEF Return, DecisionOK
<1> QED BY <1>1, <1>2, <1>3, TypeOKParts
        DEF TypeOK, WindowsOK, ClocksOK, CoreOK, StatsOK, DecisionOK

(* A packet that is forwarded goes through every component. *)
LEMMA ForwardTypes ==
  ASSUME TypeOK, NEW name \in Names, NEW hdr \in Headers(name), NEW hop \in Neighbours,
         NEW succeeds, Forward(name, hdr, hop, succeeds),
         StatsOK', Trust!ScoresOK'
  PROVE  TypeOK'
<1>1. hdr.ph \in Nat /\ hdr.rhc \in Nat /\ hdr.seqn \in Seq8!Seqns
  BY HeaderTypes
<1>2. /\ Seq8!TypeOK /\ WindowsOK /\ simNs \in Nat /\ wallMs \in Nat
      /\ Trust!ScoresOK
  BY TypeOKParts DEF ClocksOK
<1>3. Seq8!TypeOK'
  BY <1>1, <1>2, AcceptTypes DEF Forward
<1>4. ClocksOK'
  BY <1>2 DEF Forward, clockVars, ClocksOK
<1>5. WindowsOK' /\ CoreOK' /\ DecisionOK'
  <2>1. ASSUME NEW ph \in Nat, NEW counted, Conclude(ph, hdr.rhc, hop, counted)
        PROVE  CoreOK' /\ DecisionOK'
    BY <1>1, <1>2, <2>1, ConcludeTypes DEF CoreOK, DecisionOK
  <2>2. CASE /\ Rate!Clamp(name)
             /\ Conclude(Rate!Window(name).lastPh, hdr.rhc, hop,
                         {"totalPackets", "forwarded", "rateLimited"})
    <3>1. Rate!Window(name).lastPh \in Nat
      BY <1>2, WindowType DEF Rate!Windows
    <3> QED BY <1>2, <2>1, <2>2, <3>1, ClampTypes
  <2>3. CASE /\ Rate!Record(name, hdr.ph)
             /\ Conclude(hdr.ph, hdr.rhc, hop, {"totalPackets", "forwarded"})
    BY <1>1, <1>2, <2>1, <2>3, RecordTypes
  <2> QED BY <2>2, <2>3 DEF Forward
<1> QED BY <1>3, <1>4, <1>5
        DEF TypeOK, WindowsOK, ClocksOK, CoreOK, StatsOK, DecisionOK

(* The inductive invariant: every step keeps the types, with the counters  *)
(* adding up as the lemmas above have it.                                  *)
LEMMA NextTypes == TypeOK /\ StatsInv /\ [Next]_vars => (TypeOK /\ StatsInv)'
<1> SUFFICES ASSUME TypeOK, StatsInv, [Next]_vars PROVE (TypeOK /\ StatsInv)'
  OBVIOUS
<1>1. StatsInv' /\ StatsOK' /\ StatsOK
  BY StatsInvInductive DEF StatsInv
<1>2. Trust!ScoresOK' /\ Trust!ScoresOK
  BY TrustStep, TypeOKParts DEF TrustInv
<1>3. ASSUME NEW name \in Names, NEW hop \in Neighbours, NEW succeeds \in BOOLEAN,
             NEW hdr \in Headers(name), Process(name, hdr, hop, succeeds)
      PROVE  TypeOK'
  <2>1. CASE DropTampering(name, hdr, hop, succeeds)
    <3>1. "DROP_TAMPERING" \in Verdicts
      BY DEF Verdicts
    <3> QED BY <1>1, <1>2, <2>1, <3>1, DropTypes DEF DropTampering
  <2>2. CASE DropReplay(name, hdr, hop, succeeds)
    <3>1. "DROP_REPLAY" \in Verdicts
      BY DEF Verdicts
    <3>2. UNCHANGED seqVars
      BY <2>2 DEF DropReplay, Seq8!DropUnfresh, Seq8!cache, seqVars
    <3>3. UNCHANGED <<seqVars, rateVars, clockVars, coreVars>>
      BY <2>2, <3>2 DEF DropReplay
    <3> QED BY <1>1, <1>2, <2>2, <3>1, <3>3, DropTypes DEF DropReplay
  <2>3. CASE Forward(name, hdr, hop, succeeds)
    BY <1>1, <1>2, <2>3, ForwardTypes
  <2> QED BY <1>3, <2>1, <2>2, <2>3 DEF Process
<1>4. ASSUME ResetStats \/ ClearSeqCache \/ ClearRateLimiter \/ AdvanceClock
               \/ UNCHANGED vars
      PROVE  TypeOK'
  <2>1. /\ Seq8!TypeOK /\ WindowsOK /\ ClocksOK /\ CoreOK /\ DecisionOK
    BY TypeOKParts
  <2>2. Seq8!TypeOK'
    <3>1. CASE ClearSeqCache
      <4>1. << >> \in Seq(Seq8!Elements)
        OBVIOUS
      <4>2. m_seqTable' = << >> /\ m_lruMap' = << >> /\ m_lruTracker' = << >>
            /\ m_maxTrackedEntries' = m_maxTrackedEntries
        BY <3>1 DEF ClearSeqCache, Seq8!Clear
      <4>3. DOMAIN m_seqTable' = {} /\ DOMAIN m_lruMap' = {}
        BY <4>2
      <4> QED BY <2>1, <4>1, <4>2, <4>3 DEF Seq8!TypeOK, Seq8!Tracked
    <3>2. CASE UNCHANGED seqVars
      BY <2>1, <3>2 DEF Seq8!TypeOK, Seq8!Tracked, seqVars
    <3> QED BY <1>4, <3>1, <3>2
            DEF ResetStats, ClearRateLimiter, AdvanceClock, vars, seqVars
  <2>3. WindowsOK'
    <3>1. CASE ClearRateLimiter
      <4>1. m_windows' = << >> /\ m_maxIncrPerWindow' = m_maxIncrPerWindow
        BY <3>1 DEF ClearRateLimiter, Rate!Clear
      <4>2. DOMAIN m_windows' = {}
        BY <4>1
      <4> QED BY <2>1, <4>1, <4>2 DEF WindowsOK
    <3>2. CASE UNCHANGED rateVars
      BY <2>1, <3>2 DEF WindowsOK, rateVars
    <3> QED BY <1>4, <3>1, <3>2
            DEF ResetStats, ClearSeqCache, AdvanceClock, vars, rateVars
  <2>4. ClocksOK'
    <3>1. CASE AdvanceClock
      <4>1. Delays \subseteq Nat
        BY RouterPipelineAssumption
      <4> QED BY <2>1, <3>1, <4>1
              DEF AdvanceClock, Rate!AdvanceSim, Rate!AdvanceWall, ClocksOK
    <3>2. CASE UNCHANGED clockVars
      BY <2>1, <3>2 DEF ClocksOK, clockVars
    <3> QED BY <1>4, <3>1, <3>2
            DEF ResetStats, ClearSeqCache, ClearRateLimiter, vars, clockVars
  <2>5. CoreOK' /\ DecisionOK'
    <3>1. UNCHANGED <<coreVars, decision>>
      BY <1>4 DEF ResetStats, ClearSeqCache, ClearRateLimiter, AdvanceClock, vars
    <3> QED BY <2>1, <3>1 DEF CoreOK, DecisionOK, coreVars
  <2> QED BY <1>1, <1>2, <2>2, <2>3, <2>4, <2>5
          DEF TypeOK, WindowsOK, ClocksOK, CoreOK, StatsOK, DecisionOK
<1> QED BY <1>1, <1>3, <1>4 DEF Next

(* Type correctness of the router and its five components for all          *)
(* constants: whatever packets came, Equation (1) gave a probability,      *)
(* every score is within [0, 1], and process() returned one of its four    *)
(* verdicts.                                                               *)
THEOREM SpecTypeOK == Spec => []TypeOK
BY InitTypes, NextTypes, PTL DEF Spec

-----------------------------------------------------------------------------
(* The router and the promises of its components.  What SeqCacheProofs and *)
(* RateLimiterProofs say of a component alone holds inside the router, if  *)
(* a behaviour of the router is a behaviour of the component: no call that *)
(* process() makes or leaves out takes the component off its specification.*)

CacheThms == INSTANCE SeqCacheProofs
LimiterThms == INSTANCE RateLimiterProofs WITH PHs <- PHs \cup {0}

(* The router gives both components constants that they accept.            *)
LEMMA ComponentAssumptions ==
  CacheThms!SeqCacheAssumption /\ LimiterThms!RateLimiterAssumption
BY RouterPipelineAssumption
   DEF CacheThms!SeqCacheAssumption, LimiterThms!RateLimiterAssumption

(* The router calls the methods of the cache that the theorems are about.  *)
LEMMA CacheCalls ==
  ASSUME NEW n, NEW s
  PROVE  /\ Seq8!Accept(n, s) => CacheThms!Accept(n, s)
         /\ Seq8!DropUnfresh(n, s) => CacheThms!DropUnfresh(n, s)
         /\ Seq8!Clear => CacheThms!Clear
<1>1. Seq8!Accept(n, s) => CacheThms!Accept(n, s)
  BY DEF Seq8!Accept, Seq8!AcceptTracked, Seq8!AcceptNew, Seq8!AcceptEvicting,
         Seq8!Tracked, Seq8!Inside, Seq8!Diff, Seq8!Modulus, Seq8!Insert,
         Seq8!Evicts, Seq8!OldestKey, Seq8!RemoveAt, Seq8!Restrict, Seq8!Front,
         Seq8!Cardinality, CacheThms!Cardinality,
         CacheThms!Accept, CacheThms!AcceptTracked, CacheThms!AcceptNew,
         CacheThms!AcceptEvicting, CacheThms!Tracked, CacheThms!Inside,
         CacheThms!Diff, CacheThms!Modulus, CacheThms!Insert, CacheThms!Evicts,
         CacheThms!OldestKey, CacheThms!RemoveAt, CacheThms!Restrict, CacheThms!Front
<1>2. Seq8!DropUnfresh(n, s) => CacheThms!DropUnfresh(n, s)
  BY DEF Seq8!DropUnfresh, Seq8!Tracked, Seq8!Inside, Seq8!Diff, Seq8!Modulus,
         Seq8!cache, CacheThms!DropUnfresh, CacheThms!Tracked, CacheThms!Inside,
         CacheThms!Diff, CacheThms!Modulus, CacheThms!cache
<1>3. Seq8!Clear => CacheThms!Clear
  BY DEF Seq8!Clear, CacheThms!Clear
<1> QED BY <1>1, <1>2, <1>3

(* And those of the limiter.                                               *)
LEMMA LimiterCalls ==
  ASSUME NEW n, NEW ph
  PROVE  /\ Rate!AtLimit(n) <=> LimiterThms!AtLimit(n)
         /\ Rate!Window(n) = LimiterThms!Window(n)
         /\ Rate!Clamp(n) => LimiterThms!Clamp(n)
         /\ Rate!Record(n, ph) => LimiterThms!Record(n, ph)
         /\ Limiter!Log(n, ph) => LimiterThms!Log(n, ph)
         /\ Rate!Clear => LimiterThms!Clear
         /\ Rate!AdvanceSim => LimiterThms!AdvanceSim
         /\ Rate!AdvanceWall => LimiterThms!AdvanceWall
<1>1. /\ Rate!AtLimit(n) <=> LimiterThms!AtLimit(n)
      /\ Rate!Window(n) = LimiterThms!Window(n)
      /\ Rate!Live(n) = LimiterThms!Live(n)
  BY DEF Rate!AtLimit, Rate!Live, Rate!Purged, Rate!Window, Rate!Expired,
         Rate!Elapsed, Rate!NowMs,
         LimiterThms!AtLimit, LimiterThms!Live, LimiterThms!Purged,
         LimiterThms!Window, LimiterThms!Expired, LimiterThms!Elapsed,
         LimiterThms!NowMs
<1>2. Rate!NowMs = LimiterThms!NowMs
  BY DEF Rate!NowMs, LimiterThms!NowMs
<1>3. ASSUME NEW w
      PROVE  Rate!Store(n, w) => LimiterThms!Store(n, w)
  BY DEF Rate!Store, LimiterThms!Store
<1>4. Rate!Clamp(n) => LimiterThms!Clamp(n)
  BY <1>1, <1>3 DEF Rate!Clamp, LimiterThms!Clamp
<1>5. Rate!Record(n, ph) => LimiterThms!Record(n, ph)
  BY <1>1, <1>2, <1>3 DEF Rate!Record, LimiterThms!Record
<1>6. Limiter!Log(n, ph) => LimiterThms!Log(n, ph)
  BY DEF Limiter!Log, LimiterThms!Log, Limiter!Clock, LimiterThms!Clock,
         Limiter!NowMs, LimiterThms!NowMs
<1>7. /\ Rate!Clear => LimiterThms!Clear
      /\ Rate!AdvanceSim => LimiterThms!AdvanceSim
      /\ Rate!AdvanceWall => LimiterThms!AdvanceWall
  BY DEF Rate!Clear, LimiterThms!Clear, Rate!AdvanceSim, LimiterThms!AdvanceSim,
         Rate!AdvanceWall, LimiterThms!AdvanceWall
<1> QED BY <1>1, <1>4, <1>5, <1>6, <1>7

(* What reaches them is in their range: the zeroed header, whose PH 0 need *)
(* not be one that packets carry, included.                                *)
LEMMA HeaderRanges ==
  ASSUME NEW name \in Names, NEW hdr \in Headers(name)
  PROVE  hdr.seqn \in CacheThms!Seqns /\ hdr.ph \in PHs \cup {0}
<1>1. hdr.seqn \in CacheThms!Seqns
  BY HeaderTypes DEF Seq8!Seqns, Seq8!Modulus, CacheThms!Seqns, CacheThms!Modulus
<1>2. CASE hdr \in {ZeroHeader, [ZeroHeader EXCEPT !.hmac = Garbled]}
  BY <1>1, <1>2 DEF ZeroHeader
<1>3. CASE \E ph \in PHs, rhc \in RHCs, seqn \in Seq8!Seqns :
             hdr = [ph |-> ph, rhc |-> rhc, seqn |-> seqn,
                    hmac |-> computeHmac(name, ph, rhc, seqn, TRUE)]
  BY <1>1, <1>3
<1> QED BY <1>2, <1>3, HeaderKinds

(* A step of the router is one call of the cache or none.                  *)
LEMMA CacheSteps ==
  [HistoryNext]_allVars => [CacheThms!Next]_(CacheThms!vars)
<1> SUFFICES ASSUME [HistoryNext]_allVars
             PROVE  [CacheThms!Next]_(CacheThms!vars)
  OBVIOUS
<1>1. ASSUME UNCHANGED seqVars, UNCHANGED reply
      PROVE  [CacheThms!Next]_(CacheThms!vars)
  BY <1>1 DEF seqVars, CacheThms!vars
<1>2. ASSUME NEW name \in Names, NEW hop, NEW succeeds, NEW hdr \in Headers(name),
             ProcessAsks(name, hdr, hop, succeeds)
      PROVE  [CacheThms!Next]_(CacheThms!vars)
  <2>1. hdr.seqn \in CacheThms!Seqns
    BY HeaderRanges
  <2>2. CASE DropTampering(name, hdr, hop, succeeds) /\ UNCHANGED historyVars
    BY <1>1, <2>2 DEF DropTampering, historyVars
  <2>3. CASE /\ DropReplay(name, hdr, hop, succeeds)
             /\ reply' = <<name, hdr.seqn, FALSE>>
    <3>1. CacheThms!DropUnfresh(name, hdr.seqn)
      BY <2>3, CacheCalls DEF DropReplay
    <3> QED BY <2>1, <2>3, <3>1 DEF CacheThms!Next
  <2>4. CASE /\ Forward(name, hdr, hop, succeeds)
             /\ reply' = <<name, hdr.seqn, TRUE>>
    <3>1. CacheThms!Accept(name, hdr.seqn)
      BY <2>4, CacheCalls DEF Forward
    <3> QED BY <2>1, <2>4, <3>1 DEF CacheThms!Next, CacheThms!Accept
  <2> QED BY <1>2, <2>2, <2>3, <2>4 DEF ProcessAsks
<1>3. CASE ClearSeqCache /\ reply' = << >>
  <2>1. CacheThms!Clear
    BY <1>3, CacheCalls DEF ClearSeqCache
  <2> QED BY <1>3, <2>1 DEF CacheThms!Next
<1>4. CASE ClearRateLimiter /\ UNCHANGED reply
  BY <1>1, <1>4 DEF ClearRateLimiter
<1>5. CASE (ResetStats \/ AdvanceClock) /\ UNCHANGED historyVars
  BY <1>1, <1>5 DEF ResetStats, AdvanceClock, historyVars
<1>6. CASE UNCHANGED allVars
  BY <1>1, <1>6 DEF allVars, vars, historyVars
<1> QED BY <1>2, <1>3, <1>4, <1>5, <1>6 DEF HistoryNext

(* And one call of the limiter or none.                                    *)
LEMMA LimiterSteps ==
  [HistoryNext]_allVars => [LimiterThms!Next]_(LimiterThms!vars)
<1> SUFFICES ASSUME [HistoryNext]_allVars
             PROVE  [LimiterThms!Next]_(LimiterThms!vars)
  OBVIOUS
<1>1. ASSUME UNCHANGED <<rateVars, clockVars>>, UNCHANGED limiterHistory
      PROVE  [LimiterThms!Next]_(LimiterThms!vars)
  BY <1>1 DEF rateVars, clockVars, limiterHistory, LimiterThms!vars
<1>2. ASSUME NEW name \in Names, NEW hop, NEW succeeds, NEW hdr \in Headers(name),
             ProcessAsks(name, hdr, hop, succeeds)
      PROVE  [LimiterThms!Next]_(LimiterThms!vars)
  <2>1. hdr.ph \in PHs \cup {0}
    BY HeaderRanges
  <2>2. CASE DropTampering(name, hdr, hop, succeeds) /\ UNCHANGED historyVars
    BY <1>1, <2>2 DEF DropTampering, historyVars
  <2>3. CASE DropReplay(name, hdr, hop, succeeds) /\ UNCHANGED limiterHistory
    BY <1>1, <2>3 DEF DropReplay
  <2>4. CASE Forward(name, hdr, hop, succeeds) /\ Limited(name, hdr.ph)
    <3>1. UNCHANGED LimiterThms!clocks
      BY <2>4 DEF Forward, clockVars, LimiterThms!clocks
    <3>2. CASE Rate!Clamp(name)
      <4>1. /\ answer' = <<name, hdr.ph, TRUE, LimiterThms!Window(name).lastPh>>
            /\ UNCHANGED recorded
        BY <2>4, <3>2, LimiterCalls DEF Rate!Clamp, Limited
      <4>2. LimiterThms!Clamp(name)
        BY <3>2, LimiterCalls
      <4> QED BY <2>1, <3>1, <4>1, <4>2 DEF LimiterThms!Next
    <3>3. CASE Rate!Record(name, hdr.ph)
      <4>1. answer' = <<name, hdr.ph, FALSE, hdr.ph>> /\ LimiterThms!Log(name, hdr.ph)
        BY <2>4, <3>3, LimiterCalls DEF Rate!Record, Limited
      <4>2. LimiterThms!Record(name, hdr.ph)
        BY <3>3, LimiterCalls
      <4> QED BY <2>1, <3>1, <4>1, <4>2 DEF LimiterThms!Next
    <3> QED BY <2>4, <3>2, <3>3 DEF Forward
  <2> QED BY <1>2, <2>2, <2>3, <2>4 DEF ProcessAsks
<1>3. CASE ClearSeqCache /\ UNCHANGED limiterHistory
  BY <1>1, <1>3 DEF ClearSeqCache
<1>4. CASE /\ ClearRateLimiter
           /\ recorded' = [n \in Names |-> << >>]
           /\ answer' = << >>
  <2>1. LimiterThms!Clear
    BY <1>4, LimiterCalls DEF ClearRateLimiter
  <2>2. UNCHANGED LimiterThms!clocks
    BY <1>4 DEF ClearRateLimiter, clockVars, LimiterThms!clocks
  <2> QED BY <1>4, <2>1, <2>2 DEF LimiterThms!Next
<1>5. CASE ResetStats /\ UNCHANGED historyVars
  BY <1>1, <1>5 DEF ResetStats, historyVars
<1>6. CASE AdvanceClock /\ UNCHANGED historyVars
  <2>1. LimiterThms!AdvanceSim \/ LimiterThms!AdvanceWall
    BY <1>6, LimiterCalls DEF AdvanceClock
  <2>2. UNCHANGED <<m_maxIncrPerWindow, m_windows, recorded, answer>>
    BY <1>6 DEF AdvanceClock, rateVars, historyVars, limiterHistory
  <2> QED BY <2>1, <2>2 DEF LimiterThms!Next
<1>7. CASE UNCHANGED allVars
  BY <1>1, <1>7 DEF allVars, vars, historyVars
<1> QED BY <1>2, <1>3, <1>4, <1>5, <1>6, <1>7 DEF HistoryNext

LEMMA HistoryInits ==
  HistoryInit => CacheThms!Init /\ LimiterThms!Init
BY DEF HistoryInit, Cache!Init, Cache!InitCache, CacheThms!Init, CacheThms!InitCache,
       Limiter!Init, Limiter!InitLimiter, LimiterThms!Init, LimiterThms!InitLimiter

(* Every behaviour of the router is one of the cache and of the limiter.   *)
LEMMA RouterRunsCache == HistorySpec => CacheThms!Spec
<1>1. HistoryInit => CacheThms!Init
  BY HistoryInits
<1> QED BY <1>1, CacheSteps, PTL DEF HistorySpec, CacheThms!Spec

LEMMA RouterRunsLimiter == HistorySpec => LimiterThms!Spec
<1>1. HistoryInit => LimiterThms!Init
  BY HistoryInits
<1> QED BY <1>1, LimiterSteps, PTL DEF HistorySpec, LimiterThms!Spec

(* Inside the router the iterators of the SEQN cache stay valid and it     *)
(* stays within its capacity, whatever packets, tags and clears come.      *)
THEOREM RouterCacheSound == HistorySpec => [](Cache!IteratorsValid /\ Cache!SizeBound)
<1>1. CacheThms!Spec => []CacheThms!IteratorsValid
  BY CacheThms!SpecIteratorsValid, ComponentAssumptions, PTL
<1>2. CacheThms!Spec => []CacheThms!SizeBound
  BY CacheThms!SpecSizeBound, ComponentAssumptions, PTL
<1>3. CacheThms!IteratorsValid => Cache!IteratorsValid
  BY DEF CacheThms!IteratorsValid, Cache!IteratorsValid, CacheThms!Tracked, Cache!Tracked
<1>4. CacheThms!SizeBound => Cache!SizeBound
  BY DEF CacheThms!SizeBound, Cache!SizeBound, CacheThms!Tracked, Cache!Tracked,
         CacheThms!EffectiveCapacity, Cache!EffectiveCapacity,
         CacheThms!Cardinality, Cache!Cardinality
<1> QED BY <1>1, <1>2, <1>3, <1>4, RouterRunsCache, PTL

(* Of the packets the router forwards unclamped, no window of one clock    *)
(* holds more than the threshold, for any mix of drops and clears.         *)
THEOREM RouterBurstBound == HistorySpec => []Limiter!BurstBound
<1>1. LimiterThms!Spec => []LimiterThms!BurstBound
  BY LimiterThms!SpecBurstBound, ComponentAssumptions, PTL
<1>2. LimiterThms!BurstBound => Limiter!BurstBound
  BY DEF LimiterThms!BurstBound, Limiter!BurstBound
<1> QED BY <1>1, <1>2, RouterRunsLimiter, PTL

(* The router drops exactly the replays that the ReplayFilter would drop   *)
(* among the packets whose tag fits.                                       *)
THEOREM SpecRouterFiltersReplays == HistorySpec => RouterFiltersReplays
<1>1. CacheThms!Spec => CacheThms!ImplementsFilter
  BY CacheThms!SpecImplementsFilter, ComponentAssumptions, PTL
<1>2. /\ CacheThms!EffectiveCapacity = Cache!EffectiveCapacity
      /\ CacheThms!Tracked = Cache!Tracked
      /\ CacheThms!Modulus = Cache!Modulus
  BY DEF CacheThms!EffectiveCapacity, Cache!EffectiveCapacity, CacheThms!Tracked,
         Cache!Tracked, CacheThms!Modulus, Cache!Modulus
<1>3. CacheThms!Filter!Init => Cache!Filter!Init
  BY <1>2 DEF CacheThms!Filter!Init, Cache!Filter!Init, CacheThms!InFront, Cache!InFront
<1>4. [CacheThms!Filter!Next]_(CacheThms!Filter!vars)
        => [Cache!Filter!Next]_(Cache!Filter!vars)
  <2>1. CacheThms!Filter!Next => Cache!Filter!Next
    BY DEF CacheThms!Filter!Next, CacheThms!Filter!Accept, CacheThms!Filter!Drop,
           CacheThms!Filter!Forget, CacheThms!Filter!Fresh, CacheThms!Filter!Ahead,
           CacheThms!Filter!Kept, CacheThms!Filter!Numbers,
           CacheThms!Filter!Cardinality, CacheThms!EffectiveCapacity,
           CacheThms!Tracked, CacheThms!InFront, CacheThms!Modulus,
           Cache!Filter!Next, Cache!Filter!Accept, Cache!Filter!Drop,
           Cache!Filter!Forget, Cache!Filter!Fresh, Cache!Filter!Ahead,
           Cache!Filter!Kept, Cache!Filter!Numbers, Cache!Filter!Cardinality,
           Cache!EffectiveCapacity, Cache!Tracked, Cache!InFront, Cache!Modulus
  <2>2. UNCHANGED CacheThms!Filter!vars => UNCHANGED Cache!Filter!vars
    BY DEF CacheThms!Filter!vars, CacheThms!EffectiveCapacity, CacheThms!Tracked,
           CacheThms!InFront, Cache!Filter!vars, Cache!EffectiveCapacity,
           Cache!Tracked, Cache!InFront
  <2> QED BY <2>1, <2>2
<1>5. CacheThms!ImplementsFilter => RouterFiltersReplays
  BY <1>3, <1>4, PTL DEF CacheThms!ImplementsFilter, CacheThms!Filter!Spec,
     RouterFiltersReplays, Cache!ImplementsFilter, Cache!Filter!Spec
<1> QED BY <1>1, <1>5, RouterRunsCache, PTL

(* While no clock comes within a window of the end of the word, the router *)
(* hands on the PHs that a sliding window over the packets it forwarded    *)
(* would: a dropped packet takes no place in the window of its name.       *)
THEOREM SpecRouterLimitsForwarded ==
  HistorySpec /\ []LimiterThms!ClocksFit => RouterLimitsForwarded
<1>1. LimiterThms!Spec /\ []LimiterThms!ClocksFit => LimiterThms!ImplementsWindow
  BY LimiterThms!SpecImplementsWindow, ComponentAssumptions, PTL
<1>2. LimiterThms!Promise!Init => Limiter!Promise!Init
  BY DEF LimiterThms!Promise!Init, LimiterThms!Clock, LimiterThms!NowMs,
         Limiter!Promise!Init, Limiter!Clock, Limiter!NowMs
<1>3. [LimiterThms!Promise!Next]_(LimiterThms!Promise!vars)
        => [Limiter!Promise!Next]_(Limiter!Promise!vars)
  <2>1. LimiterThms!Promise!Next => Limiter!Promise!Next
    BY DEF LimiterThms!Promise!Next, LimiterThms!Promise!LetThrough,
           LimiterThms!Promise!Clamp, LimiterThms!Promise!Tick,
           LimiterThms!Promise!Reset, LimiterThms!Promise!Count,
           LimiterThms!Promise!CountSinceMisread, LimiterThms!Promise!InWindow,
           LimiterThms!Promise!Misread, LimiterThms!Promise!Previous,
           LimiterThms!Promise!Cardinality, LimiterThms!Clock, LimiterThms!NowMs,
           Limiter!Promise!Next, Limiter!Promise!LetThrough,
           Limiter!Promise!Clamp, Limiter!Promise!Tick, Limiter!Promise!Reset,
           Limiter!Promise!Count, Limiter!Promise!CountSinceMisread,
           Limiter!Promise!InWindow, Limiter!Promise!Misread,
           Limiter!Promise!Previous, Limiter!Promise!Cardinality,
           Limiter!Clock, Limiter!NowMs
  <2>2. UNCHANGED LimiterThms!Promise!vars => UNCHANGED Limiter!Promise!vars
    BY DEF LimiterThms!Promise!vars, LimiterThms!Clock, LimiterThms!NowMs,
           Limiter!Promise!vars, Limiter!Clock, Limiter!NowMs
  <2> QED BY <2>1, <2>2
<1>4. LimiterThms!ImplementsWindow => RouterLimitsForwarded
  BY <1>2, <1>3, PTL DEF LimiterThms!ImplementsWindow, LimiterThms!Promise!Spec,
     RouterLimitsForwarded, Limiter!ImplementsWindow, Limiter!Promise!Spec
<1> QED BY <1>1, <1>4, RouterRunsLimiter, PTL
=============================================================================
