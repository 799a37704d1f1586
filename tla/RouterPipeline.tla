--------------------------- MODULE RouterPipeline ---------------------------
(***************************************************************************)
(* One router: class RouterPipeline (model/router-pipeline.hpp,            *)
(* model/router-pipeline.cpp), Algorithm 8 of the protocol, composed of    *)
(* the SEQN cache, the rate limiter, the reputation table, the caching     *)
(* core and the tags of SecurityEngine.  process() runs to completion for  *)
(* one packet, so one packet is one step.                                  *)
(***************************************************************************)
EXTENDS Integers, FiniteSets, Sequences, SecurityEngine

CONSTANTS Names, PHs, RHCs,           \* what packets carry
          Neighbours,                 \* previous hops
          Nodes, HalfWin, Capacities, \* of SeqCache
          Thresholds, WindowMs, NsPerMs, Word, WallStarts, Delays, \* of RateLimiter
          One, InitialTrust, Decay,   \* of Reputation
          Alpha, MaxHops, Samples     \* of CaccCore

VARIABLES m_maxTrackedEntries, m_seqTable, m_lruTracker, m_lruMap, \* m_seqCache
          m_maxIncrPerWindow, m_windows,                           \* m_rateLimiter
          simNs, wallMs,                                           \* the clocks
          m_scores,                                                \* m_reputation
          m_lastP, m_lastR,                                        \* m_caccCore
          m_stats,
          decision      \* <<>>, or <<previous hop, what process() returned>>

Seq8 == INSTANCE SeqCache WITH reply <- << >>
Rate == INSTANCE RateLimiter WITH recorded <- << >>, answer <- << >>
Trust == INSTANCE Reputation
Core == INSTANCE CaccCore

seqVars == <<m_maxTrackedEntries, m_seqTable, m_lruTracker, m_lruMap>>
rateVars == <<m_maxIncrPerWindow, m_windows>>
clockVars == <<simNs, wallMs>>
coreVars == <<m_lastP, m_lastR>>
vars == <<seqVars, rateVars, clockVars, m_scores, coreVars, m_stats, decision>>

ASSUME RouterPipelineAssumption ==
  /\ HalfWin \in Nat \ {0}
  /\ Capacities \subseteq Nat
  /\ Thresholds \subseteq Nat
  /\ PHs \subseteq Nat
  /\ NsPerMs \in Nat \ {0}
  /\ WallStarts \subseteq Nat
  /\ WindowMs \in Nat
  /\ Word \in Nat \ {0}
  /\ Delays \subseteq Nat \ {0}
  /\ Alpha \in Int
  /\ One \in Nat \ {0}
  /\ InitialTrust \in 0..One
  /\ Decay \in 0..One
  /\ MaxHops \in Nat
  /\ Samples \subseteq 0..(One - 1)
  /\ RHCs \subseteq Nat

Verdicts == {"FORWARD_ONLY", "CACHE_AND_FORWARD", "DROP_TAMPERING", "DROP_REPLAY"}
Counters == {"totalPackets", "forwarded", "cached", "droppedTampering",
             "droppedReplay", "rateLimited"}

(* The types of every component's variables and of the router's own. *)
TypeOK ==
  /\ Seq8!TypeOK
  /\ m_maxIncrPerWindow \in Thresholds
  /\ m_windows \in [DOMAIN m_windows -> Rate!Windows]
  /\ DOMAIN m_windows \subseteq Names
  /\ simNs \in Nat /\ wallMs \in Nat
  /\ Trust!ScoresOK
  /\ m_lastP \in 0..One /\ m_lastR \in 0..One
  /\ m_stats \in [Counters -> Nat]
  /\ decision \in {<< >>} \cup (Neighbours \X Verdicts)

ZeroStats == [c \in Counters |-> 0]

Init ==
  /\ Seq8!InitCache
  /\ Rate!InitLimiter
  /\ Trust!InitScores
  /\ Core!InitCore
  /\ m_stats = ZeroStats
  /\ decision = << >>

(***************************************************************************)
(* process(contentName, hdr, prevHopId).                                   *)
(***************************************************************************)
Count(cs) == m_stats' = [c \in Counters |-> m_stats[c] + IF c \in cs THEN 1 ELSE 0]

Return(hop, verdict) == decision' = <<hop, verdict>>

(* Mutant: module B.2 runs before B.1, so the SEQN is stored first. *)
DropTamperingLate(name, hdr, hop, succeeds) ==
  /\ ~ Verifies(name, hdr, succeeds)
  /\ Seq8!Accept(name, hdr.seqn) \/ Seq8!DropUnfresh(name, hdr.seqn)
  /\ Count({"totalPackets", "droppedTampering"})
  /\ Trust!Update(hop, FALSE)
  /\ Return(hop, "DROP_TAMPERING")
  /\ UNCHANGED <<rateVars, clockVars, coreVars>>

(* Module B.1 fails. *)
DropTampering(name, hdr, hop, succeeds) ==
  /\ ~ Verifies(name, hdr, succeeds)
  /\ Count({"totalPackets", "droppedTampering"})
  /\ Trust!Update(hop, FALSE)
  /\ Return(hop, "DROP_TAMPERING")
  /\ UNCHANGED <<seqVars, rateVars, clockVars, coreVars>>

(* Mutant: a replayed packet reported to the table as consistent. *)
DropReplayConsistent(name, hdr, hop, succeeds) ==
  /\ Verifies(name, hdr, succeeds)
  /\ Seq8!DropUnfresh(name, hdr.seqn)
  /\ Count({"totalPackets", "droppedReplay"})
  /\ Trust!Update(hop, TRUE)
  /\ Return(hop, "DROP_REPLAY")
  /\ UNCHANGED <<rateVars, clockVars, coreVars>>

(* Mutant: module B.3 runs before B.2, so a replay takes a place in the window. *)
DropReplayLimited(name, hdr, hop, succeeds) ==
  /\ Verifies(name, hdr, succeeds)
  /\ Seq8!DropUnfresh(name, hdr.seqn)
  /\ Rate!Clamp(name) \/ Rate!Record(name, hdr.ph)
  /\ Count({"totalPackets", "droppedReplay"})
  /\ Trust!Update(hop, FALSE)
  /\ Return(hop, "DROP_REPLAY")
  /\ UNCHANGED <<clockVars, coreVars>>

(* Module B.2 fails. *)
DropReplay(name, hdr, hop, succeeds) ==
  /\ Verifies(name, hdr, succeeds)
  /\ Seq8!DropUnfresh(name, hdr.seqn)
  /\ Count({"totalPackets", "droppedReplay"})
  /\ Trust!Update(hop, FALSE)
  /\ Return(hop, "DROP_REPLAY")
  /\ UNCHANGED <<rateVars, clockVars, coreVars>>

(* Mutant: the branch that caches does not count the packet as forwarded. *)
ConcludeCachedOnly(ph, rhc, hop, counted) ==
  LET trust == Trust!getTrustScore(hop) IN
    \E shouldCache \in BOOLEAN :
      /\ Core!Decide(ph * trust, rhc * trust, shouldCache)
      /\ Trust!Update(hop, TRUE)
      /\ Count(IF shouldCache THEN (counted \ {"forwarded"}) \cup {"cached"} ELSE counted)
      /\ Return(hop, IF shouldCache THEN "CACHE_AND_FORWARD" ELSE "FORWARD_ONLY")

(* Modules B.4, C and D: the hints weighed with the trust the hop has so    *)
(* far, the decision, and the reputation update that follows it.            *)
Conclude(ph, rhc, hop, counted) ==
  LET trust == Trust!getTrustScore(hop) IN
    \E shouldCache \in BOOLEAN :
      /\ Core!Decide(ph * trust, rhc * trust, shouldCache)
      /\ Trust!Update(hop, TRUE)
      /\ Count(counted \cup (IF shouldCache THEN {"cached"} ELSE {}))
      /\ Return(hop, IF shouldCache THEN "CACHE_AND_FORWARD" ELSE "FORWARD_ONLY")

(* All checks pass; module B.3 clamps the PH or lets it through. *)
Forward(name, hdr, hop, succeeds) ==
  /\ Verifies(name, hdr, succeeds)
  /\ Seq8!Accept(name, hdr.seqn)
  /\ \/ /\ Rate!Clamp(name)
        /\ Conclude(Rate!Window(name).lastPh, hdr.rhc, hop,
                    {"totalPackets", "forwarded", "rateLimited"})
     \/ /\ Rate!Record(name, hdr.ph)
        /\ Conclude(hdr.ph, hdr.rhc, hop, {"totalPackets", "forwarded"})
  /\ UNCHANGED clockVars

(***************************************************************************)
(* The other calls: resetStats(), and clear() on the two components that   *)
(* the pipeline hands out by reference.                                    *)
(***************************************************************************)
ResetStats ==
  /\ m_stats' = ZeroStats
  /\ UNCHANGED <<seqVars, rateVars, clockVars, m_scores, coreVars, decision>>

ClearSeqCache ==
  /\ Seq8!Clear
  /\ UNCHANGED <<rateVars, clockVars, m_scores, coreVars, m_stats, decision>>

ClearRateLimiter ==
  /\ Rate!Clear
  /\ UNCHANGED <<seqVars, clockVars, m_scores, coreVars, m_stats, decision>>

AdvanceClock ==
  /\ Rate!AdvanceSim \/ Rate!AdvanceWall
  /\ UNCHANGED <<seqVars, rateVars, m_scores, coreVars, m_stats, decision>>

(* Headers that reach a router: the intact ones; the zeroed one that       *)
(* parse() returns for a missing header; and one whose tag does not fit,   *)
(* which stands for all of these, whatever else they carry.                *)
ZeroHeader == [ph |-> 0, rhc |-> 0, seqn |-> 0, hmac |-> NoTag]

Headers(name) ==
  {[ph |-> ph, rhc |-> rhc, seqn |-> seqn,
    hmac |-> computeHmac(name, ph, rhc, seqn, TRUE)] :
     ph \in PHs, rhc \in RHCs, seqn \in Seq8!Seqns}
  \cup {ZeroHeader, [ZeroHeader EXCEPT !.hmac = Garbled]}

Process(name, hdr, hop, succeeds) ==
  \/ DropTampering(name, hdr, hop, succeeds)
  \/ DropReplay(name, hdr, hop, succeeds)
  \/ Forward(name, hdr, hop, succeeds)

Next ==
  \/ \E name \in Names, hop \in Neighbours, succeeds \in BOOLEAN :
       \E hdr \in Headers(name) : Process(name, hdr, hop, succeeds)
  \/ ResetStats
  \/ ClearSeqCache
  \/ ClearRateLimiter
  \/ AdvanceClock

Spec == Init /\ [][Next]_vars

-----------------------------------------------------------------------------
(***************************************************************************)
(* Properties.                                                             *)
(***************************************************************************)

(* Every packet counted is accounted for by exactly one outcome, and the   *)
(* cached and the clamped ones are among the forwarded (Tables 6 and 7 of  *)
(* the manuscript are read off these counters).                            *)
StatsAddUp ==
  /\ m_stats.totalPackets = m_stats.forwarded + m_stats.droppedTampering
                                              + m_stats.droppedReplay
  /\ m_stats.cached <= m_stats.forwarded
  /\ m_stats.rateLimited <= m_stats.forwarded

Processed == m_stats'.totalPackets = m_stats.totalPackets + 1
Dropped == Processed /\ m_stats'.forwarded = m_stats.forwarded

(* A dropped packet leaves no trace in what the router knows about content *)
(* or its caching: neither a tag that does not fit nor a stale number can  *)
(* move a SEQN, an LRU position, a rate window or the last decision.       *)
DroppedLeavesNoTrace ==
  [][Dropped => UNCHANGED <<seqVars, rateVars, coreVars>>]_vars

(* A packet moves only the trust in the hop that delivered it; a drop      *)
(* never raises that trust, and a forwarded packet never lowers the trust  *)
(* in a hop the router has scored before.                                  *)
TrustFollowsVerdict ==
  [][Processed =>
       \A g \in Neighbours :
         LET before == Trust!getTrustScore(g)
             after == Trust!getTrustScore(g)' IN
           /\ g # decision'[1] => after = before
           /\ Dropped => after <= before
           /\ (~ Dropped /\ g \in DOMAIN m_scores) => after >= before]_vars

(* router-pipeline.cpp:248-249: once a packet has passed all checks, "the  *)
(* reputation of the previous hop is reinforced".                          *)
AcceptanceReinforces ==
  [][(Processed /\ ~ Dropped) =>
       \A g \in Neighbours :
         Trust!getTrustScore(g)' >= Trust!getTrustScore(g)]_vars
=============================================================================
