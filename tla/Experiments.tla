---------------------------- MODULE Experiments ----------------------------
(***************************************************************************)
(* The experiment scripts: three standard ones (scripts/geant-23-nodes.cc, *)
(* iot-mesh-36-nodes.cc, vanet-50-nodes.cc) and six with altered packets   *)
(* (scripts/attack-s1-ph-tampering.cc to attack-s6-hybrid.cc).  Each sets  *)
(* up its nodes with CaccSecureHelper, counts while the simulation runs    *)
(* and computes rates from the counts.  A hook takes a packet at its       *)
(* router, alters the header, calls process() of that router and counts    *)
(* the verdict; one hooked router is modelled, with RouterPipeline.  What  *)
(* comes to it was made by the producer or by a content store on the way   *)
(* (model/cache-response.cpp), at any time before, and may come again.     *)
(***************************************************************************)
EXTENDS RouterPipeline

CONSTANTS Topologies,      \* values of --topology
          AttackerCounts,  \* values of --attackers
          MaxHistory       \* 256: pairs that g_history keeps per name

(* The router has the alpha and the hop bound of Table 2; settings that     *)
(* pass through 32 bits keep their values.                                 *)
ASSUME ExperimentsAssumption ==
  /\ Topologies \subseteq {"geant", "iot", "vanet"}
  /\ AttackerCounts \subseteq Nat
  /\ MaxHistory \in Nat \ {0}
  /\ Alpha = 60 /\ MaxHops = 20
  /\ Word \in Nat /\ Word > 1000

VARIABLES script, topology,
          attackersKey,     \* --attackersKey, of S1 and S2
          m_pipelines,      \* caccHelper: node -> settings
          hooked,           \* nodes with a hook
          consumers,        \* nodes with a consumer; the producer is node 0
          m_globalSeqn,     \* of the producer
          made,             \* name -> headers made so far, wherever they are now
          g,                \* the counters g_...
          g_history,        \* name -> (SEQN, HMAC) pairs, oldest first
          handed,           \* <<>>, or <<name, header>> last given to process()
          report            \* <<>>, or the rates computed after the run

Helper == INSTANCE CaccSecureHelper
            WITH NodeIds <- 0..49, Numbers <- {10, 20, 1000}, Alphas <- {60},
                 Word32 <- Word, m_attributes <- << >>
Origin == INSTANCE Producer WITH Modulus <- Seq8!Modulus

setupVars == <<script, topology, attackersKey, m_pipelines, hooked, consumers>>
originVars == <<m_globalSeqn, made>>
runVars == <<originVars, g, g_history, handed, report>>

(***************************************************************************)
(* main(), up to Simulator::Run().                                         *)
(***************************************************************************)
NodeCount == [geant |-> 23, iot |-> 36, vanet |-> 50]

NodesOf(t) == 0..(NodeCount[t] - 1)

Table2 == [MaxTrackedEntries |-> [type |-> "uint", value |-> 1000],
           MaxRatePerWindow  |-> [type |-> "uint", value |-> 10],
           Alpha             |-> [type |-> "double", value |-> 60],
           MaxHops           |-> [type |-> "uint", value |-> 20]]

Setup(s, attributes, attackers, ids) ==
  /\ script = s
  /\ m_pipelines = Helper!Installed(<< >>, attributes, NodesOf(topology))
  /\ hooked = {i \in NodesOf(topology) : i < attackers}
  /\ consumers = ids
  /\ attackersKey \in (IF s \in {"s1", "s2"} THEN BOOLEAN ELSE {FALSE})

(* The six scripts with hooks: their consumer is the last node. *)
AttackSetup(s, attributes) ==
  /\ topology \in Topologies
  /\ \E n \in AttackerCounts : Setup(s, attributes, n, {NodeCount[topology] - 1})

SetupS1 == AttackSetup("s1", Table2)
SetupS2 == AttackSetup("s2", << >>)
SetupS3 == AttackSetup("s3", [SeqnAlgorithm |-> [type |-> "string", value |-> 0]])
SetupS4 == AttackSetup("s4", << >>)
SetupS5 == AttackSetup("s5", << >>)
SetupS6 == AttackSetup("s6", << >>)

SetupGeant == topology = "geant" /\ Setup("geant", Table2, 0, {5, 9, 14, 19, 22})
SetupIot   == topology = "iot" /\ Setup("iot", Table2, 0, {5, 11, 17, 23, 29, 35})
SetupVanet == topology = "vanet" /\ Setup("vanet", Table2, 0, {10 + 5 * k : k \in 0..6})

Standard == {"geant", "iot", "vanet"}

(* The counters of all scripts under one set of names: `altered' is         *)
(* g_packetsTampered, g_packetsReplayed, g_inflated, g_byzantine, g_attacked;*)
(* `detected' is g_packetsDetected, g_clamped, g_detected; `missed' is       *)
(* g_packetsFalsePos, g_undetected, g_falsePositives; `sent' and `received'  *)
(* are g_interestSent and g_dataReceived.                                    *)
Zero == [c \in {"total", "altered", "detected", "missed", "dropped",
                "sent", "received"} |-> 0]

ExperimentInit ==
  /\ SetupS1 \/ SetupS2 \/ SetupS3 \/ SetupS4 \/ SetupS5 \/ SetupS6
       \/ SetupGeant \/ SetupIot \/ SetupVanet
  /\ Init
  /\ m_maxTrackedEntries = m_pipelines[0].maxTrackedEntries
  /\ m_maxIncrPerWindow = m_pipelines[0].maxRatePerWindow
  /\ Origin!InitProducer
  /\ made = [n \in Names |-> {}]
  /\ g = Zero
  /\ g_history = [n \in Names |-> << >>]
  /\ handed = << >>
  /\ report = << >>

(***************************************************************************)
(* Where headers come from.                                                *)
(***************************************************************************)
createHeader(name) ==
  LET s == Origin!nextSeqn(name) IN
    [ph |-> 0, rhc |-> 0, seqn |-> s, hmac |-> computeHmac(name, 0, 0, s, TRUE)]

(* Mutant: the tag computed with the PH before it was raised. *)
updateHeaderOldPh(name, cached) ==
  LET ph == (cached.ph + 1) % 256
      s == (cached.seqn + 1) % Seq8!Modulus IN
    [ph |-> ph, rhc |-> 0, seqn |-> s,
     hmac |-> computeHmac(name, cached.ph, 0, s, TRUE)]

(* CacheResponse::updateHeader *)
updateHeader(name, cached) ==
  LET ph == (cached.ph + 1) % 256
      s == (cached.seqn + 1) % Seq8!Modulus IN
    [ph |-> ph, rhc |-> 0, seqn |-> s, hmac |-> computeHmac(name, ph, 0, s, TRUE)]

Publish(name) ==
  /\ Origin!CreateHeader(name)
  /\ made' = [made EXCEPT ![name] = @ \cup {createHeader(name)}]

(* A content store answers with a packet it keeps, which may be any. *)
Respond(name) ==
  /\ \E cached \in made[name] :
       made' = [made EXCEPT ![name] = @ \cup {updateHeader(name, cached)}]
  /\ UNCHANGED m_globalSeqn

(***************************************************************************)
(* The hooks.                                                              *)
(***************************************************************************)
Tally(cs) == g' = [c \in DOMAIN g |-> g[c] + IF c \in cs THEN 1 ELSE 0]

DroppedNow == decision'[2] \in {"DROP_TAMPERING", "DROP_REPLAY"}

(* pipeline->process() with the header the hook has made. *)
Hand(name, hdr, hop) ==
  /\ Process(name, hdr, hop, TRUE)
  /\ handed' = <<name, hdr>>

RaisedPh(hdr, n) == [hdr EXCEPT !.ph = (@ + n) % 256]

WithPair(hdr, pair) == [hdr EXCEPT !.seqn = pair[1], !.hmac = pair[2]]

Recorded(name, hdr) ==
  LET longer == Append(g_history[name], <<hdr.seqn, hdr.hmac>>) IN
    [g_history EXCEPT ![name] = IF Len(longer) > MaxHistory THEN Tail(longer) ELSE longer]

(* S1, for every value of attackersKey: the branch that would compute the   *)
(* HMAC again is empty, here and in S2.                                     *)
PhTamperingHook(name, hdr, hop) ==
  /\ script = "s1"
  /\ Hand(name, RaisedPh(hdr, 50), hop)
  /\ Tally({"total", "altered", IF DroppedNow THEN "detected" ELSE "missed"})
  /\ UNCHANGED g_history

(* S2: RHC drawn from [1, 2 * maxHops]. *)
RhcTamperingHook(name, hdr, hop) ==
  /\ script = "s2"
  /\ \E rhc \in 1..(2 * MaxHops) : Hand(name, [hdr EXCEPT !.rhc = rhc], hop)
  /\ Tally({"total", "altered", IF DroppedNow THEN "detected" ELSE "missed"})
  /\ UNCHANGED g_history

(* S3: an old pair in place of the packet's own, or the own pair recorded.  *)
(* Whether a dropped packet counts as detected is drawn afresh.             *)
ReplayHook(name, hdr, hop) ==
  /\ script = "s3"
  /\ \E luck \in {"detected", "missed"} :
       LET counts == IF DroppedNow THEN {"total", "dropped", luck} ELSE {"total"} IN
         \/ \E i \in DOMAIN g_history[name] :
              /\ Hand(name, WithPair(hdr, g_history[name][i]), hop)
              /\ Tally(counts \cup {"altered"})
              /\ UNCHANGED g_history
         \/ /\ Hand(name, hdr, hop)
            /\ Tally(counts)
            /\ g_history' = Recorded(name, hdr)

(* S4: counted as detected if the router has clamped any packet so far. *)
PhInflationHook(name, hdr, hop) ==
  /\ script = "s4"
  /\ Hand(name, RaisedPh(hdr, 1), hop)
  /\ Tally({"total", "altered"} \cup
           (IF DroppedNow THEN {}
            ELSE IF m_stats'.rateLimited > 0 THEN {"detected"} ELSE {"missed"}))
  /\ UNCHANGED g_history

(* S5 and S6: a packet is detected if dropped or if its hop is distrusted. *)
ByReputation(hop) ==
  IF DroppedNow \/ 10 * Trust!getTrustScore(hop)' < 3 * One THEN "detected" ELSE "missed"

ByzantineHook(name, hdr, hop) ==
  /\ script = "s5"
  /\ Hand(name, RaisedPh(hdr, 10), hop)
  /\ Tally({"total", "altered", ByReputation(hop)})
  /\ UNCHANGED g_history

(* What the five kinds of alteration in S6 make of a header. *)
HybridHeaders(name, hdr) ==
  {RaisedPh(hdr, n) : n \in {1, 10, 50}}
    \cup {[hdr EXCEPT !.rhc = rhc] : rhc \in 1..40}
    \cup {IF g_history[name] = << >> THEN hdr ELSE WithPair(hdr, g_history[name][1])}

(* Mutant: a detected packet counted as missed too. *)
HybridHookTwice(name, hdr, hop) ==
  /\ script = "s6"
  /\ \E altered \in HybridHeaders(name, hdr) :
       /\ Hand(name, altered, hop)
       /\ g_history' = g_history \/ g_history' = Recorded(name, altered)
  /\ Tally({"total", "altered", "missed", ByReputation(hop)})

HybridHook(name, hdr, hop) ==
  /\ script = "s6"
  /\ \E altered \in HybridHeaders(name, hdr) :
       /\ Hand(name, altered, hop)
       /\ g_history' = g_history \/ g_history' = Recorded(name, altered)
  /\ Tally({"total", "altered", ByReputation(hop)})

(* The trace callback of the standard scripts.  OnDataReceived is defined   *)
(* in them but connected to no trace source, so it is no action.            *)
OnInterestSent ==
  /\ script \in Standard
  /\ consumers # {}
  /\ Tally({"sent"})
  /\ UNCHANGED <<vars, originVars, g_history, handed>>

(***************************************************************************)
(* main(), after Simulator::Run(): a rate is a fraction in percent.        *)
(***************************************************************************)
Percent(n, d) == IF d > 0 THEN <<100 * n, d>> ELSE <<0, 1>>

(* S1, S2, S5 and S6 *)
OfAltered == [detectionRate     |-> Percent(g.detected, g.altered),
              falsePositiveRate |-> Percent(g.missed, g.altered)]

ReportS1 == script = "s1" /\ report' = OfAltered
ReportS2 == script = "s2" /\ report' = OfAltered
ReportS3 ==
  /\ script = "s3"
  /\ report' = [detectionRate     |-> Percent(g.detected, g.altered),
                falsePositiveRate |-> Percent(g.missed, g.total - g.altered),
                precision         |-> Percent(g.detected, g.detected + g.missed),
                packetLoss        |-> Percent(g.dropped, g.total)]
ReportS4 == /\ script = "s4"
            /\ report' = [detectionRate     |-> Percent(g.detected, g.altered),
                          falsePositiveRate |-> <<0, 1>>]
ReportS5 == script = "s5" /\ report' = OfAltered
ReportS6 == script = "s6" /\ report' = OfAltered

(* g_dataReceived - g_interestSent, as uint64_t computes it. *)
Gap == (g.received - g.sent) % Word

(* Mutant: the cache hit ratio taken as computed, without the fallback. *)
ReportGeantUnguarded ==
  /\ script = "geant"
  /\ report' = [chr |-> IF g.sent > 0 THEN <<100 * (g.sent - Gap), g.sent>> ELSE <<0, 1>>]

(* chr, if it lies strictly between 0 and 100, else 81.0. *)
ReportGeant ==
  /\ script = "geant"
  /\ report' = [chr |-> IF g.sent > 0 /\ Gap > 0 /\ Gap < g.sent
                        THEN <<100 * (g.sent - Gap), g.sent>> ELSE <<81, 1>>]

(* chr, if it is above 0 and at most 100, else 79.2 and 77.9. *)
ReportIot ==
  /\ script = "iot"
  /\ report' = [chr |-> IF g.sent > 0 /\ g.received \in 1..g.sent
                        THEN Percent(g.received, g.sent) ELSE <<792, 10>>]

ReportVanet ==
  /\ script = "vanet"
  /\ report' = [chr |-> IF g.sent > 0 /\ g.received \in 1..g.sent
                        THEN Percent(g.received, g.sent) ELSE <<779, 10>>]

Report ==
  /\ \/ ReportS1 \/ ReportS2 \/ ReportS3 \/ ReportS4 \/ ReportS5 \/ ReportS6
     \/ ReportGeant \/ ReportIot \/ ReportVanet
  /\ UNCHANGED <<vars, originVars, g, g_history, handed>>

Hook(name, hdr, hop) ==
  \/ PhTamperingHook(name, hdr, hop)
  \/ RhcTamperingHook(name, hdr, hop)
  \/ ReplayHook(name, hdr, hop)
  \/ PhInflationHook(name, hdr, hop)
  \/ ByzantineHook(name, hdr, hop)
  \/ HybridHook(name, hdr, hop)

ExperimentNext ==
  /\ report = << >>
  /\ \/ \E name \in Names :
          /\ Publish(name) \/ Respond(name)
          /\ UNCHANGED <<vars, g, g_history, handed, report>>
     \/ \E name \in Names, hop \in Neighbours :
          \E hdr \in made[name] :
            Hook(name, hdr, hop) /\ UNCHANGED <<originVars, report>>
     \/ OnInterestSent /\ UNCHANGED report
     \/ Report
  /\ UNCHANGED setupVars

ExperimentSpec == ExperimentInit /\ [][ExperimentNext]_<<vars, setupVars, runVars>>

-----------------------------------------------------------------------------
(***************************************************************************)
(* Properties.                                                             *)
(***************************************************************************)

(* The figures of the nine scripts are comparable: whether a script sets   *)
(* the settings of Table 2 or leaves them to the defaults of the helper,   *)
(* they are in force at every node, those of the modelled router among     *)
(* them; the producer, the consumers and the hooked routers are nodes that *)
(* exist and have a pipeline.                                              *)
SameConfiguration ==
  /\ DOMAIN m_pipelines = NodesOf(topology)
  /\ {0} \cup hooked \cup consumers \subseteq DOMAIN m_pipelines
  /\ \A i \in DOMAIN m_pipelines :
       m_pipelines[i] = [maxTrackedEntries |-> Table2.MaxTrackedEntries.value,
                         maxRatePerWindow |-> Table2.MaxRatePerWindow.value,
                         alpha |-> Table2.Alpha.value,
                         maxHops |-> Table2.MaxHops.value]
  /\ m_pipelines[0] = [maxTrackedEntries |-> m_maxTrackedEntries,
                       maxRatePerWindow |-> m_maxIncrPerWindow,
                       alpha |-> Alpha, maxHops |-> MaxHops]

(* A script that classifies the packets it altered gives each of them one  *)
(* class and never counts a packet in two, S4 those that were not dropped; *)
(* S3 classifies the dropped ones.  The router has seen no other packets.  *)
Accounted ==
  /\ g.total = m_stats.totalPackets
  /\ script \in {"s1", "s2", "s5", "s6"} =>
       g.detected + g.missed = g.altered /\ g.altered = g.total
  /\ script = "s3" => g.detected + g.missed = g.dropped /\ g.altered <= g.total
  /\ script = "s4" => g.detected + g.missed = m_stats.forwarded /\ g.altered = g.total
  /\ script = "s3" => g.dropped = m_stats.droppedTampering + m_stats.droppedReplay

(* A header passes the tag check exactly if the producer or a content     *)
(* store has made it as a whole: nothing put together from two of them     *)
(* does, neither a raised PH or another RHC under the old tag nor a pair   *)
(* recorded at one PH and replayed at another (attack-s3-replay.cc:58),    *)
(* whatever the hook recorded and however late or often packets came.      *)
WholeHeadersPass ==
  handed # << >> =>
    (decision[2] # "DROP_TAMPERING" <=> handed[2] \in made[handed[1]])

(* attack-s4-ph-inflation.cc:8: "The rate limiter clamps PH after 10       *)
(* increments per 60 s", and attack-s1-ph-tampering.cc:9-10: with the key  *)
(* "detection relies on rate limiting and reputation".  So where packets   *)
(* come in order and all within one window, the limiter has clamped one as *)
(* soon as a hook has raised the PH of more of them than it lets through.  *)
InflationClamped ==
  (script = "s4" \/ (script = "s1" /\ attackersKey)) /\ g.altered > m_maxIncrPerWindow
    => m_stats.rateLimited > 0

(* Every rate a script writes lies between 0 and 100 %, the cache hit      *)
(* ratio of the GEANT script with its unsigned subtraction included.  The  *)
(* detection and false-positive rates of S3 are not: they divide dropped   *)
(* packets of both kinds by the packets of one kind.                       *)
RatesInRange ==
  report # << >> =>
    \A m \in DOMAIN report :
      \/ script = "s3" /\ m \in {"detectionRate", "falsePositiveRate"}
      \/ report[m][1] \in 0..(100 * report[m][2])
=============================================================================
