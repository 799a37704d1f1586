------------------------- MODULE ExperimentsProofs -------------------------
(***************************************************************************)
(* Theorems about the experiment scripts, for every set of names, every    *)
(* circle of numbers, every history, every number of attackers and every   *)
(* length of a run.  The counters of a script are tied to those of its     *)
(* router packet by packet; the rates follow from the counters.  That      *)
(* exactly whole headers pass rests on one observation: whatever a hook    *)
(* does to a header, the SEQN and the HMAC it hands on are those of one    *)
(* header that was made, and of the headers with this pair only that one   *)
(* fits its tag.                                                           *)
(***************************************************************************)
EXTENDS Experiments, RouterPipelineProofs

-----------------------------------------------------------------------------
(* The inductive invariant. *)

Counted == {"total", "altered", "detected", "missed", "dropped", "sent", "received"}

CountsOK == g \in [Counted -> Nat]

FourFields(hdr) ==
  hdr = [ph |-> hdr.ph, rhc |-> hdr.rhc, seqn |-> hdr.seqn, hmac |-> hdr.hmac]

(* Producer and content stores tag each header over its own fields. *)
MadeOK ==
  /\ made = [n \in Names |-> made[n]]
  /\ \A n \in Names : \A h \in made[n] : FourFields(h) /\ Verifies(n, h, TRUE)

(* The pairs that can have been recorded for a name. *)
Genuine(name) == {<<h.seqn, h.hmac>> : h \in made[name]}

HistoryOK ==
  /\ DOMAIN g_history = Names
  /\ g_history = [n \in Names |-> g_history[n]]
  /\ \A n \in Names : g_history[n] \in Seq(Genuine(n))

(* Number and tag of a header come from one header that was made. *)
PairOfMade(name, hdr) ==
  /\ FourFields(hdr)
  /\ \E h \in made[name] : hdr.seqn = h.seqn /\ hdr.hmac = h.hmac

JudgedByTag ==
  handed # << >> =>
    /\ handed[1] \in Names
    /\ PairOfMade(handed[1], handed[2])
    /\ decision[2] = "DROP_TAMPERING" <=> ~ Verifies(handed[1], handed[2], TRUE)

IInv ==
  /\ StatsInv
  /\ CountsOK
  /\ MadeOK
  /\ HistoryOK
  /\ JudgedByTag
  /\ Accounted
  /\ SameConfiguration
  /\ RatesInRange

-----------------------------------------------------------------------------
(* Lemmas: what one packet does. *)

(* The three outcomes of process() for a packet that a hook hands over.    *)
Outcome(name, hdr, hop) ==
  \/ /\ decision' = <<hop, "DROP_TAMPERING">>
     /\ ~ Verifies(name, hdr, TRUE)
     /\ DropsOne("droppedTampering")
  \/ /\ decision' = <<hop, "DROP_REPLAY">>
     /\ Verifies(name, hdr, TRUE)
     /\ DropsOne("droppedReplay")
  \/ /\ \E verdict \in {"FORWARD_ONLY", "CACHE_AND_FORWARD"} :
          decision' = <<hop, verdict>>
     /\ Verifies(name, hdr, TRUE)
     /\ ForwardsOne

(* Every packet has one of them, and none reconfigures the router.         *)
LEMMA ProcessOutcome ==
  ASSUME StatsInv, NEW name, NEW hdr, NEW hop, Process(name, hdr, hop, TRUE)
  PROVE  /\ Outcome(name, hdr, hop)
         /\ StatsInv'
         /\ UNCHANGED <<m_maxTrackedEntries, m_maxIncrPerWindow>>
<1>1. StatsOK /\ StatsAddUp /\ \A c \in Counters : m_stats[c] \in Nat
  BY DEF StatsInv, StatsOK
<1>2. CASE DropTampering(name, hdr, hop, TRUE)
  <2>1. StatsOK' /\ DropsOne("droppedTampering")
    BY <1>1, <1>2, DropTamperingCounts
  <2>2. StatsInv'
    BY <1>1, <2>1 DEF DropsOne, StatsInv, StatsAddUp, Counters
  <2> QED BY <1>2, <2>1, <2>2 DEF Outcome, DropTampering, Return, seqVars, rateVars
<1>3. CASE DropReplay(name, hdr, hop, TRUE)
  <2>1. StatsOK' /\ DropsOne("droppedReplay")
    BY <1>1, <1>3, DropReplayCounts
  <2>2. StatsInv'
    BY <1>1, <2>1 DEF DropsOne, StatsInv, StatsAddUp, Counters
  <2> QED BY <1>3, <2>1, <2>2
         DEF Outcome, DropReplay, Return, rateVars, Seq8!DropUnfresh, Seq8!cache
<1>4. CASE Forward(name, hdr, hop, TRUE)
  <2>1. StatsOK' /\ ForwardsOne
    BY <1>1, <1>4, ForwardCounts
  <2>2. StatsInv'
    BY <1>1, <2>1 DEF ForwardsOne, StatsInv, StatsAddUp, Counters
  <2>3. \E verdict \in {"FORWARD_ONLY", "CACHE_AND_FORWARD"} :
          decision' = <<hop, verdict>>
    BY <1>4 DEF Forward, Conclude, Return
  <2>4. m_maxTrackedEntries' = m_maxTrackedEntries
    BY <1>4 DEF Forward, Seq8!Accept, Seq8!AcceptTracked, Seq8!AcceptNew,
                Seq8!AcceptEvicting
  <2>5. m_maxIncrPerWindow' = m_maxIncrPerWindow
    BY <1>4 DEF Forward, Rate!Clamp, Rate!Record
  <2>6. Verifies(name, hdr, TRUE)
    BY <1>4 DEF Forward
  <2> QED BY <2>1, <2>2, <2>3, <2>4, <2>5, <2>6 DEF Outcome
<1> QED BY <1>2, <1>3, <1>4 DEF Process

(* Tally() raises the counters it is given by one and no others.           *)
LEMMA TallyFacts ==
  ASSUME CountsOK, NEW cs, Tally(cs)
  PROVE  /\ CountsOK'
         /\ \A c \in Counted : g'[c] = IF c \in cs THEN g[c] + 1 ELSE g[c]
BY DEF CountsOK, Tally

-----------------------------------------------------------------------------
(* Lemmas: the headers that are made. *)

(* Of the headers with a pair that was made, those that fit their tag are  *)
(* exactly the headers made: the tag covers name, PH, RHC and SEQN.        *)
LEMMA WholeVerifies ==
  ASSUME MadeOK, NEW name \in Names, NEW hdr, PairOfMade(name, hdr)
  PROVE  Verifies(name, hdr, TRUE) <=> hdr \in made[name]
<1>1. ASSUME hdr \in made[name] PROVE Verifies(name, hdr, TRUE)
  BY <1>1 DEF MadeOK
<1>2. ASSUME Verifies(name, hdr, TRUE) PROVE hdr \in made[name]
  <2>1. PICK h \in made[name] : hdr.seqn = h.seqn /\ hdr.hmac = h.hmac
    BY DEF PairOfMade
  <2>2. FourFields(h) /\ Verifies(name, h, TRUE) /\ FourFields(hdr)
    BY DEF MadeOK, PairOfMade
  <2>3. <<name, hdr.ph, hdr.rhc, hdr.seqn>> = <<name, h.ph, h.rhc, h.seqn>>
    BY <1>2, <2>1, <2>2 DEF Verifies, computeHmac
  <2>4. hdr.ph = h.ph /\ hdr.rhc = h.rhc
    BY <2>3
  <2>5. hdr = h
    BY <2>1, <2>2, <2>4 DEF FourFields
  <2> QED BY <2>5
<1> QED BY <1>1, <1>2

(* Another header, tagged over its fields, keeps all that was so.          *)
LEMMA MadeGrows ==
  ASSUME MadeOK, HistoryOK, JudgedByTag, NEW name \in Names, NEW hdr,
         FourFields(hdr), Verifies(name, hdr, TRUE),
         made' = [made EXCEPT ![name] = @ \cup {hdr}],
         UNCHANGED <<g_history, handed, decision>>
  PROVE  MadeOK' /\ HistoryOK' /\ JudgedByTag'
<1>1. made = [n \in Names |-> made[n]]
  BY DEF MadeOK
<1>2. made' = [n \in Names |-> IF n = name THEN made[n] \cup {hdr} ELSE made[n]]
  BY <1>1
<1>3. \A n \in Names : made[n] \subseteq made'[n]
  BY <1>2
<1>4. MadeOK'
  <2>1. made' = [n \in Names |-> made'[n]]
    BY <1>2
  <2>2. ASSUME NEW n \in Names, NEW h \in made'[n]
        PROVE  FourFields(h) /\ Verifies(n, h, TRUE)
    <3>1. CASE h \in made[n]
      BY <3>1 DEF MadeOK
    <3>2. CASE n = name /\ h = hdr
      BY <3>2
    <3> QED BY <1>2, <2>2, <3>1, <3>2
  <2> QED BY <2>1, <2>2 DEF MadeOK
<1>5. HistoryOK'
  <2>1. \A n \in Names : Genuine(n) \subseteq Genuine(n)'
    BY <1>3 DEF Genuine
  <2>2. ASSUME NEW n \in Names PROVE g_history[n] \in Seq(Genuine(n)')
    <3>1. g_history[n] \in Seq(Genuine(n))
      BY DEF HistoryOK
    <3> HIDE DEF Genuine
    <3> QED BY <2>1, <3>1, SeqMonotonic
  <2>3. g_history' = g_history
    OBVIOUS
  <2> QED BY <2>2, <2>3 DEF HistoryOK
<1>6. JudgedByTag'
  <2>1. ASSUME NEW n \in Names, NEW h, PairOfMade(n, h)
        PROVE  PairOfMade(n, h)'
    BY <1>3, <2>1 DEF PairOfMade
  <2> QED BY <2>1 DEF JudgedByTag
<1> QED BY <1>4, <1>5, <1>6

(* The producer tags what it numbers, a content store what it answers.     *)
LEMMA CreateTags ==
  ASSUME NEW name
  PROVE  FourFields(createHeader(name)) /\ Verifies(name, createHeader(name), TRUE)
BY DEF createHeader, FourFields, Verifies, computeHmac

LEMMA UpdateTags ==
  ASSUME NEW name, NEW cached
  PROVE  /\ FourFields(updateHeader(name, cached))
         /\ Verifies(name, updateHeader(name, cached), TRUE)
<1> DEFINE ph == (cached.ph + 1) % 256
           s == (cached.seqn + 1) % Seq8!Modulus
<1>1. updateHeader(name, cached) =
        [ph |-> ph, rhc |-> 0, seqn |-> s, hmac |-> <<name, ph, 0, s>>]
  BY DEF updateHeader, computeHmac
<1> HIDE DEF ph, s
<1> QED BY <1>1 DEF FourFields, Verifies, computeHmac

LEMMA MakingStep ==
  ASSUME MadeOK, HistoryOK, JudgedByTag, NEW name \in Names,
         Publish(name) \/ Respond(name), UNCHANGED <<g_history, handed, decision>>
  PROVE  MadeOK' /\ HistoryOK' /\ JudgedByTag'
<1>1. CASE Publish(name)
  BY <1>1, CreateTags, MadeGrows DEF Publish
<1>2. CASE Respond(name)
  BY <1>2, UpdateTags, MadeGrows DEF Respond
<1> QED BY <1>1, <1>2

-----------------------------------------------------------------------------
(* Lemmas: what the hooks hand over and record. *)

(* A header as it was made. *)
LEMMA MadeItself ==
  ASSUME MadeOK, NEW name \in Names, NEW hdr \in made[name]
  PROVE  PairOfMade(name, hdr)
BY DEF MadeOK, PairOfMade

(* A raised PH leaves number and tag alone. *)
LEMMA RaisedMade ==
  ASSUME MadeOK, NEW name \in Names, NEW hdr \in made[name], NEW n
  PROVE  PairOfMade(name, RaisedPh(hdr, n))
<1> DEFINE raised == RaisedPh(hdr, n)
<1>1. FourFields(hdr)
  BY DEF MadeOK
<1>2. raised = [ph |-> (hdr.ph + n) % 256, rhc |-> hdr.rhc,
                seqn |-> hdr.seqn, hmac |-> hdr.hmac]
  BY <1>1 DEF FourFields, RaisedPh
<1> HIDE DEF raised
<1>3. FourFields(raised) /\ raised.seqn = hdr.seqn /\ raised.hmac = hdr.hmac
  BY <1>2 DEF FourFields
<1> QED BY <1>3 DEF PairOfMade, raised

(* So does another RHC. *)
LEMMA RhcMade ==
  ASSUME MadeOK, NEW name \in Names, NEW hdr \in made[name], NEW rhc
  PROVE  PairOfMade(name, [hdr EXCEPT !.rhc = rhc])
<1> DEFINE other == [hdr EXCEPT !.rhc = rhc]
<1>1. FourFields(hdr)
  BY DEF MadeOK
<1>2. other = [ph |-> hdr.ph, rhc |-> rhc, seqn |-> hdr.seqn, hmac |-> hdr.hmac]
  BY <1>1 DEF FourFields
<1> HIDE DEF other
<1>3. FourFields(other) /\ other.seqn = hdr.seqn /\ other.hmac = hdr.hmac
  BY <1>2 DEF FourFields
<1> QED BY <1>3 DEF PairOfMade, other

(* An old pair brings the tag it was made with.                            *)
LEMMA PairMade ==
  ASSUME MadeOK, NEW name \in Names, NEW hdr \in made[name], NEW pair \in Genuine(name)
  PROVE  PairOfMade(name, WithPair(hdr, pair))
<1> DEFINE other == WithPair(hdr, pair)
<1>1. FourFields(hdr)
  BY DEF MadeOK
<1>2. other = [ph |-> hdr.ph, rhc |-> hdr.rhc, seqn |-> pair[1], hmac |-> pair[2]]
  <2> DEFINE own == [ph |-> hdr.ph, rhc |-> hdr.rhc, seqn |-> hdr.seqn, hmac |-> hdr.hmac]
  <2>1. other = [own EXCEPT !.seqn = pair[1], !.hmac = pair[2]]
    BY <1>1, Zenon DEF FourFields, WithPair
  <2> QED BY <2>1
<1>3. PICK h \in made[name] : pair = <<h.seqn, h.hmac>>
  BY DEF Genuine
<1>4. pair[1] = h.seqn /\ pair[2] = h.hmac
  BY <1>3
<1> HIDE DEF other
<1>5. FourFields(other) /\ other.seqn = h.seqn /\ other.hmac = h.hmac
  BY <1>2, <1>4 DEF FourFields
<1> QED BY <1>5 DEF PairOfMade, other

(* A header recorded, altered or not, adds a pair as it was made.          *)
LEMMA RecordedOK ==
  ASSUME HistoryOK, NEW name \in Names, NEW hdr, PairOfMade(name, hdr),
         g_history' = g_history \/ g_history' = Recorded(name, hdr), UNCHANGED made
  PROVE  HistoryOK'
<1>0. \A n \in Names : Genuine(n)' = Genuine(n)
  BY DEF Genuine
<1>1. CASE g_history' = g_history
  BY <1>0, <1>1 DEF HistoryOK
<1>2. CASE g_history' = Recorded(name, hdr)
  <2> DEFINE pair == <<hdr.seqn, hdr.hmac>>
             longer == Append(g_history[name], pair)
             kept == IF Len(longer) > MaxHistory THEN Tail(longer) ELSE longer
  <2>1. pair \in Genuine(name)
    BY DEF PairOfMade, Genuine
  <2>2. /\ g_history[name] \in Seq(Genuine(name))
        /\ DOMAIN g_history = Names
        /\ g_history = [n \in Names |-> g_history[n]]
        /\ \A n \in Names : g_history[n] \in Seq(Genuine(n))
    BY DEF HistoryOK
  <2>3. g_history' = [g_history EXCEPT ![name] = kept]
    BY <1>2 DEF Recorded
  <2> HIDE DEF pair
  <2>4. /\ longer \in Seq(Genuine(name))
        /\ Len(longer) = Len(g_history[name]) + 1
        /\ Len(g_history[name]) \in Nat
    BY <2>1, <2>2, AppendProperties, LenProperties
  <2> HIDE DEF longer
  <2>5. longer # << >>
    BY <2>4
  <2>6. kept \in Seq(Genuine(name))
    BY <2>4, <2>5, HeadTailProperties
  <2> HIDE DEF kept
  <2>7. g_history' = [n \in Names |-> IF n = name THEN kept ELSE g_history[n]]
    BY <2>2, <2>3
  <2> QED BY <1>0, <2>2, <2>6, <2>7 DEF HistoryOK
<1> QED BY <1>1, <1>2

(* Every header of S6 is made so. *)
LEMMA HybridMade ==
  ASSUME MadeOK, HistoryOK, NEW name \in Names, NEW hdr \in made[name],
         NEW altered \in HybridHeaders(name, hdr)
  PROVE  PairOfMade(name, altered)
<1>1. CASE altered \in {RaisedPh(hdr, n) : n \in {1, 10, 50}}
  BY <1>1, RaisedMade
<1>2. CASE altered \in {[hdr EXCEPT !.rhc = rhc] : rhc \in 1..40}
  BY <1>2, RhcMade
<1>3. CASE altered = hdr
  BY <1>3, MadeItself
<1>4. CASE g_history[name] # << >> /\ altered = WithPair(hdr, g_history[name][1])
  <2>1. g_history[name] \in Seq(Genuine(name))
    BY DEF HistoryOK
  <2>2. Len(g_history[name]) \in Nat /\ Len(g_history[name]) # 0
    BY <1>4, <2>1, EmptySeq, LenProperties
  <2>3. g_history[name][1] \in Genuine(name)
    BY <2>1, <2>2, ElementOfSeq
  <2> QED BY <1>4, <2>3, PairMade
<1> QED BY <1>1, <1>2, <1>3, <1>4 DEF HybridHeaders

(* What every hook does with a packet, whichever script it belongs to.     *)
LEMMA HookHands ==
  ASSUME MadeOK, HistoryOK, NEW name \in Names, NEW hdr \in made[name], NEW hop,
         Hook(name, hdr, hop), UNCHANGED made
  PROVE  \E given : /\ Process(name, given, hop, TRUE)
                    /\ handed' = <<name, given>>
                    /\ PairOfMade(name, given)
                    /\ HistoryOK'
<1>0. ASSUME NEW h, Hand(name, h, hop), PairOfMade(name, h),
             g_history' = g_history \/ g_history' = Recorded(name, h)
      PROVE  \E given : /\ Process(name, given, hop, TRUE)
                        /\ handed' = <<name, given>>
                        /\ PairOfMade(name, given)
                        /\ HistoryOK'
  BY <1>0, RecordedOK DEF Hand
<1>1. CASE PhTamperingHook(name, hdr, hop)
  BY <1>0, <1>1, RaisedMade DEF PhTamperingHook
<1>2. CASE RhcTamperingHook(name, hdr, hop)
  BY <1>0, <1>2, RhcMade DEF RhcTamperingHook
<1>3. CASE ReplayHook(name, hdr, hop)
  <2>1. CASE \E i \in DOMAIN g_history[name] :
               /\ Hand(name, WithPair(hdr, g_history[name][i]), hop)
               /\ UNCHANGED g_history
    <3>1. PICK i \in DOMAIN g_history[name] :
            /\ Hand(name, WithPair(hdr, g_history[name][i]), hop)
            /\ UNCHANGED g_history
      BY <2>1
    <3>2. g_history[name] \in Seq(Genuine(name))
      BY DEF HistoryOK
    <3>3. g_history[name][i] \in Genuine(name)
      BY <3>2, ElementOfSeq, LenProperties
    <3> QED BY <1>0, <3>1, <3>3, PairMade
  <2>2. CASE /\ Hand(name, hdr, hop)
             /\ g_history' = Recorded(name, hdr)
    BY <1>0, <2>2, MadeItself
  <2> QED BY <1>3, <2>1, <2>2 DEF ReplayHook
<1>4. CASE PhInflationHook(name, hdr, hop)
  BY <1>0, <1>4, RaisedMade DEF PhInflationHook
<1>5. CASE ByzantineHook(name, hdr, hop)
  BY <1>0, <1>5, RaisedMade DEF ByzantineHook
<1>6. CASE HybridHook(name, hdr, hop)
  <2>1. PICK altered \in HybridHeaders(name, hdr) :
          /\ Hand(name, altered, hop)
          /\ g_history' = g_history \/ g_history' = Recorded(name, altered)
    BY <1>6 DEF HybridHook
  <2> QED BY <1>0, <2>1, HybridMade
<1> QED BY <1>1, <1>2, <1>3, <1>4, <1>5, <1>6 DEF Hook

(* So the verdict on a packet tells whether its tag fits.                  *)
LEMMA HookTells ==
  ASSUME IInv, NEW name \in Names, NEW hdr \in made[name], NEW hop,
         Hook(name, hdr, hop), UNCHANGED made
  PROVE  /\ JudgedByTag' /\ MadeOK'
         /\ StatsInv' /\ HistoryOK'
         /\ UNCHANGED <<m_maxTrackedEntries, m_maxIncrPerWindow>>
<1>1. PICK given : /\ Process(name, given, hop, TRUE)
                   /\ handed' = <<name, given>>
                   /\ PairOfMade(name, given)
                   /\ HistoryOK'
  BY HookHands DEF IInv
<1>2. /\ Outcome(name, given, hop) /\ StatsInv'
      /\ UNCHANGED <<m_maxTrackedEntries, m_maxIncrPerWindow>>
  BY <1>1, ProcessOutcome DEF IInv
<1>3. decision'[2] = "DROP_TAMPERING" <=> ~ Verifies(name, given, TRUE)
  <2>1. ASSUME NEW verdict, decision' = <<hop, verdict>>
        PROVE  decision'[2] = verdict
    BY <2>1
  <2>2. CASE decision' = <<hop, "DROP_TAMPERING">> /\ ~ Verifies(name, given, TRUE)
    BY <2>1, <2>2
  <2>3. CASE decision' = <<hop, "DROP_REPLAY">> /\ Verifies(name, given, TRUE)
    BY <2>1, <2>3
  <2>4. ASSUME NEW verdict \in {"FORWARD_ONLY", "CACHE_AND_FORWARD"},
               decision' = <<hop, verdict>>, Verifies(name, given, TRUE)
        PROVE  decision'[2] = "DROP_TAMPERING" <=> ~ Verifies(name, given, TRUE)
    BY <2>1, <2>4
  <2> QED BY <1>2, <2>2, <2>3, <2>4 DEF Outcome
<1>4. handed'[1] = name /\ handed'[2] = given
  BY <1>1
<1>5. PairOfMade(name, given)'
  BY <1>1 DEF PairOfMade
<1>6. JudgedByTag'
  BY <1>3, <1>4, <1>5 DEF JudgedByTag
<1>7. MadeOK'
  BY DEF IInv, MadeOK
<1> QED BY <1>1, <1>2, <1>6, <1>7

-----------------------------------------------------------------------------
(* Lemmas: the counters of a script next to those of its router. *)

(* A dropped packet is one of the two dropped kinds, any other forwarded.  *)
LEMMA DroppedCounts ==
  ASSUME StatsInv, NEW name, NEW hdr, NEW hop, Process(name, hdr, hop, TRUE)
  PROVE  /\ m_stats'.totalPackets = m_stats.totalPackets + 1
         /\ m_stats'.forwarded =
              IF DroppedNow THEN m_stats.forwarded ELSE m_stats.forwarded + 1
         /\ m_stats'.droppedTampering + m_stats'.droppedReplay =
              IF DroppedNow THEN m_stats.droppedTampering + m_stats.droppedReplay + 1
                            ELSE m_stats.droppedTampering + m_stats.droppedReplay
<1>1. Outcome(name, hdr, hop) /\ \A c \in Counters : m_stats[c] \in Nat
  BY ProcessOutcome DEF StatsInv, StatsOK
<1>2. ASSUME NEW verdict, decision' = <<hop, verdict>>
      PROVE  decision'[2] = verdict
  BY <1>2
<1>3. CASE decision' = <<hop, "DROP_TAMPERING">> /\ DropsOne("droppedTampering")
  <2>1. DroppedNow
    BY <1>2, <1>3 DEF DroppedNow
  <2> QED BY <1>1, <1>3, <2>1 DEF DropsOne, Counters
<1>4. CASE decision' = <<hop, "DROP_REPLAY">> /\ DropsOne("droppedReplay")
  <2>1. DroppedNow
    BY <1>2, <1>4 DEF DroppedNow
  <2> QED BY <1>1, <1>4, <2>1 DEF DropsOne, Counters
<1>5. ASSUME NEW verdict \in {"FORWARD_ONLY", "CACHE_AND_FORWARD"},
             decision' = <<hop, verdict>>, ForwardsOne
      PROVE  ~ DroppedNow /\ ForwardsOne
  <2>1. decision'[2] = verdict
    BY <1>2, <1>5
  <2> QED BY <1>5, <2>1 DEF DroppedNow
<1>6. CASE ~ DroppedNow /\ ForwardsOne
  BY <1>1, <1>6 DEF ForwardsOne, Counters
<1> HIDE DEF DroppedNow
<1> QED BY <1>1, <1>3, <1>4, <1>5, <1>6 DEF Outcome

(* A script that classifies every packet it alters, and alters every one.  *)
LEMMA ClassifyingAccounts ==
  ASSUME IInv, NEW name, NEW hdr, NEW hop, Process(name, hdr, hop, TRUE),
         NEW class \in {"detected", "missed"}, Tally({"total", "altered", class}),
         script \in {"s1", "s2", "s5", "s6"}, UNCHANGED script
  PROVE  Accounted' /\ CountsOK'
<1>1. CountsOK /\ Accounted /\ StatsInv
  BY DEF IInv
<1>2. /\ CountsOK'
      /\ g'.total = g.total + 1 /\ g'.altered = g.altered + 1
      /\ g'.detected = IF class = "detected" THEN g.detected + 1 ELSE g.detected
      /\ g'.missed = IF class = "missed" THEN g.missed + 1 ELSE g.missed
  BY <1>1, TallyFacts DEF Counted
<1>3. m_stats'.totalPackets = m_stats.totalPackets + 1
  BY <1>1, DroppedCounts
<1>4. g.total \in Nat /\ g.altered \in Nat /\ g.detected \in Nat /\ g.missed \in Nat
  BY <1>1 DEF CountsOK, Counted
<1>5. /\ g.total = m_stats.totalPackets
      /\ g.detected + g.missed = g.altered /\ g.altered = g.total
  BY <1>1 DEF Accounted
<1>6. /\ g'.total = m_stats'.totalPackets
      /\ g'.detected + g'.missed = g'.altered /\ g'.altered = g'.total
  BY <1>2, <1>3, <1>4, <1>5
<1> QED BY <1>2, <1>6 DEF Accounted

(* S3: a class for each dropped packet, altered or not.                    *)
LEMMA ReplayAccounts ==
  ASSUME IInv, NEW name, NEW hdr, NEW hop, ReplayHook(name, hdr, hop), UNCHANGED script
  PROVE  Accounted' /\ CountsOK'
<1>1. CountsOK /\ Accounted /\ StatsInv
  BY DEF IInv
<1>2. script = "s3"
  BY DEF ReplayHook
<1>3. PICK luck \in {"detected", "missed"}, altered \in SUBSET {"altered"} :
        /\ Tally((IF DroppedNow THEN {"total", "dropped", luck} ELSE {"total"}) \cup altered)
        /\ \E given : Process(name, given, hop, TRUE)
  <2>1. PICK luck \in {"detected", "missed"} :
          LET counts == IF DroppedNow THEN {"total", "dropped", luck} ELSE {"total"} IN
            /\ Tally(counts \cup {"altered"}) \/ Tally(counts)
            /\ \E given : Process(name, given, hop, TRUE)
    BY DEF ReplayHook, Hand
  <2> DEFINE counts == IF DroppedNow THEN {"total", "dropped", luck} ELSE {"total"}
  <2>2. counts = counts \cup {}
    OBVIOUS
  <2>3. Tally(counts \cup {"altered"}) \/ Tally(counts \cup {})
    BY <2>1, <2>2
  <2>4. PICK altered \in SUBSET {"altered"} : Tally(counts \cup altered)
    <3> HIDE DEF counts
    <3>1. {} \in SUBSET {"altered"} /\ {"altered"} \in SUBSET {"altered"}
      OBVIOUS
    <3> QED BY <2>3, <3>1
  <2> QED BY <2>1, <2>4
<1> DEFINE cs == (IF DroppedNow THEN {"total", "dropped", luck} ELSE {"total"}) \cup altered
<1>4. CountsOK' /\ \A c \in Counted : g'[c] = IF c \in cs THEN g[c] + 1 ELSE g[c]
  BY <1>1, <1>3, TallyFacts
<1>5. /\ m_stats'.totalPackets = m_stats.totalPackets + 1
      /\ m_stats'.droppedTampering + m_stats'.droppedReplay =
           IF DroppedNow THEN m_stats.droppedTampering + m_stats.droppedReplay + 1
                         ELSE m_stats.droppedTampering + m_stats.droppedReplay
  BY <1>1, <1>3, DroppedCounts
<1>6. \A c \in Counted : g[c] \in Nat
  BY <1>1 DEF CountsOK
<1>7. /\ g.total = m_stats.totalPackets /\ g.altered <= g.total
      /\ g.detected + g.missed = g.dropped
      /\ g.dropped = m_stats.droppedTampering + m_stats.droppedReplay
  BY <1>1, <1>2 DEF Accounted
<1>8. /\ g'.total = g.total + 1 /\ g'.altered \in {g.altered, g.altered + 1}
      /\ g'.dropped = IF DroppedNow THEN g.dropped + 1 ELSE g.dropped
      /\ g'.detected + g'.missed =
           IF DroppedNow THEN g.detected + g.missed + 1 ELSE g.detected + g.missed
  <2>1. CASE DroppedNow
    BY <1>4, <1>6, <2>1 DEF Counted
  <2>2. CASE ~ DroppedNow
    BY <1>4, <1>6, <2>2 DEF Counted
  <2> QED BY <2>1, <2>2
<1>9. /\ g'.total = m_stats'.totalPackets /\ g'.altered <= g'.total
      /\ g'.detected + g'.missed = g'.dropped
      /\ g'.dropped = m_stats'.droppedTampering + m_stats'.droppedReplay
  <2>1. /\ g.total \in Nat /\ g.altered \in Nat /\ g.dropped \in Nat
        /\ g.detected + g.missed \in Nat
    BY <1>6 DEF Counted
  <2>2. CASE DroppedNow
    BY <1>5, <1>7, <1>8, <2>1, <2>2
  <2>3. CASE ~ DroppedNow
    BY <1>5, <1>7, <1>8, <2>1, <2>3
  <2> QED BY <2>2, <2>3
<1> QED BY <1>2, <1>4, <1>9 DEF Accounted

(* S4: a class for each packet that is not dropped.                        *)
LEMMA InflationAccounts ==
  ASSUME IInv, NEW name, NEW hdr, NEW hop, PhInflationHook(name, hdr, hop), UNCHANGED script
  PROVE  Accounted' /\ CountsOK'
<1>1. CountsOK /\ Accounted /\ StatsInv
  BY DEF IInv
<1>2. script = "s4" /\ \E given : Process(name, given, hop, TRUE)
  BY DEF PhInflationHook, Hand
<1> DEFINE class == IF m_stats'.rateLimited > 0 THEN "detected" ELSE "missed"
<1>3. CASE DroppedNow
  <2>1. Tally({"total", "altered"} \cup {})
    BY <1>3 DEF PhInflationHook
  <2>2. /\ CountsOK'
        /\ g'.total = g.total + 1 /\ g'.altered = g.altered + 1
        /\ g'.detected = g.detected /\ g'.missed = g.missed
    BY <1>1, <2>1, TallyFacts DEF Counted
  <2>3. /\ m_stats'.totalPackets = m_stats.totalPackets + 1
        /\ m_stats'.forwarded = m_stats.forwarded
    BY <1>1, <1>2, <1>3, DroppedCounts
  <2> QED BY <1>1, <1>2, <2>2, <2>3 DEF Accounted
<1>4. CASE ~ DroppedNow
  <2>1. class \in {"detected", "missed"}
    OBVIOUS
  <2>2. Tally({"total", "altered"} \cup {class})
    BY <1>4 DEF PhInflationHook
  <2> HIDE DEF class
  <2>3. /\ CountsOK'
        /\ g'.total = g.total + 1 /\ g'.altered = g.altered + 1
        /\ g'.detected = IF class = "detected" THEN g.detected + 1 ELSE g.detected
        /\ g'.missed = IF class = "missed" THEN g.missed + 1 ELSE g.missed
    BY <1>1, <2>1, <2>2, TallyFacts DEF Counted
  <2>4. /\ m_stats'.totalPackets = m_stats.totalPackets + 1
        /\ m_stats'.forwarded = m_stats.forwarded + 1
    BY <1>1, <1>2, <1>4, DroppedCounts
  <2>5. g.detected \in Nat /\ g.missed \in Nat
    BY <1>1 DEF CountsOK, Counted
  <2>6. /\ g.total = m_stats.totalPackets /\ g.altered = g.total
        /\ g.detected + g.missed = m_stats.forwarded
    BY <1>1, <1>2 DEF Accounted
  <2>7. /\ g'.total = m_stats'.totalPackets /\ g'.altered = g'.total
        /\ g'.detected + g'.missed = m_stats'.forwarded
    BY <2>1, <2>3, <2>4, <2>5, <2>6
  <2> QED BY <1>2, <2>3, <2>7 DEF Accounted
<1> QED BY <1>3, <1>4

(* One case per script. *)
LEMMA HookAccounts ==
  ASSUME IInv, NEW name, NEW hdr, NEW hop, Hook(name, hdr, hop), UNCHANGED script
  PROVE  Accounted' /\ CountsOK'
<1>1. CASE PhTamperingHook(name, hdr, hop)
  <2>1. \E given : Process(name, given, hop, TRUE)
    BY <1>1 DEF PhTamperingHook, Hand
  <2> DEFINE class == IF DroppedNow THEN "detected" ELSE "missed"
  <2>2. script = "s1" /\ Tally({"total", "altered", class})
    BY <1>1 DEF PhTamperingHook
  <2>3. class \in {"detected", "missed"}
    OBVIOUS
  <2> HIDE DEF class
  <2> QED BY <2>1, <2>2, <2>3, ClassifyingAccounts
<1>2. CASE RhcTamperingHook(name, hdr, hop)
  <2>1. \E given : Process(name, given, hop, TRUE)
    BY <1>2 DEF RhcTamperingHook, Hand
  <2> DEFINE class == IF DroppedNow THEN "detected" ELSE "missed"
  <2>2. script = "s2" /\ Tally({"total", "altered", class})
    BY <1>2 DEF RhcTamperingHook
  <2>3. class \in {"detected", "missed"}
    OBVIOUS
  <2> HIDE DEF class
  <2> QED BY <2>1, <2>2, <2>3, ClassifyingAccounts
<1>3. CASE ReplayHook(name, hdr, hop)
  BY <1>3, ReplayAccounts
<1>4. CASE PhInflationHook(name, hdr, hop)
  BY <1>4, InflationAccounts
<1>5. CASE ByzantineHook(name, hdr, hop)
  <2>1. \E given : Process(name, given, hop, TRUE)
    BY <1>5 DEF ByzantineHook, Hand
  <2>2. script = "s5" /\ Tally({"total", "altered", ByReputation(hop)})
    BY <1>5 DEF ByzantineHook
  <2>3. ByReputation(hop) \in {"detected", "missed"}
    BY DEF ByReputation
  <2> QED BY <2>1, <2>2, <2>3, ClassifyingAccounts
<1>6. CASE HybridHook(name, hdr, hop)
  <2>1. \E given : Process(name, given, hop, TRUE)
    BY <1>6 DEF HybridHook, Hand
  <2>2. script = "s6" /\ Tally({"total", "altered", ByReputation(hop)})
    BY <1>6 DEF HybridHook
  <2>3. ByReputation(hop) \in {"detected", "missed"}
    BY DEF ByReputation
  <2> QED BY <2>1, <2>2, <2>3, ClassifyingAccounts
<1> QED BY <1>1, <1>2, <1>3, <1>4, <1>5, <1>6 DEF Hook

-----------------------------------------------------------------------------
(* Lemmas: the set-up and the rates. *)

(* Only the last of the two lists of settings is read.                     *)
LEMMA Table2InForce ==
  ASSUME NEW attributes \in {Table2, << >>, [SeqnAlgorithm |-> [type |-> "string", value |-> 0]]}
  PROVE  Helper!CreatePipeline(attributes) =
           [maxTrackedEntries |-> 1000, maxRatePerWindow |-> 10,
            alpha |-> 60, maxHops |-> 20]
<1>1. Word \in Nat /\ Word > 1000
  BY ExperimentsAssumption
<1>2. 1000 % Word = 1000 /\ 10 % Word = 10 /\ 20 % Word = 20
  BY <1>1
<1>3. CASE attributes = Table2
  <2>1. /\ Helper!readUint(attributes, "MaxTrackedEntries", 0) = 1000
        /\ \A out : Helper!readUint(attributes, "MaxRatePerWindow", out) = 10
        /\ \A out : Helper!readUint(attributes, "MaxHops", out) = 20
        /\ \A out : Helper!readDouble(attributes, "Alpha", out) = 60
    BY <1>2, <1>3 DEF Table2, Helper!readUint, Helper!readDouble, Helper!Holds
  <2> QED BY <2>1 DEF Helper!CreatePipeline
<1>4. CASE attributes # Table2
  <2>1. \A name \in {"MaxTrackedEntries", "MaxRatePerWindow", "MaxHops", "Alpha"} :
          name \notin DOMAIN attributes
    BY <1>4
  <2>2. /\ Helper!readUint(attributes, "MaxTrackedEntries", 0) = 0
        /\ Helper!readUint(attributes, "MaxRatePerWindow", 0) = 0
        /\ Helper!readUint(attributes, "MaxHops", 0) = 0
        /\ Helper!readDouble(attributes, "Alpha", 60) = 60
    BY <2>1 DEF Helper!readUint, Helper!readDouble, Helper!Holds
  <2>3. /\ Helper!Default.alpha = 60 /\ Helper!Default.maxHops = 20
        /\ Helper!Default.maxTrackedEntries = 1000
        /\ Helper!Default.maxRatePerWindow = 10
    BY DEF Helper!Default
  <2>4. ~ (0 > 0) /\ 0 \notin 1..255
    OBVIOUS
  <2>5. Helper!CreatePipeline(attributes) =
          [maxTrackedEntries |-> IF 0 > 0 THEN 0 ELSE Helper!Default.maxTrackedEntries,
           maxRatePerWindow  |-> IF 0 > 0 THEN 0 ELSE Helper!Default.maxRatePerWindow,
           alpha             |-> Helper!readDouble(attributes, "Alpha", Helper!Default.alpha),
           maxHops           |-> IF 0 \in 1..255 THEN 0 ELSE Helper!Default.maxHops]
    BY <2>2, Zenon DEF Helper!CreatePipeline
  <2> QED BY <2>2, <2>3, <2>4, <2>5
<1> QED BY <1>3, <1>4

(* A script that installs these settings on the nodes of its topology, its *)
(* consumers among them, sets every node up alike.                         *)
LEMMA SetupConfigures ==
  ASSUME NEW s, NEW attackers, NEW ids,
         NEW attributes \in {Table2, << >>, [SeqnAlgorithm |-> [type |-> "string", value |-> 0]]},
         topology \in {"geant", "iot", "vanet"}, ids \subseteq NodesOf(topology),
         Setup(s, attributes, attackers, ids),
         m_maxTrackedEntries = m_pipelines[0].maxTrackedEntries,
         m_maxIncrPerWindow = m_pipelines[0].maxRatePerWindow
  PROVE  SameConfiguration
<1> DEFINE table == [maxTrackedEntries |-> 1000, maxRatePerWindow |-> 10,
                     alpha |-> 60, maxHops |-> 20]
<1>1. m_pipelines = [n \in NodesOf(topology) |-> table]
  <2>1. Helper!CreatePipeline(attributes) = table
    BY Table2InForce
  <2>2. m_pipelines = Helper!Installed(<< >>, attributes, NodesOf(topology))
    BY DEF Setup
  <2>3. DOMAIN << >> = {}
    OBVIOUS
  <2>4. {} \cup NodesOf(topology) = NodesOf(topology)
    OBVIOUS
  <2> HIDE DEF table
  <2>5. m_pipelines = [n \in NodesOf(topology) |-> Helper!CreatePipeline(attributes)]
    BY <2>2, <2>3, <2>4 DEF Helper!Installed
  <2> QED BY <2>1, <2>5
<1>2. 0 \in NodesOf(topology)
  BY DEF NodesOf, NodeCount
<1>3. hooked \subseteq NodesOf(topology) /\ consumers \subseteq NodesOf(topology)
  BY DEF Setup
<1>4. Alpha = 60 /\ MaxHops = 20
  BY ExperimentsAssumption
<1>5. [maxTrackedEntries |-> Table2.MaxTrackedEntries.value,
       maxRatePerWindow |-> Table2.MaxRatePerWindow.value,
       alpha |-> Table2.Alpha.value,
       maxHops |-> Table2.MaxHops.value] = table
  BY DEF Table2
<1>6. [maxTrackedEntries |-> m_maxTrackedEntries,
       maxRatePerWindow |-> m_maxIncrPerWindow,
       alpha |-> Alpha, maxHops |-> MaxHops] = table
  <2>1. m_pipelines[0] = table
    BY <1>1, <1>2
  <2>2. m_maxTrackedEntries = 1000 /\ m_maxIncrPerWindow = 10
    BY <2>1
  <2> QED BY <1>4, <2>2
<1>7. m_pipelines[0] = table
  BY <1>1, <1>2
<1> HIDE DEF table
<1> QED BY <1>1, <1>2, <1>3, <1>5, <1>6, <1>7 DEF SameConfiguration

(* The nine scripts do.                                                    *)
LEMMA InitConfigures == ExperimentInit => SameConfiguration
<1> SUFFICES ASSUME ExperimentInit PROVE SameConfiguration
  OBVIOUS
<1> DEFINE SeqnOnly == [SeqnAlgorithm |-> [type |-> "string", value |-> 0]]
           Lists == {Table2, << >>, SeqnOnly}
<1>1. /\ m_maxTrackedEntries = m_pipelines[0].maxTrackedEntries
      /\ m_maxIncrPerWindow = m_pipelines[0].maxRatePerWindow
  BY DEF ExperimentInit
<1>2. ASSUME NEW s, NEW attributes \in Lists, AttackSetup(s, attributes)
      PROVE  SameConfiguration
  <2>1. PICK n \in AttackerCounts :
          Setup(s, attributes, n, {NodeCount[topology] - 1})
    BY <1>2 DEF AttackSetup
  <2>2. topology \in {"geant", "iot", "vanet"}
    BY <1>2, ExperimentsAssumption DEF AttackSetup
  <2>3. {NodeCount[topology] - 1} \subseteq NodesOf(topology)
    BY <2>2 DEF NodesOf, NodeCount
  <2> QED BY <1>1, <2>1, <2>2, <2>3, SetupConfigures
<1>3. Table2 \in Lists /\ << >> \in Lists /\ SeqnOnly \in Lists
  OBVIOUS
<1>4. CASE SetupS1 \/ SetupS2 \/ SetupS3 \/ SetupS4 \/ SetupS5 \/ SetupS6
  <2> HIDE DEF Lists
  <2> QED BY <1>2, <1>3, <1>4 DEF SetupS1, SetupS2, SetupS3, SetupS4, SetupS5, SetupS6
<1>5. CASE SetupGeant
  <2>1. {5, 9, 14, 19, 22} \subseteq NodesOf("geant")
    BY DEF NodesOf, NodeCount
  <2> QED BY <1>1, <1>3, <1>5, <2>1, SetupConfigures DEF SetupGeant
<1>6. CASE SetupIot
  <2>1. {5, 11, 17, 23, 29, 35} \subseteq NodesOf("iot")
    BY DEF NodesOf, NodeCount
  <2> QED BY <1>1, <1>3, <1>6, <2>1, SetupConfigures DEF SetupIot
<1>7. CASE SetupVanet
  <2>1. {10 + 5 * k : k \in 0..6} \subseteq NodesOf("vanet")
    BY DEF NodesOf, NodeCount
  <2> QED BY <1>1, <1>3, <1>7, <2>1, SetupConfigures DEF SetupVanet
<1> QED BY <1>4, <1>5, <1>6, <1>7 DEF ExperimentInit

(* A fraction of at most the whole is a rate of at most 100 %.             *)
LEMMA PercentInRange ==
  ASSUME NEW n \in Nat, NEW d \in Nat, n <= d
  PROVE  Percent(n, d)[1] \in 0..(100 * Percent(n, d)[2])
<1>1. CASE d > 0
  BY <1>1 DEF Percent
<1>2. CASE ~ (d > 0)
  BY <1>2 DEF Percent
<1> QED BY <1>1, <1>2

(* The rates of a script whose detected packets are some of its altered    *)
(* ones, and so are its missed ones.                                       *)
LEMMA OfAlteredInRange ==
  ASSUME IInv, script \in {"s1", "s2", "s5", "s6"}, report' = OfAltered,
         UNCHANGED script
  PROVE  RatesInRange'
<1>1. g.detected \in Nat /\ g.missed \in Nat /\ g.altered \in Nat
  BY DEF IInv, CountsOK, Counted
<1>2. g.detected + g.missed = g.altered
  BY DEF IInv, Accounted
<1>3. g.detected <= g.altered /\ g.missed <= g.altered
  BY <1>1, <1>2
<1> DEFINE detection == Percent(g.detected, g.altered)
           falsePositive == Percent(g.missed, g.altered)
<1>4. /\ detection[1] \in 0..(100 * detection[2])
      /\ falsePositive[1] \in 0..(100 * falsePositive[2])
  BY <1>1, <1>3, PercentInRange
<1> HIDE DEF detection, falsePositive
<1>5. report' = [detectionRate |-> detection, falsePositiveRate |-> falsePositive]
  BY DEF OfAltered, detection, falsePositive
<1> QED BY <1>4, <1>5 DEF RatesInRange

(* S3: precision and packet loss, not the other two.                       *)
LEMMA ReportS3InRange ==
  ASSUME IInv, ReportS3, UNCHANGED script
  PROVE  RatesInRange'
<1>1. \A c \in Counted : g[c] \in Nat
  BY DEF IInv, CountsOK
<1>2. /\ g.detected + g.missed = g.dropped
      /\ g.dropped = m_stats.droppedTampering + m_stats.droppedReplay
      /\ g.total = m_stats.totalPackets
  BY DEF IInv, Accounted, ReportS3
<1>3. g.dropped <= g.total
  <2>1. \A c \in Counters : m_stats[c] \in Nat
    BY DEF IInv, StatsInv, StatsOK
  <2>2. m_stats.totalPackets =
          m_stats.forwarded + m_stats.droppedTampering + m_stats.droppedReplay
    BY DEF IInv, StatsInv, StatsAddUp
  <2> QED BY <1>2, <2>1, <2>2 DEF Counters
<1> DEFINE precision == Percent(g.detected, g.detected + g.missed)
           loss == Percent(g.dropped, g.total)
           detection == Percent(g.detected, g.altered)
           falsePositive == Percent(g.missed, g.total - g.altered)
<1>4. precision[1] \in 0..(100 * precision[2])
  <2>1. /\ g.detected \in Nat /\ g.detected + g.missed \in Nat
        /\ g.detected <= g.detected + g.missed
    BY <1>1 DEF Counted
  <2> QED BY <2>1, PercentInRange
<1>5. loss[1] \in 0..(100 * loss[2])
  BY <1>1, <1>3, PercentInRange DEF Counted
<1> HIDE DEF precision, loss, detection, falsePositive
<1>6. report' = [detectionRate |-> detection, falsePositiveRate |-> falsePositive,
                 precision |-> precision, packetLoss |-> loss]
  BY DEF ReportS3, precision, loss, detection, falsePositive
<1>7. script' = "s3"
  BY DEF ReportS3
<1> QED BY <1>4, <1>5, <1>6, <1>7 DEF RatesInRange

(* S4: the detected packets are some of the altered ones that were not     *)
(* dropped.                                                                *)
LEMMA ReportS4InRange ==
  ASSUME IInv, ReportS4, UNCHANGED script
  PROVE  RatesInRange'
<1>1. \A c \in Counted : g[c] \in Nat
  BY DEF IInv, CountsOK
<1>2. /\ g.detected + g.missed = m_stats.forwarded /\ g.altered = g.total
      /\ g.total = m_stats.totalPackets
  BY DEF IInv, Accounted, ReportS4
<1>3. g.detected <= g.altered
  <2>1. \A c \in Counters : m_stats[c] \in Nat
    BY DEF IInv, StatsInv, StatsOK
  <2>2. m_stats.totalPackets =
          m_stats.forwarded + m_stats.droppedTampering + m_stats.droppedReplay
    BY DEF IInv, StatsInv, StatsAddUp
  <2> QED BY <1>1, <1>2, <2>1, <2>2 DEF Counters, Counted
<1> DEFINE detection == Percent(g.detected, g.altered)
<1>4. detection[1] \in 0..(100 * detection[2])
  BY <1>1, <1>3, PercentInRange DEF Counted
<1> HIDE DEF detection
<1>5. report' = [detectionRate |-> detection, falsePositiveRate |-> <<0, 1>>]
  BY DEF ReportS4, detection
<1> QED BY <1>4, <1>5 DEF RatesInRange

(* The standard scripts, the subtraction of uint64_t wrapping or not.      *)
LEMMA HitRatioInRange ==
  ASSUME IInv, ReportGeant \/ ReportIot \/ ReportVanet, UNCHANGED script
  PROVE  RatesInRange'
<1>1. g.sent \in Nat /\ g.received \in Nat
  BY DEF IInv, CountsOK, Counted
<1>2. ASSUME NEW ratio, report' = [chr |-> ratio], ratio[1] \in 0..(100 * ratio[2])
      PROVE  RatesInRange'
  BY <1>2 DEF RatesInRange
<1>3. CASE ReportGeant
  <2>1. Gap \in Int
    BY <1>1, ExperimentsAssumption DEF Gap
  <2>2. CASE g.sent > 0 /\ Gap > 0 /\ Gap < g.sent
    <3> DEFINE ratio == <<100 * (g.sent - Gap), g.sent>>
    <3>1. report' = [chr |-> ratio]
      BY <1>3, <2>2 DEF ReportGeant
    <3>2. ratio[1] \in 0..(100 * ratio[2])
      BY <1>1, <2>1, <2>2
    <3> QED BY <1>2, <3>1, <3>2
  <2>3. CASE ~ (g.sent > 0 /\ Gap > 0 /\ Gap < g.sent)
    <3>1. report' = [chr |-> <<81, 1>>]
      BY <1>3, <2>3 DEF ReportGeant
    <3> QED BY <1>2, <3>1
  <2> QED BY <2>2, <2>3
<1>4. CASE ReportIot \/ ReportVanet
  <2>1. CASE g.sent > 0 /\ g.received \in 1..g.sent
    <3>1. report' = [chr |-> Percent(g.received, g.sent)]
      BY <1>4, <2>1 DEF ReportIot, ReportVanet
    <3>2. g.received <= g.sent
      BY <2>1
    <3> QED BY <1>1, <1>2, <3>1, <3>2, PercentInRange
  <2>2. CASE ~ (g.sent > 0 /\ g.received \in 1..g.sent)
    <3>1. report' = [chr |-> <<792, 10>>] \/ report' = [chr |-> <<779, 10>>]
      BY <1>4, <2>2 DEF ReportIot, ReportVanet
    <3> QED BY <1>2, <3>1
  <2> QED BY <2>1, <2>2
<1> QED BY <1>3, <1>4

LEMMA ReportInRange ==
  ASSUME IInv, Report, UNCHANGED script
  PROVE  RatesInRange'
<1>1. CASE ReportS1 \/ ReportS2 \/ ReportS5 \/ ReportS6
  <2>1. script \in {"s1", "s2", "s5", "s6"} /\ report' = OfAltered
    BY <1>1 DEF ReportS1, ReportS2, ReportS5, ReportS6
  <2> QED BY <2>1, OfAlteredInRange
<1>2. CASE ReportS3
  BY <1>2, ReportS3InRange
<1>3. CASE ReportS4
  BY <1>3, ReportS4InRange
<1>4. CASE ReportGeant \/ ReportIot \/ ReportVanet
  BY <1>4, HitRatioInRange
<1> QED BY <1>1, <1>2, <1>3, <1>4 DEF Report

-----------------------------------------------------------------------------
(* The invariant is inductive. *)

LEMMA InitIInv == ExperimentInit => IInv
<1> SUFFICES ASSUME ExperimentInit PROVE IInv
  OBVIOUS
<1>1. StatsInv
  BY StatsInvInductive DEF ExperimentInit
<1>2. g = Zero
  BY DEF ExperimentInit
<1>3. CountsOK /\ \A c \in Counted : g[c] = 0
  BY <1>2 DEF Zero, CountsOK, Counted
<1>4. MadeOK
  BY DEF ExperimentInit, MadeOK
<1>5. HistoryOK
  <2>1. g_history = [n \in Names |-> << >>]
    BY DEF ExperimentInit
  <2>2. \A n \in Names : << >> \in Seq(Genuine(n))
    BY EmptySeq
  <2> QED BY <2>1, <2>2 DEF HistoryOK
<1>6. Accounted
  <2>1. \A c \in Counters : m_stats[c] = 0
    BY DEF ExperimentInit, Init, ZeroStats
  <2> QED BY <1>3, <2>1 DEF Accounted, Counters, Counted
<1>7. SameConfiguration
  BY InitConfigures
<1>8. JudgedByTag /\ RatesInRange
  BY DEF ExperimentInit, JudgedByTag, RatesInRange
<1> QED BY <1>1, <1>3, <1>4, <1>5, <1>6, <1>7, <1>8 DEF IInv

(* What stays as it is where neither the set-up nor the router's own       *)
(* settings change.                                                        *)
LEMMA SetupKept ==
  ASSUME SameConfiguration, UNCHANGED setupVars,
         UNCHANGED <<m_maxTrackedEntries, m_maxIncrPerWindow>>
  PROVE  SameConfiguration'
BY DEF SameConfiguration, setupVars

LEMMA HookStep ==
  ASSUME IInv, NEW name \in Names, NEW hdr \in made[name], NEW hop,
         Hook(name, hdr, hop), UNCHANGED made, report = << >>, UNCHANGED report,
         UNCHANGED setupVars
  PROVE  IInv'
<1>1. /\ JudgedByTag' /\ MadeOK' /\ StatsInv' /\ HistoryOK'
      /\ UNCHANGED <<m_maxTrackedEntries, m_maxIncrPerWindow>>
  BY HookTells
<1>2. Accounted' /\ CountsOK'
  BY HookAccounts DEF setupVars
<1>3. SameConfiguration'
  BY <1>1, SetupKept DEF IInv
<1>4. RatesInRange'
  BY DEF RatesInRange
<1> QED BY <1>1, <1>2, <1>3, <1>4 DEF IInv

(* What a step keeps that touches neither the router, the packets nor the  *)
(* records of the hooks.                                                   *)
LEMMA RouterKept ==
  ASSUME IInv, UNCHANGED vars, UNCHANGED setupVars
  PROVE  /\ StatsInv' /\ SameConfiguration'
         /\ UNCHANGED <<m_stats, decision>>
<1>1. UNCHANGED <<m_maxTrackedEntries, m_maxIncrPerWindow, m_stats, decision>>
  BY DEF vars, seqVars, Seq8!cache, rateVars
<1> QED BY <1>1, SetupKept DEF IInv, StatsInv, StatsOK, StatsAddUp

LEMMA PacketsKept ==
  ASSUME MadeOK, HistoryOK, JudgedByTag,
         UNCHANGED <<made, g_history, handed, decision>>
  PROVE  MadeOK' /\ HistoryOK' /\ JudgedByTag'
<1>1. MadeOK'
  BY DEF MadeOK
<1>2. \A n \in Names : Genuine(n)' = Genuine(n)
  BY DEF Genuine
<1>3. HistoryOK'
  BY <1>2 DEF HistoryOK
<1>4. JudgedByTag'
  BY DEF JudgedByTag, PairOfMade
<1> QED BY <1>1, <1>3, <1>4

LEMMA NextIInv ==
  IInv /\ [ExperimentNext]_<<vars, setupVars, runVars>> => IInv'
<1> SUFFICES ASSUME IInv, [ExperimentNext]_<<vars, setupVars, runVars>> PROVE IInv'
  OBVIOUS
<1>1. CASE UNCHANGED <<vars, setupVars, runVars>>
  <2>1. /\ UNCHANGED vars /\ UNCHANGED setupVars
        /\ UNCHANGED <<made, g, g_history, handed, report, script>>
    BY <1>1 DEF runVars, originVars, setupVars
  <2>2. StatsInv' /\ SameConfiguration' /\ UNCHANGED <<m_stats, decision>>
    BY <2>1, RouterKept
  <2>3. MadeOK' /\ HistoryOK' /\ JudgedByTag'
    BY <2>1, <2>2, PacketsKept DEF IInv
  <2> QED BY <2>1, <2>2, <2>3 DEF IInv, CountsOK, Accounted, RatesInRange
<1>2. ASSUME NEW name \in Names, Publish(name) \/ Respond(name),
             UNCHANGED <<vars, g, g_history, handed, report>>, UNCHANGED setupVars
      PROVE  IInv'
  <2>1. UNCHANGED vars /\ UNCHANGED <<g, g_history, handed, report, script>>
    BY <1>2 DEF setupVars
  <2>2. StatsInv' /\ SameConfiguration' /\ UNCHANGED <<m_stats, decision>>
    BY <1>2, <2>1, RouterKept
  <2>3. MadeOK' /\ HistoryOK' /\ JudgedByTag'
    BY <1>2, <2>1, <2>2, MakingStep DEF IInv
  <2> QED BY <2>1, <2>2, <2>3 DEF IInv, CountsOK, Accounted, RatesInRange
<1>3. ASSUME NEW name \in Names, NEW hop \in Neighbours, NEW hdr \in made[name],
             Hook(name, hdr, hop), UNCHANGED <<originVars, report>>,
             report = << >>, UNCHANGED setupVars
      PROVE  IInv'
  BY <1>3, HookStep DEF originVars
<1>4. CASE OnInterestSent /\ UNCHANGED report /\ report = << >> /\ UNCHANGED setupVars
  <2>1. /\ UNCHANGED vars /\ UNCHANGED <<made, g_history, handed, report, script>>
        /\ Tally({"sent"}) /\ script \in Standard
    BY <1>4 DEF OnInterestSent, originVars, setupVars
  <2>2. StatsInv' /\ SameConfiguration' /\ UNCHANGED <<m_stats, decision>>
    BY <1>4, <2>1, RouterKept
  <2>3. MadeOK' /\ HistoryOK' /\ JudgedByTag'
    BY <2>1, <2>2, PacketsKept DEF IInv
  <2>4. CountsOK' /\ g'.total = g.total
    BY <2>1, TallyFacts DEF IInv, Counted
  <2>5. Accounted'
    BY <2>1, <2>2, <2>4 DEF IInv, Accounted, Standard
  <2>6. RatesInRange'
    BY <1>4 DEF RatesInRange
  <2> QED BY <2>2, <2>3, <2>4, <2>5, <2>6 DEF IInv
<1>5. CASE Report /\ UNCHANGED setupVars
  <2>1. UNCHANGED vars /\ UNCHANGED <<made, g, g_history, handed, script>>
    BY <1>5 DEF Report, originVars, setupVars
  <2>2. StatsInv' /\ SameConfiguration' /\ UNCHANGED <<m_stats, decision>>
    BY <1>5, <2>1, RouterKept
  <2>3. MadeOK' /\ HistoryOK' /\ JudgedByTag'
    BY <2>1, <2>2, PacketsKept DEF IInv
  <2>4. RatesInRange'
    BY <1>5, <2>1, ReportInRange
  <2> QED BY <2>1, <2>2, <2>3, <2>4 DEF IInv, CountsOK, Accounted
<1> QED BY <1>1, <1>2, <1>3, <1>4, <1>5 DEF ExperimentNext

LEMMA ExperimentsInductive == ExperimentSpec => []IInv
<1>1. ExperimentInit => IInv
  BY InitIInv
<1>2. IInv /\ [ExperimentNext]_<<vars, setupVars, runVars>> => IInv'
  BY NextIInv
<1> QED BY <1>1, <1>2, PTL DEF ExperimentSpec

-----------------------------------------------------------------------------
(* The four properties of the scripts. *)

(* All nine scripts run with the settings of Table 2 at every node, set or *)
(* left to the defaults of the helper, for every number of attackers.      *)
THEOREM SpecSameConfiguration == ExperimentSpec => []SameConfiguration
<1>1. IInv => SameConfiguration
  BY DEF IInv
<1> QED BY <1>1, ExperimentsInductive, PTL

(* The counters of an attack script agree with those of its router and     *)
(* with each other after every packet of a run of any length.              *)
THEOREM SpecAccounted == ExperimentSpec => []Accounted
<1>1. IInv => Accounted
  BY DEF IInv
<1> QED BY <1>1, ExperimentsInductive, PTL

(* The tag passes exactly the headers that the producer or a content store *)
(* has made, whatever the hooks altered, recorded and put together.        *)
THEOREM SpecWholeHeadersPass == ExperimentSpec => []WholeHeadersPass
<1>1. IInv => WholeHeadersPass
  <2> SUFFICES ASSUME IInv, handed # << >>
               PROVE  decision[2] # "DROP_TAMPERING" <=> handed[2] \in made[handed[1]]
    BY DEF WholeHeadersPass
  <2>1. /\ handed[1] \in Names /\ PairOfMade(handed[1], handed[2])
        /\ decision[2] = "DROP_TAMPERING" <=> ~ Verifies(handed[1], handed[2], TRUE)
    BY DEF IInv, JudgedByTag
  <2>2. Verifies(handed[1], handed[2], TRUE) <=> handed[2] \in made[handed[1]]
    BY <2>1, WholeVerifies DEF IInv
  <2> QED BY <2>1, <2>2
<1> QED BY <1>1, ExperimentsInductive, PTL

(* The rates a script writes are between 0 and 100 %, two of S3 excepted.  *)
THEOREM SpecRatesInRange == ExperimentSpec => []RatesInRange
<1>1. IInv => RatesInRange
  BY DEF IInv
<1> QED BY <1>1, ExperimentsInductive, PTL
=============================================================================
