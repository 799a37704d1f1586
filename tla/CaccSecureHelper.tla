-------------------------- MODULE CaccSecureHelper --------------------------
(***************************************************************************)
(* The object a script configures and installs routers with: class         *)
(* CaccSecureHelper (helper/cacc-secure-helper.hpp,                        *)
(* helper/cacc-secure-helper.cpp).  An installed pipeline is told apart by *)
(* the settings it was created with; RouterPipeline is what it does.       *)
(***************************************************************************)
EXTENDS Integers

CONSTANTS NodeIds,     \* nodes of the simulation
          Numbers,     \* numbers that scripts put into a UintegerValue
          Alphas,      \* numbers that scripts put into a DoubleValue
          Word32       \* 2^32: a UintegerValue has 64 bits, readUint keeps 32

VARIABLES m_attributes,   \* name -> attribute value, for names set so far
          m_pipelines     \* node -> settings of its pipeline, where installed

vars == <<m_attributes, m_pipelines>>

(* What the attributes of each name configure. *)
Setting == [MaxTrackedEntries |-> "maxTrackedEntries",
            MaxRatePerWindow  |-> "maxRatePerWindow",
            MaxHops           |-> "maxHops"]

UintNames == DOMAIN Setting

(* Names that scripts set: "SeqnAlgorithm" is set and never read. *)
AttributeNames == UintNames \cup {"Alpha", "SeqnAlgorithm"}

AttributeValues ==
  [type : {"uint"}, value : Numbers] \cup [type : {"double"}, value : Alphas]
    \cup [type : {"string"}, value : {0}]

(* The settings of Table 2; alpha in hundredths. *)
Default == [maxTrackedEntries |-> 1000, maxRatePerWindow |-> 10,
            alpha |-> 60, maxHops |-> 20]

(* Is there a value of this name that DynamicCast gives as this type? *)
Holds(attributes, name, type) ==
  name \in DOMAIN attributes /\ attributes[name].type = type

(* readUint(name, out): out keeps what it held when there is nothing to read. *)
readUint(attributes, name, out) ==
  IF Holds(attributes, name, "uint") THEN attributes[name].value % Word32 ELSE out

readDouble(attributes, name, out) ==
  IF Holds(attributes, name, "double") THEN attributes[name].value ELSE out

(* Mutant: a default of the rate limiter that is not that of Table 2. *)
CreatePipelineSixty(attributes) ==
  [Default EXCEPT !.maxTrackedEntries = readUint(attributes, "MaxTrackedEntries", @),
                  !.maxRatePerWindow = readUint(attributes, "MaxRatePerWindow", 60)]

(* CreatePipeline(): tmp1, tmp2 and tmp3 are the values of the one variable *)
(* tmp after each of its three uses.                                        *)
CreatePipeline(attributes) ==
  LET tmp1 == readUint(attributes, "MaxTrackedEntries", 0)
      tmp2 == readUint(attributes, "MaxRatePerWindow", tmp1)
      tmp3 == readUint(attributes, "MaxHops", tmp2)
  IN [maxTrackedEntries |-> IF tmp1 > 0 THEN tmp1 ELSE Default.maxTrackedEntries,
      maxRatePerWindow  |-> IF tmp2 > 0 THEN tmp2 ELSE Default.maxRatePerWindow,
      alpha             |-> readDouble(attributes, "Alpha", Default.alpha),
      maxHops           |-> IF tmp3 \in 1..255 THEN tmp3 ELSE Default.maxHops]

HasPipeline(n) == n \in DOMAIN m_pipelines

(* The map after Install on each of ns: nodes with a pipeline are skipped. *)
Installed(pipelines, attributes, ns) ==
  [n \in DOMAIN pipelines \cup ns |->
     IF n \in DOMAIN pipelines THEN pipelines[n] ELSE CreatePipeline(attributes)]

Init == m_attributes = << >> /\ m_pipelines = << >>

SetAttribute(name, value) ==
  /\ m_attributes' = [a \in DOMAIN m_attributes \cup {name} |->
                        IF a = name THEN value ELSE m_attributes[a]]
  /\ UNCHANGED m_pipelines

(* Install(n) is InstallAll of n alone. *)
InstallAll(ns) ==
  /\ m_pipelines' = Installed(m_pipelines, m_attributes, ns)
  /\ UNCHANGED m_attributes

Next ==
  \/ \E name \in AttributeNames, value \in AttributeValues : SetAttribute(name, value)
  \/ \E ns \in SUBSET NodeIds : InstallAll(ns)

Spec == Init /\ [][Next]_vars

-----------------------------------------------------------------------------
(***************************************************************************)
(* Properties.                                                             *)
(***************************************************************************)

(* The types of the two maps. *)
TypeOK ==
  /\ DOMAIN m_attributes \subseteq AttributeNames
  /\ m_attributes \in [DOMAIN m_attributes -> AttributeValues]
  /\ DOMAIN m_pipelines \subseteq NodeIds
  /\ m_pipelines \in [DOMAIN m_pipelines ->
       [maxTrackedEntries : Nat, maxRatePerWindow : Nat,
        alpha : Alphas \cup {Default.alpha}, maxHops : Nat]]

(* Whatever attributes were set, truncated to 0 or of the wrong type, no   *)
(* router ends up with an empty SEQN cache, a limiter that clamps every    *)
(* packet, or a hop bound that is 0 or not a uint8_t.                      *)
ConfigsUsable ==
  \A n \in DOMAIN m_pipelines :
    /\ m_pipelines[n].maxTrackedEntries > 0
    /\ m_pipelines[n].maxRatePerWindow > 0
    /\ m_pipelines[n].maxHops \in 1..255

(* A pipeline handed out by GetPipeline stays the node's pipeline: neither *)
(* a later attribute nor a second installation replaces it.                *)
PipelinesKept ==
  [][\A n \in DOMAIN m_pipelines :
       n \in DOMAIN m_pipelines' /\ m_pipelines'[n] = m_pipelines[n]]_vars

New == DOMAIN m_pipelines' \ DOMAIN m_pipelines

(* The values a setting can take: tmp > 0, and for maxHops tmp <= 255. *)
Takes(name, value) == value > 0 /\ (name = "MaxHops" => value <= 255)

(* An attribute that was set, to a value its setting can take, is in force *)
(* in every pipeline created from then on, whatever the others are.        *)
SetIsHonoured ==
  [][\A n \in New, name \in UintNames :
       LET value == readUint(m_attributes, name, 0) IN
         Takes(name, value) => m_pipelines'[n][Setting[name]] = value]_vars

(* cacc-secure-helper.cpp:81: settings are taken "from attributes, if      *)
(* set", so one that was never set leaves its setting at the default.      *)
UnsetIsDefault ==
  [][\A n \in New, name \in UintNames :
       name \notin DOMAIN m_attributes =>
         m_pipelines'[n][Setting[name]] = Default[Setting[name]]]_vars
=============================================================================
