----------------------- MODULE CaccSecureHelperProofs -----------------------
(***************************************************************************)
(* What CaccSecureHelper guarantees for all nodes, numbers and attributes. *)
(* A pipeline once installed is kept, by the shape of every step; that the *)
(* settings are usable and that a set attribute is honoured need to know   *)
(* that reading an attribute gives a natural number, and so the type of    *)
(* the attributes stored so far.                                           *)
(***************************************************************************)
EXTENDS CaccSecureHelper, TLAPS

(* The inductive invariant. *)
AttributesOK == m_attributes \in [DOMAIN m_attributes -> AttributeValues]

IInv == AttributesOK /\ ConfigsUsable

(* What readUint() leaves in its variable is a natural number, if it was   *)
(* one before.                                                             *)
LEMMA ReadUintNat ==
  ASSUME Word32 \in Nat \ {0}, Numbers \subseteq Nat, AttributesOK,
         NEW name, NEW out \in Nat
  PROVE  readUint(m_attributes, name, out) \in Nat
<1>1. CASE Holds(m_attributes, name, "uint")
  <2>1. m_attributes[name].value \in Numbers
    BY <1>1 DEF Holds, AttributesOK, AttributeValues
  <2>2. \A v \in Nat, w \in Nat \ {0} : v % w \in Nat
    OBVIOUS
  <2>3. m_attributes[name].value % Word32 \in Nat
    BY <2>1, <2>2
  <2> QED BY <1>1, <2>3 DEF readUint
<1>2. CASE ~ Holds(m_attributes, name, "uint")
  BY <1>2 DEF readUint
<1> QED BY <1>1, <1>2

(* An attribute that is there decides what readUint() leaves, whatever was *)
(* in the variable; one that is not reads as 0 from a variable that is 0.  *)
LEMMA ReadUintForgets ==
  ASSUME NEW name, NEW out,
         readUint(m_attributes, name, 0) # 0
  PROVE  readUint(m_attributes, name, out) = readUint(m_attributes, name, 0)
BY DEF readUint

(* CreatePipeline() never produces settings a router cannot work with.     *)
LEMMA CreatePipelineUsable ==
  ASSUME Word32 \in Nat \ {0}, Numbers \subseteq Nat, AttributesOK
  PROVE  /\ CreatePipeline(m_attributes).maxTrackedEntries > 0
         /\ CreatePipeline(m_attributes).maxRatePerWindow > 0
         /\ CreatePipeline(m_attributes).maxHops \in 1..255
<1> DEFINE tmp1 == readUint(m_attributes, "MaxTrackedEntries", 0)
           tmp2 == readUint(m_attributes, "MaxRatePerWindow", tmp1)
           tmp3 == readUint(m_attributes, "MaxHops", tmp2)
<1>1. tmp1 \in Nat
  BY ReadUintNat
<1>2. tmp2 \in Nat
  <2> HIDE DEF tmp1
  <2> QED BY <1>1, ReadUintNat
<1>3. tmp3 \in Nat
  <2> HIDE DEF tmp2
  <2> QED BY <1>2, ReadUintNat
<1> HIDE DEF tmp1, tmp2, tmp3
<1>4. /\ CreatePipeline(m_attributes).maxTrackedEntries
           = IF tmp1 > 0 THEN tmp1 ELSE 1000
      /\ CreatePipeline(m_attributes).maxRatePerWindow
           = IF tmp2 > 0 THEN tmp2 ELSE 10
      /\ CreatePipeline(m_attributes).maxHops
           = IF tmp3 \in 1..255 THEN tmp3 ELSE 20
  BY DEF CreatePipeline, Default, tmp1, tmp2, tmp3
<1> QED BY <1>1, <1>2, <1>3, <1>4

(* The invariant holds initially and every step keeps it.                  *)
LEMMA InvInductive ==
  ASSUME Word32 \in Nat \ {0}, Numbers \subseteq Nat
  PROVE  /\ Init => IInv
         /\ IInv /\ [Next]_vars => IInv'
<1>1. Init => IInv
  BY DEF Init, IInv, AttributesOK, ConfigsUsable
<1>2. ASSUME IInv, [Next]_vars
      PROVE  IInv'
  <2>1. ASSUME NEW name \in AttributeNames, NEW value \in AttributeValues,
               SetAttribute(name, value)
        PROVE  IInv'
    BY <1>2, <2>1 DEF IInv, AttributesOK, ConfigsUsable, SetAttribute
  <2>2. ASSUME NEW ns \in SUBSET NodeIds, InstallAll(ns)
        PROVE  IInv'
    <3>1. AttributesOK'
      BY <1>2, <2>2 DEF IInv, AttributesOK, InstallAll
    <3>2. ASSUME NEW n \in DOMAIN m_pipelines'
          PROVE  m_pipelines'[n] = IF n \in DOMAIN m_pipelines THEN m_pipelines[n]
                                   ELSE CreatePipeline(m_attributes)
      BY <2>2, <3>2 DEF InstallAll, Installed
    <3>3. ConfigsUsable'
      BY <1>2, <3>2, CreatePipelineUsable DEF IInv, ConfigsUsable
    <3> QED BY <3>1, <3>3 DEF IInv
  <2>3. CASE UNCHANGED vars
    BY <1>2, <2>3 DEF IInv, AttributesOK, ConfigsUsable, vars
  <2> QED BY <1>2, <2>1, <2>2, <2>3 DEF Next
<1> QED BY <1>1, <1>2

(* ConfigsUsable for all constants: no attributes, however many and of     *)
(* whatever type, leave a router with an empty SEQN cache, a limiter that  *)
(* clamps everything or a hop bound that is not a positive uint8_t.        *)
THEOREM SpecConfigsUsable ==
  ASSUME Word32 \in Nat \ {0}, Numbers \subseteq Nat
  PROVE  Spec => []ConfigsUsable
<1>1. Init => IInv
  BY InvInductive
<1>2. IInv /\ [Next]_vars => IInv'
  BY InvInductive
<1>3. IInv => ConfigsUsable
  BY DEF IInv
<1> QED BY <1>1, <1>2, <1>3, PTL DEF Spec

(* PipelinesKept for all constants: a pipeline handed out by GetPipeline   *)
(* stays the node's pipeline with the settings it was created with.        *)
THEOREM SpecPipelinesKept == Spec => PipelinesKept
<1> DEFINE Kept == \A n \in DOMAIN m_pipelines :
                     n \in DOMAIN m_pipelines' /\ m_pipelines'[n] = m_pipelines[n]
<1>1. ASSUME [Next]_vars
      PROVE  Kept
  <2>1. ASSUME NEW name \in AttributeNames, NEW value \in AttributeValues,
               SetAttribute(name, value)
        PROVE  Kept
    BY <2>1 DEF SetAttribute
  <2>2. ASSUME NEW ns \in SUBSET NodeIds, InstallAll(ns)
        PROVE  Kept
    BY <2>2 DEF InstallAll, Installed
  <2>3. CASE UNCHANGED vars
    BY <2>3 DEF vars
  <2> QED BY <1>1, <2>1, <2>2, <2>3 DEF Next
<1>2. [Next]_vars => [Kept]_vars
  BY <1>1
<1> HIDE DEF Kept
<1>3. [][Next]_vars => [][Kept]_vars
  BY <1>2, PTL
<1> QED BY <1>3 DEF Spec, PipelinesKept, Kept

(* SetIsHonoured for all constants: an attribute that was set to a value   *)
(* its setting can take is in force in every pipeline created later,       *)
(* although CreatePipeline() reads three attributes through one variable.  *)
THEOREM SpecSetIsHonoured ==
  ASSUME Word32 \in Nat \ {0}, Numbers \subseteq Nat
  PROVE  Spec => SetIsHonoured
<1> DEFINE Honoured ==
      \A n \in New, name \in UintNames :
        LET value == readUint(m_attributes, name, 0) IN
          Takes(name, value) => m_pipelines'[n][Setting[name]] = value
<1>1. ASSUME IInv, [Next]_vars
      PROVE  Honoured
  <2>1. SUFFICES ASSUME NEW n \in New, NEW name \in UintNames,
                        Takes(name, readUint(m_attributes, name, 0))
                 PROVE  m_pipelines'[n][Setting[name]]
                          = readUint(m_attributes, name, 0)
    OBVIOUS
  <2>2. m_pipelines'[n] = CreatePipeline(m_attributes)
    <3>1. CASE \E a \in AttributeNames, v \in AttributeValues : SetAttribute(a, v)
      BY <2>1, <3>1 DEF SetAttribute, New
    <3>2. CASE \E ns \in SUBSET NodeIds : InstallAll(ns)
      BY <2>1, <3>2 DEF InstallAll, Installed, New
    <3>3. CASE UNCHANGED vars
      BY <2>1, <3>3 DEF vars, New
    <3> QED BY <1>1, <3>1, <3>2, <3>3 DEF Next
  <2>3. readUint(m_attributes, name, 0) \in Nat
    BY <1>1, ReadUintNat DEF IInv
  <2>4. readUint(m_attributes, name, 0) # 0
    BY <2>1, <2>3 DEF Takes
  <2>5. \A out : readUint(m_attributes, name, out) = readUint(m_attributes, name, 0)
    BY <2>4, ReadUintForgets
  <2>6. name \in {"MaxTrackedEntries", "MaxRatePerWindow", "MaxHops"}
    BY DEF UintNames, Setting
  <2>7. CASE name = "MaxTrackedEntries"
    BY <2>1, <2>2, <2>7 DEF CreatePipeline, Setting, Takes
  <2>8. CASE name = "MaxRatePerWindow"
    BY <2>1, <2>2, <2>5, <2>8 DEF CreatePipeline, Setting, Takes
  <2>9. CASE name = "MaxHops"
    BY <2>1, <2>2, <2>3, <2>5, <2>9 DEF CreatePipeline, Setting, Takes
  <2> QED BY <2>6, <2>7, <2>8, <2>9
<1>2. IInv /\ [Next]_vars => [Honoured]_vars
  BY <1>1
<1>3. Init => IInv
  BY InvInductive
<1>4. IInv /\ [Next]_vars => IInv'
  BY InvInductive
<1> HIDE DEF Honoured
<1>5. Spec => [][Honoured]_vars
  BY <1>2, <1>3, <1>4, PTL DEF Spec
<1> QED BY <1>5 DEF SetIsHonoured, Honoured
=============================================================================
