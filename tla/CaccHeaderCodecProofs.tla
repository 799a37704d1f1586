------------------------ MODULE CaccHeaderCodecProofs ------------------------
(***************************************************************************)
(* The cached block of a header agrees with its fields for all bytes, all  *)
(* blocks and all values that do not parse.  CacheCoherent is inductive    *)
(* once a block is known to be a type and a sequence of bytes; that an     *)
(* encoding decodes to the fields needs the types of the fields as well.   *)
(***************************************************************************)
EXTENDS CaccHeaderCodec, SequenceTheorems, TLAPS

BlocksOK == Blocks \subseteq [type : Nat, value : Seq(Bytes)]

(* The inductive invariant. *)
FieldsOK == fields \in Headers

IInv == FieldsOK /\ CacheCoherent

(* Packing the fields and unpacking the bytes are inverse to one another.  *)
LEMMA UnpackedEncoding ==
  ASSUME NEW h \in Headers
  PROVE  Unpacked(Encoding(h).value) = h
BY DEF Headers, Tags, Unpacked, Encoding

(* Six bytes unpack to a header. *)
LEMMA UnpackedHeader ==
  ASSUME NEW v \in Seq(Bytes), Len(v) = 6
  PROVE  Unpacked(v) \in Headers
<1>1. \A i \in 1..6 : v[i] \in Bytes
  BY ElementOfSeq
<1> QED BY <1>1 DEF Unpacked, Headers, Tags

(* A decodable block is the encoding of what it unpacks to. *)
LEMMA EncodingUnpacked ==
  ASSUME NEW b \in [type : Nat, value : Seq(Bytes)],
         b.type = TLV_CACC_HEADER, Len(b.value) = 6
  PROVE  Encoding(Unpacked(b.value)) = b
<1> DEFINE v == b.value
<1>1. v \in Seq(Bytes) /\ Len(v) = 6
  OBVIOUS
<1>2. <<v[1], v[2], v[3], v[4], v[5], v[6]>> = v
  <2> HIDE DEF v
  <2> QED BY <1>1
<1>3. Encoding(Unpacked(v)) = [type |-> TLV_CACC_HEADER, value |-> v]
  <2> HIDE DEF v
  <2> QED BY <1>2 DEF Encoding, Unpacked
<1>4. b = [type |-> b.type, value |-> b.value]
  OBVIOUS
<1> QED BY <1>3, <1>4

(* The invariant holds initially and every step keeps it, a decoding that  *)
(* throws included.                                                        *)
LEMMA InvInductive ==
  ASSUME BlocksOK
  PROVE  /\ Init => IInv
         /\ IInv /\ [Next]_vars => IInv'
<1>1. Init => IInv
  BY DEF Init, IInv, FieldsOK, CacheCoherent
<1>2. ASSUME IInv, [Next]_vars
      PROVE  IInv'
  <2>1. ASSUME NEW field \in {"ph", "ohc", "seq"}, NEW byte \in Bytes,
               SetByte(field, byte)
        PROVE  IInv'
    <3>1. FieldsOK'
      BY <1>2, <2>1 DEF IInv, FieldsOK, Headers, SetByte
    <3>2. CacheCoherent'
      BY <2>1 DEF CacheCoherent, SetByte
    <3> QED BY <3>1, <3>2 DEF IInv
  <2>2. ASSUME NEW signature \in Signatures, setHmac(signature)
        PROVE  IInv'
    <3>1. Masked(signature) \in Tags
      BY DEF Masked, Signatures, Tags
    <3>2. FieldsOK'
      BY <1>2, <2>2, <3>1 DEF IInv, FieldsOK, Headers, setHmac
    <3>3. CacheCoherent'
      BY <2>2 DEF CacheCoherent, setHmac
    <3> QED BY <3>2, <3>3 DEF IInv
  <2>3. CASE wireEncode
    <3>1. FieldsOK'
      BY <1>2, <2>3 DEF IInv, FieldsOK, wireEncode
    <3>2. CacheCoherent'
      BY <1>2, <2>3 DEF IInv, CacheCoherent, wireEncode, Encoding, Decodable
    <3> QED BY <3>1, <3>2 DEF IInv
  <2>4. ASSUME NEW wire \in Blocks, wireDecode(wire)
        PROVE  IInv'
    <3>1. CASE DecodeWrongType(wire)
      BY <1>2, <3>1 DEF DecodeWrongType, vars, IInv, FieldsOK, CacheCoherent,
                        Encoding, Decodable
    <3>2. CASE DecodeUnparsable(wire) \/ DecodeMalformed(wire)
      <4>1. FieldsOK'
        BY <1>2, <3>2 DEF DecodeUnparsable, DecodeMalformed, IInv, FieldsOK
      <4>2. ~ Decodable(m_wire')
        BY <3>2 DEF DecodeUnparsable, DecodeMalformed, Decodable
      <4>3. CacheCoherent'
        BY <4>2 DEF CacheCoherent, Decodable
      <4> QED BY <4>1, <4>3 DEF IInv
    <3>3. CASE Decode(wire)
      <4>1. wire \in [type : Nat, value : Seq(Bytes)]
        BY DEF BlocksOK
      <4>2. FieldsOK'
        BY <3>3, <4>1, UnpackedHeader DEF Decode, FieldsOK
      <4>3. m_wire' = Encoding(fields')
        BY <3>3, <4>1, EncodingUnpacked DEF Decode
      <4>4. CacheCoherent'
        BY <4>3 DEF CacheCoherent, Encoding
      <4> QED BY <4>2, <4>4 DEF IInv
    <3> QED BY <2>4, <3>1, <3>2, <3>3 DEF wireDecode
  <2>5. CASE UNCHANGED vars
    BY <1>2, <2>5 DEF vars, IInv, FieldsOK, CacheCoherent, Encoding, Decodable
  <2> QED BY <1>2, <2>1, <2>2, <2>3, <2>4, <2>5 DEF Next
<1> QED BY <1>1, <1>2

(* CacheCoherent for all constants: no mix of constructors, setters,       *)
(* encodings and decodings, failed ones included, leaves a decodable block *)
(* that says something else than the fields.                               *)
THEOREM SpecCacheCoherent ==
  ASSUME BlocksOK
  PROVE  Spec => []CacheCoherent
<1>1. Init => IInv
  BY InvInductive
<1>2. IInv /\ [Next]_vars => IInv'
  BY InvInductive
<1>3. IInv => CacheCoherent
  BY DEF IInv
<1> QED BY <1>1, <1>2, <1>3, PTL DEF Spec

(* EncodedFieldsDecode for all constants: what wireEncode() returns, from  *)
(* its copy or made anew, decodes to the fields if it decodes at all.      *)
THEOREM SpecEncodedFieldsDecode ==
  ASSUME BlocksOK
  PROVE  Spec => EncodedFieldsDecode
<1> DEFINE Faithful == (wireEncode /\ Decodable(returned'))
                         => Unpacked(returned'.value) = fields
<1>1. IInv => Faithful
  <2>1. SUFFICES ASSUME IInv, wireEncode, Decodable(returned')
                 PROVE  Unpacked(returned'.value) = fields
    OBVIOUS
  <2>2. returned' = Encoding(fields)
    BY <2>1 DEF IInv, CacheCoherent, wireEncode
  <2> QED BY <2>1, <2>2, UnpackedEncoding DEF IInv, FieldsOK
<1>2. IInv /\ [Next]_vars => [Faithful]_vars
  BY <1>1
<1>3. Init => IInv
  BY InvInductive
<1>4. IInv /\ [Next]_vars => IInv'
  BY InvInductive
<1> HIDE DEF Faithful
<1>5. Spec => [][Faithful]_vars
  BY <1>2, <1>3, <1>4, PTL DEF Spec
<1> QED BY <1>5 DEF EncodedFieldsDecode, Faithful
=============================================================================
