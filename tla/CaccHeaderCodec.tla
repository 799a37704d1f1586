-------------------------- MODULE CaccHeaderCodec --------------------------
(***************************************************************************)
(* The TLV form of the header: class CaccHeader (model/cacc-header.hpp,    *)
(* model/cacc-header.cpp).  Next to its four fields an object keeps the    *)
(* block it was decoded from or last encoded to, and wireEncode() answers  *)
(* from that copy.  A tag is the sequence of its bytes, highest first:     *)
(* three in the object, four in the uint32_t that is passed in.            *)
(***************************************************************************)
EXTENDS Integers, Sequences

CONSTANTS Bytes,      \* values of a byte
          Blocks,     \* blocks that wireDecode is called with: [type, value]
          Unparsable, \* values for which Block::parse() throws
          NoBlock     \* an ndn::Block without a wire

VARIABLES fields,     \* [ph, ohc, seq, hmac]
          m_wire,     \* the cached block, or NoBlock
          returned    \* what the last wireEncode() returned, or NoBlock

vars == <<fields, m_wire, returned>>

TLV_CACC_HEADER == 240

Tags == Bytes \X Bytes \X Bytes
Signatures == Bytes \X Bytes \X Bytes \X Bytes

(* The four fields of an object. *)
Headers == [ph : Bytes, ohc : Bytes, seq : Bytes, hmac : Tags]

(* hmacSignature & 0xFFFFFF *)
Masked(signature) == <<signature[2], signature[3], signature[4]>>

Init ==
  /\ fields \in Headers
  /\ m_wire = NoBlock
  /\ returned = NoBlock

(* setPh, setOhc, setSeq. *)
SetByte(field, byte) ==
  /\ fields' = [fields EXCEPT ![field] = byte]
  /\ m_wire' = NoBlock
  /\ UNCHANGED returned

setHmac(signature) ==
  /\ fields' = [fields EXCEPT !.hmac = Masked(signature)]
  /\ m_wire' = NoBlock
  /\ UNCHANGED returned

(* wireEncode(encoder), which fills its buffer from the back. *)
Encoding(h) ==
  [type |-> TLV_CACC_HEADER,
   value |-> <<h.ph, h.ohc, h.seq, h.hmac[1], h.hmac[2], h.hmac[3]>>]

(* wireEncode(), which fills m_wire if it holds nothing. *)
wireEncode ==
  /\ m_wire' = IF m_wire = NoBlock THEN Encoding(fields) ELSE m_wire
  /\ returned' = m_wire'
  /\ UNCHANGED fields

(***************************************************************************)
(* wireDecode(wire): the three ways to throw, and the one to return.       *)
(* Block::parse(), external, throws for the values that are not a sequence *)
(* of TLV elements; by then m_wire holds the block.                        *)
(***************************************************************************)
DecodeWrongType(wire) ==
  /\ wire.type # TLV_CACC_HEADER
  /\ UNCHANGED vars

DecodeUnparsable(wire) ==
  /\ wire.type = TLV_CACC_HEADER
  /\ m_wire' = wire
  /\ wire.value \in Unparsable
  /\ UNCHANGED <<fields, returned>>

DecodeMalformed(wire) ==
  /\ wire.type = TLV_CACC_HEADER
  /\ m_wire' = wire
  /\ wire.value \notin Unparsable
  /\ Len(wire.value) # 6
  /\ UNCHANGED <<fields, returned>>

Unpacked(v) == [ph |-> v[1], ohc |-> v[2], seq |-> v[3], hmac |-> <<v[4], v[5], v[6]>>]

Decode(wire) ==
  /\ wire.type = TLV_CACC_HEADER
  /\ m_wire' = wire
  /\ wire.value \notin Unparsable
  /\ Len(wire.value) = 6
  /\ fields' = Unpacked(wire.value)
  /\ UNCHANGED returned

wireDecode(wire) ==
  \/ DecodeWrongType(wire)
  \/ DecodeUnparsable(wire)
  \/ DecodeMalformed(wire)
  \/ Decode(wire)

Next ==
  \/ \E field \in {"ph", "ohc", "seq"}, byte \in Bytes : SetByte(field, byte)
  \/ \E signature \in Signatures : setHmac(signature)
  \/ wireEncode
  \/ \E wire \in Blocks : wireDecode(wire)

Spec == Init /\ [][Next]_vars

-----------------------------------------------------------------------------
(***************************************************************************)
(* Properties.                                                             *)
(***************************************************************************)

(* Does wireDecode(block) return? *)
Decodable(block) ==
  /\ block.type = TLV_CACC_HEADER
  /\ block.value \notin Unparsable
  /\ Len(block.value) = 6

(* The types of the fields, and of what the cache may hold. *)
TypeOK ==
  /\ fields \in Headers
  /\ m_wire \in {NoBlock, Encoding(fields)} \cup Blocks

(* After any mix of constructor, setters, encodings and decodings, failed  *)
(* ones included, the cached block says what the fields say, unless it is  *)
(* one that a decoding has refused.                                        *)
CacheCoherent ==
  m_wire = NoBlock \/ m_wire = Encoding(fields) \/ ~ Decodable(m_wire)

(* Whatever wireEncode() returns, decoding it gives the fields back.       *)
EncodedFieldsDecode ==
  [][(wireEncode /\ Decodable(returned')) => Unpacked(returned'.value) = fields]_vars

(* cacc-header.cpp:66, test-cacc-header.cpp:31: the payload of an encoded  *)
(* header occupies exactly six bytes.                                      *)
SixBytes == returned = NoBlock \/ Len(returned.value) = 6
=============================================================================
