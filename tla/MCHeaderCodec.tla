--------------------------- MODULE MCHeaderCodec ---------------------------
(* Two byte values; blocks of a foreign type, too short, too long, of six  *)
(* bytes, and of six bytes that Block::parse() refuses.                    *)
EXTENDS CaccHeaderCodec

MCBytes == {0, 1}

Six == {<<a, b, c, d, d, d>> : a, b, c, d \in MCBytes}

MCUnparsable == {<<0, 1, 0, 0, 0, 0>>, <<0, 0, 0, 1, 1, 1, 1>>}

MCBlocks ==
  [type : {TLV_CACC_HEADER},
   value : Six \cup MCUnparsable \cup {<<0, 0, 0, 0, 0>>, <<0, 1, 0, 0, 1, 1, 1>>}]
    \cup [type : {7}, value : {<<0, 0, 0, 0, 0, 0>>}]
=============================================================================
