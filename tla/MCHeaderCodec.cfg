SPECIFICATION Spec
CONSTANTS
  Bytes <- MCBytes
  Blocks <- MCBlocks
  Unparsable <- MCUnparsable
  NoBlock = NoBlock
INVARIANT SixBytes
