\* Bytes of three bits and up to seven bits in each stream: a commit of what is
\* held back starts and ends at every place of a byte and crosses up to two byte
\* boundaries.  Stored blocks of up to two bytes, of two values, begin at every
\* place of a byte, behind up to two bytes; a length takes two.
CONSTANTS
  ByteSize = 3
  MaxBits = 33
  MaxOther = 7
  LengthBits = 6
  Block <- StoredBlocks
SPECIFICATION StoredSpec
INVARIANTS TypeOK UnusedPlacesZero StoredBlockReads StoredSizeClose
PROPERTIES ImplementsLog
CHECK_DEADLOCK FALSE
