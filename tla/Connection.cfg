CONSTANTS
  Total = 5
  Room = 2
  Chunk = 3
SPECIFICATION FairSpec
INVARIANTS TypeOK BytesInOrder EofIsTheEnd
PROPERTY Delivered
