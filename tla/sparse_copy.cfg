CONSTANTS
  Hole = Hole  Data = {1, 2}
  MaxSize = 5  BufferSize = 2  MaxShort = 2
SPECIFICATION FairSpec
INVARIANTS CopyExact
PROPERTIES Terminates
