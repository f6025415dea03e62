CONSTANTS
  BatchSize = 2
  MemSliceSize = 2
  FileRows = 1
  Row <- MCRow
  Xact = {1, 2}
  Scenarios <- RowScenarios
  HashBits = 4
  WordBits = 4
  OffsetBits = 8
  ByteBits = 2
  BufferBytes = 8
  Inputs <- MCInputs
  Bits16 = 2
  Bits32 = 3
  Bits64 = 4
  Bits128 = 13
  DefaultScale = 3
  MaxRows = 2
  Cases <- MCCases
  SourceValues <- MCValues
  Texts <- MCTexts
  Parts = {"columns"}
SPECIFICATION Spec
INVARIANT ListsKeepTheirItems
CHECK_DEADLOCK FALSE
