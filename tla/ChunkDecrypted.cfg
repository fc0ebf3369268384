CONSTANTS
  Files = {"file1"}
  FileLen = 2
  SizeMod = 8
  RespMax = 3
  BufSize = 2
  Offsets = {0, 1}
  Lengths = {0, 1, 2}
  MaxOps = 1
SPECIFICATION AudioSpec
INVARIANT ChunkDecrypted
