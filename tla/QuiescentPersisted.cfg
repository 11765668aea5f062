CONSTANTS
  f = f
  g = g
  a = a
  Chunk <- MCChunk
  FileId <- MCFileId
  Parts <- MCParts
  Caller = {p1, p2}
  Syncer = {y1, y2}
  NoChunk = NoChunk

SPECIFICATION SoundSpec
INVARIANT QuiescentPersisted
