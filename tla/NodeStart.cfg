CONSTANTS
  f = f
  g = g
  a = a
  Chunk <- MCChunk
  FileId <- MCFileId
  Parts <- MCParts
  Caller = {p1, p2}
  Publisher = {p1}
  Syncer = {y1, y2}
  NoChunk = NoChunk
  Ident = {i1, i2}
  NoIdent = NoIdent

SPECIFICATION NodeSpec
INVARIANTS
  TypeOK
  ManifestsBacked
  PublishAccepted
  ListedRecoverable
  IdentityDurable
  IdentityStable
PROPERTIES
  HeldChunksSurvive
  SettledManifestsSurvive
