CONSTANTS
  j1 = j1
  j2 = j2
  f = f
  g = g
  a = a
  b = b
  out = out
  Job = {j1, j2}
  Chunk = {f, g, a, b}
  FileId = {f, g}
  FileOf <- MCFileOf
  Content <- MCContent
  Path = {out}
  PathOf <- MCPathOf
  None = None
  Zero = Zero
  Pool = 1

SPECIFICATION Spec
INVARIANT ReassembledAsListed
