CONSTANTS
  x1 = x1
  x2 = x2
  none = none
  Width = 3
  MyId <- me
  Target <- target
  Addr <- MCAddr
  NoAddr <- none
  Contact <- MCContact
  K = 3
  Concurrency = 2

SPECIFICATION FairSpec
INVARIANTS
  TypeOK
  Converged
  NobodyLeftOut
PROPERTIES
  AskedOnce
  Terminates
