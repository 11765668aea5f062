CONSTANTS
  Contact = {c1, c2, c3, c4, me}
  Mine = {me}
  Value = {right, wrong}
  Right = right
  NoValue = NoValue
  Connects = 2

SPECIFICATION FairSpec
INVARIANTS
  TypeOK
  OutcomeJustified
PROPERTIES
  ImplementsFindsChunk
  SearchEnds
