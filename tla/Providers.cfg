CONSTANTS
  Node = {n1, n2}
  Holder = {n1, n2}
  Round = {r1, r2}
  Ttl = 8
  Period = 2
  Slack = 1

SPECIFICATION FairSpec
INVARIANTS
  RecordKept
  DeadForgotten
PROPERTY RecordReturns
