CONSTANTS
  x1 = x1
  x2 = x2
  none = none
  Id <- MCId
  Addr <- MCAddr
  Width = 3
  MyId <- me
  NoAddr <- none
  Contact <- MCContact
  NoContact = NoContact
  K = 2
  Entry = {e1, e2, e3}

SPECIFICATION FairSpec
INVARIANTS
  TypeOK
  BucketBound
  NoDuplicates
  PingAccounting
PROPERTIES
  ImplementsCache
  DeadPeerEvicted
