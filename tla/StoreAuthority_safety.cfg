\* Three Stores, two Hosts, one of them ephemeral; two faults.
SPECIFICATION FairSpec
CONSTANTS
  Stores = {s1, s2, s3}
  Hosts = {h1, h2}
  Ephemeral = {h2}
  First = s1
  NoStore = NoStore
  NoHost = NoHost
  MaxTouches = 1
  MaxFaults = 2
INVARIANTS TypeOK OneClaim AuthorityHoldsClaim
PROPERTIES NoLiveOwnerIsRetired CopyIsLast AuthorityMovesOnce TransferIsResumed
CHECK_DEADLOCK FALSE
