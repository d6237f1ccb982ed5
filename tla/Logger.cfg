SPECIFICATION FairSpec
CONSTANTS
  A = A
  sent = sent
  bounced = bounced
  spf = spf
  Nil = Nil
  Accounts = {A}
  Entries <- MCEntries
  AccountOf <- MCAccountOf
  EtypeOf <- MCEtypeOf
  TTL = 1
  MaxLag = 1
  MaxClock = 2
  MaxFaults = 1
  MaxChanges = 1
CHECK_DEADLOCK FALSE
INVARIANTS
  TypeOK
  LevelRecent
  StoredOncePerDelivery
PROPERTY
  EventuallyAcked
