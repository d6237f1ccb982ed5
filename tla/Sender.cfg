SPECIFICATION FairSpec
CONSTANTS
  w1 = w1
  w2 = w2
  e1 = e1
  bad = bad
  Nil = Nil
  Workers <- MCWorkers
  Emails <- MCEmails
  Malformed <- MCMalformed
  MaxMX = 2
  MaxFaults = 2
CHECK_DEADLOCK FALSE
INVARIANTS
  TypeOK
  OneLiveDelivery
  AckedHandled
  LogTruthful
  DuplicateOnlyByRequeue
PROPERTIES
  EventuallyAcked
  ImplementsMailQueue
