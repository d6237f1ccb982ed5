SPECIFICATION FairSpec
CONSTANTS
  e1 = e1
  q1 = q1
  q2 = q2
  v1 = v1
  v2 = v2
  t1 = t1
  t2 = t2
  Nil = Nil
  Emails <- MCEmails
  Requests <- MCRequests
  Asked <- MCAsked
  Visits <- MCVisits
  Tokens <- MCTokens
  PoolSize = 2
  Duration = 1
INVARIANTS
  TypeOK
  StuckIsReported
  PlanIsLastEvent
PROPERTIES
  RegistrationAnswered
  SessionsEnd
