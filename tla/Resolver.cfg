SPECIFICATION FairSpec
CONSTANTS
  r1 = r1
  s1 = s1
  a1 = a1
  x1 = x1
  Nil = Nil
  Relays <- MCRelays
  Submitters <- MCSubmitters
  Rules <- MCRules
  Destinations <- MCDestinations
  TTL = 1
  MaxLag = 1
INVARIANT TypeOK
PROPERTIES AnswersRecent RefusalsEnd
