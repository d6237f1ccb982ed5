SPECIFICATION Spec
CONSTANTS
  c1 = c1
  c2 = c2
  p1 = p1
  p2 = p2
  Nil = Nil
  Clients <- MCClients
  Passwords <- MCPasswords
  TTL = 1
  MaxLag = 1
  MaxMails = 2
  MaxRcpts = 2
INVARIANTS
  SubmittedAsGiven
  FilterEnds
