SPECIFICATION Spec
CONSTANTS
  A = A
  B = B
  ra1 = ra1
  ra2 = ra2
  rb = rb
  n1 = n1
  n2 = n2
  rule = rule
  x1 = x1
  x2 = x2
  Nil = Nil
  Accounts = {A, B}
  Names = {n1, n2}
  Rules = {rule}
  Addresses = {x1, x2}
  Requests = {ra1, ra2}
  AccountOf <- MCParallel
  Subscribed = {}
  FreeDomains = 1
  FreeAliases = 1
  FreeDestinations = 1
  MaxKeys = 3
SYMMETRY MCSymmetry
CHECK_DEADLOCK FALSE
INVARIANT
  FreePlanLimits
