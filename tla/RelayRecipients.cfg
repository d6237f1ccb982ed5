SPECIFICATION Spec
CONSTANTS
  c1 = c1
  c2 = c2
  u1 = u1
  u2 = u2
  s1 = s1
  dom = dom
  alice = alice
  any = any
  x1 = x1
  x2 = x2
  Nil = Nil
  Conns <- MCConns
  UUIDs <- MCUUIDs
  Senders <- MCSenders
  Domains <- MCDomains
  Aliases <- MCAliases
  Destinations <- MCDestinations
  DomainOf <- MCDomainOf
  Links <- MCLinks
  CatchAll <- MCCatchAll
  Faults = TRUE
  MaxCommands = 3
  MaxRcpts = 2
VIEW MCView
SYMMETRY MCSymmetry
CHECK_DEADLOCK FALSE
INVARIANT
  EveryRecipientForwarded
