SPECIFICATION FairSpec
CONSTANTS
  Nil = Nil
  Extensions <- MCExtensions
CHECK_DEADLOCK FALSE
INVARIANTS
  TypeOK
  NeverOutOfSequence
  EnvelopeOverTLS
  ExtensionsCurrent
PROPERTIES
  ImplementsSendAttempt
  AttemptEnds
