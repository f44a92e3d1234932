CONSTANTS
  Senders = {s1, s2}
  NoSender = NoSender
  Codes <- MCCodes
  DefaultCarrier = 38
SPECIFICATION Spec
INVARIANTS
  EmittedAsAsked
PROPERTIES
  DriverUndisturbed LockReleased
