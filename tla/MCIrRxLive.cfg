CONSTANTS
  Callers = {c1}
  NoCaller = NoCaller
  Requested <- MCRequested
  MaxTimeout = 3
  TickLen = 2
  Horizon = 3
SPECIFICATION Spec
PROPERTIES
  CaptureReturns
