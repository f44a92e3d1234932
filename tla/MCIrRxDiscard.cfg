CONSTANTS
  Callers = {c1}
  NoCaller = NoCaller
  Requested <- MCRequested
  MaxTimeout = 3
  TickLen = 2
  Horizon = 2
SPECIFICATION Spec
INVARIANTS
  TimeoutMeansNoFrame
