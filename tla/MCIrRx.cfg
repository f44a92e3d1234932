CONSTANTS
  Callers = {c1, c2}
  NoCaller = NoCaller
  Requested <- MCRequested
  MaxTimeout = 3
  TickLen = 2
  Horizon = 2
SPECIFICATION Spec
INVARIANTS
  TypeOK FreshFrame TimeoutNotEarly ReceiverOffAtReturn CompletionHasRoom
  JudgedBufferIsStill RequestAccounted
PROPERTIES
  AnswerStableWhileRead ImplementsService
SYMMETRY CallerSymmetry
