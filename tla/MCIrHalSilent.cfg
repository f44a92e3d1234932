CONSTANTS
  Clients = {c1, c2}
  NoClient = NoClient
  Commands <- MCCommands
  SeqModulus <- MCSeqModulus
  MaxCalls <- MCMaxCalls
  MaxRestarts = 0
SPECIFICATION Spec
PROPERTIES
  CallReturns
\* The clients may have no further call.
CHECK_DEADLOCK FALSE
