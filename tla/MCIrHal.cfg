CONSTANTS
  Clients = {c1, c2}
  NoClient = NoClient
  Commands <- MCCommands
  SeqModulus <- MCSeqModulus
  MaxCalls <- MCMaxCalls
  MaxRestarts = 1
SPECIFICATION TalkativeSpec
INVARIANTS TypeOK AnswerIsOwn
PROPERTIES CallReturns
\* The clients may have no further call.
CHECK_DEADLOCK FALSE
