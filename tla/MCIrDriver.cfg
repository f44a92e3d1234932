CONSTANTS
  f1 = f1
  f2 = f2
  NoFile = NoFile
  Files <- MCFiles
  DataSize = 2
  Count <- MCCount
  MaxObjects = 2
  MaxBytes = 2
SPECIFICATION Spec
INVARIANTS TypeOK OpenFilesKeepObject NothingLeaks AllOrNothing
PROPERTIES ImplementsStream ReadEndsWhenGone DisconnectEnds
\* The hub thread may wait for an access to the carrier attribute that died.
CHECK_DEADLOCK FALSE
