CONSTANTS
  c1 = c1
  c2 = c2
  b1 = b1
  NoCommand = NoCommand
  Blank = Blank
  Commands <- MCCommands
  Brands <- MCBrands
  MIN_TEMPERATURE = 1
  MAX_TEMPERATURE = 2
  DEFAULT_TEMPERATURE = 1
  Legacy <- MCLegacy
  MaxId = 2
  MaxUnsaved = 1
  MaxStale = 2
SPECIFICATION Spec
INVARIANTS
  TypeOK RemoteShowsActive IdsTellApart EditedControlExists EveryControlComplete
  RestartForgetsNothing TimeoutOfThisAttempt
PROPERTIES
  LearningEnds
