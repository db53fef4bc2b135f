SPECIFICATION MasterFairSpec
CONSTANTS
  MaxLatency = 4
  Gap = 21
  MaxAccesses = 3
INVARIANTS
  MasterTypeOK
  AnswerIsOwn
  IssueBound
PROPERTY EveryAccessAnswered
