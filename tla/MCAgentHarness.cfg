SPECIFICATION FairSpec
CONSTANTS
  MaxAttempts = 3
  MaxIterations = 5
  MaxTokens = 3
  CallTokens = {1, 2}
  MaxCalls = 3
  MaxNodes = 2
INVARIANTS
  TypeOK
  OverspentByOneCall
  CountedOnce
  KeptUnlessClobbered
PROPERTY GuardedAgentEnds
CHECK_DEADLOCK FALSE
