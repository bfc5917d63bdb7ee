SPECIFICATION Spec
CONSTANTS
  MaxFix = 1
  MaxWorkflow = 2
  MaxFeedback = 1
  MaxAttempts = 1
  RecursionLimit = 24
INVARIANT JudgeLoopBounded
