\* Budgets that differ, each above one, and a retry of every node.
SPECIFICATION FairSpec
CONSTANTS
  MaxFix = 2
  MaxWorkflow = 3
  MaxFeedback = 2
  MaxAttempts = 2
  RecursionLimit = 24
INVARIANTS
  TypeOK
  DeliveryVerified
  VerdictsCurrent
  FixBudget
  FeedbackBudget
  CompletedMeansDelivered
PROPERTIES
  PromiseSpec
  LoopsEnd
