\* Every agent that differs in what it may call, a tool of every kind, two
\* pieces of work, both backends.
SPECIFICATION FairSpec
CONSTANTS
  Backends = {"local", "docker"}
  Agents <- SomeAgents
  AskedTools <- SomeTools
  MaxAttempts = 3
  MaxWork = 2
INVARIANTS
  TypeOK
  PassedMeansGreen
  LocalGreenPasses
  AnswersAreFinal
  ContainersBounded
  NothingBeyondGrants
PROPERTIES
  WorkEnds
