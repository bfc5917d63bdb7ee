\* With the Docker backend a stage that passed looks failed.
SPECIFICATION Spec
CONSTANTS
  Backends = {"local", "docker"}
  Agents = {"tester"}
  AskedTools = {"run_tests"}
  MaxAttempts = 3
  MaxWork = 1
INVARIANTS
  GreenPassesAnywhere
