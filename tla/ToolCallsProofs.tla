---------------------------- MODULE ToolCallsProofs ----------------------------
(***************************************************************************)
(* Safety of ToolCalls for every number of attempts, every set of agents,  *)
(* tools and backends, and any amount of work.                             *)
(*                                                                         *)
(* What a property says of finished work has to be said of every stage on  *)
(* the way there: what the stages so far have added to results and green,  *)
(* what the job waits for and what can still run then, how many containers *)
(* the attempts that are left can cost, and who was let through.           *)
(***************************************************************************)
EXTENDS ToolCalls, TLAPS

(* Only a stage waits, and nothing runs unless somebody waits for it; of a *)
(* container nothing outlives its first process.                           *)
WaitInv ==
  /\ at \notin Stages => wait = "nothing"
  /\ running => wait # "nothing"
  /\ held => wait # "nothing" /\ backend = "local"

(* What is being worked on, by where the work is.                          *)
WorkInv ==
  /\ at # "idle" => outcome = "none"
  /\ at \in {"handler", "command"} => work.kind = "call"
  /\ at = "handler" /\ work.tool = "run_tests" => work.argument = "invalid"
  /\ at = "command" => work.tool # "run_tests"

(* What passed so far is green so far.                                     *)
PassedInv ==
  /\ at = "ruff" /\ results.passed => green["pytest"]
  /\ at = "mypy" /\ results.passed => green["pytest"] /\ green["ruff"]
  /\ PassedMeansGreen

(* In the local sandbox, what is green so far has passed so far.           *)
GreenInv ==
  backend = "local" =>
    /\ at = "ruff" /\ green["pytest"] => results.passed
    /\ at = "mypy" /\ green["pytest"] /\ green["ruff"] => results.passed
    /\ Reported /\ AllGreen => results.passed

(* The containers the work under way may still leave behind.               *)
Allowance ==
  CASE at = "idle" -> 0
    [] at # "idle" /\ work.kind = "node" -> MaxAttempts - attempt + 1
    [] OTHER -> 1

(* What the attempts of the nodes begun so far may leave behind.           *)
NodeShare == MaxAttempts * nodes

ContainerInv == containers + Allowance <= NodeShare + calls

(* The verdict of the registry outlives the call.                          *)
Permitted(w) ==
  /\ w.tool \in ExecutionTools => "tests.execute" \in Granted(w.agent)
  /\ w.tool \notin GitHubWrites

GrantInv ==
  work.kind = "call" /\ (at # "idle" \/ outcome = "done") => Permitted(work)

(* The inductive invariant.                                                *)
IInv ==
  /\ TypeOK /\ WaitInv /\ WorkInv /\ PassedInv /\ GreenInv
  /\ ContainerInv /\ GrantInv
-----------------------------------------------------------------------------
(* Where work can be, unfolded once.                                       *)
LEMMA Places ==
  /\ TestStages = {"pytest", "ruff", "mypy"}
  /\ Stages = {"pytest", "ruff", "mypy", "command"}
  BY DEF TestStages, Stages

(* pytest's counts turn into counts of at most one item.                   *)
LEMMA ParseType ==
  ASSUME NEW c \in Counts
  PROVE  Parse(c) \in [run : 0..1, ok : 0..1, failed : 0..1]
<1>1. c.passed \in 0..1 /\ c.failed \in 0..1 /\ c.errors \in 0..1
  BY DEF Counts
<1> QED BY <1>1 DEF Parse

LEMMA EndingType ==
  ASSUME SandboxType
  PROVE  /\ ending.code \in {0, 1, -9} /\ ending.missing \in BOOLEAN
         /\ ending.counts \in Counts
         /\ ending.code = 0 => ending.counts.failed = 0
<1>1. CASE ending = Killed
  BY <1>1 DEF Killed, NoCounts, Counts
<1>2. CASE ending \in Endings
  <2>1. ending.counts \in Counts /\ ending.code \in {0, 1}
        /\ ending.missing \in BOOLEAN
    BY <1>2 DEF Endings
  <2>2. ending.code = 0 => ending.counts.failed + ending.counts.errors = 0
    BY <1>2 DEF Endings
  <2>3. ending.counts.failed \in 0..1 /\ ending.counts.errors \in 0..1
    BY <2>1 DEF Counts
  <2> QED BY <2>1, <2>2, <2>3
<1> QED BY <1>1, <1>2 DEF SandboxType

(* An exception starts another attempt or ends the work, never well.       *)
LEMMA Raised ==
  ASSUME TypeOK, Raise
  PROVE  /\ attempt' \in 0..MaxAttempts
         /\ \/ /\ at' = "discover" /\ outcome' = outcome /\ work.kind = "node"
               /\ attempt' = attempt + 1
            \/ /\ at' = "idle" /\ outcome' \in {"raised", "error"}
               /\ attempt' = attempt
  BY WorkBounds DEF Raise, Ends, TypeOK
-----------------------------------------------------------------------------
(* Type correctness.                                                       *)
LEMMA SandboxStep ==
  ASSUME SandboxType,
         \/ Spawn \/ ProcessEnds \/ ChildLeavesPipesOpen \/ PipesClose
         \/ ChildLetsGoOfPipes \/ LooseEnds
         \/ ContainerEnds \/ Collect \/ KillChild \/ AbandonContainer
         \/ UNCHANGED sandboxVars
  PROVE  SandboxType'
<1> USE DEF SandboxType
<1>1. CASE Spawn \/ Collect
  BY <1>1 DEF Spawn, Collect
<1>2. CASE ProcessEnds
  BY <1>2 DEF ProcessEnds
<1>3. CASE ChildLeavesPipesOpen \/ PipesClose
  BY <1>3 DEF ChildLeavesPipesOpen, PipesClose
<1>8. CASE ChildLetsGoOfPipes \/ LooseEnds
  BY <1>8 DEF ChildLetsGoOfPipes, LooseEnds
<1>4. CASE ContainerEnds
  BY <1>4 DEF ContainerEnds
<1>5. CASE KillChild
  BY <1>5 DEF KillChild
<1>6. CASE AbandonContainer
  <2>1. containers' \in Nat
    BY <1>6 DEF AbandonContainer
  <2> QED BY <1>6, <2>1 DEF AbandonContainer
<1>7. CASE UNCHANGED sandboxVars
  BY <1>7 DEF sandboxVars
<1> QED BY <1>1, <1>2, <1>3, <1>4, <1>5, <1>6, <1>7, <1>8

LEMMA AfterStageType ==
  ASSUME TypeOK
  PROVE  {AfterPytest, AfterRuff, AfterMypy} \subseteq
           [passed : BOOLEAN, run : 0..1, ok : 0..1, failed : 0..1,
            lint : BOOLEAN, types : BOOLEAN]
<1>1. Parse(ending.counts) \in [run : 0..1, ok : 0..1, failed : 0..1]
  BY ParseType, EndingType DEF TypeOK
<1>2. Succeeded \in BOOLEAN /\ ToolFails \in BOOLEAN
  BY DEF Succeeded, ToolFails
<1> QED BY <1>1, <1>2 DEF TypeOK, AfterPytest, AfterRuff, AfterMypy

LEMMA TypeStep == TypeOK /\ [Next]_vars => TypeOK'
<1> SUFFICES ASSUME TypeOK, [Next]_vars PROVE TypeOK'
  OBVIOUS
<1> USE WorkBounds DEF TypeOK, Ends
<1>1. CASE StartTesterNode
  BY <1>1, SandboxStep DEF StartTesterNode, Works
<1>2. ASSUME NEW agent \in Agents, NEW tool \in AskedTools,
             NEW argument \in ArgumentsOf(tool), NEW registered,
             CallTool(agent, tool, argument, registered)
      PROVE  TypeOK'
  <2>1. argument \in Arguments \cup {"workspace", "repo", "elsewhere"}
    BY DEF ArgumentsOf, Arguments
  <2>2. work' \in Works
    BY <1>2, <2>1 DEF CallTool, Works
  <2> QED BY <1>2, <2>2, SandboxStep, Places DEF CallTool
<1>3. CASE HandlerReturns
  BY <1>3, SandboxStep DEF HandlerReturns
<1>4. ASSUME NEW found \in BOOLEAN, Discover(found) PROVE TypeOK'
  BY <1>4, SandboxStep, Places DEF Discover, Fresh, Undone
<1>5. CASE RunCommand
  BY <1>5, SandboxStep DEF RunCommand, workVars
<1>6. CASE CannotRun
  BY <1>6, SandboxStep, Raised DEF CannotRun
<1>7. CASE StageOver
  <2>1. SandboxType'
    BY <1>7, SandboxStep DEF StageOver
  <2>2. /\ at' \in Stages \cup {"idle", "handler", "discover"}
        /\ outcome' \in {"none", "done", "error", "raised"}
    BY <1>7, Places DEF StageOver
  <2>3. results' \in {AfterPytest, AfterRuff, AfterMypy}
    BY <1>7, Places DEF StageOver
  <2>4. green' \in [TestStages -> BOOLEAN]
    BY <1>7 DEF StageOver, EndedWell
  <2> QED BY <1>7, <2>1, <2>2, <2>3, <2>4, AfterStageType DEF StageOver
<1>8. CASE CommandOver
  BY <1>8, SandboxStep DEF CommandOver
<1>9. CASE LocalTimeout
  BY <1>9, SandboxStep DEF LocalTimeout, workVars
<1>10. CASE DockerTimeout
  BY <1>10, SandboxStep, Raised DEF DockerTimeout
<1>11. CASE Outside
  BY <1>11, SandboxStep DEF Outside, workVars
<1>12. CASE Rest \/ UNCHANGED vars
  BY <1>12, SandboxStep DEF Rest, vars, workVars
<1> QED
  BY <1>1, <1>2, <1>3, <1>4, <1>5, <1>6, <1>7, <1>8, <1>9, <1>10, <1>11, <1>12
  DEF Next, Proceeds
-----------------------------------------------------------------------------
LEMMA InitInv == Init => IInv
<1> SUFFICES ASSUME Init PROVE IInv
  OBVIOUS
<1> USE WorkBounds, Places DEF Init, InitSandbox
<1>1. TypeOK
  <2>1. SandboxType
    BY DEF SandboxType
  <2>2. work \in Works /\ at \in Stages \cup {"idle", "handler", "discover"}
    BY DEF Works
  <2>3. /\ results \in [passed : BOOLEAN, run : 0..1, ok : 0..1, failed : 0..1,
                        lint : BOOLEAN, types : BOOLEAN]
        /\ green \in [TestStages -> BOOLEAN]
    BY DEF Fresh, Undone
  <2> QED BY <2>1, <2>2, <2>3 DEF TypeOK
<1>2. WaitInv /\ WorkInv
  BY DEF WaitInv, WorkInv
<1>3. ~Reported
  BY DEF Reported
<1>4. PassedInv /\ GreenInv
  BY <1>3 DEF PassedInv, GreenInv, PassedMeansGreen
<1>5. ContainerInv
  BY DEF ContainerInv, NodeShare, Allowance
<1>6. GrantInv
  BY DEF GrantInv, TesterNode
<1> QED BY <1>1, <1>2, <1>4, <1>5, <1>6 DEF IInv

(* What waits, and for what.                                               *)
LEMMA WaitStep == TypeOK /\ WaitInv /\ [Next]_vars => WaitInv'
<1> SUFFICES ASSUME TypeOK, WaitInv, [Next]_vars PROVE WaitInv'
  OBVIOUS
<1> USE Places DEF WaitInv, Ends
<1>1. CASE StartTesterNode
  BY <1>1 DEF StartTesterNode, sandboxVars
<1>2. ASSUME NEW agent, NEW tool, NEW argument, NEW registered,
             CallTool(agent, tool, argument, registered)
      PROVE  WaitInv'
  BY <1>2 DEF CallTool, sandboxVars
<1>3. CASE HandlerReturns
  BY <1>3 DEF HandlerReturns, sandboxVars
<1>4. ASSUME NEW found \in BOOLEAN, Discover(found) PROVE WaitInv'
  BY <1>4 DEF Discover, sandboxVars
<1>5. CASE RunCommand
  BY <1>5 DEF RunCommand, Spawn, workVars
<1>6. CASE CannotRun
  BY <1>6, Raised DEF CannotRun, sandboxVars
<1>7. CASE StageOver
  BY <1>7 DEF StageOver, Collect
<1>8. CASE CommandOver
  BY <1>8 DEF CommandOver, Collect
<1>9. CASE LocalTimeout
  BY <1>9 DEF LocalTimeout, KillChild, workVars
<1>10. CASE DockerTimeout
  BY <1>10, Raised DEF DockerTimeout, AbandonContainer
<1>11. CASE Outside
  BY <1>11 DEF Outside, ProcessEnds, ChildLeavesPipesOpen, PipesClose,
               ChildLetsGoOfPipes, LooseEnds, ContainerEnds, workVars
<1>12. CASE Rest \/ UNCHANGED vars
  BY <1>12 DEF Rest, vars, sandboxVars, workVars
<1> QED
  BY <1>1, <1>2, <1>3, <1>4, <1>5, <1>6, <1>7, <1>8, <1>9, <1>10, <1>11, <1>12
  DEF Next, Proceeds

(* Where the work is and what it is.                                       *)
LEMMA WorkStep == TypeOK /\ WorkInv /\ [Next]_vars => WorkInv'
<1> SUFFICES ASSUME TypeOK, WorkInv, [Next]_vars PROVE WorkInv'
  OBVIOUS
<1> USE Places DEF WorkInv, Ends
<1>1. CASE StartTesterNode
  BY <1>1 DEF StartTesterNode
<1>2. ASSUME NEW agent, NEW tool, NEW argument, NEW registered,
             CallTool(agent, tool, argument, registered)
      PROVE  WorkInv'
  BY <1>2 DEF CallTool, ExecutionTools
<1>3. CASE HandlerReturns
  BY <1>3 DEF HandlerReturns
<1>4. ASSUME NEW found \in BOOLEAN, Discover(found) PROVE WorkInv'
  BY <1>4 DEF Discover
<1>5. CASE RunCommand
  BY <1>5 DEF RunCommand, workVars
<1>6. CASE CannotRun
  BY <1>6, Raised DEF CannotRun
<1>7. CASE StageOver
  BY <1>7 DEF StageOver
<1>8. CASE CommandOver
  BY <1>8 DEF CommandOver
<1>9. CASE LocalTimeout
  BY <1>9 DEF LocalTimeout, workVars
<1>10. CASE DockerTimeout
  BY <1>10, Raised DEF DockerTimeout
<1>11. CASE Outside
  BY <1>11 DEF Outside, workVars
<1>12. CASE Rest \/ UNCHANGED vars
  BY <1>12 DEF Rest, vars, workVars
<1> QED
  BY <1>1, <1>2, <1>3, <1>4, <1>5, <1>6, <1>7, <1>8, <1>9, <1>10, <1>11, <1>12
  DEF Next, Proceeds
-----------------------------------------------------------------------------
(* What each stage adds to the results, against what its process has done. *)
LEMMA PytestResult ==
  ASSUME TypeOK
  PROVE  /\ AfterPytest.passed => EndedWell("pytest")
         /\ backend = "local" /\ EndedWell("pytest") => AfterPytest.passed
<1> DEFINE parsed == Parse(ending.counts)
<1>1. AfterPytest.passed = (Succeeded /\ parsed.failed = 0)
  BY DEF AfterPytest, TypeOK
<1>2. /\ ending.counts.passed \in 0..1 /\ ending.counts.failed \in 0..1
      /\ ending.counts.errors \in 0..1
      /\ ending.code = 0 => ending.counts.failed = 0
  BY EndingType DEF TypeOK, Counts
<1>3. parsed.failed = 0 <=> ending.counts.failed = 0 /\ ending.counts.passed > 0
  <2> SUFFICES ASSUME NEW c, c.passed \in 0..1, c.failed \in 0..1,
                      c.errors \in 0..1
               PROVE  Parse(c).failed = 0 <=> c.failed = 0 /\ c.passed > 0
    BY <1>2
  <2> QED BY DEF Parse
<1>4. /\ Succeeded => ending.code = 0 /\ ~TimedOut
      /\ backend = "local" /\ ending.code = 0 /\ ~TimedOut => Succeeded
  BY DEF Succeeded, ReturnCode
<1> QED BY <1>1, <1>2, <1>3, <1>4 DEF EndedWell

LEMMA ToolResult ==
  ASSUME TypeOK, NEW s \in {"ruff", "mypy"}
  PROVE  /\ ~ToolFails => EndedWell(s)
         /\ backend = "local" /\ EndedWell(s) => ~ToolFails
  BY DEF ToolFails, EndedWell, ReturnCode

LEMMA StageResult ==
  ASSUME TypeOK, StageOver
  PROVE  /\ at = "pytest" => /\ results'.passed => green'["pytest"]
                             /\ backend = "local" /\ green'["pytest"]
                                  => results'.passed
         /\ \A s \in {"ruff", "mypy"} :
              at = s => /\ results'.passed => results.passed /\ green'[s]
                        /\ backend = "local" /\ results.passed /\ green'[s]
                             => results'.passed
         /\ \A s \in TestStages : s # at => green'[s] = green[s]
<1>1. green' = [green EXCEPT ![at] = EndedWell(at)] /\ at \in TestStages
  BY DEF StageOver
<1>2. green'[at] = EndedWell(at)
      /\ \A s \in TestStages : s # at => green'[s] = green[s]
  BY <1>1 DEF TypeOK
<1>3. CASE at = "pytest"
  BY <1>2, <1>3, PytestResult DEF StageOver
<1>4. CASE at = "ruff"
  <2>1. results'.passed = (results.passed /\ ~ToolFails)
    BY <1>4 DEF StageOver, AfterRuff, TypeOK
  <2> QED BY <1>2, <1>4, <2>1, ToolResult
<1>5. CASE at = "mypy"
  <2>1. results'.passed = (results.passed /\ ~ToolFails)
    BY <1>5 DEF StageOver, AfterMypy, TypeOK
  <2> QED BY <1>2, <1>5, <2>1, ToolResult
<1> QED BY <1>1, <1>3, <1>4, <1>5, Places

(* Nothing but a stage changes what has passed and what is green, and the  *)
(* work that any other step ends is not reported by the tester, unless it  *)
(* is work in which nothing was found to run.                              *)
LEMMA OnlyStagesReport ==
  ASSUME TypeOK, WorkInv, [Next]_vars, ~StageOver
  PROVE  /\ at' \in {"ruff", "mypy"} => UNCHANGED <<at, results, green>>
         /\ Reported' => \/ Reported /\ UNCHANGED <<results, green>>
                         \/ results' = Fresh /\ green' = Undone
         /\ backend' = backend
<1> USE Places DEF WorkInv, Ends, Reported
<1>1. CASE StartTesterNode
  BY <1>1 DEF StartTesterNode, sandboxVars
<1>2. ASSUME NEW agent, NEW tool, NEW argument, NEW registered,
             CallTool(agent, tool, argument, registered)
      PROVE  /\ at' \notin {"ruff", "mypy"} /\ ~Reported'
             /\ backend' = backend
  BY <1>2 DEF CallTool, sandboxVars
<1>3. CASE HandlerReturns
  <2>1. work.tool = "run_tests" => HandlerEnds(work.tool, work.argument) = {"raises"}
    <3>1. work.tool = "run_tests" => work.argument = "invalid"
      BY <1>3 DEF HandlerReturns
    <3>2. \A tool : HandlerEnds(tool, "invalid") = {"raises"}
      BY DEF HandlerEnds
    <3> QED BY <3>1, <3>2
  <2>2. outcome' = "done" => "data" \in HandlerEnds(work.tool, work.argument)
    BY <1>3 DEF HandlerReturns
  <2>3. work.kind = "call" /\ UNCHANGED <<work, results, green, backend>>
        /\ at' = "idle"
    BY <1>3 DEF HandlerReturns, sandboxVars
  <2> QED BY <2>1, <2>2, <2>3
<1>4. ASSUME NEW found \in BOOLEAN, Discover(found)
      PROVE  /\ at' \notin {"ruff", "mypy"}
             /\ results' = Fresh /\ green' = Undone /\ backend' = backend
  BY <1>4 DEF Discover, sandboxVars
<1>5. CASE RunCommand
  BY <1>5 DEF RunCommand, Spawn, workVars
<1>6. CASE CannotRun
  BY <1>6, Raised DEF CannotRun, sandboxVars
<1>8. CASE CommandOver
  BY <1>8 DEF CommandOver, Collect
<1>9. CASE LocalTimeout
  BY <1>9 DEF LocalTimeout, KillChild, workVars
<1>10. CASE DockerTimeout
  BY <1>10, Raised DEF DockerTimeout, AbandonContainer
<1>11. CASE Outside
  BY <1>11 DEF Outside, ProcessEnds, ChildLeavesPipesOpen, PipesClose,
               ChildLetsGoOfPipes, LooseEnds, ContainerEnds, workVars
<1>12. CASE Rest \/ UNCHANGED vars
  BY <1>12 DEF Rest, vars, sandboxVars, workVars
<1> QED
  BY <1>1, <1>2, <1>3, <1>4, <1>5, <1>6, <1>8, <1>9, <1>10, <1>11, <1>12
  DEF Next, Proceeds

LEMMA PassedStep ==
  TypeOK /\ WorkInv /\ PassedInv /\ [Next]_vars => PassedInv'
<1> SUFFICES ASSUME TypeOK, WorkInv, PassedInv, [Next]_vars PROVE PassedInv'
  OBVIOUS
<1> USE Places DEF PassedInv, PassedMeansGreen, AllGreen
<1>1. CASE StageOver
  <2>1. \A s \in TestStages : s # at => green'[s] = green[s]
    BY <1>1, StageResult
  <2>2. CASE at = "pytest"
    <3>1. at' = "ruff" /\ outcome' = "none"
      BY <1>1, <2>2 DEF StageOver, WorkInv
    <3> QED BY <1>1, <2>2, <3>1, StageResult DEF Reported
  <2>3. CASE at = "ruff"
    <3>1. at' = "mypy" /\ outcome' = "none"
      BY <1>1, <2>3 DEF StageOver, WorkInv
    <3>2. results'.passed => results.passed /\ green'["ruff"]
      BY <1>1, <2>3, StageResult
    <3> QED BY <2>1, <2>3, <3>1, <3>2 DEF Reported
  <2>4. CASE at = "mypy"
    <3>1. at' = "idle"
      BY <1>1, <2>4 DEF StageOver, Ends
    <3>2. results'.passed => results.passed /\ green'["mypy"]
      BY <1>1, <2>4, StageResult
    <3> QED BY <2>1, <2>4, <3>1, <3>2
  <2> QED BY <1>1, <2>2, <2>3, <2>4 DEF StageOver
<1>2. CASE ~StageOver
  BY <1>2, OnlyStagesReport DEF Fresh
<1> QED BY <1>1, <1>2

LEMMA GreenStep ==
  TypeOK /\ WorkInv /\ GreenInv /\ [Next]_vars => GreenInv'
<1> SUFFICES ASSUME TypeOK, WorkInv, GreenInv, [Next]_vars, backend' = "local"
             PROVE  GreenInv'
  BY DEF GreenInv
<1> USE Places DEF GreenInv, AllGreen
<1>1. CASE StageOver
  <2>0. backend = "local"
    BY <1>1 DEF StageOver, Collect
  <2>1. \A s \in TestStages : s # at => green'[s] = green[s]
    BY <1>1, StageResult
  <2>2. CASE at = "pytest"
    <3>1. at' = "ruff" /\ outcome' = "none"
      BY <1>1, <2>2 DEF StageOver, WorkInv
    <3> QED BY <1>1, <2>0, <2>2, <3>1, StageResult DEF Reported
  <2>3. CASE at = "ruff"
    <3>1. at' = "mypy" /\ outcome' = "none"
      BY <1>1, <2>3 DEF StageOver, WorkInv
    <3>2. results.passed /\ green'["ruff"] => results'.passed
      BY <1>1, <2>0, <2>3, StageResult
    <3> QED BY <2>0, <2>1, <2>3, <3>1, <3>2 DEF Reported
  <2>4. CASE at = "mypy"
    <3>1. at' = "idle"
      BY <1>1, <2>4 DEF StageOver, Ends
    <3>2. results.passed /\ green'["mypy"] => results'.passed
      BY <1>1, <2>0, <2>4, StageResult
    <3> QED BY <2>0, <2>1, <2>4, <3>1, <3>2
  <2> QED BY <1>1, <2>2, <2>3, <2>4 DEF StageOver
<1>2. CASE ~StageOver
  BY <1>2, OnlyStagesReport DEF Undone
<1> QED BY <1>1, <1>2
-----------------------------------------------------------------------------
(* A node more may leave one container per attempt.                        *)
LEMMA NodeShares ==
  ASSUME TypeOK
  PROVE  /\ NodeShare \in Int
         /\ nodes' = nodes => NodeShare' = NodeShare
         /\ nodes' = nodes + 1 => NodeShare' = NodeShare + MaxAttempts
  BY WorkBounds DEF TypeOK, NodeShare

(* An exception uses up one container of the allowance, or all of it.      *)
LEMMA RaiseUsesAllowance ==
  ASSUME TypeOK, Raise, work' = work, at # "idle"
  PROVE  Allowance >= 1 /\ (Allowance' = Allowance - 1 \/ Allowance' = 0)
<1>1. /\ attempt \in 0..MaxAttempts /\ MaxAttempts \in Nat
      /\ Allowance = IF work.kind = "node" THEN MaxAttempts - attempt + 1 ELSE 1
  BY WorkBounds DEF TypeOK, Allowance
<1>2. CASE at' = "idle"
  BY <1>1, <1>2 DEF Allowance
<1>3. CASE at' # "idle"
  <2>1. at' = "discover" /\ work.kind = "node" /\ attempt' = attempt + 1
    BY <1>3, Raised
  <2> QED BY <1>1, <2>1 DEF Allowance
<1> QED BY <1>2, <1>3

LEMMA ContainerStep == TypeOK /\ ContainerInv /\ [Next]_vars => ContainerInv'
<1> SUFFICES ASSUME TypeOK, ContainerInv, [Next]_vars PROVE ContainerInv'
  OBVIOUS
<1>1. /\ nodes \in Nat /\ calls \in Nat /\ containers \in Nat
      /\ attempt \in 0..MaxAttempts /\ MaxAttempts \in Nat
      /\ containers + Allowance <= NodeShare + calls
      /\ NodeShare \in Int
      /\ Allowance \in Nat
  BY WorkBounds, NodeShares DEF TypeOK, SandboxType, ContainerInv, Allowance
(* The work goes on, or ends early.                                        *)
<1>2. ASSUME UNCHANGED <<nodes, calls, work, attempt, containers>>,
             at # "idle" \/ at' = "idle"
      PROVE  ContainerInv'
  <2>1. Allowance' = 0 \/ Allowance' = Allowance
    BY <1>2 DEF Allowance
  <2>2. NodeShare' = NodeShare
    BY <1>2, NodeShares
  <2>3. CASE Allowance' = 0
    BY <1>1, <1>2, <2>2, <2>3 DEF ContainerInv
  <2>4. CASE Allowance' = Allowance
    BY <1>1, <1>2, <2>2, <2>4 DEF ContainerInv
  <2> QED BY <2>1, <2>3, <2>4
(* It raises, and may leave a container behind.                            *)
<1>3. ASSUME Raise, at # "idle", UNCHANGED <<nodes, calls, work>>,
             NEW more \in {0, 1}, containers' = containers + more
      PROVE  ContainerInv'
  <2>1. Allowance >= 1 /\ (Allowance' = Allowance - 1 \/ Allowance' = 0)
    BY <1>3, RaiseUsesAllowance
  <2>2. NodeShare' = NodeShare
    BY <1>3, NodeShares
  <2>3. CASE Allowance' = 0
    BY <1>1, <1>3, <2>1, <2>2, <2>3 DEF ContainerInv
  <2>4. CASE Allowance' = Allowance - 1
    BY <1>1, <1>3, <2>1, <2>2, <2>4 DEF ContainerInv
  <2> QED BY <2>1, <2>3, <2>4
(* A container ends.                                                       *)
<1>4. ASSUME ContainerEnds, UNCHANGED workVars
      PROVE  ContainerInv'
  <2>1. Allowance' = Allowance
    BY <1>4 DEF workVars, Allowance
  <2>2. NodeShare' = NodeShare
    BY <1>4, NodeShares DEF workVars
  <2> QED BY <1>1, <1>4, <2>1, <2>2 DEF ContainerInv, ContainerEnds, workVars
<1> USE Places DEF Ends, sandboxVars
<1>5. CASE StartTesterNode
  <2>1. Allowance' = MaxAttempts /\ Allowance = 0
    BY <1>1, <1>5 DEF StartTesterNode, Allowance, TesterNode
  <2>2. nodes' = nodes + 1 /\ UNCHANGED <<containers, calls>>
    BY <1>5 DEF StartTesterNode
  <2>3. NodeShare' = NodeShare + MaxAttempts
    BY <2>2, NodeShares
  <2> QED BY <1>1, <2>1, <2>2, <2>3 DEF ContainerInv
<1>6. ASSUME NEW agent, NEW tool, NEW argument, NEW registered,
             CallTool(agent, tool, argument, registered)
      PROVE  ContainerInv'
  <2>1. Allowance' \in {0, 1} /\ Allowance = 0
    BY <1>6 DEF CallTool, Allowance
  <2>2. calls' = calls + 1 /\ UNCHANGED <<containers, nodes>>
    BY <1>6 DEF CallTool
  <2>3. NodeShare' = NodeShare
    BY <2>2, NodeShares
  <2>4. CASE Allowance' = 0
    BY <1>1, <2>1, <2>2, <2>3, <2>4 DEF ContainerInv
  <2>5. CASE Allowance' = 1
    BY <1>1, <2>1, <2>2, <2>3, <2>5 DEF ContainerInv
  <2> QED BY <2>1, <2>4, <2>5
<1>7. CASE HandlerReturns
  BY <1>2, <1>7 DEF HandlerReturns
<1>8. ASSUME NEW found \in BOOLEAN, Discover(found) PROVE ContainerInv'
  BY <1>2, <1>8 DEF Discover
<1>9. CASE RunCommand
  BY <1>2, <1>9 DEF RunCommand, Spawn, workVars
<1>10. CASE CannotRun
  BY <1>1, <1>3, <1>10 DEF CannotRun
<1>11. CASE StageOver
  BY <1>2, <1>11 DEF StageOver, Collect
<1>12. CASE CommandOver
  BY <1>2, <1>12 DEF CommandOver, Collect
<1>13. CASE LocalTimeout
  BY <1>2, <1>13 DEF LocalTimeout, KillChild, workVars
<1>14. CASE DockerTimeout
  BY <1>3, <1>14 DEF DockerTimeout, AbandonContainer
<1>15. CASE Outside
  <2>1. CASE ContainerEnds
    BY <1>4, <1>15, <2>1 DEF Outside
  <2>2. CASE at' = at /\ UNCHANGED <<work, attempt, nodes, calls, containers>>
    BY <1>2, <2>2
  <2> QED
    BY <1>15, <2>1, <2>2
    DEF Outside, ProcessEnds, ChildLeavesPipesOpen, PipesClose,
        ChildLetsGoOfPipes, LooseEnds, workVars
<1>16. CASE Rest \/ UNCHANGED vars
  BY <1>2, <1>16 DEF Rest, vars, workVars
<1> QED
  BY <1>5, <1>6, <1>7, <1>8, <1>9, <1>10, <1>11, <1>12, <1>13, <1>14, <1>15,
     <1>16
  DEF Next, Proceeds
-----------------------------------------------------------------------------
(* No level at all allows what is always blocked, and nothing but the      *)
(* harness's tests.execute gives the level the execution tools require.    *)
LEMMA OnlyExecuteExecutes ==
  ASSUME NEW granted
  PROVE  Rank[Level(Derived(granted), "execution")] >= Rank["execute"]
           => "tests.execute" \in granted
<1> SUFFICES ASSUME "tests.execute" \notin granted
             PROVE  ~(Rank[Level(Derived(granted), "execution")] >= Rank["execute"])
  OBVIOUS
<1>1. "execution" \notin DOMAIN Derived(granted)
  BY DEF Derived
<1> QED BY <1>1 DEF Level, Rank

LEMMA ServedIsPermitted ==
  ASSUME NEW agent, NEW tool, NEW argument, NEW registered,
         Verdict(registered, agent, tool) = "served"
  PROVE  Permitted([kind |-> "call", agent |-> agent, tool |-> tool,
                    argument |-> argument])
<1>1. CanCall(Derived(Granted(agent)), tool, CategoryOf(tool), Required(tool))
  BY DEF Verdict
<1>2. tool \notin GitHubWrites
  BY <1>1 DEF CanCall, GitHubWrites, AlwaysBlocked
<1>3. ASSUME tool \in ExecutionTools
      PROVE  "tests.execute" \in Granted(agent)
  <2>1. Required(tool) = "execute"
    BY <1>2, <1>3 DEF Required
  <2>2. CategoryOf(tool) = "execution"
    BY <1>3 DEF CategoryOf, ExecutionTools, GitHubReads, GitHubWrites, RepositoryTools
  <2> QED BY <1>1, <2>1, <2>2, OnlyExecuteExecutes DEF CanCall
<1> QED BY <1>2, <1>3 DEF Permitted

LEMMA GrantStep ==
  TypeOK /\ WorkInv /\ GrantInv /\ [Next]_vars => GrantInv'
<1> SUFFICES ASSUME TypeOK, WorkInv, GrantInv, [Next]_vars PROVE GrantInv'
  OBVIOUS
(* Work that goes on, or ends, is work that was under way.                 *)
<1>1. ASSUME work' = work,
             at # "idle" \/ (at' = "idle" /\ outcome' = outcome)
      PROVE  GrantInv'
  BY <1>1 DEF GrantInv, Permitted
<1> USE Places
<1>2. CASE StartTesterNode
  BY <1>2 DEF StartTesterNode, GrantInv, TesterNode
<1>3. ASSUME NEW agent, NEW tool, NEW argument, NEW registered,
             CallTool(agent, tool, argument, registered)
      PROVE  GrantInv'
  <2>1. work' = [kind |-> "call", agent |-> agent, tool |-> tool,
                 argument |-> argument]
    BY <1>3 DEF CallTool
  <2>2. CASE Verdict(registered, agent, tool) = "served"
    BY <2>1, <2>2, ServedIsPermitted DEF GrantInv
  <2>3. CASE Verdict(registered, agent, tool) # "served"
    BY <1>3, <2>3 DEF CallTool, Ends, GrantInv
  <2> QED BY <2>2, <2>3
<1>4. CASE HandlerReturns
  BY <1>1, <1>4 DEF HandlerReturns
<1>5. ASSUME NEW found \in BOOLEAN, Discover(found) PROVE GrantInv'
  BY <1>1, <1>5 DEF Discover
<1>6. CASE RunCommand
  BY <1>1, <1>6 DEF RunCommand, workVars
<1>7. CASE CannotRun
  BY <1>1, <1>7 DEF CannotRun
<1>8. CASE StageOver \/ CommandOver
  BY <1>1, <1>8 DEF StageOver, CommandOver
<1>9. CASE LocalTimeout
  BY <1>1, <1>9 DEF LocalTimeout, workVars
<1>10. CASE DockerTimeout
  BY <1>1, <1>10 DEF DockerTimeout
<1>11. CASE Outside \/ Rest \/ UNCHANGED vars
  BY <1>1, <1>11 DEF Outside, Rest, vars, workVars
<1> QED
  BY <1>2, <1>3, <1>4, <1>5, <1>6, <1>7, <1>8, <1>9, <1>10, <1>11
  DEF Next, Proceeds
-----------------------------------------------------------------------------
LEMMA StepInv == IInv /\ [Next]_vars => IInv'
  BY TypeStep, WaitStep, WorkStep, PassedStep, GreenStep, ContainerStep,
     GrantStep
  DEF IInv

LEMMA Invariance == Spec => []IInv
  BY InitInv, StepInv, PTL DEF Spec

(* The job, its sandbox, the results and the history keep their types.     *)
THEOREM TypeCorrect == Spec => []TypeOK
<1>1. IInv => TypeOK
  BY DEF IInv
<1> QED BY Invariance, <1>1, PTL

(* What the tester reports as passed is green, over any number of retries, *)
(* timeouts and earlier pieces of work, in either sandbox                  *)
(* (agents/tester.py run).                                                 *)
THEOREM PassedIsGreen == Spec => []PassedMeansGreen
<1>1. IInv => PassedMeansGreen
  BY DEF IInv, PassedInv
<1> QED BY Invariance, <1>1, PTL

(* In the local sandbox nothing green is reported as failed.               *)
THEOREM LocalGreenIsPassed == Spec => []LocalGreenPasses
<1>1. IInv => LocalGreenPasses
  BY DEF IInv, GreenInv, LocalGreenPasses
<1> QED BY Invariance, <1>1, PTL

(* When the local sandbox has answered, its process is over and nobody can *)
(* add to the output it answered with (execution/local.py run).            *)
THEOREM AnswersAreComplete == Spec => []AnswersAreFinal
<1>1. IInv => AnswersAreFinal
  BY Places DEF IInv, WaitInv, AnswersAreFinal
<1> QED BY Invariance, <1>1, PTL

(* Timeouts leave at most a container for every attempt of a node and for  *)
(* every call (execution/docker.py:74).                                    *)
THEOREM ContainersAreBounded == Spec => []ContainersBounded
<1>1. ASSUME IInv PROVE ContainersBounded
  <2>1. Allowance \in Nat
    BY <1>1, WorkBounds DEF IInv, TypeOK, Allowance
  <2>2. NodeShare \in Int
    BY <1>1, NodeShares DEF IInv
  <2> QED
    BY <1>1, <2>1, <2>2
    DEF IInv, TypeOK, SandboxType, ContainerInv, NodeShare, ContainersBounded
<1> QED BY Invariance, <1>1, PTL

(* Commands run only for agents the harness lets execute tests, and tools  *)
(* that write to GitHub are never served, whatever is registered           *)
(* (mcp/registry.py call).                                                 *)
THEOREM CallsStayWithinGrants == Spec => []NothingBeyondGrants
<1>1. ASSUME IInv PROVE NothingBeyondGrants
  <2>1. running => at # "idle"
    BY <1>1, Places DEF IInv, WaitInv
  <2> QED BY <1>1, <2>1 DEF IInv, GrantInv, Permitted, NothingBeyondGrants
<1> QED BY Invariance, <1>1, PTL
=============================================================================
