------------------------------ MODULE ToolCalls ------------------------------
(***************************************************************************)
(* A job at its tools: calls of an agent's MCPClient, through the registry *)
(* and its permission check to a handler (Toolbox), and the tester, which  *)
(* runs pytest, ruff and mypy one after the other in a sandbox (Sandbox).  *)
(* The tester works for the graph's tester node, which LangGraph retries   *)
(* when it raises, or for the tool run_tests, whose exceptions become an   *)
(* answer.                                                                 *)
(*                                                                         *)
(* A job does one such piece of work at a time; what happens in between is *)
(* left to SupervisorGraph.                                                *)
(***************************************************************************)
EXTENDS Toolbox, Sandbox

CONSTANTS
  Agents,       \* names the harness may be asked for
  AskedTools,   \* names the agents may call
  MaxAttempts,  \* _RETRY_POLICY of the graph
  MaxWork       \* bound on the pieces of work

ASSUME WorkBounds == MaxAttempts \in Nat \ {0} /\ MaxWork \in Nat

VARIABLES
  at,        \* where the work is
  work,      \* the piece of work: the tester node, or a call of a tool
  outcome,   \* how the last piece of work ended
  attempt,   \* attempts of the tester node
  results    \* TestResults of the tester

(* History, read by properties only.                                       *)
VARIABLES
  green,     \* green[s]: the process of stage s ended well, whatever was made of it
  nodes,     \* tester nodes begun
  calls      \* tools called

workVars == <<at, work, outcome, attempt, results, green, nodes, calls>>
vars == <<sandboxVars, workVars>>

TestStages == {"pytest", "ruff", "mypy"}
Stages == TestStages \cup {"command"}

TesterNode == [kind |-> "node", agent |-> "tester", tool |-> "none", argument |-> "none"]
Works == {TesterNode} \cup
  [kind : {"call"}, agent : Agents, tool : AskedTools,
   argument : Arguments \cup {"workspace", "repo", "elsewhere"}]

(* TestResults before anything has run.                                    *)
Fresh == [passed |-> FALSE, run |-> 0, ok |-> 0, failed |-> 0,
          lint |-> TRUE, types |-> TRUE]
Undone == [s \in TestStages |-> FALSE]

TypeOK ==
  /\ SandboxType
  /\ at \in Stages \cup {"idle", "handler", "discover"}
  /\ work \in Works
  /\ outcome \in {"none", "done", "error", "raised"}
  /\ attempt \in 0..MaxAttempts
  /\ results \in [passed : BOOLEAN, run : 0..1, ok : 0..1, failed : 0..1,
                  lint : BOOLEAN, types : BOOLEAN]
  /\ green \in [TestStages -> BOOLEAN]
  /\ nodes \in Nat /\ calls \in Nat /\ nodes + calls <= MaxWork

Init ==
  /\ InitSandbox
  /\ at = "idle" /\ work = TesterNode /\ outcome = "none" /\ attempt = 0
  /\ results = Fresh /\ green = Undone
  /\ nodes = 0 /\ calls = 0
-----------------------------------------------------------------------------
(* How a piece of work ends.                                               *)
Ends(how) == at' = "idle" /\ outcome' = how

StartTesterNode ==
  /\ at = "idle" /\ nodes + calls < MaxWork
  /\ at' = "discover" /\ work' = TesterNode /\ outcome' = "none"
  /\ attempt' = 1 /\ nodes' = nodes + 1
  /\ UNCHANGED <<sandboxVars, results, green, calls>>

(* What a handler can be given as its argument.                            *)
ArgumentsOf(tool) ==
  IF tool \in ExecutionTools THEN {"workspace", "repo", "elsewhere", "invalid"}
                             ELSE Arguments

(* The first step of a call goes as far as the handler's first await.      *)
CallTool(agent, tool, argument, registered) ==
  /\ at = "idle" /\ nodes + calls < MaxWork
  /\ argument \in ArgumentsOf(tool)
  /\ work' = [kind |-> "call", agent |-> agent, tool |-> tool, argument |-> argument]
  /\ calls' = calls + 1 /\ attempt' = 0
  /\ IF Verdict(registered, agent, tool) # "served"
       THEN Ends("error")
       ELSE /\ outcome' = "none"
            /\ at' = IF tool \notin ExecutionTools \/ argument = "invalid" THEN "handler"
                     ELSE IF tool = "run_tests" THEN "discover" ELSE "command"
  /\ UNCHANGED <<sandboxVars, results, green, nodes>>

(* MCPServer.call: an exception becomes an answer.                         *)
HandlerReturns ==
  /\ at = "handler"
  /\ \E how \in HandlerEnds(work.tool, work.argument) :
       Ends(IF how = "data" THEN "done" ELSE "error")
  /\ UNCHANGED <<sandboxVars, work, attempt, results, green, nodes, calls>>

(* A slip: the node is given one attempt too many.                         *)
RaiseOnceMore ==
  IF work.kind = "node" /\ attempt <= MaxAttempts
  THEN at' = "discover" /\ attempt' = attempt + 1 /\ outcome' = outcome
  ELSE /\ Ends(IF work.kind = "node" THEN "raised" ELSE "error")
       /\ attempt' = attempt

(* What becomes of an exception: the node is retried, a tool answers.      *)
Raise ==
  IF work.kind = "node" /\ attempt < MaxAttempts
  THEN at' = "discover" /\ attempt' = attempt + 1 /\ outcome' = outcome
  ELSE /\ Ends(IF work.kind = "node" THEN "raised" ELSE "error")
       /\ attempt' = attempt
-----------------------------------------------------------------------------
(* discover_tests looks below the place it is given; the workspace itself  *)
(* holds nothing but the clone.  Without tests nothing runs.               *)
Discover(found) ==
  /\ at = "discover"
  /\ work.argument = "workspace" => ~found
  /\ results' = Fresh /\ green' = Undone
  /\ IF found THEN at' = "pytest" /\ outcome' = outcome ELSE Ends("done")
  /\ UNCHANGED <<sandboxVars, work, attempt, nodes, calls>>

RunCommand ==
  /\ at \in Stages
  /\ backend = "docker" => work.argument # "elsewhere"
  /\ Spawn
  /\ UNCHANGED workVars

(* There is no such executable, no docker, or the place is not below the   *)
(* workspace, which only the Docker backend minds.                         *)
CannotRun ==
  /\ at \in Stages /\ wait = "nothing"
  /\ Raise
  /\ UNCHANGED <<sandboxVars, work, results, green, nodes, calls>>

(* _parse_pytest: the first item of the last line that counts something.   *)
(* pytest lists the failed before the passed and the errors last.          *)
Parse(counts) ==
  LET of(n, ok) == [run |-> n, ok |-> IF ok THEN n ELSE 0,
                    failed |-> IF ok THEN 0 ELSE n]
  IN  IF counts.failed > 0 THEN of(counts.failed, FALSE)
      ELSE IF counts.passed > 0 THEN of(counts.passed, TRUE)
      ELSE IF counts.errors > 0 THEN of(counts.errors, FALSE)
      ELSE [run |-> 0, ok |-> 0, failed |-> 1]

(* TesterAgent.run, after each stage.                                      *)
AfterPytest ==
  LET parsed == Parse(ending.counts)
  IN  [results EXCEPT !.run = parsed.run, !.ok = parsed.ok, !.failed = parsed.failed,
                      !.passed = Succeeded /\ parsed.failed = 0]

ToolFails == ReturnCode # 0 /\ ~ending.missing

AfterRuff ==
  [results EXCEPT !.lint = ~ToolFails, !.passed = @ /\ ~ToolFails]

AfterMypy ==
  [results EXCEPT !.types = ~ToolFails, !.passed = @ /\ ~ToolFails]

EndedWell(stage) ==
  IF stage = "pytest"
  THEN /\ ending.code = 0 /\ ending.counts.passed > 0 /\ ~TimedOut
  ELSE ending.code = 0 \/ ending.missing

StageOver ==
  /\ at \in TestStages
  /\ Collect
  /\ green' = [green EXCEPT ![at] = EndedWell(at)]
  /\ CASE at = "pytest" -> results' = AfterPytest /\ at' = "ruff" /\ outcome' = outcome
       [] at = "ruff" -> results' = AfterRuff /\ at' = "mypy" /\ outcome' = outcome
       [] at = "mypy" -> results' = AfterMypy /\ Ends("done")
  /\ UNCHANGED <<work, attempt, nodes, calls>>

(* _run_cmd: whatever the command's return code, the tool answers.         *)
CommandOver ==
  /\ at = "command"
  /\ Collect
  /\ Ends("done")
  /\ UNCHANGED <<work, attempt, results, green, nodes, calls>>

(* A slip: the timeout raises, as it does with Docker, and kills nothing.  *)
LocalTimeoutRaises ==
  /\ at \in Stages
  /\ backend = "local" /\ wait = "output" /\ (running \/ held)
  /\ wait' = "nothing"
  /\ Raise
  /\ UNCHANGED <<backend, running, ending, held, loose, containers,
                 work, results, green, nodes, calls>>

LocalTimeout == at \in Stages /\ KillChild /\ UNCHANGED workVars

DockerTimeout ==
  /\ at \in Stages
  /\ AbandonContainer
  /\ Raise
  /\ UNCHANGED <<work, results, green, nodes, calls>>

Outside ==
  /\ \/ ProcessEnds \/ ChildLeavesPipesOpen \/ PipesClose
     \/ ChildLetsGoOfPipes \/ LooseEnds \/ ContainerEnds
  /\ UNCHANGED workVars

(* The job has nothing left to do, and nothing of it is left.              *)
Rest ==
  /\ at = "idle" /\ nodes + calls = MaxWork /\ ~loose /\ containers = 0
  /\ UNCHANGED vars
-----------------------------------------------------------------------------
Proceeds ==
  \/ HandlerReturns
  \/ \E found \in BOOLEAN : Discover(found)
  \/ RunCommand \/ CannotRun \/ StageOver \/ CommandOver
  \/ LocalTimeout \/ DockerTimeout

Next ==
  \/ StartTesterNode
  \/ \E agent \in Agents, tool \in AskedTools, client, execution \in BOOLEAN :
       \E argument \in ArgumentsOf(tool) :
         CallTool(agent, tool, argument, Registered(client, execution))
  \/ Proceeds
  \/ Outside \/ Rest

Spec == Init /\ [][Next]_vars

(* The event loop runs what is ready, its timers fire, and a read of a     *)
(* file or an HTTP request ends.  No command need ever end.                *)
FairSpec == Spec /\ WF_vars(Proceeds)
-----------------------------------------------------------------------------
(* The tester has reported.                                                *)
Reported == outcome = "done" /\ (work.kind = "node" \/ work.tool = "run_tests")
AllGreen == \A stage \in TestStages : green[stage]

(* Work reported as passed is green: pytest ended by itself, in time, with *)
(* something that passed and nothing that failed, and ruff and mypy are    *)
(* content or not installed.  Nothing that came before counts: not an      *)
(* earlier attempt, not the stage the work was called for                  *)
(* (agents/tester.py run, execution/sandbox.py succeeded).                 *)
PassedMeansGreen == Reported /\ results.passed => AllGreen

(* In the local sandbox green work is reported as passed                   *)
(* (agents/tester.py run, execution/local.py run).                         *)
LocalGreenPasses == backend = "local" /\ Reported /\ AllGreen => results.passed

(* In every sandbox green work is reported as passed: "Run a command       *)
(* inside the sandbox and return its result" (execution/sandbox.py:56).    *)
GreenPassesAnywhere == Reported /\ AllGreen => results.passed

(* The local sandbox answers when the output is complete: while nobody     *)
(* waits for a command, between two stages of the tester as after the      *)
(* last, its process is over and nobody is left who could write to the     *)
(* output that was read.  What let go of the pipes may run on, beside the  *)
(* next stage and after the answer (execution/local.py run).               *)
AnswersAreFinal ==
  backend = "local" /\ (wait = "nothing" \/ at = "idle") => ~running /\ ~held

(* The containers that timeouts have left running: at most one for every   *)
(* attempt of a tester node and for every call of a tool, since the first  *)
(* timeout ends the attempt (execution/docker.py:74, graph.py:32).         *)
ContainersBounded == containers <= MaxAttempts * nodes + calls

(* Whoever the agent, whatever the registry holds: a command runs or has   *)
(* run for a call only if the harness grants tests.execute, and no tool    *)
(* that writes to GitHub is ever served (mcp/registry.py call,             *)
(* harness/permissions.py mcp_permissions_from).                           *)
NothingBeyondGrants ==
  work.kind = "call" /\ (running \/ outcome = "done") =>
    /\ work.tool \in ExecutionTools => "tests.execute" \in Granted(work.agent)
    /\ work.tool \notin GitHubWrites

(* Every piece of work ends, unless, in the local sandbox, something the   *)
(* killed child started keeps its pipes open: the second communicate() has *)
(* no timeout (execution/local.py:69).                                     *)
WorkEnds == (at # "idle") ~> (at = "idle" \/ (wait = "rest" /\ held))
=============================================================================
