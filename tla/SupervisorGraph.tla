--------------------------- MODULE SupervisorGraph ---------------------------
(***************************************************************************)
(* The LangGraph supervisor of orchestration/graph.py, its node functions  *)
(* (orchestration/nodes.py) and the LangGraphWorkflow that drives them     *)
(* (orchestration/workflow.py), for one task.                              *)
(*                                                                         *)
(* One action per node; the node's routing function picks the next node.   *)
(* What the LLM agents, the sandbox and GitHub answer is any value of a    *)
(* small set.  A node may raise at any point: LangGraph then retries it    *)
(* with the effects it already had on the workspace or on the task row     *)
(* left in place, or the exception escapes and the workflow fails the      *)
(* task.  A node may also wait for ever, because some awaits have no limit.*)
(* The checkpoint saver outlives the process here (the saver that   *)
(* LangGraphWorkflow takes as a parameter); invocations of one thread do   *)
(* not overlap.                                                            *)
(***************************************************************************)
EXTENDS Naturals

CONSTANTS
  MaxFix,          \* settings.max_fix_iterations
  MaxWorkflow,     \* settings.max_workflow_iterations
  MaxFeedback,     \* settings.max_feedback_iterations
  MaxAttempts,     \* RetryPolicy.max_attempts
  RecursionLimit   \* LangGraph's supersteps per invocation

ASSUME LimitsAreNaturals ==
  /\ MaxFix \in Nat /\ MaxWorkflow \in Nat /\ MaxFeedback \in Nat
  /\ MaxAttempts \in Nat \ {0}
  /\ RecursionLimit \in Nat \ {0}

VARIABLES
  run,         \* the invocation: "working", "hung" in an await without limit,
               \* or how the last one ended
  node,        \* the node the next superstep executes
  attempt,     \* attempt number of that node
  steps,       \* supersteps of this invocation
  answer,      \* a human's answer is pending for interrupt()
  ambiguous,   \* requirements.is_ambiguous
  tests,       \* test_results.passed
  judge,       \* judge_results.ready
  fixSteps,    \* len(fix_analysis_steps)
  analyses,    \* kinds of the feedback_analyses accumulated so far
  prCycles,    \* pr_cycles
  pr,          \* the pr channel: "none" or "open"
  status,      \* the status channel of the graph
  taskStatus   \* the status column of the task row

(* History, read by properties only.                                       *)
VARIABLES
  stage,       \* what the code now in the workspace has been through
  judgeLoops   \* times the judge sent the work back to the coder

graphVars == <<ambiguous, tests, judge, fixSteps, analyses, prCycles, pr, status>>
history == <<stage, judgeLoops>>
control == <<run, node, attempt, steps, answer>>
vars == <<control, graphVars, taskStatus, history>>

Nodes == {"repository", "requirements", "needs_clarification", "planner",
          "coder", "tester", "failure_analyzer", "security", "reviewer",
          "judge", "delivery", "feedback", "finalize", "failed"}
Stages == {"tested", "scanned", "reviewed", "judged", "delivered"}
Verdicts == Stages \ {"delivered"}

(* A feedback analysis either asks for re-planning (requires_replanning    *)
(* and actionable) or it does not.                                         *)
FeedbackKinds == {"replan", "other"}

Runs == {"working", "hung", "waiting", "completed", "failed", "crashed"}
Statuses == {"running", "paused", "completed", "failed"}   \* of the task row

Saturate(n, cap) == IF n < cap THEN n + 1 ELSE n
-----------------------------------------------------------------------------
(* Routing functions.                                                      *)

RouteAfterRequirements(isAmbiguous) ==
  IF isAmbiguous THEN "needs_clarification" ELSE "planner"

(* Slips in the router: one analysis too many; going on with red tests     *)
(* once the analyses are used up.                                          *)
TesterRouteOneMore(results, fixes) ==
  IF results \in {"none", "passed"} THEN "security"
  ELSE IF fixes <= MaxFix THEN "failure_analyzer" ELSE "failed"

TesterRouteGoesOn(results, fixes) ==
  IF results = "failed" /\ fixes < MaxFix THEN "failure_analyzer" ELSE "security"

RouteAfterTester(results, fixes) ==
  IF results \in {"none", "passed"} THEN "security"
  ELSE IF fixes < MaxFix THEN "failure_analyzer" ELSE "failed"

(* A slip: the limit of the other loop.                                    *)
SuperviseWrongLimit(verdict, fixes) ==
  IF verdict = "ready" THEN "delivery"
  ELSE IF fixes < MaxFix THEN "coder" ELSE "delivery"

Supervise(verdict, fixes) ==
  IF verdict = "ready" THEN "delivery"
  ELSE IF fixes < MaxWorkflow THEN "coder" ELSE "delivery"

(* A slip: the budget is compared before the cycle is counted.             *)
FeedbackRouteOneMore(kinds, cycles) ==
  IF "replan" \in kinds /\ cycles <= MaxFeedback + 1 THEN "repository"
  ELSE "finalize"

RouteAfterFeedback(kinds, cycles) ==
  IF "replan" \in kinds /\ cycles <= MaxFeedback THEN "repository"
  ELSE "finalize"
-----------------------------------------------------------------------------
(* LangGraphWorkflow.run has been called on a task TaskService.run has     *)
(* marked RUNNING.                                                         *)
Init ==
  /\ run = "working" /\ node = "repository" /\ attempt = 1 /\ steps = 0
  /\ answer = FALSE
  /\ ambiguous = FALSE /\ tests = "none" /\ judge = "none" /\ fixSteps = 0
  /\ analyses = {} /\ prCycles = 0 /\ pr = "none"
  /\ status = "running" /\ taskStatus = "running"
  /\ stage = {} /\ judgeLoops = 0

(* The superstep that executes node n ...                                  *)
Executes(n) == run = "working" /\ node = n /\ steps < RecursionLimit

(* A slip: supersteps that are not counted.                                *)
GotoUncounted(n) ==
  /\ node' = n /\ attempt' = 1 /\ answer' = FALSE
  /\ UNCHANGED <<run, steps>>

(* ... ends with a checkpoint that names the next node.                    *)
Goto(n) ==
  /\ node' = n /\ attempt' = 1 /\ steps' = steps + 1 /\ answer' = FALSE
  /\ UNCHANGED run

(* Clone, analyse and index the repository.                                *)
RepositoryNode ==
  /\ Executes("repository") /\ Goto("requirements")
  /\ UNCHANGED <<graphVars, taskStatus, history>>

RequirementsNode ==
  /\ Executes("requirements")
  /\ ambiguous' \in BOOLEAN
  /\ Goto(RouteAfterRequirements(ambiguous'))
  /\ UNCHANGED <<tests, judge, fixSteps, analyses, prCycles, pr, status,
                 taskStatus, history>>

(* The node pauses the task before it asks; without an answer interrupt()  *)
(* ends the invocation, and _sync writes PAUSED once more.                 *)
AskHuman ==
  /\ Executes("needs_clarification") /\ ~answer
  /\ run' = "waiting" /\ taskStatus' = "paused"
  /\ UNCHANGED <<node, attempt, steps, answer, graphVars, history>>

(* Resumed with an answer the node runs again from its first line, the     *)
(* pause included, and interrupt() returns the answer.                     *)
TakeAnswer ==
  /\ Executes("needs_clarification") /\ answer
  /\ taskStatus' = "paused" /\ status' = "running"
  /\ Goto("planner")
  /\ UNCHANGED <<ambiguous, tests, judge, fixSteps, analyses, prCycles, pr,
                 history>>

PlannerNode ==
  /\ Executes("planner") /\ Goto("coder")
  /\ UNCHANGED <<graphVars, taskStatus, history>>

(* The coder writes files: no verdict is about this code yet.              *)
CoderNode ==
  /\ Executes("coder") /\ Goto("tester")
  /\ stage' = {}
  /\ UNCHANGED <<graphVars, taskStatus, judgeLoops>>

TesterNode ==
  /\ Executes("tester")
  /\ tests' \in {"passed", "failed"}
  /\ Goto(RouteAfterTester(tests', fixSteps))
  /\ stage' = stage \union {"tested"}
  /\ UNCHANGED <<ambiguous, judge, fixSteps, analyses, prCycles, pr, status,
                 taskStatus, judgeLoops>>

FailureAnalyzerNode ==
  /\ Executes("failure_analyzer") /\ Goto("coder")
  /\ fixSteps' = fixSteps + 1
  /\ UNCHANGED <<ambiguous, tests, judge, analyses, prCycles, pr, status,
                 taskStatus, history>>

SecurityNode ==
  /\ Executes("security") /\ Goto("reviewer")
  /\ stage' = stage \union {"scanned"}
  /\ UNCHANGED <<graphVars, taskStatus, judgeLoops>>

ReviewerNode ==
  /\ Executes("reviewer") /\ Goto("judge")
  /\ stage' = stage \union {"reviewed"}
  /\ UNCHANGED <<graphVars, taskStatus, judgeLoops>>

JudgeNode ==
  /\ Executes("judge")
  /\ judge' \in {"ready", "not_ready"}
  /\ Goto(Supervise(judge', fixSteps))
  /\ stage' = stage \union {"judged"}
  /\ judgeLoops' = IF node' = "coder" THEN Saturate(judgeLoops, MaxWorkflow + 1)
                   ELSE judgeLoops
  /\ UNCHANGED <<ambiguous, tests, fixSteps, analyses, prCycles, pr, status,
                 taskStatus>>

(* A delivery the harness reports as failed does not fail the task: the pr *)
(* channel is reset and the graph goes on.                                 *)
DeliveryNode ==
  /\ Executes("delivery") /\ Goto("feedback")
  /\ pr' \in {"none", "open"}
  /\ stage' = stage \union {"delivered"}
  /\ UNCHANGED <<ambiguous, tests, judge, fixSteps, analyses, prCycles, status,
                 taskStatus, judgeLoops>>

(* No PR, no comments, or GitHub could not be asked: nothing is learnt and *)
(* no cycle is counted.  Otherwise the analyses are ADDED to the old ones. *)
PollsPR(found) ==
  /\ analyses' = analyses \union found
  /\ prCycles' = IF found = {} THEN prCycles ELSE prCycles + 1

FeedbackNode ==
  /\ Executes("feedback")
  /\ \E found \in SUBSET FeedbackKinds :
       /\ pr = "none" => found = {}
       /\ PollsPR(found)
  /\ Goto(RouteAfterFeedback(analyses', prCycles'))
  /\ UNCHANGED <<ambiguous, tests, judge, fixSteps, pr, status, taskStatus,
                 stage, judgeLoops>>

FinalizeNode ==
  /\ Executes("finalize") /\ Goto("END")
  /\ status' = "completed" /\ taskStatus' = "completed"
  /\ UNCHANGED <<ambiguous, tests, judge, fixSteps, analyses, prCycles, pr,
                 history>>

(* A slip: the body of finalize_node copied to failed_node.                *)
FailedNodeCompletes ==
  /\ Executes("failed") /\ Goto("END")
  /\ status' = "failed" /\ taskStatus' = "completed"
  /\ UNCHANGED <<ambiguous, tests, judge, fixSteps, analyses, prCycles, pr,
                 history>>

FailedNode ==
  /\ Executes("failed") /\ Goto("END")
  /\ status' = "failed" /\ taskStatus' = "failed"
  /\ UNCHANGED <<ambiguous, tests, judge, fixSteps, analyses, prCycles, pr,
                 history>>
-----------------------------------------------------------------------------
(* Exceptions, the superstep limit, the end of an invocation, crashes.     *)

(* What a node did to the task row before it was cut short ...             *)
StatusWritten ==
  \/ UNCHANGED taskStatus
  \/ node = "needs_clarification" /\ taskStatus' = "paused"
  \/ node = "finalize" /\ taskStatus' = "completed"
  \/ node = "failed" /\ taskStatus' = "failed"

(* ... and to the workspace; its channel updates are dropped.              *)
CutShort ==
  /\ \/ UNCHANGED stage
     \/ node = "coder" /\ stage' = {}
  /\ UNCHANGED <<graphVars, judgeLoops>>

(* A slip: one attempt too many.                                           *)
RetryNodeOneMore ==
  /\ node \in Nodes /\ Executes(node)
  /\ attempt <= MaxAttempts /\ attempt' = attempt + 1
  /\ StatusWritten /\ CutShort
  /\ UNCHANGED <<run, node, steps, answer>>

(* An exception the retry policy accepts: the node starts over.            *)
RetryNode ==
  /\ node \in Nodes /\ Executes(node)
  /\ attempt < MaxAttempts /\ attempt' = attempt + 1
  /\ StatusWritten
  /\ CutShort
  /\ UNCHANGED <<run, node, steps, answer>>

(* An exception that is permanent, or the last attempt's: the workflow     *)
(* catches it and fails the task; the checkpoint still names the node.     *)
NodeRaises ==
  /\ node \in Nodes /\ Executes(node)
  /\ run' = "failed" /\ taskStatus' = "failed"
  /\ CutShort
  /\ UNCHANGED <<node, attempt, steps, answer>>

(* GraphRecursionError.                                                    *)
OutOfSteps ==
  /\ run = "working" /\ node \in Nodes /\ steps = RecursionLimit
  /\ run' = "failed" /\ taskStatus' = "failed"
  /\ UNCHANGED <<node, attempt, steps, answer, graphVars, history>>

(* A slip: a graph that ended is taken for one that completed.             *)
SyncAssumesSuccess ==
  /\ run = "working" /\ node = "END"
  /\ run' = "completed" /\ taskStatus' = "completed"
  /\ UNCHANGED <<node, attempt, steps, answer, graphVars, history>>

(* _sync mirrors the status channel of a graph that ended.                 *)
Sync ==
  /\ run = "working" /\ node = "END"
  /\ run' = status /\ taskStatus' = status
  /\ UNCHANGED <<node, attempt, steps, answer, graphVars, history>>

(* git clone, a sandboxed command whose child keeps its pipes, and the     *)
(* emit on a full subscriber queue that every node makes have no limit:    *)
(* the node never returns.                                                 *)
Hangs ==
  /\ node \in Nodes /\ Executes(node)
  /\ run' = "hung"
  /\ StatusWritten
  /\ CutShort
  /\ UNCHANGED <<node, attempt, steps, answer>>

(* The process dies, perhaps in the middle of a node.                      *)
Crash ==
  /\ run \in {"working", "hung"}
  /\ run' = "crashed"
  /\ StatusWritten
  /\ CutShort
  /\ UNCHANGED <<node, attempt, steps, answer>>

(* POST /resume, which looks at no status: mark_started, then the graph    *)
(* goes on from its checkpoint with a fresh budget of supersteps.          *)
Resume(answered) ==
  /\ run \notin {"working", "hung"}
  /\ run' = "working" /\ attempt' = 1 /\ steps' = 0
  /\ answer' = (answer \/ answered)
  /\ taskStatus' = "running"
  /\ UNCHANGED <<node, graphVars, history>>

ExecuteNode ==
  \/ RepositoryNode \/ RequirementsNode \/ AskHuman \/ TakeAnswer
  \/ PlannerNode \/ CoderNode \/ TesterNode \/ FailureAnalyzerNode
  \/ SecurityNode \/ ReviewerNode \/ JudgeNode \/ DeliveryNode
  \/ FeedbackNode \/ FinalizeNode \/ FailedNode

Progress == ExecuteNode \/ RetryNode \/ NodeRaises \/ OutOfSteps \/ Sync

Next ==
  Progress \/ Hangs \/ Crash \/ \E answered \in BOOLEAN : Resume(answered)

Spec == Init /\ [][Next]_vars

(* The event loop keeps running the invocation: a node that is not stuck   *)
(* for good (Hangs, which has no fairness) ends in a result or an          *)
(* exception.  Nothing makes a human resume a task.                        *)
FairSpec == Spec /\ WF_vars(Progress)
-----------------------------------------------------------------------------
ControlTypes ==
  /\ run \in Runs
  /\ node \in Nodes \union {"END"}
  /\ attempt \in 1..MaxAttempts
  /\ steps \in 0..RecursionLimit
  /\ answer \in BOOLEAN

ChannelTypes ==
  /\ ambiguous \in BOOLEAN
  /\ tests \in {"none", "passed", "failed"}
  /\ judge \in {"none", "ready", "not_ready"}
  /\ fixSteps \in Nat
  /\ analyses \subseteq FeedbackKinds
  /\ prCycles \in Nat
  /\ pr \in {"none", "open"}
  /\ status \in {"running", "completed", "failed"}

HistoryTypes ==
  /\ stage \subseteq Stages
  /\ judgeLoops \in 0..(MaxWorkflow + 1)

TypeOK ==
  ControlTypes /\ ChannelTypes /\ taskStatus \in Statuses /\ HistoryTypes

(* The code in the workspace has been tested, scanned, reviewed and judged *)
(* as it stands, its tests passed and the judge called it ready.           *)
Accepted == Verdicts \subseteq stage /\ tests = "passed" /\ judge = "ready"

(* What enters delivery, and what has been delivered and not rewritten     *)
(* since, is code that every gate accepted after its last rewrite: no      *)
(* retry, crash, resume, fix loop or re-planning cycle lets a verdict on   *)
(* older code through (graph.py supervise, route_after_tester).            *)
DeliveryVerified ==
  node = "delivery" \/ "delivered" \in stage => Accepted

(* The agents downstream of the tester read channels that are never reset: *)
(* when the reviewer and the judge read test_results and security_results  *)
(* these are about the code the coder wrote last.                          *)
VerdictsCurrent ==
  /\ node = "reviewer" => {"tested", "scanned"} \subseteq stage /\ tests = "passed"
  /\ node = "judge" =>
       {"tested", "scanned", "reviewed"} \subseteq stage /\ tests = "passed"

(* The fix loop: never more than MaxFix analyses over the whole life of    *)
(* the task, and the task is given up only once they are used up           *)
(* (graph.py route_after_tester, section 20).                              *)
FixBudget ==
  /\ fixSteps <= MaxFix
  /\ node = "failed" => fixSteps = MaxFix /\ tests = "failed"

(* The PR is read for actionable feedback at most MaxFeedback + 1 times,   *)
(* and only a cycle within the budget re-plans (route_after_feedback).     *)
FeedbackBudget ==
  /\ prCycles <= MaxFeedback + 1
  /\ node # "finalize" /\ node # "END" => prCycles <= MaxFeedback

(* A task row that says COMPLETED belongs to code that was accepted and    *)
(* delivered, also while finalize is retried, after a crash in it and      *)
(* while a resumed task is being finished.                                 *)
CompletedMeansDelivered ==
  taskStatus = "completed" => Accepted /\ "delivered" \in stage

(* No invocation goes round the graph's loops for ever: it completes,      *)
(* fails, waits for a human, dies, or is stuck in one await of one node    *)
(* (graph.py:110-132, the superstep limit and RetryPolicy).                *)
LoopsEnd == run = "working" ~> run # "working"
-----------------------------------------------------------------------------
(* A statement of the documentation the code does not keep.                *)

(* graph.py:102-104: when the judge does not call the work ready it loops  *)
(* back to the coder "(up to max_workflow_iterations)".                    *)
JudgeLoopBounded == judgeLoops <= MaxWorkflow
-----------------------------------------------------------------------------
(* The graph implements WorkflowRun; a run that hangs looks like one at    *)
(* work.                                                                   *)

CodeState ==
  IF "delivered" \in stage THEN "delivered"
  ELSE IF Accepted THEN "accepted" ELSE "draft"

Phase == IF run = "hung" THEN "working" ELSE run

Promise == INSTANCE WorkflowRun WITH phase <- Phase, code <- CodeState
PromiseSpec == Promise!Spec
=============================================================================
