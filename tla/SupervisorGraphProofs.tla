------------------------ MODULE SupervisorGraphProofs ------------------------
(***************************************************************************)
(* Safety of SupervisorGraph for every value of its limits.                *)
(*                                                                         *)
(* None of the safety properties is inductive: a step from "judge" to      *)
(* "delivery" is right only because of what the channels hold when the     *)
(* judge runs.  IInv says, node by node, what the code in the workspace    *)
(* has been through and what the counters can be; it is preserved by every *)
(* action, the retries, crashes and resumptions included.                  *)
(***************************************************************************)
EXTENDS SupervisorGraph, TLAPS

(* Both loop counters, at the nodes whose routers read them.               *)
CountersInv ==
  /\ fixSteps <= MaxFix
  /\ node = "failure_analyzer" => fixSteps < MaxFix
  /\ node = "failed" => fixSteps = MaxFix /\ tests = "failed"
  /\ prCycles <= MaxFeedback + 1
  /\ node # "finalize" /\ node # "END" => prCycles <= MaxFeedback

(* What the code has been through before each of the gates.                *)
GatesInv ==
  /\ node \in {"security", "reviewer", "judge"} =>
       "tested" \in stage /\ tests = "passed"
  /\ node \in {"reviewer", "judge"} => "scanned" \in stage
  /\ node = "judge" => "reviewed" \in stage
  /\ node = "delivery" => Accepted

(* Delivered code stays accepted code: nothing that changes a verdict runs *)
(* until the coder has turned it into a draft again.                       *)
DeliveredInv ==
  /\ "delivered" \in stage => Accepted
  /\ node \in {"tester", "failure_analyzer", "failed", "security", "reviewer",
               "judge"} => "delivered" \notin stage
  /\ node \in {"feedback", "finalize"} => "delivered" \in stage
  /\ node = "END" /\ status = "completed" => "delivered" \in stage

(* The status channel and the task row.                                    *)
StatusInv ==
  /\ node # "END" <=> status = "running"
  /\ taskStatus = "completed" =>
       node = "finalize" \/ (node = "END" /\ status = "completed")

(* Inductive whatever the limits are.                                      *)
BaseInv == TypeOK /\ StatusInv /\ CountersInv

(* Inductive when the fix budget is below the judge's.                     *)
IInv == BaseInv /\ GatesInv /\ DeliveredInv

(* settings.py:70-71 sets 5 and 10; nothing in the code enforces the order, *)
(* and without it supervise delivers work the judge rejected.              *)
FixBelowWorkflow == MaxFix < MaxWorkflow
-----------------------------------------------------------------------------
(* The sets of names, unfolded once.                                       *)
LEMMA Names ==
  /\ "repository" \in Nodes /\ "requirements" \in Nodes
  /\ "needs_clarification" \in Nodes /\ "planner" \in Nodes
  /\ "coder" \in Nodes /\ "tester" \in Nodes /\ "failure_analyzer" \in Nodes
  /\ "security" \in Nodes /\ "reviewer" \in Nodes /\ "judge" \in Nodes
  /\ "delivery" \in Nodes /\ "feedback" \in Nodes /\ "finalize" \in Nodes
  /\ "failed" \in Nodes /\ "END" \notin Nodes
  /\ Runs = {"working", "hung", "waiting", "completed", "failed", "crashed"}
  /\ {"running", "paused", "completed", "failed"} \subseteq Statuses
  BY DEF Nodes, Runs, Statuses

(* Every routing function names a node of the graph, and never "END".      *)
LEMMA RoutesToNodes ==
  /\ \A b : RouteAfterRequirements(b) \in Nodes
  /\ \A r, f : RouteAfterTester(r, f) \in Nodes
  /\ \A v, f : Supervise(v, f) \in Nodes
  /\ \A k, c : RouteAfterFeedback(k, c) \in Nodes
  BY Names
  DEF RouteAfterRequirements, RouteAfterTester, Supervise, RouteAfterFeedback

(* A completed superstep keeps the control state well typed.               *)
LEMMA SuperstepTypes ==
  ASSUME ControlTypes, NEW m, Executes(m),
         NEW n \in Nodes \union {"END"}, Goto(n)
  PROVE  ControlTypes'
<1> USE LimitsAreNaturals DEF ControlTypes, Executes, Goto
<1>1. (node \in Nodes \union {"END"})' OBVIOUS
<1>2. (run \in Runs)' OBVIOUS
<1>3. (attempt \in 1..MaxAttempts)' OBVIOUS
<1>4. (steps \in 0..RecursionLimit)' OBVIOUS
<1>5. (answer \in BOOLEAN)' OBVIOUS
<1> QED BY <1>1, <1>2, <1>3, <1>4, <1>5

LEMMA SaturateBounded ==
  ASSUME NEW cap \in Nat, NEW k \in 0..cap
  PROVE  Saturate(k, cap) \in 0..cap
  BY DEF Saturate
-----------------------------------------------------------------------------
(* Type correctness.  StatusInv is what makes Sync, which turns the status *)
(* channel into the way the run ended, well typed.                         *)
TypeInv == TypeOK /\ StatusInv

LEMMA TypeInit == Init => TypeInv
<1> SUFFICES ASSUME Init PROVE TypeInv
  OBVIOUS
<1> USE LimitsAreNaturals, Names DEF Init
<1>1. ControlTypes
  <2>1. attempt \in 1..MaxAttempts OBVIOUS
  <2>2. steps \in 0..RecursionLimit OBVIOUS
  <2> QED BY <2>1, <2>2 DEF ControlTypes
<1>2. ChannelTypes BY DEF ChannelTypes
<1>3. HistoryTypes BY DEF HistoryTypes
<1>4. StatusInv BY DEF StatusInv
<1> QED BY <1>1, <1>2, <1>3, <1>4 DEF TypeInv, TypeOK

LEMMA TypeStep == TypeInv /\ [Next]_vars => TypeOK'
<1> SUFFICES ASSUME TypeInv, [Next]_vars PROVE TypeOK'
  OBVIOUS
<1> USE LimitsAreNaturals, Names DEF TypeInv, TypeOK
<1>1. CASE ExecuteNode
  <2> USE SuperstepTypes, RoutesToNodes DEF graphVars, history
  <2>1. CASE RepositoryNode
    BY <2>1 DEF RepositoryNode, ChannelTypes, HistoryTypes
  <2>2. CASE RequirementsNode
    BY <2>2 DEF RequirementsNode, ChannelTypes, HistoryTypes
  <2>3. CASE AskHuman
    BY <2>3 DEF AskHuman, ControlTypes, ChannelTypes, HistoryTypes
  <2>4. CASE TakeAnswer
    BY <2>4 DEF TakeAnswer, ChannelTypes, HistoryTypes
  <2>5. CASE PlannerNode
    BY <2>5 DEF PlannerNode, ChannelTypes, HistoryTypes
  <2>6. CASE CoderNode
    BY <2>6 DEF CoderNode, ChannelTypes, HistoryTypes
  <2>7. CASE TesterNode
    BY <2>7 DEF TesterNode, ChannelTypes, HistoryTypes, Stages
  <2>8. CASE FailureAnalyzerNode
    BY <2>8 DEF FailureAnalyzerNode, ChannelTypes, HistoryTypes
  <2>9. CASE SecurityNode
    BY <2>9 DEF SecurityNode, ChannelTypes, HistoryTypes, Stages
  <2>10. CASE ReviewerNode
    BY <2>10 DEF ReviewerNode, ChannelTypes, HistoryTypes, Stages
  <2>11. CASE JudgeNode
    <3>1. ControlTypes'
      BY <2>11 DEF JudgeNode
    <3>2. ChannelTypes'
      BY <2>11 DEF JudgeNode, ChannelTypes
    <3>3. (judgeLoops \in 0..(MaxWorkflow + 1))'
      BY <2>11, SaturateBounded DEF JudgeNode, HistoryTypes
    <3> QED
      BY <2>11, <3>1, <3>2, <3>3 DEF JudgeNode, HistoryTypes, Stages
  <2>12. CASE DeliveryNode
    BY <2>12 DEF DeliveryNode, ChannelTypes, HistoryTypes, Stages
  <2>13. CASE FeedbackNode
    <3>1. ControlTypes'
      BY <2>13 DEF FeedbackNode
    <3>2. ChannelTypes'
      BY <2>13 DEF FeedbackNode, PollsPR, ChannelTypes
    <3> QED
      BY <2>13, <3>1, <3>2 DEF FeedbackNode, PollsPR, HistoryTypes
  <2>14. CASE FinalizeNode
    BY <2>14 DEF FinalizeNode, ChannelTypes, HistoryTypes
  <2>15. CASE FailedNode
    BY <2>15 DEF FailedNode, ChannelTypes, HistoryTypes
  <2> QED
    BY <1>1, <2>1, <2>2, <2>3, <2>4, <2>5, <2>6, <2>7, <2>8, <2>9, <2>10,
       <2>11, <2>12, <2>13, <2>14, <2>15 DEF ExecuteNode
<1>2. CASE RetryNode
  <2>1. ControlTypes'
    BY <1>2 DEF RetryNode, Executes, ControlTypes
  <2> QED
    BY <1>2, <2>1
    DEF RetryNode, CutShort, StatusWritten, graphVars, ChannelTypes, HistoryTypes
<1>3. CASE NodeRaises
  BY <1>3 DEF NodeRaises, CutShort, graphVars, ControlTypes, ChannelTypes,
              HistoryTypes
<1>4. CASE OutOfSteps
  BY <1>4 DEF OutOfSteps, graphVars, history, ControlTypes, ChannelTypes,
              HistoryTypes
<1>5. CASE Sync
  <2>1. status \in {"completed", "failed"}
    BY <1>5 DEF Sync, ChannelTypes, StatusInv
  <2> QED
    BY <1>5, <2>1 DEF Sync, graphVars, history, ControlTypes, ChannelTypes,
                      HistoryTypes
<1>6. CASE Crash
  BY <1>6 DEF Crash, CutShort, StatusWritten, graphVars, ControlTypes,
              ChannelTypes, HistoryTypes
<1>7. CASE \E answered \in BOOLEAN : Resume(answered)
  BY <1>7 DEF Resume, graphVars, history, ControlTypes, ChannelTypes,
              HistoryTypes
<1>8. CASE Hangs
  BY <1>8 DEF Hangs, CutShort, StatusWritten, graphVars, ControlTypes,
              ChannelTypes, HistoryTypes
<1>9. CASE UNCHANGED vars
  BY <1>9 DEF vars, control, graphVars, history, ControlTypes, ChannelTypes,
              HistoryTypes
<1> QED
  BY <1>1, <1>2, <1>3, <1>4, <1>5, <1>6, <1>7, <1>8, <1>9 DEF Next, Progress

LEMMA StatusStep == TypeInv /\ [Next]_vars => StatusInv'
<1> SUFFICES ASSUME TypeInv, [Next]_vars PROVE StatusInv'
  OBVIOUS
<1> USE Names DEF TypeInv, StatusInv
<1>1. CASE ExecuteNode
  <2> USE RoutesToNodes DEF Executes, Goto, graphVars
  <2>1. CASE RepositoryNode BY <2>1 DEF RepositoryNode
  <2>2. CASE RequirementsNode BY <2>2 DEF RequirementsNode
  <2>3. CASE AskHuman BY <2>3 DEF AskHuman
  <2>4. CASE TakeAnswer BY <2>4 DEF TakeAnswer
  <2>5. CASE PlannerNode BY <2>5 DEF PlannerNode
  <2>6. CASE CoderNode BY <2>6 DEF CoderNode
  <2>7. CASE TesterNode BY <2>7 DEF TesterNode
  <2>8. CASE FailureAnalyzerNode BY <2>8 DEF FailureAnalyzerNode
  <2>9. CASE SecurityNode BY <2>9 DEF SecurityNode
  <2>10. CASE ReviewerNode BY <2>10 DEF ReviewerNode
  <2>11. CASE JudgeNode BY <2>11 DEF JudgeNode
  <2>12. CASE DeliveryNode BY <2>12 DEF DeliveryNode
  <2>13. CASE FeedbackNode BY <2>13 DEF FeedbackNode
  <2>14. CASE FinalizeNode BY <2>14 DEF FinalizeNode
  <2>15. CASE FailedNode BY <2>15 DEF FailedNode
  <2> QED
    BY <1>1, <2>1, <2>2, <2>3, <2>4, <2>5, <2>6, <2>7, <2>8, <2>9, <2>10,
       <2>11, <2>12, <2>13, <2>14, <2>15 DEF ExecuteNode
<1>2. CASE RetryNode
  BY <1>2 DEF RetryNode, CutShort, StatusWritten, graphVars
<1>3. CASE NodeRaises BY <1>3 DEF NodeRaises, CutShort, graphVars
<1>4. CASE OutOfSteps BY <1>4 DEF OutOfSteps, graphVars
<1>5. CASE Sync BY <1>5 DEF Sync, graphVars
<1>6. CASE Crash BY <1>6 DEF Crash, CutShort, StatusWritten, graphVars
<1>7. CASE \E answered \in BOOLEAN : Resume(answered)
  BY <1>7 DEF Resume, graphVars
<1>8. CASE Hangs BY <1>8 DEF Hangs, CutShort, StatusWritten, graphVars
<1>9. CASE UNCHANGED vars BY <1>9 DEF vars, control, graphVars
<1> QED
  BY <1>1, <1>2, <1>3, <1>4, <1>5, <1>6, <1>7, <1>8, <1>9 DEF Next, Progress

(* The types of SupervisorGraph, for every value of its limits.            *)
THEOREM TypeCorrect == Spec => []TypeOK
<1>1. TypeInv /\ [Next]_vars => TypeInv'
  BY TypeStep, StatusStep DEF TypeInv
<1>2. TypeInv => TypeOK
  BY DEF TypeInv
<1> QED
  BY TypeInit, <1>1, <1>2, PTL DEF Spec
-----------------------------------------------------------------------------
(* The loop counters.  Only the analyzer adds to fixSteps and only         *)
(* feedback to prCycles, and the routers let neither run with its budget   *)
(* used up.                                                                *)
LEMMA CountersStep == TypeInv /\ CountersInv /\ [Next]_vars => CountersInv'
<1> SUFFICES ASSUME TypeInv, CountersInv, [Next]_vars PROVE CountersInv'
  OBVIOUS
<1>0. /\ fixSteps \in Nat /\ prCycles \in Nat
      /\ tests \in {"none", "passed", "failed"}
  BY DEF TypeInv, TypeOK, ChannelTypes
<1> USE <1>0, LimitsAreNaturals DEF CountersInv
<1>1. CASE ExecuteNode
  <2> USE DEF Executes, Goto, graphVars
  <2>1. CASE RepositoryNode BY <2>1 DEF RepositoryNode
  <2>2. CASE RequirementsNode
    BY <2>2 DEF RequirementsNode, RouteAfterRequirements
  <2>3. CASE AskHuman BY <2>3 DEF AskHuman
  <2>4. CASE TakeAnswer BY <2>4 DEF TakeAnswer
  <2>5. CASE PlannerNode BY <2>5 DEF PlannerNode
  <2>6. CASE CoderNode BY <2>6 DEF CoderNode
  <2>7. CASE TesterNode BY <2>7 DEF TesterNode, RouteAfterTester
  <2>8. CASE FailureAnalyzerNode BY <2>8 DEF FailureAnalyzerNode
  <2>9. CASE SecurityNode BY <2>9 DEF SecurityNode
  <2>10. CASE ReviewerNode BY <2>10 DEF ReviewerNode
  <2>11. CASE JudgeNode BY <2>11 DEF JudgeNode, Supervise
  <2>12. CASE DeliveryNode BY <2>12 DEF DeliveryNode
  <2>13. CASE FeedbackNode
    BY <2>13 DEF FeedbackNode, PollsPR, RouteAfterFeedback
  <2>14. CASE FinalizeNode BY <2>14 DEF FinalizeNode
  <2>15. CASE FailedNode BY <2>15 DEF FailedNode
  <2> QED
    BY <1>1, <2>1, <2>2, <2>3, <2>4, <2>5, <2>6, <2>7, <2>8, <2>9, <2>10,
       <2>11, <2>12, <2>13, <2>14, <2>15 DEF ExecuteNode
<1>2. CASE RetryNode BY <1>2 DEF RetryNode, CutShort, graphVars
<1>3. CASE NodeRaises BY <1>3 DEF NodeRaises, CutShort, graphVars
<1>4. CASE OutOfSteps BY <1>4 DEF OutOfSteps, graphVars
<1>5. CASE Sync BY <1>5 DEF Sync, graphVars
<1>6. CASE Crash BY <1>6 DEF Crash, CutShort, graphVars
<1>7. CASE \E answered \in BOOLEAN : Resume(answered)
  BY <1>7 DEF Resume, graphVars
<1>8. CASE Hangs BY <1>8 DEF Hangs, CutShort, graphVars
<1>9. CASE UNCHANGED vars BY <1>9 DEF vars, control, graphVars
<1> QED
  BY <1>1, <1>2, <1>3, <1>4, <1>5, <1>6, <1>7, <1>8, <1>9 DEF Next, Progress

LEMMA BaseInvariant == Spec => []BaseInv
<1>1. Init => CountersInv
  BY LimitsAreNaturals DEF Init, CountersInv
<1>2. BaseInv <=> TypeInv /\ CountersInv
  BY DEF BaseInv, TypeInv
<1>3. BaseInv /\ [Next]_vars => BaseInv'
  <2>1. BaseInv /\ [Next]_vars => TypeOK' /\ StatusInv' /\ CountersInv'
    BY <1>2, TypeStep, StatusStep, CountersStep
  <2> QED BY <2>1 DEF BaseInv
<1> QED
  BY TypeInit, <1>1, <1>2, <1>3, PTL DEF Spec

(* The fix loop never analyses more than MaxFix failures in the life of a  *)
(* task, and "failed" is reached only with the budget used up.             *)
THEOREM FixBudgetHolds == Spec => []FixBudget
<1>1. BaseInv => FixBudget
  BY DEF BaseInv, CountersInv, FixBudget
<1> QED
  BY <1>1, BaseInvariant, PTL

(* At most MaxFeedback + 1 polls find feedback, and the graph is past its  *)
(* last re-planning cycle when the last of them does.                      *)
THEOREM FeedbackBudgetHolds == Spec => []FeedbackBudget
<1>1. BaseInv => FeedbackBudget
  BY DEF BaseInv, CountersInv, FeedbackBudget
<1> QED
  BY <1>1, BaseInvariant, PTL
-----------------------------------------------------------------------------
(* The gates.  The one step that needs the limits in order is the judge's: *)
(* a "not ready" verdict must find fixSteps below MaxWorkflow.             *)
LEMMA GatesStep ==
  FixBelowWorkflow /\ IInv /\ [Next]_vars => GatesInv' /\ DeliveredInv'
<1> SUFFICES ASSUME FixBelowWorkflow, IInv, [Next]_vars
             PROVE  GatesInv' /\ DeliveredInv'
  OBVIOUS
<1>0. /\ GatesInv /\ DeliveredInv
      /\ node # "END" <=> status = "running"
      /\ judge \in {"none", "ready", "not_ready"}
      /\ tests \in {"none", "passed", "failed"}
  BY DEF IInv, BaseInv, StatusInv, TypeOK, ChannelTypes
<1> USE <1>0 DEF GatesInv, DeliveredInv, Accepted, Verdicts, Stages
<1>1. CASE ExecuteNode
  <2> USE DEF Executes, Goto, graphVars, history
  <2>1. CASE RepositoryNode BY <2>1 DEF RepositoryNode
  <2>2. CASE RequirementsNode
    BY <2>2 DEF RequirementsNode, RouteAfterRequirements
  <2>3. CASE AskHuman BY <2>3 DEF AskHuman
  <2>4. CASE TakeAnswer BY <2>4 DEF TakeAnswer
  <2>5. CASE PlannerNode BY <2>5 DEF PlannerNode
  <2>6. CASE CoderNode BY <2>6 DEF CoderNode
  <2>7. CASE TesterNode BY <2>7 DEF TesterNode, RouteAfterTester
  <2>8. CASE FailureAnalyzerNode BY <2>8 DEF FailureAnalyzerNode
  <2>9. CASE SecurityNode BY <2>9 DEF SecurityNode
  <2>10. CASE ReviewerNode BY <2>10 DEF ReviewerNode
  <2>11. CASE JudgeNode
    <3>1. fixSteps < MaxWorkflow
      BY LimitsAreNaturals
      DEF IInv, BaseInv, CountersInv, TypeOK, ChannelTypes, FixBelowWorkflow
    <3>2. node' = IF judge' = "ready" THEN "delivery" ELSE "coder"
      BY <2>11, <3>1 DEF JudgeNode, Supervise
    <3> QED
      BY <2>11, <3>2 DEF JudgeNode
  <2>12. CASE DeliveryNode BY <2>12 DEF DeliveryNode
  <2>13. CASE FeedbackNode BY <2>13 DEF FeedbackNode, RouteAfterFeedback
  <2>14. CASE FinalizeNode BY <2>14 DEF FinalizeNode
  <2>15. CASE FailedNode BY <2>15 DEF FailedNode
  <2> QED
    BY <1>1, <2>1, <2>2, <2>3, <2>4, <2>5, <2>6, <2>7, <2>8, <2>9, <2>10,
       <2>11, <2>12, <2>13, <2>14, <2>15 DEF ExecuteNode
<1>2. CASE RetryNode BY <1>2 DEF RetryNode, CutShort, graphVars
<1>3. CASE NodeRaises BY <1>3 DEF NodeRaises, CutShort, graphVars
<1>4. CASE OutOfSteps BY <1>4 DEF OutOfSteps, graphVars, history
<1>5. CASE Sync BY <1>5 DEF Sync, graphVars, history
<1>6. CASE Crash BY <1>6 DEF Crash, CutShort, graphVars
<1>7. CASE \E answered \in BOOLEAN : Resume(answered)
  BY <1>7 DEF Resume, graphVars, history
<1>8. CASE Hangs BY <1>8 DEF Hangs, CutShort, graphVars
<1>9. CASE UNCHANGED vars BY <1>9 DEF vars, control, graphVars, history
<1> QED
  BY <1>1, <1>2, <1>3, <1>4, <1>5, <1>6, <1>7, <1>8, <1>9 DEF Next, Progress

LEMMA InductiveInvariant == FixBelowWorkflow => (Spec => []IInv)
<1> SUFFICES ASSUME FixBelowWorkflow PROVE Spec => []IInv
  OBVIOUS
<1>1. Init => GatesInv /\ DeliveredInv
  BY DEF Init, GatesInv, DeliveredInv
<1>2. BaseInv /\ GatesInv /\ DeliveredInv /\ [Next]_vars
        => GatesInv' /\ DeliveredInv'
  BY GatesStep DEF IInv
<1>3. IInv <=> BaseInv /\ GatesInv /\ DeliveredInv
  BY DEF IInv
<1> QED
  BY BaseInvariant, <1>1, <1>2, <1>3, PTL DEF Spec

(* Only code that passed its tests and that the scanner, the reviewer and  *)
(* the judge accepted after its last rewrite enters delivery, and a        *)
(* delivered workspace stays accepted, whatever is retried, crashes or is  *)
(* resumed.  The settings must leave the fix loop less than the judge loop.*)
THEOREM DeliveryIsVerified == FixBelowWorkflow => (Spec => []DeliveryVerified)
<1>1. IInv => DeliveryVerified
  BY DEF IInv, GatesInv, DeliveredInv, DeliveryVerified
<1> QED
  BY <1>1, InductiveInvariant, PTL

(* The reviewer and the judge read verdicts about the latest code.         *)
THEOREM VerdictsAreCurrent == FixBelowWorkflow => (Spec => []VerdictsCurrent)
<1>1. IInv => VerdictsCurrent
  BY DEF IInv, GatesInv, VerdictsCurrent
<1> QED
  BY <1>1, InductiveInvariant, PTL

(* A task row says COMPLETED only for accepted and delivered code.         *)
THEOREM CompletedIsDelivered ==
  FixBelowWorkflow => (Spec => []CompletedMeansDelivered)
<1>1. IInv => CompletedMeansDelivered
  BY DEF IInv, BaseInv, StatusInv, DeliveredInv, CompletedMeansDelivered
<1> QED
  BY <1>1, InductiveInvariant, PTL
-----------------------------------------------------------------------------
(* Refinement: every step of the graph is a step of WorkflowRun, or leaves *)
(* Phase and CodeState as they are.                                        *)
LEMMA PromiseInit == Init => Promise!Init
  BY DEF Init, Promise!Init, Phase, CodeState, Accepted, Verdicts, Stages

(* Steps that touch no verdict and no history leave the code state alone.  *)
LEMMA CodeStateKept ==
  ASSUME UNCHANGED <<tests, judge, stage>>
  PROVE  CodeState' = CodeState
  BY DEF CodeState, Accepted

(* A step of a stage that has not been delivered and keeps or loses the    *)
(* acceptance is at most a Rework.                                         *)
LEMMA CutShortCode ==
  ASSUME CutShort
  PROVE  CodeState' \in {CodeState, "draft"}
  BY DEF CutShort, graphVars, CodeState, Accepted, Verdicts, Stages

LEMMA PromiseStep ==
  FixBelowWorkflow /\ IInv /\ IInv' /\ [Next]_vars
    => [Promise!Next]_Promise!vars
<1> SUFFICES ASSUME FixBelowWorkflow, IInv, IInv', [Next]_vars
             PROVE  [Promise!Next]_Promise!vars
  OBVIOUS
<1>0. /\ GatesInv /\ DeliveredInv /\ DeliveredInv'
      /\ node # "END" <=> status = "running"
      /\ status \in {"running", "completed", "failed"}
      /\ judge \in {"none", "ready", "not_ready"}
      /\ CodeState \in {"draft", "accepted", "delivered"}
  BY DEF IInv, BaseInv, StatusInv, TypeOK, ChannelTypes, CodeState
<1> USE <1>0 DEF Promise!Next, Promise!vars, Phase
<1>1. CASE ExecuteNode
  <2> USE DEF Executes, Goto
  <2>1. CASE UNCHANGED <<run, tests, judge, stage>>
    BY <2>1, CodeStateKept
  <2>2. CASE RepositoryNode \/ RequirementsNode \/ TakeAnswer \/ PlannerNode
             \/ FailureAnalyzerNode \/ FeedbackNode \/ FinalizeNode
             \/ FailedNode
    BY <2>2, <2>1
    DEF RepositoryNode, RequirementsNode, TakeAnswer, PlannerNode,
        FailureAnalyzerNode, FeedbackNode, FinalizeNode, FailedNode,
        graphVars, history
  <2>3. CASE AskHuman
    BY <2>3, CodeStateKept DEF AskHuman, graphVars, history, Promise!Ask
  <2>4. CASE CoderNode
    BY <2>4
    DEF CoderNode, Promise!Rework, CodeState, Accepted, Verdicts, Stages
  <2>5. CASE TesterNode \/ SecurityNode \/ ReviewerNode
    <3>1. CodeState = "draft" \/ CodeState = "accepted"
      BY <2>5 DEF TesterNode, SecurityNode, ReviewerNode, DeliveredInv, CodeState
    <3>2. CodeState' \in {"draft", "accepted"}
      BY <2>5
      DEF TesterNode, SecurityNode, ReviewerNode, DeliveredInv, CodeState
    <3> QED
      BY <2>5, <3>1, <3>2
      DEF TesterNode, SecurityNode, ReviewerNode, Promise!Rework,
          Promise!Accept
  <2>6. CASE JudgeNode
    <3>1. CodeState \in {"draft", "accepted"} /\ CodeState' \in {"draft", "accepted"}
      BY <2>6 DEF JudgeNode, DeliveredInv, CodeState
    <3> QED
      BY <2>6, <3>1 DEF JudgeNode, Promise!Rework, Promise!Accept
  <2>7. CASE DeliveryNode
    <3>1. CodeState' = "delivered" /\ CodeState \in {"accepted", "delivered"}
      BY <2>7 DEF DeliveryNode, CodeState, GatesInv
    <3> QED
      BY <2>7, <3>1 DEF DeliveryNode, Promise!Deliver
  <2> QED
    BY <1>1, <2>2, <2>3, <2>4, <2>5, <2>6, <2>7 DEF ExecuteNode
<1>2. CASE RetryNode
  BY <1>2, CutShortCode DEF RetryNode, Executes, Promise!Rework
<1>3. CASE NodeRaises
  BY <1>3, CutShortCode DEF NodeRaises, Executes, Promise!Fail
<1>4. CASE OutOfSteps
  BY <1>4, CodeStateKept DEF OutOfSteps, graphVars, history, Promise!Fail
<1>5. CASE Sync
  <2>1. CodeState' = CodeState
    BY <1>5, CodeStateKept DEF Sync, graphVars, history
  <2>2. CASE status = "completed"
    BY <1>5, <2>1, <2>2 DEF Sync, DeliveredInv, CodeState, Promise!Complete
  <2>3. CASE status = "failed"
    BY <1>5, <2>1, <2>3 DEF Sync, Promise!Fail
  <2> QED
    BY <1>5, <2>2, <2>3 DEF Sync
<1>6. CASE Crash
  BY <1>6, CutShortCode DEF Crash, Promise!Crash
<1>7. CASE \E answered \in BOOLEAN : Resume(answered)
  BY <1>7, CodeStateKept DEF Resume, graphVars, history, Promise!Resume
<1>8. CASE Hangs
  BY <1>8, CutShortCode DEF Hangs, Executes, Promise!Rework
<1>9. CASE UNCHANGED vars
  BY <1>9, CodeStateKept DEF vars, control, graphVars, history
<1> QED
  BY <1>1, <1>2, <1>3, <1>4, <1>5, <1>6, <1>7, <1>8, <1>9 DEF Next, Progress

(* The graph implements WorkflowRun: seen from outside, code is delivered  *)
(* only after it was accepted as it stands, and a run completes only after *)
(* its code was delivered.                                                 *)
THEOREM GraphKeepsPromise == FixBelowWorkflow => (Spec => PromiseSpec)
<1> SUFFICES ASSUME FixBelowWorkflow PROVE Spec => PromiseSpec
  OBVIOUS
<1>1. IInv /\ IInv' /\ [Next]_vars => [Promise!Next]_Promise!vars
  BY PromiseStep
<1>2. Spec => []IInv
  BY InductiveInvariant
<1> QED
  BY PromiseInit, <1>1, <1>2, PTL DEF Spec, PromiseSpec, Promise!Spec
=============================================================================
