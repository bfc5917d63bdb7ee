----------------------------- MODULE AgentHarness ----------------------------
(***************************************************************************)
(* The agents of one job: AgentHarness.run (harness/executor.py) with its  *)
(* RetryPolicy, ExecutionBudget and deadline, the HarnessProvider around   *)
(* every LLM call, and what becomes of the usage it reports (StoredState). *)
(*                                                                         *)
(* A node of the graph builds two harnesses (orchestration/nodes.py): one  *)
(* whose run guards the agent, and one that only wraps the provider.  The  *)
(* coder runs its guard twice, delivery once, the other agents call the    *)
(* wrapped provider without any run around them.  Nodes come in any order  *)
(* here; SupervisorGraph has the order.                                    *)
(***************************************************************************)
EXTENDS StoredState

CONSTANTS
  MaxAttempts,    \* RetryPolicy.max_attempts
  MaxIterations,  \* agent_max_iterations
  MaxTokens,      \* max_tokens; None is more than any node can use
  CallTokens,     \* possible costs of a call
  MaxCalls,       \* bound on the LLM calls of the job
  MaxNodes        \* bound on the nodes it executes

ASSUME HarnessBounds ==
  /\ MaxAttempts \in Nat \ {0} /\ MaxIterations \in Nat \ {0}
  /\ MaxTokens \in Nat /\ CallTokens \subseteq Nat
  /\ MaxCalls \in Nat /\ MaxNodes \in Nat

VARIABLES
  job,         \* "discovery", "nodes", "closing" or "done"
  node,        \* kind of the node that executes, or "none"
  nodes,       \* nodes executed
  runs,        \* runs of the guard the node still has to make
  phase,       \* where the node is
  attempt,     \* attempts of the run
  ticks,       \* iterations counted by the guard's budget
  late,        \* the run's deadline has passed
  iterations,  \* iterations counted by the provider's budget
  tokens,      \* tokens counted by it
  calls        \* LLM calls of the job

(* History, read by properties only.                                       *)
VARIABLE
  answered     \* calls that were answered within the token budget

runVars == <<runs, attempt, ticks, late>>
providerVars == <<iterations, tokens, calls, answered>>
vars == <<job, node, nodes, phase, runVars, providerVars, stateVars>>

Kinds == {"agent", "coder", "delivery"}
GuardedRuns == [agent |-> 0, coder |-> 2, delivery |-> 1]
Phases == {"ready", "attempt", "backoff", "working", "calling", "report", "pr"}
Guarded == node \in {"coder", "delivery"}

(* The permissions a node's runs require, and those its agent has.         *)
Requires == [coder |-> {"workspace.read", "workspace.write"},
             delivery |-> {"git.push"}]
GrantedTo == [coder |-> {"repo.read", "workspace.read", "workspace.write"},
              delivery |-> {"repo.read", "repo.pr.read", "git.branch.create",
                            "git.commit", "git.push", "pr.create",
                            "pr.update", "pr.comment"}]
ASSUME NothingDenied == \A k \in DOMAIN Requires : Requires[k] \subseteq GrantedTo[k]

Init ==
  /\ InitState
  /\ job = "discovery" /\ node = "none" /\ nodes = 0 /\ phase = "ready"
  /\ runs = 0 /\ attempt = 0 /\ ticks = 0 /\ late = FALSE
  /\ iterations = 0 /\ tokens = 0 /\ calls = 0 /\ answered = {}
-----------------------------------------------------------------------------
(* _discover writes the repository and the issue into the job's copy.      *)
Discover ==
  /\ job = "discovery"
  /\ job' = "nodes"
  /\ SaveResult
  /\ UNCHANGED <<node, nodes, phase, runVars, providerVars>>

StartNode(k) ==
  /\ job = "nodes" /\ node = "none" /\ nodes < MaxNodes
  /\ node' = k /\ nodes' = nodes + 1
  /\ runs' = GuardedRuns[k]
  /\ phase' = IF k = "agent" THEN "working" ELSE "ready"
  /\ attempt' = 0 /\ ticks' = 0 /\ late' = FALSE
  /\ iterations' = 0 /\ tokens' = 0
  /\ UNCHANGED <<job, calls, answered, stateVars>>

EndsNode == node' = "none" /\ phase' = "ready"

(* AgentHarness.run: the deadline starts anew, the counts do not.          *)
StartRun ==
  /\ Guarded /\ phase = "ready" /\ runs > 0
  /\ runs' = runs - 1
  /\ attempt' = 0 /\ late' = FALSE
  /\ phase' = "attempt"
  /\ UNCHANGED <<job, node, nodes, ticks, providerVars, stateVars>>

(* A slip: a tick that does not raise at the limit.                        *)
AttemptUnlimited ==
  /\ phase \in {"attempt", "backoff"}
  /\ ticks' = ticks + 2
  /\ attempt' = attempt + 1
  /\ phase' = "working"
  /\ UNCHANGED <<job, node, nodes, runs, late, providerVars, stateVars>>

(* The policy counts an iteration, then attempt() counts another one; a    *)
(* count over the limit or a deadline that has passed raises, and such an  *)
(* exception is never retried.                                             *)
Attempt ==
  /\ phase \in {"attempt", "backoff"}
  /\ \/ /\ ~late /\ ticks + 2 <= MaxIterations
        /\ ticks' = ticks + 2
        /\ attempt' = attempt + 1
        /\ phase' = "working"
        /\ UNCHANGED node
     \/ /\ late \/ ticks + 2 > MaxIterations
        /\ ticks' = IF late \/ ticks + 1 > MaxIterations THEN ticks + 1
                    ELSE ticks + 2
        /\ EndsNode
        /\ UNCHANGED attempt
  /\ UNCHANGED <<job, nodes, runs, late, providerVars, stateVars>>

(* The agent raises: a retryable exception starts another attempt as long  *)
(* as the policy has one; any other ends the run, and the node with it.    *)
Raises(retryable) ==
  IF Guarded /\ retryable /\ attempt < MaxAttempts
    THEN phase' = "backoff" /\ UNCHANGED node
    ELSE EndsNode

(* HarnessProvider.complete counts the iteration before it calls.          *)
BeginCall ==
  /\ phase = "working" /\ calls < MaxCalls
  /\ iterations' = iterations + 1
  /\ IF iterations + 1 > MaxIterations
       THEN Raises(FALSE) /\ UNCHANGED calls
       ELSE /\ phase' = "calling"
            /\ calls' = calls + 1
            /\ UNCHANGED node
  /\ UNCHANGED <<job, nodes, runVars, tokens, answered, stateVars>>

(* A slip: exhausted tokens are retried like a timeout.                    *)
AnswerRetried(n) ==
  /\ phase = "calling"
  /\ tokens' = tokens + n
  /\ IF tokens + n > MaxTokens
       THEN Raises(TRUE) /\ UNCHANGED <<answered, stateVars>>
       ELSE /\ phase' = "working"
            /\ answered' = answered \union {calls}
            /\ records' = Spawned(calls)
            /\ UNCHANGED <<node, row, cached, clobbered, lost>>
  /\ UNCHANGED <<job, nodes, runVars, iterations, calls>>

(* The answer's tokens are counted, and raise when they exceed the budget; *)
(* only then the usage is reported, in a coroutine nobody waits for.       *)
Answer(n) ==
  /\ phase = "calling"
  /\ tokens' = tokens + n
  /\ IF tokens + n > MaxTokens
       THEN Raises(FALSE) /\ UNCHANGED <<answered, stateVars>>
       ELSE /\ phase' = "working"
            /\ answered' = answered \union {calls}
            /\ records' = Spawned(calls)
            /\ UNCHANGED <<node, row, cached, clobbered, lost>>
  /\ UNCHANGED <<job, nodes, runVars, iterations, calls>>

(* Providers turn every exception into an LLMTimeoutError, which is no     *)
(* TimeoutError: it is not retryable.                                      *)
CallFails ==
  /\ phase = "calling"
  /\ Raises(FALSE)
  /\ UNCHANGED <<job, nodes, runVars, providerVars, stateVars>>

AgentRaises(retryable) ==
  /\ phase = "working"
  /\ Raises(retryable)
  /\ UNCHANGED <<job, nodes, runVars, providerVars, stateVars>>

(* The agent returns; the delivery node then saves its results.            *)
AgentReturns ==
  /\ phase = "working"
  /\ \/ runs > 0 /\ phase' = "ready" /\ UNCHANGED node
     \/ runs = 0 /\ node = "delivery" /\ phase' = "report" /\ UNCHANGED node
     \/ runs = 0 /\ node # "delivery" /\ EndsNode
  /\ UNCHANGED <<job, nodes, runVars, providerVars, stateVars>>

DeadlinePasses ==
  /\ Guarded /\ phase \in {"attempt", "backoff", "working", "calling"} /\ ~late
  /\ late' = TRUE
  /\ UNCHANGED <<job, node, nodes, phase, runs, attempt, ticks, providerVars,
                 stateVars>>

(* A slip: a deadline that is only looked at between attempts.             *)
TimeOutBetween ==
  /\ late /\ phase = "backoff"
  /\ EndsNode
  /\ UNCHANGED <<job, nodes, runVars, providerVars, stateVars>>

(* wait_for cancels whatever the run awaits.                               *)
TimeOut ==
  /\ late /\ phase \in {"backoff", "working", "calling"}
  /\ EndsNode
  /\ UNCHANGED <<job, nodes, runVars, providerVars, stateVars>>

(* The delivery node writes the report, then the pull request.             *)
SaveDelivery ==
  /\ phase \in {"report", "pr"}
  /\ SaveResult
  /\ IF phase = "report" THEN phase' = "pr" /\ UNCHANGED node ELSE EndsNode
  /\ UNCHANGED <<job, nodes, runVars, providerVars>>

(* The last node writes the final status, which refreshes the task; the    *)
(* snapshot is stored afterwards, unless the graph has raised.             *)
Close(raised) ==
  /\ job = "nodes" /\ node = "none"
  /\ job' = IF raised THEN "done" ELSE "closing"
  /\ Refresh
  /\ UNCHANGED <<node, nodes, phase, runVars, providerVars>>

Persist ==
  /\ job = "closing"
  /\ job' = "done"
  /\ PersistState
  /\ UNCHANGED <<node, nodes, phase, runVars, providerVars>>

RecordUsage(r) ==
  /\ RecordRead(r) \/ RecordCommit(r) \/ RecordFails(r)
  /\ UNCHANGED <<job, node, nodes, phase, runVars, providerVars>>
-----------------------------------------------------------------------------
RunStep == StartRun \/ Attempt \/ DeadlinePasses \/ TimeOut \/ SaveDelivery

Next ==
  \/ Discover \/ RunStep \/ BeginCall \/ CallFails \/ AgentReturns \/ Persist
  \/ \E k \in Kinds : StartNode(k)
  \/ \E n \in CallTokens : Answer(n)
  \/ \E b \in BOOLEAN : AgentRaises(b) \/ Close(b)
  \/ \E r \in records : RecordUsage(r)

Spec == Init /\ [][Next]_vars

(* The harness's own steps are taken and its clock runs; the model need    *)
(* not answer, and the agent need not come to an end by itself.            *)
FairSpec == Spec /\ WF_vars(RunStep)
-----------------------------------------------------------------------------
Recorded(call) == \E i \in 1..Len(row) : row[i] = call
Pending(call) == \E r \in records : r.call = call

TypeOK ==
  /\ row \in Seq(1..MaxCalls) /\ cached \in Seq(1..MaxCalls)
  /\ clobbered \in BOOLEAN /\ lost \subseteq 1..MaxCalls
  /\ records \subseteq [call : 1..MaxCalls,
                       seen : [read : BOOLEAN, list : Seq(1..MaxCalls)]]
  /\ job \in {"discovery", "nodes", "closing", "done"}
  /\ node \in Kinds \union {"none"} /\ phase \in Phases
  /\ nodes \in 0..MaxNodes /\ runs \in 0..2
  /\ attempt \in 0..MaxAttempts /\ ticks \in 0..(MaxIterations + 1)
  /\ late \in BOOLEAN
  /\ iterations \in 0..(MaxIterations + 1) /\ tokens \in Nat
  /\ calls \in 0..MaxCalls /\ answered \subseteq 1..calls

(* A node whose token budget is exhausted makes no further call: the call  *)
(* that exceeds it is its last (TokenBudget.add raises only afterwards,    *)
(* and neither tick_iteration nor the next call looks at the tokens, so it *)
(* is for the retry policy and the node to stop).  The nodes' harnesses    *)
(* have no max_tokens today (harness_for): it is the promise of the budget *)
(* to the caller who passes one.                                           *)
OverspentByOneCall == phase = "calling" => tokens <= MaxTokens

(* A call's usage is never in the list twice, and only calls that were     *)
(* answered are in it, whatever copies were written over each other.       *)
CountedOnce ==
  /\ \A i, j \in 1..Len(row) : row[i] = row[j] => i = j
  /\ \A i \in 1..Len(row) : row[i] \in answered /\ ~Pending(row[i])

(* As long as nobody writes back a stale copy, the usage of an answered    *)
(* call is in the list or still to be written; the others are those whose  *)
(* own coroutine has failed.  No write of the job, the snapshot at its end *)
(* included, takes one out, and no coroutine that fails takes another      *)
(* call's with it (TaskService.persist_workflow_state,                     *)
(* UsageService.record).                                                   *)
KeptUnlessClobbered ==
  \/ clobbered
  \/ \A c \in answered : Recorded(c) \/ Pending(c) \/ c \in lost

(* A guarded agent comes to an end even if the model never answers.        *)
GuardedAgentEnds == Guarded ~> ~Guarded
=============================================================================
