# Gitforce in TLA+

Gitforce takes a GitHub issue, lets a LangGraph supervisor drive LLM agents over
a clone of the repository (analyse, plan, code, test, scan, review, judge),
opens a pull request and reworks it on reviewers' feedback. This directory holds
TLA+ modules of the parts whose control is hard to test, TLC configurations that
check them on small instances, and TLAPS proofs for all values of the constants.

All paths below are relative to the repository; `app/` is `src/gitforce/app/`.

## Inventory

| Component | State | Operations | Who it talks to |
|---|---|---|---|
| Supervisor graph (`app/orchestration/graph.py`, `nodes.py`, `workflow.py`) | LangGraph channels (`ForgeState`), checkpoint, retry attempt, superstep count | 14 nodes, 4 routers, `run`, `resume`, `_sync` | agents, sandbox, GitHub, task row |
| Task lifecycle (`app/services/tasks.py`, `app/database/repositories.py`, `app/api/routes/tasks.py`, `app/orchestration/runner.py`, `app/security/recovery.py`) | task rows, one SQLAlchemy session per request or job, the idempotency set | submit, cancel, resume, background jobs, `update_status` | graph, clients |
| Event stream (`TaskService.emit`, `EventBus`, `app/api/websocket.py`) | event rows, a bounded queue per observer | emit, subscribe, replay, forward, unsubscribe | jobs, WebSocket clients |
| Agent harness (`app/harness/`) | budgets, attempt, deadline | `run`, provider wrapper, retries | nodes, LLM, usage |
| State blob (`tasks.state`) | one JSON column, the copies of it in sessions and coroutines | `update_agent_result`, `persist_workflow_state`, `UsageService.record` | harness, jobs, evaluation |
| Delivery (`_deliver`, `app/github/`, the cloner in `app/agents/repository.py`) | clone, branch, fork, pull request | clone, write, commit, push, open or update the PR, poll it | GitHub |
| RAG index (`app/rag/`) | chunks per repository and commit | replace a commit's index, retrieve | repository and planner nodes |
| Transient retries (`TransientRetryPolicy` in `app/security/recovery.py`) | attempts | try again or give up | discovery |
| Test sandbox (`app/agents/tester.py`, `app/execution/`) | process or container, its pipes | run a stage, time out, parse, verdict | tester node, tools |
| MCP gate (`app/mcp/`, `app/harness/permissions.py`) | grants, levels, registered tools | derive, check, dispatch, answer | agents, sandbox, GitHub |
| Rate limiter (`app/security/rate_limit.py`) | token buckets in a bounded dict | take, evict, refuse | HTTP clients |
| Observability, evaluation, configuration, frontend | spans, counters, reports | read-only aggregation | dashboard |

Everything runs in one process on one asyncio event loop: other coroutines run
at every `await` and nowhere else. What makes the system hard:

* **Loops over accumulated channels.** The graph loops through five cycles (fix,
  judge, feedback, retry, resume) over channels that are never reset.
* **Stale sessions.** `expire_on_commit=False`: a session goes on using the row
  it loaded. An UPDATE carries only attributes that differ from that copy.
* **Fire and forget.** Background jobs and usage records are awaited by nobody
  and die with the process.
* **Effects before records.** A node may raise, be retried or be cut off after a
  part of its effects on the workspace, the row or GitHub.

What makes each component correct is stated, per property, in the modules and in
the tables below; every hazard found in the code has its line in `PROJECT.json`.

## Modules

| Module | Models | Status |
|---|---|---|
| `WorkflowRun` | abstract: what a workflow promises (accepted before delivered, delivered before completed) | checked and proved against the graph |
| `SupervisorGraph` (+ `Proofs`, `MC`) | the graph, its nodes and `LangGraphWorkflow` for one task | 6 invariants, 1 liveness property, refinement |
| `TaskLifecycle` (+ `Proofs`, `MC`) | requests, jobs and rows of one issue | 3 invariants, 2 liveness properties |
| `EventStream` (+ `Proofs`, `MC`) | one task's events from commit to observer | 3 invariants, 1 liveness property |
| `StoredState` | the usage list in `tasks.state` and its writers | checked through `AgentHarness` |
| `AgentHarness` (+ `Proofs`, `MC`) | the harness around every agent of a job, composed with `StoredState` | 4 invariants, 1 liveness property |
| `Worktree` | the clone of a task: clone, edits, commit | through `Workspace` |
| `RepositoryIndex` | the rows of a commit's index, their replacement, retrieval; extends `Worktree` | through `Workspace` |
| `Delivery` | commit to pull request, GitHub, the channel `pr`, feedback; extends `Worktree` | through `Workspace` |
| `Workspace` (+ `Proofs`, `MC`) | composition of the three for jobs that share a task or a repository, with discovery and crashes | 7 invariants, 1 action property, deadlock |
| `Permissions` | harness grants, the MCP levels derived from them, the check | through `ToolCalls` |
| `Toolbox` | tools, servers, registry, how handlers end; extends `Permissions` | through `ToolCalls` |
| `Sandbox` | one command in the local or Docker sandbox, with what it leaves running | through `ToolCalls` |
| `ToolCalls` (+ `Proofs`, `MC`) | composition: an agent's tool call and the tester, on `Toolbox` and `Sandbox` | 6 invariants, 1 liveness property |
| `RateLimit` (+ `Proofs`, `MC`) | the limiter, its clock and its clients | 2 invariants, 1 action property |

Definitions whose comment starts with "A slip" are plausible bugs of the
definition after them; none of them is part of a specification. They are what
each property is shown to notice.

### SupervisorGraph

One action per node function of `nodes.py`; `node` is the node of the next
superstep, picked by the router of `graph.py` (`RouteAfterRequirements`,
`RouteAfterTester`, `Supervise`, `RouteAfterFeedback`). Channels are reduced to
what routers and later nodes read: `tests`, `judge`, `fixSteps` (the length of an
accumulating list), `analyses` (the kinds of feedback accumulated so far),
`prCycles`, `pr`, `status`. Agents, sandbox and GitHub answer anything.
`RetryNode` is LangGraph's retry of a node that raised after any part of its
effects (`CutShort`: half-written files are new code; `StatusWritten`: a status
already in the row); `Hangs` a node one of whose awaits never ends; `NodeRaises`
the exception that escapes; `OutOfSteps` the recursion limit; `Sync` the `_sync` after an invocation; `Crash` and `Resume` the
end of the process and a resumption from the checkpoint.

`stage` is history: the set of gates the code now in the workspace has been
through; rewriting a file empties it. The properties relate it to the channels,
which is where stale verdicts would show.

The checkpoint saver survives here, as it would if one were passed to
`LangGraphWorkflow`; that the server never passes one is modelled in
`TaskLifecycle` (`LosesThread`).

### TaskLifecycle

Every client sends one request and, for a submission or resumption, becomes the
background job that follows it. `proc[c].cache` is the status in the session of
that request or job, `db` the committed rows; `Commit` skips the UPDATE if the
cached status is the new one (`Written`), `Refresh` is the separate `await` of
`update_status`. Two submissions may race between the check of the idempotency
set and the insertion. `enabled` is what the settings of the process say of
`auto_discover` and the provider's key: without either, every job ends in
`TurnedAway`, before its `try`, and its row is not told. `Hangs` is an await
without a limit. A crash kills all jobs and empties the set; rows stay; the next
process may have other settings.

### EventStream

A publisher commits the row, then puts the event into one queue after the other
(`todo`), blocking on a full one. A handler subscribes, reads the rows, sends
them, then takes from its queue. An observer that goes away is noticed by the
next send. In the replay that exception passes by `unsubscribe` (`broken`).

### AgentHarness and StoredState

A node builds two harnesses: one runs the agent (coder, delivery), one wraps the
provider, so there are two budgets (`ticks`, and `iterations` with `tokens`). An
attempt counts two iterations. The deadline is the boolean `late`; `TimeOut` is
`wait_for` cancelling what the run awaits. `StoredState` keeps the database's
list, the job's cached copy, and one record per `UsageService.record` coroutine
with the list it read; such a coroutine may raise or die unseen (`RecordFails`,
`lost`). No node passes a token limit today (`harness_for`), so `MaxTokens` and
`OverspentByOneCall` are about the budget as a caller who did would meet it.
Nodes come in any order: the graph's order would only remove behaviours. `NothingDenied` (an assumption TLC evaluates) says that the
default grants contain what the nodes require, so a denial never happens.

### Worktree, RepositoryIndex, Delivery, Workspace

A job is at one `await` of the nodes that touch something shared; the nodes
between them are left out (`SupervisorGraph` has them). Two jobs of one task, as
a duplicate submission starts them, share the directory, the branch and the pull
request; two tasks of one repository share the index. The content of a directory
is the number of edits in it; a commit is the upstream one, which all tasks
share, or a task's commit of so many edits; files that git ignores are kept
apart (`ignored`). `git` of `GitWorktree` blocks the event loop, so branch, add
and commit are one step; `git clone` is awaited and its directory can be seen
half filled (`fetching`, `checkout`). A clone that fails is removed by git, but
one whose checkout fails is kept (`HalfCheckedOut`, remembered in `torn`), and
the node, run again, takes it for the clone.

`RepositoryIndexer.index` is a transaction: read the tree, DELETE, embed chunk
after chunk, send the rows and commit. The database is READ COMMITTED: a DELETE
sees the rows committed when it starts and waits for a transaction that deletes
the same ones. A chunk's path and first line are unique within a commit: rows
that clash with another job's are refused (`IndexCollides`), which two whole
copies of one commit always are (`MustClash`) and other copies may be; and of two
transactions that wait for each other the database gives up one (`Entangled`).
A copy says how its files differed from the commit it is filed under (`extra`),
and it may have no chunk at all (`blank`, `barren`). A retrieval may give the
planner nothing of what it found, since the best chunk may be too long for the
prompt.

`_deliver` is a sequence of awaited calls, each of which may fail, lose its
answer or meet the deadline (`CallFails`); GitHub keeps a branch and at most one
open pull request per branch. `troubled`, `torn`, `collided`, `barren`,
`unpushed` and `skipped` are history: they say which exemption a property grants.

### Permissions, Toolbox, Sandbox, ToolCalls

`Derived` is `mcp_permissions_from`, `Verdict` the path of `MCPRegistry.call`,
`HandlerEnds` how each handler can end on each kind of argument. A job does one
piece of work at a time: a tool call of some agent, or the tester node with
LangGraph's retries. In `Sandbox` a process may leave a child that holds its
pipes (`held`) or one that has let go of them (`loose`); `wait` is which
`communicate()` is awaited. The local backend kills the child, and nothing the
child has started, on timeout and waits for the `rest`; the Docker backend raises
and leaves the container (`containers`). `TesterAgent.run` is the chain `AfterPytest`,
`AfterRuff`, `AfterMypy`; `Parse` is `_parse_pytest`. `green` is history: what
the processes did, whatever was made of it.

### RateLimit

`dispatch` awaits nothing before its verdict, so a request is one step. Tokens
are counted in units and time in ticks, which gives fractions of a token exactly.
The interval of `WindowBound` begins at any time (`from`).

## Runs

| Run | Question | Size |
|---|---|---|
| `graph` | do gates, verdicts and both loop budgets hold over retries, crashes, resumptions and re-planning; does the graph implement `WorkflowRun`; does an invocation none of whose awaits lasts for ever end? | fix 2, workflow 3, feedback 2, 2 attempts, 24 supersteps |
| `lifecycle_safety` | is a busy row always watched unless the process dies or its settings turn jobs away, does a lone job report its own outcome? | 3 clients (symmetric), 2 rows, 1 crash |
| `lifecycle_progress` | does every accepted row get worked on and leave RUNNING, but for crashes, settings and awaits without a limit? | 2 clients, 2 rows, 1 crash |
| `event_stream` | is an observer's stream complete and in order, can it block a job? | 2 jobs, 1 observer, queue of 1, limit 2, 5 events |
| `agent_harness` | do budgets, retries and deadline hold, when is usage lost? | 3 attempts, 5 iterations, 3 tokens, 3 calls, 2 nodes |
| `workspace` | is an index ever half built or there twice, is what is indexed and reported true, is a commit ever lost, does an untroubled delivery reach its pull request, does a job wait for ever? | 2 jobs on one task or two (symmetric), 2 passes, 1 failed call or crash, 3 fetches, 2 chunks; 2.3 million states |
| `tool_calls` | is the verdict of the tester the truth, is anything that could still change an answer left behind, may an agent run what the harness denies it, does every call end? | 5 kinds of agents, 10 tools, both backends, 3 attempts, 2 pieces of work |
| `rate_limit` | how much can a client get in any interval, is a 429's Retry-After honest? | 3 clients (symmetric), 2 buckets |
| `graph_judge_loop`, `lifecycle_cancel`, `lifecycle_resume`, `sandbox_docker` | statements of the documentation the code does not keep | the smallest instance that shows it |

**Why the bounds are enough.** In the graph each loop can be taken more often
than its own cap, every router sees its counter below, at and (where it can be)
above the limit, and 24 supersteps are more than one pass through the graph (11)
with two fix cycles or a re-planning pass; the superstep limit itself is
LangGraph's and its default depends on the version installed. In the lifecycle
three processes let a duplicate, a cancellation and a resumption meet on one row.
In the event stream five events overflow a queue of one, leave two publishers
blocked on one queue, and exceed the limit of the query; observers meet only by
delaying a publisher's next put, which one observer shows. In the harness the
iteration cap falls between two attempts, one answer in two overspends, and three
calls in two nodes let two records overlap each other and a write of the job.
In the workspace two passes are a delivery and one that finds what it left, with
its pull request known or lost and then refused. Work that a later delivery
failed to commit would be indexed in a third pass only; for that pass and all
after it there are the theorems, which hold for any number of passes. Two chunks make half an index visible; one
failure at any call is enough for every exemption the properties name, and all
assignments of jobs to tasks are initial states. Among the tools the agents differ in what they
may call and the tools in how they are gated and end; the second piece of work
finds what the first left running. Two buckets for three clients evict.

**Fairness.** `WF` on the steps of the process: the event loop runs every
coroutine that is ready, the harness's timer runs. Some awaits have no limit (a
clone, a `put` into a full queue of a subscriber, a child that keeps its pipes,
an agent without a deadline), so a node or a job that awaits may take `Hangs`,
which has no fairness and after which nothing of it ever happens: `LoopsEnd` is
about the loops of an invocation, and `RunningEnds` excepts rows one of whose
jobs hangs. Nothing is assumed of clients, observers, humans, the model's answers
inside the harness, crashes and resumptions. In `ToolCalls`, `WF` on what the process itself does;
no command need ever end, nor any child it leaves. `Workspace` has no fairness:
its deadlock check, with `Rest` as the only state in which nothing more happens,
shows that no job waits for another's, and passes and attempts are bounded.
`CHECK_DEADLOCK FALSE` is said where the system may really stop: all clients
have been served, all events sent, the job is done.

## What is proved

Every invariant and action property that a run checks is a theorem of its
specification, for all values of the constants that the named assumptions admit.
Each proof has the same shape: an inductive invariant `IInv` (`ReportInv` for
the second theorem of the lifecycle), a conjunction of named parts that TLC
checked on the run's constants first; one lemma per part, which shows that every
action keeps it; and a theorem per property, which reads it off `IInv`. The
parts that come beside the types are what the properties need to be inductive.

The assumptions are those in the modules: bounds are naturals, sets of settings
contain what the settings admit. Two carry weight. `WorkBounds` takes `Jobs` to
be finite, since the edits in a clone are bounded by counting them.
`FixBelowWorkflow == MaxFix < MaxWorkflow` is a hypothesis of four theorems of
the graph: the settings are 5 and 10 and nothing enforces the order; without it
`supervise` sends work to delivery that the judge rejected.

`SupervisorGraphProofs`

* `TypeCorrect`, `FixBudgetHolds`, `FeedbackBudgetHolds`.
* `DeliveryIsVerified`, `VerdictsAreCurrent`, `CompletedIsDelivered` and
  `GraphKeepsPromise` (the refinement of `WorkflowRun`, step by step), under
  `FixBelowWorkflow`.

The invariant has the status column against the node about to run, the counters
against the node, and for every node the gates its code must have passed
(`GatesInv`, `DeliveredInv`): that delivery sees accepted code follows from what
reviewer and judge saw before it, over a retry of any of these nodes.

`TaskLifecycleProofs`, for any number of clients, rows and crashes

* `TypeCorrect`.
* `BusyRowsAreWatched`. `BusyInv` names for every busy row a job that is still
  going to write over the busy status, because its next UPDATE is not skipped, or
  that waits for ever, or, for a QUEUED row, one that was turned away.
* `LoneRowsReport`. `ReportInv` says what the row holds at each step of a
  submission that is alone on it (`Reports`), and that a row always belongs to
  the client that inserted it, so that a duplicate submission, which finds the
  row, never counts as alone (`RowInv`).

`EventStreamProofs`, for any number of jobs, observers and events, any queue
size and query limit

* `TypeCorrect`, `NothingIsMissed`, `HeardInOrder`.

Every step leaves an observer's stream as it is, appends the event that is put,
puts the rows of the query in front, or drops the event whose send raised
(`StreamStep`). `MissInv` extends `NothingMissed` to subscribers whose query is
still to come: what is not in a row yet will be put into their queue. The order
needs three more facts: the rows hold a job's events in its order, a job that
still has to put an event has not committed a later one, and an event is put
into a queue once.

`AgentHarnessProofs`, for any calls, costs and budgets

* `TypeCorrect`, `OneCallOverspends`, `UsageIsCountedOnce`, `UsageIsKept`.

Whatever exceeds a limit ends the node in the same step (`HarnessInv`). For the
usage list, not only the row but every copy of it, the job's and those that the
coroutines have read, holds each call once and none whose coroutine is still to
write (`UsageInv`): any of the copies may be written back at any time. A
coroutine that fails is the only other way out of the list.

`RateLimitProofs`, for all settings, clients and requests

* `TypeCorrect`, `WindowIsBounded`, and the action property
  `RetryAfterIsHonest`.

`FlowInv` balances, client by client, what was admitted and what is left in the
bucket against a burst per eviction and what has flowed in; `PromiseInv` dates a
promise by the last look into the bucket.

`ToolCallsProofs`, for any agents, tools, backends, attempts and work

* `TypeCorrect`, `PassedIsGreen`, `LocalGreenIsPassed`, `AnswersAreComplete`,
  `ContainersAreBounded`, `CallsStayWithinGrants`.

What is said of finished work has to be said of every stage before it: what the
stages so far have added to `results` and to `green`, who waits for what runs,
how many containers the attempts that are left may cost, who was let through.

`WorkspaceProofs`, for any finite set of jobs on any tasks, any passes and
troubles

* `TypeCorrect`, `CommitsAreComplete`, `PlansSeeTheirCommit`,
  `IndexIsOfTheCommit`, `KnownRequestsAreOpen`, `ReportedCommitsArePushed`,
  `DeliverySucceeds`, and the action property `CommitsSurvive`.

`CountInv` bounds the edits in a clone by the passes in which its jobs have
written and the troubles there have been. `CloneInv`: one `git clone` runs in a directory, and commits come after
it. `PushInv` and `OpenInv` say what a job holds at each call of the delivery,
and survive the pushes of another job because commits only ever grow.
`IndexInv`: a transaction deletes rows of the commit it inserts, so a commit
stays indexed unless a copy without a chunk replaces it; a whole copy has the
chunks every other whole copy has, so the second is refused; and a job that runs
beside nobody finds all rows of its commit, so its own are never refused.
`FilesInv`, `SightInv` and `CycleInv` are about a job that has its task for
itself: its files agree with its commit wherever it reads them; what it reads,
indexes and retrieves is of the commit in its clone; and, if no call failed,
every place in the delivery knows what the last delivery left on GitHub.

Some definitions changed for the proofs, none in what it says of the code:
`CallTool`, `Parse`, `Verdict` and `HandlerEnds` had arms of a
CASE that overlap, whose value TLA+ leaves open, and `TypeOK` of `AgentHarness`
now types the records of `tasks.state` as well.

Only model-checked:

* the liveness properties `LoopsEnd`, `QueuedStarts`, `RunningEnds`,
  `EmissionEnds`, `GuardedAgentEnds` and `WorkEnds`: fairness and ENABLED are
  outside TLAPS;
* that `Workspace` never deadlocks, for the same reason;
* the four statements below, which are false.

## Where code and documentation part

Four runs end in a counterexample; `PROJECT.json` quotes the documents.

1. The judge may send work back without limit (`graph_judge_loop`).
2. A cancelled task still opens its pull request (`lifecycle_cancel`).
3. A resumed task finds no checkpoint and fails (`lifecycle_resume`).
4. With the Docker backend, the default, no stage ever passes: an exit code of 0
   is reported as 1 (`sandbox_docker`, `app/execution/docker.py:83`).

The models contain these too, without a run of their own:

* Re-planning is "capped by `max_feedback_iterations`" (`README.md:123`), but a
  poll without comments counts no cycle while old analyses still ask for it
  (`PollsPR`, `RouteAfterFeedback`); the superstep limit ends it.
* "Every LLM call is budgeted + accounted" (`README.md:126`), but a job writes
  back a stale `tasks.state` over records, and a record whose coroutine raises is
  lost (`KeptUnlessClobbered` says when).
* Indexing is scoped to a commit "so a task can retrieve code matching the commit
  it is modifying" (`models.py:109`), but `index` reads the files, whatever git
  says of them: a half checked out tree, another job's edits, the edits of a
  delivery that failed before its commit, and files git ignores are all filed
  under HEAD (`Extra`; `IndexedIsCommitted` says when not).
* An index that fails, or whose rows are refused because another task indexes the
  same commit, leaves `commit_sha` empty, and the planner is then given code of
  every commit of the repository (`IndexFails`, `IndexCollides`, `Visible`).
* The pull request is asked for with the upstream owner as the owner of the
  branch (`nodes.py:736`), which was pushed to the fork of the token's user:
  `Acceptable` needs `ownFork`.
* `_deliver` that fails after the pull request was opened stores `pr = None`; the
  next cycle asks for another, which GitHub refuses from then on.
* `refresh_auth` (`client.py:92`) promises the classic token on any error, and
  catches refusals only (`AuthAnswers`).
* The MCP layer "cannot exceed what the harness allowed"
  (`harness/permissions.py:145`), but a category without a level falls back to
  READ (`Level`): the tester may read GitHub.
* The local sandbox "enforces a timeout" (`local.py:20`), but after the kill it
  waits for the pipes without one: `WorkEnds` has to exempt `held`. The kill
  reaches the child alone: what it started and detached runs on (`loose`), also
  after the answer and into the next stage.
* `Retry-After` is rounded down, so a client that obeys it may be refused again:
  `RetryAfterHonest` grants such a rate another second (`Slack`).
* `SpanRecorder` "keeps the most recent" spans of a trace and drops the newest
  (`tracing.py:148`); not modelled, read only.

Behaviour the models show and no document speaks of: with
`max_fix_iterations >= max_workflow_iterations` the judge is overruled; a resumed
graph works while its row says PAUSED; a duplicate submission starts a second
job on the same workspace; two racing submissions create two rows; RUNNING rows
outlive a restart; without the default provider's key, or with `auto_discover`
off, accepted rows stay QUEUED; a clone whose checkout fails is worked in, and
the next delivery commits the files it lacks as deleted; a replay that breaks off leaves a queue that, once full,
blocks every later emission of the task; agents other than coder and delivery
have no deadline of their own.

## Not modelled

Prompts, JSON parsing, chunking, embeddings, ranking, logging, HTML and schema
DDL: the data no property is about. Permission denial, audit rows and redaction
of the harness: no effect on the state above. A second job on one row in
`AgentHarness`: `TaskLifecycle` has it for the status column. Observability and
evaluation: they read what the workflow leaves and nothing reads them. The
allowlist of commands: every command the program runs is a constant it admits.
`git clone` has no timeout and may never end; `Workspace` has no liveness. Changed
files that git ignores never reach a pull request; the model only has that they
exist and are indexed. Nobody closes or merges a pull request.

## Plan

1. Safety parts of the liveness arguments: the ranking that an invocation of
   the graph, an emission and a job's attempts come down, as action properties
   that hold of every step.
2. Abstract specifications of the smaller components, with proved refinements:
   a limiter that only keeps what it has admitted, a stream that is the log.
3. What weaker promise the code keeps in place of `CancelStopsWorkflow` and
   `ResumeContinues`, as theorems.
