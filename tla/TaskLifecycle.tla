---------------------------- MODULE TaskLifecycle ----------------------------
(***************************************************************************)
(* The life of the task rows of one repository and issue: the requests of  *)
(* api/routes/tasks.py, the background jobs of orchestration/runner.py,    *)
(* TaskService and TaskRepository, and the idempotency store of            *)
(* security/recovery.py.                                                   *)
(*                                                                         *)
(* A client sends one request.  A submission or a resumption leaves a      *)
(* background job behind, which runs in the same process after the         *)
(* response.  Every job has a database session of its own: while the job's *)
(* code holds the Task object the row is CACHED in the session, a commit   *)
(* writes the status only if it differs from the cached one, and only      *)
(* refresh() reads the table again.  TaskService.run holds the object      *)
(* during discovery and run_task from its status check on; a resumption    *)
(* holds none and loads the row for every update.  Other jobs and requests *)
(* run at every await.                                                     *)
(*                                                                         *)
(* The graph itself is abstracted to what it does to the row: deliver and  *)
(* complete, pause, fail, raise or never return (SupervisorGraph has the   *)
(* details).  A job builds its workflow on a MemorySaver of its own, so a  *)
(* resumption finds no checkpoint.                                         *)
(***************************************************************************)
EXTENDS Naturals

CONSTANTS
  Clients,     \* each sends one request
  MaxTasks,    \* bound on the rows created
  MaxCrashes   \* bound on the crashes of the server process

ASSUME Bounds == MaxTasks \in Nat \ {0} /\ MaxCrashes \in Nat

VARIABLES
  rows,      \* number of rows: row n is the n-th by created_at
  db,        \* db[t]: committed status of row t
  seen,      \* the issue's key is in idempotency_store
  proc,      \* proc[c]: where c's request or job is
  enabled,   \* this process' settings: auto_discover, and the provider's key
  crashes

(* History, read by properties only.                                       *)
VARIABLES
  stranded,  \* rows whose job died with the process, no job since
  opened     \* opened[t]: pull requests opened for row t

vars == <<rows, db, seen, proc, enabled, crashes, stranded, opened>>

Ids == 1..MaxTasks
Statuses == {"queued", "running", "paused", "completed", "failed", "cancelled"}
NoRow == "absent"

(* Where a request (first row) or a job (the others) is.  "refresh" is the *)
(* await between a commit and refresh(); then names what follows it.       *)
Steps == {"idle", "find", "insert", "cancel_load", "cancel_commit",
          "load", "start", "refresh", "discover", "gate", "graph", "lost",
          "raise", "delivered", "sync_pause", "persist", "hung", "done",
          "turned_away", "dead"}

Kinds == {"none", "submit", "cancel", "resume"}
Known == Statuses \union {NoRow}
Outcomes == {"completed", "failed", "paused", NoRow}

Procs == [kind : Kinds,
          pc : Steps, then : Steps,
          task : Ids \union {0},
          cache : Known,     \* the row's status in c's session
          found : Known,     \* what a resumption loaded
          value : Outcomes,  \* the status channel of the graph
          worked : BOOLEAN]  \* the job's graph ran on the task's state

Idle == [kind |-> "none", pc |-> "idle", then |-> "idle", task |-> 0,
         cache |-> NoRow, found |-> NoRow, value |-> NoRow, worked |-> FALSE]

IsJob(p) == p.pc \in {"load", "start", "refresh", "discover", "gate", "graph",
                      "lost", "raise", "delivered", "sync_pause", "persist",
                      "hung"}

Init ==
  /\ rows = 0 /\ db = [t \in Ids |-> NoRow] /\ seen = FALSE
  /\ proc = [c \in Clients |-> Idle]
  /\ enabled \in BOOLEAN /\ crashes = 0
  /\ stranded = {} /\ opened = [t \in Ids |-> 0]

At(c, label) == proc[c].pc = label

Becomes(c, p) == proc' = [proc EXCEPT ![c] = p]

Move(c, label) == Becomes(c, [proc[c] EXCEPT !.pc = label])

(* The table after c's session has committed status s.                     *)
Written(c, s) ==
  IF proc[c].cache = s THEN db ELSE [db EXCEPT ![proc[c].task] = s]

(* TaskRepository.update_status up to its commit: the UPDATE carries the   *)
(* status only if the cached object's value changed.                       *)
Commit(c, s, next) ==
  /\ db' = Written(c, s)
  /\ Becomes(c, [proc[c] EXCEPT !.cache = s, !.pc = "refresh", !.then = next])

(* ... and its refresh(), unless the job ends with it.                     *)
Refresh(c) ==
  /\ At(c, "refresh") /\ proc[c].then # "done"
  /\ Becomes(c, [proc[c] EXCEPT !.cache = db[proc[c].task],
                                !.pc = proc[c].then, !.then = "idle"])
  /\ UNCHANGED <<rows, db, seen, enabled, crashes, stranded, opened>>

(* A request or a job is over and closes its session.                      *)
Closed(p) == [p EXCEPT !.pc = "done", !.then = "idle", !.cache = NoRow]

EndsJob(c) ==
  /\ Becomes(c, Closed(proc[c]))
  /\ stranded' = stranded \ {proc[c].task}

LastRefresh(c) ==
  /\ At(c, "refresh") /\ proc[c].then = "done"
  /\ EndsJob(c)
  /\ UNCHANGED <<rows, db, seen, enabled, crashes, opened>>
-----------------------------------------------------------------------------
(* POST /api/tasks.  The key is checked and marked before the first await. *)
Submit(c) ==
  /\ At(c, "idle") /\ rows < MaxTasks
  /\ seen' = TRUE
  /\ Becomes(c, [proc[c] EXCEPT !.kind = "submit",
                                !.pc = IF seen THEN "find" ELSE "insert"])
  /\ UNCHANGED <<rows, db, enabled, crashes, stranded, opened>>

(* A known key: the newest row is returned, and scheduled like a new one;  *)
(* the key may be known before its row is.                                 *)
FindExisting(c) ==
  /\ At(c, "find")
  /\ \/ rows = 0 /\ Move(c, "insert")
     \/ rows # 0 /\ Becomes(c, [proc[c] EXCEPT !.pc = "load", !.task = rows])
  /\ UNCHANGED <<rows, db, seen, enabled, crashes, stranded, opened>>

(* A slip: the job of a new row is not scheduled.                          *)
InsertWithoutJob(c) ==
  /\ At(c, "insert") /\ rows < MaxTasks
  /\ rows' = rows + 1
  /\ db' = [db EXCEPT ![rows + 1] = "queued"]
  /\ Becomes(c, Closed([proc[c] EXCEPT !.task = rows + 1]))
  /\ UNCHANGED <<seen, enabled, crashes, stranded, opened>>

Insert(c) ==
  /\ At(c, "insert") /\ rows < MaxTasks
  /\ rows' = rows + 1
  /\ db' = [db EXCEPT ![rows + 1] = "queued"]
  /\ Becomes(c, [proc[c] EXCEPT !.pc = "load", !.task = rows + 1])
  /\ UNCHANGED <<seen, enabled, crashes, stranded, opened>>

(* POST /cancel: update_status in the request's own session.               *)
Cancel(c, t) ==
  /\ At(c, "idle") /\ t <= rows
  /\ Becomes(c, [proc[c] EXCEPT !.kind = "cancel", !.pc = "cancel_load",
                                !.task = t])
  /\ UNCHANGED <<rows, db, seen, enabled, crashes, stranded, opened>>

CancelLoad(c) ==
  /\ At(c, "cancel_load")
  /\ Becomes(c, [proc[c] EXCEPT !.cache = db[proc[c].task],
                                !.pc = "cancel_commit"])
  /\ UNCHANGED <<rows, db, seen, enabled, crashes, stranded, opened>>

CancelCommit(c) ==
  /\ At(c, "cancel_commit")
  /\ db' = Written(c, "cancelled")
  /\ Becomes(c, Closed(proc[c]))
  /\ UNCHANGED <<rows, seen, enabled, crashes, stranded, opened>>

(* POST /resume asks only that the row exists.                             *)
Resume(c, t) ==
  /\ At(c, "idle") /\ t <= rows
  /\ Becomes(c, [proc[c] EXCEPT !.kind = "resume", !.pc = "load", !.task = t])
  /\ UNCHANGED <<rows, db, seen, enabled, crashes, stranded, opened>>
-----------------------------------------------------------------------------
(* Background jobs.                                                        *)

(* run_task and resume_task_bg return at once when auto_discover is off,   *)
(* and raise, outside their try, when the default provider has no key: the *)
(* settings are read once a process (get_settings is cached).              *)
TurnedAway(c) ==
  /\ At(c, "load") /\ ~enabled
  /\ Move(c, "turned_away")
  /\ UNCHANGED <<rows, db, seen, enabled, crashes, stranded, opened>>

(* The first get() of the job's session.                                   *)
Load(c) ==
  /\ At(c, "load") /\ enabled
  /\ Becomes(c, [proc[c] EXCEPT !.pc = "start", !.cache = db[proc[c].task],
                                !.found = IF proc[c].kind = "resume"
                                          THEN db[proc[c].task] ELSE NoRow])
  /\ UNCHANGED <<rows, db, seen, enabled, crashes, stranded, opened>>

(* mark_started, whatever the status was.                                  *)
MarkStarted(c) ==
  /\ At(c, "start")
  /\ Commit(c, "running", IF proc[c].kind = "resume" THEN "lost" ELSE "discover")
  /\ UNCHANGED <<rows, seen, enabled, crashes, stranded, opened>>

(* Discovery fetches the repository and the issue: success, an HTTP or     *)
(* validation error (TaskService.run fails the task and returns), or any   *)
(* other exception (run_task fails the task and ends).                     *)
Discovered(c) ==
  /\ At(c, "discover") /\ Move(c, "gate")
  /\ UNCHANGED <<rows, db, seen, enabled, crashes, stranded, opened>>

(* A slip: discovery fails and the row is not told.                        *)
DiscoveryFailsSilently(c, next) ==
  /\ At(c, "discover") /\ next \in {"gate", "done"}
  /\ Becomes(c, [proc[c] EXCEPT !.pc = "refresh", !.then = next])
  /\ UNCHANGED <<rows, db, seen, enabled, crashes, stranded, opened>>

DiscoveryFails(c, next) ==
  /\ At(c, "discover") /\ next \in {"gate", "done"}
  /\ Commit(c, "failed", next)
  /\ UNCHANGED <<rows, seen, enabled, crashes, stranded, opened>>

(* run_task loads the row anew and starts the workflow only if it says     *)
(* RUNNING.                                                                *)
Gate(c) ==
  /\ At(c, "gate")
  /\ IF db[proc[c].task] = "running"
     THEN /\ Becomes(c, [proc[c] EXCEPT !.pc = "graph", !.cache = "running",
                                        !.worked = TRUE])
          /\ UNCHANGED stranded
     ELSE EndsJob(c)
  /\ UNCHANGED <<rows, db, seen, enabled, crashes, opened>>

(* The first delivery of the graph opens the PR, or fails to; later cycles *)
(* update it.                                                              *)
Deliver(c) ==
  /\ At(c, "graph") /\ Move(c, "delivered")
  /\ opened' \in {opened, [opened EXCEPT ![proc[c].task] = @ + 1]}
  /\ UNCHANGED <<rows, db, seen, enabled, crashes, stranded>>

(* finalize_node and failed_node write their outcome to the row and to the *)
(* status channel, which _sync then mirrors.                               *)
EndsGraph(c, s) ==
  /\ Becomes(c, [proc[c] EXCEPT !.value = s, !.cache = s, !.pc = "refresh",
                                !.then = "persist"])
  /\ db' = Written(c, s)
  /\ UNCHANGED <<rows, seen, enabled, crashes, stranded, opened>>

Finalize(c) == At(c, "delivered") /\ EndsGraph(c, "completed")
GivesUp(c) == (At(c, "graph") \/ At(c, "delivered")) /\ EndsGraph(c, "failed")

(* needs_clarification: pause_task, interrupt, and _sync pauses again.     *)
AskHuman(c) ==
  /\ At(c, "graph") \/ At(c, "delivered")
  /\ Commit(c, "paused", "sync_pause")
  /\ UNCHANGED <<rows, seen, enabled, crashes, stranded, opened>>

(* A slip: the status channel, which still says RUNNING, is persisted.     *)
SyncKeepsRunning(c) ==
  /\ At(c, "sync_pause")
  /\ EndsGraph(c, "running")

SyncPause(c) ==
  /\ At(c, "sync_pause")
  /\ EndsGraph(c, "paused")

(* A slip: what ended is taken for completed, as the metrics do.           *)
PersistAssumesSuccess(c) ==
  /\ At(c, "persist")
  /\ db' = Written(c, "completed")
  /\ EndsJob(c)
  /\ UNCHANGED <<rows, seen, enabled, crashes, opened>>

(* persist_workflow_state: the snapshot's status, no refresh.              *)
Persist(c) ==
  /\ At(c, "persist")
  /\ db' = Written(c, proc[c].value)
  /\ EndsJob(c)
  /\ UNCHANGED <<rows, seen, enabled, crashes, opened>>

(* A resumption has no checkpoint to go on from: ainvoke raises (no input, *)
(* or a first node without a task_id), and fail_task loads the row ...     *)
LosesThread(c) ==
  /\ At(c, "lost")
  /\ Becomes(c, [proc[c] EXCEPT !.pc = "raise", !.cache = db[proc[c].task]])
  /\ UNCHANGED <<rows, db, seen, enabled, crashes, stranded, opened>>

(* A slip: the exception is logged and the row is not told.                *)
RaisesSilently(c) ==
  /\ At(c, "graph") \/ At(c, "delivered") \/ At(c, "raise")
  /\ EndsJob(c)
  /\ UNCHANGED <<rows, db, seen, enabled, crashes, opened>>

(* ... and fails the task, as after an exception out of a running graph.   *)
Raises(c) ==
  /\ At(c, "graph") \/ At(c, "delivered") \/ At(c, "raise")
  /\ Commit(c, "failed", "done")
  /\ UNCHANGED <<rows, seen, enabled, crashes, stranded, opened>>

(* Some awaits of a job have no limit: an emit on a full subscriber queue  *)
(* (after a status is written, in discovery and in every node), git clone, *)
(* a sandboxed command whose child keeps its pipes.                        *)
Hangs(c) ==
  /\ proc[c].pc \in {"refresh", "discover", "graph", "delivered"}
  /\ Move(c, "hung")
  /\ UNCHANGED <<rows, db, seen, enabled, crashes, stranded, opened>>

Over(p) == p.pc \in {"idle", "done", "turned_away"}

(* The server process dies and restarts, perhaps with other settings:      *)
(* requests and jobs are gone, the idempotency store is empty, the table   *)
(* is as it was committed.                                                 *)
Crash ==
  /\ crashes < MaxCrashes /\ crashes' = crashes + 1
  /\ \E c \in Clients : ~Over(proc[c])
  /\ seen' = FALSE /\ enabled' \in BOOLEAN
  /\ proc' = [c \in Clients |->
                IF Over(proc[c]) THEN proc[c]
                ELSE [Closed(proc[c]) EXCEPT !.pc = "dead"]]
  /\ stranded' = stranded \union {proc[c].task : c \in {d \in Clients : IsJob(proc[d])}}
  /\ UNCHANGED <<rows, db, opened>>

RequestStep(c) ==
  FindExisting(c) \/ Insert(c) \/ CancelLoad(c) \/ CancelCommit(c)

JobStep(c) ==
  \/ TurnedAway(c) \/ Load(c)
  \/ MarkStarted(c) \/ Refresh(c) \/ LastRefresh(c)
  \/ Discovered(c) \/ \E next \in {"gate", "done"} : DiscoveryFails(c, next)
  \/ Gate(c) \/ Deliver(c) \/ Finalize(c) \/ GivesUp(c) \/ AskHuman(c)
  \/ SyncPause(c) \/ Persist(c) \/ LosesThread(c) \/ Raises(c)

NewRequest(c) == Submit(c) \/ \E t \in Ids : Cancel(c, t) \/ Resume(c, t)

Next ==
  \/ Crash
  \/ \E c \in Clients : NewRequest(c) \/ RequestStep(c) \/ JobStep(c) \/ Hangs(c)

Spec == Init /\ [][Next]_vars

(* The event loop runs every request and job that is ready.  A job that    *)
(* waits without limit is never ready again (Hangs, which has no           *)
(* fairness); requests need not come and the process need not crash.       *)
FairSpec ==
  Spec /\ \A c \in Clients : WF_vars(RequestStep(c)) /\ WF_vars(JobStep(c))
-----------------------------------------------------------------------------
TypeOK ==
  /\ rows \in 0..MaxTasks /\ crashes \in 0..MaxCrashes
  /\ seen \in BOOLEAN /\ enabled \in BOOLEAN
  /\ db \in [Ids -> Known]
  /\ proc \in [Clients -> Procs]
  /\ stranded \subseteq Ids \union {0}
  /\ opened \in [Ids -> Nat]

HasJob(t) == \E c \in Clients : IsJob(proc[c]) /\ proc[c].task = t
Hung(t) == \E c \in Clients : At(c, "hung") /\ proc[c].task = t
Refused(t) == \E c \in Clients : At(c, "turned_away") /\ proc[c].task = t

(* A row that says RUNNING has a job at work on it, or waiting for ever in *)
(* one of its awaits, unless the process died under its job and no job has *)
(* run for it since; one that says QUEUED may also have been turned away   *)
(* by the process' settings.  Cached statuses, skipped UPDATEs, a          *)
(* discovery failure that another job's refresh hides, duplicate jobs and  *)
(* cancellations never leave a row behind that nobody will finish          *)
(* (runner.run_task, update_status).                                       *)
BusyRowsHaveJobs ==
  \A t \in 1..rows :
    /\ db[t] = "running" => HasJob(t) \/ t \in stranded
    /\ db[t] = "queued" => HasJob(t) \/ t \in stranded \/ Refused(t)

(* When exactly one request or job ever touched a row and that job is      *)
(* over, the row says how it ended: QUEUED if the job was turned away,     *)
(* COMPLETED or PAUSED as the status channel, else FAILED.                 *)
LoneJobReports ==
  \A c \in Clients :
    /\ proc[c].kind = "submit" /\ proc[c].pc \in {"done", "turned_away"}
    /\ \A d \in Clients \ {c} : proc[d].task # proc[c].task
    => db[proc[c].task] = IF proc[c].pc = "turned_away" THEN "queued"
                          ELSE IF proc[c].value = NoRow THEN "failed"
                          ELSE proc[c].value

(* Every row that was accepted is worked on: it leaves QUEUED, unless the  *)
(* process died under its job or its settings turned the job away.         *)
QueuedStarts ==
  \A t \in Ids :
    db[t] = "queued" ~> db[t] # "queued" \/ t \in stranded \/ Refused(t)

(* ... and no row stays RUNNING: whatever discovery, the graph, duplicate  *)
(* jobs or a resumption without a checkpoint do, a final or paused status  *)
(* is written (runner.run_task, TaskService.run), unless the process dies  *)
(* or an await without a limit holds one of the row's jobs for ever.       *)
RunningEnds ==
  \A t \in Ids :
    db[t] = "running" ~> db[t] # "running" \/ t \in stranded \/ Hung(t)
-----------------------------------------------------------------------------
(* Statements of the documentation the code does not keep.                 *)

(* Requirement.md:1328-1330: "POST /api/tasks/{task_id}/cancel  Cancel a   *)
(* running workflow."  A workflow that opens its PR after the row says     *)
(* CANCELLED was not cancelled.                                            *)
CancelStopsWorkflow ==
  [][\A t \in Ids : opened'[t] # opened[t] => db[t] # "cancelled"]_<<opened, db>>

(* README.md:276: "POST /api/tasks/{task_id}/resume: Resume a paused       *)
(* workflow".                                                              *)
ResumeContinues ==
  \A c \in Clients :
    proc[c].kind = "resume" /\ proc[c].found = "paused" /\ proc[c].pc = "done"
      => proc[c].worked
=============================================================================
