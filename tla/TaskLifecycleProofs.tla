------------------------- MODULE TaskLifecycleProofs -------------------------
(***************************************************************************)
(* For any number of clients, rows and crashes: a row that says QUEUED or  *)
(* RUNNING has a job at work on it, unless the process died under its job  *)
(* or its settings turned the job away.                                    *)
(*                                                                         *)
(* HasJob is not inductive, because a job may end without writing (its     *)
(* UPDATE was skipped, or the status check stopped it).  BusyInv names for *)
(* every busy row a job that is still going to write over the busy status: *)
(* one that has not yet marked the row, or one whose session holds the     *)
(* status RUNNING, so that its next update_status is not skipped.          *)
(* DisabledInv adds what a process that takes no jobs leaves as it is.     *)
(***************************************************************************)
EXTENDS TaskLifecycle, TLAPS

(* c's job will find the row RUNNING and go on to overwrite it, or hangs.  *)
EndsRunning(c, t) ==
  /\ proc[c].task = t
  /\ \/ proc[c].pc \in {"load", "start", "gate", "lost"}
     \/ proc[c].pc = "hung"
     \/ proc[c].pc = "refresh" /\ proc[c].then \in {"discover", "lost"}
     \/ /\ proc[c].pc \in {"discover", "graph", "delivered", "raise"}
        /\ proc[c].cache = "running"

(* c's job has not marked the row yet and its UPDATE will not be skipped.  *)
EndsQueued(c, t) ==
  /\ proc[c].task = t
  /\ \/ proc[c].pc = "load"
     \/ proc[c].pc = "start" /\ proc[c].cache # "running"

(* The process died under t's job and no job runs for it.                  *)
Orphaned(t) == t \in stranded /\ ~HasJob(t)

BusyAt(t) ==
  /\ db[t] = "running" => (\E c \in Clients : EndsRunning(c, t)) \/ Orphaned(t)
  /\ db[t] = "queued" =>
       (\E c \in Clients : EndsQueued(c, t)) \/ Orphaned(t) \/ Refused(t)

BusyInv == \A t \in 1..rows : BusyAt(t)

(* A process that takes no jobs has none past its door, and left behind    *)
(* whatever still says RUNNING.                                            *)
DisabledInv ==
  ~enabled =>
    /\ \A c \in Clients : IsJob(proc[c]) => proc[c].pc = "load"
    /\ \A t \in 1..rows : db[t] = "running" => t \in stranded

(* A request past its lookup, and every job, knows an existing row.        *)
TaskKnown ==
  \A c \in Clients :
    IsJob(proc[c]) \/ proc[c].pc \in {"cancel_load", "cancel_commit"}
      => proc[c].task \in 1..rows

TypeInv == TypeOK /\ TaskKnown

IInv == TypeInv /\ BusyInv /\ DisabledInv
-----------------------------------------------------------------------------
(* The names of the steps, unfolded once.                                  *)
LEMMA Names ==
  /\ {"idle", "find", "insert", "cancel_load", "cancel_commit", "load", "start",
      "refresh", "discover", "gate", "graph", "lost", "raise", "delivered",
      "sync_pause", "persist", "hung", "done", "turned_away",
      "dead"} \subseteq Steps
  /\ {"none", "submit", "cancel", "resume"} \subseteq Kinds
  /\ {"queued", "running", "paused", "completed", "failed", "cancelled",
      NoRow} \subseteq Known
  /\ {"completed", "failed", "paused", NoRow} \subseteq Outcomes
  /\ Outcomes \subseteq Known
  BY DEF Steps, Kinds, Known, Statuses, Outcomes

(* One process moves, the others stay.                                     *)
LEMMA BecomesTypes ==
  ASSUME proc \in [Clients -> Procs], NEW c \in Clients, NEW p \in Procs,
         Becomes(c, p)
  PROVE  /\ proc' \in [Clients -> Procs]
         /\ proc'[c] = p
         /\ \A d \in Clients \ {c} : proc'[d] = proc[d]
  BY DEF Becomes

(* What a step of c has to show of c's own next state to keep TypeInv,     *)
(* when it touches neither the table nor the counters.                     *)
KnowsRow(p, n) ==
  IsJob(p) \/ p.pc \in {"cancel_load", "cancel_commit"} => p.task \in 1..n

LEMMA OwnStep ==
  ASSUME TypeInv, NEW c \in Clients, NEW p \in Procs, Becomes(c, p),
         rows' \in rows..MaxTasks, KnowsRow(p, rows')
  PROVE  proc' \in [Clients -> Procs] /\ TaskKnown'
<1> USE Bounds DEF TypeInv, TypeOK
<1>1. /\ proc' \in [Clients -> Procs]
      /\ proc'[c] = p
      /\ \A d \in Clients \ {c} : proc'[d] = proc[d]
  BY BecomesTypes
<1>2. ASSUME NEW d \in Clients PROVE KnowsRow(proc'[d], rows')
  <2>1. CASE d = c BY <2>1, <1>1
  <2>2. CASE d # c
    BY <2>2, <1>1 DEF TaskKnown, KnowsRow, IsJob
  <2> QED BY <2>1, <2>2
<1> QED BY <1>1, <1>2 DEF TaskKnown, KnowsRow, IsJob

LEMMA WrittenTypes ==
  ASSUME TypeOK, NEW c \in Clients, NEW s \in Known
  PROVE  Written(c, s) \in [Ids -> Known]
  BY DEF TypeOK, Written

(* Every job and every cancellation at work has a row of the table.        *)
LEMMA OwnRow ==
  ASSUME TypeInv, NEW c \in Clients,
         IsJob(proc[c]) \/ proc[c].pc \in {"cancel_load", "cancel_commit"}
  PROVE  /\ proc[c] \in Procs
         /\ proc[c].task \in 1..rows
         /\ proc[c].task \in Ids
         /\ db[proc[c].task] \in Known
  BY Bounds DEF TypeInv, TypeOK, TaskKnown, Ids
-----------------------------------------------------------------------------
(* Type correctness.                                                       *)
LEMMA TypeInit == Init => TypeInv
<1> SUFFICES ASSUME Init PROVE TypeInv
  OBVIOUS
<1>1. Idle \in Procs
  BY Names DEF Idle, Procs
<1>2. TaskKnown
  BY DEF Init, TaskKnown, Idle, IsJob
<1>3. rows \in 0..MaxTasks /\ crashes \in 0..MaxCrashes
  BY Bounds DEF Init
<1>4. db \in [Ids -> Known] /\ proc \in [Clients -> Procs]
  BY <1>1, Names DEF Init
<1>5. /\ stranded \subseteq Ids \union {0}
      /\ seen \in BOOLEAN /\ enabled \in BOOLEAN
      /\ opened \in [Ids -> Nat]
  BY DEF Init
<1> QED BY <1>2, <1>3, <1>4, <1>5 DEF TypeInv, TypeOK

LEMMA CommitTypes ==
  ASSUME TypeInv, NEW c \in Clients, IsJob(proc[c]), NEW s \in Known,
         NEW next \in Steps, Commit(c, s, next), UNCHANGED rows
  PROVE  db' \in [Ids -> Known] /\ proc' \in [Clients -> Procs] /\ TaskKnown'
<1> DEFINE p == [proc[c] EXCEPT !.cache = s, !.pc = "refresh", !.then = next]
<1>1. p \in Procs /\ p.task = proc[c].task
  BY OwnRow, Names DEF Procs
<1>2. Becomes(c, p) /\ KnowsRow(p, rows')
  BY <1>1, OwnRow DEF Commit, KnowsRow
<1>3. rows' \in rows..MaxTasks
  BY Bounds DEF TypeInv, TypeOK
<1> HIDE DEF p
<1>4. proc' \in [Clients -> Procs] /\ TaskKnown'
  BY <1>1, <1>2, <1>3, OwnStep
<1> QED BY <1>4, WrittenTypes DEF Commit, TypeInv

LEMMA EndsGraphTypes ==
  ASSUME TypeInv, NEW c \in Clients, IsJob(proc[c]), NEW s \in Outcomes,
         EndsGraph(c, s)
  PROVE  TypeInv'
<1>0. s \in Known
  BY Names
<1> DEFINE p == [proc[c] EXCEPT !.value = s, !.cache = s, !.pc = "refresh",
                                !.then = "persist"]
<1>1. p \in Procs /\ p.task = proc[c].task
  BY OwnRow, Names DEF Procs
<1>2. Becomes(c, p) /\ KnowsRow(p, rows')
  BY <1>1, OwnRow DEF EndsGraph, KnowsRow
<1>3. rows' \in rows..MaxTasks
  BY Bounds DEF TypeInv, TypeOK, EndsGraph
<1> HIDE DEF p
<1>4. proc' \in [Clients -> Procs] /\ TaskKnown'
  BY <1>1, <1>2, <1>3, OwnStep
<1> QED BY <1>0, <1>4, WrittenTypes DEF EndsGraph, TypeInv, TypeOK

LEMMA ClosedTypes ==
  ASSUME NEW p \in Procs
  PROVE  Closed(p) \in Procs /\ \A n : KnowsRow(Closed(p), n)
  BY Names DEF Closed, Procs, KnowsRow, IsJob

LEMMA EndsJobTypes ==
  ASSUME TypeInv, NEW c \in Clients, Becomes(c, Closed(proc[c])), UNCHANGED rows
  PROVE  proc' \in [Clients -> Procs] /\ TaskKnown'
<1>1. proc[c] \in Procs /\ rows' \in rows..MaxTasks
  BY Bounds DEF TypeInv, TypeOK
<1> QED BY <1>1, ClosedTypes, OwnStep

LEMMA MoveTypes ==
  ASSUME TypeInv, NEW c \in Clients, NEW l \in Steps, Move(c, l),
         KnowsRow([proc[c] EXCEPT !.pc = l], rows), UNCHANGED rows
  PROVE  proc' \in [Clients -> Procs] /\ TaskKnown'
<1>1. [proc[c] EXCEPT !.pc = l] \in Procs
  BY DEF TypeInv, TypeOK, Procs
<1>2. rows' \in rows..MaxTasks
  BY Bounds DEF TypeInv, TypeOK
<1> QED BY <1>1, <1>2, OwnStep DEF Move

LEMMA RequestTypes ==
  ASSUME TypeInv, NEW c \in Clients, RequestStep(c) \/ NewRequest(c)
  PROVE  TypeInv'
<1>0. /\ proc[c] \in Procs /\ rows \in 0..MaxTasks /\ MaxTasks \in Nat
      /\ 1..rows \subseteq Ids
  BY Bounds DEF TypeInv, TypeOK, Ids
<1> USE <1>0, Names
<1>1. CASE Submit(c)
  <2> DEFINE p == [proc[c] EXCEPT !.kind = "submit",
                                  !.pc = IF seen THEN "find" ELSE "insert"]
  <2>1. p \in Procs BY DEF Procs
  <2>2. KnowsRow(p, rows') BY DEF KnowsRow, IsJob, Procs
  <2>3. Becomes(c, p) /\ rows' \in rows..MaxTasks BY <1>1 DEF Submit
  <2> HIDE DEF p
  <2> QED BY <1>1, <2>1, <2>2, <2>3, OwnStep DEF Submit, TypeInv, TypeOK
<1>2. CASE FindExisting(c)
  <2>1. proc' \in [Clients -> Procs] /\ TaskKnown'
    <3>1. CASE Move(c, "insert")
      <4>1. KnowsRow([proc[c] EXCEPT !.pc = "insert"], rows)
        BY DEF KnowsRow, IsJob, Procs
      <4> QED BY <1>2, <3>1, <4>1, MoveTypes DEF FindExisting
    <3>2. CASE rows # 0 /\ Becomes(c, [proc[c] EXCEPT !.pc = "load", !.task = rows])
      <4> DEFINE p == [proc[c] EXCEPT !.pc = "load", !.task = rows]
      <4>1. rows \in 1..rows BY <3>2
      <4>2. p \in Procs BY <4>1 DEF Procs
      <4>3. KnowsRow(p, rows') BY <1>2, <4>1 DEF KnowsRow, Procs, FindExisting
      <4>4. Becomes(c, p) /\ rows' \in rows..MaxTasks
        BY <1>2, <3>2 DEF FindExisting
      <4> HIDE DEF p
      <4> QED BY <4>2, <4>3, <4>4, OwnStep
    <3> QED BY <1>2, <3>1, <3>2 DEF FindExisting
  <2> QED BY <1>2, <2>1 DEF FindExisting, TypeInv, TypeOK
<1>3. CASE Insert(c)
  <2> DEFINE p == [proc[c] EXCEPT !.pc = "load", !.task = rows + 1]
  <2>1. rows + 1 \in Ids /\ rows' = rows + 1 /\ rows' \in rows..MaxTasks
    BY <1>3 DEF Insert, Ids
  <2>2. p \in Procs BY <2>1 DEF Procs
  <2>3. KnowsRow(p, rows') BY <2>1 DEF KnowsRow, Procs
  <2>4. Becomes(c, p) BY <1>3 DEF Insert
  <2> HIDE DEF p
  <2>5. proc' \in [Clients -> Procs] /\ TaskKnown'
    BY <2>1, <2>2, <2>3, <2>4, OwnStep
  <2>6. db' \in [Ids -> Known]
    BY <1>3 DEF Insert, TypeInv, TypeOK
  <2> QED BY <1>3, <2>1, <2>5, <2>6 DEF Insert, TypeInv, TypeOK
<1>4. ASSUME NEW t \in Ids, Cancel(c, t) PROVE TypeInv'
  <2> DEFINE p == [proc[c] EXCEPT !.kind = "cancel", !.pc = "cancel_load",
                                  !.task = t]
  <2>1. t \in 1..rows BY <1>4 DEF Cancel, Ids
  <2>2. p \in Procs BY DEF Procs
  <2>3. KnowsRow(p, rows') BY <1>4, <2>1 DEF KnowsRow, Procs, Cancel
  <2>4. Becomes(c, p) /\ rows' \in rows..MaxTasks BY <1>4 DEF Cancel
  <2> HIDE DEF p
  <2> QED BY <1>4, <2>2, <2>3, <2>4, OwnStep DEF Cancel, TypeInv, TypeOK
<1>5. ASSUME NEW t \in Ids, Resume(c, t) PROVE TypeInv'
  <2> DEFINE p == [proc[c] EXCEPT !.kind = "resume", !.pc = "load", !.task = t]
  <2>1. t \in 1..rows BY <1>5 DEF Resume, Ids
  <2>2. p \in Procs BY DEF Procs
  <2>3. KnowsRow(p, rows') BY <1>5, <2>1 DEF KnowsRow, Procs, Resume
  <2>4. Becomes(c, p) /\ rows' \in rows..MaxTasks BY <1>5 DEF Resume
  <2> HIDE DEF p
  <2> QED BY <1>5, <2>2, <2>3, <2>4, OwnStep DEF Resume, TypeInv, TypeOK
<1>6. CASE CancelLoad(c)
  <2> DEFINE p == [proc[c] EXCEPT !.cache = db[proc[c].task],
                                  !.pc = "cancel_commit"]
  <2>1. proc[c].task \in 1..rows /\ db[proc[c].task] \in Known
    BY <1>6, OwnRow DEF CancelLoad, At
  <2>2. p \in Procs BY <2>1 DEF Procs
  <2>3. KnowsRow(p, rows') BY <1>6, <2>1 DEF KnowsRow, Procs, CancelLoad
  <2>4. Becomes(c, p) /\ rows' \in rows..MaxTasks BY <1>6 DEF CancelLoad
  <2> HIDE DEF p
  <2> QED BY <1>6, <2>2, <2>3, <2>4, OwnStep DEF CancelLoad, TypeInv, TypeOK
<1>7. CASE CancelCommit(c)
  BY <1>7, EndsJobTypes, WrittenTypes DEF CancelCommit, TypeInv, TypeOK
<1> QED
  BY <1>1, <1>2, <1>3, <1>4, <1>5, <1>6, <1>7 DEF RequestStep, NewRequest

LEMMA JobTypes ==
  ASSUME TypeInv, NEW c \in Clients, JobStep(c) \/ Hangs(c)
  PROVE  TypeInv'
<1>0. /\ proc[c] \in Procs /\ rows \in 0..MaxTasks /\ MaxTasks \in Nat
      /\ opened \in [Ids -> Nat]
      /\ stranded \subseteq Ids \union {0}
  BY Bounds DEF TypeInv, TypeOK
<1>a. /\ IsJob(proc[c])
      /\ proc[c].task \in 1..rows /\ proc[c].task \in Ids
      /\ db[proc[c].task] \in Known
  <2>1. IsJob(proc[c])
    BY DEF JobStep, TurnedAway, Load, MarkStarted, Refresh, LastRefresh, Discovered,
           DiscoveryFails, Gate, Deliver, Finalize, GivesUp, AskHuman,
           SyncPause, Persist, LosesThread, Raises, Hangs, At, IsJob
  <2> QED BY <2>1, OwnRow
<1>b. ASSUME NEW l \in Steps
      PROVE  KnowsRow([proc[c] EXCEPT !.pc = l], rows)
  BY <1>0, <1>a DEF KnowsRow, Procs
<1> USE <1>0, <1>a, Names
<1>1. CASE Load(c)
  <2> DEFINE p == [proc[c] EXCEPT !.pc = "start", !.cache = db[proc[c].task],
                                  !.found = IF proc[c].kind = "resume"
                                            THEN db[proc[c].task] ELSE NoRow]
  <2>1. p \in Procs BY DEF Procs
  <2>2. KnowsRow(p, rows') BY <1>1 DEF KnowsRow, Procs, Load
  <2>3. Becomes(c, p) /\ rows' \in rows..MaxTasks BY <1>1 DEF Load
  <2> HIDE DEF p
  <2> QED BY <1>1, <2>1, <2>2, <2>3, OwnStep DEF Load, TypeInv, TypeOK
<1>2. CASE MarkStarted(c)
  <2>1. db' \in [Ids -> Known] /\ proc' \in [Clients -> Procs] /\ TaskKnown'
    BY <1>2, CommitTypes DEF MarkStarted
  <2> QED BY <1>2, <2>1 DEF MarkStarted, TypeInv, TypeOK
<1>3. CASE Refresh(c)
  <2> DEFINE p == [proc[c] EXCEPT !.cache = db[proc[c].task],
                                  !.pc = proc[c].then, !.then = "idle"]
  <2>1. p \in Procs BY DEF Procs
  <2>2. KnowsRow(p, rows') BY <1>3 DEF KnowsRow, Procs, Refresh
  <2>3. Becomes(c, p) /\ rows' \in rows..MaxTasks BY <1>3 DEF Refresh
  <2> HIDE DEF p
  <2> QED BY <1>3, <2>1, <2>2, <2>3, OwnStep DEF Refresh, TypeInv, TypeOK
<1>4. CASE LastRefresh(c)
  BY <1>4, EndsJobTypes DEF LastRefresh, EndsJob, TypeInv, TypeOK
<1>5. CASE Discovered(c)
  BY <1>5, <1>b, MoveTypes DEF Discovered, TypeInv, TypeOK
<1>6. ASSUME NEW next \in {"gate", "done"}, DiscoveryFails(c, next)
      PROVE  TypeInv'
  BY <1>6, CommitTypes DEF DiscoveryFails, TypeInv, TypeOK
<1>7. CASE Gate(c)
  <2>1. CASE db[proc[c].task] = "running"
    <3> DEFINE p == [proc[c] EXCEPT !.pc = "graph", !.cache = "running",
                                    !.worked = TRUE]
    <3>1. p \in Procs BY DEF Procs
    <3>2. KnowsRow(p, rows') BY <1>7 DEF KnowsRow, Procs, Gate
    <3>3. Becomes(c, p) /\ rows' \in rows..MaxTasks BY <1>7, <2>1 DEF Gate
    <3> HIDE DEF p
    <3> QED BY <1>7, <2>1, <3>1, <3>2, <3>3, OwnStep DEF Gate, TypeInv, TypeOK
  <2>2. CASE db[proc[c].task] # "running"
    BY <1>7, <2>2, EndsJobTypes DEF Gate, EndsJob, TypeInv, TypeOK
  <2> QED BY <2>1, <2>2
<1>8. CASE Deliver(c)
  <2>1. proc' \in [Clients -> Procs] /\ TaskKnown'
    BY <1>8, <1>b, MoveTypes DEF Deliver
  <2>2. opened' \in [Ids -> Nat]
    BY <1>8 DEF Deliver
  <2> QED BY <1>8, <2>1, <2>2 DEF Deliver, TypeInv, TypeOK
<1>9. CASE Finalize(c) BY <1>9, EndsGraphTypes DEF Finalize
<1>10. CASE GivesUp(c) BY <1>10, EndsGraphTypes DEF GivesUp
<1>11. CASE AskHuman(c)
  BY <1>11, CommitTypes DEF AskHuman, TypeInv, TypeOK
<1>12. CASE SyncPause(c) BY <1>12, EndsGraphTypes DEF SyncPause
<1>13. CASE Persist(c)
  <2>1. proc[c].value \in Known BY DEF Procs
  <2> QED
    BY <1>13, <2>1, EndsJobTypes, WrittenTypes
    DEF Persist, EndsJob, TypeInv, TypeOK
<1>14. CASE LosesThread(c)
  <2> DEFINE p == [proc[c] EXCEPT !.pc = "raise", !.cache = db[proc[c].task]]
  <2>1. p \in Procs BY DEF Procs
  <2>2. KnowsRow(p, rows') BY <1>14 DEF KnowsRow, Procs, LosesThread
  <2>3. Becomes(c, p) /\ rows' \in rows..MaxTasks BY <1>14 DEF LosesThread
  <2> HIDE DEF p
  <2> QED BY <1>14, <2>1, <2>2, <2>3, OwnStep DEF LosesThread, TypeInv, TypeOK
<1>15. CASE Raises(c)
  BY <1>15, CommitTypes DEF Raises, TypeInv, TypeOK
<1>16. CASE Hangs(c)
  BY <1>16, <1>b, MoveTypes DEF Hangs, TypeInv, TypeOK
<1>17. CASE TurnedAway(c)
  BY <1>17, <1>b, MoveTypes DEF TurnedAway, TypeInv, TypeOK
<1> QED
  BY <1>1, <1>2, <1>3, <1>4, <1>5, <1>6, <1>7, <1>8, <1>9, <1>10, <1>11,
     <1>12, <1>13, <1>14, <1>15, <1>16, <1>17 DEF JobStep

LEMMA CrashTypes == TypeInv /\ Crash => TypeInv'
<1> SUFFICES ASSUME TypeInv, Crash PROVE TypeInv'
  OBVIOUS
<1>1. ASSUME NEW c \in Clients
      PROVE  /\ proc'[c] \in Procs
             /\ proc'[c] = proc[c] \/ proc'[c].pc = "dead"
             /\ proc'[c].pc = "dead" \/ Over(proc[c])
  <2>1. Closed(proc[c]) \in Procs
    BY ClosedTypes DEF TypeInv, TypeOK
  <2>2. [Closed(proc[c]) EXCEPT !.pc = "dead"] \in Procs
    BY <2>1, Names DEF Procs
  <2>3. proc'[c] = IF Over(proc[c]) THEN proc[c]
                   ELSE [Closed(proc[c]) EXCEPT !.pc = "dead"]
    BY DEF Crash
  <2>4. proc[c] \in Procs
    BY DEF TypeInv, TypeOK
  <2>5. [Closed(proc[c]) EXCEPT !.pc = "dead"].pc = "dead"
    BY <2>1 DEF Procs
  <2> QED BY <2>2, <2>3, <2>4, <2>5
<1>2. proc' \in [Clients -> Procs]
  BY <1>1 DEF Crash
<1>3. TaskKnown'
  <2>1. ASSUME NEW c \in Clients,
               IsJob(proc'[c]) \/ proc'[c].pc \in {"cancel_load", "cancel_commit"}
        PROVE  proc'[c].task \in 1..rows
    <3>1. proc'[c] = proc[c]
      BY <1>1, <2>1 DEF IsJob
    <3> QED BY <2>1, <3>1 DEF TypeInv, TaskKnown
  <2>2. rows' = rows
    BY DEF Crash
  <2> QED BY <2>1, <2>2 DEF TaskKnown
<1>4. stranded' \subseteq Ids \union {0}
  BY DEF Crash, TypeInv, TypeOK, Procs
<1>5. crashes' \in 0..MaxCrashes /\ enabled' \in BOOLEAN
  BY Bounds DEF Crash, TypeInv, TypeOK
<1> QED BY <1>2, <1>3, <1>4, <1>5 DEF Crash, TypeInv, TypeOK

LEMMA TypeStep == TypeInv /\ [Next]_vars => TypeInv'
<1> SUFFICES ASSUME TypeInv, [Next]_vars PROVE TypeInv'
  OBVIOUS
<1>1. CASE Crash BY <1>1, CrashTypes
<1>2. ASSUME NEW c \in Clients, NewRequest(c) \/ RequestStep(c) PROVE TypeInv'
  BY <1>2, RequestTypes
<1>3. ASSUME NEW c \in Clients, JobStep(c) \/ Hangs(c) PROVE TypeInv'
  BY <1>3, JobTypes
<1>4. CASE UNCHANGED vars
  BY <1>4 DEF vars, TypeInv, TypeOK, TaskKnown
<1> QED BY <1>1, <1>2, <1>3, <1>4 DEF Next

(* The types of TaskLifecycle, for any number of clients and rows.         *)
THEOREM TypeCorrect == Spec => []TypeOK
<1>1. TypeInv => TypeOK
  BY DEF TypeInv
<1> QED BY TypeInit, TypeStep, <1>1, PTL DEF Spec
-----------------------------------------------------------------------------
(* Every busy row has a job that will write over the status.               *)

(* What a step of c's job on row t owes to the invariant: if t is still    *)
(* busy, either c is (still) a witness or it was none before.              *)
KeepsBusy(c, t) ==
  /\ db'[t] = "running" =>
       EndsRunning(c, t)' \/ (db[t] = "running" /\ ~EndsRunning(c, t))
  /\ db'[t] = "queued" =>
       EndsQueued(c, t)' \/ (db[t] = "queued" /\ ~EndsQueued(c, t))

(* Steps of a job leave the rows of other jobs alone.                      *)
LEMMA JobKeepsBusy ==
  ASSUME IInv, NEW c \in Clients, NEW p \in Procs, IsJob(proc[c]),
         NEW r \in Ids, r = proc[c].task,
         Becomes(c, p), p.task = r, UNCHANGED rows,
         \A t \in Ids \ {r} : db'[t] = db[t],
         stranded \ {r} \subseteq stranded', proc[c].pc # "turned_away",
         KeepsBusy(c, r)
  PROVE  BusyInv'
<1>1. /\ proc'[c] = p
      /\ \A d \in Clients \ {c} : proc'[d] = proc[d]
  BY BecomesTypes DEF IInv, TypeInv, TypeOK
<1>2. SUFFICES ASSUME NEW t \in 1..rows PROVE BusyAt(t)'
  BY DEF BusyInv
<1>3. t \in Ids /\ BusyAt(t)
  BY Bounds DEF IInv, TypeInv, TypeOK, BusyInv, Ids
<1>4. ASSUME NEW d \in Clients \ {c}
      PROVE  /\ EndsRunning(d, t)' <=> EndsRunning(d, t)
             /\ EndsQueued(d, t)' <=> EndsQueued(d, t)
  BY <1>1 DEF EndsRunning, EndsQueued
<1>a. ASSUME NEW d \in Clients, At(d, "turned_away")
      PROVE  proc'[d] = proc[d] /\ At(d, "turned_away")'
  BY <1>1, <1>a DEF At
<1>5. CASE t = r
  <2>1. ~Orphaned(t)
    BY <1>5 DEF Orphaned, HasJob
  <2>2. db'[t] = "running" => \E d \in Clients : EndsRunning(d, t)'
    BY <1>3, <1>4, <1>5, <2>1 DEF BusyAt, KeepsBusy
  <2>3. db'[t] = "queued" => (\E d \in Clients : EndsQueued(d, t)') \/ Refused(t)'
    BY <1>3, <1>4, <1>5, <1>a, <2>1 DEF BusyAt, KeepsBusy, Refused
  <2> QED BY <2>2, <2>3 DEF BusyAt
<1>6. CASE t # r
  <2>1. db'[t] = db[t]
    BY <1>3, <1>6
  <2>2. ~EndsRunning(c, t) /\ ~EndsQueued(c, t)
    BY <1>6 DEF EndsRunning, EndsQueued
  <2>3. Orphaned(t) => Orphaned(t)'
    BY <1>1, <1>6 DEF Orphaned, HasJob
  <2>4. Refused(t) => Refused(t)'
    BY <1>a DEF Refused
  <2> QED BY <1>3, <1>4, <2>1, <2>2, <2>3, <2>4 DEF BusyAt
<1> QED BY <1>5, <1>6

(* Requests are no jobs; at most they become one that has yet to load.     *)
LEMMA RequestKeepsBusy ==
  ASSUME IInv, NEW c \in Clients, NEW p \in Procs, ~IsJob(proc[c]),
         Becomes(c, p), ~IsJob(p) \/ p.pc = "load", UNCHANGED stranded,
         proc[c].pc # "turned_away", NEW t \in 1..rows, db'[t] \in {db[t], "cancelled"}
  PROVE  BusyAt(t)'
<1>1. /\ proc'[c] = p
      /\ \A d \in Clients \ {c} : proc'[d] = proc[d]
  BY BecomesTypes DEF IInv, TypeInv, TypeOK
<1>2. BusyAt(t)
  BY DEF IInv, BusyInv
<1>3. ASSUME NEW d \in Clients \ {c}
      PROVE  /\ EndsRunning(d, t)' <=> EndsRunning(d, t)
             /\ EndsQueued(d, t)' <=> EndsQueued(d, t)
  BY <1>1 DEF EndsRunning, EndsQueued
<1>4. ~EndsRunning(c, t) /\ ~EndsQueued(c, t)
  BY DEF EndsRunning, EndsQueued, IsJob
<1>5. Orphaned(t) => \/ Orphaned(t)'
                     \/ EndsRunning(c, t)' /\ EndsQueued(c, t)'
  <2>1. CASE p.pc = "load" /\ p.task = t
    BY <1>1, <2>1 DEF EndsRunning, EndsQueued
  <2>2. CASE ~(IsJob(p) /\ p.task = t)
    BY <1>1, <2>2 DEF Orphaned, HasJob
  <2> QED BY <2>1, <2>2
<1>6. db'[t] = "running" => db[t] = "running"
  OBVIOUS
<1>7. db'[t] = "queued" => db[t] = "queued"
  OBVIOUS
<1>8. Refused(t) => Refused(t)'
  BY <1>1 DEF Refused, At
<1> QED BY <1>2, <1>3, <1>4, <1>5, <1>6, <1>7, <1>8 DEF BusyAt

LEMMA BusyInit == Init => BusyInv
  BY DEF Init, BusyInv

LEMMA RequestBusy ==
  ASSUME IInv, NEW c \in Clients, NewRequest(c) \/ RequestStep(c)
  PROVE  BusyInv'
<1>0. /\ proc[c] \in Procs /\ rows \in 0..MaxTasks /\ MaxTasks \in Nat
      /\ proc \in [Clients -> Procs]
      /\ db \in [Ids -> Known] /\ 1..rows \subseteq Ids
  BY Bounds DEF IInv, TypeInv, TypeOK, Ids
<1>a. ~IsJob(proc[c]) /\ proc[c].pc # "turned_away"
  BY DEF NewRequest, RequestStep, Submit, Cancel, Resume, FindExisting, Insert,
         CancelLoad, CancelCommit, At, IsJob
<1>b. TypeInv'
  BY RequestTypes DEF IInv
<1>c. proc'[c] \in Procs
  BY <1>b DEF TypeInv, TypeOK
<1> USE <1>0, <1>a, <1>c
(* All but Insert leave the number of rows alone.                          *)
<1>d. ASSUME NEW p \in Procs, Becomes(c, p), ~IsJob(p) \/ p.pc = "load",
             UNCHANGED <<rows, stranded>>,
             \A t \in 1..rows : db'[t] \in {db[t], "cancelled"}
      PROVE  BusyInv'
  BY <1>d, RequestKeepsBusy DEF BusyInv
<1>1. CASE Submit(c)
  <2> DEFINE p == [proc[c] EXCEPT !.kind = "submit",
                                  !.pc = IF seen THEN "find" ELSE "insert"]
  <2>1. p \in Procs BY Names DEF Procs
  <2>2. ~IsJob(p) BY DEF IsJob, Procs
  <2>3. Becomes(c, p) /\ UNCHANGED <<rows, db, stranded>> BY <1>1 DEF Submit
  <2> HIDE DEF p
  <2> QED BY <2>1, <2>2, <2>3, <1>d
<1>2. CASE FindExisting(c)
  <2>0. UNCHANGED <<rows, db, stranded>> BY <1>2 DEF FindExisting
  <2>1. CASE Move(c, "insert")
    <3> DEFINE p == [proc[c] EXCEPT !.pc = "insert"]
    <3>1. p \in Procs BY Names DEF Procs
    <3>2. ~IsJob(p) BY DEF IsJob, Procs
    <3>3. Becomes(c, p) BY <2>1 DEF Move
    <3> HIDE DEF p
    <3> QED BY <2>0, <3>1, <3>2, <3>3, <1>d
  <2>2. CASE rows # 0 /\ Becomes(c, [proc[c] EXCEPT !.pc = "load", !.task = rows])
    <3> DEFINE p == [proc[c] EXCEPT !.pc = "load", !.task = rows]
    <3>1. p \in Procs /\ p.pc = "load"
      <4>1. rows \in Ids BY <2>2 DEF Ids
      <4> QED BY <4>1, Names DEF Procs
    <3>2. Becomes(c, p) BY <2>2
    <3> HIDE DEF p
    <3> QED BY <2>0, <3>1, <3>2, <1>d
  <2> QED BY <1>2, <2>1, <2>2 DEF FindExisting
<1>3. CASE Insert(c)
  <2> DEFINE p == [proc[c] EXCEPT !.pc = "load", !.task = rows + 1]
  <2>1. /\ rows + 1 \in Ids /\ rows' = rows + 1
        /\ db' = [db EXCEPT ![rows + 1] = "queued"]
        /\ UNCHANGED stranded
    BY <1>3 DEF Insert, Ids
  <2>2. p \in Procs /\ p.pc = "load" /\ p.task = rows + 1
    BY <2>1, Names DEF Procs
  <2>3. Becomes(c, p) BY <1>3 DEF Insert
  <2> HIDE DEF p
  <2>4. ASSUME NEW t \in 1..rows PROVE BusyAt(t)'
    <3>1. db'[t] = db[t] BY <2>1
    <3> QED BY <2>1, <2>2, <2>3, <3>1, RequestKeepsBusy
  <2>5. ASSUME NEW t, t = rows + 1 PROVE BusyAt(t)'
    <3>1. proc'[c] = p BY <2>2, <2>3, BecomesTypes
    <3> QED BY <2>2, <2>5, <3>1 DEF BusyAt, EndsRunning, EndsQueued
  <2>6. 1..rows' = (1..rows) \union {rows + 1} BY <2>1
  <2> QED BY <2>4, <2>5, <2>6 DEF BusyInv
<1>4. ASSUME NEW r \in Ids, Cancel(c, r) PROVE BusyInv'
  <2> DEFINE p == [proc[c] EXCEPT !.kind = "cancel", !.pc = "cancel_load",
                                  !.task = r]
  <2>1. p \in Procs BY Names DEF Procs
  <2>2. ~IsJob(p) BY DEF IsJob, Procs
  <2>3. Becomes(c, p) /\ UNCHANGED <<rows, db, stranded>> BY <1>4 DEF Cancel
  <2> HIDE DEF p
  <2> QED BY <2>1, <2>2, <2>3, <1>d
<1>5. ASSUME NEW r \in Ids, Resume(c, r) PROVE BusyInv'
  <2> DEFINE p == [proc[c] EXCEPT !.kind = "resume", !.pc = "load", !.task = r]
  <2>1. p \in Procs /\ p.pc = "load" BY Names DEF Procs
  <2>2. Becomes(c, p) /\ UNCHANGED <<rows, db, stranded>> BY <1>5 DEF Resume
  <2> HIDE DEF p
  <2> QED BY <2>1, <2>2, <1>d
<1>6. CASE CancelLoad(c)
  <2> DEFINE p == [proc[c] EXCEPT !.cache = db[proc[c].task],
                                  !.pc = "cancel_commit"]
  <2>1. db[proc[c].task] \in Known
    BY <1>6, OwnRow DEF CancelLoad, At, IInv
  <2>2. p \in Procs BY <2>1, Names DEF Procs
  <2>3. ~IsJob(p) BY DEF IsJob, Procs
  <2>4. Becomes(c, p) /\ UNCHANGED <<rows, db, stranded>> BY <1>6 DEF CancelLoad
  <2> HIDE DEF p
  <2> QED BY <2>2, <2>3, <2>4, <1>d
<1>7. CASE CancelCommit(c)
  <2>1. Closed(proc[c]) \in Procs
    BY ClosedTypes
  <2>2. ~IsJob(Closed(proc[c]))
    BY DEF IsJob, Closed, Procs
  <2>3. ASSUME NEW t \in 1..rows PROVE db'[t] \in {db[t], "cancelled"}
    BY <1>7 DEF CancelCommit, Written
  <2>4. Becomes(c, Closed(proc[c])) /\ UNCHANGED <<rows, stranded>>
    BY <1>7 DEF CancelCommit
  <2> QED BY <2>1, <2>2, <2>3, <2>4, <1>d
<1> QED
  BY <1>1, <1>2, <1>3, <1>4, <1>5, <1>6, <1>7 DEF RequestStep, NewRequest

(* A job turned away leaves a QUEUED row refused; a row that says RUNNING  *)
(* was left by an earlier process.                                         *)
LEMMA TurnedAwayBusy ==
  ASSUME IInv, NEW c \in Clients, TurnedAway(c)
  PROVE  BusyInv'
<1>1. /\ proc'[c].pc = "turned_away" /\ proc'[c].task = proc[c].task
      /\ \A d \in Clients \ {c} : proc'[d] = proc[d]
      /\ ~enabled /\ UNCHANGED <<rows, db, stranded>>
  BY DEF TurnedAway, Move, Becomes, IInv, TypeInv, TypeOK, Procs
<1>2. SUFFICES ASSUME NEW t \in 1..rows PROVE BusyAt(t)'
  BY <1>1 DEF BusyInv
<1>3. BusyAt(t) /\ (db[t] = "running" => t \in stranded)
  BY <1>1 DEF IInv, BusyInv, DisabledInv
<1>4. ASSUME NEW d \in Clients \ {c}
      PROVE  /\ EndsRunning(d, t)' <=> EndsRunning(d, t)
             /\ EndsQueued(d, t)' <=> EndsQueued(d, t)
  BY <1>1 DEF EndsRunning, EndsQueued
<1>5. Orphaned(t) => Orphaned(t)'
  BY <1>1 DEF Orphaned, HasJob, IsJob
<1>6. Refused(t) => Refused(t)'
  BY <1>1 DEF Refused, At
<1>7. EndsQueued(c, t) => Refused(t)'
  BY <1>1 DEF EndsQueued, Refused, At
<1>8. db[t] = "running" => (\E d \in Clients : EndsRunning(d, t)') \/ Orphaned(t)'
  <2>1. ASSUME NEW d \in Clients \ {c}, IsJob(proc[d]), proc[d].task = t
        PROVE  EndsRunning(d, t)'
    BY <1>1, <1>4, <2>1 DEF IInv, DisabledInv, EndsRunning
  <2>2. ~IsJob(proc'[c])
    BY <1>1 DEF IsJob
  <2>3. HasJob(t)' => \E d \in Clients : EndsRunning(d, t)'
    BY <1>1, <2>1, <2>2 DEF HasJob
  <2> QED BY <1>1, <1>3, <2>3 DEF Orphaned
<1> QED BY <1>1, <1>3, <1>4, <1>5, <1>6, <1>7, <1>8 DEF BusyAt

LEMMA JobBusy ==
  ASSUME IInv, NEW c \in Clients, JobStep(c) \/ Hangs(c)
  PROVE  BusyInv'
<1>0. /\ proc[c] \in Procs /\ proc \in [Clients -> Procs]
      /\ db \in [Ids -> Known]
  BY DEF IInv, TypeInv, TypeOK
<1>a. IsJob(proc[c]) /\ proc[c].pc # "turned_away"
  BY DEF JobStep, TurnedAway, Load, MarkStarted, Refresh, LastRefresh, Discovered,
         DiscoveryFails, Gate, Deliver, Finalize, GivesUp, AskHuman,
         SyncPause, Persist, LosesThread, Raises, Hangs, At, IsJob
<1>b. PICK r \in Ids : r = proc[c].task
  BY <1>a, OwnRow DEF IInv
<1>c. db[r] \in Known
  BY <1>0
<1> USE <1>0, <1>a, <1>b, <1>c
<1>d. ASSUME NEW p \in Procs, Becomes(c, p)
      PROVE  proc'[c] = p
  BY <1>d, BecomesTypes
(* A committed status is neither left over from the cache as RUNNING nor   *)
(* QUEUED.                                                                 *)
<1>e. ASSUME NEW s \in Outcomes, db' = Written(c, s)
      PROVE  /\ \A t \in Ids \ {r} : db'[t] = db[t]
             /\ db'[r] = "running" => db[r] = "running" /\ proc[c].cache # "running"
             /\ db'[r] = "queued" => db[r] = "queued"
  BY <1>e DEF Written, Outcomes, NoRow
<1>f. ASSUME NEW s \in Outcomes, NEW p \in Procs, db' = Written(c, s),
             Becomes(c, p), p.task = r, UNCHANGED rows,
             stranded \ {r} \subseteq stranded',
             ~(\/ proc[c].pc \in {"load", "start", "gate", "lost", "hung"}
               \/ proc[c].pc = "refresh" /\ proc[c].then \in {"discover", "lost"})
      PROVE  BusyInv'
  <2>1. KeepsBusy(c, r)
    BY <1>e, <1>f DEF KeepsBusy, EndsRunning, EndsQueued
  <2> QED BY <1>e, <1>f, <2>1, JobKeepsBusy
<1>g. ASSUME NEW s \in Outcomes, NEW next \in Steps, Commit(c, s, next),
             UNCHANGED <<rows, stranded>>,
             proc[c].pc \notin {"load", "start", "refresh", "gate", "lost", "hung"}
      PROVE  BusyInv'
  <2> DEFINE p == [proc[c] EXCEPT !.cache = s, !.pc = "refresh", !.then = next]
  <2>1. p \in Procs /\ p.task = r BY Names DEF Procs
  <2>2. Becomes(c, p) /\ db' = Written(c, s) BY <1>g DEF Commit
  <2> HIDE DEF p
  <2> QED BY <1>f, <1>g, <2>1, <2>2
<1>h. ASSUME NEW s \in Outcomes, EndsGraph(c, s),
             proc[c].pc \notin {"load", "start", "refresh", "gate", "lost", "hung"}
      PROVE  BusyInv'
  <2> DEFINE p == [proc[c] EXCEPT !.value = s, !.cache = s, !.pc = "refresh",
                                  !.then = "persist"]
  <2>1. p \in Procs /\ p.task = r BY Names DEF Procs
  <2>2. Becomes(c, p) /\ db' = Written(c, s) /\ UNCHANGED <<rows, stranded>>
    BY <1>h DEF EndsGraph
  <2> HIDE DEF p
  <2> QED BY <1>f, <1>h, <2>1, <2>2
<1>i. Closed(proc[c]) \in Procs /\ Closed(proc[c]).task = r
  BY ClosedTypes DEF Closed, Procs
<1>1. CASE Load(c)
  <2> DEFINE p == [proc[c] EXCEPT !.pc = "start", !.cache = db[proc[c].task],
                                  !.found = IF proc[c].kind = "resume"
                                            THEN db[proc[c].task] ELSE NoRow]
  <2>1. /\ p \in Procs /\ p.task = r
        /\ p.pc = "start" /\ p.cache = db[r]
    BY Names DEF Procs
  <2>2. Becomes(c, p) /\ UNCHANGED <<rows, db, stranded>> BY <1>1 DEF Load
  <2> HIDE DEF p
  <2>3. proc'[c] = p BY <2>1, <2>2, <1>d
  <2>4. KeepsBusy(c, r) BY <2>1, <2>2, <2>3 DEF KeepsBusy, EndsRunning, EndsQueued
  <2> QED BY <2>1, <2>2, <2>4, JobKeepsBusy
<1>2. CASE MarkStarted(c)
  <2> DEFINE next == IF proc[c].kind = "resume" THEN "lost" ELSE "discover"
             p == [proc[c] EXCEPT !.cache = "running", !.pc = "refresh",
                                  !.then = next]
  <2>1. /\ p \in Procs /\ p.task = r /\ p.pc = "refresh"
        /\ p.then \in {"discover", "lost"}
    BY Names DEF Procs
  <2>2. /\ Becomes(c, p) /\ UNCHANGED <<rows, stranded>>
        /\ db' = Written(c, "running") /\ proc[c].pc = "start"
    BY <1>2 DEF MarkStarted, Commit, At
  <2> HIDE DEF p
  <2>3. proc'[c] = p BY <2>1, <2>2, <1>d
  <2>4. \A t \in Ids \ {r} : db'[t] = db[t] BY <2>2 DEF Written
  <2>5. db'[r] = "queued" => db[r] = "queued" /\ proc[c].cache = "running"
    BY <2>2 DEF Written
  <2>6. KeepsBusy(c, r)
    BY <2>1, <2>2, <2>3, <2>5 DEF KeepsBusy, EndsRunning, EndsQueued
  <2> QED BY <2>1, <2>2, <2>4, <2>6, JobKeepsBusy
<1>3. CASE Refresh(c)
  <2> DEFINE p == [proc[c] EXCEPT !.cache = db[proc[c].task],
                                  !.pc = proc[c].then, !.then = "idle"]
  <2>1. /\ p \in Procs /\ p.task = r
        /\ p.pc = proc[c].then /\ p.cache = db[r]
    BY Names DEF Procs
  <2>2. /\ Becomes(c, p) /\ UNCHANGED <<rows, db, stranded>>
        /\ proc[c].pc = "refresh"
    BY <1>3 DEF Refresh, At
  <2> HIDE DEF p
  <2>3. proc'[c] = p BY <2>1, <2>2, <1>d
  <2>4. KeepsBusy(c, r) BY <2>1, <2>2, <2>3 DEF KeepsBusy, EndsRunning, EndsQueued
  <2> QED BY <2>1, <2>2, <2>4, JobKeepsBusy
<1>4. CASE LastRefresh(c)
  <2>1. /\ Becomes(c, Closed(proc[c])) /\ UNCHANGED <<rows, db>>
        /\ stranded \ {r} \subseteq stranded'
        /\ proc[c].pc = "refresh" /\ proc[c].then = "done"
    BY <1>4 DEF LastRefresh, EndsJob, At
  <2>2. KeepsBusy(c, r)
    BY <2>1 DEF KeepsBusy, EndsRunning, EndsQueued
  <2> QED BY <1>i, <2>1, <2>2, JobKeepsBusy
<1>5. CASE Discovered(c)
  <2> DEFINE p == [proc[c] EXCEPT !.pc = "gate"]
  <2>1. p \in Procs /\ p.task = r /\ p.pc = "gate" BY Names DEF Procs
  <2>2. /\ Becomes(c, p) /\ UNCHANGED <<rows, db, stranded>>
        /\ proc[c].pc = "discover"
    BY <1>5 DEF Discovered, Move, At
  <2> HIDE DEF p
  <2>3. proc'[c] = p BY <2>1, <2>2, <1>d
  <2>4. KeepsBusy(c, r) BY <2>1, <2>2, <2>3 DEF KeepsBusy, EndsRunning, EndsQueued
  <2> QED BY <2>1, <2>2, <2>4, JobKeepsBusy
<1>6. ASSUME NEW next \in {"gate", "done"}, DiscoveryFails(c, next)
      PROVE  BusyInv'
  BY <1>6, <1>g, Names DEF DiscoveryFails, At
<1>7. CASE Gate(c)
  <2>1. CASE db[r] = "running"
    <3> DEFINE p == [proc[c] EXCEPT !.pc = "graph", !.cache = "running",
                                    !.worked = TRUE]
    <3>1. /\ p \in Procs /\ p.task = r
          /\ p.pc = "graph" /\ p.cache = "running"
      BY Names DEF Procs
    <3>2. Becomes(c, p) /\ UNCHANGED <<rows, db, stranded>>
      BY <1>7, <2>1 DEF Gate
    <3> HIDE DEF p
    <3>3. proc'[c] = p BY <3>1, <3>2, <1>d
    <3>4. KeepsBusy(c, r)
      BY <2>1, <3>1, <3>2, <3>3 DEF KeepsBusy, EndsRunning, EndsQueued
    <3> QED BY <3>1, <3>2, <3>4, JobKeepsBusy
  <2>2. CASE db[r] # "running"
    <3>1. /\ Becomes(c, Closed(proc[c])) /\ UNCHANGED <<rows, db>>
          /\ stranded \ {r} \subseteq stranded'
          /\ proc[c].pc = "gate"
      BY <1>7, <2>2 DEF Gate, EndsJob, At
    <3>2. KeepsBusy(c, r)
      BY <2>2, <3>1 DEF KeepsBusy, EndsRunning, EndsQueued
    <3> QED BY <1>i, <3>1, <3>2, JobKeepsBusy
  <2> QED BY <2>1, <2>2
<1>8. CASE Deliver(c)
  <2> DEFINE p == [proc[c] EXCEPT !.pc = "delivered"]
  <2>1. /\ p \in Procs /\ p.task = r
        /\ p.pc = "delivered" /\ p.cache = proc[c].cache
    BY Names DEF Procs
  <2>2. /\ Becomes(c, p) /\ UNCHANGED <<rows, db, stranded>>
        /\ proc[c].pc = "graph"
    BY <1>8 DEF Deliver, Move, At
  <2> HIDE DEF p
  <2>3. proc'[c] = p BY <2>1, <2>2, <1>d
  <2>4. KeepsBusy(c, r) BY <2>1, <2>2, <2>3 DEF KeepsBusy, EndsRunning, EndsQueued
  <2> QED BY <2>1, <2>2, <2>4, JobKeepsBusy
<1>9. CASE Finalize(c) BY <1>9, <1>h, Names DEF Finalize, At
<1>10. CASE GivesUp(c) BY <1>10, <1>h, Names DEF GivesUp, At
<1>11. CASE AskHuman(c) BY <1>11, <1>g, Names DEF AskHuman, At
<1>12. CASE SyncPause(c) BY <1>12, <1>h, Names DEF SyncPause, At
<1>13. CASE Persist(c)
  <2>1. proc[c].value \in Outcomes BY DEF Procs
  <2>2. /\ Becomes(c, Closed(proc[c])) /\ UNCHANGED rows
        /\ stranded \ {r} \subseteq stranded'
        /\ db' = Written(c, proc[c].value) /\ proc[c].pc = "persist"
    BY <1>13 DEF Persist, EndsJob, At
  <2> QED BY <1>f, <1>i, <2>1, <2>2
<1>14. CASE LosesThread(c)
  <2> DEFINE p == [proc[c] EXCEPT !.pc = "raise", !.cache = db[proc[c].task]]
  <2>1. /\ p \in Procs /\ p.task = r
        /\ p.pc = "raise" /\ p.cache = db[r]
    BY Names DEF Procs
  <2>2. /\ Becomes(c, p) /\ UNCHANGED <<rows, db, stranded>>
        /\ proc[c].pc = "lost"
    BY <1>14 DEF LosesThread, At
  <2> HIDE DEF p
  <2>3. proc'[c] = p BY <2>1, <2>2, <1>d
  <2>4. KeepsBusy(c, r) BY <2>1, <2>2, <2>3 DEF KeepsBusy, EndsRunning, EndsQueued
  <2> QED BY <2>1, <2>2, <2>4, JobKeepsBusy
<1>15. CASE Raises(c) BY <1>15, <1>g, Names DEF Raises, At
<1>16. CASE Hangs(c)
  <2> DEFINE p == [proc[c] EXCEPT !.pc = "hung"]
  <2>1. p \in Procs /\ p.task = r /\ p.pc = "hung" BY Names DEF Procs
  <2>2. /\ Becomes(c, p) /\ UNCHANGED <<rows, db, stranded>>
        /\ proc[c].pc \notin {"load", "start"}
    BY <1>16 DEF Hangs, Move
  <2> HIDE DEF p
  <2>3. proc'[c] = p BY <2>1, <2>2, <1>d
  <2>4. KeepsBusy(c, r) BY <2>1, <2>2, <2>3 DEF KeepsBusy, EndsRunning, EndsQueued
  <2> QED BY <2>1, <2>2, <2>4, JobKeepsBusy
<1>17. CASE TurnedAway(c) BY <1>17, TurnedAwayBusy
<1> QED
  BY <1>1, <1>2, <1>3, <1>4, <1>5, <1>6, <1>7, <1>8, <1>9, <1>10, <1>11,
     <1>12, <1>13, <1>14, <1>15, <1>16, <1>17 DEF JobStep

(* The rows of the jobs that die are stranded.                             *)
LEMMA CrashBusy == IInv /\ Crash => BusyInv'
<1> SUFFICES ASSUME IInv, Crash, NEW t \in 1..rows PROVE BusyAt(t)'
  BY DEF BusyInv, Crash
<1>1. BusyAt(t)
  BY DEF IInv, BusyInv
<1>2. ASSUME NEW c \in Clients PROVE ~IsJob(proc'[c])
  <2>1. CASE Over(proc[c])
    BY <2>1 DEF Crash, Over, IsJob
  <2>2. CASE ~Over(proc[c])
    <3>1. proc'[c].pc = "dead"
      BY <2>2 DEF Crash, Closed, IInv, TypeInv, TypeOK, Procs
    <3> QED BY <3>1 DEF IsJob
  <2> QED BY <2>1, <2>2
<1>3. ASSUME NEW c \in Clients, EndsRunning(c, t) \/ EndsQueued(c, t)
      PROVE  t \in stranded'
  <2>1. IsJob(proc[c]) /\ proc[c].task = t
    BY <1>3 DEF EndsRunning, EndsQueued, IsJob
  <2> QED BY <2>1 DEF Crash
<1>4. Orphaned(t) => t \in stranded'
  BY DEF Orphaned, Crash
<1>5. t \in stranded' => Orphaned(t)'
  BY <1>2 DEF Orphaned, HasJob
<1>6. db' = db
  BY DEF Crash
<1>7. Refused(t) => Refused(t)'
  BY DEF Refused, Crash, At, Over, IInv, TypeInv, TypeOK
<1> QED BY <1>1, <1>3, <1>4, <1>5, <1>6, <1>7 DEF BusyAt

LEMMA BusyStep == IInv /\ [Next]_vars => BusyInv'
<1> SUFFICES ASSUME IInv, [Next]_vars PROVE BusyInv'
  OBVIOUS
<1>1. CASE Crash BY <1>1, CrashBusy
<1>2. ASSUME NEW c \in Clients, NewRequest(c) \/ RequestStep(c) PROVE BusyInv'
  BY <1>2, RequestBusy
<1>3. ASSUME NEW c \in Clients, JobStep(c) \/ Hangs(c) PROVE BusyInv'
  BY <1>3, JobBusy
<1>4. CASE UNCHANGED vars
  BY <1>4 DEF vars, IInv, BusyInv, BusyAt, EndsRunning, EndsQueued, Orphaned,
              HasJob, Refused, At
<1> QED BY <1>1, <1>2, <1>3, <1>4 DEF Next

LEMMA DisabledInit == Init => DisabledInv
  BY DEF Init, DisabledInv, Idle, IsJob

(* Only a restart changes the settings, and it leaves no job and strands   *)
(* every row that says RUNNING.                                            *)
LEMMA DisabledStep == IInv /\ [Next]_vars => DisabledInv'
<1> SUFFICES ASSUME IInv, [Next]_vars, ~enabled' PROVE DisabledInv'
  BY DEF DisabledInv
<1>1. CASE Crash
  <2>1. ASSUME NEW c \in Clients PROVE ~IsJob(proc'[c])
    <3>1. CASE Over(proc[c])
      BY <1>1, <3>1 DEF Crash, Over, IsJob
    <3>2. CASE ~Over(proc[c])
      <4>1. proc'[c].pc = "dead"
        BY <1>1, <3>2 DEF Crash, Closed, IInv, TypeInv, TypeOK, Procs
      <4> QED BY <4>1 DEF IsJob
    <3> QED BY <3>1, <3>2
  <2>2. ASSUME NEW t \in 1..rows, db[t] = "running" PROVE t \in stranded'
    <3>1. BusyAt(t)
      BY DEF IInv, BusyInv
    <3>2. ASSUME NEW c \in Clients, EndsRunning(c, t) PROVE t \in stranded'
      <4>1. IsJob(proc[c]) /\ proc[c].task = t
        BY <3>2 DEF EndsRunning, IsJob
      <4> QED BY <1>1, <4>1 DEF Crash
    <3> QED BY <1>1, <2>2, <3>1, <3>2 DEF BusyAt, Orphaned, Crash
  <2>3. rows' = rows /\ db' = db
    BY <1>1 DEF Crash
  <2> QED BY <2>1, <2>2, <2>3 DEF DisabledInv
<1>2. ASSUME NEW c \in Clients, NewRequest(c) \/ RequestStep(c)
      PROVE  DisabledInv'
  <2>1. /\ enabled' = enabled /\ UNCHANGED stranded
        /\ \A d \in Clients \ {c} : proc'[d] = proc[d]
        /\ proc[c] \in Procs /\ rows \in Nat /\ db \in [Ids -> Known]
        /\ rows' \in Nat /\ 1..rows' \subseteq Ids
    <3>1. TypeInv'
      BY <1>2, RequestTypes DEF IInv
    <3>2. /\ proc[c] \in Procs /\ db \in [Ids -> Known] /\ DOMAIN proc = Clients
          /\ rows \in Nat /\ rows' \in Nat /\ 1..rows' \subseteq Ids
      BY <3>1, Bounds DEF IInv, TypeInv, TypeOK, Ids
    <3>3. enabled' = enabled /\ UNCHANGED stranded
      BY <1>2 DEF NewRequest, RequestStep, Submit, Cancel, Resume, FindExisting,
             Insert, CancelLoad, CancelCommit
    <3>4. \A d \in Clients \ {c} : proc'[d] = proc[d]
      BY <1>2, <3>2 DEF NewRequest, RequestStep, Submit, Cancel, Resume,
             FindExisting, Insert, CancelLoad, CancelCommit, Move, Becomes
    <3> QED BY <3>2, <3>3, <3>4
  <2>2. IsJob(proc'[c]) => proc'[c].pc = "load"
    <3>1. CASE Submit(c)
      <4>1. proc'[c].pc \in {"find", "insert"}
        BY <2>1, <3>1 DEF Submit, Becomes, Procs, IInv, TypeInv, TypeOK
      <4> QED BY <4>1 DEF IsJob
    <3>2. CASE FindExisting(c)
      <4>1. proc'[c].pc \in {"insert", "load"}
        BY <2>1, <3>2 DEF FindExisting, Move, Becomes, Procs, IInv, TypeInv,
               TypeOK
      <4> QED BY <4>1 DEF IsJob
    <3>3. CASE Insert(c)
      BY <2>1, <3>3 DEF Insert, Becomes, Procs, IInv, TypeInv, TypeOK
    <3>4. ASSUME NEW t \in Ids, Cancel(c, t) \/ Resume(c, t)
          PROVE  IsJob(proc'[c]) => proc'[c].pc = "load"
      <4>1. proc'[c].pc \in {"cancel_load", "load"}
        BY <2>1, <3>4 DEF Cancel, Resume, Becomes, Procs, IInv, TypeInv, TypeOK
      <4> QED BY <4>1 DEF IsJob
    <3>5. CASE CancelLoad(c)
      BY <2>1, <3>5 DEF CancelLoad, Becomes, IsJob, Procs, IInv, TypeInv, TypeOK
    <3>6. CASE CancelCommit(c)
      BY <2>1, <3>6 DEF CancelCommit, Becomes, Closed, IsJob, Procs, IInv,
             TypeInv, TypeOK
    <3> QED
      BY <1>2, <3>1, <3>2, <3>3, <3>4, <3>5, <3>6 DEF NewRequest, RequestStep
  <2>3. ASSUME NEW t \in 1..rows', db'[t] = "running"
        PROVE  t \in 1..rows /\ db[t] = "running"
    <3>1. CASE Insert(c)
      <4>1. /\ rows' = rows + 1 /\ db' = [db EXCEPT ![rows + 1] = "queued"]
            /\ rows + 1 \in Ids
        BY <2>1, <3>1 DEF Insert
      <4>2. t # rows + 1
        BY <2>1, <2>3, <4>1
      <4> QED BY <2>1, <2>3, <4>1, <4>2
    <3>2. CASE CancelCommit(c)
      <4>1. rows' = rows /\ db' = Written(c, "cancelled")
        BY <3>2 DEF CancelCommit
      <4> QED BY <2>1, <2>3, <4>1 DEF Written
    <3>3. CASE UNCHANGED <<rows, db>>
      BY <2>3, <3>3
    <3> QED
      BY <1>2, <3>1, <3>2, <3>3 DEF NewRequest, RequestStep, Submit, Cancel,
             Resume, FindExisting, CancelLoad
  <2> QED BY <2>1, <2>2, <2>3 DEF IInv, DisabledInv
<1>3. ASSUME NEW c \in Clients, JobStep(c) \/ Hangs(c) PROVE DisabledInv'
  <2>1. ~enabled
    BY <1>3 DEF JobStep, TurnedAway, Load, MarkStarted, Refresh, LastRefresh,
           Discovered, DiscoveryFails, Gate, Deliver, Finalize, GivesUp,
           AskHuman, SyncPause, Persist, LosesThread, Raises, Hangs, EndsGraph
  <2>2. IsJob(proc[c]) /\ proc[c].pc = "load"
    <3>1. IsJob(proc[c])
      BY <1>3 DEF JobStep, TurnedAway, Load, MarkStarted, Refresh, LastRefresh,
             Discovered, DiscoveryFails, Gate, Deliver, Finalize, GivesUp,
             AskHuman, SyncPause, Persist, LosesThread, Raises, Hangs, At, IsJob
    <3> QED BY <2>1, <3>1 DEF IInv, DisabledInv
  <2>3. TurnedAway(c)
    BY <1>3, <2>1, <2>2 DEF JobStep, Load, MarkStarted, Refresh, LastRefresh,
           Discovered, DiscoveryFails, Gate, Deliver, Finalize, GivesUp,
           AskHuman, SyncPause, Persist, LosesThread, Raises, Hangs, At
  <2>4. /\ proc'[c].pc = "turned_away" /\ UNCHANGED <<rows, db, stranded>>
        /\ \A d \in Clients \ {c} : proc'[d] = proc[d]
    BY <2>3 DEF TurnedAway, Move, Becomes, IInv, TypeInv, TypeOK, Procs
  <2>5. ~IsJob(proc'[c])
    BY <2>4 DEF IsJob
  <2> QED BY <2>1, <2>4, <2>5 DEF IInv, DisabledInv
<1>4. CASE UNCHANGED vars
  BY <1>4 DEF vars, IInv, DisabledInv
<1> QED BY <1>1, <1>2, <1>3, <1>4 DEF Next

(* A row that says RUNNING has a job at work on it, or one that waits for  *)
(* ever, unless the process died under its job; one that says QUEUED may   *)
(* have been turned away too (runner.run_task, update_status).             *)
THEOREM BusyRowsAreWatched == Spec => []BusyRowsHaveJobs
<1>1. Init => IInv
  BY TypeInit, BusyInit, DisabledInit DEF IInv
<1>2. IInv /\ [Next]_vars => IInv'
  BY TypeStep, BusyStep, DisabledStep DEF IInv
<1>3. IInv => BusyRowsHaveJobs
  <2> SUFFICES ASSUME IInv, NEW t \in 1..rows
               PROVE  /\ db[t] = "running" => HasJob(t) \/ t \in stranded
                      /\ db[t] = "queued" =>
                           HasJob(t) \/ t \in stranded \/ Refused(t)
    BY DEF BusyRowsHaveJobs
  <2>1. BusyAt(t)
    BY DEF IInv, BusyInv
  <2>2. ASSUME NEW c \in Clients, EndsRunning(c, t) \/ EndsQueued(c, t)
        PROVE  HasJob(t)
    BY <2>2 DEF EndsRunning, EndsQueued, HasJob, IsJob
  <2> QED BY <2>1, <2>2 DEF BusyAt, Orphaned
<1> QED BY <1>1, <1>2, <1>3, PTL DEF Spec
-----------------------------------------------------------------------------
(* A job whose row nobody else has ever touched: no cached status is stale *)
(* and no UPDATE is skipped, so the row says where the job is.             *)
Lone(c) == \A d \in Clients \ {c} : proc[d].task # proc[c].task

(* Where a process is, or will be after its refresh.                       *)
Place(p) == IF p.pc = "refresh" THEN p.then ELSE p.pc

(* The status s of the row, as a lone submission p has left it.            *)
Reports(p, s) ==
  LET place == Place(p) IN
  /\ place \in {"load", "start", "discover", "gate", "graph", "delivered",
                "sync_pause", "persist", "hung", "done", "turned_away", "dead"}
  /\ p.pc \notin {"load", "hung", "done", "turned_away", "dead"} => p.cache = s
  /\ place \notin {"persist", "hung", "done", "dead"} => p.value = NoRow
  /\ place \in {"load", "start", "turned_away"} => s = "queued"
  /\ place \in {"discover", "graph", "delivered"} => s = "running"
  /\ place = "gate" => s \in {"running", "failed"}
  /\ place = "sync_pause" => s = "paused"
  /\ place = "persist" => s = p.value /\ s # NoRow
  /\ place = "done" => s = IF p.value = NoRow THEN "failed" ELSE p.value

(* Requests that are not jobs.                                             *)
Early == {"idle", "find", "insert", "cancel_load", "cancel_commit"}

(* Every row belongs to the client that inserted it, if to no other.       *)
RowInv ==
  /\ \A t \in 1..rows : \E c \in Clients : proc[c].task = t
  /\ \A c \in Clients : LET p == proc[c] IN
       /\ p.task \in 0..rows
       /\ p.pc \in {"idle", "find", "insert"} => p.task = 0 /\ p.value = NoRow
       /\ p.pc \in {"cancel_load", "cancel_commit"} => p.kind # "submit"
       /\ p.pc = "refresh" => p.then \notin Early \union {"refresh"}
       /\ p.pc \in {"done", "turned_away"} => p.task # 0

LoneOf(c) ==
  proc[c].kind = "submit" /\ proc[c].task # 0 /\ Lone(c)
    => Reports(proc[c], db[proc[c].task])

ReportInv == TypeInv /\ RowInv /\ \A c \in Clients : LoneOf(c)

LEMMA ReportInit == Init => ReportInv
<1> SUFFICES ASSUME Init PROVE ReportInv
  OBVIOUS
<1>1. \A c \in Clients : proc[c] = Idle
  BY DEF Init
<1>2. \A c \in Clients : proc[c].task = 0 /\ proc[c].pc = "idle" /\ proc[c].value = NoRow
  <2>1. Idle.task = 0 /\ Idle.pc = "idle" /\ Idle.value = NoRow
    BY DEF Idle
  <2> QED BY <1>1, <2>1
<1>3. RowInv
  BY <1>2 DEF RowInv, Init
<1>4. \A c \in Clients : LoneOf(c)
  BY <1>2 DEF LoneOf
<1> QED BY <1>3, <1>4, TypeInit DEF ReportInv

(* A step of c's job to p: it stays on its row, writes no other, and, if   *)
(* it is a lone submission, the row follows.                               *)
Advances(c, p) ==
  /\ p \in Procs /\ Becomes(c, p) /\ rows' = rows
  /\ p.task = proc[c].task /\ p.kind = proc[c].kind
  /\ p.pc \notin Early /\ (p.pc = "refresh" => p.then \notin Early \union {"refresh"})
  /\ \A t \in Ids \ {p.task} : db'[t] = db[t]
  /\ p.kind = "submit" /\ Reports(proc[c], db[p.task]) => Reports(p, db'[p.task])

LEMMA CommitAdvances ==
  ASSUME TypeInv, NEW c \in Clients, IsJob(proc[c]), UNCHANGED rows,
         NEW s \in Known, NEW next \in Steps \ (Early \union {"refresh"}), Commit(c, s, next),
         ASSUME proc[c].kind = "submit", Reports(proc[c], db[proc[c].task])
         PROVE  /\ proc[c].value = NoRow
                /\ \/ next = "discover" /\ s = "running"
                   \/ next \in {"gate", "done"} /\ s = "failed"
                   \/ next = "sync_pause" /\ s = "paused"
                /\ proc[c].cache = db[proc[c].task]
  PROVE  \E p : Advances(c, p)
<1> DEFINE r == proc[c].task
           p == [proc[c] EXCEPT !.cache = s, !.pc = "refresh", !.then = next]
<1>1. proc[c] \in Procs /\ r \in Ids /\ db \in [Ids -> Known]
  BY OwnRow DEF TypeInv, TypeOK
<1>2. /\ p \in Procs /\ p.task = r /\ p.kind = proc[c].kind /\ p.cache = s
      /\ p.pc = "refresh" /\ p.then = next /\ p.value = proc[c].value
  BY <1>1, Names DEF Procs
<1>3. Becomes(c, p) /\ db' = Written(c, s)
  BY DEF Commit
<1> HIDE DEF p
<1>4. \A t \in Ids \ {r} : db'[t] = db[t]
  BY <1>3 DEF Written
<1>5. proc[c].cache = db[r] => db'[r] = s
  BY <1>1, <1>3 DEF Written
<1>6. ASSUME p.kind = "submit", Reports(proc[c], db[r]) PROVE Reports(p, db'[r])
  BY <1>2, <1>5, <1>6 DEF Reports, Place, NoRow
<1> QED BY <1>2, <1>3, <1>4, <1>6 DEF Advances, Early

LEMMA EndsGraphAdvances ==
  ASSUME TypeInv, NEW c \in Clients, IsJob(proc[c]),
         NEW s \in Outcomes \ {NoRow}, EndsGraph(c, s),
         ASSUME proc[c].kind = "submit", Reports(proc[c], db[proc[c].task])
         PROVE  proc[c].cache = db[proc[c].task]
  PROVE  \E p : Advances(c, p)
<1> DEFINE r == proc[c].task
           p == [proc[c] EXCEPT !.value = s, !.cache = s, !.pc = "refresh",
                                !.then = "persist"]
<1>1. proc[c] \in Procs /\ r \in Ids /\ db \in [Ids -> Known]
  BY OwnRow DEF TypeInv, TypeOK
<1>2. /\ p \in Procs /\ p.task = r /\ p.kind = proc[c].kind /\ p.cache = s
      /\ p.pc = "refresh" /\ p.then = "persist" /\ p.value = s
  BY <1>1, Names DEF Procs
<1>3. Becomes(c, p) /\ db' = Written(c, s) /\ rows' = rows
  BY DEF EndsGraph
<1> HIDE DEF p
<1>4. \A t \in Ids \ {r} : db'[t] = db[t]
  BY <1>3 DEF Written
<1>5. proc[c].cache = db[r] => db'[r] = s
  BY <1>1, <1>3 DEF Written
<1>6. ASSUME p.kind = "submit", Reports(proc[c], db[r]) PROVE Reports(p, db'[r])
  BY <1>2, <1>5, <1>6 DEF Reports, Place, NoRow
<1> QED BY <1>2, <1>3, <1>4, <1>6 DEF Advances, Early

(* A job ends, having written or not.                                      *)
LEMMA EndAdvances ==
  ASSUME TypeInv, NEW c \in Clients, IsJob(proc[c]), UNCHANGED rows,
         Becomes(c, Closed(proc[c])),
         \A t \in Ids \ {proc[c].task} : db'[t] = db[t],
         ASSUME proc[c].kind = "submit", Reports(proc[c], db[proc[c].task])
         PROVE  db'[proc[c].task] =
                  IF proc[c].value = NoRow THEN "failed" ELSE proc[c].value
  PROVE  \E p : Advances(c, p)
<1> DEFINE r == proc[c].task
           p == Closed(proc[c])
<1>1. proc[c] \in Procs
  BY OwnRow
<1>2. /\ p \in Procs /\ p.task = r /\ p.kind = proc[c].kind
      /\ p.pc = "done" /\ p.value = proc[c].value
  BY <1>1, Names DEF Procs, Closed
<1>3. Becomes(c, p)
  OBVIOUS
<1> HIDE DEF p
<1>4. ASSUME p.kind = "submit", Reports(proc[c], db[r]) PROVE Reports(p, db'[r])
  BY <1>2, <1>4 DEF Reports, Place
<1> QED BY <1>2, <1>3, <1>4 DEF Advances, Early

LEMMA AtWork ==
  ASSUME NEW c \in Clients, JobStep(c) \/ Hangs(c)
  PROVE  IsJob(proc[c])
  BY DEF JobStep, TurnedAway, Load, MarkStarted, Refresh, LastRefresh, Discovered,
         DiscoveryFails, Gate, Deliver, Finalize, GivesUp, AskHuman,
         SyncPause, Persist, LosesThread, Raises, Hangs, At, IsJob

LEMMA JobAdvances ==
  ASSUME TypeInv, RowInv, NEW c \in Clients, JobStep(c) \/ Hangs(c)
  PROVE  \E p : Advances(c, p)
<1> DEFINE r == proc[c].task
<1>1. IsJob(proc[c])
  BY AtWork
<1>2. proc[c] \in Procs /\ r \in Ids /\ db[r] \in Known /\ db \in [Ids -> Known]
  BY <1>1, OwnRow DEF TypeInv, TypeOK
<1>3. CASE Load(c)
  <2> DEFINE p == [proc[c] EXCEPT !.pc = "start", !.cache = db[proc[c].task],
                                  !.found = IF proc[c].kind = "resume"
                                            THEN db[proc[c].task] ELSE NoRow]
  <2>1. /\ p \in Procs /\ p.task = r /\ p.kind = proc[c].kind
        /\ p.pc = "start" /\ p.cache = db[r] /\ p.value = proc[c].value
    BY <1>2, Names DEF Procs
  <2>2. Becomes(c, p) /\ UNCHANGED <<rows, db>> /\ proc[c].pc = "load"
    BY <1>3 DEF Load, At
  <2> HIDE DEF p
  <2> QED BY <2>1, <2>2 DEF Advances, Reports, Place, Early
<1>4. CASE MarkStarted(c)
  <2> DEFINE next == IF proc[c].kind = "resume" THEN "lost" ELSE "discover"
  <2>1. Commit(c, "running", next) /\ UNCHANGED rows /\ proc[c].pc = "start"
    BY <1>4 DEF MarkStarted, At
  <2>2. next \in Steps \ (Early \union {"refresh"}) /\ (proc[c].kind = "submit" => next = "discover")
    BY Names DEF Early
  <2> HIDE DEF next
  <2>3. ASSUME proc[c].kind = "submit", Reports(proc[c], db[r])
        PROVE  proc[c].value = NoRow /\ next = "discover" /\ proc[c].cache = db[r]
    BY <2>1, <2>2, <2>3 DEF Reports, Place
  <2> QED BY <1>1, <2>1, <2>2, <2>3, CommitAdvances, Names
<1>5. CASE Refresh(c)
  <2> DEFINE p == [proc[c] EXCEPT !.cache = db[proc[c].task],
                                  !.pc = proc[c].then, !.then = "idle"]
  <2>1. /\ p \in Procs /\ p.task = r /\ p.kind = proc[c].kind /\ p.then = "idle"
        /\ p.pc = proc[c].then /\ p.cache = db[r] /\ p.value = proc[c].value
    BY <1>2, Names DEF Procs
  <2>2. Becomes(c, p) /\ UNCHANGED <<rows, db>> /\ proc[c].pc = "refresh"
    BY <1>5 DEF Refresh, At
  <2>3. proc[c].then \notin Early \union {"refresh"}
    BY <2>2 DEF RowInv, Early
  <2> HIDE DEF p
  <2>4. ASSUME Reports(proc[c], db[r])
        PROVE  p.pc # "refresh" /\ Place(proc[c]) = p.pc /\ Place(p) = p.pc
    BY <2>1, <2>2, <2>4 DEF Reports, Place
  <2>5. ASSUME Reports(proc[c], db[r]) PROVE Reports(p, db'[r])
    BY <2>1, <2>2, <2>4, <2>5 DEF Reports
  <2> QED BY <2>1, <2>2, <2>3, <2>5 DEF Advances, Early
<1>6. CASE LastRefresh(c)
  <2>1. /\ Becomes(c, Closed(proc[c])) /\ UNCHANGED <<rows, db>>
        /\ proc[c].pc = "refresh" /\ proc[c].then = "done"
    BY <1>6 DEF LastRefresh, EndsJob, At
  <2>2. ASSUME Reports(proc[c], db[r])
        PROVE  db'[r] = IF proc[c].value = NoRow THEN "failed" ELSE proc[c].value
    BY <2>1, <2>2 DEF Reports, Place
  <2> QED BY <1>1, <2>1, <2>2, EndAdvances
<1>7. CASE Discovered(c)
  <2> DEFINE p == [proc[c] EXCEPT !.pc = "gate"]
  <2>1. /\ p \in Procs /\ p.task = r /\ p.kind = proc[c].kind
        /\ p.pc = "gate" /\ p.cache = proc[c].cache /\ p.value = proc[c].value
    BY <1>2, Names DEF Procs
  <2>2. Becomes(c, p) /\ UNCHANGED <<rows, db>> /\ proc[c].pc = "discover"
    BY <1>7 DEF Discovered, Move, At
  <2> HIDE DEF p
  <2> QED BY <2>1, <2>2 DEF Advances, Reports, Place, Early
<1>8. ASSUME NEW next \in {"gate", "done"}, DiscoveryFails(c, next)
      PROVE  \E p : Advances(c, p)
  <2>1. Commit(c, "failed", next) /\ UNCHANGED rows /\ proc[c].pc = "discover"
    BY <1>8 DEF DiscoveryFails, At
  <2>2. ASSUME proc[c].kind = "submit", Reports(proc[c], db[r])
        PROVE  proc[c].value = NoRow /\ proc[c].cache = db[r]
    BY <2>1, <2>2 DEF Reports, Place
  <2>3. next \in Steps \ (Early \union {"refresh"}) /\ "failed" \in Known
    BY Names DEF Early
  <2> QED BY <1>1, <2>1, <2>2, <2>3, CommitAdvances
<1>9. CASE Gate(c)
  <2>1. CASE db[r] = "running"
    <3> DEFINE p == [proc[c] EXCEPT !.pc = "graph", !.cache = "running",
                                    !.worked = TRUE]
    <3>1. /\ p \in Procs /\ p.task = r /\ p.kind = proc[c].kind
          /\ p.pc = "graph" /\ p.cache = "running" /\ p.value = proc[c].value
      BY <1>2, Names DEF Procs
    <3>2. Becomes(c, p) /\ UNCHANGED <<rows, db>> /\ proc[c].pc = "gate"
      BY <1>9, <2>1 DEF Gate, At
    <3> HIDE DEF p
    <3> QED BY <2>1, <3>1, <3>2 DEF Advances, Reports, Place, Early
  <2>2. CASE db[r] # "running"
    <3>1. Becomes(c, Closed(proc[c])) /\ UNCHANGED <<rows, db>> /\ proc[c].pc = "gate"
      BY <1>9, <2>2 DEF Gate, EndsJob, At
    <3>2. ASSUME Reports(proc[c], db[r])
          PROVE  db'[r] = IF proc[c].value = NoRow THEN "failed" ELSE proc[c].value
      BY <2>2, <3>1, <3>2 DEF Reports, Place
    <3> QED BY <1>1, <3>1, <3>2, EndAdvances
  <2> QED BY <2>1, <2>2
<1>10. CASE Deliver(c)
  <2> DEFINE p == [proc[c] EXCEPT !.pc = "delivered"]
  <2>1. /\ p \in Procs /\ p.task = r /\ p.kind = proc[c].kind
        /\ p.pc = "delivered" /\ p.cache = proc[c].cache /\ p.value = proc[c].value
    BY <1>2, Names DEF Procs
  <2>2. Becomes(c, p) /\ UNCHANGED <<rows, db>> /\ proc[c].pc = "graph"
    BY <1>10 DEF Deliver, Move, At
  <2> HIDE DEF p
  <2> QED BY <2>1, <2>2 DEF Advances, Reports, Place, Early
<1>11. ASSUME proc[c].pc \in {"graph", "delivered", "sync_pause", "raise"},
              proc[c].kind = "submit", Reports(proc[c], db[r])
       PROVE  proc[c].value = NoRow /\ proc[c].cache = db[r]
  BY <1>11 DEF Reports, Place
<1>12. CASE Finalize(c) \/ GivesUp(c) \/ SyncPause(c)
  <2>1. PICK s \in Outcomes \ {NoRow} : EndsGraph(c, s)
    BY <1>12 DEF Finalize, GivesUp, SyncPause, Outcomes, NoRow
  <2>2. proc[c].pc \in {"graph", "delivered", "sync_pause"}
    BY <1>12 DEF Finalize, GivesUp, SyncPause, At
  <2> QED BY <1>1, <1>11, <2>1, <2>2, EndsGraphAdvances
<1>13. CASE AskHuman(c)
  <2>1. /\ Commit(c, "paused", "sync_pause") /\ UNCHANGED rows
        /\ proc[c].pc \in {"graph", "delivered"}
        /\ "paused" \in Known /\ "sync_pause" \in Steps \ (Early \union {"refresh"})
    BY <1>13, Names DEF AskHuman, At, Early
  <2> QED BY <1>1, <1>11, <2>1, CommitAdvances
<1>14. CASE Persist(c)
  <2>1. /\ Becomes(c, Closed(proc[c])) /\ UNCHANGED rows
        /\ db' = Written(c, proc[c].value) /\ proc[c].pc = "persist"
    BY <1>14 DEF Persist, EndsJob, At
  <2>2. \A t \in Ids \ {r} : db'[t] = db[t]
    BY <2>1 DEF Written
  <2>3. ASSUME Reports(proc[c], db[r])
        PROVE  db'[r] = IF proc[c].value = NoRow THEN "failed" ELSE proc[c].value
    BY <1>2, <2>1, <2>3 DEF Reports, Place, Written
  <2> QED BY <1>1, <2>1, <2>2, <2>3, EndAdvances
<1>15. CASE LosesThread(c)
  <2> DEFINE p == [proc[c] EXCEPT !.pc = "raise", !.cache = db[proc[c].task]]
  <2>1. p \in Procs /\ p.task = r /\ p.kind = proc[c].kind /\ p.pc = "raise"
    BY <1>2, Names DEF Procs
  <2>2. Becomes(c, p) /\ UNCHANGED <<rows, db>> /\ proc[c].pc = "lost"
    BY <1>15 DEF LosesThread, At
  <2>3. ~Reports(proc[c], db[r])
    BY <2>2 DEF Reports, Place
  <2> HIDE DEF p
  <2> QED BY <2>1, <2>2, <2>3 DEF Advances, Early
<1>16. CASE Raises(c)
  <2>1. /\ Commit(c, "failed", "done") /\ UNCHANGED rows
        /\ proc[c].pc \in {"graph", "delivered", "raise"}
        /\ "failed" \in Known /\ "done" \in Steps \ (Early \union {"refresh"})
    BY <1>16, Names DEF Raises, At, Early
  <2> QED BY <1>1, <1>11, <2>1, CommitAdvances
<1>17. CASE Hangs(c) \/ TurnedAway(c)
  <2>1. PICK l \in {"hung", "turned_away"} :
          /\ Move(c, l) /\ UNCHANGED <<rows, db>>
          /\ l = "turned_away" => proc[c].pc = "load"
    BY <1>17 DEF Hangs, TurnedAway, At
  <2> DEFINE p == [proc[c] EXCEPT !.pc = l]
  <2>2. /\ p \in Procs /\ p.task = r /\ p.kind = proc[c].kind
        /\ p.pc = l /\ p.value = proc[c].value
    BY <1>2, Names DEF Procs
  <2>3. Becomes(c, p)
    BY <2>1 DEF Move
  <2> HIDE DEF p
  <2>4. ASSUME Reports(proc[c], db[r]) PROVE Reports(p, db'[r])
    BY <2>1, <2>2, <2>4 DEF Reports, Place
  <2> QED BY <2>1, <2>2, <2>3, <2>4 DEF Advances, Early
<1> QED
  BY <1>3, <1>4, <1>5, <1>6, <1>7, <1>8, <1>9, <1>10, <1>12, <1>13, <1>14,
     <1>15, <1>16, <1>17 DEF JobStep

(* A step of d that stays on its row, seen from c: if c is alone on its    *)
(* row afterwards, it was before, and the row is as it was.                *)
LEMMA JobReports ==
  ASSUME ReportInv, TypeInv', NEW c \in Clients, JobStep(c) \/ Hangs(c)
  PROVE  RowInv' /\ \A d \in Clients : LoneOf(d)'
<1>1. TypeInv /\ RowInv /\ \A d \in Clients : LoneOf(d)
  BY DEF ReportInv
<1>2. PICK p : Advances(c, p)
  BY <1>1, JobAdvances
<1>3. /\ proc'[c] = p /\ rows' = rows /\ p.task = proc[c].task
      /\ p.kind = proc[c].kind
      /\ \A d \in Clients \ {c} : proc'[d] = proc[d]
      /\ \A t \in Ids \ {p.task} : db'[t] = db[t]
  BY <1>1, <1>2, BecomesTypes DEF Advances, TypeInv, TypeOK
<1>4. /\ \A d \in Clients : /\ proc'[d].task = proc[d].task
                             /\ proc'[d].kind = proc[d].kind
      /\ p.task # 0
  <2>1. proc[c].task \in 1..rows
    BY <1>1, AtWork, OwnRow
  <2> QED BY <1>3, <2>1
<1>5. RowInv'
  <2>1. ASSUME NEW t \in 1..rows PROVE \E d \in Clients : proc'[d].task = t
    BY <1>1, <1>4 DEF RowInv
  <2>2. ASSUME NEW d \in Clients
        PROVE  /\ proc'[d].task \in 0..rows
               /\ proc'[d].pc \in {"idle", "find", "insert"} =>
                    proc'[d].task = 0 /\ proc'[d].value = NoRow
               /\ proc'[d].pc \in {"cancel_load", "cancel_commit"} =>
                    proc'[d].kind # "submit"
               /\ proc'[d].pc = "refresh" =>
                    proc'[d].then \notin Early \union {"refresh"}
               /\ proc'[d].pc \in {"done", "turned_away"} => proc'[d].task # 0
    <3>1. CASE d = c
      BY <1>1, <1>2, <1>3, <1>4, <3>1 DEF RowInv, Advances, Early
    <3>2. CASE d # c
      BY <1>1, <1>3, <3>2 DEF RowInv
    <3> QED BY <3>1, <3>2
  <2> QED BY <1>3, <2>1, <2>2 DEF RowInv
<1>6. ASSUME NEW d \in Clients, proc'[d].kind = "submit", proc'[d].task # 0,
             Lone(d)'
      PROVE  Reports(proc'[d], db'[proc'[d].task])
  <2>1. Lone(d) /\ LoneOf(d)
    BY <1>1, <1>4, <1>6 DEF Lone
  <2>2. Reports(proc[d], db[proc[d].task])
    BY <1>4, <1>6, <2>1 DEF LoneOf
  <2>3. CASE d = c
    BY <1>2, <1>3, <1>6, <2>2, <2>3 DEF Advances
  <2>4. CASE d # c
    <3>1. proc[d].task # p.task /\ proc'[d] = proc[d]
      BY <1>3, <2>1, <2>4 DEF Lone
    <3>2. proc[d].task \in Ids
      BY <1>1, <1>4, <1>6, Bounds DEF RowInv, TypeInv, TypeOK, Ids
    <3>3. db'[proc[d].task] = db[proc[d].task]
      BY <1>3, <3>1, <3>2
    <3> QED BY <2>2, <3>1, <3>3
  <2> QED BY <2>3, <2>4
<1> QED BY <1>5, <1>6 DEF LoneOf

(* A request that comes to row t, or is still without one.                 *)
Requests(c, p) ==
  /\ p \in Procs /\ Becomes(c, p) /\ rows' \in {rows, rows + 1}
  /\ p.pc \notin {"refresh", "idle"} /\ (p.pc \in {"done", "turned_away"} => p.task # 0)
  /\ p.pc \in {"find", "insert"} => p.task = 0 /\ p.value = NoRow
  /\ p.pc \in {"cancel_load", "cancel_commit"} => p.kind # "submit"
  /\ p.task \in 0..rows' /\ proc[c].task \in {0, p.task}
  /\ rows' = rows + 1 => p.task = rows + 1
  /\ \A t \in Ids \ {p.task} : db'[t] = db[t]
  /\ p.kind = "submit" /\ p.task # 0 /\ (\A d \in Clients \ {c} : proc[d].task # p.task)
       => Reports(p, db'[p.task])

LEMMA RequestMoves ==
  ASSUME TypeInv, RowInv, NEW c \in Clients, NewRequest(c) \/ RequestStep(c)
  PROVE  \E p : Requests(c, p)
<1>1. /\ proc[c] \in Procs /\ rows \in 0..MaxTasks /\ MaxTasks \in Nat
      /\ 1..rows \subseteq Ids /\ db \in [Ids -> Known] /\ DOMAIN proc = Clients
  BY Bounds DEF TypeInv, TypeOK, Ids
<1>2. proc[c].pc \in {"idle", "find", "insert"} => proc[c].task = 0 /\ proc[c].value = NoRow
  BY DEF RowInv
<1>3. CASE Submit(c)
  <2> DEFINE p == [proc[c] EXCEPT !.kind = "submit",
                                  !.pc = IF seen THEN "find" ELSE "insert"]
  <2>1. /\ p \in Procs /\ p.task = 0 /\ p.pc \in {"find", "insert"}
        /\ p.value = NoRow
    BY <1>1, <1>2, <1>3, Names DEF Procs, Submit, At
  <2>2. Becomes(c, p) /\ UNCHANGED <<rows, db>> /\ proc[c].task = 0
    BY <1>2, <1>3 DEF Submit, At
  <2> HIDE DEF p
  <2> QED BY <1>1, <2>1, <2>2 DEF Requests
<1>4. CASE FindExisting(c)
  <2>1. proc[c].pc = "find" /\ UNCHANGED <<rows, db>>
    BY <1>4 DEF FindExisting, At
  <2>2. CASE Move(c, "insert")
    <3> DEFINE p == [proc[c] EXCEPT !.pc = "insert"]
    <3>1. p \in Procs /\ p.task = 0 /\ p.pc = "insert" /\ p.value = NoRow
      BY <1>1, <1>2, <2>1, Names DEF Procs
    <3>2. Becomes(c, p) /\ proc[c].task = 0
      BY <1>2, <2>1, <2>2 DEF Move
    <3> HIDE DEF p
    <3> QED BY <1>1, <2>1, <3>1, <3>2 DEF Requests
  <2>3. CASE rows # 0 /\ Becomes(c, [proc[c] EXCEPT !.pc = "load", !.task = rows])
    <3> DEFINE p == [proc[c] EXCEPT !.pc = "load", !.task = rows]
    <3>1. rows \in Ids
      BY <1>1, <2>3
    <3>2. p \in Procs /\ p.task = rows /\ p.pc = "load"
      BY <1>1, <3>1, Names DEF Procs
    <3>3. Becomes(c, p) /\ proc[c].task = 0
      BY <1>2, <2>1, <2>3
    <3>4. PICK d \in Clients : proc[d].task = rows
      BY <1>1, <2>3 DEF RowInv
    <3>5. d # c
      BY <2>3, <3>3, <3>4
    <3> HIDE DEF p
    <3> QED BY <1>1, <2>1, <3>2, <3>3, <3>4, <3>5 DEF Requests
  <2> QED BY <1>4, <2>2, <2>3 DEF FindExisting
<1>5. CASE Insert(c)
  <2> DEFINE p == [proc[c] EXCEPT !.pc = "load", !.task = rows + 1]
  <2>1. /\ rows + 1 \in Ids /\ rows' = rows + 1 /\ proc[c].pc = "insert"
        /\ db' = [db EXCEPT ![rows + 1] = "queued"] /\ Becomes(c, p)
    BY <1>1, <1>5 DEF Insert, Ids, At
  <2>2. p \in Procs /\ p.task = rows + 1 /\ p.pc = "load" /\ p.value = NoRow
    BY <1>1, <1>2, <2>1, Names DEF Procs
  <2> HIDE DEF p
  <2>3. Reports(p, db'[p.task])
    BY <1>1, <2>1, <2>2 DEF Reports, Place
  <2> QED BY <1>1, <1>2, <2>1, <2>2, <2>3 DEF Requests
<1>6. ASSUME NEW t \in Ids, Cancel(c, t) \/ Resume(c, t) PROVE \E p : Requests(c, p)
  <2>1. PICK kind \in {"cancel", "resume"}, pc \in {"cancel_load", "load"} :
          Becomes(c, [proc[c] EXCEPT !.kind = kind, !.pc = pc, !.task = t])
    BY <1>6 DEF Cancel, Resume
  <2> DEFINE p == [proc[c] EXCEPT !.kind = kind, !.pc = pc, !.task = t]
  <2>2. p \in Procs /\ p.task = t /\ p.pc = pc /\ p.kind = kind
    BY <1>1, Names DEF Procs
  <2>3. UNCHANGED <<rows, db>> /\ t \in 1..rows /\ proc[c].task = 0
    BY <1>1, <1>2, <1>6 DEF Cancel, Resume, At, Ids
  <2>4. Becomes(c, p)
    BY <2>1
  <2> HIDE DEF p
  <2> QED BY <1>1, <2>2, <2>3, <2>4 DEF Requests
<1>7. CASE CancelLoad(c)
  <2> DEFINE p == [proc[c] EXCEPT !.cache = db[proc[c].task],
                                  !.pc = "cancel_commit"]
  <2>1. /\ Becomes(c, p) /\ UNCHANGED <<rows, db>> /\ proc[c].pc = "cancel_load"
        /\ proc[c].kind # "submit" /\ proc[c].task \in 1..rows
    BY <1>7 DEF CancelLoad, At, RowInv, TypeInv, TaskKnown
  <2>2. /\ p \in Procs /\ p.task = proc[c].task /\ p.kind = proc[c].kind
        /\ p.pc = "cancel_commit"
    BY <1>1, <2>1, Names DEF Procs
  <2> HIDE DEF p
  <2> QED BY <1>1, <2>1, <2>2 DEF Requests
<1>8. CASE CancelCommit(c)
  <2> DEFINE p == Closed(proc[c])
  <2>1. /\ Becomes(c, p) /\ rows' = rows /\ db' = Written(c, "cancelled")
        /\ proc[c].pc = "cancel_commit"
        /\ proc[c].kind # "submit" /\ proc[c].task \in 1..rows
    BY <1>8 DEF CancelCommit, At, RowInv, TypeInv, TaskKnown
  <2>2. /\ p \in Procs /\ p.task = proc[c].task /\ p.kind = proc[c].kind
        /\ p.pc = "done"
    BY <1>1, Names DEF Procs, Closed
  <2>3. \A t \in Ids \ {proc[c].task} : db'[t] = db[t]
    BY <2>1 DEF Written
  <2> HIDE DEF p
  <2> QED BY <1>1, <2>1, <2>2, <2>3 DEF Requests
<1> QED BY <1>3, <1>4, <1>5, <1>6, <1>7, <1>8 DEF NewRequest, RequestStep

LEMMA RequestReports ==
  ASSUME ReportInv, TypeInv', NEW c \in Clients, NewRequest(c) \/ RequestStep(c)
  PROVE  RowInv' /\ \A d \in Clients : LoneOf(d)'
<1>1. TypeInv /\ RowInv /\ \A d \in Clients : LoneOf(d)
  BY DEF ReportInv
<1>2. PICK p : Requests(c, p)
  BY <1>1, RequestMoves
<1>3. /\ proc'[c] = p /\ rows' \in {rows, rows + 1} /\ p.task \in 0..rows'
      /\ proc[c].task \in {0, p.task}
      /\ rows' = rows + 1 => p.task = rows + 1
      /\ \A d \in Clients \ {c} : proc'[d] = proc[d]
      /\ \A t \in Ids \ {p.task} : db'[t] = db[t]
      /\ rows \in 0..MaxTasks /\ MaxTasks \in Nat
  BY <1>1, <1>2, BecomesTypes, Bounds DEF Requests, TypeInv, TypeOK
<1>4. RowInv'
  <2>1. ASSUME NEW t \in 1..rows' PROVE \E d \in Clients : proc'[d].task = t
    <3>1. CASE t = p.task
      BY <1>3, <3>1
    <3>2. CASE t # p.task
      <4>1. t \in 1..rows
        BY <1>3, <3>2
      <4>2. PICK d \in Clients : proc[d].task = t
        BY <1>1, <4>1 DEF RowInv
      <4> QED BY <1>3, <3>2, <4>1, <4>2
    <3> QED BY <3>1, <3>2
  <2>2. ASSUME NEW d \in Clients
        PROVE  /\ proc'[d].task \in 0..rows'
               /\ proc'[d].pc \in {"idle", "find", "insert"} =>
                    proc'[d].task = 0 /\ proc'[d].value = NoRow
               /\ proc'[d].pc \in {"cancel_load", "cancel_commit"} =>
                    proc'[d].kind # "submit"
               /\ proc'[d].pc = "refresh" =>
                    proc'[d].then \notin Early \union {"refresh"}
               /\ proc'[d].pc \in {"done", "turned_away"} => proc'[d].task # 0
    <3>1. CASE d = c
      BY <1>2, <1>3, <3>1 DEF Requests
    <3>2. CASE d # c
      <4>1. proc[d].task \in 0..rows /\ proc'[d] = proc[d]
        BY <1>1, <1>3, <3>2 DEF RowInv
      <4>2. proc[d].task \in 0..rows'
        BY <1>3, <4>1
      <4> QED BY <1>1, <4>1, <4>2 DEF RowInv
    <3> QED BY <3>1, <3>2
  <2> QED BY <2>1, <2>2 DEF RowInv
<1>5. ASSUME NEW d \in Clients, proc'[d].kind = "submit", proc'[d].task # 0,
             Lone(d)'
      PROVE  Reports(proc'[d], db'[proc'[d].task])
  <2>1. CASE d = c
    <3>1. \A e \in Clients \ {c} : proc[e].task # p.task
      BY <1>3, <1>5, <2>1 DEF Lone
    <3> QED BY <1>2, <1>3, <1>5, <2>1, <3>1 DEF Requests
  <2>2. CASE d # c
    <3>1. proc'[d] = proc[d] /\ proc[d].task # p.task
      BY <1>3, <1>5, <2>2 DEF Lone
    <3>2. proc[d].task # proc[c].task
      BY <1>3, <1>5, <3>1
    <3>3. Lone(d) /\ LoneOf(d)
      BY <1>1, <1>3, <1>5, <3>1, <3>2 DEF Lone
    <3>4. Reports(proc[d], db[proc[d].task])
      BY <1>5, <3>1, <3>3 DEF LoneOf
    <3>5. proc[d].task \in Ids
      BY <1>1, <1>5, <3>1, Bounds DEF RowInv, TypeInv, TypeOK, Ids
    <3> QED BY <1>3, <3>1, <3>4, <3>5
  <2> QED BY <2>1, <2>2
<1> QED BY <1>4, <1>5 DEF LoneOf

LEMMA CrashReports ==
  ASSUME ReportInv, Crash
  PROVE  RowInv' /\ \A d \in Clients : LoneOf(d)'
<1>1. TypeInv /\ RowInv /\ \A d \in Clients : LoneOf(d)
  BY DEF ReportInv
<1>2. ASSUME NEW d \in Clients
      PROVE  /\ proc'[d].task = proc[d].task /\ proc'[d].kind = proc[d].kind
             /\ \/ proc'[d] = proc[d]
                \/ proc'[d].pc = "dead" /\ proc'[d].value = proc[d].value
  <2>1. CASE Over(proc[d])
    BY <2>1 DEF Crash
  <2>2. CASE ~Over(proc[d])
    <3>1. proc'[d] = [Closed(proc[d]) EXCEPT !.pc = "dead"] /\ proc[d] \in Procs
      BY <1>1, <2>2 DEF Crash, TypeInv, TypeOK
    <3> QED BY <3>1 DEF Closed, Procs
  <2> QED BY <2>1, <2>2
<1>3. rows' = rows /\ db' = db
  BY DEF Crash
<1>4. RowInv'
  BY <1>1, <1>2, <1>3 DEF RowInv
<1>5. ASSUME NEW d \in Clients, proc'[d].kind = "submit", proc'[d].task # 0,
             Lone(d)'
      PROVE  Reports(proc'[d], db'[proc'[d].task])
  <2>1. Lone(d) /\ LoneOf(d)
    BY <1>1, <1>2, <1>5 DEF Lone
  <2>2. Reports(proc[d], db[proc[d].task])
    BY <1>2, <1>5, <2>1 DEF LoneOf
  <2> QED BY <1>2, <1>3, <2>2 DEF Reports, Place
<1> QED BY <1>4, <1>5 DEF LoneOf

(* If exactly one submission ever touched a row and its job is over, the   *)
(* row says how it ended: the status the graph stored, QUEUED if the job   *)
(* was turned away, else FAILED                                            *)
(* (finalize_node, failed_node, runner.run_task, TaskService.run).         *)
THEOREM LoneRowsReport == Spec => []LoneJobReports
<1>1. Init => ReportInv
  BY ReportInit
<1>2. ReportInv /\ [Next]_vars => ReportInv'
  <2> SUFFICES ASSUME ReportInv, [Next]_vars PROVE ReportInv'
    OBVIOUS
  <2>1. TypeInv'
    BY TypeStep DEF ReportInv
  <2>2. CASE UNCHANGED vars
    BY <2>1, <2>2 DEF vars, ReportInv, RowInv, LoneOf, Lone
  <2>3. CASE Crash
    BY <2>1, <2>3, CrashReports DEF ReportInv
  <2>4. ASSUME NEW c \in Clients, NewRequest(c) \/ RequestStep(c) \/ JobStep(c)
                                 \/ Hangs(c)
        PROVE  ReportInv'
    BY <2>1, <2>4, JobReports, RequestReports DEF ReportInv
  <2> QED BY <2>2, <2>3, <2>4 DEF Next
<1>3. ReportInv => LoneJobReports
  <2> SUFFICES ASSUME ReportInv, NEW c \in Clients, proc[c].kind = "submit",
                      proc[c].pc \in {"done", "turned_away"}, Lone(c)
               PROVE  db[proc[c].task] =
                        IF proc[c].pc = "turned_away" THEN "queued"
                        ELSE IF proc[c].value = NoRow THEN "failed"
                        ELSE proc[c].value
    BY DEF LoneJobReports, Lone
  <2>1. LoneOf(c)
    BY DEF ReportInv
  <2>2. CASE proc[c].task # 0
    BY <2>1, <2>2 DEF LoneOf, Reports, Place
  <2>3. proc[c].task # 0
    BY DEF ReportInv, RowInv
  <2> QED BY <2>2, <2>3
<1> QED BY <1>1, <1>2, <1>3, PTL DEF Spec
=============================================================================
