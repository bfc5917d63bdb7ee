-------------------------- MODULE AgentHarnessProofs --------------------------
(***************************************************************************)
(* The harness and the usage list for any number of calls, attempts and    *)
(* iterations, any costs and budgets.                                      *)
(*                                                                         *)
(* That a call over the budget is the last needs HarnessInv: whatever      *)
(* exceeds a limit ends the node in the same step.  That usage is counted  *)
(* once needs UsageInv: not only the row but every copy of it, the job's   *)
(* and those the coroutines have read, holds each call once and none whose *)
(* coroutine is still to write.                                            *)
(***************************************************************************)
EXTENDS AgentHarness, SequenceTheorems, TLAPS

(* Limits that are exceeded end the node.                                  *)
HarnessInv ==
  /\ node = "none" => phase = "ready"
  /\ node # "none" => /\ ticks <= MaxIterations
                      /\ iterations <= MaxIterations
                      /\ tokens <= MaxTokens
  /\ phase = "attempt" => attempt = 0
  /\ phase = "backoff" => attempt < MaxAttempts
  /\ phase = "calling" => calls >= 1

TypeInv == TypeOK /\ HarnessInv

(* A copy of the usage list that may be written back at any time.          *)
Sound(list) ==
  /\ \A i, j \in 1..Len(list) : list[i] = list[j] => i = j
  /\ \A i \in 1..Len(list) : list[i] \in answered /\ ~Pending(list[i])

UsageInv ==
  /\ phase = "calling" => calls \notin answered
  /\ \A r \in records : r.call \in answered
  /\ \A r, s \in records : r.call = s.call => r = s
  /\ Sound(row) /\ Sound(cached)
  /\ \A r \in records : Sound(r.seen.list)

(* The inductive invariant.                                                *)
IInv == TypeInv /\ UsageInv /\ KeptUnlessClobbered
-----------------------------------------------------------------------------
LEMMA InitInv == Init => IInv
<1> SUFFICES ASSUME Init PROVE IInv
  OBVIOUS
<1> USE HarnessBounds DEF Init, InitState
<1>1. row = <<>> /\ cached = <<>> /\ records = {} /\ lost = {} /\ Len(<<>>) = 0
  OBVIOUS
<1>2. TypeOK
  <2>1. /\ row \in Seq(1..MaxCalls) /\ cached \in Seq(1..MaxCalls)
        /\ answered \subseteq 1..calls
    OBVIOUS
  <2>3. clobbered \in BOOLEAN /\ late \in BOOLEAN
    OBVIOUS
  <2>2. /\ nodes \in 0..MaxNodes /\ attempt \in 0..MaxAttempts
        /\ ticks \in 0..(MaxIterations + 1) /\ calls \in 0..MaxCalls
        /\ iterations \in 0..(MaxIterations + 1) /\ tokens \in Nat
        /\ runs \in 0..2
    OBVIOUS
  <2> QED BY <1>1, <2>1, <2>2, <2>3 DEF TypeOK, Phases, Kinds
<1>3. HarnessInv
  BY DEF HarnessInv
<1>4. Sound(<<>>)
  BY DEF Sound
<1>5. UsageInv
  BY <1>1, <1>4 DEF UsageInv
<1>6. KeptUnlessClobbered
  BY DEF KeptUnlessClobbered
<1> QED BY <1>2, <1>3, <1>5, <1>6 DEF IInv, TypeInv

(* The part of TypeOK that speaks of the harness, the one that speaks of   *)
(* the usage.                                                              *)
HarnessTypes ==
  /\ job \in {"discovery", "nodes", "closing", "done"}
  /\ node \in Kinds \union {"none"} /\ phase \in Phases
  /\ nodes \in 0..MaxNodes /\ runs \in 0..2
  /\ attempt \in 0..MaxAttempts /\ ticks \in 0..(MaxIterations + 1)
  /\ late \in BOOLEAN
  /\ iterations \in 0..(MaxIterations + 1) /\ tokens \in Nat
  /\ calls \in 0..MaxCalls

UsageTypes ==
  /\ row \in Seq(1..MaxCalls) /\ cached \in Seq(1..MaxCalls)
  /\ clobbered \in BOOLEAN /\ lost \subseteq 1..MaxCalls
  /\ records \subseteq [call : 1..MaxCalls,
                        seen : [read : BOOLEAN, list : Seq(1..MaxCalls)]]
  /\ answered \subseteq 1..calls

LEMMA TwoTypes == TypeOK <=> HarnessTypes /\ UsageTypes
  BY DEF TypeOK, HarnessTypes, UsageTypes

(* The harness: every step of it keeps the types and the limits.           *)
LEMMA HarnessStep ==
  HarnessTypes /\ HarnessInv /\ [Next]_vars => HarnessTypes' /\ HarnessInv'
<1> SUFFICES ASSUME HarnessTypes, HarnessInv, [Next]_vars
             PROVE  HarnessTypes' /\ HarnessInv'
  OBVIOUS
<1> USE HarnessBounds DEF runVars, providerVars
<1>1. CASE Discover \/ Persist \/ \E b \in BOOLEAN : Close(b)
  BY <1>1 DEF Discover, Persist, Close, HarnessTypes, HarnessInv
<1>2. ASSUME NEW k \in Kinds, StartNode(k) PROVE HarnessTypes' /\ HarnessInv'
  <2>1. GuardedRuns[k] \in 0..2
    BY DEF Kinds, GuardedRuns
  <2>2. nodes' \in 0..MaxNodes
    BY <1>2 DEF StartNode, HarnessTypes
  <2>3. /\ node' = k /\ k # "none" /\ phase' \in {"working", "ready"}
        /\ runs' \in 0..2 /\ attempt' = 0 /\ ticks' = 0 /\ late' = FALSE
        /\ iterations' = 0 /\ tokens' = 0 /\ UNCHANGED <<job, calls>>
    BY <1>2, <2>1 DEF StartNode, Kinds
  <2>4. HarnessInv'
    BY <2>3 DEF HarnessInv
  <2>5. late' \in BOOLEAN
    BY <2>3
  <2> QED BY <2>2, <2>3, <2>4, <2>5 DEF HarnessTypes, Phases
<1>3. CASE StartRun
  <2>1. node # "none" /\ runs' \in 0..2
    BY <1>3 DEF StartRun, Guarded, HarnessTypes
  <2>2. /\ attempt' = 0 /\ late' = FALSE /\ phase' = "attempt"
        /\ UNCHANGED <<job, node, nodes, ticks, iterations, tokens, calls>>
    BY <1>3 DEF StartRun
  <2>3. late' \in BOOLEAN
    BY <2>2
  <2> QED BY <2>1, <2>2, <2>3 DEF HarnessTypes, HarnessInv, Phases
<1>4. CASE Attempt
  <2>1. node # "none" /\ ticks <= MaxIterations /\ attempt < MaxAttempts
        /\ attempt \in Nat /\ ticks \in Nat
    BY <1>4 DEF Attempt, HarnessTypes, HarnessInv
  <2>2. CASE ~late /\ ticks + 2 <= MaxIterations
    <3>1. ticks' = ticks + 2 /\ attempt' = attempt + 1 /\ phase' = "working"
          /\ UNCHANGED <<node, job, nodes, runs, late, providerVars>>
      BY <1>4, <2>2 DEF Attempt, HarnessTypes
    <3> QED BY <2>1, <2>2, <3>1 DEF HarnessTypes, HarnessInv, Phases
  <2>3. CASE late \/ ticks + 2 > MaxIterations
    <3>1. /\ EndsNode
          /\ UNCHANGED <<attempt, job, nodes, runs, late, providerVars>>
      BY <1>4, <2>1, <2>3 DEF Attempt, HarnessTypes
    <3>2. ticks' \in 0..(MaxIterations + 1)
      BY <1>4, <2>1, <2>3 DEF Attempt, HarnessTypes
    <3>3. HarnessInv'
      BY <3>1 DEF HarnessInv, EndsNode
    <3> QED BY <3>1, <3>2, <3>3 DEF HarnessTypes, EndsNode, Phases
  <2> QED BY <2>1, <2>2, <2>3 DEF HarnessTypes
<1>5. CASE DeadlinePasses
  BY <1>5 DEF DeadlinePasses, HarnessTypes, HarnessInv
<1>6. CASE TimeOut
  BY <1>6 DEF TimeOut, EndsNode, HarnessTypes, HarnessInv, Phases
<1>7. CASE SaveDelivery
  <2>1. node # "none"
    BY <1>7 DEF SaveDelivery, HarnessInv
  <2> QED
    BY <1>7, <2>1 DEF SaveDelivery, EndsNode, HarnessTypes, HarnessInv, Phases
<1>8. CASE BeginCall
  <2>1. /\ node # "none" /\ iterations <= MaxIterations
        /\ iterations \in Nat /\ calls \in Nat /\ calls < MaxCalls
    BY <1>8 DEF BeginCall, HarnessTypes, HarnessInv
  <2>2. CASE iterations + 1 > MaxIterations
    BY <1>8, <2>1, <2>2
       DEF BeginCall, Raises, EndsNode, HarnessTypes, HarnessInv, Phases
  <2>3. CASE iterations + 1 <= MaxIterations
    <3>1. /\ iterations' = iterations + 1 /\ calls' = calls + 1
          /\ phase' = "calling"
          /\ UNCHANGED <<node, job, nodes, runVars, tokens>>
      <4>1. ~(iterations + 1 > MaxIterations)
        BY <2>1, <2>3
      <4> QED BY <1>8, <4>1 DEF BeginCall
    <3> QED BY <2>1, <2>3, <3>1 DEF HarnessTypes, HarnessInv, Phases
  <2> QED BY <2>1, <2>2, <2>3
<1>9. ASSUME NEW n \in CallTokens, Answer(n) PROVE HarnessTypes' /\ HarnessInv'
  <2>1. n \in Nat /\ tokens + n \in Nat /\ node # "none"
    BY <1>9 DEF Answer, HarnessTypes, HarnessInv
  <2>2. CASE tokens + n > MaxTokens
    BY <1>9, <2>1, <2>2
       DEF Answer, Raises, EndsNode, HarnessTypes, HarnessInv, Phases
  <2>3. CASE tokens + n <= MaxTokens
    <3>1. /\ tokens' = tokens + n /\ phase' = "working"
          /\ UNCHANGED <<node, job, nodes, runVars, iterations, calls>>
      <4>1. ~(tokens + n > MaxTokens)
        BY <2>1, <2>3
      <4> QED BY <1>9, <4>1 DEF Answer
    <3> QED BY <2>1, <2>3, <3>1 DEF HarnessTypes, HarnessInv, Phases
  <2> QED BY <2>1, <2>2, <2>3
<1>10. ASSUME NEW b \in BOOLEAN, Raises(b), phase \in {"working", "calling"},
              UNCHANGED <<job, nodes, runVars, providerVars, stateVars>>
       PROVE  HarnessTypes' /\ HarnessInv'
  <2>1. attempt \in Nat /\ node # "none"
    BY <1>10 DEF HarnessTypes, HarnessInv
  <2>2. CASE phase' = "backoff" /\ UNCHANGED node /\ attempt < MaxAttempts
    BY <1>10, <2>1, <2>2 DEF HarnessTypes, HarnessInv, Phases
  <2>3. CASE EndsNode
    BY <1>10, <2>3 DEF EndsNode, HarnessTypes, HarnessInv, Phases
  <2> QED BY <1>10, <2>2, <2>3 DEF Raises
<1>11. CASE CallFails \/ \E b \in BOOLEAN : AgentRaises(b)
  BY <1>10, <1>11 DEF CallFails, AgentRaises
<1>12. CASE AgentReturns
  <2>1. node # "none"
    BY <1>12 DEF AgentReturns, HarnessInv
  <2> QED
    BY <1>12, <2>1 DEF AgentReturns, EndsNode, HarnessTypes, HarnessInv, Phases
<1>13. CASE \E r \in records : RecordUsage(r)
  BY <1>13 DEF RecordUsage, HarnessTypes, HarnessInv
<1>14. CASE UNCHANGED vars
  BY <1>14 DEF vars, HarnessTypes, HarnessInv
<1> QED
  BY <1>1, <1>2, <1>3, <1>4, <1>5, <1>6, <1>7, <1>8, <1>9, <1>11, <1>12, <1>13,
     <1>14 DEF Next, RunStep
-----------------------------------------------------------------------------
(* The usage: what the writers of the list do to it and its copies.        *)
Usage == UsageTypes /\ UsageInv /\ KeptUnlessClobbered

(* A step of the harness alone.                                            *)
LEMMA QuietStep ==
  ASSUME Usage, UNCHANGED <<stateVars, answered, calls>>,
         phase' = "calling" => phase = "calling"
  PROVE  Usage'
  BY DEF Usage, UsageTypes, UsageInv, KeptUnlessClobbered, Sound, Pending,
         Recorded, stateVars

LEMMA CallStep ==
  ASSUME Usage, HarnessTypes, BeginCall
  PROVE  Usage'
<1>1. UNCHANGED <<stateVars, answered>> /\ calls \in Nat
  BY DEF BeginCall, HarnessTypes
<1>2. CASE calls' = calls + 1
  <2>1. answered' \subseteq 1..calls' /\ calls' \notin answered'
    BY <1>1, <1>2 DEF Usage, UsageTypes
  <2> QED
    BY <1>1, <2>1 DEF Usage, UsageTypes, UsageInv, KeptUnlessClobbered, Sound,
                      Pending, Recorded, stateVars
<1>3. CASE calls' = calls /\ phase' # "calling"
  BY <1>1, <1>3, QuietStep
<1> QED BY <1>1, <1>2, <1>3 DEF BeginCall, Raises, EndsNode

(* The job writes its copy over the row.                                   *)
LEMMA SaveStep ==
  ASSUME Usage, Overwrite(cached, cached),
         UNCHANGED <<cached, records, lost, answered, calls>>,
         phase' = "calling" => phase = "calling"
  PROVE  Usage'
<1>1. UsageTypes'
  <2>1. row' = cached /\ clobbered' \in BOOLEAN
    BY DEF Overwrite, Usage, UsageTypes
  <2> QED BY <2>1 DEF Usage, UsageTypes
<1>2. UsageInv'
  BY DEF Usage, UsageInv, Sound, Pending, Overwrite
<1>3. KeptUnlessClobbered'
  BY DEF Usage, KeptUnlessClobbered, Recorded, Pending, Overwrite
<1> QED BY <1>1, <1>2, <1>3 DEF Usage

LEMMA RefreshStep ==
  ASSUME Usage, Refresh, UNCHANGED <<answered, calls>>, phase' # "calling"
  PROVE  Usage'
  BY DEF Refresh, Usage, UsageTypes, UsageInv, Sound, Pending,
         KeptUnlessClobbered, Recorded

(* A call is answered: its number is in no copy yet.                       *)
LEMMA SpawnStep ==
  ASSUME Usage, HarnessTypes, HarnessInv, phase = "calling", phase' = "working",
         answered' = answered \union {calls}, records' = Spawned(calls),
         UNCHANGED <<row, cached, clobbered, lost, calls>>
  PROVE  Usage'
<1> DEFINE new == [call |-> calls, seen |-> NotRead]
<1>1. /\ calls \in 1..MaxCalls /\ calls \notin answered
      /\ records' = records \union {new}
      /\ new.call = calls /\ new.seen.list = <<>>
      /\ new \in [call : 1..MaxCalls, seen : [read : BOOLEAN, list : Seq(1..MaxCalls)]]
  <2>1. calls \in 1..MaxCalls
    BY HarnessBounds DEF HarnessTypes, HarnessInv
  <2>2. NotRead \in [read : BOOLEAN, list : Seq(1..MaxCalls)]
    <3>1. FALSE \in BOOLEAN /\ <<>> \in Seq(1..MaxCalls)
      OBVIOUS
    <3> QED BY <3>1 DEF NotRead
  <2> QED BY <2>1, <2>2 DEF Usage, UsageInv, Spawned, NotRead
<1> HIDE DEF new
<1>2. UsageTypes'
  BY <1>1 DEF Usage, UsageTypes
<1>3. \A x : Pending(x)' <=> Pending(x) \/ x = calls
  BY <1>1 DEF Pending
<1>4. ASSUME NEW list, Sound(list) PROVE Sound(list)'
  BY <1>1, <1>3, <1>4 DEF Sound
<1>5. Sound(<<>>)'
  BY DEF Sound
<1>6. UsageInv'
  <2>1. \A r \in records' : r.call \in answered'
    BY <1>1 DEF Usage, UsageInv
  <2>2. \A r, s \in records' : r.call = s.call => r = s
    BY <1>1 DEF Usage, UsageInv
  <2>3. Sound(row)' /\ Sound(cached)'
    BY <1>4 DEF Usage, UsageInv
  <2>4. \A r \in records' : Sound(r.seen.list)'
    BY <1>1, <1>4, <1>5 DEF Usage, UsageInv
  <2> QED BY <2>1, <2>2, <2>3, <2>4 DEF UsageInv
<1>7. KeptUnlessClobbered'
  BY <1>3 DEF Usage, KeptUnlessClobbered, Recorded
<1> QED BY <1>2, <1>6, <1>7 DEF Usage

(* A coroutine reads the row.                                              *)
LEMMA ReadStep ==
  ASSUME Usage, NEW r \in records, RecordRead(r),
         UNCHANGED <<answered, calls, phase>>
  PROVE  Usage'
<1> DEFINE new == [r EXCEPT !.seen = [read |-> TRUE, list |-> row]]
<1>1. /\ r \in [call : 1..MaxCalls, seen : [read : BOOLEAN, list : Seq(1..MaxCalls)]]
      /\ row \in Seq(1..MaxCalls) /\ TRUE \in BOOLEAN
  BY DEF Usage, UsageTypes
<1>2. /\ new \in [call : 1..MaxCalls, seen : [read : BOOLEAN, list : Seq(1..MaxCalls)]]
      /\ new.call = r.call /\ new.seen.list = row
      /\ records' = (records \ {r}) \union {new}
      /\ UNCHANGED <<row, cached, clobbered, lost>>
  BY <1>1 DEF RecordRead
<1> HIDE DEF new
<1>3. \A x : Pending(x)' <=> Pending(x)
  BY <1>2 DEF Pending
<1>4. ASSUME NEW list, Sound(list) PROVE Sound(list)'
  BY <1>3, <1>4 DEF Sound
<1>5. UsageTypes'
  BY <1>2 DEF Usage, UsageTypes
<1>6. UsageInv'
  <2>1. \A s \in records' : s.call \in answered'
    BY <1>2 DEF Usage, UsageInv
  <2>2. \A s, t \in records' : s.call = t.call => s = t
    BY <1>2 DEF Usage, UsageInv
  <2>3. Sound(row)' /\ Sound(cached)'
    BY <1>2, <1>4 DEF Usage, UsageInv
  <2>4. \A s \in records' : Sound(s.seen.list)'
    BY <1>2, <1>4 DEF Usage, UsageInv
  <2> QED BY <2>1, <2>2, <2>3, <2>4 DEF Usage, UsageInv
<1>7. KeptUnlessClobbered'
  BY <1>2, <1>3 DEF Usage, KeptUnlessClobbered, Recorded
<1> QED BY <1>5, <1>6, <1>7 DEF Usage

(* A coroutine appends its call to what it has read.                       *)
LEMMA CommitStep ==
  ASSUME Usage, NEW r \in records, RecordCommit(r),
         UNCHANGED <<answered, calls, phase>>
  PROVE  Usage'
<1> DEFINE read == r.seen.list
<1>1. /\ r.call \in 1..MaxCalls /\ read \in Seq(1..MaxCalls) /\ Len(read) \in Nat
      /\ r.call \in answered /\ Pending(r.call) /\ Sound(read)
  BY LenProperties DEF Usage, UsageTypes, UsageInv, Pending
<1>2. /\ row' = Append(read, r.call) /\ cached' = cached
      /\ clobbered' = (clobbered \/ read # row) /\ records' = records \ {r}
      /\ lost' = lost
  BY DEF RecordCommit, Overwrite
<1> HIDE DEF read
<1>3. \A x : Pending(x)' <=> Pending(x) /\ x # r.call
  BY <1>2 DEF Pending, Usage, UsageInv
<1>4. ASSUME NEW list, Sound(list) PROVE Sound(list)'
  BY <1>3, <1>4 DEF Sound
<1>5. /\ row' \in Seq(1..MaxCalls) /\ Len(row') = Len(read) + 1
      /\ \A i \in 1..Len(read) : row'[i] = read[i]
      /\ row'[Len(read) + 1] = r.call
  BY <1>1, <1>2, AppendProperties
<1>6. UsageTypes'
  <2>1. clobbered' \in BOOLEAN
    BY DEF RecordCommit, Overwrite
  <2>2. /\ row' \in Seq(1..MaxCalls) /\ UNCHANGED <<cached, lost, answered, calls>>
        /\ records' \subseteq records
    BY <1>2, <1>5
  <2> QED BY <2>1, <2>2 DEF Usage, UsageTypes
<1>7. Sound(row)'
  <2>1. \A i \in 1..Len(read) : read[i] \in answered /\ ~Pending(read[i])
    BY <1>1 DEF Sound
  <2>2. \A i \in 1..Len(read) : read[i] # r.call
    BY <1>1, <2>1
  <2>3. \A i, j \in 1..Len(row') : row'[i] = row'[j] => i = j
    BY <1>1, <1>5, <2>2 DEF Sound
  <2>4. \A i \in 1..Len(row') :
          row'[i] \in answered /\ (~Pending(row'[i]) \/ row'[i] = r.call)
    BY <1>1, <1>5, <2>1
  <2>5. \A i \in 1..Len(row') : row'[i] \in answered /\ ~Pending(row[i])'
    BY <1>3, <2>4 DEF Pending
  <2> QED BY <2>3, <2>5 DEF Sound, Pending
<1>8. UsageInv'
  <2>1. \A s \in records' : s \in records
    BY <1>2
  <2>2. Sound(cached)'
    BY <1>2, <1>4 DEF Usage, UsageInv
  <2>3. \A s \in records' : Sound(s.seen.list)'
    BY <1>4, <2>1 DEF Usage, UsageInv
  <2> QED BY <1>7, <2>1, <2>2, <2>3 DEF Usage, UsageInv
<1>9. KeptUnlessClobbered'
  <2> SUFFICES ASSUME ~clobbered', NEW c \in answered, c \notin lost
               PROVE  Recorded(c)' \/ Pending(c)'
    BY <1>2 DEF KeptUnlessClobbered
  <2>1. ~clobbered /\ read = row
    BY <1>2
  <2>2. Recorded(c) \/ Pending(c)
    BY <2>1 DEF Usage, KeptUnlessClobbered
  <2>3. CASE Recorded(c)
    <3>1. PICK i \in 1..Len(read) : read[i] = c
      BY <2>1, <2>3 DEF Recorded
    <3>2. i \in 1..Len(row') /\ row'[i] = c
      BY <1>1, <1>5, <3>1
    <3> QED BY <3>2 DEF Recorded
  <2>4. CASE c = r.call
    <3>1. Len(read) + 1 \in 1..Len(row') /\ row'[Len(read) + 1] = c
      BY <1>1, <1>5, <2>4
    <3> QED BY <3>1 DEF Recorded
  <2> QED BY <1>3, <2>2, <2>3, <2>4
<1> QED BY <1>6, <1>8, <1>9 DEF Usage

(* A coroutine ends without writing.                                       *)
LEMMA FailStep ==
  ASSUME Usage, NEW r \in records, RecordFails(r),
         UNCHANGED <<answered, calls, phase>>
  PROVE  Usage'
<1>1. /\ records' = records \ {r} /\ lost' = lost \union {r.call}
      /\ UNCHANGED <<row, cached, clobbered>>
  BY DEF RecordFails
<1>2. r.call \in 1..MaxCalls
  BY DEF Usage, UsageTypes
<1>3. \A x : Pending(x)' <=> Pending(x) /\ x # r.call
  BY <1>1 DEF Pending, Usage, UsageInv
<1>4. ASSUME NEW list, Sound(list) PROVE Sound(list)'
  BY <1>3, <1>4 DEF Sound
<1>5. UsageTypes'
  BY <1>1, <1>2 DEF Usage, UsageTypes
<1>6. UsageInv'
  <2>1. Sound(row)' /\ Sound(cached)'
    BY <1>1, <1>4 DEF Usage, UsageInv
  <2>2. \A s \in records' : Sound(s.seen.list)'
    BY <1>1, <1>4 DEF Usage, UsageInv
  <2> QED BY <1>1, <2>1, <2>2 DEF Usage, UsageInv
<1>7. KeptUnlessClobbered'
  BY <1>1, <1>3 DEF Usage, KeptUnlessClobbered, Recorded
<1> QED BY <1>5, <1>6, <1>7 DEF Usage

LEMMA UsageStep ==
  Usage /\ HarnessTypes /\ HarnessInv /\ [Next]_vars => Usage'
<1> SUFFICES ASSUME Usage, HarnessTypes, HarnessInv, [Next]_vars PROVE Usage'
  OBVIOUS
<1> USE DEF runVars, providerVars
<1>1. CASE StartRun \/ Attempt \/ DeadlinePasses \/ TimeOut
  BY <1>1, QuietStep DEF StartRun, Attempt, DeadlinePasses, TimeOut, EndsNode
<1>2. CASE AgentReturns \/ \E k \in Kinds : StartNode(k)
  BY <1>2, QuietStep DEF AgentReturns, StartNode, EndsNode
<1>3. CASE CallFails \/ \E b \in BOOLEAN : AgentRaises(b)
  BY <1>3, QuietStep DEF CallFails, AgentRaises, Raises, EndsNode
<1>4. CASE UNCHANGED vars
  BY <1>4, QuietStep DEF vars
<1>5. CASE BeginCall
  BY <1>5, CallStep
<1>6. ASSUME NEW n \in CallTokens, Answer(n) PROVE Usage'
  <2>1. CASE tokens + n > MaxTokens
    BY <1>6, <2>1, QuietStep DEF Answer, Raises, EndsNode
  <2>2. CASE ~(tokens + n > MaxTokens)
    BY <1>6, <2>2, SpawnStep DEF Answer
  <2> QED BY <2>1, <2>2
<1>7. CASE Discover \/ Persist \/ SaveDelivery
  <2>1. phase' = "calling" => phase = "calling"
    BY <1>7 DEF Discover, Persist, SaveDelivery, EndsNode
  <2> QED
    BY <1>7, <2>1, SaveStep
       DEF Discover, Persist, SaveDelivery, SaveResult, PersistState
<1>8. CASE \E b \in BOOLEAN : Close(b)
  BY <1>8, RefreshStep DEF Close, HarnessInv
<1>9. ASSUME NEW r \in records, RecordUsage(r) PROVE Usage'
  BY <1>9, ReadStep, CommitStep, FailStep DEF RecordUsage
<1> QED
  BY <1>1, <1>2, <1>3, <1>4, <1>5, <1>6, <1>7, <1>8, <1>9 DEF Next, RunStep
-----------------------------------------------------------------------------
LEMMA Invariance == Spec => []IInv
<1>1. Init => IInv
  BY InitInv
<1>2. IInv /\ [Next]_vars => IInv'
  <2>1. IInv => HarnessTypes /\ HarnessInv /\ Usage
    BY TwoTypes DEF IInv, TypeInv, Usage
  <2>2. (HarnessTypes /\ HarnessInv /\ Usage)' => IInv'
    BY DEF IInv, TypeInv, Usage, TypeOK, HarnessTypes, UsageTypes
  <2> QED BY <2>1, <2>2, HarnessStep, UsageStep
<1> QED BY <1>1, <1>2, PTL DEF Spec

(* The counts of attempts, iterations and calls keep within their bounds,  *)
(* and the usage lists hold nothing but calls of the job (RetryPolicy,     *)
(* ExecutionBudget, AgentHarness.run).                                     *)
THEOREM TypeCorrect == Spec => []TypeOK
<1>1. IInv => TypeOK
  BY DEF IInv, TypeInv
<1> QED BY <1>1, Invariance, PTL

(* A node that has exceeded its token budget is not in a call any more,    *)
(* whatever the calls cost and however often its agent is retried          *)
(* (HarnessProvider.complete, TokenBudget.add).                            *)
THEOREM OneCallOverspends == Spec => []OverspentByOneCall
<1>1. IInv => OverspentByOneCall
  BY DEF IInv, TypeInv, HarnessInv, OverspentByOneCall
<1> QED BY <1>1, Invariance, PTL

(* However the coroutines of UsageService.record and the job's own writes  *)
(* of the state column interleave, no call is in the usage list twice, and *)
(* none that was not answered or whose coroutine has yet to write.         *)
THEOREM UsageIsCountedOnce == Spec => []CountedOnce
<1>1. IInv => CountedOnce
  BY DEF IInv, UsageInv, Sound, CountedOnce
<1> QED BY <1>1, Invariance, PTL

(* Usage is lost only by writing back a stale copy of the column, or with  *)
(* the call's own coroutine (TaskService.persist_workflow_state,           *)
(* UsageService.record).                                                   *)
THEOREM UsageIsKept == Spec => []KeptUnlessClobbered
<1>1. IInv => KeptUnlessClobbered
  BY DEF IInv
<1> QED BY <1>1, Invariance, PTL
=============================================================================
