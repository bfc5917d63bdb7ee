----------------------------- MODULE StoredState -----------------------------
(***************************************************************************)
(* The usage list inside tasks.state, a JSON column that is always written *)
(* as a whole.  Two kinds of writers read it, change their copy and write  *)
(* it back: the job, whose session keeps the copy of its last refresh      *)
(* (services/tasks.py), and one coroutine per LLM call with a session of   *)
(* its own, which nobody awaits (harness/usage.py) and whose exceptions    *)
(* nobody sees.  The other keys of the column are left out.                *)
(***************************************************************************)
EXTENDS Naturals, Sequences

VARIABLES
  row,      \* usage list in the database: numbers of LLM calls
  cached,   \* usage list in the task object of the job's session
  records   \* coroutines of UsageService.record that have not ended

(* History, read by properties only.                                       *)
VARIABLES
  clobbered, \* somebody has written back a copy that was out of date
  lost       \* calls whose coroutine ended without writing

stateVars == <<row, cached, records, clobbered, lost>>

NotRead == [read |-> FALSE, list |-> <<>>]

InitState ==
  /\ row = <<>>
  /\ cached = <<>>
  /\ records = {}
  /\ clobbered = FALSE /\ lost = {}

(* A list is written over the row by somebody who changed the copy basis.  *)
Overwrite(basis, list) ==
  /\ row' = list
  /\ clobbered' = (clobbered \/ basis # row)
-----------------------------------------------------------------------------
(* A call's usage is handed to a coroutine of its own.                     *)
Spawned(call) == records \union {[call |-> call, seen |-> NotRead]}

RecordRead(r) ==
  /\ ~r.seen.read
  /\ records' = (records \ {r})
                  \union {[r EXCEPT !.seen = [read |-> TRUE, list |-> row]]}
  /\ UNCHANGED <<row, cached, clobbered, lost>>

(* A slip: a commit that went through is repeated.                         *)
RecordCommitAgain(r) ==
  /\ r.seen.read
  /\ Overwrite(r.seen.list, Append(r.seen.list, r.call))
  /\ UNCHANGED <<cached, records, lost>>

RecordCommit(r) ==
  /\ r.seen.read
  /\ Overwrite(r.seen.list, Append(r.seen.list, r.call))
  /\ records' = records \ {r}
  /\ UNCHANGED <<cached, lost>>

(* The coroutine ends without writing: the database raises, before or      *)
(* after the list was read, the task is gone, or the process dies.  Nobody *)
(* asks for its result, so nothing is tried again.                         *)
RecordFails(r) ==
  /\ records' = records \ {r}
  /\ lost' = lost \union {r.call}
  /\ UNCHANGED <<row, cached, clobbered>>

(* update_status ends in a refresh of the task object.                     *)
Refresh ==
  /\ cached' = row
  /\ UNCHANGED <<row, records, clobbered, lost>>

(* update_agent_result adds a key to the job's copy.                       *)
SaveResult ==
  /\ Overwrite(cached, cached)
  /\ UNCHANGED <<cached, records, lost>>

(* A slip: the snapshot of the graph is stored as it is; the graph never   *)
(* fills its own usage channel.                                            *)
StoreSnapshot ==
  /\ Overwrite(cached, <<>>)
  /\ cached' = <<>>
  /\ UNCHANGED <<records, lost>>

(* persist_workflow_state keeps the usage list of the job's copy.          *)
PersistState ==
  /\ Overwrite(cached, cached)
  /\ UNCHANGED <<cached, records, lost>>
=============================================================================
