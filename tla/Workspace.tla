------------------------------ MODULE Workspace ------------------------------
(***************************************************************************)
(* What jobs do to the things they share: two jobs of one task share its   *)
(* clone, its branch and its pull request; two tasks of one repository     *)
(* share the index.  A job discovers its issue, and then passes through    *)
(* the repository node, planner, coder and delivery as often as reviewers  *)
(* ask for re-planning.  What lies between these nodes (SupervisorGraph)   *)
(* touches nothing shared; a pass goes through them once, since only the   *)
(* last edit before a delivery matters here.                               *)
(***************************************************************************)
EXTENDS RepositoryIndex, Delivery

CONSTANT MaxFetches   \* max_attempts of TransientRetryPolicy in _discover

ASSUME FetchBound == MaxFetches \in Nat \ {0}

VARIABLE fetches      \* fetches[j]: failed attempts of the discovery

vars == <<workVars, indexVars, deliveryVars, fetches>>

Init ==
  /\ InitWork /\ InitIndex /\ InitDelivery
  /\ fetches = [j \in Jobs |-> 0]

Mates(j) == {k \in Jobs \ {j} : taskOf[k] = taskOf[j]}

(* A submission starts a job.  After a restart nothing leads to an old     *)
(* task any more.                                                          *)
Start(j) ==
  /\ at[j] = "idle"
  /\ \A k \in Mates(j) : at[k] # "dead"
  /\ Goes(j, "discover")
  /\ NoTrouble
  /\ UNCHANGED <<taskOf, pass, tree, torn, indexVars, deliveryVars, fetches>>

(* What categorize_exception tells apart: 429, 5xx and network errors are  *)
(* transient.                                                              *)
Outcomes == {"ok", "transient", "permanent"}

(* A slip: the last attempt is not counted.                                *)
TriesOnceMore(j, outcome) == outcome = "transient" /\ fetches[j] < MaxFetches

TriesAgain(j, outcome) == outcome = "transient" /\ fetches[j] + 1 < MaxFetches

(* _discover, under TransientRetryPolicy.  A discovery that fails ends the *)
(* job.                                                                    *)
Fetch(j) ==
  /\ at[j] = "discover"
  /\ \E outcome \in Outcomes :
       IF TriesAgain(j, outcome)
         THEN /\ fetches' = [fetches EXCEPT ![j] = @ + 1]
              /\ UNCHANGED at
         ELSE /\ fetches' = [fetches EXCEPT ![j] = 0]
              /\ Goes(j, IF outcome = "ok" THEN "repository" ELSE "failed")
  /\ NoTrouble
  /\ UNCHANGED <<taskOf, pass, tree, torn, indexVars, deliveryVars>>

Works(j) ==
  /\ RepositoryNode(j) \/ CloneStep(j) \/ CloneFails(j)
  /\ UNCHANGED <<indexVars, deliveryVars, fetches>>

(* The prompt has been used.                                               *)
Codes(j) ==
  /\ WriteChanges(j)
  /\ context' = [context EXCEPT ![j] = {}]
  /\ UNCHANGED <<blank, rows, reading, sha, collided, barren, deliveryVars,
                 fetches>>

Indexes(j) ==
  /\ IndexStep(j) \/ IndexFails(j) \/ Retrieve(j) \/ RetrieveFails(j)
  /\ UNCHANGED <<deliveryVars, fetches>>

Delivers(j) ==
  /\ DeliveryStep(j) \/ DeliveryTrouble(j) \/ Feedback(j)
  /\ UNCHANGED <<indexVars, fetches>>

(* The process dies; the database rolls the transactions back.             *)
Crash ==
  /\ \E j \in Jobs : at[j] \notin Ended \union {"idle"}
  /\ at' = [j \in Jobs |-> IF at[j] \in Ended \union {"idle"} THEN at[j]
                           ELSE "dead"]
  /\ reading' = [j \in Jobs |-> Nothing(j)]
  /\ troubles < MaxTroubles /\ troubles' = troubles + 1
  /\ troubled' = Jobs
  /\ UNCHANGED <<taskOf, pass, tree, torn, blank, rows, sha, context, collided,
                 barren, deliveryVars, fetches>>

JobStep(j) == Fetch(j) \/ Works(j) \/ Indexes(j) \/ Codes(j) \/ Delivers(j)

(* Nobody waits for anything, in particular not for another's index; this  *)
(* is the only state in which nothing more may happen.                     *)
Rest ==
  /\ \A j \in Jobs : at[j] \in Ended \union {"idle"}
  /\ UNCHANGED vars

Next == Crash \/ Rest \/ \E j \in Jobs : Start(j) \/ JobStep(j)

Spec == Init /\ [][Next]_vars
-----------------------------------------------------------------------------
TypeOK ==
  /\ WorkTypes /\ IndexTypes /\ DeliveryTypes
  /\ fetches \in [Jobs -> 0..(MaxFetches - 1)]

(* Nobody else has ever worked on j's task.                                *)
Alone(j) == \A k \in Mates(j) : at[k] = "idle"

(* Nobody but j has worked on any task.                                    *)
Sole(j) == \A k \in Jobs \ {j} : at[k] = "idle"

(* No index is ever seen half built and none is there twice, whatever jobs *)
(* replace it and wherever one of them dies: what is committed is all of   *)
(* what was read, and of two jobs that index the same commit one after the *)
(* other's DELETE only one is stored (RepositoryIndexer.index,             *)
(* DocumentChunk).  Copies of a clone that is not all there, or is edited, *)
(* may stand beside another: they need have no chunk in common with it.    *)
OneWholeCopy ==
  /\ \A r \in rows : r.chunks = r.size
  /\ \A r, s \in rows :
       r.commit = s.commit /\ r.commit \notin blank /\ Whole(r) /\ Whole(s)
         => r = s

(* The planner is given the code of the commit it works on.  The index its *)
(* job has made is still there when it retrieves, whatever other jobs have *)
(* indexed in between, unless a copy without a chunk was made of it.  What *)
(* it retrieves is of its clone's commit only, or nothing, if it has the   *)
(* clone for itself, no call failed, and no job's rows have refused its    *)
(* own; which needs another job.  Without an index the commit is unknown,  *)
(* and code of every commit and task is found (_index_repository,          *)
(* _retrieve_relevant_code, Retriever.retrieve).                           *)
PlannerSeesItsCommit ==
  \A j \in Jobs :
    /\ at[j] = "planner" => sha[j] \subseteq Visible(j) \union barren
    /\ at[j] = "coder" /\ Alone(j) /\ j \notin troubled \union collided =>
         context[j] \subseteq {Head(taskOf[j])}
    /\ Sole(j) => j \notin collided

(* What is indexed as a commit is that commit's content, over all          *)
(* re-planning passes, and files that git ignores, which are in no commit; *)
(* except that two jobs in one clone may read what the other has not       *)
(* finished or committed, and that what a failed checkout or a delivery    *)
(* that ended before its commit has left is indexed as if it were in HEAD  *)
(* (RepositoryIndexer.index).                                              *)
IndexedIsCommitted ==
  \A r \in rows : LET j == r.by[1] IN
    Alone(j) /\ taskOf[j] \notin skipped \union torn => Whole(r)

(* A pull request the graph knows is open, even if answers were lost, the  *)
(* node was run twice, or two jobs delivered the same branch.              *)
RecordedIsOpen == \A j \in Jobs : pr[j] => open[taskOf[j]]

(* The commit a job reports is on the branch of the pull request, unless   *)
(* the push failed, which is only logged (_push_to_fork).                  *)
RecordedIsPushed ==
  \A j \in Jobs :
    pr[j] => recorded[j] <= remote[taskOf[j]] \/ j \in unpushed

(* If it has the task for itself and no call failed, a delivery of changed *)
(* code in a fork of the repository's owner ends with the pull request     *)
(* known, and all of the work in the reported commit, in the branch on     *)
(* GitHub and in no uncommitted file; in the first cycle as in later ones. *)
(* Changes to files that git ignores are none of this work.                *)
UntroubledDelivery ==
  \A j \in Jobs : LET t == taskOf[j] IN
    /\ at[j] \in {"feedback", "done"} /\ Alone(j) /\ j \notin troubled
    /\ ownFork /\ tree[t].edits > 0
    => /\ pr[j] /\ open[t]
       /\ {recorded[j], remote[t], tree[t].head} = {tree[t].edits}

(* Committed work is never taken back, from a clone or from GitHub: not by *)
(* a mate's push of an older commit, and not by the failed clone that      *)
(* removes its directory, in which a mate may already be working           *)
(* (repository_node, RepositoryCloner.clone, _push_to_fork).               *)
CommitsAreKept ==
  [][\A t \in Tasks : /\ tree[t].head <= tree'[t].head
                      /\ remote[t] <= remote'[t]]_vars
=============================================================================
