------------------------------- MODULE Delivery -------------------------------
(***************************************************************************)
(* How a job's work becomes a pull request (orchestration/nodes.py:        *)
(* delivery_node, _deliver, _push_to_fork, feedback_node;                  *)
(* github/client.py; github/app_auth.py).  delivery_node runs _deliver     *)
(* under the harness, which ends it at the deadline or at the first        *)
(* exception: none that _deliver lets out is one the harness retries.      *)
(*                                                                         *)
(* GitHub is external.  It keeps a task's branch in the fork of the        *)
(* token's user, and at most one open pull request per branch.  The head   *)
(* that is asked for is <owner of the repository>:<branch>, so GitHub      *)
(* finds the branch only if that owner also owns the fork (ownFork).       *)
(***************************************************************************)
EXTENDS Worktree

VARIABLES
  ownFork,   \* the fork belongs to the owner of the repository
  remote,    \* remote[t]: the edits in t's branch on GitHub, 0 if none
  open,      \* open[t]: t's pull request is open
  commit,    \* commit[j]: the edits in the commit _deliver has at hand
  pr,        \* pr[j]: the channel pr holds the number of t's pull request
  recorded,  \* recorded[j]: the commit_sha in the channel pr, as edits
  asked      \* asked[j]: a feedback analysis of j asks for re-planning

(* History, read by properties only.                                       *)
VARIABLES
  unpushed,  \* jobs whose last push failed
  skipped    \* tasks with a delivery that ended before it had committed

github == <<ownFork, remote, open>>
deliveryVars ==
  <<ownFork, remote, open, commit, pr, recorded, asked, unpushed, skipped>>

InitDelivery ==
  /\ ownFork \in BOOLEAN
  /\ remote = [t \in Tasks |-> 0] /\ open = [t \in Tasks |-> FALSE]
  /\ commit = [j \in Jobs |-> 0]
  /\ pr = [j \in Jobs |-> FALSE] /\ recorded = [j \in Jobs |-> 0]
  /\ asked = [j \in Jobs |-> FALSE]
  /\ unpushed = {} /\ skipped = {}
-----------------------------------------------------------------------------
(* A slip: nobody looks at the harness's ok.                               *)
DeliveryEndsAnyway(j) ==
  /\ Goes(j, "feedback")
  /\ pr' = [pr EXCEPT ![j] = TRUE]
  /\ recorded' = [recorded EXCEPT ![j] = commit[j]]
  /\ commit' = [commit EXCEPT ![j] = 0]

(* The harness returns ok = False: the node stores pr = None.              *)
DeliveryEndsBadly(j) ==
  /\ Goes(j, "feedback")
  /\ pr' = [pr EXCEPT ![j] = FALSE]
  /\ recorded' = [recorded EXCEPT ![j] = 0]
  /\ commit' = [commit EXCEPT ![j] = 0]

(* The description is there; the branch is resumed or created, everything  *)
(* is added and committed.  In a directory without a finished clone, git   *)
(* fails.                                                                  *)
CommitWork(j) ==
  LET t == taskOf[j] IN
  /\ at[j] = "deliver"
  /\ IF tree[t].stage = "ready"
       THEN /\ CommitsAll(t)
            /\ commit' = [commit EXCEPT ![j] = tree'[t].head]
            /\ Goes(j, "auth")
            /\ UNCHANGED <<pr, recorded, skipped>>
       ELSE /\ DeliveryEndsBadly(j)
            /\ skipped' = skipped \union {t}
            /\ UNCHANGED tree
  /\ NoTrouble
  /\ UNCHANGED <<github, asked, unpushed, taskOf, pass, torn>>

(* The description fails, or the deadline passes before it is there.       *)
DescribeFails(j) ==
  /\ at[j] = "deliver"
  /\ DeliveryEndsBadly(j)
  /\ skipped' = skipped \union {taskOf[j]}
  /\ Trouble(j)
  /\ UNCHANGED <<github, asked, unpushed, taskOf, pass, tree, torn>>

(* The exchange of the app's token, where an app is configured: a refusal  *)
(* is a GitHubAppAuthError; HTTP errors and a bad key are not.             *)
AppAuth == {"token", "refused", "raises"}

(* refresh_auth goes on with the classic token after a refusal only; any   *)
(* other exception ends the delivery.                                      *)
AuthAnswers(j) ==
  /\ at[j] = "auth"
  /\ \E outcome \in AppAuth :
       IF outcome = "raises"
         THEN DeliveryEndsBadly(j) /\ Trouble(j)
         ELSE Goes(j, "upstream") /\ NoTrouble /\ UNCHANGED <<commit, pr, recorded>>
  /\ UNCHANGED <<github, asked, unpushed, skipped, taskOf, pass, tree, torn>>

(* A slip: the branch is not pushed when the pull request exists already.  *)
PushesOnce(j) ==
  /\ remote' = [remote EXCEPT ![taskOf[j]] =
                  IF open[taskOf[j]] THEN @ ELSE tree[taskOf[j]].head]
  /\ unpushed' = unpushed \ {j}
  /\ NoTrouble

(* The push is best-effort: a GitError is logged.  It takes the branch as  *)
(* it is by now.                                                           *)
Pushes(j) ==
  \/ /\ remote' = [remote EXCEPT ![taskOf[j]] = tree[taskOf[j]].head]
     /\ unpushed' = unpushed \ {j}
     /\ NoTrouble
  \/ /\ unpushed' = unpushed \union {j}
     /\ Trouble(j)
     /\ UNCHANGED remote

(* A slip: the channel is never read.                                      *)
KnownNever(j) == FALSE

(* _deliver knows a pull request, with its number and fork.                *)
KnownPR(j) == pr[j]

(* The repository has been answered.  An open pull request is pushed to    *)
(* and updated; else the fork comes first.                                 *)
UpstreamAnswers(j) ==
  /\ at[j] = "upstream"
  /\ \/ KnownPR(j) /\ Pushes(j) /\ Goes(j, "patch")
     \/ /\ ~KnownPR(j) /\ Goes(j, "fork")
        /\ NoTrouble
        /\ UNCHANGED <<remote, unpushed>>
  /\ UNCHANGED <<ownFork, open, commit, pr, recorded, asked, skipped, taskOf,
                 pass, tree, torn>>

ForkAnswers(j) ==
  /\ at[j] = "fork"
  /\ Pushes(j)
  /\ Goes(j, "create")
  /\ UNCHANGED <<ownFork, open, commit, pr, recorded, asked, skipped, taskOf,
                 pass, tree, torn>>

(* GitHub opens a pull request if it finds the branch, with commits of its *)
(* own, and has none open for it; else it answers 422.                     *)
Acceptable(t) == ownFork /\ remote[t] > 0 /\ ~open[t]

CreateAnswers(j) ==
  LET t == taskOf[j] IN
  /\ at[j] = "create"
  /\ IF Acceptable(t)
       THEN /\ open' = [open EXCEPT ![t] = TRUE]
            /\ Goes(j, "record")
            /\ UNCHANGED <<commit, pr, recorded>>
       ELSE DeliveryEndsBadly(j) /\ UNCHANGED open
  /\ NoTrouble
  /\ UNCHANGED <<ownFork, remote, asked, unpushed, skipped, taskOf, pass,
                 tree, torn>>

PatchAnswers(j) ==
  /\ at[j] = "patch"
  /\ Goes(j, "record")
  /\ NoTrouble
  /\ UNCHANGED <<deliveryVars, taskOf, pass, tree, torn>>

(* A call raises, or the deadline passes while it is awaited: GitHub may   *)
(* or may not have done what it was asked for.                             *)
CallFails(j) ==
  LET t == taskOf[j] IN
  /\ at[j] \in {"upstream", "fork", "create", "patch"}
  /\ \/ UNCHANGED open
     \/ /\ at[j] = "create" /\ Acceptable(t)
        /\ open' = [open EXCEPT ![t] = TRUE]
  /\ DeliveryEndsBadly(j)
  /\ Trouble(j)
  /\ UNCHANGED <<ownFork, remote, asked, unpushed, skipped, taskOf, pass,
                 tree, torn>>

(* update_agent_result, twice, and the channel.                            *)
Record(j) ==
  /\ at[j] = "record"
  /\ Goes(j, "feedback")
  /\ pr' = [pr EXCEPT ![j] = TRUE]
  /\ recorded' = [recorded EXCEPT ![j] = commit[j]]
  /\ commit' = [commit EXCEPT ![j] = 0]
  /\ NoTrouble
  /\ UNCHANGED <<github, asked, unpushed, skipped, taskOf, pass, tree, torn>>

(* The database raises: the node is run again, with the pr of the cycle    *)
(* before, or the job is given up.                                         *)
RecordFails(j) ==
  /\ at[j] = "record"
  /\ NodeRaises(j, "deliver")
  /\ commit' = [commit EXCEPT ![j] = 0]
  /\ Trouble(j)
  /\ UNCHANGED <<github, pr, recorded, asked, unpushed, skipped, taskOf, pass,
                 tree, torn>>

DeliveryStep(j) ==
  \/ CommitWork(j) \/ AuthAnswers(j) \/ UpstreamAnswers(j) \/ ForkAnswers(j)
  \/ CreateAnswers(j) \/ PatchAnswers(j) \/ Record(j)

DeliveryTrouble(j) == DescribeFails(j) \/ CallFails(j) \/ RecordFails(j)

(* What a poll may find.  Without a pull request, and when GitHub does not *)
(* answer, there are no comments.                                          *)
PollAsks(j) == IF pr[j] THEN BOOLEAN ELSE {FALSE}

(* Analyses of earlier cycles still count, with or without comments.  The  *)
(* graph's limits (SupervisorGraph) may end the job all the same.          *)
Feedback(j) ==
  /\ at[j] = "feedback"
  /\ \E asks \in PollAsks(j) :
       asked' = [asked EXCEPT ![j] = @ \/ asks]
  /\ \/ /\ asked'[j] /\ pass[j] < MaxPasses
        /\ pass' = [pass EXCEPT ![j] = @ + 1]
        /\ Goes(j, "repository")
     \/ Goes(j, "done") /\ UNCHANGED pass
  /\ NoTrouble
  /\ UNCHANGED <<github, commit, pr, recorded, unpushed, skipped, taskOf,
                 tree, torn>>

DeliveryTypes ==
  /\ ownFork \in BOOLEAN
  /\ remote \in [Tasks -> Content] /\ open \in [Tasks -> BOOLEAN]
  /\ commit \in [Jobs -> Content] /\ recorded \in [Jobs -> Content]
  /\ pr \in [Jobs -> BOOLEAN] /\ asked \in [Jobs -> BOOLEAN]
  /\ unpushed \subseteq Jobs /\ skipped \subseteq Tasks
=============================================================================
