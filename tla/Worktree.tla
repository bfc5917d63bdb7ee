------------------------------- MODULE Worktree -------------------------------
(***************************************************************************)
(* The clone a task works in (orchestration/nodes.py: repo_dir;            *)
(* agents/repository.py: RepositoryCloner; github/git.py: GitWorktree) and *)
(* where every job is.  The jobs of one task, which a duplicate submission *)
(* starts, share one directory.                                            *)
(*                                                                         *)
(* The content of a directory is the number of the edits in it, the        *)
(* coder's and those a checkout that stopped half way has made: files that *)
(* are missing.  What git ignores is in no commit and kept apart.          *)
(* Git subprocesses of GitWorktree block the event loop: a sequence of     *)
(* them without an await is one step.  git clone is awaited.               *)
(***************************************************************************)
EXTENDS Naturals, FiniteSets

CONSTANTS
  Jobs,
  Tasks,        \* tasks of one repository
  Assignments,  \* which job may work on which task
  MaxPasses,    \* bound on a job's passes through the graph
  MaxTroubles   \* bound on calls that fail, and on crashes

ASSUME WorkBounds ==
  /\ Assignments \subseteq [Jobs -> Tasks]
  /\ IsFiniteSet(Jobs)
  /\ MaxPasses \in Nat \ {0} /\ MaxTroubles \in Nat

VARIABLES
  at,           \* at[j]: what job j does next, or waits for
  taskOf,       \* taskOf[j]: the task j works on
  pass,         \* pass[j]: j's passes through the graph
  tree,         \* tree[t]: the directory of t
  troubles      \* calls that failed so far

(* History, read by properties only.                                       *)
VARIABLES
  troubled,     \* jobs one of whose calls failed
  torn          \* tasks in whose clone a checkout has failed

workVars == <<at, taskOf, pass, tree, troubles, troubled, torn>>

(* stage: how far git clone is; head: the edits in the commit HEAD names;  *)
(* edits: those in the files; ignored: there are files that git ignores;   *)
(* branch: the task's branch is checked out.                               *)
Stages == {"absent", "fetching", "checkout", "ready"}
Content == 0..(Cardinality(Jobs) * MaxPasses + MaxTroubles)
Directory == [stage : Stages, head : Content, edits : Content,
              ignored : BOOLEAN, branch : BOOLEAN]

Absent == [stage |-> "absent", head |-> 0, edits |-> 0, ignored |-> FALSE,
           branch |-> FALSE]

(* A commit: the one the repository had, which all tasks share, or task    *)
(* t's commit of n edits.                                                  *)
Upstream == [of |-> {}, edits |-> 0]
Commits == {Upstream} \union [of : {{t} : t \in Tasks}, edits : Content \ {0}]

Head(t) ==
  IF tree[t].head = 0 THEN Upstream ELSE [of |-> {t}, edits |-> tree[t].head]

HasHead(t) == tree[t].stage \in {"checkout", "ready"}

InitWork ==
  /\ at = [j \in Jobs |-> "idle"]
  /\ taskOf \in Assignments
  /\ pass = [j \in Jobs |-> 1]
  /\ tree = [t \in Tasks |-> Absent]
  /\ troubles = 0 /\ troubled = {} /\ torn = {}

Ended == {"done", "failed", "dead"}

Goes(j, where) == at' = [at EXCEPT ![j] = where]

(* A call of j fails, or its answer is lost.                               *)
Trouble(j) ==
  /\ troubles < MaxTroubles
  /\ troubles' = troubles + 1
  /\ troubled' = troubled \union {j}

NoTrouble == UNCHANGED <<troubles, troubled>>

(* A node raises: LangGraph runs it again, or gives the job up.            *)
NodeRaises(j, node) == Goes(j, node) \/ Goes(j, "failed")
-----------------------------------------------------------------------------
(* Exists with something in it.                                            *)
Occupied(t) == tree[t].stage # "absent" \/ tree[t].edits > 0 \/ tree[t].ignored

(* repository_node: only an empty directory is cloned into.  What is there *)
(* need not be a whole clone: another job's may be under way.              *)
RepositoryNode(j) ==
  /\ at[j] = "repository"
  /\ Goes(j, IF Occupied(taskOf[j]) THEN "read" ELSE "clone")
  /\ NoTrouble
  /\ UNCHANGED <<taskOf, pass, tree, torn>>

(* A slip: the directory is emptied first, whoever has filled it by now.   *)
CloneAfresh(j) ==
  /\ at[j] = "clone"
  /\ Goes(j, "fetch")
  /\ tree' = [tree EXCEPT ![taskOf[j]] = [Absent EXCEPT !.stage = "fetching"]]
  /\ NoTrouble
  /\ UNCHANGED <<taskOf, pass, torn>>

(* git refuses to clone into a directory that is not empty.                *)
CloneBegins(j) ==
  /\ at[j] = "clone"
  /\ IF Occupied(taskOf[j])
       THEN NodeRaises(j, "repository") /\ UNCHANGED tree
       ELSE /\ Goes(j, "fetch")
            /\ tree' = [tree EXCEPT ![taskOf[j]].stage = "fetching"]
  /\ NoTrouble
  /\ UNCHANGED <<taskOf, pass, torn>>

(* A slip: the clone is taken for finished as soon as it has a HEAD.       *)
CloneFetchedOnly(j) ==
  /\ at[j] = "fetch"
  /\ Goes(j, "read")
  /\ tree' = [tree EXCEPT ![taskOf[j]].stage = "checkout"]
  /\ NoTrouble
  /\ UNCHANGED <<taskOf, pass, torn>>

(* The commit has arrived: HEAD is there, the files come one by one, and   *)
(* clone waits for them all (communicate).                                 *)
CloneFetched(j) ==
  /\ at[j] = "fetch"
  /\ Goes(j, "checkout")
  /\ tree' = [tree EXCEPT ![taskOf[j]].stage = "checkout"]
  /\ NoTrouble
  /\ UNCHANGED <<taskOf, pass, torn>>

(* Files that another job has written in the meantime may be overwritten.  *)
CloneEnds(j) ==
  /\ at[j] = "checkout"
  /\ Goes(j, "read")
  /\ \E kept \in {0, tree[taskOf[j]].edits} :
       tree' = [tree EXCEPT ![taskOf[j]].stage = "ready",
                            ![taskOf[j]].edits = kept]
  /\ NoTrouble
  /\ UNCHANGED <<taskOf, pass, torn>>

(* git removes the directory of a clone that fails before it has arrived,  *)
(* and all that is in it.  After that the clone stays: a checkout that     *)
(* fails leaves HEAD and some of its files.                                *)
ClonedAway(t) ==
  tree' = [tree EXCEPT ![t] = Absent] /\ UNCHANGED torn

HalfCheckedOut(t) ==
  /\ \E kept \in {0, tree[t].edits} :
       tree' = [tree EXCEPT ![t].stage = "ready", ![t].edits = kept + 1]
  /\ torn' = torn \union {t}

CloneFails(j) ==
  /\ \/ at[j] = "clone" /\ UNCHANGED <<tree, torn>>
     \/ at[j] = "fetch" /\ ClonedAway(taskOf[j])
     \/ at[j] = "checkout" /\ HalfCheckedOut(taskOf[j])
  /\ NodeRaises(j, "repository")
  /\ Trouble(j)
  /\ UNCHANGED <<taskOf, pass>>

CloneStep(j) == CloneBegins(j) \/ CloneFetched(j) \/ CloneEnds(j)

(* The coder's changes, written one file after the other without an await. *)
(* Some may be to files that git ignores.                                  *)
WriteChanges(j) ==
  /\ at[j] = "coder"
  /\ \E n \in {0, 1}, more \in BOOLEAN :
       tree' = [tree EXCEPT ![taskOf[j]].edits = @ + n,
                            ![taskOf[j]].ignored = @ \/ more]
  /\ Goes(j, "deliver")
  /\ NoTrouble
  /\ UNCHANGED <<taskOf, pass, torn>>
-----------------------------------------------------------------------------
(* ensure_branch, add_all, and commit if there is anything to commit.      *)
CommitsAll(t) ==
  tree' = [tree EXCEPT ![t].branch = TRUE, ![t].head = tree[t].edits]

WorkTypes ==
  /\ at \in [Jobs -> {"idle", "discover", "repository", "clone", "fetch",
                      "checkout", "read", "delete", "lock", "embed", "planner",
                      "coder", "deliver", "auth", "upstream", "fork",
                      "create", "patch", "record", "feedback"} \union Ended]
  /\ taskOf \in [Jobs -> Tasks] /\ pass \in [Jobs -> 1..MaxPasses]
  /\ tree \in [Tasks -> Directory]
  /\ troubles \in 0..MaxTroubles /\ troubled \subseteq Jobs /\ torn \subseteq Tasks
=============================================================================
