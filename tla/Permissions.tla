----------------------------- MODULE Permissions -----------------------------
(***************************************************************************)
(* What an agent may touch: the permissions the harness grants it          *)
(* (harness/permissions.py), the levels derived from them for the MCP      *)
(* layer, and the check of a tool against those levels                     *)
(* (mcp/permissions.py).                                                   *)
(***************************************************************************)
EXTENDS Integers, FiniteSets

DANGEROUS == {"repo.merge", "secret.read", "production.execute", "database.write"}

DEFAULT_AGENT_PERMISSIONS ==
  [coder        |-> {"repo.read", "workspace.read", "workspace.write"},
   tester       |-> {"workspace.read", "tests.execute"},
   security     |-> {"repo.read", "workspace.read"},
   reviewer     |-> {"repo.read", "workspace.read"},
   judge        |-> {"repo.read", "repo.pr.read"},
   planner      |-> {"repo.read", "workspace.read"},
   requirements |-> {"repo.issue.read", "repo.pr.read"},
   repository   |-> {"repo.read", "workspace.read"},
   failure_analyzer |-> {"repo.read", "workspace.read"},
   delivery     |-> {"repo.read", "repo.pr.read", "git.branch.create",
                     "git.commit", "git.push", "pr.create", "pr.update",
                     "pr.comment"},
   default      |-> {"repo.read", "workspace.read"}]

(* permissions_for: an agent without a row of its own gets the default one, *)
(* and the constructor strips what is dangerous.                            *)
Granted(agent) ==
  (IF agent \in DOMAIN DEFAULT_AGENT_PERMISSIONS
   THEN DEFAULT_AGENT_PERMISSIONS[agent]
   ELSE DEFAULT_AGENT_PERMISSIONS["default"]) \ DANGEROUS
-----------------------------------------------------------------------------
Categories == {"github", "repository", "execution", "documentation"}
Rank == [read |-> 0, execute |-> 1, write |-> 2]
AlwaysBlocked == {"create_fork", "create_branch", "push_changes",
                  "create_pull_request", "update_pull_request", "reply_to_comment"}

(* mcp_permissions_from: the categories it gives a level, and which.       *)
Derived(granted) ==
  LET has(some) == some \cap granted # {}
      given == {"documentation"}
        \cup (IF has({"repo.read", "repo.pr.read", "repo.merge", "git.push"})
              THEN {"github"} ELSE {})
        \cup (IF has({"workspace.read", "workspace.write"})
              THEN {"repository"} ELSE {})
        \cup (IF has({"tests.execute"}) THEN {"execution"} ELSE {})
  IN  [category \in given |->
        CASE category = "github" ->
               IF has({"repo.merge", "git.push"}) THEN "write" ELSE "read"
          [] category = "repository" ->
               IF has({"workspace.write"}) THEN "write" ELSE "read"
          [] category = "execution" -> "execute"
          [] OTHER -> "read"]

(* A slip: a category without a level falls back to what its tools need.   *)
LevelGenerous(allowed, category) ==
  IF category \in DOMAIN allowed THEN allowed[category] ELSE "execute"

(* allowed.get(category, READ).                                            *)
Level(allowed, category) ==
  IF category \in DOMAIN allowed THEN allowed[category] ELSE "read"

CanCall(allowed, tool, category, required) ==
  /\ tool \notin AlwaysBlocked
  /\ Rank[Level(allowed, category)] >= Rank[required]
=============================================================================
