------------------------------- MODULE Toolbox -------------------------------
(***************************************************************************)
(* The MCP servers and their tools (mcp/repository.py, documentation.py,   *)
(* execution.py, github.py), the registry build_registry assembles from    *)
(* them (mcp/factory.py, registry.py), and how each handler that runs no   *)
(* command can end.                                                        *)
(*                                                                         *)
(* mcp_for, the one caller in the orchestration, passes no GitHub client;  *)
(* build_registry takes one, and tests register the GitHub server.         *)
(***************************************************************************)
EXTENDS Permissions

WithLevel(tools, level) == [tool \in tools |-> level]

(* The tools each server registers, with the level they require.           *)
GitHubReads == {"get_repository", "get_issue", "get_issue_comments",
                "search_code", "get_file", "get_branch", "get_pull_request",
                "get_pull_request_reviews", "get_review_comments"}
GitHubWrites == {"create_fork", "create_branch", "push_changes",
                 "create_pull_request", "reply_to_comment", "update_pull_request"}
RepositoryTools == {"list_files", "read_file", "search_files",
                    "inspect_symbols", "get_dependencies"}
DocumentationTools == {"search_documentation", "fetch_documentation"}
ExecutionTools == {"run_tests", "run_linter", "run_typecheck", "run_build",
                   "run_security_scan"}

Tools == GitHubReads \cup GitHubWrites \cup RepositoryTools
           \cup DocumentationTools \cup ExecutionTools

Required(tool) == CASE tool \in GitHubWrites -> "write"
                    [] tool \in ExecutionTools -> "execute"
                    [] OTHER -> "read"

CategoryOf(tool) == CASE tool \in GitHubReads \cup GitHubWrites -> "github"
                      [] tool \in RepositoryTools -> "repository"
                      [] tool \in ExecutionTools -> "execution"
                      [] OTHER -> "documentation"

(* build_registry: what is registered, by its two arguments.               *)
Registered(client, execution) ==
  RepositoryTools \cup DocumentationTools
    \cup (IF client THEN GitHubReads \cup GitHubWrites ELSE {})
    \cup (IF execution THEN ExecutionTools ELSE {})

(* MCPRegistry.call: why a call gets no further, or "served".              *)
Verdict(registered, agent, tool) ==
  IF tool \notin registered THEN "unknown"
  ELSE IF CanCall(Derived(Granted(agent)), tool, CategoryOf(tool), Required(tool))
       THEN "served" ELSE "denied"
-----------------------------------------------------------------------------
(* What an argument can be to a handler: where its path leads, from the    *)
(* root of the repository, or arguments its schema refuses.                *)
Arguments == {"file", "undecodable", "directory", "missing", "outside", "invalid"}

(* How the handlers end on their first argument: with data, or by raising. *)
(* list_files, search_files and get_dependencies take the root for a path  *)
(* that leads outside; a search refuses an empty query, and a manifest may *)
(* not parse.  fetch_documentation puts its errors into the data.          *)
RepositoryEnds(tool, argument) ==
  CASE tool = "list_files" ->
         IF argument \in {"directory", "outside"} THEN {"data"} ELSE {"raises"}
    [] tool \in {"read_file", "inspect_symbols"} ->
         IF argument = "file" THEN {"data"} ELSE {"raises"}
    [] OTHER -> {"data", "raises"}

DocumentationEnds(tool, argument) == {"data"}

(* The three that ask GitHub may fail; the others answer a constant.       *)
GitHubEnds(tool) ==
  IF tool \in {"get_repository", "get_issue", "get_issue_comments"}
  THEN {"data", "raises"} ELSE {"data"}

HandlerEnds(tool, argument) ==
  IF argument = "invalid" THEN {"raises"}
  ELSE CASE tool \in RepositoryTools -> RepositoryEnds(tool, argument)
         [] tool \in DocumentationTools -> DocumentationEnds(tool, argument)
         [] OTHER -> GitHubEnds(tool)
=============================================================================
