----------------------------- MODULE MCToolCalls -----------------------------
(* Two pieces of work, one after the other.                                *)
EXTENDS ToolCalls

(* One agent of every kind of grants the check can tell apart.             *)
SomeAgents == {"coder", "tester", "requirements", "delivery", "somebody"}
SomeTools == {"get_issue", "get_file", "create_pull_request", "list_files",
              "read_file", "search_files", "fetch_documentation",
              "run_tests", "run_linter", "no_such_tool"}
=============================================================================
