------------------------------- MODULE Sandbox -------------------------------
(***************************************************************************)
(* One command at a time in a sandbox: LocalSandbox.run                    *)
(* (execution/local.py), which starts a child process, and                 *)
(* DockerSandbox.run (execution/docker.py), which starts `docker run`, its *)
(* container and all.  create_sandbox (execution/factory.py) chooses.      *)
(*                                                                         *)
(* run waits in communicate() for the end of the child and of its output   *)
(* pipes.  What a local child starts can keep those pipes open after it,   *)
(* or let go of them (redirect or close its output) and run on unseen:     *)
(* the child is neither a session nor a process group of its own.  Of a    *)
(* container nothing survives its first process.  The commands are         *)
(* constants the allowlist of execution/commands.py admits.                *)
(***************************************************************************)
EXTENDS Integers

CONSTANTS
  Backends   \* the values of sandbox_backend to consider

ASSUME SandboxBackends == Backends \subseteq {"local", "docker"}

VARIABLES
  backend,     \* the sandbox_backend of the service
  wait,        \* what run waits for
  running,     \* the process of the command runs
  ending,      \* how it ended
  held,        \* something it started holds its pipes open
  loose,       \* something a command started runs without its pipes
  containers   \* containers whose run is over and that still run

sandboxVars == <<backend, wait, running, ending, held, loose, containers>>

(* How a process ends: its exit code, the items pytest's last line counts, *)
(* and whether stderr says that the module is not installed.  pytest exits *)
(* with 0 only if nothing failed.                                          *)
Counts == [passed : 0..1, failed : 0..1, errors : 0..1]
NoCounts == [passed |-> 0, failed |-> 0, errors |-> 0]
Endings ==
  {e \in [code : {0, 1}, counts : Counts, missing : BOOLEAN] :
     /\ e.code = 0 => e.counts.failed + e.counts.errors = 0
     /\ e.missing => e.code = 1 /\ e.counts = NoCounts}
Killed == [code |-> -9, counts |-> NoCounts, missing |-> FALSE]

SandboxType ==
  /\ backend \in Backends
  /\ wait \in {"nothing", "output", "rest"}
  /\ running \in BOOLEAN /\ held \in BOOLEAN /\ loose \in BOOLEAN
  /\ ending \in Endings \cup {Killed}
  /\ containers \in Nat

InitSandbox ==
  /\ backend \in Backends
  /\ wait = "nothing" /\ running = FALSE /\ ending = Killed
  /\ held = FALSE /\ loose = FALSE /\ containers = 0
-----------------------------------------------------------------------------
Spawn ==
  /\ wait = "nothing"
  /\ wait' = "output" /\ running' = TRUE
  /\ UNCHANGED <<backend, ending, held, loose, containers>>

(* External: the command and what it starts.                               *)
ProcessEnds ==
  /\ running
  /\ running' = FALSE
  /\ ending' \in Endings
  /\ UNCHANGED <<backend, wait, held, loose, containers>>

ChildLeavesPipesOpen ==
  /\ backend = "local" /\ running /\ ~held
  /\ held' = TRUE
  /\ UNCHANGED <<backend, wait, running, ending, loose, containers>>

PipesClose ==
  /\ held
  /\ held' = FALSE
  /\ UNCHANGED <<backend, wait, running, ending, loose, containers>>

(* Detached from the pipes it outlives the child, the kill and the answer. *)
ChildLetsGoOfPipes ==
  /\ backend = "local" /\ (running \/ held) /\ ~loose
  /\ loose' = TRUE
  /\ UNCHANGED <<backend, wait, running, ending, held, containers>>

LooseEnds ==
  /\ loose
  /\ loose' = FALSE
  /\ UNCHANGED <<backend, wait, running, ending, held, containers>>

(* A container that was abandoned ends by itself.                          *)
ContainerEnds ==
  /\ containers > 0
  /\ containers' = containers - 1
  /\ UNCHANGED <<backend, wait, running, ending, held, loose>>

(* communicate() comes back with the result of run.                        *)
Collect ==
  /\ wait # "nothing" /\ ~running /\ ~held
  /\ wait' = "nothing" /\ ending' = Killed
  /\ UNCHANGED <<backend, running, held, loose, containers>>

(* A slip: both backends report `returncode or 1`.                         *)
ReturnCodeOrOne == IF ending.code = 0 THEN 1 ELSE ending.code

(* The Docker backend reports `returncode or 1`.                           *)
ReturnCode ==
  IF backend = "docker" /\ ending.code = 0 THEN 1 ELSE ending.code
TimedOut == wait = "rest"

(* A slip: a timeout that finds the child ended does not count.            *)
SucceededByCode == ReturnCode = 0

(* ExecutionResult.succeeded.                                              *)
Succeeded == ReturnCode = 0 /\ ~TimedOut

(* A slip: the local sandbox waits for the rest without killing the child. *)
KillsNothing ==
  /\ backend = "local" /\ wait = "output" /\ (running \/ held)
  /\ wait' = "rest"
  /\ UNCHANGED <<backend, running, ending, held, loose, containers>>

(* The timeout.  The local sandbox kills the child, which reaches nothing  *)
(* that the child has started, and waits, without a limit, for the rest of *)
(* the output; the Docker sandbox raises and leaves the container to       *)
(* itself.                                                                 *)
KillChild ==
  /\ backend = "local" /\ wait = "output" /\ (running \/ held)
  /\ wait' = "rest"
  /\ running' = FALSE
  /\ ending' = IF running THEN Killed ELSE ending
  /\ UNCHANGED <<backend, held, loose, containers>>

AbandonContainer ==
  /\ backend = "docker" /\ wait = "output" /\ running
  /\ wait' = "nothing" /\ running' = FALSE
  /\ containers' = containers + 1
  /\ UNCHANGED <<backend, ending, held, loose>>
=============================================================================
