----------------------------- MODULE WorkflowRun -----------------------------
(***************************************************************************)
(* What one engineering workflow promises its observers, whatever graph    *)
(* carries it out: the code of a task is a draft until every reviewer has  *)
(* accepted it, only accepted code is delivered, and a run may complete    *)
(* only after the code it holds has been through delivery.  A run ends by  *)
(* waiting for a human, completing, failing or dying with its process, and *)
(* can be resumed from each of these.                                      *)
(*                                                                         *)
(* SupervisorGraph implements this module.                                 *)
(***************************************************************************)

VARIABLES
  phase,   \* "working", "waiting", "completed", "failed" or "crashed"
  code     \* "draft", "accepted" or "delivered"

vars == <<phase, code>>

Phases == {"working", "waiting", "completed", "failed", "crashed"}
CodeStates == {"draft", "accepted", "delivered"}

TypeOK == phase \in Phases /\ code \in CodeStates

Init == phase = "working" /\ code = "draft"

(* The workspace is rewritten: whatever was accepted or delivered is a     *)
(* draft again.                                                            *)
Rework == phase = "working" /\ code' = "draft" /\ UNCHANGED phase

(* The last of the reviewers accepts the code as it stands.                *)
Accept == phase = "working" /\ code = "draft" /\ code' = "accepted"
          /\ UNCHANGED phase

Deliver == phase = "working" /\ code = "accepted" /\ code' = "delivered"
           /\ UNCHANGED phase

Ask == phase = "working" /\ phase' = "waiting" /\ UNCHANGED code

Complete == phase = "working" /\ code = "delivered" /\ phase' = "completed"
            /\ UNCHANGED code

(* A failure may strike in the middle of a rewrite.                        *)
Fail == phase = "working" /\ phase' = "failed" /\ code' \in {code, "draft"}

Crash == phase = "working" /\ phase' = "crashed" /\ code' \in {code, "draft"}

Resume == phase # "working" /\ phase' = "working" /\ UNCHANGED code

Next == Rework \/ Accept \/ Deliver \/ Ask \/ Complete \/ Fail \/ Crash
        \/ Resume

Spec == Init /\ [][Next]_vars
=============================================================================
