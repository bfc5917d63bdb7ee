-------------------------- MODULE MCSupervisorGraph --------------------------
(* SupervisorGraph on small limits; the .cfg files give the values.        *)
EXTENDS SupervisorGraph
=============================================================================
