---------------------------- MODULE MCEventStream ----------------------------
(* EventStream with a few jobs, observers and events.                      *)
EXTENDS EventStream
=============================================================================
