----------------------------- MODULE MCWorkspace -----------------------------
(* Workspace with two jobs, of one task or of two.                         *)
EXTENDS Workspace, TLC

(* The repository has code from the start, or only once it is edited.      *)
SomeOrNone == {{}, {Upstream}}

OneOrTwoTasks == [Jobs -> Tasks]

(* Nothing tells jobs or tasks apart.                                      *)
Alike == Permutations(Jobs) \union Permutations(Tasks)
=============================================================================
