--------------------------- MODULE MCChildTracking ---------------------------
EXTENDS ChildTrackingLife, TLC

(* Programs and kernels with every habit, and with all but waiting for     *)
(* other threads' children.                                                *)
AllHabits == {Habits, Habits \ {"any_child"}}

(* Programs that keep to their own children on kernels that never reuse a  *)
(* pid, and call no popen.                                                 *)
OwnChildren == {Habits \ {"any_child", "pid_reuse", "popen"}}

Symmetry == Permutations(Threads) \cup Permutations(Pids)
=============================================================================
