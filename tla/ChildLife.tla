------------------------------ MODULE ChildLife ------------------------------
(***************************************************************************)
(* What a reader of the resource log may rely on for one child process:    *)
(* the "child-process" resource is acquired once, after the child exists,  *)
(* and released once, after the child has been reaped.  Every child walks  *)
(* the same straight line, and what the kernel has done is eventually      *)
(* written down, unless a call about the child loses it: then nothing is   *)
(* promised of it any more.                                                *)
(***************************************************************************)

CONSTANT Pids          \* the process identifiers a child can have

VARIABLE life          \* life[p] : how far the child p has come

Stages == {"unborn", "born", "held", "reaped", "released", "lost"}

Moves(p, from, to) ==
  /\ life[p] = from
  /\ life' = [life EXCEPT ![p] = to]

Bear(p)    == Moves(p, "unborn", "born")        \* the kernel creates the child
Acquire(p) == Moves(p, "born", "held")          \* the log gets its acquire event
Reap(p)    == Moves(p, "held", "reaped")        \* the kernel forgets the child
Release(p) == Moves(p, "reaped", "released")    \* the log gets its release event

(* A call about p that cannot be reported rightly.                         *)
Lose(p) == \E stage \in Stages \ {"lost"} : Moves(p, stage, "lost")

Init == life = [p \in Pids |-> "unborn"]

Next == \E p \in Pids : Bear(p) \/ Acquire(p) \/ Reap(p) \/ Release(p) \/ Lose(p)

Fairness == \A p \in Pids : WF_life(Acquire(p)) /\ WF_life(Release(p))

(* The safety part alone, and with the promise that events are written.    *)
SafeSpec == Init /\ [][Next]_life

Spec == SafeSpec /\ Fairness
=============================================================================
