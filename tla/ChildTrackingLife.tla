-------------------------- MODULE ChildTrackingLife --------------------------
(***************************************************************************)
(* How far the recording of ChildTracking keeps the promise of ChildLife:  *)
(* the refinement mapping, and what is left of the promise once the kernel *)
(* reuses process identifiers.                                             *)
(***************************************************************************)
EXTENDS ChildTracking

(* The stage of p's life that the kernel's entry and the log agree on; a   *)
(* log that disagrees with the kernel has no stage.                        *)
Stage(p) ==
  IF gaps[p] > 0 THEN "lost"
  ELSE IF held[p] \notin {0, 1} THEN "disagree"
  ELSE IF Unreaped(p)       THEN IF held[p] = 0 THEN "born" ELSE "held"
  ELSE IF child[p] = "gone" THEN IF held[p] = 1 THEN "reaped" ELSE "released"
  ELSE IF held[p] = 0 THEN "unborn" ELSE "disagree"

Life == INSTANCE ChildLife WITH life <- [p \in Pids |-> Stage(p)]

(* A program whose threads wait only for children handed to them           *)
(* (src/src/sys/wait.c:85-109 with the pid fork returned) gets a log in    *)
(* which every child is acquired once, after it exists, is never released  *)
(* before the kernel reaped it, and is released once afterwards.  A call   *)
(* that falls into a Gap, or a jump, loses the child it is about alone.    *)
ImplementsChildLife == Life!Spec

(* When the kernel gives a reaped child's number to a new child before the *)
(* first one's release is written, the log shows two acquires in a row.    *)
(* Unless threads wait for children that were not handed to them, it never *)
(* shows a release without an acquire before it, and never more open       *)
(* acquires than one per thread still to report plus the child, whatever   *)
(* the program does to other children (src/src/sys/wait.c:85-109).         *)
NeverReleasedFirst ==
  "any_child" \notin usage =>
    \A p \in Pids :
      gaps[p] = 0 => held[p] \in 0 .. 1 + Cardinality(Owing("release", p))
=============================================================================
