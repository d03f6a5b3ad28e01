------------------------- MODULE StreamTrackingLife -------------------------
(***************************************************************************)
(* StreamTracking implements StreamLife: the mapping reads a stream's      *)
(* stage off the C library's state and the log, and asks the threads only  *)
(* whether an unlogged stream is on its way in or out; what the log has    *)
(* wrong for good is lost.                                                 *)
(***************************************************************************)
EXTENDS StreamTracking

Closing(s) == \E t \in Threads : Inside(t, {"shut", "free"}) /\ stream[t] = s

Stage(s) ==
  IF s \in spoilt THEN "lost"
  ELSE IF s \notin open
    THEN IF streams[s] = 0 THEN "free" ELSE "disagree"
    ELSE IF streams[s] = 1 THEN "logged"
    ELSE IF streams[s] # 0 THEN "disagree"
    ELSE IF Closing(s) THEN "closing" ELSE "opening"

Life == INSTANCE StreamLife WITH life <- [s \in Streams |-> Stage(s)]

(* Every stream at an address has the life StreamLife describes, one after *)
(* the other, whichever thread closes it (src/src/stdio.c:61-62, 96): only *)
(* a jump out of the wrapper that has a stream in its hands, between the   *)
(* native call and its acquire or between its release and the end of the   *)
(* native call, loses an address, and no other.                            *)
ImplementsStreamLife == Life!Spec
=============================================================================
