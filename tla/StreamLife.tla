----------------------------- MODULE StreamLife -----------------------------
(***************************************************************************)
(* What the resource log promises about the streams of popen and pclose,   *)
(* by their addresses: a stream is logged while it exists, its release is  *)
(* logged while it still exists, and only then may the address be that of  *)
(* another stream.  A reader of the log never meets two acquires in a row, *)
(* although addresses are reused as soon as they are free.  The promise    *)
(* ends for an address when a wrapper is left before it has finished with  *)
(* the stream there, and for that address only.                            *)
(***************************************************************************)
CONSTANT Streams
VARIABLE life

Stages == {"free", "opening", "logged", "closing", "lost"}

Init == life = [s \in Streams |-> "free"]

Step(s, from, to) == life[s] = from /\ life' = [life EXCEPT ![s] = to]

Open(s)   == Step(s, "free", "opening")
Log(s)    == Step(s, "opening", "logged")
Retire(s) == Step(s, "logged", "closing")
Close(s)  == Step(s, "closing", "free")
Lose(s)   == Step(s, "opening", "lost") \/ Step(s, "closing", "lost")

Next == \E s \in Streams : Open(s) \/ Log(s) \/ Retire(s) \/ Close(s) \/ Lose(s)

(* Safety alone, and with the promise that an open stream gets logged or   *)
(* is lost.                                                                *)
SafeSpec == Init /\ [][Next]_life
Spec     == SafeSpec /\ \A s \in Streams : WF_life(Log(s))

TypeOK == life \in [Streams -> Stages]
=============================================================================
