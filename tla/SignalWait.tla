----------------------------- MODULE SignalWait -----------------------------
(***************************************************************************)
(* A single-threaded program that waits for signals with the wrappers:     *)
(* p101_alarm, p101_pause, p101_sigsuspend, p101_sigwait, p101_sleep, with *)
(* p101_sigaction, p101_sigprocmask, p101_kill and p101_killpg around      *)
(* them.  A wrapper does several things before its native call (trace,     *)
(* injector, errno = 0), and a signal that is not blocked can be handled   *)
(* meanwhile: then the wait has nothing left to wait for.                  *)
(*                                                                         *)
(* The program is a sequence of calls, taken from a set of them.  It looks *)
(* at every result and gives up at the first call that fails with another  *)
(* error than the EINTR by which pause and sigsuspend return.              *)
(***************************************************************************)
EXTENDS Sequences

CONSTANTS
  Signals,
  SIGALRM,
  Programs,    \* sequences of calls, see Calls
  Careful,     \* those that block a signal before it can come, see WaitsEnd
  Faults       \* whether the injector turns calls down

(* A call, with the signal or the set of signals it is about.              *)
Calls ==
  [op : {"catch", "ignore", "sigprocmask", "sigsuspend", "sigwait", "kill",
         "alarm", "alarm_off", "pause", "sleep"},
   sig : Signals, set : SUBSET Signals]

ASSUME SignalsAssumption == SIGALRM \in Signals /\ Faults \in BOOLEAN
ASSUME ProgramsAssumption == Programs \subseteq Seq(Calls)

VARIABLES
  todo,        \* the calls the program has still to make, the current first
  at,          \* where the program is, see Places
  reaction,    \* reaction[s] : default, catch or ignore
  mask,        \* the process's signal mask
  asked,       \* the mask the program last asked for with sigprocmask
  pending,     \* signals generated and not yet handled or accepted
  timer        \* whether an alarm is set

vars == <<todo, at, reaction, mask, asked, pending, timer>>

(* Between calls, in a wrapper before its native call, in a native call    *)
(* that waits; and the three ways to stop.                                 *)
Places == {"between", "entered", "waiting", "done", "gave_up", "killed"}

Init ==
  /\ todo \in Programs
  /\ at       = "between"
  /\ reaction = [s \in Signals |-> "default"]
  /\ mask     = {}
  /\ asked    = {}
  /\ pending  = {}
  /\ timer    = FALSE

Call == Head(todo)
Now(op) == todo # <<>> /\ Call.op = op

-----------------------------------------------------------------------------
(* Sigsuspend's mask is in force while it waits and not before.            *)
MaskedEarly(op, set) == IF op = "sigsuspend" THEN set ELSE mask    \* mutant: sigprocmask, then pause
MaskOnEntry(op, set) == mask

Enter ==
  /\ at = "between" /\ todo # <<>>
  /\ at' = "entered"
  /\ mask' = MaskOnEntry(Call.op, Call.set)
  /\ UNCHANGED <<todo, reaction, asked, pending, timer>>

Finish ==
  /\ at = "between" /\ todo = <<>>
  /\ at' = "done"
  /\ UNCHANGED <<todo, reaction, mask, asked, pending, timer>>

(* alarm and sleep have no error object and cannot fail.                   *)
NoError == {"alarm", "alarm_off", "sleep"}

FaultedAnywhere ==    \* mutant: the injector is asked in alarm and sleep too
  /\ Faults /\ at = "entered"
  /\ at' = "gave_up"
  /\ UNCHANGED <<todo, reaction, mask, asked, pending, timer>>

(* The injector turns the call down.                                       *)
Faulted ==
  /\ Faults /\ at = "entered" /\ Call.op \notin NoError
  /\ at' = "gave_up"
  /\ UNCHANGED <<todo, reaction, mask, asked, pending, timer>>

Returns == at' = "between" /\ todo' = Tail(todo)

(* A signal nobody wants is gone as soon as it is generated.               *)
Generated(s) == IF reaction[s] = "ignore" THEN {} ELSE {s}

Alarm ==
  /\ at = "entered" /\ Now("alarm")
  /\ timer' = TRUE
  /\ Returns
  /\ UNCHANGED <<reaction, mask, asked, pending>>

AlarmOff ==
  /\ at = "entered" /\ Now("alarm_off")
  /\ timer' = FALSE
  /\ Returns
  /\ UNCHANGED <<reaction, mask, asked, pending>>

(* kill and killpg, of the program's own process.                          *)
Kill ==
  /\ at = "entered" /\ Now("kill")
  /\ pending' = pending \cup Generated(Call.sig)
  /\ Returns
  /\ UNCHANGED <<reaction, mask, asked, timer>>

(* sigaction with a handler or SIG_IGN; ignoring a signal discards it.     *)
Sigaction ==
  /\ at = "entered" /\ (Now("catch") \/ Now("ignore"))
  /\ reaction' = [reaction EXCEPT ![Call.sig] = Call.op]
  /\ pending' = IF Now("ignore") THEN pending \ {Call.sig} ELSE pending
  /\ Returns
  /\ UNCHANGED <<mask, asked, timer>>

Sigprocmask ==
  /\ at = "entered" /\ Now("sigprocmask")
  /\ mask' = Call.set /\ asked' = Call.set
  /\ Returns
  /\ UNCHANGED <<reaction, pending, timer>>

(* pause, sigwait and sleep start to wait; sigsuspend also changes the     *)
(* mask, in one step with it.                                              *)
Waits ==
  /\ at = "entered" /\ (Now("pause") \/ Now("sigwait") \/ Now("sleep"))
  /\ at' = "waiting"
  /\ UNCHANGED <<todo, reaction, mask, asked, pending, timer>>

Sigsuspend ==
  /\ at = "entered" /\ Now("sigsuspend")
  /\ at' = "waiting"
  /\ mask' = Call.set
  /\ UNCHANGED <<todo, reaction, asked, pending, timer>>

Native ==
  \/ Alarm \/ AlarmOff \/ Kill \/ Sigaction \/ Sigprocmask
  \/ Waits \/ Sigsuspend

-----------------------------------------------------------------------------
(* The kernel. *)

Running == at \in {"between", "entered", "waiting"}

TimerExpires ==
  /\ timer /\ Running
  /\ timer' = FALSE
  /\ pending' = pending \cup Generated(SIGALRM)
  /\ UNCHANGED <<todo, at, reaction, mask, asked>>

(* Handlers run, one or several before the program goes on.  They end the  *)
(* wait of pause, sigsuspend and sleep, with sigsuspend's mask undone;     *)
(* sigwait goes on waiting.                                                *)
Handle(some) ==
  /\ Running /\ some # {}
  /\ \A s \in some : s \in pending \ mask /\ reaction[s] = "catch"
  /\ pending' = pending \ some
  /\ IF at = "waiting" /\ ~Now("sigwait") THEN Returns ELSE UNCHANGED <<at, todo>>
  /\ mask' = IF at = "waiting" /\ Now("sigsuspend") THEN asked ELSE mask
  /\ UNCHANGED <<reaction, asked, timer>>

(* A signal nobody has prepared for ends the process.                      *)
Die(s) ==
  /\ Running /\ s \in pending \ mask /\ reaction[s] = "default"
  /\ at' = "killed"
  /\ UNCHANGED <<todo, reaction, mask, asked, pending, timer>>

(* sigwait accepts a pending signal of its set, and no handler runs.       *)
Accept(s) ==
  /\ at = "waiting" /\ Now("sigwait") /\ s \in pending \cap Call.set
  /\ pending' = pending \ {s}
  /\ Returns
  /\ UNCHANGED <<reaction, mask, asked, timer>>

SleepOver ==
  /\ at = "waiting" /\ Now("sleep")
  /\ Returns
  /\ UNCHANGED <<reaction, mask, asked, pending, timer>>

Next ==
  \/ Enter \/ Finish \/ Faulted \/ Native
  \/ TimerExpires \/ SleepOver
  \/ \E some \in SUBSET Signals : Handle(some)
  \/ \E s \in Signals : Die(s) \/ Accept(s)

Spec == Init /\ [][Next]_vars

(* The program runs, time passes, and the kernel delivers what it can; the *)
(* injector need never strike.                                             *)
FairSpec ==
  /\ Spec
  /\ WF_vars(Enter \/ Finish) /\ WF_vars(Native)
  /\ WF_vars(TimerExpires) /\ WF_vars(SleepOver)
  /\ WF_vars(\E some \in SUBSET Signals : Handle(some))
  /\ \A s \in Signals : WF_vars(Die(s)) /\ WF_vars(Accept(s))

-----------------------------------------------------------------------------
(* Inside a wrapper there is a call to be inside of, and the program gives *)
(* up only at a call that has an error to give up for.                     *)
TypeOK ==
  /\ at \in Places /\ todo \in Seq(Calls)
  /\ at \in {"entered", "waiting", "gave_up"} => todo # <<>>
  /\ at = "gave_up" => Call.op \notin NoError
  /\ reaction \in [Signals -> {"default", "catch", "ignore"}]
  /\ mask \cup asked \cup pending \subseteq Signals
  /\ timer \in BOOLEAN

(* The mask is the one the program asked for, but while sigsuspend waits,  *)
(* when it is sigsuspend's: neither an interrupted nor a turned-down call  *)
(* leaves another, whatever was pending and however many handlers ran      *)
(* (src/src/signal.c:202-236).                                             *)
Suspended == at = "waiting" /\ Now("sigsuspend")
MaskAsAsked == at # "killed" => mask = IF Suspended THEN Call.set ELSE asked

(* What WaitsEnd rests on: a signal that the program has asked to block is *)
(* taken from it, once pending, by no handler that runs before or between  *)
(* its calls, but only by the call that wants it: sigsuspend while it      *)
(* waits, sigwait, or the sigaction that ignores the signal                *)
(* (src/src/signal.c:54-70, 220-254).                                      *)
Wants(s) ==
  \/ Suspended /\ s \notin Call.set
  \/ at = "waiting" /\ Now("sigwait") /\ s \in Call.set
  \/ at = "entered" /\ Now("ignore") /\ s = Call.sig
BlockedStays == [][\A s \in pending \cap asked : s \in pending' \/ Wants(s)]_vars

(* A signal that is blocked from before it can be generated is not lost    *)
(* between a wrapper's entry and its wait: a careful program, one that     *)
(* blocks, then sets the alarm or sends the signal, then waits for it with *)
(* sigsuspend or sigwait, comes to its end (src/src/signal.c:220-254,      *)
(* src/src/unistd.c:36-46).                                                *)
WaitsEnd == todo \in Careful ~> at \in {"done", "gave_up"}

(* src/test/test_behavior.c:61, after p101_alarm(env, 1) with nothing      *)
(* blocked: "EXPECT(p101_pause(env, err) == -1)", and line 67 the same of  *)
(* p101_sigsuspend: the waits return.                                      *)
UnblockedWaitsEnd == <>(at = "done")
=============================================================================
