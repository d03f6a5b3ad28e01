---------------------------- MODULE MCSignalWait ----------------------------
EXTENDS SignalWait, Naturals

CONSTANT SIGUSR1

Does(op, sig, set) == [op |-> op, sig |-> sig, set |-> set]

Catch(s)       == Does("catch", s, {})
Mask(set)      == Does("sigprocmask", SIGALRM, set)
Suspend(set)   == Does("sigsuspend", SIGALRM, set)
Await(set)     == Does("sigwait", SIGALRM, set)
Send(s)        == Does("kill", s, {})
SetAlarm       == Does("alarm", SIGALRM, {})
StopAlarm      == Does("alarm_off", SIGALRM, {})
Pauses         == Does("pause", SIGALRM, {})
Sleeps         == Does("sleep", SIGALRM, {})

(* Programs that catch and block signals, have them sent or an alarm set   *)
(* in some order, and wait for each of them by sigsuspend or sigwait, in   *)
(* some order.                                                             *)
Both   == {SIGALRM, SIGUSR1}
Orders == {<<s>> : s \in Both} \cup {<<SIGALRM, SIGUSR1>>, <<SIGUSR1, SIGALRM>>}
Source(s) == IF s = SIGALRM THEN SetAlarm ELSE Send(SIGUSR1)
WaysToWait(s) == {Suspend(Both \ {s}), Suspend({}), Await({s})}

Disciplined ==
  {<<Catch(SIGALRM), Catch(SIGUSR1), Mask(Both)>>
     \o [i \in 1 .. Len(sources) |-> Source(sources[i])] \o waits \o <<Sleeps, StopAlarm>> :
   sources \in Orders, waits \in {<<w>> : w \in {Suspend({}), Await(Both)}}}
  \cup
  {<<Catch(SIGALRM), Catch(SIGUSR1), Mask(Both)>>
     \o [i \in 1 .. 2 |-> Source(sources[i])] \o <<first, second, Mask({})>> :
   sources \in {o \in Orders : Len(o) = 2},
   first \in {Suspend(Both \ {SIGALRM}), Await({SIGALRM})},
   second \in WaysToWait(SIGUSR1)}

(* Any four calls around one signal, and the disciplined programs.         *)
AnyCall ==
  {Catch(SIGALRM), Does("ignore", SIGALRM, {}), SetAlarm, StopAlarm, Send(SIGALRM), Pauses,
   Sleeps, Mask({SIGALRM}), Mask({}), Suspend({}), Suspend({SIGALRM}), Await({SIGALRM})}
Anything == [1 .. 4 -> AnyCall] \cup Disciplined

(* test_signal_waits of src/test/test_behavior.c:49-70.                    *)
TestSignalWaits == {
  <<Catch(SIGALRM), SetAlarm, Pauses, SetAlarm, Suspend({}), StopAlarm>> }
=============================================================================
