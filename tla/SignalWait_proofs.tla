-------------------------- MODULE SignalWait_proofs --------------------------
(***************************************************************************)
(* Theorems about SignalWait, for all signals and all programs.            *)
(***************************************************************************)
EXTENDS SignalWait, TLAPS

(* The call a program is in, and what is left after it. *)
LEMMA Current ==
  ASSUME todo \in Seq(Calls), todo # <<>>
  PROVE  /\ Tail(todo) \in Seq(Calls) /\ Call \in Calls
         /\ Call.sig \in Signals /\ Call.set \subseteq Signals
<1>1. Tail(todo) \in Seq(Calls) /\ Call \in Calls
  BY DEF Call
<1> QED
  BY <1>1 DEF Calls

LEMMA Generation ==
  ASSUME NEW s \in Signals
  PROVE  Generated(s) \subseteq Signals
  BY DEF Generated

(* The way out of a wrapper. *)
LEMMA WayOut ==
  ASSUME TypeOK, todo # <<>>, Returns
  PROVE  at' = "between" /\ at' \in Places /\ todo' \in Seq(Calls)
  BY Current DEF TypeOK, Returns, Places

-----------------------------------------------------------------------------
(* The type invariant is inductive: the program's own steps first.         *)
LEMMA TypeNative ==
  ASSUME TypeOK, Native
  PROVE  TypeOK'
<1>1. at = "entered" /\ todo # <<>> /\ todo \in Seq(Calls)
  BY DEF TypeOK, Native, Alarm, AlarmOff, Kill, Sigaction, Sigprocmask, Waits, Sigsuspend, Now
<1>2. Tail(todo) \in Seq(Calls) /\ Call.sig \in Signals /\ Call.set \subseteq Signals
  BY <1>1, Current
<1>3. CASE Alarm
  BY <1>1, <1>3, WayOut DEF Alarm, TypeOK
<1>4. CASE AlarmOff
  BY <1>1, <1>4, WayOut DEF AlarmOff, TypeOK
<1>5. CASE Kill
  BY <1>1, <1>2, <1>5, WayOut, Generation DEF Kill, TypeOK
<1>6. CASE Sigaction
  <2>1. Call.op \in {"catch", "ignore"}
    BY <1>6 DEF Sigaction, Now
  <2>2. reaction' \in [Signals -> {"default", "catch", "ignore"}]
    BY <1>6, <2>1 DEF Sigaction, TypeOK
  <2>3. at' = "between" /\ todo' \in Seq(Calls)
    BY <1>1, <1>6, WayOut DEF Sigaction
  <2>4. pending' \subseteq Signals /\ mask' = mask /\ asked' = asked /\ timer' = timer
    BY <1>6 DEF Sigaction, TypeOK
  <2> QED
    BY <2>2, <2>3, <2>4 DEF TypeOK, Places
<1>7. CASE Sigprocmask
  BY <1>1, <1>2, <1>7, WayOut DEF Sigprocmask, TypeOK
<1>8. CASE Waits
  BY <1>1, <1>8 DEF Waits, TypeOK, Places
<1>9. CASE Sigsuspend
  BY <1>1, <1>2, <1>9 DEF Sigsuspend, TypeOK, Places
<1> QED
  BY <1>3, <1>4, <1>5, <1>6, <1>7, <1>8, <1>9 DEF Native

LEMMA TypeKernel ==
  ASSUME TypeOK,
         \/ TimerExpires \/ SleepOver
         \/ \E some \in SUBSET Signals : Handle(some)
         \/ \E s \in Signals : Die(s) \/ Accept(s)
  PROVE  TypeOK'
<1>1. CASE TimerExpires
  BY <1>1, SignalsAssumption, Generation DEF TimerExpires, Running, TypeOK, Call
<1>2. CASE SleepOver
  BY <1>2, WayOut DEF SleepOver, Now, TypeOK
<1>3. ASSUME NEW some \in SUBSET Signals, Handle(some) PROVE TypeOK'
  <2>1. /\ pending' \subseteq Signals /\ mask' \subseteq Signals
        /\ reaction' = reaction /\ asked' = asked /\ timer' = timer
    BY <1>3 DEF Handle, TypeOK
  <2>2. CASE at = "waiting" /\ ~Now("sigwait")
    <3>1. todo # <<>> /\ Returns
      BY <1>3, <2>2 DEF Handle, TypeOK
    <3> QED
      BY <2>1, <3>1, WayOut DEF TypeOK
  <2>3. CASE ~(at = "waiting" /\ ~Now("sigwait"))
    BY <1>3, <2>1, <2>3 DEF Handle, Running, TypeOK, Call
  <2> QED
    BY <2>2, <2>3
<1>4. ASSUME NEW s \in Signals, Die(s) PROVE TypeOK'
  BY <1>4 DEF Die, TypeOK, Places
<1>5. ASSUME NEW s \in Signals, Accept(s) PROVE TypeOK'
  BY <1>5, WayOut DEF Accept, Now, TypeOK
<1> QED
  BY <1>1, <1>2, <1>3, <1>4, <1>5

LEMMA TypeInvariance == Spec => []TypeOK
<1>1. Init => TypeOK
  BY ProgramsAssumption DEF Init, TypeOK, Places
<1>2. TypeOK /\ [Next]_vars => TypeOK'
  <2> SUFFICES ASSUME TypeOK, [Next]_vars PROVE TypeOK'
    OBVIOUS
  <2>1. CASE Enter
    BY <2>1, Current DEF Enter, MaskOnEntry, TypeOK, Places
  <2>2. CASE Finish \/ Faulted
    BY <2>2 DEF Finish, Faulted, TypeOK, Places, Call
  <2>3. CASE UNCHANGED vars
    BY <2>3 DEF vars, TypeOK, Call
  <2> QED
    BY <2>1, <2>2, <2>3, TypeNative, TypeKernel DEF Next
<1> QED
  BY <1>1, <1>2, PTL DEF Spec

-----------------------------------------------------------------------------
(* While sigsuspend waits the mask is its own, and the one asked for is    *)
(* kept aside; every way out of the wait puts it back.                     *)
LEMMA MaskStep ==
  ASSUME TypeOK, MaskAsAsked, Next
  PROVE  MaskAsAsked'
<1>1. at # "killed" /\ ~Suspended => mask = asked
  BY DEF MaskAsAsked
<1>2. CASE Enter \/ Finish \/ Faulted
  BY <1>1, <1>2 DEF Enter, MaskOnEntry, Finish, Faulted, MaskAsAsked, Suspended
<1>3. CASE Alarm \/ AlarmOff \/ Kill \/ Sigaction
  BY <1>1, <1>3 DEF Alarm, AlarmOff, Kill, Sigaction, Returns, MaskAsAsked, Suspended
<1>4. CASE Sigprocmask
  BY <1>4 DEF Sigprocmask, Returns, MaskAsAsked, Suspended
<1>5. CASE Waits
  BY <1>1, <1>5 DEF Waits, MaskAsAsked, Suspended, Now, Call
<1>6. CASE Sigsuspend
  BY <1>6 DEF Sigsuspend, MaskAsAsked, Suspended, Now, Call
<1>7. CASE TimerExpires
  BY <1>7 DEF TimerExpires, MaskAsAsked, Suspended, Now, Call
<1>8. CASE SleepOver
  BY <1>1, <1>8 DEF SleepOver, Returns, Now, MaskAsAsked, Suspended
<1>9. ASSUME NEW some \in SUBSET Signals, Handle(some) PROVE MaskAsAsked'
  <2>1. CASE Suspended
    BY <1>9, <2>1 DEF Handle, Returns, Now, MaskAsAsked, Suspended
  <2>2. CASE ~Suspended
    BY <1>1, <1>9, <2>2 DEF Handle, Returns, Running, Now, Call, MaskAsAsked, Suspended
  <2> QED
    BY <2>1, <2>2
<1>10. ASSUME NEW s \in Signals, Die(s) PROVE MaskAsAsked'
  BY <1>10 DEF Die, MaskAsAsked
<1>11. ASSUME NEW s \in Signals, Accept(s) PROVE MaskAsAsked'
  BY <1>1, <1>11 DEF Accept, Returns, Now, MaskAsAsked, Suspended
<1> QED
  BY <1>2, <1>3, <1>4, <1>5, <1>6, <1>7, <1>8, <1>9, <1>10, <1>11 DEF Next, Native

LEMMA MaskInvariance == Spec => []MaskAsAsked
<1>1. Init => MaskAsAsked
  BY DEF Init, MaskAsAsked, Suspended
<1>2. TypeOK /\ MaskAsAsked /\ [Next]_vars => MaskAsAsked'
  <2>1. ASSUME MaskAsAsked, UNCHANGED vars PROVE MaskAsAsked'
    BY <2>1 DEF vars, MaskAsAsked, Suspended, Now, Call
  <2> QED
    BY <2>1, MaskStep
<1> QED
  BY <1>1, <1>2, TypeInvariance, PTL DEF Spec

(* Every variable keeps its type whatever the program calls; a wrapper     *)
(* that is entered or waits is one of the calls still to make, and only a  *)
(* call with an error object is ever turned down (src/src/signal.c:202-254,*)
(* src/src/unistd.c:36-46, 278-288).                                       *)
THEOREM TypeCorrect == Spec => []TypeOK
  BY TypeInvariance

(* For any signals and any program, with handlers and the injector at any  *)
(* point, sigsuspend's mask is in force exactly while it waits, and every  *)
(* call returns with the mask the program asked for last                   *)
(* (src/src/signal.c:202-236).                                             *)
THEOREM MasksAreThePrograms == Spec => []MaskAsAsked
  BY MaskInvariance

(* For any signals and any program, a signal that the program has blocked  *)
(* waits for the call that wants it: handlers run without it, in every     *)
(* call and between them (src/src/signal.c:220-254).                       *)
THEOREM BlockedSignalsWait == Spec => BlockedStays
<1> DEFINE Stays == \A s \in pending \cap asked : s \in pending' \/ Wants(s)
<1>1. MaskAsAsked /\ [Next]_vars => [Stays]_vars
  <2> SUFFICES ASSUME MaskAsAsked, Next, NEW s \in pending, s \in asked, s \notin pending'
               PROVE  Wants(s)
    OBVIOUS
  <2>1. CASE Enter \/ Finish \/ Faulted \/ TimerExpires \/ SleepOver
    BY <2>1 DEF Enter, Finish, Faulted, TimerExpires, SleepOver
  <2>2. CASE Alarm \/ AlarmOff \/ Kill \/ Sigprocmask \/ Waits \/ Sigsuspend
    BY <2>2 DEF Alarm, AlarmOff, Kill, Sigprocmask, Waits, Sigsuspend
  <2>3. CASE Sigaction
    BY <2>3 DEF Sigaction, Wants
  <2>4. ASSUME NEW some \in SUBSET Signals, Handle(some) PROVE Wants(s)
    <3>1. s \notin mask /\ at # "killed"
      BY <2>4 DEF Handle, Running
    <3> QED
      BY <3>1 DEF MaskAsAsked, Wants
  <2>5. ASSUME NEW t \in Signals, Die(t) PROVE Wants(s)
    BY <2>5 DEF Die
  <2>6. ASSUME NEW t \in Signals, Accept(t) PROVE Wants(s)
    BY <2>6 DEF Accept, Wants
  <2> QED
    BY <2>1, <2>2, <2>3, <2>4, <2>5, <2>6 DEF Next, Native
<1> QED
  BY <1>1, MaskInvariance, PTL DEF Spec, BlockedStays
=============================================================================
