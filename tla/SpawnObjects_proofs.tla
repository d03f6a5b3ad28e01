------------------------- MODULE SpawnObjects_proofs -------------------------
(***************************************************************************)
(* Theorems about SpawnObjects for every set of objects and requests.      *)
(***************************************************************************)
EXTENDS SpawnObjects, TLAPS

(* A call fits what the caller has: only init makes a live object of none, *)
(* only destroy the reverse.                                               *)
Intended ==
  /\ call.op = "init" => call.on \notin has
  /\ call.op \in {"destroy", "ask"} => call.on \in has

IInv == TypeOK /\ Intended /\ CallerKnows /\ LeaksAreReal

-----------------------------------------------------------------------------
LEMMA TypeInit == Init => TypeOK
BY BoundsAssumption DEF Init, TypeOK, NoCall

LEMMA TypeNext == TypeOK /\ [Next]_vars => TypeOK'
<1> SUFFICES ASSUME TypeOK, [Next]_vars PROVE TypeOK'
  OBVIOUS
<1> USE BoundsAssumption DEF TypeOK
<1>1. ASSUME NEW o \in Objects, Initialise(o) \/ Destroy(o) PROVE TypeOK'
  BY <1>1 DEF Initialise, Destroy, Calls
<1>2. ASSUME NEW o \in Objects, NEW request \in Requests, Ask(o, request) PROVE TypeOK'
  BY <1>2 DEF Ask, Calls
<1>3. CASE Faulted
  BY <1>3 DEF Faulted, NoCall
<1>4. CASE Passed
  BY <1>4 DEF Passed
<1>5. CASE Native
  <2>1. content' \in [Objects -> Seq(Requests)]
    BY <1>5 DEF Native, Holds
  <2> QED
    BY <1>5, <2>1 DEF Native, Lives
<1>6. CASE NativeFails
  BY <1>6 DEF NativeFails, Logs, NoCall
<1>7. CASE Succeeds
  <2>1. knows' \in [Objects -> Seq(Requests)]
    BY <1>7 DEF Succeeds, Holds
  <2>2. log' \in [Objects -> Int]
    BY <1>7 DEF Succeeds, Logs
  <2> QED
    BY <1>7, <2>1, <2>2 DEF Succeeds, Lives, NoCall
<1>8. CASE Siglongjmp
  <2>1. unsure' \subseteq Objects /\ jumps' \in 0 .. MaxJumps
    BY <1>8 DEF Siglongjmp
  <2>2. call' = NoCall /\ UNCHANGED <<live, content, has, knows, log, leaked>>
    BY <1>8 DEF Siglongjmp
  <2> QED
    BY <2>1, <2>2 DEF NoCall
<1>9. ASSUME NEW o \in Objects, Drop(o) PROVE TypeOK'
  <2>1. <<>> \in Seq(Requests)
    OBVIOUS
  <2>2. content' \in [Objects -> Seq(Requests)] /\ knows' \in [Objects -> Seq(Requests)]
    BY <1>9, <2>1 DEF Drop
  <2>3. leaked' \in [Objects -> 0 .. MaxDrops]
    BY <1>9 DEF Drop
  <2> QED
    BY <1>9, <2>2, <2>3 DEF Drop
<1>10. CASE UNCHANGED vars
  BY <1>10 DEF vars
<1> QED
  BY <1>1, <1>2, <1>3, <1>4, <1>5, <1>6, <1>7, <1>8, <1>9, <1>10 DEF Next, Objects, Requests

LEMMA IInvInit == Init => IInv
BY TypeInit DEF Init, IInv, Intended, CallerKnows, LeaksAreReal, InFlight, NoCall

LEMMA IInvNext == IInv /\ [Next]_vars => Intended' /\ CallerKnows' /\ LeaksAreReal'
<1> SUFFICES ASSUME IInv, [Next]_vars PROVE Intended' /\ CallerKnows' /\ LeaksAreReal'
  OBVIOUS
<1> USE DEF IInv, TypeOK, Intended, CallerKnows, LeaksAreReal
<1>1. ASSUME NEW o \in Objects, NEW request,
             Initialise(o) \/ Destroy(o) \/ Ask(o, request)
      PROVE  Intended' /\ CallerKnows' /\ LeaksAreReal'
  <2>1. Intended'
    BY <1>1 DEF Initialise, Destroy, Ask, Calls
  <2>2. UNCHANGED <<live, content, has, knows, log, leaked, unsure>>
    BY <1>1 DEF Initialise, Destroy, Ask, Calls
  <2>3. \A q \in Objects : ~InFlight(q) /\ ~InFlight(q)'
    BY <1>1 DEF Initialise, Destroy, Ask, Calls, InFlight
  <2> QED
    BY <2>1, <2>2, <2>3
<1>2. CASE Faulted \/ Passed
  <2>1. Intended'
    <3>1. CASE Faulted
      BY <3>1 DEF Faulted, NoCall
    <3>2. CASE Passed
      BY <3>2 DEF Passed
    <3> QED
      BY <1>2, <3>1, <3>2
  <2>2. UNCHANGED <<live, content, has, knows, log, leaked, unsure>>
    BY <1>2 DEF Faulted, Passed
  <2>3. \A q \in Objects : ~InFlight(q) /\ ~InFlight(q)'
    BY <1>2 DEF Faulted, Faults, Passed, NoCall, InFlight
  <2> QED
    BY <2>1, <2>2, <2>3
<1>3. CASE Native
  <2>1. Intended' /\ CallerKnows'
    BY <1>3 DEF Native, Lives, Holds, InFlight
  <2>2. LeaksAreReal'
    BY <1>3 DEF Native, Lives, Logs, InFlight
  <2> QED
    BY <2>1, <2>2
<1>4. CASE NativeFails
  BY <1>4 DEF NativeFails, Logs, NoCall, InFlight
<1>5. CASE Succeeds
  <2>1. Intended' /\ CallerKnows'
    BY <1>5 DEF Succeeds, Lives, Holds, NoCall, InFlight
  <2>2. LeaksAreReal'
    BY <1>5 DEF Succeeds, Logs, NoCall, InFlight
  <2> QED
    BY <2>1, <2>2
<1>6. CASE Siglongjmp
  BY <1>6 DEF Siglongjmp, NoCall, InFlight
<1>7. ASSUME NEW o \in Objects, Drop(o) PROVE Intended' /\ CallerKnows' /\ LeaksAreReal'
  BY <1>7 DEF Drop, InFlight
<1>8. CASE UNCHANGED vars
  BY <1>8 DEF vars, Lives, Holds, InFlight
<1> QED
  BY <1>1, <1>2, <1>3, <1>4, <1>5, <1>6, <1>7, <1>8 DEF Next, Objects

LEMMA Inductive == Spec => []IInv
<1>1. IInv /\ [Next]_vars => IInv'
  BY TypeNext, IInvNext DEF IInv
<1> QED
  BY <1>1, IInvInit, PTL DEF Spec

(* Objects, contents and the call in progress keep their types.            *)
THEOREM TypeCorrect == Spec => []TypeOK
BY Inductive, PTL DEF IInv

(* A caller that goes by the returned codes knows what is in its objects.  *)
THEOREM CodesTell == Spec => []CallerKnows
BY Inductive, PTL DEF IInv

(* The log never invents a leak of a spawn object and never hides one.     *)
THEOREM LeaksTold == Spec => []LeaksAreReal
BY Inductive, PTL DEF IInv
=============================================================================
