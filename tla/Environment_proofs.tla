-------------------------- MODULE Environment_proofs --------------------------
(***************************************************************************)
(* Theorems about Environment, for all names, values and buffers.          *)
(***************************************************************************)
EXTENDS Environment, TLAPS

(* The type invariant, for the functions behind p101_setenv,               *)
(* p101_unsetenv and p101_putenv.                                          *)
THEOREM TypeCorrect == Spec => []TypeOK
<1>1. Init => TypeOK
  BY EntriesAssumption DEF Init, TypeOK, Entries, Calls
<1>2. TypeOK /\ [Next]_vars => TypeOK'
  <2> SUFFICES ASSUME TypeOK, [Next]_vars PROVE TypeOK'
    OBVIOUS
  <2> USE DEF TypeOK, Calls, Entries
  <2>1. ASSUME NEW b \in Buffers, NEW n \in Names, NEW v \in Values, Alloc(b, n, v)
        PROVE  TypeOK'
    BY <2>1 DEF Alloc
  <2>2. ASSUME NEW b \in Buffers, NEW v \in Values, Rewrite(b, v) PROVE TypeOK'
    BY <2>2 DEF Rewrite
  <2>3. ASSUME NEW b \in Buffers, Free(b) PROVE TypeOK'
    BY <2>3 DEF Free
  <2>4. ASSUME NEW b \in Buffers, Putenv(b) PROVE TypeOK'
    BY <2>4 DEF Putenv, Begins
  <2>5. ASSUME NEW n \in Names, NEW v \in Values, NEW overwrite \in BOOLEAN,
               Setenv(n, v, overwrite)
        PROVE  TypeOK'
    BY <2>5 DEF Setenv, Begins
  <2>6. ASSUME NEW n \in Names, Unsetenv(n) PROVE TypeOK'
    BY <2>6 DEF Unsetenv, Begins
  <2>7. CASE Faulted
    BY <2>7 DEF Faulted, Over
  <2>8. CASE NativeFails
    BY <2>8 DEF NativeFails, Over
  <2>9. CASE Passed
    BY <2>9 DEF Passed
  <2>10. CASE Native
    BY <2>10 DEF Native, Leaves, Hands
  <2>11. CASE Succeeds
    BY <2>11 DEF Succeeds, Leaves, Over
  <2>12. CASE Siglongjmp
    BY <2>12 DEF Siglongjmp, Over
  <2>13. CASE UNCHANGED vars
    BY <2>13 DEF vars
  <2> QED
    BY <2>1, <2>2, <2>3, <2>4, <2>5, <2>6, <2>7, <2>8, <2>9, <2>10, <2>11, <2>12, <2>13 DEF Next
<1> QED
  BY <1>1, <1>2, PTL DEF Spec

-----------------------------------------------------------------------------
(* The inductive invariant.  A buffer in the environment is allocated and  *)
(* is the entry of the name it holds; so is a buffer on its way there;     *)
(* what the caller was told of a name is so, unless the C library has just *)
(* done what the caller is about to be told.                               *)
InPlace ==
  \A n \in Names : environ[n] \in Buffers => text[environ[n]] # Freed /\ label[environ[n]] = n
OnItsWay ==
  ~Idle /\ call.entry \in Buffers => text[call.entry] # Freed /\ label[call.entry] = call.name
ToldSo ==
  \A n \in Names \ unsure : (call.at = "judge" /\ call.name = n) \/ environ[n] = told[n]
WillBeTold ==
  call.at = "judge" /\ (call.name \notin unsure \/ ~call.keeps) =>
    environ[call.name] = Leaves(told, call)[call.name]
IInv == InPlace /\ OnItsWay /\ ToldSo /\ WillBeTold

LEMMA InvInit == Init => IInv
  BY EntriesAssumption DEF Init, IInv, InPlace, OnItsWay, ToldSo, WillBeTold, Idle, Calls

LEMMA InvNext == TypeOK /\ IInv /\ [Next]_vars => IInv'
<1> SUFFICES ASSUME TypeOK, IInv, [Next]_vars PROVE IInv'
  OBVIOUS
<1> USE DEF IInv, Idle
<1>1. ASSUME NEW b \in Buffers, NEW n \in Names, NEW v \in Values, Alloc(b, n, v) PROVE IInv'
  <2>1. \A m \in Names : environ[m] # b
    BY <1>1 DEF Alloc, InPlace
  <2>2. InPlace'
    BY <1>1, <2>1, EntriesAssumption DEF Alloc, InPlace, TypeOK
  <2> QED
    BY <1>1, <2>2 DEF Alloc, OnItsWay, ToldSo, WillBeTold
<1>2. ASSUME NEW b \in Buffers, NEW v \in Values, Rewrite(b, v) PROVE IInv'
  <2>1. InPlace'
    BY <1>2, EntriesAssumption DEF Rewrite, InPlace, TypeOK
  <2> QED
    BY <1>2, <2>1 DEF Rewrite, OnItsWay, ToldSo, WillBeTold
<1>3. ASSUME NEW b \in Buffers, Free(b) PROVE IInv'
  <2>1. \A m \in Names : environ[m] # b
    BY <1>3 DEF Free, InPlace, ToldSo
  <2>2. InPlace'
    BY <1>3, <2>1 DEF Free, InPlace, TypeOK
  <2> QED
    BY <1>3, <2>2 DEF Free, OnItsWay, ToldSo, WillBeTold
<1>4. ASSUME NEW n \in Names, NEW entry \in Entries, NEW keeps \in BOOLEAN,
             Begins(n, entry, keeps),
             entry \in Buffers => text[entry] # Freed /\ label[entry] = n
      PROVE  IInv'
  BY <1>4 DEF Begins, InPlace, OnItsWay, ToldSo, WillBeTold
<1>5. ASSUME NEW b \in Buffers, Putenv(b) PROVE IInv'
  BY <1>4, <1>5 DEF Putenv, TypeOK, Entries
<1>6. ASSUME NEW n \in Names, NEW v \in Values, NEW overwrite \in BOOLEAN,
             Setenv(n, v, overwrite)
      PROVE  IInv'
  BY <1>4, <1>6, EntriesAssumption DEF Setenv, Entries
<1>7. ASSUME NEW n \in Names, Unsetenv(n) PROVE IInv'
  BY <1>4, <1>7, EntriesAssumption DEF Unsetenv, Entries
<1>8. CASE Faulted \/ NativeFails
  <2>1. call' = [call EXCEPT !.at = "none"] /\ call.at # "judge"
    BY <1>8 DEF Faulted, Faults, NativeFails, Over
  <2>2. UNCHANGED <<environ, text, label, told, unsure>>
    BY <1>8 DEF Faulted, NativeFails
  <2> QED
    BY <2>1, <2>2 DEF InPlace, OnItsWay, ToldSo, WillBeTold, TypeOK, Calls
<1>9. CASE Passed
  BY <1>9 DEF Passed, InPlace, OnItsWay, ToldSo, WillBeTold, TypeOK, Calls
<1>10. CASE Native
  <2>1. /\ environ' = Leaves(environ, call)
        /\ call' = [call EXCEPT !.at = "judge"] /\ call.at = "native"
        /\ UNCHANGED <<text, label, told, unsure>>
    <3>1. [call EXCEPT !.entry = call.entry] = call
      BY DEF TypeOK, Calls
    <3> QED
      BY <1>10, <3>1 DEF Native, Hands
  <2>2. InPlace'
    BY <2>1 DEF Leaves, InPlace, OnItsWay, TypeOK, Calls
  <2>3. OnItsWay'
    BY <2>1 DEF OnItsWay, TypeOK, Calls
  <2>4. ToldSo'
    BY <2>1 DEF Leaves, ToldSo, TypeOK, Calls
  <2>5. WillBeTold'
    <3> SUFFICES ASSUME call.name \notin unsure \/ ~call.keeps
                 PROVE  Leaves(environ, call)[call.name] = Leaves(told, call)[call.name]
      BY <2>1 DEF WillBeTold, Leaves, TypeOK, Calls
    <3>1. CASE ~call.keeps
      BY <3>1 DEF Leaves, TypeOK, Calls
    <3>2. CASE call.name \notin unsure
      <4>1. environ[call.name] = told[call.name]
        BY <2>1, <3>2 DEF ToldSo, TypeOK, Calls
      <4> QED
        BY <4>1 DEF Leaves, TypeOK, Calls
    <3> QED
      BY <3>1, <3>2
  <2> QED
    BY <2>2, <2>3, <2>4, <2>5
<1>11. CASE Succeeds
  <2>1. /\ told' = Leaves(told, call)
        /\ unsure' = IF call.keeps THEN unsure ELSE unsure \ {call.name}
        /\ call' = [call EXCEPT !.at = "none"] /\ call.at = "judge"
        /\ UNCHANGED <<environ, text, label>>
    BY <1>11 DEF Succeeds, Over
  <2>2. InPlace'
    BY <2>1 DEF InPlace
  <2>3. OnItsWay' /\ WillBeTold'
    BY <2>1 DEF OnItsWay, WillBeTold, TypeOK, Calls
  <2>4. ToldSo'
    <3> SUFFICES ASSUME NEW n \in Names \ unsure' PROVE environ[n] = Leaves(told, call)[n]
      BY <2>1 DEF ToldSo
    <3>1. CASE n = call.name
      BY <2>1, <3>1 DEF WillBeTold
    <3>2. CASE n # call.name
      <4>1. environ[n] = told[n]
        BY <2>1, <3>2 DEF ToldSo
      <4> QED
        BY <4>1, <3>2 DEF Leaves, TypeOK
    <3> QED
      BY <3>1, <3>2
  <2> QED
    BY <2>2, <2>3, <2>4
<1>12. CASE Siglongjmp
  BY <1>12 DEF Siglongjmp, Over, InPlace, OnItsWay, ToldSo, WillBeTold, TypeOK, Calls
<1>13. CASE UNCHANGED vars
  <2>1. /\ environ' = environ /\ text' = text /\ label' = label
        /\ told' = told /\ unsure' = unsure /\ call' = call
    BY <1>13 DEF vars
  <2> QED
    BY <2>1 DEF InPlace, OnItsWay, ToldSo, WillBeTold, Leaves
<1> QED
  BY <1>1, <1>2, <1>3, <1>5, <1>6, <1>7, <1>8, <1>9, <1>10, <1>11, <1>12, <1>13 DEF Next

(* NothingDangles, for the buffers a caller hands to p101_putenv and       *)
(* frees by what the wrappers told it.                                     *)
THEOREM BuffersOutlive == Spec => []NothingDangles
<1>1. IInv => NothingDangles
  BY DEF IInv, InPlace, NothingDangles
<1> QED
  BY <1>1, TypeCorrect, InvInit, InvNext, PTL DEF Spec

(* FindsWhatWasTold, for the results of the three wrappers. *)
THEOREM ResultsTell == Spec => []FindsWhatWasTold
<1>1. IInv => FindsWhatWasTold
  BY DEF IInv, ToldSo, FindsWhatWasTold, Value
<1> QED
  BY <1>1, TypeCorrect, InvInit, InvNext, PTL DEF Spec
=============================================================================
