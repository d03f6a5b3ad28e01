------------------------- MODULE WrapperCall_proofs -------------------------
(***************************************************************************)
(* Theorems about WrapperCall, for all error numbers, any selection of the *)
(* wrappers, and handlers of either kind nested to any depth.              *)
(***************************************************************************)
EXTENDS WrapperCall, TLAPS

(* What is left of a path, before its native call and after it, when the   *)
(* call has been judged or was turned down, and of the paths of single     *)
(* shapes.                                                                 *)
Before ==
  {<<"trace", "zero", "native", "exit">>,
   <<"zero", "native", "exit">>,
   <<"native", "exit">>,
   <<"trace", "zero", "exit", "native">>,
   <<"zero", "exit", "native">>,
   <<"exit", "native">>,
   <<"native">>,
   <<"trace", "fault", "zero", "native", "judge", "exit">>,
   <<"fault", "zero", "native", "judge", "exit">>,
   <<"zero", "native", "judge", "exit">>,
   <<"native", "judge", "exit">>,
   <<"trace", "fault", "native", "judge", "exit">>,
   <<"fault", "native", "judge", "exit">>,
   <<"trace", "fault", "reject", "zero", "native", "judge", "exit">>,
   <<"fault", "reject", "zero", "native", "judge", "exit">>,
   <<"reject", "zero", "native", "judge", "exit">>,
   <<"trace", "fault", "hook", "zero", "native", "judge", "exit">>,
   <<"fault", "hook", "zero", "native", "judge", "exit">>,
   <<"hook", "zero", "native", "judge", "exit">>,
   <<"trace", "fault", "hook", "zero", "native", "keep", "hook", "judge", "exit">>,
   <<"fault", "hook", "zero", "native", "keep", "hook", "judge", "exit">>,
   <<"hook", "zero", "native", "keep", "hook", "judge", "exit">>,
   <<"zero", "native", "keep", "hook", "judge", "exit">>,
   <<"native", "keep", "hook", "judge", "exit">>,
   <<"trace", "fault", "zero", "hook", "native", "keep", "hook", "judge", "exit">>,
   <<"fault", "zero", "hook", "native", "keep", "hook", "judge", "exit">>,
   <<"zero", "hook", "native", "keep", "hook", "judge", "exit">>,
   <<"hook", "native", "keep", "hook", "judge", "exit">>}
After ==
  {<<"judge", "exit">>, <<"hook", "judge", "exit">>, <<"keep", "hook", "judge", "exit">>}
Ending == {<<"exit">>, <<>>}
(* Of the wrappers that cannot fail. *)
Short ==
  {<<"trace", "zero", "native", "exit">>,
   <<"zero", "native", "exit">>,
   <<"native", "exit">>,
   <<"trace", "zero", "exit", "native">>,
   <<"zero", "exit", "native">>,
   <<"exit", "native">>,
   <<"native">>}
(* Of those that may refuse a resource. *)
LimitTodos ==
  {<<"trace", "fault", "reject", "zero", "native", "judge", "exit">>,
   <<"fault", "reject", "zero", "native", "judge", "exit">>,
   <<"reject", "zero", "native", "judge", "exit">>}
(* The trace is all that has run. *)
Untouched ==
  {<<"fault", "zero", "native", "judge", "exit">>,
   <<"fault", "native", "judge", "exit">>,
   <<"fault", "reject", "zero", "native", "judge", "exit">>,
   <<"reject", "zero", "native", "judge", "exit">>,
   <<"fault", "hook", "zero", "native", "judge", "exit">>,
   <<"fault", "hook", "zero", "native", "keep", "hook", "judge", "exit">>,
   <<"fault", "zero", "hook", "native", "keep", "hook", "judge", "exit">>}
(* Everything that is left at any time of a plain call, and of pclose. *)
PlainTodos ==
  {<<"trace", "fault", "zero", "native", "judge", "exit">>,
   <<"fault", "zero", "native", "judge", "exit">>,
   <<"zero", "native", "judge", "exit">>,
   <<"native", "judge", "exit">>,
   <<"judge", "exit">>,
   <<"exit">>,
   <<>>}
PcloseTodos ==
  {<<"trace", "fault", "zero", "hook", "native", "keep", "hook", "judge", "exit">>,
   <<"fault", "zero", "hook", "native", "keep", "hook", "judge", "exit">>,
   <<"zero", "hook", "native", "keep", "hook", "judge", "exit">>,
   <<"hook", "native", "keep", "hook", "judge", "exit">>,
   <<"native", "keep", "hook", "judge", "exit">>,
   <<"keep", "hook", "judge", "exit">>,
   <<"hook", "judge", "exit">>,
   <<"judge", "exit">>,
   <<"exit">>,
   <<>>}
JudgeTodo  == <<"judge", "exit">>
HookTodo   == <<"hook", "judge", "exit">>
KeepTodo   == <<"keep", "hook", "judge", "exit">>
NativeTodo == <<"native", "judge", "exit">>
NativeKeep == <<"native", "keep", "hook", "judge", "exit">>

LEMMA Paths ==
  ASSUME NEW w \in Wrappers
  PROVE  /\ Path(w) \in Before /\ (w \in Quiet <=> Path(w) \in Short)
         /\ Path(w) \in LimitTodos => w \in LimitCalls
<1>1. w \notin Spawn \/ w \notin Quiet
  BY DEF Spawn, SpawnCalls, ActionCalls, AttrCalls, Quiet, QuietIds, QuietTimer, Jump
<1>2. Jump \subseteq Quiet
  BY DEF Quiet
<1>3. Path(w) \in Before
  BY DEF Path, Before, CodePath, QuietPath, JumpPath, LimitPath, WaitPath, ExecPath,
     PclosePath, PlainPath
<1>4. w \in Quiet <=> Path(w) \in Short
  BY <1>1, <1>2 DEF Path, Short, CodePath, QuietPath, JumpPath, LimitPath, WaitPath, ExecPath,
     PclosePath, PlainPath
<1>5. Path(w) \in LimitTodos => w \in LimitCalls
  BY DEF Path, LimitTodos, CodePath, QuietPath, JumpPath, LimitPath, WaitPath, ExecPath,
     PclosePath, PlainPath
<1> QED
  BY <1>3, <1>4, <1>5

LEMMA StepsBefore ==
  ASSUME NEW t \in Before
  PROVE  /\ t # <<>> /\ Head(t) # "judge" /\ Head(t) # "keep"
         /\ Head(t) # "native" => Tail(t) \in Before
         /\ Head(t) # "native" => (t \in Short <=> Tail(t) \in Short)
         /\ Head(t) = "native" /\ t \notin Short => Tail(t) \in {JudgeTodo, KeepTodo}
         /\ Head(t) = "native" /\ t \in Short => Tail(t) \in Ending
         /\ Head(t) = "reject" => t \in LimitTodos
         /\ Tail(t) \in LimitTodos => t \in LimitTodos
         /\ Head(t) \in {"fault", "reject"} => t \in Untouched
         /\ Head(t) \in {"hook", "zero", "exit"} => Tail(t) \notin Untouched
<1>1. CASE t = <<"trace", "zero", "native", "exit">>
  <2>1. Head(t) = "trace" /\ Tail(t) = <<"zero", "native", "exit">>
    BY <1>1
  <2> QED
    BY <1>1, <2>1 DEF Before, Short, LimitTodos, Untouched, Ending, JudgeTodo, KeepTodo
<1>2. CASE t = <<"zero", "native", "exit">>
  <2>1. Head(t) = "zero" /\ Tail(t) = <<"native", "exit">>
    BY <1>2
  <2> QED
    BY <1>2, <2>1 DEF Before, Short, LimitTodos, Untouched, Ending, JudgeTodo, KeepTodo
<1>3. CASE t = <<"native", "exit">>
  <2>1. Head(t) = "native" /\ Tail(t) = <<"exit">>
    BY <1>3
  <2> QED
    BY <1>3, <2>1 DEF Before, Short, LimitTodos, Untouched, Ending, JudgeTodo, KeepTodo
<1>4. CASE t = <<"trace", "zero", "exit", "native">>
  <2>1. Head(t) = "trace" /\ Tail(t) = <<"zero", "exit", "native">>
    BY <1>4
  <2> QED
    BY <1>4, <2>1 DEF Before, Short, LimitTodos, Untouched, Ending, JudgeTodo, KeepTodo
<1>5. CASE t = <<"zero", "exit", "native">>
  <2>1. Head(t) = "zero" /\ Tail(t) = <<"exit", "native">>
    BY <1>5
  <2> QED
    BY <1>5, <2>1 DEF Before, Short, LimitTodos, Untouched, Ending, JudgeTodo, KeepTodo
<1>6. CASE t = <<"exit", "native">>
  <2>1. Head(t) = "exit" /\ Tail(t) = <<"native">>
    BY <1>6
  <2> QED
    BY <1>6, <2>1 DEF Before, Short, LimitTodos, Untouched, Ending, JudgeTodo, KeepTodo
<1>7. CASE t = <<"native">>
  <2>1. Head(t) = "native" /\ Tail(t) = <<>>
    BY <1>7
  <2> QED
    BY <1>7, <2>1 DEF Before, Short, LimitTodos, Untouched, Ending, JudgeTodo, KeepTodo
<1>8. CASE t = <<"trace", "fault", "zero", "native", "judge", "exit">>
  <2>1. Head(t) = "trace" /\ Tail(t) = <<"fault", "zero", "native", "judge", "exit">>
    BY <1>8
  <2> QED
    BY <1>8, <2>1 DEF Before, Short, LimitTodos, Untouched, Ending, JudgeTodo, KeepTodo
<1>9. CASE t = <<"fault", "zero", "native", "judge", "exit">>
  <2>1. Head(t) = "fault" /\ Tail(t) = <<"zero", "native", "judge", "exit">>
    BY <1>9
  <2> QED
    BY <1>9, <2>1 DEF Before, Short, LimitTodos, Untouched, Ending, JudgeTodo, KeepTodo
<1>10. CASE t = <<"zero", "native", "judge", "exit">>
  <2>1. Head(t) = "zero" /\ Tail(t) = <<"native", "judge", "exit">>
    BY <1>10
  <2> QED
    BY <1>10, <2>1 DEF Before, Short, LimitTodos, Untouched, Ending, JudgeTodo, KeepTodo
<1>11. CASE t = <<"native", "judge", "exit">>
  <2>1. Head(t) = "native" /\ Tail(t) = <<"judge", "exit">>
    BY <1>11
  <2> QED
    BY <1>11, <2>1 DEF Before, Short, LimitTodos, Untouched, Ending, JudgeTodo, KeepTodo
<1>12. CASE t = <<"trace", "fault", "native", "judge", "exit">>
  <2>1. Head(t) = "trace" /\ Tail(t) = <<"fault", "native", "judge", "exit">>
    BY <1>12
  <2> QED
    BY <1>12, <2>1 DEF Before, Short, LimitTodos, Untouched, Ending, JudgeTodo, KeepTodo
<1>13. CASE t = <<"fault", "native", "judge", "exit">>
  <2>1. Head(t) = "fault" /\ Tail(t) = <<"native", "judge", "exit">>
    BY <1>13
  <2> QED
    BY <1>13, <2>1 DEF Before, Short, LimitTodos, Untouched, Ending, JudgeTodo, KeepTodo
<1>14. CASE t = <<"trace", "fault", "reject", "zero", "native", "judge", "exit">>
  <2>1. Head(t) = "trace" /\ Tail(t) = <<"fault", "reject", "zero", "native", "judge", "exit">>
    BY <1>14
  <2> QED
    BY <1>14, <2>1 DEF Before, Short, LimitTodos, Untouched, Ending, JudgeTodo, KeepTodo
<1>15. CASE t = <<"fault", "reject", "zero", "native", "judge", "exit">>
  <2>1. Head(t) = "fault" /\ Tail(t) = <<"reject", "zero", "native", "judge", "exit">>
    BY <1>15
  <2> QED
    BY <1>15, <2>1 DEF Before, Short, LimitTodos, Untouched, Ending, JudgeTodo, KeepTodo
<1>16. CASE t = <<"reject", "zero", "native", "judge", "exit">>
  <2>1. Head(t) = "reject" /\ Tail(t) = <<"zero", "native", "judge", "exit">>
    BY <1>16
  <2> QED
    BY <1>16, <2>1 DEF Before, Short, LimitTodos, Untouched, Ending, JudgeTodo, KeepTodo
<1>17. CASE t = <<"trace", "fault", "hook", "zero", "native", "judge", "exit">>
  <2>1. Head(t) = "trace" /\ Tail(t) = <<"fault", "hook", "zero", "native", "judge", "exit">>
    BY <1>17
  <2> QED
    BY <1>17, <2>1 DEF Before, Short, LimitTodos, Untouched, Ending, JudgeTodo, KeepTodo
<1>18. CASE t = <<"fault", "hook", "zero", "native", "judge", "exit">>
  <2>1. Head(t) = "fault" /\ Tail(t) = <<"hook", "zero", "native", "judge", "exit">>
    BY <1>18
  <2> QED
    BY <1>18, <2>1 DEF Before, Short, LimitTodos, Untouched, Ending, JudgeTodo, KeepTodo
<1>19. CASE t = <<"hook", "zero", "native", "judge", "exit">>
  <2>1. Head(t) = "hook" /\ Tail(t) = <<"zero", "native", "judge", "exit">>
    BY <1>19
  <2> QED
    BY <1>19, <2>1 DEF Before, Short, LimitTodos, Untouched, Ending, JudgeTodo, KeepTodo
<1>20. CASE t = <<"trace", "fault", "hook", "zero", "native", "keep", "hook", "judge", "exit">>
  <2>1. Head(t) = "trace" /\ Tail(t) = <<"fault", "hook", "zero", "native", "keep", "hook", "judge", "exit">>
    BY <1>20
  <2> QED
    BY <1>20, <2>1 DEF Before, Short, LimitTodos, Untouched, Ending, JudgeTodo, KeepTodo
<1>21. CASE t = <<"fault", "hook", "zero", "native", "keep", "hook", "judge", "exit">>
  <2>1. Head(t) = "fault" /\ Tail(t) = <<"hook", "zero", "native", "keep", "hook", "judge", "exit">>
    BY <1>21
  <2> QED
    BY <1>21, <2>1 DEF Before, Short, LimitTodos, Untouched, Ending, JudgeTodo, KeepTodo
<1>22. CASE t = <<"hook", "zero", "native", "keep", "hook", "judge", "exit">>
  <2>1. Head(t) = "hook" /\ Tail(t) = <<"zero", "native", "keep", "hook", "judge", "exit">>
    BY <1>22
  <2> QED
    BY <1>22, <2>1 DEF Before, Short, LimitTodos, Untouched, Ending, JudgeTodo, KeepTodo
<1>23. CASE t = <<"zero", "native", "keep", "hook", "judge", "exit">>
  <2>1. Head(t) = "zero" /\ Tail(t) = <<"native", "keep", "hook", "judge", "exit">>
    BY <1>23
  <2> QED
    BY <1>23, <2>1 DEF Before, Short, LimitTodos, Untouched, Ending, JudgeTodo, KeepTodo
<1>24. CASE t = <<"native", "keep", "hook", "judge", "exit">>
  <2>1. Head(t) = "native" /\ Tail(t) = <<"keep", "hook", "judge", "exit">>
    BY <1>24
  <2> QED
    BY <1>24, <2>1 DEF Before, Short, LimitTodos, Untouched, Ending, JudgeTodo, KeepTodo
<1>25. CASE t = <<"trace", "fault", "zero", "hook", "native", "keep", "hook", "judge", "exit">>
  <2>1. Head(t) = "trace" /\ Tail(t) = <<"fault", "zero", "hook", "native", "keep", "hook", "judge", "exit">>
    BY <1>25
  <2> QED
    BY <1>25, <2>1 DEF Before, Short, LimitTodos, Untouched, Ending, JudgeTodo, KeepTodo
<1>26. CASE t = <<"fault", "zero", "hook", "native", "keep", "hook", "judge", "exit">>
  <2>1. Head(t) = "fault" /\ Tail(t) = <<"zero", "hook", "native", "keep", "hook", "judge", "exit">>
    BY <1>26
  <2> QED
    BY <1>26, <2>1 DEF Before, Short, LimitTodos, Untouched, Ending, JudgeTodo, KeepTodo
<1>27. CASE t = <<"zero", "hook", "native", "keep", "hook", "judge", "exit">>
  <2>1. Head(t) = "zero" /\ Tail(t) = <<"hook", "native", "keep", "hook", "judge", "exit">>
    BY <1>27
  <2> QED
    BY <1>27, <2>1 DEF Before, Short, LimitTodos, Untouched, Ending, JudgeTodo, KeepTodo
<1>28. CASE t = <<"hook", "native", "keep", "hook", "judge", "exit">>
  <2>1. Head(t) = "hook" /\ Tail(t) = <<"native", "keep", "hook", "judge", "exit">>
    BY <1>28
  <2> QED
    BY <1>28, <2>1 DEF Before, Short, LimitTodos, Untouched, Ending, JudgeTodo, KeepTodo
<1> QED
  BY <1>1, <1>2, <1>3, <1>4, <1>5, <1>6, <1>7, <1>8, <1>9, <1>10, <1>11, <1>12, <1>13, <1>14,
     <1>15, <1>16, <1>17, <1>18, <1>19, <1>20, <1>21, <1>22, <1>23, <1>24, <1>25, <1>26, <1>27, <1>28 DEF Before

LEMMA StepsAfter ==
  ASSUME NEW t \in After
  PROVE  /\ t # <<>> /\ Head(t) \in {"judge", "hook", "keep"}
         /\ Head(t) = "judge" => t = JudgeTodo /\ Tail(t) = <<"exit">>
         /\ Head(t) = "hook" => t = HookTodo /\ Tail(t) = JudgeTodo
         /\ Head(t) = "keep" => t = KeepTodo /\ Tail(t) = HookTodo
<1>1. CASE t = JudgeTodo
  BY <1>1 DEF JudgeTodo
<1>2. CASE t = HookTodo
  BY <1>2 DEF HookTodo, JudgeTodo
<1>3. CASE t = KeepTodo
  BY <1>3 DEF KeepTodo, HookTodo
<1> QED
  BY <1>1, <1>2, <1>3 DEF After, JudgeTodo, HookTodo, KeepTodo

LEMMA StepsEnding ==
  ASSUME NEW t \in Ending, t # <<>>
  PROVE  t = <<"exit">> /\ Head(t) = "exit" /\ Tail(t) = <<>>
<1>1. t = <<"exit">>
  BY DEF Ending
<1> QED
  BY <1>1

LEMMA PlainSteps ==
  ASSUME NEW t \in PlainTodos, t # <<>>
  PROVE  /\ Tail(t) \in PlainTodos
         /\ Head(t) = "native" => t = NativeTodo /\ Tail(t) = JudgeTodo
         /\ Tail(t) = NativeTodo => Head(t) = "zero"
<1>1. CASE t = <<"trace", "fault", "zero", "native", "judge", "exit">>
  <2>1. Head(t) = "trace" /\ Tail(t) = <<"fault", "zero", "native", "judge", "exit">>
    BY <1>1
  <2> QED
    BY <2>1 DEF PlainTodos, JudgeTodo, NativeTodo
<1>2. CASE t = <<"fault", "zero", "native", "judge", "exit">>
  <2>1. Head(t) = "fault" /\ Tail(t) = <<"zero", "native", "judge", "exit">>
    BY <1>2
  <2> QED
    BY <2>1 DEF PlainTodos, JudgeTodo, NativeTodo
<1>3. CASE t = <<"zero", "native", "judge", "exit">>
  <2>1. Head(t) = "zero" /\ Tail(t) = <<"native", "judge", "exit">>
    BY <1>3
  <2> QED
    BY <2>1 DEF PlainTodos, JudgeTodo, NativeTodo
<1>4. CASE t = <<"native", "judge", "exit">>
  <2>1. Head(t) = "native" /\ Tail(t) = <<"judge", "exit">>
    BY <1>4
  <2> QED
    BY <1>4, <2>1 DEF PlainTodos, JudgeTodo, NativeTodo
<1>5. CASE t = <<"judge", "exit">>
  <2>1. Head(t) = "judge" /\ Tail(t) = <<"exit">>
    BY <1>5
  <2> QED
    BY <2>1 DEF PlainTodos, JudgeTodo, NativeTodo
<1>6. CASE t = <<"exit">>
  <2>1. Head(t) = "exit" /\ Tail(t) = <<>>
    BY <1>6
  <2> QED
    BY <2>1 DEF PlainTodos, JudgeTodo, NativeTodo
<1> QED
  BY <1>1, <1>2, <1>3, <1>4, <1>5, <1>6 DEF PlainTodos

LEMMA PcloseSteps ==
  ASSUME NEW t \in PcloseTodos, t # <<>>
  PROVE  /\ Tail(t) \in PcloseTodos
         /\ Head(t) = "native" => t = NativeKeep /\ Tail(t) = KeepTodo
         /\ Tail(t) = NativeKeep => Head(t) = "hook"
<1>1. CASE t = <<"trace", "fault", "zero", "hook", "native", "keep", "hook", "judge", "exit">>
  <2>1. Head(t) = "trace" /\ Tail(t) = <<"fault", "zero", "hook", "native", "keep", "hook", "judge", "exit">>
    BY <1>1
  <2> QED
    BY <2>1 DEF PcloseTodos, KeepTodo, NativeKeep
<1>2. CASE t = <<"fault", "zero", "hook", "native", "keep", "hook", "judge", "exit">>
  <2>1. Head(t) = "fault" /\ Tail(t) = <<"zero", "hook", "native", "keep", "hook", "judge", "exit">>
    BY <1>2
  <2> QED
    BY <2>1 DEF PcloseTodos, KeepTodo, NativeKeep
<1>3. CASE t = <<"zero", "hook", "native", "keep", "hook", "judge", "exit">>
  <2>1. Head(t) = "zero" /\ Tail(t) = <<"hook", "native", "keep", "hook", "judge", "exit">>
    BY <1>3
  <2> QED
    BY <2>1 DEF PcloseTodos, KeepTodo, NativeKeep
<1>4. CASE t = <<"hook", "native", "keep", "hook", "judge", "exit">>
  <2>1. Head(t) = "hook" /\ Tail(t) = <<"native", "keep", "hook", "judge", "exit">>
    BY <1>4
  <2> QED
    BY <2>1 DEF PcloseTodos, KeepTodo, NativeKeep
<1>5. CASE t = <<"native", "keep", "hook", "judge", "exit">>
  <2>1. Head(t) = "native" /\ Tail(t) = <<"keep", "hook", "judge", "exit">>
    BY <1>5
  <2> QED
    BY <2>1 DEF PcloseTodos, KeepTodo, NativeKeep
<1>6. CASE t = <<"keep", "hook", "judge", "exit">>
  <2>1. Head(t) = "keep" /\ Tail(t) = <<"hook", "judge", "exit">>
    BY <1>6
  <2> QED
    BY <2>1 DEF PcloseTodos, KeepTodo, NativeKeep
<1>7. CASE t = <<"hook", "judge", "exit">>
  <2>1. Head(t) = "hook" /\ Tail(t) = <<"judge", "exit">>
    BY <1>7
  <2> QED
    BY <2>1 DEF PcloseTodos, KeepTodo, NativeKeep
<1>8. CASE t = <<"judge", "exit">>
  <2>1. Head(t) = "judge" /\ Tail(t) = <<"exit">>
    BY <1>8
  <2> QED
    BY <2>1 DEF PcloseTodos, KeepTodo, NativeKeep
<1>9. CASE t = <<"exit">>
  <2>1. Head(t) = "exit" /\ Tail(t) = <<>>
    BY <1>9
  <2> QED
    BY <2>1 DEF PcloseTodos, KeepTodo, NativeKeep
<1> QED
  BY <1>1, <1>2, <1>3, <1>4, <1>5, <1>6, <1>7, <1>8, <1>9 DEF PcloseTodos

-----------------------------------------------------------------------------
(* The calls in progress are sound: before the native call nothing is      *)
(* known or true; a code that was returned is the truth; a sentinel that   *)
(* is no good answer tells of a failure, and an error is raised for it by  *)
(* the time the call returns; stdio's failures have raised some error.     *)
Frames ==
  [fn : Wrappers, todo : Before \cup After \cup Ending, entry : ErrnoValues,
   found : ErrnoValues, ret : Errnos \cup {OK, Sentinel}, kept : ErrnoValues \cup {None},
   raised : ErrnoValues \cup {None}, truth : Errnos \cup {None, Silent}, native : BOOLEAN]
OnPath(fn, todo) ==
  /\ fn \in Quiet => todo \in Short \cup Ending
  /\ fn \notin Quiet => todo \notin Short
  /\ fn \in Plain => todo \in PlainTodos
  /\ fn \in PcloseCall => todo \in PcloseTodos
  /\ todo \in LimitTodos => fn \in LimitCalls
Results(f) ==
  /\ f.truth = Silent => f.fn \in StdioCalls /\ f.ret = Sentinel /\ f.native
  /\ f.fn \in Codes => f.ret # Sentinel /\ f.truth = IF f.ret = OK THEN None ELSE f.ret
  /\ f.fn \notin Codes /\ f.truth # None => f.ret = Sentinel
  /\ f.fn \notin Codes \cup GoodSentinels /\ f.ret = Sentinel => f.truth # None
  /\ f.native /\ f.truth \notin {None, Silent} => f.truth \in Declared[f.fn]
Judged(f) ==
  /\ f.fn \in Codes => f.raised = f.truth
  /\ f.fn \in StdioCalls /\ f.ret = Sentinel => f.raised \in Errnos
  /\ f.fn \notin Disambiguated /\ ~Misled(f) => (f.raised = None <=> f.truth = None)
Sound ==
  {f \in Frames :
     /\ OnPath(f.fn, f.todo) /\ Results(f)
     /\ f.fn \in Plain => f.kept = None
     /\ f.todo \in Before =>
          /\ f.ret = OK /\ f.kept = None /\ f.raised = None /\ f.truth = None
          /\ ~f.native
     /\ f.todo \in After => f.native
     /\ f.todo \in Ending => Judged(f)}
IInv == errno \in ErrnoValues /\ calls \in Seq(Sound) /\ Len(calls) <= MaxNesting

LEMMA AfterApart ==
  ASSUME NEW t \in After
  PROVE  t \notin Before /\ t \notin Short /\ t \notin LimitTodos /\ t \notin Untouched
         /\ t \notin Ending /\ t # <<>>
<1>1. t \notin Before
  BY DEF After, Before
<1>2. t \notin Short /\ t \notin LimitTodos
  BY DEF After, Short, LimitTodos
<1>4. t \notin Ending /\ t # <<>>
  BY StepsAfter, StepsEnding
<1>3. t \notin Untouched
  BY DEF After, Untouched
<1> QED
  BY <1>1, <1>2, <1>3, <1>4

LEMMA EndingApart ==
  ASSUME NEW t \in Ending
  PROVE  /\ t \notin Before /\ t \notin After /\ t \notin Short /\ t \notin LimitTodos
         /\ t \notin Untouched /\ t \in PlainTodos /\ t \in PcloseTodos
<1>1. t \notin Before
  <2>1. t = <<>> \/ (Head(t) = "exit" /\ Tail(t) = <<>>)
    BY StepsEnding
  <2> QED
    BY <2>1, StepsBefore
<1>2. t \notin After /\ t \notin Short /\ t \notin LimitTodos
  <2>1. t \notin After
    BY AfterApart
  <2>2. t \notin Short /\ t \notin LimitTodos
    BY DEF Ending, Short, LimitTodos
  <2> QED
    BY <2>1, <2>2
<1>3. t \notin Untouched /\ t \in PlainTodos /\ t \in PcloseTodos
  BY DEF Ending, Untouched, PlainTodos, PcloseTodos
<1> QED
  BY <1>1, <1>2, <1>3

LEMMA BeforeApart ==
  ASSUME NEW t \in Before
  PROVE  t \notin After /\ t \notin Ending /\ t # <<>>
  BY StepsBefore, AfterApart, EndingApart

LEMMA Shapes ==
  /\ Codes \cap Quiet = {} /\ Codes \cap StdioCalls = {} /\ Quiet \cap StdioCalls = {}
  /\ Plain \cap (Codes \cup Quiet \cup LimitCalls \cup PcloseCall) \subseteq SigwaitCall
  /\ SigwaitCall \cap Plain = {} /\ Plain \cap Leaves = {}
  /\ Disambiguated \cap (StdioCalls \cup TimesCall) = {} /\ TimesCall \cap (Codes \cup StdioCalls) = {}
  /\ LimitCalls \cap (Codes \cup StdioCalls \cup Quiet \cup Plain) = {}
  /\ Disambiguated \cup PopenCall \cup TimesCall \subseteq Plain
  /\ PcloseCall \cap (Quiet \cup Codes \cup PopenCall \cup LimitCalls) = {}
  /\ StdioCalls = PopenCall \cup PcloseCall
  /\ \A w \in Plain : Path(w) = PlainPath
  /\ \A w \in PcloseCall : Path(w) = PclosePath
  BY DEF Codes, Spawn, SpawnCalls, ActionCalls, AttrCalls, SigwaitCall, Quiet, QuietIds,
     QuietTimer, Jump, StdioCalls, PopenCall, PcloseCall, Disambiguated, NiceCall,
     GetPriorityCall, TimesCall, LimitCalls, WaitCalls, ExecCalls, Leaves, Wrappers, Sentinels,
     Plain, ProcessCalls, SignalActs, SignalSets, SchedCalls, EnvironCalls, ResourceCalls, Path

LEMMA Goods ==
  GoodSentinels \subseteq Plain /\ GoodSentinels \cap (Codes \cup StdioCalls \cup Quiet \cup LimitCalls) = {}
  /\ Disambiguated \subseteq GoodSentinels
  BY Shapes DEF GoodSentinels

LEMMA Popped ==
  ASSUME NEW S, NEW s \in Seq(S), s # <<>>
  PROVE  s[1] \in S /\ Tail(s) \in Seq(S) /\ Len(Tail(s)) = Len(s) - 1
  OBVIOUS

LEMMA Pushed ==
  ASSUME NEW S, NEW f \in S, NEW t \in Seq(S)
  PROVE  <<f>> \o t \in Seq(S) /\ Len(<<f>> \o t) = Len(t) + 1
  OBVIOUS

LEMMA InvBecomes ==
  ASSUME IInv, calls # <<>>, NEW g \in Sound, Becomes(g), errno' \in ErrnoValues
  PROVE  IInv'
<1>1. Tail(calls) \in Seq(Sound) /\ Len(Tail(calls)) = Len(calls) - 1
  BY Popped DEF IInv
<1>2. calls' \in Seq(Sound) /\ Len(calls') = Len(calls)
  BY <1>1, Pushed DEF Becomes, IInv
<1> QED
  BY <1>2 DEF IInv

LEMMA FrameSound ==
  ASSUME errno \in ErrnoValues, NEW w \in Wrappers
  PROVE  Frame(w) \in Sound
<1>1. Path(w) \in Before /\ Path(w) \notin After /\ Path(w) \notin Ending
  BY Paths, BeforeApart
<1>2. OnPath(w, Path(w))
  <2>1. w \in Plain => Path(w) \in PlainTodos
    BY Shapes DEF PlainPath, PlainTodos
  <2>2. w \in PcloseCall => Path(w) \in PcloseTodos
    BY Shapes DEF PclosePath, PcloseTodos
  <2> QED
    BY <2>1, <2>2, Paths DEF OnPath
<1> DEFINE g == Frame(w)
<1>3. /\ g \in Frames /\ g.fn = w /\ g.todo = Path(w) /\ g.ret = OK /\ g.kept = None
      /\ g.raised = None /\ g.truth = None /\ g.native = FALSE
  BY <1>1 DEF Frame, Frames, ErrnoValues
<1> HIDE DEF g
<1>4. Results(g)
  BY <1>3 DEF Results, OK, Sentinel, None, Silent
<1>5. g \in Sound
  BY <1>1, <1>2, <1>3, <1>4 DEF Sound
<1> QED
  BY <1>5 DEF g

(* The innermost call, standing at a step. *)
LEMMA TopSound ==
  ASSUME IInv, NEW step, At(step)
  PROVE  /\ calls # <<>> /\ Top \in Sound /\ Top \in Frames /\ Top.todo # <<>>
         /\ Head(Top.todo) = step
  BY Popped DEF IInv, At, Top, Sound

LEMMA ErrorNumbers ==
  ASSUME NEW e \in Errnos
  PROVE  e # OK /\ e # Sentinel /\ e # Silent /\ e # None /\ e # Zero
  BY ErrnosAssumption

(* A call that is turned down, with error e and result r. *)
EndedBy(f, r, e) == Ended([f EXCEPT !.ret = r, !.raised = e, !.truth = e])
Shows(g, f, r, e) ==
  /\ g.todo = <<"exit">> /\ g.fn = f.fn /\ g.kept = f.kept /\ g.entry = f.entry
  /\ g.found = f.found /\ g.raised = e /\ g.truth = e /\ g.ret = r /\ g.native = f.native

LEMMA EndedFrame ==
  ASSUME NEW f \in Frames, NEW r \in Errnos \cup {OK, Sentinel}, NEW e \in Errnos
  PROVE  EndedBy(f, r, e) \in Frames /\ Shows(EndedBy(f, r, e), f, r, e)
BY DEF EndedBy, Shows, Ended, Frames, ErrnoValues, Ending

LEMMA EndedSound ==
  ASSUME NEW f \in Sound, f.todo \in Before, f.fn \notin Quiet, NEW e \in Errnos,
         NEW r \in Errnos \cup {OK, Sentinel}, r = IF f.fn \in Codes THEN e ELSE Sentinel
  PROVE  EndedBy(f, r, e) \in Sound /\ Shows(EndedBy(f, r, e), f, r, e)
<1> DEFINE g == EndedBy(f, r, e)
<1>1. f \in Frames /\ f.kept = None /\ f.native = FALSE
  BY DEF Sound, Frames
<1>2. g \in Frames /\ Shows(g, f, r, e)
  BY <1>1, EndedFrame
<1> HIDE DEF g
<1>3. g.todo \in Ending
  BY <1>2 DEF Shows, Ending
<1>4. OnPath(g.fn, g.todo)
  BY <1>2, <1>3, EndingApart DEF OnPath, Shows
<1>5. Results(g) /\ Judged(g)
  BY <1>1, <1>2, ErrorNumbers DEF Results, Judged, Shows
<1>6. g \in Sound
  BY <1>1, <1>2, <1>3, <1>4, <1>5, EndingApart DEF Sound, Shows
<1> QED
  BY <1>2, <1>6 DEF g

LEMMA StepFault ==
  ASSUME IInv, (\E e \in Errnos : InjectFault(e)) \/ Reject(TRUE)
  PROVE  IInv'
<1>1. PICK step \in {"fault", "reject"}, e \in Errnos, r \in Errnos \cup {OK, Sentinel} :
        /\ At(step) /\ errno' = errno
        /\ r = IF Top.fn \in Codes THEN e ELSE Sentinel
        /\ Becomes(EndedBy(Top, r, e))
  <2>1. ASSUME NEW e \in Errnos, InjectFault(e)
        PROVE  /\ At("fault") /\ errno' = errno
               /\ Becomes(EndedBy(Top, IF Top.fn \in Codes THEN e ELSE Sentinel, e))
    BY <2>1 DEF InjectFault, EndedBy
  <2>2. CASE Reject(TRUE)
    <3>1. At("reject") /\ errno' = errno /\ Becomes(EndedBy(Top, Sentinel, "EINVAL"))
      BY <2>2 DEF Reject, EndedBy
    <3>2. Top \in Sound /\ Top \in Frames /\ Head(Top.todo) = "reject" /\ Top.todo # <<>>
      BY <3>1, TopSound
    <3>3. Top.todo \in Before
      BY <3>2, StepsAfter, StepsEnding DEF Frames
    <3>4. Top.fn \notin Codes
      BY <3>2, <3>3, StepsBefore, Shapes DEF Sound, OnPath
    <3> QED
      BY <3>1, <3>4, ErrnosAssumption
  <2> QED
    BY <2>1, <2>2
<1>2. /\ calls # <<>> /\ Top \in Sound /\ Top \in Frames /\ Head(Top.todo) = step
      /\ Top.todo # <<>>
  BY <1>1, TopSound
<1>3. Top.todo \in Before
  BY <1>2, StepsAfter, StepsEnding DEF Frames
<1>4. Top.fn \notin Quiet
  <2>1. Top.todo \in Untouched /\ Top.todo \notin Ending
    BY <1>2, <1>3, StepsBefore, BeforeApart
  <2>2. Top.todo \notin Short
    BY <2>1 DEF Untouched, Short
  <2> QED
    BY <1>2, <2>1, <2>2 DEF Sound, OnPath
<1>5. EndedBy(Top, r, e) \in Sound
  BY <1>1, <1>2, <1>3, <1>4, EndedSound
<1> QED
  BY <1>1, <1>2, <1>5, InvBecomes DEF IInv

(* A step that changes nothing but what is left to do, what is kept and    *)
(* what a hook left: before the native call, between it and the judgement, *)
(* or on the way out.                                                      *)
Moved(f, k, n) == Onward([f EXCEPT !.kept = k, !.found = n])
Follows(g, f, k, n) ==
  /\ g.todo = Tail(f.todo) /\ g.fn = f.fn /\ g.entry = f.entry /\ g.found = n
  /\ g.ret = f.ret /\ g.kept = k /\ g.raised = f.raised /\ g.truth = f.truth
  /\ g.native = f.native

LEMMA MovedFrame ==
  ASSUME NEW f \in Frames, NEW k \in ErrnoValues \cup {None}, NEW n \in ErrnoValues,
         Tail(f.todo) \in Before \cup After \cup Ending
  PROVE  Moved(f, k, n) \in Frames /\ Follows(Moved(f, k, n), f, k, n)
  BY DEF Moved, Follows, Onward, Frames

LEMMA MovedSound ==
  ASSUME NEW f \in Sound, f.todo # <<>>, Head(f.todo) \notin {"native", "judge"},
         NEW k \in ErrnoValues \cup {None}, NEW n \in ErrnoValues,
         Head(f.todo) # "keep" => k = f.kept
  PROVE  Moved(f, k, n) \in Sound /\ Follows(Moved(f, k, n), f, k, n)
<1> DEFINE g == Moved(f, k, n)
<1>1. f \in Frames /\ OnPath(f.fn, f.todo) /\ Results(f)
  BY DEF Sound
<1>2. f.fn \in Plain => Tail(f.todo) \in PlainTodos
  BY <1>1, PlainSteps DEF OnPath
<1>3. f.fn \in PcloseCall => Tail(f.todo) \in PcloseTodos
  BY <1>1, PcloseSteps DEF OnPath
<1>4. CASE f.todo \in Before
  <2>1. /\ Tail(f.todo) \in Before /\ (f.todo \in Short <=> Tail(f.todo) \in Short)
        /\ Tail(f.todo) \in LimitTodos => f.todo \in LimitTodos
        /\ Head(f.todo) # "keep"
    BY <1>4, StepsBefore
  <2>2. g \in Frames /\ Follows(g, f, k, n)
    BY <1>1, <2>1, MovedFrame
  <2> HIDE DEF g
  <2>3. OnPath(g.fn, g.todo)
    BY <1>1, <1>2, <1>3, <1>4, <2>1, <2>2, BeforeApart DEF OnPath, Follows
  <2>4. Results(g)
    BY <1>1, <2>2 DEF Results, Follows
  <2>5. g \in Sound
    BY <1>4, <2>1, <2>2, <2>3, <2>4, BeforeApart DEF Sound, Follows
  <2> QED
    BY <2>2, <2>5 DEF g
<1>5. CASE f.todo \in After
  <2>1. Tail(f.todo) \in {JudgeTodo, HookTodo} /\ f.todo \in {HookTodo, KeepTodo}
    BY <1>5, StepsAfter
  <2>2. Tail(f.todo) \in After
    BY <2>1 DEF After, JudgeTodo, HookTodo
  <2>3. g \in Frames /\ Follows(g, f, k, n)
    BY <1>1, <2>2, MovedFrame
  <2> HIDE DEF g
  <2>4. f.fn \notin Plain /\ f.fn \notin Quiet
    <3>1. f.todo \notin PlainTodos
      BY <2>1 DEF PlainTodos, HookTodo, KeepTodo
    <3> QED
      BY <1>1, <1>5, <3>1, AfterApart DEF OnPath
  <2>5. OnPath(g.fn, g.todo)
    BY <1>3, <2>2, <2>3, <2>4, AfterApart DEF OnPath, Follows
  <2>6. Results(g)
    BY <1>1, <2>3 DEF Results, Follows
  <2>7. g \in Sound
    BY <1>5, <2>2, <2>3, <2>4, <2>5, <2>6, AfterApart DEF Sound, Follows
  <2> QED
    BY <2>3, <2>7 DEF g
<1>6. CASE f.todo \in Ending
  <2>1. Tail(f.todo) \in Ending /\ Head(f.todo) # "keep"
    BY <1>6, StepsEnding DEF Ending
  <2>2. g \in Frames /\ Follows(g, f, k, n)
    BY <1>1, <2>1, MovedFrame
  <2> HIDE DEF g
  <2>3. OnPath(g.fn, g.todo)
    BY <2>1, <2>2, EndingApart DEF OnPath, Follows
  <2>4. Results(g) /\ Judged(g)
    <3>1. Results(g)
      BY <1>1, <2>2 DEF Results, Follows, Sound
    <3>2. Judged(g)
      BY <1>1, <1>6, <2>2 DEF Judged, Follows, Sound, Misled
    <3> QED
      BY <3>1, <3>2
  <2>5. g \in Sound
    BY <2>1, <2>2, <2>3, <2>4, EndingApart DEF Sound, Follows
  <2> QED
    BY <2>2, <2>5 DEF g
<1> QED
  BY <1>1, <1>4, <1>5, <1>6 DEF Frames

(* The steps that are such a move. *)
LEMMA Moves ==
  ASSUME IInv, NoFault \/ Hook \/ ZeroErrno \/ KeepErrno \/ Reject(FALSE)
  PROVE  \E step \in {"fault", "reject", "zero", "trace", "hook", "exit", "keep"},
            k \in ErrnoValues \cup {None}, n \in ErrnoValues :
           /\ At(step) /\ Becomes(Moved(Top, k, n)) /\ errno' \in ErrnoValues
           /\ k = IF step = "keep" THEN errno ELSE Top.kept
           /\ n = IF step \in {"trace", "hook", "exit"} /\ ~Top.native THEN errno' ELSE Top.found
           /\ step = "zero" => errno' = Zero
           /\ step \in {"fault", "reject", "keep"} => errno' = errno
<1>1. PICK step \in {"fault", "reject", "zero", "trace", "hook", "exit", "keep"} : At(step)
  BY DEF NoFault, Hook, ZeroErrno, KeepErrno, Reject
<1>2. Top \in Frames
  BY <1>1, TopSound
<1>3. errno' \in ErrnoValues
  BY DEF NoFault, Hook, ZeroErrno, KeepErrno, Reject, IInv, ErrnoValues
<1>4. Top.kept \in ErrnoValues \cup {None} /\ Top.found \in ErrnoValues /\ errno \in ErrnoValues
  BY <1>2 DEF Frames, IInv
<1>5. CASE NoFault \/ Reject(FALSE) \/ ZeroErrno
  <2>1. Moved(Top, Top.kept, Top.found) = Onward(Top)
    BY <1>2 DEF Moved, Frames
  <2>2. PICK s \in {"fault", "reject", "zero"} :
          /\ At(s) /\ (s = "zero" => errno' = Zero)
          /\ s \in {"fault", "reject"} => errno' = errno
    BY <1>5 DEF NoFault, ZeroErrno, Reject
  <2>3. Becomes(Moved(Top, Top.kept, Top.found))
    BY <1>5, <2>1 DEF NoFault, ZeroErrno, Reject
  <2> QED
    BY <1>3, <1>4, <2>2, <2>3
<1>6. CASE KeepErrno
  <2>1. Moved(Top, errno, Top.found) = Onward([Top EXCEPT !.kept = errno])
    BY <1>2 DEF Moved, Frames
  <2>2. Becomes(Moved(Top, errno, Top.found)) /\ At("keep") /\ errno' = errno
    BY <1>6, <2>1 DEF KeepErrno
  <2> QED
    BY <1>3, <1>4, <2>2
<1>7. CASE Hook
  <2> DEFINE n == IF Top.native THEN Top.found ELSE errno'
  <2>1. Moved(Top, Top.kept, n) = Onward([Top EXCEPT !.found = n])
    BY <1>2 DEF Moved, Frames
  <2>2. [Top EXCEPT !.found = n] = [Top EXCEPT !.found = IF Top.native THEN @ ELSE errno']
    BY <1>2 DEF Frames
  <2>3. PICK s \in {"trace", "hook", "exit"} : At(s)
    BY <1>7 DEF Hook
  <2>4. Becomes(Moved(Top, Top.kept, n))
    BY <1>7, <2>1, <2>2 DEF Hook
  <2>5. n \in ErrnoValues /\ n = IF s \in {"trace", "hook", "exit"} /\ ~Top.native THEN errno' ELSE Top.found
    BY <1>3, <1>4
  <2> HIDE DEF n
  <2> QED
    BY <1>3, <1>4, <2>3, <2>4, <2>5
<1> QED
  BY <1>5, <1>6, <1>7

LEMMA StepMove ==
  ASSUME IInv, NoFault \/ Hook \/ ZeroErrno \/ KeepErrno \/ Reject(FALSE)
  PROVE  IInv'
<1>1. PICK step \in {"fault", "reject", "zero", "trace", "hook", "exit", "keep"},
           k \in ErrnoValues \cup {None}, n \in ErrnoValues :
        /\ At(step) /\ Becomes(Moved(Top, k, n)) /\ errno' \in ErrnoValues
        /\ k = IF step = "keep" THEN errno ELSE Top.kept
  BY Moves
<1>2. calls # <<>> /\ Top \in Sound /\ Top.todo # <<>> /\ Head(Top.todo) = step
  BY <1>1, TopSound
<1>3. Moved(Top, k, n) \in Sound
  BY <1>1, <1>2, MovedSound
<1> QED
  BY <1>1, <1>2, <1>3, InvBecomes

(* The native call has returned, with a result and what is true of it. *)
Answered(f, r, truth) == Onward([f EXCEPT !.ret = r, !.truth = truth, !.native = TRUE])
Answers(g, f, r, truth) ==
  /\ g.todo = Tail(f.todo) /\ g.fn = f.fn /\ g.entry = f.entry /\ g.found = f.found
  /\ g.ret = r /\ g.kept = f.kept /\ g.raised = f.raised /\ g.truth = truth
  /\ g.native = TRUE

LEMMA AnsweredFrame ==
  ASSUME NEW f \in Frames, NEW r \in Errnos \cup {OK, Sentinel},
         NEW truth \in Errnos \cup {None, Silent}, Tail(f.todo) \in Before \cup After \cup Ending
  PROVE  Answered(f, r, truth) \in Frames /\ Answers(Answered(f, r, truth), f, r, truth)
  BY DEF Answered, Answers, Onward, Frames

(* What a native call can answer. *)
Answer(w, r, truth) ==
  /\ r \in Errnos \cup {OK, Sentinel} /\ truth \in Errnos \cup {None, Silent}
  /\ w \in Quiet => r = OK /\ truth = None
  /\ truth = Silent => w \in StdioCalls /\ r = Sentinel
  /\ w \in Codes => r # Sentinel /\ truth = IF r = OK THEN None ELSE r
  /\ w \notin Codes /\ truth # None => r = Sentinel
  /\ w \notin Codes \cup GoodSentinels /\ r = Sentinel => truth # None
  /\ truth \notin {None, Silent} => truth \in Declared[w]

LEMMA AnsweredSound ==
  ASSUME NEW f \in Sound, f.todo \in Before, Head(f.todo) = "native",
         NEW r, NEW truth, Answer(f.fn, r, truth)
  PROVE  /\ Answered(f, r, truth) \in Sound /\ Answers(Answered(f, r, truth), f, r, truth)
         /\ f.fn \in Quiet => Tail(f.todo) \in Ending
         /\ f.fn \notin Quiet => Tail(f.todo) \in {JudgeTodo, KeepTodo}
<1> DEFINE g == Answered(f, r, truth)
<1>1. f \in Frames /\ OnPath(f.fn, f.todo) /\ f.todo # <<>> /\ f.todo \notin Ending
  BY BeforeApart DEF Sound
<1>2. f.raised = None /\ f.kept = None
  BY DEF Sound
<1>3. f.fn \in Plain => Tail(f.todo) \in PlainTodos
  BY <1>1, PlainSteps DEF OnPath
<1>4. f.fn \in PcloseCall => Tail(f.todo) \in PcloseTodos
  BY <1>1, PcloseSteps DEF OnPath
<1>5. /\ f.fn \in Quiet => Tail(f.todo) \in Ending
      /\ f.fn \notin Quiet => Tail(f.todo) \in {JudgeTodo, KeepTodo}
  BY <1>1, StepsBefore DEF OnPath
<1>6. f.fn \notin Quiet => Tail(f.todo) \in After
  BY <1>5 DEF After, JudgeTodo, KeepTodo
<1>7. g \in Frames /\ Answers(g, f, r, truth)
  BY <1>1, <1>5, <1>6, AnsweredFrame DEF Answer
<1> HIDE DEF g
<1>8. Results(g)
  BY <1>7 DEF Results, Answers, Answer
<1>9. CASE f.fn \in Quiet
  <2>1. g.todo \in Ending
    BY <1>5, <1>7, <1>9 DEF Answers
  <2>2. OnPath(g.fn, g.todo)
    BY <2>1, EndingApart DEF OnPath
  <2>3. Judged(g)
    BY <1>2, <1>7, <1>9, Shapes DEF Judged, Answers, Answer
  <2>4. g \in Sound
    BY <1>2, <1>7, <1>8, <2>1, <2>2, <2>3, EndingApart DEF Sound, Answers
  <2> QED
    BY <1>5, <1>7, <2>4 DEF g
<1>10. CASE f.fn \notin Quiet
  <2>1. g.todo \in After
    BY <1>6, <1>7, <1>10 DEF Answers
  <2>2. OnPath(g.fn, g.todo)
    BY <1>3, <1>4, <1>7, <1>10, <2>1, AfterApart DEF OnPath, Answers
  <2>3. g \in Sound
    BY <1>2, <1>7, <1>8, <2>1, <2>2, AfterApart DEF Sound, Answers
  <2> QED
    BY <1>5, <1>7, <2>3 DEF g
<1> QED
  BY <1>9, <1>10

Natively ==
  \/ \E e \in ErrnoValues : NativeSucceeds(e)
  \/ \E e \in Errnos : NativeFails(e)
  \/ NativeSucceedsWithSentinel \/ NativeFailsSilently

LEMMA AtNative ==
  ASSUME IInv, Natively
  PROVE  /\ At("native") /\ calls # <<>> /\ Top \in Sound /\ Top \in Frames
         /\ Head(Top.todo) = "native" /\ Top.todo # <<>> /\ Top.todo \in Before
         /\ errno' \in ErrnoValues
<1>1. At("native")
  BY DEF Natively, NativeSucceeds, NativeFails, NativeSucceedsWithSentinel, NativeFailsSilently
<1>2. calls # <<>> /\ Top \in Sound /\ Top \in Frames /\ Head(Top.todo) = "native" /\ Top.todo # <<>>
  BY <1>1, TopSound
<1>3. Top.todo \in Before
  BY <1>2, StepsAfter, StepsEnding DEF Frames
<1>4. errno' \in ErrnoValues
  BY DEF Natively, NativeSucceeds, NativeFails, NativeSucceedsWithSentinel, NativeFailsSilently,
     IInv, ErrnoValues
<1> QED
  BY <1>1, <1>2, <1>3, <1>4

(* The four native steps are answers, and Raises finds the truth in them.  *)
LEMMA NativeAnswers ==
  ASSUME IInv, Natively
  PROVE  \E r, truth :
           /\ Answer(Top.fn, r, truth) /\ Becomes(Answered(Top, r, truth))
           /\ r = Sentinel /\ truth = None => Top.fn \in GoodSentinels /\ errno' = errno
           /\ truth \in Errnos /\ Top.fn \notin Codes => r = Sentinel /\ errno' = truth
           /\ truth = Silent => errno' = errno
<1>1. /\ Top \in Sound /\ Top \in Frames /\ Top.todo \in Before
  BY AtNative
<1>2. Top.ret = OK /\ Top.truth = None
  BY <1>1 DEF Sound
<1>3. OK # Sentinel /\ None # Silent /\ None \notin Errnos /\ Silent \notin Errnos
      /\ OK \notin Errnos /\ Sentinel \notin Errnos
  BY ErrnosAssumption DEF OK, Sentinel, None, Silent
<1>4. ASSUME NEW e \in ErrnoValues, NativeSucceeds(e)
      PROVE  Answer(Top.fn, OK, None) /\ Becomes(Answered(Top, OK, None))
  <2>1. [Top EXCEPT !.native = TRUE] = [Top EXCEPT !.ret = OK, !.truth = None, !.native = TRUE]
    BY <1>1, <1>2 DEF Frames
  <2>2. Becomes(Answered(Top, OK, None))
    BY <1>4, <2>1 DEF NativeSucceeds, Answered
  <2> QED
    BY <1>3, <2>2 DEF Answer
<1>5. ASSUME NEW e \in Errnos, NativeFails(e)
      PROVE  \E r : /\ Answer(Top.fn, r, e) /\ Becomes(Answered(Top, r, e))
                    /\ Top.fn \notin Codes => r = Sentinel /\ errno' = e
  <2>1. Top.fn \notin Quiet /\ e \in Declared[Top.fn] /\ e \notin {OK, Sentinel, None, Silent}
    BY <1>5, ErrorNumbers DEF NativeFails
  <2>2. CASE Top.fn \in Codes
    <3>1. Becomes(Answered(Top, e, e))
      BY <1>5, <2>2 DEF NativeFails, Answered
    <3>2. Answer(Top.fn, e, e)
      BY <2>1, <2>2 DEF Answer
    <3> QED
      BY <2>2, <3>1, <3>2
  <2>3. CASE Top.fn \notin Codes
    <3>1. Becomes(Answered(Top, Sentinel, e)) /\ errno' = e
      BY <1>5, <2>3 DEF NativeFails, Answered
    <3>2. Answer(Top.fn, Sentinel, e)
      BY <2>1, <2>3 DEF Answer
    <3> QED
      BY <3>1, <3>2
  <2> QED
    BY <2>2, <2>3
<1>6. ASSUME NativeSucceedsWithSentinel
      PROVE  /\ Answer(Top.fn, Sentinel, None) /\ Becomes(Answered(Top, Sentinel, None))
             /\ Top.fn \in GoodSentinels /\ errno' = errno
  <2>1. [Top EXCEPT !.ret = Sentinel, !.native = TRUE]
          = [Top EXCEPT !.ret = Sentinel, !.truth = None, !.native = TRUE]
    BY <1>1, <1>2 DEF Frames
  <2>2. Becomes(Answered(Top, Sentinel, None)) /\ Top.fn \in GoodSentinels /\ errno' = errno
    BY <1>6, <2>1 DEF NativeSucceedsWithSentinel, Answered
  <2>3. Answer(Top.fn, Sentinel, None)
    BY <1>3, <2>2, Goods DEF Answer
  <2> QED
    BY <2>2, <2>3
<1>7. ASSUME NativeFailsSilently
      PROVE  /\ Answer(Top.fn, Sentinel, Silent) /\ Becomes(Answered(Top, Sentinel, Silent))
             /\ errno' = errno
  <2>1. Becomes(Answered(Top, Sentinel, Silent)) /\ Top.fn \in StdioCalls /\ errno' = errno
    BY <1>7 DEF NativeFailsSilently, Answered
  <2>2. Answer(Top.fn, Sentinel, Silent)
    BY <1>3, <2>1, Shapes DEF Answer
  <2> QED
    BY <2>1, <2>2
<1> QED
  BY <1>3, <1>4, <1>5, <1>6, <1>7 DEF Natively

LEMMA StepNative ==
  ASSUME IInv, Natively
  PROVE  IInv'
<1>1. PICK r, truth : Answer(Top.fn, r, truth) /\ Becomes(Answered(Top, r, truth))
  BY NativeAnswers
<1>2. Answered(Top, r, truth) \in Sound
  BY <1>1, AtNative, AnsweredSound
<1> QED
  BY <1>1, <1>2, AtNative, InvBecomes

LEMMA StepJudge ==
  ASSUME IInv, Judge
  PROVE  IInv'
<1>1. /\ calls # <<>> /\ Top \in Sound /\ Top \in Frames /\ Head(Top.todo) = "judge"
      /\ Top.todo # <<>>
  BY TopSound DEF Judge
<1>2. Top.todo \in After /\ Tail(Top.todo) = <<"exit">> /\ Top.todo # KeepTodo
      /\ Top.todo = JudgeTodo
  BY <1>1, StepsBefore, StepsEnding, StepsAfter DEF Frames, KeepTodo
<1> DEFINE seen == IF Top.kept = None THEN errno ELSE Top.kept
           r    == Raises(Top.fn, Top.ret, seen)
           g    == Onward([Top EXCEPT !.raised = r])
<1>3. seen \in ErrnoValues /\ None \notin ErrnoValues /\ Top.native = TRUE
  <2>1. None \notin ErrnoValues
    BY ErrnosAssumption DEF ErrnoValues, None, Zero
  <2> QED
    BY <1>1, <1>2, <2>1 DEF Sound, Frames, IInv
<1>4. Becomes(g) /\ errno' \in ErrnoValues
  BY DEF Judge, IInv
<1> HIDE DEF seen
<1>5. stdio_error_code(seen) \in Errnos
  BY <1>3, ErrnosAssumption DEF stdio_error_code, ErrnoValues
<1>6. Results(Top) /\ Top.ret \in Errnos \cup {OK, Sentinel}
  BY <1>1 DEF Sound, Frames
<1>7. Top.fn \in Codes => r = Top.truth
  BY <1>6 DEF Raises, Results
<1>8. Top.fn \in StdioCalls /\ Top.ret = Sentinel => r \in Errnos
  BY <1>5, Shapes DEF Raises
<1>9. Top.fn \notin Codes /\ Top.fn \notin Disambiguated /\ ~Misled(Top) =>
        (r = None <=> Top.truth = None)
  <2> SUFFICES ASSUME Top.fn \notin Codes, Top.fn \notin Disambiguated, ~Misled(Top)
               PROVE  r = None <=> Top.truth = None
    OBVIOUS
  <2>1. stdio_error_code(seen) # None /\ seen # None
    BY <1>3, <1>5 DEF ErrnoValues
  <2>2. r = None <=> Top.ret # Sentinel
    BY <2>1 DEF Raises
  <2>3. Top.ret = Sentinel <=> Top.truth # None
    BY <1>6 DEF Results, Misled, GoodSentinels
  <2> QED
    BY <2>2, <2>3
<1>10. r \in ErrnoValues \cup {None}
  <2>1. CASE Top.fn \in Codes
    <3>1. Top.ret \in Errnos \cup {OK}
      BY <1>6, <2>1 DEF Results
    <3> QED
      BY <2>1, <3>1 DEF Raises, ErrnoValues
  <2>2. CASE Top.fn \notin Codes
    BY <1>3, <1>5, <2>2 DEF Raises, ErrnoValues
  <2> QED
    BY <2>1, <2>2
<1> HIDE DEF r
<1>11. <<"exit">> \in Ending
  BY DEF Ending
<1>12. /\ g \in Frames /\ g.todo = <<"exit">> /\ g.fn = Top.fn /\ g.ret = Top.ret
       /\ g.truth = Top.truth /\ g.raised = r /\ g.kept = Top.kept /\ g.native = Top.native
  BY <1>1, <1>2, <1>10, <1>11 DEF Onward, Frames
<1> HIDE DEF g
<1>13. Results(g)
  BY <1>6, <1>12 DEF Results
<1>14. Judged(g)
  BY <1>7, <1>8, <1>9, <1>12 DEF Judged, Misled
<1>15. OnPath(g.fn, g.todo)
  BY <1>11, <1>12, EndingApart DEF OnPath
<1>16. g \in Sound
  BY <1>1, <1>11, <1>12, <1>13, <1>14, <1>15, EndingApart DEF Sound
<1> QED
  BY <1>1, <1>4, <1>16, InvBecomes

LEMMA StepCall ==
  ASSUME IInv,
         \/ \E w \in Calls : Call(w)
         \/ \E w \in HandlerCalls : Interrupt(w)
  PROVE  IInv'
<1>1. PICK w \in Wrappers : Call(w) \/ Interrupt(w)
  BY CallsAssumption
<1>2. Frame(w) \in Sound
  BY <1>1, FrameSound DEF IInv
<1>3. errno' \in ErrnoValues
  BY <1>1 DEF Call, Interrupt, IInv
<1>4. CASE Call(w)
  <2>1. calls' \in Seq(Sound) /\ Len(calls') = 1
    BY <1>2, <1>4 DEF Call
  <2> QED
    BY <1>3, <2>1, NestingAssumption DEF IInv
<1>5. CASE Interrupt(w)
  <2>1. calls' \in Seq(Sound) /\ Len(calls') = Len(calls) + 1
    BY <1>2, <1>5, Pushed DEF Interrupt, IInv
  <2>2. Len(calls) \in Nat /\ Len(calls) < MaxNesting
    BY <1>5 DEF Interrupt, IInv
  <2> QED
    BY <1>3, <2>1, <2>2, NestingAssumption DEF IInv
<1> QED
  BY <1>1, <1>4, <1>5

LEMMA StepReturn ==
  ASSUME IInv, Return \/ NativeLeaves
  PROVE  IInv'
<1>1. calls # <<>>
  BY DEF Return, NativeLeaves, At
<1>2. Tail(calls) \in Seq(Sound) /\ Len(Tail(calls)) = Len(calls) - 1 /\ Top \in Frames
  BY <1>1, Popped DEF IInv, Top, Sound
<1>3. Len(calls) \in Nat
  BY DEF IInv
<1>4. CASE Return
  <2>1. errno' \in ErrnoValues
    BY <1>2, <1>4 DEF Return, IInv, Frames
  <2> QED
    BY <1>2, <1>3, <1>4, <2>1, NestingAssumption DEF Return, IInv
<1>5. CASE NativeLeaves
  BY <1>5, NestingAssumption DEF NativeLeaves, IInv
<1> QED
  BY <1>4, <1>5

LEMMA Invariance == Spec => []IInv
<1>1. Init => IInv
  BY NestingAssumption DEF Init, IInv
<1>2. IInv /\ [Next]_vars => IInv'
  <2> SUFFICES ASSUME IInv, [Next]_vars PROVE IInv'
    OBVIOUS
  <2>1. CASE UNCHANGED vars
    BY <2>1 DEF IInv, vars
  <2>2. CASE \E e \in Errnos : InjectFault(e)
    BY <2>2, StepFault
  <2>3. ASSUME NEW negative \in BOOLEAN, Reject(negative) PROVE IInv'
    <3>1. CASE negative = TRUE
      BY <2>3, <3>1, StepFault
    <3>2. CASE negative = FALSE
      BY <2>3, <3>2, StepMove
    <3> QED
      BY <3>1, <3>2
  <2>4. CASE NoFault \/ Hook \/ ZeroErrno \/ KeepErrno
    BY <2>4, StepMove
  <2>5. CASE Natively
    BY <2>5, StepNative
  <2>6. CASE Judge
    BY <2>6, StepJudge
  <2>7. CASE (\E w \in Calls : Call(w)) \/ (\E w \in HandlerCalls : Interrupt(w))
    BY <2>7, StepCall
  <2>8. CASE Return \/ NativeLeaves
    BY <2>8, StepReturn
  <2> QED
    BY <2>1, <2>2, <2>3, <2>4, <2>5, <2>6, <2>7, <2>8 DEF Next, Natively
<1> QED
  BY <1>1, <1>2, PTL DEF Spec

(* Nobody's handlers change their manners. *)
LEMMA SameManners == [Next]_vars => manners' = manners
BY DEF Next, vars, Call, Interrupt, InjectFault, NoFault, Reject, Hook, ZeroErrno, KeepErrno,
       NativeLeaves, NativeSucceeds, NativeSucceedsWithSentinel, NativeFails,
       NativeFailsSilently, Judge, Return

-----------------------------------------------------------------------------
(* Every call in progress is one of the 63 wrappers with values of the     *)
(* right kinds, however deep the handlers nest.                            *)
THEOREM TypeCorrect == Spec => []TypeOK
<1> DEFINE Mannered == manners \in {"polite", "rude"}
<1>1. IInv /\ Mannered => TypeOK
  BY DEF IInv, TypeOK, Sound, Frames
<1>2. Init => Mannered
  BY DEF Init
<1>3. Mannered /\ [Next]_vars => Mannered'
  BY SameManners
<1> HIDE DEF Mannered
<1> QED
  BY <1>1, <1>2, <1>3, Invariance, PTL DEF Spec

(* A wrapper whose native call returns its error number (the posix_spawn   *)
(* family, sigwait) raises that error, whatever handlers and hooks have    *)
(* done to errno.                                                          *)
THEOREM CodesNeedNoErrno == Spec => []CodesAreImmune
<1>1. IInv => CodesAreImmune
  BY DEF IInv, CodesAreImmune, Finished, Sound, Judged, Ending
<1> QED
  BY <1>1, Invariance, PTL

(* A popen or pclose that fails raises some error, whatever handlers and   *)
(* hooks have done to errno.                                               *)
THEOREM StdioRaisesSomething == Spec => []StdioNeverRaisesZero
<1>1. IInv => StdioNeverRaisesZero
  BY DEF IInv, StdioNeverRaisesZero, Finished, Sound, Judged, Ending
<1> QED
  BY <1>1, Invariance, PTL

(* A wrapper raises an error exactly when its call failed or was turned    *)
(* down, whatever handlers and hooks have done to errno; the exceptions    *)
(* are the calls for which the sentinel is a good answer as well.          *)
THEOREM NoFailureIsHidden == Spec => []FailuresAreNoticed
<1>1. IInv => FailuresAreNoticed
  BY DEF IInv, FailuresAreNoticed, Finished, Sound, Judged, Ending
<1> QED
  BY <1>1, Invariance, PTL

-----------------------------------------------------------------------------
(* When handlers restore errno, every call in progress, and not only the   *)
(* innermost, will raise the truth: judged by the errno it will find when  *)
(* the handlers above it have returned.  A clock value taken for a failure *)
(* is exempt (Tells).  For a failure that set no errno it will raise what  *)
(* its hook left, or EIO (Fill).                                           *)
Tells(f) == f.truth # Silent /\ ~Misled(f)
Fill(f) == IF f.fn \in PopenCall \/ f.found = Zero THEN "EIO" ELSE f.found
Fits(f, seen) ==
  /\ f.todo \in Ending /\ Tells(f) => f.raised = f.truth
  /\ f.todo \in Ending /\ f.truth = Silent => f.raised = Fill(f)
  /\ f.todo \in After /\ Tells(f) =>
       Raises(f.fn, f.ret, IF f.kept = None THEN seen ELSE f.kept) = f.truth
  /\ f.todo \in After /\ f.truth = Silent /\ f.fn \in PopenCall => seen = Zero
  /\ f.todo = KeepTodo /\ f.truth = Silent => seen = f.found
  /\ f.todo \in {HookTodo, JudgeTodo} /\ f.truth = Silent /\ f.fn \notin PopenCall =>
       f.kept = f.found
  /\ f.todo = KeepTodo => f.kept = None
  /\ f.todo = HookTodo => f.kept # None
  /\ f.fn \in Plain /\ f.todo = NativeTodo => seen = Zero
  /\ f.fn \in PcloseCall /\ f.todo = NativeKeep => seen = f.found
  /\ f.todo \in Untouched => seen = f.found
  /\ f.todo = <<"exit">> /\ ~f.native => seen = f.found
Finds(i) == IF i = 1 THEN errno ELSE calls[i - 1].entry
AllFit == \A i \in 1..Len(calls) : Fits(calls[i], Finds(i))

LEMMA Todos ==
  /\ {JudgeTodo, HookTodo, KeepTodo} \subseteq After
  /\ JudgeTodo # HookTodo /\ JudgeTodo # KeepTodo /\ HookTodo # KeepTodo
  /\ {NativeTodo, NativeKeep} \subseteq Before
  /\ <<"exit">> \in Ending /\ <<>> \in Ending
  BY DEF After, Before, Ending, JudgeTodo, HookTodo, KeepTodo, NativeTodo, NativeKeep

LEMMA FitBecomes ==
  ASSUME IInv, AllFit, calls # <<>>, NEW g, Becomes(g), g.entry = Top.entry, Fits(g, errno')
  PROVE  AllFit'
<1>1. Tail(calls) \in Seq(Sound) /\ Len(Tail(calls)) = Len(calls) - 1 /\ Len(calls) \in Nat \ {0}
  BY Popped DEF IInv
<1>2. /\ Len(calls') = Len(calls) /\ calls'[1] = g
      /\ \A i \in 2..Len(calls) : calls'[i] = calls[i]
  BY <1>1 DEF Becomes, IInv
<1> SUFFICES ASSUME NEW i \in 1..Len(calls) PROVE Fits(calls'[i], Finds(i)')
  BY <1>2 DEF AllFit
<1>3. CASE i = 1
  BY <1>2, <1>3 DEF Finds
<1>4. CASE i # 1
  <2>1. calls'[i] = calls[i]
    BY <1>2, <1>4
  <2>2. calls'[i - 1].entry = calls[i - 1].entry
    <3>1. CASE i = 2
      BY <1>2, <3>1 DEF Top
    <3>2. CASE i # 2
      BY <1>1, <1>2, <1>4, <3>2
    <3> QED
      BY <3>1, <3>2
  <2>3. Finds(i)' = Finds(i)
    BY <1>4, <2>2 DEF Finds
  <2> QED
    BY <2>1, <2>3 DEF AllFit
<1> QED
  BY <1>3, <1>4

LEMMA TopFits ==
  ASSUME IInv, AllFit, calls # <<>>
  PROVE  Fits(Top, errno)
<1>1. 1 \in 1..Len(calls)
  BY Popped DEF IInv
<1> QED
  BY <1>1 DEF AllFit, Finds, Top

LEMMA FinishedFit ==
  ASSUME IInv, AllFit, NEW i \in Finished
  PROVE  Fits(calls[i], Finds(i)) /\ calls[i].todo \in Ending /\ calls[i] \in Sound
<1>1. i \in 1..Len(calls) /\ calls[i].todo = <<>> /\ calls[i] \in Sound
  BY DEF Finished, IInv
<1> QED
  BY <1>1, Todos DEF AllFit

(* A call that has not reached its native call. *)
LEMMA FitsEarly ==
  ASSUME NEW f, NEW seen, f.todo \in Before,
         f.fn \in Plain /\ f.todo = NativeTodo => seen = Zero,
         f.fn \in PcloseCall /\ f.todo = NativeKeep => seen = f.found,
         f.todo \in Untouched => seen = f.found
  PROVE  Fits(f, seen)
<1>1. f.todo \notin After /\ f.todo \notin Ending
  BY BeforeApart
<1> QED
  BY <1>1, Todos DEF Fits

(* A call that has been judged or turned down. *)
LEMMA FitsEnded ==
  ASSUME NEW f, NEW seen, f.todo \in Ending, Tells(f) => f.raised = f.truth,
         f.truth = Silent => f.raised = Fill(f),
         f.todo = <<"exit">> /\ ~f.native => seen = f.found
  PROVE  Fits(f, seen)
<1>1. f.todo \notin After /\ f.todo \notin Before /\ f.todo \notin Untouched
  BY EndingApart
<1> QED
  BY <1>1, Todos DEF Fits

LEMMA FitFault ==
  ASSUME IInv, AllFit,
         (\E e \in Errnos : InjectFault(e)) \/ Reject(TRUE)
  PROVE  AllFit'
<1>1. PICK r \in Errnos \cup {OK, Sentinel}, e \in Errnos :
        /\ At("fault") \/ At("reject")
        /\ errno' = errno /\ Becomes(EndedBy(Top, r, e))
  <2>1. ASSUME NEW e \in Errnos, InjectFault(e)
        PROVE  Becomes(EndedBy(Top, IF Top.fn \in Codes THEN e ELSE Sentinel, e))
    BY <2>1 DEF InjectFault, EndedBy
  <2>2. CASE Reject(TRUE)
    BY <2>2, ErrnosAssumption DEF Reject, EndedBy
  <2> QED
    BY <2>1, <2>2 DEF InjectFault
<1>2. /\ calls # <<>> /\ Top \in Frames /\ Top.todo # <<>>
      /\ Head(Top.todo) \in {"fault", "reject"}
  BY <1>1, TopSound
<1> DEFINE g == EndedBy(Top, r, e)
<1>3. Shows(g, Top, r, e)
  BY <1>2, EndedFrame
<1> HIDE DEF g
<1>4. Top.todo \in Untouched
  <2>1. Top.todo \in Before
    BY <1>2, StepsAfter, StepsEnding DEF Frames
  <2> QED
    BY <1>2, <2>1, StepsBefore
<1>5. errno' = g.found
  BY <1>1, <1>2, <1>3, <1>4, TopFits DEF Fits, Shows
<1>6. Fits(g, errno')
  BY <1>3, <1>5, Todos, ErrorNumbers, FitsEnded DEF Shows
<1> QED
  BY <1>1, <1>2, <1>3, <1>6, FitBecomes DEF g, Shows

LEMMA FitMove ==
  ASSUME IInv, AllFit, NoFault \/ Hook \/ ZeroErrno \/ KeepErrno \/ Reject(FALSE)
  PROVE  AllFit'
<1>1. PICK step \in {"fault", "reject", "zero", "trace", "hook", "exit", "keep"},
           k \in ErrnoValues \cup {None}, n \in ErrnoValues :
        /\ At(step) /\ Becomes(Moved(Top, k, n)) /\ errno' \in ErrnoValues
        /\ k = IF step = "keep" THEN errno ELSE Top.kept
        /\ n = IF step \in {"trace", "hook", "exit"} /\ ~Top.native THEN errno' ELSE Top.found
        /\ step = "zero" => errno' = Zero
        /\ step \in {"fault", "reject", "keep"} => errno' = errno
  BY Moves
<1>2. /\ calls # <<>> /\ Top \in Sound /\ Top \in Frames /\ Head(Top.todo) = step
      /\ Top.todo # <<>> /\ Fits(Top, errno)
  BY <1>1, TopSound, TopFits
<1> DEFINE g == Moved(Top, k, n)
<1>3. Follows(g, Top, k, n)
  BY <1>1, <1>2, MovedSound
<1> HIDE DEF g
<1> SUFFICES Fits(g, errno')
  BY <1>1, <1>2, <1>3, FitBecomes DEF g, Follows
<1>4. OnPath(Top.fn, Top.todo) /\ Results(Top)
  BY <1>2 DEF Sound
<1>5. CASE Top.todo \in Before
  <2>1. ~Top.native /\ g.todo \in Before /\ step # "keep"
    BY <1>1, <1>2, <1>3, <1>5, StepsBefore DEF Follows, Sound
  <2>2. g.fn \in Plain /\ g.todo = NativeTodo => errno' = Zero
    BY <1>1, <1>2, <1>3, <1>4, PlainSteps DEF Follows, OnPath
  <2>3. g.fn \in PcloseCall /\ g.todo = NativeKeep => errno' = g.found
    BY <1>1, <1>2, <1>3, <1>4, <2>1, PcloseSteps DEF Follows, OnPath
  <2>4. g.todo \in Untouched => errno' = g.found
    <3>1. CASE step \in {"fault", "reject"}
      <4>1. Top.todo \in Untouched
        BY <1>2, <1>5, <3>1, StepsBefore
      <4> QED
        BY <1>1, <1>2, <1>3, <3>1, <4>1 DEF Fits, Follows
    <3>2. CASE step = "trace"
      BY <1>1, <1>3, <2>1, <3>2 DEF Follows
    <3>3. CASE step \in {"hook", "zero", "exit"}
      BY <1>2, <1>3, <1>5, <3>3, StepsBefore DEF Follows
    <3> QED
      BY <2>1, <3>1, <3>2, <3>3
  <2> QED
    BY <2>1, <2>2, <2>3, <2>4, FitsEarly
<1>6. CASE Top.todo \in After
  <2>1. Top.native /\ n = Top.found
    BY <1>1, <1>2, <1>6 DEF Sound
  <2>2. Top.fn \notin PopenCall
    <3>1. Top.todo \in {HookTodo, KeepTodo}
      BY <1>1, <1>2, <1>6, StepsAfter
    <3>2. Top.todo \notin PlainTodos
      BY <3>1 DEF PlainTodos, HookTodo, KeepTodo
    <3> QED
      BY <1>4, <3>2, Shapes DEF OnPath
  <2>3. CASE step = "keep"
    <3>1. Top.todo = KeepTodo /\ g.todo = HookTodo /\ k = errno
      BY <1>1, <1>2, <1>3, <1>6, <2>3, StepsAfter DEF Follows
    <3>2. g.todo \in After /\ g.todo \notin Ending /\ g.todo \notin Before
          /\ g.todo \notin Untouched
      BY <3>1, Todos, AfterApart
    <3>3. k # None
      BY <3>1, ErrnosAssumption DEF IInv, ErrnoValues, None, Zero
    <3>4. Tells(g) => Raises(g.fn, g.ret, g.kept) = g.truth
      BY <1>2, <1>3, <1>6, <3>1 DEF Fits, Tells, Misled, Follows
    <3>5. g.truth = Silent => g.kept = g.found
      BY <1>2, <1>3, <2>1, <3>1 DEF Fits, Follows
    <3> QED
      BY <1>3, <2>2, <3>1, <3>2, <3>3, <3>4, <3>5, Todos DEF Fits, Follows
  <2>4. CASE step # "keep"
    <3>1. Top.todo = HookTodo /\ g.todo = JudgeTodo /\ k = Top.kept
      BY <1>1, <1>2, <1>3, <1>6, <2>4, StepsAfter DEF Follows
    <3>2. g.todo \in After /\ g.todo \notin Ending /\ g.todo \notin Before
          /\ g.todo \notin Untouched
      BY <3>1, Todos, AfterApart
    <3>3. k # None
      BY <1>2, <3>1 DEF Fits
    <3>4. Tells(g) => Raises(g.fn, g.ret, g.kept) = g.truth
      BY <1>2, <1>3, <1>6, <3>1, <3>3 DEF Fits, Tells, Misled, Follows
    <3>5. g.truth = Silent => g.kept = g.found
      BY <1>2, <1>3, <2>1, <2>2, <3>1 DEF Fits, Follows
    <3> QED
      BY <1>3, <2>2, <3>1, <3>2, <3>3, <3>4, <3>5, Todos DEF Fits, Follows
  <2> QED
    BY <2>3, <2>4
<1>7. CASE Top.todo \in Ending
  <2>1. g.todo = <<>> /\ g.todo # <<"exit">>
    BY <1>2, <1>3, <1>7, StepsEnding DEF Follows
  <2>2. Tells(g) => g.raised = g.truth
    BY <1>2, <1>3, <1>7 DEF Fits, Tells, Misled, Follows
  <2>3. g.truth = Silent => g.raised = Fill(g)
    <3> SUFFICES ASSUME g.truth = Silent PROVE g.raised = Fill(g)
      OBVIOUS
    <3>1. Top.native /\ n = Top.found
      BY <1>1, <1>3, <1>4 DEF Follows, Results
    <3>2. Top.raised = Fill(Top)
      BY <1>2, <1>3, <1>7 DEF Fits, Follows
    <3> QED
      BY <1>3, <3>1, <3>2 DEF Fill, Follows
  <2> QED
    BY <2>1, <2>2, <2>3, Todos, FitsEnded
<1> QED
  BY <1>2, <1>5, <1>6, <1>7 DEF Frames

LEMMA FitJudge ==
  ASSUME IInv, AllFit, Judge
  PROVE  AllFit'
<1>1. /\ calls # <<>> /\ Top \in Sound /\ Top \in Frames /\ Head(Top.todo) = "judge"
      /\ Top.todo # <<>> /\ Fits(Top, errno)
  BY TopSound, TopFits DEF Judge
<1>2. Top.todo \in After /\ Tail(Top.todo) = <<"exit">> /\ Top.todo = JudgeTodo
  BY <1>1, StepsBefore, StepsEnding, StepsAfter DEF Frames
<1> DEFINE seen == IF Top.kept = None THEN errno ELSE Top.kept
           r    == Raises(Top.fn, Top.ret, seen)
           g    == Onward([Top EXCEPT !.raised = r])
<1>3. Top.native /\ (Tells(Top) => r = Top.truth)
  BY <1>1, <1>2 DEF Fits, Sound
<1>4. Becomes(g)
  BY DEF Judge
<1>5. Top.truth = Silent => r = Fill(Top)
  <2> SUFFICES ASSUME Top.truth = Silent PROVE r = Fill(Top)
    OBVIOUS
  <2>1. Top.fn \in StdioCalls /\ Top.ret = Sentinel
    BY <1>1 DEF Sound, Results
  <2>2. r = stdio_error_code(seen)
    BY <2>1, Shapes DEF Raises
  <2>3. CASE Top.fn \in PopenCall
    <3>1. Top.kept = None /\ errno = Zero
      BY <1>1, <1>2, <2>3, Shapes DEF Fits, Sound
    <3> QED
      BY <2>2, <2>3, <3>1 DEF stdio_error_code, Fill
  <2>4. CASE Top.fn \notin PopenCall
    <3>1. Top.kept = Top.found /\ Top.found # None
      BY <1>1, <1>2, <2>4, ErrnosAssumption DEF Fits, Frames, ErrnoValues, None, Zero
    <3> QED
      BY <2>2, <2>4, <3>1 DEF stdio_error_code, Fill
  <2> QED
    BY <2>3, <2>4
<1> HIDE DEF r
<1>6. /\ g.todo = <<"exit">> /\ g.entry = Top.entry /\ g.raised = r /\ g.truth = Top.truth
      /\ g.native = Top.native /\ g.fn = Top.fn /\ g.found = Top.found /\ g.ret = Top.ret
  BY <1>1, <1>2 DEF Onward, Frames
<1> HIDE DEF g
<1>7. Fits(g, errno')
  BY <1>3, <1>5, <1>6, Todos, FitsEnded DEF Tells, Misled, Fill
<1> QED
  BY <1>1, <1>4, <1>6, <1>7, FitBecomes

(* The native call: Raises finds the truth in what it leaves behind. *)
LEMMA AnswerRaised ==
  ASSUME NEW w, NEW r, NEW truth, NEW seen, Answer(w, r, truth),
         ~(w \in TimesCall /\ r = Sentinel /\ truth = None),
         truth # Silent,
         r = Sentinel /\ truth = None => w \in GoodSentinels /\ seen = Zero,
         truth \in Errnos /\ w \notin Codes => r = Sentinel /\ seen = truth
  PROVE  Raises(w, r, seen) = truth
<1>1. CASE w \in Codes
  BY <1>1 DEF Answer, Raises
<1>2. CASE w \notin Codes /\ truth = None
  <2>1. r # Sentinel \/ (w \in Disambiguated /\ seen = Zero)
    BY <1>2 DEF GoodSentinels
  <2> QED
    BY <1>2, <2>1 DEF Raises
<1>3. CASE w \notin Codes /\ truth \in Errnos
  <2>1. r = Sentinel /\ seen = truth /\ seen # Zero
    BY <1>3, ErrorNumbers
  <2> QED
    BY <1>3, <2>1 DEF Raises, stdio_error_code
<1> QED
  BY <1>1, <1>2, <1>3 DEF Answer

LEMMA FitNative ==
  ASSUME IInv, AllFit, Natively
  PROVE  AllFit'
<1>1. PICK r, truth :
        /\ Answer(Top.fn, r, truth) /\ Becomes(Answered(Top, r, truth))
        /\ r = Sentinel /\ truth = None => Top.fn \in GoodSentinels /\ errno' = errno
        /\ truth \in Errnos /\ Top.fn \notin Codes => r = Sentinel /\ errno' = truth
        /\ truth = Silent => errno' = errno
  BY NativeAnswers
<1>2. /\ calls # <<>> /\ Top \in Sound /\ Top \in Frames /\ Top.todo \in Before
      /\ Head(Top.todo) = "native" /\ Top.todo # <<>> /\ Fits(Top, errno)
  BY AtNative, TopFits
<1>3. OnPath(Top.fn, Top.todo) /\ Top.kept = None /\ Top.raised = None
  BY <1>2 DEF Sound
<1> DEFINE g == Answered(Top, r, truth)
<1>4. /\ Answers(g, Top, r, truth)
      /\ Top.fn \in Quiet => Tail(Top.todo) \in Ending
      /\ Top.fn \notin Quiet => Tail(Top.todo) \in {JudgeTodo, KeepTodo}
  BY <1>1, <1>2, AnsweredSound
<1> HIDE DEF g
<1> SUFFICES Fits(g, errno')
  BY <1>1, <1>2, <1>4, FitBecomes DEF g, Answers
<1>5. Top.fn \in Plain => Top.todo = NativeTodo /\ Tail(Top.todo) = JudgeTodo /\ errno = Zero
  BY <1>2, <1>3, PlainSteps DEF OnPath, Fits
<1>6. Top.fn \in PcloseCall => Tail(Top.todo) = KeepTodo /\ errno = Top.found
  BY <1>2, <1>3, PcloseSteps DEF OnPath, Fits
<1>7. CASE Top.fn \in Quiet
  <2>1. g.todo \in Ending /\ g.truth = None /\ g.raised = None /\ g.native
    BY <1>1, <1>3, <1>4, <1>7 DEF Answer, Answers
  <2> QED
    BY <2>1, FitsEnded DEF None, Silent
<1>8. CASE Top.fn \notin Quiet
  <2>1. g.todo \in {JudgeTodo, KeepTodo}
    BY <1>4, <1>8 DEF Answers
  <2>2. g.todo \in After /\ g.todo \notin Ending /\ g.todo \notin Before
        /\ g.todo \notin Untouched /\ g.todo # HookTodo
    BY <2>1, Todos, AfterApart
  <2>3. Tells(g) => Raises(g.fn, g.ret, errno') = g.truth
    <3>1. r = Sentinel /\ truth = None => Top.fn \in GoodSentinels /\ errno' = Zero
      BY <1>1, <1>5, Goods
    <3> QED
      BY <1>1, <1>4, <3>1, AnswerRaised DEF Answers, Tells, Misled
  <2>4. g.truth = Silent => g.fn \in StdioCalls /\ errno' = errno
    BY <1>1, <1>4 DEF Answers, Answer
  <2>5. g.truth = Silent /\ g.fn \in PopenCall => g.todo = JudgeTodo /\ errno' = Zero
    BY <1>4, <1>5, <2>4, Shapes DEF Answers
  <2>6. g.truth = Silent /\ g.fn \notin PopenCall => g.todo = KeepTodo /\ errno' = g.found
    BY <1>4, <1>6, <2>4, Shapes DEF Answers
  <2>7. g.kept = None
    BY <1>3, <1>4 DEF Answers
  <2> QED
    BY <2>1, <2>2, <2>3, <2>5, <2>6, <2>7, Todos DEF Fits
<1> QED
  BY <1>7, <1>8

(* A handler's call stands on what it interrupted, and leaves it alone. *)
LEMMA FitCall ==
  ASSUME IInv, AllFit,
         \/ \E w \in Calls : Call(w)
         \/ \E w \in HandlerCalls : Interrupt(w)
  PROVE  AllFit'
<1>1. PICK w \in Wrappers : Call(w) \/ Interrupt(w)
  BY CallsAssumption
<1> DEFINE g == Frame(w)
<1>2. calls' = <<g>> \o calls /\ errno' = errno
  <2>1. g \in Sound
    BY FrameSound DEF IInv
  <2> HIDE DEF g
  <2>2. CASE Call(w)
    <3>1. calls = <<>> /\ calls' = <<g>> /\ errno' = errno
      BY <2>2 DEF Call, g
    <3> QED
      BY <2>1, <3>1
  <2>3. CASE Interrupt(w)
    BY <2>3 DEF Interrupt, g
  <2> QED
    BY <1>1, <2>2, <2>3
<1>3. g.todo = Path(w) /\ (calls # <<>> => g.entry = errno) /\ g.fn = w /\ g.found = errno
  BY DEF Frame
<1> HIDE DEF g
<1>4. Fits(g, errno)
  <2>1. g.todo \in Before
    BY <1>3, Paths
  <2>2. g.fn \in Plain => g.todo # NativeTodo
    BY <1>3, Shapes DEF NativeTodo, PlainPath
  <2> QED
    BY <1>3, <2>1, <2>2, FitsEarly
<1>5. /\ Len(calls) \in Nat /\ Len(calls') = Len(calls) + 1 /\ calls'[1] = g
      /\ \A i \in 2..Len(calls) + 1 : calls'[i] = calls[i - 1]
  BY <1>2 DEF IInv
<1> SUFFICES ASSUME NEW i \in 1..Len(calls) + 1 PROVE Fits(calls'[i], Finds(i)')
  BY <1>5 DEF AllFit
<1>6. CASE i = 1
  BY <1>2, <1>4, <1>5, <1>6 DEF Finds
<1>7. CASE i # 1
  <2>1. calls'[i] = calls[i - 1] /\ i - 1 \in 1..Len(calls)
    BY <1>5, <1>7
  <2>2. Finds(i)' = Finds(i - 1)
    <3>1. CASE i = 2
      <4>1. calls # <<>>
        BY <1>5, <2>1
      <4> QED
        BY <1>3, <1>5, <3>1, <4>1 DEF Finds
    <3>2. CASE i # 2
      <4>1. calls'[i - 1] = calls[i - 2]
        BY <1>5, <1>7, <3>2
      <4> QED
        BY <1>7, <3>2, <4>1 DEF Finds
    <3> QED
      BY <3>1, <3>2
  <2> QED
    BY <2>1, <2>2 DEF AllFit
<1> QED
  BY <1>6, <1>7

LEMMA FitReturn ==
  ASSUME IInv, AllFit, manners = "polite", Return \/ NativeLeaves
  PROVE  AllFit'
<1>1. calls # <<>> /\ Len(calls) \in Nat \ {0}
  BY DEF Return, NativeLeaves, At, IInv
<1>2. CASE Return
  <2>1. /\ Len(calls') = Len(calls) - 1
        /\ \A i \in 1..Len(calls) - 1 : calls'[i] = calls[i + 1]
    BY <1>1, <1>2 DEF Return, IInv
  <2> SUFFICES ASSUME NEW i \in 1..Len(calls) - 1 PROVE Fits(calls'[i], Finds(i)')
    BY <2>1 DEF AllFit
  <2>2. calls'[i] = calls[i + 1] /\ i + 1 \in 1..Len(calls) /\ Len(calls) > 1
    BY <1>1, <2>1
  <2>3. Finds(i)' = Finds(i + 1)
    <3>1. CASE i = 1
      <4>1. errno' = calls[1].entry
        BY <1>1, <1>2, <2>2 DEF Return, Top
      <4> QED
        BY <2>2, <3>1, <4>1 DEF Finds
    <3>2. CASE i # 1
      <4>1. calls'[i - 1] = calls[i]
        BY <1>1, <2>1, <3>2
      <4> QED
        BY <3>2, <4>1 DEF Finds
    <3> QED
      BY <3>1, <3>2
  <2> QED
    BY <2>2, <2>3 DEF AllFit
<1>3. CASE NativeLeaves
  <2>1. Len(calls') = 0
    BY <1>3 DEF NativeLeaves
  <2> QED
    BY <2>1 DEF AllFit
<1> QED
  BY <1>2, <1>3

PoliteFit == manners = "polite" => AllFit

LEMMA AllFits == Spec => []PoliteFit
<1>1. Init => PoliteFit
  BY DEF Init, AllFit, PoliteFit
<1>2. IInv /\ PoliteFit /\ [Next]_vars => PoliteFit'
  <2> SUFFICES ASSUME IInv, AllFit, manners = "polite", [Next]_vars PROVE AllFit'
    BY SameManners DEF PoliteFit
  <2>1. CASE UNCHANGED vars
    BY <2>1 DEF AllFit, Finds, vars
  <2>2. CASE \E e \in Errnos : InjectFault(e)
    BY <2>2, FitFault
  <2>3. ASSUME NEW negative \in BOOLEAN, Reject(negative) PROVE AllFit'
    <3>1. CASE negative = TRUE
      BY <2>3, <3>1, FitFault
    <3>2. CASE negative = FALSE
      BY <2>3, <3>2, FitMove
    <3> QED
      BY <3>1, <3>2
  <2>4. CASE NoFault \/ Hook \/ ZeroErrno \/ KeepErrno
    BY <2>4, FitMove
  <2>5. CASE Natively
    BY <2>5, FitNative
  <2>6. CASE Judge
    BY <2>6, FitJudge
  <2>7. CASE (\E w \in Calls : Call(w)) \/ (\E w \in HandlerCalls : Interrupt(w))
    BY <2>7, FitCall
  <2>8. CASE Return \/ NativeLeaves
    BY <2>8, FitReturn
  <2> QED
    BY <2>1, <2>2, <2>3, <2>4, <2>5, <2>6, <2>7, <2>8 DEF Next, Natively
<1> QED
  BY <1>1, <1>2, Invariance, PTL DEF Spec

(* The error object tells the truth for every program whose handlers       *)
(* restore errno, whatever the hooks do to errno and however deep the      *)
(* handlers nest; but for times at the clock value (clock_t)-1.            *)
THEOREM ErrorsAreTrue == Spec => []RaisesTheTruth
<1>1. IInv /\ PoliteFit => RaisesTheTruth
  <2> SUFFICES ASSUME IInv, AllFit, NEW i \in Finished, Tells(calls[i])
               PROVE  calls[i].raised = calls[i].truth
    BY DEF RaisesTheTruth, PoliteFit, Tells
  <2>1. Fits(calls[i], Finds(i)) /\ calls[i].todo \in Ending
    BY FinishedFit
  <2> QED
    BY <2>1 DEF Fits
<1> QED
  BY <1>1, AllFits, Invariance, PTL

(* For a failure that set no errno popen raises EIO, and pclose what its   *)
(* release hook left in errno or EIO, if handlers restore errno.           *)
THEOREM SilenceIsTheHooks == Spec => []SilenceIsFilledIn
<1>1. IInv /\ PoliteFit => SilenceIsFilledIn
  BY FinishedFit DEF SilenceIsFilledIn, PoliteFit, Fits, Fill
<1> QED
  BY <1>1, AllFits, Invariance, PTL

(* Then a call turned down by the injector, or for its resource, comes to  *)
(* its way out with errno as the trace on its way in left it, whatever the *)
(* trace did and whoever interrupted the call between the two.             *)
THEOREM TurnedDownUnseen == Spec => []TurnedDownLeavesNoTrace
<1>1. IInv /\ PoliteFit => TurnedDownLeavesNoTrace
  BY TopFits DEF TurnedDownLeavesNoTrace, PoliteFit, Fits
<1> QED
  BY <1>1, AllFits, Invariance, PTL

(* Then a wrapper that made its native call raises an error which that     *)
(* call is not declared to fail with in two ways only, and runs            *)
(* calls_clock and calls_silent show them: (clock_t)-1 from times, and a   *)
(* popen or pclose whose native call failed without an errno.              *)
THEOREM TwoWaysToUndeclared == Spec => []UndeclaredAreKnown
<1>1. IInv /\ PoliteFit => UndeclaredAreKnown
  <2> SUFFICES ASSUME IInv, AllFit, NEW i \in Finished, Tells(calls[i]), calls[i].native
               PROVE  calls[i].raised \in Declared[calls[i].fn] \cup {None}
    <3>1. ASSUME NEW i \in Finished, calls[i].truth # Silent, ~Misled(calls[i])
          PROVE  Tells(calls[i])
      BY <3>1 DEF Tells
    <3> QED
      BY <3>1 DEF UndeclaredAreKnown, PoliteFit
  <2>1. Fits(calls[i], Finds(i)) /\ calls[i].todo \in Ending /\ calls[i] \in Sound
    BY FinishedFit
  <2>2. calls[i].raised = calls[i].truth
    BY <2>1 DEF Fits
  <2> QED
    BY <2>1, <2>2 DEF Sound, Results, Tells
<1> QED
  BY <1>1, AllFits, Invariance, PTL
=============================================================================
