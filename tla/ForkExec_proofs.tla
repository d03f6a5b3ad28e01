--------------------------- MODULE ForkExec_proofs ---------------------------
(***************************************************************************)
(* Theorems about ForkExec, for all processes, images, habits and bounds.  *)
(***************************************************************************)
EXTENDS ForkExec, FiniteSetTheorems, TLAPS

(* What the stacks of ForkExec need to know of sequences. *)
LEMMA Popped ==
  ASSUME NEW S, NEW s \in Seq(S), s # <<>>
  PROVE  /\ Head(s) \in S /\ Head(s) = s[1] /\ 1 \in DOMAIN s
         /\ Tail(s) \in Seq(S)
         /\ \A n \in DOMAIN Tail(s) : n + 1 \in DOMAIN s /\ Tail(s)[n] = s[n + 1]
  OBVIOUS

LEMMA Pushed ==
  ASSUME NEW S, NEW f \in S, NEW t \in Seq(S)
  PROVE  /\ <<f>> \o t \in Seq(S)
         /\ \A n \in DOMAIN (<<f>> \o t) :
              \/ (<<f>> \o t)[n] = f
              \/ n - 1 \in DOMAIN t /\ (<<f>> \o t)[n] = t[n - 1]
  OBVIOUS

(* A process at a place in a wrapper has the wrapper on its stack. *)
LEMMA AtTop ==
  ASSUME TypeOK, NEW p \in Processes, NEW op, NEW at, At(p, op, at)
  PROVE  /\ state[p] = "alive" /\ stack[p] \in Seq(Frames) /\ stack[p] # <<>>
         /\ Top(p) \in Frames /\ Rest(p) \in Seq(Frames)
         /\ Top(p).op = op /\ Top(p).at = at
  <1>1. stack[p] \in Seq(Frames) /\ stack[p] # <<>>
    BY DEF At, TypeOK
  <1> QED
    BY <1>1, Popped DEF At, Top, Rest

-----------------------------------------------------------------------------
(* The type invariant is inductive: each action at a time. *)
LEMMA TypeStray ==
  ASSUME TypeOK, NEW p \in Processes, Stray(p)
  PROVE  astray' \in [Processes -> SUBSET Astray]
  BY DEF TypeOK, Stray, Straying, Astray

LEMMA TypeLeave ==
  ASSUME TypeOK, NEW p \in Processes, state[p] = "alive", stack[p] # <<>>, Leave(p),
         UNCHANGED <<state, parent, image>>,
         forks' \subseteq Processes \X Processes, said' \in [Processes -> Seq(Images)]
  PROVE  TypeOK'
<1>1. Rest(p) \in Seq(Frames)
  BY Popped DEF Rest, TypeOK
<1>2. stack' \in [Processes -> Seq(Frames)] /\ stack' = [stack EXCEPT ![p] = Rest(p)]
  BY <1>1 DEF Leave, TypeOK
<1>3. open' \in [Processes -> Int]
  BY DEF Leave, TypeOK
<1>4. astray' \in [Processes -> SUBSET Astray]
  BY TypeStray DEF Leave
<1>5. \A q \in Processes : state'[q] # "alive" => stack'[q] = <<>>
  BY <1>2 DEF TypeOK
<1> QED
  BY <1>2, <1>3, <1>4, <1>5 DEF TypeOK

LEMMA TypeGoto ==
  ASSUME TypeOK, NEW p \in Processes, NEW f \in Frames, state[p] = "alive", stack[p] # <<>>,
         Goto(p, f), Stray(p), UNCHANGED <<state, parent, image, forks, open>>,
         said' \in [Processes -> Seq(Images)]
  PROVE  TypeOK'
<1>1. <<f>> \o Rest(p) \in Seq(Frames)
  BY Popped, Pushed DEF Rest, TypeOK
<1>2. stack' \in [Processes -> Seq(Frames)] /\ stack' = [stack EXCEPT ![p] = <<f>> \o Rest(p)]
  BY <1>1 DEF Goto, TypeOK
<1>3. astray' \in [Processes -> SUBSET Astray]
  BY TypeStray
<1>4. \A q \in Processes : state'[q] # "alive" => stack'[q] = <<>>
  BY <1>2 DEF TypeOK
<1> QED
  BY <1>2, <1>3, <1>4 DEF TypeOK

LEMMA FrameTypes ==
  ASSUME NEW f \in Frames, NEW i \in Images, NEW c \in Processes
  PROVE  /\ [f EXCEPT !.at = "failed"] \in Frames
         /\ [f EXCEPT !.at = "native", !.image = i] \in Frames
         /\ [f EXCEPT !.at = "report", !.child = c] \in Frames
  BY ProcessesAssumption DEF Frames

LEMMA InheritedType ==
  ASSUME NEW s \in Seq(Frames)
  PROVE  /\ Inherited(s) \in Seq(Frames)
         /\ \A n \in DOMAIN Inherited(s) : ~Inherited(s)[n].own
<1>1. \A n \in DOMAIN s : s[n] \in Frames
  OBVIOUS
<1>2. \A n \in DOMAIN s : Inherited(s)[n] \in Frames /\ ~Inherited(s)[n].own
  <2> SUFFICES ASSUME NEW n \in DOMAIN s
               PROVE  Inherited(s)[n] \in Frames /\ ~Inherited(s)[n].own
    OBVIOUS
  <2> DEFINE f == [s[n] EXCEPT !.own = FALSE, !.at = IF n = 1 THEN AfterFork(NoProcess) ELSE @]
  <2>1. Inherited(s)[n] = f
    BY DEF Inherited
  <2>2. f \in Frames /\ ~f.own
    BY <1>1 DEF Frames, AfterFork
  <2> QED
    BY <2>1, <2>2
<1>3. DOMAIN Inherited(s) = DOMAIN s
  BY DEF Inherited
<1>4. PICK m \in Nat : DOMAIN s = 1 .. m
  OBVIOUS
<1>5. Inherited(s) \in [1 .. m -> Frames]
  BY <1>2, <1>4 DEF Inherited
<1> QED
  BY <1>2, <1>3, <1>5

LEMMA TypeFork ==
  ASSUME TypeOK, NEW p \in Processes, NEW c \in Processes, Fork(p, c)
  PROVE  TypeOK'
<1>1. /\ stack[p] \in Seq(Frames) /\ Top(p) \in Frames /\ Rest(p) \in Seq(Frames)
      /\ state[p] = "alive"
  BY AtTop DEF Fork
<1>2. c # NoProcess
  BY ProcessesAssumption
<1>3. <<[Top(p) EXCEPT !.at = AfterFork(c), !.child = c]>> \o Rest(p) \in Seq(Frames)
  BY <1>1, <1>2, FrameTypes, Pushed, ProcessesAssumption DEF AfterFork
<1>4. Inherited(stack[p]) \in Seq(Frames)
  BY <1>1, InheritedType
<1>5. stack' \in [Processes -> Seq(Frames)]
  BY <1>3, <1>4 DEF Fork, TypeOK
<1>6. \A q \in Processes : state'[q] # "alive" => stack'[q] = <<>>
  BY <1>1 DEF Fork, TypeOK
<1>7. astray' \in [Processes -> SUBSET Astray]
  BY TypeStray DEF Fork
<1>8. said' \in [Processes -> Seq(Images)]
  BY DEF Fork, TypeOK
<1> QED
  BY <1>5, <1>6, <1>7, <1>8 DEF Fork, TypeOK

LEMMA TypeContinue ==
  ASSUME TypeOK, NEW p \in Processes, Continue(p)
  PROVE  TypeOK'
<1> DEFINE Standing == state[p] = "alive" /\ stack[p] # <<>> /\ Top(p) \in Frames
<1>1. CASE TurnedDown(p) \/ AfterForkChild(p)
  <2>1. Standing
    BY <1>1, AtTop DEF TurnedDown, AfterForkChild
  <2> QED
    BY <1>1, <2>1, TypeLeave DEF TurnedDown, AfterForkChild, TypeOK
<1>2. CASE Report(p)
  <2>1. Standing
    BY <1>2, AtTop DEF Report
  <2>2. Top(p).child \in Processes
    <3>1. Top(p).at = "report"
      BY <1>2 DEF Report, At
    <3> QED
      BY <2>1, <3>1 DEF Frames
  <2>3. forks' \subseteq Processes \X Processes
    BY <1>2, <2>2 DEF Report, Reporter, Records, TypeOK
  <2> QED
    BY <1>2, <2>1, <2>3, TypeLeave DEF Report, TypeOK
<1>3. ASSUME NEW c \in Processes, Fork(p, c) PROVE TypeOK'
  BY <1>3, TypeFork
<1>4. ASSUME NEW i \in Images, Announce(p, i) PROVE TypeOK'
  <2>1. Standing
    BY <1>4, AtTop DEF Announce
  <2>2. <<i>> \o said[p] \in Seq(Images)
    BY Pushed DEF TypeOK
  <2>3. said' \in [Processes -> Seq(Images)]
    BY <1>4, <2>2 DEF Announce, TypeOK
  <2> QED
    BY <1>4, <2>1, <2>3, FrameTypes, TypeGoto DEF Announce
<1>5. CASE Exec(p)
  <2>1. Standing
    BY <1>5, AtTop DEF Exec
  <2>2. Top(p).image \in Images
    BY <2>1 DEF Frames
  <2>3. astray' \in [Processes -> SUBSET Astray]
    BY <1>5 DEF Exec, TypeOK, Straying, Astray
  <2>4. stack' \in [Processes -> Seq(Frames)] /\ stack' = [stack EXCEPT ![p] = <<>>]
    BY <1>5 DEF Exec, TypeOK
  <2>5. Latest(said[p]) \in Seq(Images)
    BY DEF Latest, TypeOK
  <2>6. said' \in [Processes -> Seq(Images)]
    BY <1>5, <2>5 DEF Exec, TypeOK
  <2> QED
    BY <1>5, <2>2, <2>3, <2>4, <2>6 DEF Exec, TypeOK
<1>6. CASE ExecFails(p)
  <2>1. Standing
    BY <1>6, AtTop DEF ExecFails
  <2> QED
    BY <1>6, <2>1, FrameTypes, TypeGoto DEF ExecFails, TypeOK
<1>7. CASE TakeBack(p)
  <2>1. Standing
    BY <1>7, AtTop DEF TakeBack
  <2>2. TakenBack(said[p]) \in Seq(Images) /\ said' = [said EXCEPT ![p] = TakenBack(said[p])]
    BY <1>7, Popped DEF TakeBack, TakenBack, TypeOK
  <2>3. said' \in [Processes -> Seq(Images)]
    BY <1>7, <2>2 DEF TypeOK
  <2> QED
    BY <1>7, <2>1, <2>3, TypeLeave DEF TakeBack, TypeOK
<1> QED
  BY <1>1, <1>2, <1>3, <1>4, <1>5, <1>6, <1>7 DEF Continue

(* The type invariant, of the state p101_fork and the exec wrappers move.  *)
THEOREM TypeCorrect == Spec => []TypeOK
<1>1. Init => TypeOK
  BY ProcessesAssumption DEF Init, TypeOK
<1>2. TypeOK /\ [Next]_vars => TypeOK'
  <2> SUFFICES ASSUME TypeOK, [Next]_vars PROVE TypeOK'
    OBVIOUS
  <2>1. ASSUME NEW p \in Processes, NEW op \in {"fork", "exec"}, Enter(p, op) PROVE TypeOK'
    <3>1. Frame(op) \in Frames
      BY ProcessesAssumption DEF Frame, Frames
    <3>2. <<Frame(op)>> \o stack[p] \in Seq(Frames)
      BY <3>1, Pushed DEF TypeOK
    <3>3. /\ stack' \in [Processes -> Seq(Frames)]
          /\ \A q \in Processes : q # p => stack'[q] = stack[q]
      BY <2>1, <3>2 DEF Enter, TypeOK
    <3> QED
      BY <2>1, <3>3 DEF Enter, TypeOK
  <2>2. ASSUME NEW p \in Processes, Siglongjmp(p) PROVE TypeOK'
    BY <2>2 DEF Siglongjmp, TypeOK, Astray
  <2>3. ASSUME NEW p \in Processes, Exit(p) PROVE TypeOK'
    <3>1. <<Program>> \in Seq(Images)
      BY ProcessesAssumption
    <3>2. said' \in [Processes -> Seq(Images)] /\ open' \in [Processes -> Int]
      BY <2>3, <3>1 DEF Exit, TypeOK
    <3>3. /\ stack' \in [Processes -> Seq(Frames)]
          /\ \A q \in Processes : state'[q] # "alive" => stack'[q] = <<>>
      BY <2>3 DEF Exit, TypeOK
    <3>4. astray' \in [Processes -> SUBSET Astray]
      BY <2>3 DEF Exit, TypeOK
    <3> QED
      BY <2>3, <3>2, <3>3, <3>4, ProcessesAssumption DEF Exit, TypeOK
  <2>4. CASE UNCHANGED vars
    BY <2>4 DEF vars, TypeOK
  <2> QED
    BY <2>1, <2>2, <2>3, <2>4, TypeContinue DEF Next
<1> QED
  BY <1>1, <1>2, PTL DEF Spec

-----------------------------------------------------------------------------
(* The inductive invariant behind ForkRecordsTrue: a report that is owed   *)
(* by the process that called fork is owed about a child of its own, and   *)
(* only a process that is not yet born can be given a parent.              *)
UnbornHaveNoParent == \A c \in Processes : state[c] = "unborn" => parent[c] = NoProcess
Owes(p, frame) == frame.own /\ frame.at = "report" => parent[frame.child] = p
ReportsOwedAreTrue ==
  \A p \in Processes : \A n \in DOMAIN stack[p] : Owes(p, stack[p][n])
IInv == UnbornHaveNoParent /\ ReportsOwedAreTrue /\ ForkRecordsTrue

(* A step that pops, replaces or empties p's stack, and leaves parents     *)
(* alone, keeps the reports true.                                          *)
LEMMA OwedPop ==
  ASSUME TypeOK, ReportsOwedAreTrue, NEW p \in Processes, parent' = parent,
         stack' = [stack EXCEPT ![p] = Rest(p)], stack[p] # <<>>
  PROVE  ReportsOwedAreTrue'
<1>1. \A n \in DOMAIN stack'[p] : n + 1 \in DOMAIN stack[p] /\ stack'[p][n] = stack[p][n + 1]
  BY Popped DEF Rest, TypeOK
<1>2. \A q \in Processes : q # p => stack'[q] = stack[q]
  BY DEF TypeOK
<1> QED
  BY <1>1, <1>2 DEF ReportsOwedAreTrue, Owes

LEMMA OwedGoto ==
  ASSUME TypeOK, ReportsOwedAreTrue, NEW p \in Processes, parent' = parent,
         NEW f \in Frames, f.at # "report", stack[p] # <<>>, Goto(p, f)
  PROVE  ReportsOwedAreTrue'
<1>1. Rest(p) \in Seq(Frames)
  BY Popped DEF Rest, TypeOK
<1>2. \A n \in DOMAIN Rest(p) : Owes(p, Rest(p)[n])
  BY Popped DEF Rest, TypeOK, ReportsOwedAreTrue
<1>3. stack'[p] = <<f>> \o Rest(p) /\ \A q \in Processes : q # p => stack'[q] = stack[q]
  BY DEF Goto, TypeOK
<1>4. \A n \in DOMAIN stack'[p] : Owes(p, stack'[p][n])
  BY <1>1, <1>2, <1>3, Pushed DEF Owes
<1>5. \A q \in Processes : \A n \in DOMAIN stack'[q] : Owes(q, stack'[q][n])
  BY <1>3, <1>4 DEF ReportsOwedAreTrue
<1> QED
  BY <1>5 DEF ReportsOwedAreTrue, Owes

LEMMA OwedEmpty ==
  ASSUME TypeOK, ReportsOwedAreTrue, NEW p \in Processes, parent' = parent,
         stack' = [stack EXCEPT ![p] = <<>>]
  PROVE  ReportsOwedAreTrue'
  BY DEF TypeOK, ReportsOwedAreTrue, Owes

(* What has been recorded stays so: nobody's parent changes, and nobody    *)
(* who went astray comes back.                                             *)
LEMMA RecordsKept ==
  ASSUME TypeOK, ForkRecordsTrue, forks' = forks, parent' = parent,
         \A p \in Processes : "returned" \in astray[p] => "returned" \in astray'[p]
  PROVE  ForkRecordsTrue'
  BY DEF TypeOK, ForkRecordsTrue

LEMMA StrayKeeps ==
  ASSUME TypeOK, NEW p \in Processes, Stray(p)
  PROVE  \A q \in Processes : "returned" \in astray[q] => "returned" \in astray'[q]
  BY DEF TypeOK, Stray, Straying

LEMMA InvInit == Init => IInv
  BY DEF Init, IInv, UnbornHaveNoParent, ReportsOwedAreTrue, ForkRecordsTrue

LEMMA InvReport ==
  ASSUME TypeOK, IInv, NEW p \in Processes, Report(p)
  PROVE  IInv'
<1>1. /\ stack[p] # <<>> /\ Top(p) \in Frames /\ Top(p).at = "report"
      /\ Top(p) = stack[p][1] /\ 1 \in DOMAIN stack[p]
  BY AtTop, Popped DEF Report, Top, TypeOK
<1>2. /\ parent' = parent /\ state' = state /\ Stray(p)
      /\ stack' = [stack EXCEPT ![p] = Rest(p)]
      /\ forks' = forks \cup {<<p, Top(p).child>>}
  BY DEF Report, Leave, Reporter, Records
<1>3. UnbornHaveNoParent'
  BY <1>2 DEF IInv, UnbornHaveNoParent
<1>4. ReportsOwedAreTrue'
  BY <1>1, <1>2, OwedPop DEF IInv
<1>5. "returned" \in astray'[p] \/ parent[Top(p).child] = p
  <2>1. CASE Top(p).own
    BY <1>1, <2>1 DEF IInv, ReportsOwedAreTrue, Owes
  <2>2. CASE ~Top(p).own
    BY <1>1, <1>2, <2>2 DEF Stray, Straying, Strays, TypeOK
  <2> QED
    BY <2>1, <2>2
<1>6. ForkRecordsTrue'
  <2> SUFFICES ASSUME NEW record \in forks'
               PROVE  "returned" \in astray'[record[1]] \/ parent[record[2]] = record[1]
    BY <1>2 DEF ForkRecordsTrue
  <2>1. CASE record = <<p, Top(p).child>>
    BY <1>5, <2>1
  <2>2. CASE record \in forks
    <3>1. record[1] \in Processes
      BY <2>2 DEF TypeOK
    <3> QED
      BY <1>2, <2>2, <3>1, StrayKeeps DEF IInv, ForkRecordsTrue
  <2> QED
    BY <1>2, <2>1, <2>2
<1> QED
  BY <1>3, <1>4, <1>6 DEF IInv

LEMMA InvFork ==
  ASSUME TypeOK, IInv, NEW p \in Processes, NEW c \in Processes, Fork(p, c)
  PROVE  IInv'
<1>1. /\ stack[p] \in Seq(Frames) /\ stack[p] # <<>> /\ Top(p) \in Frames
      /\ Rest(p) \in Seq(Frames) /\ state[p] = "alive"
  BY AtTop DEF Fork
<1>2. c # p /\ parent[c] = NoProcess
  BY <1>1 DEF Fork, IInv, UnbornHaveNoParent
<1>3. /\ parent' = [parent EXCEPT ![c] = p]
      /\ state' = [state EXCEPT ![c] = "alive"]
      /\ forks' = forks /\ Stray(p)
  BY DEF Fork
<1>4. UnbornHaveNoParent'
  BY <1>3 DEF IInv, UnbornHaveNoParent, TypeOK
<1> DEFINE OwesThen(q, frame) == frame.own /\ frame.at = "report" => parent'[frame.child] = q
           f == [Top(p) EXCEPT !.at = AfterFork(c), !.child = c]
<1>5. ASSUME NEW q \in Processes, NEW frame, Owes(q, frame) PROVE OwesThen(q, frame)
  BY <1>2, <1>3, <1>5, ProcessesAssumption DEF Owes, TypeOK
<1>6. /\ stack'[p] = <<f>> \o Rest(p) /\ stack'[c] = Inherited(stack[p])
      /\ \A q \in Processes \ {p, c} : stack'[q] = stack[q]
  BY <1>2 DEF Fork, TypeOK
<1>7. f \in Frames /\ f.child = c
  BY <1>1, FrameTypes, ProcessesAssumption DEF AfterFork, Frames
<1>8. \A n \in DOMAIN stack'[p] : OwesThen(p, stack'[p][n])
  <2>1. parent'[c] = p
    BY <1>3 DEF TypeOK
  <2>2. OwesThen(p, f)
    BY <1>7, <2>1
  <2>3. \A n \in DOMAIN Rest(p) : OwesThen(p, Rest(p)[n])
    <3>1. \A n \in DOMAIN Rest(p) : Owes(p, Rest(p)[n])
      BY <1>1, Popped DEF Rest, IInv, ReportsOwedAreTrue
    <3> QED
      BY <1>5, <3>1
  <2> HIDE DEF f, OwesThen
  <2> QED
    BY <1>1, <1>6, <1>7, <2>2, <2>3, Pushed
<1>9. \A n \in DOMAIN stack'[c] : OwesThen(c, stack'[c][n])
  BY <1>1, <1>6, InheritedType
<1>10. ASSUME NEW q \in Processes \ {p, c}
       PROVE  \A n \in DOMAIN stack'[q] : OwesThen(q, stack'[q][n])
  <2>1. \A n \in DOMAIN stack[q] : Owes(q, stack[q][n])
    BY DEF IInv, ReportsOwedAreTrue
  <2> HIDE DEF OwesThen
  <2> QED
    BY <1>5, <1>6, <2>1
<1>11. ReportsOwedAreTrue'
  <2>1. \A q \in Processes : \A n \in DOMAIN stack'[q] : OwesThen(q, stack'[q][n])
    <3> HIDE DEF OwesThen
    <3> QED
      BY <1>8, <1>9, <1>10
  <2> QED
    BY <2>1 DEF ReportsOwedAreTrue, Owes
<1>12. ForkRecordsTrue'
  <2> SUFFICES ASSUME NEW record \in forks
               PROVE  "returned" \in astray'[record[1]] \/ parent'[record[2]] = record[1]
    BY <1>3 DEF ForkRecordsTrue
  <2>1. record[1] \in Processes /\ record[2] \in Processes
    BY DEF TypeOK
  <2>2. CASE "returned" \in astray[record[1]]
    BY <1>3, <2>1, <2>2, StrayKeeps
  <2>3. CASE parent[record[2]] = record[1]
    BY <1>2, <1>3, <2>1, <2>3, ProcessesAssumption DEF TypeOK
  <2> QED
    BY <2>2, <2>3 DEF IInv, ForkRecordsTrue
<1> QED
  BY <1>4, <1>11, <1>12 DEF IInv

(* Every other step of a wrapper. *)
LEMMA InvContinue ==
  ASSUME TypeOK, IInv, NEW p \in Processes, Continue(p)
  PROVE  IInv'
<1> DEFINE Quiet == parent' = parent /\ state' = state /\ forks' = forks
           Kept  == \A q \in Processes : "returned" \in astray[q] => "returned" \in astray'[q]
<1>1. ASSUME Quiet, Kept, ReportsOwedAreTrue' PROVE IInv'
  BY <1>1, RecordsKept DEF IInv, UnbornHaveNoParent
<1>2. CASE TurnedDown(p) \/ AfterForkChild(p) \/ TakeBack(p)
  <2>1. stack[p] # <<>>
    BY <1>2, AtTop DEF TurnedDown, AfterForkChild, TakeBack
  <2>2. Quiet /\ Stray(p) /\ stack' = [stack EXCEPT ![p] = Rest(p)]
    BY <1>2 DEF TurnedDown, AfterForkChild, TakeBack, Leave
  <2> QED
    BY <1>1, <2>1, <2>2, OwedPop, StrayKeeps DEF IInv
<1>3. CASE Report(p)
  BY <1>3, InvReport
<1>4. ASSUME NEW c \in Processes, Fork(p, c) PROVE IInv'
  BY <1>4, InvFork
<1>5. ASSUME NEW i \in Images, Announce(p, i) PROVE IInv'
  <2>1. stack[p] # <<>> /\ Top(p) \in Frames
    BY <1>5, AtTop DEF Announce
  <2> DEFINE f == [Top(p) EXCEPT !.at = "native", !.image = i]
  <2>2. f \in Frames /\ f.at # "report"
    BY <2>1, FrameTypes DEF Frames
  <2>3. Quiet /\ Stray(p) /\ Goto(p, f)
    BY <1>5 DEF Announce
  <2> QED
    BY <1>1, <2>1, <2>2, <2>3, OwedGoto, StrayKeeps DEF IInv
<1>6. CASE Exec(p)
  <2>1. Quiet /\ stack' = [stack EXCEPT ![p] = <<>>]
    BY <1>6 DEF Exec
  <2>2. Kept
    BY <1>6 DEF Exec, Straying, TypeOK
  <2> QED
    BY <1>1, <2>1, <2>2, OwedEmpty DEF IInv
<1>7. CASE ExecFails(p)
  <2>1. stack[p] # <<>> /\ Top(p) \in Frames
    BY <1>7, AtTop DEF ExecFails
  <2> DEFINE f == [Top(p) EXCEPT !.at = "failed"]
  <2>2. f \in Frames /\ f.at # "report"
    BY <2>1, FrameTypes DEF Frames
  <2>3. Quiet /\ Stray(p) /\ Goto(p, f)
    BY <1>7 DEF ExecFails
  <2> QED
    BY <1>1, <2>1, <2>2, <2>3, OwedGoto, StrayKeeps DEF IInv
<1> QED
  BY <1>2, <1>3, <1>4, <1>5, <1>6, <1>7 DEF Continue

LEMMA InvNext == TypeOK /\ IInv /\ [Next]_vars => IInv'
<1> SUFFICES ASSUME TypeOK, IInv, [Next]_vars PROVE IInv'
  OBVIOUS
<1>1. ASSUME NEW p \in Processes, NEW op \in {"fork", "exec"}, Enter(p, op) PROVE IInv'
  <2>1. Frame(op) \in Frames /\ Frame(op).at # "report"
    BY ProcessesAssumption DEF Frame, Frames
  <2>2. /\ stack'[p] = <<Frame(op)>> \o stack[p]
        /\ \A q \in Processes : q # p => stack'[q] = stack[q]
        /\ parent' = parent /\ state' = state /\ forks' = forks /\ astray' = astray
    BY <1>1 DEF Enter, TypeOK
  <2>3. \A n \in DOMAIN stack[p] : Owes(p, stack[p][n])
    BY DEF IInv, ReportsOwedAreTrue
  <2>4. stack[p] \in Seq(Frames)
    BY DEF TypeOK
  <2>5. \A n \in DOMAIN stack'[p] : Owes(p, stack'[p][n])
    BY <2>1, <2>2, <2>3, <2>4, Pushed DEF Owes
  <2>6. \A q \in Processes : \A n \in DOMAIN stack'[q] : Owes(q, stack'[q][n])
    BY <2>2, <2>5 DEF IInv, ReportsOwedAreTrue
  <2>7. ReportsOwedAreTrue'
    BY <2>2, <2>6 DEF ReportsOwedAreTrue, Owes
  <2> QED
    BY <2>2, <2>7, RecordsKept DEF IInv, UnbornHaveNoParent
<1>2. ASSUME NEW p \in Processes, Siglongjmp(p) PROVE IInv'
  <2>1. /\ parent' = parent /\ state' = state /\ forks' = forks
        /\ stack' = [stack EXCEPT ![p] = <<>>]
    BY <1>2 DEF Siglongjmp
  <2>2. \A q \in Processes : "returned" \in astray[q] => "returned" \in astray'[q]
    BY <1>2 DEF Siglongjmp, TypeOK
  <2> QED
    BY <2>1, <2>2, OwedEmpty, RecordsKept DEF IInv, UnbornHaveNoParent
<1>3. ASSUME NEW p \in Processes, Exit(p) PROVE IInv'
  <2>1. /\ parent' = parent /\ state' = [state EXCEPT ![p] = "gone"] /\ forks' = forks
        /\ stack' = [stack EXCEPT ![p] = <<>>]
    BY <1>3 DEF Exit
  <2>2. \A q \in Processes : "returned" \in astray[q] => "returned" \in astray'[q]
    BY <1>3 DEF Exit, TypeOK
  <2>3. UnbornHaveNoParent'
    BY <2>1 DEF IInv, UnbornHaveNoParent, TypeOK
  <2> QED
    BY <2>1, <2>2, <2>3, OwedEmpty, RecordsKept DEF IInv
<1>4. CASE UNCHANGED vars
  BY <1>4 DEF vars, IInv, UnbornHaveNoParent, ReportsOwedAreTrue, Owes, ForkRecordsTrue
<1> QED
  BY <1>1, <1>2, <1>3, <1>4, InvContinue DEF Next

(* ForkRecordsTrue, for the reports p101_fork makes in any processes that  *)
(* fork from the program or from handlers.                                 *)
THEOREM ForksRecordedTruly == Spec => []ForkRecordsTrue
<1>1. IInv => ForkRecordsTrue
  BY DEF IInv
<1> QED
  BY <1>1, TypeCorrect, InvInit, InvNext, PTL DEF Spec

-----------------------------------------------------------------------------
(* What is announced, counted from the innermost wrapper outwards. *)
LEMMA Shifted ==
  ASSUME NEW S, S \subseteq Nat, IsFiniteSet(S)
  PROVE  /\ IsFiniteSet({m + 1 : m \in S})
         /\ Cardinality({m + 1 : m \in S}) = Cardinality(S)
<1> DEFINE T == {m + 1 : m \in S}
           f == [m \in S |-> m + 1]
<1>1. f \in [S -> T] /\ (\A a, b \in S : f[a] = f[b] => a = b)
      /\ (\A t \in T : \E m \in S : f[m] = t)
  OBVIOUS
<1>2. f \in Bijection(S, T)
  BY <1>1 DEF Bijection, Injection, Surjection, IsInjective
<1>3. ExistsBijection(S, T)
  BY <1>2 DEF ExistsBijection
<1> QED
  BY <1>3, FS_Bijection

LEMMA Counted ==
  ASSUME NEW s, NEW n \in Nat
  PROVE  /\ IsFiniteSet({m \in 1 .. n : Announcing(s[m])})
         /\ Announced(s, n) \in Nat
         /\ (\A m \in 1 .. n : ~Announcing(s[m])) => Announced(s, n) = 0
<1>1. IsFiniteSet(1 .. n)
  BY FS_Interval
<1>2. IsFiniteSet({m \in 1 .. n : Announcing(s[m])})
  BY <1>1, FS_Subset
<1>3. Announced(s, n) \in Nat
  BY <1>2, FS_CardinalityType DEF Announced
<1>4. ASSUME \A m \in 1 .. n : ~Announcing(s[m]) PROVE Announced(s, n) = 0
  <2>1. {m \in 1 .. n : Announcing(s[m])} = {}
    BY <1>4
  <2> QED
    BY <2>1, FS_EmptySet DEF Announced
<1> QED
  BY <1>2, <1>3, <1>4

LEMMA CountIsNatural ==
  ASSUME NEW s, NEW n \in Nat
  PROVE  Announced(s, n) \in Nat
  BY Counted

LEMMA CountGrows ==
  ASSUME NEW s, NEW n \in Nat, NEW m \in 1 .. n, Announcing(s[m])
  PROVE  1 <= Announced(s, m) /\ Announced(s, m) <= Announced(s, n)
<1> DEFINE A(k) == {l \in 1 .. k : Announcing(s[l])}
<1>1. m \in Nat /\ IsFiniteSet(A(m)) /\ IsFiniteSet(A(n))
  BY Counted
<1>2. A(m) \subseteq A(n) /\ m \in A(m)
  OBVIOUS
<1>3. Announced(s, m) = Cardinality(A(m)) /\ Announced(s, n) = Cardinality(A(n))
  BY DEF Announced
<1>4. Announced(s, m) \in Nat
  BY <1>1, CountIsNatural
<1> HIDE DEF A
<1>5. Cardinality(A(m)) # 0
  BY <1>1, <1>2, FS_EmptySet
<1>6. Cardinality(A(m)) <= Cardinality(A(n))
  BY <1>1, <1>2, FS_Subset
<1> QED
  BY <1>3, <1>4, <1>5, <1>6

LEMMA CountedFromTail ==
  ASSUME NEW s \in Seq(Frames), s # <<>>, NEW n \in 0 .. Len(Tail(s))
  PROVE  Announced(s, n + 1) = Announced(Tail(s), n) + IF Announcing(s[1]) THEN 1 ELSE 0
<1> DEFINE S == {m \in 1 .. n : Announcing(Tail(s)[m])}
           T == {m + 1 : m \in S}
           U == {m \in 1 .. n + 1 : Announcing(s[m])}
<1>1. \A m \in 1 .. n : Tail(s)[m] = s[m + 1]
  OBVIOUS
<1>2. U = IF Announcing(s[1]) THEN T \cup {1} ELSE T
  <2>1. \A m \in T : m \in 2 .. n + 1 /\ Announcing(s[m])
    BY <1>1
  <2>2. \A m \in 2 .. n + 1 : Announcing(s[m]) => m \in T
    <3> SUFFICES ASSUME NEW m \in 2 .. n + 1, Announcing(s[m]) PROVE m \in T
      OBVIOUS
    <3>1. m - 1 \in S /\ m = (m - 1) + 1
      BY <1>1
    <3> QED
      BY <3>1
  <2>3. \A m \in U : m = 1 \/ m \in 2 .. n + 1
    OBVIOUS
  <2> HIDE DEF T
  <2> QED
    BY <2>1, <2>2, <2>3
<1>3. IsFiniteSet(S) /\ S \subseteq Nat
  <2>1. IsFiniteSet(1 .. n) /\ S \subseteq 1 .. n
    BY FS_Interval
  <2> QED
    BY <2>1, FS_Subset
<1>4. IsFiniteSet(T) /\ Cardinality(T) = Cardinality(S) /\ 1 \notin T
  <2>1. 1 \notin T
    OBVIOUS
  <2> HIDE DEF S
  <2> QED
    BY <1>3, <2>1, Shifted
<1>5. Cardinality(S) \in Nat
  BY <1>3, FS_CardinalityType
<1>6. Announced(s, n + 1) = Cardinality(U) /\ Announced(Tail(s), n) = Cardinality(S)
  BY DEF Announced
<1> HIDE DEF S, T, U
<1>7. Announcing(s[1]) => Cardinality(U) = Cardinality(T) + 1
  BY <1>2, <1>4, FS_AddElement
<1> QED
  BY <1>2, <1>4, <1>5, <1>6, <1>7

(* The frames below the innermost one, and what is recorded for them. *)
LEMMA CountedAll ==
  ASSUME NEW s \in Seq(Frames), s # <<>>
  PROVE  /\ Len(Tail(s)) = Len(s) - 1 /\ Len(s) \in Nat \ {0} /\ Len(Tail(s)) \in Nat
         /\ DOMAIN s = 1 .. Len(s) /\ DOMAIN Tail(s) = 1 .. Len(s) - 1
         /\ \A n \in 1 .. Len(s) - 1 : Tail(s)[n] = s[n + 1]
         /\ Announced(s, Len(s)) =
              Announced(Tail(s), Len(Tail(s))) + IF Announcing(s[1]) THEN 1 ELSE 0
         /\ Announced(s, 1) = IF Announcing(s[1]) THEN 1 ELSE 0
<1>1. /\ Len(Tail(s)) = Len(s) - 1 /\ Len(s) \in Nat \ {0} /\ Len(Tail(s)) \in Nat
      /\ DOMAIN s = 1 .. Len(s) /\ DOMAIN Tail(s) = 1 .. Len(s) - 1
      /\ \A n \in 1 .. Len(s) - 1 : Tail(s)[n] = s[n + 1]
  OBVIOUS
<1>2. Announced(s, Len(s)) =
        Announced(Tail(s), Len(Tail(s))) + IF Announcing(s[1]) THEN 1 ELSE 0
  <2>1. Len(Tail(s)) \in 0 .. Len(Tail(s)) /\ Len(Tail(s)) + 1 = Len(s)
    BY <1>1
  <2> QED
    BY <2>1, CountedFromTail
<1>3. Announced(s, 1) = IF Announcing(s[1]) THEN 1 ELSE 0
  <2>1. 0 \in 0 .. Len(Tail(s)) /\ 0 + 1 = 1
    BY <1>1
  <2>2. Announced(Tail(s), 0) = 0
    <3>1. \A m \in 1 .. 0 : ~Announcing(Tail(s)[m])
      OBVIOUS
    <3> QED
      BY <3>1, Counted
  <2> QED
    BY <2>1, <2>2, CountedFromTail
<1> QED
  BY <1>1, <1>2, <1>3

LEMMA CountedEach ==
  ASSUME NEW s \in Seq(Frames), s # <<>>, NEW n \in 1 .. Len(s)
  PROVE  /\ Announced(s, n) = Announced(Tail(s), n - 1) + IF Announcing(s[1]) THEN 1 ELSE 0
         /\ Announced(Tail(s), n - 1) \in Nat
<1>1. n - 1 \in 0 .. Len(Tail(s)) /\ (n - 1) + 1 = n /\ n - 1 \in Nat
  BY CountedAll
<1> QED
  BY <1>1, CountIsNatural, CountedFromTail

LEMMA RecordedPlain ==
  ASSUME NEW images \in Seq(Images), NEW s \in Seq(Frames), s # <<>>, NEW i,
         ~Announcing(s[1])
  PROVE  Recorded(images, s, i) <=> Recorded(images, Tail(s), i)
<1>1. Announced(s, Len(s)) = Announced(Tail(s), Len(Tail(s)))
  <2>1. Announced(Tail(s), Len(Tail(s))) \in Nat
    BY CountedAll, CountIsNatural
  <2> QED
    BY <2>1, CountedAll
<1>2. \A n \in 1 .. Len(s) - 1 :
        Announced(Tail(s), n) = Announced(s, n + 1) /\ Tail(s)[n] = s[n + 1]
  <2> SUFFICES ASSUME NEW n \in 1 .. Len(s) - 1
               PROVE  Announced(Tail(s), n) = Announced(s, n + 1) /\ Tail(s)[n] = s[n + 1]
    OBVIOUS
  <2>1. n + 1 \in 1 .. Len(s) /\ (n + 1) - 1 = n
    BY CountedAll
  <2> QED
    BY <2>1, CountedEach, CountedAll
<1>3. DOMAIN s = 1 .. Len(s) /\ DOMAIN Tail(s) = 1 .. Len(s) - 1 /\ Len(s) \in Nat \ {0}
  BY CountedAll
<1>4. ASSUME Recorded(images, s, i) PROVE Recorded(images, Tail(s), i)
  <2>1. \A n \in DOMAIN Tail(s) :
          Announcing(Tail(s)[n]) => images[Announced(Tail(s), n)] = Tail(s)[n].image
    <3> SUFFICES ASSUME NEW n \in DOMAIN Tail(s), Announcing(Tail(s)[n])
                 PROVE  images[Announced(Tail(s), n)] = Tail(s)[n].image
      OBVIOUS
    <3>1. n + 1 \in DOMAIN s /\ n \in 1 .. Len(s) - 1
      BY <1>3
    <3> QED
      BY <1>2, <1>4, <3>1 DEF Recorded
  <2> QED
    BY <1>1, <1>4, <2>1 DEF Recorded
<1>5. ASSUME Recorded(images, Tail(s), i) PROVE Recorded(images, s, i)
  <2>1. \A n \in DOMAIN s : Announcing(s[n]) => images[Announced(s, n)] = s[n].image
    <3> SUFFICES ASSUME NEW n \in DOMAIN s, Announcing(s[n])
                 PROVE  images[Announced(s, n)] = s[n].image
      OBVIOUS
    <3>1. n - 1 \in 1 .. Len(s) - 1 /\ n - 1 \in DOMAIN Tail(s) /\ (n - 1) + 1 = n
      BY <1>3
    <3> QED
      BY <1>2, <1>5, <3>1 DEF Recorded
  <2> QED
    BY <1>1, <1>5, <2>1 DEF Recorded
<1> QED
  BY <1>4, <1>5

LEMMA RecordedAnnouncing ==
  ASSUME NEW images \in Seq(Images), NEW s \in Seq(Frames), s # <<>>, NEW i,
         Announcing(s[1])
  PROVE  Recorded(images, s, i) <=>
           /\ images # <<>> /\ images[1] = s[1].image
           /\ Recorded(Tail(images), Tail(s), i)
<1> DEFINE below == Announced(Tail(s), Len(Tail(s)))
<1>1. below \in Nat /\ Announced(s, Len(s)) = below + 1 /\ Announced(s, 1) = 1
  <2>1. below \in Nat
    BY CountedAll, CountIsNatural
  <2> QED
    BY <2>1, CountedAll
<1>2. \A n \in 1 .. Len(s) - 1 :
        /\ Announced(s, n + 1) = Announced(Tail(s), n) + 1 /\ Tail(s)[n] = s[n + 1]
        /\ Announced(Tail(s), n) \in Nat
  <2> SUFFICES ASSUME NEW n \in 1 .. Len(s) - 1
               PROVE  /\ Announced(s, n + 1) = Announced(Tail(s), n) + 1
                      /\ Tail(s)[n] = s[n + 1] /\ Announced(Tail(s), n) \in Nat
    OBVIOUS
  <2>1. n + 1 \in 1 .. Len(s) /\ (n + 1) - 1 = n
    BY CountedAll
  <2> QED
    BY <2>1, CountedEach, CountedAll
<1>3. /\ DOMAIN s = 1 .. Len(s) /\ DOMAIN Tail(s) = 1 .. Len(s) - 1 /\ Len(s) \in Nat \ {0}
      /\ Len(Tail(s)) = Len(s) - 1 /\ Len(Tail(s)) \in Nat
  BY CountedAll
<1>4. images # <<>> =>
        /\ Len(Tail(images)) = Len(images) - 1 /\ Len(images) \in Nat \ {0}
        /\ \A n \in 1 .. Len(images) - 1 : Tail(images)[n] = images[n + 1]
  OBVIOUS
<1>5. \A n \in 1 .. Len(s) - 1 :
        Announcing(Tail(s)[n]) =>
          Announced(Tail(s), n) \in 1 .. below
  <2> SUFFICES ASSUME NEW n \in 1 .. Len(s) - 1, Announcing(Tail(s)[n])
               PROVE  Announced(Tail(s), n) \in 1 .. below
    OBVIOUS
  <2>1. 1 <= Announced(Tail(s), n) /\ Announced(Tail(s), n) <= below
    BY <1>3, CountGrows
  <2> QED
    BY <1>1, <1>2, <2>1
<1> HIDE DEF below
<1>6. ASSUME images # <<>>, Len(images) > below + 1, NEW k \in 1 .. below + 1
      PROVE  Tail(images)[k] = images[k + 1]
  BY <1>1, <1>4, <1>6
<1>7. ASSUME Recorded(images, s, i)
      PROVE  images # <<>> /\ images[1] = s[1].image /\ Recorded(Tail(images), Tail(s), i)
  <2>1. Len(images) > below + 1 /\ images[(below + 1) + 1] = i
    BY <1>1, <1>7 DEF Recorded
  <2>2. images # <<>>
    BY <1>1, <2>1
  <2>3. images[1] = s[1].image
    BY <1>1, <1>3, <1>7 DEF Recorded
  <2>4. Len(Tail(images)) > below /\ Tail(images)[below + 1] = i
    BY <1>1, <1>4, <1>6, <2>1, <2>2
  <2>5. ASSUME NEW n \in DOMAIN Tail(s), Announcing(Tail(s)[n])
        PROVE  Tail(images)[Announced(Tail(s), n)] = Tail(s)[n].image
    <3>1. n \in 1 .. Len(s) - 1 /\ n + 1 \in DOMAIN s
      BY <1>3
    <3>2. Announced(Tail(s), n) \in 1 .. below + 1
      BY <1>1, <1>5, <2>5, <3>1
    <3>3. images[Announced(s, n + 1)] = s[n + 1].image
      BY <1>2, <1>7, <2>5, <3>1 DEF Recorded
    <3> QED
      BY <1>2, <1>6, <2>1, <2>2, <3>1, <3>2, <3>3
  <2> QED
    BY <2>2, <2>3, <2>4, <2>5 DEF Recorded, below
<1>8. ASSUME images # <<>>, images[1] = s[1].image, Recorded(Tail(images), Tail(s), i)
      PROVE  Recorded(images, s, i)
  <2>1. Len(Tail(images)) > below /\ Tail(images)[below + 1] = i
    BY <1>8 DEF Recorded, below
  <2>2. Len(images) > below + 1 /\ images[(below + 1) + 1] = i
    BY <1>1, <1>4, <1>6, <1>8, <2>1
  <2>3. ASSUME NEW n \in DOMAIN s, Announcing(s[n]), n # 1
        PROVE  images[Announced(s, n)] = s[n].image
    <3>1. n - 1 \in 1 .. Len(s) - 1 /\ n - 1 \in DOMAIN Tail(s) /\ (n - 1) + 1 = n
      BY <1>3, <2>3
    <3>2. Tail(s)[n - 1] = s[n] /\ Announced(s, n) = Announced(Tail(s), n - 1) + 1
      BY <1>2, <3>1
    <3>3. Announced(Tail(s), n - 1) \in 1 .. below + 1
      BY <1>1, <1>5, <2>3, <3>1, <3>2
    <3>4. Tail(images)[Announced(Tail(s), n - 1)] = s[n].image
      BY <1>8, <2>3, <3>1, <3>2 DEF Recorded
    <3> QED
      BY <1>6, <1>8, <2>2, <3>2, <3>3, <3>4
  <2>4. \A n \in DOMAIN s : Announcing(s[n]) => images[Announced(s, n)] = s[n].image
    BY <1>1, <1>8, <2>3
  <2> QED
    BY <1>1, <2>2, <2>4 DEF Recorded
<1> QED
  BY <1>7, <1>8

-----------------------------------------------------------------------------
(* The inductive invariant behind ImageRecorded and TraceBalances.  The    *)
(* wrappers a process has entered itself lie on those it has from its      *)
(* parent, so that the open entries of its trace are the innermost ones;   *)
(* the frame fork left for the child is none of them.                      *)
OnTop(frames, n) ==
  n \in 0 .. Len(frames) /\ \A m \in DOMAIN frames : frames[m].own <=> m <= n
Foreign(frames) == \A n \in DOMAIN frames : frames[n].at = "child" => ~frames[n].own
Books(p) == OnTop(stack[p], open[p]) /\ Recorded(said[p], stack[p], image[p])
Kept(p) ==
  /\ state[p] = "unborn" => open[p] = 0
  /\ Foreign(stack[p])
  /\ Followed(p) => Books(p)
LogInv == \A p \in Processes : Kept(p)

LEMMA OnTopOwn ==
  ASSUME NEW s \in Seq(Frames), s # <<>>, s[1].own, NEW n \in Int
  PROVE  OnTop(s, n) <=> OnTop(Tail(s), n - 1)
<1>1. /\ DOMAIN s = 1 .. Len(s) /\ DOMAIN Tail(s) = 1 .. Len(s) - 1 /\ Len(s) \in Nat \ {0}
      /\ Len(Tail(s)) = Len(s) - 1
      /\ \A m \in 1 .. Len(s) - 1 : Tail(s)[m] = s[m + 1]
  OBVIOUS
<1>2. ASSUME OnTop(s, n) PROVE OnTop(Tail(s), n - 1)
  <2>1. n \in 1 .. Len(s)
    BY <1>1, <1>2 DEF OnTop
  <2>2. ASSUME NEW m \in DOMAIN Tail(s) PROVE Tail(s)[m].own <=> m <= n - 1
    <3>1. m + 1 \in DOMAIN s /\ Tail(s)[m] = s[m + 1]
      BY <1>1
    <3> QED
      BY <1>1, <1>2, <3>1 DEF OnTop
  <2> QED
    BY <1>1, <2>1, <2>2 DEF OnTop
<1>3. ASSUME OnTop(Tail(s), n - 1) PROVE OnTop(s, n)
  <2>1. n \in 1 .. Len(s)
    BY <1>1, <1>3 DEF OnTop
  <2>2. ASSUME NEW m \in DOMAIN s, m # 1 PROVE s[m].own <=> m <= n
    <3>1. m - 1 \in DOMAIN Tail(s) /\ Tail(s)[m - 1] = s[m]
      BY <1>1, <2>2
    <3> QED
      BY <1>1, <1>3, <3>1 DEF OnTop
  <2> QED
    BY <1>1, <2>1, <2>2 DEF OnTop
<1> QED
  BY <1>2, <1>3

LEMMA OnTopForeign ==
  ASSUME NEW s \in Seq(Frames), s # <<>>, ~s[1].own, NEW n \in Int, OnTop(s, n)
  PROVE  n = 0 /\ OnTop(Tail(s), n)
<1>1. /\ DOMAIN s = 1 .. Len(s) /\ DOMAIN Tail(s) = 1 .. Len(s) - 1 /\ Len(s) \in Nat \ {0}
      /\ Len(Tail(s)) = Len(s) - 1
      /\ \A m \in 1 .. Len(s) - 1 : Tail(s)[m] = s[m + 1]
  OBVIOUS
<1>2. n = 0
  BY <1>1 DEF OnTop
<1>3. ASSUME NEW m \in DOMAIN Tail(s) PROVE ~Tail(s)[m].own
  <2>1. m + 1 \in DOMAIN s /\ Tail(s)[m] = s[m + 1]
    BY <1>1
  <2> QED
    BY <1>1, <1>2, <2>1 DEF OnTop
<1>4. \A m \in DOMAIN Tail(s) : ~(m <= 0)
  BY <1>1
<1> QED
  BY <1>1, <1>2, <1>3, <1>4 DEF OnTop

LEMMA ForeignTail ==
  ASSUME NEW s \in Seq(Frames), s # <<>>
  PROVE  Foreign(s) <=> (s[1].at = "child" => ~s[1].own) /\ Foreign(Tail(s))
<1>1. /\ DOMAIN s = 1 .. Len(s) /\ DOMAIN Tail(s) = 1 .. Len(s) - 1 /\ Len(s) \in Nat \ {0}
      /\ \A m \in 1 .. Len(s) - 1 : Tail(s)[m] = s[m + 1]
  OBVIOUS
<1>2. ASSUME Foreign(s) PROVE (s[1].at = "child" => ~s[1].own) /\ Foreign(Tail(s))
  <2>1. ASSUME NEW m \in DOMAIN Tail(s) PROVE m + 1 \in DOMAIN s /\ Tail(s)[m] = s[m + 1]
    BY <1>1
  <2> QED
    BY <1>1, <1>2, <2>1 DEF Foreign
<1>3. ASSUME s[1].at = "child" => ~s[1].own, Foreign(Tail(s)) PROVE Foreign(s)
  <2>1. ASSUME NEW m \in DOMAIN s, m # 1 PROVE m - 1 \in DOMAIN Tail(s) /\ Tail(s)[m - 1] = s[m]
    BY <1>1, <2>1
  <2> QED
    BY <1>3, <2>1 DEF Foreign
<1> QED
  BY <1>2, <1>3

(* A process for which nothing is in progress has nothing announced. *)
LEMMA RecordedIdle ==
  ASSUME NEW images \in Seq(Images), NEW s \in Seq(Frames), NEW i,
         \A n \in DOMAIN s : ~s[n].own
  PROVE  Recorded(images, s, i) <=> images # <<>> /\ images[1] = i
<1>1. \A n \in DOMAIN s : ~Announcing(s[n])
  BY DEF Announcing
<1>2. Len(s) \in Nat /\ DOMAIN s = 1 .. Len(s)
  OBVIOUS
<1>3. Announced(s, Len(s)) = 0
  BY <1>1, <1>2, Counted
<1> QED
  BY <1>1, <1>3 DEF Recorded

(* The innermost wrapper, entered by the process itself, changes. *)
LEMMA BooksGoto ==
  ASSUME NEW s \in Seq(Frames), s # <<>>, s[1].own, NEW n \in Int, OnTop(s, n),
         NEW images \in Seq(Images), NEW i, Recorded(images, s, i),
         NEW f \in Frames, f.own, NEW t, t = <<f>> \o Tail(s)
  PROVE  /\ OnTop(t, n)
         /\ ~Announcing(s[1]) /\ ~Announcing(f) => Recorded(images, t, i)
         /\ Announcing(s[1]) /\ Announcing(f) /\ f.image = s[1].image => Recorded(images, t, i)
         /\ ~Announcing(s[1]) /\ Announcing(f) => Recorded(<<f.image>> \o images, t, i)
<1>1. t \in Seq(Frames) /\ t # <<>> /\ t[1] = f /\ Tail(t) = Tail(s)
  <2>1. Tail(s) \in Seq(Frames)
    OBVIOUS
  <2> QED
    BY <2>1
<1>2. OnTop(t, n)
  BY <1>1, OnTopOwn
<1>3. ASSUME ~Announcing(s[1]), ~Announcing(f) PROVE Recorded(images, t, i)
  BY <1>1, <1>3, RecordedPlain
<1>4. ASSUME Announcing(s[1]), Announcing(f), f.image = s[1].image PROVE Recorded(images, t, i)
  BY <1>1, <1>4, RecordedAnnouncing
<1>5. ASSUME ~Announcing(s[1]), Announcing(f) PROVE Recorded(<<f.image>> \o images, t, i)
  <2>1. f.image \in Images
    BY DEF Frames
  <2>2. PICK more : more = <<f.image>> \o images
    OBVIOUS
  <2>3. more \in Seq(Images) /\ more # <<>> /\ more[1] = f.image /\ Tail(more) = images
    BY <2>1, <2>2
  <2>4. Recorded(Tail(more), Tail(t), i)
    BY <1>1, <1>5, <2>3, RecordedPlain
  <2>5. Announcing(t[1]) /\ t[1].image = more[1]
    BY <1>1, <1>5, <2>3
  <2>6. Recorded(more, t, i)
    BY <1>1, <2>3, <2>4, <2>5, RecordedAnnouncing
  <2> QED
    BY <2>2, <2>6
<1> QED
  BY <1>2, <1>3, <1>4, <1>5

LEMMA KeptElsewhere ==
  ASSUME NEW q \in Processes, Kept(q), state'[q] = state[q], astray'[q] = astray[q],
         open'[q] = open[q], stack'[q] = stack[q], said'[q] = said[q], image'[q] = image[q]
  PROVE  Kept(q)'
  BY DEF Kept, Followed, Books

(* A process that steps in its innermost wrapper and can still be followed *)
(* has entered that wrapper itself, but for the end of fork in the child.  *)
LEMMA FollowedStep ==
  ASSUME TypeOK, NEW p \in Processes, state'[p] = state[p], Stray(p), Followed(p)'
  PROVE  Followed(p) /\ (Top(p).own \/ Top(p).at = "child")
<1>1. astray'[p] = Straying(p)
  BY DEF Stray, TypeOK
<1> QED
  BY <1>1 DEF Followed, Straying, Strays

LEMMA LogLeave ==
  ASSUME TypeOK, LogInv, NEW p \in Processes, NEW op, NEW at, At(p, op, at), Leave(p),
         state' = state, image' = image,
         \/ said' = said /\ ~(op = "exec" /\ at \in {"native", "failed"})
         \/ said' = [said EXCEPT ![p] = TakenBack(@)] /\ op = "exec" /\ at = "failed"
  PROVE  LogInv'
<1>1. /\ state[p] = "alive" /\ stack[p] \in Seq(Frames) /\ stack[p] # <<>>
      /\ Top(p).op = op /\ Top(p).at = at /\ Top(p) = stack[p][1]
  BY AtTop, Popped DEF Top
<1>2. /\ stack'[p] = Tail(stack[p]) /\ \A q \in Processes \ {p} : stack'[q] = stack[q]
  BY DEF Leave, Rest, TypeOK
<1>3. /\ open'[p] = open[p] - (IF at # "child" THEN 1 ELSE 0)
      /\ \A q \in Processes \ {p} : open'[q] = open[q]
  BY <1>1 DEF Leave, Exits, TypeOK
<1>4. Stray(p) /\ \A q \in Processes \ {p} : astray'[q] = astray[q]
  BY DEF Leave, Stray, TypeOK
<1>5. /\ \A q \in Processes \ {p} : said'[q] = said[q]
      /\ open[p] \in Int /\ said[p] \in Seq(Images)
  BY DEF TypeOK
<1>6. Foreign(stack'[p])
  BY <1>1, <1>2, ForeignTail DEF LogInv, Kept
<1>7. ASSUME Followed(p)' PROVE Books(p)'
  <2>1. Followed(p) /\ (Top(p).own \/ at = "child")
    BY <1>1, <1>4, <1>7, FollowedStep
  <2>2. OnTop(stack[p], open[p]) /\ Recorded(said[p], stack[p], image[p]) /\ Foreign(stack[p])
    BY <2>1 DEF LogInv, Kept, Books
  <2>3. Top(p).own <=> at # "child"
    BY <1>1, <2>1, <2>2, ForeignTail
  <2>4. OnTop(stack'[p], open'[p])
    <3>1. CASE Top(p).own
      <4>1. open'[p] = open[p] - 1
        BY <1>3, <2>3, <3>1
      <4>2. OnTop(Tail(stack[p]), open[p] - 1)
        BY <1>1, <1>5, <2>2, <3>1, OnTopOwn
      <4> QED
        BY <1>2, <4>1, <4>2
    <3>2. CASE ~Top(p).own
      BY <1>1, <1>2, <1>3, <1>5, <2>2, <2>3, <3>2, OnTopForeign
    <3> QED
      BY <3>1, <3>2
  <2>5. Recorded(said'[p], stack'[p], image'[p])
    <3>1. CASE said' = said /\ ~(op = "exec" /\ at \in {"native", "failed"})
      <4>1. ~Announcing(Top(p))
        BY <1>1, <3>1 DEF Announcing
      <4> QED
        BY <1>1, <1>2, <1>5, <2>2, <3>1, <4>1, RecordedPlain
    <3>2. CASE said' = [said EXCEPT ![p] = TakenBack(@)] /\ op = "exec" /\ at = "failed"
      <4>1. Announcing(Top(p))
        BY <1>1, <2>3, <3>2 DEF Announcing
      <4>2. said[p] # <<>> /\ Recorded(Tail(said[p]), Tail(stack[p]), image[p])
        BY <1>1, <1>5, <2>2, <4>1, RecordedAnnouncing
      <4>3. said'[p] = Tail(said[p])
        BY <3>2, <4>2 DEF TakenBack, TypeOK
      <4> QED
        BY <1>2, <4>2, <4>3
    <3> QED
      BY <3>1, <3>2
  <2> QED
    BY <2>4, <2>5 DEF Books
<1>8. Kept(p)'
  BY <1>1, <1>6, <1>7 DEF Kept
<1>9. \A q \in Processes \ {p} : Kept(q)'
  BY <1>2, <1>3, <1>4, <1>5, KeptElsewhere DEF LogInv
<1> QED
  BY <1>8, <1>9 DEF LogInv

LEMMA LogGoto ==
  ASSUME TypeOK, LogInv, NEW p \in Processes, NEW op, NEW at, At(p, op, at), at # "child",
         NEW f \in Frames, Goto(p, f), f.own = Top(p).own, f.at # "child", Stray(p),
         state' = state, image' = image, open' = open,
         \/ /\ said' = said /\ (Announcing(f) <=> Announcing(Top(p)))
            /\ Announcing(f) => f.image = Top(p).image
         \/ /\ said' = [said EXCEPT ![p] = <<f.image>> \o @]
            /\ Top(p).own => Announcing(f) /\ ~Announcing(Top(p))
  PROVE  LogInv'
<1>1. /\ state[p] = "alive" /\ stack[p] \in Seq(Frames) /\ stack[p] # <<>>
      /\ Top(p).op = op /\ Top(p).at = at /\ Top(p) = stack[p][1]
  BY AtTop, Popped DEF Top
<1>2. /\ stack'[p] = <<f>> \o Tail(stack[p])
      /\ \A q \in Processes \ {p} : stack'[q] = stack[q]
  BY DEF Goto, Rest, TypeOK
<1>3. \A q \in Processes \ {p} : astray'[q] = astray[q]
  BY DEF Stray, TypeOK
<1>4. /\ \A q \in Processes \ {p} : said'[q] = said[q]
      /\ open[p] \in Int /\ said[p] \in Seq(Images)
  BY DEF TypeOK
<1>5. Foreign(stack'[p])
  <2>1. Tail(stack[p]) \in Seq(Frames) /\ Foreign(Tail(stack[p]))
    BY <1>1, ForeignTail DEF LogInv, Kept
  <2>2. /\ stack'[p] \in Seq(Frames) /\ stack'[p] # <<>> /\ stack'[p][1] = f
        /\ Tail(stack'[p]) = Tail(stack[p])
    BY <1>2, <2>1
  <2> QED
    BY <2>1, <2>2, ForeignTail
<1>6. ASSUME Followed(p)' PROVE Books(p)'
  <2>1. Followed(p) /\ Top(p).own /\ f.own
    BY <1>1, <1>6, FollowedStep
  <2>2. OnTop(stack[p], open[p]) /\ Recorded(said[p], stack[p], image[p])
    BY <2>1 DEF LogInv, Kept, Books
  <2>3. OnTop(stack'[p], open[p]) 
    BY <1>1, <1>2, <1>4, <2>1, <2>2, BooksGoto
  <2>4. Recorded(said'[p], stack'[p], image[p])
    <3>1. CASE /\ said' = said /\ (Announcing(f) <=> Announcing(Top(p)))
               /\ Announcing(f) => f.image = Top(p).image
      <4>1. CASE Announcing(f)
        <5>1. Announcing(stack[p][1]) /\ f.image = stack[p][1].image
          BY <1>1, <3>1, <4>1
        <5>2. Recorded(said[p], stack'[p], image[p])
          BY <1>1, <1>2, <1>4, <2>1, <2>2, <4>1, <5>1, BooksGoto
        <5> QED
          BY <3>1, <5>2
      <4>2. CASE ~Announcing(f)
        <5>1. ~Announcing(stack[p][1])
          BY <1>1, <3>1, <4>2
        <5>2. Recorded(said[p], stack'[p], image[p])
          BY <1>1, <1>2, <1>4, <2>1, <2>2, <4>2, <5>1, BooksGoto
        <5> QED
          BY <3>1, <5>2
      <4> QED
        BY <4>1, <4>2
    <3>2. CASE /\ said' = [said EXCEPT ![p] = <<f.image>> \o @]
               /\ Top(p).own => Announcing(f) /\ ~Announcing(Top(p))
      <4>1. said'[p] = <<f.image>> \o said[p]
        BY <3>2 DEF TypeOK
      <4> QED
        <5>1. Announcing(f) /\ ~Announcing(stack[p][1])
          BY <1>1, <2>1, <3>2
        <5>2. Recorded(<<f.image>> \o said[p], stack'[p], image[p])
          BY <1>1, <1>2, <1>4, <2>1, <2>2, <5>1, BooksGoto
        <5> QED
          BY <4>1, <5>2
    <3> QED
      BY <3>1, <3>2
  <2> QED
    BY <2>3, <2>4 DEF Books
<1>7. Kept(p)'
  BY <1>1, <1>5, <1>6 DEF Kept
<1>8. \A q \in Processes \ {p} : Kept(q)'
  BY <1>2, <1>3, <1>4, KeptElsewhere DEF LogInv
<1> QED
  BY <1>7, <1>8 DEF LogInv

(* A process with nothing in progress. *)
LEMMA BooksEmpty ==
  ASSUME NEW images \in Seq(Images), NEW i, images # <<>>, images[1] = i
  PROVE  OnTop(<<>>, 0) /\ Foreign(<<>>) /\ Recorded(images, <<>>, i)
<1>1. <<>> \in Seq(Frames) /\ (\A n \in DOMAIN <<>> : ~<<>>[n].own) /\ Len(<<>>) = 0
  OBVIOUS
<1>2. Recorded(images, <<>>, i)
  BY <1>1, RecordedIdle
<1> QED
  BY <1>1, <1>2 DEF OnTop, Foreign

(* The child of fork has entered none of the wrappers it stands in, and    *)
(* the parent goes on in its own.                                          *)
LEMMA LogFork ==
  ASSUME TypeOK, LogInv, NEW p \in Processes, NEW c \in Processes, Fork(p, c)
  PROVE  LogInv'
<1>1. /\ state[p] = "alive" /\ stack[p] \in Seq(Frames) /\ stack[p] # <<>>
      /\ Top(p).op = "fork" /\ Top(p).at = "start" /\ Top(p) = stack[p][1]
      /\ Top(p) \in Frames
  BY AtTop, Popped DEF Top, Fork
<1>2. c # p /\ open[c] = 0 /\ open[p] \in Int /\ said[p] \in Seq(Images) /\ image[p] \in Images
  BY <1>1 DEF Fork, LogInv, Kept, TypeOK
<1> DEFINE f == [Top(p) EXCEPT !.at = AfterFork(c), !.child = c]
<1>3. /\ f \in Frames /\ f.own = Top(p).own /\ f.at = "report"
      /\ ~Announcing(f) /\ ~Announcing(Top(p))
  <2>1. AfterFork(c) = "report"
    BY ProcessesAssumption DEF AfterFork
  <2>2. f \in Frames
    BY <1>1, <2>1, FrameTypes, ProcessesAssumption
  <2>3. f.own = Top(p).own /\ f.op = "fork" /\ f.at = "report"
    BY <1>1, <2>1 DEF Frames
  <2>4. ~Announcing(f) /\ ~Announcing(Top(p))
    BY <1>1, <2>3 DEF Announcing
  <2> QED
    BY <2>2, <2>3, <2>4
<1>4. /\ stack'[p] = <<f>> \o Tail(stack[p]) /\ stack'[c] = Inherited(stack[p])
      /\ \A q \in Processes \ {p, c} : stack'[q] = stack[q]
  BY <1>2 DEF Fork, Rest, TypeOK
<1>5. /\ open' = open /\ Stray(p) /\ state'[p] = state[p]
      /\ image'[c] = image[p] /\ said'[c] = <<image[p]>> /\ state'[c] = "alive"
      /\ \A q \in Processes \ {c} :
           image'[q] = image[q] /\ said'[q] = said[q] /\ state'[q] = state[q]
  BY <1>2 DEF Fork, TypeOK
<1>6. \A q \in Processes \ {p} : astray'[q] = astray[q]
  BY <1>5 DEF Stray, TypeOK
<1> HIDE DEF f
<1>7. Foreign(stack'[p])
  <2>1. Tail(stack[p]) \in Seq(Frames) /\ Foreign(Tail(stack[p]))
    BY <1>1, ForeignTail DEF LogInv, Kept
  <2>2. /\ stack'[p] \in Seq(Frames) /\ stack'[p] # <<>> /\ stack'[p][1] = f
        /\ Tail(stack'[p]) = Tail(stack[p])
    BY <1>3, <1>4, <2>1
  <2> QED
    BY <1>3, <2>1, <2>2, ForeignTail
<1>8. ASSUME Followed(p)' PROVE Books(p)'
  <2>1. Followed(p) /\ Top(p).own
    BY <1>1, <1>5, <1>8, FollowedStep
  <2>2. OnTop(stack[p], open[p]) /\ Recorded(said[p], stack[p], image[p])
    BY <2>1 DEF LogInv, Kept, Books
  <2>3. ~Announcing(stack[p][1]) /\ stack[p][1].own /\ f.own
    BY <1>1, <1>3, <2>1
  <2>4. OnTop(stack'[p], open[p]) /\ Recorded(said[p], stack'[p], image[p])
    BY <1>1, <1>2, <1>3, <1>4, <2>2, <2>3, BooksGoto
  <2> QED
    BY <1>2, <1>5, <2>4 DEF Books
<1>9. Kept(p)'
  BY <1>1, <1>5, <1>7, <1>8 DEF Kept
<1>10. Kept(c)'
  <2>1. stack'[c] \in Seq(Frames) /\ \A n \in DOMAIN stack'[c] : ~stack'[c][n].own
    BY <1>1, <1>4, InheritedType
  <2>2. said'[c] \in Seq(Images) /\ said'[c] # <<>> /\ said'[c][1] = image'[c]
    BY <1>2, <1>5
  <2>3. Recorded(said'[c], stack'[c], image'[c])
    BY <2>1, <2>2, RecordedIdle
  <2>4. OnTop(stack'[c], open'[c])
    <3>1. open'[c] = 0 /\ Len(stack'[c]) \in Nat /\ DOMAIN stack'[c] = 1 .. Len(stack'[c])
      BY <1>2, <1>5, <2>1
    <3>2. \A n \in DOMAIN stack'[c] : ~(n <= 0)
      BY <3>1
    <3> QED
      BY <2>1, <3>1, <3>2 DEF OnTop
  <2>5. Foreign(stack'[c])
    BY <2>1 DEF Foreign
  <2> QED
    BY <1>5, <2>3, <2>4, <2>5 DEF Kept, Books
<1>11. ASSUME NEW q \in Processes \ {p, c} PROVE Kept(q)'
  BY <1>4, <1>5, <1>6, KeptElsewhere DEF LogInv
<1> QED
  BY <1>9, <1>10, <1>11 DEF LogInv

(* exec, a jump and an exit leave nothing in progress. *)
LEMMA LogEmptied ==
  ASSUME TypeOK, LogInv, NEW p \in Processes, stack' = [stack EXCEPT ![p] = <<>>],
         Followed(p)' => open'[p] = 0 /\ said'[p] \in Seq(Images) /\ said'[p] # <<>>
                           /\ said'[p][1] = image'[p],
         state'[p] # "unborn",
         \A q \in Processes \ {p} :
           /\ state'[q] = state[q] /\ astray'[q] = astray[q] /\ open'[q] = open[q]
           /\ said'[q] = said[q] /\ image'[q] = image[q]
  PROVE  LogInv'
<1>1. stack'[p] = <<>> /\ \A q \in Processes \ {p} : stack'[q] = stack[q]
  BY DEF TypeOK
<1>2. Foreign(stack'[p])
  BY <1>1 DEF Foreign
<1>3. Followed(p)' => Books(p)'
  BY <1>1, BooksEmpty DEF Books
<1>4. Kept(p)'
  BY <1>2, <1>3 DEF Kept
<1>5. \A q \in Processes \ {p} : Kept(q)'
  BY <1>1, KeptElsewhere DEF LogInv
<1> QED
  BY <1>4, <1>5 DEF LogInv

LEMMA LogExec ==
  ASSUME TypeOK, LogInv, NEW p \in Processes, Exec(p)
  PROVE  LogInv'
<1>1. /\ state[p] = "alive" /\ stack[p] \in Seq(Frames) /\ stack[p] # <<>>
      /\ Top(p).op = "exec" /\ Top(p).at = "native" /\ Top(p) = stack[p][1]
      /\ Top(p).image \in Images
  <2>1. /\ state[p] = "alive" /\ stack[p] \in Seq(Frames) /\ stack[p] # <<>>
        /\ Top(p).op = "exec" /\ Top(p).at = "native" /\ Top(p) \in Frames
    BY AtTop DEF Exec
  <2>2. Top(p) = stack[p][1]
    BY <2>1, Popped DEF Top
  <2>3. Top(p).image \in Images
    BY <2>1 DEF Frames
  <2> QED
    BY <2>1, <2>2, <2>3
<1>2. /\ image'[p] = Top(p).image /\ said'[p] = Latest(said[p]) /\ open'[p] = 0
      /\ said[p] \in Seq(Images) /\ state' = state
      /\ \A q \in Processes \ {p} :
           /\ state'[q] = state[q] /\ astray'[q] = astray[q] /\ open'[q] = open[q]
           /\ said'[q] = said[q] /\ image'[q] = image[q]
      /\ Straying(p) \subseteq astray'[p]
  BY DEF Exec, TypeOK
<1>3. ASSUME Followed(p)' PROVE said[p] # <<>> /\ said[p][1] = Top(p).image
  <2>1. Followed(p) /\ Top(p).own
    BY <1>1, <1>2, <1>3 DEF Followed, Straying, Strays
  <2>2. Announcing(stack[p][1]) /\ Recorded(said[p], stack[p], image[p])
    BY <1>1, <2>1 DEF LogInv, Kept, Books, Announcing
  <2> QED
    BY <1>1, <1>2, <2>2, RecordedAnnouncing
<1>4. said[p] # <<>> => /\ Latest(said[p]) \in Seq(Images) /\ Latest(said[p]) # <<>>
                        /\ Latest(said[p])[1] = said[p][1]
  BY <1>2 DEF Latest
<1>5. stack' = [stack EXCEPT ![p] = <<>>] /\ state'[p] # "unborn"
  BY <1>1, <1>2 DEF Exec
<1> QED
  BY <1>2, <1>3, <1>4, <1>5, LogEmptied

LEMMA LogContinue ==
  ASSUME TypeOK, LogInv, NEW p \in Processes, Continue(p)
  PROVE  LogInv'
<1>1. CASE TurnedDown(p)
  BY <1>1, LogLeave DEF TurnedDown
<1>2. CASE AfterForkChild(p)
  BY <1>2, LogLeave DEF AfterForkChild
<1>3. CASE Report(p)
  BY <1>3, LogLeave DEF Report
<1>4. ASSUME NEW c \in Processes, Fork(p, c) PROVE LogInv'
  BY <1>4, LogFork
<1>5. ASSUME NEW i \in Images, Announce(p, i) PROVE LogInv'
  <2>1. Top(p) \in Frames /\ Top(p).op = "exec" /\ Top(p).at = "start"
    BY <1>5, AtTop DEF Announce
  <2> DEFINE f == [Top(p) EXCEPT !.at = "native", !.image = i]
  <2>2. /\ f \in Frames /\ f.own = Top(p).own /\ f.at # "child" /\ f.image = i
        /\ Top(p).own => Announcing(f) /\ ~Announcing(Top(p))
    BY <2>1, FrameTypes DEF Frames, Announcing
  <2>3. /\ At(p, "exec", "start") /\ Goto(p, f) /\ Stray(p)
        /\ said' = [said EXCEPT ![p] = <<i>> \o @]
        /\ state' = state /\ image' = image /\ open' = open
    BY <1>5 DEF Announce
  <2> HIDE DEF f
  <2> QED
    BY <2>2, <2>3, LogGoto
<1>6. CASE Exec(p)
  BY <1>6, LogExec
<1>7. CASE ExecFails(p)
  <2>1. Top(p) \in Frames /\ Top(p).op = "exec" /\ Top(p).at = "native"
    BY <1>7, AtTop DEF ExecFails
  <2> DEFINE f == [Top(p) EXCEPT !.at = "failed"]
  <2>2. /\ f \in Frames /\ f.own = Top(p).own /\ f.at # "child" /\ f.image = Top(p).image
        /\ Announcing(f) <=> Announcing(Top(p))
    BY <2>1, FrameTypes DEF Frames, Announcing
  <2>3. /\ At(p, "exec", "native") /\ Goto(p, f) /\ Stray(p) /\ said' = said
        /\ state' = state /\ image' = image /\ open' = open
    BY <1>7 DEF ExecFails
  <2> HIDE DEF f
  <2> QED
    BY <2>2, <2>3, LogGoto
<1>8. CASE TakeBack(p)
  BY <1>8, LogLeave DEF TakeBack
<1> QED
  BY <1>1, <1>2, <1>3, <1>4, <1>5, <1>6, <1>7, <1>8 DEF Continue

LEMMA LogEnter ==
  ASSUME TypeOK, LogInv, NEW p \in Processes, NEW op \in {"fork", "exec"}, Enter(p, op)
  PROVE  LogInv'
<1>1. /\ Frame(op) \in Frames /\ Frame(op).own /\ Frame(op).at = "start"
      /\ ~Announcing(Frame(op))
  BY ProcessesAssumption DEF Frame, Frames, Announcing
<1>2. /\ stack[p] \in Seq(Frames) /\ open[p] \in Int /\ said[p] \in Seq(Images)
      /\ state[p] = "alive"
  BY DEF Enter, TypeOK
<1>3. /\ stack'[p] = <<Frame(op)>> \o stack[p] /\ open'[p] = open[p] + 1
      /\ \A q \in Processes \ {p} : stack'[q] = stack[q] /\ open'[q] = open[q]
      /\ state' = state /\ image' = image /\ said' = said /\ astray' = astray
  BY DEF Enter, TypeOK
<1>4. /\ stack'[p] \in Seq(Frames) /\ stack'[p] # <<>> /\ stack'[p][1] = Frame(op)
      /\ Tail(stack'[p]) = stack[p]
  BY <1>1, <1>2, <1>3
<1>5. Foreign(stack'[p])
  BY <1>1, <1>4, ForeignTail DEF LogInv, Kept
<1>6. ASSUME Followed(p)' PROVE Books(p)'
  <2>1. OnTop(stack[p], open[p]) /\ Recorded(said[p], stack[p], image[p])
    BY <1>3, <1>6 DEF LogInv, Kept, Books, Followed
  <2>2. (open[p] + 1) - 1 = open[p] /\ open[p] + 1 \in Int
    BY <1>2
  <2>3. OnTop(stack'[p], open[p] + 1)
    BY <1>1, <1>4, <2>1, <2>2, OnTopOwn
  <2>4. Recorded(said[p], stack'[p], image[p])
    BY <1>1, <1>2, <1>4, <2>1, RecordedPlain
  <2> QED
    BY <1>3, <2>3, <2>4 DEF Books
<1>7. Kept(p)'
  BY <1>2, <1>3, <1>5, <1>6 DEF Kept
<1>8. \A q \in Processes \ {p} : Kept(q)'
  BY <1>3, KeptElsewhere DEF LogInv
<1> QED
  BY <1>7, <1>8 DEF LogInv

LEMMA LogJump ==
  ASSUME TypeOK, LogInv, NEW p \in Processes, Siglongjmp(p)
  PROVE  LogInv'
<1>1. /\ stack[p] \in Seq(Frames) /\ stack[p] # <<>> /\ open[p] \in Int
      /\ said[p] \in Seq(Images) /\ state[p] = "alive"
      /\ state' = state /\ image' = image /\ open' = open /\ said' = said
      /\ stack' = [stack EXCEPT ![p] = <<>>]
  BY DEF Siglongjmp, TypeOK
<1>2. /\ astray[p] \subseteq astray'[p]
      /\ \A q \in Processes \ {p} : astray'[q] = astray[q]
      /\ Undone(p, stack[p]) => "jumped" \in astray'[p]
  BY DEF Siglongjmp, TypeOK
<1>3. ASSUME Followed(p)'
      PROVE  open[p] = 0 /\ said[p] # <<>> /\ said[p][1] = image[p]
  <2>1. Followed(p) /\ ~Undone(p, stack[p])
    BY <1>1, <1>2, <1>3 DEF Followed
  <2>2. OnTop(stack[p], open[p]) /\ Recorded(said[p], stack[p], image[p])
    BY <2>1 DEF LogInv, Kept, Books
  <2>3. \A n \in DOMAIN stack[p] : ~stack[p][n].own
    BY <2>1 DEF Undone
  <2>4. stack[p][1] = stack[p][1] /\ 1 \in DOMAIN stack[p]
    BY <1>1, Popped
  <2>5. open[p] = 0
    BY <1>1, <2>2, <2>3, <2>4 DEF OnTop
  <2> QED
    BY <1>1, <2>2, <2>3, <2>5, RecordedIdle
<1> QED
  BY <1>1, <1>2, <1>3, LogEmptied

LEMMA LogInvariance == Spec => []LogInv
<1>1. Init => LogInv
  <2> SUFFICES ASSUME Init, NEW p \in Processes PROVE Kept(p)
    BY DEF LogInv
  <2>1. /\ stack[p] = <<>> /\ open[p] = 0 /\ said[p] = <<Program>> /\ image[p] = Program
        /\ Program \in Images
    BY ProcessesAssumption DEF Init
  <2>2. OnTop(<<>>, 0) /\ Foreign(<<>>) /\ Recorded(said[p], <<>>, image[p])
    <3>1. said[p] \in Seq(Images) /\ said[p] # <<>> /\ said[p][1] = image[p]
      BY <2>1
    <3> QED
      BY <3>1, BooksEmpty
  <2> QED
    BY <2>1, <2>2 DEF Kept, Books
<1>2. TypeOK /\ LogInv /\ [Next]_vars => LogInv'
  <2> SUFFICES ASSUME TypeOK, LogInv, [Next]_vars PROVE LogInv'
    OBVIOUS
  <2>1. ASSUME NEW p \in Processes, Exit(p) PROVE LogInv'
    <3>1. /\ stack' = [stack EXCEPT ![p] = <<>>] /\ state'[p] = "gone"
          /\ \A q \in Processes \ {p} :
               /\ state'[q] = state[q] /\ astray'[q] = astray[q] /\ open'[q] = open[q]
               /\ said'[q] = said[q] /\ image'[q] = image[q]
      BY <2>1 DEF Exit, TypeOK
    <3>2. ~Followed(p)'
      BY <3>1 DEF Followed
    <3> QED
      BY <3>1, <3>2, LogEmptied
  <2>2. CASE UNCHANGED vars
    BY <2>2 DEF vars, LogInv, Kept, Followed, Books
  <2> QED
    BY <2>1, <2>2, LogContinue, LogEnter, LogJump DEF Next
<1> QED
  BY <1>1, <1>2, TypeCorrect, PTL DEF Spec

(* ImageRecorded, for the announcements of the exec wrappers in any        *)
(* processes that exec from the program or from handlers.                  *)
THEOREM ImagesRecordedTruly == Spec => []ImageRecorded
<1>1. LogInv => ImageRecorded
  BY DEF LogInv, Kept, Books, ImageRecorded
<1> QED
  BY <1>1, LogInvariance, PTL

(* TraceBalances, for the traces of any such processes.                    *)
THEOREM TracesBalance == Spec => []TraceBalances
<1>1. TypeOK /\ LogInv => TraceBalances
  <2> SUFFICES ASSUME TypeOK, LogInv, NEW p \in Processes, Followed(p)
               PROVE  open[p] = Cardinality({n \in DOMAIN stack[p] : stack[p][n].own})
    BY DEF TraceBalances
  <2>1. stack[p] \in Seq(Frames) /\ OnTop(stack[p], open[p])
    BY DEF TypeOK, LogInv, Kept, Books
  <2>2. {n \in DOMAIN stack[p] : stack[p][n].own} = 1 .. open[p] /\ open[p] \in Nat
    BY <2>1 DEF OnTop
  <2>3. Cardinality(1 .. open[p]) = open[p]
    BY <2>2, FS_Interval
  <2> QED
    BY <2>2, <2>3
<1> QED
  BY <1>1, LogInvariance, TypeCorrect, PTL

-----------------------------------------------------------------------------
(* No fork is forgotten.  ForksAccounted is inductive with the types: the  *)
(* wrapper that will report c stays in the parent's stack until it has.    *)
LEMMA Below ==
  ASSUME NEW S, NEW s \in Seq(S), NEW n \in DOMAIN s, n # 1
  PROVE  n - 1 \in DOMAIN Tail(s) /\ Tail(s)[n - 1] = s[n]
  OBVIOUS

LEMMA Beneath ==
  ASSUME NEW S, NEW f \in S, NEW s \in Seq(S)
  PROVE  /\ 1 \in DOMAIN (<<f>> \o s) /\ (<<f>> \o s)[1] = f
         /\ \A n \in DOMAIN s : n + 1 \in DOMAIN (<<f>> \o s) /\ (<<f>> \o s)[n + 1] = s[n]
  OBVIOUS

(* What is still to report after the innermost wrapper, which is not about *)
(* to report c, is gone.                                                   *)
LEMMA ReportBelow ==
  ASSUME TypeOK, NEW p \in Processes, NEW c, WillReport(p, c), stack[p] # <<>>,
         ~(Top(p).at = "report" /\ Top(p).child = c)
  PROVE  /\ Rest(p) \in Seq(Frames)
         /\ \E n \in DOMAIN Rest(p) : Rest(p)[n].at = "report" /\ Rest(p)[n].child = c
<1>1. stack[p] \in Seq(Frames)
  BY DEF TypeOK
<1>2. Rest(p) \in Seq(Frames) /\ Top(p) = stack[p][1]
  BY <1>1, Popped DEF Rest, Top
<1>3. PICK n \in DOMAIN stack[p] : stack[p][n].at = "report" /\ stack[p][n].child = c
  BY DEF WillReport
<1>4. n # 1
  BY <1>2, <1>3
<1>5. n - 1 \in DOMAIN Rest(p) /\ Rest(p)[n - 1] = stack[p][n]
  BY <1>1, <1>3, <1>4, Below DEF Rest
<1> QED
  BY <1>2, <1>3, <1>5

(* A step of p's that forks nobody has to account for p's children only.   *)
LEMMA AccountedStep ==
  ASSUME ForksAccounted, NEW p \in Processes, parent' = parent, forks \subseteq forks',
         \A q \in Processes \ {p} :
           stack'[q] = stack[q] /\ state'[q] = state[q] /\ astray'[q] = astray[q],
         state'[p] = "unborn" <=> state[p] = "unborn",
         Recordless(p) => Recordless(p)',
         \A c \in Processes :
           parent[c] = p /\ WillReport(p, c) =>
             <<p, c>> \in forks' \/ Recordless(p)' \/ WillReport(p, c)'
  PROVE  ForksAccounted'
<1> SUFFICES ASSUME NEW c \in Processes \ {First}, state'[c] # "unborn"
             PROVE  \E q \in Processes :
                      /\ parent'[c] = q
                      /\ <<q, c>> \in forks' \/ Recordless(q)' \/ WillReport(q, c)'
  BY DEF ForksAccounted
<1>1. state[c] # "unborn"
  OBVIOUS
<1>2. PICK q \in Processes :
        parent[c] = q /\ (<<q, c>> \in forks \/ Recordless(q) \/ WillReport(q, c))
  BY <1>1 DEF ForksAccounted
<1>3. CASE q = p
  BY <1>2, <1>3
<1>4. CASE q # p
  <2>1. Recordless(q) => Recordless(q)'
    BY <1>4 DEF Recordless
  <2>2. WillReport(q, c) => WillReport(q, c)'
    BY <1>4 DEF WillReport
  <2> QED
    BY <1>2, <2>1, <2>2
<1> QED
  BY <1>3, <1>4

(* The alive are recordless only once they have gone astray. *)
LEMMA RecordlessGrows ==
  ASSUME NEW p \in Processes, state[p] = "alive", astray[p] \subseteq astray'[p]
  PROVE  Recordless(p) => Recordless(p)'
  BY DEF Recordless

LEMMA StrayGrows ==
  ASSUME TypeOK, NEW p \in Processes, Stray(p)
  PROVE  astray[p] \subseteq astray'[p] /\ \A q \in Processes \ {p} : astray'[q] = astray[q]
  BY DEF TypeOK, Stray, Straying

LEMMA AccountedLeave ==
  ASSUME TypeOK, ForksAccounted, NEW p \in Processes, NEW op, NEW at, At(p, op, at), Leave(p),
         state' = state, parent' = parent,
         forks' = forks \/ forks' = forks \cup {<<p, Top(p).child>>},
         at = "report" => <<p, Top(p).child>> \in forks'
  PROVE  ForksAccounted'
<1>1. /\ state[p] = "alive" /\ stack[p] # <<>> /\ Top(p).at = at
      /\ Rest(p) \in Seq(Frames)
  BY AtTop
<1>2. stack'[p] = Rest(p) /\ \A q \in Processes \ {p} : stack'[q] = stack[q]
  BY DEF Leave, TypeOK
<1>3. Stray(p)
  BY DEF Leave
<1>4. ASSUME NEW c \in Processes, WillReport(p, c)
      PROVE  <<p, c>> \in forks' \/ WillReport(p, c)'
  <2>1. CASE Top(p).at = "report" /\ Top(p).child = c
    BY <1>1, <2>1
  <2>2. CASE ~(Top(p).at = "report" /\ Top(p).child = c)
    <3>1. \E n \in DOMAIN Rest(p) : Rest(p)[n].at = "report" /\ Rest(p)[n].child = c
      BY <1>1, <1>4, <2>2, ReportBelow
    <3> QED
      BY <1>2, <3>1 DEF WillReport
  <2> QED
    BY <2>1, <2>2
<1> QED
  BY <1>1, <1>2, <1>3, <1>4, StrayGrows, RecordlessGrows, AccountedStep

LEMMA AccountedGoto ==
  ASSUME TypeOK, ForksAccounted, NEW p \in Processes, NEW op, NEW at, At(p, op, at),
         at # "report", NEW f \in Frames, Goto(p, f), Stray(p),
         state' = state, parent' = parent, forks' = forks
  PROVE  ForksAccounted'
<1>1. /\ state[p] = "alive" /\ stack[p] # <<>> /\ Top(p).at = at
      /\ Rest(p) \in Seq(Frames)
  BY AtTop
<1>2. stack'[p] = <<f>> \o Rest(p) /\ \A q \in Processes \ {p} : stack'[q] = stack[q]
  BY DEF Goto, TypeOK
<1>3. ASSUME NEW c \in Processes, WillReport(p, c)
      PROVE  WillReport(p, c)'
  <2>1. PICK n \in DOMAIN Rest(p) : Rest(p)[n].at = "report" /\ Rest(p)[n].child = c
    BY <1>1, <1>3, ReportBelow
  <2>2. n + 1 \in DOMAIN stack'[p] /\ stack'[p][n + 1] = Rest(p)[n]
    BY <1>1, <1>2, Beneath
  <2> QED
    BY <2>1, <2>2 DEF WillReport
<1> QED
  BY <1>1, <1>2, <1>3, StrayGrows, RecordlessGrows, AccountedStep

(* Nothing is left of the stack: what was still to report is Undone. *)
LEMMA AccountedEmptied ==
  ASSUME TypeOK, ForksAccounted, NEW p \in Processes, state[p] = "alive",
         stack' = [stack EXCEPT ![p] = <<>>], parent' = parent, forks' = forks,
         state'[p] # "unborn", Recordless(p) => Recordless(p)',
         \A q \in Processes \ {p} : state'[q] = state[q] /\ astray'[q] = astray[q],
         \A c \in Processes : parent[c] = p /\ WillReport(p, c) => Recordless(p)'
  PROVE  ForksAccounted'
<1>1. stack'[p] = <<>> /\ \A q \in Processes \ {p} : stack'[q] = stack[q]
  BY DEF TypeOK
<1> QED
  BY <1>1, AccountedStep

LEMMA AccountedFork ==
  ASSUME TypeOK, ForksAccounted, NEW p \in Processes, NEW c \in Processes, Fork(p, c)
  PROVE  ForksAccounted'
<1>1. /\ state[p] = "alive" /\ stack[p] # <<>> /\ Top(p).at = "start" /\ Top(p).op = "fork"
      /\ Rest(p) \in Seq(Frames) /\ Top(p) \in Frames
  BY AtTop DEF Fork
<1>2. c # p /\ state[c] = "unborn" /\ stack[c] = <<>>
  BY <1>1 DEF Fork, TypeOK
<1> DEFINE f == [Top(p) EXCEPT !.at = AfterFork(c), !.child = c]
<1>3. AfterFork(c) = "report"
  BY ProcessesAssumption DEF AfterFork
<1>4. f \in Frames /\ f.at = "report" /\ f.child = c
  <2>1. f \in Frames
    BY <1>1, <1>3, FrameTypes, ProcessesAssumption
  <2> QED
    BY <1>1, <1>3, <2>1 DEF Frames
<1>5. /\ parent'[c] = p /\ \A d \in Processes \ {c} : parent'[d] = parent[d]
      /\ forks' = forks
      /\ \A d \in Processes \ {c} : state'[d] = state[d]
  BY DEF Fork, TypeOK
<1>6. /\ stack'[p] = <<f>> \o Rest(p)
      /\ \A q \in Processes \ {p, c} : stack'[q] = stack[q]
  BY <1>2 DEF Fork, TypeOK
<1>7. Stray(p)
  BY DEF Fork
<1> HIDE DEF f
<1>8. WillReport(p, c)'
  <2>1. 1 \in DOMAIN stack'[p] /\ stack'[p][1] = f
    BY <1>1, <1>4, <1>6, Beneath
  <2> QED
    BY <1>4, <2>1 DEF WillReport
<1>9. ASSUME NEW q \in Processes, Recordless(q) PROVE Recordless(q)'
  <2>1. state'[q] = "gone" \/ state[q] # "gone"
    BY <1>2, <1>5
  <2>2. astray[q] \subseteq astray'[q]
    BY <1>7, StrayGrows
  <2> QED
    BY <1>9, <2>1, <2>2 DEF Recordless
<1>10. ASSUME NEW q \in Processes, NEW d \in Processes, WillReport(q, d) PROVE WillReport(q, d)'
  <2>1. CASE q = p
    <3>1. PICK n \in DOMAIN Rest(p) : Rest(p)[n].at = "report" /\ Rest(p)[n].child = d
      BY <1>1, <1>10, <2>1, ReportBelow
    <3>2. n + 1 \in DOMAIN stack'[p] /\ stack'[p][n + 1] = Rest(p)[n]
      BY <1>1, <1>4, <1>6, Beneath
    <3> QED
      BY <2>1, <3>1, <3>2 DEF WillReport
  <2>2. CASE q = c
    BY <1>2, <1>10, <2>2 DEF WillReport
  <2>3. CASE q # p /\ q # c
    BY <1>6, <1>10, <2>3 DEF WillReport
  <2> QED
    BY <2>1, <2>2, <2>3
<1> SUFFICES ASSUME NEW d \in Processes \ {First}, state'[d] # "unborn"
             PROVE  \E q \in Processes :
                      /\ parent'[d] = q
                      /\ <<q, d>> \in forks' \/ Recordless(q)' \/ WillReport(q, d)'
  BY DEF ForksAccounted
<1>11. CASE d = c
  BY <1>5, <1>8, <1>11
<1>12. CASE d # c
  <2>1. PICK q \in Processes :
          parent[d] = q /\ (<<q, d>> \in forks \/ Recordless(q) \/ WillReport(q, d))
    BY <1>5, <1>12 DEF ForksAccounted
  <2> QED
    BY <1>5, <1>9, <1>10, <1>12, <2>1
<1> QED
  BY <1>11, <1>12

LEMMA AccountedContinue ==
  ASSUME TypeOK, ForksAccounted, NEW p \in Processes, Continue(p)
  PROVE  ForksAccounted'
<1>1. CASE TurnedDown(p)
  BY <1>1, AccountedLeave DEF TurnedDown
<1>2. CASE AfterForkChild(p)
  BY <1>2, AccountedLeave DEF AfterForkChild
<1>3. CASE TakeBack(p)
  BY <1>3, AccountedLeave DEF TakeBack
<1>4. CASE Report(p)
  <2>1. forks' = forks \cup {<<p, Top(p).child>>}
    BY <1>4 DEF Report, Reporter, Records
  <2> QED
    BY <1>4, <2>1, AccountedLeave DEF Report
<1>5. ASSUME NEW c \in Processes, Fork(p, c) PROVE ForksAccounted'
  BY <1>5, AccountedFork
<1>6. ASSUME NEW i \in Images, Announce(p, i) PROVE ForksAccounted'
  <2>1. Top(p) \in Frames
    BY <1>6, AtTop DEF Announce
  <2> DEFINE f == [Top(p) EXCEPT !.at = "native", !.image = i]
  <2>2. f \in Frames
    BY <2>1, FrameTypes, ProcessesAssumption
  <2>3. /\ At(p, "exec", "start") /\ Goto(p, f) /\ Stray(p)
        /\ state' = state /\ parent' = parent /\ forks' = forks
    BY <1>6 DEF Announce
  <2> HIDE DEF f
  <2> QED
    BY <2>2, <2>3, AccountedGoto
<1>7. CASE ExecFails(p)
  <2>1. Top(p) \in Frames
    BY <1>7, AtTop DEF ExecFails
  <2> DEFINE f == [Top(p) EXCEPT !.at = "failed"]
  <2>2. f \in Frames
    BY <2>1, FrameTypes, ProcessesAssumption
  <2>3. /\ At(p, "exec", "native") /\ Goto(p, f) /\ Stray(p)
        /\ state' = state /\ parent' = parent /\ forks' = forks
    BY <1>7 DEF ExecFails
  <2> HIDE DEF f
  <2> QED
    BY <2>2, <2>3, AccountedGoto
<1>8. CASE Exec(p)
  <2>1. state[p] = "alive" /\ stack[p] # <<>> /\ Top(p).at = "native"
    BY <1>8, AtTop DEF Exec
  <2>2. /\ stack' = [stack EXCEPT ![p] = <<>>] /\ parent' = parent /\ forks' = forks
        /\ state' = state
        /\ astray'[p] = Straying(p) \cup IF Undone(p, Rest(p)) THEN {"replaced"} ELSE {}
        /\ \A q \in Processes \ {p} : astray'[q] = astray[q]
    BY <1>8 DEF Exec, TypeOK
  <2>3. astray[p] \subseteq astray'[p]
    BY <2>2 DEF Straying
  <2>4. ASSUME NEW c \in Processes, parent[c] = p, WillReport(p, c) PROVE Recordless(p)'
    <3>1. Undone(p, Rest(p))
      BY <2>1, <2>4, ReportBelow DEF Undone
    <3> QED
      BY <2>2, <3>1 DEF Recordless
  <2> QED
    BY <2>1, <2>2, <2>3, <2>4, RecordlessGrows, AccountedEmptied
<1> QED
  BY <1>1, <1>2, <1>3, <1>4, <1>5, <1>6, <1>7, <1>8 DEF Continue

LEMMA AccountedNext == TypeOK /\ ForksAccounted /\ [Next]_vars => ForksAccounted'
<1> SUFFICES ASSUME TypeOK, ForksAccounted, [Next]_vars PROVE ForksAccounted'
  OBVIOUS
<1>1. ASSUME NEW p \in Processes, NEW op \in {"fork", "exec"}, Enter(p, op)
      PROVE  ForksAccounted'
  <2>1. Frame(op) \in Frames
    BY ProcessesAssumption DEF Frame, Frames
  <2>2. /\ stack'[p] = <<Frame(op)>> \o stack[p] /\ stack[p] \in Seq(Frames)
        /\ \A q \in Processes \ {p} : stack'[q] = stack[q]
        /\ parent' = parent /\ state' = state /\ forks' = forks /\ astray' = astray
    BY <1>1 DEF Enter, TypeOK
  <2>3. ASSUME NEW c \in Processes, WillReport(p, c) PROVE WillReport(p, c)'
    <3>1. PICK n \in DOMAIN stack[p] : stack[p][n].at = "report" /\ stack[p][n].child = c
      BY <2>3 DEF WillReport
    <3>2. n + 1 \in DOMAIN stack'[p] /\ stack'[p][n + 1] = stack[p][n]
      BY <2>1, <2>2, Beneath
    <3> QED
      BY <3>1, <3>2 DEF WillReport
  <2>4. Recordless(p) => Recordless(p)'
    BY <2>2 DEF Recordless
  <2> QED
    BY <2>2, <2>3, <2>4, AccountedStep
<1>2. ASSUME NEW p \in Processes, Siglongjmp(p) PROVE ForksAccounted'
  <2>1. /\ state[p] = "alive"
        /\ stack' = [stack EXCEPT ![p] = <<>>] /\ parent' = parent /\ forks' = forks
        /\ state' = state
        /\ astray'[p] = astray[p] \cup IF Undone(p, stack[p]) THEN {"jumped"} ELSE {}
        /\ \A q \in Processes \ {p} : astray'[q] = astray[q]
    BY <1>2 DEF Siglongjmp, TypeOK
  <2>2. ASSUME NEW c \in Processes, parent[c] = p, WillReport(p, c) PROVE Recordless(p)'
    <3>1. Undone(p, stack[p])
      BY <2>2 DEF Undone, WillReport
    <3> QED
      BY <2>1, <3>1 DEF Recordless
  <2> QED
    BY <2>1, <2>2, RecordlessGrows, AccountedEmptied
<1>3. ASSUME NEW p \in Processes, Exit(p) PROVE ForksAccounted'
  <2>1. /\ state[p] = "alive" /\ state'[p] = "gone"
        /\ stack' = [stack EXCEPT ![p] = <<>>] /\ parent' = parent /\ forks' = forks
        /\ \A q \in Processes \ {p} : state'[q] = state[q] /\ astray'[q] = astray[q]
    BY <1>3 DEF Exit, TypeOK
  <2>2. Recordless(p)'
    BY <2>1 DEF Recordless
  <2> QED
    BY <2>1, <2>2, AccountedEmptied
<1>4. CASE UNCHANGED vars
  BY <1>4 DEF vars, ForksAccounted, Recordless, WillReport
<1> QED
  BY <1>1, <1>2, <1>3, <1>4, AccountedContinue DEF Next

(* For any processes, images, habits and nesting of handlers, no fork that *)
(* happened is missing from the log for another reason than that the       *)
(* parent is still to report it, or was killed, jumped or was replaced     *)
(* before it could (src/src/unistd.c:134-143).                             *)
THEOREM NoForkForgotten == Spec => []ForksAccounted
<1>1. Init => ForksAccounted
  BY DEF Init, ForksAccounted
<1> QED
  BY <1>1, AccountedNext, TypeCorrect, PTL DEF Spec
=============================================================================
