------------------------ MODULE ChildTracking_proofs ------------------------
(***************************************************************************)
(* ChildTracking's invariants hold for every set of threads and pids and   *)
(* every use of the wrappers the module describes.                         *)
(***************************************************************************)
EXTENDS ChildTracking, FiniteSetTheorems, TLAPS

(* Conservation is not inductive alone: if a pid could still count as a    *)
(* popen shell after its entry was gone, fork could be given it, and the   *)
(* new child would be missing from Outstanding.                            *)
ShellsAreChildren == \A p \in shells : Unreaped(p)

IInv == TypeOK /\ ShellsAreChildren /\ Conservation

Debts == {"acquire", "release"}

-----------------------------------------------------------------------------
(* The number of threads that owe a report is a natural number.            *)
LEMMA OwingFinite ==
  ASSUME NEW r \in Debts, NEW p \in Pids
  PROVE  IsFiniteSet(Owing(r, p)) /\ Cardinality(Owing(r, p)) \in Nat
<1>1. Owing(r, p) \subseteq Threads
  BY DEF Owing
<1> QED
  BY <1>1, FS_Subset, FS_CardinalityType, ThreadsAssumption

(* A native call that leaves an idle thread with a report to make adds     *)
(* that thread to the debtors of its child, and changes no other debt.     *)
LEMMA OwesMore ==
  ASSUME TypeOK, NEW t \in Threads, NEW r \in Debts, NEW p \in Pids,
         pc[t] = "idle", Owes(t, r, p)
  PROVE  /\ Cardinality(Owing(r, p)') = Cardinality(Owing(r, p)) + 1
         /\ \A s \in Debts, q \in Pids :
              s # r \/ q # p => Owing(s, q)' = Owing(s, q)
<1>1. Owing(r, p)' = Owing(r, p) \cup {t}
  BY DEF Owing, Owes, TypeOK, Debts
<1>2. t \notin Owing(r, p)
  BY DEF Owing, Debts
<1>3. Cardinality(Owing(r, p)') = Cardinality(Owing(r, p)) + 1
  <2>1. IsFiniteSet(Owing(r, p))
    BY OwingFinite
  <2>2. Cardinality(Owing(r, p) \cup {t}) = Cardinality(Owing(r, p)) + 1
    BY <1>2, <2>1, FS_AddElement
  <2> QED
    BY <1>1, <2>2
<1>4. ASSUME NEW s \in Debts, NEW q \in Pids, s # r \/ q # p
      PROVE  Owing(s, q)' = Owing(s, q)
  BY <1>4 DEF Owing, Owes, TypeOK, Debts
<1> QED
  BY <1>3, <1>4

(* Making a report, or never making it, settles exactly one debt.          *)
LEMMA OwesLess ==
  ASSUME TypeOK, NEW t \in Threads, NEW r \in Debts, NEW p \in Pids,
         pc[t] = r, pid[t] = p, Owes(t, "idle", NoPid)
  PROVE  /\ Cardinality(Owing(r, p)') = Cardinality(Owing(r, p)) - 1
         /\ \A s \in Debts, q \in Pids :
              s # r \/ q # p => Owing(s, q)' = Owing(s, q)
<1>1. Owing(r, p)' = Owing(r, p) \ {t}
  BY DEF Owing, Owes, TypeOK, Debts
<1>2. t \in Owing(r, p)
  BY DEF Owing
<1>3. Cardinality(Owing(r, p)') = Cardinality(Owing(r, p)) - 1
  <2>1. IsFiniteSet(Owing(r, p))
    BY OwingFinite
  <2>2. Cardinality(Owing(r, p) \ {t}) = Cardinality(Owing(r, p)) - 1
    BY <1>2, <2>1, FS_RemoveElement
  <2> QED
    BY <1>1, <2>2
<1>4. ASSUME NEW s \in Debts, NEW q \in Pids, s # r \/ q # p
      PROVE  Owing(s, q)' = Owing(s, q)
  BY <1>4 DEF Owing, Owes, TypeOK, Debts
<1> QED
  BY <1>3, <1>4

(* No debt changes while pc and pid do not.                                *)
LEMMA OwesSame ==
  ASSUME UNCHANGED <<pc, pid>>
  PROVE  \A s \in Debts, q \in Pids : Owing(s, q)' = Owing(s, q)
BY DEF Owing

(* What a wait of any kind does: it collects one child, recording it when  *)
(* there is a siginfo to read and WNOWAIT is not set, or finds nothing.    *)
LEMMA Collecting ==
  ASSUME NEW t \in Threads, Wait(t) \/ Waitpid(t) \/ Waitid(t)
  PROVE  \/ FindsNothing(t, FALSE)
         \/ \E p \in Pids, report \in {"exit", "news"}, info \in BOOLEAN, nowait \in BOOLEAN :
              Collects(t, p, report, info, nowait, info /\ ~nowait)
<1>1. CASE Wait(t)
  BY <1>1 DEF Wait, WaitReports, Collects
<1>2. CASE Waitpid(t)
  BY <1>2, PidsAssumption DEF Waitpid, WaitReports, Targets, Reports, Collects, FindsNothing
<1>3. CASE Waitid(t)
  <2>1. PICK info \in BOOLEAN, nowait \in BOOLEAN :
          \/ \E p \in Pids, report \in {"exit", "news"} :
               Collects(t, p, report, info, nowait, WaitidReports(p, info, nowait))
          \/ FindsNothing(t, WaitidReports(NoPid, info, nowait))
    <3>1. Targets(t) \subseteq Pids /\ Reports \subseteq {"exit", "news"} /\ Infos \subseteq BOOLEAN
      BY DEF Targets, Reports, Infos
    <3> QED
      BY <1>3, <3>1 DEF Waitid
  <2>2. ASSUME NEW p \in Pids, NEW report \in {"exit", "news"},
               Collects(t, p, report, info, nowait, WaitidReports(p, info, nowait))
        PROVE  Collects(t, p, report, info, nowait, info /\ ~nowait)
    <3>1. WaitidReports(p, info, nowait) = (info /\ ~nowait)
      BY PidsAssumption DEF WaitidReports
    <3> QED
      BY <2>2, <3>1
  <2>3. FindsNothing(t, WaitidReports(NoPid, info, nowait)) => FindsNothing(t, FALSE)
    BY PidsAssumption DEF FindsNothing, WaitidReports
  <2> QED
    BY <2>1, <2>2, <2>3
<1> QED
  BY <1>1, <1>2, <1>3

-----------------------------------------------------------------------------
(* Type correctness.                                                       *)
LEMMA TypeInit == Init => TypeOK
BY BoundsAssumption DEF Init, TypeOK

LEMMA TypeNext == TypeOK /\ [Next]_vars => TypeOK'
<1> SUFFICES ASSUME TypeOK, [Next]_vars PROVE TypeOK'
  OBVIOUS
<1> USE BoundsAssumption DEF TypeOK
<1>1. ASSUME NEW t \in Threads, Fork(t) PROVE TypeOK'
  BY <1>1 DEF Fork, Born, FreePids, Owes
<1>2. ASSUME NEW t \in Threads, NEW b \in BOOLEAN, Spawn(t, b) PROVE TypeOK'
  BY <1>2 DEF Spawn, Born, FreePids, Owes, Slips
<1>3. ASSUME NEW t \in Threads, Acquire(t) PROVE TypeOK'
  BY <1>3 DEF Acquire, Owes
<1>4. ASSUME NEW t \in Threads, Popen(t) PROVE TypeOK'
  BY <1>4 DEF Popen, Born, FreePids
<1>5. ASSUME NEW t \in Threads, NEW p \in Pids, pc[t] = "idle",
             NEW report, NEW info, NEW nowait, NEW records,
             Collects(t, p, report, info, nowait, records)
      PROVE  TypeOK'
  <2>1. child' \in [Pids -> {"none", "running", "stopped", "zombie", "gone"}]
    BY <1>5 DEF Collects, Reaped, Removed
  <2>2. news' \subseteq Pids /\ shells' \subseteq Pids /\ births' \in 0 .. MaxBirths
    BY <1>5 DEF Collects, Reaped, Removed
  <2>3. owner' \in [Pids -> Threads \cup {NoThread}]
    BY <1>5 DEF Collects, Reaped, Removed
  <2>4. gaps' \in [Pids -> 0 .. MaxGaps]
    BY <1>5 DEF Collects, Slips
  <2>5. /\ pc' \in [Threads -> {"idle", "acquire", "release"}]
        /\ pid' \in [Threads -> Pids \cup {NoPid}]
        /\ \A s \in Threads : pc'[s] # "idle" => pid'[s] \in Pids
    BY <1>5 DEF Collects, Owes
  <2>6. stream' \in [Threads -> Pids \cup {NoPid}] /\ held' \in [Pids -> Int]
    BY <1>5 DEF Collects
  <2>7. usage' = usage
    BY <1>5 DEF Collects
  <2> QED
    BY <2>1, <2>2, <2>3, <2>4, <2>5, <2>6, <2>7
<1>6. ASSUME NEW t \in Threads, Release(t) PROVE TypeOK'
  BY <1>6 DEF Release, Owes
<1>7. ASSUME NEW t \in Threads, Pclose(t) PROVE TypeOK'
  BY <1>7 DEF Pclose, Reaped, Removed, Slips
<1>8. ASSUME NEW t \in Threads, Siglongjmp(t) PROVE TypeOK'
  BY <1>8 DEF Siglongjmp, Owes, Slips
<1>9. CASE Kernel
  BY <1>9 DEF Kernel, ChildStops, ChildContinues, ChildExits
<1>10. CASE UNCHANGED vars
  BY <1>10 DEF vars
<1>11. ASSUME NEW t \in Threads, Wait(t) \/ Waitpid(t) \/ Waitid(t) PROVE TypeOK'
  <2>1. ASSUME NEW p \in Pids, NEW report, NEW info, NEW nowait, NEW records,
               Collects(t, p, report, info, nowait, records)
        PROVE  TypeOK'
    BY <1>5, <1>11, <2>1 DEF Wait, Waitpid, Waitid
  <2>2. ASSUME FindsNothing(t, FALSE) PROVE TypeOK'
    BY <2>2 DEF FindsNothing
  <2> QED
    BY <1>11, <2>1, <2>2, Collecting
<1>12. ASSUME NEW t \in Threads, WaitidLeftover(t) PROVE TypeOK'
  BY <1>12 DEF WaitidLeftover, Owes, Slips
<1>13. ASSUME NEW p \in Pids, ChildVanishes(p) PROVE TypeOK'
  BY <1>13 DEF ChildVanishes, Removed, Slips
<1> QED
  BY <1>1, <1>2, <1>3, <1>4, <1>6, <1>7, <1>8, <1>9, <1>10, <1>11, <1>12, <1>13
     DEF Next, Creates, Gathers

(* Every variable of the recorder keeps its type, whatever the program     *)
(* does with the wrappers.                                                 *)
THEOREM TypeCorrect == Spec => []TypeOK
BY TypeInit, TypeNext, PTL DEF Spec

-----------------------------------------------------------------------------
(* Every step keeps shells a set of children and the balance right.        *)

(* A new entry for p makes p Unreaped and leaves the others as they were.  *)
LEMMA BornChild ==
  ASSUME TypeOK, ShellsAreChildren, NEW p \in Pids, Born(p)
  PROVE  /\ ~Unreaped(p) /\ p \notin shells /\ Unreaped(p)'
         /\ \A q \in Pids : q # p => (Unreaped(q)' <=> Unreaped(q))
BY DEF TypeOK, ShellsAreChildren, Born, FreePids, Unreaped

LEMMA RemovedChild ==
  ASSUME TypeOK, NEW p \in Pids, Removed(p)
  PROVE  /\ ~Unreaped(p)' /\ shells' = shells \ {p}
         /\ \A q \in Pids : q # p => (Unreaped(q)' <=> Unreaped(q))
BY DEF TypeOK, Removed, Unreaped

LEMMA ShellsNext == TypeOK /\ ShellsAreChildren /\ [Next]_vars => ShellsAreChildren'
<1> SUFFICES ASSUME TypeOK, ShellsAreChildren, [Next]_vars PROVE ShellsAreChildren'
  OBVIOUS
<1>a. shells \subseteq Pids
  BY DEF TypeOK
<1>1. ASSUME NEW p \in Pids, Born(p), shells' = shells \/ shells' = shells \cup {p}
      PROVE  ShellsAreChildren'
  BY <1>a, <1>1, BornChild DEF ShellsAreChildren
<1>2. ASSUME NEW p \in Pids, Removed(p) PROVE ShellsAreChildren'
  BY <1>a, <1>2, RemovedChild DEF ShellsAreChildren
<1>3. ASSUME UNCHANGED <<child, shells>> PROVE ShellsAreChildren'
  BY <1>3 DEF ShellsAreChildren, Unreaped
<1>4. ASSUME NEW t \in Threads, Creates(t) PROVE ShellsAreChildren'
  BY <1>1, <1>3, <1>4 DEF Creates, Fork, Spawn, Acquire, Popen
<1>5. ASSUME NEW t \in Threads, Pclose(t) PROVE ShellsAreChildren'
  BY <1>2, <1>3, <1>5 DEF Pclose, Reaped, TypeOK, Unreaped
<1>6. ASSUME NEW t \in Threads, Wait(t) \/ Waitpid(t) \/ Waitid(t) PROVE ShellsAreChildren'
  BY <1>2, <1>3, <1>6, Collecting DEF Collects, Reaped, FindsNothing
<1>7. ASSUME NEW t \in Threads, Release(t) \/ Siglongjmp(t) \/ WaitidLeftover(t)
      PROVE  ShellsAreChildren'
  BY <1>3, <1>7 DEF Release, Siglongjmp, WaitidLeftover
<1>8. CASE Kernel
  BY <1>8 DEF Kernel, ChildStops, ChildContinues, ChildExits, ShellsAreChildren, Unreaped, TypeOK
<1>9. CASE UNCHANGED vars
  BY <1>3, <1>9 DEF vars
<1>10. ASSUME NEW p \in Pids, ChildVanishes(p) PROVE ShellsAreChildren'
  BY <1>2, <1>10 DEF ChildVanishes
<1> QED
  BY <1>4, <1>5, <1>6, <1>7, <1>8, <1>9, <1>10 DEF Next, Gathers

(* The balance of p moves with held[p] and with p's debtors, and with      *)
(* nothing else.                                                           *)
LEMMA BalanceType == ASSUME TypeOK, NEW p \in Pids PROVE Balance(p) \in Int
BY OwingFinite DEF TypeOK, Balance, Debts

LEMMA BalanceSame ==
  ASSUME TypeOK, UNCHANGED <<pc, pid, held>>
  PROVE  \A p \in Pids : Balance(p)' = Balance(p)
BY OwesSame DEF Balance, Debts

LEMMA BalanceOwesAcquire ==
  ASSUME TypeOK, NEW t \in Threads, NEW p \in Pids,
         pc[t] = "idle", Owes(t, "acquire", p), UNCHANGED held
  PROVE  \A q \in Pids : Balance(q)' = IF q = p THEN Balance(q) + 1 ELSE Balance(q)
<1>1. /\ Cardinality(Owing("acquire", p)') = Cardinality(Owing("acquire", p)) + 1
      /\ \A s \in Debts, q \in Pids : s # "acquire" \/ q # p => Owing(s, q)' = Owing(s, q)
  BY OwesMore DEF Debts
<1>2. \A q \in Pids : /\ Cardinality(Owing("acquire", q)) \in Nat
                      /\ Cardinality(Owing("release", q)) \in Nat
                      /\ held[q] \in Int
  BY OwingFinite DEF Debts, TypeOK
<1> QED
  BY <1>1, <1>2 DEF Balance, Debts

LEMMA BalanceOwesRelease ==
  ASSUME TypeOK, NEW t \in Threads, NEW p \in Pids,
         pc[t] = "idle", Owes(t, "release", p), UNCHANGED held
  PROVE  \A q \in Pids : Balance(q)' = IF q = p THEN Balance(q) - 1 ELSE Balance(q)
<1>1. /\ Cardinality(Owing("release", p)') = Cardinality(Owing("release", p)) + 1
      /\ \A s \in Debts, q \in Pids : s # "release" \/ q # p => Owing(s, q)' = Owing(s, q)
  BY OwesMore DEF Debts
<1>2. \A q \in Pids : /\ Cardinality(Owing("acquire", q)) \in Nat
                      /\ Cardinality(Owing("release", q)) \in Nat
                      /\ held[q] \in Int
  BY OwingFinite DEF Debts, TypeOK
<1> QED
  BY <1>1, <1>2 DEF Balance, Debts

(* Writing the event that was owed leaves every balance as it was.         *)
LEMMA BalanceReports ==
  ASSUME TypeOK, NEW t \in Threads, Acquire(t) \/ Release(t)
  PROVE  \A q \in Pids : Balance(q)' = Balance(q)
<1>1. PICK r \in Debts, p \in Pids : pc[t] = r /\ pid[t] = p
  BY DEF Acquire, Release, Debts, TypeOK
<1>2. Owes(t, "idle", NoPid)
  BY DEF Acquire, Release
<1>3. /\ Cardinality(Owing(r, p)') = Cardinality(Owing(r, p)) - 1
      /\ \A s \in Debts, q \in Pids : s # r \/ q # p => Owing(s, q)' = Owing(s, q)
  BY <1>1, <1>2, OwesLess
<1>4. \A q \in Pids : /\ Cardinality(Owing("acquire", q)) \in Nat
                      /\ Cardinality(Owing("release", q)) \in Nat
                      /\ held[q] \in Int
  BY OwingFinite DEF Debts, TypeOK
<1>5. \A q \in Pids :
        held'[q] = IF q # p THEN held[q]
                   ELSE IF r = "acquire" THEN held[q] + 1 ELSE held[q] - 1
  BY <1>1 DEF Acquire, Release, TypeOK, Debts
<1>6. CASE r = "acquire"
  BY <1>3, <1>4, <1>5, <1>6 DEF Balance, Debts
<1>7. CASE r = "release"
  BY <1>3, <1>4, <1>5, <1>7 DEF Balance, Debts
<1> QED
  BY <1>6, <1>7 DEF Debts

-----------------------------------------------------------------------------
(* Conservation, for one pid q: a step keeps the account of q as right or  *)
(* wrong as it was, or puts it wrong by one and is a Gap about q.          *)
Keeps(q)  == Skew(q)' = Skew(q) /\ gaps'[q] \in {gaps[q], gaps[q] + 1}
Spoils(q) == Skew(q)' \in {Skew(q) - 1, Skew(q) + 1} /\ gaps'[q] = gaps[q] + 1

LEMMA SkewBounded ==
  ASSUME TypeOK, TypeOK', NEW q \in Pids, Skew(q) \in -gaps[q] .. gaps[q],
         Keeps(q) \/ Spoils(q)
  PROVE  Skew(q)' \in -(gaps'[q]) .. gaps'[q]
<1>1. gaps[q] \in Nat /\ gaps'[q] \in Nat
  BY BoundsAssumption DEF TypeOK
<1>2. Skew(q) \in Int
  BY <1>1
<1>3. CASE Keeps(q)
  BY <1>1, <1>2, <1>3 DEF Keeps
<1>4. CASE Spoils(q)
  BY <1>1, <1>2, <1>4 DEF Spoils
<1> QED
  BY <1>3, <1>4

(* A call that collects p changes q's balance as it changes the number of  *)
(* q's recorded children, unless p is q and the call a Gap.                *)
LEMMA CollectsConserves ==
  ASSUME TypeOK, ShellsAreChildren, NEW t \in Threads, NEW p \in Pids, pc[t] = "idle",
         NEW report \in {"exit", "news"}, NEW info \in BOOLEAN, NEW nowait \in BOOLEAN,
         Collects(t, p, report, info, nowait, info /\ ~nowait),
         NEW q \in Pids
  PROVE  Keeps(q) \/ Spoils(q)
<1> DEFINE gap == Gap(p, report, info, nowait)
<1>1. gaps'[q] = IF gap /\ q = p THEN gaps[q] + 1 ELSE gaps[q]
  BY DEF Collects, Slips, TypeOK
<1>2. Balance(q) \in Int /\ (p \in shells => Unreaped(p))
  BY BalanceType DEF ShellsAreChildren
<1>3. CASE ~(info /\ ~nowait)
  <2>1. Balance(q)' = Balance(q)
    BY <1>3, BalanceSame DEF Collects
  <2>2. CASE UNCHANGED <<child, shells>>
    BY <1>1, <1>2, <2>1, <2>2 DEF Keeps, Skew, Outstanding, Unreaped
  <2>3. CASE Removed(p) /\ child[p] = "zombie" /\ ~nowait /\ report = "exit"
    <3>1. CASE q # p \/ p \in shells
      <4>1. Outstanding(q)' = Outstanding(q)
        BY <2>3, <3>1, RemovedChild DEF Outstanding
      <4> QED
        BY <1>1, <1>2, <2>1, <4>1 DEF Keeps, Skew
    <3>2. CASE q = p /\ p \notin shells
      <4>1. Outstanding(q) = 1 /\ Outstanding(q)' = 0
        BY <2>3, <3>2, RemovedChild DEF Outstanding, Unreaped
      <4>2. gap
        BY <1>3, <2>3, <3>2 DEF Gap
      <4> QED
        BY <1>1, <1>2, <2>1, <3>2, <4>1, <4>2 DEF Spoils, Skew
    <3> QED
      BY <3>1, <3>2
  <2> QED
    BY <2>2, <2>3 DEF Collects, Reaped
<1>4. CASE info /\ ~nowait
  <2>1. Owes(t, "release", p) /\ UNCHANGED held
    BY <1>4 DEF Collects
  <2>2. Balance(q)' = IF q = p THEN Balance(q) - 1 ELSE Balance(q)
    BY <2>1, BalanceOwesRelease
  <2>3. CASE q # p
    <3>1. Outstanding(q)' = Outstanding(q)
      BY <1>4, <2>3, RemovedChild DEF Collects, Reaped, Outstanding, Unreaped
    <3> QED
      BY <1>1, <2>2, <2>3, <3>1 DEF Keeps, Skew
  <2>4. CASE q = p /\ gap
    <3>1. Outstanding(p)' = Outstanding(p)
      <4>1. CASE report = "news"
        BY <1>4, <4>1 DEF Collects, Outstanding, Unreaped
      <4>2. CASE report # "news"
        <5>1. p \in shells /\ Removed(p)
          BY <1>4, <2>4, <4>2 DEF Gap, Collects, Reaped
        <5> QED
          BY <5>1, RemovedChild DEF Outstanding
      <4> QED
        BY <4>1, <4>2
    <3>2. Outstanding(p) \in Int
      BY DEF Outstanding
    <3> QED
      BY <1>1, <1>2, <2>2, <2>4, <3>1, <3>2 DEF Spoils, Skew
  <2>5. CASE q = p /\ ~gap
    <3>1. report = "exit" /\ p \notin shells
      BY <1>4, <2>5 DEF Gap
    <3>2. Removed(p) /\ Unreaped(p)
      BY <1>4, <3>1 DEF Collects, Reaped, Unreaped
    <3>3. Outstanding(p) = 1 /\ Outstanding(p)' = 0
      BY <3>1, <3>2, RemovedChild DEF Outstanding
    <3> QED
      BY <1>1, <1>2, <2>2, <2>5, <3>3 DEF Keeps, Skew
  <2> HIDE DEF gap
  <2> QED
    BY <2>3, <2>4, <2>5
<1> QED
  BY <1>3, <1>4

LEMMA Accounts ==
  ASSUME TypeOK, ShellsAreChildren, [Next]_vars, NEW q \in Pids
  PROVE  Keeps(q) \/ Spoils(q)
<1>a. Balance(q) \in Int /\ Outstanding(q) \in {0, 1} /\ gaps[q] \in Nat
  BY BalanceType, BoundsAssumption DEF Outstanding, TypeOK
<1>b. ASSUME NEW gap \in BOOLEAN, NEW p \in Pids, Slips(gap, p)
      PROVE  gaps'[q] = IF gap /\ q = p THEN gaps[q] + 1 ELSE gaps[q]
  BY <1>b DEF Slips, TypeOK
<1>c. ASSUME Balance(q)' = Balance(q), Outstanding(q)' = Outstanding(q), gaps'[q] = gaps[q]
      PROVE  Keeps(q)
  BY <1>c DEF Keeps, Skew
<1>1. ASSUME UNCHANGED <<pc, pid, held, shells, gaps>>, Unreaped(q)' <=> Unreaped(q)
      PROVE  Keeps(q)
  BY <1>c, <1>1, BalanceSame DEF Outstanding
<1>2. ASSUME NEW t \in Threads, NEW p \in Pids, pc[t] = "idle", gaps'[q] = gaps[q],
             Born(p), Owes(t, "acquire", p), UNCHANGED <<held, shells>>
      PROVE  Keeps(q)
  <2>1. Balance(q)' = IF q = p THEN Balance(q) + 1 ELSE Balance(q)
    BY <1>2, BalanceOwesAcquire
  <2>2. CASE q = p
    <3>1. Outstanding(p) = 0 /\ Outstanding(p)' = 1
      BY <1>2, BornChild DEF Outstanding
    <3> QED
      BY <1>2, <1>a, <2>1, <2>2, <3>1 DEF Keeps, Skew
  <2>3. CASE q # p
    <3>1. Outstanding(q)' = Outstanding(q)
      BY <1>2, <2>3, BornChild DEF Outstanding
    <3> QED
      BY <1>2, <1>c, <2>1, <2>3, <3>1
  <2> QED
    BY <2>2, <2>3
<1>3. ASSUME NEW t \in Threads, Fork(t) PROVE Keeps(q)
  BY <1>2, <1>3 DEF Fork
<1>4. ASSUME NEW t \in Threads, NEW b \in BOOLEAN, Spawn(t, b)
      PROVE  Keeps(q) \/ Spoils(q)
  <2>1. PICK p \in Pids :
          /\ Born(p) /\ Slips(~b, p)
          /\ IF b THEN Owes(t, "acquire", p) ELSE UNCHANGED <<pc, pid>>
    BY <1>4 DEF Spawn, SpawnReports
  <2>2. gaps'[q] = IF ~b /\ q = p THEN gaps[q] + 1 ELSE gaps[q]
    BY <2>1, <1>b
  <2>3. CASE b
    BY <1>2, <1>4, <2>1, <2>2, <2>3 DEF Spawn
  <2>4. CASE ~b
    <3>1. Balance(q)' = Balance(q)
      BY <1>4, <2>1, <2>4, BalanceSame DEF Spawn
    <3>2. CASE q # p
      <4>1. Outstanding(q)' = Outstanding(q)
        BY <1>4, <2>1, <3>2, BornChild DEF Spawn, Outstanding
      <4> QED
        BY <1>c, <2>2, <3>1, <3>2, <4>1
    <3>3. CASE q = p
      <4>1. Outstanding(q) = 0 /\ Outstanding(q)' = 1
        BY <1>4, <2>1, <3>3, BornChild DEF Spawn, Outstanding
      <4> QED
        BY <1>a, <2>2, <2>4, <3>1, <3>3, <4>1 DEF Spoils, Skew
    <3> QED
      BY <3>2, <3>3
  <2> QED
    BY <2>3, <2>4
<1>5. ASSUME NEW t \in Threads, Popen(t) PROVE Keeps(q)
  <2>1. PICK p \in Pids : Born(p) /\ shells' = shells \cup {p}
    BY <1>5 DEF Popen
  <2>2. Balance(q)' = Balance(q)
    BY <1>5, BalanceSame DEF Popen
  <2>3. Outstanding(q)' = Outstanding(q)
    BY <2>1, BornChild DEF Outstanding
  <2> QED
    BY <1>5, <1>c, <2>2, <2>3 DEF Popen
<1>6. ASSUME NEW t \in Threads, Acquire(t) \/ Release(t) PROVE Keeps(q)
  <2>1. UNCHANGED <<child, shells, gaps>>
    BY <1>6 DEF Acquire, Release
  <2> QED
    BY <1>6, <1>c, <2>1, BalanceReports DEF Outstanding, Unreaped
<1>7. ASSUME NEW t \in Threads, Wait(t) \/ Waitpid(t) \/ Waitid(t)
      PROVE  Keeps(q) \/ Spoils(q)
  <2>1. CASE FindsNothing(t, FALSE)
    BY <1>1, <2>1 DEF FindsNothing, Unreaped
  <2>2. CASE ~FindsNothing(t, FALSE)
    <3>1. PICK p \in Pids, report \in {"exit", "news"}, info \in BOOLEAN, nowait \in BOOLEAN :
            Collects(t, p, report, info, nowait, info /\ ~nowait)
      BY <1>7, <2>2, Collecting
    <3>2. pc[t] = "idle"
      BY <1>7 DEF Wait, Waitpid, Waitid
    <3> QED
      BY <3>1, <3>2, CollectsConserves
  <2> QED
    BY <2>1, <2>2
(* A child whose entry is removed and who was no shell is missed.          *)
<1>d. ASSUME NEW p \in Pids, Removed(p), Unreaped(p), Slips(p \notin shells, p),
             UNCHANGED <<pc, pid, held>>
      PROVE  Keeps(q) \/ Spoils(q)
  <2>1. Balance(q)' = Balance(q)
    BY <1>d, BalanceSame
  <2>2. gaps'[q] = IF p \notin shells /\ q = p THEN gaps[q] + 1 ELSE gaps[q]
    BY <1>d, <1>b
  <2>3. CASE q # p \/ p \in shells
    <3>1. Outstanding(q)' = Outstanding(q)
      BY <1>d, <2>3, RemovedChild DEF Outstanding
    <3> QED
      BY <1>c, <2>1, <2>2, <2>3, <3>1
  <2>4. CASE q = p /\ p \notin shells
    <3>1. Outstanding(q) = 1 /\ Outstanding(q)' = 0
      BY <1>d, <2>4, RemovedChild DEF Outstanding
    <3> QED
      BY <1>a, <2>1, <2>2, <2>4, <3>1 DEF Spoils, Skew
  <2> QED
    BY <2>3, <2>4
<1>8. ASSUME NEW t \in Threads, Pclose(t) PROVE Keeps(q) \/ Spoils(q)
  <2>1. UNCHANGED <<pc, pid, held>> /\ stream[t] \in Pids
    BY <1>8 DEF Pclose, TypeOK
  <2>2. CASE UNCHANGED <<child, shells, gaps>>
    BY <1>c, <2>1, <2>2, BalanceSame DEF Outstanding, Unreaped
  <2>3. CASE /\ Removed(stream[t]) /\ child[stream[t]] = "zombie"
             /\ Slips(stream[t] \notin shells, stream[t])
    BY <1>d, <2>1, <2>3 DEF Unreaped
  <2> QED
    BY <1>8, <2>2, <2>3 DEF Pclose, Reaped
<1>9. ASSUME NEW t \in Threads, Siglongjmp(t) PROVE Keeps(q) \/ Spoils(q)
  <2>1. PICK r \in Debts, p \in Pids : pc[t] = r /\ pid[t] = p
    BY <1>9 DEF Siglongjmp, Debts, TypeOK
  <2>2. gaps'[q] = IF q = p THEN gaps[q] + 1 ELSE gaps[q]
    BY <1>9, <2>1, <1>b DEF Siglongjmp
  <2>3. /\ Cardinality(Owing(r, p)') = Cardinality(Owing(r, p)) - 1
        /\ \A s \in Debts : s # r \/ q # p => Owing(s, q)' = Owing(s, q)
    BY <1>9, <2>1, OwesLess DEF Siglongjmp
  <2>4. /\ Cardinality(Owing("acquire", q)) \in Nat
        /\ Cardinality(Owing("release", q)) \in Nat
        /\ held[q] \in Int /\ held' = held
    BY <1>9, OwingFinite DEF Debts, TypeOK, Siglongjmp
  <2>5. Outstanding(q)' = Outstanding(q)
    BY <1>9 DEF Siglongjmp, Outstanding, Unreaped
  <2>6. CASE q # p
    BY <1>c, <2>2, <2>3, <2>4, <2>5, <2>6 DEF Balance, Debts
  <2>7. CASE q = p /\ r = "acquire"
    <3>1. Balance(q)' = Balance(q) - 1
      BY <2>3, <2>4, <2>7 DEF Balance, Debts
    <3> QED
      BY <1>a, <2>2, <2>5, <2>7, <3>1 DEF Spoils, Skew
  <2>8. CASE q = p /\ r = "release"
    <3>1. Balance(q)' = Balance(q) + 1
      BY <2>3, <2>4, <2>8 DEF Balance, Debts
    <3> QED
      BY <1>a, <2>2, <2>5, <2>8, <3>1 DEF Spoils, Skew
  <2> QED
    BY <2>6, <2>7, <2>8 DEF Debts
<1>10. ASSUME NEW t \in Threads, WaitidLeftover(t) PROVE Keeps(q) \/ Spoils(q)
  <2>1. PICK p \in Pids : Owes(t, "release", p) /\ Slips(TRUE, p)
    BY <1>10 DEF WaitidLeftover
  <2>2. gaps'[q] = IF q = p THEN gaps[q] + 1 ELSE gaps[q]
    BY <2>1, <1>b
  <2>3. Balance(q)' = IF q = p THEN Balance(q) - 1 ELSE Balance(q)
    BY <1>10, <2>1, BalanceOwesRelease DEF WaitidLeftover
  <2>4. Outstanding(q)' = Outstanding(q)
    BY <1>10 DEF WaitidLeftover, Outstanding, Unreaped
  <2> QED
    BY <1>a, <1>c, <2>2, <2>3, <2>4 DEF Spoils, Skew
<1>11. CASE Kernel
  <2>1. UNCHANGED <<pc, pid, held, shells, gaps>>
    BY <1>11 DEF Kernel, ChildStops, ChildContinues, ChildExits
  <2>2. Unreaped(q)' <=> Unreaped(q)
    BY <1>11 DEF Kernel, ChildStops, ChildContinues, ChildExits, TypeOK, Unreaped
  <2> QED
    BY <1>1, <2>1, <2>2
<1>12. CASE UNCHANGED vars
  BY <1>1, <1>12 DEF vars, Unreaped
<1>13. ASSUME NEW p \in Pids, ChildVanishes(p) PROVE Keeps(q) \/ Spoils(q)
  BY <1>d, <1>13 DEF ChildVanishes, Unreaped
<1> QED
  BY <1>3, <1>4, <1>5, <1>6, <1>7, <1>8, <1>9, <1>10, <1>11, <1>12, <1>13
     DEF Next, Creates, Gathers

LEMMA ConservationNext ==
  TypeOK /\ ShellsAreChildren /\ Conservation /\ [Next]_vars => Conservation'
<1> SUFFICES ASSUME TypeOK, ShellsAreChildren, Conservation, [Next]_vars, NEW q \in Pids
             PROVE  Skew(q)' \in -(gaps'[q]) .. gaps'[q]
  BY DEF Conservation
<1>1. TypeOK' /\ Skew(q) \in -gaps[q] .. gaps[q]
  BY TypeNext DEF Conservation
<1> QED
  BY <1>1, Accounts, SkewBounded

(* At the start there are no children, no debts and no events.             *)
LEMMA IInvInit == Init => IInv
<1> SUFFICES ASSUME Init PROVE IInv
  OBVIOUS
<1>1. \A r \in Debts, p \in Pids : Owing(r, p) = {}
  BY DEF Init, Owing, Debts
<1>2. ASSUME NEW p \in Pids PROVE Skew(p) \in -gaps[p] .. gaps[p]
  <2>1. Cardinality(Owing("acquire", p)) = 0 /\ Cardinality(Owing("release", p)) = 0
    BY <1>1, FS_EmptySet DEF Debts
  <2>2. held[p] = 0 /\ gaps[p] = 0 /\ Outstanding(p) = 0
    BY DEF Init, Outstanding, Unreaped
  <2> QED
    BY <2>1, <2>2 DEF Skew, Balance
<1> QED
  BY <1>2, TypeInit DEF IInv, Conservation, ShellsAreChildren, Init

LEMMA IInvNext == IInv /\ [Next]_vars => IInv'
BY TypeNext, ShellsNext, ConservationNext DEF IInv

(* However the wrappers of any number of threads interleave, and however   *)
(* the kernel reuses pids, the log and its pending reports account for     *)
(* every child, wrong by at most one for each Gap about its pid.           *)
THEOREM LogConserved == Spec => []Conservation
BY IInvInit, IInvNext, PTL DEF Spec, IInv

(* So, when no thread has a report about p to make and no call about p     *)
(* fell into a Gap, the log holds p exactly as long as an unreaped child   *)
(* of fork or spawn has it: no leak is invented and none is hidden.        *)
Settled(p) == gaps[p] = 0 /\ \A t \in Threads : pc[t] # "idle" => pid[t] # p

LogExact == \A p \in Pids : Settled(p) => held[p] = Outstanding(p)

THEOREM LogExactWhenSettled == Spec => []LogExact
<1>1. ASSUME TypeOK, Conservation PROVE LogExact
  <2> SUFFICES ASSUME NEW p \in Pids, Settled(p) PROVE held[p] = Outstanding(p)
    BY DEF LogExact
  <2>1. \A r \in Debts : Owing(r, p) = {}
    BY DEF Settled, Owing, Debts
  <2>2. \A r \in Debts : Cardinality(Owing(r, p)) = 0
    BY <2>1, FS_EmptySet
  <2>3. Balance(p) = held[p]
    BY <1>1, <2>2 DEF Balance, Debts, TypeOK
  <2>4. Skew(p) \in 0 .. 0 /\ held[p] \in Int /\ Outstanding(p) \in Int
    BY <1>1 DEF Settled, Conservation, TypeOK, Outstanding
  <2> QED
    BY <2>3, <2>4 DEF Skew
<1>2. TypeOK /\ Conservation => LogExact
  BY <1>1
<1> QED
  BY <1>2, TypeCorrect, LogConserved, PTL
=============================================================================
