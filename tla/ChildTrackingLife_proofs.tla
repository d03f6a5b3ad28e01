---------------------- MODULE ChildTrackingLife_proofs ----------------------
(***************************************************************************)
(* What the log of a program shows whose threads wait only for the         *)
(* children they were handed, for every number of threads and pids: with   *)
(* pids reused it never shows a release first, and without reuse it shows  *)
(* the lives of ChildLife.                                                 *)
(***************************************************************************)
EXTENDS ChildTrackingLife, ChildTracking_proofs

(* A call about p falls into a Gap, or a report about p is jumped over:    *)
(* the other pids, and what is owed about them, are left alone.            *)
Loses(p) ==
  /\ gaps' = [gaps EXCEPT ![p] = @ + 1]
  /\ \A q \in Pids \ {p} :
       /\ child'[q] = child[q] /\ owner'[q] = owner[q] /\ held'[q] = held[q]
       /\ q \in shells' <=> q \in shells
  /\ \A u \in Threads :
       pc'[u] # "idle" /\ pid'[u] # p => pc'[u] = pc[u] /\ pid'[u] = pid[u]

(* The creation of a child to be reported, and of a shell; and the reaping *)
(* of one to be reported, and of a shell.                                  *)
Begets(t, p) ==
  /\ pc[t] = "idle" /\ Born(p) /\ Owes(t, "acquire", p)
  /\ UNCHANGED <<shells, owner, held, gaps>>
Shells(p) ==
  /\ "popen" \in usage /\ Born(p) /\ shells' = shells \cup {p}
  /\ UNCHANGED <<owner, pc, pid, held, gaps>>
Reaps(t, p) ==
  /\ pc[t] = "idle" /\ owner[p] = t /\ child[p] = "zombie" /\ Reaped(p)
  /\ Owes(t, "release", p) /\ UNCHANGED <<held, gaps>>
Unshells(p) == p \in shells /\ Removed(p) /\ UNCHANGED <<pc, pid, held, gaps>>

Idles == UNCHANGED <<child, shells, owner, pc, pid, held, gaps>>

(* Whatever a wait collects for such a program.                            *)
LEMMA OwnCollected ==
  ASSUME TypeOK, NEW t \in Threads, NEW p \in Pids, pc[t] = "idle", owner[p] = t,
         NEW report \in {"exit", "news"}, NEW info \in BOOLEAN, NEW nowait \in BOOLEAN,
         Collects(t, p, report, info, nowait, info /\ ~nowait)
  PROVE  Loses(p) \/ Reaps(t, p) \/ Unshells(p) \/ Idles
<1>1. CASE nowait
  BY <1>1 DEF Collects, Gap, Slips, Idles
<1>2. CASE ~nowait /\ Gap(p, report, info, nowait)
  <2>1. gaps' = [gaps EXCEPT ![p] = @ + 1] /\ held' = held
    BY <1>2 DEF Collects, Slips
  <2>2. \A q \in Pids \ {p} :
          child'[q] = child[q] /\ owner'[q] = owner[q] /\ (q \in shells' <=> q \in shells)
    BY <1>2 DEF Collects, Reaped, Removed, TypeOK
  <2>3. Owes(t, "release", p) \/ UNCHANGED <<pc, pid>>
    BY DEF Collects
  <2>4. \A u \in Threads : u = t \/ (pc'[u] = pc[u] /\ pid'[u] = pid[u])
    BY <2>3 DEF Owes, TypeOK
  <2>5. pid'[t] = p \/ pc'[t] = "idle"
    BY <2>3 DEF Owes, TypeOK
  <2> QED
    BY <2>1, <2>2, <2>4, <2>5 DEF Loses
<1>3. CASE ~nowait /\ ~Gap(p, report, info, nowait)
  <2>1. gaps' = gaps /\ held' = held
    BY <1>3 DEF Collects, Slips
  <2>2. CASE report = "news"
    BY <1>3, <2>1, <2>2 DEF Collects, Gap, Idles
  <2>3. CASE report = "exit" /\ info
    BY <1>3, <2>1, <2>3 DEF Collects, Reaps
  <2>4. CASE report = "exit" /\ ~info
    BY <1>3, <2>1, <2>4 DEF Collects, Gap, Unshells, Reaped
  <2> QED
    BY <2>2, <2>3, <2>4
<1> QED
  BY <1>1, <1>2, <1>3

(* What is left of each action for such a program.                         *)
LEMMA OwnSteps ==
  ASSUME "any_child" \notin usage, TypeOK, NEW t \in Threads,
         Creates(t) \/ Gathers(t) \/ Siglongjmp(t)
  PROVE  \/ \E p \in Pids : Begets(t, p) \/ Shells(p) \/ Loses(p) \/ Reaps(t, p) \/ Unshells(p)
         \/ Acquire(t) \/ Release(t) \/ Idles
<1>1. CASE Fork(t)
  BY <1>1 DEF Fork, Begets
<1>2. ASSUME NEW b \in BOOLEAN, Spawn(t, b)
      PROVE  \E p \in Pids : Begets(t, p) \/ Loses(p)
  <2>1. PICK p \in Pids :
          /\ Born(p) /\ Slips(~b, p)
          /\ IF b THEN Owes(t, "acquire", p) ELSE UNCHANGED <<pc, pid>>
    BY <1>2 DEF Spawn, SpawnReports
  <2>2. CASE b
    BY <1>2, <2>1, <2>2 DEF Spawn, Slips, Begets
  <2>3. CASE ~b
    BY <1>2, <2>1, <2>3 DEF Spawn, Slips, Born, Loses, TypeOK
  <2> QED
    BY <2>2, <2>3
<1>3. CASE Popen(t)
  BY <1>3 DEF Popen, Shells
<1>4. CASE Waitpid(t)
  <2>1. pc[t] = "idle"
    BY <1>4 DEF Waitpid
  <2>2. CASE FindsNothing(t, WaitReports(NoPid))
    BY <2>2, PidsAssumption DEF FindsNothing, WaitReports, Idles
  <2>3. ASSUME NEW p \in Targets(t), NEW report \in Reports,
               Collects(t, p, report, TRUE, FALSE, WaitReports(p))
        PROVE  p \in Pids /\ (Loses(p) \/ Reaps(t, p) \/ Unshells(p) \/ Idles)
    <3>1. p \in Pids /\ owner[p] = t /\ report \in {"exit", "news"}
      BY DEF Targets, Reports
    <3>2. Collects(t, p, report, TRUE, FALSE, TRUE /\ ~FALSE)
      BY <2>3, <3>1 DEF WaitReports, Collects
    <3> QED
      BY <2>1, <3>1, <3>2, OwnCollected
  <2> QED
    BY <1>4, <2>2, <2>3 DEF Waitpid
<1>5. CASE Waitid(t)
  <2>1. pc[t] = "idle"
    BY <1>5 DEF Waitid
  <2>2. PICK info \in Infos, nowait \in BOOLEAN :
          \/ \E p \in Targets(t), report \in Reports :
               Collects(t, p, report, info, nowait, WaitidReports(p, info, nowait))
          \/ FindsNothing(t, WaitidReports(NoPid, info, nowait))
    BY <1>5 DEF Waitid
  <2>3. CASE FindsNothing(t, WaitidReports(NoPid, info, nowait))
    BY <2>3, PidsAssumption DEF FindsNothing, WaitidReports, Idles
  <2>4. ASSUME NEW p \in Targets(t), NEW report \in Reports,
               Collects(t, p, report, info, nowait, WaitidReports(p, info, nowait))
        PROVE  p \in Pids /\ (Loses(p) \/ Reaps(t, p) \/ Unshells(p) \/ Idles)
    <3>1. p \in Pids /\ owner[p] = t /\ report \in {"exit", "news"} /\ info \in BOOLEAN
      BY DEF Targets, Reports, Infos
    <3>2. Collects(t, p, report, info, nowait, info /\ ~nowait)
      BY <2>4, <3>1 DEF WaitidReports, Collects
    <3> QED
      BY <2>1, <3>1, <3>2, OwnCollected
  <2> QED
    BY <2>2, <2>3, <2>4
<1>6. CASE WaitidLeftover(t)
  <2>1. PICK p \in Pids : Owes(t, "release", p) /\ Slips(TRUE, p)
    BY <1>6 DEF WaitidLeftover
  <2> QED
    BY <1>6, <2>1 DEF WaitidLeftover, Owes, Slips, Loses, TypeOK
<1>7. CASE Pclose(t)
  <2>1. stream[t] \in Pids
    BY <1>7 DEF Pclose, TypeOK
  <2>2. CASE ~Unreaped(stream[t]) /\ UNCHANGED <<child, news, shells, owner, births, gaps>>
    BY <1>7, <2>2 DEF Pclose, Idles
  <2>3. CASE Reaped(stream[t]) /\ Slips(stream[t] \notin shells, stream[t])
    <3>1. CASE stream[t] \in shells
      <4>1. gaps' = gaps
        BY <2>3, <3>1 DEF Slips
      <4>2. UNCHANGED <<pc, pid, held>>
        BY <1>7 DEF Pclose
      <4>3. Unshells(stream[t])
        BY <2>3, <3>1, <4>1, <4>2 DEF Unshells, Reaped
      <4> QED
        BY <2>1, <4>3
    <3>2. CASE stream[t] \notin shells
      BY <1>7, <2>3, <3>2 DEF Pclose, Reaped, Removed, Slips, Loses, TypeOK
    <3> QED
      BY <2>1, <3>1, <3>2
  <2> QED
    BY <1>7, <2>2, <2>3 DEF Pclose
<1>8. CASE Siglongjmp(t)
  <2>1. pid[t] \in Pids
    BY <1>8 DEF Siglongjmp, TypeOK
  <2>2. Loses(pid[t])
    BY <1>8, <2>1 DEF Siglongjmp, Owes, Slips, Loses, TypeOK
  <2> QED
    BY <2>1, <2>2
<1>9. ~Wait(t)
  BY DEF Wait
<1> QED
  BY <1>1, <1>2, <1>3, <1>4, <1>5, <1>6, <1>7, <1>8, <1>9 DEF Creates, Gathers

(* And of the kernel's.                                                    *)
LEMMA KernelSteps ==
  ASSUME TypeOK, Kernel
  PROVE  /\ UNCHANGED <<shells, owner, pc, pid, held, gaps>>
         /\ \A p \in Pids :
              /\ Unreaped(p)' <=> Unreaped(p)
              /\ (child'[p] = "gone" <=> child[p] = "gone")
              /\ (child'[p] = "none" <=> child[p] = "none")
  BY DEF Kernel, ChildStops, ChildContinues, ChildExits, Unreaped, TypeOK

(* A child that vanishes is lost to the log, unless it was a shell.        *)
LEMMA VanishSteps ==
  ASSUME TypeOK, NEW p \in Pids, ChildVanishes(p)
  PROVE  Loses(p) \/ Unshells(p)
<1>1. CASE p \in shells
  BY <1>1 DEF ChildVanishes, Slips, Unshells
<1>2. CASE p \notin shells
  BY <1>2 DEF ChildVanishes, Slips, Removed, Loses, TypeOK
<1> QED
  BY <1>1, <1>2

-----------------------------------------------------------------------------
(* A child that no call has lost belongs to the thread that was handed it, *)
(* and to nobody before its acquire event, which one thread alone owes.    *)
Handed(p) ==
  /\ owner[p] # NoThread => Unreaped(p) /\ p \notin shells
  /\ \A t \in Threads :
       pc[t] = "acquire" /\ pid[t] = p =>
         Unreaped(p) /\ p \notin shells /\ owner[p] = NoThread
  /\ \A t, u \in Threads :
       pc[t] = "acquire" /\ pc[u] = "acquire" /\ pid[t] = p /\ pid[u] = p => t = u

HInv == IInv /\ \A p \in Pids : gaps[p] = 0 => Handed(p)

LEMMA HandedInit == Init => HInv
  BY IInvInit DEF Init, HInv, Handed

(* A step that loses p does nothing to the others.                         *)
LEMMA HandedBeside ==
  ASSUME TypeOK, NEW p \in Pids, Loses(p), NEW q \in Pids, gaps'[q] = 0,
         gaps[q] = 0 => Handed(q)
  PROVE  Handed(q)'
<1>1. q # p /\ gaps[q] = 0
  BY DEF Loses, TypeOK
<1>2. /\ child'[q] = child[q] /\ owner'[q] = owner[q] /\ (q \in shells' <=> q \in shells)
      /\ \A u \in Threads : pc'[u] # "idle" /\ pid'[u] = q => pc'[u] = pc[u] /\ pid[u] = q
  BY <1>1 DEF Loses
<1> QED
  BY <1>1, <1>2 DEF Handed, Unreaped

LEMMA HandedNext ==
  ASSUME "any_child" \notin usage, HInv, [Next]_vars
  PROVE  HInv'
<1>a. TypeOK /\ ShellsAreChildren
  BY DEF HInv, IInv
<1>b. ASSUME NEW p \in Pids, gaps[p] = 0 PROVE Handed(p)
  BY <1>b DEF HInv
<1> SUFFICES ASSUME NEW q \in Pids, gaps'[q] = 0 PROVE Handed(q)'
  BY IInvNext DEF HInv
<1>1. ASSUME NEW t \in Threads, NEW p \in Pids, Begets(t, p) PROVE Handed(q)'
  <2>1. ~Unreaped(p) /\ p \notin shells /\ Unreaped(p)'
    BY <1>a, <1>1, BornChild DEF Begets
  <2>2. gaps[q] = 0 /\ shells' = shells /\ owner' = owner
    BY <1>1 DEF Begets
  <2>3. CASE q = p
    BY <1>a, <1>1, <1>b, <2>1, <2>2, <2>3 DEF Begets, Owes, Handed, TypeOK
  <2>4. CASE q # p
    BY <1>a, <1>1, <1>b, <2>2, <2>4 DEF Begets, Born, Owes, Handed, Unreaped, TypeOK
  <2> QED
    BY <2>3, <2>4
<1>2. ASSUME NEW p \in Pids, Shells(p) PROVE Handed(q)'
  <2>1. ~Unreaped(p)
    BY <1>a, <1>2, BornChild DEF Shells
  <2> QED
    BY <1>a, <1>2, <1>b, <2>1 DEF Shells, Born, Handed, Unreaped, TypeOK
<1>3. ASSUME NEW p \in Pids, Loses(p) PROVE Handed(q)'
  BY <1>a, <1>3, <1>b, HandedBeside
<1>4. ASSUME NEW t \in Threads, NEW p \in Pids, Reaps(t, p) PROVE Handed(q)'
  BY <1>a, <1>4, <1>b, ThreadsAssumption
     DEF Reaps, Reaped, Removed, Owes, Handed, Unreaped, TypeOK
<1>5. ASSUME NEW p \in Pids, Unshells(p) PROVE Handed(q)'
  BY <1>a, <1>5, <1>b DEF Unshells, Removed, Handed, Unreaped, TypeOK
<1>6. ASSUME NEW t \in Threads, Acquire(t) PROVE Handed(q)'
  BY <1>a, <1>6, <1>b DEF Acquire, Owes, Handed, Unreaped, TypeOK
<1>7. ASSUME NEW t \in Threads, Release(t) PROVE Handed(q)'
  BY <1>a, <1>7, <1>b DEF Release, Owes, Handed, Unreaped, TypeOK
<1>8. CASE Idles
  BY <1>8, <1>b DEF Idles, Handed, Unreaped
<1>9. CASE Kernel
  BY <1>a, <1>9, <1>b, KernelSteps DEF Handed
<1>10. CASE UNCHANGED vars
  BY <1>10, <1>b DEF vars, Handed, Unreaped
<1>11. ASSUME NEW p \in Pids, ChildVanishes(p) PROVE Handed(q)'
  BY <1>a, <1>3, <1>5, <1>11, VanishSteps
<1> QED
  BY <1>a, <1>1, <1>2, <1>3, <1>4, <1>5, <1>6, <1>7, <1>8, <1>9, <1>10, <1>11, OwnSteps DEF Next

(* No step changes what the program and the kernel do.                     *)
LEMMA SameUsage ==
  ASSUME [Next]_vars
  PROVE  usage' = usage
<1>1. ASSUME NEW t \in Threads, Creates(t) PROVE usage' = usage
  BY <1>1 DEF Creates, Fork, Spawn, Acquire, Popen
<1>2. ASSUME NEW t \in Threads, Wait(t) \/ Waitpid(t) \/ Waitid(t) PROVE usage' = usage
  BY <1>2, Collecting DEF Collects, FindsNothing
<1>3. ASSUME NEW t \in Threads,
             WaitidLeftover(t) \/ Release(t) \/ Pclose(t) \/ Siglongjmp(t)
      PROVE  usage' = usage
  BY <1>3 DEF WaitidLeftover, Release, Pclose, Siglongjmp
<1>4. CASE Kernel
  BY <1>4 DEF Kernel, ChildStops, ChildContinues, ChildExits
<1>5. ASSUME NEW p \in Pids, ChildVanishes(p) PROVE usage' = usage
  BY <1>5 DEF ChildVanishes
<1> QED
  BY <1>1, <1>2, <1>3, <1>4, <1>5 DEF Next, Gathers, vars

OwnInv == "any_child" \notin usage => HInv

(* A program that waits only for what it was handed never gets a release   *)
(* logged before its acquire, and no more open acquires than the child and *)
(* the releases still owed, however soon the kernel reuses the pid and     *)
(* whatever it does to other children.                                     *)
THEOREM ReleasedAfterAcquired == Spec => []NeverReleasedFirst
<1>1. OwnInv => NeverReleasedFirst
  <2> SUFFICES ASSUME HInv, NEW p \in Pids, gaps[p] = 0
               PROVE  held[p] \in 0 .. 1 + Cardinality(Owing("release", p))
    BY DEF NeverReleasedFirst, OwnInv
  <2>1. held[p] + Cardinality(Owing("acquire", p)) - Cardinality(Owing("release", p))
          = Outstanding(p)
    <3>1. Skew(p) \in -0 .. 0
      BY DEF HInv, IInv, Conservation
    <3>2. Balance(p) \in Int /\ Outstanding(p) \in Int
      BY BalanceType DEF HInv, IInv, Outstanding
    <3> QED
      BY <3>1, <3>2 DEF Skew, Balance
  <2>2. held[p] \in Int /\ Cardinality(Owing("release", p)) \in Nat
    BY OwingFinite DEF HInv, IInv, TypeOK, Debts
  <2>3. CASE Owing("acquire", p) = {}
    <3>1. Cardinality(Owing("acquire", p)) = 0
      BY <2>3, FS_EmptySet
    <3> QED
      BY <2>1, <2>2, <3>1 DEF Outstanding
  <2>4. ASSUME NEW t \in Owing("acquire", p) PROVE held[p] = Cardinality(Owing("release", p))
    <3>1. Owing("acquire", p) = {t} /\ Outstanding(p) = 1
      BY DEF HInv, Handed, Owing, Outstanding
    <3>2. Cardinality(Owing("acquire", p)) = 1
      BY <3>1, FS_Singleton
    <3> QED
      BY <2>1, <2>2, <3>1, <3>2
  <2> QED
    BY <2>2, <2>3, <2>4
<1>2. Init => OwnInv
  BY HandedInit DEF OwnInv
<1>3. OwnInv /\ [Next]_vars => OwnInv'
  BY HandedNext, SameUsage DEF OwnInv
<1> QED
  BY <1>1, <1>2, <1>3, PTL DEF Spec

-----------------------------------------------------------------------------
(* Refinement, for a kernel that does not reuse pids and a program that    *)
(* has no shells.  Beside who may wait for whom, the log must be known to  *)
(* be level with the kernel but for the one report that may be owed.       *)
Level(p) ==
  /\ owner[p] # NoThread => held[p] = 1
  /\ child[p] = "none" => held[p] = 0
  /\ held[p] \in {0, 1}
  /\ \A t \in Threads : pc[t] = "acquire" /\ pid[t] = p => held[p] = 0
  /\ \A t \in Threads :
       pc[t] = "release" /\ pid[t] = p => child[p] = "gone" /\ held[p] = 1
  /\ \A t, u \in Threads :
       pc[t] = "release" /\ pc[u] = "release" /\ pid[t] = p /\ pid[u] = p => t = u

RInv == HInv /\ shells = {} /\ \A p \in Pids : gaps[p] = 0 => Level(p)

LEMMA LevelInit == Init => RInv
  BY HandedInit DEF Init, RInv, Level

LEMMA LevelBeside ==
  ASSUME TypeOK, NEW p \in Pids, Loses(p), NEW q \in Pids, gaps'[q] = 0,
         gaps[q] = 0 => Level(q)
  PROVE  Level(q)'
<1>1. q # p /\ gaps[q] = 0
  BY DEF Loses, TypeOK
<1>2. /\ child'[q] = child[q] /\ owner'[q] = owner[q] /\ held'[q] = held[q]
      /\ \A u \in Threads : pc'[u] # "idle" /\ pid'[u] = q => pc'[u] = pc[u] /\ pid[u] = q
  BY <1>1 DEF Loses
<1> QED
  BY <1>1, <1>2 DEF Level

LEMMA NoShells ==
  ASSUME "popen" \notin usage, TypeOK, shells = {}, [Next]_vars
  PROVE  shells' = {}
<1>1. ASSUME NEW t \in Threads, Creates(t) PROVE shells' = {}
  BY <1>1 DEF Creates, Fork, Spawn, Acquire, Popen
<1>2. ASSUME NEW t \in Threads, Gathers(t) PROVE shells' = {}
  <2>1. ASSUME NEW p, NEW report, NEW info, NEW nowait, NEW records,
               Collects(t, p, report, info, nowait, records)
        PROVE  shells' = {}
    BY <2>1 DEF Collects, Reaped, Removed
  <2>2. ASSUME NEW records, FindsNothing(t, records) PROVE shells' = {}
    BY <2>2 DEF FindsNothing
  <2>3. CASE Wait(t)
    BY <2>3, <2>1 DEF Wait
  <2>4. CASE Waitpid(t)
    BY <2>4, <2>1, <2>2 DEF Waitpid
  <2>5. CASE Waitid(t)
    BY <2>5, <2>1, <2>2 DEF Waitid
  <2>6. CASE WaitidLeftover(t) \/ Release(t)
    BY <2>6 DEF WaitidLeftover, Release
  <2>7. CASE Pclose(t)
    BY <2>7 DEF Pclose, Reaped, Removed
  <2> QED
    BY <1>2, <2>3, <2>4, <2>5, <2>6, <2>7 DEF Gathers
<1>3. ASSUME NEW t \in Threads, Siglongjmp(t) PROVE shells' = {}
  BY <1>3 DEF Siglongjmp
<1>4. CASE Kernel
  BY <1>4 DEF Kernel, ChildStops, ChildContinues, ChildExits
<1>5. CASE UNCHANGED vars
  BY <1>5 DEF vars
<1>6. ASSUME NEW p \in Pids, ChildVanishes(p) PROVE shells' = {}
  BY <1>6 DEF ChildVanishes, Removed
<1> QED
  BY <1>1, <1>2, <1>3, <1>4, <1>5, <1>6 DEF Next

Unused == {"any_child", "pid_reuse", "popen"}

LEMMA LevelNext ==
  ASSUME usage \cap Unused = {}, RInv, [Next]_vars
  PROVE  RInv'
<1>a. /\ TypeOK /\ shells = {} /\ "any_child" \notin usage
      /\ "pid_reuse" \notin usage /\ "popen" \notin usage
  BY DEF RInv, HInv, IInv, Unused
<1>b. ASSUME NEW p \in Pids, gaps[p] = 0 PROVE Handed(p) /\ Level(p)
  BY <1>b DEF RInv, HInv
<1>c. HInv' /\ shells' = {}
  BY <1>a, HandedNext, NoShells DEF RInv
<1> SUFFICES ASSUME NEW q \in Pids, gaps'[q] = 0 PROVE Level(q)'
  BY <1>c DEF RInv
<1>1. ASSUME NEW t \in Threads, NEW p \in Pids, Begets(t, p) PROVE Level(q)'
  <2>1. child[p] = "none" /\ gaps' = gaps
    BY <1>a, <1>1 DEF Begets, Born, FreePids
  <2>2. CASE q = p
    BY <1>a, <1>1, <1>b, <2>1, <2>2 DEF Begets, Born, Owes, Handed, Level, Unreaped, TypeOK
  <2>3. CASE q # p
    BY <1>a, <1>1, <1>b, <2>1, <2>3 DEF Begets, Born, Owes, Level, TypeOK
  <2> QED
    BY <2>2, <2>3
<1>2. ASSUME NEW p \in Pids, Shells(p) PROVE Level(q)'
  BY <1>a, <1>2 DEF Shells
<1>3. ASSUME NEW p \in Pids, Loses(p) PROVE Level(q)'
  BY <1>a, <1>3, <1>b, LevelBeside
<1>4. ASSUME NEW t \in Threads, NEW p \in Pids, Reaps(t, p) PROVE Level(q)'
  <2>1. gaps' = gaps /\ owner[p] = t /\ child[p] = "zombie"
    BY <1>4 DEF Reaps
  <2>2. CASE q = p
    BY <1>a, <1>4, <1>b, <2>1, <2>2, ThreadsAssumption
       DEF Reaps, Reaped, Removed, Owes, Handed, Level, TypeOK
  <2>3. CASE q # p
    BY <1>a, <1>4, <1>b, <2>1, <2>3 DEF Reaps, Reaped, Removed, Owes, Level, TypeOK
  <2> QED
    BY <2>2, <2>3
<1>5. ASSUME NEW p \in Pids, Unshells(p) PROVE Level(q)'
  BY <1>a, <1>5 DEF Unshells
<1>6. ASSUME NEW t \in Threads, Acquire(t) PROVE Level(q)'
  <2>1. gaps' = gaps /\ child' = child
    BY <1>6 DEF Acquire
  <2>2. CASE q = pid[t]
    BY <1>a, <1>6, <1>b, <2>1, <2>2 DEF Acquire, Owes, Handed, Level, Unreaped, TypeOK
  <2>3. CASE q # pid[t]
    BY <1>a, <1>6, <1>b, <2>1, <2>3 DEF Acquire, Owes, Level, TypeOK
  <2> QED
    BY <2>2, <2>3
<1>7. ASSUME NEW t \in Threads, Release(t) PROVE Level(q)'
  <2>1. gaps' = gaps /\ child' = child
    BY <1>7 DEF Release
  <2>2. CASE q = pid[t]
    BY <1>a, <1>7, <1>b, <2>1, <2>2 DEF Release, Owes, Handed, Level, Unreaped, TypeOK
  <2>3. CASE q # pid[t]
    BY <1>a, <1>7, <1>b, <2>1, <2>3 DEF Release, Owes, Level, TypeOK
  <2> QED
    BY <2>2, <2>3
<1>8. CASE Idles
  BY <1>8, <1>b DEF Idles, Level
<1>9. CASE Kernel
  BY <1>a, <1>9, <1>b, KernelSteps DEF Level
<1>10. CASE UNCHANGED vars
  BY <1>10, <1>b DEF vars, Level
<1>11. ASSUME NEW p \in Pids, ChildVanishes(p) PROVE Level(q)'
  BY <1>a, <1>3, <1>5, <1>11, VanishSteps
<1> QED
  BY <1>a, <1>1, <1>2, <1>3, <1>4, <1>5, <1>6, <1>7, <1>8, <1>9, <1>10, <1>11, OwnSteps DEF Next

(* A step that changes the stage of one pid only is a step of ChildLife.   *)
LEMMA MovesOne ==
  ASSUME NEW p \in Pids, NEW from, NEW to, Stage(p) = from, Stage(p)' = to,
         \A q \in Pids \ {p} : Stage(q)' = Stage(q)
  PROVE  Life!Moves(p, from, to)
BY DEF Life!Moves

(* The stage of p is made of the kernel's entry, the log and the gaps.     *)
LEMMA StageSame ==
  ASSUME NEW p \in Pids, gaps[p] \in Nat, gaps'[p] = gaps[p],
         gaps[p] = 0 => child'[p] = child[p] /\ held'[p] = held[p]
  PROVE  Stage(p)' = Stage(p)
BY DEF Stage, Unreaped

LEMMA LifeSteps ==
  ASSUME usage \cap Unused = {}, RInv, [Next]_vars
  PROVE  Life!Next \/ UNCHANGED [p \in Pids |-> Stage(p)]
<1>a. /\ TypeOK /\ shells = {} /\ "any_child" \notin usage
      /\ "pid_reuse" \notin usage /\ "popen" \notin usage
      /\ \A p \in Pids : gaps[p] \in Nat
  BY DEF RInv, HInv, IInv, Unused, TypeOK
<1>b. ASSUME NEW p \in Pids, gaps[p] = 0 PROVE Handed(p) /\ Level(p)
  BY <1>b DEF RInv, HInv
<1>c. ASSUME NEW p \in Pids, gaps[p] # 0, gaps' = gaps PROVE Stage(p) = "lost" /\ Stage(p)' = "lost"
  BY <1>a, <1>c DEF Stage
<1>d. ASSUME \A p \in Pids : Stage(p)' = Stage(p) PROVE UNCHANGED [p \in Pids |-> Stage(p)]
  BY <1>d
<1>1. ASSUME NEW t \in Threads, NEW p \in Pids, Begets(t, p)
      PROVE  Life!Next \/ UNCHANGED [q \in Pids |-> Stage(q)]
  <2>1. gaps' = gaps /\ child[p] = "none"
    BY <1>a, <1>1 DEF Begets, Born, FreePids
  <2>2. \A q \in Pids \ {p} : Stage(q)' = Stage(q)
    BY <1>a, <1>1, <2>1, StageSame DEF Begets, Born, TypeOK
  <2>3. CASE gaps[p] # 0
    BY <1>c, <1>d, <2>1, <2>2, <2>3
  <2>4. CASE gaps[p] = 0
    <3>1. Stage(p) = "unborn"
      BY <1>b, <2>1, <2>4 DEF Stage, Level, Unreaped
    <3>2. Stage(p)' = "born"
      BY <1>a, <1>1, <1>b, <2>1, <2>4 DEF Begets, Born, Stage, Level, Unreaped, TypeOK
    <3> QED
      BY <2>2, <3>1, <3>2, MovesOne DEF Life!Next, Life!Bear
  <2> QED
    BY <2>3, <2>4
<1>2. ASSUME NEW p \in Pids, Loses(p)
      PROVE  Life!Next \/ UNCHANGED [q \in Pids |-> Stage(q)]
  <2>1. \A q \in Pids \ {p} : Stage(q)' = Stage(q)
    BY <1>a, <1>2, StageSame DEF Loses, TypeOK
  <2>2. Stage(p)' = "lost"
    BY <1>a, <1>2 DEF Loses, Stage, TypeOK
  <2>3. CASE Stage(p) = "lost"
    BY <1>d, <2>1, <2>2, <2>3
  <2>4. CASE Stage(p) # "lost"
    <3>1. Stage(p) \in Life!Stages \ {"lost"}
      BY <1>a, <1>b, <2>4 DEF Stage, Level, Life!Stages, Unreaped, TypeOK
    <3> QED
      BY <2>1, <2>2, <3>1, MovesOne DEF Life!Next, Life!Lose
  <2> QED
    BY <2>3, <2>4
<1>3. ASSUME NEW t \in Threads, NEW p \in Pids, Reaps(t, p)
      PROVE  Life!Next \/ UNCHANGED [q \in Pids |-> Stage(q)]
  <2>1. gaps' = gaps /\ held' = held /\ owner[p] = t /\ child[p] = "zombie"
    BY <1>3 DEF Reaps
  <2>2. \A q \in Pids \ {p} : Stage(q)' = Stage(q)
    BY <1>a, <1>3, <2>1, StageSame DEF Reaps, Reaped, Removed, TypeOK
  <2>3. CASE gaps[p] # 0
    BY <1>c, <1>d, <2>1, <2>2, <2>3
  <2>4. CASE gaps[p] = 0
    <3>1. held[p] = 1 /\ child'[p] = "gone"
      BY <1>a, <1>3, <1>b, <2>1, <2>4, ThreadsAssumption DEF Reaps, Reaped, Removed, Level, TypeOK
    <3>2. Stage(p) = "held" /\ Stage(p)' = "reaped"
      BY <2>1, <2>4, <3>1 DEF Stage, Unreaped
    <3> QED
      BY <2>2, <3>2, MovesOne DEF Life!Next, Life!Reap
  <2> QED
    BY <2>3, <2>4
<1>4. ASSUME NEW t \in Threads, Acquire(t)
      PROVE  Life!Next \/ UNCHANGED [q \in Pids |-> Stage(q)]
  <2> PICK p \in Pids : p = pid[t]
    BY <1>a, <1>4 DEF Acquire, TypeOK
  <2>1. gaps' = gaps /\ child' = child /\ held' = [held EXCEPT ![p] = @ + 1] /\ pc[t] = "acquire"
    BY <1>4 DEF Acquire
  <2>2. \A q \in Pids \ {p} : Stage(q)' = Stage(q)
    BY <1>a, <2>1, StageSame DEF TypeOK
  <2>3. CASE gaps[p] # 0
    BY <1>c, <1>d, <2>1, <2>2, <2>3
  <2>4. CASE gaps[p] = 0
    <3>1. held[p] = 0 /\ Unreaped(p) /\ held'[p] = 1 /\ Unreaped(p)'
      BY <1>a, <1>b, <2>1, <2>4 DEF Handed, Level, Unreaped, TypeOK
    <3>2. Stage(p) = "born" /\ Stage(p)' = "held"
      BY <2>1, <2>4, <3>1 DEF Stage
    <3> QED
      BY <2>2, <3>2, MovesOne DEF Life!Next, Life!Acquire
  <2> QED
    BY <2>3, <2>4
<1>5. ASSUME NEW t \in Threads, Release(t)
      PROVE  Life!Next \/ UNCHANGED [q \in Pids |-> Stage(q)]
  <2> PICK p \in Pids : p = pid[t]
    BY <1>a, <1>5 DEF Release, TypeOK
  <2>1. gaps' = gaps /\ child' = child /\ held' = [held EXCEPT ![p] = @ - 1] /\ pc[t] = "release"
    BY <1>5 DEF Release
  <2>2. \A q \in Pids \ {p} : Stage(q)' = Stage(q)
    BY <1>a, <2>1, StageSame DEF TypeOK
  <2>3. CASE gaps[p] # 0
    BY <1>c, <1>d, <2>1, <2>2, <2>3
  <2>4. CASE gaps[p] = 0
    <3>1. held[p] = 1 /\ child[p] = "gone" /\ held'[p] = 0
      BY <1>a, <1>b, <2>1, <2>4 DEF Level, TypeOK
    <3>2. Stage(p) = "reaped" /\ Stage(p)' = "released"
      BY <2>1, <2>4, <3>1 DEF Stage, Unreaped
    <3> QED
      BY <2>2, <3>2, MovesOne DEF Life!Next, Life!Release
  <2> QED
    BY <2>3, <2>4
<1>6. ASSUME Idles \/ UNCHANGED vars PROVE UNCHANGED [q \in Pids |-> Stage(q)]
  BY <1>6 DEF Idles, vars, Stage, Unreaped
<1>7. CASE Kernel
  <2>1. \A p \in Pids : Stage(p)' = Stage(p)
    BY <1>a, <1>7, KernelSteps DEF Stage
  <2> QED
    BY <1>d, <2>1
<1>8. \A p \in Pids : ~Shells(p) /\ ~Unshells(p)
  BY <1>a DEF Shells, Unshells
<1>9. \A p \in Pids : ChildVanishes(p) => Loses(p)
  BY <1>a, <1>8, VanishSteps
<1> QED
  BY <1>a, <1>1, <1>2, <1>3, <1>4, <1>5, <1>6, <1>7, <1>8, <1>9, OwnSteps DEF Next

(* The log of such a program tells the life of every child: each step of   *)
(* the wrappers moves one child one stage on, or loses it, or none.  (That *)
(* reports come eventually is left to the model checker.)                  *)
THEOREM ChildrenLive ==
  Spec /\ usage \cap {"any_child", "pid_reuse", "popen"} = {} => Life!SafeSpec
<1> DEFINE Plain == usage \cap {"any_child", "pid_reuse", "popen"} = {}
<1>1. Init => Life!Init
  BY DEF Init, Life!Init, Stage, Unreaped
<1>2. Init /\ Plain => RInv /\ Plain
  BY LevelInit
<1>3. (RInv /\ Plain) /\ [Next]_vars => (RInv /\ Plain)'
  BY LevelNext, SameUsage DEF Unused
<1>4. (RInv /\ Plain) /\ [Next]_vars => [Life!Next]_[p \in Pids |-> Stage(p)]
  BY LifeSteps DEF Unused
<1> HIDE DEF Plain
<1>5. Spec /\ Plain => Life!SafeSpec
  BY <1>1, <1>2, <1>3, <1>4, PTL DEF Spec, Life!SafeSpec
<1> QED
  BY <1>5 DEF Plain
=============================================================================
