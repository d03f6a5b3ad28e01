---------------------------- MODULE ChildTracking ----------------------------
(***************************************************************************)
(* The "child-process" resource as lib_process records it.  Threads of one *)
(* process create children (p101_fork, p101_posix_spawn[p], p101_popen)    *)
(* and collect them (p101_wait, p101_waitpid, p101_waitid, p101_pclose).   *)
(* Every wrapper first makes its native call and only afterwards reports   *)
(* to the resource log, so that a thread can be suspended, or leave by     *)
(* p101_siglongjmp, between what the kernel did and what the log says.     *)
(*                                                                         *)
(* A call that fails, by an injected fault or natively, reports nothing    *)
(* and changes nothing here; what it raises is the matter of WrapperCall.  *)
(* A signal handler that calls wrappers is one more member of Threads.     *)
(***************************************************************************)
EXTENDS Integers, FiniteSets

CONSTANTS
  Threads,     \* threads (and signal handlers) of the tracked process
  Pids,        \* process identifiers the kernel gives to children
  NoPid,       \* "no process" in a pid_t variable
  NoThread,    \* owner of a child nobody was handed
  Usages,      \* the programs and kernels considered, each by its habits
  MaxBirths,   \* bound: children created in one behaviour
  MaxGaps      \* bound: calls per pid whose report cannot be right, see Gap

Habits == {"any_child", "pid_reuse", "stop_reports", "null_siginfo",
           "null_pid", "popen", "longjmp", "stale_info", "auto_reap"}

ASSUME ThreadsAssumption == IsFiniteSet(Threads) /\ NoThread \notin Threads
ASSUME PidsAssumption    == NoPid \notin Pids
ASSUME UsageAssumption   == Usages \subseteq SUBSET Habits
ASSUME BoundsAssumption  == MaxBirths \in Nat /\ MaxGaps \in Nat

VARIABLES
  usage,    \* what this program and kernel do beyond the plain protocol
  child,    \* child[p]  : the kernel's entry for the process p
  news,     \* children with a stop or continue nobody has been told of
  shells,   \* unreaped children that popen created
  stream,   \* stream[t] : the pid inside the stream thread t has open
  owner,    \* owner[p]  : the thread a wrapper has returned p to
  pc,       \* pc[t]     : idle, or the report thread t still has to make
  pid,      \* pid[t]    : the process that report is about
  held,     \* held[p]   : acquire events minus release events for p
  births,   \* children created so far
  gaps      \* gaps[p]   : calls so far about p that fell into a Gap

vars == <<usage, child, news, shells, stream, owner, pc, pid, held, births, gaps>>

Unreaped(p) == child[p] \in {"running", "stopped", "zombie"}

Init ==
  /\ usage  \in Usages
  /\ child  = [p \in Pids |-> "none"]
  /\ news   = {}
  /\ shells = {}
  /\ stream = [t \in Threads |-> NoPid]
  /\ owner  = [p \in Pids |-> NoThread]
  /\ pc     = [t \in Threads |-> "idle"]
  /\ pid    = [t \in Threads |-> NoPid]
  /\ held   = [p \in Pids |-> 0]
  /\ births = 0
  /\ gaps   = [p \in Pids |-> 0]

-----------------------------------------------------------------------------
(* The kernel. *)

FreePids == {p \in Pids : \/ child[p] = "none"
                          \/ child[p] = "gone" /\ "pid_reuse" \in usage}

Born(p) ==
  /\ p \in FreePids
  /\ births < MaxBirths
  /\ births' = births + 1
  /\ child' = [child EXCEPT ![p] = "running"]
  /\ UNCHANGED news

ChildStops(p) ==
  /\ child[p] = "running"
  /\ child' = [child EXCEPT ![p] = "stopped"]
  /\ news' = news \cup {p}
  /\ UNCHANGED <<usage, shells, stream, owner, pc, pid, held, births, gaps>>

ChildContinues(p) ==
  /\ child[p] = "stopped"
  /\ child' = [child EXCEPT ![p] = "running"]
  /\ news' = news \cup {p}
  /\ UNCHANGED <<usage, shells, stream, owner, pc, pid, held, births, gaps>>

ChildExits(p) ==
  /\ child[p] \in {"running", "stopped"}
  /\ child' = [child EXCEPT ![p] = "zombie"]
  /\ news' = news \ {p}
  /\ UNCHANGED <<usage, shells, stream, owner, pc, pid, held, births, gaps>>

(* p's entry is removed, and its number is free again. *)
Removed(p) ==
  /\ child' = [child EXCEPT ![p] = "gone"]
  /\ shells' = shells \ {p}
  /\ owner' = [owner EXCEPT ![p] = NoThread]

Reaped(p) == Removed(p) /\ UNCHANGED <<news, births>>

Slips(gap, p) ==
  /\ gap => gaps[p] < MaxGaps
  /\ gaps' = IF gap THEN [gaps EXCEPT ![p] = @ + 1] ELSE gaps

(* Where SIGCHLD is ignored (SIG_IGN or SA_NOCLDWAIT, by p101_sigaction or *)
(* inherited) an exiting child is removed at once: nobody can collect it,  *)
(* and nobody will report that it is gone.                                 *)
ChildVanishes(p) ==
  /\ "auto_reap" \in usage
  /\ child[p] \in {"running", "stopped"}
  /\ Removed(p)
  /\ news' = news \ {p}
  /\ Slips(p \notin shells, p)
  /\ UNCHANGED <<usage, stream, pc, pid, held, births>>

Owes(t, report, p) ==
  /\ pc' = [pc EXCEPT ![t] = report]
  /\ pid' = [pid EXCEPT ![t] = p]

-----------------------------------------------------------------------------
(* Creating children. *)

(* fork() has returned the child's pid in the parent; p101_getpid and      *)
(* P101_TRACK_FORK follow, and the acquire event is still to come.         *)
Fork(t) ==
  /\ pc[t] = "idle"
  /\ \E p \in Pids : Born(p) /\ Owes(t, "acquire", p)
  /\ UNCHANGED <<usage, shells, stream, owner, held, gaps>>

(* posix_spawn() and posix_spawnp() succeed the same way, but a caller     *)
(* that passes pid == NULL gets no report at all.                          *)
SpawnReportsNothing(pidPointer) == FALSE    \* mutant: no acquire event
SpawnReports(pidPointer) == pidPointer

Spawn(t, pidPointer) ==
  /\ pc[t] = "idle"
  /\ pidPointer \/ "null_pid" \in usage
  /\ \E p \in Pids :
       /\ Born(p)
       /\ IF SpawnReports(pidPointer) THEN Owes(t, "acquire", p) ELSE UNCHANGED <<pc, pid>>
       /\ Slips(~pidPointer, p)
  /\ UNCHANGED <<usage, shells, stream, owner, held>>

(* The second half of both: the acquire event, then the pid is the         *)
(* caller's to wait for.                                                   *)
Acquire(t) ==
  /\ pc[t] = "acquire"
  /\ held' = [held EXCEPT ![pid[t]] = @ + 1]
  /\ owner' = [owner EXCEPT ![pid[t]] = t]
  /\ Owes(t, "idle", NoPid)
  /\ UNCHANGED <<usage, child, news, shells, stream, births, gaps>>

(* popen() forks a shell that is no "child-process" resource.              *)
Popen(t) ==
  /\ "popen" \in usage
  /\ pc[t] = "idle" /\ stream[t] = NoPid
  /\ \E p \in Pids :
       /\ Born(p)
       /\ shells' = shells \cup {p}
       /\ stream' = [stream EXCEPT ![t] = p]
  /\ UNCHANGED <<usage, owner, pc, pid, held, gaps>>

-----------------------------------------------------------------------------
(* Collecting children.  A wait request names what it reports (an exit, or *)
(* a stop or continue: WUNTRACED, WSTOPPED, WCONTINUED), whether WNOWAIT   *)
(* leaves the child in place, and whether there is a siginfo to read.      *)

Reports == {"exit"} \cup (IF "stop_reports" \in usage THEN {"news"} ELSE {})
Infos   == {TRUE} \cup (IF "null_siginfo" \in usage THEN {FALSE} ELSE {})

Targets(t) == IF "any_child" \in usage THEN Pids ELSE {p \in Pids : owner[p] = t}

(* p101_wait and p101_waitpid report every positive return value; NoPid    *)
(* stands for the others, 0 (nothing to report under WNOHANG) and -1.      *)
WaitReportsAlways(ret) == TRUE    \* mutant: reports a return value of 0
WaitReports(ret) == ret \in Pids

(* p101_waitid reports si_pid unless WNOWAIT or there is no siginfo.       *)
WaitidReportsPeeks(si_pid, info, nowait) == info /\ si_pid \in Pids    \* mutant: WNOWAIT ignored
WaitidReports(si_pid, info, nowait) == info /\ si_pid \in Pids /\ ~nowait

(* The requests for which the report cannot match what the kernel did,     *)
(* whatever the wrapper decides: a stop or continue is presented as the    *)
(* child's pid although the child stays; without a siginfo the wrapper     *)
(* cannot know whom it reaped; and a shell is presented like any child.    *)
Gap(p, report, info, nowait) ==
  /\ ~nowait
  /\ IF report = "news" \/ p \in shells THEN info ELSE ~info

Collects(t, p, report, info, nowait, records) ==
  /\ IF report = "news" THEN p \in news ELSE child[p] = "zombie"
  /\ \/ nowait /\ UNCHANGED <<child, news, shells, owner, births>>
     \/ /\ ~nowait /\ report = "news"
        /\ news' = news \ {p}
        /\ UNCHANGED <<child, shells, owner, births>>
     \/ ~nowait /\ report = "exit" /\ Reaped(p)
  /\ IF records THEN Owes(t, "release", p) ELSE UNCHANGED <<pc, pid>>
  /\ Slips(Gap(p, report, info, nowait), p)
  /\ UNCHANGED <<usage, stream, held>>

(* WNOHANG, and no child is ready.                                         *)
FindsNothing(t, records) ==
  /\ IF records THEN Owes(t, "release", NoPid) ELSE UNCHANGED <<pc, pid>>
  /\ UNCHANGED <<usage, child, news, shells, stream, owner, held, births, gaps>>

Wait(t) ==
  /\ pc[t] = "idle" /\ "any_child" \in usage
  /\ \E p \in Pids : Collects(t, p, "exit", TRUE, FALSE, WaitReports(p))

Waitpid(t) ==
  /\ pc[t] = "idle"
  /\ \/ \E p \in Targets(t), report \in Reports :
          Collects(t, p, report, TRUE, FALSE, WaitReports(p))
     \/ FindsNothing(t, WaitReports(NoPid))

Waitid(t) ==
  /\ pc[t] = "idle"
  /\ \E info \in Infos, nowait \in BOOLEAN :
       \/ \E p \in Targets(t), report \in Reports :
            Collects(t, p, report, info, nowait, WaitidReports(p, info, nowait))
       \/ FindsNothing(t, WaitidReports(NoPid, info, nowait))

(* Some kernels leave the siginfo alone when WNOHANG finds nothing: si_pid *)
(* is then whatever the caller's structure holds, from an earlier call or  *)
(* never initialised, and the wrapper reports it.                          *)
WaitidLeftover(t) ==
  /\ "stale_info" \in usage
  /\ pc[t] = "idle"
  /\ \E si_pid \in Pids :
       /\ WaitidReports(si_pid, TRUE, FALSE)
       /\ Owes(t, "release", si_pid)
       /\ Slips(TRUE, si_pid)
  /\ UNCHANGED <<usage, child, news, shells, stream, owner, held, births>>

(* The second half of all three: the release event.                        *)
Release(t) ==
  /\ pc[t] = "release"
  /\ held' = [held EXCEPT ![pid[t]] = @ - 1]
  /\ Owes(t, "idle", NoPid)
  /\ UNCHANGED <<usage, child, news, shells, stream, owner, births, gaps>>

(* pclose() waits for the pid its stream remembers and reports no          *)
(* "child-process" event, be it still the shell, or nobody (ECHILD), or a  *)
(* later child that was given the shell's number.                          *)
Pclose(t) ==
  /\ pc[t] = "idle" /\ stream[t] # NoPid
  /\ \/ /\ child[stream[t]] = "zombie"
        /\ Reaped(stream[t])
        /\ Slips(stream[t] \notin shells, stream[t])
     \/ /\ ~Unreaped(stream[t])
        /\ UNCHANGED <<child, news, shells, owner, births, gaps>>
  /\ stream' = [stream EXCEPT ![t] = NoPid]
  /\ UNCHANGED <<usage, pc, pid, held>>

(* A signal handler calls p101_siglongjmp while the wrapper below it has   *)
(* not made its report: the report is never made.                          *)
Siglongjmp(t) ==
  /\ "longjmp" \in usage
  /\ pc[t] # "idle"
  /\ Owes(t, "idle", NoPid)
  /\ Slips(TRUE, pid[t])
  /\ UNCHANGED <<usage, child, news, shells, stream, owner, held, births>>

-----------------------------------------------------------------------------
Creates(t)  == Fork(t) \/ (\E b \in BOOLEAN : Spawn(t, b)) \/ Acquire(t) \/ Popen(t)
Gathers(t) == \/ Wait(t) \/ Waitpid(t) \/ Waitid(t) \/ WaitidLeftover(t)
              \/ Release(t) \/ Pclose(t)
Kernel      == \E p \in Pids : ChildStops(p) \/ ChildContinues(p) \/ ChildExits(p)

Next ==
  \/ \E t \in Threads : Creates(t) \/ Gathers(t) \/ Siglongjmp(t)
  \/ Kernel
  \/ \E p \in Pids : ChildVanishes(p)

Spec == Init /\ [][Next]_vars

(* Once the native call has returned, a wrapper runs straight to its       *)
(* report: nothing in it blocks.                                           *)
FairSpec == Spec /\ \A t \in Threads : WF_vars(Acquire(t)) /\ WF_vars(Release(t))

-----------------------------------------------------------------------------
TypeOK ==
  /\ usage  \in Usages
  /\ child  \in [Pids -> {"none", "running", "stopped", "zombie", "gone"}]
  /\ news   \subseteq Pids
  /\ shells \subseteq Pids
  /\ stream \in [Threads -> Pids \cup {NoPid}]
  /\ owner  \in [Pids -> Threads \cup {NoThread}]
  /\ pc     \in [Threads -> {"idle", "acquire", "release"}]
  /\ pid    \in [Threads -> Pids \cup {NoPid}]
  /\ held   \in [Pids -> Int]
  /\ births \in 0 .. MaxBirths
  /\ gaps   \in [Pids -> 0 .. MaxGaps]
  /\ \A t \in Threads : pc[t] # "idle" => pid[t] \in Pids

Owing(report, p) == {t \in Threads : pc[t] = report /\ pid[t] = p}

Outstanding(p) == IF Unreaped(p) /\ p \notin shells THEN 1 ELSE 0

Balance(p) == held[p] + Cardinality(Owing("acquire", p))
                      - Cardinality(Owing("release", p))

Skew(p) == Balance(p) - Outstanding(p)

(* The log's balance for a pid, corrected by the reports that threads are  *)
(* about to make, is always the number of children with that pid: however  *)
(* forks, spawns and waits of all threads interleave, who waits for whom,  *)
(* and when the kernel reuses the pid (src/src/unistd.c:134-143,           *)
(* src/src/sys/wait.c:50-53).  A call that cannot be reported rightly puts *)
(* the account of its own child's pid wrong by one, for good, and that of  *)
(* no other: stop reports, missing and stale siginfos, missing pids,       *)
(* shells, jumps and vanished children add up and never multiply.          *)
Conservation == \A p \in Pids : Skew(p) \in -gaps[p] .. gaps[p]
=============================================================================
