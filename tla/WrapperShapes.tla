---------------------------- MODULE WrapperShapes ----------------------------
(***************************************************************************)
(* The 63 wrappers of lib_process, sorted by what their bodies do between  *)
(* entry and return.  A wrapper p101_x appears here as "x".  The sets name *)
(* the wrappers of one source file that are written the same way; Path     *)
(* puts the steps of each in order.                                        *)
(***************************************************************************)
EXTENDS Sequences

(* Wrappers with no error object: they cannot fail and cannot be faulted.  *)
QuietIds   == {"getpgrp", "getpid", "getppid"}
QuietTimer == {"alarm", "sleep"}
Jump       == {"siglongjmp"}

(* A sentinel (-1, or NULL, or nonzero) tells of failure, errno says why.  *)
ProcessCalls  == {"fork", "getpgid", "getsid", "pause", "setpgid", "setsid"}
SignalActs    == {"kill", "killpg", "sigaction", "sigaltstack", "sigprocmask", "sigsuspend"}
SignalSets    == {"sigaddset", "sigdelset", "sigemptyset", "sigfillset", "sigismember", "sigpending"}
SchedCalls    == {"sched_yield", "sched_get_priority_max", "sched_get_priority_min"}
EnvironCalls  == {"setenv", "unsetenv", "putenv"}
ResourceCalls == {"getrusage", "setpriority"}
TimesCall     == {"times"}

(* The same, with a sentinel that is also a good answer: -1 and errno # 0. *)
NiceCall        == {"nice"}
GetPriorityCall == {"getpriority"}
Disambiguated   == NiceCall \cup GetPriorityCall

(* The same, after the wrapper itself has turned down a negative resource. *)
LimitCalls == {"getrlimit", "setrlimit"}

(* The same, announced to the environment as a call that may block.        *)
WaitCalls == {"wait", "waitid", "waitpid"}

(* The same, with the hook that logs the image before and, when the call   *)
(* returns at all, the failure hook after errno has been put aside.        *)
ExecCalls == {"execv", "execve", "execvp"}

(* The same, with EIO for a failure that left errno 0; pclose tells the    *)
(* log that the stream is released between errno = 0 and the native call,  *)
(* and that the descriptor is closed before it raises.                     *)
PopenCall  == {"popen"}
PcloseCall == {"pclose"}
StdioCalls == PopenCall \cup PcloseCall

(* The return value itself is the error number.                            *)
SpawnCalls == {"posix_spawn", "posix_spawnp"}
ActionCalls ==
  {"posix_spawn_file_actions_init", "posix_spawn_file_actions_destroy",
   "posix_spawn_file_actions_addclose", "posix_spawn_file_actions_adddup2",
   "posix_spawn_file_actions_addopen"}
AttrCalls ==
  {"posix_spawnattr_init", "posix_spawnattr_destroy",
   "posix_spawnattr_getflags", "posix_spawnattr_getpgroup",
   "posix_spawnattr_getsigdefault", "posix_spawnattr_getsigmask",
   "posix_spawnattr_setflags", "posix_spawnattr_setpgroup",
   "posix_spawnattr_setsigdefault", "posix_spawnattr_setsigmask"}
SigwaitCall == {"sigwait"}

-----------------------------------------------------------------------------
Quiet == QuietIds \cup QuietTimer \cup Jump
Spawn == SpawnCalls \cup ActionCalls \cup AttrCalls
Codes == Spawn \cup SigwaitCall
Plain == ProcessCalls \cup SignalActs \cup SignalSets \cup SchedCalls \cup EnvironCalls
           \cup ResourceCalls \cup TimesCall \cup Disambiguated \cup PopenCall
Sentinels == Plain \cup LimitCalls \cup WaitCalls \cup ExecCalls \cup PcloseCall

Wrappers == Quiet \cup Codes \cup Sentinels

(* The steps of each shape, in the order of its statements.  "trace" is    *)
(* P101_TRACE and "exit" P101_WRAPPER_DONE or P101_TRACE_EXIT, which run   *)
(* the environment's hooks as "hook" does; "judge" is the failure test     *)
(* with the raise it guards; a "hook" that some calls skip (WNOHANG, a     *)
(* stream without descriptor) is one that changes nothing.                 *)
QuietPath == <<"trace", "zero", "native", "exit">>
JumpPath  == <<"trace", "zero", "exit", "native">>

PlainPathZeroFirst ==    \* mutant: errno lost to a fault
  <<"trace", "zero", "fault", "native", "judge", "exit">>
PlainPath == <<"trace", "fault", "zero", "native", "judge", "exit">>

CodePath  == <<"trace", "fault", "native", "judge", "exit">>
LimitPath == <<"trace", "fault", "reject", "zero", "native", "judge", "exit">>
WaitPath  == <<"trace", "fault", "hook", "zero", "native", "judge", "exit">>

ExecPathForgets ==    \* mutant: errno not kept
  <<"trace", "fault", "hook", "zero", "native", "hook", "judge", "exit">>
ExecPath == <<"trace", "fault", "hook", "zero", "native", "keep", "hook", "judge", "exit">>

PclosePath == <<"trace", "fault", "zero", "hook", "native", "keep", "hook", "judge", "exit">>

Path(w) ==
  IF w \in Spawn           THEN CodePath
  ELSE IF w \in Jump       THEN JumpPath
  ELSE IF w \in Quiet      THEN QuietPath
  ELSE IF w \in LimitCalls THEN LimitPath
  ELSE IF w \in WaitCalls  THEN WaitPath
  ELSE IF w \in ExecCalls  THEN ExecPath
  ELSE IF w \in PcloseCall THEN PclosePath
  ELSE PlainPath
=============================================================================
