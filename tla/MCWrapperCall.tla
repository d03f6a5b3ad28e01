---------------------------- MODULE MCWrapperCall ----------------------------
EXTENDS WrapperCall

(* Handlers call one wrapper of each kind: one without errors, one that     *)
(* zeroes errno, one that returns its error number, and one that jumps.     *)
OneOfEach == {"getpid", "kill", "posix_spawn", "siglongjmp"}

NotStdio == Wrappers \ StdioCalls

(* The lists that src/test/fault-outcome-manifest.tsv has for FreeBSD, with *)
(* "EOTHER" for every error that is neither EINVAL nor EIO.                 *)
NoEINVAL ==
  {"fork", "getpgid", "getrlimit", "getsid", "nice", "pause", "pclose",
   "posix_spawn_file_actions_init", "posix_spawn_file_actions_addclose",
   "posix_spawn_file_actions_adddup2", "posix_spawn_file_actions_addopen",
   "posix_spawnattr_init", "putenv", "sched_yield", "setrlimit", "setsid",
   "sigpending", "sigsuspend"}
OnlyEINVAL ==
  ((SpawnCalls \cup AttrCalls \cup SigwaitCall) \ {"posix_spawnattr_init"})
    \cup {"posix_spawn_file_actions_destroy", "setenv", "unsetenv", "sigaction",
          "sigaddset", "sigdelset", "sigemptyset", "sigfillset", "sigismember", "sigprocmask"}

FreeBSD ==
  [w \in Wrappers |->
     (IF w \in Quiet \cup NoEINVAL THEN {} ELSE {"EINVAL"})
       \cup (IF w \in ExecCalls THEN {"EIO"} ELSE {})
       \cup (IF w \in Quiet \cup OnlyEINVAL THEN {} ELSE {"EOTHER"})]

(* Wrappers that differ in nothing but their names: the same steps, tests   *)
(* and lists.  One of each kind stands for all 63.                          *)
Alike(v, w) ==
  /\ Path(v) = Path(w) /\ FreeBSD[v] = FreeBSD[w]
  /\ \A class \in {Codes, StdioCalls, PopenCall, PcloseCall, TimesCall, Disambiguated,
                   Quiet, Leaves} : v \in class <=> w \in class

OneOfAKind ==
  {"alarm", "siglongjmp", "fork", "kill", "sigaction", "nice", "getpriority", "times",
   "getrlimit", "waitpid", "execv", "popen", "pclose", "posix_spawn", "sigwait",
   "posix_spawn_file_actions_init", "posix_spawnattr_init"}

ASSUME KindsAssumption == \A w \in Wrappers : \E v \in OneOfAKind : Alike(v, w)
=============================================================================
