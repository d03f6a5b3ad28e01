----------------------------- MODULE WrapperCall -----------------------------
(***************************************************************************)
(* One thread calling wrappers, step by step, with the one errno it has.   *)
(* A signal handler that itself calls wrappers can run between any two     *)
(* steps, and each of its wrappers sets errno to 0 (a program is polite if *)
(* all its handlers restore errno); the hooks of the environment can leave *)
(* anything in errno; the native call can fail, can fail without setting   *)
(* errno (stdio), or can succeed with the value that otherwise tells of    *)
(* failure (nice, getpriority, times).                                     *)
(*                                                                         *)
(* The events that follow a success (those of ChildTracking) touch neither *)
(* the result nor the error object and are not repeated here: to errno     *)
(* they are one more hook before that of the way out.                      *)
(***************************************************************************)
EXTENDS Integers, WrapperShapes

CONSTANTS
  Errnos,             \* the error numbers of this model
  Calls,              \* wrappers the program calls
  HandlerCalls,       \* wrappers its signal handlers call
  MaxNesting,         \* bound: the interrupted call and the handlers' calls
  Declared            \* Declared[w] : the errors the native call of w fails with

OK       == "ok"          \* a native result that is no sentinel
Sentinel == "sentinel"    \* -1, (clock_t)-1 or NULL
Zero     == "0"           \* errno 0
None     == "none"        \* no error, nothing kept
Silent   == "silent"      \* a native failure that set no errno

ASSUME ErrnosAssumption ==
  /\ {"EINVAL", "EIO"} \subseteq Errnos
  /\ {OK, Sentinel, Zero, None, Silent} \cap Errnos = {}
ASSUME CallsAssumption == Calls \cup HandlerCalls \subseteq Wrappers
ASSUME NestingAssumption == MaxNesting \in Nat \ {0}
ASSUME DeclaredAssumption == Declared \in [Wrappers -> SUBSET Errnos]

VARIABLES
  manners,  \* whether the program's handlers restore errno, as POSIX asks
  errno,    \* the thread's errno
  calls     \* the calls in progress, innermost first

vars == <<manners, errno, calls>>

ErrnoValues == Errnos \cup {Zero}

(* A call: the wrapper, the steps still to come, the errno that a handler  *)
(* has to put back (entry), and what the wrapper knows (ret, kept, raised) *)
(* next to what is true.  "found" is history for the properties' sake:     *)
(* errno as the environment's last hook before the native call left it.    *)
Frame(w) ==
  [fn |-> w, todo |-> Path(w), entry |-> IF calls = <<>> THEN Zero ELSE errno,
   found |-> errno, ret |-> OK, kept |-> None, raised |-> None,
   truth |-> None, native |-> FALSE]

Top == calls[1]

At(step) == calls # <<>> /\ Top.todo # <<>> /\ Head(Top.todo) = step

(* The innermost call's next state; Onward(f) is f past its current step.  *)
Becomes(f) == calls' = <<f>> \o Tail(calls)
Onward(f)  == [f EXCEPT !.todo = Tail(@)]

(* A call that is turned down goes straight to p101_wrapper_done_.         *)
Ended(f) == [f EXCEPT !.todo = <<"exit">>]

Init ==
  /\ manners \in {"polite", "rude"}
  /\ errno \in ErrnoValues
  /\ calls = <<>>

-----------------------------------------------------------------------------
Call(w) ==
  /\ calls = <<>>
  /\ calls' = <<Frame(w)>>
  /\ UNCHANGED <<manners, errno>>

Interrupt(w) ==
  /\ calls # <<>> /\ Len(calls) < MaxNesting
  /\ calls' = <<Frame(w)>> \o calls
  /\ UNCHANGED <<manners, errno>>

(* P101_WRAPPER_FAULT_RETURN[_CODE]: the injector names an error number,   *)
(* which is raised and, by a wrapper that returns codes, returned.         *)
InjectFault(e) ==
  /\ At("fault")
  /\ Becomes(Ended([Top EXCEPT !.ret = IF Top.fn \in Codes THEN e ELSE Sentinel,
                               !.raised = e, !.truth = e]))
  /\ UNCHANGED <<manners, errno>>

NoFault ==
  /\ At("fault")
  /\ Becomes(Onward(Top))
  /\ UNCHANGED <<manners, errno>>

(* getrlimit and setrlimit raise EINVAL for a negative resource and leave. *)
Reject(negative) ==
  /\ At("reject")
  /\ Becomes(IF negative
               THEN Ended([Top EXCEPT !.ret = Sentinel, !.raised = "EINVAL", !.truth = "EINVAL"])
               ELSE Onward(Top))
  /\ UNCHANGED <<manners, errno>>

(* The environment's code: the trace on the way in and out, and the events.*)
Hook ==
  /\ At("trace") \/ At("hook") \/ At("exit")
  /\ errno' \in ErrnoValues
  /\ Becomes(Onward([Top EXCEPT !.found = IF Top.native THEN @ ELSE errno']))
  /\ UNCHANGED manners

ZeroErrno ==
  /\ At("zero")
  /\ errno' = Zero
  /\ Becomes(Onward(Top))
  /\ UNCHANGED manners

KeepErrno ==
  /\ At("keep")
  /\ Becomes(Onward([Top EXCEPT !.kept = errno]))
  /\ UNCHANGED <<manners, errno>>

-----------------------------------------------------------------------------
(* The native call. *)

(* exec does not return when it succeeds, and siglongjmp leaves the        *)
(* handler and every wrapper it interrupted.                               *)
Leaves == ExecCalls \cup Jump

NativeLeaves ==
  /\ At("native") /\ Top.fn \in Leaves
  /\ calls' = <<>>
  /\ UNCHANGED <<manners, errno>>

(* Where the sentinel is a good answer as well: a priority of -1, or a     *)
(* clock that has come to (clock_t)-1, as one of 32 bits does.             *)
GoodSentinels == Disambiguated \cup TimesCall

(* Success may leave anything in errno, except where POSIX says that errno *)
(* tells a good -1 from a bad one.                                         *)
NativeSucceeds(e) ==
  /\ At("native") /\ Top.fn \notin Leaves
  /\ errno' = IF Top.fn \in Disambiguated THEN errno ELSE e
  /\ Becomes(Onward([Top EXCEPT !.native = TRUE]))
  /\ UNCHANGED manners

NativeSucceedsWithSentinel ==
  /\ At("native") /\ Top.fn \in GoodSentinels
  /\ Becomes(Onward([Top EXCEPT !.ret = Sentinel, !.native = TRUE]))
  /\ UNCHANGED <<manners, errno>>

NativeFails(e) ==
  /\ At("native") /\ Top.fn \notin Quiet /\ e \in Declared[Top.fn]
  /\ IF Top.fn \in Codes
       THEN Becomes(Onward([Top EXCEPT !.ret = e, !.truth = e, !.native = TRUE]))
              /\ errno' \in {errno, e}
       ELSE Becomes(Onward([Top EXCEPT !.ret = Sentinel, !.truth = e, !.native = TRUE]))
              /\ errno' = e
  /\ UNCHANGED manners

NativeFailsSilently ==
  /\ At("native") /\ Top.fn \in StdioCalls
  /\ Becomes(Onward([Top EXCEPT !.ret = Sentinel, !.truth = Silent, !.native = TRUE]))
  /\ UNCHANGED <<manners, errno>>

-----------------------------------------------------------------------------
(* The failure test and the raise. *)

stdio_error_code_none(e) == e    \* mutant: EIO is not filled in
stdio_error_code(e) == IF e = Zero THEN "EIO" ELSE e

(* What a wrapper raises, from the native result and the errno it looks at.*)
RaisesUntested(w, ret, seen) ==    \* mutant: a code is raised untested
  IF w \in Codes THEN ret ELSE IF ret = OK THEN None ELSE seen

RaisesErrno(w, ret, seen) ==    \* mutant: errno is raised for a code
  IF ret = OK \/ (w \in Disambiguated /\ seen = Zero) THEN None ELSE seen

RaisesIfErrno(w, ret, seen) ==    \* mutant: every sentinel is tested as nice's is
  IF w \in Codes THEN (IF ret = OK THEN None ELSE ret)
  ELSE IF ret # Sentinel \/ seen = Zero THEN None ELSE seen

Raises(w, ret, seen) ==
  IF w \in Codes THEN (IF ret = OK THEN None ELSE ret)
  ELSE IF ret # Sentinel \/ (w \in Disambiguated /\ seen = Zero) THEN None
  ELSE IF w \in StdioCalls THEN stdio_error_code(seen)
  ELSE seen

Judge ==
  /\ At("judge")
  /\ LET seen == IF Top.kept = None THEN errno ELSE Top.kept
     IN  Becomes(Onward([Top EXCEPT !.raised = Raises(Top.fn, Top.ret, seen)]))
  /\ UNCHANGED <<manners, errno>>

(* The return; a handler's last act may be to put errno back.              *)
Return ==
  /\ calls # <<>> /\ Top.todo = <<>>
  /\ calls' = Tail(calls)
  /\ errno' \in IF Len(calls) = 1 THEN {errno}
               ELSE IF manners = "polite" THEN {Top.entry} ELSE {Top.entry, errno}
  /\ UNCHANGED manners

Next ==
  \/ \E w \in Calls : Call(w)
  \/ \E w \in HandlerCalls : Interrupt(w)
  \/ \E e \in Errnos : InjectFault(e) \/ NativeFails(e)
  \/ \E e \in ErrnoValues : NativeSucceeds(e)
  \/ \E negative \in BOOLEAN : Reject(negative)
  \/ NoFault \/ Hook \/ ZeroErrno \/ KeepErrno \/ Judge \/ Return
  \/ NativeLeaves \/ NativeSucceedsWithSentinel \/ NativeFailsSilently

Spec == Init /\ [][Next]_vars

-----------------------------------------------------------------------------
TypeOK ==
  /\ manners \in {"polite", "rude"}
  /\ errno \in ErrnoValues
  /\ Len(calls) <= MaxNesting
  /\ \A i \in DOMAIN calls :
       /\ calls[i].fn \in Wrappers
       /\ {calls[i].entry, calls[i].found} \subseteq ErrnoValues
       /\ calls[i].ret \in Errnos \cup {OK, Sentinel}
       /\ calls[i].kept \in ErrnoValues \cup {None}
       /\ calls[i].raised \in ErrnoValues \cup {None}
       /\ calls[i].truth \in Errnos \cup {None, Silent}
       /\ calls[i].native \in BOOLEAN

Finished == {i \in DOMAIN calls : calls[i].todo = <<>>}

(* The clock value that p101_times takes for a failure.                    *)
Misled(f) == f.fn \in TimesCall /\ f.ret = Sentinel /\ f.truth = None

(* The error object tells the truth: a wrapper that returns has raised the *)
(* error with which its own native call failed (or that was injected, or   *)
(* EINVAL for a resource it turned down), and none if the call succeeded,  *)
(* whatever hooks do to errno meanwhile, and handlers that restore it.     *)
(* (exec puts errno aside before its failure hook, src/src/unistd.c:62.)   *)
RaisesTheTruth ==
  manners = "polite" =>
    \A i \in Finished :
      calls[i].truth # Silent /\ ~Misled(calls[i]) => calls[i].raised = calls[i].truth

(* A failure that sets no errno is raised as what the wrapper's own code   *)
(* last saw in errno, with EIO for 0, an error that nobody declares for    *)
(* these calls: popen's is always EIO, and pclose's is what its release    *)
(* hook left behind, if that is not 0, and never what the native call      *)
(* found or a handler did (src/src/stdio.c:41-49, 60-72).                  *)
SilenceIsFilledIn ==
  manners = "polite" =>
    \A i \in Finished :
      calls[i].truth = Silent =>
        calls[i].raised =
          IF calls[i].fn \in PopenCall \/ calls[i].found = Zero THEN "EIO" ELSE calls[i].found

(* Whatever handlers and hooks have done to errno, a popen or pclose that  *)
(* failed raises some error (src/src/stdio.c:72, 90), so that "failed"     *)
(* and "has an error" agree for the caller.                                *)
StdioNeverRaisesZero ==
  \A i \in Finished :
    calls[i].fn \in StdioCalls /\ calls[i].ret = Sentinel => calls[i].raised \in Errnos

(* A call turned down by the fault injector, or for its resource, has not  *)
(* reached the kernel, and comes to its way out with errno as P101_TRACE   *)
(* left it: the trace may change errno, the wrapper and its events have    *)
(* not (src/test/test_fault_wrappers_sys_times.c:233, EXPECT(errno ==      *)
(* P101_TEST_ERRNO_SENTINEL), with a trace that keeps errno).              *)
TurnedDownLeavesNoTrace ==
  manners = "polite" /\ calls # <<>> /\ Top.todo = <<"exit">> /\ ~Top.native =>
    errno = Top.found

(* A wrapper whose native call returns its error number needs nothing of   *)
(* errno: it tells the truth even when handlers and hooks destroy errno.   *)
CodesAreImmune ==
  \A i \in Finished : calls[i].fn \in Codes => calls[i].raised = calls[i].truth

(* A handler that zeroes errno between a failing call and the test can     *)
(* make a wrapper raise the wrong error, even 0, but never hide that the   *)
(* call failed, nor make up a failure (src/src/signal.c:45-48): that is    *)
(* left to nice and getpriority, which ask errno, and to the clock value   *)
(* of times.                                                               *)
FailuresAreNoticed ==
  \A i \in Finished :
    calls[i].fn \notin Disambiguated /\ ~Misled(calls[i]) =>
      (calls[i].raised = None <=> calls[i].truth = None)

(* A wrapper that made its native call raises only an error which that     *)
(* call is declared to fail with (src/test/fault-outcome-manifest.tsv):    *)
(* the tests call any other "an undeclared platform failure"               *)
(* (src/test/test_fault_wrappers_sys_times.c:296,                          *)
(* src/test/test_fault_wrappers_stdio.c:300 and 428).  A resource refused  *)
(* before the call is EINVAL on every platform, and the tests expect it    *)
(* (src/test/test_fault_wrappers_sys_resource.c:376).                      *)
RaisesDeclaredErrors ==
  \A i \in Finished :
    calls[i].native => calls[i].raised \in Declared[calls[i].fn] \cup {None}

(* The ways to an undeclared error, when handlers restore errno: a stdio   *)
(* call that fails without one, and the clock of times (src/src/stdio.c:72 *)
(* and 90, src/src/sys/times.c:60).                                        *)
UndeclaredAreKnown ==
  manners = "polite" =>
    \A i \in Finished :
      \/ calls[i].native => calls[i].raised \in Declared[calls[i].fn] \cup {None}
      \/ calls[i].truth = Silent
      \/ Misled(calls[i])
=============================================================================
