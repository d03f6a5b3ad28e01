# A verification project for lib_process

`lib_process` wraps 63 calls of the C library (processes, exec, signals,
spawn, waits, streams, environment, scheduling, limits) for programs that use
a `p101_env` (tracing, fault injection, a resource log) and a `p101_error`
(the error of the last call). Each wrapper is short. What can go wrong lies
between its statements: another thread, a signal handler, a hook or the kernel
acts there, and the wrapper's report, or its `errno`, is about something else
by the time it is used. These modules are about that.

Paths below are relative to the repository's root, so `src/unistd.c` is
called `src/src/unistd.c` in `PROJECT.json` and in the modules' comments.

## 1. Inventory

| component | state it keeps or moves | operations | what is hard | what makes it correct |
|---|---|---|---|---|
| process wrappers, `src/unistd.c` | the kernel's children, `errno`, the process image | `fork`, `execv/e/vp`, ids, `alarm`, `pause`, `sleep`, `nice` | fork's events come after fork; both sides of fork run on; hooks around exec; a good -1 of `nice` | every child enters the log once, under its own parent; exec's log entry is paired with a failure or a new image; the raised error is the call's |
| wait wrappers, `src/sys/wait.c` | the kernel's children, `siginfo_t` | `wait`, `waitid`, `waitpid` with `WNOHANG`, `WNOWAIT`, `WUNTRACED`, `WCONTINUED` | the release comes after the reaping; pids are reused; a positive return need not be a reaping | a release is logged once for each reaping |
| spawn wrappers, `src/spawn.c` | children; file-action and attribute objects | 17 calls that return error numbers | `pid == NULL`; failing destroys; no `errno` at all | as for fork; an object is acquired from init to destroy; the codes tell what is in it |
| stream wrappers, `src/stdio.c` | streams, descriptors, popen's shell | `popen`, `pclose` | failures without `errno`; descriptor logged closed after it is free; the shell is a child too | failure raises an error that is not 0; stream and descriptor events in order |
| signal wrappers, `src/signal.c` | masks, dispositions, pending signals | `kill`, `sigaction`, set operations, `sigprocmask`, `sigsuspend`, `sigwait`, `sigaltstack` | handlers run wrappers inside wrappers; waits for a signal that already came | errors as above; no mask is left behind; a wait for a signal ends |
| environment wrappers, `src/stdlib.c` | the environment | `setenv`, `unsetenv`, `putenv` | putenv takes the caller's buffer itself | no freed buffer in it; the results tell what is in it |
| non-local jump, `src/setjmp.c` | the stack of calls | `siglongjmp` | leaves wrappers half done | what is lost by it is known, and nothing else is |
| limits and priorities, `src/sys/resource.c` | limits, priorities | `getpriority`, `get/setrlimit`, `getrusage`, `setpriority` | a good -1; a resource refused before the call | errors as above |
| `src/sys/times.c`, `src/sched.c` | clock, scheduler | `times`; `sched_*` | a clock value equal to the sentinel | errors as above |
| outside this repository | `p101_env` (hooks, injector, trace, resource log), `p101_error`, kernel and C library | | | modelled as the wrappers use them; marked external |

The wrappers keep no state of their own and take no locks. They meet in four
places: the kernel's tables (children, descriptors), the C library's (streams,
environment), the resource log, and each thread's `errno`. `p101_fork` and the
spawn wrappers also call `p101_getpid`.

`PROJECT.json` lists 26 hazards at their lines, each with the properties that
are about it.

## 2. Modules

| module | what it is |
|---|---|
| `ChildLife` | abstract: what the log promises about one child, unborn, born, held, reaped, released; or lost by a call that cannot be reported rightly |
| `ChildTracking` | the wrappers that create and collect children, and the log's `child-process` events |
| `ChildTrackingLife` | the mapping from `ChildTracking` to `ChildLife`, and what is left under pid reuse |
| `StreamLife` | abstract: what the log promises about the streams at one address, one after the other |
| `StreamTracking` | `popen` and `pclose`, and the log's stream and descriptor events |
| `StreamTrackingLife` | the mapping from `StreamTracking` to `StreamLife` |
| `SpawnObjects` | file-action and attribute objects from init to destroy, and their events |
| `ForkExec` | processes that fork and exec: the fork events, exec announcements, trace entries and exits |
| `SignalWait` | a program that waits for signals: masks, pending signals, timer, handlers |
| `Environment` | the environment's entries and the caller's buffers |
| `WrapperShapes` | the 63 wrappers sorted by how they are written; the order of each one's statements |
| `WrapperCall` | one thread's calls step by step, with handlers, hooks and `errno` |
| `MC...` | instances for TLC |
| `..._proofs` | theorems for every value of the constants: `ChildTracking`, `ChildTrackingLife`, `StreamTracking`, `SpawnObjects`, `ForkExec`, `SignalWait`, `Environment`, `WrapperCall` |

The resource log appears in four modules, as the balance (acquires minus
releases) of the things that module is about, because the wrappers write it
without reading it: the accounts of children, streams, descriptors and spawn
objects do not meet. `ChildTracking` composes every wrapper that touches the
table of children, those of `unistd.c`, `spawn.c`, `sys/wait.c` and `stdio.c`;
`WrapperCall` composes every wrapper of every file with the handlers that
interrupt it.

In each module an operator marked "mutant" is what the one after it could have
been; none of them is used.

### ChildTracking

The state is the kernel's entry for each pid (`child`, `news`), the ghosts
that say who was handed which pid (`owner`) and which children are popen's
(`shells`, `stream`), and the log's balance for each pid (`held`). Each wrapper
is two steps per thread: the native call, which leaves the thread with a debt
(`pc`, `pid`), and the event. The steps between (`p101_getpid`,
`P101_TRACK_FORK`, tests of local variables) touch nothing shared. A handler
that calls wrappers is one more member of `Threads`.

`usage` says what the program and the kernel do beyond the plain protocol:
wait for any child, reuse pids, ask for stop reports, pass no siginfo, pass a
siginfo that an earlier call filled to a kernel that leaves it alone, pass no
pid, use popen, jump out of handlers, ignore `SIGCHLD`. It is chosen at the start,
from the `Usages` of the run, and never changes.

Some calls cannot be reported rightly, whatever the wrapper does with what it
knows. `Gap` names them, from the request and the kernel's answer and not from
the wrapper's decision:

- `waitpid` with `WUNTRACED`/`WCONTINUED`, or `waitid` with
  `WSTOPPED`/`WCONTINUED`, hands back a child that is still there, and a
  release is logged (`src/sys/wait.c:76`, `:102`);
- `waitid` without a siginfo reaps a child the wrapper cannot name;
- `waitid` with `WNOHANG` finds nothing and leaves the siginfo alone, as some
  systems do: the pid in it is released, whosever it is;
- `posix_spawn` with `pid == NULL` makes a child the wrapper cannot name;
- a wait that collects popen's shell logs a release nobody acquired;
- `pclose` may collect a later child that was given the shell's number;
- `p101_siglongjmp` may skip a report;
- a child that exits while `SIGCHLD` is ignored (`SIG_IGN` or `SA_NOCLDWAIT`,
  by `p101_sigaction` or inherited) is removed by the kernel: no wait can collect
  it, and no release will be logged.

`gaps[p]` counts such calls and removals about `p`, and `MaxGaps` bounds it.
`Skew(p)` is what the log's account of `p` is wrong by, and `Conservation` says
that each of them puts it wrong by at most one, for its own child's pid and no
other. `NeverReleasedFirst` and `ChildLife` claim something of pids without
gaps only. This is a limit of what the log can be used
for, and users of the library should know the list. (The first entry is
the one that the wrapper could avoid: for `waitpid` by testing
`WIFSTOPPED`/`WIFCONTINUED`, for `waitid` by testing `si_code`; the third, by
clearing `si_pid` before the call.)

### StreamTracking

The C library's open streams and their descriptors (`open`, `number`), both
handed out again as soon as they are free; each thread's place in its wrapper
(`pc`, `stream`, `fd`); the log's two balances (`streams`, `fds`). `popen` is
three steps: native call, acquire event, open event. `pclose` is four: asking
for the descriptor and logging the release, closing the descriptor, freeing the
stream, logging the close. The native call is two steps because the descriptor
is free before the shell has been waited for. A stream may be closed by
another thread than opened it. A jump out of a wrapper loses the events it had
still to make; `spoilt` collects what the log then has wrong for good.

`StreamLife` gives each address the stages free, opening, logged, closing and
free again, and lost. Under the mapping the steps of all threads are the steps
of the addresses' lives, and a jump loses the address in the hands of the
wrapper that it leaves, if that wrapper was between `popen` and its acquire or
between the release and the end of `pclose`.

### SpawnObjects

Each object has what the C library holds (`live`, `content`) and what the
caller believes from the codes (`has`, `knows`); `log` is the balance, and
`leaked` counts the objects the program forgot at that address. A wrapper is
three steps, for the injector, the native call and the judgement, and can be left at each by
a jump, after which the caller is `unsure` of its object if the native call
had been made. The content is a sequence of requests, of which posix_spawn
would carry out the actions in order.

### ForkExec

Each process is one thread with a stack of wrappers in progress: those on top
were called by a handler. `fork` copies the stack, so a child that was forked
in a handler may return into wrappers that its parent entered. `forks` and
`said` are the log; `open` is the trace's entries minus exits. The child's side
of `fork` returns without `P101_WRAPPER_DONE` (`src/unistd.c:145-148`): the
parent's exit balances the one entry that was written. `astray` notes what a
process did that the log cannot follow (returned from a handler it was forked
in, jumped over wrappers, was replaced under them). What is claimed of a
process's announcements and trace is claimed of the processes the log can follow
(`Followed`): those that did not return or jump in this way. Every other one
still counts for `ForksAccounted` and `ForkRecordsTrue`.

### SignalWait

A program is a sequence of calls, its state the place in the current one
(`at`), dispositions, mask, pending signals and the timer. A wrapper is
entered, and may be interrupted, before its native call; `sigsuspend` changes
the mask in one step with the beginning of its wait. Handlers run one or
several at a time. A fault can turn down every call but those of `NoError`:
`p101_alarm` and `p101_sleep` have no error object and never ask the injector.
This is where `alarm` and then `pause` can wait for ever, and blocking first
cannot.

### Environment

`environ` maps a name to a copied value, to a caller's buffer, or to nothing;
`told` is the same as the caller knows it from the results. The caller
allocates, rewrites and frees buffers, and frees only what it was told is not in
the environment. A wrapper is three steps and can be jumped out of, after which
the caller is `unsure` of the name until a call about it returns 0.

### WrapperCall

`errno` and a stack of calls. `Path` of `WrapperShapes` gives each wrapper's
statements in order ("trace", "fault", "reject", "hook", "zero", "native",
"keep", "judge", "exit"), and one action per kind of statement executes the
innermost call's next one. "trace" is `P101_TRACE`, before the injector is
asked; "exit" is `P101_WRAPPER_DONE` or `P101_TRACE_EXIT`, where a call that was
turned down goes straight to. Both run the environment's code, as "hook" does, and
may change `errno` like it. A handler's wrapper can be pushed between any two
steps. A program is polite if its handlers restore `errno`, and rude if they may
leave it changed (`manners`, chosen at the start); a property of polite programs
says so. For each call the frame keeps what the wrapper knows (`ret`, `kept`,
`raised`) next to what is true (`truth`, whether the kernel was reached), and
`errno` as the last hook before the native call left it (`found`).

`Declared` gives the errors each native call can fail with; the runs use the
lists of `test/fault-outcome-manifest.tsv` for FreeBSD, where every error other
than `EINVAL` and `EIO` is `EOTHER`. A negative resource that
`p101_getrlimit` and `p101_setrlimit` refuse is `EINVAL` before any native call,
though FreeBSD's list has no `EINVAL` for them: the tests expect it
(`test/test_fault_wrappers_sys_resource.c:376`, `:791`), so the properties ask for
declared errors of native calls only.

## 3. Runs

| run | constants | shows |
|---|---|---|
| `children_any` | 3 threads, 2 pids, 3 births, 2 gaps per pid, every habit, or every habit but waiting for any child; symmetric in threads and pids; 554 427 states | `TypeOK`; `Conservation`: acquires minus releases, corrected by the reports owed, is the number of recorded children with the pid, wrong by at most one for each gap about it; `NeverReleasedFirst`: a double acquire is the worst that reuse does to a program that waits for its own children only, for every pid no gap was about |
| `children_own` | 2 threads, 2 pids, 2 births, 2 gaps per pid, every habit but waiting for any child, reuse and popen; fairness; 24 703 states | `ImplementsChildLife`: with threads that wait only for children handed to them, `ChildTracking` implements `ChildLife`, liveness included, and a gap or a jump loses its own child only |
| `calls_errors` | one wrapper of each of the 17 kinds, FreeBSD's lists, handlers that call a wrapper of each errno habit, polite or rude, hooks that change `errno`; depth 2; 2 930 806 states | `TypeOK`. Polite: `RaisesTheTruth`; `TurnedDownLeavesNoTrace`: a call turned down comes to its exit with `errno` as its trace left it; `SilenceIsFilledIn`: a silent failure is raised as what the release hook left, or else as `EIO`; `UndeclaredAreKnown`: the first two findings below are the only ways to an undeclared error. Polite or rude: `CodesAreImmune`, `StdioNeverRaisesZero`, and `FailuresAreNoticed`: the wrong error may be raised, even 0, but a failure is never hidden, except by `nice` and `getpriority`, and none made up, except by `times` at its clock value |
| `calls_clock` | all wrappers but `popen` and `pclose` | finds the first violation below |
| `calls_silent` | `popen` and `pclose` | finds the second violation below |
| `streams` | 3 threads, 3 addresses, 2 descriptors, streams handed over, 1 jump, fairness; 68 589 states | `TypeOK`; `StreamsLoggedExactly`, `DescriptorsConserved`, `ClosedAfterOpened`, `StreamHasDescriptor`: what the two accounts are worth at every moment; `ImplementsStreamLife`, liveness included |
| `spawn_objects` | 1 file-actions object, 1 attributes object, 2 + 1 requests, 2 forgotten objects, 1 jump; 6 858 states | `TypeOK`, `CallerKnows`, `LeaksAreReal` |
| `signals_waits` | 2 signals; any 4 of 12 calls, and 20 careful programs; faults; fairness; 108 123 states | `TypeOK`; `MaskAsAsked`: the mask is sigsuspend's exactly while it waits, and otherwise the one asked for; `BlockedStays`: nothing but the call that wants it takes a blocked signal; `WaitsEnd`: careful programs end, whenever the signals come |
| `signals_test` | the calls of `test_signal_waits` | finds the third violation below |
| `forkexec_log` | 2 processes, 2 images, depth 2, 2 open entries, everything handlers may do; 1 196 407 states | `TypeOK`; `ImageRecorded`: below the execs in progress the log has the image that runs; `TraceBalances`: an open entry for each wrapper entered; `ForksAccounted`: a fork is logged or still to be reported, unless its parent was killed, jumped or was replaced |
| `forkexec_forks` | 3 processes, fork only, handlers that return and jump, fairness; 32 429 states | `ForkRecordsTrue`; `EveryForkRecorded`: every fork is logged eventually unless its parent is killed or jumps |
| `environment` | 2 names, 2 values, 2 buffers; symmetric in all; 58 004 states | `NothingDangles`, `FindsWhatWasTold` |

Bounds. Two threads suffice for every race between a native call and its
report; the third lets one thread reap (or close), one be given the same number
and one be late with an older report. Two pids distinguish "this child" from
"another one"; three births give one pid two lives while the other is in use,
or three. In `children_own` no pid is reused, so that two births are two
children. Two gaps per pid can add up or cancel, and a lost child can be lost
again, which must be no step of `ChildLife`. Three addresses
over two descriptors let a descriptor be reused while the stream it belonged to
is not yet freed. Depth 2 (of `WrapperCall` and `ForkExec`) is a wrapper and the
handler that interrupts it; a handler interrupted by another is the same
situation one level up. Three processes are a parent, a child forked in a
handler, and the child of the fork below it. Of the error numbers, `EIO` is
stdio's default, `EINVAL` the one a wrapper raises itself, and `EOTHER` one that
is neither and stands for the rest. In `calls_errors` one wrapper stands for all
that have the same steps, tests and list of errors: `KindsAssumption` of
`MCWrapperCall`, which TLC evaluates, says that each of the 63 is like one of the
17. The calls of a program that follow each other meet in `errno` alone, and every
call starts with any.
Four calls around a signal are enough to set it up, to block or ignore it, to
send it and to wait. The theorems of section 5 do without these bounds.

Deadlock is not checked where the system may really stop: births are bounded
and the program may have nothing to do (`children_*`), all processes may have
exited (`forkexec_*`), a signal program ends or waits for a signal nobody
sends (`signals_*`). It is checked in the others.

Fairness, where it is assumed:

- `ChildTracking`: weak fairness of `Acquire` and `Release` of each thread.
  Between a native call's return and its event a wrapper runs straight on and
  nothing in it blocks. Nothing is asked of programs, children or the kernel, so a
  child may never exit and never be waited for.
- `StreamTracking`: weak fairness of `PopenAcquires`, for the same reason.
  `pclose` waits for the shell and may never return.
- `SignalWait`: the program goes on, time passes, and the kernel delivers what
  it can. The injector need never strike and nobody need send a signal.
- `ForkExec`: a process goes on in the wrapper at each depth, strongly fair
  because handlers may interrupt it again and again, each time disabling it. This
  assumes that handlers come to an end and leave the process time between them.

Every property has a variant of a mapped definition that violates it.

## 4. Three findings

`p101_times` (`src/sys/times.c:60`) raises `errno` whenever `times()` returns
`(clock_t)-1`. Unlike `p101_nice` and `p101_getpriority` it does not ask
whether `errno` is set. Where `clock_t` is an int (`src/sys/times.c:37`) a
running clock passes through -1, and the wrapper raises error 0 for a call that
succeeded. The tests of `times` call an error outside the declared list "an
undeclared platform failure" (`test/test_fault_wrappers_sys_times.c:296`); run
`calls_clock` reaches one in a few steps.

`p101_popen` and `p101_pclose` raise `EIO` for a failure that set no `errno`
(`src/stdio.c:41-49`, `:72`, `:90`): C libraries may return NULL or -1 that way,
and raising 0 would be worse. But no platform's list has `EIO` for them
(`test/fault-outcome-manifest.tsv:15-16`), and the tests call every other error
"an undeclared platform failure" (`test/test_fault_wrappers_stdio.c:300`, `:428`).
Run `calls_silent` reaches it. Either the lists want `EIO` or the tests a second
kind of outcome. A `pclose` that fails silently can also raise what the release
hook left in `errno` between the zeroing and the call (`src/stdio.c:60-63`);
`SilenceIsFilledIn` says that nothing else can get there.

`test_signal_waits` (`test/test_behavior.c:59-67`) sets an alarm of one second
and expects `p101_pause`, and later `p101_sigsuspend` with an empty mask, to
return -1. Nothing blocks `SIGALRM` in between, and the wrappers trace, ask the
injector and zero `errno` before they wait. If the thread is held up for the
second, the handler runs first and the wait has nothing to end it: run
`signals_test` ends there. Blocking the signal before the alarm is set and
waiting with `sigsuspend` or `sigwait` cannot hang; that is `WaitsEnd` in
`signals_waits`.

## 5. Proofs

Each theorem holds for every value of the constants that the named assumptions
of its module allow: sets of threads, pids, streams and so on of any size (the
threads finite where they are counted, and the "no such thing" values not among
them), any `Usages`, all bounds.

**Children** (`ChildTracking_proofs`): `TypeCorrect`, `LogConserved`
(`Conservation`), and `LogExactWhenSettled`: when no thread owes a report about
a pid and no call about it was a gap, the log holds the pid exactly when an
unreaped child of fork or spawn has it. The inductive invariant is `TypeOK`,
`ShellsAreChildren` and `Conservation`. `Conservation` alone is not inductive:
`Outstanding(p)` does not count popen's shells, so if a number could stay in
`shells` after its entry was gone, a fork that is given the number would add a
debt and no outstanding child. The counting is in two lemmas: a call that leaves
a thread with a debt adds one debtor to one pid and touches no other
(`OwesMore`), and settling does the reverse (`OwesLess`). From them, the balance
moves by one exactly when a native call succeeded and not at all when the event
is written. So every step keeps what the account of a pid is wrong by (`Keeps`),
or changes it by one and is a `Gap`, a jump or a vanishing child of that very
pid (`Spoils`); `Accounts` says so of every action, and `Conservation` follows.

`ChildTrackingLife_proofs` is about programs that wait only for what they were
handed (`"any_child" \notin usage`), whatever else they do: reuse of pids, stop
reports, missing or stale siginfos, missing pids, popen, jumps. First it says what
is left of each action under that one assumption (`OwnSteps`): it gives a
thread a child or takes it one, makes or reaps a shell, writes an event, idles, or
loses one child (`Loses`), which leaves every other pid's entry, owner, balance
and debts alone. Everything after is stated for the pids that no gap was about.

- `ReleasedAfterAcquired` (`NeverReleasedFirst`): an owner's child is unreaped
  and no shell, and a child whose acquire is owed has no owner and one debtor
  (`Handed`), so nobody can reap, and release, before the acquire; with
  `Conservation`, which is exact for a pid without gaps, that bounds the
  balance. The condition in `NeverReleasedFirst` is the exact one: with
  `any_child` another thread's wait does release first, which is the hazard at
  `src/unistd.c:142`.
- `ChildrenLive`: if also no pid is reused and there are no shells, `Spec`
  implies the safety part of `ChildLife`. The added invariant (`Level`) ties
  each debt to the child's state and the balance. Reuse and shells are left out because
  a stage line that is walked once does not describe them: a reused number is
  born again, and a shell dies without ever being held.

**Streams** (`StreamTracking_proofs`): `TypeCorrect`, `StreamsLogged`,
`DescriptorsBalance`, `DescriptorsOrdered`, `LogsAgree`, and `StreamsLive`:
`Spec` implies the safety part of `StreamLife`. For the streams the strengthening
is that no two wrappers are busy with the same stream (`OneHand`) and that a
stream somebody may close is in no wrapper (`OwnedApart`). Then the log alone
says at what stage a stream is unless it is spoilt, each action moves at most one stream, and
one stage on. Descriptors need in addition that two streams never share a
descriptor, that `pclose` has put aside the descriptor its stream still has, and
that a stream being freed has none: the debtors are then counted as for
children.

**Spawn objects** (`SpawnObjects_proofs`): `TypeCorrect`, `CodesTell`
(`CallerKnows`), `LeaksTold` (`LeaksAreReal`). They are inductive together once
it is known that a call fits what the caller has (`Intended`): without it a
second init could make the balance 2 for one live object.

**Fork and exec** (`ForkExec_proofs`), for any processes, images, habits and
nesting of handlers:

- `TypeCorrect`, and `ForksRecordedTruly` (`ForkRecordsTrue`). The strengthening
  says that a report owed in a wrapper that the process itself entered is about
  a child of its own, and that the unborn have no parent.
- `NoForkForgotten` (`ForksAccounted`), the safety half of `EveryForkRecorded`:
  inductive with the types alone, because a frame at "report" leaves the stack
  only by `Report`, which records it, or with everything around it, which the
  process is then known for (`Recordless`).
- `TracesBalance` (`TraceBalances`) and `ImagesRecordedTruly` (`ImageRecorded`),
  from one invariant, `LogInv`. Counting frames is not inductive. What is: the
  wrappers a process entered itself are exactly the `open[p]` innermost ones
  (`OnTop`), because what a child inherits lies below all it ever enters; a frame in
  fork's child branch is never the process's own (`Foreign`), which is why its
  missing trace exit does no harm; and the log holds the announcements of the frames in order
  (`Recorded`), for the processes it can follow. The work is in what a frame
  pushed, changed or popped does to the positions of the others: `CountedFromTail` counts announcements from the
  second frame on, by a bijection between the positions of a stack and of its
  tail, and `RecordedPlain` and `RecordedAnnouncing` say from it what `Recorded`
  means for a stack in terms of its tail. Every action is then one step of
  `BooksGoto`, `BooksEmpty` or a tail, and no induction over the stack is needed.

**Waiting for signals** (`SignalWait_proofs`), for any signals and any set of
programs made of the modelled calls (`ProgramsAssumption`): `TypeCorrect`;
`MasksAreThePrograms` (`MaskAsAsked`), inductive because it says which mask is
in force while `sigsuspend` waits, and not only that it may be another; and from
it `BlockedSignalsWait`, the action property `BlockedStays`: a pending signal
that the program has blocked is taken only by the `sigsuspend`, `sigwait` or
`sigaction` that wants it. This is the safety half of `WaitsEnd`: it is why the
signal is still there when a careful program begins to wait.

**Environment** (`Environment_proofs`): `TypeCorrect`, `BuffersOutlive`
(`NothingDangles`), `ResultsTell` (`FindsWhatWasTold`). The strengthening says
that a buffer in the environment, or on its way into it, is allocated and holds
the name it is the entry of, and that what the caller was told of a name is so
unless the C library has just done what the caller is about to be told.

**Calls** (`WrapperCall_proofs`), for any error numbers, any sets of wrappers
that programs and handlers call, and any nesting:

| theorem | states | handlers | but for |
|---|---|---|---|
| `TypeCorrect` | `TypeOK` | any | |
| `CodesNeedNoErrno` | `CodesAreImmune` | any | |
| `StdioRaisesSomething` | `StdioNeverRaisesZero` | any | |
| `NoFailureIsHidden` | `FailuresAreNoticed` | any | `nice`, `getpriority`, the clock value of `times` |
| `TurnedDownUnseen` | `TurnedDownLeavesNoTrace` | polite | |
| `SilenceIsTheHooks` | `SilenceIsFilledIn` | polite | |
| `TwoWaysToUndeclared` | `UndeclaredAreKnown` | polite | |
| `ErrorsAreTrue` | `RaisesTheTruth` | polite | silent failures, the clock value of `times` |

The invariant describes each call by the part of its path that is left
(`Sound`), and alone gives the first four. The others need more, because a call that
is interrupted must find the `errno` it left: `AllFit` says of every call in
progress, however deep, that it is right about the `errno` it will find when the
calls above it have returned (`Fits`, `Finds`). What it must be right about
depends on the call. One whose failure is told (`Tells`: not silent, and not
`times` at `(clock_t)-1`, `Misled`) must raise its own error from what it has kept
or will find. A silent one must find what its last hook left, or the 0 that it
put there itself (`Fill`). One that is turned down must still find at its exit
what its trace left. `TwoWaysToUndeclared` holds for any lists, and puts the
first two findings together: there is no third way to an undeclared error as
long as handlers restore `errno`. Where they do not, any wrapper that reads
`errno` may raise the wrong error, 0 included; `NoFailureIsHidden` is what
is left.

Only model-checked: whatever is about liveness (`WaitsEnd`,
`EveryForkRecorded`, and the liveness parts of the two refinements: the prover
has no rules for fairness). Their safety halves are theorems:
`BlockedSignalsWait`, `NoForkForgotten`, `ChildrenLive`, `StreamsLive`. Every
invariant and every action property that a run checks is a theorem. The three
violations are runs and have no proof.

## 6. Not modelled

- Headers, build files and test drivers have no behaviour of their own. What
  the tests assert was read; the findings are where it differs from the code.
- Process groups, sessions, niceness, limits, priorities, the scheduler and
  alternate signal stacks are kernel state that the wrappers pass through: of
  these calls the error path is modelled (`WrapperCall`) and not what they do.
- `P101_WRAPPER_BLOCKING` is a hook without effect on the wrapper. (`pause`,
  `sigsuspend`, `sigwait`, `sleep` and `pclose` can block too, without it.)
- The getters of `spawn.c` and `posix_spawn` itself only read objects; that
  `posix_spawn` carries out the actions in order is the C library's.
- The events after a success and `p101_getpid` inside fork and spawn are no steps
  of their own in `WrapperCall`: they come after the result and the error are
  settled, and to `errno`, which no caller may rely on then, they are one more hook
  before that of the way out. `nice` and `getpriority` read `errno` twice (test
  and raise); the two reads are one step.
- `ForkExec` has single-threaded processes: what another thread of a forking
  process was doing does not exist in the child. `SignalWait` has one thread as
  well; which thread of several gets a signal is not modelled. Neither has a
  crash to recover from: the library persists nothing.
- Buffers and objects are used by one thread at a time, as POSIX asks
  (`Environment`, `SpawnObjects`).

## 7. What is left

Under reuse of pids the children's account has bounds (`NeverReleasedFirst`) but
no abstract specification of its own: one would have to give each number several
children at once, the reaped ones whose release is late and the one that has it
now. `WaitsEnd` is checked for twenty careful
programs: an invariant that says of any program when the next wait has a source
left (a timer or a pending signal) would make it a theorem up to fairness. A
model of several threads with per-thread masks would extend `SignalWait` to
`p101_kill` of a multi-threaded program.
