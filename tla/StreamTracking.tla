--------------------------- MODULE StreamTracking ---------------------------
(***************************************************************************)
(* The stream and descriptor events of p101_popen and p101_pclose.  The C  *)
(* library hands out FILE addresses and the kernel hands out descriptor    *)
(* numbers, both reused as soon as they are free.  The wrappers log the    *)
(* release of a stream before its address can be reused, and the closing   *)
(* of a descriptor after its number may have been reused.                  *)
(*                                                                         *)
(* A call turned down by the injector, or a popen that fails, logs nothing *)
(* and changes nothing here.  pclose ends the stream whether it succeeds   *)
(* or not, and its wrapper logs the same events either way.                *)
(***************************************************************************)
EXTENDS Integers, FiniteSets

CONSTANTS
  Threads,    \* threads (and signal handlers) that open and close streams
  Streams,    \* addresses of FILE objects
  Fds,        \* descriptor numbers
  NoThread, NoStream, NoFd,
  Usage,      \* what the program does beyond closing what it opened
  MaxJumps    \* bound: reports lost to p101_siglongjmp

Habits == {"hand_over", "longjmp"}

ASSUME ThreadsAssumption == IsFiniteSet(Threads) /\ NoThread \notin Threads
ASSUME StreamsAssumption == NoStream \notin Streams
ASSUME FdsAssumption     == NoFd \notin Fds
ASSUME DisjointAssumption == Streams \cap Fds = {}
ASSUME UsageAssumption   == Usage \subseteq Habits
ASSUME BoundsAssumption  == MaxJumps \in Nat

VARIABLES
  open,      \* streams the C library has open
  number,    \* number[s] : the descriptor under s, NoFd when it has none
  owner,     \* owner[s]  : the thread that may close s
  pc,        \* pc[t]     : what thread t is about to do inside its wrapper
  stream,    \* stream[t] : that wrapper's stream
  fd,        \* fd[t]     : the descriptor p101_pclose has put aside
  streams,   \* streams[s]: acquire events minus release events
  fds,       \* fds[f]    : open events minus close events
  spoilt,    \* streams and descriptors about which a report was lost
  jumps      \* reports lost so far

vars == <<open, number, owner, pc, stream, fd, streams, fds, spoilt, jumps>>

Taken == {number[s] : s \in open}

Init ==
  /\ open    = {}
  /\ number  = [s \in Streams |-> NoFd]
  /\ owner   = [s \in Streams |-> NoThread]
  /\ pc      = [t \in Threads |-> "idle"]
  /\ stream  = [t \in Threads |-> NoStream]
  /\ fd      = [t \in Threads |-> NoFd]
  /\ streams = [s \in Streams |-> 0]
  /\ fds     = [f \in Fds |-> 0]
  /\ spoilt  = {}
  /\ jumps   = 0

Goes(t, from, to) == pc[t] = from /\ pc' = [pc EXCEPT ![t] = to]

-----------------------------------------------------------------------------
(* p101_popen: the native call, the acquire event, the open event.         *)

PopenOpens(t) ==
  /\ Goes(t, "idle", "acquire")
  /\ \E s \in Streams \ open, f \in Fds \ Taken :
       /\ open' = open \cup {s}
       /\ number' = [number EXCEPT ![s] = f]
       /\ stream' = [stream EXCEPT ![t] = s]
  /\ UNCHANGED <<owner, fd, streams, fds, spoilt, jumps>>

PopenAcquires(t) ==
  /\ Goes(t, "acquire", "track_open")
  /\ streams' = [streams EXCEPT ![stream[t]] = @ + 1]
  /\ UNCHANGED <<open, number, owner, stream, fd, fds, spoilt, jumps>>

(* fileno() of the new stream, P101_TRACK_OPEN, and the return.            *)
TracksNothing(f) == FALSE    \* mutant: no open event
TracksOpen(f) == f # NoFd

PopenTracksOpen(t) ==
  /\ Goes(t, "track_open", "idle")
  /\ LET f == number[stream[t]]
     IN  fds' = IF TracksOpen(f) THEN [fds EXCEPT ![f] = @ + 1] ELSE fds
  /\ owner' = [owner EXCEPT ![stream[t]] = t]
  /\ stream' = [stream EXCEPT ![t] = NoStream]
  /\ UNCHANGED <<open, number, fd, streams, spoilt, jumps>>

-----------------------------------------------------------------------------
(* p101_pclose: fileno() and the release event, the native call in its two *)
(* parts (the descriptor is closed, then the shell is waited for and the   *)
(* stream freed), and the close event.                                     *)

ReleasesAfterwards(step) == step = "free"    \* mutant: release after the native call
Releases(step) == step = "enter"

LogsRelease(step, s) ==
  streams' = IF Releases(step) THEN [streams EXCEPT ![s] = @ - 1] ELSE streams

MayClose(t, s) == owner[s] = t \/ ("hand_over" \in Usage /\ owner[s] # NoThread)

(* The descriptor p101_pclose remembers: asked for before the stream goes. *)
ForgetsDescriptor(s) == NoFd    \* mutant: asked for too late
Remembers(s) == number[s]

PcloseReleases(t) ==
  /\ Goes(t, "idle", "shut")
  /\ \E s \in open :
       /\ MayClose(t, s)
       /\ fd' = [fd EXCEPT ![t] = Remembers(s)]
       /\ stream' = [stream EXCEPT ![t] = s]
       /\ owner' = [owner EXCEPT ![s] = NoThread]
       /\ LogsRelease("enter", s)
  /\ UNCHANGED <<open, number, fds, spoilt, jumps>>

PcloseShuts(t) ==
  /\ Goes(t, "shut", "free")
  /\ number' = [number EXCEPT ![stream[t]] = NoFd]
  /\ UNCHANGED <<open, owner, stream, fd, streams, fds, spoilt, jumps>>

PcloseFrees(t) ==
  /\ Goes(t, "free", "track_close")
  /\ open' = open \ {stream[t]}
  /\ stream' = [stream EXCEPT ![t] = NoStream]
  /\ LogsRelease("free", stream[t])
  /\ UNCHANGED <<number, owner, fd, fds, spoilt, jumps>>

PcloseTracksClose(t) ==
  /\ Goes(t, "track_close", "idle")
  /\ fds' = IF fd[t] = NoFd THEN fds ELSE [fds EXCEPT ![fd[t]] = @ - 1]
  /\ fd' = [fd EXCEPT ![t] = NoFd]
  /\ UNCHANGED <<open, number, owner, stream, streams, spoilt, jumps>>

-----------------------------------------------------------------------------
(* A signal handler leaves thread t's wrapper by p101_siglongjmp.  What    *)
(* the log then has wrong for good: a descriptor whose event is not made,  *)
(* a stream whose acquire is not made or whose release was made for a      *)
(* close that never happens.                                               *)
LostAbout(t) ==
  (IF pc[t] \in {"acquire", "shut", "free"} THEN {stream[t]} ELSE {})
    \cup (IF pc[t] \in {"acquire", "track_open"} THEN {number[stream[t]]} ELSE {})
    \cup (IF pc[t] \in {"free", "track_close"} THEN {fd[t]} ELSE {})

Siglongjmp(t) ==
  /\ "longjmp" \in Usage
  /\ jumps < MaxJumps
  /\ pc[t] # "idle"
  /\ jumps' = jumps + 1
  /\ spoilt' = spoilt \cup LostAbout(t)
  /\ pc' = [pc EXCEPT ![t] = "idle"]
  /\ stream' = [stream EXCEPT ![t] = NoStream]
  /\ fd' = [fd EXCEPT ![t] = NoFd]
  /\ UNCHANGED <<open, number, owner, streams, fds>>

-----------------------------------------------------------------------------
Popen(t)  == PopenOpens(t) \/ PopenAcquires(t) \/ PopenTracksOpen(t)
Pclose(t) == PcloseReleases(t) \/ PcloseShuts(t) \/ PcloseFrees(t) \/ PcloseTracksClose(t)

Next == \E t \in Threads : Popen(t) \/ Pclose(t) \/ Siglongjmp(t)

Spec == Init /\ [][Next]_vars

(* Nothing blocks between popen's return and its acquire event.            *)
FairSpec == Spec /\ \A t \in Threads : WF_vars(PopenAcquires(t))

-----------------------------------------------------------------------------
TypeOK ==
  /\ open    \subseteq Streams
  /\ number  \in [Streams -> Fds \cup {NoFd}]
  /\ owner   \in [Streams -> Threads \cup {NoThread}]
  /\ pc      \in [Threads -> {"idle", "acquire", "track_open", "shut", "free", "track_close"}]
  /\ stream  \in [Threads -> Streams \cup {NoStream}]
  /\ fd      \in [Threads -> Fds \cup {NoFd}]
  /\ streams \in [Streams -> Int]
  /\ fds     \in [Fds -> Int]
  /\ spoilt  \subseteq Streams \cup Fds
  /\ jumps   \in 0 .. MaxJumps
  /\ \A t \in Threads :
       /\ pc[t] \in {"acquire", "track_open", "shut", "free"} => stream[t] \in open
       /\ pc[t] \in {"shut", "free", "track_close"} => fd[t] \in Fds

Inside(t, steps) == pc[t] \in steps

(* The log has a stream exactly while it exists and is in nobody's wrapper *)
(* (but for popen's, past its acquire): two streams at one address, one    *)
(* after the other, never overlap in the log, whoever closes them          *)
(* (src/src/stdio.c:61 before 62).  A pclose left in the middle spoils the *)
(* account of its own stream only.                                         *)
InTransit(s) == \E t \in Threads : Inside(t, {"acquire", "shut", "free"}) /\ stream[t] = s

StreamsLoggedExactly ==
  \A s \in Streams \ spoilt : streams[s] = IF s \in open /\ ~InTransit(s) THEN 1 ELSE 0

(* Descriptors are logged closed after their numbers are free              *)
(* (src/src/stdio.c:67 after 62), so a number can be logged open twice.    *)
(* Corrected by the events that threads are about to make the log is       *)
(* exact, so it is exact when the threads are done.                        *)
OwesOpen(f)  == {t \in Threads : Inside(t, {"acquire", "track_open"}) /\ number[stream[t]] = f}
OwesClose(f) == {t \in Threads : Inside(t, {"free", "track_close"}) /\ fd[t] = f}

DescriptorsConserved ==
  \A f \in Fds \ spoilt :
    fds[f] + Cardinality(OwesOpen(f)) - Cardinality(OwesClose(f)) = IF f \in Taken THEN 1 ELSE 0

(* A descriptor is never logged closed before it is logged open, and it is *)
(* over-counted by no more than the closes still owed: the late close      *)
(* makes a number look shared, never unopened.                             *)
ClosedAfterOpened ==
  \A f \in Fds \ spoilt : fds[f] >= 0 /\ fds[f] <= 1 + Cardinality(OwesClose(f))

(* The two logs agree: a stream the log has, in nobody's wrapper, sits on  *)
(* a descriptor the log has.                                               *)
StreamHasDescriptor ==
  \A s \in open :
    owner[s] # NoThread /\ number[s] \notin spoilt => fds[number[s]] >= 1
=============================================================================
