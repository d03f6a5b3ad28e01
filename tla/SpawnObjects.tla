---------------------------- MODULE SpawnObjects ----------------------------
(***************************************************************************)
(* The objects a program prepares for p101_posix_spawn: file actions and   *)
(* attributes.  A wrapper that initialises or destroys one logs it; every  *)
(* wrapper can be turned down by the injector, can fail natively, and can  *)
(* be left by a jump out of a signal handler; what the caller knows of an  *)
(* object it knows from the codes that were returned.                      *)
(*                                                                         *)
(* An object's content is the sequence of requests it has taken: actions   *)
(* added, or settings of which the last of each field counts.  The getters *)
(* and posix_spawn only read objects; their codes are the matter of        *)
(* WrapperCall.  An object is used by one thread at a time, as POSIX asks, *)
(* so one thread is all there is.                                          *)
(***************************************************************************)
EXTENDS Integers, Sequences

CONSTANTS
  Actions,      \* addresses of posix_spawn_file_actions_t objects
  Attrs,        \* addresses of posix_spawnattr_t objects
  Additions,    \* requests of addclose, adddup2 and addopen
  Settings,     \* requests of setflags, setpgroup, setsigdefault, setsigmask
  NoRequest,
  MaxRequests,  \* bound: requests in one object
  MaxDrops,     \* bound: objects at one address that the program forgets
  MaxJumps      \* bound: jumps out of wrappers

Objects  == Actions \cup Attrs
Requests == Additions \cup Settings

ASSUME ObjectsAssumption == Actions \cap Attrs = {} /\ NoRequest \notin Requests
ASSUME BoundsAssumption  == {MaxRequests, MaxDrops, MaxJumps} \subseteq Nat

VARIABLES
  live,      \* objects the C library has initialised and not destroyed
  content,   \* content[o] : the requests it has taken for o
  has,       \* objects the caller believes live, from the codes it got
  knows,     \* knows[o]   : the requests it believes taken
  log,       \* log[o]     : acquire events minus release events
  leaked,    \* leaked[o]  : objects at o that were never destroyed
  call,      \* the wrapper in progress
  unsure,    \* objects whose last call the caller saw no code of
  jumps      \* jumps so far

vars == <<live, content, has, knows, log, leaked, call, unsure, jumps>>

(* A call: its operation ("none" when there is none), its object, its      *)
(* request, and how far it is: "fault" before the injector is asked,       *)
(* "native", "judge" once the C library has done as asked.                 *)
NoCall == [op |-> "none", on |-> NoRequest, with |-> NoRequest, at |-> "fault"]

Init ==
  /\ live    = {}
  /\ content = [o \in Objects |-> <<>>]
  /\ has     = {}
  /\ knows   = [o \in Objects |-> <<>>]
  /\ log     = [o \in Objects |-> 0]
  /\ leaked  = [o \in Objects |-> 0]
  /\ call    = NoCall
  /\ unsure  = {}
  /\ jumps   = 0

-----------------------------------------------------------------------------
(* A program initialises an object it does not have, and changes or        *)
(* destroys one it has, as far as it has been told.                        *)
Calls(op, o, request) ==
  /\ call.op = "none" /\ o \notin unsure
  /\ call' = [op |-> op, on |-> o, with |-> request, at |-> "fault"]
  /\ UNCHANGED <<live, content, has, knows, log, leaked, unsure, jumps>>

Initialise(o)   == o \notin has /\ Calls("init", o, NoRequest)
Destroy(o)      == o \in has /\ Calls("destroy", o, NoRequest)
Ask(o, request) == o \in has /\ Len(knows[o]) < MaxRequests /\ Calls("ask", o, request)

(* P101_WRAPPER_FAULT_RETURN_CODE is asked before the native call, and     *)
(* what it turns down has no effect.                                       *)
FaultsLate(at) == at = "judge"    \* mutant: asked after the native call
Faults(at) == at = "fault"

Faulted ==
  /\ call.op # "none" /\ Faults(call.at)
  /\ call' = NoCall
  /\ UNCHANGED <<live, content, has, knows, log, leaked, unsure, jumps>>

Passed ==
  /\ call.op # "none" /\ call.at = "fault"
  /\ call' = [call EXCEPT !.at = "native"]
  /\ UNCHANGED <<live, content, has, knows, log, leaked, unsure, jumps>>

(* What a call does to a set of live objects and to their contents.        *)
Lives(objects, c) ==
  IF c.op = "init" THEN objects \cup {c.on}
  ELSE IF c.op = "destroy" THEN objects \ {c.on} ELSE objects

Holds(contents, c) ==
  [contents EXCEPT ![c.on] = IF c.op = "ask" THEN Append(@, c.with) ELSE <<>>]

Native ==
  /\ call.op # "none" /\ call.at = "native"
  /\ live' = Lives(live, call)
  /\ content' = Holds(content, call)
  /\ call' = [call EXCEPT !.at = "judge"]
  /\ UNCHANGED <<has, knows, log, leaked, unsure, jumps>>

(* What the wrappers log, given whether the native call returned 0.        *)
LogsAttempts(op, ok) ==    \* mutant: a failed destroy is logged as a release
  IF op = "init" /\ ok THEN 1 ELSE IF op = "destroy" THEN -1 ELSE 0
Logs(op, ok) ==
  IF ~ok THEN 0 ELSE IF op = "init" THEN 1 ELSE IF op = "destroy" THEN -1 ELSE 0

(* The native call returns an error number: the object is as it was.       *)
NativeFails ==
  /\ call.op # "none" /\ call.at = "native"
  /\ log' = [log EXCEPT ![call.on] = @ + Logs(call.op, FALSE)]
  /\ call' = NoCall
  /\ UNCHANGED <<live, content, has, knows, leaked, unsure, jumps>>

(* The event, if any, reaches the log, and the code 0 the caller.          *)
Succeeds ==
  /\ call.op # "none" /\ call.at = "judge"
  /\ log' = [log EXCEPT ![call.on] = @ + Logs(call.op, TRUE)]
  /\ has' = Lives(has, call)
  /\ knows' = Holds(knows, call)
  /\ call' = NoCall
  /\ UNCHANGED <<live, content, leaked, unsure, jumps>>

JumpsNowhere ==    \* mutant: the handler returns into the wrapper after all
  /\ call.op # "none" /\ jumps < MaxJumps
  /\ jumps' = jumps + 1
  /\ unsure' = IF call.at = "judge" THEN unsure \cup {call.on} ELSE unsure
  /\ UNCHANGED <<live, content, has, knows, log, leaked, call>>

(* A signal handler jumps out of the wrapper.  Once the native call has    *)
(* been made the caller does not know what became of its object and leaves *)
(* it alone.                                                               *)
Siglongjmp ==
  /\ call.op # "none" /\ jumps < MaxJumps
  /\ jumps' = jumps + 1
  /\ unsure' = IF call.at = "judge" THEN unsure \cup {call.on} ELSE unsure
  /\ call' = NoCall
  /\ UNCHANGED <<live, content, has, knows, log, leaked>>

(* The program forgets to destroy an object: its storage goes out of scope *)
(* or is initialised again.                                                *)
Drop(o) ==
  /\ call.op = "none" /\ o \in has \ unsure /\ leaked[o] < MaxDrops
  /\ live' = live \ {o}
  /\ content' = [content EXCEPT ![o] = <<>>]
  /\ has' = has \ {o}
  /\ knows' = [knows EXCEPT ![o] = <<>>]
  /\ leaked' = [leaked EXCEPT ![o] = @ + 1]
  /\ UNCHANGED <<log, call, unsure, jumps>>

Next ==
  \/ \E o \in Objects : Initialise(o) \/ Destroy(o) \/ Drop(o)
  \/ \E o \in Actions, request \in Additions : Ask(o, request)
  \/ \E o \in Attrs, request \in Settings : Ask(o, request)
  \/ Faulted \/ Passed \/ Native \/ NativeFails \/ Succeeds \/ Siglongjmp

Spec == Init /\ [][Next]_vars

-----------------------------------------------------------------------------
TypeOK ==
  /\ live \cup has \cup unsure \subseteq Objects
  /\ content \in [Objects -> Seq(Requests)]
  /\ knows   \in [Objects -> Seq(Requests)]
  /\ log     \in [Objects -> Int]
  /\ leaked  \in [Objects -> 0 .. MaxDrops]
  /\ call \in [op : {"none", "init", "destroy", "ask"}, on : Objects \cup {NoRequest},
               with : Requests \cup {NoRequest}, at : {"fault", "native", "judge"}]
  /\ call.op # "none" => call.on \in Objects \ unsure
  /\ call.op = "ask" => call.with \in Requests
  /\ jumps   \in 0 .. MaxJumps

(* The C library has done what the call asks, and nobody knows yet.        *)
InFlight(o) == call.op # "none" /\ call.at = "judge" /\ call.on = o

(* A caller that goes by the codes knows its objects: a call that was      *)
(* turned down or failed has changed nothing, one that returned 0 has done *)
(* all of what was asked, in the order asked, so that posix_spawn is given *)
(* what the caller put together (src/src/spawn.c:61-107, 260-326).         *)
CallerKnows ==
  \A o \in Objects \ unsure :
    IF InFlight(o)
      THEN /\ o \in live <=> o \in Lives(has, call)
           /\ content[o] = Holds(knows, call)[o]
      ELSE (o \in live <=> o \in has) /\ content[o] = knows[o]

(* What the log says is leaked is leaked: it counts the live object and    *)
(* the ones forgotten, and no object that was turned down, failed to       *)
(* initialise, or was destroyed at the second attempt                      *)
(* (src/src/spawn.c:109-169, 239-258).                                     *)
LeaksAreReal ==
  \A o \in Objects \ unsure :
    log[o] + (IF InFlight(o) THEN Logs(call.op, TRUE) ELSE 0)
      = leaked[o] + (IF o \in live THEN 1 ELSE 0)
=============================================================================
