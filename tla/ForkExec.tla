------------------------------ MODULE ForkExec ------------------------------
(***************************************************************************)
(* What the log says of processes: p101_fork reports parent and child with *)
(* P101_TRACK_FORK after fork, the exec wrappers announce the new image    *)
(* with P101_TRACK_EXEC before exec and take it back with                  *)
(* P101_TRACK_EXEC_FAILURE after it, and every wrapper writes a trace      *)
(* entry and a trace exit.                                                 *)
(*                                                                         *)
(* A process is one thread with a stack of wrappers: those on top of       *)
(* another were called by a handler that interrupted it.  fork copies the  *)
(* stack.  A child whose fork was called by a handler stands in that       *)
(* handler, and if it returns from it, it goes on in a wrapper its parent  *)
(* had entered.  fork's resource event is the matter of ChildTracking.     *)
(***************************************************************************)
EXTENDS Integers, Sequences, FiniteSets

CONSTANTS
  Processes,     \* pids, none of them used twice
  First,         \* the process the program starts as
  NoProcess,
  Images,        \* what exec can be asked to run
  Program,       \* the image First starts with
  Usage,         \* what the program and its handlers do, see Habits
  MaxDepth,      \* bound: wrappers in progress in one process
  MaxOpen        \* bound: trace entries without exit, which jumps leave

(* "exec"   : the program and its handlers call exec                       *)
(* "return" : a child forked by a handler returns from the handler         *)
(* "jump"   : a handler leaves by p101_siglongjmp                          *)
Habits == {"exec", "return", "jump"}

ASSUME ProcessesAssumption ==
  /\ First \in Processes /\ NoProcess \notin Processes
  /\ Program \in Images
  /\ Usage \subseteq Habits
ASSUME BoundsAssumption == {MaxDepth, MaxOpen} \subseteq Nat \ {0}

VARIABLES
  state,     \* state[p]  : unborn, alive or gone
  parent,    \* parent[p] : the process that forked p
  image,     \* image[p]  : what p runs
  stack,     \* stack[p]  : the wrappers in progress, the innermost first
  forks,     \* the pairs <<parent, child>> in the log
  said,      \* said[p]   : the images the log holds for p, the latest first
  open,      \* open[p]   : trace entries minus exits, since the image started
  astray     \* astray[p] : what p did that the log cannot follow

vars == <<state, parent, image, stack, forks, said, open, astray>>

Astray == {"returned", "jumped", "replaced"}

(* A wrapper in progress: how far it is, the image exec has announced, the *)
(* child fork returned, and whether the process entered it itself.         *)
Frame(op) ==
  [op |-> op, at |-> "start", image |-> Program, child |-> NoProcess, own |-> TRUE]
Frames ==
  {f \in [op : {"fork", "exec"}, at : {"start", "native", "failed", "report", "child"},
          image : Images, child : Processes \cup {NoProcess}, own : BOOLEAN] :
     f.at = "report" => f.child # NoProcess}

Init ==
  /\ state  = [p \in Processes |-> IF p = First THEN "alive" ELSE "unborn"]
  /\ parent = [p \in Processes |-> NoProcess]
  /\ image  = [p \in Processes |-> Program]
  /\ stack  = [p \in Processes |-> <<>>]
  /\ forks  = {}
  /\ said   = [p \in Processes |-> <<Program>>]
  /\ open   = [p \in Processes |-> 0]
  /\ astray = [p \in Processes |-> {}]

Top(p)  == Head(stack[p])
Rest(p) == Tail(stack[p])

(* p steps in its innermost wrapper.  A wrapper that its parent entered it *)
(* can only step in by returning from the handler it was forked in, but    *)
(* for the end of fork itself.                                             *)
Strays(p) == ~Top(p).own /\ Top(p).at # "child"

At(p, op, at) ==
  /\ state[p] = "alive" /\ stack[p] # <<>>
  /\ Top(p).op = op /\ Top(p).at = at
  /\ Strays(p) => "return" \in Usage

Straying(p) == IF Strays(p) THEN astray[p] \cup {"returned"} ELSE astray[p]
Stray(p)    == astray' = [astray EXCEPT ![p] = Straying(p)]

(* Leaving these wrappers of p in the middle leaves something undone: a    *)
(* trace exit, or the report of a child that p has forked.                 *)
Undone(p, frames) ==
  \E n \in DOMAIN frames :
    frames[n].own \/ (frames[n].at = "report" /\ parent[frames[n].child] = p)

Goto(p, frame) == stack' = [stack EXCEPT ![p] = <<frame>> \o Rest(p)]

-----------------------------------------------------------------------------
(* P101_TRACE, of the program or of a handler. *)
Enter(p, op) ==
  /\ op = "fork" \/ "exec" \in Usage
  /\ state[p] = "alive" /\ Len(stack[p]) < MaxDepth /\ open[p] < MaxOpen
  /\ stack' = [stack EXCEPT ![p] = <<Frame(op)>> \o @]
  /\ open' = [open EXCEPT ![p] = @ + 1]
  /\ UNCHANGED <<state, parent, image, forks, said, astray>>

(* The wrapper returns, with P101_WRAPPER_DONE unless it is fork in the    *)
(* child, whose entry the parent has written.                              *)
ExitsAlways(at) == TRUE    \* mutant: P101_WRAPPER_DONE on both sides of fork
Exits(at) == at # "child"

Leave(p) ==
  /\ stack' = [stack EXCEPT ![p] = Rest(p)]
  /\ open' = [open EXCEPT ![p] = @ - (IF Exits(Top(p).at) THEN 1 ELSE 0)]
  /\ Stray(p)

(* The injector turns the call down, or fork fails. *)
TurnedDown(p) ==
  /\ At(p, "fork", "start") \/ At(p, "exec", "start")
  /\ Leave(p)
  /\ UNCHANGED <<state, parent, image, forks, said>>

(* p101_env_after_fork_child, and the end of the wrapper in the child. *)
AfterForkChild(p) ==
  /\ At(p, "fork", "child")
  /\ Leave(p)
  /\ UNCHANGED <<state, parent, image, forks, said>>

-----------------------------------------------------------------------------
(* Where a side of fork goes on, by what fork returned to it. *)
AfterFork(ret) == IF ret = NoProcess THEN "child" ELSE "report"

(* The child has a copy of the parent's stack. *)
Inherited(frames) ==
  [n \in DOMAIN frames |->
    [frames[n] EXCEPT !.own = FALSE, !.at = IF n = 1 THEN AfterFork(NoProcess) ELSE @]]

Fork(p, c) ==
  /\ At(p, "fork", "start") /\ state[c] = "unborn"
  /\ state'  = [state EXCEPT ![c] = "alive"]
  /\ parent' = [parent EXCEPT ![c] = p]
  /\ image'  = [image EXCEPT ![c] = image[p]]
  /\ said'   = [said EXCEPT ![c] = <<image[p]>>]
  /\ stack'  = [stack EXCEPT
       ![p] = <<[Top(p) EXCEPT !.at = AfterFork(c), !.child = c]>> \o Rest(p),
       ![c] = Inherited(stack[p])]
  /\ Stray(p)
  /\ UNCHANGED <<forks, open>>

(* The parent's pid is asked for here, after fork. *)
ReporterStale(p) == IF parent[p] = NoProcess THEN p ELSE parent[p]    \* mutant: a pid from before fork
ReporterParent(p) == parent[p]                                       \* mutant: getppid
Reporter(p) == p

SkipsReport(record) == {}    \* mutant: no P101_TRACK_FORK
Records(record) == {record}

Report(p) ==
  /\ At(p, "fork", "report")
  /\ forks' = forks \cup Records(<<Reporter(p), Top(p).child>>)
  /\ Leave(p)
  /\ UNCHANGED <<state, parent, image, said>>

-----------------------------------------------------------------------------
Announce(p, i) ==
  /\ At(p, "exec", "start")
  /\ said' = [said EXCEPT ![p] = <<i>> \o @]
  /\ Goto(p, [Top(p) EXCEPT !.at = "native", !.image = i]) /\ Stray(p)
  /\ UNCHANGED <<state, parent, image, forks, open>>

(* The new image has no wrapper in progress and no trace, and none of what *)
(* the log holds for p will be taken back.                                 *)
Latest(images) == IF images = <<>> THEN <<>> ELSE <<Head(images)>>

Exec(p) ==
  /\ At(p, "exec", "native")
  /\ image' = [image EXCEPT ![p] = Top(p).image]
  /\ stack' = [stack EXCEPT ![p] = <<>>]
  /\ said' = [said EXCEPT ![p] = Latest(@)]
  /\ open' = [open EXCEPT ![p] = 0]
  /\ astray' = [astray EXCEPT ![p] =
       Straying(p) \cup IF Undone(p, Rest(p)) THEN {"replaced"} ELSE {}]
  /\ UNCHANGED <<state, parent, forks>>

ExecFails(p) ==
  /\ At(p, "exec", "native")
  /\ Goto(p, [Top(p) EXCEPT !.at = "failed"]) /\ Stray(p)
  /\ UNCHANGED <<state, parent, image, forks, said, open>>

(* P101_TRACK_EXEC_FAILURE takes the latest announcement back, if any. *)
KeepsAnnouncement(images) == images    \* mutant: the failure is not logged
TakenBack(images) == IF images = <<>> THEN <<>> ELSE Tail(images)

TakeBack(p) ==
  /\ At(p, "exec", "failed")
  /\ said' = [said EXCEPT ![p] = TakenBack(@)]
  /\ Leave(p)
  /\ UNCHANGED <<state, parent, image, forks>>

-----------------------------------------------------------------------------
(* A handler jumps back to the program, over every wrapper in progress. *)
Siglongjmp(p) ==
  /\ "jump" \in Usage /\ state[p] = "alive" /\ stack[p] # <<>>
  /\ stack' = [stack EXCEPT ![p] = <<>>]
  /\ astray' = [astray EXCEPT ![p] =
       @ \cup IF Undone(p, stack[p]) THEN {"jumped"} ELSE {}]
  /\ UNCHANGED <<state, parent, image, forks, said, open>>

(* p exits, or is killed wherever it is; what it ran and what the log held *)
(* for it matters no more.                                                 *)
Exit(p) ==
  /\ state[p] = "alive"
  /\ state' = [state EXCEPT ![p] = "gone"]
  /\ image' = [image EXCEPT ![p] = Program]
  /\ stack' = [stack EXCEPT ![p] = <<>>]
  /\ said'  = [said EXCEPT ![p] = <<Program>>]
  /\ open'  = [open EXCEPT ![p] = 0]
  /\ astray' = [astray EXCEPT ![p] = @ \cap {"returned"}]
  /\ UNCHANGED <<parent, forks>>

Continue(p) ==
  \/ TurnedDown(p) \/ AfterForkChild(p) \/ Report(p)
  \/ \E c \in Processes : Fork(p, c)
  \/ \E i \in Images : Announce(p, i)
  \/ Exec(p) \/ ExecFails(p) \/ TakeBack(p)

Next ==
  \E p \in Processes :
    Enter(p, "fork") \/ Enter(p, "exec") \/ Continue(p) \/ Siglongjmp(p) \/ Exit(p)

Spec == Init /\ [][Next]_vars

(* A process goes on in its wrapper, however often handlers interrupt it.  *)
FairSpec ==
  /\ Spec
  /\ \A p \in Processes, d \in 1 .. MaxDepth : SF_vars(Len(stack[p]) = d /\ Continue(p))

-----------------------------------------------------------------------------
TypeOK ==
  /\ state  \in [Processes -> {"unborn", "alive", "gone"}]
  /\ parent \in [Processes -> Processes \cup {NoProcess}]
  /\ image  \in [Processes -> Images]
  /\ stack  \in [Processes -> Seq(Frames)]
  /\ forks  \subseteq Processes \X Processes
  /\ said   \in [Processes -> Seq(Images)]
  /\ open   \in [Processes -> Int]
  /\ astray \in [Processes -> SUBSET Astray]
  /\ \A p \in Processes : state[p] # "alive" => stack[p] = <<>>

(* The log names no parent that is not the child's, unless a child         *)
(* returned from the handler it was forked in and finished the fork its    *)
(* parent was in the middle of (src/src/unistd.c:134-143).                 *)
ForkRecordsTrue ==
  \A record \in forks :
    "returned" \in astray[record[1]] \/ parent[record[2]] = record[1]

(* A process the log can follow: a handler has neither jumped out of it    *)
(* nor returned in it to a wrapper that its parent entered.                *)
Followed(p) == state[p] = "alive" /\ astray[p] \cap {"returned", "jumped"} = {}

(* What the log holds for a process is, below the announcements of the     *)
(* execs in progress, the image the process runs: no failed, turned-down   *)
(* or interrupted exec leaves another, and no successful one goes          *)
(* unannounced (src/src/unistd.c:48-115).                                  *)
Announcing(frame) == frame.own /\ frame.op = "exec" /\ frame.at \in {"native", "failed"}
Announced(frames, n) == Cardinality({m \in 1 .. n : Announcing(frames[m])})
Recorded(images, frames, runs) ==
  LET all == Announced(frames, Len(frames)) IN
    /\ Len(images) > all /\ images[all + 1] = runs
    /\ \A n \in DOMAIN frames :
         Announcing(frames[n]) => images[Announced(frames, n)] = frames[n].image
ImageRecorded == \A p \in Processes : Followed(p) => Recorded(said[p], stack[p], image[p])

(* A process's trace has an entry without exit for each wrapper it is in,  *)
(* and no exit without entry: the child of fork has neither                *)
(* (src/src/unistd.c:130-149).                                             *)
TraceBalances ==
  \A p \in Processes :
    Followed(p) => open[p] = Cardinality({n \in DOMAIN stack[p] : stack[p][n].own})

(* No fork is forgotten: it is in the log, or the parent is still in the   *)
(* wrapper that will report it, unless it was killed, jumped or was        *)
(* replaced by a handler's exec before the report (src/src/unistd.c:134-143). *)
Recordless(p) == state[p] = "gone" \/ astray[p] \cap {"jumped", "replaced"} # {}
WillReport(p, c) ==
  \E n \in DOMAIN stack[p] : stack[p][n].at = "report" /\ stack[p][n].child = c
ForksAccounted ==
  \A c \in Processes \ {First} : state[c] # "unborn" =>
    \E p \in Processes :
      parent[c] = p /\ (<<p, c>> \in forks \/ Recordless(p) \/ WillReport(p, c))

(* And every fork reaches the log in the end.                              *)
EveryForkRecorded ==
  \A c \in Processes \ {First} :
    (state[c] # "unborn") ~>
      \E p \in Processes : parent[c] = p /\ (<<p, c>> \in forks \/ Recordless(p))
=============================================================================
