------------------------ MODULE StreamTracking_proofs ------------------------
(***************************************************************************)
(* Theorems about StreamTracking for every number of threads, addresses    *)
(* and descriptors.                                                        *)
(***************************************************************************)
EXTENDS StreamTrackingLife, FiniteSetTheorems, TLAPS

Busy == {"acquire", "track_open", "shut", "free"}

(* No two wrappers are busy with the same stream.                          *)
OneHand ==
  \A t, u \in Threads :
    pc[t] \in Busy /\ pc[u] \in Busy /\ stream[t] = stream[u] => t = u

(* A stream that somebody may close exists, has a descriptor, and is in    *)
(* nobody's wrapper.                                                       *)
OwnedApart ==
  \A s \in Streams :
    owner[s] # NoThread =>
      /\ s \in open
      /\ number[s] \in Fds
      /\ \A t \in Threads : pc[t] \in Busy => stream[t] # s

Numbered == \A t \in Threads : pc[t] \in {"acquire", "track_open"} => number[stream[t]] \in Fds

Hands == TypeOK /\ OneHand /\ OwnedApart /\ Numbered

USE ThreadsAssumption, StreamsAssumption, FdsAssumption, DisjointAssumption, BoundsAssumption

LEMMA HandsInit == Init => Hands
BY DEF Init, Hands, TypeOK, OneHand, OwnedApart, Numbered, Busy

LEMMA HandsPopenOpens ==
  ASSUME Hands, NEW t \in Threads, PopenOpens(t)
  PROVE  Hands'
BY DEF Hands, TypeOK, OneHand, OwnedApart, Numbered, Busy, PopenOpens, Goes, Taken

LEMMA HandsPopenAcquires ==
  ASSUME Hands, NEW t \in Threads, PopenAcquires(t)
  PROVE  Hands'
BY DEF Hands, TypeOK, OneHand, OwnedApart, Numbered, Busy, PopenAcquires, Goes

LEMMA HandsPopenTracksOpen ==
  ASSUME Hands, NEW t \in Threads, PopenTracksOpen(t)
  PROVE  Hands'
BY DEF Hands, TypeOK, OneHand, OwnedApart, Numbered, Busy, PopenTracksOpen, Goes, TracksOpen

LEMMA HandsPcloseReleases ==
  ASSUME Hands, NEW t \in Threads, PcloseReleases(t)
  PROVE  Hands'
BY DEF Hands, TypeOK, OneHand, OwnedApart, Numbered, Busy, PcloseReleases, Goes, MayClose,
       Remembers, LogsRelease, Releases

LEMMA HandsPcloseShuts ==
  ASSUME Hands, NEW t \in Threads, PcloseShuts(t)
  PROVE  Hands'
BY DEF Hands, TypeOK, OneHand, OwnedApart, Numbered, Busy, PcloseShuts, Goes

LEMMA HandsPcloseFrees ==
  ASSUME Hands, NEW t \in Threads, PcloseFrees(t)
  PROVE  Hands'
BY DEF Hands, TypeOK, OneHand, OwnedApart, Numbered, Busy, PcloseFrees, Goes, LogsRelease, Releases

LEMMA HandsPcloseTracksClose ==
  ASSUME Hands, NEW t \in Threads, PcloseTracksClose(t)
  PROVE  Hands'
BY DEF Hands, TypeOK, OneHand, OwnedApart, Numbered, Busy, PcloseTracksClose, Goes

LEMMA HandsSiglongjmp ==
  ASSUME Hands, NEW t \in Threads, Siglongjmp(t)
  PROVE  Hands'
BY DEF Hands, TypeOK, OneHand, OwnedApart, Numbered, Busy, Siglongjmp, LostAbout

(* Every step keeps streams in one hand at a time.                         *)
LEMMA HandsNext == Hands /\ [Next]_vars => Hands'
<1> SUFFICES ASSUME Hands, [Next]_vars PROVE Hands'
  OBVIOUS
<1>1. CASE UNCHANGED vars
  BY <1>1 DEF Hands, TypeOK, OneHand, OwnedApart, Numbered, vars
<1>2. ASSUME NEW t \in Threads, Popen(t) PROVE Hands'
  BY <1>2, HandsPopenOpens, HandsPopenAcquires, HandsPopenTracksOpen DEF Popen
<1>3. ASSUME NEW t \in Threads, Pclose(t) PROVE Hands'
  BY <1>3, HandsPcloseReleases, HandsPcloseShuts, HandsPcloseFrees, HandsPcloseTracksClose
     DEF Pclose
<1>4. ASSUME NEW t \in Threads, Siglongjmp(t) PROVE Hands'
  BY <1>4, HandsSiglongjmp
<1> QED
  BY <1>1, <1>2, <1>3, <1>4 DEF Next

-----------------------------------------------------------------------------
IInv == Hands /\ StreamsLoggedExactly

LEMMA LoggedInit == Init => StreamsLoggedExactly
BY DEF Init, StreamsLoggedExactly

LEMMA LoggedPopen ==
  ASSUME IInv, NEW t \in Threads, Popen(t)
  PROVE  StreamsLoggedExactly'
<1>1. CASE PopenOpens(t)
  BY <1>1 DEF IInv, Hands, TypeOK, OneHand, OwnedApart, Busy, StreamsLoggedExactly, InTransit,
              Inside, PopenOpens, Goes
<1>2. CASE PopenAcquires(t)
  BY <1>2 DEF IInv, Hands, TypeOK, OneHand, OwnedApart, Busy, StreamsLoggedExactly, InTransit,
              Inside, PopenAcquires, Goes
<1>3. CASE PopenTracksOpen(t)
  BY <1>3 DEF IInv, Hands, TypeOK, StreamsLoggedExactly, InTransit,
              Inside, PopenTracksOpen, Goes
<1> QED
  BY <1>1, <1>2, <1>3 DEF Popen

LEMMA LoggedPclose ==
  ASSUME IInv, NEW t \in Threads, Pclose(t)
  PROVE  StreamsLoggedExactly'
<1>1. CASE PcloseReleases(t)
  BY <1>1 DEF IInv, Hands, TypeOK, OneHand, OwnedApart, Busy, StreamsLoggedExactly, InTransit,
              Inside, PcloseReleases, Goes, MayClose, LogsRelease, Releases
<1>2. CASE PcloseShuts(t)
  BY <1>2 DEF IInv, Hands, TypeOK, StreamsLoggedExactly, InTransit,
              Inside, PcloseShuts, Goes
<1>3. CASE PcloseFrees(t)
  BY <1>3 DEF IInv, Hands, TypeOK, OneHand, Busy, StreamsLoggedExactly, InTransit,
              Inside, PcloseFrees, Goes, LogsRelease, Releases
<1>4. CASE PcloseTracksClose(t)
  BY <1>4 DEF IInv, Hands, TypeOK, StreamsLoggedExactly, InTransit,
              Inside, PcloseTracksClose, Goes
<1> QED
  BY <1>1, <1>2, <1>3, <1>4 DEF Pclose

LEMMA LoggedSiglongjmp ==
  ASSUME IInv, NEW t \in Threads, Siglongjmp(t)
  PROVE  StreamsLoggedExactly'
BY DEF IInv, Hands, TypeOK, StreamsLoggedExactly, InTransit, Inside, Siglongjmp, LostAbout

LEMMA Inductive == Spec => []IInv
<1>1. Init => IInv
  BY HandsInit, LoggedInit DEF IInv
<1>2. IInv /\ [Next]_vars => IInv'
  <2> SUFFICES ASSUME IInv, [Next]_vars PROVE StreamsLoggedExactly'
    BY HandsNext DEF IInv
  <2>1. CASE UNCHANGED vars
    BY <2>1 DEF IInv, StreamsLoggedExactly, InTransit, Inside, vars
  <2> QED
    BY <2>1, LoggedPopen, LoggedPclose, LoggedSiglongjmp DEF Next
<1> QED
  BY <1>1, <1>2, PTL DEF Spec

(* The variables keep their types, a wrapper's stream stays open while the *)
(* wrapper uses it, and p101_pclose has a descriptor to log.               *)
THEOREM TypeCorrect == Spec => []TypeOK
BY Inductive, PTL DEF IInv, Hands

(* The log's account of a stream address is exact at every moment, however *)
(* popen and pclose of any number of threads interleave and reuse it.      *)
THEOREM StreamsLogged == Spec => []StreamsLoggedExactly
BY Inductive, PTL DEF IInv

-----------------------------------------------------------------------------
(* Refinement: unless it is spoilt, the log's account alone says how far a *)
(* stream is, and every step moves at most one stream, one stage on.       *)
Opening(s) == \E t \in Threads : pc[t] = "acquire" /\ stream[t] = s

StageRead(s) ==
  /\ s \in spoilt => Stage(s) = "lost"
  /\ s \notin spoilt =>
       /\ s \notin open => Stage(s) = "free"
       /\ Opening(s) => Stage(s) = "opening"
       /\ Closing(s) => Stage(s) = "closing"
       /\ s \in open /\ ~Opening(s) /\ ~Closing(s) => Stage(s) = "logged"

LEMMA StageBefore ==
  ASSUME IInv, NEW s \in Streams
  PROVE  StageRead(s)
BY DEF IInv, Hands, TypeOK, OneHand, Busy, StreamsLoggedExactly, InTransit, Inside,
       Stage, Opening, Closing, StageRead

LEMMA StageAfter ==
  ASSUME IInv', NEW s \in Streams
  PROVE  StageRead(s)'
BY DEF IInv, Hands, TypeOK, OneHand, Busy, StreamsLoggedExactly, InTransit, Inside,
       Stage, Opening, Closing, StageRead

(* One stream moves and the others stay: a step of StreamLife.             *)
LEMMA MovesOne ==
  ASSUME NEW s \in Streams, NEW from, NEW to,
         Stage(s) = from, Stage(s)' = to,
         \A q \in Streams \ {s} : Stage(q)' = Stage(q)
  PROVE  Life!Step(s, from, to)
BY DEF Life!Step

(* The thread decides nothing: no stream moves.                            *)
LEMMA MovesNone ==
  ASSUME IInv, IInv', UNCHANGED <<open, spoilt>>,
         \A s \in Streams : (Opening(s)' <=> Opening(s)) /\ (Closing(s)' <=> Closing(s))
  PROVE  UNCHANGED [s \in Streams |-> Stage(s)]
<1>1. ASSUME NEW s \in Streams PROVE Stage(s)' = Stage(s)
  BY StageBefore, StageAfter DEF StageRead, IInv, Hands, TypeOK
<1> QED
  BY <1>1

(* A stream that is lost does not move, whatever its thread does.          *)
LEMMA StaysLost ==
  ASSUME NEW s \in Streams, s \in spoilt, UNCHANGED spoilt,
         \A q \in Streams \ {s} : Stage(q)' = Stage(q)
  PROVE  Life!Next \/ UNCHANGED [q \in Streams |-> Stage(q)]
<1>1. Stage(s) = "lost" /\ Stage(s)' = "lost"
  BY DEF Stage
<1>2. \A q \in Streams : Stage(q)' = Stage(q)
  BY <1>1
<1> QED
  BY <1>2

(* How each action moves the stream of its thread.                         *)
LEMMA PopenSteps ==
  ASSUME IInv, IInv', NEW t \in Threads, Popen(t)
  PROVE  Life!Next \/ UNCHANGED [s \in Streams |-> Stage(s)]
<1>1. CASE PopenOpens(t)
  <2>1. PICK s \in Streams \ open, f \in Fds :
          /\ open' = open \cup {s}
          /\ stream' = [stream EXCEPT ![t] = s]
    BY <1>1 DEF PopenOpens
  <2>2. pc[t] = "idle" /\ pc' = [pc EXCEPT ![t] = "acquire"]
    BY <1>1 DEF PopenOpens, Goes
  <2>3. Opening(s)' /\ s \notin open
    BY <2>1, <2>2 DEF Opening, IInv, Hands, TypeOK
  <2>4. \A q \in Streams \ {s} :
          (Opening(q)' <=> Opening(q)) /\ (Closing(q)' <=> Closing(q)) /\ (q \in open' <=> q \in open)
    BY <2>1, <2>2 DEF Opening, Closing, Inside, IInv, Hands, TypeOK
  <2>5. ASSUME s \notin spoilt PROVE Stage(s) = "free" /\ Stage(s)' = "opening"
    <3>1. StageRead(s) /\ StageRead(s)'
      BY <2>2, <2>3, StageBefore, StageAfter
    <3> QED
      BY <1>1, <2>2, <2>3, <2>5, <3>1 DEF StageRead, PopenOpens
  <2>6. ASSUME NEW q \in Streams \ {s} PROVE Stage(q)' = Stage(q)
    BY <1>1, <2>4, StageBefore, StageAfter DEF StageRead, PopenOpens
  <2>7. CASE s \in spoilt
    BY <1>1, <2>6, <2>7, StaysLost DEF PopenOpens
  <2>8. CASE s \notin spoilt
    BY <2>5, <2>6, <2>8, MovesOne DEF Life!Next, Life!Open
  <2> QED
    BY <2>7, <2>8
<1>2. CASE PopenAcquires(t)
  <2> PICK s \in Streams : s = stream[t]
    BY <1>2 DEF PopenAcquires, Goes, IInv, Hands, TypeOK
  <2>1. pc[t] = "acquire" /\ pc' = [pc EXCEPT ![t] = "track_open"] /\ UNCHANGED <<open, stream>>
    BY <1>2 DEF PopenAcquires, Goes
  <2>2. s \in Streams /\ Opening(s) /\ s \in open'
    BY <2>1 DEF Opening, IInv, Hands, TypeOK
  <2>3. ~Opening(s)' /\ ~Closing(s)'
    BY <2>1 DEF Opening, Closing, Inside, IInv, Hands, TypeOK, OneHand, Busy
  <2>4. \A q \in Streams \ {s} :
          (Opening(q)' <=> Opening(q)) /\ (Closing(q)' <=> Closing(q)) /\ (q \in open' <=> q \in open)
    BY <2>1 DEF Opening, Closing, Inside, IInv, Hands, TypeOK
  <2>5. ASSUME s \notin spoilt PROVE Stage(s) = "opening" /\ Stage(s)' = "logged"
    <3>1. StageRead(s) /\ StageRead(s)'
      BY <2>2, <2>3, StageBefore, StageAfter
    <3> QED
      BY <1>2, <2>2, <2>3, <2>5, <3>1 DEF StageRead, PopenAcquires
  <2>6. ASSUME NEW q \in Streams \ {s} PROVE Stage(q)' = Stage(q)
    BY <1>2, <2>4, StageBefore, StageAfter DEF StageRead, PopenAcquires
  <2>7. CASE s \in spoilt
    BY <1>2, <2>6, <2>7, StaysLost DEF PopenAcquires
  <2>8. CASE s \notin spoilt
    BY <2>5, <2>6, <2>8, MovesOne DEF Life!Next, Life!Log
  <2> QED
    BY <2>7, <2>8
<1>3. CASE PopenTracksOpen(t)
  BY <1>3, MovesNone DEF PopenTracksOpen, Goes, Opening, Closing, Inside, IInv, Hands, TypeOK
<1> QED
  BY <1>1, <1>2, <1>3 DEF Popen

LEMMA PcloseSteps ==
  ASSUME IInv, IInv', NEW t \in Threads, Pclose(t)
  PROVE  Life!Next \/ UNCHANGED [s \in Streams |-> Stage(s)]
<1>1. CASE PcloseReleases(t)
  <2>1. PICK s \in open :
          /\ MayClose(t, s)
          /\ stream' = [stream EXCEPT ![t] = s]
    BY <1>1 DEF PcloseReleases
  <2>2. pc[t] = "idle" /\ pc' = [pc EXCEPT ![t] = "shut"] /\ UNCHANGED open
    BY <1>1 DEF PcloseReleases, Goes
  <2>3. s \in Streams /\ s \in open /\ ~Opening(s) /\ ~Closing(s) /\ Closing(s)'
    BY <2>1, <2>2 DEF Opening, Closing, Inside, MayClose, IInv, Hands, TypeOK, OwnedApart, Busy
  <2>4. \A q \in Streams \ {s} :
          (Opening(q)' <=> Opening(q)) /\ (Closing(q)' <=> Closing(q)) /\ (q \in open' <=> q \in open)
    BY <2>1, <2>2 DEF Opening, Closing, Inside, IInv, Hands, TypeOK
  <2>5. ASSUME s \notin spoilt PROVE Stage(s) = "logged" /\ Stage(s)' = "closing"
    <3>1. StageRead(s) /\ StageRead(s)'
      BY <2>2, <2>3, StageBefore, StageAfter
    <3> QED
      BY <1>1, <2>2, <2>3, <2>5, <3>1 DEF StageRead, PcloseReleases
  <2>6. ASSUME NEW q \in Streams \ {s} PROVE Stage(q)' = Stage(q)
    BY <1>1, <2>4, StageBefore, StageAfter DEF StageRead, PcloseReleases
  <2>7. CASE s \in spoilt
    BY <1>1, <2>6, <2>7, StaysLost DEF PcloseReleases
  <2>8. CASE s \notin spoilt
    BY <2>5, <2>6, <2>8, MovesOne DEF Life!Next, Life!Retire
  <2> QED
    BY <2>7, <2>8
<1>2. CASE PcloseShuts(t)
  BY <1>2, MovesNone DEF PcloseShuts, Goes, Opening, Closing, Inside, IInv, Hands, TypeOK
<1>3. CASE PcloseFrees(t)
  <2> PICK s \in Streams : s = stream[t]
    BY <1>3 DEF PcloseFrees, Goes, IInv, Hands, TypeOK
  <2>1. /\ pc[t] = "free" /\ pc' = [pc EXCEPT ![t] = "track_close"]
        /\ open' = open \ {s} /\ stream' = [stream EXCEPT ![t] = NoStream]
    BY <1>3 DEF PcloseFrees, Goes
  <2>2. Closing(s)
    BY <2>1 DEF Closing, Inside, IInv, Hands, TypeOK
  <2>3. s \notin open'
    BY <2>1 DEF Closing, Inside, IInv, Hands, TypeOK
  <2>4. \A q \in Streams \ {s} :
          (Opening(q)' <=> Opening(q)) /\ (Closing(q)' <=> Closing(q)) /\ (q \in open' <=> q \in open)
    BY <2>1 DEF Opening, Closing, Inside, IInv, Hands, TypeOK
  <2>5. ASSUME s \notin spoilt PROVE Stage(s) = "closing" /\ Stage(s)' = "free"
    <3>1. StageRead(s) /\ StageRead(s)'
      BY <2>2, <2>3, StageBefore, StageAfter
    <3> QED
      BY <1>3, <2>2, <2>3, <2>5, <3>1 DEF StageRead, PcloseFrees
  <2>6. ASSUME NEW q \in Streams \ {s} PROVE Stage(q)' = Stage(q)
    BY <1>3, <2>4, StageBefore, StageAfter DEF StageRead, PcloseFrees
  <2>7. CASE s \in spoilt
    BY <1>3, <2>6, <2>7, StaysLost DEF PcloseFrees
  <2>8. CASE s \notin spoilt
    BY <2>5, <2>6, <2>8, MovesOne DEF Life!Next, Life!Close
  <2> QED
    BY <2>7, <2>8
<1>4. CASE PcloseTracksClose(t)
  BY <1>4, MovesNone DEF PcloseTracksClose, Goes, Opening, Closing, Inside, IInv, Hands, TypeOK
<1> QED
  BY <1>1, <1>2, <1>3, <1>4 DEF Pclose

(* A jump loses the stream its wrapper has in its hands, if it is the      *)
(* stream's acquire or its end that is skipped, and moves no other.        *)
LEMMA SiglongjmpSteps ==
  ASSUME IInv, IInv', NEW t \in Threads, Siglongjmp(t)
  PROVE  Life!Next \/ UNCHANGED [s \in Streams |-> Stage(s)]
<1>1. /\ pc' = [pc EXCEPT ![t] = "idle"] /\ stream' = [stream EXCEPT ![t] = NoStream]
      /\ spoilt' = spoilt \cup LostAbout(t) /\ UNCHANGED open
  BY DEF Siglongjmp
<1>2. ASSUME NEW q \in Streams, pc[t] \in {"acquire", "shut", "free"} => q # stream[t]
      PROVE  Stage(q)' = Stage(q)
  <2>1. (q \in spoilt)' <=> q \in spoilt
    BY <1>1, <1>2 DEF LostAbout, IInv, Hands, TypeOK, Numbered
  <2>2. (Opening(q)' <=> Opening(q)) /\ (Closing(q)' <=> Closing(q))
    BY <1>1, <1>2 DEF Opening, Closing, Inside, IInv, Hands, TypeOK
  <2> QED
    BY <1>1, <2>1, <2>2, StageBefore, StageAfter DEF StageRead
<1>3. CASE pc[t] \notin {"acquire", "shut", "free"}
  BY <1>2, <1>3
<1>4. CASE pc[t] \in {"acquire", "shut", "free"}
  <2> PICK s \in Streams : s = stream[t]
    BY <1>4 DEF IInv, Hands, TypeOK
  <2>1. \A q \in Streams \ {s} : Stage(q)' = Stage(q)
    BY <1>2
  <2>2. Stage(s)' = "lost"
    BY <1>1, <1>4 DEF Stage, LostAbout
  <2>3. CASE s \in spoilt
    <3>1. Stage(s) = "lost"
      BY <2>3 DEF Stage
    <3> QED
      BY <2>1, <2>2, <3>1
  <2>4. CASE s \notin spoilt
    <3>1. Opening(s) \/ Closing(s)
      BY <1>4 DEF Opening, Closing, Inside
    <3>2. Stage(s) \in {"opening", "closing"}
      BY <2>4, <3>1, StageBefore DEF StageRead
    <3>3. Life!Lose(s)
      BY <2>1, <2>2, <3>2, MovesOne DEF Life!Lose
    <3> QED
      BY <3>3 DEF Life!Next
  <2> QED
    BY <2>3, <2>4
<1> QED
  BY <1>3, <1>4

(* Every behaviour of popen and pclose, with any number of threads and     *)
(* jumps, is one of StreamLife: each stream is logged after it exists and  *)
(* released before its address can be another's, and a jump loses only the *)
(* stream in hand.  (That an open stream is logged eventually is left to   *)
(* the model checker.)                                                     *)
THEOREM StreamsLive == Spec => Life!SafeSpec
<1>1. Init => Life!Init
  <2> SUFFICES ASSUME Init PROVE \A s \in Streams : Stage(s) = "free"
    BY DEF Life!Init
  <2> QED
    BY DEF Init, Stage
<1>2. IInv /\ IInv' /\ [Next]_vars => [Life!Next]_[s \in Streams |-> Stage(s)]
  <2> SUFFICES ASSUME IInv, IInv', [Next]_vars
               PROVE  Life!Next \/ UNCHANGED [s \in Streams |-> Stage(s)]
    OBVIOUS
  <2>1. CASE UNCHANGED vars
    BY <2>1, MovesNone DEF vars, Opening, Closing, Inside
  <2> QED
    BY <2>1, PopenSteps, PcloseSteps, SiglongjmpSteps DEF Next
<1> QED
  BY <1>1, <1>2, Inductive, PTL DEF Spec, Life!SafeSpec

-----------------------------------------------------------------------------
(* Descriptors.  Their account needs three more facts: two streams never   *)
(* share a descriptor, p101_pclose has put aside the descriptor its stream *)
(* still has, and a stream being freed has none.                           *)
OneStream ==
  \A s, u \in open : number[s] = number[u] /\ number[s] \in Fds => s = u

PutAside ==
  \A t \in Threads :
    /\ pc[t] = "shut" => fd[t] = number[stream[t]]
    /\ pc[t] = "free" => number[stream[t]] = NoFd

DInv == Hands /\ OneStream /\ PutAside

LEMMA DescriptorsApart == DInv /\ [Next]_vars => DInv'
<1> SUFFICES ASSUME DInv, [Next]_vars PROVE OneStream' /\ PutAside'
  BY HandsNext DEF DInv
<1> USE DEF DInv, Hands, TypeOK, OneStream, PutAside, Goes
<1>1. CASE UNCHANGED vars
  BY <1>1 DEF vars
<1>2. ASSUME NEW t \in Threads, PopenOpens(t) PROVE OneStream' /\ PutAside'
  BY <1>2 DEF PopenOpens, Taken
<1>3. ASSUME NEW t \in Threads, PopenAcquires(t) \/ PopenTracksOpen(t) PROVE OneStream' /\ PutAside'
  BY <1>3 DEF PopenAcquires, PopenTracksOpen
<1>4. ASSUME NEW t \in Threads, PcloseReleases(t) PROVE OneStream' /\ PutAside'
  BY <1>4 DEF PcloseReleases, Remembers
<1>5. ASSUME NEW t \in Threads, PcloseShuts(t) PROVE OneStream' /\ PutAside'
  BY <1>5 DEF PcloseShuts, OneHand, Busy
<1>6. ASSUME NEW t \in Threads, PcloseFrees(t) \/ PcloseTracksClose(t) PROVE OneStream' /\ PutAside'
  BY <1>6 DEF PcloseFrees, PcloseTracksClose
<1>7. ASSUME NEW t \in Threads, Siglongjmp(t) PROVE OneStream' /\ PutAside'
  BY <1>7 DEF Siglongjmp
<1> QED
  BY <1>1, <1>2, <1>3, <1>4, <1>5, <1>6, <1>7 DEF Next, Popen, Pclose

(* Sets of threads grow and shrink by one.                                 *)
LEMMA OneMore ==
  ASSUME NEW D \in SUBSET Threads, NEW t \in Threads, t \notin D
  PROVE  Cardinality(D) \in Nat /\ Cardinality(D \cup {t}) = Cardinality(D) + 1
BY FS_Subset, FS_CardinalityType, FS_AddElement

LEMMA OneLess ==
  ASSUME NEW D \in SUBSET Threads, NEW t \in D
  PROVE  Cardinality(D) \in Nat /\ Cardinality(D \ {t}) = Cardinality(D) - 1
BY FS_Subset, FS_CardinalityType, FS_RemoveElement

LEMMA OwingCounts ==
  ASSUME NEW f \in Fds
  PROVE  /\ OwesOpen(f) \in SUBSET Threads /\ OwesClose(f) \in SUBSET Threads
         /\ Cardinality(OwesOpen(f)) \in Nat /\ Cardinality(OwesClose(f)) \in Nat
<1>1. OwesOpen(f) \in SUBSET Threads /\ OwesClose(f) \in SUBSET Threads
  BY DEF OwesOpen, OwesClose
<1> QED
  BY <1>1, FS_Subset, FS_CardinalityType

Conserved(f) ==
  fds[f] + Cardinality(OwesOpen(f)) - Cardinality(OwesClose(f)) = IF f \in Taken THEN 1 ELSE 0

(* The four ways an action can leave the account of a descriptor in        *)
(* balance; in each, one entry moves from one column to another.           *)
LEMMA NoneMoves ==
  ASSUME NEW f \in Fds, Conserved(f), fds'[f] = fds[f],
         OwesOpen(f)' = OwesOpen(f), OwesClose(f)' = OwesClose(f), f \in Taken' <=> f \in Taken
  PROVE  Conserved(f)'
BY DEF Conserved

LEMMA Opened ==
  ASSUME NEW f \in Fds, Conserved(f), fds[f] \in Int, fds'[f] = fds[f], NEW t \in Threads,
         t \notin OwesOpen(f), OwesOpen(f)' = OwesOpen(f) \cup {t},
         OwesClose(f)' = OwesClose(f), f \notin Taken, f \in Taken'
  PROVE  Conserved(f)'
<1>1. Cardinality(OwesOpen(f)') = Cardinality(OwesOpen(f)) + 1
  BY OneMore, OwingCounts
<1> QED
  BY <1>1, OwingCounts DEF Conserved

LEMMA OpenTracked ==
  ASSUME NEW f \in Fds, Conserved(f), fds[f] \in Int, fds'[f] = fds[f] + 1,
         NEW t \in OwesOpen(f), OwesOpen(f)' = OwesOpen(f) \ {t},
         OwesClose(f)' = OwesClose(f), f \in Taken' <=> f \in Taken
  PROVE  Conserved(f)'
<1>1. Cardinality(OwesOpen(f)') = Cardinality(OwesOpen(f)) - 1
  BY OneLess, OwingCounts
<1> QED
  BY <1>1, OwingCounts DEF Conserved

LEMMA Shut ==
  ASSUME NEW f \in Fds, Conserved(f), fds[f] \in Int, fds'[f] = fds[f], NEW t \in Threads,
         t \notin OwesClose(f), OwesClose(f)' = OwesClose(f) \cup {t},
         OwesOpen(f)' = OwesOpen(f), f \in Taken, f \notin Taken'
  PROVE  Conserved(f)'
<1>1. Cardinality(OwesClose(f)') = Cardinality(OwesClose(f)) + 1
  BY OneMore, OwingCounts
<1> QED
  BY <1>1, OwingCounts DEF Conserved

LEMMA CloseTracked ==
  ASSUME NEW f \in Fds, Conserved(f), fds[f] \in Int, fds'[f] = fds[f] - 1,
         NEW t \in OwesClose(f), OwesClose(f)' = OwesClose(f) \ {t},
         OwesOpen(f)' = OwesOpen(f), f \in Taken' <=> f \in Taken
  PROVE  Conserved(f)'
<1>1. Cardinality(OwesClose(f)') = Cardinality(OwesClose(f)) - 1
  BY OneLess, OwingCounts
<1> QED
  BY <1>1, OwingCounts DEF Conserved

LEMMA ConservedPopen ==
  ASSUME DInv, NEW t \in Threads, Popen(t), NEW f \in Fds, Conserved(f)
  PROVE  Conserved(f)'
<1> USE DEF DInv, Hands, TypeOK, Goes, OwesOpen, OwesClose, Inside
<1>1. CASE PopenOpens(t)
  <2>1. PICK s \in Streams \ open, g \in Fds \ Taken :
          /\ open' = open \cup {s}
          /\ number' = [number EXCEPT ![s] = g]
          /\ stream' = [stream EXCEPT ![t] = s]
    BY <1>1 DEF PopenOpens
  <2>2. OwesClose(f)' = OwesClose(f) /\ fds'[f] = fds[f]
    BY <1>1 DEF PopenOpens
  <2>3. CASE f = g
    <3>1. f \notin Taken /\ f \in Taken'
      BY <2>1, <2>3 DEF Taken
    <3>2. t \notin OwesOpen(f) /\ OwesOpen(f)' = OwesOpen(f) \cup {t}
      BY <1>1, <2>1, <2>3 DEF PopenOpens
    <3> QED
      BY <2>2, <3>1, <3>2, Opened
  <2>4. CASE f # g
    <3>1. f \in Taken' <=> f \in Taken
      BY <2>1, <2>4 DEF Taken
    <3>2. OwesOpen(f)' = OwesOpen(f)
      BY <1>1, <2>1, <2>4 DEF PopenOpens
    <3> QED
      BY <2>2, <3>1, <3>2, NoneMoves
  <2> QED
    BY <2>3, <2>4
<1>2. CASE PopenAcquires(t)
  <2>1. OwesOpen(f)' = OwesOpen(f) /\ OwesClose(f)' = OwesClose(f)
    BY <1>2 DEF PopenAcquires
  <2>2. fds' = fds /\ Taken' = Taken
    BY <1>2 DEF PopenAcquires, Taken
  <2> QED
    BY <2>1, <2>2, NoneMoves
<1>3. CASE PopenTracksOpen(t)
  <2>1. Taken' = Taken /\ OwesClose(f)' = OwesClose(f)
    BY <1>3 DEF PopenTracksOpen, Taken
  <2>2. CASE number[stream[t]] = f
    <3>1. t \in OwesOpen(f) /\ OwesOpen(f)' = OwesOpen(f) \ {t} /\ fds'[f] = fds[f] + 1
      BY <1>3, <2>2 DEF PopenTracksOpen, TracksOpen
    <3> QED
      BY <2>1, <3>1, OpenTracked
  <2>3. CASE number[stream[t]] # f
    <3>1. OwesOpen(f)' = OwesOpen(f) /\ fds'[f] = fds[f]
      BY <1>3, <2>3 DEF PopenTracksOpen
    <3> QED
      BY <2>1, <3>1, NoneMoves
  <2> QED
    BY <2>2, <2>3
<1> QED
  BY <1>1, <1>2, <1>3 DEF Popen

LEMMA ConservedPclose ==
  ASSUME DInv, NEW t \in Threads, Pclose(t), NEW f \in Fds, Conserved(f)
  PROVE  Conserved(f)'
<1> USE DEF DInv, Hands, TypeOK, Goes, OwesOpen, OwesClose, Inside
<1>1. CASE PcloseReleases(t)
  <2>1. OwesOpen(f)' = OwesOpen(f) /\ OwesClose(f)' = OwesClose(f)
    BY <1>1 DEF PcloseReleases
  <2>2. fds' = fds /\ Taken' = Taken
    BY <1>1 DEF PcloseReleases, Taken
  <2> QED
    BY <2>1, <2>2, NoneMoves
<1>2. CASE PcloseShuts(t)
  <2>1. OwesOpen(f)' = OwesOpen(f) /\ fds'[f] = fds[f]
    BY <1>2 DEF PcloseShuts, OneHand, Busy
  <2>2. CASE fd[t] = f
    <3>1. f \in Taken /\ f \notin Taken'
      BY <1>2, <2>2 DEF PcloseShuts, Taken, OneStream, PutAside
    <3>2. t \notin OwesClose(f) /\ OwesClose(f)' = OwesClose(f) \cup {t}
      BY <1>2, <2>2 DEF PcloseShuts
    <3> QED
      BY <2>1, <3>1, <3>2, Shut
  <2>3. CASE fd[t] # f
    <3>1. f \in Taken' <=> f \in Taken
      BY <1>2, <2>3 DEF PcloseShuts, Taken, PutAside
    <3>2. OwesClose(f)' = OwesClose(f)
      BY <1>2, <2>3 DEF PcloseShuts
    <3> QED
      BY <2>1, <3>1, <3>2, NoneMoves
  <2> QED
    BY <2>2, <2>3
<1>3. CASE PcloseFrees(t)
  <2>1. OwesOpen(f)' = OwesOpen(f) /\ OwesClose(f)' = OwesClose(f) /\ fds'[f] = fds[f]
    BY <1>3 DEF PcloseFrees
  <2>2. f \in Taken' <=> f \in Taken
    BY <1>3 DEF PcloseFrees, Taken, PutAside
  <2> QED
    BY <2>1, <2>2, NoneMoves
<1>4. CASE PcloseTracksClose(t)
  <2>1. OwesOpen(f)' = OwesOpen(f) /\ Taken' = Taken
    BY <1>4 DEF PcloseTracksClose, Taken
  <2>2. CASE fd[t] = f
    <3>1. t \in OwesClose(f) /\ OwesClose(f)' = OwesClose(f) \ {t} /\ fds'[f] = fds[f] - 1
      BY <1>4, <2>2 DEF PcloseTracksClose
    <3> QED
      BY <2>1, <3>1, CloseTracked
  <2>3. CASE fd[t] # f
    <3>1. OwesClose(f)' = OwesClose(f) /\ fds'[f] = fds[f]
      BY <1>4, <2>3 DEF PcloseTracksClose
    <3> QED
      BY <2>1, <3>1, NoneMoves
  <2> QED
    BY <2>2, <2>3
<1> QED
  BY <1>1, <1>2, <1>3, <1>4 DEF Pclose

LEMMA ConservedSiglongjmp ==
  ASSUME DInv, NEW t \in Threads, Siglongjmp(t), NEW f \in Fds, f \notin spoilt', Conserved(f)
  PROVE  Conserved(f)'
<1>1. OwesOpen(f)' = OwesOpen(f) /\ OwesClose(f)' = OwesClose(f)
  BY DEF Siglongjmp, LostAbout, DInv, Hands, TypeOK, OwesOpen, OwesClose, Inside
<1>2. fds' = fds /\ Taken' = Taken
  BY DEF Siglongjmp, Taken
<1> QED
  BY <1>1, <1>2, NoneMoves

LEMMA DescriptorsInductive == Spec => [](DInv /\ DescriptorsConserved)
<1>1. Init => DInv
  BY HandsInit DEF Init, DInv, OneStream, PutAside
<1>2. Init => DescriptorsConserved
  <2> SUFFICES ASSUME Init, NEW f \in Fds PROVE Conserved(f)
    BY DEF DescriptorsConserved, Conserved
  <2>1. OwesOpen(f) = {} /\ OwesClose(f) = {} /\ f \notin Taken /\ fds[f] = 0
    BY DEF Init, OwesOpen, OwesClose, Inside, Taken
  <2> QED
    BY <2>1, FS_EmptySet DEF Conserved
<1>3. DInv /\ DescriptorsConserved /\ [Next]_vars => DescriptorsConserved'
  <2> SUFFICES ASSUME DInv, DescriptorsConserved, [Next]_vars,
                      NEW f \in Fds, f \notin spoilt'
               PROVE  Conserved(f)'
    BY DEF DescriptorsConserved, Conserved
  <2>1. spoilt \subseteq spoilt'
    BY DEF Next, Popen, Pclose, PopenOpens, PopenAcquires, PopenTracksOpen, PcloseReleases,
           PcloseShuts, PcloseFrees, PcloseTracksClose, Siglongjmp, vars
  <2>2. Conserved(f)
    BY <2>1 DEF DescriptorsConserved, Conserved
  <2>3. CASE UNCHANGED vars
    BY <2>2, <2>3 DEF vars, Conserved, OwesOpen, OwesClose, Inside, Taken
  <2> QED
    BY <2>2, <2>3, ConservedPopen, ConservedPclose, ConservedSiglongjmp DEF Next
<1> QED
  BY <1>1, <1>2, <1>3, DescriptorsApart, PTL DEF Spec

(* Corrected by the events the threads still have to make, the log's       *)
(* account of every descriptor number is exact at every moment.            *)
THEOREM DescriptorsBalance == Spec => []DescriptorsConserved
BY DescriptorsInductive, PTL

(* At most one open event is owed for a number, and only while the number  *)
(* is taken.                                                               *)
LEMMA OneOpenOwed ==
  ASSUME DInv, NEW f \in Fds
  PROVE  \/ Cardinality(OwesOpen(f)) = 0
         \/ Cardinality(OwesOpen(f)) = 1 /\ f \in Taken
<1>1. CASE OwesOpen(f) = {}
  BY <1>1, FS_EmptySet
<1>2. ASSUME NEW t \in OwesOpen(f) PROVE Cardinality(OwesOpen(f)) = 1 /\ f \in Taken
  <2>1. f \in Taken
    BY DEF OwesOpen, Inside, Taken, DInv, Hands, TypeOK
  <2>2. OwesOpen(f) = {t}
    BY DEF OwesOpen, Inside, DInv, Hands, TypeOK, OneHand, OneStream, Busy
  <2> QED
    BY <2>1, <2>2, FS_Singleton
<1> QED
  BY <1>1, <1>2

(* A number is never logged closed before it is logged open, and counts    *)
(* for more than one open descriptor only while closes are owed for it.    *)
THEOREM DescriptorsOrdered == Spec => []ClosedAfterOpened
<1>1. DInv /\ DescriptorsConserved => ClosedAfterOpened
  <2> SUFFICES ASSUME DInv, DescriptorsConserved, NEW f \in Fds \ spoilt
               PROVE  fds[f] >= 0 /\ fds[f] <= 1 + Cardinality(OwesClose(f))
    BY DEF ClosedAfterOpened
  <2>1. fds[f] + Cardinality(OwesOpen(f)) - Cardinality(OwesClose(f)) = IF f \in Taken THEN 1 ELSE 0
    BY DEF DescriptorsConserved
  <2>2. fds[f] \in Int
    BY DEF DInv, Hands, TypeOK
  <2> QED
    BY <2>1, <2>2, OneOpenOwed, OwingCounts
<1> QED
  BY <1>1, DescriptorsInductive, PTL

(* A stream its program may close has its descriptor in the log.           *)
THEOREM LogsAgree == Spec => []StreamHasDescriptor
<1>1. DInv /\ DescriptorsConserved => StreamHasDescriptor
  <2> SUFFICES ASSUME DInv, DescriptorsConserved, NEW s \in open,
                      owner[s] # NoThread, number[s] \notin spoilt
               PROVE  fds[number[s]] >= 1
    BY DEF StreamHasDescriptor
  <2> PICK f \in Fds : f = number[s]
    BY DEF DInv, Hands, TypeOK, OwnedApart
  <2>1. f \in Taken /\ fds[f] \in Int
    BY DEF Taken, DInv, Hands, TypeOK
  <2>2. OwesOpen(f) = {}
    BY DEF OwesOpen, Inside, DInv, Hands, TypeOK, OwnedApart, OneStream, Busy
  <2>3. fds[f] + Cardinality(OwesOpen(f)) - Cardinality(OwesClose(f)) = 1
    BY <2>1 DEF DescriptorsConserved
  <2> QED
    BY <2>1, <2>2, <2>3, FS_EmptySet, OwingCounts
<1> QED
  BY <1>1, DescriptorsInductive, PTL
=============================================================================
