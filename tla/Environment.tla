----------------------------- MODULE Environment -----------------------------
(***************************************************************************)
(* The environment of a program that changes it with p101_setenv,          *)
(* p101_unsetenv and p101_putenv.  setenv copies what it is given; putenv  *)
(* takes the caller's buffer itself, which the caller may write to but not *)
(* free while the environment has it.  A wrapper can be turned down by the *)
(* injector, can fail, and can be left by a jump out of a signal handler;  *)
(* the caller frees its buffers by what the results told it.               *)
(*                                                                         *)
(* The environment belongs to the process and its functions are not safe   *)
(* to call from two threads, so one thread is all there is.                *)
(***************************************************************************)
CONSTANTS
  Names,
  Values,
  Buffers,     \* the caller's buffers, each "name=value"
  Absent,      \* no entry
  Freed        \* the text of a buffer that is not allocated

(* An entry of the environment: a copy of a value, a buffer, or none. *)
Entries == Values \cup Buffers \cup {Absent}

ASSUME EntriesAssumption ==
  /\ Values \cap Buffers = {} /\ Absent \notin Values \cup Buffers
  /\ Freed \notin Values

VARIABLES
  environ,     \* environ[n] : the entry of n
  text,        \* text[b]    : the value in b, or Freed
  label,       \* label[b]   : the name in b
  told,        \* told[n]    : the entry of n, as the caller was told
  unsure,      \* names whose last call the caller saw no result of
  call         \* the wrapper in progress

vars == <<environ, text, label, told, unsure, call>>

(* A call: the name and the entry it asks for, whether it leaves an entry  *)
(* that is there alone, and how far it is: "none" when there is no call,   *)
(* "fault" before the injector is asked, "native", "judge" once the C      *)
(* library has done as asked.                                              *)
Calls ==
  [name : Names, entry : Entries, keeps : BOOLEAN, at : {"none", "fault", "native", "judge"}]
Idle == call.at = "none"
Over == call' = [call EXCEPT !.at = "none"]

Init ==
  /\ environ = [n \in Names |-> Absent]
  /\ text    = [b \in Buffers |-> Freed]
  /\ label   \in [Buffers -> Names]
  /\ told    = [n \in Names |-> Absent]
  /\ unsure  = {}
  /\ call    \in {c \in Calls : c.entry = Absent /\ ~c.keeps /\ c.at = "none"}

-----------------------------------------------------------------------------
(* The caller. *)

Alloc(b, n, v) ==
  /\ Idle /\ text[b] = Freed
  /\ text' = [text EXCEPT ![b] = v]
  /\ label' = [label EXCEPT ![b] = n]
  /\ UNCHANGED <<environ, told, unsure, call>>

Rewrite(b, v) ==
  /\ Idle /\ text[b] # Freed
  /\ text' = [text EXCEPT ![b] = v]
  /\ UNCHANGED <<environ, label, told, unsure, call>>

(* A buffer is freed once the caller knows that the environment does not   *)
(* have it.                                                                *)
Free(b) ==
  /\ Idle /\ text[b] # Freed
  /\ label[b] \notin unsure /\ told[label[b]] # b
  /\ text' = [text EXCEPT ![b] = Freed]
  /\ UNCHANGED <<environ, label, told, unsure, call>>

-----------------------------------------------------------------------------
(* The wrappers. *)

Begins(n, entry, keeps) ==
  /\ Idle
  /\ call' = [name |-> n, entry |-> entry, keeps |-> keeps, at |-> "fault"]
  /\ UNCHANGED <<environ, text, label, told, unsure>>

Setenv(n, v, overwrite) == Begins(n, v, ~overwrite)
Unsetenv(n)             == Begins(n, Absent, FALSE)
Putenv(b)               == text[b] # Freed /\ Begins(label[b], b, FALSE)

(* P101_WRAPPER_FAULT_RETURN is asked before the native call.              *)
FaultsLate(at) == at = "judge"    \* mutant: asked after the native call
Faults(at) == at = "fault"

(* The injector turns the call down, or the C library does: -1.            *)
Faulted     == Faults(call.at) /\ Over /\ UNCHANGED <<environ, text, label, told, unsure>>
NativeFails == call.at = "native" /\ Over /\ UNCHANGED <<environ, text, label, told, unsure>>

Passed ==
  /\ call.at = "fault"
  /\ call' = [call EXCEPT !.at = "native"]
  /\ UNCHANGED <<environ, text, label, told, unsure>>

(* What is handed to the C library: the caller's own buffer. *)
HandsCopy(entry) == IF entry \in Buffers THEN text[entry] ELSE entry    \* mutant: a copy of it
Hands(entry) == entry

(* What a call makes of the entries it finds. *)
Leaves(entries, c) ==
  IF c.keeps /\ entries[c.name] # Absent THEN entries
  ELSE [entries EXCEPT ![c.name] = c.entry]

Native ==
  /\ call.at = "native"
  /\ environ' = Leaves(environ, [call EXCEPT !.entry = Hands(@)])
  /\ call' = [call EXCEPT !.at = "judge"]
  /\ UNCHANGED <<text, label, told, unsure>>

(* The caller is told.  A call that replaces whatever was there ends any   *)
(* doubt about the name.                                                   *)
Succeeds ==
  /\ call.at = "judge"
  /\ told' = Leaves(told, call)
  /\ unsure' = IF call.keeps THEN unsure ELSE unsure \ {call.name}
  /\ Over
  /\ UNCHANGED <<environ, text, label>>

(* A signal handler jumps out of the wrapper: the caller knows that the    *)
(* environment may have either entry now.                                  *)
Siglongjmp ==
  /\ ~Idle
  /\ unsure' = unsure \cup {call.name}
  /\ Over
  /\ UNCHANGED <<environ, text, label, told>>

Next ==
  \/ \E b \in Buffers, n \in Names, v \in Values : Alloc(b, n, v)
  \/ \E b \in Buffers, v \in Values : Rewrite(b, v)
  \/ \E b \in Buffers : Free(b) \/ Putenv(b)
  \/ \E n \in Names, v \in Values, overwrite \in BOOLEAN : Setenv(n, v, overwrite)
  \/ \E n \in Names : Unsetenv(n)
  \/ Faulted \/ Passed \/ NativeFails \/ Native \/ Succeeds \/ Siglongjmp

Spec == Init /\ [][Next]_vars

-----------------------------------------------------------------------------
TypeOK ==
  /\ environ \in [Names -> Entries]
  /\ text    \in [Buffers -> Values \cup {Freed}]
  /\ label   \in [Buffers -> Names]
  /\ told    \in [Names -> Entries]
  /\ unsure  \subseteq Names
  /\ call    \in Calls

(* The environment never has a buffer that was freed, for a caller that    *)
(* frees what it was told is not, or no longer, in it: a putenv that was   *)
(* turned down or failed has taken nothing, and a setenv or unsetenv that  *)
(* returned 0 has let go of the buffer it replaced                         *)
(* (src/src/stdlib.c:39-94).                                               *)
NothingDangles ==
  \A n \in Names : environ[n] \in Buffers => text[environ[n]] # Freed

(* getenv finds what the caller was told, through its own later writes to  *)
(* buffers it gave to putenv (src/src/stdlib.c:78-94).                     *)
Value(entry) == IF entry \in Buffers THEN text[entry] ELSE entry
FindsWhatWasTold ==
  \A n \in Names \ unsure :
    (call.at = "judge" /\ call.name = n) \/ Value(environ[n]) = Value(told[n])
=============================================================================
