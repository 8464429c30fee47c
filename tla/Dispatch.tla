------------------------------ MODULE Dispatch ------------------------------
(***************************************************************************)
(* How handle_client (src/server/main.c) splits a command line: two calls  *)
(* of strtok, which keeps the place where it stopped in ONE static pointer *)
(* of the C library, shared by all the threads.                            *)
(*                                                                         *)
(* strtok is external and modelled as the code calls it: the first call    *)
(* writes the pointer, strtok(NULL, "") reads it, looks at the text there, *)
(* and writes it again.  Each thread's buffer is on its stack.  A line is  *)
(* abstracted to a number and to whether its verb is followed by text.     *)
(***************************************************************************)
EXTENDS Naturals

CONSTANTS Thread,    \* slots for the threads that run handle_client
          MaxLines,  \* bound: command lines received in a behaviour
          Null       \* the initial value of strtok's pointer

ASSUME ConstantsAssumption == MaxLines \in Nat

VARIABLES
  pc,         \* none | recv | first | second | store | use
  line,       \* the line in each thread's buffer; 0: none, or no stack
  hasArg,     \* is there text after the verb?
  saved,      \* strtok's static pointer
  found,      \* what the second strtok read
  disturbed,  \* auxiliary: another thread wrote saved between the two calls
  lines       \* number of lines received so far

vars == <<pc, line, hasArg, saved, found, disturbed, lines>>

Location == {"none", "recv", "first", "second", "store", "use"}

\* a place in the buffer of a thread, as it was when it held that line: at
\* the text after the verb, or at the end
Pointer == [buf : Thread, line : 0..MaxLines, at : {"arg", "end"}]

Init ==
  /\ pc = [t \in Thread |-> "none"]
  /\ line = [t \in Thread |-> 0]
  /\ hasArg = [t \in Thread |-> FALSE]
  /\ saved = Null
  /\ found = [t \in Thread |-> Null]
  /\ disturbed = [t \in Thread |-> FALSE]
  /\ lines = 0

GoTo(t, l) == pc' = [pc EXCEPT ![t] = l]

\* where the text after the verb of the thread's own line is
Own(t) == [buf |-> t, line |-> line[t],
           at |-> IF hasArg[t] THEN "arg" ELSE "end"]

\* may strtok find text at p?  In a buffer that has been overwritten, or
\* that is gone with its thread, anything may be found.
MayFind(p, text) == line[p.buf] = p.line => text = (p.at = "arg")

\* thread t writes strtok's pointer
Write(t, p) ==
  /\ saved' = p
  /\ disturbed' = [u \in Thread |->
                     IF u = t THEN FALSE ELSE disturbed[u] \/ pc[u] = "second"]

(***************************************************************************)
(* The thread.                                                             *)
(***************************************************************************)
Accept(t) ==
  /\ pc[t] = "none"
  /\ GoTo(t, "recv")
  /\ UNCHANGED <<line, hasArg, saved, found, disturbed, lines>>

\* recv fills the buffer
Recv(t) ==
  /\ pc[t] = "recv"
  /\ lines < MaxLines
  /\ lines' = lines + 1
  /\ line' = [line EXCEPT ![t] = lines']
  /\ \E text \in BOOLEAN : hasArg' = [hasArg EXCEPT ![t] = text]
  /\ GoTo(t, "first")
  /\ UNCHANGED <<saved, found, disturbed>>

\* mutant: a line without arguments leaves strtok's pointer as it was
FirstKeepsOld(t) ==
  /\ pc[t] = "first"
  /\ Write(t, IF hasArg[t] \/ saved = Null THEN Own(t) ELSE saved)
  /\ GoTo(t, "second")
  /\ UNCHANGED <<line, hasArg, found, lines>>

\* mutant: the verb is split off without strtok, whose pointer stays unset
FirstByHand(t) ==
  /\ pc[t] = "first"
  /\ GoTo(t, "second")
  /\ UNCHANGED <<line, hasArg, saved, found, disturbed, lines>>

\* cmd = strtok(buffer, " ")
First(t) ==
  /\ pc[t] = "first"
  /\ Write(t, Own(t))
  /\ GoTo(t, "second")
  /\ UNCHANGED <<line, hasArg, found, lines>>

\* arg = strtok(NULL, ""): at the end of the text it returns NULL ...
Second(t) ==
  /\ pc[t] = "second"
  /\ \E text \in BOOLEAN :
       /\ MayFind(saved, text)
       /\ found' = [found EXCEPT ![t] =
                      [saved EXCEPT !.at = IF text THEN "arg" ELSE "end"]]
  /\ GoTo(t, "store")
  /\ UNCHANGED <<line, hasArg, saved, disturbed, lines>>

\* ... and leaves its pointer at the end
Store(t) ==
  /\ pc[t] = "store"
  /\ saved' = [found[t] EXCEPT !.at = "end"]
  /\ disturbed' = [u \in Thread |->
                     disturbed[u] \/ (u # t /\ pc[u] = "second")]
  /\ GoTo(t, "use")
  /\ UNCHANGED <<line, hasArg, found, lines>>

\* the command is executed with arg (text of the buffer arg points into at
\* this moment) and answered
Execute(t) ==
  /\ pc[t] = "use"
  /\ GoTo(t, "recv")
  /\ UNCHANGED <<line, hasArg, saved, found, disturbed, lines>>

\* the client has gone, or EXIT: the thread and its stack end
End(t) ==
  /\ pc[t] \in {"recv", "use"}
  /\ GoTo(t, "none")
  /\ line' = [line EXCEPT ![t] = 0]
  /\ UNCHANGED <<hasArg, saved, found, disturbed, lines>>

\* reading through a pointer into a stack that is gone may be a segmentation
\* fault; the service manager starts the server again
Crash(t) ==
  /\ \/ pc[t] = "second" /\ saved.buf # t /\ line[saved.buf] = 0
     \/ pc[t] = "use" /\ found[t].buf # t /\ line[found[t].buf] = 0
  /\ pc' = [u \in Thread |-> "none"]
  /\ line' = [u \in Thread |-> 0]
  /\ hasArg' = [u \in Thread |-> FALSE]
  /\ saved' = Null
  /\ found' = [u \in Thread |-> Null]
  /\ disturbed' = [u \in Thread |-> FALSE]
  /\ UNCHANGED lines

Step(t) ==
  \/ Accept(t) \/ Recv(t)
  \/ First(t) \/ Second(t) \/ Store(t)
  \/ Execute(t) \/ End(t) \/ Crash(t)

Next == \E t \in Thread : Step(t)

Spec == Init /\ [][Next]_vars

-----------------------------------------------------------------------------
(* The types of handle_client's locals and of strtok's pointer: whatever   *)
(* other threads do, strtok(NULL) is never called before the pointer was   *)
(* set, and each thread's arg comes from a buffer of some line.            *)
TypeOK ==
  /\ pc \in [Thread -> Location]
  /\ line \in [Thread -> 0..MaxLines]
  /\ hasArg \in [Thread -> BOOLEAN]
  /\ saved \in Pointer \cup {Null}
  /\ found \in [Thread -> Pointer \cup {Null}]
  /\ disturbed \in [Thread -> BOOLEAN]
  /\ lines \in 0..MaxLines
  /\ \A t \in Thread :
       /\ pc[t] = "second" => saved \in Pointer
       /\ pc[t] \in {"store", "use"} => found[t] \in Pointer

(* A command is executed with its own line's argument, or with none if the *)
(* line has none, unless another thread's strtok came between its two      *)
(* calls: nothing that threads do before or after, earlier lines, ended    *)
(* threads or late writes of the pointer, can mix them up.                 *)
MixedOnlyByRace ==
  \A t \in Thread : pc[t] = "use" /\ ~disturbed[t] => found[t] = Own(t)

(* "Este hilo maneja toda la comunicacion con ese cliente de forma         *)
(* independiente": every command is executed with its own line's argument. *)
OwnArgument ==
  \A t \in Thread : pc[t] = "use" =>
    /\ found[t].at = Own(t).at
    /\ found[t].at = "arg" => found[t] = Own(t)
=============================================================================
