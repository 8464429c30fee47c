--------------------------- MODULE SessionService ---------------------------
(***************************************************************************)
(* What a session promises its user, however requests and answers merge,   *)
(* split, overtake one another or are lost: of the commands entered, each  *)
(* is executed at most once and in the order of entry, an answer is read   *)
(* at most once, in that order, and only after its command was executed;   *)
(* a command that holds the screen gives it back; when one end of the      *)
(* connection goes, the other one follows.                                 *)
(***************************************************************************)
EXTENDS Naturals

VARIABLES entered,   \* number of commands the user has entered
          serving,   \* the one the server is executing; 0: none
          executed,  \* the last one the server has executed
          heard,     \* the last one whose answer the client has read
          screen,    \* free, or held by a command
          clientOn, serverOn,  \* is the client, the server's thread, there?
          held       \* is the server's end of the connection open?

vars == <<entered, serving, executed, heard, screen, clientOn, serverOn, held>>

Init ==
  /\ entered = 0 /\ serving = 0 /\ executed = 0 /\ heard = 0
  /\ screen = "held"
  /\ clientOn = TRUE /\ serverOn = TRUE /\ held = TRUE

Enter ==
  /\ clientOn /\ screen = "free"
  /\ entered' = entered + 1
  /\ screen' = "held"
  /\ UNCHANGED <<serving, executed, heard, clientOn, serverOn, held>>

\* commands entered before it and not executed are lost
Take ==
  /\ serverOn /\ serving = 0
  /\ serving' \in executed + 1..entered
  /\ UNCHANGED <<entered, executed, heard, screen, clientOn, serverOn, held>>

\* the last thing the server does, perhaps
Execute ==
  /\ serverOn /\ serving # 0
  /\ executed' = serving
  /\ serving' = 0
  /\ serverOn' \in BOOLEAN
  /\ held' \in {TRUE, serverOn'}
  /\ UNCHANGED <<entered, heard, screen, clientOn>>

Release ==
  /\ clientOn
  /\ heard' \in heard..executed
  /\ screen' = "free"
  /\ UNCHANGED <<entered, serving, executed, clientOn, serverOn, held>>

\* the client ends; EXIT is a last command, which nobody waits for
ClientEnds ==
  /\ clientOn
  /\ clientOn' = FALSE
  /\ screen' = "free"
  /\ entered' \in {entered, entered + 1}
  /\ UNCHANGED <<serving, executed, heard, serverOn, held>>

\* a started process may keep the connection open after the thread
ServerEnds ==
  /\ serverOn
  /\ serverOn' = FALSE
  /\ serving' = 0
  /\ held' \in BOOLEAN
  /\ UNCHANGED <<entered, executed, heard, screen, clientOn>>

LetGo ==
  /\ ~serverOn /\ held
  /\ held' = FALSE
  /\ UNCHANGED <<entered, serving, executed, heard, screen, clientOn, serverOn>>

Next ==
  \/ Enter \/ Take \/ Execute
  \/ Release \/ ClientEnds \/ ServerEnds \/ LetGo

SafeSpec == Init /\ [][Next]_vars

Spec ==
  /\ SafeSpec
  /\ WF_vars(screen = "held" /\ (Release \/ ClientEnds))
  /\ WF_vars(~clientOn /\ ServerEnds)
  /\ WF_vars(~held /\ ClientEnds)
=============================================================================
