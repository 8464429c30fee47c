-------------------------------- MODULE Keys --------------------------------
(***************************************************************************)
(* The keyboard of the client, tui_run's loop and its dialogs: each key    *)
(* goes to the screen (Panels), to the input line or to the field of the   *)
(* F2 dialog (InputLine), and answers of the server arrive in between.     *)
(* Keys that come while the client waits for an answer stay in the         *)
(* terminal's queue: no action reads them.                                 *)
(***************************************************************************)
EXTENDS Panels, InputLine

VARIABLE running  \* state->running

keyVars == <<vars, textVars, running>>

\* the key codes tui_run looks at; of those curses.h defines (256 to 511) only
\* KEY_F(2), 266, has a newline as its low byte
ASSUME KeysAssumption ==
  /\ {"up", "down", "resize", "f1", "f2"} \subseteq DOMAIN LowByte
  /\ \A k \in DOMAIN LowByte : LowByte[k] = Newline => k = "f2"

KeysInit == Init /\ TextInit /\ running = TRUE

\* wgetch in tui_run's loop
Reading == running /\ ~handling /\ dialog = "none"

\* wgetch in show_run_dialog
Filling == running /\ dialog = "run" /\ sent = Nothing

-----------------------------------------------------------------------------
(***************************************************************************)
(* Keys of the screen.                                                     *)
(***************************************************************************)
ConnectDialogEnds ==
  /\ Connected
  /\ UNCHANGED <<textVars, running>>

KeyResize ==
  /\ Reading
  /\ Resize
  /\ UNCHANGED <<textVars, running>>

KeyTab ==
  /\ Reading
  /\ Tab
  /\ UNCHANGED <<textVars, running>>

\* the arrow keys with the focus on the processes
Scroll(delta) ==
  /\ Reading
  /\ Arrow(delta)
  /\ UNCHANGED <<textVars, running>>

(***************************************************************************)
(* Keys of the input line.  It has no focus of its own: characters reach   *)
(* it wherever the focus is.                                               *)
(***************************************************************************)
KeyChar ==
  /\ Reading
  /\ \E c \in Typed : Insert(c)
  /\ UNCHANGED <<vars, running>>

KeyBackspace ==
  /\ Reading
  /\ Backspace
  /\ UNCHANGED <<vars, running>>

\* mutant: input_handle_key before the tests for F1 and F2
AllOddKeys == DOMAIN LowByte \ {"resize"}

\* the keys tui_run leaves to input_handle_key
OddKeys ==
  DOMAIN LowByte \ ({"resize", "f1", "f2"}
                      \cup IF focus = 0 THEN {"up", "down"} ELSE {})

KeyOdd ==
  /\ Reading
  /\ \E k \in OddKeys : OddKey(k)
  /\ UNCHANGED <<vars, running>>

-----------------------------------------------------------------------------
(***************************************************************************)
(* Commands of the input line.                                             *)
(***************************************************************************)
Command ==
  /\ Reading
  /\ EnterCommand
  /\ UNCHANGED <<vars, running>>

\* an answer within the 3 seconds; that to RUN goes to the status bar
Answered ==
  /\ handling /\ dialog = "none"
  /\ IF sent.from = "line" THEN CommandAnswer ELSE UNCHANGED vars
  /\ LineCleared
  /\ UNCHANGED running

NotAnswered ==
  /\ handling /\ dialog = "none"
  /\ LineCleared
  /\ UNCHANGED <<vars, running>>

CommandExit ==
  /\ Reading
  /\ EnterExit
  /\ running' = FALSE
  /\ UNCHANGED vars

\* the poll finds the connection lost
PollLost ==
  /\ Reading
  /\ running' = FALSE
  /\ UNCHANGED <<vars, textVars>>

\* so does the wait for the answer to a command; RUN does not look
AwaitLost ==
  /\ handling /\ sent.from = "line"
  /\ LineCleared
  /\ running' = FALSE
  /\ UNCHANGED vars

Polled ==
  /\ Reading
  /\ AsyncAnswer
  /\ UNCHANGED <<textVars, running>>

-----------------------------------------------------------------------------
(***************************************************************************)
(* Dialogs.                                                                *)
(***************************************************************************)
KeyF1 ==
  /\ Reading
  /\ OpenDialog /\ dialog' = "help"
  /\ UNCHANGED <<textVars, running>>

CommandHelp ==
  /\ Reading
  /\ EnterHelp
  /\ OpenDialog /\ dialog' = "help"
  /\ UNCHANGED running

KeyF2 ==
  /\ Reading
  /\ OpenDialog /\ dialog' = "run"
  /\ UNCHANGED <<textVars, running>>

\* mutant: input_clear whenever a help ends
HelpClears ==
  /\ handling' = FALSE /\ text' = <<>> /\ cursor' = 0
  /\ UNCHANGED <<field, sent>>

\* the help was shown by HELP, whose handle_command then returns, or by F1
HelpReturns == IF handling THEN LineCleared ELSE UNCHANGED textVars

HelpEnds ==
  /\ dialog = "help"
  /\ CloseDialog
  /\ HelpReturns
  /\ UNCHANGED running

FieldKey ==
  /\ Filling
  /\ \/ \E c \in Typed : FieldInsert(c)
     \/ FieldBackspace
     \/ \E k \in DOMAIN LowByte \ {"resize"} : FieldOddKey(k)
     \/ FieldEnter
  /\ UNCHANGED <<vars, running>>

\* ESC, or the command has been sent and its answer shown, or not come
FieldEnds ==
  /\ dialog = "run"
  /\ CloseDialog
  /\ FieldGone
  /\ UNCHANGED running

\* a resize ends the help; in the field it is one more odd key
DialogResized ==
  /\ ResizeInDialog
  /\ \/ dialog = "help" /\ HelpReturns
     \/ Filling /\ FieldOddKey("resize")
     \/ dialog = "connect" /\ UNCHANGED textVars
  /\ UNCHANGED running

KeysNext ==
  \/ ConnectDialogEnds
  \/ KeyResize \/ KeyTab \/ Scroll(-1) \/ Scroll(1)
  \/ KeyChar \/ KeyBackspace \/ KeyOdd
  \/ Command \/ Answered \/ NotAnswered \/ AwaitLost \/ CommandExit
  \/ Polled \/ PollLost
  \/ KeyF1 \/ CommandHelp \/ KeyF2 \/ HelpEnds
  \/ FieldKey \/ FieldEnds \/ DialogResized

KeysSpec == KeysInit /\ [][KeysNext]_keyVars

-----------------------------------------------------------------------------
(* Only keys typed on the line, and the end of its own command, change its *)
(* text: dialogs (also one opened by F1 over a half-typed line), resizes,  *)
(* focus changes, refreshes of the list and the field of the F2 dialog     *)
(* leave it.                                                               *)
LineUndisturbed ==
  [][text' # text =>
       \/ handling
       \/ dialog = "none" /\ UNCHANGED <<lines, layout, focus, count, offset>>]_keyVars

(* README.md: "START <comando>: Inicia un proceso (ej. ... START sleep     *)
(* 100)": the command that reaches the server is the one that was typed.   *)
CommandAsTyped ==
  [][sent' # sent /\ sent'.from = "line" /\ StartsWith(ToUpper(text), Start)
       => sent'.bytes = Line(Start \o After(text, Start))]_keyVars
=============================================================================
