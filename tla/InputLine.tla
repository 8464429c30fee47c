------------------------------ MODULE InputLine ------------------------------
(***************************************************************************)
(* The text the client's user types and the command lines made of it: the  *)
(* input line (input.c), handle_command up to its send, and the field of   *)
(* the F2 dialog (tui.c).  The actions here change the text only; Keys     *)
(* says which of them a key reaches.                                       *)
(*                                                                         *)
(* The words the code compares with and the size of the buffers are        *)
(* constants, so that a small instance has short words; in the code        *)
(* BufSize is 256, Start "START ", Run "RUN ", Help "HELP", Exit "EXIT".   *)
(***************************************************************************)
EXTENDS Integers, Sequences

CONSTANTS
  BufSize,               \* INPUT_BUF_SIZE
  Chars,                 \* what a byte of a line can be
  Newline,
  Typed,                 \* the characters for which isprint holds
  Upper,                 \* toupper
  LowByte,               \* of each key code above 255, cast to char
  Start, Run, Help, Exit

ASSUME TextAssumption ==
  /\ BufSize \in Nat \ {0}
  /\ Newline \in Chars
  /\ Typed \subseteq Chars \ {Newline}
  /\ Upper \in [Chars -> Chars]
  /\ \A c \in Chars : Upper[c] = Newline <=> c = Newline
  /\ \A k \in DOMAIN LowByte : LowByte[k] \in Chars
  /\ {Start, Run, Help, Exit} \subseteq Seq(Chars \ {Newline})
  /\ Len(Start) <= 6
  /\ Len(Start) <= Len(Run) + 2

VARIABLES
  text,      \* input_line.buffer, of input_line.length characters
  cursor,    \* input_line.cursor_pos
  handling,  \* handle_command is under way with the text of the line
  field,     \* cmd_buf of the F2 dialog, <<>> when there is none
  sent       \* the line written by the handler under way

textVars == <<text, cursor, handling, field, sent>>

Nothing == [from |-> "none", bytes |-> <<>>]

StartsWith(s, word) ==
  Len(word) <= Len(s) /\ SubSeq(s, 1, Len(word)) = word

\* the text after a word of the line
After(s, word) == SubSeq(s, Len(word) + 1, Len(s))

\* input_to_uppercase
ToUpper(s) == [i \in DOMAIN s |-> Upper[s[i]]]

\* snprintf into a buffer of that size: the last byte is for the NUL
Fit(s, size) == IF Len(s) < size THEN s ELSE SubSeq(s, 1, size - 1)

Line(s) == s \o <<Newline>>

TextInit ==
  /\ text = <<>>
  /\ cursor = 0
  /\ handling = FALSE
  /\ field = <<>>
  /\ sent = Nothing

-----------------------------------------------------------------------------
(***************************************************************************)
(* input_handle_key                                                        *)
(***************************************************************************)
\* mutant: a line as long as the buffer, with no place for its NUL
InsertFull(c) ==
  /\ Len(text) < BufSize
  /\ text' = SubSeq(text, 1, cursor) \o <<c>> \o SubSeq(text, cursor + 1, Len(text))
  /\ cursor' = cursor + 1
  /\ UNCHANGED <<handling, field, sent>>

\* a printable character, at the cursor
Insert(c) ==
  /\ Len(text) < BufSize - 1
  /\ text' = SubSeq(text, 1, cursor) \o <<c>> \o SubSeq(text, cursor + 1, Len(text))
  /\ cursor' = cursor + 1
  /\ UNCHANGED <<handling, field, sent>>

\* the character before the cursor goes
Backspace ==
  /\ cursor > 0
  /\ text' = SubSeq(text, 1, cursor - 1) \o SubSeq(text, cursor + 1, Len(text))
  /\ cursor' = cursor - 1
  /\ UNCHANGED <<handling, field, sent>>

(***************************************************************************)
(* A key code above 255 is outside the domain of isprint: what the table's *)
(* neighbourhood in memory holds decides whether it is taken for printable.*)
(* If it is, its low byte is stored.                                       *)
(***************************************************************************)
OddKey(k) == UNCHANGED textVars \/ Insert(LowByte[k])

-----------------------------------------------------------------------------
(***************************************************************************)
(* Enter on a line that is not empty, and handle_command: the line to send *)
(* is chosen by its first word.                                            *)
(***************************************************************************)
Send(from, bytes) == sent' = [from |-> from, bytes |-> bytes]

\* mutant: the newline is not counted in the size of RUN's buffers
CommandBytesShort(cmd) ==
  IF StartsWith(cmd, Run)
  THEN Fit(Line(Fit(Start \o After(cmd, Run), BufSize + 2)), BufSize + 2)
  ELSE Fit(Line(cmd), BufSize + 2)

\* RUN is sent as START, in two steps; any other command as it stands
CommandBytes(cmd) ==
  IF StartsWith(cmd, Run)
  THEN Fit(Line(Fit(Start \o After(cmd, Run), BufSize + 2)), BufSize + 4)
  ELSE Fit(Line(cmd), BufSize + 2)

EnterCommand ==
  LET cmd == ToUpper(text) IN
  /\ text # <<>>
  /\ cmd \notin {Help, Exit}
  /\ text' = cmd
  /\ handling' = TRUE
  /\ Send(IF StartsWith(cmd, Run) THEN "run" ELSE "line", CommandBytes(cmd))
  /\ UNCHANGED <<cursor, field>>

EnterHelp ==
  /\ ToUpper(text) = Help
  /\ text' = Help
  /\ handling' = TRUE
  /\ UNCHANGED <<cursor, field, sent>>

\* handle_command returns 1 at once: the line is cleared
EnterExit ==
  /\ ToUpper(text) = Exit
  /\ text' = <<>>
  /\ cursor' = 0
  /\ Send("exit", Line(Exit))
  /\ UNCHANGED <<handling, field>>

\* handle_command has returned, and input_clear
LineCleared ==
  /\ handling
  /\ handling' = FALSE
  /\ text' = <<>>
  /\ cursor' = 0
  /\ sent' = Nothing
  /\ UNCHANGED field

-----------------------------------------------------------------------------
(***************************************************************************)
(* The field of the F2 dialog: the same keys, without a cursor, and the    *)
(* line is sent as it was typed.                                           *)
(***************************************************************************)
FieldInsert(c) ==
  /\ Len(field) < BufSize - 1
  /\ field' = Append(field, c)
  /\ UNCHANGED <<text, cursor, handling, sent>>

FieldBackspace ==
  /\ field # <<>>
  /\ field' = SubSeq(field, 1, Len(field) - 1)
  /\ UNCHANGED <<text, cursor, handling, sent>>

FieldOddKey(k) == UNCHANGED textVars \/ FieldInsert(LowByte[k])

FieldEnter ==
  /\ field # <<>>
  /\ Send("field", Fit(Line(Start \o field), BufSize + 8))
  /\ UNCHANGED <<text, cursor, handling, field>>

\* the dialog closes: its buffer goes with it
FieldGone ==
  /\ field' = <<>>
  /\ sent' = Nothing
  /\ UNCHANGED <<text, cursor, handling>>

-----------------------------------------------------------------------------
(* The types of InputLine, whose length leaves room for the NUL, and of    *)
(* what is sent.  The cursor is at the end of the line: Insert and         *)
(* Backspace move it with the text, and no key moves it otherwise.         *)
TextOK ==
  /\ text \in Seq(Chars) /\ Len(text) <= BufSize - 1
  /\ cursor = Len(text)
  /\ handling \in BOOLEAN
  /\ field \in Seq(Chars) /\ Len(field) <= BufSize - 1
  /\ sent \in [from : {"none", "line", "run", "exit", "field"},
               bytes : Seq(Chars)]

(* What is sent is the whole command and its newline: none of the buffers  *)
(* that handle_command and the dialog put it together in is too small for  *)
(* the longest text that can be typed (a truncated line would lose its     *)
(* newline, and the next command would be joined to it).                   *)
SentWhole ==
  /\ sent.from = "line" => sent.bytes = Line(text)
  /\ sent.from = "run" => sent.bytes = Line(Start \o After(text, Run))
  /\ sent.from = "field" => sent.bytes = Line(Start \o field)
  /\ sent.from = "exit" => sent.bytes = Line(Exit)

(* The input line sends one command at a time: whatever keys were pressed, *)
(* also those whose low byte is that of another character, the newline is  *)
(* only at the end of what is sent.                                        *)
OneCommand ==
  sent.from \in {"line", "run", "exit"} =>
    \A i \in 1..Len(sent.bytes) :
      sent.bytes[i] = Newline <=> i = Len(sent.bytes)
=============================================================================
