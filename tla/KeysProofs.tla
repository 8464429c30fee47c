----------------------------- MODULE KeysProofs -----------------------------
(***************************************************************************)
(* Theorems about Keys, for every size of the buffers, all words of the    *)
(* lengths the code relies on, and every alphabet: the screen stays        *)
(* correct under the keyboard, and what is sent is one whole command.      *)
(***************************************************************************)
EXTENDS Keys, PanelsProofs, SequenceTheorems

-----------------------------------------------------------------------------
(* The screen.                                                             *)

(* Whatever key is read, the screen makes a step of Panels, or none.       *)
LEMMA ScreenStep == [KeysNext]_keyVars => [Next]_vars
<1> SUFFICES ASSUME [KeysNext]_keyVars PROVE [Next]_vars
  OBVIOUS
<1>1. CASE ConnectDialogEnds \/ KeyResize \/ KeyTab \/ Scroll(-1) \/ Scroll(1)
  BY <1>1 DEF ConnectDialogEnds, KeyResize, KeyTab, Scroll, Next
<1>2. CASE KeyChar \/ KeyBackspace \/ KeyOdd \/ Command \/ NotAnswered
           \/ CommandExit \/ PollLost \/ AwaitLost \/ FieldKey
  BY <1>2 DEF KeyChar, KeyBackspace, KeyOdd, Command, NotAnswered,
              CommandExit, PollLost, AwaitLost, FieldKey
<1>3. CASE Answered \/ Polled
  BY <1>3 DEF Answered, Polled, Next
<1>4. CASE KeyF1 \/ CommandHelp \/ KeyF2 \/ HelpEnds \/ FieldEnds
           \/ DialogResized
  BY <1>4 DEF KeyF1, CommandHelp, KeyF2, HelpEnds, FieldEnds, DialogResized,
              Next
<1>5. CASE UNCHANGED keyVars
  BY <1>5 DEF keyVars, vars
<1>6. QED
  BY <1>1, <1>2, <1>3, <1>4, <1>5 DEF KeysNext

(* The keyboard does to the screen only what Panels describes.             *)
LEMMA KeysPanels == KeysSpec => Spec
<1>1. KeysInit => Init
  BY DEF KeysInit
<1>2. QED
  BY <1>1, ScreenStep, PTL DEF KeysSpec, Spec

(* So what is proved of Panels holds of the whole keyboard: whatever is    *)
(* typed, entered, answered or lost in between, the scroll offset lands in *)
(* range and moves by rows.                                                *)
COROLLARY ScreenCorrect ==
  KeysSpec => []TypeOK /\ ScrollLands /\ ScrollStepwise
BY KeysPanels, TypeCorrect, ScrollAlwaysLands, ScrollNeverJumps

-----------------------------------------------------------------------------
(* The operators on texts.                                                 *)

NoNewline(s) == \A i \in 1..Len(s) : s[i] # Newline

(* Inserting at a cursor that is at the end appends.                       *)
LEMMA InsertAtEnd ==
  ASSUME NEW s \in Seq(Chars), NEW c \in Chars
  PROVE  SubSeq(s, 1, Len(s)) \o <<c>> \o SubSeq(s, Len(s) + 1, Len(s))
           = Append(s, c)
<1>1. SubSeq(s, 1, Len(s)) = s
  BY SubSeqFull
<1>2. SubSeq(s, Len(s) + 1, Len(s)) = << >>
  BY SubSeqEmpty, LenProperties
<1>3. s \o <<c>> = Append(s, c)
  BY AppendIsConcat
<1>4. Append(s, c) \in Seq(Chars)
  BY AppendProperties
<1>5. Append(s, c) \o << >> = Append(s, c)
  BY <1>4, ConcatEmptySeq
<1>6. QED
  BY <1>1, <1>2, <1>3, <1>5

LEMMA AppendText ==
  ASSUME NEW s \in Seq(Chars), NEW c \in Chars
  PROVE  /\ Append(s, c) \in Seq(Chars)
         /\ Len(Append(s, c)) = Len(s) + 1
         /\ NoNewline(s) /\ c # Newline => NoNewline(Append(s, c))
BY AppendProperties, LenProperties DEF NoNewline

(* Backspace takes the last character.                                     *)
LEMMA CutText ==
  ASSUME NEW s \in Seq(Chars), s # << >>
  PROVE  /\ SubSeq(s, 1, Len(s) - 1) \in Seq(Chars)
         /\ Len(SubSeq(s, 1, Len(s) - 1)) = Len(s) - 1
         /\ SubSeq(s, 1, Len(s) - 1) \o SubSeq(s, Len(s) + 1, Len(s))
              = SubSeq(s, 1, Len(s) - 1)
         /\ NoNewline(s) => NoNewline(SubSeq(s, 1, Len(s) - 1))
<1> DEFINE n == Len(s)
           u == SubSeq(s, 1, n - 1)
<1>1. n \in Nat \ {0} /\ \A i \in 1..(n - 1) : s[i] \in Chars
  BY EmptySeq, ElementOfSeq, LenProperties
<1> HIDE DEF n
<1>2. /\ u \in Seq(Chars)
      /\ Len(u) = n - 1
      /\ \A i \in 1..(n - 1) : u[i] = s[i]
  <2>1. /\ u \in Seq(Chars)
        /\ Len(u) = IF 1 <= n - 1 THEN n - 1 - 1 + 1 ELSE 0
        /\ \A i \in 1..(n - 1) - 1 + 1 : u[i] = s[1 + i - 1]
    BY <1>1, SubSeqProperties
  <2>2. QED
    BY <1>1, <2>1
<1>3. SubSeq(s, n + 1, n) = << >>
  BY <1>1, SubSeqEmpty
<1>4. u \o << >> = u
  BY <1>2, ConcatEmptySeq
<1>5. (\A i \in 1..n : s[i] # Newline) => NoNewline(u)
  BY <1>1, <1>2 DEF NoNewline
<1>6. QED
  BY <1>2, <1>3, <1>4, <1>5 DEF NoNewline, n

LEMMA UpperText ==
  ASSUME NEW s \in Seq(Chars)
  PROVE  /\ ToUpper(s) \in Seq(Chars)
         /\ Len(ToUpper(s)) = Len(s)
         /\ NoNewline(s) => NoNewline(ToUpper(s))
<1> DEFINE n == Len(s)
<1>1. n \in Nat /\ DOMAIN s = 1..n /\ \A i \in 1..n : s[i] \in Chars
  BY LenProperties, ElementOfSeq
<1>2. ToUpper(s) = [i \in 1..n |-> Upper[s[i]]]
  BY <1>1 DEF ToUpper
<1>3. /\ \A c \in Chars : Upper[c] \in Chars
      /\ \A c \in Chars : Upper[c] = Newline <=> c = Newline
  BY TextAssumption
<1>4. ToUpper(s) \in Seq(Chars) /\ Len(ToUpper(s)) = n
  BY <1>1, <1>2, <1>3
<1>5. QED
  BY <1>1, <1>2, <1>3, <1>4 DEF NoNewline

LEMMA JoinText ==
  ASSUME NEW s \in Seq(Chars), NEW t \in Seq(Chars)
  PROVE  /\ s \o t \in Seq(Chars)
         /\ Len(s \o t) = Len(s) + Len(t)
         /\ NoNewline(s) /\ NoNewline(t) => NoNewline(s \o t)
<1>1. /\ s \o t \in Seq(Chars)
      /\ Len(s \o t) = Len(s) + Len(t)
      /\ \A i \in 1..Len(s) + Len(t) :
           (s \o t)[i] = IF i <= Len(s) THEN s[i] ELSE t[i - Len(s)]
      /\ Len(s) \in Nat /\ Len(t) \in Nat
  BY ConcatProperties, LenProperties
<1>2. QED
  BY <1>1 DEF NoNewline

LEMMA LineText ==
  ASSUME NEW s \in Seq(Chars)
  PROVE  /\ Line(s) \in Seq(Chars)
         /\ Len(Line(s)) = Len(s) + 1
         /\ NoNewline(s) =>
              \A i \in 1..Len(Line(s)) : Line(s)[i] = Newline <=> i = Len(Line(s))
<1>1. Newline \in Chars
  BY TextAssumption
<1>2. Line(s) = Append(s, Newline)
  BY <1>1, AppendIsConcat DEF Line
<1>3. QED
  BY <1>1, <1>2, AppendProperties, LenProperties DEF NoNewline

LEMMA AfterText ==
  ASSUME NEW s \in Seq(Chars), NEW w \in Seq(Chars), StartsWith(s, w)
  PROVE  /\ After(s, w) \in Seq(Chars)
         /\ Len(After(s, w)) = Len(s) - Len(w)
         /\ NoNewline(s) => NoNewline(After(s, w))
<1> DEFINE n == Len(s)
           m == Len(w) + 1
<1>1. n \in Nat /\ m \in Nat \ {0} /\ m <= n + 1
  BY LenProperties DEF StartsWith
<1>2. \A i \in m..n : s[i] \in Chars
  BY <1>1, ElementOfSeq
<1> HIDE DEF n, m
<1>3. /\ SubSeq(s, m, n) \in Seq(Chars)
      /\ Len(SubSeq(s, m, n)) = IF m <= n THEN n - m + 1 ELSE 0
      /\ \A i \in 1..n - m + 1 : SubSeq(s, m, n)[i] = s[m + i - 1]
  BY <1>1, <1>2, SubSeqProperties
<1>4. Len(SubSeq(s, m, n)) = n - m + 1
  BY <1>1, <1>3
<1>5. (\A i \in 1..n : s[i] # Newline) => NoNewline(SubSeq(s, m, n))
  BY <1>1, <1>3, <1>4 DEF NoNewline
<1>6. m - 1 = Len(w)
  BY LenProperties DEF m
<1>7. QED
  BY <1>1, <1>3, <1>4, <1>5, <1>6 DEF NoNewline, After, n, m

LEMMA WordText ==
  ASSUME NEW w \in {Start, Run, Help, Exit}
  PROVE  w \in Seq(Chars) /\ NoNewline(w)
<1>1. w \in Seq(Chars \ {Newline})
  BY TextAssumption
<1>2. QED
  BY <1>1, ElementOfSeq, SeqMonotonic DEF NoNewline

LEMMA FitWhole ==
  ASSUME NEW s, NEW n \in Int, Len(s) < n
  PROVE  Fit(s, n) = s
BY DEF Fit

-----------------------------------------------------------------------------
(* The buffers.                                                            *)

(* The buffers of handle_command hold the longest command with its         *)
(* newline, also RUN's, which grows by two characters when it becomes      *)
(* START (the first of its two buffers has not a byte to spare).           *)
THEOREM CommandFits ==
  ASSUME NEW s \in Seq(Chars), Len(s) <= BufSize - 1
  PROVE  /\ CommandBytes(s) \in Seq(Chars)
         /\ StartsWith(s, Run) =>
              CommandBytes(s) = Line(Start \o After(s, Run))
         /\ ~StartsWith(s, Run) => CommandBytes(s) = Line(s)
<1> DEFINE a == Start \o After(s, Run)
<1>0. /\ BufSize \in Nat /\ Len(Start) <= Len(Run) + 2
      /\ Start \in Seq(Chars) /\ Run \in Seq(Chars)
      /\ Len(Start) \in Nat /\ Len(Run) \in Nat /\ Len(s) \in Nat
  BY TextAssumption, WordText, LenProperties
<1>1. CASE StartsWith(s, Run)
  <2>0. After(s, Run) \in Seq(Chars) /\ Len(After(s, Run)) = Len(s) - Len(Run)
    BY <1>0, <1>1, AfterText
  <2>1. a \in Seq(Chars) /\ Len(a) = Len(Start) + Len(After(s, Run))
    BY <1>0, <2>0, JoinText
  <2> HIDE DEF a
  <2>2. Fit(a, BufSize + 2) = a
    BY <1>0, <2>0, <2>1, FitWhole
  <2>3. Line(a) \in Seq(Chars) /\ Len(Line(a)) = Len(a) + 1
    BY <2>1, LineText
  <2>4. Fit(Line(a), BufSize + 4) = Line(a)
    BY <1>0, <2>0, <2>1, <2>3, FitWhole
  <2>5. QED
    BY <1>1, <2>2, <2>3, <2>4 DEF CommandBytes, a
<1>2. CASE ~StartsWith(s, Run)
  <2>1. Line(s) \in Seq(Chars) /\ Len(Line(s)) = Len(s) + 1
    BY LineText
  <2>2. Fit(Line(s), BufSize + 2) = Line(s)
    BY <1>0, <2>1, FitWhole
  <2>3. QED
    BY <1>2, <2>1, <2>2 DEF CommandBytes
<1>3. QED
  BY <1>1, <1>2

(* So does the buffer of the F2 dialog.                                    *)
THEOREM FieldFits ==
  ASSUME NEW s \in Seq(Chars), Len(s) <= BufSize - 1
  PROVE  /\ Line(Start \o s) \in Seq(Chars)
         /\ Fit(Line(Start \o s), BufSize + 8) = Line(Start \o s)
<1>0. /\ BufSize \in Nat /\ Len(Start) <= 6 /\ Start \in Seq(Chars)
      /\ Len(Start) \in Nat /\ Len(s) \in Nat
  BY TextAssumption, WordText, LenProperties
<1>1. Start \o s \in Seq(Chars) /\ Len(Start \o s) = Len(Start) + Len(s)
  BY <1>0, JoinText
<1>2. /\ Line(Start \o s) \in Seq(Chars)
      /\ Len(Line(Start \o s)) = Len(Start) + Len(s) + 1
  BY <1>1, LineText
<1>3. QED
  BY <1>0, <1>2, FitWhole

-----------------------------------------------------------------------------
(***************************************************************************)
(* The inductive invariant: SentWhole speaks of a line that was sent and   *)
(* of the text it was made of, so it needs that the text stays until the   *)
(* handler returns: which handler is under way says who reads the keys.    *)
(***************************************************************************)
Stages ==
  /\ handling => dialog \in {"none", "help"}
  /\ sent.from \in {"line", "run"} =>
       /\ handling /\ dialog = "none"
       /\ sent.from = "run" => StartsWith(text, Run)
  /\ sent.from = "field" => dialog = "run"

TextInv == TextOK /\ NoNewline(text) /\ Stages /\ SentWhole

(* The actions on the text, one by one: each keeps the part of the         *)
(* invariant that speaks of the variables of InputLine.                    *)
LEMMA InsertKeeps ==
  ASSUME TextInv, ~handling, NEW c \in Chars, c # Newline, Insert(c)
  PROVE  /\ text' \in Seq(Chars) /\ Len(text') <= BufSize - 1
         /\ cursor' = Len(text') /\ NoNewline(text')
<1>1. text \in Seq(Chars) /\ cursor = Len(text) /\ Len(text) < BufSize - 1
      /\ Len(text) \in Nat /\ BufSize \in Nat /\ NoNewline(text)
  BY LenProperties, TextAssumption DEF TextInv, TextOK, Insert
<1>2. text' = Append(text, c) /\ cursor' = Len(text) + 1
  BY <1>1, InsertAtEnd DEF Insert
<1>3. QED
  BY <1>1, <1>2, AppendText

LEMMA BackspaceKeeps ==
  ASSUME TextInv, Backspace
  PROVE  /\ text' \in Seq(Chars) /\ Len(text') <= BufSize - 1
         /\ cursor' = Len(text') /\ NoNewline(text')
<1>1. text \in Seq(Chars) /\ cursor = Len(text) /\ Len(text) <= BufSize - 1
      /\ Len(text) \in Nat \ {0} /\ BufSize \in Nat /\ NoNewline(text)
  BY LenProperties, TextAssumption DEF TextInv, TextOK, Backspace
<1>2. text # << >>
  BY <1>1, EmptySeq
<1>3. text' = SubSeq(text, 1, Len(text) - 1) /\ cursor' = Len(text) - 1
  BY <1>1, <1>2, CutText DEF Backspace
<1>4. QED
  BY <1>1, <1>2, <1>3, CutText

LEMMA FieldInsertKeeps ==
  ASSUME TextInv, NEW c \in Chars, FieldInsert(c)
  PROVE  field' \in Seq(Chars) /\ Len(field') <= BufSize - 1
<1>1. field \in Seq(Chars) /\ Len(field) < BufSize - 1
      /\ Len(field) \in Nat /\ BufSize \in Nat
  BY LenProperties, TextAssumption DEF TextInv, TextOK, FieldInsert
<1>2. QED
  BY <1>1, AppendText DEF FieldInsert

LEMMA FieldBackspaceKeeps ==
  ASSUME TextInv, FieldBackspace
  PROVE  field' \in Seq(Chars) /\ Len(field') <= BufSize - 1
<1>1. field \in Seq(Chars) /\ Len(field) <= BufSize - 1 /\ field # << >>
      /\ Len(field) \in Nat /\ BufSize \in Nat
  BY LenProperties, TextAssumption DEF TextInv, TextOK, FieldBackspace
<1>2. QED
  BY <1>1, CutText DEF FieldBackspace

LEMMA TextInitially == KeysInit => TextInv
<1> SUFFICES ASSUME KeysInit PROVE TextInv
  OBVIOUS
<1>1. /\ << >> \in Seq(Chars) /\ Len(<< >>) = 0 /\ BufSize - 1 >= 0
  BY EmptySeq, TextAssumption
<1>2. /\ text = << >> /\ cursor = 0 /\ handling = FALSE /\ field = << >>
      /\ sent = [from |-> "none", bytes |-> << >>]
  BY DEF KeysInit, TextInit, Nothing
<1>3. TextOK
  BY <1>1, <1>2 DEF TextOK
<1>4. Stages /\ SentWhole /\ NoNewline(text)
  BY <1>1, <1>2 DEF Stages, SentWhole, NoNewline
<1>5. QED
  BY <1>3, <1>4 DEF TextInv

(* A key that does not touch the text.                                     *)
LEMMA OtherKeyKeeps ==
  ASSUME TextInv, UNCHANGED textVars,
         \/ UNCHANGED dialog
         \/ dialog = "connect"
         \/ ~handling /\ dialog = "none"
  PROVE  TextInv'
<1>1. TextOK' /\ NoNewline(text)' /\ SentWhole'
  BY DEF TextInv, TextOK, SentWhole, textVars, NoNewline
<1>2. Stages'
  BY DEF TextInv, Stages, textVars
<1>3. QED
  BY <1>1, <1>2 DEF TextInv

(* A key of the input line.                                                *)
LEMMA LineKeyKeeps ==
  ASSUME TextInv, ~handling, UNCHANGED dialog,
         Backspace \/ \E c \in Chars \ {Newline} : Insert(c)
  PROVE  TextInv'
<1>1. /\ text' \in Seq(Chars) /\ Len(text') <= BufSize - 1
      /\ cursor' = Len(text') /\ NoNewline(text')
  BY InsertKeeps, BackspaceKeeps
<1>2. UNCHANGED <<handling, field, sent>>
  BY DEF Insert, Backspace
<1>3. TextOK' /\ NoNewline(text)'
  BY <1>1, <1>2 DEF TextInv, TextOK, NoNewline
<1>4. sent.from \notin {"line", "run"}
  BY DEF TextInv, Stages
<1>5. Stages' /\ SentWhole'
  BY <1>2, <1>4 DEF TextInv, Stages, SentWhole
<1>6. QED
  BY <1>3, <1>5 DEF TextInv

LEMMA ClearedKeeps ==
  ASSUME TextInv, LineCleared
  PROVE  TextInv'
<1>1. /\ << >> \in Seq(Chars) /\ Len(<< >>) = 0 /\ BufSize - 1 >= 0
  BY EmptySeq, TextAssumption
<1>2. /\ text' = << >> /\ cursor' = 0 /\ handling' = FALSE /\ field' = field
      /\ sent' = [from |-> "none", bytes |-> << >>]
  BY DEF LineCleared, Nothing
<1>3. TextOK'
  BY <1>1, <1>2 DEF TextInv, TextOK
<1>4. Stages' /\ SentWhole' /\ NoNewline(text)'
  BY <1>1, <1>2 DEF Stages, SentWhole, NoNewline
<1>5. QED
  BY <1>3, <1>4 DEF TextInv

LEMMA CommandKeeps ==
  ASSUME TextInv, Command
  PROVE  TextInv'
<1> DEFINE cmd == ToUpper(text)
<1>1. /\ cmd \in Seq(Chars) /\ Len(cmd) = Len(text) /\ NoNewline(cmd)
  BY UpperText DEF TextInv, TextOK
<1>2. Len(cmd) <= BufSize - 1
  BY <1>1 DEF TextInv, TextOK
<1>3. /\ text' = cmd /\ handling' = TRUE /\ UNCHANGED <<cursor, field>>
      /\ sent' = [from |-> IF StartsWith(cmd, Run) THEN "run" ELSE "line",
                  bytes |-> CommandBytes(cmd)]
      /\ dialog' = "none"
  BY DEF Command, EnterCommand, Send, Reading, vars
<1> HIDE DEF cmd
<1>4. /\ CommandBytes(cmd) \in Seq(Chars)
      /\ StartsWith(cmd, Run) => CommandBytes(cmd) = Line(Start \o After(cmd, Run))
      /\ ~StartsWith(cmd, Run) => CommandBytes(cmd) = Line(cmd)
  BY <1>1, <1>2, CommandFits
<1>5. TextOK' /\ NoNewline(text)'
  BY <1>1, <1>2, <1>3, <1>4 DEF TextInv, TextOK, NoNewline
<1>6. Stages'
  BY <1>3 DEF Stages
<1>7. SentWhole'
  BY <1>3, <1>4 DEF SentWhole
<1>8. QED
  BY <1>5, <1>6, <1>7 DEF TextInv

LEMMA ExitKeeps ==
  ASSUME TextInv, CommandExit
  PROVE  TextInv'
<1>1. /\ << >> \in Seq(Chars) /\ Len(<< >>) = 0 /\ BufSize - 1 >= 0
      /\ Line(Exit) \in Seq(Chars)
  BY EmptySeq, TextAssumption, WordText, LineText
<1>2. /\ text' = << >> /\ cursor' = 0 /\ UNCHANGED <<handling, field, dialog>>
      /\ sent' = [from |-> "exit", bytes |-> Line(Exit)] /\ ~handling
  BY DEF CommandExit, EnterExit, Send, Reading, vars
<1>3. TextOK'
  BY <1>1, <1>2 DEF TextInv, TextOK
<1>4. Stages' /\ SentWhole' /\ NoNewline(text)'
  BY <1>1, <1>2 DEF TextInv, Stages, SentWhole, NoNewline
<1>5. QED
  BY <1>3, <1>4 DEF TextInv

LEMMA HelpKeeps ==
  ASSUME TextInv, CommandHelp
  PROVE  TextInv'
<1>1. /\ Help \in Seq(Chars) /\ NoNewline(Help) /\ Len(Help) = Len(text)
  BY WordText, UpperText DEF CommandHelp, EnterHelp, TextInv, TextOK
<1>2. /\ text' = Help /\ UNCHANGED <<cursor, field, sent>> /\ handling' = TRUE
      /\ dialog' = "help" /\ dialog = "none" /\ ~handling
  BY DEF CommandHelp, EnterHelp, Reading
<1>3. TextOK' /\ NoNewline(text)'
  BY <1>1, <1>2 DEF TextInv, TextOK, NoNewline
<1>4. sent.from \notin {"line", "run", "field"}
  BY <1>2 DEF TextInv, Stages
<1>5. Stages' /\ SentWhole'
  BY <1>2, <1>4 DEF TextInv, Stages, SentWhole
<1>6. QED
  BY <1>3, <1>5 DEF TextInv

(* A key of the F2 dialog's field.                                         *)
LEMMA FieldKeyKeeps ==
  ASSUME TextInv, Filling, UNCHANGED dialog,
         FieldBackspace \/ \E c \in Chars : FieldInsert(c)
  PROVE  TextInv'
<1>1. field' \in Seq(Chars) /\ Len(field') <= BufSize - 1
  BY FieldInsertKeeps, FieldBackspaceKeeps
<1>2. UNCHANGED <<text, cursor, handling, sent>>
  BY DEF FieldInsert, FieldBackspace
<1>3. sent.from = "none"
  BY DEF Filling, Nothing
<1>4. TextOK' /\ NoNewline(text)'
  BY <1>1, <1>2 DEF TextInv, TextOK, NoNewline
<1>5. Stages' /\ SentWhole'
  BY <1>2, <1>3 DEF TextInv, Stages, SentWhole
<1>6. QED
  BY <1>4, <1>5 DEF TextInv

LEMMA FieldEnterKeeps ==
  ASSUME TextInv, Filling, UNCHANGED dialog, FieldEnter
  PROVE  TextInv'
<1>1. /\ Line(Start \o field) \in Seq(Chars)
      /\ Fit(Line(Start \o field), BufSize + 8) = Line(Start \o field)
  BY FieldFits DEF TextInv, TextOK
<1>2. /\ UNCHANGED <<text, cursor, handling, field>>
      /\ sent' = [from |-> "field", bytes |-> Line(Start \o field)]
      /\ dialog' = "run"
  BY <1>1 DEF FieldEnter, Send, Filling
<1>3. TextOK' /\ NoNewline(text)'
  BY <1>1, <1>2 DEF TextInv, TextOK, NoNewline
<1>4. Stages' /\ SentWhole'
  BY <1>1, <1>2 DEF TextInv, Stages, SentWhole, Filling
<1>5. QED
  BY <1>3, <1>4 DEF TextInv

LEMMA FieldGoneKeeps ==
  ASSUME TextInv, dialog = "run", dialog' = "none", FieldGone
  PROVE  TextInv'
<1>1. /\ << >> \in Seq(Chars) /\ Len(<< >>) = 0 /\ BufSize - 1 >= 0
  BY EmptySeq, TextAssumption
<1>2. /\ UNCHANGED <<text, cursor, handling>> /\ field' = << >>
      /\ sent' = [from |-> "none", bytes |-> << >>]
  BY DEF FieldGone, Nothing
<1>3. TextOK' /\ NoNewline(text)'
  BY <1>1, <1>2 DEF TextInv, TextOK, NoNewline
<1>4. Stages' /\ SentWhole'
  BY <1>2 DEF TextInv, Stages, SentWhole
<1>5. QED
  BY <1>3, <1>4 DEF TextInv

LEMMA TextStep == TextInv /\ [KeysNext]_keyVars => TextInv'
<1> SUFFICES ASSUME TextInv, [KeysNext]_keyVars PROVE TextInv'
  OBVIOUS
<1>0. /\ Typed \subseteq Chars \ {Newline}
      /\ \A k \in DOMAIN LowByte :
           LowByte[k] \in Chars /\ (LowByte[k] = Newline => k = "f2")
      /\ "resize" \in DOMAIN LowByte
  BY TextAssumption, KeysAssumption
<1>1. CASE \/ ConnectDialogEnds \/ KeyResize \/ KeyTab \/ Scroll(-1)
           \/ Scroll(1) \/ Polled \/ PollLost \/ KeyF1 \/ KeyF2
           \/ UNCHANGED keyVars
  <2>1. UNCHANGED textVars
    BY <1>1 DEF ConnectDialogEnds, KeyResize, KeyTab, Scroll, Polled,
                PollLost, KeyF1, KeyF2, keyVars
  <2>2. \/ UNCHANGED dialog
        \/ dialog = "connect"
        \/ ~handling /\ dialog = "none"
    BY <1>1 DEF ConnectDialogEnds, Connected, KeyResize, Resize, KeyTab, Tab,
                Scroll, Arrow, Polled, AsyncAnswer, PollLost, KeyF1, KeyF2,
                Reading, keyVars, vars
  <2>3. QED
    BY <2>1, <2>2, OtherKeyKeeps
<1>2. CASE KeyChar \/ KeyBackspace
  BY <1>0, <1>2, LineKeyKeeps DEF KeyChar, KeyBackspace, Reading, vars
<1>3. CASE KeyOdd
  <2>1. PICK k \in OddKeys : OddKey(k)
    BY <1>3 DEF KeyOdd
  <2>2. LowByte[k] \in Chars \ {Newline}
    BY <1>0, <2>1 DEF OddKeys
  <2>3. ~handling /\ UNCHANGED dialog
    BY <1>3 DEF KeyOdd, Reading, vars
  <2>4. QED
    BY <2>1, <2>2, <2>3, LineKeyKeeps, OtherKeyKeeps DEF OddKey
<1>4. CASE Command \/ CommandExit \/ CommandHelp
  BY <1>4, CommandKeeps, ExitKeeps, HelpKeeps
<1>5. CASE Answered \/ NotAnswered
  BY <1>5, ClearedKeeps DEF Answered, NotAnswered
<1>6. CASE AwaitLost
  BY <1>6, ClearedKeeps DEF AwaitLost, vars
<1>7. CASE HelpEnds
  <2>1. LineCleared \/ (~handling /\ UNCHANGED textVars)
    BY <1>7 DEF HelpEnds, HelpReturns
  <2>2. CASE ~handling /\ UNCHANGED textVars
    <3>1. sent.from \notin {"line", "run", "field"}
      BY <1>7, <2>2 DEF TextInv, Stages, HelpEnds
    <3>2. TextOK' /\ NoNewline(text)' /\ SentWhole' /\ Stages'
      BY <2>2, <3>1 DEF TextInv, TextOK, SentWhole, Stages, textVars, NoNewline
    <3>3. QED
      BY <3>2 DEF TextInv
  <2>3. QED
    BY <2>1, <2>2, ClearedKeeps
<1>8. CASE FieldKey
  <2>1. Filling /\ UNCHANGED dialog
    BY <1>8 DEF FieldKey, vars
  <2>2. CASE FieldEnter
    BY <2>1, <2>2, FieldEnterKeeps
  <2>3. CASE FieldBackspace \/ \E c \in Chars : FieldInsert(c)
    BY <2>1, <2>3, FieldKeyKeeps
  <2>4. CASE UNCHANGED textVars
    BY <2>1, <2>4, OtherKeyKeeps
  <2>5. FieldEnter \/ FieldBackspace \/ UNCHANGED textVars
          \/ \E c \in Chars : FieldInsert(c)
    BY <1>0, <1>8 DEF FieldKey, FieldOddKey
  <2>6. QED
    BY <2>2, <2>3, <2>4, <2>5
<1>9. CASE FieldEnds
  BY <1>9, FieldGoneKeeps DEF FieldEnds, CloseDialog
<1>10. CASE DialogResized
  <2>1. CASE dialog = "help" /\ HelpReturns
    <3>1. CASE handling
      BY <2>1, <3>1, ClearedKeeps DEF HelpReturns
    <3>2. CASE ~handling
      <4>1. UNCHANGED textVars
        BY <2>1, <3>2 DEF HelpReturns
      <4>2. sent.from \notin {"line", "run", "field"}
        BY <2>1, <3>2 DEF TextInv, Stages
      <4>3. TextOK' /\ NoNewline(text)' /\ SentWhole' /\ Stages'
        BY <3>2, <4>1, <4>2
           DEF TextInv, TextOK, SentWhole, Stages, textVars, NoNewline
      <4>4. QED
        BY <4>3 DEF TextInv
    <3>3. QED
      BY <3>1, <3>2
  <2>2. CASE Filling /\ FieldOddKey("resize")
    <3>1. UNCHANGED dialog
      BY <1>10, <2>2 DEF DialogResized, ResizeInDialog, Filling
    <3>2. UNCHANGED textVars \/ \E c \in Chars : FieldInsert(c)
      BY <1>0, <2>2 DEF FieldOddKey
    <3>3. QED
      BY <2>2, <3>1, <3>2, FieldKeyKeeps, OtherKeyKeeps
  <2>3. CASE dialog = "connect" /\ UNCHANGED textVars
    BY <2>3, OtherKeyKeeps
  <2>4. QED
    BY <1>10, <2>1, <2>2, <2>3 DEF DialogResized
<1>11. QED
  BY <1>1, <1>2, <1>3, <1>4, <1>5, <1>6, <1>7, <1>8, <1>9, <1>10 DEF KeysNext

LEMMA TextAlways == KeysSpec => []TextInv
BY TextInitially, TextStep, PTL DEF KeysSpec

(* The line, the cursor and the field keep their types and leave room for  *)
(* the NUL.                                                                *)
THEOREM TextCorrect == KeysSpec => []TextOK
BY TextAlways, PTL DEF TextInv

(* What is sent is the whole command.                                      *)
THEOREM WholeCommands == KeysSpec => []SentWhole
BY TextAlways, PTL DEF TextInv

(* What the input line sends is one command.                               *)
THEOREM SingleCommands == KeysSpec => []OneCommand
<1>1. TextInv => OneCommand
  <2> SUFFICES ASSUME TextInv, sent.from \in {"line", "run", "exit"}
               PROVE  \A i \in 1..Len(sent.bytes) :
                        sent.bytes[i] = Newline <=> i = Len(sent.bytes)
    BY DEF OneCommand
  <2>1. text \in Seq(Chars) /\ NoNewline(text) /\ SentWhole /\ Stages
    BY DEF TextInv, TextOK
  <2>2. CASE sent.from = "line"
    BY <2>1, <2>2, LineText DEF SentWhole
  <2>3. CASE sent.from = "run"
    <3>1. After(text, Run) \in Seq(Chars) /\ NoNewline(After(text, Run))
      BY <2>1, <2>3, AfterText, WordText DEF Stages
    <3>2. /\ Start \o After(text, Run) \in Seq(Chars)
          /\ NoNewline(Start \o After(text, Run))
      BY <3>1, JoinText, WordText
    <3>3. QED
      BY <2>1, <2>3, <3>2, LineText DEF SentWhole
  <2>4. CASE sent.from = "exit"
    BY <2>1, <2>4, LineText, WordText DEF SentWhole
  <2>5. QED
    BY <2>2, <2>3, <2>4
<1>2. QED
  BY <1>1, TextAlways, PTL

(* Nothing but the keys typed on it and the end of its command changes the *)
(* line.                                                                   *)
THEOREM LineStays == KeysSpec => LineUndisturbed
<1> DEFINE Step == text' # text =>
                     \/ handling
                     \/ dialog = "none" /\ UNCHANGED <<lines, layout, focus, count, offset>>
<1>1. ASSUME [KeysNext]_keyVars PROVE Step
  <2>1. CASE \/ ConnectDialogEnds \/ KeyResize \/ KeyTab \/ Scroll(-1)
             \/ Scroll(1) \/ Polled \/ PollLost \/ KeyF1 \/ KeyF2
             \/ UNCHANGED keyVars
    BY <2>1 DEF ConnectDialogEnds, KeyResize, KeyTab, Scroll, Polled,
                PollLost, KeyF1, KeyF2, keyVars, textVars
  <2>2. CASE \/ KeyChar \/ KeyBackspace \/ KeyOdd \/ Command \/ CommandExit
    BY <2>2 DEF KeyChar, KeyBackspace, KeyOdd, Command, CommandExit, Reading, vars
  <2>3. CASE CommandHelp
    BY <2>3 DEF CommandHelp, OpenDialog
  <2>4. CASE Answered \/ NotAnswered \/ AwaitLost
    BY <2>4 DEF Answered, NotAnswered, AwaitLost, textVars
  <2>5. CASE HelpEnds \/ DialogResized
    BY <2>5 DEF HelpEnds, DialogResized, HelpReturns, FieldOddKey, FieldInsert,
                textVars
  <2>6. CASE FieldKey \/ FieldEnds
    BY <2>6 DEF FieldKey, FieldEnds, FieldInsert, FieldBackspace, FieldOddKey,
                FieldEnter, FieldGone, textVars
  <2>7. QED
    BY <1>1, <2>1, <2>2, <2>3, <2>4, <2>5, <2>6 DEF KeysNext
<1>2. LineUndisturbed <=> [][Step]_keyVars
  BY DEF LineUndisturbed
<1>3. QED
  BY <1>1, <1>2, PTL DEF KeysSpec

-----------------------------------------------------------------------------
(* What reaches the server of a START typed on the line.                   *)

(* A text is its first word and what comes after it.                       *)
LEMMA WordAndRest ==
  ASSUME NEW s \in Seq(Chars), NEW w \in Seq(Chars), StartsWith(s, w)
  PROVE  w \o After(s, w) = s
<1> DEFINE a == After(s, w)
<1>1. /\ a \in Seq(Chars) /\ Len(a) = Len(s) - Len(w)
      /\ Len(s) \in Nat /\ Len(w) \in Nat /\ Len(w) <= Len(s)
  BY AfterText, LenProperties DEF StartsWith
<1>2. /\ \A i \in 1..Len(w) : w[i] = s[i]
      /\ \A i \in 1..Len(a) : a[i] = s[Len(w) + i]
  <2>1. Len(w) \in 0..Len(s)
    BY <1>1
  <2>2. \A i \in 1..Len(w) : i \in 1..Len(s) /\ s[i] \in Chars
    BY <1>1, ElementOfSeq
  <2>3. \A i \in 1..Len(w) : SubSeq(s, 1, Len(w))[i] = s[i]
    <3> DEFINE n == Len(w)
    <3>1. n \in Nat /\ \A i \in 1..n : s[i] \in Chars
      BY <1>1, <2>2
    <3> HIDE DEF n
    <3>2. \A i \in 1..n - 1 + 1 : SubSeq(s, 1, n)[i] = s[1 + i - 1]
      BY <3>1, SubSeqProperties
    <3>3. \A i \in 1..n : SubSeq(s, 1, n)[i] = s[i]
      BY <3>1, <3>2
    <3>4. QED
      BY <3>3 DEF n
  <2>4. \A i \in 1..Len(a) : a[i] = s[Len(w) + i]
    <3> DEFINE n == Len(s)
               m == Len(w) + 1
    <3>1. /\ n \in Nat /\ m \in 1..(n + 1) /\ Len(a) = n - m + 1
          /\ \A i \in m..n : s[i] \in Chars
      BY <1>1, ElementOfSeq
    <3>2. a = SubSeq(s, m, n)
      BY DEF After
    <3>3. m = Len(w) + 1
      OBVIOUS
    <3> HIDE DEF n, m, a
    <3>4. \A i \in 1..n - m + 1 : SubSeq(s, m, n)[i] = s[m + i - 1]
      BY <3>1, SubSeqProperties
    <3>5. QED
      BY <1>1, <3>1, <3>2, <3>3, <3>4
  <2>5. SubSeq(s, 1, Len(w)) = w
    BY DEF StartsWith
  <2>6. QED
    BY <2>3, <2>4, <2>5
<1> HIDE DEF a
<1>3. /\ w \o a \in Seq(Chars)
      /\ Len(w \o a) = Len(s)
      /\ \A i \in 1..Len(s) :
           (w \o a)[i] = IF i <= Len(w) THEN w[i] ELSE a[i - Len(w)]
  BY <1>1, ConcatProperties
<1>4. \A i \in 1..Len(s) : (w \o a)[i] = s[i]
  BY <1>1, <1>2, <1>3
<1>5. w \o a = s
  BY <1>3, <1>4, SeqEqual
<1>6. QED
  BY <1>5 DEF a

(* A line is sent by Command only: the whole text, in upper case.          *)
LEMMA LineSent ==
  ASSUME TextInv, [KeysNext]_keyVars, sent' # sent, sent'.from = "line"
  PROVE  sent'.bytes = Line(ToUpper(text))
<1>1. CASE \/ ConnectDialogEnds \/ KeyResize \/ KeyTab \/ Scroll(-1)
           \/ Scroll(1) \/ Polled \/ PollLost \/ KeyF1 \/ KeyF2
           \/ UNCHANGED keyVars
  BY <1>1 DEF ConnectDialogEnds, KeyResize, KeyTab, Scroll, Polled,
              PollLost, KeyF1, KeyF2, keyVars, textVars
<1>2. CASE KeyChar \/ KeyBackspace \/ KeyOdd
  BY <1>2 DEF KeyChar, KeyBackspace, KeyOdd, Insert, Backspace, OddKey, textVars
<1>3. CASE CommandExit \/ CommandHelp
  BY <1>3 DEF CommandExit, CommandHelp, EnterExit, EnterHelp, Send
<1>4. CASE Answered \/ NotAnswered \/ AwaitLost \/ HelpEnds
  BY <1>4 DEF Answered, NotAnswered, AwaitLost, HelpEnds, HelpReturns, LineCleared,
              Nothing, textVars
<1>5. CASE DialogResized \/ FieldKey \/ FieldEnds
  BY <1>5 DEF DialogResized, FieldKey, FieldEnds, HelpReturns, LineCleared,
              Nothing, FieldInsert, FieldBackspace, FieldOddKey, FieldEnter,
              FieldGone, Send, textVars
<1>6. CASE Command
  <2> DEFINE cmd == ToUpper(text)
  <2>1. text \in Seq(Chars) /\ Len(text) <= BufSize - 1
    BY DEF TextInv, TextOK
  <2>2. cmd \in Seq(Chars) /\ Len(cmd) = Len(text)
    BY <2>1, UpperText
  <2>3. sent' = [from |-> IF StartsWith(cmd, Run) THEN "run" ELSE "line",
                 bytes |-> CommandBytes(cmd)]
    BY <1>6 DEF Command, EnterCommand, Send
  <2> HIDE DEF cmd
  <2>4. ~StartsWith(cmd, Run)
    BY <2>3
  <2>5. sent'.bytes = Line(cmd)
    BY <2>1, <2>2, <2>3, <2>4, CommandFits
  <2>6. QED
    BY <2>5 DEF cmd
<1>7. QED
  BY <1>1, <1>2, <1>3, <1>4, <1>5, <1>6 DEF KeysNext

(* Only the case of a command is changed on its way: what is sent for a    *)
(* text that starts with START, in whatever case it was typed, is START    *)
(* and the rest of the text, in upper case, and the newline.               *)
StartSentStep ==
  sent' # sent /\ sent'.from = "line" /\ StartsWith(ToUpper(text), Start)
    => sent'.bytes = Line(Start \o After(ToUpper(text), Start))

THEOREM OnlyCaseChanges == KeysSpec => [][StartSentStep]_keyVars
<1>1. ASSUME TextInv, [KeysNext]_keyVars, sent' # sent, sent'.from = "line",
             StartsWith(ToUpper(text), Start)
      PROVE  sent'.bytes = Line(Start \o After(ToUpper(text), Start))
  <2>1. ToUpper(text) \in Seq(Chars) /\ Start \in Seq(Chars)
    BY <1>1, UpperText, WordText DEF TextInv, TextOK
  <2>2. Start \o After(ToUpper(text), Start) = ToUpper(text)
    BY <1>1, <2>1, WordAndRest
  <2>3. QED
    BY <1>1, <2>2, LineSent
<1>2. TextInv /\ [KeysNext]_keyVars => StartSentStep
  BY <1>1 DEF StartSentStep
<1>3. QED
  BY <1>2, TextAlways, PTL DEF KeysSpec

(* So a START typed in upper case reaches the server as the README says.   *)
THEOREM UpperCaseAsTyped ==
  KeysSpec /\ [](ToUpper(text) = text) => CommandAsTyped
<1> DEFINE AsTyped ==
      sent' # sent /\ sent'.from = "line" /\ StartsWith(ToUpper(text), Start)
        => sent'.bytes = Line(Start \o After(text, Start))
<1>1. StartSentStep /\ ToUpper(text) = text => AsTyped
  BY DEF StartSentStep
<1>2. [StartSentStep]_keyVars /\ ToUpper(text) = text => [AsTyped]_keyVars
  BY <1>1
<1>3. CommandAsTyped <=> [][AsTyped]_keyVars
  BY DEF CommandAsTyped
<1>4. QED
  BY <1>2, <1>3, OnlyCaseChanges, PTL
=============================================================================
