------------------------------- MODULE Panels -------------------------------
(***************************************************************************)
(* The client's screen (panels.c, and the keys of tui_run in tui.c): the   *)
(* heights of the three panels, the focus, the modal dialogs, and the      *)
(* scrolling of a process list that other events replace at any moment.    *)
(* ncurses is external: a resize of the terminal reaches the program as    *)
(* KEY_RESIZE in whichever wgetch is waiting, with LINES already updated.  *)
(***************************************************************************)
EXTENDS Integers

CONSTANTS Heights,   \* heights the terminal can have
          MaxRows    \* bound: processes in the list

ASSUME ConstantsAssumption ==
  /\ Heights \subseteq Nat \ {0}
  /\ MaxRows \in Nat

VARIABLES lines,    \* LINES
          layout,   \* heights of the panels
          focus,    \* layout->focused: 0 processes, 1 input
          count,    \* proc_list.count
          offset,   \* proc_scroll_offset
          dialog    \* the modal dialog that reads the keys, if any

vars == <<lines, layout, focus, count, offset, dialog>>

StatusHeight == 3
InputHeight == 5

AtLeast(low, x) == IF x < low THEN low ELSE x

(***************************************************************************)
(* panels_calc_dimensions: the process panel gets what the other two leave,*)
(* at least 60% if the input panel can shrink (it cannot: 5 is its least), *)
(* and never less than 2 rows.                                             *)
(***************************************************************************)
SixtyPercent(l) == (l * 60 + 99) \div 100

Layout(l) ==
  LET rest == l - InputHeight - StatusHeight
      shrunk == l - SixtyPercent(l) - StatusHeight
      input == IF rest < SixtyPercent(l) THEN AtLeast(5, shrunk) ELSE InputHeight
  IN [proc |-> AtLeast(2, l - input - StatusHeight),
      input |-> input,
      status |-> StatusHeight]

(***************************************************************************)
(* scroll_clamp                                                            *)
(***************************************************************************)
MaxOffset(total, visible) == AtLeast(0, total - visible)

\* mutants: no lower bound, no upper bound
ScrollNoTop(current, delta, total, visible) ==
  IF current + delta > MaxOffset(total, visible) THEN MaxOffset(total, visible)
                                                 ELSE current + delta
ScrollNoEnd(current, delta, total, visible) == AtLeast(0, current + delta)

ScrollClamp(current, delta, total, visible) ==
  LET moved == AtLeast(0, current + delta) IN
  IF moved > MaxOffset(total, visible) THEN MaxOffset(total, visible) ELSE moved

\* rows of the list the panel shows: without borders and header
Visible == layout.proc - 3

(***************************************************************************)
(* tui_init, then the connection dialog.                                   *)
(***************************************************************************)
Init ==
  /\ lines \in Heights
  /\ layout = Layout(lines)
  /\ focus = 1
  /\ count = 0
  /\ offset = 0
  /\ dialog = "connect"

\* the dialog ends connected; the answer to its LIST may have come
Connected ==
  /\ dialog = "connect"
  /\ dialog' = "none"
  /\ count' \in 0..MaxRows
  /\ offset' = 0
  /\ UNCHANGED <<lines, layout, focus>>

\* KEY_RESIZE in tui_run: panels_resize
Resize ==
  /\ dialog = "none"
  /\ lines' \in Heights \ {lines}
  /\ layout' = Layout(lines')
  /\ UNCHANGED <<focus, count, offset, dialog>>

\* KEY_RESIZE in a dialog's wgetch: any key ends the help, the two others
\* ignore it; the panels keep the layout of the old height
ResizeInDialog ==
  /\ dialog # "none"
  /\ lines' \in Heights \ {lines}
  /\ dialog' = IF dialog = "help" THEN "none" ELSE dialog
  /\ UNCHANGED <<layout, focus, count, offset>>

Tab ==
  /\ dialog = "none"
  /\ focus' = 1 - focus
  /\ UNCHANGED <<lines, layout, count, offset, dialog>>

\* mutant: an arrow key scrolls by a page
ArrowByPage(delta) ==
  /\ dialog = "none"
  /\ focus = 0
  /\ offset' = ScrollClamp(offset, delta * Visible, count, Visible)
  /\ UNCHANGED <<lines, layout, focus, count, dialog>>

\* arrow keys; without the focus they go to the input line, not modelled here
Arrow(delta) ==
  /\ dialog = "none"
  /\ focus = 0
  /\ offset' = ScrollClamp(offset, delta, count, Visible)
  /\ UNCHANGED <<lines, layout, focus, count, dialog>>

\* F1 or HELP; F2
OpenDialog ==
  /\ dialog = "none"
  /\ dialog' \in {"help", "run"}
  /\ UNCHANGED <<lines, layout, focus, count, offset>>

CloseDialog ==
  /\ dialog \in {"help", "run"}
  /\ dialog' = "none"
  /\ UNCHANGED <<lines, layout, focus, count, offset>>

\* handle_command has read an answer: the list is replaced, the view goes up
CommandAnswer ==
  /\ dialog = "none"
  /\ count' \in 0..MaxRows
  /\ offset' = 0
  /\ UNCHANGED <<lines, layout, focus, dialog>>

\* tui_run's poll has read an answer: the list is replaced, nothing else
AsyncAnswer ==
  /\ dialog = "none"
  /\ count' \in 0..MaxRows
  /\ UNCHANGED <<lines, layout, focus, offset, dialog>>

Next ==
  \/ Connected
  \/ Resize \/ ResizeInDialog
  \/ Tab \/ Arrow(-1) \/ Arrow(1)
  \/ OpenDialog \/ CloseDialog
  \/ CommandAnswer \/ AsyncAnswer

Spec == Init /\ [][Next]_vars

-----------------------------------------------------------------------------
(* The types of LINES, TUILayout and the list's counters.                  *)
TypeOK ==
  /\ lines \in Heights
  /\ layout \in [proc : Nat, input : Nat, status : Nat]
  /\ focus \in {0, 1}
  /\ count \in 0..MaxRows
  /\ offset \in Nat
  /\ dialog \in {"none", "connect", "help", "run"}

InRange == offset \in 0..MaxOffset(count, Visible)

(* Refreshes and resizes may leave the offset beyond the end of the list,  *)
(* but whenever the code moves it, with scroll_clamp or to the top, it     *)
(* lands in [0, max(0, N - H)] for the list and the panel of that moment.  *)
ScrollLands == [][offset' # offset => InRange']_vars

(* An arrow key moves the view by more than a row only to bring an offset  *)
(* that a refresh or a resize left behind back to the end of the list.     *)
ScrollStepwise ==
  [][offset' \notin {offset - 1, offset, offset + 1, 0} => ~InRange]_vars
=============================================================================
