----------------------------- MODULE ClientLife -----------------------------
(***************************************************************************)
(* The client's life (main.c, tui_init, tui_shutdown and the blocks of     *)
(* tui.c that replace the list): what it allocates and frees, the mode of  *)
(* the terminal, and Ctrl+C, whose handler runs tui_shutdown on whatever   *)
(* the interrupted flow has left and ends the program.                     *)
(*                                                                         *)
(* The allocator is external.  Freeing an object twice, and calling the    *)
(* allocator or curses from a handler that has interrupted it, are         *)
(* undefined: the program aborts, hangs or goes on.  Curses is external    *)
(* too: initscr installs a handler of its own, which restores the terminal *)
(* and exits.                                                              *)
(* SIGINT is blocked while its handler runs.                               *)
(***************************************************************************)
EXTENDS Naturals

Object == {"state", "layout", "lines", "entries"}

VARIABLES
  pc,        \* where the main flow is
  then,      \* where it goes when the list has been released or replaced
  heap,      \* the pointer to each object: null, live or (dangling) freed
  global,    \* g_state is set
  term,      \* normal | curses
  handler,   \* what SIGINT does: default | curses | own
  sock,      \* none | open | closed
  exit,      \* running | clean | failed | killed | aborted | hung
  hit        \* auxiliary: where SIGINT found the main flow, "no" if nowhere

vars == <<pc, then, heap, global, term, handler, sock, exit, hit>>

\* the main flow waits for a key, the socket or a timer
Waiting == {"dialog", "run"}
\* steps that are calls of the allocator, or draw with curses
Unsafe == {"windows", "draw", "freeLines", "newLines", "freeEntries", "parse",
           "grow", "destroy", "endLines", "freeState"}
Place == Waiting \cup Unsafe \cup
         {"start", "screen", "ready", "nullEntries", "grown",
          "endwin", "close", "forget", "return"}

Init ==
  /\ pc = "start" /\ then = "run"
  /\ heap = [o \in Object |-> "null"]
  /\ global = FALSE
  /\ term = "normal" /\ handler = "default" /\ sock = "none"
  /\ exit = "running" /\ hit = "no"

At(place) == exit = "running" /\ pc = place

Go(place) == pc' = place /\ UNCHANGED <<exit, hit>>

\* the pointer keeps its value; a second free of the same block aborts
Free(o, place) ==
  /\ IF heap[o] = "freed"
       THEN exit' = "aborted" /\ UNCHANGED <<pc, heap, hit>>
       ELSE /\ heap' = IF heap[o] = "live" THEN [heap EXCEPT ![o] = "freed"]
                                           ELSE heap
            /\ Go(place)

Assign(o, value, place) ==
  /\ heap' = [heap EXCEPT ![o] = value]
  /\ Go(place)

(***************************************************************************)
(* tui_init and the first lines of main.                                   *)
(***************************************************************************)
Initscr ==
  /\ At("start")
  /\ Assign("state", "live", "screen")
  /\ term' = "curses" /\ handler' = "curses"
  /\ UNCHANGED <<then, global, sock>>

PanelsCreate ==
  /\ At("screen")
  /\ Assign("layout", "live", "ready")
  /\ UNCHANGED <<then, global, term, handler, sock>>

\* calloc fails before initscr, or panels_create returns NULL: endwin,
\* free(state); EXIT_FAILURE
InitFails ==
  /\ \/ At("start") /\ UNCHANGED heap
     \/ At("screen") /\ heap' = [heap EXCEPT !["state"] = "freed"]
  /\ term' = "normal"
  /\ exit' = "failed"
  /\ UNCHANGED <<pc, then, global, handler, sock, hit>>

Install ==
  /\ At("ready")
  /\ global' = TRUE /\ handler' = "own"
  /\ Go("dialog")
  /\ UNCHANGED <<then, heap, term, sock>>

(***************************************************************************)
(* The connection dialog and tui_run.                                      *)
(***************************************************************************)
\* the answer to the dialog's LIST may come, or not
Connect ==
  /\ At("dialog")
  /\ sock' = "open"
  /\ then' = "run"
  /\ \E place \in {"run", "freeLines"} : Go(place)
  /\ UNCHANGED <<heap, global, term, handler>>

\* the poll or handle_command has received a list
NewList ==
  /\ At("run")
  /\ then' = "run"
  /\ Go("freeLines")
  /\ UNCHANGED <<heap, global, term, handler, sock>>

\* from a place that waits to another and back
Detour(place) ==
  /\ \/ pc \in Waiting /\ At(pc) /\ then' = pc /\ Go(place)
     \/ At(place) /\ then' = "run" /\ Go(then)
  /\ UNCHANGED <<heap, global, term, handler, sock>>

\* panels_resize, and the windows of the dialogs
Windows == Detour("windows")

\* the panels, the dialogs and the status bar
Draw == Detour("draw")

\* ESC in the dialog, EXIT, a lost connection
Leave ==
  /\ \E place \in Waiting : At(place)
  /\ Go("destroy")
  /\ UNCHANGED <<then, heap, global, term, handler, sock>>

\* net_send to a connection that was reset: SIGPIPE
Sigpipe ==
  /\ At("run") /\ sock = "open"
  /\ exit' = "killed"
  /\ UNCHANGED <<pc, then, heap, global, term, handler, sock, hit>>

(***************************************************************************)
(* The list is replaced: proc_lines, then process_list_free and            *)
(* process_list_parse.  malloc may fail.                                   *)
(***************************************************************************)
others == <<then, global, term, handler, sock>>

FreeLines ==
  /\ At("freeLines") /\ Free("lines", "newLines")
  /\ UNCHANGED others

\* mutant: a failed malloc does not overwrite the old pointer
NewLinesIfAny ==
  /\ At("newLines")
  /\ \E value \in {"live", heap["lines"]} : Assign("lines", value, "freeEntries")
  /\ UNCHANGED others

NewLines ==
  /\ At("newLines")
  /\ \E value \in {"live", "null"} : Assign("lines", value, "freeEntries")
  /\ UNCHANGED others

AfterEntries == IF then = "end" THEN "freeState" ELSE "parse"

FreeEntries ==
  /\ At("freeEntries")
  /\ Free("entries", IF heap["entries"] = "null" THEN AfterEntries
                                                 ELSE "nullEntries")
  /\ UNCHANGED others

NullEntries ==
  /\ At("nullEntries")
  /\ Assign("entries", "null", AfterEntries)
  /\ UNCHANGED others

\* the array is allocated, unless malloc fails, and may have to grow
Parse ==
  /\ At("parse")
  /\ \/ Assign("entries", "live", "grow")
     \/ Assign("entries", "null", "run")
  /\ UNCHANGED others

\* realloc may move the array (or fail, and leave it)
Grow ==
  /\ At("grow")
  /\ \/ Assign("entries", "freed", "grown")
     \/ Go("run") /\ UNCHANGED heap
  /\ UNCHANGED others

Grown ==
  /\ At("grown")
  /\ Assign("entries", "live", "grow")
  /\ UNCHANGED others

(***************************************************************************)
(* tui_shutdown, called by main.                                           *)
(***************************************************************************)
Destroy ==
  /\ At("destroy") /\ Free("layout", "endwin")
  /\ then' = "end"
  /\ UNCHANGED <<global, term, handler, sock>>

Endwin ==
  /\ At("endwin") /\ Go("close")
  /\ term' = "normal"
  /\ UNCHANGED <<then, heap, global, handler, sock>>

Closed == IF sock = "open" THEN "closed" ELSE sock

Close ==
  /\ At("close") /\ Go("endLines")
  /\ sock' = Closed
  /\ UNCHANGED <<then, heap, global, term, handler>>

EndLines ==
  /\ At("endLines") /\ Free("lines", "freeEntries")
  /\ UNCHANGED others

FreeState ==
  /\ At("freeState") /\ Free("state", "forget")
  /\ UNCHANGED others

\* mutant: main does not clear g_state when it has shut down
ForgetNot ==
  /\ At("forget") /\ Go("return")
  /\ UNCHANGED <<then, heap, global, term, handler, sock>>

\* g_state = NULL, then return from main
Forget ==
  /\ At("forget") /\ Go("return")
  /\ global' = FALSE
  /\ UNCHANGED <<then, heap, term, handler, sock>>

Return ==
  /\ At("return")
  /\ exit' = "clean"
  /\ UNCHANGED <<pc, then, heap, global, term, handler, sock, hit>>

(***************************************************************************)
(* Ctrl+C.                                                                 *)
(***************************************************************************)
Hit == exit = "running" /\ hit' = pc /\ UNCHANGED <<pc, then, handler>>

\* before main has installed its handler
InterruptEarly ==
  /\ Hit /\ handler # "own"
  /\ exit' = IF handler = "curses" THEN "failed" ELSE "killed"
  /\ term' = "normal"
  /\ UNCHANGED <<heap, global, sock>>

\* after main has forgotten the state
InterruptLate ==
  /\ Hit /\ handler = "own" /\ ~global
  /\ exit' = "clean"
  /\ UNCHANGED <<heap, global, term, sock>>

\* sigint_handler runs tui_shutdown to its end
Interrupt ==
  /\ Hit /\ handler = "own" /\ global
  /\ heap' = [o \in Object |->
                IF heap[o] = "null" \/ o = "entries" THEN "null" ELSE "freed"]
  /\ term' = "normal" /\ sock' = Closed
  /\ global' = FALSE
  /\ exit' = "clean"

Dangling == {o \in Object : heap[o] = "freed"}

\* mutant: tui_shutdown releases the list before endwin
BreaksFirst == pc \in Unsafe \/ Dangling # {}

\* tui_shutdown breaks at its first call, panels_destroy, before endwin
BreaksEarly == pc \in Unsafe \/ Dangling \cap {"state", "layout"} # {}

\* tui_shutdown frees what is already freed, or enters the allocator or curses
\* again
InterruptBreaks ==
  /\ Hit /\ handler = "own" /\ global
  /\ pc \in Unsafe \/ Dangling # {}
  /\ exit' \in {"aborted", "hung"}
  /\ IF BreaksEarly THEN term' \in {term, "normal"} ELSE term' = "normal"
  /\ UNCHANGED <<heap, global, sock>>

Main ==
  \/ Initscr \/ PanelsCreate \/ InitFails \/ Install
  \/ Connect \/ NewList \/ Windows \/ Draw \/ Leave \/ Sigpipe
  \/ FreeLines \/ NewLines \/ FreeEntries \/ NullEntries
  \/ Parse \/ Grow \/ Grown
  \/ Destroy \/ Endwin \/ Close \/ EndLines \/ FreeState \/ Forget \/ Return

Next == Main \/ InterruptEarly \/ InterruptLate \/ Interrupt \/ InterruptBreaks

Spec == Init /\ [][Next]_vars

-----------------------------------------------------------------------------
(* The types of the variables of main.c and TUIState; the pointer that     *)
(* sigint_handler tests, g_state, never points to a released state, except *)
(* between tui_shutdown's free and main's g_state = NULL.                  *)
TypeOK ==
  /\ pc \in Place
  /\ then \in {"run", "dialog", "end"}
  /\ heap \in [Object -> {"null", "live", "freed"}]
  /\ global \in BOOLEAN
  /\ term \in {"normal", "curses"}
  /\ handler \in {"default", "curses", "own"}
  /\ sock \in {"none", "open", "closed"}
  /\ exit \in {"running", "clean", "failed", "killed", "aborted", "hung"}
  /\ hit \in Place \cup {"no"}
  /\ global => heap["state"] = "live" \/ pc = "forget"

Released ==
  /\ term = "normal" /\ sock # "open"
  /\ \A o \in Object : heap[o] # "live"

\* no Ctrl+C, or one while the client waits
Calm == hit \in Waiting \cup {"no"}

(* sigint_handler "llama a tui_shutdown() y sale con codigo 0": Ctrl+C     *)
(* while a dialog or tui_run waits, whatever the lists, resizes and failed *)
(* mallocs before it, ends the client with everything released; without    *)
(* Ctrl+C nothing is released twice.                                       *)
CalmEnd ==
  /\ Calm => exit \notin {"aborted", "hung"}
  /\ hit \in Waiting => exit = "clean"
  /\ Calm /\ exit = "clean" => Released

(* The terminal is left in curses mode only by SIGPIPE, by a Ctrl+C inside *)
(* the allocator or curses, or by one after tui_shutdown's panels_destroy  *)
(* and before its endwin; not by one that finds the list half replaced.    *)
TerminalRestored ==
  exit # "running" /\ term = "curses" =>
    exit = "killed" \/ hit \in Unsafe \cup {"endwin"}
=============================================================================
