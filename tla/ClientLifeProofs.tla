-------------------------- MODULE ClientLifeProofs --------------------------
(***************************************************************************)
(* Theorems about ClientLife: Ctrl+C while the client waits ends it        *)
(* with everything released, and the terminal is left in curses mode only  *)
(* in the windows TerminalRestored names.                                  *)
(***************************************************************************)
EXTENDS ClientLife, TLAPS

(* tui_init, up to the signal call of main.                                *)
Starting == {"start", "screen", "ready"}

(* tui_shutdown, called by main, after its panels_destroy.                 *)
Shutting == {"endwin", "close", "endLines", "freeState", "forget", "return"}

(* process_list_free, which tui_run and tui_shutdown both call.            *)
Shared == {"freeEntries", "nullEntries"}

(* While tui_shutdown runs the terminal is restored first, then the socket *)
(* closed: Restored and Disconnected are what is left after that.          *)
Ending == then = "end"
Restored == Ending /\ pc # "endwin"
Disconnected == Restored /\ pc # "close"
ListDropped == Disconnected /\ pc # "endLines"

Control ==
  /\ hit = "no"
  /\ handler = "own" <=> pc \notin Starting
  /\ global <=> pc \notin Starting \cup {"return"}
  /\ pc \in Shutting => Ending
  /\ Ending => pc \in Shutting \cup Shared
  /\ pc \in {"windows", "draw"} => then \in Waiting
  /\ Restored => term = "normal"
  /\ Disconnected => sock # "open"

(***************************************************************************)
(* What each pointer is at each place.  A dangling pointer is one that the *)
(* next step overwrites, or one of tui_shutdown, whose caller ends.        *)
(***************************************************************************)
Heap ==
  /\ heap["state"] = CASE pc = "start" -> "null"
                       [] pc \in {"forget", "return"} -> "freed"
                       [] OTHER -> "live"
  /\ heap["layout"] = CASE pc \in {"start", "screen"} -> "null"
                        [] Ending -> "freed"
                        [] OTHER -> "live"
  /\ heap["lines"] \in CASE pc \in Starting -> {"null"}
                         [] pc = "newLines" \/ ListDropped -> {"null", "freed"}
                         [] OTHER -> {"null", "live"}
  /\ heap["entries"] \in
       CASE pc \in {"nullEntries", "grown"} -> {"freed"}
         [] pc = "grow" -> {"live"}
         [] pc \in Starting \cup {"parse", "freeState", "forget", "return"}
              -> {"null"}
         [] OTHER -> {"null", "live"}

(* The inductive invariant: what holds at each place of the main flow, and *)
(* after the end what is to be shown, which no step changes.               *)
LifeInv ==
  /\ TypeOK
  /\ exit = "running" => Control /\ Heap
  /\ CalmEnd /\ TerminalRestored

(* A step of the main flow that does not end the program has only the      *)
(* shape to keep.                                                          *)
LEMMA RunsOn ==
  ASSUME TypeOK', exit' = "running", Control', Heap'
  PROVE  LifeInv'
<1>1. hit' = "no" /\ hit' \notin Waiting
  BY DEF Control, Waiting
<1>2. CalmEnd' /\ TerminalRestored'
  BY <1>1 DEF CalmEnd, TerminalRestored
<1>3. QED
  BY <1>2 DEF LifeInv

LEMMA InitInv == Init => LifeInv
<1> SUFFICES ASSUME Init PROVE LifeInv
  OBVIOUS
<1>1. TypeOK
  BY DEF Init, TypeOK, Place, Waiting, Unsafe, Object
<1>2. Control /\ Heap
  BY DEF Init, Control, Heap, Starting, Shutting, Shared, Ending, Restored,
         Disconnected, ListDropped, Object
<1>3. CalmEnd /\ TerminalRestored
  BY DEF Init, CalmEnd, TerminalRestored, Calm, Waiting
<1>4. QED
  BY <1>1, <1>2, <1>3 DEF LifeInv

-----------------------------------------------------------------------------
(* The main flow.                                                          *)

(* tui_init and main up to the connection dialog.                          *)
LEMMA StartKeeps ==
  ASSUME LifeInv, Initscr \/ PanelsCreate \/ InitFails \/ Install
  PROVE  LifeInv'
<1> USE DEF TypeOK, Object, Place, Waiting, Unsafe, At
<1>1. TypeOK /\ exit = "running" /\ Control /\ Heap
  BY DEF LifeInv, Initscr, PanelsCreate, InitFails, Install
<1> USE DEF Control, Heap, Starting, Shutting, Shared, Ending, Restored,
            Disconnected, ListDropped
<1>2. CASE Initscr
  <2>1. TypeOK' /\ exit' = "running" /\ Control' /\ Heap'
    BY <1>1, <1>2 DEF Initscr, Assign, Go
  <2>2. QED
    BY <2>1, RunsOn
<1>3. CASE PanelsCreate
  <2>1. TypeOK' /\ exit' = "running" /\ Control' /\ Heap'
    BY <1>1, <1>3 DEF PanelsCreate, Assign, Go
  <2>2. QED
    BY <2>1, RunsOn
<1>4. CASE InitFails
  <2>1. TypeOK'
    BY <1>1, <1>4 DEF InitFails
  <2>2. exit' = "failed" /\ hit' = "no" /\ term' = "normal"
    BY <1>1, <1>4 DEF InitFails
  <2>3. QED
    BY <2>1, <2>2 DEF LifeInv, CalmEnd, TerminalRestored
<1>5. CASE Install
  <2>1. TypeOK' /\ exit' = "running" /\ Control' /\ Heap'
    BY <1>1, <1>5 DEF Install, Go
  <2>2. QED
    BY <2>1, RunsOn
<1>6. QED
  BY <1>2, <1>3, <1>4, <1>5

(* The dialog and tui_run.                                                 *)
LEMMA LoopKeeps ==
  ASSUME LifeInv, Connect \/ NewList \/ Windows \/ Draw \/ Leave \/ Sigpipe
  PROVE  LifeInv'
<1> USE DEF TypeOK, Object, Place, Waiting, Unsafe, At
<1>1. TypeOK /\ exit = "running" /\ Control /\ Heap
  BY DEF LifeInv, Connect, NewList, Windows, Draw, Detour, Leave, Sigpipe
<1> USE DEF Control, Heap, Starting, Shutting, Shared, Ending, Restored,
            Disconnected, ListDropped
<1>2. CASE Connect \/ NewList \/ Windows \/ Draw \/ Leave
  <2>1. TypeOK' /\ exit' = "running" /\ Control' /\ Heap'
    BY <1>1, <1>2 DEF Connect, NewList, Windows, Draw, Detour, Leave, Go
  <2>2. QED
    BY <2>1, RunsOn
<1>3. CASE Sigpipe
  <2>1. TypeOK' /\ exit' = "killed" /\ hit' = "no"
    BY <1>1, <1>3 DEF Sigpipe
  <2>2. QED
    BY <2>1 DEF LifeInv, CalmEnd, TerminalRestored
<1>4. QED
  BY <1>2, <1>3

(* The list is replaced, or released for good: no pointer is freed twice,  *)
(* because the dangling one is overwritten before anything else is done.   *)
LEMMA ListKeeps ==
  ASSUME LifeInv,
         FreeLines \/ NewLines \/ FreeEntries \/ NullEntries
           \/ Parse \/ Grow \/ Grown
  PROVE  LifeInv'
<1> USE DEF TypeOK, Object, Place, Waiting, Unsafe, At, others, AfterEntries
<1>1. TypeOK /\ exit = "running" /\ Control /\ Heap
  BY DEF LifeInv, FreeLines, NewLines, FreeEntries, NullEntries, Parse,
         Grow, Grown
<1> USE DEF Control, Heap, Starting, Shutting, Shared, Ending, Restored,
            Disconnected, ListDropped
<1>2. CASE FreeLines
  <2>1. TypeOK' /\ exit' = "running" /\ Control' /\ Heap'
    BY <1>1, <1>2 DEF FreeLines, Free, Go
  <2>2. QED
    BY <2>1, RunsOn
<1>3. CASE NewLines
  <2>1. TypeOK' /\ exit' = "running" /\ Control' /\ Heap'
    BY <1>1, <1>3 DEF NewLines, Assign, Go
  <2>2. QED
    BY <2>1, RunsOn
<1>4. CASE FreeEntries
  <2>1. TypeOK' /\ exit' = "running" /\ Control' /\ Heap'
    BY <1>1, <1>4 DEF FreeEntries, Free, Go
  <2>2. QED
    BY <2>1, RunsOn
<1>5. CASE NullEntries
  <2>1. TypeOK' /\ exit' = "running" /\ Control' /\ Heap'
    BY <1>1, <1>5 DEF NullEntries, Assign, Go
  <2>2. QED
    BY <2>1, RunsOn
<1>6. CASE Parse \/ Grow \/ Grown
  <2>1. TypeOK' /\ exit' = "running" /\ Control' /\ Heap'
    BY <1>1, <1>6 DEF Parse, Grow, Grown, Assign, Go
  <2>2. QED
    BY <2>1, RunsOn
<1>7. QED
  BY <1>2, <1>3, <1>4, <1>5, <1>6

(* tui_shutdown, called by main, and the return from main.                 *)
LEMMA ShutdownKeeps ==
  ASSUME LifeInv,
         Destroy \/ Endwin \/ Close \/ EndLines \/ FreeState \/ Forget \/ Return
  PROVE  LifeInv'
<1> USE DEF TypeOK, Object, Place, Waiting, Unsafe, At, others
<1>1. TypeOK /\ exit = "running" /\ Control /\ Heap
  BY DEF LifeInv, Destroy, Endwin, Close, EndLines, FreeState, Forget, Return
<1> USE DEF Control, Heap, Starting, Shutting, Shared, Ending, Restored,
            Disconnected, ListDropped
<1>2. CASE Destroy
  <2>1. TypeOK' /\ exit' = "running" /\ Control' /\ Heap'
    BY <1>1, <1>2 DEF Destroy, Free, Go
  <2>2. QED
    BY <2>1, RunsOn
<1>3. CASE Endwin
  <2>1. TypeOK' /\ exit' = "running" /\ Control' /\ Heap'
    BY <1>1, <1>3 DEF Endwin, Go
  <2>2. QED
    BY <2>1, RunsOn
<1>4. CASE Close
  <2>1. TypeOK' /\ exit' = "running" /\ Control' /\ Heap'
    BY <1>1, <1>4 DEF Close, Closed, Go
  <2>2. QED
    BY <2>1, RunsOn
<1>5. CASE EndLines
  <2>1. TypeOK' /\ exit' = "running" /\ Control' /\ Heap'
    BY <1>1, <1>5 DEF EndLines, Free, Go
  <2>2. QED
    BY <2>1, RunsOn
<1>6. CASE FreeState
  <2>1. TypeOK' /\ exit' = "running" /\ Control' /\ Heap'
    BY <1>1, <1>6 DEF FreeState, Free, Go
  <2>2. QED
    BY <2>1, RunsOn
<1>7. CASE Forget
  <2>1. TypeOK' /\ exit' = "running" /\ Control' /\ Heap'
    BY <1>1, <1>7 DEF Forget, Go
  <2>2. QED
    BY <2>1, RunsOn
<1>8. CASE Return
  <2>1. TypeOK'
    BY <1>1, <1>8 DEF Return
  <2>2. exit' = "clean" /\ hit' = "no" /\ Released'
    BY <1>1, <1>8 DEF Return, Released
  <2>3. QED
    BY <2>1, <2>2 DEF LifeInv, CalmEnd, TerminalRestored, Released
<1>9. QED
  BY <1>2, <1>3, <1>4, <1>5, <1>6, <1>7, <1>8

-----------------------------------------------------------------------------
(* Ctrl+C.                                                                 *)

(* While the client waits, nothing dangles.                                *)
LEMMA WaitingIsTidy ==
  ASSUME TypeOK, Control, Heap, pc \in Waiting
  PROVE  Dangling = {} /\ handler = "own" /\ global
<1>1. pc \notin Starting \cup Shutting \cup Shared \cup Unsafe
        \cup {"grown", "newLines", "start", "screen"}
  BY DEF Waiting, Starting, Shutting, Shared, Unsafe
<1>2. ~Ending
  BY <1>1 DEF Control
<1>3. \A o \in Object : heap[o] # "freed"
  BY <1>1, <1>2
     DEF Heap, Object, Waiting, Starting, Restored, Disconnected, ListDropped
<1>4. QED
  BY <1>1, <1>3 DEF Dangling, Control, Waiting

LEMMA InterruptKeeps ==
  ASSUME LifeInv,
         InterruptEarly \/ InterruptLate \/ Interrupt \/ InterruptBreaks
  PROVE  LifeInv'
<1>1. TypeOK /\ exit = "running" /\ Control /\ Heap /\ hit' = pc
  BY DEF LifeInv, InterruptEarly, InterruptLate, Interrupt, InterruptBreaks, Hit
<1>2. pc \in Waiting => Dangling = {} /\ handler = "own" /\ global
  BY <1>1, WaitingIsTidy
<1>3. hit' # "no"
  BY <1>1 DEF TypeOK, Place, Waiting, Unsafe
<1>4. TypeOK'
  <2>1. UNCHANGED <<pc, then, handler>> /\ hit' \in Place
    BY <1>1 DEF InterruptEarly, InterruptLate, Interrupt, InterruptBreaks, Hit,
                TypeOK
  <2>2. /\ heap' \in [Object -> {"null", "live", "freed"}]
        /\ global' \in BOOLEAN
        /\ global' => heap'["state"] = "live" \/ pc' = "forget"
    <3>1. CASE Interrupt
      BY <1>1, <3>1 DEF Interrupt, Object
    <3>2. CASE ~Interrupt
      <4>1. UNCHANGED <<heap, global>>
        BY <3>2 DEF InterruptEarly, InterruptLate, InterruptBreaks
      <4>2. QED
        BY <1>1, <2>1, <4>1 DEF TypeOK
    <3>3. QED
      BY <3>1, <3>2
  <2>3. /\ term' \in {"normal", "curses"}
        /\ sock' \in {"none", "open", "closed"}
        /\ exit' \in {"clean", "failed", "killed", "aborted", "hung"}
    BY <1>1 DEF InterruptEarly, InterruptLate, Interrupt, InterruptBreaks,
                TypeOK, Closed
  <2>4. QED
    BY <1>1, <2>1, <2>2, <2>3 DEF TypeOK
<1>5. CASE InterruptEarly
  <2>1. exit' \in {"failed", "killed"} /\ term' = "normal" /\ handler # "own"
    BY <1>5 DEF InterruptEarly
  <2>2. QED
    BY <1>1, <1>2, <1>3, <1>4, <2>1
       DEF LifeInv, CalmEnd, TerminalRestored, Calm
<1>6. CASE InterruptLate
  <2>1. exit' = "clean" /\ term' = term /\ pc = "return"
    BY <1>1, <1>6 DEF InterruptLate, Control
  <2>2. term' = "normal"
    BY <1>1, <2>1 DEF Control, Restored, Shutting
  <2>3. hit' \notin Waiting
    BY <1>1, <2>1 DEF Waiting
  <2>4. QED
    BY <1>3, <1>4, <2>1, <2>2, <2>3 DEF LifeInv, CalmEnd, TerminalRestored, Calm
<1>7. CASE Interrupt
  <2>1. exit' = "clean" /\ term' = "normal" /\ sock' # "open"
    BY <1>1, <1>7 DEF Interrupt, Closed, TypeOK
  <2>2. \A o \in Object : heap'[o] # "live"
    BY <1>7 DEF Interrupt
  <2>3. QED
    BY <1>4, <2>1, <2>2 DEF LifeInv, CalmEnd, TerminalRestored, Released
<1>8. CASE InterruptBreaks
  <2>1. exit' \in {"aborted", "hung"} /\ (pc \in Unsafe \/ Dangling # {})
    BY <1>8 DEF InterruptBreaks
  <2>2. hit' \notin Waiting
    BY <1>1, <1>2, <2>1 DEF Waiting, Unsafe
  <2>3. CASE term' = "curses"
    <3>1. pc \in Unsafe \/ Dangling \cap {"state", "layout"} # {}
      BY <1>8, <2>3 DEF InterruptBreaks, BreaksEarly
    <3>2. hit' \in Unsafe \cup {"endwin"}
      <4>1. CASE pc \in Unsafe
        BY <1>1, <4>1
      <4>2. CASE Dangling \cap {"state", "layout"} # {}
        <5>1. heap["state"] = "freed" \/ heap["layout"] = "freed"
          BY <4>2 DEF Dangling
        <5>2. Ending
          BY <1>1, <5>1 DEF Heap, Control, Shutting
        <5>3. term' = term
          BY <1>8, <2>3 DEF InterruptBreaks, TypeOK
        <5>4. pc = "endwin"
          BY <1>1, <2>3, <5>2, <5>3 DEF Control, Restored
        <5>5. QED
          BY <1>1, <5>4
      <4>3. QED
        BY <3>1, <4>1, <4>2
    <3>3. QED
      BY <1>3, <1>4, <2>1, <2>2, <3>2 DEF LifeInv, CalmEnd, TerminalRestored, Calm
  <2>4. CASE term' # "curses"
    BY <1>3, <1>4, <2>1, <2>2, <2>4 DEF LifeInv, CalmEnd, TerminalRestored, Calm
  <2>5. QED
    BY <2>3, <2>4
<1>9. QED
  BY <1>5, <1>6, <1>7, <1>8

LEMMA Invariance == Spec => []LifeInv
<1>1. LifeInv /\ [Next]_vars => LifeInv'
  <2> SUFFICES ASSUME LifeInv, [Next]_vars PROVE LifeInv'
    OBVIOUS
  <2>1. CASE Main
    BY <2>1, StartKeeps, LoopKeeps, ListKeeps, ShutdownKeeps DEF Main
  <2>2. CASE InterruptEarly \/ InterruptLate \/ Interrupt \/ InterruptBreaks
    BY <2>2, InterruptKeeps
  <2>3. CASE UNCHANGED vars
    BY <2>3 DEF vars, LifeInv, TypeOK, Control, Heap, Ending, Restored,
                Disconnected, ListDropped, CalmEnd, TerminalRestored, Calm,
                Released
  <2>4. QED
    BY <2>1, <2>2, <2>3 DEF Next
<1>2. QED
  BY InitInv, <1>1, PTL DEF Spec

-----------------------------------------------------------------------------
(* The variables of main.c and the pointers of TUIState keep their types,  *)
(* and g_state never outlives the state by more than main's next step.     *)
THEOREM TypeCorrect == Spec => []TypeOK
<1>1. LifeInv => TypeOK
  BY DEF LifeInv
<1>2. QED
  BY Invariance, <1>1, PTL

(* Ctrl+C while a dialog or tui_run waits ends the client with everything  *)
(* released, and without Ctrl+C nothing is released twice.                 *)
THEOREM CalmEndAlways == Spec => []CalmEnd
<1>1. LifeInv => CalmEnd
  BY DEF LifeInv
<1>2. QED
  BY Invariance, <1>1, PTL

(* The terminal is left in curses mode only by SIGPIPE or in the windows   *)
(* of the allocator's and curses' calls and before tui_shutdown's endwin.  *)
THEOREM TerminalAlwaysRestored == Spec => []TerminalRestored
<1>1. LifeInv => TerminalRestored
  BY DEF LifeInv
<1>2. QED
  BY Invariance, <1>1, PTL
=============================================================================
