---------------------------- MODULE PanelsProofs ----------------------------
(***************************************************************************)
(* Theorems about Panels for every set of terminal heights and every list  *)
(* length: the layout's arithmetic, scroll_clamp's range, and where the    *)
(* scroll offset may be after each key.                                    *)
(***************************************************************************)
EXTENDS Panels, TLAPS

(* panels_calc_dimensions fills a terminal of 10 lines or more exactly,    *)
(* with 3 rows of content for the input and 1 for the status bar; from 20  *)
(* lines on the process panel also has its 60%.                            *)
THEOREM LayoutRules ==
  ASSUME NEW l \in Nat, l >= 10
  PROVE  /\ Layout(l).proc + Layout(l).input + Layout(l).status = l
         /\ Layout(l).input >= 5 /\ Layout(l).status = 3
         /\ Layout(l).proc >= 2
         /\ l >= 20 => Layout(l).proc >= SixtyPercent(l)
BY DEF Layout, SixtyPercent, AtLeast, InputHeight, StatusHeight

(* Its result is a layout of natural numbers whatever the height.          *)
LEMMA LayoutType ==
  ASSUME NEW l \in Nat
  PROVE  Layout(l) \in [proc : Nat, input : Nat, status : Nat]
BY DEF Layout, SixtyPercent, AtLeast, InputHeight, StatusHeight

(* scroll_clamp lands in [0, max(0, total - visible)], also for the panels *)
(* so low that the number of visible rows is negative, and moves an offset *)
(* that was in range by at most the delta.                                 *)
THEOREM ClampRange ==
  ASSUME NEW o \in Nat, NEW d \in Int, NEW n \in Nat, NEW v \in Int
  PROVE  /\ ScrollClamp(o, d, n, v) \in 0..MaxOffset(n, v)
         /\ o \in 0..MaxOffset(n, v) /\ d \in {-1, 1} =>
              ScrollClamp(o, d, n, v) \in {o - 1, o, o + 1}
BY DEF ScrollClamp, MaxOffset, AtLeast

(* Every entry of the list can be brought into view when the panel shows   *)
(* at least one row.                                                       *)
THEOREM EveryRowReachable ==
  ASSUME NEW n \in Nat, NEW v \in Nat, v >= 1, NEW r \in 0..(n - 1)
  PROVE  \E o \in 0..MaxOffset(n, v) : o <= r /\ r < o + v
<1>1. CASE r <= MaxOffset(n, v)
  BY <1>1 DEF MaxOffset, AtLeast
<1>2. CASE r > MaxOffset(n, v)
  <2>1. MaxOffset(n, v) \in Nat /\ r < MaxOffset(n, v) + v
    BY <1>2 DEF MaxOffset, AtLeast
  <2>2. QED
    BY <1>2, <2>1
<1>3. QED
  BY <1>1, <1>2 DEF MaxOffset, AtLeast

-----------------------------------------------------------------------------
LEMMA VisibleInt == TypeOK => Visible \in Int
BY DEF TypeOK, Visible

(* The variables of the screen keep their types.                           *)
THEOREM TypeCorrect == Spec => []TypeOK
<1> USE ConstantsAssumption
<1>1. Init => TypeOK
  BY LayoutType DEF Init, TypeOK
<1>2. TypeOK /\ [Next]_vars => TypeOK'
  <2> SUFFICES ASSUME TypeOK, [Next]_vars
               PROVE  TypeOK'
    OBVIOUS
  <2>1. CASE Connected \/ CommandAnswer \/ AsyncAnswer
    BY <2>1 DEF Connected, CommandAnswer, AsyncAnswer, TypeOK
  <2>2. CASE Resize
    BY <2>2, LayoutType DEF Resize, TypeOK
  <2>3. CASE ResizeInDialog
    BY <2>3 DEF ResizeInDialog, TypeOK
  <2>4. CASE Tab \/ OpenDialog \/ CloseDialog
    BY <2>4 DEF Tab, OpenDialog, CloseDialog, TypeOK
  <2>5. ASSUME NEW d \in {-1, 1}, Arrow(d)
        PROVE  TypeOK'
    <3>1. offset' \in Nat
      BY <2>5, VisibleInt, ClampRange DEF Arrow, TypeOK, MaxOffset, AtLeast
    <3>2. QED
      BY <2>5, <3>1 DEF Arrow, TypeOK
  <2>6. CASE UNCHANGED vars
    BY <2>6 DEF vars, TypeOK
  <2>7. QED
    BY <2>1, <2>2, <2>3, <2>4, <2>5, <2>6 DEF Next
<1>3. QED
  BY <1>1, <1>2, PTL DEF Spec

(* What the two scrolling properties say of one step.                      *)
LandsStep == offset' # offset => InRange'
StepwiseStep == offset' \notin {offset - 1, offset, offset + 1, 0} => ~InRange

LEMMA ScrollSteps ==
  ASSUME TypeOK, [Next]_vars
  PROVE  LandsStep /\ StepwiseStep
<1> USE ConstantsAssumption DEF LandsStep, StepwiseStep, InRange
<1>1. CASE Connected \/ CommandAnswer
  <2>1. offset' = 0 /\ count' \in Nat /\ UNCHANGED layout
    BY <1>1 DEF Connected, CommandAnswer
  <2>2. QED
    BY <2>1 DEF TypeOK, Visible, MaxOffset, AtLeast
<1>2. CASE \/ Resize \/ ResizeInDialog \/ Tab \/ OpenDialog \/ CloseDialog
           \/ AsyncAnswer \/ UNCHANGED vars
  BY <1>2 DEF Resize, ResizeInDialog, Tab, OpenDialog, CloseDialog,
              AsyncAnswer, vars
<1>3. ASSUME NEW d \in {-1, 1}, Arrow(d)
      PROVE  LandsStep /\ StepwiseStep
  <2>1. UNCHANGED <<layout, count>> /\ offset' = ScrollClamp(offset, d, count, Visible)
    BY <1>3 DEF Arrow
  <2>2. offset' \in 0..MaxOffset(count, Visible)
    BY <2>1, VisibleInt, ClampRange DEF TypeOK
  <2>3. InRange => offset' \in {offset - 1, offset, offset + 1}
    BY <2>1, VisibleInt, ClampRange DEF TypeOK
  <2>4. QED
    BY <2>1, <2>2, <2>3 DEF Visible
<1>4. QED
  BY <1>1, <1>2, <1>3 DEF Next

(* Whenever the code moves the scroll offset it lands in the range of the  *)
(* list and panel of that moment.                                          *)
THEOREM ScrollAlwaysLands == Spec => ScrollLands
<1>1. TypeOK /\ [Next]_vars => LandsStep
  BY ScrollSteps
<1>2. ScrollLands <=> [][LandsStep]_vars
  BY DEF ScrollLands, LandsStep
<1>3. QED
  BY <1>1, <1>2, TypeCorrect, PTL DEF Spec

(* A key never makes the view jump, except back from beyond the end.       *)
THEOREM ScrollNeverJumps == Spec => ScrollStepwise
<1>1. TypeOK /\ [Next]_vars => StepwiseStep
  BY ScrollSteps
<1>2. ScrollStepwise <=> [][StepwiseStep]_vars
  BY DEF ScrollStepwise, StepwiseStep
<1>3. QED
  BY <1>1, <1>2, TypeCorrect, PTL DEF Spec
=============================================================================
