--------------------------- MODULE DispatchProofs ---------------------------
(***************************************************************************)
(* Theorems about Dispatch for any number of threads and command lines:    *)
(* type correctness, and that only a race of two threads' strtok calls can *)
(* give a command an argument that is not its line's.                      *)
(***************************************************************************)
EXTENDS Dispatch, TLAPS

USE ConstantsAssumption

(* strtok's pointer is the thread's own until another thread writes it.    *)
OwnUntilRace ==
  \A t \in Thread : ~disturbed[t] =>
    /\ pc[t] = "second" => saved = Own(t)
    /\ pc[t] \in {"store", "use"} => found[t] = Own(t)

(* A thread's own place is a pointer.                                      *)
LEMMA OwnIsPointer ==
  ASSUME TypeOK, NEW t \in Thread
  PROVE  Own(t) \in Pointer
BY DEF TypeOK, Own, Pointer

(* Before anyone connects there is no pointer and nobody needs one.        *)
LEMMA InitTyped == Init => TypeOK /\ OwnUntilRace
<1> SUFFICES ASSUME Init PROVE TypeOK /\ OwnUntilRace
  OBVIOUS
<1>1. TypeOK
  BY DEF Init, TypeOK, Location
<1>2. OwnUntilRace
  BY DEF Init, OwnUntilRace
<1>3. QED
  BY <1>1, <1>2

(* Every step of a thread keeps the types and leaves pointers behind.      *)
LEMMA StepTyped ==
  ASSUME TypeOK, NEW t \in Thread, Step(t)
  PROVE  TypeOK'
<1> USE DEF TypeOK, GoTo, Location
<1>1. CASE Accept(t)
  BY <1>1 DEF Accept
<1>2. CASE Recv(t)
  <2>1. lines' \in 0..MaxLines /\ line' \in [Thread -> 0..MaxLines]
    BY <1>2 DEF Recv
  <2>2. hasArg' \in [Thread -> BOOLEAN]
    BY <1>2 DEF Recv
  <2>3. /\ pc' = [pc EXCEPT ![t] = "first"]
        /\ UNCHANGED <<saved, found, disturbed>>
    BY <1>2 DEF Recv
  <2>4. QED
    BY <2>1, <2>2, <2>3
<1>3. CASE First(t)
  <2>1. saved' = Own(t) /\ saved' \in Pointer
    BY <1>3, OwnIsPointer DEF First, Write
  <2>2. disturbed' \in [Thread -> BOOLEAN]
    BY <1>3, Zenon DEF First, Write
  <2>3. pc' = [pc EXCEPT ![t] = "second"] /\ UNCHANGED <<line, hasArg, found, lines>>
    BY <1>3 DEF First
  <2>4. QED
    BY <2>1, <2>2, <2>3
<1>4. CASE Second(t)
  <2>1. saved \in Pointer
    BY <1>4 DEF Second
  <2>2. PICK a \in {"arg", "end"} :
          found' = [found EXCEPT ![t] = [saved EXCEPT !.at = a]]
    BY <1>4 DEF Second
  <2>3. [saved EXCEPT !.at = a] \in Pointer
    BY <2>1 DEF Pointer
  <2>4. found' \in [Thread -> Pointer \cup {Null}] /\ found'[t] \in Pointer
    BY <2>2, <2>3
  <2>5. /\ pc' = [pc EXCEPT ![t] = "store"]
        /\ UNCHANGED <<line, hasArg, saved, disturbed, lines>>
    BY <1>4 DEF Second
  <2>6. QED
    BY <2>2, <2>4, <2>5
<1>5. CASE Store(t)
  <2>1. found[t] \in Pointer /\ saved' = [found[t] EXCEPT !.at = "end"]
    BY <1>5 DEF Store
  <2>2. saved' \in Pointer
    BY <2>1 DEF Pointer
  <2>3. disturbed' \in [Thread -> BOOLEAN]
    BY <1>5, Zenon DEF Store
  <2>4. pc' = [pc EXCEPT ![t] = "use"] /\ UNCHANGED <<line, hasArg, found, lines>>
    BY <1>5 DEF Store
  <2>5. QED
    BY <2>1, <2>2, <2>3, <2>4
<1>6. CASE Execute(t)
  BY <1>6 DEF Execute
<1>7. CASE End(t)
  BY <1>7 DEF End
<1>8. CASE Crash(t)
  BY <1>8 DEF Crash
<1>9. QED
  BY <1>1, <1>2, <1>3, <1>4, <1>5, <1>6, <1>7, <1>8 DEF Step

(* A write of the pointer marks every other thread between its two calls;  *)
(* a thread reads its own line's place if it is not marked.                *)
LEMMA StepOwn ==
  ASSUME TypeOK, OwnUntilRace, NEW t \in Thread, Step(t)
  PROVE  OwnUntilRace'
<1> USE DEF TypeOK, OwnUntilRace, Own, GoTo
<1>1. CASE Accept(t)
  BY <1>1 DEF Accept
<1>2. CASE Recv(t)
  <2>1. /\ pc[t] = "recv" /\ pc' = [pc EXCEPT ![t] = "first"]
        /\ \A u \in Thread \ {t} : line'[u] = line[u] /\ hasArg'[u] = hasArg[u]
        /\ UNCHANGED <<saved, found, disturbed>>
    BY <1>2 DEF Recv
  <2>2. QED
    BY <2>1
<1>3. CASE First(t)
  <2>1. /\ saved' = Own(t)
        /\ pc[t] = "first" /\ pc' = [pc EXCEPT ![t] = "second"]
        /\ UNCHANGED <<line, hasArg, found, lines>>
    BY <1>3 DEF First, Write
  <2>2. \A u \in Thread \ {t} : ~disturbed'[u] => ~disturbed[u] /\ pc[u] # "second"
    BY <1>3, Zenon DEF First, Write
  <2>3. QED
    BY <2>1, <2>2
<1>4. CASE Second(t)
  <2>1. /\ pc[t] = "second" /\ pc' = [pc EXCEPT ![t] = "store"]
        /\ UNCHANGED <<line, hasArg, saved, disturbed, lines>>
    BY <1>4 DEF Second
  <2>2. PICK text \in BOOLEAN :
          /\ MayFind(saved, text)
          /\ found' = [found EXCEPT ![t] =
                         [saved EXCEPT !.at = IF text THEN "arg" ELSE "end"]]
    BY <1>4 DEF Second
  <2>3. ~disturbed[t] => found'[t] = Own(t)
    <3> SUFFICES ASSUME ~disturbed[t] PROVE found'[t] = Own(t)
      OBVIOUS
    <3>1. saved = Own(t)
      BY <2>1
    <3>2. text = hasArg[t]
      BY <2>2, <3>1 DEF MayFind
    <3>3. QED
      BY <2>2, <3>1, <3>2
  <2>4. QED
    BY <2>1, <2>2, <2>3
<1>5. CASE Store(t)
  <2>1. /\ pc[t] = "store" /\ pc' = [pc EXCEPT ![t] = "use"]
        /\ UNCHANGED <<line, hasArg, found, lines>>
    BY <1>5 DEF Store
  <2>2. \A u \in Thread \ {t} : ~disturbed'[u] => ~disturbed[u] /\ pc[u] # "second"
    BY <1>5, Zenon DEF Store
  <2>3. ~disturbed'[t] => ~disturbed[t]
    BY <1>5, Zenon DEF Store
  <2>4. QED
    BY <2>1, <2>2, <2>3
<1>6. CASE Execute(t)
  BY <1>6 DEF Execute
<1>7. CASE End(t)
  BY <1>7 DEF End
<1>8. CASE Crash(t)
  BY <1>8 DEF Crash
<1>9. QED
  BY <1>1, <1>2, <1>3, <1>4, <1>5, <1>6, <1>7, <1>8 DEF Step

(* The inductive invariant.                                                *)
THEOREM Invariance == Spec => [](TypeOK /\ OwnUntilRace)
<1>1. Init => TypeOK /\ OwnUntilRace
  BY InitTyped
<1>2. TypeOK /\ OwnUntilRace /\ [Next]_vars => (TypeOK /\ OwnUntilRace)'
  <2> SUFFICES ASSUME TypeOK, OwnUntilRace, [Next]_vars
               PROVE  (TypeOK /\ OwnUntilRace)'
    OBVIOUS
  <2>1. CASE Next
    <3>1. PICK t \in Thread : Step(t)
      BY <2>1 DEF Next
    <3>2. QED
      BY <3>1, StepTyped, StepOwn
  <2>2. CASE UNCHANGED vars
    BY <2>2 DEF vars, TypeOK, OwnUntilRace, Own
  <2>3. QED
    BY <2>1, <2>2
<1>3. QED
  BY <1>1, <1>2, PTL DEF Spec

(* handle_client's locals and strtok's pointer have their types.           *)
THEOREM TypeCorrect == Spec => []TypeOK
BY Invariance, PTL

(* However many threads parse commands, an argument that is not the line's *)
(* own takes another thread's strtok between the two calls for that line.  *)
THEOREM OnlyRacesMix == Spec => []MixedOnlyByRace
<1>1. TypeOK /\ OwnUntilRace => MixedOnlyByRace
  BY DEF OwnUntilRace, MixedOnlyByRace
<1>2. QED
  BY <1>1, Invariance, PTL

-----------------------------------------------------------------------------
(* A lock around the two strtok calls would be enough: what handle_client  *)
(* promises then holds.                                                    *)

(* At most one thread is between its first call and the end of its second. *)
Splitting(t) == pc[t] \in {"second", "store"}
OneAtATime == \A t, u \in Thread : Splitting(t) /\ Splitting(u) => t = u

Undisturbed ==
  \A t \in Thread : pc[t] \in {"second", "store", "use"} => ~disturbed[t]

(* Only a first or second call of another thread could disturb one.        *)
LEMMA StepUndisturbed ==
  ASSUME TypeOK, Undisturbed, OneAtATime, OneAtATime', NEW t \in Thread, Step(t)
  PROVE  Undisturbed'
<1> USE DEF TypeOK, Undisturbed, GoTo
<1>1. CASE Accept(t) \/ Recv(t) \/ Second(t) \/ Execute(t) \/ End(t)
  BY <1>1 DEF Accept, Recv, Second, Execute, End
<1>2. CASE First(t)
  <2>1. pc' = [pc EXCEPT ![t] = "second"] /\ ~disturbed'[t]
    BY <1>2, Zenon DEF First, Write
  <2>2. \A u \in Thread \ {t} : pc[u] # "second"
    BY <2>1 DEF OneAtATime, Splitting
  <2>3. \A u \in Thread \ {t} : disturbed'[u] => disturbed[u]
    BY <1>2, <2>2, Zenon DEF First, Write
  <2>4. QED
    BY <2>1, <2>3
<1>3. CASE Store(t)
  <2>1. pc[t] = "store" /\ pc' = [pc EXCEPT ![t] = "use"]
    BY <1>3 DEF Store
  <2>2. \A u \in Thread \ {t} : pc[u] # "second"
    BY <2>1 DEF OneAtATime, Splitting
  <2>3. \A u \in Thread : disturbed'[u] => disturbed[u]
    BY <1>3, <2>2, Zenon DEF Store
  <2>4. QED
    BY <2>1, <2>3
<1>4. CASE Crash(t)
  BY <1>4 DEF Crash
<1>5. QED
  BY <1>1, <1>2, <1>3, <1>4 DEF Step

LEMMA OneAtATimeInvariance == Spec /\ []OneAtATime => []Undisturbed
<1>1. Init => Undisturbed
  BY DEF Init, Undisturbed
<1>2. /\ TypeOK /\ OwnUntilRace /\ Undisturbed /\ OneAtATime /\ OneAtATime'
      /\ [Next]_vars
      => Undisturbed'
  <2> SUFFICES ASSUME TypeOK, Undisturbed, OneAtATime, OneAtATime', [Next]_vars
               PROVE  Undisturbed'
    OBVIOUS
  <2>1. CASE Next
    <3>1. PICK t \in Thread : Step(t)
      BY <2>1 DEF Next
    <3>2. QED
      BY <3>1, StepUndisturbed
  <2>2. CASE UNCHANGED vars
    BY <2>2 DEF vars, Undisturbed
  <2>3. QED
    BY <2>1, <2>2
<1>3. QED
  BY <1>1, <1>2, Invariance, PTL DEF Spec

(* If threads split their lines one at a time, every command is executed   *)
(* with its own line's argument, whatever else is interleaved: the static  *)
(* pointer is the only thing the threads mix up.                           *)
THEOREM OneAtATimeOwnArgument == Spec /\ []OneAtATime => []OwnArgument
<1>1. TypeOK /\ OwnUntilRace /\ Undisturbed => OwnArgument
  BY DEF OwnUntilRace, Undisturbed, OwnArgument
<1>2. QED
  BY <1>1, Invariance, OneAtATimeInvariance, PTL

(* ... and no thread reads through a pointer into the stack of an ended    *)
(* one, so that parsing crashes the server only in the same race.          *)
THEOREM OneAtATimeNoCrash ==
  Spec /\ []OneAtATime => [][\A t \in Thread : ~Crash(t)]_vars
<1>1. ASSUME OwnUntilRace, Undisturbed, NEW t \in Thread
      PROVE  ~Crash(t)
  <2>1. Own(t).buf = t
    BY DEF Own
  <2>2. pc[t] = "second" => saved = Own(t)
    BY <1>1 DEF OwnUntilRace, Undisturbed
  <2>3. pc[t] = "use" => found[t] = Own(t)
    BY <1>1 DEF OwnUntilRace, Undisturbed
  <2>4. QED
    BY <2>1, <2>2, <2>3 DEF Crash
<1>2. TypeOK /\ OwnUntilRace /\ Undisturbed => \A t \in Thread : ~Crash(t)
  BY <1>1
<1>3. QED
  BY <1>2, Invariance, OneAtATimeInvariance, PTL
=============================================================================
