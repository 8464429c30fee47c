--------------------------- MODULE ListenerProofs ---------------------------
(***************************************************************************)
(* Theorems about Listener for any numbers of connections, started         *)
(* processes, descriptors, tasks and places in the queue.                  *)
(***************************************************************************)
EXTENDS Listener, FiniteSetTheorems, TLAPS

USE ConstantsAssumption

(* No connection is twice in the queue.                                    *)
Distinct(q) == \A i, j \in 1..Len(q) : q[i] = q[j] => i = j

(* A new connection joins the queue behind the others.                     *)
LEMMA AppendQueue ==
  ASSUME NEW q \in Seq(Conn), NEW c \in Conn, Distinct(q), c \notin ToSet(q)
  PROVE  /\ Append(q, c) \in Seq(Conn)
         /\ ToSet(Append(q, c)) = ToSet(q) \cup {c}
         /\ Distinct(Append(q, c))
<1> DEFINE r == Append(q, c)
<1>1. /\ r \in Seq(Conn) /\ Len(r) = Len(q) + 1
      /\ \A i \in 1..Len(q) : r[i] = q[i]
      /\ r[Len(r)] = c
  OBVIOUS
<1>2. \A i \in 1..Len(q) : q[i] # c
  BY DEF ToSet
<1>3. Distinct(r)
  BY <1>1, <1>2 DEF Distinct
<1>4. ToSet(r) = ToSet(q) \cup {c}
  <2>1. /\ DOMAIN r = 1..Len(q) + 1 /\ DOMAIN q = 1..Len(q)
        /\ Len(q) \in Nat
    BY <1>1
  <2>2. ASSUME NEW x \in ToSet(r) PROVE x \in ToSet(q) \cup {c}
    BY <1>1, <2>1 DEF ToSet
  <2>3. ASSUME NEW x \in ToSet(q) \cup {c} PROVE x \in ToSet(r)
    BY <1>1, <2>1 DEF ToSet
  <2>4. QED
    BY <2>2, <2>3
<1>5. QED
  BY <1>1, <1>3, <1>4

(* accept takes the first of the queue: it is no longer there.             *)
LEMMA TailQueue ==
  ASSUME NEW q \in Seq(Conn), q # <<>>, Distinct(q)
  PROVE  /\ Tail(q) \in Seq(Conn)
         /\ Head(q) \in ToSet(q)
         /\ ToSet(Tail(q)) \subseteq ToSet(q) \ {Head(q)}
         /\ Distinct(Tail(q))
<1> DEFINE r == Tail(q)
<1>1. /\ r \in Seq(Conn) /\ Len(q) \in Nat \ {0} /\ Len(r) = Len(q) - 1
      /\ DOMAIN q = 1..Len(q) /\ DOMAIN r = 1..Len(r)
      /\ \A i \in 1..Len(r) : r[i] = q[i + 1]
      /\ Head(q) = q[1]
  OBVIOUS
<1>2. Head(q) \in ToSet(q)
  BY <1>1 DEF ToSet
<1>3. ASSUME NEW x \in ToSet(r) PROVE x \in ToSet(q) /\ x # Head(q)
  <2>1. PICK i \in 1..Len(r) : x = r[i]
    BY <1>1 DEF ToSet
  <2>2. x = q[i + 1] /\ i + 1 \in 1..Len(q) /\ i + 1 # 1
    BY <2>1, <1>1
  <2>3. QED
    BY <2>2, <1>1 DEF ToSet, Distinct
<1>4. Distinct(r)
  <2> SUFFICES ASSUME NEW i \in 1..Len(r), NEW j \in 1..Len(r), r[i] = r[j]
               PROVE  i = j
    BY DEF Distinct
  <2>1. q[i + 1] = q[j + 1] /\ i + 1 \in 1..Len(q) /\ j + 1 \in 1..Len(q)
    BY <1>1
  <2>2. i + 1 = j + 1
    BY <2>1 DEF Distinct
  <2>3. QED
    BY <2>2
<1>5. QED
  BY <1>1, <1>2, <1>3, <1>4

Inv == TypeOK /\ OneOwner

LEMMA EmptyQueue == <<>> \in Seq(Conn) /\ ToSet(<<>>) = {} /\ Distinct(<<>>)
BY DEF ToSet, Distinct

(* The server starts with nobody connected.                                *)
LEMMA InitInv == Init => Inv
BY EmptyQueue DEF Init, Inv, TypeOK, OneOwner, Files, Distinct

(* When the process ends, what is left of the queue has no other owner.    *)
LEMMA DownInv == ASSUME Inv, Down PROVE Inv'
<1>1. TypeOK'
  BY EmptyQueue DEF Inv, TypeOK, Down
<1>2. OneOwner'
  <2>1. queue' \in {<<>>, queue} /\ Files' = {}
    BY DEF Down, Files
  <2>2. Distinct(queue')
    BY <2>1, EmptyQueue DEF Inv, OneOwner, Distinct
  <2>3. QED
    BY <2>1, <2>2 DEF Down, OneOwner, Distinct
<1>3. QED
  BY <1>1, <1>2 DEF Inv

(* One step per action; only those that move a connection are of interest. *)
LEMMA StepInv == ASSUME Inv, [Next]_vars PROVE Inv'
<1> USE DEF Inv, TypeOK, OneOwner, Files
<1>1. ASSUME NEW c \in Conn, Connect(c) PROVE Inv'
  <2>1. Distinct(queue) /\ c \notin ToSet(queue) /\ c \notin Files
    BY <1>1 DEF Distinct, Connect, Held
  <2>2. /\ queue' \in Seq(Conn) /\ Distinct(queue')
        /\ ToSet(queue') = ToSet(queue) \cup {c}
    BY <2>1, <1>1, AppendQueue DEF Connect
  <2>3. QED
    BY <1>1, <2>1, <2>2 DEF Connect, Distinct
<1>2. CASE Accept
  <2>1. Distinct(queue) /\ queue # <<>> /\ queue \in Seq(Conn)
    BY <1>2 DEF Distinct, Accept
  <2>2. /\ queue' \in Seq(Conn) /\ Head(queue) \in ToSet(queue)
        /\ ToSet(queue') \subseteq ToSet(queue) \ {Head(queue)}
        /\ Distinct(queue')
    BY <2>1, <1>2, TailQueue DEF Accept
  <2>3. Head(queue) \in Conn
    BY <2>1
  <2>4. QED
    BY <1>2, <2>2, <2>3 DEF Accept, Distinct
<1>3. CASE CreateThread
  BY <1>3 DEF CreateThread
<1>4. CASE CreateFails
  <2>1. CASE Down
    BY <2>1, DownInv
  <2>2. CASE /\ stranded' = stranded \cup accepted
             /\ accepted' = {}
             /\ server' = "accept"
             /\ UNCHANGED <<queue, served, holds, clients>>
    BY <2>2
  <2>3. QED
    BY <1>4, <2>1, <2>2 DEF CreateFails
<1>5. ASSUME NEW c \in Conn, ThreadEnds(c) PROVE Inv'
  BY <1>5 DEF ThreadEnds
<1>6. ASSUME NEW c \in Conn, Leave(c) PROVE Inv'
  BY <1>6 DEF Leave, main
<1>7. ASSUME NEW h \in Child, Start(h) PROVE Inv'
  BY <1>7 DEF Start, main
<1>8. ASSUME NEW h \in Child, ChildEnds(h) PROVE Inv'
  <2>1. queue' \in {<<>>, queue}
    BY <1>8 DEF ChildEnds
  <2>2. QED
    BY <1>8, <2>1, EmptyQueue DEF ChildEnds, Distinct
<1>9. CASE Crash
  BY <1>9, DownInv DEF Crash
<1>10. CASE Restart
  BY <1>10 DEF Restart
<1>11. CASE UNCHANGED vars
  BY <1>11 DEF vars
<1>12. QED
  BY <1>1, <1>2, <1>3, <1>4, <1>5, <1>6, <1>7, <1>8, <1>9, <1>10, <1>11
     DEF Next, Lose

LEMMA Invariance == Spec => []Inv
BY InitInv, StepInv, PTL DEF Spec

(* main's variables and the kernel's keep their types; main holds at most  *)
(* the one connection it is about to give away.                            *)
THEOREM TypeCorrect == Spec => []TypeOK
<1>1. Inv => TypeOK
  BY DEF Inv
<1>2. QED
  BY Invariance, <1>1, PTL

(* Every descriptor of the server has one owner, so that handle_client's   *)
(* close never closes the connection of another client.                    *)
THEOREM OwnerIsOne == Spec => []OneOwner
<1>1. Inv => OneOwner
  BY DEF Inv
<1>2. QED
  BY Invariance, <1>1, PTL

(* A connection whose thread could not be created holds its descriptor for *)
(* as long as the server process runs.                                     *)
THEOREM StrandedForGood ==
  Spec => [][server # "down" /\ server' # "down" => stranded \subseteq stranded']_vars
<1>1. ASSUME [Next]_vars, server # "down", server' # "down"
      PROVE  stranded \subseteq stranded'
  BY <1>1 DEF Next, Connect, Leave, Lose, Accept, CreateThread, CreateFails,
              Down, ThreadEnds, Start, ChildEnds, Crash, Restart, main, vars
<1>2. QED
  BY <1>1, PTL DEF Spec

(* The threads and the started processes can be counted.                   *)
LEMMA TasksIsNat == ASSUME TypeOK PROVE TasksUsed \in Nat
<1>1. IsFiniteSet(served) /\ IsFiniteSet(Running)
  BY FS_Subset DEF TypeOK, Running
<1>2. QED
  BY <1>1, FS_CardinalityType DEF TasksUsed

(* Between accept and pthread_create main has a connection in its hands.   *)
Holding == server = "create" => accepted # {}

LEMMA HoldingAlways == Spec => []Holding
<1>1. Init => Holding
  BY DEF Init, Holding
<1>2. Holding /\ [Next]_vars => Holding'
  BY DEF Holding, Next, Connect, Leave, Lose, Accept, CreateThread, CreateFails,
         Down, ThreadEnds, Start, ChildEnds, Crash, Restart, main, vars
<1>3. QED
  BY <1>1, <1>2, PTL DEF Spec

(* That connection has no thread yet, so that the threads are fewer than   *)
(* the connections.                                                        *)
LEMMA RoomForOne ==
  ASSUME Inv, Holding, server = "create"
  PROVE  TasksUsed < Cardinality(Conn) + Cardinality(Child)
<1>1. PICK c \in Conn : c \in accepted
  BY DEF Holding, Inv, TypeOK
<1>2. served \subseteq Conn \ {c}
  BY <1>1 DEF Inv, TypeOK, OneOwner
<1>3. /\ IsFiniteSet(Conn \ {c})
      /\ Cardinality(Conn \ {c}) = Cardinality(Conn) - 1
  BY FS_RemoveElement
<1>4. Cardinality(served) <= Cardinality(Conn) - 1
  BY <1>2, <1>3, FS_Subset
<1>5. Cardinality(Running) <= Cardinality(Child)
  BY FS_Subset DEF Running
<1>6. /\ Cardinality(Conn) \in Nat /\ Cardinality(Child) \in Nat
      /\ Cardinality(served) \in Nat /\ Cardinality(Running) \in Nat
  <2>1. IsFiniteSet(served) /\ IsFiniteSet(Running)
    BY FS_Subset DEF Inv, TypeOK, Running
  <2>2. QED
    BY <2>1, FS_CardinalityType
<1>7. QED
  BY <1>4, <1>5, <1>6 DEF TasksUsed

(* How large the limit of tasks must be for EveryConnectionServed: a       *)
(* server that may have as many threads and processes as there are         *)
(* connections and started processes at one time gives every accepted      *)
(* connection its thread, whatever crashes, restarts and clients that      *)
(* leave early do in between.                                              *)
THEOREM EnoughTasksServeAll ==
  ASSUME MaxTasks >= Cardinality(Conn) + Cardinality(Child)
  PROVE  Spec => []EveryConnectionServed
<1>1. Init => EveryConnectionServed
  BY DEF Init, EveryConnectionServed
<1>2. ASSUME Inv, Holding, EveryConnectionServed, [Next]_vars
      PROVE  EveryConnectionServed'
  <2>1. ~CreateFails
    <3> SUFFICES ASSUME server = "create" PROVE ~(TasksUsed >= MaxTasks)
      BY DEF CreateFails
    <3>1. TasksUsed < Cardinality(Conn) + Cardinality(Child)
      BY <1>2, RoomForOne
    <3>2. /\ TasksUsed \in Nat
          /\ Cardinality(Conn) \in Nat /\ Cardinality(Child) \in Nat
      BY <1>2, TasksIsNat, FS_CardinalityType DEF Inv
    <3>3. QED
      BY <3>1, <3>2
  <2>2. QED
    BY <1>2, <2>1
       DEF EveryConnectionServed, Next, Connect, Leave, Lose, Accept,
           CreateThread, Down, ThreadEnds, Start, ChildEnds, Crash, Restart,
           main, vars
<1>3. QED
  BY <1>1, <1>2, Invariance, HoldingAlways, PTL DEF Spec
=============================================================================
