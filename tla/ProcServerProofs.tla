-------------------------- MODULE ProcServerProofs --------------------------
(***************************************************************************)
(* Theorems about ProcServer for any number of clients and pids, with and  *)
(* without reuse of pids: type correctness, no zombie is lost, and (when   *)
(* pids are not reused) a thread's verdict is about its own child.         *)
(***************************************************************************)
EXTENDS ProcServer, TLAPS

USE ConstantsAssumption

(* The initial process table and thread locals are of the declared types.  *)
LEMMA InitType == Init => TypeOK
<1> SUFFICES ASSUME Init PROVE TypeOK
  OBVIOUS
<1> USE DEF Init
<1>1. proc \in [Pid -> ProcState]
  BY DEF ProcState
<1>2. /\ doomed \in SUBSET Pid
      /\ handling \in SUBSET (Thread \cup {Main})
      /\ owner \in [Pid -> Thread \cup {Main}]
  OBVIOUS
<1>3. forks \in 0..MaxForks
  OBVIOUS
<1>4. /\ errno \in [Thread -> Errno]
      /\ pc \in [Thread -> Location]
      /\ target \in [Thread -> Pid \cup {NoPid}]
      /\ reply \in [Thread -> Reply]
  BY DEF Errno, Location, Reply
<1>5. \A t \in Thread : pc[t] \in Naming => target[t] # NoPid
  BY DEF Naming
<1>6. sigchld \in BOOLEAN
  BY Zenon
<1>7. QED
  BY <1>1, <1>2, <1>3, <1>4, <1>5, <1>6 DEF TypeOK

(* The connection and dispatch steps of handle_client keep the types.      *)
LEMMA RequestType ==
  ASSUME TypeOK, NEW t \in Thread, Request(t)
  PROVE  TypeOK'
<1> USE DEF TypeOK, table, signals, Location, Naming, Reply, GoTo, At
<1>1. CASE Accept(t)
  BY <1>1 DEF Accept
<1>2. CASE Disconnect(t)
  BY <1>2 DEF Disconnect
<1>3. CASE RecvList(t)
  BY <1>3 DEF RecvList
<1>4. CASE RecvStart(t)
  BY <1>4 DEF RecvStart
<1>5. CASE RecvRejected(t)
  BY <1>5 DEF RecvRejected, Answer
<1>6. CASE RecvExit(t)
  BY <1>6 DEF RecvExit
<1>7. CASE \E p \in Pid : RecvStop(t, p)
  BY <1>7 DEF RecvStop
<1>8. QED
  BY <1>1, <1>2, <1>3, <1>4, <1>5, <1>6, <1>7 DEF Request

(* So do the system calls of start_process, list_processes, stop_process.  *)
LEMMA ServeType ==
  ASSUME TypeOK, NEW t \in Thread, Serve(t)
  PROVE  TypeOK'
<1> USE DEF TypeOK, table, signals, Location, Naming, Reply, GoTo, At, Answer
<1>1. CASE Popen(t)
  BY <1>1 DEF Popen, Spawn, FreePids, ProcState, Child
<1>2. CASE Fork(t)
  BY <1>2 DEF Fork, Spawn, FreePids, ProcState, Child
<1>3. CASE PopenFails(t) \/ ForkFails(t)
  BY <1>3 DEF PopenFails, ForkFails
<1>4. CASE Pclose(t)
  BY <1>4 DEF Pclose, Reap, ProcState
<1>5. CASE StillRunning(t)
  BY <1>5 DEF StillRunning
<1>6. CASE EndedAtOnce(t)
  BY <1>6 DEF EndedAtOnce, Reap, ProcState
<1>7. CASE AssumeStarted(t)
  BY <1>7 DEF AssumeStarted
<1>8. CASE Probe(t)
  BY <1>8 DEF Probe, SetErrno, KillError, Errno
<1>9. CASE ProbeError(t)
  BY <1>9 DEF ProbeError, SetErrno, Errno
<1>10. CASE Kill(t)
  BY <1>10 DEF Kill
<1>11. CASE KillFails(t)
  BY <1>11 DEF KillFails, SetErrno, KillError, Errno
<1>12. CASE KillFailure(t)
  BY <1>12 DEF KillFailure, SetErrno, Errno
<1>13. CASE Send(t)
  BY <1>13 DEF Send
<1>14. QED
  BY <1>1, <1>2, <1>3, <1>4, <1>5, <1>6, <1>7, <1>8, <1>9, <1>10, <1>11,
     <1>12, <1>13 DEF Serve

(* So does sigchld_handler, in whatever thread it runs.                    *)
LEMMA HandleType ==
  ASSUME TypeOK, NEW t \in Thread \cup {Main}, Handle(t)
  PROVE  TypeOK'
<1> USE DEF TypeOK, table, locals, signals
<1>1. CASE DeliverSigchld(t)
  <2>1. sigchld' \in BOOLEAN
    BY <1>1, Zenon DEF DeliverSigchld
  <2>2. QED
    BY <1>1, <2>1 DEF DeliverSigchld
<1>2. CASE \E p \in Pid : HandlerReap(t, p)
  BY <1>2 DEF HandlerReap, Reap, ProcState
<1>3. CASE HandlerReturn(t)
  BY <1>3 DEF HandlerReturn, SetErrno, Errno
<1>4. QED
  BY <1>1, <1>2, <1>3 DEF Handle

(* So does the rest of the machine.                                        *)
LEMMA EnvironmentType ==
  ASSUME TypeOK, NEW p \in Pid, Environment(p)
  PROVE  TypeOK'
<1> USE DEF TypeOK, locals, signals
<1>1. CASE ChildExit(p)
  <2>1. sigchld' \in BOOLEAN
    BY <1>1, Zenon DEF ChildExit
  <2>2. QED
    BY <1>1, <2>1 DEF ChildExit, ProcState
<1>2. CASE ForeignExit(p)
  BY <1>2 DEF ForeignExit, ProcState
<1>3. CASE ForeignStart(p)
  BY <1>3 DEF ForeignStart, ProcState
<1>4. QED
  BY <1>1, <1>2, <1>3 DEF Environment

(* The variables of main.c and of its process table keep their types, and  *)
(* a thread that waits for or signals a process names one.                 *)
THEOREM TypeCorrect == Spec => []TypeOK
<1>1. TypeOK /\ [Next]_vars => TypeOK'
  <2> SUFFICES ASSUME TypeOK, [Next]_vars
               PROVE  TypeOK'
    OBVIOUS
  <2>1. CASE \E t \in Thread : Request(t) \/ Serve(t)
    BY <2>1, RequestType, ServeType
  <2>2. CASE \E t \in Thread \cup {Main} : Handle(t)
    BY <2>2, HandleType
  <2>3. CASE \E p \in Pid : Environment(p)
    BY <2>3, EnvironmentType
  <2>4. CASE UNCHANGED vars
    BY <2>4 DEF vars, TypeOK
  <2>5. QED
    BY <2>1, <2>2, <2>3, <2>4 DEF Next
<1>2. QED
  BY <1>1, InitType, PTL DEF Spec

-----------------------------------------------------------------------------
(* A step that creates no zombie and leaves the signal and the handlers    *)
(* alone cannot lose one.                                                  *)
LEMMA NoNewZombie ==
  ASSUME NoLostZombie, Zombies' \subseteq Zombies, UNCHANGED signals
  PROVE  NoLostZombie'
BY DEF NoLostZombie, signals

(* The threads' own steps only ever remove zombies.                        *)
LEMMA ThreadsMakeNoZombie ==
  ASSUME TypeOK, NEW t \in Thread, Request(t) \/ Serve(t)
  PROVE  Zombies' \subseteq Zombies /\ UNCHANGED signals
<1> USE DEF TypeOK, Zombies, table, signals
<1>1. CASE Request(t)
  BY <1>1 DEF Request, Accept, Disconnect, RecvList, RecvStart, RecvRejected,
              RecvExit, RecvStop
<1>2. CASE Popen(t) \/ Fork(t)
  BY <1>2 DEF Popen, Fork, Spawn
<1>3. CASE Pclose(t) \/ EndedAtOnce(t)
  BY <1>3 DEF Pclose, EndedAtOnce, Reap
<1>4. CASE PopenFails(t) \/ ForkFails(t) \/ StillRunning(t)
               \/ AssumeStarted(t) \/ Send(t)
  BY <1>4 DEF PopenFails, ForkFails, StillRunning, AssumeStarted, Send
<1>5. CASE Probe(t) \/ ProbeError(t) \/ Kill(t) \/ KillFails(t) \/ KillFailure(t)
  BY <1>5 DEF Probe, ProbeError, Kill, KillFails, KillFailure
<1>6. QED
  BY <1>1, <1>2, <1>3, <1>4, <1>5 DEF Serve

(* SIGCHLDs merge, threads are interrupted anywhere and several may be in  *)
(* sigchld_handler at once; still a zombie always has a pending signal or  *)
(* a running handler to reap it.                                           *)
THEOREM ZombiesNotLost == Spec => []NoLostZombie
<1>1. Init => NoLostZombie
  BY DEF Init, NoLostZombie, Zombies
<1>2. TypeOK /\ NoLostZombie /\ [Next]_vars => NoLostZombie'
  <2> SUFFICES ASSUME TypeOK, NoLostZombie, [Next]_vars
               PROVE  NoLostZombie'
    OBVIOUS
  <2>1. CASE \E t \in Thread : Request(t) \/ Serve(t)
    BY <2>1, ThreadsMakeNoZombie, NoNewZombie
  <2>2. ASSUME NEW t \in Thread \cup {Main}, DeliverSigchld(t)
        PROVE  NoLostZombie'
    BY <2>2 DEF DeliverSigchld, NoLostZombie
  <2>3. ASSUME NEW t \in Thread \cup {Main}, NEW p \in Pid, HandlerReap(t, p)
        PROVE  NoLostZombie'
    BY <2>3, NoNewZombie DEF HandlerReap, Reap, Zombies, TypeOK
  <2>4. ASSUME NEW t \in Thread \cup {Main}, HandlerReturn(t)
        PROVE  NoLostZombie'
    BY <2>4 DEF HandlerReturn, NoLostZombie, Zombies, table
  <2>5. ASSUME NEW p \in Pid, ChildExit(p)
        PROVE  NoLostZombie'
    BY <2>5 DEF ChildExit, NoLostZombie
  <2>6. ASSUME NEW p \in Pid, ForeignExit(p) \/ ForeignStart(p)
        PROVE  NoLostZombie'
    BY <2>6, NoNewZombie DEF ForeignExit, ForeignStart, Zombies, TypeOK
  <2>7. CASE UNCHANGED vars
    BY <2>7, NoNewZombie DEF vars, Zombies, signals
  <2>8. QED
    BY <2>1, <2>2, <2>3, <2>4, <2>5, <2>6, <2>7 DEF Next, Handle, Environment
<1>3. QED
  BY <1>1, <1>2, TypeCorrect, PTL DEF Spec

-----------------------------------------------------------------------------
(* If the kernel does not give out a pid that a thread still waits for,    *)
(* the pid names the thread's own child for as long as it names a child.   *)
Waiting(t) == pc[t] \in {"sleep", "pclose"}

HeldIsMine ==
  \A t \in Thread :
    Waiting(t) /\ target[t] \in Children => owner[target[t]] = t

(* A step that starts nobody waiting, adds no child and changes no owner   *)
(* of a child keeps HeldIsMine.                                            *)
LEMMA HeldKept ==
  ASSUME HeldIsMine, Children' \subseteq Children,
         \A p \in Children' : owner'[p] = owner[p],
         \A t \in Thread : Waiting(t)' => Waiting(t) /\ target'[t] = target[t]
  PROVE  HeldIsMine'
BY DEF HeldIsMine

(* Every step but a fork is of that kind.                                  *)
LEMMA OthersKeepHeld ==
  ASSUME TypeOK, HeldIsMine, [Next]_vars,
         \A t \in Thread : ~Popen(t) /\ ~Fork(t)
  PROVE  HeldIsMine'
<1> USE DEF TypeOK, table, signals, locals, GoTo, Children, Child, Waiting
<1>1. ASSUME NEW t \in Thread, Request(t)
      PROVE  HeldIsMine'
  BY <1>1, HeldKept
     DEF Request, Accept, Disconnect, RecvList, RecvStart, RecvRejected,
         RecvExit, RecvStop, Answer, At
<1>2. ASSUME NEW t \in Thread, Pclose(t) \/ EndedAtOnce(t)
      PROVE  HeldIsMine'
  BY <1>2, HeldKept DEF Pclose, EndedAtOnce, Reap, Answer, At
<1>3. ASSUME NEW t \in Thread,
             PopenFails(t) \/ ForkFails(t) \/ StillRunning(t)
               \/ AssumeStarted(t) \/ Send(t)
      PROVE  HeldIsMine'
  BY <1>3, HeldKept
     DEF PopenFails, ForkFails, StillRunning, AssumeStarted, Send, Answer, At
<1>4. ASSUME NEW t \in Thread,
             \/ Probe(t) \/ ProbeError(t)
             \/ Kill(t) \/ KillFails(t) \/ KillFailure(t)
      PROVE  HeldIsMine'
  BY <1>4, HeldKept
     DEF Probe, ProbeError, Kill, KillFails, KillFailure, Answer, At
<1>5. ASSUME NEW t \in Thread \cup {Main}, Handle(t)
      PROVE  HeldIsMine'
  BY <1>5, HeldKept
     DEF Handle, DeliverSigchld, HandlerReap, HandlerReturn, Reap
<1>6. ASSUME NEW p \in Pid, Environment(p)
      PROVE  HeldIsMine'
  BY <1>6, HeldKept, ConstantsAssumption
     DEF Environment, ChildExit, ForeignExit, ForeignStart, FreePids
<1>7. CASE UNCHANGED vars
  BY <1>7, HeldKept DEF vars
<1>8. QED
  BY <1>1, <1>2, <1>3, <1>4, <1>5, <1>6, <1>7 DEF Next, Serve

(* A fork takes a pid nobody waits for.                                    *)
LEMMA ForkKeepsHeld ==
  ASSUME ~Reuse, TypeOK, HeldIsMine,
         NEW t \in Thread, Popen(t) \/ Fork(t)
  PROVE  HeldIsMine'
<1> USE DEF TypeOK, Waiting
<1>1. PICK p \in FreePids, kind \in Child :
         /\ proc' = [proc EXCEPT ![p] = kind]
         /\ owner' = [owner EXCEPT ![p] = t]
         /\ target' = [target EXCEPT ![t] = p]
  BY DEF Popen, Fork, Spawn, Child
<1>2. p \in Pid /\ p \notin Held
  BY DEF FreePids
<1>3. \A u \in Thread \ {t} :
         Waiting(u)' => Waiting(u) /\ target'[u] = target[u] /\ target[u] # p
  BY <1>1, <1>2 DEF Popen, Fork, GoTo, Held
<1>4. \A q \in Pid \ {p} : owner'[q] = owner[q] /\ (q \in Children' => q \in Children)
  BY <1>1 DEF Children
<1>5. target'[t] = p /\ owner'[p] = t
  BY <1>1, <1>2
<1>6. Children' \subseteq Pid
  BY DEF Children
<1>7. QED
  BY <1>3, <1>4, <1>5, <1>6 DEF HeldIsMine

(* A thread has an answer in its buffer only when it is about to send it.  *)
ReplyAtSend == \A t \in Thread : reply[t] # "none" => pc[t] = "send"

LEMMA ReplyKept ==
  ASSUME TypeOK, ReplyAtSend, [Next]_vars
  PROVE  ReplyAtSend'
<1> USE DEF TypeOK, ReplyAtSend, table, signals, locals, GoTo, At, Answer
<1>1. ASSUME NEW t \in Thread, Request(t)
      PROVE  ReplyAtSend'
  BY <1>1
     DEF Request, Accept, Disconnect, RecvList, RecvStart, RecvRejected,
         RecvExit, RecvStop
<1>2. ASSUME NEW t \in Thread, Popen(t) \/ Fork(t) \/ PopenFails(t)
               \/ ForkFails(t) \/ Pclose(t)
      PROVE  ReplyAtSend'
  BY <1>2 DEF Popen, Fork, PopenFails, ForkFails, Pclose
<1>3. ASSUME NEW t \in Thread,
             StillRunning(t) \/ EndedAtOnce(t) \/ AssumeStarted(t) \/ Send(t)
      PROVE  ReplyAtSend'
  BY <1>3 DEF StillRunning, EndedAtOnce, AssumeStarted, Send
<1>4. ASSUME NEW t \in Thread,
             \/ Probe(t) \/ ProbeError(t)
             \/ Kill(t) \/ KillFails(t) \/ KillFailure(t)
      PROVE  ReplyAtSend'
  BY <1>4 DEF Probe, ProbeError, Kill, KillFails, KillFailure
<1>5. ASSUME NEW t \in Thread \cup {Main}, Handle(t)
      PROVE  ReplyAtSend'
  BY <1>5 DEF Handle, DeliverSigchld, HandlerReap, HandlerReturn
<1>6. ASSUME NEW p \in Pid, Environment(p)
      PROVE  ReplyAtSend'
  BY <1>6 DEF Environment, ChildExit, ForeignExit, ForeignStart
<1>7. CASE UNCHANGED vars
  BY <1>7 DEF vars
<1>8. QED
  BY <1>1, <1>2, <1>3, <1>4, <1>5, <1>6, <1>7 DEF Next, Serve

(* What OwnVerdict says of one step.                                       *)
OwnVerdictStep ==
  \A t \in Thread :
    pc[t] = "sleep" /\ reply'[t] = "ended" =>
      /\ owner[target[t]] = t
      /\ target[t] \in Zombies
      /\ proc'[target[t]] = "free"

(* Only EndedAtOnce gives that answer.                                     *)
LEMMA OnlyEndedAtOnce ==
  ASSUME TypeOK, ReplyAtSend, [Next]_vars,
         NEW t \in Thread, pc[t] = "sleep", reply'[t] = "ended"
  PROVE  EndedAtOnce(t)
<1> USE DEF TypeOK, ReplyAtSend, table, signals, locals, GoTo, At, Answer
<1>1. reply[t] = "none"
  OBVIOUS
<1>2. ASSUME NEW u \in Thread, Request(u)
      PROVE  FALSE
  BY <1>1, <1>2
     DEF Request, Accept, Disconnect, RecvList, RecvStart, RecvRejected,
         RecvExit, RecvStop
<1>3. ASSUME NEW u \in Thread,
             \/ Popen(u) \/ Fork(u) \/ PopenFails(u) \/ ForkFails(u) \/ Pclose(u)
             \/ StillRunning(u) \/ AssumeStarted(u) \/ Send(u)
      PROVE  FALSE
  BY <1>1, <1>3
     DEF Popen, Fork, PopenFails, ForkFails, Pclose, StillRunning, AssumeStarted, Send
<1>4. ASSUME NEW u \in Thread,
             \/ Probe(u) \/ ProbeError(u)
             \/ Kill(u) \/ KillFails(u) \/ KillFailure(u)
      PROVE  FALSE
  BY <1>1, <1>4 DEF Probe, ProbeError, Kill, KillFails, KillFailure
<1>5. ASSUME NEW u \in Thread, u # t, EndedAtOnce(u)
      PROVE  FALSE
  BY <1>1, <1>5 DEF EndedAtOnce
<1>6. ASSUME NEW u \in Thread \cup {Main}, Handle(u)
      PROVE  FALSE
  BY <1>1, <1>6 DEF Handle, DeliverSigchld, HandlerReap, HandlerReturn
<1>7. ASSUME NEW p \in Pid, Environment(p)
      PROVE  FALSE
  BY <1>1, <1>7 DEF Environment, ChildExit, ForeignExit, ForeignStart
<1>8. ~UNCHANGED vars
  BY <1>1 DEF vars
<1>9. QED
  BY <1>2, <1>3, <1>4, <1>5, <1>6, <1>7, <1>8 DEF Next, Serve

(* Without reuse of pids under a waiting thread, "termino inmediatamente"  *)
(* is only ever said of the process the answering thread created itself.   *)
THEOREM VerdictIsOwn ==
  ASSUME ~Reuse
  PROVE  Spec => OwnVerdict
<1>1. Init => HeldIsMine /\ ReplyAtSend
  BY DEF Init, HeldIsMine, ReplyAtSend, Waiting
<1>2. TypeOK /\ HeldIsMine /\ ReplyAtSend /\ [Next]_vars
        => (HeldIsMine /\ ReplyAtSend)'
  BY OthersKeepHeld, ForkKeepsHeld, ReplyKept
<1>3. TypeOK /\ HeldIsMine /\ ReplyAtSend /\ [Next]_vars => OwnVerdictStep
  BY OnlyEndedAtOnce
     DEF OwnVerdictStep, HeldIsMine, Waiting, EndedAtOnce, Reap, Zombies,
         Children, At, TypeOK, Naming
<1>4. OwnVerdict <=> [][OwnVerdictStep]_vars
  BY DEF OwnVerdict, OwnVerdictStep
<1>5. QED
  BY <1>1, <1>2, <1>3, <1>4, TypeCorrect, PTL DEF Spec

-----------------------------------------------------------------------------
(* The pid start_process has in hand names its own child, or nothing: no   *)
(* other thread's process and none of the host's.                          *)
NotForeign == \A t \in Thread : Waiting(t) => proc[target[t]] \notin Other

LEMMA NotForeignKept ==
  ASSUME ~Reuse, TypeOK, NotForeign, [Next]_vars
  PROVE  NotForeign'
<1> USE DEF TypeOK, NotForeign, Waiting, table, signals, locals, GoTo, At, Answer
<1>0. "free" \notin Other /\ "zombie" \notin Other /\ Child \cap Other = {}
  BY DEF Child
<1>1. ASSUME NEW t \in Thread, Request(t)
      PROVE  NotForeign'
  BY <1>1
     DEF Request, Accept, Disconnect, RecvList, RecvStart, RecvRejected,
         RecvExit, RecvStop
<1>2. ASSUME NEW t \in Thread, Popen(t) \/ Fork(t)
      PROVE  NotForeign'
  <2>1. PICK p \in FreePids, kind \in Child :
          /\ proc' = [proc EXCEPT ![p] = kind]
          /\ target' = [target EXCEPT ![t] = p]
    BY <1>2 DEF Popen, Fork, Spawn, Child
  <2>2. p \in Pid /\ proc'[p] \notin Other
    BY <1>0, <2>1 DEF FreePids
  <2>3. \A u \in Thread \ {t} : Waiting(u)' => Waiting(u) /\ target'[u] = target[u]
    BY <1>2, <2>1 DEF Popen, Fork
  <2>4. QED
    BY <2>1, <2>2, <2>3
<1>3. ASSUME NEW t \in Thread, Pclose(t) \/ EndedAtOnce(t)
      PROVE  NotForeign'
  BY <1>3 DEF Pclose, EndedAtOnce, Reap, Naming
<1>4. ASSUME NEW t \in Thread,
             PopenFails(t) \/ ForkFails(t) \/ StillRunning(t)
               \/ AssumeStarted(t) \/ Send(t)
      PROVE  NotForeign'
  BY <1>4 DEF PopenFails, ForkFails, StillRunning, AssumeStarted, Send
<1>5. ASSUME NEW t \in Thread,
             \/ Probe(t) \/ ProbeError(t)
             \/ Kill(t) \/ KillFails(t) \/ KillFailure(t)
      PROVE  NotForeign'
  BY <1>5 DEF Probe, ProbeError, Kill, KillFails, KillFailure
<1>6. ASSUME NEW t \in Thread \cup {Main}, Handle(t)
      PROVE  NotForeign'
  <2>1. \A p \in Pid : proc'[p] \in {proc[p], "free"}
    BY <1>6 DEF Handle, DeliverSigchld, HandlerReap, HandlerReturn, Reap
  <2>2. UNCHANGED <<pc, target>>
    BY <1>6 DEF Handle, DeliverSigchld, HandlerReap, HandlerReturn
  <2>3. QED
    BY <1>0, <2>1, <2>2 DEF Naming
<1>7. ASSUME NEW p \in Pid, Environment(p)
      PROVE  NotForeign'
  <2>1. UNCHANGED <<pc, target>>
    BY <1>7 DEF Environment, ChildExit, ForeignExit, ForeignStart
  <2>2. CASE ChildExit(p) \/ ForeignExit(p)
    BY <1>0, <2>1, <2>2 DEF ChildExit, ForeignExit, Naming
  <2>3. CASE ForeignStart(p)
    <3>1. p \notin Held
      BY <2>3 DEF ForeignStart, FreePids
    <3>2. \A t \in Thread : Waiting(t) => target[t] # p
      BY <3>1 DEF Held
    <3>3. QED
      BY <2>1, <2>3, <3>2 DEF ForeignStart, Naming
  <2>4. QED
    BY <1>7, <2>2, <2>3 DEF Environment
<1>8. CASE UNCHANGED vars
  BY <1>8 DEF vars
<1>9. QED
  BY <1>1, <1>2, <1>3, <1>4, <1>5, <1>6, <1>7, <1>8 DEF Next, Serve

(* "iniciado" is said of the answering thread's own child, if of a process *)
(* at all.                                                                 *)
StartedOwnStep ==
  \A t \in Thread :
    pc[t] = "sleep" /\ reply'[t] = "started" =>
      \/ target[t] \in Children /\ owner[target[t]] = t
      \/ proc[target[t]] = "free"

(* Without reuse of pids under a waiting thread, "iniciado con PID" names  *)
(* the child the answering thread created, or a pid that is free because   *)
(* that child has been reaped; never another client's process.             *)
THEOREM StartedIsOwn ==
  ASSUME ~Reuse
  PROVE  Spec => [][StartedOwnStep]_vars
<1>1. Init => HeldIsMine /\ NotForeign
  BY DEF Init, HeldIsMine, NotForeign, Waiting
<1>2. TypeOK /\ HeldIsMine /\ NotForeign /\ [Next]_vars
        => (HeldIsMine /\ NotForeign)'
  BY OthersKeepHeld, ForkKeepsHeld, NotForeignKept
<1>3. TypeOK /\ HeldIsMine /\ NotForeign => StartedOwnStep
  <2> SUFFICES ASSUME TypeOK, HeldIsMine, NotForeign,
                      NEW t \in Thread, pc[t] = "sleep"
               PROVE  \/ target[t] \in Children /\ owner[target[t]] = t
                      \/ proc[target[t]] = "free"
    BY DEF StartedOwnStep
  <2>1. target[t] \in Pid /\ Waiting(t)
    BY DEF TypeOK, Naming, Waiting
  <2>2. proc[target[t]] \in Child \cup {"free", "zombie"}
    BY <2>1 DEF TypeOK, NotForeign, ProcState
  <2>3. QED
    BY <2>1, <2>2 DEF HeldIsMine, Children
<1>4. QED
  BY <1>1, <1>2, <1>3, TypeCorrect, PTL DEF Spec

(* sigchld_handler takes the dead child of a thread that sleeps in         *)
(* start_process, before that thread's own waitpid.                        *)
ReapsSleeper ==
  \E h \in Thread \cup {Main}, p \in Pid :
    HandlerReap(h, p) /\ \E t \in Thread : pc[t] = "sleep" /\ target[t] = p

SleeperHasChild == \A t \in Thread : pc[t] = "sleep" => target[t] \in Children

(* No other step takes the child away: another thread's pclose waits for   *)
(* its own.                                                                *)
LEMMA SleeperKept ==
  ASSUME ~Reuse, TypeOK, HeldIsMine, SleeperHasChild, [Next]_vars, ~ReapsSleeper
  PROVE  SleeperHasChild'
<1> USE DEF TypeOK, SleeperHasChild, table, signals, locals, GoTo, At, Answer,
            Children, Child
<1>1. ASSUME NEW t \in Thread, Request(t)
      PROVE  SleeperHasChild'
  BY <1>1
     DEF Request, Accept, Disconnect, RecvList, RecvStart, RecvRejected,
         RecvExit, RecvStop
<1>2. ASSUME NEW t \in Thread, Popen(t) \/ Fork(t)
      PROVE  SleeperHasChild'
  BY <1>2 DEF Popen, Fork, Spawn, FreePids
<1>3. ASSUME NEW t \in Thread, Pclose(t) \/ EndedAtOnce(t)
      PROVE  SleeperHasChild'
  <2>1. \A u \in Thread \ {t} : pc[u] = "sleep" => target[u] # target[t]
    BY <1>3 DEF Pclose, EndedAtOnce, HeldIsMine, Waiting, Zombies
  <2>2. QED
    BY <1>3, <2>1 DEF Pclose, EndedAtOnce, Reap
<1>4. ASSUME NEW t \in Thread,
             PopenFails(t) \/ ForkFails(t) \/ StillRunning(t)
               \/ AssumeStarted(t) \/ Send(t)
      PROVE  SleeperHasChild'
  BY <1>4 DEF PopenFails, ForkFails, StillRunning, AssumeStarted, Send
<1>5. ASSUME NEW t \in Thread,
             \/ Probe(t) \/ ProbeError(t)
             \/ Kill(t) \/ KillFails(t) \/ KillFailure(t)
      PROVE  SleeperHasChild'
  BY <1>5 DEF Probe, ProbeError, Kill, KillFails, KillFailure
<1>6. ASSUME NEW t \in Thread \cup {Main}, NEW p \in Pid, HandlerReap(t, p)
      PROVE  SleeperHasChild'
  BY <1>6 DEF ReapsSleeper, HandlerReap, Reap
<1>7. ASSUME NEW t \in Thread \cup {Main}, DeliverSigchld(t) \/ HandlerReturn(t)
      PROVE  SleeperHasChild'
  BY <1>7 DEF DeliverSigchld, HandlerReturn
<1>8. ASSUME NEW p \in Pid, Environment(p)
      PROVE  SleeperHasChild'
  BY <1>8, ConstantsAssumption
     DEF Environment, ChildExit, ForeignExit, ForeignStart, FreePids
<1>9. CASE UNCHANGED vars
  BY <1>9 DEF vars
<1>10. QED
  BY <1>1, <1>2, <1>3, <1>4, <1>5, <1>6, <1>7, <1>8, <1>9
     DEF Next, Serve, Handle

(* What start_process's comments promise would hold if sigchld_handler     *)
(* left the children of sleeping threads alone: its waitpid(-1) is the     *)
(* only cause of "iniciado" being answered for a process that has ended.   *)
THEOREM HandlerMakesStartedWrong ==
  ASSUME ~Reuse
  PROVE  Spec /\ [][~ReapsSleeper]_vars => StartedIsAlive
<1> DEFINE Alive == \A t \in Thread :
              pc[t] = "sleep" /\ reply'[t] = "started" => target[t] \in Children
<1>1. Init => HeldIsMine /\ SleeperHasChild
  BY DEF Init, HeldIsMine, SleeperHasChild, Waiting
<1>2. TypeOK /\ HeldIsMine /\ SleeperHasChild /\ [Next]_vars /\ [~ReapsSleeper]_vars
        => (HeldIsMine /\ SleeperHasChild)'
  <2> SUFFICES ASSUME TypeOK, HeldIsMine, SleeperHasChild, [Next]_vars,
                      [~ReapsSleeper]_vars
               PROVE  (HeldIsMine /\ SleeperHasChild)'
    OBVIOUS
  <2>1. HeldIsMine'
    BY OthersKeepHeld, ForkKeepsHeld
  <2>2. CASE ~ReapsSleeper
    BY <2>1, <2>2, SleeperKept
  <2>3. CASE UNCHANGED vars
    BY <2>1, <2>3 DEF vars, SleeperHasChild, Children
  <2>4. QED
    BY <2>2, <2>3
<1>3. SleeperHasChild => Alive
  BY DEF SleeperHasChild
<1>4. StartedIsAlive <=> [][Alive]_vars
  BY DEF StartedIsAlive
<1>5. QED
  BY <1>1, <1>2, <1>3, <1>4, TypeCorrect, PTL DEF Spec
=============================================================================
