--------------------------- MODULE ProcRefinement ---------------------------
(***************************************************************************)
(* ProcServer implements the safety part of ProcService: each step of the  *)
(* server, of its signal handler or of the machine is a step of the        *)
(* abstract service or leaves it alone.                                    *)
(***************************************************************************)
EXTENDS ProcServerProofs

(* A SIGKILL is pending only for processes that still run: it is never     *)
(* inherited by the next process that gets the pid.                        *)
DoomedRun == \A p \in doomed : proc[p] \notin {"free", "zombie"}

LEMMA DoomedRunKept ==
  ASSUME TypeOK, DoomedRun, [Next]_vars
  PROVE  DoomedRun'
<1> USE DEF TypeOK, DoomedRun, table, signals, locals
<1>1. ASSUME NEW t \in Thread, Request(t)
      PROVE  DoomedRun'
  BY <1>1
     DEF Request, Accept, Disconnect, RecvList, RecvStart, RecvRejected,
         RecvExit, RecvStop
<1>2. ASSUME NEW t \in Thread, Popen(t) \/ Fork(t)
      PROVE  DoomedRun'
  BY <1>2 DEF Popen, Fork, Spawn, FreePids
<1>3. ASSUME NEW t \in Thread, Pclose(t) \/ EndedAtOnce(t)
      PROVE  DoomedRun'
  BY <1>3 DEF Pclose, EndedAtOnce, Reap, Naming, At
<1>4. ASSUME NEW t \in Thread,
             PopenFails(t) \/ ForkFails(t) \/ StillRunning(t)
               \/ AssumeStarted(t) \/ Send(t)
      PROVE  DoomedRun'
  BY <1>4 DEF PopenFails, ForkFails, StillRunning, AssumeStarted, Send
<1>5. ASSUME NEW t \in Thread,
             Probe(t) \/ ProbeError(t) \/ KillFails(t) \/ KillFailure(t)
      PROVE  DoomedRun'
  BY <1>5 DEF Probe, ProbeError, KillFails, KillFailure
<1>6. ASSUME NEW t \in Thread, Kill(t)
      PROVE  DoomedRun'
  BY <1>6 DEF Kill, Signalable, Zombies, Naming, At
<1>7. ASSUME NEW t \in Thread \cup {Main}, Handle(t)
      PROVE  DoomedRun'
  BY <1>7 DEF Handle, DeliverSigchld, HandlerReap, HandlerReturn, Reap, Zombies
<1>8. ASSUME NEW p \in Pid, Environment(p)
      PROVE  DoomedRun'
  BY <1>8, ConstantsAssumption
     DEF Environment, ChildExit, ForeignExit, ForeignStart, FreePids
<1>9. CASE UNCHANGED vars
  BY <1>9 DEF vars
<1>10. QED
  BY <1>1, <1>2, <1>3, <1>4, <1>5, <1>6, <1>7, <1>8, <1>9 DEF Next, Serve

-----------------------------------------------------------------------------
(* Abstract effect of the steps, one lemma per kind of concrete step.      *)
LEMMA RequestSimulated ==
  ASSUME TypeOK, NEW t \in Thread, Request(t)
  PROVE  Service!Connect(t) \/ Service!Leave(t) \/ Service!Ask(t)
<1> USE DEF TypeOK, Zombies, table, signals, GoTo, At, Answer
<1>1. CASE Accept(t)
  BY <1>1 DEF Accept, Service!Connect, Service!Move
<1>2. CASE Disconnect(t) \/ RecvExit(t)
  BY <1>2 DEF Disconnect, RecvExit, Service!Leave, Service!Move
<1>3. CASE RecvList(t) \/ RecvStart(t) \/ RecvRejected(t)
             \/ \E p \in Pid : RecvStop(t, p)
  BY <1>3 DEF RecvList, RecvStart, RecvRejected, RecvStop,
              Service!Ask, Service!Move
<1>4. QED
  BY <1>1, <1>2, <1>3 DEF Request

LEMMA SpawnSimulated ==
  ASSUME TypeOK, DoomedRun, NEW t \in Thread, Popen(t) \/ Fork(t)
  PROVE  \E p \in Pid : Service!Create(t, p)
<1> USE DEF TypeOK, DoomedRun
<1>1. PICK p \in FreePids, kind \in Child : proc' = [proc EXCEPT ![p] = kind]
  BY DEF Popen, Fork, Spawn, Child
<1>2. p \in Pid /\ proc[p] = "free" /\ p \notin doomed
  BY DEF FreePids
<1>3. UNCHANGED doomed /\ pc[t] \in {"popen", "fork"}
      /\ pc' \in {[pc EXCEPT ![t] = "pclose"], [pc EXCEPT ![t] = "sleep"]}
  BY DEF Popen, Fork, Spawn, GoTo, At
<1>4. Service!Create(t, p)
  BY <1>1, <1>2, <1>3 DEF Service!Create, Zombies, Child
<1>5. QED
  BY <1>2, <1>4

LEMMA ReapSimulated ==
  ASSUME TypeOK, DoomedRun, NEW p \in Zombies, Reap(p), UNCHANGED doomed,
         \A t \in Thread : pc'[t] = pc[t] \/ {pc[t], pc'[t]} \cap {"none", "recv"} = {},
         pc' \in [Thread -> Location]
  PROVE  Service!Bury(p)
BY DEF TypeOK, DoomedRun, Reap, Zombies, Child, Service!Bury

LEMMA ServeSimulated ==
  ASSUME TypeOK, DoomedRun, NEW t \in Thread, Serve(t)
  PROVE  Service!Next \/ UNCHANGED Service!vars
<1> USE DEF TypeOK, At, Answer, GoTo
<1>1. CASE Popen(t) \/ Fork(t)
  BY <1>1, SpawnSimulated DEF Service!Next
<1>2. CASE Pclose(t) /\ target[t] \in Zombies
  <2>1. target[t] \in Pid /\ Reap(target[t])
    BY <1>2 DEF Pclose, Zombies, Children
  <2>2. Service!Bury(target[t])
    BY <1>2, <2>1, ReapSimulated DEF Pclose, Location
  <2>3. QED
    BY <2>1, <2>2 DEF Service!Next
<1>3. CASE Pclose(t) /\ target[t] \notin Zombies
  BY <1>3 DEF Pclose, Naming, Zombies, Service!vars
<1>4. CASE EndedAtOnce(t)
  <2>1. target[t] \in Pid /\ target[t] \in Zombies
    BY <1>4 DEF EndedAtOnce, Zombies, Naming
  <2>2. Service!Bury(target[t])
    BY <1>4, <2>1, ReapSimulated DEF EndedAtOnce, Location
  <2>3. QED
    BY <2>1, <2>2 DEF Service!Next
<1>5. CASE \/ PopenFails(t) \/ ForkFails(t) \/ StillRunning(t) \/ AssumeStarted(t)
           \/ Probe(t) \/ ProbeError(t) \/ KillFails(t) \/ KillFailure(t)
  BY <1>5 DEF PopenFails, ForkFails, StillRunning, AssumeStarted, Probe, ProbeError,
              KillFails, KillFailure, table, Zombies, Service!vars
<1>6. CASE Kill(t) /\ proc[target[t]] \in Child
  <2>1. PICK p \in Pid : p = target[t]
    BY <1>6 DEF Kill, Naming
  <2>2. Service!Condemn(t, p)
    BY <1>6, <2>1 DEF Kill, Child, Zombies, Service!Condemn
  <2>3. QED
    BY <2>2 DEF Service!Next
<1>7. CASE Kill(t) /\ proc[target[t]] \notin Child
  BY <1>7 DEF Kill, Zombies, Service!vars
<1>8. CASE Send(t)
  <2>1. Service!Done(t)
    BY <1>8 DEF Send, table, Zombies, Service!Done, Service!Move
  <2>2. QED
    BY <2>1 DEF Service!Next
<1>9. QED
  BY <1>1, <1>2, <1>3, <1>4, <1>5, <1>6, <1>7, <1>8 DEF Serve

LEMMA HandleSimulated ==
  ASSUME TypeOK, DoomedRun, NEW t \in Thread \cup {Main}, Handle(t)
  PROVE  Service!Next \/ UNCHANGED Service!vars
<1>1. CASE DeliverSigchld(t) \/ HandlerReturn(t)
  BY <1>1 DEF DeliverSigchld, HandlerReturn, table, locals, Zombies,
              Service!vars
<1>2. ASSUME NEW p \in Pid, HandlerReap(t, p)
      PROVE  Service!Next
  <2>1. Service!Bury(p)
    BY <1>2, ReapSimulated DEF HandlerReap, locals, TypeOK
  <2>2. QED
    BY <2>1 DEF Service!Next
<1>3. QED
  BY <1>1, <1>2 DEF Handle

LEMMA EnvironmentSimulated ==
  ASSUME TypeOK, NEW p \in Pid, Environment(p)
  PROVE  Service!Next \/ UNCHANGED Service!vars
<1> USE ConstantsAssumption DEF TypeOK, locals, Zombies, Child
<1>1. CASE ChildExit(p)
  <2>1. Service!End(p)
    BY <1>1 DEF ChildExit, Service!End
  <2>2. QED
    BY <2>1 DEF Service!Next
<1>2. CASE ForeignExit(p)
  BY <1>2 DEF ForeignExit, Service!vars
<1>3. CASE ForeignStart(p)
  BY <1>3 DEF ForeignStart, FreePids, Service!vars
<1>4. QED
  BY <1>1, <1>2, <1>3 DEF Environment

(* The server implements the abstract service of ProcService: one command  *)
(* at a time per session, children created and killed only on behalf of a  *)
(* busy session, every zombie removed by one waitpid, whichever thread or  *)
(* handler calls it.                                                       *)
THEOREM SafeRefinement == Spec => Service!SafeSpec
<1>1. Init => Service!Init /\ DoomedRun
  BY ConstantsAssumption DEF Init, Service!Init, DoomedRun, Zombies, Child
<1>2. TypeOK /\ DoomedRun /\ [Next]_vars => DoomedRun'
  BY DoomedRunKept
<1>3. TypeOK /\ DoomedRun /\ [Next]_vars => [Service!Next]_(Service!vars)
  <2> SUFFICES ASSUME TypeOK, DoomedRun, [Next]_vars
               PROVE  Service!Next \/ UNCHANGED Service!vars
    OBVIOUS
  <2>1. ASSUME NEW t \in Thread, Request(t)
        PROVE  Service!Next
    BY <2>1, RequestSimulated DEF Service!Next
  <2>2. ASSUME NEW t \in Thread, Serve(t)
        PROVE  Service!Next \/ UNCHANGED Service!vars
    BY <2>2, ServeSimulated
  <2>3. ASSUME NEW t \in Thread \cup {Main}, Handle(t)
        PROVE  Service!Next \/ UNCHANGED Service!vars
    BY <2>3, HandleSimulated
  <2>4. ASSUME NEW p \in Pid, Environment(p)
        PROVE  Service!Next \/ UNCHANGED Service!vars
    BY <2>4, EnvironmentSimulated
  <2>5. CASE UNCHANGED vars
    BY <2>5 DEF vars, Zombies, Service!vars
  <2>6. QED
    BY <2>1, <2>2, <2>3, <2>4, <2>5 DEF Next
<1>4. QED
  BY <1>1, <1>2, <1>3, TypeCorrect, PTL DEF Spec, Service!SafeSpec
=============================================================================
