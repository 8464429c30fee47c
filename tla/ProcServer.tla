----------------------------- MODULE ProcServer -----------------------------
(***************************************************************************)
(* The server's management of processes (src/server/main.c): one thread    *)
(* per client that starts, lists and stops processes, and the SIGCHLD      *)
(* handler that any of the threads may be interrupted by.                  *)
(*                                                                         *)
(* The operating system's process table, the pending SIGCHLD and errno are *)
(* external to src/ and are modelled as the code uses them: fork, waitpid, *)
(* kill, popen, pclose and sigaction with SA_RESTART | SA_NOCLDSTOP.       *)
(* The texts of commands and answers are abstracted to their kinds.        *)
(***************************************************************************)
EXTENDS Naturals, FiniteSets

CONSTANTS Thread,    \* slots for the threads that run handle_client
          Main,      \* the thread that runs main's accept loop
          Pid,       \* process ids other than 1 and the server's own
          Other,     \* kinds of the host's other processes
          NoPid,     \* "no process id" in a thread's local variables
          MaxForks,  \* bound: processes the server creates in a behaviour
          Reuse      \* may the kernel give out a pid a thread still waits for?

ASSUME ConstantsAssumption ==
  /\ Main \notin Thread
  /\ NoPid \notin Pid
  /\ Other \subseteq {"foreign", "protected"}
  /\ MaxForks \in Nat
  /\ Reuse \in BOOLEAN

VARIABLES
  proc,      \* the kernel's process table
  doomed,    \* running processes that have a SIGKILL pending
  owner,     \* auxiliary: the thread that forked the process, else Main
  sigchld,   \* a SIGCHLD is pending for the server (signals do not queue)
  handling,  \* the threads that are inside sigchld_handler
  errno,     \* each thread's errno, from a failed kill to the test of it
  pc,        \* where each handle_client thread is
  target,    \* the pid in the thread's local variable
  reply,     \* the answer in the thread's response buffer
  forks      \* number of processes created so far

table == <<proc, doomed, owner, forks>>
locals == <<pc, target, reply>>
signals == <<sigchld, handling>>
vars == <<proc, doomed, owner, forks, sigchld, handling, errno,
          pc, target, reply>>

Child == {"cmd", "ps"}                         \* running children
ProcState == Child \cup Other \cup {"free", "zombie"}
Errno == {"none", "ECHILD", "ESRCH", "EPERM"}
Reply == {"none", "error", "list", "started", "ended",
          "killed", "esrch", "eperm", "noaccess", "failed"}
Location == {"none", "recv", "popen", "pclose", "fork", "sleep",
             "probe", "probeErr", "kill", "killErr", "send"}
Naming == {"pclose", "sleep", "probe", "probeErr", "kill", "killErr"}

Init ==
  /\ proc \in [Pid -> {"free"} \cup Other]
  /\ doomed = {}
  /\ owner = [p \in Pid |-> Main]
  /\ forks = 0
  /\ sigchld = FALSE
  /\ handling = {}
  /\ errno = [t \in Thread |-> "none"]
  /\ pc = [t \in Thread |-> "none"]
  /\ target = [t \in Thread |-> NoPid]
  /\ reply = [t \in Thread |-> "none"]

(***************************************************************************)
(* Helpers.  A thread runs its own code only while it is not inside the    *)
(* signal handler.                                                         *)
(***************************************************************************)
At(t, l) == pc[t] = l /\ t \notin handling

Zombies == {p \in Pid : proc[p] = "zombie"}

Children == {p \in Pid : proc[p] \in Child \cup {"zombie"}}

Held == {target[t] : t \in {u \in Thread : pc[u] \in {"sleep", "pclose"}}}

FreePids == {p \in Pid : proc[p] = "free" /\ (Reuse \/ p \notin Held)}

GoTo(t, l) == pc' = [pc EXCEPT ![t] = l]

Answer(t, r) == /\ GoTo(t, "send")
                /\ reply' = [reply EXCEPT ![t] = r]

SetErrno(t, e) == errno' = [errno EXCEPT ![t] = e]

\* a parent's waitpid removes the zombie and frees its pid
Reap(p) == /\ proc' = [proc EXCEPT ![p] = "free"]
           /\ owner' = [owner EXCEPT ![p] = Main]

(***************************************************************************)
(* Connections: main's accept loop and the end of handle_client.           *)
(***************************************************************************)
Accept(t) ==
  /\ pc[t] = "none"
  /\ Main \notin handling
  /\ GoTo(t, "recv")
  /\ UNCHANGED <<table, signals, errno, target, reply>>

\* recv returns 0 or -1: the socket is closed and the thread ends
Disconnect(t) ==
  /\ At(t, "recv")
  /\ GoTo(t, "none")
  /\ UNCHANGED <<table, signals, errno, target, reply>>

(***************************************************************************)
(* handle_client: a command arrives and is dispatched, after the checks of *)
(* start_process and stop_process that need no system call.                *)
(***************************************************************************)
RecvList(t) ==
  /\ At(t, "recv")
  /\ GoTo(t, "popen")
  /\ UNCHANGED <<table, signals, errno, target, reply>>

RecvStart(t) ==
  /\ At(t, "recv")
  /\ GoTo(t, "fork")
  /\ UNCHANGED <<table, signals, errno, target, reply>>

\* mutant: the pid atoi returned is not kept
RecvStopForgets(t, p) ==
  /\ At(t, "recv")
  /\ GoTo(t, "probe")
  /\ UNCHANGED <<table, signals, errno, target, reply>>

RecvStop(t, p) ==
  /\ At(t, "recv")
  /\ GoTo(t, "probe")
  /\ target' = [target EXCEPT ![t] = p]
  /\ UNCHANGED <<table, signals, errno, reply>>

\* empty or unknown command, missing or invalid argument, blocked command
RecvRejected(t) ==
  /\ At(t, "recv")
  /\ Answer(t, "error")
  /\ UNCHANGED <<table, signals, errno, target>>

\* EXIT: the farewell is sent, the loop is left, the socket closed
RecvExit(t) ==
  /\ At(t, "recv")
  /\ GoTo(t, "none")
  /\ UNCHANGED <<table, signals, errno, target, reply>>

\* send(response); the locals of the command go out of scope
Send(t) ==
  /\ At(t, "send")
  /\ GoTo(t, "recv")
  /\ target' = [target EXCEPT ![t] = NoPid]
  /\ reply' = [reply EXCEPT ![t] = "none"]
  /\ UNCHANGED <<table, signals, errno>>

(***************************************************************************)
(* Creating a process: fork in start_process, popen in list_processes.     *)
(***************************************************************************)
Spawn(t, kind) ==
  /\ forks < MaxForks
  /\ \E p \in FreePids :
       /\ proc' = [proc EXCEPT ![p] = kind]
       /\ owner' = [owner EXCEPT ![p] = t]
       /\ target' = [target EXCEPT ![t] = p]
  /\ forks' = forks + 1
  /\ UNCHANGED doomed

Popen(t) ==
  /\ At(t, "popen")
  /\ Spawn(t, "ps")
  /\ GoTo(t, "pclose")
  /\ UNCHANGED <<signals, errno, reply>>

Fork(t) ==
  /\ At(t, "fork")
  /\ Spawn(t, "cmd")
  /\ GoTo(t, "sleep")
  /\ UNCHANGED <<signals, errno, reply>>

PopenFails(t) ==
  /\ At(t, "popen")
  /\ Answer(t, "error")
  /\ UNCHANGED <<table, signals, errno, target>>

ForkFails(t) ==
  /\ At(t, "fork")
  /\ Answer(t, "error")
  /\ UNCHANGED <<table, signals, errno, target>>

(***************************************************************************)
(* list_processes: fgets until ps closes its output, then pclose, which    *)
(* waits for that pid and ignores ECHILD when somebody else has reaped it. *)
(***************************************************************************)
\* mutant: pclose retries its waitpid after ECHILD too
PcloseRetries(t) ==
  /\ At(t, "pclose")
  /\ proc[target[t]] = "zombie"
  /\ Reap(target[t])
  /\ Answer(t, "list")
  /\ UNCHANGED <<doomed, forks, signals, errno, target>>

Pclose(t) ==
  /\ At(t, "pclose")
  /\ LET p == target[t] IN
       \/ proc[p] = "zombie" /\ Reap(p)
       \/ p \notin Children /\ UNCHANGED <<proc, owner>>
  /\ Answer(t, "list")
  /\ UNCHANGED <<doomed, forks, signals, errno, target>>

(***************************************************************************)
(* start_process, parent: usleep (which a signal cuts short) and           *)
(* waitpid(pid, WNOHANG) with its three outcomes.                          *)
(***************************************************************************)
StillRunning(t) ==
  /\ At(t, "sleep")
  /\ proc[target[t]] \in Child
  /\ Answer(t, "started")
  /\ UNCHANGED <<table, signals, errno, target>>

\* mutant: waitpid(-1, WNOHANG) takes any dead child for the thread's own
EndedAnyChild(t) ==
  /\ At(t, "sleep")
  /\ \E p \in Zombies : Reap(p)
  /\ Answer(t, "ended")
  /\ UNCHANGED <<doomed, forks, signals, errno, target>>

EndedAtOnce(t) ==
  /\ At(t, "sleep")
  /\ proc[target[t]] = "zombie"
  /\ Reap(target[t])
  /\ Answer(t, "ended")
  /\ UNCHANGED <<doomed, forks, signals, errno, target>>

\* waitpid fails with ECHILD; the code answers as if the process had started
AssumeStarted(t) ==
  /\ At(t, "sleep")
  /\ target[t] \notin Children
  /\ Answer(t, "started")
  /\ UNCHANGED <<table, signals, errno, target>>

(***************************************************************************)
(* stop_process: kill(pid, 0), then kill(pid, SIGKILL).  Between a failed  *)
(* call and the reading of errno the thread may run the signal handler.    *)
(* A zombie accepts signals; a protected process answers EPERM.            *)
(***************************************************************************)
KillError(p) == IF proc[p] = "free" THEN "ESRCH" ELSE "EPERM"

Signalable(p) == proc[p] \notin {"free", "protected"}

Probe(t) ==
  /\ At(t, "probe")
  /\ IF Signalable(target[t])
       THEN GoTo(t, "kill") /\ UNCHANGED errno
       ELSE GoTo(t, "probeErr") /\ SetErrno(t, KillError(target[t]))
  /\ UNCHANGED <<table, signals, target, reply>>

ProbeError(t) ==
  /\ At(t, "probeErr")
  /\ Answer(t, CASE errno[t] = "ESRCH" -> "esrch"
                 [] errno[t] = "EPERM" -> "eperm"
                 [] OTHER -> "noaccess")
  /\ SetErrno(t, "none")
  /\ UNCHANGED <<table, signals, target>>

Kill(t) ==
  /\ At(t, "kill")
  /\ Signalable(target[t])
  /\ doomed' = doomed \cup ({target[t]} \ Zombies)
  /\ Answer(t, "killed")
  /\ UNCHANGED <<proc, owner, forks, signals, errno, target>>

KillFails(t) ==
  /\ At(t, "kill")
  /\ ~Signalable(target[t])
  /\ SetErrno(t, KillError(target[t]))
  /\ GoTo(t, "killErr")
  /\ UNCHANGED <<table, signals, target, reply>>

KillFailure(t) ==
  /\ At(t, "killErr")
  /\ Answer(t, IF errno[t] = "EPERM" THEN "eperm" ELSE "failed")
  /\ SetErrno(t, "none")
  /\ UNCHANGED <<table, signals, target>>

(***************************************************************************)
(* sigchld_handler: the kernel delivers the pending signal to some thread  *)
(* that is not already handling one (SIGCHLD is blocked there); the        *)
(* handler calls waitpid(-1, WNOHANG) until no zombie is left, and leaves  *)
(* ECHILD in errno when no child at all remains, also when the thread it   *)
(* interrupts is about to test errno.                                      *)
(***************************************************************************)
Live == {Main} \cup {t \in Thread : pc[t] # "none"}

DeliverSigchld(t) ==
  /\ sigchld
  /\ t \in Live \ handling
  /\ sigchld' = FALSE
  /\ handling' = handling \cup {t}
  /\ UNCHANGED <<table, errno, locals>>

HandlerReap(t, p) ==
  /\ t \in handling
  /\ p \in Zombies
  /\ Reap(p)
  /\ UNCHANGED <<doomed, forks, signals, errno, locals>>

\* mutant: "if (waitpid(...) > 0)" instead of the loop
HandlerReturnOnce(t) ==
  /\ t \in handling
  /\ handling' = handling \ {t}
  /\ UNCHANGED <<table, sigchld, errno, locals>>

HandlerReturn(t) ==
  /\ t \in handling
  /\ Zombies = {}
  /\ handling' = handling \ {t}
  /\ IF Children = {} /\ t \in Thread /\ pc[t] \in {"probeErr", "killErr"}
       THEN SetErrno(t, "ECHILD")
       ELSE UNCHANGED errno
  /\ UNCHANGED <<table, sigchld, locals>>

(***************************************************************************)
(* The rest of the machine: processes end, and others come and go.         *)
(***************************************************************************)
ChildExit(p) ==
  /\ proc[p] \in Child
  /\ proc' = [proc EXCEPT ![p] = "zombie"]
  /\ doomed' = doomed \ {p}
  /\ sigchld' = TRUE
  /\ UNCHANGED <<owner, forks, handling, errno, locals>>

ForeignExit(p) ==
  /\ proc[p] \in Other
  /\ proc' = [proc EXCEPT ![p] = "free"]
  /\ doomed' = doomed \ {p}
  /\ UNCHANGED <<owner, forks, signals, errno, locals>>

ForeignStart(p) ==
  /\ p \in FreePids
  /\ \E k \in Other : proc' = [proc EXCEPT ![p] = k]
  /\ UNCHANGED <<doomed, owner, forks, signals, errno, locals>>

(***************************************************************************)
(* The client decides what Request does; Serve is the server's own code.   *)
(***************************************************************************)
Request(t) ==
  \/ Accept(t) \/ Disconnect(t)
  \/ RecvList(t) \/ RecvStart(t) \/ RecvRejected(t) \/ RecvExit(t)
  \/ \E p \in Pid : RecvStop(t, p)

Serve(t) ==
  \/ Popen(t) \/ Fork(t) \/ PopenFails(t) \/ ForkFails(t)
  \/ Pclose(t)
  \/ StillRunning(t) \/ EndedAtOnce(t) \/ AssumeStarted(t)
  \/ Probe(t) \/ ProbeError(t)
  \/ Kill(t) \/ KillFails(t) \/ KillFailure(t)
  \/ Send(t)

Handle(t) ==
  \/ DeliverSigchld(t)
  \/ \E p \in Pid : HandlerReap(t, p)
  \/ HandlerReturn(t)

Environment(p) == ChildExit(p) \/ ForeignExit(p) \/ ForeignStart(p)

Next ==
  \/ \E t \in Thread : Request(t) \/ Serve(t)
  \/ \E t \in Thread \cup {Main} : Handle(t)
  \/ \E p \in Pid : Environment(p)

Spec == Init /\ [][Next]_vars

(***************************************************************************)
(* Fairness.  A pending signal is delivered and the handler runs on; the   *)
(* ps of a LIST ends by itself; a process with a SIGKILL pending ends.  A  *)
(* thread between recv and recv is interrupted again and again but comes   *)
(* back to its own code each time, hence strong fairness for it.  Nothing  *)
(* is assumed of the clients, of fork or of the commands they start.       *)
(***************************************************************************)
Fairness ==
  /\ WF_vars(\E t \in Thread \cup {Main} : DeliverSigchld(t))
  /\ \A p \in Pid : WF_vars(\E t \in Thread \cup {Main} : HandlerReap(t, p))
  /\ \A t \in Thread \cup {Main} : WF_vars(HandlerReturn(t))
  /\ \A p \in Pid : /\ WF_vars(proc[p] = "ps" /\ ChildExit(p))
                    /\ WF_vars(p \in doomed /\ (ChildExit(p) \/ ForeignExit(p)))
  /\ \A t \in Thread : SF_vars(Serve(t))

FairSpec == Spec /\ Fairness

-----------------------------------------------------------------------------
(* The types of the variables (globals and locals of main.c, and the       *)
(* process table they name); a thread that waits for or signals a process  *)
(* names one.                                                              *)
TypeOK ==
  /\ proc \in [Pid -> ProcState]
  /\ doomed \in SUBSET Pid
  /\ owner \in [Pid -> Thread \cup {Main}]
  /\ forks \in 0..MaxForks
  /\ sigchld \in BOOLEAN
  /\ handling \in SUBSET (Thread \cup {Main})
  /\ errno \in [Thread -> Errno]
  /\ pc \in [Thread -> Location]
  /\ target \in [Thread -> Pid \cup {NoPid}]
  /\ reply \in [Thread -> Reply]
  /\ \A t \in Thread : pc[t] \in Naming => target[t] # NoPid

(* Although several children's deaths merge into one pending SIGCHLD, no   *)
(* zombie is forgotten: as long as one exists, a SIGCHLD is still to be    *)
(* delivered or some thread is inside the reaping loop of sigchld_handler. *)
NoLostZombie == Zombies # {} => sigchld \/ handling # {}

(* "El proceso termino inmediatamente" is the thread's verdict on the      *)
(* process it created itself: start_process gives it only in the step that *)
(* reaps its own dead child, never another thread's.                       *)
OwnVerdict ==
  [][\A t \in Thread :
       pc[t] = "sleep" /\ reply'[t] = "ended" =>
         /\ owner[target[t]] = t
         /\ target[t] \in Zombies
         /\ proc'[target[t]] = "free"]_vars

(* The server implements the abstract service: every command is answered,  *)
(* every child it kills ends and every dead child is reaped once, through  *)
(* all the interleavings of the threads with sigchld_handler.              *)
Service ==
  INSTANCE ProcService WITH
    live <- {p \in Pid : proc[p] \in Child},
    dead <- Zombies,
    condemned <- {p \in doomed : proc[p] \in Child},
    session <- [t \in Thread |-> CASE pc[t] = "none" -> "closed"
                                   [] pc[t] = "recv" -> "idle"
                                   [] OTHER -> "busy"]

ImplementsService == Service!Spec

(* What start_process's comments promise: the check after 100 ms tells     *)
(* whether the child is still alive, so "iniciado con PID" is answered     *)
(* only for a process that exists.                                         *)
StartedIsAlive ==
  [][\A t \in Thread :
       pc[t] = "sleep" /\ reply'[t] = "started" => target[t] \in Children]_vars
=============================================================================
