------------------------------ MODULE Listener ------------------------------
(***************************************************************************)
(* The server's main: socket, bind, listen, and the loop that accepts a    *)
(* connection and creates a detached thread for it; with the clients that  *)
(* connect and leave, a limit on descriptors and one on tasks (threads and *)
(* processes), crashes and restarts (Restart=always of the unit file), and *)
(* started processes, which inherit every socket, the listening one too,   *)
(* since none is marked close-on-exec.                                     *)
(*                                                                         *)
(* What a thread does with its connection is Session's subject.            *)
(***************************************************************************)
EXTENDS Naturals, Sequences, FiniteSets, SequencesExt

CONSTANTS Conn,      \* connections
          Child,     \* started processes
          Listening, \* the listening socket
          MaxFiles,  \* descriptors for connections in the server
          MaxTasks,  \* threads and started processes
          Backlog    \* connections the kernel completes before accept

ASSUME ConstantsAssumption ==
  /\ IsFiniteSet(Conn) /\ IsFiniteSet(Child)
  /\ Listening \notin Conn
  /\ MaxFiles \in Nat \ {0} /\ MaxTasks \in Nat \ {0} /\ Backlog \in Nat \ {0}

VARIABLES
  server,    \* main: accept | create; down: no process
  queue,     \* connections completed by the kernel and not yet accepted
  accepted,  \* client_sock between accept and pthread_create
  served,    \* connections with a thread
  stranded,  \* accepted connections that have none
  holds,     \* the sockets each started process holds; none if it has ended
  clients    \* connections whose client is still there

main == <<server, queue, accepted, served, stranded>>
vars == <<server, queue, accepted, served, stranded, holds, clients>>

Files == accepted \cup served \cup stranded

Running == {h \in Child : holds[h] # {}}
Heirs(s) == {h \in Child : s \in holds[h]}

TasksUsed == Cardinality(served) + Cardinality(Running)
FilesUsed == Cardinality(Files) >= MaxFiles

\* some process has the server's end of c open
Held(c) == c \in Files \/ c \in ToSet(queue) \/ Heirs(c) # {}

Init ==
  /\ server = "accept"
  /\ queue = <<>>
  /\ accepted = {} /\ served = {} /\ stranded = {}
  /\ holds = [h \in Child |-> {}]
  /\ clients = {}

(***************************************************************************)
(* Clients.  net_connect succeeds as soon as the kernel completes the      *)
(* connection, whoever holds the listening socket; refused or timed out    *)
(* after 5 s the dialog asks again, and nothing changes.                   *)
(***************************************************************************)
Connect(c) ==
  /\ c \notin clients /\ ~Held(c)
  /\ server # "down" \/ Heirs(Listening) # {}
  /\ Len(queue) < Backlog
  /\ queue' = Append(queue, c)
  /\ clients' = clients \cup {c}
  /\ UNCHANGED <<server, accepted, served, stranded, holds>>

Leave(c) ==
  /\ c \in clients
  /\ clients' = clients \ {c}
  /\ UNCHANGED <<main, holds>>

\* "Conexion perdida"
Lose(c) ==
  /\ ~Held(c)
  /\ Leave(c)

(***************************************************************************)
(* main's loop.  With no descriptor left accept fails, and the loop tries  *)
(* again at once, which changes nothing.                                   *)
(***************************************************************************)
Accept ==
  /\ server = "accept"
  /\ queue # <<>>
  /\ ~FilesUsed
  /\ accepted' = {Head(queue)}
  /\ queue' = Tail(queue)
  /\ server' = "create"
  /\ UNCHANGED <<served, stranded, holds, clients>>

\* mutant: pthread_join in the place of pthread_detach
CreateJoins ==
  /\ server = "create"
  /\ served = {}
  /\ served' = accepted
  /\ accepted' = {}
  /\ server' = "accept"
  /\ UNCHANGED <<queue, stranded, holds, clients>>

\* mutant: accept's failure is not skipped, the last client_sock is used again
CreateAgain ==
  /\ server = "create"
  /\ TasksUsed < MaxTasks
  /\ served' = served \cup accepted
  /\ server' \in {"accept", "create"}
  /\ accepted' = IF server' = "create" THEN accepted ELSE {}
  /\ UNCHANGED <<queue, stranded, holds, clients>>

CreateThread ==
  /\ server = "create"
  /\ TasksUsed < MaxTasks
  /\ served' = served \cup accepted
  /\ accepted' = {}
  /\ server' = "accept"
  /\ UNCHANGED <<queue, stranded, holds, clients>>

\* the process ends.  Its listening socket, with the queue, lives on in the
\* started processes.
Down ==
  /\ server' = "down"
  /\ accepted' = {} /\ served' = {} /\ stranded' = {}
  /\ queue' = IF Heirs(Listening) = {} THEN <<>> ELSE queue
  /\ UNCHANGED <<holds, clients>>

\* mutant: the branch for the failure keeps client_sock for another attempt
CreateFailsMain ==
  /\ server = "create"
  /\ TasksUsed >= MaxTasks
  /\ server' = "accept"
  /\ UNCHANGED <<queue, accepted, served, stranded, holds, clients>>

\* pthread_create returns EAGAIN, which is not < 0: the descriptor stays
\* open, and pthread_detach is given an id that is not set or no longer
\* valid, which does nothing or crashes
CreateFails ==
  /\ server = "create"
  /\ TasksUsed >= MaxTasks
  /\ \/ /\ stranded' = stranded \cup accepted
        /\ accepted' = {}
        /\ server' = "accept"
        /\ UNCHANGED <<queue, served, holds, clients>>
     \/ Down

\* mutant: the thread returns without its close
ThreadEndsOpen(c) ==
  /\ c \in served
  /\ served' = served \ {c}
  /\ stranded' = stranded \cup {c}
  /\ UNCHANGED <<server, queue, accepted, holds, clients>>

\* EXIT, or the client has gone
ThreadEnds(c) ==
  /\ c \in served
  /\ served' = served \ {c}
  /\ UNCHANGED <<server, queue, accepted, stranded, holds, clients>>

(***************************************************************************)
(* Started processes, crashes and restarts.                                *)
(***************************************************************************)
Start(h) ==
  /\ served # {}
  /\ holds[h] = {}
  /\ TasksUsed < MaxTasks
  /\ holds' = [holds EXCEPT ![h] = Files \cup {Listening}]
  /\ UNCHANGED <<main, clients>>

ChildEnds(h) ==
  /\ holds[h] # {}
  /\ holds' = [holds EXCEPT ![h] = {}]
  /\ queue' = IF server = "down" /\ Heirs(Listening) = {h} THEN <<>> ELSE queue
  /\ UNCHANGED <<server, accepted, served, stranded, clients>>

\* SIGPIPE, strtok, an operator
Crash ==
  /\ server # "down"
  /\ Down

\* SO_REUSEADDR lets bind share the port with connections, not with a
\* socket that listens; the process that fails to bind ends again
Restart ==
  /\ server = "down"
  /\ Heirs(Listening) = {}
  /\ server' = "accept"
  /\ UNCHANGED <<queue, accepted, served, stranded, holds, clients>>

Next ==
  \/ \E c \in Conn : Connect(c) \/ Leave(c) \/ Lose(c) \/ ThreadEnds(c)
  \/ Accept \/ CreateThread \/ CreateFails
  \/ \E h \in Child : Start(h) \/ ChildEnds(h)
  \/ Crash \/ Restart

Spec == Init /\ [][Next]_vars

(***************************************************************************)
(* main runs on, threads of clients that have gone end and clients notice  *)
(* a lost connection (Session's ThreadFreed and LossNoticed).  Nothing is  *)
(* assumed of restarts and of started processes.                           *)
(***************************************************************************)
Fairness ==
  /\ WF_vars(Accept) /\ WF_vars(CreateThread \/ CreateFails)
  /\ \A c \in Conn : WF_vars(c \notin clients /\ ThreadEnds(c)) /\ WF_vars(Lose(c))

FairSpec == Spec /\ Fairness

-----------------------------------------------------------------------------
(* The types of main's variables and of the kernel's, and what the places  *)
(* of main's loop say of its one unserved connection.                      *)
TypeOK ==
  /\ server \in {"accept", "create", "down"}
  /\ queue \in Seq(Conn)
  /\ accepted \in SUBSET Conn
  /\ served \in SUBSET Conn
  /\ stranded \in SUBSET Conn
  /\ holds \in [Child -> SUBSET (Conn \cup {Listening})]
  /\ clients \in SUBSET Conn
  /\ server # "create" => accepted = {}
  /\ server = "down" => served = {} /\ stranded = {}

(* A descriptor has one owner: a connection is in the queue, in main's     *)
(* hands, a thread's or nobody's, never in two of them, so that the one    *)
(* close of handle_client closes no other thread's connection.             *)
OneOwner ==
  /\ accepted \cap served = {} /\ accepted \cap stranded = {}
  /\ served \cap stranded = {}
  /\ ToSet(queue) \cap Files = {}
  /\ \A i, j \in 1..Len(queue) : queue[i] = queue[j] => i = j

\* the client waits for something that only another process can change
AtAnHeir(c) ==
  \/ server = "down" /\ Heirs(Listening) # {}
  \/ c \notin Files \cup ToSet(queue) /\ Heirs(c) # {}

(* "Por cada cliente conectado, crear un hilo": a connected client gets    *)
(* its thread, or its connection ends, or it hits one of the limits: its   *)
(* thread could not be created, no descriptor is left for accept, or its   *)
(* socket is in the hands of a started process.                            *)
ServedOrTold ==
  \A c \in Conn :
    c \in clients ~> \/ c \in served \/ c \notin clients
                     \/ c \in stranded \/ AtAnHeir(c)
                     \/ c \in ToSet(queue) /\ FilesUsed

(* When all clients leave, whatever threads, crashes and started processes *)
(* did before, every descriptor comes back, if no thread's creation failed.*)
CapacityReturns ==
  [](server = "create" => TasksUsed < MaxTasks) /\ <>[](clients = {})
    => <>[](Files = {})

(* "Por cada cliente conectado, crear un hilo POSIX independiente": no     *)
(* accepted connection is left without a thread.                           *)
EveryConnectionServed == stranded = {}
=============================================================================
