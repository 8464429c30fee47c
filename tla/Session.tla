------------------------------ MODULE Session ------------------------------
(***************************************************************************)
(* One client (tui_run and handle_command in tui.c, net.c) and the thread  *)
(* that serves it (handle_client in main.c), joined by a TCP connection.   *)
(*                                                                         *)
(* TCP is external: each direction is a sequence of segments; a recv takes *)
(* any non-empty prefix of what has arrived (so it may merge two sends or  *)
(* split one), a closed peer makes it return 0 once nothing is left, and   *)
(* sending to a closed peer is harmless until the peer's reset comes back, *)
(* then raises SIGPIPE, which neither program blocks or ignores.           *)
(* Times are abstracted: a timer of the client may fire at any moment.     *)
(***************************************************************************)
EXTENDS Naturals, Sequences

CONSTANTS MaxCmds,   \* bound: commands the user enters
          MaxQueue,  \* bound: unread segments when a timer sends a request
          Segments,  \* segments a process listing arrives in
          Crash      \* may the server be killed?

ASSUME ConstantsAssumption ==
  /\ MaxCmds \in Nat
  /\ MaxQueue \in Nat \ {0}
  /\ Segments \in Nat \ {0}
  /\ Crash \in BOOLEAN

VARIABLES
  client,      \* loop | await | leaving | closed | killed
  asked,       \* the command handle_command is waiting for
  deferred,    \* deferred_list_at is set
  shown,       \* the process list of the panel
  cmds,        \* commands the user has entered
  server,      \* handle_client: recv | serving | closed; dead: no process
  request,     \* the command being served
  heir,        \* a started process still holds a copy of the socket
  epoch,       \* starts and stops executed: the version of the process table
  served,      \* auxiliary: the last command of the user that was executed
  heard,       \* auxiliary: the last one whose answer the client has read
  up, down,    \* the two directions of the connection
  clientGone,  \* the client's end as the server's kernel sees it
  serverGone   \* the server's end as the client's kernel sees it

clientVars == <<client, asked, deferred, shown, cmds, heard>>
serverVars == <<server, request, heir, epoch, served>>
net == <<up, down, clientGone, serverGone>>
vars == <<client, asked, deferred, shown, cmds, heard,
          server, request, heir, epoch, served,
          up, down, clientGone, serverGone>>

Kind == {"LIST", "START", "STOP", "OTHER", "EXIT"}
\* a command line; id 0 is a LIST the client sends by itself
Line == [kind : Kind, id : 0..MaxCmds]
\* a segment of an answer: part 0 is a message, part k the k-th of a listing
Segment == [part : 0..Segments, id : 0..MaxCmds, epoch : 0..MaxCmds]
\* what handle_command remembers: does the command arm the deferred LIST,
\* and is its answer only for the status bar (RUN, F2)?
Asked == [id : 0..MaxCmds, arms : BOOLEAN, run : BOOLEAN]
View == [whole : BOOLEAN, epoch : 0..MaxCmds]
Peer == {"open", "fin", "reset"}

Running == client \in {"loop", "await"}
ServerGone == server \in {"closed", "dead"}

\* also the value of request while no line is being served
AutoList == [kind |-> "LIST", id |-> 0]
\* asked after handle_command has returned, and while connecting
NoCommand == [id |-> 0, arms |-> FALSE, run |-> FALSE]

\* tui_connection_dialog has connected, sent LIST and waits for the answer
Init ==
  /\ client = "await"
  /\ asked = NoCommand
  /\ deferred = FALSE
  /\ shown = [whole |-> FALSE, epoch |-> 0]
  /\ cmds = 0
  /\ server = "recv"
  /\ request = AutoList
  /\ heir = FALSE
  /\ epoch = 0
  /\ served = 0
  /\ heard = 0
  /\ up = <<AutoList>>
  /\ down = <<>>
  /\ clientGone = "open"
  /\ serverGone = "open"

(***************************************************************************)
(* process_list_parse: the list becomes whatever rows one recv returned.   *)
(* It is the server's process list only if they are one listing's, whole;  *)
(* otherwise epoch stays, as an auxiliary, that of the last whole one.     *)
(***************************************************************************)
\* where the segments of listings are
Rows(chunk) == {i \in 1..Len(chunk) : chunk[i].part > 0}

Parse(chunk) ==
  IF /\ {chunk[i].part : i \in Rows(chunk)} = 1..Segments
     /\ \A i, j \in Rows(chunk) : i < j => chunk[i].part < chunk[j].part
    THEN [whole |-> TRUE,
          epoch |-> chunk[CHOOSE i \in Rows(chunk) : chunk[i].part = 1].epoch]
    ELSE [shown EXCEPT !.whole = FALSE]

(***************************************************************************)
(* The client.                                                             *)
(***************************************************************************)
\* net_send; the process dies when the peer has reset the connection
ClientSend(line, next) ==
  IF serverGone = "reset"
    THEN client' = "killed" /\ UNCHANGED <<up, serverGone>>
    ELSE /\ client' = next
         /\ up' = Append(up, line)
         /\ serverGone' \in IF serverGone = "fin" THEN {"fin", "reset"}
                                                  ELSE {"open"}

\* handle_command: of the synonyms only START and STOP arm the deferred
\* LIST, and only EXIT is not waited for; RUN and F2 send START, show the
\* answer in the status bar and always arm it
Enter(kind, arms, run) ==
  /\ client = "loop"
  /\ cmds < MaxCmds
  /\ arms => kind \in {"START", "STOP"}
  /\ run => kind = "START" /\ arms
  /\ cmds' = cmds + 1
  /\ asked' = [id |-> cmds', arms |-> arms, run |-> run]
  /\ ClientSend([kind |-> kind, id |-> cmds'], "await")
  /\ UNCHANGED <<deferred, shown, heard, serverVars, down, clientGone>>

\* EXIT is sent and its answer never read
EnterExit ==
  /\ client = "loop"
  /\ cmds < MaxCmds
  /\ cmds' = cmds + 1
  /\ ClientSend([kind |-> "EXIT", id |-> cmds'], "leaving")
  /\ UNCHANGED <<asked, deferred, shown, heard, serverVars, down, clientGone>>

\* the last of the user's commands that these segments complete the answer of
LastCommand(segments, before) ==
  LET done == {k \in 1..Len(segments) :
                 segments[k].part \in {0, Segments} /\ segments[k].id > 0}
  IN IF done = {} THEN before
     ELSE segments[CHOOSE k \in done : \A j \in done : j <= k].id

\* takes n segments from the connection
Receive(n) ==
  /\ n \in 1..Len(down)
  /\ down' = SubSeq(down, n + 1, Len(down))
  /\ heard' = LastCommand(SubSeq(down, 1, n), heard)
  /\ UNCHANGED <<up, clientGone, serverGone>>

EndOfStream == serverGone # "open" /\ down = <<>>

\* select says ready, recv returns: whatever arrived is taken for the answer
AwaitAnswer ==
  /\ client = "await"
  /\ \E n \in 1..Len(down) :
       /\ Receive(n)
       /\ shown' = IF asked.run THEN shown ELSE Parse(SubSeq(down, 1, n))
  /\ client' = "loop"
  /\ asked' = NoCommand
  /\ deferred' = (deferred \/ asked.arms)
  /\ UNCHANGED <<cmds, serverVars>>

\* select times out after 3 s, or fails (a resize interrupts it)
AwaitTimeout ==
  /\ client = "await"
  /\ client' = "loop"
  /\ asked' = NoCommand
  /\ deferred' = (deferred \/ asked.arms)
  /\ UNCHANGED <<shown, cmds, heard, serverVars, net>>

\* recv returns 0: "Conexion perdida", except while connecting and in RUN
AwaitLost ==
  /\ client = "await"
  /\ EndOfStream
  /\ asked.id # 0 /\ ~asked.run
  /\ client' = "leaving"
  /\ asked' = NoCommand
  /\ UNCHANGED <<deferred, shown, cmds, heard, serverVars, net>>

\* no key pending: net_recv finds data
Poll ==
  /\ client = "loop"
  /\ \E n \in 1..Len(down) :
       /\ Receive(n)
       /\ shown' = Parse(SubSeq(down, 1, n))
  /\ UNCHANGED <<client, asked, deferred, cmds, serverVars>>

\* mutant: net_recv reports the 0 of a closed connection as "no data"
PollResetOnly ==
  /\ client = "loop"
  /\ EndOfStream /\ serverGone = "reset"
  /\ client' \in {"leaving", "killed"}
  /\ UNCHANGED <<asked, deferred, shown, cmds, heard, serverVars, net>>

\* net_recv reports an error: the connection is lost.  A timer that is due
\* in the same iteration still sends its LIST.
PollLost ==
  /\ client = "loop"
  /\ EndOfStream
  /\ client' \in IF serverGone = "reset" THEN {"leaving", "killed"}
                                         ELSE {"leaving"}
  /\ UNCHANGED <<asked, deferred, shown, cmds, heard, serverVars, net>>

\* the select of net_recv is interrupted by the SIGWINCH of a resize: no
\* different from a lost connection
PollInterrupted ==
  /\ client = "loop"
  /\ down = <<>>
  /\ client' = "leaving"
  /\ UNCHANGED <<asked, deferred, shown, cmds, heard, serverVars, net>>

\* the two timers
TimerDue == Len(up) + Len(down) < MaxQueue

RefreshDeferred ==
  /\ client = "loop"
  /\ deferred
  /\ TimerDue
  /\ deferred' = FALSE
  /\ ClientSend(AutoList, "loop")
  /\ UNCHANGED <<asked, shown, cmds, heard, serverVars, down, clientGone>>

\* mutant: the periodic LIST is sent only when the deferred one is pending
RefreshIfDeferred ==
  /\ client = "loop"
  /\ deferred
  /\ TimerDue
  /\ ClientSend(AutoList, "loop")
  /\ UNCHANGED <<asked, deferred, shown, cmds, heard, serverVars, down, clientGone>>

RefreshPeriodic ==
  /\ client = "loop"
  /\ TimerDue
  /\ ClientSend(AutoList, "loop")
  /\ UNCHANGED <<asked, deferred, shown, cmds, heard, serverVars, down, clientGone>>

\* tui_shutdown after the loop
Shutdown ==
  /\ client = "leaving"
  /\ client' = "closed"
  /\ clientGone' = "fin"
  /\ UNCHANGED <<asked, deferred, shown, cmds, heard, serverVars, up, down,
                serverGone>>

\* Ctrl+C: sigint_handler runs tui_shutdown and exits
Interrupt ==
  /\ Running
  /\ client' = "closed"
  /\ clientGone' = "fin"
  /\ UNCHANGED <<asked, deferred, shown, cmds, heard, serverVars, up, down,
                serverGone>>

\* the kernel closes the socket of a client that SIGPIPE has killed
Killed ==
  /\ client = "killed"
  /\ clientGone = "open"
  /\ clientGone' = "fin"
  /\ UNCHANGED <<clientVars, serverVars, up, down, serverGone>>

(***************************************************************************)
(* The server.                                                             *)
(***************************************************************************)
\* mutant: the line that is served stays in the buffer
ServerRecvKeeps ==
  /\ server = "recv"
  /\ \E n \in 1..Len(up) : up' = SubSeq(up, n, Len(up))
  /\ request' = Head(up)
  /\ server' = "serving"
  /\ UNCHANGED <<clientVars, heir, epoch, served, down, clientGone, serverGone>>

\* mutant: of the lines of one recv the last is kept
ServerRecvLast ==
  /\ server = "recv"
  /\ \E n \in 1..Len(up) : up' = SubSeq(up, n + 1, Len(up)) /\ request' = up[n]
  /\ server' = "serving"
  /\ UNCHANGED <<clientVars, heir, epoch, served, down, clientGone, serverGone>>

\* recv returns n lines: strcspn cuts the buffer after the first, the rest
\* is lost
ServerRecv ==
  /\ server = "recv"
  /\ \E n \in 1..Len(up) : up' = SubSeq(up, n + 1, Len(up))
  /\ request' = Head(up)
  /\ server' = "serving"
  /\ UNCHANGED <<clientVars, heir, epoch, served, down, clientGone, serverGone>>

\* mutant: the loop is left for recv < 0 only
HangupOnError ==
  /\ server = "recv"
  /\ up = <<>>
  /\ clientGone = "reset"
  /\ server' = "closed"
  /\ serverGone' = IF heir THEN "open" ELSE "fin"
  /\ UNCHANGED <<clientVars, request, heir, epoch, served, up, down, clientGone>>

\* recv returns 0 or -1: close and end of the thread
ServerHangup ==
  /\ server = "recv"
  /\ up = <<>>
  /\ clientGone # "open"
  /\ server' = "closed"
  /\ serverGone' = IF heir THEN "open" ELSE "fin"
  /\ UNCHANGED <<clientVars, request, heir, epoch, served, up, down, clientGone>>

\* mutant: the loop over ps's rows runs once too often
AnswerOverrun(line, e) ==
  [k \in 1..Segments + 1 |-> [part |-> k, id |-> line.id, epoch |-> e]]

\* mutant: the client's own LISTs are answered from the first listing
AnswerCached(line, e) ==
  IF line.kind = "LIST"
    THEN [k \in 1..Segments |-> [part |-> k, id |-> line.id,
                                 epoch |-> IF line.id = 0 THEN 0 ELSE e]]
    ELSE <<[part |-> 0, id |-> line.id, epoch |-> e]>>

\* what an answer is made of, given the version e of the process table
Answer(line, e) ==
  IF line.kind = "LIST"
    THEN [k \in 1..Segments |-> [part |-> k, id |-> line.id, epoch |-> e]]
    ELSE <<[part |-> 0, id |-> line.id, epoch |-> e]>>

\* send; next is where the thread goes.  Without MSG_NOSIGNAL the whole
\* server dies when the client has reset the connection.
ServerSend(segments, next) ==
  CASE clientGone = "open" ->
         /\ down' = down \o segments
         /\ server' = next
         /\ UNCHANGED clientGone
    [] clientGone = "fin" ->
         /\ clientGone' \in {"fin", "reset"}
         /\ server' = next
         /\ UNCHANGED down
    [] clientGone = "reset" ->
         /\ server' = "dead"
         /\ UNCHANGED <<down, clientGone>>

Executed == served' = IF request.id > 0 THEN request.id ELSE served

\* the command is executed and answered.  A started process inherits the
\* socket (no FD_CLOEXEC); START and STOP may also fail.
Serve ==
  /\ server = "serving"
  /\ request.kind # "EXIT"
  /\ \/ /\ request.kind \in {"START", "STOP"}
        /\ epoch' = epoch + 1
        /\ heir' = (heir \/ request.kind = "START")
     \/ UNCHANGED <<epoch, heir>>
  /\ ServerSend(Answer(request, epoch'), "recv")
  /\ Executed
  /\ request' = AutoList
  /\ serverGone' = IF server' = "dead" /\ ~heir' THEN "fin" ELSE serverGone
  /\ UNCHANGED <<clientVars, up>>

\* EXIT: the farewell, break, close
ServeExit ==
  /\ server = "serving"
  /\ request.kind = "EXIT"
  /\ ServerSend(Answer(request, epoch), "closed")
  /\ Executed
  /\ request' = AutoList
  /\ serverGone' = IF heir THEN serverGone ELSE "fin"
  /\ UNCHANGED <<clientVars, heir, epoch, up>>

\* the server process ends: SIGPIPE of another thread, or an operator
ServerCrash ==
  /\ Crash
  /\ server # "dead"
  /\ server' = "dead"
  /\ serverGone' = IF heir \/ serverGone # "open" THEN serverGone ELSE "fin"
  /\ UNCHANGED <<clientVars, request, heir, epoch, served, up, down, clientGone>>

\* the started processes that hold the socket end
HeirExit ==
  /\ heir
  /\ heir' = FALSE
  /\ serverGone' = IF ServerGone THEN "fin" ELSE serverGone
  /\ UNCHANGED <<clientVars, server, request, epoch, served, up, down,
                clientGone>>

(***************************************************************************)
(* The user and the world decide Enter, EnterExit, Interrupt, ServerCrash  *)
(* and HeirExit; the user's terminal decides PollInterrupted.              *)
(***************************************************************************)
Client ==
  \/ AwaitAnswer \/ AwaitTimeout \/ AwaitLost
  \/ Poll \/ PollLost \/ PollInterrupted
  \/ RefreshDeferred \/ RefreshPeriodic
  \/ Shutdown \/ Killed

Server == ServerRecv \/ ServerHangup \/ Serve \/ ServeExit

World ==
  \/ \E kind \in Kind, arms, run \in BOOLEAN : Enter(kind, arms, run)
  \/ EnterExit \/ Interrupt
  \/ ServerCrash \/ HeirExit

Next == Client \/ Server \/ World

Spec == Init /\ [][Next]_vars

(***************************************************************************)
(* Fairness: both programs keep running; select returns after 3 s; the     *)
(* loop polls the socket and its periodic timer fires again and again as   *)
(* long as the user lets it (strong fairness: a command entered in between *)
(* only delays them).                                                      *)
(***************************************************************************)
Fairness ==
  /\ WF_vars(Server)
  /\ WF_vars(AwaitAnswer \/ AwaitTimeout \/ AwaitLost)
  /\ SF_vars(Poll) /\ SF_vars(PollLost) /\ SF_vars(RefreshPeriodic)
  /\ WF_vars(Shutdown \/ Killed)

FairSpec == Spec /\ Fairness

-----------------------------------------------------------------------------
(* The types of the variables of handle_command, tui_run and handle_client *)
(* and of the connection.                                                  *)
TypeOK ==
  /\ client \in {"loop", "await", "leaving", "closed", "killed"}
  /\ asked \in Asked
  /\ deferred \in BOOLEAN
  /\ shown \in View
  /\ cmds \in 0..MaxCmds
  /\ server \in {"recv", "serving", "closed", "dead"}
  /\ request \in Line
  /\ heir \in BOOLEAN
  /\ epoch \in 0..MaxCmds
  /\ served \in 0..MaxCmds
  /\ heard \in 0..MaxCmds
  /\ up \in Seq(Line)
  /\ down \in Seq(Segment)
  /\ clientGone \in Peer
  /\ serverGone \in Peer

(* The session keeps the promises of SessionService: however requests      *)
(* merge and answers come late, handle_client executes each of the user's  *)
(* commands at most once and in their order, and the client reads answers  *)
(* in that order; the screen comes back, and no end outlives the other.    *)
Service ==
  INSTANCE SessionService WITH
    entered <- cmds,
    serving <- IF server = "serving" THEN request.id ELSE 0,
    executed <- served,
    heard <- heard,
    screen <- IF client = "await" THEN "held" ELSE "free",
    clientOn <- Running,
    serverOn <- ~ServerGone,
    held <- ~ServerGone \/ heir

ImplementsService == Service!Spec

(* A client that ends, cleanly or by SIGPIPE, with commands or answers     *)
(* still in flight, frees its handle_client thread on the server.          *)
ThreadFreed == client \in {"closed", "killed"} ~> ServerGone

(* A command is lost only behind another unread line: one that stands      *)
(* first is executed, whatever its client does meanwhile (leave, end,      *)
(* reset, send more), unless the server's end goes.                        *)
FirstIsExecuted ==
  \A k \in 1..MaxCmds :
    up # <<>> /\ Head(up).id = k ~> served = k \/ ServerGone

(* When the server's end closes and no started process holds a copy of the *)
(* socket, tui_run notices and ends, whatever it was waiting for.          *)
LossNoticed == ServerGone /\ ~heir ~> ~Running

\* a timer sends its LIST while an earlier request is unanswered
Overtake ==
  /\ cmds' = cmds /\ Len(up') > Len(up)
  /\ up # <<>> \/ down # <<>> \/ server = "serving"

\* a recv of the client takes only a part of a listing
Split == down' # <<>> /\ Len(down') < Len(down) /\ Head(down').part > 1

(* As long as both sides live, the panel shows again and again a complete  *)
(* list that includes the effect of every command executed: the lists lost *)
(* to answers, timeouts and merged requests are made up for, unless timers *)
(* overtake answers, or listings arrive in pieces, again and again.        *)
ListRecovers ==
  \/ []<><<Overtake>>_vars \/ []<><<Split>>_vars
  \/ []<>(\/ ~Running \/ ServerGone
          \/ shown.whole /\ shown.epoch = epoch)

(* However late an answer comes, for whatever it is taken, and whatever    *)
(* empty or cut lists are shown in between: once the panel has shown the   *)
(* whole list of one version of the process table, it shows no older one.  *)
ListNeverGoesBack == [][shown.epoch <= shown'.epoch]_vars

(* "Datos completos recibidos": the same for a listing too long for one    *)
(* recv, whatever its version.                                             *)
LongListShown ==
  \/ []<><<Overtake>>_vars
  \/ []<>(~Running \/ ServerGone \/ shown.whole)

(* "Aislar los errores de un cliente del resto": no client's way of        *)
(* leaving ends the server process.                                        *)
ServerSurvives == server # "dead"
=============================================================================
