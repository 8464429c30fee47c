# Verification of the remote process manager

The repository is a small remote process manager in C: a TCP server that lists,
starts and stops processes of its host for any number of clients, and an
ncurses client. This directory holds TLA+ models of the parts in which timing,
order and stale state matter, the TLC configurations that check them on small
instances, and TLAPS proofs of the properties that hold for every size.

`PROJECT.json` lists the components, the runs, the correspondence of each
definition with lines of the code (`map`), the disagreements between code and
documentation that were found (`findings`), the behaviours that are hard to
test (`hazards`) and the theorems. Paths there start at the repository's
parent (`src/src/server/main.c` is the repository's `src/server/main.c`).

## 1. The system

| Component | Code | State | Operations | Modules |
|---|---|---|---|---|
| Listener | server/main.c `main`, proc-manager.service | listening socket, `client_sock` | `bind`, `accept`, one detached thread per client, crash and restart | `Listener` |
| Client thread | server/main.c `handle_client` | its buffers, `strtok`'s static pointer | `recv`, split, dispatch, `send`, `close` | `Dispatch`, `Session`, `ProcServer` |
| Process management | server/main.c `list_processes`, `start_process`, `stop_process` | the kernel's process table, `errno` | `popen`/`pclose`, `fork`/`waitpid`, `kill` | `ProcServer` |
| Reaper | server/main.c `sigchld_handler` | one pending SIGCHLD | `waitpid(-1, WNOHANG)` until nothing is left | `ProcServer` |
| Client loop | client/tui.c `tui_run`, `handle_command` | list, timers, status | keys, poll of the socket, timers that send LIST | `Session`, `Keys` |
| Network layer | client/net.c | socket | `net_connect`, `net_send`, `net_recv`, `net_close` | `Session` |
| Panels | client/panels.c, keys of `tui_run` | heights, focus, scroll offset | create, resize, scroll | `Panels` |
| Dialogs | client/tui.c (connection, help, run) | their own fields | they read the keys while they are open | `Panels`, `Keys` |
| Input line | client/input.c | buffer, cursor | insert, erase, upper case, clear | `InputLine`, `Keys` |
| List parser | client/process.c | the list's entries | parse, free, render | `Session`, `ClientLife` |
| Life cycle | client/main.c, `tui_init`, `tui_shutdown` | `g_state`, what is allocated, the terminal's mode | start, SIGINT, shutdown | `ClientLife` |
| Rest | colours, demo commands, scripts, client tests | none of its own | | |

How they interact: clients and server threads exchange lines and answers over
TCP; the threads share the process table, `strtok`'s pointer, and the
process-wide SIGCHLD, whose handler interrupts any of them; started processes
inherit every socket of the server; in the client, keys, socket and timers are
served by one loop, except while a dialog or a pending command holds it; Ctrl+C
runs the client's shutdown on whatever the loop has left half done.

What is hard: the handler's `waitpid(-1)` against the threads' own `waitpid` and
`pclose`; signals that merge; `errno` and `strtok` as shared state; merged,
split and late segments in a protocol that has neither framing nor request
numbers; SIGPIPE; descriptors that outlive their owner in a child; a scroll
offset and a layout that outlive the data they were computed for; one keyboard
for a list, an input line and three dialogs.

What makes each part correct: no zombie stays, every command is answered and a
verdict is about one's own child (process management); a command runs with its
own argument (parsing); a connected client gets a thread or learns of its loss,
and descriptors come back (listener); each command is executed at most once and
in order, one that is first among the unread lines is executed, the screen
always comes back, losses are noticed, threads are freed, the list becomes
current again (session); the panels fill the terminal and the offset lands in
the list (panels); what is sent is one whole command (input line); everything
is released once and the terminal restored (life).

## 2. The modules

| Module | What it is |
|---|---|
| `ProcService` | abstract service: sessions that serve one command at a time; children that live, are condemned, end and are buried once |
| `ProcServer` | the server's threads, the SIGCHLD handler, the process table |
| `ProcServerProofs`, `ProcRefinement` | theorems about `ProcServer`; it implements `ProcService` |
| `Dispatch`, `DispatchProofs` | the split of a command line by `strtok` in concurrent threads, and theorems |
| `SessionService` | abstract session: commands entered, taken, executed at most once in order; answers heard in that order; ends that follow each other |
| `Session`, `SessionProofs` | one client and its server thread over a TCP connection; it implements `SessionService` |
| `Listener`, `ListenerProofs` | `main` of the server: `accept`, thread creation, descriptors, crash and restart, inherited sockets |
| `Panels`, `PanelsProofs` | layout, scroll, dialogs as owners of the keys, and theorems |
| `InputLine` | the text of the input line and of the F2 dialog, and the command lines made of it |
| `Keys`, `KeysProofs` | composition of `Panels` and `InputLine`: which key of `tui_run` reaches what |
| `ClientLife`, `ClientLifeProofs` | the client from `main` to its end: heap, terminal, socket, SIGINT at every point; theorems |
| `MC...` | instances for TLC: symmetry sets, heights, an alphabet |

**ProcServer.** `pc[t]` is where thread `t` is between system calls, `target[t]`
its local pid, `reply[t]` its response buffer. Each system call is an action:
`Popen`, `Pclose`, `Fork`, the three outcomes of `waitpid` in `start_process`
(`StillRunning`, `EndedAtOnce`, `AssumeStarted`), the two `kill`s of
`stop_process` with their error branches. Between a failed `kill` and the test
of `errno` there is a step boundary (`probeErr`, `killErr`), because the signal
handler can run there. `DeliverSigchld` picks any thread, main included,
that is not in the handler; the thread's own steps wait (`At`) until
`HandlerReturn`, which is possible only when no zombie is left: that is the
`while` of `sigchld_handler`. The process table, `errno` and the signal are the
kernel's and are marked external. `Other` lets foreign processes come and go,
with and without permission to signal them; `Reuse` says whether the kernel may
hand out the pid of a reaped child that a thread still waits for. The texts of
commands and answers are reduced to their kinds; `STOP 1`, invalid pids,
blocked or overlong commands are the one action `RecvRejected`.

**Dispatch.** `First` and `Second`/`Store` are the two `strtok` calls; the
second reads the shared pointer and writes it in separate steps, since nothing
synchronises them. A pointer remembers for which line it was set: when the
buffer has been overwritten since, or its thread (and stack) is gone, what is
found there is arbitrary, and reading a stack that is gone may crash the server
(`Crash`, followed by the restart of the unit file's `Restart=always`).

**Listener.** A descriptor for a connection is in the kernel's `queue`, in
`main`'s hands (`accepted`, between `accept` and `pthread_create`), a thread's
(`served`) or nobody's (`stranded`: the test `< 0` of main.c:377 never sees
that `pthread_create` failed). `holds[h]` are the sockets a started process
inherited, the listening socket among them. `Accept` needs a free descriptor,
`CreateThread` a free task; `Down` is the end of the process, which the queue
survives if a started process holds the listening socket; `Restart` needs that
none does, because `bind` fails otherwise. What a thread does with its
connection is `Session`'s subject: here it ends (`ThreadEnds`).

**Session.** `up` and `down` are the segments in flight. A `recv` of either
side takes any non-empty prefix. `asked` and `request` are locals of
`handle_command` and of one turn of `handle_client`'s loop, and are reset with them. `ServerRecv` keeps only the first line of what
it takes (`strcspn`). `AwaitAnswer`, `AwaitTimeout`, `AwaitLost` are the three
outcomes of the `select` in `handle_command`, in the RUN branch, in the F2
dialog and in the connection dialog; `Poll`/`PollLost` the branch of `tui_run`
without a key, `PollInterrupted` the resize whose SIGWINCH makes `net_recv`'s
`select` return -1; `RefreshDeferred`/`RefreshPeriodic` the timers, which may
fire at any moment. `epoch` counts the executed starts and stops, so that a
listing tells how old it is; a list shown is `whole` when it was parsed from
exactly one complete listing, and `shown.epoch` is the version of the last such. `clientGone`/`serverGone` are what each side's
kernel knows of the other: a first send to a closed peer is harmless, a send
after the reset kills the sender. `heir` is a started process that holds a copy
of the socket. `served` and `heard` are auxiliary: the last command executed and
the last one whose answer was read. The mapping `Service` reads them as the
abstract `executed` and `heard`; `serving` is the request of a server that is
executing one, `screen` is held while the client awaits an answer.

**Panels, InputLine, Keys.** The heights come from `panels_calc_dimensions`,
translated with its integer arithmetic. `ResizeInDialog` is the resize that a
dialog's `wgetch` reads, after which nobody recalculates the layout. `InputLine`
holds the actions on `text`, `cursor`, `field` (the F2 dialog) and `sent` (the
line a handler has written); the words `START `, `RUN `, `HELP`, `EXIT`, the
alphabet, `toupper` and the size of the buffers are constants, so that TLC can
use one-letter words and a buffer of three bytes while the theorems hold for
the code's 256. `Fit` is `snprintf`'s truncation, in the sizes the code
declares (+2, +2, +4, +8). A key code above 255 is outside `isprint`'s domain:
`OddKey` either ignores it or inserts its low byte. `KeysAssumption` says that of
these codes only F2 (266) has a newline for its low byte. That is so for the codes
of `curses.h`, 256 to 511; the extended ones ncurses may define at run time, above
511, are outside it (522, for example, has the low byte 10). `Keys` gives each key to
its owner (a dialog, the list, the input line) under the guards of `tui_run`,
and composes the answers of the server with them. Keys pressed while a command
waits for its answer stay in the terminal's queue.

**ClientLife.** `pc` is where the main flow is, `heap[o]` the pointer to each
allocation: null, live or dangling. Ctrl+C may come at any `pc`: before the
handler is installed (`InterruptEarly`), after `g_state` was cleared
(`InterruptLate`), with all pointers in order (`Interrupt`), or with one that
dangles or inside the allocator or curses (`InterruptBreaks`), where the outcome
is undefined: abort, hang, or, through `Interrupt`, luck. Only the places where
the client waits (`Waiting`: a key, the socket, a timer) are safe; drawing is a
place of its own (`Draw`, `Windows`), since curses may not be called from a
handler that has interrupted it. `InitFails` is `calloc`'s failure before
`initscr` as well as `panels_create`'s after it. `hit` is auxiliary.

A definition whose comment starts with "mutant" is a faulty variant of the one
that follows it. `PROJECT.json` pairs each checked property with the mutant
that violates it; no specification uses them.

## 3. The runs

| Run | Checks | Bounds | Outcome |
|---|---|---|---|
| ProcMix | `TypeOK`, `NoLostZombie`, `OwnVerdict`, `ImplementsService` (with liveness) | 2 threads + main, 2 pids, 2 forks, a foreign process | holds |
| ProcStarted | `StartedIsAlive` | 2 threads, 2 pids | violated: "iniciado" for a child the handler reaped |
| DispMix | `TypeOK`, `MixedOnlyByRace` | 3 threads, 4 lines | holds |
| DispOwn | `OwnArgument` | 2 threads, 2 lines | violated: arguments mixed up by `strtok` |
| ListenFair | `TypeOK`, `OneOwner`, `ServedOrTold`, `CapacityReturns` | 3 connections, 2 started processes, 2 descriptors, 3 tasks, queue of 2 | holds |
| ListenUnserved | `EveryConnectionServed` | 3 connections, 1 started process, 2 tasks | violated: `pthread_create`'s failure goes unseen |
| SessLive | `TypeOK`, `ImplementsService`, `ThreadFreed`, `FirstIsExecuted`, `LossNoticed`, `ListRecovers`, `ListNeverGoesBack` | 2 commands, listings of 2 segments, crash, late answers | holds |
| SessCut | `LongListShown` | 1 command, listings of 2 segments | violated: the last piece replaces the list |
| SessSigpipe | `ServerSurvives` | 2 commands | violated: second send to a client that left |
| Keys | `TypeOK`, `TextOK`, `SentWhole`, `OneCommand`, `ScrollLands`, `ScrollStepwise`, `LineUndisturbed` | heights 10 and 13, up to 4 rows, buffers of 3 bytes, one-letter words | holds |
| InputCase | `CommandAsTyped` | the same, 1 row | violated: Enter changes the argument of START to upper case |
| Life | `TypeOK`, `CalmEnd`, `TerminalRestored` | none: the module has no constants | holds |

The runs that end in a violation are the `findings` of `PROJECT.json`: a doc, a
comment or a test states the property, the code does not have it.

### Other disagreements

These are part of the models, or were met while modelling, and have no run of
their own:

* Between a failed `kill` and the test of `errno` (main.c:71) the SIGCHLD
  handler may run and leave ECHILD there (it does not save `errno`, main.c:326):
  the answer is then "No se puede acceder" in the place of "no existe".
* `handle_command` takes the answer of a timer's LIST that is still under way
  for the answer of its own command (tui.c:647; `AwaitAnswer` does not look at
  what it receives).
* Two commands in one `recv` are cut to the first (main.c:267), although
  proyectoFinal.tex:211 says the client's commands are processed. The lines
  behind the first are lost; `FirstIsExecuted` says that the first is not.
* A row cut by the end of a segment is parsed as two rows: one with the first
  digits of the pid, a process that may not exist, and one that is dropped as
  the header of the next piece (process.c:57, 71).
* After EXIT the connection stays open while a process the client started runs,
  because the child inherited the socket (main.c:122; `heir`), although
  proyectoFinal.tex:558 says it is closed cleanly. A server that ends cannot be
  restarted while such a process holds the listening socket, unless the service
  manager kills it with the server.
* A resize while the client polls interrupts `net_recv`'s `select` (net.c:80),
  and `tui_run` ends with "Conexion perdida".
* A resize while a dialog is open is dropped (tui.c:414, 493; `ResizeInDialog`),
  and the panels keep the old heights until the next resize.
* Between 10 and 19 lines the process panel has less than the 60% that
  panels.c:27 and tests/test_layout_property.c:7 promise from 10 lines on
  (theorem `LayoutRules` gives them from 20 on).
* A shorter list from the poll (tui.c:809) or a taller panel leaves the scroll
  offset beyond the range panels.c:229 states, until an arrow key is pressed.
* The deferred LIST is armed by `START ` and `STOP ` only; END, which the
  comment at tui.c:683 and the help name, and the server's other synonyms wait
  for the periodic one.
* The help (tui.c:346) says that START resumes a process with SIGCONT and END
  sends SIGTERM; the server starts a command and sends SIGKILL.
* Ctrl+C inside `malloc`, `free` or curses, or once more in `tui_shutdown`, is undefined
  (main.c:24): `TerminalRestored` names the windows in which the terminal can
  stay in curses mode. The branch `ch == 3` of tui.c:842 is dead under `cbreak`.
* `atoi` of a pid beyond 2^31 (main.c:55) is undefined and in practice wraps:
  `STOP 4294967298` names process 2.

### Why the bounds are enough

Two client threads and main give every pair of contexts of the handler (own
thread, other thread, main), and two pids the merging of two deaths into one
signal. Three threads in `Dispatch` allow a writer between a reader and a late
writer. In `Listener` three connections and two descriptors keep one client in
the queue while one is served and one stranded; two started processes inherit
different sets of sockets; three tasks are used up both by threads and by
processes. `MaxQueue = 2` in `Session` allows a timer's request, a second one
behind it and a user's command behind both, which is what merging, late answers
and a reset need. Listings of two segments can be split, one segment cannot;
nothing in the code distinguishes more pieces. The heights 10 and 13 of
`MCKeys` have different layouts and fewer visible rows than the list may have;
all other heights, and the thresholds between them, are the theorems' part.
A buffer of three bytes makes texts that fill it and commands whose START is
longer than what was typed.

`Reuse = FALSE` in the runs of `ProcServer`: Linux hands out pids in a cycle, and
a pid that comes back within the 100 ms of `start_process` or the duration of a
`ps` needs the whole pid space to be used up meanwhile. With `Reuse = TRUE`
`OwnVerdict` fails and so does the liveness, since `pclose` can then wait for
another thread's long-running child; no run or theorem says otherwise of that case.
`NoLostZombie` does not depend on it and is proved for both values.

Deadlock is checked for `ProcServer`, `Dispatch` and `Listener`, which never
stop. A session, a keyboard and a client's life do end (both sides closed; EXIT
or a lost connection; the program's exit), hence `CHECK_DEADLOCK FALSE` there.

## 4. Fairness

`ProcServer!Fairness`: a pending unblocked signal is delivered, and a handler
runs on (weak fairness; per pid for the reaping, because the handler does not
leave its loop while any zombie remains); `ps` ends by itself; a process with a
SIGKILL pending ends. A thread's own code is enabled again each time the handler
returns, so that strong fairness says no more than that its scheduler is fair and that
signals do not interrupt it without end; the bound on forks excludes an endless
storm of dying children. Nothing is assumed of the clients, of `fork`, or of
started commands ending by themselves.

`Session!Fairness`: both programs keep running (weak fairness), the `select` of
a pending command returns after 3 s at the latest, and the loop polls its socket
and fires its periodic timer again and again. The last three are strong, because
a command of the user in between only postpones them; a user who types or leaves
a dialog open for ever does stop them, in the code too: the properties are about
a user who stops doing so. Nothing is assumed of the user, of crashes or of
started processes ending. `ListRecovers` is conditional where the code is:
nothing helps when timers overtake answers for ever, or when every listing
arrives in pieces.

`Listener!Fairness`: `main` runs on; a thread whose client has gone ends and a
client whose connection nobody holds notices it, which are `Session`'s
`ThreadFreed` and `LossNoticed`. Nothing is assumed of restarts (`Restart=always`
gives up after a burst of failures) or of started processes. `CapacityReturns`
assumes in its statement that no creation of a thread failed: `StrandedForGood`
shows why.

## 5. What is proved

All theorems are for every value of the constants that the named `ASSUME` of the
module allows; the assumptions are types, plus: `Main` is not a client thread
(`ProcServer`); START is at most six bytes long and at most two longer than RUN,
upper case neither makes nor loses a line break, and of the key codes only F2
has one as its low byte (`InputLine`, `Keys`).

### Every invariant and action property that the passing runs check

* `ProcServerProofs!TypeCorrect`: `TypeOK` is inductive, one step per action. It
  includes that a thread at a system call on a pid has one.
* `ProcServerProofs!ZombiesNotLost`: `NoLostZombie` is inductive on top of
  `TypeOK`: a zombie comes into being together with the pending signal, the
  signal is consumed only by a thread that enters the handler, and a thread
  leaves the handler only when there are no zombies.
* `ProcServerProofs!VerdictIsOwn`: under `~Reuse`, `OwnVerdict`. The inductive
  invariant `HeldIsMine` says that a thread waiting in `start_process` is the
  owner of its pid as long as that pid is a child of the server; without the
  condition on reuse another thread could own it.
* `ProcRefinement!SafeRefinement`: every step of the server is a step of
  `ProcService` or a stutter under the mapping of `Service` (a SIGKILL pending
  counts only for running children). It rests on `DoomedRunKept`: a pending
  SIGKILL belongs to a process that runs.
* `DispatchProofs!TypeCorrect`, `OnlyRacesMix`: the invariant `OwnUntilRace` says
  that the static pointer is the thread's own between its calls, and what it
  read is its own afterwards, unless another thread was seen to write in
  between. It needs what `TypeOK` says of the pointer: a thread between its calls
  has left one, so that `strtok(NULL)` never continues from nothing.
* `SessionProofs!TypeCorrect` and `SafeRefinement`: `SessionInv` adds to the
  types that requests on their way are later than what the server has taken and
  in the order of entry (`UpOrder`), and that answers on their way lie between
  the last one heard and the last one executed, in order (`DownOrder`). Without
  it even the type of `epoch` is not inductive: a command executed twice would
  push it past `MaxCmds`. A `recv` of any prefix keeps both orders (suffixes of
  ordered queues), and each step is then a step of `SessionService` or a stutter.
* `SessionProofs!ListGoesForward`: answers carry no request number, so a listing
  may be taken for the answer of any command, late and cut. `EpochInv` orders
  the versions instead: whatever is under way lies between the last version
  shown and the server's present one, in order, so that any prefix a `recv`
  takes leaves only newer versions behind. Every START or STOP shows an empty
  list in between, which is why the last whole version is remembered.
* `ListenerProofs!TypeCorrect`, `OwnerIsOne`: `OneOwner` needs that `main` holds
  at most the connection it is giving away, and that a new connection is
  nobody's.
* `PanelsProofs`: `LayoutRules` (heights add up from 10 lines on, 60% from 20
  lines on), `ClampRange` and `EveryRowReachable` about `scroll_clamp`, and with
  them `TypeCorrect`, `ScrollAlwaysLands` and `ScrollNeverJumps`.
* `KeysProofs`: `ScreenCorrect` carries the theorems of `PanelsProofs` to the
  whole keyboard: by the lemma `KeysPanels` each key is a step of `Panels` or
  leaves the screen alone. `CommandFits` and `FieldFits` about the buffers. `TextInv` is
  the inductive invariant of the texts: what was sent is that of the text still
  in the line, so it needs `Stages`, which ties `sent` to the handler under way
  and to the dialog, and that no line break gets into the line. From it
  `TextCorrect`, `WholeCommands`, `SingleCommands` and `LineStays`.
* `ClientLifeProofs`: `CalmEnd` and `TerminalRestored` speak of the program's
  end, and nothing in them says why a release on the way there finds a live
  pointer. `LifeInv` does, for a program that still runs: `Control` (at which
  places `g_state` is set, the handler installed, the terminal restored and the
  socket closed) and `Heap` (at each place, which pointers are null, live or
  dangling; a dangling one is overwritten by the next step or belongs to a
  `tui_shutdown` whose caller ends). `TypeOK` includes that `g_state`, which the
  handler tests, names no released state except between `tui_shutdown`'s `free`
  and `main`'s reset of it. `TypeCorrect`, `CalmEndAlways` and
  `TerminalAlwaysRestored` follow. The module has no constants, and its run
  visits every state there is: what the proof adds is the reason.

### Where the code breaks a promise: what would keep it

Five of the violated properties of section 3 are safety properties that hold
under a condition which the code does not enforce. Each of these theorems names
one that is enough.

| Theorem | Promise | Holds as long as |
|---|---|---|
| `DispatchProofs!OneAtATimeOwnArgument` | `OwnArgument` | no two threads are between their `strtok` calls at once |
| `ListenerProofs!EnoughTasksServeAll` | `EveryConnectionServed` | the limit of tasks is at least the number of connections and started processes there may be at one time |
| `SessionProofs!OneRequestIsSafe` | `ServerSurvives` | the client leaves with at most one request unanswered (and nobody kills the server) |
| `ProcServerProofs!HandlerMakesStartedWrong` | `StartedIsAlive` | the handler reaps no child of a thread that sleeps in `start_process` (`~Reuse`) |
| `KeysProofs!UpperCaseAsTyped` | `CommandAsTyped` | the text has no lower case letters |

The second condition is about the constants; the others are facts about behaviours
(`[]OneAtATime`, `[][~ReapsSleeper]_vars`, ...). Each has behaviours of the code
that meet it. Their proofs carry an invariant of their own on top of the ones
above: `Undisturbed` (nobody wrote `strtok`'s pointer between two calls),
`RoomForOne` (the tasks in use and the connection `main` holds belong to different
connections and processes, so that there is one left for it), `NothingToReset` (of
a client that has left, at most the answer under way is missing: its send, the
first to a closed socket, is harmless and no second follows), `SleeperHasChild` (a sleeping thread's child is still in the table, perhaps as a
zombie), `StartSentStep` (of a START only the case changes).

The crash through an ended thread's stack needs the same race as the mixed
argument (`OneAtATimeNoCrash`).

What holds without the condition is proved beside it: `StrandedForGood` (a
connection without a thread keeps its descriptor as long as the process runs),
`StartedIsOwn` (whatever the handler does, "iniciado con PID" never names another
client's process or a foreign one: `NotForeign`, a pid that a thread waits for
is given to nobody else), `OnlyCaseChanges` (nothing of a START is cut or added).

Of the session, `EndIsTold` says when the client can learn of the server's end:
exactly when the thread has closed and no started process holds a copy of the
socket.

### What is not proved

Liveness: the fair half of both `ImplementsService`, `ServedOrTold`,
`CapacityReturns`, `ThreadFreed`, `FirstIsExecuted`, `LossNoticed` and
`ListRecovers`, because the prover treats neither fairness nor `ENABLED`. They
stay with TLC, within the bounds of section 3. `LongListShown`, the sixth violated
property, is liveness too and has no theorem of this kind.

## 6. Not modelled

* The synonym tables of `normalize_command`, the list of blocked commands, the
  digits of pids (`atoi`'s width): pure tables and conversions of one argument.
* The digits and names `process_list_parse` reads, and `ps`'s text.
* The editing of the address in the connection dialog; the prompt.
* Colours and rendering: output that nothing reads back.
* The Windows variants, the demo programs, the scripts, the client's tests.
* A `recv` that splits one line (the client's lines are far below a segment); a
  `send` that blocks because the client does not read (no timeout in the code to
  reason about); `net_connect`'s failures, after which the dialog asks again.

## 7. Plan

Done in this order, the most important behaviour first: `ProcServer`, its
abstract service and proofs; `Session`; `Panels` and its proofs; `Dispatch` and
its proofs; `SessionService`, its refinement and proofs; `Listener` and its
proofs; `ClientLife` and its proofs; `InputLine`, `Keys` and their proofs; the
theorems on what each violated property needs. What is left:

1. `ProcessList`: the parser as a function over rows cut at segment boundaries,
   against a reference definition (which entries name a listed process).
2. Composition of `Dispatch` with `ProcServer`: a STOP whose pid is another
   client's argument; `atoi` modulo 2^32 in front of `stop_process`'s checks.
3. `Listener` and `Session` together: the `heir` of one session as the heir of
   the others.
