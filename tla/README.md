# mapplauncherd in TLA+

mapplauncherd starts applications faster by keeping a *booster* ready: a process
forked from a daemon, with libraries preloaded, that waits on a socket. The
`invoker` a user runs connects to the socket, describes the application, and the
booster becomes it. This directory models the parts of that which are hard to
test: processes that fork, die, are killed, are waited for and report to each
other while a daemon replaces itself underneath them.

Paths below are relative to `src/src/` of the repository; `daemon.cpp`,
`booster.cpp`, `connection.cpp` are in `launcherlib/`.

## 1. The system

| Component | State | Operations | Talks to |
|---|---|---|---|
| **Daemon** (`daemon.cpp`) | `m_children`, `m_boosterPid`, `m_boosterPidToInvokerPid/Fd`, `m_bootMode`, signal pipe, launcher socket | constructor, `run` (a `select` loop), `readFromBoosterSocket`, `forkBooster`, `reapZombies`, `enterNormalMode`, `enterBootMode`, `killBoosters`, six signal handlers | boosters (fork, kill, wait, datagrams), invokers (exit value, kill), itself (signal pipe) |
| **Re-exec** (`reExec`, `restoreState`) | the state file | save, kill the booster, ignore SIGHUP, `execve`, restore | the daemon's next image |
| **Booster** (`booster.cpp`) | its connection, the request, the point it has reached | restore handlers, ask for a death signal, `accept`, receive, reject, `sendDataToParent`, launch | the invoker, the daemon |
| **Invoker** (`invoker/invoker.c`) | connection, pid of the application, self-pipe | connect, send the request, wait, forward signals, kill on end of file, fallback | booster, daemon, application |
| **Protocol** (`connection.cpp`, `common/protocol.h`, `invokelib.c`) | position in the byte stream | magic, name, actions, ACK, pid, exit | both ends |
| **Single instance** (`single-instance/main.cpp`, `singleinstance.cpp`) | lock files | lock, unlock, activate | booster, window manager |
| **Socket manager** (`socketmanager.cpp`) | name to descriptor | init, close, find, restore | daemon, booster |
| **Application data, logger, report, search, argument parsing, generic booster, build scripts** | - | getters, output, look-up | - |

What is hard about it:

- *Concurrency without locks.* The daemon is one thread, but its view of its
  children comes through three channels whose relative order means nothing:
  datagrams, signals (which coalesce) and `waitpid`.
- *Inherited state.* A forked booster runs with the daemon's handlers, pipe and
  descriptors until it has got rid of them.
- *Identity by position.* A datagram does not name its sender; the daemon
  attributes it to the booster of the moment.
- *Restart with live children.* `execve` keeps children, descriptors, pending
  signals and ignored signals, and loses memory and handlers.
- *Recycled pids, dead peers, ends of files, fork failures.*

What makes each part correct:

- daemon: the list of children is the process table's; one replacement per
  booster given away or dead; every zombie is waited for; every invoker that
  waits gets the outcome of *its* application; a mode switch leaves no booster of
  the old mode; it exits only when told to.
- re-exec: nothing above notices it.
- booster: one request each; the invoker is known to the daemon before the
  application runs; an application keeps nothing of the booster's.
- invoker: it ends with, and as, its application; it never kills a healthy one.
- protocol: both ends agree where they are, or the connection is closed.
- single instance: at most one holder, and a refused request finds one running.
- socket manager: the file at the path leads to the daemon that is up, and nobody
  waits on a socket that nobody will accept from.

## 2. The modules

| Module | Models | Lines of code behind it |
|---|---|---|
| `Kernel` | process table, `fork`/exit/`wait`, death of a parent (`PR_SET_PDEATHSIG`), pending signals and handlers, pipe, datagram socket | signal handlers, `signal()` calls; the rest is the operating system, marked external |
| `Daemon` | one action per system call at which others can interfere: `Select`, `ReadFromBoosterSocket`, one action per signal read, one per `waitpid` of `reapZombies`, the four phases of a start, `ReadSigHup`, `Exec` | `daemon.cpp` |
| `Booster` | a child from fork to exit: `RestoreHandlers`, `SetDeathSignal`, `AcceptInvoker`, `RejectInvoker`, `SendDataToParent`, `Launch`, exits and crashes | child's part of `forkBooster`, `booster.cpp` |
| `Invoker` | `Connect`, end of file (`ConnectionLost`), a forwarded signal (`Interrupt`) | `invoker.c` |
| `Launcher` | the composition, the administrator's signals, fairness, the properties | |
| `LauncherInv` | the inductive invariant in three layers | |
| `LauncherProofs`, `ChildProofs`, `SignalProofs`, `InvokerProofs` | theorems about `Launcher`: types and queues; children; what signals lead to (zombies, stale boosters); invokers and the refinement of `Launches` | |
| `MCLauncher` | instances for TLC; one `.cfg` per run | |
| `Protocol` | one conversation: both ends, the stream between them, SIGPIPE | `connection.cpp`, `invoker.c`, `invokelib.c` |
| `ProtocolInv`, `ProtocolProofs` | the inductive invariant of a conversation and the theorems about it | |
| `MCProtocol` | the requests TLC tries | |
| `WaitLoop` | one invoker after the acknowledgement: wait loop, self-pipe, forwarder, end of file; the booster that hands its connection on or does not; the daemon that waits, closes, kills | `invoker.c`, the end of `Booster::initialize`, the report in `reapZombies` |
| `WaitLoopProofs` | theorems about `WaitLoop` | |
| `Launches` | abstract: what `Launcher` promises its invokers | |
| `Sockets` | daemons of one type that follow or overlap each other on one path, their boosters and who connects to them | `socketmanager.cpp`, `invoker_init` and `invoke_fallback` |
| `SingleInstance` | boosters and the stand-alone program at the lock files | `single-instance/main.cpp`, `singleinstance.cpp`, the loop of `Booster::initialize` |
| `OneInstance` | abstract: what `SingleInstance` promises | |
| `SocketProofs`, `SingleProofs` | theorems about `Sockets` and `SingleInstance` | |

`Launcher` has many processes and one step for a conversation or a wait;
`Protocol` and `WaitLoop` open those steps up for one pair of processes. They
share no variables: what `Launcher` assumes of the conversation (a request is
taken whole or the booster ends) is what `Protocol` checks, and what it assumes
of the invoker (killed by signal, told a value, or at the end of file) is what
`WaitLoop` refines informally. `Sockets` is the other half of `Launcher`'s
`Connect`, which takes for granted that a daemon that has forked can be reached;
`SingleInstance` is behind the choice between its `Commit` and `Reject`.

Two abstract specifications have no processes. `Launches` has three variables
per invoker, `request`, `outcome` and `answer`; the mapping from `Launcher`
(instance `L` in `LauncherInv`) forgets the daemon, the boosters, the signals and
the state file, keeps `told` and reads `outcome` off the ghost `fate`.
`OneInstance` has the owner of each application and the outcome of each request;
`SingleInstance` maps the holder of a lock to the request its process works for,
and a process that `lock()` has turned down to a refused request, so a refusal
takes place at `fcntl()`, at the instant at which another instance was there.

How state and actions correspond to the code:

- `pc` names the daemon's place: `main`, `handlers`, `instance`, `init` are the
  four stretches of the constructor and of `run` before its loop (separated by
  "handlers installed", "`m_instance` set", "channels there"); `select`,
  `socket`, `signal`, `reap`, `exec` are the places in the loop.
- `state[p]` is how far child `p` has come; `Kernel` explains the values.
- Variables named `m_...` are the members of `Daemon`. A map without an entry
  for `p` has the value `NoInvoker` there. An invoker stands for its pid and for
  its connection; `openFds` says which connections the daemon has open.
- `told[i]` is what reached invoker `i`: an exit value or killing signal, a
  refusal (`rejected`), or the end of file (`lost`). `fate[i]` is a ghost: what
  truly became of the process that served it. `misread` is a ghost: a booster was
  reaped before its datagram was read. `unsent` is a history variable: the invokers
  whose booster's own `sendmsg` failed. No guard depends on any of the three.
- `m_children` is a set. `reapZombies` visits `unvisited` in any order, which
  contains the code's order; a child pushed during the pass is visited by it.
- A signal to a booster acts in the step that sends it. One sent to the daemon
  waits in `sigPending` (a set, as they coalesce) until `DeliverSignal`, whose
  four outcomes depend on `pc`: lost, fatal by default action, fatal through a
  null `m_instance`, or written to the pipe.
- Uninitialized `m_sigPipeFd` between `m_instance = this` and the end of
  `restoreState()` or `pipe()`: the byte is lost. (It could also land in another
  descriptor by chance; that outcome is left out.)
- Failures (`fork`, `sendmsg`, `recvmsg`, saving the state, `execve`, crashes of
  the daemon and of any child) are actions counted by `MaxFaults`; `fork` also
  fails whenever no pid is free.
- In `Launcher` the conversation of booster and invoker is the one step `Accept`; a
  request that cannot be read ends the booster by an uncaught exception,
  `BoosterCrashes`.

`Protocol`:

- The stream is a sequence of items, an item being what one `write()` puts into
  it: a word (tag or number), the text of a string, the byte that carries the
  descriptors. `Wire(request)` is the request as the invoker writes it and `sent`
  how much of it is written; `inv` is the invoker's place.
- `at` is the booster's place, `into` the tag under which it receives, `left` how
  many strings or numbers are still to come, `got` what it has received, which is
  what `AppData` holds. One action per receive function and outcome.
- A text is its size and whether it has the form NAME=VALUE. A word read from the
  middle of something else is `Junk`, which equals no tag.
- The end of file reads as the word 0 with result true, as in `recvMsg`; a string
  that does not come ends `receiveArgs` and `receiveEnv` with a result
  `receiveActions` ignores; a failed `sendmsg` of the descriptors leaves its tag
  in the stream.
- `ignores` says who was started with SIGPIPE ignored, which `exec` hands down.

`WaitLoop`:

- `pc` is the place in `wait_for_launched_process_to_exit`, `handlers` whether the
  forwarder or the defaults are installed, `inside` the stack of calls of
  `sig_forwarder`, `pipe` the bytes in the self-pipe, `status` what will be returned.
- `sig_forwarder` is two steps, `Forward` (it passes the signal on) and `Raise`
  (defaults, byte, `raise`); between them other signals may come and nest.
- A signal that has come is taken before its target runs on, so `pending` is
  empty, blocked or belongs to a stopped invoker whenever the loop moves.
- `app` is the process behind `g_invoked_pid`: the booster until its
  `sendDataToParent`, until `prctl`, then the application; once it is reaped the
  pid may be anybody's. A default stop signal does not stop it: `setsid()`
  (`daemon.cpp:399`) has left its process group an orphan.
- `conn` is who has the other end of the connection. It starts with the booster. A
  booster that dies, of `killBoosters`, of the daemon's death or of a crash, or whose
  `sendmsg` fails (`handed`) and which then closes its copy, gives an end of file
  with the daemon alive; so does one that turns the invoker away, after an exit value.
- `daemon` is its place in `reapZombies`: `DaemonWaits` is `waitpid`, `DaemonReports`
  writes the value or closes the connection (`daemon.cpp:485`), `DaemonKills` is
  the `kill` after that (489). In between the invoker has an end of file and no
  signal on its way, for as long as its `sleep(2)` lasts.
- Time does not pass; a `sleep` ends at some point, as a signal cuts it short, so
  the pause may be over before that `kill`: the ghost `late` says that it was.
  `asked`, `missed` and `struck` are ghosts, too, and `handed` a history variable.
- Taken for granted: the daemon reads the booster's message before it waits for it
  (that it need not is the finding `misread`), nobody else gets the invoker's
  own pid, and nothing happens between the booster's `close` and its `prctl`
  (`booster.cpp:162-165`).
- `Launcher` has the daemon's close and kill in one step, `Report`, which is right
  as long as the pause outlasts them; this module is what tells when not.

`Sockets`:

- `initSocket()` is five actions, one per system call whose place among those of
  another daemon matters. `saw` is the verdict on `stat()`'s buffer: when the call
  fails the buffer is uninitialized and either verdict is possible.
- `file` is the daemon whose socket the path names, `listening` the sockets that
  take connections, `queue` their backlogs. A socket lives as long as somebody has
  its descriptor: its daemon, or a booster of it until `closeAllSockets()`.
- The end of a daemon takes the boosters along that have asked for it; one that
  is just forked has not, and of those about to run an application some have
  cleared it already.
- A second daemon of one type is started by a user or by a restart of the service
  before the first has gone. `last`, `gap` and `alone` are ghosts.

`SingleInstance`:

- `pc` is a process's place in `lock()` and after it, `holder` the process that has
  the record lock of each application, `g_lockFd` who has a lock file open. Both
  survive `dlclose()` of the plugin and `execve()` and end with the process.
- `appName` is what was typed. Nothing resolves it, in the invoker or in the
  stand-alone program: two spellings of one path are two applications.
- A booster of a daemon that could not load the plugin launches without a lock,
  and so does one asked without `--single-instance`.
- An application that forks and leaves the work to its child gives up its lock,
  which belongs to a process; for the model that is its end.

## 3. What is checked

`ConnectionsTracked`, `InStep`, `RightOutcomeInStep` and `NoStaleBooster` are the
deep ones: each relates the daemon's memory to processes it cannot see.

| Run | Property | Says |
|---|---|---|
| `signals` (1321 thousand states) | `ChildrenTracked` | `m_children` is the process table's list of unreaped children at every instant, through forks, passes and re-execs, so no recycled pid is waited for or killed; the current booster is one of them |
| | `NoZombieForgotten` | while a zombie exists a SIGCHLD, a pass or a re-exec is on its way to it |
| | `NoStaleBooster` | after a mode switch, and from the moment a re-exec is prepared, no booster of the old mode or image is left to take requests |
| `failures` (880 thousand) | `TypeOK` | types |
| | `ConnectionsTracked` | the two maps agree, name each invoker once, and reach exactly the descriptors held |
| | `InStep` | until a datagram is misread: at most one is in flight, from the current booster, the only one that can take a request, and every other child is mapped to the invoker it serves |
| | `ChildInv`, `InvokerInv` | the inductive invariants, with failures |
| | `RightOutcomeInStep` | what an invoker is told is what happened to its application, until a datagram is misread |
| | `NoAppKilledByInvoker` | while the daemon runs, an invoker kills a running application at an end of file only if the `sendmsg` of its own booster failed, whatever else has failed or crashed |
| | `NoWaiterForgotten` | until a datagram is misread, who waits at an open connection is served by a process not yet waited for, and that process, a datagram or the maps lead back to it: the safety half of `EndReported` |
| | `BoosterToCome` | a daemon that runs has a booster that can take a request, or its end or its datagram is on the way to the fork of the next; only the application whose own booster's `sendmsg` failed holds the next one up: the safety half of `RequestServed` |
| | `LaunchesInStep` | until a datagram is misread the launcher implements `Launches`: no request is served twice, no end is told early or wrong, and who loses its connection has no application left |
| `liveness` (116 thousand) | `EndReported` | who waits for a dead application learns of it |
| | `RequestServed` | a queued request is taken by some booster, unless the daemon ends or a `sendmsg` has failed |
| `conversation` (226 thousand) | `TypeOK` | types, and no number of strings to come below zero |
| | `ConversationInv` | the inductive invariant behind the next three |
| | `AcceptedAsSent` | a booster that acknowledges has received, under every tag, what the user asked for, whatever was out of limits, lost or cut off |
| | `RefusedForCause` | only a request beyond a limit, or a failure, is refused |
| | `Agreement` | the invoker takes the request for accepted only if the booster does, and with its pid |
| | `NeverBothBlocked` | the two are never both in `read()` with nothing on its way to either, whatever was counted differently, lost or given up half-way |
| | `ConversationEnds` | and each comes to an end |
| `waiting` (394 thousand) | `TypeOK` | types, and the self-pipe is never read empty |
| | `ForwardsAgain` | while the defaults are in place and the loop waits, a byte is there to bring the forwarder back |
| | `EndsAsApplication` | the invoker returns the application's value or dies of its signal, unless its user killed it or nothing was reported to it: the daemon is dead, the booster has not handed the connection on, or the pause ended between the daemon's `close` and `kill`; and then no application is left |
| | `OnlyOrphansKilled` | an application that runs while its invoker is on the way to kill it has a dead daemon, or one that never got its connection because its booster's `sendmsg` failed; never one that the daemon is to report on |
| | `WaitInv` | the inductive invariant behind these |
| | `WaitEnds` | the invoker ends once its application or the daemon has, unless it is stopped |
| `sockets` (89 thousand) | `TypeOK` | types, and a daemon that is up knows its socket, also in its next image |
| | `Reachable` | while the last daemon to bind is up a connect leads to it, however its start overlapped others' lives, unless one has died between `unlink` and `bind` |
| | `StaleFileReplaced` | a file left behind never keeps a daemon from starting; `bind` fails only when two start together |
| | `SocketInv` | the inductive invariant behind these two |
| | `NobodyWaitsInVain` | who is in a backlog is in that of a daemon that lives or of a booster that is no application: the safety half of the next |
| | `NobodyStranded` | who has connected is accepted or reset, whoever dies or re-executes |
| `single` (86 thousand) | `TypeOK` | types, and past `lock()` exactly the holders have the file open |
| | `SingleInstances` | no two processes asked for as single instances run one application |
| | `SingleInv` | the inductive invariant behind it and behind the refinement |
| | `NobodyLeftAsking` | who waits to be told has a booster at work on the request: the safety half of the next |
| | `RequestAnswered` | who asks is launched, answered or cut off, also by a booster that goes on to other requests |
| | `OneInstanceSpec` | the plugin and the program implement `OneInstance`: a request is refused only when an instance held the lock or a call had failed |

Five runs expect a violation; each is a disagreement between the code and what
it, its usage text or its documents say.

| Run | What happens |
|---|---|
| `misread` | Booster *b1* sends its datagram and exits at once. SIGCHLD had already been reported by `select` or is read during a pass, so *b1* is reaped first and *b2* forked, and then the datagram is stored under *b2* (`daemon.cpp:304`). From there on every report is shifted by one invoker. |
| `unasked` | SIGUSR1 kills the booster with SIGTERM while that booster still has the daemon's handlers. Its handler writes SIGTERM into the pipe it shares with the daemon, and the daemon exits. |
| `reexec` | SIGHUP, or the SIGCHLD of the booster just killed, arrives in the new image after `signal()` and before `m_instance = this`; the handler dereferences null. |
| `forwarding` | SIGTSTP stops the invoker inside its handler with the defaults restored, so the SIGCONT that resumes it is not forwarded to the application (`invoker.c:96`, against `doc/limitations.dox:92`). |
| `recycled` | The daemon is dead and the booster or application with it; `init` waits for it, its pid is used again during one of the pauses, and SIGKILL goes to a stranger: the look into `/proc` says that somebody has the pid, and nobody looks again after `sleep(10)` (`invoker.c:503`). |

One more comment is not what the code does, and has no run of its own:
`invoker.c:484`, "Because we are here, applauncherd.bin must be dead". The daemon may
be alive in three ways: it has closed the connection and not yet killed
(`daemon.cpp:485-489`), the booster died before it handed the connection on, or its
`sendmsg` failed. `Unreported` in `WaitLoop` lists them; `OnlyOrphansKilled` is
the part of the comment that is true, and the part that matters.

`InStep`, `RightOutcomeInStep`, `NoStaleBooster` and `EndReported` are stated
"until `misread`": the first of these findings is what they exclude, and nothing
else. `NoStaleBooster` likewise excludes the second: the booster that was not
killed has left its SIGTERM in the pipe and the daemon is about to exit.

### Bounds

Three pids: an application, a booster that has handed over, and its replacement,
with reuse of each pid after it is reaped and exhaustion of the table. In
`signals` one invoker, which waits and may be interrupted, so that reporting to it
raises SIGPIPE, and three signals of the administrator, any of three kinds each: a
mode switch between two re-execs, two switches and a re-exec. SIGTERM is not among
them: it ends the daemon, of which these properties say nothing more. In `failures` two invokers, one that waits
and one that does not, one re-exec and one failure. In `liveness` one invoker,
which may be interrupted, and one mode switch or re-exec. Three waiting invokers
for `misread`. `MaxPipe` is 2 bytes: a full pipe blocks the handler
and with it the daemon only in the model, where it delays the signal; the real
pipe holds 64 kB. Booster pids are interchangeable (`SYMMETRY`, in runs without
liveness). `VIEW Relevant` drops what nothing can depend on: the record of a free
pid, and the memory and queues of a daemon that has exited.

`conversation`: `StrLenMax` is 2 bytes and `ArgMax` and `MaxVars` are 3, so that
strings within, at and beyond the limit and zero to two or too many of them
occur, one sequence of three standing for too many;
each dimension of a request is tried in full with the others plain,
because the code treats them one after the other. `Buffer` is 2 items: writers
block and the reader gets ahead of them; two failures at any points. `waiting`:
three signals of three kinds (one that ends, one that stops, one that resumes and is
harmless otherwise), which is a signal in the loop, one inside the forwarder and one
more inside that; a booster or an application dies of SIGTERM, as from `killBoosters`, or
of SIGABRT, of its own.

`sockets`: two daemons are every overlap of two starts, and one that replaces
another; two boosters are one that waits and one that launches, or an orphan and
its successor; a `Backlog` of one makes the second invoker wait for the first.
`single`: two boosters and the program give two that race for one lock while a
third runs the application, two names make sure that another's lock does not
count, and a booster that was refused can be asked again.

Deadlock checking is off because the system stops legitimately: the
daemon has exited, or all invokers are served.

### Fairness

Weak fairness for the daemon, for delivery of its signals, for each booster
(preparing, handing over or refusing), for the acceptance of a queued invoker and for an invoker that meets
the end of file: all are steps of processes that are runnable, and the scheduler
runs those. In `Protocol` both processes are fair, in `WaitLoop` the loop, the
handlers, the booster up to the start of the application, and the daemon's pass. In `Sockets` daemons and boosters run; that a
booster goes on from a request it has accepted supposes that the invoker sends it,
which `ConversationEnds` is about. In `SingleInstance` every process goes through
`lock()`, which does not wait, and through the D-Bus call. None for applications (they may run for ever), for failures, for the
users and for the administrator.

## 4. What is proved

With TLAPS, for every set of pids and invokers and every bound:

- `QueueInvariant`: `Spec => []QueueInv`. `TypeOK` alone is not inductive: the
  daemon takes the head of the socket and of the pipe without looking again, and
  only `QueuesReady` (what `select` reported is still there) makes those reads
  well typed. It also says that `recvmsg` and `read` never block the daemon.
- `TypeCorrect`: `Spec => []TypeOK`, from it.

- `ChildInvariant`: `Spec => [](QueueInv /\ ChildInv)`, and from it
  `ChildrenAlwaysTracked`. `ChildrenTracked` alone is not inductive: it says
  nothing while `execve()` replaces the daemon, where the list lives in the state
  file only (`StateSaved`), nor before the first `fork` (`NothingYet`), and
  `waitpid` would fail on a pid that is no child any more unless a pass visits
  children only (`PassInv`).
- `ZombiesNoticed`: `Spec => []NoZombieForgotten`, by the above. A zombie arises
  with a SIGCHLD; the argument follows that signal from the kernel through the
  handler into the pipe, to the pass it starts, and over `execve()`, where the
  unconditional pass of the new image takes its place.
- `InvokerInvariant`: `Spec => [](QueueInv /\ ChildInv /\ InvokerInv)`, and from it
  `ConnectionsAlwaysTracked`, `AlwaysInStep`, `OutcomeRightInStep`,
  `NoAppEverKilledByInvoker` and `NoWaiterEverForgotten`. None of the first four is inductive: a report is right
  only if the map is, the map only if the datagram named the invoker its sender
  serves (`MessagesTrue`), and that is used only if the sender is still the
  booster of the moment. So an invoker is followed from `accept()`
  (`ServiceInv`, `UnservedInv`), through the datagram (`HandOver`, `MessagesTrue`)
  and the maps to the report (`FateInv`, `ToldInv`). The invariant has two halves,
  which the steps disturb separately: what becomes of invokers and processes, and
  what the daemon holds and knows of them. `NoAppEverKilledByInvoker` is about one
  invoker and its own booster: while the daemon runs, a connection that nobody holds and an
  application that runs mean that this booster's `sendmsg` failed (`HandOver`). The lemmas carry the steps over three
  facts: a process that serves nobody lets everybody alone, the end of one that
  serves is that of one invoker only, and when the daemon is about to fork no
  booster that can take a request is left.
- `LauncherRefinesLaunches`: `Spec => LaunchesInStep`, from `InvokerInvariant`: each
  action is one of `Launches` for one invoker, or a stutter. A misattribution lets off every
  step from it on.
- `NoBoosterStale`: `Spec => []NoStaleBooster`, by `InvokerInvariant`. The current
  booster is of the current mode, or it is dying, or it survived because it had
  not got rid of the daemon's handlers, and then the SIGTERM is on its way into the
  daemon's own pipe. The property counts the instant between `killBoosters()` and
  `execve()` to the next image: what is left then is stale as soon as `execve()` returns,
  which the proof needs and an earlier form of the property did not say.
- `BoosterAlwaysToCome`: `Spec => []BoosterToCome`, inductive once `ChildInv` is
  known. The current booster leaves `accept()` by its death, which it leaves as a
  zombie nobody but the daemon reaps, or towards its datagram; the daemon takes the one
  or the other and forks before it goes back to `select()`. A booster whose `sendmsg`
  failed is excused by name (`unsent`), and no other: the next booster is on its way again
  once that application has ended.
- `NothingOwedAsleep` puts the three together for the instant at which nothing but a new
  event could wake the daemon: in `select()`, with no datagram, no byte in the pipe and no
  SIGCHLD pending. No zombie is left then, the booster can take a request (or its own
  `sendmsg` failed and its application runs), and every waiter at an open connection is served by a process that lives.
- `ConversationInvariant`: `Spec => []ConversationInv` in `Protocol`, and from it
  `ConversationTypes`, `RequestsAcceptedAsSent`, `RefusalsForCause`, `EndsAgree` and
  `NeitherWaitsForTheOther`, for requests of any size. The request half says where the booster is by how many items it has
  taken: at a tag, with everything before it received; under a tag, with as many
  strings or numbers as it has counted down; or strayed, at a tag where the stream
  has a number or a text, because it has given something up for a limit. The
  stream is the part of the request between what is taken and what is sent, with
  the descriptors or, when `sendmsg` failed, without. The answer half
  says that what the booster has written and the invoker not read is in the
  stream, word by word. From a place out of step no step leads to the
  acknowledgement, since `receiveActions` meets a word that is no tag or the end
  of file. For the last theorem one more fact is carried along: the invoker reads
  only when all of the request is written (`WritesFirst`), and then wherever the booster
  still receives something is left of the request in the stream, `END` at the least.
- `WaitInvariant`: `Spec => [](TypeOK /\ WaitInv)` in `WaitLoop`, and from it
  `InvokerEndsAsApplication`, `OrphansOnlyKilled`, `SelfPipeWorks` and
  `WaitTypes` (the self-pipe is never read empty). The invariant says what an end of
  file means to the invoker: a deadly signal is on its way, in `pending` or on the
  stack of handlers, and the loop does not run while it can be delivered; or the daemon
  stands between its `close` and its `kill`; or nothing is going to be reported
  (`Unreported`). A pause that ends in the second case makes it the third, by `late`.
  `ConnectionInv` says how the connection came to be closed, and so that one whose
  application still runs was closed by a dead daemon or by a booster whose `sendmsg`
  failed. An application that has ended has done so for good, and a connection once
  closed stays so: that is all the steps of the others may change (`OthersKeep`).

- `SocketInvariant`: `Spec => [](TypeOK /\ SocketInv)` in `Sockets`, and from it
  `AlwaysReachable`, `StaleFilesReplaced` and `SocketTypes`. `Reachable` speaks of the last daemon
  to bind; what carries it over the steps of the others is that the file is that
  daemon's or missing, and missing only while somebody stands between `unlink` and
  `bind` or has died there. For `StaleFileReplaced` the daemon that starts alone is
  followed: after `stat` the verdict is right, after `unlink` there is no file.
- `NobodyEverWaitsInVain`: `Spec => []NobodyWaitsInVain`, with an invariant of its own,
  `WaiterInv`: every socket that listens is held, and by no application. Deaths,
  re-execs, a `bind` that fails and `closeAllSockets()` are all one case, the kernel's
  closing of what nobody holds (`CloseWaiters`).
- `SingleInvariant`: `Spec => [](TypeOK /\ SingleInv)` in `SingleInstance`, and from
  it `OnlyOneInstance` and `SingleTypes`. `SingleInstances` says nothing of who is on the way through
  `lock()`; the invariant ties everybody past it to the lock in `holder`, and says
  that a booster that comes back for another request is no single instance any more
  (`LockInv`).
- `SingleRefinesOneInstance`: `Spec => OneInstanceSpec`, from `SingleInv`. `LockInv`
  does not carry it: the mapping asks whose request a process works for, so
  `RequestInv` says that an invoker has one booster, that it has been told it is
  launched, or nothing yet, or has seen the end of a booster that has ended, and that a lock
  is held for the request of its holder. A process that moves changes the outcome of
  its own request only (`OneMoves`), and one that turns to the next request leaves behind
  what its invoker was told (`OneLeaves`).
- `NobodyEverLeftAsking`: `Spec => []NobodyLeftAsking`, with `LockInv`: a booster leaves
  its work only by a step that tells the invoker of its connection.

`QueueStep` has one step per action; `forkBooster`, `killBoosters`, the two map
updates and the ends of processes have a lemma each. Assumptions: the ones named
in `Kernel` and `Invoker` (`NoPid` is no pid, who waits is an invoker, bounds are
naturals) and in `WaitLoop` (the user does not send SIGKILL, a crash
is by a signal that ends, an exit value is not the name of a signal), in `Sockets`
and in `SingleInstance` (processes, invokers and names are different things, a
backlog holds somebody), which TLC evaluates on every run.

Liveness (`EndReported`, `RequestServed`, `ConversationEnds`, `WaitEnds`, `NobodyStranded`,
`RequestAnswered`) is model-checked only: fairness and
ENABLED are outside this prover's reach. So are the five properties that the code
violates. Every other property of a run is the statement of a theorem. What is
taken from TLC even so is that the invariants can be violated at all: a mutant of
the code for each.

What the proofs changed in the models:

- `RecvAck` and `Received` had a `CASE` whose conditions overlap; TLC took the first
  true one, the meaning of `CASE` is any. They are `IF`s now.
- `TypeOK` of `Protocol` says that at `number` the tag is one of those that numbers
  follow; without it the invariant is not inductive.
- `NoStaleBooster` is stronger at `pc = "exec"`, see above.
- What `receiveEnv` keeps is described by `Assignments`, a relation between the strings
  sent and kept, and not by `SelectSeq`, which the library defines by recursion
  and of which nothing can be proved here.
- The stronger `SingleInv` above.

## 5. What is not modelled

- What the booster does with ids, priority, descriptors and environment once it
  has them; the contents of strings.
- The invoker's option parsing and test mode; reuse of the invoker's own pid.
- A state file shared by two daemons of one user that re-execute at a time, and
  one that is stale or malformed: `Daemon` has one file and reads back what it
  wrote.
- A daemon with no descriptor left, apart from the crash it leads to
  (`DaemonCrashes`).
- Argument parsing, daemonizing, logging, the executable search: no state others
  depend on. Build scripts and documents do not run.
- Time: the respawn delay, the invoker's sleeps. All interleavings they allow or
  forbid are allowed.

## 6. Plan

Done since the first plan: `InvokerInv`, `Protocol`, `LaunchesInStep` and
`OneInstanceSpec` are proved, and so is the safety half of each liveness property but
`WaitEnds`: that nothing still owed is ever off the way to being paid
(`NoWaiterForgotten`, `BoosterToCome`, `NeverBothBlocked`, `NobodyWaitsInVain`,
`NobodyLeftAsking`). What is left, in this order:

1. **`WaitLoop` against `Launcher`**: its end of file and its signal as an
   abstract specification of the invoker that both implement.
2. **An abstract handshake** that `Protocol` implements, as `Launches` is for
   `Launcher`: a request is accepted as sent, refused, or lost.
3. **Two daemons over one state file**, if a run can be spared: the file as lines
   written at two offsets, against the comment at `daemon.cpp:754`.
