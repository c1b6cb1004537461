------------------------------- MODULE Kernel -------------------------------
(***************************************************************************)
(* What the launcher daemon and its boosters take from the operating       *)
(* system: the process table, fork, exit and the death of a parent,        *)
(* signals and their dispositions, the signal pipe and the datagram        *)
(* socket on which boosters report to the daemon.                          *)
(*                                                                         *)
(* A process is its pid.  state[p] says how far p has come on the only     *)
(* path a booster takes through forkBooster(), initialize() and run():     *)
(*                                                                         *)
(*   free -> forked -> restored -> idle <-> serving -> sent -> app         *)
(*                                                                         *)
(*   forked    forked, still with the daemon's signal handlers             *)
(*   restored  handlers restored, PR_SET_PDEATHSIG not yet set             *)
(*   idle      preloading or waiting in accept()                           *)
(*   serving   has accepted an invoker, has not told the daemon            *)
(*   sent      has told the daemon, still dies with the daemon             *)
(*   app       runs the application's main()                               *)
(*   zombie    dead, not yet waited for                                    *)
(*                                                                         *)
(* A signal sent to a booster takes effect in the step that sends it: the  *)
(* target runs no further instruction of its own before the signal is      *)
(* handled, so a later effect would be indistinguishable.  A signal sent   *)
(* to the daemon is kept in sigPending until its handler runs, because     *)
(* pending signals of one kind coalesce.                                   *)
(***************************************************************************)
EXTENDS Naturals, Sequences, FiniteSets

CONSTANTS
  Pids,           \* the process ids boosters and applications can have
  Invokers,       \* the invoker processes, each makes one request
  WaitTerm,       \* the invokers started with --wait-term
  ExitStatuses,   \* the values an application may exit with
  AdminSignals,   \* the signals an administrator sends to the daemon
  NoPid,          \* the value 0 of m_boosterPid
  NoInvoker,      \* no entry in a map, no invoker in a message
  MaxSignals,     \* bound: how many signals the administrator sends
  MaxFaults,      \* bound: how many spontaneous failures happen
  MaxPipe         \* bound: how many bytes the signal pipe holds

DeathSignals == {"SIGTERM", "SIGHUP", "SIGKILL", "SIGABRT"}

Statuses == ExitStatuses \cup DeathSignals

ASSUME PidAssumption == NoPid \notin Pids
ASSUME InvokerAssumption == WaitTerm \subseteq Invokers /\ NoInvoker \notin Invokers
ASSUME SignalAssumption ==
  AdminSignals \subseteq {"SIGTERM", "SIGUSR1", "SIGUSR2", "SIGHUP"}
ASSUME StatusAssumption ==
  ExitStatuses \cap (DeathSignals \cup {"none", "lost", "rejected"}) = {}
ASSUME BoundAssumption ==
  MaxSignals \in Nat /\ MaxFaults \in Nat /\ MaxPipe \in Nat \ {0}

VARIABLES
  pc,             \* where the daemon's code is
  exitCause,      \* why the daemon has exited, "none" while it runs
  state,          \* state[p]: see above
  status,         \* status[p]: what waitpid() reports of the zombie p
  serves,         \* serves[p]: the invoker p has accepted
  mode,           \* mode[p]: the booster was forked in boot mode
  bornIn,         \* bornIn[p]: the image of the daemon that forked p
  image,          \* how many times the daemon has called execve()
  m_reExec,       \* the daemon was started with --re-exec
  sigPending,     \* signals generated for the daemon and not yet handled
  sigPipe,        \* m_sigPipeFd: signals its handlers have written, in order
  launcherSocket, \* m_boosterLauncherSocket: datagrams, in order
  openFds,        \* the invoker connections the daemon holds a descriptor of
  faults,         \* how many spontaneous failures have happened
  fate            \* fate[i]: how the process that served invoker i has ended

processVars == <<state, status, serves, mode, bornIn, fate>>
signalVars  == <<sigPending, sigPipe>>
daemonLife  == <<pc, exitCause, image, m_reExec>>
kernelVars  == <<processVars, signalVars, daemonLife, launcherSocket, openFds, faults>>

States == {"free", "forked", "restored", "idle", "serving", "sent", "app", "zombie"}

\* A booster that has not been given away: the daemon counts on it to take
\* the next request.
Uncommitted == {"forked", "restored", "idle", "serving"}

\* PR_SET_PDEATHSIG is in force.
DiesWithDaemon == {"idle", "serving", "sent"}

\* An image of the daemon whose memory is not yet valid: from the entry of
\* main() to the end of restoreState(), or of pipe() on a first start.
Starting == {"main", "handlers", "instance"}

PCs == Starting \cup {"init", "select", "socket", "signal", "reap", "exec", "exited"}

Message == [from : Pids, invoker : Invokers \cup {NoInvoker}]

Signals == {"SIGCHLD", "SIGTERM", "SIGUSR1", "SIGUSR2", "SIGPIPE", "SIGHUP"}

KernelTypeOK ==
  /\ pc \in PCs
  /\ exitCause \in {"none", "SIGTERM", "default_action", "null_instance",
                    "fork", "recvmsg", "execve", "crash"}
  /\ state \in [Pids -> States]
  /\ status \in [Pids -> Statuses \cup {"none"}]
  /\ serves \in [Pids -> Invokers \cup {NoInvoker}]
  /\ mode \in [Pids -> BOOLEAN]
  /\ bornIn \in [Pids -> Nat]
  /\ image \in Nat
  /\ m_reExec \in BOOLEAN
  /\ sigPending \subseteq Signals
  /\ sigPipe \in Seq(Signals)
  /\ launcherSocket \in Seq(Message)
  /\ openFds \subseteq Invokers
  /\ faults \in Nat
  /\ fate \in [Invokers -> Statuses \cup {"none", "rejected"}]

KernelInit ==
  /\ pc = "main" /\ exitCause = "none" /\ image = 0 /\ m_reExec = FALSE
  /\ state = [p \in Pids |-> "free"]
  /\ status = [p \in Pids |-> "none"]
  /\ serves = [p \in Pids |-> NoInvoker]
  /\ mode = [p \in Pids |-> FALSE]
  /\ bornIn = [p \in Pids |-> 0]
  /\ sigPending = {} /\ sigPipe = <<>>
  /\ launcherSocket = <<>> /\ openFds = {}
  /\ faults = 0
  /\ fate = [i \in Invokers |-> "none"]

-----------------------------------------------------------------------------
Running == pc # "exited"

\* One of the failures a system call or a process may meet at any time.
Fault == faults < MaxFaults /\ faults' = faults + 1

\* Ghost: the fate of the invokers whose process is among dying, when each
\* of these ends with status st.
FateAfter(dying, st) ==
  [i \in Invokers |-> IF \E p \in dying : serves[p] = i THEN st ELSE fate[i]]

\* Process p ends with status st: it becomes a zombie and its parent gets
\* SIGCHLD.  Once the daemon is gone init is the parent, and waits at once.
Die(p, st) ==
  /\ state' = [state EXCEPT ![p] = IF Running THEN "zombie" ELSE "free"]
  /\ status' = [status EXCEPT ![p] = st]
  /\ fate' = FateAfter({p}, st)
  /\ sigPending' = IF Running THEN sigPending \cup {"SIGCHLD"} ELSE sigPending

\* The daemon ends while the process table is procs.  Its zombies and those
\* it takes along by PR_SET_PDEATHSIG are waited for by init.
DaemonExits(cause, procs) ==
  /\ pc' = "exited"
  /\ exitCause' = cause
  /\ state' = [p \in Pids |->
                 IF procs[p] \in DiesWithDaemon \cup {"zombie"} THEN "free" ELSE procs[p]]
  /\ fate' = FateAfter({p \in Pids : procs[p] \in DiesWithDaemon}, "SIGHUP")

\* kill(daemon, s).
SignalDaemon(s) == sigPending' = sigPending \cup {s}

-----------------------------------------------------------------------------
(* What becomes of a pending signal depends on how far the image is.       *)

\* A handler has been installed but Daemon::m_instance is still NULL: the
\* handler reads m_sigPipeFd through a null pointer.
HandlerFaults == pc = "handlers"

\* signal(SIGHUP, SIG_IGN) before execve(), preserved by it until the new
\* image installs its handlers.  SIGCHLD is ignored by default.
Ignored(s) ==
  \/ s = "SIGHUP" /\ pc = "exec"
  \/ s = "SIGHUP" /\ pc = "main" /\ m_reExec
  \/ s = "SIGCHLD" /\ pc = "main"

\* m_instance is set and m_sigPipeFd is not: the byte goes to whatever the
\* uninitialized member names, and is lost to the pipe.
HandlerLoses == pc = "instance"

DeliverSignal(s) ==
  /\ Running /\ s \in sigPending
  /\ sigPending' = sigPending \ {s}
  /\ \/ /\ Ignored(s) \/ HandlerLoses
        /\ UNCHANGED <<pc, exitCause, state, fate, sigPipe>>
     \/ /\ pc = "main" /\ ~Ignored(s)
        /\ DaemonExits("default_action", state)
        /\ UNCHANGED sigPipe
     \/ /\ HandlerFaults
        /\ DaemonExits("null_instance", state)
        /\ UNCHANGED sigPipe
     \/ /\ pc \notin Starting /\ ~Ignored(s)
        /\ Len(sigPipe) < MaxPipe
        /\ sigPipe' = Append(sigPipe, s)
        /\ UNCHANGED <<pc, exitCause, state, fate>>
  /\ UNCHANGED <<status, serves, mode, bornIn, image, m_reExec,
                 launcherSocket, openFds, faults>>

=============================================================================
