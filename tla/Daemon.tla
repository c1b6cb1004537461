------------------------------- MODULE Daemon -------------------------------
(***************************************************************************)
(* The launcher daemon, daemon.cpp: one process, one thread, that forks    *)
(* boosters, learns from each which invoker it serves, waits for their     *)
(* ends and reports them to the invokers, switches between normal and boot *)
(* mode and replaces itself by execve() while its children live on.        *)
(*                                                                         *)
(* An action is what the daemon does between two points at which another   *)
(* process can make a difference to it: a system call that reads the       *)
(* launcher socket, the signal pipe or the process table.  The reaping     *)
(* loop is one action per waitpid(); m_children is the set of its          *)
(* elements, because the order in which the loop visits them is not        *)
(* relied on: the model visits them in any order.                          *)
(***************************************************************************)
EXTENDS Kernel

VARIABLES
  m_bootMode,               \* the mode new boosters are forked in
  m_boosterPid,             \* the booster expected to take the next request
  m_children,               \* the children to wait for
  m_boosterPidToInvokerPid, \* per child, the invoker to kill with it
  m_boosterPidToInvokerFd,  \* per child, the connection to report on
  unvisited,                \* the children reapZombies() has still to visit
  sigReady,                 \* the result of select(): the signal pipe is readable
  stateFile,                \* the content of m_stateFile
  told,                     \* told[i]: how invoker i was told its process has ended
  misread                   \* ghost: a booster was reaped before its message was read

memory == <<m_bootMode, m_boosterPid, m_children, m_boosterPidToInvokerPid,
            m_boosterPidToInvokerFd>>
daemonVars == <<memory, unvisited, sigReady, stateFile, told, misread>>

NoMap == [p \in Pids |-> NoInvoker]

InvokerMap == [Pids -> Invokers \cup {NoInvoker}]

\* What restoreState() finds in the members it does not read, and what the
\* constructor leaves in those it reads.
NoMemory == [bootMode |-> FALSE, boosterPid |-> NoPid, children |-> {},
             invokerPid |-> NoMap, invokerFd |-> NoMap]

SavedMemory == [bootMode : BOOLEAN, boosterPid : Pids \cup {NoPid}, children : SUBSET Pids,
                invokerPid : InvokerMap, invokerFd : InvokerMap]

DaemonTypeOK ==
  /\ m_bootMode \in BOOLEAN
  /\ m_boosterPid \in Pids \cup {NoPid}
  /\ m_children \subseteq Pids
  /\ m_boosterPidToInvokerPid \in InvokerMap
  /\ m_boosterPidToInvokerFd \in InvokerMap
  /\ unvisited \subseteq Pids
  /\ sigReady \in BOOLEAN
  /\ stateFile \in SavedMemory
  /\ told \in [Invokers -> Statuses \cup {"none", "rejected", "lost"}]
  /\ misread \in BOOLEAN

\* The daemon is started with or without --boot-mode.
DaemonInit ==
  /\ m_bootMode \in BOOLEAN
  /\ m_boosterPid = NoPid
  /\ m_children = {}
  /\ m_boosterPidToInvokerPid = NoMap
  /\ m_boosterPidToInvokerFd = NoMap
  /\ unvisited = {} /\ sigReady = FALSE
  /\ stateFile = NoMemory
  /\ told = [i \in Invokers |-> "none"]
  /\ misread = FALSE

-----------------------------------------------------------------------------
(* fork() of a booster, the children before it being children and the      *)
(* process table procs.  The daemon goes on at next; without a free pid,   *)
(* or by a fault, fork() fails and the exception ends the daemon.          *)
ForkBooster(procs, children, next) ==
  \/ \E p \in Pids :
       /\ procs[p] = "free"
       /\ state' = [procs EXCEPT ![p] = "forked"]
       /\ serves' = [serves EXCEPT ![p] = NoInvoker]
       /\ mode' = [mode EXCEPT ![p] = m_bootMode]
       /\ bornIn' = [bornIn EXCEPT ![p] = image]
       /\ m_children' = children \cup {p}
       /\ m_boosterPid' = p
       /\ pc' = next
       /\ UNCHANGED <<exitCause, fate, faults>>
  \/ /\ \/ UNCHANGED faults /\ \A p \in Pids : procs[p] # "free"
        \/ Fault
     /\ DaemonExits("fork", procs)
     /\ m_boosterPid' = NoPid
     /\ m_children' = children
     /\ UNCHANGED <<serves, mode, bornIn>>

\* killBoosters(): SIGTERM to the current booster, whose pid is kept.  A
\* booster that has not yet restored the handlers runs the daemon's, which
\* writes into the pipe it shares with the daemon; an application may have
\* a handler of its own.  queue is the signal pipe before the call.
KillBoosters(queue) ==
  LET p == m_boosterPid IN
  \/ /\ p = NoPid \/ state[p] = "zombie"
     /\ sigPipe' = queue
     /\ UNCHANGED <<state, status, fate, sigPending>>
  \/ /\ p # NoPid /\ state[p] = "forked"
     /\ sigPipe' = Append(queue, "SIGTERM")
     /\ UNCHANGED <<state, status, fate, sigPending>>
  \/ /\ p # NoPid /\ state[p] = "app"
     /\ sigPipe' = queue
     /\ UNCHANGED <<state, status, fate, sigPending>>
  \/ /\ p # NoPid /\ state[p] \in {"restored", "idle", "serving", "sent", "app"}
     /\ sigPipe' = queue
     /\ Die(p, "SIGTERM")

-----------------------------------------------------------------------------
(* The constructor and the start of run().                                 *)

InstallHandlers ==
  /\ pc = "main"
  /\ pc' = "handlers"
  /\ UNCHANGED <<exitCause, image, m_reExec, processVars, signalVars,
                 launcherSocket, openFds, faults, daemonVars>>

SetInstance ==
  /\ pc = "handlers"
  /\ pc' = "instance"
  /\ UNCHANGED <<exitCause, image, m_reExec, processVars, signalVars,
                 launcherSocket, openFds, faults, daemonVars>>

\* A slip: the "child" lines of the state file are not restored.
RestoreStateForgetsChildren ==
  /\ pc = "instance" /\ m_reExec
  /\ pc' = "init"
  /\ m_bootMode' = stateFile.bootMode
  /\ m_boosterPid' = stateFile.boosterPid
  /\ m_boosterPidToInvokerPid' = stateFile.invokerPid
  /\ m_boosterPidToInvokerFd' = stateFile.invokerFd
  /\ stateFile' = NoMemory
  /\ UNCHANGED <<exitCause, image, m_reExec, processVars, signalVars, launcherSocket,
                 openFds, faults, m_children, unvisited, sigReady, told, misread>>

\* restoreState() fills the members from the state file and removes it.
RestoreState ==
  /\ pc = "instance" /\ m_reExec
  /\ pc' = "init"
  /\ m_bootMode' = stateFile.bootMode
  /\ m_boosterPid' = stateFile.boosterPid
  /\ m_children' = stateFile.children
  /\ m_boosterPidToInvokerPid' = stateFile.invokerPid
  /\ m_boosterPidToInvokerFd' = stateFile.invokerFd
  /\ stateFile' = NoMemory
  /\ UNCHANGED <<exitCause, image, m_reExec, processVars, signalVars,
                 launcherSocket, openFds, faults, unvisited, sigReady, told, misread>>

CreateChannels ==
  /\ pc = "instance" /\ ~m_reExec
  /\ pc' = "init"
  /\ UNCHANGED <<exitCause, image, m_reExec, processVars, signalVars,
                 launcherSocket, openFds, faults, daemonVars>>

\* run() up to its loop, on a first start: initSocket() and forkBooster().
RunFirst ==
  /\ pc = "init" /\ ~m_reExec
  /\ ForkBooster(state, m_children, "select")
  /\ UNCHANGED <<image, m_reExec, status, signalVars, launcherSocket, openFds,
                 m_bootMode, m_boosterPidToInvokerPid, m_boosterPidToInvokerFd,
                 unvisited, sigReady, stateFile, told, misread>>

\* A slip: reapZombies() is not called after a re-exec.
RunAgainWithoutReaping ==
  /\ pc = "init" /\ m_reExec
  /\ pc' = "select"
  /\ UNCHANGED <<exitCause, image, m_reExec, processVars, signalVars,
                 launcherSocket, openFds, faults, daemonVars>>

\* run() up to its loop, after a re-exec: reapZombies() is entered.
RunAgain ==
  /\ pc = "init" /\ m_reExec
  /\ pc' = "reap"
  /\ unvisited' = m_children
  /\ UNCHANGED <<exitCause, image, m_reExec, processVars, signalVars,
                 launcherSocket, openFds, faults, memory, sigReady, stateFile,
                 told, misread>>

-----------------------------------------------------------------------------
(* The main loop.                                                          *)

\* select() returns: the socket is looked at first, and the verdict on the
\* signal pipe is kept until then.
Select ==
  /\ pc = "select"
  /\ launcherSocket # <<>> \/ sigPipe # <<>>
  /\ pc' = IF launcherSocket # <<>> THEN "socket" ELSE "signal"
  /\ sigReady' = (sigPipe # <<>>)
  /\ UNCHANGED <<exitCause, image, m_reExec, processVars, signalVars,
                 launcherSocket, openFds, faults, memory, unvisited,
                 stateFile, told, misread>>

\* A slip: pid 0, which says that nobody waits, is stored like any other.
StoreAnyInvoker(msg) ==
  /\ m_boosterPidToInvokerPid' = [m_boosterPidToInvokerPid EXCEPT ![m_boosterPid] = msg.invoker]
  /\ m_boosterPidToInvokerFd' = [m_boosterPidToInvokerFd EXCEPT ![m_boosterPid] = msg.invoker]
  /\ openFds' = openFds \cup {msg.invoker}

\* readFromBoosterSocket(): the message is attributed to the booster that
\* m_boosterPid names now.  A message without an invoker has no descriptor.
StoreInvoker(msg) ==
  IF msg.invoker # NoInvoker /\ m_boosterPid # NoPid
  THEN /\ m_boosterPidToInvokerPid' =
            [m_boosterPidToInvokerPid EXCEPT ![m_boosterPid] = msg.invoker]
       /\ m_boosterPidToInvokerFd' =
            [m_boosterPidToInvokerFd EXCEPT ![m_boosterPid] = msg.invoker]
       /\ openFds' = openFds \cup {msg.invoker}
  ELSE UNCHANGED <<m_boosterPidToInvokerPid, m_boosterPidToInvokerFd, openFds>>

\* A slip: the call of forkBooster() is among what is done for an invoker.
ReadForksForWaiting ==
  /\ pc = "socket"
  /\ launcherSocket' = Tail(launcherSocket)
  /\ StoreInvoker(Head(launcherSocket))
  /\ LET next == IF sigReady THEN "signal" ELSE "select"
     IN  IF Head(launcherSocket).invoker # NoInvoker
         THEN ForkBooster(state, m_children, next)
         ELSE pc' = next /\ UNCHANGED <<exitCause, state, serves, mode, bornIn, fate, faults,
                                        m_children, m_boosterPid>>
  /\ UNCHANGED <<image, m_reExec, status, signalVars, m_bootMode, unvisited,
                 sigReady, stateFile, told, misread>>

ReadFromBoosterSocket ==
  /\ pc = "socket"
  /\ launcherSocket' = Tail(launcherSocket)
  /\ StoreInvoker(Head(launcherSocket))
  /\ ForkBooster(state, m_children, IF sigReady THEN "signal" ELSE "select")
  /\ UNCHANGED <<image, m_reExec, status, signalVars, m_bootMode, unvisited,
                 sigReady, stateFile, told, misread>>

\* recvmsg() fails.
ReadFails ==
  /\ pc = "socket"
  /\ Fault
  /\ DaemonExits("recvmsg", state)
  /\ UNCHANGED <<image, m_reExec, status, serves, mode, bornIn, signalVars,
                 launcherSocket, openFds, daemonVars>>

\* One byte is read from the signal pipe, and it is s.
ReadSignal(s) ==
  /\ pc = "signal"
  /\ Head(sigPipe) = s

\* A slip: only the current booster is waited for.
ReadSigChldForBooster ==
  /\ ReadSignal("SIGCHLD")
  /\ sigPipe' = Tail(sigPipe)
  /\ pc' = "reap"
  /\ unvisited' = m_children \cap {m_boosterPid}
  /\ UNCHANGED <<exitCause, image, m_reExec, processVars, sigPending,
                 launcherSocket, openFds, faults, memory, sigReady, stateFile,
                 told, misread>>

\* SIGCHLD: reapZombies() is entered.
ReadSigChld ==
  /\ ReadSignal("SIGCHLD")
  /\ sigPipe' = Tail(sigPipe)
  /\ pc' = "reap"
  /\ unvisited' = m_children
  /\ UNCHANGED <<exitCause, image, m_reExec, processVars, sigPending,
                 launcherSocket, openFds, faults, memory, sigReady, stateFile,
                 told, misread>>

ReadSigTerm ==
  /\ ReadSignal("SIGTERM")
  /\ sigPipe' = Tail(sigPipe)
  /\ DaemonExits("SIGTERM", state)
  /\ UNCHANGED <<image, m_reExec, status, serves, mode, bornIn, sigPending,
                 launcherSocket, openFds, faults, daemonVars>>

\* A slip: the mode is switched, the booster of the old mode is kept.
ReadModeSignalSparesBooster(s, boot) ==
  /\ ReadSignal(s)
  /\ pc' = "select"
  /\ m_bootMode' = boot
  /\ sigPipe' = Tail(sigPipe)
  /\ UNCHANGED <<exitCause, image, m_reExec, processVars, sigPending,
                 launcherSocket, openFds, faults, m_boosterPid, m_children,
                 m_boosterPidToInvokerPid, m_boosterPidToInvokerFd,
                 unvisited, sigReady, stateFile, told, misread>>

\* enterNormalMode() on SIGUSR1, enterBootMode() on SIGUSR2: nothing happens
\* when the daemon is already in that mode.
ReadModeSignal(s, boot) ==
  /\ ReadSignal(s)
  /\ pc' = "select"
  /\ m_bootMode' = boot
  /\ IF m_bootMode = boot
     THEN sigPipe' = Tail(sigPipe) /\ UNCHANGED <<state, status, fate, sigPending>>
     ELSE KillBoosters(Tail(sigPipe))
  /\ UNCHANGED <<exitCause, image, m_reExec, serves, mode, bornIn,
                 launcherSocket, openFds, faults, m_boosterPid, m_children,
                 m_boosterPidToInvokerPid, m_boosterPidToInvokerFd,
                 unvisited, sigReady, stateFile, told, misread>>

EnterNormalMode == ReadModeSignal("SIGUSR1", FALSE)

EnterBootMode == ReadModeSignal("SIGUSR2", TRUE)

ReadSigPipe ==
  /\ ReadSignal("SIGPIPE")
  /\ sigPipe' = Tail(sigPipe)
  /\ pc' = "select"
  /\ UNCHANGED <<exitCause, image, m_reExec, processVars, sigPending,
                 launcherSocket, openFds, faults, daemonVars>>

-----------------------------------------------------------------------------
(* reExec().                                                               *)

\* A slip: the pid of the booster that is killed is not saved.
ReadSigHupForgetsBooster ==
  /\ ReadSignal("SIGHUP")
  /\ stateFile' = [bootMode |-> m_bootMode, boosterPid |-> NoPid,
                   children |-> m_children,
                   invokerPid |-> m_boosterPidToInvokerPid,
                   invokerFd |-> m_boosterPidToInvokerFd]
  /\ KillBoosters(Tail(sigPipe))
  /\ pc' = "exec"
  /\ UNCHANGED <<exitCause, image, m_reExec, serves, mode, bornIn,
                 launcherSocket, openFds, faults, memory, unvisited, sigReady,
                 told, misread>>

\* The state is saved, the current booster killed and SIGHUP ignored.
ReadSigHup ==
  /\ ReadSignal("SIGHUP")
  /\ stateFile' = [bootMode |-> m_bootMode, boosterPid |-> m_boosterPid,
                   children |-> m_children,
                   invokerPid |-> m_boosterPidToInvokerPid,
                   invokerFd |-> m_boosterPidToInvokerFd]
  /\ KillBoosters(Tail(sigPipe))
  /\ pc' = "exec"
  /\ UNCHANGED <<exitCause, image, m_reExec, serves, mode, bornIn,
                 launcherSocket, openFds, faults, memory, unvisited, sigReady,
                 told, misread>>

\* The state cannot be saved: nothing has been killed.
SaveFails ==
  /\ ReadSignal("SIGHUP")
  /\ Fault
  /\ DaemonExits("execve", state)
  /\ UNCHANGED <<image, m_reExec, status, serves, mode, bornIn, signalVars,
                 launcherSocket, openFds, daemonVars>>

\* execve(): a new image with blank memory.  Its children, the pipe, the
\* sockets and the invoker connections are those of the old one.
Exec ==
  /\ pc = "exec"
  /\ pc' = "main"
  /\ image' = image + 1
  /\ m_reExec' = TRUE
  /\ m_bootMode' = NoMemory.bootMode
  /\ m_boosterPid' = NoMemory.boosterPid
  /\ m_children' = NoMemory.children
  /\ m_boosterPidToInvokerPid' = NoMemory.invokerPid
  /\ m_boosterPidToInvokerFd' = NoMemory.invokerFd
  /\ sigReady' = FALSE
  /\ UNCHANGED <<exitCause, processVars, signalVars, launcherSocket, openFds,
                 faults, unvisited, stateFile, told, misread>>

ExecFails ==
  /\ pc = "exec"
  /\ Fault
  /\ DaemonExits("execve", state)
  /\ UNCHANGED <<image, m_reExec, status, serves, mode, bornIn, signalVars,
                 launcherSocket, openFds, daemonVars>>

-----------------------------------------------------------------------------
(* reapZombies(), one waitpid() at a time.                                 *)

\* waitpid() returns 0: the child lives.
VisitLiving(p) ==
  /\ pc = "reap" /\ p \in unvisited
  /\ state[p] \notin {"zombie", "free"}
  /\ unvisited' = unvisited \ {p}
  /\ UNCHANGED <<daemonLife, processVars, signalVars, launcherSocket, openFds,
                 faults, memory, sigReady, stateFile, told, misread>>

\* A slip: the connection is closed but its entry is kept.
ReportKeepsEntry(p, waiting) ==
  LET fd == m_boosterPidToInvokerFd[p] IN
  IF fd = NoInvoker
  THEN UNCHANGED <<m_boosterPidToInvokerPid, m_boosterPidToInvokerFd,
                   openFds, told, sigPending>>
  ELSE /\ m_boosterPidToInvokerPid' = [m_boosterPidToInvokerPid EXCEPT ![p] = NoInvoker]
       /\ openFds' = openFds \ {fd}
       /\ told' = IF fd \in waiting THEN [told EXCEPT ![fd] = status[p]] ELSE told
       /\ UNCHANGED <<m_boosterPidToInvokerFd, sigPending>>

\* A slip: WIFEXITED is not asked, a death by a signal is reported as an exit.
ReportAlwaysExit(p, waiting) ==
  LET fd == m_boosterPidToInvokerFd[p] IN
  IF fd = NoInvoker
  THEN UNCHANGED <<m_boosterPidToInvokerPid, m_boosterPidToInvokerFd,
                   openFds, told, sigPending>>
  ELSE /\ m_boosterPidToInvokerPid' = [m_boosterPidToInvokerPid EXCEPT ![p] = NoInvoker]
       /\ m_boosterPidToInvokerFd' = [m_boosterPidToInvokerFd EXCEPT ![p] = NoInvoker]
       /\ openFds' = openFds \ {fd}
       /\ told' = IF fd \in waiting
                  THEN [told EXCEPT ![fd] = CHOOSE st \in ExitStatuses : TRUE] ELSE told
       /\ UNCHANGED sigPending

\* A slip: there is no else to WIFEXITED.
ReportOnlyExit(p, waiting) ==
  LET fd == m_boosterPidToInvokerFd[p] IN
  /\ m_boosterPidToInvokerPid' = [m_boosterPidToInvokerPid EXCEPT ![p] = NoInvoker]
  /\ IF status[p] \in ExitStatuses
       THEN /\ m_boosterPidToInvokerFd' = [m_boosterPidToInvokerFd EXCEPT ![p] = NoInvoker]
            /\ openFds' = openFds \ {fd}
            /\ told' = IF fd \in waiting THEN [told EXCEPT ![fd] = status[p]] ELSE told
       ELSE UNCHANGED <<m_boosterPidToInvokerFd, openFds, told>>
  /\ UNCHANGED sigPending

\* What the daemon does for the invoker of dead child p: it writes the exit
\* value to the connection it has for p and closes it, or closes it and kills
\* the invoker with the signal that killed p.  That is one step here, as an
\* invoker that meets the end of file first pauses for 2 s; WaitLoop has the steps.
\* Nobody is told who no longer waits; writing to his connection raises SIGPIPE.
Report(p, waiting) ==
  LET fd   == m_boosterPidToInvokerFd[p]
      pid  == m_boosterPidToInvokerPid[p]
      whom == IF status[p] \in ExitStatuses THEN fd ELSE pid
  IN  IF pid = NoInvoker
      THEN UNCHANGED <<m_boosterPidToInvokerPid, m_boosterPidToInvokerFd,
                       openFds, told, sigPending>>
      ELSE /\ m_boosterPidToInvokerPid' = [m_boosterPidToInvokerPid EXCEPT ![p] = NoInvoker]
           /\ m_boosterPidToInvokerFd' = [m_boosterPidToInvokerFd EXCEPT ![p] = NoInvoker]
           /\ openFds' = openFds \ {fd}
           /\ told' = IF whom \in waiting THEN [told EXCEPT ![whom] = status[p]] ELSE told
           /\ sigPending' = IF status[p] \in ExitStatuses /\ fd \notin waiting
                            THEN sigPending \cup {"SIGPIPE"} ELSE sigPending

\* A slip: a booster is forked for every dead child.
ReapChildForksAlways(p, waiting) ==
  /\ pc = "reap" /\ p \in unvisited
  /\ state[p] = "zombie"
  /\ Report(p, waiting)
  /\ ForkBooster([state EXCEPT ![p] = "free"], m_children \ {p}, "reap")
  /\ unvisited' = (unvisited \ {p}) \cup (m_children' \ (m_children \ {p}))
  /\ misread' = (misread \/ \E k \in DOMAIN launcherSocket : launcherSocket[k].from = p)
  /\ status' = [status EXCEPT ![p] = "none"]
  /\ UNCHANGED <<image, m_reExec, sigPipe, launcherSocket, m_bootMode, sigReady,
                 stateFile>>

\* A slip: the current booster is not replaced when it dies.
ReapChildForksNever(p, waiting) ==
  /\ pc = "reap" /\ p \in unvisited
  /\ state[p] = "zombie"
  /\ Report(p, waiting)
  /\ state' = [state EXCEPT ![p] = "free"]
  /\ m_children' = m_children \ {p}
  /\ unvisited' = unvisited \ {p}
  /\ misread' = (misread \/ \E k \in DOMAIN launcherSocket : launcherSocket[k].from = p)
  /\ status' = [status EXCEPT ![p] = "none"]
  /\ UNCHANGED <<pc, exitCause, fate, faults, serves, mode, bornIn, m_boosterPid,
                 image, m_reExec, sigPipe, launcherSocket, m_bootMode, sigReady,
                 stateFile>>

\* waitpid() returns p: its invoker is told, and a new booster is forked if
\* p was the current one.  The loop reaches a child pushed while it runs.
ReapChild(p, waiting) ==
  /\ pc = "reap" /\ p \in unvisited
  /\ state[p] = "zombie"
  /\ Report(p, waiting)
  /\ LET reaped == [state EXCEPT ![p] = "free"]
         others == m_children \ {p}
     IN  IF p = m_boosterPid
         THEN /\ ForkBooster(reaped, others, "reap")
              /\ unvisited' = (unvisited \ {p}) \cup (m_children' \ others)
         ELSE /\ state' = reaped
              /\ m_children' = others
              /\ unvisited' = unvisited \ {p}
              /\ UNCHANGED <<pc, exitCause, fate, faults, serves, mode, bornIn,
                             m_boosterPid>>
  /\ misread' = (misread \/ \E k \in DOMAIN launcherSocket : launcherSocket[k].from = p)
  /\ status' = [status EXCEPT ![p] = "none"]
  /\ UNCHANGED <<image, m_reExec, sigPipe, launcherSocket, m_bootMode, sigReady,
                 stateFile>>

EndReap ==
  /\ pc = "reap" /\ unvisited = {}
  /\ pc' = "select"
  /\ UNCHANGED <<exitCause, image, m_reExec, processVars, signalVars,
                 launcherSocket, openFds, faults, daemonVars>>

-----------------------------------------------------------------------------
(* An exception, the OOM killer or an assertion ends the daemon.           *)
DaemonCrashes ==
  /\ Running
  /\ Fault
  /\ DaemonExits("crash", state)
  /\ UNCHANGED <<image, m_reExec, status, serves, mode, bornIn, signalVars,
                 launcherSocket, openFds, daemonVars>>

DaemonStep(waiting) ==
  \/ InstallHandlers \/ SetInstance \/ RestoreState \/ CreateChannels
  \/ RunFirst \/ RunAgain
  \/ Select \/ ReadFromBoosterSocket
  \/ ReadSigChld \/ ReadSigTerm \/ EnterNormalMode \/ EnterBootMode
  \/ ReadSigPipe \/ ReadSigHup \/ Exec
  \/ \E p \in Pids : VisitLiving(p) \/ ReapChild(p, waiting)
  \/ EndReap

DaemonFails == ReadFails \/ SaveFails \/ ExecFails \/ DaemonCrashes

HandleSignal == \E s \in Signals : DeliverSignal(s) /\ UNCHANGED daemonVars

=============================================================================
