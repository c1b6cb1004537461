------------------------------ MODULE Launcher ------------------------------
(***************************************************************************)
(* The application launcher: the daemon, its boosters, the invokers and an *)
(* administrator who sends signals to the daemon.                          *)
(***************************************************************************)
EXTENDS Daemon, Booster, Invoker

VARIABLES
  sent,          \* how many signals the administrator has sent
  unsent         \* history: the invokers whose booster has had a sendmsg() fail

vars == <<kernelVars, daemonVars, inv, sent, unsent>>

Init == KernelInit /\ DaemonInit /\ InvokerInit /\ sent = 0 /\ unsent = {}

\* The invokers that would notice being told.
StillWaiting == {i \in Invokers : inv[i] = "waiting" /\ told[i] = "none"}

-----------------------------------------------------------------------------
DaemonRuns == DaemonStep(StillWaiting) /\ UNCHANGED <<inv, sent, unsent>>

Handler == HandleSignal /\ UNCHANGED <<inv, sent, unsent>>

\* The steps a booster takes by itself until it runs an application.
Prepare(p) ==
  /\ RestoreHandlers(p) \/ SetDeathSignal(p) \/ Launch(p)
  /\ UNCHANGED <<daemonVars, inv, sent, unsent>>

Accept(p, i) ==
  /\ inv[i] = "queued"
  /\ AcceptInvoker(p, i)
  /\ inv' = [inv EXCEPT ![i] = IF i \in WaitTerm THEN "waiting" ELSE "done"]
  /\ UNCHANGED <<daemonVars, sent, unsent>>

Commit(p) ==
  /\ \/ SendDataToParent(p) /\ UNCHANGED unsent
     \/ SendFails(p) /\ unsent' = unsent \cup {serves[p]}
  /\ UNCHANGED <<daemonVars, inv, sent>>

\* The booster itself tells the invoker, and closes the connection.
Reject(p) ==
  /\ RejectInvoker(p)
  /\ told' = IF serves[p] \in StillWaiting
             THEN [told EXCEPT ![serves[p]] = "rejected"] ELSE told
  /\ UNCHANGED <<memory, unvisited, sigReady, stateFile, misread, inv, sent, unsent>>

Ends(p) ==
  /\ BoosterCrashes(p) \/ \E st \in ExitStatuses : ApplicationExits(p, st)
  /\ UNCHANGED <<daemonVars, inv, sent, unsent>>

Request(i) == Connect(i) /\ UNCHANGED <<daemonVars, sent, unsent>>

Lose(i) ==
  /\ i \in StillWaiting
  /\ ConnectionLost(i)
  /\ told' = [told EXCEPT ![i] = "lost"]
  /\ UNCHANGED <<memory, unvisited, sigReady, stateFile, misread, sent, unsent>>

Kill(i) == i \in StillWaiting /\ Interrupt(i) /\ UNCHANGED <<daemonVars, sent, unsent>>

Administer(s) ==
  /\ Running /\ sent < MaxSignals
  /\ s \in AdminSignals
  /\ sent' = sent + 1
  /\ SignalDaemon(s)
  /\ UNCHANGED <<processVars, sigPipe, daemonLife, launcherSocket, openFds,
                 faults, daemonVars, inv, unsent>>

Failure == DaemonFails /\ UNCHANGED <<inv, sent, unsent>>

Next ==
  \/ DaemonRuns \/ Handler \/ Failure
  \/ \E p \in Pids : Prepare(p) \/ Commit(p) \/ Reject(p) \/ Ends(p)
  \/ \E p \in Pids, i \in Invokers : Accept(p, i)
  \/ \E i \in Invokers : Request(i) \/ Lose(i) \/ Kill(i)
  \/ \E s \in AdminSignals : Administer(s)

Spec == Init /\ [][Next]_vars

\* The scheduler runs every process that can run, and a pending signal is
\* handled.  Nothing makes an application end, an invoker connect or a
\* signal come.
Fairness ==
  /\ WF_vars(DaemonRuns)
  /\ WF_vars(Handler)
  /\ \A p \in Pids : WF_vars(Prepare(p) \/ Commit(p) \/ Reject(p))
  /\ \A i \in Invokers : WF_vars(\E p \in Pids : Accept(p, i)) /\ WF_vars(Lose(i))

FairSpec == Spec /\ Fairness

-----------------------------------------------------------------------------
\* Every variable holds a value of the kind the code can give it.
TypeOK == KernelTypeOK /\ DaemonTypeOK /\ InvokerTypeOK
            /\ sent \in Nat /\ unsent \subseteq Invokers \cup {NoInvoker}

-----------------------------------------------------------------------------
(* While a re-exec is between execve() and the end of restoreState(), what *)
(* the daemon knows is in the state file.                                  *)

Restarting == m_reExec /\ pc \in Starting

Children == IF Restarting THEN stateFile.children ELSE m_children
Current  == IF Restarting THEN stateFile.boosterPid ELSE m_boosterPid
BootMode == IF Restarting THEN stateFile.bootMode ELSE m_bootMode
PidMap   == IF Restarting THEN stateFile.invokerPid ELSE m_boosterPidToInvokerPid
FdMap    == IF Restarting THEN stateFile.invokerFd ELSE m_boosterPidToInvokerFd

\* The first booster has been forked.
Started == m_reExec \/ pc \notin Starting \cup {"init"}

RangeOf(s) == {s[k] : k \in DOMAIN s}

-----------------------------------------------------------------------------
\* The daemon's list of children is the process table's, and the booster it
\* expects requests from is one of them: kill() and waitpid() never meet a
\* recycled pid and no child is forgotten, across forkBooster(),
\* reapZombies(), reExec() and restoreState().
ChildrenTracked ==
  Running =>
    /\ Children = {p \in Pids : state[p] # "free"}
    /\ Current \in Children \cup {NoPid}
    /\ Started => Current # NoPid

\* The two maps readFromBoosterSocket() fills and reapZombies() empties have
\* the same entries, one per invoker and none for the current booster, and
\* every connection the daemon holds is reachable through them, so that it
\* will be closed.
ConnectionsTracked ==
  Running =>
    /\ PidMap = FdMap
    /\ \A p \in Pids : FdMap[p] # NoInvoker => p \in Children \ {Current}
    /\ \A p, q \in Pids : FdMap[p] = FdMap[q] /\ p # q => FdMap[p] = NoInvoker
    /\ openFds = {FdMap[p] : p \in Pids} \ {NoInvoker}

\* A dead child is never overlooked: SIGCHLD is still to be handled or read,
\* or the present pass of reapZombies() will come to it, or a re-exec will
\* end in a pass.  SIGCHLD coalesces, is dropped by execve() and may come
\* while a pass runs.
NoZombieForgotten ==
  Running =>
    \A p \in Pids : state[p] = "zombie" =>
      \/ "SIGCHLD" \in sigPending \cup RangeOf(sigPipe)
      \/ pc = "reap" /\ p \in unvisited
      \/ pc = "exec"
      \/ m_reExec /\ pc \in Starting \cup {"init"}

\* As long as no booster has been reaped before its message was read, the
\* sender of a message is the booster it will be attributed to, only that
\* booster can still take a request, and every other child is mapped to the
\* invoker it really serves.
InStep ==
  Running /\ ~misread =>
    /\ Len(launcherSocket) <= 1
    /\ \A k \in DOMAIN launcherSocket : launcherSocket[k].from = Current
    /\ \A p \in Pids : state[p] \in Uncommitted => p = Current
    /\ \A p \in Children \ {Current} :
         FdMap[p] = IF serves[p] \in WaitTerm THEN serves[p] ELSE NoInvoker

\* What reapZombies() tells an invoker, by an exit value or by a signal, is
\* how the process that served this invoker has ended.
RightOutcome == \A i \in Invokers : told[i] \in Statuses => told[i] = fate[i]

\* The same while every message is read before its sender is reaped.
RightOutcomeInStep == misread \/ RightOutcome

\* Nobody waits at a connection that is open for nothing: an invoker that has not
\* been told and would not read an end of file is served by a process that has
\* not been reaped, and this process or the daemon knows where to report: the
\* booster has the connection, or it is under the booster's pid in the map or
\* in the message to the daemon.
NoWaiterForgotten ==
  Running /\ ~misread =>
    \A i \in StillWaiting :
      ConnectionHeld(i) =>
        \E p \in Pids :
          /\ state[p] # "free" /\ serves[p] = i
          /\ \/ state[p] \in {"serving", "sent"}
             \/ FdMap[p] = i
             \/ \E k \in DOMAIN launcherSocket :
                  launcherSocket[k].from = p /\ launcherSocket[k].invoker = i

\* There is a booster for the next request or one will come: the current one can
\* still take it, or is dead and NoZombieForgotten brings the daemon to it, or has
\* sent the message on which the daemon forks.  Only if the sendmsg() of this very
\* booster failed has the next one to wait for the end of its application: after
\* any other failure, and after a sendmsg() that failed earlier, it has not.
BoosterToCome ==
  Running /\ Started =>
    \/ state[Current] \in Uncommitted \cup {"zombie"}
    \/ \E k \in DOMAIN launcherSocket : launcherSocket[k].from = Current
    \/ state[Current] \in {"sent", "app"} /\ serves[Current] \in unsent

\* After enterNormalMode() or enterBootMode() no booster of the old mode is
\* left to take a request, and from reExec() on, execve() included, none of
\* the old image.  One that was killed before it restored the signal handlers
\* leaves SIGTERM in the pipe.
NoStaleBooster ==
  Running /\ ~misread =>
    \A p \in Pids : state[p] \in Uncommitted =>
      \/ pc # "exec" /\ mode[p] = BootMode /\ bornIn[p] = image
      \/ "SIGTERM" \in RangeOf(sigPipe)

\* While the daemon runs, an invoker meets the end of file that makes it kill an
\* application that is still running only if the sendmsg() of its own booster
\* failed: whatever else fails, also a sendmsg() of another booster, does not.
NoAppKilledByInvoker ==
  \A i \in Invokers : told[i] = "lost" /\ fate[i] = "SIGKILL" => ~Running \/ i \in unsent

-----------------------------------------------------------------------------
\* An invoker that waits for the end of its application does not wait in
\* vain: once the process that served it is dead it is told so, or finds its
\* connection closed.  Not so after a message has been misattributed.
EndReported ==
  \A i \in WaitTerm :
    inv[i] = "waiting" /\ fate[i] # "none"
      ~> told[i] # "none" \/ inv[i] = "gone" \/ misread

\* A queued request is taken by some booster, whatever becomes of the
\* boosters before it, while the daemon runs and no sendmsg() has failed.
RequestServed ==
  \A i \in Invokers : inv[i] = "queued" ~> inv[i] # "queued" \/ ~Running \/ unsent # {}

-----------------------------------------------------------------------------
(* What the comments and the documents say, and the code does not do.      *)

\* The daemon exits on SIGTERM only if it was sent one: SIGUSR1 and SIGUSR2
\* switch the mode and kill boosters.
StopsOnlyWhenAsked == exitCause = "SIGTERM" => "SIGTERM" \in AdminSignals

\* The daemon is not killed by a signal that arrives while it re-executes.
SurvivesReExec == m_reExec => exitCause \notin {"null_instance", "default_action"}

=============================================================================
