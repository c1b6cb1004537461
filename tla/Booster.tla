------------------------------- MODULE Booster ------------------------------
(***************************************************************************)
(* A booster process from its fork to its death: the child's part of       *)
(* forkBooster() in daemon.cpp, then Booster::initialize() and run() in    *)
(* booster.cpp.  The conversation with the invoker is one step, Accept,    *)
(* whose failures (a request that cannot be read) are among the crashes:   *)
(* the exception that ends the process is SIGABRT like any other.          *)
(***************************************************************************)
EXTENDS Kernel

\* The child restores the signal handlers the daemon was started with.
RestoreHandlers(p) ==
  /\ state[p] = "forked"
  /\ state' = [state EXCEPT ![p] = "restored"]
  /\ UNCHANGED <<status, serves, mode, bornIn, fate, signalVars, daemonLife,
                 launcherSocket, openFds, faults>>

\* prctl(PR_SET_PDEATHSIG, SIGHUP): without effect when the daemon, the
\* parent, has already died.
SetDeathSignal(p) ==
  /\ state[p] = "restored"
  /\ state' = [state EXCEPT ![p] = "idle"]
  /\ UNCHANGED <<status, serves, mode, bornIn, fate, signalVars, daemonLife,
                 launcherSocket, openFds, faults>>

\* accept() and receiveApplicationData(): the request of invoker i.
AcceptInvoker(p, i) ==
  /\ state[p] = "idle"
  /\ state' = [state EXCEPT ![p] = "serving"]
  /\ serves' = [serves EXCEPT ![p] = i]
  /\ UNCHANGED <<status, mode, bornIn, fate, signalVars, daemonLife,
                 launcherSocket, openFds, faults>>

\* A slip: the connection of the rejected invoker is kept.
RejectInvokerKeepsConnection(p) ==
  /\ state[p] = "serving"
  /\ state' = [state EXCEPT ![p] = "idle"]
  /\ fate' = [fate EXCEPT ![serves[p]] = "rejected"]
  /\ UNCHANGED <<status, serves, mode, bornIn, signalVars, daemonLife, launcherSocket,
                 openFds, faults>>

\* The application asked for is single-instance and runs already: it is
\* activated, and the booster waits for another request.
RejectInvoker(p) ==
  /\ state[p] = "serving"
  /\ state' = [state EXCEPT ![p] = "idle"]
  /\ serves' = [serves EXCEPT ![p] = NoInvoker]
  /\ fate' = [fate EXCEPT ![serves[p]] = "rejected"]
  /\ UNCHANGED <<status, mode, bornIn, signalVars, daemonLife, launcherSocket,
                 openFds, faults>>

\* A slip: the invoker's pid and connection are never sent.
SendDataToParentWithoutInvoker(p) ==
  /\ state[p] = "serving" /\ Running
  /\ state' = [state EXCEPT ![p] = "sent"]
  /\ launcherSocket' = Append(launcherSocket, [from |-> p, invoker |-> NoInvoker])
  /\ UNCHANGED <<status, serves, mode, bornIn, fate, signalVars, daemonLife,
                 openFds, faults>>

\* sendDataToParent(): the invoker's pid and connection if it waits for the
\* exit status, pid 0 and no descriptor if not.
SendDataToParent(p) ==
  /\ state[p] = "serving" /\ Running
  /\ state' = [state EXCEPT ![p] = "sent"]
  /\ launcherSocket' =
       Append(launcherSocket,
              [from |-> p, invoker |-> IF serves[p] \in WaitTerm THEN serves[p] ELSE NoInvoker])
  /\ UNCHANGED <<status, serves, mode, bornIn, fate, signalVars, daemonLife,
                 openFds, faults>>

\* sendmsg() fails, surely so when the daemon is gone: the booster logs it
\* and goes on.
SendFails(p) ==
  /\ state[p] = "serving"
  /\ \/ Fault
     \/ ~Running /\ UNCHANGED faults
  /\ state' = [state EXCEPT ![p] = "sent"]
  /\ UNCHANGED <<status, serves, mode, bornIn, fate, signalVars, daemonLife,
                 launcherSocket, openFds>>

\* The connection is closed, PR_SET_PDEATHSIG cleared and main() entered.
Launch(p) ==
  /\ state[p] = "sent"
  /\ state' = [state EXCEPT ![p] = "app"]
  /\ UNCHANGED <<status, serves, mode, bornIn, fate, signalVars, daemonLife,
                 launcherSocket, openFds, faults>>

\* The application returns from main() or calls exit().
ApplicationExits(p, st) ==
  /\ state[p] = "app"
  /\ Die(p, st)
  /\ UNCHANGED <<serves, mode, bornIn, sigPipe, daemonLife, launcherSocket,
                 openFds, faults>>

\* An exception that is not caught (a request that cannot be read, an
\* application that cannot be loaded), an abort, the OOM killer.
BoosterCrashes(p) ==
  /\ state[p] \notin {"free", "zombie"}
  /\ Fault
  /\ Die(p, "SIGABRT")
  /\ UNCHANGED <<serves, mode, bornIn, sigPipe, daemonLife, launcherSocket, openFds>>

=============================================================================
