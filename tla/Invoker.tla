------------------------------- MODULE Invoker ------------------------------
(***************************************************************************)
(* The invoker processes, invoker.c, as far as the daemon and the boosters *)
(* can tell: an invoker connects, is served by one booster and, with       *)
(* --wait-term, waits for the end of its application.  Its handshake is    *)
(* part of AcceptInvoker in Booster.                                       *)
(*                                                                         *)
(*   off -> queued -> waiting -> gone     with --wait-term                 *)
(*   off -> queued -> done                without                          *)
(***************************************************************************)
EXTENDS Kernel

CONSTANT Interruptible   \* the invokers a user may send SIGTERM to

ASSUME InterruptAssumption == Interruptible \subseteq WaitTerm

VARIABLE inv             \* inv[i]: see above

InvokerTypeOK == inv \in [Invokers -> {"off", "queued", "waiting", "done", "gone"}]

InvokerInit == inv = [i \in Invokers |-> "off"]

\* connect() to the booster's socket, which exists from initSocket() on.
Connect(i) ==
  /\ inv[i] = "off"
  /\ Running
  /\ m_reExec \/ pc \notin Starting \cup {"init"}
  /\ inv' = [inv EXCEPT ![i] = "queued"]
  /\ UNCHANGED kernelVars

\* The process that serves i, if it is still there.
ServerOf(i) == {p \in Pids : serves[p] = i /\ state[p] \in {"serving", "sent", "app"}}

\* Some process has the other end of the connection of i open, or a
\* datagram on its way to the daemon carries it.  A new child closes the
\* copies it inherits before anything else.
ConnectionHeld(i) ==
  \/ \E p \in Pids : serves[p] = i /\ state[p] \in {"serving", "sent"}
  \/ Running /\ i \in openFds
  \/ Running /\ \E k \in DOMAIN launcherSocket : launcherSocket[k].invoker = i

\* A slip: the application is left running.
ConnectionLostSparesApplication(i) ==
  /\ inv[i] = "waiting"
  /\ ~ConnectionHeld(i)
  /\ UNCHANGED <<state, status, fate, sigPending>>
  /\ UNCHANGED <<serves, mode, bornIn, sigPipe, daemonLife, launcherSocket,
                 openFds, faults, inv>>

\* End of file on the connection: an application that still runs is killed.
ConnectionLost(i) ==
  /\ inv[i] = "waiting"
  /\ ~ConnectionHeld(i)
  /\ \/ ServerOf(i) = {} /\ UNCHANGED <<state, status, fate, sigPending>>
     \/ \E p \in ServerOf(i) : Die(p, "SIGKILL")
  /\ UNCHANGED <<serves, mode, bornIn, sigPipe, daemonLife, launcherSocket,
                 openFds, faults, inv>>

\* sig_forwarder(): the signal goes to the application, which may have a
\* handler for it, and then ends the invoker.
Interrupt(i) ==
  /\ inv[i] = "waiting" /\ i \in Interruptible
  /\ inv' = [inv EXCEPT ![i] = "gone"]
  /\ \/ /\ \A p \in ServerOf(i) : state[p] = "app"
        /\ UNCHANGED <<state, status, fate, sigPending>>
     \/ \E p \in ServerOf(i) : Die(p, "SIGTERM")
  /\ UNCHANGED <<serves, mode, bornIn, sigPipe, daemonLife, launcherSocket,
                 openFds, faults>>

=============================================================================
