----------------------------- MODULE LauncherInv ----------------------------
(***************************************************************************)
(* The inductive invariant behind the safety properties of Launcher, in    *)
(* three layers.  Each layer is inductive together with those before it:   *)
(*                                                                         *)
(*   QueueInv       types, and the queues the daemon is about to read      *)
(*   ChildInv       ChildrenTracked and what re-exec needs for it          *)
(*   InvokerInv     who serves, reports to and waits for whom:             *)
(*                  ConnectionsTracked, InStep, RightOutcomeInStep and     *)
(*                  NoAppKilledByInvoker                                   *)
(***************************************************************************)
EXTENDS Launcher

\* What select() has reported is still there when the daemon reads it.
QueuesReady ==
  /\ pc = "socket" => launcherSocket # <<>>
  /\ pc = "socket" /\ sigReady => sigPipe # <<>>
  /\ pc = "signal" => sigPipe # <<>>

QueueInv == TypeOK /\ QueuesReady

-----------------------------------------------------------------------------
\* Before the first fork there is nothing.
NothingYet ==
  ~Started =>
    /\ state = [p \in Pids |-> "free"]
    /\ m_children = {} /\ m_boosterPid = NoPid

\* The state file describes the memory execve() is about to destroy.
StateSaved ==
  pc = "exec" => stateFile = [bootMode |-> m_bootMode, boosterPid |-> m_boosterPid,
                              children |-> m_children,
                              invokerPid |-> m_boosterPidToInvokerPid,
                              invokerFd |-> m_boosterPidToInvokerFd]

\* A pass of reapZombies() visits children only, each at most once.
PassInv ==
  /\ unvisited \subseteq m_children
  /\ Running /\ pc # "reap" => unvisited = {}

\* The list of children is right before the first fork, while it is passed
\* through execve() in the state file, and during a pass of reapZombies().
ChildInv == ChildrenTracked /\ NothingYet /\ StateSaved /\ PassInv

-----------------------------------------------------------------------------
Live(p) == state[p] # "free"

InMessage(i) == \E k \in DOMAIN launcherSocket : launcherSocket[k].invoker = i

\* A process serves an invoker from accept() to its end, and no two serve
\* the same one.
ServiceInv ==
  /\ \A p \in Pids :
       /\ state[p] \in {"forked", "restored", "idle"} => serves[p] = NoInvoker
       /\ state[p] \in {"serving", "sent", "app"} => serves[p] # NoInvoker
  /\ \A p, q \in Pids :
       Live(p) /\ Live(q) /\ p # q /\ serves[p] = serves[q] => serves[p] = NoInvoker

\* Nothing is known of an invoker before a booster has accepted it.
UnservedInv ==
  \A i \in Invokers : inv[i] \in {"off", "queued"} =>
    /\ \A p \in Pids : Live(p) => serves[p] # i
    /\ told[i] = "none" /\ fate[i] = "none"

\* The connection of an invoker moves from its booster to a message to the
\* daemon and is never in two messages, or in a message and with the daemon.
\* A booster that has let go of it has sent it, unless its sendmsg() failed.
HandOver ==
  Running =>
    /\ \A k, l \in DOMAIN launcherSocket :
         launcherSocket[k].invoker = launcherSocket[l].invoker /\ k # l
           => launcherSocket[k].invoker = NoInvoker
    /\ \A i \in openFds : ~InMessage(i)
    /\ \A i \in Invokers : inv[i] \in {"off", "queued"} => i \notin openFds /\ ~InMessage(i)
    /\ \A p \in Pids : state[p] = "serving" =>
         serves[p] \notin openFds /\ ~InMessage(serves[p])
    /\ \A p \in Pids :
         state[p] \in {"sent", "app"} /\ serves[p] \in StillWaiting \ unsent =>
           serves[p] \in openFds \/ InMessage(serves[p])

\* The first booster is there before any message or connection.
NoneHeldYet ==
  ~Started => /\ m_boosterPidToInvokerPid = NoMap
              /\ m_boosterPidToInvokerFd = NoMap
              /\ openFds = {} /\ launcherSocket = <<>>

\* A message names the invoker its sender serves.
MessagesTrue ==
  Running /\ ~misread =>
    \A k \in DOMAIN launcherSocket :
      LET p == launcherSocket[k].from IN
      /\ state[p] \in {"sent", "app", "zombie"}
      /\ serves[p] # NoInvoker
      /\ launcherSocket[k].invoker = IF serves[p] \in WaitTerm THEN serves[p] ELSE NoInvoker

\* The fate of an invoker is that of the process that serves it, and is known
\* when no process serves it any more.
FateInv ==
  /\ \A p \in Pids : state[p] = "zombie" => status[p] # "none"
  /\ \A p \in Pids : serves[p] # NoInvoker =>
       /\ state[p] \in {"serving", "sent", "app"} => fate[serves[p]] = "none"
       /\ state[p] = "zombie" => fate[serves[p]] = status[p]
  /\ \A i \in Invokers : inv[i] \in {"waiting", "done", "gone"} =>
       ServerOf(i) # {} \/ fate[i] # "none"

\* Who has been told the end of his application has no process any more.
ToldInv ==
  ~misread =>
    \A i \in Invokers : told[i] \in Statuses =>
      \A p \in Pids : Live(p) => serves[p] # i

\* Only who was started with --wait-term waits, and only it kills an
\* application with SIGKILL.
WaiterInv ==
  /\ \A i \in Invokers : inv[i] \in {"waiting", "gone"} => i \in WaitTerm
  /\ \A i \in Invokers : fate[i] = "SIGKILL" => told[i] = "lost"

\* What is known of the invokers and of the processes that serve them,
ServicePart ==
  ServiceInv /\ UnservedInv /\ FateInv /\ ToldInv /\ WaiterInv /\ RightOutcomeInStep

\* and what the daemon holds and knows of them.
ConnectionPart ==
  ConnectionsTracked /\ InStep /\ HandOver /\ NoneHeldYet /\ MessagesTrue
    /\ NoAppKilledByInvoker

\* Every invoker is followed from its accept() through the message of its
\* booster and the two maps of the daemon to the report on its application.
InvokerInv == ServicePart /\ ConnectionPart

-----------------------------------------------------------------------------
\* The launcher seen from outside.
L == INSTANCE Launches WITH
       Outcomes <- Statuses \cup {"rejected"},
       request <- [i \in Invokers |->
                     CASE inv[i] \in {"waiting", "done"} -> "served"
                       [] inv[i] = "gone" -> "left"
                       [] OTHER -> inv[i]],
       outcome <- fate,
       answer <- told

\* Until a message is misattributed every step of the daemon, the boosters and
\* the invokers is one of Launches: with any failure or restart in between no
\* request is served twice, no end is told before it has come or told wrong,
\* and who loses its connection has no application left.
LaunchesInStep == L!Init /\ [][L!Next \/ misread']_(L!vars)

=============================================================================
