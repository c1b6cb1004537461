--------------------------- MODULE LauncherProofs ---------------------------
(***************************************************************************)
(* Proofs about Launcher, for any number of processes, invokers, signals   *)
(* and failures.                                                           *)
(***************************************************************************)
EXTENDS LauncherInv, SequenceTheorems, TLAPS

USE PidAssumption, InvokerAssumption, SignalAssumption, BoundAssumption,
    InterruptAssumption

-----------------------------------------------------------------------------
(* Types of what the shared operators assign.                              *)

\* A process that ends, in whatever status, leaves the process table, the
\* fates and the pending signals well typed.
LEMMA DieType ==
  ASSUME KernelTypeOK, NEW p \in Pids, NEW st \in Statuses, Die(p, st)
  PROVE  /\ state' \in [Pids -> States]
         /\ status' \in [Pids -> Statuses \cup {"none"}]
         /\ fate' \in [Invokers -> Statuses \cup {"none", "rejected"}]
         /\ sigPending' \subseteq Signals
BY DEF KernelTypeOK, Die, FateAfter, States, Signals

\* So does the end of the daemon, whatever its cause.
LEMMA ExitType ==
  ASSUME KernelTypeOK, NEW cause, NEW procs \in [Pids -> States],
         DaemonExits(cause, procs)
  PROVE  /\ pc' = "exited" /\ exitCause' = cause
         /\ state' \in [Pids -> States]
         /\ fate' \in [Invokers -> Statuses \cup {"none", "rejected"}]
BY DEF KernelTypeOK, DaemonExits, FateAfter, States, Statuses, DeathSignals

\* A failure is counted.
LEMMA FaultType ==
  ASSUME KernelTypeOK, Fault
  PROVE  faults' \in Nat
BY DEF KernelTypeOK, Fault

\* What ForkBooster assigns, when the daemon goes on at next.
ForkTyped(next) ==
  /\ pc' \in {next, "exited"}
  /\ exitCause' \in {exitCause, "fork"}
  /\ state' \in [Pids -> States]
  /\ serves' \in [Pids -> Invokers \cup {NoInvoker}]
  /\ mode' \in [Pids -> BOOLEAN]
  /\ bornIn' \in [Pids -> Nat]
  /\ fate' \in [Invokers -> Statuses \cup {"none", "rejected"}]
  /\ faults' \in Nat
  /\ m_children' \in SUBSET Pids
  /\ m_boosterPid' \in Pids \cup {NoPid}

\* forkBooster() keeps the process table, the list of children and the
\* current booster well typed, whether fork() succeeds or fails.
LEMMA ForkType ==
  ASSUME KernelTypeOK, DaemonTypeOK, NEW procs \in [Pids -> States],
         NEW children \in SUBSET Pids, NEW next \in PCs,
         ForkBooster(procs, children, next)
  PROVE  ForkTyped(next)
<1> USE DEF ForkTyped
<1>1. CASE \E p \in Pids :
              /\ procs[p] = "free"
              /\ state' = [procs EXCEPT ![p] = "forked"]
              /\ serves' = [serves EXCEPT ![p] = NoInvoker]
              /\ mode' = [mode EXCEPT ![p] = m_bootMode]
              /\ bornIn' = [bornIn EXCEPT ![p] = image]
              /\ m_children' = children \cup {p}
              /\ m_boosterPid' = p
              /\ pc' = next
              /\ UNCHANGED <<exitCause, fate, faults>>
  <2>1. PICK p \in Pids :
              /\ procs[p] = "free"
              /\ state' = [procs EXCEPT ![p] = "forked"]
              /\ serves' = [serves EXCEPT ![p] = NoInvoker]
              /\ mode' = [mode EXCEPT ![p] = m_bootMode]
              /\ bornIn' = [bornIn EXCEPT ![p] = image]
              /\ m_children' = children \cup {p}
              /\ m_boosterPid' = p
              /\ pc' = next
              /\ UNCHANGED <<exitCause, fate, faults>>
    BY <1>1
  <2>2. state' \in [Pids -> States]
    BY <2>1 DEF States
  <2>3. serves' \in [Pids -> Invokers \cup {NoInvoker}] /\ bornIn' \in [Pids -> Nat]
    BY <2>1 DEF KernelTypeOK
  <2>4. mode' \in [Pids -> BOOLEAN]
    BY <2>1 DEF KernelTypeOK, DaemonTypeOK
  <2> QED
    BY <2>1, <2>2, <2>3, <2>4 DEF KernelTypeOK
<1>2. CASE /\ UNCHANGED faults \/ Fault
           /\ DaemonExits("fork", procs)
           /\ m_boosterPid' = NoPid
           /\ m_children' = children
           /\ UNCHANGED <<serves, mode, bornIn>>
  <2>1. faults' \in Nat
    BY <1>2, FaultType DEF KernelTypeOK
  <2> QED
    BY <1>2, <2>1, ExitType DEF KernelTypeOK
<1> QED
  BY <1>1, <1>2 DEF ForkBooster

\* killBoosters() keeps the process table, the pipe and the pending
\* signals well typed.
LEMMA KillType ==
  ASSUME KernelTypeOK, DaemonTypeOK, NEW queue \in Seq(Signals), KillBoosters(queue)
  PROVE  /\ state' \in [Pids -> States]
         /\ status' \in [Pids -> Statuses \cup {"none"}]
         /\ fate' \in [Invokers -> Statuses \cup {"none", "rejected"}]
         /\ sigPending' \subseteq Signals
         /\ sigPipe' \in Seq(Signals)
<1>1. Append(queue, "SIGTERM") \in Seq(Signals)
  BY DEF Signals
<1>2. CASE m_boosterPid # NoPid /\ Die(m_boosterPid, "SIGTERM") /\ sigPipe' = queue
  <2>1. m_boosterPid \in Pids /\ "SIGTERM" \in Statuses
    BY <1>2 DEF DaemonTypeOK, Statuses, DeathSignals
  <2> QED
    BY <1>2, <2>1, DieType
<1>3. CASE /\ UNCHANGED <<state, status, fate, sigPending>>
           /\ sigPipe' \in {queue, Append(queue, "SIGTERM")}
  BY <1>1, <1>3 DEF KernelTypeOK
<1> QED
  BY <1>2, <1>3 DEF KillBoosters

\* readFromBoosterSocket() keeps both maps and the descriptors well typed.
LEMMA StoreType ==
  ASSUME KernelTypeOK, DaemonTypeOK, NEW msg \in Message, StoreInvoker(msg)
  PROVE  /\ m_boosterPidToInvokerPid' \in InvokerMap
         /\ m_boosterPidToInvokerFd' \in InvokerMap
         /\ openFds' \subseteq Invokers
<1>1. /\ m_boosterPidToInvokerPid \in InvokerMap
      /\ m_boosterPidToInvokerFd \in InvokerMap
      /\ openFds \subseteq Invokers
      /\ msg.invoker \in Invokers \cup {NoInvoker}
  BY DEF KernelTypeOK, DaemonTypeOK, Message
<1> QED
  BY <1>1 DEF StoreInvoker, InvokerMap

\* reapZombies() keeps both maps, the descriptors, what invokers are told and
\* the pending signals well typed.
LEMMA ReportType ==
  ASSUME KernelTypeOK, DaemonTypeOK, NEW p \in Pids, NEW waiting, Report(p, waiting)
  PROVE  /\ m_boosterPidToInvokerPid' \in InvokerMap
         /\ m_boosterPidToInvokerFd' \in InvokerMap
         /\ openFds' \subseteq Invokers
         /\ told' \in [Invokers -> Statuses \cup {"none", "rejected", "lost"}]
         /\ sigPending' \subseteq Signals
<1>1. status[p] \in Statuses \cup {"none"}
  BY DEF KernelTypeOK
<1>2. CASE m_boosterPidToInvokerPid[p] = NoInvoker
  BY <1>2 DEF KernelTypeOK, DaemonTypeOK, Report
<1>3. CASE m_boosterPidToInvokerPid[p] # NoInvoker
  <2>1. /\ m_boosterPidToInvokerPid' \in InvokerMap
        /\ m_boosterPidToInvokerFd' \in InvokerMap
        /\ openFds' \subseteq Invokers
    BY <1>3 DEF KernelTypeOK, DaemonTypeOK, Report, InvokerMap
  <2>2. told' \in [Invokers -> Statuses \cup {"none", "rejected", "lost"}]
    BY <1>1, <1>3 DEF DaemonTypeOK, Report
  <2>3. sigPending' \subseteq Signals
    BY <1>3 DEF KernelTypeOK, Report, Signals
  <2> QED
    BY <2>1, <2>2, <2>3
<1> QED
  BY <1>2, <1>3

-----------------------------------------------------------------------------
(* The signal pipe.                                                        *)

\* Taking another signal from the pipe leaves this one in it.
LEMMA TailOfPipe ==
  ASSUME NEW s \in Seq(Signals), NEW e, s # <<>>, Head(s) # e, e \in RangeOf(s)
  PROVE  e \in RangeOf(Tail(s))
<1>1. PICK k \in DOMAIN s : s[k] = e
  BY DEF RangeOf
<1>2. Len(s) \in Nat /\ DOMAIN s = 1..Len(s) /\ Head(s) = s[1]
  OBVIOUS
<1>3. k \in Nat /\ k > 1 /\ k <= Len(s)
  BY <1>1, <1>2
<1>4. k - 1 \in 1..Len(Tail(s)) /\ Tail(s)[k - 1] = s[k]
  BY <1>2, <1>3, HeadTailProperties
<1>5. DOMAIN Tail(s) = 1..Len(Tail(s))
  BY HeadTailProperties
<1> QED
  BY <1>1, <1>4, <1>5 DEF RangeOf

\* Writing a signal into the pipe leaves the others in it, and puts in its own.
LEMMA AppendToPipe ==
  ASSUME NEW s \in Seq(Signals), NEW e \in Signals
  PROVE  RangeOf(Append(s, e)) = RangeOf(s) \cup {e}
<1>1. /\ DOMAIN s = 1..Len(s) /\ Len(s) \in Nat
      /\ DOMAIN Append(s, e) = 1..(Len(s) + 1)
      /\ \A k \in 1..Len(s) : Append(s, e)[k] = s[k]
      /\ Append(s, e)[Len(s) + 1] = e
  BY AppendProperties
<1>2. 1..(Len(s) + 1) = (1..Len(s)) \cup {Len(s) + 1}
  BY <1>1
<1> QED
  BY <1>1, <1>2 DEF RangeOf

-----------------------------------------------------------------------------
(* QueueInv is inductive.                                                  *)

\* No step of the launcher breaks the types, or takes from the socket or the
\* pipe what select() has told the daemon is there.
THEOREM QueueStep == QueueInv /\ [Next]_vars => QueueInv'
<1> SUFFICES ASSUME QueueInv, [Next]_vars PROVE QueueInv'
  OBVIOUS
<1>t. KernelTypeOK /\ DaemonTypeOK
  BY DEF QueueInv, TypeOK
<1>d. /\ state \in [Pids -> States] /\ m_children \in SUBSET Pids
      /\ status \in [Pids -> Statuses \cup {"none"}]
  BY <1>t DEF KernelTypeOK, DaemonTypeOK
<1>m. pc = "socket" =>
        Head(launcherSocket) \in Message /\ Tail(launcherSocket) \in Seq(Message)
  <2>1. launcherSocket \in Seq(Message)
    BY <1>t DEF KernelTypeOK
  <2>2. pc = "socket" => launcherSocket # <<>>
    BY DEF QueueInv, QueuesReady
  <2> QED
    BY <2>1, <2>2
<1>s. pc = "signal" => Tail(sigPipe) \in Seq(Signals)
  <2>1. sigPipe \in Seq(Signals)
    BY <1>t DEF KernelTypeOK
  <2>2. pc = "signal" => sigPipe # <<>>
    BY DEF QueueInv, QueuesReady
  <2> QED
    BY <2>1, <2>2
<1>1. CASE UNCHANGED vars
  <2>1. UNCHANGED <<pc, exitCause, image, m_reExec, state, status, serves, mode, bornIn,
                    fate, sigPending, sigPipe, launcherSocket, openFds, faults>>
    BY <1>1 DEF vars, kernelVars, processVars, signalVars, daemonLife
  <2>2. UNCHANGED <<m_bootMode, m_boosterPid, m_children, m_boosterPidToInvokerPid,
                    m_boosterPidToInvokerFd, unvisited, sigReady, stateFile, told,
                    misread, inv, sent, unsent>>
    BY <1>1 DEF vars, daemonVars, memory
  <2> QED
    BY <2>1, <2>2 DEF QueueInv, TypeOK, QueuesReady, KernelTypeOK, DaemonTypeOK,
                      InvokerTypeOK
<1>2. CASE DaemonRuns
  <2> USE DEF processVars, signalVars, daemonLife, daemonVars, memory
  <2>1. UNCHANGED <<inv, sent, unsent>>
    BY <1>2 DEF DaemonRuns
  <2>2. CASE InstallHandlers
    BY <2>1, <2>2 DEF QueueInv, TypeOK, QueuesReady,
          KernelTypeOK, DaemonTypeOK, InvokerTypeOK,
          InstallHandlers, PCs, Starting
  <2>3. CASE SetInstance
    BY <2>1, <2>3 DEF QueueInv, TypeOK, QueuesReady,
          KernelTypeOK, DaemonTypeOK, InvokerTypeOK,
          SetInstance, PCs, Starting
  <2>4. CASE RestoreState
    BY <2>1, <2>4 DEF QueueInv, TypeOK, QueuesReady,
          KernelTypeOK, DaemonTypeOK, InvokerTypeOK,
          RestoreState, PCs, SavedMemory, NoMemory, NoMap, InvokerMap
  <2>5. CASE CreateChannels
    BY <2>1, <2>5 DEF QueueInv, TypeOK, QueuesReady,
          KernelTypeOK, DaemonTypeOK, InvokerTypeOK,
          CreateChannels, PCs
  <2>6. CASE RunAgain
    BY <2>1, <2>6 DEF QueueInv, TypeOK, QueuesReady,
          KernelTypeOK, DaemonTypeOK, InvokerTypeOK,
          RunAgain, PCs
  <2>7. CASE RunFirst
    <3>1. ForkBooster(state, m_children, "select")
      BY <2>7 DEF RunFirst
    <3>2. "select" \in PCs
      BY DEF PCs
    <3>3. ForkTyped("select")
      BY <3>1, <3>2, ForkType, <1>t, <1>d
    <3> QED
      BY <2>1, <2>7, <3>3 DEF QueueInv, TypeOK, QueuesReady,
          KernelTypeOK, DaemonTypeOK, InvokerTypeOK,
          RunFirst, PCs, ForkTyped
  <2>8. CASE Select
    BY <2>1, <2>8 DEF QueueInv, TypeOK, QueuesReady,
          KernelTypeOK, DaemonTypeOK, InvokerTypeOK,
          Select, PCs
  <2>9. CASE ReadFromBoosterSocket
    <3> DEFINE next == IF sigReady THEN "signal" ELSE "select"
    <3>1. ForkBooster(state, m_children, next)
      BY <2>9 DEF ReadFromBoosterSocket
    <3>2. next \in PCs
      BY DEF PCs
    <3>3. ForkTyped(next)
      BY <3>1, <3>2, ForkType, <1>t, <1>d
    <3>4. Head(launcherSocket) \in Message /\ Tail(launcherSocket) \in Seq(Message)
      BY <1>m, <2>9 DEF ReadFromBoosterSocket
    <3>5. /\ m_boosterPidToInvokerPid' \in InvokerMap
          /\ m_boosterPidToInvokerFd' \in InvokerMap
          /\ openFds' \subseteq Invokers
      <4>1. StoreInvoker(Head(launcherSocket))
        BY <2>9 DEF ReadFromBoosterSocket
      <4> QED
        BY <1>t, <3>4, <4>1, StoreType
    <3> QED
      BY <2>1, <2>9, <3>3, <3>4, <3>5 DEF QueueInv, TypeOK, QueuesReady,
          KernelTypeOK, DaemonTypeOK, InvokerTypeOK,
          ReadFromBoosterSocket, PCs, ForkTyped
  <2>10. CASE ReadSigChld
    BY <2>1, <2>10 DEF QueueInv, TypeOK, QueuesReady,
          KernelTypeOK, DaemonTypeOK, InvokerTypeOK,
          ReadSigChld, ReadSignal, PCs
  <2>11. CASE ReadSigTerm
    <3>1. DaemonExits("SIGTERM", state)
      BY <2>11 DEF ReadSigTerm
    <3>2. /\ pc' = "exited" /\ exitCause' = "SIGTERM"
          /\ state' \in [Pids -> States]
          /\ fate' \in [Invokers -> Statuses \cup {"none", "rejected"}]
      BY <3>1, ExitType, <1>t, <1>d
    <3> QED
      BY <2>1, <2>11, <3>2 DEF QueueInv, TypeOK, QueuesReady,
          KernelTypeOK, DaemonTypeOK, InvokerTypeOK,
          ReadSigTerm, ReadSignal, PCs
  <2>12. ASSUME NEW s \in Signals, NEW boot \in BOOLEAN, ReadModeSignal(s, boot)
         PROVE  QueueInv'
    <3>1. Tail(sigPipe) \in Seq(Signals)
      BY <1>s, <2>12 DEF ReadModeSignal, ReadSignal
    <3>2. /\ state' \in [Pids -> States]
          /\ status' \in [Pids -> Statuses \cup {"none"}]
          /\ fate' \in [Invokers -> Statuses \cup {"none", "rejected"}]
          /\ sigPending' \subseteq Signals
          /\ sigPipe' \in Seq(Signals)
      <4>1. CASE KillBoosters(Tail(sigPipe))
        BY <3>1, <4>1, KillType, <1>t, <1>d
      <4>2. CASE sigPipe' = Tail(sigPipe) /\ UNCHANGED <<state, status, fate, sigPending>>
        BY <1>t, <3>1, <4>2 DEF KernelTypeOK
      <4> QED
        BY <2>12, <4>1, <4>2 DEF ReadModeSignal
    <3> QED
      BY <2>1, <2>12, <3>2 DEF QueueInv, TypeOK, QueuesReady,
          KernelTypeOK, DaemonTypeOK, InvokerTypeOK,
          ReadModeSignal, PCs
  <2>13. CASE ReadSigPipe
    BY <2>1, <2>13 DEF QueueInv, TypeOK, QueuesReady,
          KernelTypeOK, DaemonTypeOK, InvokerTypeOK,
          ReadSigPipe, ReadSignal, PCs
  <2>14. CASE ReadSigHup
    <3>1. Tail(sigPipe) \in Seq(Signals)
      BY <1>s, <2>14 DEF ReadSigHup, ReadSignal
    <3>2. KillBoosters(Tail(sigPipe))
      BY <2>14 DEF ReadSigHup
    <3>3. /\ state' \in [Pids -> States]
          /\ status' \in [Pids -> Statuses \cup {"none"}]
          /\ fate' \in [Invokers -> Statuses \cup {"none", "rejected"}]
          /\ sigPending' \subseteq Signals
          /\ sigPipe' \in Seq(Signals)
      BY <3>1, <3>2, KillType, <1>t, <1>d
    <3>4. stateFile' \in SavedMemory
      BY <1>t, <2>14 DEF DaemonTypeOK, ReadSigHup, SavedMemory
    <3> QED
      BY <2>1, <2>14, <3>3, <3>4 DEF QueueInv, TypeOK, QueuesReady,
          KernelTypeOK, DaemonTypeOK, InvokerTypeOK,
          ReadSigHup, PCs
  <2>15. CASE Exec
    <3>1. image' \in Nat
      <4>1. image \in Nat
        BY <1>t DEF KernelTypeOK
      <4> QED
        BY <2>15, <4>1 DEF Exec
    <3>2. /\ m_bootMode' \in BOOLEAN /\ m_boosterPid' \in Pids \cup {NoPid}
          /\ m_children' \subseteq Pids
          /\ m_boosterPidToInvokerPid' \in InvokerMap
          /\ m_boosterPidToInvokerFd' \in InvokerMap
      BY <2>15 DEF Exec, NoMemory, NoMap, InvokerMap
    <3>3. pc' = "main" /\ m_reExec' = TRUE /\ sigReady' = FALSE
          /\ UNCHANGED <<exitCause, processVars, signalVars, launcherSocket, openFds,
                         faults, unvisited, stateFile, told, misread>>
      BY <2>15 DEF Exec
    <3> QED
      BY <2>1, <3>1, <3>2, <3>3 DEF QueueInv, TypeOK, QueuesReady,
          KernelTypeOK, DaemonTypeOK, InvokerTypeOK,
          PCs, Starting
  <2>16. ASSUME NEW p \in Pids, VisitLiving(p)
         PROVE  QueueInv'
    BY <2>1, <2>16 DEF QueueInv, TypeOK, QueuesReady,
          KernelTypeOK, DaemonTypeOK, InvokerTypeOK,
          VisitLiving
  <2>17. ASSUME NEW p \in Pids, ReapChild(p, StillWaiting)
         PROVE  QueueInv'
    <3>1. Report(p, StillWaiting)
      BY <2>17 DEF ReapChild
    <3>2. /\ m_boosterPidToInvokerPid' \in InvokerMap
          /\ m_boosterPidToInvokerFd' \in InvokerMap
          /\ openFds' \subseteq Invokers
          /\ told' \in [Invokers -> Statuses \cup {"none", "rejected", "lost"}]
          /\ sigPending' \subseteq Signals
      BY <3>1, ReportType, <1>t, <1>d
    <3>3. misread' \in BOOLEAN
      BY <1>t, <2>17 DEF DaemonTypeOK, ReapChild
    <3>4. status' \in [Pids -> Statuses \cup {"none"}]
      BY <1>d, <2>17 DEF ReapChild
    <3> DEFINE reaped == [state EXCEPT ![p] = "free"]
               others == m_children \ {p}
    <3>5. reaped \in [Pids -> States] /\ others \in SUBSET Pids /\ "reap" \in PCs
      BY <1>d DEF States, PCs
    <3>6. CASE ForkBooster(reaped, others, "reap")
      <4>1. ForkTyped("reap")
        BY <3>5, <3>6, ForkType, <1>t, <1>d
      <4>2. unvisited' \subseteq Pids
        <5>1. unvisited' = (unvisited \ {p}) \cup (m_children' \ others)
                \/ unvisited' = unvisited \ {p}
          BY <2>17 DEF ReapChild
        <5> QED
          BY <1>t, <4>1, <5>1 DEF ForkTyped, DaemonTypeOK
      <4> QED
        BY <2>1, <2>17, <3>2, <3>3, <3>4, <4>1, <4>2 DEF QueueInv, TypeOK, QueuesReady,
          KernelTypeOK, DaemonTypeOK, InvokerTypeOK,
          ReapChild, ForkTyped, PCs
    <3>7. CASE /\ state' = reaped
               /\ m_children' = others
               /\ unvisited' = unvisited \ {p}
               /\ UNCHANGED <<pc, exitCause, fate, faults, serves, mode, bornIn,
                              m_boosterPid>>
      BY <2>1, <2>17, <3>2, <3>3, <3>4, <3>5, <3>7 DEF QueueInv, TypeOK, QueuesReady,
          KernelTypeOK, DaemonTypeOK, InvokerTypeOK,
          ReapChild
    <3> QED
      BY <2>17, <3>6, <3>7 DEF ReapChild
  <2>18. CASE EndReap
    BY <2>1, <2>18 DEF QueueInv, TypeOK, QueuesReady,
          KernelTypeOK, DaemonTypeOK, InvokerTypeOK,
          EndReap, PCs
  <2>19. "SIGUSR1" \in Signals /\ "SIGUSR2" \in Signals
    BY DEF Signals
  <2> QED
    BY <1>2, <2>2, <2>3, <2>4, <2>5, <2>6, <2>7, <2>8, <2>9, <2>10, <2>11, <2>12,
       <2>13, <2>14, <2>15, <2>16, <2>17, <2>18, <2>19
       DEF DaemonRuns, DaemonStep, EnterNormalMode, EnterBootMode
<1> USE DEF processVars, signalVars, daemonLife, daemonVars, memory, kernelVars
<1>3. CASE Handler
  <2>1. PICK s \in Signals : DeliverSignal(s) /\ UNCHANGED <<daemonVars, inv, sent, unsent>>
    BY <1>3 DEF Handler, HandleSignal
  <2>2. /\ pc' \in PCs
        /\ exitCause' \in {exitCause, "default_action", "null_instance"}
        /\ state' \in [Pids -> States]
        /\ fate' \in [Invokers -> Statuses \cup {"none", "rejected"}]
        /\ pc' = pc \/ pc' = "exited"
    <3>1. CASE UNCHANGED <<pc, exitCause, state, fate>>
      BY <1>t, <3>1 DEF KernelTypeOK
    <3>2. ASSUME NEW cause \in {"default_action", "null_instance"},
                 DaemonExits(cause, state)
          PROVE  <2>2!:
      BY <1>t, <1>d, <3>2, ExitType DEF PCs
    <3> QED
      BY <2>1, <3>1, <3>2 DEF DeliverSignal
  <2>3. sigPipe' \in Seq(Signals) /\ (sigPipe # <<>> => sigPipe' # <<>>)
    <3>1. sigPipe \in Seq(Signals)
      BY <1>t DEF KernelTypeOK
    <3>2. CASE sigPipe' = sigPipe
      BY <3>1, <3>2
    <3>3. CASE sigPipe' = Append(sigPipe, s)
      BY <3>1, <3>3, AppendProperties
    <3> QED
      BY <2>1, <3>2, <3>3 DEF DeliverSignal
  <2>4. /\ sigPending' \subseteq Signals
        /\ UNCHANGED <<status, serves, mode, bornIn, image, m_reExec,
                       launcherSocket, openFds, faults>>
    BY <1>t, <2>1 DEF DeliverSignal, KernelTypeOK
  <2> QED
    BY <2>1, <2>2, <2>3, <2>4 DEF QueueInv, TypeOK, QueuesReady,
     KernelTypeOK, DaemonTypeOK, InvokerTypeOK
<1>4. CASE Failure
  <2>1. UNCHANGED <<inv, sent, unsent>>
    BY <1>4 DEF Failure
  <2>2. ASSUME NEW cause \in {"recvmsg", "execve", "crash"},
               DaemonExits(cause, state), Fault,
               UNCHANGED <<image, m_reExec, status, serves, mode, bornIn, signalVars,
                           launcherSocket, openFds, daemonVars>>
        PROVE  QueueInv'
    <3>1. /\ pc' = "exited" /\ exitCause' = cause
          /\ state' \in [Pids -> States]
          /\ fate' \in [Invokers -> Statuses \cup {"none", "rejected"}]
      BY <1>t, <1>d, <2>2, ExitType
    <3>2. faults' \in Nat
      BY <1>t, <2>2, FaultType
    <3> QED
      BY <2>1, <2>2, <3>1, <3>2 DEF PCs, QueueInv, TypeOK, QueuesReady,
     KernelTypeOK, DaemonTypeOK, InvokerTypeOK
  <2> QED
    BY <1>4, <2>2 DEF Failure, DaemonFails, ReadFails, SaveFails, ExecFails, DaemonCrashes
<1>5. ASSUME NEW p \in Pids, Prepare(p)
      PROVE  QueueInv'
  <2>1. state' \in [Pids -> States]
    BY <1>d, <1>5 DEF Prepare, RestoreHandlers, SetDeathSignal, Launch, States
  <2> QED
    BY <1>5, <2>1 DEF Prepare, RestoreHandlers, SetDeathSignal, Launch, QueueInv, TypeOK, QueuesReady,
     KernelTypeOK, DaemonTypeOK, InvokerTypeOK
<1>6. ASSUME NEW p \in Pids, Commit(p)
      PROVE  QueueInv'
  <2>1. state' \in [Pids -> States]
    BY <1>d, <1>6 DEF Commit, SendDataToParent, SendFails, States
  <2>2. /\ launcherSocket' \in Seq(Message)
        /\ launcherSocket # <<>> => launcherSocket' # <<>>
    <3>1. launcherSocket \in Seq(Message) /\ serves[p] \in Invokers \cup {NoInvoker}
      BY <1>t DEF KernelTypeOK
    <3>2. CASE SendFails(p)
      BY <3>1, <3>2 DEF SendFails
    <3>3. CASE SendDataToParent(p)
      <4> DEFINE msg == [from |-> p,
                         invoker |-> IF serves[p] \in WaitTerm THEN serves[p] ELSE NoInvoker]
      <4>1. msg \in Message
        BY <3>1 DEF Message
      <4>2. launcherSocket' = Append(launcherSocket, msg)
        BY <3>3 DEF SendDataToParent
      <4> QED
        BY <3>1, <4>1, <4>2, AppendProperties
    <3> QED
      BY <1>6, <3>2, <3>3 DEF Commit
  <2>3. faults' \in Nat
    BY <1>t, <1>6, FaultType DEF Commit, SendDataToParent, SendFails, KernelTypeOK
  <2>4. UNCHANGED <<status, serves, mode, bornIn, fate, signalVars, daemonLife,
                    openFds, daemonVars, inv, sent>>
    BY <1>6 DEF Commit, SendDataToParent, SendFails
  <2>5. unsent' \subseteq Invokers \cup {NoInvoker}
    BY <1>t, <1>6 DEF Commit, KernelTypeOK, QueueInv, TypeOK
  <2> QED
    BY <2>1, <2>2, <2>3, <2>4, <2>5 DEF QueueInv, TypeOK, QueuesReady,
     KernelTypeOK, DaemonTypeOK, InvokerTypeOK
<1>7. ASSUME NEW p \in Pids, Reject(p)
      PROVE  QueueInv'
  <2>1. /\ state' \in [Pids -> States]
        /\ serves' \in [Pids -> Invokers \cup {NoInvoker}]
        /\ fate' \in [Invokers -> Statuses \cup {"none", "rejected"}]
        /\ told' \in [Invokers -> Statuses \cup {"none", "rejected", "lost"}]
    BY <1>t, <1>7 DEF Reject, RejectInvoker, States, KernelTypeOK, DaemonTypeOK
  <2> QED
    BY <1>7, <2>1 DEF Reject, RejectInvoker, QueueInv, TypeOK, QueuesReady,
     KernelTypeOK, DaemonTypeOK, InvokerTypeOK
<1>8. ASSUME NEW p \in Pids, Ends(p)
      PROVE  QueueInv'
  <2>1. PICK st \in Statuses : Die(p, st)
    BY <1>8 DEF Ends, BoosterCrashes, ApplicationExits, Statuses, DeathSignals
  <2>2. /\ state' \in [Pids -> States]
        /\ status' \in [Pids -> Statuses \cup {"none"}]
        /\ fate' \in [Invokers -> Statuses \cup {"none", "rejected"}]
        /\ sigPending' \subseteq Signals
    BY <1>t, <2>1, DieType
  <2>3. faults' \in Nat
    BY <1>t, <1>8, FaultType DEF Ends, BoosterCrashes, ApplicationExits, KernelTypeOK
  <2>4. UNCHANGED <<serves, mode, bornIn, sigPipe, daemonLife, launcherSocket,
                    openFds, daemonVars, inv, sent, unsent>>
    BY <1>8 DEF Ends, BoosterCrashes, ApplicationExits
  <2> QED
    BY <2>2, <2>3, <2>4 DEF QueueInv, TypeOK, QueuesReady,
     KernelTypeOK, DaemonTypeOK, InvokerTypeOK
<1>9. ASSUME NEW p \in Pids, NEW i \in Invokers, Accept(p, i)
      PROVE  QueueInv'
  <2>1. /\ state' \in [Pids -> States]
        /\ serves' \in [Pids -> Invokers \cup {NoInvoker}]
        /\ inv' \in [Invokers -> {"off", "queued", "waiting", "done", "gone"}]
    BY <1>t, <1>9 DEF Accept, AcceptInvoker, States, KernelTypeOK, InvokerTypeOK,
                      QueueInv, TypeOK
  <2> QED
    BY <1>9, <2>1 DEF Accept, AcceptInvoker, QueueInv, TypeOK, QueuesReady,
     KernelTypeOK, DaemonTypeOK, InvokerTypeOK
<1>10. ASSUME NEW i \in Invokers, Request(i)
       PROVE  QueueInv'
  BY <1>10 DEF Request, Connect, QueueInv, TypeOK, QueuesReady,
     KernelTypeOK, DaemonTypeOK, InvokerTypeOK
<1>11. ASSUME NEW i \in Invokers, Lose(i) \/ Kill(i)
       PROVE  QueueInv'
  <2>1. \/ UNCHANGED <<state, status, fate, sigPending>>
        \/ \E p \in Pids, st \in Statuses : Die(p, st)
    BY <1>11 DEF Lose, Kill, ConnectionLost, Interrupt, ServerOf, Statuses, DeathSignals
  <2>2. /\ state' \in [Pids -> States]
        /\ status' \in [Pids -> Statuses \cup {"none"}]
        /\ fate' \in [Invokers -> Statuses \cup {"none", "rejected"}]
        /\ sigPending' \subseteq Signals
    BY <1>t, <2>1, DieType DEF KernelTypeOK
  <2>3. /\ told' \in [Invokers -> Statuses \cup {"none", "rejected", "lost"}]
        /\ inv' \in [Invokers -> {"off", "queued", "waiting", "done", "gone"}]
    BY <1>t, <1>11 DEF Lose, Kill, ConnectionLost, Interrupt, DaemonTypeOK, InvokerTypeOK,
                       QueueInv, TypeOK
  <2>4. UNCHANGED <<serves, mode, bornIn, sigPipe, daemonLife, launcherSocket, openFds,
                    faults, memory, unvisited, sigReady, stateFile, misread, sent, unsent>>
    BY <1>11 DEF Lose, Kill, ConnectionLost, Interrupt
  <2> QED
    BY <2>2, <2>3, <2>4 DEF QueueInv, TypeOK, QueuesReady,
     KernelTypeOK, DaemonTypeOK, InvokerTypeOK
<1>12. ASSUME NEW s \in AdminSignals, Administer(s)
       PROVE  QueueInv'
  <2>1. sigPending' \subseteq Signals
    BY <1>t, <1>12 DEF Administer, SignalDaemon, KernelTypeOK, Signals
  <2>2. sent' \in Nat
    BY <1>12 DEF Administer, QueueInv, TypeOK
  <2>3. UNCHANGED <<processVars, sigPipe, daemonLife, launcherSocket, openFds,
                    faults, daemonVars, inv, unsent>>
    BY <1>12 DEF Administer
  <2> QED
    BY <2>1, <2>2, <2>3 DEF QueueInv, TypeOK, QueuesReady,
     KernelTypeOK, DaemonTypeOK, InvokerTypeOK
<1> QED
  BY <1>1, <1>2, <1>3, <1>4, <1>5, <1>6, <1>7, <1>8, <1>9, <1>10, <1>11, <1>12 DEF Next

\* The launcher starts well typed, with both queues empty.
LEMMA InitQueue == Init => QueueInv
<1> SUFFICES ASSUME Init PROVE QueueInv
  OBVIOUS
<1> USE DEF Init, KernelInit, DaemonInit, InvokerInit
<1>1. KernelTypeOK
  <2>1. <<>> \in Seq(Signals) /\ <<>> \in Seq(Message)
    OBVIOUS
  <2>2. /\ state \in [Pids -> States] /\ status \in [Pids -> Statuses \cup {"none"}]
        /\ serves \in [Pids -> Invokers \cup {NoInvoker}]
        /\ mode \in [Pids -> BOOLEAN] /\ bornIn \in [Pids -> Nat]
        /\ fate \in [Invokers -> Statuses \cup {"none", "rejected"}]
    BY DEF States
  <2>3. pc \in PCs
    BY DEF PCs, Starting
  <2> QED
    BY <2>1, <2>2, <2>3 DEF KernelTypeOK
<1>2. DaemonTypeOK
  BY DEF DaemonTypeOK, NoMap, InvokerMap, NoMemory, SavedMemory
<1> QED
  BY <1>1, <1>2 DEF QueueInv, TypeOK, QueuesReady, InvokerTypeOK

\* Every variable always holds a value of the kind the code can give it, and
\* what select() has reported is still there when the daemon reads it.
THEOREM QueueInvariant == Spec => []QueueInv
<1>1. Init => QueueInv
  BY InitQueue
<1> QED
  BY <1>1, QueueStep, PTL DEF Spec

\* Every variable always holds a value of the kind the code can give it.
THEOREM TypeCorrect == Spec => []TypeOK
<1>1. QueueInv => TypeOK
  BY DEF QueueInv
<1> QED
  BY <1>1, QueueInvariant, PTL

=============================================================================
