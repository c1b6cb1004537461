----------------------------- MODULE ChildProofs ----------------------------
(***************************************************************************)
(* The daemon's list of children is right, for any number of processes,    *)
(* invokers, signals and failures: ChildInv, the second layer of the       *)
(* inductive invariant, with what follows from it; and there is always a   *)
(* booster for the next request, or one to come.                           *)
(***************************************************************************)
EXTENDS LauncherProofs

-----------------------------------------------------------------------------
(* What keeps ChildInv.                                                    *)

\* Process p has a table entry before a step exactly if it has one after it.
SameTable == \A p \in Pids : (state'[p] = "free") <=> (state[p] = "free")

\* A process that ends while the daemon runs keeps its entry, as a zombie.
LEMMA DieKeepsTable ==
  ASSUME state \in [Pids -> States], Running, NEW p \in Pids, NEW st, Die(p, st),
         state[p] # "free"
  PROVE  SameTable
BY DEF Die, SameTable

\* What killBoosters() does to the current booster leaves it in the table.
LEMMA KillKeepsTable ==
  ASSUME state \in [Pids -> States], Running, NEW queue, KillBoosters(queue),
         m_boosterPid \in Pids \cup {NoPid}
  PROVE  SameTable
<1>1. CASE UNCHANGED state
  BY <1>1 DEF SameTable
<1>2. CASE /\ m_boosterPid # NoPid /\ Die(m_boosterPid, "SIGTERM")
           /\ state[m_boosterPid] \in {"restored", "idle", "serving", "sent", "app"}
  BY <1>2, DieKeepsTable
<1> QED
  BY <1>1, <1>2 DEF KillBoosters

\* Nothing is claimed of the children of a daemon that has ended.
LEMMA ExitKeepsChildren ==
  ASSUME pc' = "exited", unvisited' \subseteq m_children'
  PROVE  ChildInv'
BY DEF ChildInv, ChildrenTracked, Running, NothingYet, Started, StateSaved, PassInv,
       Starting

\* A step that the daemon takes no part in, and that neither forks nor waits.
LEMMA OthersKeepChildren ==
  ASSUME ChildInv, state \in [Pids -> States], state' \in [Pids -> States],
         UNCHANGED <<pc, m_reExec, memory, stateFile, unvisited>>,
         Running => SameTable
  PROVE  ChildInv'
<1> USE DEF ChildInv, memory
<1>1. ChildrenTracked'
  BY DEF ChildrenTracked, Running, Children, Current, Restarting, Started, SameTable
<1>2. NothingYet'
  <2> SUFFICES ASSUME ~Started
               PROVE  /\ state' = [p \in Pids |-> "free"]
                      /\ m_children' = {} /\ m_boosterPid' = NoPid
    BY DEF NothingYet, Started
  <2>1. Running
    BY DEF Running, Started, Starting
  <2> QED
    BY <2>1 DEF NothingYet, SameTable
<1>3. StateSaved'
  BY DEF StateSaved
<1>4. PassInv'
  BY DEF PassInv, Running
<1> QED
  BY <1>1, <1>2, <1>3, <1>4

\* A step of the daemon in its loop that neither forks nor waits.
LEMMA LoopKeepsChildren ==
  ASSUME ChildInv, pc \in {"select", "signal"}, SameTable,
         UNCHANGED <<m_reExec, m_boosterPid, m_children>>,
         \/ pc' \in {"select", "socket", "signal"} /\ unvisited' = unvisited
         \/ pc' = "reap" /\ unvisited' = m_children
  PROVE  ChildInv'
<1> USE DEF ChildInv, Starting
<1>1. ChildrenTracked'
  BY DEF ChildrenTracked, Running, Children, Current, Restarting, Started, SameTable
<1>2. NothingYet' /\ StateSaved'
  BY DEF NothingYet, StateSaved, Started
<1>3. PassInv'
  BY DEF PassInv, Running
<1> QED
  BY <1>1, <1>2, <1>3

\* forkBooster() adds the new process to the children it is given, which are
\* those of the process table it is given; if fork() fails the daemon ends.
LEMMA ForkKeepsChildren ==
  ASSUME NEW procs \in [Pids -> States], NEW children \in SUBSET Pids,
         NEW next \in {"select", "signal", "reap"},
         children = {p \in Pids : procs[p] # "free"},
         ForkBooster(procs, children, next),
         unvisited' \subseteq m_children',
         next # "reap" => unvisited' = {}
  PROVE  ChildInv'
<1>1. ASSUME NEW p \in Pids,
             procs[p] = "free", state' = [procs EXCEPT ![p] = "forked"],
             m_children' = children \cup {p}, m_boosterPid' = p, pc' = next
      PROVE  ChildInv'
  <2> USE DEF Starting
  <2>1. m_children' = {q \in Pids : state'[q] # "free"}
    BY <1>1
  <2>2. ChildrenTracked'
    BY <1>1, <2>1, PidAssumption DEF ChildrenTracked, Running, Children, Current, Restarting
  <2>3. NothingYet' /\ StateSaved'
    BY <1>1 DEF NothingYet, StateSaved, Started
  <2>4. PassInv'
    BY <1>1 DEF PassInv, Running
  <2> QED
    BY <2>2, <2>3, <2>4 DEF ChildInv
<1>2. CASE DaemonExits("fork", procs)
  BY <1>2, ExitKeepsChildren DEF DaemonExits
<1> QED
  BY <1>1, <1>2 DEF ForkBooster

-----------------------------------------------------------------------------
(* ChildInv is inductive, given the types.                                 *)

\* No step of the launcher makes the daemon's list of children differ from
\* the process table, in memory, in the state file or during a pass.
THEOREM ChildStep == QueueInv /\ QueueInv' /\ ChildInv /\ [Next]_vars => ChildInv'
<1> SUFFICES ASSUME QueueInv, QueueInv', ChildInv, [Next]_vars PROVE ChildInv'
  OBVIOUS
<1>t. /\ state \in [Pids -> States] /\ state' \in [Pids -> States]
      /\ m_children \in SUBSET Pids /\ m_boosterPid \in Pids \cup {NoPid}
  BY DEF QueueInv, TypeOK, KernelTypeOK, DaemonTypeOK
\* In the loop the children are in memory.
<1>l. pc \notin Starting \cup {"init", "exited"} =>
        /\ m_children = {p \in Pids : state[p] # "free"}
        /\ m_boosterPid \in m_children
        /\ Running
  BY DEF ChildInv, ChildrenTracked, Running, Children, Current, Restarting, Started
<1>u. unvisited \subseteq m_children /\ (Running /\ pc # "reap" => unvisited = {})
  BY DEF ChildInv, PassInv
<1>1. CASE UNCHANGED vars
  <2>1. UNCHANGED <<pc, m_reExec, memory, stateFile, unvisited, state>>
    BY <1>1 DEF vars, kernelVars, processVars, daemonLife, daemonVars
  <2> QED
    BY <1>t, <2>1, OthersKeepChildren DEF SameTable
<1>2. CASE DaemonRuns
  <2> USE DEF processVars, daemonVars, memory
  <2>1. ASSUME UNCHANGED <<m_reExec, state, m_children, m_boosterPid, stateFile, unvisited>>,
               \/ pc = "main" /\ pc' = "handlers"
               \/ pc = "handlers" /\ pc' = "instance"
               \/ pc = "instance" /\ pc' = "init" /\ ~m_reExec
        PROVE  ChildInv'
    BY <2>1 DEF ChildInv, ChildrenTracked, Running, Children, Current, Restarting, Started,
                NothingYet, StateSaved, PassInv, Starting
  <2>2. CASE InstallHandlers
    BY <2>1, <2>2 DEF InstallHandlers
  <2>3. CASE SetInstance
    BY <2>1, <2>3 DEF SetInstance
  <2>4. CASE RestoreState
    <3>1. /\ pc = "instance" /\ m_reExec /\ pc' = "init" /\ m_reExec' = m_reExec
          /\ m_children' = stateFile.children /\ m_boosterPid' = stateFile.boosterPid
          /\ UNCHANGED <<state, unvisited>>
      BY <2>4 DEF RestoreState
    <3>2. unvisited = {}
      BY <1>u, <3>1 DEF Running
    <3> QED
      BY <3>1, <3>2 DEF ChildInv, ChildrenTracked, Running, Children, Current, Restarting,
                        Started, NothingYet, StateSaved, PassInv, Starting
  <2>5. CASE CreateChannels
    BY <2>1, <2>5 DEF CreateChannels
  <2>6. CASE RunFirst
    <3>1. /\ pc = "init" /\ ForkBooster(state, m_children, "select")
          /\ UNCHANGED unvisited
      BY <2>6 DEF RunFirst
    <3>2. m_children = {p \in Pids : state[p] # "free"} /\ unvisited = {}
      BY <1>u, <3>1 DEF ChildInv, ChildrenTracked, Running, Children, Restarting, Starting
    <3> QED
      BY <1>t, <3>1, <3>2, ForkKeepsChildren
  <2>7. CASE RunAgain
    BY <2>7 DEF RunAgain, ChildInv, ChildrenTracked, Running, Children, Current, Restarting,
                Started, NothingYet, StateSaved, PassInv, Starting
  <2>8. CASE Select
    <3>1. /\ pc = "select" /\ pc' \in {"socket", "signal"}
          /\ UNCHANGED <<state, m_reExec, m_boosterPid, m_children, unvisited>>
      BY <2>8 DEF Select
    <3> QED
      BY <3>1, LoopKeepsChildren DEF SameTable
  <2>9. CASE ReadFromBoosterSocket
    <3> DEFINE next == IF sigReady THEN "signal" ELSE "select"
    <3>1. /\ pc = "socket" /\ ForkBooster(state, m_children, next)
          /\ UNCHANGED unvisited
      BY <2>9 DEF ReadFromBoosterSocket
    <3>2. m_children = {p \in Pids : state[p] # "free"} /\ unvisited = {}
      BY <1>l, <1>u, <3>1 DEF Starting
    <3>3. next \in {"select", "signal", "reap"}
      OBVIOUS
    <3> HIDE DEF next
    <3> QED
      BY <1>t, <3>1, <3>2, <3>3, ForkKeepsChildren
  <2>10. CASE ReadSigChld
    <3>1. /\ pc = "signal" /\ pc' = "reap" /\ unvisited' = m_children
          /\ UNCHANGED <<state, m_reExec, m_boosterPid, m_children>>
      BY <2>10 DEF ReadSigChld, ReadSignal
    <3> QED
      BY <3>1, LoopKeepsChildren DEF SameTable
  <2>11. CASE ReadSigTerm
    BY <1>u, <2>11, ExitKeepsChildren DEF ReadSigTerm, DaemonExits
  <2>12. ASSUME NEW s, NEW boot, ReadModeSignal(s, boot)
         PROVE  ChildInv'
    <3>1. /\ pc = "signal" /\ pc' = "select"
          /\ UNCHANGED <<m_reExec, m_boosterPid, m_children, unvisited>>
          /\ KillBoosters(Tail(sigPipe)) \/ UNCHANGED state
      BY <2>12 DEF ReadModeSignal, ReadSignal
    <3>2. SameTable
      BY <1>t, <3>1, KillKeepsTable DEF SameTable, Running
    <3> QED
      BY <3>1, <3>2, LoopKeepsChildren
  <2>13. CASE ReadSigPipe
    <3>1. /\ pc = "signal" /\ pc' = "select"
          /\ UNCHANGED <<state, m_reExec, m_boosterPid, m_children, unvisited>>
      BY <2>13 DEF ReadSigPipe, ReadSignal
    <3> QED
      BY <3>1, LoopKeepsChildren DEF SameTable
  <2>14. CASE ReadSigHup
    <3>1. /\ pc = "signal" /\ pc' = "exec" /\ KillBoosters(Tail(sigPipe))
          /\ stateFile' = [bootMode |-> m_bootMode, boosterPid |-> m_boosterPid,
                           children |-> m_children,
                           invokerPid |-> m_boosterPidToInvokerPid,
                           invokerFd |-> m_boosterPidToInvokerFd]
          /\ UNCHANGED <<m_reExec, memory, unvisited>>
      BY <2>14 DEF ReadSigHup, ReadSignal
    <3>2. SameTable
      BY <1>t, <3>1, KillKeepsTable DEF Running
    <3>3. m_children' = {p \in Pids : state'[p] # "free"} /\ m_boosterPid' \in m_children'
      BY <1>l, <3>1, <3>2 DEF SameTable, Starting
    <3>4. ChildrenTracked'
      BY <3>1, <3>3, PidAssumption, <1>t
         DEF ChildrenTracked, Running, Children, Current, Restarting, Starting
    <3>5. NothingYet' /\ StateSaved' /\ PassInv'
      BY <1>u, <3>1 DEF NothingYet, Started, Starting, StateSaved, PassInv, Running
    <3> QED
      BY <3>4, <3>5 DEF ChildInv
  <2>15. CASE Exec
    <3>1. /\ pc = "exec" /\ pc' = "main" /\ m_reExec' = TRUE /\ m_children' = {}
          /\ UNCHANGED <<state, stateFile, unvisited>>
      BY <2>15 DEF Exec, NoMemory
    <3>2. stateFile.children = m_children /\ stateFile.boosterPid = m_boosterPid
      BY <3>1 DEF ChildInv, StateSaved
    <3>3. /\ m_children = {p \in Pids : state[p] # "free"} /\ m_boosterPid \in m_children
          /\ unvisited = {}
      BY <1>l, <1>u, <3>1 DEF Starting, Running
    <3> QED
      BY <3>1, <3>2, <3>3, PidAssumption, <1>t
         DEF ChildInv, ChildrenTracked, Running, Children, Current, Restarting, Started,
             NothingYet, StateSaved, PassInv, Starting
  <2>16. ASSUME NEW p \in Pids, VisitLiving(p)
         PROVE  ChildInv'
    <3>1. /\ pc = "reap" /\ unvisited' = unvisited \ {p}
          /\ UNCHANGED <<pc, m_reExec, m_boosterPid, m_children, state>>
      BY <2>16 DEF VisitLiving, daemonLife
    <3> QED
      BY <3>1 DEF ChildInv, ChildrenTracked, Running, Children, Current, Restarting, Started,
                  NothingYet, StateSaved, PassInv, Starting
  <2>17. ASSUME NEW p \in Pids, ReapChild(p, StillWaiting)
         PROVE  ChildInv'
    <3> DEFINE reaped == [state EXCEPT ![p] = "free"]
               others == m_children \ {p}
    <3>1. pc = "reap" /\ p \in unvisited /\ m_reExec' = m_reExec
      BY <2>17 DEF ReapChild
    <3>2. /\ others = {q \in Pids : reaped[q] # "free"}
          /\ reaped \in [Pids -> States] /\ others \in SUBSET Pids
          /\ unvisited \ {p} \subseteq others
      BY <1>l, <1>t, <1>u, <3>1 DEF Starting, States
    <3>3. CASE /\ ForkBooster(reaped, others, "reap")
               /\ unvisited' = (unvisited \ {p}) \cup (m_children' \ others)
      <4>1. others \subseteq m_children'
        BY <3>3 DEF ForkBooster
      <4>2. unvisited' \subseteq m_children'
        BY <3>2, <3>3, <4>1
      <4> HIDE DEF reaped, others
      <4> QED
        BY <3>2, <3>3, <4>2, ForkKeepsChildren
    <3>4. CASE /\ p # m_boosterPid
               /\ state' = reaped /\ m_children' = others
               /\ unvisited' = unvisited \ {p}
               /\ UNCHANGED <<pc, m_boosterPid>>
      <4>1. m_boosterPid' \in m_children'
        BY <1>l, <3>1, <3>4 DEF Starting
      <4>2. ChildrenTracked'
        BY <3>1, <3>2, <3>4, <4>1, PidAssumption
           DEF ChildrenTracked, Running, Children, Current, Restarting, Starting
      <4>3. NothingYet' /\ StateSaved'
        BY <3>1, <3>4 DEF NothingYet, Started, Starting, StateSaved
      <4>4. PassInv'
        BY <3>1, <3>2, <3>4 DEF PassInv
      <4> QED
        BY <4>2, <4>3, <4>4 DEF ChildInv
    <3> QED
      BY <2>17, <3>3, <3>4 DEF ReapChild
  <2>18. CASE EndReap
    BY <2>18 DEF EndReap, ChildInv, ChildrenTracked, Running, Children, Current, Restarting,
                 Started, NothingYet, StateSaved, PassInv, Starting
  <2> QED
    BY <1>2, <2>2, <2>3, <2>4, <2>5, <2>6, <2>7, <2>8, <2>9, <2>10, <2>11, <2>12,
       <2>13, <2>14, <2>15, <2>16, <2>17, <2>18
       DEF DaemonRuns, DaemonStep, EnterNormalMode, EnterBootMode
<1>3. CASE Handler
  <2>1. PICK s \in Signals : DeliverSignal(s) /\ UNCHANGED daemonVars
    BY <1>3 DEF Handler, HandleSignal
  <2>2. CASE UNCHANGED <<pc, state>>
    BY <1>t, <2>1, <2>2, OthersKeepChildren DEF DeliverSignal, daemonVars, SameTable
  <2>3. CASE pc' = "exited"
    BY <1>u, <2>1, <2>3, ExitKeepsChildren DEF daemonVars, memory
  <2> QED
    BY <2>1, <2>2, <2>3 DEF DeliverSignal, DaemonExits
<1>4. CASE Failure
  BY <1>4, <1>u, ExitKeepsChildren
     DEF Failure, DaemonFails, ReadFails, SaveFails, ExecFails, DaemonCrashes, DaemonExits,
         daemonVars, memory
<1>5. ASSUME UNCHANGED <<daemonLife, memory, stateFile, unvisited>>,
             \/ UNCHANGED state
             \/ \E p \in Pids : /\ state[p] # "free"
                                /\ \/ \E st : Die(p, st)
                                   \/ \E to \in States \ {"free"} :
                                         state' = [state EXCEPT ![p] = to]
      PROVE  ChildInv'
  <2>1. Running => SameTable
    BY <1>t, <1>5, DieKeepsTable DEF SameTable
  <2> QED
    BY <1>t, <1>5, <2>1, OthersKeepChildren DEF daemonLife
<1>6. ASSUME NEW p \in Pids, Prepare(p) \/ Commit(p) \/ Reject(p)
      PROVE  ChildInv'
  BY <1>5, <1>6 DEF Prepare, RestoreHandlers, SetDeathSignal, Launch, Commit,
                    SendDataToParent, SendFails, Reject, RejectInvoker, daemonVars, States
<1>7. ASSUME NEW p \in Pids, Ends(p)
      PROVE  ChildInv'
  BY <1>5, <1>7 DEF Ends, BoosterCrashes, ApplicationExits, daemonVars
<1>8. ASSUME NEW p \in Pids, NEW i \in Invokers, Accept(p, i)
      PROVE  ChildInv'
  BY <1>5, <1>8 DEF Accept, AcceptInvoker, daemonVars, States
<1>9. ASSUME NEW i \in Invokers, Request(i) \/ Lose(i) \/ Kill(i)
      PROVE  ChildInv'
  BY <1>5, <1>9 DEF Request, Connect, Lose, ConnectionLost, Kill, Interrupt, ServerOf,
                    daemonVars, kernelVars, processVars
<1>10. ASSUME NEW s \in AdminSignals, Administer(s)
       PROVE  ChildInv'
  BY <1>5, <1>10 DEF Administer, daemonVars, processVars
<1> QED
  BY <1>1, <1>2, <1>3, <1>4, <1>6, <1>7, <1>8, <1>9, <1>10 DEF Next

-----------------------------------------------------------------------------
\* The launcher starts without children.
LEMMA InitChildren == Init => ChildInv
BY DEF Init, KernelInit, DaemonInit, ChildInv, ChildrenTracked, Running, Children,
       Current, Restarting, Started, Starting, NothingYet, StateSaved, PassInv

\* The invariant of the first two layers.
THEOREM ChildInvariant == Spec => [](QueueInv /\ ChildInv)
<1>1. Init => QueueInv /\ ChildInv
  BY InitQueue, InitChildren
<1>2. QueueInv /\ ChildInv /\ [Next]_vars => QueueInv' /\ ChildInv'
  BY QueueStep, ChildStep
<1> QED
  BY <1>1, <1>2, PTL DEF Spec

\* The daemon's list of children is always that of the process table and the
\* booster it expects requests from is in it: it waits for no process that is
\* not its child, and kills none but the booster it means.
THEOREM ChildrenAlwaysTracked == Spec => []ChildrenTracked
<1>1. ChildInv => ChildrenTracked
  BY DEF ChildInv
<1> QED
  BY <1>1, ChildInvariant, PTL

-----------------------------------------------------------------------------
(* The booster that is to take the next request.                           *)

\* What BoosterToCome says of the current booster, of any process.
ToCome(p) ==
  \/ state[p] \in Uncommitted \cup {"zombie"}
  \/ \E k \in DOMAIN launcherSocket : launcherSocket[k].from = p
  \/ state[p] \in {"sent", "app"} /\ serves[p] \in unsent

\* Process p stays as it is, goes on, or dies and becomes a zombie; whoever
\* gives himself away has sent his message or failed to.
GoesOn(p) ==
  \/ UNCHANGED state
  \/ state' = [state EXCEPT ![p] = "zombie"]
  \/ \E to \in {"restored", "idle", "serving"} : state' = [state EXCEPT ![p] = to]
  \/ state[p] = "sent" /\ state' = [state EXCEPT ![p] = "app"]
  \/ /\ state' = [state EXCEPT ![p] = "sent"]
     /\ serves'[p] \in unsent' \/ \E k \in DOMAIN launcherSocket' : launcherSocket'[k].from = p

\* Messages and failures to send one are not taken back.
NothingTakenBack ==
  /\ unsent \subseteq unsent'
  /\ \A p \in Pids : state[p] \in {"sent", "app"} => serves'[p] = serves[p]
  /\ \A k \in DOMAIN launcherSocket : k \in DOMAIN launcherSocket' /\ launcherSocket'[k] = launcherSocket[k]

\* A step after which the same booster is the current one, and in which at most
\* one process has moved.
LEMMA SameBoosterToCome ==
  ASSUME QueueInv, ChildInv, BoosterToCome, Running' => Running, Started' => Started, UNCHANGED Current,
         NothingTakenBack, NEW p \in Pids, GoesOn(p)
  PROVE  BoosterToCome'
<1> SUFFICES ASSUME Running, Started PROVE ToCome(Current)'
  BY DEF BoosterToCome, ToCome
<1>1. ToCome(Current)
  BY DEF BoosterToCome, ToCome
<1>2. Current \in Pids
  BY DEF ChildInv, ChildrenTracked, Children, QueueInv, TypeOK, DaemonTypeOK, SavedMemory
<1>3. state \in [Pids -> States]
  BY DEF QueueInv, TypeOK, KernelTypeOK
<1>4. CASE \E k \in DOMAIN launcherSocket : launcherSocket[k].from = Current
  BY <1>4 DEF NothingTakenBack, ToCome
<1>5. CASE state[Current] \in Uncommitted \cup {"zombie"}
  <2>1. \/ state'[Current] \in Uncommitted \cup {"zombie"}
        \/ /\ state'[Current] = "sent" /\ p = Current
           /\ serves'[p] \in unsent' \/ \E k \in DOMAIN launcherSocket' : launcherSocket'[k].from = p
    BY <1>2, <1>3, <1>5 DEF GoesOn, Uncommitted
  <2> QED
    BY <2>1 DEF ToCome
<1>6. CASE state[Current] \in {"sent", "app"} /\ serves[Current] \in unsent
  <2>1. serves'[Current] \in unsent'
    BY <1>2, <1>6 DEF NothingTakenBack
  <2>2. state'[Current] \in Uncommitted \cup {"sent", "app", "zombie"}
    BY <1>2, <1>3, <1>6 DEF GoesOn, Uncommitted
  <2> QED
    BY <2>1, <2>2 DEF ToCome
<1> QED
  BY <1>1, <1>4, <1>5, <1>6 DEF ToCome

\* Who has just been forked can take a request.
LEMMA ForkedToCome ==
  ASSUME NEW procs \in [Pids -> States], NEW children,
         NEW next \in {"select", "signal", "reap"}, ForkBooster(procs, children, next)
  PROVE  BoosterToCome'
<1>1. CASE DaemonExits("fork", procs)
  BY <1>1 DEF DaemonExits, BoosterToCome, Running
<1>2. ASSUME NEW p \in Pids, state' = [procs EXCEPT ![p] = "forked"], m_boosterPid' = p, pc' = next
      PROVE  BoosterToCome'
  <2>1. Current' = p
    BY <1>2 DEF Current, Restarting, Starting
  <2> QED
    BY <1>2, <2>1 DEF BoosterToCome, Uncommitted
<1> QED
  BY <1>1, <1>2 DEF ForkBooster

\* No step of the launcher leaves the daemon without a booster and without a
\* reason to fork one.
THEOREM ToComeStep ==
  QueueInv /\ QueueInv' /\ ChildInv /\ BoosterToCome /\ [Next]_vars => BoosterToCome'
<1> SUFFICES ASSUME QueueInv, QueueInv', ChildInv, BoosterToCome, [Next]_vars
             PROVE  BoosterToCome'
  OBVIOUS
<1>t. /\ state \in [Pids -> States] /\ m_boosterPid \in Pids \cup {NoPid}
      /\ serves \in [Pids -> Invokers \cup {NoInvoker}] /\ launcherSocket \in Seq(Message)
  BY DEF QueueInv, TypeOK, KernelTypeOK, DaemonTypeOK
<1>l. pc \notin Starting \cup {"init", "exited"} => m_boosterPid \in Pids /\ Current = m_boosterPid /\ Started
  BY <1>t, PidAssumption DEF ChildInv, ChildrenTracked, Running, Children, Current, Restarting, Started
<1>x. ASSUME pc' = "exited" PROVE BoosterToCome'
  BY <1>x DEF BoosterToCome, Running
\* A step that moves no process.
<1>s. ASSUME UNCHANGED <<state, serves, unsent, launcherSocket, Current>>, Running' => Running,
             Started' => Started
      PROVE  BoosterToCome'
  BY <1>s DEF BoosterToCome
\* A step that the daemon takes no part in.
<1>o. ASSUME UNCHANGED <<pc, m_reExec, m_boosterPid, stateFile>>, NothingTakenBack,
             NEW p \in Pids, Running => GoesOn(p)
      PROVE  BoosterToCome'
  <2>1. UNCHANGED <<Current, Started, Running>>
    BY <1>o DEF Current, Restarting, Started, Running
  <2>2. CASE Running
    BY <1>t, <1>o, <2>1, <2>2, SameBoosterToCome
  <2>3. CASE ~Running
    BY <1>o, <2>3 DEF BoosterToCome, Running
  <2> QED
    BY <2>2, <2>3
<1>d. ASSUME NEW p \in Pids, NEW st, Die(p, st), Running PROVE GoesOn(p)
  BY <1>d DEF Die, GoesOn
<1>1. CASE UNCHANGED vars
  <2>1. UNCHANGED <<pc, m_reExec, m_boosterPid, stateFile, state, serves, unsent, launcherSocket>>
    BY <1>1 DEF vars, kernelVars, processVars, daemonLife, daemonVars, memory
  <2> QED
    BY <1>s, <2>1 DEF Current, Restarting, Started, Running
<1>2. CASE DaemonRuns
  <2> USE DEF processVars, daemonVars, memory
  <2>u. UNCHANGED unsent
    BY <1>2 DEF DaemonRuns
  <2>1. CASE InstallHandlers \/ SetInstance \/ RestoreState \/ CreateChannels
    <3>1. /\ pc \in Starting /\ pc' \in Starting \cup {"init"}
          /\ UNCHANGED <<m_reExec, state, serves, launcherSocket>>
          /\ \/ UNCHANGED <<m_boosterPid, stateFile>> /\ (pc' = "init" => ~m_reExec)
             \/ m_reExec /\ pc' = "init" /\ m_boosterPid' = stateFile.boosterPid
      BY <2>1 DEF InstallHandlers, SetInstance, RestoreState, CreateChannels, Starting
    <3>2. UNCHANGED <<Started, Current>> /\ Running
      BY <3>1 DEF Started, Current, Restarting, Running, Starting
    <3> QED
      BY <1>s, <2>u, <3>1, <3>2
  <2>2. CASE RunFirst \/ ReadFromBoosterSocket
    <3>1. PICK next \in {"select", "signal", "reap"} : ForkBooster(state, m_children, next)
      BY <2>2 DEF RunFirst, ReadFromBoosterSocket
    <3> QED
      BY <1>t, <3>1, ForkedToCome
  <2>3. CASE RunAgain \/ Select \/ ReadSigChld \/ ReadSigPipe \/ EndReap
    <3>1. /\ pc \notin Starting \cup {"exited"} /\ pc' \notin Starting
          /\ pc = "init" => m_reExec
          /\ UNCHANGED <<m_reExec, m_boosterPid, state, serves, launcherSocket>>
      BY <2>3 DEF RunAgain, Select, ReadSigChld, ReadSigPipe, ReadSignal, EndReap, Starting
    <3>2. UNCHANGED Current /\ Started /\ Running
      BY <3>1 DEF Started, Current, Restarting, Running
    <3> QED
      BY <1>s, <2>u, <3>1, <3>2
  <2>4. CASE ReadSigTerm
    BY <1>x, <2>4 DEF ReadSigTerm, DaemonExits
  <2>5. ASSUME pc = "signal", pc' \in {"select", "exec"},
               UNCHANGED <<m_reExec, m_boosterPid, serves, launcherSocket>>,
               KillBoosters(Tail(sigPipe)) \/ UNCHANGED state
        PROVE  BoosterToCome'
    <3>1. Running /\ Started /\ m_boosterPid \in Pids /\ UNCHANGED Current
      BY <1>l, <2>5 DEF Starting, Current, Restarting, Running
    <3>2. GoesOn(m_boosterPid)
      BY <1>d, <2>5, <3>1 DEF KillBoosters, GoesOn
    <3>3. NothingTakenBack
      BY <2>5, <2>u DEF NothingTakenBack
    <3> QED
      BY <1>t, <2>5, <3>1, <3>2, <3>3, SameBoosterToCome
  <2>6. CASE EnterNormalMode \/ EnterBootMode
    BY <2>5, <2>6 DEF EnterNormalMode, EnterBootMode, ReadModeSignal, ReadSignal
  <2>7. CASE ReadSigHup
    BY <2>5, <2>7 DEF ReadSigHup, ReadSignal
  <2>8. CASE Exec
    <3>1. /\ pc = "exec" /\ pc' = "main" /\ m_reExec' = TRUE
          /\ UNCHANGED <<state, serves, stateFile, launcherSocket>>
      BY <2>8 DEF Exec
    <3>2. stateFile.boosterPid = m_boosterPid
      BY <3>1 DEF ChildInv, StateSaved
    <3>3. UNCHANGED Current /\ Started /\ Running
      BY <1>l, <3>1, <3>2 DEF Started, Current, Restarting, Running, Starting
    <3> QED
      BY <1>s, <2>u, <3>1, <3>3
  <2>9. ASSUME NEW p \in Pids, VisitLiving(p)
        PROVE  BoosterToCome'
    <3>1. UNCHANGED <<pc, m_reExec, m_boosterPid, stateFile, state, serves, launcherSocket>>
      BY <2>9 DEF VisitLiving, daemonLife
    <3> QED
      BY <1>s, <2>u, <3>1 DEF Started, Current, Restarting, Running
  <2>10. ASSUME NEW p \in Pids, ReapChild(p, StillWaiting)
         PROVE  BoosterToCome'
    <3> DEFINE reaped == [state EXCEPT ![p] = "free"]
    <3>1. reaped \in [Pids -> States]
      BY <1>t DEF States
    <3>2. CASE ForkBooster(reaped, m_children \ {p}, "reap")
      <4> HIDE DEF reaped
      <4> QED
        BY <3>1, <3>2, ForkedToCome
    <3>3. CASE p # m_boosterPid /\ state' = reaped /\ UNCHANGED <<pc, serves, m_boosterPid>>
      <4>1. pc = "reap" /\ UNCHANGED <<m_reExec, launcherSocket>>
        BY <2>10 DEF ReapChild
      <4>2. Running /\ Started /\ m_boosterPid \in Pids /\ Current = m_boosterPid /\ Current' = Current
        BY <1>l, <3>3, <4>1 DEF Current, Restarting, Running, Starting
      <4>3. state'[Current] = state[Current]
        BY <1>t, <3>3, <4>2
      <4> QED
        BY <2>u, <3>3, <4>1, <4>2, <4>3 DEF BoosterToCome
    <3> QED
      BY <2>10, <3>2, <3>3 DEF ReapChild
  <2> QED
    BY <1>2, <2>1, <2>2, <2>3, <2>4, <2>6, <2>7, <2>8, <2>9, <2>10 DEF DaemonRuns, DaemonStep
<1>3. CASE Handler
  <2>1. PICK s \in Signals : DeliverSignal(s) /\ UNCHANGED <<daemonVars, unsent>>
    BY <1>3 DEF Handler, HandleSignal
  <2>2. CASE UNCHANGED <<pc, state>>
    <3>1. UNCHANGED <<m_reExec, m_boosterPid, stateFile, serves, unsent, launcherSocket>>
      BY <2>1 DEF DeliverSignal, daemonVars, memory
    <3> QED
      BY <1>s, <2>2, <3>1 DEF Started, Current, Restarting, Running
  <2> QED
    BY <1>x, <2>1, <2>2 DEF DeliverSignal, DaemonExits
<1>4. CASE Failure
  BY <1>4, <1>x
     DEF Failure, DaemonFails, ReadFails, SaveFails, ExecFails, DaemonCrashes, DaemonExits
<1>5. ASSUME NEW p \in Pids, Prepare(p) \/ Commit(p) \/ Reject(p)
      PROVE  BoosterToCome'
  <2>1. UNCHANGED <<pc, m_reExec, m_boosterPid, stateFile>>
    BY <1>5 DEF Prepare, RestoreHandlers, SetDeathSignal, Launch, Commit, SendDataToParent,
                SendFails, Reject, RejectInvoker, daemonLife, daemonVars, memory
  <2>2. CASE Prepare(p) \/ Reject(p)
    <3>1. NothingTakenBack /\ GoesOn(p)
      BY <1>t, <2>2 DEF Prepare, RestoreHandlers, SetDeathSignal, Launch, Reject, RejectInvoker,
                        NothingTakenBack, GoesOn
    <3> QED
      BY <1>o, <2>1, <3>1
  <2>3. CASE SendDataToParent(p) /\ UNCHANGED unsent
    <3> DEFINE msg == [from |-> p, invoker |-> IF serves[p] \in WaitTerm THEN serves[p] ELSE NoInvoker]
    <3>1. /\ state' = [state EXCEPT ![p] = "sent"] /\ launcherSocket' = Append(launcherSocket, msg)
          /\ UNCHANGED <<serves, unsent>>
      BY <2>3 DEF SendDataToParent
    <3>2. msg.from = p
      OBVIOUS
    <3> HIDE DEF msg
    <3>3. /\ \A k \in DOMAIN launcherSocket :
               k \in DOMAIN launcherSocket' /\ launcherSocket'[k] = launcherSocket[k]
          /\ Len(launcherSocket) + 1 \in DOMAIN launcherSocket'
          /\ launcherSocket'[Len(launcherSocket) + 1] = msg
      BY <1>t, <3>1
    <3>4. NothingTakenBack
      BY <1>t, <3>1, <3>3 DEF NothingTakenBack
    <3>5. GoesOn(p)
      BY <3>1, <3>2, <3>3 DEF GoesOn
    <3> QED
      BY <1>o, <2>1, <3>4, <3>5
  <2>4. CASE SendFails(p) /\ unsent' = unsent \cup {serves[p]}
    <3>1. /\ state' = [state EXCEPT ![p] = "sent"] /\ UNCHANGED <<serves, launcherSocket>>
          /\ unsent \subseteq unsent' /\ serves[p] \in unsent'
      BY <2>4 DEF SendFails
    <3>2. NothingTakenBack
      BY <3>1 DEF NothingTakenBack
    <3>3. GoesOn(p)
      BY <3>1 DEF GoesOn
    <3> QED
      BY <1>o, <2>1, <3>2, <3>3
  <2> QED
    BY <1>5, <2>2, <2>3, <2>4 DEF Commit
<1>6. ASSUME NEW p \in Pids, Ends(p)
      PROVE  BoosterToCome'
  <2>1. PICK st : Die(p, st)
    BY <1>6 DEF Ends, BoosterCrashes, ApplicationExits
  <2>2. UNCHANGED <<pc, m_reExec, m_boosterPid, stateFile, serves, unsent, launcherSocket>>
    BY <1>6 DEF Ends, BoosterCrashes, ApplicationExits, daemonLife, daemonVars, memory
  <2> QED
    BY <1>d, <1>o, <1>t, <2>1, <2>2 DEF NothingTakenBack
<1>7. ASSUME NEW p \in Pids, NEW i \in Invokers, Accept(p, i)
      PROVE  BoosterToCome'
  <2>1. UNCHANGED <<pc, m_reExec, m_boosterPid, stateFile>> /\ NothingTakenBack /\ GoesOn(p)
    BY <1>7, <1>t DEF Accept, AcceptInvoker, daemonLife, daemonVars, memory, NothingTakenBack, GoesOn
  <2> QED
    BY <1>o, <2>1
<1>8. ASSUME NEW i \in Invokers, Request(i) \/ Lose(i) \/ Kill(i)
      PROVE  BoosterToCome'
  <2>1. /\ UNCHANGED <<pc, m_reExec, m_boosterPid, stateFile, serves, unsent, launcherSocket>>
        /\ UNCHANGED state \/ \E p \in Pids, st \in Statuses : Die(p, st)
    BY <1>8 DEF Request, Connect, Lose, ConnectionLost, Kill, Interrupt, ServerOf, daemonLife,
                daemonVars, memory, kernelVars, processVars, Statuses, DeathSignals
  <2>2. CASE UNCHANGED state
    BY <1>s, <2>1, <2>2 DEF Started, Current, Restarting, Running
  <2>3. CASE \E p \in Pids, st \in Statuses : Die(p, st)
    BY <1>d, <1>o, <1>t, <2>1, <2>3 DEF NothingTakenBack
  <2> QED
    BY <2>1, <2>2, <2>3
<1>9. ASSUME NEW s \in AdminSignals, Administer(s)
      PROVE  BoosterToCome'
  BY <1>9, <1>s DEF Administer, daemonLife, daemonVars, memory, processVars, Started, Current,
                    Restarting, Running
<1> QED
  BY <1>1, <1>2, <1>3, <1>4, <1>5, <1>6, <1>7, <1>8, <1>9 DEF Next

\* Whatever becomes of boosters, messages and the daemon's images: somebody can take
\* the next request, or the daemon has yet to learn that it must fork, unless the
\* current booster's own sendmsg() has failed and its application still runs.
THEOREM BoosterAlwaysToCome == Spec => []BoosterToCome
<1>1. Init => BoosterToCome
  BY DEF Init, KernelInit, BoosterToCome, Started, Starting
<1>2. QueueInv /\ [Next]_vars => QueueInv'
  BY QueueStep
<1> QED
  BY <1>1, <1>2, ChildInvariant, ToComeStep, PTL DEF Spec

=============================================================================
