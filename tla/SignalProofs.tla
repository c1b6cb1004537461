---------------------------- MODULE SignalProofs ----------------------------
(***************************************************************************)
(* What the signal pipe is relied on for.  No dead child is overlooked:    *)
(* NoZombieForgotten is inductive once the list of children is known to be *)
(* right.  No booster of an old mode or image is left to take a request,   *)
(* unless it has turned its own SIGTERM into the daemon's: NoStaleBooster  *)
(* is inductive once the daemon is known to be in step with its boosters.  *)
(* And a daemon that nothing will wake owes nobody anything.               *)
(***************************************************************************)
EXTENDS InvokerProofs

-----------------------------------------------------------------------------
(* The dead children.                                                      *)

\* A SIGCHLD is pending for the daemon or waits in its signal pipe.
Noticed == "SIGCHLD" \in sigPending \cup RangeOf(sigPipe)

\* killBoosters() announces whom it kills.
LEMMA KillNoticed ==
  ASSUME QueueInv, Running, NEW queue \in Seq(Signals), KillBoosters(queue)
  PROVE  /\ sigPending \subseteq sigPending'
         /\ RangeOf(queue) \subseteq RangeOf(sigPipe')
         /\ \A p \in Pids : state'[p] = "zombie" => state[p] = "zombie" \/ Noticed'
<1>t. /\ state \in [Pids -> States] /\ m_boosterPid \in Pids \cup {NoPid}
  BY DEF QueueInv, TypeOK, KernelTypeOK, DaemonTypeOK
<1>1. sigPipe' = queue \/ sigPipe' = Append(queue, "SIGTERM")
  BY DEF KillBoosters
<1>2. RangeOf(queue) \subseteq RangeOf(sigPipe')
  BY <1>1, AppendToPipe DEF Signals
<1>3. \/ UNCHANGED <<state, sigPending>>
      \/ m_boosterPid \in Pids /\ Die(m_boosterPid, "SIGTERM")
  BY <1>t DEF KillBoosters
<1>4. /\ sigPending \subseteq sigPending'
      /\ \A p \in Pids : state'[p] = "zombie" => state[p] = "zombie" \/ Noticed'
  BY <1>t, <1>3 DEF Die, Noticed
<1> QED
  BY <1>2, <1>4

\* A step that keeps the notices and the place of the daemon, and announces
\* every new zombie.
LEMMA NoticeKept ==
  ASSUME NoZombieForgotten,
         Noticed => Noticed',
         \A p \in Pids : state'[p] = "zombie" => state[p] = "zombie" \/ Noticed',
         UNCHANGED <<pc, m_reExec>>,
         \A p \in Pids : p \in unvisited /\ state'[p] = "zombie" => p \in unvisited'
  PROVE  NoZombieForgotten'
BY DEF NoZombieForgotten, Noticed, Running

\* The same when the daemon goes from one place of its loop to another.
LEMMA NoticeKeptInLoop ==
  ASSUME NoZombieForgotten, pc \in {"select", "socket", "signal"},
         Noticed => Noticed',
         \A p \in Pids : state'[p] = "zombie" => state[p] = "zombie" \/ Noticed'
  PROVE  NoZombieForgotten'
BY DEF NoZombieForgotten, Noticed, Running, Starting

\* A new booster is no zombie, and if fork() fails nothing is claimed.
LEMMA ForkNotZombie ==
  ASSUME NEW procs \in [Pids -> States], NEW children, NEW next,
         ForkBooster(procs, children, next)
  PROVE  \/ pc' = "exited"
         \/ pc' = next /\ \A p \in Pids : state'[p] = "zombie" => procs[p] = "zombie"
BY DEF ForkBooster, DaemonExits

\* No step of the launcher leaves a dead child that nothing points to.
THEOREM ZombieStep ==
  QueueInv /\ ChildInv /\ NoZombieForgotten /\ [Next]_vars => NoZombieForgotten'
<1> SUFFICES ASSUME QueueInv, ChildInv, NoZombieForgotten, [Next]_vars
             PROVE  NoZombieForgotten'
  OBVIOUS
<1>t. /\ state \in [Pids -> States]
      /\ sigPipe \in Seq(Signals)
      /\ m_boosterPid \in Pids \cup {NoPid}
  BY DEF QueueInv, TypeOK, KernelTypeOK, DaemonTypeOK
\* Whoever is dead is in m_children, or nobody has been forked yet.
<1>c. \A p \in Pids : state[p] = "zombie" /\ Running =>
        Started /\ (Restarting \/ p \in m_children)
  BY <1>t DEF ChildInv, ChildrenTracked, NothingYet, Children
<1>x. ASSUME pc' = "exited" PROVE NoZombieForgotten'
  BY <1>x DEF NoZombieForgotten, Running
<1>1. CASE UNCHANGED vars
  <2>1. UNCHANGED <<pc, m_reExec, state, sigPending, sigPipe, unvisited>>
    BY <1>1 DEF vars, kernelVars, processVars, signalVars, daemonLife, daemonVars
  <2> QED
    BY <2>1, NoticeKept DEF Noticed
<1>2. CASE DaemonRuns
  <2> USE DEF processVars, signalVars, daemonVars
  <2>1. CASE InstallHandlers \/ SetInstance \/ RestoreState \/ CreateChannels
    <3>1. /\ pc \in Starting /\ pc' \in Starting \cup {"init"}
          /\ UNCHANGED <<m_reExec, state>>
      BY <2>1 DEF InstallHandlers, SetInstance, RestoreState, CreateChannels, Starting
    <3> QED
      BY <1>c, <3>1 DEF NoZombieForgotten, Started, Running, Starting
  <2>2. CASE RunFirst
    <3>1. /\ pc = "init" /\ ~m_reExec /\ ForkBooster(state, m_children, "select")
      BY <2>2 DEF RunFirst
    <3>2. \A p \in Pids : state[p] # "zombie"
      BY <1>c, <3>1 DEF Started, Running
    <3> QED
      BY <1>t, <1>x, <3>1, <3>2, ForkNotZombie DEF NoZombieForgotten
  <2>3. CASE RunAgain \/ ReadSigChld
    <3>1. /\ pc \in {"init", "signal"} /\ pc' = "reap" /\ unvisited' = m_children
          /\ UNCHANGED state
      BY <2>3 DEF RunAgain, ReadSigChld, ReadSignal
    <3> QED
      BY <1>c, <3>1 DEF NoZombieForgotten, Restarting, Running, Starting
  <2>4. CASE Select
    <3>1. pc = "select" /\ UNCHANGED <<state, sigPending, sigPipe>>
      BY <2>4 DEF Select
    <3> QED
      BY <3>1, NoticeKeptInLoop DEF Noticed
  <2>5. CASE ReadFromBoosterSocket
    <3> DEFINE next == IF sigReady THEN "signal" ELSE "select"
    <3>1. pc = "socket" /\ ForkBooster(state, m_children, next)
          /\ UNCHANGED <<sigPending, sigPipe>>
      BY <2>5 DEF ReadFromBoosterSocket
    <3> HIDE DEF next
    <3> QED
      BY <1>t, <1>x, <3>1, ForkNotZombie, NoticeKeptInLoop DEF Noticed
  <2>6. CASE ReadSigTerm
    BY <1>x, <2>6 DEF ReadSigTerm, DaemonExits
  <2>7. ASSUME NEW s \in {"SIGUSR1", "SIGUSR2", "SIGPIPE", "SIGHUP"}, ReadSignal(s),
               \/ KillBoosters(Tail(sigPipe))
               \/ sigPipe' = Tail(sigPipe) /\ UNCHANGED <<state, sigPending>>
        PROVE  NoZombieForgotten'
    <3>1. /\ pc = "signal" /\ Running /\ sigPipe # <<>> /\ Head(sigPipe) # "SIGCHLD"
      BY <2>7 DEF ReadSignal, Running, QueueInv, QueuesReady
    <3>2. Tail(sigPipe) \in Seq(Signals)
      BY <1>t, <3>1, HeadTailProperties
    <3>3. /\ sigPending \subseteq sigPending'
          /\ RangeOf(Tail(sigPipe)) \subseteq RangeOf(sigPipe')
          /\ \A p \in Pids : state'[p] = "zombie" => state[p] = "zombie" \/ Noticed'
      BY <2>7, <3>1, <3>2, KillNoticed
    <3>4. Noticed => Noticed'
      BY <1>t, <3>1, <3>3, TailOfPipe DEF Noticed
    <3> QED
      BY <3>1, <3>3, <3>4, NoticeKeptInLoop
  <2>8. CASE EnterNormalMode \/ EnterBootMode
    BY <2>7, <2>8 DEF EnterNormalMode, EnterBootMode, ReadModeSignal
  <2>9. CASE ReadSigPipe
    BY <2>7, <2>9 DEF ReadSigPipe
  <2>10. CASE ReadSigHup
    BY <2>7, <2>10 DEF ReadSigHup
  <2>11. CASE Exec
    BY <2>11 DEF Exec, NoZombieForgotten, Starting
  <2>12. ASSUME NEW p \in Pids, VisitLiving(p)
         PROVE  NoZombieForgotten'
    <3>1. /\ state[p] # "zombie" /\ unvisited' = unvisited \ {p}
          /\ UNCHANGED <<pc, m_reExec, state, sigPending, sigPipe>>
      BY <2>12 DEF VisitLiving, daemonLife
    <3> QED
      BY <3>1, NoticeKept DEF Noticed
  <2>13. ASSUME NEW p \in Pids, ReapChild(p, StillWaiting)
         PROVE  NoZombieForgotten'
    <3> DEFINE reaped == [state EXCEPT ![p] = "free"]
    <3>1. pc = "reap" /\ UNCHANGED <<m_reExec, sigPipe>> /\ Report(p, StillWaiting)
      BY <2>13 DEF ReapChild
    <3>2. Noticed => Noticed'
      BY <3>1 DEF Noticed, Report
    <3>3. \/ pc' = "exited"
          \/ /\ pc' = "reap" /\ unvisited \ {p} \subseteq unvisited'
             /\ \A q \in Pids : state'[q] = "zombie" => reaped[q] = "zombie"
      <4>1. reaped \in [Pids -> States]
        BY <1>t DEF States
      <4>2. CASE /\ ForkBooster(reaped, m_children \ {p}, "reap")
                 /\ unvisited \ {p} \subseteq unvisited'
        <5> HIDE DEF reaped
        <5> QED
          BY <4>1, <4>2, ForkNotZombie
      <4>3. CASE state' = reaped /\ unvisited' = unvisited \ {p} /\ pc' = pc
        BY <3>1, <4>3
      <4> QED
        BY <2>13, <4>2, <4>3 DEF ReapChild
    <3> QED
      BY <1>t, <1>x, <3>1, <3>2, <3>3, NoticeKept
  <2>14. CASE EndReap
    <3>1. pc = "reap" /\ pc' = "select" /\ unvisited = {}
          /\ UNCHANGED <<m_reExec, state, sigPending, sigPipe>>
      BY <2>14 DEF EndReap
    <3> QED
      BY <3>1 DEF NoZombieForgotten, Running, Starting
  <2> QED
    BY <1>2, <2>1, <2>2, <2>3, <2>4, <2>5, <2>6, <2>8, <2>9, <2>10, <2>11, <2>12,
       <2>13, <2>14 DEF DaemonRuns, DaemonStep
<1>3. CASE Handler
  <2>1. PICK s \in Signals : DeliverSignal(s) /\ UNCHANGED daemonVars
    BY <1>3 DEF Handler, HandleSignal
  <2>2. CASE pc' = "exited"
    BY <1>x, <2>2
  <2>3. CASE sigPipe' = Append(sigPipe, s) /\ UNCHANGED <<pc, state>>
    <3>1. Noticed => Noticed'
      BY <1>t, <2>1, <2>3, AppendToPipe DEF Noticed, DeliverSignal
    <3>2. UNCHANGED <<m_reExec, unvisited>>
      BY <2>1 DEF DeliverSignal, daemonVars
    <3> QED
      BY <2>3, <3>1, <3>2, NoticeKept
  <2>4. CASE (Ignored(s) \/ HandlerLoses) /\ UNCHANGED <<pc, state, sigPipe>>
    <3>1. UNCHANGED <<m_reExec, unvisited>> /\ sigPending' = sigPending \ {s}
      BY <2>1 DEF DeliverSignal, daemonVars
    <3>2. CASE pc \in {"main", "instance"}
      BY <1>c, <2>4, <3>1, <3>2 DEF NoZombieForgotten, Started, Running, Starting
    <3>3. CASE pc \notin {"main", "instance"}
      <4>1. s # "SIGCHLD"
        BY <2>4, <3>3 DEF Ignored, HandlerLoses
      <4> QED
        BY <2>4, <3>1, <4>1, NoticeKept DEF Noticed
    <3> QED
      BY <3>2, <3>3
  <2> QED
    BY <2>1, <2>2, <2>3, <2>4 DEF DeliverSignal, DaemonExits
<1>4. CASE Failure
  BY <1>4, <1>x
     DEF Failure, DaemonFails, ReadFails, SaveFails, ExecFails, DaemonCrashes, DaemonExits
<1>5. ASSUME UNCHANGED <<daemonLife, sigPipe, unvisited>>, sigPending \subseteq sigPending',
             \/ UNCHANGED state
             \/ \E p \in Pids : \/ \E st : Die(p, st)
                                \/ \E to \in States \ {"zombie"} :
                                      state' = [state EXCEPT ![p] = to]
      PROVE  NoZombieForgotten'
  <2>1. CASE Running
    <3>1. \A p \in Pids : state'[p] = "zombie" => state[p] = "zombie" \/ Noticed'
      BY <1>t, <1>5, <2>1 DEF Die, Noticed
    <3>2. Noticed => Noticed'
      BY <1>5 DEF Noticed
    <3> QED
      BY <1>5, <3>1, <3>2, NoticeKept DEF daemonLife
  <2>2. CASE ~Running
    BY <1>5, <1>x, <2>2 DEF daemonLife, Running
  <2> QED
    BY <2>1, <2>2
<1>6. ASSUME NEW p \in Pids, Prepare(p) \/ Commit(p) \/ Reject(p)
      PROVE  NoZombieForgotten'
  BY <1>5, <1>6 DEF Prepare, RestoreHandlers, SetDeathSignal, Launch, Commit,
                    SendDataToParent, SendFails, Reject, RejectInvoker, daemonVars,
                    signalVars, States
<1>7. ASSUME NEW p \in Pids, Ends(p)
      PROVE  NoZombieForgotten'
  <2>1. PICK st : Die(p, st)
    BY <1>7 DEF Ends, BoosterCrashes, ApplicationExits
  <2>2. sigPending \subseteq sigPending'
    BY <2>1 DEF Die
  <2> QED
    BY <1>5, <1>7, <2>1, <2>2 DEF Ends, BoosterCrashes, ApplicationExits, daemonVars
<1>8. ASSUME NEW p \in Pids, NEW i \in Invokers, Accept(p, i)
      PROVE  NoZombieForgotten'
  BY <1>5, <1>8 DEF Accept, AcceptInvoker, daemonVars, signalVars, States
<1>9. ASSUME NEW i \in Invokers, Request(i) \/ Lose(i) \/ Kill(i)
      PROVE  NoZombieForgotten'
  <2>1. /\ UNCHANGED <<daemonLife, sigPipe, unvisited>>
        /\ UNCHANGED <<state, sigPending>> \/ \E p \in Pids, st \in Statuses : Die(p, st)
    BY <1>9 DEF Request, Connect, Lose, ConnectionLost, Kill, Interrupt, ServerOf,
                daemonVars, kernelVars, processVars, signalVars, Statuses, DeathSignals
  <2>2. sigPending \subseteq sigPending'
    BY <2>1 DEF Die
  <2> QED
    BY <1>5, <2>1, <2>2
<1>10. ASSUME NEW s \in AdminSignals, Administer(s)
       PROVE  NoZombieForgotten'
  BY <1>5, <1>10 DEF Administer, SignalDaemon, daemonVars, processVars
<1> QED
  BY <1>1, <1>2, <1>3, <1>4, <1>6, <1>7, <1>8, <1>9, <1>10 DEF Next

\* Whatever dies, and whenever: as long as the daemon runs, a dead child is
\* announced by a signal that is not lost, or a pass of reapZombies() will
\* come to it, or a re-exec will begin with such a pass.
THEOREM ZombiesNoticed == Spec => []NoZombieForgotten
<1>1. Init => NoZombieForgotten
  BY DEF Init, KernelInit, NoZombieForgotten
<1> QED
  BY <1>1, ChildInvariant, ZombieStep, PTL DEF Spec

-----------------------------------------------------------------------------
(* The boosters of an old mode or image.                                   *)

\* A booster of this mode and image, that the daemon is not about to leave.
Fresh(p) == pc # "exec" /\ mode[p] = BootMode /\ bornIn[p] = image

\* The daemon will exit when it comes to this signal in the pipe.
Doomed == "SIGTERM" \in RangeOf(sigPipe)

\* A step that makes no booster, and changes neither mode nor image.
LEMMA FreshKept ==
  ASSUME NoStaleBooster, misread => misread', Running' => Running,
         Doomed => Doomed',
         \A p \in Pids : state'[p] \in Uncommitted => state[p] \in Uncommitted,
         UNCHANGED <<mode, bornIn, image, BootMode>>,
         pc' = "exec" => pc = "exec"
  PROVE  NoStaleBooster'
BY DEF NoStaleBooster, Doomed

\* The same for those who do not touch the daemon.
LEMMA OthersKeepFresh ==
  ASSUME NoStaleBooster, UNCHANGED <<misread, pc, m_reExec, m_bootMode, stateFile, sigPipe,
                                     mode, bornIn, image>>,
         \A p \in Pids : state'[p] \in Uncommitted => state[p] \in Uncommitted
  PROVE  NoStaleBooster'
<1>1. UNCHANGED <<BootMode, Running, Doomed>>
  BY DEF BootMode, Restarting, Running, Doomed
<1> QED
  BY <1>1, FreshKept

\* A process that dies is no booster any more.
LEMMA DieUncommits ==
  ASSUME state \in [Pids -> States], NEW p \in Pids, NEW st, Die(p, st)
  PROVE  /\ state'[p] \notin Uncommitted
         /\ \A q \in Pids : state'[q] \in Uncommitted => state[q] \in Uncommitted
BY DEF Die, Uncommitted

\* A booster is forked in the mode and the image of the daemon, and is the only
\* one that can take a request.
LEMMA ForkFresh ==
  ASSUME QueueInv, InStep', NEW procs, NEW children, NEW next \in {"select", "signal", "reap"},
         ForkBooster(procs, children, next), UNCHANGED <<image, m_bootMode>>
  PROVE  NoStaleBooster'
<1>1. CASE DaemonExits("fork", procs)
  BY <1>1 DEF DaemonExits, NoStaleBooster, Running
<1>2. ASSUME NEW p \in Pids, mode' = [mode EXCEPT ![p] = m_bootMode],
             bornIn' = [bornIn EXCEPT ![p] = image], m_boosterPid' = p, pc' = next
      PROVE  NoStaleBooster'
  <2>1. mode \in [Pids -> BOOLEAN] /\ bornIn \in [Pids -> Nat]
    BY DEF QueueInv, TypeOK, KernelTypeOK
  <2>2. Running' /\ BootMode' = m_bootMode' /\ Current' = p
    BY <1>2 DEF Running, BootMode, Current, Restarting, Starting
  <2>3. Fresh(p)'
    BY <1>2, <2>1, <2>2 DEF Fresh
  <2> QED
    BY <2>2, <2>3 DEF NoStaleBooster, InStep, Fresh
<1> QED
  BY <1>1, <1>2 DEF ForkBooster

\* killBoosters() leaves no booster but one that runs the daemon's handler.
LEMMA KillDooms ==
  ASSUME QueueInv, InStep', NEW queue \in Seq(Signals), KillBoosters(queue),
         UNCHANGED m_boosterPid, pc' \in {"select", "exec"}
  PROVE  NoStaleBooster'
<1> SUFFICES ASSUME ~misread', NEW p \in Pids, state'[p] \in Uncommitted
             PROVE  Doomed'
  BY DEF NoStaleBooster, Doomed
<1>t. state \in [Pids -> States]
  BY DEF QueueInv, TypeOK, KernelTypeOK
<1>1. p = m_boosterPid /\ p # NoPid
  BY PidAssumption DEF InStep, Running, Current, Restarting, Starting
<1>2. CASE state[p] = "forked" /\ sigPipe' = Append(queue, "SIGTERM")
  BY <1>2, AppendToPipe DEF Doomed, Signals
<1>3. CASE UNCHANGED state /\ state[p] \in {"zombie", "app"}
  BY <1>3 DEF Uncommitted
<1>4. CASE Die(p, "SIGTERM")
  BY <1>t, <1>4, DieUncommits
<1> QED
  BY <1>1, <1>2, <1>3, <1>4 DEF KillBoosters

\* No step of the launcher leaves a booster of an old mode or image to take a
\* request.
THEOREM StaleStep ==
  QueueInv /\ ChildInv /\ InvokerInv /\ InvokerInv' /\ NoStaleBooster /\ [Next]_vars
    => NoStaleBooster'
<1> SUFFICES ASSUME QueueInv, ChildInv, InvokerInv, InvokerInv', NoStaleBooster, [Next]_vars
             PROVE  NoStaleBooster'
  OBVIOUS
<1>t. /\ state \in [Pids -> States] /\ sigPipe \in Seq(Signals) /\ misread \in BOOLEAN
  BY DEF QueueInv, TypeOK, KernelTypeOK, DaemonTypeOK
<1>s. InStep'
  BY DEF InvokerInv, ConnectionPart
<1>x. ASSUME pc' = "exited" PROVE NoStaleBooster'
  BY <1>x DEF NoStaleBooster, Running
<1>1. CASE UNCHANGED vars
  <2>1. UNCHANGED <<misread, pc, m_reExec, m_bootMode, stateFile, sigPipe, mode, bornIn,
                    image, state>>
    BY <1>1 DEF vars, kernelVars, processVars, signalVars, daemonLife, daemonVars, memory
  <2> QED
    BY <2>1, OthersKeepFresh
<1>2. CASE DaemonRuns
  <2> USE DEF processVars, signalVars, daemonVars, memory, daemonLife
  <2>1. CASE InstallHandlers \/ SetInstance \/ CreateChannels
    <3>1. /\ pc \in Starting /\ pc' \in Starting \cup {"init"} /\ (pc' = "init" => ~m_reExec)
          /\ UNCHANGED <<misread, m_reExec, m_bootMode, stateFile, sigPipe, mode, bornIn,
                         image, state>>
      BY <2>1 DEF InstallHandlers, SetInstance, CreateChannels, Starting
    <3>2. BootMode' = BootMode /\ Running /\ pc' # "exec" /\ (Doomed => Doomed')
      BY <3>1 DEF BootMode, Restarting, Running, Starting, Doomed
    <3> QED
      BY <3>1, <3>2, FreshKept
  <2>2. CASE RestoreState
    <3>1. /\ pc = "instance" /\ pc' = "init" /\ m_bootMode' = stateFile.bootMode /\ m_reExec
          /\ UNCHANGED <<misread, sigPipe, mode, bornIn, image, state>>
      BY <2>2 DEF RestoreState
    <3>2. BootMode' = BootMode /\ Running /\ (Doomed => Doomed')
      BY <3>1 DEF BootMode, Restarting, Running, Starting, Doomed
    <3> QED
      BY <3>1, <3>2, FreshKept
  <2>3. CASE RunFirst
    BY <1>s, <2>3, ForkFresh DEF RunFirst
  <2>4. CASE \/ RunAgain \/ Select \/ EndReap
             \/ \E p \in Pids : VisitLiving(p)
    <3>1. /\ pc \notin Starting /\ pc' \notin Starting \cup {"exec"} /\ Running
          /\ UNCHANGED <<misread, m_bootMode, sigPipe, mode, bornIn, image, state>>
      BY <2>4 DEF RunAgain, Select, EndReap, VisitLiving, Starting, Running
    <3>2. BootMode' = BootMode /\ (Doomed => Doomed')
      BY <3>1 DEF BootMode, Restarting, Doomed
    <3> QED
      BY <3>1, <3>2, FreshKept
  <2>5. CASE ReadFromBoosterSocket
    <3>1. ForkBooster(state, m_children, IF sigReady THEN "signal" ELSE "select")
          /\ UNCHANGED <<image, m_bootMode>>
      BY <2>5 DEF ReadFromBoosterSocket
    <3>2. (IF sigReady THEN "signal" ELSE "select") \in {"select", "signal", "reap"}
      OBVIOUS
    <3> QED
      BY <1>s, <3>1, <3>2, ForkFresh
  <2>6. CASE ReadSigTerm
    BY <1>x, <2>6 DEF ReadSigTerm, DaemonExits
  <2>7. ASSUME NEW s \in Signals, s # "SIGTERM", ReadSignal(s)
        PROVE  /\ pc = "signal" /\ Tail(sigPipe) \in Seq(Signals)
               /\ Doomed => "SIGTERM" \in RangeOf(Tail(sigPipe))
    <3>1. pc = "signal" /\ sigPipe # <<>> /\ Head(sigPipe) # "SIGTERM"
      BY <2>7 DEF ReadSignal, QueueInv, QueuesReady
    <3>2. Tail(sigPipe) \in Seq(Signals)
      BY <1>t, <3>1, HeadTailProperties
    <3> QED
      BY <1>t, <3>1, <3>2, TailOfPipe DEF Doomed
  <2>8. ASSUME NEW s \in Signals, s # "SIGTERM", ReadSignal(s), pc' \in {"select", "reap"},
               sigPipe' = Tail(sigPipe),
               UNCHANGED <<misread, m_bootMode, mode, bornIn, image, state>>
        PROVE  NoStaleBooster'
    <3>1. pc = "signal" /\ (Doomed => Doomed')
      BY <2>7, <2>8 DEF Doomed
    <3>2. BootMode' = BootMode /\ Running
      BY <2>8, <3>1 DEF BootMode, Restarting, Running, Starting
    <3> QED
      BY <2>8, <3>1, <3>2, FreshKept
  <2>9. CASE ReadSigChld
    BY <2>8, <2>9 DEF ReadSigChld, Signals
  <2>10. CASE ReadSigPipe
    BY <2>8, <2>10 DEF ReadSigPipe, Signals
  <2>11. ASSUME NEW s \in {"SIGUSR1", "SIGUSR2"}, NEW boot, ReadModeSignal(s, boot)
         PROVE  NoStaleBooster'
    <3>1. /\ s \in Signals /\ s # "SIGTERM" /\ ReadSignal(s) /\ pc' = "select"
          /\ m_bootMode' = boot /\ UNCHANGED <<misread, m_boosterPid, mode, bornIn, image>>
      BY <2>11 DEF ReadModeSignal, Signals
    <3>2. CASE m_bootMode = boot
      <4>1. sigPipe' = Tail(sigPipe) /\ UNCHANGED state
        BY <2>11, <3>2 DEF ReadModeSignal
      <4> QED
        BY <2>8, <3>1, <3>2, <4>1
    <3>3. CASE m_bootMode # boot
      <4>1. KillBoosters(Tail(sigPipe))
        BY <2>11, <3>3 DEF ReadModeSignal
      <4> QED
        BY <1>s, <2>7, <3>1, <4>1, KillDooms
    <3> QED
      BY <3>2, <3>3
  <2>12. CASE ReadSigHup
    <3>1. /\ "SIGHUP" \in Signals /\ ReadSignal("SIGHUP") /\ pc' = "exec"
          /\ KillBoosters(Tail(sigPipe)) /\ UNCHANGED m_boosterPid
      BY <2>12 DEF ReadSigHup, Signals
    <3> QED
      BY <1>s, <2>7, <3>1, KillDooms
  <2>13. CASE Exec
    <3>1. pc = "exec" /\ UNCHANGED <<misread, state, sigPipe>>
      BY <2>13 DEF Exec
    <3> QED
      BY <3>1 DEF NoStaleBooster, Running
  <2>14. ASSUME NEW p \in Pids, ReapChild(p, StillWaiting)
         PROVE  NoStaleBooster'
    <3> DEFINE reaped == [state EXCEPT ![p] = "free"]
    <3>1. /\ pc = "reap" /\ UNCHANGED <<m_bootMode, image, sigPipe>>
          /\ misread => misread'
      BY <2>14 DEF ReapChild
    <3>2. CASE ForkBooster(reaped, m_children \ {p}, "reap")
      <4> HIDE DEF reaped
      <4> QED
        BY <1>s, <3>1, <3>2, ForkFresh
    <3>3. CASE state' = reaped /\ UNCHANGED <<pc, mode, bornIn>>
      <4>1. \A q \in Pids : state'[q] \in Uncommitted => state[q] \in Uncommitted
        BY <1>t, <3>3 DEF Uncommitted
      <4>2. BootMode' = BootMode /\ Running /\ (Doomed => Doomed')
        BY <3>1, <3>3 DEF BootMode, Restarting, Running, Starting, Doomed
      <4> QED
        BY <3>1, <3>3, <4>1, <4>2, FreshKept
    <3> QED
      BY <2>14, <3>2, <3>3 DEF ReapChild
  <2> QED
    BY <1>2, <2>1, <2>2, <2>3, <2>4, <2>5, <2>6, <2>9, <2>10, <2>11, <2>12, <2>13, <2>14
       DEF DaemonRuns, DaemonStep, EnterNormalMode, EnterBootMode
<1>3. CASE Handler
  <2>1. PICK s \in Signals : DeliverSignal(s) /\ UNCHANGED daemonVars
    BY <1>3 DEF Handler, HandleSignal
  <2>2. CASE pc' = "exited"
    BY <1>x, <2>2
  <2>3. CASE /\ UNCHANGED <<pc, state>>
             /\ sigPipe' = sigPipe \/ sigPipe' = Append(sigPipe, s)
    <3>1. UNCHANGED <<m_reExec, misread, m_bootMode, stateFile, mode, bornIn, image>>
      BY <2>1 DEF DeliverSignal, daemonVars, memory
    <3>2. Doomed => Doomed'
      BY <1>t, <2>3, AppendToPipe DEF Doomed
    <3>3. UNCHANGED <<BootMode, Running>>
      BY <2>3, <3>1 DEF BootMode, Restarting, Running
    <3> QED
      BY <2>3, <3>1, <3>2, <3>3, FreshKept
  <2> QED
    BY <2>1, <2>2, <2>3 DEF DeliverSignal, DaemonExits
<1>4. CASE Failure
  BY <1>4, <1>x
     DEF Failure, DaemonFails, ReadFails, SaveFails, ExecFails, DaemonCrashes, DaemonExits
\* The others make no booster.
<1>5. ASSUME UNCHANGED <<misread, daemonLife, m_bootMode, stateFile, sigPipe, mode, bornIn>>,
             \/ UNCHANGED state
             \/ \E p \in Pids : \/ \E st : Die(p, st)
                                \/ \E to : /\ state' = [state EXCEPT ![p] = to]
                                           /\ to \in Uncommitted => state[p] \in Uncommitted
      PROVE  NoStaleBooster'
  <2>1. \A q \in Pids : state'[q] \in Uncommitted => state[q] \in Uncommitted
    BY <1>t, <1>5, DieUncommits
  <2> QED
    BY <1>5, <2>1, OthersKeepFresh DEF daemonLife
<1>6. ASSUME NEW p \in Pids, Prepare(p) \/ Commit(p) \/ Reject(p)
      PROVE  NoStaleBooster'
  BY <1>5, <1>6 DEF Prepare, RestoreHandlers, SetDeathSignal, Launch, Commit, SendDataToParent,
     SendFails, Reject, RejectInvoker, daemonVars, signalVars, memory, Uncommitted
<1>7. ASSUME NEW p \in Pids, Ends(p)
      PROVE  NoStaleBooster'
  BY <1>5, <1>7 DEF Ends, BoosterCrashes, ApplicationExits, daemonVars, memory
<1>8. ASSUME NEW p \in Pids, NEW i \in Invokers, Accept(p, i)
      PROVE  NoStaleBooster'
  BY <1>5, <1>8 DEF Accept, AcceptInvoker, daemonVars, signalVars, memory, Uncommitted
<1>9. ASSUME NEW i \in Invokers, Request(i) \/ Lose(i) \/ Kill(i)
      PROVE  NoStaleBooster'
  <2>1. /\ UNCHANGED <<misread, daemonLife, m_bootMode, stateFile, sigPipe, mode, bornIn>>
        /\ UNCHANGED state \/ \E p \in Pids : \E st : Die(p, st)
    BY <1>9 DEF Request, Connect, Lose, ConnectionLost, Kill, Interrupt, ServerOf, daemonVars,
       kernelVars, processVars, signalVars, memory
  <2> QED
    BY <1>5, <2>1
<1>10. ASSUME NEW s \in AdminSignals, Administer(s)
       PROVE  NoStaleBooster'
  BY <1>5, <1>10 DEF Administer, daemonVars, processVars, memory
<1> QED
  BY <1>1, <1>2, <1>3, <1>4, <1>6, <1>7, <1>8, <1>9, <1>10 DEF Next

\* Until a message is misattributed no booster of the mode the daemon has left
\* and none of the image it was before execve() can take a request, unless the
\* daemon itself is about to find the SIGTERM it meant for it, and to exit.
THEOREM NoBoosterStale == Spec => []NoStaleBooster
<1>1. Init => NoStaleBooster
  BY DEF Init, KernelInit, NoStaleBooster, Uncommitted
<1>2. QueueInv /\ ChildInv /\ InvokerInv /\ (QueueInv /\ ChildInv /\ InvokerInv)'
        /\ NoStaleBooster /\ [Next]_vars => NoStaleBooster'
  BY StaleStep
<1> QED
  BY <1>1, <1>2, InvokerInvariant, PTL DEF Spec

-----------------------------------------------------------------------------
(* A daemon that sleeps.                                                   *)

\* The daemon waits in select() and nothing is on its way to wake it: no
\* message, no byte in the signal pipe and no SIGCHLD to be handled.
Asleep == pc = "select" /\ launcherSocket = <<>> /\ sigPipe = <<>> /\ "SIGCHLD" \notin sigPending

\* A sleeping daemon has no dead child.
LEMMA AsleepNoZombie ==
  ASSUME NoZombieForgotten, Asleep, NEW p \in Pids
  PROVE  state[p] # "zombie"
BY DEF NoZombieForgotten, Asleep, Running, RangeOf, Starting

\* Nobody waits for a sleeping daemon in vain, who queues for a booster nor
\* who waits for the end of an application: the current booster can take a
\* request, or its own sendmsg() has failed and its application runs, and whoever
\* waits at an open connection has an application that lives, or a booster
\* that is about to become it.
THEOREM NothingOwedAsleep ==
  Spec => [](Asleep =>
    /\ \/ state[Current] \in Uncommitted
       \/ state[Current] \in {"sent", "app"} /\ serves[Current] \in unsent
    /\ ~misread => \A i \in StillWaiting : ConnectionHeld(i) => ServerOf(i) # {})
<1> DEFINE Served == /\ \/ state[Current] \in Uncommitted
                        \/ state[Current] \in {"sent", "app"} /\ serves[Current] \in unsent
                     /\ ~misread => \A i \in StillWaiting : ConnectionHeld(i) => ServerOf(i) # {}
<1>1. ASSUME QueueInv, ChildInv, InvokerInv, NoZombieForgotten, BoosterToCome, NoWaiterForgotten,
             Asleep
      PROVE  Served
  <2>1. Running /\ Started
    BY <1>1 DEF Asleep, Running, Started, Starting
  <2>2. Current \in Pids
    BY <1>1, <2>1 DEF ChildInv, ChildrenTracked, Children, QueueInv, TypeOK, DaemonTypeOK, SavedMemory
  <2>3. \/ state[Current] \in Uncommitted
        \/ state[Current] \in {"sent", "app"} /\ serves[Current] \in unsent
    BY <1>1, <2>1, <2>2, AsleepNoZombie DEF BoosterToCome, Asleep
  <2>4. ASSUME ~misread, NEW i \in StillWaiting, ConnectionHeld(i) PROVE ServerOf(i) # {}
    <3>1. PICK p \in Pids : state[p] # "free" /\ serves[p] = i
      BY <1>1, <2>1, <2>4 DEF NoWaiterForgotten
    <3>2. state[p] \in States /\ state[p] # "zombie" /\ i # NoInvoker
      BY <1>1, AsleepNoZombie, InvokerAssumption DEF QueueInv, TypeOK, KernelTypeOK, StillWaiting
    <3>3. state[p] \in {"serving", "sent", "app"}
      BY <1>1, <3>1, <3>2 DEF InvokerInv, ServicePart, ServiceInv, States
    <3> QED
      BY <3>1, <3>3 DEF ServerOf
  <2> QED
    BY <2>3, <2>4
<1>2. QueueInv /\ ChildInv /\ InvokerInv /\ NoZombieForgotten /\ BoosterToCome /\ NoWaiterForgotten
        => (Asleep => Served)
  BY <1>1
<1> QED
  BY <1>2, InvokerInvariant, ZombiesNoticed, BoosterAlwaysToCome, NoWaiterEverForgotten, PTL

=============================================================================
