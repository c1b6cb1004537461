--------------------------- MODULE WaitLoopProofs ---------------------------
(***************************************************************************)
(* The safety properties of the invoker's wait loop, for any signals, any  *)
(* exit values and any number of signals sent.                             *)
(***************************************************************************)
EXTENDS WaitLoop, SequenceTheorems, TLAPS

\* What sig_forwarder() leaves of the calls under way as it returns.
LEMMA FrontOf ==
  ASSUME NEW S, NEW s \in Seq(S), s # <<>>
  PROVE  /\ SubSeq(s, 1, Len(s) - 1) \in Seq(S)
         /\ Len(SubSeq(s, 1, Len(s) - 1)) = Len(s) - 1
         /\ \A i \in 1 .. Len(s) - 1 : SubSeq(s, 1, Len(s) - 1)[i] = s[i]
         /\ s[Len(s)] \in S
<1>1. Len(s) \in Nat /\ Len(s) # 0 /\ \A i \in 1 .. Len(s) : s[i] \in S
  OBVIOUS
<1>2. \A i \in 1 .. Len(s) - 1 : s[i] \in S
  BY <1>1
<1>3. Len(s) - 1 \in Int /\ (1 <= Len(s) - 1 \/ Len(s) - 1 = 0)
  <2>1. \A n \in Nat : n # 0 => n - 1 \in Int /\ (1 <= n - 1 \/ n - 1 = 0)
    OBVIOUS
  <2> QED
    BY <1>1, <2>1, Zenon
<1>4. /\ SubSeq(s, 1, Len(s) - 1) \in Seq(S)
      /\ Len(SubSeq(s, 1, Len(s) - 1)) = IF 1 <= Len(s) - 1 THEN Len(s) - 1 - 1 + 1 ELSE 0
      /\ \A i \in 1 .. Len(s) - 1 - 1 + 1 : SubSeq(s, 1, Len(s) - 1)[i] = s[1 + i - 1]
  BY <1>2, <1>3, SubSeqProperties
<1>5. Len(SubSeq(s, 1, Len(s) - 1)) = Len(s) - 1
  BY <1>1, <1>3, <1>4
<1>6. \A i \in 1 .. Len(s) - 1 : SubSeq(s, 1, Len(s) - 1)[i] = s[i]
  BY <1>1, <1>4
<1>7. s[Len(s)] \in S
  BY <1>1
<1> QED
  BY <1>4, <1>5, <1>6, <1>7

\* What sig_forwarder() adds to them as it is entered.
LEMMA PushedOn ==
  ASSUME NEW S, NEW s \in Seq(S), NEW e \in S
  PROVE  /\ Append(s, e) \in Seq(S) /\ Append(s, e) # <<>>
         /\ \A x : (\E i \in DOMAIN Append(s, e) : Append(s, e)[i] = x)
                     <=> x = e \/ \E i \in DOMAIN s : s[i] = x
<1>1. /\ Append(s, e) \in Seq(S) /\ Len(Append(s, e)) = Len(s) + 1
      /\ Append(s, e)[Len(s) + 1] = e
      /\ \A i \in 1 .. Len(s) : Append(s, e)[i] = s[i]
  BY AppendProperties
<1>2. DOMAIN s = 1 .. Len(s) /\ Len(s) \in Nat /\ DOMAIN Append(s, e) = 1 .. Len(s) + 1
  BY <1>1
<1> QED
  BY <1>1, <1>2

\* The kernel's view of a signal that is sent keeps to the signals there are.
LEMMA SendTypes ==
  ASSUME NEW sig \in Signals, pending \subseteq Signals, stopped \in BOOLEAN, Send(sig)
  PROVE  pending' \subseteq Signals /\ stopped' \in BOOLEAN
BY DEF Send

LEMMA InitTypes == Init => TypeOK
<1> SUFFICES ASSUME Init PROVE TypeOK
  OBVIOUS
<1>1. inside \in Seq(Signals)
  BY EmptySeq DEF Init
<1>2. signalsLeft \in 0 .. MaxSignals
  BY WaitLoopAssumption DEF Init
<1>3. {status, end, appEnd} \subseteq Ends \cup {"none"} /\ struck \in BOOLEAN
  BY DEF Init
<1>4. app \in AppStates
  BY DEF Init, AppStates
<1> QED
  BY <1>1, <1>2, <1>3, <1>4 DEF Init, TypeOK

-----------------------------------------------------------------------------
\* Every step keeps the types.
LEMMA TypeStep == TypeOK /\ WaitInv /\ [Next]_vars => TypeOK'
<1> SUFFICES ASSUME TypeOK, WaitInv, [Next]_vars PROVE TypeOK'
  OBVIOUS
<1> USE WaitLoopAssumption DEF application, launcher, user, ghosts, DaemonUp
<1>1. CASE Loop
  <2>1. CASE SigsInit
    BY <2>1 DEF SigsInit, Elsewhere, TypeOK
  <2>2. CASE Select
    BY <2>2 DEF Select, Elsewhere, TypeOK
  <2>3. CASE Drain
    BY <2>3 DEF Drain, At, Elsewhere, TypeOK
  <2>4. CASE RecvExit
    BY <2>4 DEF RecvExit, Elsewhere, TypeOK
  <2>5. CASE WakeUp
    BY <2>5 DEF WakeUp, TypeOK
  <2>6. CASE CheckProc
    BY <2>6 DEF CheckProc, Elsewhere, TypeOK, Ends
  <2>7. CASE KillInvoked
    BY <2>7 DEF KillInvoked, KillApp, AppDies, AppAlive, TypeOK, Ends, Signals, AppStates
  <2>8. CASE KillSelf
    BY <2>8 DEF KillSelf, Elsewhere, invoker, TypeOK, Ends, Signals
  <2>9. CASE SigsRestore
    BY <2>9 DEF SigsRestore, Elsewhere, TypeOK
  <2>10. CASE Exit
    BY <2>10 DEF Exit, Elsewhere, invoker, TypeOK
  <2> QED
    BY <1>1, <2>1, <2>2, <2>3, <2>4, <2>5, <2>6, <2>7, <2>8, <2>9, <2>10 DEF Loop
<1>2. CASE Raise
  <2>1. /\ inside' \in Seq(Signals) /\ inside[Len(inside)] \in Signals
    BY <1>2, FrontOf DEF Raise, TypeOK
  <2>2. end' \in Ends \cup {"none"} /\ stopped' \in BOOLEAN
    BY <1>2, <2>1 DEF Raise, DefaultAction, TypeOK, Ends
  <2> QED
    BY <1>2, <2>1, <2>2 DEF Raise, TypeOK
<1>3. ASSUME NEW sig \in Signals, Forward(sig) PROVE TypeOK'
  <2>1. inside' \in Seq(Signals)
    BY <1>3, PushedOn DEF Forward, TypeOK
  <2> QED
    BY <1>3, <2>1 DEF Forward, KillApp, AppAlive, TypeOK, Ends
<1>4. ASSUME NEW sig \in Signals, TakeByDefault(sig) PROVE TypeOK'
  BY <1>4 DEF TakeByDefault, DefaultAction, invoker, TypeOK, Ends
<1>5. CASE SendDataToParent \/ SendFails \/ Launch
  BY <1>5 DEF SendDataToParent, SendFails, Launch, invoker, TypeOK, AppStates
<1>6. ASSUME NEW value \in ExitStatuses, RejectInvoker(value) PROVE TypeOK'
  BY <1>6 DEF RejectInvoker, invoker, TypeOK, AppStates, Ends
<1>7. ASSUME NEW how \in ExitStatuses \cup Signals, AppEnds(how) PROVE TypeOK'
  BY <1>7 DEF AppEnds, AppDies, invoker, TypeOK, AppStates, Ends
<1>8. CASE DaemonWaits \/ DaemonReports
  BY <1>8 DEF DaemonWaits, DaemonReports, invoker, TypeOK, AppStates
<1>9. CASE DaemonKills
  <2>1. appEnd \in Signals
    BY <1>9 DEF DaemonKills, WaitInv, ConnectionInv
  <2>2. pending' \subseteq Signals /\ stopped' \in BOOLEAN
    BY <1>9, <2>1, SendTypes DEF DaemonKills, TypeOK
  <2> QED
    BY <1>9, <2>2 DEF DaemonKills, invoker, TypeOK
<1>10. CASE DaemonDies
  BY <1>10 DEF DaemonDies, invoker, TypeOK, AppStates, Ends, Signals
<1>11. CASE InitReaps
  BY <1>11 DEF InitReaps, invoker, TypeOK, AppStates
<1>12. ASSUME NEW sig \in UserSignals, UserSends(sig) PROVE TypeOK'
  <2>1. pending' \subseteq Signals /\ stopped' \in BOOLEAN
    BY <1>12, SendTypes DEF UserSends, TypeOK, Signals
  <2> QED
    BY <1>12, <2>1 DEF UserSends, invoker, TypeOK
<1>13. CASE UNCHANGED vars
  BY <1>13 DEF vars, invoker, TypeOK
<1> QED
  BY <1>1, <1>2, <1>3, <1>4, <1>5, <1>6, <1>7, <1>8, <1>9, <1>10, <1>11, <1>12, <1>13
  DEF Next, Handle, BoosterRuns, DaemonRuns

-----------------------------------------------------------------------------
(* What can be on its way to the invoker.                                  *)

\* A step that neither sends nor takes a signal leaves what is on its way.
LEMMA NothingOnItsWay ==
  ASSUME UNCHANGED <<pending, inside>>
  PROVE  \A sig : OnItsWay(sig)' <=> OnItsWay(sig)
BY DEF OnItsWay

\* A signal that can end a process is cancelled by no other.
LEMMA SendKeeps ==
  ASSUME NEW sig, Send(sig), end = "none", inside' = inside
  PROVE  /\ OnItsWay(sig)'
         /\ \A other : Fatal(other) /\ OnItsWay(other) => OnItsWay(other)'
         /\ \A other : OnItsWay(other)' => other = sig \/ OnItsWay(other)
BY DEF Send, OnItsWay, Fatal, Harmless

\* A signal that is passed on goes from the pending ones to the calls.
LEMMA ForwardKeeps ==
  ASSUME TypeOK, NEW sig \in Signals, Forward(sig)
  PROVE  \A other : OnItsWay(other)' <=> OnItsWay(other)
<1>1. sig \in pending /\ inside \in Seq(Signals)
  BY DEF Forward, Deliverable, TypeOK
<1>2. pending' = pending \ {sig} /\ inside' = Append(inside, sig)
  BY DEF Forward
<1>3. \A x : (\E i \in DOMAIN inside' : inside'[i] = x)
               <=> x = sig \/ \E i \in DOMAIN inside : inside[i] = x
  BY <1>1, <1>2, PushedOn
<1> QED
  BY <1>1, <1>2, <1>3 DEF OnItsWay

\* The end of a call takes one signal away, and nothing else.
LEMMA RaiseKeeps ==
  ASSUME TypeOK, Raise
  PROVE  /\ inside[Len(inside)] \in Signals /\ OnItsWay(inside[Len(inside)])
         /\ \A other : OnItsWay(other)' => OnItsWay(other)
         /\ \A other : OnItsWay(other) => OnItsWay(other)' \/ other = inside[Len(inside)]
<1>1. inside \in Seq(Signals) /\ inside # <<>> /\ pending' = pending
      /\ inside' = SubSeq(inside, 1, Len(inside) - 1)
  BY DEF Raise, TypeOK
<1>2. /\ inside' \in Seq(Signals) /\ Len(inside') = Len(inside) - 1
      /\ \A i \in 1 .. Len(inside) - 1 : inside'[i] = inside[i]
      /\ inside[Len(inside)] \in Signals
  BY <1>1, FrontOf
<1>3. /\ DOMAIN inside = 1 .. Len(inside) /\ DOMAIN inside' = 1 .. Len(inside) - 1
      /\ Len(inside) \in Nat \ {0}
  BY <1>1, <1>2
<1>4. Len(inside) \in DOMAIN inside /\ DOMAIN inside' \subseteq DOMAIN inside
  BY <1>3
<1>5. \A i \in DOMAIN inside' : inside'[i] = inside[i]
  BY <1>2, <1>3
<1>6. \A i \in DOMAIN inside : i \in DOMAIN inside' \/ i = Len(inside)
  BY <1>3
<1> QED
  BY <1>1, <1>2, <1>4, <1>5, <1>6 DEF OnItsWay

\* While the loop runs no deadly signal is on its way: it would be taken first.
LEMMA LoopUndisturbed ==
  ASSUME NEW p, At(p), NEW sig, OnItsWay(sig)
  PROVE  FALSE
BY DEF At, OnItsWay, Deliverable

-----------------------------------------------------------------------------
(* The inductive step, first the one of the invoker itself.                *)

\* Who kills an orphan has seen an end of file.
LEMMA OrphanKilled ==
  ASSUME ConnectionInv, pc \in {"pause", "check", "kill"} => conn = "eof"
  PROVE  OnlyOrphansKilled
BY DEF ConnectionInv, OnlyOrphansKilled

\* A step of the loop that touches neither signals nor the application.  With no
\* signal on its way an end of file is unreported, or the daemon is just about
\* to kill and the pause is over too soon.
LEMMA LoopKeeps ==
  ASSUME TypeOK, TypeOK', WaitInv,
         SigsInit \/ Select \/ Drain \/ RecvExit \/ WakeUp \/ CheckProc \/ SigsRestore
  PROVE  WaitInv'
<1>1. /\ UNCHANGED <<inside, pending, app, appEnd, conn, handed, daemon, asked, end>>
      /\ inside = <<>> /\ end = "none" /\ end' = "none"
  BY DEF SigsInit, Select, Drain, RecvExit, WakeUp, CheckProc, SigsRestore, At, Elsewhere,
     application, launcher, user
<1>2. \A sig : ~OnItsWay(sig) /\ ~OnItsWay(sig)'
  <2>1. \A sig : ~OnItsWay(sig)
    BY LoopUndisturbed DEF SigsInit, Select, Drain, RecvExit, WakeUp, CheckProc, SigsRestore
  <2> QED
    BY <1>1, <2>1 DEF OnItsWay
<1>3. conn = "eof" => Unreported \/ daemon = "kills"
  BY <1>1, <1>2 DEF WaitInv
<1>4. /\ Unreported => Unreported'
      /\ WakeUp /\ daemon = "kills" => Unreported'
  <2>1. /\ late => late'
        /\ WakeUp /\ daemon = "kills" => late'
    <3>1. CASE WakeUp
      BY <3>1, Zenon DEF WakeUp
    <3>2. CASE ~WakeUp
      BY <3>2 DEF SigsInit, Select, Drain, RecvExit, CheckProc, SigsRestore, Elsewhere, ghosts
    <3> QED
      BY <3>1, <3>2
  <2> QED
    BY <1>1, <2>1 DEF Unreported, DaemonUp
<1>5. ForwardsAgain'
  BY <1>1 DEF ForwardsAgain, SigsInit, Select, Drain, RecvExit, WakeUp, CheckProc, SigsRestore,
     WaitInv
<1>6. EndsAsApplication' /\ AppEndKnown' /\ ConnectionInv'
  BY <1>1 DEF EndsAsApplication, AppEndKnown, ConnectionInv, DaemonUp, AppAlive, WaitInv
<1>7. /\ pc' = "receive" => conn' \in {"exit", "eof"}
      /\ pc' \in {"pause", "check", "kill", "raise"} => conn' = "eof"
      /\ pc' = "raise" => ~AppAlive'
  BY <1>1 DEF WaitInv, AppAlive, At, SigsInit, Select, Drain, RecvExit, WakeUp, CheckProc,
     SigsRestore
<1>8. pc' \in {"check", "kill", "raise"} => Unreported'
  BY <1>1, <1>3, <1>4 DEF WaitInv, At, SigsInit, Select, Drain, RecvExit, WakeUp, CheckProc,
     SigsRestore
<1>9. pc' \in {"leave", "exit"} =>
        ~AppAlive' /\ (status' = appEnd' \/ (Unreported' /\ status' = "EXIT_FAILURE"))
  <2>1. CASE RecvExit
    BY <1>1, <2>1 DEF RecvExit, At, WaitInv, ConnectionInv, AppAlive
  <2>2. CASE CheckProc
    BY <1>1, <1>4, <2>2 DEF CheckProc, At, WaitInv, AppAlive
  <2>3. CASE SigsRestore
    BY <1>1, <1>4, <2>3 DEF SigsRestore, At, WaitInv, AppAlive
  <2>4. CASE SigsInit \/ Select \/ Drain \/ WakeUp
    BY <2>4 DEF SigsInit, Select, Drain, WakeUp
  <2> QED
    BY <2>1, <2>2, <2>3, <2>4
<1>10. OnlyOrphansKilled'
  BY <1>6, <1>7, OrphanKilled DEF OnlyOrphansKilled, ConnectionInv, AppAlive, DaemonUp
<1> QED
  BY <1>1, <1>2, <1>3, <1>4, <1>5, <1>6, <1>7, <1>8, <1>9, <1>10 DEF WaitInv

\* What a step that leaves the loop and the connection alone does not disturb.
LEMMA SignalKeeps ==
  ASSUME TypeOK, WaitInv,
         UNCHANGED <<pc, status, app, appEnd, conn, handed, daemon, asked, late>>,
         ForwardsAgain', EndsAsApplication',
         \A sig : OnItsWay(sig)' => OnItsWay(sig),
         end' = "none" => end = "none" /\ \A sig : Fatal(sig) /\ OnItsWay(sig) => OnItsWay(sig)'
  PROVE  WaitInv'
BY DEF WaitInv, OnlyOrphansKilled, AppEndKnown, ConnectionInv, AppAlive, DaemonUp, Unreported

\* A signal passed on does not kill the application at once.
LEMMA ForwardStep ==
  ASSUME TypeOK, WaitInv, NEW sig \in Signals, Forward(sig)
  PROVE  WaitInv'
<1>1. \A other : OnItsWay(other)' <=> OnItsWay(other)
  BY ForwardKeeps
<1>2. UNCHANGED <<pc, status, end, app, appEnd, conn, handed, daemon, asked, late>>
  BY DEF Forward, KillApp, user
<1>3. ForwardsAgain'
  <2>1. inside' # <<>>
    BY PushedOn DEF Forward, TypeOK
  <2> QED
    BY <2>1 DEF ForwardsAgain
<1>4. EndsAsApplication'
  BY <1>2 DEF WaitInv, EndsAsApplication, AppAlive, DaemonUp, Unreported
<1> QED
  BY <1>1, <1>2, <1>3, <1>4, SignalKeeps

\* As the forwarder returns a deadly signal ends the invoker, and a byte is in
\* the pipe for the loop.
LEMMA RaiseStep ==
  ASSUME TypeOK, WaitInv, Raise
  PROVE  WaitInv'
<1> DEFINE sig == inside[Len(inside)]
<1>1. /\ sig \in Signals /\ OnItsWay(sig)
      /\ \A other : OnItsWay(other)' => OnItsWay(other)
      /\ \A other : OnItsWay(other) => OnItsWay(other)' \/ other = sig
  BY RaiseKeeps
<1>2. /\ UNCHANGED <<pc, status, app, appEnd, conn, handed, daemon, asked, late>>
      /\ pipe' = pipe + 1 /\ end = "none"
  BY DEF Raise, application, launcher, user, ghosts
<1>3. end' = IF Fatal(sig) THEN sig ELSE "none"
  BY DEF Raise, DefaultAction
<1> HIDE DEF sig
<1>4. ForwardsAgain'
  BY <1>2 DEF ForwardsAgain, TypeOK
<1>5. EndsAsApplication'
  BY <1>1, <1>2, <1>3 DEF EndsAsApplication, AppAlive, WaitInv
<1>6. sig # "none"
  BY <1>1, WaitLoopAssumption
<1>7. end' = "none" => \A other : Fatal(other) /\ OnItsWay(other) => OnItsWay(other)'
  BY <1>1, <1>3, <1>6
<1> QED
  BY <1>1, <1>2, <1>4, <1>5, <1>7, SignalKeeps

\* A signal taken by default, likewise.
LEMMA DefaultStep ==
  ASSUME TypeOK, WaitInv, NEW sig \in Signals, TakeByDefault(sig)
  PROVE  WaitInv'
<1>1. /\ UNCHANGED <<pc, status, handlers, inside, pipe>>
      /\ UNCHANGED <<app, appEnd, conn, handed, daemon, asked, late>>
      /\ sig \in pending /\ pending' = pending \ {sig}
      /\ end = "none" /\ end' = IF Fatal(sig) THEN sig ELSE "none"
  BY DEF TakeByDefault, DefaultAction, Deliverable, invoker, application, launcher, user
<1>2. /\ OnItsWay(sig)
      /\ \A other : OnItsWay(other)' => OnItsWay(other)
      /\ \A other : OnItsWay(other) => OnItsWay(other)' \/ other = sig
  BY <1>1 DEF OnItsWay
<1>3. EndsAsApplication'
  BY <1>1, <1>2 DEF EndsAsApplication, AppAlive, WaitInv
<1>4. ForwardsAgain'
  BY <1>1 DEF ForwardsAgain, WaitInv
<1>5. end' = "none" => \A other : Fatal(other) /\ OnItsWay(other) => OnItsWay(other)'
  BY <1>1, <1>2, WaitLoopAssumption
<1> QED
  BY <1>1, <1>2, <1>3, <1>4, <1>5, SignalKeeps

\* The kill of the application, and the two ends of the invoker that are its own
\* doing.
LEMMA EndStep ==
  ASSUME TypeOK, WaitInv, KillInvoked \/ KillSelf \/ Exit
  PROVE  WaitInv'
<1>1. UNCHANGED <<inside, pending, handlers, pipe, status, handed, daemon, asked, late>>
  BY DEF KillInvoked, KillSelf, Exit, Elsewhere, invoker, launcher, user, ghosts
<1>2. \A sig : ~OnItsWay(sig) /\ ~OnItsWay(sig)'
  <2>1. \A sig : ~OnItsWay(sig)
    BY LoopUndisturbed DEF KillInvoked, KillSelf, Exit
  <2> QED
    BY <1>1, <2>1 DEF OnItsWay
<1>3. Unreported' <=> Unreported
  BY <1>1 DEF Unreported, DaemonUp
<1>4. CASE KillInvoked
  <2>1. /\ pc = "kill" /\ pc' = "raise" /\ end = "none" /\ end' = "none"
        /\ Unreported /\ conn = "eof"
    BY <1>4 DEF KillInvoked, At, WaitInv
  <2>2. ~AppAlive' /\ conn' = "eof" /\ appEnd' = IF AppAlive THEN "SIGKILL" ELSE appEnd
    <3>1. CASE AppAlive
      BY <1>4, <2>1, <3>1 DEF KillInvoked, KillApp, AppDies, AppAlive
    <3>2. CASE ~AppAlive
      BY <1>4, <2>1, <3>2 DEF KillInvoked, KillApp, AppAlive
    <3> QED
      BY <3>1, <3>2
  <2>3. Fatal("SIGKILL") /\ "SIGKILL" \in Signals
    BY DEF Fatal, Stops, Harmless, Signals
  <2>4. ConnectionInv' /\ AppEndKnown'
    BY <1>1, <2>1, <2>2, <2>3 DEF WaitInv, ConnectionInv, AppEndKnown, AppAlive, DaemonUp
  <2> QED
    BY <1>1, <1>2, <1>3, <2>1, <2>2, <2>4 DEF WaitInv, ForwardsAgain, OnlyOrphansKilled,
       EndsAsApplication
<1>5. CASE KillSelf \/ Exit
  <2>1. /\ UNCHANGED <<pc, app, appEnd, conn>>
        /\ conn = "eof" => Unreported \/ daemon = "kills"
    BY <1>2, <1>5 DEF KillSelf, Exit, Elsewhere, invoker, application, launcher, At, WaitInv
  <2>2. EndsAsApplication'
    BY <1>1, <1>3, <1>5, <2>1 DEF EndsAsApplication, KillSelf, Exit, At, WaitInv, AppAlive
  <2> QED
    BY <1>1, <1>2, <1>3, <2>1, <2>2 DEF WaitInv, ForwardsAgain, OnlyOrphansKilled,
       AppEndKnown, ConnectionInv, AppAlive, DaemonUp
<1> QED
  BY <1>4, <1>5

-----------------------------------------------------------------------------
(* The steps of the others.                                                *)

\* What they may do to the invoker: an application has ended for good, a
\* connection that is closed stays closed, and an invoker to which nothing is
\* reported remains one.
EndIsFinal == ~AppAlive => ~AppAlive' /\ appEnd' = appEnd /\ (Unreported => Unreported')
LEMMA OthersKeep ==
  ASSUME TypeOK, WaitInv,
         UNCHANGED <<pc, handlers, inside, pipe, status, end>>, asked \subseteq asked',
         EndIsFinal,
         conn \in {"exit", "eof"} => conn' = conn /\ (Unreported => Unreported'),
         AppEndKnown', ConnectionInv',
         conn' = "eof" /\ end = "none" =>
           \/ Unreported' \/ daemon' = "kills"
           \/ \E sig \in Signals : Fatal(sig) /\ OnItsWay(sig)',
         \A sig \in Signals : Fatal(sig) /\ OnItsWay(sig)' =>
           sig \in asked' \/ (~AppAlive' /\ sig = appEnd')
  PROVE  WaitInv'
<1>1. ForwardsAgain'
  BY DEF WaitInv, ForwardsAgain
<1>2. EndsAsApplication'
  BY DEF WaitInv, EndsAsApplication, AppEndKnown, EndIsFinal
<1>3. /\ pc' = "receive" => conn' \in {"exit", "eof"}
      /\ pc' \in {"pause", "check", "kill", "raise"} => conn' = "eof"
      /\ pc' \in {"check", "kill", "raise"} => Unreported'
      /\ pc' = "raise" => ~AppAlive'
  BY DEF WaitInv, EndIsFinal
<1>4. OnlyOrphansKilled'
  BY <1>3 DEF OnlyOrphansKilled, ConnectionInv
<1>5. pc' \in {"leave", "exit"} =>
        ~AppAlive' /\ (status' = appEnd' \/ (Unreported' /\ status' = "EXIT_FAILURE"))
  BY DEF WaitInv, EndIsFinal
<1> QED
  BY <1>1, <1>2, <1>3, <1>4, <1>5 DEF WaitInv

\* The booster: the connection is handed on, or lost as its copy is closed.
LEMMA BoosterStep ==
  ASSUME TypeOK, WaitInv, BoosterRuns
  PROVE  WaitInv'
<1>1. /\ UNCHANGED <<pc, handlers, inside, pipe, status, end, pending, asked, daemon, late>>
      /\ AppAlive /\ appEnd = "none"
  BY DEF BoosterRuns, SendDataToParent, SendFails, Launch, RejectInvoker, invoker, user, ghosts,
     AppAlive, WaitInv, AppEndKnown
<1>2. \A sig : OnItsWay(sig)' <=> OnItsWay(sig)
  BY <1>1 DEF OnItsWay
<1>3. AppEndKnown' /\ ConnectionInv'
  <2>1. CASE SendDataToParent \/ SendFails
    BY <1>1, <2>1 DEF SendDataToParent, SendFails, WaitInv, AppEndKnown, ConnectionInv, AppAlive,
       DaemonUp
  <2>2. CASE Launch
    BY <1>1, <2>2 DEF Launch, WaitInv, AppEndKnown, ConnectionInv, AppAlive, DaemonUp, TypeOK
  <2>3. ASSUME NEW value \in ExitStatuses, RejectInvoker(value)
        PROVE  AppEndKnown' /\ ConnectionInv'
    BY <1>1, <2>3 DEF RejectInvoker, WaitInv, AppEndKnown, ConnectionInv, AppAlive, DaemonUp
  <2> QED
    BY <2>1, <2>2, <2>3 DEF BoosterRuns
<1>4. conn \in {"exit", "eof"} => conn' = conn /\ (Unreported => Unreported')
  BY <1>1 DEF BoosterRuns, SendDataToParent, SendFails, Launch, RejectInvoker, WaitInv,
     ConnectionInv, AppAlive, Unreported, DaemonUp
<1>5. conn' = "eof" => Unreported'
  BY <1>1 DEF BoosterRuns, SendDataToParent, SendFails, Launch, RejectInvoker, WaitInv,
     ConnectionInv, AppAlive, Unreported, DaemonUp
<1>6. \A sig \in Signals : Fatal(sig) /\ OnItsWay(sig)' => sig \in asked'
  BY <1>1, <1>2 DEF WaitInv
<1> QED
  BY <1>1, <1>3, <1>4, <1>5, <1>6, OthersKeep DEF EndIsFinal

\* The end of the application or of the booster, by itself.
LEMMA AppEndsStep ==
  ASSUME TypeOK, WaitInv, NEW how \in ExitStatuses \cup Signals, AppEnds(how)
  PROVE  WaitInv'
<1>1. /\ UNCHANGED <<pc, handlers, inside, pipe, status, end, pending, asked, handed, daemon, late>>
      /\ AppAlive /\ ~AppAlive' /\ app' = "zombie" /\ appEnd' = how
      /\ conn' = IF conn = "booster" THEN "eof" ELSE conn
  BY DEF AppEnds, AppDies, AppAlive, invoker, user, ghosts
<1>2. \A sig : OnItsWay(sig)' <=> OnItsWay(sig)
  BY <1>1 DEF OnItsWay
<1>3. how \in ExitStatuses \/ (how \in Signals /\ Fatal(how))
  BY WaitLoopAssumption DEF AppEnds
<1>4. AppEndKnown' /\ ConnectionInv'
  BY <1>1, <1>3 DEF WaitInv, AppEndKnown, ConnectionInv, DaemonUp
<1>5. conn' = "eof" => Unreported'
  BY <1>1 DEF WaitInv, ConnectionInv, Unreported, DaemonUp
<1>6. conn \in {"exit", "eof"} => conn' = conn /\ (Unreported => Unreported')
  BY <1>1 DEF Unreported, DaemonUp
<1>7. \A sig \in Signals : Fatal(sig) /\ OnItsWay(sig)' => sig \in asked'
  BY <1>1, <1>2 DEF WaitInv
<1> QED
  BY <1>1, <1>4, <1>5, <1>6, <1>7, OthersKeep DEF EndIsFinal

\* The daemon waits for the child and reports its end.  Between its close() and
\* its kill() the invoker has an end of file and no signal on its way.
LEMMA ReportStep ==
  ASSUME TypeOK, WaitInv, DaemonWaits \/ DaemonReports
  PROVE  WaitInv'
<1>1. /\ UNCHANGED <<pc, handlers, inside, pipe, status, end, pending, asked, appEnd, handed, late>>
      /\ ~AppAlive /\ ~AppAlive' /\ DaemonUp /\ DaemonUp'
  BY DEF DaemonWaits, DaemonReports, WaitInv, ConnectionInv, AppAlive, DaemonUp, invoker,
     application, user, ghosts
<1>2. \A sig : OnItsWay(sig)' <=> OnItsWay(sig)
  BY <1>1 DEF OnItsWay
<1>3. appEnd \in ExitStatuses \/ appEnd \in Signals
  BY <1>1 DEF WaitInv, AppEndKnown
<1>4. AppEndKnown' /\ ConnectionInv'
  <2>1. CASE DaemonWaits
    BY <1>1, <2>1 DEF DaemonWaits, WaitInv, AppEndKnown, ConnectionInv, DaemonUp
  <2>2. CASE DaemonReports
    BY <1>1, <1>3, <2>2 DEF DaemonReports, WaitInv, AppEndKnown, ConnectionInv, DaemonUp,
       application, AppAlive
  <2> QED
    BY <2>1, <2>2
<1>5. Unreported' <=> Unreported
  BY <1>1 DEF Unreported
<1>6. /\ conn \in {"exit", "eof"} => conn' = conn
      /\ conn' = "eof" => daemon' = "kills" \/ (conn = "eof" /\ daemon # "kills")
  BY DEF DaemonWaits, DaemonReports, WaitInv, ConnectionInv
<1>7. conn' = "eof" /\ end = "none" =>
        \/ Unreported' \/ daemon' = "kills"
        \/ \E sig \in Signals : Fatal(sig) /\ OnItsWay(sig)'
  BY <1>2, <1>5, <1>6 DEF WaitInv
<1>8. \A sig \in Signals : Fatal(sig) /\ OnItsWay(sig)' =>
        sig \in asked' \/ (~AppAlive' /\ sig = appEnd')
  BY <1>1, <1>2 DEF WaitInv
<1> QED
  BY <1>1, <1>4, <1>5, <1>6, <1>7, <1>8, OthersKeep DEF EndIsFinal

\* The kill(): from now on the signal that killed the application is on its way.
LEMMA KillStep ==
  ASSUME TypeOK, WaitInv, DaemonKills
  PROVE  WaitInv'
<1>1. /\ UNCHANGED <<pc, handlers, inside, pipe, status, end, asked, app, appEnd, conn, handed, late>>
      /\ ~AppAlive /\ ~AppAlive' /\ daemon' = "idle" /\ conn = "eof"
      /\ appEnd \in Signals /\ Fatal(appEnd) /\ Send(appEnd) /\ DaemonUp /\ DaemonUp'
  BY WaitLoopAssumption DEF DaemonKills, WaitInv, ConnectionInv, AppEndKnown, AppAlive, DaemonUp,
     invoker, application, user, ghosts
<1>2. AppEndKnown' /\ ConnectionInv'
  BY <1>1 DEF WaitInv, AppEndKnown, ConnectionInv
<1>3. Unreported' <=> Unreported
  BY <1>1 DEF Unreported
<1>4. /\ \A sig \in Signals : Fatal(sig) /\ OnItsWay(sig)' =>
           sig \in asked' \/ (~AppAlive' /\ sig = appEnd')
      /\ end = "none" => \E sig \in Signals : Fatal(sig) /\ OnItsWay(sig)'
  <2>1. CASE end = "none"
    BY <1>1, <2>1, SendKeeps DEF WaitInv
  <2>2. CASE end # "none"
    BY <1>1, <2>2 DEF WaitInv, Send, OnItsWay
  <2> QED
    BY <2>1, <2>2
<1> QED
  BY <1>1, <1>2, <1>3, <1>4, OthersKeep DEF EndIsFinal

\* The daemon's death, of which a booster may die, and what becomes of the pid of
\* the application.
LEMMA DeathStep ==
  ASSUME TypeOK, WaitInv, DaemonDies \/ InitReaps
  PROVE  WaitInv'
<1>1. /\ UNCHANGED <<pc, handlers, inside, pipe, status, end, pending, asked, handed, late>>
      /\ ~AppAlive => ~AppAlive' /\ appEnd' = appEnd
  BY DEF DaemonDies, InitReaps, AppAlive, invoker, launcher, user, ghosts
<1>2. \A sig : OnItsWay(sig)' <=> OnItsWay(sig)
  BY <1>1 DEF OnItsWay
<1>3. Fatal("SIGHUP") /\ "SIGHUP" \in Signals
  BY DEF Fatal, Stops, Harmless, Signals
<1>4. AppEndKnown' /\ ConnectionInv'
  <2>1. CASE DaemonDies
    BY <1>1, <1>3, <2>1 DEF DaemonDies, WaitInv, AppEndKnown, ConnectionInv, AppAlive, DaemonUp,
       TypeOK
  <2>2. CASE InitReaps
    BY <1>1, <2>2 DEF InitReaps, WaitInv, AppEndKnown, ConnectionInv, AppAlive, DaemonUp, launcher
  <2> QED
    BY <2>1, <2>2
<1>5. Unreported => Unreported'
  BY <1>1 DEF Unreported, DaemonUp, DaemonDies, InitReaps, launcher
<1>6. conn \in {"exit", "eof"} => conn' = conn
  BY DEF DaemonDies, InitReaps, launcher, WaitInv, ConnectionInv, AppAlive
<1>7. conn' = "eof" /\ end = "none" =>
        \/ Unreported' \/ daemon' = "kills"
        \/ \E sig \in Signals : Fatal(sig) /\ OnItsWay(sig)'
  BY <1>1, <1>2 DEF DaemonDies, InitReaps, launcher, Unreported, DaemonUp, WaitInv
<1>8. \A sig \in Signals : Fatal(sig) /\ OnItsWay(sig)' =>
        sig \in asked' \/ (~AppAlive' /\ sig = appEnd')
  BY <1>1, <1>2 DEF WaitInv
<1> QED
  BY <1>1, <1>4, <1>5, <1>6, <1>7, <1>8, OthersKeep DEF EndIsFinal

\* A signal from the user is one that was asked for.
LEMMA UserStep ==
  ASSUME TypeOK, WaitInv, NEW sig \in UserSignals, UserSends(sig)
  PROVE  WaitInv'
<1>1. /\ UNCHANGED <<pc, handlers, inside, pipe, status, end, app, appEnd, conn, handed, daemon>>
      /\ late' = late /\ Send(sig) /\ end = "none" /\ asked' = asked \cup {sig}
  BY DEF UserSends, invoker, application, launcher, ghosts
<1>2. /\ \A other : Fatal(other) /\ OnItsWay(other) => OnItsWay(other)'
      /\ \A other : OnItsWay(other)' => other = sig \/ OnItsWay(other)
  BY <1>1, SendKeeps
<1>3. AppEndKnown' /\ ConnectionInv' /\ (AppAlive' <=> AppAlive) /\ (Unreported' <=> Unreported)
  BY <1>1 DEF WaitInv, AppEndKnown, ConnectionInv, AppAlive, DaemonUp, Unreported
<1>4. conn' = "eof" /\ end = "none" =>
        \/ Unreported' \/ daemon' = "kills"
        \/ \E other \in Signals : Fatal(other) /\ OnItsWay(other)'
  BY <1>1, <1>2, <1>3 DEF WaitInv
<1>5. \A other \in Signals : Fatal(other) /\ OnItsWay(other)' =>
        other \in asked' \/ (~AppAlive' /\ other = appEnd')
  BY <1>1, <1>2, <1>3 DEF WaitInv
<1> QED
  BY <1>1, <1>3, <1>4, <1>5, OthersKeep DEF EndIsFinal

-----------------------------------------------------------------------------
(* The theorems.                                                           *)

\* The inductive invariant holds at every instant: whatever interrupts the loop
\* of wait_for_launched_process_to_exit(), and although the daemon closes the
\* connection before it kills (daemon.cpp:485-489) and a booster may die, or its
\* sendmsg() fail, before the daemon has the connection.
THEOREM WaitInvariant == Spec => [](TypeOK /\ WaitInv)
<1>1. Init => TypeOK /\ WaitInv
  <2>1. Init => WaitInv
    BY DEF Init, WaitInv, ForwardsAgain, EndsAsApplication, OnlyOrphansKilled, ConnectionInv,
       AppEndKnown, AppAlive, OnItsWay
  <2> QED
    BY <2>1, InitTypes
<1>2. TypeOK /\ WaitInv /\ [Next]_vars => TypeOK' /\ WaitInv'
  <2> SUFFICES ASSUME TypeOK, WaitInv, [Next]_vars PROVE TypeOK' /\ WaitInv'
    OBVIOUS
  <2>1. TypeOK'
    BY TypeStep
  <2>2. CASE Loop
    BY <2>1, <2>2, LoopKeeps, EndStep DEF Loop
  <2>3. CASE Handle
    BY <2>1, <2>3, RaiseStep, ForwardStep, DefaultStep DEF Handle
  <2>4. CASE BoosterRuns
    BY <2>1, <2>4, BoosterStep
  <2>5. CASE DaemonRuns
    BY <2>1, <2>5, ReportStep, KillStep DEF DaemonRuns
  <2>6. ASSUME NEW how \in ExitStatuses \cup Signals, AppEnds(how) PROVE WaitInv'
    BY <2>6, AppEndsStep
  <2>7. CASE DaemonDies \/ InitReaps
    BY <2>1, <2>7, DeathStep
  <2>8. ASSUME NEW sig \in UserSignals, UserSends(sig) PROVE WaitInv'
    BY <2>8, UserStep
  <2>9. CASE UNCHANGED vars
    BY <2>1, <2>9 DEF vars, invoker, application, launcher, user, ghosts, WaitInv, ForwardsAgain,
       EndsAsApplication, OnlyOrphansKilled, AppEndKnown, ConnectionInv, AppAlive, DaemonUp,
       Unreported, OnItsWay
  <2> QED
    BY <2>1, <2>2, <2>3, <2>4, <2>5, <2>6, <2>7, <2>8, <2>9 DEF Next
<1> QED
  BY <1>1, <1>2, PTL DEF Spec

\* limitations.dox:90-92: the invoker ends as its application did, unless its
\* user killed it or nothing was reported to it: the daemon is dead, the booster
\* has not handed its connection on, or the pause of 2 s was over between the
\* daemon's close() and its kill().  Then no application is left.
THEOREM InvokerEndsAsApplication == Spec => []EndsAsApplication
<1>1. TypeOK /\ WaitInv => EndsAsApplication
  BY DEF WaitInv
<1> QED
  BY <1>1, WaitInvariant, PTL

\* invoker.c:484-486, for the part of it that is true: an application that still
\* runs as its invoker goes to kill it has a dead daemon, or one that never got
\* its connection because its own booster's sendmsg() (booster.cpp:224) failed.
THEOREM OrphansOnlyKilled == Spec => []OnlyOrphansKilled
<1>1. TypeOK /\ WaitInv => OnlyOrphansKilled
  BY DEF WaitInv
<1> QED
  BY <1>1, WaitInvariant, PTL

\* The self-pipe loses no reinstallation of the forwarder.
THEOREM SelfPipeWorks == Spec => []ForwardsAgain
<1>1. TypeOK /\ WaitInv => ForwardsAgain
  BY DEF WaitInv
<1> QED
  BY <1>1, WaitInvariant, PTL

\* Whatever signals arrive while select() is retried and the handlers change, the
\* loop reads its self-pipe (invoker.c:519) only when there is a byte: the end
\* it reads blocks, and would do so for good.
THEOREM WaitTypes == Spec => []TypeOK
<1>1. TypeOK /\ WaitInv => TypeOK
  OBVIOUS
<1> QED BY <1>1, WaitInvariant, PTL
=============================================================================
