---------------------------- MODULE SingleProofs ----------------------------
(***************************************************************************)
(* Theorems about SingleInstance, for any boosters, programs, invokers and *)
(* names and any number of failures.                                       *)
(***************************************************************************)
EXTENDS SingleInstance, TLAPS

Inv == TypeOK /\ LockInv

-----------------------------------------------------------------------------
\* The application a process works for is one, once it has a request.
LEMMA NameType ==
  ASSUME Inv, NEW p \in Procs, pc[p] \notin {"off", "idle", "ended"}
  PROVE  NameOf(p) \in Names
  BY DEF Inv, TypeOK, LockInv, NameOf, RequestOf, Procs

\* A process that is not past lock() drops its place and nobody's lock.
LEMMA LockUntouched ==
  ASSUME Inv, UNCHANGED <<appName, single, lockVars, m_connection>>,
         NEW p \in Procs, NEW to,
         to \in {"off", "idle", "mkpath", "open", "fcntl", "activate", "locked", "running",
                 "success", "failure", "ended"},
         pc' = [pc EXCEPT ![p] = to],
         pc[p] \notin {"off", "idle", "ended"},
         to \in {"running", "locked"} <=> pc[p] \in {"running", "locked"},
         to = "fcntl" <=> pc[p] = "fcntl",
         to \notin {"off", "idle"},
         m_pluginEntry' \subseteq Boosters,
         told' \in [Invokers -> {"off", "asked", "launched", "success", "failure", "eof"}],
         faults' \in 0 .. MaxFaults
  PROVE  Inv'
  <1>1. TypeOK'
    BY DEF Inv, TypeOK, LockInv, lockVars
  <1>2. LockInv'
    BY DEF Inv, TypeOK, LockInv, lockVars, NameOf, RequestOf
  <1> QED BY <1>1, <1>2 DEF Inv

\* fcntl() by any process.
LEMMA SetLockStep ==
  ASSUME Inv, NEW p \in Procs, SetLock(p)
  PROVE  Inv'
  <1>1. NameOf(p) \in Names /\ pc[p] = "fcntl"
    BY NameType DEF SetLock, Goes
  <1>2. UNCHANGED <<appName, single, boosterVars>> /\ \A q \in Procs : NameOf(q)' = NameOf(q)
    BY DEF SetLock, boosterVars, NameOf, RequestOf
  <1>3. CASE pc' = [pc EXCEPT ![p] = "locked"] /\ holder[NameOf(p)] = None
             /\ holder' = [holder EXCEPT ![NameOf(p)] = p] /\ UNCHANGED <<g_lockFd, faults>>
    <2>1. TypeOK'
      <3>1. \A n \in Names : holder'[n] = IF n = NameOf(p) THEN p ELSE holder[n]
        BY <1>1, <1>3 DEF Inv, TypeOK
      <3>2. \A q \in Procs : (\E n \in Names : holder'[n] = q) <=>
                               q = p \/ \E n \in Names : holder[n] = q
        BY <1>1, <1>3, <3>1, SingleInstanceAssumption DEF Procs
      <3>3. \A q \in Procs : pc'[q] = "fcntl" \/ q = p <=> pc[q] = "fcntl"
        BY <1>1, <1>3 DEF Inv, TypeOK
      <3>4. g_lockFd' = {q \in Procs : pc'[q] = "fcntl" \/ \E n \in Names : holder'[n] = q}
        BY <1>3, <3>2, <3>3 DEF Inv, TypeOK
      <3> QED BY <1>1, <1>2, <1>3, <3>4 DEF Inv, TypeOK, boosterVars
    <2>2. LockInv'
      BY <1>1, <1>2, <1>3, SingleInstanceAssumption
      DEF Inv, TypeOK, LockInv, boosterVars, Procs
    <2> QED BY <2>1, <2>2 DEF Inv
  <1>4. CASE pc' = [pc EXCEPT ![p] = "activate"] /\ g_lockFd' = g_lockFd \ {p}
             /\ UNCHANGED holder /\ (UNCHANGED faults \/ Fault)
    <2>1. faults' \in 0 .. MaxFaults
      BY <1>4, SingleInstanceAssumption DEF Inv, TypeOK, Fault
    <2>2. TypeOK'
      BY <1>1, <1>2, <1>4, <2>1 DEF Inv, TypeOK, LockInv, boosterVars
    <2>3. LockInv'
      BY <1>1, <1>2, <1>4 DEF Inv, TypeOK, LockInv, boosterVars
    <2> QED BY <2>2, <2>3 DEF Inv
  <1> QED BY <1>3, <1>4 DEF SetLock, Goes

\* The end of a process, at whatever place.
LEMMA EndStep ==
  ASSUME Inv, NEW p \in Procs, pc' = [pc EXCEPT ![p] = "ended"], Unlocked(p),
         UNCHANGED <<appName, single, m_pluginEntry, m_connection>>,
         told' \in [Invokers -> {"off", "asked", "launched", "success", "failure", "eof"}],
         faults' \in 0 .. MaxFaults
  PROVE  Inv'
  <1>1. holder' \in [Names -> Procs \cup {None}] /\ \A n \in Names : holder'[n] # p
    BY SingleInstanceAssumption DEF Inv, TypeOK, Unlocked, Procs
  <1>2. \A n \in Names : holder[n] # p => holder'[n] = holder[n]
    BY DEF Inv, TypeOK, Unlocked
  <1>3. \A n \in Names, q \in Procs : holder'[n] = q => holder[n] = q
    BY SingleInstanceAssumption DEF Inv, TypeOK, Unlocked, Procs
  <1>4. g_lockFd' = {q \in Procs : pc'[q] = "fcntl" \/ \E n \in Names : holder'[n] = q}
    BY <1>1, <1>2, <1>3 DEF Inv, TypeOK, Unlocked
  <1>5. TypeOK'
    BY <1>1, <1>4 DEF Inv, TypeOK
  <1>6. \A q \in Procs : pc[q] \in {"locked", "running"} => NameOf(q) \in Names
    BY NameType
  <1>7. \A q \in Procs : NameOf(q)' = NameOf(q)
    BY DEF NameOf, RequestOf
  <1>8. LockInv'
    BY <1>1, <1>2, <1>3, <1>6, <1>7 DEF Inv, TypeOK, LockInv
  <1> QED BY <1>5, <1>8 DEF Inv

-----------------------------------------------------------------------------
LEMMA InvInit == Init => Inv
  BY SingleInstanceAssumption DEF Init, Inv, TypeOK, LockInv, Procs

LEMMA InvStep == Inv /\ [Next]_vars => Inv'
  <1> SUFFICES ASSUME Inv, [Next]_vars PROVE Inv'
    OBVIOUS
  <1> DEFINE Answers == {"off", "asked", "launched", "success", "failure", "eof"}
  <1>0. faults \in 0 .. MaxFaults /\ m_pluginEntry \subseteq Boosters
        /\ told \in [Invokers -> Answers]
    BY DEF Inv, TypeOK
  <1>1. Fault => faults' \in 0 .. MaxFaults
    BY <1>0, SingleInstanceAssumption DEF Fault
  <1>2. ASSUME NEW p \in Procs, MkPath(p) PROVE Inv'
    BY <1>0, <1>1, <1>2, LockUntouched DEF MkPath, Goes, boosterVars
  <1>3. ASSUME NEW p \in Procs, OpenLock(p) PROVE Inv'
    <2>1. CASE pc' = [pc EXCEPT ![p] = "fcntl"] /\ g_lockFd' = g_lockFd \cup {p} /\ UNCHANGED faults
      <3>1. TypeOK' BY <1>3, <2>1 DEF OpenLock, Goes, Inv, TypeOK, boosterVars
      <3>2. LockInv'
        BY <1>3, <2>1 DEF OpenLock, Goes, Inv, TypeOK, LockInv, NameOf, RequestOf, boosterVars
      <3> QED BY <3>1, <3>2 DEF Inv
    <2>2. CASE pc' = [pc EXCEPT ![p] = "activate"] /\ Fault /\ UNCHANGED g_lockFd
      BY <1>0, <1>1, <1>3, <2>2, LockUntouched DEF OpenLock, Goes, boosterVars, lockVars
    <2> QED BY <1>3, <2>1, <2>2 DEF OpenLock, Goes
  <1>4. ASSUME NEW b \in Procs, BoosterActivates(b) PROVE Inv'
    <2>1. b \in Boosters /\ pc[b] = "activate" /\ m_connection[b] \in Invokers
          /\ told' \in [Invokers -> Answers]
      BY <1>0, <1>4 DEF BoosterActivates, Goes, Inv, LockInv
    <2>2. TypeOK'
      BY <1>4, <2>1 DEF BoosterActivates, Goes, Inv, TypeOK, LockInv, lockVars, Procs
    <2>3. LockInv'
      BY <1>4, <2>1 DEF BoosterActivates, Goes, Inv, TypeOK, LockInv, lockVars, Procs, NameOf, RequestOf
    <2> QED BY <2>2, <2>3 DEF Inv
  <1>5. ASSUME NEW b \in Procs, BoosterLaunches(b) PROVE Inv'
    <2>1. m_pluginEntry' \subseteq Boosters /\ told' \in [Invokers -> Answers]
      BY <1>0, <1>5 DEF BoosterLaunches
    <2> QED BY <1>0, <1>5, <2>1, LockUntouched DEF BoosterLaunches, Goes
  <1>6. ASSUME NEW s \in Procs, StandaloneActivates(s) PROVE Inv'
    BY <1>0, <1>6, LockUntouched DEF StandaloneActivates, Goes, boosterVars
  <1>7. ASSUME NEW s \in Procs, StandaloneLaunches(s) PROVE Inv'
    BY <1>0, <1>7, LockUntouched DEF StandaloneLaunches, Goes, boosterVars
  <1>8. ASSUME NEW s \in Procs, ExecFails(s) PROVE Inv'
    BY <1>0, <1>1, <1>8, EndStep DEF ExecFails, Goes, boosterVars
  <1>9. ASSUME NEW p \in Procs, ApplicationEnds(p) \/ Crash(p) PROVE Inv'
    <2>1. told' \in [Invokers -> Answers]
      BY <1>0, <1>9 DEF ApplicationEnds, Crash, Ends
    <2> QED BY <1>0, <1>1, <1>9, <2>1, EndStep DEF ApplicationEnds, Crash, Ends
  <1>10. ASSUME NEW b \in Boosters, ForkBooster(b) PROVE Inv'
    <2>1. m_pluginEntry' \subseteq Boosters
      BY <1>0, <1>10 DEF ForkBooster
    <2>2. TypeOK'
      BY <1>10, <2>1 DEF ForkBooster, Goes, Inv, TypeOK, lockVars, Procs
    <2>3. LockInv'
      BY <1>10 DEF ForkBooster, Goes, Inv, TypeOK, LockInv, lockVars, Procs, NameOf, RequestOf
    <2> QED BY <2>2, <2>3 DEF Inv
  <1>11. ASSUME NEW b \in Boosters, NEW i \in Invokers, ReceiveRequest(b, i) PROVE Inv'
    <2>1. PICK to \in {"mkpath", "locked"} :
            /\ Goes(b, "idle", to)
            /\ single' = IF to = "mkpath" THEN single \cup {b} ELSE single
      BY <1>11 DEF ReceiveRequest
    <2>2. TypeOK'
      BY <1>11, <2>1 DEF ReceiveRequest, Goes, Inv, TypeOK, lockVars, Procs
    <2>3. LockInv'
      BY <1>11, <2>1 DEF ReceiveRequest, Goes, Inv, TypeOK, LockInv, lockVars, Procs, NameOf, RequestOf
    <2> QED BY <2>2, <2>3 DEF Inv
  <1>12. ASSUME NEW s \in Standalones, StartStandalone(s) PROVE Inv'
    <2>1. TypeOK'
      BY <1>12 DEF StartStandalone, Goes, Inv, TypeOK, lockVars, boosterVars, Procs
    <2>2. LockInv'
      BY <1>12, SingleInstanceAssumption
      DEF StartStandalone, Goes, Inv, TypeOK, LockInv, lockVars, boosterVars, Procs, NameOf, RequestOf
    <2> QED BY <2>1, <2>2 DEF Inv
  <1>13. CASE UNCHANGED vars
    BY <1>13 DEF vars, procVars, lockVars, boosterVars, Inv, TypeOK, LockInv, NameOf, RequestOf
  <1> QED
    BY <1>2, <1>3, SetLockStep, <1>4, <1>5, <1>6, <1>7, <1>8, <1>9, <1>10, <1>11, <1>12, <1>13
    DEF Next, Runs, Lock

-----------------------------------------------------------------------------
(* Whose request it is.                                                    *)

\* A process that stays where its request and its lock are: the invokers are
\* told no more than that it is launched.
LEMMA RequestUntouched ==
  ASSUME Inv, RequestInv, UNCHANGED <<appName, single, holder, m_connection>>,
         NEW p \in Procs, NEW to, pc' = [pc EXCEPT ![p] = to],
         pc[p] \notin {"off", "idle", "ended"}, to \notin {"off", "idle", "ended"},
         to \in {"mkpath", "open", "fcntl", "activate"} =>
           pc[p] \in {"mkpath", "open", "fcntl", "activate"},
         told' = told \/ told' = [told EXCEPT ![m_connection[p]] = "launched"]
  PROVE  RequestInv'
  <1>1. \A q \in Procs : pc'[q] = IF q = p THEN to ELSE pc[q]
    BY DEF Inv, TypeOK
  <1>2. \A i \in Invokers : told'[i] \in {told[i], "launched"}
    BY DEF Inv, TypeOK
  <1>3. \A b \in Boosters : m_connection[b] # None => m_connection[b] \in Invokers
    BY DEF Inv, TypeOK
  <1>4. \A q \in Procs : NameOf(q)' = NameOf(q)
    BY DEF NameOf, RequestOf
  <1> QED
    BY <1>1, <1>2, <1>3, <1>4 DEF RequestInv, Procs

\* fcntl(): the lock is taken for the application of the request.
LEMMA SetLockKeepsRequests ==
  ASSUME Inv, RequestInv, NEW p \in Procs, SetLock(p)
  PROVE  RequestInv'
  <1>1. NameOf(p) \in Names /\ pc[p] = "fcntl" /\ p \in single
    BY NameType DEF SetLock, Goes, RequestInv
  <1>2. /\ UNCHANGED <<appName, single, boosterVars>>
        /\ \A q \in Procs : NameOf(q)' = NameOf(q)
    BY DEF SetLock, boosterVars, NameOf, RequestOf
  <1>3. PICK to \in {"locked", "activate"} : pc' = [pc EXCEPT ![p] = to]
    BY DEF SetLock, Goes
  <1>4. \A q \in Procs : pc'[q] = IF q = p THEN to ELSE pc[q]
    BY <1>3 DEF Inv, TypeOK
  <1>5. \A n \in Names : holder'[n] = holder[n] \/ (holder'[n] = p /\ n = NameOf(p))
    BY <1>1 DEF SetLock, Inv, TypeOK
  <1> QED
    BY <1>1, <1>2, <1>4, <1>5 DEF RequestInv, Procs, boosterVars

\* The end of a process: its invoker is told, or has been.
LEMMA EndKeepsRequests ==
  ASSUME Inv, RequestInv, NEW p \in Procs, pc' = [pc EXCEPT ![p] = "ended"], Unlocked(p),
         UNCHANGED <<appName, single, m_connection>>,
         \/ p \in Standalones /\ UNCHANGED told
         \/ told' = [i \in Invokers |->
                       IF told[i] = "asked" /\ p \in Boosters /\ m_connection[p] = i
                       THEN "eof" ELSE told[i]]
  PROVE  RequestInv'
  <1>1. \A q \in Procs : pc'[q] = IF q = p THEN "ended" ELSE pc[q]
    BY DEF Inv, TypeOK
  <1>2. \A n \in Names, q \in Procs : holder'[n] = q => holder[n] = q
    BY SingleInstanceAssumption DEF Inv, TypeOK, Unlocked, Procs
  <1>3. \A q \in Procs : NameOf(q)' = NameOf(q)
    BY DEF NameOf, RequestOf
  <1>4. \A b \in Boosters : m_connection[b] # None => m_connection[b] \in Invokers
    BY DEF Inv, TypeOK
  <1>5. ASSUME NEW b \in Boosters, m_connection[b] # None
        PROVE  told'[m_connection[b]] \in {"launched"} \cup {IF pc'[b] = "ended" THEN "eof" ELSE "asked"}
    <2>1. told[m_connection[b]] \in {"launched"} \cup {IF pc[b] = "ended" THEN "eof" ELSE "asked"}
      BY <1>5 DEF RequestInv
    <2>2. b # p => m_connection[b] # m_connection[p] \/ p \in Standalones
      BY <1>5 DEF RequestInv, Procs
    <2>3. p \in Standalones => p \notin Boosters
      BY SingleInstanceAssumption
    <2> QED
      BY <1>1, <1>4, <1>5, <2>1, <2>2, <2>3 DEF Procs
  <1>6. \A b \in Boosters : pc'[b] = "idle" => m_connection[b] = None
    BY <1>1 DEF RequestInv, Procs
  <1> QED
    BY <1>1, <1>2, <1>3, <1>5, <1>6 DEF RequestInv

LEMMA RequestStep ==
  ASSUME Inv, RequestInv, [Next]_vars
  PROVE  RequestInv'
  <1>1. ASSUME NEW p \in Procs, MkPath(p) \/ OpenLock(p)
        PROVE  RequestInv'
    BY <1>1, RequestUntouched DEF MkPath, OpenLock, Goes, boosterVars, lockVars
  <1>2. ASSUME NEW b \in Procs, BoosterActivates(b)
        PROVE  RequestInv'
    <2>1. /\ b \in Boosters /\ pc[b] = "activate" /\ pc' = [pc EXCEPT ![b] = "idle"]
          /\ single' = single \ {b} /\ m_connection' = [m_connection EXCEPT ![b] = None]
          /\ UNCHANGED <<appName, lockVars>> /\ m_connection[b] \in Invokers
          /\ \A i \in Invokers \ {m_connection[b]} : told'[i] = told[i]
      BY <1>2 DEF BoosterActivates, Goes, Inv, TypeOK, LockInv
    <2>2. \A q \in Procs : pc'[q] = IF q = b THEN "idle" ELSE pc[q]
      BY <2>1 DEF Inv, TypeOK
    <2>3. \A c \in Boosters : m_connection'[c] = IF c = b THEN None ELSE m_connection[c]
      BY <2>1 DEF Inv, TypeOK
    <2>4. \A q \in Procs \ {b} : NameOf(q)' = NameOf(q)
      BY <2>1, <2>3 DEF NameOf, RequestOf
    <2>5. \A n \in Names : holder[n] # b
      BY <2>1 DEF Inv, LockInv
    <2>6. \A c \in Boosters \ {b} : m_connection[c] # None =>
            m_connection[c] \in Invokers \ {m_connection[b]}
      BY <2>1 DEF Inv, TypeOK, RequestInv
    <2> QED
      BY <2>1, <2>2, <2>3, <2>4, <2>5, <2>6 DEF RequestInv, Procs, lockVars
  <1>3. ASSUME NEW b \in Procs, BoosterLaunches(b)
        PROVE  RequestInv'
    BY <1>3, RequestUntouched DEF BoosterLaunches, Goes, lockVars
  <1>4. ASSUME NEW s \in Procs, StandaloneActivates(s) \/ StandaloneLaunches(s)
        PROVE  RequestInv'
    BY <1>4, RequestUntouched DEF StandaloneActivates, StandaloneLaunches, Goes, lockVars, boosterVars
  <1>5. ASSUME NEW s \in Procs, ExecFails(s)
        PROVE  RequestInv'
    BY <1>5, EndKeepsRequests DEF ExecFails, Goes, boosterVars
  <1>6. ASSUME NEW p \in Procs, ApplicationEnds(p) \/ Crash(p)
        PROVE  RequestInv'
    BY <1>6, EndKeepsRequests DEF ApplicationEnds, Crash, Ends
  <1>7. ASSUME NEW b \in Boosters, ForkBooster(b)
        PROVE  RequestInv'
    <2>1. /\ pc[b] = "ended" /\ pc' = [pc EXCEPT ![b] = "idle"]
          /\ single' = single \ {b} /\ m_connection' = [m_connection EXCEPT ![b] = None]
          /\ UNCHANGED <<appName, lockVars, told>>
      BY <1>7 DEF ForkBooster, Goes
    <2>2. \A q \in Procs : pc'[q] = IF q = b THEN "idle" ELSE pc[q]
      BY <2>1 DEF Inv, TypeOK
    <2>3. \A c \in Boosters : m_connection'[c] = IF c = b THEN None ELSE m_connection[c]
      BY <2>1 DEF Inv, TypeOK
    <2>4. \A q \in Procs \ {b} : NameOf(q)' = NameOf(q)
      BY <2>1, <2>3 DEF NameOf, RequestOf
    <2>5. \A n \in Names : holder[n] # b
      BY <2>1 DEF Inv, LockInv, Procs
    <2> QED
      BY <2>1, <2>2, <2>3, <2>4, <2>5 DEF RequestInv, Procs, lockVars
  <1>8. ASSUME NEW b \in Boosters, NEW i \in Invokers, ReceiveRequest(b, i)
        PROVE  RequestInv'
    <2>1. PICK to \in {"mkpath", "locked"} :
            /\ pc[b] = "idle" /\ pc' = [pc EXCEPT ![b] = to]
            /\ single' = IF to = "mkpath" THEN single \cup {b} ELSE single
      BY <1>8 DEF ReceiveRequest, Goes
    <2>2. /\ told[i] = "off" /\ told' = [told EXCEPT ![i] = "asked"]
          /\ m_connection' = [m_connection EXCEPT ![b] = i] /\ UNCHANGED <<appName, lockVars>>
      BY <1>8 DEF ReceiveRequest
    <2>3. \A q \in Procs : pc'[q] = IF q = b THEN to ELSE pc[q]
      BY <2>1 DEF Inv, TypeOK
    <2>4. /\ \A c \in Boosters : m_connection'[c] = IF c = b THEN i ELSE m_connection[c]
          /\ \A j \in Invokers : told'[j] = IF j = i THEN "asked" ELSE told[j]
      BY <2>2 DEF Inv, TypeOK
    <2>5. \A q \in Procs \ {b} : NameOf(q)' = NameOf(q)
      BY <2>2, <2>4 DEF NameOf, RequestOf
    <2>6. \A n \in Names : holder[n] # b
      BY <2>1 DEF Inv, LockInv, Procs
    <2>7. \A c \in Boosters : m_connection[c] # i /\ (m_connection[c] # None => m_connection[c] \in Invokers)
      BY <2>2, SingleInstanceAssumption DEF RequestInv, Inv, TypeOK
    <2> QED
      BY <2>1, <2>2, <2>3, <2>4, <2>5, <2>6, <2>7, SingleInstanceAssumption
      DEF RequestInv, Procs, lockVars
  <1>9. ASSUME NEW s \in Standalones, StartStandalone(s)
        PROVE  RequestInv'
    <2>1. \A q \in Procs : pc'[q] = IF q = s THEN "mkpath" ELSE pc[q]
      BY <1>9 DEF StartStandalone, Goes, Inv, TypeOK
    <2>2. s \notin Boosters /\ single' = single \cup {s} /\ UNCHANGED <<appName, lockVars, boosterVars>>
      BY <1>9, SingleInstanceAssumption DEF StartStandalone
    <2>3. \A q \in Procs : NameOf(q)' = NameOf(q)
      BY <2>2 DEF NameOf, RequestOf, boosterVars
    <2> QED
      BY <2>1, <2>2, <2>3 DEF RequestInv, Procs, lockVars, boosterVars
  <1>10. CASE UNCHANGED vars
    BY <1>10 DEF vars, procVars, lockVars, boosterVars, RequestInv, NameOf, RequestOf
  <1> QED
    BY <1>1, SetLockKeepsRequests, <1>2, <1>3, <1>4, <1>5, <1>6, <1>7, <1>8, <1>9, <1>10
    DEF Next, Runs, Lock

-----------------------------------------------------------------------------
\* The inductive invariant of the lock files and of g_lockFd: who is past lock()
\* for an application is the holder of its record lock, which no attempt of
\* another process, no launch and no other process's end takes away.
THEOREM SingleInvariant == Spec => [](TypeOK /\ SingleInv)
  <1>1. Init => Inv /\ RequestInv
    BY InvInit, SingleInstanceAssumption DEF Init, RequestInv, Procs
  <1>2. Inv /\ RequestInv /\ [Next]_vars => (Inv /\ RequestInv)'
    BY InvStep, RequestStep
  <1>3. Inv /\ RequestInv => TypeOK /\ SingleInv
    BY DEF Inv, SingleInv
  <1> QED BY <1>1, <1>2, <1>3, PTL DEF Spec

\* No two processes that were asked for as single instances run one
\* application, boosters and the stand-alone program alike.
THEOREM OnlyOneInstance == Spec => []SingleInstances
  <1>1. TypeOK /\ SingleInv => SingleInstances
    BY DEF TypeOK, SingleInv, LockInv, SingleInstances
  <1> QED BY <1>1, SingleInvariant, PTL

-----------------------------------------------------------------------------
(* Nobody is left asking.                                                  *)

\* Where a booster is while it owes its invoker an answer.
Working == {"mkpath", "open", "fcntl", "activate", "locked"}

\* A step that moves no booster's request and keeps each at work, or has its
\* invoker told.
LEMMA KeepsAtWork ==
  ASSUME NobodyLeftAsking, UNCHANGED m_connection,
         \A i \in Invokers : told'[i] = "asked" =>
           /\ told[i] = "asked"
           /\ \A b \in Boosters : m_connection[b] = i /\ pc[b] \in Working => pc'[b] \in Working
  PROVE  NobodyLeftAsking'
  BY DEF NobodyLeftAsking, Working

\* Every step keeps it: a booster leaves its work by a step that tells the
\* invoker of its connection.
LEMMA AskingStep ==
  ASSUME Inv, NobodyLeftAsking, [Next]_vars
  PROVE  NobodyLeftAsking'
  <1>1. ASSUME NEW p \in Procs, MkPath(p) \/ OpenLock(p) \/ SetLock(p)
        PROVE  NobodyLeftAsking'
    <2>1. PICK to \in Working : pc' = [pc EXCEPT ![p] = to]
      BY <1>1 DEF MkPath, OpenLock, SetLock, Goes, Working
    <2>2. \A q \in Procs : pc'[q] = IF q = p THEN to ELSE pc[q]
      BY <2>1 DEF Inv, TypeOK
    <2>3. UNCHANGED <<m_connection, told>>
      BY <1>1 DEF MkPath, OpenLock, SetLock, boosterVars
    <2> QED
      BY <2>2, <2>3, KeepsAtWork DEF Procs
  <1>2. ASSUME NEW b \in Procs, BoosterActivates(b)
        PROVE  NobodyLeftAsking'
    <2>1. PICK value \in {"success", "failure"} :
            /\ told' = [told EXCEPT ![m_connection[b]] = value]
            /\ m_connection' = [m_connection EXCEPT ![b] = None]
            /\ b \in Boosters /\ m_connection[b] \in Invokers
            /\ pc' = [pc EXCEPT ![b] = "idle"]
      BY <1>2 DEF BoosterActivates, Goes, Inv, LockInv
    <2>2. \A i \in Invokers : told'[i] = IF i = m_connection[b] THEN value ELSE told[i]
      BY <2>1 DEF Inv, TypeOK
    <2>3. \A c \in Boosters \ {b} : pc'[c] = pc[c] /\ m_connection'[c] = m_connection[c]
      BY <2>1 DEF Inv, TypeOK, Procs
    <2> QED
      BY <2>1, <2>2, <2>3 DEF NobodyLeftAsking
  <1>3. ASSUME NEW b \in Procs, BoosterLaunches(b)
        PROVE  NobodyLeftAsking'
    <2>1. /\ told' = [told EXCEPT ![m_connection[b]] = "launched"]
          /\ UNCHANGED m_connection
          /\ b \in Boosters /\ pc' = [pc EXCEPT ![b] = "running"]
      BY <1>3 DEF BoosterLaunches, Goes
    <2>2. \A i \in Invokers : told'[i] = IF i = m_connection[b] THEN "launched" ELSE told[i]
      BY <2>1 DEF Inv, TypeOK
    <2>3. \A c \in Boosters \ {b} : pc'[c] = pc[c]
      BY <2>1 DEF Inv, TypeOK, Procs
    <2> QED
      BY <2>1, <2>2, <2>3, KeepsAtWork
  <1>4. ASSUME NEW s \in Standalones,
               \/ StandaloneActivates(s) \/ StandaloneLaunches(s) \/ ExecFails(s)
               \/ StartStandalone(s)
        PROVE  NobodyLeftAsking'
    <2>1. \A b \in Boosters : pc'[b] = pc[b]
      BY <1>4, SingleInstanceAssumption
      DEF StandaloneActivates, StandaloneLaunches, ExecFails, StartStandalone, Goes, Inv, TypeOK, Procs
    <2>2. UNCHANGED <<m_connection, told>>
      BY <1>4 DEF StandaloneActivates, StandaloneLaunches, ExecFails, StartStandalone, boosterVars
    <2> QED
      BY <2>1, <2>2, KeepsAtWork
  <1>5. ASSUME NEW p \in Procs, ApplicationEnds(p) \/ Crash(p)
        PROVE  NobodyLeftAsking'
    <2>1. UNCHANGED m_connection /\ \A q \in Procs \ {p} : pc'[q] = pc[q]
      BY <1>5 DEF ApplicationEnds, Crash, Ends, Inv, TypeOK
    <2>2. \A i \in Invokers : told'[i] = "asked" =>
            told[i] = "asked" /\ ~(p \in Boosters /\ m_connection[p] = i)
      BY <1>5 DEF ApplicationEnds, Crash, Ends
    <2> QED
      BY <2>1, <2>2, KeepsAtWork DEF Procs
  <1>6. ASSUME NEW b \in Boosters, ForkBooster(b)
        PROVE  NobodyLeftAsking'
    <2>1. pc[b] = "ended" /\ UNCHANGED told
      BY <1>6 DEF ForkBooster, Goes
    <2>2. \A c \in Boosters \ {b} : pc'[c] = pc[c] /\ m_connection'[c] = m_connection[c]
      BY <1>6 DEF ForkBooster, Goes, Inv, TypeOK, Procs
    <2> QED
      BY <2>1, <2>2 DEF NobodyLeftAsking
  <1>7. ASSUME NEW b \in Boosters, NEW i \in Invokers, ReceiveRequest(b, i)
        PROVE  NobodyLeftAsking'
    <2>1. pc[b] = "idle" /\ pc'[b] \in Working /\ m_connection'[b] = i
      BY <1>7 DEF ReceiveRequest, Goes, Working, Inv, TypeOK, Procs
    <2>2. \A c \in Boosters \ {b} : pc'[c] = pc[c] /\ m_connection'[c] = m_connection[c]
      BY <1>7 DEF ReceiveRequest, Goes, Inv, TypeOK, Procs
    <2>3. \A j \in Invokers \ {i} : told'[j] = told[j]
      BY <1>7 DEF ReceiveRequest, Inv, TypeOK
    <2> QED
      BY <2>1, <2>2, <2>3 DEF NobodyLeftAsking, Working
  <1>8. CASE UNCHANGED vars
    BY <1>8 DEF vars, procVars, boosterVars, NobodyLeftAsking
  <1> QED
    BY <1>1, <1>2, <1>3, <1>4, <1>5, <1>6, <1>7, <1>8
    DEF Next, Runs, Lock, StandaloneActivates, StandaloneLaunches, ExecFails

\* No booster goes back to accept(), ends or is forked anew and leaves its
\* invoker asking: what RequestAnswered needs besides the steps being taken.
THEOREM NobodyEverLeftAsking == Spec => []NobodyLeftAsking
  <1>1. Init => Inv /\ NobodyLeftAsking
    BY InvInit DEF Init, NobodyLeftAsking
  <1>2. Inv /\ NobodyLeftAsking /\ [Next]_vars => (Inv /\ NobodyLeftAsking)'
    BY InvStep, AskingStep
  <1> QED BY <1>1, <1>2, PTL DEF Spec

-----------------------------------------------------------------------------
(* The refinement of OneInstance.                                          *)

\* What has become of a request is what its process is at, if one works for it,
\* and else what its invoker is told.
LEMMA OutcomesAre ==
  Inv /\ RequestInv =>
    /\ \A s \in Standalones : OutcomeOf(s) = OutcomeAt(s)
    /\ \A b \in Boosters : m_connection[b] # None => OutcomeOf(m_connection[b]) = OutcomeAt(b)
    /\ \A i \in Invokers : (\A b \in Boosters : m_connection[b] # i) => OutcomeOf(i) = OutcomeTold(i)
  <1> SUFFICES ASSUME Inv, RequestInv
               PROVE  /\ \A s \in Standalones : OutcomeOf(s) = OutcomeAt(s)
                      /\ \A b \in Boosters : m_connection[b] # None =>
                           OutcomeOf(m_connection[b]) = OutcomeAt(b)
                      /\ \A i \in Invokers : (\A b \in Boosters : m_connection[b] # i) =>
                           OutcomeOf(i) = OutcomeTold(i)
    OBVIOUS
  <1>1. \A i \in Invokers : i \notin Standalones
    BY SingleInstanceAssumption
  <1>2. ASSUME NEW s \in Standalones
        PROVE  OutcomeOf(s) = OutcomeAt(s)
    BY DEF OutcomeOf
  <1>3. ASSUME NEW b \in Boosters, m_connection[b] # None
        PROVE  OutcomeOf(m_connection[b]) = OutcomeAt(b)
    <2>1. m_connection[b] \in Invokers
      BY <1>3 DEF Inv, TypeOK
    <2>2. \A c \in Boosters : m_connection[c] = m_connection[b] <=> c = b
      BY <1>3 DEF RequestInv
    <2>3. (CHOOSE c \in Boosters : m_connection[c] = m_connection[b]) = b
      BY <2>2
    <2> QED
      BY <1>1, <2>1, <2>3 DEF OutcomeOf
  <1>4. ASSUME NEW i \in Invokers, \A b \in Boosters : m_connection[b] # i
        PROVE  OutcomeOf(i) = OutcomeTold(i)
    BY <1>1, <1>4 DEF OutcomeOf
  <1> QED
    BY <1>2, <1>3, <1>4

LEMMA OutcomesWillBe ==
  (Inv /\ RequestInv)' =>
    (/\ \A s \in Standalones : OutcomeOf(s) = OutcomeAt(s)
     /\ \A b \in Boosters : m_connection[b] # None => OutcomeOf(m_connection[b]) = OutcomeAt(b)
     /\ \A i \in Invokers : (\A b \in Boosters : m_connection[b] # i) => OutcomeOf(i) = OutcomeTold(i))'
  BY OutcomesAre, PTL

\* Where a process can be for each outcome.
LEMMA OutcomesAtPlaces ==
  ASSUME NEW p
  PROVE  /\ pc[p] \in {"locked", "running"} => OutcomeAt(p) = IF p \in single THEN "started" ELSE "ended"
         /\ pc[p] = "activate" => OutcomeAt(p) = "refused"
         /\ pc[p] \in {"success", "failure", "ended"} => OutcomeAt(p) = pc[p]
         /\ pc[p] \in {"off", "idle", "mkpath", "open", "fcntl"} => OutcomeAt(p) = "none"
  BY DEF OutcomeAt

\* A process that works for a request moves, and with it what has become of that
\* request and of no other.
LEMMA OneMoves ==
  ASSUME Inv, RequestInv, Inv', RequestInv', UNCHANGED <<appName, single, m_connection>>,
         NEW p \in Procs, NEW to, pc' = [pc EXCEPT ![p] = to],
         pc[p] \notin {"off", "idle", "ended"},
         \A i \in Invokers : told'[i] = told[i] \/ (p \in Boosters /\ i = m_connection[p])
  PROVE  /\ RequestOf(p) \in Requests /\ NameOf(p) = appName[RequestOf(p)]
         /\ Outcomes[RequestOf(p)] = OutcomeAt(p)
         /\ Outcomes' = [Outcomes EXCEPT ![RequestOf(p)] = OutcomeAt(p)']
         /\ \A q \in Procs : RequestOf(q)' = RequestOf(q)
  <1>1. RequestOf(p) \in Requests /\ \A q \in Procs : RequestOf(q)' = RequestOf(q)
    BY DEF RequestOf, Requests, Inv, LockInv, Procs
  <1>2. /\ p \in Boosters => m_connection[p] \in Invokers /\ m_connection[p] # None /\ RequestOf(p) = m_connection[p]
        /\ p \notin Boosters => p \in Standalones /\ RequestOf(p) = p
    BY SingleInstanceAssumption DEF RequestOf, Inv, LockInv, Procs
  <1>3. OutcomeOf(RequestOf(p)) = OutcomeAt(p)
    BY <1>2, OutcomesAre
  <1>4. OutcomeOf(RequestOf(p))' = OutcomeAt(p)'
    BY <1>1, <1>2, OutcomesWillBe
  <1>5. ASSUME NEW r \in Requests, r # RequestOf(p)
        PROVE  OutcomeOf(r)' = OutcomeOf(r)
    <2>1. \A q \in Procs \ {p} : OutcomeAt(q)' = OutcomeAt(q)
      BY DEF OutcomeAt, Inv, TypeOK
    <2>2. CASE r \in Standalones
      <3>1. r \in Procs \ {p}
        BY <1>2, <1>5, <2>2, SingleInstanceAssumption DEF Procs
      <3> QED
        BY <2>1, <2>2, <3>1, OutcomesAre, OutcomesWillBe
    <2>3. CASE r \in Invokers /\ \E b \in Boosters : m_connection[b] = r
      <3>1. PICK b \in Boosters : m_connection[b] = r
        BY <2>3
      <3>2. b # p /\ m_connection[b] # None
        BY <1>2, <1>5, <2>3, <3>1, SingleInstanceAssumption
      <3> QED
        BY <2>1, <3>1, <3>2, OutcomesAre, OutcomesWillBe DEF Procs
    <2>4. CASE r \in Invokers /\ \A b \in Boosters : m_connection[b] # r
      <3>1. told'[r] = told[r]
        BY <2>4
      <3>2. OutcomeTold(r)' = OutcomeTold(r)
        BY <3>1 DEF OutcomeTold
      <3> QED
        BY <2>4, <3>2, OutcomesAre, OutcomesWillBe
    <2> QED
      BY <2>2, <2>3, <2>4 DEF Requests
  <1>6. Outcomes' = [Outcomes EXCEPT ![RequestOf(p)] = OutcomeAt(p)']
    BY <1>1, <1>4, <1>5 DEF Outcomes
  <1> QED
    BY <1>1, <1>3, <1>6 DEF Outcomes, NameOf


\* A booster leaves its request: what has become of it is what the invoker is
\* told.
LEMMA OneLeaves ==
  ASSUME Inv, RequestInv, Inv', RequestInv',
         NEW b \in Boosters, NEW i \in Invokers \cup {None}, m_connection[b] = i,
         pc' = [pc EXCEPT ![b] = "idle"], single' = single \ {b},
         m_connection' = [m_connection EXCEPT ![b] = None],
         \A j \in Invokers : told'[j] = told[j] \/ j = i
  PROVE  /\ \A r \in Requests : r # i => OutcomeOf(r)' = OutcomeOf(r)
         /\ i # None => OutcomeOf(i) = OutcomeAt(b) /\ OutcomeOf(i)' = OutcomeTold(i)'
  <1>1. \A c \in Boosters : m_connection'[c] = IF c = b THEN None ELSE m_connection[c]
    BY DEF Inv, TypeOK
  <1>2. \A q \in Procs \ {b} : OutcomeAt(q)' = OutcomeAt(q)
    <2>1. ASSUME NEW q \in Procs \ {b}
          PROVE  OutcomeAt(q)' = OutcomeAt(q)
      <3>1. pc'[q] = pc[q] /\ (q \in single' <=> q \in single)
        BY DEF Inv, TypeOK
      <3> QED
        BY <3>1 DEF OutcomeAt
    <2> QED
      BY <2>1
  <1>3. ASSUME NEW r \in Requests, r # i
        PROVE  OutcomeOf(r)' = OutcomeOf(r)
    <2>1. CASE r \in Standalones
      <3>1. r \in Procs \ {b}
        BY <2>1, SingleInstanceAssumption DEF Procs
      <3> QED
        BY <1>2, <2>1, <3>1, OutcomesAre, OutcomesWillBe
    <2>2. CASE r \in Invokers /\ \E c \in Boosters : m_connection[c] = r
      <3>1. PICK c \in Boosters : m_connection[c] = r
        BY <2>2
      <3>2. c # b /\ c \in Procs \ {b} /\ m_connection[c] # None /\ m_connection'[c] = r
        BY <1>1, <1>3, <2>2, <3>1, SingleInstanceAssumption DEF Procs
      <3> QED
        BY <1>2, <3>1, <3>2, OutcomesAre, OutcomesWillBe
    <2>3. CASE r \in Invokers /\ \A c \in Boosters : m_connection[c] # r
      <3>1. told'[r] = told[r]
        BY <1>3, <2>3
      <3>2. OutcomeTold(r)' = OutcomeTold(r)
        BY <3>1 DEF OutcomeTold
      <3>3. \A c \in Boosters : m_connection'[c] # r
        BY <1>1, <2>3, SingleInstanceAssumption
      <3> QED
        BY <2>3, <3>2, <3>3, OutcomesAre, OutcomesWillBe
    <2> QED
      BY <2>1, <2>2, <2>3 DEF Requests
  <1>4. ASSUME i # None
        PROVE  OutcomeOf(i) = OutcomeAt(b) /\ OutcomeOf(i)' = OutcomeTold(i)'
    <2>1. OutcomeOf(i) = OutcomeAt(b)
      BY <1>4, OutcomesAre
    <2>2. \A c \in Boosters : m_connection'[c] # i
      BY <1>1, <1>4 DEF RequestInv
    <2> QED
      BY <1>4, <2>1, <2>2, OutcomesWillBe
  <1> QED
    BY <1>3, <1>4

\* The owners of the applications, while no lock and no holder's request
\* changes.
LEMMA OwnersStay ==
  ASSUME Inv, holder' = holder,
         \A q \in Procs : pc[q] \in {"locked", "running"} => RequestOf(q)' = RequestOf(q)
  PROVE  Owners' = Owners
  <1>1. \A n \in Names : holder[n] # None => holder[n] \in Procs /\ pc[holder[n]] \in {"locked", "running"}
    BY DEF Inv, TypeOK, LockInv
  <1> QED
    BY <1>1 DEF Owners

\* The end of a process: what it was asked for is over, or its lock is gone.
LEMMA EndRefines ==
  ASSUME Inv, RequestInv, Inv', RequestInv', NEW p \in Procs,
         pc[p] \notin {"off", "idle", "ended", "success", "failure"},
         pc' = [pc EXCEPT ![p] = "ended"], Unlocked(p),
         UNCHANGED <<appName, single, m_connection>>,
         \A i \in Invokers : told'[i] = told[i] \/ (p \in Boosters /\ i = m_connection[p]),
         faults' \in {faults, faults + 1}
  PROVE  [O!Next]_(O!vars)
  <1> DEFINE r == RequestOf(p)
  <1>1. /\ r \in Requests /\ NameOf(p) = appName[r] /\ Outcomes[r] = OutcomeAt(p)
        /\ Outcomes' = [Outcomes EXCEPT ![r] = OutcomeAt(p)']
        /\ \A q \in Procs : RequestOf(q)' = RequestOf(q)
    BY OneMoves
  <1>2. OutcomeAt(p)' = "ended"
    BY DEF OutcomeAt, Inv, TypeOK
  <1>3. \A n \in Names : /\ holder[n] = p => p \in single /\ NameOf(p) = n
                         /\ holder[n] # None => holder[n] \in Procs
                         /\ holder'[n] = IF holder[n] = p THEN None ELSE holder[n]
    BY DEF Inv, TypeOK, RequestInv, Unlocked
  <1>4. CASE p \in single /\ pc[p] \in {"locked", "running"}
    <2>1. OutcomeAt(p) = "started"
      BY <1>4, OutcomesAtPlaces
    <2>2. NameOf(p) \in Names /\ holder[NameOf(p)] = p
      BY <1>4, NameType DEF Inv, LockInv
    <2>3. Owners' = [Owners EXCEPT ![NameOf(p)] = None]
      BY <1>1, <1>3, <2>2, SingleInstanceAssumption DEF Owners, Procs
    <2>4. O!End(r)
      BY <1>1, <1>2, <2>1, <2>3 DEF O!End, O!Become
    <2> QED
      BY <1>1, <2>4 DEF O!Next
  <1>5. CASE p \notin single \/ pc[p] \notin {"locked", "running"}
    <2>1. \A n \in Names : holder[n] # p
      BY <1>3, <1>5 DEF Inv, LockInv
    <2>2. Owners' = Owners
      <3>1. holder' = holder
        BY <1>3, <2>1 DEF Inv, TypeOK
      <3> QED
        BY <1>1, <3>1, OwnersStay
    <2>3. OutcomeAt(p) \in {"none", "refused", "ended"}
      <3>1. pc[p] \in {"mkpath", "open", "fcntl", "activate", "locked", "running"}
        BY DEF Inv, TypeOK
      <3> QED
        BY <1>5, <3>1, OutcomesAtPlaces
    <2>4. CASE OutcomeAt(p) = "ended"
      <3>1. Outcomes' = Outcomes
        BY <1>1, <1>2, <2>4 DEF Outcomes
      <3>2. CASE faults' = faults
        BY <2>2, <3>1, <3>2 DEF O!vars
      <3>3. CASE faults' = faults + 1
        BY <2>2, <3>1, <3>3 DEF O!Fault, O!Next
      <3> QED
        BY <3>2, <3>3
    <2>5. CASE OutcomeAt(p) \in {"none", "refused"}
      <3>1. O!Leave(r)
        BY <1>1, <1>2, <2>2, <2>5 DEF O!Leave, O!Become
      <3> QED
        BY <1>1, <3>1 DEF O!Next
    <2> QED
      BY <2>3, <2>4, <2>5
  <1> QED
    BY <1>4, <1>5


\* A process moves on: either nobody is told anything, or its request is.
LEMMA MoveRefines ==
  ASSUME Inv, RequestInv, Inv', RequestInv', NEW p \in Procs, NEW to,
         pc[p] \notin {"off", "idle", "ended"}, pc' = [pc EXCEPT ![p] = to],
         UNCHANGED <<appName, single, holder, m_connection>>,
         \A i \in Invokers : told'[i] = told[i] \/ (p \in Boosters /\ i = m_connection[p]),
         \/ OutcomeAt(p)' = OutcomeAt(p) /\ faults' = faults
         \/ OutcomeAt(p) = "none" /\ OutcomeAt(p)' = "refused" /\ faults' = faults + 1
         \/ /\ OutcomeAt(p) = "none" /\ OutcomeAt(p)' = "refused" /\ faults' = faults
            /\ NameOf(p) \in Names /\ holder[NameOf(p)] # None
         \/ OutcomeAt(p) = "refused" /\ OutcomeAt(p)' \in {"success", "failure"} /\ faults' = faults
  PROVE  [O!Next]_(O!vars)
  <1> DEFINE r == RequestOf(p)
  <1>1. /\ r \in Requests /\ NameOf(p) = appName[r] /\ Outcomes[r] = OutcomeAt(p)
        /\ Outcomes' = [Outcomes EXCEPT ![r] = OutcomeAt(p)']
        /\ \A q \in Procs : RequestOf(q)' = RequestOf(q)
    BY OneMoves
  <1>2. Owners' = Owners
    BY <1>1, OwnersStay
  <1>3. CASE OutcomeAt(p)' = OutcomeAt(p) /\ faults' = faults
    <2>1. Outcomes' = Outcomes
      BY <1>1, <1>3 DEF Outcomes
    <2> QED
      BY <1>2, <1>3, <2>1 DEF O!vars
  <1>4. CASE OutcomeAt(p) = "none" /\ OutcomeAt(p)' = "refused" /\ faults' = faults + 1
    <2>1. O!Refuse(r)
      BY <1>1, <1>2, <1>4 DEF O!Refuse, O!Become
    <2> QED
      BY <1>1, <2>1 DEF O!Next
  <1>5. CASE /\ OutcomeAt(p) = "none" /\ OutcomeAt(p)' = "refused" /\ faults' = faults
             /\ NameOf(p) \in Names /\ holder[NameOf(p)] # None
    <2>1. Owners[appName[r]] # None
      <3>1. holder[NameOf(p)] \in Procs /\ pc[holder[NameOf(p)]] \in {"locked", "running"}
        BY <1>5 DEF Inv, TypeOK, LockInv
      <3>2. RequestOf(holder[NameOf(p)]) # None
        BY <3>1, SingleInstanceAssumption DEF RequestOf, Inv, LockInv, Procs
      <3> QED
        BY <1>1, <1>5, <3>2 DEF Owners
    <2>2. O!Refuse(r)
      BY <1>1, <1>2, <1>5, <2>1 DEF O!Refuse, O!Become
    <2> QED
      BY <1>1, <2>2 DEF O!Next
  <1>6. CASE OutcomeAt(p) = "refused" /\ OutcomeAt(p)' \in {"success", "failure"} /\ faults' = faults
    <2>1. O!Answer(r)
      BY <1>1, <1>2, <1>6 DEF O!Answer, O!Become
    <2> QED
      BY <1>1, <2>1 DEF O!Next
  <1> QED
    BY <1>3, <1>4, <1>5, <1>6

\* lock(), call by call.
LEMMA LockRefines ==
  ASSUME Inv, RequestInv, Inv', RequestInv', NEW p \in Procs, Lock(p)
  PROVE  [O!Next]_(O!vars)
  <1> DEFINE Failed == faults' = faults + 1
  <1>1. /\ pc[p] \in {"mkpath", "open", "fcntl"} /\ OutcomeAt(p) = "none"
        /\ UNCHANGED <<appName, single, m_connection, told>>
    BY OutcomesAtPlaces DEF Lock, MkPath, OpenLock, SetLock, Goes, boosterVars
  <1>2. \/ UNCHANGED <<holder, faults>>
           /\ (pc' = [pc EXCEPT ![p] = "open"] \/ pc' = [pc EXCEPT ![p] = "fcntl"])
        \/ pc' = [pc EXCEPT ![p] = "activate"] /\ UNCHANGED holder
           /\ (Failed \/ (UNCHANGED faults /\ pc[p] = "fcntl" /\ holder[NameOf(p)] # None))
        \/ /\ pc[p] = "fcntl" /\ pc' = [pc EXCEPT ![p] = "locked"] /\ holder[NameOf(p)] = None
           /\ holder' = [holder EXCEPT ![NameOf(p)] = p] /\ UNCHANGED faults
    BY DEF Lock, MkPath, OpenLock, SetLock, Goes, Fault, lockVars
  <1>3. \A to : pc' = [pc EXCEPT ![p] = to] =>
                  /\ to \in {"open", "fcntl"} => OutcomeAt(p)' = "none"
                  /\ to = "activate" => OutcomeAt(p)' = "refused"
                  /\ to = "locked" => OutcomeAt(p)' = IF p \in single THEN "started" ELSE "ended"
    BY <1>1 DEF OutcomeAt, Inv, TypeOK
  <1>4. NameOf(p) \in Names
    BY <1>1, NameType
  <1>5. CASE /\ UNCHANGED <<holder, faults>>
             /\ (pc' = [pc EXCEPT ![p] = "open"] \/ pc' = [pc EXCEPT ![p] = "fcntl"])
    BY <1>1, <1>3, <1>5, MoveRefines
  <1>6. CASE /\ pc' = [pc EXCEPT ![p] = "activate"] /\ UNCHANGED holder
             /\ (Failed \/ (UNCHANGED faults /\ pc[p] = "fcntl" /\ holder[NameOf(p)] # None))
    BY <1>1, <1>3, <1>4, <1>6, MoveRefines
  <1>7. CASE /\ pc[p] = "fcntl" /\ pc' = [pc EXCEPT ![p] = "locked"] /\ holder[NameOf(p)] = None
             /\ holder' = [holder EXCEPT ![NameOf(p)] = p] /\ UNCHANGED faults
    <2> DEFINE r == RequestOf(p)
    <2>1. /\ r \in Requests /\ NameOf(p) = appName[r] /\ Outcomes[r] = OutcomeAt(p)
          /\ Outcomes' = [Outcomes EXCEPT ![r] = OutcomeAt(p)']
          /\ \A q \in Procs : RequestOf(q)' = RequestOf(q)
      BY <1>1, <1>7, OneMoves
    <2>2. p \in single /\ OutcomeAt(p)' = "started"
      BY <1>1, <1>3, <1>7 DEF RequestInv
    <2>3. Owners[appName[r]] = None
      BY <1>4, <1>7, <2>1 DEF Owners
    <2>4. Owners' = [Owners EXCEPT ![appName[r]] = r]
      <3>1. \A n \in Names : holder'[n] = IF n = NameOf(p) THEN p ELSE holder[n]
        BY <1>4, <1>7 DEF Inv, TypeOK
      <3>2. \A n \in Names : holder[n] # None => holder[n] \in Procs
        BY DEF Inv, TypeOK
      <3>3. p # None
        BY SingleInstanceAssumption DEF Procs
      <3> QED
        BY <1>4, <2>1, <3>1, <3>2, <3>3 DEF Owners
    <2>5. O!Start(r)
      BY <1>1, <1>7, <2>1, <2>2, <2>3, <2>4 DEF O!Start, O!Become
    <2> QED
      BY <2>1, <2>5 DEF O!Next
  <1> QED
    BY <1>2, <1>5, <1>6, <1>7

\* A booster that has told its invoker of the instance there is;
LEMMA ActivateRefines ==
  ASSUME Inv, RequestInv, Inv', RequestInv', NEW b \in Procs, BoosterActivates(b)
  PROVE  [O!Next]_(O!vars)
  <1>1. /\ b \in Boosters /\ pc[b] = "activate" /\ pc' = [pc EXCEPT ![b] = "idle"]
        /\ single' = single \ {b} /\ m_connection' = [m_connection EXCEPT ![b] = None]
        /\ UNCHANGED <<appName, lockVars, faults>>
    BY DEF BoosterActivates, Goes
  <1>2. m_connection[b] \in Invokers /\ m_connection[b] # None
    BY <1>1, SingleInstanceAssumption DEF Inv, LockInv
  <1>3. PICK value \in {"success", "failure"} : told' = [told EXCEPT ![m_connection[b]] = value]
    BY DEF BoosterActivates
  <1>4. PICK r \in Invokers : r = m_connection[b]
    BY <1>2
  <1>5. \A i \in Invokers : told'[i] = IF i = r THEN value ELSE told[i]
    BY <1>3, <1>4 DEF Inv, TypeOK
  <1>6. /\ \A q \in Requests : q # r => OutcomeOf(q)' = OutcomeOf(q)
        /\ OutcomeOf(r) = OutcomeAt(b) /\ OutcomeOf(r)' = OutcomeTold(r)'
    BY <1>1, <1>2, <1>4, <1>5, OneLeaves
  <1>7. OutcomeOf(r) = "refused" /\ OutcomeTold(r)' = value
    BY <1>1, <1>5, <1>6, OutcomesAtPlaces DEF OutcomeTold
  <1>8. Outcomes' = [Outcomes EXCEPT ![r] = value] /\ Outcomes[r] = "refused" /\ r \in Requests
    BY <1>6, <1>7 DEF Outcomes, Requests
  <1>9. Owners' = Owners
    <2>1. \A q \in Procs : pc[q] \in {"locked", "running"} => RequestOf(q)' = RequestOf(q)
      BY <1>1 DEF RequestOf, Inv, TypeOK
    <2> QED
      BY <1>1, <2>1, OwnersStay DEF lockVars
  <1>10. O!Answer(r)
    BY <1>1, <1>8, <1>9 DEF O!Answer, O!Become
  <1> QED
    BY <1>8, <1>10 DEF O!Next

\* The daemon forks in its place: its invoker has been told or has seen the
\* connection closed, and nothing becomes of the request any more.
LEMMA ForkRefines ==
  ASSUME Inv, RequestInv, Inv', RequestInv', NEW b \in Boosters, ForkBooster(b)
  PROVE  UNCHANGED O!vars
  <1>1. /\ pc[b] = "ended" /\ pc' = [pc EXCEPT ![b] = "idle"]
        /\ single' = single \ {b} /\ m_connection' = [m_connection EXCEPT ![b] = None]
        /\ UNCHANGED <<appName, lockVars, told, faults>>
    BY DEF ForkBooster, Goes
  <1>2. PICK i \in Invokers \cup {None} : m_connection[b] = i
    BY DEF Inv, TypeOK
  <1>3. /\ \A r \in Requests : r # i => OutcomeOf(r)' = OutcomeOf(r)
        /\ i # None => OutcomeOf(i) = OutcomeAt(b) /\ OutcomeOf(i)' = OutcomeTold(i)'
    BY <1>1, <1>2, OneLeaves
  <1>4. ASSUME i # None
        PROVE  OutcomeOf(i)' = OutcomeOf(i)
    <2>1. told[i] \in {"launched", "eof"} /\ told'[i] = told[i]
      BY <1>1, <1>2, <1>4 DEF RequestInv
    <2>2. OutcomeTold(i)' = "ended"
      BY <2>1 DEF OutcomeTold
    <2>3. OutcomeAt(b) = "ended"
      BY <1>1, OutcomesAtPlaces
    <2> QED
      BY <1>3, <1>4, <2>2, <2>3
  <1>5. Outcomes' = Outcomes
    <2>1. \A r \in Requests : r # None
      BY SingleInstanceAssumption DEF Requests
    <2> QED
      BY <1>3, <1>4, <2>1 DEF Outcomes
  <1>6. Owners' = Owners
    <2>1. \A q \in Procs : pc[q] \in {"locked", "running"} => RequestOf(q)' = RequestOf(q)
      BY <1>1 DEF RequestOf, Inv, TypeOK
    <2> QED
      BY <1>1, <2>1, OwnersStay DEF lockVars
  <1> QED
    BY <1>1, <1>5, <1>6 DEF O!vars

\* A booster receives a request, which has no lock to wait for or is the next to
\* run lock().
LEMMA ReceiveRefines ==
  ASSUME Inv, RequestInv, Inv', RequestInv',
         NEW b \in Boosters, NEW i \in Invokers, ReceiveRequest(b, i)
  PROVE  [O!Next]_(O!vars)
  <1>1. PICK to \in {"mkpath", "locked"} :
          /\ pc[b] = "idle" /\ pc' = [pc EXCEPT ![b] = to]
          /\ single' = IF to = "mkpath" THEN single \cup {b} ELSE single
    BY DEF ReceiveRequest, Goes
  <1>2. /\ told[i] = "off" /\ told' = [told EXCEPT ![i] = "asked"]
        /\ m_connection' = [m_connection EXCEPT ![b] = i] /\ UNCHANGED <<appName, lockVars, faults>>
    BY DEF ReceiveRequest
  <1>3. /\ i # None /\ i \notin Standalones /\ b \notin single
        /\ \A c \in Boosters : m_connection[c] # i
    BY <1>1, <1>2, SingleInstanceAssumption DEF RequestInv, Inv, LockInv
  <1>4. /\ \A c \in Boosters : m_connection'[c] = IF c = b THEN i ELSE m_connection[c]
        /\ \A j \in Invokers \ {i} : told'[j] = told[j]
    BY <1>2 DEF Inv, TypeOK
  <1>5. \A q \in Procs \ {b} : OutcomeAt(q)' = OutcomeAt(q)
    <2>1. ASSUME NEW q \in Procs \ {b}
          PROVE  OutcomeAt(q)' = OutcomeAt(q)
      <3>1. pc'[q] = pc[q] /\ (q \in single' <=> q \in single)
        BY <1>1 DEF Inv, TypeOK
      <3> QED
        BY <3>1 DEF OutcomeAt
    <2> QED
      BY <2>1
  <1>6. ASSUME NEW r \in Requests, r # i
        PROVE  OutcomeOf(r)' = OutcomeOf(r)
    <2>1. CASE r \in Standalones
      <3>1. r \in Procs \ {b}
        BY <2>1, SingleInstanceAssumption DEF Procs
      <3> QED
        BY <1>5, <2>1, <3>1, OutcomesAre, OutcomesWillBe
    <2>2. CASE r \in Invokers /\ \E c \in Boosters : m_connection[c] = r
      <3>1. PICK c \in Boosters : m_connection[c] = r
        BY <2>2
      <3>2. c # b /\ c \in Procs \ {b} /\ m_connection[c] # None /\ m_connection'[c] = r
        BY <1>1, <1>4, <2>2, <3>1, SingleInstanceAssumption DEF Procs, RequestInv
      <3> QED
        BY <1>5, <3>1, <3>2, OutcomesAre, OutcomesWillBe
    <2>3. CASE r \in Invokers /\ \A c \in Boosters : m_connection[c] # r
      <3>1. OutcomeTold(r)' = OutcomeTold(r)
        BY <1>4, <1>6, <2>3 DEF OutcomeTold
      <3>2. \A c \in Boosters : m_connection'[c] # r
        BY <1>4, <1>6, <2>3
      <3> QED
        BY <2>3, <3>1, <3>2, OutcomesAre, OutcomesWillBe
    <2> QED
      BY <2>1, <2>2, <2>3 DEF Requests
  <1>7. i \in Requests /\ Outcomes[i] = "none"
    <2>1. OutcomeOf(i) = OutcomeTold(i)
      BY <1>3, OutcomesAre
    <2>2. OutcomeTold(i) = "none"
      BY <1>2 DEF OutcomeTold
    <2> QED
      BY <2>1, <2>2 DEF Outcomes, Requests
  <1>8. OutcomeOf(i)' = IF to = "mkpath" THEN "none" ELSE "ended"
    <2>1. OutcomeOf(i)' = OutcomeAt(b)'
      BY <1>3, <1>4, OutcomesWillBe
    <2>2. pc'[b] = to
      BY <1>1 DEF Inv, TypeOK, Procs
    <2>3. CASE to = "mkpath"
      <3>1. OutcomeAt(b)' = "none"
        BY <2>2, <2>3 DEF OutcomeAt
      <3> QED
        BY <2>1, <2>3, <3>1
    <2>4. CASE to = "locked"
      <3>1. b \notin single'
        BY <1>1, <1>3, <2>4
      <3>2. OutcomeAt(b)' = "ended"
        BY <2>2, <2>4, <3>1 DEF OutcomeAt
      <3> QED
        BY <2>1, <2>4, <3>2
    <2> QED
      BY <2>3, <2>4
  <1>9. Owners' = Owners
    <2>1. \A q \in Procs : pc[q] \in {"locked", "running"} => RequestOf(q)' = RequestOf(q)
      BY <1>1, <1>4 DEF RequestOf
    <2> QED
      BY <1>2, <2>1, OwnersStay DEF lockVars
  <1>10. CASE to = "mkpath"
    <2>1. Outcomes' = Outcomes
      BY <1>6, <1>7, <1>8, <1>10 DEF Outcomes
    <2> QED
      BY <1>2, <1>9, <2>1 DEF O!vars
  <1>11. CASE to = "locked"
    <2>1. Outcomes' = [Outcomes EXCEPT ![i] = "ended"]
      BY <1>6, <1>8, <1>11 DEF Outcomes
    <2>2. O!Leave(i)
      BY <1>2, <1>7, <1>9, <2>1 DEF O!Leave, O!Become
    <2> QED
      BY <1>7, <2>2 DEF O!Next
  <1> QED
    BY <1>10, <1>11

\* The program is started.
LEMMA StartRefines ==
  ASSUME Inv, RequestInv, Inv', RequestInv', NEW s \in Standalones, StartStandalone(s)
  PROVE  UNCHANGED O!vars
  <1>1. /\ pc[s] = "off" /\ pc' = [pc EXCEPT ![s] = "mkpath"] /\ single' = single \cup {s}
        /\ UNCHANGED <<appName, lockVars, boosterVars, faults>>
    BY DEF StartStandalone, Goes
  <1>2. ASSUME NEW q \in Procs
        PROVE  OutcomeAt(q)' = OutcomeAt(q)
    <2>1. CASE q = s
      <3>1. pc[q] = "off" /\ pc'[q] = "mkpath"
        BY <1>1, <2>1 DEF Inv, TypeOK
      <3> QED
        BY <3>1 DEF OutcomeAt
    <2>2. CASE q # s
      <3>1. pc'[q] = pc[q] /\ (q \in single' <=> q \in single)
        BY <1>1, <2>2 DEF Inv, TypeOK
      <3> QED
        BY <3>1 DEF OutcomeAt
    <2> QED
      BY <2>1, <2>2
  <1>3. ASSUME NEW r \in Requests
        PROVE  OutcomeOf(r)' = OutcomeOf(r)
    <2>1. CASE r \in Standalones
      BY <1>2, <2>1, OutcomesAre, OutcomesWillBe DEF Procs
    <2>2. CASE r \in Invokers /\ \E c \in Boosters : m_connection[c] = r
      <3>1. PICK c \in Boosters : m_connection[c] = r
        BY <2>2
      <3>2. m_connection[c] # None /\ m_connection'[c] = r
        BY <1>1, <2>2, <3>1, SingleInstanceAssumption DEF boosterVars
      <3> QED
        BY <1>2, <3>1, <3>2, OutcomesAre, OutcomesWillBe DEF Procs
    <2>3. CASE r \in Invokers /\ \A c \in Boosters : m_connection[c] # r
      <3>1. OutcomeTold(r)' = OutcomeTold(r) /\ \A c \in Boosters : m_connection'[c] # r
        BY <1>1, <2>3 DEF OutcomeTold, boosterVars
      <3> QED
        BY <2>3, <3>1, OutcomesAre, OutcomesWillBe
    <2> QED
      BY <2>1, <2>2, <2>3 DEF Requests
  <1>4. Outcomes' = Outcomes
    BY <1>3 DEF Outcomes
  <1>5. Owners' = Owners
    <2>1. \A q \in Procs : RequestOf(q)' = RequestOf(q)
      BY <1>1 DEF RequestOf, boosterVars
    <2> QED
      BY <1>1, <2>1, OwnersStay DEF lockVars
  <1> QED
    BY <1>1, <1>4, <1>5 DEF O!vars

\* A booster and the program launch, and the program tells its own user.
LEMMA LaunchRefines ==
  ASSUME Inv, RequestInv, Inv', RequestInv', NEW p \in Procs,
         BoosterLaunches(p) \/ StandaloneLaunches(p) \/ StandaloneActivates(p)
  PROVE  [O!Next]_(O!vars)
  <1>1. CASE BoosterLaunches(p) \/ StandaloneLaunches(p)
    <2>1. /\ pc[p] = "locked" /\ pc' = [pc EXCEPT ![p] = "running"]
          /\ UNCHANGED <<appName, single, lockVars, m_connection, faults>>
      BY <1>1 DEF BoosterLaunches, StandaloneLaunches, Goes, boosterVars
    <2>2. \A i \in Invokers : told'[i] = told[i] \/ (p \in Boosters /\ i = m_connection[p])
      BY <1>1 DEF BoosterLaunches, StandaloneLaunches, boosterVars, Inv, TypeOK
    <2>3. OutcomeAt(p)' = OutcomeAt(p)
      <3>1. pc'[p] = "running"
        BY <2>1 DEF Inv, TypeOK
      <3>2. OutcomeAt(p)' = IF p \in single THEN "started" ELSE "ended"
        BY <2>1, <3>1 DEF OutcomeAt
      <3>3. OutcomeAt(p) = IF p \in single THEN "started" ELSE "ended"
        BY <2>1, OutcomesAtPlaces
      <3> QED
        BY <3>2, <3>3
    <2> QED
      BY <2>1, <2>2, <2>3, MoveRefines DEF lockVars
  <1>2. CASE StandaloneActivates(p)
    <2>1. PICK value \in {"success", "failure"} :
            /\ pc[p] = "activate" /\ pc' = [pc EXCEPT ![p] = value]
      BY <1>2 DEF StandaloneActivates, Goes
    <2>2. UNCHANGED <<appName, single, lockVars, m_connection, told, faults>>
      BY <1>2 DEF StandaloneActivates, boosterVars
    <2>3. OutcomeAt(p) = "refused"
      BY <2>1, OutcomesAtPlaces
    <2>4. OutcomeAt(p)' \in {"success", "failure"}
      <3>1. pc'[p] = value
        BY <2>1 DEF Inv, TypeOK
      <3> QED
        BY <3>1 DEF OutcomeAt
    <2> QED
      BY <2>1, <2>2, <2>3, <2>4, MoveRefines DEF lockVars
  <1> QED
    BY <1>1, <1>2

\* Every step of the two programs is a step of OneInstance, or none.
LEMMA StepRefines ==
  ASSUME Inv, RequestInv, Inv', RequestInv', [Next]_vars
  PROVE  [O!Next]_(O!vars)
  <1>1. Fault => faults' \in {faults, faults + 1}
    BY DEF Fault
  <1>2. ASSUME NEW s \in Procs, ExecFails(s)
        PROVE  [O!Next]_(O!vars)
    BY <1>1, <1>2, EndRefines DEF ExecFails, Goes, boosterVars
  <1>3. ASSUME NEW p \in Procs, ApplicationEnds(p) \/ Crash(p)
        PROVE  [O!Next]_(O!vars)
    <2>1. /\ pc[p] \in {"running", "mkpath", "open", "fcntl", "activate", "locked"}
          /\ Ends(p) /\ faults' \in {faults, faults + 1}
      BY <1>1, <1>3 DEF ApplicationEnds, Crash
    <2>2. \A i \in Invokers : told'[i] = told[i] \/ (p \in Boosters /\ i = m_connection[p])
      BY <2>1 DEF Ends
    <2> QED
      BY <2>1, <2>2, EndRefines DEF Ends
  <1>4. ASSUME NEW b \in Boosters, ForkBooster(b)
        PROVE  [O!Next]_(O!vars)
    BY <1>4, ForkRefines
  <1>5. ASSUME NEW s \in Standalones, StartStandalone(s)
        PROVE  [O!Next]_(O!vars)
    BY <1>5, StartRefines
  <1>6. CASE UNCHANGED vars
    <2>1. UNCHANGED <<pc, appName, single, holder, m_connection, told, faults>>
      BY <1>6 DEF vars, procVars, lockVars, boosterVars
    <2>2. Owners' = Owners
      BY <2>1 DEF Owners, RequestOf
    <2>3. Outcomes' = Outcomes
      BY <2>1 DEF Outcomes, OutcomeOf, OutcomeAt, OutcomeTold
    <2> QED
      BY <2>1, <2>2, <2>3 DEF O!vars
  <1> QED
    BY LockRefines, ActivateRefines, LaunchRefines, ReceiveRefines, <1>2, <1>3, <1>4, <1>5, <1>6
    DEF Next, Runs

\* Before anybody has asked nobody has been answered and nothing runs.
LEMMA InitRefines == Init => O!Init
  <1> SUFFICES ASSUME Init PROVE O!Init
    OBVIOUS
  <1>1. Inv /\ RequestInv
    BY InvInit, SingleInstanceAssumption DEF Init, RequestInv, Procs
  <1>2. Owners = [n \in Names |-> None]
    BY DEF Init, Owners
  <1>3. ASSUME NEW r \in Requests
        PROVE  OutcomeOf(r) = "none"
    <2>1. CASE r \in Standalones
      <3>1. pc[r] = "off"
        BY <2>1, SingleInstanceAssumption DEF Init, Procs
      <3> QED
        BY <1>1, <2>1, <3>1, OutcomesAre, OutcomesAtPlaces
    <2>2. CASE r \in Invokers
      <3>1. told[r] = "off" /\ \A b \in Boosters : m_connection[b] # r
        BY <2>2, SingleInstanceAssumption DEF Init
      <3>2. OutcomeTold(r) = "none"
        BY <3>1 DEF OutcomeTold
      <3> QED
        BY <1>1, <2>2, <3>1, <3>2, OutcomesAre
    <2> QED
      BY <2>1, <2>2 DEF Requests
  <1>4. Outcomes = [r \in Requests |-> "none"]
    BY <1>3 DEF Outcomes
  <1>5. appName \in [Requests -> Names] /\ faults = 0
    BY DEF Init, Requests
  <1> QED
    BY <1>2, <1>4, <1>5 DEF O!Init

\* The two programs keep the promise of the facility: requests for an
\* application are started one at a time, and lock() and
\* activateExistingInstance() refuse one only because an instance was there or
\* a call has failed.
THEOREM SingleRefinesOneInstance == Spec => OneInstanceSpec
  <1>1. Init => O!Init
    BY InitRefines
  <1>2. Init => Inv /\ RequestInv
    BY InvInit, SingleInstanceAssumption DEF Init, RequestInv, Procs
  <1>3. Inv /\ RequestInv /\ [Next]_vars => (Inv /\ RequestInv)'
    BY InvStep, RequestStep
  <1>4. Inv /\ RequestInv /\ (Inv /\ RequestInv)' /\ [Next]_vars => [O!Next]_(O!vars)
    BY StepRefines
  <1> QED
    BY <1>1, <1>2, <1>3, <1>4, PTL DEF Spec, OneInstanceSpec, O!Spec

\* Only who asks for a lock or has one keeps the lock file open: a booster that
\* lock() has failed for has closed it before it waits for the next request.
THEOREM SingleTypes == Spec => []TypeOK
  <1>1. TypeOK /\ SingleInv => TypeOK
    OBVIOUS
  <1> QED BY <1>1, SingleInvariant, PTL
=============================================================================
