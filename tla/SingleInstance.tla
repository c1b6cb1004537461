--------------------------- MODULE SingleInstance ---------------------------
(***************************************************************************)
(* Single instances: lock() and activateExistingInstance() of the plugin   *)
(* (single-instance/main.cpp) as boosters of several types call them       *)
(* (Booster::initialize()) and as the program of the same name does        *)
(* (main()), one call on the file system at a time.                        *)
(*                                                                         *)
(* A lock is a record lock of a process: kept over execve(), dropped when  *)
(* the process ends or closes the file.  It is taken for the name as it    *)
(* was typed; two spellings of a path are two applications here.           *)
(***************************************************************************)
EXTENDS Naturals, FiniteSets

CONSTANTS
  Boosters,      \* the processes of boosters, of one or several types
  Standalones,   \* the processes of /usr/bin/single-instance
  Invokers,
  Names,         \* applications
  None,          \* no process, invoker or application
  MaxFaults      \* bound on failed calls and crashes

ASSUME SingleInstanceAssumption ==
  /\ None \notin Boosters \cup Standalones \cup Invokers \cup Names
  /\ Boosters \cap Standalones = {} /\ Invokers \cap (Boosters \cup Standalones) = {}
  /\ MaxFaults \in Nat

Procs == Boosters \cup Standalones

VARIABLES
  pc,            \* where each process is
  appName,       \* what the user of each invoker or program typed
  single,        \* the processes that run lock() for it
  g_lockFd,      \* the processes that have the lock file open
  holder,        \* the process that has the lock of each application
  m_pluginEntry, \* the boosters that have the plugin loaded
  m_connection,  \* the invoker of each booster
  told,          \* what each invoker knows
  faults

procVars == <<pc, single>>
lockVars == <<g_lockFd, holder>>
boosterVars == <<m_pluginEntry, m_connection, told>>
vars == <<appName, procVars, lockVars, boosterVars, faults>>

\* The request a process works for, and the application it names.
RequestOf(p) == IF p \in Boosters THEN m_connection[p] ELSE p
NameOf(p) == appName[RequestOf(p)]

Goes(p, from, to) == pc[p] = from /\ pc' = [pc EXCEPT ![p] = to]

Fault == faults < MaxFaults /\ faults' = faults + 1

-----------------------------------------------------------------------------
(* lock()                                                                  *)

\* A directory that is there or cannot be made is passed over.  Only the
\* chmod() of a new one can fail.
MkPath(p) ==
  /\ \/ Goes(p, "mkpath", "open") /\ UNCHANGED faults
     \/ Goes(p, "mkpath", "activate") /\ Fault
  /\ UNCHANGED <<appName, single, lockVars, boosterVars>>

OpenLock(p) ==
  /\ \/ Goes(p, "open", "fcntl") /\ g_lockFd' = g_lockFd \cup {p} /\ UNCHANGED faults
     \/ Goes(p, "open", "activate") /\ Fault /\ UNCHANGED g_lockFd
  /\ UNCHANGED <<appName, single, holder, boosterVars>>

\* A slip: the file is not closed when it is locked.
SetLockLeaks(p) ==
  /\ \/ /\ Goes(p, "fcntl", "locked") /\ holder[NameOf(p)] = None
        /\ holder' = [holder EXCEPT ![NameOf(p)] = p]
        /\ UNCHANGED faults
     \/ /\ Goes(p, "fcntl", "activate")
        /\ \/ holder[NameOf(p)] # None /\ UNCHANGED faults
           \/ Fault
        /\ UNCHANGED holder
  /\ UNCHANGED <<appName, single, g_lockFd, boosterVars>>

\* A slip: the file is closed before the lock is asked for, which fails.
SetLockOnClosed(p) ==
  /\ Goes(p, "fcntl", "activate")
  /\ g_lockFd' = g_lockFd \ {p}
  /\ UNCHANGED <<appName, single, holder, boosterVars, faults>>

\* fcntl(F_SETLK), which no error but a lock of another process makes fail
\* unless the kernel is out of locks.
SetLock(p) ==
  /\ \/ /\ Goes(p, "fcntl", "locked") /\ holder[NameOf(p)] = None
        /\ holder' = [holder EXCEPT ![NameOf(p)] = p]
        /\ UNCHANGED <<g_lockFd, faults>>
     \/ /\ Goes(p, "fcntl", "activate")
        /\ \/ holder[NameOf(p)] # None /\ UNCHANGED faults
           \/ Fault
        /\ g_lockFd' = g_lockFd \ {p}
        /\ UNCHANGED holder
  /\ UNCHANGED <<appName, single, boosterVars>>

\* unlock(), or the end of the process.
Unlocked(p) ==
  /\ g_lockFd' = g_lockFd \ {p}
  /\ holder' = [n \in Names |-> IF holder[n] = p THEN None ELSE holder[n]]

-----------------------------------------------------------------------------
(* Booster::initialize()                                                   *)

\* A request is read.  If a single instance is asked for and there is a plugin,
\* lock() is called.
ReceiveRequest(b, i) ==
  /\ told[i] = "off"
  /\ \E wanted \in BOOLEAN :
       LET locks == wanted /\ b \in m_pluginEntry
       IN  /\ Goes(b, "idle", IF locks THEN "mkpath" ELSE "locked")
           /\ single' = IF locks THEN single \cup {b} ELSE single
  /\ m_connection' = [m_connection EXCEPT ![b] = i]
  /\ told' = [told EXCEPT ![i] = "asked"]
  /\ UNCHANGED <<appName, lockVars, m_pluginEntry, faults>>

\* A slip: the invoker is not told.
BoosterActivatesSilently(b) ==
  /\ b \in Boosters /\ Goes(b, "activate", "idle")
  /\ single' = single \ {b}
  /\ m_connection' = [m_connection EXCEPT ![b] = None]
  /\ UNCHANGED <<appName, told, lockVars, m_pluginEntry, faults>>

\* The call over D-Bus may fail.  The invoker is told an exit value, and the
\* booster waits for another.
BoosterActivates(b) ==
  /\ b \in Boosters /\ Goes(b, "activate", "idle")
  /\ \E value \in {"success", "failure"} : told' = [told EXCEPT ![m_connection[b]] = value]
  /\ single' = single \ {b}
  /\ m_connection' = [m_connection EXCEPT ![b] = None]
  /\ UNCHANGED <<appName, lockVars, m_pluginEntry, faults>>

\* A slip: closing the plugin takes the lock along.
BoosterLaunchesUnlocked(b) ==
  /\ b \in Boosters /\ Goes(b, "locked", "running")
  /\ m_pluginEntry' = IF b \in single THEN m_pluginEntry \ {b} ELSE m_pluginEntry
  /\ told' = [told EXCEPT ![m_connection[b]] = "launched"]
  /\ Unlocked(b)
  /\ UNCHANGED <<appName, single, m_connection, faults>>

\* The plugin is closed; the descriptor in its g_lockFd stays open.
BoosterLaunches(b) ==
  /\ b \in Boosters /\ Goes(b, "locked", "running")
  /\ m_pluginEntry' = IF b \in single THEN m_pluginEntry \ {b} ELSE m_pluginEntry
  /\ told' = [told EXCEPT ![m_connection[b]] = "launched"]
  /\ UNCHANGED <<appName, single, lockVars, m_connection, faults>>

-----------------------------------------------------------------------------
(* main()                                                                  *)

StartStandalone(s) ==
  /\ Goes(s, "off", "mkpath")
  /\ single' = single \cup {s}
  /\ UNCHANGED <<appName, lockVars, boosterVars, faults>>

StandaloneActivates(s) ==
  /\ s \in Standalones
  /\ \E value \in {"success", "failure"} : Goes(s, "activate", value)
  /\ UNCHANGED <<appName, single, lockVars, boosterVars, faults>>

StandaloneLaunches(s) ==
  /\ s \in Standalones /\ Goes(s, "locked", "running")
  /\ UNCHANGED <<appName, single, lockVars, boosterVars, faults>>

\* execve() fails: unlock().
ExecFails(s) ==
  /\ s \in Standalones /\ Goes(s, "locked", "ended") /\ Fault
  /\ Unlocked(s)
  /\ UNCHANGED <<appName, single, boosterVars>>

-----------------------------------------------------------------------------
\* The end of a process.  An invoker that was still to be told sees its
\* connection closed.
Ends(p) ==
  /\ pc' = [pc EXCEPT ![p] = "ended"] /\ Unlocked(p)
  /\ told' = [i \in Invokers |->
                IF told[i] = "asked" /\ p \in Boosters /\ m_connection[p] = i THEN "eof" ELSE told[i]]
  /\ UNCHANGED <<appName, single, m_pluginEntry, m_connection>>

ApplicationEnds(p) == pc[p] = "running" /\ Ends(p) /\ UNCHANGED faults

Crash(p) == pc[p] \in {"mkpath", "open", "fcntl", "activate", "locked"} /\ Ends(p) /\ Fault

\* The daemon forks a booster, which inherits the plugin.
ForkBooster(b) ==
  /\ Goes(b, "ended", "idle")
  /\ single' = single \ {b}
  /\ m_pluginEntry' = IF b \in single THEN m_pluginEntry \cup {b} ELSE m_pluginEntry
  /\ m_connection' = [m_connection EXCEPT ![b] = None]
  /\ UNCHANGED <<appName, lockVars, told, faults>>

-----------------------------------------------------------------------------
\* The plugin was loaded by each daemon, or could not be.
Init ==
  /\ pc = [p \in Procs |-> IF p \in Boosters THEN "idle" ELSE "off"]
  /\ appName \in [Invokers \cup Standalones -> Names] /\ single = {}
  /\ g_lockFd = {} /\ holder = [n \in Names |-> None]
  /\ m_pluginEntry \in SUBSET Boosters
  /\ m_connection = [b \in Boosters |-> None]
  /\ told = [i \in Invokers |-> "off"]
  /\ faults = 0

Lock(p) == MkPath(p) \/ OpenLock(p) \/ SetLock(p)
Runs(p) ==
  \/ Lock(p)
  \/ BoosterActivates(p) \/ BoosterLaunches(p)
  \/ StandaloneActivates(p) \/ StandaloneLaunches(p) \/ ExecFails(p)

Next ==
  \/ \E p \in Procs : Runs(p) \/ ApplicationEnds(p) \/ Crash(p)
  \/ \E b \in Boosters : ForkBooster(b) \/ \E i \in Invokers : ReceiveRequest(b, i)
  \/ \E s \in Standalones : StartStandalone(s)

Spec == Init /\ [][Next]_vars

\* No call of lock() or of the session bus blocks for good.
FairSpec == Spec /\ \A p \in Procs : WF_vars(Runs(p))

-----------------------------------------------------------------------------
\* The shape of the state.  Past lock() only a process that holds the lock has
\* the file open: a booster that goes on to the next request has closed it.
TypeOK ==
  /\ pc \in [Procs -> {"off", "idle", "mkpath", "open", "fcntl", "activate", "locked", "running",
                       "success", "failure", "ended"}]
  /\ appName \in [Invokers \cup Standalones -> Names] /\ single \subseteq Procs
  /\ holder \in [Names -> Procs \cup {None}]
  /\ m_pluginEntry \subseteq Boosters
  /\ m_connection \in [Boosters -> Invokers \cup {None}]
  /\ told \in [Invokers -> {"off", "asked", "launched", "success", "failure", "eof"}]
  /\ faults \in 0 .. MaxFaults
  /\ g_lockFd = {p \in Procs : pc[p] = "fcntl" \/ \E n \in Names : holder[n] = p}

\* Of those that were asked for as single instances no two processes run one
\* application, through dlclose() of the plugin and execve() in either of the
\* two programs.
SingleInstances ==
  \A p, q \in single :
    /\ pc[p] \in {"locked", "running"} /\ pc[q] \in {"locked", "running"}
    /\ NameOf(p) = NameOf(q)
    => p = q

\* Why: past lock() a single instance is the holder, who holds is past lock(),
\* and a booster comes back for another request without either.
LockInv ==
  /\ \A p \in single : pc[p] \in {"locked", "running"} => holder[NameOf(p)] = p
  /\ \A n \in Names, p \in Procs : holder[n] = p => pc[p] \in {"locked", "running"}
  /\ \A p \in single : pc[p] \notin {"off", "idle"}
  /\ \A b \in Boosters : pc[b] \notin {"off", "idle", "ended"} => m_connection[b] \in Invokers

\* Whose request it is: an invoker has one booster, is told of nothing else
\* while it has, and is told when it has lost it; a lock is held for the
\* request by which its process was asked to run alone.
RequestInv ==
  /\ \A b, c \in Boosters : m_connection[b] = m_connection[c] => b = c \/ m_connection[b] = None
  /\ \A b \in Boosters :
       /\ pc[b] = "idle" => m_connection[b] = None
       /\ m_connection[b] # None =>
            told[m_connection[b]] \in {"launched"} \cup {IF pc[b] = "ended" THEN "eof" ELSE "asked"}
  /\ \A p \in Procs : pc[p] \in {"mkpath", "open", "fcntl", "activate"} => p \in single
  /\ \A n \in Names, p \in Procs : holder[n] = p => p \in single /\ NameOf(p) = n

SingleInv == LockInv /\ RequestInv

\* Who still waits to be told has a booster at work on the request, in lock() or
\* past it: none goes back to accept() or ends and leaves its invoker asking.
NobodyLeftAsking ==
  \A i \in Invokers : told[i] = "asked" =>
    \E b \in Boosters : m_connection[b] = i
                       /\ pc[b] \in {"mkpath", "open", "fcntl", "activate", "locked"}

\* Who asks is launched, told of the instance there is, or sees the connection
\* closed.
RequestAnswered == \A i \in Invokers : told[i] = "asked" ~> told[i] # "asked"
\* What has become of it.
OutcomeAt(p) ==
  CASE pc[p] \in {"locked", "running"} -> IF p \in single THEN "started" ELSE "ended"
    [] pc[p] = "activate" -> "refused"
    [] pc[p] \in {"success", "failure", "ended"} -> pc[p]
    [] OTHER -> "none"

OutcomeTold(r) ==
  CASE told[r] \in {"success", "failure"} -> told[r]
    [] told[r] = "off" -> "none"
    [] OTHER -> "ended"

OutcomeOf(r) ==
  IF r \in Standalones THEN OutcomeAt(r)
  ELSE IF \E b \in Boosters : m_connection[b] = r
  THEN OutcomeAt(CHOOSE b \in Boosters : m_connection[b] = r)
  ELSE OutcomeTold(r)

Requests == Invokers \cup Standalones
Owners == [n \in Names |-> IF holder[n] = None THEN None ELSE RequestOf(holder[n])]
Outcomes == [r \in Requests |-> OutcomeOf(r)]

O == INSTANCE OneInstance WITH owner <- Owners, outcome <- Outcomes

\* Every step of the two programs is one of OneInstance: a request is refused
\* at fcntl(), and not unless there is an instance or a call has failed.
OneInstanceSpec == O!Spec
=============================================================================
