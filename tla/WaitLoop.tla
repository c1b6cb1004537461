------------------------------ MODULE WaitLoop ------------------------------
(***************************************************************************)
(* The invoker while it waits for its application (invoker.c): the select  *)
(* loop of wait_for_launched_process_to_exit(), its signal forwarder and   *)
(* the self-pipe between them, against users who signal it, the booster    *)
(* that becomes its application, hands its connection to the daemon and    *)
(* ends, and a daemon that reports the end, or dies.                       *)
(*                                                                         *)
(* sig_forwarder() may run between any two steps of the loop and inside    *)
(* itself.  It is two steps: it passes the signal on, then it restores the *)
(* default handlers, writes to the pipe and raises the signal again, which *)
(* takes effect as it returns.  A signal is taken before its target runs   *)
(* on: one that comes later is one that was sent later.                    *)
(*                                                                         *)
(* No time passes: the pauses end at some point, as they do when a signal  *)
(* cuts a sleep() short.  The daemon reads a booster's message before it   *)
(* waits for it, which Launcher does not take for granted, and nobody else *)
(* is given the invoker's pid.                                             *)
(***************************************************************************)
EXTENDS Naturals, Sequences, FiniteSets

CONSTANTS
  ExitStatuses,  \* what an application may return
  UserSignals,   \* signals a user sends to the invoker
  CrashSignals,  \* signals a booster or an application may die of by itself
  MaxSignals     \* bound: how many of the user's are sent

Stops == {"SIGTSTP", "SIGTTIN", "SIGTTOU"}
Harmless == {"SIGCONT", "SIGWINCH", "SIGCHLD"}
Signals == UserSignals \cup CrashSignals \cup {"SIGKILL", "SIGHUP"}
Fatal(sig) == sig \notin Stops \cup Harmless

ASSUME WaitLoopAssumption ==
  /\ "SIGKILL" \notin UserSignals
  /\ \A sig \in CrashSignals : Fatal(sig)
  /\ {"none", "EXIT_FAILURE"} \cap Signals = {} /\ ExitStatuses \cap Signals = {}
  /\ MaxSignals \in Nat

VARIABLES
  pc,            \* where the loop is
  handlers,      \* "forward" or "default", for all signals at once
  inside,        \* the calls of sig_forwarder() under way, innermost last
  pending,       \* signals sent to the invoker and not yet taken
  stopped,       \* the invoker is stopped
  pipe,          \* bytes in g_signal_pipe
  status,        \* what it is to return
  end,           \* how the invoker ended, "none" while it lives
  app,           \* what g_invoked_pid names: see below
  appEnd,        \* how the application ended
  appSignals,    \* what was passed on to it
  conn,          \* who has the other end of the connection: "booster", "daemon",
                 \* or nobody: "exit" (INVOKER_MSG_EXIT was written) or "eof"
  handed,        \* history: its sendmsg() has not been called ("none"), "sent", "failed"
  daemon,        \* "idle", in reapZombies() ("reports", "kills") or "dead"
  signalsLeft,
  asked,         \* ghost: signals the user has sent
  missed,        \* ghost: those taken in the loop without being passed on
  struck,        \* ghost: a signal hit a process that is not the application
  late           \* ghost: sleep(2) was over before the daemon's kill()

invoker == <<pc, handlers, inside, pipe, status>>
application == <<app, appEnd, appSignals>>
launcher == <<conn, handed, daemon>>
user == <<signalsLeft, asked>>
ghosts == <<missed, struck, late>>
vars == <<invoker, pending, stopped, end, application, launcher, user, ghosts>>

\* The pid names the booster that serves the invoker, first before
\* sendDataToParent(), then until prctl() lets it survive the daemon, then the
\* application it has become; a zombie; nobody; or a process that is not the
\* invoker's, be it the booster, after it has turned the invoker away.
AppStates == {"serving", "sent", "app", "zombie", "reaped", "other"}
AppAlive == app \in {"serving", "sent", "app"}
DaemonUp == daemon # "dead"

\* The process dies, and with it the connection if it alone had it.
AppDies(how) ==
  /\ app' = "zombie" /\ appEnd' = how
  /\ conn' = IF conn = "booster" THEN "eof" ELSE conn

\* kill(g_invoked_pid, sig).  A zombie keeps its pid and notices nothing; the
\* default stop is discarded, as setsid() has left the group an orphan.
KillApp(sig) ==
  /\ struck' = (struck \/ app = "other")
  /\ appSignals' = IF AppAlive THEN appSignals \cup {sig} ELSE appSignals
  /\ IF AppAlive /\ sig = "SIGKILL" THEN AppDies(sig) ELSE UNCHANGED <<app, appEnd, conn>>

-----------------------------------------------------------------------------
(* Signals to the invoker.                                                 *)

\* kill(invoker, sig): a stop signal and SIGCONT cancel each other, and
\* SIGCONT ends the stop whether or not it is handled.
Send(sig) ==
  /\ pending' = IF end # "none" THEN pending
                ELSE (CASE sig = "SIGCONT" -> pending \ Stops
                        [] sig \in Stops -> pending \ {"SIGCONT"}
                        [] OTHER -> pending) \cup {sig}
  /\ stopped' = (stopped /\ sig # "SIGCONT")

\* Not blocked by a call of the forwarder for the same signal.
Deliverable(sig) == /\ sig \in pending /\ end = "none"
                    /\ sig = "SIGKILL" \/ (~stopped /\ \A i \in DOMAIN inside : inside[i] # sig)

\* What the kernel does by default.
DefaultAction(sig) ==
  /\ end' = IF Fatal(sig) THEN sig ELSE end
  /\ stopped' = (sig \in Stops)

\* sig_forwarder(), first half: the signal is passed on.
Forward(sig) ==
  /\ Deliverable(sig) /\ handlers = "forward" /\ sig # "SIGKILL"
  /\ KillApp(sig)
  /\ inside' = Append(inside, sig)
  /\ pending' = pending \ {sig}
  /\ UNCHANGED <<pc, handlers, pipe, status, stopped, end, handed, daemon, user, missed, late>>

\* A slip: the pipe is not written.
RaiseWithoutByte ==
  /\ inside # <<>> /\ end = "none" /\ ~stopped /\ \A sig \in pending : ~Deliverable(sig)
  /\ handlers' = "default"
  /\ inside' = SubSeq(inside, 1, Len(inside) - 1)
  /\ DefaultAction(inside[Len(inside)])
  /\ UNCHANGED <<pc, pipe, status, pending, application, launcher, user, ghosts>>

\* sig_forwarder(), second half: sigs_restore(), write(), raise().
Raise ==
  /\ inside # <<>> /\ end = "none" /\ ~stopped /\ \A sig \in pending : ~Deliverable(sig)
  /\ handlers' = "default"
  /\ pipe' = pipe + 1
  /\ inside' = SubSeq(inside, 1, Len(inside) - 1)
  /\ DefaultAction(inside[Len(inside)])
  /\ UNCHANGED <<pc, status, pending, application, launcher, user, ghosts>>

\* A signal comes while the default handlers are in place.
TakeByDefault(sig) ==
  /\ Deliverable(sig) /\ (handlers = "default" \/ sig = "SIGKILL")
  /\ DefaultAction(sig)
  /\ pending' = pending \ {sig}
  /\ missed' = IF AppAlive /\ pc # "start" /\ sig \in asked THEN missed \cup {sig} ELSE missed
  /\ UNCHANGED <<invoker, application, launcher, user, struck, late>>

-----------------------------------------------------------------------------
(* wait_for_launched_process_to_exit()                                     *)

\* The loop runs: the invoker is not in a handler, not stopped, not dead.
At(p) == /\ pc = p /\ end = "none" /\ inside = <<>> /\ ~stopped
         /\ \A sig \in pending : ~Deliverable(sig)
Elsewhere == UNCHANGED <<inside, pending, stopped, application, launcher, user, ghosts>>

\* sigs_init(), before the loop and again after a byte was read.
SigsInit ==
  /\ At("start") \/ At("init")
  /\ pc' = "select" /\ handlers' = "forward"
  /\ UNCHANGED <<pipe, status, end>> /\ Elsewhere

\* A slip: the result of select() is not looked at, EINTR is taken for an event.
SelectUnchecked ==
  /\ At("select")
  /\ pc' = IF conn \in {"exit", "eof"} THEN "receive" ELSE "drain"
  /\ UNCHANGED <<handlers, pipe, status, end>> /\ Elsewhere

\* select(): the connection comes first, the pipe only if it is silent.
Select ==
  /\ At("select")
  /\ conn \in {"exit", "eof"} \/ pipe > 0
  /\ pc' = IF conn \in {"exit", "eof"} THEN "receive" ELSE "drain"
  /\ UNCHANGED <<handlers, pipe, status, end>> /\ Elsewhere

\* read() of one byte of the pipe.
Drain ==
  /\ At("drain")
  /\ pipe' = pipe - 1 /\ pc' = "init"
  /\ UNCHANGED <<handlers, status, end>> /\ Elsewhere

\* A slip: an end of file is not told from a message of another kind.
RecvExitAgain ==
  /\ At("receive")
  /\ IF conn = "exit" THEN pc' = "leave" /\ status' = appEnd
                      ELSE pc' = "select" /\ UNCHANGED status
  /\ UNCHANGED <<handlers, pipe, end>> /\ Elsewhere

\* invoker_recv_exit(): the value, or an end of file and sleep(2).
RecvExit ==
  /\ At("receive")
  /\ IF conn = "exit" THEN pc' = "leave" /\ status' = appEnd
                      ELSE pc' = "pause" /\ UNCHANGED status
  /\ UNCHANGED <<handlers, pipe, end>> /\ Elsewhere

\* sleep(2) is over, "some time to cope with this situation" for the daemon.
WakeUp ==
  /\ At("pause")
  /\ pc' = "check" /\ late' = (late \/ daemon = "kills")
  /\ UNCHANGED <<handlers, inside, pipe, status, pending, stopped, end, application, launcher, user,
                 missed, struck>>

\* open("/proc/<pid>/cmdline"): whoever has the pid now, a zombie included.
CheckProc ==
  /\ At("check")
  /\ IF app = "reaped" THEN pc' = "leave" /\ status' = "EXIT_FAILURE"
                       ELSE pc' = "kill" /\ UNCHANGED status
  /\ UNCHANGED <<handlers, pipe, end>> /\ Elsewhere

\* A slip: the invoker goes without its application.
KillInvokedNot ==
  /\ At("kill")
  /\ pc' = "raise"
  /\ UNCHANGED <<handlers, pipe, status, end>> /\ Elsewhere

\* sleep(10) and kill(g_invoked_pid, SIGKILL).
KillInvoked ==
  /\ At("kill")
  /\ KillApp("SIGKILL")
  /\ pc' = "raise"
  /\ UNCHANGED <<handlers, inside, pipe, status, pending, stopped, end, handed, daemon, user,
                 missed, late>>

\* raise(SIGKILL)
KillSelf ==
  /\ At("raise")
  /\ end' = "SIGKILL"
  /\ UNCHANGED invoker /\ Elsewhere

\* sigs_restore() after the loop.
SigsRestore ==
  /\ At("leave")
  /\ pc' = "exit" /\ handlers' = "default"
  /\ UNCHANGED <<pipe, status, end>> /\ Elsewhere

\* main(): sleep(delay), return.
Exit ==
  /\ At("exit")
  /\ end' = status
  /\ UNCHANGED invoker /\ Elsewhere

-----------------------------------------------------------------------------
(* The booster and the application.                                        *)

\* A slip: the descriptor is left out of the message.
SendDataToParentWithoutFd ==
  /\ app = "serving" /\ DaemonUp
  /\ app' = "sent" /\ handed' = "sent"
  /\ UNCHANGED <<invoker, pending, stopped, end, appEnd, appSignals, conn, daemon, user, ghosts>>

\* sendDataToParent(): from now on the daemon has the connection, too.
SendDataToParent ==
  /\ app = "serving" /\ DaemonUp
  /\ app' = "sent" /\ handed' = "sent" /\ conn' = "daemon"
  /\ UNCHANGED <<invoker, pending, stopped, end, appEnd, appSignals, daemon, user, ghosts>>

\* Its sendmsg() fails, which is logged.
SendFails ==
  /\ app = "serving"
  /\ app' = "sent" /\ handed' = "failed"
  /\ UNCHANGED <<invoker, pending, stopped, end, appEnd, appSignals, conn, daemon, user, ghosts>>

\* The booster's copy of the connection is closed, PR_SET_PDEATHSIG cleared and
\* main() entered.
Launch ==
  /\ app = "sent"
  /\ app' = "app"
  /\ conn' = IF conn = "booster" THEN "eof" ELSE conn
  /\ UNCHANGED <<invoker, pending, stopped, end, appEnd, appSignals, handed, daemon, user, ghosts>>

\* A single instance runs already: the booster itself writes an exit value, one
\* of two that an application may return as well, and turns to others.
RejectInvoker(value) ==
  /\ app = "serving"
  /\ app' = "other" /\ appEnd' = value /\ conn' = "exit"
  /\ UNCHANGED <<invoker, pending, stopped, end, appSignals, handed, daemon, user, ghosts>>

\* The application returns or calls exit(); it or the booster dies of a signal,
\* one of its own, killBoosters()'s SIGTERM or one that was passed on.
AppEnds(how) ==
  /\ \/ app = "app" /\ how \in ExitStatuses
     \/ AppAlive /\ how \in CrashSignals \cup {sig \in appSignals : Fatal(sig)}
  /\ AppDies(how)
  /\ UNCHANGED <<invoker, pending, stopped, end, appSignals, handed, daemon, user, ghosts>>

-----------------------------------------------------------------------------
(* The daemon, init and the user.                                          *)

\* reapZombies(): waitpid().  Who has not handed its connection on is in no map.
DaemonWaits ==
  /\ daemon = "idle" /\ app = "zombie"
  /\ app' = "reaped"
  /\ daemon' = IF conn = "daemon" THEN "reports" ELSE "idle"
  /\ UNCHANGED <<invoker, pending, stopped, end, appEnd, appSignals, conn, handed, user, ghosts>>

\* It writes the exit value and closes the connection, or closes it first when
\* it is going to kill.
DaemonReports ==
  /\ daemon = "reports"
  /\ IF appEnd \in ExitStatuses THEN conn' = "exit" /\ daemon' = "idle"
                               ELSE conn' = "eof" /\ daemon' = "kills"
  /\ UNCHANGED <<invoker, pending, stopped, end, application, handed, user, ghosts>>

\* A slip: who has lost its connection is not killed.
DaemonKillsNot ==
  /\ daemon = "kills" /\ daemon' = "idle"
  /\ UNCHANGED <<invoker, pending, stopped, end, application, conn, handed, user, ghosts>>

\* The invoker is killed with the signal that killed the application.
DaemonKills ==
  /\ daemon = "kills" /\ daemon' = "idle"
  /\ Send(appEnd)
  /\ UNCHANGED <<invoker, end, application, conn, handed, user, ghosts>>

\* A booster that has asked for it dies with the daemon, of SIGHUP.
DaemonDies ==
  /\ DaemonUp /\ daemon' = "dead"
  /\ conn' = IF conn = "daemon" \/ app \in {"serving", "sent"} THEN "eof" ELSE conn
  /\ IF app \in {"serving", "sent"} THEN app' = "zombie" /\ appEnd' = "SIGHUP"
                                    ELSE UNCHANGED <<app, appEnd>>
  /\ UNCHANGED <<invoker, pending, stopped, end, appSignals, handed, user, ghosts>>

\* init inherits the application, and the pid is used again.
InitReaps ==
  /\ \/ ~DaemonUp /\ app = "zombie" /\ app' = "reaped"
     \/ app = "reaped" /\ app' = "other"
  /\ UNCHANGED <<invoker, pending, stopped, end, appEnd, appSignals, launcher, user, ghosts>>

UserSends(sig) ==
  /\ signalsLeft > 0 /\ end = "none"
  /\ Send(sig)
  /\ signalsLeft' = signalsLeft - 1 /\ asked' = asked \cup {sig}
  /\ UNCHANGED <<invoker, end, application, launcher, ghosts>>

-----------------------------------------------------------------------------
\* The booster has sent its pid.  One that had not yet called prctl() when the
\* daemon died serves on without it.
Init ==
  /\ pc = "start" /\ handlers = "default" /\ inside = <<>> /\ pipe = 0 /\ status = "none"
  /\ pending = {} /\ stopped = FALSE /\ end = "none"
  /\ app = "serving" /\ appEnd = "none" /\ appSignals = {}
  /\ conn = "booster" /\ handed = "none" /\ daemon \in {"idle", "dead"}
  /\ signalsLeft = MaxSignals /\ asked = {} /\ missed = {} /\ struck = FALSE /\ late = FALSE

Loop == \/ SigsInit \/ Select \/ Drain \/ RecvExit \/ WakeUp \/ CheckProc
        \/ KillInvoked \/ KillSelf \/ SigsRestore \/ Exit
Handle == Raise \/ \E sig \in Signals : Forward(sig) \/ TakeByDefault(sig)
BoosterRuns == \/ SendDataToParent \/ SendFails \/ Launch
               \/ \E value \in ExitStatuses : RejectInvoker(value)
DaemonRuns == DaemonWaits \/ DaemonReports \/ DaemonKills

Next ==
  \/ Loop \/ Handle \/ BoosterRuns \/ DaemonRuns
  \/ \E how \in ExitStatuses \cup Signals : AppEnds(how)
  \/ DaemonDies \/ InitReaps
  \/ \E sig \in UserSignals : UserSends(sig)

Spec == Init /\ [][Next]_vars
\* What is runnable runs: the invoker, its handlers, the booster and the daemon.
FairSpec ==
  Spec /\ WF_vars(Loop) /\ WF_vars(Handle) /\ WF_vars(BoosterRuns) /\ WF_vars(DaemonRuns)

-----------------------------------------------------------------------------
(* Properties.                                                             *)

Ends == ExitStatuses \cup Signals \cup {"EXIT_FAILURE"}

\* Types; and the pipe is not read when it is empty, which would block.
TypeOK ==
  /\ pc \in {"start", "select", "drain", "init", "receive", "pause", "check", "kill", "raise",
             "leave", "exit"}
  /\ handlers \in {"forward", "default"}
  /\ inside \in Seq(Signals) /\ pipe \in Nat /\ (pc = "drain" => pipe > 0)
  /\ {status, end, appEnd} \subseteq Ends \cup {"none"}
  /\ pending \subseteq Signals /\ stopped \in BOOLEAN
  /\ app \in AppStates /\ appSignals \subseteq Signals
  /\ conn \in {"booster", "daemon", "exit", "eof"} /\ handed \in {"none", "sent", "failed"}
  /\ daemon \in {"idle", "reports", "kills", "dead"}
  /\ signalsLeft \in 0 .. MaxSignals /\ asked \subseteq UserSignals
  /\ missed \subseteq UserSignals /\ struck \in BOOLEAN /\ late \in BOOLEAN

\* The self-pipe: while the loop is about to wait with the default handlers in
\* place, a byte is there to make it install the forwarder again.
ForwardsAgain == pc = "select" /\ handlers = "default" /\ inside = <<>> => pipe > 0

\* When the invoker may end by itself, without a report: the daemon is dead, the
\* booster has not handed its connection on, or the pause after the daemon's
\* close() was over before its kill().
Unreported == ~DaemonUp \/ handed # "sent" \/ late

\* limitations.dox:90-92, "The invoker returns the same return value as the
\* application did, or it is terminated by the same signal": unless the user
\* killed the invoker or nothing was reported to it in time, and then no
\* application is left.
EndsAsApplication ==
  end # "none" =>
    \/ end = appEnd
    \/ end \in asked
    \/ Unreported /\ ~AppAlive /\ end \in {"SIGKILL", "EXIT_FAILURE"}

\* invoker.c:484-486: who gets as far as the check of /proc kills an application
\* that still runs.  It is one whose daemon is dead or never had its connection,
\* and not one that the daemon knows and is to report on.
OnlyOrphansKilled ==
  pc \in {"pause", "check", "kill"} /\ AppAlive => ~DaemonUp \/ handed = "failed"

\* The inductive invariant.  A signal that can end the invoker is on its way to
\* it, or in a call of the forwarder, exactly as long as it takes; it is the
\* user's or the one that killed the application.
OnItsWay(sig) == sig \in pending \/ \E i \in DOMAIN inside : inside[i] = sig

AppEndKnown ==
  IF AppAlive THEN appEnd = "none"
              ELSE appEnd \in ExitStatuses \/ (appEnd \in Signals /\ Fatal(appEnd))

\* The connection is where the booster and the daemon have left it.
ConnectionInv ==
  /\ app = "serving" => conn = "booster" /\ handed = "none"
  /\ app \in {"sent", "app"} => handed # "none"
  /\ conn = "booster" => app \in {"serving", "sent"} /\ handed # "sent"
  /\ conn = "daemon" => DaemonUp /\ handed = "sent"
  /\ conn = "exit" => ~AppAlive
  /\ conn = "eof" /\ AppAlive => ~DaemonUp \/ handed = "failed"
  /\ daemon = "reports" => conn = "daemon" /\ ~AppAlive
  /\ daemon = "kills" => /\ conn = "eof" /\ handed = "sent" /\ ~AppAlive
                         /\ appEnd \in Signals

WaitInv ==
  /\ ForwardsAgain /\ EndsAsApplication /\ OnlyOrphansKilled
  /\ AppEndKnown /\ ConnectionInv
  /\ pc = "receive" => conn \in {"exit", "eof"}
  /\ pc \in {"pause", "check", "kill", "raise"} => conn = "eof"
  /\ pc \in {"check", "kill", "raise"} => Unreported
  /\ conn = "eof" /\ end = "none" =>
       \/ Unreported \/ daemon = "kills"
       \/ \E sig \in Signals : Fatal(sig) /\ OnItsWay(sig)
  /\ \A sig \in Signals : Fatal(sig) /\ OnItsWay(sig) =>
       sig \in asked \/ (~AppAlive /\ sig = appEnd)
  /\ pc = "raise" => ~AppAlive
  /\ pc \in {"leave", "exit"} =>
       ~AppAlive /\ (status = appEnd \/ (Unreported /\ status = "EXIT_FAILURE"))

\* Once the application has ended or the daemon is dead the invoker ends,
\* whatever signals come in between, unless one stops it.
WaitEnds == ~AppAlive \/ ~DaemonUp ~> end # "none" \/ stopped

\* limitations.dox:92-93, "Signals received by the invoker process are forwarded
\* to the launched application".
SignalsForwarded == missed = {}

\* invoker.c:485-486, "we check if the invoked process is also dead and if not, we
\* will kill it": no signal goes to anybody else.
OnlyApplicationStruck == ~struck
=============================================================================
