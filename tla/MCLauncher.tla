----------------------------- MODULE MCLauncher -----------------------------
(* Instances of Launcher for TLC. *)
EXTENDS LauncherInv, TLC

CONSTANTS p1, p2, p3, i1, i2, i3

\* Boosters differ in nothing but their pid.
PidSymmetry == Permutations(Pids)

\* What a state's future and the properties depend on: a free pid has no
\* history, and a daemon that has exited no memory, pipe or descriptors.
OfLive(f) == [p \in {q \in Pids : state[q] # "free"} |-> f[p]]
Relevant ==
  <<state, OfLive(status), OfLive(serves), OfLive(mode), OfLive(bornIn), fate,
    daemonLife, faults, told, misread, inv, sent, unsent,
    IF Running THEN <<signalVars, launcherSocket, openFds, memory, unvisited, sigReady, stateFile>>
               ELSE <<>> >>
=============================================================================
