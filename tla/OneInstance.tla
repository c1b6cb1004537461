---------------------------- MODULE OneInstance -----------------------------
(***************************************************************************)
(* What the single-instance facility promises ("allows only one instance   *)
(* of an application", doc/mainpage.dox): of the requests to run an        *)
(* application one at a time starts it, and any other is refused only      *)
(* because an instance was there or a call on the lock file had failed.    *)
(***************************************************************************)
EXTENDS Naturals

CONSTANTS Requests, Names, None

VARIABLES
  appName,   \* the application each request is for
  owner,     \* the request that runs each application
  outcome,   \* of each request
  faults     \* how many calls have failed

vars == <<appName, owner, outcome, faults>>

Init ==
  /\ appName \in [Requests -> Names]
  /\ owner = [n \in Names |-> None]
  /\ outcome = [r \in Requests |-> "none"]
  /\ faults = 0

Become(r, from, to) == outcome[r] \in from /\ outcome' = [outcome EXCEPT ![r] = to]

Start(r) ==
  /\ Become(r, {"none"}, "started")
  /\ owner[appName[r]] = None
  /\ owner' = [owner EXCEPT ![appName[r]] = r]
  /\ UNCHANGED <<appName, faults>>

\* The instance that stands in the way may have ended before the answer is given.
Refuse(r) ==
  /\ Become(r, {"none"}, "refused")
  /\ \/ owner[appName[r]] # None /\ UNCHANGED faults
     \/ faults' = faults + 1
  /\ UNCHANGED <<appName, owner>>

\* Its window is raised, or that fails.
Answer(r) ==
  /\ \E told \in {"success", "failure"} : Become(r, {"refused"}, told)
  /\ UNCHANGED <<appName, owner, faults>>

End(r) ==
  /\ Become(r, {"started"}, "ended")
  /\ owner' = [owner EXCEPT ![appName[r]] = None]
  /\ faults' \in {faults, faults + 1}
  /\ UNCHANGED appName

\* Started without a lock, as it was not asked for, or given up in a crash.
Leave(r) ==
  /\ Become(r, {"none", "refused"}, "ended")
  /\ faults' \in {faults, faults + 1}
  /\ UNCHANGED <<appName, owner>>

\* A process crashes that works for no request of these.
Fault == faults' = faults + 1 /\ UNCHANGED <<appName, owner, outcome>>

Next ==
  \/ \E r \in Requests : Start(r) \/ Refuse(r) \/ Answer(r) \/ End(r) \/ Leave(r)
  \/ Fault

Spec == Init /\ [][Next]_vars
=============================================================================
