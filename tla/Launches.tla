------------------------------ MODULE Launches ------------------------------
(***************************************************************************)
(* What the launcher promises its invokers, with the processes, queues,    *)
(* signals and restarts that bring it about left out: a request is served  *)
(* at most once, what serves it ends once, and an invoker started with     *)
(* --wait-term is told of that end, once and not before it, or loses its   *)
(* connection and leaves no application behind.                            *)
(***************************************************************************)
CONSTANTS
  Invokers,
  WaitTerm,    \* those who wait for the end of their application
  Outcomes     \* how that which serves an invoker may end

VARIABLES
  request,     \* what each invoker has asked for and got
  outcome,     \* the end of what served it, "none" before
  answer       \* what it has been told

vars == <<request, outcome, answer>>

Init ==
  /\ request = [i \in Invokers |-> "off"]
  /\ outcome = [i \in Invokers |-> "none"]
  /\ answer = [i \in Invokers |-> "none"]

Becomes(i, from, to) == request[i] = from /\ request' = [request EXCEPT ![i] = to]

Ask(i) == Becomes(i, "off", "queued") /\ UNCHANGED <<outcome, answer>>

Serve(i) == Becomes(i, "queued", "served") /\ UNCHANGED <<outcome, answer>>

\* One process ends, or several with the launcher.
EndOf(S) ==
  /\ \A i \in S : outcome[i] = "none"
  /\ \E end \in Outcomes :
       outcome' = [i \in Invokers |-> IF i \in S THEN end ELSE outcome[i]]

\* An answer tells an end that has come, a lost connection that there is one.
Tell(i) ==
  /\ i \in WaitTerm /\ request[i] = "served" /\ answer[i] = "none"
  /\ outcome'[i] # "none"
  /\ \E told \in {outcome'[i], "lost"} : answer' = [answer EXCEPT ![i] = told]

\* A user interrupts an invoker that waits, which takes its application along
\* unless that handles the signal.
Leave(i) ==
  /\ i \in WaitTerm /\ answer[i] = "none"
  /\ Becomes(i, "served", "left")
  /\ EndOf({i}) \/ UNCHANGED outcome
  /\ UNCHANGED answer

Happen ==
  /\ \E S \in SUBSET {i \in Invokers : request[i] \in {"served", "left"}} : EndOf(S)
  /\ UNCHANGED answer \/ \E i \in Invokers : Tell(i)
  /\ UNCHANGED request

Next == Happen \/ \E i \in Invokers : Ask(i) \/ Serve(i) \/ Leave(i)

Spec == Init /\ [][Next]_vars
=============================================================================
