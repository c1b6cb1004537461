----------------------------- MODULE InvokerProofs ---------------------------
(***************************************************************************)
(* Every invoker is served, reported to and let go of as it should, for    *)
(* any number of processes, invokers, signals and failures: InvokerInv,    *)
(* the third layer of the inductive invariant, and the refinement of       *)
(* Launches.                                                               *)
(*                                                                         *)
(* Both rest on ServiceStep, which says in one formula all that a step of  *)
(* the launcher may do to the processes that serve an invoker, to the      *)
(* invokers and to what they are told; only Accept, which begins a         *)
(* service, is treated apart.                                              *)
(***************************************************************************)
EXTENDS ChildProofs

-----------------------------------------------------------------------------
(* What a step may do to a service.                                        *)

Serving(p) == state[p] \in {"serving", "sent", "app"}

\* Process p ends its service, by its end or by turning the invoker away.
EndsService(p) == Serving(p) /\ ~Serving(p)'

\* The invokers that are served no more.
Dropped == {serves[p] : p \in {q \in Pids : EndsService(q)}}

\* Process p is where it was,
Stays(p) == /\ state'[p] = state[p] /\ serves'[p] = serves[p]
            /\ state[p] = "zombie" => status'[p] = status[p]

\* or goes on serving the same invoker,
ServesOn(p) == Serving(p) /\ Serving(p)' /\ serves'[p] = serves[p]

\* or serves nobody: it waits for a request, is forked, dies, or is waited for.
ServesNobody(p) ==
  \/ state'[p] \in {"forked", "restored", "idle"} /\ serves'[p] = NoInvoker
  \/ state'[p] = "free"
  \/ /\ state[p] \notin {"free", "zombie"} /\ state'[p] = "zombie"
     /\ serves'[p] = serves[p] /\ status'[p] # "none"
     /\ Serving(p) => fate'[serves[p]] = status'[p]

\* One way of ending has come to the invokers that are served no more.
Outcome(end) ==
  /\ fate' = [i \in Invokers |-> IF i \in Dropped THEN end ELSE fate[i]]
  /\ end = "SIGKILL" => \A i \in Dropped : told'[i] = "lost"

\* An invoker sends its request, or is interrupted.
InvokersMove ==
  \/ UNCHANGED inv
  \/ /\ UNCHANGED told /\ Dropped = {}
     /\ \E i \in Invokers : inv[i] = "off" /\ inv' = [inv EXCEPT ![i] = "queued"]
  \/ /\ UNCHANGED told
     /\ \E i \in StillWaiting : Dropped \subseteq {i} /\ inv' = [inv EXCEPT ![i] = "gone"]

\* An invoker that waits is told something that is not wrong: how it ended
\* when it has ended, or that the connection is lost when it has ended.
Answered(i, x) ==
  /\ told' = [told EXCEPT ![i] = x]
  /\ x \in Statuses \cup {"rejected", "lost"}
  /\ misread'
       \/ /\ fate'[i] # "none" /\ x \in {fate'[i], "lost"}
          /\ x \in Statuses => \A p \in Pids : Live(p)' => serves'[p] # i

ServiceStep ==
  /\ misread => misread'
  /\ \A p \in Pids : Stays(p) \/ ServesOn(p) \/ ServesNobody(p)
  /\ \E end \in Statuses \cup {"rejected"} : Outcome(end)
  /\ InvokersMove
  /\ UNCHANGED told \/ \E i \in StillWaiting : \E x : Answered(i, x)

-----------------------------------------------------------------------------
(* ServiceStep keeps ServicePart.                                          *)

\* The answers that are not the status of a process.
LEMMA StatusNames ==
  /\ "none" \notin Statuses /\ "rejected" \notin Statuses /\ "lost" \notin Statuses
  /\ {"SIGTERM", "SIGHUP", "SIGKILL", "SIGABRT"} \subseteq Statuses
  /\ "SIGKILL" \notin ExitStatuses
  /\ ExitStatuses \subseteq Statuses
BY StatusAssumption DEF Statuses, DeathSignals

\* Whatever a step of this kind does, who serves whom, how it ended and what
\* was told of it still fit together.
LEMMA ServiceKept ==
  ASSUME QueueInv, QueueInv', ServicePart, ServiceStep
  PROVE  ServicePart'
<1>t. /\ state \in [Pids -> States] /\ state' \in [Pids -> States]
      /\ serves \in [Pids -> Invokers \cup {NoInvoker}]
      /\ serves' \in [Pids -> Invokers \cup {NoInvoker}]
      /\ fate \in [Invokers -> Statuses \cup {"none", "rejected"}]
      /\ fate' \in [Invokers -> Statuses \cup {"none", "rejected"}]
      /\ told \in [Invokers -> Statuses \cup {"none", "rejected", "lost"}]
      /\ told' \in [Invokers -> Statuses \cup {"none", "rejected", "lost"}]
      /\ inv \in [Invokers -> {"off", "queued", "waiting", "done", "gone"}]
      /\ inv' \in [Invokers -> {"off", "queued", "waiting", "done", "gone"}]
      /\ misread \in BOOLEAN /\ misread' \in BOOLEAN
  BY DEF QueueInv, TypeOK, KernelTypeOK, DaemonTypeOK, InvokerTypeOK
<1>s. ServiceInv /\ UnservedInv /\ FateInv /\ ToldInv /\ WaiterInv /\ RightOutcomeInStep
  BY DEF ServicePart
<1>e. PICK end \in Statuses \cup {"rejected"} : Outcome(end)
  BY DEF ServiceStep
<1>n. end # "none"
  BY StatusNames
<1>p. \A p \in Pids : Stays(p) \/ ServesOn(p) \/ ServesNobody(p)
  BY DEF ServiceStep
\* A process that is there after the step and serves i served i before it.
<1>q. ASSUME NEW p \in Pids, Live(p)', serves'[p] # NoInvoker
      PROVE  Live(p) /\ serves'[p] = serves[p] /\ (Serving(p)' => Serving(p))
  BY <1>p, <1>q DEF Stays, ServesOn, ServesNobody, Live, Serving
\* The fates of the others are as before.
<1>f. ASSUME NEW i \in Invokers
      PROVE  fate'[i] = IF i \in Dropped THEN end ELSE fate[i]
  BY <1>e DEF Outcome
<1>1. ServiceInv'
  <2>1. ASSUME NEW p \in Pids
        PROVE  /\ state'[p] \in {"forked", "restored", "idle"} => serves'[p] = NoInvoker
               /\ state'[p] \in {"serving", "sent", "app"} => serves'[p] # NoInvoker
    BY <1>p, <1>s DEF ServiceInv, Stays, ServesOn, ServesNobody, Serving
  <2>2. ASSUME NEW p \in Pids, NEW q \in Pids, Live(p)', Live(q)', p # q,
               serves'[p] = serves'[q]
        PROVE  serves'[p] = NoInvoker
    BY <1>q, <1>s, <2>2 DEF ServiceInv
  <2> QED
    BY <2>1, <2>2 DEF ServiceInv
\* Nobody is dropped twice, or before he is served.
<1>d. ASSUME NEW i \in Dropped
      PROVE  /\ i \in Invokers /\ fate[i] = "none"
             /\ inv[i] \notin {"off", "queued"} /\ (~misread => told[i] \notin Statuses)
  <2>1. PICK p \in Pids : EndsService(p) /\ serves[p] = i
    BY <1>d DEF Dropped
  <2>2. Live(p) /\ i # NoInvoker /\ i \in Invokers
    BY <1>s, <1>t, <2>1 DEF EndsService, Serving, Live, ServiceInv
  <2> QED
    BY <1>s, <2>1, <2>2 DEF EndsService, Serving, FateInv, UnservedInv, ToldInv
<1>i. ASSUME NEW i \in Invokers
      PROVE  /\ inv'[i] \in {"off", "queued"} => inv[i] \in {"off", "queued"}
             /\ inv'[i] \in {"waiting", "gone"} => inv[i] \in {"waiting", "gone"}
             /\ inv'[i] = "done" => inv[i] = "done"
  BY <1>t DEF ServiceStep, InvokersMove, StillWaiting
<1>a. ASSUME NEW i \in Invokers, told'[i] # told[i]
      PROVE  /\ i \in StillWaiting
             /\ misread' \/ /\ fate'[i] # "none" /\ told'[i] \in {fate'[i], "lost"}
                            /\ told'[i] \in Statuses =>
                                 \A p \in Pids : Live(p)' => serves'[p] # i
  BY <1>t, <1>a DEF ServiceStep, Answered, StillWaiting
<1>2. UnservedInv'
  <2> SUFFICES ASSUME NEW i \in Invokers, inv'[i] \in {"off", "queued"}
               PROVE  /\ \A p \in Pids : Live(p)' => serves'[p] # i
                      /\ told'[i] = "none" /\ fate'[i] = "none"
    BY DEF UnservedInv
  <2>1. inv[i] \in {"off", "queued"} /\ i # NoInvoker
    BY <1>i, InvokerAssumption
  <2>2. i \notin Dropped /\ told'[i] = told[i]
    BY <1>a, <1>d, <2>1 DEF StillWaiting
  <2> QED
    BY <1>f, <1>q, <1>s, <2>1, <2>2 DEF UnservedInv
<1>3. FateInv'
  <2>1. ASSUME NEW p \in Pids, state'[p] = "zombie"
        PROVE  status'[p] # "none"
    BY <1>p, <1>s, <2>1 DEF Stays, ServesOn, ServesNobody, Serving, FateInv
  <2>2. ASSUME NEW p \in Pids, serves'[p] # NoInvoker, Live(p)', serves[p] \in Dropped
        PROVE  EndsService(p)
    <3>1. PICK q \in Pids : EndsService(q) /\ serves[q] = serves[p]
      BY <2>2 DEF Dropped
    <3>2. Live(q) /\ serves[q] # NoInvoker /\ Live(p)
      BY <1>q, <1>s, <2>2, <3>1 DEF EndsService, Serving, Live, ServiceInv
    <3> QED
      BY <1>s, <3>1, <3>2 DEF ServiceInv
  <2>3. ASSUME NEW p \in Pids, serves'[p] # NoInvoker, Serving(p)'
        PROVE  fate'[serves'[p]] = "none"
    <3>1. Live(p)' /\ serves'[p] = serves[p] /\ Serving(p) /\ serves[p] \in Invokers
      BY <1>q, <1>t, <2>3 DEF Serving, Live
    <3>2. serves[p] \notin Dropped
      BY <2>2, <2>3, <3>1 DEF EndsService
    <3> QED
      BY <1>f, <1>s, <2>3, <3>1, <3>2 DEF FateInv, Serving
  <2>4. ASSUME NEW p \in Pids, serves'[p] # NoInvoker, state'[p] = "zombie"
        PROVE  fate'[serves'[p]] = status'[p]
    <3>1. Live(p)' /\ Live(p) /\ serves'[p] = serves[p] /\ serves[p] \in Invokers
      BY <1>q, <1>t, <2>4 DEF Live
    <3>2. CASE Serving(p)
      BY <1>p, <2>4, <3>1, <3>2 DEF Stays, ServesOn, ServesNobody, Serving
    <3>3. CASE state[p] = "zombie"
      <4>1. serves[p] \notin Dropped
        BY <2>2, <2>4, <3>1, <3>3 DEF EndsService, Serving
      <4>2. CASE Stays(p)
        BY <1>f, <1>s, <2>4, <3>1, <3>3, <4>1, <4>2 DEF FateInv, Stays
      <4> QED
        BY <1>p, <2>4, <3>3, <4>2 DEF Serving, ServesOn, ServesNobody
    <3>4. CASE state[p] \in {"forked", "restored", "idle"}
      BY <1>s, <2>4, <3>1, <3>4 DEF ServiceInv
    <3> QED
      BY <1>t, <3>1, <3>2, <3>3, <3>4 DEF States, Serving, Live
  <2>5. ASSUME NEW i \in Invokers, inv'[i] \in {"waiting", "done", "gone"}
        PROVE  ServerOf(i)' # {} \/ fate'[i] # "none"
    <3>1. CASE i \in Dropped
      BY <1>f, <1>n, <3>1
    <3>2. CASE i \notin Dropped /\ fate[i] # "none"
      BY <1>f, <3>2
    <3>3. CASE i \notin Dropped /\ fate[i] = "none"
      <4>1. inv[i] \in {"waiting", "done", "gone"}
        BY <1>i, <2>5
      <4>2. PICK p \in Pids : serves[p] = i /\ Serving(p)
        BY <1>s, <3>3, <4>1 DEF FateInv, ServerOf, Serving
      <4>3. Serving(p)'
        BY <3>3, <4>2 DEF Dropped, EndsService
      <4>4. serves'[p] = i
        BY <1>p, <4>2, <4>3 DEF Stays, ServesOn, ServesNobody, Serving
      <4> QED
        BY <4>3, <4>4 DEF ServerOf, Serving
    <3> QED
      BY <3>1, <3>2, <3>3
  <2> QED
    BY <2>1, <2>3, <2>4, <2>5 DEF FateInv, Serving
<1>4. ToldInv'
  <2> SUFFICES ASSUME ~misread', NEW i \in Invokers, told'[i] \in Statuses,
                      NEW p \in Pids, Live(p)', serves'[p] = i
               PROVE  FALSE
    BY DEF ToldInv
  <2>1. ~misread
    BY DEF ServiceStep
  <2>2. CASE told'[i] = told[i]
    BY <1>q, <1>s, <2>1, <2>2, InvokerAssumption DEF ToldInv
  <2>3. CASE told'[i] # told[i]
    BY <1>a, <2>3
  <2> QED
    BY <2>2, <2>3
<1>5. WaiterInv'
  <2>1. ASSUME NEW i \in Invokers, inv'[i] \in {"waiting", "gone"}
        PROVE  i \in WaitTerm
    BY <1>i, <1>s, <2>1 DEF WaiterInv
  <2>2. ASSUME NEW i \in Invokers, fate'[i] = "SIGKILL"
        PROVE  told'[i] = "lost"
    <3>1. CASE i \in Dropped
      BY <1>e, <1>f, <2>2, <3>1 DEF Outcome
    <3>2. CASE i \notin Dropped
      BY <1>a, <1>f, <1>s, <2>2, <3>2 DEF WaiterInv, StillWaiting
    <3> QED
      BY <3>1, <3>2
  <2> QED
    BY <2>1, <2>2 DEF WaiterInv
<1>6. RightOutcomeInStep'
  <2> SUFFICES ASSUME ~misread', NEW i \in Invokers, told'[i] \in Statuses
               PROVE  told'[i] = fate'[i]
    BY DEF RightOutcomeInStep, RightOutcome
  <2>1. ~misread
    BY DEF ServiceStep
  <2>2. CASE told'[i] = told[i]
    BY <1>d, <1>f, <1>s, <2>1, <2>2 DEF RightOutcomeInStep, RightOutcome
  <2>3. CASE told'[i] # told[i]
    BY <1>a, <2>3, StatusNames
  <2> QED
    BY <2>2, <2>3
<1> QED
  BY <1>1, <1>2, <1>3, <1>4, <1>5, <1>6 DEF ServicePart

-----------------------------------------------------------------------------
(* ServiceStep is a step of Launches, and so is Accept.                    *)

\* What Launches sees of the invokers.
Requested == [i \in Invokers |->
                CASE inv[i] \in {"waiting", "done"} -> "served"
                  [] inv[i] = "gone" -> "left"
                  [] OTHER -> inv[i]]

\* A request goes from one stage to the next in Launches as it does here.
LEMMA RequestBecomes ==
  ASSUME inv \in [Invokers -> {"off", "queued", "waiting", "done", "gone"}],
         NEW i \in Invokers, NEW to \in {"off", "queued", "waiting", "done", "gone"},
         inv' = [inv EXCEPT ![i] = to]
  PROVE  Requested' = [Requested EXCEPT ![i] = CASE to \in {"waiting", "done"} -> "served"
                                                 [] to = "gone" -> "left"
                                                 [] OTHER -> to]
BY DEF Requested

\* As long as no message has been misattributed, a step of this kind is one
\* that Launches allows.
LEMMA ServiceStepLaunches ==
  ASSUME QueueInv, QueueInv', ServicePart, ServiceStep, ~misread'
  PROVE  [L!Next]_(L!vars)
<1>t. /\ serves \in [Pids -> Invokers \cup {NoInvoker}]
      /\ fate \in [Invokers -> Statuses \cup {"none", "rejected"}]
      /\ fate' \in [Invokers -> Statuses \cup {"none", "rejected"}]
      /\ told \in [Invokers -> Statuses \cup {"none", "rejected", "lost"}]
      /\ inv \in [Invokers -> {"off", "queued", "waiting", "done", "gone"}]
  BY DEF QueueInv, TypeOK, KernelTypeOK, DaemonTypeOK, InvokerTypeOK
<1>s. ServiceInv /\ UnservedInv /\ FateInv /\ WaiterInv
  BY DEF ServicePart
<1>e. PICK end \in Statuses \cup {"rejected"} : Outcome(end)
  BY DEF ServiceStep
<1>d. ASSUME NEW i \in Dropped
      PROVE  /\ i \in Invokers /\ fate[i] = "none"
             /\ inv[i] \in {"waiting", "done", "gone"}
  <2>1. PICK p \in Pids : EndsService(p) /\ serves[p] = i
    BY <1>d DEF Dropped
  <2>2. Live(p) /\ i # NoInvoker /\ i \in Invokers
    BY <1>s, <1>t, <2>1 DEF EndsService, Serving, Live, ServiceInv
  <2> QED
    BY <1>s, <1>t, <2>1, <2>2 DEF EndsService, Serving, FateInv, UnservedInv
<1>r. ASSUME NEW i \in Invokers
      PROVE  /\ inv[i] = "off" => Requested[i] = "off"
             /\ inv[i] = "waiting" => Requested[i] = "served"
             /\ inv[i] = "done" => Requested[i] = "served"
             /\ inv[i] = "gone" => Requested[i] = "left"
  BY <1>t DEF Requested
<1>l. /\ L!vars = <<Requested, fate, told>>
      /\ \A S : L!EndOf(S) <=>
           /\ \A i \in S : fate[i] = "none"
           /\ \E x \in Statuses \cup {"rejected"} :
                fate' = [i \in Invokers |-> IF i \in S THEN x ELSE fate[i]]
  BY DEF L!vars, L!EndOf, Requested
<1>1. Dropped \subseteq {i \in Invokers : Requested[i] \in {"served", "left"}}
        /\ L!EndOf(Dropped)
  BY <1>d, <1>e, <1>l, <1>r DEF Outcome
<1>2. CASE UNCHANGED inv
  <2>1. UNCHANGED Requested
    BY <1>2 DEF Requested
  <2>2. UNCHANGED told \/ \E i \in Invokers : L!Tell(i)
    <3>1. SUFFICES ASSUME NEW i \in StillWaiting, NEW x, Answered(i, x)
                   PROVE  L!Tell(i)
      BY DEF ServiceStep, StillWaiting
    <3>2. i \in WaitTerm /\ Requested[i] = "served" /\ told[i] = "none" /\ i \in Invokers
      BY <1>r, <1>s, <3>1 DEF StillWaiting, WaiterInv
    <3>3. fate'[i] # "none" /\ x \in {fate'[i], "lost"} /\ told' = [told EXCEPT ![i] = x]
      BY <3>1 DEF Answered
    <3> QED
      BY <3>2, <3>3 DEF L!Tell, Requested
  <2>3. L!Happen
    BY <1>1, <2>1, <2>2 DEF L!Happen, Requested
  <2> QED
    BY <2>3 DEF L!Next
<1>3. ASSUME UNCHANGED told, Dropped = {}, NEW i \in Invokers, inv[i] = "off",
             inv' = [inv EXCEPT ![i] = "queued"]
      PROVE  L!Next
  <2>1. Requested[i] = "off" /\ Requested' = [Requested EXCEPT ![i] = "queued"]
    BY <1>3, <1>r, <1>t, RequestBecomes
  <2>2. fate' = fate
    BY <1>e, <1>3, <1>t DEF Outcome
  <2>3. L!Ask(i)
    BY <1>3, <2>1, <2>2 DEF L!Ask, L!Becomes, Requested
  <2> QED
    BY <2>3 DEF L!Next
<1>4. ASSUME UNCHANGED told, NEW i \in StillWaiting, Dropped \subseteq {i},
             inv' = [inv EXCEPT ![i] = "gone"]
      PROVE  L!Next
  <2>0. i \in Invokers /\ inv[i] = "waiting" /\ told[i] = "none" /\ i \in WaitTerm
    BY <1>s DEF StillWaiting, WaiterInv
  <2>1. Requested[i] = "served" /\ Requested' = [Requested EXCEPT ![i] = "left"]
    BY <1>4, <1>r, <1>t, <2>0, RequestBecomes
  <2>2. L!EndOf({i}) \/ UNCHANGED fate
    <3>1. CASE Dropped = {i}
      BY <1>1, <3>1
    <3>2. CASE Dropped = {}
      BY <1>e, <1>t, <3>2 DEF Outcome
    <3> QED
      BY <1>4, <3>1, <3>2
  <2>3. L!Leave(i)
    BY <1>4, <2>0, <2>1, <2>2 DEF L!Leave, L!Becomes, Requested
  <2> QED
    BY <2>0, <2>3 DEF L!Next
<1> QED
  BY <1>2, <1>3, <1>4 DEF ServiceStep, InvokersMove

-----------------------------------------------------------------------------
(* Accept, the step that begins a service.                                 *)

\* An invoker nobody knows of gets a booster that serves nobody.
LEMMA AcceptKeepsService ==
  ASSUME QueueInv, QueueInv', ServicePart, NEW p \in Pids, NEW i \in Invokers, Accept(p, i)
  PROVE  ServicePart' /\ [L!Next]_(L!vars)
<1>t. /\ state \in [Pids -> States] /\ serves \in [Pids -> Invokers \cup {NoInvoker}]
      /\ inv \in [Invokers -> {"off", "queued", "waiting", "done", "gone"}]
  BY DEF QueueInv, TypeOK, KernelTypeOK, InvokerTypeOK
<1>s. ServiceInv /\ UnservedInv /\ FateInv /\ ToldInv /\ WaiterInv /\ RightOutcomeInStep
  BY DEF ServicePart
<1>a. /\ inv[i] = "queued" /\ inv' = [inv EXCEPT ![i] = IF i \in WaitTerm THEN "waiting" ELSE "done"]
      /\ state[p] = "idle" /\ state' = [state EXCEPT ![p] = "serving"]
      /\ serves' = [serves EXCEPT ![p] = i]
      /\ UNCHANGED <<status, fate, told, misread>>
  BY DEF Accept, AcceptInvoker, daemonVars
<1>u. /\ told[i] = "none" /\ fate[i] = "none" /\ i # NoInvoker
      /\ \A q \in Pids : Live(q) => serves[q] # i
  BY <1>a, <1>s, InvokerAssumption DEF UnservedInv
<1>q. /\ state'[p] = "serving" /\ serves'[p] = i
      /\ \A q \in Pids : q # p => state'[q] = state[q] /\ serves'[q] = serves[q]
      /\ \A j \in Invokers : j # i => inv'[j] = inv[j]
      /\ inv'[i] \in {"waiting", "done"} /\ (inv'[i] = "waiting" => i \in WaitTerm)
  BY <1>a, <1>t
<1>1. ServiceInv'
  BY <1>q, <1>s, <1>u DEF ServiceInv, Live
<1>2. UnservedInv'
  BY <1>a, <1>q, <1>s, <1>t DEF UnservedInv, Live
<1>3. FateInv'
  <2>1. ASSUME NEW q \in Pids
        PROVE  /\ state'[q] = "zombie" => status'[q] # "none"
               /\ serves'[q] # NoInvoker =>
                    /\ state'[q] \in {"serving", "sent", "app"} => fate'[serves'[q]] = "none"
                    /\ state'[q] = "zombie" => fate'[serves'[q]] = status'[q]
    BY <1>a, <1>q, <1>s, <1>u DEF FateInv
  <2>2. ASSUME NEW j \in Invokers, inv'[j] \in {"waiting", "done", "gone"}
        PROVE  ServerOf(j)' # {} \/ fate'[j] # "none"
    <3>1. CASE j = i
      BY <1>q, <3>1 DEF ServerOf
    <3>2. CASE j # i /\ ServerOf(j) # {}
      <4>1. PICK q \in ServerOf(j) : TRUE
        BY <3>2
      <4>2. q \in ServerOf(j)'
        BY <1>a, <1>q, <4>1 DEF ServerOf
      <4> QED
        BY <4>2
    <3>3. CASE j # i /\ fate[j] # "none"
      BY <1>a, <3>3
    <3> QED
      BY <1>q, <1>s, <2>2, <3>1, <3>2, <3>3 DEF FateInv
  <2> QED
    BY <2>1, <2>2 DEF FateInv
<1>4. ToldInv'
  BY <1>a, <1>q, <1>s, <1>u, StatusNames DEF ToldInv, Live
<1>5. WaiterInv'
  BY <1>a, <1>q, <1>s DEF WaiterInv
<1>6. RightOutcomeInStep'
  BY <1>a, <1>s DEF RightOutcomeInStep, RightOutcome
<1>7. L!Serve(i)
  <2>1. Requested[i] = "queued"
    BY <1>a DEF Requested
  <2>2. Requested' = [Requested EXCEPT ![i] = "served"]
    BY <1>a, <1>t, RequestBecomes
  <2> QED
    BY <1>a, <2>1, <2>2 DEF L!Serve, L!Becomes, Requested
<1> QED
  BY <1>1, <1>2, <1>3, <1>4, <1>5, <1>6, <1>7 DEF ServicePart, L!Next

-----------------------------------------------------------------------------
(* What makes a ServiceStep.                                               *)

\* The part of ServiceStep that is about processes.
ProcessesMove ==
  /\ \A p \in Pids : Stays(p) \/ ServesOn(p) \/ ServesNobody(p)
  /\ \E end \in Statuses \cup {"rejected"} : Outcome(end)

\* A step at which no process ends its service leaves the fates alone.
LEMMA NobodyDropped ==
  ASSUME fate \in [Invokers -> Statuses \cup {"none", "rejected"}], UNCHANGED fate,
         \A p \in Pids : Stays(p) \/ ServesOn(p) \/ (ServesNobody(p) /\ ~Serving(p))
  PROVE  ProcessesMove /\ Dropped = {}
<1>1. Dropped = {}
  BY DEF Dropped, EndsService, Stays, ServesOn, Serving
<1>2. Outcome("rejected")
  BY <1>1 DEF Outcome
<1> QED
  BY <1>1, <1>2 DEF ProcessesMove

\* A process dies.
LEMMA DieMoves ==
  ASSUME QueueInv, ServiceInv, NEW p \in Pids, NEW st \in Statuses, Die(p, st),
         state[p] \notin {"free", "zombie"}, UNCHANGED serves,
         st = "SIGKILL" => told'[serves[p]] = "lost"
  PROVE  ProcessesMove /\ Dropped \subseteq {serves[p]}
<1>t. /\ state \in [Pids -> States] /\ serves \in [Pids -> Invokers \cup {NoInvoker}]
      /\ status \in [Pids -> Statuses \cup {"none"}]
      /\ fate \in [Invokers -> Statuses \cup {"none", "rejected"}]
  BY DEF QueueInv, TypeOK, KernelTypeOK
<1>1. /\ state' = [state EXCEPT ![p] = IF Running THEN "zombie" ELSE "free"]
      /\ status' = [status EXCEPT ![p] = st]
      /\ fate' = [i \in Invokers |-> IF serves[p] = i THEN st ELSE fate[i]]
  BY DEF Die, FateAfter
<1>2. /\ state'[p] \in {"zombie", "free"} /\ status'[p] = st
      /\ \A q \in Pids : q # p => state'[q] = state[q] /\ status'[q] = status[q]
  BY <1>1, <1>t
<1>3. st # "none"
  BY StatusNames
<1>4. ServesNobody(p)
  BY <1>1, <1>2, <1>3, <1>t DEF ServesNobody, Serving, ServiceInv
<1>5. Dropped = {serves[p]} \/ (Dropped = {} /\ serves[p] = NoInvoker)
  <2>1. \A q \in Pids : EndsService(q) <=> q = p /\ Serving(p)
    BY <1>2 DEF EndsService, Serving
  <2>2. CASE Serving(p)
    BY <2>1, <2>2 DEF Dropped
  <2>3. CASE ~Serving(p)
    <3>1. serves[p] = NoInvoker
      BY <1>t, <2>3 DEF Serving, ServiceInv, States
    <3>2. Dropped = {}
      BY <2>1, <2>3 DEF Dropped
    <3> QED
      BY <3>1, <3>2
  <2> QED
    BY <2>2, <2>3
<1>6. Outcome(st)
  BY <1>1, <1>5, InvokerAssumption DEF Outcome
<1>7. \A q \in Pids : q # p => Stays(q)
  BY <1>2 DEF Stays
<1> QED
  BY <1>4, <1>5, <1>6, <1>7 DEF ProcessesMove

\* The daemon ends, maybe after it has waited for one more process.
LEMMA ExitMoves ==
  ASSUME QueueInv, ServiceInv, NEW cause, NEW procs \in [Pids -> States],
         DaemonExits(cause, procs), UNCHANGED serves,
         \A p \in Pids : procs[p] = state[p] \/ (state[p] = "zombie" /\ procs[p] = "free"),
         \A p \in Pids : procs[p] = "zombie" => status'[p] = status[p]
  PROVE  ProcessesMove
<1>t. /\ state \in [Pids -> States] /\ serves \in [Pids -> Invokers \cup {NoInvoker}]
      /\ fate \in [Invokers -> Statuses \cup {"none", "rejected"}]
  BY DEF QueueInv, TypeOK, KernelTypeOK
<1>1. /\ \A p \in Pids : state'[p] = IF procs[p] \in DiesWithDaemon \cup {"zombie"}
                                    THEN "free" ELSE procs[p]
      /\ fate' = [i \in Invokers |->
                    IF \E p \in Pids : procs[p] \in DiesWithDaemon /\ serves[p] = i
                    THEN "SIGHUP" ELSE fate[i]]
  BY DEF DaemonExits, FateAfter
<1>2. ASSUME NEW p \in Pids
      PROVE  Stays(p) \/ ServesNobody(p)
  BY <1>1 DEF Stays, ServesNobody
<1>3. ASSUME NEW i \in Invokers
      PROVE  i \in Dropped <=> \E p \in Pids : procs[p] \in DiesWithDaemon /\ serves[p] = i
  <2>1. ASSUME NEW p \in Pids, serves[p] # NoInvoker
        PROVE  EndsService(p) <=> procs[p] \in DiesWithDaemon
    BY <1>1, <1>t, <2>1 DEF EndsService, Serving, DiesWithDaemon, ServiceInv, States
  <2> QED
    BY <2>1, InvokerAssumption DEF Dropped
<1>4. "SIGHUP" \in Statuses
  BY StatusNames
<1>5. Outcome("SIGHUP")
  BY <1>1, <1>3 DEF Outcome
<1> QED
  BY <1>2, <1>4, <1>5 DEF ProcessesMove

\* forkBooster(), maybe after the daemon has waited for one more process.
LEMMA ForkMoves ==
  ASSUME QueueInv, ServiceInv, NEW procs \in [Pids -> States], NEW children, NEW next,
         ForkBooster(procs, children, next),
         \A p \in Pids : procs[p] = state[p] \/ (state[p] = "zombie" /\ procs[p] = "free"),
         \A p \in Pids : procs[p] = "zombie" => status'[p] = status[p]
  PROVE  ProcessesMove
<1>t. /\ serves \in [Pids -> Invokers \cup {NoInvoker}]
      /\ fate \in [Invokers -> Statuses \cup {"none", "rejected"}]
  BY DEF QueueInv, TypeOK, KernelTypeOK
<1>1. CASE \E p \in Pids :
              /\ procs[p] = "free" /\ state' = [procs EXCEPT ![p] = "forked"]
              /\ serves' = [serves EXCEPT ![p] = NoInvoker] /\ UNCHANGED fate
  <2>1. PICK p \in Pids :
              /\ procs[p] = "free" /\ state' = [procs EXCEPT ![p] = "forked"]
              /\ serves' = [serves EXCEPT ![p] = NoInvoker] /\ UNCHANGED fate
    BY <1>1
  <2>2. ASSUME NEW q \in Pids
        PROVE  Stays(q) \/ ServesOn(q) \/ (ServesNobody(q) /\ ~Serving(q))
    <3>1. CASE q = p
      BY <1>t, <2>1, <3>1 DEF ServesNobody, Serving
    <3>2. CASE q # p
      BY <1>t, <2>1, <3>2 DEF Stays, ServesNobody, Serving
    <3> QED
      BY <3>1, <3>2
  <2> QED
    BY <1>t, <2>1, <2>2, NobodyDropped
<1>2. CASE DaemonExits("fork", procs) /\ UNCHANGED serves
  BY <1>2, ExitMoves
<1> QED
  BY <1>1, <1>2 DEF ForkBooster

-----------------------------------------------------------------------------
(* Every step but Accept is a ServiceStep.                                 *)

\* What the daemon uses when it reads a message or waits for a child is in
\* its memory.
LEMMA InMemory ==
  ASSUME ChildInv, pc \notin Starting \cup {"exited"}
  PROVE  /\ Running /\ ~Restarting
         /\ Children = m_children /\ Current = m_boosterPid
         /\ PidMap = m_boosterPidToInvokerPid /\ FdMap = m_boosterPidToInvokerFd
         /\ m_children = {p \in Pids : state[p] # "free"}
         /\ pc # "init" => m_boosterPid \in m_children
BY PidAssumption DEF ChildInv, ChildrenTracked, Running, Restarting, Children, Current, PidMap, FdMap,
       Started, Starting

\* A step that changes no process, invoker or answer.
LEMMA QuietSteps ==
  ASSUME QueueInv, UNCHANGED <<processVars, told, misread, inv>>
  PROVE  ServiceStep
<1>1. fate \in [Invokers -> Statuses \cup {"none", "rejected"}]
  BY DEF QueueInv, TypeOK, KernelTypeOK
<1>2. ProcessesMove
  BY <1>1, NobodyDropped DEF processVars, Stays
<1> QED
  BY <1>2 DEF ServiceStep, ProcessesMove, InvokersMove

\* killBoosters() with whatever else the daemon does to itself.
LEMMA KillSteps ==
  ASSUME QueueInv, ServiceInv, NEW queue, KillBoosters(queue),
         UNCHANGED <<serves, told, misread, inv>>
  PROVE  ServiceStep
<1>1. CASE UNCHANGED <<state, status, fate>>
  <2>1. fate \in [Invokers -> Statuses \cup {"none", "rejected"}]
    BY DEF QueueInv, TypeOK, KernelTypeOK
  <2>2. ProcessesMove
    BY <1>1, <2>1, NobodyDropped DEF Stays
  <2> QED
    BY <2>2 DEF ServiceStep, ProcessesMove, InvokersMove
<1>2. CASE /\ m_boosterPid # NoPid /\ Die(m_boosterPid, "SIGTERM")
           /\ state[m_boosterPid] \in {"restored", "idle", "serving", "sent", "app"}
  <2>1. m_boosterPid \in Pids
    BY <1>2 DEF QueueInv, TypeOK, DaemonTypeOK
  <2>2. "SIGTERM" \in Statuses
    BY StatusNames
  <2>3. ProcessesMove
    BY <1>2, <2>1, <2>2, DieMoves
  <2> QED
    BY <2>3 DEF ServiceStep, ProcessesMove, InvokersMove
<1> QED
  BY <1>1, <1>2 DEF KillBoosters

\* waitpid() returns p: who waits for p is told how p has ended, and nobody
\* else is told anything.
LEMMA ReapSteps ==
  ASSUME QueueInv, QueueInv', ChildInv, InvokerInv, NEW p \in Pids, ReapChild(p, StillWaiting),
         UNCHANGED inv
  PROVE  ServiceStep
<1>t. /\ state \in [Pids -> States] /\ serves \in [Pids -> Invokers \cup {NoInvoker}]
      /\ status \in [Pids -> Statuses \cup {"none"}]
      /\ fate \in [Invokers -> Statuses \cup {"none", "rejected"}]
      /\ told \in [Invokers -> Statuses \cup {"none", "rejected", "lost"}]
      /\ m_boosterPidToInvokerPid \in InvokerMap /\ misread \in BOOLEAN
  BY DEF QueueInv, TypeOK, KernelTypeOK, DaemonTypeOK
<1>s. ServiceInv /\ FateInv /\ ConnectionsTracked /\ InStep
  BY DEF InvokerInv, ServicePart, ConnectionPart
<1> DEFINE reaped == [state EXCEPT ![p] = "free"]
           others == m_children \ {p}
<1>r. /\ pc = "reap" /\ state[p] = "zombie" /\ Report(p, StillWaiting)
      /\ status' = [status EXCEPT ![p] = "none"]
      /\ misread' = (misread \/ \E k \in DOMAIN launcherSocket : launcherSocket[k].from = p)
  BY DEF ReapChild
<1>m. /\ Running /\ Children = m_children /\ Current = m_boosterPid
      /\ PidMap = m_boosterPidToInvokerPid /\ FdMap = m_boosterPidToInvokerFd
      /\ p \in m_children
  BY <1>r, InMemory DEF Starting
<1>p. /\ reaped \in [Pids -> States] /\ reaped[p] = "free"
      /\ \A q \in Pids : q # p => reaped[q] = state[q] /\ status'[q] = status[q]
  BY <1>r, <1>t DEF States
<1>c. \/ p = m_boosterPid /\ ForkBooster(reaped, others, "reap")
      \/ p # m_boosterPid /\ state' = reaped /\ UNCHANGED <<serves, fate>>
  BY DEF ReapChild
<1> HIDE DEF reaped, others
<1>1. ProcessesMove
  <2>1. CASE ForkBooster(reaped, others, "reap")
    <3>1. /\ \A q \in Pids : reaped[q] = state[q] \/ (state[q] = "zombie" /\ reaped[q] = "free")
          /\ \A q \in Pids : reaped[q] = "zombie" => status'[q] = status[q]
      BY <1>p, <1>r
    <3> QED
      BY <1>p, <1>s, <2>1, <3>1, ForkMoves
  <2>2. CASE state' = reaped /\ UNCHANGED <<serves, fate>>
    <3>1. \A q \in Pids : Stays(q) \/ (ServesNobody(q) /\ ~Serving(q))
      BY <1>p, <1>r, <2>2 DEF Stays, ServesNobody, Serving
    <3> QED
      BY <1>t, <2>2, <3>1, NobodyDropped
  <2> QED
    BY <1>c, <2>1, <2>2
<1>2. UNCHANGED told \/ \E i \in StillWaiting : \E x : Answered(i, x)
  <2> DEFINE i == m_boosterPidToInvokerPid[p]
  <2>1. i = m_boosterPidToInvokerFd[p]
    BY <1>m, <1>s DEF ConnectionsTracked
  <2>2. i = NoInvoker \/ i \notin StillWaiting => UNCHANGED told
    BY <1>r, <2>1 DEF Report
  <2>3. ASSUME i # NoInvoker, i \in StillWaiting
        PROVE  Answered(i, status[p])
    <3>1. told' = [told EXCEPT ![i] = status[p]]
      BY <1>r, <2>1, <2>3 DEF Report
    <3>2. status[p] \in Statuses
      BY <1>r, <1>s, <1>t DEF FateInv
    <3>3. p # m_boosterPid
      BY <1>m, <1>s, <2>1, <2>3 DEF ConnectionsTracked
    <3>4. ASSUME ~misread'
          PROVE  /\ fate'[i] = status[p] /\ fate'[i] # "none"
                 /\ \A q \in Pids : Live(q)' => serves'[q] # i
      <4>1. serves[p] = i
        <5>1. ~misread
          BY <1>r, <1>t, <3>4
        <5>2. FdMap[p] = IF serves[p] \in WaitTerm THEN serves[p] ELSE NoInvoker
          BY <1>m, <1>s, <3>3, <5>1 DEF InStep
        <5> QED
          BY <1>m, <2>1, <2>3, <5>2
      <4>2. fate[i] = status[p]
        BY <1>r, <1>s, <2>3, <4>1 DEF FateInv
      <4>3. state' = reaped /\ UNCHANGED <<serves, fate>>
        BY <1>c, <3>3
      <4>4. \A q \in Pids : Live(q)' => serves'[q] # i
        BY <1>p, <1>r, <1>s, <2>3, <4>1, <4>3 DEF ServiceInv, Live
      <4> QED
        BY <3>2, <4>2, <4>3, <4>4, StatusNames
    <3> QED
      BY <3>1, <3>2, <3>4 DEF Answered
  <2> QED
    BY <2>2, <2>3
<1>3. misread => misread'
  BY <1>r
<1> QED
  BY <1>1, <1>2, <1>3 DEF ServiceStep, ProcessesMove, InvokersMove

\* Whatever the daemon, a booster, an invoker or the administrator does, it
\* is a ServiceStep or the beginning of a service.
LEMMA ServiceSteps ==
  ASSUME QueueInv, QueueInv', ChildInv, InvokerInv, Next
  PROVE  ServiceStep \/ \E p \in Pids, i \in Invokers : Accept(p, i)
<1>t. /\ state \in [Pids -> States] /\ serves \in [Pids -> Invokers \cup {NoInvoker}]
      /\ fate \in [Invokers -> Statuses \cup {"none", "rejected"}]
      /\ told \in [Invokers -> Statuses \cup {"none", "rejected", "lost"}]
      /\ misread \in BOOLEAN
  BY DEF QueueInv, TypeOK, KernelTypeOK, DaemonTypeOK
<1>s. ServiceInv /\ FateInv
  BY DEF InvokerInv, ServicePart
<1>x. ASSUME NEW cause, DaemonExits(cause, state), UNCHANGED <<serves, status, told, misread, inv>>
      PROVE  ServiceStep
  <2>1. ProcessesMove
    BY <1>s, <1>t, <1>x, ExitMoves
  <2> QED
    BY <1>x, <2>1 DEF ServiceStep, ProcessesMove, InvokersMove
<1>f. ASSUME NEW next, ForkBooster(state, m_children, next),
             UNCHANGED <<status, told, misread, inv>>
      PROVE  ServiceStep
  <2>1. ProcessesMove
    BY <1>s, <1>t, <1>f, ForkMoves
  <2> QED
    BY <1>f, <2>1 DEF ServiceStep, ProcessesMove, InvokersMove
<1>1. CASE DaemonRuns
  <2>u. UNCHANGED inv
    BY <1>1 DEF DaemonRuns
  <2>1. CASE \/ InstallHandlers \/ SetInstance \/ RestoreState \/ CreateChannels \/ RunAgain
             \/ Select \/ ReadSigChld \/ ReadSigPipe \/ Exec \/ EndReap
             \/ \E p \in Pids : VisitLiving(p)
    <3>1. UNCHANGED <<processVars, told, misread>>
      BY <2>1 DEF InstallHandlers, SetInstance, RestoreState, CreateChannels, RunAgain, Select,
                  ReadSigChld, ReadSigPipe, Exec, EndReap, VisitLiving, daemonVars
    <3> QED
      BY <2>u, <3>1, QuietSteps
  <2>2. CASE RunFirst
    BY <1>f, <2>2, <2>u DEF RunFirst
  <2>3. CASE ReadFromBoosterSocket
    BY <1>f, <2>3, <2>u DEF ReadFromBoosterSocket
  <2>4. CASE ReadSigTerm
    BY <1>x, <2>4, <2>u DEF ReadSigTerm, daemonVars
  <2>5. ASSUME NEW s, NEW boot, ReadModeSignal(s, boot)
        PROVE  ServiceStep
    <3>1. UNCHANGED <<serves, told, misread, mode, bornIn>>
      BY <2>5 DEF ReadModeSignal
    <3>2. CASE KillBoosters(Tail(sigPipe))
      BY <1>s, <2>u, <3>1, <3>2, KillSteps
    <3>3. CASE UNCHANGED <<state, status, fate>>
      BY <2>u, <3>1, <3>3, QuietSteps DEF processVars
    <3> QED
      BY <2>5, <3>2, <3>3 DEF ReadModeSignal
  <2>6. CASE ReadSigHup
    <3>1. KillBoosters(Tail(sigPipe)) /\ UNCHANGED <<serves, told, misread>>
      BY <2>6 DEF ReadSigHup
    <3> QED
      BY <1>s, <2>u, <3>1, KillSteps
  <2>7. ASSUME NEW p \in Pids, ReapChild(p, StillWaiting)
        PROVE  ServiceStep
    BY <2>7, <2>u, ReapSteps
  <2> QED
    BY <1>1, <2>1, <2>2, <2>3, <2>4, <2>5, <2>6, <2>7
       DEF DaemonRuns, DaemonStep, EnterNormalMode, EnterBootMode
<1>2. CASE Handler
  <2>1. PICK s \in Signals : DeliverSignal(s) /\ UNCHANGED <<daemonVars, inv>>
    BY <1>2 DEF Handler, HandleSignal
  <2>2. UNCHANGED <<status, serves, mode, bornIn, told, misread>>
    BY <2>1 DEF DeliverSignal, daemonVars
  <2>3. CASE UNCHANGED <<state, fate>>
    BY <2>1, <2>2, <2>3, QuietSteps DEF processVars
  <2>4. CASE \E cause : DaemonExits(cause, state)
    BY <1>x, <2>1, <2>2, <2>4
  <2> QED
    BY <2>1, <2>3, <2>4 DEF DeliverSignal
<1>3. CASE Failure
  <2>1. PICK cause : DaemonExits(cause, state)
    BY <1>3 DEF Failure, DaemonFails, ReadFails, SaveFails, ExecFails, DaemonCrashes
  <2>2. UNCHANGED <<serves, status, told, misread, inv>>
    BY <1>3 DEF Failure, DaemonFails, ReadFails, SaveFails, ExecFails, DaemonCrashes, daemonVars
  <2> QED
    BY <1>x, <2>1, <2>2
<1>4. ASSUME NEW p \in Pids, Prepare(p) \/ Commit(p)
      PROVE  ServiceStep
  <2>1. /\ \/ state[p] = "forked" /\ state' = [state EXCEPT ![p] = "restored"]
           \/ state[p] = "restored" /\ state' = [state EXCEPT ![p] = "idle"]
           \/ state[p] = "sent" /\ state' = [state EXCEPT ![p] = "app"]
           \/ state[p] = "serving" /\ state' = [state EXCEPT ![p] = "sent"]
        /\ UNCHANGED <<status, serves, fate, told, misread, inv>>
    BY <1>4 DEF Prepare, RestoreHandlers, SetDeathSignal, Launch, Commit, SendDataToParent,
                SendFails, daemonVars
  <2>2. \A q \in Pids : Stays(q) \/ ServesOn(q) \/ (ServesNobody(q) /\ ~Serving(q))
    BY <1>s, <1>t, <2>1 DEF Stays, ServesOn, ServesNobody, Serving, ServiceInv
  <2>3. ProcessesMove
    BY <1>t, <2>1, <2>2, NobodyDropped
  <2> QED
    BY <2>1, <2>3 DEF ServiceStep, ProcessesMove, InvokersMove
<1>5. ASSUME NEW p \in Pids, Reject(p)
      PROVE  ServiceStep
  <2> DEFINE i == serves[p]
  <2>1. /\ state[p] = "serving" /\ state' = [state EXCEPT ![p] = "idle"]
        /\ serves' = [serves EXCEPT ![p] = NoInvoker]
        /\ fate' = [fate EXCEPT ![i] = "rejected"]
        /\ told' = IF i \in StillWaiting THEN [told EXCEPT ![i] = "rejected"] ELSE told
        /\ UNCHANGED <<status, misread, inv>>
    BY <1>5 DEF Reject, RejectInvoker
  <2>2. i \in Invokers
    BY <1>s, <1>t, <2>1 DEF ServiceInv
  <2>3. /\ state'[p] = "idle" /\ serves'[p] = NoInvoker
        /\ \A q \in Pids : q # p => state'[q] = state[q] /\ serves'[q] = serves[q]
    BY <1>t, <2>1
  <2>4. \A q \in Pids : Stays(q) \/ ServesNobody(q)
    BY <2>1, <2>3 DEF Stays, ServesNobody
  <2>5. Dropped = {i}
    <3>1. \A q \in Pids : EndsService(q) <=> q = p
      BY <2>1, <2>3 DEF EndsService, Serving
    <3> QED
      BY <3>1 DEF Dropped
  <2>6. Outcome("rejected")
    <3>1. fate' = [j \in Invokers |-> IF j \in {i} THEN "rejected" ELSE fate[j]]
      BY <1>t, <2>1, <2>2
    <3> QED
      BY <2>5, <3>1 DEF Outcome
  <2>7. i \in StillWaiting => Answered(i, "rejected")
    <3>1. fate'[i] = "rejected"
      BY <1>t, <2>1, <2>2
    <3> QED
      BY <2>1, <3>1, StatusNames DEF Answered
  <2> QED
    BY <2>1, <2>4, <2>6, <2>7 DEF ServiceStep, InvokersMove
<1>6. ASSUME NEW p \in Pids, Ends(p)
      PROVE  ServiceStep
  <2>1. PICK st \in Statuses : Die(p, st) /\ st # "SIGKILL"
    BY <1>6, StatusNames DEF Ends, BoosterCrashes, ApplicationExits
  <2>2. state[p] \notin {"free", "zombie"} /\ UNCHANGED <<serves, told, misread, inv>>
    BY <1>6 DEF Ends, BoosterCrashes, ApplicationExits, daemonVars
  <2>3. ProcessesMove
    BY <1>s, <2>1, <2>2, DieMoves
  <2> QED
    BY <2>2, <2>3 DEF ServiceStep, ProcessesMove, InvokersMove
<1>7. ASSUME NEW i \in Invokers, Request(i)
      PROVE  ServiceStep
  <2>1. /\ inv[i] = "off" /\ inv' = [inv EXCEPT ![i] = "queued"]
        /\ UNCHANGED <<state, status, serves, fate, told, misread>>
    BY <1>7 DEF Request, Connect, kernelVars, processVars, daemonVars
  <2>2. ProcessesMove /\ Dropped = {}
    BY <1>t, <2>1, NobodyDropped DEF Stays
  <2> QED
    BY <2>1, <2>2 DEF ServiceStep, ProcessesMove, InvokersMove
<1>8. ASSUME NEW i \in Invokers, Lose(i)
      PROVE  ServiceStep
  <2>1. /\ i \in StillWaiting /\ inv[i] = "waiting" /\ told' = [told EXCEPT ![i] = "lost"]
        /\ UNCHANGED <<serves, misread, inv>>
    BY <1>8 DEF Lose, ConnectionLost
  <2>2. ProcessesMove /\ fate'[i] # "none"
    <3>1. CASE ServerOf(i) = {} /\ UNCHANGED <<state, status, fate>>
      <4>1. fate[i] # "none"
        BY <1>s, <2>1, <3>1 DEF FateInv
      <4>2. ProcessesMove
        BY <1>t, <2>1, <3>1, NobodyDropped DEF Stays
      <4> QED
        BY <3>1, <4>1, <4>2
    <3>2. ASSUME NEW p \in ServerOf(i), Die(p, "SIGKILL")
          PROVE  ProcessesMove /\ fate'[i] # "none"
      <4>1. p \in Pids /\ serves[p] = i /\ state[p] \notin {"free", "zombie"}
        BY DEF ServerOf
      <4>2. told'[serves[p]] = "lost"
        BY <1>t, <2>1, <4>1
      <4>3. "SIGKILL" \in Statuses
        BY StatusNames
      <4>4. ProcessesMove
        BY <1>s, <2>1, <3>2, <4>1, <4>2, <4>3, DieMoves
      <4>5. fate'[i] = "SIGKILL"
        BY <3>2, <4>1 DEF Die, FateAfter
      <4> QED
        BY <4>4, <4>5
    <3> QED
      BY <1>8, <3>1, <3>2 DEF Lose, ConnectionLost
  <2>3. Answered(i, "lost")
    BY <2>1, <2>2, StatusNames DEF Answered
  <2> QED
    BY <2>1, <2>2, <2>3 DEF ServiceStep, ProcessesMove, InvokersMove
<1>9. ASSUME NEW i \in Invokers, Kill(i)
      PROVE  ServiceStep
  <2>1. /\ i \in StillWaiting /\ inv' = [inv EXCEPT ![i] = "gone"]
        /\ UNCHANGED <<serves, told, misread>>
    BY <1>9 DEF Kill, Interrupt, daemonVars
  <2>2. ProcessesMove /\ Dropped \subseteq {i}
    <3>1. CASE UNCHANGED <<state, status, fate>>
      BY <1>t, <2>1, <3>1, NobodyDropped DEF Stays
    <3>2. ASSUME NEW p \in ServerOf(i), Die(p, "SIGTERM")
          PROVE  ProcessesMove /\ Dropped \subseteq {i}
      <4>1. p \in Pids /\ serves[p] = i /\ state[p] \notin {"free", "zombie"}
        BY DEF ServerOf
      <4>2. "SIGTERM" \in Statuses
        BY StatusNames
      <4> QED
        BY <1>s, <2>1, <3>2, <4>1, <4>2, DieMoves
    <3> QED
      BY <1>9, <3>1, <3>2 DEF Kill, Interrupt
  <2> QED
    BY <2>1, <2>2 DEF ServiceStep, ProcessesMove, InvokersMove
<1>10. ASSUME NEW s \in AdminSignals, Administer(s)
       PROVE  ServiceStep
  BY <1>10, QuietSteps DEF Administer, daemonVars
<1> QED
  BY <1>1, <1>2, <1>3, <1>4, <1>5, <1>6, <1>7, <1>8, <1>9, <1>10 DEF Next

-----------------------------------------------------------------------------
(* What keeps ConnectionPart.                                              *)

\* What the daemon knows is what it knew, in memory or in the state file.
SameView == UNCHANGED <<PidMap, FdMap, Children, Current>>

\* A step after which the daemon knows what it knew and holds what it held.
ViewKept ==
  /\ UNCHANGED <<openFds, launcherSocket, misread>>
  /\ Running' => Running /\ SameView
  /\ ~Started' => ~Started /\ UNCHANGED <<m_boosterPidToInvokerPid, m_boosterPidToInvokerFd>>

\* A step at which nobody begins to wait for a process that is there already.
InvokersKept ==
  \A i \in Invokers :
    /\ inv'[i] \in {"off", "queued"} => inv[i] \in {"off", "queued"}
    /\ inv'[i] = "waiting" => inv[i] = "waiting" \/ ServerOf(i) = {}
    /\ told[i] # "none" => told'[i] # "none"

\* A step of both kinds at which no booster lets go of a connection without
\* having sent it, unless its sendmsg() has failed.
LetsAlone ==
  /\ ViewKept
  /\ InvokersKept
  /\ \A p \in Pids :
       /\ serves'[p] # serves[p] => state[p] \in Uncommitted
       /\ state'[p] \in Uncommitted => state[p] \in Uncommitted
       /\ Running' /\ state[p] \in {"sent", "app", "zombie"} =>
            state'[p] \in {"sent", "app", "zombie"}
       /\ state'[p] = "serving" =>
            \/ state[p] = "serving" /\ serves'[p] = serves[p]
            \/ serves'[p] \in Invokers /\ inv[serves'[p]] \in {"off", "queued"}
  /\ unsent \subseteq unsent'
  /\ Running' =>
       /\ \A p \in Pids : state'[p] \in {"sent", "app"} /\ serves'[p] \notin unsent' =>
            state[p] \in {"sent", "app"}
       /\ \A i \in Invokers \ unsent' : fate'[i] = "SIGKILL" => fate[i] = "SIGKILL"

\* Such a step keeps what the daemon knows of connections right.
LEMMA AloneKeepsConnections ==
  ASSUME QueueInv, QueueInv', ChildInv, InvokerInv, LetsAlone
  PROVE  ConnectionPart'
<1>t. /\ serves \in [Pids -> Invokers \cup {NoInvoker}]
      /\ openFds \subseteq Invokers
  BY DEF QueueInv, TypeOK, KernelTypeOK
<1>s. /\ ConnectionsTracked /\ InStep /\ HandOver /\ NoneHeldYet /\ MessagesTrue
      /\ NoAppKilledByInvoker /\ WaiterInv /\ ServiceInv
  BY DEF InvokerInv, ServicePart, ConnectionPart
<1>a. /\ UNCHANGED <<openFds, launcherSocket, misread>>
      /\ Running' => Running /\ SameView
      /\ ~Started' => ~Started /\ UNCHANGED <<m_boosterPidToInvokerPid, m_boosterPidToInvokerFd>>
  BY DEF LetsAlone, ViewKept
<1>p. ASSUME NEW p \in Pids
      PROVE  /\ serves'[p] # serves[p] => state[p] \in Uncommitted
             /\ state'[p] \in Uncommitted => state[p] \in Uncommitted
             /\ Running' /\ state[p] \in {"sent", "app", "zombie"} =>
                  state'[p] \in {"sent", "app", "zombie"}
             /\ state'[p] = "serving" =>
                  \/ state[p] = "serving" /\ serves'[p] = serves[p]
                  \/ serves'[p] \in Invokers /\ inv[serves'[p]] \in {"off", "queued"}
  BY DEF LetsAlone
<1>i. ASSUME NEW i \in Invokers
      PROVE  /\ inv'[i] \in {"off", "queued"} => inv[i] \in {"off", "queued"}
             /\ inv'[i] = "waiting" => inv[i] = "waiting" \/ ServerOf(i) = {}
             /\ told[i] # "none" => told'[i] # "none"
  BY DEF LetsAlone, InvokersKept
<1>f. /\ unsent \subseteq unsent'
      /\ Running' =>
           /\ \A p \in Pids : state'[p] \in {"sent", "app"} /\ serves'[p] \notin unsent' =>
                state[p] \in {"sent", "app"}
           /\ \A i \in Invokers \ unsent' : fate'[i] = "SIGKILL" => fate[i] = "SIGKILL"
  BY DEF LetsAlone
<1>m. \A i : InMessage(i)' <=> InMessage(i)
  BY <1>a DEF InMessage
<1>1. ConnectionsTracked'
  BY <1>a, <1>s DEF ConnectionsTracked, SameView
<1>2. InStep'
  <2> SUFFICES ASSUME Running', ~misread'
               PROVE  InStep'
    BY DEF InStep
  <2>1. Running /\ ~misread /\ SameView
    BY <1>a
  <2>2. /\ Len(launcherSocket') <= 1
        /\ \A k \in DOMAIN launcherSocket' : launcherSocket'[k].from = Current'
    BY <1>a, <1>s, <2>1 DEF InStep, SameView
  <2>3. \A p \in Pids : state'[p] \in Uncommitted => p = Current'
    BY <1>p, <1>s, <2>1 DEF InStep, SameView
  <2>4. ASSUME NEW p \in Children' \ {Current'}
        PROVE  FdMap'[p] = IF serves'[p] \in WaitTerm THEN serves'[p] ELSE NoInvoker
    <3>1. p \in Children \ {Current} /\ FdMap'[p] = FdMap[p]
      BY <2>1 DEF SameView
    <3>2. p \in Pids
      BY <2>1, <3>1 DEF ChildInv, ChildrenTracked
    <3>3. serves'[p] = serves[p]
      BY <1>p, <1>s, <2>1, <3>1, <3>2 DEF InStep
    <3> QED
      BY <1>s, <2>1, <3>1, <3>3 DEF InStep
  <2> QED
    BY <2>2, <2>3, <2>4 DEF InStep
<1>3. HandOver'
  <2> SUFFICES ASSUME Running'
               PROVE  HandOver'
    BY DEF HandOver
  <2>1. Running
    BY <1>a
  <2>2. /\ \A k, l \in DOMAIN launcherSocket' :
             launcherSocket'[k].invoker = launcherSocket'[l].invoker /\ k # l
               => launcherSocket'[k].invoker = NoInvoker
        /\ \A i \in openFds' : ~InMessage(i)'
    BY <1>a, <1>m, <1>s, <2>1 DEF HandOver
  <2>3. \A i \in Invokers : inv'[i] \in {"off", "queued"} => i \notin openFds' /\ ~InMessage(i)'
    BY <1>a, <1>i, <1>m, <1>s, <2>1 DEF HandOver
  <2>4. ASSUME NEW p \in Pids, state'[p] = "serving"
        PROVE  serves'[p] \notin openFds' /\ ~InMessage(serves[p])'
    BY <1>a, <1>p, <1>s, <2>1, <2>4 DEF HandOver, InMessage
  <2>5. ASSUME NEW p \in Pids, state'[p] \in {"sent", "app"},
               serves'[p] \in StillWaiting' \ unsent'
        PROVE  serves'[p] \in openFds' \/ InMessage(serves[p])'
    <3>1. state[p] \in {"sent", "app"}
      BY <1>f, <2>5
    <3>2. serves'[p] = serves[p]
      BY <1>p, <3>1 DEF Uncommitted
    <3>3. ServerOf(serves[p]) # {}
      BY <3>1 DEF ServerOf
    <3>4. serves[p] \in StillWaiting \ unsent
      BY <1>f, <1>i, <2>5, <3>2, <3>3 DEF StillWaiting
    <3>5. serves[p] \in openFds \/ InMessage(serves[p])
      BY <1>s, <2>1, <3>1, <3>4 DEF HandOver
    <3> QED
      BY <1>a, <3>2, <3>5 DEF InMessage
  <2> QED
    BY <2>2, <2>3, <2>4, <2>5 DEF HandOver
<1>4. NoneHeldYet'
  BY <1>a, <1>s DEF NoneHeldYet
<1>5. MessagesTrue'
  <2> SUFFICES ASSUME Running', ~misread', NEW k \in DOMAIN launcherSocket'
               PROVE  LET p == launcherSocket'[k].from IN
                      /\ state'[p] \in {"sent", "app", "zombie"}
                      /\ serves'[p] # NoInvoker
                      /\ launcherSocket'[k].invoker =
                           IF serves'[p] \in WaitTerm THEN serves'[p] ELSE NoInvoker
    BY DEF MessagesTrue
  <2> DEFINE p == launcherSocket[k].from
  <2>1. /\ state[p] \in {"sent", "app", "zombie"} /\ serves[p] # NoInvoker
        /\ launcherSocket[k].invoker = IF serves[p] \in WaitTerm THEN serves[p] ELSE NoInvoker
    BY <1>a, <1>s DEF MessagesTrue
  <2>2. p \in Pids
    <3>1. launcherSocket \in Seq(Message) /\ k \in DOMAIN launcherSocket
      BY <1>a DEF QueueInv, TypeOK, KernelTypeOK
    <3>2. launcherSocket[k] \in Message
      BY <3>1
    <3> QED
      BY <3>2 DEF Message
  <2> HIDE DEF p
  <2>3. state'[p] \in {"sent", "app", "zombie"} /\ serves'[p] = serves[p]
    BY <1>p, <2>1, <2>2 DEF Uncommitted
  <2> QED
    BY <1>a, <2>1, <2>3 DEF p
<1>6. NoAppKilledByInvoker'
  <2> SUFFICES ASSUME NEW i \in Invokers \ unsent', fate'[i] = "SIGKILL", Running'
               PROVE  FALSE
    BY DEF NoAppKilledByInvoker
  <2>1. fate[i] = "SIGKILL" /\ told[i] = "lost" /\ Running /\ i \notin unsent
    BY <1>a, <1>f, <1>s DEF WaiterInv
  <2> QED
    BY <1>s, <2>1 DEF NoAppKilledByInvoker
<1> QED
  BY <1>1, <1>2, <1>3, <1>4, <1>5, <1>6 DEF ConnectionPart

\* A daemon that has ended holds nothing.
LEMMA ExitKeepsConnections ==
  ASSUME pc' = "exited"
  PROVE  ConnectionPart'
BY DEF ConnectionPart, ConnectionsTracked, InStep, HandOver, NoneHeldYet, MessagesTrue,
       NoAppKilledByInvoker, Running, Started, Starting

\* sendDataToParent(): the only message there is comes from the current
\* booster, and the connection it carries is nowhere else.
LEMMA SendKeepsConnections ==
  ASSUME QueueInv, QueueInv', ChildInv, InvokerInv, NEW p \in Pids, SendDataToParent(p),
         UNCHANGED <<daemonVars, inv, unsent>>
  PROVE  ConnectionPart'
<1> DEFINE to  == IF serves[p] \in WaitTerm THEN serves[p] ELSE NoInvoker
           msg == [from |-> p, invoker |-> to]
           n   == Len(launcherSocket)
<1>t. /\ launcherSocket \in Seq(Message) /\ n \in Nat
      /\ state \in [Pids -> States] /\ serves \in [Pids -> Invokers \cup {NoInvoker}]
      /\ openFds \subseteq Invokers
  BY DEF QueueInv, TypeOK, KernelTypeOK
<1>s. /\ ConnectionsTracked /\ InStep /\ HandOver /\ NoneHeldYet /\ MessagesTrue
      /\ NoAppKilledByInvoker /\ WaiterInv /\ ServiceInv /\ UnservedInv
  BY DEF InvokerInv, ServicePart, ConnectionPart
<1>c. /\ state[p] = "serving" /\ Running
      /\ state' = [state EXCEPT ![p] = "sent"]
      /\ launcherSocket' = Append(launcherSocket, msg)
      /\ UNCHANGED <<serves, fate, daemonLife, openFds>>
  BY DEF SendDataToParent
<1>u. UNCHANGED <<pc, m_reExec, memory, stateFile, told, misread, inv, unsent>>
  BY <1>c DEF daemonVars, daemonLife
<1>v. Running' /\ SameView /\ (Started' <=> Started)
  BY <1>c, <1>u DEF Running, SameView, PidMap, FdMap, Children, Current, Restarting, Started, memory
<1>p. /\ state'[p] = "sent" /\ serves[p] \in Invokers /\ serves[p] # NoInvoker
      /\ \A q \in Pids : q # p => state'[q] = state[q]
  BY <1>c, <1>s, <1>t DEF ServiceInv
<1>l. /\ DOMAIN launcherSocket = 1..n /\ DOMAIN launcherSocket' = 1..(n + 1)
      /\ Len(launcherSocket') = n + 1
      /\ \A k \in 1..n : launcherSocket'[k] = launcherSocket[k]
      /\ launcherSocket'[n + 1] = msg
  <2>1. msg \in Message
    BY <1>t, InvokerAssumption DEF Message
  <2> HIDE DEF msg
  <2> QED
    BY <1>c, <1>t, <2>1, AppendProperties
<1>m. ASSUME NEW i
      PROVE  InMessage(i)' <=> InMessage(i) \/ i = to
  <2>1. InMessage(i) <=> \E k \in 1..n : launcherSocket[k].invoker = i
    BY <1>l DEF InMessage
  <2>2. InMessage(i)' <=> \E k \in 1..(n + 1) : launcherSocket'[k].invoker = i
    BY <1>l DEF InMessage
  <2>3. msg.invoker = to
    OBVIOUS
  <2> HIDE DEF msg, to, n
  <2> QED
    BY <1>l, <1>t, <2>1, <2>2, <2>3
<1>h. serves[p] \notin openFds /\ ~InMessage(serves[p])
  BY <1>c, <1>s DEF HandOver
<1>e. ~misread => n = 0 /\ p = Current
  <2> SUFFICES ASSUME ~misread PROVE n = 0 /\ p = Current
    OBVIOUS
  <2>1. p = Current
    BY <1>c, <1>s DEF InStep, Uncommitted
  <2>2. n # 0 => 1 \in DOMAIN launcherSocket
    BY <1>l, <1>t
  <2>3. 1 \in DOMAIN launcherSocket => FALSE
    BY <1>c, <1>s, <2>1 DEF InStep, MessagesTrue
  <2> QED
    BY <2>1, <2>2, <2>3
<1>f. msg.from = p /\ msg.invoker = to /\ (to = serves[p] \/ to = NoInvoker)
  OBVIOUS
<1> HIDE DEF msg, n
<1>1. ConnectionsTracked'
  BY <1>c, <1>s, <1>v DEF ConnectionsTracked, SameView
<1>2. InStep'
  <2> SUFFICES ASSUME ~misread' PROVE InStep'
    BY DEF InStep
  <2>1. ~misread /\ n = 0 /\ p = Current
    BY <1>e, <1>u
  <2>2. /\ Len(launcherSocket') <= 1
        /\ \A k \in DOMAIN launcherSocket' : launcherSocket'[k].from = Current'
    BY <1>f, <1>l, <1>v, <2>1 DEF SameView
  <2>3. \A q \in Pids : state'[q] \in Uncommitted => q = Current'
    BY <1>c, <1>p, <1>s, <1>v, <2>1 DEF InStep, SameView
  <2>4. \A q \in Children' \ {Current'} :
           FdMap'[q] = IF serves'[q] \in WaitTerm THEN serves'[q] ELSE NoInvoker
    BY <1>c, <1>s, <1>v, <2>1 DEF InStep, SameView
  <2> QED
    BY <2>2, <2>3, <2>4 DEF InStep
<1>3. HandOver'
  <2>1. ASSUME NEW k \in DOMAIN launcherSocket', NEW l \in DOMAIN launcherSocket',
               launcherSocket'[k].invoker = launcherSocket'[l].invoker, k # l
        PROVE  launcherSocket'[k].invoker = NoInvoker
    <3>1. CASE k \in 1..n /\ l \in 1..n
      BY <1>c, <1>l, <1>s, <2>1, <3>1 DEF HandOver
    <3>2. ASSUME NEW j \in 1..n, launcherSocket[j].invoker = to
          PROVE  to = NoInvoker
      BY <1>f, <1>h, <1>l, <3>2 DEF InMessage
    <3>3. (k \in 1..n /\ l = n + 1) \/ (k = n + 1 /\ l \in 1..n) \/ (k \in 1..n /\ l \in 1..n)
      BY <1>l, <1>t, <2>1
    <3> QED
      BY <1>f, <1>l, <2>1, <3>1, <3>2, <3>3
  <2>2. \A i \in openFds' : ~InMessage(i)'
    BY <1>c, <1>f, <1>h, <1>m, <1>s, <1>t, InvokerAssumption DEF HandOver
  <2>3. \A i \in Invokers : inv'[i] \in {"off", "queued"} => i \notin openFds' /\ ~InMessage(i)'
    <3>1. \A i \in Invokers : inv[i] \in {"off", "queued"} => i # to
      BY <1>c, <1>f, <1>p, <1>s, InvokerAssumption DEF UnservedInv, Live
    <3> QED
      BY <1>c, <1>m, <1>s, <1>u, <3>1 DEF HandOver
  <2>4. ASSUME NEW q \in Pids, state'[q] = "serving"
        PROVE  serves'[q] \notin openFds' /\ ~InMessage(serves[q])'
    <3>1. q # p /\ state[q] = "serving"
      BY <1>p, <2>4
    <3>2. serves[q] # to /\ serves[q] \notin openFds /\ ~InMessage(serves[q])
      BY <1>c, <1>f, <1>s, <3>1 DEF ServiceInv, HandOver, Live
    <3>3. InMessage(serves[q])' <=> \E k \in DOMAIN launcherSocket' :
                                      launcherSocket'[k].invoker = serves[q]
      BY <1>c DEF InMessage
    <3>4. ~\E k \in 1..n : launcherSocket[k].invoker = serves[q]
      BY <1>l, <3>2 DEF InMessage
    <3>5. \A k \in 1..(n + 1) : k \in 1..n \/ k = n + 1
      BY <1>t
    <3> QED
      BY <1>c, <1>f, <1>l, <3>2, <3>3, <3>4, <3>5
  <2>5. ASSUME NEW q \in Pids, state'[q] \in {"sent", "app"},
               serves'[q] \in StillWaiting' \ unsent'
        PROVE  serves'[q] \in openFds' \/ InMessage(serves[q])'
    <3>1. serves[q] \in StillWaiting \ unsent
      BY <1>c, <1>u, <2>5 DEF StillWaiting
    <3>2. InMessage(serves[q])' <=> \E k \in DOMAIN launcherSocket' :
                                      launcherSocket'[k].invoker = serves[q]
      BY <1>c DEF InMessage
    <3>3. CASE q = p
      <4>1. serves[q] = to
        BY <1>s, <3>1, <3>3 DEF WaiterInv, StillWaiting
      <4>2. n + 1 \in DOMAIN launcherSocket'
        BY <1>l, <1>t
      <4> QED
        BY <1>f, <1>l, <3>2, <4>1, <4>2
    <3>4. CASE q # p
      <4>1. serves[q] \in openFds \/ \E k \in 1..n : launcherSocket[k].invoker = serves[q]
        BY <1>c, <1>l, <1>p, <1>s, <2>5, <3>1, <3>4 DEF HandOver, InMessage
      <4>2. 1..n \subseteq DOMAIN launcherSocket'
        BY <1>l, <1>t
      <4> QED
        BY <1>c, <1>l, <3>2, <4>1, <4>2
    <3> QED
      BY <3>3, <3>4
  <2> QED
    BY <2>1, <2>2, <2>3, <2>4, <2>5 DEF HandOver
<1>4. NoneHeldYet'
  <2>1. Started
    BY <1>c DEF ChildInv, NothingYet
  <2> QED
    BY <1>v, <2>1 DEF NoneHeldYet
<1>5. MessagesTrue'
  <2> SUFFICES ASSUME ~misread', NEW k \in DOMAIN launcherSocket'
               PROVE  LET q == launcherSocket'[k].from IN
                      /\ state'[q] \in {"sent", "app", "zombie"}
                      /\ serves'[q] # NoInvoker
                      /\ launcherSocket'[k].invoker =
                           IF serves'[q] \in WaitTerm THEN serves'[q] ELSE NoInvoker
    BY DEF MessagesTrue
  <2>1. launcherSocket'[k] = msg
    BY <1>e, <1>l, <1>u
  <2> QED
    BY <1>c, <1>f, <1>p, <2>1
<1>6. NoAppKilledByInvoker'
  BY <1>c, <1>s, <1>u, <1>v DEF NoAppKilledByInvoker
<1> QED
  BY <1>1, <1>2, <1>3, <1>4, <1>5, <1>6 DEF ConnectionPart

\* What the daemon knows and holds when it is about to fork: the process that
\* took the last request has been noted, or waited for.
ReadyToFork(procs, children) ==
  /\ Running /\ UNCHANGED <<inv, unsent>>
  /\ \A p \in Pids : procs[p] = state[p] \/ (state[p] = "zombie" /\ procs[p] = "free")
  /\ children = {p \in Pids : procs[p] # "free"}
  /\ m_boosterPidToInvokerPid' = m_boosterPidToInvokerFd'
  /\ \A p \in Pids : m_boosterPidToInvokerFd'[p] # NoInvoker =>
       /\ p \in children
       /\ \A q \in Pids : m_boosterPidToInvokerFd'[q] = m_boosterPidToInvokerFd'[p] => q = p
  /\ openFds' = {m_boosterPidToInvokerFd'[p] : p \in Pids} \ {NoInvoker}
  /\ \A k, l \in DOMAIN launcherSocket' :
       launcherSocket'[k].invoker = launcherSocket'[l].invoker /\ k # l
         => launcherSocket'[k].invoker = NoInvoker
  /\ \A i \in openFds' : ~InMessage(i)'
  /\ \A i \in Invokers :
       /\ i \in openFds' \/ InMessage(i)' => i \in openFds \/ InMessage(i)
       /\ i \in StillWaiting' =>
            /\ i \in StillWaiting
            /\ i \in openFds \/ InMessage(i) => i \in openFds' \/ InMessage(i)'
  /\ ~misread' =>
       /\ Len(launcherSocket') = 0
       /\ \A p \in Pids : procs[p] \notin Uncommitted
       /\ \A p \in children :
            m_boosterPidToInvokerFd'[p] = IF serves[p] \in WaitTerm THEN serves[p] ELSE NoInvoker

\* The new booster is the current one and has no invoker yet.
LEMMA ForkKeepsConnections ==
  ASSUME QueueInv, QueueInv', InvokerInv, NEW procs, NEW children,
         NEW next \in {"select", "signal", "reap"},
         procs \in [Pids -> States], ReadyToFork(procs, children),
         ForkBooster(procs, children, next)
  PROVE  ConnectionPart'
<1>t. /\ serves \in [Pids -> Invokers \cup {NoInvoker}]
      /\ launcherSocket' \in Seq(Message) /\ openFds' \subseteq Invokers
  BY DEF QueueInv, TypeOK, KernelTypeOK
<1>s. HandOver /\ NoAppKilledByInvoker /\ WaiterInv /\ ServiceInv
  BY DEF InvokerInv, ServicePart, ConnectionPart
<1>1. CASE DaemonExits("fork", procs)
  BY <1>1, ExitKeepsConnections DEF DaemonExits
<1>2. ASSUME NEW p \in Pids, procs[p] = "free", state' = [procs EXCEPT ![p] = "forked"],
             serves' = [serves EXCEPT ![p] = NoInvoker], m_children' = children \cup {p},
             m_boosterPid' = p, pc' = next, UNCHANGED fate
      PROVE  ConnectionPart'
  <2>v. /\ Running' /\ Started'
        /\ Children' = children \cup {p} /\ Current' = p
        /\ PidMap' = m_boosterPidToInvokerPid' /\ FdMap' = m_boosterPidToInvokerFd'
    BY <1>2 DEF Running, Started, Restarting, Starting, Children, Current, PidMap, FdMap
  <2>r. /\ Running /\ UNCHANGED <<inv, unsent>>
        /\ \A q \in Pids : procs[q] = state[q] \/ (state[q] = "zombie" /\ procs[q] = "free")
        /\ children = {q \in Pids : procs[q] # "free"}
    BY DEF ReadyToFork
  <2>p. /\ p \notin children
        /\ \A q \in Pids : q # p => state'[q] = procs[q] /\ serves'[q] = serves[q]
        /\ state'[p] = "forked"
    BY <1>2, <1>t, <2>r
  <2>1. ConnectionsTracked'
    BY <2>p, <2>v DEF ReadyToFork, ConnectionsTracked
  <2>2. InStep'
    <3> SUFFICES ASSUME ~misread' PROVE InStep'
      BY DEF InStep
    <3>1. /\ Len(launcherSocket') = 0
          /\ \A q \in Pids : procs[q] \notin Uncommitted
          /\ \A q \in children :
               m_boosterPidToInvokerFd'[q] = IF serves[q] \in WaitTerm THEN serves[q] ELSE NoInvoker
      BY DEF ReadyToFork
    <3>2. DOMAIN launcherSocket' = {}
      BY <1>t, <3>1
    <3>3. \A q \in Pids : state'[q] \in Uncommitted => q = p
      BY <2>p, <3>1
    <3>4. \A q \in children : q \in Pids /\ q # p
      BY <2>p, <2>r
    <3> QED
      BY <2>p, <2>v, <3>1, <3>2, <3>3, <3>4 DEF InStep
  <2>3. HandOver'
    <3>1. /\ \A k, l \in DOMAIN launcherSocket' :
               launcherSocket'[k].invoker = launcherSocket'[l].invoker /\ k # l
                 => launcherSocket'[k].invoker = NoInvoker
          /\ \A i \in openFds' : ~InMessage(i)'
      BY DEF ReadyToFork
    <3>2. ASSUME NEW i \in Invokers
          PROVE  /\ i \in openFds' \/ InMessage(i)' => i \in openFds \/ InMessage(i)
                 /\ i \in StillWaiting' =>
                      /\ i \in StillWaiting
                      /\ i \in openFds \/ InMessage(i) => i \in openFds' \/ InMessage(i)'
      BY DEF ReadyToFork
    <3>3. ASSUME NEW q \in Pids, NEW i \in Invokers, state'[q] = "serving", serves'[q] = i
          PROVE  i \notin openFds' /\ ~InMessage(i)'
      <4>1. state[q] = "serving" /\ serves[q] = i
        BY <2>p, <2>r, <3>3
      <4> QED
        BY <1>s, <2>r, <3>2, <4>1 DEF HandOver
    <3>4. ASSUME NEW q \in Pids, NEW i \in Invokers \ unsent', state'[q] \in {"sent", "app"},
                 serves'[q] = i, i \in StillWaiting'
          PROVE  i \in openFds' \/ InMessage(i)'
      <4>1. state[q] \in {"sent", "app"} /\ serves[q] = i /\ i \notin unsent
        BY <1>2, <2>p, <2>r, <3>4
      <4> QED
        BY <1>s, <2>r, <3>2, <3>4, <4>1 DEF HandOver
    <3>5. \A i \in Invokers : inv'[i] \in {"off", "queued"} => i \notin openFds' /\ ~InMessage(i)'
      BY <1>s, <2>r, <3>2 DEF HandOver
    <3>6. \A q \in Pids : state'[q] = "serving" =>
             /\ serves'[q] \in Invokers /\ serves'[q] \notin openFds'
             /\ ~\E k \in DOMAIN launcherSocket' : launcherSocket'[k].invoker = serves'[q]
      <4>1. \A q \in Pids : state'[q] = "serving" => serves'[q] \in Invokers
        BY <1>s, <1>t, <2>p, <2>r DEF ServiceInv
      <4> QED
        BY <3>3, <4>1 DEF InMessage
    <3>7. \A q \in Pids : state'[q] \in {"sent", "app"} /\ serves'[q] \in StillWaiting' \ unsent' =>
             \/ serves'[q] \in openFds'
             \/ \E k \in DOMAIN launcherSocket' : launcherSocket'[k].invoker = serves'[q]
      BY <3>4 DEF InMessage, StillWaiting
    <3> QED
      BY <3>1, <3>5, <3>6, <3>7 DEF HandOver, InMessage
  <2>4. NoneHeldYet'
    BY <2>v DEF NoneHeldYet
  <2>5. MessagesTrue'
    <3>1. ~misread' => DOMAIN launcherSocket' = {}
      BY <1>t DEF ReadyToFork
    <3> QED
      BY <3>1 DEF MessagesTrue
  <2>6. NoAppKilledByInvoker'
    BY <1>2, <1>s, <1>t, <2>r DEF NoAppKilledByInvoker, WaiterInv
  <2> QED
    BY <2>1, <2>2, <2>3, <2>4, <2>5, <2>6 DEF ConnectionPart
<1> QED
  BY <1>1, <1>2 DEF ForkBooster

\* run() forks the first booster when there is nothing.
LEMMA FirstForkKeepsConnections ==
  ASSUME QueueInv, QueueInv', ChildInv, InvokerInv, RunFirst, UNCHANGED <<inv, unsent>>
  PROVE  ConnectionPart'
<1>1. /\ pc = "init" /\ ~m_reExec /\ ForkBooster(state, m_children, "select")
      /\ UNCHANGED <<launcherSocket, openFds, m_boosterPidToInvokerPid,
                     m_boosterPidToInvokerFd, told, misread>>
  BY DEF RunFirst, signalVars
<1>2. /\ state = [p \in Pids |-> "free"] /\ m_children = {}
      /\ m_boosterPidToInvokerPid = NoMap /\ m_boosterPidToInvokerFd = NoMap
      /\ openFds = {} /\ launcherSocket = <<>>
  BY <1>1 DEF ChildInv, NothingYet, Started, InvokerInv, ConnectionPart, NoneHeldYet
<1>3. state \in [Pids -> States]
  BY DEF QueueInv, TypeOK, KernelTypeOK
<1>4. ReadyToFork(state, m_children)
  <2>1. Len(launcherSocket') = 0
    BY <1>1, <1>2
  <2>2. Running
    BY <1>1 DEF Running
  <2>3. openFds' = {m_boosterPidToInvokerFd'[p] : p \in Pids} \ {NoInvoker}
    BY <1>1, <1>2 DEF NoMap
  <2>4. DOMAIN launcherSocket' = {}
    BY <1>1, <1>2
  <2> QED
    BY <1>1, <1>2, <2>1, <2>2, <2>3, <2>4
       DEF ReadyToFork, NoMap, Uncommitted, StillWaiting, InMessage
<1> QED
  BY <1>1, <1>3, <1>4, ForkKeepsConnections

\* readFromBoosterSocket(): the connection a message carries becomes that of
\* the current booster, which had none.
LEMMA ReadKeepsConnections ==
  ASSUME QueueInv, QueueInv', ChildInv, InvokerInv, ReadFromBoosterSocket,
         UNCHANGED <<inv, unsent>>
  PROVE  ConnectionPart'
<1> DEFINE msg  == Head(launcherSocket)
           next == IF sigReady THEN "signal" ELSE "select"
           n    == Len(launcherSocket)
           cur  == m_boosterPid
<1>c. /\ pc = "socket" /\ launcherSocket' = Tail(launcherSocket) /\ StoreInvoker(msg)
      /\ ForkBooster(state, m_children, next)
      /\ UNCHANGED <<told, misread>>
  BY DEF ReadFromBoosterSocket
<1>t. /\ state \in [Pids -> States] /\ openFds \subseteq Invokers
      /\ serves \in [Pids -> Invokers \cup {NoInvoker}]
      /\ m_boosterPidToInvokerPid \in InvokerMap /\ m_boosterPidToInvokerFd \in InvokerMap
      /\ launcherSocket \in Seq(Message) /\ launcherSocket # <<>>
  BY <1>c DEF QueueInv, TypeOK, KernelTypeOK, DaemonTypeOK, QueuesReady
<1>l. /\ n \in Nat /\ n >= 1 /\ DOMAIN launcherSocket = 1..n
      /\ Len(launcherSocket') = n - 1 /\ DOMAIN launcherSocket' = 1..(n - 1)
      /\ \A k \in 1..(n - 1) : k + 1 \in 1..n /\ launcherSocket'[k] = launcherSocket[k + 1]
      /\ 1 \in 1..n /\ launcherSocket[1] = msg /\ msg \in Message
  <2>1. /\ n \in Nat /\ n >= 1 /\ DOMAIN launcherSocket = 1..n
        /\ launcherSocket[1] = msg /\ msg \in Message
    BY <1>t
  <2>2. /\ Tail(launcherSocket) \in Seq(Message) /\ Len(Tail(launcherSocket)) = n - 1
        /\ \A k \in 1..(n - 1) : Tail(launcherSocket)[k] = launcherSocket[k + 1]
    BY <1>t, <2>1
  <2> HIDE DEF msg, n
  <2> QED
    BY <1>c, <2>1, <2>2
<1>m. /\ Running /\ Children = m_children /\ Current = cur
      /\ PidMap = m_boosterPidToInvokerPid /\ FdMap = m_boosterPidToInvokerFd
      /\ m_children = {p \in Pids : state[p] # "free"}
      /\ cur \in m_children /\ cur # NoPid
  BY <1>c, InMemory, PidAssumption DEF Starting
<1>s. ConnectionsTracked /\ InStep /\ HandOver /\ MessagesTrue
  BY DEF InvokerInv, ConnectionPart
<1> HIDE DEF msg, n
\* The map and the descriptors after the message has been stored.
<1>f. /\ m_boosterPidToInvokerFd' = [m_boosterPidToInvokerFd EXCEPT ![cur] = msg.invoker]
      /\ m_boosterPidToInvokerPid' = m_boosterPidToInvokerFd'
      /\ openFds' = openFds \cup ({msg.invoker} \ {NoInvoker})
  <2>1. m_boosterPidToInvokerFd[cur] = NoInvoker /\ m_boosterPidToInvokerPid = m_boosterPidToInvokerFd
    BY <1>m, <1>s DEF ConnectionsTracked
  <2>2. CASE msg.invoker # NoInvoker
    BY <1>c, <1>m, <2>1, <2>2 DEF StoreInvoker
  <2>3. CASE msg.invoker = NoInvoker
    BY <1>c, <1>m, <1>t, <2>1, <2>3 DEF StoreInvoker, InvokerMap
  <2> QED
    BY <2>2, <2>3
<1>g. /\ m_boosterPidToInvokerFd'[cur] = msg.invoker
      /\ \A p \in Pids : p # cur => m_boosterPidToInvokerFd'[p] = FdMap[p]
  BY <1>f, <1>m, <1>t DEF InvokerMap
<1>i. ASSUME NEW i
      PROVE  InMessage(i)' => InMessage(i)
  BY <1>l DEF InMessage
<1>j. InMessage(msg.invoker)
  BY <1>l DEF InMessage
<1>h. ASSUME msg.invoker # NoInvoker
      PROVE  /\ msg.invoker \notin openFds
             /\ \A k \in DOMAIN launcherSocket' : launcherSocket'[k].invoker # msg.invoker
  <2>1. msg.invoker \notin openFds
    BY <1>j, <1>m, <1>s DEF HandOver
  <2>2. \A k \in 1..(n - 1) : k + 1 # 1
    BY <1>l
  <2> QED
    BY <1>h, <1>l, <1>m, <1>s, <2>1, <2>2 DEF HandOver
<1>1. ASSUME NEW p \in Pids, m_boosterPidToInvokerFd'[p] # NoInvoker
      PROVE  /\ p \in m_children
             /\ \A q \in Pids : m_boosterPidToInvokerFd'[q] = m_boosterPidToInvokerFd'[p] => q = p
  <2>1. \A q \in Pids : FdMap[q] # NoInvoker => FdMap[q] \in openFds
    BY <1>m, <1>s DEF ConnectionsTracked
  <2>2. p \in m_children
    BY <1>1, <1>g, <1>m, <1>s DEF ConnectionsTracked
  <2>3. ASSUME NEW q \in Pids, m_boosterPidToInvokerFd'[q] = m_boosterPidToInvokerFd'[p], q # p
        PROVE  FALSE
    <3>1. CASE p # cur /\ q # cur
      BY <1>1, <1>g, <1>m, <1>s, <2>3, <3>1 DEF ConnectionsTracked
    <3>2. CASE p = cur \/ q = cur
      BY <1>1, <1>g, <1>h, <2>1, <2>3, <3>2
    <3> QED
      BY <3>1, <3>2
  <2> QED
    BY <2>2, <2>3
<1>2. openFds' = {m_boosterPidToInvokerFd'[p] : p \in Pids} \ {NoInvoker}
  <2>1. openFds = {FdMap[p] : p \in Pids} \ {NoInvoker} /\ FdMap[cur] = NoInvoker /\ cur \in Pids
    BY <1>m, <1>s DEF ConnectionsTracked
  <2> QED
    BY <1>f, <1>g, <2>1
<1>3. \A k, l \in DOMAIN launcherSocket' :
         launcherSocket'[k].invoker = launcherSocket'[l].invoker /\ k # l
           => launcherSocket'[k].invoker = NoInvoker
  <2> SUFFICES ASSUME NEW k \in DOMAIN launcherSocket', NEW l \in DOMAIN launcherSocket',
                      launcherSocket'[k].invoker = launcherSocket'[l].invoker, k # l
               PROVE  launcherSocket'[k].invoker = NoInvoker
    OBVIOUS
  <2>1. k + 1 # l + 1 /\ k + 1 \in 1..n /\ l + 1 \in 1..n
    BY <1>l
  <2> QED
    BY <1>l, <1>m, <1>s, <2>1 DEF HandOver
<1>4. ASSUME NEW i \in openFds'
      PROVE  ~InMessage(i)'
  <2>1. CASE i \in openFds
    BY <1>i, <1>m, <1>s, <2>1 DEF HandOver
  <2>2. CASE i = msg.invoker /\ i # NoInvoker
    BY <1>h, <2>2 DEF InMessage
  <2> QED
    BY <1>f, <2>1, <2>2
<1>5. ASSUME NEW i \in Invokers
      PROVE  /\ i \in openFds' \/ InMessage(i)' => i \in openFds \/ InMessage(i)
             /\ i \in StillWaiting' =>
                  /\ i \in StillWaiting
                  /\ i \in openFds \/ InMessage(i) => i \in openFds' \/ InMessage(i)'
  <2>1. InMessage(i) => i = msg.invoker \/ InMessage(i)'
    <3>1. ASSUME NEW k \in 1..n, launcherSocket[k].invoker = i, k # 1
          PROVE  InMessage(i)'
      <4>1. k - 1 \in 1..(n - 1) /\ (k - 1) + 1 = k
        BY <1>l, <3>1
      <4> QED
        BY <1>l, <3>1, <4>1 DEF InMessage
    <3> QED
      BY <1>l, <3>1 DEF InMessage
  <2>2. i \in StillWaiting' => i \in StillWaiting
    BY <1>c DEF StillWaiting
  <2>3. i # NoInvoker
    BY InvokerAssumption
  <2> QED
    BY <1>f, <1>i, <1>j, <2>1, <2>2, <2>3
<1>6. ASSUME ~misread'
      PROVE  /\ Len(launcherSocket') = 0
             /\ \A p \in Pids : state[p] \notin Uncommitted
             /\ \A p \in m_children :
                  m_boosterPidToInvokerFd'[p] =
                    IF serves[p] \in WaitTerm THEN serves[p] ELSE NoInvoker
  <2>1. ~misread /\ Running
    BY <1>6, <1>c, <1>m
  <2>2. msg.from = cur
    BY <1>l, <1>m, <1>s, <2>1 DEF InStep
  <2>3. /\ state[cur] \in {"sent", "app", "zombie"}
        /\ msg.invoker = IF serves[cur] \in WaitTerm THEN serves[cur] ELSE NoInvoker
    BY <1>l, <1>s, <2>1, <2>2 DEF MessagesTrue
  <2>4. n <= 1
    BY <1>s, <2>1 DEF InStep, n
  <2>5. Len(launcherSocket') = 0
    BY <1>l, <2>4
  <2>6. \A p \in Pids : state[p] \notin Uncommitted
    BY <1>m, <1>s, <2>1, <2>3 DEF InStep, Uncommitted
  <2>7. \A p \in m_children :
           m_boosterPidToInvokerFd'[p] = IF serves[p] \in WaitTerm THEN serves[p] ELSE NoInvoker
    BY <1>g, <1>m, <1>s, <2>1, <2>3 DEF InStep
  <2> QED
    BY <2>5, <2>6, <2>7
<1>7. ReadyToFork(state, m_children)
  BY <1>1, <1>2, <1>3, <1>4, <1>5, <1>6, <1>f, <1>m DEF ReadyToFork
<1>8. next \in {"select", "signal", "reap"}
  OBVIOUS
<1> HIDE DEF next
<1> QED
  BY <1>7, <1>8, <1>c, <1>t, ForkKeepsConnections

\* waitpid() returns p: its entry goes with its connection, and its place, if
\* it was the current booster, is taken by a new one.
LEMMA ReapKeepsConnections ==
  ASSUME QueueInv, QueueInv', ChildInv, InvokerInv, NEW p \in Pids, ReapChild(p, StillWaiting),
         UNCHANGED <<inv, unsent>>
  PROVE  ConnectionPart'
<1> DEFINE reaped == [state EXCEPT ![p] = "free"]
           others == m_children \ {p}
           fd     == m_boosterPidToInvokerFd[p]
<1>t. /\ state \in [Pids -> States] /\ status \in [Pids -> Statuses \cup {"none"}]
      /\ serves \in [Pids -> Invokers \cup {NoInvoker}]
      /\ told \in [Invokers -> Statuses \cup {"none", "rejected", "lost"}]
      /\ m_boosterPidToInvokerPid \in InvokerMap /\ m_boosterPidToInvokerFd \in InvokerMap
      /\ launcherSocket \in Seq(Message) /\ misread \in BOOLEAN /\ openFds \subseteq Invokers
  BY DEF QueueInv, TypeOK, KernelTypeOK, DaemonTypeOK
<1>s. ConnectionsTracked /\ InStep /\ HandOver /\ MessagesTrue /\ NoAppKilledByInvoker /\ WaiterInv
        /\ FateInv /\ ServiceInv
  BY DEF InvokerInv, ServicePart, ConnectionPart
<1>r. /\ pc = "reap" /\ state[p] = "zombie" /\ Report(p, StillWaiting)
      /\ misread' = (misread \/ \E k \in DOMAIN launcherSocket : launcherSocket[k].from = p)
      /\ UNCHANGED <<m_reExec, launcherSocket, inv, unsent>>
  BY DEF ReapChild
<1>m. /\ Running /\ Children = m_children /\ Current = m_boosterPid
      /\ PidMap = m_boosterPidToInvokerPid /\ FdMap = m_boosterPidToInvokerFd
      /\ m_children = {q \in Pids : state[q] # "free"} /\ p \in m_children
      /\ m_boosterPid \in m_children
  BY <1>r, InMemory DEF Starting
<1>p. /\ reaped \in [Pids -> States] /\ reaped[p] = "free"
      /\ \A q \in Pids : q # p => reaped[q] = state[q]
  BY <1>t DEF States
<1>o. others = {q \in Pids : reaped[q] # "free"}
  BY <1>m, <1>p
<1>c. \/ p = m_boosterPid /\ ForkBooster(reaped, others, "reap")
      \/ /\ p # m_boosterPid /\ state' = reaped /\ m_children' = others
         /\ UNCHANGED <<pc, serves, fate, m_boosterPid>>
  BY DEF ReapChild
<1>e. m_boosterPidToInvokerPid = m_boosterPidToInvokerFd
  BY <1>m, <1>s DEF ConnectionsTracked
<1>q. ~misread' => ~misread /\ \A k \in DOMAIN launcherSocket : launcherSocket[k].from # p
  BY <1>r, <1>t
<1>i. \A i : InMessage(i)' <=> InMessage(i)
  BY <1>r DEF InMessage
\* After the report p has no entry, whatever it had before.
<1>f. /\ m_boosterPidToInvokerFd' = [m_boosterPidToInvokerFd EXCEPT ![p] = NoInvoker]
      /\ m_boosterPidToInvokerPid' = m_boosterPidToInvokerFd'
      /\ openFds' = openFds \ {fd}
      /\ told' = IF fd \in StillWaiting THEN [told EXCEPT ![fd] = status[p]] ELSE told
  <2>1. CASE fd = NoInvoker
    <3>1. UNCHANGED <<m_boosterPidToInvokerPid, m_boosterPidToInvokerFd, openFds, told>>
      BY <1>e, <1>r, <2>1 DEF Report
    <3>2. NoInvoker \notin openFds /\ NoInvoker \notin StillWaiting
      BY <1>t, InvokerAssumption DEF StillWaiting
    <3> QED
      BY <1>e, <1>t, <2>1, <3>1, <3>2 DEF InvokerMap
  <2>2. CASE fd # NoInvoker
    BY <1>e, <1>r, <2>2 DEF Report
  <2> QED
    BY <2>1, <2>2
<1>g. /\ m_boosterPidToInvokerFd'[p] = NoInvoker
      /\ \A q \in Pids : q # p => m_boosterPidToInvokerFd'[q] = m_boosterPidToInvokerFd[q]
  BY <1>f, <1>t DEF InvokerMap
<1> HIDE DEF reaped, others, fd
<1>1. ASSUME NEW q \in Pids, m_boosterPidToInvokerFd'[q] # NoInvoker
      PROVE  /\ q \in others /\ q # m_boosterPid
             /\ \A r \in Pids : m_boosterPidToInvokerFd'[r] = m_boosterPidToInvokerFd'[q] => r = q
  BY <1>1, <1>g, <1>m, <1>s DEF ConnectionsTracked, others
<1>2. openFds' = {m_boosterPidToInvokerFd'[q] : q \in Pids} \ {NoInvoker}
  <2>1. openFds = {m_boosterPidToInvokerFd[q] : q \in Pids} \ {NoInvoker}
    BY <1>m, <1>s DEF ConnectionsTracked
  <2>2. \A q \in Pids : m_boosterPidToInvokerFd[q] = fd /\ q # p => fd = NoInvoker
    BY <1>m, <1>s DEF ConnectionsTracked, fd
  <2> QED
    BY <1>f, <1>g, <2>1, <2>2 DEF fd
<1>3. /\ \A k, l \in DOMAIN launcherSocket' :
           launcherSocket'[k].invoker = launcherSocket'[l].invoker /\ k # l
             => launcherSocket'[k].invoker = NoInvoker
      /\ \A i \in openFds' : ~InMessage(i)'
  BY <1>f, <1>i, <1>m, <1>r, <1>s DEF HandOver
\* The only connection that is closed is that of the invoker that is told.
<1>4. ASSUME NEW i \in Invokers
      PROVE  /\ i \in openFds' \/ InMessage(i)' => i \in openFds \/ InMessage(i)
             /\ i \in StillWaiting' =>
                  /\ i \in StillWaiting
                  /\ i \in openFds \/ InMessage(i) => i \in openFds' \/ InMessage(i)'
  <2>1. status[p] # "none"
    BY <1>r, <1>s DEF FateInv
  <2>2. i \in StillWaiting' => i \in StillWaiting /\ i # fd
    BY <1>f, <1>r, <1>t, <2>1 DEF StillWaiting
  <2> QED
    BY <1>f, <1>i, <2>2
<1>5. \A q \in Pids : m_boosterPidToInvokerFd'[q] # NoInvoker =>
         q \in others /\ \A r \in Pids : m_boosterPidToInvokerFd'[r] = m_boosterPidToInvokerFd'[q] => r = q
  BY <1>1
<1>6. CASE p = m_boosterPid
  <2>1. ForkBooster(reaped, others, "reap")
    BY <1>6, <1>c
  <2>2. ASSUME ~misread'
        PROVE  /\ Len(launcherSocket') = 0
               /\ \A q \in Pids : reaped[q] \notin Uncommitted
               /\ \A q \in others : m_boosterPidToInvokerFd'[q] =
                                      IF serves[q] \in WaitTerm THEN serves[q] ELSE NoInvoker
    <3>1. DOMAIN launcherSocket = {}
      BY <1>6, <1>m, <1>q, <1>s, <2>2 DEF InStep
    <3>2. Len(launcherSocket') = 0
      BY <1>r, <1>t, <3>1
    <3>3. \A q \in Pids : reaped[q] \notin Uncommitted
      BY <1>6, <1>m, <1>p, <1>q, <1>s, <2>2 DEF InStep, Uncommitted
    <3>4. \A q \in others : m_boosterPidToInvokerFd'[q] =
                              IF serves[q] \in WaitTerm THEN serves[q] ELSE NoInvoker
      <4>1. \A q \in others : q \in Pids /\ q # p /\ q \in Children \ {Current}
        BY <1>6, <1>m DEF others
      <4> QED
        BY <1>g, <1>m, <1>q, <1>s, <2>2, <4>1 DEF InStep
    <3> QED
      BY <3>2, <3>3, <3>4
  <2>3. \A q \in Pids : reaped[q] = state[q] \/ (state[q] = "zombie" /\ reaped[q] = "free")
    BY <1>p, <1>r
  <2>4. ReadyToFork(reaped, others)
    BY <1>2, <1>3, <1>4, <1>5, <1>f, <1>m, <1>o, <1>r, <2>2, <2>3 DEF ReadyToFork
  <2> QED
    BY <1>p, <2>1, <2>4, ForkKeepsConnections
<1>7. CASE p # m_boosterPid
  <2>c. /\ state' = reaped /\ m_children' = others
        /\ UNCHANGED <<pc, serves, fate, m_boosterPid>>
    BY <1>7, <1>c
  <2>v. /\ Running' /\ Started' /\ pc' = "reap"
        /\ Children' = others /\ Current' = m_boosterPid
        /\ PidMap' = m_boosterPidToInvokerPid' /\ FdMap' = m_boosterPidToInvokerFd'
    BY <1>r, <2>c DEF Running, Started, Restarting, Starting, Children, Current, PidMap, FdMap
  <2>1. ConnectionsTracked'
    BY <1>1, <1>2, <1>f, <2>v DEF ConnectionsTracked
  <2>2. InStep'
    <3> SUFFICES ASSUME ~misread' PROVE InStep'
      BY DEF InStep
    <3>1. /\ Len(launcherSocket') <= 1
          /\ \A k \in DOMAIN launcherSocket' : launcherSocket'[k].from = Current'
      BY <1>m, <1>q, <1>r, <1>s, <2>v DEF InStep
    <3>2. \A q \in Pids : state'[q] \in Uncommitted => q = Current'
      BY <1>m, <1>p, <1>q, <1>s, <2>c, <2>v DEF InStep, Uncommitted
    <3>3. ASSUME NEW q \in Children' \ {Current'}
          PROVE  FdMap'[q] = IF serves'[q] \in WaitTerm THEN serves'[q] ELSE NoInvoker
      <4>1. q \in Pids /\ q # p /\ q \in Children \ {Current}
        BY <1>m, <2>v DEF others
      <4> QED
        BY <1>g, <1>m, <1>q, <1>s, <2>c, <2>v, <4>1 DEF InStep
    <3> QED
      BY <3>1, <3>2, <3>3 DEF InStep
  <2>3. HandOver'
    <3>1. \A i \in Invokers : inv'[i] \in {"off", "queued"} => i \notin openFds' /\ ~InMessage(i)'
      BY <1>4, <1>m, <1>r, <1>s DEF HandOver
    <3>2. ASSUME NEW q \in Pids, state'[q] = "serving"
          PROVE  serves'[q] \notin openFds' /\ ~InMessage(serves[q])'
      <4>1. q # p /\ state[q] = "serving" /\ serves'[q] = serves[q]
        BY <1>p, <2>c, <3>2
      <4>2. serves[q] \notin openFds /\ ~InMessage(serves[q])
        BY <1>m, <1>s, <4>1 DEF HandOver
      <4> QED
        BY <1>f, <1>i, <4>1, <4>2
    <3>3. ASSUME NEW q \in Pids, state'[q] \in {"sent", "app"},
                 serves'[q] \in StillWaiting' \ unsent'
          PROVE  serves'[q] \in openFds' \/ InMessage(serves[q])'
      <4>1. q # p /\ state[q] \in {"sent", "app"} /\ serves'[q] = serves[q]
        BY <1>p, <2>c, <3>3
      <4>2. serves[q] \in Invokers
        BY <3>3, <4>1 DEF StillWaiting
      <4>3. serves[q] \in StillWaiting \ unsent
        BY <1>4, <1>r, <3>3, <4>1, <4>2
      <4>4. serves[q] \in openFds \/ InMessage(serves[q])
        BY <1>m, <1>s, <4>1, <4>3 DEF HandOver
      <4> QED
        BY <1>4, <3>3, <4>1, <4>2, <4>4
    <3>4. \A q \in Pids : InMessage(serves[q])' <=>
             \E k \in DOMAIN launcherSocket' : launcherSocket'[k].invoker = serves'[q]
      BY <2>c DEF InMessage
    <3> QED
      BY <1>3, <3>1, <3>2, <3>3, <3>4 DEF HandOver, InMessage
  <2>4. NoneHeldYet'
    BY <2>v DEF NoneHeldYet
  <2>5. MessagesTrue'
    <3> SUFFICES ASSUME ~misread', NEW k \in DOMAIN launcherSocket'
                 PROVE  /\ state'[launcherSocket'[k].from] \in {"sent", "app", "zombie"}
                        /\ serves'[launcherSocket'[k].from] # NoInvoker
                        /\ launcherSocket'[k].invoker =
                             IF serves'[launcherSocket'[k].from] \in WaitTerm
                             THEN serves'[launcherSocket'[k].from] ELSE NoInvoker
      BY DEF MessagesTrue
    <3>1. launcherSocket[k] \in Message /\ launcherSocket[k].from # p
      BY <1>q, <1>r, <1>t
    <3>2. launcherSocket[k].from \in Pids
      BY <3>1 DEF Message
    <3> QED
      BY <1>m, <1>p, <1>q, <1>r, <1>s, <2>c, <3>1, <3>2 DEF MessagesTrue
  <2>6. NoAppKilledByInvoker'
    <3>1. status[p] # "lost"
      BY <1>r, <1>s, <1>t, StatusNames DEF FateInv
    <3>2. \A i \in Invokers : told'[i] = "lost" => told[i] = "lost"
      BY <1>f, <1>t, <3>1
    <3> QED
      BY <1>m, <1>r, <1>s, <2>c, <3>2 DEF NoAppKilledByInvoker, Running
  <2> QED
    BY <2>1, <2>2, <2>3, <2>4, <2>5, <2>6 DEF ConnectionPart
<1> QED
  BY <1>6, <1>7

-----------------------------------------------------------------------------
(* The steps that let connections alone.                                   *)

\* What the others do does not change what the daemon knows,
LEMMA OthersKeepView ==
  ASSUME UNCHANGED <<pc, m_reExec, memory, stateFile, openFds, launcherSocket, misread>>
  PROVE  ViewKept
BY DEF ViewKept, SameView, Running, Started, Restarting, Children, Current, PidMap, FdMap, memory

\* nor does the daemon in its loop, between messages and children.
LEMMA LoopKeepsView ==
  ASSUME pc \notin Starting \cup {"init", "exited"}, pc' \notin Starting \cup {"init", "exited"},
         UNCHANGED <<m_boosterPid, m_children, m_boosterPidToInvokerPid,
                     m_boosterPidToInvokerFd, openFds, launcherSocket, misread>>
  PROVE  ViewKept
BY DEF ViewKept, SameView, Running, Started, Restarting, Children, Current, PidMap, FdMap

\* A step that changes neither processes nor invokers.
LEMMA QuietAlone ==
  ASSUME ViewKept, UNCHANGED <<state, serves, fate, told, inv, unsent>>
  PROVE  LetsAlone
BY DEF LetsAlone, InvokersKept

\* A process dies, and by its invoker only if the connection was not sent.
LEMMA DieAlone ==
  ASSUME QueueInv, ViewKept, InvokersKept, NEW p \in Pids, NEW st \in Statuses, Die(p, st),
         UNCHANGED <<serves, unsent>>,
         Running' => st # "SIGKILL" \/ serves[p] \in unsent
  PROVE  LetsAlone
<1>t. state \in [Pids -> States]
  BY DEF QueueInv, TypeOK, KernelTypeOK
<1>1. /\ state' = [state EXCEPT ![p] = IF Running THEN "zombie" ELSE "free"]
      /\ \A i \in Invokers : fate'[i] \in {st, fate[i]}
      /\ \A i \in Invokers : i # serves[p] => fate'[i] = fate[i]
  BY DEF Die, FateAfter
<1>2. Running' => Running
  BY DEF ViewKept
<1>3. ASSUME NEW q \in Pids
      PROVE  /\ state'[q] \in Uncommitted => state[q] \in Uncommitted
             /\ Running' /\ state[q] \in {"sent", "app", "zombie"} =>
                  state'[q] \in {"sent", "app", "zombie"}
             /\ state'[q] = "serving" => state[q] = "serving"
             /\ state'[q] \in {"sent", "app"} => state[q] \in {"sent", "app"}
  BY <1>t, <1>1, <1>2 DEF Uncommitted
<1> QED
  BY <1>1, <1>3 DEF LetsAlone

\* killBoosters().
LEMMA KillAlone ==
  ASSUME QueueInv, ViewKept, NEW queue, KillBoosters(queue),
         UNCHANGED <<serves, told, inv, unsent>>
  PROVE  LetsAlone
<1>1. CASE UNCHANGED <<state, status, fate>>
  BY <1>1, QuietAlone
<1>2. CASE m_boosterPid # NoPid /\ Die(m_boosterPid, "SIGTERM")
  <2>1. m_boosterPid \in Pids
    BY <1>2 DEF QueueInv, TypeOK, DaemonTypeOK
  <2>2. "SIGTERM" \in Statuses
    BY StatusNames
  <2>3. InvokersKept
    BY DEF InvokersKept
  <2> QED
    BY <1>2, <2>1, <2>2, <2>3, DieAlone
<1> QED
  BY <1>1, <1>2 DEF KillBoosters

\* Process p goes on from one of its states to another, serving whom it served.
LEMMA AdvanceAlone ==
  ASSUME QueueInv, ViewKept, NEW p \in Pids, NEW from, NEW to,
         state[p] = from, state' = [state EXCEPT ![p] = to],
         UNCHANGED <<serves, fate, told, inv>>, unsent \subseteq unsent',
         \/ from = "forked" /\ to = "restored"
         \/ from = "restored" /\ to = "idle"
         \/ from = "sent" /\ to = "app"
         \/ from = "serving" /\ to = "sent" /\ serves[p] \in unsent'
  PROVE  LetsAlone
<1>t. state \in [Pids -> States]
  BY DEF QueueInv, TypeOK, KernelTypeOK
<1>1. /\ state'[p] = to
      /\ \A q \in Pids : q # p => state'[q] = state[q]
  BY <1>t
<1> QED
  BY <1>1 DEF LetsAlone, InvokersKept, Uncommitted

\* A booster takes a queued invoker, whom nobody serves.
LEMMA AcceptAlone ==
  ASSUME QueueInv, InvokerInv, NEW p \in Pids, NEW i \in Invokers, Accept(p, i)
  PROVE  LetsAlone
<1>t. /\ state \in [Pids -> States] /\ serves \in [Pids -> Invokers \cup {NoInvoker}]
      /\ inv \in [Invokers -> {"off", "queued", "waiting", "done", "gone"}]
  BY DEF QueueInv, TypeOK, KernelTypeOK, InvokerTypeOK
<1>a. /\ inv[i] = "queued" /\ inv' = [inv EXCEPT ![i] = IF i \in WaitTerm THEN "waiting" ELSE "done"]
      /\ state[p] = "idle" /\ state' = [state EXCEPT ![p] = "serving"]
      /\ serves' = [serves EXCEPT ![p] = i]
      /\ UNCHANGED <<pc, m_reExec, memory, stateFile, openFds, launcherSocket, misread,
                     fate, told, unsent>>
  BY DEF Accept, AcceptInvoker, daemonVars, daemonLife
<1>1. ViewKept
  BY <1>a, OthersKeepView
<1>2. ServerOf(i) = {}
  BY <1>a DEF InvokerInv, ServicePart, UnservedInv, ServerOf, Live
<1>3. InvokersKept
  BY <1>t, <1>a, <1>2 DEF InvokersKept
<1>4. /\ state'[p] = "serving" /\ serves'[p] = i
      /\ \A q \in Pids : q # p => state'[q] = state[q] /\ serves'[q] = serves[q]
  BY <1>t, <1>a
<1> QED
  BY <1>1, <1>3, <1>4, <1>a DEF LetsAlone, Uncommitted

\* A booster turns its invoker away, and closes the connection it still has.
LEMMA RejectAlone ==
  ASSUME QueueInv, NEW p \in Pids, Reject(p)
  PROVE  LetsAlone
<1>t. /\ state \in [Pids -> States] /\ serves \in [Pids -> Invokers \cup {NoInvoker}]
      /\ fate \in [Invokers -> Statuses \cup {"none", "rejected"}]
      /\ told \in [Invokers -> Statuses \cup {"none", "rejected", "lost"}]
  BY DEF QueueInv, TypeOK, KernelTypeOK, DaemonTypeOK
<1>a. /\ state[p] = "serving" /\ state' = [state EXCEPT ![p] = "idle"]
      /\ serves' = [serves EXCEPT ![p] = NoInvoker]
      /\ fate' = [fate EXCEPT ![serves[p]] = "rejected"]
      /\ told' = IF serves[p] \in StillWaiting
                 THEN [told EXCEPT ![serves[p]] = "rejected"] ELSE told
      /\ UNCHANGED <<pc, m_reExec, memory, stateFile, openFds, launcherSocket, misread,
                     inv, unsent>>
  BY DEF Reject, RejectInvoker, daemonLife
<1>1. ViewKept
  BY <1>a, OthersKeepView
<1>2. InvokersKept
  BY <1>t, <1>a DEF InvokersKept
<1>3. /\ state'[p] = "idle"
      /\ \A q \in Pids : q # p => state'[q] = state[q] /\ serves'[q] = serves[q]
  BY <1>t, <1>a
<1>4. \A i \in Invokers : fate'[i] = "SIGKILL" => fate[i] = "SIGKILL"
  BY <1>t, <1>a
<1> QED
  BY <1>1, <1>2, <1>3, <1>4, <1>a DEF LetsAlone, Uncommitted

\* An invoker that has lost its connection kills its application: as long as
\* the daemon runs and the connection has been sent there is none to kill.
LEMMA LoseAlone ==
  ASSUME QueueInv, InvokerInv, NEW i \in Invokers, Lose(i)
  PROVE  LetsAlone
<1>t. told \in [Invokers -> Statuses \cup {"none", "rejected", "lost"}]
  BY DEF QueueInv, TypeOK, DaemonTypeOK
<1>a. /\ i \in StillWaiting /\ ~ConnectionHeld(i) /\ told' = [told EXCEPT ![i] = "lost"]
      /\ UNCHANGED <<pc, m_reExec, memory, stateFile, openFds, launcherSocket, misread,
                     serves, inv, unsent>>
  BY DEF Lose, ConnectionLost, daemonLife
<1>1. ViewKept
  BY <1>a, OthersKeepView
<1>2. InvokersKept
  BY <1>t, <1>a DEF InvokersKept
<1>3. CASE UNCHANGED <<state, status, fate>>
  BY <1>1, <1>2, <1>3, <1>a DEF LetsAlone
<1>4. ASSUME NEW p \in ServerOf(i), Die(p, "SIGKILL")
      PROVE  LetsAlone
  <2>1. p \in Pids /\ serves[p] = i /\ state[p] \in {"serving", "sent", "app"}
    BY DEF ServerOf
  <2>2. Running => serves[p] \in unsent
    BY <1>a, <2>1 DEF ConnectionHeld, InvokerInv, ConnectionPart, HandOver, InMessage
  <2>3. "SIGKILL" \in Statuses
    BY StatusNames
  <2>4. Running' => serves[p] \in unsent
    BY <1>a, <2>2 DEF Running
  <2> QED
    BY <1>1, <1>2, <1>4, <1>a, <2>1, <2>3, <2>4, DieAlone
<1> QED
  BY <1>3, <1>4 DEF Lose, ConnectionLost

\* The steps the daemon takes without reading a message, forking or waiting
\* for a child, execve() with the state file included.
LEMMA DaemonAlone ==
  ASSUME QueueInv, ChildInv, UNCHANGED <<inv, unsent>>,
         \/ InstallHandlers \/ SetInstance \/ RestoreState \/ CreateChannels \/ RunAgain
         \/ Select \/ ReadSigChld \/ EnterNormalMode \/ EnterBootMode \/ ReadSigPipe
         \/ ReadSigHup \/ Exec \/ EndReap
         \/ \E p \in Pids : VisitLiving(p)
  PROVE  LetsAlone
<1> USE DEF Starting
<1>1. CASE InstallHandlers \/ SetInstance \/ CreateChannels
  <2>1. /\ pc \in {"main", "handlers", "instance"} /\ pc' \in {"handlers", "instance", "init"}
        /\ pc' = "init" => ~m_reExec
        /\ UNCHANGED <<m_reExec, memory, stateFile, openFds, launcherSocket, misread,
                       state, serves, fate, told>>
    BY <1>1 DEF InstallHandlers, SetInstance, CreateChannels, daemonVars, processVars
  <2>2. ViewKept
    BY <2>1 DEF ViewKept, SameView, Running, Started, Restarting, Children, Current, PidMap,
                FdMap, memory
  <2> QED
    BY <2>1, <2>2, QuietAlone
<1>2. CASE RestoreState
  <2>1. ViewKept
    BY <1>2 DEF RestoreState, ViewKept, SameView, Running, Started, Restarting, Children,
                Current, PidMap, FdMap
  <2> QED
    BY <1>2, <2>1, QuietAlone DEF RestoreState, processVars
<1>3. CASE RunAgain
  <2>1. ViewKept
    BY <1>3 DEF RunAgain, ViewKept, SameView, Running, Started, Restarting, Children,
                Current, PidMap, FdMap, memory
  <2> QED
    BY <1>3, <2>1, QuietAlone DEF RunAgain, processVars
<1>4. CASE Exec
  <2>1. stateFile = [bootMode |-> m_bootMode, boosterPid |-> m_boosterPid,
                     children |-> m_children, invokerPid |-> m_boosterPidToInvokerPid,
                     invokerFd |-> m_boosterPidToInvokerFd]
    BY <1>4 DEF Exec, ChildInv, StateSaved
  <2>2. /\ pc = "exec" /\ pc' = "main" /\ m_reExec'
        /\ UNCHANGED <<stateFile, openFds, launcherSocket, misread,
                       state, serves, fate, told>>
    BY <1>4 DEF Exec, processVars
  <2>3. ViewKept
    BY <2>1, <2>2 DEF ViewKept, SameView, Running, Started, Restarting, Children, Current,
                      PidMap, FdMap
  <2> QED
    BY <2>2, <2>3, QuietAlone
<1>5. CASE \/ Select \/ ReadSigChld \/ ReadSigPipe \/ EndReap
           \/ \E p \in Pids : VisitLiving(p)
  <2>1. /\ pc \notin Starting \cup {"init", "exited"}
        /\ pc' \notin Starting \cup {"init", "exited"}
        /\ UNCHANGED <<memory, openFds, launcherSocket, misread,
                       state, serves, fate, told>>
    BY <1>5 DEF Select, ReadSigChld, ReadSigPipe, EndReap, VisitLiving, ReadSignal, daemonVars,
                processVars, daemonLife
  <2> QED
    BY <2>1, LoopKeepsView, QuietAlone DEF memory
<1>6. ASSUME NEW s, NEW boot, ReadModeSignal(s, boot)
      PROVE  LetsAlone
  <2>1. /\ pc = "signal" /\ pc' = "select"
        /\ UNCHANGED <<m_boosterPid, m_children, m_boosterPidToInvokerPid,
                       m_boosterPidToInvokerFd, openFds, launcherSocket, misread,
                       serves, told>>
        /\ UNCHANGED <<state, status, fate>> \/ KillBoosters(Tail(sigPipe))
    BY <1>6 DEF ReadModeSignal, ReadSignal
  <2>2. ViewKept
    BY <2>1, LoopKeepsView
  <2> QED
    BY <2>1, <2>2, QuietAlone, KillAlone
<1>7. CASE ReadSigHup
  <2>1. /\ pc = "signal" /\ pc' = "exec"
        /\ UNCHANGED <<m_boosterPid, m_children, m_boosterPidToInvokerPid,
                       m_boosterPidToInvokerFd, openFds, launcherSocket, misread,
                       serves, told>>
        /\ KillBoosters(Tail(sigPipe))
    BY <1>7 DEF ReadSigHup, ReadSignal, memory
  <2>2. ViewKept
    BY <2>1, LoopKeepsView
  <2> QED
    BY <2>1, <2>2, KillAlone
<1> QED
  BY <1>1, <1>2, <1>3, <1>4, <1>5, <1>6, <1>7 DEF EnterNormalMode, EnterBootMode

-----------------------------------------------------------------------------
(* The third layer.                                                        *)

\* Every step keeps what the daemon knows of connections right.
LEMMA ConnectionSteps ==
  ASSUME QueueInv, QueueInv', ChildInv, InvokerInv, Next
  PROVE  ConnectionPart'
<1>a. LetsAlone => ConnectionPart'
  BY AloneKeepsConnections
<1>v. UNCHANGED <<pc, m_reExec, memory, stateFile, openFds, launcherSocket, misread>> => ViewKept
  BY OthersKeepView
<1>1. CASE DaemonRuns
  <2>u. UNCHANGED <<inv, unsent>>
    BY <1>1 DEF DaemonRuns
  <2>1. CASE ReadSigTerm
    BY <2>1, ExitKeepsConnections DEF ReadSigTerm, DaemonExits
  <2>2. CASE RunFirst
    BY <2>2, <2>u, FirstForkKeepsConnections
  <2>3. CASE ReadFromBoosterSocket
    BY <2>3, <2>u, ReadKeepsConnections
  <2>4. ASSUME NEW p \in Pids, ReapChild(p, StillWaiting)
        PROVE  ConnectionPart'
    BY <2>4, <2>u, ReapKeepsConnections
  <2>5. CASE \/ InstallHandlers \/ SetInstance \/ RestoreState \/ CreateChannels \/ RunAgain
             \/ Select \/ ReadSigChld \/ EnterNormalMode \/ EnterBootMode \/ ReadSigPipe
             \/ ReadSigHup \/ Exec \/ EndReap
             \/ \E p \in Pids : VisitLiving(p)
    BY <1>a, <2>5, <2>u, DaemonAlone
  <2> QED
    BY <1>1, <2>1, <2>2, <2>3, <2>4, <2>5 DEF DaemonRuns, DaemonStep
<1>2. CASE Handler
  <2>1. PICK s \in Signals : DeliverSignal(s) /\ UNCHANGED <<daemonVars, inv, unsent>>
    BY <1>2 DEF Handler, HandleSignal
  <2>2. CASE UNCHANGED <<pc, state, fate>>
    <3>1. UNCHANGED <<m_reExec, memory, stateFile, openFds, launcherSocket, misread,
                      serves, told, inv, unsent>>
      BY <2>1 DEF DeliverSignal, daemonVars
    <3> QED
      BY <1>a, <1>v, <2>2, <3>1, QuietAlone
  <2>3. CASE \E cause : DaemonExits(cause, state)
    BY <2>3, ExitKeepsConnections DEF DaemonExits
  <2> QED
    BY <2>1, <2>2, <2>3 DEF DeliverSignal
<1>3. CASE Failure
  BY <1>3, ExitKeepsConnections
     DEF Failure, DaemonFails, ReadFails, SaveFails, ExecFails, DaemonCrashes, DaemonExits
<1>4. ASSUME NEW p \in Pids, Prepare(p)
      PROVE  ConnectionPart'
  <2>1. UNCHANGED <<pc, m_reExec, memory, stateFile, openFds, launcherSocket, misread,
                    serves, fate, told, inv, unsent>>
    BY <1>4 DEF Prepare, RestoreHandlers, SetDeathSignal, Launch, daemonVars, daemonLife
  <2>2. \/ state[p] = "forked" /\ state' = [state EXCEPT ![p] = "restored"]
        \/ state[p] = "restored" /\ state' = [state EXCEPT ![p] = "idle"]
        \/ state[p] = "sent" /\ state' = [state EXCEPT ![p] = "app"]
    BY <1>4 DEF Prepare, RestoreHandlers, SetDeathSignal, Launch
  <2> QED
    BY <1>a, <1>v, <2>1, <2>2, AdvanceAlone
<1>5. ASSUME NEW p \in Pids, Commit(p)
      PROVE  ConnectionPart'
  <2>u. UNCHANGED <<daemonVars, inv>>
    BY <1>5 DEF Commit
  <2>1. CASE SendDataToParent(p) /\ UNCHANGED unsent
    BY <2>1, <2>u, SendKeepsConnections
  <2>2. CASE SendFails(p) /\ unsent' = unsent \cup {serves[p]}
    <3>1. /\ state[p] = "serving" /\ state' = [state EXCEPT ![p] = "sent"]
          /\ UNCHANGED <<pc, m_reExec, memory, stateFile, openFds, launcherSocket, misread,
                         serves, fate, told, inv>>
          /\ unsent \subseteq unsent' /\ serves[p] \in unsent'
      BY <2>2, <2>u DEF SendFails, daemonVars, daemonLife
    <3> QED
      BY <1>a, <1>v, <3>1, AdvanceAlone
  <2> QED
    BY <1>5, <2>1, <2>2 DEF Commit
<1>6. ASSUME NEW p \in Pids, Reject(p)
      PROVE  ConnectionPart'
  BY <1>6, <1>a, RejectAlone
<1>7. ASSUME NEW p \in Pids, Ends(p)
      PROVE  ConnectionPart'
  <2>1. PICK st \in Statuses : Die(p, st) /\ st # "SIGKILL"
    BY <1>7, StatusNames DEF Ends, BoosterCrashes, ApplicationExits
  <2>2. UNCHANGED <<pc, m_reExec, memory, stateFile, openFds, launcherSocket, misread,
                    serves, told, inv, unsent>>
    BY <1>7 DEF Ends, BoosterCrashes, ApplicationExits, daemonVars, daemonLife
  <2>3. InvokersKept
    BY <2>2 DEF InvokersKept
  <2> QED
    BY <1>a, <1>v, <2>1, <2>2, <2>3, DieAlone
<1>8. ASSUME NEW p \in Pids, NEW i \in Invokers, Accept(p, i)
      PROVE  ConnectionPart'
  BY <1>8, <1>a, AcceptAlone
<1>9. ASSUME NEW i \in Invokers, Lose(i)
      PROVE  ConnectionPart'
  BY <1>9, <1>a, LoseAlone
<1>10. ASSUME NEW i \in Invokers, Kill(i)
       PROVE  ConnectionPart'
  <2>1. /\ inv[i] = "waiting" /\ inv' = [inv EXCEPT ![i] = "gone"]
        /\ UNCHANGED <<pc, m_reExec, memory, stateFile, openFds, launcherSocket, misread,
                       serves, told, unsent>>
    BY <1>10 DEF Kill, Interrupt, daemonVars, daemonLife
  <2>2. inv \in [Invokers -> {"off", "queued", "waiting", "done", "gone"}]
    BY DEF QueueInv, TypeOK, InvokerTypeOK
  <2>3. InvokersKept
    BY <2>1, <2>2 DEF InvokersKept
  <2>4. CASE UNCHANGED <<state, status, fate>>
    BY <1>a, <1>v, <2>1, <2>3, <2>4 DEF LetsAlone
  <2>5. ASSUME NEW p \in ServerOf(i), Die(p, "SIGTERM")
        PROVE  ConnectionPart'
    <3>1. p \in Pids /\ "SIGTERM" \in Statuses
      BY StatusNames DEF ServerOf
    <3> QED
      BY <1>a, <1>v, <2>1, <2>3, <2>5, <3>1, DieAlone
  <2> QED
    BY <1>10, <2>4, <2>5 DEF Kill, Interrupt
<1>11. ASSUME NEW i \in Invokers, Request(i)
       PROVE  ConnectionPart'
  <2>1. /\ inv[i] = "off" /\ inv' = [inv EXCEPT ![i] = "queued"]
        /\ UNCHANGED <<pc, m_reExec, memory, stateFile, openFds, launcherSocket, misread,
                       state, serves, fate, told, unsent>>
    BY <1>11 DEF Request, Connect, kernelVars, processVars, daemonVars, daemonLife
  <2>2. inv \in [Invokers -> {"off", "queued", "waiting", "done", "gone"}]
    BY DEF QueueInv, TypeOK, InvokerTypeOK
  <2>3. InvokersKept
    BY <2>1, <2>2 DEF InvokersKept
  <2> QED
    BY <1>a, <1>v, <2>1, <2>3 DEF LetsAlone
<1>12. ASSUME NEW s \in AdminSignals, Administer(s)
       PROVE  ConnectionPart'
  <2>1. UNCHANGED <<pc, m_reExec, memory, stateFile, openFds, launcherSocket, misread,
                    state, serves, fate, told, inv, unsent>>
    BY <1>12 DEF Administer, processVars, daemonVars, daemonLife
  <2> QED
    BY <1>a, <1>v, <2>1, QuietAlone
<1> QED
  BY <1>1, <1>2, <1>3, <1>4, <1>5, <1>6, <1>7, <1>8, <1>9, <1>10, <1>11, <1>12 DEF Next

-----------------------------------------------------------------------------
(* The invariant, and what follows from it.                                *)

\* The launcher starts with nobody served, told or waiting.
LEMMA InitInvoker == Init => InvokerInv
<1> SUFFICES ASSUME Init PROVE InvokerInv
  OBVIOUS
<1>i. /\ pc = "main" /\ m_reExec = FALSE
      /\ state = [p \in Pids |-> "free"] /\ serves = [p \in Pids |-> NoInvoker]
      /\ fate = [i \in Invokers |-> "none"] /\ told = [i \in Invokers |-> "none"]
      /\ inv = [i \in Invokers |-> "off"]
      /\ m_boosterPid = NoPid /\ m_children = {}
      /\ m_boosterPidToInvokerPid = NoMap /\ m_boosterPidToInvokerFd = NoMap
      /\ openFds = {} /\ launcherSocket = <<>>
  BY DEF Init, KernelInit, DaemonInit, InvokerInit
<1>v. /\ ~Restarting /\ Children = {} /\ Current = NoPid
      /\ PidMap = NoMap /\ FdMap = NoMap
  BY <1>i DEF Restarting, Children, Current, PidMap, FdMap
<1>d. DOMAIN launcherSocket = {} /\ Len(launcherSocket) = 0
  BY <1>i
<1>1. ServiceInv /\ UnservedInv /\ FateInv /\ ToldInv /\ WaiterInv /\ RightOutcomeInStep
  BY <1>i, StatusNames DEF ServiceInv, UnservedInv, FateInv, ToldInv, WaiterInv,
     RightOutcomeInStep, RightOutcome, Live
<1>2. ConnectionsTracked
  <2>1. openFds = {FdMap[p] : p \in Pids} \ {NoInvoker}
    BY <1>i, <1>v DEF NoMap
  <2> QED
    BY <1>v, <2>1 DEF ConnectionsTracked, NoMap
<1>3. InStep
  BY <1>i, <1>v, <1>d DEF InStep, Uncommitted
<1>4. HandOver
  BY <1>i, <1>d DEF HandOver, InMessage
<1>5. NoneHeldYet /\ MessagesTrue /\ NoAppKilledByInvoker
  BY <1>i, <1>d DEF NoneHeldYet, MessagesTrue, NoAppKilledByInvoker
<1> QED
  BY <1>1, <1>2, <1>3, <1>4, <1>5 DEF InvokerInv, ServicePart, ConnectionPart

\* A step that changes nothing.
LEMMA StutterKeepsInvokers ==
  ASSUME InvokerInv, UNCHANGED vars
  PROVE  InvokerInv'
BY DEF InvokerInv, ServicePart, ConnectionPart, vars, kernelVars, processVars, signalVars,
       daemonLife, daemonVars, memory, ServiceInv, UnservedInv, FateInv, ToldInv, WaiterInv,
       RightOutcomeInStep, RightOutcome, ConnectionsTracked, InStep, HandOver, NoneHeldYet,
       MessagesTrue, NoAppKilledByInvoker, Live, ServerOf, StillWaiting, InMessage, Running,
       Started, Restarting, Children, Current, PidMap, FdMap

\* Every step keeps every invoker followed.
THEOREM InvokerStep ==
  QueueInv /\ QueueInv' /\ ChildInv /\ InvokerInv /\ [Next]_vars => InvokerInv'
<1> SUFFICES ASSUME QueueInv, QueueInv', ChildInv, InvokerInv, [Next]_vars
             PROVE  InvokerInv'
  OBVIOUS
<1>1. CASE Next
  <2>1. ServicePart
    BY DEF InvokerInv
  <2>2. ServicePart'
    BY <1>1, <2>1, ServiceSteps, ServiceKept, AcceptKeepsService
  <2>3. ConnectionPart'
    BY <1>1, ConnectionSteps
  <2> QED
    BY <2>2, <2>3 DEF InvokerInv
<1>2. CASE UNCHANGED vars
  BY <1>2, StutterKeepsInvokers
<1> QED
  BY <1>1, <1>2

\* In every behaviour, whatever fails and however often the daemon replaces
\* itself, the three layers hold together.
THEOREM InvokerInvariant == Spec => [](QueueInv /\ ChildInv /\ InvokerInv)
<1>1. Init => QueueInv /\ ChildInv /\ InvokerInv
  BY InitQueue, InitChildren, InitInvoker
<1>2. QueueInv /\ ChildInv /\ InvokerInv /\ [Next]_vars
        => (QueueInv /\ ChildInv /\ InvokerInv)'
  BY QueueStep, ChildStep, InvokerStep
<1> QED
  BY <1>1, <1>2, PTL DEF Spec

\* Every connection that the daemon holds is in its map under the one child it
\* is to report on, across readFromBoosterSocket(), reapZombies(), saveState()
\* and restoreState(), so that it will be closed and reported on once.
THEOREM ConnectionsAlwaysTracked == Spec => []ConnectionsTracked
<1>1. InvokerInv => ConnectionsTracked
  BY DEF InvokerInv, ConnectionPart
<1> QED
  BY <1>1, InvokerInvariant, PTL

\* Whatever dies, is restarted or fails, no invoker waits at an open connection
\* for a report that nobody will give.
THEOREM NoWaiterEverForgotten == Spec => []NoWaiterForgotten
<1>1. QueueInv /\ ChildInv /\ InvokerInv => NoWaiterForgotten
  <2> SUFFICES ASSUME QueueInv, ChildInv, InvokerInv, Running, ~misread,
                      NEW i \in StillWaiting, ConnectionHeld(i)
               PROVE  \E p \in Pids :
                        /\ state[p] # "free" /\ serves[p] = i
                        /\ \/ state[p] \in {"serving", "sent"}
                           \/ FdMap[p] = i
                           \/ \E k \in DOMAIN launcherSocket :
                                launcherSocket[k].from = p /\ launcherSocket[k].invoker = i
    BY DEF NoWaiterForgotten
  <2>1. i \in Invokers
    BY DEF StillWaiting
  <2>2. i # NoInvoker
    BY <2>1, InvokerAssumption
  <2>3. CASE \E p \in Pids : serves[p] = i /\ state[p] \in {"serving", "sent"}
    BY <2>3
  <2>4. CASE i \in openFds
    <3>1. PICK p \in Pids : FdMap[p] = i /\ p \in Children \ {Current}
      BY <2>2, <2>4 DEF InvokerInv, ConnectionPart, ConnectionsTracked
    <3>2. serves[p] = i
      BY <2>2, <3>1 DEF InvokerInv, ConnectionPart, InStep
    <3>3. state[p] # "free"
      BY <3>1 DEF ChildInv, ChildrenTracked
    <3> QED
      BY <3>1, <3>2, <3>3
  <2>5. CASE \E k \in DOMAIN launcherSocket : launcherSocket[k].invoker = i
    <3>1. PICK k \in DOMAIN launcherSocket : launcherSocket[k].invoker = i
      BY <2>5
    <3>2. PICK p : p = launcherSocket[k].from
      OBVIOUS
    <3>3. p \in Pids
      <4>1. launcherSocket \in Seq(Message)
        BY DEF QueueInv, TypeOK, KernelTypeOK
      <4>2. launcherSocket[k] \in Message
        BY <3>1, <4>1
      <4> QED
        BY <3>2, <4>2 DEF Message
    <3>4. serves[p] = i /\ state[p] \in {"sent", "app", "zombie"}
      BY <2>2, <3>1, <3>2 DEF InvokerInv, ConnectionPart, MessagesTrue
    <3> QED
      BY <3>1, <3>2, <3>3, <3>4
  <2> QED
    BY <2>3, <2>4, <2>5 DEF ConnectionHeld
<1> QED
  BY <1>1, InvokerInvariant, PTL

\* Until reapZombies() waits for a booster whose message it has not read, every
\* message is attributed to its sender and every child to its invoker.
THEOREM AlwaysInStep == Spec => []InStep
<1>1. InvokerInv => InStep
  BY DEF InvokerInv, ConnectionPart
<1> QED
  BY <1>1, InvokerInvariant, PTL

\* Until then what an invoker is told, by an exit value or by a signal, is how
\* the process that served it has ended.
THEOREM OutcomeRightInStep == Spec => []RightOutcomeInStep
<1>1. InvokerInv => RightOutcomeInStep
  BY DEF InvokerInv, ServicePart
<1> QED
  BY <1>1, InvokerInvariant, PTL

\* As long as the daemon runs no invoker meets an end of file while its
\* application runs, and kills it, unless its own booster's sendmsg() failed:
\* the crash of any process, and a sendmsg() that failed for another, included.
THEOREM NoAppEverKilledByInvoker == Spec => []NoAppKilledByInvoker
<1>1. InvokerInv => NoAppKilledByInvoker
  BY DEF InvokerInv, ConnectionPart
<1> QED
  BY <1>1, InvokerInvariant, PTL

-----------------------------------------------------------------------------
(* The refinement.                                                         *)

\* Nothing has been asked for, served or told.
LEMMA InitLaunches == Init => L!Init
BY DEF Init, KernelInit, DaemonInit, InvokerInit, L!Init

\* Until a message is misattributed a step of the launcher is one that
\* Launches allows, or changes nothing that it speaks of.
LEMMA StepLaunches ==
  ASSUME QueueInv, QueueInv', ChildInv, InvokerInv, [Next]_vars
  PROVE  [L!Next \/ misread']_(L!vars)
<1>1. CASE Next
  <2>1. ServicePart
    BY DEF InvokerInv
  <2>2. ~misread' => [L!Next]_(L!vars)
    BY <1>1, <2>1, ServiceSteps, ServiceStepLaunches, AcceptKeepsService
  <2> QED
    BY <2>2
<1>2. CASE UNCHANGED vars
  <2>1. UNCHANGED <<inv, fate, told>>
    BY <1>2 DEF vars, kernelVars, processVars, daemonVars
  <2>2. UNCHANGED L!vars
    BY <2>1 DEF L!vars
  <2> QED
    BY <2>2
<1> QED
  BY <1>1, <1>2

\* The launcher implements Launches until a message is misattributed: no
\* request is served twice, no end is told before it has come or told wrong,
\* and who loses its connection has no application left.
THEOREM LauncherRefinesLaunches == Spec => LaunchesInStep
<1>1. Init => L!Init
  BY InitLaunches
<1>2. QueueInv /\ ChildInv /\ InvokerInv /\ (QueueInv /\ ChildInv /\ InvokerInv)' /\ [Next]_vars
        => [L!Next \/ misread']_(L!vars)
  BY StepLaunches
<1> QED
  BY <1>1, <1>2, InvokerInvariant, PTL DEF Spec, LaunchesInStep

=============================================================================
