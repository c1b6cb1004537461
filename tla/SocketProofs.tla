---------------------------- MODULE SocketProofs ----------------------------
(***************************************************************************)
(* Theorems about Sockets, for any number of daemons, boosters, invokers,  *)
(* deaths and re-execs.                                                    *)
(***************************************************************************)
EXTENDS Sockets, TLAPS

DaemonPlaces == Starting \cup {"off", "up", "in_use", "dead"}
BoosterPlaces == {"free", "forked", "idle", "serving", "launching", "app"}

Inv == TypeOK /\ SocketInv

LEMMA InvInit == Init => Inv
  <1> SUFFICES ASSUME Init PROVE Inv
    OBVIOUS
  <1>1. queue \in [Daemons -> Seq(Invokers)]
    BY DEF Init
  <1>2. upsets \in 0 .. MaxUpsets
    BY SocketsAssumption DEF Init
  <1>3. TypeOK
    BY <1>1, <1>2 DEF Init, TypeOK, Starting
  <1>4. SocketInv
    BY DEF Init, SocketInv, StaleFileReplaced
  <1> QED BY <1>3, <1>4 DEF Inv

-----------------------------------------------------------------------------
(* Types, and the descriptors of the daemons that are up.                  *)

\* Closing what nobody holds leaves the sockets of the living alone.
LEMMA CloseKeeps ==
  ASSUME TypeOK, NEW dm \in [Daemons -> DaemonPlaces], NEW bo \in [Boosters -> BoosterPlaces],
         NEW ho \in SUBSET Boosters, CloseUnheld(dm, bo, ho)
  PROVE  /\ daemon' = dm
         /\ booster' \in [Boosters -> BoosterPlaces] /\ holding' \subseteq Boosters
         /\ of' \in [Boosters -> Daemons \cup {None}]
         /\ listening' \subseteq Daemons
         /\ queue' \in [Daemons -> Seq(Invokers)]
         /\ inv' \in [Invokers -> {"off", "queued", "served", "reset", "self", "failed"}]
         /\ \A d \in Daemons : dm[d] = "up" /\ d \in listening => d \in listening'
  <1> DEFINE unheld == {d \in Daemons : ~HeldBy(d, dm, bo, ho)}
  <1>1. daemon' = dm /\ booster' = bo /\ holding' \subseteq ho /\ listening' = listening \ unheld
    BY DEF CloseUnheld
  <1>2. of' \in [Boosters -> Daemons \cup {None}]
    BY DEF CloseUnheld, TypeOK
  <1>3. queue' = [d \in Daemons |-> IF d \in unheld THEN <<>> ELSE queue[d]]
    BY DEF CloseUnheld
  <1>4. queue' \in [Daemons -> Seq(Invokers)]
    <2>1. <<>> \in Seq(Invokers)
      OBVIOUS
    <2>2. \A d \in Daemons : queue[d] \in Seq(Invokers)
      BY DEF TypeOK
    <2> QED BY <1>3, <2>1, <2>2, Zenon
  <1>5. inv' \in [Invokers -> {"off", "queued", "served", "reset", "self", "failed"}]
    BY DEF CloseUnheld, TypeOK
  <1>6. \A d \in Daemons : dm[d] = "up" => d \notin unheld
    BY DEF HeldBy
  <1> QED BY <1>1, <1>2, <1>4, <1>5, <1>6 DEF TypeOK

\* What closing leaves of the types is all when the rest keeps its own and no
\* daemon comes up.
LEMMA CloseThen ==
  ASSUME TypeOK, NEW dm \in [Daemons -> DaemonPlaces], NEW bo \in [Boosters -> BoosterPlaces],
         NEW ho \in SUBSET Boosters, CloseUnheld(dm, bo, ho),
         \A e \in Daemons : dm[e] = "up" => daemon[e] = "up",
         UNCHANGED <<saw, m_socketHash>>, file' \in Daemons \cup {None},
         current' \in [Daemons -> Boosters \cup {None}], upsets' \in 0 .. MaxUpsets,
         last' \in Daemons \cup {None}, gap' \in BOOLEAN, alone' \subseteq Daemons
  PROVE  TypeOK' /\ daemon' = dm
  <1>1. /\ daemon' = dm
        /\ booster' \in [Boosters -> BoosterPlaces] /\ holding' \subseteq Boosters
        /\ of' \in [Boosters -> Daemons \cup {None}]
        /\ listening' \subseteq Daemons
        /\ queue' \in [Daemons -> Seq(Invokers)]
        /\ inv' \in [Invokers -> {"off", "queued", "served", "reset", "self", "failed"}]
        /\ \A d \in Daemons : dm[d] = "up" /\ d \in listening => d \in listening'
    BY CloseKeeps
  <1>2. \A d \in Daemons : daemon'[d] = "up" => d \in m_socketHash' \cap listening'
    BY <1>1 DEF TypeOK
  <1> QED BY <1>1, <1>2 DEF TypeOK, DaemonPlaces, BoosterPlaces

\* The end of a daemon.
LEMMA EndOfTypes ==
  ASSUME TypeOK, NEW d \in Daemons, EndOf(d),
         UNCHANGED <<saw, m_socketHash>>, file' \in Daemons \cup {None},
         current' \in [Daemons -> Boosters \cup {None}], upsets' \in 0 .. MaxUpsets,
         last' \in Daemons \cup {None}, gap' \in BOOLEAN, alone' \subseteq Daemons
  PROVE  TypeOK' /\ daemon' = [daemon EXCEPT ![d] = "dead"]
  <1>1. PICK dm \in [Daemons -> DaemonPlaces], bo \in [Boosters -> BoosterPlaces] :
          dm = [daemon EXCEPT ![d] = "dead"] /\ CloseUnheld(dm, bo, holding)
    <2>1. [daemon EXCEPT ![d] = "dead"] \in [Daemons -> DaemonPlaces]
      BY DEF TypeOK, DaemonPlaces
    <2>2. \A spared : [b \in Boosters |->
             IF of[b] = d /\ booster[b] \in {"idle", "serving", "launching"} /\ b \notin spared
             THEN "free" ELSE booster[b]] \in [Boosters -> BoosterPlaces]
      BY DEF TypeOK, BoosterPlaces
    <2> QED BY <2>1, <2>2 DEF EndOf
  <1> QED BY <1>1, CloseThen DEF TypeOK

LEMMA UpsetType == TypeOK /\ (Upset \/ UNCHANGED upsets) => upsets' \in 0 .. MaxUpsets
  BY SocketsAssumption DEF TypeOK, Upset

\* initSocket() but for a bind() that fails.
LEMMA InitSocketTypes ==
  ASSUME TypeOK, NEW d \in Daemons, Start(d) \/ Stat(d) \/ Unlink(d) \/ Bind(d) \/ Listen(d)
  PROVE  TypeOK'
  BY DEF TypeOK, Starting, Start, Stat, Unlink, Bind, Listen, boosterVars, ghosts

LEMMA BindFailsTypes ==
  ASSUME TypeOK, NEW d \in Daemons, BindFails(d)
  PROVE  TypeOK' /\ daemon' = [daemon EXCEPT ![d] = "in_use"]
  <1>1. PICK dm \in [Daemons -> DaemonPlaces] :
          dm = [daemon EXCEPT ![d] = "in_use"] /\ CloseUnheld(dm, booster, holding)
    BY DEF TypeOK, DaemonPlaces, BindFails
  <1>2. booster \in [Boosters -> BoosterPlaces] /\ holding \in SUBSET Boosters
    BY DEF TypeOK, BoosterPlaces
  <1>3. UNCHANGED <<saw, current, m_socketHash, file, upsets, ghosts>>
    BY DEF BindFails
  <1> QED BY <1>1, <1>2, <1>3, CloseThen DEF TypeOK, ghosts

LEMMA DaemonTypes ==
  ASSUME TypeOK, NEW d \in Daemons, DaemonDies(d) \/ ForkFails(d)
  PROVE  TypeOK' /\ daemon' = [daemon EXCEPT ![d] = "dead"]
  <1>1. upsets' \in 0 .. MaxUpsets
    BY UpsetType DEF DaemonDies, ForkFails
  <1>2. EndOf(d) /\ UNCHANGED <<saw, m_socketHash>>
    BY DEF DaemonDies, ForkFails
  <1>3. /\ file' \in Daemons \cup {None} /\ current' \in [Daemons -> Boosters \cup {None}]
        /\ last' \in Daemons \cup {None} /\ alone' \subseteq Daemons
    BY DEF TypeOK, DaemonDies, ForkFails, ghosts
  <1>4. gap' \in BOOLEAN
    BY DEF TypeOK, DaemonDies, ForkFails, ghosts
  <1> QED BY <1>1, <1>2, <1>3, <1>4, EndOfTypes

LEMMA ForkTypes ==
  ASSUME TypeOK, NEW d \in Daemons, NEW b \in Boosters, ForkBooster(d, b)
  PROVE  TypeOK'
  BY DEF TypeOK, ForkBooster, ghosts

LEMMA ReExecTypes ==
  ASSUME TypeOK, NEW d \in Daemons, ReExec(d)
  PROVE  TypeOK' /\ UNCHANGED daemon
  <1> DEFINE bo == [b \in Boosters |-> IF b = current[d] THEN "free" ELSE booster[b]]
  <1>1. bo \in [Boosters -> BoosterPlaces] /\ holding \in SUBSET Boosters
        /\ daemon \in [Daemons -> DaemonPlaces]
    BY DEF TypeOK, BoosterPlaces, DaemonPlaces
  <1>2. upsets' \in 0 .. MaxUpsets
    BY UpsetType DEF ReExec
  <1>3. CloseUnheld(daemon, bo, holding) /\ current' = [current EXCEPT ![d] = None]
        /\ UNCHANGED <<saw, m_socketHash, file, ghosts>>
    BY DEF ReExec
  <1> QED BY <1>1, <1>2, <1>3, CloseThen DEF TypeOK, ghosts

\* A booster that closes its socket, or ends.
LEMMA LeaveTypes ==
  ASSUME TypeOK, NEW b \in Boosters, Launch(b) \/ BoosterDies(b) \/ ApplicationEnds(b)
  PROVE  TypeOK' /\ UNCHANGED daemon
  <1>1. PICK to \in {"app", "free"} : CloseUnheld(daemon, [booster EXCEPT ![b] = to], holding \ {b})
    BY DEF Launch, BoosterDies, ApplicationEnds, Leave
  <1>2. [booster EXCEPT ![b] = to] \in [Boosters -> BoosterPlaces]
        /\ holding \ {b} \in SUBSET Boosters /\ daemon \in [Daemons -> DaemonPlaces]
    BY DEF TypeOK, BoosterPlaces, DaemonPlaces
  <1>3. upsets' \in 0 .. MaxUpsets
    BY UpsetType DEF Launch, BoosterDies, ApplicationEnds, Leave
  <1>4. current' \in [Daemons -> Boosters \cup {None}]
        /\ UNCHANGED <<saw, m_socketHash, file, ghosts>>
    BY DEF TypeOK, Launch, BoosterDies, ApplicationEnds, Leave
  <1> QED BY <1>1, <1>2, <1>3, <1>4, CloseThen DEF TypeOK, ghosts

LEMMA AcceptTypes ==
  ASSUME TypeOK, NEW b \in Boosters, Accept(b)
  PROVE  TypeOK'
  <1>1. of[b] \in Daemons /\ queue[of[b]] # <<>> /\ queue[of[b]] \in Seq(Invokers)
    BY DEF TypeOK, Accept
  <1>2. Head(queue[of[b]]) \in Invokers /\ Tail(queue[of[b]]) \in Seq(Invokers)
    BY <1>1
  <1>3. queue' \in [Daemons -> Seq(Invokers)]
    BY <1>1, <1>2 DEF TypeOK, Accept
  <1> QED BY <1>1, <1>2, <1>3 DEF TypeOK, Accept, Becomes, daemonVars, ghosts

LEMMA BoosterTypes ==
  ASSUME TypeOK, NEW b \in Boosters, Prepare(b) \/ AcceptAgain(b) \/ HandOver(b)
  PROVE  TypeOK'
  BY DEF TypeOK, Prepare, AcceptAgain, HandOver, Becomes, daemonVars, ghosts

LEMMA InvokerTypes ==
  ASSUME TypeOK, NEW i \in Invokers, Connect(i) \/ FallBack(i)
  PROVE  TypeOK'
  <1>1. CASE Connect(i)
    <2>1. file \in Daemons /\ queue[file] \in Seq(Invokers)
      BY <1>1 DEF TypeOK, Connect
    <2>2. Append(queue[file], i) \in Seq(Invokers)
      BY <2>1
    <2>3. queue' \in [Daemons -> Seq(Invokers)]
      BY <1>1, <2>1, <2>2 DEF TypeOK, Connect
    <2> QED BY <1>1, <2>3 DEF TypeOK, Connect, daemonVars, boosterVars, ghosts
  <1>2. CASE FallBack(i)
    BY <1>2 DEF TypeOK, FallBack, daemonVars, boosterVars, ghosts
  <1> QED BY <1>1, <1>2

-----------------------------------------------------------------------------
(* The file.                                                               *)

LEMMA SameSocket ==
  ASSUME Inv, UNCHANGED <<daemon, saw, file, last, gap, alone>>
  PROVE  SocketInv'
  BY DEF Inv, SocketInv, StaleFileReplaced

LEMMA InitSocketStep ==
  ASSUME Inv, NEW d \in Daemons, Stat(d) \/ Unlink(d) \/ Bind(d) \/ Listen(d)
  PROVE  SocketInv'
  <1> USE DEF Inv, TypeOK, SocketInv, StaleFileReplaced, Starting, ghosts
  <1>1. CASE Stat(d)
    BY <1>1 DEF Stat
  <1>2. CASE Unlink(d)
    BY <1>2 DEF Unlink
  <1>3. CASE Bind(d)
    BY <1>3 DEF Bind
  <1>4. CASE Listen(d)
    BY <1>4 DEF Listen
  <1> QED BY <1>1, <1>2, <1>3, <1>4

LEMMA StartStep ==
  ASSUME Inv, NEW d \in Daemons, Start(d)
  PROVE  SocketInv'
  BY DEF Inv, TypeOK, SocketInv, StaleFileReplaced, Starting, Start

\* bind() fails for want of nothing but the place: who is alone has made it.
LEMMA BindFailsStep ==
  ASSUME Inv, NEW d \in Daemons, BindFails(d), daemon' = [daemon EXCEPT ![d] = "in_use"]
  PROVE  SocketInv'
  BY DEF Inv, TypeOK, SocketInv, StaleFileReplaced, Starting, BindFails, ghosts

LEMMA DaemonStep ==
  ASSUME Inv, NEW d \in Daemons, DaemonDies(d) \/ ForkFails(d),
         daemon' = [daemon EXCEPT ![d] = "dead"]
  PROVE  SocketInv'
  <1>1. UNCHANGED <<saw, file, last, alone>>
    BY DEF DaemonDies, ForkFails, ghosts
  <1>2. gap => gap'
    BY DEF DaemonDies, ForkFails, ghosts
  <1>3. daemon[d] = "unlinked" /\ file = None => gap'
    BY DEF DaemonDies, ForkFails
  <1> QED BY <1>1, <1>2, <1>3 DEF Inv, TypeOK, SocketInv, StaleFileReplaced, Starting

LEMMA InvStep == Inv /\ [Next]_vars => Inv'
  <1> SUFFICES ASSUME Inv, [Next]_vars PROVE Inv'
    OBVIOUS
  <1>0. TypeOK
    BY DEF Inv
  <1>1. ASSUME NEW d \in Daemons, Start(d) PROVE Inv'
    BY <1>0, <1>1, InitSocketTypes, StartStep DEF Inv
  <1>2. ASSUME NEW d \in Daemons, InitSocket(d) PROVE Inv'
    <2>1. CASE BindFails(d)
      BY <1>0, <2>1, BindFailsTypes, BindFailsStep DEF Inv
    <2> QED BY <1>0, <1>2, <2>1, InitSocketTypes, InitSocketStep DEF InitSocket, Inv
  <1>3. ASSUME NEW d \in Daemons, DaemonDies(d) \/ ForkFails(d) PROVE Inv'
    BY <1>0, <1>3, DaemonTypes, DaemonStep DEF Inv
  <1>4. ASSUME NEW d \in Daemons, NEW b \in Boosters, ForkBooster(d, b) PROVE Inv'
    BY <1>0, <1>4, ForkTypes, SameSocket DEF ForkBooster, ghosts, Inv
  <1>5. ASSUME NEW d \in Daemons, ReExec(d) PROVE Inv'
    BY <1>0, <1>5, ReExecTypes, SameSocket DEF ReExec, ghosts, Inv
  <1>6. ASSUME NEW b \in Boosters, Launch(b) \/ BoosterDies(b) \/ ApplicationEnds(b) PROVE Inv'
    <2>1. UNCHANGED <<saw, file, ghosts>>
      BY <1>6 DEF Launch, BoosterDies, ApplicationEnds, Leave
    <2> QED BY <1>0, <1>6, <2>1, LeaveTypes, SameSocket DEF ghosts, Inv
  <1>7. ASSUME NEW b \in Boosters, Accept(b) PROVE Inv'
    BY <1>0, <1>7, AcceptTypes, SameSocket DEF Accept, daemonVars, ghosts, Inv
  <1>8. ASSUME NEW b \in Boosters, Prepare(b) \/ AcceptAgain(b) \/ HandOver(b) PROVE Inv'
    <2>1. UNCHANGED <<daemon, saw, file, ghosts>>
      BY <1>8 DEF Prepare, AcceptAgain, HandOver, daemonVars
    <2> QED BY <1>0, <1>8, <2>1, BoosterTypes, SameSocket DEF ghosts, Inv
  <1>9. ASSUME NEW i \in Invokers, Connect(i) \/ FallBack(i) PROVE Inv'
    <2>1. UNCHANGED <<daemon, saw, file, ghosts>>
      BY <1>9 DEF Connect, FallBack, daemonVars
    <2> QED BY <1>0, <1>9, <2>1, InvokerTypes, SameSocket DEF ghosts, Inv
  <1>10. CASE UNCHANGED vars
    <2>1. TypeOK'
      BY <1>0, <1>10 DEF vars, daemonVars, boosterVars, ghosts, TypeOK
    <2> QED BY <1>10, <2>1, SameSocket DEF vars, daemonVars, ghosts, Inv
  <1> QED
    BY <1>1, <1>2, <1>3, <1>4, <1>5, <1>6, <1>7, <1>8, <1>9, <1>10 DEF Next, DaemonRuns, BoosterRuns

-----------------------------------------------------------------------------
\* The inductive invariant of initSocket(), with the types: the file is the last
\* socket bound or missing, and who starts alone finds it as it has left it.
THEOREM SocketInvariant == Spec => [](TypeOK /\ SocketInv)
  <1>1. Spec => []Inv
    BY InvInit, InvStep, PTL DEF Spec
  <1> QED BY <1>1, PTL DEF Inv

\* A daemon that is up has the descriptor of a listening socket in its hash, the
\* one that initSocket() made or that came with the re-execution.
THEOREM SocketTypes == Spec => []TypeOK
  <1>1. TypeOK /\ SocketInv => TypeOK
    OBVIOUS
  <1> QED BY <1>1, SocketInvariant, PTL

\* Whatever daemons start, overlap, die and re-execute: the last to bind its
\* socket is reachable while it is up and no other is between its unlink() and
\* its bind() or has died there.
THEOREM AlwaysReachable == Spec => []Reachable
  <1>1. TypeOK /\ SocketInv => Reachable
    BY SocketsAssumption DEF TypeOK, SocketInv, Reachable
  <1> QED BY <1>1, SocketInvariant, PTL

\* A socket file left behind stops no daemon that starts alone.
THEOREM StaleFilesReplaced == Spec => []StaleFileReplaced
  <1>1. TypeOK /\ SocketInv => StaleFileReplaced
    BY DEF SocketInv
  <1> QED BY <1>1, SocketInvariant, PTL

-----------------------------------------------------------------------------
(* Who waits to be accepted.                                               *)

\* Every queue is that of a socket somebody holds, and applications hold none.
Held(d) == Alive(d) \/ \E b \in holding : of[b] = d /\ booster[b] \notin {"free", "app"}

WaiterInv ==
  /\ \A i \in Invokers : inv[i] = "queued" => \E d \in listening : Contains(queue[d], i)
  /\ \A d \in listening : Held(d)
  /\ \A b \in holding : booster[b] \notin {"free", "app"}

\* The kernel closes a socket exactly when nobody holds it and resets who is in
\* its queue, so whoever goes on holding one, the rest stays true.
LEMMA CloseWaiters ==
  ASSUME TypeOK, WaiterInv,
         NEW dm \in [Daemons -> DaemonPlaces], NEW bo \in [Boosters -> BoosterPlaces],
         NEW ho \in SUBSET Boosters, CloseUnheld(dm, bo, ho),
         \A b \in ho : bo[b] # "app"
  PROVE  WaiterInv'
  <1> DEFINE unheld == {d \in Daemons : ~HeldBy(d, dm, bo, ho)}
  <1>1. /\ daemon' = dm /\ booster' = bo /\ holding' = {b \in ho : bo[b] # "free"}
        /\ of' = [b \in Boosters |-> IF bo[b] = "free" THEN None ELSE of[b]]
        /\ listening' = listening \ unheld
    BY DEF CloseUnheld
  <1>2. /\ queue' = [d \in Daemons |-> IF d \in unheld THEN <<>> ELSE queue[d]]
        /\ inv' = [i \in Invokers |->
                     IF \E d \in unheld : Contains(queue[d], i) THEN "reset" ELSE inv[i]]
    BY DEF CloseUnheld
  <1>3. ASSUME NEW i \in Invokers, inv'[i] = "queued"
        PROVE  \E d \in listening' : Contains(queue'[d], i)
    <2>1. inv[i] = "queued" /\ ~ \E d \in unheld : Contains(queue[d], i)
      BY <1>2, <1>3
    <2>2. PICK d \in listening : Contains(queue[d], i)
      BY <2>1 DEF WaiterInv
    <2>3. d \in listening' /\ queue'[d] = queue[d]
      BY <1>1, <1>2, <2>1, <2>2 DEF TypeOK
    <2> QED BY <2>2, <2>3, Zenon
  <1>4. ASSUME NEW d \in listening' PROVE Held(d)'
    <2>1. d \in Daemons /\ HeldBy(d, dm, bo, ho)
      BY <1>1 DEF TypeOK
    <2>2. CASE dm[d] \in Starting \cup {"up"}
      BY <1>1, <2>2 DEF Held, Alive
    <2>3. ASSUME NEW b \in ho, bo[b] # "free", of[b] = d PROVE Held(d)'
      BY <1>1, <2>3 DEF Held
    <2> QED BY <2>1, <2>2, <2>3 DEF HeldBy
  <1>5. \A b \in holding' : booster'[b] \notin {"free", "app"}
    BY <1>1
  <1> QED BY <1>3, <1>4, <1>5 DEF WaiterInv

\* A step that keeps the queues, and everybody who holds a socket.
LEMMA SameWaiters ==
  ASSUME TypeOK, WaiterInv, UNCHANGED <<inv, queue>>, listening \subseteq listening',
         holding \subseteq holding',
         \A d \in Daemons : Alive(d) => Alive(d)',
         \A b \in holding : of'[b] = of[b],
         \A d \in listening' \ listening : Held(d)',
         \A b \in holding' : booster'[b] \notin {"free", "app"}
  PROVE  WaiterInv'
  <1>1. \A d \in listening : Held(d)'
    BY DEF Held, WaiterInv, TypeOK
  <1>2. ASSUME NEW i \in Invokers, inv'[i] = "queued"
        PROVE  \E d \in listening' : Contains(queue'[d], i)
    <2>1. PICK d \in listening : Contains(queue[d], i)
      BY <1>2 DEF WaiterInv
    <2> QED BY <2>1, Zenon
  <1> QED BY <1>1, <1>2 DEF WaiterInv

\* The head of a queue is served and the others stay in it.
LEMMA AcceptWaiters ==
  ASSUME TypeOK, WaiterInv, NEW b \in Boosters, Accept(b)
  PROVE  WaiterInv'
  <1> DEFINE d == of[b]
  <1>1. d \in Daemons /\ queue[d] \in Seq(Invokers) /\ queue[d] # <<>>
    BY DEF TypeOK, Accept
  <1>2. /\ queue' = [queue EXCEPT ![d] = Tail(@)] /\ inv' = [inv EXCEPT ![Head(queue[d])] = "served"]
        /\ booster' = [booster EXCEPT ![b] = "serving"]
        /\ UNCHANGED <<listening, daemon, of, holding>>
    BY DEF Accept, Becomes, daemonVars
  <1>3. ASSUME NEW i \in Invokers, inv'[i] = "queued"
        PROVE  \E e \in listening' : Contains(queue'[e], i)
    <2>1. inv[i] = "queued" /\ i # Head(queue[d])
      BY <1>1, <1>2, <1>3 DEF TypeOK
    <2>2. PICK e \in listening : Contains(queue[e], i)
      BY <2>1 DEF WaiterInv
    <2>3. CASE e = d
      <3>1. PICK n \in 1 .. Len(queue[d]) : queue[d][n] = i
        BY <2>2, <2>3 DEF Contains
      <3>2. n # 1
        BY <1>1, <2>1, <3>1
      <3>3. n - 1 \in 1 .. Len(Tail(queue[d])) /\ Tail(queue[d])[n - 1] = i
        BY <1>1, <3>1, <3>2
      <3>4. queue'[d] = Tail(queue[d])
        BY <1>1, <1>2 DEF TypeOK
      <3> QED BY <1>2, <2>3, <3>3, <3>4 DEF Contains
    <2>4. CASE e # d
      <3>1. queue'[e] = queue[e]
        BY <1>1, <1>2, <2>4 DEF TypeOK
      <3> QED BY <1>2, <2>2, <3>1, Zenon
    <2> QED BY <2>3, <2>4
  <1>4. \A e \in listening' : Held(e)'
    BY <1>2 DEF WaiterInv, Held, Alive, TypeOK
  <1>5. \A c \in holding' : booster'[c] \notin {"free", "app"}
    BY <1>2 DEF WaiterInv, TypeOK
  <1> QED BY <1>3, <1>4, <1>5 DEF WaiterInv

LEMMA ConnectWaiters ==
  ASSUME TypeOK, WaiterInv, NEW j \in Invokers, Connect(j)
  PROVE  WaiterInv'
  <1>1. file \in listening /\ file \in Daemons /\ queue[file] \in Seq(Invokers)
    BY DEF TypeOK, Connect
  <1>2. /\ queue' = [queue EXCEPT ![file] = Append(@, j)] /\ inv' = [inv EXCEPT ![j] = "queued"]
        /\ UNCHANGED <<listening, daemon, booster, of, holding>>
    BY DEF Connect, daemonVars, boosterVars
  <1>3. queue'[file] = Append(queue[file], j)
    BY <1>1, <1>2 DEF TypeOK
  <1>4. ASSUME NEW i \in Invokers, inv'[i] = "queued"
        PROVE  \E e \in listening' : Contains(queue'[e], i)
    <2>1. CASE i = j
      <3>1. Len(Append(queue[file], j)) \in 1 .. Len(Append(queue[file], j))
            /\ Append(queue[file], j)[Len(Append(queue[file], j))] = j
        BY <1>1
      <3>2. Contains(Append(queue[file], j), j)
        BY <3>1 DEF Contains
      <3> QED BY <1>1, <1>2, <1>3, <2>1, <3>2, Zenon
    <2>2. CASE i # j
      <3>1. inv[i] = "queued"
        BY <1>2, <1>4, <2>2 DEF TypeOK
      <3>2. PICK e \in listening : Contains(queue[e], i)
        BY <3>1 DEF WaiterInv
      <3>3. CASE e = file
        <4>1. PICK n \in 1 .. Len(queue[file]) : queue[file][n] = i
          BY <3>2, <3>3 DEF Contains
        <4>2. n \in 1 .. Len(Append(queue[file], j)) /\ Append(queue[file], j)[n] = i
          BY <1>1, <4>1
        <4>3. Contains(Append(queue[file], j), i)
          BY <4>2 DEF Contains
        <4> QED BY <1>1, <1>2, <1>3, <4>3, Zenon
      <3>4. CASE e # file
        <4>1. queue'[e] = queue[e]
          BY <1>1, <1>2, <3>4 DEF TypeOK
        <4> QED BY <1>2, <3>2, <4>1, Zenon
      <3> QED BY <3>3, <3>4
    <2> QED BY <2>1, <2>2
  <1>5. \A e \in listening' : Held(e)'
    BY <1>2 DEF WaiterInv, Held, Alive
  <1> QED BY <1>2, <1>4, <1>5 DEF WaiterInv

\* Whatever ends, closes or is killed is one case of the kernel's closing.
LEMMA EndWaiters ==
  ASSUME TypeOK, WaiterInv, NEW d \in Daemons,
         BindFails(d) \/ DaemonDies(d) \/ ForkFails(d) \/ ReExec(d)
  PROVE  WaiterInv'
  <1>0. /\ booster \in [Boosters -> BoosterPlaces] /\ daemon \in [Daemons -> DaemonPlaces]
        /\ holding \in SUBSET Boosters
    BY DEF TypeOK, BoosterPlaces, DaemonPlaces
  <1>1. CASE BindFails(d)
    <2>1. CloseUnheld([daemon EXCEPT ![d] = "in_use"], booster, holding)
      BY <1>1 DEF BindFails
    <2>2. [daemon EXCEPT ![d] = "in_use"] \in [Daemons -> DaemonPlaces]
      BY <1>0 DEF DaemonPlaces
    <2> QED BY <1>0, <2>1, <2>2, CloseWaiters DEF WaiterInv
  <1>2. CASE DaemonDies(d) \/ ForkFails(d)
    <2>1. PICK spared \in SUBSET {b \in Boosters : booster[b] = "launching"} :
            CloseUnheld([daemon EXCEPT ![d] = "dead"],
                [b \in Boosters |->
                   IF of[b] = d /\ booster[b] \in {"idle", "serving", "launching"} /\ b \notin spared
                   THEN "free" ELSE booster[b]],
                holding)
      BY <1>2 DEF DaemonDies, ForkFails, EndOf
    <2> DEFINE bo == [b \in Boosters |->
                   IF of[b] = d /\ booster[b] \in {"idle", "serving", "launching"} /\ b \notin spared
                   THEN "free" ELSE booster[b]]
    <2>2. [daemon EXCEPT ![d] = "dead"] \in [Daemons -> DaemonPlaces]
          /\ bo \in [Boosters -> BoosterPlaces] /\ \A b \in holding : bo[b] # "app"
      BY <1>0 DEF DaemonPlaces, BoosterPlaces, WaiterInv
    <2> HIDE DEF bo
    <2>3. CloseUnheld([daemon EXCEPT ![d] = "dead"], bo, holding)
      BY <2>1 DEF bo
    <2> QED BY <1>0, <2>2, <2>3, CloseWaiters
  <1>3. CASE ReExec(d)
    <2> DEFINE bo == [b \in Boosters |-> IF b = current[d] THEN "free" ELSE booster[b]]
    <2>1. CloseUnheld(daemon, bo, holding)
      BY <1>3 DEF ReExec
    <2>2. bo \in [Boosters -> BoosterPlaces] /\ \A b \in holding : bo[b] # "app"
      BY <1>0 DEF BoosterPlaces, WaiterInv
    <2> QED BY <1>0, <2>1, <2>2, CloseWaiters
  <1> QED BY <1>1, <1>2, <1>3

LEMMA LeaveWaiters ==
  ASSUME TypeOK, WaiterInv, NEW b \in Boosters, Launch(b) \/ BoosterDies(b) \/ ApplicationEnds(b)
  PROVE  WaiterInv'
  <1>1. PICK to \in {"app", "free"} : CloseUnheld(daemon, [booster EXCEPT ![b] = to], holding \ {b})
    BY DEF Launch, BoosterDies, ApplicationEnds, Leave
  <1>2. [booster EXCEPT ![b] = to] \in [Boosters -> BoosterPlaces]
        /\ holding \ {b} \in SUBSET Boosters /\ daemon \in [Daemons -> DaemonPlaces]
    BY DEF TypeOK, BoosterPlaces, DaemonPlaces
  <1>3. \A c \in holding \ {b} : [booster EXCEPT ![b] = to][c] # "app"
    BY DEF WaiterInv, TypeOK
  <1> QED BY <1>1, <1>2, <1>3, CloseWaiters

LEMMA WaiterStep == Inv /\ WaiterInv /\ [Next]_vars => WaiterInv'
  <1> SUFFICES ASSUME TypeOK, WaiterInv, [Next]_vars PROVE WaiterInv'
    BY DEF Inv
  <1>1. ASSUME NEW d \in Daemons, Start(d) \/ Stat(d) \/ Unlink(d) \/ Bind(d) \/ Listen(d)
        PROVE  WaiterInv'
    <2>1. UNCHANGED <<inv, queue, booster, of, holding>> /\ listening \subseteq listening'
      BY <1>1 DEF Start, Stat, Unlink, Bind, Listen, boosterVars
    <2>2. \A e \in Daemons : Alive(e) => Alive(e)'
      BY <1>1 DEF Start, Stat, Unlink, Bind, Listen, Alive, Starting, TypeOK
    <2>3. \A e \in listening' \ listening : Held(e)'
      BY <1>1 DEF Start, Stat, Unlink, Bind, Listen, Held, Alive, Starting, TypeOK
    <2>4. \A b \in holding' : booster'[b] \notin {"free", "app"}
      BY <2>1 DEF WaiterInv
    <2> QED BY <2>1, <2>2, <2>3, <2>4, SameWaiters
  <1>2. ASSUME NEW d \in Daemons, NEW b \in Boosters, ForkBooster(d, b) PROVE WaiterInv'
    <2>1. UNCHANGED <<inv, queue, listening, daemon>> /\ holding' = holding \cup {b}
          /\ b \notin holding
      BY <1>2 DEF ForkBooster, WaiterInv
    <2>2. \A c \in holding : of'[c] = of[c]
      BY <1>2, <2>1 DEF ForkBooster, TypeOK
    <2>3. \A c \in holding' : booster'[c] \notin {"free", "app"}
      BY <1>2, <2>1 DEF ForkBooster, WaiterInv, TypeOK
    <2> QED BY <2>1, <2>2, <2>3, SameWaiters DEF Alive
  <1>3. ASSUME NEW b \in Boosters, Prepare(b) \/ AcceptAgain(b) \/ HandOver(b) PROVE WaiterInv'
    <2>1. UNCHANGED <<inv, queue, listening, daemon, of, holding>>
      BY <1>3 DEF Prepare, AcceptAgain, HandOver, daemonVars
    <2>2. \A c \in holding' : booster'[c] \notin {"free", "app"}
      BY <1>3, <2>1 DEF Prepare, AcceptAgain, HandOver, Becomes, WaiterInv, TypeOK
    <2> QED BY <2>1, <2>2, SameWaiters DEF Alive
  <1>4. ASSUME NEW i \in Invokers, FallBack(i) PROVE WaiterInv'
    <2>1. UNCHANGED <<queue, listening, daemon, booster, of, holding>>
      BY <1>4 DEF FallBack, daemonVars, boosterVars
    <2>2. \A j \in Invokers : inv'[j] = "queued" => inv[j] = "queued"
      BY <1>4 DEF FallBack, TypeOK
    <2> QED BY <2>1, <2>2 DEF WaiterInv, Held, Alive
  <1>5. CASE UNCHANGED vars
    BY <1>5 DEF vars, daemonVars, boosterVars, WaiterInv, Held, Alive
  <1> QED
    BY <1>1, <1>2, <1>3, <1>4, <1>5, EndWaiters, LeaveWaiters, AcceptWaiters, ConnectWaiters
       DEF Next, InitSocket, DaemonRuns, BoosterRuns

\* Whoever waits in the backlog of a socket waits for somebody: the daemon lives, or
\* a booster that has the socket open and is no application; and when the last of
\* these goes everybody in the queue is reset.
THEOREM NobodyEverWaitsInVain == Spec => []NobodyWaitsInVain
  <1>1. Init => WaiterInv
    BY DEF Init, WaiterInv
  <1>2. WaiterInv => NobodyWaitsInVain
    BY DEF WaiterInv, Held, NobodyWaitsInVain
  <1>3. Spec => []Inv
    BY InvInit, InvStep, PTL DEF Spec
  <1> QED BY <1>1, <1>2, <1>3, WaiterStep, PTL DEF Spec
=============================================================================
