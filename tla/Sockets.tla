------------------------------- MODULE Sockets ------------------------------
(***************************************************************************)
(* The socket on which boosters of one type wait for invokers              *)
(* (socketmanager.cpp), over the lives of several launcher daemons that    *)
(* follow or overlap each other: who makes the file, who holds the         *)
(* descriptor, where a connect() of an invoker leads (invoker_init() in    *)
(* invoker.c) and what becomes of those who wait when its holders die.     *)
(*                                                                         *)
(* Every daemon makes a socket of its own at the same path.  It and its    *)
(* boosters hold the descriptor; the file is only a name for it and        *)
(* outlives them all.  What a booster does with its invoker is the matter  *)
(* of Launcher and Protocol.                                               *)
(***************************************************************************)
EXTENDS Naturals, Sequences, FiniteSets, SequencesExt

CONSTANTS
  Daemons,       \* the launchers of one type a user starts, one life each
  Boosters,      \* the pids their boosters can have
  Invokers,
  None,          \* no file, no booster
  Backlog,       \* listen(): how many may wait to be accepted
  MaxUpsets      \* bound on deaths of daemons and boosters, and on re-execs

ASSUME SocketsAssumption ==
  /\ None \notin Daemons \cup Boosters
  /\ Backlog \in Nat \ {0} /\ MaxUpsets \in Nat

VARIABLES
  daemon,        \* where each daemon is; "up" from the first fork on
  saw,           \* its verdict on the file it has found
  file,          \* whose socket the file at the path names
  listening,     \* the sockets that take connections
  m_socketHash,  \* the daemons that know the descriptor of their socket
  current,       \* the booster each daemon expects requests to go to
  booster,       \* where each booster is
  of,            \* the daemon that forked it
  holding,       \* the boosters that have the socket of their daemon open
  queue,         \* the invokers to be accepted on each socket
  inv,           \* where each invoker is
  upsets,
  last,          \* ghost: the last daemon to bind its socket
  gap,           \* ghost: a daemon died between its unlink() and its bind()
  alone          \* ghost: the daemons that met no other while they started

daemonVars == <<daemon, saw, current, m_socketHash>>
boosterVars == <<booster, of, holding>>
ghosts == <<last, gap, alone>>
vars == <<daemonVars, file, listening, boosterVars, queue, inv, upsets, ghosts>>

Starting == {"created", "checked", "unlinked", "bound"}
Alive(d) == daemon[d] \in Starting \cup {"up"}

-----------------------------------------------------------------------------
\* The processes after a step are given by dm, bo and ho: the kernel closes the
\* sockets nobody holds any more and resets who waits there.
HeldBy(d, dm, bo, ho) ==
  dm[d] \in Starting \cup {"up"} \/ \E b \in ho : bo[b] # "free" /\ of[b] = d

CloseUnheld(dm, bo, ho) ==
  LET unheld == {d \in Daemons : ~HeldBy(d, dm, bo, ho)}
  IN  /\ daemon' = dm /\ booster' = bo
      /\ holding' = {b \in ho : bo[b] # "free"}
      /\ of' = [b \in Boosters |-> IF bo[b] = "free" THEN None ELSE of[b]]
      /\ listening' = listening \ unheld
      /\ queue' = [d \in Daemons |-> IF d \in unheld THEN <<>> ELSE queue[d]]
      /\ inv' = [i \in Invokers |->
                   IF \E d \in unheld : Contains(queue[d], i) THEN "reset" ELSE inv[i]]

Upset == upsets < MaxUpsets /\ upsets' = upsets + 1

-----------------------------------------------------------------------------
(* SocketManager::initSocket(), one system call at a time.                 *)

\* A daemon is started, and makes a socket.
Start(d) ==
  LET others == {e \in Daemons : daemon[e] \in Starting}
  IN  /\ daemon[d] = "off"
      /\ daemon' = [daemon EXCEPT ![d] = "created"]
      /\ alone' = IF others = {} THEN alone \cup {d} ELSE alone \ others
      /\ UNCHANGED <<saw, current, m_socketHash, file, listening, boosterVars, queue, inv, upsets,
                     last, gap>>

\* A slip: the file is taken for a socket when it is not one, and conversely.
StatInverted(d) ==
  /\ daemon[d] = "created"
  /\ daemon' = [daemon EXCEPT ![d] = "checked"]
  /\ saw' = [saw EXCEPT ![d] = file = None]
  /\ UNCHANGED <<current, m_socketHash, file, listening, boosterVars, queue, inv, upsets, ghosts>>

\* stat(), whose failure is not looked at: what is then in the buffer decides.
Stat(d) ==
  /\ daemon[d] = "created"
  /\ daemon' = [daemon EXCEPT ![d] = "checked"]
  /\ \E isSock \in BOOLEAN :
       /\ file # None => isSock
       /\ saw' = [saw EXCEPT ![d] = isSock]
  /\ UNCHANGED <<current, m_socketHash, file, listening, boosterVars, queue, inv, upsets, ghosts>>

\* unlink(), which fails and is warned of when there is no file any more.
Unlink(d) ==
  /\ daemon[d] = "checked"
  /\ daemon' = [daemon EXCEPT ![d] = "unlinked"]
  /\ file' = IF saw[d] THEN None ELSE file
  /\ saw' = [saw EXCEPT ![d] = FALSE]
  /\ UNCHANGED <<current, m_socketHash, listening, boosterVars, queue, inv, upsets, ghosts>>

Bind(d) ==
  /\ daemon[d] = "unlinked" /\ file = None
  /\ daemon' = [daemon EXCEPT ![d] = "bound"]
  /\ file' = d /\ last' = d /\ gap' = FALSE
  /\ UNCHANGED <<saw, current, m_socketHash, listening, boosterVars, queue, inv, upsets, alone>>

\* bind() fails as there is a file: the exception ends the daemon.
BindFails(d) ==
  /\ daemon[d] = "unlinked" /\ file # None
  /\ CloseUnheld([daemon EXCEPT ![d] = "in_use"], booster, holding)
  /\ UNCHANGED <<saw, current, m_socketHash, file, upsets, ghosts>>

\* listen(), and the descriptor is stored.  The daemon enters its loop.
Listen(d) ==
  /\ daemon[d] = "bound"
  /\ daemon' = [daemon EXCEPT ![d] = "up"]
  /\ listening' = listening \cup {d}
  /\ m_socketHash' = m_socketHash \cup {d}
  /\ UNCHANGED <<saw, current, file, boosterVars, queue, inv, upsets, ghosts>>

-----------------------------------------------------------------------------
(* The daemon, as far as the socket goes.                                  *)

\* forkBooster(): the child inherits the descriptor.
ForkBooster(d, b) ==
  /\ daemon[d] = "up" /\ current[d] = None /\ booster[b] = "free"
  /\ current' = [current EXCEPT ![d] = b]
  /\ booster' = [booster EXCEPT ![b] = "forked"]
  /\ of' = [of EXCEPT ![b] = d]
  /\ holding' = holding \cup {b}
  /\ UNCHANGED <<daemon, saw, m_socketHash, file, listening, queue, inv, upsets, ghosts>>

\* The daemon ends: its boosters get SIGHUP, but for those that have not yet
\* asked for it and, of those about to run an application, some.
EndOf(d) ==
  \E spared \in SUBSET {b \in Boosters : booster[b] = "launching"} :
    CloseUnheld([daemon EXCEPT ![d] = "dead"],
                [b \in Boosters |->
                   IF of[b] = d /\ booster[b] \in {"idle", "serving", "launching"} /\ b \notin spared
                   THEN "free" ELSE booster[b]],
                holding)

\* A slip: the file is removed by whoever exits.
DaemonDiesUnlinking(d) ==
  /\ Alive(d) /\ Upset
  /\ EndOf(d)
  /\ file' = None
  /\ current' = [current EXCEPT ![d] = None]
  /\ gap' = (gap \/ (daemon[d] = "unlinked" /\ file = None))
  /\ UNCHANGED <<saw, m_socketHash, last, alone>>

\* It exits or is killed.  Nobody removes the file.
DaemonDies(d) ==
  /\ Alive(d) /\ Upset
  /\ EndOf(d)
  /\ current' = [current EXCEPT ![d] = None]
  /\ gap' = (gap \/ (daemon[d] = "unlinked" /\ file = None))
  /\ UNCHANGED <<saw, m_socketHash, file, last, alone>>

\* No pid is left for a booster: the exception ends the daemon.
ForkFails(d) ==
  /\ daemon[d] = "up" /\ current[d] = None /\ \A b \in Boosters : booster[b] # "free"
  /\ EndOf(d)
  /\ UNCHANGED <<saw, current, m_socketHash, file, upsets, ghosts>>

\* A slip: the "socket-hash" line is not restored.
ReExecForgetsSocket(d) ==
  /\ daemon[d] = "up" /\ Upset
  /\ current[d] # None => booster[current[d]] # "forked"
  /\ CloseUnheld(daemon,
                 [b \in Boosters |-> IF b = current[d] THEN "free" ELSE booster[b]], holding)
  /\ current' = [current EXCEPT ![d] = None]
  /\ m_socketHash' = m_socketHash \ {d}
  /\ UNCHANGED <<saw, file, ghosts>>

\* reExec(): the descriptor goes through execve() and its number through the
\* state file; the booster is killed.  One that still has the daemon's handlers
\* is not, and the daemon exits instead: that is DaemonDies.
ReExec(d) ==
  /\ daemon[d] = "up" /\ Upset
  /\ current[d] # None => booster[current[d]] # "forked"
  /\ CloseUnheld(daemon,
                 [b \in Boosters |-> IF b = current[d] THEN "free" ELSE booster[b]], holding)
  /\ current' = [current EXCEPT ![d] = None]
  /\ UNCHANGED <<saw, m_socketHash, file, ghosts>>

-----------------------------------------------------------------------------
(* A booster.                                                              *)

Becomes(b, from, to) ==
  /\ booster[b] = from
  /\ booster' = [booster EXCEPT ![b] = to]

\* The child is ready and waits in accept() on what findSocket() returns.
Prepare(b) ==
  /\ Becomes(b, "forked", "idle")
  /\ UNCHANGED <<daemonVars, file, listening, of, holding, queue, inv, upsets, ghosts>>

Accept(b) ==
  LET d == of[b] IN
  /\ Becomes(b, "idle", "serving")
  /\ queue[d] # <<>> /\ d \in m_socketHash
  /\ inv' = [inv EXCEPT ![Head(queue[d])] = "served"]
  /\ queue' = [queue EXCEPT ![d] = Tail(@)]
  /\ UNCHANGED <<daemonVars, file, listening, of, holding, upsets, ghosts>>

\* The application runs already: the booster waits for another request.
AcceptAgain(b) ==
  /\ Becomes(b, "serving", "idle")
  /\ UNCHANGED <<daemonVars, file, listening, of, holding, queue, inv, upsets, ghosts>>

\* sendDataToParent(): the daemon, if it lives, will fork another booster.
HandOver(b) ==
  /\ Becomes(b, "serving", "launching")
  /\ current' = [d \in Daemons |-> IF current[d] = b THEN None ELSE current[d]]
  /\ UNCHANGED <<daemon, saw, m_socketHash, file, listening, of, holding, queue, inv, upsets,
                 ghosts>>

\* A slip: run() does not close the sockets.
LaunchKeepsSockets(b) ==
  /\ Becomes(b, "launching", "app")
  /\ UNCHANGED <<daemonVars, file, listening, of, holding, queue, inv, upsets, ghosts>>

\* run(): closeAllSockets(), then the application.
Launch(b) ==
  /\ booster[b] = "launching"
  /\ CloseUnheld(daemon, [booster EXCEPT ![b] = "app"], holding \ {b})
  /\ UNCHANGED <<saw, current, m_socketHash, file, upsets, ghosts>>

Leave(b) ==
  /\ CloseUnheld(daemon, [booster EXCEPT ![b] = "free"], holding \ {b})
  /\ current' = [d \in Daemons |-> IF current[d] = b THEN None ELSE current[d]]
  /\ UNCHANGED <<saw, m_socketHash, file, ghosts>>

\* A crash, a request that cannot be read, a mode switch.
BoosterDies(b) == booster[b] \notin {"free", "app"} /\ Upset /\ Leave(b)

ApplicationEnds(b) == booster[b] = "app" /\ Leave(b) /\ UNCHANGED upsets

-----------------------------------------------------------------------------
(* An invoker: invoker_init() and invoke_fallback().                       *)

\* connect() blocks while the backlog is full.
Connect(i) ==
  /\ inv[i] = "off" /\ file \in listening
  /\ Len(queue[file]) < Backlog
  /\ queue' = [queue EXCEPT ![file] = Append(@, i)]
  /\ inv' = [inv EXCEPT ![i] = "queued"]
  /\ UNCHANGED <<daemonVars, file, listening, boosterVars, upsets, ghosts>>

\* No file, or nobody behind it: the invoker runs the application itself, or
\* fails to fork or to execute it.
FallBack(i) ==
  /\ inv[i] = "off" /\ file \notin listening
  /\ \E how \in {"self", "failed"} : inv' = [inv EXCEPT ![i] = how]
  /\ UNCHANGED <<daemonVars, file, listening, boosterVars, queue, upsets, ghosts>>

-----------------------------------------------------------------------------
Init ==
  /\ daemon = [d \in Daemons |-> "off"] /\ saw = [d \in Daemons |-> FALSE]
  /\ current = [d \in Daemons |-> None] /\ m_socketHash = {}
  /\ file = None /\ listening = {}
  /\ booster = [b \in Boosters |-> "free"] /\ of = [b \in Boosters |-> None]
  /\ holding = {}
  /\ queue = [d \in Daemons |-> <<>>] /\ inv = [i \in Invokers |-> "off"]
  /\ upsets = 0 /\ last = None /\ gap = FALSE /\ alone = {}

InitSocket(d) == Stat(d) \/ Unlink(d) \/ Bind(d) \/ BindFails(d) \/ Listen(d)
DaemonRuns(d) == InitSocket(d) \/ ForkFails(d) \/ \E b \in Boosters : ForkBooster(d, b)
BoosterRuns(b) == Prepare(b) \/ Accept(b) \/ AcceptAgain(b) \/ HandOver(b) \/ Launch(b)

Next ==
  \/ \E d \in Daemons : Start(d) \/ DaemonRuns(d) \/ DaemonDies(d) \/ ReExec(d)
  \/ \E b \in Boosters : BoosterRuns(b) \/ BoosterDies(b) \/ ApplicationEnds(b)
  \/ \E i \in Invokers : Connect(i) \/ FallBack(i)

Spec == Init /\ [][Next]_vars

\* Daemons and boosters run when they can.
FairSpec ==
  /\ Spec
  /\ \A d \in Daemons : WF_vars(DaemonRuns(d))
  /\ \A b \in Boosters : WF_vars(BoosterRuns(b))

-----------------------------------------------------------------------------
\* The shape of the state.  A daemon past initSocket() has the descriptor of a
\* socket that listens, in each of its images.
TypeOK ==
  /\ daemon \in [Daemons -> Starting \cup {"off", "up", "in_use", "dead"}]
  /\ saw \in [Daemons -> BOOLEAN]
  /\ current \in [Daemons -> Boosters \cup {None}]
  /\ m_socketHash \subseteq Daemons
  /\ file \in Daemons \cup {None} /\ listening \subseteq Daemons
  /\ booster \in [Boosters -> {"free", "forked", "idle", "serving", "launching", "app"}]
  /\ of \in [Boosters -> Daemons \cup {None}] /\ holding \subseteq Boosters
  /\ queue \in [Daemons -> Seq(Invokers)]
  /\ inv \in [Invokers -> {"off", "queued", "served", "reset", "self", "failed"}]
  /\ upsets \in 0 .. MaxUpsets
  /\ last \in Daemons \cup {None} /\ gap \in BOOLEAN /\ alone \subseteq Daemons
  /\ \A d \in Daemons : daemon[d] = "up" => d \in m_socketHash \cap listening

\* While the last daemon to bind its socket is up, a connect() leads to it,
\* whatever became of those it has overtaken and however their starts overlap:
\* initSocket() of nobody removes a file and leaves without one.
Reachable ==
  \A d \in Daemons :
    /\ d = last /\ daemon[d] = "up"
    /\ ~gap /\ \A e \in Daemons : daemon[e] # "unlinked"
    => file = d /\ d \in listening

\* A file left behind by a daemon that has died does not keep the next one
\* from starting: bind() fails only if two start at the same time.
StaleFileReplaced == \A d \in Daemons : daemon[d] = "in_use" => d \notin alone

\* Why: the file is the last one bound or none, and none only while one is about
\* to be bound or would have been; a daemon that starts alone finds the file as it
\* has left it.
SocketInv ==
  /\ file \in {None, last}
  /\ file = None => last = None \/ gap \/ \E e \in Daemons : daemon[e] = "unlinked"
  /\ \A d \in alone :
       /\ daemon[d] # "off"
       /\ daemon[d] \in Starting => \A e \in Daemons \ {d} : daemon[e] \notin Starting
       /\ daemon[d] = "checked" => saw[d] \/ file = None
       /\ daemon[d] = "unlinked" => file = None
  /\ StaleFileReplaced

\* Nobody waits on a socket that only applications have kept, or that outlives
\* everybody: who is in a queue is in that of a daemon that lives, or of a booster
\* that it has forked and that has not closed its sockets.
NobodyWaitsInVain ==
  \A i \in Invokers :
    inv[i] = "queued" =>
      \E d \in listening :
        /\ Contains(queue[d], i)
        /\ Alive(d) \/ \E b \in holding : of[b] = d /\ booster[b] \notin {"free", "app"}

\* Who has connected is accepted or sees the connection closed: after every
\* death and re-exec somebody accepts on the socket, or nobody holds it, no
\* application in particular.
NobodyStranded == \A i \in Invokers : inv[i] = "queued" ~> inv[i] # "queued"
=============================================================================
