------------------------------ MODULE Protocol ------------------------------
(***************************************************************************)
(* One conversation between an invoker (invoker.c, invokelib.c) and the    *)
(* booster that has accepted its connection (connection.cpp): the request  *)
(* goes one way item by item, then the acknowledgement, the pid and, if    *)
(* the booster sends the request away, an exit value come back.            *)
(*                                                                         *)
(* An item is what one write() puts into the stream: a 32-bit word (a tag  *)
(* or a number), the text of a string, or the byte that carries the        *)
(* descriptors.  A text is its size, terminator included, and whether it   *)
(* has the form NAME=VALUE.  What a word read from the middle of something *)
(* else would be is Junk: the first bytes of a text that was refused for   *)
(* its length, or the tag ENV with its first byte gone and another one      *)
(* behind it, equals no tag: those all have a byte that is 0 in a place    *)
(* where these have none.                                                  *)
(***************************************************************************)
EXTENDS Naturals, Sequences

CONSTANTS
  StrLenMax,     \* longest string recvStr() takes
  ArgMax,        \* receiveArgs() takes fewer arguments than this
  MaxVars,       \* receiveEnv() takes fewer variables than this
  Requests,      \* what the users of the invoker may ask for
  Buffer,        \* items the socket holds before a writer blocks
  MaxFaults      \* bound on crashes and failing calls

Strs == {"NAME", "EXEC", "ARGS", "ENV"}
Nums == {"PRIO", "DELAY", "IDS"}
Tags == Strs \cup Nums \cup {"IO"}
Text == [size : Nat \ {0}, assign : BOOLEAN]

\* What is asked for: under each tag what is sent with it, in order.  The name
\* is the first argument; it has been found as a file, so is not empty, and main()
\* sees to one variable at least (POSIXLY_CORRECT).
Request == [version : BOOLEAN, wait : BOOLEAN,
            NAME : Seq(Text), EXEC : Seq(Text), ARGS : Seq(Text), ENV : Seq(Text),
            PRIO : Seq(Nat), DELAY : Seq(Nat), IDS : Seq(Nat), IO : {<<"fds">>}]

ASSUME ProtocolAssumption ==
  /\ StrLenMax \in Nat /\ ArgMax \in Nat /\ MaxVars \in Nat
  /\ Buffer \in Nat \ {0} /\ MaxFaults \in Nat
  /\ \A r \in Requests :
       /\ r \in Request
       /\ r.ARGS # <<>> /\ r.NAME = <<r.ARGS[1]>> /\ r.NAME[1].size > 1
       /\ Len(r.EXEC) = 1 /\ r.EXEC[1].size > 1 /\ r.ENV # <<>>
       /\ Len(r.PRIO) = 1 /\ Len(r.DELAY) = 1 /\ Len(r.IDS) = 2

VARIABLES
  request,       \* what the invoker's user asked for
  inv,           \* where the invoker is
  sent,          \* items it has written
  status,        \* the exit status it was told
  toBooster,     \* the stream in either direction
  toInvoker,
  at,            \* where the booster is
  into,          \* tag of what it is receiving
  left,          \* strings or numbers of it still to come
  wait,          \* m_sendPid: the invoker waits
  got,           \* what it has received under each tag
  ignores,       \* who was started with SIGPIPE ignored
  faults         \* failures left

invoker == <<inv, sent, status>>
booster == <<at, into, left, wait, got>>
vars == <<request, invoker, booster, toBooster, toInvoker, ignores, faults>>

-----------------------------------------------------------------------------
(* The items.                                                              *)

Tag(t) == [kind |-> t]
Number(n) == [kind |-> "number", val |-> n]
String(t) == [kind |-> "text", text |-> t]
Descriptors == [kind |-> "fds"]
Junk == [kind |-> "junk"]
Zero == Number(0)
Magic(r) == [kind |-> "MAGIC", version |-> r.version, wait |-> r.wait]

Item == [kind : Tags \cup {"END", "ACK", "PID", "EXIT", "fds", "junk"}]
          \cup [kind : {"MAGIC"}, version : BOOLEAN, wait : BOOLEAN]
          \cup [kind : {"number"}, val : Nat] \cup [kind : {"text"}, text : Text]

\* invoke_send_str(), for each string of a sequence: its size, then its text.
Strings(ss) ==
  [i \in 1 .. 2 * Len(ss) |->
     LET s == ss[(i + 1) \div 2] IN IF i % 2 = 1 THEN Number(s.size) ELSE String(s)]
Numbers(ns) == [i \in 1 .. Len(ns) |-> Number(ns[i])]

\* invoke_remote(): the whole request in the order in which it is written.
Wire(r) ==
  <<Magic(r), Tag("NAME")>> \o Strings(r.NAME)
    \o <<Tag("EXEC")>> \o Strings(r.EXEC)
    \o <<Tag("ARGS"), Number(Len(r.ARGS))>> \o Strings(r.ARGS)
    \o <<Tag("PRIO")>> \o Numbers(r.PRIO)
    \o <<Tag("DELAY")>> \o Numbers(r.DELAY)
    \o <<Tag("IDS")>> \o Numbers(r.IDS)
    \o <<Tag("IO"), Descriptors, Tag("ENV"), Number(Len(r.ENV))>> \o Strings(r.ENV)
    \o <<Tag("END")>>

Fault == faults > 0 /\ faults' = faults - 1

InvokerOver == {"done", "told", "lost", "died", "sigpipe", "crashed"}
BoosterOver == {"refused", "rejected", "crashed", "sigpipe"}
InvokerGone == inv \in InvokerOver
\* Nobody holds the other end.  The connection of an invoker that does not wait
\* is closed with the request; after "served" the daemon holds the others.
BoosterGone == at \in BoosterOver \/ (at \in {"decide", "served"} /\ ~wait)

-----------------------------------------------------------------------------
(* The invoker.                                                            *)

\* One write() of the request.  Its result is not looked at; with nobody at
\* the other end it raises SIGPIPE.
SendItem ==
  /\ inv = "send" /\ sent < Len(Wire(request))
  /\ IF BoosterGone
       THEN /\ inv' = IF "invoker" \in ignores THEN inv ELSE "sigpipe"
            /\ toBooster' = toBooster
       ELSE /\ Len(toBooster) < Buffer
            /\ toBooster' = Append(toBooster, Wire(request)[sent + 1])
            /\ inv' = inv
  /\ sent' = sent + 1
  /\ UNCHANGED <<request, status, booster, toInvoker, ignores, faults>>

\* invoker_send_io(): sendmsg() fails, which is worth a warning; the tag has
\* gone out already.
SendIOFails ==
  /\ inv = "send" /\ sent < Len(Wire(request)) /\ Wire(request)[sent + 1] = Descriptors
  /\ Fault
  /\ sent' = sent + 1
  /\ UNCHANGED <<request, inv, status, booster, toBooster, toInvoker, ignores>>

\* invoker_send_end(): everything is written, the invoker turns to reading.
SendEnd ==
  /\ inv = "send" /\ sent = Len(Wire(request))
  /\ inv' = "ack"
  /\ UNCHANGED <<request, sent, status, booster, toBooster, toInvoker, ignores, faults>>

\* invoke_recv_msg() at a place p; an end of file or a reset reads as 0.
InvokerReads(p) == inv = p /\ (toInvoker # <<>> \/ BoosterGone)
Answer == IF toInvoker = <<>> THEN Zero ELSE Head(toInvoker)
TakeAnswer ==
  /\ toInvoker' = IF toInvoker = <<>> THEN <<>> ELSE Tail(toInvoker)
  /\ UNCHANGED <<request, sent, booster, toBooster, ignores, faults>>

\* invoke_recv_ack()
RecvAck ==
  /\ InvokerReads("ack") /\ TakeAnswer
  /\ inv' = IF Answer = Tag("ACK") THEN IF request.wait THEN "pid" ELSE "done" ELSE "died"
  /\ UNCHANGED status

\* invoker_recv_pid()
RecvPid ==
  /\ \/ /\ InvokerReads("pid")
        /\ inv' = IF Answer = Tag("PID") THEN "pid value" ELSE "died"
     \/ /\ InvokerReads("pid value")
        /\ inv' = IF Answer = Zero THEN "died" ELSE "wait"
  /\ TakeAnswer
  /\ UNCHANGED status

\* invoker_recv_exit()
RecvExit ==
  /\ \/ /\ InvokerReads("wait")
        /\ inv' = IF Answer = Tag("EXIT") THEN "exit value" ELSE "lost"
        /\ UNCHANGED status
     \/ /\ InvokerReads("exit value")
        /\ IF toInvoker = <<>> THEN inv' = "lost" /\ UNCHANGED status
                               ELSE inv' = "told" /\ status' = Answer.val
  /\ TakeAnswer

\* A signal, for one: up to sigs_init() the default ones kill it.
InvokerCrashes ==
  /\ ~InvokerGone /\ Fault
  /\ inv' = "crashed"
  /\ UNCHANGED <<request, sent, status, booster, toBooster, toInvoker, ignores>>

-----------------------------------------------------------------------------
(* The booster.                                                            *)

\* recvMsg() at a place p: the word it returns and what it leaves.  An end of
\* file is a 0 like any other and no failure.
BoosterReads(p) == at = p /\ (toBooster # <<>> \/ InvokerGone)
Received == IF toBooster = <<>> THEN Zero
            ELSE IF Head(toBooster).kind \in {"text", "fds"} THEN Junk
            ELSE Head(toBooster)
TakeItem ==
  /\ toBooster' = IF toBooster = <<>> THEN <<>> ELSE Tail(toBooster)
  /\ UNCHANGED <<request, invoker, toInvoker, ignores, faults>>

\* A count or a size: what is not a number is far beyond every limit.
InRange(w, low, high) == w.kind = "number" /\ w.val \in low .. high

\* receiveMagic(): only a wrong version is refused.
ReceiveMagic ==
  /\ BoosterReads("magic") /\ TakeItem
  /\ IF Received.kind = "MAGIC"
       THEN /\ at' = IF Received.version THEN "name" ELSE "refused"
            /\ wait' = Received.wait
       ELSE at' = "name" /\ wait' = FALSE
  /\ UNCHANGED <<into, left, got>>

\* receiveAppName(), the tag; the string follows.
ReceiveAppName ==
  /\ BoosterReads("name") /\ TakeItem
  /\ IF Received = Tag("NAME")
       THEN at' = "size" /\ into' = "NAME" /\ left' = 1
       ELSE at' = "refused" /\ UNCHANGED <<into, left>>
  /\ UNCHANGED <<wait, got>>

\* A slip: the END does not end the loop.
PlaceAfterReadsOn(tag) ==
  CASE tag = "EXEC" -> "size"
    [] tag \in {"ARGS", "ENV"} -> "count"
    [] tag \in {"PRIO", "DELAY", "IDS"} -> "number"
    [] tag = "IO" -> "fds"
    [] tag = "END" -> "action"
    [] OTHER -> "refused"

\* receiveActions(), the switch: what comes after a tag.
PlaceAfter(tag) ==
  CASE tag = "EXEC" -> "size"
    [] tag \in {"ARGS", "ENV"} -> "count"
    [] tag \in {"PRIO", "DELAY", "IDS"} -> "number"
    [] tag = "IO" -> "fds"
    [] tag = "END" -> "ack"
    [] OTHER -> "refused"

\* A slip: an unknown action is skipped.
ReceiveActionSkipsUnknown ==
  /\ BoosterReads("action") /\ TakeItem
  /\ LET tag == Received.kind
         known == tag \in (Tags \ {"NAME"}) \cup {"END"}
     IN  /\ at' = IF known THEN PlaceAfter(tag) ELSE "action"
         /\ into' = IF known /\ tag # "END" THEN tag ELSE into
         /\ left' = IF tag = "IDS" THEN 2 ELSE 1
         /\ got' = IF known /\ tag # "END" THEN [got EXCEPT ![tag] = <<>>] ELSE got
  /\ UNCHANGED wait

\* receiveActions(): the tag of the next action.
ReceiveAction ==
  /\ BoosterReads("action") /\ TakeItem
  /\ LET tag == Received.kind
     IN  /\ at' = PlaceAfter(tag)
         /\ IF tag \in Tags \ {"NAME"}
              THEN /\ into' = tag
                   /\ left' = IF tag = "IDS" THEN 2 ELSE 1
                   /\ got' = [got EXCEPT ![tag] = <<>>]
              ELSE UNCHANGED <<into, left, got>>
  /\ UNCHANGED wait

\* A slip: a count of 0 is accepted.
ReceiveCountTakesZero ==
  /\ BoosterReads("count") /\ TakeItem
  /\ IF InRange(Received, 0, (IF into = "ARGS" THEN ArgMax ELSE MaxVars) - 1)
       THEN at' = "size" /\ left' = Received.val
       ELSE at' = "action" /\ UNCHANGED left
  /\ UNCHANGED <<into, wait, got>>

\* receiveArgs() and receiveEnv(), the count.  A count out of range makes them
\* return false, which receiveActions() does not notice.
ReceiveCount ==
  /\ BoosterReads("count") /\ TakeItem
  /\ IF InRange(Received, 1, (IF into = "ARGS" THEN ArgMax ELSE MaxVars) - 1)
       THEN at' = "size" /\ left' = Received.val
       ELSE at' = "action" /\ UNCHANGED left
  /\ UNCHANGED <<into, wait, got>>

\* A string that does not come: no name is a refusal, every other result is
\* ignored by receiveActions().
StringFails == at' = IF into = "NAME" THEN "refused" ELSE "action"

\* A slip: the limit is meant without the terminator but compared with it.
ReceiveSizeOffByOne ==
  /\ BoosterReads("size") /\ TakeItem
  /\ IF InRange(Received, 1, StrLenMax - 1) THEN at' = "text" ELSE StringFails
  /\ UNCHANGED <<into, left, wait, got>>

\* recvStr(), the size.
ReceiveSize ==
  /\ BoosterReads("size") /\ TakeItem
  /\ IF InRange(Received, 1, StrLenMax) THEN at' = "text" ELSE StringFails
  /\ UNCHANGED <<into, left, wait, got>>

\* recvStr(), the text, and what its callers do with it.  A variable without
\* '=' is dropped, an empty name refused.
ReceiveText ==
  /\ BoosterReads("text") /\ TakeItem
  /\ IF toBooster = <<>> \/ (into = "NAME" /\ Head(toBooster).text.size = 1)
       THEN StringFails /\ UNCHANGED <<left, got>>
       ELSE /\ got' = IF into = "ENV" /\ ~Head(toBooster).text.assign
                        THEN got
                        ELSE [got EXCEPT ![into] = Append(@, Head(toBooster).text)]
            /\ at' = IF left > 1 THEN "size" ELSE "action"
            /\ left' = IF left > 1 THEN left - 1 ELSE left
  /\ UNCHANGED <<into, wait>>

\* receivePriority(), receiveDelay() and receiveIDs()
ReceiveNumber ==
  /\ BoosterReads("number") /\ TakeItem
  /\ got' = [got EXCEPT ![into] = Append(@, IF Received.kind = "number" THEN Received.val ELSE 0)]
  /\ at' = IF left > 1 THEN "number" ELSE "action"
  /\ left' = IF left > 1 THEN left - 1 ELSE left
  /\ UNCHANGED <<into, wait>>

\* receiveIO(): recvmsg() takes one byte, and with it the descriptors if it
\* is theirs.  Any other byte is missing from the word it belonged to.
ReceiveIO ==
  /\ BoosterReads("fds")
  /\ IF toBooster # <<>> /\ Head(toBooster) # Descriptors
       THEN toBooster' = <<Junk>> \o Tail(toBooster) /\ got' = got
       ELSE /\ toBooster' = IF toBooster = <<>> THEN <<>> ELSE Tail(toBooster)
            /\ got' = IF toBooster = <<>> THEN got ELSE [got EXCEPT ![into] = <<"fds">>]
  /\ at' = "action"
  /\ UNCHANGED <<request, invoker, into, left, wait, toInvoker, ignores, faults>>

\* receiveIO() finds no room for the descriptors (MSG_CTRUNC): the byte is
\* taken, the descriptors are lost and the result is ignored.
ReceiveIOFails ==
  /\ at = "fds" /\ toBooster # <<>> /\ Head(toBooster) = Descriptors
  /\ Fault
  /\ toBooster' = Tail(toBooster)
  /\ at' = "action"
  /\ UNCHANGED <<request, invoker, into, left, wait, got, toInvoker, ignores>>

\* sendMsg(): a failed write() is not noticed, but SIGPIPE is.
Write(item, next) ==
  /\ IF InvokerGone
       THEN /\ at' = IF "booster" \in ignores THEN next ELSE "sigpipe"
            /\ toInvoker' = toInvoker
       ELSE at' = next /\ toInvoker' = Append(toInvoker, item)
  /\ UNCHANGED <<request, invoker, into, left, wait, got, toBooster, ignores, faults>>

\* Slips: no pid follows, or only its value.
SendAckWithoutPid == at = "ack" /\ Write(Tag("ACK"), "decide")
SendAckThenValue == at = "ack" /\ Write(Tag("ACK"), IF wait THEN "pid value" ELSE "decide")

\* receiveActions(), END: acknowledge, and sendPid() if the invoker waits.
SendAck == at = "ack" /\ Write(Tag("ACK"), IF wait THEN "pid" ELSE "decide")
SendPid == \/ at = "pid" /\ Write(Tag("PID"), "pid value")
           \/ at = "pid value" /\ Write(Number(1), "decide")

\* Booster::initialize(): the application is to be launched; the daemon gets
\* the connection.
Serve ==
  /\ at = "decide"
  /\ at' = "served"
  /\ UNCHANGED <<request, invoker, into, left, wait, got, toBooster, toInvoker, ignores, faults>>

\* Booster::initialize(): the application runs already; sendExitValue() with
\* whether its window was found, then close().  To an invoker that does not
\* wait the connection is closed already and the writes fail.
SendExitValue ==
  \/ /\ at = "decide" /\ wait
     /\ Write(Tag("EXIT"), "exit value")
  \/ /\ at = "exit value"
     /\ \E v \in {0, 1} : Write(Number(v), "rejected")
  \/ /\ at = "decide" /\ ~wait
     /\ at' = "rejected"
     /\ UNCHANGED <<request, invoker, into, left, wait, got, toBooster, toInvoker, ignores, faults>>

BoosterCrashes ==
  /\ at \notin BoosterOver \cup {"served"} /\ Fault
  /\ at' = "crashed"
  /\ UNCHANGED <<request, invoker, into, left, wait, got, toBooster, toInvoker, ignores>>

-----------------------------------------------------------------------------
Init ==
  /\ request \in Requests
  /\ inv = "send" /\ sent = 0 /\ status = 0
  /\ toBooster = <<>> /\ toInvoker = <<>>
  /\ at = "magic" /\ into = "NAME" /\ left = 1 /\ wait = FALSE
  /\ got = [t \in Tags |-> <<>>]
  /\ ignores \in SUBSET {"invoker", "booster"}
  /\ faults = MaxFaults

InvokerRuns == SendItem \/ SendEnd \/ RecvAck \/ RecvPid \/ RecvExit
Receive == \/ ReceiveMagic \/ ReceiveAppName \/ ReceiveAction \/ ReceiveCount
           \/ ReceiveSize \/ ReceiveText \/ ReceiveNumber \/ ReceiveIO
Reply == SendAck \/ SendPid \/ Serve \/ SendExitValue
BoosterRuns == Receive \/ Reply

Next == \/ InvokerRuns \/ SendIOFails \/ InvokerCrashes
        \/ BoosterRuns \/ ReceiveIOFails \/ BoosterCrashes

Spec == Init /\ [][Next]_vars
\* Both processes run; nothing makes a user or a failure act.
FairSpec == Spec /\ WF_vars(InvokerRuns) /\ WF_vars(BoosterRuns)

-----------------------------------------------------------------------------
(* Properties.                                                             *)

Places == {"magic", "name", "size", "text", "action", "count", "number", "fds", "ack",
           "pid", "pid value", "decide", "exit value", "served"} \cup BoosterOver

\* Types; a loop over strings or numbers is never at its end already, and
\* numbers come under tags that have some.
TypeOK ==
  /\ request \in Requests
  /\ inv \in {"send", "ack", "pid", "pid value", "wait", "exit value"} \cup InvokerOver
  /\ sent \in 0 .. Len(Wire(request)) /\ status \in Nat
  /\ toBooster \in Seq(Item) /\ Len(toBooster) <= Buffer
  /\ toInvoker \in Seq(Item)
  /\ at \in Places /\ into \in Tags /\ left \in Nat \ {0} /\ wait \in BOOLEAN
  /\ at = "number" => into \in Nums
  /\ DOMAIN got = Tags /\ got["IO"] \in {<<>>, <<"fds">>}
  /\ \A t \in Strs : got[t] \in Seq(Text)
  /\ \A t \in Nums : got[t] \in Seq(Nat)
  /\ ignores \subseteq {"invoker", "booster"} /\ faults \in 0 .. MaxFaults

\* The limits of recvStr(), receiveArgs() and receiveEnv() as a user meets
\* them.
WithinLimits(r) ==
  /\ r.version
  /\ Len(r.ARGS) < ArgMax /\ Len(r.ENV) < MaxVars
  /\ \A t \in Strs :
       \A i \in 1 .. Len(r[t]) : r[t][i].size <= StrLenMax

\* g is what is left of the first n texts of s without those that are no
\* assignments, in their order: f tells which each of them is.
Assignments(s, n, g) ==
  \E f \in [1 .. Len(g) -> 1 .. n] :
    /\ \A j, k \in 1 .. Len(g) : j < k => f[j] < f[k]
    /\ \A k \in 1 .. Len(g) : g[k] = s[f[k]]
    /\ {f[k] : k \in 1 .. Len(g)} = {k \in 1 .. n : s[k].assign}

Accepted == at \in {"ack", "pid", "pid value", "decide", "served", "exit value", "rejected"}
Undisturbed == faults = MaxFaults

\* What the booster accepts, acknowledges and launches is what was asked for,
\* whole: though receiveActions() ignores what its receivers return, a request
\* cut short by a limit, a dead invoker or a lost byte never reaches END.  Only
\* variables without '=' are left out, and descriptors that could not be taken.
AcceptedAsSent ==
  Accepted =>
    /\ wait = request.wait
    /\ \A t \in Tags \ {"ENV", "IO"} : got[t] = request[t]
    /\ Assignments(request.ENV, Len(request.ENV), got["ENV"])
    /\ Undisturbed => got["IO"] = request.IO

\* The booster gives a request up, and ends with it (booster.cpp:109-110), only
\* if the request is beyond a limit or something failed.
RefusedForCause == at = "refused" => ~WithinLimits(request) \/ ~Undisturbed

\* Both ends take the same view: an invoker that fails, by die() or SIGPIPE,
\* leaves no application behind, one that has the ACK was not refused, one that
\* is told an exit value was sent away, one that is left without has a booster
\* that died.
Agreement ==
  /\ inv \in {"died", "sigpipe"} => at \in BoosterOver \ {"rejected"}
  /\ inv \in {"done", "pid", "pid value", "wait", "exit value", "told"} => Accepted \/ at \in {"crashed", "sigpipe"}
  /\ inv = "told" => at = "rejected"
  /\ inv = "lost" => at = "crashed"

\* Neither can go on before the other does: the invoker's write() finds no room
\* or its read() nothing, and so does the booster's read().
InvokerBlocked ==
  /\ ~BoosterGone
  /\ \/ inv = "send" /\ sent < Len(Wire(request)) /\ Len(toBooster) = Buffer
     \/ inv \in {"ack", "pid", "pid value", "wait", "exit value"} /\ toInvoker = <<>>

Receiving == at \in {"magic", "name", "size", "text", "action", "count", "number", "fds"}
BoosterBlocked == Receiving /\ toBooster = <<>> /\ ~InvokerGone

\* The two never wait for each other, though receiveActions() goes on after a
\* string or a count that it has given up, reads what was not meant for it and
\* has no time limit, and the invoker reads nothing before it has written all.
NeverBothBlocked == ~(InvokerBlocked /\ BoosterBlocked)

\* No request, refusal or death of either leaves the other in a read() or a
\* write() for ever: invoke_remote() and receiveApplicationData() come to an end.
ConversationEnds == /\ <>(InvokerGone \/ inv = "wait")
                    /\ <>(at \in BoosterOver \cup {"served"})
=============================================================================
