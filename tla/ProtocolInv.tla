----------------------------- MODULE ProtocolInv -----------------------------
(***************************************************************************)
(* The inductive invariant behind the safety properties of Protocol: where *)
(* in the request the booster is, by what it is about to receive and what  *)
(* it has got, and where in the answer the invoker is.                     *)
(***************************************************************************)
EXTENDS Protocol

\* Where each tag stands in Wire(request), and what comes first under it that
\* is not a count.
Start(t) ==
  LET a == 2 * Len(request.ARGS)
  IN  CASE t = "NAME"  -> 2
        [] t = "EXEC"  -> 5
        [] t = "ARGS"  -> 8
        [] t = "PRIO"  -> 10 + a
        [] t = "DELAY" -> 12 + a
        [] t = "IDS"   -> 14 + a
        [] t = "IO"    -> 17 + a
        [] t = "ENV"   -> 19 + a
        [] t = "END"   -> 21 + a + 2 * Len(request.ENV)

First(t) == Start(t) + (IF t \in {"ARGS", "ENV"} THEN 2 ELSE 1)

\* The place of the descriptors.
Hole == Start("IO") + 1

-----------------------------------------------------------------------------
\* What the booster is to have got under tag t when it has received everything,
Whole(t) ==
  CASE t = "ENV" -> Assignments(request.ENV, Len(request.ENV), got["ENV"])
    [] t = "IO" -> Undisturbed => got["IO"] = request.IO
    [] OTHER -> got[t] = request[t]

\* and when it comes to tag t.
Before(t) == \A u \in Tags : Start(u) < Start(t) => Whole(u)

\* How many of the things under tag t it has, if it is receiving them,
Taken(t) == Len(request[t]) - left

\* which is what it is to have got by then.
Part(t) ==
  /\ left <= Len(request[t])
  /\ IF t = "ENV" THEN Assignments(request.ENV, Taken(t), got["ENV"])
                  ELSE got[t] = SubSeq(request[t], 1, Taken(t))

\* How many items of the request have been taken from the stream, which holds
\* those up to the last one sent, with or without the descriptors.
Items(whole) == sent - Len(toBooster) - (IF whole THEN 0 ELSE 1)

Stream(whole) ==
  /\ Items(whole) \in Nat
  /\ \A k \in 1 .. Len(toBooster) :
       LET i == Items(whole) + k
       IN  toBooster[k] = Wire(request)[IF whole \/ i < Hole THEN i ELSE i + 1]
  /\ ~whole => Items(whole) < Hole /\ Hole <= sent /\ ~Undisturbed

\* The booster is where the next item belongs: at the beginning, at a tag,
AtTag(whole) ==
  \/ at = "magic" /\ Items(whole) = 0 /\ got["NAME"] = <<>>
  \/ /\ at = "name" /\ Items(whole) = 1 /\ got["NAME"] = <<>>
     /\ wait = request.wait
  \/ /\ at = "action" /\ wait = request.wait
     /\ \E t \in (Tags \ {"NAME"}) \cup {"END"} :
          Items(whole) = Start(t) - 1 /\ Before(t)

\* or at what is sent with tag t.
Under(t, whole) ==
  /\ into = t /\ wait = request.wait /\ Before(t)
  /\ \/ /\ at = "count" /\ t \in {"ARGS", "ENV"}
        /\ Items(whole) = Start(t) /\ got[t] = <<>>
     \/ /\ at = "size" /\ t \in Strs
        /\ Items(whole) = First(t) + 2 * Taken(t) - 1 /\ Part(t)
     \/ /\ at = "text" /\ t \in Strs
        /\ Items(whole) = First(t) + 2 * Taken(t) /\ Part(t)
     \/ /\ at = "number" /\ t \in Nums
        /\ Items(whole) = First(t) + Taken(t) - 1 /\ Part(t)
     \/ /\ at = "fds" /\ t = "IO"
        /\ Items(whole) = Start(t) /\ got[t] = <<>>

\* It has given a string or a count up for a limit, and waits for a tag where
\* none is.
Strayed(whole) ==
  /\ at = "action" /\ ~WithinLimits(request)
  /\ Items(whole) < Len(Wire(request))
  /\ Wire(request)[Items(whole) + 1].kind \in {"number", "text"}

\* As long as it receives, the booster is in step with the stream, or about to
\* find out that it is not, or the stream has ended.
ReceiveInv ==
  Receiving =>
    \/ \E whole \in BOOLEAN :
         /\ Stream(whole)
         /\ AtTag(whole) \/ Strayed(whole) \/ \E t \in Tags : Under(t, whole)
    \/ at = "action" /\ toBooster # <<>> /\ Head(toBooster) = Junk /\ ~Undisturbed
    \/ toBooster = <<>> /\ InvokerGone

\* What it accepts is the whole request, of which nothing is left in the stream,
\* and more than the acknowledgement goes to an invoker that waits only.
AcceptInv ==
  Accepted => /\ sent = Len(Wire(request)) /\ wait = request.wait
              /\ \A t \in Tags : Whole(t)
              /\ at \in {"pid", "pid value", "exit value"} => wait

-----------------------------------------------------------------------------
\* The answer, word by word.
Word(k) == CASE k = 1 -> {Tag("ACK")}
             [] k = 2 -> {Tag("PID")}
             [] k = 3 -> {Number(1)}
             [] k = 4 -> {Tag("EXIT")}
             [] k = 5 -> {Number(0), Number(1)}

\* How many words of it the booster has written,
Written == CASE at = "pid" -> 1
             [] at = "pid value" -> 2
             [] at \in {"decide", "served"} -> IF wait THEN 3 ELSE 1
             [] at = "exit value" -> 4
             [] at = "rejected" -> IF wait THEN 5 ELSE 1
             [] OTHER -> 0

\* and how many the invoker has read.
Read == CASE inv = "pid" -> 1
          [] inv = "pid value" -> 2
          [] inv = "wait" -> 3
          [] inv = "exit value" -> 4
          [] OTHER -> 0

\* Until the invoker ends, what is written and not read is in the stream, and a
\* booster that crashes has not written the last word.
AnswerInv ==
  ~InvokerGone =>
    /\ at # "sigpipe"
    /\ Read > 0 => request.wait
    /\ \E w \in 0 .. 5 :
         /\ IF at = "crashed" THEN w <= 4 ELSE w = Written
         /\ Len(toInvoker) = w - Read
         /\ \A k \in 1 .. Len(toInvoker) : toInvoker[k] \in Word(Read + k)

\* The request's half, and the answer's.
RequestHalf == ReceiveInv /\ AcceptInv /\ RefusedForCause
AnswerHalf == AnswerInv /\ Agreement /\ (inv = "crashed" => ~Undisturbed)

\* The two ends are where they can be together.
ConversationInv == TypeOK /\ RequestHalf /\ AnswerHalf
=============================================================================
