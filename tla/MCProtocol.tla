----------------------------- MODULE MCProtocol -----------------------------
(***************************************************************************)
(* Requests for TLC: limits of two bytes and two strings, and requests     *)
(* within, at and beyond each of them.                                     *)
(***************************************************************************)
EXTENDS ProtocolInv

Plain(n) == [size |-> n, assign |-> FALSE]
Assign(n) == [size |-> n, assign |-> TRUE]
OneTo(n, S) == UNION {[1 .. k -> S] : k \in 1 .. n}

Ask(v, w, exec, args, env) ==
  [version |-> v, wait |-> w, NAME |-> <<args[1]>>, EXEC |-> <<exec>>, ARGS |-> args,
   ENV |-> env, PRIO |-> <<5>>, DELAY |-> <<3>>, IDS |-> <<7, 8>>, IO |-> <<"fds">>]

\* Each dimension in full, with the others plain.  A third argument or variable
\* is one too many, whatever they are.
MCRequests ==
  LET args == <<Plain(2)>>
      env == <<Assign(2)>>
  IN  {Ask(r[1], r[2], Plain(r[3]), r[4], r[5]) :
         r \in (BOOLEAN \X BOOLEAN \X (2 .. 3) \X {args} \X {env})
                \cup ({TRUE} \X {TRUE} \X {2} \X
                       ({a \in OneTo(2, {Plain(n) : n \in 1 .. 3}) : a[1].size > 1}
                         \cup {<<Plain(2), Plain(1), Plain(2)>>}) \X {env})
                \cup ({TRUE} \X BOOLEAN \X {2} \X {args} \X
                       (OneTo(2, {Plain(2), Assign(2), Assign(3)})
                         \cup {<<Assign(2), Plain(2), Assign(2)>>}))}
=============================================================================
