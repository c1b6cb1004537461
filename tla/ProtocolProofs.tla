--------------------------- MODULE ProtocolProofs ---------------------------
(***************************************************************************)
(* What the booster accepts is what was sent, what it refuses it has cause *)
(* to refuse, and both ends agree on the outcome: from ConversationInv,    *)
(* for every set of requests, limit, buffer size and number of failures.   *)
(*                                                                         *)
(* First what stands where in the request; then that a read from the       *)
(* stream returns it; then every action, with what it leaves of the two    *)
(* halves of the invariant, the request's and the answer's.                *)
(***************************************************************************)
EXTENDS ProtocolInv, SequenceTheorems, TLAPS

-----------------------------------------------------------------------------
(* The request.                                                            *)

\* invoke_send_str() sends two items a string.
LEMMA StringsItems ==
  ASSUME NEW ss \in Seq(Text)
  PROVE  /\ Strings(ss) \in Seq(Item) /\ Len(Strings(ss)) = 2 * Len(ss)
         /\ \A i \in 1 .. Len(ss) : /\ Strings(ss)[2 * i - 1] = Number(ss[i].size)
                                    /\ Strings(ss)[2 * i] = String(ss[i])
<1> DEFINE n == Len(ss)
<1>1. n \in Nat /\ \A i \in 1 .. n : ss[i] \in Text
  OBVIOUS
<1>2. \A i \in 1 .. 2 * n : (i + 1) \div 2 \in 1 .. n
  BY <1>1
<1>3. \A i \in 1 .. 2 * n : Strings(ss)[i] \in Item
  <2> TAKE i \in 1 .. 2 * n
  <2> DEFINE s == ss[(i + 1) \div 2]
  <2>1. s \in Text
    BY <1>1, <1>2
  <2>2. Number(s.size) \in Item /\ String(s) \in Item
    BY <2>1 DEF Number, String, Item, Text
  <2>3. Strings(ss)[i] = IF i % 2 = 1 THEN Number(s.size) ELSE String(s)
    BY <1>1 DEF Strings
  <2> QED
    BY <2>2, <2>3
<1>4. Strings(ss) \in Seq(Item) /\ Len(Strings(ss)) = 2 * n
  <2>1. DOMAIN Strings(ss) = 1 .. 2 * n
    BY DEF Strings
  <2>2. Strings(ss) = [i \in 1 .. 2 * n |-> Strings(ss)[i]]
    BY DEF Strings
  <2>3. Strings(ss) \in [1 .. 2 * n -> Item]
    BY <1>3, <2>2
  <2> QED
    BY <1>1, <2>1, <2>3, LenProperties
<1>5. ASSUME NEW i \in 1 .. n
      PROVE  Strings(ss)[2 * i - 1] = Number(ss[i].size) /\ Strings(ss)[2 * i] = String(ss[i])
  <2>1. /\ 2 * i - 1 \in 1 .. 2 * n /\ (2 * i - 1) % 2 = 1 /\ ((2 * i - 1) + 1) \div 2 = i
        /\ 2 * i \in 1 .. 2 * n /\ (2 * i) % 2 # 1 /\ ((2 * i) + 1) \div 2 = i
    BY <1>1, <1>5
  <2> QED
    BY <2>1 DEF Strings
<1> QED
  BY <1>4, <1>5

\* invoke_send_prio() and the like send one item a number.
LEMMA NumbersItems ==
  ASSUME NEW ns \in Seq(Nat)
  PROVE  /\ Numbers(ns) \in Seq(Item) /\ Len(Numbers(ns)) = Len(ns)
         /\ \A i \in 1 .. Len(ns) : Numbers(ns)[i] = Number(ns[i])
<1>1. Len(ns) \in Nat /\ \A i \in 1 .. Len(ns) : Number(ns[i]) \in Item
  BY DEF Number, Item
<1>2. Numbers(ns) \in [1 .. Len(ns) -> Item]
  BY <1>1 DEF Numbers
<1> QED
  BY <1>1, <1>2, LenProperties DEF Numbers


\* What a sequence that begins with p and then s has of each.
Begins(w, p) == Len(p) <= Len(w) /\ \A k \in 1 .. Len(p) : w[k] = p[k]

LEMMA Joined ==
  ASSUME NEW p \in Seq(Item), NEW s \in Seq(Item)
  PROVE  p \o s \in Seq(Item) /\ Len(p \o s) = Len(p) + Len(s)
BY ConcatProperties

LEMMA BeginsJoined ==
  ASSUME NEW p \in Seq(Item), NEW s \in Seq(Item), NEW w \in Seq(Item), Begins(w, p \o s)
  PROVE  Begins(w, p) /\ \A k \in 1 .. Len(s) : w[Len(p) + k] = s[k]
<1>1. /\ Len(p) \in Nat /\ Len(s) \in Nat /\ Len(w) \in Nat /\ Len(p \o s) = Len(p) + Len(s)
      /\ \A i \in 1 .. Len(p) + Len(s) : (p \o s)[i] = IF i <= Len(p) THEN p[i] ELSE s[i - Len(p)]
  BY ConcatProperties
<1>2. \A k \in 1 .. Len(p) : w[k] = p[k]
  BY <1>1 DEF Begins
<1>3. ASSUME NEW k \in 1 .. Len(s)
      PROVE  w[Len(p) + k] = s[k]
  <2>1. Len(p) + k \in 1 .. Len(p) + Len(s) /\ ~(Len(p) + k <= Len(p)) /\ (Len(p) + k) - Len(p) = k
    BY <1>1
  <2> QED
    BY <1>1, <2>1 DEF Begins
<1> QED
  BY <1>1, <1>2, <1>3 DEF Begins

\* invoke_remote(): what stands where, in a request with n arguments and m
\* variables.
LEMMA WireItems ==
  ASSUME NEW r \in Requests
  PROVE  LET n == Len(r.ARGS)
             m == Len(r.ENV)
             w == Wire(r)
         IN  /\ n \in Nat \ {0} /\ m \in Nat \ {0}
             /\ w \in Seq(Item) /\ Len(w) = 21 + 2 * n + 2 * m
             /\ w[1] = Magic(r) /\ w[2] = Tag("NAME")
             /\ \A k \in 1 .. 2 : w[2 + k] = Strings(r.NAME)[k]
             /\ w[5] = Tag("EXEC")
             /\ \A k \in 1 .. 2 : w[5 + k] = Strings(r.EXEC)[k]
             /\ w[8] = Tag("ARGS") /\ w[9] = Number(n)
             /\ \A k \in 1 .. 2 * n : w[9 + k] = Strings(r.ARGS)[k]
             /\ w[10 + 2 * n] = Tag("PRIO")
             /\ w[11 + 2 * n] = Numbers(r.PRIO)[1]
             /\ w[12 + 2 * n] = Tag("DELAY")
             /\ w[13 + 2 * n] = Numbers(r.DELAY)[1]
             /\ w[14 + 2 * n] = Tag("IDS")
             /\ \A k \in 1 .. 2 : w[14 + 2 * n + k] = Numbers(r.IDS)[k]
             /\ w[17 + 2 * n] = Tag("IO") /\ w[18 + 2 * n] = Descriptors
             /\ w[19 + 2 * n] = Tag("ENV") /\ w[20 + 2 * n] = Number(m)
             /\ \A k \in 1 .. 2 * m : w[20 + 2 * n + k] = Strings(r.ENV)[k]
             /\ w[21 + 2 * n + 2 * m] = Tag("END")
<1> DEFINE n == Len(r.ARGS)
           m == Len(r.ENV)
           w == Wire(r)
           S2 == Strings(r.NAME)
           S3 == <<Tag("EXEC")>>
           S4 == Strings(r.EXEC)
           S5 == <<Tag("ARGS"), Number(n)>>
           S6 == Strings(r.ARGS)
           S7 == <<Tag("PRIO")>>
           S8 == Numbers(r.PRIO)
           S9 == <<Tag("DELAY")>>
           S10 == Numbers(r.DELAY)
           S11 == <<Tag("IDS")>>
           S12 == Numbers(r.IDS)
           S13 == <<Tag("IO"), Descriptors, Tag("ENV"), Number(m)>>
           S14 == Strings(r.ENV)
           S15 == <<Tag("END")>>
           P1 == <<Magic(r), Tag("NAME")>>
           P2 == P1 \o S2
           P3 == P2 \o S3
           P4 == P3 \o S4
           P5 == P4 \o S5
           P6 == P5 \o S6
           P7 == P6 \o S7
           P8 == P7 \o S8
           P9 == P8 \o S9
           P10 == P9 \o S10
           P11 == P10 \o S11
           P12 == P11 \o S12
           P13 == P12 \o S13
           P14 == P13 \o S14
           P15 == P14 \o S15
<1>1. r \in Request
  BY ProtocolAssumption
<1>2. /\ n \in Nat \ {0} /\ m \in Nat \ {0}
      /\ r.NAME \in Seq(Text) /\ r.EXEC \in Seq(Text) /\ r.ARGS \in Seq(Text) /\ r.ENV \in Seq(Text)
      /\ r.PRIO \in Seq(Nat) /\ r.DELAY \in Seq(Nat) /\ r.IDS \in Seq(Nat)
      /\ Len(r.NAME) = 1 /\ Len(r.EXEC) = 1
      /\ Len(r.PRIO) = 1 /\ Len(r.DELAY) = 1 /\ Len(r.IDS) = 2
  <2>1. r.ARGS # <<>> /\ r.ENV # <<>> /\ r.NAME = <<r.ARGS[1]>>
    BY ProtocolAssumption
  <2>2. r.ARGS \in Seq(Text) /\ r.ENV \in Seq(Text)
    BY <1>1 DEF Request
  <2>3. n \in Nat \ {0} /\ m \in Nat \ {0}
    BY <2>1, <2>2, EmptySeq
  <2> QED
    BY <1>1, <2>1, <2>3, ProtocolAssumption DEF Request
<1>3. /\ Magic(r) \in Item /\ Descriptors \in Item /\ Number(n) \in Item /\ Number(m) \in Item
      /\ \A t \in Tags \cup {"END"} : Tag(t) \in Item
  BY <1>1, <1>2 DEF Magic, Descriptors, Number, Tag, Item, Request
<1>4. P1 \in Seq(Item) /\ Len(P1) = 2 /\ P1[1] = Magic(r) /\ P1[2] = Tag("NAME")
  BY <1>3 DEF Tags, Strs, Nums
<1>5. S2 \in Seq(Item) /\ Len(S2) = 2
  <2>1. S2 \in Seq(Item) /\ Len(S2) = 2 * Len(r.NAME)
    BY <1>2, StringsItems
  <2> QED
    BY <1>2, <2>1
<1>6. S3 \in Seq(Item) /\ Len(S3) = 1 /\ S3[1] = Tag("EXEC")
  BY <1>3 DEF Tags, Strs, Nums
<1>7. S4 \in Seq(Item) /\ Len(S4) = 2
  <2>1. S4 \in Seq(Item) /\ Len(S4) = 2 * Len(r.EXEC)
    BY <1>2, StringsItems
  <2> QED
    BY <1>2, <2>1
<1>8. S5 \in Seq(Item) /\ Len(S5) = 2 /\ S5[1] = Tag("ARGS") /\ S5[2] = Number(n)
  BY <1>3 DEF Tags, Strs, Nums
<1>9. S6 \in Seq(Item) /\ Len(S6) = 2 * n
  BY <1>2, StringsItems
<1>10. S7 \in Seq(Item) /\ Len(S7) = 1 /\ S7[1] = Tag("PRIO")
  BY <1>3 DEF Tags, Strs, Nums
<1>11. S8 \in Seq(Item) /\ Len(S8) = 1
  BY <1>2, NumbersItems
<1>12. S9 \in Seq(Item) /\ Len(S9) = 1 /\ S9[1] = Tag("DELAY")
  BY <1>3 DEF Tags, Strs, Nums
<1>13. S10 \in Seq(Item) /\ Len(S10) = 1
  BY <1>2, NumbersItems
<1>14. S11 \in Seq(Item) /\ Len(S11) = 1 /\ S11[1] = Tag("IDS")
  BY <1>3 DEF Tags, Strs, Nums
<1>15. S12 \in Seq(Item) /\ Len(S12) = 2
  BY <1>2, NumbersItems
<1>16. S13 \in Seq(Item) /\ Len(S13) = 4
             /\ S13[1] = Tag("IO") /\ S13[2] = Descriptors /\ S13[3] = Tag("ENV") /\ S13[4] = Number(m)
  BY <1>3 DEF Tags, Strs, Nums
<1>17. S14 \in Seq(Item) /\ Len(S14) = 2 * m
  BY <1>2, StringsItems
<1>18. S15 \in Seq(Item) /\ Len(S15) = 1 /\ S15[1] = Tag("END")
  BY <1>3 DEF Tags, Strs, Nums
<1>19. w = P15
  BY DEF Wire
<1> HIDE DEF n, m, w, S2, S3, S4, S5, S6, S7, S8, S9, S10, S11, S12, S13, S14, S15
<1> HIDE DEF P1, P2, P3, P4, P5, P6, P7, P8, P9, P10, P11, P12, P13, P14, P15
<1>20. P2 \in Seq(Item) /\ Len(P2) = 4
  <2>1. P2 \in Seq(Item) /\ Len(P2) = Len(P1) + Len(S2)
    BY <1>5, <1>4, Joined DEF P2
  <2> QED
    BY <1>5, <1>4, <2>1
<1>21. P3 \in Seq(Item) /\ Len(P3) = 5
  <2>1. P3 \in Seq(Item) /\ Len(P3) = Len(P2) + Len(S3)
    BY <1>6, <1>20, Joined DEF P3
  <2> QED
    BY <1>6, <1>20, <2>1
<1>22. P4 \in Seq(Item) /\ Len(P4) = 7
  <2>1. P4 \in Seq(Item) /\ Len(P4) = Len(P3) + Len(S4)
    BY <1>7, <1>21, Joined DEF P4
  <2> QED
    BY <1>7, <1>21, <2>1
<1>23. P5 \in Seq(Item) /\ Len(P5) = 9
  <2>1. P5 \in Seq(Item) /\ Len(P5) = Len(P4) + Len(S5)
    BY <1>8, <1>22, Joined DEF P5
  <2> QED
    BY <1>8, <1>22, <2>1
<1>24. P6 \in Seq(Item) /\ Len(P6) = 9 + 2 * n
  <2>1. P6 \in Seq(Item) /\ Len(P6) = Len(P5) + Len(S6)
    BY <1>9, <1>23, Joined DEF P6
  <2> QED
    BY <1>2, <1>9, <1>23, <2>1
<1>25. P7 \in Seq(Item) /\ Len(P7) = 10 + 2 * n
  <2>1. P7 \in Seq(Item) /\ Len(P7) = Len(P6) + Len(S7)
    BY <1>10, <1>24, Joined DEF P7
  <2> QED
    BY <1>2, <1>10, <1>24, <2>1
<1>26. P8 \in Seq(Item) /\ Len(P8) = 11 + 2 * n
  <2>1. P8 \in Seq(Item) /\ Len(P8) = Len(P7) + Len(S8)
    BY <1>11, <1>25, Joined DEF P8
  <2> QED
    BY <1>2, <1>11, <1>25, <2>1
<1>27. P9 \in Seq(Item) /\ Len(P9) = 12 + 2 * n
  <2>1. P9 \in Seq(Item) /\ Len(P9) = Len(P8) + Len(S9)
    BY <1>12, <1>26, Joined DEF P9
  <2> QED
    BY <1>2, <1>12, <1>26, <2>1
<1>28. P10 \in Seq(Item) /\ Len(P10) = 13 + 2 * n
  <2>1. P10 \in Seq(Item) /\ Len(P10) = Len(P9) + Len(S10)
    BY <1>13, <1>27, Joined DEF P10
  <2> QED
    BY <1>2, <1>13, <1>27, <2>1
<1>29. P11 \in Seq(Item) /\ Len(P11) = 14 + 2 * n
  <2>1. P11 \in Seq(Item) /\ Len(P11) = Len(P10) + Len(S11)
    BY <1>14, <1>28, Joined DEF P11
  <2> QED
    BY <1>2, <1>14, <1>28, <2>1
<1>30. P12 \in Seq(Item) /\ Len(P12) = 16 + 2 * n
  <2>1. P12 \in Seq(Item) /\ Len(P12) = Len(P11) + Len(S12)
    BY <1>15, <1>29, Joined DEF P12
  <2> QED
    BY <1>2, <1>15, <1>29, <2>1
<1>31. P13 \in Seq(Item) /\ Len(P13) = 20 + 2 * n
  <2>1. P13 \in Seq(Item) /\ Len(P13) = Len(P12) + Len(S13)
    BY <1>16, <1>30, Joined DEF P13
  <2> QED
    BY <1>2, <1>16, <1>30, <2>1
<1>32. P14 \in Seq(Item) /\ Len(P14) = 20 + 2 * n + 2 * m
  <2>1. P14 \in Seq(Item) /\ Len(P14) = Len(P13) + Len(S14)
    BY <1>17, <1>31, Joined DEF P14
  <2> QED
    BY <1>2, <1>17, <1>31, <2>1
<1>33. P15 \in Seq(Item) /\ Len(P15) = 21 + 2 * n + 2 * m
  <2>1. P15 \in Seq(Item) /\ Len(P15) = Len(P14) + Len(S15)
    BY <1>18, <1>32, Joined DEF P15
  <2> QED
    BY <1>2, <1>18, <1>32, <2>1
<1>34. w \in Seq(Item) /\ Begins(w, P15)
  BY <1>19, <1>33, <1>2 DEF Begins
<1>35. Begins(w, P14) /\ \A k \in 1 .. Len(S15) : w[Len(P14) + k] = S15[k]
  BY <1>18, <1>32, <1>34, BeginsJoined DEF P15
<1>36. Begins(w, P13) /\ \A k \in 1 .. Len(S14) : w[Len(P13) + k] = S14[k]
  BY <1>17, <1>31, <1>34, <1>35, BeginsJoined DEF P14
<1>37. Begins(w, P12) /\ \A k \in 1 .. Len(S13) : w[Len(P12) + k] = S13[k]
  BY <1>16, <1>30, <1>34, <1>36, BeginsJoined DEF P13
<1>38. Begins(w, P11) /\ \A k \in 1 .. Len(S12) : w[Len(P11) + k] = S12[k]
  BY <1>15, <1>29, <1>34, <1>37, BeginsJoined DEF P12
<1>39. Begins(w, P10) /\ \A k \in 1 .. Len(S11) : w[Len(P10) + k] = S11[k]
  BY <1>14, <1>28, <1>34, <1>38, BeginsJoined DEF P11
<1>40. Begins(w, P9) /\ \A k \in 1 .. Len(S10) : w[Len(P9) + k] = S10[k]
  BY <1>13, <1>27, <1>34, <1>39, BeginsJoined DEF P10
<1>41. Begins(w, P8) /\ \A k \in 1 .. Len(S9) : w[Len(P8) + k] = S9[k]
  BY <1>12, <1>26, <1>34, <1>40, BeginsJoined DEF P9
<1>42. Begins(w, P7) /\ \A k \in 1 .. Len(S8) : w[Len(P7) + k] = S8[k]
  BY <1>11, <1>25, <1>34, <1>41, BeginsJoined DEF P8
<1>43. Begins(w, P6) /\ \A k \in 1 .. Len(S7) : w[Len(P6) + k] = S7[k]
  BY <1>10, <1>24, <1>34, <1>42, BeginsJoined DEF P7
<1>44. Begins(w, P5) /\ \A k \in 1 .. Len(S6) : w[Len(P5) + k] = S6[k]
  BY <1>9, <1>23, <1>34, <1>43, BeginsJoined DEF P6
<1>45. Begins(w, P4) /\ \A k \in 1 .. Len(S5) : w[Len(P4) + k] = S5[k]
  BY <1>8, <1>22, <1>34, <1>44, BeginsJoined DEF P5
<1>46. Begins(w, P3) /\ \A k \in 1 .. Len(S4) : w[Len(P3) + k] = S4[k]
  BY <1>7, <1>21, <1>34, <1>45, BeginsJoined DEF P4
<1>47. Begins(w, P2) /\ \A k \in 1 .. Len(S3) : w[Len(P2) + k] = S3[k]
  BY <1>6, <1>20, <1>34, <1>46, BeginsJoined DEF P3
<1>48. Begins(w, P1) /\ \A k \in 1 .. Len(S2) : w[Len(P1) + k] = S2[k]
  BY <1>5, <1>4, <1>34, <1>47, BeginsJoined DEF P2
<1>49. w[1] = Magic(r) /\ w[2] = Tag("NAME")
  BY <1>4, <1>48 DEF Begins
<1>50. \A k \in 1 .. 2 : w[2 + k] = S2[k]
  BY <1>5, <1>4, <1>48
<1>51. w[5] = Tag("EXEC")
  BY <1>6, <1>20, <1>47
<1>52. \A k \in 1 .. 2 : w[5 + k] = S4[k]
  BY <1>7, <1>21, <1>46
<1>53. w[8] = Tag("ARGS") /\ w[9] = Number(n)
  BY <1>8, <1>22, <1>45
<1>54. \A k \in 1 .. 2 * n : w[9 + k] = S6[k]
  BY <1>2, <1>9, <1>23, <1>44
<1>55. w[10 + 2 * n] = Tag("PRIO")
  <2>1. \A k \in 1 .. 1 : w[(9 + 2 * n) + k] = S7[k]
    BY <1>10, <1>24, <1>43
  <2>2. (9 + 2 * n) + 1 = 10 + 2 * n
    BY <1>2
  <2> QED
    BY <1>10, <2>1, <2>2
<1>56. w[11 + 2 * n] = S8[1]
  <2>1. \A k \in 1 .. 1 : w[(10 + 2 * n) + k] = S8[k]
    BY <1>11, <1>25, <1>42
  <2>2. (10 + 2 * n) + 1 = 11 + 2 * n
    BY <1>2
  <2> QED
    BY <1>11, <2>1, <2>2
<1>57. w[12 + 2 * n] = Tag("DELAY")
  <2>1. \A k \in 1 .. 1 : w[(11 + 2 * n) + k] = S9[k]
    BY <1>12, <1>26, <1>41
  <2>2. (11 + 2 * n) + 1 = 12 + 2 * n
    BY <1>2
  <2> QED
    BY <1>12, <2>1, <2>2
<1>58. w[13 + 2 * n] = S10[1]
  <2>1. \A k \in 1 .. 1 : w[(12 + 2 * n) + k] = S10[k]
    BY <1>13, <1>27, <1>40
  <2>2. (12 + 2 * n) + 1 = 13 + 2 * n
    BY <1>2
  <2> QED
    BY <1>13, <2>1, <2>2
<1>59. w[14 + 2 * n] = Tag("IDS")
  <2>1. \A k \in 1 .. 1 : w[(13 + 2 * n) + k] = S11[k]
    BY <1>14, <1>28, <1>39
  <2>2. (13 + 2 * n) + 1 = 14 + 2 * n
    BY <1>2
  <2> QED
    BY <1>14, <2>1, <2>2
<1>60. \A k \in 1 .. 2 : w[14 + 2 * n + k] = S12[k]
  BY <1>2, <1>15, <1>29, <1>38
<1>61. /\ w[17 + 2 * n] = Tag("IO") /\ w[18 + 2 * n] = Descriptors
       /\ w[19 + 2 * n] = Tag("ENV") /\ w[20 + 2 * n] = Number(m)
  <2>1. \A k \in 1 .. 4 : w[(16 + 2 * n) + k] = S13[k]
    BY <1>16, <1>30, <1>37
  <2>2. /\ (16 + 2 * n) + 1 = 17 + 2 * n
        /\ (16 + 2 * n) + 2 = 18 + 2 * n
        /\ (16 + 2 * n) + 3 = 19 + 2 * n
        /\ (16 + 2 * n) + 4 = 20 + 2 * n
    BY <1>2
  <2> QED
    BY <1>16, <2>1, <2>2
<1>62. \A k \in 1 .. 2 * m : w[20 + 2 * n + k] = S14[k]
  BY <1>2, <1>17, <1>31, <1>36
<1>63. w[21 + 2 * n + 2 * m] = Tag("END")
  <2>1. \A k \in 1 .. 1 : w[(20 + 2 * n + 2 * m) + k] = S15[k]
    BY <1>18, <1>32, <1>35
  <2>2. (20 + 2 * n + 2 * m) + 1 = 21 + 2 * n + 2 * m
    BY <1>2
  <2> QED
    BY <1>18, <2>1, <2>2
<1>64. Len(w) = 21 + 2 * n + 2 * m
  BY <1>19, <1>33
<1> QED
  BY <1>2, <1>34, <1>49, <1>50, <1>51, <1>52, <1>53, <1>54, <1>55, <1>56, <1>57, <1>58, <1>59, <1>60, <1>61, <1>62, <1>63, <1>64
     DEF n, m, w, S2, S4, S6, S8, S10, S12, S14

\* The sizes of its parts.
LEMMA RequestParts ==
  ASSUME NEW r \in Requests
  PROVE  /\ r \in Request
         /\ \A t \in Strs : r[t] \in Seq(Text) /\ Len(r[t]) \in Nat \ {0}
         /\ \A t \in Nums : r[t] \in Seq(Nat) /\ Len(r[t]) \in Nat \ {0}
         /\ \A t \in {"NAME", "EXEC", "PRIO", "DELAY"} : Len(r[t]) = 1
         /\ Len(r["IDS"]) = 2 /\ r["IO"] = <<"fds">>
         /\ r["NAME"][1].size > 1
<1>1. /\ r \in Request /\ r.ARGS # <<>> /\ r.ENV # <<>> /\ r.NAME = <<r.ARGS[1]>>
      /\ Len(r.EXEC) = 1 /\ Len(r.PRIO) = 1 /\ Len(r.DELAY) = 1 /\ Len(r.IDS) = 2
      /\ r.NAME[1].size > 1
  BY ProtocolAssumption
<1>2. /\ \A t \in Strs : r[t] \in Seq(Text)
      /\ \A t \in Nums : r[t] \in Seq(Nat)
      /\ r.IO = <<"fds">>
  BY <1>1 DEF Request, Strs, Nums
<1>3. Len(r.ARGS) \in Nat \ {0} /\ Len(r.ENV) \in Nat \ {0} /\ Len(r.NAME) = 1
  BY <1>1, <1>2, EmptySeq DEF Strs
<1>4. /\ \A t \in Strs : Len(r[t]) \in Nat \ {0}
      /\ \A t \in Nums : Len(r[t]) \in Nat \ {0}
  <2>1. Len(r.EXEC) \in Nat \ {0} /\ Len(r.PRIO) \in Nat \ {0} /\ Len(r.DELAY) \in Nat \ {0}
        /\ Len(r.IDS) \in Nat \ {0} /\ Len(r.NAME) \in Nat \ {0}
    BY <1>1, <1>3
  <2> QED
    BY <1>3, <2>1 DEF Strs, Nums
<1> QED
  BY <1>1, <1>2, <1>3, <1>4

\* The same as what the receivers go by: where each tag stands, and what
\* follows it.
LEMMA Stations ==
  ASSUME request \in Requests
  PROVE  LET w == Wire(request)
         IN  /\ w \in Seq(Item) /\ Len(w) \in Nat /\ Len(w) = Start("END")
             /\ w[1] = Magic(request) /\ Hole \in 1 .. Len(w) /\ w[Hole] = Descriptors
             /\ \A t \in Tags \cup {"END"} :
                  Start(t) \in 2 .. Len(w) /\ Start(t) # Hole /\ w[Start(t)] = Tag(t)
             /\ \A t \in {"ARGS", "ENV"} :
                  w[Start(t) + 1] = Number(Len(request[t]))
             /\ \A t \in Strs : \A i \in 1 .. Len(request[t]) :
                  /\ w[First(t) + 2 * i - 2] = Number(request[t][i].size)
                  /\ w[First(t) + 2 * i - 1] = String(request[t][i])
             /\ \A t \in Nums : \A i \in 1 .. Len(request[t]) :
                  w[First(t) + i - 1] = Number(request[t][i])
<1> DEFINE r == request
           n == Len(r.ARGS)
           m == Len(r.ENV)
           w == Wire(r)
<1>1. /\ r.NAME \in Seq(Text) /\ r.EXEC \in Seq(Text) /\ r.ARGS \in Seq(Text) /\ r.ENV \in Seq(Text)
      /\ r.PRIO \in Seq(Nat) /\ r.DELAY \in Seq(Nat) /\ r.IDS \in Seq(Nat)
  BY RequestParts DEF Strs, Nums
<1>2. /\ Len(r.NAME) = 1 /\ Len(r.EXEC) = 1
      /\ Len(r.PRIO) = 1 /\ Len(r.DELAY) = 1 /\ Len(r.IDS) = 2
  BY RequestParts
<1>3. n \in Nat \ {0} /\ m \in Nat \ {0} /\ w \in Seq(Item) /\ Len(w) = 21 + 2 * n + 2 * m
  BY WireItems
<1>4. /\ w[1] = Magic(r) /\ w[2] = Tag("NAME") /\ w[5] = Tag("EXEC") /\ w[8] = Tag("ARGS")
      /\ w[10 + 2 * n] = Tag("PRIO") /\ w[12 + 2 * n] = Tag("DELAY")
      /\ w[14 + 2 * n] = Tag("IDS") /\ w[17 + 2 * n] = Tag("IO")
      /\ w[19 + 2 * n] = Tag("ENV") /\ w[21 + 2 * n + 2 * m] = Tag("END")
  BY WireItems
<1>5. w[18 + 2 * n] = Descriptors /\ w[9] = Number(n) /\ w[20 + 2 * n] = Number(m)
  BY WireItems
<1>6. /\ \A k \in 1 .. 2 : w[2 + k] = Strings(r.NAME)[k]
      /\ \A k \in 1 .. 2 : w[5 + k] = Strings(r.EXEC)[k]
      /\ \A k \in 1 .. 2 * n : w[9 + k] = Strings(r.ARGS)[k]
      /\ \A k \in 1 .. 2 * m : w[20 + 2 * n + k] = Strings(r.ENV)[k]
  BY WireItems
<1>7. /\ w[11 + 2 * n] = Numbers(r.PRIO)[1] /\ w[13 + 2 * n] = Numbers(r.DELAY)[1]
      /\ \A k \in 1 .. 2 : w[14 + 2 * n + k] = Numbers(r.IDS)[k]
  BY WireItems
<1> HIDE DEF n, m, w
<1>8. /\ Start("NAME") = 2 /\ Start("EXEC") = 5 /\ Start("ARGS") = 8
      /\ Start("PRIO") = 10 + 2 * n /\ Start("DELAY") = 12 + 2 * n /\ Start("IDS") = 14 + 2 * n
      /\ Start("IO") = 17 + 2 * n /\ Start("ENV") = 19 + 2 * n /\ Start("END") = 21 + 2 * n + 2 * m
  BY DEF Start, n, m
<1>9. /\ First("NAME") = 3 /\ First("EXEC") = 6 /\ First("ARGS") = 10
      /\ First("PRIO") = 11 + 2 * n /\ First("DELAY") = 13 + 2 * n /\ First("IDS") = 15 + 2 * n
      /\ First("ENV") = 21 + 2 * n
  <2>1. /\ First("NAME") = 2 + 1 /\ First("EXEC") = 5 + 1 /\ First("ARGS") = 8 + 2
        /\ First("PRIO") = (10 + 2 * n) + 1 /\ First("DELAY") = (12 + 2 * n) + 1
        /\ First("IDS") = (14 + 2 * n) + 1 /\ First("ENV") = (19 + 2 * n) + 2
    BY <1>8, Zenon DEF First
  <2> QED
    BY <1>3, <2>1
<1>10. Hole = 18 + 2 * n
  BY <1>3, <1>8 DEF Hole
<1> HIDE DEF r
<1>11. ASSUME NEW t \in Tags \cup {"END"}
       PROVE  Start(t) \in 2 .. Len(w) /\ Start(t) # Hole /\ w[Start(t)] = Tag(t)
  <2>1. w[Start(t)] = Tag(t)
    BY <1>4, <1>8, Zenon DEF Tags, Strs, Nums
  <2>2. /\ 10 + 2 * n \in 2 .. Len(w) /\ 12 + 2 * n \in 2 .. Len(w) /\ 14 + 2 * n \in 2 .. Len(w)
        /\ 17 + 2 * n \in 2 .. Len(w) /\ 19 + 2 * n \in 2 .. Len(w)
        /\ 21 + 2 * n + 2 * m \in 2 .. Len(w)
        /\ 2 \in 2 .. Len(w) /\ 5 \in 2 .. Len(w) /\ 8 \in 2 .. Len(w)
    BY <1>3
  <2>3. Start(t) \in 2 .. Len(w)
    BY <1>8, <2>2 DEF Tags, Strs, Nums
  <2>4. Start(t) # Hole
    BY <1>3, <1>8, <1>10 DEF Tags, Strs, Nums
  <2> QED
    BY <2>1, <2>3, <2>4
<1>12. \A t \in {"ARGS", "ENV"} : w[Start(t) + 1] = Number(Len(request[t]))
  <2>1. Start("ARGS") + 1 = 9 /\ Start("ENV") + 1 = 20 + 2 * n
    BY <1>3, <1>8
  <2>2. w[Start("ARGS") + 1] = Number(n) /\ w[Start("ENV") + 1] = Number(m)
    BY <1>5, <2>1
  <2> QED
    BY <2>2 DEF n, m, r
<1>13. ASSUME NEW t \in Strs, NEW i \in 1 .. Len(r[t])
       PROVE  /\ w[First(t) + 2 * i - 2] = Number(r[t][i].size)
              /\ w[First(t) + 2 * i - 1] = String(r[t][i])
  <2>1. r[t] \in Seq(Text)
    BY <1>1 DEF Strs
  <2>2. First(t) \in Nat
    BY <1>3, <1>9 DEF Strs
  <2>3. Len(r[t]) \in Nat /\ i \in Nat
    BY <2>1
  <2>4. \A k \in 1 .. 2 * Len(r[t]) : w[(First(t) - 1) + k] = Strings(r[t])[k]
    <3>1. CASE t = "NAME"
      <4>1. First(t) - 1 = 2
        BY <1>9, <3>1
      <4>2. 1 .. 2 * Len(r[t]) = 1 .. 2
        <5>1. Len(r[t]) = 1
          BY <1>2, <3>1, Zenon
        <5> QED
          BY <5>1
      <4> QED
        BY <1>6, <3>1, <4>1, <4>2
    <3>2. CASE t = "EXEC"
      <4>1. First(t) - 1 = 5
        BY <1>9, <3>2
      <4>2. 1 .. 2 * Len(r[t]) = 1 .. 2
        <5>1. Len(r[t]) = 1
          BY <1>2, <3>2, Zenon
        <5> QED
          BY <5>1
      <4> QED
        BY <1>6, <3>2, <4>1, <4>2
    <3>3. CASE t = "ARGS"
      <4>1. First(t) - 1 = 9 /\ n = Len(r[t])
        BY <1>9, <3>3 DEF n
      <4> QED
        BY <1>6, <3>3, <4>1
    <3>4. CASE t = "ENV"
      <4>1. First(t) - 1 = 20 + 2 * n /\ m = Len(r[t])
        BY <1>3, <1>9, <3>4 DEF m
      <4> QED
        BY <1>6, <3>4, <4>1
    <3> QED
      BY <3>1, <3>2, <3>3, <3>4 DEF Strs
  <2>5. /\ 2 * i - 1 \in 1 .. 2 * Len(r[t]) /\ 2 * i \in 1 .. 2 * Len(r[t])
        /\ First(t) + 2 * i - 2 = (First(t) - 1) + (2 * i - 1)
        /\ First(t) + 2 * i - 1 = (First(t) - 1) + 2 * i
    BY <2>2, <2>3
  <2>6. /\ Strings(r[t])[2 * i - 1] = Number(r[t][i].size)
        /\ Strings(r[t])[2 * i] = String(r[t][i])
    BY <2>1, StringsItems
  <2> QED
    BY <2>4, <2>5, <2>6
<1>14. ASSUME NEW t \in Nums, NEW i \in 1 .. Len(r[t])
       PROVE  w[First(t) + i - 1] = Number(r[t][i])
  <2>1. r[t] \in Seq(Nat)
    BY <1>1 DEF Nums
  <2>2. Numbers(r[t])[i] = Number(r[t][i])
    BY <2>1, NumbersItems
  <2>3. CASE t = "PRIO"
    <3>1. i = 1 /\ First(t) + i - 1 = 11 + 2 * n
      <4>1. Len(r[t]) = 1 /\ First(t) = 11 + 2 * n
        BY <1>9, <1>2, <2>3, Zenon
      <4> QED
        BY <1>3, <4>1
    <3> QED
      BY <1>7, <2>2, <2>3, <3>1
  <2>4. CASE t = "DELAY"
    <3>1. i = 1 /\ First(t) + i - 1 = 13 + 2 * n
      <4>1. Len(r[t]) = 1 /\ First(t) = 13 + 2 * n
        BY <1>9, <1>2, <2>4, Zenon
      <4> QED
        BY <1>3, <4>1
    <3> QED
      BY <1>7, <2>2, <2>4, <3>1
  <2>5. CASE t = "IDS"
    <3>1. i \in 1 .. 2 /\ First(t) + i - 1 = 14 + 2 * n + i
      <4>1. Len(r[t]) = 2 /\ First(t) = 15 + 2 * n
        BY <1>9, <1>2, <2>5, Zenon
      <4> QED
        BY <1>3, <4>1
    <3> QED
      BY <1>7, <2>2, <2>5, <3>1
  <2> QED
    BY <2>3, <2>4, <2>5 DEF Nums
<1>15. Len(w) = Start("END") /\ Len(w) \in Nat /\ Hole \in 1 .. Len(w)
  BY <1>3, <1>8, <1>10
<1> QED
  BY <1>3, <1>4, <1>5, <1>10, <1>11, <1>12, <1>13, <1>14, <1>15 DEF w, r

\* The descriptors are in one place only.
LEMMA OtherItems ==
  /\ \A r : Magic(r) # Descriptors
  /\ \A n : Number(n) # Descriptors
  /\ \A s : String(s) # Descriptors
  /\ \A t \in Tags \cup {"END"} : Tag(t) # Descriptors
  /\ \A ss \in Seq(Text) : \A k \in 1 .. 2 * Len(ss) : Strings(ss)[k] # Descriptors
  /\ \A ns \in Seq(Nat) : \A k \in 1 .. Len(ns) : Numbers(ns)[k] # Descriptors
<1>1. /\ \A r : Magic(r).kind = "MAGIC"
      /\ \A n : Number(n).kind = "number"
      /\ \A s : String(s).kind = "text"
      /\ \A t : Tag(t).kind = t
      /\ Descriptors.kind = "fds"
  BY DEF Magic, Number, String, Tag, Descriptors
<1>2. /\ \A r : Magic(r) # Descriptors
      /\ \A n : Number(n) # Descriptors
      /\ \A s : String(s) # Descriptors
      /\ \A t \in Tags \cup {"END"} : Tag(t) # Descriptors
  BY <1>1 DEF Tags, Strs, Nums
<1>3. ASSUME NEW ss \in Seq(Text), NEW k \in 1 .. 2 * Len(ss)
      PROVE  Strings(ss)[k] # Descriptors
  <2> DEFINE s == ss[(k + 1) \div 2]
  <2>1. Strings(ss)[k] = IF k % 2 = 1 THEN Number(s.size) ELSE String(s)
    BY DEF Strings
  <2> QED
    BY <1>2, <2>1, Zenon
<1>4. ASSUME NEW ns \in Seq(Nat), NEW k \in 1 .. Len(ns)
      PROVE  Numbers(ns)[k] # Descriptors
  BY <1>2 DEF Numbers
<1> QED
  BY <1>2, <1>3, <1>4

LEMMA OneHole ==
  ASSUME request \in Requests,
         NEW k \in 1 .. Len(Wire(request)), Wire(request)[k] = Descriptors
  PROVE  k = Hole
<1> DEFINE r == request
           n == Len(r.ARGS)
           m == Len(r.ENV)
           w == Wire(r)
<1>1. /\ r.NAME \in Seq(Text) /\ r.EXEC \in Seq(Text) /\ r.ARGS \in Seq(Text) /\ r.ENV \in Seq(Text)
      /\ r.PRIO \in Seq(Nat) /\ r.DELAY \in Seq(Nat) /\ r.IDS \in Seq(Nat)
  BY RequestParts DEF Strs, Nums
<1>2. /\ Len(r.NAME) = 1 /\ Len(r.EXEC) = 1
      /\ Len(r.PRIO) = 1 /\ Len(r.DELAY) = 1 /\ Len(r.IDS) = 2
  BY RequestParts
<1>3. n \in Nat \ {0} /\ m \in Nat \ {0} /\ Len(w) = 21 + 2 * n + 2 * m
  BY WireItems
<1>4. Start("IO") = 17 + 2 * n
  BY DEF Start
<1>5. Hole = 18 + 2 * n
  BY <1>3, <1>4 DEF Hole
<1>6. /\ w[1] # Descriptors /\ w[2] # Descriptors /\ w[5] # Descriptors /\ w[8] # Descriptors
      /\ w[10 + 2 * n] # Descriptors /\ w[12 + 2 * n] # Descriptors
      /\ w[14 + 2 * n] # Descriptors /\ w[17 + 2 * n] # Descriptors
      /\ w[19 + 2 * n] # Descriptors /\ w[21 + 2 * n + 2 * m] # Descriptors
  <2>1. /\ w[1] = Magic(r) /\ w[2] = Tag("NAME") /\ w[5] = Tag("EXEC") /\ w[8] = Tag("ARGS")
        /\ w[10 + 2 * n] = Tag("PRIO") /\ w[12 + 2 * n] = Tag("DELAY")
        /\ w[14 + 2 * n] = Tag("IDS") /\ w[17 + 2 * n] = Tag("IO")
        /\ w[19 + 2 * n] = Tag("ENV") /\ w[21 + 2 * n + 2 * m] = Tag("END")
    BY WireItems
  <2>2. \A t \in Tags \cup {"END"} : Tag(t) # Descriptors
    BY OtherItems
  <2>3. /\ Tag("NAME") # Descriptors /\ Tag("EXEC") # Descriptors /\ Tag("ARGS") # Descriptors
        /\ Tag("PRIO") # Descriptors /\ Tag("DELAY") # Descriptors /\ Tag("IDS") # Descriptors
        /\ Tag("IO") # Descriptors /\ Tag("ENV") # Descriptors /\ Tag("END") # Descriptors
    BY <2>2 DEF Tags, Strs, Nums
  <2> QED
    BY <2>1, <2>3, OtherItems
<1>7. w[9] # Descriptors /\ w[20 + 2 * n] # Descriptors
  <2>1. w[9] = Number(n) /\ w[20 + 2 * n] = Number(m)
    BY WireItems
  <2> QED
    BY <2>1, OtherItems
<1>8. /\ \A j \in 1 .. 2 : w[2 + j] # Descriptors
      /\ \A j \in 1 .. 2 : w[5 + j] # Descriptors
      /\ \A j \in 1 .. 2 * n : w[9 + j] # Descriptors
      /\ \A j \in 1 .. 2 * m : w[20 + 2 * n + j] # Descriptors
  <2>1. \A ss \in Seq(Text) : \A j \in 1 .. 2 * Len(ss) : Strings(ss)[j] # Descriptors
    BY OtherItems
  <2>2. /\ \A j \in 1 .. 2 * Len(r.NAME) : Strings(r.NAME)[j] # Descriptors
        /\ \A j \in 1 .. 2 * Len(r.EXEC) : Strings(r.EXEC)[j] # Descriptors
        /\ \A j \in 1 .. 2 * n : Strings(r.ARGS)[j] # Descriptors
        /\ \A j \in 1 .. 2 * m : Strings(r.ENV)[j] # Descriptors
    BY <1>1, <2>1, Zenon
  <2>3. 1 .. 2 * Len(r.NAME) = 1 .. 2 /\ 1 .. 2 * Len(r.EXEC) = 1 .. 2
    BY <1>2
  <2>4. /\ \A j \in 1 .. 2 : w[2 + j] = Strings(r.NAME)[j]
        /\ \A j \in 1 .. 2 : w[5 + j] = Strings(r.EXEC)[j]
        /\ \A j \in 1 .. 2 * n : w[9 + j] = Strings(r.ARGS)[j]
        /\ \A j \in 1 .. 2 * m : w[20 + 2 * n + j] = Strings(r.ENV)[j]
    BY WireItems
  <2> QED
    BY <2>2, <2>3, <2>4, Zenon
<1>9. /\ w[11 + 2 * n] # Descriptors /\ w[13 + 2 * n] # Descriptors
      /\ \A j \in 1 .. 2 : w[14 + 2 * n + j] # Descriptors
  <2>1. \A ns \in Seq(Nat) : \A j \in 1 .. Len(ns) : Numbers(ns)[j] # Descriptors
    BY OtherItems
  <2>2. /\ \A j \in 1 .. Len(r.PRIO) : Numbers(r.PRIO)[j] # Descriptors
        /\ \A j \in 1 .. Len(r.DELAY) : Numbers(r.DELAY)[j] # Descriptors
        /\ \A j \in 1 .. Len(r.IDS) : Numbers(r.IDS)[j] # Descriptors
    BY <1>1, <2>1, Zenon
  <2>3. /\ w[11 + 2 * n] = Numbers(r.PRIO)[1] /\ w[13 + 2 * n] = Numbers(r.DELAY)[1]
        /\ \A j \in 1 .. 2 : w[14 + 2 * n + j] = Numbers(r.IDS)[j]
    BY WireItems
  <2>4. 1 \in 1 .. 1
    OBVIOUS
  <2> QED
    BY <1>2, <2>2, <2>3, <2>4, Zenon
<1> HIDE DEF n, m, w
<1>10. k \in 1 .. 21 + 2 * n + 2 * m /\ w[k] = Descriptors
  BY <1>3 DEF w
<1>11. /\ ~(\E j \in 1 .. 2 : k = 2 + j) /\ ~(\E j \in 1 .. 2 : k = 5 + j)
       /\ ~(\E j \in 1 .. 2 * n : k = 9 + j) /\ ~(\E j \in 1 .. 2 * m : k = 20 + 2 * n + j)
  BY <1>8, <1>10, Zenon
<1>12. k \notin 3 .. 4 /\ k \notin 6 .. 7 /\ k \notin 10 .. 9 + 2 * n
         /\ k \notin 21 + 2 * n .. 20 + 2 * n + 2 * m
  <2>1. /\ k \in 3 .. 4 => k - 2 \in 1 .. 2 /\ k = 2 + (k - 2)
        /\ k \in 6 .. 7 => k - 5 \in 1 .. 2 /\ k = 5 + (k - 5)
        /\ k \in 10 .. 9 + 2 * n => k - 9 \in 1 .. 2 * n /\ k = 9 + (k - 9)
        /\ k \in 21 + 2 * n .. 20 + 2 * n + 2 * m =>
             k - (20 + 2 * n) \in 1 .. 2 * m /\ k = 20 + 2 * n + (k - (20 + 2 * n))
    BY <1>3, <1>10
  <2> QED
    BY <1>11, <2>1
<1>13. /\ k # 1 /\ k # 2 /\ k # 5 /\ k # 8 /\ k # 9 /\ k # 10 + 2 * n /\ k # 11 + 2 * n
       /\ k # 12 + 2 * n /\ k # 13 + 2 * n /\ k # 14 + 2 * n /\ k # 17 + 2 * n
       /\ k # 19 + 2 * n /\ k # 20 + 2 * n /\ k # 21 + 2 * n + 2 * m
  BY <1>6, <1>7, <1>9, <1>10, Zenon
<1>14. k # 15 + 2 * n /\ k # 16 + 2 * n
  <2>1. 15 + 2 * n = 14 + 2 * n + 1 /\ 16 + 2 * n = 14 + 2 * n + 2 /\ 1 \in 1 .. 2 /\ 2 \in 1 .. 2
    BY <1>3
  <2> QED
    BY <1>9, <1>10, <2>1, Zenon
<1>15. CASE k <= 9
  BY <1>10, <1>12, <1>13, <1>15
<1>16. CASE 10 <= k /\ k <= 16 + 2 * n
  BY <1>3, <1>10, <1>12, <1>13, <1>14, <1>16
<1>17. CASE 17 + 2 * n <= k
  BY <1>3, <1>5, <1>10, <1>12, <1>13, <1>17
<1> QED
  BY <1>3, <1>10, <1>15, <1>16, <1>17

-----------------------------------------------------------------------------
(* The stream.                                                             *)

\* The places in the request are those of the request.
LEMMA PlacesStay ==
  ASSUME request' = request
  PROVE  /\ \A t : Start(t)' = Start(t) /\ First(t)' = First(t)
         /\ Hole' = Hole /\ Wire(request)' = Wire(request)
         /\ WithinLimits(request)' = WithinLimits(request)
<1>1. \A t : Start(t)' = Start(t)
  BY DEF Start
<1>2. \A t : First(t)' = First(t)
  BY <1>1 DEF First
<1>3. Hole' = Hole
  BY DEF Hole, Start
<1> QED
  BY <1>1, <1>2, <1>3

LEMMA HeadAndTail ==
  ASSUME NEW S, NEW q \in Seq(S), q # <<>>
  PROVE  /\ Len(q) \in Nat \ {0} /\ Head(q) = q[1] /\ Head(q) \in S
         /\ Tail(q) \in Seq(S) /\ Len(Tail(q)) = Len(q) - 1
         /\ \A k \in 1 .. Len(q) - 1 : Tail(q)[k] = q[k + 1]
<1>1. Len(q) \in Nat \ {0}
  BY EmptySeq
<1>2. Head(q) = q[1] /\ q[1] \in S
  BY <1>1
<1> QED
  BY <1>1, <1>2, HeadTailProperties

\* What a read returns while the two ends are in step: the next item, or, with
\* the descriptors lost, the one behind them.
LEMMA NextItem ==
  ASSUME TypeOK, NEW whole \in BOOLEAN, Stream(whole), toBooster # <<>>
  PROVE  /\ Items(whole) \in Nat /\ Items(whole) + 1 \in 1 .. Len(Wire(request))
         /\ whole \/ Items(whole) + 1 # Hole => Head(toBooster) = Wire(request)[Items(whole) + 1]
         /\ ~whole /\ Items(whole) + 1 = Hole => Head(toBooster) = Tag("ENV")
         /\ Items(whole) + Len(toBooster) + (IF whole THEN 0 ELSE 1) <= Len(Wire(request))
         /\ ~whole => Items(whole) < Hole /\ ~Undisturbed
<1> DEFINE c == Items(whole)
           n == Len(toBooster)
           w == Wire(request)
<1>1. n \in Nat \ {0} /\ Head(toBooster) = toBooster[1]
  <2>1. toBooster \in Seq(Item)
    BY DEF TypeOK
  <2> QED
    BY <2>1, HeadAndTail
<1>2. sent \in Nat /\ sent <= Len(w) /\ Len(w) \in Nat /\ request \in Requests
  <2>1. request \in Requests /\ sent \in 0 .. Len(w)
    BY DEF TypeOK
  <2>2. Len(w) \in Nat
    BY <2>1, Stations
  <2> QED
    BY <2>1, <2>2
<1>3. /\ c \in Nat /\ c = sent - n - (IF whole THEN 0 ELSE 1)
      /\ ~whole => c < Hole /\ Hole <= sent /\ ~Undisturbed
  BY DEF Stream, Items
<1>4. \A k \in 1 .. n : toBooster[k] = w[IF whole \/ c + k < Hole THEN c + k ELSE c + k + 1]
  BY DEF Stream
<1> HIDE DEF c, n, w
<1>5. c + 1 \in 1 .. Len(w) /\ c + n + (IF whole THEN 0 ELSE 1) <= Len(w)
  BY <1>1, <1>2, <1>3
<1>6. toBooster[1] = w[IF whole \/ c + 1 < Hole THEN c + 1 ELSE c + 1 + 1]
  BY <1>1, <1>4
<1>7. Hole \in Nat /\ w[Hole + 1] = Tag("ENV")
  <2>1. Hole \in Nat /\ w[Start("ENV")] = Tag("ENV")
    BY <1>2, Stations DEF w, Tags, Strs, Nums
  <2>2. Start("ENV") = Hole + 1
    <3>1. Len(request.ARGS) \in Nat
      BY <1>2, RequestParts DEF Strs
    <3>2. Start("IO") = 17 + 2 * Len(request.ARGS) /\ Start("ENV") = 19 + 2 * Len(request.ARGS)
      BY DEF Start
    <3> QED
      BY <3>1, <3>2 DEF Hole
  <2> QED
    BY <2>1, <2>2
<1>8. whole \/ c + 1 # Hole => toBooster[1] = w[c + 1]
  BY <1>3, <1>6, <1>7
<1>9. ~whole /\ c + 1 = Hole => toBooster[1] = Tag("ENV")
  BY <1>3, <1>6, <1>7
<1> QED
  BY <1>1, <1>3, <1>5, <1>8, <1>9 DEF c, n, w

\* Taking it keeps the ends in step.
LEMMA StreamMoves ==
  ASSUME TypeOK, NEW whole \in BOOLEAN, Stream(whole), toBooster # <<>>,
         whole \/ Items(whole) + 1 # Hole,
         request' = request, sent' = sent, toBooster' = Tail(toBooster),
         ~Undisturbed => ~Undisturbed'
  PROVE  Stream(whole)' /\ Items(whole)' = Items(whole) + 1
<1> DEFINE c == Items(whole)
           n == Len(toBooster)
<1>1. /\ n \in Nat \ {0} /\ Len(toBooster') = n - 1
      /\ \A k \in 1 .. n - 1 : toBooster'[k] = toBooster[k + 1]
  <2>1. toBooster \in Seq(Item)
    BY DEF TypeOK
  <2> QED
    BY <2>1, HeadAndTail
<1>2. sent \in Nat /\ c \in Nat /\ Hole \in Nat
  <2>1. request \in Requests /\ sent \in 0 .. Len(Wire(request))
    BY DEF TypeOK
  <2>2. Len(Wire(request)) \in Nat /\ Hole \in Nat
    BY <2>1, Stations
  <2> QED
    BY <2>1, <2>2 DEF Stream
<1>3. c = sent - n - (IF whole THEN 0 ELSE 1)
  BY DEF Items
<1>4. Items(whole)' = sent - (n - 1) - (IF whole THEN 0 ELSE 1)
  BY <1>1 DEF Items
<1>5. Items(whole)' = c + 1
  BY <1>1, <1>2, <1>3, <1>4
<1>6. \A k \in 1 .. n : toBooster[k] =
         Wire(request)[IF whole \/ c + k < Hole THEN c + k ELSE c + k + 1]
  BY DEF Stream
<1>7. ~whole => c < Hole /\ Hole <= sent /\ ~Undisturbed
  BY DEF Stream
<1> HIDE DEF c, n
<1>8. ASSUME NEW k \in 1 .. n - 1
      PROVE  toBooster'[k] = Wire(request)[IF whole \/ (c + 1) + k < Hole THEN (c + 1) + k
                                                                        ELSE (c + 1) + k + 1]
  <2>1. k + 1 \in 1 .. n /\ c + (k + 1) = (c + 1) + k
    BY <1>1, <1>2
  <2> QED
    BY <1>1, <1>6, <2>1
<1>9. ~whole => c + 1 < Hole
  BY <1>2, <1>7, c = Items(whole) DEF c
<1>10. Stream(whole)'
  BY <1>1, <1>2, <1>5, <1>7, <1>8, <1>9, PlacesStay DEF Stream
<1> QED
  BY <1>5, <1>10 DEF c

-----------------------------------------------------------------------------
(* Reads that do not find what they are for.                               *)

\* A booster in step after a read has kept its half.
LEMMA StillInStep ==
  ASSUME NEW whole \in BOOLEAN, Receiving', Stream(whole)',
         AtTag(whole)' \/ Strayed(whole)' \/ \E t \in Tags : Under(t, whole)'
  PROVE  RequestHalf'
<1>1. at' \notin {"refused", "ack", "pid", "pid value", "decide", "served", "exit value", "rejected"}
  BY DEF Receiving
<1>2. ReceiveInv'
  BY DEF ReceiveInv
<1>3. AcceptInv' /\ RefusedForCause'
  BY <1>1 DEF AcceptInv, Accepted, RefusedForCause
<1> QED
  BY <1>2, <1>3 DEF RequestHalf

\* One that has refused needs a cause.
LEMMA RefusedWithCause ==
  ASSUME at' = "refused", ~WithinLimits(request)' \/ ~Undisturbed'
  PROVE  RequestHalf'
BY DEF RequestHalf, ReceiveInv, AcceptInv, RefusedForCause, Receiving, Accepted

\* Every read is one of a booster that receives, from an invoker that may be
\* gone.
LEMMA ReadsReceive ==
  ASSUME Receive
  PROVE  /\ Receiving /\ (toBooster # <<>> \/ InvokerGone)
         /\ UNCHANGED <<request, invoker, toInvoker, ignores, faults>>
<1>1. UNCHANGED <<request, invoker, toInvoker, ignores, faults>>
  BY DEF Receive, ReceiveMagic, ReceiveAppName, ReceiveAction, ReceiveCount, ReceiveSize,
         ReceiveText, ReceiveNumber, ReceiveIO, TakeItem
<1>2. Receiving /\ (toBooster # <<>> \/ InvokerGone)
  BY DEF Receive, ReceiveMagic, ReceiveAppName, ReceiveAction, ReceiveCount, ReceiveSize,
         ReceiveText, ReceiveNumber, ReceiveIO, BoosterReads, Receiving
<1> QED
  BY <1>1, <1>2

\* No invoker ends before the booster has its request but by a failure.
LEMMA GoneByFailure ==
  ASSUME AnswerHalf, Receiving, InvokerGone
  PROVE  ~Undisturbed
<1>1. at \notin BoosterOver /\ ~Accepted /\ at # "rejected"
  BY DEF Receiving, BoosterOver, Accepted
<1>2. inv = "crashed"
  BY <1>1 DEF AnswerHalf, Agreement, InvokerGone, InvokerOver, BoosterOver
<1> QED
  BY <1>2 DEF AnswerHalf

\* At the end of the stream the booster reads zeros, and never an END.
LEMMA ReadsPastEnd ==
  ASSUME ConversationInv, Receive, toBooster = <<>>
  PROVE  RequestHalf'
<1>1. Receiving /\ InvokerGone /\ UNCHANGED <<request, invoker, faults>>
  BY ReadsReceive
<1>2. ~Undisturbed' /\ InvokerGone'
  BY <1>1, GoneByFailure DEF ConversationInv, Undisturbed, InvokerGone, invoker
<1>3. Received = Zero /\ Received.kind = "number" /\ Received # Tag("NAME")
  <2>1. Received = Zero
    BY DEF Received
  <2>2. Zero.kind = "number" /\ Tag("NAME").kind = "NAME"
    BY DEF Zero, Number, Tag
  <2>3. Zero # Tag("NAME")
    BY <2>2
  <2> QED
    BY <2>1, <2>2, <2>3, Zenon
<1>4. toBooster' = <<>>
  BY DEF Receive, ReceiveMagic, ReceiveAppName, ReceiveAction, ReceiveCount, ReceiveSize,
         ReceiveText, ReceiveNumber, ReceiveIO, TakeItem
<1>5. at' \in {"magic", "name", "size", "text", "action", "count", "number", "fds", "refused"}
  <2>1. CASE ReceiveMagic \/ ReceiveAppName
    BY <1>3, <2>1 DEF ReceiveMagic, ReceiveAppName
  <2>2. CASE ReceiveAction
    BY <1>3, <2>2 DEF ReceiveAction, PlaceAfter
  <2>3. CASE ReceiveCount \/ ReceiveNumber \/ ReceiveIO
    BY <2>3 DEF ReceiveCount, ReceiveNumber, ReceiveIO
  <2>4. CASE ReceiveSize \/ ReceiveText
    BY <2>4 DEF ReceiveSize, ReceiveText, StringFails
  <2> QED
    BY <2>1, <2>2, <2>3, <2>4 DEF Receive
<1>6. CASE at' = "refused"
  BY <1>2, <1>6, RefusedWithCause
<1>7. CASE at' # "refused"
  <2>1. Receiving' /\ ReceiveInv'
    BY <1>2, <1>4, <1>5, <1>7 DEF Receiving, ReceiveInv
  <2> QED
    BY <2>1, <1>7 DEF RequestHalf, AcceptInv, RefusedForCause, Receiving, Accepted
<1> QED
  BY <1>6, <1>7

\* A tag is looked for where none is: a word that has lost its first byte,
LEMMA ReadsJunk ==
  ASSUME ConversationInv, Receive, at = "action", toBooster # <<>>,
         Head(toBooster) = Junk, ~Undisturbed
  PROVE  RequestHalf'
<1>1. ReceiveAction
  BY DEF Receive, ReceiveMagic, ReceiveAppName, ReceiveCount, ReceiveSize,
         ReceiveText, ReceiveNumber, ReceiveIO, BoosterReads
<1>2. Received.kind = "junk"
  BY DEF Received, Junk
<1>3. at' = "refused" /\ faults' = faults
  BY <1>1, <1>2 DEF ReceiveAction, PlaceAfter, TakeItem
<1> QED
  BY <1>3, RefusedWithCause DEF Undisturbed

\* or what is left of a string that was given up for its length.
LEMMA ReadsStray ==
  ASSUME ConversationInv, Receive, toBooster # <<>>,
         NEW whole \in BOOLEAN, Stream(whole), Strayed(whole)
  PROVE  RequestHalf'
<1> DEFINE item == Wire(request)[Items(whole) + 1]
<1>1. item.kind \in {"number", "text"} /\ at = "action" /\ ~WithinLimits(request)
  BY DEF Strayed
<1>2. Items(whole) + 1 # Hole
  <2>1. Wire(request)[Hole].kind = "fds"
    <3>1. request \in Requests
      BY DEF ConversationInv, TypeOK
    <3> QED
      BY <3>1, Stations DEF Descriptors
  <2>2. "fds" \notin {"number", "text"}
    OBVIOUS
  <2> QED
    BY <1>1, <2>1, <2>2, Zenon
<1>3. Head(toBooster) = item
  BY <1>2, NextItem DEF ConversationInv
<1>4. Received.kind \in {"number", "junk"}
  BY <1>1, <1>3 DEF Received, Junk
<1>5. ReceiveAction
  BY <1>1 DEF Receive, ReceiveMagic, ReceiveAppName, ReceiveCount, ReceiveSize,
              ReceiveText, ReceiveNumber, ReceiveIO, BoosterReads
<1>6. at' = "refused" /\ request' = request
  BY <1>4, <1>5 DEF ReceiveAction, PlaceAfter, TakeItem
<1> QED
  BY <1>1, <1>6, RefusedWithCause, PlacesStay

-----------------------------------------------------------------------------
(* What has been received.                                                 *)

\* No variable, no assignment;
LEMMA NoAssignments ==
  ASSUME NEW s
  PROVE  Assignments(s, 0, <<>>)
<1> DEFINE f == [k \in 1 .. 0 |-> 1]
<1>1. Len(<<>>) = 0 /\ 1 .. 0 = {}
  BY EmptySeq
<1>2. f \in [1 .. Len(<<>>) -> 1 .. 0]
  BY <1>1
<1>3. {f[k] : k \in 1 .. Len(<<>>)} = {k \in 1 .. 0 : s[k].assign}
  BY <1>1
<1> QED
  BY <1>1, <1>2, <1>3 DEF Assignments

\* one more that is none changes nothing,
LEMMA AssignmentDropped ==
  ASSUME NEW s, NEW n \in Nat, NEW g \in Seq(Text), Assignments(s, n, g), ~s[n + 1].assign
  PROVE  Assignments(s, n + 1, g)
<1>1. PICK f \in [1 .. Len(g) -> 1 .. n] :
        /\ \A j, k \in 1 .. Len(g) : j < k => f[j] < f[k]
        /\ \A k \in 1 .. Len(g) : g[k] = s[f[k]]
        /\ {f[k] : k \in 1 .. Len(g)} = {k \in 1 .. n : s[k].assign}
  BY DEF Assignments
<1>2. f \in [1 .. Len(g) -> 1 .. n + 1]
  OBVIOUS
<1>3. {k \in 1 .. n : s[k].assign} = {k \in 1 .. n + 1 : s[k].assign}
  <2>1. \A k : k \in 1 .. n + 1 <=> k \in 1 .. n \/ k = n + 1
    OBVIOUS
  <2> QED
    BY <2>1, Zenon
<1> QED
  BY <1>1, <1>2, <1>3 DEF Assignments

\* and one more that is one is added.
LEMMA AssignmentTaken ==
  ASSUME NEW s, NEW n \in Nat, NEW g \in Seq(Text), Assignments(s, n, g),
         s[n + 1].assign, s[n + 1] \in Text
  PROVE  Assignments(s, n + 1, Append(g, s[n + 1]))
<1> DEFINE l == Len(g)
           h == Append(g, s[n + 1])
<1>1. PICK f \in [1 .. l -> 1 .. n] :
        /\ \A j, k \in 1 .. l : j < k => f[j] < f[k]
        /\ \A k \in 1 .. l : g[k] = s[f[k]]
        /\ {f[k] : k \in 1 .. l} = {k \in 1 .. n : s[k].assign}
  BY DEF Assignments
<1>2. /\ l \in Nat /\ Len(h) = l + 1 /\ h[l + 1] = s[n + 1]
      /\ \A k \in 1 .. l : h[k] = g[k]
  BY AppendProperties
<1> DEFINE e == [k \in 1 .. l + 1 |-> IF k = l + 1 THEN n + 1 ELSE f[k]]
<1>3. \A k : k \in 1 .. l + 1 <=> k \in 1 .. l \/ k = l + 1
  BY <1>2
<1>4. \A k : k \in 1 .. n + 1 <=> k \in 1 .. n \/ k = n + 1
  OBVIOUS
<1>5. l + 1 \in 1 .. l + 1 /\ l + 1 \notin 1 .. l
  BY <1>2
<1>6. /\ e[l + 1] = n + 1
      /\ \A k \in 1 .. l : e[k] = f[k] /\ e[k] \in 1 .. n
  BY <1>3, <1>5
<1>7. e \in [1 .. l + 1 -> 1 .. n + 1]
  <2>1. \A k \in 1 .. l + 1 : e[k] \in 1 .. n + 1
    BY <1>3, <1>4, <1>6, Zenon
  <2>2. DOMAIN e = 1 .. l + 1
    OBVIOUS
  <2> QED
    BY <2>1
<1> HIDE DEF e
<1>8. ASSUME NEW j \in 1 .. l + 1, NEW k \in 1 .. l + 1, j < k
      PROVE  e[j] < e[k]
  <2>1. j \in 1 .. l
    BY <1>2, <1>8
  <2>2. CASE k = l + 1
    BY <1>6, <2>1, <2>2
  <2>3. CASE k \in 1 .. l
    BY <1>1, <1>6, <1>8, <2>1, <2>3
  <2> QED
    BY <1>3, <2>2, <2>3
<1>9. \A k \in 1 .. l + 1 : h[k] = s[e[k]]
  <2>1. \A k \in 1 .. l : h[k] = s[e[k]]
    BY <1>1, <1>2, <1>6, Zenon
  <2>2. h[l + 1] = s[e[l + 1]]
    BY <1>2, <1>6, Zenon
  <2> QED
    BY <1>3, <2>1, <2>2, Zenon
<1>10. {e[k] : k \in 1 .. l + 1} = {k \in 1 .. n + 1 : s[k].assign}
  <2>1. {e[k] : k \in 1 .. l + 1} = {f[k] : k \in 1 .. l} \cup {n + 1}
    BY <1>3, <1>6, Zenon
  <2>2. {k \in 1 .. n + 1 : s[k].assign} = {k \in 1 .. n : s[k].assign} \cup {n + 1}
    BY <1>4, Zenon
  <2> QED
    BY <1>1, <2>1, <2>2
<1> HIDE DEF h, l
<1>11. Assignments(s, n + 1, h)
  <2>1. Len(h) = l + 1
    BY <1>2
  <2>2. /\ e \in [1 .. Len(h) -> 1 .. n + 1]
        /\ \A j, k \in 1 .. Len(h) : j < k => e[j] < e[k]
        /\ \A k \in 1 .. Len(h) : h[k] = s[e[k]]
        /\ {e[k] : k \in 1 .. Len(h)} = {k \in 1 .. n + 1 : s[k].assign}
    BY <1>7, <1>8, <1>9, <1>10, <2>1, Zenon
  <2> QED
    BY <2>2, Zenon DEF Assignments
<1> QED
  BY <1>11 DEF h

\* The first n + 1 of a sequence.
LEMMA OneMore ==
  ASSUME NEW S, NEW s \in Seq(S), NEW n \in 0 .. Len(s) - 1
  PROVE  SubSeq(s, 1, n + 1) = Append(SubSeq(s, 1, n), s[n + 1])
<1> DEFINE a == SubSeq(s, 1, n)
           b == SubSeq(s, 1, n + 1)
<1>1. Len(s) \in Nat /\ n \in Nat /\ n + 1 \in 1 .. Len(s) /\ s[n + 1] \in S
  OBVIOUS
<1>2. a \in Seq(S) /\ Len(a) = n /\ \A k \in 1 .. n : a[k] = s[k]
  BY <1>1, SubSeqProperties
<1>3. b \in Seq(S) /\ Len(b) = n + 1 /\ \A k \in 1 .. n + 1 : b[k] = s[k]
  BY <1>1, SubSeqProperties
<1> HIDE DEF a, b
<1>4. /\ Append(a, s[n + 1]) \in Seq(S) /\ Len(Append(a, s[n + 1])) = n + 1
      /\ \A k \in 1 .. n + 1 : Append(a, s[n + 1])[k] = s[k]
  BY <1>1, <1>2, AppendProperties
<1>5. b = Append(a, s[n + 1])
  BY <1>3, <1>4, SeqEqual
<1> QED
  BY <1>5 DEF a, b

\* The last: all of it.
LEMMA AllOfIt ==
  ASSUME NEW S, NEW s \in Seq(S)
  PROVE  SubSeq(s, 1, Len(s)) = s /\ SubSeq(s, 1, 0) = <<>>
<1>1. Len(s) \in Nat
  OBVIOUS
<1>2. SubSeq(s, 1, Len(s)) = s
  <2>1. /\ SubSeq(s, 1, Len(s)) \in Seq(S) /\ Len(SubSeq(s, 1, Len(s))) = Len(s)
        /\ \A k \in 1 .. Len(s) : SubSeq(s, 1, Len(s))[k] = s[k]
    BY <1>1, SubSeqProperties
  <2> QED
    BY <2>1, SeqEqual
<1>3. SubSeq(s, 1, 0) = <<>>
  BY <1>1, SubSeqProperties, EmptySeq
<1> QED
  BY <1>2, <1>3

-----------------------------------------------------------------------------
(* Reads that find what they are for.                                      *)

\* The tag behind everything that is sent with tag t.
Behind(t) ==
  CASE t = "NAME" -> "EXEC" [] t = "EXEC" -> "ARGS" [] t = "ARGS" -> "PRIO"
    [] t = "PRIO" -> "DELAY" [] t = "DELAY" -> "IDS" [] t = "IDS" -> "IO"
    [] t = "IO" -> "ENV" [] t = "ENV" -> "END"

LEMMA TagsInOrder ==
  ASSUME request \in Requests, NEW t \in Tags
  PROVE  /\ Behind(t) \in (Tags \ {"NAME"}) \cup {"END"}
         /\ t \in Strs => Start(Behind(t)) = First(t) + 2 * Len(request[t])
         /\ t \in Nums => Start(Behind(t)) = First(t) + Len(request[t])
         /\ t = "IO" => Start(Behind(t)) = Hole + 1
         /\ First(t) \in Nat /\ Start(t) \in Nat /\ First(t) > Start(t)
         /\ t \in {"ARGS", "ENV"} => First(t) = Start(t) + 2
         /\ t \notin {"ARGS", "ENV"} => First(t) = Start(t) + 1
         /\ \A u \in Tags : Start(u) < Start(Behind(t)) => u = t \/ Start(u) < Start(t)
<1> DEFINE n == Len(request.ARGS)
           m == Len(request.ENV)
<1>1. /\ n \in Nat \ {0} /\ m \in Nat \ {0}
      /\ Len(request.NAME) = 1 /\ Len(request.EXEC) = 1 /\ Len(request.PRIO) = 1
      /\ Len(request.DELAY) = 1 /\ Len(request.IDS) = 2
  BY RequestParts DEF Strs
<1>2. /\ Start("NAME") = 2 /\ Start("EXEC") = 5 /\ Start("ARGS") = 8
      /\ Start("PRIO") = 10 + 2 * n /\ Start("DELAY") = 12 + 2 * n /\ Start("IDS") = 14 + 2 * n
      /\ Start("IO") = 17 + 2 * n /\ Start("ENV") = 19 + 2 * n /\ Start("END") = 21 + 2 * n + 2 * m
  BY DEF Start
<1>3. /\ Behind("NAME") = "EXEC" /\ Behind("EXEC") = "ARGS" /\ Behind("ARGS") = "PRIO"
      /\ Behind("PRIO") = "DELAY" /\ Behind("DELAY") = "IDS" /\ Behind("IDS") = "IO"
      /\ Behind("IO") = "ENV" /\ Behind("ENV") = "END"
  BY DEF Behind
<1>4. /\ t \in {"ARGS", "ENV"} => First(t) = Start(t) + 2
      /\ t \notin {"ARGS", "ENV"} => First(t) = Start(t) + 1
  BY Zenon DEF First
<1> HIDE DEF n, m
<1>5. Start(t) \in Nat
  BY <1>1, <1>2 DEF Tags, Strs, Nums
<1>6. First(t) \in Nat /\ First(t) > Start(t)
  BY <1>4, <1>5
<1>7. Behind(t) \in (Tags \ {"NAME"}) \cup {"END"}
  BY <1>3 DEF Tags, Strs, Nums
<1>8. t \in Strs => Start(Behind(t)) = First(t) + 2 * Len(request[t])
  <2>1. CASE t = "NAME"
    <3>1. First(t) = 2 + 1 /\ Start(Behind(t)) = 5
      BY <1>2, <1>3, <1>4, <2>1
    <3>2. Len(request[t]) = 1
      BY <1>1, <2>1, Zenon
    <3> QED
      BY <1>1, <3>1, <3>2
  <2>2. CASE t = "EXEC"
    <3>1. First(t) = 5 + 1 /\ Start(Behind(t)) = 8
      BY <1>2, <1>3, <1>4, <2>2
    <3>2. Len(request[t]) = 1
      BY <1>1, <2>2, Zenon
    <3> QED
      BY <1>1, <3>1, <3>2
  <2>3. CASE t = "ARGS"
    <3>1. First(t) = 10 /\ Start(Behind(t)) = 10 + 2 * n
      BY <1>2, <1>3, <1>4, <2>3
    <3> QED
      BY <2>3, <3>1 DEF n
  <2>4. CASE t = "ENV"
    <3>1. First(t) = 19 + 2 * n + 2 /\ Start(Behind(t)) = 21 + 2 * n + 2 * m
      BY <1>2, <1>3, <1>4, <2>4
    <3>2. Start(Behind(t)) = First(t) + 2 * m
      BY <1>1, <3>1
    <3> QED
      BY <2>4, <3>2 DEF m
  <2> QED
    BY <2>1, <2>2, <2>3, <2>4 DEF Strs
<1>9. t \in Nums => Start(Behind(t)) = First(t) + Len(request[t])
  <2>1. CASE t = "PRIO"
    <3>1. First(t) = 10 + 2 * n + 1 /\ Start(Behind(t)) = 12 + 2 * n
      BY <1>2, <1>3, <1>4, <2>1
    <3>2. Len(request[t]) = 1
      BY <1>1, <2>1, Zenon
    <3> QED
      BY <1>1, <3>1, <3>2
  <2>2. CASE t = "DELAY"
    <3>1. First(t) = 12 + 2 * n + 1 /\ Start(Behind(t)) = 14 + 2 * n
      BY <1>2, <1>3, <1>4, <2>2
    <3>2. Len(request[t]) = 1
      BY <1>1, <2>2, Zenon
    <3> QED
      BY <1>1, <3>1, <3>2
  <2>3. CASE t = "IDS"
    <3>1. First(t) = 14 + 2 * n + 1 /\ Start(Behind(t)) = 17 + 2 * n
      BY <1>2, <1>3, <1>4, <2>3
    <3>2. Len(request[t]) = 2
      BY <1>1, <2>3, Zenon
    <3> QED
      BY <1>1, <3>1, <3>2
  <2> QED
    BY <2>1, <2>2, <2>3 DEF Nums
<1>10. t = "IO" => Start(Behind(t)) = Hole + 1
  BY <1>1, <1>2, <1>3 DEF Hole
<1>11. ASSUME NEW u \in Tags, Start(u) < Start(Behind(t))
       PROVE  u = t \/ Start(u) < Start(t)
  BY <1>1, <1>2, <1>3, <1>11 DEF Tags, Strs, Nums
<1> QED
  BY <1>4, <1>5, <1>6, <1>7, <1>8, <1>9, <1>10, <1>11

\* What has been received under one tag stays when the next comes.
LEMMA WholeStays ==
  ASSUME NEW u \in Tags, Whole(u), request' = request, got'[u] = got[u],
         ~Undisturbed => ~Undisturbed'
  PROVE  Whole(u)'
BY DEF Whole

LEMMA BeforeStays ==
  ASSUME NEW t, NEW v, Before(t), request' = request, ~Undisturbed => ~Undisturbed',
         \A u \in Tags \ {v} : got'[u] = got[u], ~(Start(v) < Start(t))
  PROVE  Before(t)'
<1>1. \A u : Start(u)' = Start(u)
  BY PlacesStay
<1>2. ASSUME NEW u \in Tags, Start(u) < Start(t)
      PROVE  Whole(u)'
  BY <1>2, WholeStays DEF Before
<1> QED
  BY <1>1, <1>2 DEF Before

\* With one more tag complete, all before the next one is.
LEMMA BeforeNext ==
  ASSUME NEW t \in Tags, request \in Requests, Before(t), Whole(t)',
         request' = request, ~Undisturbed => ~Undisturbed',
         \A u \in Tags \ {t} : got'[u] = got[u]
  PROVE  Before(Behind(t))'
<1>1. \A u : Start(u)' = Start(u)
  BY PlacesStay
<1>2. ASSUME NEW u \in Tags, Start(u) < Start(Behind(t))
      PROVE  Whole(u)'
  <2>1. CASE u = t
    BY <2>1
  <2>2. CASE u # t
    <3>1. Start(u) < Start(t)
      BY <1>2, <2>2, TagsInOrder
    <3>2. Whole(u)
      BY <3>1 DEF Before
    <3> QED
      BY <2>2, <3>2, WholeStays
  <2> QED
    BY <2>1, <2>2
<1> QED
  BY <1>1, <1>2 DEF Before

\* A read of the next item.
LEMMA TakesNext ==
  ASSUME TypeOK, NEW whole \in BOOLEAN, Stream(whole), toBooster # <<>>, TakeItem,
         Wire(request)[Items(whole) + 1] # Descriptors
  PROVE  /\ Head(toBooster) = Wire(request)[Items(whole) + 1]
         /\ Stream(whole)' /\ Items(whole)' = Items(whole) + 1
         /\ Items(whole) \in Nat /\ Items(whole) + 1 \in 1 .. Len(Wire(request))
         /\ request \in Requests /\ request' = request
         /\ (~Undisturbed => ~Undisturbed') /\ WithinLimits(request)' = WithinLimits(request)
<1>1. request \in Requests
  BY DEF TypeOK
<1>2. Items(whole) + 1 # Hole
  BY <1>1, Stations
<1>3. /\ request' = request /\ sent' = sent /\ toBooster' = Tail(toBooster)
      /\ (~Undisturbed => ~Undisturbed')
  BY DEF TakeItem, invoker, Undisturbed
<1>4. /\ Head(toBooster) = Wire(request)[Items(whole) + 1]
      /\ Items(whole) \in Nat /\ Items(whole) + 1 \in 1 .. Len(Wire(request))
  BY <1>2, NextItem
<1>5. Stream(whole)' /\ Items(whole)' = Items(whole) + 1
  BY <1>2, <1>3, StreamMoves
<1> QED
  BY <1>1, <1>3, <1>4, <1>5, PlacesStay

\* What the words are read as.
LEMMA WordsRead ==
  ASSUME toBooster # <<>>
  PROVE  /\ \A r : Head(toBooster) = Magic(r) => Received = Magic(r)
         /\ \A t \in Tags \cup {"END"} : Head(toBooster) = Tag(t) => Received = Tag(t)
         /\ \A n : Head(toBooster) = Number(n) => Received = Number(n)
<1>1. /\ \A r : Magic(r).kind = "MAGIC"
      /\ \A t : Tag(t).kind = t
      /\ \A n : Number(n).kind = "number"
  BY DEF Magic, Tag, Number
<1>2. \A t \in Tags \cup {"END"} : t \notin {"text", "fds"}
  BY DEF Tags, Strs, Nums
<1>3. Head(toBooster).kind \notin {"text", "fds"} => Received = Head(toBooster)
  BY DEF Received
<1> QED
  BY <1>1, <1>2, <1>3

\* receiveMagic() and receiveAppName(): the magic word is the request's, the
\* name comes next.
LEMMA MagicInStep ==
  ASSUME TypeOK, NEW whole \in BOOLEAN, Stream(whole), AtTag(whole), toBooster # <<>>,
         ReceiveMagic
  PROVE  RequestHalf'
<1>1. at = "magic" /\ TakeItem
  BY DEF ReceiveMagic, BoosterReads
<1>2. Items(whole) = 0 /\ got["NAME"] = <<>>
  BY <1>1 DEF AtTag
<1>3. Wire(request)[Items(whole) + 1] = Magic(request)
  <2>1. request \in Requests
    BY DEF TypeOK
  <2>2. Items(whole) + 1 = 1
    BY <1>2
  <2> QED
    BY <2>1, <2>2, Stations
<1>4. /\ Head(toBooster) = Magic(request) /\ Stream(whole)' /\ Items(whole)' = Items(whole) + 1
      /\ request' = request /\ WithinLimits(request)' = WithinLimits(request)
  BY <1>1, <1>3, TakesNext, OtherItems
<1>5. /\ Received.kind = "MAGIC" /\ Received.version = request.version
      /\ Received.wait = request.wait
  <2>1. Received = Magic(request)
    BY <1>4, WordsRead
  <2> QED
    BY <2>1 DEF Magic
<1>6. CASE request.version
  <2>1. at' = "name" /\ wait' = request.wait /\ got' = got
    BY <1>5, <1>6 DEF ReceiveMagic
  <2>2. AtTag(whole)' /\ Receiving'
    BY <1>2, <1>4, <2>1 DEF AtTag, Receiving
  <2> QED
    BY <1>4, <2>2, StillInStep
<1>7. CASE ~request.version
  <2>1. at' = "refused"
    BY <1>5, <1>7 DEF ReceiveMagic
  <2>2. ~WithinLimits(request)'
    BY <1>4, <1>7 DEF WithinLimits
  <2> QED
    BY <2>1, <2>2, RefusedWithCause
<1> QED
  BY <1>6, <1>7

LEMMA NameInStep ==
  ASSUME TypeOK, NEW whole \in BOOLEAN, Stream(whole), AtTag(whole), toBooster # <<>>,
         ReceiveAppName
  PROVE  RequestHalf'
<1>1. at = "name" /\ TakeItem
  BY DEF ReceiveAppName, BoosterReads
<1>2. Items(whole) = 1 /\ got["NAME"] = <<>> /\ wait = request.wait
  BY <1>1 DEF AtTag
<1>3. request \in Requests /\ "NAME" \in Tags
  BY DEF TypeOK, Tags, Strs
<1>4. Start("NAME") = 2
  BY DEF Start
<1>5. Wire(request)[Items(whole) + 1] = Tag("NAME")
  <2>1. Items(whole) + 1 = Start("NAME")
    BY <1>2, <1>4
  <2> QED
    BY <1>3, <2>1, Stations
<1>6. /\ Head(toBooster) = Tag("NAME") /\ Stream(whole)' /\ Items(whole)' = 2
      /\ request' = request
  BY <1>1, <1>2, <1>3, <1>5, TakesNext, OtherItems
<1>7. Received = Tag("NAME")
  BY <1>3, <1>6, WordsRead
<1>8. at' = "size" /\ into' = "NAME" /\ left' = 1 /\ wait' = wait /\ got' = got
  BY <1>7 DEF ReceiveAppName
<1>9. First("NAME") = 3 /\ Len(request["NAME"]) = 1
  BY <1>3, <1>4, RequestParts DEF First
<1>10. Part("NAME")' /\ Taken("NAME")' = 0
  <2>1. Taken("NAME")' = 0
    BY <1>6, <1>8, <1>9 DEF Taken
  <2>2. request["NAME"] \in Seq(Text)
    BY <1>3, RequestParts DEF Strs
  <2>3. SubSeq(request["NAME"], 1, 0) = <<>>
    BY <2>2, AllOfIt
  <2>4. got'["NAME"] = SubSeq(request'["NAME"], 1, Taken("NAME")')
    BY <1>2, <1>6, <1>8, <2>1, <2>3, Zenon
  <2>5. left' <= Len(request'["NAME"])
    BY <1>6, <1>8, <1>9
  <2> QED
    BY <2>1, <2>4, <2>5 DEF Part
<1>11. Before("NAME")'
  <2>1. \A u \in Tags : ~(Start(u) < 2)
    <3>1. \A u \in Tags : Start(u) \in 2 .. Len(Wire(request))
      BY <1>3, Stations
    <3> QED
      BY <3>1
  <2>2. \A u : Start(u)' = Start(u)
    BY <1>6, PlacesStay
  <2> QED
    BY <1>4, <2>1, <2>2 DEF Before
<1>12. First("NAME")' = 3
  BY <1>6, <1>9, PlacesStay
<1>13. Under("NAME", whole)' /\ Receiving'
  BY <1>2, <1>6, <1>8, <1>10, <1>11, <1>12 DEF Under, Strs, Receiving
<1> QED
  BY <1>3, <1>6, <1>13, StillInStep

\* Under a tag that is sent without a count nothing has been taken yet.
LEMMA NothingTaken ==
  ASSUME request \in Requests, request' = request, NEW t \in Strs \cup Nums, t # "ENV",
         left' = Len(request[t]), got'[t] = <<>>
  PROVE  Part(t)' /\ Taken(t)' = 0
<1>1. Len(request[t]) \in Nat
  BY RequestParts
<1>2. Taken(t)' = 0
  BY <1>1 DEF Taken
<1>3. SubSeq(request[t], 1, 0) = <<>>
  <2>1. CASE t \in Strs
    <3>1. request[t] \in Seq(Text)
      BY <2>1, RequestParts
    <3> QED
      BY <3>1, AllOfIt
  <2>2. CASE t \in Nums
    <3>1. request[t] \in Seq(Nat)
      BY <2>2, RequestParts
    <3> QED
      BY <3>1, AllOfIt
  <2> QED
    BY <2>1, <2>2
<1>4. got'[t] = SubSeq(request'[t], 1, Taken(t)')
  BY <1>2, <1>3, Zenon
<1>5. left' <= Len(request'[t])
  BY <1>1
<1> QED
  BY <1>2, <1>4, <1>5 DEF Part

\* receiveActions(): the tag of what comes next, or the end, with everything
\* received and the stream empty.
LEMMA EndInStep ==
  ASSUME TypeOK, NEW whole \in BOOLEAN, Stream(whole), AtTag(whole), toBooster # <<>>,
         ReceiveAction, Items(whole) = Start("END") - 1, Before("END")
  PROVE  RequestHalf'
<1>1. at = "action" /\ TakeItem
  BY DEF ReceiveAction, BoosterReads
<1>2. wait = request.wait
  BY <1>1 DEF AtTag
<1>3. request \in Requests
  BY DEF TypeOK
<1>4. /\ Start("END") \in Nat /\ Start("END") = Len(Wire(request))
      /\ Wire(request)[Start("END")] = Tag("END")
  BY <1>3, Stations
<1>5. Wire(request)[Items(whole) + 1] = Tag("END")
  <2>1. Items(whole) + 1 = Start("END")
    BY <1>4
  <2> QED
    BY <1>4, <2>1
<1>6. /\ Head(toBooster) = Tag("END") /\ request' = request
      /\ (~Undisturbed => ~Undisturbed')
  BY <1>1, <1>5, TakesNext, OtherItems
<1>7. Received.kind = "END"
  BY <1>6, WordsRead DEF Tag
<1>8. at' = "ack" /\ UNCHANGED <<sent, got, wait>>
  BY <1>1, <1>7 DEF ReceiveAction, PlaceAfter, TakeItem, Tags, Strs, Nums, invoker
<1>9. sent = Len(Wire(request))
  <2>1. Items(whole) + Len(toBooster) + (IF whole THEN 0 ELSE 1) <= Len(Wire(request))
    BY NextItem
  <2>2. Len(toBooster) \in Nat \ {0}
    <3>1. toBooster \in Seq(Item)
      BY DEF TypeOK
    <3> QED
      BY <3>1, EmptySeq
  <2>3. sent \in 0 .. Len(Wire(request))
    BY DEF TypeOK
  <2>4. Items(whole) = sent - Len(toBooster) - (IF whole THEN 0 ELSE 1)
    BY DEF Items
  <2> HIDE DEF Items
  <2>5. Len(Wire(request)) \in Nat
    BY <1>4
  <2> QED
    BY <1>4, <2>1, <2>2, <2>3, <2>4, <2>5
<1>10. ASSUME NEW u \in Tags
       PROVE  Whole(u)'
  <2>1. Start(u) # Start("END")
    <3>1. Wire(request)[Start(u)] = Tag(u) /\ u # "END"
      BY <1>3, Stations DEF Tags, Strs, Nums
    <3>2. Tag(u).kind = u /\ Tag("END").kind = "END"
      BY DEF Tag
    <3> QED
      BY <1>4, <3>1, <3>2
  <2>2. Start(u) \in 2 .. Start("END")
    BY <1>3, <1>4, Stations
  <2>3. Start(u) < Start("END")
    BY <1>4, <2>1, <2>2
  <2>4. Whole(u)
    BY <2>3 DEF Before
  <2> QED
    BY <1>6, <1>8, <2>4, WholeStays
<1>11. AcceptInv'
  BY <1>2, <1>6, <1>8, <1>9, <1>10 DEF AcceptInv
<1>12. ReceiveInv' /\ RefusedForCause'
  BY <1>8 DEF ReceiveInv, Receiving, RefusedForCause
<1> QED
  BY <1>11, <1>12 DEF RequestHalf

LEMMA ActionInStep ==
  ASSUME TypeOK, NEW whole \in BOOLEAN, Stream(whole), AtTag(whole), toBooster # <<>>,
         ReceiveAction
  PROVE  RequestHalf'
<1>1. at = "action" /\ TakeItem
  BY DEF ReceiveAction, BoosterReads
<1>2. wait = request.wait
  BY <1>1 DEF AtTag
<1>3. PICK t \in (Tags \ {"NAME"}) \cup {"END"} : Items(whole) = Start(t) - 1 /\ Before(t)
  BY <1>1 DEF AtTag
<1>4. CASE t = "END"
  BY <1>3, <1>4, EndInStep
<1>5. CASE t # "END"
  <2>1. t \in Tags \ {"NAME"} /\ request \in Requests
    BY <1>5 DEF TypeOK
  <2>2. Start(t) \in Nat /\ Wire(request)[Start(t)] = Tag(t)
    BY <2>1, Stations
  <2>3. Wire(request)[Items(whole) + 1] = Tag(t)
    <3>1. Items(whole) + 1 = Start(t)
      BY <1>3, <2>2
    <3> QED
      BY <2>2, <3>1
  <2>4. /\ Head(toBooster) = Tag(t) /\ Stream(whole)' /\ Items(whole)' = Items(whole) + 1
        /\ request' = request /\ (~Undisturbed => ~Undisturbed')
    BY <1>1, <2>1, <2>3, TakesNext, OtherItems
  <2>5. Items(whole)' = Start(t)
    BY <1>3, <2>2, <2>4
  <2>6. Received.kind = t
    BY <2>1, <2>4, WordsRead DEF Tag
  <2>7. /\ at' = PlaceAfter(t) /\ into' = t /\ left' = IF t = "IDS" THEN 2 ELSE 1
        /\ got' = [got EXCEPT ![t] = <<>>] /\ wait' = wait
    BY <2>1, <2>6 DEF ReceiveAction
  <2>8. got'[t] = <<>> /\ \A u \in Tags \ {t} : got'[u] = got[u]
    BY <2>1, <2>7 DEF TypeOK
  <2>9. \A u : Start(u)' = Start(u) /\ First(u)' = First(u)
    BY <2>4, PlacesStay
  <2>10. Before(t)'
    BY <1>3, <2>2, <2>4, <2>8, BeforeStays
  <2>11. /\ First(t) \in Nat
         /\ t \notin {"ARGS", "ENV"} => First(t) = Start(t) + 1
    BY <2>1, TagsInOrder
  <2>12. Under(t, whole)' /\ Receiving'
    <3>1. CASE t \in {"ARGS", "ENV"}
      <4>1. at' = "count"
        BY <2>7, <3>1 DEF PlaceAfter
      <4> QED
        BY <1>2, <2>4, <2>5, <2>7, <2>8, <2>9, <2>10, <3>1, <4>1 DEF Under, Receiving
    <3>2. CASE t = "IO"
      <4>1. at' = "fds"
        BY <2>7, <3>2 DEF PlaceAfter
      <4> QED
        BY <1>2, <2>4, <2>5, <2>7, <2>8, <2>9, <2>10, <3>2, <4>1 DEF Under, Receiving
    <3>3. CASE t = "EXEC"
      <4>1. at' = "size" /\ t \in Strs /\ left' = 1
        BY <2>7, <3>3 DEF PlaceAfter, Strs
      <4>2. Part(t)' /\ Taken(t)' = 0
        BY <2>1, <2>4, <2>8, <3>3, <4>1, RequestParts, NothingTaken
      <4>3. Items(whole)' = First(t)' + 2 * Taken(t)' - 1
        BY <2>2, <2>5, <2>9, <2>11, <3>3, <4>2
      <4> QED
        BY <1>2, <2>4, <2>7, <2>10, <4>1, <4>2, <4>3 DEF Under, Receiving
    <3>4. CASE t \in Nums
      <4>1. at' = "number" /\ t # "ENV" /\ t \notin {"ARGS", "ENV"}
        BY <2>7, <3>4 DEF PlaceAfter, Nums
      <4>2. left' = Len(request[t])
        BY <2>1, <2>7, <3>4, RequestParts DEF Nums
      <4>3. Part(t)' /\ Taken(t)' = 0
        BY <2>1, <2>4, <2>8, <3>4, <4>1, <4>2, NothingTaken
      <4>4. Items(whole)' = First(t)' + Taken(t)' - 1
        BY <2>2, <2>5, <2>9, <2>11, <4>1, <4>3
      <4> QED
        BY <1>2, <2>4, <2>7, <2>10, <3>4, <4>1, <4>3, <4>4 DEF Under, Receiving
    <3> QED
      BY <2>1, <3>1, <3>2, <3>3, <3>4 DEF Tags, Strs, Nums
  <2> QED
    BY <2>1, <2>4, <2>12, StillInStep
<1> QED
  BY <1>4, <1>5

\* receiveArgs() and receiveEnv(): the count is what follows, or beyond the
\* limit.
LEMMA EmptyPart ==
  ASSUME request \in Requests, request' = request, NEW t \in {"ARGS", "ENV"},
         left' = Len(request[t]), got'[t] = <<>>
  PROVE  Part(t)' /\ Taken(t)' = 0
<1>1. CASE t = "ARGS"
  BY <1>1, NothingTaken DEF Strs
<1>2. CASE t = "ENV"
  <2>1. Len(request[t]) \in Nat
    BY <1>2, RequestParts DEF Strs
  <2>2. Taken(t)' = 0
    BY <2>1 DEF Taken
  <2>3. Assignments(request.ENV, 0, <<>>)
    BY NoAssignments
  <2>4. Assignments(request'.ENV, Taken(t)', got'["ENV"])
    BY <1>2, <2>2, <2>3, Zenon
  <2>5. left' <= Len(request'[t])
    BY <2>1
  <2> QED
    BY <1>2, <2>2, <2>4, <2>5 DEF Part
<1> QED
  BY <1>1, <1>2

\* Every string is followed by something.
LEMMA StringsInside ==
  ASSUME request \in Requests, NEW t \in Strs, NEW i \in 1 .. Len(request[t])
  PROVE  First(t) + 2 * i <= Len(Wire(request)) /\ First(t) \in Nat /\ i \in Nat
<1>1. t \in Tags /\ Len(request[t]) \in Nat
  BY RequestParts DEF Tags
<1>2. /\ Start(Behind(t)) = First(t) + 2 * Len(request[t]) /\ First(t) \in Nat
      /\ Behind(t) \in Tags \cup {"END"}
  BY <1>1, TagsInOrder
<1>3. Start(Behind(t)) \in 2 .. Len(Wire(request)) /\ Len(Wire(request)) \in Nat
  BY <1>2, Stations
<1> QED
  BY <1>1, <1>2, <1>3

LEMMA CountInStep ==
  ASSUME TypeOK, NEW whole \in BOOLEAN, Stream(whole), NEW t \in Tags, Under(t, whole),
         toBooster # <<>>, ReceiveCount
  PROVE  RequestHalf'
<1> DEFINE n == Len(request[t])
           limit == IF t = "ARGS" THEN ArgMax ELSE MaxVars
<1>1. at = "count" /\ TakeItem
  BY DEF ReceiveCount, BoosterReads
<1>2. /\ t \in {"ARGS", "ENV"} /\ Items(whole) = Start(t) /\ got[t] = <<>>
      /\ into = t /\ wait = request.wait /\ Before(t)
  BY <1>1 DEF Under
<1>3. request \in Requests
  BY DEF TypeOK
<1>4. n \in Nat \ {0} /\ t \in Strs
  BY <1>2, <1>3, RequestParts DEF Strs
<1>5. limit \in Nat
  BY ProtocolAssumption
<1>6. First(t) = Start(t) + 2 /\ Start(t) \in Nat
  BY <1>2, <1>3, TagsInOrder
<1>7. Wire(request)[Items(whole) + 1] = Number(n)
  <2>1. Wire(request)[Start(t) + 1] = Number(n)
    BY <1>2, <1>3, Stations
  <2> QED
    BY <1>2, <2>1
<1>8. /\ Head(toBooster) = Number(n) /\ Stream(whole)' /\ Items(whole)' = Items(whole) + 1
      /\ request' = request /\ (~Undisturbed => ~Undisturbed')
      /\ WithinLimits(request)' = WithinLimits(request)
  BY <1>1, <1>7, TakesNext, OtherItems
<1>9. Received.kind = "number" /\ Received.val = n
  <2>1. Received = Number(n)
    BY <1>8, WordsRead
  <2> QED
    BY <2>1 DEF Number
<1>10. /\ IF n \in 1 .. limit - 1 THEN at' = "size" /\ left' = n ELSE at' = "action"
       /\ UNCHANGED <<into, wait, got>>
  BY <1>2, <1>9 DEF ReceiveCount, InRange
<1> HIDE DEF limit
<1>11. CASE n \in 1 .. limit - 1
  <2>1. at' = "size" /\ left' = n
    BY <1>10, <1>11
  <2>2. Part(t)' /\ Taken(t)' = 0
    BY <1>2, <1>3, <1>8, <1>10, <2>1, EmptyPart
  <2>3. Before(t)'
    BY <1>2, <1>6, <1>8, <1>10, BeforeStays
  <2>4. Items(whole)' = First(t)' + 2 * Taken(t)' - 1
    BY <1>2, <1>6, <1>8, <2>2, PlacesStay
  <2>5. Under(t, whole)' /\ Receiving'
    BY <1>2, <1>4, <1>8, <1>10, <2>1, <2>2, <2>3, <2>4 DEF Under, Receiving
  <2> QED
    BY <1>8, <2>5, StillInStep
<1>12. CASE n \notin 1 .. limit - 1
  <2>1. at' = "action"
    BY <1>10, <1>12
  <2>2. ~(n < limit)
    BY <1>4, <1>5, <1>12
  <2>3. ~WithinLimits(request)
    BY <1>2, <2>2 DEF WithinLimits, limit
  <2>4. 1 \in 1 .. n
    BY <1>4
  <2>5. Items(whole)' + 1 = First(t) + 2 * 1 - 2 /\ Items(whole)' < First(t) + 2 * 1
    BY <1>2, <1>6, <1>8
  <2>6. First(t) + 2 * 1 <= Len(Wire(request)) /\ First(t) \in Nat /\ Len(Wire(request)) \in Nat
    BY <1>3, <1>4, <2>4, StringsInside, Stations
  <2>7. Items(whole)' < Len(Wire(request))
    BY <1>2, <1>6, <1>8, <2>5, <2>6
  <2>8. Wire(request)[Items(whole)' + 1] = Number(request[t][1].size)
    BY <1>3, <1>4, <2>4, <2>5, Stations
  <2>9. Wire(request)[Items(whole)' + 1].kind = "number"
    BY <2>8 DEF Number
  <2>10. Strayed(whole)' /\ Receiving'
    BY <1>8, <2>1, <2>3, <2>7, <2>9 DEF Strayed, Receiving
  <2> QED
    BY <1>8, <2>10, StillInStep
<1> QED
  BY <1>11, <1>12

\* recvStr(): the size is the next string's, and so is the text.
LEMMA SizeInStep ==
  ASSUME TypeOK, NEW whole \in BOOLEAN, Stream(whole), NEW t \in Tags, Under(t, whole),
         toBooster # <<>>, ReceiveSize
  PROVE  RequestHalf'
<1> DEFINE i == Taken(t) + 1
           size == request[t][i].size
<1>1. at = "size" /\ TakeItem
  BY DEF ReceiveSize, BoosterReads
<1>2. /\ t \in Strs /\ Items(whole) = First(t) + 2 * Taken(t) - 1 /\ Part(t)
      /\ into = t /\ wait = request.wait /\ Before(t)
  BY <1>1 DEF Under
<1>3. request \in Requests /\ left \in Nat \ {0}
  BY DEF TypeOK
<1>4. Len(request[t]) \in Nat /\ request[t] \in Seq(Text)
  BY <1>2, <1>3, RequestParts
<1>5. i \in 1 .. Len(request[t]) /\ Taken(t) \in Nat
  <2>1. Taken(t) = Len(request[t]) - left /\ left <= Len(request[t])
    BY <1>2 DEF Taken, Part
  <2> QED
    BY <1>3, <1>4, <2>1
<1>6. First(t) + 2 * i <= Len(Wire(request)) /\ First(t) \in Nat /\ Len(Wire(request)) \in Nat
  BY <1>2, <1>3, <1>5, StringsInside, Stations
<1>7. Wire(request)[Items(whole) + 1] = Number(size)
  <2>1. Items(whole) + 1 = First(t) + 2 * i - 2
    BY <1>2, <1>5, <1>6
  <2>2. Wire(request)[First(t) + 2 * i - 2] = Number(size)
    BY <1>2, <1>3, <1>5, Stations
  <2> QED
    BY <2>1, <2>2
<1>8. size \in Nat \ {0}
  <2>1. request[t][i] \in Text
    BY <1>4, <1>5
  <2> QED
    BY <2>1 DEF Text
<1>9. /\ Head(toBooster) = Number(size) /\ Stream(whole)' /\ Items(whole)' = Items(whole) + 1
      /\ request' = request /\ (~Undisturbed => ~Undisturbed')
      /\ WithinLimits(request)' = WithinLimits(request)
  BY <1>1, <1>7, TakesNext, OtherItems
<1>10. Received.kind = "number" /\ Received.val = size
  <2>1. Received = Number(size)
    BY <1>9, WordsRead
  <2> QED
    BY <2>1 DEF Number
<1>11. /\ at' = IF size \in 1 .. StrLenMax THEN "text" ELSE IF t = "NAME" THEN "refused" ELSE "action"
       /\ UNCHANGED <<into, left, wait, got>>
  BY <1>2, <1>10 DEF ReceiveSize, InRange, StringFails
<1>12. CASE size \in 1 .. StrLenMax
  <2>1. at' = "text"
    BY <1>11, <1>12
  <2>2. Taken(t)' = Taken(t) /\ Part(t)'
    BY <1>2, <1>9, <1>11 DEF Taken, Part
  <2>3. Before(t)'
    BY <1>3, <1>2, <1>9, <1>11, BeforeStays, TagsInOrder
  <2>4. Items(whole)' = First(t)' + 2 * Taken(t)'
    BY <1>2, <1>5, <1>6, <1>9, <2>2, PlacesStay
  <2>5. Under(t, whole)' /\ Receiving'
    BY <1>2, <1>9, <1>11, <2>1, <2>2, <2>3, <2>4 DEF Under, Receiving
  <2> QED
    BY <1>9, <2>5, StillInStep
<1>13. CASE size \notin 1 .. StrLenMax
  <2>1. ~(size <= StrLenMax)
    BY <1>8, <1>13, ProtocolAssumption
  <2>2. ~WithinLimits(request)
    BY <1>2, <1>5, <2>1 DEF WithinLimits
  <2>3. CASE t = "NAME"
    <3>1. at' = "refused"
      BY <1>11, <1>13, <2>3
    <3> QED
      BY <1>9, <2>2, <3>1, RefusedWithCause
  <2>4. CASE t # "NAME"
    <3>1. at' = "action"
      BY <1>11, <1>13, <2>4
    <3>2. Items(whole)' + 1 = First(t) + 2 * i - 1 /\ Items(whole)' < First(t) + 2 * i
      BY <1>2, <1>5, <1>6, <1>9
    <3>3. Items(whole)' < Len(Wire(request))
      BY <1>2, <1>5, <1>6, <1>9, <3>2
    <3>4. Wire(request)[Items(whole)' + 1] = String(request[t][i])
      BY <1>2, <1>3, <1>5, <3>2, Stations
    <3>5. Wire(request)[Items(whole)' + 1].kind = "text"
      BY <3>4 DEF String
    <3>6. Strayed(whole)' /\ Receiving'
      BY <1>9, <2>2, <3>1, <3>3, <3>5 DEF Strayed, Receiving
    <3> QED
      BY <1>9, <3>6, StillInStep
  <2> QED
    BY <2>3, <2>4
<1> QED
  BY <1>12, <1>13

\* What ReceiveText finds, and what it does with it.
LEMMA TextFound ==
  ASSUME TypeOK, NEW whole \in BOOLEAN, Stream(whole), NEW t \in Tags, Under(t, whole),
         toBooster # <<>>, ReceiveText
  PROVE  LET i == Taken(t) + 1
             x == request[t][i]
         IN  /\ t \in Strs /\ into = t /\ wait = request.wait /\ Before(t) /\ Part(t)
             /\ left \in Nat \ {0} /\ Taken(t) = Len(request[t]) - left /\ Taken(t) \in Nat
             /\ i \in 1 .. Len(request[t]) /\ x \in Text
             /\ Items(whole) = First(t) + 2 * Taken(t) /\ First(t) \in Nat
             /\ Stream(whole)' /\ Items(whole)' = Items(whole) + 1
             /\ request \in Requests /\ request' = request
             /\ (~Undisturbed => ~Undisturbed')
             /\ got' = IF t = "ENV" /\ ~x.assign THEN got
                                                 ELSE [got EXCEPT ![t] = Append(@, x)]
             /\ at' = IF left > 1 THEN "size" ELSE "action"
             /\ left' = IF left > 1 THEN left - 1 ELSE left
             /\ UNCHANGED <<into, wait>>
<1> DEFINE i == Taken(t) + 1
           x == request[t][i]
<1>1. at = "text" /\ TakeItem
  BY DEF ReceiveText, BoosterReads
<1>2. /\ t \in Strs /\ Items(whole) = First(t) + 2 * Taken(t) /\ Part(t)
      /\ into = t /\ wait = request.wait /\ Before(t)
  BY <1>1 DEF Under
<1>3. request \in Requests /\ left \in Nat \ {0}
  BY DEF TypeOK
<1>4. Len(request[t]) \in Nat /\ request[t] \in Seq(Text)
  BY <1>2, <1>3, RequestParts
<1>5. Taken(t) = Len(request[t]) - left /\ i \in 1 .. Len(request[t]) /\ Taken(t) \in Nat
  <2>1. Taken(t) = Len(request[t]) - left /\ left <= Len(request[t])
    BY <1>2 DEF Taken, Part
  <2> QED
    BY <1>3, <1>4, <2>1
<1>6. First(t) \in Nat
  BY <1>3, TagsInOrder
<1>7. Wire(request)[Items(whole) + 1] = String(x)
  <2>1. Items(whole) + 1 = First(t) + 2 * i - 1
    BY <1>2, <1>5, <1>6
  <2>2. Wire(request)[First(t) + 2 * i - 1] = String(x)
    BY <1>2, <1>3, <1>5, Stations
  <2> QED
    BY <2>1, <2>2
<1>8. x \in Text
  BY <1>4, <1>5
<1>9. /\ Head(toBooster) = String(x) /\ Stream(whole)' /\ Items(whole)' = Items(whole) + 1
      /\ request' = request /\ (~Undisturbed => ~Undisturbed')
  BY <1>1, <1>7, TakesNext, OtherItems
<1>10. Head(toBooster).text = x
  BY <1>9 DEF String
<1>11. ~(into = "NAME" /\ x.size = 1)
  <2>1. CASE t = "NAME"
    <3>1. Len(request[t]) = 1 /\ request[t][1].size > 1
      BY <1>3, <2>1, RequestParts
    <3>2. i = 1
      BY <1>5, <3>1
    <3>3. x.size > 1 /\ x.size \in Nat
      BY <1>8, <3>1, <3>2 DEF Text
    <3> QED
      BY <3>3
  <2> QED
    BY <1>2, <2>1
<1> HIDE DEF x
<1>12. /\ got' = IF t = "ENV" /\ ~x.assign THEN got ELSE [got EXCEPT ![t] = Append(@, x)]
       /\ at' = IF left > 1 THEN "size" ELSE "action"
       /\ left' = IF left > 1 THEN left - 1 ELSE left
       /\ UNCHANGED <<into, wait>>
  BY <1>2, <1>10, <1>11 DEF ReceiveText
<1> QED
  BY <1>2, <1>3, <1>5, <1>6, <1>8, <1>9, <1>12 DEF x

\* With a text more, what there is under its tag is what is to be there.
LEMMA TextKept ==
  ASSUME TypeOK, NEW whole \in BOOLEAN, Stream(whole), NEW t \in Tags, Under(t, whole),
         toBooster # <<>>, ReceiveText
  PROVE  /\ IF t = "ENV" THEN Assignments(request.ENV, Taken(t) + 1, got'["ENV"])
                         ELSE got'[t] = SubSeq(request[t], 1, Taken(t) + 1)
         /\ got'[t] \in Seq(Text) /\ DOMAIN got' = DOMAIN got
         /\ \A u \in Tags \ {t} : got'[u] = got[u]
<1> DEFINE i == Taken(t) + 1
           x == request[t][i]
<1>1. /\ t \in Strs /\ Part(t) /\ Taken(t) \in Nat /\ i \in 1 .. Len(request[t]) /\ x \in Text
      /\ request \in Requests
      /\ got' = IF t = "ENV" /\ ~x.assign THEN got ELSE [got EXCEPT ![t] = Append(@, x)]
  BY TextFound
<1>2. request[t] \in Seq(Text) /\ Len(request[t]) \in Nat
  BY <1>1, RequestParts
<1>3. got[t] \in Seq(Text) /\ t \in DOMAIN got
  BY <1>1 DEF TypeOK
<1>4. Append(got[t], x) \in Seq(Text)
  BY <1>1, <1>3, AppendProperties
<1> HIDE DEF x
<1>5. \A u \in Tags \ {t} : got'[u] = got[u]
  BY <1>1
<1>6. CASE t = "ENV" /\ ~x.assign
  <2>1. got' = got
    BY <1>1, <1>6
  <2>2. Assignments(request["ENV"], Taken(t), got["ENV"])
    BY <1>1, <1>6 DEF Part
  <2>3. ~request["ENV"][Taken(t) + 1].assign
    BY <1>6 DEF x
  <2>4. Assignments(request["ENV"], Taken(t) + 1, got["ENV"])
    BY <1>1, <1>3, <1>6, <2>2, <2>3, AssignmentDropped
  <2> QED
    BY <1>3, <1>6, <2>1, <2>4
<1>7. CASE t = "ENV" /\ x.assign
  <2>1. got' = [got EXCEPT !["ENV"] = Append(@, x)]
    BY <1>1, <1>7
  <2>2. got'["ENV"] = Append(got["ENV"], x) /\ DOMAIN got' = DOMAIN got
    BY <1>3, <1>7, <2>1
  <2>3. Assignments(request["ENV"], Taken(t), got["ENV"])
    BY <1>1, <1>7 DEF Part
  <2>4. request["ENV"][Taken(t) + 1].assign /\ request["ENV"][Taken(t) + 1] \in Text
    BY <1>1, <1>7 DEF x
  <2>5. Assignments(request["ENV"], Taken(t) + 1, Append(got["ENV"], request["ENV"][Taken(t) + 1]))
    BY <1>1, <1>3, <1>7, <2>3, <2>4, AssignmentTaken
  <2>6. Assignments(request["ENV"], Taken(t) + 1, got'["ENV"])
    BY <1>7, <2>2, <2>5, Zenon DEF x
  <2> QED
    BY <1>4, <1>5, <1>7, <2>2, <2>6
<1>8. CASE t # "ENV"
  <2>1. got' = [got EXCEPT ![t] = Append(@, x)]
    BY <1>1, <1>8
  <2>2. got'[t] = Append(got[t], x) /\ DOMAIN got' = DOMAIN got
    BY <1>3, <2>1
  <2>3. got[t] = SubSeq(request[t], 1, Taken(t))
    BY <1>1, <1>8 DEF Part
  <2>4. SubSeq(request[t], 1, Taken(t) + 1) = Append(SubSeq(request[t], 1, Taken(t)), x)
    <3>1. Taken(t) \in 0 .. Len(request[t]) - 1
      BY <1>1, <1>2
    <3> QED
      BY <1>2, <3>1, OneMore DEF x
  <2> QED
    BY <1>4, <1>5, <1>8, <2>2, <2>3, <2>4
<1>9. x.assign \in BOOLEAN
  BY <1>1 DEF Text, x
<1> QED
  BY <1>6, <1>7, <1>8, <1>9

LEMMA TextInStep ==
  ASSUME TypeOK, NEW whole \in BOOLEAN, Stream(whole), NEW t \in Tags, Under(t, whole),
         toBooster # <<>>, ReceiveText
  PROVE  RequestHalf'
<1>1. /\ t \in Strs /\ into = t /\ wait = request.wait /\ Before(t)
      /\ left \in Nat \ {0} /\ Taken(t) = Len(request[t]) - left /\ Taken(t) \in Nat
      /\ Items(whole) = First(t) + 2 * Taken(t) /\ First(t) \in Nat
      /\ Stream(whole)' /\ Items(whole)' = Items(whole) + 1
      /\ request \in Requests /\ request' = request /\ (~Undisturbed => ~Undisturbed')
      /\ at' = IF left > 1 THEN "size" ELSE "action"
      /\ left' = IF left > 1 THEN left - 1 ELSE left
      /\ UNCHANGED <<into, wait>>
  BY TextFound
<1>2. /\ IF t = "ENV" THEN Assignments(request.ENV, Taken(t) + 1, got'["ENV"])
                      ELSE got'[t] = SubSeq(request[t], 1, Taken(t) + 1)
      /\ \A u \in Tags \ {t} : got'[u] = got[u]
  BY TextKept
<1>3. Len(request[t]) \in Nat /\ request[t] \in Seq(Text)
  BY <1>1, RequestParts
<1>4. CASE left > 1
  <2>1. at' = "size" /\ left' = left - 1
    BY <1>1, <1>4
  <2>2. Taken(t)' = Taken(t) + 1 /\ left' <= Len(request'[t])
    <3> DEFINE n == Len(request[t])
    <3>1. Taken(t)' = n - (left - 1) /\ Len(request'[t]) = n
      BY <1>1, <2>1 DEF Taken
    <3> HIDE DEF n
    <3>2. Taken(t) = n - left /\ n \in Nat /\ left \in Nat \ {0} /\ Taken(t) \in Nat
      BY <1>1, <1>3 DEF n
    <3>3. n - (left - 1) = Taken(t) + 1 /\ left - 1 <= n
      BY <3>2
    <3> QED
      BY <2>1, <3>1, <3>3
  <2>3. Part(t)'
    BY <1>1, <1>2, <2>2 DEF Part
  <2>4. Before(t)'
    BY <1>1, <1>2, BeforeStays, TagsInOrder
  <2>5. Items(whole)' = First(t)' + 2 * Taken(t)' - 1
    BY <1>1, <2>2, PlacesStay
  <2>6. Under(t, whole)' /\ Receiving'
    BY <1>1, <2>1, <2>3, <2>4, <2>5 DEF Under, Receiving
  <2> QED
    BY <1>1, <2>6, StillInStep
<1>5. CASE ~(left > 1)
  <2>1. at' = "action" /\ left = 1 /\ Taken(t) + 1 = Len(request[t])
    BY <1>1, <1>3, <1>5
  <2>2. Whole(t)'
    <3>1. CASE t = "ENV"
      BY <1>1, <1>2, <2>1, <3>1 DEF Whole
    <3>2. CASE t # "ENV"
      <4>1. got'[t] = request[t]
        BY <1>2, <1>3, <2>1, <3>2, AllOfIt
      <4> QED
        BY <1>1, <3>2, <4>1 DEF Whole, Strs
    <3> QED
      BY <3>1, <3>2
  <2>3. Before(Behind(t))'
    BY <1>1, <1>2, <2>2, BeforeNext
  <2>4. /\ Behind(t) \in (Tags \ {"NAME"}) \cup {"END"}
        /\ Start(Behind(t)) = First(t) + 2 * Len(request[t])
    BY <1>1, TagsInOrder
  <2>5. Items(whole)' = Start(Behind(t)) - 1
    BY <1>1, <1>3, <2>1, <2>4
  <2>6. Start(Behind(t))' = Start(Behind(t))
    BY <1>1, PlacesStay
  <2>7. AtTag(whole)' /\ Receiving'
    <3>1. \E u \in (Tags \ {"NAME"}) \cup {"END"} : Items(whole)' = Start(u)' - 1 /\ Before(u)'
      BY <2>3, <2>4, <2>5, <2>6
    <3> QED
      BY <1>1, <2>1, <3>1 DEF AtTag, Receiving
  <2> QED
    BY <1>1, <2>7, StillInStep
<1> QED
  BY <1>4, <1>5

\* receivePriority(), receiveDelay(), receiveIDs(): a number is the next one.
LEMMA NumberInStep ==
  ASSUME TypeOK, NEW whole \in BOOLEAN, Stream(whole), NEW t \in Tags, Under(t, whole),
         toBooster # <<>>, ReceiveNumber
  PROVE  RequestHalf'
<1> DEFINE i == Taken(t) + 1
           n == Len(request[t])
           x == request[t][i]
<1>1. at = "number" /\ TakeItem
  BY DEF ReceiveNumber, BoosterReads
<1>2. /\ t \in Nums /\ Items(whole) = First(t) + Taken(t) - 1 /\ Part(t)
      /\ into = t /\ wait = request.wait /\ Before(t)
  BY <1>1 DEF Under
<1>3. request \in Requests /\ left \in Nat \ {0}
  BY DEF TypeOK
<1>4. n \in Nat /\ request[t] \in Seq(Nat) /\ t \notin {"ENV", "IO"}
  BY <1>2, <1>3, RequestParts DEF Nums
<1>5. Taken(t) = n - left /\ i \in 1 .. n /\ Taken(t) \in Nat
  <2>1. Taken(t) = n - left /\ left <= n
    BY <1>2 DEF Taken, Part
  <2> QED
    BY <1>3, <1>4, <2>1
<1>6. First(t) \in Nat
  BY <1>3, TagsInOrder
<1>7. Wire(request)[Items(whole) + 1] = Number(x)
  <2>1. Items(whole) + 1 = First(t) + i - 1
    BY <1>2, <1>5, <1>6
  <2>2. Wire(request)[First(t) + i - 1] = Number(x)
    BY <1>2, <1>3, <1>5, Stations
  <2> QED
    BY <2>1, <2>2
<1>8. /\ Head(toBooster) = Number(x) /\ Stream(whole)' /\ Items(whole)' = Items(whole) + 1
      /\ request' = request /\ (~Undisturbed => ~Undisturbed')
  BY <1>1, <1>7, TakesNext, OtherItems
<1>9. Received.kind = "number" /\ Received.val = x
  <2>1. Received = Number(x)
    BY <1>8, WordsRead
  <2> QED
    BY <2>1 DEF Number
<1>10. /\ got' = [got EXCEPT ![t] = Append(@, x)]
       /\ at' = IF left > 1 THEN "number" ELSE "action"
       /\ left' = IF left > 1 THEN left - 1 ELSE left
       /\ UNCHANGED <<into, wait>>
  BY <1>2, <1>9 DEF ReceiveNumber
<1>11. got'[t] = SubSeq(request[t], 1, Taken(t) + 1)
  <2>1. got'[t] = Append(got[t], x)
    BY <1>10 DEF TypeOK
  <2>2. got[t] = SubSeq(request[t], 1, Taken(t))
    BY <1>2, <1>4 DEF Part
  <2>3. Taken(t) \in 0 .. n - 1
    BY <1>4, <1>5
  <2> QED
    BY <1>4, <2>1, <2>2, <2>3, OneMore
<1>12. \A u \in Tags \ {t} : got'[u] = got[u]
  BY <1>10 DEF TypeOK
<1> HIDE DEF n
<1>13. CASE left > 1
  <2>1. at' = "number" /\ left' = left - 1
    BY <1>10, <1>13
  <2>2. Taken(t)' = n - (left - 1) /\ Len(request'[t]) = n
    BY <1>8, <2>1 DEF Taken, n
  <2>3. Taken(t)' = Taken(t) + 1 /\ left' <= Len(request'[t])
    BY <1>3, <1>4, <1>5, <2>1, <2>2
  <2>4. Part(t)'
    BY <1>4, <1>8, <1>11, <2>3 DEF Part
  <2>5. Before(t)'
    BY <1>2, <1>3, <1>8, <1>12, BeforeStays, TagsInOrder
  <2>6. Items(whole)' = First(t)' + Taken(t)' - 1
    BY <1>2, <1>5, <1>6, <1>8, <2>3, PlacesStay
  <2>7. Under(t, whole)' /\ Receiving'
    BY <1>2, <1>8, <1>10, <2>1, <2>4, <2>5, <2>6 DEF Under, Receiving
  <2> QED
    BY <1>8, <2>7, StillInStep
<1>14. CASE ~(left > 1)
  <2>1. at' = "action" /\ left = 1 /\ Taken(t) + 1 = n
    BY <1>3, <1>4, <1>5, <1>10, <1>14
  <2>2. Whole(t)'
    <3>1. got'[t] = request[t]
      BY <1>4, <1>11, <2>1, AllOfIt DEF n
    <3> QED
      BY <1>4, <1>8, <3>1 DEF Whole
  <2>3. Before(Behind(t))'
    BY <1>2, <1>3, <1>8, <1>12, <2>2, BeforeNext
  <2>4. /\ Behind(t) \in (Tags \ {"NAME"}) \cup {"END"}
        /\ Start(Behind(t)) = First(t) + n
    BY <1>2, <1>3, TagsInOrder DEF n
  <2>5. Items(whole)' = Start(Behind(t)) - 1
    BY <1>2, <1>4, <1>5, <1>6, <1>8, <2>1, <2>4
  <2>6. Start(Behind(t))' = Start(Behind(t))
    BY <1>8, PlacesStay
  <2>7. \E u \in (Tags \ {"NAME"}) \cup {"END"} : Items(whole)' = Start(u)' - 1 /\ Before(u)'
    BY <2>3, <2>4, <2>5, <2>6
  <2>8. AtTag(whole)' /\ Receiving'
    BY <1>2, <1>8, <1>10, <2>1, <2>7 DEF AtTag, Receiving
  <2> QED
    BY <1>8, <2>8, StillInStep
<1> QED
  BY <1>13, <1>14

\* receiveIO(): the byte with the descriptors is next, and they may be lost
\* with it; or they were lost before, and the byte is another word's.
LEMMA DescriptorsInStep ==
  ASSUME TypeOK, NEW whole \in BOOLEAN, Stream(whole), NEW t \in Tags, Under(t, whole),
         at = "fds", whole = TRUE,
         request' = request, sent' = sent, toBooster # <<>>, toBooster' = Tail(toBooster),
         ~Undisturbed => ~Undisturbed', at' = "action", UNCHANGED <<into, left, wait>>,
         \/ got' = [got EXCEPT !["IO"] = <<"fds">>]
         \/ got' = got /\ ~Undisturbed'
  PROVE  RequestHalf'
<1>1. /\ t = "IO" /\ Items(whole) = Start("IO") /\ Before("IO") /\ wait = request.wait
      /\ request \in Requests
  BY DEF Under, TypeOK
<1>2. Stream(whole)' /\ Items(whole)' = Items(whole) + 1
  BY StreamMoves
<1>3. /\ Behind("IO") = "ENV" /\ Start("ENV") = Hole + 1 /\ Start("IO") \in Nat
  BY <1>1, TagsInOrder DEF Behind
<1>4. Whole("IO")'
  <2>1. request.IO = <<"fds">>
    BY <1>1, RequestParts
  <2>2. got' = [got EXCEPT !["IO"] = <<"fds">>] => got'["IO"] = <<"fds">>
    BY <1>1 DEF TypeOK
  <2>3. Undisturbed' => got'["IO"] = request'.IO
    BY <2>1, <2>2
  <2> QED
    BY <2>3 DEF Whole
<1>5. \A u \in Tags \ {"IO"} : got'[u] = got[u]
  BY DEF TypeOK
<1>6. Before("ENV")'
  BY <1>1, <1>3, <1>4, <1>5, BeforeNext
<1>7. Items(whole)' = Start("ENV")' - 1
  <2>1. Start("ENV")' = Start("ENV")
    BY PlacesStay
  <2>2. Hole = Start("IO") + 1
    BY DEF Hole
  <2> QED
    BY <1>1, <1>2, <1>3, <2>1, <2>2
<1>8. AtTag(whole)' /\ Receiving'
  <2>1. "ENV" \in (Tags \ {"NAME"}) \cup {"END"}
    BY DEF Tags, Strs
  <2> QED
    BY <1>1, <1>6, <1>7, <2>1 DEF AtTag, Receiving
<1> QED
  BY <1>2, <1>8, StillInStep

\* Where receiveIO() is, it finds the descriptors unless they were lost.
LEMMA DescriptorsNext ==
  ASSUME TypeOK, NEW whole \in BOOLEAN, Stream(whole), NEW t \in Tags, Under(t, whole),
         at = "fds", toBooster # <<>>
  PROVE  /\ whole => Head(toBooster) = Descriptors
         /\ ~whole => Head(toBooster) # Descriptors /\ ~Undisturbed
<1>1. t = "IO" /\ Items(whole) = Start("IO") /\ request \in Requests
  BY DEF Under, TypeOK
<1>2. Items(whole) + 1 = Hole /\ Wire(request)[Hole] = Descriptors
  BY <1>1, Stations DEF Hole
<1>3. /\ whole => Head(toBooster) = Wire(request)[Items(whole) + 1]
      /\ ~whole => Head(toBooster) = Tag("ENV") /\ ~Undisturbed
  BY <1>2, NextItem
<1>4. Tag("ENV") # Descriptors
  <2>1. "ENV" \in Tags
    BY DEF Tags, Strs
  <2> QED
    BY <2>1, OtherItems
<1> QED
  BY <1>2, <1>3, <1>4

LEMMA FaultsLeft ==
  ASSUME TypeOK
  PROVE  faults \in Nat /\ MaxFaults \in Nat /\ faults <= MaxFaults
<1>1. faults \in 0 .. MaxFaults
  BY DEF TypeOK
<1>2. MaxFaults \in Nat
  BY ProtocolAssumption
<1> QED
  BY <1>1, <1>2

LEMMA IOInStep ==
  ASSUME TypeOK, NEW whole \in BOOLEAN, Stream(whole), NEW t \in Tags, Under(t, whole),
         toBooster # <<>>, ReceiveIO \/ ReceiveIOFails
  PROVE  RequestHalf'
<1>1. /\ at = "fds" /\ at' = "action" /\ request' = request /\ sent' = sent
      /\ UNCHANGED <<into, left, wait>>
  BY DEF ReceiveIO, ReceiveIOFails, BoosterReads, invoker
<1>2. faults \in Nat /\ MaxFaults \in Nat /\ faults <= MaxFaults
  BY FaultsLeft
<1>3. /\ whole => Head(toBooster) = Descriptors
      /\ ~whole => Head(toBooster) # Descriptors /\ ~Undisturbed
  BY <1>1, DescriptorsNext
<1>4. CASE whole /\ ReceiveIO
  <2>1. into = "IO"
    BY <1>1 DEF Under
  <2>2. /\ toBooster' = Tail(toBooster) /\ got' = [got EXCEPT !["IO"] = <<"fds">>]
        /\ faults' = faults
    BY <1>3, <1>4, <2>1 DEF ReceiveIO
  <2>3. ~Undisturbed => ~Undisturbed'
    BY <2>2 DEF Undisturbed
  <2> QED
    BY <1>1, <1>4, <2>2, <2>3, DescriptorsInStep
<1>5. CASE ReceiveIOFails
  <2>1. whole /\ whole = TRUE
    BY <1>3, <1>5 DEF ReceiveIOFails
  <2>2. toBooster' = Tail(toBooster) /\ got' = got /\ faults > 0 /\ faults' = faults - 1
    BY <1>5 DEF ReceiveIOFails, Fault
  <2>3. ~Undisturbed'
    BY <1>2, <2>2 DEF Undisturbed
  <2> QED
    BY <1>1, <2>1, <2>2, <2>3, DescriptorsInStep
<1>6. CASE ~whole /\ ReceiveIO
  <2>1. toBooster' = <<Junk>> \o Tail(toBooster) /\ faults' = faults
    BY <1>3, <1>6 DEF ReceiveIO
  <2>2. toBooster' # <<>> /\ Head(toBooster') = Junk
    <3>1. toBooster \in Seq(Item)
      BY DEF TypeOK
    <3>2. Tail(toBooster) \in Seq(Item) /\ <<Junk>> \in Seq(Item) /\ Len(<<Junk>>) = 1
      BY <3>1, HeadAndTail DEF Junk, Item
    <3>3. /\ toBooster' \in Seq(Item) /\ Len(toBooster') = 1 + Len(Tail(toBooster))
          /\ toBooster'[1] = <<Junk>>[1]
      BY <2>1, <3>2, ConcatProperties
    <3>4. Len(toBooster') # 0
      BY <3>2, <3>3
    <3> QED
      BY <3>3, <3>4, EmptySeq
  <2>3. ~Undisturbed'
    BY <1>3, <1>6, <2>1 DEF Undisturbed
  <2>4. ReceiveInv'
    BY <1>1, <2>2, <2>3 DEF ReceiveInv
  <2> QED
    BY <1>1, <2>4 DEF RequestHalf, AcceptInv, Accepted, RefusedForCause
<1> QED
  BY <1>4, <1>5, <1>6

\* Every receiver keeps the request's half.
LEMMA ReceiveKeepsRequest ==
  ASSUME ConversationInv, Receive \/ ReceiveIOFails
  PROVE  RequestHalf'
<1>1. TypeOK /\ ReceiveInv
  BY DEF ConversationInv, RequestHalf
<1>2. CASE Receive /\ toBooster = <<>>
  BY <1>2, ReadsPastEnd
<1>3. CASE toBooster # <<>>
  <2>1. Receiving
    BY ReadsReceive DEF ReceiveIOFails, Receiving
  <2>2. CASE at = "action" /\ Head(toBooster) = Junk /\ ~Undisturbed
    <3>1. Receive
      BY <2>2 DEF ReceiveIOFails
    <3> QED
      BY <1>3, <2>2, <3>1, ReadsJunk
  <2>3. ASSUME NEW whole \in BOOLEAN, Stream(whole), Strayed(whole)
        PROVE  RequestHalf'
    <3>1. Receive
      BY <2>3 DEF ReceiveIOFails, Strayed
    <3> QED
      BY <1>3, <2>3, <3>1, ReadsStray
  <2>4. ASSUME NEW whole \in BOOLEAN, Stream(whole), AtTag(whole)
        PROVE  RequestHalf'
    <3>1. at \in {"magic", "name", "action"}
      BY <2>4 DEF AtTag
    <3>2. ReceiveMagic \/ ReceiveAppName \/ ReceiveAction
      BY <3>1 DEF Receive, ReceiveIOFails, ReceiveCount, ReceiveSize, ReceiveText,
                  ReceiveNumber, ReceiveIO, BoosterReads
    <3> QED
      BY <1>1, <1>3, <2>4, <3>2, MagicInStep, NameInStep, ActionInStep
  <2>5. ASSUME NEW whole \in BOOLEAN, Stream(whole), NEW t \in Tags, Under(t, whole)
        PROVE  RequestHalf'
    <3>1. at \in {"count", "size", "text", "number", "fds"}
      BY <2>5 DEF Under
    <3>2. \/ ReceiveCount \/ ReceiveSize \/ ReceiveText \/ ReceiveNumber
          \/ ReceiveIO \/ ReceiveIOFails
      BY <3>1 DEF Receive, ReceiveMagic, ReceiveAppName, ReceiveAction, BoosterReads
    <3>3. CASE ReceiveCount
      BY <1>1, <1>3, <2>5, <3>3, CountInStep
    <3>4. CASE ReceiveSize
      BY <1>1, <1>3, <2>5, <3>4, SizeInStep
    <3>5. CASE ReceiveText
      BY <1>1, <1>3, <2>5, <3>5, TextInStep
    <3>6. CASE ReceiveNumber
      BY <1>1, <1>3, <2>5, <3>6, NumberInStep
    <3>7. CASE ReceiveIO \/ ReceiveIOFails
      BY <1>1, <1>3, <2>5, <3>7, IOInStep
    <3> QED
      BY <3>2, <3>3, <3>4, <3>5, <3>6, <3>7
  <2> QED
    BY <1>1, <1>3, <2>1, <2>2, <2>3, <2>4, <2>5 DEF ReceiveInv
<1> QED
  BY <1>2, <1>3 DEF ReceiveIOFails

-----------------------------------------------------------------------------
(* The other steps and the request.                                        *)

\* A booster that does nothing is where it was, whatever has been sent.
LEMMA PlaceStays ==
  ASSUME NEW one \in BOOLEAN, NEW two \in BOOLEAN, Items(two)' = Items(one),
         AtTag(one) \/ Strayed(one) \/ \E t \in Tags : Under(t, one),
         request' = request, UNCHANGED booster, ~Undisturbed => ~Undisturbed'
  PROVE  AtTag(two)' \/ Strayed(two)' \/ \E t \in Tags : Under(t, two)'
<1>1. UNCHANGED <<at, into, left, wait, got>>
  BY DEF booster
<1>2. /\ \A t : Start(t)' = Start(t) /\ First(t)' = First(t)
      /\ WithinLimits(request)' = WithinLimits(request)
  BY PlacesStay
<1>3. ASSUME NEW t, Before(t)
      PROVE  Before(t)'
  <2>1. ASSUME NEW u \in Tags, Start(u) < Start(t)
        PROVE  Whole(u)'
    <3>1. Whole(u)
      BY <1>3, <2>1 DEF Before
    <3> QED
      BY <1>1, <3>1, WholeStays
  <2> QED
    BY <1>2, <2>1 DEF Before
<1>4. CASE AtTag(one)
  <2>1. CASE at = "action"
    <3>1. PICK t \in (Tags \ {"NAME"}) \cup {"END"} : Items(one) = Start(t) - 1 /\ Before(t)
      BY <1>4, <2>1 DEF AtTag
    <3>2. Items(two)' = Start(t)' - 1 /\ Before(t)'
      BY <1>2, <1>3, <3>1
    <3>3. wait' = request'.wait /\ at' = "action"
      BY <1>1, <1>4, <2>1 DEF AtTag
    <3> QED
      BY <3>2, <3>3 DEF AtTag
  <2>2. CASE at # "action"
    BY <1>1, <1>4, <2>2 DEF AtTag
  <2> QED
    BY <2>1, <2>2
<1>5. CASE Strayed(one)
  BY <1>1, <1>2, <1>5 DEF Strayed
<1>6. ASSUME NEW t \in Tags, Under(t, one)
      PROVE  Under(t, two)'
  <2>1. Before(t)' /\ into' = t /\ wait' = request'.wait
    BY <1>1, <1>3, <1>6 DEF Under
  <2>2. Taken(t)' = Taken(t) /\ (Part(t) => Part(t)')
    BY <1>1 DEF Taken, Part
  <2> QED
    BY <1>1, <1>2, <1>6, <2>1, <2>2 DEF Under
<1> QED
  BY <1>4, <1>5, <1>6

\* A request accepted, or refused for a cause, stays so.
LEMMA AcceptedStays ==
  ASSUME RequestHalf, Accepted' => Accepted, at' = "refused" => at = "refused",
         at' \in {"pid", "pid value", "exit value"} => wait,
         request' = request, UNCHANGED <<wait, got>>, Accepted => sent' = sent,
         ~Undisturbed => ~Undisturbed'
  PROVE  AcceptInv' /\ RefusedForCause'
<1>1. RefusedForCause'
  BY PlacesStay DEF RequestHalf, RefusedForCause
<1>2. CASE Accepted'
  <2>1. /\ sent = Len(Wire(request)) /\ wait = request.wait
        /\ \A t \in Tags : Whole(t)
    BY <1>2 DEF RequestHalf, AcceptInv
  <2>2. \A t \in Tags : Whole(t)'
    BY <2>1, WholeStays
  <2>3. sent' = Len(Wire(request)') /\ wait' = request'.wait
    BY <1>2, <2>1
  <2>4. at' \in {"pid", "pid value", "exit value"} => wait'
    OBVIOUS
  <2> QED
    BY <1>1, <2>2, <2>3, <2>4 DEF AcceptInv
<1> QED
  BY <1>1, <1>2 DEF AcceptInv

\* The steps of the invoker that write nothing.
LEMMA OthersKeepRequest ==
  ASSUME RequestHalf, UNCHANGED <<request, booster, sent, toBooster>>,
         ~Undisturbed => ~Undisturbed', InvokerGone => InvokerGone'
  PROVE  RequestHalf'
<1>1. UNCHANGED <<at, into, left, wait, got>>
  BY DEF booster
<1>2. AcceptInv' /\ RefusedForCause'
  BY <1>1, AcceptedStays DEF Accepted, RequestHalf, AcceptInv
<1>3. ASSUME NEW whole \in BOOLEAN, Stream(whole)
      PROVE  Stream(whole)' /\ Items(whole)' = Items(whole)
  <2>1. Items(whole)' = Items(whole)
    BY DEF Items
  <2> QED
    BY <1>3, <2>1, PlacesStay DEF Stream
<1>4. ReceiveInv'
  <2>1. CASE \E whole \in BOOLEAN : /\ Stream(whole)
                                    /\ AtTag(whole) \/ Strayed(whole) \/ \E t \in Tags : Under(t, whole)
    <3>1. PICK whole \in BOOLEAN : /\ Stream(whole)
                                   /\ AtTag(whole) \/ Strayed(whole) \/ \E t \in Tags : Under(t, whole)
      BY <2>1
    <3>2. Stream(whole)' /\ Items(whole)' = Items(whole)
      BY <1>3, <3>1
    <3>3. AtTag(whole)' \/ Strayed(whole)' \/ \E t \in Tags : Under(t, whole)'
      BY <3>1, <3>2, PlaceStays
    <3> QED
      BY <3>2, <3>3 DEF ReceiveInv
  <2>2. CASE at = "action" /\ toBooster # <<>> /\ Head(toBooster) = Junk /\ ~Undisturbed
    BY <1>1, <2>2 DEF ReceiveInv
  <2>3. CASE toBooster = <<>> /\ InvokerGone
    BY <2>3 DEF ReceiveInv
  <2>4. CASE ~Receiving
    BY <1>1, <2>4 DEF Receiving, ReceiveInv
  <2> QED
    BY <2>1, <2>2, <2>3, <2>4 DEF RequestHalf, ReceiveInv
<1> QED
  BY <1>2, <1>4 DEF RequestHalf


\* An item added at the end.
LEMMA AppendItem ==
  ASSUME NEW S, NEW q \in Seq(S), NEW x
  PROVE  /\ Len(Append(q, x)) = Len(q) + 1
         /\ \A k \in 1 .. Len(q) : Append(q, x)[k] = q[k]
         /\ Append(q, x)[Len(q) + 1] = x
         /\ Append(q, x) # <<>> /\ Head(Append(q, x)) = Append(q, x)[1]
<1>1. /\ Len(Append(q, x)) = Len(q) + 1
      /\ \A k \in 1 .. Len(q) : Append(q, x)[k] = q[k]
      /\ Append(q, x)[Len(q) + 1] = x
  OBVIOUS
<1>2. Append(q, x) \in Seq(S \cup {x})
  OBVIOUS
<1>3. Append(q, x) # <<>>
  <2>1. Len(q) \in Nat /\ Len(<<>>) = 0
    OBVIOUS
  <2> QED
    BY <1>1, <2>1
<1>4. Head(Append(q, x)) = Append(q, x)[1]
  BY <1>2, <1>3, HeadAndTail
<1> QED
  BY <1>1, <1>3, <1>4


\* An item more in the stream is the next of the request.
LEMMA StreamGrows ==
  ASSUME TypeOK, NEW whole \in BOOLEAN, Stream(whole), sent < Len(Wire(request)),
         toBooster' = Append(toBooster, Wire(request)[sent + 1]),
         sent' = sent + 1, request' = request, faults' = faults
  PROVE  Stream(whole)' /\ Items(whole)' = Items(whole)
<1> DEFINE c == Items(whole)
           n == Len(toBooster)
           w == Wire(request)
<1>1. sent \in Nat /\ Len(w) \in Nat /\ Hole \in Nat /\ n \in Nat /\ toBooster \in Seq(Item)
  <2>1. request \in Requests /\ sent \in 0 .. Len(w) /\ toBooster \in Seq(Item)
    BY DEF TypeOK
  <2>2. Len(w) \in Nat /\ Hole \in Nat
    BY <2>1, Stations
  <2> QED
    BY <2>1, <2>2
<1>2. Len(toBooster') = n + 1
  BY <1>1, AppendItem DEF w
<1>3. /\ \A k \in 1 .. n : toBooster'[k] = toBooster[k]
      /\ toBooster'[n + 1] = w[sent + 1]
  BY <1>1, AppendItem DEF w
<1>4. c = sent - n - (IF whole THEN 0 ELSE 1) /\ c \in Nat
  BY DEF Items, Stream
<1>5. Items(whole)' = c
  <2>1. Items(whole)' = (sent + 1) - (n + 1) - (IF whole THEN 0 ELSE 1)
    BY <1>2 DEF Items
  <2> QED
    BY <1>1, <1>4, <2>1
<1>6. \A k \in 1 .. n : toBooster[k] = w[IF whole \/ c + k < Hole THEN c + k ELSE c + k + 1]
  BY DEF Stream
<1>7. ~whole => c < Hole /\ Hole <= sent /\ ~Undisturbed
  BY DEF Stream
<1>8. ~Undisturbed => ~Undisturbed'
  BY DEF Undisturbed
<1> HIDE DEF c, n, w
<1>9. ASSUME NEW k \in 1 .. n + 1
      PROVE  toBooster'[k] = w[IF whole \/ c + k < Hole THEN c + k ELSE c + k + 1]
  <2>1. CASE k \in 1 .. n
    BY <1>3, <1>6, <2>1
  <2>2. CASE k = n + 1
    <3>1. IF whole \/ c + k < Hole THEN c + k = sent + 1 ELSE c + k + 1 = sent + 1
      BY <1>1, <1>4, <1>7, <2>2
    <3> QED
      BY <1>3, <2>2, <3>1
  <2>3. k \in 1 .. n \/ k = n + 1
    BY <1>1
  <2> QED
    BY <2>1, <2>2, <2>3
<1>10. ~whole => c < Hole /\ Hole <= sent + 1
  BY <1>1, <1>7
<1>11. /\ Items(whole)' = c /\ Len(toBooster') = n + 1
       /\ Hole' = Hole /\ Wire(request)' = w
  BY <1>2, <1>5, PlacesStay DEF w
<1> QED
  BY <1>4, <1>7, <1>8, <1>9, <1>10, <1>11, c = Items(whole) DEF Stream, c

\* Losing the descriptors takes their place in the stream away.
LEMMA StreamLoses ==
  ASSUME TypeOK, NEW whole \in BOOLEAN, Stream(whole), sent < Len(Wire(request)),
         Wire(request)[sent + 1] = Descriptors,
         UNCHANGED <<request, toBooster>>, sent' = sent + 1, ~Undisturbed'
  PROVE  whole = TRUE /\ Stream(FALSE)' /\ Items(FALSE)' = Items(TRUE)
<1> DEFINE c == Items(TRUE)
           n == Len(toBooster)
           w == Wire(request)
<1>1. sent \in Nat /\ Len(w) \in Nat /\ Hole \in Nat /\ n \in Nat
  <2>1. request \in Requests /\ sent \in 0 .. Len(w) /\ toBooster \in Seq(Item)
    BY DEF TypeOK
  <2>2. Len(w) \in Nat /\ Hole \in Nat
    BY <2>1, Stations
  <2> QED
    BY <2>1, <2>2
<1>2. sent + 1 = Hole
  <2>1. request \in Requests
    BY DEF TypeOK
  <2>2. sent + 1 \in 1 .. Len(w)
    BY <1>1
  <2> QED
    BY <2>1, <2>2, OneHole
<1>3. whole = TRUE
  <2>1. ~whole => Hole <= sent
    BY DEF Stream
  <2> QED
    BY <1>1, <1>2, <2>1
<1>4. sent - n - 0 = sent - n /\ (sent + 1) - n - 1 = sent - n
  BY <1>1
<1>5. c = sent - n /\ c \in Nat
  <2>1. Items(whole) = sent - n - (IF whole THEN 0 ELSE 1) /\ Items(whole) \in Nat
    BY DEF Items, Stream
  <2>2. Items(TRUE) = sent - n - 0 /\ Items(TRUE) \in Nat
    BY <1>3, <2>1
  <2> QED
    BY <1>4, <2>2, Zenon
<1>6. \A k \in 1 .. n : toBooster[k] = w[c + k]
  <2>1. Stream(TRUE)
    BY <1>3
  <2> QED
    BY <2>1 DEF Stream
<1>7. Items(FALSE)' = c
  <2>1. Items(FALSE)' = (sent + 1) - n - 1
    BY DEF Items
  <2> QED
    BY <1>5, <1>4, <2>1, Zenon
<1>8. Hole' = Hole /\ Wire(request)' = w
  BY PlacesStay
<1> HIDE DEF c, n, w
<1>9. ASSUME NEW k \in 1 .. n
      PROVE  toBooster[k] = w[IF FALSE \/ c + k < Hole THEN c + k ELSE c + k + 1]
  <2>1. c + k < Hole
    BY <1>1, <1>2, <1>5
  <2> QED
    BY <1>6, <2>1
<1>10. c < Hole /\ Hole <= sent + 1
  BY <1>1, <1>2, <1>5
<1>11. Stream(FALSE)'
  BY <1>5, <1>7, <1>8, <1>9, <1>10 DEF Stream, n
<1> QED
  BY <1>3, <1>7, <1>11 DEF c

\* An invoker that still writes faces a booster that has not accepted, or a
\* closed connection of one that has only part of the request.
LEMMA SendKeepsRequest ==
  ASSUME ConversationInv, SendItem
  PROVE  RequestHalf'
<1>1. /\ TypeOK /\ RequestHalf /\ ReceiveInv
      /\ UNCHANGED <<request, booster, faults>>
      /\ inv = "send" /\ sent < Len(Wire(request)) /\ sent' = sent + 1
  BY DEF ConversationInv, RequestHalf, SendItem
<1>2. UNCHANGED <<at, into, left, wait, got>>
  BY <1>1 DEF booster
<1>3. ~Undisturbed => ~Undisturbed'
  BY <1>1 DEF Undisturbed
<1>4. ~Accepted
  <2>1. Accepted => sent = Len(Wire(request))
    BY <1>1 DEF RequestHalf, AcceptInv
  <2>2. sent \in Nat /\ Len(Wire(request)) \in Nat
    <3>1. request \in Requests /\ sent \in 0 .. Len(Wire(request))
      BY <1>1 DEF TypeOK
    <3> QED
      BY <3>1, Stations
  <2> QED
    BY <1>1, <2>1, <2>2
<1>5. AcceptInv' /\ RefusedForCause'
  <2>1. ~Accepted'
    BY <1>2, <1>4 DEF Accepted
  <2>2. RefusedForCause'
    BY <1>1, <1>2, <1>3, PlacesStay DEF RequestHalf, RefusedForCause
  <2> QED
    BY <2>1, <2>2 DEF AcceptInv
<1>6. ReceiveInv'
  <2>1. CASE Receiving
    <3>1. ~BoosterGone
      BY <2>1 DEF Receiving, BoosterGone, BoosterOver
    <3>2. toBooster' = Append(toBooster, Wire(request)[sent + 1])
      BY <3>1 DEF SendItem
    <3>3. ~InvokerGone
      BY <1>1 DEF InvokerGone, InvokerOver
    <3>4. ASSUME NEW whole \in BOOLEAN, Stream(whole),
                 AtTag(whole) \/ Strayed(whole) \/ \E t \in Tags : Under(t, whole)
          PROVE  ReceiveInv'
      <4>1. Stream(whole)' /\ Items(whole)' = Items(whole)
        BY <1>1, <3>2, <3>4, StreamGrows
      <4>2. AtTag(whole)' \/ Strayed(whole)' \/ \E t \in Tags : Under(t, whole)'
        BY <1>1, <1>3, <3>4, <4>1, PlaceStays
      <4> QED
        BY <4>1, <4>2 DEF ReceiveInv
    <3>5. CASE at = "action" /\ toBooster # <<>> /\ Head(toBooster) = Junk /\ ~Undisturbed
      <4>1. toBooster' # <<>> /\ Head(toBooster') = Junk
        <5>1. toBooster \in Seq(Item)
          BY <1>1 DEF TypeOK
        <5>2. Len(toBooster) \in Nat \ {0} /\ Head(toBooster) = toBooster[1]
          BY <3>5, <5>1, HeadAndTail
        <5>3. /\ Len(toBooster') = Len(toBooster) + 1
              /\ \A k \in 1 .. Len(toBooster) : toBooster'[k] = toBooster[k]
              /\ toBooster' # <<>> /\ Head(toBooster') = toBooster'[1]
          BY <3>2, <5>1, AppendItem
        <5> QED
          BY <3>5, <5>2, <5>3
      <4> QED
        BY <1>2, <1>3, <3>5, <4>1 DEF ReceiveInv
    <3> QED
      BY <1>1, <2>1, <3>3, <3>4, <3>5 DEF ReceiveInv
  <2>2. CASE ~Receiving
    BY <1>2, <2>2 DEF Receiving, ReceiveInv
  <2> QED
    BY <2>1, <2>2
<1> QED
  BY <1>5, <1>6 DEF RequestHalf


\* Losing the descriptors leaves the booster where it was.
LEMMA LossKeepsRequest ==
  ASSUME ConversationInv, SendIOFails
  PROVE  RequestHalf'
<1>1. /\ TypeOK /\ RequestHalf /\ ReceiveInv
      /\ UNCHANGED <<request, inv, booster, toBooster>>
      /\ sent < Len(Wire(request)) /\ sent' = sent + 1
      /\ Wire(request)[sent + 1] = Descriptors /\ faults > 0 /\ faults' = faults - 1
  BY DEF ConversationInv, RequestHalf, SendIOFails, Fault
<1>2. UNCHANGED <<at, into, left, wait, got>>
  BY <1>1 DEF booster
<1>3. ~Undisturbed'
  <2>1. faults \in Nat /\ MaxFaults \in Nat /\ faults <= MaxFaults
    BY <1>1, FaultsLeft
  <2>2. faults - 1 # MaxFaults
    BY <2>1
  <2> QED
    BY <1>1, <2>2 DEF Undisturbed
<1>4. ~Accepted
  <2>1. Accepted => sent = Len(Wire(request))
    BY <1>1 DEF RequestHalf, AcceptInv
  <2>2. sent \in Nat /\ Len(Wire(request)) \in Nat
    <3>1. request \in Requests /\ sent \in 0 .. Len(Wire(request))
      BY <1>1 DEF TypeOK
    <3> QED
      BY <3>1, Stations
  <2> QED
    BY <1>1, <2>1, <2>2
<1>5. AcceptInv' /\ RefusedForCause'
  <2>1. ~Accepted'
    BY <1>2, <1>4 DEF Accepted
  <2> QED
    BY <1>3, <2>1 DEF AcceptInv, RefusedForCause
<1>6. ReceiveInv'
  <2>1. ASSUME NEW whole \in BOOLEAN, Stream(whole),
               AtTag(whole) \/ Strayed(whole) \/ \E t \in Tags : Under(t, whole)
        PROVE  ReceiveInv'
    <3>1. whole = TRUE /\ Stream(FALSE)' /\ Items(FALSE)' = Items(TRUE)
      BY <1>1, <1>3, <2>1, StreamLoses
    <3>2. AtTag(TRUE) \/ Strayed(TRUE) \/ \E t \in Tags : Under(t, TRUE)
      BY <2>1, <3>1
    <3>3. AtTag(FALSE)' \/ Strayed(FALSE)' \/ \E t \in Tags : Under(t, FALSE)'
      BY <1>1, <1>3, <3>1, <3>2, PlaceStays
    <3>4. FALSE \in BOOLEAN
      OBVIOUS
    <3> QED
      BY <3>1, <3>3, <3>4 DEF ReceiveInv
  <2>2. CASE at = "action" /\ toBooster # <<>> /\ Head(toBooster) = Junk /\ ~Undisturbed
    BY <1>1, <1>2, <1>3, <2>2 DEF ReceiveInv
  <2>3. CASE toBooster = <<>> /\ InvokerGone
    BY <1>1, <2>3 DEF ReceiveInv, InvokerGone
  <2>4. CASE ~Receiving
    BY <1>2, <2>4 DEF Receiving, ReceiveInv
  <2> QED
    BY <1>1, <2>1, <2>2, <2>3, <2>4 DEF ReceiveInv
<1> QED
  BY <1>5, <1>6 DEF RequestHalf

\* An invoker that reads, or crashes, has not been gone.
LEMMA InvokerKeepsRequest ==
  ASSUME ConversationInv, SendEnd \/ RecvAck \/ RecvPid \/ RecvExit \/ InvokerCrashes
  PROVE  RequestHalf'
<1>1. ~InvokerGone
  BY DEF SendEnd, RecvAck, RecvPid, RecvExit, InvokerCrashes, InvokerReads, InvokerGone, InvokerOver
<1>2. UNCHANGED <<request, booster, sent, toBooster>>
  BY DEF SendEnd, RecvAck, RecvPid, RecvExit, InvokerCrashes, TakeAnswer
<1>3. ~Undisturbed => ~Undisturbed'
  <2>1. CASE InvokerCrashes
    <3>1. faults \in Nat /\ MaxFaults \in Nat /\ faults <= MaxFaults
      BY FaultsLeft DEF ConversationInv
    <3>2. faults - 1 # MaxFaults
      BY <3>1
    <3> QED
      BY <2>1, <3>2 DEF InvokerCrashes, Fault, Undisturbed
  <2>2. CASE ~InvokerCrashes
    BY <2>2 DEF SendEnd, RecvAck, RecvPid, RecvExit, TakeAnswer, Undisturbed
  <2> QED
    BY <2>1, <2>2
<1>4. RequestHalf
  BY DEF ConversationInv
<1> QED
  BY <1>1, <1>2, <1>3, <1>4, OthersKeepRequest

\* A booster that answers has accepted, and goes on answering if the invoker
\* waits.
LEMMA RepliesAre ==
  ASSUME Reply
  PROVE  /\ Accepted /\ ~Receiving /\ at \notin BoosterOver
         /\ UNCHANGED <<request, invoker, into, left, wait, got, toBooster, ignores, faults>>
         /\ at' \in {"pid", "decide", "pid value", "served", "exit value", "rejected", "sigpipe"}
         /\ at' = "pid" => wait
         /\ at' = "pid value" => wait \/ at = "pid"
         /\ at' = "exit value" => wait
<1>1. CASE SendAck
  BY <1>1 DEF SendAck, Write, Accepted, Receiving, BoosterOver
<1>2. CASE SendPid
  BY <1>2 DEF SendPid, Write, Accepted, Receiving, BoosterOver
<1>3. CASE Serve
  BY <1>3 DEF Serve, Accepted, Receiving, BoosterOver
<1>4. CASE SendExitValue
  BY <1>4 DEF SendExitValue, Write, Accepted, Receiving, BoosterOver
<1> QED
  BY <1>1, <1>2, <1>3, <1>4 DEF Reply

LEMMA ReplyKeepsRequest ==
  ASSUME ConversationInv, Reply \/ BoosterCrashes
  PROVE  RequestHalf'
<1>1. RequestHalf /\ (Accepted /\ at = "pid" => wait) /\ (at = "pid" => Accepted)
  BY DEF ConversationInv, RequestHalf, AcceptInv, Accepted
<1>2. UNCHANGED <<request, invoker, wait, got>>
  BY RepliesAre DEF BoosterCrashes
<1>3. ~Undisturbed => ~Undisturbed'
  <2>1. CASE Reply
    BY <2>1, RepliesAre DEF Undisturbed
  <2>2. CASE BoosterCrashes
    <3>1. faults \in Nat /\ MaxFaults \in Nat /\ faults <= MaxFaults
      BY FaultsLeft DEF ConversationInv
    <3>2. faults - 1 # MaxFaults
      BY <3>1
    <3> QED
      BY <2>2, <3>2 DEF BoosterCrashes, Fault, Undisturbed
  <2> QED
    BY <2>1, <2>2
<1>4. /\ Accepted' => Accepted
      /\ at' \in {"pid", "pid value", "exit value"} => wait
      /\ at' # "refused" /\ ~Receiving'
  <2>1. CASE Reply
    BY <1>1, <2>1, RepliesAre DEF Receiving
  <2>2. CASE BoosterCrashes
    BY <2>2 DEF BoosterCrashes, Accepted, Receiving
  <2> QED
    BY <2>1, <2>2
<1>5. sent' = sent
  BY <1>2 DEF invoker
<1>6. AcceptInv' /\ RefusedForCause'
  BY <1>1, <1>2, <1>3, <1>4, <1>5, AcceptedStays
<1> QED
  BY <1>4, <1>6 DEF RequestHalf, ReceiveInv

\* The request's half is kept by every step.
LEMMA RequestStep ==
  ASSUME ConversationInv, [Next]_vars
  PROVE  RequestHalf'
<1>1. CASE Next
  BY <1>1, SendKeepsRequest, LossKeepsRequest, InvokerKeepsRequest, ReceiveKeepsRequest,
     ReplyKeepsRequest DEF Next, InvokerRuns, BoosterRuns
<1>2. CASE UNCHANGED vars
  <2>1. UNCHANGED <<request, booster, sent, toBooster, inv, faults>>
    BY <1>2 DEF vars, invoker
  <2> QED
    BY <2>1, OthersKeepRequest DEF ConversationInv, Undisturbed, InvokerGone
<1> QED
  BY <1>1, <1>2


-----------------------------------------------------------------------------
(* The answer's half.                                                      *)

\* Nothing is written, and nothing read, but the invoker may turn to reading.
LEMMA AnswerStays ==
  ASSUME AnswerHalf, UNCHANGED <<request, at, wait, toInvoker>>,
         inv' = inv \/ (inv = "send" /\ inv' = "ack"), ~Undisturbed => ~Undisturbed'
  PROVE  AnswerHalf'
<1>1. Read' = Read /\ Written' = Written /\ InvokerGone' = InvokerGone
  <2>1. Written' = Written
    BY DEF Written
  <2>2. CASE inv' = inv
    BY <2>1, <2>2 DEF Read, InvokerGone
  <2>3. CASE inv = "send" /\ inv' = "ack"
    BY <2>1, <2>3 DEF Read, InvokerGone, InvokerOver
  <2> QED
    BY <2>2, <2>3
<1>2. AnswerInv'
  BY <1>1 DEF AnswerHalf, AnswerInv, Word
<1>3. Agreement'
  BY DEF AnswerHalf, Agreement, Accepted
<1> QED
  BY <1>2, <1>3 DEF AnswerHalf

\* While the booster receives, nothing has been written; and so the invoker has
\* not gone further than the end of its request.
LEMMA NothingWritten ==
  ASSUME ConversationInv, Receiving
  PROVE  inv \in {"send", "ack", "crashed"} /\ ~(inv # "crashed" /\ toInvoker # <<>>)
<1>1. at \notin BoosterOver /\ ~Accepted /\ at # "crashed" /\ at # "sigpipe"
  BY DEF Receiving, BoosterOver, Accepted
<1>2. inv \in {"send", "ack", "crashed"}
  <2>1. inv \in {"send", "ack", "pid", "pid value", "wait", "exit value"} \cup InvokerOver
    BY DEF ConversationInv, TypeOK
  <2> QED
    BY <1>1, <2>1 DEF ConversationInv, AnswerHalf, Agreement, InvokerOver
<1>3. ASSUME inv # "crashed"
      PROVE  toInvoker = <<>>
  <2>1. ~InvokerGone /\ Read = 0
    BY <1>2, <1>3 DEF InvokerGone, InvokerOver, Read
  <2>2. Written = 0
    BY DEF Receiving, Written
  <2>3. Len(toInvoker) = 0
    BY <1>1, <2>1, <2>2 DEF ConversationInv, AnswerHalf, AnswerInv
  <2>4. toInvoker \in Seq(Item)
    BY DEF ConversationInv, TypeOK
  <2> QED
    BY <2>3, <2>4, EmptySeq
<1> QED
  BY <1>2, <1>3

LEMMA ReceiveKeepsAnswer ==
  ASSUME ConversationInv, Receive \/ ReceiveIOFails
  PROVE  AnswerHalf'
<1>1. Receiving /\ UNCHANGED <<request, invoker, toInvoker>>
  BY ReadsReceive DEF ReceiveIOFails, Receiving
<1>2. inv' = inv /\ inv \in {"send", "ack", "crashed"} /\ (inv # "crashed" => toInvoker = <<>>)
  BY <1>1, NothingWritten DEF invoker
<1>3. ~Undisturbed => ~Undisturbed'
  <2>1. CASE Receive
    BY <2>1, ReadsReceive DEF Undisturbed
  <2>2. CASE ReceiveIOFails
    <3>1. faults \in Nat /\ MaxFaults \in Nat /\ faults <= MaxFaults
      BY FaultsLeft DEF ConversationInv
    <3>2. faults - 1 # MaxFaults
      BY <3>1
    <3> QED
      BY <2>2, <3>2 DEF ReceiveIOFails, Fault, Undisturbed
  <2> QED
    BY <2>1, <2>2
<1>4. at' \in {"magic", "name", "size", "text", "action", "count", "number", "fds", "refused", "ack"}
  <2>1. CASE ReceiveMagic \/ ReceiveAppName
    BY <2>1 DEF ReceiveMagic, ReceiveAppName
  <2>2. CASE ReceiveAction
    BY <2>2 DEF ReceiveAction, PlaceAfter
  <2>3. CASE ReceiveCount \/ ReceiveNumber \/ ReceiveIO \/ ReceiveIOFails
    BY <2>3 DEF ReceiveCount, ReceiveNumber, ReceiveIO, ReceiveIOFails
  <2>4. CASE ReceiveSize \/ ReceiveText
    BY <2>4 DEF ReceiveSize, ReceiveText, StringFails
  <2> QED
    BY <2>1, <2>2, <2>3, <2>4 DEF Receive
<1>5. Agreement'
  BY <1>2 DEF Agreement
<1>6. AnswerInv'
  <2>1. SUFFICES ASSUME ~InvokerGone'
                 PROVE  AnswerInv'
    BY DEF AnswerInv
  <2>2. inv \in {"send", "ack"} /\ toInvoker' = <<>>
    BY <1>1, <1>2, <2>1 DEF InvokerGone, InvokerOver
  <2>3. Read' = 0 /\ Written' = 0 /\ at' # "sigpipe" /\ at' # "crashed"
    BY <1>2, <1>4, <2>2 DEF Read, Written
  <2>4. Len(toInvoker') = 0 /\ 0 \in 0 .. 5 /\ 0 = 0 - 0
    BY <2>2
  <2> QED
    BY <2>2, <2>3, <2>4 DEF AnswerInv
<1>7. inv' = "crashed" => ~Undisturbed'
  BY <1>2, <1>3 DEF ConversationInv, AnswerHalf
<1> QED
  BY <1>5, <1>6, <1>7 DEF AnswerHalf

\* The invoker, writing: SIGPIPE kills it only if the booster has given up or
\* crashed.
LEMMA SendKeepsAnswer ==
  ASSUME ConversationInv, SendItem \/ SendIOFails \/ SendEnd
  PROVE  AnswerHalf'
<1>1. /\ UNCHANGED <<request, booster, toInvoker>> /\ inv = "send"
      /\ AnswerHalf
  BY DEF SendItem, SendIOFails, SendEnd, ConversationInv
<1>2. at' = at /\ wait' = wait
  BY <1>1 DEF booster
<1>3. ~Undisturbed => ~Undisturbed'
  <2>1. CASE SendItem \/ SendEnd
    BY <2>1 DEF SendItem, SendEnd, Undisturbed
  <2>2. CASE SendIOFails
    <3>1. faults \in Nat /\ MaxFaults \in Nat /\ faults <= MaxFaults
      BY FaultsLeft DEF ConversationInv
    <3>2. faults - 1 # MaxFaults
      BY <3>1
    <3> QED
      BY <2>2, <3>2 DEF SendIOFails, Fault, Undisturbed
  <2> QED
    BY <2>1, <2>2
<1>4. CASE inv' # "sigpipe"
  <2>1. inv' = inv \/ inv' = "ack"
    BY <1>4 DEF SendItem, SendIOFails, SendEnd
  <2> QED
    BY <1>1, <1>2, <1>3, <2>1, AnswerStays
<1>5. CASE inv' = "sigpipe"
  <2>1. SendItem /\ BoosterGone
    BY <1>1, <1>5 DEF SendItem, SendIOFails, SendEnd
  <2>2. ~Accepted
    <3>1. Accepted => sent = Len(Wire(request))
      BY DEF ConversationInv, RequestHalf, AcceptInv
    <3>2. sent \in Nat /\ Len(Wire(request)) \in Nat
      <4>1. request \in Requests /\ sent \in 0 .. Len(Wire(request))
        BY DEF ConversationInv, TypeOK
      <4> QED
        BY <4>1, Stations
    <3> QED
      BY <2>1, <3>1, <3>2 DEF SendItem
  <2>3. at \in BoosterOver \ {"rejected"}
    BY <2>1, <2>2 DEF BoosterGone, Accepted
  <2>4. Agreement'
    BY <1>2, <1>5, <2>3 DEF Agreement
  <2>5. InvokerGone'
    BY <1>5 DEF InvokerGone, InvokerOver
  <2> QED
    BY <1>5, <2>4, <2>5 DEF AnswerHalf, AnswerInv
<1> QED
  BY <1>4, <1>5


\* The numbers of words.
LEMMA HowManyWords ==
  /\ Read \in 0 .. 4
  /\ at \in {"decide", "served", "rejected"} => Written # 0
  /\ Written = 5 => at = "rejected"
  /\ at \notin {"pid", "pid value", "decide", "served", "exit value", "rejected"} => Written = 0
<1>1. Read \in 0 .. 4
  BY DEF Read
<1>2. CASE at \in {"decide", "served"}
  <2>1. Written = IF wait THEN 3 ELSE 1
    BY <1>2 DEF Written
  <2>2. Written # 0 /\ Written # 5
    BY <2>1
  <2> QED
    BY <1>1, <1>2, <2>2, Zenon
<1>3. CASE at = "rejected"
  <2>1. Written = IF wait THEN 5 ELSE 1
    BY <1>3 DEF Written
  <2> QED
    BY <1>1, <1>3, <2>1
<1>4. CASE at \in {"pid", "pid value", "exit value"}
  <2>1. Written \in {1, 2, 4}
    BY <1>4 DEF Written
  <2>2. Written # 5
    BY <2>1
  <2>3. at \notin {"decide", "served", "rejected"}
    BY <1>4
  <2> QED
    BY <1>1, <1>4, <2>2, <2>3, Zenon
<1>5. CASE at \notin {"pid", "pid value", "decide", "served", "exit value", "rejected"}
  <2>1. Written = 0
    BY <1>5 DEF Written
  <2>2. Written # 5
    BY <2>1
  <2>3. at \notin {"decide", "served", "rejected"}
    BY <1>5
  <2> QED
    BY <1>1, <2>1, <2>2, <2>3, Zenon
<1> QED
  BY <1>2, <1>3, <1>4, <1>5

\* At the end of an answer that has begun, the booster has crashed;
LEMMA NoMoreWords ==
  ASSUME ConversationInv, ~InvokerGone, toInvoker = <<>>, BoosterGone
  PROVE  /\ Read > 0 => at = "crashed"
         /\ Read = 0 => at \in BoosterOver \ {"rejected"}
<1>1. /\ at # "sigpipe" /\ (Read > 0 => request.wait)
      /\ \E w \in 0 .. 5 : /\ IF at = "crashed" THEN w <= 4 ELSE w = Written
                           /\ Len(toInvoker) = w - Read
  BY DEF ConversationInv, AnswerHalf, AnswerInv
<1>2. Read \in 0 .. 4
  BY DEF Read
<1>3. at # "crashed" => Written = Read
  <2>1. Len(toInvoker) = 0
    OBVIOUS
  <2> QED
    BY <1>1, <1>2, <2>1
<1>4. Accepted => wait = request.wait
  BY DEF ConversationInv, RequestHalf, AcceptInv
<1>5. CASE at = "crashed"
  BY <1>5 DEF BoosterOver
<1>6. CASE at # "crashed" /\ Read > 0
  <2>1. at \in {"refused", "rejected", "decide", "served"} /\ (at \in {"decide", "served"} => ~wait)
    BY <1>1, <1>6 DEF BoosterGone, BoosterOver
  <2>2. at # "refused" => wait
    BY <1>1, <1>4, <1>6, <2>1 DEF Accepted
  <2>3. Written = 0 \/ Written = 5
    BY <2>1, <2>2 DEF Written
  <2> QED
    BY <1>2, <1>3, <1>6, <2>3
<1>7. CASE at # "crashed" /\ ~(Read > 0)
  <2>1. Written = 0
    BY <1>2, <1>3, <1>7
  <2>2. at \notin {"rejected", "decide", "served"}
    BY <2>1, HowManyWords
  <2> QED
    BY <1>7, <2>2 DEF BoosterGone
<1> QED
  BY <1>5, <1>6, <1>7

\* and a word that comes is the next of the answer.
LEMMA NextWord ==
  ASSUME ConversationInv, ~InvokerGone, toInvoker # <<>>
  PROVE  /\ Head(toInvoker) \in Word(Read + 1)
         /\ Accepted \/ at = "crashed"
         /\ Read = 4 => at = "rejected"
<1>1. Read \in 0 .. 4
  BY DEF Read
<1>2. Len(toInvoker) \in Nat \ {0} /\ Head(toInvoker) = toInvoker[1]
  <2>1. toInvoker \in Seq(Item)
    BY DEF ConversationInv, TypeOK
  <2> QED
    BY <2>1, HeadAndTail
<1>3. PICK w \in 0 .. 5 :
         /\ IF at = "crashed" THEN w <= 4 ELSE w = Written
         /\ Len(toInvoker) = w - Read
         /\ \A k \in 1 .. Len(toInvoker) : toInvoker[k] \in Word(Read + k)
  BY DEF ConversationInv, AnswerHalf, AnswerInv
<1>4. Head(toInvoker) \in Word(Read + 1)
  BY <1>2, <1>3
<1>5. w > Read /\ (Read = 4 => w = 5)
  BY <1>1, <1>2, <1>3
<1>6. at # "crashed" => Written > Read /\ (Read = 4 => Written = 5)
  BY <1>3, <1>5
<1>7. at # "crashed" => Accepted
  <2>1. at \notin {"pid", "pid value", "decide", "served", "exit value", "rejected"} => Written = 0
    BY HowManyWords
  <2>2. at # "crashed" => Written # 0
    BY <1>1, <1>6
  <2> QED
    BY <2>1, <2>2, Zenon DEF Accepted
<1>8. Read = 4 => at = "rejected"
  <2>1. Read = 4 => at # "crashed" /\ Written = 5
    BY <1>3, <1>5, <1>6
  <2>2. Written = 5 => at = "rejected"
    BY HowManyWords
  <2> QED
    BY <2>1, <2>2
<1> QED
  BY <1>4, <1>7, <1>8

\* Reading it moves the invoker on in the answer.
LEMMA AnswerMoves ==
  ASSUME ConversationInv, ~InvokerGone, toInvoker # <<>>, TakeAnswer,
         Read' = Read + 1, request.wait
  PROVE  AnswerInv'
<1>1. Read \in 0 .. 4
  BY HowManyWords
<1>2. /\ Len(toInvoker) \in Nat \ {0} /\ Len(toInvoker') = Len(toInvoker) - 1
      /\ \A k \in 1 .. Len(toInvoker) - 1 : toInvoker'[k] = toInvoker[k + 1]
  <2>1. toInvoker \in Seq(Item) /\ toInvoker' = Tail(toInvoker)
    BY DEF ConversationInv, TypeOK, TakeAnswer
  <2> QED
    BY <2>1, HeadAndTail
<1>3. PICK w \in 0 .. 5 :
         /\ at # "sigpipe"
         /\ IF at = "crashed" THEN w <= 4 ELSE w = Written
         /\ Len(toInvoker) = w - Read
         /\ \A k \in 1 .. Len(toInvoker) : toInvoker[k] \in Word(Read + k)
  BY DEF ConversationInv, AnswerHalf, AnswerInv
<1>4. at' = at /\ wait' = wait /\ request' = request
  BY DEF TakeAnswer, booster
<1>5. Written' = Written
  BY <1>4 DEF Written
<1>6. Len(toInvoker') = w - Read'
  BY <1>1, <1>2, <1>3
<1>7. ASSUME NEW k \in 1 .. Len(toInvoker')
      PROVE  toInvoker'[k] \in Word(Read' + k)
  <2>1. k + 1 \in 1 .. Len(toInvoker) /\ k \in 1 .. Len(toInvoker) - 1
    BY <1>2
  <2>2. Read + (k + 1) = Read' + k
    BY <1>1, <2>1
  <2>3. toInvoker'[k] \in Word(Read + (k + 1))
    BY <1>2, <1>3, <2>1
  <2> QED
    BY <2>2, <2>3 DEF Word
<1> QED
  BY <1>3, <1>4, <1>5, <1>6, <1>7 DEF AnswerInv


\* The words differ from what they are compared with.
LEMMA WordsDiffer ==
  /\ Zero # Tag("ACK") /\ Zero # Tag("PID") /\ Zero # Tag("EXIT") /\ Number(1) # Zero
  /\ Word(1) = {Tag("ACK")} /\ Word(2) = {Tag("PID")} /\ Word(3) = {Number(1)}
  /\ Word(4) = {Tag("EXIT")} /\ Word(5) = {Number(0), Number(1)}
<1>1. /\ Zero.kind = "number" /\ Zero.val = 0 /\ Number(1).val = 1
      /\ \A t : Tag(t).kind = t
  BY DEF Zero, Number, Tag
<1>2. Zero # Tag("ACK") /\ Zero # Tag("PID") /\ Zero # Tag("EXIT") /\ Number(1) # Zero
  BY <1>1
<1>3. /\ Word(1) = {Tag("ACK")} /\ Word(2) = {Tag("PID")} /\ Word(3) = {Number(1)}
      /\ Word(4) = {Tag("EXIT")} /\ Word(5) = {Number(0), Number(1)}
  BY DEF Word
<1> QED
  BY <1>2, <1>3

\* An answer that ends: the invoker dies, or is lost, for a booster that has
\* given up or crashed.
LEMMA EndOfAnswer ==
  ASSUME ConversationInv, RecvAck \/ RecvPid \/ RecvExit, toInvoker = <<>>
  PROVE  AnswerHalf'
<1>1. /\ ~InvokerGone /\ TakeAnswer /\ BoosterGone
  BY DEF RecvAck, RecvPid, RecvExit, InvokerReads, InvokerGone, InvokerOver
<1>2. at' = at
  BY <1>1 DEF TakeAnswer, booster
<1>3. Answer = Zero
  BY DEF Answer
<1>4. /\ inv' \in {"died", "lost"}
      /\ inv' = "lost" => inv \in {"wait", "exit value"}
  <2>1. CASE RecvAck
    BY <1>3, <2>1, WordsDiffer DEF RecvAck, InvokerReads
  <2>2. CASE RecvPid
    BY <1>3, <2>2, WordsDiffer DEF RecvPid, InvokerReads
  <2>3. CASE RecvExit
    BY <1>3, <2>3, WordsDiffer DEF RecvExit, InvokerReads
  <2> QED
    BY <2>1, <2>2, <2>3
<1>5. inv' = "lost" => Read > 0
  <2>1. inv = "wait" => Read = 3
    BY DEF Read
  <2>2. inv = "exit value" => Read = 4
    BY DEF Read
  <2>3. Read = 3 \/ Read = 4 => Read > 0
    OBVIOUS
  <2> QED
    BY <1>4, <2>1, <2>2, <2>3, Zenon
<1>6. /\ at \in BoosterOver \ {"rejected"}
      /\ inv' = "lost" => at = "crashed"
  <2>1. "crashed" \in BoosterOver \ {"rejected"}
    BY DEF BoosterOver
  <2>2. Read > 0 \/ Read = 0
    <3>1. Read \in 0 .. 4
      BY HowManyWords
    <3> QED
      BY <3>1
  <2> QED
    BY <1>1, <1>5, <2>1, <2>2, NoMoreWords
<1>7. InvokerGone' /\ Agreement' /\ inv' # "crashed"
  BY <1>2, <1>4, <1>6 DEF InvokerGone, InvokerOver, Agreement
<1> QED
  BY <1>7 DEF AnswerHalf, AnswerInv

\* A word that comes is the one that is expected.
LEMMA WordExpected ==
  ASSUME ConversationInv, RecvAck \/ RecvPid \/ RecvExit, toInvoker # <<>>
  PROVE  /\ inv' \in {"done", "told"} \/ (request.wait /\ Read' = Read + 1)
         /\ inv' \in {"done", "pid", "pid value", "wait", "exit value", "told"}
         /\ inv' = "told" => at = "rejected"
<1>1. ~InvokerGone
  BY DEF RecvAck, RecvPid, RecvExit, InvokerReads, InvokerGone, InvokerOver
<1>2. Answer = Head(toInvoker) /\ Head(toInvoker) \in Word(Read + 1)
  BY <1>1, NextWord DEF Answer
<1>3. (Read > 0 => request.wait) /\ (Read = 4 => at = "rejected")
  BY <1>1, NextWord DEF ConversationInv, AnswerHalf, AnswerInv
<1>4. CASE RecvAck
  <2>1. inv = "ack" /\ inv' = IF Answer = Tag("ACK") THEN IF request.wait THEN "pid" ELSE "done" ELSE "died"
    BY <1>4 DEF RecvAck, InvokerReads
  <2>2. Read = 0
    BY <2>1 DEF Read
  <2>3. Answer \in Word(1)
    BY <1>2, <2>2
  <2>4. inv' = IF request.wait THEN "pid" ELSE "done"
    BY <2>1, <2>3, WordsDiffer
  <2>5. CASE inv' = "pid" /\ request.wait
    <3>1. Read' = 1
      BY <2>5 DEF Read
    <3> QED
      BY <2>2, <2>5, <3>1
  <2> QED
    BY <2>4, <2>5
<1>5. CASE RecvPid /\ inv = "pid"
  <2>1. inv' = IF Answer = Tag("PID") THEN "pid value" ELSE "died"
    BY <1>5 DEF RecvPid, InvokerReads
  <2>2. Read = 1
    BY <1>5 DEF Read
  <2>3. Answer \in Word(2)
    BY <1>2, <2>2
  <2>4. inv' = "pid value"
    BY <2>1, <2>3, WordsDiffer
  <2>5. Read' = 2
    BY <2>4 DEF Read
  <2>6. Read > 0 /\ Read' = Read + 1
    BY <2>2, <2>5
  <2> QED
    BY <1>3, <2>4, <2>6, Zenon
<1>6. CASE RecvPid /\ inv # "pid"
  <2>1. inv = "pid value" /\ inv' = IF Answer = Zero THEN "died" ELSE "wait"
    BY <1>6 DEF RecvPid, InvokerReads
  <2>2. Read = 2
    BY <2>1 DEF Read
  <2>3. Answer \in Word(3)
    BY <1>2, <2>2
  <2>4. inv' = "wait"
    BY <2>1, <2>3, WordsDiffer
  <2>5. Read' = 3
    BY <2>4 DEF Read
  <2>6. Read > 0 /\ Read' = Read + 1
    BY <2>2, <2>5
  <2> QED
    BY <1>3, <2>4, <2>6, Zenon
<1>7. CASE RecvExit /\ inv = "wait"
  <2>1. inv' = IF Answer = Tag("EXIT") THEN "exit value" ELSE "lost"
    BY <1>7 DEF RecvExit, InvokerReads
  <2>2. Read = 3
    BY <1>7 DEF Read
  <2>3. Answer \in Word(4)
    BY <1>2, <2>2
  <2>4. inv' = "exit value"
    BY <2>1, <2>3, WordsDiffer
  <2>5. Read' = 4
    BY <2>4 DEF Read
  <2>6. Read > 0 /\ Read' = Read + 1
    BY <2>2, <2>5
  <2> QED
    BY <1>3, <2>4, <2>6, Zenon
<1>8. CASE RecvExit /\ inv # "wait"
  <2>1. inv = "exit value" /\ inv' = "told"
    BY <1>8 DEF RecvExit, InvokerReads
  <2>2. Read = 4
    BY <2>1 DEF Read
  <2> QED
    BY <1>3, <2>1, <2>2
<1> QED
  BY <1>4, <1>5, <1>6, <1>7, <1>8

LEMMA ReadKeepsAnswer ==
  ASSUME ConversationInv, RecvAck \/ RecvPid \/ RecvExit
  PROVE  AnswerHalf'
<1>1. CASE toInvoker = <<>>
  BY <1>1, EndOfAnswer
<1>2. CASE toInvoker # <<>>
  <2>1. ~InvokerGone /\ TakeAnswer
    BY DEF RecvAck, RecvPid, RecvExit, InvokerReads, InvokerGone, InvokerOver
  <2>2. at' = at
    BY <2>1 DEF TakeAnswer, booster
  <2>3. /\ inv' \in {"done", "told"} \/ (request.wait /\ Read' = Read + 1)
        /\ inv' \in {"done", "pid", "pid value", "wait", "exit value", "told"}
        /\ inv' = "told" => at = "rejected"
    BY <1>2, WordExpected
  <2>4. AnswerInv'
    <3>1. CASE inv' \in {"done", "told"}
      BY <3>1 DEF AnswerInv, InvokerGone, InvokerOver
    <3>2. CASE request.wait /\ Read' = Read + 1
      BY <1>2, <2>1, <3>2, AnswerMoves
    <3> QED
      BY <2>3, <3>1, <3>2
  <2>5. Accepted \/ at = "crashed"
    BY <1>2, <2>1, NextWord
  <2>6. Agreement'
    BY <2>2, <2>3, <2>5 DEF Agreement, Accepted
  <2> QED
    BY <2>3, <2>4, <2>6 DEF AnswerHalf
<1> QED
  BY <1>1, <1>2

LEMMA CrashKeepsAnswer ==
  ASSUME ConversationInv, InvokerCrashes
  PROVE  AnswerHalf'
<1>1. inv' = "crashed"
  BY DEF InvokerCrashes
<1>2. ~Undisturbed'
  <2>1. faults \in Nat /\ MaxFaults \in Nat /\ faults <= MaxFaults
    BY FaultsLeft DEF ConversationInv
  <2>2. faults - 1 # MaxFaults
    BY <2>1
  <2> QED
    BY <2>2 DEF InvokerCrashes, Fault, Undisturbed
<1> QED
  BY <1>1, <1>2 DEF AnswerHalf, AnswerInv, Agreement, InvokerGone, InvokerOver


\* A word more that the booster writes.
LEMMA AnswerGrows ==
  ASSUME ConversationInv, ~InvokerGone, at # "crashed",
         NEW n \in 0 .. 4, Written = n, Written' = n + 1,
         NEW item, item \in Word(n + 1), toInvoker' = Append(toInvoker, item),
         UNCHANGED <<request, inv>>, at' \notin {"crashed", "sigpipe"}
  PROVE  AnswerInv'
<1>1. Read \in 0 .. 4
  BY HowManyWords
<1>2. /\ Len(toInvoker) \in Nat /\ Len(toInvoker') = Len(toInvoker) + 1
      /\ \A k \in 1 .. Len(toInvoker) : toInvoker'[k] = toInvoker[k]
      /\ toInvoker'[Len(toInvoker) + 1] = item
  <2>1. toInvoker \in Seq(Item)
    BY DEF ConversationInv, TypeOK
  <2> QED
    BY <2>1, AppendItem
<1>3. /\ Read > 0 => request.wait
      /\ Len(toInvoker) = n - Read
      /\ \A k \in 1 .. Len(toInvoker) : toInvoker[k] \in Word(Read + k)
  BY DEF ConversationInv, AnswerHalf, AnswerInv
<1>4. Read' = Read
  BY DEF Read
<1>5. Len(toInvoker') = (n + 1) - Read' /\ n + 1 \in 0 .. 5
  BY <1>1, <1>2, <1>3, <1>4
<1>6. ASSUME NEW k \in 1 .. Len(toInvoker')
      PROVE  toInvoker'[k] \in Word(Read' + k)
  <2>1. CASE k \in 1 .. Len(toInvoker)
    BY <1>2, <1>3, <1>4, <2>1, Zenon
  <2>2. CASE k = Len(toInvoker) + 1
    <3>1. Read' + k = n + 1
      BY <1>1, <1>2, <1>3, <1>4, <2>2
    <3>2. toInvoker'[k] = item
      BY <1>2, <2>2
    <3> QED
      BY <3>1, <3>2
  <2>3. k \in 1 .. Len(toInvoker) \/ k = Len(toInvoker) + 1
    BY <1>2
  <2> QED
    BY <2>1, <2>2, <2>3
<1>7. (Read' > 0 => request'.wait)
  BY <1>3, <1>4
<1> QED
  BY <1>5, <1>6, <1>7 DEF AnswerInv, Word

\* What the booster writes is the next word, if it writes one.
LEMMA WordWritten ==
  ASSUME ConversationInv, Reply, ~InvokerGone
  PROVE  AnswerInv'
<1>1. Accepted /\ UNCHANGED <<request, inv, wait>>
  BY RepliesAre DEF invoker
<1>2. at # "crashed" /\ (at \in {"pid", "pid value", "exit value"} => wait)
  BY <1>1 DEF ConversationInv, RequestHalf, AcceptInv, Accepted
<1>3. CASE SendAck
  <2>1. /\ at = "ack" /\ at' = IF wait THEN "pid" ELSE "decide"
        /\ toInvoker' = Append(toInvoker, Tag("ACK"))
    BY <1>3 DEF SendAck, Write
  <2>2. Written = 0
    BY <2>1 DEF Written
  <2>3. Written' = 1
    BY <1>1, <2>1 DEF Written
  <2>4. 0 \in 0 .. 4 /\ 0 + 1 = 1
    OBVIOUS
  <2>5. Tag("ACK") \in Word(1) /\ at' \notin {"crashed", "sigpipe"}
    BY <2>1, WordsDiffer
  <2> QED
    BY <1>1, <1>2, <2>1, <2>2, <2>3, <2>4, <2>5, AnswerGrows
<1>4. CASE SendPid /\ at = "pid"
  <2>1. at' = "pid value" /\ toInvoker' = Append(toInvoker, Tag("PID"))
    BY <1>4 DEF SendPid, Write
  <2>2. Written = 1
    BY <1>4 DEF Written
  <2>3. Written' = 2
    BY <2>1 DEF Written
  <2>4. 1 \in 0 .. 4 /\ 1 + 1 = 2
    OBVIOUS
  <2>5. Tag("PID") \in Word(2) /\ at' \notin {"crashed", "sigpipe"}
    BY <2>1, WordsDiffer
  <2> QED
    BY <1>1, <1>2, <2>1, <2>2, <2>3, <2>4, <2>5, AnswerGrows
<1>5. CASE SendPid /\ at # "pid"
  <2>1. at = "pid value" /\ at' = "decide" /\ toInvoker' = Append(toInvoker, Number(1))
    BY <1>5 DEF SendPid, Write
  <2>2. Written = 2
    BY <2>1 DEF Written
  <2>3. Written' = 3
    BY <1>1, <1>2, <2>1 DEF Written
  <2>4. 2 \in 0 .. 4 /\ 2 + 1 = 3
    OBVIOUS
  <2>5. Number(1) \in Word(3) /\ at' \notin {"crashed", "sigpipe"}
    BY <2>1, WordsDiffer
  <2> QED
    BY <1>1, <1>2, <2>1, <2>2, <2>3, <2>4, <2>5, AnswerGrows
<1>6. CASE SendExitValue /\ at = "decide" /\ wait
  <2>1. at' = "exit value" /\ toInvoker' = Append(toInvoker, Tag("EXIT"))
    BY <1>6 DEF SendExitValue, Write
  <2>2. Written = 3
    BY <1>6 DEF Written
  <2>3. Written' = 4
    BY <2>1 DEF Written
  <2>4. 3 \in 0 .. 4 /\ 3 + 1 = 4
    OBVIOUS
  <2>5. Tag("EXIT") \in Word(4) /\ at' \notin {"crashed", "sigpipe"}
    BY <2>1, WordsDiffer
  <2> QED
    BY <1>1, <1>2, <2>1, <2>2, <2>3, <2>4, <2>5, AnswerGrows
<1>7. CASE SendExitValue /\ at = "exit value"
  <2>1. PICK v \in {0, 1} : at' = "rejected" /\ toInvoker' = Append(toInvoker, Number(v))
    BY <1>7 DEF SendExitValue, Write
  <2>2. Written = 4
    BY <1>7 DEF Written
  <2>3. Written' = 5
    BY <1>1, <1>2, <1>7, <2>1 DEF Written
  <2>4. 4 \in 0 .. 4 /\ 4 + 1 = 5
    OBVIOUS
  <2>5. Number(v) \in Word(5) /\ at' \notin {"crashed", "sigpipe"}
    BY <2>1, WordsDiffer
  <2> QED
    BY <1>1, <1>2, <2>1, <2>2, <2>3, <2>4, <2>5, AnswerGrows
<1>8. CASE \/ Serve
           \/ SendExitValue /\ at = "decide" /\ ~wait
  <2>1. /\ at = "decide" /\ at' \in {"served", "rejected"} /\ (at' = "rejected" => ~wait)
        /\ toInvoker' = toInvoker
    BY <1>8 DEF Serve, SendExitValue
  <2>2. Written' = Written
    <3>1. Written = IF wait THEN 3 ELSE 1
      BY <2>1 DEF Written
    <3>2. CASE at' = "served"
      BY <1>1, <3>1, <3>2 DEF Written
    <3>3. CASE at' = "rejected" /\ ~wait
      BY <1>1, <3>1, <3>3 DEF Written
    <3> QED
      BY <2>1, <3>2, <3>3
  <2>3. Read' = Read
    BY <1>1 DEF Read
  <2> QED
    BY <1>1, <1>2, <2>1, <2>2, <2>3 DEF ConversationInv, AnswerHalf, AnswerInv, Word
<1>9. SendExitValue => at = "decide" \/ at = "exit value"
  BY DEF SendExitValue
<1> QED
  BY <1>3, <1>4, <1>5, <1>6, <1>7, <1>8, <1>9 DEF Reply

LEMMA ReplyKeepsAnswer ==
  ASSUME ConversationInv, Reply \/ BoosterCrashes
  PROVE  AnswerHalf'
<1>1. CASE Reply
  <2>1. /\ Accepted /\ at \notin BoosterOver /\ UNCHANGED <<request, inv, faults>>
        /\ at' \in {"pid", "decide", "pid value", "served", "exit value", "rejected", "sigpipe"}
    BY <1>1, RepliesAre DEF invoker
  <2>2. Agreement'
    BY <2>1 DEF ConversationInv, AnswerHalf, Agreement, Accepted, BoosterOver
  <2>3. InvokerGone => InvokerGone'
    BY <2>1 DEF InvokerGone
  <2>4. AnswerInv'
    BY <1>1, <2>3, WordWritten DEF AnswerInv
  <2> QED
    BY <2>1, <2>2, <2>4 DEF ConversationInv, AnswerHalf, Undisturbed
<1>2. CASE BoosterCrashes
  <2>1. /\ at \notin BoosterOver /\ UNCHANGED <<request, inv, toInvoker, wait>>
        /\ at' = "crashed"
    BY <1>2 DEF BoosterCrashes, invoker
  <2>2. Agreement'
    BY <2>1 DEF ConversationInv, AnswerHalf, Agreement, Accepted, BoosterOver
  <2>3. ~Undisturbed'
    <3>1. faults \in Nat /\ MaxFaults \in Nat /\ faults <= MaxFaults
      BY FaultsLeft DEF ConversationInv
    <3>2. faults - 1 # MaxFaults
      BY <3>1
    <3> QED
      BY <1>2, <3>2 DEF BoosterCrashes, Fault, Undisturbed
  <2>4. AnswerInv'
    <3>1. SUFFICES ASSUME ~InvokerGone
                   PROVE  AnswerInv'
      BY <2>1 DEF AnswerInv, InvokerGone
    <3>2. PICK w \in 0 .. 5 :
            /\ IF at = "crashed" THEN w <= 4 ELSE w = Written
            /\ Len(toInvoker) = w - Read
            /\ \A k \in 1 .. Len(toInvoker) : toInvoker[k] \in Word(Read + k)
      BY <3>1 DEF ConversationInv, AnswerHalf, AnswerInv
    <3>3. at # "crashed" /\ at # "rejected"
      BY <2>1 DEF BoosterOver
    <3>4. Written # 5
      BY <3>3, HowManyWords
    <3>5. w <= 4
      BY <3>2, <3>3, <3>4
    <3>6. Read' = Read
      BY <2>1 DEF Read
    <3>7. Read > 0 => request.wait
      BY <3>1 DEF ConversationInv, AnswerHalf, AnswerInv
    <3> QED
      BY <2>1, <3>2, <3>5, <3>6, <3>7 DEF AnswerInv, Word
  <2> QED
    BY <2>2, <2>3, <2>4 DEF AnswerHalf
<1> QED
  BY <1>1, <1>2

\* The answer's half is kept by every step.
LEMMA AnswerStep ==
  ASSUME ConversationInv, [Next]_vars
  PROVE  AnswerHalf'
<1>1. CASE Next
  BY <1>1, SendKeepsAnswer, ReadKeepsAnswer, CrashKeepsAnswer, ReceiveKeepsAnswer,
     ReplyKeepsAnswer DEF Next, InvokerRuns, BoosterRuns
<1>2. CASE UNCHANGED vars
  <2>1. UNCHANGED <<request, at, wait, toInvoker, inv, faults>>
    BY <1>2 DEF vars, invoker, booster
  <2> QED
    BY <2>1, AnswerStays DEF ConversationInv, Undisturbed
<1> QED
  BY <1>1, <1>2


-----------------------------------------------------------------------------
(* Types.                                                                  *)

\* Items of either direction.
LEMMA ItemsAre ==
  /\ \A t \in Tags \cup {"END", "ACK", "PID", "EXIT"} : Tag(t) \in Item
  /\ \A n \in Nat : Number(n) \in Item
  /\ Junk \in Item /\ Zero \in Item
<1>1. \A t \in Tags \cup {"END", "ACK", "PID", "EXIT"} : Tag(t) \in Item
  BY DEF Tag, Item
<1>2. \A n \in Nat : Number(n) \in Item
  BY DEF Number, Item
<1>3. Junk \in Item
  BY DEF Junk, Item
<1> QED
  BY <1>1, <1>2, <1>3 DEF Zero

\* What is read is an item, its number a natural number, its flag one.
LEMMA ItemRead ==
  ASSUME TypeOK
  PROVE  /\ Received.kind = "number" => Received.val \in Nat
         /\ Received.kind = "MAGIC" => Received.wait \in BOOLEAN
<1>1. Received \in Item
  <2>1. CASE toBooster = <<>>
    BY <2>1, ItemsAre DEF Received
  <2>2. CASE toBooster # <<>>
    <3>1. Head(toBooster) \in Item
      BY <2>2, HeadAndTail DEF TypeOK
    <3> QED
      BY <2>2, <3>1, ItemsAre DEF Received
  <2> QED
    BY <2>1, <2>2
<1>2. ASSUME Received.kind = "number"
      PROVE  Received \in [kind : {"number"}, val : Nat]
  <2>1. "number" \notin Tags \cup {"END", "ACK", "PID", "EXIT", "fds", "junk"}
    BY DEF Tags, Strs, Nums
  <2> QED
    BY <1>1, <1>2, <2>1 DEF Item
<1>3. ASSUME Received.kind = "MAGIC"
      PROVE  Received \in [kind : {"MAGIC"}, version : BOOLEAN, wait : BOOLEAN]
  <2>1. "MAGIC" \notin Tags \cup {"END", "ACK", "PID", "EXIT", "fds", "junk"}
    BY DEF Tags, Strs, Nums
  <2> QED
    BY <1>1, <1>3, <2>1 DEF Item
<1> QED
  BY <1>2, <1>3

\* Where the invoker is, and how much it has sent.
LEMMA InvokerTypes ==
  ASSUME ConversationInv, Next
  PROVE  /\ inv' \in {"send", "ack", "pid", "pid value", "wait", "exit value"} \cup InvokerOver
         /\ sent' \in 0 .. Len(Wire(request'))
<1>1. /\ inv \in {"send", "ack", "pid", "pid value", "wait", "exit value"} \cup InvokerOver
      /\ request \in Requests /\ sent \in 0 .. Len(Wire(request))
  BY DEF ConversationInv, TypeOK
<1>2. Len(Wire(request)) \in Nat
  BY <1>1, Stations
<1>3. ASSUME sent < Len(Wire(request))
      PROVE  sent + 1 \in 0 .. Len(Wire(request))
  <2>1. ASSUME NEW n \in Nat, NEW k \in 0 .. n, k < n
        PROVE  k + 1 \in 0 .. n
    BY <2>1
  <2> QED
    BY <1>1, <1>2, <1>3, <2>1, Zenon
<1>4. CASE SendItem
  BY <1>1, <1>3, <1>4 DEF SendItem, InvokerOver
<1>5. CASE SendIOFails
  BY <1>1, <1>3, <1>5 DEF SendIOFails
<1>6. CASE SendEnd \/ InvokerCrashes
  BY <1>1, <1>6 DEF SendEnd, InvokerCrashes, InvokerOver
<1>7. CASE RecvAck \/ RecvPid \/ RecvExit
  BY <1>1, <1>7 DEF RecvAck, RecvPid, RecvExit, TakeAnswer, InvokerOver
<1>8. CASE Receive \/ ReceiveIOFails \/ Reply \/ BoosterCrashes
  <2>1. UNCHANGED <<request, invoker>>
    BY <1>8, ReadsReceive, RepliesAre DEF ReceiveIOFails, BoosterCrashes
  <2> QED
    BY <1>1, <2>1 DEF invoker
<1> QED
  BY <1>4, <1>5, <1>6, <1>7, <1>8 DEF Next, InvokerRuns, BoosterRuns

\* The status it is told is a number.
LEMMA StatusType ==
  ASSUME ConversationInv, Next
  PROVE  status' \in Nat
<1>1. status \in Nat
  BY DEF ConversationInv, TypeOK
<1>2. CASE RecvExit
  <2>1. CASE status' = status
    BY <1>1, <2>1
  <2>2. CASE status' # status
    <3>1. /\ inv = "exit value" /\ toInvoker # <<>> /\ status' = Answer.val
          /\ ~InvokerGone
      BY <1>2, <2>2 DEF RecvExit, InvokerReads, InvokerGone, InvokerOver
    <3>2. Read = 4
      BY <3>1 DEF Read
    <3>3. Answer \in Word(4 + 1)
      BY <3>1, <3>2, NextWord DEF Answer
    <3>4. 4 + 1 = 5
      OBVIOUS
    <3>5. Answer = Number(0) \/ Answer = Number(1)
      BY <3>3, <3>4, WordsDiffer
    <3>6. Number(0).val = 0 /\ Number(1).val = 1
      BY DEF Number
    <3>7. status' = 0 \/ status' = 1
      BY <3>1, <3>5, <3>6, Zenon
    <3> QED
      BY <3>7
  <2> QED
    BY <2>1, <2>2
<1>3. CASE ~RecvExit
  <2>1. CASE SendItem \/ SendIOFails \/ SendEnd \/ InvokerCrashes \/ RecvAck \/ RecvPid
    BY <1>1, <2>1 DEF SendItem, SendIOFails, SendEnd, InvokerCrashes, RecvAck, RecvPid
  <2>2. CASE Receive \/ ReceiveIOFails \/ Reply \/ BoosterCrashes
    <3>1. UNCHANGED invoker
      BY <2>2, ReadsReceive, RepliesAre DEF ReceiveIOFails, BoosterCrashes
    <3> QED
      BY <1>1, <3>1 DEF invoker
  <2> QED
    BY <1>3, <2>1, <2>2 DEF Next, InvokerRuns, BoosterRuns
<1> QED
  BY <1>2, <1>3

\* A read leaves a stream that is no longer.
LEMMA RestOfStream ==
  ASSUME NEW q \in Seq(Item), NEW n \in Nat, Len(q) <= n
  PROVE  /\ <<>> \in Seq(Item) /\ Len(<<>>) <= n
         /\ q # <<>> => /\ Tail(q) \in Seq(Item) /\ Len(Tail(q)) <= n
                        /\ <<Junk>> \o Tail(q) \in Seq(Item)
                        /\ Len(<<Junk>> \o Tail(q)) <= n
<1>1. CASE q # <<>>
  <2>1. Len(q) \in Nat \ {0} /\ Tail(q) \in Seq(Item) /\ Len(Tail(q)) = Len(q) - 1
    BY <1>1, HeadAndTail
  <2>2. <<Junk>> \in Seq(Item) /\ Len(<<Junk>>) = 1
    BY ItemsAre
  <2>3. <<Junk>> \o Tail(q) \in Seq(Item) /\ Len(<<Junk>> \o Tail(q)) = 1 + Len(Tail(q))
    BY <2>1, <2>2, ConcatProperties
  <2>4. Len(Tail(q)) <= n /\ 1 + Len(Tail(q)) <= n
    BY <2>1
  <2> QED
    BY <2>1, <2>3, <2>4
<1> QED
  BY <1>1

\* The stream to the booster is never longer than the buffer.
LEMMA StreamTypes ==
  ASSUME ConversationInv, Next
  PROVE  toBooster' \in Seq(Item) /\ Len(toBooster') <= Buffer
<1>1. /\ toBooster \in Seq(Item) /\ Len(toBooster) <= Buffer /\ Buffer \in Nat
      /\ request \in Requests
  BY ProtocolAssumption DEF ConversationInv, TypeOK
<1>2. CASE SendItem
  <2>1. CASE BoosterGone
    BY <1>1, <1>2, <2>1 DEF SendItem
  <2>2. CASE ~BoosterGone
    <3>1. /\ toBooster' = Append(toBooster, Wire(request)[sent + 1])
          /\ Len(toBooster) < Buffer /\ sent < Len(Wire(request))
      BY <1>2, <2>2 DEF SendItem
    <3>2. sent + 1 \in 1 .. Len(Wire(request)) /\ Wire(request) \in Seq(Item)
      <4>1. sent \in 0 .. Len(Wire(request))
        BY DEF ConversationInv, TypeOK
      <4>2. Wire(request) \in Seq(Item) /\ Len(Wire(request)) \in Nat
        BY <1>1, Stations
      <4> QED
        BY <3>1, <4>1, <4>2
    <3>3. Wire(request)[sent + 1] \in Item
      BY <3>2
    <3>4. toBooster' \in Seq(Item) /\ Len(toBooster') = Len(toBooster) + 1
      BY <1>1, <3>1, <3>3, AppendProperties
    <3>5. Len(toBooster) \in Nat
      BY <1>1
    <3> QED
      BY <1>1, <3>1, <3>4, <3>5
  <2> QED
    BY <2>1, <2>2
<1>3. CASE SendIOFails \/ SendEnd \/ InvokerCrashes \/ BoosterCrashes \/ RecvAck \/ RecvPid \/ RecvExit
  BY <1>1, <1>3 DEF SendIOFails, SendEnd, InvokerCrashes, BoosterCrashes, RecvAck, RecvPid, RecvExit, TakeAnswer
<1>4. CASE Receive \/ ReceiveIOFails
  <2>1. \/ toBooster' = <<>>
        \/ toBooster # <<>> /\ toBooster' \in {Tail(toBooster), <<Junk>> \o Tail(toBooster)}
    <3>1. CASE ReceiveIO \/ ReceiveIOFails
      BY <3>1 DEF ReceiveIO, ReceiveIOFails
    <3>2. CASE ~(ReceiveIO \/ ReceiveIOFails)
      BY <1>4, <3>2 DEF Receive, ReceiveMagic, ReceiveAppName, ReceiveAction, ReceiveCount, ReceiveSize,
         ReceiveText, ReceiveNumber, TakeItem
    <3> QED
      BY <3>1, <3>2
  <2> QED
    BY <1>1, <2>1, RestOfStream
<1>5. CASE Reply
  BY <1>1, <1>5, RepliesAre
<1> QED
  BY <1>2, <1>3, <1>4, <1>5 DEF Next, InvokerRuns, BoosterRuns

LEMMA AnswerTypes ==
  ASSUME ConversationInv, Next
  PROVE  toInvoker' \in Seq(Item)
<1>1. toInvoker \in Seq(Item)
  BY DEF ConversationInv, TypeOK
<1>2. CASE RecvAck \/ RecvPid \/ RecvExit
  <2>1. toInvoker' = IF toInvoker = <<>> THEN <<>> ELSE Tail(toInvoker)
    BY <1>2 DEF RecvAck, RecvPid, RecvExit, TakeAnswer
  <2>2. toInvoker # <<>> => Tail(toInvoker) \in Seq(Item)
    BY <1>1, HeadAndTail
  <2> QED
    BY <1>1, <2>1, <2>2
<1>3. CASE Reply
  <2>1. \/ toInvoker' = toInvoker
        \/ \E item \in Item : toInvoker' = Append(toInvoker, item)
    BY <1>3, ItemsAre DEF Reply, SendAck, SendPid, Serve, SendExitValue, Write
  <2> QED
    BY <1>1, <2>1, AppendProperties
<1>4. CASE SendItem \/ SendIOFails \/ SendEnd \/ InvokerCrashes \/ BoosterCrashes \/ ReceiveIOFails
  BY <1>1, <1>4 DEF SendItem, SendIOFails, SendEnd, InvokerCrashes, BoosterCrashes, ReceiveIOFails
<1>5. CASE Receive
  BY <1>1, <1>5, ReadsReceive
<1> QED
  BY <1>2, <1>3, <1>4, <1>5 DEF Next, InvokerRuns, BoosterRuns


\* A count or a size in range is a natural number, and not 0 if the range
\* starts at 1.
LEMMA CountInRange ==
  ASSUME NEW w, NEW n \in Nat, InRange(w, 1, n - 1)
  PROVE  w.val \in Nat \ {0}
BY DEF InRange

\* Where the booster is, and what it is receiving.
LEMMA BoosterTypes ==
  ASSUME ConversationInv, Next
  PROVE  /\ at' \in Places /\ into' \in Tags /\ left' \in Nat \ {0} /\ wait' \in BOOLEAN
         /\ at' = "number" => into' \in Nums
<1>1. /\ TypeOK /\ at \in Places /\ into \in Tags /\ left \in Nat \ {0} /\ wait \in BOOLEAN
      /\ at = "number" => into \in Nums
  BY DEF ConversationInv, TypeOK
<1>2. /\ left > 1 => left - 1 \in Nat \ {0}
      /\ 1 \in Nat \ {0} /\ 2 \in Nat \ {0}
  BY <1>1
<1>3. CASE ReceiveMagic
  BY <1>1, <1>3, ItemRead DEF ReceiveMagic, Places, BoosterOver
<1>4. CASE ReceiveAppName
  BY <1>1, <1>2, <1>4 DEF ReceiveAppName, Places, BoosterOver, Tags, Strs
<1>5. CASE ReceiveAction
  <2>1. at' = PlaceAfter(Received.kind) /\ wait' = wait
    BY <1>5 DEF ReceiveAction
  <2>2. CASE Received.kind \in Tags \ {"NAME"}
    <3>1. /\ into' = Received.kind
          /\ left' = IF Received.kind = "IDS" THEN 2 ELSE 1
      BY <1>5, <2>2 DEF ReceiveAction
    <3>2. at' \in Places /\ (at' = "number" => Received.kind \in Nums)
      BY <2>1, <2>2 DEF PlaceAfter, Places, BoosterOver, Tags, Strs, Nums
    <3> QED
      BY <1>1, <1>2, <2>1, <2>2, <3>1, <3>2
  <2>3. CASE Received.kind \notin Tags \ {"NAME"}
    <3>1. UNCHANGED <<into, left>>
      BY <1>5, <2>3 DEF ReceiveAction
    <3>2. at' \in {"ack", "refused"}
      BY <2>1, <2>3 DEF PlaceAfter, Tags, Strs, Nums
    <3> QED
      BY <1>1, <2>1, <3>1, <3>2 DEF Places, BoosterOver
  <2> QED
    BY <2>2, <2>3
<1>6. CASE ReceiveCount
  <2>1. UNCHANGED <<into, wait>> /\ at' \in {"size", "action"}
    BY <1>6 DEF ReceiveCount
  <2>2. left' \in Nat \ {0}
    <3>1. (IF into = "ARGS" THEN ArgMax ELSE MaxVars) \in Nat
      BY ProtocolAssumption
    <3>2. left' = left \/ left' \in Nat \ {0}
      BY <1>6, <3>1, CountInRange DEF ReceiveCount
    <3> QED
      BY <1>1, <3>2
  <2> QED
    BY <1>1, <2>1, <2>2 DEF Places
<1>7. CASE ReceiveSize
  BY <1>1, <1>7 DEF ReceiveSize, StringFails, Places, BoosterOver
<1>8. CASE ReceiveText
  <2>1. UNCHANGED <<into, wait>> /\ at' \in {"size", "action", "refused"}
    BY <1>8 DEF ReceiveText, StringFails
  <2>2. left' = left \/ (left > 1 /\ left' = left - 1)
    BY <1>8 DEF ReceiveText
  <2> QED
    BY <1>1, <1>2, <2>1, <2>2 DEF Places, BoosterOver
<1>9. CASE ReceiveNumber
  <2>1. at = "number" /\ UNCHANGED <<into, wait>> /\ at' \in {"number", "action"}
    BY <1>9 DEF ReceiveNumber, BoosterReads
  <2>2. left' = left \/ (left > 1 /\ left' = left - 1)
    BY <1>9 DEF ReceiveNumber
  <2> QED
    BY <1>1, <1>2, <2>1, <2>2 DEF Places
<1>10. CASE ReceiveIO \/ ReceiveIOFails
  BY <1>1, <1>10 DEF ReceiveIO, ReceiveIOFails, Places
<1>11. CASE BoosterCrashes
  BY <1>1, <1>11 DEF BoosterCrashes, Places, BoosterOver
<1>12. CASE Reply
  BY <1>1, <1>12, RepliesAre DEF Places, BoosterOver
<1>13. CASE SendItem \/ SendIOFails \/ SendEnd \/ RecvAck \/ RecvPid \/ RecvExit \/ InvokerCrashes
  <2>1. UNCHANGED booster
    BY <1>13 DEF SendItem, SendIOFails, SendEnd, RecvAck, RecvPid, RecvExit, InvokerCrashes, TakeAnswer
  <2> QED
    BY <1>1, <2>1 DEF booster
<1> QED
  BY <1>3, <1>4, <1>5, <1>6, <1>7, <1>8, <1>9, <1>10, <1>11, <1>12, <1>13
     DEF Next, InvokerRuns, BoosterRuns, Receive

\* The part of the types that is about what has been received.
Kept(g) == /\ DOMAIN g = Tags /\ g["IO"] \in {<<>>, <<"fds">>}
           /\ \A t \in Strs : g[t] \in Seq(Text)
           /\ \A t \in Nums : g[t] \in Seq(Nat)

\* What it has received.
LEMMA GotTypes ==
  ASSUME ConversationInv, Next
  PROVE  Kept(got')
<1>1. TypeOK /\ ReceiveInv /\ Kept(got)
  BY DEF ConversationInv, RequestHalf, TypeOK, Kept
<1>2. CASE got' = got
  BY <1>1, <1>2
<1>3. CASE ReceiveAction
  <2>1. CASE Received.kind \in Tags \ {"NAME"}
    <3>1. got' = [got EXCEPT ![Received.kind] = <<>>]
      BY <1>3, <2>1 DEF ReceiveAction
    <3>2. <<>> \in Seq(Text) /\ <<>> \in Seq(Nat)
      OBVIOUS
    <3> QED
      BY <1>1, <3>1, <3>2 DEF Kept, Tags
  <2>2. CASE Received.kind \notin Tags \ {"NAME"}
    BY <1>2, <1>3, <2>2 DEF ReceiveAction
  <2> QED
    BY <2>1, <2>2
<1>4. CASE ReceiveText
  <2>1. CASE toBooster = <<>>
    BY <1>2, <1>4, <2>1 DEF ReceiveText
  <2>2. CASE toBooster # <<>>
    <3>1. at = "text"
      BY <1>4 DEF ReceiveText, BoosterReads
    <3>2. PICK whole \in BOOLEAN : Stream(whole) /\ \E t \in Tags : Under(t, whole)
      BY <1>1, <2>2, <3>1 DEF ReceiveInv, Receiving, AtTag, Strayed
    <3>3. PICK t \in Tags : Under(t, whole)
      BY <3>2
    <3>4. /\ got'[t] \in Seq(Text) /\ DOMAIN got' = DOMAIN got
          /\ \A u \in Tags \ {t} : got'[u] = got[u]
      BY <1>1, <1>4, <2>2, <3>2, <3>3, TextKept
    <3>5. t \in Strs
      BY <3>1, <3>3 DEF Under
    <3> QED
      BY <1>1, <3>4, <3>5 DEF Kept, Tags, Strs, Nums
  <2> QED
    BY <2>1, <2>2
<1>5. CASE ReceiveNumber
  <2>1. at = "number"
    BY <1>5 DEF ReceiveNumber, BoosterReads
  <2>2. into \in Nums
    BY <1>1, <2>1 DEF TypeOK
  <2>3. PICK n \in Nat : got' = [got EXCEPT ![into] = Append(@, n)]
    <3>1. (IF Received.kind = "number" THEN Received.val ELSE 0) \in Nat
      BY <1>1, ItemRead
    <3> QED
      BY <1>5, <3>1 DEF ReceiveNumber
  <2>4. Append(got[into], n) \in Seq(Nat)
    BY <1>1, <2>2, AppendProperties DEF Kept
  <2> QED
    BY <1>1, <2>2, <2>3, <2>4 DEF Kept, Tags, Strs, Nums
<1>6. CASE ReceiveIO
  <2>1. CASE got' = got
    BY <1>2, <2>1
  <2>2. CASE got' # got
    <3>1. at = "fds" /\ toBooster # <<>> /\ got' = [got EXCEPT ![into] = <<"fds">>]
      BY <1>6, <2>2 DEF ReceiveIO, BoosterReads
    <3>2. into = "IO"
      BY <1>1, <3>1 DEF ReceiveInv, Receiving, AtTag, Strayed, Under
    <3> QED
      BY <1>1, <3>1, <3>2 DEF Kept, Tags, Strs, Nums
  <2> QED
    BY <2>1, <2>2
<1>7. CASE ReceiveMagic \/ ReceiveAppName \/ ReceiveCount \/ ReceiveSize \/ ReceiveIOFails \/ BoosterCrashes
  BY <1>2, <1>7 DEF ReceiveMagic, ReceiveAppName, ReceiveCount, ReceiveSize, ReceiveIOFails, BoosterCrashes
<1>8. CASE Reply
  BY <1>2, <1>8, RepliesAre
<1>9. CASE SendItem \/ SendIOFails \/ SendEnd \/ RecvAck \/ RecvPid \/ RecvExit \/ InvokerCrashes
  <2>1. UNCHANGED booster
    BY <1>9 DEF SendItem, SendIOFails, SendEnd, RecvAck, RecvPid, RecvExit, InvokerCrashes, TakeAnswer
  <2> QED
    BY <1>2, <2>1 DEF booster
<1> QED
  BY <1>3, <1>4, <1>5, <1>6, <1>7, <1>8, <1>9 DEF Next, InvokerRuns, BoosterRuns, Receive

\* Who asked for what, and how many failures are left.
LEMMA BoundTypes ==
  ASSUME ConversationInv, Next
  PROVE  /\ request' = request /\ ignores' = ignores
         /\ faults' \in 0 .. MaxFaults
<1>1. faults \in 0 .. MaxFaults /\ MaxFaults \in Nat
  BY FaultsLeft DEF ConversationInv, TypeOK
<1>2. CASE SendIOFails \/ InvokerCrashes \/ ReceiveIOFails \/ BoosterCrashes
  <2>1. Fault /\ request' = request /\ ignores' = ignores
    BY <1>2 DEF SendIOFails, InvokerCrashes, ReceiveIOFails, BoosterCrashes
  <2>2. faults > 0 /\ faults' = faults - 1
    BY <2>1 DEF Fault
  <2>3. faults' \in 0 .. MaxFaults
    BY <1>1, <2>2
  <2> QED
    BY <2>1, <2>3
<1>3. CASE Receive \/ Reply
  BY <1>1, <1>3, ReadsReceive, RepliesAre
<1>4. CASE SendItem \/ SendEnd \/ RecvAck \/ RecvPid \/ RecvExit
  BY <1>1, <1>4 DEF SendItem, SendEnd, RecvAck, RecvPid, RecvExit, TakeAnswer
<1> QED
  BY <1>2, <1>3, <1>4 DEF Next, InvokerRuns, BoosterRuns

LEMMA TypeStep ==
  ASSUME ConversationInv, [Next]_vars
  PROVE  TypeOK'
<1>1. TypeOK /\ ignores \subseteq {"invoker", "booster"} /\ request \in Requests
  BY DEF ConversationInv, TypeOK
<1>2. CASE Next
  <2>1. request' \in Requests /\ ignores' \subseteq {"invoker", "booster"} /\ faults' \in 0 .. MaxFaults
    BY <1>1, <1>2, BoundTypes
  <2>2. Kept(got')
    BY <1>2, GotTypes
  <2> QED
    BY <1>2, <2>1, <2>2, InvokerTypes, StatusType, StreamTypes, AnswerTypes, BoosterTypes
    DEF TypeOK, Kept
<1>3. CASE UNCHANGED vars
  BY <1>1, <1>3 DEF vars, invoker, booster, TypeOK
<1> QED
  BY <1>2, <1>3


-----------------------------------------------------------------------------
(* The theorems.                                                           *)

\* Before anything is written the ends are in step.
LEMMA ConversationBegins ==
  ASSUME Init
  PROVE  ConversationInv
<1>1. /\ request \in Requests /\ inv = "send" /\ sent = 0 /\ status = 0
      /\ toBooster = <<>> /\ toInvoker = <<>>
      /\ at = "magic" /\ into = "NAME" /\ left = 1 /\ wait = FALSE
      /\ got = [t \in Tags |-> <<>>]
      /\ ignores \subseteq {"invoker", "booster"} /\ faults = MaxFaults
  BY DEF Init
<1>2. Len(Wire(request)) \in Nat /\ Buffer \in Nat /\ MaxFaults \in Nat
  BY <1>1, Stations, ProtocolAssumption
<1>3. TypeOK
  <2>1. sent \in 0 .. Len(Wire(request)) /\ status \in Nat /\ faults \in 0 .. MaxFaults
    BY <1>1, <1>2
  <2>2. /\ toBooster \in Seq(Item) /\ Len(toBooster) <= Buffer /\ toInvoker \in Seq(Item)
    <3>1. Len(<<>>) = 0 /\ <<>> \in Seq(Item)
      OBVIOUS
    <3>2. 0 <= Buffer
      BY <1>2
    <3> QED
      BY <1>1, <3>1, <3>2
  <2>3. /\ DOMAIN got = Tags /\ got["IO"] \in {<<>>, <<"fds">>}
        /\ \A t \in Strs : got[t] \in Seq(Text)
        /\ \A t \in Nums : got[t] \in Seq(Nat)
    BY <1>1 DEF Tags
  <2>4. at \in Places /\ into \in Tags /\ at # "number"
    BY <1>1 DEF Places, Tags, Strs
  <2>5. left \in Nat \ {0}
    BY <1>1
  <2>6. wait \in BOOLEAN
    BY <1>1
  <2> QED
    BY <1>1, <2>1, <2>2, <2>3, <2>4, <2>5, <2>6 DEF TypeOK
<1>4. RequestHalf
  <2>1. Items(TRUE) = 0
    <3>1. Items(TRUE) = sent - Len(toBooster) - 0
      BY DEF Items
    <3>2. Len(toBooster) = 0 /\ 0 - 0 - 0 = 0
      BY <1>1
    <3>3. Items(TRUE) = 0 - 0 - 0
      BY <1>1, <3>1, <3>2, Zenon
    <3> QED
      BY <3>2, <3>3
  <2>2. Stream(TRUE)
    <3>1. Len(toBooster) = 0
      BY <1>1
    <3>2. 1 .. 0 = {} /\ 0 \in Nat
      OBVIOUS
    <3>3. 1 .. Len(toBooster) = {} /\ Items(TRUE) \in Nat
      BY <2>1, <3>1, <3>2, Zenon
    <3> QED
      BY <3>3 DEF Stream
  <2>3. AtTag(TRUE)
    <3>1. got["NAME"] = <<>>
      BY <1>1 DEF Tags, Strs
    <3> QED
      BY <1>1, <2>1, <3>1 DEF AtTag
  <2>4. TRUE \in BOOLEAN
    OBVIOUS
  <2>5. ReceiveInv
    BY <2>2, <2>3, <2>4 DEF ReceiveInv
  <2> QED
    BY <1>1, <2>5 DEF RequestHalf, AcceptInv, Accepted, RefusedForCause
<1>5. AnswerHalf
  <2>1. Read = 0 /\ Written = 0
    BY <1>1 DEF Read, Written
  <2>2. Len(toInvoker) = 0 /\ 0 \in 0 .. 5 /\ 0 = 0 - 0
    BY <1>1
  <2>3. AnswerInv
    BY <1>1, <2>1, <2>2 DEF AnswerInv
  <2> QED
    BY <1>1, <2>3 DEF AnswerHalf, Agreement
<1> QED
  BY <1>3, <1>4, <1>5 DEF ConversationInv

\* Every write, read, crash and failing call of either end keeps the two ends
\* where they can be together.
THEOREM ConversationStep == ConversationInv /\ [Next]_vars => ConversationInv'
<1>1. ASSUME ConversationInv, [Next]_vars
      PROVE  ConversationInv'
  BY <1>1, TypeStep, RequestStep, AnswerStep DEF ConversationInv
<1> QED
  BY <1>1

\* In every conversation, whatever its request, its failures and the room in
\* the socket, the booster is in step with what invoke_remote() has written, or
\* about to refuse, and the invoker with what sendMsg() has.
THEOREM ConversationInvariant == Spec => []ConversationInv
<1>1. Init => ConversationInv
  BY ConversationBegins
<1> QED
  BY <1>1, ConversationStep, PTL DEF Spec

\* The types of both ends: the stream is never longer than the buffer, and a
\* loop over strings or numbers never at its end already.
THEOREM ConversationTypes == Spec => []TypeOK
<1>1. ConversationInv => TypeOK
  BY DEF ConversationInv
<1> QED
  BY <1>1, ConversationInvariant, PTL

\* receiveApplicationData() gets to END only with the request that was written,
\* whole, though receiveActions() ignores what its receivers return.
THEOREM RequestsAcceptedAsSent == Spec => []AcceptedAsSent
<1>1. ConversationInv => AcceptedAsSent
  <2>1. ASSUME ConversationInv, Accepted
        PROVE  /\ wait = request.wait
               /\ \A t \in Tags \ {"ENV", "IO"} : got[t] = request[t]
               /\ Assignments(request.ENV, Len(request.ENV), got["ENV"])
               /\ Undisturbed => got["IO"] = request.IO
    <3>1. wait = request.wait /\ \A t \in Tags : Whole(t)
      BY <2>1 DEF ConversationInv, RequestHalf, AcceptInv
    <3>2. ASSUME NEW t \in Tags \ {"ENV", "IO"}
          PROVE  got[t] = request[t]
      BY <3>1, <3>2 DEF Whole
    <3>3. Whole("ENV") /\ Whole("IO")
      BY <3>1 DEF Tags, Strs
    <3>4. Assignments(request.ENV, Len(request.ENV), got["ENV"])
      BY <3>3 DEF Whole
    <3>5. Undisturbed => got["IO"] = request.IO
      BY <3>3 DEF Whole
    <3> QED
      BY <3>1, <3>2, <3>4, <3>5
  <2> QED
    BY <2>1 DEF AcceptedAsSent
<1> QED
  BY <1>1, ConversationInvariant, PTL

\* A booster gives up in receiveApplicationData() only a request that is beyond
\* a limit, or one that a failure has disturbed.
THEOREM RefusalsForCause == Spec => []RefusedForCause
<1>1. ConversationInv => RefusedForCause
  BY DEF ConversationInv, RequestHalf
<1> QED
  BY <1>1, ConversationInvariant, PTL

\* Whatever ends an invoker, invoke_recv_ack(), invoker_recv_pid(),
\* invoker_recv_exit() or SIGPIPE, the booster's end agrees with it.
THEOREM EndsAgree == Spec => []Agreement
<1>1. ConversationInv => Agreement
  BY DEF ConversationInv, AnswerHalf
<1> QED
  BY <1>1, ConversationInvariant, PTL

-----------------------------------------------------------------------------
(* Neither waits for the other in vain.                                    *)

\* The invoker reads when it has written everything.
WritesFirst ==
  inv \in {"ack", "pid", "pid value", "wait", "exit value"} => sent = Len(Wire(request))

LEMMA WritesFirstStep ==
  ASSUME WritesFirst, [Next]_vars
  PROVE  WritesFirst'
<1>1. request' = request
  BY DEF Next, InvokerRuns, SendItem, SendEnd, RecvAck, RecvPid, RecvExit, TakeAnswer, SendIOFails,
         InvokerCrashes, BoosterRuns, Receive, Reply, ReceiveMagic, ReceiveAppName, ReceiveAction,
         ReceiveCount, ReceiveSize, ReceiveText, ReceiveNumber, ReceiveIO, TakeItem, SendAck, SendPid,
         Serve, SendExitValue, Write, ReceiveIOFails, BoosterCrashes, vars
<1>2. Wire(request)' = Wire(request)
  BY <1>1, PlacesStay
<1>3. CASE SendItem \/ SendIOFails \/ InvokerCrashes
  BY <1>3 DEF SendItem, SendIOFails, InvokerCrashes, WritesFirst
<1>4. CASE SendEnd
  BY <1>2, <1>4 DEF SendEnd, WritesFirst
<1>5. CASE RecvAck \/ RecvPid \/ RecvExit
  <2>1. inv \in {"ack", "pid", "pid value", "wait", "exit value"} /\ sent' = sent
    BY <1>5 DEF RecvAck, RecvPid, RecvExit, InvokerReads, TakeAnswer
  <2> QED
    BY <1>2, <2>1 DEF WritesFirst
<1>6. CASE BoosterRuns \/ ReceiveIOFails \/ BoosterCrashes \/ UNCHANGED vars
  <2>1. UNCHANGED invoker
    BY <1>6 DEF BoosterRuns, Receive, Reply, ReceiveMagic, ReceiveAppName, ReceiveAction,
                ReceiveCount, ReceiveSize, ReceiveText, ReceiveNumber, ReceiveIO, TakeItem, SendAck,
                SendPid, Serve, SendExitValue, Write, ReceiveIOFails, BoosterCrashes, vars
  <2> QED
    BY <1>2, <2>1 DEF WritesFirst, invoker
<1> QED
  BY <1>3, <1>4, <1>5, <1>6 DEF Next, InvokerRuns

\* Wherever it receives, in step or strayed, something of the request is still
\* to come.
LEMMA SomethingToCome ==
  ASSUME request \in Requests, left \in Nat \ {0}, NEW whole \in BOOLEAN,
         AtTag(whole) \/ Strayed(whole) \/ \E t \in Tags : Under(t, whole)
  PROVE  Items(whole) < Len(Wire(request))
<1> DEFINE n == Len(Wire(request))
<1>1. n \in Nat /\ \A t \in Tags \cup {"END"} : Start(t) \in 2 .. n
  BY Stations
<1>2. "NAME" \in Tags
  BY DEF Tags, Strs
<1>3. CASE AtTag(whole)
  BY <1>1, <1>2, <1>3 DEF AtTag
<1>4. CASE Strayed(whole)
  BY <1>4 DEF Strayed
<1>5. ASSUME NEW t \in Tags, Under(t, whole)
      PROVE  Items(whole) < n
  <2>1. /\ Behind(t) \in Tags \cup {"END"} /\ First(t) \in Nat /\ Start(t) \in Nat
        /\ t \in Strs => Start(Behind(t)) = First(t) + 2 * Len(request[t])
        /\ t \in Nums => Start(Behind(t)) = First(t) + Len(request[t])
        /\ t = "IO" => Start(Behind(t)) = Hole + 1 /\ Hole = Start(t) + 1
        /\ t \in {"ARGS", "ENV"} => t \in Strs /\ First(t) = Start(t) + 2
    BY TagsInOrder DEF Hole, Strs
  <2>2. Start(Behind(t)) \in 2 .. n
    BY <1>1, <2>1
  <2>3. \A u \in Strs \cup Nums : Len(request[u]) \in Nat
    BY RequestParts
  <2>4. CASE at = "count"
    BY <1>1, <1>5, <2>1, <2>2, <2>3, <2>4 DEF Under
  <2>5. CASE at \in {"size", "text"}
    <3>1. /\ t \in Strs /\ Items(whole) \in {First(t) + 2 * Taken(t) - 1, First(t) + 2 * Taken(t)}
          /\ Part(t)
      BY <1>5, <2>5 DEF Under
    <3>2. Taken(t) = Len(request[t]) - left /\ left <= Len(request[t])
      BY <3>1 DEF Taken, Part
    <3> QED
      BY <1>1, <2>1, <2>2, <2>3, <3>1, <3>2
  <2>6. CASE at = "number"
    <3>1. t \in Nums /\ Items(whole) = First(t) + Taken(t) - 1 /\ Part(t)
      BY <1>5, <2>6 DEF Under
    <3>2. Taken(t) = Len(request[t]) - left /\ left <= Len(request[t])
      BY <3>1 DEF Taken, Part
    <3> QED
      BY <1>1, <2>1, <2>2, <2>3, <3>1, <3>2
  <2>7. CASE at = "fds"
    BY <1>1, <1>5, <2>1, <2>2, <2>7 DEF Under
  <2> QED
    BY <1>5, <2>4, <2>5, <2>6, <2>7 DEF Under
<1> QED
  BY <1>3, <1>4, <1>5

\* What the invoker has written and the booster not read lies between them.
LEMMA OneCanGoOn == ConversationInv /\ WritesFirst => NeverBothBlocked
<1> SUFFICES ASSUME ConversationInv, WritesFirst, InvokerBlocked, BoosterBlocked
             PROVE  FALSE
  BY DEF NeverBothBlocked
<1>1. /\ request \in Requests /\ left \in Nat \ {0} /\ sent \in 0 .. Len(Wire(request))
      /\ toBooster = <<>> /\ Receiving /\ ~InvokerGone
  BY DEF ConversationInv, TypeOK, BoosterBlocked
<1>2. sent = Len(Wire(request))
  <2>1. Len(toBooster) = 0 /\ Buffer # 0
    BY <1>1, ProtocolAssumption
  <2>2. inv \in {"ack", "pid", "pid value", "wait", "exit value"}
    BY <2>1 DEF InvokerBlocked
  <2> QED
    BY <2>2 DEF WritesFirst
<1>3. PICK whole \in BOOLEAN :
        /\ Stream(whole)
        /\ AtTag(whole) \/ Strayed(whole) \/ \E t \in Tags : Under(t, whole)
  BY <1>1 DEF ConversationInv, RequestHalf, ReceiveInv
<1>4. Items(whole) < Len(Wire(request))
  BY <1>1, <1>3, SomethingToCome
<1>5. CASE whole
  <2>1. Items(whole) = Len(Wire(request)) /\ Len(Wire(request)) \in Nat
    BY <1>1, <1>2, <1>5, Stations DEF Items
  <2> QED
    BY <1>4, <2>1
<1>6. CASE ~whole
  <2>1. Items(whole) = Len(Wire(request)) - 1 /\ Items(whole) < Hole
    BY <1>1, <1>2, <1>3, <1>6 DEF Items, Stream
  <2>2. Len(Wire(request)) \in Nat /\ Hole \in 1 .. Len(Wire(request)) /\ Start("END") = Len(Wire(request))
        /\ Start("END") # Hole
    BY <1>1, Stations
  <2> QED
    BY <2>1, <2>2
<1> QED
  BY <1>5, <1>6

\* However a request is cut off, beyond a limit or without its descriptors, and
\* however little the socket holds, invoke_remote() and receiveActions() are never
\* both in a call that only the other can end.
THEOREM NeitherWaitsForTheOther == Spec => []NeverBothBlocked
<1>1. Init => WritesFirst
  BY DEF Init, WritesFirst
<1>2. WritesFirst /\ [Next]_vars => WritesFirst'
  BY WritesFirstStep
<1> QED
  BY <1>1, <1>2, OneCanGoOn, ConversationInvariant, PTL DEF Spec
=============================================================================
