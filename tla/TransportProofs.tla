-------------------------- MODULE TransportProofs --------------------------
(***************************************************************************)
(* Proofs about the USB transport: its flow control of commands            *)
(* (CommandFlow), and who holds its interface when it is opened (Adapter,  *)
(* at the end).                                                            *)
(*                                                                         *)
(* CommandFlow, for any opcodes, any queue, any number of commands and of  *)
(* slots: pending holds the commands whose answers are on their way and    *)
(* then those in the controller, in the same order.  So the first entry    *)
(* with an opcode is the one that is answered.                             *)
(*                                                                         *)
(* That no command is too many is proved for controllers that hold one,    *)
(* as the code starts out assuming (credits is 1 at first): a report of    *)
(* free slots replaces the credits, which is exact only where no command   *)
(* can have been sent meanwhile.                                           *)
(***************************************************************************)
EXTENDS CommandFlow, Adapter, SequenceTheorems, TLAPS

Queueable == {c \in Command : c.background}

Types ==
    /\ issued \in 0..MaxCommands
    /\ waits \in BOOLEAN /\ owes \in BOOLEAN
    /\ caller \in {"idle", "credit", "answer"}
    /\ credits \in Nat /\ queued \in Seq(Queueable)
    /\ pending \in Seq(Command) /\ inside \in Seq(Command)
    /\ wire \in Seq(Acks) /\ inbox \in Seq(Acks)

\* What is pending at the host, p, are the commands whose answers are among the
\* events w on their way, in their order, and then those in the controller, u.
InOrder(p, w, u) ==
    \E n \in Nat : \E ix \in [1..n -> DOMAIN w] :
        /\ \A i, j \in 1..n : i < j => ix[i] < ix[j]
        /\ \A k \in DOMAIN w : w[k].answers # NoCommand => \E i \in 1..n : ix[i] = k
        /\ Len(p) = n + Len(u)
        /\ \A i \in 1..n : p[i] = w[ix[i]].answers
        /\ \A i \in 1..Len(u) : p[n + i] = u[i]

\* A command that was sent: one in the background, the one that is waited for,
\* or one that nobody waits for.
Sent(c) ==
    /\ c \in Command
    /\ c.background \/ (c = call /\ caller = "answer") \/ c \in abandoned

\* The worker's call is the youngest of the foreground commands.
Youngest ==
    /\ \A c \in abandoned : c \in Command /\ ~c.background /\ c.id <= issued
    /\ caller # "idle" => /\ call \in Command /\ ~call.background /\ call.id <= issued
                          /\ \A c \in abandoned : c.id < call.id

AllSent == \A i \in DOMAIN pending : Sent(pending[i])

\* What was passed on is the answer to a foreground command, or no answer.
PassedOn ==
    \A i \in DOMAIN inbox :
        LET c == inbox[i].answers IN c = NoCommand \/ (Sent(c) /\ ~c.background)

Inv ==
    /\ Types /\ InOrder(pending, wire, inside) /\ AllSent
    /\ Youngest /\ PassedOn /\ OwnAnswerUnlessAbandoned

-----------------------------------------------------------------------------
(* Lemmas.                                                                 *)

LEMMA NoneIsNoCommand == NoCommand \notin Command
  BY FlowAssumption DEF Command

\* x and y are p and u with the same queued commands added at the end.
Extended(p, u, x, y) == \E w \in Seq(Queueable) : x = p \o w /\ y = u \o w

\* Whatever is flushed goes to the end of both.
LEMMA Flushed ==
  ASSUME NEW q \in Seq(Queueable), NEW c \in Nat, NEW p, NEW u, Flush(q, c, p, u)
  PROVE  /\ queued' \in Seq(Queueable) /\ credits' \in Nat
         /\ Extended(p, u, pending', inside')
  <1>1. PICK n \in 0..c : \E of \in [1..n -> DOMAIN q] :
          /\ queued' = SubSeq(q, (IF n < c THEN Len(q) ELSE IF n = 0 THEN 0 ELSE of[n]) + 1, Len(q))
          /\ credits' = c - n
          /\ pending' = p \o [i \in 1..n |-> q[of[i]]]
          /\ inside' = u \o [i \in 1..n |-> q[of[i]]]
    BY DEF Flush
  <1>2. PICK of \in [1..n -> DOMAIN q] :
          /\ queued' = SubSeq(q, (IF n < c THEN Len(q) ELSE IF n = 0 THEN 0 ELSE of[n]) + 1, Len(q))
          /\ credits' = c - n
          /\ pending' = p \o [i \in 1..n |-> q[of[i]]]
          /\ inside' = u \o [i \in 1..n |-> q[of[i]]]
    BY <1>1
  <1>3. PICK w : w = [i \in 1..n |-> q[of[i]]]
    OBVIOUS
  <1>4. n \in Nat /\ \A i \in 1..n : of[i] \in 1..Len(q) /\ q[of[i]] \in Queueable
    BY <1>2
  <1>5. w \in Seq(Queueable)
    <2>1. w \in [1..n -> Queueable]
      BY <1>3, <1>4
    <2>2. QED BY <1>4, <2>1
  <1>6. queued' \in Seq(Queueable)
    <2>1. PICK k : k = IF n < c THEN Len(q) ELSE IF n = 0 THEN 0 ELSE of[n]
      OBVIOUS
    <2>2. k \in Nat
      BY <1>4, <2>1
    <2>3. queued' = SubSeq(q, k + 1, Len(q))
      BY <1>2, <2>1
    <2>4. QED BY <2>2, <2>3, SubSeqProperties
  <1>7. pending' = p \o w /\ inside' = u \o w
    BY <1>2, <1>3
  <1>8. credits' \in Nat
    BY <1>2
  <1>9. QED BY <1>5, <1>6, <1>7, <1>8 DEF Extended

\* A command that is sent is the last at the host and in the controller.
LEMMA OrderSent ==
  ASSUME NEW p \in Seq(Command), NEW w, NEW u \in Seq(Command), NEW x \in Seq(Command),
         InOrder(p, w, u)
  PROVE  InOrder(p \o x, w, u \o x)
  <1>1. PICK n \in Nat : \E ix \in [1..n -> DOMAIN w] :
          /\ \A i, j \in 1..n : i < j => ix[i] < ix[j]
          /\ \A k \in DOMAIN w : w[k].answers # NoCommand => \E i \in 1..n : ix[i] = k
          /\ Len(p) = n + Len(u)
          /\ \A i \in 1..n : p[i] = w[ix[i]].answers
          /\ \A i \in 1..Len(u) : p[n + i] = u[i]
    BY DEF InOrder
  <1>2. /\ Len(p \o x) = n + Len(u \o x)
        /\ \A i \in 1..n : (p \o x)[i] = p[i]
        /\ \A i \in 1..Len(u \o x) : (p \o x)[n + i] = (u \o x)[i]
    <2>1. /\ Len(p \o x) = Len(p) + Len(x) /\ Len(u \o x) = Len(u) + Len(x)
          /\ \A i \in 1..Len(p \o x) : (p \o x)[i] = IF i <= Len(p) THEN p[i] ELSE x[i - Len(p)]
          /\ \A i \in 1..Len(u \o x) : (u \o x)[i] = IF i <= Len(u) THEN u[i] ELSE x[i - Len(u)]
      BY ConcatProperties
    <2>2. Len(p) \in Nat /\ Len(u) \in Nat /\ Len(x) \in Nat /\ Len(p) = n + Len(u)
      BY <1>1
    <2>3. \A i \in 1..n : (p \o x)[i] = p[i]
      BY <2>1, <2>2
    <2>4. ASSUME NEW i \in 1..Len(u \o x) PROVE (p \o x)[n + i] = (u \o x)[i]
      <3>1. CASE i <= Len(u)
        BY <1>1, <2>1, <2>2, <3>1
      <3>2. CASE i > Len(u)
        <4>1. n + i - Len(p) = i - Len(u) /\ n + i > Len(p) /\ n + i \in 1..Len(p \o x)
          BY <2>1, <2>2, <3>2
        <4>2. QED BY <2>1, <3>2, <4>1
      <3>3. QED BY <2>2, <3>1, <3>2
    <2>5. Len(p \o x) = n + Len(u \o x)
      BY <2>1, <2>2
    <2>6. QED BY <2>3, <2>4, <2>5
  <1>3. PICK y, z : y = p \o x /\ z = u \o x
    OBVIOUS
  <1>4. PICK ix \in [1..n -> DOMAIN w] :
          /\ \A i, j \in 1..n : i < j => ix[i] < ix[j]
          /\ \A k \in DOMAIN w : w[k].answers # NoCommand => \E i \in 1..n : ix[i] = k
          /\ \A i \in 1..n : p[i] = w[ix[i]].answers
    BY <1>1
  <1>5. \A i \in 1..n : y[i] = w[ix[i]].answers
    BY <1>2, <1>3, <1>4
  <1>6. Len(y) = n + Len(z) /\ \A i \in 1..Len(z) : y[n + i] = z[i]
    BY <1>2, <1>3
  <1>7. InOrder(y, w, z)
    BY <1>4, <1>5, <1>6 DEF InOrder
  <1>8. QED BY <1>3, <1>7

\* An event without an answer changes nothing in it.
LEMMA OrderReported ==
  ASSUME NEW p \in Seq(Command), NEW w \in Seq(Acks), NEW u \in Seq(Command),
         NEW a \in Acks, a.answers = NoCommand, InOrder(p, w, u)
  PROVE  InOrder(p, Append(w, a), u)
  <1>1. PICK n \in Nat : \E ix \in [1..n -> DOMAIN w] :
          /\ \A i, j \in 1..n : i < j => ix[i] < ix[j]
          /\ \A k \in DOMAIN w : w[k].answers # NoCommand => \E i \in 1..n : ix[i] = k
          /\ Len(p) = n + Len(u)
          /\ \A i \in 1..n : p[i] = w[ix[i]].answers
          /\ \A i \in 1..Len(u) : p[n + i] = u[i]
    BY DEF InOrder
  <1>2. PICK ix \in [1..n -> DOMAIN w] :
          /\ \A i, j \in 1..n : i < j => ix[i] < ix[j]
          /\ \A k \in DOMAIN w : w[k].answers # NoCommand => \E i \in 1..n : ix[i] = k
          /\ \A i \in 1..n : p[i] = w[ix[i]].answers
    BY <1>1
  <1>3. PICK v : v = Append(w, a)
    OBVIOUS
  <1>4. /\ DOMAIN v = 1..Len(w) + 1 /\ Len(w) \in Nat /\ DOMAIN w = 1..Len(w)
        /\ \A k \in DOMAIN w : v[k] = w[k]
        /\ v[Len(w) + 1] = a
    BY <1>3
  <1>5. ix \in [1..n -> DOMAIN v] /\ \A i \in 1..n : p[i] = v[ix[i]].answers
    <2>1. DOMAIN w \subseteq DOMAIN v
      BY <1>4
    <2>2. \A i \in 1..n : ix[i] \in DOMAIN w
      BY <1>2
    <2>3. ix \in [1..n -> DOMAIN v]
      BY <1>2, <2>1
    <2>4. \A i \in 1..n : v[ix[i]] = w[ix[i]]
      BY <1>4, <2>2
    <2>5. QED BY <1>2, <2>3, <2>4
  <1>6. ASSUME NEW k \in DOMAIN v, v[k].answers # NoCommand
        PROVE  \E i \in 1..n : ix[i] = k
    <2>1. k # Len(w) + 1
      BY <1>4, <1>6
    <2>2. k \in DOMAIN w /\ w[k].answers # NoCommand
      BY <1>4, <1>6, <2>1
    <2>3. QED BY <1>2, <2>2
  <1>7. InOrder(p, v, u)
    BY <1>1, <1>2, <1>5, <1>6 DEF InOrder
  <1>8. QED BY <1>3, <1>7

\* The controller answers its oldest command: that answer is the youngest one.
LEMMA OrderAnswered ==
  ASSUME NEW p \in Seq(Command), NEW w \in Seq(Acks), NEW u \in Seq(Command), u # <<>>,
         NEW a \in Acks, a.answers = Head(u), InOrder(p, w, u)
  PROVE  InOrder(p, Append(w, a), Tail(u))
  <1>1. PICK n \in Nat : \E ix \in [1..n -> DOMAIN w] :
          /\ \A i, j \in 1..n : i < j => ix[i] < ix[j]
          /\ \A k \in DOMAIN w : w[k].answers # NoCommand => \E i \in 1..n : ix[i] = k
          /\ Len(p) = n + Len(u)
          /\ \A i \in 1..n : p[i] = w[ix[i]].answers
          /\ \A i \in 1..Len(u) : p[n + i] = u[i]
    BY DEF InOrder
  <1>2. PICK ix \in [1..n -> DOMAIN w] :
          /\ \A i, j \in 1..n : i < j => ix[i] < ix[j]
          /\ \A k \in DOMAIN w : w[k].answers # NoCommand => \E i \in 1..n : ix[i] = k
          /\ \A i \in 1..n : p[i] = w[ix[i]].answers
    BY <1>1
  <1>3. PICK v, t : v = Append(w, a) /\ t = Tail(u)
    OBVIOUS
  <1>4. /\ DOMAIN v = 1..Len(w) + 1 /\ Len(w) \in Nat /\ DOMAIN w = 1..Len(w)
        /\ \A k \in DOMAIN w : v[k] = w[k]
        /\ v[Len(w) + 1] = a
    BY <1>3
  <1>5. Len(u) = Len(t) + 1 /\ Len(t) \in Nat /\ a.answers = u[1]
        /\ \A i \in 1..Len(t) : t[i] = u[i + 1]
    BY <1>3
  <1>6. PICK m, to : m = n + 1 /\ to = [i \in 1..m |-> IF i <= n THEN ix[i] ELSE Len(w) + 1]
    OBVIOUS
  <1>7. /\ m \in Nat /\ \A i \in 1..n : i \in 1..m /\ to[i] = ix[i] /\ ix[i] \in 1..Len(w)
        /\ m \in 1..m /\ to[m] = Len(w) + 1
        /\ \A i \in 1..m : i \in 1..n \/ i = m
    BY <1>4, <1>6
  <1>8. to \in [1..m -> DOMAIN v]
    <2>1. ASSUME NEW i \in 1..m PROVE to[i] \in DOMAIN v
      <3>1. CASE i \in 1..n
        <4>1. to[i] \in 1..Len(w)
          BY <1>7, <3>1
        <4>2. QED BY <1>4, <4>1
      <3>2. CASE i = m
        BY <1>4, <1>7, <3>2
      <3>3. QED BY <1>7, <3>1, <3>2
    <2>2. QED BY <1>6, <2>1
  <1>9. ASSUME NEW i \in 1..m, NEW j \in 1..m, i < j PROVE to[i] < to[j]
    <2>1. i \in 1..n
      BY <1>6, <1>9
    <2>2. CASE j \in 1..n
      BY <1>2, <1>7, <1>9, <2>1, <2>2
    <2>3. CASE j = m
      BY <1>4, <1>7, <2>1, <2>3
    <2>4. QED BY <1>7, <2>2, <2>3
  <1>10. ASSUME NEW k \in DOMAIN v, v[k].answers # NoCommand
         PROVE  \E i \in 1..m : to[i] = k
    <2>1. CASE k \in DOMAIN w
      <3>1. PICK i \in 1..n : ix[i] = k
        BY <1>2, <1>4, <1>10, <2>1
      <3>2. QED BY <1>7, <3>1
    <2>2. CASE k = Len(w) + 1
      BY <1>7, <2>2
    <2>3. QED BY <1>4, <2>1, <2>2
  <1>11. ASSUME NEW i \in 1..m PROVE p[i] = v[to[i]].answers
    <2>1. CASE i \in 1..n
      BY <1>2, <1>4, <1>7, <2>1
    <2>2. CASE i = m
      <3>1. p[n + 1] = u[1]
        BY <1>1, <1>5
      <3>2. QED BY <1>4, <1>5, <1>6, <1>7, <2>2, <3>1
    <2>3. QED BY <1>7, <2>1, <2>2
  <1>12. Len(p) = m + Len(t) /\ \A i \in 1..Len(t) : p[m + i] = t[i]
    <2>1. Len(p) = m + Len(t)
      BY <1>1, <1>5, <1>6
    <2>2. ASSUME NEW i \in 1..Len(t) PROVE p[m + i] = t[i]
      <3>1. i + 1 \in 1..Len(u) /\ m + i = n + (i + 1)
        BY <1>5, <1>6
      <3>2. QED BY <1>1, <1>5, <3>1
    <2>3. QED BY <2>1, <2>2
  <1>13. InOrder(p, v, t)
    BY <1>7, <1>8, <1>9, <1>10, <1>11, <1>12 DEF InOrder
  <1>14. QED BY <1>3, <1>13

\* Read an answer: it is that of the oldest pending command.
LEMMA OrderRead ==
  ASSUME NEW p \in Seq(Command), NEW w \in Seq(Acks), NEW u \in Seq(Command),
         w # <<>>, Head(w).answers # NoCommand, InOrder(p, w, u)
  PROVE  p # <<>> /\ p[1] = Head(w).answers /\ InOrder(Tail(p), Tail(w), u)
  <1>1. PICK n \in Nat : \E ix \in [1..n -> DOMAIN w] :
          /\ \A i, j \in 1..n : i < j => ix[i] < ix[j]
          /\ \A k \in DOMAIN w : w[k].answers # NoCommand => \E i \in 1..n : ix[i] = k
          /\ Len(p) = n + Len(u)
          /\ \A i \in 1..n : p[i] = w[ix[i]].answers
          /\ \A i \in 1..Len(u) : p[n + i] = u[i]
    BY DEF InOrder
  <1>2. PICK ix \in [1..n -> DOMAIN w] :
          /\ \A i, j \in 1..n : i < j => ix[i] < ix[j]
          /\ \A k \in DOMAIN w : w[k].answers # NoCommand => \E i \in 1..n : ix[i] = k
          /\ \A i \in 1..n : p[i] = w[ix[i]].answers
    BY <1>1
  <1>3. PICK v : v = Tail(w)
    OBVIOUS
  <1>4. /\ Len(w) \in Nat \ {0} /\ DOMAIN w = 1..Len(w) /\ DOMAIN v = 1..Len(w) - 1
        /\ \A k \in DOMAIN v : k + 1 \in DOMAIN w /\ v[k] = w[k + 1]
        /\ Head(w) = w[1]
    BY <1>3
  <1>5. n >= 1 /\ ix[1] = 1
    <2>1. PICK i \in 1..n : ix[i] = 1
      BY <1>2, <1>4
    <2>2. 1 \in 1..n /\ ix[1] \in 1..Len(w)
      BY <1>4, <2>1
    <2>3. i = 1 \/ ix[1] < ix[i]
      BY <1>2, <2>1, <2>2
    <2>4. QED BY <2>1, <2>2, <2>3
  <1>6. PICK x : x = Tail(p)
    OBVIOUS
  <1>7. /\ p # <<>> /\ Len(x) = Len(p) - 1 /\ Len(u) \in Nat
        /\ \A i \in 1..Len(x) : x[i] = p[i + 1]
    <2>1. Len(p) \in Nat /\ Len(u) \in Nat /\ Len(p) >= 1
      BY <1>1, <1>5
    <2>2. p # <<>>
      BY <2>1
    <2>3. QED BY <1>6, <2>1, <2>2
  <1>8. PICK m, to : m = n - 1 /\ to = [i \in 1..m |-> ix[i + 1] - 1]
    OBVIOUS
  <1>9. m \in Nat /\ \A i \in 1..m : /\ i + 1 \in 1..n /\ ix[i + 1] \in 1..Len(w)
                                   /\ to[i] = ix[i + 1] - 1
    BY <1>4, <1>5, <1>8
  <1>10. to \in [1..m -> DOMAIN v]
    <2>1. ASSUME NEW i \in 1..m PROVE to[i] \in DOMAIN v
      <3>1. 1 \in 1..n /\ 1 < i + 1 /\ i + 1 \in 1..n
        BY <1>5, <1>9
      <3>2. ix[1] < ix[i + 1]
        BY <1>2, <3>1
      <3>3. QED BY <1>4, <1>5, <1>9, <3>2
    <2>2. QED BY <1>8, <2>1
  <1>11. ASSUME NEW i \in 1..m, NEW j \in 1..m, i < j PROVE to[i] < to[j]
    <2>1. i + 1 < j + 1 /\ i + 1 \in 1..n /\ j + 1 \in 1..n
      BY <1>9, <1>11
    <2>2. ix[i + 1] < ix[j + 1]
      BY <1>2, <2>1
    <2>3. QED BY <1>9, <2>2
  <1>12. ASSUME NEW k \in DOMAIN v, v[k].answers # NoCommand
         PROVE  \E i \in 1..m : to[i] = k
    <2>1. PICK j \in 1..n : ix[j] = k + 1
      BY <1>2, <1>4, <1>12
    <2>2. j # 1
      BY <1>4, <1>5, <2>1
    <2>3. j - 1 \in 1..m /\ (j - 1) + 1 = j
      BY <1>8, <2>1, <2>2
    <2>4. to[j - 1] = (k + 1) - 1
      BY <1>9, <2>1, <2>3
    <2>5. QED BY <1>4, <2>3, <2>4
  <1>13. ASSUME NEW i \in 1..m PROVE x[i] = v[to[i]].answers
    <2>1. i \in 1..Len(x)
      BY <1>1, <1>7, <1>8
    <2>2. x[i] = p[i + 1] /\ p[i + 1] = w[ix[i + 1]].answers
      BY <1>2, <1>7, <1>9, <2>1
    <2>3. to[i] + 1 = ix[i + 1] /\ to[i] \in DOMAIN v
      BY <1>9, <1>10
    <2>4. QED BY <1>4, <2>2, <2>3
  <1>14. Len(x) = m + Len(u) /\ \A i \in 1..Len(u) : x[m + i] = u[i]
    <2>1. Len(x) = m + Len(u)
      BY <1>1, <1>7, <1>8
    <2>2. ASSUME NEW i \in 1..Len(u) PROVE x[m + i] = u[i]
      <3>1. m + i \in 1..Len(x) /\ (m + i) + 1 = n + i
        BY <1>7, <1>8, <1>9, <2>1
      <3>2. QED BY <1>1, <1>7, <3>1
    <2>3. QED BY <2>1, <2>2
  <1>15. InOrder(x, v, u)
    BY <1>9, <1>10, <1>11, <1>12, <1>13, <1>14 DEF InOrder
  <1>16. p[1] = Head(w).answers
    BY <1>2, <1>4, <1>5
  <1>17. QED BY <1>3, <1>6, <1>7, <1>15, <1>16

\* Read an event without an answer.
LEMMA OrderSkipped ==
  ASSUME NEW p \in Seq(Command), NEW w \in Seq(Acks), NEW u \in Seq(Command),
         w # <<>>, Head(w).answers = NoCommand, InOrder(p, w, u)
  PROVE  InOrder(p, Tail(w), u)
  <1>1. PICK n \in Nat : \E ix \in [1..n -> DOMAIN w] :
          /\ \A i, j \in 1..n : i < j => ix[i] < ix[j]
          /\ \A k \in DOMAIN w : w[k].answers # NoCommand => \E i \in 1..n : ix[i] = k
          /\ Len(p) = n + Len(u)
          /\ \A i \in 1..n : p[i] = w[ix[i]].answers
          /\ \A i \in 1..Len(u) : p[n + i] = u[i]
    BY DEF InOrder
  <1>2. PICK ix \in [1..n -> DOMAIN w] :
          /\ \A i, j \in 1..n : i < j => ix[i] < ix[j]
          /\ \A k \in DOMAIN w : w[k].answers # NoCommand => \E i \in 1..n : ix[i] = k
          /\ \A i \in 1..n : p[i] = w[ix[i]].answers
    BY <1>1
  <1>3. PICK v : v = Tail(w)
    OBVIOUS
  <1>4. /\ Len(w) \in Nat \ {0} /\ DOMAIN w = 1..Len(w) /\ DOMAIN v = 1..Len(w) - 1
        /\ \A k \in DOMAIN v : k + 1 \in DOMAIN w /\ v[k] = w[k + 1]
        /\ Head(w) = w[1]
    BY <1>3
  <1>5. PICK to : to = [i \in 1..n |-> ix[i] - 1]
    OBVIOUS
  <1>6. ASSUME NEW i \in 1..n PROVE ix[i] \in 2..Len(w) /\ to[i] = ix[i] - 1
    <2>1. p[i] \in Command
      <3>1. i \in 1..Len(p)
        BY <1>1
      <3>2. QED BY <3>1
    <2>2. w[ix[i]].answers # NoCommand
      BY <1>2, <2>1, NoneIsNoCommand
    <2>3. ix[i] # 1
      BY <1>4, <2>2
    <2>4. QED BY <1>4, <1>5, <2>3
  <1>7. to \in [1..n -> DOMAIN v]
    <2>1. \A i \in 1..n : to[i] \in DOMAIN v
      BY <1>4, <1>6
    <2>2. QED BY <1>5, <2>1
  <1>8. \A i, j \in 1..n : i < j => to[i] < to[j]
    BY <1>2, <1>6
  <1>9. ASSUME NEW k \in DOMAIN v, v[k].answers # NoCommand
        PROVE  \E i \in 1..n : to[i] = k
    <2>1. k + 1 \in DOMAIN w /\ w[k + 1].answers # NoCommand
      BY <1>4, <1>9
    <2>2. PICK i \in 1..n : ix[i] = k + 1
      BY <1>2, <2>1
    <2>3. to[i] = (k + 1) - 1 /\ k \in Nat
      BY <1>4, <1>6, <2>2
    <2>4. QED BY <2>3
  <1>10. ASSUME NEW i \in 1..n PROVE p[i] = v[to[i]].answers
    <2>1. to[i] + 1 = ix[i] /\ to[i] \in DOMAIN v
      BY <1>6, <1>7
    <2>2. QED BY <1>2, <1>4, <2>1
  <1>11. InOrder(p, v, u)
    BY <1>1, <1>7, <1>8, <1>9, <1>10 DEF InOrder
  <1>12. QED BY <1>3, <1>11

\* What goes to the end of pending was sent, then all of it was.
LEMMA AllSentStays ==
  ASSUME Types, NEW p \in Seq(Command), NEW x \in Seq(Command), pending' = p \o x,
         \A i \in 1..Len(p) : Sent(p[i])', \A i \in 1..Len(x) : Sent(x[i])'
  PROVE  AllSent'
  <1>1. /\ pending' \in Seq(Command) /\ Len(pending') = Len(p) + Len(x)
        /\ \A i \in 1..Len(p) + Len(x) : pending'[i] = IF i <= Len(p) THEN p[i] ELSE x[i - Len(p)]
    BY ConcatProperties
  <1>2. Len(p) \in Nat /\ Len(x) \in Nat
    OBVIOUS
  <1>3. ASSUME NEW i \in DOMAIN pending', NEW c, c = pending'[i] PROVE Sent(c)'
    <2>1. i \in 1..Len(p) + Len(x)
      BY <1>1
    <2>2. CASE i <= Len(p)
      <3>1. i \in 1..Len(p) /\ c = p[i]
        BY <1>1, <1>2, <1>3, <2>1, <2>2
      <3>2. QED BY <3>1
    <2>3. CASE i > Len(p)
      <3>1. i - Len(p) \in 1..Len(x) /\ c = x[i - Len(p)]
        BY <1>1, <1>2, <1>3, <2>1, <2>3
      <3>2. QED BY <3>1
    <2>4. QED BY <1>2, <2>1, <2>2, <2>3
  <1>4. QED BY <1>3 DEF AllSent

\* acknowledge finds the oldest command by its opcode.
LEMMA OwnerFound ==
  ASSUME NEW c \in Command, pending \in Seq(Command), pending # <<>>, c = pending[1]
  PROVE  Owner(c.op) = 1 /\ Without(pending, 1) = Tail(pending)
  <1>1. 1 \in DOMAIN pending /\ \A i \in DOMAIN pending : 1 <= i /\ i \in Nat
    OBVIOUS
  <1>2. Owner(c.op) = 1
    <2>1. PICK S : S = {i \in DOMAIN pending : pending[i].op = c.op}
      OBVIOUS
    <2>2. 1 \in S /\ \A i \in S : 1 <= i /\ i \in Nat
      BY <1>1, <2>1
    <2>3. (CHOOSE i \in S : \A j \in S : i <= j) = 1
      BY <2>2
    <2>4. QED BY <2>1, <2>2, <2>3 DEF Owner
  <1>3. Without(pending, 1) = Tail(pending)
    <2>1. SubSeq(pending, 1, 0) = <<>> /\ SubSeq(pending, 2, Len(pending)) = Tail(pending)
      BY SubSeqEmpty, TailIsSubSeq
    <2>2. Tail(pending) \in Seq(Command)
      OBVIOUS
    <2>3. Without(pending, 1) = SubSeq(pending, 1, 0) \o SubSeq(pending, 2, Len(pending))
      BY DEF Without
    <2>4. <<>> \o Tail(pending) = Tail(pending)
      BY <2>2
    <2>5. QED BY <2>1, <2>3, <2>4
  <1>4. QED BY <1>2, <1>3
-----------------------------------------------------------------------------
(* The steps.                                                              *)

\* What only the worker does to itself.
LEMMA CallerStep ==
  ASSUME Inv, Issue \/ SendFails \/ NoCredit \/ GiveUp
  PROVE  Inv'
  <1>1. UNCHANGED <<credits, queued, pending, inside, owes, inbox, wire, accepted>>
    BY DEF Issue, SendFails, NoCredit, GiveUp, hostVars, controllerVars
  <1>2. /\ abandoned \subseteq abandoned'
        /\ caller' # "answer"
        /\ caller = "answer" => abandoned' = abandoned \cup {call}
        /\ caller # "answer" => abandoned' = abandoned
    BY DEF Issue, SendFails, NoCredit, GiveUp, Done
  <1>3. ASSUME NEW c, Sent(c) PROVE Sent(c)'
    BY <1>2, <1>3 DEF Sent
  <1>4. Types'
    <2>1. CASE Issue
      BY <1>1, <2>1, FlowAssumption DEF Issue, Inv, Types
    <2>2. CASE SendFails \/ NoCredit \/ GiveUp
      BY <1>1, <2>2 DEF SendFails, NoCredit, GiveUp, Done, Inv, Types
    <2>3. QED BY <2>1, <2>2
  <1>5. InOrder(pending, wire, inside)' /\ AllSent'
    BY <1>1, <1>3 DEF Inv, AllSent
  <1>6. Youngest'
    <2>1. CASE Issue
      <3>1. PICK op \in Op : call' = [id |-> issued + 1, op |-> op, background |-> FALSE]
        BY <2>1 DEF Issue
      <3>2. issued' = issued + 1 /\ issued + 1 \in 1..MaxCommands /\ abandoned' = abandoned
        BY <2>1, FlowAssumption DEF Issue, Inv, Types
      <3>3. call' \in Command /\ call'.id = issued + 1 /\ ~call'.background
        BY <3>1, <3>2 DEF Command
      <3>4. \A c \in abandoned : c.id \in Nat /\ c.id <= issued /\ c \in Command /\ ~c.background
        BY DEF Inv, Youngest, Command
      <3>5. issued \in Nat
        BY DEF Inv, Types
      <3>6. QED BY <3>2, <3>3, <3>4, <3>5 DEF Youngest
    <2>2. CASE SendFails \/ NoCredit \/ GiveUp
      BY <2>2 DEF SendFails, NoCredit, GiveUp, Done, Inv, Youngest
    <2>3. QED BY <2>1, <2>2
  <1>7. PassedOn'
    BY <1>1, <1>3 DEF Inv, PassedOn
  <1>8. OwnAnswerUnlessAbandoned'
    BY <1>1, <1>2 DEF Inv, OwnAnswerUnlessAbandoned
  <1>9. QED BY <1>4, <1>5, <1>6, <1>7, <1>8 DEF Inv

LEMMA SendStep ==
  ASSUME Inv, Send
  PROVE  Inv'
  <1>1. PICK d : d = call
    OBVIOUS
  <1>2. d \in Command /\ ~d.background /\ d.id <= issued
    BY <1>1 DEF Send, Inv, Youngest
  <1>3. /\ credits > 0 /\ credits' = credits - 1
        /\ pending' = pending \o <<d>> /\ inside' = inside \o <<d>>
        /\ UNCHANGED <<queued, inbox, issued, accepted, owes, wire>>
    BY <1>1, <1>2, AppendIsConcat DEF Send, Inv, Types
  <1>4. \/ caller' = "answer" /\ call' = d /\ waits' = waits /\ abandoned' = abandoned
        \/ caller' = "idle" /\ waits' = FALSE /\ abandoned' = abandoned \cup {d}
    BY <1>1 DEF Send, Done
  <1>5. Sent(d)' /\ <<d>> \in Seq(Command)
    BY <1>2, <1>4 DEF Sent
  <1>6. ASSUME NEW c, Sent(c) PROVE Sent(c)'
    BY <1>4, <1>6 DEF Sent, Send
  <1>7. pending \in Seq(Command) /\ inside \in Seq(Command)
    BY DEF Inv, Types
  <1>8. Types'
    <2>1. pending' \in Seq(Command) /\ inside' \in Seq(Command)
      BY <1>3, <1>5, <1>7, ConcatProperties
    <2>2. credits' \in Nat
      BY <1>3 DEF Inv, Types
    <2>3. QED BY <1>3, <1>4, <2>1, <2>2 DEF Inv, Types
  <1>9. InOrder(pending, wire, inside)'
    <2>1. InOrder(pending \o <<d>>, wire, inside \o <<d>>)
      BY <1>5, <1>7, OrderSent DEF Inv
    <2>2. QED BY <1>3, <2>1
  <1>10. AllSent'
    <2>1. PICK p, x : p = pending /\ x = <<d>>
      OBVIOUS
    <2>2. ASSUME NEW i \in 1..Len(p), NEW c, c = p[i] PROVE Sent(c)'
      <3>1. Sent(c)
        BY <1>7, <2>1, <2>2 DEF Inv, AllSent
      <3>2. QED BY <1>6, <3>1
    <2>3. Len(x) = 1 /\ x[1] = d
      BY <2>1
    <2>4. \A i \in 1..Len(x) : Sent(x[i])'
      BY <1>5, <2>3
    <2>5. QED BY <1>3, <1>5, <1>7, <2>1, <2>2, <2>4, AllSentStays DEF Inv
  <1>11. Youngest'
    BY <1>1, <1>2, <1>3, <1>4 DEF Inv, Youngest, Send
  <1>12. PassedOn'
    BY <1>3, <1>6 DEF Inv, PassedOn
  <1>13. OwnAnswerUnlessAbandoned'
    BY <1>3, <1>4 DEF Inv, OwnAnswerUnlessAbandoned
  <1>14. QED BY <1>8, <1>9, <1>10, <1>11, <1>12, <1>13 DEF Inv

LEMMA ReceiveStep ==
  ASSUME Inv, Receive \/ DiscardEvent
  PROVE  Inv'
  <1>1. /\ UNCHANGED <<credits, queued, pending, inside, owes, wire, issued>>
        /\ inbox # <<>> /\ inbox' = Tail(inbox)
    BY DEF Receive, DiscardEvent, hostVars, controllerVars
  <1>2. /\ inbox' \in Seq(Acks) /\ inbox[1] \in Acks
        /\ \A i \in DOMAIN inbox' : i + 1 \in DOMAIN inbox /\ inbox'[i] = inbox[i + 1]
    BY <1>1, HeadTailProperties DEF Inv, Types
  <1>3. CASE UNCHANGED callerVars
    <2>1. \A c : Sent(c)' <=> Sent(c)
      BY <1>3 DEF Sent, callerVars
    <2>2. Types'
      BY <1>1, <1>2, <1>3 DEF Inv, Types, callerVars
    <2>3. InOrder(pending, wire, inside)' /\ AllSent'
      BY <1>1, <2>1 DEF Inv, AllSent
    <2>4. Youngest' /\ OwnAnswerUnlessAbandoned'
      BY <1>1, <1>3 DEF Inv, Youngest, OwnAnswerUnlessAbandoned, callerVars
    <2>5. PassedOn'
      BY <1>2, <2>1 DEF Inv, PassedOn
    <2>6. QED BY <2>2, <2>3, <2>4, <2>5 DEF Inv
  <1>4. ASSUME NEW d, NEW got, d = call, got = inbox[1].answers, caller = "answer",
               got # NoCommand, got.op = d.op,
               accepted' = <<d, got>>, caller' = "idle", waits' = FALSE,
               abandoned' = abandoned \cup {d}
        PROVE  Inv'
    <2>1. ASSUME NEW c, Sent(c) PROVE Sent(c)'
      BY <1>4, <2>1 DEF Sent
    <2>2. Types'
      BY <1>1, <1>2, <1>4 DEF Inv, Types
    <2>3. InOrder(pending, wire, inside)' /\ AllSent'
      BY <1>1, <2>1 DEF Inv, AllSent
    <2>4. Youngest'
      BY <1>1, <1>4 DEF Inv, Youngest
    <2>5. PassedOn'
      BY <1>2, <2>1 DEF Inv, PassedOn
    <2>6. Sent(got) /\ ~got.background
      BY <1>1, <1>2, <1>4 DEF Inv, PassedOn, Types
    <2>7. got # d => got \in abandoned /\ got.id < d.id
      BY <1>4, <2>6 DEF Sent, Inv, Youngest
    <2>8. OwnAnswerUnlessAbandoned'
      BY <1>4, <2>7 DEF OwnAnswerUnlessAbandoned
    <2>9. QED BY <2>2, <2>3, <2>4, <2>5, <2>8 DEF Inv
  <1>5. PICK d, got : d = call /\ got = Head(inbox).answers
    OBVIOUS
  <1>6. Head(inbox) = inbox[1]
    OBVIOUS
  <1>7. CASE Receive
    <2>1. CASE got # NoCommand /\ got.op = d.op
      <3>1. /\ caller = "answer" /\ accepted' = <<d, got>> /\ caller' = "idle" /\ waits' = FALSE
            /\ abandoned' = abandoned \cup {d}
        BY <1>5, <1>7, <2>1 DEF Receive, Done
      <3>2. QED BY <1>4, <1>5, <1>6, <2>1, <3>1
    <2>2. CASE ~(got # NoCommand /\ got.op = d.op)
      BY <1>3, <1>5, <1>7, <2>2 DEF Receive
    <2>3. QED BY <2>1, <2>2
  <1>8. QED BY <1>3, <1>7 DEF DiscardEvent

LEMMA BackgroundStep ==
  ASSUME Inv, QueueCommand \/ QueueFull
  PROVE  Inv'
  <1>1. UNCHANGED <<caller, call, waits, accepted, abandoned, owes, inbox, wire>>
    BY DEF QueueCommand, QueueFull, callerVars, controllerVars
  <1>2. issued \in Nat /\ issued' = issued + 1 /\ issued' \in 1..MaxCommands
    BY FlowAssumption DEF Inv, Types, QueueCommand, QueueFull
  <1>3. ASSUME NEW c PROVE Sent(c)' <=> Sent(c)
    BY <1>1 DEF Sent
  <1>4. Youngest'
    <2>1. \A c \in Command : c.id \in Nat
      BY DEF Command
    <2>2. QED BY <1>1, <1>2, <2>1 DEF Inv, Youngest
  <1>5. PassedOn' /\ OwnAnswerUnlessAbandoned'
    <2>1. PassedOn'
      BY <1>1, <1>3 DEF Inv, PassedOn
    <2>2. QED BY <1>1, <2>1 DEF Inv, OwnAnswerUnlessAbandoned
  <1>6. CASE QueueFull
    <2>1. UNCHANGED <<credits, queued, pending, inside>>
      BY <1>6 DEF QueueFull, hostVars, controllerVars
    <2>2. Types'
      BY <1>1, <1>2, <2>1 DEF Inv, Types
    <2>3. InOrder(pending, wire, inside)' /\ AllSent'
      BY <1>1, <1>3, <2>1 DEF Inv, AllSent
    <2>4. QED BY <1>4, <1>5, <2>2, <2>3 DEF Inv
  <1>7. CASE QueueCommand
    <2>1. PICK op \in Op :
            Flush(Append(queued, [id |-> issued + 1, op |-> op, background |-> TRUE]),
                  credits, pending, inside)
      BY <1>7 DEF QueueCommand
    <2>2. PICK new, q : /\ new = [id |-> issued + 1, op |-> op, background |-> TRUE]
                        /\ q = Append(queued, new)
      OBVIOUS
    <2>3. new \in Queueable
      BY <1>2, <2>2 DEF Command, Queueable
    <2>4. q \in Seq(Queueable) /\ credits \in Nat
      BY <2>2, <2>3 DEF Inv, Types
    <2>5. Flush(q, credits, pending, inside)
      BY <2>1, <2>2
    <2>6. /\ queued' \in Seq(Queueable) /\ credits' \in Nat
          /\ Extended(pending, inside, pending', inside')
      BY <2>4, <2>5, Flushed
    <2> PICK w \in Seq(Queueable) : pending' = pending \o w /\ inside' = inside \o w
      BY <2>6 DEF Extended
    <2>7. pending \in Seq(Command) /\ inside \in Seq(Command) /\ w \in Seq(Command)
      BY DEF Inv, Types, Queueable
    <2>8. Types'
      <3>1. pending' \in Seq(Command) /\ inside' \in Seq(Command)
        BY <2>7, ConcatProperties
      <3>2. QED BY <1>1, <1>2, <2>6, <3>1 DEF Inv, Types
    <2>9. InOrder(pending, wire, inside)'
      <3>1. InOrder(pending \o w, wire, inside \o w)
        BY <2>7, OrderSent DEF Inv
      <3>2. QED BY <1>1, <3>1
    <2>10. AllSent'
      <3>1. PICK p : p = pending
        OBVIOUS
      <3>2. ASSUME NEW i \in 1..Len(p), NEW c, c = p[i] PROVE Sent(c)'
        <4>1. Sent(c)
          BY <2>7, <3>1, <3>2 DEF Inv, AllSent
        <4>2. QED BY <1>3, <4>1
      <3>3. ASSUME NEW i \in 1..Len(w) PROVE Sent(w[i])'
        <4>1. w[i] \in Queueable
          OBVIOUS
        <4>2. QED BY <4>1 DEF Queueable, Sent
      <3>4. QED BY <2>7, <3>1, <3>2, <3>3, AllSentStays DEF Inv
    <2>11. QED BY <1>4, <1>5, <2>8, <2>9, <2>10 DEF Inv
  <1>8. QED BY <1>6, <1>7

\* acknowledge: what an event takes off the pending commands is the oldest one, the
\* command it answers, and an event that answers none is passed on.
LEMMA AckRead ==
  ASSUME Inv, ReadEvent, NEW ack, ack = Head(wire), NEW d, d = ack.answers
  PROVE  \E rest \in Seq(Command) :
            /\ rest = IF d = NoCommand THEN pending ELSE Tail(pending)
            /\ Flush(queued, ack.credits, rest, inside)
            /\ InOrder(rest, wire', inside)
            /\ \A i \in 1..Len(rest) : Sent(rest[i])
            /\ d = NoCommand => inbox' = Append(inbox, ack)
            /\ d # NoCommand => /\ Sent(d)
                                /\ inbox' = IF d.background THEN inbox ELSE Append(inbox, ack)
  <1>1. wire # <<>> /\ wire' = Tail(wire)
    BY DEF ReadEvent
  <1>2. /\ ack \in Acks /\ wire \in Seq(Acks) /\ wire' \in Seq(Acks) /\ ack.credits \in Nat
        /\ pending \in Seq(Command) /\ inside \in Seq(Command) /\ queued \in Seq(Queueable)
        /\ inbox \in Seq(Acks) /\ InOrder(pending, wire, inside)
    <2>1. wire \in Seq(Acks) /\ Head(wire) \in Acks /\ Tail(wire) \in Seq(Acks)
      BY <1>1, HeadTailProperties DEF Inv, Types
    <2>2. \A a \in Acks : a.credits \in Nat
      BY FlowAssumption DEF Acks
    <2>3. QED BY <1>1, <2>1, <2>2 DEF Inv, Types
  <1>3. CASE d = NoCommand
    <2>1. Flush(queued, ack.credits, pending, inside) /\ inbox' = Append(inbox, ack)
      BY <1>3 DEF ReadEvent
    <2>2. InOrder(pending, wire', inside)
      BY <1>1, <1>2, <1>3, OrderSkipped
    <2>3. \A i \in 1..Len(pending) : Sent(pending[i])
      BY <1>2 DEF Inv, AllSent
    <2>4. QED BY <1>2, <1>3, <2>1, <2>2, <2>3
  <1>4. CASE d # NoCommand
    <2>1. pending # <<>> /\ pending[1] = d /\ InOrder(Tail(pending), wire', inside)
      BY <1>1, <1>2, <1>4, OrderRead
    <2>2. d \in Command /\ Sent(d)
      BY <1>2, <2>1 DEF Inv, AllSent
    <2>3. Owner(d.op) = 1 /\ Without(pending, 1) = Tail(pending)
      BY <1>2, <2>1, <2>2, OwnerFound
    <2>4. PICK owner, rest :
            /\ owner = Owner(d.op) /\ rest = Without(pending, owner)
            /\ Flush(queued, ack.credits, rest, inside)
            /\ inbox' = IF pending[owner].background THEN inbox ELSE Append(inbox, ack)
      <3>1. PICK owner, rest : owner = Owner(d.op) /\ rest = Without(pending, owner)
        OBVIOUS
      <3>2. owner = 1
        BY <2>3, <3>1
      <3>3. Flush(queued, ack.credits, rest, inside)
        BY <1>4, <3>1, <3>2 DEF ReadEvent
      <3>4. inbox' = IF pending[owner].background THEN inbox ELSE Append(inbox, ack)
        BY <1>4, <3>1, <3>2 DEF ReadEvent
      <3>5. QED BY <3>1, <3>3, <3>4
    <2>5. Tail(pending) \in Seq(Command)
      BY <1>2, <2>1
    <2>6. ASSUME NEW i \in 1..Len(Tail(pending)), NEW c, c = Tail(pending)[i] PROVE Sent(c)
      <3>1. i + 1 \in DOMAIN pending /\ c = pending[i + 1]
        BY <1>2, <2>1, <2>6
      <3>2. QED BY <3>1 DEF Inv, AllSent
    <2>7. rest = Tail(pending)
      BY <2>3, <2>4
    <2>8. inbox' = IF d.background THEN inbox ELSE Append(inbox, ack)
      BY <2>1, <2>3, <2>4
    <2>9. QED BY <1>4, <2>1, <2>2, <2>4, <2>5, <2>6, <2>7, <2>8
  <1>5. QED BY <1>3, <1>4

\* Reading an event.  An answer is that of the oldest pending command.
LEMMA ReadStep ==
  ASSUME Inv, ReadEvent
  PROVE  /\ Inv'
         /\ \A ack : ack = Head(wire) /\ ack.answers # NoCommand
                       => (inbox' = inbox <=> ack.answers.background)
  <1>1. /\ wire # <<>> /\ wire' = Tail(wire)
        /\ UNCHANGED <<caller, call, waits, accepted, abandoned, owes, issued>>
    BY DEF ReadEvent, callerVars
  <1>2. ASSUME NEW c PROVE Sent(c)' <=> Sent(c)
    BY <1>1 DEF Sent
  <1>3. PICK ack, d : ack = Head(wire) /\ d = ack.answers
    OBVIOUS
  <1>4. /\ ack \in Acks /\ wire \in Seq(Acks) /\ wire' \in Seq(Acks) /\ ack.credits \in Nat
        /\ pending \in Seq(Command) /\ inside \in Seq(Command) /\ queued \in Seq(Queueable)
        /\ inbox \in Seq(Acks) /\ InOrder(pending, wire, inside)
    <2>1. wire \in Seq(Acks) /\ Head(wire) \in Acks /\ Tail(wire) \in Seq(Acks)
      BY <1>1, HeadTailProperties DEF Inv, Types
    <2>2. \A a \in Acks : a.credits \in Nat
      BY FlowAssumption DEF Acks
    <2>3. QED BY <1>1, <1>3, <2>1, <2>2 DEF Inv, Types
  <1>5. \E rest \in Seq(Command) :
          /\ rest = IF d = NoCommand THEN pending ELSE Tail(pending)
          /\ Flush(queued, ack.credits, rest, inside)
          /\ InOrder(rest, wire', inside)
          /\ \A i \in 1..Len(rest) : Sent(rest[i])
          /\ d = NoCommand => inbox' = Append(inbox, ack)
          /\ d # NoCommand => /\ Sent(d)
                              /\ inbox' = IF d.background THEN inbox ELSE Append(inbox, ack)
    BY <1>3, AckRead
  <1>6. PICK rest \in Seq(Command) :
          /\ Flush(queued, ack.credits, rest, inside)
          /\ InOrder(rest, wire', inside)
          /\ \A i \in 1..Len(rest) : Sent(rest[i])
          /\ d = NoCommand => inbox' = Append(inbox, ack)
          /\ d # NoCommand => /\ Sent(d)
                              /\ inbox' = IF d.background THEN inbox ELSE Append(inbox, ack)
    BY <1>5
  <1>7. /\ queued' \in Seq(Queueable) /\ credits' \in Nat
        /\ Extended(rest, inside, pending', inside')
    BY <1>4, <1>6, Flushed
  <1> PICK w \in Seq(Queueable) : pending' = rest \o w /\ inside' = inside \o w
    BY <1>7 DEF Extended
  <1>8. w \in Seq(Command)
    BY DEF Queueable
  <1>9. /\ Append(inbox, ack) \in Seq(Acks) /\ Append(inbox, ack) # inbox
        /\ \A i \in DOMAIN Append(inbox, ack) :
              \/ i \in DOMAIN inbox /\ Append(inbox, ack)[i] = inbox[i]
              \/ Append(inbox, ack)[i] = ack
    <2>1. inbox \in Seq(Acks) /\ ack \in Acks
      BY <1>4
    <2>2. Len(Append(inbox, ack)) # Len(inbox)
      BY <2>1
    <2>3. QED BY <2>1, <2>2
  <1>10. Types'
    <2>1. pending' \in Seq(Command) /\ inside' \in Seq(Command)
      BY <1>4, <1>7, <1>8, ConcatProperties
    <2>2. inbox' \in Seq(Acks)
      BY <1>4, <1>6, <1>9
    <2>3. QED BY <1>1, <1>4, <1>7, <2>1, <2>2 DEF Inv, Types
  <1>11. InOrder(pending, wire, inside)'
    <2>1. InOrder(rest \o w, wire', inside \o w)
      BY <1>4, <1>6, <1>8, OrderSent
    <2>2. QED BY <1>7, <2>1
  <1>12. AllSent'
    <2>1. \A i \in 1..Len(rest) : Sent(rest[i])'
      BY <1>2, <1>6
    <2>2. ASSUME NEW i \in 1..Len(w) PROVE Sent(w[i])'
      <3>1. w[i] \in Queueable
        OBVIOUS
      <3>2. QED BY <3>1 DEF Queueable, Sent
    <2>3. QED BY <1>7, <1>8, <2>1, <2>2, AllSentStays DEF Inv
  <1>13. Youngest' /\ OwnAnswerUnlessAbandoned'
    BY <1>1 DEF Inv, Youngest, OwnAnswerUnlessAbandoned
  <1>14. PassedOn'
    <2>1. CASE inbox' = inbox
      BY <1>2, <2>1 DEF Inv, PassedOn
    <2>2. CASE inbox' = Append(inbox, ack)
      <3>1. d = NoCommand \/ (Sent(d)' /\ ~d.background)
        BY <1>2, <1>6, <1>9, <2>2
      <3>2. ASSUME NEW i \in DOMAIN inbox', NEW e, e = inbox'[i].answers
            PROVE  e = NoCommand \/ (Sent(e)' /\ ~e.background)
        <4>1. CASE inbox'[i] = ack
          <5>1. e = d
            BY <1>3, <3>2, <4>1
          <5>2. QED BY <3>1, <5>1
        <4>2. CASE i \in DOMAIN inbox /\ inbox'[i] = inbox[i]
          <5>1. e = inbox[i].answers
            BY <3>2, <4>2
          <5>2. e = NoCommand \/ (Sent(e) /\ ~e.background)
            BY <4>2, <5>1 DEF Inv, PassedOn
          <5>3. QED BY <1>2, <5>2
        <4>3. QED BY <1>9, <2>2, <3>2, <4>1, <4>2
      <3>3. QED BY <3>2 DEF PassedOn
    <2>3. QED BY <1>6, <2>1, <2>2
  <1>15. d # NoCommand => (inbox' = inbox <=> d.background)
    BY <1>6, <1>9
  <1>16. QED BY <1>3, <1>10, <1>11, <1>12, <1>13, <1>14, <1>15 DEF Inv

LEMMA ControllerStep ==
  ASSUME Inv, Controller
  PROVE  Inv'
  <1>1. UNCHANGED <<credits, queued, pending, caller, call, waits, accepted, abandoned, inbox,
                    issued>>
        /\ owes' \in BOOLEAN
    BY DEF Controller, Answer, ReportCredit, hostVars, callerVars
  <1>2. ASSUME NEW c PROVE Sent(c)' <=> Sent(c)
    BY <1>1 DEF Sent
  <1>3. /\ wire \in Seq(Acks) /\ inside \in Seq(Command) /\ pending \in Seq(Command)
        /\ InOrder(pending, wire, inside)
    BY DEF Inv, Types
  <1>4. wire' \in Seq(Acks) /\ inside' \in Seq(Command) /\ InOrder(pending, wire, inside)'
    <2>1. CASE Answer
      <3>1. PICK n \in {0, Slots - Len(inside')} \cap Nat :
              wire' = Append(wire, Ack(Head(inside), n))
        BY <2>1 DEF Answer
      <3>2. inside # <<>> /\ inside' = Tail(inside) /\ Head(inside) \in Command
            /\ inside' \in Seq(Command) /\ Len(inside') \in Nat
        BY <1>3, <2>1 DEF Answer
      <3>3. n \in 0..Slots
        BY <3>2, FlowAssumption
      <3>4. PICK a : a = Ack(Head(inside), n)
        OBVIOUS
      <3>5. a \in Acks /\ a.answers = Head(inside)
        BY <3>2, <3>3, <3>4 DEF Acks, Ack
      <3>6. InOrder(pending, Append(wire, a), Tail(inside))
        BY <1>3, <3>2, <3>5, OrderAnswered
      <3>7. wire' \in Seq(Acks)
        BY <1>3, <3>1, <3>4, <3>5
      <3>8. QED BY <1>1, <3>1, <3>2, <3>4, <3>6, <3>7
    <2>2. CASE ReportCredit
      <3>1. PICK a : a = Ack(NoCommand, Slots - Len(inside))
        OBVIOUS
      <3>2. /\ wire' = Append(wire, a) /\ inside' = inside
            /\ Len(inside) < Slots /\ Len(inside) \in Nat
        BY <1>3, <2>2, <3>1 DEF ReportCredit
      <3>3. a \in Acks /\ a.answers = NoCommand
        BY <3>1, <3>2, FlowAssumption DEF Acks, Ack
      <3>4. InOrder(pending, Append(wire, a), inside)
        BY <1>3, <3>3, OrderReported
      <3>5. wire' \in Seq(Acks)
        BY <1>3, <3>2, <3>3
      <3>6. QED BY <1>1, <1>3, <3>2, <3>4, <3>5
    <2>3. QED BY <2>1, <2>2 DEF Controller
  <1>5. Types'
    BY <1>1, <1>4 DEF Inv, Types
  <1>6. AllSent' /\ PassedOn'
    BY <1>1, <1>2 DEF Inv, AllSent, PassedOn
  <1>7. Youngest' /\ OwnAnswerUnlessAbandoned'
    BY <1>1 DEF Inv, Youngest, OwnAnswerUnlessAbandoned
  <1>8. QED BY <1>4, <1>5, <1>6, <1>7 DEF Inv

LEMMA FlowInitially == Init => Inv
  <1> SUFFICES ASSUME Init PROVE Inv
    OBVIOUS
  <1>1. Types
    <2>1. /\ issued = 0 /\ waits = FALSE /\ owes = FALSE /\ queued = <<>> /\ inbox = <<>>
          /\ caller = "idle" /\ credits = 1 /\ pending = <<>> /\ inside = <<>> /\ wire = <<>>
      BY DEF Init
    <2>2. 0 \in 0..MaxCommands
      BY FlowAssumption
    <2>3. \A S : <<>> \in Seq(S)
      OBVIOUS
    <2>4. QED BY <2>1, <2>2, <2>3 DEF Types
  <1>2. InOrder(pending, wire, inside)
    <2>1. pending = <<>> /\ wire = <<>> /\ inside = <<>>
      BY DEF Init
    <2>2. PICK ix : ix = [i \in 1..0 |-> 1]
      OBVIOUS
    <2>3. ix \in [1..0 -> DOMAIN wire] /\ DOMAIN wire = {}
      BY <2>1, <2>2
    <2>4. /\ \A i, j \in 1..0 : i < j => ix[i] < ix[j]
          /\ \A k \in DOMAIN wire : wire[k].answers # NoCommand => \E i \in 1..0 : ix[i] = k
          /\ Len(pending) = 0 + Len(inside)
          /\ \A i \in 1..0 : pending[i] = wire[ix[i]].answers
          /\ \A i \in 1..Len(inside) : pending[0 + i] = inside[i]
      BY <2>1, <2>3
    <2>5. 0 \in Nat
      OBVIOUS
    <2>6. QED BY <2>3, <2>4, <2>5, Zenon DEF InOrder
  <1>3. AllSent /\ Youngest /\ PassedOn /\ OwnAnswerUnlessAbandoned
    BY DEF Init, AllSent, Youngest, PassedOn, OwnAnswerUnlessAbandoned
  <1>4. QED BY <1>1, <1>2, <1>3 DEF Inv

LEMMA FlowPreserved == Inv /\ [Next]_vars => Inv'
  <1> SUFFICES ASSUME Inv, [Next]_vars PROVE Inv'
    OBVIOUS
  <1>1. CASE UNCHANGED vars
    <2>1. \A c : Sent(c)' <=> Sent(c)
      BY <1>1 DEF vars, callerVars, Sent
    <2>2. UNCHANGED <<credits, queued, pending, inside, wire, owes, caller, call, waits, inbox,
                      accepted, abandoned, issued>>
      BY <1>1 DEF vars, hostVars, callerVars, controllerVars
    <2>3. Types' /\ Youngest' /\ OwnAnswerUnlessAbandoned'
      BY <2>2 DEF Inv, Types, Youngest, OwnAnswerUnlessAbandoned
    <2>4. InOrder(pending, wire, inside)'
      BY <2>2 DEF Inv
    <2>5. AllSent' /\ PassedOn'
      BY <2>1, <2>2 DEF Inv, AllSent, PassedOn
    <2>6. QED BY <2>3, <2>4, <2>5 DEF Inv
  <1>2. QED
    BY <1>1, CallerStep, SendStep, ReceiveStep, BackgroundStep, ReadStep, ControllerStep
    DEF Next, Worker, Background
-----------------------------------------------------------------------------
(***************************************************************************)
(* What a call returns is its own answer, or the late one to an earlier    *)
(* foreground command with its opcode, for any number of commands and of   *)
(* slots.                                                                  *)
(***************************************************************************)
THEOREM AnswersAreOwn == Spec => []OwnAnswerUnlessAbandoned
  <1>1. Inv => OwnAnswerUnlessAbandoned
    BY DEF Inv
  <1>2. QED BY <1>1, FlowInitially, FlowPreserved, PTL DEF Spec

(***************************************************************************)
(* An acknowledgement is kept from the worker exactly if it is one of a    *)
(* background command, whatever the opcodes are.                           *)
(***************************************************************************)
THEOREM OwnersAreRight == Spec => RightOwner
  <1>1. ASSUME Inv, [Next]_vars
        PROVE  [\A ack \in Acks :
                  (wire # <<>> /\ wire' = Tail(wire) /\ ack = Head(wire) /\ IsAnswer(ack)) =>
                     (inbox' = inbox <=> ack.answers.background)]_vars
    <2>1. CASE ReadEvent
      BY <1>1, <2>1, ReadStep DEF IsAnswer
    <2>2. CASE UNCHANGED vars
      BY <2>2
    <2>3. CASE Worker \/ Background \/ Controller
      <3>1. wire' = wire \/ \E a : wire' = Append(wire, a)
        BY <2>3 DEF Worker, Background, Controller, Issue, Send, SendFails, NoCredit, Receive,
           GiveUp, DiscardEvent, QueueCommand, QueueFull, Answer, ReportCredit
      <3>2. wire \in Seq(Acks)
        BY <1>1 DEF Inv, Types
      <3>3. wire # <<>> => Len(Tail(wire)) = Len(wire) - 1 /\ Len(wire) \in Nat
        BY <3>2
      <3>4. wire # <<>> => wire' # Tail(wire)
        <4>1. CASE wire' = wire
          BY <3>3, <4>1
        <4>2. ASSUME NEW a, wire' = Append(wire, a) PROVE wire # <<>> => wire' # Tail(wire)
          <5>1. Len(wire') = Len(wire) + 1
            BY <3>2, <4>2
          <5>2. QED BY <3>3, <5>1
        <4>3. QED BY <3>1, <4>1, <4>2
      <3>5. QED BY <3>4
    <2>4. QED BY <1>1, <2>1, <2>2, <2>3 DEF Next
  <1>2. QED BY <1>1, FlowInitially, FlowPreserved, PTL DEF Spec, RightOwner
-----------------------------------------------------------------------------
(* A controller with one slot.  The credit is one token: the host has it,  *)
(* or a command in the controller, or an event on its way.                 *)

AtHost == credits = 1 /\ inside = <<>> /\ pending = <<>> /\ wire = <<>> /\ ~owes

Executing(c) ==
    credits = 0 /\ inside = <<c>> /\ pending = <<c>> /\ wire = <<>> /\ ~owes

\* Answered: with the credit, or without it, which comes later.
Reported(c) ==
    /\ credits = 0 /\ inside = <<>> /\ pending = <<c>>
    /\ \/ wire = <<Ack(c, 1)>> /\ ~owes
       \/ wire = <<Ack(c, 0)>> /\ owes
       \/ wire = <<Ack(c, 0), Ack(NoCommand, 1)>> /\ ~owes

CreditToCome ==
    /\ credits = 0 /\ inside = <<>> /\ pending = <<>>
    /\ \/ wire = <<>> /\ owes
       \/ wire = <<Ack(NoCommand, 1)>> /\ ~owes

OneToken ==
    \/ AtHost \/ CreditToCome
    \/ \E c \in Command : Executing(c) \/ Reported(c)

\* Flushing the queue with no credit does nothing, with one it may use it.
LEMMA FlushNone ==
  ASSUME NEW q \in Seq(Queueable), NEW p \in Seq(Command), NEW u \in Seq(Command),
         Flush(q, 0, p, u)
  PROVE  queued' = q /\ credits' = 0 /\ pending' = p /\ inside' = u
  <1>1. PICK n \in 0..0 : \E of \in [1..n -> DOMAIN q] :
          /\ queued' = SubSeq(q, (IF n < 0 THEN Len(q) ELSE IF n = 0 THEN 0 ELSE of[n]) + 1, Len(q))
          /\ credits' = 0 - n
          /\ pending' = p \o [i \in 1..n |-> q[of[i]]]
          /\ inside' = u \o [i \in 1..n |-> q[of[i]]]
    BY DEF Flush
  <1>2. n = 0
    OBVIOUS
  <1>3. PICK of \in [1..0 -> DOMAIN q] :
          /\ queued' = SubSeq(q, (IF n < 0 THEN Len(q) ELSE IF n = 0 THEN 0 ELSE of[n]) + 1, Len(q))
          /\ credits' = 0 - n
          /\ pending' = p \o [i \in 1..0 |-> q[of[i]]]
          /\ inside' = u \o [i \in 1..0 |-> q[of[i]]]
    BY <1>1, <1>2
  <1>4. [i \in 1..0 |-> q[of[i]]] = <<>>
    OBVIOUS
  <1>5. pending' = p /\ inside' = u
    BY <1>3, <1>4
  <1>6. queued' = SubSeq(q, 1, Len(q)) /\ credits' = 0
    BY <1>3, <1>2
  <1>7. QED BY <1>5, <1>6

LEMMA FlushOne ==
  ASSUME NEW q \in Seq(Queueable), Flush(q, 1, <<>>, <<>>)
  PROVE  \/ credits' = 1 /\ pending' = <<>> /\ inside' = <<>>
         \/ /\ credits' = 0
            /\ \E c \in Command : pending' = <<c>> /\ inside' = <<c>>
  <1>1. PICK n \in 0..1 : \E of \in [1..n -> DOMAIN q] :
          /\ credits' = 1 - n
          /\ pending' = <<>> \o [i \in 1..n |-> q[of[i]]]
          /\ inside' = <<>> \o [i \in 1..n |-> q[of[i]]]
    BY DEF Flush
  <1>2. PICK of \in [1..n -> DOMAIN q] :
          /\ credits' = 1 - n
          /\ pending' = <<>> \o [i \in 1..n |-> q[of[i]]]
          /\ inside' = <<>> \o [i \in 1..n |-> q[of[i]]]
    BY <1>1
  <1>3. CASE n = 0
    <2>1. [i \in 1..n |-> q[of[i]]] = <<>>
      BY <1>3
    <2>2. QED BY <1>2, <1>3, <2>1
  <1>4. CASE n = 1
    <2>1. of[1] \in 1..Len(q) /\ q[of[1]] \in Command
      BY <1>4 DEF Queueable
    <2>2. [i \in 1..n |-> q[of[i]]] = <<q[of[1]]>>
      BY <1>4, <2>1
    <2>3. QED BY <1>2, <1>4, <2>1, <2>2
  <1>5. QED BY <1>3, <1>4

\* There are never more than two events on their way.
LEMMA FewEvents ==
  ASSUME NEW x, NEW y
  PROVE  /\ Tail(<<x>>) = <<>> /\ Tail(<<x, y>>) = <<y>>
         /\ Append(<<>>, y) = <<y>> /\ Append(<<x>>, y) = <<x, y>>
  <1>1. Tail(<<x>>) = <<>>
    OBVIOUS
  <1>2. Tail(<<x, y>>) = <<y>>
    OBVIOUS
  <1>3. Append(<<>>, y) = <<y>>
    OBVIOUS
  <1>4. Append(<<x>>, y) = <<x, y>>
    <2>1. PICK s, t : s = Append(<<x>>, y) /\ t = <<x, y>>
      OBVIOUS
    <2>2. s \in Seq({x, y}) /\ Len(s) = 2 /\ s[1] = x /\ s[2] = y
      <3>1. <<x>> \in Seq({x, y}) /\ Len(<<x>>) = 1
        OBVIOUS
      <3>2. QED BY <2>1, <3>1, AppendProperties
    <2>3. t \in Seq({x, y}) /\ Len(t) = 2 /\ t[1] = x /\ t[2] = y
      BY <2>1
    <2>4. s = t
      BY <2>2, <2>3, SeqEqual
    <2>5. QED BY <2>1, <2>4
  <1>5. QED BY <1>1, <1>2, <1>3, <1>4

\* The credit is used by what is flushed, or it stays.
LEMMA TokenFlushed ==
  ASSUME NEW q \in Seq(Queueable), Flush(q, 1, <<>>, <<>>), wire' = <<>>, ~owes'
  PROVE  OneToken'
  <1>1. CASE credits' = 1 /\ pending' = <<>> /\ inside' = <<>>
    BY <1>1 DEF OneToken, AtHost
  <1>2. ASSUME NEW c \in Command, pending' = <<c>>, inside' = <<c>>, credits' = 0
        PROVE  OneToken'
    BY <1>2 DEF OneToken, Executing
  <1>3. QED BY <1>1, <1>2, FlushOne

LEMMA TokenSent ==
  ASSUME Slots = 1, Inv, OneToken, Send
  PROVE  OneToken'
  <1>1. AtHost
    BY DEF Send, OneToken, CreditToCome, Executing, Reported
  <1>2. PICK d : d = call
    OBVIOUS
  <1>3. d \in Command
    BY <1>2 DEF Send, Inv, Youngest
  <1>4. Executing(d)'
    BY <1>1, <1>2 DEF Send, AtHost, Executing
  <1>5. QED BY <1>3, <1>4 DEF OneToken

LEMMA TokenQueued ==
  ASSUME Slots = 1, Inv, OneToken, QueueCommand
  PROVE  OneToken'
  <1>1. UNCHANGED <<owes, wire>> /\ issued \in Nat /\ issued + 1 \in 1..MaxCommands
    BY FlowAssumption DEF QueueCommand, Inv, Types
  <1>2. PICK op \in Op :
          Flush(Append(queued, [id |-> issued + 1, op |-> op, background |-> TRUE]),
                credits, pending, inside)
    BY DEF QueueCommand
  <1>3. PICK new, q : /\ new = [id |-> issued + 1, op |-> op, background |-> TRUE]
                      /\ q = Append(queued, new)
    OBVIOUS
  <1>4. new \in Queueable
    BY <1>1, <1>3 DEF Command, Queueable
  <1>5. q \in Seq(Queueable) /\ Flush(q, credits, pending, inside)
    BY <1>2, <1>3, <1>4 DEF Inv, Types
  <1>6. CASE AtHost
    BY <1>1, <1>5, <1>6, TokenFlushed DEF AtHost
  <1>7. CASE ~AtHost
    <2>1. credits = 0 /\ pending \in Seq(Command) /\ inside \in Seq(Command)
      BY <1>7 DEF OneToken, CreditToCome, Executing, Reported, Inv, Types
    <2>2. UNCHANGED <<credits, pending, inside>>
      BY <1>5, <2>1, FlushNone
    <2>3. QED BY <1>1, <2>2 DEF OneToken, AtHost, CreditToCome, Executing, Reported
  <1>8. QED BY <1>6, <1>7

LEMMA TokenRead ==
  ASSUME Slots = 1, Inv, OneToken, ReadEvent
  PROVE  OneToken'
  <1>1. wire # <<>> /\ wire' = Tail(wire) /\ owes' = owes /\ queued \in Seq(Queueable)
    BY DEF ReadEvent, Inv, Types
  <1>2. ASSUME NEW ack, ack = Head(wire), NEW d, d = ack.answers
        PROVE  Flush(queued, ack.credits, IF d = NoCommand THEN pending ELSE Tail(pending), inside)
    BY <1>2, AckRead
  <1>3. CASE CreditToCome
    <2>1. wire = <<Ack(NoCommand, 1)>> /\ ~owes /\ pending = <<>> /\ inside = <<>>
      BY <1>1, <1>3 DEF CreditToCome
    <2>2. Head(wire) = Ack(NoCommand, 1) /\ wire' = <<>>
      BY <1>1, <2>1, FewEvents
    <2>3. Flush(queued, 1, <<>>, <<>>)
      BY <1>2, <2>1, <2>2 DEF Ack
    <2>4. QED BY <1>1, <2>1, <2>2, <2>3, TokenFlushed
  <1>4. ASSUME NEW c \in Command, Reported(c)
        PROVE  OneToken'
    <2>1. inside = <<>> /\ Tail(pending) = <<>> /\ c # NoCommand
      BY <1>4, FewEvents, NoneIsNoCommand DEF Reported
    <2>2. CASE wire = <<Ack(c, 1)>> /\ ~owes
      <3>1. Head(wire) = Ack(c, 1) /\ wire' = <<>>
        BY <1>1, <2>2, FewEvents
      <3>2. Flush(queued, 1, <<>>, <<>>)
        <4>1. Ack(c, 1).answers = c /\ Ack(c, 1).credits = 1
          BY DEF Ack
        <4>2. Flush(queued, 1, IF c = NoCommand THEN pending ELSE Tail(pending), inside)
          BY <1>2, <3>1, <4>1
        <4>3. QED BY <2>1, <4>2
      <3>3. QED BY <1>1, <2>2, <3>1, <3>2, TokenFlushed
    <2>3. CASE \/ wire = <<Ack(c, 0)>> /\ owes
               \/ wire = <<Ack(c, 0), Ack(NoCommand, 1)>> /\ ~owes
      <3>1. Head(wire) = Ack(c, 0)
        BY <2>3
      <3>2. \/ wire' = <<>> /\ owes'
            \/ wire' = <<Ack(NoCommand, 1)>> /\ ~owes'
        BY <1>1, <2>3, FewEvents
      <3>3. Flush(queued, 0, <<>>, <<>>)
        <4>1. Ack(c, 0).answers = c /\ Ack(c, 0).credits = 0
          BY DEF Ack
        <4>2. Flush(queued, 0, IF c = NoCommand THEN pending ELSE Tail(pending), inside)
          BY <1>2, <3>1, <4>1
        <4>3. QED BY <2>1, <4>2
      <3>4. credits' = 0 /\ pending' = <<>> /\ inside' = <<>>
        <4>1. <<>> \in Seq(Command)
          OBVIOUS
        <4>2. QED BY <1>1, <3>3, <4>1, FlushNone
      <3>5. CreditToCome'
        BY <3>2, <3>4 DEF CreditToCome, Ack
      <3>6. QED BY <3>5 DEF OneToken
    <2>4. QED BY <1>4, <2>2, <2>3 DEF Reported
  <1>5. QED BY <1>1, <1>3, <1>4 DEF OneToken, AtHost, Executing

LEMMA TokenAnswered ==
  ASSUME Slots = 1, Inv, OneToken, Controller
  PROVE  OneToken'
  <1>1. UNCHANGED <<credits, pending>>
    BY DEF Controller, Answer, ReportCredit, hostVars
  <1>2. CASE Answer
    <2>1. PICK c \in Command : Executing(c)
      BY <1>2 DEF Answer, OneToken, AtHost, CreditToCome, Reported
    <2>2. inside' = <<>> /\ Slots - Len(inside') = 1 /\ Head(inside) = c
      BY <1>2, <2>1 DEF Answer, Executing
    <2>3. \E n \in {0, 1} : wire' = <<Ack(c, n)>> /\ owes' = (n = 0)
      BY <1>2, <2>1, <2>2, FewEvents DEF Answer, Executing
    <2>4. Reported(c)'
      BY <1>1, <2>1, <2>2, <2>3 DEF Reported, Executing, Ack
    <2>5. QED BY <2>1, <2>4 DEF OneToken
  <1>3. CASE ReportCredit
    <2>1. /\ owes /\ inside = <<>> /\ inside' = <<>> /\ ~owes'
          /\ wire' = Append(wire, Ack(NoCommand, 1))
      BY <1>3 DEF ReportCredit, OneToken, AtHost, CreditToCome, Executing, Reported
    <2>2. CASE CreditToCome
      <3>1. CreditToCome'
        BY <1>1, <2>1, <2>2, FewEvents DEF CreditToCome
      <3>2. QED BY <3>1 DEF OneToken
    <2>3. ASSUME NEW c \in Command, Reported(c) PROVE OneToken'
      <3>1. wire' = <<Ack(c, 0), Ack(NoCommand, 1)>>
        BY <2>1, <2>3, FewEvents DEF Reported
      <3>2. Reported(c)'
        BY <1>1, <2>1, <2>3, <3>1 DEF Reported, Ack
      <3>3. QED BY <3>2 DEF OneToken
    <2>4. QED BY <2>1, <2>2, <2>3 DEF OneToken, AtHost, Executing
  <1>4. QED BY <1>2, <1>3 DEF Controller

LEMMA TokenPreserved ==
  ASSUME Slots = 1, Inv, OneToken, [Next]_vars
  PROVE  OneToken'
  <1>1. CASE UNCHANGED <<credits, pending, inside, owes, wire>>
    BY <1>1 DEF OneToken, AtHost, CreditToCome, Executing, Reported
  <1>2. CASE \/ Issue \/ SendFails \/ NoCredit \/ GiveUp \/ Receive \/ DiscardEvent \/ QueueFull
             \/ UNCHANGED vars
    BY <1>1, <1>2 DEF Issue, SendFails, NoCredit, GiveUp, Receive, DiscardEvent, QueueFull, vars,
       hostVars, controllerVars
  <1>3. QED BY <1>2, TokenSent, TokenQueued, TokenRead, TokenAnswered DEF Next, Worker, Background

(***************************************************************************)
(* A controller with one slot is never given a second command, for any     *)
(* interleaving of foreground and background sends, failed writes,         *)
(* timeouts and credits reported late.                                     *)
(***************************************************************************)
THEOREM NeverTooMany == ASSUME Slots = 1 PROVE Spec => []NoOverrun
  <1>1. Init => OneToken
    BY DEF Init, OneToken, AtHost
  <1>2. Inv /\ OneToken /\ [Next]_vars => OneToken'
    BY TokenPreserved
  <1>3. OneToken => NoOverrun
    BY DEF OneToken, AtHost, CreditToCome, Executing, Reported, NoOverrun
  <1>4. QED BY <1>1, <1>2, <1>3, FlowInitially, FlowPreserved, PTL DEF Spec
-----------------------------------------------------------------------------
(* Adapter: whoever opens the interface finds it free, however many reads  *)
(* fail, commands are unanswered and adapters come and go.                 *)

Place == {"off", "open", "initialize", "ready"} \cup Stopping

AdapterTypes ==
    /\ at \in [Reader -> {"check", "submit", "pending", "ended"}]
    /\ pc \in Place
    /\ then \in {"off", "open"}
    /\ link \in {"no", "call", "idle"}

\* Where the controller has been dropped, its threads have been waited for, one
\* after the other, and the call that used it has failed.
Dropped ==
    /\ pc \in {"off", "open"} => (\A r \in Reader : at[r] = "ended") /\ link # "call"
    /\ pc = "join acl" => at["event"] = "ended"

AInv == AdapterTypes /\ Dropped

\* A reader that has ended stays so, until the interface is opened again.
LEMMA EndedStays ==
  ASSUME AInv, UNCHANGED <<pc, then, link>>,
         at' \in [Reader -> {"check", "submit", "pending", "ended"}],
         \A r \in Reader : at[r] = "ended" => at'[r] = "ended"
  PROVE  AInv'
  BY DEF AInv, AdapterTypes, Dropped, Reader

LEMMA ReadersStep ==
  ASSUME AInv, NEW r \in Reader, Reading(r) \/ Reads(r) \/ TimesOut(r) \/ Fails(r)
  PROVE  AInv'
  <1>1. at[r] # "ended" /\ UNCHANGED <<pc, then, link>>
    BY DEF Reading, Check, Submit, DeviceGone, Reads, TimesOut, Fails, Pending, OfReaders
  <1>2. \/ UNCHANGED at
        \/ \E place \in {"check", "submit", "pending", "ended"} : To(r, place)
    BY DEF Reading, Check, Submit, DeviceGone, Reads, TimesOut, Fails, Failed, Leave
  <1>3. /\ at' \in [Reader -> {"check", "submit", "pending", "ended"}]
        /\ \A q \in Reader : q # r => at'[q] = at[q]
    BY <1>2 DEF AInv, AdapterTypes, To
  <1>4. QED BY <1>1, <1>3, EndedStays

LEMMA StopStep ==
  ASSUME AInv, NEW place \in {"off", "open"}, NEW l \in {"no", "call", "idle"}, Stop(place, l)
  PROVE  AInv'
  BY DEF AInv, AdapterTypes, Dropped, Stop, Place, Stopping

LEMMA AbortStep == ASSUME AInv, AbortReads PROVE AInv'
  <1>1. ASSUME NEW r \in Reader, NEW n \in {"abort acl", "join event"}, AbortsPipe(r, n)
        PROVE  AInv'
    <2>1. /\ UNCHANGED at \/ (\E place \in {"check", "ended"} : To(r, place))
          /\ pc' = n /\ UNCHANGED <<then, link>>
      BY <1>1 DEF AbortsPipe, Failed, Leave, readerVars
    <2>2. at' \in [Reader -> {"check", "submit", "pending", "ended"}]
      BY <2>1 DEF AInv, AdapterTypes, To
    <2>3. QED BY <2>1, <2>2 DEF AInv, AdapterTypes, Dropped, Place, Stopping
  <1>2. QED BY <1>1 DEF AbortReads, Reader

LEMMA JoinStep == ASSUME AInv, JoinReaders PROVE AInv'
  <1>1. CASE pc = "join event" /\ Joined("event") /\ Goto("join acl")
    BY <1>1 DEF AInv, AdapterTypes, Dropped, Joined, Goto, readerVars, Place, Stopping
  <1>2. CASE /\ pc = "join acl" /\ Joined("acl")
             /\ pc' = then /\ link' = IF link = "call" THEN "no" ELSE link
             /\ UNCHANGED <<readerVars, stopped, gone, then, trouble>>
    <2>1. UNCHANGED <<at, then>> /\ \A r \in Reader : at[r] = "ended"
      BY <1>2 DEF AInv, Dropped, Joined, Reader, readerVars
    <2>2. QED BY <1>2, <2>1 DEF AInv, AdapterTypes, Dropped, Place
  <1>3. QED BY <1>1, <1>2 DEF JoinReaders

LEMMA WorkerStep ==
  ASSUME AInv,
         \/ WantsController \/ Open \/ OpenRefused \/ Initialize \/ CallBegins \/ CallEnds
         \/ HangUp \/ EnsureAdapter \/ SwitchOff \/ DropLink \/ Unplug
  PROVE  AInv'
  <1>1. CASE WantsController \/ OpenRefused
    BY <1>1 DEF WantsController, OpenRefused, Goto, readerVars, AInv, AdapterTypes, Dropped, Place
  <1>2. CASE Open
    BY <1>2 DEF Open, AInv, AdapterTypes, Dropped, Place, Stopping
  <1>3. CASE Initialize
    <2>1. CASE Goto("ready") /\ pc = "initialize"
      BY <2>1 DEF Goto, readerVars, AInv, AdapterTypes, Dropped, Place, Stopping
    <2>2. CASE Stop("off", link)
      BY <2>2, StopStep DEF AInv, AdapterTypes
    <2>3. QED BY <1>3, <2>1, <2>2 DEF Initialize
  <1>4. CASE CallBegins \/ CallEnds
    BY <1>4 DEF CallBegins, CallEnds, readerVars, AInv, AdapterTypes, Dropped
  <1>5. CASE HangUp
    <2>1. CASE link' = "no" /\ UNCHANGED <<readerVars, stopped, gone, pc, then, trouble>>
      BY <2>1 DEF readerVars, AInv, AdapterTypes, Dropped
    <2>2. CASE Stop("off", "no") \/ Stop("off", link)
      BY <2>2, StopStep DEF AInv, AdapterTypes
    <2>3. QED BY <1>5, <2>1, <2>2 DEF HangUp
  <1>6. CASE EnsureAdapter \/ SwitchOff
    BY <1>6, StopStep DEF EnsureAdapter, SwitchOff, AInv, AdapterTypes
  <1>7. CASE DropLink \/ Unplug
    BY <1>7 DEF DropLink, Unplug, readerVars, AInv, AdapterTypes, Dropped
  <1>8. QED BY <1>1, <1>2, <1>3, <1>4, <1>5, <1>6, <1>7

LEMMA AdapterInitially == AdapterInit => AInv
  BY DEF AdapterInit, AInv, AdapterTypes, Dropped, Place

LEMMA AdapterPreserved == AInv /\ [AdapterNext]_adapterVars => AInv'
  <1>1. CASE UNCHANGED adapterVars
    BY <1>1 DEF adapterVars, readerVars, AInv, AdapterTypes, Dropped
  <1>2. QED
    BY <1>1, ReadersStep, AbortStep, JoinStep, WorkerStep DEF AdapterNext

(***************************************************************************)
(* Whoever opens the interface finds that nobody of our own holds it, or   *)
(* only the link that was kept idle: HciPump::stop has waited for both     *)
(* threads, whichever reads its abort missed.                              *)
(***************************************************************************)
THEOREM InterfaceFree == AdapterSpec => []OpensFree
  <1>1. AInv => OpensFree
    <2> SUFFICES ASSUME AInv, pc = "open"
                 PROVE  Holders = {} \/ (Holders = {"link"} /\ link = "idle")
      BY DEF OpensFree
    <2>1. {r \in Reader : at[r] # "ended"} = {} /\ link \in {"no", "idle"}
      BY DEF AInv, AdapterTypes, Dropped
    <2>2. QED BY <2>1 DEF Holders
  <1>2. QED BY <1>1, AdapterInitially, AdapterPreserved, PTL DEF AdapterSpec
=============================================================================
