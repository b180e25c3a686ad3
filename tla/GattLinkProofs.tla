--------------------------- MODULE GattLinkProofs ---------------------------
(***************************************************************************)
(* GattLink implements AttBearer; its wait keeps every event; what it puts *)
(* together is whole: for any peer, any values and any number of calls and *)
(* connections.                                                            *)
(*                                                                         *)
(* The point is that a response carries no number: that the one accepted   *)
(* belongs to the request that is out is due to there being no other one,  *)
(* be it with the peer, in the channel or half put together.               *)
(***************************************************************************)
EXTENDS GattLink, SequenceTheorems, FiniteSetTheorems, WellFoundedInduction, TLAPS

\* A part of a response, and a request the peer owes one.
OfResponse(p) == p.own /\ p.frame.k = "rsp"
Numbered(r) == r.op # "smp"

OnBearer == FirstOp(Doing) # "smp"
Busy == pc \in {"watch", "take"} /\ OnBearer

\* Nothing is to come that a later request could take for its answer.
Quiet ==
    /\ \A i \in DOMAIN acl : ~OfResponse(acl[i])
    /\ buffer = <<>>

\* Whatever is to come belongs to the last request.
LastRequests ==
    /\ \A i \in DOMAIN acl : OfResponse(acl[i]) => acl[i].frame.tag = tag
    /\ \A i \in DOMAIN buffer : buffer[i].frame.tag = tag
    /\ \A i \in DOMAIN inbox : Numbered(inbox[i]) => inbox[i].tag = tag

\* And it is one response: a request, or the two parts of its answer, or the
\* second of them.
OneResponse ==
    /\ \A i, j \in DOMAIN inbox : Numbered(inbox[i]) /\ Numbered(inbox[j]) => i = j
    /\ (\E i \in DOMAIN inbox : Numbered(inbox[i])) => Quiet
    /\ \A i, j \in DOMAIN acl :
           i < j /\ OfResponse(acl[i]) /\ OfResponse(acl[j]) => acl[i].start /\ ~acl[j].start

IsSequence(s) == s \in Seq({s[i] : i \in DOMAIN s})

\* A part that does not stand alone is one of a response.
WellCut(p) ==
    /\ p.own \in BOOLEAN /\ p.start \in BOOLEAN
    /\ p.own /\ ~p.start => OfResponse(p)
    /\ p.own => p.frame.parts = IF OfResponse(p) THEN 2 ELSE 1

Parts ==
    /\ IsSequence(acl) /\ IsSequence(inbox)
    /\ \A i \in DOMAIN acl : WellCut(acl[i])
    /\ \/ buffer = <<>>
       \/ \E p : buffer = <<p>> /\ OfResponse(p) /\ p.frame.parts = 2

\* A request is out while one is waited for, and is the only one.
InTurn ==
    /\ unavailable \in BOOLEAN
    /\ Busy => unavailable
    /\ ~unavailable => Quiet /\ \A i \in DOMAIN inbox : ~Numbered(inbox[i])

Inv == Parts /\ LastRequests /\ OneResponse /\ InTurn
-----------------------------------------------------------------------------
(* Sequences of which nothing is known but what they hold.                 *)

LEMMA SequenceOf ==
  ASSUME NEW Elems, NEW s \in Seq(Elems)
  PROVE  IsSequence(s)
  <1> DEFINE T == {s[i] : i \in DOMAIN s}
  <1>1. Len(s) \in Nat /\ DOMAIN s = 1..Len(s)
    BY LenProperties
  <1>2. \A i \in 1..Len(s) : s[i] \in T
    BY <1>1
  <1>3. SubSeq(s, 1, Len(s)) \in Seq(T)
    <2> HIDE DEF T
    <2>1. QED BY <1>1, <1>2, SubSeqProperties
  <1>4. QED BY <1>3, SubSeqFull DEF IsSequence

LEMMA Joined ==
  ASSUME NEW s, NEW t, IsSequence(s), IsSequence(t)
  PROVE  /\ IsSequence(s \o t)
         /\ Len(s) \in Nat /\ DOMAIN s = 1..Len(s)
         /\ Len(t) \in Nat /\ DOMAIN t = 1..Len(t)
         /\ DOMAIN (s \o t) = 1..(Len(s) + Len(t))
         /\ \A i \in DOMAIN (s \o t) :
                (s \o t)[i] = IF i <= Len(s) THEN s[i] ELSE t[i - Len(s)]
  <1> DEFINE A == {s[i] : i \in DOMAIN s}  B == {t[i] : i \in DOMAIN t}
             C == A \cup B
  <1> HIDE DEF A, B
  <1>1. s \in Seq(C) /\ t \in Seq(C)
    <2>1. s \in Seq(A) /\ t \in Seq(B)
      BY DEF IsSequence, A, B
    <2>2. A \subseteq C /\ B \subseteq C
      OBVIOUS
    <2> HIDE DEF C
    <2>3. QED BY <2>1, <2>2, SeqMonotonic
  <1> HIDE DEF C
  <1>2. /\ s \o t \in Seq(C) /\ Len(s \o t) = Len(s) + Len(t)
        /\ \A i \in 1..(Len(s) + Len(t)) :
               (s \o t)[i] = IF i <= Len(s) THEN s[i] ELSE t[i - Len(s)]
    BY <1>1, ConcatProperties
  <1>3. /\ Len(s) \in Nat /\ DOMAIN s = 1..Len(s) /\ Len(t) \in Nat /\ DOMAIN t = 1..Len(t)
        /\ DOMAIN (s \o t) = 1..Len(s \o t)
    BY <1>1, <1>2, LenProperties
  <1>4. QED BY <1>2, <1>3, SequenceOf

LEMMA Longer ==
  ASSUME NEW s, NEW e, IsSequence(s)
  PROVE  /\ IsSequence(Append(s, e))
         /\ Len(s) \in Nat /\ DOMAIN s = 1..Len(s)
         /\ DOMAIN Append(s, e) = 1..(Len(s) + 1)
         /\ \A i \in DOMAIN s : Append(s, e)[i] = s[i]
         /\ Append(s, e)[Len(s) + 1] = e
  <1> DEFINE A == {s[i] : i \in DOMAIN s}  Elems == A \cup {e}
  <1> HIDE DEF A
  <1>1. s \in Seq(Elems) /\ e \in Elems
    <2>1. s \in Seq(A)
      BY DEF IsSequence, A
    <2>2. A \subseteq Elems /\ e \in Elems
      OBVIOUS
    <2> HIDE DEF Elems
    <2>3. QED BY <2>1, <2>2, SeqMonotonic
  <1> HIDE DEF Elems
  <1>2. /\ Append(s, e) \in Seq(Elems) /\ Len(Append(s, e)) = Len(s) + 1
        /\ \A i \in 1..Len(s) : Append(s, e)[i] = s[i]
        /\ Append(s, e)[Len(s) + 1] = e
    BY <1>1, AppendProperties
  <1>3. QED BY <1>1, <1>2, LenProperties, SequenceOf

LEMMA Shorter ==
  ASSUME NEW s, IsSequence(s), s # <<>>
  PROVE  /\ IsSequence(Tail(s))
         /\ Len(s) \in Nat \ {0} /\ DOMAIN s = 1..Len(s)
         /\ Head(s) = s[1]
         /\ DOMAIN Tail(s) = 1..(Len(s) - 1)
         /\ \A i \in DOMAIN Tail(s) : Tail(s)[i] = s[i + 1]
  <1> DEFINE Elems == {s[i] : i \in DOMAIN s}
  <1>1. s \in Seq(Elems)
    BY DEF IsSequence
  <1> HIDE DEF Elems
  <1>2. /\ Tail(s) \in Seq(Elems) /\ Len(Tail(s)) = Len(s) - 1
        /\ \A i \in 1..Len(Tail(s)) : Tail(s)[i] = s[i + 1]
    BY <1>1, HeadTailProperties
  <1>3. Len(s) \in Nat \ {0} /\ DOMAIN s = 1..Len(s)
    BY <1>1, LenProperties, EmptySeq
  <1>4. Head(s) = s[1]
    BY <1>1, <1>3
  <1>5. IsSequence(Tail(s)) /\ DOMAIN Tail(s) = 1..(Len(s) - 1)
    BY <1>2, LenProperties, SequenceOf
  <1>6. QED BY <1>2, <1>3, <1>4, <1>5
-----------------------------------------------------------------------------
(* What one frame does.                                                    *)

LEMMA SameOperation ==
  ASSUME UNCHANGED <<script, step>>
  PROVE  OnBearer' = OnBearer
  BY DEF OnBearer, FirstOp, Doing, Script, Subscription

\* The operation is left, or gone on with.
Advanced == pc' \in {"send", "idle"}
StaysOn == pc' = "watch" /\ UNCHANGED <<script, step>>

LEMMA AdvanceLeaves ==
  ASSUME NEW ok, Advance(ok)
  PROVE  Advanced
  BY DEF Advance, Advanced

\* The answer ends the operation, or its next request goes out.
Ends == Advanced /\ unavailable' = FALSE /\ UNCHANGED <<tag, inbox>>

Requests ==
    /\ StaysOn /\ UNCHANGED unavailable
    /\ tag' = 1 - tag
    /\ \/ inbox' = inbox
       \/ \E r : Numbered(r) /\ r.tag = tag' /\ inbox' = Append(inbox, r)

LEMMA PostRequests ==
  ASSUME NEW op, NEW n, NEW sent, op # "smp", Post(op, n, sent)
  PROVE  /\ tag' = 1 - tag
         /\ \/ inbox' = inbox
            \/ \E r : Numbered(r) /\ r.tag = tag' /\ inbox' = Append(inbox, r)
  <1>1. tag' = 1 - tag
    BY DEF Post
  <1>2. CASE sent /\ up
    <2> DEFINE r == [op |-> op, tag |-> tag', n |-> n]
    <2>1. inbox' = Append(inbox, r)
      BY <1>2 DEF Post
    <2> HIDE DEF r
    <2>2. r.op = op /\ r.tag = tag'
      BY DEF r
    <2>3. Numbered(r) /\ r.tag = tag'
      BY <2>2 DEF Numbered
    <2>4. QED BY <1>1, <2>1, <2>3
  <1>3. CASE ~(sent /\ up)
    BY <1>1, <1>3 DEF Post
  <1>4. QED BY <1>2, <1>3

LEMMA ResponseTaken ==
  ASSUME NEW f, Response(f)
  PROVE  answered' = f.tag /\ (Ends \/ Requests)
  <1>1. answered' = f.tag
    BY DEF Response
  <1>2. ASSUME NEW ok, Done(ok), UNCHANGED inbox
        PROVE  Ends
    BY <1>2, AdvanceLeaves DEF Done, Ends
  <1>3. ASSUME NEW op, NEW n, op # "smp", GoesOn(op, n)
        PROVE  Requests
    BY <1>3, PostRequests DEF GoesOn, Requests, StaysOn
  <1>4. CASE request = "group"
    <2>1. ListResponse(f)
      BY <1>4 DEF Response
    <2>2. QED BY <2>1, <1>1, <1>2, <1>3 DEF ListResponse
  <1>5. CASE request \in {"read", "blob"}
    <2>1. ReadResponse(f)
      BY <1>5 DEF Response
    <2>2. QED BY <2>1, <1>1, <1>2, <1>3 DEF ReadResponse
  <1>6. CASE request \notin {"group", "read", "blob"}
    <2>1. ShortResponse(f)
      BY <1>6 DEF Response
    <2>2. QED BY <2>1, <1>1, <1>2 DEF ShortResponse
  <1>7. QED BY <1>4, <1>5, <1>6

\* A frame that is not the answer changes nothing of the request that is out.
Passes ==
    /\ UNCHANGED <<unavailable, tag, answered, inbox>>
    /\ StaysOn \/ Advanced

\* A frame that is passed over, or whose reply fails.
PassedOver == (Ignored \/ (Advance(FALSE) /\ UNCHANGED bearerVars)) /\ UNCHANGED inbox

Accepts ==
    /\ OnBearer /\ buffer # <<>> /\ buffer' = <<>>
    /\ OfResponse(acl[1]) /\ ~acl[1].start
    /\ answered' = buffer[1].frame.tag
    /\ Ends \/ Requests

Keeps == buffer' = <<>> \/ buffer' = buffer

Begins == buffer' = <<acl[1]>> /\ OfResponse(acl[1]) /\ acl[1].frame.parts = 2

LEMMA FrameTaken ==
  ASSUME Inv, Take
  PROVE  /\ pc = "take" /\ acl # <<>> /\ acl' = Tail(acl)
         /\ (Passes /\ (Keeps \/ Begins)) \/ Accepts
  <1> DEFINE p == Head(acl)  b == Push(p)  f == b[1].frame
  <1>1. pc = "take" /\ acl # <<>> /\ acl' = Tail(acl)
    BY DEF Take
  <1>2. p = acl[1] /\ WellCut(acl[1])
    <2>1. IsSequence(acl)
      BY DEF Inv, Parts
    <2>2. p = acl[1] /\ 1 \in DOMAIN acl
      BY <1>1, <2>1, Shorter
    <2>3. QED BY <2>2 DEF Inv, Parts
  <1>3. ~Complete(b) => buffer' = b /\ PassedOver
    BY DEF Take, PassedOver
  <1>4. Complete(b) =>
           /\ buffer' = <<>>
           /\ \/ FirstOp(Doing) = "smp" /\ f.k = "smp" /\ SmpFrame(f)
              \/ FirstOp(Doing) # "smp" /\ Matches(f) /\ Response(f)
              \/ ~(FirstOp(Doing) # "smp" /\ Matches(f)) /\ PassedOver
    BY Zenon DEF Take, Reply, ReplyFails, PassedOver
  <1> HIDE DEF f, b
  <1>5. PassedOver => Passes
    BY AdvanceLeaves DEF PassedOver, Ignored, bearerVars, Passes, StaysOn
  <1>6. FirstOp(Doing) = "smp" /\ SmpFrame(f) => Passes
    <2> SUFFICES ASSUME FirstOp(Doing) = "smp", SmpFrame(f) PROVE Passes
      OBVIOUS
    <2>1. Advanced
      BY AdvanceLeaves DEF SmpFrame
    <2>2. QED BY <2>1 DEF SmpFrame, bearerVars, Passes, OnBearer
  <1>7. buffer = <<>> \/ \E q : buffer = <<q>> /\ OfResponse(q) /\ q.frame.parts = 2
    BY DEF Inv, Parts
  <1>8. CASE ~acl[1].own
    <2>1. b = buffer
      BY <1>2, <1>8 DEF b, Push
    <2>2. ~Complete(buffer)
      <3>1. CASE buffer = <<>>
        BY <3>1 DEF Complete
      <3>2. ASSUME NEW q, buffer = <<q>>, q.frame.parts = 2
            PROVE  ~Complete(buffer)
        <4>1. Len(buffer) = 1 /\ buffer[1] = q
          BY <3>2
        <4>2. QED BY <3>2, <4>1 DEF Complete
      <3>3. QED BY <1>7, <3>1, <3>2
    <2>3. QED BY <1>1, <1>3, <1>5, <2>1, <2>2 DEF Keeps
  <1>9. CASE acl[1].own /\ acl[1].start
    <2>1. b = <<acl[1]>>
      BY <1>2, <1>9 DEF b, Push
    <2>2. CASE OfResponse(acl[1])
      <3>1. acl[1].frame.parts = 2
        BY <1>2, <1>9, <2>2 DEF WellCut
      <3>2. ~Complete(b)
        BY <2>1, <3>1 DEF Complete
      <3>3. QED BY <1>1, <1>3, <1>5, <2>1, <2>2, <3>1, <3>2 DEF Begins
    <2>3. CASE ~OfResponse(acl[1])
      <3>1. acl[1].frame.parts = 1
        BY <1>2, <1>9, <2>3 DEF WellCut
      <3>2. Complete(b) /\ f = acl[1].frame
        BY <2>1, <3>1 DEF Complete, f
      <3>3. ~Matches(f)
        BY <1>9, <2>3, <3>2 DEF Matches, OfResponse
      <3>4. QED BY <1>1, <1>4, <1>5, <1>6, <3>2, <3>3 DEF Keeps
    <2>4. QED BY <2>2, <2>3
  <1>10. CASE acl[1].own /\ ~acl[1].start /\ buffer = <<>>
    <2>1. b = <<>>
      BY <1>2, <1>10 DEF b, Push
    <2>2. ~Complete(b)
      BY <2>1 DEF Complete
    <2>3. QED BY <1>1, <1>3, <1>5, <2>1, <2>2 DEF Keeps
  <1>11. CASE acl[1].own /\ ~acl[1].start /\ buffer # <<>>
    <2>1. PICK q : buffer = <<q>> /\ OfResponse(q) /\ q.frame.parts = 2
      BY <1>7, <1>11
    <2>2. b = Append(buffer, acl[1])
      BY <1>2, <1>11 DEF b, Push
    <2>3. b # <<>> /\ Len(b) = 2 /\ b[1] = q
      <3>1. <<q>> \in Seq({q, acl[1]}) /\ acl[1] \in {q, acl[1]} /\ Len(<<q>>) = 1 /\ <<q>>[1] = q
        OBVIOUS
      <3>2. QED BY <2>1, <2>2, <3>1, AppendProperties
    <2>4. Complete(b) /\ f = buffer[1].frame /\ f.k = "rsp"
      BY <2>1, <2>3 DEF Complete, f, OfResponse
    <2>5. OfResponse(acl[1])
      BY <1>2, <1>11 DEF WellCut
    <2>6. CASE FirstOp(Doing) # "smp" /\ Matches(f) /\ Response(f)
      <3>1. answered' = f.tag /\ (Ends \/ Requests)
        BY <2>6, ResponseTaken
      <3>2. Accepts
        BY <1>4, <1>11, <2>4, <2>5, <2>6, <3>1 DEF Accepts, OnBearer
      <3>3. QED BY <1>1, <3>2
    <2>7. CASE PassedOver
      BY <1>1, <1>4, <1>5, <2>4, <2>7 DEF Keeps
    <2>8. QED BY <1>4, <2>4, <2>6, <2>7
  <1>12. QED BY <1>8, <1>9, <1>10, <1>11

LEMMA FrameKeeps ==
  ASSUME Inv, Take
  PROVE  Inv'
  <1>1. /\ pc = "take" /\ acl # <<>> /\ acl' = Tail(acl)
        /\ (Passes /\ (Keeps \/ Begins)) \/ Accepts
    BY FrameTaken
  <1>2. /\ IsSequence(acl') /\ IsSequence(acl) /\ IsSequence(inbox)
        /\ Len(acl) \in Nat \ {0} /\ DOMAIN acl = 1..Len(acl)
        /\ DOMAIN acl' = 1..(Len(acl) - 1)
        /\ \A i \in DOMAIN acl' : acl'[i] = acl[i + 1]
    BY <1>1, Shorter DEF Inv, Parts
  <1>3. \A i \in DOMAIN acl' : i + 1 \in DOMAIN acl /\ acl'[i] = acl[i + 1] /\ 1 < i + 1
    BY <1>2
  <1>4. /\ \A i \in DOMAIN acl' : WellCut(acl'[i])
        /\ \A i \in DOMAIN acl' : OfResponse(acl'[i]) => acl'[i].frame.tag = tag
        /\ \A i, j \in DOMAIN acl' : i < j /\ OfResponse(acl'[i]) /\ OfResponse(acl'[j])
                                         => acl'[i].start /\ ~acl'[j].start
    <2>1. \A i, j \in DOMAIN acl' : i < j => i + 1 < j + 1
      BY <1>2
    <2>2. \A i \in DOMAIN acl' : WellCut(acl'[i])
      BY <1>3, Zenon DEF Inv, Parts
    <2>3. \A i \in DOMAIN acl' : OfResponse(acl'[i]) => acl'[i].frame.tag = tag
      BY <1>3, Zenon DEF Inv, LastRequests
    <2>4. ASSUME NEW i \in DOMAIN acl', NEW j \in DOMAIN acl', i < j,
                 OfResponse(acl'[i]), OfResponse(acl'[j])
          PROVE  acl'[i].start /\ ~acl'[j].start
      <3>1. /\ acl'[i] = acl[i + 1] /\ i + 1 \in DOMAIN acl
            /\ acl'[j] = acl[j + 1] /\ j + 1 \in DOMAIN acl /\ i + 1 < j + 1
        BY <1>3, <2>1, <2>4
      <3>2. OfResponse(acl[i + 1]) /\ OfResponse(acl[j + 1])
        BY <2>4, <3>1
      <3>3. acl[i + 1].start /\ ~acl[j + 1].start
        BY <3>1, <3>2, Zenon DEF Inv, OneResponse
      <3>4. QED BY <3>1, <3>3
    <2>5. QED BY <2>2, <2>3, <2>4
  <1>5. CASE Passes /\ (Keeps \/ Begins)
    <2>1. UNCHANGED <<unavailable, tag, inbox>>
      BY <1>5 DEF Passes
    <2>2. Parts'
      BY <1>2, <1>4, <1>5, <2>1 DEF Inv, Parts, Keeps, Begins
    <2>3. LastRequests'
      BY <1>2, <1>4, <1>5, <2>1 DEF Inv, LastRequests, Keeps, Begins
    <2>4. Quiet => Quiet'
      BY <1>2, <1>3, <1>5 DEF Quiet, Keeps, Begins
    <2>5. OneResponse'
      BY <1>4, <2>1, <2>4 DEF Inv, OneResponse
    <2>6. Busy' => Busy
      BY <1>1, <1>5, SameOperation DEF Passes, StaysOn, Advanced, Busy
    <2>7. InTurn'
      BY <2>1, <2>4, <2>6 DEF Inv, InTurn
    <2>8. QED BY <2>2, <2>3, <2>5, <2>7 DEF Inv
  <1>6. CASE Accepts
    <2>1. Quiet'
      BY <1>2, <1>3, <1>6 DEF Accepts, Quiet, Inv, OneResponse
    <2>2. \A i \in DOMAIN inbox : ~Numbered(inbox[i])
      BY <1>2, <1>6 DEF Accepts, Quiet, Inv, OneResponse
    <2>3. unavailable = TRUE
      BY <1>1, <1>6 DEF Accepts, Inv, InTurn, Busy
    <2>4. CASE Ends
      <3>1. Parts'
        BY <1>2, <1>4, <1>6, <2>4 DEF Parts, Accepts, Ends
      <3>2. LastRequests' /\ OneResponse'
        BY <1>4, <1>6, <2>1, <2>2, <2>4 DEF LastRequests, OneResponse, Accepts, Ends
      <3>3. InTurn'
        BY <2>1, <2>2, <2>4 DEF InTurn, Ends, Advanced, Busy
      <3>4. QED BY <3>1, <3>2, <3>3 DEF Inv
    <2>5. CASE Requests
      <3>1. /\ IsSequence(inbox')
            /\ \A i \in DOMAIN inbox' : Numbered(inbox'[i]) =>
                   inbox'[i].tag = tag' /\ \A j \in DOMAIN inbox' : Numbered(inbox'[j]) => i = j
        <4>1. CASE inbox' = inbox
          BY <1>2, <2>2, <4>1
        <4>2. ASSUME NEW r, r.tag = tag', inbox' = Append(inbox, r)
              PROVE  <3>1!2
          BY <1>2, <2>2, <4>2, Longer
        <4>3. CASE \E r : r.tag = tag' /\ inbox' = Append(inbox, r)
          BY <1>2, <4>2, <4>3, Longer
        <4>4. QED BY <2>5, <4>1, <4>3 DEF Requests
      <3>2. Parts'
        BY <1>2, <1>4, <1>6, <3>1 DEF Parts, Accepts
      <3>3. LastRequests' /\ OneResponse'
        BY <1>4, <1>6, <2>1, <3>1 DEF LastRequests, OneResponse, Accepts, Quiet
      <3>4. InTurn'
        BY <2>3, <2>5 DEF InTurn, Requests
      <3>5. QED BY <3>2, <3>3, <3>4 DEF Inv
    <2>6. QED BY <1>6, <2>4, <2>5 DEF Accepts
  <1>7. QED BY <1>1, <1>5, <1>6
-----------------------------------------------------------------------------
(* What a request does.                                                    *)

\* The steps of Begin that matter here: a request on the bearer, or one beside it.
Asks ==
    /\ OnBearer /\ ~unavailable /\ unavailable' = TRUE
    /\ tag' = 1 - tag
    /\ \/ inbox' = inbox
       \/ \E r : Numbered(r) /\ r.tag = tag' /\ inbox' = Append(inbox, r)

AsksBeside ==
    /\ ~OnBearer /\ UNCHANGED <<unavailable, tag>>
    /\ \/ inbox' = inbox
       \/ \E r : ~Numbered(r) /\ inbox' = Append(inbox, r)

LEMMA RequestBegun ==
  ASSUME Inv, NEW sent \in BOOLEAN, Begin(sent)
  PROVE  /\ pc = "send" /\ UNCHANGED <<acl, buffer, answered>>
         /\ StaysOn \/ Advanced
         /\ Asks \/ AsksBeside
  <1> DEFINE op == FirstOp(Doing)  n == IF op = "group" THEN 1 ELSE 0
  <1>1. /\ pc = "send" /\ UNCHANGED <<acl, buffer, answered>>
        /\ op = "smp" \/ ~unavailable
        /\ unavailable' = (unavailable \/ op # "smp")
        /\ Post(op, n, sent)
    BY DEF Begin, BearerRefuses, pumpVars
  <1>2. StaysOn \/ Advanced
    <2>1. CASE sent
      BY <2>1 DEF Begin, StaysOn
    <2>2. CASE ~sent
      <3>1. Advance(FALSE)
        BY <2>2 DEF Begin
      <3>2. QED BY <3>1, AdvanceLeaves
    <2>3. QED BY <2>1, <2>2
  <1>3. unavailable \in BOOLEAN
    BY DEF Inv, InTurn
  <1> HIDE DEF op, n
  <1>4. CASE op # "smp"
    <2>1. OnBearer /\ ~unavailable /\ unavailable' = TRUE
      BY <1>1, <1>3, <1>4 DEF OnBearer, op
    <2>2. Asks
      BY <1>1, <1>4, <2>1, PostRequests DEF Asks
    <2>3. QED BY <1>1, <1>2, <2>2
  <1>5. CASE op = "smp"
    <2>1. ~OnBearer /\ unavailable' = unavailable /\ tag' = tag
      BY <1>1, <1>3, <1>5 DEF OnBearer, op, Post
    <2>2. inbox' = inbox \/ inbox' = Append(inbox, [op |-> op, tag |-> tag', n |-> n])
      BY <1>1 DEF Post
    <2>3. ~Numbered([op |-> op, tag |-> tag', n |-> n])
      BY <1>5 DEF Numbered
    <2>4. AsksBeside
      BY <2>1, <2>2, <2>3 DEF AsksBeside
    <2>5. QED BY <1>1, <1>2, <2>4
  <1>6. QED BY <1>4, <1>5

LEMMA BeginKeeps ==
  ASSUME Inv, NEW sent \in BOOLEAN, Begin(sent)
  PROVE  Inv'
  <1>1. /\ pc = "send" /\ UNCHANGED <<acl, buffer>>
        /\ StaysOn \/ Advanced
        /\ Asks \/ AsksBeside
    BY RequestBegun
  <1>2. IsSequence(inbox) /\ unavailable \in BOOLEAN
    BY DEF Inv, Parts, InTurn
  <1>3. CASE Asks
    <2>1. Quiet /\ \A i \in DOMAIN inbox : ~Numbered(inbox[i])
      BY <1>3 DEF Asks, Inv, InTurn
    <2>2. /\ IsSequence(inbox')
          /\ \A i \in DOMAIN inbox' : Numbered(inbox'[i]) =>
                 inbox'[i].tag = tag' /\ \A j \in DOMAIN inbox' : Numbered(inbox'[j]) => i = j
      <3>1. CASE inbox' = inbox
        BY <1>2, <2>1, <3>1
      <3>2. CASE \E r : r.tag = tag' /\ inbox' = Append(inbox, r)
        BY <1>2, <2>1, <3>2, Longer
      <3>3. QED BY <1>3, <3>1, <3>2 DEF Asks
    <2>3. Parts'
      BY <1>1, <2>2 DEF Inv, Parts
    <2>4. LastRequests' /\ OneResponse' /\ Quiet'
      BY <1>1, <2>1, <2>2 DEF LastRequests, OneResponse, Quiet
    <2>5. InTurn'
      BY <1>3 DEF Asks, InTurn
    <2>6. QED BY <2>3, <2>4, <2>5 DEF Inv
  <1>4. CASE AsksBeside
    <2>1. /\ IsSequence(inbox')
          /\ \A i \in DOMAIN inbox' : Numbered(inbox'[i]) =>
                 i \in DOMAIN inbox /\ inbox'[i] = inbox[i]
      <3>1. CASE inbox' = inbox
        BY <1>2, <3>1
      <3>2. CASE \E r : ~Numbered(r) /\ inbox' = Append(inbox, r)
        BY <1>2, <3>2, Longer
      <3>3. QED BY <1>4, <3>1, <3>2 DEF AsksBeside
    <2>2. UNCHANGED <<unavailable, tag>>
      BY <1>4 DEF AsksBeside
    <2>3. Parts' /\ LastRequests'
      BY <1>1, <2>1, <2>2 DEF Inv, Parts, LastRequests
    <2>4. Quiet' = Quiet
      BY <1>1 DEF Quiet
    <2>5. OneResponse'
      BY <1>1, <2>1, <2>4 DEF Inv, OneResponse
    <2>6. ~Busy'
      BY <1>1, <1>4, SameOperation DEF AsksBeside, StaysOn, Advanced, Busy
    <2>7. InTurn'
      BY <2>1, <2>2, <2>4, <2>6 DEF Inv, InTurn
    <2>8. QED BY <2>3, <2>5, <2>7 DEF Inv
  <1>5. QED BY <1>1, <1>3, <1>4
-----------------------------------------------------------------------------
(* What the peer puts into the channel.                                    *)

\* Parts that follow what is in the channel: of no response, or of this one.
Unasked(g) == \A i \in DOMAIN g : ~OfResponse(g[i])

AnswerTo(r, g) ==
    /\ \A i \in DOMAIN g : OfResponse(g[i]) => g[i].frame.tag = r.tag
    /\ \A i, j \in DOMAIN g :
           i < j /\ OfResponse(g[i]) /\ OfResponse(g[j]) => g[i].start /\ ~g[j].start

Packets(g) == IsSequence(g) /\ \A i \in DOMAIN g : WellCut(g[i])

LEMMA ShortSequences ==
  ASSUME NEW x, NEW y, NEW z
  PROVE  /\ IsSequence(<<x>>) /\ DOMAIN <<x>> = {1} /\ <<x>>[1] = x
         /\ IsSequence(<<x, y>>) /\ DOMAIN <<x, y>> = {1, 2}
         /\ <<x, y>>[1] = x /\ <<x, y>>[2] = y
         /\ IsSequence(<<x, y, z>>) /\ DOMAIN <<x, y, z>> = {1, 2, 3}
         /\ <<x, y, z>>[1] = x /\ <<x, y, z>>[2] = y /\ <<x, y, z>>[3] = z
  <1> DEFINE Elems == {x, y, z}
  <1>1. <<x>> \in Seq(Elems) /\ <<x, y>> \in Seq(Elems) /\ <<x, y, z>> \in Seq(Elems)
    OBVIOUS
  <1> HIDE DEF Elems
  <1>2. IsSequence(<<x>>) /\ IsSequence(<<x, y>>) /\ IsSequence(<<x, y, z>>)
    BY <1>1, SequenceOf
  <1>3. QED BY <1>2

LEMMA AsTuple ==
  ASSUME NEW g
  PROVE  /\ g = [i \in 1..1 |-> g[i]] => g = <<g[1]>>
         /\ g = [i \in 1..2 |-> g[i]] => g = <<g[1], g[2]>>
  OBVIOUS

LEMMA Cut ==
  ASSUME NEW frame
  PROVE  /\ Fragment(TRUE, TRUE, frame).own = TRUE
         /\ Fragment(TRUE, TRUE, frame).start = TRUE
         /\ Fragment(TRUE, TRUE, frame).frame = frame
         /\ Fragment(TRUE, FALSE, frame).own = TRUE
         /\ Fragment(TRUE, FALSE, frame).start = FALSE
         /\ Fragment(TRUE, FALSE, frame).frame = frame
  BY DEF Fragment

\* A frame of one part, and one of two.
LEMMA Single ==
  ASSUME NEW frame, frame.parts = 1, frame.k # "rsp"
  PROVE  Packets(Fragments(frame)) /\ Unasked(Fragments(frame))
  <1> DEFINE g == Fragments(frame)
  <1>1. g = [i \in 1..1 |-> Fragment(TRUE, i = 1, frame)]
    BY DEF Fragments
  <1>2. g[1] = Fragment(TRUE, TRUE, frame) /\ g = [i \in 1..1 |-> g[i]]
    <2> HIDE DEF g
    <2>1. (1 = 1) = TRUE
      OBVIOUS
    <2>2. g[1] = Fragment(TRUE, 1 = 1, frame) /\ g = [i \in 1..1 |-> g[i]]
      BY <1>1
    <2>3. QED BY <2>1, <2>2, Zenon
  <1>3. g[1].own = TRUE /\ g[1].start = TRUE /\ g[1].frame = frame
    <2> HIDE DEF g
    <2>1. QED BY <1>2, Cut, Zenon
  <1> HIDE DEF g
  <1>4. g = <<g[1]>>
    BY <1>2, AsTuple
  <1>5. WellCut(g[1]) /\ ~OfResponse(g[1])
    BY <1>3 DEF WellCut, OfResponse
  <1>6. IsSequence(g) /\ DOMAIN g = {1}
    <2>1. ASSUME NEW p, g = <<p>>
          PROVE  IsSequence(g) /\ DOMAIN g = {1}
      BY <2>1, ShortSequences
    <2>2. QED BY <1>4, <2>1
  <1>7. Packets(g) /\ Unasked(g)
    BY <1>5, <1>6 DEF Packets, Unasked
  <1>8. QED BY <1>7 DEF g

LEMMA Double ==
  ASSUME NEW frame, frame.parts = 2, frame.k = "rsp"
  PROVE  LET f == Fragments(frame) IN
         /\ f[1].own /\ f[1].start /\ f[1].frame = frame /\ OfResponse(f[1])
         /\ f[2].own /\ ~f[2].start /\ f[2].frame = frame /\ OfResponse(f[2])
         /\ WellCut(f[1]) /\ WellCut(f[2])
         /\ f = <<f[1], f[2]>>
  <1> DEFINE g == Fragments(frame)
  <1>1. g = [i \in 1..2 |-> Fragment(TRUE, i = 1, frame)]
    BY DEF Fragments
  <1>2. /\ g[1] = Fragment(TRUE, TRUE, frame) /\ g[2] = Fragment(TRUE, FALSE, frame)
        /\ g = [i \in 1..2 |-> g[i]]
    <2> HIDE DEF g
    <2>1. (1 = 1) = TRUE /\ (2 = 1) = FALSE
      OBVIOUS
    <2>2. /\ g[1] = Fragment(TRUE, 1 = 1, frame) /\ g[2] = Fragment(TRUE, 2 = 1, frame)
          /\ g = [i \in 1..2 |-> g[i]]
      BY <1>1
    <2>3. QED BY <2>1, <2>2, Zenon
  <1>3. /\ g[1].own = TRUE /\ g[1].start = TRUE /\ g[1].frame = frame
        /\ g[2].own = TRUE /\ g[2].start = FALSE /\ g[2].frame = frame
    <2> HIDE DEF g
    <2>1. QED BY <1>2, Cut, Zenon
  <1> HIDE DEF g
  <1>4. g = <<g[1], g[2]>>
    BY <1>2, AsTuple
  <1>5. WellCut(g[1]) /\ OfResponse(g[1]) /\ WellCut(g[2]) /\ OfResponse(g[2])
    BY <1>3 DEF WellCut, OfResponse
  <1>6. QED BY <1>3, <1>4, <1>5 DEF g

\* Whole frames: of a response in two parts, of anything else in one.
LEMMA Delivered ==
  ASSUME NEW frame, Delivers(frame),
         frame.parts = IF frame.k = "rsp" THEN 2 ELSE 1
  PROVE  \E g : /\ acl' = acl \o g /\ Packets(g)
                /\ IF frame.k = "rsp" THEN AnswerTo(frame, g) ELSE Unasked(g)
  <1> DEFINE f == Fragments(frame)
  <1>1. CASE frame.k # "rsp"
    <2>1. frame.parts = 1 /\ acl' = acl \o f
      BY <1>1 DEF Delivers
    <2>2. QED BY <1>1, <2>1, Single
  <1>2. CASE frame.k = "rsp"
    <2>1. /\ f[1].own /\ f[1].start /\ f[1].frame = frame /\ OfResponse(f[1])
          /\ f[2].own /\ ~f[2].start /\ f[2].frame = frame /\ OfResponse(f[2])
          /\ WellCut(f[1]) /\ WellCut(f[2])
          /\ f = <<f[1], f[2]>>
      BY <1>2, Double
    <2>2. \/ acl' = acl \o f
          \/ \E start \in BOOLEAN : acl' = acl \o <<f[1], Fragment(FALSE, start, Foreign), f[2]>>
      BY DEF Delivers
    <2>3. ASSUME NEW x, NEW z, x = f[1], z = f[2]
          PROVE  Packets(<<x, z>>) /\ AnswerTo(frame, <<x, z>>)
      <3> DEFINE g == <<x, z>>
      <3>1. IsSequence(g) /\ DOMAIN g = {1, 2} /\ g[1] = x /\ g[2] = z
        BY ShortSequences
      <3> HIDE DEF g
      <3>2. Packets(g) /\ AnswerTo(frame, g)
        BY <2>1, <2>3, <3>1 DEF Packets, AnswerTo
      <3>3. QED BY <3>2 DEF g
    <2>4. ASSUME NEW x, NEW y, NEW z, x = f[1], z = f[2], y.own = FALSE, y.start \in BOOLEAN
          PROVE  Packets(<<x, y, z>>) /\ AnswerTo(frame, <<x, y, z>>)
      <3> DEFINE g == <<x, y, z>>
      <3>1. IsSequence(g) /\ DOMAIN g = {1, 2, 3} /\ g[1] = x /\ g[2] = y /\ g[3] = z
        <4>1. IsSequence(<<x, y, z>>)
          BY ShortSequences
        <4>2. QED BY <4>1
      <3> HIDE DEF g
      <3>2. WellCut(y) /\ ~OfResponse(y)
        BY <2>4 DEF WellCut, OfResponse
      <3>3. Packets(g) /\ AnswerTo(frame, g)
        BY <2>1, <2>4, <3>1, <3>2 DEF Packets, AnswerTo
      <3>4. QED BY <3>3 DEF g
    <2>5. CASE acl' = acl \o f
      <3>1. Packets(f) /\ AnswerTo(frame, f)
        BY <2>1, <2>3
      <3>2. QED BY <1>2, <2>5, <3>1
    <2>6. ASSUME NEW start \in BOOLEAN,
                 acl' = acl \o <<f[1], Fragment(FALSE, start, Foreign), f[2]>>
          PROVE  \E g : acl' = acl \o g /\ Packets(g) /\ AnswerTo(frame, g)
      <3> DEFINE y == Fragment(FALSE, start, Foreign)
      <3>1. y.own = FALSE /\ y.start \in BOOLEAN
        BY DEF Fragment
      <3> HIDE DEF y
      <3>2. Packets(<<f[1], y, f[2]>>) /\ AnswerTo(frame, <<f[1], y, f[2]>>)
        BY <2>4, <3>1
      <3>3. QED BY <2>6, <3>2 DEF y
    <2>7. QED BY <1>2, <2>2, <2>5, <2>6
  <1>3. QED BY <1>1, <1>2

LEMMA PeerDelivers ==
  ASSUME PeerAnswers, Inv
  PROVE  /\ inbox # <<>> /\ inbox' = Tail(inbox)
         /\ UNCHANGED <<pc, script, step, buffer, unavailable, tag, answered>>
         /\ \E g : /\ acl' = acl \o g /\ Packets(g)
                   /\ IF Numbered(Head(inbox)) THEN AnswerTo(Head(inbox), g) ELSE Unasked(g)
  <1> DEFINE r == Head(inbox)
  <1>1. /\ inbox # <<>> /\ inbox' = Tail(inbox)
        /\ UNCHANGED <<pc, script, step, buffer, unavailable, tag, answered>>
    BY DEF PeerAnswers, callVars, bearerVars
  <1>2. PICK a \in Answers(r) :
           Delivers([Frame(IF r.op = "smp" THEN "smp" ELSE "rsp", r.op, a[1], a[2])
                        EXCEPT !.tag = r.tag])
    BY Zenon DEF PeerAnswers
  <1> DEFINE frame == [Frame(IF r.op = "smp" THEN "smp" ELSE "rsp", r.op, a[1], a[2])
                          EXCEPT !.tag = r.tag]
  <1>3. /\ frame.k = IF r.op = "smp" THEN "smp" ELSE "rsp"
        /\ frame.parts = IF frame.k = "rsp" THEN 2 ELSE 1
        /\ frame.tag = r.tag
    BY DEF Frame
  <1> HIDE DEF frame, r
  <1>4. PICK g : /\ acl' = acl \o g /\ Packets(g)
                 /\ IF frame.k = "rsp" THEN AnswerTo(frame, g) ELSE Unasked(g)
    BY <1>2, <1>3, Delivered DEF frame
  <1>5. CASE Numbered(r)
    <2>1. AnswerTo(r, g)
      BY <1>3, <1>4, <1>5 DEF Numbered, AnswerTo
    <2>2. QED BY <1>1, <1>4, <1>5, <2>1 DEF r
  <1>6. CASE ~Numbered(r)
    <2>1. Unasked(g)
      BY <1>3, <1>4, <1>6 DEF Numbered
    <2>2. QED BY <1>1, <1>4, <1>6, <2>1 DEF r
  <1>7. QED BY <1>5, <1>6

\* Something else arrives, and the peer may have looked at what was no request.
LEMMA NothingAsked ==
  ASSUME Inv, NEW g, acl' = acl \o g, Packets(g), Unasked(g),
         UNCHANGED <<pc, script, step, buffer, unavailable, tag>>,
         IsSequence(inbox'),
         \A i \in DOMAIN inbox' :
             Numbered(inbox'[i]) => \E k \in DOMAIN inbox : inbox'[i] = inbox[k],
         \A i, j \in DOMAIN inbox' : Numbered(inbox'[i]) /\ Numbered(inbox'[j]) => i = j
  PROVE  Inv'
  <1>1. /\ IsSequence(acl') /\ Len(acl) \in Nat /\ DOMAIN acl = 1..Len(acl)
        /\ Len(g) \in Nat /\ DOMAIN g = 1..Len(g)
        /\ DOMAIN acl' = 1..(Len(acl) + Len(g))
        /\ \A i \in DOMAIN acl' : acl'[i] = IF i <= Len(acl) THEN acl[i] ELSE g[i - Len(acl)]
    BY Joined DEF Inv, Parts, Packets
  <1>2. \A i \in DOMAIN acl' :
           \/ i \in DOMAIN acl /\ acl'[i] = acl[i]
           \/ ~OfResponse(acl'[i]) /\ WellCut(acl'[i])
    <2>1. ASSUME NEW i \in DOMAIN acl', i > Len(acl)
          PROVE  ~OfResponse(acl'[i]) /\ WellCut(acl'[i])
      <3>1. i - Len(acl) \in DOMAIN g /\ acl'[i] = g[i - Len(acl)]
        BY <1>1, <2>1
      <3>2. QED BY <3>1 DEF Unasked, Packets
    <2>2. ASSUME NEW i \in DOMAIN acl', i <= Len(acl)
          PROVE  i \in DOMAIN acl /\ acl'[i] = acl[i]
      BY <1>1, <2>2
    <2>3. QED BY <1>1, <2>1, <2>2
  <1>3. Parts'
    BY <1>1, <1>2 DEF Inv, Parts
  <1>4. LastRequests'
    BY <1>2, Zenon DEF Inv, LastRequests
  <1>5. Quiet => Quiet'
    BY <1>2 DEF Quiet
  <1>6. OneResponse'
    <2>1. (\E i \in DOMAIN inbox' : Numbered(inbox'[i])) => \E k \in DOMAIN inbox : Numbered(inbox[k])
      OBVIOUS
    <2>2. ASSUME NEW i \in DOMAIN acl', NEW j \in DOMAIN acl', i < j,
                 OfResponse(acl'[i]), OfResponse(acl'[j])
          PROVE  acl'[i].start /\ ~acl'[j].start
      <3>1. /\ i \in DOMAIN acl /\ acl'[i] = acl[i]
            /\ j \in DOMAIN acl /\ acl'[j] = acl[j]
        BY <1>2, <2>2
      <3>2. OfResponse(acl[i]) /\ OfResponse(acl[j])
        BY <2>2, <3>1
      <3>3. acl[i].start /\ ~acl[j].start
        BY <2>2, <3>1, <3>2, Zenon DEF Inv, OneResponse
      <3>4. QED BY <3>1, <3>3
    <2>3. QED BY <1>5, <2>1, <2>2 DEF Inv, OneResponse
  <1>7. Busy' = Busy
    BY SameOperation DEF Busy
  <1>8. InTurn'
    <2>1. (\E i \in DOMAIN inbox' : Numbered(inbox'[i])) => \E k \in DOMAIN inbox : Numbered(inbox[k])
      OBVIOUS
    <2>2. QED BY <1>5, <1>7, <2>1 DEF Inv, InTurn
  <1>9. QED BY <1>3, <1>4, <1>6, <1>8 DEF Inv

LEMMA PeerAnswersKeeps ==
  ASSUME Inv, PeerAnswers
  PROVE  Inv'
  <1>1. /\ inbox # <<>> /\ inbox' = Tail(inbox)
        /\ UNCHANGED <<pc, script, step, buffer, unavailable, tag, answered>>
    BY PeerDelivers
  <1>2. PICK g : /\ acl' = acl \o g /\ Packets(g)
                 /\ IF Numbered(Head(inbox)) THEN AnswerTo(Head(inbox), g) ELSE Unasked(g)
    BY PeerDelivers
  <1>3. /\ IsSequence(inbox') /\ Len(inbox) \in Nat \ {0} /\ DOMAIN inbox = 1..Len(inbox)
        /\ Head(inbox) = inbox[1]
        /\ DOMAIN inbox' = 1..(Len(inbox) - 1)
        /\ \A i \in DOMAIN inbox' : inbox'[i] = inbox[i + 1]
    BY <1>1, Shorter DEF Inv, Parts
  <1>4. /\ 1 \in DOMAIN inbox
        /\ \A i \in DOMAIN inbox' : i + 1 \in DOMAIN inbox /\ inbox'[i] = inbox[i + 1] /\ i + 1 # 1
    BY <1>3
  <1>5. \A i, j \in DOMAIN inbox' : i + 1 = j + 1 => i = j
    BY <1>3
  <1>6. CASE ~Numbered(inbox[1])
    <2>1. \A i \in DOMAIN inbox' :
             Numbered(inbox'[i]) => \E k \in DOMAIN inbox : inbox'[i] = inbox[k]
      BY <1>4
    <2>2. \A i, j \in DOMAIN inbox' : Numbered(inbox'[i]) /\ Numbered(inbox'[j]) => i = j
      BY <1>4, <1>5 DEF Inv, OneResponse
    <2>3. Unasked(g)
      BY <1>2, <1>3, <1>6
    <2>4. QED BY <1>1, <1>2, <1>3, <2>1, <2>2, <2>3, NothingAsked
  <1>7. CASE Numbered(inbox[1])
    <2>1. \A i \in DOMAIN inbox' : ~Numbered(inbox'[i])
      BY <1>4, <1>7, Zenon DEF Inv, OneResponse
    <2>2. Quiet /\ inbox[1].tag = tag
      BY <1>4, <1>7, Zenon DEF Inv, OneResponse, LastRequests
    <2>3. unavailable = TRUE
      BY <1>4, <1>7 DEF Inv, InTurn
    <2>4. AnswerTo(inbox[1], g)
      BY <1>2, <1>3, <1>7
    <2>5. /\ IsSequence(acl') /\ Len(acl) \in Nat /\ DOMAIN acl = 1..Len(acl)
          /\ Len(g) \in Nat /\ DOMAIN g = 1..Len(g)
          /\ DOMAIN acl' = 1..(Len(acl) + Len(g))
          /\ \A i \in DOMAIN acl' : acl'[i] = IF i <= Len(acl) THEN acl[i] ELSE g[i - Len(acl)]
      BY <1>2, Joined DEF Inv, Parts, Packets
    <2>6. ASSUME NEW i \in DOMAIN acl', i <= Len(acl)
          PROVE  acl'[i] = acl[i] /\ i \in DOMAIN acl
      BY <2>5, <2>6
    <2>7. ASSUME NEW i \in DOMAIN acl', i > Len(acl)
          PROVE  acl'[i] = g[i - Len(acl)] /\ i - Len(acl) \in DOMAIN g
      BY <2>5, <2>7
    <2>8. \A i \in DOMAIN acl' : WellCut(acl'[i])
      <3>1. ASSUME NEW i \in DOMAIN acl', i <= Len(acl) PROVE WellCut(acl'[i])
        BY <2>6, <3>1 DEF Inv, Parts
      <3>2. ASSUME NEW i \in DOMAIN acl', i > Len(acl) PROVE WellCut(acl'[i])
        BY <1>2, <2>7, <3>2 DEF Packets
      <3>3. QED BY <2>5, <3>1, <3>2
    <2>9. \A i \in DOMAIN acl' :
             OfResponse(acl'[i]) => /\ i > Len(acl) /\ acl'[i] = g[i - Len(acl)]
                                    /\ i - Len(acl) \in DOMAIN g
      <3>1. ASSUME NEW i \in DOMAIN acl', i <= Len(acl) PROVE ~OfResponse(acl'[i])
        BY <2>2, <2>6, <3>1 DEF Quiet
      <3>2. QED BY <2>5, <2>7, <3>1
    <2>10. Parts'
      BY <1>1, <1>3, <2>5, <2>8 DEF Inv, Parts
    <2>11. LastRequests'
      BY <1>1, <2>1, <2>2, <2>4, <2>9 DEF LastRequests, AnswerTo, Quiet
    <2>12. OneResponse'
      <3>1. ASSUME NEW i \in DOMAIN acl', NEW j \in DOMAIN acl', i < j,
                   OfResponse(acl'[i]), OfResponse(acl'[j])
            PROVE  acl'[i].start /\ ~acl'[j].start
        <4>1. /\ acl'[i] = g[i - Len(acl)] /\ i - Len(acl) \in DOMAIN g
              /\ acl'[j] = g[j - Len(acl)] /\ j - Len(acl) \in DOMAIN g
          BY <2>9, <3>1
        <4>2. i - Len(acl) < j - Len(acl)
          BY <2>5, <3>1
        <4>3. OfResponse(g[i - Len(acl)]) /\ OfResponse(g[j - Len(acl)])
          BY <3>1, <4>1
        <4>4. g[i - Len(acl)].start /\ ~g[j - Len(acl)].start
          BY <2>4, <4>1, <4>2, <4>3 DEF AnswerTo
        <4>5. QED BY <4>1, <4>4
      <3>2. QED BY <2>1, <3>1 DEF OneResponse
    <2>13. InTurn'
      BY <1>1, <2>3 DEF InTurn
    <2>14. QED BY <2>10, <2>11, <2>12, <2>13 DEF Inv
  <1>8. QED BY <1>6, <1>7

LEMMA PeerSpeaksKeeps ==
  ASSUME Inv, PeerSpeaks
  PROVE  Inv'
  <1>1. PICK k \in Asked \cup {"note"} : acl' = acl \o Fragments(Frame(k, "none", "none", BigMtu))
    BY DEF PeerSpeaks
  <1> DEFINE frame == Frame(k, "none", "none", BigMtu)
  <1>2. frame.k # "rsp" /\ frame.parts = 1
    BY DEF Frame, Asked
  <1> HIDE DEF frame
  <1>3. Packets(Fragments(frame)) /\ Unasked(Fragments(frame))
    BY <1>2, Single
  <1>4. UNCHANGED <<pc, script, step, buffer, unavailable, tag, inbox>>
    BY DEF PeerSpeaks, callVars, bearerVars
  <1>5. QED
    BY <1>1, <1>3, <1>4, NothingAsked DEF frame, Inv, Parts, OneResponse
-----------------------------------------------------------------------------
(* The steps that neither send nor receive.                                *)

\* An operation may be given up, and otherwise goes on as it was.
Moves ==
    /\ UNCHANGED <<acl, inbox, buffer, unavailable, tag, answered>>
    /\ \/ Advanced
       \/ UNCHANGED <<script, step>> /\ (pc' = pc \/ (pc \in {"watch", "take"} /\ pc' \in {"watch", "take"}))

LEMMA CallerMoves ==
  ASSUME Call \/ NoSend \/ NotOffered \/ Watch \/ TimesOut \/ PollsAgain
  PROVE  Moves
  <1>1. UNCHANGED <<acl, inbox, buffer, unavailable, tag, answered>>
    BY DEF Call, NoSend, NotOffered, Watch, TimesOut, PollsAgain, pumpVars, peerVars, bearerVars
  <1>2. CASE Call
    BY <1>1, <1>2 DEF Call, Moves, Advanced
  <1>3. CASE NoSend
    <2>1. Advance(Doing = "list" /\ cache # -1)
      BY <1>3 DEF NoSend
    <2>2. QED BY <1>1, <2>1, AdvanceLeaves DEF Moves
  <1>4. CASE Watch
    <2>1. \/ Advance(FALSE)
          \/ pc = "watch" /\ pc' = "take" /\ UNCHANGED <<script, step>>
      BY <1>4 DEF Watch
    <2>2. QED BY <1>1, <2>1, AdvanceLeaves DEF Moves
  <1>5. CASE TimesOut
    <2>1. Advance(FALSE)
      BY <1>5 DEF TimesOut
    <2>2. QED BY <1>1, <2>1, AdvanceLeaves DEF Moves
  <1>6. CASE PollsAgain
    <2>1. \/ Advance(FALSE)
          \/ pc = "take" /\ pc' = "watch" /\ UNCHANGED <<script, step>>
      BY <1>6 DEF PollsAgain
    <2>2. QED BY <1>1, <2>1, AdvanceLeaves DEF Moves
  <1>7. CASE NotOffered
    <2>1. Advance(TRUE)
      BY <1>7 DEF NotOffered
    <2>2. QED BY <1>1, <2>1, AdvanceLeaves DEF Moves
  <1>8. QED BY <1>2, <1>3, <1>4, <1>5, <1>6, <1>7

LEMMA WorldMoves ==
  ASSUME EventArrives \/ PumpDies \/ SessionTakes \/ UNCHANGED vars
  PROVE  Moves
  <1>1. CASE EventArrives
    BY <1>1 DEF EventArrives, callVars, bearerVars, Moves
  <1>2. CASE PumpDies
    BY <1>2 DEF PumpDies, Rest, callVars, bearerVars, Moves
  <1>3. CASE SessionTakes
    BY <1>3 DEF SessionTakes, peerVars, callVars, bearerVars, Moves
  <1>4. CASE UNCHANGED vars
    BY <1>4 DEF vars, pumpVars, peerVars, callVars, bearerVars, Moves
  <1>5. QED BY <1>1, <1>2, <1>3, <1>4

LEMMA StillBusy ==
  ASSUME Moves, Busy'
  PROVE  Busy
  BY SameOperation DEF Moves, Advanced, Busy

LEMMA MovesKeeps ==
  ASSUME Inv, Moves
  PROVE  Inv'
  <1>1. UNCHANGED <<acl, inbox, buffer, unavailable, tag>>
    BY DEF Moves
  <1>2. Parts' /\ LastRequests' /\ OneResponse'
    BY <1>1 DEF Inv, Parts, LastRequests, OneResponse, Quiet
  <1>3. InTurn'
    BY <1>1, StillBusy DEF Inv, InTurn, Quiet
  <1>4. QED BY <1>2, <1>3 DEF Inv

\* A new connection starts with empty channels and a new bearer.
LEMMA EmptyIsSequence ==
  /\ IsSequence(<<>>) /\ DOMAIN <<>> = {}
  <1>1. <<>> \in Seq({})
    BY EmptySeq
  <1>2. IsSequence(<<>>)
    BY <1>1, SequenceOf
  <1>3. QED BY <1>2

LEMMA ReconnectKeeps ==
  ASSUME Reconnect
  PROVE  Inv'
  <1>1. /\ acl' = <<>> /\ inbox' = <<>> /\ buffer' = <<>> /\ unavailable' = FALSE
        /\ pc' = pc /\ pc = "idle"
    BY DEF Reconnect, Silence, LinkNew
  <1>2. QED
    BY <1>1, EmptyIsSequence DEF Inv, Parts, LastRequests, OneResponse, InTurn, Quiet, Busy

LEMMA LinkInitially == Init => Inv
  <1> SUFFICES ASSUME Init PROVE Inv
    OBVIOUS
  <1>1. acl = <<>> /\ inbox = <<>> /\ buffer = <<>> /\ unavailable = FALSE /\ pc = "idle"
    BY DEF Init, PumpInit
  <1>2. QED
    BY <1>1, EmptyIsSequence DEF Inv, Parts, LastRequests, OneResponse, InTurn, Quiet, Busy

LEMMA LinkPreserved == Inv /\ [Next]_vars => Inv'
  <1> SUFFICES ASSUME Inv, [Next]_vars PROVE Inv'
    OBVIOUS
  <1>1. CASE Call \/ NoSend \/ NotOffered \/ Watch \/ TimesOut \/ PollsAgain
    BY <1>1, CallerMoves, MovesKeeps
  <1>2. CASE EventArrives \/ PumpDies \/ SessionTakes \/ UNCHANGED vars
    BY <1>2, WorldMoves, MovesKeeps
  <1>3. CASE \E sent \in BOOLEAN : Begin(sent)
    BY <1>3, BeginKeeps
  <1>4. QED
    BY <1>1, <1>2, <1>3, FrameKeeps, PeerAnswersKeeps, PeerSpeaksKeeps, ReconnectKeeps DEF Next
-----------------------------------------------------------------------------
(* The bearer.                                                             *)

BearerState == IF ~unavailable THEN "free" ELSE IF Busy THEN "busy" ELSE "dead"

\* What the steps of AttBearer are here.
BearerMoves ==
    \/ UNCHANGED <<BearerState, tag, answered>>
    \/ BearerState = "free" /\ BearerState' \in {"busy", "dead"} /\ tag' = 1 - tag /\ UNCHANGED answered
    \/ BearerState = "busy" /\ BearerState' = "free" /\ answered' = tag /\ UNCHANGED tag
    \/ BearerState = "busy" /\ BearerState' = "dead" /\ UNCHANGED <<tag, answered>>
    \/ BearerState = "busy" /\ BearerState' = "busy" /\ answered' = tag /\ tag' = 1 - tag
    \/ BearerState # "busy" /\ BearerState' = "free" /\ UNCHANGED <<tag, answered>>

LEMMA BearerMapped ==
  ASSUME BearerMoves
  PROVE  [AnswerToBearer!BearerNext]_(AnswerToBearer!bearerVars)
  BY DEF BearerMoves, BearerState, Busy, OnBearer, AnswerToBearer!BearerNext, AnswerToBearer!bearerVars,
         AnswerToBearer!Ask, AnswerToBearer!AskInVain, AnswerToBearer!Answer,
         AnswerToBearer!AnswerAndAsk, AnswerToBearer!Abandon, AnswerToBearer!Replace

LEMMA MovesMap ==
  ASSUME Inv, Moves
  PROVE  BearerMoves
  <1>1. UNCHANGED <<unavailable, tag, answered>>
    BY DEF Moves
  <1>2. Busy' => Busy
    BY StillBusy
  <1>3. QED BY <1>1, <1>2 DEF BearerMoves, BearerState

LEMMA BeginMaps ==
  ASSUME Inv, NEW sent \in BOOLEAN, Begin(sent)
  PROVE  BearerMoves
  <1>1. /\ pc = "send" /\ UNCHANGED answered
        /\ StaysOn \/ Advanced
        /\ Asks \/ AsksBeside
    BY RequestBegun
  <1>2. ~Busy
    BY <1>1 DEF Busy
  <1>3. CASE Asks
    <2>1. BearerState = "free" /\ BearerState' \in {"busy", "dead"} /\ tag' = 1 - tag
      BY <1>3 DEF Asks, BearerState
    <2>2. QED BY <1>1, <2>1 DEF BearerMoves
  <1>4. CASE AsksBeside
    <2>1. ~Busy'
      BY <1>1, <1>4, SameOperation DEF AsksBeside, StaysOn, Advanced, Busy
    <2>2. UNCHANGED BearerState /\ UNCHANGED tag
      BY <1>2, <1>4, <2>1 DEF AsksBeside, BearerState
    <2>3. QED BY <1>1, <2>2 DEF BearerMoves
  <1>5. QED BY <1>1, <1>3, <1>4

LEMMA FrameMaps ==
  ASSUME Inv, Take
  PROVE  BearerMoves
  <1>1. pc = "take" /\ (Passes \/ Accepts)
    BY FrameTaken
  <1>2. CASE Passes
    <2>1. UNCHANGED <<unavailable, tag, answered>>
      BY <1>2 DEF Passes
    <2>2. Busy' => Busy
      BY <1>1, <1>2, SameOperation DEF Passes, StaysOn, Advanced, Busy
    <2>3. QED BY <2>1, <2>2 DEF BearerMoves, BearerState
  <1>3. CASE Accepts
    <2>1. Busy
      BY <1>1, <1>3 DEF Accepts, Busy
    <2>2. BearerState = "busy"
      BY <2>1 DEF Inv, InTurn, BearerState
    <2>3. answered' = tag
      <3>1. 1 \in DOMAIN buffer
        <4>1. ASSUME NEW p, buffer = <<p>> PROVE 1 \in DOMAIN buffer
          BY <4>1
        <4>2. QED BY <1>3, <4>1 DEF Accepts, Inv, Parts
      <3>2. buffer[1].frame.tag = tag
        BY <3>1 DEF Inv, LastRequests
      <3>3. QED BY <1>3, <3>2 DEF Accepts
    <2>4. CASE Ends
      BY <2>2, <2>3, <2>4 DEF Ends, BearerMoves, BearerState
    <2>5. CASE Requests
      <3>1. Busy'
        BY <2>1, <2>5, SameOperation DEF Requests, StaysOn, Busy
      <3>2. BearerState' = "busy" /\ tag' = 1 - tag
        BY <2>1, <2>5, <3>1 DEF Requests, BearerState, Inv, InTurn
      <3>3. QED BY <2>2, <2>3, <3>2 DEF BearerMoves
    <2>6. QED BY <1>3, <2>4, <2>5 DEF Accepts
  <1>4. QED BY <1>1, <1>2, <1>3

LEMMA PeerMaps ==
  ASSUME Inv, PeerAnswers \/ PeerSpeaks
  PROVE  BearerMoves
  <1>1. UNCHANGED <<pc, script, step, unavailable, tag, answered>>
    BY DEF PeerAnswers, PeerSpeaks, callVars, bearerVars
  <1>2. Busy' = Busy
    BY <1>1, SameOperation DEF Busy
  <1>3. QED BY <1>1, <1>2 DEF BearerMoves, BearerState

LEMMA ReconnectMaps ==
  ASSUME Reconnect
  PROVE  BearerMoves
  <1>1. pc = "idle" /\ unavailable' = FALSE /\ UNCHANGED <<tag, answered>>
    BY DEF Reconnect, LinkNew
  <1>2. BearerState # "busy" /\ BearerState' = "free"
    BY <1>1 DEF BearerState, Busy
  <1>3. QED BY <1>1, <1>2 DEF BearerMoves

LEMMA EveryStepMaps ==
  ASSUME Inv, [Next]_vars
  PROVE  [AnswerToBearer!BearerNext]_(AnswerToBearer!bearerVars)
  <1>1. CASE Call \/ NoSend \/ NotOffered \/ Watch \/ TimesOut \/ PollsAgain
    BY <1>1, CallerMoves, MovesMap, BearerMapped
  <1>2. CASE EventArrives \/ PumpDies \/ SessionTakes \/ UNCHANGED vars
    BY <1>2, WorldMoves, MovesMap, BearerMapped
  <1>3. CASE \E sent \in BOOLEAN : Begin(sent)
    BY <1>3, BeginMaps, BearerMapped
  <1>4. QED
    BY <1>1, <1>2, <1>3, FrameMaps, PeerMaps, ReconnectMaps, BearerMapped DEF Next

(***************************************************************************)
(* The link keeps what an ATT bearer promises (AttBearer), whatever the    *)
(* peer sends in between, however often an operation is given up, and over *)
(* any number of connections: a response that is returned belongs to the   *)
(* request it is returned for, though it carries no number, and a bearer   *)
(* that was given up is not used again (Link::request).                    *)
(***************************************************************************)
THEOREM ImplementsBearer == Spec => KeepsBearer
  <1>1. Init => AnswerToBearer!BearerInit
    BY DEF Init, AnswerToBearer!BearerInit
  <1>2. Inv /\ [Next]_vars => [AnswerToBearer!BearerNext]_(AnswerToBearer!bearerVars)
    BY EveryStepMaps
  <1>3. QED
    BY <1>1, <1>2, LinkInitially, LinkPreserved, PTL
       DEF Spec, KeepsBearer, AnswerToBearer!BearerSpec

-----------------------------------------------------------------------------
(***************************************************************************)
(* Events.  What waits in the channel's events, in the wait's own list and *)
(* in what a wait put back is, read in that order, every event from the    *)
(* first not taken to the last emitted; a loss sits among them at its      *)
(* place.                                                                  *)
(***************************************************************************)

\* Any set of natural numbers has a least element.
LEMMA LeastNumber ==
  ASSUME NEW T, T \subseteq Nat, T # {}
  PROVE  /\ Min(T) \in T
         /\ \A m \in T : Min(T) <= m
  <1> DEFINE R == {ss \in Nat \X Nat : ss[1] < ss[2]}
  <1>1. IsWellFoundedOn(R, Nat)
    BY NatLessThanWellFounded DEF OpToRel
  <1>2. \E x \in T : \A y \in T : ~ (<<y, x>> \in R)
    <2> HIDE DEF R
    <2> QED BY <1>1, WFMin
  <1>3. PICK x \in T : \A y \in T : ~(<<y, x>> \in R)
    BY <1>2
  <1>4. ASSUME NEW y \in T PROVE x <= y
    <2>1. <<y, x>> \in Nat \X Nat /\ ~(y < x)
      BY <1>3
    <2> QED BY <2>1
  <1>5. QED BY <1>4 DEF Min

\* The events a sequence holds are those after first, up to last, in their order.
Ordered(w, first, last) ==
    LET news == {i \in DOMAIN w : w[i] # Lost}
    IN /\ {w[i] : i \in news} = (first + 1)..last
       /\ \A i, j \in news : i < j => w[i] < w[j]

\* The sequence t is s without what stands at k.
Without(s, t, k) ==
    /\ t \in Seq(Nat) /\ Len(t) = Len(s) - 1
    /\ \A i \in 1..Len(t) : t[i] = IF i < k THEN s[i] ELSE s[i + 1]

Typed ==
    /\ held \in Seq(Nat) /\ events \in Seq(Nat)
    /\ emitted \in Nat /\ taken \in 0..emitted

LEMMA WaitingTyped ==
  ASSUME Typed
  PROVE  Waiting \in Seq(Nat)
  BY ConcatProperties DEF Typed, Waiting

LEMMA LossFound ==
  ASSUME Typed
  PROVE  /\ LossAt = 0 => \A i \in DOMAIN Waiting : Waiting[i] # Lost
         /\ LossAt # 0 => LossAt \in 1..Len(Waiting) /\ Waiting[LossAt] = Lost
  <1> DEFINE I == {i \in 1..Len(Waiting) : Waiting[i] = Lost}
  <1>1. LossAt = IF I # {} THEN Min(I) ELSE 0
    BY DEF LossAt, SelectInSeq
  <1>2. Len(Waiting) \in Nat /\ DOMAIN Waiting = 1..Len(Waiting)
    BY WaitingTyped, LenProperties
  <1>3. I # {} => Min(I) \in I
    BY <1>2, LeastNumber
  <1> QED BY <1>1, <1>2, <1>3

LEMMA OneTakenOut ==
  ASSUME NEW s \in Seq(Nat), NEW t, NEW k \in 1..Len(s), Without(s, t, k), s[k] = Lost,
         NEW first \in Nat, NEW last \in Nat, Ordered(s, first, last)
  PROVE  Ordered(t, first, last)
  <1>1. /\ Len(s) \in Nat /\ DOMAIN s = 1..Len(s) /\ DOMAIN t = 1..(Len(s) - 1)
        /\ \A i \in 1..(Len(s) - 1) : t[i] = IF i < k THEN s[i] ELSE s[i + 1]
        /\ \A i \in 1..Len(s) : s[i] \in Nat
    BY LenProperties, ElementOfSeq DEF Without
  <1> DEFINE at(i) == IF i < k THEN i ELSE i + 1
  <1>2. \A i \in DOMAIN t : at(i) \in DOMAIN s /\ t[i] = s[at(i)]
    BY <1>1
  <1>3. \A i, j \in DOMAIN t : i < j => at(i) < at(j)
    BY <1>1
  <1>4. ASSUME NEW i \in DOMAIN s, s[i] # Lost
        PROVE  \E j \in DOMAIN t : t[j] = s[i]
    <2>1. CASE i < k
      <3>1. i \in DOMAIN t /\ t[i] = s[i]
        BY <1>1, <2>1
      <3> QED BY <3>1
    <2>2. CASE i > k
      <3>1. i - 1 \in DOMAIN t /\ t[i - 1] = s[(i - 1) + 1] /\ (i - 1) + 1 = i
        BY <1>1, <2>2
      <3> QED BY <3>1
    <2>3. i # k /\ i \in Nat /\ k \in Nat
      BY <1>1, <1>4
    <2> QED BY <2>1, <2>2, <2>3
  <1> HIDE DEF at
  <1>5. {t[i] : i \in {i \in DOMAIN t : t[i] # Lost}} = {s[i] : i \in {i \in DOMAIN s : s[i] # Lost}}
    <2>1. ASSUME NEW i \in DOMAIN t, t[i] # Lost
          PROVE  \E j \in DOMAIN s : s[j] # Lost /\ s[j] = t[i]
      BY <1>2, <2>1
    <2> QED BY <1>4, <2>1
  <1>6. ASSUME NEW i \in DOMAIN t, NEW j \in DOMAIN t, t[i] # Lost, t[j] # Lost, i < j
        PROVE  t[i] < t[j]
    BY <1>2, <1>3, <1>6 DEF Ordered
  <1> QED BY <1>5, <1>6 DEF Ordered

LEMMA OneMore ==
  ASSUME NEW s \in Seq(Nat), NEW first \in Nat, NEW last \in Nat, first <= last,
         Ordered(s, first, last)
  PROVE  /\ Ordered(Append(s, Lost), first, last)
         /\ Ordered(Append(s, last + 1), first, last + 1)
  <1>1. ASSUME NEW e \in Nat
        PROVE  /\ DOMAIN Append(s, e) = 1..(Len(s) + 1) /\ Len(s) \in Nat /\ DOMAIN s = 1..Len(s)
               /\ \A i \in DOMAIN s : Append(s, e)[i] = s[i] /\ i < Len(s) + 1
               /\ Append(s, e)[Len(s) + 1] = e
    BY LenProperties, AppendProperties
  <1>2. Ordered(Append(s, Lost), first, last)
    <2> DEFINE t == Append(s, Lost)
    <2>1. /\ DOMAIN t = 1..(Len(s) + 1) /\ Len(s) \in Nat /\ DOMAIN s = 1..Len(s)
          /\ \A i \in DOMAIN s : t[i] = s[i]
          /\ t[Len(s) + 1] = Lost
      BY <1>1 DEF Lost
    <2> HIDE DEF t
    <2>2. {i \in DOMAIN t : t[i] # Lost} = {i \in DOMAIN s : s[i] # Lost}
      BY <2>1
    <2>3. {t[i] : i \in {i \in DOMAIN t : t[i] # Lost}} = {s[i] : i \in {i \in DOMAIN s : s[i] # Lost}}
      BY <2>1, <2>2
    <2>4. Ordered(t, first, last)
      BY <2>1, <2>2, <2>3 DEF Ordered
    <2> QED BY <2>4 DEF t
  <1>3. Ordered(Append(s, last + 1), first, last + 1)
    <2> DEFINE t == Append(s, last + 1)  n == Len(s) + 1
    <2>1. /\ DOMAIN t = 1..n /\ Len(s) \in Nat /\ DOMAIN s = 1..Len(s)
          /\ \A i \in DOMAIN s : t[i] = s[i] /\ i < n
          /\ t[n] = last + 1
      BY <1>1
    <2> HIDE DEF t
    <2>2. DOMAIN t = DOMAIN s \cup {n} /\ n \notin DOMAIN s
      BY <2>1
    <2> HIDE DEF n
    <2>3. last + 1 # Lost
      BY DEF Lost
    <2>4. {i \in DOMAIN t : t[i] # Lost} = {i \in DOMAIN s : s[i] # Lost} \cup {n}
      BY <2>1, <2>2, <2>3
    <2>5. {t[i] : i \in {i \in DOMAIN t : t[i] # Lost}} =
          {s[i] : i \in {i \in DOMAIN s : s[i] # Lost}} \cup {last + 1}
      BY <2>1, <2>2, <2>4
    <2>6. {t[i] : i \in {i \in DOMAIN t : t[i] # Lost}} = (first + 1)..(last + 1)
      <3>1. {s[i] : i \in {i \in DOMAIN s : s[i] # Lost}} = (first + 1)..last
        BY DEF Ordered
      <3>2. ((first + 1)..last) \cup {last + 1} = (first + 1)..(last + 1)
        OBVIOUS
      <3> QED BY <2>5, <3>1, <3>2
    <2>7. ASSUME NEW i \in DOMAIN t, NEW j \in DOMAIN t, t[i] # Lost, t[j] # Lost, i < j
          PROVE  t[i] < t[j]
      <3>1. i \in DOMAIN s /\ t[i] = s[i] /\ n \in Nat /\ i \in Nat
        BY <2>1, <2>7 DEF n
      <3>2. s[i] \in (first + 1)..last
        BY <2>7, <3>1 DEF Ordered
      <3>3. CASE j = n
        BY <2>1, <3>1, <3>2, <3>3
      <3>4. CASE j \in DOMAIN s
        BY <2>1, <2>7, <3>1, <3>4 DEF Ordered
      <3> QED BY <2>2, <3>3, <3>4
    <2>8. Ordered(t, first, last + 1)
      BY <2>6, <2>7 DEF Ordered
    <2> QED BY <2>8 DEF t
  <1> QED BY <1>2, <1>3

\* The first of the sequence is taken: the next event, or the loss of the link.
LEMMA FirstTaken ==
  ASSUME NEW s \in Seq(Nat), s # <<>>, NEW first \in Nat, NEW last \in Nat, first <= last,
         Ordered(s, first, last)
  PROVE  /\ Head(s) = Lost => Ordered(Tail(s), first, last)
         /\ Head(s) # Lost => first < last /\ Head(s) = first + 1 /\ Ordered(Tail(s), first + 1, last)
  <1> DEFINE t == Tail(s)
  <1>1. /\ Len(s) \in Nat \ {0} /\ DOMAIN s = 1..Len(s) /\ Head(s) = s[1]
        /\ t \in Seq(Nat) /\ Len(t) = Len(s) - 1 /\ DOMAIN t = 1..(Len(s) - 1)
        /\ \A i \in 1..(Len(s) - 1) : t[i] = s[i + 1]
        /\ \A i \in 1..Len(s) : s[i] \in Nat
    <2>1. Len(s) \in Nat \ {0} /\ DOMAIN s = 1..Len(s)
      BY LenProperties, EmptySeq
    <2>2. t \in Seq(Nat) /\ Len(t) = Len(s) - 1 /\ \A i \in 1..Len(t) : t[i] = s[i + 1]
      BY HeadTailProperties
    <2>3. DOMAIN t = 1..Len(t)
      <3> HIDE DEF t
      <3> QED BY <2>2, LenProperties
    <2>4. Head(s) = s[1] /\ \A i \in 1..Len(s) : s[i] \in Nat
      BY <2>1, ElementOfSeq
    <2> QED BY <2>1, <2>2, <2>3, <2>4
  <1>2. Without(s, t, 1)
    BY <1>1 DEF Without
  <1>3. CASE Head(s) = Lost
    <2>1. 1 \in 1..Len(s)
      BY <1>1
    <2> HIDE DEF t
    <2>2. Ordered(t, first, last)
      BY <1>1, <1>2, <1>3, <2>1, OneTakenOut
    <2> QED BY <1>3, <2>2 DEF t
  <1>4. CASE Head(s) # Lost
    <2> DEFINE news == {i \in DOMAIN s : s[i] # Lost}
    <2> HIDE DEF t
    <2>1. 1 \in news
      BY <1>1, <1>4
    <2>2. s[1] \in (first + 1)..last
      BY <2>1 DEF Ordered
    <2>3. \A j \in news : j = 1 \/ s[1] < s[j]
      BY <1>1, <2>1 DEF Ordered
    <2>4. s[1] = first + 1 /\ first < last
      <3>1. first + 1 \in (first + 1)..last
        BY <2>2
      <3>2. PICK j \in news : s[j] = first + 1
        BY <3>1 DEF Ordered
      <3> QED BY <2>2, <2>3, <3>2
    <2>5. {t[i] : i \in {i \in DOMAIN t : t[i] # Lost}} = {s[i] : i \in news \ {1}}
      <3>1. ASSUME NEW i \in DOMAIN t, t[i] # Lost
            PROVE  i + 1 \in news \ {1} /\ s[i + 1] = t[i]
        BY <1>1, <3>1
      <3>2. ASSUME NEW i \in news \ {1}
            PROVE  i - 1 \in DOMAIN t /\ t[i - 1] = s[i] /\ t[i - 1] # Lost
        <4>1. i - 1 \in 1..(Len(s) - 1) /\ (i - 1) + 1 = i /\ s[i] # Lost
          BY <1>1, <3>2
        <4> QED BY <1>1, <4>1
      <3> HIDE DEF news
      <3> QED BY <3>1, <3>2
    <2>6. {s[i] : i \in news \ {1}} = ((first + 1) + 1)..last
      <3>1. {s[i] : i \in news} = (first + 1)..last
        BY DEF Ordered
      <3>2. {s[i] : i \in news \ {1}} = {s[i] : i \in news} \ {first + 1}
        <4>1. \A j \in news \ {1} : s[j] # first + 1
          BY <1>1, <2>3, <2>4
        <4> QED BY <2>4, <4>1
      <3>3. ((first + 1)..last) \ {first + 1} = ((first + 1) + 1)..last
        OBVIOUS
      <3> QED BY <3>1, <3>2, <3>3
    <2>7. ASSUME NEW i \in DOMAIN t, NEW j \in DOMAIN t, t[i] # Lost, t[j] # Lost, i < j
          PROVE  t[i] < t[j]
      <3>0. Len(s) \in Nat /\ i \in 1..(Len(s) - 1) /\ j \in 1..(Len(s) - 1)
        BY <1>1
      <3>1. i + 1 \in DOMAIN s /\ j + 1 \in DOMAIN s /\ i + 1 < j + 1
        <4>1. i + 1 \in 1..Len(s) /\ j + 1 \in 1..Len(s) /\ i + 1 < j + 1
          BY <2>7, <3>0
        <4> QED BY <1>1, <4>1
      <3>2. t[i] = s[i + 1] /\ t[j] = s[j + 1]
        BY <1>1, <2>7
      <3>3. i + 1 \in news /\ j + 1 \in news
        BY <2>7, <3>1, <3>2
      <3> QED BY <3>1, <3>2, <3>3 DEF Ordered
    <2>8. Ordered(t, first + 1, last)
      BY <2>5, <2>6, <2>7 DEF Ordered
    <2> QED BY <1>1, <1>4, <2>4, <2>8 DEF t
  <1> QED BY <1>3, <1>4
-----------------------------------------------------------------------------
(* The steps that touch the events.                                        *)

Loss(w) == \E i \in DOMAIN w : w[i] = Lost

LEMMA JoinedTyped ==
  ASSUME NEW s \in Seq(Nat), NEW t \in Seq(Nat)
  PROVE  /\ s \o t \in Seq(Nat)
         /\ Len(s) \in Nat /\ Len(t) \in Nat /\ Len(s \o t) = Len(s) + Len(t)
         /\ DOMAIN (s \o t) = 1..(Len(s) + Len(t))
         /\ \A i \in 1..(Len(s) + Len(t)) :
                (s \o t)[i] = IF i <= Len(s) THEN s[i] ELSE t[i - Len(s)]
  <1>1. /\ s \o t \in Seq(Nat) /\ Len(s \o t) = Len(s) + Len(t)
        /\ \A i \in 1..(Len(s) + Len(t)) :
               (s \o t)[i] = IF i <= Len(s) THEN s[i] ELSE t[i - Len(s)]
    BY ConcatProperties
  <1>2. DOMAIN (s \o t) = 1..Len(s \o t) /\ Len(s) \in Nat /\ Len(t) \in Nat
    BY <1>1, LenProperties
  <1> QED BY <1>1, <1>2

LEMMA Part ==
  ASSUME NEW s \in Seq(Nat), NEW m \in Nat \ {0}, NEW n \in Nat, n <= Len(s)
  PROVE  /\ SubSeq(s, m, n) \in Seq(Nat)
         /\ Len(SubSeq(s, m, n)) = IF m <= n THEN n - m + 1 ELSE 0
         /\ \A i \in 1..(n - m + 1) : SubSeq(s, m, n)[i] = s[m + i - 1]
  <1>1. \A i \in m..n : s[i] \in Nat
    BY LenProperties, ElementOfSeq
  <1>2. m \in Int /\ n \in Int
    OBVIOUS
  <1> QED BY <1>1, <1>2, SubSeqProperties

LEMMA Inspected ==
  ASSUME Typed, Inspect
  PROVE  /\ held' \in Seq(Nat) /\ events' \in Seq(Nat)
         /\ LossAt = 0 => Waiting' = Waiting /\ ~Loss(Waiting)
         /\ LossAt # 0 => /\ LossAt \in 1..Len(Waiting) /\ Waiting[LossAt] = Lost
                          /\ Without(Waiting, Waiting', LossAt)
  <1> DEFINE w == Waiting  k == LossAt
  <1>1. /\ w \in Seq(Nat) /\ Len(w) = Len(held) + Len(events)
        /\ Len(held) \in Nat /\ Len(events) \in Nat /\ DOMAIN w = 1..Len(w)
        /\ \A i \in 1..Len(w) : w[i] = IF i <= Len(held) THEN held[i] ELSE events[i - Len(held)]
    BY JoinedTyped DEF Typed, Waiting
  <1>2. held \in Seq(Nat) /\ events \in Seq(Nat)
    BY DEF Typed
  <1>3. CASE k = 0
    <2>1. held' = w /\ events' = <<>>
      BY <1>3 DEF Inspect
    <2>2. Waiting' = w
      BY <1>1, <2>1, ConcatEmptySeq DEF Waiting
    <2>3. events' \in Seq(Nat)
      BY <2>1, EmptySeq
    <2>4. ~Loss(w)
      BY <1>3, LossFound DEF Loss
    <2> QED BY <1>1, <1>3, <2>1, <2>2, <2>3, <2>4
  <1>4. CASE k # 0
    <2>1. k \in 1..Len(w) /\ w[k] = Lost
      BY <1>4, LossFound
    <2> DEFINE a == SubSeq(w, 1, k - 1)  b == SubSeq(held, k + 1, Len(held))
               c == SubSeq(events, k - Len(held) + 1, Len(events))
    <2>2. held' = a \o b /\ events' = IF k <= Len(held) THEN events ELSE c
      BY <1>4 DEF Inspect
    <2>3. /\ a \in Seq(Nat) /\ Len(a) = k - 1
          /\ \A i \in 1..(k - 1) : a[i] = w[i]
      <3>1. k - 1 \in Nat /\ k - 1 <= Len(w) /\ 1 \in Nat \ {0}
        BY <1>1, <2>1
      <3>2. /\ a \in Seq(Nat) /\ Len(a) = IF 1 <= k - 1 THEN (k - 1) - 1 + 1 ELSE 0
            /\ \A i \in 1..((k - 1) - 1 + 1) : a[i] = w[1 + i - 1]
        <4> HIDE DEF a, w, k
        <4> QED BY <1>1, <3>1, Part DEF a
      <3> HIDE DEF a, w, k
      <3> QED BY <1>1, <2>1, <3>1, <3>2
    <2> HIDE DEF a
    <2>4. CASE k <= Len(held)
      <3>1. /\ b \in Seq(Nat) /\ Len(b) = Len(held) - k
            /\ \A i \in 1..(Len(held) - k) : b[i] = held[k + i]
        <4>1. k + 1 \in Nat \ {0} /\ Len(held) <= Len(held)
          BY <1>1, <2>1
        <4>2. /\ b \in Seq(Nat) /\ Len(b) = IF k + 1 <= Len(held) THEN Len(held) - (k + 1) + 1 ELSE 0
              /\ \A i \in 1..(Len(held) - (k + 1) + 1) : b[i] = held[(k + 1) + i - 1]
          <5> HIDE DEF b, k
          <5> QED BY <1>1, <1>2, <4>1, Part DEF b
        <4> HIDE DEF b, w, k
        <4> QED BY <1>1, <2>1, <2>4, <4>1, <4>2
      <3> HIDE DEF b, c, w, k
      <3>2. /\ held' \in Seq(Nat) /\ Len(held') = Len(held) - 1
            /\ \A i \in 1..(Len(held) - 1) : held'[i] = IF i <= k - 1 THEN a[i] ELSE b[i - (k - 1)]
        <4>1. /\ held' \in Seq(Nat) /\ Len(held') = Len(a) + Len(b)
              /\ \A i \in 1..(Len(a) + Len(b)) :
                     held'[i] = IF i <= Len(a) THEN a[i] ELSE b[i - Len(a)]
          BY <2>2, <2>3, <3>1, JoinedTyped
        <4>2. Len(a) + Len(b) = Len(held) - 1
          BY <1>1, <2>1, <2>3, <3>1
        <4> QED BY <2>3, <4>1, <4>2
      <3>3. \A i \in 1..(Len(held) - 1) : held'[i] = IF i < k THEN held[i] ELSE held[i + 1]
        <4>1. ASSUME NEW i \in 1..(Len(held) - 1), i < k PROVE held'[i] = held[i]
          <5>1. i \in 1..(k - 1) /\ i \in 1..Len(w) /\ i <= Len(held)
            BY <1>1, <2>1, <4>1
          <5> QED BY <1>1, <2>3, <3>2, <5>1, <4>1
        <4>2. ASSUME NEW i \in 1..(Len(held) - 1), ~(i < k) PROVE held'[i] = held[i + 1]
          <5>1. ~(i <= k - 1) /\ i - (k - 1) \in 1..(Len(held) - k) /\ k + (i - (k - 1)) = i + 1
            BY <1>1, <2>1, <4>2
          <5> QED BY <3>1, <3>2, <5>1
        <4> QED BY <4>1, <4>2
      <3>4. events' = events
        BY <2>2, <2>4
      <3>5. Waiting' = held' \o events
        BY <3>4 DEF Waiting
      <3>6. /\ Waiting' \in Seq(Nat) /\ Len(Waiting') = (Len(held) - 1) + Len(events)
            /\ \A i \in 1..((Len(held) - 1) + Len(events)) : Waiting'[i] =
                   IF i <= Len(held) - 1 THEN held'[i] ELSE events[i - (Len(held) - 1)]
        BY <1>2, <3>2, <3>5, JoinedTyped
      <3>7. ASSUME NEW i \in 1..(Len(w) - 1)
            PROVE  Waiting'[i] = IF i < k THEN w[i] ELSE w[i + 1]
        <4>0. i \in 1..((Len(held) - 1) + Len(events))
          BY <1>1, <3>7
        <4>1. CASE i < k
          <5>1. i <= Len(held) - 1 /\ i \in 1..(Len(held) - 1) /\ i \in 1..Len(w) /\ i <= Len(held)
            BY <1>1, <2>1, <2>4, <4>1
          <5> QED BY <1>1, <3>3, <3>6, <4>0, <4>1, <5>1
        <4>2. CASE ~(i < k) /\ i <= Len(held) - 1
          <5>1. i \in 1..(Len(held) - 1) /\ i + 1 \in 1..Len(w) /\ i + 1 <= Len(held)
            BY <1>1, <2>1, <4>2
          <5> QED BY <1>1, <3>3, <3>6, <4>0, <4>2, <5>1
        <4>3. CASE ~(i <= Len(held) - 1)
          <5>1. i + 1 \in 1..Len(w) /\ ~(i + 1 <= Len(held)) /\ ~(i < k)
                /\ i - (Len(held) - 1) = (i + 1) - Len(held)
            BY <1>1, <2>1, <2>4, <4>3
          <5> QED BY <1>1, <3>6, <4>0, <4>3, <5>1
        <4> QED BY <4>1, <4>2, <4>3
      <3>8. Without(w, Waiting', k)
        BY <1>1, <3>6, <3>7 DEF Without
      <3> QED BY <1>2, <1>4, <2>1, <3>2, <3>4, <3>8 DEF w, k
    <2>5. CASE ~(k <= Len(held))
      <3>1. b = <<>>
        <4>1. k + 1 \in Int /\ Len(held) \in Int /\ Len(held) < k + 1
          BY <1>1, <2>1, <2>5
        <4> HIDE DEF k
        <4> QED BY <4>1, SubSeqEmpty
      <3>2. /\ c \in Seq(Nat) /\ Len(c) = Len(w) - k
            /\ \A i \in 1..(Len(w) - k) : c[i] = events[k - Len(held) + i]
        <4> DEFINE m == k - Len(held) + 1
        <4>1. m \in Nat \ {0} /\ Len(events) <= Len(events)
          BY <1>1, <2>1, <2>5
        <4>2. /\ c \in Seq(Nat) /\ Len(c) = IF m <= Len(events) THEN Len(events) - m + 1 ELSE 0
              /\ \A i \in 1..(Len(events) - m + 1) : c[i] = events[m + i - 1]
          <5> HIDE DEF m
          <5>1. c = SubSeq(events, m, Len(events))
            BY DEF m
          <5> HIDE DEF c
          <5> QED BY <1>1, <1>2, <4>1, <5>1, Part
        <4>3. Len(events) - m + 1 = Len(w) - k /\ (m <= Len(events) => Len(w) - k >= 1)
              /\ (~(m <= Len(events)) => Len(w) - k = 0)
          BY <1>1, <2>1
        <4>4. \A i \in 1..(Len(w) - k) : m + i - 1 = k - Len(held) + i
          BY <1>1, <2>1
        <4> HIDE DEF c, m
        <4> QED BY <4>2, <4>3, <4>4
      <3> HIDE DEF b, c, w, k
      <3>3. held' = a /\ events' = c
        BY <2>2, <2>3, <2>5, <3>1, ConcatEmptySeq
      <3>4. Waiting' = a \o c
        BY <3>3 DEF Waiting
      <3>5. /\ Waiting' \in Seq(Nat) /\ Len(Waiting') = Len(w) - 1
            /\ \A i \in 1..(Len(w) - 1) : Waiting'[i] = IF i <= k - 1 THEN a[i] ELSE c[i - (k - 1)]
        <4>1. /\ Waiting' \in Seq(Nat) /\ Len(Waiting') = Len(a) + Len(c)
              /\ \A i \in 1..(Len(a) + Len(c)) :
                     Waiting'[i] = IF i <= Len(a) THEN a[i] ELSE c[i - Len(a)]
          BY <2>3, <3>2, <3>4, JoinedTyped
        <4>2. Len(a) + Len(c) = Len(w) - 1
          BY <1>1, <2>1, <2>3, <3>2
        <4> QED BY <2>3, <4>1, <4>2
      <3>6. ASSUME NEW i \in 1..(Len(w) - 1)
            PROVE  Waiting'[i] = IF i < k THEN w[i] ELSE w[i + 1]
        <4>1. CASE i < k
          <5>1. i \in 1..(k - 1) /\ i <= k - 1
            BY <1>1, <2>1, <4>1
          <5>2. Waiting'[i] = a[i]
            BY <3>5, <3>6, <5>1
          <5> QED BY <2>3, <4>1, <5>1, <5>2
        <4>2. CASE ~(i < k)
          <5>1. /\ ~(i <= k - 1) /\ i - (k - 1) \in 1..(Len(w) - k)
                /\ i + 1 \in 1..Len(w) /\ ~(i + 1 <= Len(held))
                /\ k - Len(held) + (i - (k - 1)) = (i + 1) - Len(held)
            BY <1>1, <2>1, <2>5, <4>2
          <5> QED BY <1>1, <3>2, <3>5, <4>2, <5>1
        <4> QED BY <4>1, <4>2
      <3>7. Without(w, Waiting', k)
        BY <1>1, <3>5, <3>6 DEF Without
      <3> QED BY <1>4, <2>1, <2>3, <3>2, <3>3, <3>7 DEF w, k
    <2> QED BY <2>4, <2>5
  <1> QED BY <1>3, <1>4

LEMMA Received ==
  ASSUME Typed, RecvEvent, Waiting # <<>>
  PROVE  held' \in Seq(Nat) /\ events' \in Seq(Nat) /\ Waiting' = Tail(Waiting)
  <1>1. held \in Seq(Nat) /\ events \in Seq(Nat)
    BY DEF Typed
  <1>2. CASE held # <<>> /\ held' = Tail(held) /\ UNCHANGED events
    <2>1. held' \in Seq(Nat) /\ Len(held') = Len(held) - 1
          /\ \A i \in 1..Len(held') : held'[i] = held[i + 1]
      BY <1>1, <1>2, HeadTailProperties
    <2>2. Len(held) \in Nat \ {0} /\ Len(events) \in Nat
      BY <1>1, <1>2, LenProperties, EmptySeq
    <2>3. /\ Waiting \in Seq(Nat) /\ Len(Waiting) = Len(held) + Len(events)
          /\ \A i \in 1..(Len(held) + Len(events)) :
                 Waiting[i] = IF i <= Len(held) THEN held[i] ELSE events[i - Len(held)]
      BY <1>1, JoinedTyped DEF Waiting
    <2>4. Waiting' = held' \o events
      BY <1>2 DEF Waiting
    <2>5. /\ Waiting' \in Seq(Nat) /\ Len(Waiting') = Len(held') + Len(events)
          /\ \A i \in 1..(Len(held') + Len(events)) :
                 Waiting'[i] = IF i <= Len(held') THEN held'[i] ELSE events[i - Len(held')]
      BY <1>1, <2>1, <2>4, JoinedTyped
    <2>6. /\ Tail(Waiting) \in Seq(Nat) /\ Len(Tail(Waiting)) = Len(Waiting) - 1
          /\ \A i \in 1..Len(Tail(Waiting)) : Tail(Waiting)[i] = Waiting[i + 1]
      BY <2>3, HeadTailProperties
    <2>7. Len(Waiting') = Len(Tail(Waiting))
      BY <2>1, <2>2, <2>3, <2>5, <2>6
    <2>8. ASSUME NEW i \in 1..Len(Waiting')
          PROVE  Waiting'[i] = Tail(Waiting)[i]
      <3>1. Tail(Waiting)[i] = Waiting[i + 1]
        BY <2>6, <2>7
      <3>2. i \in 1..(Len(held') + Len(events)) /\ i + 1 \in 1..(Len(held) + Len(events))
        BY <2>1, <2>2, <2>5
      <3>3. CASE i <= Len(held')
        <4>1. i + 1 <= Len(held) /\ i \in 1..Len(held')
          BY <2>1, <2>2, <3>2, <3>3
        <4> QED BY <2>1, <2>3, <2>5, <3>1, <3>2, <3>3, <4>1
      <3>4. CASE ~(i <= Len(held'))
        <4>1. ~(i + 1 <= Len(held)) /\ (i + 1) - Len(held) = i - Len(held')
          BY <2>1, <2>2, <3>2, <3>4
        <4> QED BY <2>3, <2>5, <3>1, <3>2, <3>4, <4>1
      <3> QED BY <3>3, <3>4
    <2>9. Waiting' = Tail(Waiting)
      BY <2>5, <2>6, <2>7, <2>8, SeqEqual
    <2> QED BY <1>1, <1>2, <2>1, <2>9
  <1>3. CASE held = <<>> /\ events # <<>> /\ events' = Tail(events) /\ UNCHANGED held
    <2>1. Waiting = events
      BY <1>1, <1>3, ConcatEmptySeq DEF Waiting
    <2>2. events' \in Seq(Nat)
      BY <1>1, <1>3, HeadTailProperties
    <2>3. Waiting' = events'
      <3>1. Waiting' = <<>> \o events'
        BY <1>3 DEF Waiting
      <3> QED BY <2>2, <3>1, ConcatEmptySeq
    <2> QED BY <1>1, <1>3, <2>1, <2>2, <2>3
  <1> QED BY <1>2, <1>3 DEF RecvEvent

LEMMA Arrived ==
  ASSUME Typed, NEW e \in Nat, events' = Append(events, e), UNCHANGED held
  PROVE  events' \in Seq(Nat) /\ Waiting' = Append(Waiting, e)
  <1>1. held \in Seq(Nat) /\ events \in Seq(Nat)
    BY DEF Typed
  <1>2. events' \in Seq(Nat) /\ events' = events \o <<e>>
    BY <1>1, AppendProperties, AppendIsConcat
  <1>3. <<e>> \in Seq(Nat) /\ Waiting \in Seq(Nat)
    BY WaitingTyped
  <1>4. held \o (events \o <<e>>) = (held \o events) \o <<e>>
    BY <1>1, <1>3, ConcatAssociative
  <1> QED BY <1>2, <1>3, <1>4, AppendIsConcat DEF Waiting

\* What the property says, about the events that wait.
NewsInv == Typed /\ Ordered(Waiting, taken, emitted) /\ (~up => reason \/ told \/ Loss(Waiting))

LEMMA Forgets ==
  ASSUME NEW ok, Advance(ok)
  PROVE  told => told'
  BY DEF Advance

\* The events are left alone, and what is known of the loss is not forgotten.
LEMMA NoNews ==
  ASSUME NewsInv, UNCHANGED <<held, events, emitted, taken, up>>, reason => reason', told => told'
  PROVE  NewsInv'
  BY DEF NewsInv, Typed, Waiting, Loss, Ordered

LEMMA LookedAt ==
  ASSUME NewsInv, Inspect, UNCHANGED <<emitted, taken, up>>,
         reason => reason', told => told', LossAt # 0 => reason'
  PROVE  NewsInv'
  <1>1. /\ held' \in Seq(Nat) /\ events' \in Seq(Nat)
        /\ LossAt = 0 => Waiting' = Waiting /\ ~Loss(Waiting)
        /\ LossAt # 0 => /\ LossAt \in 1..Len(Waiting) /\ Waiting[LossAt] = Lost
                         /\ Without(Waiting, Waiting', LossAt)
    BY Inspected DEF NewsInv
  <1>2. /\ Waiting \in Seq(Nat) /\ Ordered(Waiting, taken, emitted)
        /\ taken \in Nat /\ emitted \in Nat
    BY WaitingTyped DEF NewsInv, Typed
  <1>3. Ordered(Waiting', taken, emitted)
    <2>1. CASE LossAt = 0
      BY <1>1, <1>2, <2>1
    <2>2. CASE LossAt # 0
      <3> DEFINE w == Waiting  k == LossAt
      <3>1. k \in 1..Len(w) /\ w[k] = Lost /\ Without(w, Waiting', k) /\ w \in Seq(Nat)
            /\ Ordered(w, taken, emitted)
        BY <1>1, <1>2, <2>2
      <3> HIDE DEF w, k
      <3> QED BY <1>2, <3>1, OneTakenOut
    <2> QED BY <2>1, <2>2
  <1>4. Typed'
    BY <1>1 DEF NewsInv, Typed
  <1>5. ~up' => reason' \/ told' \/ Loss(Waiting')
    BY <1>1 DEF NewsInv
  <1>6. Ordered(Waiting', taken', emitted')
    BY <1>3
  <1> QED BY <1>4, <1>5, <1>6 DEF NewsInv

LEMMA EventKeepsNews ==
  ASSUME NewsInv, EventArrives
  PROVE  NewsInv'
  <1>1. UNCHANGED <<held, taken, reason, told>>
    BY DEF EventArrives
  <1>2. /\ Typed /\ Waiting \in Seq(Nat) /\ Ordered(Waiting, taken, emitted)
        /\ taken \in Nat /\ emitted \in Nat /\ taken <= emitted
    BY WaitingTyped DEF NewsInv, Typed
  <1>3. CASE emitted' = emitted + 1 /\ events' = Append(events, emitted + 1) /\ UNCHANGED up
    <2> DEFINE e == emitted + 1
    <2>1. events' \in Seq(Nat) /\ Waiting' = Append(Waiting, e)
      <3>1. e \in Nat /\ events' = Append(events, e)
        BY <1>2, <1>3
      <3> HIDE DEF e
      <3> QED BY <1>1, <1>2, <3>1, Arrived
    <2>2. Ordered(Waiting', taken, emitted + 1)
      BY <1>2, <2>1, OneMore
    <2>3. Loss(Waiting) => Loss(Waiting')
      <3>1. ASSUME NEW i \in DOMAIN Waiting
            PROVE  i \in DOMAIN Waiting' /\ Waiting'[i] = Waiting[i]
        <4>1. e \in Nat /\ Waiting \in Seq(Nat)
          BY <1>2
        <4> DEFINE w == Waiting
        <4> HIDE DEF e, w
        <4>2. \A s \in Seq(Nat) : \A j \in DOMAIN s :
                 j \in DOMAIN Append(s, e) /\ Append(s, e)[j] = s[j]
          BY <4>1, AppendProperties, LenProperties
        <4> QED BY <1>2, <2>1, <3>1, <4>2
      <3> QED BY <3>1 DEF Loss
    <2>4. Typed'
      BY <1>1, <1>2, <1>3, <2>1 DEF Typed
    <2>5. Ordered(Waiting', taken', emitted')
      BY <1>1, <1>3, <2>2
    <2> QED BY <1>1, <1>3, <2>3, <2>4, <2>5 DEF NewsInv
  <1>4. CASE up' = FALSE /\ events' = Append(events, Lost) /\ UNCHANGED emitted
    <2>1. events' \in Seq(Nat) /\ Waiting' = Append(Waiting, Lost)
      BY <1>1, <1>2, <1>4, Arrived DEF Lost
    <2>2. Ordered(Waiting', taken', emitted')
      BY <1>1, <1>2, <1>4, <2>1, OneMore
    <2>3. Loss(Waiting')
      <3>1. Len(Waiting) + 1 \in DOMAIN Waiting' /\ Waiting'[Len(Waiting) + 1] = Lost
        <4>1. \A s \in Seq(Nat) : /\ Len(s) + 1 \in DOMAIN Append(s, Lost)
                                  /\ Append(s, Lost)[Len(s) + 1] = Lost
          <5>1. Lost \in Nat
            BY DEF Lost
          <5> QED BY <5>1, AppendProperties, LenProperties
        <4> QED BY <1>2, <2>1, <4>1
      <3> QED BY <3>1 DEF Loss
    <2>4. Typed'
      BY <1>1, <1>2, <1>4, <2>1 DEF Typed
    <2> QED BY <2>2, <2>3, <2>4 DEF NewsInv
  <1> QED BY <1>3, <1>4 DEF EventArrives

LEMMA SessionKeepsNews ==
  ASSUME NewsInv, SessionTakes
  PROVE  NewsInv'
  <1>1. /\ Waiting # <<>> /\ RecvEvent /\ UNCHANGED <<up, emitted, reason>>
        /\ told \/ Head(Waiting) = Lost => told'
        /\ taken' = IF Head(Waiting) = Lost THEN taken ELSE taken + 1
    BY DEF SessionTakes, peerVars
  <1>2. /\ Typed /\ Waiting \in Seq(Nat) /\ Ordered(Waiting, taken, emitted)
        /\ taken \in Nat /\ emitted \in Nat /\ taken <= emitted
    BY WaitingTyped DEF NewsInv, Typed
  <1>3. held' \in Seq(Nat) /\ events' \in Seq(Nat) /\ Waiting' = Tail(Waiting)
    BY <1>1, <1>2, Received
  <1>4. Ordered(Waiting', taken', emitted') /\ taken' \in 0..emitted
    <2>1. /\ Head(Waiting) = Lost => Ordered(Tail(Waiting), taken, emitted)
          /\ Head(Waiting) # Lost => taken < emitted /\ Ordered(Tail(Waiting), taken + 1, emitted)
      BY <1>1, <1>2, FirstTaken
    <2>2. CASE Head(Waiting) = Lost
      <3>1. taken' = taken /\ Ordered(Tail(Waiting), taken, emitted) /\ taken \in 0..emitted
        BY <1>1, <1>2, <2>1, <2>2
      <3> QED BY <1>1, <1>3, <3>1
    <2>3. CASE Head(Waiting) # Lost
      <3>1. taken' = taken + 1 /\ Ordered(Tail(Waiting), taken + 1, emitted) /\ taken + 1 \in 0..emitted
        BY <1>1, <1>2, <2>1, <2>3
      <3> QED BY <1>1, <1>3, <3>1
    <2> QED BY <2>2, <2>3
  <1>5. ~up' => reason' \/ told' \/ Loss(Waiting')
    <2>1. ASSUME NEW s \in Seq(Nat), s # <<>>, Head(s) # Lost, Loss(s)
          PROVE  Loss(Tail(s))
      <3>1. Len(s) \in Nat \ {0} /\ DOMAIN s = 1..Len(s) /\ Head(s) = s[1]
        BY <2>1, LenProperties, EmptySeq
      <3>2. /\ Len(Tail(s)) = Len(s) - 1 /\ DOMAIN Tail(s) = 1..Len(Tail(s))
            /\ \A i \in 1..Len(Tail(s)) : Tail(s)[i] = s[i + 1]
        BY <2>1, HeadTailProperties, LenProperties
      <3>3. PICK i \in DOMAIN s : s[i] = Lost
        BY <2>1 DEF Loss
      <3>4. i - 1 \in 1..(Len(s) - 1) /\ (i - 1) + 1 = i
        BY <2>1, <3>1, <3>3
      <3>5. i - 1 \in DOMAIN Tail(s) /\ Tail(s)[i - 1] = Lost
        BY <3>2, <3>3, <3>4
      <3> QED BY <3>5 DEF Loss
    <2>2. Head(Waiting) # Lost /\ Loss(Waiting) => Loss(Tail(Waiting))
      BY <1>1, <1>2, <2>1
    <2> QED BY <1>1, <1>3, <2>2 DEF NewsInv
  <1>6. Typed'
    BY <1>1, <1>2, <1>3, <1>4 DEF Typed
  <1> QED BY <1>4, <1>5, <1>6 DEF NewsInv

LEMMA NewConnectionKeepsNews ==
  ASSUME NewsInv, Reconnect
  PROVE  NewsInv'
  <1>1. held' = <<>> /\ events' = <<>> /\ up' /\ UNCHANGED emitted /\ taken' = emitted
    BY DEF Reconnect, Silence
  <1>2. <<>> \in Seq(Nat) /\ DOMAIN <<>> = {} /\ <<>> \o <<>> = <<>>
    BY EmptySeq, ConcatEmptySeq, EmptyIsSequence
  <1>3. Waiting' = <<>>
    BY <1>1, <1>2 DEF Waiting
  <1>4. emitted \in Nat
    BY DEF NewsInv, Typed
  <1>5. Ordered(<<>>, emitted, emitted)
    BY <1>2, <1>4 DEF Ordered
  <1> QED BY <1>1, <1>2, <1>3, <1>4, <1>5 DEF NewsInv, Typed

LEMMA NewsInitially == Init => NewsInv
  <1> SUFFICES ASSUME Init PROVE NewsInv
    OBVIOUS
  <1>1. held = <<>> /\ events = <<>> /\ up /\ emitted = 0 /\ taken = 0
    BY DEF Init, PumpInit
  <1>2. <<>> \in Seq(Nat) /\ DOMAIN <<>> = {} /\ <<>> \o <<>> = <<>>
    BY EmptySeq, ConcatEmptySeq, EmptyIsSequence
  <1>3. Waiting = <<>>
    BY <1>1, <1>2 DEF Waiting
  <1>5. Ordered(<<>>, 0, 0)
    BY <1>2 DEF Ordered
  <1> QED BY <1>1, <1>2, <1>3, <1>5 DEF NewsInv, Typed

LEMMA NewsPreserved == NewsInv /\ [Next]_vars => NewsInv'
  <1> SUFFICES ASSUME NewsInv, [Next]_vars PROVE NewsInv'
    OBVIOUS
  <1>1. CASE Call \/ PollsAgain \/ NoSend \/ NotOffered \/ \E sent \in BOOLEAN : Begin(sent)
    <2>1. UNCHANGED <<held, events, emitted, taken, up, reason>>
      BY <1>1 DEF Call, PollsAgain, NoSend, NotOffered, Begin, pumpVars, peerVars
    <2>2. told => told'
      BY <1>1, Forgets DEF Call, PollsAgain, NoSend, NotOffered, Begin
    <2> QED BY <2>1, <2>2, NoNews
  <1>2. CASE Take
    <2>1. UNCHANGED <<held, events, emitted, taken, up, reason>>
      BY <1>2 DEF Take
    <2>2. told => told'
      <3> DEFINE b == Push(Head(acl))  f == b[1].frame
      <3>1. Ignored \/ SmpFrame(f) \/ Response(f) \/ ReplyFails(f)
        BY <1>2, Zenon DEF Take, Reply
      <3>2. CASE Ignored \/ SmpFrame(f) \/ ReplyFails(f)
        BY <3>2, Forgets DEF Ignored, SmpFrame, ReplyFails
      <3>3. CASE Response(f)
        BY <3>3, Forgets DEF Response, ListResponse, ReadResponse, ShortResponse, Done, GoesOn
      <3> QED BY <3>1, <3>2, <3>3
    <2> QED BY <2>1, <2>2, NoNews
  <1>3. CASE PeerAnswers \/ PeerSpeaks \/ PumpDies \/ UNCHANGED vars
    <2>1. UNCHANGED <<held, events, emitted, taken, up, reason, told>>
      BY <1>3 DEF PeerAnswers, PeerSpeaks, PumpDies, Rest, vars, pumpVars, peerVars
    <2> QED BY <2>1, NoNews
  <1>4. CASE Watch
    <2>1. UNCHANGED <<emitted, taken, up>>
      BY <1>4 DEF Watch, peerVars
    <2>2. told => told'
      BY <1>4, Forgets DEF Watch
    <2>3. CASE reason
      BY <1>4, <2>1, <2>2, <2>3, NoNews DEF Watch
    <2>4. CASE ~reason
      <3>1. Inspect /\ (LossAt # 0 => reason')
        BY <1>4, <2>4 DEF Watch
      <3> QED BY <2>1, <2>2, <2>4, <3>1, LookedAt
    <2> QED BY <2>3, <2>4
  <1>5. CASE TimesOut
    <2>1. UNCHANGED <<emitted, taken, up, reason>> /\ LossAt = 0 /\ Inspect
      BY <1>5 DEF TimesOut, peerVars
    <2>2. told => told'
      BY <1>5, Forgets DEF TimesOut
    <2> QED BY <2>1, <2>2, LookedAt
  <1> QED
    BY <1>1, <1>2, <1>3, <1>4, <1>5, EventKeepsNews, SessionKeepsNews, NewConnectionKeepsNews
       DEF Next

\* No wait of the link loses, repeats or reorders an event: whatever
\* recv_acl_watching_link looks at while it waits for a packet, put_back_events
\* leaves every event not yet taken, once and in the order of emission.
THEOREM NewsAlwaysKept == Spec => []NewsKept
  <1>1. NewsInv => NewsKept
    BY DEF NewsInv, NewsKept, EventsInOrder, LossNotForgotten, Ordered, Loss
  <1> QED BY <1>1, NewsInitially, NewsPreserved, PTL DEF Spec

-----------------------------------------------------------------------------
(***************************************************************************)
(* Data.  SameFrame: the parts of one response are parts of one frame, so   *)
(* what is put together is what was taken apart.  DataInv: every response  *)
(* on its way meets the request that is out, so a read grows only by what  *)
(* the peer holds at its offset and a list only by the next batch.         *)
(***************************************************************************)

\* What there is of one response are parts of the same frame, and every part is
\* of this connection.
SameFrame ==
    /\ \A i \in DOMAIN acl : acl[i].own => acl[i].frame.conn = conn
    /\ \A i \in DOMAIN buffer : buffer[i].frame.conn = conn
    /\ \A i, j \in DOMAIN acl :
           OfResponse(acl[i]) /\ OfResponse(acl[j]) => acl[i].frame = acl[j].frame
    /\ \A i \in DOMAIN acl : \A j \in DOMAIN buffer :
           OfResponse(acl[i]) => acl[i].frame = buffer[j].frame
    /\ whole

Reading == Busy /\ request \in {"read", "blob"}
Walking == Busy /\ request = "group"

\* How a read goes on from here: by the rest, or by what fits into a chunk.
Chunk ==
    LET rest == size - value.got
    IN IF rest < mtu - 1 THEN rest ELSE mtu - 1

\* No request goes out on this connection any more, and no answer is taken.
Spent == ~Busy /\ (unavailable \/ (told /\ pc = "idle"))

\* An answer the peer may give to the request that is out.
Meets(f) ==
    /\ f.op = request
    /\ request = "mtu" => IF f.res = "ok" THEN f.n = BigMtu /\ peerMtu = BigMtu
                          ELSE Spent \/ mtu = peerMtu
    /\ Walking => /\ f.res = "none" => walked = Batches
                  /\ f.res = "last" => walked + 1 = Batches
                  /\ f.res = "more" => walked < Batches
    /\ Reading => /\ f.res = "ok" => f.n \in Nat /\ value.got + f.n <= size
                  /\ f.res = "ok" /\ ~value.moved => f.n = Chunk
                  /\ f.res \in {"offset", "notlong"} => value.got = size

\* A request asks for what comes next.
Follows(r) ==
    /\ r.op = request
    /\ Walking => r.n = walked + 1
    /\ Reading => r.n = value.got

Counters ==
    /\ size \in 0..MaxValue /\ walked \in 0..Batches /\ cache \in {-1, Batches}
    /\ value \in [got : Nat, last : Nat, moved : BOOLEAN]
    /\ Reading => value.got <= size
    /\ Busy /\ request = "read" => value.got = 0
    /\ readOk

\* The two sides agree on the MTU, but while our request for it is out, and where
\* the answer to the peer's own could not be sent: there no request follows.
SameMtu ==
    /\ mtu \in {SmallMtu, BigMtu} /\ peerMtu \in {SmallMtu, BigMtu}
    /\ Spent \/ mtu = peerMtu \/ (unavailable /\ request = "mtu" /\ peerMtu = BigMtu)
    /\ Spent \/ ((\E i \in DOMAIN inbox : Numbered(inbox[i])) => mtu = peerMtu)
    /\ \A i \in DOMAIN acl : acl[i].own /\ acl[i].frame.k = "mtureq" => acl[i].frame.n = BigMtu

Content ==
    /\ \A i \in DOMAIN inbox : Numbered(inbox[i]) => Follows(inbox[i])
    /\ \A i \in DOMAIN acl : OfResponse(acl[i]) => Meets(acl[i].frame)
    /\ \A i \in DOMAIN buffer : Meets(buffer[i].frame)

DataInv == Counters /\ SameMtu /\ Content

\* The caller is within its script.
Running == pc # "idle" => step \in 1..Len(Script(script))
-----------------------------------------------------------------------------
(* The part taken, in full.                                                *)

\* It does not end a frame.
Waits ==
    /\ acl[1].own => OfResponse(acl[1])
    /\ buffer' \in {buffer, <<>>} \/ (buffer' = <<acl[1]>> /\ OfResponse(acl[1]))
    /\ Ignored /\ UNCHANGED <<mtu, peerMtu, inbox, value, whole>>

\* It is a frame.
Alone ==
    LET f == acl[1].frame IN
    /\ acl[1].own /\ ~OfResponse(acl[1]) /\ buffer' = <<>>
    /\ whole /\ f.conn = conn => whole'
    /\ \/ FirstOp(Doing) = "smp" /\ f.k = "smp" /\ SmpFrame(f)
       \/ (Reply(f) \/ ReplyFails(f)) /\ UNCHANGED inbox

\* It is the second part of a response.
Second ==
    LET f == buffer[1].frame IN
    /\ OfResponse(acl[1]) /\ 1 \in DOMAIN buffer /\ f.k = "rsp" /\ buffer' = <<>>
    /\ ~acl[1].start
    /\ whole /\ acl[1].frame = f /\ f.conn = conn => whole'
    /\ \/ FirstOp(Doing) # "smp" /\ Matches(f) /\ Response(f)
       \/ (Reply(f) \/ ReplyFails(f)) /\ UNCHANGED inbox

LEMMA PartTaken ==
  ASSUME Inv, Take
  PROVE  /\ pc = "take" /\ acl # <<>> /\ acl' = Tail(acl) /\ WellCut(acl[1])
         /\ UNCHANGED <<up, conn, size>>
         /\ Waits \/ Alone \/ Second
  <1> DEFINE p == Head(acl)  b == Push(p)  f == b[1].frame
  <1>1. /\ pc = "take" /\ acl # <<>> /\ acl' = Tail(acl)
        /\ UNCHANGED <<up, conn, size>>
    BY DEF Take
  <1>2. p = acl[1] /\ WellCut(acl[1])
    <2>1. IsSequence(acl)
      BY DEF Inv, Parts
    <2>2. p = acl[1] /\ 1 \in DOMAIN acl
      BY <1>1, <2>1, Shorter
    <2>3. QED BY <2>2 DEF Inv, Parts
  <1>3. ~Complete(b) => buffer' = b /\ Ignored /\ UNCHANGED <<mtu, peerMtu, inbox, value, whole>>
    BY DEF Take
  <1>4. Complete(b) =>
           /\ buffer' = <<>>
           /\ \/ FirstOp(Doing) = "smp" /\ f.k = "smp" /\ SmpFrame(f)
              \/ FirstOp(Doing) # "smp" /\ Matches(f) /\ Response(f)
              \/ (Reply(f) \/ ReplyFails(f)) /\ UNCHANGED inbox
    BY Zenon DEF Take
  <1>5. Complete(b) =>
           (whole /\ (\A i \in DOMAIN b : b[i].frame = f) /\ f.conn = conn => whole')
    BY DEF Take
  <1> HIDE DEF f, b
  <1>6. buffer = <<>> \/ \E q : buffer = <<q>> /\ OfResponse(q) /\ q.frame.parts = 2
    BY DEF Inv, Parts
  <1>7. ASSUME ~Complete(b), b \in {buffer, <<>>}, acl[1].own => OfResponse(acl[1])
        PROVE  Waits
    BY <1>3, <1>7 DEF Waits
  <1>8. CASE ~acl[1].own
    <2>1. b = buffer
      BY <1>2, <1>8 DEF b, Push
    <2>2. ~Complete(buffer)
      <3>1. CASE buffer = <<>>
        BY <3>1 DEF Complete
      <3>2. ASSUME NEW q, buffer = <<q>>, q.frame.parts = 2
            PROVE  ~Complete(buffer)
        <4>1. Len(buffer) = 1 /\ buffer[1] = q
          BY <3>2
        <4>2. QED BY <3>2, <4>1 DEF Complete
      <3>3. QED BY <1>6, <3>1, <3>2
    <2>3. QED BY <1>1, <1>2, <1>7, <1>8, <2>1, <2>2
  <1>9. CASE acl[1].own /\ acl[1].start
    <2>1. b = <<acl[1]>>
      BY <1>2, <1>9 DEF b, Push
    <2>2. CASE OfResponse(acl[1])
      <3>1. acl[1].frame.parts = 2
        BY <1>2, <1>9, <2>2 DEF WellCut
      <3>2. ~Complete(b)
        BY <2>1, <3>1 DEF Complete
      <3>3. Waits
        BY <1>3, <2>1, <2>2, <3>2 DEF Waits
      <3>4. QED BY <1>1, <1>2, <3>3
    <2>3. CASE ~OfResponse(acl[1])
      <3>1. acl[1].frame.parts = 1
        BY <1>2, <1>9, <2>3 DEF WellCut
      <3>2. Complete(b) /\ f = acl[1].frame /\ \A i \in DOMAIN b : b[i].frame = f
        BY <2>1, <3>1 DEF Complete, f
      <3>3. ~Matches(f)
        BY <1>9, <2>3, <3>2 DEF Matches, OfResponse
      <3>4. Alone
        BY <1>4, <1>5, <1>9, <2>3, <3>2, <3>3 DEF Alone
      <3>5. QED BY <1>1, <1>2, <3>4
    <2>4. QED BY <2>2, <2>3
  <1>10. CASE acl[1].own /\ ~acl[1].start /\ buffer = <<>>
    <2>1. b = <<>>
      BY <1>2, <1>10 DEF b, Push
    <2>2. ~Complete(b) /\ OfResponse(acl[1])
      BY <1>2, <1>10, <2>1 DEF Complete, WellCut
    <2>3. QED BY <1>1, <1>2, <1>7, <2>1, <2>2
  <1>11. CASE acl[1].own /\ ~acl[1].start /\ buffer # <<>>
    <2>1. PICK q : buffer = <<q>> /\ OfResponse(q) /\ q.frame.parts = 2
      BY <1>6, <1>11
    <2>2. b = Append(buffer, acl[1])
      BY <1>2, <1>11 DEF b, Push
    <2>3. b # <<>> /\ Len(b) = 2 /\ b[1] = q /\ b[2] = acl[1] /\ DOMAIN b = 1..2
      <3>1. <<q>> \in Seq({q, acl[1]}) /\ acl[1] \in {q, acl[1]} /\ Len(<<q>>) = 1 /\ <<q>>[1] = q
        OBVIOUS
      <3>2. /\ b \in Seq({q, acl[1]}) /\ b # <<>> /\ Len(b) = 2 /\ b[1] = q /\ b[2] = acl[1]
        BY <2>1, <2>2, <3>1, AppendProperties
      <3>3. QED BY <3>2, LenProperties
    <2>4. Complete(b) /\ f = buffer[1].frame /\ f.k = "rsp" /\ 1 \in DOMAIN buffer
      BY <2>1, <2>3 DEF Complete, f, OfResponse
    <2>5. OfResponse(acl[1])
      BY <1>2, <1>11 DEF WellCut
    <2>6. acl[1].frame = f => \A i \in DOMAIN b : b[i].frame = f
      <3>1. \A i \in 1..2 : i = 1 \/ i = 2
        OBVIOUS
      <3>2. QED BY <2>3, <3>1 DEF f
    <2>7. Second
      BY <1>4, <1>5, <1>11, <2>4, <2>5, <2>6 DEF Second
    <2>8. QED BY <1>1, <1>2, <2>7
  <1>12. QED BY <1>2, <1>8, <1>9, <1>10, <1>11 DEF WellCut
-----------------------------------------------------------------------------
(* What comes, comes in one piece.                                         *)

\* The channel holds what it held, and after it parts of this frame.
GrownBy(frame) ==
    /\ DOMAIN acl \subseteq DOMAIN acl'
    /\ \A i \in DOMAIN acl : acl'[i] = acl[i]
    /\ \A i \in DOMAIN acl' \ DOMAIN acl :
           \/ acl'[i].own /\ acl'[i].frame = frame
           \/ ~acl'[i].own /\ acl'[i].frame = Foreign

PartOf(p, frame) == (p.own /\ p.frame = frame) \/ (~p.own /\ p.frame = Foreign)
AllOf(g, frame) == IsSequence(g) /\ \A i \in DOMAIN g : PartOf(g[i], frame)

LEMMA Joins ==
  ASSUME IsSequence(acl), NEW g, NEW frame, AllOf(g, frame), acl' = acl \o g
  PROVE  GrownBy(frame)
  <1>1. /\ Len(acl) \in Nat /\ DOMAIN acl = 1..Len(acl)
        /\ Len(g) \in Nat /\ DOMAIN g = 1..Len(g)
        /\ DOMAIN acl' = 1..(Len(acl) + Len(g))
        /\ \A i \in DOMAIN acl' : acl'[i] = IF i <= Len(acl) THEN acl[i] ELSE g[i - Len(acl)]
    BY Joined DEF AllOf
  <1>2. DOMAIN acl \subseteq DOMAIN acl' /\ \A i \in DOMAIN acl : acl'[i] = acl[i]
    BY <1>1
  <1>3. ASSUME NEW i \in DOMAIN acl' \ DOMAIN acl
        PROVE  i - Len(acl) \in DOMAIN g /\ acl'[i] = g[i - Len(acl)]
    BY <1>1
  <1>4. QED BY <1>2, <1>3 DEF GrownBy, AllOf, PartOf

LEMMA Sent ==
  ASSUME NEW frame, frame.parts \in {1, 2}
  PROVE  /\ AllOf(Fragments(frame), frame)
         /\ frame.parts = 1 => \E x : Fragments(frame) = <<x>> /\ x.frame = frame
         /\ frame.parts = 2 => \E x, z : /\ Fragments(frame) = <<x, z>>
                                         /\ PartOf(x, frame) /\ PartOf(z, frame)
  <1> DEFINE g == Fragments(frame)
  <1>1. g = [i \in 1..frame.parts |-> Fragment(TRUE, i = 1, frame)]
    BY DEF Fragments
  <1> HIDE DEF g
  <1>2. \A i \in DOMAIN g : PartOf(g[i], frame)
    BY <1>1 DEF Fragment, PartOf
  <1>3. CASE frame.parts = 1
    <2>1. g = [i \in 1..1 |-> g[i]]
      BY <1>1, <1>3
    <2>2. g = <<g[1]>>
      BY <2>1, AsTuple
    <2>3. ASSUME NEW x, g = <<x>>
          PROVE  IsSequence(g)
      BY <2>3, ShortSequences
    <2>4. g[1].frame = frame
      BY <1>1, <1>3 DEF Fragment
    <2>5. QED BY <1>2, <1>3, <2>2, <2>3, <2>4 DEF g, AllOf
  <1>4. CASE frame.parts = 2
    <2>1. g = [i \in 1..2 |-> g[i]]
      BY <1>1, <1>4
    <2>2. g = <<g[1], g[2]>>
      BY <2>1, AsTuple
    <2>3. ASSUME NEW x, NEW y, g = <<x, y>>
          PROVE  IsSequence(g)
      BY <2>3, ShortSequences
    <2>4. PartOf(g[1], frame) /\ PartOf(g[2], frame) /\ IsSequence(g)
      BY <1>2, <2>1, <2>2, <2>3
    <2>5. QED BY <1>2, <1>4, <2>2, <2>4 DEF g, AllOf
  <1>5. QED BY <1>3, <1>4

LEMMA Delivery ==
  ASSUME IsSequence(acl), NEW frame, frame.parts \in {1, 2}, Delivers(frame)
  PROVE  GrownBy(frame)
  <1> DEFINE f == Fragments(frame)
  <1>1. \/ acl' = acl \o f
        \/ frame.parts = 2 /\ \E start \in BOOLEAN :
               acl' = acl \o <<f[1], Fragment(FALSE, start, Foreign), f[2]>>
    BY DEF Delivers
  <1>2. /\ AllOf(f, frame)
        /\ frame.parts = 2 => \E x, z : f = <<x, z>> /\ PartOf(x, frame) /\ PartOf(z, frame)
    BY Sent
  <1> HIDE DEF f
  <1>3. CASE acl' = acl \o f
    BY <1>2, <1>3, Joins
  <1>4. ASSUME NEW start \in BOOLEAN, frame.parts = 2,
               acl' = acl \o <<f[1], Fragment(FALSE, start, Foreign), f[2]>>
        PROVE  GrownBy(frame)
    <2>1. PICK x, z : f = <<x, z>> /\ PartOf(x, frame) /\ PartOf(z, frame)
      BY <1>2, <1>4
    <2>2. f[1] = x /\ f[2] = z
      BY <2>1
    <2> DEFINE y == Fragment(FALSE, start, Foreign)  g == <<x, y, z>>
    <2>3. PartOf(y, frame)
      BY DEF Fragment, PartOf
    <2>4. acl' = acl \o g
      BY <1>4, <2>2
    <2> HIDE DEF y
    <2>5. IsSequence(g) /\ DOMAIN g = {1, 2, 3} /\ g[1] = x /\ g[2] = y /\ g[3] = z
      <3>1. IsSequence(g)
        BY ShortSequences
      <3>2. QED BY <3>1
    <2> HIDE DEF g
    <2>6. AllOf(g, frame)
      BY <2>1, <2>3, <2>5 DEF AllOf
    <2>7. QED BY <2>4, <2>6, Joins
  <1>5. QED BY <1>1, <1>3, <1>4

\* The frame the peer answers with.
LEMMA PeerFrame ==
  ASSUME Inv, PeerAnswers
  PROVE  LET r == Head(inbox) IN
         /\ inbox # <<>> /\ inbox' = Tail(inbox)
         /\ UNCHANGED <<up, conn, script, step, pc, tag, request, unavailable, mtu, buffer,
                        whole, value, readOk, walked, cache>>
         /\ size' \in CASE r.op = "read" -> 0..MaxValue
                        [] r.op \in {"blob", "smp"} -> {size}
                        [] OTHER -> {0}
         /\ \E frame, a :
               /\ GrownBy(frame) /\ a \in Answers(r)
               /\ frame.k = (IF Numbered(r) THEN "rsp" ELSE "smp")
               /\ frame.op = r.op /\ frame.conn = conn /\ frame.res = a[1] /\ frame.n = a[2]
               /\ peerMtu' = IF r.op = "mtu" /\ a[1] = "ok" THEN a[2] ELSE peerMtu
  <1> DEFINE r == Head(inbox)
  <1>1. /\ inbox # <<>> /\ inbox' = Tail(inbox)
        /\ UNCHANGED <<up, conn, script, step, pc, tag, request, unavailable, mtu, buffer,
                       whole, value, readOk, walked, cache>>
        /\ size' \in CASE r.op = "read" -> 0..MaxValue
                       [] r.op \in {"blob", "smp"} -> {size}
                       [] OTHER -> {0}
    BY DEF PeerAnswers, callVars, bearerVars, readVars
  <1>2. PICK a \in Answers(r) :
           /\ Delivers([Frame(IF r.op = "smp" THEN "smp" ELSE "rsp", r.op, a[1], a[2])
                          EXCEPT !.tag = r.tag])
           /\ peerMtu' = IF r.op = "mtu" /\ a[1] = "ok" THEN a[2] ELSE peerMtu
    BY Zenon DEF PeerAnswers
  <1> DEFINE frame == [Frame(IF r.op = "smp" THEN "smp" ELSE "rsp", r.op, a[1], a[2])
                          EXCEPT !.tag = r.tag]
  <1>3. /\ frame.k = (IF Numbered(r) THEN "rsp" ELSE "smp")
        /\ frame.op = r.op /\ frame.conn = conn /\ frame.res = a[1] /\ frame.n = a[2]
        /\ frame.parts \in {1, 2}
    BY DEF Frame, Numbered
  <1>4. Delivers(frame)
    BY <1>2
  <1> HIDE DEF frame, r
  <1>5. GrownBy(frame)
    BY <1>3, <1>4, Delivery DEF Inv, Parts
  <1>6. \E fr, b : /\ GrownBy(fr) /\ b \in Answers(r)
                   /\ fr.k = (IF Numbered(r) THEN "rsp" ELSE "smp")
                   /\ fr.op = r.op /\ fr.conn = conn /\ fr.res = b[1] /\ fr.n = b[2]
                   /\ peerMtu' = IF r.op = "mtu" /\ b[1] = "ok" THEN b[2] ELSE peerMtu
    BY <1>2, <1>3, <1>5
  <1>7. QED BY <1>1, <1>6 DEF r

\* The frame it sends on its own account.
LEMMA PeerPacket ==
  ASSUME Inv, PeerSpeaks
  PROVE  \E frame : /\ GrownBy(frame) /\ frame.k \in Asked \cup {"note"} /\ frame.conn = conn
                    /\ frame.n = BigMtu
  <1>1. PICK k \in Asked \cup {"note"} :
             acl' = acl \o Fragments(Frame(k, "none", "none", BigMtu))
    BY DEF PeerSpeaks
  <1> DEFINE frame == Frame(k, "none", "none", BigMtu)
  <1>2. frame.k = k /\ frame.conn = conn /\ frame.n = BigMtu /\ frame.parts = 1
    BY DEF Frame, Asked
  <1>3. acl' = acl \o Fragments(frame)
    BY <1>1
  <1> HIDE DEF frame
  <1>4. AllOf(Fragments(frame), frame)
    BY <1>2, Sent
  <1>5. GrownBy(frame)
    BY <1>3, <1>4, Joins DEF Inv, Parts
  <1>6. QED BY <1>2, <1>5

LEMMA AnswerKeepsFrames ==
  ASSUME Inv, SameFrame, PeerAnswers
  PROVE  SameFrame'
  <1> DEFINE r == Head(inbox)
  <1>1. /\ inbox # <<>> /\ UNCHANGED <<conn, buffer, whole>>
        /\ \E frame : /\ GrownBy(frame) /\ frame.conn = conn
                      /\ frame.k = (IF Numbered(r) THEN "rsp" ELSE "smp")
    BY PeerFrame
  <1>2. PICK frame : /\ GrownBy(frame) /\ frame.conn = conn
                     /\ frame.k = (IF Numbered(r) THEN "rsp" ELSE "smp")
    BY <1>1
  <1>3. r = inbox[1] /\ 1 \in DOMAIN inbox
    BY <1>1, Shorter DEF Inv, Parts
  <1> HIDE DEF r
  <1>4. \A i \in DOMAIN acl' : \/ i \in DOMAIN acl /\ acl'[i] = acl[i]
                               \/ acl'[i].own /\ acl'[i].frame = frame
                               \/ ~acl'[i].own /\ acl'[i].frame = Foreign
    BY <1>2 DEF GrownBy
  <1>8. \A i \in DOMAIN acl' : acl'[i].own => acl'[i].frame.conn = conn
    BY <1>2, <1>4 DEF SameFrame
  <1>9. CASE Numbered(r)
    <2>1. Quiet
      BY <1>3, <1>9 DEF Inv, OneResponse
    <2>2. \A i \in DOMAIN acl' : OfResponse(acl'[i]) => acl'[i].frame = frame
      BY <1>4, <2>1 DEF Quiet, OfResponse
    <2>3. buffer = <<>>
      BY <2>1 DEF Quiet
    <2>4. QED BY <1>1, <1>8, <2>2, <2>3, EmptyIsSequence DEF SameFrame
  <1>10. CASE ~Numbered(r)
    <2>1. \A i \in DOMAIN acl' : OfResponse(acl'[i]) => i \in DOMAIN acl /\ acl'[i] = acl[i]
      BY <1>2, <1>4, <1>10 DEF OfResponse
    <2>2. QED
      <3>1. \A i, j \in DOMAIN acl' :
               OfResponse(acl'[i]) /\ OfResponse(acl'[j]) => acl'[i].frame = acl'[j].frame
        BY <2>1 DEF SameFrame
      <3>2. \A i \in DOMAIN acl' : \A j \in DOMAIN buffer :
               OfResponse(acl'[i]) => acl'[i].frame = buffer[j].frame
        BY <2>1 DEF SameFrame
      <3>3. QED BY <1>1, <1>8, <3>1, <3>2 DEF SameFrame
  <1>11. QED BY <1>9, <1>10

LEMMA PacketKeepsFrames ==
  ASSUME Inv, SameFrame, PeerSpeaks
  PROVE  SameFrame'
  <1>1. PICK frame : GrownBy(frame) /\ frame.k \in Asked \cup {"note"} /\ frame.conn = conn
    BY PeerPacket
  <1>2. UNCHANGED <<conn, buffer, whole>>
    BY DEF PeerSpeaks
  <1>3. \A i \in DOMAIN acl' : \/ i \in DOMAIN acl /\ acl'[i] = acl[i]
                               \/ acl'[i].own /\ acl'[i].frame = frame
                               \/ ~acl'[i].own /\ acl'[i].frame = Foreign
    BY <1>1 DEF GrownBy
  <1>4. \A i \in DOMAIN acl' : acl'[i].own => acl'[i].frame.conn = conn
    BY <1>1, <1>3 DEF SameFrame
  <1>5. \A i \in DOMAIN acl' : OfResponse(acl'[i]) => i \in DOMAIN acl /\ acl'[i] = acl[i]
    BY <1>1, <1>3 DEF OfResponse, Asked
  <1>6. \A i, j \in DOMAIN acl' :
           OfResponse(acl'[i]) /\ OfResponse(acl'[j]) => acl'[i].frame = acl'[j].frame
    BY <1>5 DEF SameFrame
  <1>7. \A i \in DOMAIN acl' : \A j \in DOMAIN buffer :
           OfResponse(acl'[i]) => acl'[i].frame = buffer[j].frame
    BY <1>5 DEF SameFrame
  <1>8. QED BY <1>2, <1>4, <1>6, <1>7 DEF SameFrame

LEMMA TakeKeepsFrames ==
  ASSUME Inv, SameFrame, Take
  PROVE  SameFrame'
  <1>1. /\ acl # <<>> /\ acl' = Tail(acl) /\ WellCut(acl[1]) /\ UNCHANGED conn
        /\ Waits \/ Alone \/ Second
    BY PartTaken
  <1>2. /\ IsSequence(acl) /\ 1 \in DOMAIN acl
        /\ \A i \in DOMAIN acl' : i + 1 \in DOMAIN acl /\ acl'[i] = acl[i + 1]
    BY <1>1, Shorter DEF Inv, Parts
  <1>3. /\ \A i \in DOMAIN acl' : acl'[i].own => acl'[i].frame.conn = conn
        /\ \A i, j \in DOMAIN acl' :
               OfResponse(acl'[i]) /\ OfResponse(acl'[j]) => acl'[i].frame = acl'[j].frame
        /\ \A i \in DOMAIN acl' : \A j \in DOMAIN buffer :
               OfResponse(acl'[i]) => acl'[i].frame = buffer[j].frame
        /\ OfResponse(acl[1]) =>
               \A i \in DOMAIN acl' : OfResponse(acl'[i]) => acl'[i].frame = acl[1].frame
    BY <1>2 DEF SameFrame
  <1>4. ASSUME buffer' = <<>>, whole'
        PROVE  SameFrame'
    BY <1>1, <1>3, <1>4, EmptyIsSequence DEF SameFrame
  <1>5. CASE Waits
    <2>1. CASE buffer' = buffer
      BY <1>1, <1>3, <1>5, <2>1 DEF Waits, SameFrame
    <2>2. CASE buffer' = <<>>
      BY <1>4, <1>5, <2>2 DEF Waits, SameFrame
    <2>3. CASE buffer' = <<acl[1]>> /\ OfResponse(acl[1])
      <3>1. \A j \in DOMAIN buffer' : buffer'[j] = acl[1]
        BY <2>3
      <3>2. acl[1].frame.conn = conn
        BY <1>2, <2>3 DEF SameFrame, OfResponse
      <3>3. whole'
        BY <1>5 DEF Waits, SameFrame
      <3>4. QED BY <1>1, <1>3, <2>3, <3>1, <3>2, <3>3 DEF SameFrame
    <2>4. QED BY <1>5, <2>1, <2>2, <2>3 DEF Waits
  <1>6. CASE Alone
    <2>1. acl[1].frame.conn = conn
      BY <1>2, <1>6 DEF Alone, SameFrame
    <2>2. buffer' = <<>> /\ whole'
      BY <1>6, <2>1 DEF Alone, SameFrame
    <2>3. QED BY <1>4, <2>2
  <1>7. CASE Second
    <2>1. acl[1].frame = buffer[1].frame /\ buffer[1].frame.conn = conn /\ buffer' = <<>>
      BY <1>2, <1>7 DEF Second, SameFrame
    <2>2. whole'
      BY <1>7, <2>1 DEF Second, SameFrame
    <2>3. QED BY <1>4, <2>1, <2>2
  <1>8. QED BY <1>1, <1>5, <1>6, <1>7

LEMMA FramesInitially == Init => SameFrame
  BY EmptyIsSequence DEF Init, PumpInit, SameFrame

LEMMA FramesPreserved == Inv /\ SameFrame /\ [Next]_vars => SameFrame'
  <1> SUFFICES ASSUME Inv, SameFrame, [Next]_vars PROVE SameFrame'
    OBVIOUS
  <1>1. ASSUME UNCHANGED <<acl, buffer, conn, whole>>
        PROVE  SameFrame'
    BY <1>1 DEF SameFrame
  <1>2. CASE Call \/ (\E sent \in BOOLEAN : Begin(sent)) \/ NoSend \/ NotOffered \/ Watch \/ TimesOut
             \/ PollsAgain
    BY <1>1, <1>2 DEF Call, Begin, NoSend, NotOffered, Watch, TimesOut, PollsAgain, pumpVars, peerVars
  <1>3. CASE EventArrives \/ PumpDies \/ SessionTakes \/ UNCHANGED vars
    BY <1>1, <1>3 DEF EventArrives, PumpDies, SessionTakes, Rest, vars, pumpVars, peerVars
  <1>4. CASE Reconnect
    <2>1. acl' = <<>> /\ buffer' = <<>> /\ whole'
      BY <1>4 DEF Reconnect, Silence, LinkNew, SameFrame
    <2>2. QED BY <2>1, EmptyIsSequence DEF SameFrame
  <1>5. QED
    BY <1>2, <1>3, <1>4, AnswerKeepsFrames, PacketKeepsFrames, TakeKeepsFrames DEF Next
-----------------------------------------------------------------------------
(* What the parts add up to.                                               *)

dataVars == <<request, mtu, peerMtu, walked, cache, value, size, readOk, unavailable>>

GivenUp == told /\ pc = "idle"

\* A connection that is spent stays so.
LEMMA StillSpent ==
  ASSUME UNCHANGED unavailable, Busy' => Busy, GivenUp => GivenUp'
  PROVE  Spent => Spent'
  BY DEF Spent, GivenUp

\* An answer stays one while the request it belongs to stays out.
LEMMA StillMeets ==
  ASSUME UNCHANGED <<request, mtu, peerMtu, walked, value, size>>, Busy' => Busy,
         Spent => Spent', NEW f, Meets(f)
  PROVE  Meets(f)'
  BY DEF Meets, Walking, Reading, Chunk

LEMMA StillFollows ==
  ASSUME UNCHANGED <<request, walked, value>>, Busy' => Busy, NEW r, Follows(r)
  PROVE  Follows(r)'
  BY DEF Follows, Walking, Reading

LEMMA StillCounted ==
  ASSUME UNCHANGED <<request, walked, value, cache, size, readOk>>, Busy' => Busy, Counters
  PROVE  Counters'
  BY DEF Counters, Reading

LEMMA Untouched ==
  ASSUME DataInv, UNCHANGED <<dataVars, acl, buffer, inbox>>, Busy' => Busy,
         GivenUp => GivenUp'
  PROVE  DataInv'
  <1>0. Spent => Spent'
    BY StillSpent DEF dataVars
  <1>1. Counters'
    BY StillCounted DEF DataInv, dataVars
  <1>2. SameMtu'
    BY <1>0 DEF DataInv, SameMtu, dataVars
  <1>3. Content'
    <2>1. \A f : Meets(f) => Meets(f)'
      BY <1>0, StillMeets DEF dataVars
    <2>2. \A r : Follows(r) => Follows(r)'
      BY StillFollows DEF dataVars
    <2>3. \A i \in DOMAIN inbox : Numbered(inbox[i]) => Follows(inbox[i])'
      BY <2>2 DEF DataInv, Content
    <2>4. \A i \in DOMAIN acl : OfResponse(acl[i]) => Meets(acl[i].frame)'
      BY <2>1 DEF DataInv, Content
    <2>5. \A i \in DOMAIN buffer : Meets(buffer[i].frame)'
      BY <2>1 DEF DataInv, Content
    <2>6. QED BY <2>3, <2>4, <2>5 DEF Content
  <1>4. QED BY <1>1, <1>2, <1>3 DEF DataInv

\* A new operation: its request is the first, and asks for the beginning.
LEMMA BeginKeepsData ==
  ASSUME Inv, DataInv, NEW sent \in BOOLEAN, Begin(sent)
  PROVE  DataInv'
  <1> DEFINE op == FirstOp(Doing)  n == IF op = "group" THEN 1 ELSE 0
  <1>1. /\ pc = "send" /\ UNCHANGED <<acl, buffer, mtu, peerMtu, size, readOk, cache>>
        /\ op = "smp" \/ ~unavailable
        /\ unavailable' = (unavailable \/ op # "smp")
        /\ Post(op, n, sent) /\ value' = NoRead /\ walked' = 0
    BY DEF Begin, BearerRefuses, pumpVars
  <1>2. StaysOn \/ Advanced
    BY RequestBegun
  <1>3. \E r : (inbox' = inbox \/ inbox' = Append(inbox, r)) /\ r.op = op /\ r.n = n
    BY <1>1 DEF Post
  <1>4. PICK r : (inbox' = inbox \/ inbox' = Append(inbox, r)) /\ r.op = op /\ r.n = n
    BY <1>3
  <1>5. NoRead.got = 0 /\ NoRead \in [got : Nat, last : Nat, moved : BOOLEAN]
    BY DEF NoRead
  <1>6. IsSequence(inbox)
    BY DEF Inv, Parts
  <1> HIDE DEF n
  <1>7. \A i \in DOMAIN inbox' : \/ i \in DOMAIN inbox /\ inbox'[i] = inbox[i]
                                 \/ inbox'[i] = r
    BY <1>4, <1>6, Longer
  <1>8. CASE op # "smp"
    <2>1. Quiet /\ \A i \in DOMAIN inbox : ~Numbered(inbox[i])
      BY <1>1, <1>8 DEF Inv, InTurn
    <2>2. request' = op
      BY <1>1, <1>8 DEF Post
    <2> HIDE DEF op
    <2>4. mtu = peerMtu
      BY <1>1, <1>8 DEF DataInv, SameMtu, Spent
    <2>5. Counters'
      BY <1>1, <1>5, LinkAssumption DEF DataInv, Counters
    <2>6. SameMtu'
      BY <1>1, <2>1, <2>4 DEF DataInv, SameMtu
    <2>7. Follows(r)'
      BY <1>1, <1>4, <1>5, <2>2 DEF Follows, Walking, Reading, n
    <2>8. Content'
      <3>1. \A i \in DOMAIN inbox' : Numbered(inbox'[i]) => Follows(inbox[i])'
        BY <1>7, <2>1, <2>7
      <3>2. QED BY <1>1, <2>1, <3>1 DEF Quiet, Content
    <2>9. QED BY <2>5, <2>6, <2>8 DEF DataInv
  <1>9. CASE op = "smp"
    <2>1. UNCHANGED request /\ ~Numbered(r)
      BY <1>1, <1>4, <1>9 DEF Post, Numbered
    <2>2. ~Busy'
      BY <1>2, <1>9, SameOperation DEF OnBearer, StaysOn, Advanced, Busy
    <2> HIDE DEF op
    <2>3. unavailable' <=> unavailable
      BY <1>1, <1>9
    <2>11. Spent => Spent'
      BY <1>1, <2>2, <2>3 DEF Spent
    <2>4. Counters'
      BY <1>1, <1>5, <2>2, LinkAssumption DEF DataInv, Counters, Reading
    <2>5. \A i \in DOMAIN inbox' : Numbered(inbox'[i]) => i \in DOMAIN inbox /\ inbox'[i] = inbox[i]
      BY <1>7, <2>1
    <2>6. SameMtu'
      BY <1>1, <2>1, <2>3, <2>5, <2>11 DEF DataInv, SameMtu
    <2>7. \A f : Meets(f) => Meets(f)'
      BY <1>1, <2>1, <2>2, <2>11 DEF Meets, Walking, Reading
    <2>8. \A q : Follows(q) => Follows(q)'
      BY <2>1, <2>2 DEF Follows, Walking, Reading
    <2>9. Content'
      <3>1. \A i \in DOMAIN inbox' : Numbered(inbox'[i]) => Follows(inbox[i])'
        BY <2>5, <2>8 DEF DataInv, Content
      <3>2. \A i \in DOMAIN acl' : OfResponse(acl'[i]) => Meets(acl[i].frame)'
        BY <1>1, <2>7 DEF DataInv, Content
      <3>3. \A i \in DOMAIN buffer' : Meets(buffer[i].frame)'
        BY <1>1, <2>7 DEF DataInv, Content
      <3>4. QED BY <3>1, <3>2, <3>3 DEF Content
    <2>10. QED BY <2>4, <2>6, <2>9 DEF DataInv
  <1>10. QED BY <1>8, <1>9

LEMMA NewConnectionKeepsData ==
  ASSUME DataInv, Reconnect
  PROVE  DataInv'
  <1>1. /\ acl' = <<>> /\ inbox' = <<>> /\ buffer' = <<>> /\ ~Busy'
        /\ mtu' = SmallMtu /\ peerMtu' = SmallMtu /\ walked' = 0 /\ cache' = -1
        /\ value' = NoRead /\ UNCHANGED <<size, readOk>>
    BY DEF Reconnect, Silence, LinkNew, Busy
  <1>2. NoRead \in [got : Nat, last : Nat, moved : BOOLEAN]
    BY DEF NoRead
  <1>3. Counters'
    BY <1>1, <1>2, LinkAssumption DEF DataInv, Counters, Reading
  <1>4. SameMtu' /\ Content'
    BY <1>1, EmptyIsSequence DEF SameMtu, Content
  <1>5. QED BY <1>3, <1>4 DEF DataInv

LEMMA PacketKeepsData ==
  ASSUME Inv, DataInv, PeerSpeaks
  PROVE  DataInv'
  <1>1. PICK frame : GrownBy(frame) /\ frame.k \in Asked \cup {"note"} /\ frame.n = BigMtu
    BY PeerPacket
  <1>2. UNCHANGED <<dataVars, buffer, inbox, pc, script, step, told>>
    BY DEF PeerSpeaks, dataVars, callVars, bearerVars, readVars
  <1>3. Busy' => Busy
    BY <1>2, SameOperation DEF Busy
  <1>10. Spent => Spent'
    BY <1>2, <1>3, StillSpent DEF dataVars, GivenUp
  <1>4. \A i \in DOMAIN acl' : \/ i \in DOMAIN acl /\ acl'[i] = acl[i]
                               \/ acl'[i].frame = frame
                               \/ ~acl'[i].own
    BY <1>1 DEF GrownBy
  <1>5. \A i \in DOMAIN acl' : OfResponse(acl'[i]) => i \in DOMAIN acl /\ acl'[i] = acl[i]
    BY <1>1, <1>4 DEF OfResponse, Asked
  <1>6. Counters'
    BY <1>2, <1>3, StillCounted DEF DataInv, dataVars
  <1>7. SameMtu'
    BY <1>1, <1>2, <1>4, <1>10 DEF DataInv, SameMtu, dataVars
  <1>8. Content'
    <2>1. \A f : Meets(f) => Meets(f)'
      BY <1>2, <1>3, <1>10, StillMeets DEF dataVars
    <2>2. \A r : Follows(r) => Follows(r)'
      BY <1>2, <1>3, StillFollows DEF dataVars
    <2>3. \A i \in DOMAIN inbox' : Numbered(inbox'[i]) => Follows(inbox[i])'
      BY <1>2, <2>2 DEF DataInv, Content
    <2>4. \A i \in DOMAIN acl' : OfResponse(acl'[i]) => Meets(acl[i].frame)'
      BY <1>5, <2>1 DEF DataInv, Content
    <2>5. \A i \in DOMAIN buffer' : Meets(buffer[i].frame)'
      BY <1>2, <2>1 DEF DataInv, Content
    <2>6. QED BY <2>3, <2>4, <2>5 DEF Content
  <1>9. QED BY <1>6, <1>7, <1>8 DEF DataInv

\* What the answers to a request are.
LEMMA AnswerIs ==
  ASSUME NEW r, NEW a, a \in Answers(r)
  PROVE  LET room == peerMtu - 1
             rest == size' - r.n
             chunk == IF rest < room THEN rest ELSE room
         IN /\ r.op = "mtu" => IF a[1] = "ok" THEN a[2] = BigMtu ELSE a[1] = "error"
            /\ r.op = "group" => /\ a[1] = "none" => r.n > Batches
                                 /\ a[1] = "last" => r.n = Batches
                                 /\ a[1] = "more" => ~(r.n > Batches)
            /\ r.op = "read" => /\ a[1] = "ok" => a[2] = chunk
                                /\ a[1] \in {"ok", "error"}
            /\ r.op = "blob" /\ rest > 0 => a[1] = "ok" /\ a[2] = chunk
            /\ r.op = "blob" /\ ~(rest > 0) /\ a[1] = "ok" => a[2] = 0
  <1>1. CASE r.op = "mtu"
    BY <1>1 DEF Answers
  <1>2. CASE r.op = "group"
    <2>1. a \in IF r.n > Batches THEN {<<"none", 0>>}
                ELSE IF r.n = Batches THEN {<<"more", 0>>, <<"last", 0>>}
                ELSE {<<"more", 0>>, <<"error", 0>>}
      BY <1>2 DEF Answers
    <2>2. QED BY <1>2, <2>1
  <1>3. CASE r.op = "read"
    BY <1>3 DEF Answers
  <1>4. CASE r.op = "blob"
    <2> DEFINE room == peerMtu - 1
               rest == size' - r.n
               chunk == IF rest < room THEN rest ELSE room
    <2>1. a \in IF rest > 0 THEN {<<"ok", chunk>>}
                ELSE {<<"ok", 0>>, <<"offset", 0>>}
                     \cup (IF size' <= room THEN {<<"notlong", 0>>} ELSE {})
      BY <1>4 DEF Answers
    <2> HIDE DEF chunk, rest
    <2>2. CASE rest > 0
      BY <1>4, <2>1, <2>2 DEF chunk, rest
    <2>3. CASE ~(rest > 0)
      <3>1. a \in {<<"ok", 0>>, <<"offset", 0>>, <<"notlong", 0>>}
        BY <2>1, <2>3
      <3>2. a[1] = "ok" => a[2] = 0
        BY <3>1
      <3>3. QED BY <1>4, <2>3, <3>2 DEF rest
    <2>4. QED BY <2>2, <2>3
  <1>5. QED BY <1>1, <1>2, <1>3, <1>4

LEMMA AnswerKeepsData ==
  ASSUME Inv, DataInv, PeerAnswers
  PROVE  DataInv'
  <1> DEFINE r == Head(inbox)
  <1>1. /\ inbox # <<>> /\ inbox' = Tail(inbox)
        /\ UNCHANGED <<script, step, pc, request, unavailable, mtu, buffer, value, readOk,
                       walked, cache>>
        /\ size' \in CASE r.op = "read" -> 0..MaxValue
                       [] r.op \in {"blob", "smp"} -> {size}
                       [] OTHER -> {0}
        /\ \E frame, a :
              /\ GrownBy(frame) /\ a \in Answers(r)
              /\ frame.k = (IF Numbered(r) THEN "rsp" ELSE "smp")
              /\ frame.op = r.op /\ frame.res = a[1] /\ frame.n = a[2]
              /\ peerMtu' = IF r.op = "mtu" /\ a[1] = "ok" THEN a[2] ELSE peerMtu
    BY PeerFrame
  <1>2. PICK frame, a :
           /\ GrownBy(frame) /\ a \in Answers(r)
           /\ frame.k = (IF Numbered(r) THEN "rsp" ELSE "smp")
           /\ frame.op = r.op /\ frame.res = a[1] /\ frame.n = a[2]
           /\ peerMtu' = IF r.op = "mtu" /\ a[1] = "ok" THEN a[2] ELSE peerMtu
    BY <1>1
  <1>3. /\ r = inbox[1] /\ 1 \in DOMAIN inbox
        /\ \A i \in DOMAIN inbox' : i + 1 \in DOMAIN inbox /\ inbox'[i] = inbox[i + 1] /\ i + 1 # 1
    <2>1. /\ Len(inbox) \in Nat \ {0} /\ DOMAIN inbox = 1..Len(inbox) /\ Head(inbox) = inbox[1]
          /\ DOMAIN inbox' = 1..(Len(inbox) - 1)
          /\ \A i \in DOMAIN inbox' : inbox'[i] = inbox[i + 1]
      BY <1>1, Shorter DEF Inv, Parts
    <2>2. QED BY <2>1
  <1>4. LET room == peerMtu - 1
            rest == size' - r.n
            chunk == IF rest < room THEN rest ELSE room
        IN /\ r.op = "mtu" => IF a[1] = "ok" THEN a[2] = BigMtu ELSE a[1] = "error"
           /\ r.op = "group" => /\ a[1] = "none" => r.n > Batches
                                /\ a[1] = "last" => r.n = Batches
                                /\ a[1] = "more" => ~(r.n > Batches)
           /\ r.op = "read" => /\ a[1] = "ok" => a[2] = chunk
                               /\ a[1] \in {"ok", "error"}
           /\ r.op = "blob" /\ rest > 0 => a[1] = "ok" /\ a[2] = chunk
           /\ r.op = "blob" /\ ~(rest > 0) /\ a[1] = "ok" => a[2] = 0
    BY <1>2, AnswerIs
  <1>5. \A i \in DOMAIN acl' : \/ i \in DOMAIN acl /\ acl'[i] = acl[i]
                               \/ acl'[i].own /\ acl'[i].frame = frame
                               \/ ~acl'[i].own
    BY <1>2 DEF GrownBy
  <1>6. Busy' => Busy
    BY <1>1, SameOperation DEF Busy
  <1>10. Spent => Spent'
    <2>1. UNCHANGED told
      BY DEF PeerAnswers
    <2>2. QED BY <1>1, <1>6, <2>1, StillSpent DEF GivenUp
  <1> HIDE DEF r
  <1>7. CASE ~Numbered(r)
    <2>1. r.op = "smp"
      BY <1>7 DEF Numbered
    <2>2. size' = size /\ peerMtu' = peerMtu
      BY <1>1, <1>2, <2>1
    <2>3. \A i \in DOMAIN acl' : OfResponse(acl'[i]) => i \in DOMAIN acl /\ acl'[i] = acl[i]
      BY <1>2, <1>5, <1>7 DEF OfResponse
    <2>4. Counters'
      BY <1>1, <1>6, <2>2, StillCounted DEF DataInv
    <2>5. SameMtu'
      <3>1. \A i \in DOMAIN acl' :
               acl'[i].own /\ acl'[i].frame.k = "mtureq" => acl'[i].frame.n = BigMtu
        BY <1>2, <1>5, <1>7 DEF DataInv, SameMtu
      <3>2. Spent \/ ((\E i \in DOMAIN inbox' : Numbered(inbox'[i])) => mtu = peerMtu)
        BY <1>3 DEF DataInv, SameMtu
      <3>3. QED BY <1>1, <1>10, <2>2, <3>1, <3>2 DEF DataInv, SameMtu
    <2>6. Content'
      <3>1. \A f : Meets(f) => Meets(f)'
        BY <1>1, <1>6, <1>10, <2>2, StillMeets
      <3>2. \A q : Follows(q) => Follows(q)'
        BY <1>1, <1>6, StillFollows
      <3>3. \A i \in DOMAIN inbox' : Numbered(inbox'[i]) => Follows(inbox[i])'
        BY <1>3, <3>2 DEF DataInv, Content
      <3>4. \A i \in DOMAIN acl' : OfResponse(acl'[i]) => Meets(acl[i].frame)'
        BY <2>3, <3>1 DEF DataInv, Content
      <3>5. \A i \in DOMAIN buffer' : Meets(buffer[i].frame)'
        BY <1>1, <3>1 DEF DataInv, Content
      <3>6. QED BY <3>3, <3>4, <3>5 DEF Content
    <2>7. QED BY <2>4, <2>5, <2>6 DEF DataInv
  <1>8. CASE Numbered(r)
    <2>1. Quiet /\ (Spent \/ mtu = peerMtu) /\ Follows(r) /\ unavailable
      BY <1>3, <1>8 DEF Inv, OneResponse, InTurn, DataInv, SameMtu, Content
    <2>2. \A i \in DOMAIN inbox' : ~Numbered(inbox'[i])
      BY <1>3, <1>8 DEF Inv, OneResponse
    <2>3. \A i \in DOMAIN acl' : OfResponse(acl'[i]) => acl'[i].frame = frame
      BY <1>5, <2>1 DEF Quiet, OfResponse
    <2>4. buffer' = <<>>
      BY <1>1, <2>1 DEF Quiet
    <2>5. r.op = request /\ frame.op = request /\ r.op # "smp"
      BY <1>2, <1>8, <2>1 DEF Follows, Numbered
    <2>6. /\ size \in 0..MaxValue /\ value \in [got : Nat, last : Nat, moved : BOOLEAN]
          /\ walked \in 0..Batches /\ mtu \in {2, 3} /\ Batches \in Nat /\ MaxValue \in Nat
          /\ BigMtu = 3
      BY LinkAssumption DEF DataInv, Counters, SameMtu, SmallMtu, BigMtu
    <2>7. size' \in 0..MaxValue /\ (request = "blob" => size' = size)
      BY <1>1, <2>5, <2>6
    <2>8. value.got \in Nat
      BY <2>6
    <2>9. Reading => value.got <= size' /\ r.n = value.got
      <3>1. CASE request = "read"
        BY <2>1, <2>7, <3>1 DEF DataInv, Counters, Reading, Follows
      <3>2. CASE request = "blob"
        BY <2>1, <2>7, <3>2 DEF DataInv, Counters, Reading, Follows
      <3>3. QED BY <3>1, <3>2 DEF Reading
    <2>10. Counters'
      BY <1>1, <1>6, <2>7, <2>9 DEF DataInv, Counters, Reading
    <2>11. SameMtu'
      <3>1. \A i \in DOMAIN acl' :
               acl'[i].own /\ acl'[i].frame.k = "mtureq" => acl'[i].frame.n = BigMtu
        BY <1>2, <1>5, <1>8 DEF DataInv, SameMtu
      <3>2. mtu' = mtu /\ request' = request /\ unavailable'
        BY <1>1, <2>1
      <3>3. Spent \/ peerMtu' = mtu \/ (request = "mtu" /\ peerMtu' = BigMtu)
        BY <1>2, <1>4, <2>1, <2>5
      <3>4. peerMtu' \in {SmallMtu, BigMtu}
        BY <1>2, <1>4 DEF DataInv, SameMtu
      <3>5. QED BY <1>10, <2>2, <3>1, <3>2, <3>3, <3>4 DEF DataInv, SameMtu
    <2>12. Meets(frame)'
      <3>1. UNCHANGED <<request, mtu, walked, value>>
        BY <1>1
      <3>2. request = "mtu" => IF frame.res = "ok" THEN frame.n = BigMtu /\ peerMtu' = BigMtu
                               ELSE Spent \/ mtu = peerMtu'
        BY <1>2, <1>4, <2>1, <2>5
      <3>3. Walking => /\ frame.res = "none" => walked = Batches
                       /\ frame.res = "last" => walked + 1 = Batches
                       /\ frame.res = "more" => walked < Batches
        <4>1. Walking => r.n = walked + 1 /\ request = "group"
          BY <2>1 DEF Follows, Walking
        <4>2. QED BY <1>2, <1>4, <2>5, <2>6, <4>1
      <3>4. Reading => LET rest == size' - value.got
                           chunk == IF rest < mtu - 1 THEN rest ELSE mtu - 1
                       IN /\ frame.res = "ok" => frame.n \in Nat /\ value.got + frame.n <= size'
                          /\ frame.res = "ok" => frame.n = chunk
                          /\ frame.res \in {"offset", "notlong"} => value.got = size'
        <4> SUFFICES ASSUME Reading
                     PROVE  LET rest == size' - value.got
                                chunk == IF rest < mtu - 1 THEN rest ELSE mtu - 1
                            IN /\ frame.res = "ok" => frame.n \in Nat /\ value.got + frame.n <= size'
                               /\ frame.res = "ok" => frame.n = chunk
                               /\ frame.res \in {"offset", "notlong"} => value.got = size'
          OBVIOUS
        <4>1. /\ r.n = value.got /\ value.got \in Nat /\ size' \in Nat /\ value.got <= size'
              /\ peerMtu = mtu /\ mtu \in {2, 3}
          BY <2>1, <2>6, <2>7, <2>8, <2>9 DEF Spent, Reading
        <4>2. CASE request = "read"
          <5>1. frame.res = "ok" => frame.n = IF size' - value.got < mtu - 1 THEN size' - value.got
                                              ELSE mtu - 1
            BY <1>2, <1>4, <2>5, <4>1, <4>2
          <5>2. frame.res \in {"ok", "error"}
            BY <1>2, <1>4, <2>5, <4>2
          <5>3. QED BY <4>1, <5>1, <5>2
        <4>3. CASE request = "blob" /\ size' - value.got > 0
          <5>1. frame.res = "ok" /\ frame.n = IF size' - value.got < mtu - 1 THEN size' - value.got
                                              ELSE mtu - 1
            BY <1>2, <1>4, <2>5, <4>1, <4>3
          <5>2. QED BY <4>1, <5>1
        <4>4. CASE request = "blob" /\ ~(size' - value.got > 0)
          <5>1. frame.res = "ok" => frame.n = 0
            BY <1>2, <1>4, <2>5, <4>1, <4>4
          <5>2. QED BY <4>1, <4>4, <5>1
        <4>5. QED BY <4>2, <4>3, <4>4 DEF Reading
      <3>5. QED BY <1>6, <1>10, <2>5, <3>1, <3>2, <3>3, <3>4 DEF Meets, Walking, Reading, Chunk
    <2>13. Content'
      <3>1. \A i \in DOMAIN acl' : OfResponse(acl'[i]) => Meets(acl[i].frame)'
        BY <2>3, <2>12
      <3>2. QED BY <2>2, <2>4, <3>1, EmptyIsSequence DEF Content
    <2>14. QED BY <2>10, <2>11, <2>13 DEF DataInv
  <1>9. QED BY <1>7, <1>8

\* What comes after the part taken is what it was.
LEMMA Following ==
  ASSUME Inv, DataInv, acl # <<>>, acl' = Tail(acl)
  PROVE  /\ IsSequence(acl) /\ 1 \in DOMAIN acl
         /\ \A i \in DOMAIN acl' : i + 1 \in DOMAIN acl /\ acl'[i] = acl[i + 1] /\ 1 < i + 1
         /\ \A i \in DOMAIN acl' :
                acl'[i].own /\ acl'[i].frame.k = "mtureq" => acl'[i].frame.n = BigMtu
         /\ \A i \in DOMAIN acl' : OfResponse(acl'[i]) => Meets(acl'[i].frame)
  <1>1. /\ IsSequence(acl) /\ 1 \in DOMAIN acl
        /\ \A i \in DOMAIN acl' : i + 1 \in DOMAIN acl /\ acl'[i] = acl[i + 1] /\ 1 < i + 1
    <2>1. /\ IsSequence(acl) /\ Len(acl) \in Nat \ {0} /\ DOMAIN acl = 1..Len(acl)
          /\ DOMAIN acl' = 1..(Len(acl) - 1)
          /\ \A i \in DOMAIN acl' : acl'[i] = acl[i + 1]
      BY Shorter DEF Inv, Parts
    <2>2. QED BY <2>1
  <1>2. QED BY <1>1 DEF DataInv, SameMtu, Content

\* Nothing of the request's changes: a part that ends no frame, or a frame that
\* is none of its answer and does not touch the MTU.
LEMMA PassedBy ==
  ASSUME Inv, DataInv, acl # <<>>, acl' = Tail(acl), UNCHANGED <<dataVars, inbox>>,
         Busy' => Busy, GivenUp => GivenUp',
         buffer' \in {buffer, <<>>} \/ (buffer' = <<acl[1]>> /\ OfResponse(acl[1]))
  PROVE  DataInv'
  <1>0. Spent => Spent'
    BY StillSpent DEF dataVars
  <1>1. /\ 1 \in DOMAIN acl
        /\ \A i \in DOMAIN acl' :
               acl'[i].own /\ acl'[i].frame.k = "mtureq" => acl'[i].frame.n = BigMtu
        /\ \A i \in DOMAIN acl' : OfResponse(acl'[i]) => Meets(acl'[i].frame)
    BY Following
  <1>2. Counters'
    BY StillCounted DEF DataInv, dataVars
  <1>3. SameMtu'
    BY <1>0, <1>1 DEF DataInv, SameMtu, dataVars
  <1>4. Content'
    <2>1. \A f : Meets(f) => Meets(f)'
      BY <1>0, StillMeets DEF dataVars
    <2>2. \A r : Follows(r) => Follows(r)'
      BY StillFollows DEF dataVars
    <2>3. \A i \in DOMAIN inbox' : Numbered(inbox'[i]) => Follows(inbox[i])'
      BY <2>2 DEF DataInv, Content
    <2>4. \A i \in DOMAIN acl' : OfResponse(acl'[i]) => Meets(acl[i].frame)'
      BY <1>1, <2>1
    <2>5. \A i \in DOMAIN buffer' : Meets(buffer'[i].frame)
      <3>1. CASE buffer' \in {buffer, <<>>}
        BY <3>1, EmptyIsSequence DEF DataInv, Content
      <3>2. CASE buffer' = <<acl[1]>> /\ OfResponse(acl[1])
        <4>1. \A i \in DOMAIN buffer' : buffer'[i] = acl[1]
          BY <3>2
        <4>2. Meets(acl[1].frame)
          BY <1>1, <3>2 DEF DataInv, Content
        <4>3. QED BY <4>1, <4>2
      <3>3. QED BY <3>1, <3>2
    <2>6. \A i \in DOMAIN buffer' : Meets(buffer[i].frame)'
      BY <2>1, <2>5
    <2>7. QED BY <2>3, <2>4, <2>6 DEF Content
  <1>5. QED BY <1>2, <1>3, <1>4 DEF DataInv

\* The peer's own MTU exchange, in the middle of whatever is out.
LEMMA MtuMoves ==
  ASSUME Inv, DataInv, acl # <<>>, acl' = Tail(acl), buffer' = <<>>,
         UNCHANGED <<request, walked, cache, size, readOk, unavailable, inbox>>, Busy' => Busy,
         mtu' = BigMtu, peerMtu' = BigMtu,
         value' = IF BigMtu # mtu THEN [value EXCEPT !.moved = TRUE] ELSE value
  PROVE  DataInv'
  <1>1. /\ \A i \in DOMAIN acl' :
               acl'[i].own /\ acl'[i].frame.k = "mtureq" => acl'[i].frame.n = BigMtu
        /\ \A i \in DOMAIN acl' : OfResponse(acl'[i]) => Meets(acl'[i].frame)
    BY Following
  <1>2. value \in [got : Nat, last : Nat, moved : BOOLEAN]
    BY DEF DataInv, Counters
  <1>3. /\ value' \in [got : Nat, last : Nat, moved : BOOLEAN]
        /\ value'.got = value.got
        /\ ~value'.moved => mtu = BigMtu /\ ~value.moved
    <2>1. CASE BigMtu # mtu
      <3>1. value' = [value EXCEPT !.moved = TRUE]
        BY <2>1
      <3>2. QED BY <1>2, <3>1
    <2>2. CASE BigMtu = mtu
      BY <1>2, <2>2
    <2>3. QED BY <2>1, <2>2
  <1>4. Counters'
    BY <1>3 DEF DataInv, Counters, Reading
  <1>5. SameMtu'
    BY <1>1 DEF SameMtu
  <1>6. Content'
    <2>1. ASSUME NEW f, Meets(f)
          PROVE  Meets(f)'
      <3>1. request = "mtu" /\ f.res = "ok" => f.n = BigMtu
        BY <2>1 DEF Meets
      <3>2. Walking' => Walking
        BY DEF Walking
      <3>3. Reading' => Reading
        BY DEF Reading
      <3>4. Reading' /\ f.res = "ok" /\ ~value'.moved => f.n = Chunk'
        BY <1>3, <2>1, <3>3 DEF Meets, Chunk
      <3>5. Reading' => /\ f.res = "ok" => f.n \in Nat /\ value'.got + f.n <= size'
                        /\ f.res \in {"offset", "notlong"} => value'.got = size'
        BY <1>3, <2>1, <3>3 DEF Meets
      <3>6. QED BY <2>1, <3>1, <3>2, <3>4, <3>5 DEF Meets
    <2>2. \A q : Follows(q) => Follows(q)'
      BY <1>3 DEF Follows, Walking, Reading
    <2>3. \A i \in DOMAIN inbox' : Numbered(inbox'[i]) => Follows(inbox[i])'
      BY <2>2 DEF DataInv, Content
    <2>4. \A i \in DOMAIN acl' : OfResponse(acl'[i]) => Meets(acl[i].frame)'
      BY <1>1, <2>1
    <2>5. QED BY <2>3, <2>4, EmptyIsSequence DEF Content
  <1>7. QED BY <1>4, <1>5, <1>6 DEF DataInv

\* An answer to the peer could not be sent, and with it the connection is spent.
LEMMA NothingFollows ==
  ASSUME Inv, DataInv, acl # <<>>, acl' = Tail(acl), buffer' = <<>>, ~Busy', Spent',
         UNCHANGED <<request, peerMtu, walked, cache, size, readOk, inbox>>,
         mtu' \in {SmallMtu, BigMtu}, value' \in [got : Nat, last : Nat, moved : BOOLEAN]
  PROVE  DataInv'
  <1>1. /\ \A i \in DOMAIN acl' :
               acl'[i].own /\ acl'[i].frame.k = "mtureq" => acl'[i].frame.n = BigMtu
        /\ \A i \in DOMAIN acl' : OfResponse(acl'[i]) => Meets(acl'[i].frame)
    BY Following
  <1>2. Counters'
    BY DEF DataInv, Counters, Reading
  <1>3. SameMtu'
    BY <1>1 DEF DataInv, SameMtu
  <1>4. Content'
    <2>1. \A f : Meets(f) => Meets(f)'
      BY DEF Meets, Walking, Reading
    <2>2. \A q : Follows(q) => Follows(q)'
      BY DEF Follows, Walking, Reading
    <2>3. \A i \in DOMAIN inbox' : Numbered(inbox'[i]) => Follows(inbox[i])'
      BY <2>2 DEF DataInv, Content
    <2>4. \A i \in DOMAIN acl' : OfResponse(acl'[i]) => Meets(acl[i].frame)'
      BY <1>1, <2>1
    <2>5. QED BY <2>3, <2>4, EmptyIsSequence DEF Content
  <1>5. QED BY <1>2, <1>3, <1>4 DEF DataInv

\* What fails in a pairing makes the session disconnect.
LEMMA PairingGivenUp ==
  ASSUME Running, pc = "take", ~OnBearer, Advance(FALSE)
  PROVE  GivenUp'
  <1>1. step \in 1..Len(Script(script))
    BY DEF Running
  <1>2. CASE script = "pair"
    <2>1. Script(script) = PairScript
      BY <1>2 DEF Script
    <2>2. Len(PairScript) = 2
      BY DEF PairScript
    <2>3. step \in 1..2
      BY <1>1, <2>1, <2>2
    <2>4. PairScript[step].must = TRUE
      BY <2>3 DEF PairScript, S
    <2>5. QED BY <2>1, <2>4 DEF Advance, GivenUp
  <1>3. CASE script # "pair"
    <2>1. FirstOp(Doing) # "smp"
      <3>1. CASE script = "capabilities"
        <4>1. Script(script) = CapabilitiesScript /\ Len(CapabilitiesScript) = 5
          BY <3>1 DEF Script, CapabilitiesScript
        <4>2. step \in 1..5
          BY <1>1, <4>1
        <4>3. CapabilitiesScript[step].do \in {"mtu", "list", "contexts", "read", "volume"}
          BY <4>2 DEF CapabilitiesScript, S
        <4>4. QED BY <4>1, <4>3 DEF FirstOp, Doing, Subscription
      <3>2. CASE script # "capabilities"
        <4>1. Script(script) = PlayScript /\ Len(PlayScript) = 3
          BY <1>3, <3>2 DEF Script, PlayScript
        <4>2. step \in 1..3
          BY <1>1, <4>1
        <4>3. PlayScript[step].do \in {"list", "ascs", "write"}
          BY <4>2 DEF PlayScript, S
        <4>4. QED BY <4>1, <4>3 DEF FirstOp, Doing, Subscription
      <3>3. QED BY <3>1, <3>2
    <2>2. QED BY <2>1 DEF OnBearer
  <1>4. QED BY <1>2, <1>3

\* The answer ends the operation.
Finished(ok) ==
    /\ Done(ok) /\ UNCHANGED inbox

LEMMA ReadTaken ==
  ASSUME NEW f, ReadResponse(f), f.res = "ok" => f.n \in Nat,
         value \in [got : Nat, last : Nat, moved : BOOLEAN]
  PROVE  /\ UNCHANGED <<walked, cache, mtu>>
         /\ \/ /\ f.res = "ok" /\ UNCHANGED readOk
               /\ value' \in [got : Nat, last : Nat, moved : BOOLEAN]
               /\ value'.got = value.got + f.n /\ GoesOn("blob", value'.got)
            \/ /\ f.res = "ok" /\ ~(FullChunk(f.n) /\ value.got + f.n < MaxValue)
               /\ value' = NoRead /\ (\E ok : Finished(ok))
               /\ readOk /\ (value.moved \/ value.got + f.n = size) => readOk'
            \/ /\ f.res \in {"offset", "notlong"} /\ value' = NoRead /\ (\E ok : Finished(ok))
               /\ readOk /\ (value.moved \/ value.got = size) => readOk'
            \/ value' = NoRead /\ (\E ok : Finished(ok)) /\ UNCHANGED readOk
  <1> DEFINE got == value.got + f.n
             v == [value EXCEPT !.got = got, !.last = f.n]
  <1>1. f.res = "ok" => v.got = got /\ v.moved = value.moved
                        /\ v \in [got : Nat, last : Nat, moved : BOOLEAN]
    <2>1. ASSUME NEW g \in Nat, NEW m \in Nat
          PROVE  LET w == [value EXCEPT !.got = g, !.last = m]
                 IN  w.got = g /\ w.moved = value.moved /\ w \in [got : Nat, last : Nat, moved : BOOLEAN]
      OBVIOUS
    <2>2. f.res = "ok" => got \in Nat /\ f.n \in Nat
      OBVIOUS
    <2> HIDE DEF got
    <2>3. QED BY <2>1, <2>2
  <1>2. UNCHANGED <<walked, cache, mtu>>
    BY DEF ReadResponse
  <1>3. CASE f.res = "ok" /\ FullChunk(f.n) /\ got < MaxValue
    <2>1. value' = v /\ GoesOn("blob", got) /\ UNCHANGED readOk
      BY <1>3 DEF ReadResponse
    <2> HIDE DEF v
    <2>2. QED BY <1>1, <1>2, <1>3, <2>1
  <1>4. CASE f.res = "ok" /\ ~(FullChunk(f.n) /\ got < MaxValue)
    <2>1. /\ value' = NoRead /\ Done(got <= MaxValue) /\ UNCHANGED inbox
          /\ readOk' = (got > MaxValue \/ (readOk /\ (v.moved \/ v.got = size)))
      BY <1>4 DEF ReadResponse
    <2>2. \E ok : Finished(ok)
      BY <2>1 DEF Finished
    <2> HIDE DEF v
    <2>3. readOk /\ (value.moved \/ got = size) => readOk'
      BY <1>1, <1>4, <2>1
    <2>4. QED BY <1>2, <1>4, <2>1, <2>2, <2>3
  <1>5. CASE f.res # "ok" /\ request = "blob" /\ (f.res = "offset" \/ (f.res = "notlong" /\ value.got = value.last))
    <2>1. /\ value' = NoRead /\ Done(TRUE) /\ UNCHANGED inbox
          /\ readOk' = (readOk /\ (value.moved \/ value.got = size))
      BY <1>5 DEF ReadResponse
    <2>2. \E ok : Finished(ok)
      BY <2>1 DEF Finished
    <2>3. readOk /\ (value.moved \/ value.got = size) => readOk'
      BY <2>1
    <2>4. QED BY <1>2, <1>5, <2>1, <2>2, <2>3
  <1>6. CASE f.res # "ok" /\ ~(request = "blob" /\ (f.res = "offset" \/ (f.res = "notlong" /\ value.got = value.last)))
    <2>1. /\ value' = NoRead /\ Done(FALSE) /\ UNCHANGED <<readOk, inbox>>
      BY <1>6 DEF ReadResponse
    <2>2. \E ok : Finished(ok)
      BY <2>1 DEF Finished
    <2>3. QED BY <1>2, <2>1, <2>2
  <1>7. QED BY <1>3, <1>4, <1>5, <1>6

LEMMA FinishedIs ==
  ASSUME NEW ok, Finished(ok)
  PROVE  ~Busy' /\ ~unavailable' /\ UNCHANGED <<request, inbox>>
  <1>1. Advanced
    BY AdvanceLeaves DEF Finished, Done
  <1>2. QED BY <1>1 DEF Finished, Done, Advanced, Busy

\* The next request of the same operation, if the link still takes it.
LEMMA GoesOnIs ==
  ASSUME IsSequence(inbox), NEW op, op # "smp", NEW n, GoesOn(op, n), pc \in {"watch", "take"}
  PROVE  /\ Busy' = Busy /\ request' = op /\ UNCHANGED unavailable
         /\ \A i \in DOMAIN inbox' : \/ i \in DOMAIN inbox /\ inbox'[i] = inbox[i]
                                     \/ inbox'[i].op = op /\ inbox'[i].n = n
  <1>1. Busy' = Busy
    BY SameOperation DEF GoesOn, Busy
  <1>2. request' = op /\ UNCHANGED unavailable
    BY DEF GoesOn, Post
  <1>3. \E r : (inbox' = inbox \/ inbox' = Append(inbox, r)) /\ r.op = op /\ r.n = n
    BY DEF GoesOn, Post
  <1>4. PICK r : (inbox' = inbox \/ inbox' = Append(inbox, r)) /\ r.op = op /\ r.n = n
    BY <1>3
  <1>5. \A i \in DOMAIN inbox' : (i \in DOMAIN inbox /\ inbox'[i] = inbox[i]) \/ inbox'[i] = r
    BY <1>4, Longer
  <1>6. QED BY <1>1, <1>2, <1>4, <1>5

LEMMA ResponseKeepsData ==
  ASSUME Inv, DataInv, pc = "take", FirstOp(Doing) # "smp", NEW f, Response(f), Meets(f),
         acl # <<>>, acl' = Tail(acl), OfResponse(acl[1]), ~acl[1].start, buffer' = <<>>,
         UNCHANGED size
  PROVE  DataInv'
  <1>1. /\ 1 \in DOMAIN acl
        /\ \A i \in DOMAIN acl' : i + 1 \in DOMAIN acl /\ acl'[i] = acl[i + 1] /\ 1 < i + 1
        /\ \A i \in DOMAIN acl' :
               acl'[i].own /\ acl'[i].frame.k = "mtureq" => acl'[i].frame.n = BigMtu
    BY Following
  <1>2. \A i \in DOMAIN acl' : ~OfResponse(acl'[i])
    BY <1>1 DEF Inv, OneResponse
  <1>3. \A i \in DOMAIN inbox : ~Numbered(inbox[i])
    BY <1>1 DEF Inv, OneResponse, Quiet
  <1>4. Busy /\ unavailable /\ IsSequence(inbox)
    BY DEF Busy, OnBearer, Inv, InTurn, Parts
  <1>5. peerMtu' = peerMtu
    BY DEF Response
  <1>6. /\ size \in 0..MaxValue /\ value \in [got : Nat, last : Nat, moved : BOOLEAN]
        /\ walked \in 0..Batches /\ cache \in {-1, Batches} /\ readOk
        /\ Batches \in Nat /\ MaxValue \in Nat
    BY LinkAssumption DEF DataInv, Counters
  <1>7. NoRead.got = 0 /\ NoRead \in [got : Nat, last : Nat, moved : BOOLEAN]
    BY DEF NoRead
  <1>8. mtu \in {SmallMtu, BigMtu} /\ peerMtu \in {SmallMtu, BigMtu}
    BY DEF DataInv, SameMtu
  <1>15. ~Spent
    BY <1>4 DEF Spent
  <1>9. request # "mtu" => mtu = peerMtu
    BY <1>15 DEF DataInv, SameMtu
  <1>10. ASSUME NEW ok, Finished(ok), mtu' = peerMtu, walked' \in 0..Batches,
                cache' \in {-1, Batches}, readOk',
                value' \in [got : Nat, last : Nat, moved : BOOLEAN]
         PROVE  DataInv'
    <2>1. ~Busy' /\ ~unavailable' /\ UNCHANGED <<request, inbox>>
      BY <1>10, FinishedIs
    <2>2. Counters'
      BY <1>6, <1>10, <2>1 DEF Counters, Reading
    <2>3. SameMtu'
      BY <1>1, <1>5, <1>8, <1>10 DEF SameMtu
    <2>4. Content'
      BY <1>2, <1>3, <2>1, EmptyIsSequence DEF Content
    <2>5. QED BY <2>2, <2>3, <2>4 DEF DataInv
  <1>11. CASE request = "group"
    <2>1. ListResponse(f) /\ UNCHANGED <<value, readOk, mtu>>
      BY <1>11 DEF Response, ListResponse
    <2>2. /\ f.res = "none" => walked = Batches
          /\ f.res = "last" => walked + 1 = Batches
          /\ f.res = "more" => walked < Batches
      BY <1>4, <1>11 DEF Meets, Walking
    <2>3. mtu' = peerMtu /\ readOk'
      BY <1>6, <1>9, <1>11, <2>1
    <2>4. CASE f.res = "none"
      <3>1. Finished(TRUE) /\ cache' = walked /\ walked' = walked
        BY <2>1, <2>4 DEF ListResponse, Finished
      <3>2. QED BY <1>6, <1>10, <2>1, <2>2, <2>3, <2>4, <3>1
    <2>5. CASE f.res = "last"
      <3>1. Done(TRUE) /\ walked' = walked + 1 /\ cache' = walked + 1 /\ UNCHANGED inbox
        <4>1. f.res # "none"
          BY <2>5
        <4>2. CASE ~(Done(TRUE) /\ walked' = walked + 1 /\ cache' = walked + 1 /\ UNCHANGED inbox)
          BY <2>1, <2>5, <4>1, <4>2, Zenon DEF ListResponse
        <4>3. QED BY <4>2
      <3>2. Finished(TRUE)
        BY <3>1 DEF Finished
      <3>3. walked' \in 0..Batches /\ cache' \in {-1, Batches}
        BY <1>6, <2>2, <2>5, <3>1
      <3>4. value' \in [got : Nat, last : Nat, moved : BOOLEAN]
        BY <1>6, <2>1
      <3>5. QED BY <1>10, <2>3, <3>2, <3>3, <3>4
    <2>6. CASE f.res = "more"
      <3>1. walked' = walked + 1 /\ GoesOn("group", walked + 2) /\ UNCHANGED cache
        BY <2>1, <2>6 DEF ListResponse
      <3>2. /\ Busy' = Busy /\ request' = "group" /\ UNCHANGED unavailable
            /\ \A i \in DOMAIN inbox' : \/ i \in DOMAIN inbox /\ inbox'[i] = inbox[i]
                                        \/ inbox'[i].op = "group" /\ inbox'[i].n = walked + 2
        BY <1>4, <3>1, GoesOnIs
      <3>3. Counters'
        BY <1>6, <2>1, <2>2, <2>6, <3>1, <3>2 DEF Counters, Reading
      <3>4. SameMtu'
        BY <1>1, <1>5, <1>8, <2>3 DEF SameMtu
      <3>5. ASSUME NEW r, r.op = "group", r.n = walked + 2
            PROVE  Follows(r)'
        <4>1. walked' + 1 = walked + 2
          BY <1>6, <3>1
        <4>2. QED BY <3>2, <3>5, <4>1 DEF Follows, Walking, Reading
      <3>6. \A i \in DOMAIN inbox' : Numbered(inbox'[i]) => Follows(inbox[i])'
        BY <1>3, <3>2, <3>5
      <3>7. Content'
        BY <1>2, <3>6, EmptyIsSequence DEF Content
      <3>8. QED BY <3>3, <3>4, <3>7 DEF DataInv
    <2>7. CASE f.res \notin {"none", "last", "more"}
      <3>1. Finished(FALSE) /\ UNCHANGED <<walked, cache>>
        BY <2>1, <2>7 DEF ListResponse, Finished
      <3>2. QED BY <1>6, <1>10, <2>1, <2>3, <3>1
    <2>8. QED BY <2>4, <2>5, <2>6, <2>7
  <1>12. CASE request \in {"read", "blob"}
    <2>1. ReadResponse(f)
      BY <1>12 DEF Response
    <2>2. /\ value.got <= size
          /\ f.res = "ok" => f.n \in Nat /\ value.got + f.n <= size
          /\ f.res = "ok" /\ ~value.moved => f.n = Chunk
          /\ f.res \in {"offset", "notlong"} => value.got = size
      BY <1>4, <1>12 DEF Meets, Reading, DataInv, Counters
    <2>3. mtu' = peerMtu /\ UNCHANGED <<walked, cache, mtu>>
      BY <1>6, <1>9, <1>12, <2>1, <2>2, ReadTaken
    <2>4. value.got \in Nat /\ size \in Nat /\ mtu \in Nat
      BY <1>6, <1>8 DEF SmallMtu, BigMtu
    <2>5. CASE /\ f.res = "ok" /\ UNCHANGED readOk
               /\ value' \in [got : Nat, last : Nat, moved : BOOLEAN]
               /\ value'.got = value.got + f.n /\ GoesOn("blob", value'.got)
      <3> DEFINE n == value'.got
      <3>1. GoesOn("blob", n) /\ n \in Nat /\ n <= size
        BY <2>2, <2>4, <2>5
      <3> HIDE DEF n
      <3>2. /\ Busy' = Busy /\ request' = "blob" /\ UNCHANGED unavailable
            /\ \A i \in DOMAIN inbox' : \/ i \in DOMAIN inbox /\ inbox'[i] = inbox[i]
                                        \/ inbox'[i].op = "blob" /\ inbox'[i].n = n
        BY <1>4, <3>1, GoesOnIs
      <3>3. Counters'
        BY <1>6, <2>3, <2>5, <3>1, <3>2 DEF Counters, Reading, n
      <3>4. SameMtu'
        BY <1>1, <1>5, <1>8, <2>3 DEF SameMtu
      <3>5. \A i \in DOMAIN inbox' :
               Numbered(inbox'[i]) => inbox'[i].op = request' /\ inbox'[i].n = n
        BY <1>3, <3>2
      <3>6. \A i \in DOMAIN inbox' : Numbered(inbox'[i]) => Follows(inbox[i])'
        BY <3>2, <3>5 DEF Follows, Walking, n
      <3>7. Content'
        BY <1>2, <3>6, EmptyIsSequence DEF Content
      <3>8. QED BY <3>3, <3>4, <3>7 DEF DataInv
    <2>6. CASE /\ f.res = "ok" /\ ~(FullChunk(f.n) /\ value.got + f.n < MaxValue)
               /\ value' = NoRead /\ (\E ok : Finished(ok))
               /\ readOk /\ (value.moved \/ value.got + f.n = size) => readOk'
      <3>1. value.moved \/ value.got + f.n = size
        <4> SUFFICES ASSUME ~value.moved PROVE value.got + f.n = size
          OBVIOUS
        <4>1. f.n \in Nat /\ f.n = (IF size - value.got < mtu - 1 THEN size - value.got ELSE mtu - 1)
          BY <2>2, <2>6 DEF Chunk
        <4>2. f.n # mtu - 1 \/ ~(value.got + f.n < MaxValue)
          BY <2>6 DEF FullChunk
        <4>3. CASE f.n # mtu - 1
          BY <2>4, <4>1, <4>3
        <4>4. CASE ~(value.got + f.n < MaxValue)
          BY <1>6, <2>2, <2>4, <2>6, <4>1, <4>4
        <4>5. QED BY <4>2, <4>3, <4>4
      <3>2. readOk'
        BY <1>6, <2>6, <3>1
      <3>3. QED BY <1>6, <1>7, <1>10, <2>3, <2>6, <3>2
    <2>7. CASE /\ f.res \in {"offset", "notlong"} /\ value' = NoRead /\ (\E ok : Finished(ok))
               /\ readOk /\ (value.moved \/ value.got = size) => readOk'
      <3>1. readOk'
        BY <1>6, <2>2, <2>7
      <3>2. QED BY <1>6, <1>7, <1>10, <2>3, <2>7, <3>1
    <2>8. CASE value' = NoRead /\ (\E ok : Finished(ok)) /\ UNCHANGED readOk
      BY <1>6, <1>7, <1>10, <2>3, <2>8
    <2>9. \/ /\ f.res = "ok" /\ UNCHANGED readOk
             /\ value' \in [got : Nat, last : Nat, moved : BOOLEAN]
             /\ value'.got = value.got + f.n /\ GoesOn("blob", value'.got)
          \/ /\ f.res = "ok" /\ ~(FullChunk(f.n) /\ value.got + f.n < MaxValue)
             /\ value' = NoRead /\ (\E ok : Finished(ok))
             /\ readOk /\ (value.moved \/ value.got + f.n = size) => readOk'
          \/ /\ f.res \in {"offset", "notlong"} /\ value' = NoRead /\ (\E ok : Finished(ok))
             /\ readOk /\ (value.moved \/ value.got = size) => readOk'
          \/ value' = NoRead /\ (\E ok : Finished(ok)) /\ UNCHANGED readOk
      BY <1>6, <2>1, <2>2, ReadTaken
    <2>10. QED BY <2>5, <2>6, <2>7, <2>8, <2>9
  <1>13. CASE request \notin {"group", "read", "blob"}
    <2>1. /\ Finished(f.res = "ok") /\ UNCHANGED <<value, readOk, walked, cache>>
          /\ mtu' = IF request = "mtu" /\ f.res = "ok" THEN f.n ELSE mtu
      BY <1>13 DEF Response, ShortResponse, Finished
    <2>2. mtu' = peerMtu
      BY <1>9, <1>15, <2>1 DEF Meets
    <2>3. QED BY <1>6, <1>10, <2>1, <2>2
  <1>14. QED BY <1>11, <1>12, <1>13

LEMMA TakeKeepsData ==
  ASSUME Inv, SameFrame, DataInv, Running, Take
  PROVE  DataInv'
  <1>1. /\ pc = "take" /\ acl # <<>> /\ acl' = Tail(acl) /\ UNCHANGED <<conn, size>>
        /\ Waits \/ Alone \/ Second
    BY PartTaken
  <1>2. /\ 1 \in DOMAIN acl
        /\ \A i \in DOMAIN acl : acl[i].own /\ acl[i].frame.k = "mtureq" => acl[i].frame.n = BigMtu
        /\ \A i \in DOMAIN acl : acl[i].own => acl[i].frame.conn = conn
    BY <1>1, Following DEF DataInv, SameMtu, SameFrame
  <1>3. Ignored => /\ UNCHANGED <<request, unavailable, readOk, walked, cache>>
                   /\ Busy' => Busy
    BY <1>1, SameOperation DEF Ignored, Busy
  <1>4. ASSUME NEW f, Reply(f), f.k # "mtureq"
        PROVE  Ignored /\ UNCHANGED <<mtu, value, peerMtu>>
    BY <1>4 DEF Reply, TakesMtu
  <1>9. ~GivenUp
    BY <1>1 DEF GivenUp
  <1>5. CASE Waits
    BY <1>1, <1>3, <1>5, <1>9, PassedBy DEF Waits, dataVars
  <1>6. CASE Alone
    <2> DEFINE f == acl[1].frame
    <2>1. acl[1].own /\ buffer' = <<>> /\ f.conn = conn /\ (f.k = "mtureq" => f.n = BigMtu)
      BY <1>2, <1>6 DEF Alone
    <2>2. CASE SmpFrame(f)
      <3>1. Advanced
        BY <2>2, AdvanceLeaves DEF SmpFrame
      <3>2. ~Busy'
        BY <3>1 DEF Advanced, Busy
      <3>3. UNCHANGED <<dataVars, inbox>>
        BY <1>1, <2>2 DEF SmpFrame, bearerVars, dataVars
      <3>4. QED BY <1>1, <1>9, <2>1, <3>2, <3>3, PassedBy
    <2>3. CASE Reply(f) /\ UNCHANGED inbox /\ f.k # "mtureq"
      <3>1. Ignored /\ UNCHANGED <<mtu, value, peerMtu>>
        BY <1>4, <2>3
      <3>2. UNCHANGED <<dataVars, inbox>>
        BY <1>1, <1>3, <2>3, <3>1 DEF dataVars
      <3>3. QED BY <1>1, <1>3, <1>9, <2>1, <3>1, <3>2, PassedBy
    <2>4. CASE Reply(f) /\ UNCHANGED inbox /\ f.k = "mtureq"
      <3>1. /\ Ignored /\ mtu' = BigMtu /\ peerMtu' = BigMtu
            /\ value' = IF BigMtu # mtu THEN [value EXCEPT !.moved = TRUE] ELSE value
        BY <2>1, <2>4 DEF Reply, TakesMtu
      <3>2. QED BY <1>1, <1>3, <2>1, <2>4, <3>1, MtuMoves
    <2>5. CASE ReplyFails(f) /\ UNCHANGED inbox
      <3>1. /\ Advance(FALSE) /\ TakesMtu(f)
            /\ UNCHANGED <<peerMtu, request, unavailable, readOk, walked, cache>>
        BY <2>5 DEF ReplyFails, bearerVars
      <3>2. ~Busy'
        BY <3>1, AdvanceLeaves DEF Advanced, Busy
      <3>3. Spent'
        <4>1. CASE OnBearer
          BY <1>1, <3>1, <3>2, <4>1 DEF Spent, Inv, InTurn, Busy
        <4>2. CASE ~OnBearer
          BY <1>1, <3>1, <3>2, <4>2, PairingGivenUp DEF Spent, GivenUp
        <4>3. QED BY <4>1, <4>2
      <3>4. /\ mtu \in {SmallMtu, BigMtu}
            /\ value \in [got : Nat, last : Nat, moved : BOOLEAN]
        BY DEF DataInv, SameMtu, Counters
      <3>5. mtu' \in {SmallMtu, BigMtu}
        BY <2>1, <3>1, <3>4 DEF TakesMtu
      <3>6. value' \in [got : Nat, last : Nat, moved : BOOLEAN]
        <4>1. [value EXCEPT !.moved = TRUE] \in [got : Nat, last : Nat, moved : BOOLEAN]
          BY <3>4
        <4>2. QED BY <3>1, <3>4, <4>1 DEF TakesMtu
      <3>7. QED BY <1>1, <2>1, <2>5, <3>1, <3>2, <3>3, <3>5, <3>6, NothingFollows
    <2>6. QED BY <1>6, <2>2, <2>3, <2>4, <2>5 DEF Alone
  <1>7. CASE Second
    <2> DEFINE f == buffer[1].frame
    <2>1. Meets(f)
      BY <1>7 DEF Second, DataInv, Content
    <2>2. CASE FirstOp(Doing) # "smp" /\ Response(f)
      <3> HIDE DEF f
      <3>1. QED BY <1>1, <1>7, <2>1, <2>2, ResponseKeepsData DEF Second
    <2>3. CASE Reply(f) /\ UNCHANGED inbox
      <3>1. Ignored /\ UNCHANGED <<mtu, value, peerMtu>>
        BY <1>4, <1>7, <2>3 DEF Second
      <3>2. UNCHANGED <<dataVars, inbox>>
        BY <1>1, <1>3, <2>3, <3>1 DEF dataVars
      <3>3. QED BY <1>1, <1>3, <1>7, <1>9, <2>3, <3>1, <3>2, PassedBy DEF Second
    <2>4. ~ReplyFails(f)
      BY <1>7 DEF Second, ReplyFails, Asked
    <2>5. QED BY <1>7, <2>2, <2>3, <2>4 DEF Second
  <1>8. QED BY <1>1, <1>5, <1>6, <1>7

\* The caller does not leave its script but by ending it.
LEMMA AdvanceRuns ==
  ASSUME Running, pc # "idle", NEW ok, Advance(ok)
  PROVE  Running'
  <1>1. step \in 1..Len(Script(script))
    BY DEF Running
  <1>2. Len(Script(script)) \in Nat
    BY LenProperties DEF Script, PairScript, CapabilitiesScript, PlayScript
  <1>3. CASE pc' = "idle"
    BY <1>3 DEF Running
  <1>4. CASE pc' # "idle"
    <2>1. step' = step + 1 /\ script' = script /\ step < Len(Script(script))
      BY <1>4 DEF Advance
    <2>2. QED BY <1>1, <1>2, <2>1 DEF Running
  <1>5. QED BY <1>3, <1>4

LEMMA RunningPreserved == Running /\ [Next]_vars => Running'
  <1> SUFFICES ASSUME Running, [Next]_vars PROVE Running'
    OBVIOUS
  <1>1. CASE Call
    <2>1. pc' = "send" /\ step' = 1
      BY <1>1 DEF Call
    <2>2. \A name : Len(Script(name)) \in {2, 3, 5}
      BY DEF Script, PairScript, CapabilitiesScript, PlayScript
    <2>3. QED BY <2>1, <2>2 DEF Running
  <1>2. ASSUME pc # "idle", \/ \E ok : Advance(ok)
                            \/ UNCHANGED <<script, step>>
        PROVE  Running'
    BY <1>2, AdvanceRuns DEF Running
  <1>3. CASE (\E sent \in BOOLEAN : Begin(sent)) \/ NoSend \/ NotOffered \/ Watch
             \/ TimesOut \/ PollsAgain
    BY <1>2, <1>3 DEF Begin, NoSend, NotOffered, Watch, TimesOut, PollsAgain
  <1>4. CASE Take
    <2> DEFINE b == Push(Head(acl))  f == b[1].frame
    <2>1. pc = "take" /\ (Ignored \/ SmpFrame(f) \/ Response(f) \/ ReplyFails(f))
      BY <1>4, Zenon DEF Take, Reply
    <2>2. CASE Ignored
      BY <1>2, <2>1, <2>2 DEF Ignored
    <2>3. CASE SmpFrame(f) \/ ReplyFails(f)
      BY <1>2, <2>1, <2>3 DEF SmpFrame, ReplyFails
    <2>4. CASE Response(f)
      BY <1>2, <2>1, <2>4 DEF Response, ListResponse, ReadResponse, ShortResponse, Done, GoesOn
    <2>5. QED BY <2>1, <2>2, <2>3, <2>4
  <1>5. CASE PeerAnswers \/ PeerSpeaks \/ EventArrives \/ PumpDies \/ SessionTakes
             \/ Reconnect \/ UNCHANGED vars
    BY <1>5 DEF PeerAnswers, PeerSpeaks, EventArrives, PumpDies, SessionTakes, Reconnect,
                Rest, vars, callVars, Running
  <1>6. QED BY <1>1, <1>3, <1>4, <1>5 DEF Next

LEMMA DataInitially == Init => DataInv
  <1> SUFFICES ASSUME Init PROVE DataInv
    OBVIOUS
  <1>1. /\ acl = <<>> /\ buffer = <<>> /\ inbox = <<>> /\ pc = "idle" /\ request = "none"
        /\ mtu = SmallMtu /\ peerMtu = SmallMtu /\ size = 0 /\ walked = 0 /\ cache = -1
        /\ value = NoRead /\ readOk
    BY DEF Init, PumpInit
  <1>2. NoRead \in [got : Nat, last : Nat, moved : BOOLEAN]
    BY DEF NoRead
  <1>3. Counters
    BY <1>1, <1>2, LinkAssumption DEF Counters, Reading
  <1>4. SameMtu /\ Content
    BY <1>1, EmptyIsSequence DEF SameMtu, Content
  <1>5. QED BY <1>3, <1>4 DEF DataInv

LEMMA DataPreserved == Inv /\ SameFrame /\ DataInv /\ Running /\ [Next]_vars => DataInv'
  <1> SUFFICES ASSUME Inv, SameFrame, DataInv, Running, [Next]_vars PROVE DataInv'
    OBVIOUS
  <1>1. CASE Call \/ NoSend \/ NotOffered \/ Watch \/ TimesOut \/ PollsAgain
    <2>1. Moves
      BY <1>1, CallerMoves
    <2>2. UNCHANGED <<dataVars, acl, buffer, inbox>>
      BY <1>1 DEF Call, NoSend, NotOffered, Watch, TimesOut, PollsAgain, pumpVars, peerVars, bearerVars,
                  readVars, dataVars
    <2>3. GivenUp => GivenUp'
      BY <1>1, Forgets DEF GivenUp, Call, NoSend, NotOffered, Watch, TimesOut, PollsAgain
    <2>4. QED BY <2>1, <2>2, <2>3, StillBusy, Untouched
  <1>2. CASE EventArrives \/ PumpDies \/ SessionTakes \/ UNCHANGED vars
    <2>1. Moves
      BY <1>2, WorldMoves
    <2>2. UNCHANGED <<dataVars, acl, buffer, inbox>>
      BY <1>2 DEF EventArrives, PumpDies, SessionTakes, Rest, vars, pumpVars, peerVars,
                  bearerVars, readVars, dataVars
    <2>3. GivenUp => GivenUp'
      BY <1>2 DEF GivenUp, EventArrives, PumpDies, SessionTakes, Rest, vars
    <2>4. QED BY <2>1, <2>2, <2>3, StillBusy, Untouched
  <1>3. QED
    BY <1>1, <1>2, BeginKeepsData, AnswerKeepsData, PacketKeepsData, TakeKeepsData,
       NewConnectionKeepsData DEF Next

\* What is put together is whole: a frame of its own fragments (AclReassembler), a
\* value of all its chunks unless the peer changed the MTU in the middle
\* (read_attribute_value), a cached discovery of all its batches (services_cache).
THEOREM DataAlwaysWhole == Spec => []DataWhole
  <1>1. SameFrame /\ DataInv => DataWhole
    BY DEF SameFrame, DataInv, Counters, DataWhole, FramesWhole, ReadWhole, CacheWhole
  <1>2. Init => Running
    BY DEF Init, Running
  <1>3. QED
    BY <1>1, <1>2, LinkInitially, LinkPreserved, FramesInitially, FramesPreserved,
       DataInitially, DataPreserved, RunningPreserved, PTL DEF Spec

=============================================================================
