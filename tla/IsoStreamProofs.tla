-------------------------- MODULE IsoStreamProofs --------------------------
(***************************************************************************)
(* Proofs about the credits (IsoCredits), by themselves and for any caller,*)
(* and about IsoStream: what the playback loop keeps true of credits,      *)
(* accounts, sequence numbers and deadlines, for every capacity, depth,    *)
(* interval and width of the sequence numbers, and any number of groups.   *)
(***************************************************************************)
EXTENDS IsoStream, SequenceTheorems, FiniteSetTheorems, TLAPS
-----------------------------------------------------------------------------
(* The credits.                                                            *)

(***************************************************************************)
(* reserve_frame takes exactly one buffer per channel it is given: an      *)
(* admitted frame raises the outstanding total by its length, and leaves   *)
(* every counter within the depth.                                         *)
(***************************************************************************)
LEMMA ReserveCounts ==
  ASSUME TypeOK, NEW frame \in Frames, Reserve(frame)
  PROVE  /\ outstanding' \in [Handles -> 0..Depth]
         /\ available' \in 0..Capacity
         /\ Total(outstanding') = Total(outstanding) + Len(frame)
         /\ available' = available - Len(frame)
  <1> USE StreamsAssumption, BuffersAssumption
  <1>1. PICK n \in 0..(Streams + 1) : frame \in [1..n -> AnyHandle]
    BY DEF Frames
  <1>2. n \in Nat /\ Len(frame) = n /\ DOMAIN frame = 1..n
    BY <1>1, SMT
  <1>3. /\ n > 0 /\ n <= available
        /\ \A i, j \in 1..n : frame[i] = frame[j] => i = j
        /\ \A i \in 1..n : frame[i] \in Handles /\ outstanding[frame[i]] < Depth
    BY <1>2 DEF Reserve, Admissible, Distinct
  <1>4. \A h \in Handles : outstanding[h] \in 0..Depth
    BY DEF TypeOK
  <1>5. available \in 0..Capacity
    BY DEF TypeOK
  <1>6. /\ outstanding' = [h \in Handles |->
              outstanding[h] + IF \E i \in 1..n : frame[i] = h THEN 1 ELSE 0]
        /\ available' = available - n
    BY <1>2 DEF Reserve, OneMore
  <1>7. \A h \in Handles : outstanding'[h] \in 0..Depth
    BY <1>3, <1>4, <1>6
  <1>8. outstanding' \in [Handles -> 0..Depth]
    BY <1>6, <1>7
  <1>9. Total(outstanding') = Total(outstanding) + n
    <2>1. CASE Streams = 1
      <3>1. Handles = {1} /\ n \in {1, 2}
        BY <1>2, <1>3, <2>1 DEF Handles
      <3>2. n = 1
        <4>1. CASE n = 2
          <5>1. frame[1] = 1 /\ frame[2] = 1
            BY <1>3, <3>1, <4>1
          <5>2. QED BY <1>3, <4>1, <5>1
        <4>2. QED BY <3>1, <4>1
      <3>3. \E i \in 1..n : frame[i] = 1
        BY <1>3, <3>1, <3>2
      <3>4. outstanding'[1] = outstanding[1] + 1
        BY <1>6, <3>1, <3>3
      <3>5. QED BY <3>2, <3>4, <2>1 DEF Total
    <2>2. CASE Streams = 2
      <3>1. Handles = {1, 2} /\ n \in {1, 2, 3}
        BY <1>2, <1>3, <2>2 DEF Handles
      <3>2. CASE n = 1
        <4>1. outstanding'[1] = outstanding[1] + (IF frame[1] = 1 THEN 1 ELSE 0)
          BY <1>6, <3>1, <3>2
        <4>2. outstanding'[2] = outstanding[2] + (IF frame[1] = 2 THEN 1 ELSE 0)
          BY <1>6, <3>1, <3>2
        <4>3. frame[1] = 1 \/ frame[1] = 2
          BY <1>3, <3>1, <3>2
        <4>4. QED BY <4>1, <4>2, <4>3, <3>1, <3>2, <2>2, <1>4 DEF Total
      <3>3. CASE n = 2
        <4>1. frame[1] # frame[2] /\ frame[1] \in {1, 2} /\ frame[2] \in {1, 2}
          BY <1>3, <3>1, <3>3
        <4>2. outstanding'[1] = outstanding[1] + 1
          BY <1>6, <3>1, <3>3, <4>1
        <4>3. outstanding'[2] = outstanding[2] + 1
          BY <1>6, <3>1, <3>3, <4>1
        <4>4. QED BY <4>2, <4>3, <3>1, <3>3, <2>2, <1>4 DEF Total
      <3>4. CASE n = 3
        <4>1. frame[1] \in {1, 2} /\ frame[2] \in {1, 2} /\ frame[3] \in {1, 2}
          BY <1>3, <3>1, <3>4
        <4>2. frame[1] # frame[2] /\ frame[1] # frame[3] /\ frame[2] # frame[3]
          BY <1>3, <3>4
        <4>3. QED BY <4>1, <4>2
      <3>5. QED BY <3>1, <3>2, <3>3, <3>4
    <2>3. QED BY <2>1, <2>2
  <1>10. QED
    BY <1>2, <1>3, <1>5, <1>6, <1>8, <1>9

(***************************************************************************)
(* complete gives back exactly what it takes off the outstanding total, as *)
(* long as no buffer had been invented before: the cap at the capacity     *)
(* never bites.                                                            *)
(***************************************************************************)
LEMMA GiveBackCounts ==
  ASSUME TypeOK, Conservation, NEW handle \in AnyHandle, NEW count \in Nat,
         Complete(handle, count)
  PROVE  /\ outstanding' \in [Handles -> 0..Depth]
         /\ available' \in 0..Capacity
         /\ available' + Total(outstanding') = Capacity
         /\ Credited(handle, count) \in 0..Depth
  <1> USE StreamsAssumption, BuffersAssumption
  <1> DEFINE completed == Credited(handle, count)
  <1>1. \A h \in Handles : outstanding[h] \in 0..Depth
    BY DEF TypeOK
  <1>2. /\ available \in 0..Capacity
        /\ available + Total(outstanding) = Capacity
    BY DEF TypeOK, Conservation
  <1>3. CASE handle \in Handles
    <2>1. completed \in 0..outstanding[handle]
      BY <1>1, <1>3 DEF Credited, Smaller
    <2> HIDE DEF completed
    <2>2. /\ outstanding' = [h \in Handles |->
               IF h = handle THEN outstanding[h] - completed ELSE outstanding[h]]
          /\ available' = Smaller(available + completed, Capacity)
      BY <1>3 DEF Complete, completed
    <2>3. outstanding' \in [Handles -> 0..Depth]
      BY <1>1, <1>3, <2>1, <2>2
    <2>4. Total(outstanding') = Total(outstanding) - completed
      BY <1>1, <1>3, <2>1, <2>2 DEF Total, Handles
    <2>5. Total(outstanding) - completed >= 0
      BY <1>1, <1>3, <2>1 DEF Total, Handles
    <2>6. Total(outstanding) \in Int
      BY <1>1 DEF Total, Handles
    <2>7. completed \in 0..Depth
      BY <1>1, <1>3, <2>1
    <2>8. available' = available + completed
      BY <1>2, <2>1, <2>2, <2>5, <2>6, <2>7 DEF Smaller
    <2>9. /\ available' \in 0..Capacity
          /\ available' + Total(outstanding') = Capacity
      BY <1>2, <2>4, <2>5, <2>6, <2>7, <2>8
    <2>10. QED BY <2>3, <2>7, <2>9 DEF completed
  <1>4. CASE handle \notin Handles
    <2>1. completed = 0
      BY <1>4 DEF Credited
    <2>2. outstanding' = [h \in Handles |-> outstanding[h]] /\ available' = available
      BY <1>4 DEF Complete
    <2>3. outstanding' = outstanding
      BY <2>2 DEF TypeOK
    <2>4. QED BY <1>2, <2>1, <2>2, <2>3 DEF TypeOK
  <1>5. QED BY <1>3, <1>4

IInv == TypeOK /\ Conservation

LEMMA Initially == Init => IInv
  <1> USE StreamsAssumption, BuffersAssumption
  <1>1. QED BY DEF Init, NewCredits, IInv, TypeOK, Conservation, Total, Handles

LEMMA Preserved == IInv /\ [Next]_creditVars => IInv'
  <1> USE StreamsAssumption, BuffersAssumption
  <1> SUFFICES ASSUME IInv, [Next]_creditVars
               PROVE  IInv'
    OBVIOUS
  <1>1. ASSUME NEW frame \in Frames, NEW taken \in BOOLEAN, ReserveFrame(frame, taken)
        PROVE  IInv'
    <2>1. CASE Reserve(frame)
      <3>1. /\ outstanding' \in [Handles -> 0..Depth]
            /\ available' \in 0..Capacity
            /\ Total(outstanding') = Total(outstanding) + Len(frame)
            /\ available' = available - Len(frame)
        BY <2>1, ReserveCounts DEF IInv
      <3>2. Len(frame) \in Nat
        BY DEF Frames
      <3>3. Total(outstanding) \in Int /\ available \in Int
        BY DEF IInv, TypeOK, Total, Handles
      <3>4. available' + Total(outstanding') = Capacity
        BY <3>1, <3>2, <3>3 DEF IInv, Conservation
      <3>5. QED BY <2>1, <3>1, <3>4 DEF IInv, TypeOK, Conservation
    <2>2. CASE UNCHANGED creditVars
      BY <2>2 DEF IInv, TypeOK, Conservation, creditVars, Total
    <2>3. QED BY <1>1, <2>1, <2>2 DEF ReserveFrame
  <1>2. ASSUME NEW handle \in AnyHandle, NEW count \in Counts, Complete(handle, count)
        PROVE  IInv'
    <2>1. count \in Nat
      BY DEF Counts
    <2>2. /\ outstanding' \in [Handles -> 0..Depth]
          /\ available' \in 0..Capacity
          /\ available' + Total(outstanding') = Capacity
          /\ Credited(handle, count) \in 0..Depth
      BY <1>2, <2>1, GiveBackCounts DEF IInv
    <2>3. QED BY <1>2, <2>2 DEF IInv, TypeOK, Conservation
  <1>3. CASE UNCHANGED creditVars
    BY <1>3 DEF IInv, TypeOK, Conservation, creditVars, Total
  <1>4. QED BY <1>1, <1>2, <1>3 DEF Next

(***************************************************************************)
(* Neither counter of the structure ever leaves its range, whatever is     *)
(* reserved and whatever the controller reports.                           *)
(***************************************************************************)
THEOREM TypeCorrect == Spec => []TypeOK
  <1>1. IInv => TypeOK
    BY DEF IInv
  <1>2. QED BY <1>1, Initially, Preserved, PTL DEF Spec

(***************************************************************************)
(* Credits are neither invented nor lost, for every capacity.              *)
(***************************************************************************)
THEOREM CreditsConserved == Spec => []Conservation
  <1>1. IInv => Conservation
    BY DEF IInv
  <1>2. QED BY <1>1, Initially, Preserved, PTL DEF Spec
-----------------------------------------------------------------------------
(* The playback loop.                                                      *)

Event == [type : {"closed", "completed"}, handle : AnyHandle, count : Nat]
Place == {"setup", "releasing"} \cup InLoop \cup Ended

Types ==
    /\ pc \in Place
    /\ seq \in [Handles -> 0..(NumberSpace - 1)]
    /\ slots \in 0..(NumberSpace - 1)
    /\ held \in [Handles -> Nat]
    /\ events \in Seq(Event)

\* The loop begins a round on time or late; only a sleeping host is early.
NotEarly == lag \in Int /\ (pc # "sleep" => lag >= 0)

\* Between encoding a frame and pacing, the ears are one number ahead.
InStep ==
    \A h \in Handles :
       seq[h] = IF pc \in {"send", "pace"} THEN (slots + 1) % NumberSpace ELSE slots

StreamInv == Types /\ NotEarly /\ InStep /\ IInv
-----------------------------------------------------------------------------
(***************************************************************************)
(* Adding to a number that has wrapped is adding before it wraps           *)
(* (skip_intervals after wrap_iso_packet).                                 *)
(***************************************************************************)
LEMMA WrapsOnce ==
  ASSUME NEW n \in Nat \ {0}, NEW a \in Nat, NEW b \in Nat
  PROVE  ((a % n) + b) % n = (a + b) % n
  <1> DEFINE q == a \div n
             r == a % n
             s == (r + b) \div n
             t == (r + b) % n
  <1>1. q \in Nat /\ r \in 0..(n - 1) /\ a = n * q + r
    OBVIOUS
  <1>2. s \in Nat /\ t \in 0..(n - 1) /\ r + b = n * s + t
    BY <1>1
  <1>3. a + b = n * (q + s) + t
    <2> HIDE DEF q, r, s, t
    <2>1. n * (q + s) = n * q + n * s
      BY <1>1, <1>2
    <2>2. QED BY <1>1, <1>2, <2>1
  <1>4. (a + b) % n = t
    <2> HIDE DEF q, r, s, t
    <2> DEFINE u == (a + b) \div n
               v == (a + b) % n
    <2>1. u \in Nat /\ v \in 0..(n - 1) /\ a + b = n * u + v
      OBVIOUS
    <2> HIDE DEF u, v
    <2>2. n * (u - (q + s)) = t - v
      <3>1. n * (u - (q + s)) = n * u - n * (q + s)
        BY <1>1, <1>2, <2>1
      <3>2. QED BY <1>1, <1>2, <1>3, <2>1, <3>1
    <2>3. u - (q + s) \in Int
      BY <1>1, <1>2, <2>1
    <2> DEFINE d == u - (q + s)
    <2> HIDE DEF d
    <2>4. d = 0
      <3>1. CASE d >= 1
        <4>1. n * d >= n
          BY <3>1, <2>3 DEF d
        <4>2. QED BY <4>1, <1>2, <2>1, <2>2 DEF d
      <3>2. CASE d <= -1
        <4>1. n * d <= -n
          BY <3>2, <2>3 DEF d
        <4>2. QED BY <4>1, <1>2, <2>1, <2>2 DEF d
      <3>3. QED BY <2>3, <3>1, <3>2 DEF d
    <2>5. t = v
      BY <2>2, <2>4, <1>2, <2>1 DEF d
    <2>6. QED BY <2>5 DEF v
  <1>5. QED BY <1>4

(***************************************************************************)
(* A frame for all the ears is one reserve_frame accepts as a question.    *)
(***************************************************************************)
LEMMA WholeFrame == AllHandles \in Frames
  <1>1. Streams \in 0..(Streams + 1) /\ AllHandles \in [1..Streams -> AnyHandle]
    BY StreamsAssumption DEF AllHandles, AnyHandle, Handles
  <1>2. QED BY <1>1 DEF Frames

(***************************************************************************)
(* The credits are touched by one frame at a time, by one report at a      *)
(* time, and by a call that begins or ends; and a report drained is one    *)
(* the pump had.                                                           *)
(***************************************************************************)
LEMMA CreditSteps ==
  ASSUME [StreamNext]_allVars
  PROVE  \/ UNCHANGED creditVars
         \/ available' = Capacity /\ outstanding' = [h \in Handles |-> 0]
         \/ \E taken \in BOOLEAN : ReserveFrame(AllHandles, taken)
         \/ /\ events # <<>> /\ Head(events).type = "completed"
            /\ Complete(Head(events).handle, Head(events).count)
  <1>1. CASE Setup \/ SetupCommand \/ SendFails
    BY <1>1 DEF Setup, SetupDone, SetupFails, SetupCommand, SendFails, Return, FreshLocals
  <1>2. CASE Top \/ FrameLeaves \/ MicrophoneOnly \/ Wake \/ DrainClosed \/ DrainEnd
    BY <1>2 DEF Top, FrameLeaves, MicrophoneOnly, Wake, DrainClosed, DrainEnd, Return,
                FreshLocals, Stay
  <1>3. CASE DrainCompleted
    BY <1>3 DEF DrainCompleted
  <1>4. CASE Frame
    BY <1>4 DEF Frame
  <1>5. CASE SendPacket \/ SendTooSlow \/ Pace \/ Tick
    BY <1>5 DEF SendPacket, SendTooSlow, Pace, Tick, Return, FreshLocals
  <1>6. CASE Teardown
    BY <1>6 DEF Teardown, ReleaseCis, AwaitClosed, AwaitTimesOut, RemoveRefused, FindLoss,
                Rebuild, ReleaseFails, FreshLocals, Stay
  <1>7. CASE Environment
    BY <1>7 DEF Environment, Transmit, CisEnds, AclEnds, ReaderEnds
  <1>8. CASE UNCHANGED allVars
    BY <1>8 DEF allVars, creditVars
  <1>9. QED
    BY <1>1, <1>2, <1>3, <1>4, <1>5, <1>6, <1>7, <1>8 DEF StreamNext, Loop, Drain

LEMMA CreditsKept ==
  ASSUME StreamInv, [StreamNext]_allVars
  PROVE  IInv'
  <1> USE StreamsAssumption, BuffersAssumption
  <1>1. CASE UNCHANGED creditVars
    BY <1>1 DEF StreamInv, IInv, TypeOK, Conservation, creditVars, Total
  <1>2. CASE available' = Capacity /\ outstanding' = [h \in Handles |-> 0]
    BY <1>2 DEF IInv, TypeOK, Conservation, Total, Handles
  <1>3. ASSUME NEW taken \in BOOLEAN, ReserveFrame(AllHandles, taken)
        PROVE  IInv'
    <2>1. [Next]_creditVars
      BY <1>3, WholeFrame DEF Next
    <2>2. QED BY <2>1, Preserved DEF StreamInv
  <1>4. CASE /\ events # <<>> /\ Head(events).type = "completed"
             /\ Complete(Head(events).handle, Head(events).count)
    <2>1. Head(events) \in Event
      BY <1>4 DEF StreamInv, Types
    <2>2. Head(events).handle \in AnyHandle /\ Head(events).count \in Nat
      BY <2>1 DEF Event
    <2>3. /\ outstanding' \in [Handles -> 0..Depth]
          /\ available' \in 0..Capacity
          /\ available' + Total(outstanding') = Capacity
      BY <1>4, <2>2, GiveBackCounts DEF StreamInv, IInv
    <2>4. QED BY <2>3 DEF IInv, TypeOK, Conservation
  <1>5. QED BY <1>1, <1>2, <1>3, <1>4, CreditSteps
-----------------------------------------------------------------------------
(***************************************************************************)
(* The types that the deadline and the numbers need.                       *)
(***************************************************************************)
LEMMA EventsKept ==
  ASSUME StreamInv, [StreamNext]_allVars
  PROVE  events' \in Seq(Event)
  <1> events \in Seq(Event) /\ held \in [Handles -> Nat]
    BY DEF StreamInv, Types
  <1>1. CASE UNCHANGED events
    BY <1>1
  <1>2. CASE events' = <<>>
    BY <1>2, EmptySeq
  <1>3. CASE events # <<>> /\ events' = Tail(events)
    BY <1>3
  <1>4. ASSUME NEW e \in Event, Emit(e)
        PROVE  events' \in Seq(Event)
    BY <1>4 DEF Emit
  <1>5. CASE AwaitClosed
    <2>1. ASSUME NEW i \in DOMAIN events, events' = SubSeq(events, i + 1, Len(events))
          PROVE  events' \in Seq(Event)
      <3>1. i \in 1..Len(events)
        BY <2>1
      <3>2. QED BY <2>1, <3>1, SubSeqProperties
    <2>2. QED BY <1>1, <1>5, <2>1 DEF AwaitClosed
  <1>6. CASE Transmit
    <2>1. PICK h \in Handles : \E n \in 1..held[h] : Emit(Completed(h, n))
      BY <1>6 DEF Transmit
    <2>2. PICK n \in 1..held[h] : Emit(Completed(h, n))
      BY <2>1
    <2>3. Completed(h, n) \in Event
      BY <2>1, <2>2 DEF Completed, Event, AnyHandle
    <2>4. QED BY <1>4, <2>2, <2>3
  <1>7. CASE CisEnds
    <2>1. PICK h \in Handles : Emit(Closed(h))
      BY <1>7 DEF CisEnds
    <2>2. Closed(h) \in Event
      BY <2>1 DEF Closed, Event, AnyHandle
    <2>3. QED BY <1>4, <2>1, <2>2
  <1>8. CASE AclEnds
    <2>1. Closed(Acl) \in Event
      BY DEF Closed, Acl, Event, AnyHandle, Stranger
    <2>2. QED BY <1>4, <1>8, <2>1 DEF AclEnds
  <1>9. CASE Setup \/ SetupCommand \/ SendFails \/ ReaderEnds \/ Tick
    BY <1>1, <1>2, <1>9 DEF Setup, SetupDone, SetupFails, SetupCommand, SendFails, Return,
                            ReaderEnds, Tick
  <1>10. CASE Top \/ FrameLeaves \/ MicrophoneOnly \/ Wake \/ DrainEnd \/ Frame
    BY <1>1, <1>10 DEF Top, FrameLeaves, MicrophoneOnly, Wake, DrainEnd, Frame, Return, Stay
  <1>11. CASE DrainClosed \/ DrainCompleted
    BY <1>3, <1>11 DEF DrainClosed, DrainCompleted
  <1>12. CASE SendPacket \/ SendTooSlow \/ Pace
    BY <1>1, <1>12 DEF SendPacket, SendTooSlow, Pace, Return
  <1>13. CASE Teardown
    BY <1>1, <1>2, <1>5, <1>13 DEF Teardown, ReleaseCis, AwaitTimesOut, RemoveRefused,
                                   FindLoss, Rebuild, ReleaseFails, Stay
  <1>14. CASE UNCHANGED allVars
    BY <1>1, <1>14 DEF allVars
  <1>15. QED
    BY <1>6, <1>7, <1>8, <1>9, <1>10, <1>11, <1>12, <1>13, <1>14
       DEF StreamNext, Loop, Drain, Environment

LEMMA HeldKept ==
  ASSUME StreamInv, [StreamNext]_allVars
  PROVE  held' \in [Handles -> Nat]
  <1> held \in [Handles -> Nat]
    BY DEF StreamInv, Types
  <1>1. CASE UNCHANGED held
    BY <1>1
  <1>2. CASE SendPacket
    <2> DEFINE ear == Head(todo)
    <2> HIDE DEF ear
    <2>1. held' = held \/ held' = [held EXCEPT ![ear] = @ + 1]
      BY <1>2 DEF SendPacket, ear
    <2>2. CASE held' = [held EXCEPT ![ear] = @ + 1]
      <3>1. ear \in Handles => held[ear] + 1 \in Nat
        OBVIOUS
      <3>2. QED BY <2>2, <3>1
    <2>3. QED BY <2>1, <2>2
  <1>3. CASE Transmit
    <2>1. PICK h \in Handles : \E n \in 1..held[h] : held' = [held EXCEPT ![h] = @ - n]
      BY <1>3 DEF Transmit
    <2>2. PICK n \in 1..held[h] : held' = [held EXCEPT ![h] = @ - n]
      BY <2>1
    <2>3. held[h] - n \in Nat
      BY <2>1, <2>2
    <2>4. QED BY <2>2, <2>3
  <1>4. CASE CisEnds
    BY <1>4 DEF CisEnds
  <1>5. CASE Setup \/ SetupCommand \/ SendFails \/ ReaderEnds \/ AclEnds \/ Tick
    BY <1>1, <1>5 DEF Setup, SetupDone, SetupFails, SetupCommand, SendFails, Return,
                      ReaderEnds, AclEnds, Tick, ctlVars
  <1>6. CASE Top \/ FrameLeaves \/ MicrophoneOnly \/ Wake \/ DrainEnd \/ Frame
    BY <1>1, <1>6 DEF Top, FrameLeaves, MicrophoneOnly, Wake, DrainEnd, Frame, Return, Stay,
                      ctlVars
  <1>7. CASE DrainClosed \/ DrainCompleted \/ SendTooSlow \/ Pace
    BY <1>1, <1>7 DEF DrainClosed, DrainCompleted, SendTooSlow, Pace, Return, ctlVars
  <1>8. CASE Teardown
    BY <1>1, <1>8 DEF Teardown, ReleaseCis, AwaitClosed, AwaitTimesOut, RemoveRefused,
                      FindLoss, Rebuild, ReleaseFails, Stay, ctlVars
  <1>9. CASE UNCHANGED allVars
    BY <1>1, <1>9 DEF allVars, ctlVars
  <1>10. QED
    BY <1>2, <1>3, <1>4, <1>5, <1>6, <1>7, <1>8, <1>9
       DEF StreamNext, Loop, Drain, Environment
-----------------------------------------------------------------------------
(***************************************************************************)
(* Where the loop stands on its timeline.                                  *)
(***************************************************************************)
Timeline ==
    /\ pc \in Place
    /\ seq \in [Handles -> 0..(NumberSpace - 1)]
    /\ slots \in 0..(NumberSpace - 1)
    /\ NotEarly
    /\ InStep

\* The steps that neither number a frame nor move the deadline.
LEMMA TimelineStays ==
  ASSUME Timeline, UNCHANGED <<seq, slots, lag>>, pc' \in Place,
         pc' \in {"send", "pace"} <=> pc \in {"send", "pace"},
         pc = "sleep" => pc' = "sleep" \/ lag >= 0
  PROVE  Timeline'
  BY DEF Timeline, NotEarly, InStep

LEMMA TimelineFresh ==
  ASSUME FreshLocals, pc' \in Place \ {"send", "pace"}
  PROVE  Timeline'
  BY TimeAssumption DEF FreshLocals, Timeline, NotEarly, InStep

\* Moving one number on, n times, wraps.
LEMMA Advanced ==
  ASSUME Timeline, NEW n \in Nat, seq' = Advance(n)
  PROVE  /\ seq' \in [Handles -> 0..(NumberSpace - 1)]
         /\ \A h \in Handles : seq'[h] = (seq[h] + n) % NumberSpace
  <1>1. \A h \in Handles : (seq[h] + n) % NumberSpace \in 0..(NumberSpace - 1)
    BY TimeAssumption DEF Timeline
  <1>2. QED BY <1>1 DEF Advance

LEMMA TimelineOfFrame == ASSUME Timeline, Frame PROVE Timeline'
  <1>1. /\ pc = "frame" /\ pc' \in {"send", "pace"}
        /\ seq' = Advance(1) /\ UNCHANGED <<lag, slots>>
    BY DEF Frame, Goto
  <1>2. /\ seq' \in [Handles -> 0..(NumberSpace - 1)]
        /\ \A h \in Handles : seq'[h] = (seq[h] + 1) % NumberSpace
    BY <1>1, Advanced
  <1>3. \A h \in Handles : seq[h] = slots
    BY <1>1 DEF Timeline, InStep
  <1>4. InStep'
    BY <1>1, <1>2, <1>3 DEF InStep
  <1>5. QED BY <1>1, <1>2, <1>4 DEF Timeline, NotEarly, Place, InLoop

LEMMA TimelineOfPace == ASSUME Timeline, Pace PROVE Timeline' /\ lag' \in (-Interval)..(Interval - 1)
  <1> DEFINE late == lag - Interval
             missed == IF late >= 0 THEN late \div Interval ELSE 0
  <1>1. /\ pc \in {"send", "pace"}
        /\ slots' = (slots + 1 + missed) % NumberSpace
        /\ seq' = Advance(missed)
        /\ lag' = late - missed * Interval
        /\ pc' = IF late < 0 THEN "sleep" ELSE "top"
    BY DEF Pace, Goto
  <1>2. lag \in Int /\ lag >= 0 /\ late \in Int
    BY <1>1, TimeAssumption DEF Timeline, NotEarly
  <1>3. missed \in Nat
    BY <1>2, TimeAssumption
  <1>4. /\ lag' \in (-Interval)..(Interval - 1)
        /\ late >= 0 => lag' >= 0
    <2>1. CASE late >= 0
      <3>1. late = Interval * (late \div Interval) + (late % Interval)
            /\ late % Interval \in 0..(Interval - 1)
        BY <1>2, <2>1, TimeAssumption
      <3>2. lag' = late - Interval * (late \div Interval)
        BY <1>1, <1>2, <1>3, <2>1, TimeAssumption
      <3>3. QED BY <3>1, <3>2, <1>2, <2>1, TimeAssumption
    <2>2. CASE late < 0
      <3>1. missed = 0 /\ lag' = late
        BY <1>1, <1>2, <2>2, TimeAssumption
      <3>2. QED BY <3>1, <1>2, <2>2, TimeAssumption
    <2>3. QED BY <1>2, <2>1, <2>2
  <1> HIDE DEF missed
  <1>5. /\ seq' \in [Handles -> 0..(NumberSpace - 1)]
        /\ \A h \in Handles : seq'[h] = (seq[h] + missed) % NumberSpace
    BY <1>1, <1>3, Advanced
  <1>6. slots' \in 0..(NumberSpace - 1)
    BY <1>1, <1>3, TimeAssumption DEF Timeline
  <1>7. \A h \in Handles : seq'[h] = slots'
    <2>1. TAKE h \in Handles
    <2>2. slots + 1 \in Nat /\ NumberSpace \in Nat \ {0}
      BY TimeAssumption DEF Timeline
    <2>3. seq[h] = (slots + 1) % NumberSpace
      BY <1>1 DEF Timeline, InStep
    <2>4. (((slots + 1) % NumberSpace) + missed) % NumberSpace = (slots + 1 + missed) % NumberSpace
      BY <1>3, <2>2, WrapsOnce
    <2>5. QED BY <1>1, <1>5, <2>3, <2>4
  <1>8. pc' \in {"sleep", "top"} /\ (pc' = "top" => late >= 0)
    BY <1>1, <1>2
  <1>9. NotEarly'
    <2>1. lag' \in Int
      BY <1>4, TimeAssumption
    <2>2. QED BY <1>4, <1>8, <2>1 DEF NotEarly
  <1>10. InStep'
    BY <1>7, <1>8 DEF InStep
  <1>11. QED BY <1>4, <1>5, <1>6, <1>8, <1>9, <1>10 DEF Timeline, Place, InLoop

LEMMA TimelineKept ==
  ASSUME Timeline, [StreamNext]_allVars
  PROVE  Timeline'
  <1> USE DEF Place, InLoop, Ended, Goto
  <1>1. CASE SetupDone \/ SetupCommand \/ SetupFails
    <2>1. CASE SetupFails
      <3>1. UNCHANGED <<seq, slots, lag>> /\ pc = "setup" /\ pc' = "silent"
        BY <2>1 DEF SetupFails, clockVars
      <3>2. QED BY <3>1, TimelineStays
    <2>2. CASE SetupDone \/ SetupCommand
      <3>1. UNCHANGED <<seq, slots, lag>> /\ pc = "setup" /\ pc' \in {"setup", "top"}
        BY <2>2 DEF SetupDone, SetupCommand, clockVars
      <3>2. QED BY <3>1, TimelineStays
    <2>3. QED BY <1>1, <2>1, <2>2
  <1>2. ASSUME NEW p \in Ended, Return(p)
        PROVE  Timeline'
    <2>1. FreshLocals /\ pc' = p
      BY <1>2 DEF Return
    <2>2. QED BY <2>1, TimelineFresh
  <1>3. ASSUME NEW p \in Place \ {"send", "pace"}, Stay(p), pc \notin {"send", "pace"},
               pc = "sleep" => lag >= 0
        PROVE  Timeline'
    <2>1. UNCHANGED <<seq, slots, lag>> /\ pc' = p
      BY <1>3 DEF Stay, clockVars
    <2>2. QED BY <1>3, <2>1, TimelineStays
  <1>4. CASE Top \/ DrainEnd \/ FrameLeaves \/ MicrophoneOnly \/ Wake
    <2>1. CASE Top
      <3>1. CASE /\ disc' = {} /\ pc = "top" /\ pc' = "drain"
                 /\ UNCHANGED <<clockVars, seq, slots>>
        BY <3>1, TimelineStays DEF clockVars
      <3>2. QED BY <1>2, <2>1, <3>1 DEF Top
    <2>2. CASE DrainEnd
      BY <1>2, <1>3, <2>2 DEF DrainEnd
    <2>3. CASE FrameLeaves
      BY <1>2, <2>3 DEF FrameLeaves
    <2>4. CASE MicrophoneOnly \/ Wake
      BY <1>3, <2>4 DEF MicrophoneOnly, Wake
    <2>5. QED BY <1>4, <2>1, <2>2, <2>3, <2>4
  <1>5. CASE DrainClosed \/ DrainCompleted \/ SendPacket
    <2>1. UNCHANGED <<pc, seq, slots, lag>>
      BY <1>5 DEF DrainClosed, DrainCompleted, SendPacket, clockVars
    <2>2. pc \in Place
      BY DEF Timeline
    <2>3. QED BY <2>1, <2>2, TimelineStays
  <1>6. CASE Frame \/ Pace
    BY <1>6, TimelineOfFrame, TimelineOfPace
  <1>7. CASE SendFails \/ SendTooSlow
    BY <1>2, <1>7 DEF SendFails, SendTooSlow
  <1>8. CASE Tick
    <2>1. /\ UNCHANGED <<pc, seq, slots>>
          /\ lag' = lag + 1 \/ lag' = lag
      BY <1>8 DEF Tick, hostVars
    <2>2. QED BY <2>1 DEF Timeline, NotEarly, InStep
  <1>9. CASE ReleaseCis \/ AwaitClosed \/ RemoveRefused
    <2>1. /\ UNCHANGED <<seq, slots, lag>>
          /\ pc \in {"cisLost", "rebuild", "yielded", "releasing"}
          /\ pc' \in {"releasing", "rebuild"}
      BY <1>9 DEF ReleaseCis, AwaitClosed, RemoveRefused, clockVars
    <2>2. QED BY <2>1, TimelineStays
  <1>10. CASE AwaitTimesOut \/ FindLoss \/ ReleaseFails
    BY <1>3, <1>10 DEF AwaitTimesOut, FindLoss, ReleaseFails
  <1>11. CASE Rebuild
    <2>1. FreshLocals /\ pc' = "setup"
      BY <1>11 DEF Rebuild
    <2>2. QED BY <2>1, TimelineFresh
  <1>12. CASE Environment \/ UNCHANGED allVars
    <2>1. UNCHANGED <<pc, seq, slots, lag>>
      BY <1>12 DEF Environment, Transmit, CisEnds, AclEnds, ReaderEnds, allVars, clockVars,
                   hostVars
    <2>2. pc \in Place
      BY DEF Timeline
    <2>3. QED BY <2>1, <2>2, TimelineStays
  <1>13. QED
    BY <1>1, <1>4, <1>5, <1>6, <1>7, <1>8, <1>9, <1>10, <1>11, <1>12
       DEF StreamNext, Setup, Loop, Drain, Teardown
-----------------------------------------------------------------------------
LEMMA StreamInitially == StreamInit => StreamInv
  <1> SUFFICES ASSUME StreamInit PROVE StreamInv
    OBVIOUS
  <1>1. IInv
    BY Initially DEF StreamInit, Init
  <1>2. Types
    BY TimeAssumption, EmptySeq DEF StreamInit, Types, Place
  <1>3. NotEarly /\ InStep
    BY DEF StreamInit, NotEarly, InStep
  <1>4. QED BY <1>1, <1>2, <1>3 DEF StreamInv

LEMMA StreamPreserved == StreamInv /\ [StreamNext]_allVars => StreamInv'
  <1> SUFFICES ASSUME StreamInv, [StreamNext]_allVars PROVE StreamInv'
    OBVIOUS
  <1>1. Timeline
    BY DEF StreamInv, Types, Timeline
  <1>2. Timeline'
    BY <1>1, TimelineKept
  <1>3. IInv' /\ events' \in Seq(Event) /\ held' \in [Handles -> Nat]
    BY CreditsKept, EventsKept, HeldKept
  <1>4. QED BY <1>2, <1>3 DEF StreamInv, Types, Timeline

(***************************************************************************)
(* Whatever the loop sends, the controller reports and the channels do,    *)
(* through teardown and rebuild, the loop's credits are conserved.         *)
(***************************************************************************)
THEOREM StreamConserves == StreamSpec => []Conservation
  <1>1. StreamInv => Conservation
    BY DEF StreamInv, IInv
  <1>2. QED BY <1>1, StreamInitially, StreamPreserved, PTL DEF StreamSpec

(***************************************************************************)
(* Both ears are on one timeline for any interval and any width of the     *)
(* sequence numbers, through dropped frames, missed intervals and wraps.   *)
(***************************************************************************)
THEOREM StreamInStep == StreamSpec => []EarsInStep
  <1>1. StreamInv => EarsInStep
    BY DEF StreamInv, InStep, EarsInStep
  <1>2. QED BY <1>1, StreamInitially, StreamPreserved, PTL DEF StreamSpec

(***************************************************************************)
(* However long the host was stopped, the next frame begins less than an   *)
(* interval late: missed intervals are skipped and not caught up.          *)
(***************************************************************************)
THEOREM StreamPaced == StreamSpec => NoCatchUpBurst
  <1>1. StreamInv /\ [StreamNext]_allVars
          => [Pace => lag' \in (-Interval)..(Interval - 1)]_allVars
    <2> SUFFICES ASSUME StreamInv, Pace PROVE lag' \in (-Interval)..(Interval - 1)
      OBVIOUS
    <2>1. Timeline
      BY DEF StreamInv, Types, Timeline
    <2>2. QED BY <2>1, TimelineOfPace
  <1>2. QED BY <1>1, StreamInitially, StreamPreserved, PTL DEF StreamSpec, NoCatchUpBurst
-----------------------------------------------------------------------------
(***************************************************************************)
(* Packets in reports: a finite set, that grows and shrinks by what a      *)
(* report says.                                                            *)
(***************************************************************************)
Reports(e, h) == e.type = "completed" /\ e.handle = h

LEMMA PacketIn ==
  ASSUME NEW q, NEW h, NEW x
  PROVE  x \in Packets(q, h) <=>
             \E i \in DOMAIN q : Reports(q[i], h) /\ x \in {i} \X (1..q[i].count)
  BY DEF Packets, Reports

\* The packets of one report.
LEMMA OfOneReport ==
  ASSUME NEW i, NEW n \in Nat
  PROVE  IsFiniteSet({i} \X (1..n)) /\ Cardinality({i} \X (1..n)) = n
  <1>1. IsFiniteSet({i}) /\ Cardinality({i}) = 1
    BY FS_Singleton
  <1>2. IsFiniteSet(1..n) /\ Cardinality(1..n) = n
    BY FS_Interval
  <1>3. /\ IsFiniteSet({i} \X (1..n))
        /\ Cardinality({i} \X (1..n)) = Cardinality({i}) * Cardinality(1..n)
    BY <1>1, <1>2, FS_Product
  <1>4. 1 * n = n
    OBVIOUS
  <1>5. Cardinality({i}) * Cardinality(1..n) = n
    BY <1>1, <1>2, <1>4, Zenon
  <1>6. QED BY <1>3, <1>5, Zenon

LEMMA PacketsFinite ==
  ASSUME NEW q \in Seq(Event), NEW h
  PROVE  IsFiniteSet(Packets(q, h)) /\ Cardinality(Packets(q, h)) \in Nat
  <1> DEFINE D == {i \in DOMAIN q : Reports(q[i], h)}
             f == [i \in D |-> {i} \X (1..q[i].count)]
             T == {f[i] : i \in D}
  <1>1. IsFiniteSet(D)
    <2>1. DOMAIN q = 1..Len(q) /\ Len(q) \in Nat
      BY LenProperties
    <2>2. IsFiniteSet(1..Len(q))
      BY <2>1, FS_Interval
    <2>3. D \in SUBSET (1..Len(q))
      BY <2>1
    <2> HIDE DEF D
    <2>4. QED BY <2>2, <2>3, FS_Subset
  <1>2. \A i \in D : q[i].count \in Nat
    <2>1. \A i \in DOMAIN q : q[i] \in Event
      OBVIOUS
    <2>2. QED BY <2>1 DEF Event
  <1>3. \A i \in D : IsFiniteSet(f[i])
    <2>1. TAKE i \in D
    <2>2. IsFiniteSet({i} \X (1..q[i].count))
      BY <1>2, OfOneReport
    <2>3. QED BY <2>2
  <1>4. Packets(q, h) = UNION T
    BY DEF Packets, Reports
  <1> HIDE DEF D
  <1>5. f \in Surjection(D, T)
    <2>1. f \in [D -> T]
      OBVIOUS
    <2>2. QED BY <2>1 DEF Surjection
  <1> HIDE DEF f
  <1>6. IsFiniteSet(T)
    <2> HIDE DEF T
    <2>1. QED BY <1>1, <1>5, FS_Surjection
  <1>7. IsFiniteSet(UNION T)
    <2>1. \A t \in T : IsFiniteSet(t)
      BY <1>3
    <2> HIDE DEF T
    <2>2. QED BY <1>6, <2>1, FS_UNION
  <1>8. QED BY <1>4, <1>7, FS_CardinalityType

\* A report more.
LEMMA PacketsAppended ==
  ASSUME NEW q \in Seq(Event), NEW e \in Event, NEW h
  PROVE  Cardinality(Packets(Append(q, e), h)) =
             Cardinality(Packets(q, h)) + IF Reports(e, h) THEN e.count ELSE 0
  <1> DEFINE n == Len(q) + 1
             t == Append(q, e)
             New == {n} \X (1..e.count)
             Old == Packets(q, h)
  <1>1. /\ Len(q) \in Nat /\ DOMAIN q = 1..Len(q) /\ DOMAIN t = 1..n
        /\ t[n] = e /\ \A i \in DOMAIN q : t[i] = q[i]
    BY LenProperties, AppendProperties
  <1>2. DOMAIN t = DOMAIN q \cup {n} /\ n \notin DOMAIN q
    BY <1>1
  <1>3. e.count \in Nat
    BY DEF Event
  <1> HIDE DEF t, n
  <1>4. CASE Reports(e, h)
    <2>1. Packets(t, h) = Old \cup New
      <3>1. ASSUME NEW x
            PROVE  x \in Packets(t, h) <=> x \in Old \/ x \in New
        <4>1. x \in Packets(t, h) <=>
                  \E i \in DOMAIN t : Reports(t[i], h) /\ x \in {i} \X (1..t[i].count)
          BY PacketIn
        <4>2. x \in Old <=> \E i \in DOMAIN q : Reports(q[i], h) /\ x \in {i} \X (1..q[i].count)
          BY PacketIn
        <4>3. x \in New <=> Reports(t[n], h) /\ x \in {n} \X (1..t[n].count)
          BY <1>1, <1>4
        <4>4. QED BY <1>1, <1>2, <4>1, <4>2, <4>3
      <3>2. QED BY <3>1
    <2>2. Old \cap New = {}
      BY <1>2 DEF Packets
    <2>3. IsFiniteSet(Old) /\ Cardinality(Old) \in Nat
      BY PacketsFinite
    <2>4. IsFiniteSet(New) /\ Cardinality(New) = e.count
      BY <1>3, OfOneReport
    <2> HIDE DEF Old, New
    <2>5. Cardinality(Old \cup New) = Cardinality(Old) + Cardinality(New) - Cardinality(Old \cap New)
      BY <2>3, <2>4, FS_Union
    <2>6. Cardinality(Old \cap New) = 0
      BY <2>2, FS_EmptySet
    <2>7. Cardinality(Packets(t, h)) = Cardinality(Old) + e.count
      BY <1>3, <2>1, <2>3, <2>4, <2>5, <2>6
    <2>8. QED BY <1>4, <2>7 DEF Old, t
  <1>5. CASE ~Reports(e, h)
    <2>1. Packets(t, h) = Old
      BY <1>1, <1>2, <1>5 DEF Packets, Reports
    <2>2. Cardinality(Old) \in Nat
      BY PacketsFinite
    <2>3. QED BY <1>5, <2>1, <2>2 DEF t
  <1>6. QED BY <1>4, <1>5

\* The first report is read.
LEMMA PacketsOfTail ==
  ASSUME NEW q \in Seq(Event), q # <<>>, NEW h
  PROVE  Cardinality(Packets(q, h)) =
             Cardinality(Packets(Tail(q), h)) + IF Reports(Head(q), h) THEN Head(q).count ELSE 0
  <1> DEFINE t == Tail(q)
             First == {1} \X (1..Head(q).count)
             Others == {x \in Packets(q, h) : x[1] # 1}
             Next1 == Packets(t, h)
             f == [x \in Next1 |-> <<x[1] + 1, x[2]>>]
  <1>1. /\ Len(q) \in Nat \ {0} /\ DOMAIN q = 1..Len(q) /\ Head(q) = q[1] /\ Head(q) \in Event
        /\ t \in Seq(Event)
        /\ DOMAIN t = 1..(Len(q) - 1) /\ \A i \in DOMAIN t : t[i] = q[i + 1]
    BY LenProperties, HeadTailProperties, EmptySeq
  <1>2. ASSUME NEW x \in Next1
        PROVE  /\ <<x[1] + 1, x[2]>> \in Others
               /\ x = <<(x[1] + 1) - 1, x[2]>>
    <2>1. PICK i \in DOMAIN t : Reports(t[i], h) /\ x \in {i} \X (1..t[i].count)
      BY <1>2, PacketIn
    <2>2. i \in Nat /\ i + 1 \in DOMAIN q /\ i + 1 # 1 /\ t[i] = q[i + 1]
      BY <1>1, <2>1
    <2>3. x[1] = i /\ x = <<i, x[2]>> /\ x[2] \in 1..t[i].count
      BY <2>1
    <2>4. <<i + 1, x[2]>> \in Packets(q, h)
      BY <2>1, <2>2, <2>3, PacketIn
    <2>5. QED BY <2>2, <2>3, <2>4
  <1>3. ASSUME NEW y \in Others
        PROVE  \E x \in Next1 : <<x[1] + 1, x[2]>> = y
    <2>1. PICK j \in DOMAIN q : Reports(q[j], h) /\ y \in {j} \X (1..q[j].count)
      BY <1>3, PacketIn
    <2>2. y[1] = j /\ y = <<j, y[2]>> /\ y[2] \in 1..q[j].count /\ j # 1
      BY <1>3, <2>1
    <2>3. j - 1 \in DOMAIN t /\ (j - 1) + 1 = j /\ t[j - 1] = q[j]
      BY <1>1, <2>1, <2>2
    <2>4. <<j - 1, y[2]>> \in Next1
      BY <2>1, <2>2, <2>3, PacketIn
    <2>5. QED BY <2>2, <2>3, <2>4
  <1>4. IsFiniteSet(Packets(q, h)) /\ Cardinality(Packets(q, h)) \in Nat
    BY PacketsFinite
  <1>5. IsFiniteSet(Next1) /\ Cardinality(Next1) \in Nat
    BY <1>1, PacketsFinite
  <1> HIDE DEF t
  <1>6. Cardinality(Others) = Cardinality(Next1)
    <2> HIDE DEF Next1, Others
    <2>1. f \in [Next1 -> Others]
      BY <1>2
    <2>2. \A x, y \in Next1 : f[x] = f[y] => x = y
      <3>1. TAKE x, y \in Next1
      <3>2. f[x] = <<x[1] + 1, x[2]>> /\ f[y] = <<y[1] + 1, y[2]>>
        OBVIOUS
      <3>3. HAVE f[x] = f[y]
      <3>4. x[1] + 1 = y[1] + 1 /\ x[2] = y[2]
        BY <3>2, <3>3
      <3>5. QED BY <1>2, <3>4
    <2>3. \A y \in Others : \E x \in Next1 : f[x] = y
      BY <1>3
    <2> HIDE DEF f
    <2>4. ExistsBijection(Next1, Others)
      BY <2>1, <2>2, <2>3 DEF ExistsBijection, Bijection, Injection, IsInjective, Surjection
    <2>5. QED BY <1>5, <2>4, FS_Bijection
  <1>7. IsFiniteSet(Others)
    BY <1>4, FS_Subset
  <1>8. CASE Reports(Head(q), h)
    <2>1. Packets(q, h) = Others \cup First
      <3>1. ASSUME NEW x
            PROVE  x \in Packets(q, h) <=> x \in Others \/ x \in First
        <4>1. x \in First => x \in Packets(q, h)
          BY <1>1, <1>8, PacketIn
        <4>2. x \in Packets(q, h) /\ x[1] = 1 => x \in First
          BY <1>1, PacketIn
        <4>3. QED BY <4>1, <4>2
      <3>2. QED BY <3>1
    <2>2. Others \cap First = {}
      OBVIOUS
    <2>3. Head(q).count \in Nat
      BY <1>1 DEF Event
    <2>4. IsFiniteSet(First) /\ Cardinality(First) = Head(q).count
      BY <2>3, OfOneReport
    <2> HIDE DEF Others, First, Next1
    <2>5. Cardinality(Others \cup First) =
              Cardinality(Others) + Cardinality(First) - Cardinality(Others \cap First)
      BY <1>7, <2>4, FS_Union
    <2>6. Cardinality(Others \cap First) = 0
      BY <2>2, FS_EmptySet
    <2>7. Cardinality(Packets(q, h)) = Cardinality(Next1) + Head(q).count
      BY <1>5, <1>6, <2>1, <2>3, <2>4, <2>5, <2>6
    <2>8. QED BY <1>8, <2>7 DEF Next1, t
  <1>9. CASE ~Reports(Head(q), h)
    <2>1. Packets(q, h) = Others
      BY <1>1, <1>9, PacketIn
    <2> HIDE DEF Others
    <2>2. QED BY <1>5, <1>6, <1>9, <2>1 DEF t
  <1>10. QED BY <1>8, <1>9

-----------------------------------------------------------------------------
(***************************************************************************)
(* The accounts, with what they need to stay exact: a frame is written one *)
(* packet per ear, a channel that has ended holds nothing, and a group     *)
(* starts with nothing under way.                                          *)
(***************************************************************************)
Cis == cis \in [Handles -> {"up", "closing", "down"}]

Writing ==
    /\ todo \in Seq(Handles)
    /\ \A i, j \in DOMAIN todo : todo[i] = todo[j] => i = j
    /\ pc \in InLoop \ {"send"} \/ pc = "setup" => todo = <<>>

Flushed == \A h \in Handles : cis[h] = "down" => held[h] = 0

Unused == pc = "setup" => \A h \in Handles : held[h] = 0 /\ outstanding[h] = 0

Counted(h) == outstanding[h] = held[h] + Reported(h) + Unwritten(h)

AccountInv == Cis /\ Writing /\ Flushed /\ Unused /\ ExactAccounting

LEMMA NothingReported == \A h : Cardinality(Packets(<<>>, h)) = 0
  <1>1. \A h : Packets(<<>>, h) = {}
    BY DEF Packets
  <1>2. QED BY <1>1, FS_EmptySet

LEMMA EmptyTodo ==
  <<>> \in Seq(Handles) /\ \A i, j \in DOMAIN <<>> : <<>>[i] = <<>>[j] => i = j
  BY EmptySeq

(***************************************************************************)
(* A step that counts, holds, reports and writes nothing and does not end  *)
(* a channel; and one out of the loop, where nobody counts.                *)
(***************************************************************************)
LEMMA NothingCounted ==
  ASSUME AccountInv, UNCHANGED <<outstanding, held, cis, events, todo>>,
         pc' \in InLoop => pc \in InLoop,
         pc' \in InLoop \ {"send"} => pc \in InLoop \ {"send"} \/ todo = <<>>,
         pc' = "setup" => pc = "setup"
  PROVE  AccountInv'
  <1> USE DEF AccountInv
  <1>1. Cis' /\ Flushed'
    BY DEF Cis, Flushed
  <1>2. Writing'
    BY DEF Writing
  <1>3. Unused'
    BY DEF Unused
  <1>4. ExactAccounting'
    BY DEF ExactAccounting, Reported, Unwritten
  <1>5. QED BY <1>1, <1>2, <1>3, <1>4

LEMMA OutOfLoop ==
  ASSUME AccountInv, pc' \notin InLoop \cup {"setup"}, todo' = todo \/ todo' = <<>>, Cis', Flushed'
  PROVE  AccountInv'
  <1> USE DEF AccountInv
  <1>1. Writing'
    BY EmptyTodo DEF Writing
  <1>2. QED BY <1>1 DEF Unused, ExactAccounting

LEMMA Left ==
  ASSUME AccountInv, NEW p \in Ended, Return(p)
  PROVE  AccountInv'
  <1>1. pc' \notin InLoop \cup {"setup"} /\ todo' = <<>> /\ UNCHANGED <<cis, held>>
    BY DEF Return, FreshLocals, Goto, Ended, InLoop, ctlVars
  <1>2. Cis' /\ Flushed'
    BY <1>1 DEF AccountInv, Cis, Flushed
  <1>3. QED BY <1>1, <1>2, OutOfLoop

LEMMA Stayed ==
  ASSUME AccountInv, NEW p, Stay(p), pc \notin {"send", "setup"}, p \notin {"send", "setup"},
         p \in InLoop => pc \in InLoop
  PROVE  AccountInv'
  <1>1. pc' = p /\ UNCHANGED <<outstanding, held, cis, events, todo>>
    BY DEF Stay, Goto, creditVars, ctlVars
  <1>2. QED BY <1>1, NothingCounted

(***************************************************************************)
(* The steps that count.                                                   *)
(***************************************************************************)
LEMMA SetupAccounts == AccountInv /\ (Setup \/ SetupCommand) => AccountInv'
  <1> SUFFICES ASSUME AccountInv, Setup \/ SetupCommand PROVE AccountInv'
    OBVIOUS
  <1> USE DEF AccountInv
  <1>1. /\ pc = "setup" /\ pc' \in {"setup", "top", "silent"}
        /\ UNCHANGED <<outstanding, held, cis, todo>>
        /\ pc' = "top" => events' = <<>>
    BY DEF Setup, SetupDone, SetupFails, SetupCommand, Goto, creditVars, ctlVars
  <1>2. todo = <<>>
    BY <1>1 DEF Writing
  <1>3. Cis' /\ Writing' /\ Flushed' /\ Unused'
    BY <1>1, <1>2 DEF Cis, Writing, Flushed, Unused
  <1>4. ExactAccounting'
    <2>1. CASE pc' = "top"
      <3>1. \A h \in Handles : Reported(h)' = 0 /\ Unwritten(h)' = 0
        <4>1. \A h \in Handles : Reported(h)' = 0
          BY <1>1, <2>1, NothingReported DEF Reported
        <4>2. \A h \in Handles : Unwritten(h)' = 0
          BY <1>1, <1>2 DEF Unwritten
        <4>3. QED BY <4>1, <4>2
      <3>2. \A h \in Handles : held'[h] = 0 /\ outstanding'[h] = 0
        BY <1>1 DEF Unused
      <3>3. QED BY <3>1, <3>2 DEF ExactAccounting
    <2>2. CASE pc' # "top"
      BY <1>1, <2>2 DEF ExactAccounting, InLoop
    <2>3. QED BY <2>1, <2>2
  <1>5. QED BY <1>3, <1>4

\* A frame is counted when it is taken, and is then to be written.
LEMMA FrameAccounts == StreamInv /\ AccountInv /\ Frame => AccountInv'
  <1> SUFFICES ASSUME StreamInv, AccountInv, Frame PROVE AccountInv'
    OBVIOUS
  <1>1. /\ pc = "frame" /\ UNCHANGED <<held, cis, events>> /\ todo = <<>>
        /\ \/ ReserveFrame(AllHandles, TRUE) /\ todo' = AllHandles /\ pc' = "send"
           \/ ReserveFrame(AllHandles, FALSE) /\ pc' = "pace" /\ UNCHANGED todo
    BY DEF Frame, Goto, ctlVars, AccountInv, Writing, InLoop
  <1>2. CASE ReserveFrame(AllHandles, FALSE) /\ pc' = "pace" /\ UNCHANGED todo
    <2>1. UNCHANGED outstanding
      BY <1>2 DEF ReserveFrame, creditVars
    <2>2. QED BY <1>1, <1>2, <2>1, NothingCounted DEF InLoop
  <1>3. CASE ReserveFrame(AllHandles, TRUE) /\ todo' = AllHandles /\ pc' = "send"
    <2>1. Reserve(AllHandles)
      BY <1>3 DEF ReserveFrame
    <2>2. /\ AllHandles \in Seq(Handles) /\ DOMAIN AllHandles = Handles
          /\ \A i \in Handles : AllHandles[i] = i
      BY StreamsAssumption DEF AllHandles, Handles
    <2>3. \A h \in Handles : outstanding'[h] = outstanding[h] + 1
      BY <2>1, <2>2 DEF Reserve, OneMore
    <2>4. \A h \in Handles : Unwritten(h) = 0 /\ Unwritten(h)' = 1
      BY <1>1, <1>3, <2>2 DEF Unwritten
    <2>5. \A h \in Handles : Reported(h)' = Reported(h)
      BY <1>1 DEF Reported
    <2>6. \A h \in Handles : Reported(h) \in Nat /\ held[h] \in Nat
      BY PacketsFinite DEF StreamInv, Types, Reported
    <2>7. \A h \in Handles : cis[h] = "up" => outstanding[h] = held[h] + Reported(h) + Unwritten(h)
      BY <1>1 DEF AccountInv, ExactAccounting, InLoop
    <2>8. ExactAccounting'
      <3>1. ASSUME NEW h \in Handles, cis'[h] = "up"
            PROVE  outstanding'[h] = held'[h] + Reported(h)' + Unwritten(h)'
        BY <1>1, <2>3, <2>4, <2>5, <2>6, <2>7, <3>1
      <3>2. QED BY <3>1 DEF ExactAccounting
    <2>9. Cis' /\ Writing' /\ Flushed' /\ Unused'
      BY <1>1, <1>3, <2>2 DEF AccountInv, Cis, Writing, Flushed, Unused
    <2>10. QED BY <2>8, <2>9 DEF AccountInv
  <1>4. QED BY <1>1, <1>2, <1>3

\* A packet written is one the controller holds, if it has the channel.
LEMMA PacketAccounts == StreamInv /\ AccountInv /\ SendPacket => AccountInv'
  <1> SUFFICES ASSUME StreamInv, AccountInv, SendPacket PROVE AccountInv'
    OBVIOUS
  <1>1. /\ todo \in Seq(Handles) /\ \A i, j \in DOMAIN todo : todo[i] = todo[j] => i = j
    BY DEF AccountInv, Writing
  <1>2. PICK ear \in Handles : ear = Head(todo)
    BY <1>1, HeadTailProperties DEF SendPacket
  <1>3. /\ pc = "send" /\ pc' = "send" /\ todo # <<>> /\ todo' = Tail(todo)
        /\ held' = IF cis[ear] # "down" THEN [held EXCEPT ![ear] = @ + 1] ELSE held
        /\ UNCHANGED <<outstanding, cis, events>>
    BY <1>2 DEF SendPacket, creditVars
  <1>4. /\ Len(todo) \in Nat \ {0} /\ DOMAIN todo = 1..Len(todo) /\ ear = todo[1] /\ ear \in Handles
        /\ todo' \in Seq(Handles) /\ DOMAIN todo' = 1..(Len(todo) - 1)
        /\ \A i \in DOMAIN todo' : todo'[i] = todo[i + 1]
    BY <1>2, <1>3, <1>1, LenProperties, HeadTailProperties, EmptySeq
  <1>5. \A i \in DOMAIN todo' : i + 1 \in DOMAIN todo /\ i + 1 # 1
    BY <1>4
  <1>6. Writing'
    <2>1. \A i, j \in DOMAIN todo' : todo'[i] = todo'[j] => i = j
      <3>1. TAKE i, j \in DOMAIN todo'
      <3>2. todo[i + 1] = todo[j + 1] => i + 1 = j + 1
        BY <1>1, <1>5
      <3>3. QED BY <1>4, <3>2
    <2>2. QED BY <1>3, <1>4, <2>1 DEF Writing
  <1>7. Unwritten(ear) = 1 /\ Unwritten(ear)' = 0
    <2>1. \E i \in DOMAIN todo : todo[i] = ear
      BY <1>4
    <2>2. ~\E i \in DOMAIN todo' : todo'[i] = ear
      <3>1. ASSUME NEW i \in DOMAIN todo', todo'[i] = ear
            PROVE  FALSE
        <4>1. todo[i + 1] = todo[1] /\ 1 \in DOMAIN todo
          BY <1>4, <3>1
        <4>2. QED BY <1>1, <1>5, <4>1
      <3>2. QED BY <3>1
    <2>3. QED BY <2>1, <2>2 DEF Unwritten
  <1>8. ASSUME NEW h \in Handles, h # ear
        PROVE  Unwritten(h)' = Unwritten(h)
    <2>1. (\E i \in DOMAIN todo' : todo'[i] = h) => \E i \in DOMAIN todo : todo[i] = h
      BY <1>4, <1>5
    <2>2. ASSUME NEW i \in DOMAIN todo, todo[i] = h
          PROVE  \E k \in DOMAIN todo' : todo'[k] = h
      <3>1. i # 1
        BY <1>4, <1>8, <2>2
      <3>2. i - 1 \in DOMAIN todo' /\ (i - 1) + 1 = i
        BY <1>4, <3>1
      <3>3. QED BY <1>4, <2>2, <3>2
    <2>3. QED BY <2>1, <2>2 DEF Unwritten
  <1>9. held \in [Handles -> Nat]
    BY DEF StreamInv, Types
  <1>10. \A h \in Handles : Reported(h)' = Reported(h) /\ Reported(h) \in Nat
    BY <1>3, PacketsFinite DEF StreamInv, Types, Reported
  <1>11. \A h \in Handles : cis[h] = "up" => outstanding[h] = held[h] + Reported(h) + Unwritten(h)
    BY <1>3 DEF AccountInv, ExactAccounting, InLoop
  <1>12. ExactAccounting'
    <2>1. ASSUME NEW h \in Handles, cis[h] = "up"
          PROVE  outstanding'[h] = held'[h] + Reported(h)' + Unwritten(h)'
      <3>1. CASE h = ear
        <4>1. held'[h] = held[h] + 1
          BY <1>3, <1>9, <2>1, <3>1
        <4>2. QED BY <1>3, <1>7, <1>9, <1>10, <1>11, <2>1, <3>1, <4>1
      <3>2. CASE h # ear
        <4>1. held'[h] = held[h]
          BY <1>3, <1>9, <3>2
        <4>2. QED BY <1>3, <1>8, <1>10, <1>11, <2>1, <3>2, <4>1
      <3>3. QED BY <3>1, <3>2
    <2>2. QED BY <1>3, <2>1 DEF ExactAccounting
  <1>13. Cis' /\ Flushed' /\ Unused'
    BY <1>3, <1>9 DEF AccountInv, Cis, Flushed, Unused
  <1>14. QED BY <1>6, <1>12, <1>13 DEF AccountInv

(***************************************************************************)
(* Events come and are read.                                               *)
(***************************************************************************)
LEMMA ReadAccounts ==
  StreamInv /\ AccountInv /\ (DrainClosed \/ DrainCompleted) => AccountInv'
  <1> SUFFICES ASSUME StreamInv, AccountInv, DrainClosed \/ DrainCompleted PROVE AccountInv'
    OBVIOUS
  <1> DEFINE e == Head(events)
  <1>1. /\ pc = "drain" /\ pc' = "drain" /\ events # <<>> /\ events' = Tail(events)
        /\ UNCHANGED <<held, cis, todo>>
        /\ \/ e.type = "closed" /\ UNCHANGED outstanding
           \/ e.type = "completed" /\ Complete(e.handle, e.count)
    BY DEF DrainClosed, DrainCompleted, creditVars, ctlVars
  <1>2. events \in Seq(Event) /\ held \in [Handles -> Nat] /\ outstanding \in [Handles -> 0..Depth]
    BY DEF StreamInv, Types, IInv, TypeOK
  <1>3. Tail(events) \in Seq(Event) /\ e \in Event
    BY <1>1, <1>2, HeadTailProperties
  <1>4. e.count \in Nat /\ e.handle \in AnyHandle
    BY <1>3 DEF Event
  <1>5. Cis' /\ Writing' /\ Flushed' /\ Unused'
    BY <1>1 DEF AccountInv, Cis, Writing, Flushed, Unused
  <1>6. ASSUME NEW h \in Handles, cis[h] = "up"
        PROVE  outstanding'[h] = held'[h] + Reported(h)' + Unwritten(h)'
    <2>1. outstanding[h] = held[h] + Reported(h) + Unwritten(h)
      BY <1>1, <1>6 DEF AccountInv, ExactAccounting, InLoop
    <2>2. Reported(h) = Reported(h)' + IF Reports(e, h) THEN e.count ELSE 0
      BY <1>1, <1>2, PacketsOfTail DEF Reported
    <2>3. Reported(h)' \in Nat /\ held[h] \in Nat /\ Unwritten(h) \in Nat
      BY <1>1, <1>2, <1>3, PacketsFinite DEF Reported, Unwritten
    <2>4. Unwritten(h)' = Unwritten(h)
      BY <1>1 DEF Unwritten
    <2> HIDE DEF e
    <2>5. CASE Reports(e, h)
      <3>1. e.handle = h /\ Complete(h, e.count)
        BY <1>1, <2>5 DEF Reports
      <3>2. e.count <= outstanding[h]
        BY <1>4, <2>1, <2>2, <2>3, <2>5
      <3>3. outstanding'[h] = outstanding[h] - e.count
        BY <3>1, <3>2 DEF Complete, Credited, Smaller
      <3>4. QED BY <1>1, <1>4, <2>1, <2>2, <2>3, <2>4, <2>5, <3>3
    <2>6. CASE ~Reports(e, h)
      <3>1. outstanding'[h] = outstanding[h]
        <4>1. CASE e.type = "closed" /\ UNCHANGED outstanding
          BY <4>1
        <4>2. CASE e.type = "completed" /\ Complete(e.handle, e.count)
          <5>1. e.handle # h
            BY <2>6, <4>2 DEF Reports
          <5>2. QED BY <4>2, <5>1 DEF Complete
        <4>3. QED BY <1>1, <4>1, <4>2
      <3>2. QED BY <1>1, <2>1, <2>2, <2>3, <2>4, <2>6, <3>1
    <2>7. QED BY <2>5, <2>6
  <1>7. ExactAccounting'
    BY <1>1, <1>6 DEF ExactAccounting
  <1>8. QED BY <1>5, <1>7 DEF AccountInv

\* What the controller has sent it reports.
LEMMA TransmitAccounts == StreamInv /\ AccountInv /\ Transmit => AccountInv'
  <1> SUFFICES ASSUME StreamInv, AccountInv, Transmit PROVE AccountInv'
    OBVIOUS
  <1>1. PICK ear \in Handles : \E n \in 1..held[ear] :
            /\ cis[ear] # "down"
            /\ held' = [held EXCEPT ![ear] = @ - n]
            /\ Emit(Completed(ear, n))
    BY DEF Transmit
  <1>2. PICK n \in 1..held[ear] :
            /\ cis[ear] # "down"
            /\ held' = [held EXCEPT ![ear] = @ - n]
            /\ Emit(Completed(ear, n))
    BY <1>1
  <1>3. UNCHANGED <<outstanding, cis, todo, pc>>
    BY DEF Transmit, creditVars, hostVars
  <1>4. events \in Seq(Event) /\ held \in [Handles -> Nat]
    BY DEF StreamInv, Types
  <1>5. n \in Nat /\ n # 0 /\ held[ear] \in Nat /\ n <= held[ear]
    BY <1>4
  <1> DEFINE e == Completed(ear, n)
  <1>6. e \in Event /\ events' = Append(events, e) /\ \A h : Reports(e, h) <=> h = ear
    BY <1>2, <1>5 DEF Emit, Completed, Event, AnyHandle, Reports
  <1>7. e.count = n
    BY DEF Completed
  <1> HIDE DEF e
  <1>8. pc # "setup"
    BY <1>5 DEF AccountInv, Unused
  <1>9. Cis' /\ Writing' /\ Flushed' /\ Unused'
    <2>1. Flushed'
      BY <1>2, <1>3, <1>4 DEF AccountInv, Flushed
    <2>2. QED BY <1>3, <1>8, <2>1 DEF AccountInv, Cis, Writing, Unused
  <1>10. ASSUME NEW h \in Handles, cis[h] = "up", pc \in InLoop
         PROVE  outstanding'[h] = held'[h] + Reported(h)' + Unwritten(h)'
    <2>1. outstanding[h] = held[h] + Reported(h) + Unwritten(h)
      BY <1>10 DEF AccountInv, ExactAccounting
    <2>2. Reported(h)' = Reported(h) + IF Reports(e, h) THEN e.count ELSE 0
      BY <1>4, <1>6, PacketsAppended DEF Reported
    <2>3. Reported(h) \in Nat /\ held[h] \in Nat /\ Unwritten(h) \in Nat
      BY <1>4, PacketsFinite DEF Reported, Unwritten
    <2>4. Unwritten(h)' = Unwritten(h)
      BY <1>3 DEF Unwritten
    <2>5. CASE h = ear
      <3>1. held'[h] = held[h] - n
        BY <1>2, <1>4, <2>5
      <3>2. QED BY <1>3, <1>5, <1>6, <1>7, <2>1, <2>2, <2>3, <2>4, <2>5, <3>1
    <2>6. CASE h # ear
      <3>1. held'[h] = held[h]
        BY <1>2, <1>4, <2>6
      <3>2. QED BY <1>3, <1>6, <2>1, <2>2, <2>3, <2>4, <2>6, <3>1
    <2>7. QED BY <2>5, <2>6
  <1>11. ExactAccounting'
    BY <1>3, <1>10 DEF ExactAccounting
  <1>12. QED BY <1>9, <1>11 DEF AccountInv

\* A channel or the link ends: nothing of the other channel changes.
LEMMA EndAccounts == StreamInv /\ AccountInv /\ (CisEnds \/ AclEnds) => AccountInv'
  <1> SUFFICES ASSUME StreamInv, AccountInv, CisEnds \/ AclEnds PROVE AccountInv'
    OBVIOUS
  <1>1. UNCHANGED <<outstanding, todo, pc>>
    BY DEF CisEnds, AclEnds, creditVars, hostVars
  <1>2. PICK e : Emit(e) /\ e \in {Closed(h) : h \in AnyHandle}
    BY DEF CisEnds, AclEnds, AnyHandle, Stranger, Acl
  <1>3. e \in Event /\ \A h : ~Reports(e, h)
    BY <1>2 DEF Closed, Event, Reports
  <1>4. events \in Seq(Event) /\ held \in [Handles -> Nat] /\ Cis
    BY DEF StreamInv, Types, AccountInv
  <1>5. \A h \in Handles : /\ Reported(h)' = Reported(h)
                           /\ Unwritten(h)' = Unwritten(h)
    <2>1. events' = Append(events, e)
      BY <1>2 DEF Emit
    <2>2. ASSUME NEW h \in Handles
          PROVE  Reported(h)' = Reported(h)
      <3>1. Cardinality(Packets(Append(events, e), h)) = Cardinality(Packets(events, h)) + 0
        BY <1>3, <1>4, PacketsAppended
      <3>2. Cardinality(Packets(events, h)) \in Nat
        BY <1>4, PacketsFinite
      <3>3. QED BY <2>1, <3>1, <3>2 DEF Reported
    <2>3. QED BY <1>1, <2>2 DEF Unwritten
  <1>6. /\ Cis'
        /\ \A h \in Handles : \/ held'[h] = held[h] /\ cis'[h] = cis[h]
                              \/ held'[h] = 0 /\ cis'[h] = "down"
    <2>1. CASE AclEnds
      BY <1>4, <2>1 DEF AclEnds, Cis
    <2>2. CASE CisEnds
      <3>1. PICK ear \in Handles : /\ cis' = [cis EXCEPT ![ear] = "down"]
                                   /\ held' = [held EXCEPT ![ear] = 0]
        BY <2>2 DEF CisEnds
      <3>2. QED BY <1>4, <3>1 DEF Cis
    <2>3. QED BY <2>1, <2>2
  <1>7. Writing' /\ Flushed' /\ Unused'
    BY <1>1, <1>6 DEF AccountInv, Writing, Flushed, Unused
  <1>8. ExactAccounting'
    <2>1. ASSUME NEW h \in Handles, cis'[h] = "up", pc \in InLoop
          PROVE  outstanding'[h] = held'[h] + Reported(h)' + Unwritten(h)'
      <3>1. cis[h] = "up" /\ held'[h] = held[h]
        BY <1>6, <2>1
      <3>2. outstanding[h] = held[h] + Reported(h) + Unwritten(h)
        BY <2>1, <3>1 DEF AccountInv, ExactAccounting
      <3>3. QED BY <1>1, <1>5, <3>1, <3>2
    <2>2. QED BY <1>1, <2>1 DEF ExactAccounting
  <1>9. QED BY <1>6, <1>7, <1>8 DEF AccountInv

LEMMA TeardownAccounts == StreamInv /\ AccountInv /\ Teardown => AccountInv'
  <1> SUFFICES ASSUME StreamInv, AccountInv, Teardown PROVE AccountInv'
    OBVIOUS
  <1> DEFINE Waits == {"cisLost", "rebuild", "yielded", "releasing"}
  <1>1. CASE ReleaseCis
    <2>1. /\ pc' = "releasing" /\ UNCHANGED <<held, todo>>
          /\ cis' = [h \in Handles |-> IF cis[h] = "up" THEN "closing" ELSE cis[h]]
      BY <1>1 DEF ReleaseCis, Goto
    <2>2. Cis' /\ Flushed'
      BY <2>1 DEF AccountInv, Cis, Flushed
    <2>3. QED BY <2>1, <2>2, OutOfLoop DEF InLoop
  <1>2. CASE AwaitClosed \/ AwaitTimesOut \/ RemoveRefused \/ FindLoss \/ ReleaseFails
    <2>1. pc' \in Waits \cup {"lost", "silent"} /\ UNCHANGED <<held, cis, todo>>
      BY <1>2 DEF AwaitClosed, AwaitTimesOut, RemoveRefused, FindLoss, ReleaseFails, Stay, Goto,
                  ctlVars
    <2>2. Cis' /\ Flushed'
      BY <2>1 DEF AccountInv, Cis, Flushed
    <2>3. QED BY <2>1, <2>2, OutOfLoop DEF InLoop
  <1>3. CASE Rebuild
    <2>1. /\ pc' = "setup" /\ UNCHANGED held /\ todo' = <<>>
          /\ \A h \in Handles : cis[h] = "down"
          /\ cis' = [h \in Handles |-> "up"] /\ outstanding' = [h \in Handles |-> 0]
      BY <1>3 DEF Rebuild, FreshLocals, Goto
    <2>2. \A h \in Handles : held[h] = 0
      BY <2>1 DEF AccountInv, Flushed
    <2>3. Cis' /\ Writing' /\ Flushed' /\ Unused'
      BY <2>1, <2>2, EmptyTodo DEF Cis, Writing, Flushed, Unused
    <2>4. ExactAccounting'
      BY <2>1 DEF ExactAccounting, InLoop
    <2>5. QED BY <2>3, <2>4 DEF AccountInv
  <1>4. QED BY <1>1, <1>2, <1>3 DEF Teardown

LEMMA AccountsInitially == StreamInit => AccountInv
  <1> SUFFICES ASSUME StreamInit PROVE AccountInv
    OBVIOUS
  <1>1. Cis /\ Writing /\ Flushed /\ Unused
    BY EmptyTodo DEF StreamInit, NewCredits, Cis, Writing, Flushed, Unused
  <1>2. ExactAccounting
    BY DEF StreamInit, ExactAccounting, InLoop
  <1>3. QED BY <1>1, <1>2 DEF AccountInv

LEMMA AccountsPreserved == StreamInv /\ AccountInv /\ [StreamNext]_allVars => AccountInv'
  <1> SUFFICES ASSUME StreamInv, AccountInv, [StreamNext]_allVars PROVE AccountInv'
    OBVIOUS
  <1>1. CASE Top \/ DrainEnd \/ FrameLeaves \/ SendFails \/ SendTooSlow
    <2>1. ASSUME NEW p \in Ended, Return(p) PROVE AccountInv'
      BY <2>1, Left
    <2>2. CASE pc = "top" /\ pc' = "drain" /\ UNCHANGED <<outstanding, held, cis, events, todo>>
      BY <2>2, NothingCounted DEF InLoop
    <2>3. CASE pc = "drain" /\ Stay("frame")
      BY <2>3, Stayed DEF InLoop
    <2>4. QED
      BY <1>1, <2>1, <2>2, <2>3 DEF Top, DrainEnd, FrameLeaves, SendFails, SendTooSlow, Ended,
                                    Goto, creditVars, ctlVars
  <1>2. CASE MicrophoneOnly \/ Wake
    BY <1>2, Stayed DEF MicrophoneOnly, Wake, InLoop
  <1>3. CASE Pace
    <2>1. /\ pc \in {"send", "pace"} /\ todo = <<>> /\ pc' \in {"sleep", "top"}
          /\ UNCHANGED <<outstanding, held, cis, events, todo>>
      BY <1>3 DEF Pace, Goto, creditVars, ctlVars
    <2>2. QED BY <2>1, NothingCounted DEF InLoop
  <1>4. CASE Tick \/ ReaderEnds \/ UNCHANGED allVars
    <2>1. UNCHANGED <<pc, outstanding, held, cis, events, todo>>
      BY <1>4 DEF Tick, ReaderEnds, allVars, creditVars, hostVars, ctlVars
    <2>2. QED BY <2>1, NothingCounted
  <1>5. QED
    BY <1>1, <1>2, <1>3, <1>4, SetupAccounts, FrameAccounts, PacketAccounts, ReadAccounts,
       TransmitAccounts, EndAccounts, TeardownAccounts
       DEF StreamNext, Loop, Drain, Environment

(***************************************************************************)
(* The host's account of the controller's buffers is exact for any streams,*)
(* any buffers, any reports and any number of rebuilt groups: run_audio    *)
(* counts a frame for all its ears or for none, and a new group begins     *)
(* with nothing of the old one under way.                                  *)
(***************************************************************************)
THEOREM AccountsAreExact == StreamSpec => []ExactAccounting
  <1>1. AccountInv => ExactAccounting
    BY DEF AccountInv
  <1>2. QED
    BY <1>1, StreamInitially, StreamPreserved, AccountsInitially, AccountsPreserved, PTL
       DEF StreamSpec
=============================================================================
