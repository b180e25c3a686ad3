----------------------------- MODULE IsoCredits -----------------------------
(***************************************************************************)
(* The host's view of the controller's isochronous transmit buffers:       *)
(* struct IsoCredits of dev/core/src/iso_flow.rs.  One credit is one       *)
(* buffer.  A frame is reserved for all of its channels or for none, and a *)
(* Number Of Completed Packets event gives buffers back.                   *)
(*                                                                         *)
(* A stereo stream has one handle per ear, so there are at most two; they  *)
(* are numbered 1..Streams, and 0 stands for every handle the structure    *)
(* was not created with.                                                   *)
(***************************************************************************)
EXTENDS Integers, Sequences

CONSTANTS Streams,   \* how many CIS handles IsoCredits::new was given
          Capacity,  \* buffers the controller reported
          Depth      \* packets one channel may have outstanding (4 in the code)

ASSUME StreamsAssumption == Streams \in {1, 2}
ASSUME BuffersAssumption == Capacity \in Nat /\ Depth \in Nat \ {0}

VARIABLES available,    \* credits the host still has
          outstanding   \* packets the host has handed over, per handle

creditVars == <<available, outstanding>>

Handles   == 1..Streams
Stranger  == 0
AnyHandle == {Stranger} \cup Handles

\* What a caller may pass: no channel, too many, the same one twice, a stranger.
Frames == UNION {[1..n -> AnyHandle] : n \in 0..(Streams + 1)}

\* Everything outstanding, over both ears.
Total(o) == IF Streams = 1 THEN o[1] ELSE o[1] + o[2]
-----------------------------------------------------------------------------
NewCredits ==
    /\ available = Capacity
    /\ outstanding = [h \in Handles |-> 0]

Distinct(frame) == \A i, j \in DOMAIN frame : frame[i] = frame[j] => i = j

\* The two early returns of reserve_frame, read as one guard.
Admissible(frame) ==
    /\ Len(frame) > 0
    /\ Len(frame) <= available
    /\ Distinct(frame)
    /\ \A i \in DOMAIN frame : frame[i] \in Handles /\ outstanding[frame[i]] < Depth

OneMore(frame) ==
    [h \in Handles |->
        outstanding[h] + IF \E i \in DOMAIN frame : frame[i] = h THEN 1 ELSE 0]

\* Mutant: a frame is counted as one buffer, whatever its channels.
ReserveOne(frame) ==
    /\ Admissible(frame)
    /\ available' = available - 1
    /\ outstanding' = OneMore(frame)

\* The state change of an admitted frame: every channel of it, in one go.
Reserve(frame) ==
    /\ Admissible(frame)
    /\ available' = available - Len(frame)
    /\ outstanding' = OneMore(frame)

\* Mutant: a frame that does not fit takes a buffer for its first channel.
ReservePartly(frame, taken) ==
    \/ taken /\ Reserve(frame)
    \/ /\ ~taken /\ ~Admissible(frame)
       /\ IF Len(frame) = 2 /\ Admissible(<<frame[1]>>) THEN Reserve(<<frame[1]>>)
          ELSE UNCHANGED creditVars

\* "taken" is what reserve_frame returns: one credit for every channel, or none.
ReserveFrame(frame, taken) ==
    \/ taken /\ Reserve(frame)
    \/ ~taken /\ ~Admissible(frame) /\ UNCHANGED creditVars

Smaller(a, b) == IF a <= b THEN a ELSE b

\* How many of the reported packets the host really had outstanding.
Credited(handle, count) ==
    IF handle \in Handles THEN Smaller(count, outstanding[handle]) ELSE 0

Complete(handle, count) ==
    LET completed == Credited(handle, count) IN
    /\ outstanding' = [h \in Handles |->
                         IF h = handle THEN outstanding[h] - completed ELSE outstanding[h]]
    /\ available' = IF handle \in Handles
                    THEN Smaller(available + completed, Capacity)
                    ELSE available

\* A controller may report any count, also one larger than was ever sent.
Counts == 0..(Depth + 1)

Init == NewCredits

Next == \/ \E frame \in Frames, taken \in BOOLEAN : ReserveFrame(frame, taken)
        \/ \E handle \in AnyHandle, count \in Counts : Complete(handle, count)

Spec == Init /\ [][Next]_creditVars
-----------------------------------------------------------------------------
(***************************************************************************)
(* The structure is well formed: in particular neither unsigned counter    *)
(* ever goes below zero, which in the code would be a wrap or a panic.     *)
(***************************************************************************)
TypeOK ==
    /\ available \in 0..Capacity
    /\ outstanding \in [Handles -> 0..Depth]

(***************************************************************************)
(* No sequence of frames and reports, stale and exaggerated ones included, *)
(* creates or loses a buffer ("they cannot increase capacity"): a credit   *)
(* is either available or stands for one outstanding packet.               *)
(***************************************************************************)
Conservation == available + Total(outstanding) = Capacity
=============================================================================
