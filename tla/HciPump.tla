------------------------------ MODULE HciPump ------------------------------
(***************************************************************************)
(* struct HciPump of dev/core/src/link.rs: two threads, one per endpoint,  *)
(* each feeding a channel, and the queue of events one layer has looked at *)
(* and handed back.  The two channels have no common order.                *)
(*                                                                         *)
(* An event is a number: 0 is the loss of this link, any other is the      *)
(* serial number of an event somebody else is waiting for.  What the       *)
(* threads pass on is given by the module that composes this one.          *)
(***************************************************************************)
EXTENDS Integers, Sequences, SequencesExt

VARIABLES alive,        \* no reader has ended
          held,         \* events handed back
          events,       \* the channel of the event thread
          acl           \* the channel of the ACL thread

pumpVars == <<alive, held, events, acl>>

Lost == 0

PumpInit == alive = TRUE /\ held = <<>> /\ events = <<>> /\ acl = <<>>

\* What a reader does with what it has read, and when it ends, is Adapter: here
\* the two end as one.  A thread drops its sender, so that an empty channel is
\* then closed.
Sealed == ~alive

\* A reader goes on to pass something to its channel.
ReaderPasses == alive /\ UNCHANGED alive

ReadersEnd == alive /\ alive' = FALSE
-----------------------------------------------------------------------------
(* The receiving side.                                                     *)

Waiting == held \o events       \* what try_recv_event will return, in order

\* recv_event: the held events first.
RecvEvent ==
    \/ held # <<>> /\ held' = Tail(held) /\ UNCHANGED events
    \/ held = <<>> /\ events # <<>> /\ events' = Tail(events) /\ UNCHANGED held

LossAt == SelectInSeq(Waiting, LAMBDA e : e = Lost)

\* Mutant: the events are put back one by one, so in reverse.
InspectReversed ==
    IF LossAt = 0
    THEN /\ held' = Reverse(Waiting) /\ events' = <<>>
    ELSE /\ held' = Reverse(SubSeq(Waiting, 1, LossAt - 1))
                    \o SubSeq(held, LossAt + 1, Len(held))
         /\ events' = IF LossAt <= Len(held) THEN events
                      ELSE SubSeq(events, LossAt - Len(held) + 1, Len(events))

\* recv_acl_watching_link looks at everything that waits, up to the loss of its
\* own link, which it consumes; put_back_events returns the rest to the front.
Inspect ==
    IF LossAt = 0
    THEN /\ held' = Waiting /\ events' = <<>>
    ELSE /\ held' = SubSeq(Waiting, 1, LossAt - 1)
                    \o SubSeq(held, LossAt + 1, Len(held))
         /\ events' = IF LossAt <= Len(held) THEN events
                      ELSE SubSeq(events, LossAt - Len(held) + 1, Len(events))

PumpTypeOK ==
    alive \in BOOLEAN /\ held \in Seq(Nat) /\ events \in Seq(Nat)
=============================================================================
