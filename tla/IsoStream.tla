------------------------------ MODULE IsoStream ------------------------------
(***************************************************************************)
(* Session::run_audio (dev/core/src/session.rs): the loop that plays.      *)
(* Each SDU interval it drains the controller's events, encodes one frame, *)
(* reserves buffers for all ears or none, hands the packets over and paces *)
(* itself against next_deadline.  Around it: the controller, which sends   *)
(* what it holds, reports completions and announces lost channels; and the *)
(* caller's teardown and rebuild of the isochronous group.                 *)
(*                                                                         *)
(* Time is counted in units of which Interval make one SDU interval.       *)
(***************************************************************************)
EXTENDS IsoCredits, FiniteSets, SequencesExt

CONSTANTS
    Plans,            \* values plan.playback_enabled may have; FALSE: microphone only
    Interval,         \* one SDU interval (7.5 or 10 ms)
    Pause,            \* the host scheduling pause that gives up (250 ms)
    Stalled,          \* STALLED_AFTER, silence of the controller that gives up
    NumberSpace,           \* 2^16: sequence numbers are u16 and wrap
    MaxLag,           \* bound: how late the model lets the host become
    MaxEvents,        \* bound: undelivered events
    MaxRebuilds       \* bound: groups built after the first

ASSUME TimeAssumption ==
    /\ Interval \in Nat \ {0} /\ Pause \in Nat /\ Stalled \in Nat /\ NumberSpace \in Nat \ {0}
    /\ MaxLag \in Nat /\ MaxEvents \in Nat /\ MaxRebuilds \in Nat
    /\ Plans \subseteq BOOLEAN

VARIABLES
    playback,  \* plan.playback_enabled
    pc,        \* where the host is
    seq,       \* encoder.sequence_numbers: the number of the next packet
    slots,     \* intervals next_deadline has advanced by, modulo NumberSpace
    lag,       \* now - next_deadline
    age,       \* last_delivery.elapsed(), per handle
    disc,      \* AudioDisconnects of the current drain
    todo,      \* packets of the admitted frame not yet written
    span,      \* stereo_started.elapsed()
    reader,    \* pump.alive()
    events,    \* events the pump has and nobody has read
    queued,    \* Controller.queued_events, without the reports every reader drops
    pending,   \* release_cis: channels whose end has not been seen
    held,      \* controller: packets it holds, per handle
    cis,       \* controller: "up", "closing" (disconnect accepted) or "down"
    acl,       \* controller: is the ACL link up
    rebuilds

clockVars == <<lag, age, span>>
hostVars == <<pc, seq, slots, disc, todo, pending, rebuilds, queued>>
ctlVars  == <<held, cis, acl>>
allVars  == <<available, outstanding, playback, clockVars, hostVars, ctlVars, reader, events>>

Acl == 0
Closed(handle) == [type |-> "closed", handle |-> handle, count |-> 0]
Completed(handle, n) == [type |-> "completed", handle |-> handle, count |-> n]

\* is_bulk_event: the reports a wait throws away instead of keeping.
IsBulk(e) == e.type = "completed"

Kept(s) == SelectSeq(s, LAMBDA e : ~IsBulk(e))

InLoop == {"top", "drain", "frame", "send", "pace", "sleep"}
\* How run_audio can return.
Ended  == {"stopped", "lost", "cisLost", "rebuild", "yielded", "silent", "failed"}

AllHandles == [i \in 1..Streams |-> i]
-----------------------------------------------------------------------------
\* The locals of run_audio, as a fresh call or one that has returned leaves them.
FreshLocals ==
    /\ available' = Capacity
    /\ outstanding' = [h \in Handles |-> 0]
    /\ seq' = [h \in Handles |-> 0]
    /\ slots' = 0
    /\ lag' = 0 /\ span' = 0
    /\ age' = [h \in Handles |-> 0]
    /\ disc' = {} /\ todo' = <<>>

StreamInit ==
    /\ NewCredits
    /\ playback \in Plans
    /\ pc = "setup"
    /\ seq = [h \in Handles |-> 0] /\ slots = 0
    /\ lag = 0 /\ span = 0 /\ age = [h \in Handles |-> 0]
    /\ disc = {} /\ todo = <<>> /\ reader = TRUE
    /\ events = <<>> /\ queued = <<>> /\ pending = {}
    /\ held = [h \in Handles |-> 0]
    /\ cis = [h \in Handles |-> "up"] /\ acl = TRUE
    /\ rebuilds = 0

Goto(p) == pc' = p

\* A step that only moves on, and a return: the locals go out of scope.
Stay(p) ==
    /\ Goto(p)
    /\ UNCHANGED <<creditVars, playback, clockVars, seq, slots, disc, todo, pending,
                   rebuilds, queued, ctlVars, reader, events>>

Return(p) ==
    /\ Goto(p)
    /\ FreshLocals
    /\ UNCHANGED <<playback, pending, rebuilds, queued, ctlVars, reader, events>>
-----------------------------------------------------------------------------
(* The host: what run_audio does before its loop. *)

\* A command waits for its own answer and moves every event that came before it
\* to Controller.queued_events.
SetupCommand ==
    /\ pc = "setup" /\ reader
    /\ events # <<>>
    /\ queued' = queued \o Kept(events)
    /\ events' = <<>>
    /\ UNCHANGED <<creditVars, playback, clockVars, pc, seq, slots, disc, todo,
                   pending, rebuilds, ctlVars, reader>>

\* The last command and the priming of the capture: the loop starts on time.
SetupDone ==
    /\ pc = "setup" /\ reader
    /\ queued' = queued \o Kept(events)
    /\ events' = <<>>
    /\ Goto("top")
    /\ UNCHANGED <<creditVars, playback, clockVars, seq, slots, disc, todo, pending,
                   rebuilds, ctlVars, reader>>

\* A command that is never answered.
SetupFails ==
    /\ pc = "setup" /\ ~reader
    /\ Goto("silent")
    /\ UNCHANGED <<creditVars, playback, clockVars, seq, slots, disc, todo, pending,
                   rebuilds, queued, ctlVars, reader, events>>
-----------------------------------------------------------------------------
(* The host: the loop. *)

\* should_stop() may say so at any pass.
Top ==
    /\ pc = "top"
    /\ \/ Return("stopped")
       \/ ~reader /\ Return("silent")
       \/ /\ reader
          /\ disc' = {}
          /\ Goto("drain")
          /\ UNCHANGED <<creditVars, playback, clockVars, seq, slots, todo, pending, rebuilds,
                         queued, ctlVars, reader, events>>

\* AudioDisconnects::observe, and the completions of the loop's own channels.
DrainClosed ==
    /\ pc = "drain" /\ events # <<>> /\ Head(events).type = "closed"
    /\ disc' = disc \cup {Head(events).handle}
    /\ events' = Tail(events)
    /\ UNCHANGED <<creditVars, playback, clockVars, pc, seq, slots, todo, pending,
                   rebuilds, queued, ctlVars, reader>>

DrainCompleted ==
    /\ pc = "drain" /\ events # <<>> /\ Head(events).type = "completed"
    /\ LET e == Head(events) IN
       /\ Complete(e.handle, e.count)
       /\ age' = [h \in Handles |->
                    IF h = e.handle /\ Credited(e.handle, e.count) > 0 THEN 0 ELSE age[h]]
    /\ events' = Tail(events)
    /\ UNCHANGED <<playback, lag, span, pc, seq, slots, disc, todo, pending, rebuilds,
                   queued, ctlVars, reader>>

DrainEnd ==
    /\ pc = "drain" /\ events = <<>>
    /\ \/ Acl \in disc /\ Return("lost")
       \/ Acl \notin disc /\ disc # {} /\ Return("cisLost")
       \/ disc = {} /\ Stay("frame")

Advance(n) == [h \in Handles |-> (seq[h] + n) % NumberSpace]

\* Mutant: silence is not noticed.
SilentNever == FALSE

\* Some channel's buffers have not come back for STALLED_AFTER.
Silent == \E h \in Handles : age[h] >= Stalled

\* What ends the loop before a frame is admitted: the host was suspended too
\* long, the headset asked for its endpoints back or the source fell silent, or
\* an ear's buffers stopped coming back.
FrameLeaves ==
    /\ pc = "frame" /\ playback
    /\ \/ Return("yielded")
       \/ lag >= Pause /\ Return("rebuild")
       \/ Silent /\ Return("rebuild")

\* Mutant: a frame that is dropped is not numbered.
FrameUnnumbered ==
    /\ pc = "frame" /\ playback
    /\ lag < Pause /\ ~Silent
    /\ \/ ReserveFrame(AllHandles, TRUE) /\ todo' = AllHandles /\ Goto("send") /\ seq' = Advance(1)
       \/ ReserveFrame(AllHandles, FALSE) /\ Goto("pace") /\ UNCHANGED <<todo, seq>>
    /\ span' = 0
    /\ UNCHANGED <<playback, lag, age, slots, disc, pending, rebuilds, queued, ctlVars,
                   reader, events>>

\* Mutant: a channel counts as heard of whenever a frame is encoded for it.
FrameAsDelivery ==
    /\ pc = "frame" /\ playback
    /\ lag < Pause /\ ~Silent
    /\ seq' = Advance(1)
    /\ \/ ReserveFrame(AllHandles, TRUE) /\ todo' = AllHandles /\ Goto("send")
       \/ ReserveFrame(AllHandles, FALSE) /\ Goto("pace") /\ UNCHANGED todo
    /\ span' = 0 /\ age' = [h \in Handles |-> 0]
    /\ UNCHANGED <<playback, lag, slots, disc, pending, rebuilds, queued, ctlVars,
                   reader, events>>

\* Encoding numbers the packets of both ears, whether or not they can be sent.
Frame ==
    /\ pc = "frame" /\ playback
    /\ lag < Pause /\ ~Silent
    /\ seq' = Advance(1)
    /\ \/ ReserveFrame(AllHandles, TRUE) /\ todo' = AllHandles /\ Goto("send")
       \/ ReserveFrame(AllHandles, FALSE) /\ Goto("pace") /\ UNCHANGED todo
    /\ span' = 0
    /\ UNCHANGED <<playback, lag, age, slots, disc, pending, rebuilds, queued, ctlVars,
                   reader, events>>

\* A microphone-only plan sleeps and goes round again.
MicrophoneOnly == pc = "frame" /\ ~playback /\ Stay("top")

\* One synchronous USB write.  The controller drops a packet for a channel it
\* no longer has.
SendPacket ==
    /\ pc = "send" /\ todo # <<>>
    /\ held' = IF cis[Head(todo)] # "down" THEN [held EXCEPT ![Head(todo)] = @ + 1] ELSE held
    /\ todo' = Tail(todo)
    /\ UNCHANGED <<creditVars, playback, clockVars, pc, seq, slots, disc, pending,
                   rebuilds, queued, cis, acl, reader, events>>

SendFails ==
    /\ pc = "send" /\ todo # <<>>
    /\ Return("failed")

\* Both writes together took an interval or more.
SendTooSlow ==
    /\ pc = "send" /\ todo = <<>>
    /\ Streams > 1 /\ span >= Interval
    /\ Return("rebuild")

\* Mutant: a missed interval is made up for by sending at once.
PaceCatchingUp ==
    /\ pc \in {"send", "pace"} /\ todo = <<>>
    /\ Streams = 1 \/ span < Interval
    /\ slots' = (slots + 1) % NumberSpace
    /\ lag' = lag - Interval
    /\ Goto(IF lag < Interval THEN "sleep" ELSE "top")
    /\ span' = 0
    /\ UNCHANGED <<creditVars, playback, age, seq, disc, todo, pending, rebuilds, queued,
                   ctlVars, reader, events>>

\* next_deadline += frame_interval, and whole intervals already missed are
\* skipped on both ears at once.
Pace ==
    /\ pc \in {"send", "pace"} /\ todo = <<>>
    /\ Streams = 1 \/ span < Interval
    /\ LET late   == lag - Interval
           missed == IF late >= 0 THEN late \div Interval ELSE 0
       IN /\ slots' = (slots + 1 + missed) % NumberSpace
          /\ seq' = Advance(missed)
          /\ lag' = late - missed * Interval
          /\ Goto(IF late < 0 THEN "sleep" ELSE "top")
    /\ span' = 0
    /\ UNCHANGED <<creditVars, playback, age, disc, todo, pending, rebuilds, queued,
                   ctlVars, reader, events>>

Wake == pc = "sleep" /\ lag >= 0 /\ Stay("top")
-----------------------------------------------------------------------------
(* The host: teardown by the caller (release_cis, release_isochronous) and   *)
(* the next group.                                                           *)

\* Disconnect every channel; one the controller no longer has is not waited for.
\* The commands move the events before their answers to queued_events.
ReleaseCis ==
    /\ pc \in {"cisLost", "rebuild", "yielded"} /\ reader
    /\ pending' = {h \in Handles : cis[h] # "down"}
    /\ cis' = [h \in Handles |-> IF cis[h] = "up" THEN "closing" ELSE cis[h]]
    /\ queued' = queued \o Kept(events)
    /\ events' = <<>>
    /\ Goto("releasing")
    /\ UNCHANGED <<creditVars, playback, clockVars, seq, slots, disc, todo, rebuilds,
                   held, acl, reader>>

Matches(e) == e.type = "closed" /\ e.handle \in pending

FirstMatch(q, i) == Matches(q[i]) /\ \A j \in 1..(i - 1) : ~Matches(q[j])

\* wait_for_event: the queued events first, then the pump's, of which the bulk ones
\* are thrown away and the rest is queued.
AwaitClosed ==
    /\ pc = "releasing" /\ pending # {} /\ reader
    /\ \/ \E i \in DOMAIN queued :
             /\ FirstMatch(queued, i)
             /\ pending' = pending \ {queued[i].handle}
             /\ queued' = RemoveAt(queued, i)
             /\ UNCHANGED events
       \/ /\ \A i \in DOMAIN queued : ~Matches(queued[i])
          /\ \E i \in DOMAIN events :
                /\ FirstMatch(events, i)
                /\ pending' = pending \ {events[i].handle}
                /\ queued' = queued \o Kept(SubSeq(events, 1, i - 1))
                /\ events' = SubSeq(events, i + 1, Len(events))
    /\ UNCHANGED <<creditVars, playback, clockVars, pc, seq, slots, disc, todo, rebuilds,
                   ctlVars, reader>>

\* Three seconds without the answer: Remove CIG is refused, the handles are kept.
AwaitTimesOut ==
    /\ pc = "releasing" /\ \E h \in pending : cis[h] # "down"
    /\ Stay("rebuild")

\* Remove CIG, and the next attempt.  The controller refuses while a channel of
\* the group exists, and the handles are disconnected once more.
RemoveRefused ==
    /\ pc = "releasing" /\ pending = {} /\ reader
    /\ \E h \in Handles : cis[h] # "down"
    /\ Goto("rebuild")
    /\ UNCHANGED <<creditVars, playback, clockVars, seq, slots, disc, todo, pending,
                   rebuilds, queued, ctlVars, reader, events>>

\* take_disconnection_reason finds the ACL loss wherever the event was put.
FindLoss ==
    /\ pc \in {"rebuild", "cisLost", "yielded", "releasing"}
    /\ \E i \in DOMAIN (queued \o events) : (queued \o events)[i] = Closed(Acl)
    /\ Stay("lost")

Rebuild ==
    /\ pc = "releasing" /\ pending = {} /\ reader /\ acl
    /\ \A h \in Handles : cis[h] = "down"
    /\ rebuilds < MaxRebuilds
    /\ rebuilds' = rebuilds + 1
    /\ cis' = [h \in Handles |-> "up"]
    /\ queued' = queued \o Kept(events)
    /\ events' = <<>>
    /\ Goto("setup") /\ FreshLocals
    /\ UNCHANGED <<playback, pending, held, acl, reader>>

ReleaseFails ==
    /\ pc \in {"cisLost", "rebuild", "yielded", "releasing"} /\ ~reader
    /\ Stay("silent")
-----------------------------------------------------------------------------
(* The controller, the radio and time. *)

\* Bound: what the controller does when nobody reads it any more, or after the call
\* has returned for good, is left out; no step of the host depends on it.
Emit(e) ==
    /\ reader /\ pc \notin {"stopped", "lost", "silent", "failed"}
    /\ Len(events) < MaxEvents /\ events' = Append(events, e)

\* It sends some of the packets it holds for a channel and reports them.
Transmit ==
    /\ \E h \in Handles : \E n \in 1..held[h] :
         /\ acl /\ cis[h] # "down"
         /\ held' = [held EXCEPT ![h] = @ - n]
         /\ Emit(Completed(h, n))
    /\ UNCHANGED <<creditVars, playback, clockVars, hostVars, cis, acl, reader>>

\* A channel ends, asked for or not: what it held is flushed and not reported.
CisEnds ==
    /\ \E h \in Handles :
         /\ cis[h] # "down"
         /\ cis' = [cis EXCEPT ![h] = "down"]
         /\ held' = [held EXCEPT ![h] = 0]
         /\ Emit(Closed(h))
    /\ UNCHANGED <<creditVars, playback, clockVars, hostVars, acl, reader>>

\* The link ends; its channels have ended before, or their ends are reported after
\* it, or nobody hears of them any more.
AclEnds ==
    /\ acl /\ acl' = FALSE
    /\ Emit(Closed(Acl))
    /\ UNCHANGED <<creditVars, playback, clockVars, hostVars, held, cis, reader>>

ReaderEnds ==
    /\ reader /\ reader' = FALSE
    /\ UNCHANGED <<creditVars, playback, clockVars, hostVars, ctlVars, events>>

Tick ==
    /\ pc \in {"frame", "send", "pace", "sleep"}
    /\ lag < MaxLag
    /\ lag' = IF playback THEN lag + 1 ELSE lag
    /\ span' = IF pc = "send" THEN Smaller(span + 1, Interval) ELSE span
    /\ age' = [h \in Handles |-> Smaller(age[h] + 1, Stalled)]
    /\ UNCHANGED <<creditVars, playback, hostVars, ctlVars, reader, events>>
-----------------------------------------------------------------------------
Drain == DrainClosed \/ DrainCompleted \/ DrainEnd
Loop == Top \/ Drain \/ FrameLeaves \/ Frame \/ MicrophoneOnly
        \/ SendPacket \/ SendTooSlow \/ Pace \/ Wake
Setup == SetupDone \/ SetupFails
Teardown == ReleaseCis \/ AwaitClosed \/ AwaitTimesOut \/ RemoveRefused \/ FindLoss \/ Rebuild \/ ReleaseFails
Environment == Transmit \/ CisEnds \/ AclEnds \/ ReaderEnds

StreamNext == Setup \/ SetupCommand \/ Loop \/ SendFails \/ Teardown \/ Environment \/ Tick

StreamSpec == StreamInit /\ [][StreamNext]_allVars

(***************************************************************************)
(* The thread running the loop is scheduled and time passes.  Nothing      *)
(* forces the controller to send a packet, a channel to be lost or the     *)
(* user to act.                                                            *)
(***************************************************************************)
Fairness ==
    /\ WF_allVars(Setup) /\ WF_allVars(Loop) /\ WF_allVars(Tick)
FairStreamSpec == StreamSpec /\ Fairness
-----------------------------------------------------------------------------
(***************************************************************************)
(* The host's account of the controller's buffers is exact: while the loop *)
(* runs, each packet outstanding on a live channel is in the controller,   *)
(* in an unread completion, or about to be written.  A frame refused for   *)
(* its second ear after the first was counted, or a completion of the      *)
(* previous group counted here, would break it.                            *)
(***************************************************************************)
\* What the reports of q give back, packet by packet.
Packets(q, h) ==
    UNION {{i} \X (1..q[i].count) :
             i \in {j \in DOMAIN q : q[j].type = "completed" /\ q[j].handle = h}}

Reported(h) == Cardinality(Packets(events, h))
Unwritten(h) == IF \E i \in DOMAIN todo : todo[i] = h THEN 1 ELSE 0
ExactAccounting ==
    pc \in InLoop =>
      \A h \in Handles : cis[h] = "up" =>
          outstanding[h] = held[h] + Reported(h) + Unwritten(h)

(***************************************************************************)
(* Both ears stay on one timeline: at the top of the loop each channel's   *)
(* next sequence number is the number of SDU intervals that have passed,   *)
(* through dropped frames, missed intervals and the 16-bit wrap.           *)
(***************************************************************************)
EarsInStep ==
    pc \in InLoop \ {"send", "pace"} => \A h \in Handles : seq[h] = slots

(***************************************************************************)
(* After a stall the loop never sends a burst to catch up: when a frame is *)
(* begun after pacing, next_deadline is less than one interval in the      *)
(* past and never more than one in the future.                             *)
(***************************************************************************)
NoCatchUpBurst ==
    [][Pace => lag' \in (-Interval)..(Interval - 1)]_allVars

Playing == pc \in InLoop

(***************************************************************************)
(* The loop does not go on in silence: while it plays, a frame is admitted *)
(* again and again, or it ends.  Frames are refused for both ears together *)
(* as long as one has no buffer; that buffers of an ear which never come   *)
(* back, for whatever reason, end the loop is what last_delivery is for.   *)
(***************************************************************************)
FramesFlow == []<>(Playing /\ playback => pc = "send")

\* With playback in the plan, the link or one ear's channel has ended, wherever
\* its event went.
PlaybackLoss == playback /\ (~acl \/ \E h \in Handles : cis[h] = "down")

\* The loop has yet to read of the link's end, or has just done so; microphone-only
\* plans included.
UnreadLoss == Acl \in disc \/ \E i \in DOMAIN events : events[i] = Closed(Acl)

(***************************************************************************)
(* "Once the peer is gone there is nothing to play to": the loop never     *)
(* goes on for ever with a loss, which lasts until the loop ends - it does *)
(* not go on encoding for a link that is gone, playing to the other ear    *)
(* alone, or waiting for an adapter that was pulled out (the drain,        *)
(* silence, and pump().alive()).  A microphone-only stream whose link was  *)
(* lost before the loop began, and read by a command's wait, is what none  *)
(* of them ends.                                                           *)
(***************************************************************************)
LossEndsLoop == []<>(Playing => ~PlaybackLoss /\ ~UnreadLoss /\ reader)
=============================================================================
