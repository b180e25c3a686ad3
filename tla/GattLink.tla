------------------------------ MODULE GattLink ------------------------------
(***************************************************************************)
(* struct Link of dev/core/src/link.rs over the pump's two channels: ATT   *)
(* requests without transaction numbers, long reads, discovery with its    *)
(* caches, the approved write targets, SMP exchanges, and whatever the     *)
(* peer sends on its own account in between (notifications, its own MTU    *)
(* exchange, GATT requests, signalling).  Frames arrive in ACL fragments,  *)
(* between fragments of other connections.                                 *)
(*                                                                         *)
(* What the caller does is a script: a sequence of operations, each of     *)
(* which either has to succeed ("must") or is best effort.                 *)
(***************************************************************************)
EXTENDS HciPump, FiniteSets

CONSTANTS MaxExtras,    \* bound: frames and fragments nobody asked for, and failures
          MaxEvents,    \* bound: events that are not the loss of the link
          MaxConns,     \* bound: connections
          MaxValue,     \* longest attribute value, in units (512 bytes)
          Batches,      \* responses one discovery takes
          SubSlots      \* descriptors a WritePolicy holds (4)

ASSUME LinkAssumption ==
    {MaxExtras, MaxEvents, MaxConns, MaxValue, Batches, SubSlots} \subseteq Nat

VARIABLES
    up,             \* the controller still has the connection
    conn,           \* which connection this is
    inbox,          \* what we sent and the peer has not looked at
    peerMtu,        \* the MTU the peer uses
    size,           \* length of the attribute being read
    extras, emitted,    \* counters for the bounds
    calls,          \* calls made on this connection
    pc,             \* "idle", "send", "watch", "take"
    script, step,   \* what the caller is doing
    tag,            \* serial number of the last request, modulo 2
    answered,       \* the request the last accepted response belonged to
    request,        \* kind of the request that is out
    unavailable,    \* att_unavailable
    reason,         \* disconnected_reason is set
    told,           \* the session knows the link is lost, or has given it up
    taken,          \* events the session has taken for itself
    mtu,
    buffer,         \* AclReassembler: the fragments of the frame so far
    whole,          \* every frame handed on was put together from its own parts
    walked,         \* discovery: batches received in the walk under way
    cache,          \* characteristics cached, in batches; -1: nothing cached
    value,          \* the long read: [got, last, moved]
    readOk,         \* the values returned were whole, as far as the MTU stood still
    slots           \* subscriptions the write policy holds

peerVars == <<up, conn, inbox, peerMtu, size, extras, emitted>>
callVars == <<script, step, calls>>
readVars == <<value, readOk, walked, cache>>
bearerVars == <<tag, answered, request, unavailable>>
vars == <<pumpVars, peerVars, callVars, pc, bearerVars,
          reason, told, taken, mtu, buffer, whole, readVars, slots>>

SmallMtu == 2   \* ATT_DEFAULT_MTU: a chunk of one unit
BigMtu   == 3   \* ATT_PREFERRED_MTU: a chunk of two
-----------------------------------------------------------------------------
(* The scripts.                                                            *)

S(do, must) == [do |-> do, must |-> must]

\* What connect_device does with a new link, and play_on after it.  Services,
\* characteristics and reads stand for several of their kind.
PairScript == << S("smp", TRUE), S("listen", TRUE) >>

CapabilitiesScript ==
    << S("mtu", TRUE), S("list", TRUE), S("contexts", FALSE), S("read", TRUE),
       S("volume", FALSE) >>

PlayScript == << S("list", TRUE), S("ascs", TRUE), S("write", TRUE) >>

Script(name) ==
    CASE name = "pair" -> PairScript
      [] name = "capabilities" -> CapabilitiesScript
      [] OTHER -> PlayScript

Calls == << "pair", "capabilities", "play" >>

Doing == Script(script)[step].do
Subscription == {"contexts", "volume", "ascs"}
Offered == {"contexts", "volume"}

\* The opcode an operation sends first.
FirstOp(do) ==
    CASE do = "mtu" -> "mtu"
      [] do = "list" -> "group"
      [] do = "read" -> "read"
      [] do \in Subscription \cup {"write"} -> "write"
      [] do \in {"smp", "listen"} -> "smp"

NoRead == [got |-> 0, last |-> 0, moved |-> FALSE]

LinkNew ==      \* Link::new
    /\ unavailable' = FALSE /\ reason' = FALSE /\ mtu' = SmallMtu
    /\ buffer' = <<>> /\ cache' = -1 /\ slots' = {} /\ walked' = 0
    /\ value' = NoRead

Init ==
    /\ PumpInit
    /\ up = TRUE /\ conn = 1 /\ inbox = <<>> /\ peerMtu = SmallMtu
    /\ size = 0 /\ extras = 0 /\ emitted = 0 /\ calls = 0
    /\ pc = "idle" /\ script = "none" /\ step = 1
    /\ tag = 0 /\ answered = 0 /\ request = "none" /\ unavailable = FALSE
    /\ reason = FALSE /\ told = FALSE /\ taken = 0 /\ mtu = SmallMtu
    /\ buffer = <<>> /\ whole = TRUE /\ walked = 0 /\ cache = -1
    /\ value = NoRead /\ readOk = TRUE
    /\ slots = {}
-----------------------------------------------------------------------------
(* Frames and fragments.                                                   *)

\* A response comes in two fragments, anything else in one.
Frame(k, op, res, n) ==
    [k |-> k, op |-> op, res |-> res, n |-> n, tag |-> 0, conn |-> conn,
     parts |-> IF k = "rsp" THEN 2 ELSE 1]

Fragment(own, start, frame) == [own |-> own, start |-> start, frame |-> frame]

\* build_acl_packets, and the same on the peer's side.
Fragments(frame) ==
    [i \in 1..frame.parts |-> Fragment(TRUE, i = 1, frame)]

Foreign == [k |-> "foreign", op |-> "none", res |-> "none", n |-> 0,
            tag |-> 0, conn |-> 0, parts |-> 2]

\* AclReassembler::push: the fragments held once this one has been looked at.
Push(p) ==
    CASE ~p.own -> buffer
      [] p.own /\ p.start -> <<p>>
      [] p.own /\ ~p.start /\ buffer = <<>> -> <<>>
      [] OTHER -> Append(buffer, p)

Complete(b) == b # <<>> /\ Len(b) = b[1].frame.parts
-----------------------------------------------------------------------------
(* The caller.                                                             *)

\* What becomes of the script when an operation ends.  One that had to succeed
\* and did not makes the session disconnect.
Advance(ok) ==
    /\ IF (ok \/ ~Script(script)[step].must) /\ step < Len(Script(script))
       THEN step' = step + 1 /\ pc' = "send" /\ UNCHANGED script
       ELSE step' = 1 /\ pc' = "idle" /\ script' = "none"
    /\ told' = (told \/ (~ok /\ Script(script)[step].must))

Call ==
    /\ pc = "idle" /\ ~reason /\ ~told
    /\ calls < Len(Calls) /\ calls' = calls + 1
    /\ script' = Calls[calls + 1] /\ step' = 1 /\ pc' = "send"
    /\ UNCHANGED <<pumpVars, peerVars, bearerVars, reason, told, taken, mtu, buffer,
                   whole, readVars, slots>>

\* Mutant: an earlier timeout is forgotten.
BearerRefusesNever == FALSE

BearerRefuses == unavailable

\* allow_subscription: a set of fixed size, silently full.
Approve(h) ==
    IF h \in slots \/ Cardinality(slots) = SubSlots THEN slots ELSE slots \cup {h}

\* An operation that needs no packet: a cached discovery, a write the policy
\* refuses, a bearer that has been given up.
NoSend ==
    /\ pc = "send"
    /\ LET cached == Doing = "list" /\ cache # -1
           unapproved == Doing \in Subscription /\ Doing \notin Approve(Doing)
       IN /\ cached \/ unapproved \/ (FirstOp(Doing) # "smp" /\ BearerRefuses)
          /\ slots' = IF Doing \in Subscription THEN Approve(Doing) ELSE slots
          /\ Advance(cached)
    /\ UNCHANGED <<pumpVars, peerVars, calls, bearerVars,
                   reason, taken, mtu, buffer, whole, readVars>>

\* A service or characteristic the headset does not offer, or not with
\* notifications, is left alone.
NotOffered ==
    /\ pc = "send" /\ Doing \in Offered
    /\ Advance(TRUE)
    /\ UNCHANGED <<pumpVars, peerVars, calls, bearerVars,
                   reason, taken, mtu, buffer, whole, readVars, slots>>

\* request_inner up to its loop.  The packets may not go out.
Post(op, n, sent) ==
    /\ IF op = "smp" THEN UNCHANGED <<tag, request>>
       ELSE /\ tag' = 1 - tag /\ request' = op
    /\ inbox' = IF sent /\ up
                THEN Append(inbox, [op |-> op, tag |-> tag', n |-> n]) ELSE inbox

\* A "listen" sends nothing: what it puts in the peer's inbox is the step of the
\* pairing the peer takes next by itself.
Begin(sent) ==
    LET op == FirstOp(Doing) IN
    /\ pc = "send"
    /\ op = "smp" \/ ~BearerRefuses
    /\ ~(Doing = "list" /\ cache # -1)
    /\ Doing \in Subscription => Doing \in Approve(Doing)
    /\ slots' = IF Doing \in Subscription THEN Approve(Doing) ELSE slots
    /\ Post(op, IF op = "group" THEN 1 ELSE 0, sent)
    /\ unavailable' = (unavailable \/ op # "smp")
    /\ value' = NoRead /\ walked' = 0
    /\ IF sent THEN pc' = "watch" /\ UNCHANGED <<script, step, told>> ELSE Advance(FALSE)
    /\ sent \/ (extras < MaxExtras /\ Doing # "listen")
    /\ extras' = IF sent THEN extras ELSE extras + 1
    /\ UNCHANGED <<pumpVars, up, conn, peerMtu, size, emitted, calls, answered,
                   reason, taken, mtu, buffer, whole, readOk, cache>>

\* recv_acl_watching_link, the first half: look for the loss of the link.
Watch ==
    /\ pc = "watch"
    /\ IF reason
       THEN /\ Advance(FALSE)
            /\ UNCHANGED <<held, events, reason>>
       ELSE /\ Inspect
            /\ reason' = (LossAt # 0)
            /\ IF LossAt # 0 THEN Advance(FALSE)
               ELSE pc' = "take" /\ UNCHANGED <<script, step, told>>
    /\ UNCHANGED <<alive, acl, peerVars, calls, bearerVars,
                   taken, mtu, buffer, whole, readVars, slots>>

\* Mutant: each poll of 100 ms sets the deadline anew, so it never passes.
DeadlineMoves == FALSE

DeadlineStands == TRUE

\* Then at the clock: the deadline of the request has passed.
TimesOut ==
    /\ pc = "watch" /\ LossAt = 0 /\ ~reason
    /\ DeadlineStands
    /\ Inspect
    /\ Advance(FALSE)
    /\ UNCHANGED <<alive, acl, peerVars, calls, bearerVars, reason,
                   taken, mtu, buffer, whole, readVars, slots>>

\* The second half finds nothing within 100 ms and goes round, or finds the
\* channel closed.
PollsAgain ==
    /\ pc = "take" /\ acl = <<>>
    /\ IF Sealed THEN Advance(FALSE) ELSE pc' = "watch" /\ UNCHANGED <<script, step, told>>
    /\ UNCHANGED <<pumpVars, peerVars, calls, bearerVars, reason,
                   taken, mtu, buffer, whole, readVars, slots>>
-----------------------------------------------------------------------------
(* A frame has been put together.                                          *)

\* att_response_matches: the opcode of the request, and nothing else.
Matches(f) == f.k = "rsp" /\ f.op = request

\* What the peer sends on its own account and has answered over ATT: its MTU
\* exchange, and as "ask" an indication or a GATT request.  Everything else of its
\* own is a "note", which leaves the link as it is: a notification, a crossing
\* Security Request, and signalling, of which answer_signalling answers the
\* parameter request alone and carries on where that answer cannot be sent.
Asked == {"mtureq", "ask"}

\* An MTU request changes the MTU of the link, whatever is under way on it.
TakesMtu(f) ==
    /\ mtu' = IF f.k = "mtureq" THEN f.n ELSE mtu
    /\ value' = IF f.k = "mtureq" /\ f.n # mtu THEN [value EXCEPT !.moved = TRUE] ELSE value

Ignored ==
    /\ pc' = "watch"
    /\ UNCHANGED <<script, step, told, tag, request, answered, unavailable, readOk, walked, cache>>

\* peer_att_reply and media::serve, on every read path of a call.
Reply(f) ==
    /\ Ignored
    /\ TakesMtu(f)
    /\ peerMtu' = IF f.k = "mtureq" /\ f.conn = conn THEN BigMtu ELSE peerMtu

\* The reply cannot be sent: what was waiting for its own answer fails with it.
\* The peer's MTU has been taken over by then.
ReplyFails(f) ==
    /\ f.k \in Asked
    /\ Advance(FALSE)
    /\ TakesMtu(f)
    /\ UNCHANGED <<peerMtu, bearerVars, readOk, walked, cache>>

\* The operation ends with this response.
Done(ok) ==
    /\ Advance(ok)
    /\ unavailable' = FALSE
    /\ UNCHANGED <<tag, request>>

\* Another request of the same operation.
GoesOn(op, n) ==
    /\ pc' = "watch" /\ UNCHANGED <<script, step, told>>
    /\ Post(op, n, TRUE)
    /\ UNCHANGED unavailable

\* discover_services and discover_characteristics: a batch, the last batch, or
\* "attribute not found"; the walk is cached when it is over.
ListResponse(f) ==
    /\ UNCHANGED <<value, readOk, mtu>>
    /\ CASE f.res = "none"  -> Done(TRUE) /\ cache' = walked /\ UNCHANGED <<walked, inbox>>
         [] f.res = "last"  -> Done(TRUE) /\ walked' = walked + 1 /\ cache' = walked + 1
                               /\ UNCHANGED inbox
         [] f.res = "more"  -> walked' = walked + 1 /\ GoesOn("group", walked + 2)
                               /\ UNCHANGED cache
         [] OTHER -> Done(FALSE) /\ UNCHANGED <<walked, cache, inbox>>

\* Mutant: the chunk is compared with the MTU, not with what fits into it.
FullChunkOfMtu(n) == n = mtu

FullChunk(n) == n = mtu - 1

\* read_attribute_value: go on while a chunk fills the MTU of the moment.
ReadResponse(f) ==
    /\ UNCHANGED <<walked, cache, mtu>>
    /\ LET got == value.got + f.n
           v == [value EXCEPT !.got = got, !.last = f.n]
           blob == request = "blob"
           returned(x) == readOk /\ (x.moved \/ x.got = size)
       IN CASE f.res = "ok" /\ FullChunk(f.n) /\ got < MaxValue ->
                 /\ value' = v /\ GoesOn("blob", got) /\ UNCHANGED readOk
            [] f.res = "ok" /\ ~(FullChunk(f.n) /\ got < MaxValue) ->
                 /\ Done(got <= MaxValue) /\ UNCHANGED inbox
                 /\ readOk' = (got > MaxValue \/ returned(v)) /\ value' = NoRead
            [] blob /\ (f.res = "offset" \/ (f.res = "notlong" /\ value.got = value.last)) ->
                 /\ Done(TRUE) /\ readOk' = returned(value) /\ value' = NoRead /\ UNCHANGED inbox
            [] OTHER -> Done(FALSE) /\ value' = NoRead /\ UNCHANGED <<readOk, inbox>>

\* exchange_mtu, or the answer to a write.
ShortResponse(f) ==
    /\ Done(f.res = "ok")
    /\ mtu' = IF request = "mtu" /\ f.res = "ok" THEN f.n ELSE mtu
    /\ UNCHANGED <<value, readOk, walked, cache, inbox>>

Response(f) ==
    /\ answered' = f.tag
    /\ UNCHANGED peerMtu
    /\ CASE request = "group" -> ListResponse(f)
         [] request \in {"read", "blob"} -> ReadResponse(f)
         [] OTHER -> ShortResponse(f)

\* smp_receive: Security Requests that cross are skipped, everything that is
\* not SMP is served.
SmpFrame(f) ==
    /\ Advance(TRUE)
    /\ UNCHANGED <<mtu, peerMtu, inbox, value, bearerVars, readOk, walked, cache>>

Take ==
    /\ pc = "take" /\ acl # <<>>
    /\ acl' = Tail(acl)
    /\ LET b == Push(Head(acl))
           f == b[1].frame
       IN IF ~Complete(b)
          THEN /\ buffer' = b
               /\ Ignored /\ UNCHANGED <<mtu, peerMtu, inbox, value, whole>>
          ELSE /\ buffer' = <<>>
               /\ whole' = (whole /\ \A i \in DOMAIN b : b[i].frame = f /\ f.conn = conn)
               /\ CASE FirstOp(Doing) = "smp" /\ f.k = "smp" -> SmpFrame(f)
                    [] FirstOp(Doing) # "smp" /\ Matches(f) -> Response(f)
                    [] OTHER -> (Reply(f) \/ ReplyFails(f)) /\ UNCHANGED inbox
    /\ UNCHANGED <<alive, held, events, up, conn, size, extras,
                   emitted, calls, reason, taken, slots>>
-----------------------------------------------------------------------------
(* The peer, as the code relies on it: it answers requests in their order, *)
(* as late as it likes, and keeps to the MTU it knows.                     *)

Answers(r) ==
    LET room == peerMtu - 1
        rest == size' - r.n
        chunk == IF rest < room THEN rest ELSE room
    IN CASE r.op = "mtu" -> {<<"ok", BigMtu>>, <<"error", 0>>}
         [] r.op = "group" -> IF r.n > Batches THEN {<<"none", 0>>}
                              ELSE IF r.n = Batches THEN {<<"more", 0>>, <<"last", 0>>}
                              ELSE {<<"more", 0>>, <<"error", 0>>}
         [] r.op = "read" -> {<<"ok", chunk>>, <<"error", 0>>}
         [] r.op = "blob" -> IF rest > 0 THEN {<<"ok", chunk>>}
                             ELSE {<<"ok", 0>>, <<"offset", 0>>}
                                  \cup (IF size' <= room THEN {<<"notlong", 0>>} ELSE {})
         [] r.op = "write" -> {<<"ok", 0>>, <<"error", 0>>}
         [] r.op = "smp" -> {<<"ok", 0>>}

\* The ACL thread passes a frame on, fragment by fragment; a fragment of another
\* connection or of the microphone may come in between.
Delivers(frame) ==
    LET f == Fragments(frame) IN
    /\ ReaderPasses
    /\ \/ acl' = acl \o f /\ UNCHANGED extras
       \/ /\ frame.parts = 2 /\ extras < MaxExtras /\ extras' = extras + 1
          /\ \E start \in BOOLEAN : acl' = acl \o <<f[1], Fragment(FALSE, start, Foreign), f[2]>>

\* The answer may still be read after the link is gone.
PeerAnswers ==
    /\ inbox # <<>>
    /\ LET r == Head(inbox) IN
       /\ size' \in CASE r.op = "read" -> 0..MaxValue
                       [] r.op \in {"blob", "smp"} -> {size}
                       [] OTHER -> {0}
       /\ \E a \in Answers(r) :
             /\ Delivers([Frame(IF r.op = "smp" THEN "smp" ELSE "rsp", r.op, a[1], a[2])
                            EXCEPT !.tag = r.tag])
             /\ peerMtu' = IF r.op = "mtu" /\ a[1] = "ok" THEN a[2] ELSE peerMtu
    /\ inbox' = Tail(inbox)
    /\ UNCHANGED <<held, events, up, conn, emitted, callVars, pc,
                   bearerVars, reason, told, taken, mtu, buffer, whole, readVars, slots>>

\* Something the peer sends on its own account.
PeerSpeaks ==
    /\ up /\ extras < MaxExtras /\ extras' = extras + 1
    /\ ReaderPasses
    /\ \E k \in Asked \cup {"note"} :
         /\ k = "mtureq" => peerMtu = SmallMtu
         /\ acl' = acl \o Fragments(Frame(k, "none", "none", BigMtu))
    /\ UNCHANGED <<held, events, up, conn, inbox, peerMtu, size, emitted, callVars, pc,
                   bearerVars, reason, told, taken, mtu, buffer, whole, readVars,
                   slots>>

\* An event that is not the loss of the link arrives where somebody may look at
\* the channel next; earlier or later in between makes no difference.
EventArrives ==
    /\ ReaderPasses
    /\ \/ /\ pc \in {"idle", "watch"}
          /\ emitted < MaxEvents /\ emitted' = emitted + 1
          /\ events' = Append(events, emitted + 1) /\ UNCHANGED up
       \/ /\ up /\ up' = FALSE
          /\ events' = Append(events, Lost) /\ UNCHANGED emitted
    /\ UNCHANGED <<held, acl, conn, inbox, peerMtu, size, extras, callVars, pc,
                   bearerVars, reason, told, taken, mtu, buffer, whole, readVars,
                   slots>>

-----------------------------------------------------------------------------
(* The adapter, the session, and the next connection.                      *)

Rest == <<held, events, acl, up, conn, inbox, peerMtu, size, emitted, callVars,
          pc, bearerVars, reason, told, taken, mtu, buffer, whole, readVars, slots>>

\* The adapter is unplugged, or a read has failed too often.
PumpDies ==
    /\ extras < MaxExtras /\ extras' = extras + 1
    /\ ReadersEnd
    /\ UNCHANGED Rest

\* Between operations the session takes events for itself.
SessionTakes ==
    /\ pc = "idle" /\ Waiting # <<>>
    /\ RecvEvent
    /\ told' = (told \/ Head(Waiting) = Lost)
    /\ taken' = IF Head(Waiting) = Lost THEN taken ELSE taken + 1
    /\ UNCHANGED <<alive, acl, peerVars, callVars, pc, bearerVars,
                   reason, mtu, buffer, whole, readVars, slots>>

\* The start of connect_until: every event and every ACL packet is discarded.
Silence == held' = <<>> /\ events' = <<>> /\ acl' = <<>>

\* A connection attempt gets through.  The new connection may have the handle
\* of the old one.  Assumed: when the attempt begins, the ACL pipe holds nothing of
\* the old connection any more; packets are discarded once, before the request, and
\* one that came between the discard and the connection would be taken for its own.
Reconnect ==
    /\ pc = "idle" /\ (reason \/ told) /\ ~up /\ alive
    /\ conn < MaxConns
    /\ Silence
    /\ LinkNew
    /\ up' = TRUE /\ conn' = conn + 1 /\ inbox' = <<>> /\ peerMtu' = SmallMtu
    /\ told' = FALSE /\ calls' = 0 /\ taken' = emitted
    /\ UNCHANGED <<alive, size, extras, emitted, pc, script, step, tag, answered, request,
                   whole, readOk>>

Next ==
    \/ Call
    \/ \E sent \in BOOLEAN : Begin(sent)
    \/ NoSend \/ NotOffered \/ Watch \/ TimesOut \/ PollsAgain \/ Take
    \/ PeerAnswers \/ PeerSpeaks \/ EventArrives
    \/ PumpDies \/ SessionTakes \/ Reconnect

Spec == Init /\ [][Next]_vars

\* The program's own thread keeps running, clocks advance, and a read of the
\* pump returns within the pipe's timeout.  Nothing is asked of the peer.
Fairness ==
    /\ WF_vars(Begin(TRUE)) /\ WF_vars(NoSend) /\ WF_vars(Watch)
    /\ WF_vars(PollsAgain) /\ WF_vars(Take) /\ SF_vars(TimesOut)

FairSpec == Spec /\ Fairness
-----------------------------------------------------------------------------
TypeOK ==
    /\ PumpTypeOK
    /\ pc \in {"idle", "send", "watch", "take"}
    /\ mtu \in {SmallMtu, BigMtu} /\ peerMtu \in {SmallMtu, BigMtu}
    /\ tag \in 0..1 /\ answered \in 0..1
    /\ slots \subseteq Subscription /\ Cardinality(slots) <= SubSlots
    /\ cache \in -1..(Batches + 1) /\ taken \in 0..emitted
    /\ \A b \in {unavailable, reason, told, whole} : b \in BOOLEAN

EventsInOrder ==
    LET news == {i \in DOMAIN Waiting : Waiting[i] # Lost}
    IN /\ {Waiting[i] : i \in news} = (taken + 1)..emitted
       /\ \A i, j \in news : i < j => Waiting[i] < Waiting[j]

LossNotForgotten ==
    ~up => reason \/ told \/ \E i \in DOMAIN Waiting : Waiting[i] = Lost

\* Looking for the loss of the link leaves every other event where it was, in
\* the order in which it came (recv_acl_watching_link, put_back_events).  The
\* loss itself is reported once: whoever takes that event remembers it, the link
\* (disconnected_reason) or the session that took it between calls.
NewsKept == EventsInOrder /\ LossNotForgotten

FramesWhole == whole
ReadWhole == readOk
CacheWhole == cache \in {-1, Batches}

\* What is put together is whole.  A frame consists of its own fragments and
\* belongs to this connection, whatever else comes over the bulk pipe and even
\* under a reused handle (AclReassembler::for_connection, discard_acl).  A value
\* returned is the attribute's whole value, however it fell into chunks, unless
\* the peer changed the MTU in the middle: then the length of a chunk is compared
\* with an MTU it was not cut for (read_attribute_value, peer_att_reply).  Only a
\* discovery that reached its end is cached (services_cache).
DataWhole == FramesWhole /\ ReadWhole /\ CacheWhole

\* Every call ends, with the link lost, the peer silent or a reader dead.
CallEnds == pc # "idle" ~> pc = "idle"

AnswerToBearer ==
    INSTANCE AttBearer WITH
        bearer <- IF ~unavailable THEN "free"
                  ELSE IF pc \in {"watch", "take"} /\ FirstOp(Doing) # "smp" THEN "busy"
                  ELSE "dead",
        asked <- tag

\* The link keeps what an ATT bearer promises: an answer belongs to the request
\* it is returned for, and an abandoned bearer is not used again (Link::request).
KeepsBearer == AnswerToBearer!BearerSpec
=============================================================================
