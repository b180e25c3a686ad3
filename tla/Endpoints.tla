----------------------------- MODULE Endpoints -----------------------------
(***************************************************************************)
(* How the agent brings the audio stream endpoints (ASEs) of a headset to  *)
(* Streaming, keeps them there and hands them back: Agent::play, play_on,  *)
(* wait_for_ase and wait_audio_recovery, Session::write_ascs,              *)
(* release_streams, prepare_isochronous, establish_prepared and            *)
(* release_isochronous, Link::begin_ascs_operation and check_ascs_errors,  *)
(* with the read-back checks of negotiation.rs.                            *)
(*                                                                         *)
(* Three parties move: the agent, step by step; the headset, whose         *)
(* endpoints follow the ASCS state machine and now and then move by        *)
(* themselves; and the controller, which opens and closes the channels and *)
(* reports it in events that may be read much later.                       *)
(***************************************************************************)
EXTENDS Integers, Sequences, FiniteSets, SequencesExt

CONSTANTS Plans,        \* what a plan asks of each endpoint: "sink" or "source"
          MaxTrouble,   \* bound: everything that goes wrong by itself
          MaxRounds     \* bound: attempts in one call of play

ASSUME EndpointsAssumption ==
    /\ Plans \subseteq [1..2 -> {"sink", "source"}]
    /\ {MaxTrouble, MaxRounds} \subseteq Nat

VARIABLES
    plan,       \* endpoint -> "sink" or "source"
    silent,     \* who moves no more by itself: "nobody", "headset", "controller"
    pc,         \* what the agent is doing
    then, after,    \* what follows the release of endpoints, of the channels
    result,     \* how the attempt went: "none" while it lasts
    confirmed,  \* endpoints read back as they should be, in the present step
    asked,      \* endpoints a Release was sent for
    configured, \* configured_ases is not empty
    recovering, rebuilds,   \* play(): recovering_since is set; failed_rebuilds
    opcode,     \* ascs_opcode
    notes,      \* control point notifications received and not looked at
    dead,       \* att_unavailable: a request went unanswered
    known,      \* last_cis_handles
    pending,    \* release_cis: channels whose end it waits for
    reported,   \* channels that reported, [ch, ok], in their order
    route,      \* the channel each endpoint's audio goes to
    ase,        \* headset: endpoint -> [state, fits, ch]
    air,        \* headset: notifications sent and not read
    linked,     \* controller: the ACL link is up
    group,      \* controller: the group exists
    waiting, open, closing,     \* controller: channels asked for, open, closing
    events,     \* controller's events about channels, not read yet
    slipped,    \* the headset or the link had a will of its own in this attempt
    misused, misblamed,     \* history, see OperationsFit
    late,       \* history: a teardown gave up on a channel's end, see NothingLeft
    round, trouble  \* counters for the bounds

agentVars == <<plan, silent, pc, then, after, result, confirmed, asked, configured,
               recovering, rebuilds, opcode, notes, dead, known, pending, reported, route>>
flowVars == <<plan, silent, then, after, result, configured, recovering, rebuilds, round>>
peerVars == <<ase, air>>
controllerVars == <<linked, group, waiting, open, closing, events>>
ghostVars == <<slipped, misused, misblamed, late>>
vars == <<agentVars, peerVars, controllerVars, ghostVars, round, trouble>>
Rest == <<peerVars, controllerVars, ghostVars>>
StepVars == <<confirmed, asked, opcode, notes, known, pending, reported, route>>

Endpoint == 1..2

\* A microphone shares the channel of the first ear.
Channel(e) == IF plan[e] = "source" THEN 1 ELSE e
Channels == {Channel(e) : e \in Endpoint}

Ase(state, fits, ch) == [state |-> state, fits |-> fits, ch |-> ch]
Idle == Ase("idle", FALSE, 0)
Foreign == Ase("qos", FALSE, 0)

Trouble == trouble < MaxTrouble /\ trouble' = trouble + 1
-----------------------------------------------------------------------------
Init ==
    /\ plan \in Plans /\ silent = "nobody"
    /\ pc = "plan" /\ then = "none" /\ after = "none" /\ result = "none"
    /\ confirmed = {} /\ asked = {} /\ configured = FALSE
    /\ recovering = FALSE /\ rebuilds = 0
    /\ opcode = "none" /\ notes = <<>> /\ dead = FALSE
    /\ known = {} /\ pending = {} /\ reported = <<>> /\ route = <<>>
    \* Whoever was connected before may have left an endpoint configured.
    /\ ase \in [Endpoint -> {Idle, Foreign}]
    /\ air = <<>>
    /\ linked = TRUE /\ group = FALSE /\ waiting = {} /\ open = {} /\ closing = {}
    /\ events = <<>>
    /\ slipped = FALSE /\ misused = FALSE /\ misblamed = FALSE /\ late = FALSE
    /\ round = 1 /\ trouble = 0
-----------------------------------------------------------------------------
(* The headset.                                                            *)

\* The transitions ASCS allows a client to ask for.
Legal(op, e) ==
    CASE op = "codec" -> ase[e].state \in {"idle", "codec", "qos"}
      [] op = "qos" -> ase[e].state \in {"codec", "qos"}
      [] op = "enable" -> ase[e].state = "qos"
      [] op = "ready" -> plan[e] = "source" /\ ase[e].state = "enabling"
      [] op = "release" -> ase[e].state \notin {"idle", "releasing"}

\* Where an accepted operation takes an endpoint.  It may settle on something
\* else than was asked for (a trouble).
Obeys(op, e, exactly) ==
    CASE op = "codec" -> Ase("codec", exactly, 0)
      [] op = "qos" -> Ase("qos", ase[e].fits, IF exactly THEN Channel(e) ELSE 3 - Channel(e))
      [] op = "enable" -> [ase[e] EXCEPT !.state = "enabling"]
      [] op = "ready" -> IF ase[e].ch \in open THEN [ase[e] EXCEPT !.state = "streaming"]
                         ELSE ase[e]
      [] op = "release" -> [ase[e] EXCEPT !.state = "releasing"]

\* The headset handles a write: its answer to the control point is a
\* notification, sent before it looks at the next write.
Handle(op, es, willing, exactly) ==
    LET good == {e \in es : willing /\ Legal(op, e)} IN
    /\ ase' = [e \in Endpoint |-> IF e \in good THEN Obeys(op, e, exactly) ELSE ase[e]]
    /\ air' = << [op |-> op, ok |-> good = es, round |-> round % 2] >>

\* By itself: a release comes to its end, with the codec cached or not, and a
\* sink starts as soon as its channel is open.
AseMoves ==
    /\ silent # "headset"
    /\ \E e \in Endpoint :
          \/ /\ ase[e].state = "releasing"
             /\ ase' \in {[ase EXCEPT ![e] = Idle], [ase EXCEPT ![e].state = "codec"]}
          \/ /\ ase[e].state = "enabling" /\ plan[e] = "sink" /\ ase[e].ch \in open
             /\ ase' = [ase EXCEPT ![e].state = "streaming"]
    /\ UNCHANGED <<agentVars, air, controllerVars, ghostVars, round, trouble>>

\* And unprompted: another host, a button, a lid.
AseSlips ==
    /\ linked /\ Trouble
    /\ \E e \in Endpoint :
          /\ ase[e].state \in {"qos", "enabling", "streaming"}
          /\ ase' = [ase EXCEPT ![e].state = "releasing"]
    /\ slipped' = TRUE
    /\ UNCHANGED <<agentVars, air, controllerVars, misused, misblamed, late, round>>
-----------------------------------------------------------------------------
(* The controller.                                                         *)

Ch(ch, kind) == [ch |-> ch, kind |-> kind]

ChannelOpens ==
    /\ linked /\ silent # "controller"
    /\ \E ch \in waiting :
          /\ waiting' = waiting \ {ch}
          /\ \/ /\ open' = open \cup {ch} /\ events' = Append(events, Ch(ch, "up"))
                /\ UNCHANGED <<closing, trouble>>
             \/ /\ Trouble /\ events' = Append(events, Ch(ch, "failed")) /\ UNCHANGED open
                /\ closing' = closing \ {ch}
    /\ UNCHANGED <<agentVars, peerVars, linked, group, ghostVars, round>>

\* A channel that was asked to close has closed.
ChannelCloses ==
    /\ silent # "controller"
    /\ \E ch \in closing :
          /\ closing' = closing \ {ch} /\ open' = open \ {ch} /\ waiting' = waiting \ {ch}
          /\ events' = Append(events, Ch(ch, "closed"))
          /\ ase' = [e \in Endpoint |-> IF ase[e].state = "streaming" /\ ase[e].ch = ch
                                        THEN [ase[e] EXCEPT !.state = "qos"] ELSE ase[e]]
    /\ UNCHANGED <<agentVars, air, linked, group, ghostVars, round, trouble>>

\* The link ends, and everything that hangs on it, in whatever order.
LinkLost ==
    /\ linked /\ Trouble
    /\ linked' = FALSE
    /\ open' = {} /\ waiting' = {} /\ closing' = {}
    /\ \E order \in SetToSeqs({Ch(ch, "closed") : ch \in open}) : events' = events \o order
    /\ ase' = [e \in Endpoint |-> Idle]
    /\ slipped' = TRUE
    /\ UNCHANGED <<agentVars, air, group, misused, misblamed, late, round>>

\* From now on the headset's endpoints stay where they are, or the controller
\* reports nothing more about channels.  Where nobody waits for it, to fall silent
\* makes no difference yet.  Bound: one of the two, since every wait is for one.
FallsSilent ==
    /\ silent = "nobody"
    /\ \/ pc = "polling" /\ silent' = "headset"
       \/ pc \in {"closing", "await"} /\ silent' = "controller"
    /\ UNCHANGED <<plan, pc, then, after, result, configured, recovering, rebuilds, round,
                   StepVars, dead, Rest, trouble>>
-----------------------------------------------------------------------------
(* The agent: what its steps are made of.                                  *)

Fail == result' = "failed" /\ pc' = "cleanup" /\ confirmed' = {}

Begun == {"codec", "qos", "enable"}     \* write_ascs: begin_ascs_operation first

NotesKept(op) == IF op \in Begun THEN <<>> ELSE notes

Rejection(ns, op) == \E i \in DOMAIN ns : ns[i].op = op /\ ~ns[i].ok

\* check_ascs_errors takes every control point notification and looks for a
\* rejection among those with the opcode of the running operation.
Blames(ns, op) ==
    misblamed' = (misblamed
        \/ \E i \in DOMAIN ns : ns[i].op = op /\ ~ns[i].ok /\ ns[i].round # round % 2)

\* One ATT write to the control point, for these endpoints, up to its response.
\* What the headset notified before has then been received.
Write(op, es) ==
    /\ linked /\ ~dead
    /\ \E willing, exactly \in BOOLEAN :
          /\ (willing /\ exactly) \/ op \in {"codec", "qos"} \/ (exactly /\ op = "enable")
          /\ IF willing /\ exactly THEN UNCHANGED trouble ELSE Trouble
          /\ Handle(op, es, willing, exactly)
          /\ slipped' = (slipped \/ ~willing)
    /\ opcode' = IF op \in Begun THEN op ELSE opcode
    /\ misused' = (misused \/ (~slipped /\ op # "release" /\ \E e \in es : ~Legal(op, e)))
    /\ UNCHANGED <<controllerVars, late>>

\* write_ascs: the check that follows the write sees what came with its response.
WriteChecked(op, next) ==
    LET ns == NotesKept(op) \o air IN
    /\ Write(op, Endpoint)
    /\ Blames(ns, op)
    /\ notes' = <<>>
    /\ IF Rejection(ns, op) THEN Fail ELSE pc' = next /\ confirmed' = {} /\ UNCHANGED result

\* A request that is not answered: the bearer is given up, and what was to be
\* done is not done.
Unanswered == linked /\ ~dead /\ Trouble /\ dead' = TRUE
Unreachable == (~linked \/ dead) /\ UNCHANGED <<dead, trouble>>
NotDone == Unanswered \/ Unreachable

Reading == {"freed", "codecs", "qoses", "streams"}

\* Mutant: the end of a channel is awaited for as long as it takes.
DeadlinesButForChannels == Reading \cup {"polling", "await"}

\* What has a deadline: the wait for a state (wait_for_ase), the polls of a release
\* (900 ms), the wait for a channel's end (3 s), the wait for channels (8 s).
Deadlines == Reading \cup {"polling", "closing", "await"}

\* The deadline passes: because the other side keeps silent or has nothing more to
\* send, or, a trouble, just before what is due.
OutOfTime(who, due) ==
    /\ pc \in Deadlines
    /\ IF due /\ silent # who THEN Trouble ELSE UNCHANGED trouble

\* released, codec_response, qos_response and streaming_response: what wait_for_ase
\* makes of the value it has read.
Released(e) == ase[e].state \in {"idle", "codec"}
CodecAsWanted(e) == ase[e].state = "codec" /\ ase[e].fits
QosAsWanted(e) == ase[e].state = "qos" /\ ase[e].ch = Channel(e)
StreamAsWanted(e) == ase[e].state = "streaming" /\ ase[e].ch = Channel(e)

AsWanted(e) ==
    CASE pc = "freed" -> Released(e) [] pc = "codecs" -> CodecAsWanted(e)
      [] pc = "qoses" -> QosAsWanted(e) [] pc = "streams" -> StreamAsWanted(e)

NextStep ==
    CASE pc = "freed" -> "codec" [] pc = "codecs" -> "prepare"
      [] pc = "qoses" -> "enable" [] pc = "streams" -> "playing"

Pending == CHOOSE e \in Endpoint \ confirmed : \A f \in Endpoint \ confirmed : e <= f

\* wait_for_ase: one read of the endpoint whose turn it is.  The notification
\* may or may not have come before the response; a rejection ends the wait.
ReadBack ==
    /\ pc \in Reading /\ linked /\ ~dead
    /\ \E come \in BOOLEAN :
          LET ns == IF come THEN notes \o air ELSE notes IN
          /\ air' = IF come THEN <<>> ELSE air
          /\ notes' = <<>>
          /\ Blames(ns, opcode)
          /\ IF Rejection(ns, opcode) THEN Fail
             ELSE /\ AsWanted(Pending)
                  /\ UNCHANGED result
                  /\ IF confirmed \cup {Pending} = Endpoint
                     THEN pc' = NextStep /\ confirmed' = {}
                     ELSE confirmed' = confirmed \cup {Pending} /\ UNCHANGED pc
    /\ UNCHANGED <<plan, silent, then, after, configured, recovering, rebuilds, round, asked,
                   opcode, dead, known, pending, reported, route, ase, controllerVars, slipped,
                   misused, late, trouble>>

\* The deadline passes, or the read fails.
ReadBackFails ==
    /\ pc \in Reading
    /\ \/ linked /\ ~dead /\ ~AsWanted(Pending) /\ pc \in Deadlines
          /\ UNCHANGED <<dead, trouble>>
       \/ NotDone
    /\ Fail
    /\ UNCHANGED <<plan, silent, then, after, configured, recovering, rebuilds, round, asked,
                   opcode, notes, known, pending, reported, route, peerVars, controllerVars,
                   ghostVars>>

-----------------------------------------------------------------------------
(* play_on up to the group.                                                *)

\* Handles are read, the control point is subscribed to; from here on the
\* endpoints count as configured.
PlanStream ==
    /\ pc = "plan"
    /\ \/ /\ linked /\ ~dead
          /\ pc' = "free" /\ then' = "freed" /\ configured' = TRUE
          /\ slipped' = FALSE
          /\ UNCHANGED <<result, confirmed, dead, trouble>>
       \/ NotDone /\ Fail /\ UNCHANGED <<then, configured, slipped>>
    /\ UNCHANGED <<plan, silent, after, recovering, rebuilds, round, asked, opcode, notes,
                   known, pending, reported, route, peerVars, controllerVars, misused,
                   misblamed, late>>

\* The user has asked for something else meanwhile.
Interrupted ==
    /\ pc \in {"plan", "recover", "sound"}
    /\ Trouble
    /\ pc' = "over"
    /\ UNCHANGED <<flowVars, StepVars, dead, Rest>>

\* release_all_streams leaves idle endpoints alone when it could read them all;
\* release_streams after a stream or a failure names the configured ones.
ToRelease ==
    IF pc = "free" THEN {Endpoint, {e \in Endpoint : ase[e].state # "idle"}}
    ELSE IF configured THEN {Endpoint} ELSE {{}}

Releasing == {"free", "handback", "cleanup"}

HandsBack == result # "lost"

ReleaseStreams ==
    /\ pc \in Releasing
    /\ pc = "handback" => HandsBack
    /\ pc = "cleanup" => then = "teardown"
    /\ \E es \in ToRelease :
          \/ /\ es # {}
             /\ Write("release", es)
             /\ asked' = es /\ pc' = "polling"
             /\ notes' = notes \o air
             /\ UNCHANGED <<dead, misblamed>>
          \/ /\ es = {} \/ ~linked \/ dead
             /\ pc' = then
             /\ UNCHANGED <<asked, opcode, notes, dead, Rest, trouble>>
          \/ /\ es # {} /\ Unanswered
             /\ pc' = then
             /\ UNCHANGED <<asked, opcode, notes, Rest>>
    /\ configured' = (configured /\ pc = "free")
    /\ UNCHANGED <<plan, silent, then, after, result, recovering, rebuilds, round, confirmed,
                   known, pending, reported, route>>

NothingToRelease ==
    /\ pc = "handback" /\ ~HandsBack
    /\ pc' = then /\ configured' = FALSE
    /\ UNCHANGED <<plan, silent, then, after, result, recovering, rebuilds, round, StepVars,
                   dead, Rest, trouble>>

\* release_streams polls until all have reported, or for 900 ms; after a poll that
\* is not answered the rest of them fail at once.
Polled ==
    /\ pc = "polling"
    /\ \/ /\ linked /\ ~dead /\ \A e \in asked : ase[e].state \in {"idle", "codec"}
          /\ UNCHANGED <<dead, trouble>>
       \/ ~linked /\ UNCHANGED <<dead, trouble>>
       \/ linked /\ OutOfTime("headset", TRUE) /\ UNCHANGED dead
       \/ pc \in Deadlines /\ Unanswered
    /\ pc' = then
    /\ \E come \in BOOLEAN : /\ notes' = IF come THEN notes \o air ELSE notes
                             /\ air' = IF come THEN <<>> ELSE air
    /\ UNCHANGED <<flowVars, confirmed, asked, opcode, known, pending, reported, route, ase,
                   controllerVars, ghostVars>>

\* Config Codec, Config QoS and Enable, each a batch for all endpoints.
Configure ==
    /\ \/ pc = "codec" /\ WriteChecked("codec", "codecs")
       \/ pc = "qos" /\ WriteChecked("qos", "qoses")
       \/ pc = "enable" /\ WriteChecked("enable", "create")
    /\ UNCHANGED <<plan, silent, then, after, configured, recovering, rebuilds, round, asked, dead,
                   known, pending, reported, route>>

ConfigureFails ==
    /\ pc \in Begun
    /\ NotDone /\ Fail
    /\ UNCHANGED <<plan, silent, then, after, configured, recovering, rebuilds, round, asked,
                   opcode, notes, known, pending, reported, route, Rest>>

\* start_receivers: for a microphone only, and its outcome is not looked at.
StartReceivers ==
    /\ pc = "ready"
    /\ LET sources == {e \in Endpoint : plan[e] = "source"} IN
       \/ /\ sources # {} /\ Write("ready", sources)
          /\ notes' = notes \o air
          /\ UNCHANGED <<dead, misblamed>>
       \/ /\ sources = {} \/ ~linked \/ dead
          /\ UNCHANGED <<opcode, notes, dead, Rest, trouble>>
       \/ /\ sources # {} /\ Unanswered /\ UNCHANGED <<opcode, notes, Rest>>
    /\ pc' = "streams"
    /\ UNCHANGED <<flowVars, confirmed, asked, known, pending, reported, route>>
-----------------------------------------------------------------------------
(* The group and its channels.                                             *)

\* prepare_isochronous begins with what the last group left.
Prepare ==
    /\ pc = "prepare"
    /\ pc' = "teardown" /\ after' = "prepared"
    /\ UNCHANGED <<plan, silent, then, result, configured, recovering, rebuilds, round,
                   StepVars, dead, Rest, trouble>>

\* release_cis: Disconnect for every remembered channel.  One the controller does
\* not know is gone already; a refusal of any other kind is passed over, and the
\* channel's end awaited like the others'.
TearDown ==
    /\ pc = "teardown"
    /\ pending' = known \cap (open \cup waiting)
    /\ \/ closing' = closing \cup pending' /\ UNCHANGED trouble
       \/ \E refused \in (SUBSET pending') \ {{}} :
             Trouble /\ closing' = closing \cup (pending' \ refused)
    /\ pc' = "closing"
    /\ UNCHANGED <<flowVars, confirmed, asked, opcode, notes, known, reported, route, dead,
                   peerVars, linked, group, waiting, open, events, ghostVars>>

End(i) == events[i].kind = "closed" /\ events[i].ch \in pending

\* The next end of an awaited channel is taken, the other events are left where
\* they are.  An end that came too late for an earlier wait passes for one.
ChannelEnds ==
    /\ pc = "closing"
    /\ \E i \in DOMAIN events :
          /\ End(i) /\ \A j \in 1..(i - 1) : ~End(j)
          /\ pending' = pending \ {events[i].ch}
          /\ events' = RemoveAt(events, i)
    /\ UNCHANGED <<pc, flowVars, confirmed, asked, opcode, notes, known, reported, route, dead,
                   peerVars, linked, group, waiting, open, closing, ghostVars, trouble>>

\* Ends that have come or will come.
ToCome == {ch \in pending : ch \in closing \/ \E i \in DOMAIN events : events[i] = Ch(ch, "closed")}

\* Mutant: the channels are forgotten with the attempt to release them.
ForgetAll(removed) == {}

Remembered(removed) ==
    IF removed THEN {} ELSE IF pending = {} THEN known ELSE pending

\* After the last end, or three seconds, the removal of the group, which the
\* controller refuses while a channel is in use.  Only when the group is gone
\* are the channels forgotten.
TornDown ==
    /\ pc = "closing"
    /\ IF pending = {} THEN UNCHANGED trouble ELSE OutOfTime("controller", ToCome # {})
    /\ late' = (late \/ ToCome # {})
    /\ LET removed == open \cup waiting = {} IN
       /\ group' = (group /\ ~removed)
       /\ known' = Remembered(removed)
       /\ pending' = {}
       /\ IF after = "prepared"
          THEN IF removed THEN pc' = "create group" /\ UNCHANGED <<result, confirmed>> ELSE Fail
          ELSE pc' = after /\ UNCHANGED <<result, confirmed>>
    /\ UNCHANGED <<plan, silent, then, after, configured, recovering, rebuilds, round, asked,
                   opcode, notes, reported, route, dead, peerVars, linked, waiting, open,
                   closing, events, slipped, misused, misblamed>>

\* LE Set CIG Parameters: the handles are remembered as soon as they are known.
CreateGroup ==
    /\ pc = "create group"
    /\ \/ /\ group' = TRUE /\ known' = Channels
          /\ pc' = "qos" /\ UNCHANGED <<result, confirmed, trouble>>
       \/ Trouble /\ Fail /\ UNCHANGED <<group, known, pending>>
    /\ UNCHANGED <<plan, silent, then, after, configured, recovering, rebuilds, round, asked,
                   opcode, notes, pending, reported, route, dead, peerVars, linked, waiting,
                   open, closing, events, ghostVars>>

\* establish_prepared: LE Create CIS for all channels at once.
CreateChannels ==
    /\ pc = "create"
    /\ \/ /\ linked
          /\ waiting' = Channels /\ reported' = <<>>
          /\ pc' = "await" /\ UNCHANGED <<then, after, result, confirmed, trouble>>
       \/ /\ \/ ~linked /\ UNCHANGED trouble
             \/ linked /\ Trouble
          /\ pc' = "teardown" /\ after' = "cleanup" /\ result' = "failed"
          /\ UNCHANGED <<then, waiting, reported, confirmed>>
    /\ UNCHANGED <<plan, silent, configured, recovering, rebuilds, round, asked, opcode, notes,
                   known, pending, route, dead, peerVars, linked, group, open, closing, events,
                   ghostVars>>

Seen == {reported[i].ch : i \in DOMAIN reported}

\* An event about one of the channels that has not reported yet.  An event an
\* earlier group left behind is taken like any other.
ChannelReports ==
    /\ pc = "await" /\ Seen # Channels
    /\ \E i \in DOMAIN events :
          /\ events[i].kind # "closed" /\ events[i].ch \in Channels \ Seen
          /\ \A j \in 1..(i - 1) : events[j].kind = "closed" \/ events[j].ch \in Seen
          /\ reported' = Append(reported, events[i])
          /\ events' = RemoveAt(events, i)
    /\ UNCHANGED <<pc, flowVars, confirmed, asked, opcode, notes, known, pending, route, dead,
                   peerVars, linked, group, waiting, open, closing, ghostVars, trouble>>

\* Mutant: the channels stay in the order in which they reported.
InOrderOfArrival == [i \in DOMAIN reported |-> reported[i].ch]

\* Back into the order the group defines: channel n of the audio goes to CIS n.
InOrder == CHOOSE s \in SetToSeqs(Seen) : \A i, j \in DOMAIN s : i < j => s[i] < s[j]

\* All have reported, or time is up, or the link has ended.  Only with every
\* channel there does the attempt go on; the data paths need open channels.
Established ==
    /\ pc = "await"
    /\ \/ (Seen = Channels \/ ~linked) /\ UNCHANGED trouble
       \/ OutOfTime("controller", TRUE)
    /\ IF /\ Seen = Channels /\ Seen \subseteq open
          /\ \A i \in DOMAIN reported : reported[i].kind = "up"
       THEN /\ route' = InOrder /\ pc' = "ready"
            /\ UNCHANGED <<after, result>>
       ELSE /\ pc' = "teardown" /\ after' = "cleanup" /\ result' = "failed"
            /\ UNCHANGED route
    /\ UNCHANGED <<plan, silent, then, configured, recovering, rebuilds, round, confirmed,
                   asked, opcode, notes, known, pending, reported, dead, Rest>>
-----------------------------------------------------------------------------
(* The stream runs (IsoStream), and what follows it.                       *)

\* run_audio returns: stopped by the user, silence with another device waiting,
\* a lost channel or capture device, an error, or the lost link.
AudioEnds ==
    /\ pc = "playing"
    /\ \/ linked /\ result' \in {"stopped", "yielded", "recover"}
       \/ ~linked /\ result' = "lost"
    /\ Trouble
    /\ pc' = "handback" /\ then' = "teardown" /\ after' = "decide"
    /\ \E stable \in BOOLEAN : /\ recovering' = (recovering /\ ~stable)
                               /\ rebuilds' = IF stable THEN 0 ELSE rebuilds
    /\ UNCHANGED <<plan, silent, configured, round, StepVars, dead, Rest>>

AudioLost ==
    /\ pc = "playing" /\ ~linked
    /\ result' = "lost"
    /\ pc' = "handback" /\ then' = "teardown" /\ after' = "decide"
    /\ UNCHANGED <<plan, silent, configured, recovering, rebuilds, round, StepVars, dead, Rest,
                   trouble>>

\* After a failure: release_streams for what was configured, then
\* release_prepared_group.
CleanUp ==
    /\ pc = "cleanup" /\ then # "teardown"
    /\ then' = "teardown" /\ after' = "decide"
    /\ UNCHANGED <<plan, silent, pc, result, configured, recovering, rebuilds, round, StepVars,
                   dead, Rest, trouble>>

\* play(), after the attempt.
Decide ==
    /\ pc = "decide"
    /\ then' = "none" /\ after' = "none" /\ result' = "none"
    /\ reported' = <<>> /\ route' = <<>>
    /\ CASE ~linked \/ result \in {"stopped", "lost"} ->
              pc' = "over" /\ UNCHANGED <<recovering, rebuilds>>
         [] linked /\ result = "yielded" -> pc' = "sound" /\ UNCHANGED <<recovering, rebuilds>>
         [] linked /\ result = "recover" ->
              pc' = "recover" /\ recovering' = TRUE /\ UNCHANGED rebuilds
         [] linked /\ result = "failed" ->
              /\ rebuilds' = IF recovering THEN rebuilds + 1 ELSE rebuilds
              /\ pc' = IF recovering /\ rebuilds' < 3 THEN "recover" ELSE "over"
              /\ UNCHANGED recovering
    /\ UNCHANGED <<plan, silent, configured, round, confirmed, asked, opcode, notes, dead,
                   known, pending, Rest, trouble>>

\* Mutant: the notifications that came meanwhile stay where they are.
Uncollected == notes

\* service_recovery_link reads everything that has arrived and drops what is
\* neither availability, volume nor battery.
Collected == <<>>

\* wait_audio_recovery: the interval has passed.
Recover ==
    /\ pc = "recover" /\ linked /\ round < MaxRounds
    /\ pc' = "plan" /\ round' = round + 1
    /\ notes' = Collected /\ air' = <<>>
    /\ UNCHANGED <<plan, silent, then, after, result, configured, recovering, rebuilds,
                   confirmed, asked, opcode, dead, known, pending, reported, route, ase,
                   controllerVars, ghostVars, trouble>>

\* wait_for_sound: sound, or the headset is free again.  It reads the packets
\* with a reassembler of its own; the link's notifications stay.
SoundHeard ==
    /\ pc = "sound" /\ linked /\ round < MaxRounds
    /\ pc' = "plan" /\ round' = round + 1
    /\ air' = <<>>
    /\ UNCHANGED <<plan, silent, then, after, result, configured, recovering, rebuilds,
                   StepVars, dead, ase, controllerVars, ghostVars, trouble>>

\* The link is lost, or the window of the recovery is over.
WaitEnds ==
    /\ pc \in {"recover", "sound"}
    /\ ~linked \/ round = MaxRounds
    /\ pc' = "over"
    /\ UNCHANGED <<flowVars, StepVars, dead, Rest, trouble>>

Next ==
    \/ PlanStream \/ Interrupted \/ ReleaseStreams
    \/ NothingToRelease \/ Polled \/ ReadBack \/ ReadBackFails
    \/ Configure \/ ConfigureFails \/ Prepare \/ TearDown \/ ChannelEnds \/ TornDown
    \/ CreateGroup \/ CreateChannels \/ ChannelReports \/ Established \/ StartReceivers
    \/ AudioEnds \/ AudioLost \/ CleanUp \/ Decide \/ Recover \/ SoundHeard \/ WaitEnds
    \/ AseMoves \/ AseSlips \/ ChannelOpens \/ ChannelCloses \/ LinkLost \/ FallsSilent

Spec == Init /\ [][Next]_vars

\* The agent's thread runs on while it has something to do, and its clock with it.
\* The headset and the controller do in the end what they were asked, or fall
\* silent, which they are free to do at any time.
Fairness ==
    /\ WF_vars(PlanStream \/ ReleaseStreams \/ NothingToRelease \/ Polled \/ Configure)
    /\ WF_vars(ReadBack \/ ReadBackFails) /\ WF_vars(ConfigureFails)
    /\ WF_vars(Prepare \/ TearDown \/ ChannelEnds \/ TornDown \/ CreateGroup \/ CreateChannels)
    /\ WF_vars(ChannelReports \/ Established \/ StartReceivers \/ CleanUp \/ Decide)
    /\ WF_vars(AseMoves) /\ WF_vars(ChannelOpens) /\ WF_vars(ChannelCloses)

FairSpec == Spec /\ Fairness
-----------------------------------------------------------------------------
(* Properties.                                                             *)

\* As long as the headset does nothing of its own accord, every operation reaches
\* its endpoints in a state from which ASCS allows it; and a rejection ends
\* only the attempt it belongs to, never the next one, which writes the same
\* opcode again.  (agent.rs play_on, session.rs write_ascs, link.rs
\* begin_ascs_operation and check_ascs_errors)
OperationsFit == ~misused /\ ~misblamed

\* Audio starts only when every endpoint streams, on the channel the plan gave it,
\* that channel is open, and the n-th channel written to is the n-th of the
\* group: each ear its own sound.  (negotiation.rs streaming_response,
\* session.rs establish_prepared)
EarsConfirmed ==
    [][(pc = "streams" /\ pc' = "playing" /\ ~slipped) =>
          \A e \in Endpoint :
             /\ ase[e].state = "streaming" /\ ase[e].ch = Channel(e)
             /\ Channel(e) \in open /\ route[Channel(e)] = Channel(e)]_vars

\* When play returns over a live link, no endpoint is left as it was set up, so
\* that another host can have it, and no channel is left that the session has
\* forgotten, unless a teardown once gave up on a channel whose end was still to
\* come.  (agent.rs play_on, session.rs release_streams, release_cis)
NothingLeft ==
    (pc = "over" /\ linked /\ ~dead) =>
        /\ \A e \in Endpoint : ase[e].state \in {"idle", "codec", "releasing"} \/ ase[e].ch = 0
        /\ ~late => (open \cup waiting) \subseteq known

Waiting == {"playing", "recover", "sound", "over"}

\* Every attempt comes to an end, in sound, in a wait for it or in a failure, though
\* the endpoints may never move again and the controller never report: the
\* read-backs, the polls of a release, the teardown and the wait for the channels
\* each have a deadline of their own.  (agent.rs wait_for_ase, session.rs
\* release_streams, release_cis, establish_prepared)
AttemptEnds == (pc = "plan") ~> (pc \in Waiting)
=============================================================================
