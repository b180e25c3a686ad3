------------------------------ MODULE Planning ------------------------------
(***************************************************************************)
(* How a stream is chosen: what the headset publishes (PacRecord and       *)
(* CodecCapabilities in dev/core/src/bap.rs), the walk over Android's      *)
(* priority lists (google.rs), the plan (stream.rs, preflight.rs), the     *)
(* values the endpoints answer with (ask_device_for_qos, negotiation.rs),  *)
(* and the limits the agent remembers of them to judge a configuration     *)
(* before it connects (known_devices, preflight_for in bin/agent.rs).      *)
(*                                                                         *)
(* Rates are in kHz, frame durations and nothing else in tenths of a       *)
(* millisecond, delays and latencies in milliseconds.  An option is a set  *)
(* of at most one element; so is a plan that may not exist.                *)
(***************************************************************************)
EXTENDS Integers, Sequences, FiniteSets, FiniteSetsExt, SequencesExt

CONSTANTS Devices,      \* headsets: what they publish and what they will accept
          UserSettings, \* settings the user may have chosen
          MaxLimits,    \* limits remembered of a headset (64 in the code)
          MaxRounds     \* bound: connect commands

\* A PAC record, and what an endpoint answers to Config Codec: numbers as they are
\* parsed.  ASCS gives every endpoint an id of its own, and an endpoint answers for
\* either radio.
Options(S) == {o \in SUBSET S : \A x, y \in o : x = y}
Pacs == [lc3 : BOOLEAN, rates : SUBSET Nat, ms : SUBSET Nat, octets : Options(Nat \X Nat),
         counts : SUBSET Nat, frames : Options(Nat)]
Replies == [min : Nat, max : Nat, prefmin : Nat, prefmax : Nat, rtn : Nat, transport : Nat,
            framed : BOOLEAN]

ASSUME PlanningAssumption ==
    /\ MaxRounds \in Nat /\ MaxLimits \in Nat \ {0}
    /\ \A d \in Devices :
          /\ d.ases \in Seq(Nat) /\ IsInjective(d.ases) /\ d.mics \in Seq(Nat)
          /\ \A mood \in d.moods, phy \in {1, 2}, a \in ToSet(d.ases) : mood[phy][a] \in Replies
          /\ d.micAnswer \in Replies
          /\ d.sinks \in Seq(Pacs) /\ d.sources \in Seq(Pacs)
    /\ \A s \in UserSettings : s.delay \in Nat

VARIABLES
    device,     \* the headset
    answers,    \* what its endpoints answer now: one of device.moods
    settings,   \* the settings in the file
    caps,       \* capabilities known of it: an option (known_devices)
    limits,     \* QoS limits it has answered with before (KnownDevice.qos)
    asked,      \* an observation: every usable answer it has given
    verdict,    \* what preflight said of the last connect command
    plan,       \* the plan, an option
    stage,      \* "idle", "connected", "planned", "agreed" or "failed"
    round

planVars == <<device, answers, settings, caps, limits, asked, verdict, plan, stage, round>>

NoCaps == {}
PlanInit ==
    /\ device \in Devices /\ answers \in device.moods
    /\ settings \in UserSettings
    /\ caps = NoCaps /\ limits = {} /\ asked = {} /\ verdict = "unknown"
    /\ plan = {} /\ stage = "idle" /\ round = 0
-----------------------------------------------------------------------------
(* What a headset publishes.                                               *)

The(option, default) == IF option = {} THEN default ELSE CHOOSE x \in option : TRUE

\* CodecCapabilities::parse: what is left out has a default, or no bound.
Parsed(r) ==
    [lc3 |-> r.lc3, rates |-> r.rates, ms |-> r.ms, octets |-> r.octets,
     counts |-> IF r.counts = {} THEN {1} ELSE r.counts,
     frames |-> The(r.frames, 1)]

\* PacRecord::parse_characteristic: a record that is not there to its metadata
\* ends the list, and the ones before it are kept.
Records(value) ==
    LET whole == IF value.cut THEN Len(value.records) - 1 ELSE Len(value.records)
    IN {Parsed(value.records[i]) : i \in 1..whole}

Lc3(records) == {r \in records : r.lc3}

Left == {"left"}
Stereo == {"left", "right"}
NoEar == {}     \* LOCATION_MONO

Codec(rate, ms, octets, ears) == [rate |-> rate, ms |-> ms, octets |-> octets, ears |-> ears]

\* Every channel's frame, in 16 bits.
SduSize(c) == (c.octets * (IF c.ears = NoEar THEN 1 ELSE Cardinality(c.ears))) % 65536

Accepts(r, c) ==
    /\ c.rate \in r.rates /\ c.ms \in r.ms
    /\ \A range \in r.octets : c.octets \in range[1]..range[2]
    /\ c.ears # NoEar => Cardinality(c.ears) \in r.counts

AcceptedBy(records, c) == \E r \in Lc3(records) : Accepts(r, c)

StereoInOne(r) == 2 \in r.counts /\ r.frames >= 2

\* What the settings page is told the headset takes: the records, flattened.
Envelope(records) ==
    LET lc3 == Lc3(records)
        bounded == {r \in lc3 : r.octets # {}}
    IN [rates |-> UNION {r.rates : r \in lc3},
        ms |-> UNION {r.ms : r \in lc3},
        octets |-> IF bounded = {} THEN {}
                   ELSE {<<Min({The(r.octets, 0)[1] : r \in bounded}),
                           Max({The(r.octets, 0)[2] : r \in bounded})>>}]
-----------------------------------------------------------------------------
(* Android's lists.                                                        *)

Candidate(rate, ms, octets, profile, rtn, transport) ==
    [rate |-> rate, ms |-> ms, octets |-> octets, profile |-> profile,
     rtn |-> rtn, transport |-> transport]

\* A profile leaves the radio numbers to the headset, and until it has answered
\* stands for 13 retransmissions in 95 ms (QosProfile::resolve).
Profiled(rate, ms, octets, profile) == Candidate(rate, ms, octets, profile, 13, 95)
Explicit(rate, ms, octets, transport) == Candidate(rate, ms, octets, "balanced", 13, transport)

MediaOrder ==
    << Profiled(48, 100, 120, "reliable"), Explicit(48, 100, 120, 100),
       Profiled(48, 100, 100, "reliable"), Explicit(48, 100, 100, 95),
       Profiled(48, 75, 90, "reliable"),   Explicit(48, 75, 90, 75),
       Profiled(48, 75, 75, "reliable"),   Explicit(48, 75, 75, 75),
       Profiled(24, 100, 60, "balanced"),  Explicit(24, 100, 60, 95),
       Profiled(16, 100, 40, "balanced"),  Explicit(16, 100, 40, 95),
       Profiled(16, 75, 30, "balanced"),   Explicit(16, 75, 30, 75) >>

GameOrder ==
    [i \in 1..9 |-> LET s == << <<48, 100, 100>>, <<48, 75, 90>>, <<48, 75, 75>>,
                                <<32, 100, 80>>, <<32, 75, 60>>, <<24, 100, 60>>,
                                <<24, 75, 45>>, <<16, 100, 40>>, <<16, 75, 30>> >>
                    IN Profiled(s[i][1], s[i][2], s[i][3], "low")]

\* choose: the first candidate some record accepts, on two streams.
Chosen(order, records) ==
    LET fits(c) == AcceptedBy(records, Codec(c.rate, c.ms, c.octets, Left))
        i == SelectInSeq(order, fits)
    IN IF i = 0 THEN {} ELSE {order[i]}
-----------------------------------------------------------------------------
(* The plan.                                                               *)

Qos(phy, sdu, rtn, transport, delay) ==
    [phy |-> phy, sdu |-> sdu, rtn |-> rtn, transport |-> transport, delay |-> delay]

\* StreamPlan::build_custom.  A single endpoint that could take both ears in one
\* stream gets them; two endpoints get one each.
BuildCustom(c, codec, qos, latency, context) ==
    LET single == Len(c.ases) = 1 /\ \E r \in Lc3(c.sinks) : StereoInOne(r)
        shaped == [codec EXCEPT !.ears = IF single THEN Stereo ELSE Left]
    IN IF c.ases # <<>> /\ codec.rate # 44 /\ AcceptedBy(c.sinks, shaped)
       THEN {[codec |-> shaped, qos |-> [qos EXCEPT !.sdu = SduSize(shaped)],
              single |-> single, ases |-> SubSeq(c.ases, 1, IF Len(c.ases) < 2 THEN 1 ELSE 2),
              latency |-> latency, context |-> context, mic |-> {}]}
       ELSE {}

\* custom_codec and custom_qos.
Custom(c, s) ==
    BuildCustom(c, Codec(s.rate, s.ms, s.octets, Left),
                Qos(s.phy, s.octets, s.rtn, s.transport, s.delay),
                IF s.context = "game" THEN "low" ELSE "reliable", s.context)

\* build_google_scenario, and the 1M radio of the range preset.
Automatic(c, s) ==
    UNION {BuildCustom(c, Codec(x.rate, x.ms, x.octets, Left),
                       Qos(IF s.preset = "range" THEN 1 ELSE 2, 0, x.rtn, x.transport, 40),
                       x.profile, s.context)
             : x \in Chosen(IF s.context = "game" THEN GameOrder ELSE MediaOrder, c.sinks)}

IntoMono(p) ==
    LET codec == [p.codec EXCEPT !.ears = Left]
    IN [p EXCEPT !.ases = SubSeq(@, 1, 1), !.single = FALSE, !.codec = codec,
                 !.qos.sdu = SduSize(codec)]

MicOrder(quality) ==
    LET at(rates) == [i \in DOMAIN rates |->
                        Codec(rates[i], 100, IF rates[i] = 48 THEN 100 ELSE (5 * rates[i]) \div 2,
                              NoEar)]
    IN CASE quality = "voice" -> at(<<16, 24, 32>>)
         [] quality = "balanced" -> at(<<32, 24, 16, 48>>)
         [] quality = "high" -> at(<<48, 32, 24, 16>>)

\* with_microphone: the headset's source shares the first channel.
WithMicrophone(p, c, quality) ==
    LET order == MicOrder(quality)
        i == SelectInSeq(order, LAMBDA x : AcceptedBy(c.sources, x))
    IN IF c.mics = <<>> \/ i = 0 THEN {}
       ELSE {[p EXCEPT !.mic = {[ase |-> c.mics[1], codec |-> order[i],
                                 qos |-> Qos(2, SduSize(order[i]), 2, 75, 40)]}]}

TransportLatencies == 5..4000

\* check_stream_parameters and preflight::validate.
Sane(codec, qos) ==
    /\ codec.rate # 44
    /\ codec.octets \in 1..400 /\ qos.rtn <= 15 /\ qos.transport \in TransportLatencies
    /\ qos.phy \in {1, 2} /\ qos.sdu = SduSize(codec) /\ qos.delay <= 16777

Valid(p) == Sane(p.codec, p.qos) /\ \A m \in p.mic : Sane(m.codec, m.qos)

\* preflight::plan.
PlanOf(s, c) ==
    LET chosen == IF s.preset = "custom" THEN Custom(c, s) ELSE Automatic(c, s)
        shaped == IF s.mode = "mono" THEN {IntoMono(p) : p \in chosen} ELSE chosen
        heard == IF s.mic = "off" THEN shaped
                 ELSE UNION {WithMicrophone(p, c, s.mic) : p \in shaped}
    IN IF \A known \in c.contexts : s.context \in known
       THEN {p \in heard : Valid(p)} ELSE {}

\* channel_allocation: which ears an endpoint is told it plays.
Ears(p, i) ==
    CASE ~p.single /\ Len(p.ases) = 1 -> p.codec.ears
      [] p.single -> Stereo
      [] OTHER -> IF i = 1 THEN Left ELSE {"right"}

\* cig_command: the bytes each channel of the group carries, down and up.
Group(p) ==
    [i \in 1..Max({Len(p.ases), 1}) |->
        [down |-> IF i \in DOMAIN p.ases
                  THEN IF p.single THEN SduSize(p.codec) ELSE p.codec.octets ELSE 0,
         up |-> IF i = 1 THEN The({m.qos.sdu : m \in p.mic}, 0) ELSE 0]]
-----------------------------------------------------------------------------
(* What the endpoints answer.  An answer depends on the radio and on the   *)
(* endpoint, and from one connection to the next on the headset's mood;    *)
(* 0 means that nothing is said, and of a preferred delay so does 0xFFFFFF *)
(* microseconds.                                                           *)

Answer(p, ase) == answers[p.qos.phy][ase]

Answers(p) == {Answer(p, a) : a \in ToSet(p.ases)}

Clamp(x, lo, hi) == Max({lo, Min({x, hi})})

Said(values) == {x \in values : x # 0}

NoPreference == 16777
Preferred(values) == Said(values) \ {NoPreference}

\* Mutant: each endpoint's own bounds are applied, and the longest delay is taken.
DelayOfEach(given, wanted, prefer) ==
    {Max({Clamp(wanted, a.min, a.max) : a \in given})}

\* negotiation::presentation_delay.
PresentationDelay(given, wanted, prefer) ==
    LET lo == Max({a.min : a \in given})
        hi == Min({a.max : a \in given})
        plo == Max({lo} \cup Preferred({a.prefmin : a \in given}))
        phi == Min({hi} \cup Preferred({a.prefmax : a \in given}))
    IN IF lo > hi THEN {}
       ELSE IF prefer /\ plo <= phi THEN {Clamp(wanted, plo, phi)}
       ELSE {Clamp(wanted, lo, hi)}

\* The shortest latency anybody can meet.
Ceiling(given) ==
    LET said == Said({a.transport : a \in given})
    IN IF said = {} THEN {} ELSE {Min(said)}

\* A custom plan is taken as it is or not at all; any other takes the numbers of
\* the headset.
Settled(s, p) ==
    LET custom == s.preset = "custom"
        game == s.context = "game"
        given == Answers(p)
        lo == Max({a.min : a \in given})
        hi == Min({a.max : a \in given})
        ceiling == Ceiling(given)
        rtn == Said({a.rtn : a \in given})
        refused == \/ custom /\ p.qos.delay \notin lo..hi
                   \/ custom /\ \E x \in ceiling : p.qos.transport > x
    IN IF refused THEN {}
       ELSE {[p EXCEPT !.qos.delay = d,
                       !.qos.rtn = IF custom \/ rtn = {} THEN @ ELSE Max(rtn),
                       !.qos.transport = IF custom THEN @ ELSE Min(ceiling \cup {@})]
               : d \in PresentationDelay(given, IF game /\ ~custom THEN 0 ELSE p.qos.delay,
                                         ~custom /\ ~game)}

WithMicAnswer(p) ==
    LET a == device.micAnswer IN
    IF p.mic = {} THEN {p}
    ELSE IF a.framed THEN {}
    ELSE {[p EXCEPT !.mic = {[m EXCEPT !.qos.delay = d,
                                       !.qos.transport = Min({@} \cup Said({a.transport}))]
                               : m \in p.mic}]
            : d \in PresentationDelay({a}, 40, TRUE)}

\* ask_device_for_qos has no use for framed streams, nor for endpoints that have no
\* delay in common: then there is nothing to remember either.
Usable(p) ==
    (\A a \in Answers(p) : ~a.framed) /\ PresentationDelay(Answers(p), 0, FALSE) # {}

Agreed(s, p) == {q \in UNION {WithMicAnswer(x) : x \in Settled(s, p)} : Valid(q)}
-----------------------------------------------------------------------------
(* What is remembered, and what preflight makes of it.                     *)

SameStream(l, p) ==
    l.codec = p.codec /\ l.phy = p.qos.phy /\ l.latency = p.latency /\ l.context = p.context

\* The place in the vector is the time of the question: a limit is pushed at its end.
Limit(p) ==
    LET given == Answers(p) IN
    [codec |-> p.codec, phy |-> p.qos.phy, latency |-> p.latency, context |-> p.context,
     min |-> Max({a.min : a \in given}), max |-> Min({a.max : a \in given}),
     transport |-> Ceiling(given), at |-> round]

\* Mutant: the limits known of this stream before are not taken out.
RememberTheseToo(p) == limits' = limits \cup {Limit(p)}

\* The limits of this stream replace those known of it; too many, and the oldest go.
RememberLimits(p) ==
    LET others == {l \in limits : ~SameStream(l, p)}
        kept == IF Cardinality(others) < MaxLimits THEN others
                ELSE {l \in others : \E older \in others : older.at < l.at}
    IN limits' = kept \cup {Limit(p)}

\* The observation of what the headset said, and of when.
Note(p) ==
    asked' = asked \cup {[codec |-> p.codec, phy |-> p.qos.phy, latency |-> p.latency,
                          context |-> p.context, answers |-> Answers(p), at |-> round]}

\* The first limits of this stream that are found.
Remembered(p) ==
    {l \in limits : SameStream(l, p) /\ \A m \in limits : SameStream(m, p) => l.at <= m.at}

WithinLimit(p, l) ==
    p.qos.delay \in l.min..l.max /\ \A x \in l.transport : p.qos.transport <= x

\* preflight_for, on the thread that reads the commands: "refused" is the end of
\* the command.
Preflight(s) ==
    IF caps = NoCaps THEN "unknown"
    ELSE LET p == PlanOf(s, The(caps, {})) IN
         IF p = {} THEN "no plan"
         ELSE LET l == Remembered(The(p, {})) IN
              IF s.preset # "custom" \/ l = {} THEN "possible"
              ELSE IF WithinLimit(The(p, {}), The(l, {})) THEN "within limits" ELSE "refused"

ConnectCommand ==
    /\ stage = "idle" /\ round < MaxRounds /\ round' = round + 1
    /\ settings' \in UserSettings
    /\ verdict' = Preflight(settings')
    /\ stage' = IF verdict' \in {"refused", "no plan"} THEN "idle" ELSE "connected"
    /\ plan' = {}
    /\ UNCHANGED <<device, answers, caps, limits, asked>>

\* read_audio_capabilities; a value may have been read short.
ReadCapabilities ==
    /\ stage = "connected" /\ plan = {}
    /\ \E cut \in BOOLEAN :
          LET read == [sinks |-> Records([records |-> device.sinks, cut |-> cut]),
                       sources |-> Records([records |-> device.sources, cut |-> FALSE]),
                       ases |-> device.ases, mics |-> device.mics, contexts |-> device.contexts]
              p == PlanOf(settings, read)
          IN /\ cut => device.sinks # <<>>
             /\ caps' = {read} /\ plan' = p
             /\ stage' = IF p = {} THEN "failed" ELSE "planned"
    /\ UNCHANGED <<device, answers, settings, limits, asked, verdict, round>>

\* play_on from the answers to Config Codec to the QoS it will write.
Negotiate ==
    /\ stage = "planned"
    /\ LET p == The(plan, {}) IN
       /\ IF Usable(p) THEN RememberLimits(p) /\ Note(p) ELSE UNCHANGED <<limits, asked>>
       /\ plan' = IF Usable(p) THEN Agreed(settings, p) ELSE {}
    /\ stage' = IF plan' = {} THEN "failed" ELSE "agreed"
    /\ UNCHANGED <<device, answers, settings, caps, verdict, round>>

\* The stream ends, or never came to be.
Ends ==
    /\ stage \in {"agreed", "failed"}
    /\ stage' = "idle" /\ plan' = {} /\ verdict' = "unknown"
    /\ UNCHANGED <<device, answers, settings, caps, limits, asked, round>>

\* Between two connections the headset may change what it answers: other firmware,
\* another mode.
ChangesItsMind ==
    /\ stage = "idle"
    /\ answers' \in device.moods \ {answers}
    /\ UNCHANGED <<device, settings, caps, limits, asked, verdict, plan, stage, round>>

PlanNext == ConnectCommand \/ ReadCapabilities \/ Negotiate \/ Ends \/ ChangesItsMind

PlanSpec == PlanInit /\ [][PlanNext]_planVars
-----------------------------------------------------------------------------
(* Properties.                                                             *)

Published(records) == {Parsed(records[i]) : i \in DOMAIN records}

\* Accepted as it is; or with both ears, when mono took one away afterwards, which
\* into_mono does not check again.
Accepted(p) ==
    \/ AcceptedBy(Published(device.sinks), p.codec)
    \/ settings.mode = "mono" /\ AcceptedBy(Published(device.sinks), [p.codec EXCEPT !.ears = Stereo])

\* Every endpoint is one of the headset's, each of them once; the ears they are
\* told add up; and the group carries to each what its endpoint was told to expect.
Consistent(p) ==
    /\ IsInjective(p.ases) /\ ToSet(p.ases) \subseteq ToSet(device.ases)
    /\ UNION {Ears(p, i) : i \in DOMAIN p.ases} =
          IF p.single \/ Len(p.ases) = 2 THEN Stereo ELSE Left
    /\ \A i \in DOMAIN p.ases : Group(p)[i].down = p.qos.sdu
    /\ \A m \in p.mic :
          /\ Group(p)[1].up = SduSize(m.codec) /\ m.ase \in ToSet(device.mics)
          /\ AcceptedBy(Published(device.sources), m.codec)

\* One presentation delay all of them accept, and a transport latency under each
\* one's ceiling.
Granted(p, given) ==
    \A a \in given :
       /\ p.qos.delay \in a.min..a.max
       /\ a.transport # 0 => p.qos.transport <= a.transport

\* What is asked of the headset is something it published, in the settings page's
\* terms too, however much of its records was read; and what it answered then
\* holds for every endpoint at once: one presentation delay all of them accept, a
\* transport latency under each one's ceiling (StreamPlan::build_custom,
\* presentation_delay: "Max(per-endpoint clamp) is insufficient").
StreamFits ==
    LET published == Published(device.sinks) IN
    \A p \in plan :
       /\ Consistent(p) /\ Accepted(p)
       /\ p.codec.rate \in Envelope(published).rates /\ p.codec.ms \in Envelope(published).ms
       /\ \A range \in Envelope(published).octets :
             (\A r \in published : r.octets # {}) => p.codec.octets \in range[1]..range[2]
       /\ stage = "agreed" => Granted(p, Answers(p))

\* What preflight says of a custom configuration before connecting is what the
\* headset said the last time it was asked for this very stream: limits of another
\* codec, radio, latency or context never refuse a command or let it pass, nor do
\* limits that it has since replaced by others.  They may be the limits of other
\* endpoints of the headset, and the headset may have changed its mind unasked: the
\* code keeps neither (preflight_for, CachedQos).
PreflightQuotes ==
    verdict \in {"refused", "within limits"} /\ plan = {} /\ stage # "failed" =>
       \A p \in PlanOf(settings, The(caps, {})) : \E h \in asked :
          /\ SameStream(h, p)
          /\ \A other \in asked : SameStream(other, p) => other.at <= h.at
          /\ verdict = "within limits" <=> Granted(p, h.answers)
=============================================================================
